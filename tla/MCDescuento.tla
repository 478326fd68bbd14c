---------------------------- MODULE MCDescuento ----------------------------
(* Instances of Descuento for TLC: tables one or two rows away from every  *)
(* threshold of the function.                                              *)
EXTENDS Vistas

CONSTANTS t1, c1, m1, m2, m3, m4

(* Member 1 owns the boats bs, of which each makes the trips viajes[m].    *)
Flota(bs, viajes) ==
    [Vacia EXCEPT !.Socio = {[id_socio |-> 1, telefono |-> NULL, correo |-> NULL]},
                  !.Barco = {[n_matricula |-> m, id_socio |-> 1] : m \in bs},
                  !.Viaje_Barco = UNION {{[n_matricula |-> m, n_viaje |-> v] : v \in viajes[m]}
                                         : m \in bs}]

UnBarco  == Flota({m1}, [m \in {m1} |-> 1 .. 9])
DosNueve == Flota({m1, m2}, [m \in {m1, m2} |-> IF m = m1 THEN 1 .. 5 ELSE 4 .. 9])
DosVeinte == Flota({m1, m2}, [m \in {m1, m2} |-> IF m = m1 THEN 1 .. 12 ELSE 10 .. 19])
TresBarcos == Flota({m1, m2, m3}, [m \in {m1, m2, m3} |-> IF m = m3 THEN 1 .. 9 ELSE {}])

(* Two owners whose boats have made the same trips.                        *)
DosSocios ==
    [Vacia EXCEPT !.Socio = {[id_socio |-> i, telefono |-> NULL, correo |-> NULL] : i \in 1 .. 2},
                  !.Barco = {[n_matricula |-> m1, id_socio |-> 1],
                             [n_matricula |-> m2, id_socio |-> 2]},
                  !.Viaje_Barco = [n_matricula : {m1, m2}, n_viaje : 1 .. 10]]

Flotas == {UnBarco, DosNueve, DosVeinte, TresBarcos, DosSocios}

(* Fees that round up, down and to the half. *)
Importes == {0, 7, 50, 1500000}
=============================================================================
