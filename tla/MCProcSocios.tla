---------------------------- MODULE MCProcSocios ----------------------------
(* Instances of ProcSocios for TLC. *)
EXTENDS ProcSocios, TLC

CONSTANTS s1, s2, t1, c1, c2, m1, m2, v1, e1

Arg(texto)       == [texto |-> texto, sangria |-> FALSE]
Alta(b, t, c)    == [blancos |-> b, telefono |-> t, correo |-> c]

(* Member 1 has a boat with a trip and a stay. *)
Fila(id, t, c) == [id_socio |-> id, telefono |-> t, correo |-> c]
UnSocio == [Vacia EXCEPT !.Socio = {Fila(1, NULL, c1)}]
ConBarco ==
    [UnSocio EXCEPT !.Barco        = {[n_matricula |-> m1, id_socio |-> 1]},
                    !.Viaje_Barco  = {[n_matricula |-> m1, n_viaje |-> v1]},
                    !.Barco_Muelle = {[n_matricula |-> m1, estadia |-> e1]}]

(* Two callers that repeat a telephone, a mail address or both, a caller   *)
(* with no telephone, and one that leaves a surname blank.                 *)
EntradasMixtas ==
    {Alta({}, Arg(t1), Arg(c1)), Alta({}, Arg(t1), Arg(c2)), Alta({}, Arg(NULL), Arg(c1)),
     Alta({"apellido_paterno"}, Arg(t1), Arg(c1))}
UnaEntrada == {Alta({}, Arg(t1), Arg(c1))}
SinNumero  == {Alta({}, Arg(NULL), Arg(c1))}
DosTelefono == {Alta({}, Arg(t1), Arg(c1)), Alta({}, Arg(t1), Arg(c2))}

DatosBarco == {ConBarco}
DatosViaje == {[ConBarco EXCEPT !.Barco_Muelle = {}]}
DatosUno   == {UnSocio}
DatosNada  == {Vacia}

Simetria == Permutations(Sesiones)
=============================================================================
