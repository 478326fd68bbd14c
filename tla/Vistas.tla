------------------------------- MODULE Vistas -------------------------------
(***************************************************************************)
(* The view viajescompleta (vistas.sql), through which the application     *)
(* shows trips with their boats and owners, over the tables that           *)
(* calcular_descuento_mensualidad counts.                                  *)
(*                                                                         *)
(* Left out: the columns that only follow the keys, and the joins that     *)
(* keep every row and add none: of a trip with its patron and of a boat    *)
(* with its owner, both declared NOT NULL and FOREIGN KEY.                 *)
(***************************************************************************)
EXTENDS Descuento

ASSUME ViajesAssumption == NULL \notin Viajes /\ NULL \notin Matriculas

(* Viaje LEFT JOIN Viaje_Barco: a trip no boat made has a NULL boat.       *)
ViajesConBarco(b) ==
    b.Viaje_Barco
    \cup {[n_matricula |-> NULL, n_viaje |-> v] :
             v \in {w \in Viajes : \A h \in b.Viaje_Barco : h.n_viaje # w}}

Juntadas(b) ==
    {[n_viaje |-> p[1].n_viaje, barco |-> p[2]] :
        p \in {q \in ViajesConBarco(b) \X b.Barco : q[1].n_matricula = q[2].n_matricula}}

(* Mutant: INNER JOIN Barco.                                               *)
viajescompleta_Interno(b) == Juntadas(b)

(* RIGHT JOIN Barco: trips without boats go, boats without trips stay.     *)
viajescompleta(b) ==
    Juntadas(b)
    \cup {[n_viaje |-> NULL, barco |-> r] :
             r \in {q \in b.Barco : \A h \in ViajesConBarco(b) : h.n_matricula # q.n_matricula}}

(* What the view shows of a member is what the discount is given for: all  *)
(* the boats, those without trips too, and each trip of any of them        *)
(* (vistas.sql:46-50, funcion.sql:22-30), though one counts by the owner   *)
(* and the other joins from the trips.                                     *)
VistaCuadra ==
    \A id \in Ids :
        LET rs == {r \in viajescompleta(club) : r.barco.id_socio = id}
        IN  /\ Cardinality({r.barco : r \in rs}) = CantidadBarcos(club, id)
            /\ Cardinality({r.n_viaje : r \in rs} \ {NULL}) = TotalViajes(club, id)
=============================================================================
