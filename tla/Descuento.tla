----------------------------- MODULE Descuento -----------------------------
(***************************************************************************)
(* calcular_descuento_mensualidad (funcion.sql): the monthly fee of a boat *)
(* less a discount that grows with the boats of its owner and with the     *)
(* trips they have made, asked for again and again while the register      *)
(* (RegistroClub) changes.                                                 *)
(*                                                                         *)
(* Amounts are in hundredths, as DECIMAL(10,2) holds them; percentages are *)
(* whole, as all of the code's are.  The two counts are read in one        *)
(* statement's snapshot, so one evaluation sees one state of the tables.   *)
(***************************************************************************)
EXTENDS RegistroClub, FiniteSets, Integers

CONSTANTS
    Bases,              \* monthly fees the function is asked about
    DatosIniciales,     \* tables the system may start from
    MaxAltas            \* bound: boats and trips recorded in one behaviour

ASSUME BasesAssumption == Bases \subseteq Nat

ASSUME FinitosAssumption == IsFiniteSet(Matriculas) /\ IsFiniteSet(Viajes)

ASSUME AltasAssumption == MaxAltas \in Nat

ASSUME DatosAssumption == \A d \in DatosIniciales : d \in BasesDeDatos /\ Restricciones(d)

VARIABLES
    consulta,   \* the last evaluation: arguments and result, or NULL
    altas       \* boats and trips recorded so far

vars == <<club, consulta, altas>>

-----------------------------------------------------------------------------
(* COUNT of the boats, and COUNT DISTINCT of the trips, of a member. *)

CantidadBarcos(b, id) == Cardinality(BarcosDe(b, id))

(* Mutant: COUNT without DISTINCT. *)
TotalViajes_ConRepetidos(b, id) == Cardinality(HijasDe(b.Viaje_Barco, BarcosDe(b, id)))

TotalViajes(b, id) == Cardinality({h.n_viaje : h \in HijasDe(b.Viaje_Barco, BarcosDe(b, id))})

(* Mutant: the first test is for exactly three boats. *)
PorBarcos_TresJustos(n) == IF n = 3 THEN 15 ELSE IF n = 2 THEN 8 ELSE 0

PorBarcos(n) == IF n >= 3 THEN 15 ELSE IF n = 2 THEN 8 ELSE 0

PorViajes(n) == IF n >= 20 THEN 10 ELSE IF n >= 10 THEN 5 ELSE 0

Limite(p) == IF p > 25 THEN 25 ELSE p

Porcentaje(b, id) == Limite(PorBarcos(CantidadBarcos(b, id)) + PorViajes(TotalViajes(b, id)))

(* Mutant: the percentage is not divided by 100.                           *)
ConDescuento_SinDividir(base, p) == base - base * p

(* base - base * p / 100, rounded half up by the assignment to a column of *)
(* two decimals.                                                           *)
ConDescuento(base, p) == (base * (100 - p) + 50) \div 100

Mensualidad(b, id, base) == ConDescuento(base, Porcentaje(b, id))

-----------------------------------------------------------------------------
Init ==
    /\ club \in DatosIniciales
    /\ consulta = NULL
    /\ altas = 0

Calcula(id, base) ==
    /\ consulta' = [id |-> id, base |-> base, res |-> Mensualidad(club, id, base)]
    /\ UNCHANGED <<club, altas>>

Registra ==
    /\ altas < MaxAltas
    /\ altas' = altas + 1
    /\ \/ \E r \in FilasBarco : RegistrarBarco(r)
       \/ \E h \in FilasViajeBarco : RegistrarViaje(h)
    /\ UNCHANGED consulta

Baja == (\E r \in FilasSocio : DarDeBaja(r)) /\ UNCHANGED <<consulta, altas>>

Next ==
    \/ \E id \in Ids, base \in Bases : Calcula(id, base)
    \/ Registra
    \/ Baja

Spec == Init /\ [][Next]_vars

-----------------------------------------------------------------------------
(* The tables keep their types; the last result is an amount.              *)
TypeOK ==
    /\ club \in BasesDeDatos
    /\ consulta = NULL \/ consulta \in [id : Ids, base : Bases, res : Nat]
    /\ altas \in 0 .. MaxAltas

(* What a member gains stays gained (funcion.sql:34-53): one more boat or  *)
(* one more trip never raises the fee of any member, at any of the         *)
(* thresholds and whatever the rounding.                                   *)
Crece == /\ club.Barco \subseteq club'.Barco
         /\ club.Viaje_Barco \subseteq club'.Viaje_Barco

NuncaSube ==
    [][Crece => \A id \in Ids, base \in Bases :
                   Mensualidad(club', id, base) <= Mensualidad(club, id, base)]_vars

(* The fee of a member who stays never rises, whoever else leaves, with    *)
(* whatever boats that have made the same trips (EliminarSocio.sql:32-54,  *)
(* funcion.sql:22-30): a deletion takes nothing that others are counted.   *)
CuotaDelQueSigue ==
    [][\A id \in IdsSocio(club) \cap IdsSocio(club'), base \in Bases :
          Mensualidad(club', id, base) <= Mensualidad(club, id, base)]_vars

(* Two boats of one owner that make one trip make one trip                 *)
(* (funcion.sql:27): recording a boat in a trip that another boat of its   *)
(* owner is already recorded in changes nobody's fee.                      *)
ViajeCompartido ==
    [][\A h \in club'.Viaje_Barco \ club.Viaje_Barco :
          (/\ club'.Barco = club.Barco
           /\ \E r, q \in club.Barco :
                 /\ r.n_matricula = h.n_matricula
                 /\ q.id_socio = r.id_socio
                 /\ [n_matricula |-> q.n_matricula, n_viaje |-> h.n_viaje] \in club.Viaje_Barco)
          => \A id \in Ids, base \in Bases :
                Mensualidad(club', id, base) = Mensualidad(club, id, base)]_vars
=============================================================================
