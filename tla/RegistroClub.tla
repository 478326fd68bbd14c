---------------------------- MODULE RegistroClub ----------------------------
(***************************************************************************)
(* What the database promises to whoever reads it: the committed tables    *)
(* change by whole operations only.  A member is entered under an id       *)
(* nobody has, with a (telefono, correo) pair nobody has; a member leaves  *)
(* together with exactly the boats, trips and stays that hang from it; a   *)
(* member without boats may leave alone; boats, trips and stays are        *)
(* recorded one at a time, for owners and boats that exist.                *)
(***************************************************************************)
EXTENDS Club

VARIABLE club

RInit == club \in BasesDeDatos /\ Restricciones(club)

Inscribir(r) ==
    /\ r.id_socio \notin IdsSocio(club)
    /\ \A q \in club.Socio : ~MismoPar(r, q)
    /\ club' = [club EXCEPT !.Socio = @ \cup {r}]

(* Mutant: the trips go by their number, whoever's boats made them.        *)
DarDeBaja_PorViaje(r) ==
    /\ r \in club.Socio
    /\ LET bs     == BarcosDe(club, r.id_socio)
           viajes == {h.n_viaje : h \in HijasDe(club.Viaje_Barco, bs)}
       IN  club' = Menos(club, [Socio        |-> {r},
                                Barco        |-> bs,
                                Viaje_Barco  |-> {h \in club.Viaje_Barco : h.n_viaje \in viajes},
                                Barco_Muelle |-> HijasDe(club.Barco_Muelle, bs)])

DarDeBaja(r) ==
    /\ r \in club.Socio
    /\ LET bs == BarcosDe(club, r.id_socio)
       IN  club' = Menos(club, [Socio        |-> {r},
                                Barco        |-> bs,
                                Viaje_Barco  |-> HijasDe(club.Viaje_Barco, bs),
                                Barco_Muelle |-> HijasDe(club.Barco_Muelle, bs)])

RegistrarBarco(r) ==
    /\ r.id_socio \in IdsSocio(club)
    /\ \A q \in club.Barco : q.n_matricula # r.n_matricula
    /\ club' = [club EXCEPT !.Barco = @ \cup {r}]

RegistrarViaje(h) ==
    /\ \E r \in club.Barco : r.n_matricula = h.n_matricula
    /\ club' = [club EXCEPT !.Viaje_Barco = @ \cup {h}]

RegistrarEstadia(h) ==
    /\ \E r \in club.Barco : r.n_matricula = h.n_matricula
    /\ club' = [club EXCEPT !.Barco_Muelle = @ \cup {h}]

RNext ==
    \/ \E r \in FilasSocio : Inscribir(r) \/ DarDeBaja(r)
    \/ \E r \in FilasBarco : RegistrarBarco(r)
    \/ \E h \in FilasViajeBarco : RegistrarViaje(h)
    \/ \E h \in FilasBarcoMuelle : RegistrarEstadia(h)

RSpec == RInit /\ [][RNext]_club
=============================================================================
