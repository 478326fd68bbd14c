--------------------------- MODULE RegistroProofs ---------------------------
(***************************************************************************)
(* Proofs about RegistroClub, and so about whatever implements it: its     *)
(* operations keep the constraints club.sql declares, and none takes from  *)
(* a member what hangs from it while it stays.                             *)
(***************************************************************************)
EXTENDS RegistroClub, TLAPS

(* The tables have their types and satisfy the declared constraints.       *)
RInv == club \in BasesDeDatos /\ Restricciones(club)

-----------------------------------------------------------------------------
(* One lemma per operation. *)

LEMMA InscribirTipo ==
    ASSUME RInv, NEW r \in FilasSocio, Inscribir(r)
    PROVE  RInv'
  <1>1. club' \in BasesDeDatos
    BY DEF RInv, Inscribir, BasesDeDatos
  <1>2. /\ club'.Socio = club.Socio \cup {r} /\ club'.Barco = club.Barco
        /\ club'.Viaje_Barco = club.Viaje_Barco /\ club'.Barco_Muelle = club.Barco_Muelle
    BY DEF RInv, Inscribir, BasesDeDatos
  <1>3. ClavesPrimarias(club')
    BY <1>2 DEF RInv, Restricciones, ClavesPrimarias, Inscribir, IdsSocio
  <1>4. LlavesForaneas(club')
    BY <1>2 DEF RInv, Restricciones, LlavesForaneas
  <1>5. TelefonoCorreoUnicos(club')
    BY <1>2 DEF RInv, Restricciones, TelefonoCorreoUnicos, Inscribir, MismoPar
  <1> QED
    BY <1>1, <1>3, <1>4, <1>5 DEF RInv, Restricciones

(* What a deletion leaves.                                                 *)
LEMMA DarDeBajaDeja ==
    ASSUME RInv, NEW r \in FilasSocio, DarDeBaja(r)
    PROVE  /\ r \in club.Socio /\ club' \in BasesDeDatos
           /\ club'.Socio = club.Socio \ {r}
           /\ club'.Barco = club.Barco \ BarcosDe(club, r.id_socio)
           /\ club'.Viaje_Barco
                 = club.Viaje_Barco \ HijasDe(club.Viaje_Barco, BarcosDe(club, r.id_socio))
           /\ club'.Barco_Muelle
                 = club.Barco_Muelle \ HijasDe(club.Barco_Muelle, BarcosDe(club, r.id_socio))
  BY DEF RInv, DarDeBaja, Menos, BasesDeDatos

LEMMA DarDeBajaTipo ==
    ASSUME RInv, NEW r \in FilasSocio, DarDeBaja(r)
    PROVE  RInv'
  <1> DEFINE bs == BarcosDe(club, r.id_socio)
  <1>1. /\ club' \in BasesDeDatos
        /\ club'.Socio = club.Socio \ {r} /\ club'.Barco = club.Barco \ bs
        /\ club'.Viaje_Barco = club.Viaje_Barco \ HijasDe(club.Viaje_Barco, bs)
        /\ club'.Barco_Muelle = club.Barco_Muelle \ HijasDe(club.Barco_Muelle, bs)
    BY DarDeBajaDeja
  <1>2. ClavesPrimarias(club') /\ TelefonoCorreoUnicos(club')
    BY <1>1 DEF RInv, Restricciones, ClavesPrimarias, TelefonoCorreoUnicos
  <1>3. LlavesForaneas(club')
    <2>1. ASSUME NEW b \in club'.Barco
          PROVE  \E q \in club'.Socio : q.id_socio = b.id_socio
      <3>1. b \in club.Barco /\ b.id_socio # r.id_socio
        BY <1>1, <2>1 DEF BarcosDe
      <3>2. PICK q \in club.Socio : q.id_socio = b.id_socio
        BY <3>1 DEF RInv, Restricciones, LlavesForaneas
      <3> QED
        BY <1>1, <3>1, <3>2
    <2>2. ASSUME NEW h \in club'.Viaje_Barco \cup club'.Barco_Muelle
          PROVE  \E b \in club'.Barco : b.n_matricula = h.n_matricula
      <3>1. h \in club.Viaje_Barco \cup club.Barco_Muelle
        BY <1>1, <2>2
      <3>2. PICK b \in club.Barco : b.n_matricula = h.n_matricula
        BY <3>1 DEF RInv, Restricciones, LlavesForaneas
      <3>3. b \notin bs
        BY <1>1, <2>2, <3>2 DEF HijasDe
      <3> QED
        BY <1>1, <3>2, <3>3
    <2> QED
      BY <2>1, <2>2 DEF LlavesForaneas
  <1> QED
    BY <1>1, <1>2, <1>3 DEF RInv, Restricciones

LEMMA RegistrarTipo ==
    ASSUME RInv,
           \/ \E r \in FilasBarco : RegistrarBarco(r)
           \/ \E h \in FilasViajeBarco : RegistrarViaje(h)
           \/ \E h \in FilasBarcoMuelle : RegistrarEstadia(h)
    PROVE  /\ RInv' /\ club'.Socio = club.Socio /\ club.Barco \subseteq club'.Barco
           /\ club.Viaje_Barco \subseteq club'.Viaje_Barco
           /\ club.Barco_Muelle \subseteq club'.Barco_Muelle
  <1>1. ASSUME NEW r \in FilasBarco, RegistrarBarco(r)
        PROVE  /\ RInv' /\ club'.Socio = club.Socio /\ club.Barco \subseteq club'.Barco
               /\ club.Viaje_Barco \subseteq club'.Viaje_Barco
               /\ club.Barco_Muelle \subseteq club'.Barco_Muelle
    <2>1. /\ club' \in BasesDeDatos
          /\ club'.Socio = club.Socio /\ club'.Barco = club.Barco \cup {r}
          /\ club'.Viaje_Barco = club.Viaje_Barco /\ club'.Barco_Muelle = club.Barco_Muelle
      BY <1>1 DEF RInv, RegistrarBarco, BasesDeDatos
    <2>2. ClavesPrimarias(club') /\ TelefonoCorreoUnicos(club')
      BY <1>1, <2>1
      DEF RInv, Restricciones, ClavesPrimarias, TelefonoCorreoUnicos, RegistrarBarco
    <2>3. LlavesForaneas(club')
      BY <1>1, <2>1 DEF RInv, Restricciones, LlavesForaneas, RegistrarBarco, IdsSocio
    <2> QED
      BY <2>1, <2>2, <2>3 DEF RInv, Restricciones
  <1>2. ASSUME NEW h \in FilasViajeBarco, RegistrarViaje(h)
        PROVE  /\ RInv' /\ club'.Socio = club.Socio /\ club.Barco \subseteq club'.Barco
               /\ club.Viaje_Barco \subseteq club'.Viaje_Barco
               /\ club.Barco_Muelle \subseteq club'.Barco_Muelle
    <2>1. /\ club' \in BasesDeDatos
          /\ club'.Socio = club.Socio /\ club'.Barco = club.Barco
          /\ club'.Viaje_Barco = club.Viaje_Barco \cup {h}
          /\ club'.Barco_Muelle = club.Barco_Muelle
      BY <1>2 DEF RInv, RegistrarViaje, BasesDeDatos
    <2>2. Restricciones(club')
      BY <1>2, <2>1
      DEF RInv, Restricciones, ClavesPrimarias, TelefonoCorreoUnicos, LlavesForaneas,
          RegistrarViaje
    <2> QED
      BY <2>1, <2>2 DEF RInv
  <1>3. ASSUME NEW h \in FilasBarcoMuelle, RegistrarEstadia(h)
        PROVE  /\ RInv' /\ club'.Socio = club.Socio /\ club.Barco \subseteq club'.Barco
               /\ club.Viaje_Barco \subseteq club'.Viaje_Barco
               /\ club.Barco_Muelle \subseteq club'.Barco_Muelle
    <2>1. /\ club' \in BasesDeDatos
          /\ club'.Socio = club.Socio /\ club'.Barco = club.Barco
          /\ club'.Viaje_Barco = club.Viaje_Barco
          /\ club'.Barco_Muelle = club.Barco_Muelle \cup {h}
      BY <1>3 DEF RInv, RegistrarEstadia, BasesDeDatos
    <2>2. Restricciones(club')
      BY <1>3, <2>1
      DEF RInv, Restricciones, ClavesPrimarias, TelefonoCorreoUnicos, LlavesForaneas,
          RegistrarEstadia
    <2> QED
      BY <2>1, <2>2 DEF RInv
  <1> QED
    BY <1>1, <1>2, <1>3

LEMMA RNextTipo ==
    ASSUME RInv, [RNext]_club
    PROVE  RInv'
  <1>1. CASE UNCHANGED club
    BY <1>1 DEF RInv
  <1> QED
    BY <1>1, InscribirTipo, DarDeBajaTipo, RegistrarTipo DEF RNext

(* The operations of the register keep every constraint club.sql declares  *)
(* (lines 3-81), so a system that implements it breaks none.               *)
THEOREM RegistroConRestricciones == RSpec => []RInv
  <1>1. RInit => RInv
    BY DEF RInit, RInv
  <1>2. RInv /\ [RNext]_club => RInv'
    BY RNextTipo
  <1> QED
    BY <1>1, <1>2, PTL DEF RSpec

-----------------------------------------------------------------------------
(* The boats of a member, their trips and their stays. *)

(* They are all there after a step, if the member is.                      *)
Conserva(b, d, i) ==
    /\ BarcosDe(b, i) \subseteq BarcosDe(d, i)
    /\ HijasDe(b.Viaje_Barco, BarcosDe(b, i)) \subseteq HijasDe(d.Viaje_Barco, BarcosDe(d, i))
    /\ HijasDe(b.Barco_Muelle, BarcosDe(b, i)) \subseteq HijasDe(d.Barco_Muelle, BarcosDe(d, i))

LEMMA MasConserva ==
    ASSUME NEW b, NEW d, NEW i, b.Barco \subseteq d.Barco,
           b.Viaje_Barco \subseteq d.Viaje_Barco, b.Barco_Muelle \subseteq d.Barco_Muelle
    PROVE  Conserva(b, d, i)
  BY DEF Conserva, BarcosDe, HijasDe

(* No two members own one boat, so the boats of the one that leaves, and   *)
(* the rows that refer to them, are nobody else's.                         *)
LEMMA DarDeBajaConserva ==
    ASSUME RInv, NEW r \in FilasSocio, DarDeBaja(r), NEW i \in IdsSocio(club')
    PROVE  Conserva(club, club', i)
  <1> DEFINE bs == BarcosDe(club, r.id_socio)
  <1>1. /\ r \in club.Socio
        /\ club'.Socio = club.Socio \ {r} /\ club'.Barco = club.Barco \ bs
        /\ club'.Viaje_Barco = club.Viaje_Barco \ HijasDe(club.Viaje_Barco, bs)
        /\ club'.Barco_Muelle = club.Barco_Muelle \ HijasDe(club.Barco_Muelle, bs)
    BY DarDeBajaDeja
  <1>2. i # r.id_socio
    BY <1>1 DEF RInv, Restricciones, ClavesPrimarias, IdsSocio
  <1>3. BarcosDe(club, i) \subseteq BarcosDe(club', i)
    BY <1>1, <1>2 DEF BarcosDe
  <1>4. ASSUME NEW tabla, NEW h \in HijasDe(tabla, BarcosDe(club, i))
        PROVE  h \notin HijasDe(tabla, bs)
    BY <1>2, <1>4 DEF HijasDe, BarcosDe, RInv, Restricciones, ClavesPrimarias
  <1>5. ASSUME NEW t, NEW u, u = t \ HijasDe(t, bs)
        PROVE  HijasDe(t, BarcosDe(club, i)) \subseteq HijasDe(u, BarcosDe(club', i))
    <2> SUFFICES ASSUME NEW h \in HijasDe(t, BarcosDe(club, i))
                 PROVE  h \in HijasDe(u, BarcosDe(club', i))
      OBVIOUS
    <2>1. h \in u
      BY <1>4, <1>5 DEF HijasDe
    <2> QED
      BY <1>3, <2>1 DEF HijasDe
  <1> QED
    BY <1>1, <1>3, <1>5 DEF Conserva

LEMMA RNextConserva ==
    ASSUME RInv, [RNext]_club, NEW i \in IdsSocio(club) \cap IdsSocio(club')
    PROVE  Conserva(club, club', i)
  <1>1. CASE UNCHANGED club
    BY <1>1, MasConserva
  <1>2. ASSUME NEW r \in FilasSocio, Inscribir(r)
        PROVE  Conserva(club, club', i)
    <2>1. /\ club'.Barco = club.Barco /\ club'.Viaje_Barco = club.Viaje_Barco
          /\ club'.Barco_Muelle = club.Barco_Muelle
      BY <1>2 DEF RInv, Inscribir, BasesDeDatos
    <2> QED
      BY <2>1, MasConserva
  <1> QED
    BY <1>1, <1>2, DarDeBajaConserva, RegistrarTipo, MasConserva DEF RNext

(* Whatever others do, a member who stays keeps its boats, their trips and *)
(* their stays: a deletion takes exactly what hangs from its own member    *)
(* (EliminarSocio.sql:32-54).                                              *)
THEOREM NadiePierdeLoSuyo ==
    RSpec => [][\A i \in IdsSocio(club) \cap IdsSocio(club') : Conserva(club, club', i)]_club
  <1>1. RInv /\ [RNext]_club =>
          [\A i \in IdsSocio(club) \cap IdsSocio(club') : Conserva(club, club', i)]_club
    BY RNextConserva
  <1> QED
    BY <1>1, RegistroConRestricciones, PTL DEF RSpec
=============================================================================
