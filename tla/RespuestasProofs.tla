-------------------------- MODULE RespuestasProofs --------------------------
(***************************************************************************)
(* Proofs about the answers of the procedures of ProcSocios: a deletion    *)
(* that was answered is never undone, for any number of sessions; and what *)
(* GuardarNuevoSocio verifies before it inserts, and EliminarSocio before  *)
(* it deletes, when calls do not overlap.                                  *)
(***************************************************************************)
EXTENDS ProcSociosProofs

USE DEF args, tx

(* Statements of a deletion that has found its member, or is done with it. *)
TrasExistir == {"e_cuenta", "e_estadias", "e_viajes", "e_barcos", "e_socio", "e_commit",
                "s_cuenta", "s_socio"}

Contestada(s) == pc[s] = "libre" /\ ret[s] = "eliminado"

Hallado(s) == pc[s] \in TrasExistir \/ Contestada(s)

(* The id such a deletion names was given out, and nobody is about to give *)
(* it to a row; once the member has been deleted, no other row has it.     *)
IdGastado ==
    \A s \in Sesiones :
       Hallado(s) => /\ p_id_socio[s] \in Ids
                     /\ p_id_socio[s] < siguiente
                     /\ \A t \in Sesiones : \A r \in nuevo[t] : r.id_socio # p_id_socio[s]

BajaHecha ==
    \A s \in Sesiones :
       pc[s] = "e_commit" =>
          \A q \in db.Socio : q.id_socio = p_id_socio[s] => q \in borrado[s].Socio

BInv == IInv /\ IdGastado /\ BajaHecha /\ BajaCierta

-----------------------------------------------------------------------------
(* Only a transaction that has inserted a row adds it to the members.      *)
LEMMA SociosCrecen ==
    ASSUME IInv, [Next]_vars
    PROVE  \A q \in db'.Socio : q \in db.Socio \/ \E t \in Sesiones : q \in nuevo[t]
  <1>1. ASSUME NEW s \in Sesiones, Commit(s)
        PROVE  \A q \in db'.Socio : q \in db.Socio \/ q \in nuevo[s]
    BY <1>1 DEF Commit, Menos, IInv, TypeOK, BasesDeDatos
  <1>2. ASSUME NEW s \in Sesiones, Llamada(s) PROVE db' = db \/ Commit(s)
    BY <1>2 DEF Llamada, GuardarNuevoSocio, StartTransaction, EliminarSocio, EliminarSocioSeguro
  <1>3. ASSUME NEW s \in Sesiones, Avanza(s) PROVE db' = db \/ Commit(s) \/ SeguroBorra(s)
    BY <1>3 DEF Avanza, CuentaTelefono, CuentaCorreo, InsertaSocio, ExisteSocio, ConfirmaAlta,
       CuentaBarcos, StartTransaction, ConfirmaBaja, BorraEstadias, BorraViajes, BorraHijas,
       BorraBarcos, BorraSocio, SeguroExiste, SeguroCuenta, SqlException, Rollback
  <1>4. ASSUME NEW s \in Sesiones, SeguroBorra(s) PROVE db'.Socio \subseteq db.Socio
    BY <1>4 DEF SeguroBorra, IInv, TypeOK, BasesDeDatos
  <1>5. ASSUME NEW s \in Sesiones, Vence(s) \/ Corte(s) PROVE db' = db
    BY <1>5 DEF Vence, Corte, SqlException, Rollback
  <1>6. ASSUME Altas PROVE db'.Socio = db.Socio
    BY <1>6 DEF Altas, AltaBarco, AltaViaje, AltaEstadia, IInv, TypeOK, BasesDeDatos
  <1> QED
    BY <1>1, <1>2, <1>3, <1>4, <1>5, <1>6 DEF Next, vars

(* Only an INSERT makes a row, and it gives it the next id.                *)
LEMMA IdsNuevos ==
    ASSUME IInv, [Next]_vars
    PROVE  /\ siguiente' >= siguiente
           /\ \A t \in Sesiones : \A r \in nuevo'[t] :
                 r \in nuevo[t] \/ r.id_socio = siguiente
  <1>1. ASSUME NEW s \in Sesiones, InsertaSocio(s)
        PROVE  /\ siguiente' >= siguiente
               /\ \A t \in Sesiones : \A r \in nuevo'[t] :
                     r \in nuevo[t] \/ r.id_socio = siguiente
    <2>1. siguiente' >= siguiente
      BY <1>1, MaxIdAssumption DEF InsertaSocio, IInv, TypeOK
    <2>2. \/ nuevo' = [nuevo EXCEPT ![s] = {FilaNueva(s)}]
          \/ nuevo' = [nuevo EXCEPT ![s] = {}]
      BY <1>1 DEF InsertaSocio, SqlException, Rollback, CierraTx
    <2>3. FilaNueva(s).id_socio = siguiente
      BY DEF FilaNueva
    <2>4. nuevo \in [Sesiones -> SUBSET FilasSocio]
      BY DEF IInv, TypeOK
    <2> HIDE DEF FilaNueva
    <2> QED
      BY <2>1, <2>2, <2>3, <2>4
  <1>2. ASSUME NEW s \in Sesiones,
               \/ UNCHANGED nuevo
               \/ nuevo' = [nuevo EXCEPT ![s] = {}]
        PROVE  \A t \in Sesiones : \A r \in nuevo'[t] : r \in nuevo[t]
    BY <1>2 DEF IInv, TypeOK
  <1>3. ASSUME NEW s \in Sesiones, Llamada(s) \/ (Avanza(s) /\ ~InsertaSocio(s))
                                   \/ Vence(s) \/ Corte(s)
        PROVE  UNCHANGED siguiente /\ (UNCHANGED nuevo \/ nuevo' = [nuevo EXCEPT ![s] = {}])
    BY <1>3 DEF Llamada, GuardarNuevoSocio, EliminarSocio, EliminarSocioSeguro,
       Avanza, CuentaTelefono, CuentaCorreo, ExisteSocio, ConfirmaAlta,
       CuentaBarcos, StartTransaction, ConfirmaBaja, BorraEstadias, BorraViajes, BorraHijas,
       BorraBarcos, BorraSocio, SeguroExiste, SeguroCuenta, SeguroBorra, Vence, Corte,
       SqlException, Rollback, Commit, CierraTx
  <1>4. ASSUME Altas \/ UNCHANGED vars PROVE UNCHANGED siguiente /\ UNCHANGED nuevo
    BY <1>4 DEF Altas, AltaBarco, AltaViaje, AltaEstadia, vars
  <1>5. siguiente \in Nat
    BY MaxIdAssumption DEF IInv, TypeOK
  <1> QED
    BY <1>1, <1>2, <1>3, <1>4, <1>5 DEF Next

(* What a step does to the deletion of a session s.                        *)
Nombrada(s) == p_id_socio'[s] = p_id_socio[s] /\ (Hallado(s) \/ p_id_socio[s] \in IdsSocio(db))

PorConfirmar(s) ==
    \/ pc[s] = "e_commit" /\ borrado'[s] = borrado[s]
    \/ db' = db /\ FilasCon(db, p_id_socio[s]) \subseteq borrado'[s].Socio

PorContestar(s) ==
    \/ Contestada(s)
    \/ pc[s] = "e_commit" /\ Commit(s)
    \/ pc[s] = "s_socio" /\ db'.Socio = db.Socio \ FilasCon(db, p_id_socio[s])

Efecto(s) ==
    /\ Hallado(s)' => Nombrada(s)
    /\ pc'[s] = "e_commit" => PorConfirmar(s)
    /\ Contestada(s)' => PorContestar(s)

LEMMA EfectoAjeno ==
    ASSUME IInv, NEW s \in Sesiones,
           p_id_socio'[s] = p_id_socio[s], pc'[s] = pc[s], ret'[s] = ret[s],
           borrado'[s] = borrado[s]
    PROVE  Efecto(s)
  BY DEF Efecto, Nombrada, PorConfirmar, PorContestar, Hallado, Contestada

(* The call and the statements of GuardarNuevoSocio answer no deletion.    *)
LEMMA EfectoAlta ==
    ASSUME IInv, NEW s \in Sesiones,
           \/ \E p \in Entradas : GuardarNuevoSocio(s, p)
           \/ CuentaTelefono(s) \/ CuentaCorreo(s) \/ InsertaSocio(s) \/ ConfirmaAlta(s)
    PROVE  Efecto(s)
  <1>1. /\ pc'[s] \in {"libre", "g_telefono", "g_correo", "g_insert", "g_commit"}
        /\ pc'[s] = "libre" => ret'[s] # "eliminado"
    BY DEF GuardarNuevoSocio, CuentaTelefono, CuentaCorreo, InsertaSocio, ConfirmaAlta,
       Responde, Sigue, SqlException, TrasTelefono, IInv, TypeOK
  <1> QED
    BY <1>1 DEF Efecto, Hallado, Contestada, TrasExistir

LEMMA EfectoBaja ==
    ASSUME IInv, NEW s \in Sesiones,
           \/ \E id \in Ids : EliminarSocio(s, id) \/ EliminarSocioSeguro(s, id)
           \/ ExisteSocio(s) \/ CuentaBarcos(s) \/ BorraEstadias(s) \/ BorraViajes(s)
           \/ BorraBarcos(s) \/ SeguroExiste(s) \/ SeguroCuenta(s)
    PROVE  Efecto(s)
  <1>1. /\ p_id_socio'[s] = p_id_socio[s] \/ pc'[s] \in {"e_existe", "s_existe"}
        /\ pc'[s] # "e_commit" /\ (pc'[s] = "libre" => ret'[s] # "eliminado")
        /\ \/ pc'[s] \in {"e_existe", "s_existe", "libre"}
           \/ pc[s] \in TrasExistir
           \/ p_id_socio[s] \in IdsSocio(db)
    <2>1. CASE \E id \in Ids : EliminarSocio(s, id) \/ EliminarSocioSeguro(s, id)
      BY <2>1 DEF EliminarSocio, EliminarSocioSeguro, Sigue, IInv, TypeOK
    <2>2. CASE ExisteSocio(s) \/ SeguroExiste(s)
      BY <2>2 DEF ExisteSocio, SeguroExiste, Sigue, Responde, SqlException, IInv, TypeOK
    <2>3. CASE CuentaBarcos(s) \/ SeguroCuenta(s)
      BY <2>3 DEF CuentaBarcos, SeguroCuenta, Sigue, Responde, TrasExistir, IInv, TypeOK
    <2>4. CASE BorraEstadias(s) \/ BorraViajes(s)
      BY <2>4 DEF BorraEstadias, BorraViajes, BorraHijas, Sigue, TrasExistir, IInv, TypeOK
    <2>5. CASE BorraBarcos(s)
      BY <2>5 DEF BorraBarcos, Sigue, Responde, SqlException, TrasExistir, IInv, TypeOK
    <2> QED
      BY <2>1, <2>2, <2>3, <2>4, <2>5
  <1> QED
    BY <1>1 DEF Efecto, Nombrada, Hallado, Contestada, TrasExistir

LEMMA EfectoFin ==
    ASSUME IInv, NEW s \in Sesiones,
           \/ BorraSocio(s) \/ ConfirmaBaja(s) \/ SeguroBorra(s) \/ Vence(s) \/ Corte(s)
    PROVE  Efecto(s)
  <1>1. CASE BorraSocio(s)
    <2>1. /\ p_id_socio'[s] = p_id_socio[s] /\ db' = db
          /\ pc[s] = "e_socio"
          /\ \/ pc'[s] = "libre" /\ ret'[s] = "excepcion"
             \/ /\ pc'[s] = "e_commit"
                /\ borrado'[s].Socio = borrado[s].Socio \cup FilasCon(db, p_id_socio[s])
      BY <1>1 DEF BorraSocio, Sigue, Responde, SqlException, Rollback, IInv, TypeOK,
         BasesDeDatos
    <2> QED
      BY <2>1 DEF Efecto, Nombrada, PorConfirmar, Hallado, Contestada, TrasExistir
  <1>2. CASE ConfirmaBaja(s)
    <2>1. /\ p_id_socio'[s] = p_id_socio[s] /\ pc[s] = "e_commit" /\ pc'[s] = "libre"
          /\ Commit(s)
      BY <1>2 DEF ConfirmaBaja, Responde, IInv, TypeOK
    <2> QED
      BY <2>1 DEF Efecto, Nombrada, PorContestar, Hallado, TrasExistir
  <1>3. CASE SeguroBorra(s)
    <2>1. /\ p_id_socio'[s] = p_id_socio[s] /\ pc[s] = "s_socio" /\ pc'[s] = "libre"
          /\ \/ ret'[s] = "excepcion"
             \/ db'.Socio = db.Socio \ FilasCon(db, p_id_socio[s])
      BY <1>3 DEF SeguroBorra, Responde, IInv, TypeOK, BasesDeDatos
    <2> QED
      BY <2>1 DEF Efecto, Nombrada, PorContestar, Hallado, Contestada, TrasExistir
  <1>4. CASE Vence(s) \/ Corte(s)
    <2>1. pc'[s] = "libre" /\ ret'[s] \in {"excepcion", "corte"}
      BY <1>4 DEF Vence, Corte, SqlException, Responde, IInv, TypeOK
    <2> QED
      BY <2>1 DEF Efecto, Hallado, Contestada, TrasExistir
  <1> QED
    BY <1>1, <1>2, <1>3, <1>4

LEMMA EfectoNext == IInv /\ [Next]_vars => \A s \in Sesiones : Efecto(s)
  <1> SUFFICES ASSUME IInv, [Next]_vars, NEW s \in Sesiones PROVE Efecto(s)
    OBVIOUS
  <1>1. CASE \E t \in Sesiones : Llamada(t) \/ Avanza(t) \/ Vence(t) \/ Corte(t)
    <2>1. PICK t \in Sesiones : Llamada(t) \/ Avanza(t) \/ Vence(t) \/ Corte(t)
      BY <1>1
    <2>2. CASE t = s
      <3>1. CASE \/ \E p \in Entradas : GuardarNuevoSocio(s, p)
                 \/ CuentaTelefono(s) \/ CuentaCorreo(s) \/ InsertaSocio(s) \/ ConfirmaAlta(s)
        BY <3>1, EfectoAlta
      <3>2. CASE \/ \E id \in Ids : EliminarSocio(s, id) \/ EliminarSocioSeguro(s, id)
                 \/ ExisteSocio(s) \/ CuentaBarcos(s) \/ BorraEstadias(s) \/ BorraViajes(s)
                 \/ BorraBarcos(s) \/ SeguroExiste(s) \/ SeguroCuenta(s)
        BY <3>2, EfectoBaja
      <3>3. CASE BorraSocio(s) \/ ConfirmaBaja(s) \/ SeguroBorra(s) \/ Vence(s) \/ Corte(s)
        BY <3>3, EfectoFin
      <3> QED
        BY <2>1, <2>2, <3>1, <3>2, <3>3 DEF Llamada, Avanza
    <2>3. CASE t # s
      <3>1. /\ p_id_socio'[s] = p_id_socio[s] /\ pc'[s] = pc[s] /\ ret'[s] = ret[s]
            /\ borrado'[s] = borrado[s]
        <4>1. CASE Llamada(t)
          BY <2>3, <4>1 DEF Llamada, GuardarNuevoSocio, StartTransaction, EliminarSocio,
             EliminarSocioSeguro, Commit, CierraTx, Sigue, Responde, IInv, TypeOK
        <4>2. CASE Vence(t) \/ Corte(t)
          BY <2>3, <4>2 DEF Vence, Corte, SqlException, Rollback, CierraTx, Responde,
             IInv, TypeOK
        <4>3. CASE CuentaTelefono(t) \/ CuentaCorreo(t) \/ InsertaSocio(t) \/ ConfirmaAlta(t)
          BY <2>3, <4>3 DEF CuentaTelefono, CuentaCorreo, InsertaSocio, ConfirmaAlta,
             SqlException, Rollback, Commit, CierraTx, Sigue, Responde, IInv, TypeOK
        <4>4. CASE ExisteSocio(t) \/ CuentaBarcos(t) \/ BorraBarcos(t) \/ BorraSocio(t)
                   \/ ConfirmaBaja(t)
          BY <2>3, <4>4 DEF ExisteSocio, CuentaBarcos, StartTransaction, BorraBarcos,
             BorraSocio, ConfirmaBaja, SqlException, Rollback, Commit, CierraTx, Sigue,
             Responde, IInv, TypeOK
        <4>5. CASE BorraEstadias(t) \/ BorraViajes(t)
          BY <2>3, <4>5 DEF BorraEstadias, BorraViajes, BorraHijas, Sigue, IInv, TypeOK
        <4>6. CASE SeguroExiste(t) \/ SeguroCuenta(t) \/ SeguroBorra(t)
          BY <2>3, <4>6 DEF SeguroExiste, SeguroCuenta, SeguroBorra, Sigue, Responde,
             IInv, TypeOK
        <4> QED
          BY <2>1, <4>1, <4>2, <4>3, <4>4, <4>5, <4>6 DEF Avanza
      <3> QED
        BY <3>1, EfectoAjeno
    <2> QED
      BY <2>2, <2>3
  <1>2. CASE Altas \/ UNCHANGED vars
    BY <1>2, EfectoAjeno DEF Altas, AltaBarco, AltaViaje, AltaEstadia, vars
  <1> QED
    BY <1>1, <1>2 DEF Next

-----------------------------------------------------------------------------
LEMMA BInvInit == Init => BInv
  <1> SUFFICES ASSUME Init PROVE BInv
    OBVIOUS
  <1>1. \A s \in Sesiones : pc[s] = "libre" /\ ret[s] = ""
    BY DEF Init
  <1> QED
    BY <1>1, IInvInit DEF BInv, IdGastado, BajaHecha, BajaCierta, Hallado, Contestada,
       TrasExistir

LEMMA BInvNext == BInv /\ [Next]_vars => BInv'
  <1> SUFFICES ASSUME BInv, [Next]_vars PROVE BInv'
    OBVIOUS
  <1>1. IInv /\ IInv'
    BY IInvNext DEF BInv
  <1>2. \A s \in Sesiones : Efecto(s)
    BY <1>1, EfectoNext
  <1>3. siguiente \in Nat /\ siguiente' \in Nat /\ Ids \subseteq Nat
    BY <1>1, MaxIdAssumption DEF IInv, TypeOK, Ids
  <1>4. IdGastado'
    <2> SUFFICES ASSUME NEW s \in Sesiones, Hallado(s)'
                 PROVE  /\ p_id_socio'[s] \in Ids
                        /\ p_id_socio'[s] < siguiente'
                        /\ \A t \in Sesiones : \A r \in nuevo'[t] : r.id_socio # p_id_socio'[s]
      BY DEF IdGastado
    <2>1. /\ p_id_socio'[s] = p_id_socio[s]
          /\ Hallado(s) \/ p_id_socio[s] \in IdsSocio(db)
      BY <1>2 DEF Efecto, Nombrada
    <2>2. /\ p_id_socio[s] \in Ids
          /\ p_id_socio[s] < siguiente
          /\ \A t \in Sesiones : \A r \in nuevo[t] : r.id_socio # p_id_socio[s]
      <3>1. CASE Hallado(s)
        BY <3>1 DEF BInv, IdGastado
      <3>2. CASE p_id_socio[s] \in IdsSocio(db)
        <4>1. PICK q \in db.Socio : q.id_socio = p_id_socio[s]
          BY <3>2 DEF IdsSocio
        <4>2. q.id_socio \in Ids
          BY <1>1 DEF IInv, TypeOK, BasesDeDatos, FilasSocio
        <4>3. q.id_socio < siguiente
          BY <1>1 DEF IInv, AltaPropia
        <4>4. \A t \in Sesiones : \A r \in nuevo[t] : r.id_socio \notin IdsSocio(db)
          BY <1>1 DEF IInv, AltaPropia
        <4> QED
          BY <3>2, <4>1, <4>2, <4>3, <4>4
      <3> QED
        BY <2>1, <3>1, <3>2
    <2>3. /\ siguiente' >= siguiente
          /\ \A t \in Sesiones : \A r \in nuevo'[t] :
                r \in nuevo[t] \/ r.id_socio = siguiente
      BY <1>1, IdsNuevos
    <2>4. p_id_socio[s] < siguiente' /\ p_id_socio[s] # siguiente
      <3>1. p_id_socio[s] \in Nat
        BY <1>3, <2>2
      <3> QED
        BY <1>3, <2>2, <2>3, <3>1
    <2> QED
      BY <2>1, <2>2, <2>3, <2>4
  <1>5. \A s \in Sesiones : Hallado(s) =>
           \A q \in db'.Socio : q.id_socio = p_id_socio[s] => q \in db.Socio
    BY <1>1, SociosCrecen DEF BInv, IdGastado
  <1>6. BajaHecha'
    <2> SUFFICES ASSUME NEW s \in Sesiones, pc'[s] = "e_commit",
                        NEW q \in db'.Socio, q.id_socio = p_id_socio'[s]
                 PROVE  q \in borrado'[s].Socio
      BY DEF BajaHecha
    <2>1. p_id_socio'[s] = p_id_socio[s] /\ PorConfirmar(s)
      BY <1>2 DEF Efecto, Nombrada, Hallado, TrasExistir
    <2>2. CASE pc[s] = "e_commit" /\ borrado'[s] = borrado[s]
      BY <1>5, <2>1, <2>2 DEF BInv, BajaHecha, Hallado, TrasExistir
    <2>3. CASE db' = db /\ FilasCon(db, p_id_socio[s]) \subseteq borrado'[s].Socio
      BY <2>1, <2>3 DEF FilasCon
    <2> QED
      BY <2>1, <2>2, <2>3 DEF PorConfirmar
  <1>7. BajaCierta'
    <2> SUFFICES ASSUME NEW s \in Sesiones, pc'[s] = "libre", ret'[s] = "eliminado",
                        NEW q \in db'.Socio, q.id_socio = p_id_socio'[s]
                 PROVE  FALSE
      BY DEF BajaCierta, IdsSocio
    <2>1. p_id_socio'[s] = p_id_socio[s] /\ PorContestar(s)
      BY <1>2 DEF Efecto, Nombrada, Hallado, Contestada
    <2>2. q \in db.Socio
      BY <1>5, <2>1 DEF PorContestar, Hallado, TrasExistir
    <2>3. CASE Contestada(s)
      BY <2>1, <2>2, <2>3 DEF BInv, BajaCierta, IdsSocio, Contestada
    <2>4. CASE pc[s] = "e_commit" /\ Commit(s)
      <3>1. q \in borrado[s].Socio
        BY <2>1, <2>2, <2>4 DEF BInv, BajaHecha
      <3>2. q \in nuevo[s]
        BY <1>1, <2>4, <3>1 DEF Commit, Menos, IInv, TypeOK, BasesDeDatos
      <3> QED
        BY <2>1, <2>4, <3>2 DEF BInv, IdGastado, Hallado, TrasExistir
    <2>5. CASE pc[s] = "s_socio" /\ db'.Socio = db.Socio \ FilasCon(db, p_id_socio[s])
      BY <2>1, <2>5 DEF FilasCon
    <2> QED
      BY <2>1, <2>3, <2>4, <2>5 DEF PorContestar
  <1> QED
    BY <1>1, <1>4, <1>6, <1>7 DEF BInv

(* A member somebody was told is deleted stays deleted: no session ever    *)
(* gives its id to another one.                                            *)
THEOREM BajaCiertaSiempre == Spec => []BajaCierta
  <1>1. BInv => BajaCierta
    BY DEF BInv
  <1> QED
    BY <1>1, BInvInit, BInvNext, PTL DEF Spec

-----------------------------------------------------------------------------
(* One call at a time, arguments without blanks before them, and tables    *)
(* without duplicates to start from.                                       *)
UnaSesion    == \A s, t \in Sesiones : s = t
SinSangria   == \A p \in Entradas : ~p.telefono.sangria /\ ~p.correo.sangria
Distintos(b) == \A r, q \in b.Socio :
                   r # q => /\ r.telefono = q.telefono => r.telefono = NULL
                            /\ r.correo = q.correo => r.correo = NULL
DatosUnicos  == \A d \in DatosIniciales : Distintos(d)

TelefonoLibre(s) == p_alta[s].telefono.texto # NULL =>
                       \A r \in db.Socio : r.telefono # p_alta[s].telefono.texto
CorreoLibre(s)   == p_alta[s].correo.texto # NULL =>
                       \A r \in db.Socio : r.correo # p_alta[s].correo.texto

(* What the call of session s has verified still holds: its snapshot is    *)
(* the table, since nobody else writes it.                                 *)
Verificada(s) ==
    /\ foto[s] # NULL => foto[s] = db.Socio /\ pc[s] \in {"g_correo", "g_insert", "g_commit"}
    /\ pc[s] \in {"g_correo", "g_insert", "g_commit"} => TelefonoLibre(s)
    /\ pc[s] \in {"g_insert", "g_commit"} => CorreoLibre(s)
    /\ \A r \in nuevo[s] : /\ r.telefono = p_alta[s].telefono.texto
                           /\ r.correo = p_alta[s].correo.texto

DInv == IInv /\ SinDuplicados /\ \A s \in Sesiones : Verificada(s)

-----------------------------------------------------------------------------
(* A step that only removes members, and leaves the session outside the    *)
(* verification with nothing inserted.                                     *)
LEMMA SinVerificar ==
    ASSUME DInv, NEW s \in Sesiones, db'.Socio \subseteq db.Socio,
           foto'[s] = NULL, nuevo'[s] = {},
           pc'[s] \notin {"g_correo", "g_insert", "g_commit"}
    PROVE  SinDuplicados' /\ Verificada(s)'
  BY DEF DInv, SinDuplicados, Verificada

(* COMMIT of a transaction that has inserted nothing only removes.         *)
LEMMA CommitQuita ==
    ASSUME IInv, NEW s \in Sesiones, Commit(s), nuevo[s] = {}
    PROVE  db'.Socio \subseteq db.Socio
  BY DEF Commit, Menos, IInv, TypeOK, BasesDeDatos

LEMMA CierraTxVacia ==
    ASSUME IInv, NEW s \in Sesiones, CierraTx(s)
    PROVE  foto'[s] = NULL /\ nuevo'[s] = {}
  BY DEF CierraTx, IInv, TypeOK

LEMMA GuardarVerifica ==
    ASSUME DInv, NEW s \in Sesiones, NEW p \in Entradas, GuardarNuevoSocio(s, p)
    PROVE  SinDuplicados' /\ Verificada(s)'
  <1>1. Commit(s) /\ nuevo[s] = {} /\ CierraTx(s)
    BY DEF GuardarNuevoSocio, StartTransaction, Commit, DInv, IInv, SesionLimpia
  <1>2. db'.Socio \subseteq db.Socio /\ foto'[s] = NULL /\ nuevo'[s] = {}
    BY <1>1, CommitQuita, CierraTxVacia DEF DInv
  <1>3. p_alta'[s] = p
    BY DEF GuardarNuevoSocio, DInv, IInv, TypeOK
  <1>4. /\ pc'[s] \in {"libre", "g_telefono", "g_correo", "g_insert"}
        /\ pc'[s] \in {"g_correo", "g_insert"} => p.telefono.texto = NULL
        /\ pc'[s] = "g_insert" => p.correo.texto = NULL
    BY DEF GuardarNuevoSocio, Responde, Sigue, TrasTelefono, Blanco, DInv, IInv, TypeOK
  <1> QED
    BY <1>2, <1>3, <1>4 DEF DInv, SinDuplicados, Verificada, TelefonoLibre, CorreoLibre

(* The two counts: nobody has the telephone, or the mail address.          *)
LEMMA CuentaVerifica ==
    ASSUME DInv, SinSangria, NEW s \in Sesiones, CuentaTelefono(s) \/ CuentaCorreo(s)
    PROVE  SinDuplicados' /\ Verificada(s)'
  <1>1. Visibles(s) = db.Socio
    BY DEF Visibles, DInv, Verificada
  <1>2. p_alta[s] \in Entradas /\ nuevo[s] = {}
    BY DEF CuentaTelefono, CuentaCorreo, DInv, IInv, Argumentos, SesionLimpia
  <1>3. CASE Rollback(s) /\ pc'[s] = "libre"
    <2>1. db' = db /\ foto'[s] = NULL /\ nuevo'[s] = {}
      BY <1>3, CierraTxVacia DEF Rollback, DInv
    <2> QED
      BY <1>3, <2>1, SinVerificar
  <1>4. CASE CuentaTelefono(s) /\ ~(Rollback(s) /\ pc'[s] = "libre")
    <2>1. /\ ~\E r \in db.Socio : Igual(r.telefono, p_alta[s].telefono)
          /\ db' = db /\ nuevo' = nuevo /\ p_alta' = p_alta
          /\ foto'[s] = db.Socio /\ pc'[s] = TrasTelefono(p_alta[s])
      BY <1>1, <1>4 DEF CuentaTelefono, SqlException, Responde, Sigue, DInv, IInv, TypeOK
    <2>2. \A r \in db.Socio : r.telefono # p_alta[s].telefono.texto
      BY <1>2, <2>1 DEF Igual, SinSangria
    <2>3. /\ pc'[s] \in {"g_correo", "g_insert"}
          /\ pc'[s] = "g_insert" => p_alta[s].correo.texto = NULL
      BY <2>1 DEF TrasTelefono, Blanco
    <2> QED
      BY <1>2, <2>1, <2>2, <2>3 DEF DInv, SinDuplicados, Verificada, TelefonoLibre, CorreoLibre
  <1>5. CASE CuentaCorreo(s) /\ ~(Rollback(s) /\ pc'[s] = "libre")
    <2>1. /\ ~\E r \in db.Socio : Igual(r.correo, p_alta[s].correo)
          /\ db' = db /\ nuevo' = nuevo /\ p_alta' = p_alta
          /\ foto'[s] = db.Socio /\ pc[s] = "g_correo" /\ pc'[s] = "g_insert"
      BY <1>1, <1>5 DEF CuentaCorreo, SqlException, Responde, Sigue, DInv, IInv, TypeOK
    <2>2. \A r \in db.Socio : r.correo # p_alta[s].correo.texto
      BY <1>2, <2>1 DEF Igual, SinSangria
    <2> QED
      BY <1>2, <2>1, <2>2 DEF DInv, SinDuplicados, Verificada, TelefonoLibre, CorreoLibre
  <1> QED
    BY <1>3, <1>4, <1>5

LEMMA InsertaVerificada ==
    ASSUME DInv, NEW s \in Sesiones, InsertaSocio(s)
    PROVE  SinDuplicados' /\ Verificada(s)'
  <1>1. CASE Rollback(s) /\ pc'[s] = "libre"
    <2>1. db' = db /\ foto'[s] = NULL /\ nuevo'[s] = {}
      BY <1>1, CierraTxVacia DEF Rollback, DInv
    <2> QED
      BY <1>1, <2>1, SinVerificar
  <1>2. CASE ~(Rollback(s) /\ pc'[s] = "libre")
    <2>1. /\ db' = db /\ p_alta' = p_alta /\ foto' = foto
          /\ nuevo'[s] = {FilaNueva(s)} /\ pc[s] = "g_insert" /\ pc'[s] = "g_commit"
      BY <1>2 DEF InsertaSocio, SqlException, Responde, Sigue, DInv, IInv, TypeOK
    <2> QED
      BY <2>1 DEF FilaNueva, DInv, SinDuplicados, Verificada, TelefonoLibre, CorreoLibre
  <1> QED
    BY <1>1, <1>2

(* The COMMIT of GuardarNuevoSocio adds a row nobody shares a column with. *)
LEMMA ConfirmaDistinta ==
    ASSUME DInv, NEW s \in Sesiones, ConfirmaAlta(s)
    PROVE  SinDuplicados' /\ Verificada(s)'
  <1>1. /\ Commit(s) /\ CierraTx(s) /\ pc[s] = "g_commit" /\ pc'[s] = "libre"
        /\ foto'[s] = NULL /\ nuevo'[s] = {}
    BY CierraTxVacia DEF ConfirmaAlta, Commit, Responde, DInv, IInv, TypeOK
  <1>2. db'.Socio \subseteq db.Socio \cup nuevo[s]
    BY <1>1 DEF Commit, Menos, DInv, IInv, TypeOK, BasesDeDatos
  <1>3. \A r \in nuevo[s] : \A q \in db.Socio :
           /\ r.telefono = q.telefono => r.telefono = NULL
           /\ r.correo = q.correo => r.correo = NULL
    BY <1>1 DEF DInv, Verificada, TelefonoLibre, CorreoLibre
  <1>4. \A r, q \in nuevo[s] : r = q
    BY DEF DInv, IInv, AltaPropia
  <1> QED
    BY <1>1, <1>2, <1>3, <1>4 DEF DInv, SinDuplicados, Verificada

LEMMA RestoVerifica ==
    ASSUME DInv, NEW s \in Sesiones,
           \/ \E id \in Ids : EliminarSocio(s, id) \/ EliminarSocioSeguro(s, id)
           \/ ExisteSocio(s) \/ CuentaBarcos(s) \/ BorraEstadias(s) \/ BorraViajes(s)
           \/ BorraBarcos(s) \/ BorraSocio(s) \/ ConfirmaBaja(s) \/ SeguroExiste(s)
           \/ SeguroCuenta(s) \/ SeguroBorra(s) \/ Vence(s) \/ Corte(s)
    PROVE  SinDuplicados' /\ Verificada(s)'
  <1>1. CASE Vence(s) \/ Corte(s)
    <2>1. Rollback(s) /\ CierraTx(s) /\ pc'[s] = "libre"
      BY <1>1 DEF Vence, Corte, SqlException, Rollback, Responde, DInv, IInv, TypeOK
    <2>2. db' = db /\ foto'[s] = NULL /\ nuevo'[s] = {}
      BY <2>1, CierraTxVacia DEF Rollback, DInv
    <2> QED
      BY <2>1, <2>2, SinVerificar
  <1>2. CASE ~(Vence(s) \/ Corte(s))
    <2>1. pc[s] \notin {"g_telefono", "g_correo", "g_insert", "g_commit"}
      BY <1>2 DEF EliminarSocio, EliminarSocioSeguro, ExisteSocio, CuentaBarcos, BorraEstadias,
         BorraViajes, BorraBarcos, BorraSocio, ConfirmaBaja, SeguroExiste, SeguroCuenta,
         SeguroBorra
    <2>2. foto[s] = NULL /\ nuevo[s] = {}
      BY <2>1 DEF DInv, Verificada, IInv, SesionLimpia
    <2>3. pc'[s] \notin {"g_telefono", "g_correo", "g_insert", "g_commit"}
      BY <1>2 DEF EliminarSocio, EliminarSocioSeguro, ExisteSocio, CuentaBarcos, BorraEstadias,
         BorraViajes, BorraHijas, BorraBarcos, BorraSocio, ConfirmaBaja, SeguroExiste,
         SeguroCuenta, SeguroBorra, SqlException, Responde, Sigue, DInv, IInv, TypeOK
    <2>4. \/ foto' = foto /\ nuevo' = nuevo /\ (db' = db \/ SeguroBorra(s))
          \/ Commit(s) /\ CierraTx(s)
          \/ db' = db /\ CierraTx(s)
      <3>1. CASE \/ \E id \in Ids : EliminarSocio(s, id) \/ EliminarSocioSeguro(s, id)
                 \/ ExisteSocio(s) \/ SeguroExiste(s) \/ SeguroCuenta(s) \/ SeguroBorra(s)
        BY <3>1 DEF EliminarSocio, EliminarSocioSeguro, ExisteSocio, SeguroExiste,
           SeguroCuenta, SeguroBorra, SqlException, Rollback
      <3>2. CASE CuentaBarcos(s) \/ ConfirmaBaja(s)
        BY <3>2 DEF CuentaBarcos, StartTransaction, ConfirmaBaja, Commit
      <3>3. CASE BorraEstadias(s) \/ BorraViajes(s)
        BY <3>3 DEF BorraEstadias, BorraViajes, BorraHijas
      <3>4. CASE BorraBarcos(s) \/ BorraSocio(s)
        BY <3>4 DEF BorraBarcos, BorraSocio, SqlException, Rollback
      <3> QED
        BY <1>2, <3>1, <3>2, <3>3, <3>4
    <2>5. SeguroBorra(s) => db'.Socio \subseteq db.Socio
      BY DEF SeguroBorra, DInv, IInv, TypeOK, BasesDeDatos
    <2>6. db'.Socio \subseteq db.Socio /\ foto'[s] = NULL /\ nuevo'[s] = {}
      BY <2>2, <2>4, <2>5, CommitQuita, CierraTxVacia DEF DInv
    <2> QED
      BY <2>3, <2>6, SinVerificar
  <1> QED
    BY <1>1, <1>2

LEMMA DInvNext ==
    ASSUME UnaSesion, SinSangria
    PROVE  DInv /\ [Next]_vars => DInv'
  <1> SUFFICES ASSUME DInv, [Next]_vars PROVE DInv'
    OBVIOUS
  <1>1. IInv'
    BY IInvNext DEF DInv
  <1>2. ASSUME NEW s \in Sesiones, Llamada(s) \/ Avanza(s) \/ Vence(s) \/ Corte(s)
        PROVE  SinDuplicados' /\ Verificada(s)'
    <2>1. ASSUME NEW p \in Entradas, GuardarNuevoSocio(s, p)
          PROVE  SinDuplicados' /\ Verificada(s)'
      BY <2>1, GuardarVerifica
    <2>2. CASE CuentaTelefono(s) \/ CuentaCorreo(s)
      BY <2>2, CuentaVerifica
    <2>3. CASE InsertaSocio(s) \/ ConfirmaAlta(s)
      BY <2>3, InsertaVerificada, ConfirmaDistinta
    <2>4. CASE \/ \E id \in Ids : EliminarSocio(s, id) \/ EliminarSocioSeguro(s, id)
               \/ ExisteSocio(s) \/ CuentaBarcos(s) \/ BorraEstadias(s) \/ BorraViajes(s)
               \/ BorraBarcos(s) \/ BorraSocio(s) \/ ConfirmaBaja(s) \/ SeguroExiste(s)
               \/ SeguroCuenta(s) \/ SeguroBorra(s) \/ Vence(s) \/ Corte(s)
      BY <2>4, RestoVerifica
    <2> QED
      BY <1>2, <2>1, <2>2, <2>3, <2>4 DEF Llamada, Avanza
  <1>3. CASE \E s \in Sesiones : Llamada(s) \/ Avanza(s) \/ Vence(s) \/ Corte(s)
    BY <1>1, <1>2, <1>3 DEF UnaSesion, DInv
  <1>4. CASE Altas \/ UNCHANGED vars
    <2>1. db'.Socio = db.Socio /\ UNCHANGED <<foto, nuevo, pc, p_alta>>
      BY <1>4 DEF Altas, AltaBarco, AltaViaje, AltaEstadia, vars, DInv, IInv, TypeOK, BasesDeDatos
    <2> QED
      BY <1>1, <2>1 DEF DInv, SinDuplicados, Verificada, TelefonoLibre, CorreoLibre
  <1> QED
    BY <1>3, <1>4 DEF Next

LEMMA DInvInit ==
    ASSUME DatosUnicos
    PROVE  Init => DInv
  <1> SUFFICES ASSUME Init PROVE DInv
    OBVIOUS
  <1>1. db \in DatosIniciales
    BY DEF Init
  <1>2. \A s \in Sesiones : pc[s] = "libre" /\ foto[s] = NULL /\ nuevo[s] = {}
    BY DEF Init
  <1>3. SinDuplicados
    BY <1>1 DEF DatosUnicos, Distintos, SinDuplicados
  <1> QED
    BY <1>2, <1>3, IInvInit DEF DInv, Verificada

(* Called one at a time with trimmed arguments, GuardarNuevoSocio never    *)
(* gives two members one telephone or one mail address, however its calls  *)
(* fail, lose their answers or are repeated.                               *)
THEOREM SinDuplicadosEnSerie ==
    ASSUME UnaSesion, SinSangria, DatosUnicos
    PROVE  Spec => []SinDuplicados
  <1>1. Init => DInv
    BY DInvInit
  <1>2. DInv /\ [Next]_vars => DInv'
    BY DInvNext
  <1>3. DInv => SinDuplicados
    BY DEF DInv
  <1> QED
    BY <1>1, <1>2, <1>3, PTL DEF Spec

-----------------------------------------------------------------------------
(* Deletions, one at a time: the member a call has found is still there.   *)
EnTabla(s) == pc[s] \in TrasExistir => p_id_socio[s] \in IdsSocio(db)

EInv == BInv /\ \A s \in Sesiones : EnTabla(s)

(* A step of the session that leaves it inside a deletion leaves the       *)
(* members as they are.                                                    *)
LEMMA SigueEnTabla ==
    ASSUME IInv, NEW s \in Sesiones, Llamada(s) \/ Avanza(s) \/ Vence(s) \/ Corte(s),
           pc'[s] \in TrasExistir
    PROVE  db'.Socio = db.Socio
  <1>1. pc'[s] # "libre" /\ pc'[s] \notin {"g_telefono", "g_correo", "g_insert", "g_commit"}
    BY DEF TrasExistir
  <1>2. CASE Llamada(s)
    BY <1>1, <1>2 DEF Llamada, GuardarNuevoSocio, EliminarSocio, EliminarSocioSeguro,
       Responde, Sigue, TrasTelefono, IInv, TypeOK
  <1>3. CASE Vence(s) \/ Corte(s) \/ ConfirmaAlta(s) \/ ConfirmaBaja(s) \/ SeguroBorra(s)
    BY <1>1, <1>3 DEF Vence, Corte, ConfirmaAlta, ConfirmaBaja, SeguroBorra, SqlException,
       Responde, IInv, TypeOK
  <1>4. CASE \/ CuentaTelefono(s) \/ CuentaCorreo(s) \/ InsertaSocio(s) \/ ExisteSocio(s)
             \/ BorraEstadias(s) \/ BorraViajes(s) \/ BorraBarcos(s) \/ BorraSocio(s)
             \/ SeguroExiste(s) \/ SeguroCuenta(s)
    BY <1>4 DEF CuentaTelefono, CuentaCorreo, InsertaSocio, ExisteSocio, BorraEstadias,
       BorraViajes, BorraHijas, BorraBarcos, BorraSocio, SeguroExiste, SeguroCuenta,
       SqlException, Rollback
  <1>5. CASE CuentaBarcos(s)
    <2>1. Commit(s) /\ borrado[s] = Vacia /\ nuevo[s] = {}
      BY <1>5 DEF CuentaBarcos, StartTransaction, IInv, SesionLimpia, ConLocks
    <2> QED
      BY <2>1 DEF Commit, Menos, Vacia, IInv, TypeOK, BasesDeDatos
  <1> QED
    BY <1>2, <1>3, <1>4, <1>5 DEF Avanza

LEMMA EInvNext ==
    ASSUME UnaSesion
    PROVE  EInv /\ [Next]_vars => EInv'
  <1> SUFFICES ASSUME EInv, [Next]_vars PROVE EInv'
    OBVIOUS
  <1>1. BInv' /\ IInv
    BY BInvNext DEF EInv, BInv
  <1>2. \A s \in Sesiones : Efecto(s)
    BY <1>1, EfectoNext
  <1>3. ASSUME NEW s \in Sesiones, pc'[s] \in TrasExistir
        PROVE  p_id_socio'[s] \in IdsSocio(db')
    <2>1. /\ p_id_socio'[s] = p_id_socio[s]
          /\ Contestada(s) \/ p_id_socio[s] \in IdsSocio(db)
      BY <1>2, <1>3 DEF Efecto, Nombrada, Hallado, EInv, EnTabla
    <2>2. CASE \E t \in Sesiones : Llamada(t) \/ Avanza(t) \/ Vence(t) \/ Corte(t)
      <3>1. Llamada(s) \/ Avanza(s) \/ Vence(s) \/ Corte(s)
        BY <2>2 DEF UnaSesion
      <3>2. db'.Socio = db.Socio
        BY <1>1, <1>3, <3>1, SigueEnTabla
      <3>3. CASE Llamada(s)
        <4>1. pc'[s] \notin TrasExistir
          BY <1>1, <3>3 DEF Llamada, GuardarNuevoSocio, EliminarSocio, EliminarSocioSeguro,
             Responde, Sigue, TrasTelefono, TrasExistir, IInv, TypeOK
        <4> QED
          BY <1>3, <4>1
      <3>4. CASE Vence(s) \/ Corte(s)
        <4>1. pc'[s] = "libre"
          BY <1>1, <3>4 DEF Vence, Corte, SqlException, Responde, IInv, TypeOK
        <4> QED
          BY <1>3, <4>1 DEF TrasExistir
      <3>5. CASE Avanza(s)
        <4>1. pc[s] # "libre"
          BY <3>5 DEF Avanza, CuentaTelefono, CuentaCorreo, InsertaSocio, ConfirmaAlta,
             ExisteSocio, CuentaBarcos, BorraEstadias, BorraViajes, BorraBarcos, BorraSocio,
             ConfirmaBaja, SeguroExiste, SeguroCuenta, SeguroBorra
        <4> QED
          BY <2>1, <3>2, <4>1 DEF Contestada, IdsSocio
      <3> QED
        BY <3>1, <3>3, <3>4, <3>5
    <2>3. CASE Altas \/ UNCHANGED vars
      <3>1. db'.Socio = db.Socio /\ pc' = pc
        BY <1>1, <2>3 DEF Altas, AltaBarco, AltaViaje, AltaEstadia, vars, IInv, TypeOK,
           BasesDeDatos
      <3> QED
        BY <1>3, <2>1, <3>1 DEF Contestada, IdsSocio, TrasExistir
    <2> QED
      BY <2>2, <2>3 DEF Next
  <1> QED
    BY <1>1, <1>3 DEF EInv, EnTabla

(* Called one at a time, whoever is told that its member was deleted is    *)
(* the one that deleted it: what two overlapping calls break is broken by  *)
(* nothing else, neither a failed call nor a retry after a lost answer.    *)
THEOREM EliminadoPorEstaEnSerie ==
    ASSUME UnaSesion
    PROVE  Spec => EliminadoPorEsta
  <1>1. Init => EInv
    BY BInvInit DEF EInv, EnTabla, TrasExistir, Init
  <1>2. EInv /\ [Next]_vars => EInv'
    BY EInvNext
  <1> DEFINE Paso == \A s \in Sesiones :
                        pc[s] # "libre" /\ pc'[s] = "libre" /\ ret'[s] = "eliminado"
                        => p_id_socio[s] \in IdsSocio(db)
  <1>3. EInv /\ [Next]_vars => [Paso]_vars
    <2> SUFFICES ASSUME EInv, [Next]_vars, NEW s \in Sesiones,
                        pc[s] # "libre", pc'[s] = "libre", ret'[s] = "eliminado"
                 PROVE  p_id_socio[s] \in IdsSocio(db)
      OBVIOUS
    <2>1. PorContestar(s)
      BY EfectoNext DEF EInv, BInv, Efecto, Contestada
    <2> QED
      BY <2>1 DEF PorContestar, Contestada, EInv, EnTabla, TrasExistir
  <1> HIDE DEF Paso
  <1>4. Spec => [][Paso]_vars
    BY <1>1, <1>2, <1>3, PTL DEF Spec
  <1> QED
    BY <1>4 DEF Paso, EliminadoPorEsta
=============================================================================
