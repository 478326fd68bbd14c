--------------------------- MODULE LlamadasProofs ---------------------------
(***************************************************************************)
(* Proof that the procedures of ProcSocios, statement by statement, keep   *)
(* the contract of Llamadas: every answer was true at one moment of its    *)
(* call.                                                                   *)
(***************************************************************************)
EXTENDS RespuestasProofs

USE DEF args, tx

DeAlta == {"g_telefono", "g_correo", "g_insert", "g_commit"}

(* Where a call of GuardarNuevoSocio stands: the column it is about to     *)
(* look up is not blank; without a snapshot it has looked up nothing, as   *)
(* the telephone was blank; at its COMMIT the row of its arguments waits.  *)
Pendiente(s) ==
    /\ pc[s] = "g_telefono" => foto[s] = NULL /\ ~Blanco(p_alta[s].telefono)
    /\ pc[s] = "g_correo" => /\ ~Blanco(p_alta[s].correo)
                             /\ foto[s] = NULL => Blanco(p_alta[s].telefono)
    /\ pc[s] = "g_commit" =>
          /\ nuevo[s] # {}
          /\ \A r \in nuevo[s] : /\ r.telefono = p_alta[s].telefono.texto
                                 /\ r.correo = p_alta[s].correo.texto

LInv == BInv /\ \A s \in Sesiones : Pendiente(s)

-----------------------------------------------------------------------------
(* Pendiente is inductive.                                                 *)

LEMMA PendienteAjeno ==
    ASSUME NEW s \in Sesiones, Pendiente(s), pc'[s] = pc[s], foto'[s] = foto[s],
           p_alta'[s] = p_alta[s], nuevo'[s] = nuevo[s]
    PROVE  Pendiente(s)'
  BY DEF Pendiente

LEMMA PendienteFuera ==
    ASSUME NEW s \in Sesiones, pc'[s] \notin {"g_telefono", "g_correo", "g_commit"}
    PROVE  Pendiente(s)'
  BY DEF Pendiente

LEMMA PendienteGuardar ==
    ASSUME IInv, NEW s \in Sesiones, NEW p \in Entradas, GuardarNuevoSocio(s, p)
    PROVE  Pendiente(s)'
  <1>1. p_alta'[s] = p /\ foto'[s] = NULL
    BY DEF GuardarNuevoSocio, StartTransaction, Commit, CierraTx, IInv, TypeOK
  <1>2. /\ pc'[s] \in {"libre", "g_telefono", "g_correo", "g_insert"}
        /\ pc'[s] = "g_telefono" => ~Blanco(p.telefono)
        /\ pc'[s] = "g_correo" => ~Blanco(p.correo) /\ Blanco(p.telefono)
    BY DEF GuardarNuevoSocio, Responde, Sigue, TrasTelefono, IInv, TypeOK
  <1> QED
    BY <1>1, <1>2 DEF Pendiente

LEMMA PendienteCuenta ==
    ASSUME IInv, NEW s \in Sesiones, CuentaTelefono(s) \/ CuentaCorreo(s)
    PROVE  Pendiente(s)'
  <1>1. Visibles(s) # NULL
    BY FotoAssumption DEF Visibles, IInv, TypeOK, BasesDeDatos
  <1>2. \/ pc'[s] \in {"libre", "g_insert"}
        \/ /\ pc'[s] = "g_correo" /\ ~Blanco(p_alta[s].correo)
           /\ foto'[s] = Visibles(s) /\ p_alta' = p_alta
    BY DEF CuentaTelefono, CuentaCorreo, SqlException, Responde, Sigue, TrasTelefono,
       IInv, TypeOK
  <1> QED
    BY <1>1, <1>2 DEF Pendiente

LEMMA PendienteInserta ==
    ASSUME IInv, NEW s \in Sesiones, InsertaSocio(s)
    PROVE  Pendiente(s)'
  <1>1. \/ pc'[s] = "libre"
        \/ pc'[s] = "g_commit" /\ nuevo'[s] = {FilaNueva(s)} /\ p_alta' = p_alta
    BY DEF InsertaSocio, SqlException, Responde, Sigue, IInv, TypeOK
  <1>2. /\ FilaNueva(s).telefono = p_alta[s].telefono.texto
        /\ FilaNueva(s).correo = p_alta[s].correo.texto
    BY DEF FilaNueva
  <1> HIDE DEF FilaNueva
  <1> QED
    BY <1>1, <1>2 DEF Pendiente

(* What a step leaves alone of the sessions that do not take it.           *)
LEMMA SesionesAjenas ==
    ASSUME IInv, NEW t \in Sesiones, Llamada(t) \/ Avanza(t) \/ Vence(t) \/ Corte(t),
           NEW s \in Sesiones \ {t}
    PROVE  /\ pc'[s] = pc[s] /\ foto'[s] = foto[s] /\ nuevo'[s] = nuevo[s]
           /\ p_alta'[s] = p_alta[s]
  <1>1. CASE Llamada(t)
    BY <1>1 DEF Llamada, GuardarNuevoSocio, StartTransaction, EliminarSocio,
       EliminarSocioSeguro, Commit, CierraTx, Sigue, Responde, IInv, TypeOK
  <1>2. CASE Vence(t) \/ Corte(t)
    BY <1>2 DEF Vence, Corte, SqlException, Rollback, CierraTx, Responde, IInv, TypeOK
  <1>3. CASE CuentaTelefono(t) \/ CuentaCorreo(t) \/ InsertaSocio(t) \/ ConfirmaAlta(t)
    BY <1>3 DEF CuentaTelefono, CuentaCorreo, InsertaSocio, ConfirmaAlta,
       SqlException, Rollback, Commit, CierraTx, Sigue, Responde, IInv, TypeOK
  <1>4. CASE ExisteSocio(t) \/ CuentaBarcos(t) \/ BorraBarcos(t) \/ BorraSocio(t)
             \/ ConfirmaBaja(t)
    BY <1>4 DEF ExisteSocio, CuentaBarcos, StartTransaction, BorraBarcos, BorraSocio,
       ConfirmaBaja, SqlException, Rollback, Commit, CierraTx, Sigue, Responde, IInv, TypeOK
  <1>5. CASE BorraEstadias(t) \/ BorraViajes(t)
    BY <1>5 DEF BorraEstadias, BorraViajes, BorraHijas, Sigue, IInv, TypeOK
  <1>6. CASE SeguroExiste(t) \/ SeguroCuenta(t) \/ SeguroBorra(t)
    BY <1>6 DEF SeguroExiste, SeguroCuenta, SeguroBorra, Sigue, Responde, IInv, TypeOK
  <1> QED
    BY <1>1, <1>2, <1>3, <1>4, <1>5, <1>6 DEF Avanza

LEMMA PendienteNext == LInv /\ [Next]_vars => \A s \in Sesiones : Pendiente(s)'
  <1> SUFFICES ASSUME LInv, [Next]_vars, NEW s \in Sesiones PROVE Pendiente(s)'
    OBVIOUS
  <1>0. IInv /\ Pendiente(s)
    BY DEF LInv, BInv
  <1>1. CASE Llamada(s) \/ Avanza(s) \/ Vence(s) \/ Corte(s)
    <2>1. ASSUME NEW p \in Entradas, GuardarNuevoSocio(s, p) PROVE Pendiente(s)'
      BY <1>0, <2>1, PendienteGuardar
    <2>2. CASE CuentaTelefono(s) \/ CuentaCorreo(s) \/ InsertaSocio(s)
      BY <1>0, <2>2, PendienteCuenta, PendienteInserta
    <2>3. CASE \/ \E id \in Ids : EliminarSocio(s, id) \/ EliminarSocioSeguro(s, id)
               \/ Vence(s) \/ Corte(s)
      BY <1>0, <2>3, PendienteFuera DEF EliminarSocio, EliminarSocioSeguro, Vence, Corte,
         SqlException, Responde, Sigue, IInv, TypeOK
    <2>4. CASE \/ ConfirmaAlta(s) \/ ExisteSocio(s) \/ CuentaBarcos(s) \/ BorraEstadias(s)
               \/ BorraViajes(s) \/ BorraBarcos(s) \/ BorraSocio(s) \/ ConfirmaBaja(s)
               \/ SeguroExiste(s) \/ SeguroCuenta(s) \/ SeguroBorra(s)
      <3>1. pc'[s] \notin {"g_telefono", "g_correo", "g_commit"}
        BY <1>0, <2>4 DEF ConfirmaAlta, ExisteSocio, CuentaBarcos, BorraEstadias, BorraViajes,
           BorraHijas, BorraBarcos, BorraSocio, ConfirmaBaja, SeguroExiste, SeguroCuenta,
           SeguroBorra, SqlException, Responde, Sigue, IInv, TypeOK
      <3> QED
        BY <3>1, PendienteFuera
    <2> QED
      BY <1>1, <2>1, <2>2, <2>3, <2>4 DEF Llamada, Avanza
  <1>2. ASSUME NEW t \in Sesiones \ {s}, Llamada(t) \/ Avanza(t) \/ Vence(t) \/ Corte(t)
        PROVE  Pendiente(s)'
    BY <1>0, <1>2, SesionesAjenas, PendienteAjeno
  <1>3. CASE Altas \/ UNCHANGED vars
    BY <1>0, <1>3, PendienteAjeno DEF Altas, AltaBarco, AltaViaje, AltaEstadia, vars
  <1> QED
    BY <1>1, <1>2, <1>3 DEF Next

LEMMA LInvInit == Init => LInv
  BY BInvInit DEF LInv, Pendiente, Init

LEMMA LInvNext == LInv /\ [Next]_vars => LInv'
  BY BInvNext, PendienteNext DEF LInv

-----------------------------------------------------------------------------
(* The mapping.  Both instances read the register in the same words.       *)

Paso == [s \in Sesiones |-> PasoDe(s)]

LEMMA MismoRegistro ==
    /\ Contrato!Ids = Ids
    /\ \A b, i : Contrato!BarcosDe(b, i) = BarcosDe(b, i)
    /\ \A b : Contrato!IdsSocio(b) = IdsSocio(b)
    /\ \A r : Registro!Inscribir(r) => Contrato!Inscribir(r)
    /\ \A r : Registro!DarDeBaja(r) => Contrato!DarDeBaja(r)
  BY DEF Contrato!Ids, Ids, Contrato!BarcosDe, BarcosDe, Contrato!IdsSocio, IdsSocio,
     Registro!Inscribir, Contrato!Inscribir, Registro!IdsSocio, Registro!MismoPar,
     Contrato!MismoPar, Registro!DarDeBaja, Contrato!DarDeBaja, Registro!BarcosDe,
     Registro!HijasDe, Contrato!HijasDe, Registro!Menos, Contrato!Menos

LEMMA PasoAntes ==
    ASSUME NEW s \in Sesiones
    PROVE  /\ Paso[s] = PasoDe(s)
           /\ pc[s] = "libre" => PasoDe(s) = "libre"
           /\ pc[s] = "g_telefono" => PasoDe(s) = "alta"
           /\ pc[s] = "g_correo" /\ foto[s] = NULL => PasoDe(s) = "alta"
           /\ pc[s] = "g_correo" /\ foto[s] # NULL =>
                 PasoDe(s) = IF \E r \in foto[s] : Igual(r.correo, p_alta[s].correo)
                             THEN "rechazada" ELSE "verificada"
           /\ pc[s] \in {"g_insert", "g_commit"} => PasoDe(s) = "verificada"
           /\ pc[s] = "e_existe" => PasoDe(s) = "baja"
           /\ pc[s] \in {"e_cuenta", "e_estadias", "e_viajes", "e_barcos", "e_socio",
                         "e_commit"} => PasoDe(s) = "baja hallada"
           /\ pc[s] = "s_existe" => PasoDe(s) = "segura"
           /\ pc[s] \in {"s_cuenta", "s_socio"} => PasoDe(s) = "segura hallada"
  BY DEF PasoDe, Paso

LEMMA PasoDespues ==
    ASSUME NEW s \in Sesiones
    PROVE  /\ pc'[s] = "libre" => PasoDe(s)' = "libre"
           /\ pc'[s] = "g_telefono" => PasoDe(s)' = "alta"
           /\ pc'[s] = "g_correo" /\ foto'[s] = NULL => PasoDe(s)' = "alta"
           /\ pc'[s] = "g_correo" /\ foto'[s] # NULL =>
                 PasoDe(s)' = IF \E r \in foto'[s] : Igual(r.correo, p_alta'[s].correo)
                              THEN "rechazada" ELSE "verificada"
           /\ pc'[s] \in {"g_insert", "g_commit"} => PasoDe(s)' = "verificada"
           /\ pc'[s] = "e_existe" => PasoDe(s)' = "baja"
           /\ pc'[s] \in {"e_cuenta", "e_estadias", "e_viajes", "e_barcos", "e_socio",
                          "e_commit"} => PasoDe(s)' = "baja hallada"
           /\ pc'[s] = "s_existe" => PasoDe(s)' = "segura"
           /\ pc'[s] \in {"s_cuenta", "s_socio"} => PasoDe(s)' = "segura hallada"
  BY DEF PasoDe, Igual

LEMMA PasoAjeno ==
    ASSUME NEW t \in Sesiones, pc'[t] = pc[t], foto'[t] = foto[t], p_alta'[t] = p_alta[t]
    PROVE  PasoDe(t)' = PasoDe(t)
  BY DEF PasoDe, Igual

(* A step of session t is a step of its call only.                         *)
Ajenas(t) ==
    \A s \in Sesiones \ {t} :
       pc'[s] = pc[s] /\ foto'[s] = foto[s] /\ p_alta'[s] = p_alta[s]

LEMMA CambiaPaso ==
    ASSUME NEW s \in Sesiones, Ajenas(s), NEW v, PasoDe(s)' = v
    PROVE  Paso' = [Paso EXCEPT ![s] = v]
  <1>1. \A t \in Sesiones \ {s} : PasoDe(t)' = PasoDe(t)
    BY PasoAjeno DEF Ajenas
  <1> QED
    BY <1>1 DEF Paso

LEMMA PasaA ==
    ASSUME NEW s \in Sesiones, Ajenas(s), NEW v, PasoDe(s)' = v, ret' = ret
    PROVE  Contrato!Pasa(s, v)
  BY CambiaPaso DEF Contrato!Pasa, Paso

LEMMA ContestaA ==
    ASSUME IInv, NEW s \in Sesiones, Ajenas(s), NEW r, Responde(s, r)
    PROVE  Contrato!Contesta(s, r)
  <1>1. PasoDe(s)' = "libre" /\ ret' = [ret EXCEPT ![s] = r]
    BY PasoDespues DEF Responde, IInv, TypeOK
  <1> QED
    BY <1>1, CambiaPaso DEF Contrato!Contesta, Paso

LEMMA PasoQuieto ==
    ASSUME NEW s \in Sesiones, Ajenas(s), PasoDe(s)' = PasoDe(s)
    PROVE  Paso' = Paso
  <1>1. \A t \in Sesiones : PasoDe(t)' = PasoDe(t)
    BY PasoAjeno DEF Ajenas
  <1> QED
    BY <1>1 DEF Paso

(* Ids that were given out.                                                *)
LEMMA DadosMismos ==
    ASSUME siguiente' = siguiente, nuevo' = nuevo
    PROVE  Dados' = Dados
  BY DEF Dados

LEMMA CierraSinFila ==
    ASSUME IInv, NEW s \in Sesiones, CierraTx(s), nuevo[s] = {}
    PROVE  nuevo' = nuevo
  BY DEF CierraTx, IInv, TypeOK

(* The row that leaves a transaction takes its id out for good.            *)
LEMMA DadosCierra ==
    ASSUME IInv, NEW s \in Sesiones, NEW r \in nuevo[s], CierraTx(s), siguiente' = siguiente
    PROVE  r.id_socio \in Ids \ Dados /\ Dados' = Dados \cup {r.id_socio}
  <1>1. nuevo[s] = {r} /\ r.id_socio < siguiente /\ r.id_socio \in Ids
    <2>1. r.id_socio \in Ids
      BY DEF IInv, TypeOK, FilasSocio
    <2>2. nuevo[s] = {r} /\ r.id_socio < siguiente
      BY DEF IInv, AltaPropia
    <2> QED
      BY <2>1, <2>2
  <1>2. \A t \in Sesiones : nuevo'[t] = IF t = s THEN {} ELSE nuevo[t]
    BY DEF CierraTx, IInv, TypeOK
  <1>3. \A t \in Sesiones \ {s} : \A q \in nuevo[t] : q.id_socio # r.id_socio
    BY DEF IInv, AltaPropia
  <1>4. r.id_socio \notin Dados
    BY DEF Dados
  <1>5. \A i \in Ids : i \in Dados' <=> i \in Dados \/ i = r.id_socio
    BY <1>1, <1>2, <1>3 DEF Dados
  <1>6. Dados \subseteq Ids /\ Dados' \subseteq Ids
    BY DEF Dados
  <1> QED
    BY <1>1, <1>4, <1>5, <1>6

-----------------------------------------------------------------------------
(* The steps of GuardarNuevoSocio.                                         *)

Contratado == Contrato!LNext \/ UNCHANGED Contrato!lvars

LEMMA OcupadoIgual ==
    ASSUME NEW p \in Entradas
    PROVE  /\ Contrato!TelefonoOcupado(p) <=>
                 ~Blanco(p.telefono) /\ \E r \in db.Socio : Igual(r.telefono, p.telefono)
           /\ Contrato!CorreoOcupado(p) <=>
                 ~Blanco(p.correo) /\ \E r \in db.Socio : Igual(r.correo, p.correo)
  BY DEF Contrato!TelefonoOcupado, Contrato!CorreoOcupado, Contrato!Ocupado, Blanco, Igual

LEMMA AjenasDe ==
    ASSUME IInv, NEW s \in Sesiones, Llamada(s) \/ Avanza(s) \/ Vence(s) \/ Corte(s)
    PROVE  Ajenas(s)
  BY SesionesAjenas DEF Ajenas

LEMMA GuardarContratado ==
    ASSUME LInv, NEW s \in Sesiones, NEW p \in Entradas, GuardarNuevoSocio(s, p)
    PROVE  Contrato!PedirAlta(s, p)
  <1>0. IInv /\ pc[s] = "libre"
    BY DEF LInv, BInv, GuardarNuevoSocio
  <1>1. Ajenas(s)
    BY <1>0, AjenasDe DEF Llamada
  <1>2. Commit(s) /\ CierraTx(s) /\ borrado[s] = Vacia /\ nuevo[s] = {}
    BY <1>0 DEF GuardarNuevoSocio, StartTransaction, Commit, IInv, SesionLimpia, ConLocks
  <1>3. db' = db /\ Dados' = Dados
    BY <1>0, <1>2, CommitNada, CierraSinFila, DadosMismos DEF GuardarNuevoSocio
  <1>4. p_alta' = [p_alta EXCEPT ![s] = p] /\ p_id_socio' = p_id_socio
    BY DEF GuardarNuevoSocio
  <1>5. IF p.blancos # {} THEN Contrato!Contesta(s, "falta")
        ELSE Contrato!Pasa(s, IF p.telefono.texto = NULL /\ p.correo.texto = NULL
                              THEN "verificada" ELSE "alta")
    <2>1. CASE p.blancos # {}
      BY <1>0, <1>1, <2>1, ContestaA DEF GuardarNuevoSocio
    <2>2. CASE p.blancos = {}
      <3>1. ret' = ret /\ foto'[s] = NULL
        BY <1>0, <1>2, <2>2 DEF GuardarNuevoSocio, Sigue, CierraTx, IInv, TypeOK
      <3>2. pc'[s] = IF p.telefono.texto # NULL THEN "g_telefono"
                     ELSE IF p.correo.texto # NULL THEN "g_correo" ELSE "g_insert"
        BY <1>0, <2>2 DEF GuardarNuevoSocio, Sigue, TrasTelefono, Blanco, IInv, TypeOK
      <3>3. PasoDe(s)' = IF p.telefono.texto = NULL /\ p.correo.texto = NULL
                         THEN "verificada" ELSE "alta"
        BY <3>1, <3>2, PasoDespues
      <3> QED
        BY <1>1, <2>2, <3>1, <3>3, PasaA
    <2> QED
      BY <2>1, <2>2
  <1>6. Paso[s] = "libre"
    BY <1>0, PasoAntes
  <1> QED
    BY <1>3, <1>4, <1>5, <1>6 DEF Contrato!PedirAlta, Paso

LEMMA TelefonoContratado ==
    ASSUME LInv, NEW s \in Sesiones, CuentaTelefono(s)
    PROVE  Contrato!TelefonoRepetido(s) \/ Contrato!Verifica(s)
  <1>0. /\ IInv /\ pc[s] = "g_telefono" /\ p_alta[s] \in Entradas
        /\ foto[s] = NULL /\ ~Blanco(p_alta[s].telefono) /\ nuevo[s] = {}
    BY DEF LInv, BInv, Pendiente, CuentaTelefono, IInv, Argumentos, SesionLimpia
  <1>1. Ajenas(s) /\ Visibles(s) = db.Socio /\ Paso[s] = "alta"
    BY <1>0, AjenasDe, PasoAntes DEF Avanza, Visibles
  <1>2. db' = db /\ args' = args /\ siguiente' = siguiente /\ nuevo' = nuevo
    BY <1>0, CierraSinFila DEF CuentaTelefono, SqlException, Rollback
  <1>3. Dados' = Dados
    BY <1>2, DadosMismos
  <1>4. CASE \E r \in db.Socio : Igual(r.telefono, p_alta[s].telefono)
    <2>1. Contrato!Contesta(s, "telefono")
      BY <1>0, <1>1, <1>4, ContestaA DEF CuentaTelefono, SqlException
    <2> QED
      BY <1>0, <1>1, <1>2, <1>3, <1>4, <2>1, OcupadoIgual
         DEF Contrato!TelefonoRepetido, Contrato!llamada, Paso
  <1>5. CASE ~\E r \in db.Socio : Igual(r.telefono, p_alta[s].telefono)
    <2>1. ret' = ret /\ foto'[s] = db.Socio /\ pc'[s] = TrasTelefono(p_alta[s])
      BY <1>0, <1>1, <1>5 DEF CuentaTelefono, Sigue, IInv, TypeOK
    <2>2. db.Socio # NULL
      BY <1>0, FotoAssumption DEF IInv, TypeOK, BasesDeDatos
    <2>3. PasoDe(s)' = IF Contrato!CorreoOcupado(p_alta[s]) THEN "rechazada" ELSE "verificada"
      <3>1. CASE Blanco(p_alta[s].correo)
        BY <1>0, <2>1, <3>1, PasoDespues, OcupadoIgual DEF TrasTelefono
      <3>2. CASE ~Blanco(p_alta[s].correo)
        BY <1>0, <1>2, <2>1, <2>2, <3>2, PasoDespues, OcupadoIgual DEF TrasTelefono
      <3> QED
        BY <3>1, <3>2
    <2>4. Contrato!Pasa(s, IF Contrato!CorreoOcupado(p_alta[s]) THEN "rechazada"
                                                             ELSE "verificada")
      BY <1>1, <2>1, <2>3, PasaA
    <2> QED
      BY <1>0, <1>1, <1>2, <1>3, <1>5, <2>4, OcupadoIgual
         DEF Contrato!Verifica, Contrato!llamada, Paso
  <1> QED
    BY <1>4, <1>5

LEMMA CorreoContratado ==
    ASSUME LInv, NEW s \in Sesiones, CuentaCorreo(s)
    PROVE  Contrato!CorreoRepetido(s) \/ Contrato!Verifica(s) \/ UNCHANGED Contrato!lvars
  <1>0. /\ IInv /\ pc[s] = "g_correo" /\ p_alta[s] \in Entradas
        /\ foto[s] = NULL => Blanco(p_alta[s].telefono)
        /\ ~Blanco(p_alta[s].correo) /\ nuevo[s] = {}
    BY DEF LInv, BInv, Pendiente, CuentaCorreo, IInv, Argumentos, SesionLimpia
  <1>1. Ajenas(s) /\ Paso[s] = PasoDe(s)
    BY <1>0, AjenasDe, PasoAntes DEF Avanza
  <1>2. db' = db /\ args' = args /\ siguiente' = siguiente /\ nuevo' = nuevo
    BY <1>0, CierraSinFila DEF CuentaCorreo, SqlException, Rollback
  <1>3. Dados' = Dados
    BY <1>2, DadosMismos
  <1>4. CASE \E r \in Visibles(s) : Igual(r.correo, p_alta[s].correo)
    <2>1. Contrato!Contesta(s, "correo")
      BY <1>0, <1>1, <1>4, ContestaA DEF CuentaCorreo, SqlException
    <2>2. \/ Paso[s] = "rechazada"
          \/ /\ Paso[s] = "alta" /\ ~Contrato!TelefonoOcupado(p_alta[s])
             /\ Contrato!CorreoOcupado(p_alta[s])
      BY <1>0, <1>1, <1>4, PasoAntes, OcupadoIgual DEF Visibles
    <2> QED
      BY <1>2, <1>3, <2>1, <2>2 DEF Contrato!CorreoRepetido, Contrato!llamada, Paso
  <1>5. CASE ~\E r \in Visibles(s) : Igual(r.correo, p_alta[s].correo)
    <2>1. ret' = ret /\ pc'[s] = "g_insert"
      BY <1>0, <1>5 DEF CuentaCorreo, Sigue, IInv, TypeOK
    <2>2. PasoDe(s)' = "verificada"
      BY <2>1, PasoDespues
    <2>3. CASE foto[s] = NULL
      <3>1. /\ ~Contrato!TelefonoOcupado(p_alta[s]) /\ ~Contrato!CorreoOcupado(p_alta[s])
            /\ Paso[s] = "alta"
        BY <1>0, <1>1, <1>5, <2>3, PasoAntes, OcupadoIgual DEF Visibles
      <3>2. Contrato!Pasa(s, "verificada")
        BY <1>1, <2>1, <2>2, PasaA
      <3> QED
        BY <1>2, <1>3, <3>1, <3>2 DEF Contrato!Verifica, Contrato!llamada, Paso
    <2>4. CASE foto[s] # NULL
      <3>1. PasoDe(s) = "verificada"
        BY <1>0, <1>5, <2>4, PasoAntes DEF Visibles
      <3>2. Paso' = Paso
        BY <1>1, <2>2, <3>1, PasoQuieto
      <3> QED
        BY <1>2, <1>3, <2>1, <3>2 DEF Contrato!lvars, Contrato!llamada, Paso
    <2> QED
      BY <2>3, <2>4
  <1> QED
    BY <1>4, <1>5

(* A failed call; of the ids it can only spend one that it was to give.    *)
LEMMA FallaContratada ==
    ASSUME LInv, NEW s \in Sesiones, Ajenas(s), NEW r \in {"excepcion", "corte"},
           SqlException(s, r), pc[s] # "libre", args' = args,
           \/ Dados' = Dados
           \/ PasoDe(s) = "verificada" /\ \E i \in Ids : Dados' = Dados \cup {i}
    PROVE  Contrato!Falla(s)
  <1>0. IInv /\ db' = db
    BY DEF LInv, BInv, SqlException, Rollback
  <1>1. Contrato!Contesta(s, r)
    BY <1>0, ContestaA DEF SqlException
  <1>2. Paso[s] = PasoDe(s)
    BY PasoAntes
  <1>3. Paso[s] # "libre"
    BY <1>0, <1>2, PasoAntes DEF IInv, TypeOK, Sentencias
  <1> QED
    BY <1>0, <1>1, <1>2, <1>3, MismoRegistro DEF Contrato!Falla, Contrato!llamada, Paso

LEMMA InsertaContratado ==
    ASSUME LInv, NEW s \in Sesiones, InsertaSocio(s)
    PROVE  Contrato!Falla(s) \/ UNCHANGED Contrato!lvars
  <1>0. /\ IInv /\ pc[s] = "g_insert" /\ nuevo[s] = {} /\ Ajenas(s)
        /\ PasoDe(s) = "verificada" /\ args' = args
        /\ siguiente \in Nat /\ siguiente \in 1 .. MaxId + 1 /\ MaxId \in Nat
    <2>1. IInv /\ pc[s] = "g_insert" /\ args' = args
      BY DEF LInv, BInv, InsertaSocio
    <2>2. nuevo[s] = {}
      BY <2>1 DEF IInv, SesionLimpia
    <2>3. siguiente \in 1 .. MaxId + 1
      BY <2>1 DEF IInv, TypeOK
    <2>4. Ajenas(s) /\ PasoDe(s) = "verificada"
      BY <2>1, AjenasDe, PasoAntes DEF Avanza
    <2>5. siguiente \in Nat /\ MaxId \in Nat
      BY <2>3, MaxIdAssumption
    <2> QED
      BY <2>1, <2>2, <2>3, <2>4, <2>5
  <1>1. \A t \in Sesiones : \A r \in nuevo[t] : r.id_socio < siguiente /\ r.id_socio \in Nat
    <2>1. \A t \in Sesiones : \A r \in nuevo[t] : r.id_socio \in Nat
      BY <1>0 DEF IInv, TypeOK, FilasSocio, Ids
    <2> QED
      BY <1>0, <2>1 DEF IInv, AltaPropia
  <1>2. CASE SqlException(s, "excepcion")
    <2>1. nuevo' = nuevo
      BY <1>0, <1>2, CierraSinFila DEF SqlException, Rollback
    <2>2. CASE siguiente > MaxId
      <3>1. Dados' = Dados
        BY <2>1, <2>2, DadosMismos DEF InsertaSocio
      <3> QED
        BY <1>0, <1>2, <3>1, FallaContratada
    <2>3. CASE ~(siguiente > MaxId)
      <3>1. siguiente' = siguiente + 1 /\ siguiente \in Ids
        BY <1>0, <2>3 DEF InsertaSocio, Ids
      <3>2. \A i \in Ids : i < siguiente' <=> i < siguiente \/ i = siguiente
        BY <1>0, <3>1 DEF Ids
      <3>3. \A t \in Sesiones : \A r \in nuevo[t] : r.id_socio # siguiente
        BY <1>0, <1>1
      <3>4. \A i \in Ids : i \in Dados' <=> i \in Dados \/ i = siguiente
        BY <2>1, <3>2, <3>3 DEF Dados
      <3>5. Dados' = Dados \cup {siguiente}
        BY <3>1, <3>4 DEF Dados
      <3> QED
        BY <1>0, <1>2, <3>1, <3>5, FallaContratada
    <2> QED
      BY <2>2, <2>3
  <1>3. CASE ~SqlException(s, "excepcion")
    <2>1. /\ siguiente' = siguiente + 1 /\ nuevo' = [nuevo EXCEPT ![s] = {FilaNueva(s)}]
          /\ db' = db /\ pc'[s] = "g_commit" /\ ret' = ret
      BY <1>0, <1>3 DEF InsertaSocio, Sigue, IInv, TypeOK
    <2>2. \A t \in Sesiones : nuevo'[t] = IF t = s THEN {FilaNueva(s)} ELSE nuevo[t]
      BY <1>0, <2>1 DEF IInv, TypeOK
    <2>3. FilaNueva(s).id_socio = siguiente
      BY DEF FilaNueva
    <2>4. \A i \in Ids : i < siguiente' <=> i < siguiente \/ i = siguiente
      BY <1>0, <2>1 DEF Ids
    <2>5. \A i \in Ids : i \in Dados' <=> i \in Dados
      <3> SUFFICES ASSUME NEW i \in Ids PROVE i \in Dados' <=> i \in Dados
        OBVIOUS
      <3>1. CASE i = siguiente
        <4>1. i \notin Dados
          BY <1>0, <3>1 DEF Dados
        <4>2. i \notin Dados'
          BY <2>2, <2>3, <3>1 DEF Dados
        <4> QED
          BY <4>1, <4>2
      <3>2. CASE i # siguiente
        BY <1>0, <2>2, <2>3, <2>4, <3>2 DEF Dados
      <3> QED
        BY <3>1, <3>2
    <2>6. Dados' = Dados
      BY <2>5 DEF Dados
    <2>7. Paso' = Paso
      BY <1>0, <2>1, PasoDespues, PasoQuieto
    <2> QED
      BY <1>0, <2>1, <2>6, <2>7 DEF Contrato!lvars, Contrato!llamada, Paso
  <1> QED
    BY <1>2, <1>3

LEMMA AltaContratada ==
    ASSUME LInv, NEW s \in Sesiones, ConfirmaAlta(s)
    PROVE  Contrato!Inscribe(s)
  <1>0. /\ IInv /\ pc[s] = "g_commit" /\ Ajenas(s) /\ Paso[s] = "verificada"
        /\ Commit(s) /\ CierraTx(s) /\ args' = args /\ siguiente' = siguiente
    BY AjenasDe, PasoAntes DEF LInv, BInv, ConfirmaAlta, Avanza, Commit
  <1>1. PICK r \in nuevo[s] : /\ r.telefono = p_alta[s].telefono.texto
                              /\ r.correo = p_alta[s].correo.texto
    BY <1>0 DEF LInv, Pendiente
  <1>2. r.id_socio \in Ids \ Dados /\ Dados' = Dados \cup {r.id_socio}
    BY <1>0, DadosCierra
  <1>3. r = [id_socio |-> r.id_socio, telefono |-> p_alta[s].telefono.texto,
             correo |-> p_alta[s].correo.texto]
    BY <1>0, <1>1 DEF IInv, TypeOK, FilasSocio
  <1>4. Contrato!Inscribir(r)
    BY <1>0, CommitInscribe, MismoRegistro
  <1>5. \E a \in {"guardado", "corte"} : Contrato!Contesta(s, a)
    BY <1>0, ContestaA DEF ConfirmaAlta
  <1> QED
    BY <1>0, <1>2, <1>3, <1>4, <1>5, MismoRegistro DEF Contrato!Inscribe, Contrato!llamada, Paso

-----------------------------------------------------------------------------
(* The steps of EliminarSocio and EliminarSocioSeguro.                     *)

LEMMA BajaPedida ==
    ASSUME LInv, NEW s \in Sesiones, NEW i \in Ids,
           EliminarSocio(s, i) \/ EliminarSocioSeguro(s, i)
    PROVE  Contrato!PedirBaja(s, i)
  <1>0. IInv /\ Ajenas(s) /\ Paso[s] = "libre"
    BY AjenasDe, PasoAntes DEF LInv, BInv, Llamada, EliminarSocio, EliminarSocioSeguro
  <1>1. /\ db' = db /\ p_alta' = p_alta /\ p_id_socio' = [p_id_socio EXCEPT ![s] = i]
        /\ siguiente' = siguiente /\ nuevo' = nuevo /\ ret' = ret
        /\ pc'[s] \in {"e_existe", "s_existe"}
    BY <1>0 DEF EliminarSocio, EliminarSocioSeguro, Sigue, IInv, TypeOK
  <1>2. \E p \in DOMAIN Contrato!Hallada : Contrato!Pasa(s, p)
    <2>1. PasoDe(s)' \in {"baja", "segura"}
      BY <1>1, PasoDespues
    <2> QED
      BY <1>0, <1>1, <2>1, PasaA DEF Contrato!Hallada
  <1>3. Dados' = Dados
    BY <1>1, DadosMismos
  <1> QED
    BY <1>0, <1>1, <1>2, <1>3 DEF Contrato!PedirBaja, Paso

(* The two SELECT COUNT(star) on Socio.                                    *)
LEMMA ExistenciaContratada ==
    ASSUME LInv, NEW s \in Sesiones, ExisteSocio(s) \/ SeguroExiste(s)
    PROVE  Contrato!Halla(s) \/ Contrato!NoHalla(s)
  <1>0. /\ IInv /\ Ajenas(s) /\ Paso[s] \in DOMAIN Contrato!Hallada
        /\ Contrato!Hallada[Paso[s]] = IF pc[s] = "e_existe" THEN "baja hallada"
                                                             ELSE "segura hallada"
    <2>1. IInv /\ Ajenas(s)
      BY AjenasDe DEF LInv, BInv, Avanza
    <2>2. \/ pc[s] = "e_existe" /\ Paso[s] = "baja"
          \/ pc[s] = "s_existe" /\ Paso[s] = "segura"
      BY PasoAntes DEF ExisteSocio, SeguroExiste
    <2>3. /\ DOMAIN Contrato!Hallada = {"baja", "segura"}
          /\ Contrato!Hallada["baja"] = "baja hallada"
          /\ Contrato!Hallada["segura"] = "segura hallada"
      BY DEF Contrato!Hallada
    <2> QED
      BY <2>1, <2>2, <2>3
  <1>1. nuevo[s] = {}
    BY <1>0 DEF ExisteSocio, SeguroExiste, IInv, SesionLimpia
  <1>2. db' = db /\ args' = args /\ siguiente' = siguiente /\ nuevo' = nuevo
    BY <1>0, <1>1, CierraSinFila DEF ExisteSocio, SeguroExiste, SqlException, Rollback
  <1>3. Dados' = Dados
    BY <1>2, DadosMismos
  <1>4. CASE p_id_socio[s] \in IdsSocio(db)
    <2>1. /\ ret' = ret
          /\ pc'[s] = IF pc[s] = "e_existe" THEN "e_cuenta" ELSE "s_cuenta"
      BY <1>0, <1>4 DEF ExisteSocio, SeguroExiste, Sigue, IInv, TypeOK
    <2>2. Contrato!Pasa(s, Contrato!Hallada[Paso[s]])
      BY <1>0, <2>1, PasoDespues, PasaA
    <2> QED
      BY <1>0, <1>2, <1>3, <1>4, <2>2, MismoRegistro DEF Contrato!Halla, Contrato!llamada, Paso
  <1>5. CASE p_id_socio[s] \notin IdsSocio(db)
    <2>1. Contrato!Contesta(s, "no existe")
      BY <1>0, <1>5, ContestaA DEF ExisteSocio, SeguroExiste, SqlException
    <2> QED
      BY <1>0, <1>2, <1>3, <1>5, <2>1, MismoRegistro
         DEF Contrato!NoHalla, Contrato!llamada, Paso
  <1> QED
    BY <1>4, <1>5

(* A statement inside the transaction: it goes on, or the handler ends it. *)
LEMMA DentroContratado ==
    ASSUME LInv, NEW s \in Sesiones,
           CuentaBarcos(s) \/ BorraEstadias(s) \/ BorraViajes(s) \/ BorraBarcos(s) \/ BorraSocio(s)
    PROVE  Contrato!Falla(s) \/ UNCHANGED Contrato!lvars
  <1>0. /\ IInv /\ Ajenas(s) /\ PasoDe(s) = "baja hallada" /\ nuevo[s] = {}
        /\ args' = args /\ siguiente' = siguiente /\ pc[s] # "libre"
    <2>1. /\ IInv /\ args' = args /\ siguiente' = siguiente
          /\ pc[s] \in {"e_cuenta", "e_estadias", "e_viajes", "e_barcos", "e_socio"}
      BY DEF LInv, BInv, CuentaBarcos, BorraEstadias, BorraViajes, BorraHijas, BorraBarcos,
         BorraSocio
    <2>2. nuevo[s] = {}
      BY <2>1 DEF IInv, SesionLimpia
    <2> QED
      BY <2>1, <2>2, AjenasDe, PasoAntes DEF Avanza
  <1>1. nuevo' = nuevo
    <2>1. CASE CuentaBarcos(s)
      BY <1>0, <2>1, CierraSinFila DEF CuentaBarcos, StartTransaction, Commit
    <2>2. CASE BorraEstadias(s) \/ BorraViajes(s)
      BY <2>2 DEF BorraEstadias, BorraViajes, BorraHijas
    <2>3. CASE BorraBarcos(s) \/ BorraSocio(s)
      BY <1>0, <2>3, CierraSinFila DEF BorraBarcos, BorraSocio, SqlException, Rollback
    <2> QED
      BY <2>1, <2>2, <2>3
  <1>2. Dados' = Dados
    BY <1>0, <1>1, DadosMismos
  <1>3. CASE SqlException(s, "excepcion")
    BY <1>0, <1>2, <1>3, FallaContratada
  <1>4. CASE ~SqlException(s, "excepcion")
    <2>1. db' = db
      <3>1. CASE CuentaBarcos(s)
        <4>1. borrado[s] = Vacia
          BY <1>0, <3>1 DEF CuentaBarcos, IInv, SesionLimpia, ConLocks
        <4> QED
          BY <1>0, <3>1, <4>1, CommitNada DEF CuentaBarcos, StartTransaction
      <3>2. CASE ~CuentaBarcos(s)
        BY <1>4, <3>2 DEF BorraEstadias, BorraViajes, BorraHijas, BorraBarcos, BorraSocio
      <3> QED
        BY <3>1, <3>2
    <2>2. /\ ret' = ret
          /\ pc'[s] \in {"e_estadias", "e_viajes", "e_barcos", "e_socio", "e_commit"}
      BY <1>0, <1>4 DEF CuentaBarcos, BorraEstadias, BorraViajes, BorraHijas, BorraBarcos,
         BorraSocio, Sigue, IInv, TypeOK
    <2>3. Paso' = Paso
      BY <1>0, <2>2, PasoDespues, PasoQuieto
    <2> QED
      BY <1>0, <1>2, <2>1, <2>2, <2>3 DEF Contrato!lvars, Contrato!llamada, Paso
  <1> QED
    BY <1>3, <1>4

(* The COMMIT deletes the member with all that hangs from it, or nothing   *)
(* when another call has deleted it.                                       *)
LEMMA BajaContratada ==
    ASSUME LInv, NEW s \in Sesiones, ConfirmaBaja(s)
    PROVE  Contrato!Elimina(s)
  <1>0. /\ IInv /\ pc[s] = "e_commit" /\ Ajenas(s) /\ Paso[s] = "baja hallada"
        /\ Commit(s) /\ CierraTx(s) /\ args' = args /\ siguiente' = siguiente
    BY AjenasDe, PasoAntes DEF LInv, BInv, ConfirmaBaja, Avanza, Commit
  <1>1. nuevo[s] = {} /\ PropioDe(s)
    BY <1>0 DEF IInv, SesionLimpia, BorradoPropio
  <1>2. Dados' = Dados
    BY <1>0, <1>1, CierraSinFila, DadosMismos
  <1>3. \/ \E r \in db.Socio : r.id_socio = p_id_socio[s] /\ Contrato!DarDeBaja(r)
        \/ p_id_socio[s] \notin IdsSocio(db) /\ db' = db
    <2>1. CASE borrado[s] # Vacia
      BY <1>0, <2>1, CommitDaDeBaja, MismoRegistro
    <2>2. CASE borrado[s] = Vacia
      <3>0. borrado[s].Socio = {}
        BY <2>2 DEF Vacia
      <3>1. p_id_socio[s] \notin IdsSocio(db)
        BY <1>0, <3>0 DEF LInv, BInv, BajaHecha, IdsSocio
      <3> QED
        BY <1>0, <1>1, <2>2, <3>1, CommitNada
    <2> QED
      BY <2>1, <2>2
  <1>4. \E a \in {"eliminado", "corte"} : Contrato!Contesta(s, a)
    BY <1>0, ContestaA DEF ConfirmaBaja
  <1> QED
    BY <1>0, <1>2, <1>3, <1>4, MismoRegistro DEF Contrato!Elimina, Contrato!llamada, Paso

LEMMA SeguroContratado ==
    ASSUME LInv, NEW s \in Sesiones, SeguroCuenta(s) \/ SeguroBorra(s)
    PROVE  \/ Contrato!ConBarcos(s) \/ Contrato!Elimina(s) \/ Contrato!Falla(s)
           \/ UNCHANGED Contrato!lvars
  <1>0. /\ IInv /\ pc[s] \in {"s_cuenta", "s_socio"} /\ Ajenas(s)
        /\ Paso[s] = "segura hallada" /\ PasoDe(s) = "segura hallada"
        /\ args' = args /\ siguiente' = siguiente /\ nuevo' = nuevo
    BY AjenasDe, PasoAntes DEF LInv, BInv, SeguroCuenta, SeguroBorra, Avanza
  <1>1. Dados' = Dados
    BY <1>0, DadosMismos
  <1>2. CASE SeguroCuenta(s) /\ BarcosDe(db, p_id_socio[s]) = {}
    <2>1. db' = db /\ ret' = ret /\ pc'[s] = "s_socio"
      BY <1>0, <1>2 DEF SeguroCuenta, Sigue, IInv, TypeOK
    <2>2. Paso' = Paso
      BY <1>0, <2>1, PasoDespues, PasoQuieto
    <2> QED
      BY <1>0, <1>1, <2>1, <2>2 DEF Contrato!lvars, Contrato!llamada, Paso
  <1>3. CASE SeguroCuenta(s) /\ BarcosDe(db, p_id_socio[s]) # {}
    <2>1. db' = db /\ Contrato!Contesta(s, "con barcos")
      BY <1>0, <1>3, ContestaA DEF SeguroCuenta
    <2> QED
      BY <1>0, <1>1, <1>3, <2>1, MismoRegistro DEF Contrato!ConBarcos, Contrato!llamada, Paso
  <1>4. CASE SeguroBorra(s) /\ BarcosDe(db, p_id_socio[s]) # {}
    <2>1. db' = db /\ Contrato!Contesta(s, "excepcion")
      BY <1>0, <1>4, ContestaA DEF SeguroBorra
    <2> QED
      BY <1>0, <1>1, <2>1 DEF Contrato!Falla, Contrato!llamada, Paso
  <1>5. CASE SeguroBorra(s) /\ BarcosDe(db, p_id_socio[s]) = {}
    <2>1. \E a \in {"eliminado", "corte"} : Contrato!Contesta(s, a)
      BY <1>0, <1>5, ContestaA DEF SeguroBorra
    <2>2. \/ \E r \in db.Socio : r.id_socio = p_id_socio[s] /\ Contrato!DarDeBaja(r)
          \/ p_id_socio[s] \notin IdsSocio(db) /\ db' = db
      <3>1. CASE db' # db
        BY <1>0, <1>5, <3>1, SeguroDaDeBaja, MismoRegistro
      <3>2. CASE db' = db
        <4>1. db'.Socio = db.Socio \ FilasCon(db, p_id_socio[s])
          BY <1>0, <1>5 DEF SeguroBorra, IInv, TypeOK, BasesDeDatos
        <4> QED
          BY <3>2, <4>1 DEF FilasCon, IdsSocio
      <3> QED
        BY <3>1, <3>2
    <2> QED
      BY <1>0, <1>1, <1>5, <2>1, <2>2, MismoRegistro
         DEF Contrato!Elimina, Contrato!llamada, Paso
  <1> QED
    BY <1>2, <1>3, <1>4, <1>5 DEF SeguroCuenta, SeguroBorra

-----------------------------------------------------------------------------
(* Failures, and rows entered meanwhile.                                   *)

LEMMA FalloContratado ==
    ASSUME LInv, NEW s \in Sesiones, Vence(s) \/ Corte(s)
    PROVE  Contrato!Falla(s)
  <1>0. IInv /\ Ajenas(s) /\ siguiente' = siguiente /\ args' = args
    BY AjenasDe DEF LInv, BInv, Vence, Corte
  <1>1. PICK r \in {"excepcion", "corte"} : SqlException(s, r)
    BY DEF Vence, Corte
  <1>2. pc[s] # "libre"
    <2>1. CASE Vence(s)
      BY <2>1 DEF Vence, Concedidos, Pide, PideJunta
    <2> QED
      BY <2>1 DEF Corte
  <1>3. CASE nuevo[s] = {}
    <2>1. Dados' = Dados
      BY <1>0, <1>1, <1>3, CierraSinFila, DadosMismos DEF SqlException, Rollback
    <2> QED
      BY <1>0, <1>1, <1>2, <2>1, FallaContratada
  <1>4. CASE nuevo[s] # {}
    <2>1. pc[s] = "g_commit" /\ PasoDe(s) = "verificada"
      BY <1>0, <1>4, PasoAntes DEF IInv, SesionLimpia
    <2>2. PICK q \in nuevo[s] : TRUE
      BY <1>4
    <2>3. q.id_socio \in Ids /\ Dados' = Dados \cup {q.id_socio}
      BY <1>0, <1>1, <2>2, DadosCierra DEF SqlException, Rollback
    <2> QED
      BY <1>0, <1>1, <1>2, <2>1, <2>3, FallaContratada
  <1> QED
    BY <1>3, <1>4

LEMMA AltasContratadas ==
    ASSUME LInv, Altas
    PROVE  Contrato!Registra
  <1>1. UNCHANGED <<siguiente, pc, args, tx, ret>>
    BY DEF Altas, AltaBarco, AltaViaje, AltaEstadia
  <1>2. Dados' = Dados
    BY <1>1, DadosMismos
  <1>3. Paso' = Paso
    BY <1>1, PasoAjeno DEF Paso
  <1>4. \/ \E r \in FilasBarco : Contrato!RegistrarBarco(r)
        \/ \E h \in FilasViajeBarco : Contrato!RegistrarViaje(h)
        \/ \E h \in FilasBarcoMuelle : Contrato!RegistrarEstadia(h)
    BY MismoRegistro DEF Altas, AltaBarco, AltaViaje, AltaEstadia, PadreLibre,
       Contrato!RegistrarBarco, Contrato!RegistrarViaje, Contrato!RegistrarEstadia
  <1>5. /\ Contrato!FilasBarco = FilasBarco /\ Contrato!FilasViajeBarco = FilasViajeBarco
        /\ Contrato!FilasBarcoMuelle = FilasBarcoMuelle
    BY MismoRegistro DEF Contrato!FilasBarco, FilasBarco, Contrato!FilasViajeBarco,
       FilasViajeBarco, Contrato!FilasBarcoMuelle, FilasBarcoMuelle
  <1> QED
    BY <1>1, <1>2, <1>3, <1>4, <1>5 DEF Contrato!Registra, Contrato!llamada, Paso

-----------------------------------------------------------------------------
LEMMA PasoContratado == LInv /\ [Next]_vars => Contratado
  <1> SUFFICES ASSUME LInv, [Next]_vars PROVE Contratado
    OBVIOUS
  <1>1. ASSUME NEW s \in Sesiones, Llamada(s) PROVE Contratado
    BY <1>1, GuardarContratado, BajaPedida, MismoRegistro
       DEF Llamada, Contratado, Contrato!LNext
  <1>2. ASSUME NEW s \in Sesiones, Avanza(s) PROVE Contratado
    <2>1. CASE CuentaTelefono(s) \/ CuentaCorreo(s) \/ InsertaSocio(s) \/ ConfirmaAlta(s)
      BY <2>1, TelefonoContratado, CorreoContratado, InsertaContratado, AltaContratada
         DEF Contratado, Contrato!LNext
    <2>2. CASE ExisteSocio(s) \/ SeguroExiste(s) \/ ConfirmaBaja(s)
      BY <2>2, ExistenciaContratada, BajaContratada DEF Contratado, Contrato!LNext
    <2>3. CASE CuentaBarcos(s) \/ BorraEstadias(s) \/ BorraViajes(s) \/ BorraBarcos(s)
               \/ BorraSocio(s)
      BY <2>3, DentroContratado DEF Contratado, Contrato!LNext
    <2>4. CASE SeguroCuenta(s) \/ SeguroBorra(s)
      BY <2>4, SeguroContratado DEF Contratado, Contrato!LNext
    <2> QED
      BY <1>2, <2>1, <2>2, <2>3, <2>4 DEF Avanza
  <1>3. ASSUME NEW s \in Sesiones, Vence(s) \/ Corte(s) PROVE Contratado
    BY <1>3, FalloContratado DEF Contratado, Contrato!LNext
  <1>4. CASE Altas
    BY <1>4, AltasContratadas DEF Contratado, Contrato!LNext
  <1>5. CASE UNCHANGED vars
    <2>1. Dados' = Dados /\ Paso' = Paso
      BY <1>5, DadosMismos, PasoAjeno DEF vars, Paso
    <2> QED
      BY <1>5, <2>1 DEF vars, Contratado, Contrato!lvars, Contrato!llamada, Paso
  <1> QED
    BY <1>1, <1>2, <1>3, <1>4, <1>5 DEF Next

LEMMA ContratoInit == Init => Contrato!LInit
  <1> SUFFICES ASSUME Init PROVE Contrato!LInit
    OBVIOUS
  <1>1. Registro!RInit
    BY RegistroInit
  <1>2. Contrato!RInit
    BY <1>1 DEF Registro!RInit, Contrato!RInit, Registro!BasesDeDatos, Contrato!BasesDeDatos,
       Registro!Restricciones, Contrato!Restricciones, Registro!ClavesPrimarias,
       Contrato!ClavesPrimarias, Registro!LlavesForaneas, Contrato!LlavesForaneas,
       Registro!TelefonoCorreoUnicos, Contrato!TelefonoCorreoUnicos,
       Registro!MismoPar, Contrato!MismoPar, Registro!FilasSocio, Contrato!FilasSocio,
       Registro!FilasBarco, Contrato!FilasBarco, Registro!FilasViajeBarco,
       Contrato!FilasViajeBarco, Registro!FilasBarcoMuelle, Contrato!FilasBarcoMuelle,
       Registro!Ids, Contrato!Ids
  <1>3. Dados \in SUBSET Ids /\ IdsSocio(db) \subseteq Dados
    <2>1. IdsSocio(db) \subseteq Ids
      BY IInvInit DEF IInv, TypeOK, BasesDeDatos, FilasSocio, IdsSocio
    <2> QED
      BY <2>1 DEF Dados, Init
  <1>4. Paso = [s \in Sesiones |-> "libre"]
    BY PasoAntes DEF Init, Paso
  <1> QED
    BY <1>2, <1>3, <1>4, MismoRegistro DEF Contrato!LInit, Paso, Init

(* The procedures keep the contract of Llamadas, for any number of         *)
(* sessions, however their statements interleave and fail: what an answer  *)
(* says was true of the committed tables at one moment of the call.        *)
THEOREM LlamadasImplementadas == Spec => ImplementaLlamadas
  <1>1. LInv /\ [Next]_vars => [Contrato!LNext]_(Contrato!lvars)
    BY PasoContratado DEF Contratado
  <1> QED
    BY LInvInit, LInvNext, ContratoInit, <1>1, PTL DEF Spec, ImplementaLlamadas, Contrato!LSpec
=============================================================================
