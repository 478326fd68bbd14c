-------------------------- MODULE ProcSociosProofs --------------------------
(***************************************************************************)
(* Proofs about ProcSocios: types, and the constraints of club.sql, for    *)
(* any number of sessions and any tables.                                  *)
(***************************************************************************)
EXTENDS ProcSocios, TLAPS

-----------------------------------------------------------------------------
(* The operators of Club and the ends of transactions keep their types. *)

(* Taking rows out of a database leaves a database. *)
LEMMA MenosTipo ==
    ASSUME NEW b \in BasesDeDatos, NEW d \in BasesDeDatos
    PROVE  Menos(b, d) \in BasesDeDatos
  BY DEF Menos, BasesDeDatos

LEMMA VaciaTipo == Vacia \in BasesDeDatos
  BY DEF Vacia, BasesDeDatos

TxTipo == /\ foto \in [Sesiones -> (SUBSET FilasSocio) \cup {NULL}]
          /\ borrado \in [Sesiones -> BasesDeDatos]
          /\ nuevo \in [Sesiones -> SUBSET FilasSocio]
          /\ candados \in [Sesiones -> SUBSET Candados]

(* Closing a transaction leaves well-typed, empty work. *)
LEMMA CierraTxTipo ==
    ASSUME TypeOK, NEW s \in Sesiones, CierraTx(s)
    PROVE  TxTipo'
  BY VaciaTipo DEF TypeOK, CierraTx, TxTipo

(* COMMIT turns a database into a database. *)
LEMMA CommitTipo ==
    ASSUME TypeOK, NEW s \in Sesiones, Commit(s)
    PROVE  db' \in BasesDeDatos
  <1>1. Menos(db, borrado[s]) \in BasesDeDatos
    BY MenosTipo DEF TypeOK
  <1>2. nuevo[s] \subseteq FilasSocio
    BY DEF TypeOK
  <1> QED
    BY <1>1, <1>2 DEF Commit, BasesDeDatos

(* Every answer and every next statement is one of the listed ones. *)
LEMMA RespondeTipo ==
    ASSUME TypeOK, NEW s \in Sesiones, NEW r \in Respuestas, Responde(s, r)
    PROVE  /\ pc' \in [Sesiones -> Sentencias \cup {"libre"}]
           /\ ret' \in [Sesiones -> Respuestas]
  BY DEF TypeOK, Responde

LEMMA SigueTipo ==
    ASSUME TypeOK, NEW s \in Sesiones, NEW e \in Sentencias, Sigue(s, e)
    PROVE  /\ pc' \in [Sesiones -> Sentencias \cup {"libre"}]
           /\ ret' \in [Sesiones -> Respuestas]
  BY DEF TypeOK, Sigue

(* The row GuardarNuevoSocio inserts is a row of Socio. *)
LEMMA FilaNuevaTipo ==
    ASSUME TypeOK, Argumentos, NEW s \in Sesiones, pc[s] = "g_insert", siguiente <= MaxId
    PROVE  FilaNueva(s) \in FilasSocio
  <1>1. p_alta[s] \in Entradas
    BY DEF Argumentos
  <1>2. /\ p_alta[s].telefono.texto \in Telefonos \cup {NULL}
        /\ p_alta[s].correo.texto \in Correos \cup {NULL}
    BY <1>1, EntradasAssumption DEF Texto
  <1>3. siguiente \in Ids
    BY MaxIdAssumption DEF TypeOK, Ids
  <1> QED
    BY <1>2, <1>3 DEF FilaNueva, FilasSocio

(* The locks a statement asks for are locks. *)
LEMMA CandadosParTipo ==
    ASSUME NEW fs \in SUBSET FilasSocio
    PROVE  CandadosPar(fs) \subseteq Candados
  BY DEF CandadosPar, FilasSocio, Candados

LEMMA CandadosHijasTipo ==
    ASSUME NEW n \in {"Viaje_Barco", "Barco_Muelle"}, NEW tabla, NEW bs \in SUBSET FilasBarco
    PROVE  CandadosHijas(n, tabla, bs) \subseteq Candados
  <1> SUFFICES ASSUME NEW c \in CandadosHijas(n, tabla, bs)
               PROVE  c \in Candados
    OBVIOUS
  <1>1. PICK r \in bs, m \in {"S", "X"} : c = <<n, r.n_matricula, m>>
    BY DEF CandadosHijas
  <1>2. r.n_matricula \in Matriculas
    BY DEF FilasBarco
  <1> QED
    BY <1>1, <1>2 DEF Candados

LEMMA PideTipo ==
    ASSUME TypeOK, Argumentos, NEW s \in Sesiones, pc[s] = "g_insert" => siguiente <= MaxId
    PROVE  /\ Pide(s) \subseteq Candados
           /\ PideJunta(s) \subseteq Candados
  <1>1. Actual(s) \in BasesDeDatos
    BY MenosTipo DEF TypeOK, Actual
  <1> DEFINE id == p_id_socio[s]
             bs == BarcosDe(Actual(s), id)
  <1>2. bs \subseteq FilasBarco
    BY <1>1 DEF BasesDeDatos, BarcosDe
  <1>3. FilasCon(db, id) \in SUBSET FilasSocio
    BY DEF TypeOK, BasesDeDatos, FilasCon
  <1>4. CASE pc[s] = "g_insert"
    <2>1. CandadosPar({FilaNueva(s)}) \subseteq Candados
      BY <1>4, FilaNuevaTipo, CandadosParTipo
    <2> QED
      BY <1>4, <2>1 DEF Pide, PideJunta
  <1>5. CASE pc[s] \in {"e_estadias", "e_viajes"}
    <2>1. id \in Ids
      BY <1>5 DEF Argumentos
    <2>2. /\ CandadosHijas("Barco_Muelle", Actual(s).Barco_Muelle, bs) \subseteq Candados
          /\ CandadosHijas("Viaje_Barco", Actual(s).Viaje_Barco, bs) \subseteq Candados
      BY <1>2, CandadosHijasTipo
    <2>3. Pide(s) \subseteq Candados
      BY <1>5, <2>2 DEF Pide
    <2>4. PideJunta(s) \subseteq Candados
      BY <2>1 DEF PideJunta, Candados
    <2> QED
      BY <2>3, <2>4
  <1>6. CASE pc[s] \in {"e_barcos", "e_socio", "s_socio"}
    <2>1. id \in Ids
      BY <1>6 DEF Argumentos
    <2>2. CandadosPar(FilasCon(db, id)) \subseteq Candados
      BY <1>3, CandadosParTipo
    <2>3. \A m \in {"S", "X"} : <<"Socio", id, m>> \in Candados /\ <<"Barco", id, m>> \in Candados
      BY <2>1 DEF Candados
    <2> QED
      BY <1>6, <2>2, <2>3 DEF Pide, PideJunta
  <1>7. CASE pc[s] \notin {"g_insert", "e_estadias", "e_viajes", "e_barcos", "e_socio", "s_socio"}
    BY <1>7 DEF Pide, PideJunta
  <1> QED
    BY <1>4, <1>5, <1>6, <1>7

-----------------------------------------------------------------------------
(* Types. *)

USE DEF args, tx

Tipos == TypeOK /\ Argumentos

LEMMA TiposInit == Init => Tipos
  <1> SUFFICES ASSUME Init PROVE Tipos
    OBVIOUS
  <1>1. db \in BasesDeDatos
    BY DatosAssumption DEF Init
  <1>2. TypeOK
    BY <1>1, VaciaTipo DEF Init, TypeOK, Respuestas
  <1>3. Argumentos
    BY DEF Init, Argumentos
  <1> QED
    BY <1>2, <1>3 DEF Tipos

(* A statement of a call that answers, or goes on to another statement of  *)
(* the same procedure, keeps the arguments of every session.               *)
LEMMA ArgumentosResponde ==
    ASSUME Tipos, NEW s \in Sesiones, NEW r, Responde(s, r), UNCHANGED args
    PROVE  Argumentos'
  BY DEF Tipos, TypeOK, Argumentos, Responde

LEMMA ArgumentosSigue ==
    ASSUME Tipos, NEW s \in Sesiones, NEW e \in Sentencias, Sigue(s, e), UNCHANGED args,
           pc[s] # "libre",
           (e \in {"g_telefono", "g_correo", "g_insert", "g_commit"})
             <=> (pc[s] \in {"g_telefono", "g_correo", "g_insert", "g_commit"})
    PROVE  Argumentos'
  BY DEF Tipos, TypeOK, Argumentos, Sigue, Sentencias

(* A call that fails with a rollback keeps the types. *)
LEMMA TiposSqlException ==
    ASSUME Tipos, NEW s \in Sesiones, NEW r \in Respuestas, SqlException(s, r),
           siguiente' \in 1 .. MaxId + 1, UNCHANGED args
    PROVE  Tipos'
  <1>1. TxTipo'
    BY CierraTxTipo DEF Tipos, SqlException, Rollback
  <1>2. /\ pc' \in [Sesiones -> Sentencias \cup {"libre"}]
        /\ ret' \in [Sesiones -> Respuestas]
    BY RespondeTipo DEF Tipos, SqlException
  <1>3. Argumentos'
    BY ArgumentosResponde DEF SqlException
  <1> QED
    BY <1>1, <1>2, <1>3 DEF Tipos, TypeOK, TxTipo, SqlException, Rollback

LEMMA TiposGuardarNuevoSocio ==
    ASSUME Tipos, NEW s \in Sesiones, NEW p \in Entradas, GuardarNuevoSocio(s, p)
    PROVE  Tipos'
  <1>1. TxTipo' /\ db' \in BasesDeDatos
    BY CierraTxTipo, CommitTipo DEF Tipos, GuardarNuevoSocio, StartTransaction, Commit
  <1>2. p_alta' \in [Sesiones -> Entradas \cup {NULL}]
    BY DEF Tipos, TypeOK, GuardarNuevoSocio
  <1>3. CASE p.blancos # {}
    <2>1. Responde(s, "falta")
      BY <1>3 DEF GuardarNuevoSocio
    <2>2. "falta" \in Respuestas
      BY DEF Respuestas
    <2>3. Argumentos'
      BY <2>1 DEF Tipos, TypeOK, Argumentos, Responde, GuardarNuevoSocio
    <2> QED
      BY <1>1, <1>2, <2>1, <2>2, <2>3, RespondeTipo
         DEF Tipos, TypeOK, TxTipo, GuardarNuevoSocio
  <1>4. CASE p.blancos = {}
    <2>1. PICK e \in {"g_telefono", "g_correo", "g_insert"} : Sigue(s, e)
      BY <1>4 DEF GuardarNuevoSocio, TrasTelefono
    <2>2. e \in Sentencias
      BY DEF Sentencias
    <2>3. Argumentos'
      BY <2>1 DEF Tipos, TypeOK, Argumentos, Sigue, GuardarNuevoSocio
    <2> QED
      BY <1>1, <1>2, <2>1, <2>2, <2>3, SigueTipo
         DEF Tipos, TypeOK, TxTipo, GuardarNuevoSocio
  <1> QED
    BY <1>3, <1>4

(* The two SELECT COUNT( * ) of GuardarNuevoSocio. *)
LEMMA TiposCuenta ==
    ASSUME Tipos, NEW s \in Sesiones, CuentaTelefono(s) \/ CuentaCorreo(s)
    PROVE  Tipos'
  <1>1. Visibles(s) \in (SUBSET FilasSocio) \cup {NULL}
    BY DEF Tipos, TypeOK, BasesDeDatos, Visibles
  <1>2. CASE \E r \in {"telefono", "correo"} : SqlException(s, r)
    BY <1>2, TiposSqlException
       DEF Respuestas, CuentaTelefono, CuentaCorreo, Tipos, TypeOK
  <1>3. CASE \E e \in {"g_correo", "g_insert"} :
                /\ Sigue(s, e)
                /\ foto' = [foto EXCEPT ![s] = Visibles(s)]
                /\ UNCHANGED <<db, borrado, nuevo, candados>>
    <2>1. PICK e \in {"g_correo", "g_insert"} : Sigue(s, e)
      BY <1>3
    <2>2. e \in Sentencias
      BY DEF Sentencias
    <2>3. pc[s] \in {"g_telefono", "g_correo"} /\ UNCHANGED <<siguiente, args>>
      BY DEF CuentaTelefono, CuentaCorreo
    <2>4. Argumentos'
      BY <2>1, <2>2, <2>3, ArgumentosSigue
    <2>5. foto' \in [Sesiones -> (SUBSET FilasSocio) \cup {NULL}]
      BY <1>1, <1>3 DEF Tipos, TypeOK
    <2> QED
      BY <1>3, <2>1, <2>2, <2>3, <2>4, <2>5, SigueTipo DEF Tipos, TypeOK
  <1> QED
    BY <1>2, <1>3 DEF CuentaTelefono, CuentaCorreo, TrasTelefono

LEMMA TiposInsertaSocio ==
    ASSUME Tipos, NEW s \in Sesiones, InsertaSocio(s)
    PROVE  Tipos'
  <1>1. siguiente' \in 1 .. MaxId + 1
    BY MaxIdAssumption DEF Tipos, TypeOK, InsertaSocio
  <1>2. CASE SqlException(s, "excepcion")
    BY <1>1, <1>2, TiposSqlException DEF Respuestas, InsertaSocio
  <1>3. CASE ~SqlException(s, "excepcion")
    <2>1. /\ siguiente <= MaxId
          /\ nuevo' = [nuevo EXCEPT ![s] = {FilaNueva(s)}]
          /\ Bloquea(s, Pide(s))
          /\ Sigue(s, "g_commit")
          /\ UNCHANGED <<db, foto, borrado>>
      BY <1>3, MaxIdAssumption DEF InsertaSocio, Tipos, TypeOK
    <2>2. FilaNueva(s) \in FilasSocio
      BY <2>1, FilaNuevaTipo DEF InsertaSocio, Tipos
    <2>3. Pide(s) \subseteq Candados
      BY <2>1, PideTipo DEF Tipos
    <2>4. /\ nuevo' \in [Sesiones -> SUBSET FilasSocio]
          /\ candados' \in [Sesiones -> SUBSET Candados]
      BY <2>1, <2>2, <2>3 DEF Bloquea, Tipos, TypeOK
    <2>5. Argumentos'
      BY <2>1, ArgumentosSigue DEF InsertaSocio, Sentencias
    <2> QED
      BY <1>1, <2>1, <2>4, <2>5, SigueTipo DEF InsertaSocio, Sentencias, Tipos, TypeOK
  <1> QED
    BY <1>2, <1>3

(* COMMIT, with its answer received or lost. *)
LEMMA TiposConfirma ==
    ASSUME Tipos, NEW s \in Sesiones, ConfirmaAlta(s) \/ ConfirmaBaja(s)
    PROVE  Tipos'
  <1>1. TxTipo' /\ db' \in BasesDeDatos
    BY CierraTxTipo, CommitTipo DEF Tipos, ConfirmaAlta, ConfirmaBaja, Commit
  <1>2. PICK r \in Respuestas : Responde(s, r)
    BY DEF Respuestas, ConfirmaAlta, ConfirmaBaja
  <1>3. UNCHANGED <<siguiente, args>>
    BY DEF ConfirmaAlta, ConfirmaBaja
  <1> QED
    BY <1>1, <1>2, <1>3, RespondeTipo, ArgumentosResponde DEF Tipos, TypeOK, TxTipo

LEMMA TiposLlamadaBaja ==
    ASSUME Tipos, NEW s \in Sesiones, NEW id \in Ids,
           EliminarSocio(s, id) \/ EliminarSocioSeguro(s, id)
    PROVE  Tipos'
  <1>1. PICK e \in {"e_existe", "s_existe"} : Sigue(s, e)
    BY DEF EliminarSocio, EliminarSocioSeguro
  <1>2. Argumentos'
    BY <1>1 DEF EliminarSocio, EliminarSocioSeguro, Argumentos, Tipos, TypeOK, Sigue
  <1>3. e \in Sentencias
    BY DEF Sentencias
  <1> QED
    BY <1>1, <1>2, <1>3, SigueTipo DEF EliminarSocio, EliminarSocioSeguro, Tipos, TypeOK

(* The statements that write nothing. *)
LEMMA TiposExisteSocio ==
    ASSUME Tipos, NEW s \in Sesiones, ExisteSocio(s)
    PROVE  Tipos'
  <1>1. CASE SqlException(s, "no existe")
    BY <1>1, TiposSqlException DEF Respuestas, ExisteSocio, Tipos, TypeOK
  <1>2. CASE Sigue(s, "e_cuenta") /\ UNCHANGED <<db, tx>>
    <2>1. Argumentos'
      BY <1>2, ArgumentosSigue DEF ExisteSocio, Sentencias
    <2> QED
      BY <1>2, <2>1, SigueTipo DEF ExisteSocio, Sentencias, Tipos, TypeOK
  <1> QED
    BY <1>1, <1>2 DEF ExisteSocio

LEMMA TiposCuentaBarcos ==
    ASSUME Tipos, NEW s \in Sesiones, CuentaBarcos(s)
    PROVE  Tipos'
  <1>1. TxTipo' /\ db' \in BasesDeDatos
    BY CierraTxTipo, CommitTipo DEF Tipos, CuentaBarcos, StartTransaction, Commit
  <1>2. PICK e \in {"e_estadias", "e_socio"} : Sigue(s, e)
    BY DEF CuentaBarcos
  <1>3. e \in Sentencias
    BY DEF Sentencias
  <1>4. Argumentos'
    BY <1>2, <1>3, ArgumentosSigue DEF CuentaBarcos
  <1> QED
    BY <1>1, <1>2, <1>3, <1>4, SigueTipo DEF CuentaBarcos, Tipos, TypeOK, TxTipo

LEMMA TiposSeguroConsulta ==
    ASSUME Tipos, NEW s \in Sesiones, SeguroExiste(s) \/ SeguroCuenta(s)
    PROVE  Tipos'
  <1>1. /\ pc[s] \in {"s_existe", "s_cuenta"}
        /\ UNCHANGED <<db, siguiente, args, tx>>
    BY DEF SeguroExiste, SeguroCuenta
  <1>2. CASE \E r \in {"no existe", "con barcos"} : Responde(s, r)
    <2>1. PICK r \in Respuestas : Responde(s, r)
      BY <1>2 DEF Respuestas
    <2> QED
      BY <1>1, <2>1, RespondeTipo, ArgumentosResponde DEF Tipos, TypeOK
  <1>3. CASE \E e \in {"s_cuenta", "s_socio"} : Sigue(s, e)
    <2>1. PICK e \in {"s_cuenta", "s_socio"} : Sigue(s, e)
      BY <1>3
    <2>2. e \in Sentencias
      BY DEF Sentencias
    <2>3. Argumentos'
      BY <1>1, <2>1, <2>2, ArgumentosSigue
    <2> QED
      BY <1>1, <2>1, <2>2, <2>3, SigueTipo DEF Tipos, TypeOK
  <1> QED
    BY <1>2, <1>3 DEF SeguroExiste, SeguroCuenta

(* The rows a DELETE of the transaction takes are rows of its table. *)
LEMMA TiposBorraHijas ==
    ASSUME Tipos, NEW s \in Sesiones, BorraEstadias(s) \/ BorraViajes(s)
    PROVE  Tipos'
  <1>1. PICK e \in {"e_viajes", "e_barcos"}, junta \in {{}, PideJunta(s)} : BorraHijas(s, junta, e)
    BY DEF BorraEstadias, BorraViajes
  <1>2. pc[s] \in {"e_estadias", "e_viajes"} /\ e \in Sentencias
    BY DEF BorraEstadias, BorraViajes, Sentencias
  <1>3. Pide(s) \cup junta \subseteq Candados
    BY <1>2, PideTipo DEF Tipos
  <1>4. candados' \in [Sesiones -> SUBSET Candados]
    BY <1>1, <1>3 DEF BorraHijas, Bloquea, Tipos, TypeOK
  <1>5. borrado' \in [Sesiones -> BasesDeDatos]
    <2>1. /\ HijasPropias(s, db.Barco_Muelle) \subseteq FilasBarcoMuelle
          /\ HijasPropias(s, db.Viaje_Barco) \subseteq FilasViajeBarco
      BY DEF HijasPropias, HijasDe, Tipos, TypeOK, BasesDeDatos
    <2>2. borrado[s] \in BasesDeDatos
      BY DEF Tipos, TypeOK
    <2>3. /\ [borrado[s] EXCEPT !.Barco_Muelle = @ \cup HijasPropias(s, db.Barco_Muelle)] \in BasesDeDatos
          /\ [borrado[s] EXCEPT !.Viaje_Barco = @ \cup HijasPropias(s, db.Viaje_Barco)] \in BasesDeDatos
      BY <2>1, <2>2 DEF BasesDeDatos
    <2> QED
      BY <2>3 DEF BorraEstadias, BorraViajes, Tipos, TypeOK
  <1>6. Argumentos'
    BY <1>1, <1>2, ArgumentosSigue DEF BorraHijas
  <1> QED
    BY <1>1, <1>2, <1>4, <1>5, <1>6, SigueTipo DEF BorraHijas, Tipos, TypeOK

LEMMA TiposBorraBarcos ==
    ASSUME Tipos, NEW s \in Sesiones, BorraBarcos(s)
    PROVE  Tipos'
  <1>1. CASE SqlException(s, "excepcion")
    BY <1>1, TiposSqlException DEF Respuestas, BorraBarcos, Tipos, TypeOK
  <1>2. CASE ~SqlException(s, "excepcion")
    <2> DEFINE bs == BarcosDe(Actual(s), p_id_socio[s])
    <2>1. /\ borrado' = [borrado EXCEPT ![s].Barco = @ \cup bs]
          /\ Bloquea(s, Pide(s))
          /\ Sigue(s, "e_socio")
          /\ UNCHANGED <<db, foto, nuevo>>
      BY <1>2 DEF BorraBarcos
    <2>2. Actual(s) \in BasesDeDatos /\ borrado[s] \in BasesDeDatos
      BY MenosTipo DEF Actual, Tipos, TypeOK
    <2>3. [borrado[s] EXCEPT !.Barco = @ \cup bs] \in BasesDeDatos
      BY <2>2 DEF BarcosDe, BasesDeDatos
    <2>4. borrado' \in [Sesiones -> BasesDeDatos]
      BY <2>1, <2>3 DEF Tipos, TypeOK
    <2>5. Pide(s) \subseteq Candados
      BY PideTipo DEF BorraBarcos, Tipos
    <2>6. candados' \in [Sesiones -> SUBSET Candados]
      BY <2>1, <2>5 DEF Bloquea, Tipos, TypeOK
    <2>7. Argumentos'
      BY <2>1, ArgumentosSigue DEF BorraBarcos, Sentencias
    <2> QED
      BY <2>1, <2>4, <2>6, <2>7, SigueTipo DEF BorraBarcos, Sentencias, Tipos, TypeOK
  <1> QED
    BY <1>1, <1>2

LEMMA TiposBorraSocio ==
    ASSUME Tipos, NEW s \in Sesiones, BorraSocio(s)
    PROVE  Tipos'
  <1>1. CASE SqlException(s, "excepcion")
    BY <1>1, TiposSqlException DEF Respuestas, BorraSocio, Tipos, TypeOK
  <1>2. CASE ~SqlException(s, "excepcion")
    <2> DEFINE fs == FilasCon(db, p_id_socio[s])
    <2>1. /\ borrado' = [borrado EXCEPT ![s].Socio = @ \cup fs]
          /\ Bloquea(s, Pide(s))
          /\ Sigue(s, "e_commit")
          /\ UNCHANGED <<db, foto, nuevo>>
      BY <1>2 DEF BorraSocio
    <2>2. [borrado[s] EXCEPT !.Socio = @ \cup fs] \in BasesDeDatos
      BY DEF FilasCon, Tipos, TypeOK, BasesDeDatos
    <2>3. borrado' \in [Sesiones -> BasesDeDatos]
      BY <2>1, <2>2 DEF Tipos, TypeOK
    <2>4. Pide(s) \subseteq Candados
      BY PideTipo DEF BorraSocio, Tipos
    <2>5. candados' \in [Sesiones -> SUBSET Candados]
      BY <2>1, <2>4 DEF Bloquea, Tipos, TypeOK
    <2>6. Argumentos'
      BY <2>1, ArgumentosSigue DEF BorraSocio, Sentencias
    <2> QED
      BY <2>1, <2>3, <2>5, <2>6, SigueTipo DEF BorraSocio, Sentencias, Tipos, TypeOK
  <1> QED
    BY <1>1, <1>2

LEMMA TiposSeguroBorra ==
    ASSUME Tipos, NEW s \in Sesiones, SeguroBorra(s)
    PROVE  Tipos'
  <1>1. db' \in BasesDeDatos
    BY DEF SeguroBorra, Tipos, TypeOK, BasesDeDatos
  <1>2. PICK r \in Respuestas : Responde(s, r)
    BY DEF SeguroBorra, Respuestas
  <1>3. UNCHANGED <<siguiente, args, tx>>
    BY DEF SeguroBorra
  <1> QED
    BY <1>1, <1>2, <1>3, RespondeTipo, ArgumentosResponde DEF Tipos, TypeOK

LEMMA TiposFallo ==
    ASSUME Tipos, NEW s \in Sesiones, Vence(s) \/ Corte(s)
    PROVE  Tipos'
  BY TiposSqlException DEF Vence, Corte, Respuestas, Tipos, TypeOK

LEMMA TiposAltas ==
    ASSUME Tipos, Altas
    PROVE  Tipos'
  <1>1. UNCHANGED <<siguiente, pc, args, tx, ret>>
    BY DEF Altas, AltaBarco, AltaViaje, AltaEstadia
  <1> USE DEF Tipos, TypeOK, BasesDeDatos
  <1>2. ASSUME NEW r \in FilasBarco, AltaBarco(r) PROVE db' \in BasesDeDatos
    BY <1>2 DEF AltaBarco
  <1>3. ASSUME NEW h \in FilasViajeBarco, AltaViaje(h) PROVE db' \in BasesDeDatos
    BY <1>3 DEF AltaViaje
  <1>4. ASSUME NEW h \in FilasBarcoMuelle, AltaEstadia(h) PROVE db' \in BasesDeDatos
    BY <1>4 DEF AltaEstadia
  <1> QED
    BY <1>1, <1>2, <1>3, <1>4 DEF Altas, Argumentos

LEMMA TiposNext == Tipos /\ [Next]_vars => Tipos'
  <1> SUFFICES ASSUME Tipos, [Next]_vars PROVE Tipos'
    OBVIOUS
  <1>1. ASSUME NEW s \in Sesiones, Llamada(s) PROVE Tipos'
    BY <1>1, TiposGuardarNuevoSocio, TiposLlamadaBaja DEF Llamada
  <1>2. ASSUME NEW s \in Sesiones, Avanza(s) PROVE Tipos'
    BY <1>2, TiposCuenta, TiposInsertaSocio, TiposConfirma, TiposExisteSocio,
       TiposCuentaBarcos, TiposBorraHijas, TiposBorraBarcos, TiposBorraSocio,
       TiposSeguroConsulta, TiposSeguroBorra
       DEF Avanza
  <1>3. ASSUME NEW s \in Sesiones, Vence(s) \/ Corte(s) PROVE Tipos'
    BY <1>3, TiposFallo
  <1>4. CASE Altas
    BY <1>4, TiposAltas
  <1>5. CASE UNCHANGED vars
    BY <1>5 DEF vars, Tipos, TypeOK, Argumentos
  <1> QED
    BY <1>1, <1>2, <1>3, <1>4, <1>5 DEF Next

(* In every reachable state every variable is of its type, and a call in   *)
(* progress has the arguments its statements use.                          *)
THEOREM TipoCorrecto == Spec => []TypeOK
  <1>1. Spec => []Tipos
    BY TiposInit, TiposNext, PTL DEF Spec
  <1>2. Tipos => TypeOK
    BY DEF Tipos
  <1> QED
    BY <1>1, <1>2, PTL

-----------------------------------------------------------------------------
(* The constraints of club.sql.  Steps that only move a session on, or end *)
(* its transaction, are treated together.                                  *)

(* A COMMIT keeps the declared constraints: what hangs from a deleted row  *)
(* is deleted with it, what is inserted has its own id and pair.           *)
LEMMA IntegridadCommit ==
    ASSUME IInv, NEW s \in Sesiones, Commit(s)
    PROVE  Integridad'
  <1> USE DEF Integridad, Restricciones
  <1>1. /\ db'.Socio = (db.Socio \ borrado[s].Socio) \cup nuevo[s]
        /\ db'.Barco = db.Barco \ borrado[s].Barco
        /\ db'.Viaje_Barco = db.Viaje_Barco \ borrado[s].Viaje_Barco
        /\ db'.Barco_Muelle = db.Barco_Muelle \ borrado[s].Barco_Muelle
    BY DEF Commit, Menos
  <1>2. \A r \in nuevo[s] : /\ \A q \in db.Socio : q.id_socio # r.id_socio /\ ~MismoPar(r, q)
                           /\ \A q \in nuevo[s] : q = r
    BY DEF IInv, AltaPropia, IdsSocio
  <1>3. ClavesPrimarias(db')
    BY <1>1, <1>2 DEF IInv, ClavesPrimarias
  <1>4. TelefonoCorreoUnicos(db')
    BY <1>1, <1>2 DEF IInv, TelefonoCorreoUnicos, MismoPar
  <1>5. ASSUME NEW r \in db'.Barco
        PROVE  \E q \in db'.Socio : q.id_socio = r.id_socio
    <2>1. PICK q \in db.Socio : q.id_socio = r.id_socio
      BY <1>1, <1>5 DEF IInv, LlavesForaneas
    <2>2. q \notin borrado[s].Socio
      BY <1>1, <1>5, <2>1 DEF IInv, BorradoCompleto, BarcosDe
    <2> QED
      BY <1>1, <2>1, <2>2
  <1>6. ASSUME NEW h \in db'.Viaje_Barco \cup db'.Barco_Muelle
        PROVE  \E r \in db'.Barco : r.n_matricula = h.n_matricula
    <2>1. PICK r \in db.Barco : r.n_matricula = h.n_matricula
      BY <1>1, <1>6 DEF IInv, LlavesForaneas
    <2>2. r \notin borrado[s].Barco
      BY <1>1, <1>6, <2>1 DEF IInv, BorradoCompleto, HijasDe
    <2> QED
      BY <1>1, <2>1, <2>2
  <1> QED
    BY <1>3, <1>4, <1>5, <1>6 DEF LlavesForaneas

LEMMA IntegridadSeguroBorra ==
    ASSUME IInv, NEW s \in Sesiones, SeguroBorra(s)
    PROVE  Integridad'
  <1> USE DEF Integridad, Restricciones
  <1>1. CASE db' = db
    BY <1>1 DEF IInv
  <1>2. CASE db' # db
    <2>1. /\ BarcosDe(db, p_id_socio[s]) = {}
          /\ db' = [db EXCEPT !.Socio = @ \ FilasCon(db, p_id_socio[s])]
      BY <1>2 DEF SeguroBorra
    <2>2. /\ db'.Socio = db.Socio \ FilasCon(db, p_id_socio[s])
          /\ db'.Barco = db.Barco
          /\ db'.Viaje_Barco = db.Viaje_Barco
          /\ db'.Barco_Muelle = db.Barco_Muelle
      BY <2>1 DEF IInv, TypeOK, BasesDeDatos
    <2>3. ClavesPrimarias(db') /\ TelefonoCorreoUnicos(db')
      BY <2>2 DEF IInv, ClavesPrimarias, TelefonoCorreoUnicos
    <2>4. LlavesForaneas(db')
      BY <2>1, <2>2 DEF IInv, LlavesForaneas, BarcosDe, FilasCon
    <2> QED
      BY <2>3, <2>4
  <1> QED
    BY <1>1, <1>2

LEMMA IntegridadAltas ==
    ASSUME IInv, Altas
    PROVE  Integridad'
  <1> USE DEF Integridad, Restricciones, IInv, TypeOK, BasesDeDatos
  <1>1. ASSUME NEW r \in FilasBarco, AltaBarco(r) PROVE Integridad'
    <2>1. /\ db'.Socio = db.Socio
          /\ db'.Barco = db.Barco \cup {r}
          /\ db'.Viaje_Barco = db.Viaje_Barco
          /\ db'.Barco_Muelle = db.Barco_Muelle
      BY <1>1 DEF AltaBarco
    <2>2. ClavesPrimarias(db') /\ TelefonoCorreoUnicos(db')
      BY <1>1, <2>1 DEF AltaBarco, ClavesPrimarias, TelefonoCorreoUnicos
    <2>3. LlavesForaneas(db')
      BY <1>1, <2>1 DEF AltaBarco, LlavesForaneas, IdsSocio
    <2> QED
      BY <2>2, <2>3
  <1>2. ASSUME /\ db'.Socio = db.Socio
               /\ db'.Barco = db.Barco
               /\ \A h \in (db'.Viaje_Barco \ db.Viaje_Barco) \cup (db'.Barco_Muelle \ db.Barco_Muelle) :
                     \E r \in db.Barco : r.n_matricula = h.n_matricula
        PROVE  Integridad'
    BY <1>2 DEF ClavesPrimarias, TelefonoCorreoUnicos, LlavesForaneas
  <1>3. ASSUME NEW h \in FilasViajeBarco, AltaViaje(h) PROVE Integridad'
    <2>1. /\ db'.Socio = db.Socio
          /\ db'.Barco = db.Barco
          /\ db'.Viaje_Barco = db.Viaje_Barco \cup {h}
          /\ db'.Barco_Muelle = db.Barco_Muelle
      BY <1>3 DEF AltaViaje
    <2> QED
      BY <1>2, <1>3, <2>1 DEF AltaViaje, PadreLibre
  <1>4. ASSUME NEW h \in FilasBarcoMuelle, AltaEstadia(h) PROVE Integridad'
    <2>1. /\ db'.Socio = db.Socio
          /\ db'.Barco = db.Barco
          /\ db'.Viaje_Barco = db.Viaje_Barco
          /\ db'.Barco_Muelle = db.Barco_Muelle \cup {h}
      BY <1>4 DEF AltaEstadia
    <2> QED
      BY <1>2, <1>4, <2>1 DEF AltaEstadia, PadreLibre
  <1> QED
    BY <1>1, <1>3, <1>4 DEF Altas

-----------------------------------------------------------------------------
(* The parts of the invariant that speak of locks and pending work.        *)

Aislamiento == SesionLimpia /\ Exclusion /\ BorradoCompleto /\ AltaPropia

(* A transaction that ends, here with or without changes to the committed  *)
(* rows: no row of a table of children is added, and the members added are *)
(* the ones the transaction had inserted.                                  *)
LEMMA AislamientoCierra ==
    ASSUME IInv, Tipos', NEW s \in Sesiones, CierraTx(s),
           \A t \in Sesiones \ {s} : pc'[t] = pc[t],
           db'.Socio \subseteq db.Socio \cup nuevo[s],
           db'.Barco \subseteq db.Barco,
           db'.Viaje_Barco \subseteq db.Viaje_Barco,
           db'.Barco_Muelle \subseteq db.Barco_Muelle,
           siguiente' >= siguiente
    PROVE  Aislamiento'
  <1>1. /\ borrado'[s] = Vacia
        /\ nuevo'[s] = {}
        /\ candados'[s] = {}
        /\ \A t \in Sesiones \ {s} : /\ borrado'[t] = borrado[t]
                                    /\ nuevo'[t] = nuevo[t]
                                    /\ candados'[t] = candados[t]
    BY DEF CierraTx, IInv, TypeOK
  <1>2. SesionLimpia'
    BY <1>1 DEF SesionLimpia, IInv
  <1>3. Exclusion'
    BY <1>1 DEF Exclusion, IInv, Retenido
  <1>4. BorradoCompleto'
    BY <1>1 DEF BorradoCompleto, IInv, BarcosDe, HijasDe, Vacia
  <1>5. ASSUME NEW t \in Sesiones \ {s}, NEW r \in nuevo[t], NEW q \in nuevo[s]
        PROVE  r.id_socio # q.id_socio /\ ~MismoPar(r, q)
    <2>1. r.id_socio # q.id_socio
      BY DEF IInv, AltaPropia
    <2>2. ASSUME MismoPar(r, q) PROVE FALSE
      <3>1. <<"telefono_correo", <<r.telefono, r.correo>>, "X">> \in candados[t]
        BY <2>2 DEF IInv, AltaPropia, CandadosPar, MismoPar
      <3>2. <<"telefono_correo", <<r.telefono, r.correo>>, "X">> \in candados[s]
        BY <2>2 DEF IInv, AltaPropia, CandadosPar, MismoPar
      <3> QED
        BY <3>1, <3>2 DEF IInv, Exclusion, Retenido
    <2> QED
      BY <2>1, <2>2
  <1>6. AltaPropia'
    <2>1. \A q \in db.Socio \cup nuevo[s] : q.id_socio < siguiente
      BY DEF IInv, AltaPropia
    <2>2. \A q \in db'.Socio : q.id_socio < siguiente'
      <3> SUFFICES ASSUME NEW q \in db'.Socio PROVE q.id_socio < siguiente'
        OBVIOUS
      <3>1. q.id_socio \in Ids /\ siguiente \in Nat /\ siguiente' \in Nat
        BY MaxIdAssumption DEF Tipos, IInv, TypeOK, BasesDeDatos, FilasSocio, Ids
      <3> QED
        BY <2>1, <3>1, MaxIdAssumption DEF Ids
    <2>3. ASSUME NEW t \in Sesiones \ {s}, NEW r \in nuevo[t]
          PROVE  /\ r.id_socio < siguiente'
                 /\ r.id_socio \notin IdsSocio(db')
                 /\ \A q \in db'.Socio : ~MismoPar(r, q)
      <3>1. r.id_socio \in Ids /\ siguiente \in Nat /\ siguiente' \in Nat
        BY MaxIdAssumption DEF Tipos, IInv, TypeOK, BasesDeDatos, FilasSocio, Ids
      <3>2. r.id_socio < siguiente
        BY DEF IInv, AltaPropia
      <3>3. r.id_socio < siguiente'
        BY <3>1, <3>2, MaxIdAssumption DEF Ids
      <3>4. \A q \in db.Socio : r.id_socio # q.id_socio /\ ~MismoPar(r, q)
        BY DEF IInv, AltaPropia, IdsSocio
      <3> QED
        BY <1>5, <3>3, <3>4 DEF IdsSocio
    <2>4. \A t \in Sesiones \ {s} : \A r \in nuevo[t] : CandadosPar({r}) \subseteq candados[t]
      BY DEF IInv, AltaPropia
    <2>5. \A t, u \in Sesiones : t # u => \A r \in nuevo[t], q \in nuevo[u] : q.id_socio # r.id_socio
      BY DEF IInv, AltaPropia
    <2>6. \A t \in Sesiones : \A r, q \in nuevo[t] : r = q
      BY DEF IInv, AltaPropia
    <2> QED
      BY <1>1, <2>2, <2>3, <2>4, <2>5, <2>6 DEF AltaPropia
  <1> QED
    BY <1>2, <1>3, <1>4, <1>6 DEF Aislamiento

(* A step that leaves every open transaction alone, adds no row, and moves *)
(* one session between statements outside its critical part.               *)
LEMMA AislamientoQuieto ==
    ASSUME IInv, NEW s \in Sesiones, \A t \in Sesiones \ {s} : pc'[t] = pc[t],
           pc[s] \notin ConLocks,
           db'.Socio \subseteq db.Socio,
           db'.Barco \subseteq db.Barco,
           db'.Viaje_Barco \subseteq db.Viaje_Barco,
           db'.Barco_Muelle \subseteq db.Barco_Muelle,
           UNCHANGED <<siguiente, borrado, nuevo, candados>>
    PROVE  Aislamiento'
  <1>1. SesionLimpia'
    BY DEF IInv, SesionLimpia, ConLocks
  <1>2. Exclusion'
    BY DEF IInv, Exclusion, Retenido
  <1>3. BorradoCompleto'
    BY DEF IInv, BorradoCompleto, BarcosDe, HijasDe
  <1>4. AltaPropia'
    BY DEF IInv, AltaPropia, IdsSocio
  <1> QED
    BY <1>1, <1>2, <1>3, <1>4 DEF Aislamiento

(* A row entered from outside hangs from nothing that is being deleted.    *)
LEMMA AislamientoAltas ==
    ASSUME IInv, Altas
    PROVE  Aislamiento'
  <1>1. UNCHANGED <<siguiente, pc, args, tx, ret>>
    BY DEF Altas, AltaBarco, AltaViaje, AltaEstadia
  <1>2. db'.Socio = db.Socio
    BY DEF Altas, AltaBarco, AltaViaje, AltaEstadia, IInv, TypeOK, BasesDeDatos
  <1>3. SesionLimpia' /\ Exclusion' /\ AltaPropia'
    <2>1. SesionLimpia'
      BY <1>1 DEF IInv, SesionLimpia
    <2>2. Exclusion'
      BY <1>1 DEF IInv, Exclusion, Retenido
    <2>3. AltaPropia'
      BY <1>1, <1>2 DEF IInv, AltaPropia, IdsSocio
    <2> QED
      BY <2>1, <2>2, <2>3
  <1>4. ASSUME NEW r \in FilasBarco, AltaBarco(r) PROVE BorradoCompleto'
    <2>1. /\ db'.Barco = db.Barco \cup {r}
          /\ db'.Viaje_Barco = db.Viaje_Barco
          /\ db'.Barco_Muelle = db.Barco_Muelle
      BY <1>4 DEF AltaBarco, IInv, TypeOK, BasesDeDatos
    <2>2. \A t \in Sesiones : /\ <<"Socio", r.id_socio, "X">> \notin candados[t]
                              /\ <<"Barco", r.id_socio, "X">> \notin candados[t]
      BY <1>4 DEF AltaBarco, Retenido
    <2> QED
      BY <1>1, <2>1, <2>2 DEF IInv, BorradoCompleto, BarcosDe
  <1>5. ASSUME NEW m,
               \E r \in db.Barco :
                  /\ r.n_matricula = m
                  /\ \A t \in Sesiones : <<"Barco", r.id_socio, "X">> \notin candados[t],
               db'.Barco = db.Barco,
               \A h \in db'.Viaje_Barco \ db.Viaje_Barco : h.n_matricula = m,
               \A h \in db'.Barco_Muelle \ db.Barco_Muelle : h.n_matricula = m
        PROVE  BorradoCompleto'
    <2>1. \A t \in Sesiones : \A q \in borrado[t].Barco \cap db.Barco : q.n_matricula # m
      BY <1>5 DEF IInv, BorradoCompleto, Integridad, Restricciones, ClavesPrimarias
    <2> QED
      BY <1>1, <1>5, <2>1 DEF IInv, BorradoCompleto, BarcosDe, HijasDe
  <1>6. ASSUME NEW h \in FilasViajeBarco, AltaViaje(h) PROVE BorradoCompleto'
    <2>1. /\ db'.Barco = db.Barco
          /\ db'.Viaje_Barco = db.Viaje_Barco \cup {h}
          /\ db'.Barco_Muelle = db.Barco_Muelle
      BY <1>6 DEF AltaViaje, IInv, TypeOK, BasesDeDatos
    <2>2. PadreLibre("Viaje_Barco", h.n_matricula)
      BY <1>6 DEF AltaViaje
    <2> QED
      BY <1>5, <2>1, <2>2 DEF PadreLibre
  <1>7. ASSUME NEW h \in FilasBarcoMuelle, AltaEstadia(h) PROVE BorradoCompleto'
    <2>1. /\ db'.Barco = db.Barco
          /\ db'.Viaje_Barco = db.Viaje_Barco
          /\ db'.Barco_Muelle = db.Barco_Muelle \cup {h}
      BY <1>7 DEF AltaEstadia, IInv, TypeOK, BasesDeDatos
    <2>2. PadreLibre("Barco_Muelle", h.n_matricula)
      BY <1>7 DEF AltaEstadia
    <2> QED
      BY <1>5, <2>1, <2>2 DEF PadreLibre
  <1> QED
    BY <1>3, <1>4, <1>6, <1>7 DEF Aislamiento, Altas

(* Locks that are granted keep exclusive locks exclusive. *)
LEMMA ExclusionBloquea ==
    ASSUME IInv, NEW s \in Sesiones, NEW cs \in SUBSET Candados,
           Concedidos(s, cs), Bloquea(s, cs)
    PROVE  Exclusion'
  <1>1. \A t \in Sesiones : candados'[t] = IF t = s THEN candados[s] \cup cs ELSE candados[t]
    BY DEF Bloquea, IInv, TypeOK
  <1>2. \A c \in Candados : c = <<c[1], c[2], c[3]>> /\ c[3] \in {"S", "X"}
    BY DEF Candados
  <1>3. ASSUME NEW t \in Sesiones \ {s}, NEW c \in cs, c[3] = "X"
        PROVE  ~Retenido(t, c[1], c[2])
    BY <1>3 DEF Concedidos, Concede
  <1>4. ASSUME NEW t \in Sesiones \ {s}, NEW c \in candados[t], c[3] = "X", NEW m \in {"S", "X"}
        PROVE  <<c[1], c[2], m>> \notin cs
    <2>1. c = <<c[1], c[2], "X">>
      BY <1>2, <1>4 DEF IInv, TypeOK
    <2>2. SUFFICES ASSUME <<c[1], c[2], m>> \in cs PROVE FALSE
      OBVIOUS
    <2>3. Concede(s, <<c[1], c[2], m>>)
      BY <2>2 DEF Concedidos
    <2> QED
      BY <2>1, <2>3 DEF Concede, Retenido
  <1> QED
    BY <1>1, <1>3, <1>4 DEF Exclusion, Retenido, IInv

(* The DELETE statements leave the ids and pairs of pending insertions     *)
(* alone, and only run between START TRANSACTION and COMMIT.               *)
LEMMA AislamientoBorra ==
    ASSUME IInv, NEW s \in Sesiones, NEW cs \in SUBSET Candados,
           Concedidos(s, cs), Bloquea(s, cs),
           pc[s] \in ConLocks \ {"g_commit"},
           NEW e \in ConLocks \ {"g_commit"}, Sigue(s, e),
           \A t \in Sesiones \ {s} : borrado'[t] = borrado[t],
           UNCHANGED <<db, siguiente, nuevo>>,
           \A r \in borrado'[s].Socio :
              /\ <<"Socio", r.id_socio, "X">> \in candados[s] \cup cs
              /\ BarcosDe(db, r.id_socio) \subseteq borrado'[s].Barco,
           \A r \in borrado'[s].Barco :
              /\ <<"Barco", r.id_socio, "X">> \in candados[s] \cup cs
              /\ r \in db.Barco =>
                    /\ HijasDe(db.Viaje_Barco, {r}) \subseteq borrado'[s].Viaje_Barco
                    /\ HijasDe(db.Barco_Muelle, {r}) \subseteq borrado'[s].Barco_Muelle
    PROVE  Aislamiento'
  <1>1. \A t \in Sesiones : candados'[t] = IF t = s THEN candados[s] \cup cs ELSE candados[t]
    BY DEF Bloquea, IInv, TypeOK
  <1>2. Exclusion'
    BY ExclusionBloquea
  <1>3. \A t \in Sesiones : pc'[t] = IF t = s THEN e ELSE pc[t]
    BY DEF Sigue, IInv, TypeOK
  <1>4. SesionLimpia'
    BY <1>1, <1>3 DEF IInv, SesionLimpia, ConLocks
  <1>5. BorradoCompleto'
    BY <1>1 DEF IInv, BorradoCompleto
  <1>6. AltaPropia'
    BY <1>1 DEF IInv, AltaPropia
  <1> QED
    BY <1>2, <1>4, <1>5, <1>6 DEF Aislamiento

LEMMA AislamientoBorraHijas ==
    ASSUME IInv, NEW s \in Sesiones, BorraEstadias(s) \/ BorraViajes(s)
    PROVE  Aislamiento'
  <1>1. PICK e \in {"e_viajes", "e_barcos"}, junta \in {{}, PideJunta(s)} : BorraHijas(s, junta, e)
    BY DEF BorraEstadias, BorraViajes
  <1> DEFINE cs == Pide(s) \cup junta
  <1>2. /\ pc[s] \in ConLocks \ {"g_commit"}
        /\ e \in ConLocks \ {"g_commit"}
    BY DEF BorraEstadias, BorraViajes, ConLocks
  <1>3. cs \in SUBSET Candados
    BY <1>2, PideTipo DEF IInv, BorraEstadias, BorraViajes
  <1>4. Concedidos(s, cs) /\ Bloquea(s, cs) /\ Sigue(s, e) /\ UNCHANGED <<db, siguiente, nuevo>>
    BY <1>1 DEF BorraHijas
  <1>5. /\ \A t \in Sesiones \ {s} : borrado'[t] = borrado[t]
        /\ borrado'[s].Socio = borrado[s].Socio
        /\ borrado'[s].Barco = borrado[s].Barco
        /\ borrado[s].Viaje_Barco \subseteq borrado'[s].Viaje_Barco
        /\ borrado[s].Barco_Muelle \subseteq borrado'[s].Barco_Muelle
    BY DEF BorraEstadias, BorraViajes, IInv, TypeOK, BasesDeDatos
  <1>6. \A r \in borrado[s].Socio :
           /\ <<"Socio", r.id_socio, "X">> \in candados[s]
           /\ BarcosDe(db, r.id_socio) \subseteq borrado[s].Barco
    BY DEF IInv, BorradoCompleto
  <1>7. \A r \in borrado[s].Barco :
           /\ <<"Barco", r.id_socio, "X">> \in candados[s]
           /\ r \in db.Barco =>
                 /\ HijasDe(db.Viaje_Barco, {r}) \subseteq borrado[s].Viaje_Barco
                 /\ HijasDe(db.Barco_Muelle, {r}) \subseteq borrado[s].Barco_Muelle
    BY DEF IInv, BorradoCompleto
  <1> HIDE DEF cs
  <1> QED
    BY <1>2, <1>3, <1>4, <1>5, <1>6, <1>7, AislamientoBorra

(* The boats deleted have no children left that are not deleted too: the   *)
(* foreign keys would have refused.                                        *)
LEMMA AislamientoBorraBarcos ==
    ASSUME IInv, NEW s \in Sesiones, BorraBarcos(s), ~SqlException(s, "excepcion")
    PROVE  Aislamiento'
  <1> DEFINE bs == BarcosDe(Actual(s), p_id_socio[s])
             cs == Pide(s)
  <1>1. /\ pc[s] = "e_barcos"
        /\ Concedidos(s, cs)
        /\ HijasDe(Actual(s).Viaje_Barco \cup Actual(s).Barco_Muelle, bs) = {}
        /\ borrado' = [borrado EXCEPT ![s].Barco = @ \cup bs]
        /\ Bloquea(s, cs)
        /\ Sigue(s, "e_socio")
        /\ UNCHANGED <<db, siguiente, nuevo>>
    BY DEF BorraBarcos
  <1>2. cs \in SUBSET Candados
    BY <1>1, PideTipo DEF IInv
  <1>3. /\ \A t \in Sesiones \ {s} : borrado'[t] = borrado[t]
        /\ borrado'[s].Socio = borrado[s].Socio
        /\ borrado'[s].Barco = borrado[s].Barco \cup bs
        /\ borrado'[s].Viaje_Barco = borrado[s].Viaje_Barco
        /\ borrado'[s].Barco_Muelle = borrado[s].Barco_Muelle
    BY <1>1 DEF IInv, TypeOK, BasesDeDatos
  <1>4. \A r \in borrado[s].Socio :
           /\ <<"Socio", r.id_socio, "X">> \in candados[s]
           /\ BarcosDe(db, r.id_socio) \subseteq borrado[s].Barco
    BY DEF IInv, BorradoCompleto
  <1>5. \A r \in borrado[s].Barco :
           /\ <<"Barco", r.id_socio, "X">> \in candados[s]
           /\ r \in db.Barco =>
                 /\ HijasDe(db.Viaje_Barco, {r}) \subseteq borrado[s].Viaje_Barco
                 /\ HijasDe(db.Barco_Muelle, {r}) \subseteq borrado[s].Barco_Muelle
    BY DEF IInv, BorradoCompleto
  <1>6. \A r \in bs :
           /\ <<"Barco", r.id_socio, "X">> \in cs
           /\ HijasDe(db.Viaje_Barco, {r}) \subseteq borrado[s].Viaje_Barco
           /\ HijasDe(db.Barco_Muelle, {r}) \subseteq borrado[s].Barco_Muelle
    <2> SUFFICES ASSUME NEW r \in bs
                 PROVE  /\ <<"Barco", r.id_socio, "X">> \in cs
                        /\ HijasDe(db.Viaje_Barco, {r}) \subseteq borrado[s].Viaje_Barco
                        /\ HijasDe(db.Barco_Muelle, {r}) \subseteq borrado[s].Barco_Muelle
      OBVIOUS
    <2>1. <<"Barco", r.id_socio, "X">> \in cs
      <3>1. r.id_socio = p_id_socio[s] /\ bs # {}
        BY DEF BarcosDe
      <3>2. cs = {<<"Barco", p_id_socio[s], IF bs = {} THEN "S" ELSE "X">>}
        BY <1>1 DEF Pide
      <3> QED
        BY <3>1, <3>2
    <2>2. /\ \A h \in db.Viaje_Barco \ borrado[s].Viaje_Barco : h.n_matricula # r.n_matricula
          /\ \A h \in db.Barco_Muelle \ borrado[s].Barco_Muelle : h.n_matricula # r.n_matricula
      BY <1>1 DEF HijasDe, Actual, Menos
    <2> QED
      BY <2>1, <2>2 DEF HijasDe
  <1>7. pc[s] \in ConLocks \ {"g_commit"} /\ "e_socio" \in ConLocks \ {"g_commit"}
    BY <1>1 DEF ConLocks
  <1> HIDE DEF cs, bs
  <1> QED
    BY <1>1, <1>2, <1>3, <1>4, <1>5, <1>6, <1>7, AislamientoBorra

(* The member deleted has no boats left that are not deleted too. *)
LEMMA AislamientoBorraSocio ==
    ASSUME IInv, NEW s \in Sesiones, BorraSocio(s), ~SqlException(s, "excepcion")
    PROVE  Aislamiento'
  <1> DEFINE fs == FilasCon(db, p_id_socio[s])
             cs == Pide(s)
  <1>1. /\ pc[s] = "e_socio"
        /\ Concedidos(s, cs)
        /\ BarcosDe(Actual(s), p_id_socio[s]) = {} \/ fs = {}
        /\ borrado' = [borrado EXCEPT ![s].Socio = @ \cup fs]
        /\ Bloquea(s, cs)
        /\ Sigue(s, "e_commit")
        /\ UNCHANGED <<db, siguiente, nuevo>>
    BY DEF BorraSocio
  <1>2. cs \in SUBSET Candados
    BY <1>1, PideTipo DEF IInv
  <1>3. /\ \A t \in Sesiones \ {s} : borrado'[t] = borrado[t]
        /\ borrado'[s].Socio = borrado[s].Socio \cup fs
        /\ borrado'[s].Barco = borrado[s].Barco
        /\ borrado'[s].Viaje_Barco = borrado[s].Viaje_Barco
        /\ borrado'[s].Barco_Muelle = borrado[s].Barco_Muelle
    BY <1>1 DEF IInv, TypeOK, BasesDeDatos
  <1>4. \A r \in borrado[s].Socio :
           /\ <<"Socio", r.id_socio, "X">> \in candados[s]
           /\ BarcosDe(db, r.id_socio) \subseteq borrado[s].Barco
    BY DEF IInv, BorradoCompleto
  <1>5. \A r \in borrado[s].Barco :
           /\ <<"Barco", r.id_socio, "X">> \in candados[s]
           /\ r \in db.Barco =>
                 /\ HijasDe(db.Viaje_Barco, {r}) \subseteq borrado[s].Viaje_Barco
                 /\ HijasDe(db.Barco_Muelle, {r}) \subseteq borrado[s].Barco_Muelle
    BY DEF IInv, BorradoCompleto
  <1>6. \A r \in fs :
           /\ <<"Socio", r.id_socio, "X">> \in cs
           /\ BarcosDe(db, r.id_socio) \subseteq borrado[s].Barco
    <2> SUFFICES ASSUME NEW r \in fs
                 PROVE  /\ <<"Socio", r.id_socio, "X">> \in cs
                        /\ BarcosDe(db, r.id_socio) \subseteq borrado[s].Barco
      OBVIOUS
    <2>1. r.id_socio = p_id_socio[s] /\ fs # {}
      BY DEF FilasCon
    <2>2. <<"Socio", p_id_socio[s], IF fs = {} THEN "S" ELSE "X">> \in cs
      BY <1>1 DEF Pide
    <2>3. BarcosDe(db, r.id_socio) \subseteq borrado[s].Barco
      BY <1>1, <2>1 DEF BarcosDe, Actual, Menos
    <2> QED
      BY <2>1, <2>2, <2>3
  <1>7. pc[s] \in ConLocks \ {"g_commit"} /\ "e_commit" \in ConLocks \ {"g_commit"}
    BY <1>1 DEF ConLocks
  <1> HIDE DEF cs, fs
  <1> QED
    BY <1>1, <1>2, <1>3, <1>4, <1>5, <1>6, <1>7, AislamientoBorra

(* The row inserted takes an id above every other, and the lock of a pair  *)
(* that no committed row and no other pending row has.                     *)
LEMMA AislamientoInserta ==
    ASSUME IInv, Tipos', NEW s \in Sesiones, InsertaSocio(s), ~SqlException(s, "excepcion")
    PROVE  Aislamiento'
  <1> DEFINE f  == FilaNueva(s)
             cs == Pide(s)
  <1>1. /\ pc[s] = "g_insert"
        /\ Concedidos(s, cs)
        /\ siguiente <= MaxId
        /\ siguiente' = siguiente + 1
        /\ \A r \in Actual(s).Socio : ~MismoPar(r, f)
        /\ nuevo' = [nuevo EXCEPT ![s] = {f}]
        /\ Bloquea(s, cs)
        /\ Sigue(s, "g_commit")
        /\ UNCHANGED <<db, borrado>>
    BY MaxIdAssumption DEF InsertaSocio, IInv, TypeOK
  <1>2. cs \in SUBSET Candados /\ cs = CandadosPar({f})
    BY <1>1, PideTipo DEF IInv, Pide
  <1>3. borrado[s] = Vacia /\ Actual(s).Socio = db.Socio
    BY <1>1 DEF IInv, SesionLimpia, ConLocks, Actual, Menos, Vacia
  <1>4. /\ \A t \in Sesiones : candados'[t] = IF t = s THEN candados[s] \cup cs ELSE candados[t]
        /\ \A t \in Sesiones : nuevo'[t] = IF t = s THEN {f} ELSE nuevo[t]
        /\ \A t \in Sesiones : pc'[t] = IF t = s THEN "g_commit" ELSE pc[t]
    BY <1>1 DEF Bloquea, Sigue, IInv, TypeOK
  <1>5. SesionLimpia'
    BY <1>1, <1>3, <1>4 DEF IInv, SesionLimpia, ConLocks
  <1>6. Exclusion'
    BY <1>1, <1>2, ExclusionBloquea
  <1>7. BorradoCompleto'
    BY <1>1, <1>4 DEF IInv, BorradoCompleto
  <1>8. AltaPropia'
    <2>1. f.id_socio = siguiente
      BY DEF FilaNueva
    <2>2. /\ \A q \in db.Socio : q.id_socio < siguiente
          /\ \A t \in Sesiones : \A q \in nuevo[t] : q.id_socio < siguiente
      BY DEF IInv, AltaPropia
    <2>3. /\ siguiente \in Nat
          /\ \A q \in db.Socio : q.id_socio \in Nat
          /\ \A t \in Sesiones : \A q \in nuevo[t] : q.id_socio \in Nat
      BY MaxIdAssumption DEF IInv, TypeOK, BasesDeDatos, FilasSocio, Ids
    <2>4. \A q \in db.Socio : ~MismoPar(f, q)
      BY <1>1, <1>3 DEF MismoPar
    <2>5. f.id_socio \notin IdsSocio(db)
      BY <2>1, <2>2, <2>3 DEF IdsSocio
    <2>6. \A t \in Sesiones : \A q \in nuevo[t] : q.id_socio # f.id_socio
      BY <2>1, <2>2, <2>3
    <2>7. \A q \in db.Socio : q.id_socio < siguiente + 1
      BY <2>2, <2>3
    <2>8. \A t \in Sesiones : \A q \in nuevo[t] : q.id_socio < siguiente + 1
      BY <2>2, <2>3
    <2>9. f.id_socio < siguiente + 1
      BY <2>1, <2>3
    <2>10. CandadosPar({f}) \subseteq candados'[s]
      BY <1>2, <1>4
    <2> HIDE DEF f, cs
    <2>11. ASSUME NEW t \in Sesiones, NEW r \in nuevo'[t]
          PROVE  /\ r.id_socio < siguiente'
                 /\ r.id_socio \notin IdsSocio(db')
                 /\ \A q \in db'.Socio : ~MismoPar(r, q)
                 /\ CandadosPar({r}) \subseteq candados'[t]
                 /\ \A q \in nuevo'[t] : q = r
      <3>1. CASE t = s
        <4>1. r = f /\ nuevo'[t] = {f}
          BY <1>4, <2>11, <3>1
        <4> QED
          BY <1>1, <2>4, <2>5, <2>9, <2>10, <3>1, <4>1
      <3>2. CASE t # s
        <4>1. r \in nuevo[t] /\ candados'[t] = candados[t] /\ nuevo'[t] = nuevo[t]
          BY <1>4, <2>11, <3>2
        <4>2. /\ r.id_socio \notin IdsSocio(db)
              /\ \A q \in db.Socio : ~MismoPar(r, q)
              /\ CandadosPar({r}) \subseteq candados[t]
              /\ \A q \in nuevo[t] : q = r
          BY <4>1 DEF IInv, AltaPropia
        <4> QED
          BY <1>1, <2>8, <4>1, <4>2
      <3> QED
        BY <3>1, <3>2
    <2>12. \A t, u \in Sesiones : t # u => \A r \in nuevo'[t], q \in nuevo'[u] : q.id_socio # r.id_socio
      BY <1>4, <2>6 DEF IInv, AltaPropia
    <2>13. \A q \in db'.Socio : q.id_socio < siguiente'
      BY <1>1, <2>7
    <2> QED
      BY <2>11, <2>12, <2>13 DEF AltaPropia
  <1> QED
    BY <1>5, <1>6, <1>7, <1>8 DEF Aislamiento

-----------------------------------------------------------------------------
(* What is about to be deleted stays there until its own COMMIT.           *)

(* A transaction that a step leaves alone keeps its part, if the step takes *)
(* away no row it is about to delete and no boat those rows hang from.     *)
LEMMA PropioAjeno ==
    ASSUME IInv, NEW t \in Sesiones,
           pc'[t] = pc[t] \/ pc'[t] # "e_commit", borrado'[t] = borrado[t],
           candados[t] \subseteq candados'[t], p_id_socio'[t] = p_id_socio[t],
           borrado[t].Socio \subseteq db'.Socio,
           borrado[t].Barco \subseteq db'.Barco,
           borrado[t].Viaje_Barco \subseteq db'.Viaje_Barco,
           borrado[t].Barco_Muelle \subseteq db'.Barco_Muelle,
           \A r \in db.Barco \ db'.Barco :
              \A h \in borrado[t].Viaje_Barco \cup borrado[t].Barco_Muelle :
                 h.n_matricula # r.n_matricula
    PROVE  PropioDe(t)'
  <1> USE DEF IInv, BorradoPropio
  <1>1. PropioDe(t)
    OBVIOUS
  <1>2. /\ \A r \in borrado'[t].Socio : r \in db'.Socio /\ r.id_socio = p_id_socio'[t]
        /\ \A r \in borrado'[t].Barco : r \in db'.Barco /\ r.id_socio = p_id_socio'[t]
        /\ pc'[t] = "e_commit" /\ borrado'[t].Socio = {} => borrado'[t] = Vacia
    BY <1>1 DEF PropioDe
  <1>3. ASSUME NEW h \in borrado[t].Viaje_Barco
        PROVE  h \in db'.Viaje_Barco /\ HijaPropia(t, "Viaje_Barco", h)'
    BY <1>1 DEF PropioDe, HijaPropia
  <1>4. ASSUME NEW h \in borrado[t].Barco_Muelle
        PROVE  h \in db'.Barco_Muelle /\ HijaPropia(t, "Barco_Muelle", h)'
    BY <1>1 DEF PropioDe, HijaPropia
  <1> QED
    BY <1>2, <1>3, <1>4 DEF PropioDe, Vacia

(* Two open transactions are never about to delete the same row, nor one a *)
(* boat from which a row of the other hangs.                               *)
LEMMA BorradosAjenos ==
    ASSUME IInv, NEW s \in Sesiones, NEW t \in Sesiones \ {s}
    PROVE  /\ borrado[s].Socio \cap borrado[t].Socio = {}
           /\ borrado[s].Barco \cap borrado[t].Barco = {}
           /\ borrado[s].Viaje_Barco \cap borrado[t].Viaje_Barco = {}
           /\ borrado[s].Barco_Muelle \cap borrado[t].Barco_Muelle = {}
           /\ \A r \in borrado[s].Barco :
                 \A h \in borrado[t].Viaje_Barco \cup borrado[t].Barco_Muelle :
                    h.n_matricula # r.n_matricula
  <1>1. \A a, k : ~(<<a, k, "X">> \in candados[s] /\ <<a, k, "X">> \in candados[t])
    BY DEF IInv, Exclusion, Retenido
  <1>2. /\ borrado[s].Socio \cap borrado[t].Socio = {}
        /\ borrado[s].Barco \cap borrado[t].Barco = {}
    BY <1>1 DEF IInv, BorradoCompleto
  <1>3. /\ borrado[s].Viaje_Barco \cap borrado[t].Viaje_Barco = {}
        /\ borrado[s].Barco_Muelle \cap borrado[t].Barco_Muelle = {}
    BY <1>1 DEF IInv, BorradoPropio, PropioDe, HijaPropia
  <1>4. ASSUME NEW r \in borrado[s].Barco, NEW h \in borrado[t].Viaje_Barco,
               h.n_matricula = r.n_matricula
        PROVE  FALSE
    <2>1. r \in db.Barco /\ h \in db.Viaje_Barco
      BY DEF IInv, BorradoPropio, PropioDe
    <2>2. h \in borrado[s].Viaje_Barco
      BY <1>4, <2>1 DEF IInv, BorradoCompleto, HijasDe
    <2> QED
      BY <1>3, <2>2
  <1>5. ASSUME NEW r \in borrado[s].Barco, NEW h \in borrado[t].Barco_Muelle,
               h.n_matricula = r.n_matricula
        PROVE  FALSE
    <2>1. r \in db.Barco /\ h \in db.Barco_Muelle
      BY DEF IInv, BorradoPropio, PropioDe
    <2>2. h \in borrado[s].Barco_Muelle
      BY <1>5, <2>1 DEF IInv, BorradoCompleto, HijasDe
    <2> QED
      BY <1>3, <2>2
  <1> QED
    BY <1>2, <1>3, <1>4, <1>5

(* The end of a transaction. *)
LEMMA PropioFin ==
    ASSUME IInv, NEW s \in Sesiones, Commit(s) \/ Rollback(s),
           \A t \in Sesiones \ {s} : pc'[t] = pc[t] /\ p_id_socio'[t] = p_id_socio[t]
    PROVE  BorradoPropio'
  <1>1. /\ borrado'[s] = Vacia
        /\ \A t \in Sesiones \ {s} : borrado'[t] = borrado[t] /\ candados'[t] = candados[t]
    BY DEF Commit, Rollback, CierraTx, IInv, TypeOK
  <1>2. PropioDe(s)'
    BY <1>1 DEF PropioDe, Vacia
  <1>3. ASSUME NEW t \in Sesiones \ {s} PROVE PropioDe(t)'
    <2>1. /\ db.Socio \ borrado[s].Socio \subseteq db'.Socio
          /\ db.Barco \ borrado[s].Barco \subseteq db'.Barco
          /\ db.Viaje_Barco \ borrado[s].Viaje_Barco \subseteq db'.Viaje_Barco
          /\ db.Barco_Muelle \ borrado[s].Barco_Muelle \subseteq db'.Barco_Muelle
      BY DEF Commit, Rollback, Menos
    <2>2. /\ borrado[t].Socio \subseteq db.Socio
          /\ borrado[t].Barco \subseteq db.Barco
          /\ borrado[t].Viaje_Barco \subseteq db.Viaje_Barco
          /\ borrado[t].Barco_Muelle \subseteq db.Barco_Muelle
      BY DEF IInv, BorradoPropio, PropioDe
    <2>3. /\ borrado[t].Socio \subseteq db'.Socio
          /\ borrado[t].Barco \subseteq db'.Barco
          /\ borrado[t].Viaje_Barco \subseteq db'.Viaje_Barco
          /\ borrado[t].Barco_Muelle \subseteq db'.Barco_Muelle
      BY <2>1, <2>2, BorradosAjenos
    <2>4. \A r \in db.Barco \ db'.Barco :
              \A h \in borrado[t].Viaje_Barco \cup borrado[t].Barco_Muelle :
                 h.n_matricula # r.n_matricula
      BY <2>1, BorradosAjenos
    <2> QED
      BY <1>1, <2>3, <2>4, PropioAjeno
  <1> QED
    BY <1>2, <1>3 DEF BorradoPropio

(* A step that takes no row away and touches no transaction. *)
LEMMA PropioQuieto ==
    ASSUME IInv, UNCHANGED <<borrado, candados>>,
           \A t \in Sesiones : \/ pc'[t] = pc[t] /\ p_id_socio'[t] = p_id_socio[t]
                               \/ borrado[t] = Vacia,
           db.Socio \subseteq db'.Socio,
           db.Barco \subseteq db'.Barco,
           db.Viaje_Barco \subseteq db'.Viaje_Barco,
           db.Barco_Muelle \subseteq db'.Barco_Muelle
    PROVE  BorradoPropio'
  <1>1. ASSUME NEW t \in Sesiones, borrado[t] = Vacia PROVE PropioDe(t)'
    BY <1>1 DEF PropioDe, Vacia
  <1>2. ASSUME NEW t \in Sesiones, pc'[t] = pc[t], p_id_socio'[t] = p_id_socio[t]
        PROVE  PropioDe(t)'
    <2>1. /\ borrado[t].Socio \subseteq db.Socio
          /\ borrado[t].Barco \subseteq db.Barco
          /\ borrado[t].Viaje_Barco \subseteq db.Viaje_Barco
          /\ borrado[t].Barco_Muelle \subseteq db.Barco_Muelle
      BY DEF IInv, BorradoPropio, PropioDe
    <2> QED
      BY <1>2, <2>1, PropioAjeno
  <1> QED
    BY <1>1, <1>2 DEF BorradoPropio

(* A step of one session that takes no row away, and only adds locks and   *)
(* pending work to it, leaves the other sessions' parts alone.             *)
LEMMA PropioOtras ==
    ASSUME IInv, NEW s \in Sesiones, UNCHANGED <<db, p_id_socio>>,
           \A t \in Sesiones \ {s} : /\ pc'[t] = pc[t]
                                     /\ borrado'[t] = borrado[t]
                                     /\ candados'[t] = candados[t],
           PropioDe(s)'
    PROVE  BorradoPropio'
  <1>1. ASSUME NEW t \in Sesiones \ {s} PROVE PropioDe(t)'
    <2>1. /\ borrado[t].Socio \subseteq db.Socio
          /\ borrado[t].Barco \subseteq db.Barco
          /\ borrado[t].Viaje_Barco \subseteq db.Viaje_Barco
          /\ borrado[t].Barco_Muelle \subseteq db.Barco_Muelle
      BY DEF IInv, BorradoPropio, PropioDe
    <2> QED
      BY <2>1, PropioAjeno
  <1> QED
    BY <1>1 DEF BorradoPropio

LEMMA PropioInserta ==
    ASSUME IInv, NEW s \in Sesiones, InsertaSocio(s), ~SqlException(s, "excepcion")
    PROVE  BorradoPropio'
  <1>1. /\ UNCHANGED <<db, p_id_socio, borrado>>
        /\ Bloquea(s, Pide(s))
        /\ Sigue(s, "g_commit")
    BY DEF InsertaSocio
  <1>2. /\ \A t \in Sesiones \ {s} : pc'[t] = pc[t] /\ candados'[t] = candados[t]
        /\ candados[s] \subseteq candados'[s]
        /\ pc'[s] = "g_commit"
    BY <1>1 DEF Bloquea, Sigue, IInv, TypeOK
  <1>3. borrado[s] = Vacia
    BY DEF InsertaSocio, IInv, SesionLimpia, ConLocks
  <1>4. PropioDe(s)'
    BY <1>1, <1>3 DEF PropioDe, Vacia
  <1> QED
    BY <1>1, <1>2, <1>4, PropioOtras

(* The rows a DELETE ... INNER JOIN takes hang from boats of the member,   *)
(* and their range has rows, so that its lock is exclusive.                *)
LEMMA HijasPropiasBloqueadas ==
    ASSUME IInv, NEW s \in Sesiones, NEW tabla, NEW resto, NEW nombre,
           NEW h \in HijasPropias(s, tabla), h \in resto
    PROVE  /\ h \in tabla
           /\ <<nombre, h.n_matricula, "X">>
                 \in CandadosHijas(nombre, resto, BarcosDe(Actual(s), p_id_socio[s]))
           /\ \E r \in db.Barco : r.n_matricula = h.n_matricula /\ r.id_socio = p_id_socio[s]
  <1>1. PICK r \in BarcosDe(Actual(s), p_id_socio[s]) : r.n_matricula = h.n_matricula /\ h \in tabla
    BY DEF HijasPropias, HijasDe
  <1>2. r \in db.Barco /\ r.id_socio = p_id_socio[s]
    BY DEF BarcosDe, Actual, Menos
  <1>3. h \in HijasDe(resto, {r})
    BY <1>1 DEF HijasDe
  <1>4. HijasDe(resto, {r}) # {}
    BY <1>3
  <1>5. <<nombre, r.n_matricula, "X">>
           \in CandadosHijas(nombre, resto, BarcosDe(Actual(s), p_id_socio[s]))
    BY <1>4 DEF CandadosHijas
  <1> QED
    BY <1>1, <1>2, <1>5

LEMMA PropioBorraEstadias ==
    ASSUME IInv, NEW s \in Sesiones, BorraEstadias(s)
    PROVE  BorradoPropio'
  <1> DEFINE hs    == HijasPropias(s, db.Barco_Muelle)
             resto == db.Barco_Muelle \ borrado[s].Barco_Muelle
  <1>1. PICK junta \in {{}, PideJunta(s)} : BorraHijas(s, junta, "e_viajes")
    BY DEF BorraEstadias
  <1>2. /\ UNCHANGED <<db, p_id_socio>>
        /\ pc'[s] = "e_viajes"
        /\ candados'[s] = candados[s] \cup Pide(s) \cup junta
        /\ \A t \in Sesiones \ {s} : /\ pc'[t] = pc[t]
                                    /\ borrado'[t] = borrado[t]
                                    /\ candados'[t] = candados[t]
    BY <1>1 DEF BorraEstadias, BorraHijas, Bloquea, Sigue, IInv, TypeOK
  <1>3. /\ borrado'[s].Socio = borrado[s].Socio
        /\ borrado'[s].Barco = borrado[s].Barco
        /\ borrado'[s].Viaje_Barco = borrado[s].Viaje_Barco
        /\ borrado'[s].Barco_Muelle = borrado[s].Barco_Muelle \cup hs
    BY DEF BorraEstadias, IInv, TypeOK, BasesDeDatos
  <1>4. Pide(s) = CandadosHijas("Barco_Muelle", resto, BarcosDe(Actual(s), p_id_socio[s]))
    BY DEF BorraEstadias, Pide, Actual, Menos
  <1>5. PropioDe(s)
    BY DEF IInv, BorradoPropio
  <1>6. ASSUME NEW h \in borrado'[s].Barco_Muelle
        PROVE  h \in db.Barco_Muelle /\ HijaPropia(s, "Barco_Muelle", h)'
    <2>1. CASE h \in borrado[s].Barco_Muelle
      BY <1>2, <1>5, <2>1 DEF PropioDe, HijaPropia
    <2>2. CASE h \in hs \ borrado[s].Barco_Muelle
      <3>1. /\ h \in db.Barco_Muelle
            /\ <<"Barco_Muelle", h.n_matricula, "X">> \in Pide(s)
            /\ \E r \in db.Barco : r.n_matricula = h.n_matricula /\ r.id_socio = p_id_socio[s]
        <4>1. h \in HijasPropias(s, db.Barco_Muelle) /\ h \in resto
          BY <2>2 DEF HijasPropias, HijasDe
        <4> HIDE DEF resto
        <4> QED
          BY <1>4, <4>1, HijasPropiasBloqueadas
      <3> QED
        BY <1>2, <3>1 DEF HijaPropia
    <2> QED
      BY <1>3, <2>1, <2>2
  <1>7. ASSUME NEW h \in borrado[s].Viaje_Barco
        PROVE  h \in db.Viaje_Barco /\ HijaPropia(s, "Viaje_Barco", h)'
    BY <1>2, <1>5 DEF PropioDe, HijaPropia
  <1>8. PropioDe(s)'
    BY <1>2, <1>3, <1>5, <1>6, <1>7 DEF PropioDe
  <1> QED
    BY <1>2, <1>8, PropioOtras

LEMMA PropioBorraViajes ==
    ASSUME IInv, NEW s \in Sesiones, BorraViajes(s)
    PROVE  BorradoPropio'
  <1> DEFINE hs    == HijasPropias(s, db.Viaje_Barco)
             resto == db.Viaje_Barco \ borrado[s].Viaje_Barco
  <1>1. PICK junta \in {{}, PideJunta(s)} : BorraHijas(s, junta, "e_barcos")
    BY DEF BorraViajes
  <1>2. /\ UNCHANGED <<db, p_id_socio>>
        /\ pc'[s] = "e_barcos"
        /\ candados'[s] = candados[s] \cup Pide(s) \cup junta
        /\ \A t \in Sesiones \ {s} : /\ pc'[t] = pc[t]
                                    /\ borrado'[t] = borrado[t]
                                    /\ candados'[t] = candados[t]
    BY <1>1 DEF BorraViajes, BorraHijas, Bloquea, Sigue, IInv, TypeOK
  <1>3. /\ borrado'[s].Socio = borrado[s].Socio
        /\ borrado'[s].Barco = borrado[s].Barco
        /\ borrado'[s].Barco_Muelle = borrado[s].Barco_Muelle
        /\ borrado'[s].Viaje_Barco = borrado[s].Viaje_Barco \cup hs
    BY DEF BorraViajes, IInv, TypeOK, BasesDeDatos
  <1>4. Pide(s) = CandadosHijas("Viaje_Barco", resto, BarcosDe(Actual(s), p_id_socio[s]))
    BY DEF BorraViajes, Pide, Actual, Menos
  <1>5. PropioDe(s)
    BY DEF IInv, BorradoPropio
  <1>6. ASSUME NEW h \in borrado'[s].Viaje_Barco
        PROVE  h \in db.Viaje_Barco /\ HijaPropia(s, "Viaje_Barco", h)'
    <2>1. CASE h \in borrado[s].Viaje_Barco
      BY <1>2, <1>5, <2>1 DEF PropioDe, HijaPropia
    <2>2. CASE h \in hs \ borrado[s].Viaje_Barco
      <3>1. /\ h \in db.Viaje_Barco
            /\ <<"Viaje_Barco", h.n_matricula, "X">> \in Pide(s)
            /\ \E r \in db.Barco : r.n_matricula = h.n_matricula /\ r.id_socio = p_id_socio[s]
        <4>1. h \in HijasPropias(s, db.Viaje_Barco) /\ h \in resto
          BY <2>2 DEF HijasPropias, HijasDe
        <4> HIDE DEF resto
        <4> QED
          BY <1>4, <4>1, HijasPropiasBloqueadas
      <3> QED
        BY <1>2, <3>1 DEF HijaPropia
    <2> QED
      BY <1>3, <2>1, <2>2
  <1>7. ASSUME NEW h \in borrado[s].Barco_Muelle
        PROVE  h \in db.Barco_Muelle /\ HijaPropia(s, "Barco_Muelle", h)'
    BY <1>2, <1>5 DEF PropioDe, HijaPropia
  <1>8. PropioDe(s)'
    BY <1>2, <1>3, <1>5, <1>6, <1>7 DEF PropioDe
  <1> QED
    BY <1>2, <1>8, PropioOtras

LEMMA PropioBorraBarcos ==
    ASSUME IInv, NEW s \in Sesiones, BorraBarcos(s), ~SqlException(s, "excepcion")
    PROVE  BorradoPropio'
  <1> DEFINE bs == BarcosDe(Actual(s), p_id_socio[s])
  <1>1. /\ UNCHANGED <<db, p_id_socio>>
        /\ borrado' = [borrado EXCEPT ![s].Barco = @ \cup bs]
        /\ Bloquea(s, Pide(s))
        /\ Sigue(s, "e_socio")
    BY DEF BorraBarcos
  <1>2. /\ pc'[s] = "e_socio"
        /\ candados[s] \subseteq candados'[s]
        /\ \A t \in Sesiones \ {s} : /\ pc'[t] = pc[t]
                                    /\ borrado'[t] = borrado[t]
                                    /\ candados'[t] = candados[t]
    BY <1>1 DEF Bloquea, Sigue, IInv, TypeOK
  <1>3. /\ borrado'[s].Socio = borrado[s].Socio
        /\ borrado'[s].Barco = borrado[s].Barco \cup bs
        /\ borrado'[s].Viaje_Barco = borrado[s].Viaje_Barco
        /\ borrado'[s].Barco_Muelle = borrado[s].Barco_Muelle
    BY <1>1 DEF IInv, TypeOK, BasesDeDatos
  <1>4. \A r \in bs : r \in db.Barco /\ r.id_socio = p_id_socio[s]
    BY DEF BarcosDe, Actual, Menos
  <1>5. PropioDe(s)
    BY DEF IInv, BorradoPropio
  <1> HIDE DEF bs
  <1>6. PropioDe(s)'
    BY <1>1, <1>2, <1>3, <1>4, <1>5 DEF PropioDe, HijaPropia
  <1> QED
    BY <1>1, <1>2, <1>6, PropioOtras

(* When the member is gone, so are its boats and their rows: nothing was   *)
(* about to be deleted.                                                    *)
LEMMA PropioBorraSocio ==
    ASSUME IInv, NEW s \in Sesiones, BorraSocio(s), ~SqlException(s, "excepcion")
    PROVE  BorradoPropio'
  <1> DEFINE fs == FilasCon(db, p_id_socio[s])
  <1>1. /\ UNCHANGED <<db, p_id_socio>>
        /\ borrado' = [borrado EXCEPT ![s].Socio = @ \cup fs]
        /\ Bloquea(s, Pide(s))
        /\ Sigue(s, "e_commit")
    BY DEF BorraSocio
  <1>2. /\ candados[s] \subseteq candados'[s]
        /\ \A t \in Sesiones \ {s} : /\ pc'[t] = pc[t]
                                    /\ borrado'[t] = borrado[t]
                                    /\ candados'[t] = candados[t]
    BY <1>1 DEF Bloquea, Sigue, IInv, TypeOK
  <1>3. /\ borrado'[s].Socio = borrado[s].Socio \cup fs
        /\ borrado'[s].Barco = borrado[s].Barco
        /\ borrado'[s].Viaje_Barco = borrado[s].Viaje_Barco
        /\ borrado'[s].Barco_Muelle = borrado[s].Barco_Muelle
        /\ borrado'[s] = [borrado[s] EXCEPT !.Socio = @ \cup fs]
    BY <1>1 DEF IInv, TypeOK, BasesDeDatos
  <1>4. \A r \in fs : r \in db.Socio /\ r.id_socio = p_id_socio[s]
    BY DEF FilasCon
  <1>5. PropioDe(s)
    BY DEF IInv, BorradoPropio
  <1>6. ASSUME borrado'[s].Socio = {} PROVE borrado'[s] = Vacia
    <2>1. \A r \in db.Barco : r.id_socio # p_id_socio[s]
      BY <1>3, <1>6 DEF FilasCon, IInv, Integridad, Restricciones, LlavesForaneas
    <2>2. /\ borrado[s].Socio = {}
          /\ borrado[s].Barco = {}
          /\ borrado[s].Viaje_Barco = {}
          /\ borrado[s].Barco_Muelle = {}
      BY <1>3, <1>5, <1>6, <2>1 DEF PropioDe, HijaPropia
    <2>3. borrado[s] \in BasesDeDatos /\ fs = {}
      BY <1>3, <1>6 DEF IInv, TypeOK
    <2> QED
      BY <1>3, <2>2, <2>3 DEF BasesDeDatos, Vacia
  <1> HIDE DEF fs
  <1>7. PropioDe(s)'
    BY <1>1, <1>2, <1>3, <1>4, <1>5, <1>6 DEF PropioDe, HijaPropia
  <1> QED
    BY <1>1, <1>2, <1>7, PropioOtras

(* EliminarSocioSeguro waits for whoever has the member locked.            *)
LEMMA PropioSeguroBorra ==
    ASSUME IInv, NEW s \in Sesiones, SeguroBorra(s)
    PROVE  BorradoPropio'
  <1> DEFINE fs == FilasCon(db, p_id_socio[s])
  <1>1. /\ pc[s] = "s_socio"
        /\ Concedidos(s, Pide(s))
        /\ UNCHANGED <<args, tx>>
    BY DEF SeguroBorra
  <1>2. \A t \in Sesiones \ {s} : pc'[t] = pc[t]
    BY DEF SeguroBorra, Responde, IInv, TypeOK
  <1>3. /\ db.Socio \ fs \subseteq db'.Socio
        /\ db.Barco = db'.Barco
        /\ db.Viaje_Barco = db'.Viaje_Barco
        /\ db.Barco_Muelle = db'.Barco_Muelle
    BY DEF SeguroBorra, IInv, TypeOK, BasesDeDatos
  <1>4. ASSUME NEW t \in Sesiones \ {s} PROVE borrado[t].Socio \cap fs = {}
    <2> SUFFICES ASSUME NEW r \in borrado[t].Socio \cap fs PROVE FALSE
      OBVIOUS
    <2>1. r.id_socio = p_id_socio[s] /\ fs # {}
      BY DEF FilasCon
    <2>2. <<"Socio", p_id_socio[s], "X">> \in Pide(s)
      BY <1>1, <2>1 DEF Pide
    <2>3. ~Retenido(t, "Socio", p_id_socio[s])
      BY <1>1, <2>2 DEF Concedidos, Concede
    <2> QED
      BY <2>1, <2>3 DEF Retenido, IInv, BorradoCompleto
  <1>5. ASSUME NEW t \in Sesiones \ {s} PROVE PropioDe(t)'
    <2>1. /\ borrado[t].Socio \subseteq db.Socio
          /\ borrado[t].Barco \subseteq db.Barco
          /\ borrado[t].Viaje_Barco \subseteq db.Viaje_Barco
          /\ borrado[t].Barco_Muelle \subseteq db.Barco_Muelle
      BY DEF IInv, BorradoPropio, PropioDe
    <2>2. borrado[t].Socio \subseteq db'.Socio
      BY <1>3, <1>4, <2>1
    <2> HIDE DEF fs
    <2> QED
      BY <1>1, <1>2, <1>3, <2>1, <2>2, PropioAjeno
  <1>6. PropioDe(s)'
    <2>1. borrado[s] = Vacia
      BY <1>1 DEF IInv, SesionLimpia, ConLocks
    <2> QED
      BY <1>1, <2>1 DEF PropioDe, Vacia
  <1> QED
    BY <1>5, <1>6 DEF BorradoPropio
-----------------------------------------------------------------------------
(* The invariant holds initially and every step keeps it. *)

LEMMA IInvInit == Init => IInv
  <1> SUFFICES ASSUME Init PROVE IInv
    OBVIOUS
  <1>1. TypeOK /\ Argumentos
    BY TiposInit DEF Tipos
  <1>2. Integridad
    BY DatosAssumption DEF Init, Integridad
  <1>3. SesionLimpia /\ Exclusion
    BY DEF Init, SesionLimpia, Exclusion
  <1>4. BorradoCompleto
    BY DEF Init, BorradoCompleto, Vacia
  <1>5. AltaPropia
    BY DEF Init, AltaPropia, IdsSocio
  <1>6. BorradoPropio
    BY DEF Init, BorradoPropio, PropioDe, Vacia
  <1> QED
    BY <1>1, <1>2, <1>3, <1>4, <1>5, <1>6 DEF IInv

(* The steps that change the committed rows keep the constraints; the      *)
(* others leave them as they were.                                         *)
LEMMA IntegridadNext == IInv /\ [Next]_vars => Integridad'
  <1> SUFFICES ASSUME IInv, [Next]_vars PROVE Integridad'
    OBVIOUS
  <1>1. CASE UNCHANGED db
    BY <1>1 DEF IInv, Integridad
  <1>2. ASSUME NEW s \in Sesiones, Llamada(s) PROVE Integridad'
    BY <1>1, <1>2, IntegridadCommit
       DEF Llamada, GuardarNuevoSocio, StartTransaction, EliminarSocio, EliminarSocioSeguro
  <1>3. ASSUME NEW s \in Sesiones, Avanza(s) PROVE Integridad'
    <2>1. CASE \/ CuentaTelefono(s) \/ CuentaCorreo(s) \/ InsertaSocio(s) \/ ExisteSocio(s)
               \/ BorraEstadias(s) \/ BorraViajes(s) \/ BorraBarcos(s) \/ BorraSocio(s)
               \/ SeguroExiste(s) \/ SeguroCuenta(s)
      BY <1>1, <2>1 DEF CuentaTelefono, CuentaCorreo, InsertaSocio, ExisteSocio,
         BorraEstadias, BorraViajes, BorraHijas, BorraBarcos, BorraSocio, SeguroExiste,
         SeguroCuenta, SqlException, Rollback
    <2>2. CASE ConfirmaAlta(s) \/ CuentaBarcos(s) \/ ConfirmaBaja(s)
      BY <2>2, IntegridadCommit DEF ConfirmaAlta, CuentaBarcos, StartTransaction, ConfirmaBaja
    <2>3. CASE SeguroBorra(s)
      BY <2>3, IntegridadSeguroBorra
    <2> QED
      BY <1>3, <2>1, <2>2, <2>3 DEF Avanza
  <1>4. ASSUME NEW s \in Sesiones, Vence(s) \/ Corte(s) PROVE Integridad'
    BY <1>1, <1>4 DEF Vence, Corte, SqlException, Rollback
  <1>5. CASE Altas
    BY <1>5, IntegridadAltas
  <1>6. CASE UNCHANGED vars
    BY <1>1, <1>6 DEF vars
  <1> QED
    BY <1>2, <1>3, <1>4, <1>5, <1>6 DEF Next

(* What a COMMIT and a ROLLBACK may do to the committed rows.              *)
LEMMA AislamientoFin ==
    ASSUME IInv, Tipos', NEW s \in Sesiones, Commit(s) \/ Rollback(s),
           \A t \in Sesiones \ {s} : pc'[t] = pc[t], siguiente' >= siguiente
    PROVE  Aislamiento'
  <1>1. /\ CierraTx(s)
        /\ db'.Socio \subseteq db.Socio \cup nuevo[s]
        /\ db'.Barco \subseteq db.Barco
        /\ db'.Viaje_Barco \subseteq db.Viaje_Barco
        /\ db'.Barco_Muelle \subseteq db.Barco_Muelle
    BY DEF Commit, Rollback, Menos
  <1> QED
    BY <1>1, AislamientoCierra

LEMMA AislamientoNext == IInv /\ Tipos' /\ [Next]_vars => Aislamiento'
  <1> SUFFICES ASSUME IInv, Tipos', [Next]_vars PROVE Aislamiento'
    OBVIOUS
  <1>1. \A s \in Sesiones : \A x : Responde(s, x) \/ Sigue(s, x)
                              => \A t \in Sesiones \ {s} : pc'[t] = pc[t]
    BY DEF Responde, Sigue, IInv, TypeOK
  <1>2. siguiente \in Nat /\ siguiente' \in Nat
    BY MaxIdAssumption DEF IInv, Tipos, TypeOK
  <1>3. ASSUME NEW s \in Sesiones, NEW r, SqlException(s, r), siguiente' >= siguiente
        PROVE  Aislamiento'
    BY <1>1, <1>3, AislamientoFin DEF SqlException
  <1>4. ASSUME NEW s \in Sesiones, Llamada(s) PROVE Aislamiento'
    <2>1. CASE \E p \in Entradas : GuardarNuevoSocio(s, p)
      <3>1. Commit(s) /\ \A t \in Sesiones \ {s} : pc'[t] = pc[t]
        BY <1>1, <2>1 DEF GuardarNuevoSocio, StartTransaction
      <3>2. siguiente' >= siguiente
        BY <1>2, <2>1 DEF GuardarNuevoSocio
      <3> QED
        BY <3>1, <3>2, AislamientoFin
    <2>2. CASE \E id \in Ids : EliminarSocio(s, id) \/ EliminarSocioSeguro(s, id)
      <3>1. /\ pc[s] \notin ConLocks
            /\ \A t \in Sesiones \ {s} : pc'[t] = pc[t]
            /\ UNCHANGED <<db, siguiente, borrado, nuevo, candados>>
        BY <1>1, <2>2 DEF EliminarSocio, EliminarSocioSeguro, ConLocks
      <3> QED
        BY <3>1, AislamientoQuieto
    <2> QED
      BY <1>4, <2>1, <2>2 DEF Llamada
  <1>5. ASSUME NEW s \in Sesiones, Avanza(s) PROVE Aislamiento'
    <2>1. CASE CuentaTelefono(s) \/ CuentaCorreo(s) \/ ExisteSocio(s)
      <3>0. siguiente' = siguiente
        BY <2>1 DEF CuentaTelefono, CuentaCorreo, ExisteSocio
      <3>1. siguiente' >= siguiente
        BY <1>2, <3>0
      <3>2. CASE \E r \in {"telefono", "correo", "no existe"} : SqlException(s, r)
        BY <1>3, <3>1, <3>2
      <3>3. CASE /\ \E e \in {"g_correo", "g_insert", "e_cuenta"} : Sigue(s, e)
                 /\ UNCHANGED <<db, borrado, nuevo, candados>>
        <4>1. pc[s] \notin ConLocks /\ UNCHANGED siguiente
          BY <2>1 DEF CuentaTelefono, CuentaCorreo, ExisteSocio, ConLocks
        <4> QED
          BY <1>1, <3>3, <4>1, AislamientoQuieto
      <3> QED
        BY <2>1, <3>2, <3>3 DEF CuentaTelefono, CuentaCorreo, ExisteSocio, TrasTelefono
    <2>2. CASE SeguroExiste(s) \/ SeguroCuenta(s) \/ SeguroBorra(s)
      <3>1. /\ pc[s] \notin ConLocks
            /\ \A t \in Sesiones \ {s} : pc'[t] = pc[t]
            /\ UNCHANGED <<siguiente, borrado, nuevo, candados>>
        BY <1>1, <2>2 DEF SeguroExiste, SeguroCuenta, SeguroBorra, ConLocks
      <3>2. /\ db'.Socio \subseteq db.Socio
            /\ db'.Barco \subseteq db.Barco
            /\ db'.Viaje_Barco \subseteq db.Viaje_Barco
            /\ db'.Barco_Muelle \subseteq db.Barco_Muelle
        BY <2>2 DEF SeguroExiste, SeguroCuenta, SeguroBorra, IInv, TypeOK, BasesDeDatos
      <3> QED
        BY <3>1, <3>2, AislamientoQuieto
    <2>3. CASE ConfirmaAlta(s) \/ CuentaBarcos(s) \/ ConfirmaBaja(s)
      <3>1. Commit(s) /\ \A t \in Sesiones \ {s} : pc'[t] = pc[t]
        BY <1>1, <2>3 DEF ConfirmaAlta, CuentaBarcos, StartTransaction, ConfirmaBaja
      <3>2. siguiente' >= siguiente
        BY <1>2, <2>3 DEF ConfirmaAlta, CuentaBarcos, ConfirmaBaja
      <3> QED
        BY <3>1, <3>2, AislamientoFin
    <2>4. CASE InsertaSocio(s)
      <3>1. siguiente' >= siguiente
        BY <1>2, <2>4 DEF InsertaSocio
      <3> QED
        BY <1>3, <2>4, <3>1, AislamientoInserta
    <2>5. CASE BorraBarcos(s) \/ BorraSocio(s)
      <3>1. siguiente' >= siguiente
        BY <1>2, <2>5 DEF BorraBarcos, BorraSocio
      <3> QED
        BY <1>3, <2>5, <3>1, AislamientoBorraBarcos, AislamientoBorraSocio
    <2>6. CASE BorraEstadias(s) \/ BorraViajes(s)
      BY <2>6, AislamientoBorraHijas
    <2> QED
      BY <1>5, <2>1, <2>2, <2>3, <2>4, <2>5, <2>6 DEF Avanza
  <1>6. ASSUME NEW s \in Sesiones, Vence(s) \/ Corte(s) PROVE Aislamiento'
    BY <1>2, <1>3, <1>6 DEF Vence, Corte
  <1>7. CASE Altas
    BY <1>7, AislamientoAltas
  <1>8. CASE UNCHANGED vars
    <2> USE <1>8 DEF vars, IInv
    <2>1. SesionLimpia' /\ Exclusion'
      BY DEF SesionLimpia, Exclusion, Retenido
    <2>2. BorradoCompleto'
      BY DEF BorradoCompleto
    <2>3. AltaPropia'
      BY DEF AltaPropia
    <2> QED
      BY <2>1, <2>2, <2>3 DEF Aislamiento
  <1> QED
    BY <1>4, <1>5, <1>6, <1>7, <1>8 DEF Next

LEMMA AltasCrecen ==
    ASSUME TypeOK, Altas
    PROVE  /\ db.Socio \subseteq db'.Socio
           /\ db.Barco \subseteq db'.Barco
           /\ db.Viaje_Barco \subseteq db'.Viaje_Barco
           /\ db.Barco_Muelle \subseteq db'.Barco_Muelle
  <1> DEFINE Crecen == /\ db.Socio \subseteq db'.Socio
                       /\ db.Barco \subseteq db'.Barco
                       /\ db.Viaje_Barco \subseteq db'.Viaje_Barco
                       /\ db.Barco_Muelle \subseteq db'.Barco_Muelle
  <1> USE DEF TypeOK, BasesDeDatos
  <1>1. ASSUME NEW r \in FilasBarco, AltaBarco(r) PROVE Crecen
    BY <1>1 DEF AltaBarco
  <1>2. ASSUME NEW h \in FilasViajeBarco, AltaViaje(h) PROVE Crecen
    BY <1>2 DEF AltaViaje
  <1>3. ASSUME NEW h \in FilasBarcoMuelle, AltaEstadia(h) PROVE Crecen
    BY <1>3 DEF AltaEstadia
  <1> QED
    BY <1>1, <1>2, <1>3 DEF Altas

LEMMA PropioNext == IInv /\ [Next]_vars => BorradoPropio'
  <1> SUFFICES ASSUME IInv, [Next]_vars PROVE BorradoPropio'
    OBVIOUS
  <1>1. \A s \in Sesiones : \A x : Responde(s, x) \/ Sigue(s, x)
                              => \A t \in Sesiones \ {s} : pc'[t] = pc[t]
    BY DEF Responde, Sigue, IInv, TypeOK
  <1>2. ASSUME NEW s \in Sesiones, NEW r, SqlException(s, r), UNCHANGED args
        PROVE  BorradoPropio'
    BY <1>1, <1>2, PropioFin DEF SqlException
  <1>3. ASSUME NEW s \in Sesiones, Llamada(s) PROVE BorradoPropio'
    <2>1. CASE \E p \in Entradas : GuardarNuevoSocio(s, p)
      <3>1. /\ Commit(s)
            /\ \A t \in Sesiones \ {s} : pc'[t] = pc[t] /\ p_id_socio'[t] = p_id_socio[t]
        BY <1>1, <2>1 DEF GuardarNuevoSocio, StartTransaction
      <3> QED
        BY <3>1, PropioFin
    <2>2. CASE \E id \in Ids : EliminarSocio(s, id) \/ EliminarSocioSeguro(s, id)
      <3>1. borrado[s] = Vacia
        BY <2>2 DEF EliminarSocio, EliminarSocioSeguro, IInv, SesionLimpia, ConLocks
      <3>2. \A t \in Sesiones \ {s} : pc'[t] = pc[t] /\ p_id_socio'[t] = p_id_socio[t]
        BY <1>1, <2>2 DEF EliminarSocio, EliminarSocioSeguro, IInv, TypeOK
      <3>3. UNCHANGED <<db, borrado, candados>>
        BY <2>2 DEF EliminarSocio, EliminarSocioSeguro
      <3> QED
        BY <3>1, <3>2, <3>3, PropioQuieto
    <2> QED
      BY <1>3, <2>1, <2>2 DEF Llamada
  <1>4. ASSUME NEW s \in Sesiones, Avanza(s) PROVE BorradoPropio'
    <2>1. CASE \/ CuentaTelefono(s) \/ CuentaCorreo(s) \/ ExisteSocio(s)
               \/ SeguroExiste(s) \/ SeguroCuenta(s)
      <3>1. UNCHANGED args
        BY <2>1 DEF CuentaTelefono, CuentaCorreo, ExisteSocio, SeguroExiste, SeguroCuenta
      <3>2. CASE \E r : SqlException(s, r)
        BY <1>2, <3>1, <3>2
      <3>3. CASE UNCHANGED <<db, borrado, candados>> /\ \E x : Sigue(s, x) \/ Responde(s, x)
        <4>1. \A t \in Sesiones \ {s} : pc'[t] = pc[t]
          BY <1>1, <3>3
        <4>2. borrado[s] = Vacia
          BY <2>1 DEF CuentaTelefono, CuentaCorreo, ExisteSocio, SeguroExiste, SeguroCuenta,
             IInv, SesionLimpia, ConLocks
        <4> QED
          BY <3>1, <3>3, <4>1, <4>2, PropioQuieto
      <3> QED
        BY <2>1, <3>2, <3>3
           DEF CuentaTelefono, CuentaCorreo, ExisteSocio, SeguroExiste, SeguroCuenta
    <2>2. CASE SeguroBorra(s)
      BY <2>2, PropioSeguroBorra
    <2>3. CASE ConfirmaAlta(s) \/ CuentaBarcos(s) \/ ConfirmaBaja(s)
      <3>1. /\ Commit(s)
            /\ UNCHANGED args
            /\ \A t \in Sesiones \ {s} : pc'[t] = pc[t]
        BY <1>1, <2>3 DEF ConfirmaAlta, CuentaBarcos, StartTransaction, ConfirmaBaja
      <3> QED
        BY <3>1, PropioFin
    <2>4. CASE InsertaSocio(s)
      <3>1. UNCHANGED args
        BY <2>4 DEF InsertaSocio
      <3> QED
        BY <1>2, <2>4, <3>1, PropioInserta
    <2>5. CASE BorraBarcos(s) \/ BorraSocio(s)
      <3>1. UNCHANGED args
        BY <2>5 DEF BorraBarcos, BorraSocio
      <3> QED
        BY <1>2, <2>5, <3>1, PropioBorraBarcos, PropioBorraSocio
    <2>6. CASE BorraEstadias(s) \/ BorraViajes(s)
      BY <2>6, PropioBorraEstadias, PropioBorraViajes
    <2> QED
      BY <1>4, <2>1, <2>2, <2>3, <2>4, <2>5, <2>6 DEF Avanza
  <1>5. ASSUME NEW s \in Sesiones, Vence(s) \/ Corte(s) PROVE BorradoPropio'
    BY <1>2, <1>5 DEF Vence, Corte
  <1>6. CASE Altas
    <2>1. UNCHANGED <<pc, args, tx>>
      BY <1>6 DEF Altas, AltaBarco, AltaViaje, AltaEstadia
    <2>2. /\ db.Socio \subseteq db'.Socio
          /\ db.Barco \subseteq db'.Barco
          /\ db.Viaje_Barco \subseteq db'.Viaje_Barco
          /\ db.Barco_Muelle \subseteq db'.Barco_Muelle
      BY <1>6, AltasCrecen DEF IInv
    <2> QED
      BY <2>1, <2>2, PropioQuieto
  <1>7. CASE UNCHANGED vars
    BY <1>7, PropioQuieto DEF vars
  <1> QED
    BY <1>3, <1>4, <1>5, <1>6, <1>7 DEF Next

LEMMA IInvNext == IInv /\ [Next]_vars => IInv'
  BY TiposNext, IntegridadNext, AislamientoNext, PropioNext DEF IInv, Tipos, Aislamiento

(* However the statements of any number of sessions interleave: exclusive  *)
(* locks exclude, a transaction is about to delete exactly rows that are   *)
(* there, of the member it names and with all that hangs from them, and    *)
(* to insert rows with an id and a pair of their own; outside one nothing  *)
(* is pending.                                                             *)
THEOREM InvarianteProcedimientos == Spec => []IInv
  BY IInvInit, IInvNext, PTL DEF Spec

(* Every committed state satisfies the keys, the foreign keys and the      *)
(* UNIQUE (telefono, correo) of club.sql, for any number of sessions.      *)
THEOREM IntegridadSiempre == Spec => []Integridad
  <1>1. IInv => Integridad
    BY DEF IInv
  <1> QED
    BY IInvInit, IInvNext, <1>1, PTL DEF Spec

-----------------------------------------------------------------------------
(* ProcSocios implements RegistroClub.                                     *)

USE DEF Registro!Menos, Registro!IdsSocio, Registro!BarcosDe, Registro!HijasDe,
        Registro!MismoPar

(* A COMMIT inserts the transaction's row, or deletes a member with all    *)
(* that hangs from it, or changes nothing.                                 *)
LEMMA CommitNada ==
    ASSUME IInv, NEW s \in Sesiones, Commit(s), borrado[s] = Vacia, nuevo[s] = {}
    PROVE  db' = db
  <1>1. db' = [Menos(db, borrado[s]) EXCEPT !.Socio = @ \cup nuevo[s]]
    BY DEF Commit
  <1>2. Menos(db, borrado[s]) = db
    BY DEF Menos, Vacia, IInv, TypeOK, BasesDeDatos
  <1> QED
    BY <1>1, <1>2 DEF IInv, TypeOK, BasesDeDatos

LEMMA CommitInscribe ==
    ASSUME IInv, NEW s \in Sesiones, Commit(s), NEW r \in nuevo[s]
    PROVE  Registro!Inscribir(r)
  <1>1. borrado[s] = Vacia /\ nuevo[s] = {r}
    BY DEF IInv, SesionLimpia, AltaPropia
  <1>2. Menos(db, borrado[s]) = db
    BY <1>1 DEF Menos, Vacia, IInv, TypeOK, BasesDeDatos
  <1>3. db' = [db EXCEPT !.Socio = @ \cup {r}]
    BY <1>1, <1>2 DEF Commit
  <1>4. r.id_socio \notin Registro!IdsSocio(db)
    BY DEF IInv, AltaPropia, IdsSocio
  <1>5. \A q \in db.Socio : ~Registro!MismoPar(r, q)
    BY DEF IInv, AltaPropia, MismoPar
  <1> QED
    BY <1>3, <1>4, <1>5 DEF Registro!Inscribir

LEMMA CommitDaDeBaja ==
    ASSUME IInv, NEW s \in Sesiones, Commit(s), borrado[s] # Vacia,
           pc[s] \in {"libre", "e_cuenta", "g_commit", "e_commit"}
    PROVE  \E r \in db.Socio : r.id_socio = p_id_socio[s] /\ Registro!DarDeBaja(r)
  <1>1. db' = [Menos(db, borrado[s]) EXCEPT !.Socio = @ \cup nuevo[s]]
    BY DEF Commit
  <1>2. nuevo[s] = {} /\ pc[s] = "e_commit"
    BY DEF IInv, SesionLimpia, ConLocks
  <1>3. PropioDe(s)
    BY DEF IInv, BorradoPropio
  <1>4. PICK r \in borrado[s].Socio : r \in db.Socio /\ r.id_socio = p_id_socio[s]
    BY <1>2, <1>3 DEF PropioDe
  <1>5. borrado[s].Socio = {r}
    BY <1>3, <1>4 DEF PropioDe, IInv, Integridad, Restricciones, ClavesPrimarias
  <1> DEFINE bs == BarcosDe(db, r.id_socio)
  <1>6. borrado[s].Barco = bs
    BY <1>3, <1>4 DEF PropioDe, IInv, BorradoCompleto, BarcosDe
  <1>7. borrado[s].Viaje_Barco = HijasDe(db.Viaje_Barco, bs)
    <2>1. \A h \in borrado[s].Viaje_Barco : h \in HijasDe(db.Viaje_Barco, bs)
      BY <1>3, <1>4 DEF PropioDe, HijaPropia, HijasDe, BarcosDe
    <2>2. \A h \in HijasDe(db.Viaje_Barco, bs) : h \in borrado[s].Viaje_Barco
      BY <1>6 DEF IInv, BorradoCompleto, HijasDe, BarcosDe
    <2> QED
      BY <2>1, <2>2
  <1>8. borrado[s].Barco_Muelle = HijasDe(db.Barco_Muelle, bs)
    <2>1. \A h \in borrado[s].Barco_Muelle : h \in HijasDe(db.Barco_Muelle, bs)
      BY <1>3, <1>4 DEF PropioDe, HijaPropia, HijasDe, BarcosDe
    <2>2. \A h \in HijasDe(db.Barco_Muelle, bs) : h \in borrado[s].Barco_Muelle
      BY <1>6 DEF IInv, BorradoCompleto, HijasDe, BarcosDe
    <2> QED
      BY <2>1, <2>2
  <1> DEFINE d == [Socio        |-> {r},
                   Barco        |-> bs,
                   Viaje_Barco  |-> HijasDe(db.Viaje_Barco, bs),
                   Barco_Muelle |-> HijasDe(db.Barco_Muelle, bs)]
  <1>9. borrado[s] = d
    <2>1. borrado[s] \in BasesDeDatos
      BY DEF IInv, TypeOK
    <2> HIDE DEF bs
    <2> QED
      BY <1>5, <1>6, <1>7, <1>8, <2>1 DEF BasesDeDatos
  <1>10. db' = Menos(db, d)
    <2> HIDE DEF d
    <2> QED
      BY <1>1, <1>2, <1>9 DEF Menos
  <1>11. Registro!DarDeBaja(r)
    BY <1>4, <1>10 DEF Registro!DarDeBaja, Menos, BarcosDe, HijasDe
  <1> QED
    BY <1>4, <1>11

(* EliminarSocioSeguro deletes a member without boats, or nothing.         *)
LEMMA SeguroDaDeBaja ==
    ASSUME IInv, NEW s \in Sesiones, SeguroBorra(s), db' # db
    PROVE  /\ BarcosDe(db, p_id_socio[s]) = {}
           /\ \E r \in db.Socio : r.id_socio = p_id_socio[s] /\ Registro!DarDeBaja(r)
  <1> DEFINE id == p_id_socio[s]
             fs == FilasCon(db, id)
  <1>1. BarcosDe(db, id) = {} /\ db' = [db EXCEPT !.Socio = @ \ fs]
    BY DEF SeguroBorra
  <1>2. fs # {}
    BY <1>1 DEF IInv, TypeOK, BasesDeDatos
  <1>3. PICK r \in fs : r \in db.Socio /\ r.id_socio = id
    BY <1>2 DEF FilasCon
  <1>4. fs = {r}
    BY <1>3 DEF FilasCon, IInv, Integridad, Restricciones, ClavesPrimarias
  <1> DEFINE bs == BarcosDe(db, r.id_socio)
             d  == [Socio        |-> {r},
                    Barco        |-> bs,
                    Viaje_Barco  |-> HijasDe(db.Viaje_Barco, bs),
                    Barco_Muelle |-> HijasDe(db.Barco_Muelle, bs)]
  <1>5. /\ bs = {}
        /\ HijasDe(db.Viaje_Barco, bs) = {}
        /\ HijasDe(db.Barco_Muelle, bs) = {}
    BY <1>1, <1>3 DEF HijasDe
  <1>6. db' = Menos(db, d)
    BY <1>1, <1>4, <1>5 DEF Menos, IInv, TypeOK, BasesDeDatos
  <1>7. Registro!DarDeBaja(r)
    BY <1>3, <1>6 DEF Registro!DarDeBaja, Menos, BarcosDe, HijasDe
  <1> QED
    BY <1>1, <1>3, <1>7

LEMMA FilasDelRegistro ==
    ASSUME IInv
    PROVE  /\ db.Socio \subseteq Registro!FilasSocio
           /\ \A s \in Sesiones : nuevo[s] \subseteq Registro!FilasSocio
  BY DEF IInv, TypeOK, BasesDeDatos, Registro!FilasSocio, Registro!Ids, FilasSocio, Ids

LEMMA CommitImplementa ==
    ASSUME IInv, NEW s \in Sesiones, Commit(s),
           pc[s] \in {"libre", "e_cuenta", "g_commit", "e_commit"}
    PROVE  Registro!RNext \/ UNCHANGED db
  <1>1. CASE borrado[s] # Vacia
    BY <1>1, CommitDaDeBaja, FilasDelRegistro DEF Registro!RNext
  <1>2. ASSUME NEW r \in nuevo[s] PROVE Registro!RNext
    BY <1>2, CommitInscribe, FilasDelRegistro DEF Registro!RNext
  <1> QED
    BY <1>1, <1>2, CommitNada

LEMMA AltasImplementan ==
    ASSUME IInv, Altas
    PROVE  Registro!RNext
  <1>1. ASSUME NEW r \in FilasBarco, AltaBarco(r) PROVE Registro!RegistrarBarco(r)
    BY <1>1 DEF AltaBarco, Registro!RegistrarBarco, IdsSocio
  <1>2. ASSUME NEW h \in FilasViajeBarco, AltaViaje(h) PROVE Registro!RegistrarViaje(h)
    BY <1>2 DEF AltaViaje, PadreLibre, Registro!RegistrarViaje
  <1>3. ASSUME NEW h \in FilasBarcoMuelle, AltaEstadia(h) PROVE Registro!RegistrarEstadia(h)
    BY <1>3 DEF AltaEstadia, PadreLibre, Registro!RegistrarEstadia
  <1> QED
    BY <1>1, <1>2, <1>3 DEF Altas, Registro!RNext, Registro!FilasBarco, FilasBarco,
       Registro!FilasViajeBarco, FilasViajeBarco, Registro!FilasBarcoMuelle, FilasBarcoMuelle,
       Registro!Ids, Ids

LEMMA PasoImplementa == IInv /\ [Next]_vars => Registro!RNext \/ UNCHANGED db
  <1> SUFFICES ASSUME IInv, [Next]_vars PROVE Registro!RNext \/ UNCHANGED db
    OBVIOUS
  <1>1. ASSUME NEW s \in Sesiones, Llamada(s) PROVE Registro!RNext \/ UNCHANGED db
    BY <1>1, CommitImplementa
       DEF Llamada, GuardarNuevoSocio, StartTransaction, EliminarSocio, EliminarSocioSeguro
  <1>2. ASSUME NEW s \in Sesiones, Avanza(s) PROVE Registro!RNext \/ UNCHANGED db
    <2>1. CASE \/ CuentaTelefono(s) \/ CuentaCorreo(s) \/ InsertaSocio(s) \/ ExisteSocio(s)
               \/ BorraEstadias(s) \/ BorraViajes(s) \/ BorraBarcos(s) \/ BorraSocio(s)
               \/ SeguroExiste(s) \/ SeguroCuenta(s)
      BY <2>1 DEF CuentaTelefono, CuentaCorreo, InsertaSocio, ExisteSocio,
         BorraEstadias, BorraViajes, BorraHijas, BorraBarcos, BorraSocio, SeguroExiste,
         SeguroCuenta, SqlException, Rollback
    <2>2. CASE ConfirmaAlta(s) \/ CuentaBarcos(s) \/ ConfirmaBaja(s)
      BY <2>2, CommitImplementa DEF ConfirmaAlta, CuentaBarcos, StartTransaction, ConfirmaBaja
    <2>3. CASE SeguroBorra(s)
      BY <2>3, SeguroDaDeBaja, FilasDelRegistro DEF Registro!RNext
    <2> QED
      BY <1>2, <2>1, <2>2, <2>3 DEF Avanza
  <1>3. ASSUME NEW s \in Sesiones, Vence(s) \/ Corte(s) PROVE UNCHANGED db
    BY <1>3 DEF Vence, Corte, SqlException, Rollback
  <1>4. CASE Altas
    BY <1>4, AltasImplementan
  <1>5. CASE UNCHANGED vars
    BY <1>5 DEF vars
  <1> QED
    BY <1>1, <1>2, <1>3, <1>4, <1>5 DEF Next

LEMMA RegistroInit == Init => Registro!RInit
  <1> SUFFICES ASSUME Init PROVE Registro!RInit
    OBVIOUS
  <1>1. db \in BasesDeDatos /\ Restricciones(db)
    BY DatosAssumption DEF Init
  <1> QED
    BY <1>1 DEF Registro!RInit, Registro!BasesDeDatos, Registro!Restricciones,
       Registro!ClavesPrimarias, Registro!LlavesForaneas, Registro!TelefonoCorreoUnicos,
       Registro!FilasSocio, Registro!FilasBarco, Registro!FilasViajeBarco,
       Registro!FilasBarcoMuelle, Registro!Ids, BasesDeDatos, Restricciones,
       ClavesPrimarias, LlavesForaneas, TelefonoCorreoUnicos, MismoPar,
       FilasSocio, FilasBarco, FilasViajeBarco, FilasBarcoMuelle, Ids

(* The statements of all sessions, interleaved and interrupted in any way, *)
(* show the committed database only the whole operations of RegistroClub.  *)
THEOREM RegistroImplementado == Spec => ImplementaRegistro
  <1>1. IInv /\ [Next]_vars => [Registro!RNext]_db
    BY PasoImplementa
  <1> QED
    BY IInvInit, IInvNext, RegistroInit, <1>1, PTL DEF Spec, ImplementaRegistro, Registro!RSpec
=============================================================================
