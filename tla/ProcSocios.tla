----------------------------- MODULE ProcSocios -----------------------------
(***************************************************************************)
(* The member procedures of the schema `club`, run by several connections  *)
(* at once: GuardarNuevoSocio (GuardarSocio.sql), EliminarSocio and        *)
(* EliminarSocioSeguro (EliminarSocio.sql), one action per SQL statement,  *)
(* and the rows of boats, trips and stays that are entered meanwhile.      *)
(*                                                                         *)
(* The engine is InnoDB at its default isolation level, REPEATABLE READ:   *)
(* a plain SELECT takes no lock and reads a snapshot, which a transaction  *)
(* keeps from its first SELECT to its end; INSERT, DELETE and the checks   *)
(* of foreign and unique keys read the latest rows and lock them until the *)
(* transaction ends.  `db` is the committed database; what a transaction   *)
(* has deleted and inserted so far is kept apart, in `borrado` and         *)
(* `nuevo`, until COMMIT.                                                  *)
(***************************************************************************)
EXTENDS Club

CONSTANTS
    Sesiones,           \* connections to the server
    Entradas,           \* arguments GuardarNuevoSocio is called with
    DatosIniciales      \* databases the system may start from

ASSUME DatosAssumption ==
    \A d \in DatosIniciales : d \in BasesDeDatos /\ Restricciones(d)

Campos == {"nombre", "apellido_paterno", "apellido_materno"}

(* An argument as the caller passes it: its text, NULL when that is NULL   *)
(* or blank, and whether blanks come before the text.                      *)
Texto(valores) == [texto : valores \cup {NULL}, sangria : BOOLEAN]

ASSUME EntradasAssumption ==
    Entradas \subseteq [blancos : SUBSET Campos, telefono : Texto(Telefonos),
                        correo : Texto(Correos)]

(* What stands for the snapshot a transaction has not taken yet is none.   *)
ASSUME FotoAssumption == \A F \in SUBSET FilasSocio : F # NULL

VARIABLES
    db,             \* the committed rows
    siguiente,      \* next AUTO_INCREMENT value of Socio.id_socio
    pc,             \* statement each session is at; "libre": no call in progress
    p_alta,         \* arguments of the session's last GuardarNuevoSocio
    p_id_socio,     \* argument of the session's last EliminarSocio[Seguro]
    foto,           \* Socio as of the transaction's first SELECT, or NULL
    borrado,        \* rows the open transaction has deleted
    nuevo,          \* rows of Socio the open transaction has inserted
    candados,       \* row and range locks the open transaction holds
    ret             \* how the session's last call ended

tx   == <<foto, borrado, nuevo, candados>>
args == <<p_alta, p_id_socio>>
vars == <<db, siguiente, pc, args, tx, ret>>

Sentencias == {"g_telefono", "g_correo", "g_insert", "g_commit",
               "e_existe", "e_cuenta", "e_estadias", "e_viajes", "e_barcos",
               "e_socio", "e_commit", "s_existe", "s_cuenta", "s_socio"}

Respuestas == {"", "guardado", "falta", "telefono", "correo", "eliminado",
               "no existe", "con barcos", "excepcion", "corte"}

-----------------------------------------------------------------------------
(* Locks.  A lock is <<table, key, mode>>; the key of a range of child     *)
(* rows is the key of their parent: the boats of a member (idx_barco_socio),*)
(* the trips and the stays of a boat.  A range without rows is locked in   *)
(* mode "S": gap locks do not exclude each other, only insertions.         *)

Candados == ({"Socio", "Barco"} \X Ids \X {"S", "X"})
       \cup ({"Viaje_Barco", "Barco_Muelle"} \X Matriculas \X {"S", "X"})
       \cup ({"telefono_correo"} \X (Telefonos \X Correos) \X {"X"})

Retenido(t, tabla, clave) == \E m \in {"S", "X"} : <<tabla, clave, m>> \in candados[t]

Concede(s, c) ==
    \A t \in Sesiones \ {s} :
       IF c[3] = "S" THEN <<c[1], c[2], "X">> \notin candados[t]
                     ELSE ~Retenido(t, c[1], c[2])

(* What session s reads in a statement that locks: the latest rows, less   *)
(* those it has deleted itself.                                            *)
Actual(s) == Menos(db, borrado[s])

CandadosHijas(nombre, tabla, bs) ==
    {<<nombre, r.n_matricula, IF HijasDe(tabla, {r}) = {} THEN "S" ELSE "X">> : r \in bs}

CandadosPar(filas) ==
    {<<"telefono_correo", <<r.telefono, r.correo>>, "X">> :
        r \in {q \in filas : q.telefono # NULL /\ q.correo # NULL}}

FilasCon(b, id) == {r \in b.Socio : r.id_socio = id}

(* Mutant: the next id is one more than the greatest id in the table.      *)
FilaNueva_MaximoMasUno(s) ==
    [id_socio |-> CHOOSE n \in 1 .. MaxId + 1 :
                     /\ \A id \in IdsSocio(db) : id < n
                     /\ n = 1 \/ n - 1 \in IdsSocio(db),
     telefono |-> p_alta[s].telefono.texto,
     correo   |-> p_alta[s].correo.texto]

(* The row GuardarNuevoSocio inserts: TRIM, and NULL for a blank.          *)
FilaNueva(s) == [id_socio |-> siguiente,
                 telefono |-> p_alta[s].telefono.texto,
                 correo   |-> p_alta[s].correo.texto]

(* The locks the statement at pc[s] needs before it can finish.            *)
Pide(s) ==
    LET id == p_id_socio[s]
        bs == BarcosDe(Actual(s), id)
    IN  CASE pc[s] = "g_insert"   -> CandadosPar({FilaNueva(s)})
          [] pc[s] = "e_estadias" -> CandadosHijas("Barco_Muelle", Actual(s).Barco_Muelle, bs)
          [] pc[s] = "e_viajes"   -> CandadosHijas("Viaje_Barco", Actual(s).Viaje_Barco, bs)
          [] pc[s] = "e_barcos"   -> {<<"Barco", id, IF bs = {} THEN "S" ELSE "X">>}
          [] pc[s] \in {"e_socio", "s_socio"} ->
                  {<<"Socio", id, IF FilasCon(db, id) = {} THEN "S" ELSE "X">>,
                   <<"Barco", id, "S">>}
                  \cup CandadosPar(FilasCon(db, id))
          [] OTHER -> {}

(* The DELETE ... INNER JOIN Barco statements also lock the range of boats *)
(* they read, when the optimizer starts from idx_barco_socio.              *)
PideJunta(s) ==
    IF pc[s] \in {"e_estadias", "e_viajes"} THEN {<<"Barco", p_id_socio[s], "S">>} ELSE {}

Concedidos(s, cs) == \A c \in cs : Concede(s, c)

-----------------------------------------------------------------------------
(* Ends of transactions and of calls. *)

CierraTx(s) ==
    /\ foto'     = [foto EXCEPT ![s] = NULL]
    /\ borrado'  = [borrado EXCEPT ![s] = Vacia]
    /\ nuevo'    = [nuevo EXCEPT ![s] = {}]
    /\ candados' = [candados EXCEPT ![s] = {}]

Rollback(s) == CierraTx(s) /\ UNCHANGED db

Commit(s) ==
    /\ db' = [Menos(db, borrado[s]) EXCEPT !.Socio = @ \cup nuevo[s]]
    /\ CierraTx(s)

(* START TRANSACTION commits whatever the connection had left open.        *)
StartTransaction(s) == Commit(s)

Responde(s, r) ==
    /\ pc'  = [pc EXCEPT ![s] = "libre"]
    /\ ret' = [ret EXCEPT ![s] = r]

Sigue(s, etiqueta) ==
    /\ pc' = [pc EXCEPT ![s] = etiqueta]
    /\ UNCHANGED ret

(* Mutant: a handler that does not roll back.                              *)
SqlException_SinRollback(s, r) == Responde(s, r) /\ UNCHANGED <<db, tx>>

(* EXIT HANDLER FOR SQLEXCEPTION of GuardarNuevoSocio (answers resultado 0 *)
(* and the engine's message) and of EliminarSocio (RESIGNAL): both roll    *)
(* back.  EliminarSocioSeguro has none, and nothing to roll back.          *)
SqlException(s, r) == Rollback(s) /\ Responde(s, r)

(* A statement that finishes without writing: it holds the locks cs.       *)
Bloquea(s, cs) == candados' = [candados EXCEPT ![s] = @ \cup cs]

-----------------------------------------------------------------------------
(* GuardarNuevoSocio *)

Blanco(arg) == arg.texto = NULL

(* Mutant: the mail address is not verified once the telephone is.         *)
TrasTelefono_SinCorreo(p) == IF Blanco(p.telefono) /\ ~Blanco(p.correo) THEN "g_correo" ELSE "g_insert"

TrasTelefono(p) == IF Blanco(p.correo) THEN "g_insert" ELSE "g_correo"

(* The call: START TRANSACTION, then the checks for blank names; the first *)
(* one that fails rolls back and answers.                                  *)
GuardarNuevoSocio(s, p) ==
    /\ pc[s] = "libre"
    /\ p_alta' = [p_alta EXCEPT ![s] = p]
    /\ StartTransaction(s)
    /\ IF p.blancos # {} THEN Responde(s, "falta")
       ELSE Sigue(s, IF Blanco(p.telefono) THEN TrasTelefono(p) ELSE "g_telefono")
    /\ UNCHANGED <<siguiente, p_id_socio>>

(* WHERE column = argument: a text with blanks before it equals no stored  *)
(* value.                                                                  *)
Igual(valor, arg) == ~arg.sangria /\ valor = arg.texto

Visibles(s) == IF foto[s] = NULL THEN db.Socio ELSE foto[s]

(* Mutant: line 59 without its AND p_resultado = 1.                        *)
CuentaTelefono_SinResultado(s) ==
    /\ pc[s] = "g_telefono"
    /\ IF \E r \in Visibles(s) : Igual(r.telefono, p_alta[s].telefono)
       THEN SqlException(s, IF \E r \in Visibles(s) : Igual(r.correo, p_alta[s].correo)
                            THEN "correo" ELSE "telefono")
       ELSE /\ foto' = [foto EXCEPT ![s] = Visibles(s)]
            /\ Sigue(s, TrasTelefono(p_alta[s]))
            /\ UNCHANGED <<db, borrado, nuevo, candados>>
    /\ UNCHANGED <<siguiente, args>>

(* Line 48: the first consistent read, which fixes the snapshot.           *)
CuentaTelefono(s) ==
    /\ pc[s] = "g_telefono"
    /\ IF \E r \in Visibles(s) : Igual(r.telefono, p_alta[s].telefono)
       THEN SqlException(s, "telefono")
       ELSE /\ foto' = [foto EXCEPT ![s] = Visibles(s)]
            /\ Sigue(s, TrasTelefono(p_alta[s]))
            /\ UNCHANGED <<db, borrado, nuevo, candados>>
    /\ UNCHANGED <<siguiente, args>>

(* Mutant: the mail address is looked up in the latest rows, not in the    *)
(* snapshot (as at READ COMMITTED).                                        *)
CuentaCorreo_Reciente(s) ==
    /\ pc[s] = "g_correo"
    /\ IF \E r \in db.Socio : Igual(r.correo, p_alta[s].correo)
       THEN SqlException(s, "correo")
       ELSE /\ foto' = [foto EXCEPT ![s] = Visibles(s)]
            /\ Sigue(s, "g_insert")
            /\ UNCHANGED <<db, borrado, nuevo, candados>>
    /\ UNCHANGED <<siguiente, args>>

CuentaCorreo(s) ==
    /\ pc[s] = "g_correo"
    /\ IF \E r \in Visibles(s) : Igual(r.correo, p_alta[s].correo)
       THEN SqlException(s, "correo")
       ELSE /\ foto' = [foto EXCEPT ![s] = Visibles(s)]
            /\ Sigue(s, "g_insert")
            /\ UNCHANGED <<db, borrado, nuevo, candados>>
    /\ UNCHANGED <<siguiente, args>>

(* Mutant: the id column has no upper limit.                               *)
InsertaSocio_SinTope(s) ==
    /\ pc[s] = "g_insert"
    /\ siguiente' = siguiente + 1
    /\ nuevo' = [nuevo EXCEPT ![s] = {FilaNueva(s)}]
    /\ Bloquea(s, Pide(s))
    /\ Sigue(s, "g_commit")
    /\ UNCHANGED <<db, foto, borrado, args>>

(* Line 73.  The AUTO_INCREMENT value is spent even when the row is then   *)
(* refused as a duplicate of UNIQUE (telefono, correo); the statement also *)
(* fails when the column has no value left.                                *)
InsertaSocio(s) ==
    /\ pc[s] = "g_insert"
    /\ Concedidos(s, Pide(s))
    /\ siguiente' = IF siguiente > MaxId THEN siguiente ELSE siguiente + 1
    /\ IF siguiente > MaxId \/ \E r \in Actual(s).Socio : MismoPar(r, FilaNueva(s))
       THEN SqlException(s, "excepcion")
       ELSE /\ nuevo' = [nuevo EXCEPT ![s] = {FilaNueva(s)}]
            /\ Bloquea(s, Pide(s))
            /\ Sigue(s, "g_commit")
            /\ UNCHANGED <<db, foto, borrado>>
    /\ UNCHANGED args

(* Line 90; the answer may be lost on its way back.                        *)
ConfirmaAlta(s) ==
    /\ pc[s] = "g_commit"
    /\ Commit(s)
    /\ \E r \in {"guardado", "corte"} : Responde(s, r)
    /\ UNCHANGED <<siguiente, args>>

-----------------------------------------------------------------------------
(* EliminarSocio *)

EliminarSocio(s, id) ==
    /\ pc[s] = "libre"
    /\ p_id_socio' = [p_id_socio EXCEPT ![s] = id]
    /\ Sigue(s, "e_existe")
    /\ UNCHANGED <<db, siguiente, p_alta, tx>>

(* Mutant: the count of members is not looked at before going on.          *)
ExisteSocio_SinSignal(s) ==
    /\ pc[s] = "e_existe"
    /\ Sigue(s, "e_cuenta")
    /\ UNCHANGED <<db, siguiente, args, tx>>

(* Line 18, outside any transaction.                                       *)
ExisteSocio(s) ==
    /\ pc[s] = "e_existe"
    /\ IF p_id_socio[s] \in IdsSocio(db)
       THEN Sigue(s, "e_cuenta") /\ UNCHANGED <<db, tx>>
       ELSE SqlException(s, "no existe")
    /\ UNCHANGED <<siguiente, args>>

(* Line 28, also outside; then START TRANSACTION and IF v_count_barcos > 0.*)
CuentaBarcos(s) ==
    /\ pc[s] = "e_cuenta"
    /\ StartTransaction(s)
    /\ Sigue(s, IF BarcosDe(db, p_id_socio[s]) # {} THEN "e_estadias" ELSE "e_socio")
    /\ UNCHANGED <<siguiente, args>>

(* A DELETE ... INNER JOIN Barco statement of the transaction.             *)
BorraHijas(s, junta, sigue) ==
    LET cs == Pide(s) \cup junta
    IN  /\ Concedidos(s, cs)
        /\ Bloquea(s, cs)
        /\ Sigue(s, sigue)
        /\ UNCHANGED <<db, siguiente, args, foto, nuevo>>

HijasPropias(s, tabla) == HijasDe(tabla, BarcosDe(Actual(s), p_id_socio[s]))

BorraEstadias(s) ==
    /\ pc[s] = "e_estadias"
    /\ \E junta \in {{}, PideJunta(s)} : BorraHijas(s, junta, "e_viajes")
    /\ borrado' = [borrado EXCEPT ![s].Barco_Muelle = @ \cup HijasPropias(s, db.Barco_Muelle)]

BorraViajes(s) ==
    /\ pc[s] = "e_viajes"
    /\ \E junta \in {{}, PideJunta(s)} : BorraHijas(s, junta, "e_barcos")
    /\ borrado' = [borrado EXCEPT ![s].Viaje_Barco = @ \cup HijasPropias(s, db.Viaje_Barco)]

(* Mutant: no foreign key refuses to delete a boat with children.          *)
BorraBarcos_SinForanea(s) ==
    /\ pc[s] = "e_barcos"
    /\ borrado' = [borrado EXCEPT ![s].Barco = @ \cup BarcosDe(Actual(s), p_id_socio[s])]
    /\ Bloquea(s, Pide(s))
    /\ Sigue(s, "e_socio")
    /\ UNCHANGED <<db, siguiente, args, foto, nuevo>>

(* Line 46: a boat entered since the count may still have children, and    *)
(* the foreign keys of Viaje_Barco and Barco_Muelle then refuse.           *)
BorraBarcos(s) ==
    /\ pc[s] = "e_barcos"
    /\ Concedidos(s, Pide(s))
    /\ LET a  == Actual(s)
           bs == BarcosDe(a, p_id_socio[s])
       IN  IF HijasDe(a.Viaje_Barco \cup a.Barco_Muelle, bs) # {}
           THEN SqlException(s, "excepcion")
           ELSE /\ borrado' = [borrado EXCEPT ![s].Barco = @ \cup bs]
                /\ Bloquea(s, Pide(s))
                /\ Sigue(s, "e_socio")
                /\ UNCHANGED <<db, foto, nuevo>>
    /\ UNCHANGED <<siguiente, args>>

(* Line 50: deletes no row, and raises nothing, when the member is gone.   *)
BorraSocio(s) ==
    /\ pc[s] = "e_socio"
    /\ Concedidos(s, Pide(s))
    /\ IF BarcosDe(Actual(s), p_id_socio[s]) # {} /\ FilasCon(db, p_id_socio[s]) # {}
       THEN SqlException(s, "excepcion")
       ELSE /\ borrado' = [borrado EXCEPT ![s].Socio = @ \cup FilasCon(db, p_id_socio[s])]
            /\ Bloquea(s, Pide(s))
            /\ Sigue(s, "e_commit")
            /\ UNCHANGED <<db, foto, nuevo>>
    /\ UNCHANGED <<siguiente, args>>

ConfirmaBaja(s) ==
    /\ pc[s] = "e_commit"
    /\ Commit(s)
    /\ \E r \in {"eliminado", "corte"} : Responde(s, r)
    /\ UNCHANGED <<siguiente, args>>

-----------------------------------------------------------------------------
(* EliminarSocioSeguro: no transaction; every statement commits by itself. *)

EliminarSocioSeguro(s, id) ==
    /\ pc[s] = "libre"
    /\ p_id_socio' = [p_id_socio EXCEPT ![s] = id]
    /\ Sigue(s, "s_existe")
    /\ UNCHANGED <<db, siguiente, p_alta, tx>>

SeguroExiste(s) ==
    /\ pc[s] = "s_existe"
    /\ IF p_id_socio[s] \in IdsSocio(db) THEN Sigue(s, "s_cuenta")
                                         ELSE Responde(s, "no existe")
    /\ UNCHANGED <<db, siguiente, args, tx>>

SeguroCuenta(s) ==
    /\ pc[s] = "s_cuenta"
    /\ IF BarcosDe(db, p_id_socio[s]) = {} THEN Sigue(s, "s_socio")
                                           ELSE Responde(s, "con barcos")
    /\ UNCHANGED <<db, siguiente, args, tx>>

(* Mutant: the count of boats is trusted when the member is deleted.       *)
SeguroBorra_SinForanea(s) ==
    /\ pc[s] = "s_socio"
    /\ db' = [db EXCEPT !.Socio = @ \ FilasCon(db, p_id_socio[s])]
    /\ Responde(s, "eliminado")
    /\ UNCHANGED <<siguiente, args, tx>>

SeguroBorra(s) ==
    /\ pc[s] = "s_socio"
    /\ Concedidos(s, Pide(s))
    /\ IF BarcosDe(db, p_id_socio[s]) # {}
       THEN UNCHANGED db /\ Responde(s, "excepcion")
       ELSE /\ db' = [db EXCEPT !.Socio = @ \ FilasCon(db, p_id_socio[s])]
            /\ \E r \in {"eliminado", "corte"} : Responde(s, r)
    /\ UNCHANGED <<siguiente, args, tx>>

-----------------------------------------------------------------------------
(* Failures. *)

(* Mutant: a wait ends only if some other call can go on; a cycle of waits *)
(* is not noticed.                                                         *)
Vence_SinVictima(s) ==
    /\ ~Concedidos(s, Pide(s) \cup PideJunta(s))
    /\ \E t \in Sesiones : Concedidos(t, Pide(t) \cup PideJunta(t))
    /\ SqlException(s, "excepcion")
    /\ UNCHANGED <<siguiente, args>>

(* A statement that waits for a lock ends with an error: the engine rolls  *)
(* back a victim of a deadlock at once, and any other waiting statement    *)
(* after innodb_lock_wait_timeout.                                         *)
Vence(s) ==
    /\ ~Concedidos(s, Pide(s) \cup PideJunta(s))
    /\ SqlException(s, "excepcion")
    /\ UNCHANGED <<siguiente, args>>

(* The connection is lost during the call: the server rolls back, and the  *)
(* caller gets an error that does not say how far the call had got.        *)
Corte(s) ==
    /\ pc[s] # "libre"
    /\ SqlException(s, "corte")
    /\ UNCHANGED <<siguiente, args>>

-----------------------------------------------------------------------------
(* Rows entered by single INSERT statements, each its own transaction      *)
(* (LMD.sql).  The foreign key reads the parent row, and waits while a     *)
(* transaction has it locked for deletion; the insertion waits while the   *)
(* range it goes into is locked.                                           *)

AltaBarco(r) ==
    /\ r.id_socio \in IdsSocio(db)
    /\ \A q \in db.Barco : q.n_matricula # r.n_matricula
    /\ \A t \in Sesiones : /\ <<"Socio", r.id_socio, "X">> \notin candados[t]
                           /\ ~Retenido(t, "Barco", r.id_socio)
    /\ db' = [db EXCEPT !.Barco = @ \cup {r}]
    /\ UNCHANGED <<siguiente, pc, args, tx, ret>>

PadreLibre(nombre, m) ==
    \E r \in db.Barco :
       /\ r.n_matricula = m
       /\ \A t \in Sesiones : /\ <<"Barco", r.id_socio, "X">> \notin candados[t]
                              /\ ~Retenido(t, nombre, m)

AltaViaje(h) ==
    /\ PadreLibre("Viaje_Barco", h.n_matricula)
    /\ db' = [db EXCEPT !.Viaje_Barco = @ \cup {h}]
    /\ UNCHANGED <<siguiente, pc, args, tx, ret>>

AltaEstadia(h) ==
    /\ PadreLibre("Barco_Muelle", h.n_matricula)
    /\ db' = [db EXCEPT !.Barco_Muelle = @ \cup {h}]
    /\ UNCHANGED <<siguiente, pc, args, tx, ret>>

-----------------------------------------------------------------------------
Init ==
    /\ db \in DatosIniciales
    /\ siguiente \in 1 .. MaxId + 1
    /\ \A id \in IdsSocio(db) : id < siguiente
    /\ pc         = [s \in Sesiones |-> "libre"]
    /\ p_alta     = [s \in Sesiones |-> NULL]
    /\ p_id_socio = [s \in Sesiones |-> NULL]
    /\ foto       = [s \in Sesiones |-> NULL]
    /\ borrado    = [s \in Sesiones |-> Vacia]
    /\ nuevo      = [s \in Sesiones |-> {}]
    /\ candados   = [s \in Sesiones |-> {}]
    /\ ret        = [s \in Sesiones |-> ""]

Llamada(s) ==
    \/ \E p \in Entradas : GuardarNuevoSocio(s, p)
    \/ \E id \in Ids : EliminarSocio(s, id) \/ EliminarSocioSeguro(s, id)

Avanza(s) ==
    \/ CuentaTelefono(s)
    \/ CuentaCorreo(s)
    \/ InsertaSocio(s)
    \/ ConfirmaAlta(s)
    \/ ExisteSocio(s)
    \/ CuentaBarcos(s)
    \/ BorraEstadias(s)
    \/ BorraViajes(s)
    \/ BorraBarcos(s)
    \/ BorraSocio(s)
    \/ ConfirmaBaja(s)
    \/ SeguroExiste(s)
    \/ SeguroCuenta(s)
    \/ SeguroBorra(s)

Altas ==
    \/ \E r \in FilasBarco : AltaBarco(r)
    \/ \E h \in FilasViajeBarco : AltaViaje(h)
    \/ \E h \in FilasBarcoMuelle : AltaEstadia(h)

Next ==
    \/ \E s \in Sesiones : Llamada(s) \/ Avanza(s) \/ Vence(s) \/ Corte(s)
    \/ Altas

Spec == Init /\ [][Next]_vars

(* The server executes the statements of a call one after another, and     *)
(* ends every wait; nobody has to call, to enter rows or to break down.    *)
FairSpec == Spec /\ \A s \in Sesiones : WF_vars(Avanza(s) \/ Vence(s))

-----------------------------------------------------------------------------
(* Correctness. *)

(* Every variable holds values of its type: tables hold rows of their      *)
(* columns, sessions are at a statement of a procedure.                    *)
TypeOK ==
    /\ db \in BasesDeDatos
    /\ siguiente \in 1 .. MaxId + 1
    /\ pc \in [Sesiones -> Sentencias \cup {"libre"}]
    /\ p_alta \in [Sesiones -> Entradas \cup {NULL}]
    /\ p_id_socio \in [Sesiones -> Ids \cup {NULL}]
    /\ foto \in [Sesiones -> (SUBSET FilasSocio) \cup {NULL}]
    /\ borrado \in [Sesiones -> BasesDeDatos]
    /\ nuevo \in [Sesiones -> SUBSET FilasSocio]
    /\ candados \in [Sesiones -> SUBSET Candados]
    /\ ret \in [Sesiones -> Respuestas]

(* The constraints of club.sql hold of what is committed.                  *)
Integridad == Restricciones(db)

(* The inductive invariant behind Integridad.  A call in progress has its  *)
(* arguments.                                                              *)
Argumentos ==
    \A s \in Sesiones :
       /\ pc[s] \in {"g_telefono", "g_correo", "g_insert", "g_commit"} => p_alta[s] \in Entradas
       /\ pc[s] \notin {"libre", "g_telefono", "g_correo", "g_insert", "g_commit"}
             => p_id_socio[s] \in Ids

(* First part: a session has work pending, or locks, only between START    *)
(* TRANSACTION and COMMIT.                                                 *)
ConLocks == {"e_estadias", "e_viajes", "e_barcos", "e_socio", "e_commit", "g_commit"}

SesionLimpia ==
    \A s \in Sesiones :
       /\ nuevo[s] # {} => pc[s] = "g_commit"
       /\ borrado[s] # Vacia => pc[s] \in ConLocks \ {"g_commit"}
       /\ candados[s] # {} => pc[s] \in ConLocks

(* Second part: an exclusive lock is the only lock on its key.             *)
Exclusion ==
    \A s, t \in Sesiones :
       s # t => \A c \in candados[s] : c[3] = "X" => ~Retenido(t, c[1], c[2])

(* Third part: what hangs from a row about to be deleted is about to be    *)
(* deleted too, and the row's lock keeps anything else from being hung.    *)
BorradoCompleto ==
    \A s \in Sesiones :
       /\ \A r \in borrado[s].Socio :
             /\ <<"Socio", r.id_socio, "X">> \in candados[s]
             /\ BarcosDe(db, r.id_socio) \subseteq borrado[s].Barco
       /\ \A r \in borrado[s].Barco :
             /\ <<"Barco", r.id_socio, "X">> \in candados[s]
             /\ r \in db.Barco =>
                   /\ HijasDe(db.Viaje_Barco, {r}) \subseteq borrado[s].Viaje_Barco
                   /\ HijasDe(db.Barco_Muelle, {r}) \subseteq borrado[s].Barco_Muelle

(* Fourth part: a row about to be inserted has an id and a pair of its own,*)
(* and the pair's lock keeps them its own.                                 *)
AltaPropia ==
    /\ \A q \in db.Socio : q.id_socio < siguiente
    /\ \A s \in Sesiones : \A r, q \in nuevo[s] : r = q
    /\ \A s \in Sesiones : \A r \in nuevo[s] :
          /\ r.id_socio < siguiente
          /\ r.id_socio \notin IdsSocio(db)
          /\ \A q \in db.Socio : ~MismoPar(r, q)
          /\ CandadosPar({r}) \subseteq candados[s]
          /\ \A t \in Sesiones \ {s} : \A q \in nuevo[t] : q.id_socio # r.id_socio

(* Fifth part: what is about to be deleted is still there, and hangs from  *)
(* the member the call names; a call that found nothing deletes nothing.   *)
HijaPropia(s, nombre, h) ==
    /\ <<nombre, h.n_matricula, "X">> \in candados[s]
    /\ \E r \in db.Barco : r.n_matricula = h.n_matricula /\ r.id_socio = p_id_socio[s]

PropioDe(s) ==
    /\ \A r \in borrado[s].Socio : r \in db.Socio /\ r.id_socio = p_id_socio[s]
    /\ \A r \in borrado[s].Barco : r \in db.Barco /\ r.id_socio = p_id_socio[s]
    /\ \A h \in borrado[s].Viaje_Barco :
          h \in db.Viaje_Barco /\ HijaPropia(s, "Viaje_Barco", h)
    /\ \A h \in borrado[s].Barco_Muelle :
          h \in db.Barco_Muelle /\ HijaPropia(s, "Barco_Muelle", h)
    /\ pc[s] = "e_commit" /\ borrado[s].Socio = {} => borrado[s] = Vacia

BorradoPropio == \A s \in Sesiones : PropioDe(s)

IInv == /\ TypeOK /\ Argumentos /\ Integridad
        /\ SesionLimpia /\ Exclusion /\ BorradoCompleto /\ AltaPropia /\ BorradoPropio

(* Readers only ever see whole operations: a member disappears with        *)
(* exactly the boats, trips and stays that hang from it at that moment     *)
(* (EliminarSocio.sql:32-52), whatever is entered or deleted between the   *)
(* statements and wherever the call fails, and no row that refers to a     *)
(* missing one, or repeats a (telefono, correo) pair, is ever committed.   *)
Registro == INSTANCE RegistroClub WITH club <- db
ImplementaRegistro == Registro!RSpec

(* The ids that were given out, but for those of rows that are not        *)
(* committed yet; what the call of session s has settled so far.           *)
Dados == {i \in Ids : i < siguiente /\ \A s \in Sesiones : \A r \in nuevo[s] : r.id_socio # i}

PasoDe(s) ==
    CASE pc[s] = "libre" -> "libre"
      [] pc[s] = "g_telefono" -> "alta"
      [] pc[s] = "g_correo" ->
            IF foto[s] = NULL THEN "alta"
            ELSE IF \E r \in foto[s] : Igual(r.correo, p_alta[s].correo) THEN "rechazada"
            ELSE "verificada"
      [] pc[s] \in {"g_insert", "g_commit"} -> "verificada"
      [] pc[s] = "e_existe" -> "baja"
      [] pc[s] = "s_existe" -> "segura"
      [] pc[s] \in {"s_cuenta", "s_socio"} -> "segura hallada"
      [] OTHER -> "baja hallada"

(* Every answer was true at one moment of its call, however the statements *)
(* interleave: a member is entered only if telephone and mail address were *)
(* nobody's at one and the same moment (GuardarSocio.sql:46-69), under an  *)
(* id that was never anyone's, and a refused address was somebody's; a     *)
(* deletion answered with success found the member and leaves it deleted   *)
(* (EliminarSocio.sql:17-54), and the safe one deletes no boat (lines      *)
(* 80-91); a call that fails has changed nothing.                          *)
Contrato == INSTANCE Llamadas
    WITH club <- db, dados <- Dados, paso <- [s \in Sesiones |-> PasoDe(s)],
         alta <- p_alta, id <- p_id_socio, respuesta <- ret
ImplementaLlamadas == Contrato!LSpec

(* The answer "Socio con ID ... eliminado exitosamente." (lines 54 and 90) *)
(* stays true: no later call, of any session, gives that id to a member    *)
(* again, so a stale id on a screen never comes to mean somebody else.     *)
BajaCierta ==
    \A s \in Sesiones :
       pc[s] = "libre" /\ ret[s] = "eliminado" => p_id_socio[s] \notin IdsSocio(db)

(* No two members share a telephone or a mail address, which is what       *)
(* GuardarSocio.sql:46-69 verifies before it inserts.                      *)
SinDuplicados ==
    \A r, q \in db.Socio :
       r # q => /\ r.telefono = q.telefono => r.telefono = NULL
                /\ r.correo = q.correo => r.correo = NULL

(* A session that is told its member was deleted is the one that deleted   *)
(* it (EliminarSocio.sql:54 and 90).                                       *)
EliminadoPorEsta ==
    [][\A s \in Sesiones :
          pc[s] # "libre" /\ pc'[s] = "libre" /\ ret'[s] = "eliminado"
          => p_id_socio[s] \in IdsSocio(db)]_vars

(* Every call gets an answer, also when two deletions of one member wait   *)
(* for each other: both hold the range of its boats, and the (empty) range *)
(* of their stays, and then want the boats or the trips themselves         *)
(* (EliminarSocio.sql:36-46).                                              *)
LlamadaTermina == \A s \in Sesiones : pc[s] # "libre" ~> pc[s] = "libre"
=============================================================================
