------------------------------ MODULE Migracion ------------------------------
(***************************************************************************)
(* MigrarSepomexACodigoPostal (sepomex_migration_proc.sql) and             *)
(* MigrarSepomexLimpio (fix_codigo_length.sql), one action per statement,  *)
(* run by several connections, while the flat table is loaded again and    *)
(* the columns of codes are widened.                                       *)
(*                                                                         *)
(* The engine is InnoDB at REPEATABLE READ.  DELETE locks every row of its *)
(* table and the gap after the last; of an empty table it locks the gap    *)
(* only, which keeps others from inserting and not from deleting.  INSERT  *)
(* ... SELECT also locks the rows it selects from the flat table, which    *)
(* then does not change to the end of the transaction.                     *)
(***************************************************************************)
EXTENDS CodigoPostal

CONSTANTS
    Sesiones,       \* connections to the server
    Iniciales       \* contents of the seven tables the system may start from

ASSUME InicialesAssumption == \A c \in Iniciales : c \in Catalogos /\ Restricciones(c)

VARIABLES
    plana,          \* the flat table sepomex
    catalogo,       \* the committed rows of the seven tables
    anchas,         \* tables whose column of codes has been widened
    proc,           \* which migration each session called last
    pc,             \* statement each session is at; "libre": no call in progress
    vaciadas,       \* tables the open transaction has emptied
    propio,         \* rows it has inserted
    candados,       \* locks it holds
    temporal,       \* the session's temp_asentamientos, NULL when there is none
    ret             \* how the session's last call ended; "" until it ends

tx   == <<vaciadas, propio, candados>>
vars == <<plana, catalogo, anchas, proc, pc, tx, temporal, ret>>

Procedimientos == {"original", "limpio"}

ConCodigo == {"Asentamientos", "OficinasPostales"}

(* The table each DELETE and INSERT statement is about.                    *)
Borra == [d_relacion |-> "AsentamientoOficina", d_oficinas |-> "OficinasPostales",
          d_asentamientos |-> "Asentamientos", d_tipos |-> "TiposAsentamiento",
          d_ciudades |-> "Ciudades", d_municipios |-> "Municipios", d_estados |-> "Estados"]

Inserta == [i_estados |-> "Estados", i_municipios |-> "Municipios",
            i_ciudades |-> "Ciudades", i_tipos |-> "TiposAsentamiento",
            i_asentamientos |-> "Asentamientos", i_oficinas |-> "OficinasPostales",
            i_relacion |-> "AsentamientoOficina"]

Sentencias == DOMAIN Borra \cup DOMAIN Inserta \cup {"t_quita", "t_crea", "t_suelta", "commit"}

-----------------------------------------------------------------------------
(* Locks: <<table, mode>>; "S" is also that of a gap.                      *)

Candados == (Tablas \cup {"sepomex"}) \X {"S", "X"}

Concede(s, c) ==
    \A t \in Sesiones \ {s} : /\ <<c[1], "X">> \notin candados[t]
                              /\ c[2] = "X" => <<c[1], "S">> \notin candados[t]

Concedidos(s, cs) == \A c \in cs : Concede(s, c)

(* What the statement at pc[s] selects for its INSERT.                     *)
Seleccion(s) ==
    LET limpio == proc[s] = "limpio"
    IN  CASE pc[s] = "i_estados"       -> EstadosDe(plana)
          [] pc[s] = "i_municipios"    -> MunicipiosDe(plana)
          [] pc[s] = "i_ciudades"      -> IF limpio THEN CandidatasDe(plana) ELSE CiudadesDe(plana)
          [] pc[s] = "i_tipos"         -> IF limpio THEN TiposLimpiosDe(plana) ELSE TiposDe(plana)
          [] pc[s] = "i_asentamientos" -> IF limpio THEN LimpiosDe(temporal[s])
                                                    ELSE AsentamientosDe(plana)
          [] pc[s] = "i_oficinas"      ->
                IF limpio THEN OficinasLimpiasDe(temporal[s], propio[s].Ciudades)
                          ELSE OficinasDe(plana)
          [] pc[s] = "i_relacion"      ->
                IF limpio THEN RelacionLimpiaDe(temporal[s], propio[s].OficinasPostales)
                          ELSE RelacionDe(plana)

(* Mutant: no gap is locked, as at READ COMMITTED.                         *)
Pide_SinHueco(s) ==
    IF pc[s] \in DOMAIN Borra
    THEN IF catalogo[Borra[pc[s]]] = {} THEN {} ELSE {<<Borra[pc[s]], "X">>}
    ELSE IF pc[s] \in DOMAIN Inserta
    THEN {<<"sepomex", "S">>}
         \cup (IF Seleccion(s) = {} THEN {} ELSE {<<Inserta[pc[s]], "X">>})
    ELSE {}

(* The locks the statement at pc[s] needs before it can finish.            *)
Pide(s) ==
    IF pc[s] \in DOMAIN Borra
    THEN {<<Borra[pc[s]], IF catalogo[Borra[pc[s]]] = {} THEN "S" ELSE "X">>}
    ELSE IF pc[s] \in DOMAIN Inserta
    THEN {<<"sepomex", "S">>}
         \cup (IF Seleccion(s) = {} THEN {} ELSE {<<Inserta[pc[s]], "X">>})
    ELSE {}

-----------------------------------------------------------------------------
(* Ends of transactions and of calls. *)

Queda(s, tabla, filas) == IF tabla \in vaciadas[s] THEN {} ELSE filas

(* The tables as the session itself reads them.                            *)
Vista(s) ==
    LET p == propio[s]
    IN  [Estados    |-> Queda(s, "Estados", catalogo.Estados) \cup p.Estados,
         Municipios |-> Queda(s, "Municipios", catalogo.Municipios) \cup p.Municipios,
         Ciudades   |-> Queda(s, "Ciudades", catalogo.Ciudades) \cup p.Ciudades,
         TiposAsentamiento |->
            Queda(s, "TiposAsentamiento", catalogo.TiposAsentamiento) \cup p.TiposAsentamiento,
         Asentamientos |->
            Queda(s, "Asentamientos", catalogo.Asentamientos) \cup p.Asentamientos,
         OficinasPostales |->
            Queda(s, "OficinasPostales", catalogo.OficinasPostales) \cup p.OficinasPostales,
         AsentamientoOficina |->
            Queda(s, "AsentamientoOficina", catalogo.AsentamientoOficina)
            \cup p.AsentamientoOficina]

CierraTx(s) ==
    /\ vaciadas' = [vaciadas EXCEPT ![s] = {}]
    /\ propio'   = [propio EXCEPT ![s] = SinFilas]
    /\ candados' = [candados EXCEPT ![s] = {}]

(* START TRANSACTION, too, commits whatever the connection had left open.  *)
Commit(s) == catalogo' = Vista(s) /\ CierraTx(s)

Rollback(s) == CierraTx(s) /\ UNCHANGED catalogo

Responde(s, r) ==
    /\ pc'  = [pc EXCEPT ![s] = "libre"]
    /\ ret' = [ret EXCEPT ![s] = r]

Sigue(s, etiqueta) ==
    /\ pc' = [pc EXCEPT ![s] = etiqueta]
    /\ UNCHANGED ret

Fijo == UNCHANGED <<plana, anchas, proc>>

(* A rollback does not drop a temporary table; whether it keeps its rows   *)
(* depends on the engine of temporary tables.                              *)
QuedaTemporal(s) ==
    \E filas \in {temporal[s], {}} :
       temporal' = IF temporal[s] = NULL THEN temporal
                                         ELSE [temporal EXCEPT ![s] = filas]

(* Mutants: a handler that does not roll back; one that repeats the        *)
(* statement.                                                              *)
SqlException_SinRollback(s) ==
    /\ Responde(s, "error")
    /\ QuedaTemporal(s)
    /\ UNCHANGED <<catalogo, tx>>

SqlException_Repite(s) == Rollback(s) /\ QuedaTemporal(s) /\ UNCHANGED <<pc, ret>>

(* EXIT HANDLER FOR SQLEXCEPTION of both procedures.                       *)
SqlException(s) == Rollback(s) /\ Responde(s, "error") /\ QuedaTemporal(s)

-----------------------------------------------------------------------------
(* The statements. *)

(* The call, and START TRANSACTION.  fix_codigo_length.sql creates         *)
(* MigrarSepomexLimpio after it has widened the columns (lines 66-67).     *)
Migrar(s, p) ==
    /\ pc[s] = "libre"
    /\ p = "limpio" => anchas = ConCodigo
    /\ proc' = [proc EXCEPT ![s] = p]
    /\ Commit(s)
    /\ pc'  = [pc EXCEPT ![s] = "d_relacion"]
    /\ ret' = [ret EXCEPT ![s] = ""]
    /\ UNCHANGED <<plana, anchas, temporal>>

(* DELETE FROM a table; refused while rows of another refer to it.         *)
BorraTabla(s, en, sigue) ==
    LET v == [Vista(s) EXCEPT ![Borra[en]] = {}]
    IN  /\ pc[s] = en
        /\ Concedidos(s, Pide(s))
        /\ IF Restricciones(v)
           THEN /\ vaciadas' = [vaciadas EXCEPT ![s] = @ \cup {Borra[en]}]
                /\ propio'   = [propio EXCEPT ![s][Borra[en]] = {}]
                /\ candados' = [candados EXCEPT ![s] = @ \cup Pide(s)]
                /\ Sigue(s, sigue)
                /\ UNCHANGED <<catalogo, temporal>>
           ELSE SqlException(s)
        /\ Fijo

(* What is longer than its column does not fit: codes are VARCHAR(5), and  *)
(* VARCHAR(10) once widened, names of settlements VARCHAR(100).            *)
CabeCodigo(codigo, tabla) ==
    codigo \notin (IF tabla \in anchas THEN MuyLargos ELSE Largos)

Caben(filas, tabla) ==
    /\ tabla = "Asentamientos" =>
          \A a \in filas : a.d_asenta \notin NombresLargos /\ CabeCodigo(a.d_codigo, tabla)
    /\ tabla = "OficinasPostales" => \A o \in filas : CabeCodigo(o.d_CP, tabla)

(* The rows that INSERT adds to a table, or an error.                      *)
InsertaFilas(s, en, filas, sigue) ==
    LET v == [Vista(s) EXCEPT ![Inserta[en]] = @ \cup filas]
    IN  /\ pc[s] = en
        /\ Concedidos(s, Pide(s))
        /\ IF Restricciones(v) /\ Caben(filas, Inserta[en])
           THEN /\ propio'   = [propio EXCEPT ![s][Inserta[en]] = @ \cup filas]
                /\ candados' = [candados EXCEPT ![s] = @ \cup Pide(s)]
                /\ Sigue(s, sigue)
                /\ UNCHANGED <<catalogo, vaciadas, temporal>>
           ELSE SqlException(s)
        /\ Fijo

InsertaEstados(s) == InsertaFilas(s, "i_estados", Seleccion(s), "i_municipios")

InsertaMunicipios(s) == InsertaFilas(s, "i_municipios", Seleccion(s), "i_ciudades")

InsertaTipos(s) ==
    InsertaFilas(s, "i_tipos", Seleccion(s),
                 IF proc[s] = "limpio" THEN "t_quita" ELSE "i_asentamientos")

(* INSERT IGNORE tries the rows one by one, in no given order, and skips   *)
(* those the constraints refuse: what it adds cannot be extended.          *)
CiudadesIgnorando(cs, estados) ==
    {xs \in SUBSET cs : /\ CiudadesValidas(xs, estados)
                        /\ \A k \in cs \ xs : ~CiudadesValidas(xs \cup {k}, estados)}

OficinasIgnorando(os, cs) ==
    {xs \in SUBSET os : /\ OficinasValidas(xs, cs)
                        /\ \A o \in os \ xs : ~OficinasValidas(xs \cup {o}, cs)}

(* Mutant: MigrarSepomexACodigoPostal ignores repeated cities, too.        *)
InsertaCiudades_Ignorando(s) ==
    /\ pc[s] = "i_ciudades"
    /\ \E xs \in CiudadesIgnorando(Seleccion(s), propio[s].Estados) :
          InsertaFilas(s, "i_ciudades", xs, "i_tipos")

InsertaCiudades(s) ==
    /\ pc[s] = "i_ciudades"
    /\ IF proc[s] = "limpio"
       THEN \E xs \in CiudadesIgnorando(Seleccion(s), propio[s].Estados) :
               InsertaFilas(s, "i_ciudades", xs, "i_tipos")
       ELSE InsertaFilas(s, "i_ciudades", Seleccion(s), "i_tipos")

InsertaAsentamientos(s) == InsertaFilas(s, "i_asentamientos", Seleccion(s), "i_oficinas")

InsertaOficinas(s) ==
    /\ pc[s] = "i_oficinas"
    /\ IF proc[s] = "limpio"
       THEN \E xs \in OficinasIgnorando(Seleccion(s), propio[s].Ciudades) :
               InsertaFilas(s, "i_oficinas", xs, "i_relacion")
       ELSE InsertaFilas(s, "i_oficinas", Seleccion(s), "i_relacion")

InsertaRelacion(s) ==
    InsertaFilas(s, "i_relacion", Seleccion(s),
                 IF proc[s] = "limpio" THEN "t_suelta" ELSE "commit")

(* The temporary table, of MigrarSepomexLimpio only: dropped if an earlier *)
(* call that failed has left it, created, and dropped.                     *)
Temporal(s, en, filas, sigue) ==
    /\ pc[s] = en
    /\ temporal' = [temporal EXCEPT ![s] = filas]
    /\ Sigue(s, sigue)
    /\ UNCHANGED <<catalogo, tx>>
    /\ Fijo

(* Mutant: an existing table is not dropped, and CREATE ... IF NOT EXISTS  *)
(* leaves it as it is.                                                     *)
CreaTemporal_SiNoExiste(s) ==
    \/ Temporal(s, "t_quita", temporal[s], "t_crea")
    \/ Temporal(s, "t_crea", IF temporal[s] = NULL THEN TemporalDe(plana) ELSE temporal[s],
                "i_asentamientos")

CreaTemporal(s) ==
    \/ Temporal(s, "t_quita", NULL, "t_crea")
    \/ /\ temporal[s] = NULL
       /\ Temporal(s, "t_crea", TemporalDe(plana), "i_asentamientos")

SueltaTemporal(s) == Temporal(s, "t_suelta", NULL, "commit")

(* The answer may be lost on its way back.                                 *)
Confirma(s) ==
    /\ pc[s] = "commit"
    /\ Commit(s)
    /\ \/ Responde(s, "completada") /\ UNCHANGED temporal
       \/ Responde(s, "corte") /\ temporal' = [temporal EXCEPT ![s] = NULL]
    /\ Fijo

-----------------------------------------------------------------------------
(* Failures. *)

(* A statement that waits ends with an error: a deadlock, or               *)
(* innodb_lock_wait_timeout.                                               *)
Vence(s) ==
    /\ pc[s] \in Sentencias
    /\ ~Concedidos(s, Pide(s))
    /\ SqlException(s)
    /\ Fijo

(* The connection is lost: the server rolls back and forgets the           *)
(* connection's temporary table.                                           *)
Corte(s) ==
    /\ pc[s] \in Sentencias
    /\ Rollback(s)
    /\ Responde(s, "corte")
    /\ temporal' = [temporal EXCEPT ![s] = NULL]
    /\ Fijo

-----------------------------------------------------------------------------
(* The flat table is loaded by hand, in one transaction.                   *)
Carga ==
    /\ \A s \in Sesiones : <<"sepomex", "S">> \notin candados[s]
    /\ plana' \in Planas
    /\ UNCHANGED <<catalogo, anchas, proc, pc, tx, temporal, ret>>

(* ALTER TABLE waits for the transactions that have used the table.        *)
Ensancha(tabla) ==
    /\ tabla \notin anchas
    /\ tabla = "OficinasPostales" => "Asentamientos" \in anchas
    /\ \A s \in Sesiones : tabla \notin vaciadas[s]
    /\ anchas' = anchas \cup {tabla}
    /\ UNCHANGED <<plana, catalogo, proc, pc, tx, temporal, ret>>

-----------------------------------------------------------------------------
Init ==
    /\ plana \in Planas
    /\ catalogo \in Iniciales
    /\ anchas = {}
    /\ proc     = [s \in Sesiones |-> "original"]
    /\ pc       = [s \in Sesiones |-> "libre"]
    /\ vaciadas = [s \in Sesiones |-> {}]
    /\ propio   = [s \in Sesiones |-> SinFilas]
    /\ candados = [s \in Sesiones |-> {}]
    /\ temporal = [s \in Sesiones |-> NULL]
    /\ ret      = [s \in Sesiones |-> ""]

Vacia(s) ==
    \/ BorraTabla(s, "d_relacion", "d_oficinas")
    \/ BorraTabla(s, "d_oficinas", "d_asentamientos")
    \/ BorraTabla(s, "d_asentamientos", "d_tipos")
    \/ BorraTabla(s, "d_tipos", "d_ciudades")
    \/ BorraTabla(s, "d_ciudades", "d_municipios")
    \/ BorraTabla(s, "d_municipios", "d_estados")
    \/ BorraTabla(s, "d_estados", "i_estados")

Llena(s) ==
    \/ InsertaEstados(s)
    \/ InsertaMunicipios(s)
    \/ InsertaCiudades(s)
    \/ InsertaTipos(s)
    \/ CreaTemporal(s)
    \/ InsertaAsentamientos(s)
    \/ InsertaOficinas(s)
    \/ InsertaRelacion(s)
    \/ SueltaTemporal(s)

Avanza(s) == Vacia(s) \/ Llena(s) \/ Confirma(s)

Next ==
    \/ \E s \in Sesiones :
          (\E p \in Procedimientos : Migrar(s, p)) \/ Avanza(s) \/ Vence(s) \/ Corte(s)
    \/ Carga
    \/ \E tabla \in ConCodigo : Ensancha(tabla)

Spec == Init /\ [][Next]_vars

(* The server executes the statements of a call and ends every wait.       *)
FairSpec == Spec /\ \A s \in Sesiones : WF_vars(Avanza(s) \/ Vence(s))

-----------------------------------------------------------------------------
(* Correctness. *)

(* Every variable holds values of its type; the codes of the temporary     *)
(* table have been cut to five characters.                                 *)
TypeOK ==
    /\ plana \in Planas
    /\ catalogo \in Catalogos
    /\ anchas \subseteq ConCodigo
    /\ proc \in [Sesiones -> Procedimientos]
    /\ pc \in [Sesiones -> Sentencias \cup {"libre"}]
    /\ vaciadas \in [Sesiones -> SUBSET Tablas]
    /\ propio \in [Sesiones -> Catalogos]
    /\ candados \in [Sesiones -> SUBSET Candados]
    /\ temporal \in [Sesiones -> (SUBSET FilasTemporal) \cup {NULL}]
    /\ ret \in [Sesiones -> {"", "completada", "error", "corte"}]

(* The inductive invariant behind ImplementaCatalogo.  The statements that *)
(* come after the INSERT into each table.                                  *)
TrasRelacion      == {"t_suelta", "commit"}
TrasOficinas      == {"i_relacion"} \cup TrasRelacion
TrasAsentamientos == {"i_oficinas"} \cup TrasOficinas
TrasTipos         == {"t_quita", "t_crea", "i_asentamientos"} \cup TrasAsentamientos
TrasCiudades      == {"i_tipos"} \cup TrasTipos
TrasMunicipios    == {"i_ciudades"} \cup TrasCiudades
TrasEstados       == {"i_municipios"} \cup TrasMunicipios
TrasVaciar        == {"i_estados"} \cup TrasEstados

(* First part: between calls nothing is pending, and each DELETE finds     *)
(* emptied what the ones before it empty.                                  *)
YaVaciadas ==
    [d_relacion      |-> {},
     d_oficinas      |-> {"AsentamientoOficina"},
     d_asentamientos |-> {"AsentamientoOficina", "OficinasPostales"},
     d_tipos         |-> {"AsentamientoOficina", "OficinasPostales", "Asentamientos"},
     d_ciudades      |-> {"AsentamientoOficina", "OficinasPostales", "Asentamientos",
                          "TiposAsentamiento"},
     d_municipios    |-> {"AsentamientoOficina", "OficinasPostales", "Asentamientos",
                          "TiposAsentamiento", "Ciudades"},
     d_estados       |-> Tablas \ {"Estados"}]

Vaciando(s) ==
    /\ pc[s] = "libre" => vaciadas[s] = {} /\ candados[s] = {}
    /\ pc[s] \in DOMAIN Borra => vaciadas[s] = YaVaciadas[pc[s]]

(* Second part: from the first INSERT on, the flat table is locked, the    *)
(* seven tables have been emptied, and what has been inserted satisfies    *)
(* the constraints.                                                        *)
Bloqueada(s) ==
    /\ pc[s] \in TrasEstados => <<"sepomex", "S">> \in candados[s]
    /\ pc[s] \in TrasVaciar => vaciadas[s] = Tablas /\ Restricciones(propio[s])
    /\ pc[s] \notin TrasEstados => propio[s] = SinFilas

(* Third part: each table has all that its statement selects from the flat *)
(* table as it is now, and the temporary table is made from it.            *)
Comunes(s) ==
    LET p == propio[s]
    IN  /\ pc[s] \in TrasEstados => p.Estados = EstadosDe(plana)
        /\ pc[s] \in TrasMunicipios => p.Municipios = MunicipiosDe(plana)

DeOriginal(s) ==
    LET p == propio[s]
    IN  proc[s] = "original" =>
        /\ pc[s] \notin {"t_quita", "t_crea", "t_suelta"}
        /\ pc[s] \in TrasCiudades => p.Ciudades = CiudadesDe(plana)
        /\ pc[s] \in TrasTipos => p.TiposAsentamiento = TiposDe(plana)
        /\ pc[s] \in TrasAsentamientos => p.Asentamientos = AsentamientosDe(plana)
        /\ pc[s] \in TrasOficinas => p.OficinasPostales = OficinasDe(plana)
        /\ pc[s] \in TrasRelacion => p.AsentamientoOficina = RelacionDe(plana)

DeLimpio(s) ==
    LET p == propio[s]
        t == TemporalDe(plana)
    IN  proc[s] = "limpio" =>
        /\ pc[s] \in {"i_asentamientos"} \cup (TrasAsentamientos \ {"commit"}) => temporal[s] = t
        /\ pc[s] \in TrasCiudades =>
              p.Ciudades \in CiudadesIgnorando(CandidatasDe(plana), p.Estados)
        /\ pc[s] \in TrasTipos => p.TiposAsentamiento = TiposLimpiosDe(plana)
        /\ pc[s] \in TrasAsentamientos => p.Asentamientos = LimpiosDe(t)
        /\ pc[s] \in TrasOficinas =>
              p.OficinasPostales \in OficinasIgnorando(OficinasLimpiasDe(t, p.Ciudades), p.Ciudades)
        /\ pc[s] \in TrasRelacion =>
              p.AsentamientoOficina = RelacionLimpiaDe(t, p.OficinasPostales)

(* Fourth part: a table no statement has filled yet is empty.              *)
SinLlenar(s) ==
    LET p == propio[s]
    IN  /\ pc[s] \notin TrasMunicipios => p.Municipios = {}
        /\ pc[s] \notin TrasCiudades => p.Ciudades = {}
        /\ pc[s] \notin TrasTipos => p.TiposAsentamiento = {}
        /\ pc[s] \notin TrasAsentamientos => p.Asentamientos = {}
        /\ pc[s] \notin TrasOficinas => p.OficinasPostales = {}
        /\ pc[s] \notin TrasRelacion => p.AsentamientoOficina = {}

Avanzada(s) == /\ Vaciando(s) /\ Bloqueada(s) /\ Comunes(s)
               /\ DeOriginal(s) /\ DeLimpio(s) /\ SinLlenar(s)

Avance == \A s \in Sesiones : Avanzada(s)

IInv == TypeOK /\ Restricciones(catalogo) /\ Avance

(* "Se ha revertido la transacción" (sepomex_migration_proc.sql:10): the   *)
(* tables change all together, to a complete migration of the flat table   *)
(* as it is then, or not at all, wherever a migration fails, whoever else  *)
(* migrates, and whatever an earlier call has left behind.                 *)
Tablero == INSTANCE Catalogo
ImplementaCatalogo == Tablero!CSpec

Contesta(s, r) == pc[s] # "libre" /\ pc'[s] = "libre" /\ ret'[s] = r

(* "Migración completada exitosamente" (line 152, and                      *)
(* fix_codigo_length.sql:258): whatever settlement the flat table had with *)
(* all its columns can be found in its state and municipality by its       *)
(* trimmed name; after MigrarSepomexLimpio, also by its code as trimmed    *)
(* and cut; after MigrarSepomexACodigoPostal, also by its code, unless it  *)
(* has more than five characters.  Those it stores whole, once the column  *)
(* is widened, and the VARCHAR(5) parameter of the search                  *)
(* (Scrip_de_CodigosPostales.sql:163) cannot name them.                    *)
Completa(f) ==
    /\ \A n \in {f.c_estado, f.c_mnpio, f.c_tipo_asenta, f.id_asenta_cpcons} : Positivo(n)
    /\ ConTexto(f.d_asenta) /\ ConTexto(f.d_codigo)
    /\ f.d_tipo_asenta # NULL
    /\ f.nulos = {}

EncontradaEn(hs, f) ==
    \E h \in hs : /\ Podar(h.a.d_asenta) = Podar(f.d_asenta)
                  /\ h.c_mnpio = f.c_mnpio
                  /\ h.c_estado = f.c_estado

HallablePorNombre(c, f) ==
    EncontradaEn(BuscarColoniasPorNombre(c, Podar(f.d_asenta), f.c_estado), f)

HallablePorCodigo(c, codigo, f) == EncontradaEn(BuscarPorCodigoPostal(c, codigo), f)

Encontrable ==
    [][\A s \in Sesiones :
          Contesta(s, "completada") =>
             \A f \in plana :
                Completa(f) =>
                /\ HallablePorNombre(catalogo', f)
                /\ proc[s] = "limpio" => HallablePorCodigo(catalogo', Recorta[f.d_codigo], f)
                /\ proc[s] = "original" /\ f.d_codigo \notin Largos =>
                      HallablePorCodigo(catalogo', f.d_codigo, f)]_vars

(* A completed MigrarSepomexACodigoPostal leaves every post office in the  *)
(* city the flat table puts it in (sepomex_migration_proc.sql:55-131).     *)
(* MigrarSepomexLimpio does not: INSERT IGNORE keeps one city of a number. *)
CiudadPropia ==
    [][\A s \in Sesiones :
          Contesta(s, "completada") /\ proc[s] = "original" =>
             \A f \in plana, o \in catalogo'.OficinasPostales :
                ConOficina(f) /\ ConCiudad(f) /\ f.c_oficina = o.c_oficina =>
                \A k \in catalogo'.Ciudades :
                   k.c_cve_ciudad = o.c_cve_ciudad => k = FilaCiudad(f)]_vars

(* A search answers `municipio` and `estado` of each settlement            *)
(* (Scrip_de_CodigosPostales.sql:151-152): those the flat table gives it.  *)
BusquedaPropia ==
    [][\A s \in Sesiones :
          Contesta(s, "completada") =>
             \A g \in plana :
                \A h \in BuscarColoniasPorNombre(catalogo', g.d_asenta, NULL) :
                   \E f \in plana : /\ Podar(f.d_asenta) = Podar(h.a.d_asenta)
                                    /\ f.c_mnpio = h.c_mnpio
                                    /\ f.c_estado = h.c_estado]_vars

(* MigrarSepomexACodigoPostal may be called again, by whoever has lost its *)
(* answer or has not seen another's: while the tables hold what it makes   *)
(* of the flat table, no number of its calls, complete, failed or cut,     *)
(* changes them (sepomex_migration_proc.sql:16-150).                       *)
ReintentoInocuo ==
    [][/\ Tablero!Migrado(catalogo, plana) /\ Tablero!Original(catalogo, plana)
       /\ \A s \in Sesiones : pc[s] # "libre" => proc[s] = "original"
       => UNCHANGED catalogo]_vars

(* No lost update: while a call is in progress nobody else changes a table *)
(* it has emptied, though the DELETE of an empty table lets others delete, *)
(* too (sepomex_migration_proc.sql:16-30): its COMMIT replaces what it saw.*)
SinPisar ==
    [][\A s \in Sesiones :
          pc'[s] # "libre" =>
             \A tabla \in vaciadas[s] : catalogo'[tabla] = catalogo[tabla]]_vars

(* The locks behind SinPisar: a table that has been emptied is locked, or  *)
(* it was empty and its gap is; what has been inserted is locked; and no   *)
(* exclusive lock is shared.                                               *)
Cubierta(s, tabla) ==
    /\ tabla \in vaciadas[s] =>
          \/ <<tabla, "X">> \in candados[s]
          \/ <<tabla, "S">> \in candados[s] /\ catalogo[tabla] = {}
    /\ propio[s][tabla] # {} => <<tabla, "X">> \in candados[s]

Exclusiva(s, t, tabla) ==
    <<tabla, "X">> \in candados[s] =>
       candados[t] \cap {<<tabla, "S">>, <<tabla, "X">>} = {}

Cerrojos ==
    \A s \in Sesiones, tabla \in Tablas :
       /\ Cubierta(s, tabla)
       /\ \A t \in Sesiones \ {s} : Exclusiva(s, t, tabla)

(* Every migration gets an answer, though two that start on empty tables   *)
(* pass each other's DELETEs and then wait for each other's gaps.          *)
MigracionTermina == \A s \in Sesiones : pc[s] # "libre" ~> pc[s] = "libre"
=============================================================================
