# Club náutico: a verification project

The repository is the management program of a yacht club: a MariaDB schema
with stored procedures (`proyecto final/*.sql`), a JavaFX desktop application
that calls them (`proyecto final/ClubNautico`), and a second, separate schema
of Mexican postal codes with the procedures that fill it from a flat table
(`codigopostal/*.sql`). There is no server program of its own: whatever happens
concurrently happens between connections to the database server, one per
call of each desktop (`Conexion.getConnection`), and in the club's data entry
by script.

Paths below are relative to `src/`; `G` is `proyecto final/GuardarSocio.sql`,
`E` is `proyecto final/EliminarSocio.sql`, `M` is
`codigopostal/sepomex_migration_proc.sql`, `F` is `codigopostal/fix_codigo_length.sql`
and `S` is `Scrip_de_CodigosPostales.sql`. Java files are under
`proyecto final/ClubNautico/src/main/java`.

## Inventory

| Component | State | Operations | Talks to |
|---|---|---|---|
| Schema `club` (`club.sql`, `LMD.sql`) | tables Socio, Patron, Barco, Viaje, Muelle, Viaje_Barco, Barco_Muelle | single INSERTs | |
| Member procedures (`GuardarSocio.sql`, `EliminarSocio.sql`) | the open transaction of each connection | GuardarNuevoSocio, EliminarSocio, EliminarSocioSeguro | the tables |
| Discount function (`funcion.sql`) | none | calcular_descuento_mensualidad | reads Barco, Viaje_Barco |
| Views (`vistas.sql`) | none | four views | read the tables |
| Data access (`mysql/Conexion.java`) | none; a connection per call | one method per procedure | calls the procedures |
| Member screens (`SocioController`, `NuevoSocioController`) | the table as last read; the form, its edit mode and member | new, edit, delete, refresh, save, clear | Conexion |
| Patron screens (`PatronController`, `NuevoPatronController`) | the same | the same | Conexion, procedures that are not in the repository |
| Boat, dock, trip and search screens | the rows last read | load, refresh, search | Conexion |
| Postal codes (`codigopostal/*.sql`, `Scrip_de_CodigosPostales.sql`) | flat table sepomex; seven normalised tables; a temporary table per connection | load, widening of two columns, MigrarSepomexACodigoPostal, MigrarSepomexLimpio, analysis and verification, searches | |

What is hard in it, and so what the properties are about:

* *Several connections.* Every procedure is a sequence of statements. Reads that
  are made before `START TRANSACTION`, or that take no lock, are stale when the
  statement that relies on them runs.
* *Failure in the middle.* A statement fails (foreign key, lock wait, deadlock, no
  id left), or the connection is lost, before or after the commit; handlers roll
  back, and say more or less of it to the caller.
* *Stale screens.* A table shows the rows of its last refresh, a form those of the
  moment it was opened.
* *Boundaries.* The discount changes at 2 and 3 boats and at 10 and 20 trips, and
  is rounded to cents.
* *Bulk steps.* The migrations empty seven tables and fill them again in one
  transaction, from data that breaks the target's keys; the flat table they read
  once per statement may be loaded again, the columns widened, and a second migration
  started meanwhile; the temporary table of a failed call is still there in the next.

What makes each component correct:

* schema and procedures: no committed row refers to a missing one; a deletion takes
  a member with exactly what hangs from it, or nothing; a telephone or mail address
  belongs to one member; what a caller is told is true and stays true; every call
  is answered;
* discount: more boats or trips never cost more; a shared trip counts once;
* screens: what they report has happened; what they reported as gone is not offered
  again; a retry does not do twice what was done once;
* views: what a screen shows of a member's boats and trips is what its discount is
  given for;
* migration: all or nothing, from one content of the flat table; what was complete in
  it can be found afterwards, by its name and by a code that the search can be given; every
  post office is in its own city; searches return each settlement with its own
  municipality; every call ends.

## Modules

```
Club                tables and constraints (club.sql)
 └ RegistroClub     abstract: what a reader sees of the club, whole operations
    ├ Llamadas           abstract: what a caller of the procedures can rely on
    ├ Descuento          the discount function over a changing register
    │  └ Vistas             the view of trips over the same register
    └ PantallaSocios     the member screens of several desktops
 └ ProcSocios       the procedures, statement by statement; implements
                    RegistroClub and Llamadas
CodigoPostal        flat table, seven tables and their constraints, what the
 │                  migrations select, searches
 └ Catalogo         abstract: the seven tables change as a whole
 └ Migracion        both migrations, statement by statement; implements Catalogo
RegistroProofs           theorems about RegistroClub
 ├ ContratoProofs          about Llamadas
 ├ DescuentoProofs         about Descuento and Vistas
 └ PantallaSociosProofs    about PantallaSocios
ProcSociosProofs         about ProcSocios: types, locks, register
 └ RespuestasProofs        about its answers
    └ LlamadasProofs         that it implements Llamadas
MigracionProofs          about Migracion and the searches
MCProcSocios, MCDescuento, MCPantallaSocios, MCMigracion         instances for TLC
```

### Club, RegistroClub

A database is a record of four sets of rows. Rows keep keys, foreign keys and
the columns of `UNIQUE (telefono, correo)`; names, prices and dates are left out,
and a stay is one value standing for a dock and a date. `Restricciones` is what
`club.sql` declares: primary keys, foreign keys, and the unique pair, which
compares no row with a NULL in it. `RegistroClub` lets a set of tables change by
whole operations only: a member entered, a member deleted with its boats and
their trips and stays, a boat, trip or stay recorded.

### Llamadas

The contract between the procedures and whoever calls them, without statements,
snapshots or locks. A call is made, perhaps settles its answer at one moment, and ends,
perhaps later. `paso[s]` is what the call of connection `s` has settled, `dados` the ids
that are never given out (again). A member is entered only if, at one moment of the
call, telephone and mail address were both nobody's (`Verifica`); a
refused telephone or address was somebody's; a deletion answered with success found the
member and leaves it deleted, by itself or by somebody else (`Elimina`); the safe one
deletes no boat; what fails has changed nothing but, perhaps, spent an id.
It is as weak as the code: it does not say that what was verified still holds
at the INSERT, which `carrera` refutes, nor that who is told "eliminado" did it, which
`doble_baja` refutes.

### ProcSocios

One action per SQL statement of the three procedures; `pc[s]` is the statement
connection `s` is at. Statements outside a transaction (`E:18`, `E:28`, and all
of EliminarSocioSeguro) read or write `db`, the committed tables, directly. Inside
one, deletions and insertions are kept in `borrado[s]` and `nuevo[s]` until
`Commit`. `SqlException` is the EXIT HANDLER of `G:16-23` and `E:11-15`.
`AltaBarco`, `AltaViaje` and `AltaEstadia` are the single INSERTs of `LMD.sql`
running meanwhile. `Vence` is a deadlock victim or `innodb_lock_wait_timeout`,
`Corte` a connection that breaks; an answer may also be lost after the COMMIT.

What the module assumes of InnoDB (external to the repository):

* REPEATABLE READ: a plain SELECT reads the snapshot of the transaction's first
  SELECT; INSERT, DELETE and key checks read the latest rows and lock them to
  the end of the transaction;
* locks are per key of the index a statement uses: a member, the boats of a member,
  the trips or stays of a boat, a (telefono, correo) pair. A range without
  rows is locked in a mode that only excludes insertions. A statement takes its
  locks in one step;
* whether `DELETE ... INNER JOIN Barco` also locks the range of boats depends on
  the join order the optimizer picks: both happen;
* an AUTO_INCREMENT value is spent by a failed INSERT and never given out again
  (persistent across restarts since MariaDB 10.2.4).

### Descuento

`Mensualidad(b, id, base)` is the function; amounts are hundredths, so
`DECIMAL(10,2)` and its rounding are integer arithmetic. Its actions evaluate it
while boats and trips are recorded and members leave. Both counts are read in
one statement's snapshot, so an evaluation sees one state. `funcion.sql:14`
calls the function DETERMINISTIC though lines 22-30 read tables that change; no
run is about it, since the only query that calls the function evaluates it afresh.

### Vistas

`viajescompleta` is the view of `vistas.sql:46-50` as a set of (trip, boat) rows: the
LEFT JOIN that gives a trip without boats a NULL one, and the RIGHT JOIN that drops
that row again and adds the boats without trips. The joins with Patron and Socio
neither drop nor add rows (NOT NULL and FOREIGN KEY) and are left out. The module adds no
actions: the view is evaluated in every state of Descuento.

### PantallaSocios

The handlers of the two controllers and the four methods of `Conexion` they use,
for a set `Puestos` of desktops. `tabla[p]` is the content of `tblTablaSocio`,
`ventana[p]` the form (`modoEdicion`, `socio`, the texts), `dialogo[p]` what holds a
handler up: an alert (`showAndWait`), or a call of GuardarNuevoSocio between its
checks and its INSERT. While it is not NULL the desktop does nothing else, since
JavaFX runs handlers on one thread and an alert is modal; other desktops go on.
Calls therefore overlap, and the module lets the checks of `G:46-69` go stale, and
EliminarSocio answer with success for a member that another call has deleted
since it looked, as ProcSocios shows they can. `aviso` is what the last step told
its user.

External: the procedures `todosSocios` and `ModificarSocio` are called
(`Conexion.java:27,95`) and not in the repository. The first is taken to return the
members; the second to change one member or refuse, and to refuse a repeated
address, since `Conexion.java:115` expects "correo duplicado". In JavaFX,
`setText(null)` leaves `getText()` null until something is typed or the field is
cleared. Bound: one form window per desktop.

### CodigoPostal, Catalogo

The flat table `plana` is a set of rows with their place (`fila`), so equal rows are
possible; every column that a WHERE or a key looks at is kept, with NULL and the empty
text. Names and codes are model values; two texts that the server compares as equal (but
for case, or for blanks behind them) are one value, and blanks before a text tell it from
the trimmed one. `Podado` is what TRIM makes of a name (`F:135,150,165`), `NombresLargos`
are those that do not fit into VARCHAR(100); `Largos` and `MuyLargos` are the codes of more
than five and more than ten characters, `Recorta` is what `F:167-171` makes of a code by
trimming and cutting. A zone is rural, rural after blanks, or anything else. Of the names of states
and municipalities only being NULL is kept: the flat table is taken to have one for each
number, and a number with two would break a primary key and abort the migration. `Restricciones` is what
`codigoPostal.sql` declares (its misspelt columns read as the procedures name them).
One operator per INSERT ... SELECT says which rows it selects, and `Hallazgos` is the
join of the searches, on `c_mnpio` alone. `Catalogo` lets the seven tables change from
one complete migration of the flat table, as it is then, to the next, and in no
other way.

### Migracion

One action per statement of `M` and `F`, for any number of connections: seven
DELETEs (`BorraTabla`), seven INSERT ... SELECTs (`InsertaFilas`), the temporary table
(`Temporal`), COMMIT. `catalogo` is what is committed; the open transaction of
connection `s` is the set `vaciadas[s]` of tables it has emptied, the rows `propio[s]` it
has inserted and the locks `candados[s]`; `temporal[s]` is its temp_asentamientos,
`ret[s]` what its last call was answered. `SqlException` is the EXIT HANDLER of both
(`M:6-11`). `Carga` is the flat table loaded by hand, in one transaction; `Ensancha`
the two ALTER TABLEs of `F:66-67`, before which MigrarSepomexLimpio does not exist.
`Vence` and `Corte` are as in ProcSocios.

What the module assumes of InnoDB (external):

* DELETE without WHERE locks all rows of its table and the gap behind them; on an
  empty table it locks the gap only, which stops insertions and not another DELETE.
  So two migrations pass each other's DELETEs on empty tables and one of them is
  the deadlock victim at the first INSERT;
* INSERT ... SELECT takes shared locks on the rows it reads, so that from the first
  INSERT on the flat table does not change until the transaction ends;
* START TRANSACTION commits what the connection had left open;
* a rollback does not drop a temporary table; whether its rows survive depends on the
  engine of temporary tables, so both happen;
* INSERT IGNORE tries the selected rows in an unspecified order and skips those the
  constraints refuse: any set of rows that satisfies them and cannot be
  extended.

## Runs

| Run | Instance | Question | Result |
|---|---|---|---|
| `bajas` | 2 connections, 1 boat with a trip and a stay, 2 ids | Do overlapping deletions, entries, failures and lost connections keep the invariant, commit whole operations, and keep the contract of each call? | holds |
| `serie` | 1 connection, 2 boats, 3 ids, 4 kinds of entry | Do calls in sequence, failed and repeated, keep telephones and addresses unique; does a member with several boats leave whole, with boats entered between the statements; is every answer one the contract allows; has whoever is told of a deletion made it? | holds |
| `termina` | 2 connections, 1 boat with a trip and no stay, 2 ids, fairness | Is every call answered when connections wait for each other? | holds |
| `carrera` | 2 connections entering one telephone | Is a telephone unique when calls overlap (`G:46`)? | violated |
| `doble_baja` | 2 connections deleting | Has whoever is told "eliminado exitosamente" (`E:54`, `E:90`) deleted the member? | violated |
| `descuento` | 1 or 2 members, up to 4 boats, 21 trips, fees that round every way | Does a record, or another member's leaving, ever raise a fee; does a shared trip count once; does the view show what the function counts? | holds |
| `pantallas` | 2 desktops, 2 ids, 2 addresses | Is a member reported as deleted ever offered again? | holds |
| `reintento` | 1 desktop, 3 ids, 4 kinds of text | Does a retry after a lost answer enter anyone twice? | holds |
| `guardado` | 1 desktop, a form without surnames | Has a member reported as saved been saved (`NuevoSocioController.java:72`)? | violated |
| `sin_telefono` | 1 desktop | Can a complete form always be sent (`NuevoSocioController.java:41`)? | violated |
| `migra` | 2 connections, either migration, 3 flat tables, numbers up to 2, 5 codes, 4 names, fairness | Do readers see whole migrations only; do the locks keep one migration from overwriting another; is what completes findable (but for the codes `Encontrable` excepts) and in its city; is a repeated call harmless; is every call answered? | holds |
| `colonias` | 1 connection, 2 states with a municipality 1 | Does a search answer a settlement with its own municipality (`S:152-156`)? | violated |

Why the bounds are enough. Statements of two connections already wait for each
other in a cycle, and a third adds no kind of conflict: every lock and check
compares two connections, which is also how the invariant is stated. Two ids give
a member that exists, one entered meanwhile, and the exhausted column. One boat
has every relation of a boat; `serie` has the second one, which may share its trip
or be entered after the child rows of the first were deleted. `descuento` starts
one or two records below every threshold and crosses it (2 and 3 boats, 10 and 20
distinct trips, some of them shared) with at most `MaxAltas` = 2 records; the fees
include amounts whose discount ends in half a cent; one of its fleets has two owners whose
boats have made the same ten trips, so that a deletion that went by trips would cost the
other one a discount. Two desktops
suffice for a table that goes stale under an open alert. `Sesiones` and `Puestos`
are symmetric: nothing but identity tells their members apart; symmetry is not
used where liveness is checked.

`termina` has two ids, so that an entry can succeed, one caller, who gives no telephone
(two entries then never wait for the same pair, which could not be part of a cycle: an
entry locks nothing else), and a boat with a trip and no stay: two deletions of its member pass the DELETE of stays, which finds none and locks a
gap that both may hold; one of them deletes the trip and waits for the boat, whose range
the join of the other has locked, and the other waits for the trip. Such a cycle of
waits is reached in the run, and its mutant, a wait that ends only when somebody else
can go on, is refuted by nothing else.

The three flat tables of `migra`. In the first, two states have a municipality and a city of
one number, and a code is too long for the columns until they are widened;
MigrarSepomexACodigoPostal fails at the cities, after everything was deleted, and
MigrarSepomexLimpio succeeds without one of them; names, a code and a zone after blanks
come out trimmed. In the second, two types differ by a blank before the name of one:
MigrarSepomexLimpio fails at the types, and MigrarSepomexACodigoPostal at the long code,
or succeeds once the columns are wide and stores it whole. In the third, one code is too
long even for the wide columns, the other row repeats it once it is cut, and has a name too
long for its column: both fail at the settlements, and MigrarSepomexLimpio leaves its
temporary table. Loading one after another between any two statements gives a temporary
table left over from other data and a migration that begins over one content and selects
from another. The run starts from empty tables, where the DELETEs of two sessions do not exclude each other; after the
first COMMIT they do. No run disables the deadlock check.

Fairness. `FairSpec`, of ProcSocios and of Migracion, asks weak fairness of
`Avanza(s) \/ Vence(s)` for each connection: the server executes the next statement of a call, and a statement
that waits ends with its locks or with an error, which the deadlock detector and
`innodb_lock_wait_timeout` guarantee. Nobody is obliged to call, to enter rows, to
load the flat table, or to break down.

## Proofs

`tlapm` checks 6,179 obligations. All theorems hold for any sets of connections,
desktops, telephones, addresses, boats, trips and stays and any `MaxId`, and for any
flat tables, codes and `MaxNumero`, under the
named assumptions of the modules (`MaxId` and `MaxNumero` are natural numbers; NULL is
no telephone, address, boat, trip, code, name or set of members; initial tables satisfy the
constraints; boats and trips are finite, where they are counted; trimming a name twice is trimming it
once and makes none longer; cleaning a code gives one of at most five characters, which
another cleaning leaves as it is). A theorem that needs more says so in its ASSUME.

The register, and what implements it:

* **RegistroProofs** `RegistroConRestricciones`: `RSpec => []RInv`, the operations of the
  register keep types and every constraint of `club.sql`. `NadiePierdeLoSuyo`: no
  operation takes a boat, or a trip or stay of its boats, from a member that stays. It
  rests on the primary key of boats: the rows that a deletion takes with the boats of
  one member hang from nobody else's.
* **ProcSociosProofs** `TipoCorrecto`, `IntegridadSiempre`, `InvarianteProcedimientos`:
  `Spec => []TypeOK`, `Spec => []Integridad`, `Spec => []IInv`. `Integridad` is about committed rows and says nothing of
  what a transaction is about to commit, so it is not inductive. `IInv` adds what
  the locks are for: an exclusive lock is alone on its key (`Exclusion`); whatever
  hangs from a row about to be deleted is about to be deleted too, and the lock
  keeps anything new from being hung (`BorradoCompleto`); a row about to be inserted
  has an id and a pair of its own (`AltaPropia`); what is about to be deleted is
  still there and belongs to the member the call names (`BorradoPropio`); nothing is
  pending outside a transaction (`SesionLimpia`).
* **ProcSociosProofs** `RegistroImplementado`: `Spec => Registro!RSpec`, with `db` as
  the register. From `IInv`: a COMMIT of EliminarSocio is `DarDeBaja` of the one row
  it removed (or a stutter when there was none), a COMMIT of GuardarNuevoSocio is
  `Inscribir`, the START TRANSACTION that would commit leftovers finds none, every
  other statement stutters.

What callers are told:

* **RespuestasProofs** `BajaCiertaSiempre`: a member whose deletion was answered never comes
  back, under any interleaving. `BajaCierta` looks at idle connections only; `BInv`
  adds what holds during the call: the id a deletion names, once found, was given out
  and is in nobody's pending insertion (`IdGastado`), and at the COMMIT the member is
  among the rows to be removed (`BajaHecha`). Ids only grow, so a spent one is not
  given to anyone else, whatever other connections enter.
* **LlamadasProofs** `LlamadasImplementadas`: `Spec => Contrato!LSpec`. The mapping takes
  `Dados`, the ids below the counter that no pending row holds, and `PasoDe(s)`, read off the
  statement the call is at. The difficult case is the lookup: a
  snapshot is taken by the first SELECT and both columns are compared with it, so the
  contract's single moment (`Verifica`) is that SELECT, and at the second one the
  answer is settled already ("rechazada" or "verificada"), whatever the tables hold by then.
  `Pendiente` is what the mapping needs beside `BInv`: which lookups a call without a
  snapshot has left, and that the row it is about to commit is that of its arguments.
* **ContratoProofs**, about the contract alone, for arguments whose texts are of their
  columns (`EntradasDeTexto`): `ContratoSobreRegistro` (`LSpec => RSpec`), so that the
  theorems of the register hold under any callers; `EliminadosFueraSiempre`, a member answered as
  deleted is not in the register; `IdsUnaVez`, an id that nobody has any more nobody gets.
* **RespuestasProofs** `SinDuplicadosEnSerie`: the complement of `carrera`. With
  one connection (`UnaSesion`), arguments without blanks around them (`SinSangria`; the check
  of `G:50` compares the argument untrimmed, `G:83` stores it trimmed, and the desktop
  form trims before it calls) and initial tables without duplicates (`DatosUnicos`),
  `Spec => []SinDuplicados`, through every failure and retry. `Verificada` says that what
  the call has checked so far still holds, since its snapshot is the table.
* **RespuestasProofs** `EliminadoPorEstaEnSerie`: the complement of `doble_baja`. With one
  connection, whoever is told of a deletion has made it, through failures and retries: a
  member that was found is still in the table (`EnTabla`) at every statement up to the COMMIT.

The discount and the view:

* **DescuentoProofs** `NuncaSubeSiempre`: the counts only grow with the tables
  (cardinalities of finite sets), the two scales and the limit are monotone, and
  so is rounding. `TipoDescuento`: the fee is never negative, as the limit keeps
  the percentage below 100.
* **DescuentoProofs** `DescuentoSobreRegistro`: the club whose fees are asked for changes as
  the register does; hence, from `NadiePierdeLoSuyo` and the same monotony,
  `CuotaDelQueSigueSiempre`: whoever leaves, nobody else pays more.
* **DescuentoProofs** `VistaCuadraSiempre`: the boats and trips the view shows of a member
  are, as sets, those the function counts; hence so are their numbers.
  `ViajeCompartidoSiempre`: giving one boat of a member the trip of another adds nothing
  to the set of trips, so the fee does not change.

The screens:

* **PantallaSociosProofs** `BajaMostradaSiempre`, `CorreoUnicoSiempre`, `PantallaTipo`,
  `InvariantePantalla`: the invariant `IInv` says that every id on a screen was given out (`IdsDados`), that the
  member of a success alert is gone (`BorradoFuera`), and that a form whose call has
  passed the checks is complete and, with one desktop, would still pass them
  (`VerificadoVigente`). Since ids are never given out twice, "gone" lasts until the
  alert is closed and the table read again.
* **PantallaSociosProofs** `PantallaConRestricciones`, `PantallaConserva`: the runs of the screens
  have no boats; these theorems are about members with boats. Every change the desktops
  make to the club is an operation of the register or an edit of one member that keeps its id
  (`Edita`), so every constraint holds, and a member that stays keeps its boats, however
  stale the row was that an edit or a deletion of another desktop started from.
* **PantallaSociosProofs** `NuevoSePuedeEnviar`: the complement of `sin_telefono`. Only a form
  that is editing fails that way; a new member that is complete can always be sent, since
  leaving the edit mode clears the fields that `setText(null)` filled (`NuevoSinNulo`). It
  assumes that NULL is neither the empty text nor a message.

The migrations:

* **MigracionProofs** `TipoMigracion`, `InvarianteMigracion`, `ImplementaElCatalogo`:
  `Spec => []TypeOK`, `Spec => []IInv`, `Spec => Tablero!CSpec`. What readers see is
  the committed tables, and nothing about them says what a COMMIT will publish; `IInv`
  therefore follows each call: every DELETE finds emptied what those before it empty,
  so no foreign key refuses it for rows of its own (`Vaciando`); from the first
  INSERT on the flat table is locked (`Bloqueada`), so that what was selected before
  is still what the statement would select now, table by table
  (`Comunes`, `DeOriginal`, `DeLimpio`, the last with the temporary table made from the
  same content); tables not filled yet are empty (`SinLlenar`). At the COMMIT these
  are the conjuncts of `Migrado`.
* **MigracionProofs** `EncontrableSiempre`, `CiudadPropiaSiempre`: from `IInv` at the
  COMMIT. A row with all its columns gives a municipality, a type and a settlement that the search joins
  again: after either migration by its trimmed name (which fits the parameter, since the
  column is no wider), after MigrarSepomexLimpio by its code trimmed and cut, after
  MigrarSepomexACodigoPostal by its code if that has at most five characters. The longer
  ones it stores whole once the columns are widened, and the VARCHAR(5) parameter of `S:163`
  cannot name them: the property excepts them. And MigrarSepomexACodigoPostal, whose INSERT of cities is not IGNORE, has every
  city of the flat table, of which the primary key allows one per number.
* **MigracionProofs** `CerrojosSiempre`, `SinPisarSiempre`: no lost update. `Cerrojos` says
  what covers a table that a call has emptied: its exclusive lock, or, when there was
  nothing to delete, the lock of its gap and the table still empty. Two calls may hold the
  gap; a COMMIT that fills the table has needed its exclusive lock, so nobody else held
  either.
* **MigracionProofs** `ReintentoInocuoSiempre`: while the tables are what MigrarSepomexACodigoPostal
  makes of the flat table, no step of its calls changes them: at a COMMIT, `IInv` gives the
  same selections again, row by row.
* **MigracionProofs** `BusquedaPropiaSinRepetidos`: the complement of `colonias`. Over flat
  tables in which no two states share a number of municipality, such as that of one state,
  every search answers the municipality and state of its settlement.

Only model-checked: the liveness properties `LlamadaTermina` and `MigracionTermina`,
which are beyond the prover, as are ENABLED and so the absence of deadlocks.

## What the checks found

* Two overlapping calls of GuardarNuevoSocio store one telephone twice, or one mail
  address twice (`carrera`): the check is a plain SELECT and the schema makes only
  the pair unique.
* Of two overlapping deletions both report success (`doble_baja`): the trace is of
  EliminarSocioSeguro, whose check (`E:71`), count (`E:81`) and DELETE (`E:89`) are three
  statements without a transaction; EliminarSocio has the same gap between `E:18` and `E:50`.
* The form reports a refused member as saved (`guardado`): `p_resultado` is not read.
* A member without telephone cannot be edited until something is typed into the
  telephone (`sin_telefono`).
* A search for a settlement answers it once in every municipality of its number, also
  those of other states (`colonias`): settlements keep no state, and `S:156,175,193`
  join on `c_mnpio` alone.

Seen while modelling, without a run: the duplicate check compares untrimmed and the
INSERT stores trimmed (`G:50` against `G:83`), so that a caller who does not trim, which
the desktop form is not, can enter a telephone twice; `Conexion.java:41`
logs a failed read and returns the list as far as it got, and the table shows those rows
without the warning of `SocioController.java:156` (modelled: `TraerDatos` may show any
part of the members); codes that MigrarSepomexACodigoPostal stores whole are beyond the
search by code (`S:163`); MigrarSepomexLimpio keeps one city of
each number, and offices of the others go with it, hence the restriction of
`CiudadPropia` to the other migration.

## Not modelled

* Patron screens: the handlers of the member screens again, line for line, over four
  procedures of which the repository has no line. Beyond what PantallaSocios checks,
  every property would be about an invention.
* Boat, dock, trip and search screens, with their methods of `Conexion`: each
  shows the answer of one procedure, not in the repository either, and keeps no other state.
* The views vista_socios (all of Socio), vista_barcos and vista_barcos_completa (joins
  on `Barco.id_muelle` and `Barco.n_viaje`, which nothing keeps in step with the tables
  of stays and trips). Patron and those two columns are left out of Club for the same
  reason: no procedure writes them.
* The procedures Analizar* and Verificar* of the postal codes: they print counts and
  examples and change nothing. Loading the flat table from the published file is one
  action, not a program.
* Entities (`modelo/`), start-up (`inicio/`), styles and layouts, example queries:
  no state or decisions of their own. `base_datos.sql` and `VideoClub.sql` are other
  databases; `jar/` is vendored.
* Two users editing one member overwrite each other's columns
  (`NuevoSocioController.java:48`): nothing in the code promises otherwise, so it is
  listed as a hazard without a property.
* A restart of the server: committed rows and ids survive, open transactions end as
  `Corte` ends them.

## Plan

Done, in this order: Club, RegistroClub, ProcSocios with its proofs, Descuento,
PantallaSocios; CodigoPostal, Catalogo and Migracion with their proofs, Vistas, the
theorems about answered deletions, unique telephones, shared trips and the view; Llamadas
with both of its proofs, the register's own theorems, and the complements of the runs that are
violated. Left:

1. Every invariant and action property the passing runs check has a theorem. Lemmas that
   would make the postal codes stronger: two migrations of the same flat table by
   MigrarSepomexACodigoPostal publish the same tables (immediate from `Migrado`; the theorem
   `ReintentoInocuoSiempre` is what follows from it for a caller), and by
   MigrarSepomexLimpio they may not (the choice of INSERT IGNORE).
2. The overlapping calls that PantallaSocios allows are read off ProcSocios by hand: a
   theorem that each of its calls is one of Llamadas would tie the two.
3. When todosPatrones, GuardarPatron, EliminarPatron and ModificarPatron are added to
   the repository: PantallaPatrones, sharing the operators of PantallaSocios, and Patron in Club
   with the boats and trips that refer to it.
4. When a procedure keeps `Barco.id_muelle` in step with Barco_Muelle:
   vista_barcos_completa against the stays.
