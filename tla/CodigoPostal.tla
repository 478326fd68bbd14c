---------------------------- MODULE CodigoPostal ----------------------------
(***************************************************************************)
(* The schema `codigopostal` (codigoPostal.sql), the flat table `sepomex`  *)
(* it is filled from (sepomex.sql), what the INSERT ... SELECT statements  *)
(* of the two migrations select from it, and the searches.                 *)
(*                                                                         *)
(* Texts that the server compares as equal (but for case, or for blanks at *)
(* the end: PAD SPACE) are one value; blanks before a text do tell it from *)
(* the trimmed one.  Left out: the names of states and municipalities, of  *)
(* which only NULL matters here (the flat table has one for each number; a *)
(* number with two breaks a primary key and aborts the migration).         *)
(* codigoPostal.sql is read with its misspelt columns corrected            *)
(* (c_eve_ciudad, c_ciudad, id_asenta_epcons), as the procedures name them;*)
(* without that the tables are not created.                                *)
(***************************************************************************)
EXTENDS Naturals

CONSTANTS
    Nombres,        \* names of cities, settlements and types, not blank
    NombresLargos,  \* those of more than a hundred characters
    Podado,         \* each of them without blanks around it
    Codigos,        \* postal codes as the flat table has them, not blank
    Largos,         \* those of more than five characters
    MuyLargos,      \* those of more than ten
    Recorta,        \* what MigrarSepomexLimpio makes of each
    MaxNumero,      \* largest number of a state, municipality, type, ...
    Planas,         \* contents the flat table is loaded with
    NULL            \* SQL's NULL

Vacio == ""

ASSUME MaxNumeroAssumption == MaxNumero \in Nat

ASSUME TextosAssumption ==
    /\ Vacio \notin Nombres \cup Codigos
    /\ NULL \notin Nombres \cup Codigos \cup {Vacio} \cup Nat

(* TRIM.                                                                   *)
ASSUME PodadoAssumption ==
    /\ Podado \in [Nombres -> Nombres]
    /\ NombresLargos \subseteq Nombres
    /\ \A n \in Nombres : Podado[Podado[n]] = Podado[n]
    /\ \A n \in Nombres \ NombresLargos : Podado[n] \notin NombresLargos

(* Trimmed, and cut to five characters; the text that results is kept as   *)
(* it is by another cleaning.                                              *)
ASSUME RecortaAssumption ==
    /\ MuyLargos \subseteq Largos
    /\ Largos \subseteq Codigos
    /\ Recorta \in [Codigos -> Codigos \ Largos]
    /\ \A k \in Codigos : Recorta[Recorta[k]] = Recorta[k]

Numeros  == 0 .. MaxNumero
Anulable == Numeros \cup {NULL}
Titulos  == {"d_estado", "d_mnpio"}

(* `fila` is the place of a row in the flat table, where rows may be equal;*)
(* `nulos` are the names that are NULL.  A zone is RURAL, RURAL after      *)
(* blanks ("sangrada"), or anything else ("Urbano").                       *)
FilasPlanas == [fila : Nat, c_estado : Anulable, c_mnpio : Anulable,
                c_cve_ciudad : Anulable, c_tipo_asenta : Anulable,
                id_asenta_cpcons : Anulable, c_oficina : Anulable,
                d_ciudad : Nombres \cup {Vacio, NULL}, d_asenta : Nombres \cup {Vacio, NULL},
                d_tipo_asenta : Nombres \cup {Vacio, NULL},
                d_codigo : Codigos \cup {Vacio, NULL}, d_cp : Codigos \cup {Vacio, NULL},
                d_zona : {"Urbano", "Rural", "sangrada"},
                nulos : SUBSET Titulos]

ASSUME PlanasAssumption ==
    \A P \in Planas :
       /\ P \subseteq FilasPlanas
       /\ \A f, g \in P : f.fila = g.fila => f = g

FilasMunicipio    == [c_mnpio : Numeros, c_estado : Numeros]
FilasCiudad       == [c_cve_ciudad : Numeros, d_ciudad : Nombres, c_estado : Numeros]
FilasTipo         == [c_tipo_asenta : Numeros, d_tipo_asenta : Nombres \cup {Vacio}]
FilasAsentamiento == [id_asenta_cpcons : Nat,
                      d_asenta : (Nombres \ NombresLargos) \cup {Vacio},
                      d_codigo : (Codigos \ MuyLargos) \cup {Vacio}, d_zona : {"Urbano", "Rural"},
                      c_tipo_asenta : Numeros, c_mnpio : Numeros]
FilasOficina      == [c_oficina : Numeros, d_CP : Codigos \ MuyLargos, c_cve_ciudad : Numeros]
FilasRelacion     == [id_asenta_cpcons : Nat, c_oficina : Numeros]

Catalogos == [Estados             : SUBSET Numeros,
              Municipios          : SUBSET FilasMunicipio,
              Ciudades            : SUBSET FilasCiudad,
              TiposAsentamiento   : SUBSET FilasTipo,
              Asentamientos       : SUBSET FilasAsentamiento,
              OficinasPostales    : SUBSET FilasOficina,
              AsentamientoOficina : SUBSET FilasRelacion]

Tablas == {"Estados", "Municipios", "Ciudades", "TiposAsentamiento",
           "Asentamientos", "OficinasPostales", "AsentamientoOficina"}

SinFilas == [Estados |-> {}, Municipios |-> {}, Ciudades |-> {}, TiposAsentamiento |-> {},
             Asentamientos |-> {}, OficinasPostales |-> {}, AsentamientoOficina |-> {}]

-----------------------------------------------------------------------------
(* The declared constraints.  A settlement refers to a number of           *)
(* municipality, not to a municipality of a state.                         *)

CiudadesValidas(cs, estados) ==
    /\ \A k \in cs : k.c_estado \in estados
    /\ \A k, q \in cs :
          \/ k.c_cve_ciudad = q.c_cve_ciudad
          \/ k.d_ciudad = q.d_ciudad /\ k.c_estado = q.c_estado
          => k = q

TiposValidos(tipos) ==
    \A u, v \in tipos :
       u.c_tipo_asenta = v.c_tipo_asenta \/ u.d_tipo_asenta = v.d_tipo_asenta => u = v

AsentamientosValidos(as, tipos, ms) ==
    /\ \A a \in as : /\ \E u \in tipos : u.c_tipo_asenta = a.c_tipo_asenta
                     /\ \E m \in ms : m.c_mnpio = a.c_mnpio
    /\ \A a, b \in as :
          \/ a.id_asenta_cpcons = b.id_asenta_cpcons
          \/ a.d_codigo = b.d_codigo /\ a.c_mnpio = b.c_mnpio
          => a = b

OficinasValidas(os, cs) ==
    /\ \A o \in os : \E k \in cs : k.c_cve_ciudad = o.c_cve_ciudad
    /\ \A o, q \in os :
          \/ o.c_oficina = q.c_oficina
          \/ o.d_CP = q.d_CP /\ o.c_cve_ciudad = q.c_cve_ciudad
          => o = q

RelacionValida(rs, as, os) ==
    \A r \in rs : /\ \E a \in as : a.id_asenta_cpcons = r.id_asenta_cpcons
                  /\ \E o \in os : o.c_oficina = r.c_oficina

Restricciones(c) ==
    /\ \A m \in c.Municipios : m.c_estado \in c.Estados
    /\ CiudadesValidas(c.Ciudades, c.Estados)
    /\ TiposValidos(c.TiposAsentamiento)
    /\ AsentamientosValidos(c.Asentamientos, c.TiposAsentamiento, c.Municipios)
    /\ OficinasValidas(c.OficinasPostales, c.Ciudades)
    /\ RelacionValida(c.AsentamientoOficina, c.Asentamientos, c.OficinasPostales)

-----------------------------------------------------------------------------
(* What the migrations select from the flat table P. *)

Positivo(n) == n # NULL /\ n > 0

ConTexto(t) == t \notin {Vacio, NULL}

(* TRIM of a column that may be blank or NULL.                             *)
Podar(t) == IF ConTexto(t) THEN Podado[t] ELSE t

EstadosDe(P) ==
    {f.c_estado : f \in {g \in P : Positivo(g.c_estado) /\ "d_estado" \notin g.nulos}}

(* Mutant: one municipality of each number.                                *)
MunicipiosDe_PorNumero(P) ==
    LET gs == {g \in P : /\ Positivo(g.c_mnpio) /\ Positivo(g.c_estado)
                         /\ "d_mnpio" \notin g.nulos}
    IN  {[c_mnpio |-> f.c_mnpio, c_estado |-> f.c_estado] :
            f \in {g \in gs : \A q \in gs : q.c_mnpio = g.c_mnpio => g.c_estado <= q.c_estado}}

MunicipiosDe(P) ==
    {[c_mnpio |-> f.c_mnpio, c_estado |-> f.c_estado] :
        f \in {g \in P : /\ Positivo(g.c_mnpio) /\ Positivo(g.c_estado)
                         /\ "d_mnpio" \notin g.nulos}}

ConTipo(f) == Positivo(f.c_tipo_asenta) /\ f.d_tipo_asenta # NULL

TiposDe(P) ==
    {[c_tipo_asenta |-> f.c_tipo_asenta, d_tipo_asenta |-> f.d_tipo_asenta] :
        f \in {g \in P : ConTipo(g)}}

(* MigrarSepomexACodigoPostal. *)
FilaCiudad(f) == [c_cve_ciudad |-> f.c_cve_ciudad, d_ciudad |-> f.d_ciudad,
                  c_estado |-> f.c_estado]

ConCiudad(f) == Positivo(f.c_cve_ciudad) /\ ConTexto(f.d_ciudad) /\ Positivo(f.c_estado)

CiudadesDe(P) == {FilaCiudad(f) : f \in {g \in P : ConCiudad(g)}}

ConAsentamiento(f) ==
    /\ Positivo(f.id_asenta_cpcons) /\ f.d_asenta # NULL /\ f.d_codigo # NULL
    /\ Positivo(f.c_tipo_asenta) /\ Positivo(f.c_mnpio)

Zona(z) == IF z = "Rural" THEN "Rural" ELSE "Urbano"

AsentamientosDe(P) ==
    {[id_asenta_cpcons |-> f.id_asenta_cpcons, d_asenta |-> f.d_asenta,
      d_codigo |-> f.d_codigo, d_zona |-> Zona(f.d_zona),
      c_tipo_asenta |-> f.c_tipo_asenta, c_mnpio |-> f.c_mnpio] :
        f \in {g \in P : ConAsentamiento(g)}}

ConOficina(f) == Positivo(f.c_oficina) /\ ConTexto(f.d_cp) /\ Positivo(f.c_cve_ciudad)

OficinasDe(P) ==
    {[c_oficina |-> f.c_oficina, d_CP |-> f.d_cp, c_cve_ciudad |-> f.c_cve_ciudad] :
        f \in {g \in P : ConOficina(g)}}

RelacionDe(P) ==
    {[id_asenta_cpcons |-> f.id_asenta_cpcons, c_oficina |-> f.c_oficina] :
        f \in {g \in P : Positivo(g.id_asenta_cpcons) /\ Positivo(g.c_oficina)}}

(* MigrarSepomexLimpio: the same with names trimmed and without the        *)
(* condition on the state, and the temporary table, whose rows are         *)
(* numbered one by one; ROW_NUMBER is stood for by the place of the row.   *)
TiposLimpiosDe(P) ==
    {[c_tipo_asenta |-> f.c_tipo_asenta, d_tipo_asenta |-> Podar(f.d_tipo_asenta)] :
        f \in {g \in P : ConTipo(g)}}

CandidatasDe(P) ==
    {[c_cve_ciudad |-> f.c_cve_ciudad, d_ciudad |-> Podar(f.d_ciudad), c_estado |-> f.c_estado] :
        f \in {g \in P : /\ Positivo(g.c_cve_ciudad) /\ ConTexto(g.d_ciudad)
                         /\ g.c_estado # NULL}}

Limpiado(t) == IF ConTexto(t) THEN Recorta[t] ELSE t

ZonaLimpia(z) == IF z = "sangrada" THEN "Rural" ELSE Zona(z)

FilasTemporal == [nuevo_id : Nat, d_asenta : Nombres, d_codigo : Codigos \ Largos,
                  d_zona : {"Urbano", "Rural"}, c_tipo_asenta : Numeros,
                  c_mnpio : Numeros, c_oficina : Anulable,
                  d_cp_limpio : (Codigos \ Largos) \cup {Vacio, NULL},
                  c_cve_ciudad : Anulable]

(* Mutant: the code goes into the temporary table uncut.                   *)
FilaTemporal_SinLimpiar(f) ==
    [nuevo_id |-> f.fila, d_asenta |-> Podar(f.d_asenta), d_codigo |-> f.d_codigo,
     d_zona |-> ZonaLimpia(f.d_zona), c_tipo_asenta |-> f.c_tipo_asenta,
     c_mnpio |-> f.c_mnpio, c_oficina |-> f.c_oficina,
     d_cp_limpio |-> Limpiado(f.d_cp), c_cve_ciudad |-> f.c_cve_ciudad]

FilaTemporal(f) ==
    [nuevo_id |-> f.fila, d_asenta |-> Podar(f.d_asenta), d_codigo |-> Limpiado(f.d_codigo),
     d_zona |-> ZonaLimpia(f.d_zona), c_tipo_asenta |-> f.c_tipo_asenta,
     c_mnpio |-> f.c_mnpio, c_oficina |-> f.c_oficina,
     d_cp_limpio |-> Limpiado(f.d_cp), c_cve_ciudad |-> f.c_cve_ciudad]

TemporalDe(P) ==
    {FilaTemporal(f) : f \in {g \in P : /\ ConTexto(g.d_asenta) /\ ConTexto(g.d_codigo)
                                        /\ g.c_tipo_asenta # NULL /\ g.c_mnpio # NULL}}

(* What the last three statements select from the temporary table.         *)
LimpiosDe(temp) ==
    {[id_asenta_cpcons |-> t.nuevo_id, d_asenta |-> t.d_asenta, d_codigo |-> t.d_codigo,
      d_zona |-> t.d_zona, c_tipo_asenta |-> t.c_tipo_asenta, c_mnpio |-> t.c_mnpio] : t \in temp}

OficinasLimpiasDe(temp, cs) ==
    {[c_oficina |-> t.c_oficina, d_CP |-> t.d_cp_limpio, c_cve_ciudad |-> t.c_cve_ciudad] :
        t \in {u \in temp : /\ Positivo(u.c_oficina) /\ ConTexto(u.d_cp_limpio)
                            /\ \E k \in cs : k.c_cve_ciudad = u.c_cve_ciudad}}

RelacionLimpiaDe(temp, os) ==
    {[id_asenta_cpcons |-> t.nuevo_id, c_oficina |-> t.c_oficina] :
        t \in {u \in temp : \E o \in os : o.c_oficina = u.c_oficina}}

-----------------------------------------------------------------------------
(* The searches (Scrip_de_CodigosPostales.sql) in the catalogue c: a       *)
(* settlement, joined with every municipality of its number and the state  *)
(* of that municipality.                                                   *)

Hallazgos(c, as) ==
    {[a |-> p[1], c_mnpio |-> p[2].c_mnpio, c_estado |-> p[2].c_estado] :
        p \in {q \in as \X c.Municipios :
                  /\ \E u \in c.TiposAsentamiento : u.c_tipo_asenta = q[1].c_tipo_asenta
                  /\ q[1].c_mnpio = q[2].c_mnpio
                  /\ q[2].c_estado \in c.Estados}}

(* LIKE: a name contains itself and what TRIM leaves of it, and the empty  *)
(* text.                                                                   *)
Contiene(t, nombre) == nombre \in {t, Podar(t), Vacio}

(* The first parameter is VARCHAR(100).                                    *)
BuscarColoniasPorNombre(c, nombre, estado) ==
    {h \in Hallazgos(c, {a \in c.Asentamientos :
                            nombre \notin NombresLargos /\ Contiene(a.d_asenta, nombre)}) :
        estado = NULL \/ h.c_estado = estado}

(* The parameter is VARCHAR(5).                                            *)
BuscarPorCodigoPostal(c, codigo) ==
    Hallazgos(c, {a \in c.Asentamientos : codigo \notin Largos /\ a.d_codigo = codigo})
=============================================================================
