--------------------------- MODULE MigracionProofs ---------------------------
(***************************************************************************)
(* Proofs about Migracion, for any sessions, flat tables and codes: its    *)
(* type invariant, the inductive invariant IInv, that it implements        *)
(* Catalogo, that a completed migration loses no complete settlement and   *)
(* moves no post office, that calls may be repeated, that the locks keep   *)
(* migrations apart, and when a search answers what the flat table says.   *)
(***************************************************************************)
EXTENDS Migracion, TLAPS

-----------------------------------------------------------------------------
(* What the migrations select has the types of the tables it goes to. *)

LEMMA NulosFuera == /\ NULL \notin Nat /\ NULL # Vacio
                    /\ NULL \notin Nombres /\ NULL \notin Codigos
                    /\ Vacio \notin Nombres /\ Vacio \notin Codigos
                    /\ Numeros \subseteq Nat
  BY TextosAssumption, MaxNumeroAssumption DEF Numeros

LEMMA NumeroPositivo ==
    ASSUME NEW n \in Anulable, Positivo(n) \/ n # NULL
    PROVE  n \in Numeros
  BY NulosFuera DEF Anulable, Positivo

LEMMA ZonaTipo == \A z : /\ Zona(z) \in {"Urbano", "Rural"}
                         /\ ZonaLimpia(z) \in {"Urbano", "Rural"}
  BY DEF Zona, ZonaLimpia

(* What TRIM and the cleaning of codes answer.                             *)
LEMMA TextosLimpios ==
    ASSUME NEW t
    PROVE  /\ t \in Nombres => Podar(t) \in Nombres /\ Podar(Podar(t)) = Podar(t)
           /\ t \notin Nombres /\ t \in {Vacio, NULL} => Podar(t) = t
           /\ t \in Codigos => Limpiado(t) = Recorta[t] /\ Limpiado(t) \in Codigos \ Largos
           /\ t \in {Vacio, NULL} => Limpiado(t) = t
  <1>1. t \in Nombres => Podar(t) \in Nombres /\ Podar(Podar(t)) = Podar(t)
    BY NulosFuera, PodadoAssumption DEF Podar, ConTexto
  <1>2. t \in {Vacio, NULL} => Podar(t) = t /\ Limpiado(t) = t
    BY DEF Podar, Limpiado, ConTexto
  <1>3. t \in Codigos => Limpiado(t) = Recorta[t] /\ Limpiado(t) \in Codigos \ Largos
    BY NulosFuera, RecortaAssumption DEF Limpiado, ConTexto
  <1> QED
    BY <1>1, <1>2, <1>3

(* Settlements and offices as they are selected, before the columns bound  *)
(* the length of their texts.                                              *)
AsentamientosSinMedida ==
    [id_asenta_cpcons : Nat, d_asenta : Nombres \cup {Vacio}, d_codigo : Codigos \cup {Vacio},
     d_zona : {"Urbano", "Rural"}, c_tipo_asenta : Numeros, c_mnpio : Numeros]

OficinasSinMedida == [c_oficina : Numeros, d_CP : Codigos, c_cve_ciudad : Numeros]

LEMMA Miden ==
    ASSUME NEW filas
    PROVE  /\ filas \in SUBSET AsentamientosSinMedida /\ Caben(filas, "Asentamientos") =>
                 filas \in SUBSET FilasAsentamiento
           /\ filas \in SUBSET OficinasSinMedida /\ Caben(filas, "OficinasPostales") =>
                 filas \in SUBSET FilasOficina
  <1>1. ASSUME NEW k, NEW tabla, CabeCodigo(k, tabla) PROVE k \notin MuyLargos
    BY <1>1, RecortaAssumption DEF CabeCodigo
  <1>2. ASSUME filas \in SUBSET AsentamientosSinMedida, Caben(filas, "Asentamientos")
        PROVE  filas \in SUBSET FilasAsentamiento
    <2>1. \A a \in filas : a.d_asenta \notin NombresLargos /\ a.d_codigo \notin MuyLargos
      BY <1>1, <1>2 DEF Caben
    <2> QED
      BY <1>2, <2>1 DEF AsentamientosSinMedida, FilasAsentamiento
  <1>3. ASSUME filas \in SUBSET OficinasSinMedida, Caben(filas, "OficinasPostales")
        PROVE  filas \in SUBSET FilasOficina
    <2>1. \A o \in filas : o.d_CP \notin MuyLargos
      BY <1>1, <1>3 DEF Caben
    <2> QED
      BY <1>3, <2>1 DEF OficinasSinMedida, FilasOficina
  <1> QED
    BY <1>2, <1>3

(* The statements of MigrarSepomexACodigoPostal, and those the two         *)
(* migrations share.                                                       *)
LEMMA TiposDelOriginal ==
    ASSUME NEW P \in Planas
    PROVE  /\ EstadosDe(P) \in SUBSET Numeros
           /\ MunicipiosDe(P) \in SUBSET FilasMunicipio
           /\ CiudadesDe(P) \in SUBSET FilasCiudad
           /\ TiposDe(P) \in SUBSET FilasTipo
           /\ AsentamientosDe(P) \in SUBSET AsentamientosSinMedida
           /\ OficinasDe(P) \in SUBSET OficinasSinMedida
           /\ RelacionDe(P) \in SUBSET FilasRelacion
  <1>1. P \subseteq FilasPlanas
    BY PlanasAssumption
  <1> SUFFICES ASSUME NEW f \in P
        PROVE  /\ f \in FilasPlanas
               /\ \A n \in {f.c_estado, f.c_mnpio, f.c_cve_ciudad, f.c_tipo_asenta,
                            f.id_asenta_cpcons, f.c_oficina} :
                     Positivo(n) => n \in Numeros /\ n \in Nat
               /\ ConTexto(f.d_ciudad) => f.d_ciudad \in Nombres
               /\ ConTexto(f.d_cp) => f.d_cp \in Codigos
               /\ f.d_asenta # NULL => f.d_asenta \in Nombres \cup {Vacio}
               /\ f.d_tipo_asenta # NULL => f.d_tipo_asenta \in Nombres \cup {Vacio}
               /\ f.d_codigo # NULL => f.d_codigo \in Codigos \cup {Vacio}
    <2>1. EstadosDe(P) \in SUBSET Numeros
      BY DEF EstadosDe
    <2>2. TiposDe(P) \in SUBSET FilasTipo
      BY DEF TiposDe, FilasTipo, ConTipo
    <2>3. MunicipiosDe(P) \in SUBSET FilasMunicipio
      BY DEF MunicipiosDe, FilasMunicipio
    <2>4. CiudadesDe(P) \in SUBSET FilasCiudad
      BY DEF CiudadesDe, FilasCiudad, FilaCiudad, ConCiudad
    <2>5. AsentamientosDe(P) \in SUBSET AsentamientosSinMedida
      BY ZonaTipo DEF AsentamientosDe, AsentamientosSinMedida, ConAsentamiento
    <2>6. OficinasDe(P) \in SUBSET OficinasSinMedida
      BY DEF OficinasDe, OficinasSinMedida, ConOficina
    <2>7. RelacionDe(P) \in SUBSET FilasRelacion
      BY DEF RelacionDe, FilasRelacion
    <2> QED
      BY <2>1, <2>2, <2>3, <2>4, <2>5, <2>6, <2>7
  <1>2. f \in FilasPlanas
    BY <1>1
  <1>3. \A n \in {f.c_estado, f.c_mnpio, f.c_cve_ciudad, f.c_tipo_asenta,
                  f.id_asenta_cpcons, f.c_oficina} : n \in Anulable
    BY <1>2 DEF FilasPlanas
  <1>4. \A n \in Anulable : Positivo(n) => n \in Numeros /\ n \in Nat
    BY NumeroPositivo, NulosFuera
  <1> QED
    BY <1>2, <1>3, <1>4 DEF FilasPlanas, ConTexto

(* A row of the temporary table holds codes of five characters.            *)
LEMMA TipoTemporal ==
    ASSUME NEW P \in Planas
    PROVE  TemporalDe(P) \in SUBSET FilasTemporal
  <1> SUFFICES ASSUME NEW f \in P, ConTexto(f.d_asenta), ConTexto(f.d_codigo),
                      f.c_tipo_asenta # NULL, f.c_mnpio # NULL
               PROVE  FilaTemporal(f) \in FilasTemporal
    BY DEF TemporalDe
  <1>1. f \in FilasPlanas
    BY PlanasAssumption
  <1>2. f.c_tipo_asenta \in Numeros /\ f.c_mnpio \in Numeros
    BY <1>1, NumeroPositivo DEF FilasPlanas
  <1>3. f.d_asenta \in Nombres /\ f.d_codigo \in Codigos
    BY <1>1 DEF FilasPlanas, ConTexto
  <1>4. Limpiado(f.d_codigo) \in Codigos \ Largos /\ Podar(f.d_asenta) \in Nombres
    BY <1>3, TextosLimpios
  <1>5. Limpiado(f.d_cp) \in (Codigos \ Largos) \cup {Vacio, NULL}
    <2>1. f.d_cp \in Codigos \cup {Vacio, NULL}
      BY <1>1 DEF FilasPlanas
    <2> QED
      BY <2>1, TextosLimpios
  <1>6. f.fila \in Nat /\ f.c_oficina \in Anulable /\ f.c_cve_ciudad \in Anulable
    BY <1>1 DEF FilasPlanas
  <1> QED
    BY <1>2, <1>4, <1>5, <1>6, ZonaTipo DEF FilaTemporal, FilasTemporal

(* The statements of MigrarSepomexLimpio.                                  *)
LEMMA TiposDelLimpio ==
    ASSUME NEW P \in Planas, NEW temp \in SUBSET FilasTemporal,
           NEW cs \in SUBSET FilasCiudad, NEW os \in SUBSET FilasOficina
    PROVE  /\ CandidatasDe(P) \in SUBSET FilasCiudad
           /\ TiposLimpiosDe(P) \in SUBSET FilasTipo
           /\ LimpiosDe(temp) \in SUBSET AsentamientosSinMedida
           /\ OficinasLimpiasDe(temp, cs) \in SUBSET OficinasSinMedida
           /\ RelacionLimpiaDe(temp, os) \in SUBSET FilasRelacion
  <1>1. CandidatasDe(P) \in SUBSET FilasCiudad
    <2> SUFFICES ASSUME NEW f \in P, Positivo(f.c_cve_ciudad), ConTexto(f.d_ciudad),
                        f.c_estado # NULL
                 PROVE  [c_cve_ciudad |-> f.c_cve_ciudad, d_ciudad |-> Podar(f.d_ciudad),
                         c_estado |-> f.c_estado] \in FilasCiudad
      BY DEF CandidatasDe
    <2>1. f \in FilasPlanas
      BY PlanasAssumption
    <2>2. f.c_cve_ciudad \in Numeros /\ f.c_estado \in Numeros
      BY <2>1, NumeroPositivo DEF FilasPlanas
    <2>3. f.d_ciudad \in Nombres
      BY <2>1 DEF FilasPlanas, ConTexto
    <2>4. Podar(f.d_ciudad) \in Nombres
      BY <2>3, TextosLimpios
    <2> QED
      BY <2>2, <2>4 DEF FilasCiudad
  <1>2. TiposLimpiosDe(P) \in SUBSET FilasTipo
    <2> SUFFICES ASSUME NEW f \in P, ConTipo(f)
                 PROVE  [c_tipo_asenta |-> f.c_tipo_asenta,
                         d_tipo_asenta |-> Podar(f.d_tipo_asenta)] \in FilasTipo
      BY DEF TiposLimpiosDe
    <2>1. f \in FilasPlanas
      BY PlanasAssumption
    <2>2. f.c_tipo_asenta \in Numeros
      BY <2>1, NumeroPositivo DEF FilasPlanas, ConTipo
    <2>3. f.d_tipo_asenta \in Nombres \cup {Vacio}
      BY <2>1 DEF FilasPlanas, ConTipo
    <2>4. Podar(f.d_tipo_asenta) \in Nombres \cup {Vacio}
      BY <2>3, TextosLimpios
    <2> QED
      BY <2>2, <2>4 DEF FilasTipo
  <1>3. LimpiosDe(temp) \in SUBSET AsentamientosSinMedida
    BY NulosFuera DEF LimpiosDe, FilasTemporal, AsentamientosSinMedida
  <1>4. OficinasLimpiasDe(temp, cs) \in SUBSET OficinasSinMedida
    <2> SUFFICES ASSUME NEW t \in temp, Positivo(t.c_oficina), ConTexto(t.d_cp_limpio),
                        NEW k \in cs, k.c_cve_ciudad = t.c_cve_ciudad
                 PROVE  [c_oficina |-> t.c_oficina, d_CP |-> t.d_cp_limpio,
                         c_cve_ciudad |-> t.c_cve_ciudad] \in OficinasSinMedida
      BY DEF OficinasLimpiasDe
    <2>1. t.c_oficina \in Numeros
      BY NumeroPositivo DEF FilasTemporal
    <2>2. t.d_cp_limpio \in Codigos
      BY DEF FilasTemporal, ConTexto
    <2>3. t.c_cve_ciudad \in Numeros
      BY DEF FilasCiudad
    <2> QED
      BY <2>1, <2>2, <2>3 DEF OficinasSinMedida
  <1>5. RelacionLimpiaDe(temp, os) \in SUBSET FilasRelacion
    BY DEF RelacionLimpiaDe, FilasTemporal, FilasOficina, FilasRelacion
  <1> QED
    BY <1>1, <1>2, <1>3, <1>4, <1>5

-----------------------------------------------------------------------------
(* Vista and the two ways a call ends. *)

LEMMA SinFilasVacias ==
    /\ SinFilas \in Catalogos
    /\ Restricciones(SinFilas)
  BY DEF SinFilas, Catalogos, Restricciones, CiudadesValidas, TiposValidos, AsentamientosValidos,
         OficinasValidas, RelacionValida

LEMMA VistaCatalogo ==
    ASSUME TypeOK, NEW s \in Sesiones
    PROVE  /\ Vista(s) \in Catalogos
           /\ vaciadas[s] = {} /\ propio[s] = SinFilas => Vista(s) = catalogo
           /\ vaciadas[s] = Tablas => Vista(s) = propio[s]
  <1>1. catalogo \in Catalogos /\ propio[s] \in Catalogos
    BY DEF TypeOK
  <1>2. Vista(s) \in Catalogos
    BY <1>1 DEF Vista, Queda, Catalogos
  <1>3. ASSUME vaciadas[s] = {}, propio[s] = SinFilas PROVE Vista(s) = catalogo
    BY <1>1, <1>3 DEF Vista, Queda, Catalogos, SinFilas
  <1>4. ASSUME vaciadas[s] = Tablas PROVE Vista(s) = propio[s]
    BY <1>1, <1>4 DEF Vista, Queda, Catalogos, Tablas
  <1> QED
    BY <1>2, <1>3, <1>4

(* Nothing is pending in a session whose call has ended.                   *)
Terminada(s) ==
    /\ \E r \in {"completada", "error", "corte"} : Responde(s, r)
    /\ CierraTx(s)

LEMMA TerminadaTipo ==
    ASSUME TypeOK, NEW s \in Sesiones, Terminada(s)
    PROVE  /\ pc' \in [Sesiones -> Sentencias \cup {"libre"}]
           /\ vaciadas' \in [Sesiones -> SUBSET Tablas]
           /\ propio' \in [Sesiones -> Catalogos]
           /\ candados' \in [Sesiones -> SUBSET Candados]
           /\ ret' \in [Sesiones -> {"", "completada", "error", "corte"}]
  BY SinFilasVacias DEF TypeOK, Terminada, Responde, CierraTx

LEMMA TerminadaAvanzada ==
    ASSUME TypeOK, NEW s \in Sesiones, Terminada(s)
    PROVE  Avanzada(s)'
  <1>1. pc'[s] = "libre" /\ vaciadas'[s] = {} /\ propio'[s] = SinFilas /\ candados'[s] = {}
    BY DEF TypeOK, Terminada, Responde, CierraTx
  <1> USE DEF TrasVaciar, TrasEstados, TrasMunicipios, TrasCiudades, TrasTipos,
              TrasAsentamientos, TrasOficinas, TrasRelacion
  <1>2. Vaciando(s)' /\ Bloqueada(s)'
    BY <1>1 DEF Vaciando, Bloqueada, Borra
  <1>3. Comunes(s)' /\ DeOriginal(s)' /\ DeLimpio(s)'
    BY <1>1 DEF Comunes, DeOriginal, DeLimpio
  <1>4. SinLlenar(s)'
    BY <1>1 DEF SinLlenar, SinFilas
  <1> QED
    BY <1>2, <1>3, <1>4 DEF Avanzada

(* What another session does leaves a session where it was.                *)
LEMMA AvanzadaAjena ==
    ASSUME TypeOK, NEW t \in Sesiones, Avanzada(t), plana' = plana,
           proc'[t] = proc[t], pc'[t] = pc[t], vaciadas'[t] = vaciadas[t],
           propio'[t] = propio[t], candados'[t] = candados[t], temporal'[t] = temporal[t]
    PROVE  Avanzada(t)'
  <1>1. Vaciando(t)' /\ Bloqueada(t)' /\ Comunes(t)'
    BY DEF Avanzada, Vaciando, Bloqueada, Comunes
  <1>2. DeOriginal(t)'
    BY DEF Avanzada, DeOriginal
  <1>3. DeLimpio(t)'
    BY DEF Avanzada, DeLimpio
  <1>4. SinLlenar(t)'
    BY DEF Avanzada, SinLlenar
  <1> QED
    BY <1>1, <1>2, <1>3, <1>4 DEF Avanzada

LEMMA SqlExceptionTipo ==
    ASSUME TypeOK, NEW s \in Sesiones, SqlException(s), Fijo
    PROVE  TypeOK' /\ Terminada(s) /\ UNCHANGED catalogo
           /\ \A t \in Sesiones \ {s} : temporal'[t] = temporal[t]
  <1>1. Terminada(s) /\ UNCHANGED catalogo
    BY DEF SqlException, Rollback, Terminada
  <1>2. /\ temporal' \in [Sesiones -> (SUBSET FilasTemporal) \cup {NULL}]
        /\ \A t \in Sesiones \ {s} : temporal'[t] = temporal[t]
    <2>1. temporal \in [Sesiones -> (SUBSET FilasTemporal) \cup {NULL}]
      BY DEF TypeOK
    <2>2. CASE temporal[s] = NULL
      BY <2>1, <2>2 DEF SqlException, QuedaTemporal
    <2>3. CASE temporal[s] # NULL
      <3>1. PICK filas \in {temporal[s], {}} : temporal' = [temporal EXCEPT ![s] = filas]
        BY <2>3 DEF SqlException, QuedaTemporal
      <3>2. filas \in SUBSET FilasTemporal
        BY <2>1, <2>3, <3>1
      <3> QED
        BY <2>1, <3>1, <3>2
    <2> QED
      BY <2>2, <2>3
  <1> QED
    BY <1>1, <1>2, TerminadaTipo DEF TypeOK, Fijo

LEMMA SqlExceptionAvance ==
    ASSUME TypeOK, Avance, NEW s \in Sesiones, SqlException(s), Fijo
    PROVE  Avance'
  <1>1. Terminada(s) /\ \A t \in Sesiones \ {s} : temporal'[t] = temporal[t]
    BY SqlExceptionTipo
  <1>2. ASSUME NEW t \in Sesiones \ {s} PROVE Avanzada(t)'
    <2>1. /\ pc'[t] = pc[t] /\ vaciadas'[t] = vaciadas[t]
          /\ propio'[t] = propio[t] /\ candados'[t] = candados[t]
      BY <1>1 DEF Terminada, Responde, CierraTx, TypeOK
    <2> QED
      BY <1>1, <2>1, AvanzadaAjena DEF Avance, Fijo
  <1> QED
    BY <1>1, <1>2, TerminadaAvanzada DEF Avance

-----------------------------------------------------------------------------
(* The call, and the DELETE statements. *)

LEMMA MigrarPaso ==
    ASSUME TypeOK, Avance, NEW s \in Sesiones, NEW p \in Procedimientos, Migrar(s, p)
    PROVE  UNCHANGED <<plana, catalogo>> /\ TypeOK' /\ Avance'
  <1>1. pc[s] = "libre" /\ vaciadas[s] = {} /\ propio[s] = SinFilas
    BY DEF Migrar, Avance, Avanzada, Vaciando, Bloqueada, TrasVaciar, TrasEstados,
           TrasMunicipios, TrasCiudades, TrasTipos, TrasAsentamientos, TrasOficinas,
           TrasRelacion
  <1>2. UNCHANGED <<plana, catalogo>>
    BY <1>1, VistaCatalogo DEF Migrar, Commit
  <1>3. TypeOK'
    <2>1. pc' \in [Sesiones -> Sentencias \cup {"libre"}]
      BY DEF TypeOK, Migrar, Sentencias, Borra
    <2>2. /\ vaciadas' \in [Sesiones -> SUBSET Tablas]
          /\ propio' \in [Sesiones -> Catalogos]
          /\ candados' \in [Sesiones -> SUBSET Candados]
      BY SinFilasVacias DEF TypeOK, Migrar, Commit, CierraTx
    <2>3. /\ proc' \in [Sesiones -> Procedimientos]
          /\ ret' \in [Sesiones -> {"", "completada", "error", "corte"}]
      BY DEF TypeOK, Migrar
    <2> QED
      BY <1>2, <2>1, <2>2, <2>3 DEF TypeOK, Migrar
  <1>4. Avanzada(s)'
    <2>1. pc'[s] = "d_relacion" /\ vaciadas'[s] = {} /\ propio'[s] = SinFilas
      BY DEF TypeOK, Migrar, Commit, CierraTx
    <2> USE DEF TrasVaciar, TrasEstados, TrasMunicipios, TrasCiudades, TrasTipos,
                TrasAsentamientos, TrasOficinas, TrasRelacion
    <2>2. Vaciando(s)' /\ Bloqueada(s)'
      BY <2>1 DEF Vaciando, Bloqueada, Borra, YaVaciadas
    <2>3. Comunes(s)' /\ DeOriginal(s)' /\ DeLimpio(s)'
      BY <2>1 DEF Comunes, DeOriginal, DeLimpio
    <2>4. SinLlenar(s)'
      BY <2>1 DEF SinLlenar, SinFilas
    <2> QED
      BY <2>2, <2>3, <2>4 DEF Avanzada
  <1>5. ASSUME NEW t \in Sesiones \ {s} PROVE Avanzada(t)'
    <2>1. /\ proc'[t] = proc[t] /\ pc'[t] = pc[t] /\ vaciadas'[t] = vaciadas[t]
          /\ propio'[t] = propio[t] /\ candados'[t] = candados[t]
          /\ temporal'[t] = temporal[t]
      BY DEF Migrar, Commit, CierraTx, TypeOK
    <2> QED
      BY <1>2, <2>1, AvanzadaAjena DEF Avance
  <1> QED
    BY <1>2, <1>3, <1>4, <1>5 DEF Avance

LEMMA PideTipo ==
    ASSUME NEW s \in Sesiones
    PROVE  /\ Pide(s) \in SUBSET Candados
           /\ pc[s] \in DOMAIN Inserta => <<"sepomex", "S">> \in Pide(s)
  <1>1. CASE pc[s] \in DOMAIN Borra
    BY <1>1 DEF Pide, Candados, Borra, Inserta, Tablas
  <1>2. CASE pc[s] \in DOMAIN Inserta
    BY <1>2 DEF Pide, Candados, Borra, Inserta, Tablas
  <1>3. CASE pc[s] \notin DOMAIN Borra /\ pc[s] \notin DOMAIN Inserta
    BY <1>3 DEF Pide
  <1> QED
    BY <1>1, <1>2, <1>3

(* Each DELETE adds its table to those emptied so far; after the last, all *)
(* seven are.                                                              *)
LEMMA BorraPaso ==
    ASSUME TypeOK, Avance, NEW s \in Sesiones, NEW en \in DOMAIN Borra,
           NEW sigue \in DOMAIN Borra \cup {"i_estados"}, BorraTabla(s, en, sigue),
           YaVaciadas[en] \cup {Borra[en]}
              = IF sigue = "i_estados" THEN Tablas ELSE YaVaciadas[sigue]
    PROVE  UNCHANGED <<plana, catalogo>> /\ TypeOK' /\ Avance'
  <1> USE DEF TrasVaciar, TrasEstados, TrasMunicipios, TrasCiudades, TrasTipos,
              TrasAsentamientos, TrasOficinas, TrasRelacion
  <1>1. pc[s] = en /\ vaciadas[s] = YaVaciadas[en] /\ propio[s] = SinFilas
    <2>1. pc[s] = en
      BY DEF BorraTabla
    <2> QED
      BY <2>1 DEF Avance, Avanzada, Vaciando, Bloqueada, Borra
  <1>2. CASE SqlException(s) /\ Fijo
    BY <1>2, SqlExceptionTipo, SqlExceptionAvance DEF Fijo
  <1>3. CASE /\ vaciadas' = [vaciadas EXCEPT ![s] = @ \cup {Borra[en]}]
             /\ propio'   = [propio EXCEPT ![s][Borra[en]] = {}]
             /\ candados' = [candados EXCEPT ![s] = @ \cup Pide(s)]
             /\ Sigue(s, sigue)
             /\ UNCHANGED <<catalogo, temporal>>
             /\ Fijo
    <2>1. Borra[en] \in Tablas /\ sigue \in Sentencias
      <3>1. Borra[en] \in Tablas
        BY DEF Borra, Tablas
      <3>2. "i_estados" \in DOMAIN Inserta
        BY DEF Inserta
      <3> QED
        BY <3>1, <3>2 DEF Sentencias
    <2>2. [SinFilas EXCEPT ![Borra[en]] = {}] = SinFilas
      <3>1. SinFilas = [t \in Tablas |-> {}]
        BY DEF SinFilas, Tablas
      <3> QED
        BY <2>1, <3>1
    <2>3. propio' = [propio EXCEPT ![s] = SinFilas]
      BY <1>1, <1>3, <2>2
    <2>4. /\ pc'[s] = sigue /\ propio'[s] = SinFilas
          /\ vaciadas'[s] = YaVaciadas[en] \cup {Borra[en]}
      BY <1>1, <1>3, <2>3 DEF TypeOK, Sigue
    <2>5. TypeOK'
      <3>1. candados' \in [Sesiones -> SUBSET Candados]
        BY <1>3, PideTipo DEF TypeOK
      <3>2. vaciadas' \in [Sesiones -> SUBSET Tablas]
        BY <1>3, <2>1 DEF TypeOK
      <3>3. pc' \in [Sesiones -> Sentencias \cup {"libre"}]
        BY <1>3, <2>1 DEF TypeOK, Sigue
      <3>4. propio' \in [Sesiones -> Catalogos]
        BY <2>3, SinFilasVacias DEF TypeOK
      <3> QED
        BY <1>3, <3>1, <3>2, <3>3, <3>4 DEF TypeOK, Fijo, Sigue
    <2>6. Avanzada(s)'
      <3>1. Vaciando(s)' /\ Bloqueada(s)'
        BY <2>4, SinFilasVacias DEF Vaciando, Bloqueada, Borra
      <3>2. Comunes(s)' /\ DeOriginal(s)' /\ DeLimpio(s)'
        BY <2>4 DEF Comunes, DeOriginal, DeLimpio, Borra
      <3>3. SinLlenar(s)'
        BY <2>4 DEF SinLlenar, SinFilas
      <3> QED
        BY <3>1, <3>2, <3>3 DEF Avanzada
    <2>7. ASSUME NEW t \in Sesiones \ {s} PROVE Avanzada(t)'
      <3>1. /\ proc'[t] = proc[t] /\ pc'[t] = pc[t] /\ vaciadas'[t] = vaciadas[t]
            /\ propio'[t] = propio[t] /\ candados'[t] = candados[t]
            /\ temporal'[t] = temporal[t]
        BY <1>3 DEF Sigue, Fijo, TypeOK
      <3> QED
        BY <1>3, <3>1, AvanzadaAjena DEF Avance, Fijo
    <2> QED
      BY <1>3, <2>5, <2>6, <2>7 DEF Avance, Fijo
  <1> QED
    BY <1>2, <1>3 DEF BorraTabla

LEMMA VaciaPaso ==
    ASSUME TypeOK, Avance, NEW s \in Sesiones, Vacia(s)
    PROVE  UNCHANGED <<plana, catalogo>> /\ TypeOK' /\ Avance'
  <1> DEFINE A(en) == YaVaciadas[en] \cup {Borra[en]}
  <1>1. /\ A("d_relacion") = YaVaciadas["d_oficinas"]
        /\ A("d_oficinas") = YaVaciadas["d_asentamientos"]
        /\ A("d_asentamientos") = YaVaciadas["d_tipos"]
        /\ A("d_tipos") = YaVaciadas["d_ciudades"]
        /\ A("d_ciudades") = YaVaciadas["d_municipios"]
        /\ A("d_municipios") = YaVaciadas["d_estados"]
        /\ A("d_estados") = Tablas
    BY DEF YaVaciadas, Borra, Tablas
  <1>2. {"d_relacion", "d_oficinas", "d_asentamientos", "d_tipos", "d_ciudades",
         "d_municipios", "d_estados"} = DOMAIN Borra
    BY DEF Borra
  <1>3. CASE BorraTabla(s, "d_relacion", "d_oficinas")
    BY <1>1, <1>2, <1>3, BorraPaso
  <1>4. CASE BorraTabla(s, "d_oficinas", "d_asentamientos")
    BY <1>1, <1>2, <1>4, BorraPaso
  <1>5. CASE BorraTabla(s, "d_asentamientos", "d_tipos")
    BY <1>1, <1>2, <1>5, BorraPaso
  <1>6. CASE BorraTabla(s, "d_tipos", "d_ciudades")
    BY <1>1, <1>2, <1>6, BorraPaso
  <1>7. CASE BorraTabla(s, "d_ciudades", "d_municipios")
    BY <1>1, <1>2, <1>7, BorraPaso
  <1>8. CASE BorraTabla(s, "d_municipios", "d_estados")
    BY <1>1, <1>2, <1>8, BorraPaso
  <1>9. CASE BorraTabla(s, "d_estados", "i_estados")
    BY <1>1, <1>2, <1>9, BorraPaso
  <1> QED
    BY <1>3, <1>4, <1>5, <1>6, <1>7, <1>8, <1>9 DEF Vacia

-----------------------------------------------------------------------------
(* The INSERT statements. *)

TipoFilas ==
    [Estados |-> Numeros, Municipios |-> FilasMunicipio, Ciudades |-> FilasCiudad,
     TiposAsentamiento |-> FilasTipo, Asentamientos |-> FilasAsentamiento,
     OficinasPostales |-> FilasOficina, AsentamientoOficina |-> FilasRelacion]

(* What an INSERT that finds no error does: v are the session's rows after *)
(* it.                                                                     *)
Insertado(s, tabla, filas, v, sigue) ==
    /\ v = [propio[s] EXCEPT ![tabla] = @ \cup filas]
    /\ v \in Catalogos
    /\ Restricciones(v)
    /\ propio' = [propio EXCEPT ![s] = v]
    /\ candados' = [candados EXCEPT ![s] = @ \cup Pide(s)]
    /\ Sigue(s, sigue)
    /\ UNCHANGED <<catalogo, vaciadas, temporal>>
    /\ Fijo

LEMMA InsertaFilasPaso ==
    ASSUME TypeOK, Avance, NEW s \in Sesiones, NEW en \in DOMAIN Inserta, NEW filas, NEW sigue,
           Caben(filas, Inserta[en]) => filas \in SUBSET TipoFilas[Inserta[en]],
           InsertaFilas(s, en, filas, sigue)
    PROVE  \/ SqlException(s) /\ Fijo
           \/ \E v \in Catalogos : Insertado(s, Inserta[en], filas, v, sigue)
  <1> DEFINE v == [propio[s] EXCEPT ![Inserta[en]] = @ \cup filas]
  <1>1. pc[s] = en /\ en \in TrasVaciar
    BY DEF InsertaFilas, Inserta, TrasVaciar, TrasEstados, TrasMunicipios, TrasCiudades,
           TrasTipos, TrasAsentamientos, TrasOficinas, TrasRelacion
  <1>2. Vista(s) = propio[s]
    BY <1>1, VistaCatalogo DEF Avance, Avanzada, Bloqueada
  <1>3. ASSUME Caben(filas, Inserta[en]) PROVE v \in Catalogos
    <2>1. propio[s] \in Catalogos
      BY DEF TypeOK
    <2>2. ASSUME NEW c \in Catalogos, NEW tabla \in Tablas, NEW fs \in SUBSET TipoFilas[tabla]
          PROVE  [c EXCEPT ![tabla] = @ \cup fs] \in Catalogos
      BY DEF Catalogos, TipoFilas, Tablas
    <2>3. Inserta[en] \in Tablas
      BY DEF Inserta, Tablas
    <2> QED
      BY <1>3, <2>1, <2>2, <2>3
  <1>4. CASE Restricciones(v) /\ Caben(filas, Inserta[en])
    <2>1. Insertado(s, Inserta[en], filas, v, sigue)
      BY <1>2, <1>3, <1>4 DEF InsertaFilas, Insertado
    <2> QED
      BY <1>3, <1>4, <2>1
  <1>5. CASE ~(Restricciones(v) /\ Caben(filas, Inserta[en]))
    BY <1>2, <1>5 DEF InsertaFilas
  <1> QED
    BY <1>4, <1>5

LEMMA InsertadoTipo ==
    ASSUME TypeOK, NEW s \in Sesiones, NEW tabla \in Tablas, NEW filas, NEW v,
           NEW sigue \in Sentencias, Insertado(s, tabla, filas, v, sigue)
    PROVE  /\ TypeOK'
           /\ pc'[s] = sigue /\ propio'[s] = v /\ vaciadas'[s] = vaciadas[s]
           /\ temporal'[s] = temporal[s] /\ proc'[s] = proc[s]
           /\ candados'[s] = candados[s] \cup Pide(s)
           /\ \A q \in Tablas : v[q] = IF q = tabla THEN propio[s][q] \cup filas
                                                  ELSE propio[s][q]
  <1>1. pc' \in [Sesiones -> Sentencias \cup {"libre"}] /\ pc'[s] = sigue
    BY DEF TypeOK, Insertado, Sigue
  <1>2. propio' \in [Sesiones -> Catalogos] /\ propio'[s] = v
    BY DEF TypeOK, Insertado
  <1>3. /\ candados' \in [Sesiones -> SUBSET Candados]
        /\ candados'[s] = candados[s] \cup Pide(s)
    BY PideTipo DEF TypeOK, Insertado
  <1>4. TypeOK' /\ vaciadas'[s] = vaciadas[s] /\ temporal'[s] = temporal[s] /\ proc'[s] = proc[s]
    BY <1>1, <1>2, <1>3 DEF TypeOK, Insertado, Sigue, Fijo
  <1>5. propio[s] \in Catalogos
    BY DEF TypeOK
  <1>6. \A c \in Catalogos : DOMAIN c = Tablas
    BY DEF Catalogos, Tablas
  <1>7. \A q \in Tablas : v[q] = IF q = tabla THEN propio[s][q] \cup filas ELSE propio[s][q]
    BY <1>5, <1>6 DEF Insertado
  <1> QED
    BY <1>1, <1>2, <1>3, <1>4, <1>7

(* The other sessions are where they were; this one is at the next         *)
(* statement, with the flat table locked and the constraints satisfied.    *)
LEMMA InsertadoAvance ==
    ASSUME TypeOK, Avance, NEW s \in Sesiones, NEW tabla \in Tablas, NEW filas, NEW v,
           pc[s] \in DOMAIN Inserta, NEW sigue \in Sentencias,
           sigue \in TrasEstados, Insertado(s, tabla, filas, v, sigue)
    PROVE  /\ Vaciando(s)' /\ Bloqueada(s)'
           /\ \A t \in Sesiones \ {s} : Avanzada(t)'
  <1> USE DEF TrasVaciar, TrasEstados, TrasMunicipios, TrasCiudades, TrasTipos,
              TrasAsentamientos, TrasOficinas, TrasRelacion
  <1>1. /\ pc'[s] = sigue /\ propio'[s] = v /\ vaciadas'[s] = vaciadas[s]
        /\ candados'[s] = candados[s] \cup Pide(s)
    BY InsertadoTipo
  <1>2. pc[s] \in TrasVaciar /\ <<"sepomex", "S">> \in Pide(s)
    BY PideTipo DEF Inserta
  <1>3. vaciadas[s] = Tablas
    BY <1>2 DEF Avance, Avanzada, Bloqueada
  <1>4. Vaciando(s)'
    BY <1>1 DEF Vaciando, Borra
  <1>5. Bloqueada(s)'
    BY <1>1, <1>2, <1>3 DEF Bloqueada, Insertado
  <1>6. ASSUME NEW t \in Sesiones \ {s} PROVE Avanzada(t)'
    <2>1. /\ plana' = plana /\ proc'[t] = proc[t] /\ pc'[t] = pc[t]
          /\ vaciadas'[t] = vaciadas[t] /\ propio'[t] = propio[t]
          /\ candados'[t] = candados[t] /\ temporal'[t] = temporal[t]
      BY DEF Insertado, Sigue, Fijo, TypeOK
    <2> QED
      BY <2>1, AvanzadaAjena DEF Avance
  <1> QED
    BY <1>4, <1>5, <1>6

(* So of each INSERT it remains to show what its rows are.                 *)
LEMMA InsertaPaso ==
    ASSUME TypeOK, Avance, NEW s \in Sesiones, NEW en \in DOMAIN Inserta, NEW filas,
           NEW tabla, tabla = Inserta[en],
           NEW sigue \in Sentencias, sigue \in TrasEstados,
           Caben(filas, tabla) => filas \in SUBSET TipoFilas[tabla],
           InsertaFilas(s, en, filas, sigue),
           \A v \in Catalogos :
              /\ plana' = plana /\ pc'[s] = sigue /\ propio'[s] = v
              /\ proc'[s] = proc[s] /\ temporal'[s] = temporal[s]
              /\ \A q \in Tablas : v[q] = IF q = tabla THEN propio[s][q] \cup filas
                                                      ELSE propio[s][q]
              => Comunes(s)' /\ DeOriginal(s)' /\ DeLimpio(s)' /\ SinLlenar(s)'
    PROVE  UNCHANGED <<plana, catalogo>> /\ TypeOK' /\ Avance'
  <1>1. CASE SqlException(s) /\ Fijo
    BY <1>1, SqlExceptionTipo, SqlExceptionAvance DEF Fijo
  <1>2. ASSUME NEW v \in Catalogos, Insertado(s, tabla, filas, v, sigue)
        PROVE  UNCHANGED <<plana, catalogo>> /\ TypeOK' /\ Avance'
    <2>1. tabla \in Tablas
      BY DEF Inserta, Tablas
    <2>2. pc[s] \in DOMAIN Inserta
      BY DEF InsertaFilas
    <2>3. TypeOK'
      BY <1>2, <2>1, InsertadoTipo
    <2>4. Vaciando(s)' /\ Bloqueada(s)' /\ \A t \in Sesiones \ {s} : Avanzada(t)'
      BY <1>2, <2>1, <2>2, InsertadoAvance
    <2>5. plana' = plana
      BY <1>2 DEF Insertado, Fijo
    <2>6. /\ pc'[s] = sigue /\ propio'[s] = v /\ proc'[s] = proc[s]
          /\ temporal'[s] = temporal[s]
          /\ \A q \in Tablas : v[q] = IF q = tabla THEN propio[s][q] \cup filas
                                                  ELSE propio[s][q]
      <3>1. /\ pc'[s] = sigue /\ propio'[s] = v /\ proc'[s] = proc[s]
            /\ temporal'[s] = temporal[s]
        BY <1>2, <2>1, InsertadoTipo
      <3>2. \A q \in Tablas : v[q] = IF q = tabla THEN propio[s][q] \cup filas
                                                    ELSE propio[s][q]
        BY <1>2, <2>1, InsertadoTipo
      <3> QED
        BY <3>1, <3>2
    <2>7. Comunes(s)' /\ DeOriginal(s)' /\ DeLimpio(s)' /\ SinLlenar(s)'
      BY <2>5, <2>6
    <2>8. Avanzada(s)'
      BY <2>4, <2>7 DEF Avanzada
    <2> QED
      BY <1>2, <2>3, <2>4, <2>8 DEF Avance, Insertado, Fijo
  <1> QED
    BY <1>1, <1>2, InsertaFilasPaso

LEMMA Nombradas ==
    /\ "Estados" \in Tablas /\ "Municipios" \in Tablas /\ "Ciudades" \in Tablas
    /\ "TiposAsentamiento" \in Tablas /\ "Asentamientos" \in Tablas
    /\ "OficinasPostales" \in Tablas /\ "AsentamientoOficina" \in Tablas
    /\ "i_estados" \in DOMAIN Inserta /\ "i_municipios" \in DOMAIN Inserta
    /\ "i_ciudades" \in DOMAIN Inserta /\ "i_tipos" \in DOMAIN Inserta
    /\ "i_asentamientos" \in DOMAIN Inserta /\ "i_oficinas" \in DOMAIN Inserta
    /\ "i_relacion" \in DOMAIN Inserta
  BY DEF Tablas, Inserta

LEMMA Siguientes ==
    ASSUME NEW sigue \in {"i_municipios", "i_ciudades", "i_tipos", "i_asentamientos",
                          "i_oficinas", "i_relacion", "t_quita", "t_crea", "t_suelta", "commit"}
    PROVE  sigue \in Sentencias /\ sigue \in TrasEstados
  <1>1. sigue \in Sentencias
    BY Nombradas DEF Sentencias
  <1> QED
    BY <1>1 DEF TrasEstados, TrasMunicipios, TrasCiudades, TrasTipos,
                TrasAsentamientos, TrasOficinas, TrasRelacion

LEMMA EstadosPaso ==
    ASSUME TypeOK, Avance, NEW s \in Sesiones, InsertaEstados(s)
    PROVE  UNCHANGED <<plana, catalogo>> /\ TypeOK' /\ Avance'
  <1>1. pc[s] = "i_estados" /\ Inserta["i_estados"] = "Estados"
    BY DEF InsertaEstados, InsertaFilas, Inserta
  <1>2. PICK filas : filas = EstadosDe(plana)
    OBVIOUS
  <1>3. InsertaFilas(s, "i_estados", filas, "i_municipios")
    <2>1. Seleccion(s) = filas
      BY <1>1, <1>2 DEF Seleccion
    <2> QED
      BY <2>1 DEF InsertaEstados, InsertaFilas, Caben
  <1>4. filas \in SUBSET TipoFilas["Estados"]
    BY <1>2, TiposDelOriginal DEF TipoFilas, TypeOK
  <1>5. propio[s] = SinFilas
    BY <1>1 DEF Avance, Avanzada, Bloqueada, TrasEstados, TrasMunicipios, TrasCiudades,
                TrasTipos, TrasAsentamientos, TrasOficinas, TrasRelacion
  <1>6. \A v \in Catalogos :
           /\ plana' = plana /\ pc'[s] = "i_municipios" /\ propio'[s] = v
           /\ proc'[s] = proc[s] /\ temporal'[s] = temporal[s]
           /\ \A q \in Tablas : v[q] = IF q = "Estados" THEN propio[s][q] \cup filas
                                                       ELSE propio[s][q]
           => Comunes(s)' /\ DeOriginal(s)' /\ DeLimpio(s)' /\ SinLlenar(s)'
    <2> SUFFICES ASSUME NEW v \in Catalogos, plana' = plana, pc'[s] = "i_municipios",
                        propio'[s] = v,
                        \A q \in Tablas : v[q] = IF q = "Estados" THEN propio[s][q] \cup filas
                                                                 ELSE propio[s][q]
                 PROVE  Comunes(s)' /\ DeOriginal(s)' /\ DeLimpio(s)' /\ SinLlenar(s)'
      OBVIOUS
    <2>1. /\ v.Estados = filas /\ v.Municipios = {} /\ v.Ciudades = {}
          /\ v.TiposAsentamiento = {} /\ v.Asentamientos = {} /\ v.OficinasPostales = {}
          /\ v.AsentamientoOficina = {}
      BY <1>5, Nombradas DEF SinFilas
    <2> QED
      BY <1>2, <2>1
      DEF Comunes, DeOriginal, DeLimpio, SinLlenar, TrasEstados, TrasMunicipios,
          TrasCiudades, TrasTipos, TrasAsentamientos, TrasOficinas, TrasRelacion
  <1> QED
    BY <1>1, <1>3, <1>4, <1>6, Nombradas, Siguientes, InsertaPaso

LEMMA MunicipiosPaso ==
    ASSUME TypeOK, Avance, NEW s \in Sesiones, InsertaMunicipios(s)
    PROVE  UNCHANGED <<plana, catalogo>> /\ TypeOK' /\ Avance'
  <1>1. pc[s] = "i_municipios" /\ Inserta["i_municipios"] = "Municipios"
    BY DEF InsertaMunicipios, InsertaFilas, Inserta
  <1>2. Comunes(s) /\ DeOriginal(s) /\ DeLimpio(s) /\ SinLlenar(s)
    BY DEF Avance, Avanzada
  <1>3. PICK filas : /\ filas = MunicipiosDe(plana)
                     /\ InsertaFilas(s, "i_municipios", filas, "i_ciudades")
    <2>1. PICK filas : filas = MunicipiosDe(plana)
      OBVIOUS
    <2>2. Seleccion(s) = filas
      BY <1>1, <2>1 DEF Seleccion
    <2> QED
      BY <2>1, <2>2 DEF InsertaMunicipios, InsertaFilas, Caben
  <1>4. filas \in SUBSET TipoFilas["Municipios"]
    BY <1>3, TiposDelOriginal DEF TipoFilas, TypeOK
  <1>5. \A v \in Catalogos :
           /\ plana' = plana /\ pc'[s] = "i_ciudades" /\ propio'[s] = v
           /\ proc'[s] = proc[s] /\ temporal'[s] = temporal[s]
           /\ \A q \in Tablas : v[q] = IF q = "Municipios" THEN propio[s][q] \cup filas
                                ELSE propio[s][q]
           => Comunes(s)' /\ DeOriginal(s)' /\ DeLimpio(s)' /\ SinLlenar(s)'
    <2> SUFFICES ASSUME NEW v \in Catalogos, plana' = plana, pc'[s] = "i_ciudades", propio'[s] = v,
                        proc'[s] = proc[s], temporal'[s] = temporal[s],
                        \A q \in Tablas :
                           v[q] = IF q = "Municipios" THEN propio[s][q] \cup filas
                                  ELSE propio[s][q]
                 PROVE  Comunes(s)' /\ DeOriginal(s)' /\ DeLimpio(s)' /\ SinLlenar(s)'
      OBVIOUS
    <2>1. /\ v.Estados = propio[s].Estados /\ v.Ciudades = propio[s].Ciudades
          /\ v.TiposAsentamiento = propio[s].TiposAsentamiento /\ v.Asentamientos = propio[s].Asentamientos
          /\ v.OficinasPostales = propio[s].OficinasPostales /\ v.AsentamientoOficina = propio[s].AsentamientoOficina
      BY Nombradas
    <2>2. v.Municipios = filas
      <3>1. propio[s].Municipios = {}
        BY <1>1, <1>2
        DEF SinLlenar, TrasEstados, TrasMunicipios,
          TrasCiudades, TrasTipos, TrasAsentamientos, TrasOficinas, TrasRelacion
      <3> QED
        BY <3>1, Nombradas
    <2>3. Comunes(s)' /\ SinLlenar(s)'
      BY <1>1, <1>2, <1>3, <2>1, <2>2
      DEF Comunes, SinLlenar, TrasEstados, TrasMunicipios,
          TrasCiudades, TrasTipos, TrasAsentamientos, TrasOficinas, TrasRelacion
    <2>4. DeOriginal(s)'
      BY <1>1, <1>2, <1>3, <2>1, <2>2
      DEF DeOriginal, TrasEstados, TrasMunicipios,
          TrasCiudades, TrasTipos, TrasAsentamientos, TrasOficinas, TrasRelacion
    <2>5. DeLimpio(s)'
      BY <1>1, <1>2, <1>3, <2>1, <2>2
      DEF DeLimpio, TrasEstados, TrasMunicipios,
          TrasCiudades, TrasTipos, TrasAsentamientos, TrasOficinas, TrasRelacion
    <2> QED
      BY <2>3, <2>4, <2>5
  <1>6. "i_municipios" \in DOMAIN Inserta /\ InsertaFilas(s, "i_municipios", filas, "i_ciudades")
    BY <1>3, Nombradas
  <1>7. "i_ciudades" \in Sentencias /\ "i_ciudades" \in TrasEstados
    BY Siguientes
  <1> QED
    BY <1>1, <1>4, <1>5, <1>6, <1>7, InsertaPaso

LEMMA CiudadesPaso ==
    ASSUME TypeOK, Avance, NEW s \in Sesiones, InsertaCiudades(s)
    PROVE  UNCHANGED <<plana, catalogo>> /\ TypeOK' /\ Avance'
  <1>1. pc[s] = "i_ciudades" /\ Inserta["i_ciudades"] = "Ciudades"
    BY DEF InsertaCiudades, InsertaFilas, Inserta
  <1>2. Comunes(s) /\ DeOriginal(s) /\ DeLimpio(s) /\ SinLlenar(s)
    BY DEF Avance, Avanzada
  <1>3. PICK filas :
           /\ proc[s] = "original" => filas = CiudadesDe(plana)
           /\ proc[s] = "limpio" => filas \in CiudadesIgnorando(CandidatasDe(plana), propio[s].Estados)
           /\ InsertaFilas(s, "i_ciudades", filas, "i_tipos")
    <2>1. CASE proc[s] = "limpio"
      <3>1. Seleccion(s) = CandidatasDe(plana)
        BY <1>1, <2>1 DEF Seleccion
      <3> QED
        BY <2>1, <3>1 DEF InsertaCiudades
    <2>2. CASE proc[s] = "original"
      <3>1. PICK filas : filas = CiudadesDe(plana)
        OBVIOUS
      <3>2. Seleccion(s) = filas
        BY <1>1, <2>2, <3>1 DEF Seleccion
      <3>3. InsertaFilas(s, "i_ciudades", Seleccion(s), "i_tipos")
        BY <2>2 DEF InsertaCiudades
      <3> QED
        BY <2>2, <3>1, <3>2, <3>3 DEF InsertaFilas, Caben
    <2> QED
      BY <2>1, <2>2 DEF TypeOK, Procedimientos
  <1>4. filas \in SUBSET TipoFilas["Ciudades"]
    <2>1. CiudadesDe(plana) \in SUBSET FilasCiudad /\ CandidatasDe(plana) \in SUBSET FilasCiudad
      BY TiposDelOriginal, TiposDelLimpio DEF TypeOK
    <2>2. filas \in SUBSET FilasCiudad
      BY <1>3, <2>1 DEF CiudadesIgnorando, TypeOK, Procedimientos
    <2> QED
      BY <2>2 DEF TipoFilas
  <1>5. \A v \in Catalogos :
           /\ plana' = plana /\ pc'[s] = "i_tipos" /\ propio'[s] = v
           /\ proc'[s] = proc[s] /\ temporal'[s] = temporal[s]
           /\ \A q \in Tablas : v[q] = IF q = "Ciudades" THEN propio[s][q] \cup filas
                                ELSE propio[s][q]
           => Comunes(s)' /\ DeOriginal(s)' /\ DeLimpio(s)' /\ SinLlenar(s)'
    <2> SUFFICES ASSUME NEW v \in Catalogos, plana' = plana, pc'[s] = "i_tipos", propio'[s] = v,
                        proc'[s] = proc[s], temporal'[s] = temporal[s],
                        \A q \in Tablas :
                           v[q] = IF q = "Ciudades" THEN propio[s][q] \cup filas
                                  ELSE propio[s][q]
                 PROVE  Comunes(s)' /\ DeOriginal(s)' /\ DeLimpio(s)' /\ SinLlenar(s)'
      OBVIOUS
    <2>1. /\ v.Estados = propio[s].Estados /\ v.Municipios = propio[s].Municipios
          /\ v.TiposAsentamiento = propio[s].TiposAsentamiento /\ v.Asentamientos = propio[s].Asentamientos
          /\ v.OficinasPostales = propio[s].OficinasPostales /\ v.AsentamientoOficina = propio[s].AsentamientoOficina
      BY Nombradas
    <2>2. v.Ciudades = filas
      <3>1. propio[s].Ciudades = {}
        BY <1>1, <1>2
        DEF SinLlenar, TrasEstados, TrasMunicipios,
          TrasCiudades, TrasTipos, TrasAsentamientos, TrasOficinas, TrasRelacion
      <3> QED
        BY <3>1, Nombradas
    <2>3. Comunes(s)' /\ SinLlenar(s)'
      BY <1>1, <1>2, <1>3, <2>1, <2>2
      DEF Comunes, SinLlenar, TrasEstados, TrasMunicipios,
          TrasCiudades, TrasTipos, TrasAsentamientos, TrasOficinas, TrasRelacion
    <2>4. DeOriginal(s)'
      BY <1>1, <1>2, <1>3, <2>1, <2>2
      DEF DeOriginal, TrasEstados, TrasMunicipios,
          TrasCiudades, TrasTipos, TrasAsentamientos, TrasOficinas, TrasRelacion
    <2>5. DeLimpio(s)'
      BY <1>1, <1>2, <1>3, <2>1, <2>2
      DEF DeLimpio, TrasEstados, TrasMunicipios,
          TrasCiudades, TrasTipos, TrasAsentamientos, TrasOficinas, TrasRelacion
    <2> QED
      BY <2>3, <2>4, <2>5
  <1> QED
    BY <1>1, <1>3, <1>4, <1>5, Nombradas, Siguientes, InsertaPaso

LEMMA TiposPaso ==
    ASSUME TypeOK, Avance, NEW s \in Sesiones, InsertaTipos(s)
    PROVE  UNCHANGED <<plana, catalogo>> /\ TypeOK' /\ Avance'
  <1>1. pc[s] = "i_tipos" /\ Inserta["i_tipos"] = "TiposAsentamiento"
    BY DEF InsertaTipos, InsertaFilas, Inserta
  <1>2. Comunes(s) /\ DeOriginal(s) /\ DeLimpio(s) /\ SinLlenar(s)
    BY DEF Avance, Avanzada
  <1>3. PICK filas, sigue :
           /\ proc[s] = "original" => filas = TiposDe(plana)
           /\ proc[s] = "limpio" => filas = TiposLimpiosDe(plana)
           /\ sigue = IF proc[s] = "limpio" THEN "t_quita" ELSE "i_asentamientos"
           /\ InsertaFilas(s, "i_tipos", filas, sigue)
    <2>1. PICK filas, sigue :
             /\ filas = Seleccion(s)
             /\ sigue = IF proc[s] = "limpio" THEN "t_quita" ELSE "i_asentamientos"
      OBVIOUS
    <2>2. proc[s] = "original" => filas = TiposDe(plana)
      BY <1>1, <2>1 DEF Seleccion
    <2>3. proc[s] = "limpio" => filas = TiposLimpiosDe(plana)
      BY <1>1, <2>1 DEF Seleccion
    <2>4. InsertaFilas(s, "i_tipos", filas, sigue)
      BY <2>1 DEF InsertaTipos
    <2> QED
      BY <2>1, <2>2, <2>3, <2>4
  <1>4. filas \in SUBSET TipoFilas["TiposAsentamiento"]
    <2>1. TiposDe(plana) \in SUBSET FilasTipo /\ TiposLimpiosDe(plana) \in SUBSET FilasTipo
      BY TiposDelOriginal, TiposDelLimpio DEF TypeOK
    <2>2. filas \in SUBSET FilasTipo
      BY <1>3, <2>1 DEF TypeOK, Procedimientos
    <2> QED
      BY <2>2 DEF TipoFilas
  <1>5. \A v \in Catalogos :
           /\ plana' = plana /\ pc'[s] = sigue /\ propio'[s] = v
           /\ proc'[s] = proc[s] /\ temporal'[s] = temporal[s]
           /\ \A q \in Tablas : v[q] = IF q = "TiposAsentamiento" THEN propio[s][q] \cup filas
                                ELSE propio[s][q]
           => Comunes(s)' /\ DeOriginal(s)' /\ DeLimpio(s)' /\ SinLlenar(s)'
    <2> SUFFICES ASSUME NEW v \in Catalogos, plana' = plana, pc'[s] = sigue, propio'[s] = v,
                        proc'[s] = proc[s], temporal'[s] = temporal[s],
                        \A q \in Tablas :
                           v[q] = IF q = "TiposAsentamiento" THEN propio[s][q] \cup filas
                                  ELSE propio[s][q]
                 PROVE  Comunes(s)' /\ DeOriginal(s)' /\ DeLimpio(s)' /\ SinLlenar(s)'
      OBVIOUS
    <2>1. /\ v.Estados = propio[s].Estados /\ v.Municipios = propio[s].Municipios
          /\ v.Ciudades = propio[s].Ciudades /\ v.Asentamientos = propio[s].Asentamientos
          /\ v.OficinasPostales = propio[s].OficinasPostales /\ v.AsentamientoOficina = propio[s].AsentamientoOficina
      BY Nombradas
    <2>2. v.TiposAsentamiento = filas
      <3>1. propio[s].TiposAsentamiento = {}
        BY <1>1, <1>2
        DEF SinLlenar, TrasEstados, TrasMunicipios,
          TrasCiudades, TrasTipos, TrasAsentamientos, TrasOficinas, TrasRelacion
      <3> QED
        BY <3>1, Nombradas
    <2>3. Comunes(s)' /\ SinLlenar(s)'
      BY <1>1, <1>2, <1>3, <2>1, <2>2
      DEF Comunes, SinLlenar, TrasEstados, TrasMunicipios,
          TrasCiudades, TrasTipos, TrasAsentamientos, TrasOficinas, TrasRelacion
    <2>4. DeOriginal(s)'
      BY <1>1, <1>2, <1>3, <2>1, <2>2
      DEF DeOriginal, TrasEstados, TrasMunicipios,
          TrasCiudades, TrasTipos, TrasAsentamientos, TrasOficinas, TrasRelacion
    <2>5. DeLimpio(s)'
      BY <1>1, <1>2, <1>3, <2>1, <2>2
      DEF DeLimpio, TrasEstados, TrasMunicipios,
          TrasCiudades, TrasTipos, TrasAsentamientos, TrasOficinas, TrasRelacion
    <2> QED
      BY <2>3, <2>4, <2>5
  <1>6. sigue \in Sentencias /\ sigue \in TrasEstados
    BY <1>3, Siguientes
  <1>7. "i_tipos" \in DOMAIN Inserta /\ InsertaFilas(s, "i_tipos", filas, sigue)
    BY <1>3, Nombradas
  <1> QED
    BY <1>1, <1>4, <1>5, <1>6, <1>7, InsertaPaso

LEMMA AsentamientosPaso ==
    ASSUME TypeOK, Avance, NEW s \in Sesiones, InsertaAsentamientos(s)
    PROVE  UNCHANGED <<plana, catalogo>> /\ TypeOK' /\ Avance'
  <1>1. pc[s] = "i_asentamientos" /\ Inserta["i_asentamientos"] = "Asentamientos"
    BY DEF InsertaAsentamientos, InsertaFilas, Inserta
  <1>2. Comunes(s) /\ DeOriginal(s) /\ DeLimpio(s) /\ SinLlenar(s)
    BY DEF Avance, Avanzada
  <1>3. PICK filas :
           /\ proc[s] = "original" => filas = AsentamientosDe(plana)
           /\ proc[s] = "limpio" => filas = LimpiosDe(TemporalDe(plana))
           /\ InsertaFilas(s, "i_asentamientos", filas, "i_oficinas")
    <2>1. PICK filas : filas = Seleccion(s)
      OBVIOUS
    <2>2. proc[s] = "original" => filas = AsentamientosDe(plana)
      BY <1>1, <2>1 DEF Seleccion
    <2>3. proc[s] = "limpio" => filas = LimpiosDe(TemporalDe(plana))
      BY <1>1, <1>2, <2>1 DEF Seleccion, DeLimpio
    <2>4. InsertaFilas(s, "i_asentamientos", filas, "i_oficinas")
      BY <2>1 DEF InsertaAsentamientos, InsertaFilas, Caben
    <2> QED
      BY <2>2, <2>3, <2>4
  <1>4. Caben(filas, "Asentamientos") => filas \in SUBSET TipoFilas["Asentamientos"]
    <2>1. /\ AsentamientosDe(plana) \in SUBSET AsentamientosSinMedida
          /\ LimpiosDe(TemporalDe(plana)) \in SUBSET AsentamientosSinMedida
      BY TiposDelOriginal, TiposDelLimpio, TipoTemporal DEF TypeOK
    <2>2. filas \in SUBSET AsentamientosSinMedida
      BY <1>3, <2>1 DEF TypeOK, Procedimientos
    <2> QED
      BY <2>2, Miden DEF TipoFilas
  <1>5. \A v \in Catalogos :
           /\ plana' = plana /\ pc'[s] = "i_oficinas" /\ propio'[s] = v
           /\ proc'[s] = proc[s] /\ temporal'[s] = temporal[s]
           /\ \A q \in Tablas : v[q] = IF q = "Asentamientos" THEN propio[s][q] \cup filas
                                ELSE propio[s][q]
           => Comunes(s)' /\ DeOriginal(s)' /\ DeLimpio(s)' /\ SinLlenar(s)'
    <2> SUFFICES ASSUME NEW v \in Catalogos, plana' = plana, pc'[s] = "i_oficinas", propio'[s] = v,
                        proc'[s] = proc[s], temporal'[s] = temporal[s],
                        \A q \in Tablas :
                           v[q] = IF q = "Asentamientos" THEN propio[s][q] \cup filas
                                  ELSE propio[s][q]
                 PROVE  Comunes(s)' /\ DeOriginal(s)' /\ DeLimpio(s)' /\ SinLlenar(s)'
      OBVIOUS
    <2>1. /\ v.Estados = propio[s].Estados /\ v.Municipios = propio[s].Municipios
          /\ v.Ciudades = propio[s].Ciudades /\ v.TiposAsentamiento = propio[s].TiposAsentamiento
          /\ v.OficinasPostales = propio[s].OficinasPostales /\ v.AsentamientoOficina = propio[s].AsentamientoOficina
      BY Nombradas
    <2>2. v.Asentamientos = filas
      <3>1. propio[s].Asentamientos = {}
        BY <1>1, <1>2
        DEF SinLlenar, TrasEstados, TrasMunicipios,
          TrasCiudades, TrasTipos, TrasAsentamientos, TrasOficinas, TrasRelacion
      <3> QED
        BY <3>1, Nombradas
    <2>3. Comunes(s)' /\ SinLlenar(s)'
      BY <1>1, <1>2, <1>3, <2>1, <2>2
      DEF Comunes, SinLlenar, TrasEstados, TrasMunicipios,
          TrasCiudades, TrasTipos, TrasAsentamientos, TrasOficinas, TrasRelacion
    <2>4. DeOriginal(s)'
      BY <1>1, <1>2, <1>3, <2>1, <2>2
      DEF DeOriginal, TrasEstados, TrasMunicipios,
          TrasCiudades, TrasTipos, TrasAsentamientos, TrasOficinas, TrasRelacion
    <2>5. DeLimpio(s)'
      BY <1>1, <1>2, <1>3, <2>1, <2>2
      DEF DeLimpio, TrasEstados, TrasMunicipios,
          TrasCiudades, TrasTipos, TrasAsentamientos, TrasOficinas, TrasRelacion
    <2> QED
      BY <2>3, <2>4, <2>5
  <1> QED
    BY <1>1, <1>3, <1>4, <1>5, Nombradas, Siguientes, InsertaPaso

LEMMA OficinasPaso ==
    ASSUME TypeOK, Avance, NEW s \in Sesiones, InsertaOficinas(s)
    PROVE  UNCHANGED <<plana, catalogo>> /\ TypeOK' /\ Avance'
  <1>1. pc[s] = "i_oficinas" /\ Inserta["i_oficinas"] = "OficinasPostales"
    BY DEF InsertaOficinas, InsertaFilas, Inserta
  <1>2. Comunes(s) /\ DeOriginal(s) /\ DeLimpio(s) /\ SinLlenar(s)
    BY DEF Avance, Avanzada
  <1>3. PICK filas :
           /\ proc[s] = "original" => filas = OficinasDe(plana)
           /\ proc[s] = "limpio" =>
                 filas \in OficinasIgnorando(
                              OficinasLimpiasDe(TemporalDe(plana), propio[s].Ciudades),
                              propio[s].Ciudades)
           /\ InsertaFilas(s, "i_oficinas", filas, "i_relacion")
    <2>1. CASE proc[s] = "limpio"
      <3>1. Seleccion(s) = OficinasLimpiasDe(TemporalDe(plana), propio[s].Ciudades)
        BY <1>1, <1>2, <2>1 DEF Seleccion, DeLimpio, TrasAsentamientos
      <3> QED
        BY <2>1, <3>1 DEF InsertaOficinas
    <2>2. CASE proc[s] = "original"
      <3>1. PICK filas : filas = OficinasDe(plana)
        OBVIOUS
      <3>2. Seleccion(s) = filas
        BY <1>1, <2>2, <3>1 DEF Seleccion
      <3>3. InsertaFilas(s, "i_oficinas", Seleccion(s), "i_relacion")
        BY <2>2 DEF InsertaOficinas
      <3> QED
        BY <2>2, <3>1, <3>2, <3>3 DEF InsertaFilas, Caben
    <2> QED
      BY <2>1, <2>2 DEF TypeOK, Procedimientos
  <1>4. Caben(filas, "OficinasPostales") => filas \in SUBSET TipoFilas["OficinasPostales"]
    <2>1. propio[s].Ciudades \in SUBSET FilasCiudad
      BY DEF TypeOK, Catalogos
    <2>2. /\ OficinasDe(plana) \in SUBSET OficinasSinMedida
          /\ OficinasLimpiasDe(TemporalDe(plana), propio[s].Ciudades)
                \in SUBSET OficinasSinMedida
      BY <2>1, TiposDelOriginal, TiposDelLimpio, TipoTemporal DEF TypeOK
    <2>3. filas \in SUBSET OficinasSinMedida
      BY <1>3, <2>2 DEF OficinasIgnorando, TypeOK, Procedimientos
    <2> QED
      BY <2>3, Miden DEF TipoFilas
  <1>5. \A v \in Catalogos :
           /\ plana' = plana /\ pc'[s] = "i_relacion" /\ propio'[s] = v
           /\ proc'[s] = proc[s] /\ temporal'[s] = temporal[s]
           /\ \A q \in Tablas : v[q] = IF q = "OficinasPostales" THEN propio[s][q] \cup filas
                                ELSE propio[s][q]
           => Comunes(s)' /\ DeOriginal(s)' /\ DeLimpio(s)' /\ SinLlenar(s)'
    <2> SUFFICES ASSUME NEW v \in Catalogos, plana' = plana, pc'[s] = "i_relacion", propio'[s] = v,
                        proc'[s] = proc[s], temporal'[s] = temporal[s],
                        \A q \in Tablas :
                           v[q] = IF q = "OficinasPostales" THEN propio[s][q] \cup filas
                                  ELSE propio[s][q]
                 PROVE  Comunes(s)' /\ DeOriginal(s)' /\ DeLimpio(s)' /\ SinLlenar(s)'
      OBVIOUS
    <2>1. /\ v.Estados = propio[s].Estados /\ v.Municipios = propio[s].Municipios
          /\ v.Ciudades = propio[s].Ciudades /\ v.TiposAsentamiento = propio[s].TiposAsentamiento
          /\ v.Asentamientos = propio[s].Asentamientos /\ v.AsentamientoOficina = propio[s].AsentamientoOficina
      BY Nombradas
    <2>2. v.OficinasPostales = filas
      <3>1. propio[s].OficinasPostales = {}
        BY <1>1, <1>2
        DEF SinLlenar, TrasEstados, TrasMunicipios,
          TrasCiudades, TrasTipos, TrasAsentamientos, TrasOficinas, TrasRelacion
      <3> QED
        BY <3>1, Nombradas
    <2>3. Comunes(s)' /\ SinLlenar(s)'
      BY <1>1, <1>2, <1>3, <2>1, <2>2
      DEF Comunes, SinLlenar, TrasEstados, TrasMunicipios,
          TrasCiudades, TrasTipos, TrasAsentamientos, TrasOficinas, TrasRelacion
    <2>4. DeOriginal(s)'
      BY <1>1, <1>2, <1>3, <2>1, <2>2
      DEF DeOriginal, TrasEstados, TrasMunicipios,
          TrasCiudades, TrasTipos, TrasAsentamientos, TrasOficinas, TrasRelacion
    <2>5. DeLimpio(s)'
      BY <1>1, <1>2, <1>3, <2>1, <2>2
      DEF DeLimpio, TrasEstados, TrasMunicipios,
          TrasCiudades, TrasTipos, TrasAsentamientos, TrasOficinas, TrasRelacion
    <2> QED
      BY <2>3, <2>4, <2>5
  <1> QED
    BY <1>1, <1>3, <1>4, <1>5, Nombradas, Siguientes, InsertaPaso

LEMMA RelacionPaso ==
    ASSUME TypeOK, Avance, NEW s \in Sesiones, InsertaRelacion(s)
    PROVE  UNCHANGED <<plana, catalogo>> /\ TypeOK' /\ Avance'
  <1>1. pc[s] = "i_relacion" /\ Inserta["i_relacion"] = "AsentamientoOficina"
    BY DEF InsertaRelacion, InsertaFilas, Inserta
  <1>2. Comunes(s) /\ DeOriginal(s) /\ DeLimpio(s) /\ SinLlenar(s)
    BY DEF Avance, Avanzada
  <1>3. PICK filas, sigue :
           /\ proc[s] = "original" => filas = RelacionDe(plana)
           /\ proc[s] = "limpio" =>
                 filas = RelacionLimpiaDe(TemporalDe(plana), propio[s].OficinasPostales)
           /\ sigue = IF proc[s] = "limpio" THEN "t_suelta" ELSE "commit"
           /\ InsertaFilas(s, "i_relacion", filas, sigue)
    <2>1. PICK filas, sigue :
             /\ filas = Seleccion(s)
             /\ sigue = IF proc[s] = "limpio" THEN "t_suelta" ELSE "commit"
      OBVIOUS
    <2>2. proc[s] = "original" => filas = RelacionDe(plana)
      BY <1>1, <2>1 DEF Seleccion
    <2>3. proc[s] = "limpio" =>
             filas = RelacionLimpiaDe(TemporalDe(plana), propio[s].OficinasPostales)
      BY <1>1, <1>2, <2>1 DEF Seleccion, DeLimpio, TrasAsentamientos, TrasOficinas
    <2>4. InsertaFilas(s, "i_relacion", filas, sigue)
      BY <2>1 DEF InsertaRelacion, InsertaFilas, Caben, Sigue
    <2> QED
      BY <2>1, <2>2, <2>3, <2>4
  <1>4. filas \in SUBSET TipoFilas["AsentamientoOficina"]
    <2>1. propio[s].OficinasPostales \in SUBSET FilasOficina
      BY DEF TypeOK, Catalogos
    <2>2. /\ RelacionDe(plana) \in SUBSET FilasRelacion
          /\ RelacionLimpiaDe(TemporalDe(plana), propio[s].OficinasPostales)
                \in SUBSET FilasRelacion
      BY <2>1, TiposDelOriginal, TiposDelLimpio, TipoTemporal DEF TypeOK
    <2>3. filas \in SUBSET FilasRelacion
      BY <1>3, <2>2 DEF TypeOK, Procedimientos
    <2> QED
      BY <2>3 DEF TipoFilas
  <1>5. \A v \in Catalogos :
           /\ plana' = plana /\ pc'[s] = sigue /\ propio'[s] = v
           /\ proc'[s] = proc[s] /\ temporal'[s] = temporal[s]
           /\ \A q \in Tablas : v[q] = IF q = "AsentamientoOficina" THEN propio[s][q] \cup filas
                                ELSE propio[s][q]
           => Comunes(s)' /\ DeOriginal(s)' /\ DeLimpio(s)' /\ SinLlenar(s)'
    <2> SUFFICES ASSUME NEW v \in Catalogos, plana' = plana, pc'[s] = sigue, propio'[s] = v,
                        proc'[s] = proc[s], temporal'[s] = temporal[s],
                        \A q \in Tablas :
                           v[q] = IF q = "AsentamientoOficina" THEN propio[s][q] \cup filas
                                  ELSE propio[s][q]
                 PROVE  Comunes(s)' /\ DeOriginal(s)' /\ DeLimpio(s)' /\ SinLlenar(s)'
      OBVIOUS
    <2>1. /\ v.Estados = propio[s].Estados /\ v.Municipios = propio[s].Municipios
          /\ v.Ciudades = propio[s].Ciudades /\ v.TiposAsentamiento = propio[s].TiposAsentamiento
          /\ v.Asentamientos = propio[s].Asentamientos /\ v.OficinasPostales = propio[s].OficinasPostales
      BY Nombradas
    <2>2. v.AsentamientoOficina = filas
      <3>1. propio[s].AsentamientoOficina = {}
        BY <1>1, <1>2
        DEF SinLlenar, TrasEstados, TrasMunicipios,
          TrasCiudades, TrasTipos, TrasAsentamientos, TrasOficinas, TrasRelacion
      <3> QED
        BY <3>1, Nombradas
    <2>3. Comunes(s)' /\ SinLlenar(s)'
      BY <1>1, <1>2, <1>3, <2>1, <2>2
      DEF Comunes, SinLlenar, TrasEstados, TrasMunicipios,
          TrasCiudades, TrasTipos, TrasAsentamientos, TrasOficinas, TrasRelacion
    <2>4. DeOriginal(s)'
      BY <1>1, <1>2, <1>3, <2>1, <2>2
      DEF DeOriginal, TrasEstados, TrasMunicipios,
          TrasCiudades, TrasTipos, TrasAsentamientos, TrasOficinas, TrasRelacion
    <2>5. DeLimpio(s)'
      BY <1>1, <1>2, <1>3, <2>1, <2>2
      DEF DeLimpio, TrasEstados, TrasMunicipios,
          TrasCiudades, TrasTipos, TrasAsentamientos, TrasOficinas, TrasRelacion
    <2> QED
      BY <2>3, <2>4, <2>5
  <1>6. sigue \in Sentencias /\ sigue \in TrasEstados
    BY <1>3, Siguientes
  <1>7. "i_relacion" \in DOMAIN Inserta /\ InsertaFilas(s, "i_relacion", filas, sigue)
    BY <1>3, Nombradas
  <1> QED
    BY <1>1, <1>4, <1>5, <1>6, <1>7, InsertaPaso

-----------------------------------------------------------------------------
(* The temporary table. *)

(* Only MigrarSepomexLimpio gets to its statements, and they leave what    *)
(* has been inserted as it is.                                             *)
LEMMA TemporalPaso ==
    ASSUME TypeOK, Avance, NEW s \in Sesiones, NEW en, NEW filas, NEW sigue,
           Temporal(s, en, filas, sigue),
           filas \in (SUBSET FilasTemporal) \cup {NULL},
           \/ en = "t_quita" /\ sigue = "t_crea"
           \/ en = "t_crea" /\ sigue = "i_asentamientos" /\ filas = TemporalDe(plana)
           \/ en = "t_suelta" /\ sigue = "commit"
    PROVE  UNCHANGED <<plana, catalogo>> /\ TypeOK' /\ Avance'
  <1>1. sigue \in Sentencias
    BY Siguientes
  <1>2. TypeOK'
    <2>1. pc' \in [Sesiones -> Sentencias \cup {"libre"}]
      BY <1>1 DEF Temporal, Sigue, TypeOK
    <2>2. temporal' \in [Sesiones -> (SUBSET FilasTemporal) \cup {NULL}]
      BY DEF Temporal, TypeOK
    <2> QED
      BY <2>1, <2>2 DEF Temporal, Sigue, Fijo, tx, TypeOK
  <1>3. /\ pc[s] = en /\ pc'[s] = sigue /\ temporal'[s] = filas
        /\ UNCHANGED <<plana, catalogo, proc, vaciadas, propio, candados>>
    BY DEF Temporal, Sigue, Fijo, tx, TypeOK
  <1>4. Avanzada(s)'
    <2> USE DEF TrasVaciar, TrasEstados, TrasMunicipios, TrasCiudades, TrasTipos,
                TrasAsentamientos, TrasOficinas, TrasRelacion
    <2>1. Avanzada(s)
      BY DEF Avance
    <2>2. Vaciando(s)' /\ Bloqueada(s)'
      BY <1>3, <2>1 DEF Avanzada, Vaciando, Bloqueada, Borra
    <2>3. Comunes(s)' /\ SinLlenar(s)'
      BY <1>3, <2>1 DEF Avanzada, Comunes, SinLlenar
    <2>4. DeOriginal(s)'
      BY <1>3, <2>1 DEF Avanzada, DeOriginal
    <2>5. DeLimpio(s)'
      BY <1>3, <2>1 DEF Avanzada, DeLimpio
    <2> QED
      BY <2>2, <2>3, <2>4, <2>5 DEF Avanzada
  <1>5. ASSUME NEW t \in Sesiones \ {s} PROVE Avanzada(t)'
    <2>1. pc'[t] = pc[t] /\ temporal'[t] = temporal[t]
      BY DEF Temporal, Sigue, TypeOK
    <2> QED
      BY <1>3, <2>1, AvanzadaAjena DEF Avance
  <1> QED
    BY <1>2, <1>3, <1>4, <1>5 DEF Avance

LEMMA CreaTemporalPaso ==
    ASSUME TypeOK, Avance, NEW s \in Sesiones, CreaTemporal(s)
    PROVE  UNCHANGED <<plana, catalogo>> /\ TypeOK' /\ Avance'
  <1>1. PICK filas, en, sigue :
           /\ Temporal(s, en, filas, sigue)
           /\ \/ en = "t_quita" /\ sigue = "t_crea" /\ filas = NULL
              \/ en = "t_crea" /\ sigue = "i_asentamientos" /\ filas = TemporalDe(plana)
    <2>1. CASE Temporal(s, "t_quita", NULL, "t_crea")
      BY <2>1
    <2>2. CASE Temporal(s, "t_crea", TemporalDe(plana), "i_asentamientos")
      <3>1. PICK filas : filas = TemporalDe(plana)
        OBVIOUS
      <3>2. Temporal(s, "t_crea", filas, "i_asentamientos")
        BY <2>2, <3>1 DEF Temporal
      <3> QED
        BY <3>1, <3>2
    <2> QED
      BY <2>1, <2>2 DEF CreaTemporal
  <1>2. TemporalDe(plana) \in SUBSET FilasTemporal
    BY TipoTemporal DEF TypeOK
  <1> QED
    BY <1>1, <1>2, TemporalPaso

LEMMA SueltaTemporalPaso ==
    ASSUME TypeOK, Avance, NEW s \in Sesiones, SueltaTemporal(s)
    PROVE  UNCHANGED <<plana, catalogo>> /\ TypeOK' /\ Avance'
  <1>1. PICK en, sigue : Temporal(s, en, NULL, sigue) /\ en = "t_suelta" /\ sigue = "commit"
    BY DEF SueltaTemporal
  <1> QED
    BY <1>1, TemporalPaso

-----------------------------------------------------------------------------
(* The end of a call, and the steps outside it. *)

(* What a migration is about to commit: all seven tables, migrated from    *)
(* the flat table as it is.                                                *)
LEMMA ConfirmaPaso ==
    ASSUME TypeOK, Avance, NEW s \in Sesiones, Confirma(s)
    PROVE  /\ catalogo' = propio[s] /\ pc[s] = "commit" /\ UNCHANGED plana
           /\ Restricciones(catalogo') /\ TypeOK' /\ Avance'
  <1>1. pc[s] = "commit" /\ pc[s] \in TrasVaciar /\ UNCHANGED <<plana, anchas, proc>>
    BY DEF Confirma, Fijo, TrasVaciar, TrasEstados, TrasMunicipios, TrasCiudades, TrasTipos,
           TrasAsentamientos, TrasOficinas, TrasRelacion
  <1>2. vaciadas[s] = Tablas /\ Restricciones(propio[s])
    BY <1>1 DEF Avance, Avanzada, Bloqueada
  <1>3. catalogo' = propio[s]
    BY <1>2, VistaCatalogo DEF Confirma, Commit
  <1>4. Terminada(s)
    BY DEF Confirma, Commit, Terminada
  <1>5. /\ temporal' \in [Sesiones -> (SUBSET FilasTemporal) \cup {NULL}]
        /\ \A t \in Sesiones \ {s} : temporal'[t] = temporal[t]
    BY DEF Confirma, TypeOK
  <1>6. TypeOK'
    BY <1>1, <1>3, <1>4, <1>5, TerminadaTipo DEF TypeOK
  <1>7. ASSUME NEW t \in Sesiones \ {s} PROVE Avanzada(t)'
    <2>1. /\ pc'[t] = pc[t] /\ vaciadas'[t] = vaciadas[t]
          /\ propio'[t] = propio[t] /\ candados'[t] = candados[t]
      BY <1>4 DEF Terminada, Responde, CierraTx, TypeOK
    <2> QED
      BY <1>1, <1>5, <2>1, AvanzadaAjena DEF Avance
  <1> QED
    BY <1>1, <1>2, <1>3, <1>4, <1>6, <1>7, TerminadaAvanzada DEF Avance

LEMMA VencePaso ==
    ASSUME TypeOK, Avance, NEW s \in Sesiones, Vence(s)
    PROVE  UNCHANGED <<plana, catalogo>> /\ TypeOK' /\ Avance'
  BY SqlExceptionTipo, SqlExceptionAvance DEF Vence, Fijo

LEMMA CortePaso ==
    ASSUME TypeOK, Avance, NEW s \in Sesiones, Corte(s)
    PROVE  UNCHANGED <<plana, catalogo>> /\ TypeOK' /\ Avance'
  <1>1. Terminada(s) /\ UNCHANGED <<plana, catalogo, anchas, proc>>
    BY DEF Corte, Rollback, Terminada, Fijo
  <1>2. /\ temporal' \in [Sesiones -> (SUBSET FilasTemporal) \cup {NULL}]
        /\ \A t \in Sesiones \ {s} : temporal'[t] = temporal[t]
    BY DEF Corte, TypeOK
  <1>3. TypeOK'
    BY <1>1, <1>2, TerminadaTipo DEF TypeOK
  <1>4. ASSUME NEW t \in Sesiones \ {s} PROVE Avanzada(t)'
    <2>1. /\ pc'[t] = pc[t] /\ vaciadas'[t] = vaciadas[t]
          /\ propio'[t] = propio[t] /\ candados'[t] = candados[t]
      BY <1>1 DEF Terminada, Responde, CierraTx, TypeOK
    <2> QED
      BY <1>1, <1>2, <2>1, AvanzadaAjena DEF Avance
  <1> QED
    BY <1>1, <1>3, <1>4, TerminadaAvanzada DEF Avance

(* The flat table changes only when no migration has begun to read it.     *)
LEMMA CargaPaso ==
    ASSUME TypeOK, Avance, Carga
    PROVE  plana' \in Planas /\ UNCHANGED catalogo /\ TypeOK' /\ Avance'
  <1>1. plana' \in Planas /\ UNCHANGED <<catalogo, anchas, proc, pc, tx, temporal, ret>>
    BY DEF Carga
  <1>2. TypeOK'
    BY <1>1 DEF TypeOK, tx
  <1>3. ASSUME NEW t \in Sesiones PROVE Avanzada(t)'
    <2> USE DEF TrasVaciar, TrasEstados, TrasMunicipios, TrasCiudades, TrasTipos,
                TrasAsentamientos, TrasOficinas, TrasRelacion
    <2>1. Avanzada(t) /\ pc[t] \notin TrasEstados
      BY DEF Avance, Avanzada, Bloqueada, Carga
    <2>2. Vaciando(t)' /\ Bloqueada(t)' /\ Comunes(t)' /\ SinLlenar(t)'
      BY <1>1, <2>1 DEF tx, Avanzada, Vaciando, Bloqueada, Comunes, SinLlenar
    <2>3. DeOriginal(t)'
      BY <1>1, <2>1 DEF tx, Avanzada, DeOriginal
    <2>4. DeLimpio(t)'
      BY <1>1, <2>1 DEF tx, Avanzada, DeLimpio
    <2> QED
      BY <2>2, <2>3, <2>4 DEF Avanzada
  <1> QED
    BY <1>1, <1>2, <1>3 DEF Avance

LEMMA EnsanchaPaso ==
    ASSUME TypeOK, Avance, NEW tabla \in ConCodigo, Ensancha(tabla)
    PROVE  UNCHANGED <<plana, catalogo>> /\ TypeOK' /\ Avance'
  <1>1. UNCHANGED <<plana, catalogo, proc, pc, tx, temporal, ret>> /\ TypeOK'
    BY DEF Ensancha, TypeOK, tx
  <1> QED
    BY <1>1, AvanzadaAjena DEF Avance, tx

-----------------------------------------------------------------------------
(* The inductive invariant. *)

LEMMA IniciaIInv == Init => IInv
  <1> SUFFICES ASSUME Init PROVE IInv
    OBVIOUS
  <1>1. TypeOK
    BY SinFilasVacias, InicialesAssumption DEF Init, TypeOK, Procedimientos
  <1>2. Restricciones(catalogo)
    BY InicialesAssumption DEF Init
  <1>3. ASSUME NEW s \in Sesiones PROVE Avanzada(s)
    <2> USE DEF TrasVaciar, TrasEstados, TrasMunicipios, TrasCiudades, TrasTipos,
                TrasAsentamientos, TrasOficinas, TrasRelacion
    <2>1. pc[s] = "libre" /\ vaciadas[s] = {} /\ propio[s] = SinFilas /\ candados[s] = {}
      BY DEF Init
    <2>2. Vaciando(s) /\ Bloqueada(s)
      BY <2>1 DEF Vaciando, Bloqueada, Borra
    <2>3. Comunes(s) /\ DeOriginal(s) /\ DeLimpio(s)
      BY <2>1 DEF Comunes, DeOriginal, DeLimpio
    <2>4. SinLlenar(s)
      BY <2>1 DEF SinLlenar, SinFilas
    <2> QED
      BY <2>2, <2>3, <2>4 DEF Avanzada
  <1> QED
    BY <1>1, <1>2, <1>3 DEF IInv, Avance

(* What one step does to the invariant and to the two shared tables: only  *)
(* Confirma changes the seven tables, and only Carga the flat one.         *)
LEMMA Paso ==
    ASSUME IInv, [Next]_vars
    PROVE  /\ IInv'
           /\ \/ UNCHANGED <<plana, catalogo>>
              \/ plana' \in Planas /\ UNCHANGED catalogo
              \/ \E s \in Sesiones :
                    pc[s] = "commit" /\ catalogo' = propio[s] /\ UNCHANGED plana
  <1>0. TypeOK /\ Avance /\ Restricciones(catalogo)
    BY DEF IInv
  <1>1. ASSUME NEW s \in Sesiones, NEW p \in Procedimientos, Migrar(s, p)
        PROVE  UNCHANGED <<plana, catalogo>> /\ TypeOK' /\ Avance'
    BY <1>0, <1>1, MigrarPaso
  <1>2. ASSUME NEW s \in Sesiones, Vacia(s)
        PROVE  UNCHANGED <<plana, catalogo>> /\ TypeOK' /\ Avance'
    BY <1>0, <1>2, VaciaPaso
  <1>3. ASSUME NEW s \in Sesiones, Llena(s)
        PROVE  UNCHANGED <<plana, catalogo>> /\ TypeOK' /\ Avance'
    BY <1>0, <1>3, EstadosPaso, MunicipiosPaso, CiudadesPaso, TiposPaso, CreaTemporalPaso,
       AsentamientosPaso, OficinasPaso, RelacionPaso, SueltaTemporalPaso
    DEF Llena
  <1>4. ASSUME NEW s \in Sesiones, Confirma(s)
        PROVE  /\ catalogo' = propio[s] /\ pc[s] = "commit" /\ UNCHANGED plana
               /\ Restricciones(catalogo') /\ TypeOK' /\ Avance'
    BY <1>0, <1>4, ConfirmaPaso
  <1>5. ASSUME NEW s \in Sesiones, Vence(s) \/ Corte(s)
        PROVE  UNCHANGED <<plana, catalogo>> /\ TypeOK' /\ Avance'
    BY <1>0, <1>5, VencePaso, CortePaso
  <1>6. ASSUME Carga
        PROVE  plana' \in Planas /\ UNCHANGED catalogo /\ TypeOK' /\ Avance'
    BY <1>0, <1>6, CargaPaso
  <1>7. ASSUME NEW tabla \in ConCodigo, Ensancha(tabla)
        PROVE  UNCHANGED <<plana, catalogo>> /\ TypeOK' /\ Avance'
    BY <1>0, <1>7, EnsanchaPaso
  <1>8. ASSUME UNCHANGED vars
        PROVE  UNCHANGED <<plana, catalogo>> /\ TypeOK' /\ Avance'
    <2>1. UNCHANGED <<plana, catalogo, proc, pc, vaciadas, propio, candados, temporal>> /\ TypeOK'
      BY <1>0, <1>8 DEF vars, tx, TypeOK
    <2> QED
      BY <1>0, <2>1, AvanzadaAjena DEF Avance
  <1>9. \/ \E s \in Sesiones : \/ \E p \in Procedimientos : Migrar(s, p)
                               \/ Vacia(s) \/ Llena(s) \/ Confirma(s) \/ Vence(s) \/ Corte(s)
        \/ Carga
        \/ \E tabla \in ConCodigo : Ensancha(tabla)
        \/ UNCHANGED vars
    BY DEF Next, Avanza
  <1> QED
    BY <1>0, <1>1, <1>2, <1>3, <1>4, <1>5, <1>6, <1>7, <1>8, <1>9 DEF IInv

(* The inductive invariant of the migrations holds, for any sessions, any  *)
(* flat tables and any state of the seven tables that satisfies their      *)
(* constraints.                                                            *)
THEOREM InvarianteMigracion == Spec => []IInv
  BY IniciaIInv, Paso, PTL DEF Spec

(* The variables keep their types; no code of more than five characters    *)
(* reaches the temporary table.                                            *)
THEOREM TipoMigracion == Spec => []TypeOK
  <1>1. IInv => TypeOK
    BY DEF IInv
  <1> QED
    BY <1>1, InvarianteMigracion, PTL

-----------------------------------------------------------------------------
(* The migrations implement Catalogo.  Its definitions are those of        *)
(* CodigoPostal, instantiated.                                             *)

LEMMA MismosCatalogos ==
    ASSUME NEW c
    PROVE  /\ c \in Catalogos => c \in Tablero!Catalogos
           /\ Restricciones(c) => Tablero!Restricciones(c)
  <1>1. c \in Catalogos => c \in Tablero!Catalogos
    BY DEF Catalogos, Tablero!Catalogos, Tablero!Numeros, Numeros,
           Tablero!FilasMunicipio, FilasMunicipio, Tablero!FilasCiudad, FilasCiudad,
           Tablero!FilasAsentamiento, FilasAsentamiento, Tablero!FilasOficina, FilasOficina,
           Tablero!FilasRelacion, FilasRelacion, Tablero!FilasTipo, FilasTipo,
           Tablero!Vacio, Vacio
  <1>2. Restricciones(c) => Tablero!Restricciones(c)
    BY DEF Restricciones, Tablero!Restricciones, CiudadesValidas, Tablero!CiudadesValidas,
           TiposValidos, Tablero!TiposValidos, AsentamientosValidos,
           Tablero!AsentamientosValidos, OficinasValidas,
           Tablero!OficinasValidas, RelacionValida, Tablero!RelacionValida
  <1> QED
    BY <1>1, <1>2

LEMMA MismasSelecciones ==
    ASSUME NEW P, NEW temp, NEW cs, NEW os
    PROVE  /\ Tablero!EstadosDe(P) = EstadosDe(P)
           /\ Tablero!MunicipiosDe(P) = MunicipiosDe(P)
           /\ Tablero!CiudadesDe(P) = CiudadesDe(P)
           /\ Tablero!TiposDe(P) = TiposDe(P)
           /\ Tablero!AsentamientosDe(P) = AsentamientosDe(P)
           /\ Tablero!OficinasDe(P) = OficinasDe(P)
           /\ Tablero!RelacionDe(P) = RelacionDe(P)
           /\ Tablero!CandidatasDe(P) = CandidatasDe(P)
           /\ Tablero!TiposLimpiosDe(P) = TiposLimpiosDe(P)
           /\ Tablero!TemporalDe(P) = TemporalDe(P)
           /\ Tablero!LimpiosDe(temp) = LimpiosDe(temp)
           /\ Tablero!OficinasLimpiasDe(temp, cs) = OficinasLimpiasDe(temp, cs)
           /\ Tablero!RelacionLimpiaDe(temp, os) = RelacionLimpiaDe(temp, os)
  <1> USE DEF Tablero!Positivo, Positivo, Tablero!ConTexto, ConTexto, Tablero!Vacio, Vacio,
              Tablero!Podar, Podar
  <1>1. /\ Tablero!EstadosDe(P) = EstadosDe(P)
        /\ Tablero!MunicipiosDe(P) = MunicipiosDe(P)
        /\ Tablero!TiposDe(P) = TiposDe(P)
        /\ Tablero!TiposLimpiosDe(P) = TiposLimpiosDe(P)
    BY DEF Tablero!EstadosDe, EstadosDe, Tablero!MunicipiosDe, MunicipiosDe,
           Tablero!TiposDe, TiposDe, Tablero!TiposLimpiosDe, TiposLimpiosDe,
           Tablero!ConTipo, ConTipo
  <1>2. /\ Tablero!CiudadesDe(P) = CiudadesDe(P)
        /\ Tablero!CandidatasDe(P) = CandidatasDe(P)
    BY DEF Tablero!CiudadesDe, CiudadesDe, Tablero!CandidatasDe, CandidatasDe,
           Tablero!FilaCiudad, FilaCiudad, Tablero!ConCiudad, ConCiudad
  <1>3. /\ Tablero!AsentamientosDe(P) = AsentamientosDe(P)
        /\ Tablero!OficinasDe(P) = OficinasDe(P)
        /\ Tablero!RelacionDe(P) = RelacionDe(P)
    BY DEF Tablero!AsentamientosDe, AsentamientosDe, Tablero!ConAsentamiento, ConAsentamiento,
           Tablero!OficinasDe, OficinasDe, Tablero!ConOficina, ConOficina,
           Tablero!RelacionDe, RelacionDe, Tablero!Zona, Zona
  <1>4. Tablero!TemporalDe(P) = TemporalDe(P)
    BY DEF Tablero!TemporalDe, TemporalDe, Tablero!FilaTemporal, FilaTemporal,
           Tablero!Limpiado, Limpiado, Tablero!ZonaLimpia, ZonaLimpia, Tablero!Zona, Zona
  <1>5. /\ Tablero!LimpiosDe(temp) = LimpiosDe(temp)
        /\ Tablero!OficinasLimpiasDe(temp, cs) = OficinasLimpiasDe(temp, cs)
        /\ Tablero!RelacionLimpiaDe(temp, os) = RelacionLimpiaDe(temp, os)
    BY DEF Tablero!LimpiosDe, LimpiosDe, Tablero!OficinasLimpiasDe, OficinasLimpiasDe,
           Tablero!RelacionLimpiaDe, RelacionLimpiaDe
  <1> QED
    BY <1>1, <1>2, <1>3, <1>4, <1>5

(* What is committed is a complete migration.                              *)
LEMMA Confirmado ==
    ASSUME IInv, NEW s \in Sesiones, pc[s] = "commit"
    PROVE  /\ Restricciones(propio[s])
           /\ propio[s].Estados = EstadosDe(plana)
           /\ propio[s].Municipios = MunicipiosDe(plana)
           /\ proc[s] = "original" =>
                 /\ propio[s].TiposAsentamiento = TiposDe(plana)
                 /\ propio[s].Ciudades = CiudadesDe(plana)
                 /\ propio[s].Asentamientos = AsentamientosDe(plana)
                 /\ propio[s].OficinasPostales = OficinasDe(plana)
                 /\ propio[s].AsentamientoOficina = RelacionDe(plana)
           /\ proc[s] = "limpio" =>
                 /\ propio[s].TiposAsentamiento = TiposLimpiosDe(plana)
                 /\ propio[s].Ciudades
                       \in CiudadesIgnorando(CandidatasDe(plana), propio[s].Estados)
                 /\ propio[s].Asentamientos = LimpiosDe(TemporalDe(plana))
                 /\ propio[s].OficinasPostales
                       \in OficinasIgnorando(
                              OficinasLimpiasDe(TemporalDe(plana), propio[s].Ciudades),
                              propio[s].Ciudades)
                 /\ propio[s].AsentamientoOficina
                       = RelacionLimpiaDe(TemporalDe(plana), propio[s].OficinasPostales)
           /\ proc[s] \in {"original", "limpio"}
  BY DEF IInv, TypeOK, Procedimientos, Avance, Avanzada, Bloqueada, Comunes, DeOriginal,
         DeLimpio, TrasVaciar, TrasEstados, TrasMunicipios, TrasCiudades, TrasTipos,
         TrasAsentamientos, TrasOficinas, TrasRelacion

LEMMA EsMigrado ==
    ASSUME IInv, NEW s \in Sesiones, pc[s] = "commit", NEW P, P = plana, NEW c, c = propio[s]
    PROVE  Tablero!Migrado(c, P)
  <1>1. /\ c.Estados = Tablero!EstadosDe(P) /\ c.Municipios = Tablero!MunicipiosDe(P)
        /\ Tablero!Restricciones(c)
    BY Confirmado, MismasSelecciones, MismosCatalogos
  <1>2. CASE proc[s] = "original"
    <2>1. Tablero!Original(c, P)
      BY <1>2, Confirmado, MismasSelecciones DEF Tablero!Original
    <2> QED
      BY <1>1, <2>1 DEF Tablero!Migrado
  <1>3. CASE proc[s] = "limpio"
    <2> DEFINE temp == TemporalDe(P)
               oficinas == OficinasLimpiasDe(temp, c.Ciudades)
    <2>1. /\ c.TiposAsentamiento = TiposLimpiosDe(P)
          /\ c.Ciudades \in CiudadesIgnorando(CandidatasDe(P), c.Estados)
          /\ c.Asentamientos = LimpiosDe(temp)
          /\ c.OficinasPostales \in OficinasIgnorando(oficinas, c.Ciudades)
          /\ c.AsentamientoOficina = RelacionLimpiaDe(temp, c.OficinasPostales)
      BY <1>3, Confirmado
    <2>2. /\ c.Ciudades \subseteq CandidatasDe(P)
          /\ \A k \in CandidatasDe(P) \ c.Ciudades :
                ~Tablero!CiudadesValidas(c.Ciudades \cup {k}, c.Estados)
      BY <2>1 DEF CiudadesIgnorando, CiudadesValidas, Tablero!CiudadesValidas
    <2>3. /\ c.OficinasPostales \subseteq oficinas
          /\ \A o \in oficinas \ c.OficinasPostales :
                ~Tablero!OficinasValidas(c.OficinasPostales \cup {o}, c.Ciudades)
      BY <2>1 DEF OficinasIgnorando, OficinasValidas, Tablero!OficinasValidas
    <2>4. Tablero!Depurado(c, P)
      BY <2>1, <2>2, <2>3, MismasSelecciones DEF Tablero!Depurado
    <2> QED
      BY <1>1, <2>4 DEF Tablero!Migrado
  <1> QED
    BY <1>2, <1>3, Confirmado

(* A migration publishes all seven tables together, complete and from the  *)
(* flat table as it is, or leaves them as they were                        *)
(* (sepomex_migration_proc.sql:6-14, 150): whatever fails, and however     *)
(* many migrate.                                                           *)
THEOREM ImplementaElCatalogo == Spec => ImplementaCatalogo
  <1>1. Init => Tablero!CInit
    <2> SUFFICES ASSUME Init PROVE Tablero!CInit
      OBVIOUS
    <2>1. plana \in Planas /\ catalogo \in Catalogos /\ Restricciones(catalogo)
      BY InicialesAssumption DEF Init
    <2> QED
      BY <2>1, MismosCatalogos DEF Tablero!CInit
  <1>2. IInv /\ [Next]_vars => [Tablero!CNext]_<<plana, catalogo>>
    <2> SUFFICES ASSUME IInv, [Next]_vars
                 PROVE  [Tablero!CNext]_<<plana, catalogo>>
      OBVIOUS
    <2>1. CASE UNCHANGED <<plana, catalogo>>
      BY <2>1
    <2>2. CASE plana' \in Planas /\ UNCHANGED catalogo
      BY <2>2 DEF Tablero!CNext, Tablero!Cargar
    <2>3. ASSUME NEW s \in Sesiones, pc[s] = "commit", catalogo' = propio[s], UNCHANGED plana
          PROVE  Tablero!CNext
      <3>1. PICK P, c : P = plana /\ c = propio[s]
        OBVIOUS
      <3>2. Tablero!Migrado(c, P)
        BY <2>3, <3>1, EsMigrado
      <3> QED
        BY <2>3, <3>1, <3>2 DEF Tablero!CNext, Tablero!Publicar
    <2> QED
      BY <2>1, <2>2, <2>3, Paso
  <1> QED
    BY <1>1, <1>2, InvarianteMigracion, PTL DEF Spec, ImplementaCatalogo, Tablero!CSpec

-----------------------------------------------------------------------------
(* What a completed migration promises. *)

(* Only the COMMIT answers that a migration is complete.                   *)
SinCompletar(s) == pc[s] = "libre" \/ pc'[s] # "libre" \/ ret'[s] # "completada"

LEMMA SigueSinCompletar ==
    ASSUME TypeOK, NEW s \in Sesiones, NEW t \in Sesiones,
           (\E e \in Sentencias \ {"libre"} : Sigue(t, e)) \/ Responde(t, "error")
              \/ Responde(t, "corte") \/ UNCHANGED pc
    PROVE  SinCompletar(s)
  BY DEF TypeOK, Sigue, Responde, SinCompletar

LEMMA InsertaSinCompletar ==
    ASSUME NEW s \in Sesiones, Llena(s)
    PROVE  (\E e \in Sentencias \ {"libre"} : Sigue(s, e)) \/ Responde(s, "error")
  <1>1. {"i_municipios", "i_ciudades", "i_tipos", "i_asentamientos", "i_oficinas", "i_relacion",
         "t_quita", "t_crea", "t_suelta", "commit"} \subseteq Sentencias \ {"libre"}
    BY Siguientes
  <1>2. CASE InsertaEstados(s)
    BY <1>1, <1>2 DEF InsertaEstados, InsertaFilas, SqlException
  <1>3. CASE InsertaMunicipios(s)
    BY <1>1, <1>3 DEF InsertaMunicipios, InsertaFilas, SqlException
  <1>4. CASE InsertaCiudades(s)
    BY <1>1, <1>4 DEF InsertaCiudades, InsertaFilas, SqlException
  <1>5. CASE InsertaTipos(s)
    BY <1>1, <1>5 DEF InsertaTipos, InsertaFilas, SqlException, Sigue
  <1>6. CASE CreaTemporal(s)
    BY <1>1, <1>6 DEF CreaTemporal, Temporal
  <1>7. CASE InsertaAsentamientos(s)
    BY <1>1, <1>7 DEF InsertaAsentamientos, InsertaFilas, SqlException
  <1>8. CASE InsertaOficinas(s)
    BY <1>1, <1>8 DEF InsertaOficinas, InsertaFilas, SqlException
  <1>9. CASE InsertaRelacion(s)
    BY <1>1, <1>9 DEF InsertaRelacion, InsertaFilas, SqlException, Sigue
  <1>10. CASE SueltaTemporal(s)
    BY <1>1, <1>10 DEF SueltaTemporal, Temporal
  <1> QED
    BY <1>2, <1>3, <1>4, <1>5, <1>6, <1>7, <1>8, <1>9, <1>10 DEF Llena

LEMMA BorraSinCompletar ==
    ASSUME NEW s \in Sesiones, Vacia(s)
    PROVE  (\E e \in Sentencias \ {"libre"} : Sigue(s, e)) \/ Responde(s, "error")
  <1>1. {"d_oficinas", "d_asentamientos", "d_tipos", "d_ciudades", "d_municipios",
         "d_estados", "i_estados"} \subseteq Sentencias \ {"libre"}
    BY DEF Sentencias, Borra, Inserta
  <1>2. ASSUME NEW en, NEW sigue \in Sentencias \ {"libre"}, BorraTabla(s, en, sigue)
        PROVE  (\E e \in Sentencias \ {"libre"} : Sigue(s, e)) \/ Responde(s, "error")
    BY <1>2 DEF BorraTabla, SqlException
  <1>3. PICK en, sigue :
           /\ BorraTabla(s, en, sigue)
           /\ sigue \in {"d_oficinas", "d_asentamientos", "d_tipos", "d_ciudades", "d_municipios",
                         "d_estados", "i_estados"}
    BY Zenon DEF Vacia
  <1> QED
    BY <1>1, <1>2, <1>3

LEMMA SoloConfirma ==
    ASSUME TypeOK, Next, NEW s \in Sesiones, Contesta(s, "completada")
    PROVE  Confirma(s)
  <1>1. ~SinCompletar(s)
    BY DEF Contesta, SinCompletar
  <1>2. ASSUME NEW t \in Sesiones, NEW p \in Procedimientos, Migrar(t, p) PROVE FALSE
    BY <1>1, <1>2 DEF Migrar, SinCompletar, TypeOK
  <1>3. ASSUME NEW t \in Sesiones, Vacia(t) \/ Llena(t) PROVE FALSE
    BY <1>1, <1>3, InsertaSinCompletar, BorraSinCompletar, SigueSinCompletar
  <1>4. ASSUME NEW t \in Sesiones, Vence(t) \/ Corte(t) PROVE FALSE
    BY <1>1, <1>4, SigueSinCompletar DEF Vence, SqlException, Corte
  <1>5. ASSUME UNCHANGED pc PROVE FALSE
    BY <1>1, <1>5, SigueSinCompletar
  <1>6. ASSUME NEW t \in Sesiones \ {s}, Confirma(t) PROVE FALSE
    BY <1>1, <1>6 DEF Confirma, Responde, SinCompletar, TypeOK
  <1> QED
    BY <1>2, <1>3, <1>4, <1>5, <1>6 DEF Next, Avanza, Carga, Ensancha

(* The tables when a call answers that its migration is complete.          *)
LEMMA AlCompletar ==
    ASSUME IInv, IInv', [Next]_vars, NEW s \in Sesiones, Contesta(s, "completada")
    PROVE  pc[s] = "commit" /\ catalogo' = propio[s]
  <1>1. TypeOK /\ Avance
    BY DEF IInv
  <1>2. ~UNCHANGED vars
    BY DEF Contesta, vars
  <1>3. Confirma(s)
    BY <1>1, <1>2, SoloConfirma
  <1> QED
    BY <1>1, <1>3, ConfirmaPaso

(* A completed MigrarSepomexACodigoPostal leaves each post office in the   *)
(* city the flat table puts it in: INSERT would have failed on a number    *)
(* with two cities (sepomex_migration_proc.sql:55-67, 119-131).            *)
THEOREM CiudadPropiaSiempre == Spec => CiudadPropia
  <1>1. ASSUME IInv, IInv', [Next]_vars, NEW s \in Sesiones, Contesta(s, "completada"),
               proc[s] = "original",
               NEW f \in plana, NEW o \in catalogo'.OficinasPostales,
               ConOficina(f), ConCiudad(f), f.c_oficina = o.c_oficina,
               NEW k \in catalogo'.Ciudades, k.c_cve_ciudad = o.c_cve_ciudad
        PROVE  k = FilaCiudad(f)
    <2> DEFINE q == [c_oficina |-> f.c_oficina, d_CP |-> f.d_cp, c_cve_ciudad |-> f.c_cve_ciudad]
    <2>1. PICK c : c = propio[s] /\ c = catalogo'
      BY <1>1, AlCompletar
    <2>2. pc[s] = "commit"
      BY <1>1, AlCompletar
    <2>3. /\ Restricciones(c)
          /\ c.Ciudades = CiudadesDe(plana) /\ c.OficinasPostales = OficinasDe(plana)
      BY <1>1, <2>1, <2>2, Confirmado
    <2>4. q \in c.OficinasPostales
      BY <1>1, <2>3 DEF OficinasDe
    <2>5. o = q
      BY <1>1, <2>1, <2>3, <2>4 DEF Restricciones, OficinasValidas
    <2>6. FilaCiudad(f) \in c.Ciudades
      BY <1>1, <2>3 DEF CiudadesDe
    <2>7. k.c_cve_ciudad = FilaCiudad(f).c_cve_ciudad
      BY <1>1, <2>5 DEF FilaCiudad
    <2> QED
      BY <1>1, <2>1, <2>3, <2>6, <2>7 DEF Restricciones, CiudadesValidas
  <1>2. IInv /\ IInv' /\ [Next]_vars =>
          [\A s \in Sesiones :
              Contesta(s, "completada") /\ proc[s] = "original" =>
                 \A f \in plana, o \in catalogo'.OficinasPostales :
                    ConOficina(f) /\ ConCiudad(f) /\ f.c_oficina = o.c_oficina =>
                    \A k \in catalogo'.Ciudades :
                       k.c_cve_ciudad = o.c_cve_ciudad => k = FilaCiudad(f)]_vars
    BY <1>1
  <1> QED
    BY <1>2, InvarianteMigracion, PTL DEF Spec, CiudadPropia

(* A settlement, its municipality, state and type, all in the catalogue,   *)
(* are found by the joins of both searches.                                *)
LEMMA SeHalla ==
    ASSUME NEW c, NEW a \in c.Asentamientos, NEW m, NEW e, NEW as, a \in as,
           NEW u \in c.TiposAsentamiento, u.c_tipo_asenta = a.c_tipo_asenta, a.c_mnpio = m,
           [c_mnpio |-> m, c_estado |-> e] \in c.Municipios, e \in c.Estados
    PROVE  [a |-> a, c_mnpio |-> m, c_estado |-> e] \in Hallazgos(c, as)
  <1> DEFINE p == <<a, [c_mnpio |-> m, c_estado |-> e]>>
  <1>1. /\ p \in as \X c.Municipios
        /\ \E v \in c.TiposAsentamiento : v.c_tipo_asenta = p[1].c_tipo_asenta
        /\ p[1].c_mnpio = p[2].c_mnpio /\ p[2].c_estado \in c.Estados
    OBVIOUS
  <1>2. [a |-> p[1], c_mnpio |-> p[2].c_mnpio, c_estado |-> p[2].c_estado] \in Hallazgos(c, as)
    BY <1>1 DEF Hallazgos
  <1> QED
    BY <1>2

(* Row f, with a settlement a of its trimmed name, is found by that name,  *)
(* if it fits the parameter, and by the code of a, if it does.             *)
LEMMA SeEncuentra ==
    ASSUME NEW c, NEW f, NEW a \in c.Asentamientos,
           NEW nombre, nombre = Podar(f.d_asenta), nombre \notin NombresLargos,
           Podar(a.d_asenta) = nombre, a.c_mnpio = f.c_mnpio,
           NEW u \in c.TiposAsentamiento, u.c_tipo_asenta = a.c_tipo_asenta,
           [c_mnpio |-> f.c_mnpio, c_estado |-> f.c_estado] \in c.Municipios,
           f.c_estado \in c.Estados
    PROVE  /\ HallablePorNombre(c, f)
           /\ a.d_codigo \notin Largos => HallablePorCodigo(c, a.d_codigo, f)
  <1> DEFINE h == [a |-> a, c_mnpio |-> f.c_mnpio, c_estado |-> f.c_estado]
  <1>1. HallablePorNombre(c, f)
    <2>1. Contiene(a.d_asenta, nombre)
      BY DEF Contiene
    <2>2. h \in Hallazgos(c, {b \in c.Asentamientos :
                                 nombre \notin NombresLargos /\ Contiene(b.d_asenta, nombre)})
      BY <2>1, SeHalla
    <2>3. h \in BuscarColoniasPorNombre(c, nombre, f.c_estado)
      BY <2>2 DEF BuscarColoniasPorNombre
    <2>4. EncontradaEn(BuscarColoniasPorNombre(c, nombre, f.c_estado), f)
      BY <2>3 DEF EncontradaEn
    <2> QED
      BY <2>4 DEF HallablePorNombre
  <1>2. ASSUME a.d_codigo \notin Largos
        PROVE  HallablePorCodigo(c, a.d_codigo, f)
    <2>1. h \in Hallazgos(c, {b \in c.Asentamientos : a.d_codigo \notin Largos
                                                      /\ b.d_codigo = a.d_codigo})
      BY <1>2, SeHalla
    <2>2. h \in BuscarPorCodigoPostal(c, a.d_codigo)
      BY <2>1 DEF BuscarPorCodigoPostal
    <2>3. EncontradaEn(BuscarPorCodigoPostal(c, a.d_codigo), f)
      BY <2>2 DEF EncontradaEn
    <2> QED
      BY <2>3 DEF HallablePorCodigo
  <1> QED
    BY <1>1, <1>2

(* What either migration makes of a complete row of the flat table.        *)
LEMMA FilaCompleta ==
    ASSUME NEW P \in Planas, NEW f \in P, Completa(f)
    PROVE  /\ f.c_estado \in EstadosDe(P)
           /\ \E u \in TiposDe(P) : u.c_tipo_asenta = f.c_tipo_asenta
           /\ \E u \in TiposLimpiosDe(P) : u.c_tipo_asenta = f.c_tipo_asenta
           /\ [c_mnpio |-> f.c_mnpio, c_estado |-> f.c_estado] \in MunicipiosDe(P)
           /\ \E a \in AsentamientosDe(P) :
                 /\ a.d_asenta = f.d_asenta /\ a.c_mnpio = f.c_mnpio
                 /\ a.c_tipo_asenta = f.c_tipo_asenta /\ a.d_codigo = f.d_codigo
           /\ \E a \in LimpiosDe(TemporalDe(P)) :
                 /\ a.d_asenta = Podar(f.d_asenta) /\ a.c_mnpio = f.c_mnpio
                 /\ a.c_tipo_asenta = f.c_tipo_asenta /\ a.d_codigo = Recorta[f.d_codigo]
           /\ f.d_codigo \in Codigos /\ f.d_asenta \in Nombres
  <1>1. f.d_codigo \in Codigos /\ f.d_asenta \in Nombres
    BY PlanasAssumption DEF FilasPlanas, Completa, ConTexto
  <1>2. f.c_estado \in EstadosDe(P)
    BY DEF Completa, EstadosDe
  <1>3. /\ \E u \in TiposDe(P) : u.c_tipo_asenta = f.c_tipo_asenta
        /\ \E u \in TiposLimpiosDe(P) : u.c_tipo_asenta = f.c_tipo_asenta
    <2>1. ConTipo(f)
      BY DEF Completa, ConTipo
    <2>2. [c_tipo_asenta |-> f.c_tipo_asenta, d_tipo_asenta |-> f.d_tipo_asenta] \in TiposDe(P)
      BY <2>1 DEF TiposDe
    <2>3. [c_tipo_asenta |-> f.c_tipo_asenta, d_tipo_asenta |-> Podar(f.d_tipo_asenta)]
             \in TiposLimpiosDe(P)
      BY <2>1 DEF TiposLimpiosDe
    <2> QED
      BY <2>2, <2>3
  <1>4. [c_mnpio |-> f.c_mnpio, c_estado |-> f.c_estado] \in MunicipiosDe(P)
    BY DEF Completa, MunicipiosDe
  <1>5. \E a \in AsentamientosDe(P) :
           /\ a.d_asenta = f.d_asenta /\ a.c_mnpio = f.c_mnpio
           /\ a.c_tipo_asenta = f.c_tipo_asenta /\ a.d_codigo = f.d_codigo
    <2>1. ConAsentamiento(f)
      BY DEF Completa, ConAsentamiento, ConTexto
    <2>2. [id_asenta_cpcons |-> f.id_asenta_cpcons, d_asenta |-> f.d_asenta,
           d_codigo |-> f.d_codigo, d_zona |-> Zona(f.d_zona),
           c_tipo_asenta |-> f.c_tipo_asenta, c_mnpio |-> f.c_mnpio] \in AsentamientosDe(P)
      BY <2>1 DEF AsentamientosDe
    <2> QED
      BY <2>2
  <1>6. \E a \in LimpiosDe(TemporalDe(P)) :
           /\ a.d_asenta = Podar(f.d_asenta) /\ a.c_mnpio = f.c_mnpio
           /\ a.c_tipo_asenta = f.c_tipo_asenta /\ a.d_codigo = Recorta[f.d_codigo]
    <2>1. FilaTemporal(f) \in TemporalDe(P)
      BY DEF Completa, TemporalDe, Positivo
    <2>2. /\ FilaTemporal(f).d_asenta = Podar(f.d_asenta)
          /\ FilaTemporal(f).c_mnpio = f.c_mnpio
          /\ FilaTemporal(f).c_tipo_asenta = f.c_tipo_asenta
          /\ FilaTemporal(f).d_codigo = Recorta[f.d_codigo]
      BY <1>1, TextosLimpios DEF FilaTemporal
    <2> DEFINE t == FilaTemporal(f)
               a == [id_asenta_cpcons |-> t.nuevo_id, d_asenta |-> t.d_asenta,
                     d_codigo |-> t.d_codigo, d_zona |-> t.d_zona,
                     c_tipo_asenta |-> t.c_tipo_asenta, c_mnpio |-> t.c_mnpio]
    <2> HIDE DEF t
    <2>3. a \in LimpiosDe(TemporalDe(P))
      BY <2>1 DEF LimpiosDe, t
    <2> QED
      BY <2>2, <2>3 DEF t
  <1> QED
    BY <1>1, <1>2, <1>3, <1>4, <1>5, <1>6

(* Every complete settlement of the flat table can be found after a        *)
(* completed migration: by its trimmed name, in its state and              *)
(* municipality; after MigrarSepomexLimpio also by its code, trimmed and   *)
(* cut; after MigrarSepomexACodigoPostal also by its code, if that has no  *)
(* more than five characters: of a longer one, which it stores whole once  *)
(* the columns are wide, the search by code is not said to find it.        *)
THEOREM EncontrableSiempre == Spec => Encontrable
  <1>1. ASSUME IInv, IInv', [Next]_vars, NEW s \in Sesiones, Contesta(s, "completada"),
               NEW f \in plana, Completa(f)
        PROVE  /\ HallablePorNombre(catalogo', f)
               /\ proc[s] = "limpio" => HallablePorCodigo(catalogo', Recorta[f.d_codigo], f)
               /\ proc[s] = "original" /\ f.d_codigo \notin Largos =>
                     HallablePorCodigo(catalogo', f.d_codigo, f)
    <2>1. PICK c, P : c = propio[s] /\ c = catalogo' /\ P = plana
      BY <1>1, AlCompletar
    <2>2. pc[s] = "commit" /\ P \in Planas /\ c \in Catalogos
      BY <1>1, <2>1, AlCompletar, Zenon DEF IInv, TypeOK
    <2>3. /\ c.Estados = EstadosDe(P) /\ c.Municipios = MunicipiosDe(P)
          /\ proc[s] \in {"original", "limpio"}
          /\ proc[s] = "original" => /\ c.TiposAsentamiento = TiposDe(P)
                                     /\ c.Asentamientos = AsentamientosDe(P)
          /\ proc[s] = "limpio" => /\ c.TiposAsentamiento = TiposLimpiosDe(P)
                                   /\ c.Asentamientos = LimpiosDe(TemporalDe(P))
      BY <1>1, <2>1, <2>2, Confirmado
    <2>4. f \in P /\ f.d_codigo \in Codigos /\ f.d_asenta \in Nombres
      BY <1>1, <2>1, <2>2, FilaCompleta
    <2>5. Recorta[f.d_codigo] \notin Largos
      BY <2>4, RecortaAssumption
    <2>6. PICK nombre : nombre = Podar(f.d_asenta)
      OBVIOUS
    <2>7. nombre \in Nombres /\ Podar(nombre) = nombre
      BY <2>4, <2>6, TextosLimpios
    <2>8. /\ [c_mnpio |-> f.c_mnpio, c_estado |-> f.c_estado] \in c.Municipios
          /\ f.c_estado \in c.Estados
      BY <1>1, <2>2, <2>3, <2>4, FilaCompleta
    <2>9. /\ \E u \in TiposDe(P) : u.c_tipo_asenta = f.c_tipo_asenta
          /\ \E u \in TiposLimpiosDe(P) : u.c_tipo_asenta = f.c_tipo_asenta
      BY <1>1, <2>2, <2>4, FilaCompleta
    <2>10. \E a \in AsentamientosDe(P) :
              /\ a.d_asenta = f.d_asenta /\ a.c_mnpio = f.c_mnpio
              /\ a.c_tipo_asenta = f.c_tipo_asenta /\ a.d_codigo = f.d_codigo
      BY <1>1, <2>2, <2>4, FilaCompleta
    <2>11. \E a \in LimpiosDe(TemporalDe(P)) :
              /\ a.d_asenta = nombre /\ a.c_mnpio = f.c_mnpio
              /\ a.c_tipo_asenta = f.c_tipo_asenta /\ a.d_codigo = Recorta[f.d_codigo]
      BY <1>1, <2>2, <2>4, <2>6, FilaCompleta
    <2>12. \A a \in c.Asentamientos : a.d_asenta \in (Nombres \ NombresLargos) \cup {Vacio}
      BY <2>2 DEF Catalogos, FilasAsentamiento
    <2>13. CASE proc[s] = "limpio"
      <3>1. PICK a \in c.Asentamientos :
               /\ a.d_asenta = nombre /\ a.c_mnpio = f.c_mnpio
               /\ a.c_tipo_asenta = f.c_tipo_asenta /\ a.d_codigo = Recorta[f.d_codigo]
        BY <2>3, <2>11, <2>13
      <3>2. PICK u \in c.TiposAsentamiento : u.c_tipo_asenta = a.c_tipo_asenta
        BY <2>3, <2>9, <2>13, <3>1
      <3>3. nombre \notin NombresLargos
        BY <2>7, <2>12, <3>1, NulosFuera
      <3>4. /\ HallablePorNombre(c, f)
            /\ a.d_codigo \notin Largos => HallablePorCodigo(c, a.d_codigo, f)
        BY <2>6, <2>7, <2>8, <3>1, <3>2, <3>3, SeEncuentra
      <3> QED
        BY <2>1, <2>5, <2>13, <3>1, <3>4
    <2>14. CASE proc[s] = "original"
      <3>1. PICK a \in c.Asentamientos :
               /\ a.d_asenta = f.d_asenta /\ a.c_mnpio = f.c_mnpio
               /\ a.c_tipo_asenta = f.c_tipo_asenta /\ a.d_codigo = f.d_codigo
        BY <2>3, <2>10, <2>14
      <3>2. PICK u \in c.TiposAsentamiento : u.c_tipo_asenta = a.c_tipo_asenta
        BY <2>3, <2>9, <2>14, <3>1
      <3>3. nombre \notin NombresLargos
        <4>1. f.d_asenta \notin NombresLargos
          BY <2>4, <2>12, <3>1, NulosFuera
        <4> QED
          BY <2>4, <2>6, <4>1, PodadoAssumption, NulosFuera DEF Podar, ConTexto
      <3>4. /\ HallablePorNombre(c, f)
            /\ a.d_codigo \notin Largos => HallablePorCodigo(c, a.d_codigo, f)
        BY <2>6, <2>8, <3>1, <3>2, <3>3, SeEncuentra
      <3> QED
        BY <2>1, <2>14, <3>1, <3>4
    <2> QED
      BY <2>3, <2>13, <2>14
  <1>2. IInv /\ IInv' /\ [Next]_vars =>
          [\A s \in Sesiones :
              Contesta(s, "completada") =>
                 \A f \in plana :
                    Completa(f) =>
                    /\ HallablePorNombre(catalogo', f)
                    /\ proc[s] = "limpio" =>
                          HallablePorCodigo(catalogo', Recorta[f.d_codigo], f)
                    /\ proc[s] = "original" /\ f.d_codigo \notin Largos =>
                          HallablePorCodigo(catalogo', f.d_codigo, f)]_vars
    BY <1>1
  <1> QED
    BY <1>2, InvarianteMigracion, PTL DEF Spec, Encontrable

-----------------------------------------------------------------------------
(* Repeated calls. *)

LEMMA TiposDeTabla ==
    ASSUME TypeOK
    PROVE  /\ catalogo \in Catalogos
           /\ pc \in [Sesiones -> Sentencias \cup {"libre"}]
           /\ vaciadas \in [Sesiones -> SUBSET Tablas]
           /\ propio \in [Sesiones -> Catalogos]
           /\ candados \in [Sesiones -> SUBSET Candados]
  BY Zenon DEF TypeOK

(* Calling MigrarSepomexACodigoPostal again, after a lost answer or while  *)
(* another connection also does, is harmless: over a flat table that is    *)
(* already in the catalogue none of its steps changes what is read         *)
(* (sepomex_migration_proc.sql:16-150).                                    *)
THEOREM ReintentoInocuoSiempre == Spec => ReintentoInocuo
  <1>1. ASSUME IInv, [Next]_vars,
               Tablero!Migrado(catalogo, plana), Tablero!Original(catalogo, plana),
               \A s \in Sesiones : pc[s] # "libre" => proc[s] = "original"
        PROVE  UNCHANGED catalogo
    <2> SUFFICES ASSUME NEW s \in Sesiones, pc[s] = "commit", catalogo' = propio[s]
                 PROVE  UNCHANGED catalogo
      BY <1>1, Paso
    <2>1. proc[s] = "original"
      BY <1>1
    <2>2. PICK P, c : P = plana /\ c = propio[s]
      OBVIOUS
    <2>3. Tablero!Migrado(c, P)
      BY <1>1, <2>2, EsMigrado
    <2>4. Tablero!Original(c, P)
      BY <1>1, <2>1, <2>2, Confirmado, MismasSelecciones DEF Tablero!Original
    <2>5. catalogo.Estados = c.Estados /\ catalogo.Municipios = c.Municipios
      BY <1>1, <2>2, <2>3 DEF Tablero!Migrado
    <2>6. /\ catalogo.Ciudades = c.Ciudades /\ catalogo.Asentamientos = c.Asentamientos
          /\ catalogo.OficinasPostales = c.OficinasPostales
          /\ catalogo.AsentamientoOficina = c.AsentamientoOficina
          /\ catalogo.TiposAsentamiento = c.TiposAsentamiento
      BY <1>1, <2>2, <2>4 DEF Tablero!Original
    <2>7. catalogo \in Catalogos /\ c \in Catalogos
      BY <1>1, <2>2, TiposDeTabla DEF IInv
    <2>8. catalogo = c
      BY <2>5, <2>6, <2>7 DEF Catalogos
    <2> QED
      BY <2>2, <2>8
  <1>2. IInv /\ [Next]_vars =>
          [/\ Tablero!Migrado(catalogo, plana) /\ Tablero!Original(catalogo, plana)
           /\ \A s \in Sesiones : pc[s] # "libre" => proc[s] = "original"
           => UNCHANGED catalogo]_vars
    BY <1>1
  <1> QED
    BY <1>2, InvarianteMigracion, PTL DEF Spec, ReintentoInocuo

-----------------------------------------------------------------------------
(* Locks. *)

(* What the server grants is held by nobody else.                          *)
LEMMA Concesion ==
    ASSUME NEW s \in Sesiones, NEW L, Concedidos(s, L),
           NEW tabla, NEW t \in Sesiones \ {s}
    PROVE  /\ <<tabla, "X">> \in L =>
                 <<tabla, "X">> \notin candados[t] /\ <<tabla, "S">> \notin candados[t]
           /\ <<tabla, "S">> \in L => <<tabla, "X">> \notin candados[t]
  <1>1. ASSUME NEW m, <<tabla, m>> \in L
        PROVE  /\ <<tabla, "X">> \notin candados[t]
               /\ m = "X" => <<tabla, "S">> \notin candados[t]
    <2>1. Concede(s, <<tabla, m>>)
      BY <1>1 DEF Concedidos
    <2> QED
      BY <2>1 DEF Concede
  <1> QED
    BY <1>1

Ajena(t) == /\ vaciadas'[t] = vaciadas[t] /\ propio'[t] = propio[t]
            /\ candados'[t] = candados[t]

(* A session that takes the locks L and changes only what they cover.      *)
LEMMA Adquiere ==
    ASSUME Cerrojos, NEW s \in Sesiones, NEW L, Concedidos(s, L), UNCHANGED catalogo,
           candados'[s] = candados[s] \cup L,
           \A tabla \in Tablas :
              /\ tabla \in vaciadas'[s] =>
                    \/ tabla \in vaciadas[s]
                    \/ <<tabla, "X">> \in L
                    \/ <<tabla, "S">> \in L /\ catalogo[tabla] = {}
              /\ propio'[s][tabla] # {} => propio[s][tabla] # {} \/ <<tabla, "X">> \in L,
           \A t \in Sesiones \ {s} : Ajena(t)
    PROVE  Cerrojos'
  <1>1. ASSUME NEW r \in Sesiones, NEW tabla \in Tablas
        PROVE  Cubierta(r, tabla)'
    <2>1. Cubierta(r, tabla)
      BY DEF Cerrojos
    <2>2. CASE r = s
      BY <2>1, <2>2 DEF Cubierta
    <2>3. CASE r # s
      BY <2>1, <2>3 DEF Cubierta, Ajena
    <2> QED
      BY <2>2, <2>3
  <1>2. ASSUME NEW r \in Sesiones, NEW tabla \in Tablas, NEW t \in Sesiones \ {r}
        PROVE  Exclusiva(r, t, tabla)'
    <2>0. Exclusiva(r, t, tabla)
      BY DEF Cerrojos
    <2> SUFFICES ASSUME <<tabla, "X">> \in candados'[r]
                 PROVE  candados'[t] \cap {<<tabla, "S">>, <<tabla, "X">>} = {}
      BY DEF Exclusiva
    <2>1. CASE r = s
      <3>1. candados'[t] = candados[t]
        BY <2>1 DEF Ajena
      <3>2. <<tabla, "X">> \notin candados[t] /\ <<tabla, "S">> \notin candados[t]
        BY <2>0, <2>1, Concesion DEF Exclusiva
      <3> QED
        BY <3>1, <3>2
    <2>2. CASE r # s /\ t = s
      <3>1. <<tabla, "X">> \in candados[r]
        BY <2>2 DEF Ajena
      <3>2. <<tabla, "X">> \notin L /\ <<tabla, "S">> \notin L
        BY <2>2, <3>1, Concesion
      <3>3. <<tabla, "X">> \notin candados[s] /\ <<tabla, "S">> \notin candados[s]
        BY <2>0, <2>2, <3>1 DEF Exclusiva
      <3> QED
        BY <2>2, <3>2, <3>3
    <2>3. CASE r # s /\ t # s
      BY <2>0, <2>3 DEF Exclusiva, Ajena
    <2> QED
      BY <2>1, <2>2, <2>3
  <1> QED
    BY <1>1, <1>2 DEF Cerrojos

(* A session that lets go of its locks, once what it commits is covered.   *)
LEMMA Libera ==
    ASSUME Cerrojos, NEW s \in Sesiones,
           vaciadas'[s] = {}, propio'[s] = SinFilas, candados'[s] = {},
           \A t \in Sesiones \ {s} : Ajena(t),
           \A t \in Sesiones \ {s} : \A tabla \in vaciadas[t] :
              catalogo'[tabla] = catalogo[tabla]
    PROVE  Cerrojos'
  <1>1. ASSUME NEW r \in Sesiones, NEW tabla \in Tablas
        PROVE  Cubierta(r, tabla)'
    <2>1. Cubierta(r, tabla)
      BY DEF Cerrojos
    <2>2. CASE r = s
      <3>1. SinFilas[tabla] = {}
        BY DEF SinFilas, Tablas
      <3> QED
        BY <2>2, <3>1 DEF Cubierta
    <2>3. CASE r # s
      BY <2>1, <2>3 DEF Cubierta, Ajena
    <2> QED
      BY <2>2, <2>3
  <1>2. ASSUME NEW r \in Sesiones, NEW tabla \in Tablas, NEW t \in Sesiones \ {r}
        PROVE  Exclusiva(r, t, tabla)'
    <2>1. Exclusiva(r, t, tabla)
      BY DEF Cerrojos
    <2>2. /\ candados'[t] = candados[t] \/ candados'[t] = {}
          /\ candados'[r] = candados[r] \/ candados'[r] = {}
      BY DEF Ajena
    <2> QED
      BY <2>1, <2>2 DEF Exclusiva
  <1> QED
    BY <1>1, <1>2 DEF Cerrojos

(* The end of a call.                                                      *)
LEMMA TerminadaLibera ==
    ASSUME TypeOK, NEW s \in Sesiones, Terminada(s)
    PROVE  /\ pc'[s] = "libre"
           /\ vaciadas'[s] = {} /\ propio'[s] = SinFilas /\ candados'[s] = {}
           /\ \A t \in Sesiones \ {s} : Ajena(t)
  BY TiposDeTabla DEF Terminada, Responde, CierraTx, Ajena

LEMMA TerminadaCerrojos ==
    ASSUME TypeOK, Cerrojos, NEW s \in Sesiones, Terminada(s), UNCHANGED catalogo
    PROVE  Cerrojos'
  BY TerminadaLibera, Libera

LEMMA QuietoCerrojos ==
    ASSUME Cerrojos, UNCHANGED <<catalogo, vaciadas, propio, candados>>
    PROVE  Cerrojos'
  <1>1. ASSUME NEW s \in Sesiones, NEW tabla \in Tablas
        PROVE  Cubierta(s, tabla)'
    BY DEF Cerrojos, Cubierta
  <1>2. ASSUME NEW s \in Sesiones, NEW tabla \in Tablas, NEW t \in Sesiones \ {s}
        PROVE  Exclusiva(s, t, tabla)'
    BY DEF Cerrojos, Exclusiva
  <1> QED
    BY <1>1, <1>2 DEF Cerrojos

(* DELETE empties the table it locks, and INSERT adds to the one it locks. *)
LEMMA BorraCerrojos ==
    ASSUME TypeOK, Cerrojos, NEW s \in Sesiones, NEW en \in DOMAIN Borra, NEW sigue,
           BorraTabla(s, en, sigue)
    PROVE  Cerrojos' /\ UNCHANGED catalogo
  <1>1. CASE SqlException(s) /\ Fijo
    BY <1>1, SqlExceptionTipo, TerminadaCerrojos
  <1>2. CASE /\ vaciadas' = [vaciadas EXCEPT ![s] = @ \cup {Borra[en]}]
             /\ propio'   = [propio EXCEPT ![s][Borra[en]] = {}]
             /\ candados' = [candados EXCEPT ![s] = @ \cup Pide(s)]
             /\ UNCHANGED <<catalogo, temporal>>
    <2>1. PICK L, b : L = Pide(s) /\ b = Borra[en]
      OBVIOUS
    <2>2. L = {<<b, IF catalogo[b] = {} THEN "S" ELSE "X">>}
      BY <2>1 DEF Pide, BorraTabla
    <2>3. Concedidos(s, L)
      BY <2>1 DEF BorraTabla
    <2>4. /\ candados'[s] = candados[s] \cup L /\ vaciadas'[s] = vaciadas[s] \cup {b}
          /\ propio'[s] = [propio[s] EXCEPT ![b] = {}]
          /\ \A t \in Sesiones \ {s} : Ajena(t)
      BY <1>2, <2>1, TiposDeTabla DEF Ajena
    <2>5. ASSUME NEW tabla \in Tablas
          PROVE  /\ tabla \in vaciadas'[s] =>
                       \/ tabla \in vaciadas[s]
                       \/ <<tabla, "X">> \in L
                       \/ <<tabla, "S">> \in L /\ catalogo[tabla] = {}
                 /\ propio'[s][tabla] # {} => propio[s][tabla] # {} \/ <<tabla, "X">> \in L
      <3>1. tabla \in vaciadas'[s] =>
                       \/ tabla \in vaciadas[s]
                       \/ <<tabla, "X">> \in L
                       \/ <<tabla, "S">> \in L /\ catalogo[tabla] = {}
        BY <2>2, <2>4
      <3>2. propio[s] \in Catalogos
        BY TiposDeTabla
      <3>3. tabla \in DOMAIN propio[s]
        BY <3>2 DEF Catalogos, Tablas
      <3> QED
        BY <2>4, <3>1, <3>3
    <2> QED
      BY <1>2, <2>3, <2>4, <2>5, Adquiere
  <1> QED
    BY <1>1, <1>2 DEF BorraTabla

LEMMA InsertaCerrojos ==
    ASSUME TypeOK, Cerrojos, NEW s \in Sesiones, NEW en \in DOMAIN Inserta,
           NEW filas \in SUBSET Seleccion(s), NEW sigue, InsertaFilas(s, en, filas, sigue)
    PROVE  Cerrojos' /\ UNCHANGED catalogo
  <1>1. CASE SqlException(s) /\ Fijo
    BY <1>1, SqlExceptionTipo, TerminadaCerrojos
  <1>2. CASE /\ propio'   = [propio EXCEPT ![s][Inserta[en]] = @ \cup filas]
             /\ candados' = [candados EXCEPT ![s] = @ \cup Pide(s)]
             /\ UNCHANGED <<catalogo, vaciadas, temporal>>
    <2>1. PICK L, b : L = Pide(s) /\ b = Inserta[en]
      OBVIOUS
    <2>2. pc[s] = en /\ Concedidos(s, L)
      BY <2>1 DEF InsertaFilas
    <2>3. filas # {} => <<b, "X">> \in L
      <3>1. en \notin DOMAIN Borra
        BY DEF Borra, Inserta
      <3>2. filas # {} => Seleccion(s) # {}
        OBVIOUS
      <3> QED
        BY <2>1, <2>2, <3>1, <3>2 DEF Pide
    <2>4. /\ candados'[s] = candados[s] \cup L /\ vaciadas'[s] = vaciadas[s]
          /\ propio'[s] = [propio[s] EXCEPT ![b] = @ \cup filas]
          /\ \A t \in Sesiones \ {s} : Ajena(t)
      BY <1>2, <2>1, TiposDeTabla DEF Ajena
    <2>5. ASSUME NEW tabla \in Tablas
          PROVE  propio'[s][tabla] # {} => propio[s][tabla] # {} \/ <<tabla, "X">> \in L
      <3>1. propio[s] \in Catalogos
        BY TiposDeTabla
      <3>2. tabla \in DOMAIN propio[s]
        BY <3>1 DEF Catalogos, Tablas
      <3> QED
        BY <2>3, <2>4, <3>2
    <2> QED
      BY <1>2, <2>2, <2>4, <2>5, Adquiere
  <1> QED
    BY <1>1, <1>2 DEF InsertaFilas

LEMMA VaciaCerrojos ==
    ASSUME TypeOK, Cerrojos, NEW s \in Sesiones, Vacia(s)
    PROVE  Cerrojos' /\ UNCHANGED catalogo
  <1>1. PICK en, sigue : BorraTabla(s, en, sigue) /\ en \in DOMAIN Borra
    <2>1. {"d_relacion", "d_oficinas", "d_asentamientos", "d_tipos", "d_ciudades",
           "d_municipios", "d_estados"} \subseteq DOMAIN Borra
      BY DEF Borra
    <2>2. PICK en, sigue :
             /\ BorraTabla(s, en, sigue)
             /\ en \in {"d_relacion", "d_oficinas", "d_asentamientos", "d_tipos", "d_ciudades",
                        "d_municipios", "d_estados"}
      BY Zenon DEF Vacia
    <2> QED
      BY <2>1, <2>2
  <1> QED
    BY <1>1, BorraCerrojos

LEMMA LlenaCerrojos ==
    ASSUME TypeOK, Cerrojos, NEW s \in Sesiones, Llena(s)
    PROVE  Cerrojos' /\ UNCHANGED catalogo
  <1>1. CASE \E en \in DOMAIN Inserta, filas \in SUBSET Seleccion(s) :
                \E sigue : InsertaFilas(s, en, filas, sigue)
    BY <1>1, InsertaCerrojos
  <1>2. CASE UNCHANGED <<catalogo, tx>>
    BY <1>2, QuietoCerrojos DEF tx
  <1>3. CASE InsertaEstados(s)
    BY <1>1, <1>3, Nombradas DEF InsertaEstados
  <1>4. CASE InsertaMunicipios(s)
    BY <1>1, <1>4, Nombradas DEF InsertaMunicipios
  <1>5. CASE InsertaCiudades(s)
    <2>1. \A cs, es : CiudadesIgnorando(cs, es) \subseteq SUBSET cs
      BY DEF CiudadesIgnorando
    <2> QED
      BY <1>1, <1>5, <2>1, Nombradas DEF InsertaCiudades
  <1>6. CASE InsertaTipos(s)
    BY <1>1, <1>6, Nombradas DEF InsertaTipos
  <1>7. CASE CreaTemporal(s) \/ SueltaTemporal(s)
    BY <1>2, <1>7 DEF CreaTemporal, SueltaTemporal, Temporal
  <1>8. CASE InsertaAsentamientos(s)
    BY <1>1, <1>8, Nombradas DEF InsertaAsentamientos
  <1>9. CASE InsertaOficinas(s)
    <2>1. \A os, cs : OficinasIgnorando(os, cs) \subseteq SUBSET os
      BY DEF OficinasIgnorando
    <2> QED
      BY <1>1, <1>9, <2>1, Nombradas DEF InsertaOficinas
  <1>10. CASE InsertaRelacion(s)
    BY <1>1, <1>10, Nombradas DEF InsertaRelacion
  <1> QED
    BY <1>3, <1>4, <1>5, <1>6, <1>7, <1>8, <1>9, <1>10 DEF Llena

(* What a session has emptied stays as it was, or empty, when another      *)
(* commits.                                                                *)
LEMMA ConfirmaCerrojos ==
    ASSUME TypeOK, Avance, Cerrojos, NEW s \in Sesiones, Confirma(s)
    PROVE  /\ Cerrojos' /\ pc'[s] = "libre"
           /\ \A t \in Sesiones \ {s} : \A tabla \in vaciadas[t] :
                 catalogo'[tabla] = catalogo[tabla]
  <1>1. Terminada(s)
    BY DEF Confirma, Commit, Terminada
  <1>2. catalogo' = propio[s] /\ vaciadas[s] = Tablas
    <2>1. pc[s] = "commit" /\ catalogo' = propio[s]
      BY ConfirmaPaso
    <2> QED
      BY <2>1 DEF Avance, Avanzada, Bloqueada, TrasVaciar, TrasEstados, TrasMunicipios,
                  TrasCiudades, TrasTipos, TrasAsentamientos, TrasOficinas, TrasRelacion
  <1>3. ASSUME NEW t \in Sesiones \ {s}, NEW tabla \in vaciadas[t]
        PROVE  catalogo'[tabla] = catalogo[tabla]
    <2>1. tabla \in Tablas
      BY TiposDeTabla
    <2>2. /\ Cubierta(t, tabla) /\ Cubierta(s, tabla)
          /\ Exclusiva(t, s, tabla) /\ Exclusiva(s, t, tabla)
      BY <2>1 DEF Cerrojos
    <2>3. <<tabla, "X">> \notin candados[t]
      BY <1>2, <2>1, <2>2 DEF Cubierta, Exclusiva
    <2>4. catalogo[tabla] = {} /\ <<tabla, "S">> \in candados[t]
      BY <2>2, <2>3 DEF Cubierta
    <2>5. propio[s][tabla] = {}
      BY <2>2, <2>4 DEF Cubierta, Exclusiva
    <2> QED
      BY <1>2, <2>4, <2>5
  <1> QED
    BY <1>1, <1>3, TerminadaLibera, Libera

LEMMA CerrojosPaso ==
    ASSUME IInv, Cerrojos, [Next]_vars
    PROVE  /\ Cerrojos'
           /\ \A s \in Sesiones :
                 pc'[s] # "libre" =>
                    \A tabla \in vaciadas[s] : catalogo'[tabla] = catalogo[tabla]
  <1>0. TypeOK /\ Avance
    BY DEF IInv
  <1>1. CASE Cerrojos' /\ UNCHANGED catalogo
    BY <1>1
  <1>2. ASSUME NEW s \in Sesiones, NEW p \in Procedimientos, Migrar(s, p)
        PROVE  Cerrojos' /\ UNCHANGED catalogo
    <2>1. UNCHANGED catalogo
      BY <1>0, <1>2, MigrarPaso
    <2>2. /\ vaciadas'[s] = {} /\ propio'[s] = SinFilas /\ candados'[s] = {}
          /\ \A t \in Sesiones \ {s} : Ajena(t)
      <3>1. CierraTx(s)
        BY <1>2, Zenon DEF Migrar, Commit
      <3> QED
        BY <1>0, <3>1, TiposDeTabla DEF CierraTx, Ajena
    <2> QED
      BY <2>1, <2>2, Libera
  <1>3. ASSUME NEW s \in Sesiones, Vacia(s) \/ Llena(s)
        PROVE  Cerrojos' /\ UNCHANGED catalogo
    BY <1>0, <1>3, VaciaCerrojos, LlenaCerrojos
  <1>4. CASE \E s \in Sesiones : Confirma(s)
    <2>1. PICK s \in Sesiones : Confirma(s)
      BY <1>4
    <2> QED
      BY <1>0, <2>1, ConfirmaCerrojos
  <1>5. ASSUME NEW s \in Sesiones, Vence(s) \/ Corte(s)
        PROVE  Cerrojos' /\ UNCHANGED catalogo
    <2>1. Terminada(s) /\ UNCHANGED catalogo
      <3>1. CASE Vence(s)
        BY <1>0, <3>1, SqlExceptionTipo DEF Vence
      <3>2. CASE Corte(s)
        BY <3>2 DEF Corte, Rollback, Terminada
      <3> QED
        BY <1>5, <3>1, <3>2
    <2> QED
      BY <1>0, <2>1, TerminadaCerrojos
  <1>6. ASSUME Carga \/ UNCHANGED vars \/ \E tabla \in ConCodigo : Ensancha(tabla)
        PROVE  Cerrojos' /\ UNCHANGED catalogo
    <2>1. UNCHANGED <<catalogo, vaciadas, propio, candados>>
      BY <1>6 DEF Carga, Ensancha, vars, tx
    <2> QED
      BY <2>1, QuietoCerrojos
  <1> QED
    BY <1>1, <1>2, <1>3, <1>4, <1>5, <1>6 DEF Next, Avanza

(* No two sessions hold locks that exclude each other, and what a session  *)
(* has emptied or inserted is locked, or was empty to begin with           *)
(* (sepomex_migration_proc.sql:16-150).                                    *)
THEOREM CerrojosSiempre == Spec => []Cerrojos
  <1>1. Init => Cerrojos
    <2> SUFFICES ASSUME Init PROVE Cerrojos
      OBVIOUS
    <2>1. \A s \in Sesiones : vaciadas[s] = {} /\ propio[s] = SinFilas /\ candados[s] = {}
      BY Zenon DEF Init
    <2>2. \A tabla \in Tablas : SinFilas[tabla] = {}
      BY DEF SinFilas, Tablas
    <2>3. \A s \in Sesiones, tabla \in Tablas : Cubierta(s, tabla)
      BY <2>1, <2>2 DEF Cubierta
    <2>4. \A s \in Sesiones, tabla \in Tablas : \A t \in Sesiones \ {s} : Exclusiva(s, t, tabla)
      BY <2>1 DEF Exclusiva
    <2> QED
      BY <2>3, <2>4 DEF Cerrojos
  <1>2. IInv /\ Cerrojos /\ [Next]_vars => Cerrojos'
    BY CerrojosPaso
  <1> QED
    BY <1>1, <1>2, InvarianteMigracion, PTL DEF Spec

(* No lost update: of two migrations that have emptied the same tables at  *)
(* most one fills them, and neither undoes what the other commits          *)
(* (sepomex_migration_proc.sql:16-150).                                    *)
THEOREM SinPisarSiempre == Spec => SinPisar
  <1>1. IInv /\ Cerrojos /\ [Next]_vars =>
          [\A s \in Sesiones :
              pc'[s] # "libre" =>
                 \A tabla \in vaciadas[s] : catalogo'[tabla] = catalogo[tabla]]_vars
    BY CerrojosPaso
  <1> QED
    BY <1>1, InvarianteMigracion, CerrojosSiempre, PTL DEF Spec, SinPisar

-----------------------------------------------------------------------------
(* Searches. *)

(* Where the settlements and the municipalities of a catalogue come from.  *)
LEMMA Procedencia ==
    ASSUME IInv, NEW s \in Sesiones, pc[s] = "commit"
    PROVE  /\ \A a \in propio[s].Asentamientos : \E f \in plana :
                 Podar(f.d_asenta) = Podar(a.d_asenta) /\ f.c_mnpio = a.c_mnpio
           /\ \A m \in propio[s].Municipios : \E f \in plana :
                 f.c_mnpio = m.c_mnpio /\ f.c_estado = m.c_estado /\ Positivo(f.c_mnpio)
  <1>1. ASSUME NEW m \in propio[s].Municipios
        PROVE  \E f \in plana :
                  f.c_mnpio = m.c_mnpio /\ f.c_estado = m.c_estado /\ Positivo(f.c_mnpio)
    BY <1>1, Confirmado DEF MunicipiosDe
  <1>2. ASSUME NEW a \in propio[s].Asentamientos
        PROVE  \E f \in plana : /\ Podar(f.d_asenta) = Podar(a.d_asenta)
                                /\ f.c_mnpio = a.c_mnpio
    <2>1. CASE proc[s] = "original"
      BY <1>2, <2>1, Confirmado DEF AsentamientosDe
    <2>2. CASE proc[s] = "limpio"
      <3>1. a \in LimpiosDe(TemporalDe(plana))
        BY <1>2, <2>2, Confirmado
      <3>2. PICK t \in TemporalDe(plana) : t.d_asenta = a.d_asenta /\ t.c_mnpio = a.c_mnpio
        BY <3>1 DEF LimpiosDe
      <3>3. PICK f \in plana : t = FilaTemporal(f) /\ ConTexto(f.d_asenta)
        BY <3>2 DEF TemporalDe
      <3>4. t.d_asenta = Podar(f.d_asenta) /\ t.c_mnpio = f.c_mnpio
        BY <3>3 DEF FilaTemporal
      <3>5. f.d_asenta \in Nombres
        <4>1. plana \in Planas
          BY Zenon DEF IInv, TypeOK
        <4> QED
          BY <3>3, <4>1, PlanasAssumption DEF FilasPlanas, ConTexto
      <3>6. Podar(Podar(f.d_asenta)) = Podar(f.d_asenta)
        BY <3>5, TextosLimpios
      <3> QED
        BY <3>2, <3>4, <3>6
    <2> QED
      BY <2>1, <2>2, Confirmado
  <1> QED
    BY <1>1, <1>2

(* Where the run `colonias` finds a settlement in a state it is not in:    *)
(* numbers of municipalities that two states share are all there is to it. *)
(* Over a flat table that has none, such as that of one state, a search    *)
(* after either migration answers the municipality and the state of each   *)
(* settlement (Scrip_de_CodigosPostales.sql:141-170).                      *)
THEOREM BusquedaPropiaSinRepetidos ==
    ASSUME \A P \in Planas : \A f, g \in P :
              Positivo(f.c_mnpio) /\ f.c_mnpio = g.c_mnpio => f.c_estado = g.c_estado
    PROVE  Spec => BusquedaPropia
  <1>1. ASSUME IInv, IInv', [Next]_vars, NEW s \in Sesiones, Contesta(s, "completada"),
               NEW g \in plana,
               NEW h \in BuscarColoniasPorNombre(catalogo', g.d_asenta, NULL)
        PROVE  \E f \in plana : /\ Podar(f.d_asenta) = Podar(h.a.d_asenta)
                                /\ f.c_mnpio = h.c_mnpio
                                /\ f.c_estado = h.c_estado
    <2>1. PICK c : c = propio[s] /\ c = catalogo'
      BY <1>1, AlCompletar
    <2>2. pc[s] = "commit" /\ plana \in Planas
      BY <1>1, AlCompletar, Zenon DEF IInv, TypeOK
    <2>3. PICK a \in c.Asentamientos, m \in c.Municipios :
             /\ a.c_mnpio = m.c_mnpio
             /\ h = [a |-> a, c_mnpio |-> m.c_mnpio, c_estado |-> m.c_estado]
      <3> DEFINE as == {a \in c.Asentamientos : g.d_asenta \notin NombresLargos
                                                 /\ Contiene(a.d_asenta, g.d_asenta)}
      <3>1. h \in Hallazgos(c, as)
        BY <1>1, <2>1 DEF BuscarColoniasPorNombre
      <3>2. PICK q \in as \X c.Municipios :
               /\ q[1].c_mnpio = q[2].c_mnpio
               /\ h = [a |-> q[1], c_mnpio |-> q[2].c_mnpio, c_estado |-> q[2].c_estado]
        BY <3>1 DEF Hallazgos
      <3> QED
        BY <3>2
    <2>4. PICK f \in plana : /\ Podar(f.d_asenta) = Podar(a.d_asenta)
                            /\ f.c_mnpio = a.c_mnpio
      BY <1>1, <2>1, <2>2, Procedencia
    <2>5. PICK e \in plana :
             e.c_mnpio = m.c_mnpio /\ e.c_estado = m.c_estado /\ Positivo(e.c_mnpio)
      <3>1. m \in propio[s].Municipios
        BY <2>1
      <3> QED
        BY <1>1, <2>2, <3>1, Procedencia
    <2>6. f.c_estado = e.c_estado
      BY <2>2, <2>3, <2>4, <2>5
    <2> QED
      BY <2>3, <2>4, <2>5, <2>6
  <1>2. IInv /\ IInv' /\ [Next]_vars =>
          [\A s \in Sesiones :
              Contesta(s, "completada") =>
                 \A g \in plana :
                    \A h \in BuscarColoniasPorNombre(catalogo', g.d_asenta, NULL) :
                       \E f \in plana : /\ Podar(f.d_asenta) = Podar(h.a.d_asenta)
                                        /\ f.c_mnpio = h.c_mnpio
                                        /\ f.c_estado = h.c_estado]_vars
    BY <1>1
  <1> QED
    BY <1>2, InvarianteMigracion, PTL DEF Spec, BusquedaPropia
=============================================================================
