--------------------------- MODULE ContratoProofs ---------------------------
(***************************************************************************)
(* What follows from the contract of Llamadas alone, for any sessions and  *)
(* any arguments: the register keeps its constraints, ids are used once,   *)
(* and a member whose deletion was answered with success stays deleted.    *)
(***************************************************************************)
EXTENDS Llamadas, RegistroProofs

(* The texts of an argument are of their columns.                          *)
EntradasDeTexto ==
    \A p \in Entradas : /\ p.telefono.texto \in Telefonos \cup {NULL}
                        /\ p.correo.texto \in Correos \cup {NULL}

EnAlta(s)  == paso[s] \in {"alta", "verificada", "rechazada"}
Hallado(s) == paso[s] \in {"baja hallada", "segura hallada"}

(* Nobody has an id that was not given out, and what a deletion found was. *)
CInv ==
    /\ RInv
    /\ dados \subseteq Ids /\ IdsSocio(club) \subseteq dados
    /\ DOMAIN paso = Sesiones /\ DOMAIN alta = Sesiones
    /\ DOMAIN id = Sesiones /\ DOMAIN respuesta = Sesiones
    /\ \A s \in Sesiones : EnAlta(s) => alta[s] \in Entradas
    /\ \A s \in Sesiones : Hallado(s) => id[s] \in dados

(* A member whose deletion was answered with success is gone, and its id   *)
(* is spent.                                                               *)
EliminadosFuera ==
    \A s \in Sesiones :
       paso[s] = "libre" /\ respuesta[s] = "eliminado" =>
          id[s] \in dados /\ id[s] \notin IdsSocio(club)

-----------------------------------------------------------------------------
(* What a step does to a call: the arguments it may read later, what it    *)
(* has found, and, in a session whose answer is of a deletion, the member. *)
Llamada(s) ==
    /\ EnAlta(s)' => alta'[s] \in Entradas
    /\ Hallado(s)' => id'[s] \in dados'
    /\ paso'[s] = "libre" /\ respuesta'[s] = "eliminado" =>
          id'[s] \in dados' /\ id'[s] \notin IdsSocio(club')

(* Ids are given out once: those given out stay so, and one that nobody    *)
(* has nobody gets.                                                        *)
SinVolver == \A i \in dados : /\ i \in dados'
                              /\ i \notin IdsSocio(club) => i \notin IdsSocio(club')

(* What a step does to the tables.                                         *)
Tablas ==
    /\ [RNext]_club
    /\ dados' \subseteq Ids /\ IdsSocio(club') \subseteq dados' /\ SinVolver

Dominios == /\ DOMAIN paso' = Sesiones /\ DOMAIN alta' = Sesiones
            /\ DOMAIN id' = Sesiones /\ DOMAIN respuesta' = Sesiones

(* A session that takes no step is where it was.                           *)
LEMMA OtraLlamada ==
    ASSUME CInv, EliminadosFuera, SinVolver, NEW t \in Sesiones,
           paso'[t] = paso[t], alta'[t] = alta[t], id'[t] = id[t],
           respuesta'[t] = respuesta[t]
    PROVE  Llamada(t)
  BY DEF CInv, EliminadosFuera, SinVolver, Llamada, EnAlta, Hallado

(* A step of session s leaves the other sessions alone.                    *)
LEMMA PasoDeUna ==
    ASSUME CInv, NEW s \in Sesiones,
           (\E p : Pasa(s, p)) \/ (\E r : Contesta(s, r)),
           \/ UNCHANGED llamada
           \/ (\E p : alta' = [alta EXCEPT ![s] = p]) /\ UNCHANGED id
           \/ (\E i : id' = [id EXCEPT ![s] = i]) /\ UNCHANGED alta
    PROVE  /\ Dominios
           /\ \A t \in Sesiones \ {s} :
                 /\ paso'[t] = paso[t] /\ alta'[t] = alta[t]
                 /\ id'[t] = id[t] /\ respuesta'[t] = respuesta[t]
  BY DEF CInv, Pasa, Contesta, llamada, Dominios

LEMMA SinTablas ==
    ASSUME CInv, UNCHANGED <<club, dados>>
    PROVE  Tablas
  BY DEF CInv, Tablas, SinVolver

-----------------------------------------------------------------------------
(* One lemma per operation. *)

LEMMA PedirAltaPaso ==
    ASSUME CInv, EliminadosFuera, NEW s \in Sesiones, NEW p \in Entradas, PedirAlta(s, p)
    PROVE  Tablas /\ Dominios /\ \A t \in Sesiones : Llamada(t)
  <1>1. Tablas
    BY SinTablas DEF PedirAlta
  <1>2. (\E q : Pasa(s, q)) \/ (\E r : Contesta(s, r))
    BY DEF PedirAlta
  <1>3. /\ Dominios
        /\ \A t \in Sesiones \ {s} : /\ paso'[t] = paso[t] /\ alta'[t] = alta[t]
                                     /\ id'[t] = id[t] /\ respuesta'[t] = respuesta[t]
    BY <1>2, PasoDeUna DEF PedirAlta
  <1>4. Llamada(s)
    <2>1. alta'[s] = p
      BY DEF PedirAlta, CInv
    <2>2. CASE Contesta(s, "falta")
      BY <2>2 DEF Contesta, CInv, Llamada, EnAlta, Hallado
    <2>3. CASE Pasa(s, "verificada") \/ Pasa(s, "alta")
      BY <2>1, <2>3 DEF Pasa, CInv, Llamada, EnAlta, Hallado
    <2> QED
      BY <2>2, <2>3 DEF PedirAlta
  <1> QED
    BY <1>1, <1>3, <1>4, OtraLlamada DEF Tablas

(* The statements that look up, and the answers that refuse.               *)
LEMMA BuscaPaso ==
    ASSUME CInv, EliminadosFuera, NEW s \in Sesiones,
           \/ Verifica(s) \/ TelefonoRepetido(s) \/ CorreoRepetido(s)
           \/ Halla(s) \/ NoHalla(s) \/ ConBarcos(s)
    PROVE  Tablas /\ Dominios /\ \A t \in Sesiones : Llamada(t)
  <1>1. /\ UNCHANGED <<club, dados, llamada>>
        /\ \/ EnAlta(s) /\ (Pasa(s, "rechazada") \/ Pasa(s, "verificada"))
           \/ id[s] \in IdsSocio(club)
              /\ (Pasa(s, "baja hallada") \/ Pasa(s, "segura hallada"))
           \/ \E r \in {"telefono", "correo", "no existe", "con barcos"} : Contesta(s, r)
    <2>1. ASSUME Verifica(s)
          PROVE  /\ UNCHANGED <<club, dados, llamada>> /\ EnAlta(s)
                 /\ Pasa(s, "rechazada") \/ Pasa(s, "verificada")
      BY <2>1, Zenon DEF Verifica, EnAlta
    <2>2. ASSUME Halla(s)
          PROVE  /\ UNCHANGED <<club, dados, llamada>> /\ id[s] \in IdsSocio(club)
                 /\ Pasa(s, "baja hallada") \/ Pasa(s, "segura hallada")
      <3>1. paso[s] = "baja" \/ paso[s] = "segura"
        BY <2>2 DEF Halla, Hallada
      <3>2. Hallada["baja"] = "baja hallada" /\ Hallada["segura"] = "segura hallada"
        BY Zenon DEF Hallada
      <3> QED
        BY <2>2, <3>1, <3>2, Zenon DEF Halla
    <2>3. ASSUME TelefonoRepetido(s) \/ CorreoRepetido(s) \/ NoHalla(s) \/ ConBarcos(s)
          PROVE  /\ UNCHANGED <<club, dados, llamada>>
                 /\ \E r \in {"telefono", "correo", "no existe", "con barcos"} : Contesta(s, r)
      BY <2>3, Zenon DEF TelefonoRepetido, CorreoRepetido, NoHalla, ConBarcos
    <2> QED
      BY <2>1, <2>2, <2>3, Zenon
  <1>2. Tablas
    BY <1>1, SinTablas
  <1>3. /\ Dominios
        /\ \A t \in Sesiones \ {s} : /\ paso'[t] = paso[t] /\ alta'[t] = alta[t]
                                     /\ id'[t] = id[t] /\ respuesta'[t] = respuesta[t]
    BY <1>1, PasoDeUna
  <1>4. Llamada(s)
    BY <1>1 DEF Pasa, Contesta, CInv, Llamada, EnAlta, Hallado, llamada
  <1> QED
    BY <1>2, <1>3, <1>4, OtraLlamada DEF Tablas

LEMMA InscribePaso ==
    ASSUME EntradasDeTexto, CInv, EliminadosFuera, NEW s \in Sesiones, Inscribe(s)
    PROVE  Tablas /\ Dominios /\ \A t \in Sesiones : Llamada(t)
  <1> DEFINE fila(i) == [id_socio |-> i, telefono |-> alta[s].telefono.texto,
                         correo |-> alta[s].correo.texto]
  <1>0. PICK i \in Ids \ dados : Inscribir(fila(i)) /\ dados' = dados \cup {i}
    BY DEF Inscribe
  <1>1. PICK q : q = fila(i) /\ Inscribir(q) /\ dados' = dados \cup {i}
    BY <1>0
  <1>2. q \in FilasSocio
    <2>1. alta[s] \in Entradas
      BY DEF Inscribe, CInv, EnAlta
    <2> QED
      BY <1>1, <2>1 DEF EntradasDeTexto, FilasSocio
  <1>3. IdsSocio(club') = IdsSocio(club) \cup {i}
    <2>1. club'.Socio = club.Socio \cup {q}
      BY <1>1 DEF Inscribir, CInv, RInv, BasesDeDatos
    <2> QED
      BY <1>1, <2>1 DEF IdsSocio
  <1>4. Tablas
    BY <1>1, <1>2, <1>3 DEF Tablas, SinVolver, CInv, RNext
  <1>5. (\E r \in {"guardado", "corte"} : Contesta(s, r)) /\ UNCHANGED llamada
    BY DEF Inscribe
  <1>6. /\ Dominios
        /\ \A t \in Sesiones \ {s} : /\ paso'[t] = paso[t] /\ alta'[t] = alta[t]
                                     /\ id'[t] = id[t] /\ respuesta'[t] = respuesta[t]
    BY <1>5, PasoDeUna
  <1>7. Llamada(s)
    BY <1>5 DEF Contesta, CInv, Llamada, EnAlta, Hallado
  <1> QED
    BY <1>4, <1>6, <1>7, OtraLlamada DEF Tablas

LEMMA PedirBajaPaso ==
    ASSUME CInv, EliminadosFuera, NEW s \in Sesiones, NEW i \in Ids, PedirBaja(s, i)
    PROVE  Tablas /\ Dominios /\ \A t \in Sesiones : Llamada(t)
  <1>1. Tablas
    BY SinTablas DEF PedirBaja
  <1>2. Pasa(s, "baja") \/ Pasa(s, "segura")
    BY DEF PedirBaja, Hallada
  <1>3. /\ Dominios
        /\ \A t \in Sesiones \ {s} : /\ paso'[t] = paso[t] /\ alta'[t] = alta[t]
                                     /\ id'[t] = id[t] /\ respuesta'[t] = respuesta[t]
    BY <1>2, PasoDeUna DEF PedirBaja
  <1>4. Llamada(s)
    BY <1>2 DEF Pasa, CInv, Llamada, EnAlta, Hallado
  <1> QED
    BY <1>1, <1>3, <1>4, OtraLlamada DEF Tablas

(* The member that was found is gone, deleted now or before.               *)
LEMMA EliminaPaso ==
    ASSUME CInv, EliminadosFuera, NEW s \in Sesiones, Elimina(s)
    PROVE  Tablas /\ Dominios /\ \A t \in Sesiones : Llamada(t)
  <1>1. /\ [RNext]_club /\ IdsSocio(club') \subseteq IdsSocio(club)
        /\ id[s] \notin IdsSocio(club')
    <2>1. CASE id[s] \notin IdsSocio(club) /\ UNCHANGED club
      BY <2>1
    <2>2. CASE \E r \in club.Socio : r.id_socio = id[s] /\ DarDeBaja(r)
      <3>1. PICK r \in club.Socio : r.id_socio = id[s] /\ DarDeBaja(r)
        BY <2>2
      <3>2. r \in FilasSocio
        BY DEF CInv, RInv, BasesDeDatos
      <3>3. club'.Socio = club.Socio \ {r}
        BY <3>1, <3>2, DarDeBajaDeja DEF CInv
      <3>4. RNext
        BY <3>1, <3>2 DEF RNext
      <3> QED
        BY <3>1, <3>3, <3>4 DEF IdsSocio, CInv, RInv, Restricciones, ClavesPrimarias
    <2> QED
      BY <2>1, <2>2 DEF Elimina
  <1>2. UNCHANGED <<dados, llamada>> /\ \E r \in {"eliminado", "corte"} : Contesta(s, r)
    BY DEF Elimina
  <1>3. Tablas
    BY <1>1, <1>2 DEF Tablas, SinVolver, CInv
  <1>4. /\ Dominios
        /\ \A t \in Sesiones \ {s} : /\ paso'[t] = paso[t] /\ alta'[t] = alta[t]
                                     /\ id'[t] = id[t] /\ respuesta'[t] = respuesta[t]
    BY <1>2, PasoDeUna
  <1>5. id[s] \in dados
    BY DEF Elimina, CInv, Hallado
  <1>6. Llamada(s)
    BY <1>1, <1>2, <1>5 DEF Contesta, CInv, Llamada, EnAlta, Hallado, llamada
  <1> QED
    BY <1>3, <1>4, <1>6, OtraLlamada DEF Tablas

LEMMA FallaPaso ==
    ASSUME CInv, EliminadosFuera, NEW s \in Sesiones, Falla(s)
    PROVE  Tablas /\ Dominios /\ \A t \in Sesiones : Llamada(t)
  <1>1. /\ UNCHANGED <<club, llamada>> /\ dados \subseteq dados' /\ dados' \subseteq Ids
        /\ \E r \in {"excepcion", "corte"} : Contesta(s, r)
    BY DEF Falla, CInv
  <1>2. Tablas
    BY <1>1 DEF Tablas, SinVolver, CInv
  <1>3. /\ Dominios
        /\ \A t \in Sesiones \ {s} : /\ paso'[t] = paso[t] /\ alta'[t] = alta[t]
                                     /\ id'[t] = id[t] /\ respuesta'[t] = respuesta[t]
    BY <1>1, PasoDeUna
  <1>4. Llamada(s)
    BY <1>1 DEF Contesta, CInv, Llamada, EnAlta, Hallado
  <1> QED
    BY <1>2, <1>3, <1>4, OtraLlamada DEF Tablas

LEMMA RegistraPaso ==
    ASSUME CInv, EliminadosFuera, Registra
    PROVE  Tablas /\ Dominios /\ \A t \in Sesiones : Llamada(t)
  <1>1. club'.Socio = club.Socio /\ [RNext]_club
    BY RegistrarTipo DEF Registra, CInv, RNext
  <1>2. Tablas
    BY <1>1 DEF Tablas, SinVolver, CInv, Registra, IdsSocio
  <1>3. UNCHANGED <<paso, alta, id, respuesta>>
    BY DEF Registra, llamada
  <1> QED
    BY <1>2, <1>3, OtraLlamada DEF Tablas, Dominios, CInv

LEMMA ContratoPaso ==
    ASSUME EntradasDeTexto, CInv, EliminadosFuera, [LNext]_lvars
    PROVE  CInv' /\ EliminadosFuera' /\ [RNext]_club /\ SinVolver
  <1>1. Tablas /\ Dominios /\ \A t \in Sesiones : Llamada(t)
    <2>1. CASE UNCHANGED lvars
      <3>1. UNCHANGED <<club, dados, paso, alta, id, respuesta>>
        BY <2>1 DEF lvars, llamada
      <3> QED
        BY <3>1, SinTablas, OtraLlamada DEF Tablas, Dominios, CInv
    <2> QED
      BY <2>1, PedirAltaPaso, BuscaPaso, InscribePaso, PedirBajaPaso, EliminaPaso, FallaPaso,
         RegistraPaso
      DEF LNext
  <1>2. RInv'
    BY <1>1, RNextTipo DEF CInv, Tablas
  <1>3. CInv'
    BY <1>1, <1>2 DEF CInv, Tablas, Dominios, Llamada
  <1>4. EliminadosFuera'
    BY <1>1 DEF EliminadosFuera, Llamada
  <1> QED
    BY <1>1, <1>3, <1>4 DEF Tablas

LEMMA ContratoInicio == LInit => CInv /\ EliminadosFuera
  BY DEF LInit, RInit, CInv, RInv, EliminadosFuera, EnAlta, Hallado

-----------------------------------------------------------------------------
(* The contract of the calls implements the register: what is proved of    *)
(* RegistroClub, its constraints and that nobody loses what is theirs,     *)
(* holds under any callers of the member procedures.                       *)
THEOREM ContratoSobreRegistro ==
    ASSUME EntradasDeTexto
    PROVE  LSpec => RSpec
  <1>1. LInit => RInit
    BY DEF LInit
  <1>2. CInv /\ EliminadosFuera /\ [LNext]_lvars
        => CInv' /\ EliminadosFuera' /\ [RNext]_club
    BY ContratoPaso
  <1> QED
    BY <1>1, <1>2, ContratoInicio, PTL DEF LSpec, RSpec

(* "Socio con ID ... eliminado exitosamente." (EliminarSocio.sql:54, 90)   *)
(* stays true by the contract alone, however the procedures keep it.       *)
THEOREM EliminadosFueraSiempre ==
    ASSUME EntradasDeTexto
    PROVE  LSpec => []EliminadosFuera
  <1>1. CInv /\ EliminadosFuera /\ [LNext]_lvars => CInv' /\ EliminadosFuera'
    BY ContratoPaso
  <1> QED
    BY <1>1, ContratoInicio, PTL DEF LSpec

(* An id that was ever a member's, and is nobody's, is never anybody's     *)
(* again (AUTO_INCREMENT, club.sql:4).                                     *)
THEOREM IdsUnaVez ==
    ASSUME EntradasDeTexto
    PROVE  LSpec => [][SinVolver]_lvars
  <1>1. CInv /\ EliminadosFuera /\ [LNext]_lvars
        => CInv' /\ EliminadosFuera' /\ [SinVolver]_lvars
    BY ContratoPaso
  <1> QED
    BY <1>1, ContratoInicio, PTL DEF LSpec
=============================================================================
