------------------------------ MODULE Llamadas ------------------------------
(***************************************************************************)
(* What a caller of the member procedures can rely on, whatever the other  *)
(* callers do meanwhile: the register changes by whole operations, and     *)
(* each answer says what was true of it at one moment of the call.  A call *)
(* is the moment it is made, the moment its answer is decided, where that  *)
(* is an earlier one, and the moment it ends.                              *)
(*                                                                         *)
(* A member is entered when, at one moment of the call, its telephone and  *)
(* its mail address were both nobody's; at another moment they may not be. *)
(* A deletion that is answered with success found the member, and leaves   *)
(* it deleted, by this call or by another.  Ids are given out once.        *)
(***************************************************************************)
EXTENDS RegistroClub

CONSTANTS Sesiones, Entradas

VARIABLES
    dados,          \* ids that are not to be given out any more
    paso,           \* what the call of each session has settled
    alta,           \* arguments of its last GuardarNuevoSocio
    id,             \* argument of its last EliminarSocio[Seguro]
    respuesta       \* how its last call ended

llamada == <<alta, id>>
lvars   == <<club, dados, paso, llamada, respuesta>>

(* A deletion that has found its member, by procedure.                     *)
Hallada == [baja |-> "baja hallada", segura |-> "segura hallada"]

Pasa(s, p) == paso' = [paso EXCEPT ![s] = p] /\ UNCHANGED respuesta

Contesta(s, r) ==
    /\ paso' = [paso EXCEPT ![s] = "libre"]
    /\ respuesta' = [respuesta EXCEPT ![s] = r]

Ocupado(columna, arg) == arg.texto # NULL /\ ~arg.sangria /\ arg.texto \in columna

TelefonoOcupado(p) == Ocupado({r.telefono : r \in club.Socio}, p.telefono)
CorreoOcupado(p)   == Ocupado({r.correo : r \in club.Socio}, p.correo)

-----------------------------------------------------------------------------
PedirAlta(s, p) ==
    /\ paso[s] = "libre"
    /\ alta' = [alta EXCEPT ![s] = p]
    /\ IF p.blancos # {} THEN Contesta(s, "falta")
       ELSE Pasa(s, IF p.telefono.texto = NULL /\ p.correo.texto = NULL
                    THEN "verificada" ELSE "alta")
    /\ UNCHANGED <<club, dados, id>>

(* Both columns are looked up at this moment; a repeated mail address may  *)
(* be answered later.                                                      *)
Verifica(s) ==
    /\ paso[s] = "alta"
    /\ ~TelefonoOcupado(alta[s])
    /\ Pasa(s, IF CorreoOcupado(alta[s]) THEN "rechazada" ELSE "verificada")
    /\ UNCHANGED <<club, dados, llamada>>

TelefonoRepetido(s) ==
    /\ paso[s] = "alta"
    /\ TelefonoOcupado(alta[s])
    /\ Contesta(s, "telefono")
    /\ UNCHANGED <<club, dados, llamada>>

CorreoRepetido(s) ==
    /\ \/ paso[s] = "rechazada"
       \/ paso[s] = "alta" /\ ~TelefonoOcupado(alta[s]) /\ CorreoOcupado(alta[s])
    /\ Contesta(s, "correo")
    /\ UNCHANGED <<club, dados, llamada>>

Inscribe(s) ==
    /\ paso[s] = "verificada"
    /\ \E i \in Ids \ dados :
          /\ Inscribir([id_socio |-> i, telefono |-> alta[s].telefono.texto,
                        correo |-> alta[s].correo.texto])
          /\ dados' = dados \cup {i}
    /\ \E r \in {"guardado", "corte"} : Contesta(s, r)
    /\ UNCHANGED llamada

-----------------------------------------------------------------------------
PedirBaja(s, i) ==
    /\ paso[s] = "libre"
    /\ id' = [id EXCEPT ![s] = i]
    /\ \E p \in DOMAIN Hallada : Pasa(s, p)
    /\ UNCHANGED <<club, dados, alta>>

Halla(s) ==
    /\ paso[s] \in DOMAIN Hallada
    /\ id[s] \in IdsSocio(club)
    /\ Pasa(s, Hallada[paso[s]])
    /\ UNCHANGED <<club, dados, llamada>>

NoHalla(s) ==
    /\ paso[s] \in DOMAIN Hallada
    /\ id[s] \notin IdsSocio(club)
    /\ Contesta(s, "no existe")
    /\ UNCHANGED <<club, dados, llamada>>

ConBarcos(s) ==
    /\ paso[s] = "segura hallada"
    /\ BarcosDe(club, id[s]) # {}
    /\ Contesta(s, "con barcos")
    /\ UNCHANGED <<club, dados, llamada>>

(* EliminarSocioSeguro deletes no boat; either procedure may find that     *)
(* another call has deleted the member.                                    *)
Elimina(s) ==
    /\ \/ paso[s] = "baja hallada"
       \/ paso[s] = "segura hallada" /\ BarcosDe(club, id[s]) = {}
    /\ \/ \E r \in club.Socio : r.id_socio = id[s] /\ DarDeBaja(r)
       \/ id[s] \notin IdsSocio(club) /\ UNCHANGED club
    /\ \E r \in {"eliminado", "corte"} : Contesta(s, r)
    /\ UNCHANGED <<dados, llamada>>

-----------------------------------------------------------------------------
(* A call that fails changes no row; a failed entry may spend an id.       *)
Falla(s) ==
    /\ paso[s] # "libre"
    /\ \/ UNCHANGED dados
       \/ paso[s] = "verificada" /\ \E i \in Ids : dados' = dados \cup {i}
    /\ \E r \in {"excepcion", "corte"} : Contesta(s, r)
    /\ UNCHANGED <<club, llamada>>

Registra ==
    /\ \/ \E r \in FilasBarco : RegistrarBarco(r)
       \/ \E h \in FilasViajeBarco : RegistrarViaje(h)
       \/ \E h \in FilasBarcoMuelle : RegistrarEstadia(h)
    /\ UNCHANGED <<dados, paso, llamada, respuesta>>

LInit ==
    /\ RInit
    /\ dados \in SUBSET Ids
    /\ IdsSocio(club) \subseteq dados
    /\ paso      = [s \in Sesiones |-> "libre"]
    /\ alta      = [s \in Sesiones |-> NULL]
    /\ id        = [s \in Sesiones |-> NULL]
    /\ respuesta = [s \in Sesiones |-> ""]

LNext ==
    \/ \E s \in Sesiones :
          \/ \E p \in Entradas : PedirAlta(s, p)
          \/ Verifica(s) \/ TelefonoRepetido(s) \/ CorreoRepetido(s) \/ Inscribe(s)
          \/ \E i \in Ids : PedirBaja(s, i)
          \/ Halla(s) \/ NoHalla(s) \/ ConBarcos(s) \/ Elimina(s) \/ Falla(s)
    \/ Registra

LSpec == LInit /\ [][LNext]_lvars
=============================================================================
