--------------------------- MODULE PantallaSocios ---------------------------
(***************************************************************************)
(* The member screens of the desktop application (SocioController,         *)
(* NuevoSocioController) and the methods of Conexion they call, on several *)
(* desktops that share the database.                                       *)
(*                                                                         *)
(* A desktop runs its handlers one at a time, to the end, on JavaFX's      *)
(* thread; a dialog (showAndWait) holds a handler up and blocks the other  *)
(* windows of its desktop, not the other desktops.  The calls of two       *)
(* desktops overlap: GuardarNuevoSocio verifies in one step and inserts in *)
(* a later one, EliminarSocio may find that another call has deleted its   *)
(* member.  What is committed is an operation of RegistroClub.  An answer  *)
(* may be lost, and Conexion then throws SQLException.                     *)
(***************************************************************************)
EXTENDS RegistroClub

CONSTANTS
    Puestos,            \* desktops
    Textos,             \* what users type into the form
    DatosIniciales      \* databases the application may be started on

Vacio == ""             \* a field of the form without text

(* The fields of the form, of which the names only matter when blank.      *)
(* NULL: the field was filled by setText(null).                            *)
Formulario == [blancos  : SUBSET {"nombre", "apellidos"},
               telefono : Telefonos \cup {Vacio, NULL},
               correo   : Correos \cup {Vacio, NULL}]

ASSUME TextosAssumption ==
    \A t \in Textos : t \in Formulario /\ t.telefono # NULL /\ t.correo # NULL

CorreosDistintos(b) == \A r, q \in b.Socio : r.correo = q.correo => r = q \/ r.correo = NULL

ASSUME DatosAssumption ==
    \A d \in DatosIniciales : d \in BasesDeDatos /\ Restricciones(d) /\ CorreosDistintos(d)

VARIABLES
    siguiente,  \* next AUTO_INCREMENT value of Socio.id_socio
    tabla,      \* rows each desktop read last (tblTablaSocio)
    ventana,    \* each desktop's form, or NULL when it is not open
    dialogo,    \* what holds a handler up: the dialog of a deletion, a call; or NULL
    aviso       \* what the last step told a user, and on which desktop, or NULL

vars == <<club, siguiente, tabla, ventana, dialogo, aviso>>

Limpio == [blancos |-> {"nombre", "apellidos"}, telefono |-> Vacio, correo |-> Vacio]

FormularioNuevo == [modoEdicion |-> FALSE, socio |-> NULL, texto |-> Limpio]

(* Of the member a form or a dialog holds, the handlers only use the id.    *)
Ventanas == [modoEdicion : BOOLEAN, socio : Ids \cup {NULL}, texto : Formulario]

Avisos == {"falta nombre o correo", "guardado", "modificado", "no se pudo modificar",
           "error de base de datos", "error inesperado", "eliminado", "error al eliminar",
           "problema en B.D."}

Finales == {"eliminado", "error al eliminar"}

(* A call of GuardarNuevoSocio that has verified, and not yet inserted.    *)
Verificado == [paso |-> "verificado"]

Borrados == [paso : {"confirma"} \cup Finales, socio : Ids]

Dialogos == Borrados \cup {Verificado}

Libre(p) == dialogo[p] = NULL

Abierta(p) == Libre(p) /\ ventana[p] # NULL

Di(p, texto) == aviso' = [puesto |-> p, texto |-> texto]

Calla == aviso' = NULL

(* The step from an unprimed to a primed state told the user of p `texto`. *)
Dicho(p, texto) == aviso' = [puesto |-> p, texto |-> texto]

Paso(p, paso) == dialogo[p] # NULL /\ dialogo[p].paso = paso

-----------------------------------------------------------------------------
(* The table. *)

(* traerDatos: Conexion.todosSocios catches SQLException and returns the   *)
(* rows it has read so far, so the handler of traerDatos has nothing to    *)
(* catch.                                                                  *)
TraerDatos(p) == \E filas \in SUBSET club.Socio : tabla' = [tabla EXCEPT ![p] = filas]

Refrescar(p) ==
    /\ Libre(p)
    /\ TraerDatos(p)
    /\ Calla
    /\ UNCHANGED <<club, siguiente, ventana, dialogo>>

-----------------------------------------------------------------------------
(* The form. *)

Abre(p, v) ==
    /\ Libre(p)
    /\ ventana[p] = NULL
    /\ ventana' = [ventana EXCEPT ![p] = v]
    /\ Calla
    /\ UNCHANGED <<club, siguiente, tabla, dialogo>>

NuevoSocio(p) == Abre(p, FormularioNuevo)

(* The edit icon of a row of the table, as it was read.                    *)
ModificarSocio(p, r) ==
    /\ r \in tabla[p]
    /\ Abre(p, [modoEdicion |-> TRUE, socio |-> r.id_socio,
                texto |-> [blancos |-> {}, telefono |-> r.telefono, correo |-> r.correo]])

Cambia(p, v) ==
    /\ Abierta(p)
    /\ ventana' = [ventana EXCEPT ![p] = v]
    /\ UNCHANGED <<club, siguiente, tabla, dialogo>>

(* The user types, or leaves the telephone as it is.                       *)
Escribir(p, t) ==
    /\ Abierta(p)
    /\ \E tel \in {t.telefono, ventana[p].texto.telefono} :
          Cambia(p, [ventana[p] EXCEPT !.texto = [t EXCEPT !.telefono = tel]])
    /\ Calla

AccionLimpiar(p) == Cambia(p, FormularioNuevo) /\ Calla

Cerrar(p) == Cambia(p, NULL) /\ Calla

Completo(t) == "nombre" \notin t.blancos /\ t.correo # Vacio

(* getText().trim() of a field that setText(null) filled.                  *)
Nulo(t) == Completo(t) /\ (t.correo = NULL \/ t.telefono = NULL)

GuardarIncompleto(p) ==
    /\ Abierta(p)
    /\ ~Completo(ventana[p].texto)
    /\ Di(p, "falta nombre o correo")
    /\ UNCHANGED <<club, siguiente, tabla, ventana, dialogo>>

GuardarNulo(p) ==
    /\ Abierta(p)
    /\ Nulo(ventana[p].texto)
    /\ Di(p, "error inesperado")
    /\ UNCHANGED <<club, siguiente, tabla, ventana, dialogo>>

Guardable(p) ==
    /\ Abierta(p)
    /\ Completo(ventana[p].texto)
    /\ ~Nulo(ventana[p].texto)

Almacenado(valor) == IF valor = Vacio THEN NULL ELSE valor

(* How a call that may have been carried out ends for guardarAccion: a     *)
(* normal return says `bien` and clears the form, an SQLException keeps it.*)
Termina(p, bien) ==
    \/ ventana' = [ventana EXCEPT ![p] = FormularioNuevo] /\ Di(p, bien)
    \/ UNCHANGED ventana /\ Di(p, "error de base de datos")

(* Mutant: the procedure does not verify the mail address.                 *)
Admitido_SinCorreo(t) ==
    /\ t.blancos = {}
    /\ \A q \in club.Socio : t.telefono = Vacio \/ q.telefono # t.telefono

(* What GuardarNuevoSocio verifies before it enters the member.            *)
Admitido(t) ==
    /\ t.blancos = {}
    /\ \A q \in club.Socio : /\ t.telefono = Vacio \/ q.telefono # t.telefono
                             /\ t.correo = Vacio \/ q.correo # t.correo

(* The form is sent: verified, refused with p_resultado = 0, at which      *)
(* Conexion.almacenarSocios does not look, or not answered.                *)
GuardarAlta(p) ==
    /\ Guardable(p)
    /\ ~(ventana[p].modoEdicion /\ ventana[p].socio # NULL)
    /\ \/ /\ Admitido(ventana[p].texto)
          /\ dialogo' = [dialogo EXCEPT ![p] = Verificado]
          /\ Calla
          /\ UNCHANGED ventana
       \/ ~Admitido(ventana[p].texto) /\ Termina(p, "guardado") /\ UNCHANGED dialogo
       \/ Di(p, "error de base de datos") /\ UNCHANGED <<ventana, dialogo>>
    /\ UNCHANGED <<club, siguiente, tabla>>

FilaNueva(t) == [id_socio |-> siguiente, telefono |-> Almacenado(t.telefono),
                 correo |-> Almacenado(t.correo)]

(* Mutant: the id column has no upper limit.                               *)
HayId_SinTope == TRUE

HayId == siguiente <= MaxId

(* The INSERT and the COMMIT.  An INSERT that fails may spend an id, and   *)
(* is answered with p_resultado = 0 like a form that was refused.          *)
Inserta(p) ==
    /\ Paso(p, "verificado")
    /\ \/ HayId /\ Inscribir(FilaNueva(ventana[p].texto)) /\ siguiente' = siguiente + 1
       \/ HayId /\ siguiente' = siguiente + 1 /\ UNCHANGED club
       \/ UNCHANGED <<club, siguiente>>
    /\ Termina(p, "guardado")
    /\ dialogo' = [dialogo EXCEPT ![p] = NULL]
    /\ UNCHANGED tabla

(* The procedure ModificarSocio is not in the repository: Conexion expects *)
(* it to refuse a member that does not exist, a repeated mail address and  *)
(* invalid data, and to answer a row when it has changed the member.       *)
Modifica(id, t) ==
    \E r \in club.Socio :
       /\ r.id_socio = id
       /\ \A q \in club.Socio \ {r} : t.correo # q.correo
       /\ club' = [club EXCEPT !.Socio = (@ \ {r}) \cup
                      {[id_socio |-> id, telefono |-> Almacenado(t.telefono),
                        correo |-> Almacenado(t.correo)]}]

GuardarEdicion(p) ==
    /\ Guardable(p)
    /\ ventana[p].modoEdicion /\ ventana[p].socio # NULL
    /\ \/ Modifica(ventana[p].socio, ventana[p].texto) /\ Termina(p, "modificado")
       \/ Termina(p, "no se pudo modificar") /\ UNCHANGED club
    /\ UNCHANGED <<siguiente, tabla, dialogo>>

-----------------------------------------------------------------------------
(* Deletion. *)

PideBorrar(p, r) ==
    /\ Libre(p)
    /\ r \in tabla[p]
    /\ dialogo' = [dialogo EXCEPT ![p] = [paso |-> "confirma", socio |-> r.id_socio]]
    /\ Calla
    /\ UNCHANGED <<club, siguiente, tabla, ventana>>

Cancela(p) ==
    /\ Paso(p, "confirma")
    /\ dialogo' = [dialogo EXCEPT ![p] = NULL]
    /\ Calla
    /\ UNCHANGED <<club, siguiente, tabla, ventana>>

(* Mutant: Conexion.eliminarSocio does not look for the answer.            *)
EliminarSocio_SinMirar(id, fin) ==
    \/ \E r \in club.Socio : r.id_socio = id /\ DarDeBaja(r)
    \/ UNCHANGED club

(* EliminarSocio deletes the member, with its boats; says the same when    *)
(* another call has deleted it since this one looked; or the call fails,   *)
(* before or after its COMMIT.                                             *)
EliminarSocio(id, fin) ==
    \/ \E r \in club.Socio : r.id_socio = id /\ DarDeBaja(r)
    \/ /\ fin = "error al eliminar" \/ id \notin IdsSocio(club)
       /\ UNCHANGED club

(* The user confirms.                                                      *)
Confirma(p) ==
    /\ Paso(p, "confirma")
    /\ \E fin \in Finales :
          /\ EliminarSocio(dialogo[p].socio, fin)
          /\ dialogo' = [dialogo EXCEPT ![p] = [@ EXCEPT !.paso = fin]]
          /\ Di(p, fin)
    /\ UNCHANGED <<siguiente, tabla, ventana>>

(* Mutant: the table is not read again.                                    *)
Acepta_SinRefrescar(p) ==
    /\ Paso(p, "eliminado")
    /\ dialogo' = [dialogo EXCEPT ![p] = NULL]
    /\ Calla
    /\ UNCHANGED <<club, siguiente, tabla, ventana>>

(* The user closes the alert; only that of a success refreshes the table.  *)
Acepta(p) ==
    /\ \/ Paso(p, "eliminado") /\ TraerDatos(p)
       \/ Paso(p, "error al eliminar") /\ UNCHANGED tabla
    /\ dialogo' = [dialogo EXCEPT ![p] = NULL]
    /\ Calla
    /\ UNCHANGED <<club, siguiente, ventana>>

-----------------------------------------------------------------------------
Init ==
    /\ club \in DatosIniciales
    /\ siguiente \in 1 .. MaxId + 1
    /\ \A id \in IdsSocio(club) : id < siguiente
    /\ tabla \in [Puestos -> SUBSET club.Socio]
    /\ ventana = [p \in Puestos |-> NULL]
    /\ dialogo = [p \in Puestos |-> NULL]
    /\ aviso = NULL

Next ==
    \E p \in Puestos :
       \/ Refrescar(p)
       \/ NuevoSocio(p)
       \/ \E r \in tabla[p] : ModificarSocio(p, r) \/ PideBorrar(p, r)
       \/ \E t \in Textos : Escribir(p, t)
       \/ AccionLimpiar(p)
       \/ Cerrar(p)
       \/ GuardarIncompleto(p)
       \/ GuardarNulo(p)
       \/ GuardarAlta(p)
       \/ Inserta(p)
       \/ GuardarEdicion(p)
       \/ Cancela(p)
       \/ Confirma(p)
       \/ Acepta(p)

Spec == Init /\ [][Next]_vars

-----------------------------------------------------------------------------
(* Every variable holds values of its type.                                *)
TypeOK ==
    /\ club \in BasesDeDatos
    /\ siguiente \in 1 .. MaxId + 1
    /\ tabla \in [Puestos -> SUBSET FilasSocio]
    /\ ventana \in [Puestos -> Ventanas \cup {NULL}]
    /\ dialogo \in [Puestos -> Dialogos \cup {NULL}]
    /\ aviso \in [puesto : Puestos, texto : Avisos] \cup {NULL}

(* While one desktop is in use (NuevoSocioController.java:71-81), no two   *)
(* members share a mail address: a user who is told of an error of the     *)
(* database and presses the button again does not enter the member twice,  *)
(* though the first call may have been carried out.  (Two desktops may:    *)
(* see ProcSocios!SinDuplicados.)                                          *)
UnPuesto == \A p, q \in Puestos : p = q

CorreoUnico == UnPuesto => CorreosDistintos(club)

(* After the alert "El socio ha sido eliminado" is closed                  *)
(* (SocioController.java:173), the table no longer offers that member,     *)
(* whatever the other desktops have entered or edited while it was open.   *)
BajaMostrada ==
    [][\A p \in Puestos :
          Paso(p, "eliminado") /\ dialogo'[p] = NULL
          => \A r \in tabla'[p] : r.id_socio # dialogo[p].socio]_vars

(* "Socio guardado exitosamente" (NuevoSocioController.java:72): the member*)
(* that the form describes has been entered.                               *)
GuardadoCierto ==
    [][\A p \in Puestos :
          Dicho(p, "guardado")
          => \E r \in club'.Socio \ club.Socio : r.correo = ventana[p].texto.correo]_vars

(* "Complete al menos el nombre y correo" (NuevoSocioController.java:41):  *)
(* a form with a name and a mail address can be saved, or fails for the    *)
(* database's reasons, never for the form's.                               *)
BastaNombreYCorreo ==
    [][\A p \in Puestos :
          Dicho(p, "error inesperado") => ~Completo(ventana[p].texto)]_vars

-----------------------------------------------------------------------------
(* The inductive invariant behind CorreoUnico and BajaMostrada: every id a *)
(* desktop holds has been given out, no two members have one id, the       *)
(* member of an alert of success is gone, for good, since no id is given   *)
(* out twice; a form whose call has verified can be saved, and, with one   *)
(* desktop, would still be admitted.                                       *)
Borrando(p) == dialogo[p] # NULL /\ dialogo[p].paso # "verificado"

IdsDados ==
    /\ \A r \in club.Socio : r.id_socio < siguiente
    /\ \A r, q \in club.Socio : r.id_socio = q.id_socio => r = q
    /\ \A p \in Puestos :
          /\ \A r \in tabla[p] : r.id_socio < siguiente
          /\ Borrando(p) => dialogo[p].socio < siguiente

BorradoFuera ==
    \A p \in Puestos : Paso(p, "eliminado") => dialogo[p].socio \notin IdsSocio(club)

VerificadoVigente ==
    \A p \in Puestos :
       Paso(p, "verificado")
       => /\ ventana[p] # NULL
          /\ Completo(ventana[p].texto)
          /\ ~Nulo(ventana[p].texto)
          /\ UnPuesto => Admitido(ventana[p].texto)

IInv == TypeOK /\ CorreoUnico /\ IdsDados /\ BorradoFuera /\ VerificadoVigente
=============================================================================
