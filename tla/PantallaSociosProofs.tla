------------------------ MODULE PantallaSociosProofs ------------------------
(***************************************************************************)
(* Proofs about PantallaSocios: mail addresses stay distinct whatever the  *)
(* desktops repeat, a deleted member leaves the table, the club keeps its  *)
(* constraints and every member its boats, and a new member can be sent,   *)
(* for any number of desktops and members and anything typed.              *)
(***************************************************************************)
EXTENDS PantallaSocios, RegistroProofs

LEMMA IInvInit == Init => IInv
  <1> SUFFICES ASSUME Init PROVE IInv
    OBVIOUS
  <1>1. club \in BasesDeDatos /\ Restricciones(club) /\ CorreosDistintos(club)
    BY DatosAssumption DEF Init
  <1>2. \A p \in Puestos : tabla[p] \in SUBSET club.Socio
    BY DEF Init
  <1>3. TypeOK
    <2>1. tabla \in [Puestos -> SUBSET FilasSocio]
      BY <1>1 DEF Init, BasesDeDatos
    <2> QED
      BY <1>1, <2>1 DEF Init, TypeOK
  <1>4. IdsDados
    BY <1>1, <1>2 DEF Init, IdsDados, Borrando, IdsSocio, Restricciones, ClavesPrimarias
  <1>5. BorradoFuera
    BY DEF Init, BorradoFuera, Paso
  <1>6. VerificadoVigente
    BY DEF Init, VerificadoVigente, Paso
  <1> QED
    BY <1>1, <1>3, <1>4, <1>5, <1>6 DEF IInv, CorreoUnico

-----------------------------------------------------------------------------
(* What the steps have in common. *)

(* Reading the table shows members of the club, if not all of them.        *)
LEMMA TablaLeida ==
    ASSUME IInv, NEW p \in Puestos, TraerDatos(p)
    PROVE  /\ tabla' \in [Puestos -> SUBSET FilasSocio]
           /\ \A q \in Puestos : \A r \in tabla'[q] : r.id_socio < siguiente
           /\ \A r \in tabla'[p] : r \in club.Socio
  <1>1. tabla \in [Puestos -> SUBSET FilasSocio] /\ club.Socio \subseteq FilasSocio
    BY DEF IInv, TypeOK, BasesDeDatos
  <1> QED
    BY <1>1 DEF TraerDatos, IInv, IdsDados

(* A step of one desktop, after which it has no verified call, keeps the   *)
(* calls that have verified as they were.                                  *)
LEMMA VigenteSigue ==
    ASSUME IInv, NEW p \in Puestos, ~Paso(p, "verificado")',
           \A q \in Puestos \ {p} : dialogo'[q] = dialogo[q] /\ ventana'[q] = ventana[q]
    PROVE  VerificadoVigente'
  <1> SUFFICES ASSUME NEW q \in Puestos, Paso(q, "verificado")'
               PROVE  /\ ventana'[q] # NULL
                      /\ Completo(ventana'[q].texto)
                      /\ ~Nulo(ventana'[q].texto)
                      /\ ~UnPuesto
    BY DEF VerificadoVigente, UnPuesto
  <1>1. q # p
    OBVIOUS
  <1>2. Paso(q, "verificado") /\ ventana'[q] = ventana[q]
    BY <1>1 DEF Paso
  <1> QED
    BY <1>1, <1>2 DEF IInv, VerificadoVigente, UnPuesto

(* A dialog of a deletion names a member whose id was given out.           *)
LEMMA BorradoTipo ==
    ASSUME IInv, NEW p \in Puestos, Borrando(p)
    PROVE  /\ dialogo[p] \in Borrados
           /\ dialogo[p].socio \in Nat
           /\ dialogo[p].socio < siguiente
  <1>1. dialogo[p] \in Borrados
    BY DEF Borrando, IInv, TypeOK, Dialogos, Verificado
  <1> QED
    BY <1>1 DEF Borrados, Ids, IInv, IdsDados

(* An opened or changed form is a form, the others stay as they are.       *)
LEMMA VentanaTipo ==
    ASSUME IInv, NEW p \in Puestos, NEW v \in Ventanas \cup {NULL},
           ventana' = [ventana EXCEPT ![p] = v]
    PROVE  /\ ventana' \in [Puestos -> Ventanas \cup {NULL}]
           /\ \A q \in Puestos \ {p} : ventana'[q] = ventana[q]
  BY DEF IInv, TypeOK

LEMMA NuevoTipo == FormularioNuevo \in Ventanas
  BY DEF FormularioNuevo, Ventanas, Limpio, Formulario

(* A step of a desktop that is free, and leaves the members and the        *)
(* deletions alone, keeps the invariant when it keeps the types.           *)
LEMMA SinCambioDeSocios ==
    ASSUME IInv, NEW p \in Puestos, Libre(p),
           UNCHANGED <<club, siguiente, tabla, dialogo>>,
           ventana' \in [Puestos -> Ventanas \cup {NULL}],
           \A q \in Puestos \ {p} : ventana'[q] = ventana[q],
           aviso' \in [puesto : Puestos, texto : Avisos] \cup {NULL}
    PROVE  IInv'
  <1>1. TypeOK'
    BY DEF IInv, TypeOK
  <1>2. CorreoUnico' /\ IdsDados' /\ BorradoFuera'
    BY DEF IInv, CorreoUnico, CorreosDistintos, UnPuesto, IdsDados, Borrando,
           BorradoFuera, Paso
  <1>3. ~Paso(p, "verificado")'
    BY DEF Libre, Paso
  <1>4. VerificadoVigente'
    BY <1>3, VigenteSigue
  <1> QED
    BY <1>1, <1>2, <1>4 DEF IInv

(* How a call of guardarAccion ends, for the form and the message.         *)
LEMMA TerminaTipo ==
    ASSUME IInv, NEW p \in Puestos, NEW m \in Avisos, Termina(p, m)
    PROVE  /\ ventana' \in [Puestos -> Ventanas \cup {NULL}]
           /\ \A q \in Puestos \ {p} : ventana'[q] = ventana[q]
           /\ aviso' \in [puesto : Puestos, texto : Avisos] \cup {NULL}
  <1>1. "error de base de datos" \in Avisos
    BY DEF Avisos
  <1>2. CASE ventana' = [ventana EXCEPT ![p] = FormularioNuevo] /\ Di(p, m)
    BY <1>2, NuevoTipo, VentanaTipo DEF Di
  <1>3. CASE UNCHANGED ventana /\ Di(p, "error de base de datos")
    BY <1>1, <1>3 DEF Di, IInv, TypeOK
  <1> QED
    BY <1>2, <1>3 DEF Termina

-----------------------------------------------------------------------------
(* The steps. *)

LEMMA RefrescarIInv ==
    ASSUME IInv, NEW p \in Puestos, Refrescar(p)
    PROVE  IInv'
  <1>1. TypeOK'
    BY TablaLeida DEF Refrescar, Calla, IInv, TypeOK
  <1>2. CorreoUnico' /\ BorradoFuera'
    BY DEF Refrescar, IInv, CorreoUnico, CorreosDistintos, UnPuesto, BorradoFuera, Paso
  <1>3. IdsDados'
    BY TablaLeida DEF Refrescar, IInv, IdsDados, Borrando
  <1>4. VerificadoVigente'
    <2>1. ~Paso(p, "verificado")'
      BY DEF Refrescar, Libre, Paso
    <2> QED
      BY <2>1, VigenteSigue DEF Refrescar
  <1> QED
    BY <1>1, <1>2, <1>3, <1>4 DEF IInv

LEMMA FormularioIInv ==
    ASSUME IInv, NEW p \in Puestos,
           \/ NuevoSocio(p)
           \/ \E r \in tabla[p] : ModificarSocio(p, r)
           \/ \E t \in Textos : Escribir(p, t)
           \/ AccionLimpiar(p)
           \/ Cerrar(p)
           \/ GuardarIncompleto(p)
           \/ GuardarNulo(p)
    PROVE  IInv'
  <1>1. CASE NuevoSocio(p)
    BY <1>1, NuevoTipo, VentanaTipo, SinCambioDeSocios DEF NuevoSocio, Abre, Calla
  <1>2. ASSUME NEW r \in tabla[p], ModificarSocio(p, r) PROVE IInv'
    <2> DEFINE v == [modoEdicion |-> TRUE, socio |-> r.id_socio,
                     texto |-> [blancos |-> {}, telefono |-> r.telefono,
                                correo |-> r.correo]]
    <2>1. r \in FilasSocio
      BY DEF IInv, TypeOK
    <2>2. v \in Ventanas
      BY <2>1 DEF Ventanas, Formulario, FilasSocio
    <2> HIDE DEF v
    <2>3. Abre(p, v)
      BY <1>2 DEF ModificarSocio, v
    <2> QED
      BY <2>2, <2>3, VentanaTipo, SinCambioDeSocios DEF Abre, Calla
  <1>3. ASSUME NEW t \in Textos, Escribir(p, t) PROVE IInv'
    <2>1. t \in Formulario
      BY TextosAssumption
    <2>2. ventana[p] \in Ventanas
      BY <1>3 DEF Escribir, Abierta, IInv, TypeOK
    <2>3. PICK tel \in {t.telefono, ventana[p].texto.telefono} :
             Cambia(p, [ventana[p] EXCEPT !.texto = [t EXCEPT !.telefono = tel]])
      BY <1>3 DEF Escribir
    <2>4. [ventana[p] EXCEPT !.texto = [t EXCEPT !.telefono = tel]] \in Ventanas
      BY <2>1, <2>2 DEF Ventanas, Formulario
    <2> QED
      BY <1>3, <2>3, <2>4, VentanaTipo, SinCambioDeSocios DEF Escribir, Cambia, Abierta, Calla
  <1>4. CASE AccionLimpiar(p)
    BY <1>4, NuevoTipo, VentanaTipo, SinCambioDeSocios
    DEF AccionLimpiar, Cambia, Abierta, Calla
  <1>5. CASE Cerrar(p)
    BY <1>5, VentanaTipo, SinCambioDeSocios DEF Cerrar, Cambia, Abierta, Calla
  <1>6. CASE GuardarIncompleto(p) \/ GuardarNulo(p)
    <2>1. aviso' \in [puesto : Puestos, texto : Avisos]
      <3>1. "falta nombre o correo" \in Avisos /\ "error inesperado" \in Avisos
        BY DEF Avisos
      <3>2. Di(p, "falta nombre o correo") \/ Di(p, "error inesperado")
        BY <1>6 DEF GuardarIncompleto, GuardarNulo
      <3>3. ASSUME NEW m \in Avisos, Di(p, m)
            PROVE  aviso' \in [puesto : Puestos, texto : Avisos]
        BY <3>3 DEF Di
      <3> QED
        BY <3>1, <3>2, <3>3
    <2>2. Libre(p) /\ UNCHANGED <<club, siguiente, tabla, ventana, dialogo>>
      BY <1>6 DEF GuardarIncompleto, GuardarNulo, Abierta
    <2>3. ventana' \in [Puestos -> Ventanas \cup {NULL}]
      BY <2>2 DEF IInv, TypeOK
    <2> QED
      BY <2>1, <2>2, <2>3, SinCambioDeSocios
  <1> QED
    BY <1>1, <1>2, <1>3, <1>4, <1>5, <1>6

(* What is stored for a form that can be saved: a row with its mail        *)
(* address, which is not NULL.                                             *)
LEMMA FilaGuardable ==
    ASSUME IInv, NEW p \in Puestos, ventana[p] # NULL,
           Completo(ventana[p].texto), ~Nulo(ventana[p].texto)
    PROVE  /\ ventana[p] \in Ventanas
           /\ Almacenado(ventana[p].texto.telefono) \in Telefonos \cup {NULL}
           /\ ventana[p].texto.correo # Vacio
           /\ ventana[p].texto.correo \in Correos
           /\ Almacenado(ventana[p].texto.correo) = ventana[p].texto.correo
  <1>1. ventana[p] \in Ventanas
    BY DEF IInv, TypeOK
  <1>2. ventana[p].texto \in Formulario
    BY <1>1 DEF Ventanas
  <1> QED
    BY <1>1, <1>2 DEF Formulario, Completo, Nulo, Almacenado

LEMMA GuardarAltaIInv ==
    ASSUME IInv, NEW p \in Puestos, GuardarAlta(p)
    PROVE  IInv'
  <1>1. Libre(p) /\ UNCHANGED <<club, siguiente, tabla>>
    BY DEF GuardarAlta, Guardable, Abierta
  <1>2. CASE Termina(p, "guardado") /\ UNCHANGED dialogo
    <2>1. "guardado" \in Avisos
      BY DEF Avisos
    <2> QED
      BY <1>1, <1>2, <2>1, TerminaTipo, SinCambioDeSocios
  <1>3. CASE Di(p, "error de base de datos") /\ UNCHANGED <<ventana, dialogo>>
    <2>1. "error de base de datos" \in Avisos
      BY DEF Avisos
    <2>2. aviso' \in [puesto : Puestos, texto : Avisos]
      BY <1>3, <2>1 DEF Di
    <2>3. ventana' \in [Puestos -> Ventanas \cup {NULL}]
      BY <1>3 DEF IInv, TypeOK
    <2> QED
      BY <1>1, <1>3, <2>2, <2>3, SinCambioDeSocios
  <1>4. CASE /\ Admitido(ventana[p].texto)
             /\ dialogo' = [dialogo EXCEPT ![p] = Verificado]
             /\ Calla
             /\ UNCHANGED ventana
    <2>1. \A q \in Puestos : dialogo'[q] = IF q = p THEN Verificado ELSE dialogo[q]
      BY <1>4 DEF IInv, TypeOK
    <2>2. TypeOK'
      <3>1. dialogo' \in [Puestos -> Dialogos \cup {NULL}]
        BY <1>4 DEF IInv, TypeOK, Dialogos
      <3> QED
        BY <1>1, <1>4, <3>1 DEF IInv, TypeOK, Calla
    <2>3. Verificado.paso = "verificado"
      BY DEF Verificado
    <2>4. CorreoUnico' /\ IdsDados' /\ BorradoFuera'
      BY <1>1, <2>1, <2>3 DEF IInv, CorreoUnico, CorreosDistintos, UnPuesto, IdsDados,
         Borrando, BorradoFuera, Paso
    <2>5. VerificadoVigente'
      <3> SUFFICES ASSUME NEW q \in Puestos, Paso(q, "verificado")'
                   PROVE  /\ ventana[q] # NULL
                          /\ Completo(ventana[q].texto)
                          /\ ~Nulo(ventana[q].texto)
                          /\ UnPuesto => Admitido(ventana[q].texto)
        BY <1>1, <1>4 DEF VerificadoVigente, UnPuesto, Admitido
      <3>1. CASE q = p
        BY <1>4, <3>1 DEF GuardarAlta, Guardable, Abierta
      <3>2. CASE q # p
        BY <2>1, <3>2 DEF Paso, IInv, VerificadoVigente
      <3> QED
        BY <3>1, <3>2
    <2> QED
      BY <2>2, <2>4, <2>5 DEF IInv
  <1> QED
    BY <1>2, <1>3, <1>4 DEF GuardarAlta

(* The member that is entered has an id nobody holds; with one desktop it  *)
(* also has a mail address nobody has.                                     *)
LEMMA InsertaIInv ==
    ASSUME IInv, NEW p \in Puestos, Inserta(p)
    PROVE  IInv'
  <1> DEFINE t == ventana[p].texto
             f == FilaNueva(t)
  <1>1. /\ Paso(p, "verificado")
        /\ UNCHANGED tabla
        /\ dialogo' = [dialogo EXCEPT ![p] = NULL]
    BY DEF Inserta
  <1>2. /\ ventana' \in [Puestos -> Ventanas \cup {NULL}]
        /\ \A q \in Puestos \ {p} : ventana'[q] = ventana[q]
        /\ aviso' \in [puesto : Puestos, texto : Avisos] \cup {NULL}
    <2>1. "guardado" \in Avisos
      BY DEF Avisos
    <2> QED
      BY <2>1, TerminaTipo DEF Inserta
  <1>3. /\ dialogo' \in [Puestos -> Dialogos \cup {NULL}]
        /\ \A q \in Puestos : dialogo'[q] = IF q = p THEN NULL ELSE dialogo[q]
    BY <1>1 DEF IInv, TypeOK
  <1>4. /\ siguiente \in Nat
        /\ siguiente' \in siguiente .. siguiente + 1
        /\ siguiente' \in 1 .. MaxId + 1
    BY MaxIdAssumption DEF Inserta, HayId, IInv, TypeOK
  <1>5. \/ UNCHANGED club
        \/ /\ HayId
           /\ siguiente' = siguiente + 1
           /\ club' = [club EXCEPT !.Socio = @ \cup {f}]
    BY DEF Inserta, Inscribir
  <1>6. ~UNCHANGED club => f \in FilasSocio /\ f.id_socio = siguiente
    <2>1. /\ Almacenado(t.telefono) \in Telefonos \cup {NULL}
          /\ Almacenado(t.correo) \in Correos
      BY <1>1, FilaGuardable DEF IInv, VerificadoVigente
    <2>2. HayId => siguiente \in Ids
      BY <1>4 DEF HayId, Ids, IInv, TypeOK
    <2> QED
      BY <1>5, <2>1, <2>2 DEF FilaNueva, FilasSocio
  <1>7. UnPuesto /\ ~UNCHANGED club => \A q \in club.Socio : q.correo # f.correo
    <2>1. /\ t.correo # Vacio
          /\ f.correo = t.correo
      BY <1>1, FilaGuardable DEF IInv, VerificadoVigente, FilaNueva
    <2>2. UnPuesto => Admitido(t)
      BY <1>1 DEF IInv, VerificadoVigente
    <2> QED
      BY <2>1, <2>2 DEF Admitido
  <1> HIDE DEF f
  <1>8. /\ club' \in BasesDeDatos
        /\ \/ club'.Socio = club.Socio
           \/ /\ club'.Socio = club.Socio \cup {f}
              /\ f.id_socio = siguiente
              /\ siguiente' = siguiente + 1
              /\ UnPuesto => \A q \in club.Socio : q.correo # f.correo
    <2>1. CASE UNCHANGED club
      BY <2>1 DEF IInv, TypeOK
    <2>2. CASE ~UNCHANGED club
      BY <1>5, <1>6, <1>7, <2>2 DEF IInv, TypeOK, BasesDeDatos
    <2> QED
      BY <2>1, <2>2
  <1>9. TypeOK'
    BY <1>1, <1>2, <1>3, <1>4, <1>8 DEF IInv, TypeOK
  <1>10. CorreoUnico'
    BY <1>8 DEF IInv, CorreoUnico, CorreosDistintos, UnPuesto
  <1>11. \A r \in FilasSocio : r.id_socio \in Nat
    BY DEF FilasSocio, Ids
  <1>12. \A r \in club.Socio : r.id_socio \in Nat /\ r.id_socio < siguiente
    BY <1>11 DEF IInv, TypeOK, BasesDeDatos, IdsDados
  <1>13. IdsDados'
    <2>1. \A r \in club'.Socio : r.id_socio < siguiente'
      BY <1>4, <1>8, <1>12
    <2>2. \A r, q \in club'.Socio : r.id_socio = q.id_socio => r = q
      BY <1>4, <1>8, <1>12 DEF IInv, IdsDados
    <2>3. \A q \in Puestos : \A r \in tabla'[q] : r.id_socio < siguiente'
      BY <1>1, <1>4, <1>11 DEF IInv, TypeOK, IdsDados
    <2>4. \A q \in Puestos : Borrando(q)' => dialogo'[q].socio < siguiente'
      BY <1>3, <1>4, BorradoTipo DEF Borrando
    <2> QED
      BY <2>1, <2>2, <2>3, <2>4 DEF IdsDados
  <1>14. BorradoFuera'
    <2> SUFFICES ASSUME NEW q \in Puestos, Paso(q, "eliminado")'
                 PROVE  dialogo'[q].socio \notin IdsSocio(club')
      BY DEF BorradoFuera
    <2>1. Paso(q, "eliminado") /\ dialogo'[q] = dialogo[q]
      BY <1>3 DEF Paso
    <2>2. dialogo[q].socio \in Nat /\ dialogo[q].socio < siguiente
      BY <2>1, BorradoTipo DEF Borrando, Paso
    <2>3. \A r \in club.Socio : r.id_socio # dialogo[q].socio
      BY <2>1 DEF IInv, BorradoFuera, IdsSocio
    <2>4. \A r \in club'.Socio : r.id_socio # dialogo[q].socio
      BY <1>4, <1>8, <2>2, <2>3
    <2> QED
      BY <2>1, <2>4 DEF IdsSocio
  <1>15. VerificadoVigente'
    <2>1. ~Paso(p, "verificado")'
      BY <1>3 DEF Paso
    <2> QED
      BY <1>2, <1>3, <2>1, VigenteSigue
  <1> QED
    BY <1>9, <1>10, <1>13, <1>14, <1>15 DEF IInv

LEMMA GuardarEdicionIInv ==
    ASSUME IInv, NEW p \in Puestos, GuardarEdicion(p)
    PROVE  IInv'
  <1> DEFINE t == ventana[p].texto
             id == ventana[p].socio
             f == [id_socio |-> id, telefono |-> Almacenado(t.telefono),
                   correo |-> Almacenado(t.correo)]
  <1>1. Libre(p) /\ UNCHANGED <<siguiente, tabla, dialogo>>
    BY DEF GuardarEdicion, Guardable, Abierta
  <1>2. /\ ventana' \in [Puestos -> Ventanas \cup {NULL}]
        /\ \A q \in Puestos \ {p} : ventana'[q] = ventana[q]
        /\ aviso' \in [puesto : Puestos, texto : Avisos] \cup {NULL}
    <2>1. "modificado" \in Avisos /\ "no se pudo modificar" \in Avisos
      BY DEF Avisos
    <2> QED
      BY <2>1, TerminaTipo DEF GuardarEdicion
  <1>3. CASE UNCHANGED club
    BY <1>1, <1>2, <1>3, SinCambioDeSocios
  <1>4. CASE Modifica(id, t)
    <2>1. PICK r \in club.Socio :
             /\ r.id_socio = id
             /\ \A q \in club.Socio \ {r} : t.correo # q.correo
             /\ club' = [club EXCEPT !.Socio = (@ \ {r}) \cup {f}]
      BY <1>4 DEF Modifica
    <2>2. r \in FilasSocio
      BY DEF IInv, TypeOK, BasesDeDatos
    <2>3. f \in FilasSocio
      BY <2>1, <2>2, FilaGuardable DEF GuardarEdicion, Guardable, Abierta, FilasSocio
    <2>4. club' \in BasesDeDatos /\ club'.Socio = (club.Socio \ {r}) \cup {f}
      BY <2>1, <2>3 DEF IInv, TypeOK, BasesDeDatos
    <2>5. TypeOK'
      BY <1>1, <1>2, <2>4 DEF IInv, TypeOK
    <2>6. CorreoUnico'
      <3>1. f.correo = t.correo
        BY FilaGuardable DEF GuardarEdicion, Guardable, Abierta
      <3> QED
        BY <2>1, <2>4, <3>1 DEF IInv, CorreoUnico, CorreosDistintos, UnPuesto
    <2>7. f.id_socio = r.id_socio
      BY <2>1
    <2> HIDE DEF f
    <2>8. IdsDados'
      BY <1>1, <2>4, <2>7 DEF IInv, IdsDados, Borrando
    <2>9. IdsSocio(club') = IdsSocio(club)
      BY <2>4, <2>7 DEF IdsSocio, IInv, IdsDados
    <2>10. BorradoFuera'
      BY <1>1, <2>9 DEF IInv, BorradoFuera, Paso
    <2>11. ~Paso(p, "verificado")'
      BY <1>1 DEF Libre, Paso
    <2>12. VerificadoVigente'
      BY <1>1, <1>2, <2>11, VigenteSigue
    <2> QED
      BY <2>5, <2>6, <2>8, <2>10, <2>12 DEF IInv
  <1> QED
    BY <1>3, <1>4 DEF GuardarEdicion

(* EliminarSocio takes exactly the member with the id asked for.           *)
LEMMA ConfirmaIInv ==
    ASSUME IInv, NEW p \in Puestos, Confirma(p)
    PROVE  IInv'
  <1>1. UNCHANGED <<siguiente, tabla, ventana>>
    BY DEF Confirma
  <1>2. PICK fin \in Finales :
           /\ EliminarSocio(dialogo[p].socio, fin)
           /\ dialogo' = [dialogo EXCEPT ![p] = [@ EXCEPT !.paso = fin]]
           /\ Di(p, fin)
    BY DEF Confirma
  <1>3. dialogo[p] \in Borrados /\ dialogo[p].socio < siguiente
    BY BorradoTipo DEF Confirma, Paso, Borrando
  <1>4. /\ dialogo' \in [Puestos -> Dialogos \cup {NULL}]
        /\ dialogo'[p] = [paso |-> fin, socio |-> dialogo[p].socio]
        /\ \A q \in Puestos \ {p} : dialogo'[q] = dialogo[q]
    <2>1. [dialogo[p] EXCEPT !.paso = fin] = [paso |-> fin, socio |-> dialogo[p].socio]
      BY <1>3 DEF Borrados
    <2>2. [paso |-> fin, socio |-> dialogo[p].socio] \in Borrados
      BY <1>3 DEF Borrados
    <2> QED
      BY <1>2, <2>1, <2>2 DEF IInv, TypeOK, Dialogos
  <1>5. aviso' \in [puesto : Puestos, texto : Avisos]
    <2>1. fin \in Avisos
      BY DEF Finales, Avisos
    <2> QED
      BY <1>2, <2>1 DEF Di
  <1>6. /\ club' \in BasesDeDatos
        /\ club'.Socio \subseteq club.Socio
        /\ fin = "eliminado" => \A q \in club'.Socio : q.id_socio # dialogo[p].socio
    <2>1. CASE /\ fin = "error al eliminar" \/ dialogo[p].socio \notin IdsSocio(club)
               /\ UNCHANGED club
      BY <2>1 DEF IInv, TypeOK, IdsSocio
    <2>2. ASSUME NEW r \in club.Socio, r.id_socio = dialogo[p].socio, DarDeBaja(r)
          PROVE  <1>6
      <3>1. /\ club'.Socio = club.Socio \ {r}
            /\ club'.Barco \subseteq club.Barco
            /\ club'.Viaje_Barco \subseteq club.Viaje_Barco
            /\ club'.Barco_Muelle \subseteq club.Barco_Muelle
        BY <2>2 DEF DarDeBaja, Menos
      <3>2. club' \in BasesDeDatos
        <4>1. club' = [Socio |-> club'.Socio, Barco |-> club'.Barco,
                       Viaje_Barco |-> club'.Viaje_Barco,
                       Barco_Muelle |-> club'.Barco_Muelle]
          BY <2>2 DEF DarDeBaja, Menos
        <4>2. /\ club.Socio \subseteq FilasSocio
              /\ club.Barco \subseteq FilasBarco
              /\ club.Viaje_Barco \subseteq FilasViajeBarco
              /\ club.Barco_Muelle \subseteq FilasBarcoMuelle
          BY DEF IInv, TypeOK, BasesDeDatos
        <4> QED
          BY <3>1, <4>1, <4>2 DEF BasesDeDatos
      <3>3. \A q \in club'.Socio : q.id_socio # dialogo[p].socio
        BY <2>2, <3>1 DEF IInv, IdsDados
      <3> QED
        BY <3>1, <3>2, <3>3
    <2> QED
      BY <1>2, <2>1, <2>2 DEF EliminarSocio
  <1>7. TypeOK'
    BY <1>1, <1>4, <1>5, <1>6 DEF IInv, TypeOK
  <1>8. CorreoUnico'
    BY <1>6 DEF IInv, CorreoUnico, CorreosDistintos, UnPuesto
  <1>9. IdsDados'
    <2>1. \A q \in Puestos : Borrando(q)' => dialogo'[q].socio < siguiente
      BY <1>3, <1>4, BorradoTipo DEF Borrando
    <2> QED
      BY <1>1, <1>6, <2>1 DEF IInv, IdsDados
  <1>10. BorradoFuera'
    <2>1. \A i \in IdsSocio(club') : i \in IdsSocio(club)
      BY <1>6 DEF IdsSocio
    <2>2. fin = "eliminado" => dialogo[p].socio \notin IdsSocio(club')
      BY <1>6 DEF IdsSocio
    <2> QED
      BY <1>4, <2>1, <2>2 DEF IInv, BorradoFuera, Paso
  <1>11. VerificadoVigente'
    <2>1. ~Paso(p, "verificado")'
      BY <1>2, <1>4 DEF Paso, Finales
    <2> QED
      BY <1>1, <1>4, <2>1, VigenteSigue
  <1> QED
    BY <1>7, <1>8, <1>9, <1>10, <1>11 DEF IInv

LEMMA DialogoIInv ==
    ASSUME IInv, NEW p \in Puestos,
           \/ \E r \in tabla[p] : PideBorrar(p, r)
           \/ Cancela(p)
           \/ Acepta(p)
    PROVE  IInv'
  <1>1. /\ UNCHANGED <<club, siguiente, ventana>>
        /\ aviso' = NULL
        /\ UNCHANGED tabla \/ TraerDatos(p)
    BY DEF PideBorrar, Cancela, Acepta, Calla
  <1>2. /\ tabla' \in [Puestos -> SUBSET FilasSocio]
        /\ \A q \in Puestos : \A r \in tabla'[q] : r.id_socio < siguiente
    BY <1>1, TablaLeida DEF IInv, TypeOK, IdsDados
  <1>3. /\ dialogo' \in [Puestos -> Dialogos \cup {NULL}]
        /\ \A q \in Puestos : Borrando(q)' => dialogo'[q].socio < siguiente
        /\ \A q \in Puestos \ {p} : dialogo'[q] = dialogo[q]
        /\ dialogo'[p] = NULL \/ dialogo'[p].paso = "confirma"
    <2>1. CASE Cancela(p) \/ Acepta(p)
      BY <2>1 DEF Cancela, Acepta, Borrando, IInv, TypeOK, IdsDados
    <2>2. ASSUME NEW r \in tabla[p], PideBorrar(p, r) PROVE <1>3
      <3> DEFINE d == [paso |-> "confirma", socio |-> r.id_socio]
      <3>1. r \in FilasSocio /\ r.id_socio < siguiente
        BY DEF IInv, TypeOK, IdsDados
      <3>2. d \in Borrados /\ d.paso = "confirma" /\ d.socio < siguiente
        BY <3>1 DEF Borrados, FilasSocio
      <3>3. dialogo' = [dialogo EXCEPT ![p] = d]
        BY <2>2 DEF PideBorrar
      <3> HIDE DEF d
      <3>4. dialogo' \in [Puestos -> Dialogos \cup {NULL}]
        BY <3>2, <3>3 DEF IInv, TypeOK, Dialogos
      <3>5. \A q \in Puestos : dialogo'[q] = IF q = p THEN d ELSE dialogo[q]
        BY <3>3 DEF IInv, TypeOK
      <3> QED
        BY <3>2, <3>4, <3>5 DEF IInv, IdsDados, Borrando
    <2> QED
      BY <2>1, <2>2
  <1>4. TypeOK'
    BY <1>1, <1>2, <1>3 DEF IInv, TypeOK
  <1>5. CorreoUnico' /\ IdsDados'
    BY <1>1, <1>2, <1>3 DEF IInv, CorreoUnico, CorreosDistintos, UnPuesto,
       IdsDados
  <1>6. BorradoFuera'
    BY <1>1, <1>3 DEF IInv, BorradoFuera, Paso
  <1>7. VerificadoVigente'
    <2>1. ~Paso(p, "verificado")'
      BY <1>3 DEF Paso
    <2> QED
      BY <1>1, <1>3, <2>1, VigenteSigue
  <1> QED
    BY <1>4, <1>5, <1>6, <1>7 DEF IInv

-----------------------------------------------------------------------------
LEMMA IInvNext == IInv /\ [Next]_vars => IInv'
  <1> SUFFICES ASSUME IInv, [Next]_vars PROVE IInv'
    OBVIOUS
  <1>1. CASE UNCHANGED vars
    <2>1. UNCHANGED <<club, siguiente, tabla, ventana, dialogo, aviso>>
      BY <1>1 DEF vars
    <2> QED
      BY <2>1 DEF IInv, TypeOK, CorreoUnico, CorreosDistintos, UnPuesto, IdsDados, Borrando,
         BorradoFuera, VerificadoVigente, Admitido, Paso
  <1>2. ASSUME NEW p \in Puestos,
               \/ Refrescar(p)
               \/ NuevoSocio(p)
               \/ \E r \in tabla[p] : ModificarSocio(p, r) \/ PideBorrar(p, r)
               \/ \E t \in Textos : Escribir(p, t)
               \/ AccionLimpiar(p)
               \/ Cerrar(p)
               \/ GuardarIncompleto(p)
               \/ GuardarNulo(p)
               \/ GuardarAlta(p)
               \/ Inserta(p)
               \/ GuardarEdicion(p)
               \/ Cancela(p)
               \/ Confirma(p)
               \/ Acepta(p)
        PROVE  IInv'
    <2>1. CASE Refrescar(p)
      BY <2>1, RefrescarIInv
    <2>2. CASE \E r \in tabla[p] : ModificarSocio(p, r) \/ PideBorrar(p, r)
      BY <2>2, FormularioIInv, DialogoIInv
    <2>3. CASE \/ NuevoSocio(p)
               \/ \E t \in Textos : Escribir(p, t)
               \/ AccionLimpiar(p)
               \/ Cerrar(p)
               \/ GuardarIncompleto(p)
               \/ GuardarNulo(p)
      BY <2>3, FormularioIInv
    <2>4. CASE GuardarAlta(p)
      BY <2>4, GuardarAltaIInv
    <2>5. CASE GuardarEdicion(p)
      BY <2>5, GuardarEdicionIInv
    <2>6. CASE Cancela(p) \/ Acepta(p)
      BY <2>6, DialogoIInv
    <2>7. CASE Confirma(p)
      BY <2>7, ConfirmaIInv
    <2>8. CASE Inserta(p)
      BY <2>8, InsertaIInv
    <2> QED
      BY <1>2, <2>1, <2>2, <2>3, <2>4, <2>5, <2>6, <2>7, <2>8
  <1> QED
    BY <1>1, <1>2 DEF Next

(* The invariant of the screens holds on any number of desktops: no two    *)
(* members have one id, every id a table or an alert holds has been given  *)
(* out, the member an alert reports as deleted is gone, and a form whose   *)
(* call has passed the checks would still pass them (alone, the unique     *)
(* address too).                                                           *)
THEOREM InvariantePantalla == Spec => []IInv
  BY IInvInit, IInvNext, PTL DEF Spec

(* Every variable of the screens, and the tables of the club, hold values  *)
(* of their types on any number of desktops.                               *)
THEOREM PantallaTipo == Spec => []TypeOK
  <1>1. IInv => TypeOK
    BY DEF IInv
  <1> QED
    BY <1>1, InvariantePantalla, PTL

(* However often the user of the only desktop in use presses "guardar",    *)
(* and whatever answers are lost, no two members share a mail address.     *)
THEOREM CorreoUnicoSiempre == Spec => []CorreoUnico
  <1>1. IInv => CorreoUnico
    BY DEF IInv
  <1> QED
    BY <1>1, InvariantePantalla, PTL

(* When the alert of a successful deletion is closed, the table no longer  *)
(* offers the member: it is still gone, for its id is never given again.   *)
THEOREM BajaMostradaSiempre == Spec => BajaMostrada
  <1> DEFINE Mostrada == \A p \in Puestos :
                            Paso(p, "eliminado") /\ dialogo'[p] = NULL
                            => \A r \in tabla'[p] : r.id_socio # dialogo[p].socio
  <1>1. IInv /\ [Next]_vars => [Mostrada]_vars
    <2> SUFFICES ASSUME IInv, [Next]_vars, ~UNCHANGED vars, NEW p \in Puestos,
                        Paso(p, "eliminado"), dialogo'[p] = NULL
                 PROVE  \A r \in tabla'[p] : r.id_socio # dialogo[p].socio
      OBVIOUS
    <2>1. dialogo[p] # NULL
      BY DEF Paso
    <2>2. Acepta(p)
      <3>1. PICK q \in Puestos :
               \/ UNCHANGED dialogo
               \/ \E r \in tabla[q] : PideBorrar(q, r)
               \/ GuardarAlta(q)
               \/ Inserta(q)
               \/ Cancela(q)
               \/ Confirma(q)
               \/ Acepta(q)
        BY DEF Next, Refrescar, NuevoSocio, ModificarSocio, Abre, Escribir, Cambia,
               AccionLimpiar, Cerrar, GuardarIncompleto, GuardarNulo, GuardarEdicion
      <3>2. dialogo'[p] # dialogo[p]
        BY <2>1
      <3>3. CASE UNCHANGED dialogo
        BY <3>2, <3>3
      <3>4. CASE \E r \in tabla[q] : PideBorrar(q, r)
        BY <2>1, <3>2, <3>4 DEF PideBorrar, Libre, IInv, TypeOK
      <3>5. CASE Cancela(q)
        BY <3>2, <3>5 DEF Cancela, Paso, IInv, TypeOK
      <3>6. CASE Confirma(q)
        BY <3>2, <3>6 DEF Confirma, Paso, IInv, TypeOK
      <3>7. CASE Acepta(q)
        BY <3>2, <3>7 DEF Acepta, IInv, TypeOK
      <3>8. CASE GuardarAlta(q)
        BY <3>2, <3>8 DEF GuardarAlta, Guardable, Abierta, Libre, IInv, TypeOK
      <3>9. CASE Inserta(q)
        BY <3>2, <3>9 DEF Inserta, Paso, IInv, TypeOK
      <3> QED
        BY <3>1, <3>3, <3>4, <3>5, <3>6, <3>7, <3>8, <3>9
    <2>3. TraerDatos(p)
      BY <2>2 DEF Acepta, Paso
    <2>4. \A r \in tabla'[p] : r \in club.Socio
      BY <2>3, TablaLeida
    <2>5. dialogo[p].socio \notin IdsSocio(club)
      BY DEF IInv, BorradoFuera
    <2> QED
      BY <2>4, <2>5 DEF IdsSocio
  <1> QED
    BY <1>1, InvariantePantalla, PTL DEF Spec, BajaMostrada

-----------------------------------------------------------------------------
(* What the screens do to the club: operations of the register, and edits  *)
(* of one member (NuevoSocioController.java:50-62), which keeps its id.    *)
Edita ==
    \E r \in club.Socio, q \in FilasSocio :
       /\ q.id_socio = r.id_socio
       /\ \A o \in club.Socio \ {r} : ~MismoPar(q, o)
       /\ club' = [club EXCEPT !.Socio = (@ \ {r}) \cup {q}]

LEMMA InsertaInscribe ==
    ASSUME IInv, NEW p \in Puestos, Inserta(p)
    PROVE  [RNext]_club
  <1>1. CASE UNCHANGED club
    BY <1>1
  <1>2. CASE HayId /\ Inscribir(FilaNueva(ventana[p].texto))
    <2>1. /\ ventana[p] # NULL
          /\ Completo(ventana[p].texto)
          /\ ~Nulo(ventana[p].texto)
      BY DEF Inserta, IInv, VerificadoVigente
    <2>2. FilaNueva(ventana[p].texto) \in FilasSocio
      <3>1. siguiente \in Ids
        BY <1>2, MaxIdAssumption DEF HayId, IInv, TypeOK, Ids
      <3> QED
        BY <2>1, <3>1, FilaGuardable DEF FilaNueva, FilasSocio
    <2> QED
      BY <1>2, <2>2 DEF RNext
  <1> QED
    BY <1>1, <1>2 DEF Inserta

LEMMA EdicionEdita ==
    ASSUME IInv, NEW p \in Puestos, GuardarEdicion(p)
    PROVE  Edita \/ UNCHANGED club
  <1>1. /\ ventana[p] # NULL
        /\ Completo(ventana[p].texto)
        /\ ~Nulo(ventana[p].texto)
    BY DEF GuardarEdicion, Guardable, Abierta
  <1>2. CASE Modifica(ventana[p].socio, ventana[p].texto)
    <2> DEFINE t == ventana[p].texto
               i == ventana[p].socio
               q == [id_socio |-> i, telefono |-> Almacenado(t.telefono),
                     correo |-> Almacenado(t.correo)]
    <2>1. PICK r \in club.Socio :
             /\ r.id_socio = i
             /\ \A o \in club.Socio \ {r} : t.correo # o.correo
             /\ club' = [club EXCEPT !.Socio = (@ \ {r}) \cup {q}]
      BY <1>2 DEF Modifica
    <2>2. i \in Ids
      BY <2>1 DEF IInv, TypeOK, BasesDeDatos, FilasSocio
    <2>3. q \in FilasSocio /\ q.correo = t.correo
      BY <1>1, <2>2, FilaGuardable DEF FilasSocio
    <2>4. \A o \in club.Socio \ {r} : ~MismoPar(q, o)
      BY <2>1, <2>3 DEF MismoPar
    <2> HIDE DEF q
    <2>5. q.id_socio = r.id_socio
      BY <2>1 DEF q
    <2> QED
      BY <2>1, <2>3, <2>4, <2>5 DEF Edita
  <1> QED
    BY <1>2 DEF GuardarEdicion

LEMMA CambiosDePantalla ==
    ASSUME IInv, [Next]_vars
    PROVE  [RNext \/ Edita]_club
  <1>1. CASE UNCHANGED club
    BY <1>1
  <1>2. ASSUME NEW p \in Puestos, Confirma(p)
        PROVE  [RNext]_club
    <2>1. ASSUME NEW r \in club.Socio, DarDeBaja(r)
          PROVE  RNext
      <3>1. r \in FilasSocio
        BY DEF IInv, TypeOK, BasesDeDatos
      <3> QED
        BY <2>1, <3>1 DEF RNext
    <2> QED
      BY <1>2, <2>1 DEF Confirma, EliminarSocio
  <1>3. \/ UNCHANGED club
        \/ \E p \in Puestos : Confirma(p) \/ Inserta(p) \/ GuardarEdicion(p)
    BY DEF Next, vars, Refrescar, NuevoSocio, ModificarSocio, Abre, PideBorrar, Escribir, Cambia,
           AccionLimpiar, Cerrar, GuardarIncompleto, GuardarNulo, GuardarAlta, Cancela, Acepta
  <1> QED
    BY <1>1, <1>2, <1>3, InsertaInscribe, EdicionEdita

(* An edit keeps every boat with its owner, and the pair its own.          *)
LEMMA EditaTipo ==
    ASSUME RInv, Edita
    PROVE  RInv' /\ \A i : Conserva(club, club', i)
  <1>1. PICK r \in club.Socio, q \in FilasSocio :
           /\ q.id_socio = r.id_socio
           /\ \A o \in club.Socio \ {r} : ~MismoPar(q, o)
           /\ club' = [club EXCEPT !.Socio = (@ \ {r}) \cup {q}]
    BY DEF Edita
  <1>2. /\ club'.Socio = (club.Socio \ {r}) \cup {q} /\ club'.Barco = club.Barco
        /\ club'.Viaje_Barco = club.Viaje_Barco /\ club'.Barco_Muelle = club.Barco_Muelle
        /\ club' \in BasesDeDatos
    BY <1>1 DEF RInv, BasesDeDatos
  <1>3. ClavesPrimarias(club')
    BY <1>1, <1>2 DEF RInv, Restricciones, ClavesPrimarias
  <1>4. LlavesForaneas(club')
    <2>1. \A b \in club.Barco : \E o \in club'.Socio : o.id_socio = b.id_socio
      BY <1>1, <1>2 DEF RInv, Restricciones, LlavesForaneas
    <2> QED
      BY <1>2, <2>1 DEF RInv, Restricciones, LlavesForaneas
  <1>5. TelefonoCorreoUnicos(club')
    BY <1>1, <1>2 DEF RInv, Restricciones, TelefonoCorreoUnicos, MismoPar
  <1> QED
    BY <1>2, <1>3, <1>4, <1>5, MasConserva DEF RInv, Restricciones

LEMMA PantallaRInv == IInv /\ RInv /\ [Next]_vars => RInv'
  BY CambiosDePantalla, RNextTipo, EditaTipo

LEMMA PantallaInicio == Init => RInv
  BY DatosAssumption DEF Init, RInv

(* Whatever the desktops do with stale tables, overlapping calls and lost  *)
(* answers, the tables keep the constraints of club.sql: an edit of one    *)
(* desktop that overlaps a deletion of another leaves no boat behind.      *)
THEOREM PantallaConRestricciones == Spec => []RInv
  BY PantallaRInv, PantallaInicio, IInvInit, IInvNext, PTL DEF Spec

(* No screen takes a boat, a trip or a stay from a member that stays: an   *)
(* edit keeps its id, and so its boats, and a deletion takes those of the  *)
(* member that was confirmed, however old the row it was confirmed on.     *)
THEOREM PantallaConserva ==
    Spec => [][\A i \in IdsSocio(club) \cap IdsSocio(club') : Conserva(club, club', i)]_club
  <1>1. IInv /\ RInv /\ [Next]_vars =>
          [\A i \in IdsSocio(club) \cap IdsSocio(club') : Conserva(club, club', i)]_club
    BY CambiosDePantalla, RNextConserva, EditaTipo
  <1> QED
    BY <1>1, PantallaRInv, PantallaInicio, IInvInit, IInvNext, PTL DEF Spec

-----------------------------------------------------------------------------
(* A form that is not editing has a text in every field: setText(null) is  *)
(* only called for a member that is being edited.                          *)
SinNulo(v) == v # NULL /\ ~v.modoEdicion => v.texto.telefono # NULL /\ v.texto.correo # NULL

NuevoSinNulo == \A p \in Puestos : SinNulo(ventana[p])

LEMMA FormularioSinNulo ==
    ASSUME NULL # Vacio
    PROVE  /\ SinNulo(FormularioNuevo) /\ SinNulo(NULL)
           /\ \A x, t : SinNulo([modoEdicion |-> TRUE, socio |-> x, texto |-> t])
  BY DEF SinNulo, FormularioNuevo, Limpio

(* What a desktop may put into its form.                                   *)
LEMMA VentanaSinNulo ==
    ASSUME TypeOK, NuevoSinNulo, NEW p \in Puestos, NEW v,
           ventana' = [ventana EXCEPT ![p] = v], SinNulo(v)
    PROVE  NuevoSinNulo'
  <1>1. \A q \in Puestos : ventana'[q] = IF q = p THEN v ELSE ventana[q]
    BY DEF TypeOK
  <1> QED
    BY <1>1 DEF NuevoSinNulo, SinNulo

LEMMA EscribirSinNulo ==
    ASSUME TypeOK, NuevoSinNulo, NEW p \in Puestos, NEW t \in Textos, Escribir(p, t)
    PROVE  NuevoSinNulo'
  <1>1. PICK tel \in {t.telefono, ventana[p].texto.telefono} :
           ventana' = [ventana EXCEPT
                          ![p] = [ventana[p] EXCEPT !.texto = [t EXCEPT !.telefono = tel]]]
    BY DEF Escribir, Cambia
  <1> DEFINE w == [t EXCEPT !.telefono = tel]
             v == [ventana[p] EXCEPT !.texto = w]
  <1>2. ventana[p] # NULL /\ ventana[p] \in Ventanas
    BY DEF Escribir, Abierta, TypeOK
  <1>3. w.telefono = tel /\ w.correo = t.correo /\ t.correo # NULL /\ t.telefono # NULL
    BY TextosAssumption DEF Formulario
  <1>4. v.modoEdicion = ventana[p].modoEdicion /\ v.texto = w
    BY <1>2 DEF Ventanas
  <1>5. SinNulo(v)
    BY <1>1, <1>2, <1>3, <1>4 DEF SinNulo, NuevoSinNulo
  <1> QED
    BY <1>1, <1>5, VentanaSinNulo

LEMMA PasoSinNulo ==
    ASSUME NULL # Vacio, TypeOK, NuevoSinNulo, [Next]_vars
    PROVE  NuevoSinNulo'
  <1>1. CASE UNCHANGED ventana
    BY <1>1 DEF NuevoSinNulo, SinNulo
  <1>2. ASSUME NEW p \in Puestos, NEW v, ventana' = [ventana EXCEPT ![p] = v],
               v \in {FormularioNuevo, NULL}
        PROVE  NuevoSinNulo'
    BY <1>2, FormularioSinNulo, VentanaSinNulo
  <1>3. ASSUME NEW p \in Puestos, NEW r, ModificarSocio(p, r)
        PROVE  NuevoSinNulo'
    BY <1>3, FormularioSinNulo, VentanaSinNulo DEF ModificarSocio, Abre
  <1>4. \/ UNCHANGED ventana
        \/ \E p \in Puestos :
              \/ \E v \in {FormularioNuevo, NULL} : ventana' = [ventana EXCEPT ![p] = v]
              \/ \E r \in tabla[p] : ModificarSocio(p, r)
              \/ \E t \in Textos : Escribir(p, t)
    BY DEF Next, vars, Refrescar, NuevoSocio, Abre, PideBorrar, Cambia, AccionLimpiar, Cerrar,
           GuardarIncompleto, GuardarNulo, GuardarAlta, Inserta, GuardarEdicion, Termina,
           Cancela, Confirma, Acepta
  <1> QED
    BY <1>1, <1>2, <1>3, <1>4, EscribirSinNulo

(* A step tells one user one thing, or nobody anything.                    *)
LEMMA UnSoloAviso ==
    ASSUME NULL \notin [puesto : Puestos, texto : Avisos],
           NEW p \in Puestos, NEW x \in Avisos, Dicho(p, x)
    PROVE  ~Calla /\ \A q, y : Di(q, y) => q = p /\ y = x
  BY DEF Calla, Dicho, Di

(* The run `sin_telefono` finds a complete form that cannot be sent; it is *)
(* an edit, always: a new member that is complete can be sent, whatever    *)
(* the desktop has edited before (NuevoSocioController.java:32-33, 75-76,  *)
(* 113-115, which clear the fields as they leave the edit mode).           *)
THEOREM NuevoSePuedeEnviar ==
    ASSUME NULL # Vacio, NULL \notin [puesto : Puestos, texto : Avisos]
    PROVE  Spec => [][\A p \in Puestos :
                         Dicho(p, "error inesperado") => ventana[p].modoEdicion]_vars
  <1> DEFINE Editando == \A p \in Puestos :
                            Dicho(p, "error inesperado") => ventana[p].modoEdicion
  <1>1. Init => NuevoSinNulo
    BY FormularioSinNulo DEF Init, NuevoSinNulo
  <1>2. IInv /\ NuevoSinNulo /\ [Next]_vars => NuevoSinNulo'
    BY PasoSinNulo DEF IInv
  <1>3. IInv /\ NuevoSinNulo /\ [Next]_vars => [Editando]_vars
    <2> SUFFICES ASSUME NuevoSinNulo, Next, NEW p \in Puestos, Dicho(p, "error inesperado")
                 PROVE  ventana[p].modoEdicion
      OBVIOUS
    <2>0. /\ \A q \in Puestos : ~Calla /\ (\A y : Di(q, y) => y = "error inesperado")
          /\ \A q, y : Di(q, y) => q = p
      <3>1. "error inesperado" \in Avisos
        BY Zenon DEF Avisos
      <3>2. ~Calla /\ \A q, y : Di(q, y) => q = p /\ y = "error inesperado"
        BY <3>1, UnSoloAviso, Zenon
      <3> QED
        BY <3>2, Zenon
    <2>1. \A q \in Puestos : ~Calla /\ (\A y : Di(q, y) => y = "error inesperado")
      BY <2>0
    <2>2. PICK q \in Puestos :
             \/ Refrescar(q)
             \/ NuevoSocio(q)
             \/ \E r \in tabla[q] : ModificarSocio(q, r) \/ PideBorrar(q, r)
             \/ \E t \in Textos : Escribir(q, t)
             \/ AccionLimpiar(q)
             \/ Cerrar(q)
             \/ GuardarIncompleto(q)
             \/ GuardarNulo(q)
             \/ GuardarAlta(q)
             \/ Inserta(q)
             \/ GuardarEdicion(q)
             \/ Cancela(q)
             \/ Confirma(q)
             \/ Acepta(q)
      BY DEF Next
    <2>3. \A bien : Termina(q, bien) => bien = "error inesperado"
      BY <2>1, Zenon DEF Termina
    <2>4. CASE \/ Refrescar(q)
               \/ NuevoSocio(q)
               \/ \E r \in tabla[q] : ModificarSocio(q, r) \/ PideBorrar(q, r)
               \/ \E t \in Textos : Escribir(q, t)
               \/ AccionLimpiar(q)
               \/ Cerrar(q)
               \/ Cancela(q)
               \/ Acepta(q)
      BY <2>1, <2>4, Zenon DEF Refrescar, NuevoSocio, ModificarSocio, Abre, PideBorrar,
         Escribir, AccionLimpiar, Cerrar, Cancela, Acepta
    <2>5. CASE GuardarIncompleto(q)
      BY <2>1, <2>5, Zenon DEF GuardarIncompleto
    <2>6. CASE GuardarAlta(q)
      BY <2>1, <2>3, <2>6, Zenon DEF GuardarAlta
    <2>7. CASE Inserta(q)
      BY <2>3, <2>7, Zenon DEF Inserta
    <2>8. CASE GuardarEdicion(q)
      BY <2>3, <2>8, Zenon DEF GuardarEdicion
    <2>9. CASE Confirma(q)
      BY <2>1, <2>9, Zenon DEF Confirma, Finales
    <2>10. CASE GuardarNulo(q)
      <3>1. q = p /\ Abierta(q) /\ Nulo(ventana[q].texto)
        BY <2>0, <2>10, Zenon DEF GuardarNulo
      <3>2. SinNulo(ventana[p])
        BY DEF NuevoSinNulo
      <3> QED
        BY <3>1, <3>2, Zenon DEF Abierta, Nulo, SinNulo
    <2> QED
      BY <2>2, <2>4, <2>5, <2>6, <2>7, <2>8, <2>9, <2>10
  <1> QED
    BY <1>1, <1>2, <1>3, IInvInit, IInvNext, PTL DEF Spec
=============================================================================
