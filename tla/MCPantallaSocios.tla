-------------------------- MODULE MCPantallaSocios --------------------------
(* Instances of PantallaSocios for TLC. *)
EXTENDS PantallaSocios, TLC

CONSTANTS p1, p2, t1, c1, c2

Texto(b, t, c) == [blancos |-> b, telefono |-> t, correo |-> c]

(* Two members without telephone.                                          *)
TextosDos == {Texto({}, Vacio, c1), Texto({}, Vacio, c2)}

(* A member with a telephone, one without, and forms that leave the        *)
(* surnames or the mail address blank.                                     *)
TextosMixtos == {Texto({}, t1, c1), Texto({}, Vacio, c2), Texto({"apellidos"}, Vacio, c1),
                 Texto({}, t1, Vacio)}

TextoSinApellidos == {Texto({"apellidos"}, Vacio, c1)}

Datos(filas) == [Vacia EXCEPT !.Socio = filas]

(* A member without telephone, or nobody.                                  *)
DatosUno  == {Datos({[id_socio |-> 1, telefono |-> NULL, correo |-> c1]})}
DatosNada == {Vacia}

Simetria == Permutations(Puestos)
=============================================================================
