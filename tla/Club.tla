-------------------------------- MODULE Club --------------------------------
(***************************************************************************)
(* The tables of the schema `club` that the member procedures read and     *)
(* write (club.sql), as one record of sets of rows, and the constraints    *)
(* the schema declares on them.                                            *)
(*                                                                         *)
(* Rows keep the columns the procedures look at: keys, foreign keys and    *)
(* the two columns of UNIQUE (telefono, correo).  Names, prices and dates  *)
(* are left out; a stay of a boat at a dock is one member of Estadias,     *)
(* standing for the pair (id_muelle, fecha_estadia).  Viaje and Muelle are *)
(* the constant sets Viajes and Estadias: no operation changes them.       *)
(***************************************************************************)
EXTENDS Naturals

CONSTANTS
    Telefonos,      \* non-blank telephone numbers, as stored (trimmed)
    Correos,        \* non-blank mail addresses, as stored (trimmed)
    Matriculas,     \* boat registrations
    Viajes,         \* trips a boat may have made
    Estadias,       \* (dock, date) pairs a boat may have stayed at
    MaxId,          \* largest value of the AUTO_INCREMENT column id_socio
    NULL            \* SQL's NULL

ASSUME MaxIdAssumption == MaxId \in Nat

ASSUME NullAssumption == NULL \notin Telefonos \cup Correos

Ids == 1 .. MaxId

FilasSocio       == [id_socio : Ids, telefono : Telefonos \cup {NULL},
                     correo : Correos \cup {NULL}]
FilasBarco       == [n_matricula : Matriculas, id_socio : Ids]
FilasViajeBarco  == [n_matricula : Matriculas, n_viaje : Viajes]
FilasBarcoMuelle == [n_matricula : Matriculas, estadia : Estadias]

BasesDeDatos == [Socio        : SUBSET FilasSocio,
                 Barco        : SUBSET FilasBarco,
                 Viaje_Barco  : SUBSET FilasViajeBarco,
                 Barco_Muelle : SUBSET FilasBarcoMuelle]

Vacia == [Socio |-> {}, Barco |-> {}, Viaje_Barco |-> {}, Barco_Muelle |-> {}]

(* The database b without the rows of the database d. *)
Menos(b, d) == [Socio        |-> b.Socio \ d.Socio,
                Barco        |-> b.Barco \ d.Barco,
                Viaje_Barco  |-> b.Viaje_Barco \ d.Viaje_Barco,
                Barco_Muelle |-> b.Barco_Muelle \ d.Barco_Muelle]

IdsSocio(b) == {r.id_socio : r \in b.Socio}

BarcosDe(b, id) == {r \in b.Barco : r.id_socio = id}

(* The rows of a child table whose boat is one of bs: the INNER JOIN       *)
(* ON n_matricula of the DELETE statements.                                *)
HijasDe(tabla, bs) == {h \in tabla : \E r \in bs : r.n_matricula = h.n_matricula}

-----------------------------------------------------------------------------
(* The declared constraints. *)

ClavesPrimarias(b) ==
    /\ \A r, q \in b.Socio : r.id_socio = q.id_socio => r = q
    /\ \A r, q \in b.Barco : r.n_matricula = q.n_matricula => r = q

LlavesForaneas(b) ==
    /\ \A r \in b.Barco : \E q \in b.Socio : q.id_socio = r.id_socio
    /\ \A h \in b.Viaje_Barco \cup b.Barco_Muelle :
          \E r \in b.Barco : r.n_matricula = h.n_matricula

(* UNIQUE (telefono, correo) compares no row that has a NULL in either     *)
(* column.                                                                 *)
MismoPar(r, q) == /\ r.telefono = q.telefono
                  /\ r.correo = q.correo
                  /\ r.telefono # NULL
                  /\ r.correo # NULL

TelefonoCorreoUnicos(b) == \A r, q \in b.Socio : MismoPar(r, q) => r = q

Restricciones(b) == ClavesPrimarias(b) /\ LlavesForaneas(b) /\ TelefonoCorreoUnicos(b)
=============================================================================
