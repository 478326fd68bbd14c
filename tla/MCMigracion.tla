----------------------------- MODULE MCMigracion -----------------------------
(* Instances of Migracion for TLC.                                         *)
EXTENDS Migracion

CONSTANTS s1, s2, n1, n2, b1, nx, k1, k2, b2, kx, ky

(* b1 is n1, and b2 is k2, after blanks; nx, kx and ky are long.           *)
PodaNombres    == [n \in Nombres |-> IF n = b1 THEN n1 ELSE n]
RecortaCodigos == [k \in Codigos |-> IF k \in {kx, ky} THEN k1 ELSE IF k = b2 THEN k2 ELSE k]

(* A settlement with all its columns, in municipality 1 and city 1 of its  *)
(* state; the others change one thing of it, or a few.                     *)
Base == [fila |-> 1, c_estado |-> 1, c_mnpio |-> 1, c_cve_ciudad |-> 1,
         c_tipo_asenta |-> 1, id_asenta_cpcons |-> 1, c_oficina |-> 1,
         d_ciudad |-> n1, d_asenta |-> n1, d_tipo_asenta |-> n1,
         d_codigo |-> k1, d_cp |-> k1, d_zona |-> "Urbano", nulos |-> {}]

Vecina     == [Base EXCEPT !.fila = 2, !.id_asenta_cpcons = 2, !.d_asenta = n2, !.d_codigo = k2]
OtroEstado == [Vecina EXCEPT !.c_estado = 2, !.d_ciudad = n2, !.c_oficina = 2, !.d_cp = k2]
Larga      == [Base EXCEPT !.d_codigo = kx, !.d_asenta = b1]
Sangrada   == [OtroEstado EXCEPT !.d_codigo = b2, !.d_ciudad = b1, !.d_zona = "sangrada"]
OtroTipo   == [Vecina EXCEPT !.c_tipo_asenta = 2, !.d_tipo_asenta = b1, !.d_codigo = kx]
MuyLarga   == [Base EXCEPT !.d_codigo = ky]
Repetida   == [Vecina EXCEPT !.d_codigo = k1, !.d_asenta = nx]

(* The first table is for MigrarSepomexLimpio only: one number of city in  *)
(* two states; the second for MigrarSepomexACodigoPostal only, once the    *)
(* columns are wide: trimmed, the two types have one name; the third for   *)
(* neither.                                                                *)
PlanasMixtas == {{Larga, Sangrada}, {Base, OtroTipo}, {MuyLarga, Repetida}}

PlanasDosEstados == {{Base, OtroEstado}}

Nadas == {SinFilas}
=============================================================================
