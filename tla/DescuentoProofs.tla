-------------------------- MODULE DescuentoProofs --------------------------
(***************************************************************************)
(* Proofs about Descuento and Vistas, for any sets of boats and trips and  *)
(* any fee: the type invariant; that the register changes as RegistroClub  *)
(* lets it; that the fee of a member never rises while the member stays;   *)
(* that a trip counts once; and that the view shows what is counted.       *)
(***************************************************************************)
EXTENDS Vistas, RegistroProofs, FiniteSetTheorems

-----------------------------------------------------------------------------
(* The percentages. *)

(* funcion.sql:34-50 answers a percentage between 0 and 25.                *)
LEMMA PorcentajeAcotado ==
    ASSUME NEW n \in Nat, NEW v \in Nat
    PROVE  Limite(PorBarcos(n) + PorViajes(v)) \in 0 .. 25
  BY DEF Limite, PorBarcos, PorViajes

(* More boats and more trips never earn a lower percentage: the branches   *)
(* of funcion.sql:34-45 are tried in falling order.                        *)
LEMMA PorcentajeCrece ==
    ASSUME NEW n \in Nat, NEW k \in Nat, n <= k,
           NEW v \in Nat, NEW w \in Nat, v <= w
    PROVE  Limite(PorBarcos(n) + PorViajes(v)) <= Limite(PorBarcos(k) + PorViajes(w))
  BY DEF Limite, PorBarcos, PorViajes

(* The fee that is left (funcion.sql:53) falls as the percentage rises,    *)
(* rounding included.                                                      *)
LEMMA ConDescuentoBaja ==
    ASSUME NEW base \in Nat, NEW p \in 0 .. 25, NEW q \in 0 .. 25, p <= q
    PROVE  /\ ConDescuento(base, q) <= ConDescuento(base, p)
           /\ ConDescuento(base, p) \in Nat
  <1> DEFINE x == base * (100 - q) + 50
             y == base * (100 - p) + 50
  <1>1. base * (100 - q) <= base * (100 - p)
    <2>1. 100 - q \in Nat /\ 100 - p \in Nat /\ 100 - q <= 100 - p
      OBVIOUS
    <2> HIDE DEF x, y
    <2>2. ASSUME NEW a \in Nat, NEW b \in Nat, a <= b
          PROVE  base * a <= base * b
      <3>1. b - a \in Nat /\ base * (b - a) \in Nat
        BY <2>2
      <3>2. base * b = base * a + base * (b - a)
        OBVIOUS
      <3> QED
        BY <3>1, <3>2, base * a \in Nat, base * b \in Nat
    <2> QED
      BY <2>1, <2>2
  <1>2. x \in Nat /\ y \in Nat /\ x <= y
    BY <1>1, 100 - p \in Nat, 100 - q \in Nat,
       base * (100 - p) \in Nat, base * (100 - q) \in Nat
  <1> HIDE DEF x, y
  <1>3. x \div 100 <= y \div 100 /\ y \div 100 \in Nat
    BY <1>2
  <1> QED
    BY <1>3 DEF ConDescuento, x, y

-----------------------------------------------------------------------------
(* The counts. *)

(* A member has finitely many boats, so COUNT of them is a number.         *)
LEMMA BarcosFinitos ==
    ASSUME NEW b \in BasesDeDatos, NEW id \in Ids
    PROVE  IsFiniteSet(BarcosDe(b, id))
  <1> DEFINE f == [m \in Matriculas |-> [n_matricula |-> m, id_socio |-> id]]
             T == {f[m] : m \in Matriculas}
  <1>1. f \in Surjection(Matriculas, T)
    BY DEF Surjection
  <1>2. IsFiniteSet(T)
    BY <1>1, FinitosAssumption, FS_Surjection
  <1>3. BarcosDe(b, id) \subseteq T
    BY DEF BarcosDe, BasesDeDatos, FilasBarco
  <1> QED
    BY <1>2, <1>3, FS_Subset

ViajesDe(b, id) == {h.n_viaje : h \in HijasDe(b.Viaje_Barco, BarcosDe(b, id))}

(* The trips of a member are among those of the club, so COUNT DISTINCT    *)
(* of them is a number too.                                                *)
LEMMA ViajesFinitos ==
    ASSUME NEW b \in BasesDeDatos, NEW id \in Ids
    PROVE  ViajesDe(b, id) \subseteq Viajes /\ IsFiniteSet(ViajesDe(b, id))
  <1>1. ViajesDe(b, id) \subseteq Viajes
    BY DEF ViajesDe, HijasDe, BasesDeDatos, FilasViajeBarco
  <1> QED
    BY <1>1, FinitosAssumption, FS_Subset

(* The boats of a member, and their trips, are all in d.                   *)
Sigue(b, d, id) ==
    /\ BarcosDe(b, id) \subseteq BarcosDe(d, id)
    /\ HijasDe(b.Viaje_Barco, BarcosDe(b, id)) \subseteq HijasDe(d.Viaje_Barco, BarcosDe(d, id))

(* Added rows of Barco and Viaje_Barco take nothing from anyone.           *)
LEMMA CreceSigue ==
    ASSUME NEW b, NEW d, NEW id, b.Barco \subseteq d.Barco, b.Viaje_Barco \subseteq d.Viaje_Barco
    PROVE  Sigue(b, d, id)
  BY DEF Sigue, BarcosDe, HijasDe

(* Neither count falls while the member keeps what it has.                 *)
LEMMA CuentasCrecen ==
    ASSUME NEW b \in BasesDeDatos, NEW d \in BasesDeDatos, NEW id \in Ids, Sigue(b, d, id)
    PROVE  /\ CantidadBarcos(b, id) \in Nat /\ CantidadBarcos(d, id) \in Nat
           /\ TotalViajes(b, id) \in Nat /\ TotalViajes(d, id) \in Nat
           /\ CantidadBarcos(b, id) <= CantidadBarcos(d, id)
           /\ TotalViajes(b, id) <= TotalViajes(d, id)
  <1>1. BarcosDe(b, id) \subseteq BarcosDe(d, id)
    BY DEF Sigue
  <1>2. ViajesDe(b, id) \subseteq ViajesDe(d, id)
    BY DEF Sigue, ViajesDe
  <1>3. IsFiniteSet(BarcosDe(d, id)) /\ IsFiniteSet(BarcosDe(b, id))
    BY BarcosFinitos
  <1>4. IsFiniteSet(ViajesDe(d, id)) /\ IsFiniteSet(ViajesDe(b, id))
    BY ViajesFinitos
  <1>5. /\ Cardinality(BarcosDe(b, id)) <= Cardinality(BarcosDe(d, id))
        /\ Cardinality(ViajesDe(b, id)) <= Cardinality(ViajesDe(d, id))
    BY <1>1, <1>2, <1>3, <1>4, FS_Subset
  <1> QED
    BY <1>3, <1>4, <1>5, FS_CardinalityType DEF CantidadBarcos, TotalViajes, ViajesDe

LEMMA MensualidadNatural ==
    ASSUME NEW b \in BasesDeDatos, NEW id \in Ids, NEW base \in Nat
    PROVE  Mensualidad(b, id, base) \in Nat
  <1>1. CantidadBarcos(b, id) \in Nat /\ TotalViajes(b, id) \in Nat
    BY CuentasCrecen DEF Sigue
  <1>2. Porcentaje(b, id) \in 0 .. 25
    BY <1>1, PorcentajeAcotado DEF Porcentaje
  <1>3. Porcentaje(b, id) <= Porcentaje(b, id)
    BY <1>2
  <1> QED
    BY <1>2, <1>3, ConDescuentoBaja DEF Mensualidad

(* The fee of a member who keeps all, and may have more, is not more.      *)
LEMMA MensualidadBaja ==
    ASSUME NEW b \in BasesDeDatos, NEW d \in BasesDeDatos, NEW id \in Ids, NEW base \in Nat,
           Sigue(b, d, id)
    PROVE  Mensualidad(d, id, base) <= Mensualidad(b, id, base)
  <1>1. /\ CantidadBarcos(b, id) \in Nat /\ CantidadBarcos(d, id) \in Nat
        /\ TotalViajes(b, id) \in Nat /\ TotalViajes(d, id) \in Nat
        /\ CantidadBarcos(b, id) <= CantidadBarcos(d, id)
        /\ TotalViajes(b, id) <= TotalViajes(d, id)
    BY CuentasCrecen
  <1>2. Porcentaje(b, id) \in 0 .. 25 /\ Porcentaje(d, id) \in 0 .. 25
    BY <1>1, PorcentajeAcotado DEF Porcentaje
  <1>3. Porcentaje(b, id) <= Porcentaje(d, id)
    BY <1>1, PorcentajeCrece DEF Porcentaje
  <1> QED
    BY <1>2, <1>3, ConDescuentoBaja DEF Mensualidad

-----------------------------------------------------------------------------
(* Every variable of Descuento keeps its type, for any sets of boats and   *)
(* trips: in particular the fee is never negative.                         *)
THEOREM TipoDescuento == Spec => []TypeOK
  <1>1. Init => TypeOK
    BY DatosAssumption, AltasAssumption DEF Init, TypeOK
  <1>2. TypeOK /\ [Next]_vars => TypeOK'
    <2> SUFFICES ASSUME TypeOK, [Next]_vars PROVE TypeOK'
      OBVIOUS
    <2> USE DEF TypeOK
    <2>1. ASSUME NEW id \in Ids, NEW base \in Bases, Calcula(id, base) PROVE TypeOK'
      <3>1. Mensualidad(club, id, base) \in Nat
        BY BasesAssumption, MensualidadNatural
      <3> QED
        BY <2>1, <3>1 DEF Calcula
    <2>2. CASE Registra
      <3>1. altas' \in 0 .. MaxAltas
        BY <2>2, AltasAssumption DEF Registra
      <3>2. club' \in BasesDeDatos
        BY <2>2 DEF Registra, RegistrarBarco, RegistrarViaje, BasesDeDatos
      <3> QED
        BY <2>2, <3>1, <3>2 DEF Registra
    <2>3. CASE Baja
      <3>1. club' \in BasesDeDatos
        BY <2>3 DEF Baja, DarDeBaja, Menos, BasesDeDatos
      <3> QED
        BY <2>3, <3>1 DEF Baja
    <2>4. CASE UNCHANGED vars
      BY <2>4 DEF vars
    <2> QED
      BY <2>1, <2>2, <2>3, <2>4 DEF Next
  <1> QED
    BY <1>1, <1>2, PTL DEF Spec

(* A boat or a trip more never raises a fee: no threshold of               *)
(* funcion.sql:34-50, and no rounding at line 53, works against a member   *)
(* who gains something.                                                    *)
THEOREM NuncaSubeSiempre == Spec => NuncaSube
  <1>1. TypeOK /\ TypeOK' /\ [Next]_vars
        => [Crece => \A id \in Ids, base \in Bases :
                        Mensualidad(club', id, base) <= Mensualidad(club, id, base)]_vars
    BY BasesAssumption, CreceSigue, MensualidadBaja DEF TypeOK, Crece
  <1> QED
    BY <1>1, TipoDescuento, PTL DEF Spec, NuncaSube

-----------------------------------------------------------------------------
(* The register. *)

(* The fee is asked for over a register that changes by whole operations   *)
(* only, so that what is proved of RegistroClub holds here.                *)
THEOREM DescuentoSobreRegistro == Spec => RSpec
  <1>1. Init => RInit
    BY DatosAssumption DEF Init, RInit
  <1>2. [Next]_vars => [RNext]_club
    BY DEF Next, Registra, Baja, Calcula, vars, RNext
  <1> QED
    BY <1>1, <1>2, PTL DEF Spec, RSpec

(* The fee of a member who stays never rises, whoever else leaves: no      *)
(* deletion takes a boat or a trip from anyone else                        *)
(* (EliminarSocio.sql:32-54, funcion.sql:22-53).                           *)
THEOREM CuotaDelQueSigueSiempre == Spec => CuotaDelQueSigue
  <1>1. ASSUME TypeOK, TypeOK', RInv, [RNext]_club,
               NEW id \in IdsSocio(club) \cap IdsSocio(club'), NEW base \in Bases
        PROVE  Mensualidad(club', id, base) <= Mensualidad(club, id, base)
    <2>1. id \in Ids
      BY <1>1 DEF TypeOK, IdsSocio, BasesDeDatos, FilasSocio
    <2>2. Sigue(club, club', id)
      BY <1>1, RNextConserva DEF Conserva, Sigue
    <2> QED
      BY <1>1, <2>1, <2>2, BasesAssumption, MensualidadBaja DEF TypeOK
  <1>2. TypeOK /\ TypeOK' /\ RInv /\ [RNext]_club =>
          [\A id \in IdsSocio(club) \cap IdsSocio(club'), base \in Bases :
              Mensualidad(club', id, base) <= Mensualidad(club, id, base)]_vars
    BY <1>1
  <1> QED
    BY <1>2, TipoDescuento, DescuentoSobreRegistro, RegistroConRestricciones,
       PTL DEF RSpec, CuotaDelQueSigue

-----------------------------------------------------------------------------
(* The view. *)

DeSocio(b, id) == {r \in viajescompleta(b) : r.barco.id_socio = id}

(* The view has every boat of a member, with a trip or without.            *)
LEMMA BarcosVistos ==
    ASSUME NEW b \in BasesDeDatos, NEW id \in Ids
    PROVE  {r.barco : r \in DeSocio(b, id)} = BarcosDe(b, id)
  <1>1. ASSUME NEW r \in DeSocio(b, id) PROVE r.barco \in BarcosDe(b, id)
    BY <1>1 DEF DeSocio, viajescompleta, Juntadas, BarcosDe
  <1>2. ASSUME NEW q \in BarcosDe(b, id) PROVE \E r \in DeSocio(b, id) : r.barco = q
    <2>1. q \in b.Barco /\ q.id_socio = id
      BY DEF BarcosDe
    <2>2. CASE \E h \in ViajesConBarco(b) : h.n_matricula = q.n_matricula
      <3>1. PICK h \in ViajesConBarco(b) : h.n_matricula = q.n_matricula
        BY <2>2
      <3> DEFINE f == [n_viaje |-> h.n_viaje, barco |-> q]
      <3>2. <<h, q>> \in ViajesConBarco(b) \X b.Barco
        BY <2>1
      <3>3. f \in Juntadas(b)
        BY <3>1, <3>2 DEF Juntadas
      <3>4. f \in DeSocio(b, id) /\ f.barco = q
        BY <2>1, <3>3 DEF DeSocio, viajescompleta
      <3> QED
        BY <3>4
    <2>3. CASE \A h \in ViajesConBarco(b) : h.n_matricula # q.n_matricula
      <3> DEFINE f == [n_viaje |-> NULL, barco |-> q]
      <3>1. f \in DeSocio(b, id) /\ f.barco = q
        BY <2>1, <2>3 DEF DeSocio, viajescompleta
      <3> QED
        BY <3>1
    <2> QED
      BY <2>2, <2>3
  <1> QED
    BY <1>1, <1>2

(* The view has every trip of every boat of a member, and no other.        *)
LEMMA ViajesVistos ==
    ASSUME NEW b \in BasesDeDatos, NEW id \in Ids
    PROVE  {r.n_viaje : r \in DeSocio(b, id)} \ {NULL}
           = {h.n_viaje : h \in HijasDe(b.Viaje_Barco, BarcosDe(b, id))}
  <1>1. ASSUME NEW r \in DeSocio(b, id), r.n_viaje # NULL
        PROVE  \E h \in HijasDe(b.Viaje_Barco, BarcosDe(b, id)) : h.n_viaje = r.n_viaje
    <2>1. r \in Juntadas(b)
      BY <1>1 DEF DeSocio, viajescompleta
    <2>2. PICK p \in ViajesConBarco(b) \X b.Barco :
             /\ p[1].n_matricula = p[2].n_matricula
             /\ r = [n_viaje |-> p[1].n_viaje, barco |-> p[2]]
      BY <2>1 DEF Juntadas
    <2>3. p[2] \in BarcosDe(b, id)
      BY <2>2 DEF DeSocio, BarcosDe
    <2>4. p[1].n_matricula # NULL
      BY <2>2, ViajesAssumption DEF BasesDeDatos, FilasBarco
    <2>5. p[1] \in b.Viaje_Barco
      BY <2>2, <2>4 DEF ViajesConBarco
    <2>6. p[1] \in HijasDe(b.Viaje_Barco, BarcosDe(b, id)) /\ p[1].n_viaje = r.n_viaje
      BY <2>2, <2>3, <2>5 DEF HijasDe
    <2> QED
      BY <2>6
  <1>2. ASSUME NEW h \in HijasDe(b.Viaje_Barco, BarcosDe(b, id))
        PROVE  h.n_viaje # NULL /\ \E r \in DeSocio(b, id) : r.n_viaje = h.n_viaje
    <2>1. PICK q \in BarcosDe(b, id) : q.n_matricula = h.n_matricula
      BY <1>2 DEF HijasDe
    <2>2. /\ h \in b.Viaje_Barco /\ h \in ViajesConBarco(b)
          /\ q \in b.Barco /\ q.id_socio = id
      BY <2>1 DEF HijasDe, ViajesConBarco, BarcosDe
    <2>3. h.n_viaje # NULL
      BY <2>2, ViajesAssumption DEF BasesDeDatos, FilasViajeBarco
    <2> DEFINE f == [n_viaje |-> h.n_viaje, barco |-> q]
    <2>4. <<h, q>> \in ViajesConBarco(b) \X b.Barco
      BY <2>2
    <2>5. f \in Juntadas(b)
      BY <2>1, <2>4 DEF Juntadas
    <2>6. f \in DeSocio(b, id) /\ f.n_viaje = h.n_viaje
      BY <2>2, <2>5 DEF DeSocio, viajescompleta
    <2> QED
      BY <2>3, <2>6
  <1> QED
    BY <1>1, <1>2

(* What viajescompleta shows of each member is what its discount is given  *)
(* for, whatever boats and trips are recorded and whoever leaves.          *)
THEOREM VistaCuadraSiempre == Spec => []VistaCuadra
  <1>1. TypeOK => VistaCuadra
    <2> SUFFICES ASSUME TypeOK, NEW id \in Ids
                 PROVE  LET rs == {r \in viajescompleta(club) : r.barco.id_socio = id}
                        IN  /\ Cardinality({r.barco : r \in rs}) = CantidadBarcos(club, id)
                            /\ Cardinality({r.n_viaje : r \in rs} \ {NULL})
                               = TotalViajes(club, id)
      BY DEF VistaCuadra
    <2>1. club \in BasesDeDatos
      BY DEF TypeOK
    <2>2. /\ {r.barco : r \in DeSocio(club, id)} = BarcosDe(club, id)
          /\ {r.n_viaje : r \in DeSocio(club, id)} \ {NULL}
             = {h.n_viaje : h \in HijasDe(club.Viaje_Barco, BarcosDe(club, id))}
      BY <2>1, BarcosVistos, ViajesVistos
    <2> QED
      BY <2>2 DEF DeSocio, CantidadBarcos, TotalViajes
  <1> QED
    BY <1>1, TipoDescuento, PTL

-----------------------------------------------------------------------------
(* A trip that another boat of the owner has made already adds none.       *)
LEMMA ViajeRepetido ==
    ASSUME NEW b \in BasesDeDatos, NEW id \in Ids, NEW h, NEW r \in b.Barco, NEW q \in b.Barco,
           r.n_matricula = h.n_matricula, q.id_socio = r.id_socio,
           \A x, y \in b.Barco : x.n_matricula = y.n_matricula => x = y,
           [n_matricula |-> q.n_matricula, n_viaje |-> h.n_viaje] \in b.Viaje_Barco
    PROVE  {k.n_viaje : k \in HijasDe(b.Viaje_Barco \cup {h}, BarcosDe(b, id))}
           = {k.n_viaje : k \in HijasDe(b.Viaje_Barco, BarcosDe(b, id))}
  <1> DEFINE g == [n_matricula |-> q.n_matricula, n_viaje |-> h.n_viaje]
             H(T) == HijasDe(T, BarcosDe(b, id))
  <1>1. H(b.Viaje_Barco) \subseteq H(b.Viaje_Barco \cup {h})
    BY DEF HijasDe
  <1>2. ASSUME NEW k \in H(b.Viaje_Barco \cup {h})
        PROVE  \E j \in H(b.Viaje_Barco) : j.n_viaje = k.n_viaje
    <2>1. CASE k \in b.Viaje_Barco
      <3>1. k \in H(b.Viaje_Barco)
        BY <1>2, <2>1 DEF HijasDe
      <3> QED
        BY <3>1
    <2>2. CASE k = h
      <3>1. PICK x \in BarcosDe(b, id) : x.n_matricula = h.n_matricula
        BY <1>2, <2>2 DEF HijasDe
      <3>2. q \in BarcosDe(b, id)
        BY <3>1 DEF BarcosDe
      <3>3. g \in H(b.Viaje_Barco) /\ g.n_viaje = h.n_viaje
        BY <3>2 DEF HijasDe
      <3> QED
        BY <2>2, <3>3
    <2> QED
      BY <1>2, <2>1, <2>2 DEF HijasDe
  <1> HIDE DEF H
  <1>3. {k.n_viaje : k \in H(b.Viaje_Barco \cup {h})} = {k.n_viaje : k \in H(b.Viaje_Barco)}
    BY <1>1, <1>2
  <1> QED
    BY <1>3 DEF H

(* No two boats share a registration (PRIMARY KEY of Barco).               *)
Matriculadas == \A x, y \in club.Barco : x.n_matricula = y.n_matricula => x = y

(* A step adds a boat nobody has, adds a trip, only removes, or leaves the *)
(* tables alone.                                                           *)
LEMMA PasoTablas ==
    ASSUME TypeOK, [Next]_vars
    PROVE  \/ club' = club
           \/ \E r \in FilasBarco : /\ \A q \in club.Barco : q.n_matricula # r.n_matricula
                                    /\ club'.Barco = club.Barco \cup {r}
                                    /\ club'.Viaje_Barco = club.Viaje_Barco
           \/ \E h \in FilasViajeBarco : club' = [club EXCEPT !.Viaje_Barco = @ \cup {h}]
           \/ /\ club'.Barco \subseteq club.Barco
              /\ club'.Viaje_Barco \subseteq club.Viaje_Barco
  <1>1. CASE Registra
    <2>1. CASE \E r \in FilasBarco : RegistrarBarco(r)
      BY <2>1 DEF RegistrarBarco, TypeOK, BasesDeDatos
    <2>2. CASE \E h \in FilasViajeBarco : RegistrarViaje(h)
      BY <2>2 DEF RegistrarViaje
    <2> QED
      BY <1>1, <2>1, <2>2 DEF Registra
  <1>2. CASE Baja
    BY <1>2 DEF Baja, DarDeBaja, Menos
  <1>3. CASE (\E id \in Ids, base \in Bases : Calcula(id, base)) \/ UNCHANGED vars
    BY <1>3 DEF Calcula, vars
  <1> QED
    BY <1>1, <1>2, <1>3 DEF Next

(* Recording a boat in a trip that another boat of its owner has made      *)
(* changes nobody's fee, for any fleet and any fee.                        *)
THEOREM ViajeCompartidoSiempre == Spec => ViajeCompartido
  <1> DEFINE Compartido(h) ==
                /\ club'.Barco = club.Barco
                /\ \E r, q \in club.Barco :
                      /\ r.n_matricula = h.n_matricula
                      /\ q.id_socio = r.id_socio
                      /\ [n_matricula |-> q.n_matricula, n_viaje |-> h.n_viaje]
                         \in club.Viaje_Barco
             Igual(h) == Compartido(h) => \A id \in Ids, base \in Bases :
                            Mensualidad(club', id, base) = Mensualidad(club, id, base)
             Paso == \A h \in club'.Viaje_Barco \ club.Viaje_Barco : Igual(h)
  <1>1. RInv => Matriculadas
    BY DEF RInv, Matriculadas, Restricciones, ClavesPrimarias
  <1>2. TypeOK /\ Matriculadas /\ [Next]_vars => Paso
    <2> SUFFICES ASSUME TypeOK, Matriculadas, [Next]_vars,
                        NEW h \in club'.Viaje_Barco \ club.Viaje_Barco, Compartido(h),
                        NEW id \in Ids, NEW base \in Bases
                 PROVE  Mensualidad(club', id, base) = Mensualidad(club, id, base)
      OBVIOUS
    <2>1. PICK k \in FilasViajeBarco : club' = [club EXCEPT !.Viaje_Barco = @ \cup {k}]
      BY PasoTablas
    <2>2. /\ club \in BasesDeDatos
          /\ club'.Viaje_Barco = club.Viaje_Barco \cup {h}
          /\ club'.Barco = club.Barco
      BY <2>1 DEF TypeOK, BasesDeDatos
    <2>3. BarcosDe(club', id) = BarcosDe(club, id)
      BY <2>2 DEF BarcosDe
    <2>4. PICK r \in club.Barco, q \in club.Barco :
             /\ r.n_matricula = h.n_matricula
             /\ q.id_socio = r.id_socio
             /\ [n_matricula |-> q.n_matricula, n_viaje |-> h.n_viaje] \in club.Viaje_Barco
      OBVIOUS
    <2>5. {j.n_viaje : j \in HijasDe(club.Viaje_Barco \cup {h}, BarcosDe(club, id))}
          = {j.n_viaje : j \in HijasDe(club.Viaje_Barco, BarcosDe(club, id))}
      BY <2>2, <2>4, ViajeRepetido DEF Matriculadas
    <2>6. /\ CantidadBarcos(club', id) = CantidadBarcos(club, id)
          /\ TotalViajes(club', id) = TotalViajes(club, id)
      BY <2>2, <2>3, <2>5 DEF CantidadBarcos, TotalViajes
    <2> QED
      BY <2>6 DEF Mensualidad, Porcentaje
  <1> QED
    BY <1>1, <1>2, TipoDescuento, DescuentoSobreRegistro, RegistroConRestricciones,
       PTL DEF Spec, ViajeCompartido
=============================================================================
