------------------------------ MODULE Catalogo ------------------------------
(***************************************************************************)
(* What the postal code tables promise to whoever reads them: all seven    *)
(* change together, from one complete migration of the flat table, as it   *)
(* is at that moment, to the next.                                         *)
(***************************************************************************)
EXTENDS CodigoPostal

VARIABLES
    plana,          \* the flat table sepomex
    catalogo        \* the seven tables

Original(c, P) ==
    /\ c.TiposAsentamiento = TiposDe(P)
    /\ c.Ciudades = CiudadesDe(P)
    /\ c.Asentamientos = AsentamientosDe(P)
    /\ c.OficinasPostales = OficinasDe(P)
    /\ c.AsentamientoOficina = RelacionDe(P)

(* Of the cities, and of the offices, as many are kept as the constraints  *)
(* let.                                                                    *)
Depurado(c, P) ==
    LET temp     == TemporalDe(P)
        oficinas == OficinasLimpiasDe(temp, c.Ciudades)
    IN  /\ c.TiposAsentamiento = TiposLimpiosDe(P)
        /\ c.Ciudades \subseteq CandidatasDe(P)
        /\ \A k \in CandidatasDe(P) \ c.Ciudades :
              ~CiudadesValidas(c.Ciudades \cup {k}, c.Estados)
        /\ c.Asentamientos = LimpiosDe(temp)
        /\ c.OficinasPostales \subseteq oficinas
        /\ \A o \in oficinas \ c.OficinasPostales :
              ~OficinasValidas(c.OficinasPostales \cup {o}, c.Ciudades)
        /\ c.AsentamientoOficina = RelacionLimpiaDe(temp, c.OficinasPostales)

Migrado(c, P) ==
    /\ c.Estados = EstadosDe(P)
    /\ c.Municipios = MunicipiosDe(P)
    /\ Original(c, P) \/ Depurado(c, P)
    /\ Restricciones(c)

CInit == plana \in Planas /\ catalogo \in Catalogos /\ Restricciones(catalogo)

Cargar == plana' \in Planas /\ UNCHANGED catalogo

Publicar == Migrado(catalogo', plana) /\ UNCHANGED plana

CNext == Cargar \/ Publicar

CSpec == CInit /\ [][CNext]_<<plana, catalogo>>
=============================================================================
