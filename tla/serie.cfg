CONSTANTS
    NULL = NULL
    s1 = s1  s2 = s2
    t1 = t1  c1 = c1  c2 = c2
    m1 = m1  m2 = m2  v1 = v1  e1 = e1
    Telefonos = {t1}
    Correos = {c1, c2}
    Matriculas = {m1, m2}
    Viajes = {v1}
    Estadias = {e1}
    MaxId = 3
    Sesiones = {s1}
    Entradas <- EntradasMixtas
    DatosIniciales <- DatosBarco
SPECIFICATION Spec
INVARIANTS Integridad SinDuplicados
PROPERTY ImplementaRegistro ImplementaLlamadas EliminadoPorEsta
