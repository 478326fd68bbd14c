CONSTANTS
    NULL = NULL
    s1 = s1  s2 = s2
    t1 = t1  c1 = c1  c2 = c2
    m1 = m1  m2 = m2  v1 = v1  e1 = e1
    Telefonos = {t1}
    Correos = {c1}
    Matriculas = {m1}
    Viajes = {v1}
    Estadias = {}
    MaxId = 2
    Sesiones = {s1, s2}
    Entradas <- SinNumero
    DatosIniciales <- DatosViaje
SPECIFICATION FairSpec
PROPERTY LlamadaTermina
