CONSTANTS
    NULL = NULL
    t1 = t1  c1 = c1
    m1 = m1  m2 = m2  m3 = m3  m4 = m4
    Telefonos = {}
    Correos = {}
    Matriculas = {m1, m2, m3, m4}
    Viajes = {1, 2, 3, 4, 5, 6, 7, 8, 9, 10, 11, 12, 13, 14, 15, 16, 17, 18, 19, 20, 21}
    Estadias = {}
    MaxId = 2
    Bases <- Importes
    DatosIniciales <- Flotas
    MaxAltas = 2
SPECIFICATION Spec
INVARIANTS TypeOK VistaCuadra
PROPERTIES NuncaSube CuotaDelQueSigue ViajeCompartido
