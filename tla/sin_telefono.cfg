CONSTANTS
    NULL = NULL
    p1 = p1  p2 = p2  t1 = t1  c1 = c1  c2 = c2
    Telefonos = {t1}
    Correos = {c1, c2}
    Matriculas = {}
    Viajes = {}
    Estadias = {}
    MaxId = 2
    Puestos = {p1}
    Textos <- TextosMixtos
    DatosIniciales <- DatosNada
SPECIFICATION Spec
PROPERTY BastaNombreYCorreo
