CONSTANTS
    NULL = NULL
    s1 = s1  s2 = s2
    n1 = n1  n2 = n2  b1 = b1  nx = nx
    k1 = k1  k2 = k2  b2 = b2  kx = kx  ky = ky
    Nombres = {n1, n2, b1, nx}
    NombresLargos = {nx}
    Podado <- PodaNombres
    Codigos = {k1, k2, b2, kx, ky}
    Largos = {kx, ky}
    MuyLargos = {ky}
    Recorta <- RecortaCodigos
    MaxNumero = 2
    Sesiones = {s1}
    Planas <- PlanasDosEstados
    Iniciales <- Nadas
SPECIFICATION Spec
PROPERTY BusquedaPropia
