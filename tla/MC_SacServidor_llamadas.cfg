SPECIFICATION MCSpec
CONSTANTS
    c1 = c1
    c2 = c2
    t1 = t1
    t2 = t2
    t3 = t3
    Clientes = {c1, c2}
    Hebras = {t1, t2, t3}
    ClienteDe <- MCClienteDe
    Hilos = {h1, h2}
    Nombres = {"p", "h", "q"}
    Dirs <- MCDirs
    Nadie = nadie
    Operaciones <- MCOperaciones
    Fallas = {"accept", "pthread_create", "cliente"}
    MaxLlamadas = 2
    MaxFallas = 1
INVARIANTS
    IInv
    CadaUnoSuConexion
    TurniqueteConDueno
    OrdenDeLlamadas
    CaidaPorOtroCliente
    RespuestaLlega
    FugaSoloAlListarVacio
PROPERTIES
    LlamadasTerminan
CHECK_DEADLOCK FALSE
