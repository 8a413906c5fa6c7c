SPECIFICATION Spec
CONSTANTS
    Conexiones = {c1, c2}
    Fds = {1, 2}
    Tids = {0, 1}
    s1 = s1
    Sems = {s1}
    Vals <- MCVals
    Maxs <- MCMaxs
    Multiprogramacion = 2
    Hilos = {h1, h2}
    Principal = principal
    Nadie = nadie
    Operaciones = {"crear", "planificar", "wait", "signal", "joinear", "cerrar", "desconectar"}
    MaxPedidos = 3
SYMMETRY Simetria
INVARIANTS
    SemaforosOK
    FichaDeDespertar
    MainDespuesDeJoin
PROPERTIES
    SemaforoImplementado
CHECK_DEADLOCK FALSE
