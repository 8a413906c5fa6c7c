SPECIFICATION Spec
CONSTANTS
    Conexiones = {c1}
    Fds = {1}
    Tids = {0, 1, 2}
    s1 = s1
    Sems = {s1}
    Vals <- MCVals
    Maxs <- MCMaxs
    Multiprogramacion = 2
    Hilos = {h1, h2, h3}
    Principal = principal
    Nadie = nadie
    Operaciones = {"crear", "planificar", "wait", "signal", "joinear", "cerrar"}
    MaxPedidos = 8
SYMMETRY Simetria
INVARIANTS
    IInv
    UnoEjecutando
    FichaDeDespertar
    MultiNoSubestima
    MainDespuesDeJoin
    PlanificaConHilos
    ExclusionMutua
    BloqueadoEsperaAlgo
CHECK_DEADLOCK FALSE
