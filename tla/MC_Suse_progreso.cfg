SPECIFICATION FairSpec
CONSTANTS
    Conexiones = {c1}
    Fds = {1}
    Tids = {0, 1}
    s1 = s1
    Sems = {s1}
    Vals <- MCVals
    Maxs <- MCMaxs
    Multiprogramacion = 2
    Hilos = {h1, h2, h3}
    Principal = principal
    Nadie = nadie
    Operaciones = {"crear", "planificar", "wait", "signal", "joinear", "cerrar"}
    MaxPedidos = 5
PROPERTIES
    PedidosTerminan
CHECK_DEADLOCK FALSE
