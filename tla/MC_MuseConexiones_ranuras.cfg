SPECIFICATION FairSpec
CONSTANTS
    MaxConexiones = 5
    max_clients = 4
    master_socket = 1
    UltimoFd = 6
    MaxPedidos = 1
    Cerrado = cerrado
    Ajeno = ajeno
    Escucha = escucha
INVARIANTS
    IInv
    PrimerosConRanura
    SoloCierraAlQueSeFue
    SoloDuermeSiTrabado
PROPERTIES
    LlamadasVuelven
CHECK_DEADLOCK FALSE
