\* Every request, whatever the clients call: two processes, one file.
CONSTANTS
    Ids = {p1, p2}
    Archivos = {f1}
    MEMORY_SIZE = 4
    PAGE_SIZE = 2
    SWAP_SIZE = 6
    Cero = "cero"
    Basura = "basura"
    Textos <- MC_Textos
    Largos = {1, 5}
    Direcciones = {0, 1}
    Observadas = {0}
    Pedidos = {"init", "close", "alloc", "free", "cpy", "get", "map", "sync", "unmap"}
    MaxPedidos = 6
    SinCelda = SinCelda
SPECIFICATION SpecJusta
INVARIANTS IInv PaginasCubren
PROPERTY PedidoTermina
CHECK_DEADLOCK FALSE
