\* A mapping after an allocation.
CONSTANTS
    Ids = {p1, p2}
    Archivos = {f1}
    MEMORY_SIZE = 4
    PAGE_SIZE = 2
    SWAP_SIZE = 8
    Cero = "cero"
    Basura = "basura"
    Textos <- MC_Textos
    Largos = {2, 3}
    Direcciones = {0, 1, 3}
    Observadas = {0, 1, 2, 3, 4, 5}
    Pedidos = {"init", "alloc", "map"}
    MaxPedidos = 6
    SinCelda = SinCelda
SPECIFICATION Spec
SYMMETRY MC_Simetria
INVARIANT PosicionMapeada
CHECK_DEADLOCK FALSE
