\* One file emptied and written again.
CONSTANTS
    BLOCK_SIZE = 2
    CANT_DIRECTOS = 2
    CANT_INDIR_SIMPLE = 3
    CantBloques = 6
    MAX_FILE_COUNT = 4
    Nombres = {"a", "b", "c"}
    Caminos <- MC_Planos
    Textos <- MC_Textos
    Offsets = {0, 1, 2}
    Tamanios = {0}
    MaxTam = 7
    MaxPedidos = 6
SPECIFICATION Spec
INVARIANT EscrituraSeLee
CHECK_DEADLOCK FALSE
