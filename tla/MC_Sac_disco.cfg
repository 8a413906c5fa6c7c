\* Every operation: two names in two levels, a disk that fills up.
CONSTANTS
    BLOCK_SIZE = 2
    CANT_DIRECTOS = 2
    CANT_INDIR_SIMPLE = 3
    CantBloques = 6
    MAX_FILE_COUNT = 4
    Nombres = {"a", "b", "c"}
    Caminos <- MC_Caminos
    Textos <- MC_Textos
    Offsets = {0, 1, 2}
    Tamanios = {0, 1, 4}
    MaxTam = 7
    MaxPedidos = 6
SPECIFICATION Spec
INVARIANTS TipoOK BloqueDeUno SinHuerfanos BusquedaCorrecta EscrituraEntera
PROPERTIES UnoALaVez SigueSano
CHECK_DEADLOCK FALSE
