SPECIFICATION Spec
CONSTANTS
    CantProcesos = 4
    Tamanios = {1, 2, 4}
    TamMemoria = 6
    Esquema = "DINAMICAS"
    Algoritmo = "FIRST"
    Particiones <- MCParticiones
    MaxEnVuelo = 3
INVARIANTS
    TypeOK
    SinSolapamiento
    NadaSePierde
    FinalizaElPedido
PROPERTIES
    LiberarConsolida
    ImplementaParticionado
CHECK_DEADLOCK FALSE
