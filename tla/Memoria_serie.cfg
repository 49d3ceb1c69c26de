SPECIFICATION Spec
CONSTANTS
    CantProcesos = 4
    Tamanios = {1, 2, 3}
    TamMemoria = 6
    Esquema = "DINAMICAS"
    Algoritmo = "BEST"
    Particiones <- MCParticiones
    MaxEnVuelo = 1
INVARIANTS
    HuecosConsolidados
PROPERTIES
    RechazoJustificado
CHECK_DEADLOCK FALSE
