SPECIFICATION SpecJusta
CONSTANTS
    CantProcesos = 4
    Tamanios = {1, 2, 3}
    TamMemoria = 6
    Esquema = "FIJAS"
    Algoritmo = "WORST"
    Particiones <- MCParticiones
    MaxEnVuelo = 2
INVARIANTS
    SinSolapamiento
    ParticionesIntactas
PROPERTIES
    TodoPedidoTermina
CHECK_DEADLOCK FALSE
