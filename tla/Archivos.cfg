SPECIFICATION SpecJusta
CONSTANTS
    CantPedidos = 3
    BlockCount = 8
    PunterosPorBloque = 2
    Tamanios = {2, 3, 4, 8}
    Ocupados = {4}
    MaxReinicios = 1
    LIBRE = LIBRE
    ANTERIOR = ANTERIOR
    NADIE = NADIE
INVARIANTS
    TypeOK
    ArchivoIntacto
    DumpDiceLaVerdad
    ListaCortaSoloPorCarrera
PROPERTIES
    ImplementaAlmacen
    TodoPedidoResponde
\* Every request may be answered, or a process may be down for good.
CHECK_DEADLOCK FALSE
