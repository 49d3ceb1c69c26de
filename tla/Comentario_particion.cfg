SPECIFICATION Spec
CONSTANTS
    Hilos <- DosHilos
    Programa <- DosProgramas
    Registros = {"AX", "BX"}
    Base = 3
    Particion <- DosParticion
    Tamanio <- DosTamanio
    TamMemoria = 24
    MaxRelojes = 2
    OrdenInicial <- DosOrden
    Finitos <- DosFinitos
    NADIE = NADIE
    NADA = NADA
PROPERTIES
    EscribeEnLoSuyo
CHECK_DEADLOCK FALSE
