SPECIFICATION SpecJusta
CONSTANTS
    Hilos <- MCHilos
    Programa <- MCPrograma
    Registros = {"AX", "BX"}
    Base = 3
    Particion <- MCParticion
    Tamanio <- MCTamanio
    TamMemoria = 12
    MaxRelojes = 2
    OrdenInicial <- MCOrden
    Finitos <- MCFinitos
    NADIE = NADIE
    NADA = NADA
INVARIANTS
    TypeOK
    UnMensajePorTurno
    Sano
PROPERTIES
    ImplementaMaquina
    TodoProgramaTermina
\* Every program may end, or a program of the system may die.
CHECK_DEADLOCK FALSE
