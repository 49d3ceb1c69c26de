SPECIFICATION Spec
CONSTANTS
  CantProcesos = 1
  CantHilos = 3
  Recursos = {"A"}
  Prioridades = {0}
  Algoritmo = "FIFO"
  MaxBlock = 1
  Syscalls = {"THREAD_CREATE", "PROCESS_EXIT"}
INVARIANTS
  ProcesoLiberadoSinHilos
\* Every thread may end, or the kernel may die.
CHECK_DEADLOCK FALSE
