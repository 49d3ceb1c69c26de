SPECIFICATION Spec
CONSTANTS
  CantProcesos = 2
  CantHilos = 2
  Recursos = {"A"}
  Prioridades = {0, 1}
  Algoritmo = "CMN"
  MaxBlock = 1
  Syscalls = {"PROCESS_CREATE", "PROCESS_EXIT", "THREAD_CREATE", "THREAD_EXIT", "THREAD_JOIN", "THREAD_CANCEL", "SEGMENTATION_FAULT"}
INVARIANTS
  
  FichasAlcanzan
  
\* Every thread may end, or the kernel may die.
CHECK_DEADLOCK FALSE
