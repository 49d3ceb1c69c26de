SPECIFICATION Spec
CONSTANTS
  CantProcesos = 1
  CantHilos = 3
  Recursos = {"A", "B"}
  Prioridades = {0}
  Algoritmo = "PRIORIDADES"
  MaxBlock = 1
  Syscalls = {"THREAD_CREATE", "THREAD_EXIT", "THREAD_CANCEL", "THREAD_JOIN", "PROCESS_EXIT", "DUMP_MEMORY", "MUTEX_CREATE", "MUTEX_LOCK", "MUTEX_UNLOCK"}
INVARIANTS
  TypeOK
  
  MutexCoherente
  
PROPERTIES
  ImplementaCerrojos
\* Every thread may end, or the kernel may die.
CHECK_DEADLOCK FALSE
