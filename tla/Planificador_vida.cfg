SPECIFICATION SpecJusta
CONSTANTS
  CantProcesos = 1
  CantHilos = 3
  Recursos = {"A"}
  Prioridades = {0}
  Algoritmo = "FIFO"
  MaxBlock = 1
  Syscalls = {"THREAD_CREATE", "THREAD_EXIT", "THREAD_JOIN", "DUMP_MEMORY", "IO", "MUTEX_CREATE", "MUTEX_LOCK", "MUTEX_UNLOCK"}
INVARIANTS
  FichasExactas
  BloqueadoDeMasSoloPorHerencia
PROPERTIES
  
  ImplementaCerrojos
  TodoExitSeLibera
  TodaIOTermina
\* Every thread may end, or the kernel may die.
CHECK_DEADLOCK FALSE
