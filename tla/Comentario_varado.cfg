SPECIFICATION Spec
CONSTANTS
  CantProcesos = 2
  Tamanios = {1, 2}
  TamMemoria = 2
  Esquema = "DINAMICAS"
  Algoritmo = "FIRST"
  Particiones <- MCParticiones
  MaxEnVuelo = 3
INVARIANTS
  NadieQuedaVarado
\* Every process may end, and the kernel may die.
CHECK_DEADLOCK FALSE
