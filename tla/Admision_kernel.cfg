SPECIFICATION Spec
CONSTANTS
  CantProcesos = 4
  Tamanios = {1, 2}
  TamMemoria = 2
  Esquema = "DINAMICAS"
  Algoritmo = "FIRST"
  Particiones <- MCParticiones
  MaxEnVuelo = 3
INVARIANTS
  NewEnOrden
  SeConsultaAlPrimero
  FichasDeMasPorFinales
PROPERTIES
  ImplementaMemoria
\* Every process may end, and the kernel may die.
CHECK_DEADLOCK FALSE
