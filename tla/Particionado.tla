---------------------------- MODULE Particionado ----------------------------
(***************************************************************************)
(* What the memory module promises, seen from outside: every address of    *)
(* user memory has at most one owner; a process receives one contiguous    *)
(* range of addresses nobody owns, exactly once, and gives all of it back  *)
(* in one step.  Module Memoria implements this specification.             *)
(***************************************************************************)
EXTENDS Integers

CONSTANTS Pids,        \* the processes of the execution
          TamMemoria   \* TAM_MEMORIA of the configuration, in bytes

VARIABLE dueno         \* address -> pid that owns it, or Nadie

Nadie == -1
Direcciones == 0 .. TamMemoria - 1

Init == dueno = [d \in Direcciones |-> Nadie]

DireccionesDe(p) == {d \in Direcciones : dueno[d] = p}

Rango(inicio, tamanio) == {d \in Direcciones : inicio <= d /\ d < inicio + tamanio}

Asignar(p) ==
    /\ DireccionesDe(p) = {}
    /\ \E inicio \in Direcciones : \E tamanio \in 1 .. TamMemoria - inicio :
          /\ \A d \in Rango(inicio, tamanio) : dueno[d] = Nadie
          /\ dueno' = [d \in Direcciones |->
                          IF d \in Rango(inicio, tamanio) THEN p ELSE dueno[d]]

Liberar(p) ==
    /\ DireccionesDe(p) # {}
    /\ dueno' = [d \in Direcciones |-> IF dueno[d] = p THEN Nadie ELSE dueno[d]]

Next == \E p \in Pids : Asignar(p) \/ Liberar(p)

Spec == Init /\ [][Next]_dueno
=============================================================================
