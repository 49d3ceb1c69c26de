------------------------------ MODULE Maquina ------------------------------
(***************************************************************************)
(* What a program sees of the machine: each thread has registers of its    *)
(* own and runs its program in order, and each process has a memory of its *)
(* own, that only its threads read and write, at addresses from 0 on.  An  *)
(* access that does not fit in the memory of the process ends the process. *)
(* There is no CPU to share, no quantum and no saving of contexts here.    *)
(***************************************************************************)
EXTENDS Instrucciones

CONSTANTS Tamanio,  \* process -> size of its memory
          NADA      \* memory of a process that has ended by a fault

VARIABLES ctx,      \* thread -> its context
          mem       \* process -> its memory
vars == <<ctx, mem>>

Procesos == {h[1] : h \in Hilos}

Init == /\ ctx = [h \in Hilos |-> ContextoInicial]
        /\ mem = [p \in Procesos |-> [d \in 0 .. Tamanio[p] - 1 |-> 0]]

Siguiente(h, ops) ==
    /\ ctx[h].pc < Len(Programa[h]) /\ mem[h[1]] # NADA
    /\ Instruccion(h, ctx[h]).op \in ops

Cabe(p, d) == d + 4 <= Tamanio[p]

Registro(h) ==
    /\ Siguiente(h, DeRegistros)
    /\ ctx' = [ctx EXCEPT ![h] = Calcular(Instruccion(h, @), @)]
    /\ UNCHANGED mem

Lectura(h) ==
    /\ Siguiente(h, {"READ_MEM"})
    /\ LET i == Instruccion(h, ctx[h])
           d == ctx[h].regs[i.s]
       IN /\ Cabe(h[1], d)
          /\ ctx' = [ctx EXCEPT ![h] =
                       Guardar(@, i.r, Numero([k \in 0 .. 3 |-> mem[h[1]][d + k]]))]
    /\ UNCHANGED mem

Escritura(h) ==
    /\ Siguiente(h, {"WRITE_MEM"})
    /\ LET i == Instruccion(h, ctx[h])
           d == ctx[h].regs[i.r]
           v == ctx[h].regs[i.s]
       IN /\ Cabe(h[1], d)
          /\ mem' = [mem EXCEPT ![h[1]] = [e \in DOMAIN @ |->
                        IF e \in d .. d + 3 THEN Byte(v, e - d) ELSE @[e]]]
    /\ ctx' = [ctx EXCEPT ![h].pc = @ + 1]

Fallo(h) ==
    /\ Siguiente(h, DeMemoria)
    /\ LET i == Instruccion(h, ctx[h]) IN
       ~ Cabe(h[1], ctx[h].regs[IF i.op = "READ_MEM" THEN i.s ELSE i.r])
    /\ mem' = [mem EXCEPT ![h[1]] = NADA]
    /\ UNCHANGED ctx

Llamada(h) ==
    /\ Siguiente(h, Syscalls)
    /\ ctx' = [ctx EXCEPT ![h].pc = @ + 1]
    /\ UNCHANGED mem

Next == \E h \in Hilos :
    Registro(h) \/ Lectura(h) \/ Escritura(h) \/ Fallo(h) \/ Llamada(h)

Spec == Init /\ [][Next]_vars
=============================================================================
