--------------------------- MODULE Instrucciones ---------------------------
(***************************************************************************)
(* The instructions of a program and what they compute                     *)
(* (cpu/src/mainCPU.c).  A register has four digits of base Base, as a     *)
(* uint32_t has four bytes: Base = 256 in the code.  The context of a      *)
(* thread is its registers and its program counter; base and limite travel *)
(* with it in every message, but nobody changes them.                      *)
(***************************************************************************)
EXTENDS Integers, Sequences

CONSTANTS
    Hilos,       \* <<pid, tid>> of each thread
    Programa,    \* thread -> its instructions
    Registros,   \* AX to HX, or those that the programs use
    Base         \* values of a byte

DeRegistros == {"SET", "SUM", "SUB", "JNZ", "LOG"}
DeMemoria == {"READ_MEM", "WRITE_MEM"}
Continuan == {"PROCESS_CREATE", "THREAD_CREATE", "THREAD_CANCEL", "MUTEX_CREATE", "MUTEX_UNLOCK"}
Bloquean == {"IO"}
Salen == {"THREAD_EXIT", "PROCESS_EXIT"}
Syscalls == Continuan \cup Bloquean \cup Salen

\* Nothing that follows is looked at by the code: an instruction or a
\* register it does not know leaves the program counter where it was, and a
\* jump out of the program kills the memory.
BienFormado(prog) ==
    /\ Len(prog) \in Nat \ {0}
    /\ prog[Len(prog)].op \in Salen
    /\ \A k \in 1 .. Len(prog) :
        LET i == prog[k] IN
        /\ i.op \in DeRegistros \cup DeMemoria \cup Syscalls
        /\ i.op \in DeRegistros \cup DeMemoria => i.r \in Registros
        /\ i.op \in {"SUM", "SUB"} \cup DeMemoria => i.s \in Registros
        /\ i.op = "SET" => i.v \in Int
        /\ i.op = "JNZ" => i.v \in 0 .. Len(prog) - 1

ASSUME HilosPidTid == Hilos \subseteq Nat \X Nat
ASSUME BaseAlMenosDos == Base \in Nat \ {0, 1}
ASSUME ProgramasBienFormados == \A h \in Hilos : BienFormado(Programa[h])

Modulo == Base * Base * Base * Base
Valores == 0 .. Modulo - 1
Bytes == 0 .. Base - 1
Contextos == [regs : [Registros -> Valores], pc : Nat]
ContextoInicial == [regs |-> [r \in Registros |-> 0], pc |-> 0]

\* A register without its k lower digits.
Corrido(v, k) ==
    CASE k = 0 -> v
      [] k = 1 -> v \div Base
      [] k = 2 -> (v \div Base) \div Base
      [] k = 3 -> ((v \div Base) \div Base) \div Base

\* Mutant of Byte: shifted, and the higher digits are not cut.
ByteSinCortar(v, k) == Corrido(v, k)

\* Byte k of a register, as memcpy finds it on a little-endian machine, and
\* back.
Byte(v, k) == Corrido(v, k) % Base
Numero(bytes) == bytes[0] + Base * (bytes[1] + Base * (bytes[2] + Base * bytes[3]))

\* ejecutar_set, ejecutar_sum, ejecutar_sub, ejecutar_jnz and ejecutar_log:
\* the arithmetic is that of uint32_t.
Guardar(c, r, v) == [regs |-> [c.regs EXCEPT ![r] = v % Modulo], pc |-> c.pc + 1]

Calcular(i, c) ==
    CASE i.op = "SET" -> Guardar(c, i.r, i.v)
      [] i.op = "SUM" -> Guardar(c, i.r, c.regs[i.r] + c.regs[i.s])
      [] i.op = "SUB" -> Guardar(c, i.r, c.regs[i.r] - c.regs[i.s])
      [] i.op = "JNZ" -> [c EXCEPT !.pc = IF c.regs[i.r] # 0 THEN i.v ELSE @ + 1]
      [] i.op = "LOG" -> [c EXCEPT !.pc = @ + 1]

\* The instruction that OBTENER_INSTRUCCION gives for the context c of h.
Instruccion(h, c) == Programa[h][c.pc + 1]
=============================================================================
