-------------------------------- MODULE Cpu --------------------------------
(***************************************************************************)
(* The CPU (cpu/src/mainCPU.c) and the side of the memory that serves it   *)
(* (atender_cpu in memoria/src/mainMemoria.c).                             *)
(*                                                                         *)
(* Two threads run in the CPU: the one of atender_kernel, whose place is   *)
(* etapa, and interruptProceso, which only writes the latch.  The CPU waits*)
(* for each answer of the memory, which serves nobody else there, so a     *)
(* question and its answer are one step.  The kernel's side of the sockets *)
(* is in module Turnos.                                                    *)
(***************************************************************************)
EXTENDS Instrucciones

CONSTANTS
    Particion,    \* process -> its partition: [base |-> first, limite |-> last address]
    TamMemoria,   \* size of espacio_contiguo_en_memoria
    NADIE

ASSUME TamMemoriaNat == TamMemoria \in Nat
ASSUME NadieNoEsHilo == NADIE \notin Hilos
ASSUME ParticionesEnMemoria ==
    \A h \in Hilos : LET p == Particion[h[1]] IN
        p.base \in Nat /\ p.limite \in p.base .. TamMemoria - 1

VARIABLES
    aCpu, aKernel,      \* dispatch socket: threads to run; what became of them
    interrupciones,     \* interrupt socket
    interrupcion,       \* <<pid_interrupt, tid_interrupt>>, NADIE for -1
    etapa,              \* "libre", "ciclo", "chequear", "avisar", "limpiar" or "acceder"
    hilo,               \* pid and tid
    cpu,                \* the registers and pc
    contexto,           \* the memory's copy: thread -> context
    espacio,            \* espacio_contiguo_en_memoria
    caida,              \* the kernel or the memory has died
    fallaron            \* history: processes with a failed translation

varsMensajes == <<aCpu, aKernel, interrupciones>>
varsEjecucion == <<etapa, hilo, cpu>>
varsMemoria == <<contexto, espacio>>
varsCpu == <<varsMensajes, interrupcion, varsEjecucion, varsMemoria, caida, fallaron>>

InitCpu ==
    /\ aCpu = <<>> /\ aKernel = <<>> /\ interrupciones = <<>>
    /\ interrupcion = NADIE
    /\ etapa = "libre" /\ hilo = NADIE /\ cpu = ContextoInicial
    /\ contexto = [h \in Hilos |-> ContextoInicial]
    /\ espacio = [d \in 0 .. TamMemoria - 1 |-> 0]
    /\ caida = FALSE /\ fallaron = {}

Mensaje(op) == [op |-> op, hilo |-> hilo]
Instr == Instruccion(hilo, cpu)
\* A context is sent by the CPU and kept by the memory, and asked for again.
recibir_contexto_y_actualizar(h, c) == contexto' = [contexto EXCEPT ![h] = c]
actualizar_contexto_y_enviar(c) == recibir_contexto_y_actualizar(hilo, c)
OBTENER_CONTEXTO_DE_EJECUCION(h) == contexto[h]

EnCiclo(ops) == ~caida /\ etapa = "ciclo" /\ Instr.op \in ops
-----------------------------------------------------------------------------
(* atender_kernel and solicitar_contexto_memoria                           *)

RecibirDespacho ==
    /\ ~caida /\ etapa = "libre" /\ aCpu # <<>>
    /\ hilo' = Head(aCpu) /\ aCpu' = Tail(aCpu)
    /\ cpu' = OBTENER_CONTEXTO_DE_EJECUCION(hilo')
    /\ etapa' = "ciclo"
    /\ UNCHANGED <<aKernel, interrupciones, interrupcion, varsMemoria, caida, fallaron>>
-----------------------------------------------------------------------------
(* ejecutar_ciclo_instruccion: fetch, decode and execute, and then         *)
(* check_interrupt unless seguirEjecutando is false.                       *)

EjecutarRegistros ==
    /\ EnCiclo(DeRegistros)
    /\ cpu' = Calcular(Instr, cpu)
    /\ etapa' = "chequear"
    /\ UNCHANGED <<varsMensajes, interrupcion, hilo, varsMemoria, caida, fallaron>>

\* traducir_direccion_logica: limite is the last address of the partition,
\* and the logical address is compared with it before base is added.
BaseActual == Particion[hilo[1]].base

\* Mutant of Traducible: only the first of the four bytes is looked at.
TraducibleSinAncho(d) == d <= Particion[hilo[1]].limite

Traducible(d) == d + 4 <= Particion[hilo[1]].limite

\* What memcpy may read from f on: beyond the buffer, anything.
Leibles(f) == {v \in Valores : \A k \in 0 .. 3 : f + k < TamMemoria => Byte(v, k) = espacio[f + k]}

\* What memcpy writes; what it writes outside of the buffer is not modelled.
Escrito(f, v) == [d \in DOMAIN espacio |-> IF d \in f .. f + 3 THEN Byte(v, d - f) ELSE espacio[d]]

ejecutar_read_mem ==
    /\ EnCiclo({"READ_MEM"})
    /\ Traducible(cpu.regs[Instr.s])
    /\ \E v \in Leibles(BaseActual + cpu.regs[Instr.s]) : cpu' = Guardar(cpu, Instr.r, v)
    /\ etapa' = "chequear"
    /\ UNCHANGED <<varsMensajes, interrupcion, hilo, varsMemoria, caida, fallaron>>

ejecutar_write_mem ==
    /\ EnCiclo({"WRITE_MEM"})
    /\ Traducible(cpu.regs[Instr.r])
    /\ espacio' = Escrito(BaseActual + cpu.regs[Instr.r], cpu.regs[Instr.s])
    /\ cpu' = [cpu EXCEPT !.pc = @ + 1]
    /\ etapa' = "chequear"
    /\ UNCHANGED <<varsMensajes, interrupcion, hilo, contexto, caida, fallaron>>

\* The translation fails: the context is saved and the kernel is told.
SegmentationFault ==
    /\ EnCiclo(DeMemoria)
    /\ ~ Traducible(cpu.regs[IF Instr.op = "READ_MEM" THEN Instr.s ELSE Instr.r])
    /\ actualizar_contexto_y_enviar(cpu)
    /\ aKernel' = Append(aKernel, Mensaje("SEGMENTATION_FAULT"))
    /\ fallaron' = fallaron \cup {hilo[1]}
    /\ etapa' = "acceder"
    /\ UNCHANGED <<aCpu, interrupciones, interrupcion, hilo, cpu, espacio, caida>>

\* It returned -1 as a uint32_t, which is not < 0, so the access goes on
\* with it.  The memory takes the address of a write as an int, and the four
\* bytes from -1 on are one before its buffer and its first three.
EscribirEnMenosUno ==
    /\ ~caida /\ etapa = "acceder" /\ Instr.op = "WRITE_MEM"
    /\ espacio' = Escrito(-1, cpu.regs[Instr.s])
    /\ etapa' = "libre"
    /\ UNCHANGED <<varsMensajes, interrupcion, hilo, cpu, contexto, caida, fallaron>>

\* A read is 4 GiB beyond the buffer: the memory dies, or the CPU gets what
\* is there in a register that nobody saves.
LeerDeMenosUno ==
    /\ ~caida /\ etapa = "acceder" /\ Instr.op = "READ_MEM"
    /\ caida' \in BOOLEAN
    /\ etapa' = "libre"
    /\ UNCHANGED <<varsMensajes, interrupcion, hilo, cpu, varsMemoria, fallaron>>

\* Mutant of EjecutarSyscall: seguirEjecutando stays true.
SyscallSinSoltar ==
    /\ EnCiclo(Syscalls)
    /\ cpu' = [cpu EXCEPT !.pc = @ + 1]
    /\ actualizar_contexto_y_enviar(cpu')
    /\ aKernel' = Append(aKernel, Mensaje(Instr.op))
    /\ etapa' = "chequear"
    /\ UNCHANGED <<aCpu, interrupciones, interrupcion, hilo, espacio, caida, fallaron>>

\* Every system call: pc++, the context is saved, the kernel gets the call.
EjecutarSyscall ==
    /\ EnCiclo(Syscalls)
    /\ cpu' = [cpu EXCEPT !.pc = @ + 1]
    /\ actualizar_contexto_y_enviar(cpu')
    /\ aKernel' = Append(aKernel, Mensaje(Instr.op))
    /\ etapa' = "libre"
    /\ UNCHANGED <<aCpu, interrupciones, interrupcion, hilo, espacio, caida, fallaron>>
-----------------------------------------------------------------------------
(* check_interrupt: the latch is compared and the context saved under      *)
(* mutex_interrupcion; the message and the clearing come after the unlock. *)

SinInterrupcion ==
    /\ ~caida /\ etapa = "chequear" /\ interrupcion # hilo
    /\ etapa' = "ciclo"
    /\ UNCHANGED <<varsMensajes, interrupcion, hilo, cpu, varsMemoria, caida, fallaron>>

\* Mutant of ConInterrupcion: the context is not saved.
InterrumpirSinGuardar ==
    /\ ~caida /\ etapa = "chequear" /\ interrupcion = hilo
    /\ etapa' = "avisar"
    /\ UNCHANGED <<varsMensajes, interrupcion, hilo, cpu, varsMemoria, caida, fallaron>>

ConInterrupcion ==
    /\ ~caida /\ etapa = "chequear" /\ interrupcion = hilo
    /\ actualizar_contexto_y_enviar(cpu)
    /\ etapa' = "avisar"
    /\ UNCHANGED <<varsMensajes, interrupcion, hilo, cpu, espacio, caida, fallaron>>

AvisarDesalojo ==
    /\ ~caida /\ etapa = "avisar"
    /\ aKernel' = Append(aKernel, Mensaje("FIN_DE_QUANTUM"))
    /\ etapa' = "limpiar"
    /\ UNCHANGED <<aCpu, interrupciones, interrupcion, hilo, cpu, varsMemoria, caida, fallaron>>

\* The two assignments may be interleaved with those of interruptProceso:
\* what is left matches a thread only if both of the latter came last, which
\* is LlegaInterrupcion after this step.
LimpiarInterrupcion ==
    /\ ~caida /\ etapa = "limpiar"
    /\ interrupcion' = NADIE
    /\ etapa' = "libre"
    /\ UNCHANGED <<varsMensajes, hilo, cpu, varsMemoria, caida, fallaron>>

\* interruptProceso: the latch has room for one interrupt, and what it writes
\* before the latch is cleared is lost.
LlegaInterrupcion ==
    /\ ~caida /\ interrupciones # <<>>
    /\ interrupcion' = Head(interrupciones)
    /\ interrupciones' = Tail(interrupciones)
    /\ UNCHANGED <<aCpu, aKernel, varsEjecucion, varsMemoria, caida, fallaron>>
-----------------------------------------------------------------------------
NextCpu ==
    \/ RecibirDespacho \/ EjecutarRegistros \/ ejecutar_read_mem \/ ejecutar_write_mem
    \/ SegmentationFault \/ EscribirEnMenosUno \/ LeerDeMenosUno \/ EjecutarSyscall
    \/ SinInterrupcion \/ ConInterrupcion \/ AvisarDesalojo \/ LimpiarInterrupcion

TypeOKCpu ==
    /\ aCpu \in Seq(Hilos) /\ interrupciones \in Seq(Nat \X Nat)
    /\ \A k \in DOMAIN aKernel : aKernel[k].hilo \in Hilos
                              /\ aKernel[k].op \in Syscalls \cup {"SEGMENTATION_FAULT", "FIN_DE_QUANTUM"}
    /\ interrupcion = NADIE \/ interrupcion \in Nat \X Nat
    /\ etapa \in {"libre", "ciclo", "chequear", "avisar", "limpiar", "acceder"}
    /\ hilo \in Hilos \cup {NADIE} /\ (etapa # "libre" => hilo \in Hilos)
    /\ cpu \in Contextos /\ contexto \in [Hilos -> Contextos]
    /\ espacio \in [0 .. TamMemoria - 1 -> Bytes]
    /\ caida \in BOOLEAN
    /\ fallaron \subseteq {h[1] : h \in Hilos}
=============================================================================
