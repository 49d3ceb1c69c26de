------------------------------ MODULE Turnos -------------------------------
(***************************************************************************)
(* The turns of the threads in the CPU: the CPU of module Cpu composed with*)
(* the part of the kernel that gives it threads and takes it away from     *)
(* them (kernel/src/mainkernel.c): ejecutar_hilo, transicion_a_ready, the  *)
(* quantum's timers and the IO device, under CMN with one queue.           *)
(*                                                                         *)
(* The scheduler, the IO device, each timer and the two threads of the CPU *)
(* run concurrently and share hiloEnExec, the ready queue and the flags of *)
(* the TCBs.  What a system call does to other threads is in Planificador. *)
(* finDeq is left out: the timer sets it just before it reads it, and the  *)
(* CPU does nothing with the copy it is sent.                              *)
(***************************************************************************)
EXTENDS Cpu, FiniteSets, FiniteSetsExt

CONSTANTS
    MaxRelojes,   \* bound: threads of controlar_tiempo_de_ejecucion at once
    OrdenInicial, \* the threads, in the order in which they became ready
    Finitos,      \* threads whose program, left alone, ends
    Tamanio,      \* process -> the size it was created with
    NADA          \* see Maquina

ASSUME MaxRelojesPositivo == MaxRelojes \in Nat \ {0}
ASSUME TodosEnOrden ==
    /\ IsFiniteSet(Hilos)
    /\ OrdenInicial \in [1 .. Cardinality(Hilos) -> Hilos]
    /\ \A h \in Hilos : \E k \in DOMAIN OrdenInicial : OrdenInicial[k] = h
ASSUME ParticionesDelTamanio ==
    \A h \in Hilos : LET p == Particion[h[1]] IN Tamanio[h[1]] = p.limite - p.base + 1
\* What SinSolapamiento of Memoria says of the processes.
ASSUME ParticionesAjenas ==
    \A h, g \in Hilos : h[1] # g[1] =>
       \/ Particion[h[1]].limite < Particion[g[1]].base
       \/ Particion[g[1]].limite < Particion[h[1]].base
ASSUME NadaNoEsMemoria == \A h \in Hilos : NADA \notin [0 .. Tamanio[h[1]] - 1 -> Bytes]

VARIABLES
    kernel,                        \* "elegir", "esperar" or "colgado"
    hiloEnExec, replanificar,
    enReady, semHiloEnReady,       \* the queue, and the tokens for it
    dispositivoIO,                 \* threads that wait for the IO device, in order
    posteando,                     \* the one it has put in Ready, before the flags and the post
    clockContando,
    terminados,
    reloj,                         \* timer -> where it is, and the pid and tid it has read
    carrera                        \* history: a race has cost a quantum its end

varsReady == <<enReady, semHiloEnReady, dispositivoIO, posteando>>
varsKernel == <<kernel, hiloEnExec, replanificar, varsReady, clockContando, terminados, reloj>>
vars == <<varsCpu, varsKernel, carrera>>

Relojes == 1 .. MaxRelojes
SinReloj == [paso |-> "libre", pid |-> 0, tid |-> 0]
Libres == {k \in Relojes : reloj[k] = SinReloj}

\* The threads have been created.
Init ==
    /\ InitCpu
    /\ kernel = "elegir" /\ hiloEnExec = NADIE /\ replanificar = TRUE
    /\ enReady = OrdenInicial
    /\ semHiloEnReady = Cardinality(Hilos)
    /\ dispositivoIO = <<>> /\ posteando = NADIE
    /\ clockContando = [h \in Hilos |-> FALSE]
    /\ terminados = {}
    /\ reloj = [k \in Relojes |-> SinReloj]
    /\ carrera = FALSE
-----------------------------------------------------------------------------
(* planificador_corto_plazo and ejecutar_hilo, as far as the dispatch      *)

\* A timer is created unless the thread has one already.
Ejecutar(h) ==
    /\ Libres # {}
    /\ hiloEnExec' = h
    /\ clockContando' = [clockContando EXCEPT ![h] = TRUE]
    /\ reloj' = IF clockContando[h] THEN reloj ELSE [reloj EXCEPT ![Min(Libres)] = [@ EXCEPT !.paso = "nuevo"]]
    /\ aCpu' = Append(aCpu, h)
    /\ kernel' = "esperar"
    /\ UNCHANGED <<aKernel, interrupciones, interrupcion, varsEjecucion, varsMemoria, caida, fallaron,
                   replanificar, dispositivoIO, posteando, terminados>>

\* The device has put a thread in Ready and has not cleared its flag yet: if
\* it is chosen now it runs without a timer.
ElegirYEjecutar ==
    /\ ~caida /\ kernel = "elegir" /\ replanificar
    /\ semHiloEnReady > 0 /\ enReady # <<>>
    /\ semHiloEnReady' = semHiloEnReady - 1
    /\ enReady' = Tail(enReady)
    /\ carrera' = (carrera \/ Head(enReady) = posteando)
    /\ Ejecutar(Head(enReady))

SeguirEjecutando ==
    /\ ~caida /\ kernel = "elegir" /\ ~replanificar
    /\ Ejecutar(hiloEnExec)
    /\ UNCHANGED <<enReady, semHiloEnReady, carrera>>
-----------------------------------------------------------------------------
(* ejecutar_hilo, after the answer of the CPU                              *)

Recibe(ops) ==
    /\ ~caida /\ kernel = "esperar"
    /\ aKernel # <<>> /\ Head(aKernel).op \in ops
    /\ aKernel' = Tail(aKernel)
    /\ UNCHANGED <<aCpu, interrupciones, interrupcion, varsEjecucion, varsMemoria, fallaron,
                   hiloEnExec, reloj, carrera>>

RecibirContinua ==
    /\ Recibe(Continuan)
    /\ replanificar' = FALSE /\ kernel' = "elegir"
    /\ UNCHANGED <<caida, varsReady, clockContando, terminados>>

RecibirIO ==
    /\ Recibe({"IO"})
    /\ replanificar' = TRUE /\ kernel' = "elegir"
    /\ dispositivoIO' = Append(dispositivoIO, hiloEnExec)
    /\ UNCHANGED <<caida, enReady, semHiloEnReady, posteando, clockContando, terminados>>

\* The end of a thread, or of a process of one thread.
RecibirSalida ==
    /\ Recibe(Salen)
    /\ replanificar' = TRUE /\ kernel' = "elegir"
    /\ terminados' = terminados \cup {hiloEnExec}
    /\ UNCHANGED <<caida, varsReady, clockContando>>

\* See SEGMENTATION_FAULT in Planificador: the packet is misread.  The thread
\* with tid 0 is the first of the list that finalizar_proceso goes through.
RecibirFallo ==
    /\ Recibe({"SEGMENTATION_FAULT"})
    /\ \/ /\ hiloEnExec[2] = 0
          /\ replanificar' = TRUE /\ kernel' = "elegir"
          /\ terminados' = terminados \cup {hiloEnExec}
          /\ caida' \in BOOLEAN
       \/ /\ hiloEnExec[2] # 0
          /\ kernel' = "colgado"
          /\ UNCHANGED <<replanificar, terminados, caida>>
    /\ UNCHANGED <<varsReady, clockContando>>

\* Mutant of RecibirFinDeQuantum: transicion_a_ready leaves clockContando set.
DesalojarSinReloj ==
    /\ Recibe({"FIN_DE_QUANTUM"})
    /\ replanificar' = TRUE /\ kernel' = "elegir"
    /\ enReady' = Append(enReady, hiloEnExec) /\ semHiloEnReady' = semHiloEnReady + 1
    /\ UNCHANGED <<caida, dispositivoIO, posteando, terminados, clockContando>>

\* transicion_a_ready, which the scheduler calls itself here.
RecibirFinDeQuantum ==
    /\ Recibe({"FIN_DE_QUANTUM"})
    /\ replanificar' = TRUE /\ kernel' = "elegir"
    /\ enReady' = Append(enReady, hiloEnExec) /\ semHiloEnReady' = semHiloEnReady + 1
    /\ clockContando' = [clockContando EXCEPT ![hiloEnExec] = FALSE]
    /\ UNCHANGED <<caida, dispositivoIO, posteando, terminados>>
-----------------------------------------------------------------------------
(* atender_io: the sleep, and transicion_a_ready in the device's thread,   *)
(* where the scheduler may come in between.                                *)

AtenderIO ==
    /\ ~caida /\ posteando = NADIE /\ dispositivoIO # <<>>
    /\ posteando' = Head(dispositivoIO)
    /\ dispositivoIO' = Tail(dispositivoIO)
    /\ enReady' = Append(enReady, posteando')
    /\ UNCHANGED <<varsCpu, kernel, hiloEnExec, replanificar, semHiloEnReady, clockContando,
                   terminados, reloj, carrera>>

PostearIO ==
    /\ ~caida /\ posteando # NADIE
    /\ clockContando' = [clockContando EXCEPT ![posteando] = FALSE]
    /\ semHiloEnReady' = semHiloEnReady + 1
    /\ posteando' = NADIE
    /\ UNCHANGED <<varsCpu, kernel, hiloEnExec, replanificar, enReady, dispositivoIO, terminados,
                   reloj, carrera>>
-----------------------------------------------------------------------------
(* controlar_tiempo_de_ejecucion                                           *)

Reloj(k, paso) ==
    /\ ~caida /\ reloj[k].paso = paso
    /\ UNCHANGED <<aCpu, aKernel, interrupcion, varsEjecucion, varsMemoria, fallaron,
                   kernel, hiloEnExec, replanificar, varsReady, clockContando, terminados, carrera>>

\* The TCB of a thread that has ended may be freed: who reads it may die, or
\* read a pid and a tid, which are of no thread that can be interrupted.
Mirar == caida' \in (IF hiloEnExec \in terminados THEN BOOLEAN ELSE {FALSE})

\* The thread it is for is the one in execution when it gets to run, and
\* hiloEnExec may change between one read and the next.
RelojLeeTid(k) ==
    /\ Reloj(k, "nuevo") /\ Mirar
    /\ reloj' = [reloj EXCEPT ![k] = [paso |-> "leyendo", pid |-> @.pid, tid |-> hiloEnExec[2]]]
    /\ UNCHANGED interrupciones

RelojLeePid(k) ==
    /\ Reloj(k, "leyendo") /\ Mirar
    /\ reloj' = [reloj EXCEPT ![k] = [paso |-> "dormido", pid |-> hiloEnExec[1], tid |-> @.tid]]
    /\ UNCHANGED interrupciones

\* The sleep is over: it interrupts only if its thread is in execution and
\* was not evicted meanwhile.
RelojVence(k) ==
    /\ Reloj(k, "dormido") /\ Mirar
    /\ reloj' = [reloj EXCEPT ![k] =
                    IF hiloEnExec = <<@.pid, @.tid>> /\ clockContando[hiloEnExec]
                    THEN [SinReloj EXCEPT !.paso = "vencido"] ELSE SinReloj]
    /\ UNCHANGED interrupciones

\* hiloEnExec is read again, twice, for the message.
RelojLeeQuien(k) ==
    /\ Reloj(k, "vencido") /\ Mirar
    /\ reloj' = [reloj EXCEPT ![k] = [paso |-> "mandando", pid |-> hiloEnExec[1], tid |-> @.tid]]
    /\ UNCHANGED interrupciones

RelojInterrumpe(k) ==
    /\ Reloj(k, "mandando") /\ Mirar
    /\ interrupciones' = Append(interrupciones, <<reloj[k].pid, hiloEnExec[2]>>)
    /\ reloj' = [reloj EXCEPT ![k] = SinReloj]
-----------------------------------------------------------------------------
DeLaCpu == NextCpu /\ UNCHANGED <<varsKernel, carrera>>

\* The interrupt of the thread in execution is lost: it comes before the CPU
\* clears the latch of the last eviction, or another one takes its place.
SePierde ==
    \/ etapa = "limpiar" /\ Head(interrupciones) = hiloEnExec
    \/ interrupcion = hiloEnExec /\ Head(interrupciones) # hiloEnExec

Interrumpir ==
    /\ LlegaInterrupcion
    /\ carrera' = (carrera \/ SePierde)
    /\ UNCHANGED varsKernel

Planificar ==
    \/ ElegirYEjecutar \/ SeguirEjecutando
    \/ RecibirContinua \/ RecibirIO \/ RecibirSalida \/ RecibirFallo \/ RecibirFinDeQuantum

CorreReloj(k) ==
    \/ RelojLeeTid(k) \/ RelojLeePid(k) \/ RelojVence(k)
    \/ RelojLeeQuien(k) \/ RelojInterrumpe(k)

Next ==
    \/ DeLaCpu \/ Interrumpir \/ Planificar
    \/ AtenderIO \/ PostearIO
    \/ \E k \in Relojes : CorreReloj(k)

Spec == Init /\ [][Next]_vars

\* Each thread of the programs goes on when it can: it waits only for a
\* message or a semaphore that is there, or sleeps for a given time.
SpecJusta ==
    /\ Spec
    /\ WF_vars(DeLaCpu) /\ WF_vars(Interrumpir) /\ WF_vars(Planificar)
    /\ WF_vars(AtenderIO) /\ WF_vars(PostearIO)
    /\ \A k \in Relojes : WF_vars(CorreReloj(k))
-----------------------------------------------------------------------------
(* Properties                                                              *)

\* The type of the state.
TypeOK ==
    /\ TypeOKCpu
    /\ kernel \in {"elegir", "esperar", "colgado"}
    /\ hiloEnExec \in Hilos \cup {NADIE} /\ replanificar \in BOOLEAN
    /\ enReady \in Seq(Hilos) /\ semHiloEnReady \in Nat
    /\ dispositivoIO \in Seq(Hilos) /\ posteando \in Hilos \cup {NADIE}
    /\ clockContando \in [Hilos -> BOOLEAN]
    /\ terminados \subseteq Hilos /\ carrera \in BOOLEAN
    /\ reloj \in [Relojes -> [paso : {"libre", "nuevo", "leyendo", "dormido", "vencido", "mandando"},
                             pid : Nat, tid : Nat]]

\* A turn is in one place: while the scheduler waits in ejecutar_hilo, either
\* the dispatch is on its way, or the CPU runs that thread, or one answer
\* about that thread is on its way; and otherwise none of these.  The two
\* programs speak through one socket with nothing that pairs an answer with
\* a dispatch, so a second answer would be taken for the next thread's.
EnCpu == etapa \in {"ciclo", "chequear", "avisar"}
UnMensajePorTurno ==
    /\ Len(aCpu) + Len(aKernel) + (IF EnCpu THEN 1 ELSE 0) = (IF kernel = "esperar" THEN 1 ELSE 0)
    /\ aCpu # <<>> => Head(aCpu) = hiloEnExec
    /\ aKernel # <<>> => Head(aKernel).hilo = hiloEnExec
    /\ EnCpu => hilo = hiloEnExec

\* Programs cannot tell that they share the CPU: whatever the evictions, the
\* system calls and the order of the turns, each thread executes its own
\* program, in order, on its own registers and on the memory of its process.
Contexto(h) == IF hilo = h /\ etapa \in {"ciclo", "chequear"} THEN cpu ELSE contexto[h]
MemoriaDe(p) == [d \in 0 .. Tamanio[p] - 1 |-> espacio[Particion[p].base + d]]
ContextosVistos == [h \in Hilos |-> Contexto(h)]
MemoriasVistas == [p \in {h[1] : h \in Hilos} |-> IF p \in fallaron THEN NADA ELSE MemoriaDe(p)]
M == INSTANCE Maquina WITH ctx <- ContextosVistos, mem <- MemoriasVistas
ImplementaMaquina == M!Spec

\* What ImplementaMaquina rests on and the code does not guarantee:
\* the logical address that the CPU translates;
Direccion == cpu.regs[IF Instr.op = "READ_MEM" THEN Instr.s ELSE Instr.r]

\* its comparison in traducir_direccion_logica, which leaves base out, agrees
\* with the size of the process;
LimiteJusto ==
    EnCiclo(DeMemoria) => (Traducible(Direccion) <=> Direccion + 4 <= Tamanio[hilo[1]])

\* a thread with tid 0 fails only if it is the last of its process, for what
\* finalizar_proceso does to the others is not in this model;
FallaSolo ==
    EnCiclo(DeMemoria) /\ ~ Traducible(Direccion) /\ hilo[2] = 0
        => \A g \in Hilos \ terminados : g[1] = hilo[1] => g = hilo

\* and what is written from the address -1 on is of no process that goes on.
MenosUnoDeNadie ==
    etapa = "acceder" /\ Instr.op = "WRITE_MEM"
        => \A h \in Hilos : h[1] \notin fallaron => Particion[h[1]].base > 2

\* No access of a program meets the faults of the translation: neither the
\* limit that leaves base out nor the write from -1 on reaches another process.
Sano == LimiteJusto /\ FallaSolo /\ MenosUnoDeNadie

\* The same, of the programs and the partitions alone.  The access of thread
\* h with context c: it fits in the limit that base is left out of when it
\* fits in the process, and if it does not, the thread with tid 0 is the only
\* one of its process and no other process has the addresses after -1.
AccesoSano(h, c) ==
    LET i == Instruccion(h, c)
        d == c.regs[IF i.op = "READ_MEM" THEN i.s ELSE i.r]
        traducible == d + 4 <= Particion[h[1]].limite
    IN /\ traducible <=> d + 4 <= Tamanio[h[1]]
       /\ ~ traducible /\ h[2] = 0 => \A g \in Hilos : g[1] = h[1] => g = h
       /\ ~ traducible /\ i.op = "WRITE_MEM" =>
             \A g \in Hilos : g[1] # h[1] => Particion[g[1]].base > 2

\* The contexts that program h goes on in from c when nobody else is looked
\* at: a read may find any value.
Sucesores(h, c) ==
    LET i == Instruccion(h, c)
        traducible(r) == c.regs[r] + 4 <= Particion[h[1]].limite
        siguiente == [c EXCEPT !.pc = @ + 1]
    IN CASE i.op \in DeRegistros -> {Calcular(i, c)}
         [] i.op = "READ_MEM" -> IF traducible(i.s) THEN {Guardar(c, i.r, v) : v \in Valores} ELSE {}
         [] i.op = "WRITE_MEM" -> IF traducible(i.r) THEN {siguiente} ELSE {}
         [] i.op \in Syscalls \ Salen -> {siguiente}
         [] i.op \in Salen -> {}

\* A[h] has every context that thread h can be in, and none makes an access
\* that is not AccesoSano: what static analysis of the programs would find.
Alcance(A) ==
    \A h \in Hilos :
        /\ ContextoInicial \in A[h]
        /\ \A c \in A[h] :
              /\ Sucesores(h, c) \subseteq A[h]
              /\ Instruccion(h, c).op \in DeMemoria => AccesoSano(h, c)

\* The programs that end when left alone also end among others, even beside
\* one that never leaves the CPU by itself: the quantum takes it away from
\* it.  Only three races undo it (carrera): an interrupt of the next turn
\* that arrives between the CPU's answer and its clearing of the latch, one
\* that a late interrupt overwrites there, and a thread that the scheduler
\* takes out of Ready before the device that put it there has cleared
\* clockContando.
TodoProgramaTermina ==
    <>(Finitos \subseteq terminados \/ carrera \/ caida \/ kernel = "colgado")

\* A thread writes in the partition of its process.
EscribeEnLoSuyo ==
    [][\A d \in DOMAIN espacio : espacio'[d] # espacio[d] =>
         d \in Particion[hilo[1]].base .. Particion[hilo[1]].limite]_vars
=============================================================================
