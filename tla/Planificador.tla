---------------------------- MODULE Planificador ----------------------------
(***************************************************************************)
(* The kernel's short term scheduler, its system calls and the threads     *)
(* around it (kernel/src/mainkernel.c, kernel/src/pcbYtcb.c).              *)
(*                                                                         *)
(* Who runs concurrently: the short term scheduler, which also executes    *)
(* every system call (variable cp says where it is); the reaper            *)
(* (finalizador_de_hilos); the IO device (atender_io); one thread per      *)
(* memory dump; the long term scheduler, seen here only as it admits a     *)
(* process.  finalizar_hilo is cut where it waits for the memory, and      *)
(* finalizar_proceso at each turn of its loop.                             *)
(*                                                                         *)
(* A thread is <<pid, tid>>.  hilosEnReady stands for the single list of   *)
(* FIFO and PRIORIDADES and for the queues of CMN put together: each of    *)
(* those keeps the order of arrival.  hilosEnBlock is only ever searched   *)
(* for one thread, so it is a bag: thread -> times it is in the list.      *)
(*                                                                         *)
(* caida: the kernel or the memory died, by a NULL dereference, an exit(-1)*)
(* or a double free.  A freed TCB (estado "LIBERADO") is not reused, and   *)
(* only a search that holds its address finds it again.                    *)
(***************************************************************************)
EXTENDS Integers, FiniteSets, SequencesExt

CONSTANTS
    CantProcesos,   \* bound: processes of the execution
    CantHilos,      \* bound: threads a process may create
    Recursos,       \* names of mutexes
    Prioridades,    \* priorities a thread may be created with
    Algoritmo,      \* ALGORITMO_PLANIFICACION
    Syscalls,       \* system calls the programs of the instance use
    MaxBlock        \* bound: times a thread may be in hilosEnBlock when it asks for IO

ASSUME CotasPositivas == CantProcesos \in Nat \ {0} /\ CantHilos \in Nat \ {0}
ASSUME RecursosFinitos == IsFiniteSet(Recursos)
ASSUME PrioridadesNat == Prioridades \subseteq Nat /\ 0 \in Prioridades
ASSUME AlgoritmoConocido == Algoritmo \in {"FIFO", "PRIORIDADES", "CMN"}
ASSUME MaxBlockNat == MaxBlock \in Nat \ {0}

Pids == 0 .. CantProcesos - 1
Tids == 0 .. CantHilos - 1
Hilos == Pids \X Tids
NULO == <<-1, -1>>
Mutexes == Pids \X Recursos

VARIABLES
    tcb,              \* thread -> its control block
    pcb,              \* pid -> "no", "new", "vivo" or "liberado"
    listaDeHilos,     \* pid -> listaDeHilosDelProceso
    siguienteTid,     \* pid -> next tid
    mutex,            \* <<pid, resource>> -> t_mutex
    hilosEnReady, hilosEnBlock, hilosEnExit,
    semHiloEnReady, semHiloEnExit,
    dispositivoIO,    \* requests for the IO device, the one it serves first
    dumps,            \* threads whose dump has not been answered
    hiloEnExec, replanificar,
    cp,               \* control of the short term scheduler
    enMemoria,        \* threads whose context the memory has
    caida

vars == <<tcb, pcb, listaDeHilos, siguienteTid, mutex, hilosEnReady, hilosEnBlock,
          hilosEnExit, semHiloEnReady, semHiloEnExit, dispositivoIO, dumps,
          hiloEnExec, replanificar, cp, enMemoria, caida>>
varsColas == <<hilosEnReady, semHiloEnReady, hilosEnBlock>>
varsExit == <<hilosEnExit, semHiloEnExit, enMemoria>>
varsProceso == <<pcb, listaDeHilos, siguienteTid>>
varsExternas == <<dispositivoIO, dumps>>
varsCP == <<hiloEnExec, replanificar, cp>>

TcbNuevo(estado, prio) ==
    [estado |-> estado, prioridad |-> prio, hiloBloqueadoPorJoin |-> NULO,
     bloqueadoPorJoin |-> FALSE, bloqueadoPorIO |-> FALSE, mutexEnEspera |-> {}]
MutexNuevo == [creado |-> FALSE, tomadoPor |-> NULO, hilosBloqueados |-> <<>>]

Init ==
    /\ tcb = [h \in Hilos |-> TcbNuevo("NINGUNO", 0)]
    /\ pcb = [p \in Pids |-> IF p = 0 THEN "new" ELSE "no"]
    /\ listaDeHilos = [p \in Pids |-> <<>>]
    /\ siguienteTid = [p \in Pids |-> 0]
    /\ mutex = [m \in Mutexes |-> MutexNuevo]
    /\ hilosEnReady = <<>> /\ hilosEnExit = <<>> /\ dispositivoIO = <<>>
    /\ hilosEnBlock = [h \in Hilos |-> 0]
    /\ semHiloEnReady = 0 /\ semHiloEnExit = 0
    /\ dumps = {} /\ enMemoria = {}
    /\ hiloEnExec = NULO /\ replanificar = TRUE
    /\ cp = [pc |-> "elegir", hilo |-> NULO, origen |-> "", i |-> 0]
    /\ caida = FALSE

\* Where the short term scheduler is, as long as there is a system.
En(pc) == cp.pc = pc /\ ~caida
-----------------------------------------------------------------------------
(* transicion_a_ready: t is tcb as the caller has left it, listo the answer.*)

PuedeIrAReady(h) ==
    /\ tcb[h].mutexEnEspera = {}
    /\ ~tcb[h].bloqueadoPorJoin
    /\ ~tcb[h].bloqueadoPorIO

\* Mutant of Encolar: no sem_post.
EncolarSinPost(h) ==
    /\ hilosEnReady' = Append(hilosEnReady, h)
    /\ UNCHANGED semHiloEnReady

\* Mutant of Encolar: its caller posts too.
EncolarConDosPosts(h) ==
    /\ hilosEnReady' = Append(hilosEnReady, h)
    /\ semHiloEnReady' = semHiloEnReady + 2

Encolar(h) ==
    /\ hilosEnReady' = Append(hilosEnReady, h)
    /\ semHiloEnReady' = semHiloEnReady + 1

transicion_a_ready(h, t, listo) ==
    \/ /\ listo
       /\ Encolar(h)
       /\ tcb' = [t EXCEPT ![h].estado = IF @ = "LIBERADO" THEN @ ELSE "READY"]
    \/ ~listo /\ tcb' = t /\ UNCHANGED <<hilosEnReady, semHiloEnReady>>

\* A thread found in hilosEnBlock goes to Ready, or back if it may not.
desbloquear(h, t, listo) ==
    /\ transicion_a_ready(h, t, listo)
    /\ hilosEnBlock' = IF listo THEN [hilosEnBlock EXCEPT ![h] = @ - 1]
                                ELSE hilosEnBlock

\* What transicion_a_ready may read once the TCB is freed: its list of
\* awaited mutexes is freed too, and may look empty or not.
ListoTrasIO(h) ==
    IF tcb[h].estado = "LIBERADO" THEN BOOLEAN
    ELSE {tcb[h].mutexEnEspera = {} /\ ~tcb[h].bloqueadoPorJoin}

\* Mutant of ListoTrasJoin: bloqueadoPorJoin is cleared after the attempt.
ListoTrasJoinTarde(h) ==
    IF tcb[h].estado = "LIBERADO" THEN BOOLEAN ELSE {PuedeIrAReady(h)}

ListoTrasJoin(h) ==
    IF tcb[h].estado = "LIBERADO" THEN BOOLEAN
    ELSE {tcb[h].mutexEnEspera = {} /\ ~tcb[h].bloqueadoPorIO}
-----------------------------------------------------------------------------
(* What the memory knows of the threads: it is told and its answer read.   *)
(* (The first thread of a process it has made with the process.)           *)

notificar_a_memoria_creacion_hilo(h) == enMemoria' = enMemoria \cup {h}
notificar_a_memoria_finalizacion_hilo(h) == enMemoria' = enMemoria \ {h}
-----------------------------------------------------------------------------
(* planificador_largo_plazo, when the memory has room.                     *)

\* The thread that crear_tcb has added to its process.
crear_tcb(h, prio) ==
    /\ tcb' = [tcb EXCEPT ![h] = TcbNuevo("READY", prio)]
    /\ listaDeHilos' = [listaDeHilos EXCEPT ![h[1]] = Append(@, h)]
    /\ siguienteTid' = [siguienteTid EXCEPT ![h[1]] = @ + 1]
    /\ notificar_a_memoria_creacion_hilo(h)

AdmitirProceso(p) ==
    /\ ~caida
    /\ pcb[p] = "new"
    /\ \A q \in Pids : pcb[q] = "new" => p <= q
    /\ pcb' = [pcb EXCEPT ![p] = "vivo"]
    /\ \E prio \in IF p = 0 THEN {0} ELSE Prioridades : crear_tcb(<<p, 0>>, prio)
    /\ Encolar(<<p, 0>>)
    /\ UNCHANGED <<mutex, hilosEnBlock, hilosEnExit, semHiloEnExit, varsExternas,
                   varsCP, caida>>
-----------------------------------------------------------------------------
(* planificador_corto_plazo and the first half of ejecutar_hilo            *)

\* The memory dereferences NULL when the CPU asks it for the context of a
\* thread or a process it does not have.
Despachable(h) == h \in enMemoria /\ pcb[h[1]] = "vivo"

ejecutar_hilo(h) ==
    \/ /\ Despachable(h)
       /\ hiloEnExec' = h
       /\ tcb' = [tcb EXCEPT ![h].estado = "EXECUTE"]
       /\ cp' = [cp EXCEPT !.pc = "ejecutando"]
       /\ UNCHANGED caida
    \/ /\ ~Despachable(h)
       /\ caida' = TRUE
       /\ UNCHANGED <<hiloEnExec, tcb, cp>>

\* Place in hilosEnReady of the next thread to run.
elegirSiguienteHiloAEjecutarFIFO == {i \in DOMAIN hilosEnReady : i = 1}
PrioridadEn(i) == tcb[hilosEnReady[i]].prioridad
elegirSiguienteHiloAEjecutarPRIORIDAD ==
    {i \in DOMAIN hilosEnReady : \A j \in DOMAIN hilosEnReady :
        \/ PrioridadEn(i) < PrioridadEn(j)
        \/ PrioridadEn(i) = PrioridadEn(j) /\ i <= j}
\* First thread of the queue of least priority that is not empty.
elegirSiguienteHiloAEjecutarCOLAS == elegirSiguienteHiloAEjecutarPRIORIDAD

Elegidos ==
    CASE Algoritmo = "FIFO" -> elegirSiguienteHiloAEjecutarFIFO
      [] Algoritmo = "PRIORIDADES" -> elegirSiguienteHiloAEjecutarPRIORIDAD
      [] Algoritmo = "CMN" -> elegirSiguienteHiloAEjecutarCOLAS

ElegirHilo ==
    /\ En("elegir") /\ replanificar
    /\ semHiloEnReady > 0
    /\ semHiloEnReady' = semHiloEnReady - 1
    /\ \E i \in Elegidos :
          /\ hilosEnReady' = RemoveAt(hilosEnReady, i)
          /\ ejecutar_hilo(hilosEnReady[i])
    /\ UNCHANGED <<varsProceso, mutex, hilosEnBlock, varsExit, varsExternas,
                   replanificar>>

\* A token without a thread: FIFO and PRIORIDADES go on with NULL, CMN exits.
ElegirSinHilos ==
    /\ En("elegir") /\ replanificar
    /\ semHiloEnReady > 0 /\ hilosEnReady = <<>>
    /\ caida' = TRUE
    /\ UNCHANGED <<tcb, varsProceso, mutex, varsColas, varsExit, varsExternas, varsCP>>

ContinuarHilo ==
    /\ En("elegir") /\ ~replanificar
    /\ ejecutar_hilo(hiloEnExec)
    /\ UNCHANGED <<varsProceso, mutex, varsColas, varsExit, varsExternas, replanificar>>

\* The answer of the CPU that the scheduler was waiting for.
Pide(syscall) == En("ejecutando") /\ syscall \in Syscalls
Seguir == cp' = [cp EXCEPT !.pc = "elegir"] /\ replanificar' = FALSE
\* Mutant of Desalojar: replanificar is not set.
DesalojarSinReplanificar == cp' = [cp EXCEPT !.pc = "elegir"] /\ replanificar' = FALSE
Desalojar == cp' = [cp EXCEPT !.pc = "elegir"] /\ replanificar' = TRUE
PidEnExec == hiloEnExec[1]
-----------------------------------------------------------------------------
(* finalizar_hilo, as far as the question to the memory.                   *)

\* Mutant of YaFinalizado: only TERMINADO is looked for.
YaFinalizadoSoloTerminado(h) == tcb[h].estado = "LIBERADO"

\* (TERMINADO, which is also looked for, is a state that ends as it is taken
\* off the list of its process.)
YaFinalizado(h) == tcb[h].estado = "EXIT"

finalizar_hilo(h, origen, i) ==
    /\ tcb' = [tcb EXCEPT ![h].estado = "EXIT"]
    /\ hilosEnExit' = Append(hilosEnExit, h)
    /\ notificar_a_memoria_finalizacion_hilo(h)
    /\ cp' = [pc |-> "avisando", hilo |-> h, origen |-> origen, i |-> i]
    /\ UNCHANGED semHiloEnExit

\* After the answer: the thread that was waiting for this one to finish.
DespertarPorJoin ==
    /\ En("avisando")
    /\ LET espera == tcb[cp.hilo].hiloBloqueadoPorJoin IN
       \/ /\ espera = NULO
          /\ cp' = [cp EXCEPT !.pc = "recursos"]
          /\ UNCHANGED <<tcb, varsColas, caida>>
       \/ /\ espera # NULO /\ hilosEnBlock[espera] = 0
          /\ caida' = TRUE
          /\ UNCHANGED <<tcb, varsColas, cp>>
       \/ /\ espera # NULO /\ hilosEnBlock[espera] > 0
          /\ \E listo \in ListoTrasJoin(espera) :
                desbloquear(espera,
                            [tcb EXCEPT ![espera].bloqueadoPorJoin = FALSE], listo)
          /\ cp' = [cp EXCEPT !.pc = "recursos"]
          /\ UNCHANGED caida
    /\ UNCHANGED <<varsProceso, mutex, varsExit, varsExternas, hiloEnExec, replanificar>>

\* Mutant of SinEsperar: the thread that finishes stays in the queue.
SinEsperarNada(m, h) == mutex[m].hilosBloqueados

\* Mutex m when thread h, which may own it or wait for it, is finished.
SinEsperar(m, h) == RemoveFirst(mutex[m].hilosBloqueados, h)
\* Mutant of Abandonar: the owner goes and the queue stays.
AbandonarSinHeredero(m, h) ==
    [mutex[m] EXCEPT !.hilosBloqueados = SinEsperar(m, h),
                     !.tomadoPor = IF @ = h THEN NULO ELSE @]

\* Mutant of Abandonar: the last to arrive inherits.
AbandonarAlUltimo(m, h) ==
    LET quedan == SinEsperar(m, h) IN
    IF mutex[m].tomadoPor # h THEN [mutex[m] EXCEPT !.hilosBloqueados = quedan]
    ELSE IF quedan = <<>>
    THEN [mutex[m] EXCEPT !.hilosBloqueados = quedan, !.tomadoPor = NULO]
    ELSE [mutex[m] EXCEPT !.hilosBloqueados = Front(quedan), !.tomadoPor = Last(quedan)]

Abandonar(m, h) ==
    LET quedan == SinEsperar(m, h) IN
    IF mutex[m].tomadoPor # h THEN [mutex[m] EXCEPT !.hilosBloqueados = quedan]
    ELSE IF quedan = <<>>
    THEN [mutex[m] EXCEPT !.hilosBloqueados = quedan, !.tomadoPor = NULO]
    ELSE [mutex[m] EXCEPT !.hilosBloqueados = Tail(quedan), !.tomadoPor = Head(quedan)]

Heredados(h) ==
    {m \in Mutexes : m[1] = h[1] /\ mutex[m].tomadoPor = h /\ SinEsperar(m, h) # <<>>}

\* Mutant of Revividos: whether the search in Block succeeds is not looked at.
RevividosSinBuscar(h) == IF PuedeIrAReady(h) THEN Cardinality(Heredados(h)) ELSE 0

\* Each inherited mutex sends to Ready, when it is in Block, the thread that
\* finishes and not the heir.
Revividos(h) ==
    LET n == Cardinality(Heredados(h)) IN
    IF ~PuedeIrAReady(h) THEN 0
    ELSE IF n <= hilosEnBlock[h] THEN n ELSE hilosEnBlock[h]

HeredaEl(x, h) == {m[2] : m \in {n \in Heredados(h) : Head(SinEsperar(n, h)) = x}}

\* Mutant of AvisarFinalizador: no sem_post.
NoAvisarFinalizador == UNCHANGED semHiloEnExit

AvisarFinalizador == semHiloEnExit' = semHiloEnExit + 1

LiberarRecursosMutex ==
    /\ En("recursos")
    /\ LET h == cp.hilo
           n == Revividos(h)
       IN /\ mutex' = [m \in Mutexes |-> IF m[1] = h[1] THEN Abandonar(m, h) ELSE mutex[m]]
          /\ tcb' = [x \in Hilos |->
                [tcb[x] EXCEPT !.mutexEnEspera = @ \ HeredaEl(x, h),
                               !.estado = IF x = h /\ n > 0 THEN "READY" ELSE @]]
          /\ hilosEnBlock' = [hilosEnBlock EXCEPT ![h] = @ - n]
          /\ hilosEnReady' = hilosEnReady \o [i \in 1 .. n |-> h]
          /\ semHiloEnReady' = semHiloEnReady + n
    /\ AvisarFinalizador
    /\ \/ cp.origen \in {"cancelar", "proceso"}
          /\ cp' = [cp EXCEPT !.pc = "eliminar"] /\ UNCHANGED replanificar
       \/ cp.origen = "salir" /\ Desalojar
       \/ cp.origen = "mutex" /\ Seguir
    /\ UNCHANGED <<varsProceso, hilosEnExit, enMemoria, varsExternas, hiloEnExec, caida>>

\* eliminar_hilo_en_exit_de_colas_bloked_y_ready: out of Block or, if it was
\* not there, of Ready; its token of semHiloEnReady stays.
EliminarDeColas ==
    /\ En("eliminar")
    /\ \/ /\ hilosEnBlock[cp.hilo] > 0
          /\ hilosEnBlock' = [hilosEnBlock EXCEPT ![cp.hilo] = @ - 1]
          /\ UNCHANGED hilosEnReady
       \/ /\ hilosEnBlock[cp.hilo] = 0
          /\ hilosEnReady' = RemoveFirst(hilosEnReady, cp.hilo)
          /\ UNCHANGED hilosEnBlock
    /\ \/ cp.origen = "cancelar" /\ Seguir
       \/ /\ cp.origen = "proceso"
          /\ cp' = [cp EXCEPT !.pc = "iterar"] /\ UNCHANGED replanificar
    /\ UNCHANGED <<tcb, varsProceso, mutex, semHiloEnReady, varsExit, varsExternas,
                   hiloEnExec, caida>>
-----------------------------------------------------------------------------
(* System calls.                                                           *)

PROCESS_CREATE ==
    /\ Pide("PROCESS_CREATE")
    /\ \E p \in Pids :
          /\ pcb[p] = "no"
          /\ \A q \in 0 .. p - 1 : pcb[q] # "no"
          /\ pcb' = [pcb EXCEPT ![p] = "new"]
    /\ Seguir
    /\ UNCHANGED <<tcb, listaDeHilos, siguienteTid, mutex, varsColas, varsExit,
                   varsExternas, hiloEnExec, caida>>

THREAD_CREATE ==
    /\ Pide("THREAD_CREATE")
    /\ siguienteTid[PidEnExec] < CantHilos
    /\ LET nuevo == <<PidEnExec, siguienteTid[PidEnExec]>> IN
       /\ \E prio \in Prioridades : crear_tcb(nuevo, prio)
       /\ Encolar(nuevo)
    /\ Seguir
    /\ UNCHANGED <<pcb, mutex, hilosEnBlock, hilosEnExit, semHiloEnExit,
                   varsExternas, hiloEnExec, caida>>

EnSuProceso(tid) == <<PidEnExec, tid>> \in ToSet(listaDeHilos[PidEnExec])

\* (The caller goes on, and so it does after a cancel: nothing changes.)
SinEseHilo ==
    /\ Pide("THREAD_JOIN") \/ Pide("THREAD_CANCEL")
    /\ \E tid \in Tids : ~EnSuProceso(tid)
    /\ Seguir
    /\ UNCHANGED <<tcb, varsProceso, mutex, varsColas, varsExit, varsExternas,
                   hiloEnExec, caida>>

\* A thread that finished and was not reaped yet is still in the list: the
\* code only looks for TERMINADO, which a thread is while it is taken off it.
THREAD_JOIN ==
    /\ Pide("THREAD_JOIN")
    /\ \E tid \in Tids :
          /\ EnSuProceso(tid)
          /\ LET conPuntero == [tcb EXCEPT ![<<PidEnExec, tid>>].hiloBloqueadoPorJoin
                                   = hiloEnExec]
             IN tcb' = [conPuntero EXCEPT ![hiloEnExec].bloqueadoPorJoin = TRUE,
                                          ![hiloEnExec].estado = "BLOCKED"]
    /\ hilosEnBlock' = [hilosEnBlock EXCEPT ![hiloEnExec] = @ + 1]
    /\ Desalojar
    /\ UNCHANGED <<varsProceso, mutex, hilosEnReady, semHiloEnReady, varsExit,
                   varsExternas, hiloEnExec, caida>>

\* Cancelling itself is allowed, and the scheduler then goes on with it.
THREAD_CANCEL ==
    /\ Pide("THREAD_CANCEL")
    /\ \E tid \in Tids :
          LET h == <<PidEnExec, tid>> IN
          /\ EnSuProceso(tid)
          /\ listaDeHilos' = [listaDeHilos EXCEPT ![PidEnExec] = RemoveFirst(@, h)]
          /\ \/ /\ YaFinalizado(h)
                /\ Seguir
                /\ UNCHANGED <<tcb, varsExit>>
             \/ /\ ~YaFinalizado(h)
                /\ finalizar_hilo(h, "cancelar", 0)
                /\ UNCHANGED replanificar
    /\ UNCHANGED <<pcb, siguienteTid, mutex, varsColas, varsExternas, hiloEnExec, caida>>

THREAD_EXIT ==
    /\ Pide("THREAD_EXIT")
    /\ finalizar_hilo(hiloEnExec, "salir", 0)
    /\ UNCHANGED <<varsProceso, mutex, varsColas, varsExternas, hiloEnExec,
                   replanificar, caida>>

MUTEX_CREATE ==
    /\ Pide("MUTEX_CREATE")
    /\ \E r \in Recursos : mutex' = [mutex EXCEPT ![<<PidEnExec, r>>].creado = TRUE]
    /\ Seguir
    /\ UNCHANGED <<tcb, varsProceso, varsColas, varsExit, varsExternas, hiloEnExec, caida>>

LockLibre(m) ==
    /\ mutex[m].tomadoPor = NULO
    /\ mutex' = [mutex EXCEPT ![m].tomadoPor = hiloEnExec]
    /\ Seguir
    /\ UNCHANGED <<tcb, hilosEnBlock>>

\* By anybody, the caller included.
LockTomado(m) ==
    /\ mutex[m].tomadoPor # NULO
    /\ mutex' = [mutex EXCEPT ![m].hilosBloqueados = Append(@, hiloEnExec)]
    /\ tcb' = [tcb EXCEPT ![hiloEnExec].mutexEnEspera = @ \cup {m[2]},
                          ![hiloEnExec].estado = "BLOCKED"]
    /\ hilosEnBlock' = [hilosEnBlock EXCEPT ![hiloEnExec] = @ + 1]
    /\ Desalojar

MUTEX_LOCK ==
    /\ Pide("MUTEX_LOCK")
    /\ \E r \in Recursos :
          LET m == <<PidEnExec, r>> IN
          \/ /\ mutex[m].creado
             /\ LockLibre(m) \/ LockTomado(m)
             /\ UNCHANGED varsExit
          \/ /\ ~mutex[m].creado
             /\ finalizar_hilo(hiloEnExec, "mutex", 0)
             /\ UNCHANGED <<mutex, hilosEnBlock, replanificar>>
    /\ UNCHANGED <<varsProceso, hilosEnReady, semHiloEnReady, varsExternas, hiloEnExec, caida>>

UnlockSinEspera(m) ==
    /\ mutex[m].hilosBloqueados = <<>>
    /\ mutex' = [mutex EXCEPT ![m].tomadoPor = NULO]
    /\ UNCHANGED <<tcb, varsColas>>

UnlockConEspera(m) ==
    /\ mutex[m].hilosBloqueados # <<>>
    /\ LET heredero == Head(mutex[m].hilosBloqueados)
           t == [tcb EXCEPT ![heredero].mutexEnEspera = @ \ {m[2]}]
       IN /\ mutex' = [mutex EXCEPT ![m].tomadoPor = heredero,
                                    ![m].hilosBloqueados = Tail(@)]
          /\ desbloquear(heredero, t,
                /\ hilosEnBlock[heredero] > 0
                /\ t[heredero].mutexEnEspera = {}
                /\ ~t[heredero].bloqueadoPorJoin /\ ~t[heredero].bloqueadoPorIO)

\* Of a mutex that does not exist, or is not the caller's: the caller is finished.
UnlockAjeno(m) ==
    /\ mutex[m].tomadoPor # hiloEnExec
    /\ finalizar_hilo(hiloEnExec, "mutex", 0)
    /\ UNCHANGED <<mutex, varsColas, replanificar>>

MUTEX_UNLOCK ==
    /\ Pide("MUTEX_UNLOCK")
    /\ \E r \in Recursos :
          LET m == <<PidEnExec, r>> IN
          \/ /\ mutex[m].tomadoPor = hiloEnExec
             /\ UnlockSinEspera(m) \/ UnlockConEspera(m)
             /\ Seguir
             /\ UNCHANGED varsExit
          \/ UnlockAjeno(m)
    /\ UNCHANGED <<varsProceso, varsExternas, hiloEnExec, caida>>

IO ==
    /\ Pide("IO")
    /\ hilosEnBlock[hiloEnExec] < MaxBlock
    /\ hilosEnBlock' = [hilosEnBlock EXCEPT ![hiloEnExec] = @ + 1]
    /\ tcb' = [tcb EXCEPT ![hiloEnExec].bloqueadoPorIO = TRUE,
                          ![hiloEnExec].estado = "BLOCKED"]
    /\ dispositivoIO' = Append(dispositivoIO, hiloEnExec)
    /\ Desalojar
    /\ UNCHANGED <<varsProceso, mutex, hilosEnReady, semHiloEnReady, varsExit, dumps,
                   hiloEnExec, caida>>

DUMP_MEMORY ==
    /\ Pide("DUMP_MEMORY")
    /\ hilosEnBlock' = [hilosEnBlock EXCEPT ![hiloEnExec] = @ + 1]
    /\ tcb' = [tcb EXCEPT ![hiloEnExec].estado = "BLOCKED"]
    /\ dumps' = dumps \cup {hiloEnExec}
    /\ Desalojar
    /\ UNCHANGED <<varsProceso, mutex, hilosEnReady, semHiloEnReady, varsExit,
                   dispositivoIO, hiloEnExec, caida>>

FIN_DE_QUANTUM ==
    /\ En("ejecutando") /\ Algoritmo = "CMN"
    /\ transicion_a_ready(hiloEnExec, tcb, PuedeIrAReady(hiloEnExec))
    /\ Desalojar
    /\ UNCHANGED <<varsProceso, mutex, hilosEnBlock, varsExit, varsExternas,
                   hiloEnExec, caida>>
-----------------------------------------------------------------------------
(* finalizar_proceso, always of the process of the running thread.         *)

PROCESS_EXIT ==
    /\ Pide("PROCESS_EXIT")
    /\ cp' = [cp EXCEPT !.pc = "iterar", !.i = 0]
    /\ UNCHANGED <<tcb, varsProceso, mutex, varsColas, varsExit, varsExternas,
                   hiloEnExec, replanificar, caida>>

\* The CPU's packet is code, size and tid.  The size is taken for the tid,
\* and the tid for the size of a string: for tid 0 an empty buffer is read
\* as a string that is not "EXIT" (or kills the kernel); for the others the
\* scheduler waits for ever for bytes that nobody sends.
SEGMENTATION_FAULT ==
    /\ Pide("SEGMENTATION_FAULT")
    /\ \/ /\ hiloEnExec[2] = 0
          /\ \/ /\ cp' = [cp EXCEPT !.pc = "iterar", !.i = CantHilos]
                /\ UNCHANGED caida
             \/ caida' = TRUE /\ UNCHANGED cp
       \/ /\ hiloEnExec[2] # 0
          /\ cp' = [cp EXCEPT !.pc = "colgado"]
          /\ UNCHANGED caida
    /\ UNCHANGED <<tcb, varsProceso, mutex, varsColas, varsExit, varsExternas,
                   hiloEnExec, replanificar>>

\* list_remove(lista, i), and i + 1 next: the element that takes the place
\* of the removed one is skipped.
IterarProceso ==
    /\ En("iterar")
    /\ cp.i < Len(listaDeHilos[PidEnExec])
    /\ LET h == listaDeHilos[PidEnExec][cp.i + 1] IN
       /\ listaDeHilos' = [listaDeHilos EXCEPT ![PidEnExec] = RemoveAt(@, cp.i + 1)]
       /\ \/ /\ YaFinalizado(h)
             /\ cp' = [cp EXCEPT !.i = @ + 1]
             /\ UNCHANGED <<tcb, varsExit>>
          \/ /\ ~YaFinalizado(h)
             /\ finalizar_hilo(h, "proceso", cp.i + 1)
    /\ UNCHANGED <<pcb, siguienteTid, mutex, varsColas, varsExternas, hiloEnExec,
                   replanificar, caida>>

LiberarProceso ==
    /\ En("iterar")
    /\ cp.i >= Len(listaDeHilos[PidEnExec])
    /\ pcb' = [pcb EXCEPT ![PidEnExec] = "liberado"]
    /\ Desalojar
    /\ UNCHANGED <<tcb, listaDeHilos, siguienteTid, mutex, varsColas, varsExit,
                   varsExternas, hiloEnExec, caida>>
-----------------------------------------------------------------------------
(* The threads around the scheduler.                                       *)

\* Once the process is freed its list of threads is garbage.
liberar_tcb(h) ==
    LET p == h[1]
        doble == tcb[h].estado = "LIBERADO"
    IN /\ tcb' = [tcb EXCEPT ![h].estado = "LIBERADO"]
       /\ \/ /\ pcb[p] = "vivo"
             /\ listaDeHilos' = [listaDeHilos EXCEPT ![p] = RemoveFirst(@, h)]
             /\ caida' = doble
          \/ /\ pcb[p] = "liberado"
             /\ caida' \in {doble, TRUE}
             /\ UNCHANGED listaDeHilos

FinalizadorDeHilos ==
    /\ ~caida
    /\ semHiloEnExit > 0
    /\ semHiloEnExit' = semHiloEnExit - 1
    /\ hilosEnExit' = Tail(hilosEnExit)
    /\ liberar_tcb(Head(hilosEnExit))
    /\ UNCHANGED <<pcb, siguienteTid, mutex, varsColas, enMemoria, varsExternas, varsCP>>

\* Mutant of AtenderIO: bloqueadoPorIO stays set.
AtenderIOSinBajarMarca ==
    /\ ~caida
    /\ dispositivoIO # <<>>
    /\ dispositivoIO' = Tail(dispositivoIO)
    /\ transicion_a_ready(Head(dispositivoIO), tcb, PuedeIrAReady(Head(dispositivoIO)))
    /\ UNCHANGED <<varsProceso, mutex, hilosEnBlock, varsExit, dumps, varsCP, caida>>

\* atender_io: the thread goes to Ready and stays in hilosEnBlock.
AtenderIO ==
    /\ ~caida
    /\ dispositivoIO # <<>>
    /\ dispositivoIO' = Tail(dispositivoIO)
    /\ LET h == Head(dispositivoIO) IN
       \E listo \in ListoTrasIO(h) :
          transicion_a_ready(h, [tcb EXCEPT ![h].bloqueadoPorIO = FALSE], listo)
    /\ UNCHANGED <<varsProceso, mutex, hilosEnBlock, varsExit, dumps, varsCP, caida>>

\* The answer to a dump, when it is DUMP_MEMORY_OK.
EnBlock(h) == hilosEnBlock[h] > 0 /\ tcb[h].estado # "LIBERADO" /\ pcb[h[1]] = "vivo"

DumpTerminado(h) ==
    /\ ~caida
    /\ h \in dumps
    /\ dumps' = dumps \ {h}
    /\ \/ /\ EnBlock(h)
          /\ desbloquear(h, tcb, PuedeIrAReady(h))
          /\ UNCHANGED caida
       \/ /\ ~EnBlock(h)
          /\ caida' = TRUE
          /\ UNCHANGED <<tcb, varsColas>>
    /\ UNCHANGED <<varsProceso, mutex, varsExit, dispositivoIO, varsCP>>

\* Any other answer: the dump's thread calls finalizar_proceso, which reads
\* the scheduler's own socket to the CPU, and competes for its next message.
DumpFallido(h) ==
    /\ En("ejecutando")
    /\ h \in dumps
    /\ dumps' = dumps \ {h}
    /\ cp' = [cp EXCEPT !.pc = "colgado"]
    /\ UNCHANGED <<tcb, varsProceso, mutex, varsColas, varsExit, dispositivoIO,
                   hiloEnExec, replanificar, caida>>
-----------------------------------------------------------------------------
LargoPlazo == \E p \in Pids : AdmitirProceso(p)
CortoPlazo == ElegirHilo \/ ElegirSinHilos \/ ContinuarHilo
Finalizacion ==
    \/ DespertarPorJoin \/ LiberarRecursosMutex \/ EliminarDeColas
    \/ IterarProceso \/ LiberarProceso
SystemCall ==
    \/ PROCESS_CREATE \/ PROCESS_EXIT \/ THREAD_CREATE \/ THREAD_EXIT
    \/ THREAD_JOIN \/ THREAD_CANCEL \/ SinEseHilo
    \/ MUTEX_CREATE \/ MUTEX_LOCK \/ MUTEX_UNLOCK
    \/ IO \/ DUMP_MEMORY \/ SEGMENTATION_FAULT \/ FIN_DE_QUANTUM
Alrededor ==
    \/ FinalizadorDeHilos \/ AtenderIO
    \/ \E h \in Hilos : DumpTerminado(h) \/ DumpFallido(h)

Next == LargoPlazo \/ CortoPlazo \/ Finalizacion \/ SystemCall \/ Alrededor

Spec == Init /\ [][Next]_vars

\* The threads that wait for nothing but a semaphore or an answer of the
\* memory do go on.
SpecJusta ==
    /\ Spec
    /\ WF_vars(Finalizacion)
    /\ WF_vars(FinalizadorDeHilos)
    /\ WF_vars(AtenderIO)
-----------------------------------------------------------------------------
(* Properties                                                              *)

Estados == {"NINGUNO", "READY", "EXECUTE", "BLOCKED", "EXIT", "LIBERADO"}
HiloONulo == Hilos \cup {NULO}

Tcbs == [estado : Estados, prioridad : Prioridades, hiloBloqueadoPorJoin : HiloONulo,
         bloqueadoPorJoin : BOOLEAN, bloqueadoPorIO : BOOLEAN,
         mutexEnEspera : SUBSET Recursos]
LosMutex == [creado : BOOLEAN, tomadoPor : HiloONulo, hilosBloqueados : Seq(Hilos)]
Controles ==
    [pc : {"elegir", "ejecutando", "avisando", "recursos", "eliminar", "iterar", "colgado"},
     hilo : HiloONulo, origen : {"", "salir", "mutex", "cancelar", "proceso"},
     i : 0 .. CantHilos]

\* The types of the variables.
TypeOK ==
    /\ tcb \in [Hilos -> Tcbs]
    /\ pcb \in [Pids -> {"no", "new", "vivo", "liberado"}]
    /\ listaDeHilos \in [Pids -> Seq(Hilos)]
    /\ siguienteTid \in [Pids -> 0 .. CantHilos]
    /\ mutex \in [Mutexes -> LosMutex]
    /\ hilosEnReady \in Seq(Hilos)
    /\ hilosEnBlock \in [Hilos -> Nat]
    /\ hilosEnExit \in Seq(Hilos)
    /\ semHiloEnReady \in Nat /\ semHiloEnExit \in Nat
    /\ dispositivoIO \in Seq(Hilos)
    /\ dumps \subseteq Hilos
    /\ hiloEnExec \in HiloONulo
    /\ replanificar \in BOOLEAN /\ caida \in BOOLEAN
    /\ cp \in Controles
    /\ enMemoria \subseteq Hilos

\* A thread that was created and not finished, of a process that exists.
Vivo(h) == h \in enMemoria /\ pcb[h[1]] = "vivo"
SeEstaFinalizando(h) == cp.pc \in {"avisando", "recursos"} /\ cp.hilo = h
VecesEnReady(h) == Cardinality({i \in DOMAIN hilosEnReady : hilosEnReady[i] = h})

\* A ready thread is never left without a token: the posts of
\* transicion_a_ready are not lost, although cancels and process exits take
\* threads off the queue behind the semaphore's back.
FichasAlcanzan == Len(hilosEnReady) <= semHiloEnReady

\* Where nothing is cancelled and no process exits, a token always finds a
\* thread: the scheduler never wakes up to an empty queue.
FichasExactas == Len(hilosEnReady) = semHiloEnReady

\* A live thread is where its state says, once: no wake-up puts it in Ready
\* a second time (join, mutex, IO and dump end independently of each other).
UnSoloLugar ==
    \A h \in Hilos : Vivo(h) =>
       /\ VecesEnReady(h) = IF tcb[h].estado = "READY" THEN 1 ELSE 0
       /\ tcb[h].estado = "EXECUTE" => h = hiloEnExec

\* A thread that runs or may run waits for nothing.
ListoSinMotivo ==
    \A h \in Hilos : Vivo(h) /\ tcb[h].estado \in {"READY", "EXECUTE"} =>
       /\ PuedeIrAReady(h)
       /\ h \notin ToSet(dispositivoIO) \cup dumps
       /\ \A m \in Mutexes : h \notin ToSet(mutex[m].hilosBloqueados)

\* The queue of a mutex and the lists of awaited mutexes of its waiters say
\* the same; nobody waits for a free mutex; owner and waiters are alive
\* until their finalization reaches liberar_recursos_mutex.
MutexCoherente ==
    \A m \in Mutexes : pcb[m[1]] = "vivo" =>
       /\ mutex[m].tomadoPor = NULO => mutex[m].hilosBloqueados = <<>>
       /\ \A h \in ToSet(mutex[m].hilosBloqueados) \cup ({mutex[m].tomadoPor} \ {NULO}) :
             Vivo(h) \/ SeEstaFinalizando(h)
       /\ \A h \in Hilos : h[1] = m[1] /\ Vivo(h) =>
             (m[2] \in tcb[h].mutexEnEspera <=> h \in ToSet(mutex[m].hilosBloqueados))

\* No TCB is freed twice: a finished thread is in hilosEnExit once, and not
\* any more when it has been freed.
SeLiberaUnaVez ==
    /\ IsInjective(hilosEnExit)
    /\ \A h \in ToSet(hilosEnExit) : tcb[h].estado # "LIBERADO"

\* Where no thread is cancelled and no process exits, only a finished thread
\* that is sent to the CPU again kills anything: the caller of a failed mutex
\* call, or one that Ready was given back as it left a mutex to its heir.
\* No join wakes up a thread that is not in Block, no dump ends for one that
\* left it, no wait finds Ready empty and no control block is freed twice.
CaeSoloAlDespachar ==
    [][caida' => \/ caida
                 \/ /\ cp.pc = "elegir"
                    /\ IF replanificar THEN \E h \in ToSet(hilosEnReady) : h \notin enMemoria
                       ELSE cp.origen = "mutex" /\ hiloEnExec \notin enMemoria]_vars

\* Something that will end is what a blocked thread waits for.
EsperaAlgo(h) ==
    \/ tcb[h].mutexEnEspera # {} \/ tcb[h].bloqueadoPorJoin
    \/ h \in ToSet(dispositivoIO) \cup dumps
Dueno(h) == \E m \in Mutexes : mutex[m].tomadoPor = h

\* The only way to stay blocked for nothing is to be given a mutex by a
\* thread that finishes.
BloqueadoDeMasSoloPorHerencia ==
    cp.pc # "colgado" =>
       \A h \in Hilos :
          Vivo(h) /\ tcb[h].estado = "BLOCKED" /\ ~EsperaAlgo(h) => Dueno(h)

\* The pointer to the thread that waits in a join is never stale while that
\* thread lives: it is blocked for the join, it can be found in hilosEnBlock,
\* and no other live thread will wake it up too.
PunteroDeJoinVigente ==
    \A t, h \in Hilos : Vivo(t) /\ Vivo(h) /\ tcb[t].hiloBloqueadoPorJoin = h =>
       /\ tcb[h].bloqueadoPorJoin /\ tcb[h].estado = "BLOCKED" /\ hilosEnBlock[h] > 0
       /\ \A u \in Hilos \ {t} : Vivo(u) => tcb[u].hiloBloqueadoPorJoin # h

\* Every mutex is a lock with a queue, whoever finishes and however.
LosCerrojos == INSTANCE Cerrojos WITH
    Clientes <- Hilos, Nadie <- NULO,
    dueno <- [m \in Mutexes |-> mutex[m].tomadoPor],
    cola <- [m \in Mutexes |-> mutex[m].hilosBloqueados]
ImplementaCerrojos == LosCerrojos!Spec

\* Whatever finishes a thread, its TCB is freed.
TodoExitSeLibera ==
    \A h \in Hilos : h \in ToSet(hilosEnExit) ~> h \notin ToSet(hilosEnExit) \/ caida

\* Every request to the IO device ends.
TodaIOTermina ==
    \A h \in Hilos : tcb[h].bloqueadoPorIO ~> ~tcb[h].bloqueadoPorIO \/ caida
=============================================================================
