# Verification of the operating-systems practical (kernel, CPU, memory, filesystem)

The repository is a simulated operating system in C: four programs that talk over
TCP sockets and use pthreads inside. This directory holds TLA+ models of its core
(the kernel's schedulers and system calls, the CPU and its turns, the memory, the
filesystem), the TLC runs that check them and the TLAPS proofs of what they keep for
every value of their constants.
Source paths below are relative to `src/tp-2024-2c-EstoyEntrenando-main/`.

Names of actions and variables are those of the code (in Spanish); comments are in
English. `PROJECT.json` maps every definition to the lines it models.

## The system

| Component | Code | State | Operations | Talks to |
|---|---|---|---|---|
| Short term scheduler and system calls | `kernel/src/mainkernel.c` 145-802, 834-1030 | `hilosEnReady` or `colasDeReady`, `hilosEnBlock`, `hilosEnExit`, `hiloEnExec`, `replanificar`, `semHiloEnReady`, TCBs, PCBs, mutexes | choose a thread (FIFO, PRIORIDADES, CMN), dispatch it, run the system call the CPU returns with | CPU (dispatch socket), memory (one connection per request) |
| Long term scheduler | 97-141, 805-832, `pcbYtcb.c` 202-309 | `procesosEnNew`, `semProcesoEnNew` | queue a process, ask the memory for room, admit it, retry when one ends | memory |
| Reaper, IO device, dump threads | 556-629, 1033-1087 | `semHiloEnExit`, `dispositivoIO`, `semIO` | free TCBs, serve IO, wait for a dump | scheduler (shared lists), memory |
| Quantum timer | 912-930 | `finDeq`, `clockContando` | after a sleep, interrupt the CPU | CPU (interrupt socket) |
| Partition allocator | `memoria/src/mainMemoria.c` 53-185, 430-506, 584-799 | `huecos_libres`, `lista_de_procesos` | create and finish processes, merge holes | kernel (a detached handler per request) |
| Contexts and user memory | 186-215, 287-428, 661-703, 806-883 | TIDs with registers, one buffer | contexts, instructions, reads, writes | CPU (one connection), kernel |
| Dump | 225-275 | none | copy the process, ask the filesystem for a file | filesystem, kernel |
| CPU | `cpu/src/mainCPU.c` | registers, `pid`, `tid`, the interrupt latch | fetch, decode, execute, translate, check interrupt | kernel, memory |
| Filesystem | `filesystem/src/mainFS.c` | bitmap, block file | check for space, reserve blocks, write, metadata | memory (a detached handler per request) |
| Utilities | `utils/src/utils/` | none | packets, connections, log, configuration | all |

What is hard in it:

* The memory serves each kernel request in a thread of its own, and takes and
  returns holes in separate critical sections.
* The end of a process is told to the memory without waiting for an answer.
* The kernel's lists are filled and emptied by four kinds of threads; semaphores
  count list elements that other code removes without touching the semaphore.
* A thread may wait for a join, a mutex, an IO and a dump, each ended by a
  different actor, and it may be cancelled or die with its process meanwhile.
* Pointers between TCBs (`hiloBloqueadoPorJoin`, `tomadoPor`, `hilosBloqueados`)
  outlive the waits they stand for; TCBs and PCBs are freed by other threads.
* A turn in the CPU ends by a system call, a fault or a timer whose interrupt goes
  through two processes and a latch of one place, while the next turn may begin.
* The filesystem answers several dumps at once, asks for space and takes it in two
  critical sections, and may be killed between any two writes.

What makes each part correct: every address has one owner and none is lost; the
process finished is the one named; refusals are justified; NEW is in order and its
head is always asked for; a ready thread has a token, is queued once and waits for
nothing; mutexes are FIFO locks with consistent bookkeeping; joins end; every
finished thread is freed once; every request ends; a program runs as if it had the
CPU and its memory for itself, and is not starved; a file answered OK can be read
back for ever and a block is of one file.

`PROJECT.json` lists the hazards, each at its line, with the properties that would
catch it or the reason why none does yet.

## Modules

| Module | Models | Checked by |
|---|---|---|
| `Particionado` | abstract memory: a range of free addresses is given at once and given back whole | refined by `Memoria` |
| `Memoria` | the allocator, one action per critical section of a handler; the kernel only as the order of its requests | `MCMemoria` |
| `MemoriaProofs` | theorems about `Memoria`: types, owners, coverage | tlapm |
| `FragmentacionProofs` | more of them: merges, refusals, fixed partitions, the refinement of `Particionado` | tlapm |
| `Admision` | the long term scheduler and the calls that start and finish processes, composed with the handlers of `Memoria` (`INSTANCE`, shared variables) | `MCAdmision` |
| `AdmisionProofs` | theorems about `Admision`: the order of NEW, its tokens, and that it asks the memory as `Memoria` supposes | tlapm |
| `Cerrojos` | abstract table of FIFO locks whose clients may leave | refined by `Planificador` |
| `Planificador` | short term scheduler, every system call, reaper, IO device, dump threads | itself |
| `PlanificadorProofs` | theorems about `Planificador`: types and tokens | tlapm |
| `EsperasProofs` | more of them: the place of each thread, its waits, the refinement of `Cerrojos`, what kills the kernel | tlapm |
| `PlanificadorComentarios` | what a comment of `mainkernel.c` says and the code does not do | itself |
| `Almacen` | abstract disk: a block is of one file for ever, a file is accepted with all its blocks or refused with none | refined by `Archivos` |
| `Archivos` | the filesystem's start-up and handlers, composed with the memory's handlers of a dump; kills and restarts | itself |
| `ArchivosProofs` | theorems about `Archivos` and the refinement of `Almacen` | tlapm |
| `Instrucciones` | instructions, contexts, arithmetic of registers | used by the next three |
| `Maquina` | abstract machine: every thread has registers of its own and every process a memory of its own | refined by `Turnos` |
| `Cpu` | the CPU's two threads and the memory's `atender_cpu` | part of `Turnos` |
| `Turnos` | `Cpu` composed with the dispatch, the evictions, the timers and the IO device of the kernel, under CMN | `MCTurnos` |
| `TurnosProofs` | a theorem about `Turnos`: where the turn is | tlapm |
| `MaquinaProofs` | its types, the refinement of `Maquina`, and the programs for which it holds | tlapm |

`Memoria` <-> code: `TomarHueco`, `AgregarResto`, `AgregarProceso` are the critical
sections of `crear_proceso`; `QuitarProceso`, `LiberarRegion` those of the
`FINALIZACION_DE_PROCESO` case. `estado[p]` is the program counter of p's handler,
`region`, `resto`, `victima` its locals. `huecos_libres` is a set, because each
search sorts the list first; between holes of equal size the choice is left open.

`Admision` <-> code: `lp` is the program counter of `planificador_largo_plazo`, `cp`
that of the thread that runs system calls, cut between the change of the list and
the post, and between the message to the memory and the look at NEW. It states the
requests itself; that they are the ones `Memoria` supposes is the property
`ImplementaMemoria`, so `Memoria`'s theorems apply to the composed system.

`Planificador` <-> code: `cp.pc` says where the scheduler is. A system call is one
action, except that `finalizar_hilo` is cut where it waits for the memory
(`avisando`, `recursos`, `eliminar`) and `finalizar_proceso` at each turn of its loop
(`iterar`), because there the other threads really run in between. `hilosEnBlock` is
a bag (it is only searched for one thread); the queues of CMN are one sequence
picked by priority. `enMemoria` is what the memory knows, since a request for
another thread makes it dereference NULL.

`Archivos` <-> code: `hilo[a]` is the program counter and locals of `atender_cliente`
for request `a`; its steps are the critical sections of `mutex_bitmap`, the metadata,
the lock of `mutex_archivo_bloques`, each pointer and each data block written, the
answer. `disco` counts the steps of the start-up that reached the disk. Sizes are
in words of four bytes, so a pointer is one word. The files are mapped `MAP_SHARED`:
a kill loses no word written, only the threads. `dump[a]` is the memory's handler
of `MEMORY_DUMP`, whose `assert` ends the memory when the connection closes.

`Cpu` <-> code: `etapa` is where the thread of `atender_kernel` is (`avisar` and
`limpiar` are the two parts of `check_interrupt` after the unlock, `acceder` is the
access after a failed translation), `cpu` the global registers, `contexto` and
`espacio` what the memory keeps, `aCpu`, `aKernel`, `interrupciones` the sockets. The
base of a byte is a constant, so that registers wrap around in small instances.

`Turnos` <-> code: `kernel` is where `planificador_corto_plazo` is, `reloj[k]` a thread of
`controlar_tiempo_de_ejecucion` with each of its reads of `hiloEnExec` as a step (the
comparison of line 922 is one). `transicion_a_ready` is one step in the scheduler's
thread, where only the order of what it touches matters, and two in the IO device's,
where the scheduler may run after `list_add` and before `clockContando = false`. The
other system calls only end a turn there; what they do to other threads is in
`Planificador`. `fallaron` and `carrera` are history variables that no action reads.

### Undefined behaviour

`caida` means that the kernel or the memory died; nothing happens afterwards. NULL
dereferences, `exit(-1)` and double frees set it. A read of a freed TCB's list of
mutexes may say empty or not, and a read of a freed process's list may also kill. A
freed TCB is found only by a search that holds its address and its block is not
used again by `malloc`. `colgado` is a scheduler that waits for bytes nobody sends.

## Runs

| Run | Instance | Shows |
|---|---|---|
| `memoria_solapada` | 4 processes of size 1, 2 or 4 in 6 bytes, FIRST, 3 requests at once | `TypeOK`, `SinSolapamiento`, `NadaSePierde`, `FinalizaElPedido`, `LiberarConsolida`, and that `Memoria` implements `Particionado` |
| `memoria_en_serie` | 4 processes of size 1-3, BEST, one request at a time | `HuecosConsolidados`: free holes never touch; `RechazoJustificado` |
| `memoria_fijas` | partitions 2, 1, 3, WORST, 2 requests at once, fair handlers | `ParticionesIntactas`, `SinSolapamiento`, `TodoPedidoTermina` |
| `admision` | 4 processes of size 1 or 2 in 2 bytes, 3 requests at once | `ImplementaMemoria`, `NewEnOrden`, `SeConsultaAlPrimero`, `FichasDeMasPorFinales` |
| `planificador_procesos` | 2 processes of 2 threads, CMN, process exit, cancel, segmentation fault, join | `SeLiberaUnaVez`, `FichasAlcanzan`, `UnSoloLugar` |
| `planificador_todo` | 3 threads, 2 mutexes, PRIORIDADES, every call of one process but IO | `TypeOK`, `ListoSinMotivo`, `MutexCoherente`, `PunteroDeJoinVigente`, `ImplementaCerrojos` |
| `planificador_vida` | 3 threads, IO, dumps, joins, a mutex, fairness | `FichasExactas`, `BloqueadoDeMasSoloPorHerencia`, `ImplementaCerrojos`, `CaeSoloAlDespachar`, `TodoExitSeLibera`, `TodaIOTermina` |
| `archivos` | 3 dumps of 2, 3, 4 or 8 words, 8 blocks of 2 words, 4 of them taken in an old disk, one restart | `TypeOK`, `ArchivoIntacto`, `DumpDiceLaVerdad`, `ListaCortaSoloPorCarrera`, `ImplementaAlmacen`, `TodoPedidoResponde` |
| `turnos` | 4 threads of 3 processes, 2 timers, bytes of base 3 | `TypeOK`, `UnMensajePorTurno`, `Sano`, `ImplementaMaquina`, `TodoProgramaTermina` |
| `comentario_fin_de_proceso` | 3 threads | violated: a process exit leaves every second thread alive |
| `comentario_varado` | 2 processes | violated: a process stays in NEW for ever with all the memory free |
| `comentario_particion` | 2 processes of 8 bytes | violated: a thread writes in the partition that follows its own |

The runs do not check deadlock: every program may end, and the kernel may die.

Bounds. Six bytes and four processes give two holes around a process, a hole of the
exact size, and the merge on each side and on both; three requests at once let a
release fall between the two halves of a creation while another creation searches.
Three threads give an owner, a waiter and a canceller, and a queue of two
waiters; with two mutexes, a thread that owns one lock and waits for another, and is
ended there. `MaxBlock` bounds only how often a thread may be in `hilosEnBlock` when it
asks for IO (IO never removes the entry): with 1 a thread asks for it once, and the
entry that is left is there for the rest of its life, to be found in the place of a
real one. The threads of `planificador_todo` have one priority (the order of Ready is then that of arrival);
`planificador_procesos` has two. Three dumps let one take the other's blocks between
its two looks at the bitmap, and eight blocks for files of one and of several data
blocks, with and without a full last one, to fit or not. In `turnos` one thread asks
for IO and then never leaves the CPU, one writes, calls the kernel and reads what it
wrote, and two fault, one in a write and one in a read; two timers let the one of a
turn that ended come late for the next one (a dispatch waits while both are in use).
A fault is of a thread with tid 0; what the kernel does for another tid (it hangs) is
in `Turnos` and is reached in `planificador_procesos`. `CantHilos` bounds creations,
`MaxEnVuelo` requests in flight.

The properties say what holds in their instance and the README where it stops:

* `HuecosConsolidados` and `RechazoJustificado` fail when requests overlap
  (`MaxEnVuelo` = 2): `AgregarResto` does not merge.
* `SeLiberaUnaVez`, `UnSoloLugar`, `ListoSinMotivo`, `PunteroDeJoinVigente` and
  `ImplementaCerrojos` fail when a program mixes IO, mutexes and the end of another
  thread (a cancel, or the exit of the process). The
  thread that exits is the one searched for in Block in place of the heir (lines 195
  and 220 look for the thread that finishes). If an IO left an entry of it there and it
  owns a mutex that another thread waits for, it goes back to Ready; it is still in the
  list of its process, so a cancel or the exit of the process finishes it once more.
  TLC finds this with three threads and all the system calls (it finds no violation of
  `MutexCoherente` and `BloqueadoDeMasSoloPorHerencia` there). With any of the three
  missing the properties hold, for every instance (`SinMezcla`, below):
  `planificador_procesos` and `planificador_todo` are without IO, `planificador_vida` without
  the end of another thread.
* A second join on the same thread overwrites the pointer of the first (line 351),
  which then waits for ever; and the heir of a mutex is not woken, although the log at
  217 calls it unblocked. Both are reached in `planificador_todo` or
  `planificador_vida`: `BloqueadoDeMasSoloPorHerencia` says that nothing else leaves a
  thread blocked.
* `FichasExactas` fails with cancels and process exits: the token of the thread
  taken off Ready stays, and the scheduler later picks from an empty list.
* The kernel does die in `planificador_vida`, of two things that `CaeSoloAlDespachar`
  names: it goes on with the thread that a failed `mutex_lock` or `mutex_unlock` has
  just finished (a NULL in the memory), or it picks from Ready a thread that
  `liberar_recursos_mutex` put back there. The property says that there is no third.
* A process that ends while it is still in NEW, or two that end in a row, post a
  token too many: the long term scheduler reads NULL (`TomarFicha`).
  `FichasDeMasPorFinales` says that nothing but such ends brings a token too many, and
  each brings one.
* The comments on `thread_join` (line 323: no effect on a thread that has finished)
  and `mutex_unlock` (line 497, and the log at 551: the call is ignored) are not what
  the code does either: a join on a thread that exited and was not reaped blocks for
  ever, and an unlock of a mutex of another thread finishes the caller.
* `ListaCortaSoloPorCarrera` says when the reservation may come out short: only if
  another request took blocks between the check (lines 240-256 of `mainFS.c`) and the
  reservation (336-362). It then dereferences NULL: the filesystem ends, and the
  memory's `assert` with it. Alone, no request meets it.
* A file that needs a second index block, or several data blocks of which the last
  is not full, is answered OK with nothing written (lines 433 and 438);
  `ArchivoIntacto` and `DumpDiceLaVerdad` speak of the others. A start-up cut between
  `mkdir` and the last `ftruncate` is never repaired, since the directory alone is
  looked at; the first request then ends the filesystem.
* `ImplementaMaquina` holds where programs stay in their partition or go beyond the
  absolute address of its end. Between both, an access passes (`comentario_particion`).
  After a failed translation the access goes on with -1: a write changes the first
  three bytes of the memory, which in `turnos` belong to the process that failed.
* `TodoProgramaTermina` excepts three races, each of which TLC shows to starve the
  others when the exception is removed: an interrupt that arrives after the CPU's
  answer and before it clears the latch (`mainCPU.c` 840); a late one that takes the place
  of another in it (`mainCPU.c` 813, `mainkernel.c` 924); a thread chosen between the IO
  device's `list_add` and its `clockContando = false` (`mainkernel.c` 940, 950), which runs
  without a timer.

### Fairness

`Memoria!SpecJusta`: weak fairness of each handler, a detached thread that waits only
for short mutexes. `Planificador!SpecJusta`: weak fairness of the steps of a
finalization (they wait only for the memory's answer), of the reaper and of the IO
device (they wait for semaphores already posted, or sleep). No fairness is assumed
of programs, so no property says that a thread ever runs or exits, nor of the
answer to a dump. `Archivos!SpecJusta`: weak fairness of the handlers taken together (some thread of
a live process goes on): they wait for a mutex that is always released, or sleep.
`Turnos!SpecJusta`: weak fairness of the CPU's two threads, the scheduler, the two steps
of the IO device and each timer. Each waits only for a message or a token that stays
until it is taken, or sleeps for a given time; programs are fixed, so a program that
never leaves the CPU is one of them.

## Proofs

Every invariant and action property that a passing run checks is also a theorem,
and so is every refinement, in the instances that its hypotheses name. The
only assumptions on constants are the named `ASSUME`s of the modules, which TLC
evaluates for each run, and these hypotheses:

| Hypothesis | Of | Why |
|---|---|---|
| `Esquema = "DINAMICAS"`, or `"FIJAS"` | `LiberarSiempreConsolida`, `LasParticionesNoCambian`, ... | the scheme the statement is about |
| `MaxEnVuelo = 1` | `SinFragmentacion`, `SoloSeRechazaSinLugar` | false when requests overlap |
| `[](Tope <= TamMemoria)` | `RefinaParticionado` | the configured partitions fit in the memory; the code does not look, and `Particionado` has no address beyond its end. True in the dynamic scheme (`RefinaParticionadoDinamico`) |
| `[]Sano` | `RefinaMaquina` | no access meets the faults of the translation; an access that does may change what belongs to another |
| `Alcance(A)`, for some `A` | `SanoPorLosProgramas`, `RefinaMaquinaSana` | the same, asked of the programs before they run: `A` gives the contexts that each reaches by itself, and none of them makes an access that meets a fault. TLC evaluates it for the programs of `turnos` (`ProgramasSanos`, with `A` = `MCAlcance`) |
| `Syscalls \cap Bajas = {}` | `FichasExactasSinBajas`, `CaeSoloAlDespacharSinBajas` | no cancel, process exit or segmentation fault: they leave tokens in excess, and addresses of threads that were finished behind the back of who holds them |
| `Syscalls \cap (Bajas \cup DeMutex) = {}` | `NoCaeSinMutexes` | nor a lock or an unlock: a failed one kills the kernel |
| `SinMezcla` | theorems of `EsperasProofs` | IO, mutexes and the end of another thread are not all three used: false with the three |

### Memory

| Theorem | Statement |
|---|---|
| `TipoCorrecto`, `Exclusion` | `Spec => []TypeOK`, `Spec => []SinSolapamiento` |
| `FinalizaElQueDebe`, `MemoriaCompleta` | `Spec => []FinalizaElPedido`, `Spec => []NadaSePierde` |
| `LiberarSiempreConsolida` | `Spec => LiberarConsolida`, dynamic scheme |
| `SinFragmentacion`, `SoloSeRechazaSinLugar` | `Spec => []HuecosConsolidados`, `Spec => RechazoJustificado`, dynamic scheme, one request at a time |
| `LasParticionesNoCambian` | `Spec => []ParticionesIntactas`, fixed scheme |
| `RefinaParticionado` | `Spec /\ [](Tope <= TamMemoria) => ImplementaParticionado` |

None of these is inductive alone. The invariant is `IInv == ControlInv /\ DatosInv`.
`ControlInv` relates requests to the list: a process is in `lista_de_procesos` exactly
while its request says so, pids in the list are increasing (the kernel asks in
order), and a finalization that has removed something has removed its own process.
This is what makes `>=` in `eliminar_proceso_de_la_lista` find the right one.
`DatosInv` says that holes, regions in use and rests in transit are non-empty,
disjoint and together cover the memory; each is needed for the others: a merge keeps
disjointness only because the freed region is disjoint from every hole, and keeps
coverage only because it takes the victim's region, which is `ControlInv`'s part.

A release finds at most one hole on each side, since two that end at the same address
would overlap; what it adds therefore touches nothing. With one request at a time this
says that no two holes ever touch (`SerieInv`, with the rest of a creation in transit
counted as a hole). A refusal is then justified: a run of addresses without an owner
lies in one hole, or the hole that contains its least address that leaves it would
touch the next one. The partitions need a witness: `ParticionesIntactas` compares with
sums, and the invariant says that there is a function from 1 .. n to blocks, each
of its configured size and beginning where the one before ends, whose range is what the
memory has.

### Admission

`NewSiempreEnOrden` (`NewEnOrden`), `SiempreSeConsultaAlPrimero` (`SeConsultaAlPrimero`) and
`ElKernelPideComoDebe` (`Spec => ImplementaMemoria`), for any number of processes. Pids
are created, asked for and removed in order, so one number, `Primero` (the next pid
less the length of NEW), divides the processes: those before it were admitted, those
after it were not asked for, and the scheduler, if it is busy, is with that one. The
token needs a second fact: whenever the first of NEW was not asked for there is a
token, or a thread about to post one, or a process in the system whose end will. With
these the steps of the kernel are those of `Memoria` (its handlers are already shared),
so its theorems speak of the composed system.

`FichasDeMasSoloPorFinales` (`FichasDeMasPorFinales`) counts: `CuentaInv` adds to the tokens
one for a creation or an end that has not posted yet and one for a scheduler that is with
a process, and bounds the sum by the length of NEW plus the processes that ended. Each
action moves both sides together; the property alone is not inductive, since a post
would break it. `NoCaeAntesDeUnFinal` (`Spec => [](caida => Terminados # {})`) follows:
with nothing ended a token finds a process (`CuentaInv`), and the log after an
admission finds its first thread (`ActivosInv`: what the memory has created is in the
system until it ends). Creations and refusals alone never kill the kernel.

### Filesystem

`TipoCorrecto`, `ArchivoIntactoSiempre`, `DumpVeraz`, `CortaSoloPorCarrera`, `RefinaAlmacen`
(`TypeOK`, `ArchivoIntacto`, `DumpDiceLaVerdad`, `ListaCortaSoloPorCarrera`,
`ImplementaAlmacen`), for any number of dumps, blocks and restarts. The invariant says
who holds the file's mutex, that the bits of a request are those of its list, and how
much of its list is written at each step. The hard part is a thread whose list came out
short, which writes pointers in a block that is not its own before it ends the
filesystem: `CortaDe` says that its list is a longer or equal beginning of the free
blocks, that whoever took its first block took the same ones in the same order, and
that what it writes there is therefore what is already there. The counts
(`Cardinality` of a request's bits) come from the list being without repetitions.

### CPU and turns

`UnaRespuestaPorDespacho == Spec => []UnMensajePorTurno`: the lengths alone are not
inductive; the invariant `Turno` says where the turn is (nowhere, in the dispatch
socket, in the CPU, in the answer) and what each socket then holds. Interrupts, timers
and the IO device do not touch it. It needs no type of the programs' data, so a wild
write or a wrong value of a register cannot break it.

`TiposSiempre` (`TypeOK`) needs in addition that each thread is in one place
(`EnUnLugar`: Ready, the IO device, the scheduler's hands or ended) and that whoever may
run again has an instruction left (`EnOrden`). `RefinaMaquina == Spec /\ []Sano =>
ImplementaMaquina` maps each step of a thread in the CPU to a step of a thread that is
alone on its machine: an access is the bytes of the process's own partition, which
`ParticionesAjenas` keeps apart (what `Exclusion` proves of the allocator), and no
process that failed runs again (`NoRevive`).

`SanoPorLosProgramas` (`Spec => []Sano`) and `RefinaMaquinaSana` (`Spec =>
ImplementaMaquina`) put in the place of `[]Sano` a condition on the constants,
`Alcance(A)`: a set of contexts for each thread, closed under its own instructions, where a
read may find any value, and in which every access fits in its process or faults in a
way that harms nobody. It speaks of one thread at a time; the theorem is that turns,
interrupts, timers and the accesses of the others add nothing to it. The invariant is
`Alcanzados(A)`: the registers of the CPU, in a turn, and the context in memory of
whoever may run again, are in `A`. That the CPU writes the context before it answers,
and the memory keeps it until the next dispatch, is where the interleavings come in.

### Scheduler and waits

`PlanificadorProofs` makes no hypothesis on the system calls. `TiposSiempre` (`TypeOK`)
needs where the scheduler is to be consistent with the process it works for (`Control`),
the posts of `semHiloEnExit` to be those of the list (`Salida`) and the number of threads of
a process to be bounded by its tids (`Listas`). `FichasAlcanzanSiempre` follows from one
number, tokens less ready threads: each action leaves it as it was, except
`eliminar_hilo_en_exit_de_colas_bloked_y_ready`, which only lets it grow.
`FichasExactasSinBajas` adds that without those calls nobody reaches that function.

`CaeSoloAlDespacharSinBajas` (`CaeSoloAlDespachar`) and `NoCaeSinMutexes` (`Spec =>
[]~caida`) end `EsperasProofs`. Each place where the model lets something die (an empty
Ready behind a token, a join or a dump whose thread is not in Block, a control block
freed twice, a dispatch of a thread that the memory has forgotten) is denied by a part
of the invariant, `SInv`: the tokens are exact, no process is freed, and whoever has the
address of a thread in order to wake it up (`Avisable`: a dump, the IO device, the thread it
joined) has that of a living one (`Esperados`). The last holds because a thread that is
waited for does not run, and only the one that runs can end; `JInv`, below, says that it is
then in Block. What is left is the dispatch, and without mutexes nobody is put back in
Ready after its end and no call finishes its caller.

`EsperasProofs` proves `SeLiberaUnaVez`, `UnSoloLugar`, `ListoSinMotivo`, `MutexCoherente`,
`PunteroDeJoinVigente`, `BloqueadoDeMasSoloPorHerencia` and `ImplementaCerrojos`, under
`SinMezcla`. They rest on one invariant, `JInv`, since each wait may be ended by the
others' actors:

* `Lugares`: a live thread is in the queue of its state, once, in no other, and when
  it is not blocked it waits for nothing. This gives `UnSoloLugar` and `ListoSinMotivo`.
* `Joins`: a thread that has not gone through its joins points to one that waits for it,
  and no other points to the same. It covers the step in which the thread is no longer
  in memory and has not woken its waiter yet, which `PunteroDeJoinVigente` leaves out.
* `Colas`: owner and waiters of a mutex are alive or being finished, a free mutex has
  no waiters, a waiter is there once and its own list agrees. This gives
  `MutexCoherente` and the refinement.
* `Creados`, `Muertos`, `EnLista`: nobody has the address of a thread that was not
  created; the memory forgets a thread before its end; a process has each thread once.
* `Zombis`: a thread that finished by itself stays in the list of its process until it
  is reaped. If anything could put it in Ready meanwhile, a cancel or the process's end
  would finish it again: nothing points to it any more. `SeLiberaUnaVez` rests on this.
* `Escasez`: what `SinMezcla` buys. Without IO, `hilosEnBlock` holds a blocked thread once
  and nobody else, so the search for the thread that finishes (line 220) finds nothing;
  without locks there is nothing to inherit; without cancels and process ends (then
  `Zombis` is not needed) a revived thread is only chosen to run, and the memory, which has
  forgotten it, ends.

Each action has a lemma that says what it leaves (`...Hecho`), and each part of the
invariant is proved from those facts and not from the definitions of the actions. A
step about one thread leaves the places of the others (`NadaDe`).

### Only model-checked

Liveness under fairness is beyond the prover: `TodoPedidoTermina`, `TodoPedidoResponde`,
`TodoProgramaTermina`, `TodoExitSeLibera` and `TodaIOTermina` stay with TLC, as do the three
comments that are violated. `Alcance(MCAlcance)` is a computation over the programs of
`turnos`, which TLC makes. A theorem of a module is not at hand through an `INSTANCE`, so that
`Memoria`'s theorems hold of `Admision` is read off `ElKernelPideComoDebe`, as said above,
and is not a theorem of its own. Where IO, mutexes and the end of another thread are
used together nothing is proved beyond types and tokens: five of the seven properties of
`JInv` are false there.

## Not modelled

The utilities (pure input and output), the reading of a program's file
(`crear_hilo`: a last line without an end of line loses its last character unless it
is an exit), instructions and registers that the CPU does not know (the program
counter stays where it was, for ever), the argument of `THREAD_CANCEL` (the CPU sends
the low half of a pointer, `mainCPU.c` 737), and the name of a dump's file (it has no
date: two dumps of a thread at the same time of two days share a file). In
`Planificador`: data races inside a list (lines 873 and 892 and `pcbYtcb.c` 73 touch lists
without their mutex), the reuse of freed blocks, a wrong CPU message (`default` of
`ejecutar_hilo`), and the details of a failed dump, whose thread competes with the
scheduler for the dispatch socket. In `Archivos`: a `BLOCK_COUNT` that is not a multiple
of eight (the bitmap then has bits of no block; the assumption `BitmapExacto`), a power
failure (the page cache is taken to survive).

## Plan

1. `Memoria`, `Particionado`, proofs of safety (done).
2. `Planificador`, `Cerrojos` (done); `Admision`, composed with `Memoria` (done).
3. `Archivos`, `Almacen`: the filesystem and the dump (done).
4. `Instrucciones`, `Cpu`, `Turnos`, `Maquina`: the CPU, its turns, the timer and the
   latch (done).
5. Proofs: every invariant and action property of the runs that hold, the five
   refinements, and, beyond the runs, the programs for which the machine is sound and the
   system calls for which the kernel does not die (done).
6. Left: the hazards without a property in `PROJECT.json` that a model can reach, first
   `Despacho`: the two readers of the dispatch socket after a failed dump.
