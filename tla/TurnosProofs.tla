---------------------------- MODULE TurnosProofs ----------------------------
(***************************************************************************)
(* Theorems about Turnos, for every set of programs, partitions and number *)
(* of timers.                                                              *)
(***************************************************************************)
EXTENDS Turnos, TLAPS

\* Where the turn is: nowhere, in the dispatch, in the CPU or in the answer.
SinTurno == kernel # "esperar" /\ aCpu = <<>> /\ aKernel = <<>> /\ ~EnCpu
EnDespacho == kernel = "esperar" /\ aCpu = <<hiloEnExec>> /\ aKernel = <<>> /\ ~EnCpu
EnEjecucion == kernel = "esperar" /\ aCpu = <<>> /\ aKernel = <<>> /\ EnCpu /\ hilo = hiloEnExec
EnRespuesta ==
    /\ kernel = "esperar" /\ aCpu = <<>> /\ ~EnCpu
    /\ \E op : aKernel = <<[op |-> op, hilo |-> hiloEnExec]>>

\* The inductive invariant: UnMensajePorTurno with each message in its place.
Turno == SinTurno \/ EnDespacho \/ EnEjecucion \/ EnRespuesta

varsTurno == <<kernel, aCpu, aKernel, etapa, hilo, hiloEnExec>>

\* A socket that is empty, or has one message.
LEMMA UnElemento ==
    ASSUME NEW x
    PROVE  /\ Append(<<>>, x) = <<x>> /\ Head(<<x>>) = x /\ Tail(<<x>>) = <<>>
           /\ Len(<<x>>) = 1 /\ <<x>> # <<>>
  <1> <<x>> \in Seq({x}) /\ <<>> \in Seq({x}) OBVIOUS
  <1> QED OBVIOUS

LEMMA TurnoImplica == Turno => UnMensajePorTurno
  <1> SUFFICES ASSUME Turno PROVE UnMensajePorTurno OBVIOUS
  <1>1. CASE SinTurno
    BY <1>1 DEF SinTurno, UnMensajePorTurno
  <1>2. CASE EnDespacho
    BY <1>2, UnElemento DEF EnDespacho, UnMensajePorTurno
  <1>3. CASE EnEjecucion
    BY <1>3 DEF EnEjecucion, UnMensajePorTurno
  <1>4. CASE EnRespuesta
    <2> PICK op : aKernel = <<[op |-> op, hilo |-> hiloEnExec]>>
      BY <1>4 DEF EnRespuesta
    <2> QED BY <1>4, UnElemento DEF EnRespuesta, UnMensajePorTurno
  <1> QED BY <1>1, <1>2, <1>3, <1>4 DEF Turno

\* The CPU takes a dispatch.
LEMMA ElDespachoLlega == Turno /\ RecibirDespacho /\ UNCHANGED <<kernel, hiloEnExec>> => Turno'
  <1> SUFFICES ASSUME Turno, RecibirDespacho, UNCHANGED <<kernel, hiloEnExec>> PROVE Turno'
    OBVIOUS
  <1>1. EnDespacho
    BY DEF Turno, SinTurno, EnDespacho, EnEjecucion, EnRespuesta, RecibirDespacho
  <1> QED BY <1>1, UnElemento DEF EnDespacho, EnEjecucion, Turno, EnCpu, RecibirDespacho

\* The CPU goes on with its instructions.
LEMMA LaCpuSigue ==
    ASSUME Turno, EnCpu, EnCpu', UNCHANGED <<kernel, aCpu, aKernel, hilo, hiloEnExec>>
    PROVE  Turno'
  BY DEF Turno, SinTurno, EnDespacho, EnEjecucion, EnRespuesta

\* The CPU answers, and is not in the turn any more.
LEMMA LaCpuResponde ==
    ASSUME Turno, EnCpu, ~EnCpu', NEW op, aKernel' = Append(aKernel, Mensaje(op)),
           UNCHANGED <<kernel, aCpu, hiloEnExec>>
    PROVE  Turno'
  <1>1. EnEjecucion
    BY DEF Turno, SinTurno, EnDespacho, EnEjecucion, EnRespuesta
  <1>2. aKernel' = <<[op |-> op, hilo |-> hiloEnExec']>>
    BY <1>1, UnElemento DEF EnEjecucion, Mensaje
  <1> QED BY <1>1, <1>2 DEF EnEjecucion, EnRespuesta, Turno

\* The CPU does something out of a turn.
LEMMA FueraDeTurno ==
    ASSUME Turno, ~EnCpu, ~EnCpu', UNCHANGED <<kernel, aCpu, aKernel, hilo, hiloEnExec>>
    PROVE  Turno'
  BY DEF Turno, SinTurno, EnDespacho, EnEjecucion, EnRespuesta

LEMMA PasoDeLaCpu == Turno /\ DeLaCpu => Turno'
  <1> SUFFICES ASSUME Turno, NextCpu, UNCHANGED <<kernel, hiloEnExec>> PROVE Turno'
    BY DEF DeLaCpu, varsKernel
  <1>1. CASE RecibirDespacho
    BY <1>1, ElDespachoLlega
  <1>2. CASE EjecutarRegistros \/ ejecutar_read_mem \/ ejecutar_write_mem
    BY <1>2, LaCpuSigue DEF EjecutarRegistros, ejecutar_read_mem, ejecutar_write_mem,
       EnCiclo, EnCpu, varsMensajes
  <1>3. CASE SegmentationFault
    BY <1>3, LaCpuResponde DEF SegmentationFault, EnCiclo, EnCpu
  <1>4. CASE EjecutarSyscall
    BY <1>4, LaCpuResponde DEF EjecutarSyscall, EnCiclo, EnCpu
  <1>5. CASE AvisarDesalojo
    BY <1>5, LaCpuResponde DEF AvisarDesalojo, EnCpu
  <1>6. CASE SinInterrupcion \/ ConInterrupcion
    BY <1>6, LaCpuSigue DEF SinInterrupcion, ConInterrupcion, EnCpu, varsMensajes
  <1>7. CASE EscribirEnMenosUno \/ LeerDeMenosUno \/ LimpiarInterrupcion
    BY <1>7, FueraDeTurno DEF EscribirEnMenosUno, LeerDeMenosUno, LimpiarInterrupcion,
       EnCpu, varsMensajes
  <1> QED BY <1>1, <1>2, <1>3, <1>4, <1>5, <1>6, <1>7 DEF NextCpu

\* The scheduler dispatches a thread.
LEMMA ElKernelDespacha ==
    ASSUME Turno, kernel = "elegir", NEW h, Ejecutar(h)
    PROVE  Turno'
  <1>1. SinTurno
    BY DEF Turno, SinTurno, EnDespacho, EnEjecucion, EnRespuesta
  <1>2. aCpu' = <<hiloEnExec'>> /\ kernel' = "esperar" /\ UNCHANGED <<aKernel, etapa>>
    BY <1>1, UnElemento DEF SinTurno, Ejecutar, varsEjecucion
  <1> QED BY <1>1, <1>2 DEF SinTurno, EnDespacho, Turno, EnCpu

\* The scheduler takes an answer.
LEMMA ElKernelRecibe ==
    ASSUME Turno, NEW ops, Recibe(ops), kernel' # "esperar"
    PROVE  Turno'
  <1>1. EnRespuesta
    BY DEF Turno, SinTurno, EnDespacho, EnEjecucion, EnRespuesta, Recibe
  <1>2. aKernel' = <<>> /\ UNCHANGED <<aCpu, etapa>>
    BY <1>1, UnElemento DEF EnRespuesta, Recibe, varsEjecucion
  <1> QED BY <1>1, <1>2 DEF EnRespuesta, SinTurno, Turno, EnCpu

LEMMA PasoDelPlanificador == Turno /\ Planificar => Turno'
  <1> SUFFICES ASSUME Turno, Planificar PROVE Turno' OBVIOUS
  <1>1. CASE ElegirYEjecutar
    BY <1>1, ElKernelDespacha DEF ElegirYEjecutar
  <1>2. CASE SeguirEjecutando
    BY <1>2, ElKernelDespacha DEF SeguirEjecutando
  <1>3. CASE RecibirContinua
    BY <1>3, ElKernelRecibe DEF RecibirContinua
  <1>4. CASE RecibirIO
    BY <1>4, ElKernelRecibe DEF RecibirIO
  <1>5. CASE RecibirSalida
    BY <1>5, ElKernelRecibe DEF RecibirSalida
  <1>6. CASE RecibirFallo
    BY <1>6, ElKernelRecibe DEF RecibirFallo
  <1>7. CASE RecibirFinDeQuantum
    BY <1>7, ElKernelRecibe DEF RecibirFinDeQuantum
  <1> QED BY <1>1, <1>2, <1>3, <1>4, <1>5, <1>6, <1>7 DEF Planificar

\* The other threads do not touch the turn.
LEMMA LosDemas == Turno /\ UNCHANGED varsTurno => Turno'
  BY DEF Turno, SinTurno, EnDespacho, EnEjecucion, EnRespuesta, EnCpu, varsTurno

LEMMA PasoDeLosDemas ==
    ASSUME \/ Interrumpir \/ AtenderIO \/ PostearIO
           \/ \E k \in Relojes : CorreReloj(k)
           \/ UNCHANGED vars
    PROVE  UNCHANGED varsTurno
  <1>1. CASE Interrumpir
    BY <1>1 DEF Interrumpir, LlegaInterrupcion, varsKernel, varsEjecucion, varsTurno
  <1>2. CASE AtenderIO
    BY <1>2 DEF AtenderIO, varsCpu, varsMensajes, varsEjecucion, varsTurno
  <1>3. CASE PostearIO
    BY <1>3 DEF PostearIO, varsCpu, varsMensajes, varsEjecucion, varsTurno
  <1>4. ASSUME NEW k \in Relojes, CorreReloj(k)
        PROVE  UNCHANGED varsTurno
    BY <1>4 DEF CorreReloj, RelojLeeTid, RelojLeePid, RelojVence, RelojLeeQuien,
       RelojInterrumpe, Reloj, varsEjecucion, varsTurno
  <1>5. CASE UNCHANGED vars
    BY <1>5 DEF vars, varsCpu, varsMensajes, varsEjecucion, varsKernel, varsTurno
  <1> QED BY <1>1, <1>2, <1>3, <1>4, <1>5

LEMMA SiempreTurno == Spec => []Turno
  <1>1. Init => Turno
    BY DEF Init, InitCpu, Turno, SinTurno, EnCpu
  <1>2. Turno /\ [Next]_vars => Turno'
    <2> SUFFICES ASSUME Turno, [Next]_vars PROVE Turno' OBVIOUS
    <2>1. CASE DeLaCpu
      BY <2>1, PasoDeLaCpu
    <2>2. CASE Planificar
      BY <2>2, PasoDelPlanificador
    <2>3. CASE \/ Interrumpir \/ AtenderIO \/ PostearIO
               \/ \E k \in Relojes : CorreReloj(k)
               \/ UNCHANGED vars
      BY <2>3, PasoDeLosDemas, LosDemas
    <2> QED BY <2>1, <2>2, <2>3 DEF Next
  <1> QED BY <1>1, <1>2, PTL DEF Spec

\* A turn of the CPU is in one place, whatever the programs do and whenever
\* the timers, the interrupts and the devices run: an answer is never taken
\* for that of another thread (ejecutar_hilo, atender_kernel).
THEOREM UnaRespuestaPorDespacho == Spec => []UnMensajePorTurno
  BY SiempreTurno, TurnoImplica, PTL
=============================================================================
