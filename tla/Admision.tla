------------------------------ MODULE Admision ------------------------------
(***************************************************************************)
(* From NEW to READY: the kernel's long term scheduler, the system calls   *)
(* that start and finish processes (kernel/src/mainkernel.c), and the      *)
(* memory they ask for room (module Memoria, whose handlers run here).     *)
(*                                                                         *)
(* Two threads of the kernel share procesosEnNew and semProcesoEnNew: the  *)
(* long term scheduler (variable lp) and the one that executes the system  *)
(* calls (variable cp).  Module Memoria supposes that creations come one   *)
(* at a time, in pid order; here it is the kernel's code that asks, and    *)
(* ImplementaMemoria says that it does so.                                 *)
(***************************************************************************)
EXTENDS Integers, FiniteSets, SequencesExt

CONSTANTS CantProcesos, Tamanios, TamMemoria, Esquema, Algoritmo, Particiones,
          MaxEnVuelo   \* as in Memoria

\* Fixed partitions are made before the memory accepts connections; with
\* dynamic ones there is nothing to wait for.
ASSUME SoloDinamicas == Esquema = "DINAMICAS"
ASSUME CantProcesosNat == CantProcesos \in Nat
ASSUME TamaniosPositivos == Tamanios \subseteq Nat \ {0}
ASSUME TamMemoriaPositivo == TamMemoria \in Nat \ {0}
ASSUME AlgoritmoConocido == Algoritmo \in {"FIRST", "BEST", "WORST"}

VARIABLES
    huecos_libres, lista_de_procesos, inicio_de_particion, particion,
    estado, region, resto, victima, tam,      \* as in Memoria
    siguientePID,
    procesosEnNew,     \* queue of pids
    semProcesoEnNew,
    lp,                \* the long term scheduler, and the process it is with
    cp,                \* the thread of the system calls
    enSistema,         \* processes with threads that can run
    caida              \* the kernel died of a NULL or freed pointer

varsMemoria == <<huecos_libres, lista_de_procesos, inicio_de_particion, particion,
                 estado, region, resto, victima, tam>>
varsNew == <<siguientePID, procesosEnNew, semProcesoEnNew>>
vars == <<varsMemoria, varsNew, lp, cp, enSistema, caida>>

Mem == INSTANCE Memoria

Pids == Mem!Pids
NULO == -1

Init ==
    /\ Mem!Init
    /\ siguientePID = 0 /\ procesosEnNew = <<>> /\ semProcesoEnNew = 0
    /\ lp = [pc |-> "esperando", proceso |-> NULO]
    /\ cp = "libre"
    /\ enSistema = {}
    /\ caida = FALSE
-----------------------------------------------------------------------------
(* The thread of the system calls (main, for the first process).           *)

\* The pid that crear_pcb gives.
obtener_siguiente_pid == siguientePID' = siguientePID + 1

\* iniciar_proceso, as far as the queue.  Only a thread that runs can call it.
EncolarEnNew ==
    /\ cp = "libre" /\ ~caida
    /\ siguientePID < CantProcesos
    /\ siguientePID = 0 \/ enSistema # {}
    /\ obtener_siguiente_pid
    /\ procesosEnNew' = Append(procesosEnNew, siguientePID)
    /\ cp' = "iniciado"
    /\ UNCHANGED <<varsMemoria, semProcesoEnNew, lp, enSistema, caida>>

\* Mutant of AvisarNew: no sem_post.
AvisarNewSinPost ==
    /\ cp = "iniciado" /\ ~caida
    /\ cp' = "libre"
    /\ UNCHANGED <<varsMemoria, varsNew, lp, enSistema, caida>>

AvisarNew ==
    /\ cp = "iniciado" /\ ~caida
    /\ semProcesoEnNew' = semProcesoEnNew + 1
    /\ cp' = "libre"
    /\ UNCHANGED <<varsMemoria, siguientePID, procesosEnNew, lp, enSistema, caida>>

\* finalizar_proceso: the memory is told, and its answer is not waited for.
NotificarFinalizacion(p) ==
    /\ cp = "libre" /\ ~caida
    /\ p \in enSistema
    /\ Cardinality(Mem!EnVuelo) < MaxEnVuelo
    /\ estado' = [estado EXCEPT ![p] = "finPedido"]
    /\ enSistema' = enSistema \ {p}
    /\ cp' = "finalizado"
    /\ UNCHANGED <<huecos_libres, lista_de_procesos, inicio_de_particion, particion,
                   region, resto, victima, tam, varsNew, lp, caida>>

\* Mutant of Reintentar: a post for each process in NEW.
ReintentarTodos ==
    /\ cp = "finalizado" /\ ~caida
    /\ semProcesoEnNew' = semProcesoEnNew + Len(procesosEnNew)
    /\ cp' = "libre"
    /\ UNCHANGED <<varsMemoria, siguientePID, procesosEnNew, lp, enSistema, caida>>

\* Its end: if there are processes in NEW, the first one is tried again.
Reintentar ==
    /\ cp = "finalizado" /\ ~caida
    /\ semProcesoEnNew' = IF procesosEnNew = <<>> THEN semProcesoEnNew
                                                  ELSE semProcesoEnNew + 1
    /\ cp' = "libre"
    /\ UNCHANGED <<varsMemoria, siguientePID, procesosEnNew, lp, enSistema, caida>>
-----------------------------------------------------------------------------
(* planificador_largo_plazo                                                *)

\* Mutant of Elegido: the last of the queue.
ElegidoUltimo == Last(procesosEnNew)

Elegido == Head(procesosEnNew)

\* list_get of an empty list is NULL, and the request reads its pid.
TomarFicha ==
    /\ lp.pc = "esperando" /\ ~caida
    /\ semProcesoEnNew > 0
    /\ semProcesoEnNew' = semProcesoEnNew - 1
    /\ \/ /\ procesosEnNew = <<>>
          /\ caida' = TRUE
          /\ UNCHANGED <<estado, lp>>
       \/ /\ procesosEnNew # <<>>
          /\ Cardinality(Mem!EnVuelo) < MaxEnVuelo
          /\ estado' = [estado EXCEPT ![Elegido] = "pedido"]
          /\ lp' = [pc |-> "consultando", proceso |-> Elegido]
          /\ UNCHANGED caida
    /\ UNCHANGED <<huecos_libres, lista_de_procesos, inicio_de_particion, particion,
                   region, resto, victima, tam, siguientePID, procesosEnNew, cp, enSistema>>

\* The answer of the memory.  From here on the first thread can run, and finish.
LeerRespuesta ==
    /\ lp.pc = "consultando" /\ ~caida
    /\ \/ /\ estado[lp.proceso] = "rechazado"
          /\ lp' = [pc |-> "esperando", proceso |-> NULO]
          /\ UNCHANGED enSistema
       \/ /\ estado[lp.proceso] = "activo"
          /\ lp' = [lp EXCEPT !.pc = "admitido"]
          /\ enSistema' = enSistema \cup {lp.proceso}
    /\ UNCHANGED <<varsMemoria, varsNew, cp, caida>>

\* Mutant of Quitar: the process stays in the queue.
QuitarNada == procesosEnNew

Quitar == Tail(procesosEnNew)

\* The log reads the process through its first thread; if it finished in the
\* meantime both may have been freed.
QuitarDeNew ==
    /\ lp.pc = "admitido" /\ ~caida
    /\ procesosEnNew' = Quitar
    /\ lp' = [pc |-> "esperando", proceso |-> NULO]
    /\ caida' \in {FALSE, lp.proceso \notin enSistema}
    /\ UNCHANGED <<varsMemoria, siguientePID, semProcesoEnNew, cp, enSistema>>
-----------------------------------------------------------------------------
LargoPlazo == TomarFicha \/ LeerRespuesta \/ QuitarDeNew
SystemCalls ==
    EncolarEnNew \/ AvisarNew \/ Reintentar \/ \E p \in Pids : NotificarFinalizacion(p)

\* A handler of the memory goes on.
Atender ==
    /\ \E p \in Pids : Mem!Manejador(p)
    /\ UNCHANGED <<varsNew, lp, cp, enSistema, caida>>

Next == LargoPlazo \/ SystemCalls \/ Atender

Spec == Init /\ [][Next]_vars
-----------------------------------------------------------------------------
(* Properties                                                              *)

\* What the kernel asks of the memory, and when, is what module Memoria
\* supposes: one creation at a time, in pid order, each process admitted and
\* finished once, although two threads of the kernel send the requests.
ImplementaMemoria == Mem!Spec

SinAdmitir == {p \in 0 .. siguientePID - 1 :
                  \/ estado[p] \in {"nuevo", "rechazado"}
                  \/ lp.proceso = p}

\* NEW holds the processes that were created and not admitted, in the order
\* of their creation, once each: list_remove(procesosEnNew, 0) takes the
\* process the long term scheduler has admitted, and not another one that was
\* queued or had become the first while it asked.
NewEnOrden ==
    /\ ToSet(procesosEnNew) = SinAdmitir
    /\ \A i, j \in DOMAIN procesosEnNew : i < j => procesosEnNew[i] < procesosEnNew[j]

\* Nothing is left that could post semProcesoEnNew.
Detenido ==
    /\ siguientePID > 0 /\ enSistema = {}
    /\ cp = "libre" /\ lp.pc = "esperando" /\ semProcesoEnNew = 0
    /\ Mem!EnVuelo = {} /\ ~caida

\* The system does not stop with a first process in NEW that nobody asked the
\* memory for (the posts of creations and finalizations are enough for that).
SeConsultaAlPrimero ==
    Detenido /\ procesosEnNew # <<>> => estado[Head(procesosEnNew)] = "rechazado"

\* Every token of semProcesoEnNew beyond one for each process in NEW comes from
\* a process that ended, and it brings only one.  So the NULL head that kills
\* the kernel (list_get of an empty procesosEnNew) takes an ended process:
\* creations, answers and refusals, however they interleave, never cause it.
Terminados == {p \in Pids : estado[p] \in {"finPedido", "quitado", "terminado"}}
FichasDeMasPorFinales ==
    semProcesoEnNew <= Len(procesosEnNew) + Cardinality(Terminados)

\* finalizar_proceso (mainkernel.c:136) tries a process of NEW when one ends,
\* and takes it that the memory has answered by then (pcbYtcb.c:217).  So the
\* system does not stop with processes in NEW and all the memory free.
NadieQuedaVarado == Detenido => procesosEnNew = <<>>
=============================================================================
