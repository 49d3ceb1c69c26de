-------------------------- MODULE PlanificadorProofs --------------------------
(***************************************************************************)
(* Theorems about Planificador, for every number of processes, threads,    *)
(* mutexes and priorities, every scheduling algorithm and every set of     *)
(* system calls: the types of its variables, and that no ready thread is   *)
(* left without a token.                                                   *)
(***************************************************************************)
EXTENDS Planificador, SequenceTheorems, FiniteSetTheorems, WellFoundedInduction, TLAPS

(* Sequences a thread is taken off.                                        *)

\* A set of naturals that is not empty has a least element.
MenorQue == {ab \in Nat \X Nat : ab[1] < ab[2]}

LEMMA Minimo ==
    ASSUME NEW T, T \subseteq Nat, T # {}
    PROVE  \E x \in T : \A y \in T : x <= y
<1>1. IsWellFoundedOn(MenorQue, Nat)
  BY NatLessThanWellFounded DEF OpToRel, MenorQue
<1>2. PICK x \in T : \A y \in T : ~ (<<y, x>> \in MenorQue)
  BY <1>1, WFMin, Zenon
<1>3. ASSUME NEW y \in T PROVE x <= y
  <2>1. x \in Nat /\ y \in Nat /\ <<y, x>> \in Nat \X Nat
    OBVIOUS
  <2>2. ~ (y < x)
    BY <1>2, <2>1 DEF MenorQue
  <2> QED BY <2>1, <2>2
<1> QED BY <1>2, <1>3

\* list_remove: the elements after the one removed move one place.
LEMMA QuitarEn ==
    ASSUME NEW S, NEW s \in Seq(S), NEW i \in 1 .. Len(s)
    PROVE  /\ RemoveAt(s, i) \in Seq(S)
           /\ Len(RemoveAt(s, i)) = Len(s) - 1
           /\ \A j \in 1 .. Len(s) - 1 :
                 RemoveAt(s, i)[j] = IF j < i THEN s[j] ELSE s[j + 1]
<1> DEFINE a == SubSeq(s, 1, i - 1)
           b == SubSeq(s, i + 1, Len(s))
<1>0. Len(s) \in Nat /\ i \in Nat /\ i - 1 \in Int /\ i + 1 \in Int /\ Len(s) \in Int
  OBVIOUS
<1>1. \A j \in 1 .. Len(s) : s[j] \in S
  BY ElementOfSeq
<1>2. /\ a \in Seq(S) /\ Len(a) = i - 1
      /\ \A j \in 1 .. i - 1 : a[j] = s[j]
  BY <1>0, <1>1
<1>3. /\ b \in Seq(S) /\ Len(b) = Len(s) - i
      /\ \A j \in 1 .. Len(s) - i : b[j] = s[i + j]
  BY <1>0, <1>1
<1> HIDE DEF a, b
<1>4. /\ a \o b \in Seq(S) /\ Len(a \o b) = Len(s) - 1
      /\ \A j \in 1 .. Len(s) - 1 : (a \o b)[j] = IF j < i THEN a[j] ELSE b[j - (i - 1)]
  <2>1. /\ a \o b \in Seq(S) /\ Len(a \o b) = Len(a) + Len(b)
        /\ \A j \in 1 .. Len(a) + Len(b) :
              (a \o b)[j] = IF j <= Len(a) THEN a[j] ELSE b[j - Len(a)]
    BY <1>2, <1>3, ConcatProperties
  <2>2. Len(a) + Len(b) = Len(s) - 1
    BY <1>0, <1>2, <1>3
  <2>3. \A j \in 1 .. Len(s) - 1 : j <= i - 1 <=> j < i
    BY <1>0
  <2> QED BY <1>2, <2>1, <2>2, <2>3
<1>5. ASSUME NEW j \in 1 .. Len(s) - 1
      PROVE  (a \o b)[j] = IF j < i THEN s[j] ELSE s[j + 1]
  <2>1. CASE j < i
    <3>1. j \in 1 .. i - 1 BY <1>0, <2>1
    <3> QED BY <1>2, <1>4, <2>1, <3>1
  <2>2. CASE ~(j < i)
    <3>1. j - (i - 1) \in 1 .. Len(s) - i /\ i + (j - (i - 1)) = j + 1
      BY <1>0, <2>2
    <3> QED BY <1>3, <1>4, <2>2, <3>1
  <2> QED BY <2>1, <2>2
<1> QED BY <1>4, <1>5 DEF RemoveAt, a, b

\* list_remove_by_condition: the first that is found, if any, is removed.
LEMMA QuitarPrimero ==
    ASSUME NEW S, NEW s \in Seq(S), NEW e
    PROVE  \/ e \notin ToSet(s) /\ RemoveFirst(s, e) = s
           \/ \E i \in 1 .. Len(s) : s[i] = e /\ RemoveFirst(s, e) = RemoveAt(s, i)
<1> DEFINE T == {i \in 1 .. Len(s) : s[i] = e}
<1>1. CASE T = {}
  <2>1. ~ \E i \in 1 .. Len(s) : s[i] = e
    BY <1>1
  <2> QED BY <2>1 DEF RemoveFirst, ToSet
<1>2. CASE T # {}
  <2>0. T \subseteq Nat
    OBVIOUS
  <2>1. PICK x \in T : \A y \in T : x <= y
    BY <1>2, <2>0, Minimo
  <2>2. \A x2 \in T : (\A y \in T : x2 <= y) => x2 = x
    BY <2>1
  <2>3. Min(T) \in T
    BY <2>1 DEF Min
  <2>4. SelectInSeq(s, LAMBDA v : v = e) = Min(T)
    BY <1>2 DEF SelectInSeq
  <2>5. RemoveFirst(s, e) = RemoveAt(s, Min(T))
    BY <1>2, <2>4 DEF RemoveFirst
  <2> QED BY <2>3, <2>5
<1> QED BY <1>1, <1>2

LEMMA TipoQuitarPrimero ==
    ASSUME NEW S, NEW s \in Seq(S), NEW e
    PROVE  RemoveFirst(s, e) \in Seq(S) /\ Len(RemoveFirst(s, e)) <= Len(s)
<1>1. CASE RemoveFirst(s, e) = s
  BY <1>1
<1>2. ASSUME NEW i \in 1 .. Len(s), RemoveFirst(s, e) = RemoveAt(s, i)
      PROVE  RemoveFirst(s, e) \in Seq(S) /\ Len(RemoveFirst(s, e)) <= Len(s)
  <2>1. RemoveAt(s, i) \in Seq(S) /\ Len(RemoveAt(s, i)) = Len(s) - 1
    BY QuitarEn
  <2> QED BY <1>2, <2>1
<1> QED BY <1>1, <1>2, QuitarPrimero
-----------------------------------------------------------------------------
(* What the assignments to a control block change, and what they leave.    *)

\* u is t but for the control block of h.
SoloDe(h, t, u) == \A x \in Hilos : x # h => u[x] = t[x]

\* The thread h waits in u for what it waited for in t.
MismaEspera(h, t, u) ==
    /\ u[h].hiloBloqueadoPorJoin = t[h].hiloBloqueadoPorJoin
    /\ u[h].bloqueadoPorJoin = t[h].bloqueadoPorJoin
    /\ u[h].bloqueadoPorIO = t[h].bloqueadoPorIO
    /\ u[h].mutexEnEspera = t[h].mutexEnEspera

LEMMA Transicion ==
    ASSUME TypeOK, NEW h \in Hilos, NEW t \in [Hilos -> Tcbs], NEW listo \in BOOLEAN,
           transicion_a_ready(h, t, listo)
    PROVE  /\ tcb' \in [Hilos -> Tcbs] /\ SoloDe(h, t, tcb') /\ MismaEspera(h, t, tcb')
           /\ tcb'[h].estado = IF listo /\ t[h].estado # "LIBERADO" THEN "READY"
                                                               ELSE t[h].estado
           /\ IF listo THEN /\ hilosEnReady' = Append(hilosEnReady, h)
                            /\ semHiloEnReady' = semHiloEnReady + 1
                       ELSE UNCHANGED <<hilosEnReady, semHiloEnReady>>
           /\ hilosEnReady' \in Seq(Hilos) /\ semHiloEnReady' \in Nat
           /\ Len(hilosEnReady') - semHiloEnReady' = Len(hilosEnReady) - semHiloEnReady
<1>1. hilosEnReady \in Seq(Hilos) /\ semHiloEnReady \in Nat
  BY DEF TypeOK
<1>2. CASE listo
  <2> DEFINE e == IF t[h].estado = "LIBERADO" THEN t[h].estado ELSE "READY"
  <2>1. e \in Estados
    BY DEF Tcbs, Estados
  <2>2. tcb' = [t EXCEPT ![h].estado = e]
    BY <1>2 DEF transicion_a_ready, Tcbs
  <2> HIDE DEF e
  <2>3. /\ tcb' \in [Hilos -> Tcbs] /\ SoloDe(h, t, tcb') /\ MismaEspera(h, t, tcb')
        /\ tcb'[h].estado = e
    BY <2>1, <2>2 DEF Tcbs, SoloDe, MismaEspera
  <2>4. /\ hilosEnReady' = Append(hilosEnReady, h)
        /\ semHiloEnReady' = semHiloEnReady + 1
    BY <1>2 DEF transicion_a_ready, Encolar
  <2>5. e = IF listo /\ t[h].estado # "LIBERADO" THEN "READY" ELSE t[h].estado
    BY <1>2 DEF e
  <2> QED BY <1>1, <1>2, <2>3, <2>4, <2>5
<1>3. CASE ~listo
  <2>1. tcb' = t /\ UNCHANGED <<hilosEnReady, semHiloEnReady>>
    BY <1>3 DEF transicion_a_ready
  <2> QED BY <1>1, <1>3, <2>1 DEF SoloDe, MismaEspera
<1> QED BY <1>2, <1>3

\* A thread starts with nothing to wait for.
LEMMA CrearTcbHecho ==
    ASSUME TypeOK, NEW h \in Hilos, NEW prio \in Prioridades, crear_tcb(h, prio)
    PROVE  /\ tcb' \in [Hilos -> Tcbs] /\ SoloDe(h, tcb, tcb')
           /\ tcb'[h].estado = "READY"
           /\ tcb'[h].hiloBloqueadoPorJoin = NULO
           /\ tcb'[h].bloqueadoPorJoin = FALSE /\ tcb'[h].bloqueadoPorIO = FALSE
           /\ tcb'[h].mutexEnEspera = {}
<1>1. tcb \in [Hilos -> Tcbs] /\ tcb' = [tcb EXCEPT ![h] = TcbNuevo("READY", prio)]
  BY DEF TypeOK, crear_tcb
<1> QED BY <1>1 DEF Tcbs, SoloDe, TcbNuevo, Estados, HiloONulo

LEMMA EjecutarHecho ==
    ASSUME TypeOK, NEW h \in Hilos, ejecutar_hilo(h), Despachable(h)
    PROVE  /\ tcb' \in [Hilos -> Tcbs] /\ SoloDe(h, tcb, tcb')
           /\ MismaEspera(h, tcb, tcb') /\ tcb'[h].estado = "EXECUTE"
           /\ hiloEnExec' = h /\ cp' = [cp EXCEPT !.pc = "ejecutando"]
           /\ UNCHANGED caida
<1>1. /\ tcb \in [Hilos -> Tcbs] /\ tcb' = [tcb EXCEPT ![h].estado = "EXECUTE"]
      /\ hiloEnExec' = h /\ cp' = [cp EXCEPT !.pc = "ejecutando"] /\ UNCHANGED caida
  BY DEF TypeOK, ejecutar_hilo
<1> QED BY <1>1 DEF Tcbs, SoloDe, MismaEspera, Estados

LEMMA FinalizarHecho ==
    ASSUME TypeOK, NEW h \in Hilos, NEW o \in {"salir", "mutex", "cancelar", "proceso"},
           NEW i \in 0 .. CantHilos, finalizar_hilo(h, o, i)
    PROVE  /\ tcb' \in [Hilos -> Tcbs] /\ SoloDe(h, tcb, tcb')
           /\ MismaEspera(h, tcb, tcb') /\ tcb'[h].estado = "EXIT"
           /\ hilosEnExit' = Append(hilosEnExit, h) /\ UNCHANGED semHiloEnExit
           /\ hilosEnExit' \in Seq(Hilos) /\ Len(hilosEnExit') = Len(hilosEnExit) + 1
           /\ enMemoria' = enMemoria \ {h}
           /\ cp' = [pc |-> "avisando", hilo |-> h, origen |-> o, i |-> i]
           /\ cp' \in Controles
<1>1. tcb \in [Hilos -> Tcbs] /\ tcb' = [tcb EXCEPT ![h].estado = "EXIT"]
  BY DEF TypeOK, finalizar_hilo
<1>2. /\ tcb' \in [Hilos -> Tcbs] /\ SoloDe(h, tcb, tcb')
      /\ MismaEspera(h, tcb, tcb') /\ tcb'[h].estado = "EXIT"
  BY <1>1 DEF Tcbs, SoloDe, MismaEspera, Estados
<1>3. /\ hilosEnExit' = Append(hilosEnExit, h) /\ UNCHANGED semHiloEnExit
      /\ enMemoria' = enMemoria \ {h}
      /\ cp' = [pc |-> "avisando", hilo |-> h, origen |-> o, i |-> i]
  BY DEF finalizar_hilo, notificar_a_memoria_finalizacion_hilo
<1>4. hilosEnExit \in Seq(Hilos)
  BY DEF TypeOK
<1>5. cp' \in Controles
  BY <1>3 DEF Controles, HiloONulo
<1> QED BY <1>2, <1>3, <1>4, <1>5

LEMMA LockTomadoHecho ==
    ASSUME TypeOK, NEW m \in Mutexes, hiloEnExec \in Hilos, LockTomado(m)
    PROVE  /\ tcb' \in [Hilos -> Tcbs] /\ SoloDe(hiloEnExec, tcb, tcb')
           /\ tcb'[hiloEnExec].estado = "BLOCKED"
           /\ tcb'[hiloEnExec].hiloBloqueadoPorJoin = tcb[hiloEnExec].hiloBloqueadoPorJoin
           /\ tcb'[hiloEnExec].bloqueadoPorJoin = tcb[hiloEnExec].bloqueadoPorJoin
           /\ tcb'[hiloEnExec].bloqueadoPorIO = tcb[hiloEnExec].bloqueadoPorIO
           /\ tcb'[hiloEnExec].mutexEnEspera = tcb[hiloEnExec].mutexEnEspera \cup {m[2]}
           /\ mutex' \in [Mutexes -> LosMutex]
           /\ \A n \in Mutexes :
                 /\ mutex'[n].tomadoPor = mutex[n].tomadoPor
                 /\ mutex'[n].hilosBloqueados
                       = IF n = m THEN Append(mutex[n].hilosBloqueados, hiloEnExec)
                                  ELSE mutex[n].hilosBloqueados
<1> DEFINE h == hiloEnExec
<1>1. /\ tcb \in [Hilos -> Tcbs] /\ mutex \in [Mutexes -> LosMutex]
      /\ m[2] \in Recursos
      /\ tcb' = [tcb EXCEPT ![h].mutexEnEspera = @ \cup {m[2]}, ![h].estado = "BLOCKED"]
      /\ mutex' = [mutex EXCEPT ![m].hilosBloqueados = Append(@, h)]
  BY DEF TypeOK, LockTomado, Mutexes
<1> HIDE DEF h
<1>2. /\ tcb' \in [Hilos -> Tcbs] /\ SoloDe(h, tcb, tcb')
      /\ tcb'[h].estado = "BLOCKED"
      /\ tcb'[h].hiloBloqueadoPorJoin = tcb[h].hiloBloqueadoPorJoin
      /\ tcb'[h].bloqueadoPorJoin = tcb[h].bloqueadoPorJoin
      /\ tcb'[h].bloqueadoPorIO = tcb[h].bloqueadoPorIO
      /\ tcb'[h].mutexEnEspera = tcb[h].mutexEnEspera \cup {m[2]}
  <2>1. h \in Hilos BY DEF h
  <2> QED BY ZenonT(30), <1>1, <2>1 DEF Tcbs, SoloDe, Estados
<1>3. /\ mutex' \in [Mutexes -> LosMutex]
      /\ \A n \in Mutexes :
            /\ mutex'[n].tomadoPor = mutex[n].tomadoPor
            /\ mutex'[n].hilosBloqueados
                  = IF n = m THEN Append(mutex[n].hilosBloqueados, h)
                             ELSE mutex[n].hilosBloqueados
  <2> DEFINE q == Append(mutex[m].hilosBloqueados, h)
  <2>1. /\ q \in Seq(Hilos) /\ mutex' = [mutex EXCEPT ![m].hilosBloqueados = q]
        /\ mutex \in [Mutexes -> LosMutex]
    BY <1>1 DEF h, LosMutex
  <2>2. \A n \in Mutexes : n = m => Append(mutex[n].hilosBloqueados, h) = q
    OBVIOUS
  <2> HIDE DEF q
  <2>3. /\ mutex' \in [Mutexes -> LosMutex]
        /\ \A n \in Mutexes :
              /\ mutex'[n].tomadoPor = mutex[n].tomadoPor
              /\ mutex'[n].hilosBloqueados = IF n = m THEN q ELSE mutex[n].hilosBloqueados
    BY <2>1 DEF LosMutex
  <2> QED BY <2>2, <2>3
<1> QED BY <1>2, <1>3 DEF h

LEMMA UnlockHecho ==
    ASSUME TypeOK, NEW m \in Mutexes, UnlockConEspera(m)
    PROVE  \E h \in Hilos, listo \in BOOLEAN :
           /\ mutex[m].hilosBloqueados # <<>>
           /\ h = Head(mutex[m].hilosBloqueados)
           /\ listo => /\ hilosEnBlock[h] > 0
                       /\ tcb[h].mutexEnEspera \ {m[2]} = {}
                       /\ ~tcb[h].bloqueadoPorJoin /\ ~tcb[h].bloqueadoPorIO
           /\ tcb' \in [Hilos -> Tcbs] /\ SoloDe(h, tcb, tcb')
           /\ tcb'[h].estado = IF listo /\ tcb[h].estado # "LIBERADO" THEN "READY"
                                                                 ELSE tcb[h].estado
           /\ tcb'[h].hiloBloqueadoPorJoin = tcb[h].hiloBloqueadoPorJoin
           /\ tcb'[h].bloqueadoPorJoin = tcb[h].bloqueadoPorJoin
           /\ tcb'[h].bloqueadoPorIO = tcb[h].bloqueadoPorIO
           /\ tcb'[h].mutexEnEspera = tcb[h].mutexEnEspera \ {m[2]}
           /\ IF listo THEN /\ hilosEnReady' = Append(hilosEnReady, h)
                            /\ semHiloEnReady' = semHiloEnReady + 1
                            /\ hilosEnBlock' = [hilosEnBlock EXCEPT ![h] = @ - 1]
                       ELSE UNCHANGED varsColas
           /\ hilosEnReady' \in Seq(Hilos) /\ semHiloEnReady' \in Nat
           /\ hilosEnBlock' \in [Hilos -> Nat]
           /\ Len(hilosEnReady') - semHiloEnReady' = Len(hilosEnReady) - semHiloEnReady
           /\ mutex' \in [Mutexes -> LosMutex]
           /\ \A n \in Mutexes :
                 /\ mutex'[n].tomadoPor = IF n = m THEN h ELSE mutex[n].tomadoPor
                 /\ mutex'[n].hilosBloqueados
                       = IF n = m THEN Tail(mutex[n].hilosBloqueados)
                                  ELSE mutex[n].hilosBloqueados
<1> DEFINE h == Head(mutex[m].hilosBloqueados)
           t == [tcb EXCEPT ![h].mutexEnEspera = @ \ {m[2]}]
           listo == /\ hilosEnBlock[h] > 0
                    /\ t[h].mutexEnEspera = {}
                    /\ ~t[h].bloqueadoPorJoin /\ ~t[h].bloqueadoPorIO
<1>1. /\ tcb \in [Hilos -> Tcbs] /\ mutex \in [Mutexes -> LosMutex]
      /\ hilosEnBlock \in [Hilos -> Nat]
      /\ mutex[m].hilosBloqueados # <<>> /\ mutex[m].hilosBloqueados \in Seq(Hilos)
  BY DEF TypeOK, LosMutex, UnlockConEspera
<1>2. /\ mutex' = [mutex EXCEPT ![m].tomadoPor = h, ![m].hilosBloqueados = Tail(@)]
      /\ desbloquear(h, t, listo)
  BY DEF UnlockConEspera
<1>3. h \in Hilos
  BY <1>1
<1> HIDE DEF h
<1>4. /\ t \in [Hilos -> Tcbs] /\ SoloDe(h, tcb, t)
      /\ t[h].estado = tcb[h].estado
      /\ t[h].hiloBloqueadoPorJoin = tcb[h].hiloBloqueadoPorJoin
      /\ t[h].bloqueadoPorJoin = tcb[h].bloqueadoPorJoin
      /\ t[h].bloqueadoPorIO = tcb[h].bloqueadoPorIO
      /\ t[h].mutexEnEspera = tcb[h].mutexEnEspera \ {m[2]}
  BY <1>1, <1>3 DEF Tcbs, SoloDe
<1> HIDE DEF t
<1>5. listo \in BOOLEAN
  OBVIOUS
<1>6. listo => /\ hilosEnBlock[h] > 0
               /\ tcb[h].mutexEnEspera \ {m[2]} = {}
               /\ ~tcb[h].bloqueadoPorJoin /\ ~tcb[h].bloqueadoPorIO
  BY <1>4
<1> HIDE DEF listo
<1>7. /\ tcb' \in [Hilos -> Tcbs] /\ SoloDe(h, t, tcb') /\ MismaEspera(h, t, tcb')
      /\ tcb'[h].estado = IF listo /\ t[h].estado # "LIBERADO" THEN "READY" ELSE t[h].estado
      /\ IF listo THEN /\ hilosEnReady' = Append(hilosEnReady, h)
                       /\ semHiloEnReady' = semHiloEnReady + 1
                  ELSE UNCHANGED <<hilosEnReady, semHiloEnReady>>
      /\ hilosEnReady' \in Seq(Hilos) /\ semHiloEnReady' \in Nat
      /\ Len(hilosEnReady') - semHiloEnReady' = Len(hilosEnReady) - semHiloEnReady
  <2>1. transicion_a_ready(h, t, listo)
    BY <1>2 DEF desbloquear
  <2> QED BY <1>3, <1>4, <1>5, <2>1, Transicion
<1>8. /\ IF listo THEN hilosEnBlock' = [hilosEnBlock EXCEPT ![h] = @ - 1]
                  ELSE hilosEnBlock' = hilosEnBlock
      /\ hilosEnBlock' \in [Hilos -> Nat]
  <2>1. hilosEnBlock' = IF listo THEN [hilosEnBlock EXCEPT ![h] = @ - 1] ELSE hilosEnBlock
    BY <1>2 DEF desbloquear
  <2> QED BY <1>1, <1>3, <1>6, <2>1
<1>9. /\ mutex' \in [Mutexes -> LosMutex]
      /\ \A n \in Mutexes :
            /\ mutex'[n].tomadoPor = IF n = m THEN h ELSE mutex[n].tomadoPor
            /\ mutex'[n].hilosBloqueados
                  = IF n = m THEN Tail(mutex[n].hilosBloqueados)
                             ELSE mutex[n].hilosBloqueados
  <2> DEFINE q == Tail(mutex[m].hilosBloqueados)
  <2>1. /\ q \in Seq(Hilos) /\ h \in HiloONulo
        /\ mutex' = [mutex EXCEPT ![m].tomadoPor = h, ![m].hilosBloqueados = q]
    BY <1>1, <1>2, <1>3 DEF HiloONulo
  <2>2. \A n \in Mutexes : n = m => Tail(mutex[n].hilosBloqueados) = q
    OBVIOUS
  <2> HIDE DEF q
  <2>3. /\ mutex' \in [Mutexes -> LosMutex]
        /\ \A n \in Mutexes :
              /\ mutex'[n].tomadoPor = IF n = m THEN h ELSE mutex[n].tomadoPor
              /\ mutex'[n].hilosBloqueados = IF n = m THEN q ELSE mutex[n].hilosBloqueados
    BY <1>1, <2>1 DEF LosMutex
  <2> QED BY <2>2, <2>3
<1>10. /\ SoloDe(h, tcb, tcb')
       /\ tcb'[h].estado = IF listo /\ tcb[h].estado # "LIBERADO" THEN "READY"
                                                              ELSE tcb[h].estado
       /\ tcb'[h].hiloBloqueadoPorJoin = tcb[h].hiloBloqueadoPorJoin
       /\ tcb'[h].bloqueadoPorJoin = tcb[h].bloqueadoPorJoin
       /\ tcb'[h].bloqueadoPorIO = tcb[h].bloqueadoPorIO
       /\ tcb'[h].mutexEnEspera = tcb[h].mutexEnEspera \ {m[2]}
  BY <1>3, <1>4, <1>7 DEF SoloDe, MismaEspera
<1>11. h = Head(mutex[m].hilosBloqueados)
  BY DEF h
<1>12. listo \/ ~listo
  OBVIOUS
<1> QED
  BY <1>1, <1>3, <1>5, <1>6, <1>7, <1>8, <1>9, <1>10, <1>11, <1>12 DEF varsColas

LEMMA JoinHecho ==
    ASSUME TypeOK, hiloEnExec \in Hilos, THREAD_JOIN
    PROVE  \E k \in Hilos :
           /\ k[1] = PidEnExec /\ k \in ToSet(listaDeHilos[PidEnExec])
           /\ tcb' \in [Hilos -> Tcbs]
           /\ \A x \in Hilos :
                 /\ tcb'[x].estado = IF x = hiloEnExec THEN "BLOCKED" ELSE tcb[x].estado
                 /\ tcb'[x].hiloBloqueadoPorJoin
                       = IF x = k THEN hiloEnExec ELSE tcb[x].hiloBloqueadoPorJoin
                 /\ tcb'[x].bloqueadoPorJoin
                       = IF x = hiloEnExec THEN TRUE ELSE tcb[x].bloqueadoPorJoin
                 /\ tcb'[x].bloqueadoPorIO = tcb[x].bloqueadoPorIO
                 /\ tcb'[x].mutexEnEspera = tcb[x].mutexEnEspera
<1> DEFINE h == hiloEnExec
           c(k) == [tcb EXCEPT ![k].hiloBloqueadoPorJoin = h]
<1>1. tcb \in [Hilos -> Tcbs] /\ h \in Hilos /\ PidEnExec \in Pids /\ h \in HiloONulo
  BY DEF TypeOK, PidEnExec, Hilos, HiloONulo
<1>2. PICK tid \in Tids :
         /\ EnSuProceso(tid)
         /\ tcb' = [c(<<PidEnExec, tid>>) EXCEPT ![h].bloqueadoPorJoin = TRUE,
                                                 ![h].estado = "BLOCKED"]
  BY DEF THREAD_JOIN
<1> DEFINE k == <<PidEnExec, tid>>
           d == c(k)
<1>3. k \in Hilos /\ k[1] = PidEnExec /\ k \in ToSet(listaDeHilos[PidEnExec])
  BY <1>1, <1>2 DEF Hilos, EnSuProceso
<1>4. tcb' = [d EXCEPT ![h].bloqueadoPorJoin = TRUE, ![h].estado = "BLOCKED"]
  BY <1>2
<1> HIDE DEF k, h
<1>5. /\ d \in [Hilos -> Tcbs] /\ SoloDe(k, tcb, d)
      /\ d[k].estado = tcb[k].estado
      /\ d[k].hiloBloqueadoPorJoin = h
      /\ d[k].bloqueadoPorJoin = tcb[k].bloqueadoPorJoin
      /\ d[k].bloqueadoPorIO = tcb[k].bloqueadoPorIO
      /\ d[k].mutexEnEspera = tcb[k].mutexEnEspera
  BY <1>1, <1>3 DEF Tcbs, SoloDe
<1> HIDE DEF d, c
<1>6. /\ tcb' \in [Hilos -> Tcbs] /\ SoloDe(h, d, tcb')
      /\ tcb'[h].estado = "BLOCKED"
      /\ tcb'[h].hiloBloqueadoPorJoin = d[h].hiloBloqueadoPorJoin
      /\ tcb'[h].bloqueadoPorJoin = TRUE
      /\ tcb'[h].bloqueadoPorIO = d[h].bloqueadoPorIO
      /\ tcb'[h].mutexEnEspera = d[h].mutexEnEspera
  <2>1. d \in [Hilos -> Tcbs] /\ h \in Hilos
    BY <1>1, <1>5
  <2> QED BY <1>4, <2>1 DEF Tcbs, SoloDe, Estados
<1>7. ASSUME NEW x \in Hilos
      PROVE  /\ tcb'[x].estado = IF x = h THEN "BLOCKED" ELSE tcb[x].estado
             /\ tcb'[x].hiloBloqueadoPorJoin
                   = IF x = k THEN h ELSE tcb[x].hiloBloqueadoPorJoin
             /\ tcb'[x].bloqueadoPorJoin = IF x = h THEN TRUE ELSE tcb[x].bloqueadoPorJoin
             /\ tcb'[x].bloqueadoPorIO = tcb[x].bloqueadoPorIO
             /\ tcb'[x].mutexEnEspera = tcb[x].mutexEnEspera
  <2>1. CASE x = h /\ x = k
    BY <1>5, <1>6, <2>1
  <2>2. CASE x = h /\ x # k
    BY <1>5, <1>6, <2>2 DEF SoloDe
  <2>3. CASE x # h /\ x = k
    BY <1>5, <1>6, <2>3 DEF SoloDe
  <2>4. CASE x # h /\ x # k
    BY <1>5, <1>6, <2>4 DEF SoloDe
  <2> QED BY <2>1, <2>2, <2>3, <2>4
<1> QED BY <1>3, <1>6, <1>7 DEF h

LEMMA IOHecho ==
    ASSUME TypeOK, hiloEnExec \in Hilos, IO
    PROVE  /\ tcb' \in [Hilos -> Tcbs] /\ SoloDe(hiloEnExec, tcb, tcb')
           /\ tcb'[hiloEnExec].estado = "BLOCKED"
           /\ tcb'[hiloEnExec].hiloBloqueadoPorJoin = tcb[hiloEnExec].hiloBloqueadoPorJoin
           /\ tcb'[hiloEnExec].bloqueadoPorJoin = tcb[hiloEnExec].bloqueadoPorJoin
           /\ tcb'[hiloEnExec].bloqueadoPorIO = TRUE
           /\ tcb'[hiloEnExec].mutexEnEspera = tcb[hiloEnExec].mutexEnEspera
<1>1. /\ tcb \in [Hilos -> Tcbs]
      /\ tcb' = [tcb EXCEPT ![hiloEnExec].bloqueadoPorIO = TRUE,
                            ![hiloEnExec].estado = "BLOCKED"]
  BY DEF TypeOK, IO
<1> QED BY <1>1 DEF Tcbs, SoloDe, Estados

LEMMA DumpHecho ==
    ASSUME TypeOK, hiloEnExec \in Hilos, DUMP_MEMORY
    PROVE  /\ tcb' \in [Hilos -> Tcbs] /\ SoloDe(hiloEnExec, tcb, tcb')
           /\ MismaEspera(hiloEnExec, tcb, tcb') /\ tcb'[hiloEnExec].estado = "BLOCKED"
<1>1. tcb \in [Hilos -> Tcbs] /\ tcb' = [tcb EXCEPT ![hiloEnExec].estado = "BLOCKED"]
  BY DEF TypeOK, DUMP_MEMORY
<1> QED BY <1>1 DEF Tcbs, SoloDe, MismaEspera, Estados

LEMMA LiberarTcbHecho ==
    ASSUME TypeOK, NEW h \in Hilos, liberar_tcb(h)
    PROVE  /\ tcb' \in [Hilos -> Tcbs] /\ SoloDe(h, tcb, tcb')
           /\ MismaEspera(h, tcb, tcb') /\ tcb'[h].estado = "LIBERADO"
<1>1. tcb \in [Hilos -> Tcbs] /\ tcb' = [tcb EXCEPT ![h].estado = "LIBERADO"]
  BY DEF TypeOK, liberar_tcb
<1> QED BY <1>1 DEF Tcbs, SoloDe, MismaEspera, Estados

\* The three outcomes of the search for the thread that waited in a join.
LEMMA DespertarHecho ==
    ASSUME TypeOK, cp.hilo \in Hilos, DespertarPorJoin
    PROVE  \/ /\ tcb[cp.hilo].hiloBloqueadoPorJoin = NULO
              /\ cp' = [cp EXCEPT !.pc = "recursos"]
              /\ UNCHANGED <<tcb, varsColas, caida>>
           \/ caida' = TRUE /\ UNCHANGED <<tcb, varsColas, cp>>
           \/ \E h \in Hilos, listo \in BOOLEAN :
              /\ tcb[cp.hilo].hiloBloqueadoPorJoin = h /\ hilosEnBlock[h] > 0
              /\ tcb[h].estado # "LIBERADO" =>
                    (listo <=> tcb[h].mutexEnEspera = {} /\ ~tcb[h].bloqueadoPorIO)
              /\ cp' = [cp EXCEPT !.pc = "recursos"] /\ UNCHANGED caida
              /\ tcb' \in [Hilos -> Tcbs] /\ SoloDe(h, tcb, tcb')
              /\ tcb'[h].estado = IF listo /\ tcb[h].estado # "LIBERADO" THEN "READY"
                                                                    ELSE tcb[h].estado
              /\ tcb'[h].hiloBloqueadoPorJoin = tcb[h].hiloBloqueadoPorJoin
              /\ tcb'[h].bloqueadoPorJoin = FALSE
              /\ tcb'[h].bloqueadoPorIO = tcb[h].bloqueadoPorIO
              /\ tcb'[h].mutexEnEspera = tcb[h].mutexEnEspera
              /\ IF listo THEN /\ hilosEnReady' = Append(hilosEnReady, h)
                               /\ semHiloEnReady' = semHiloEnReady + 1
                               /\ hilosEnBlock' = [hilosEnBlock EXCEPT ![h] = @ - 1]
                          ELSE UNCHANGED varsColas
              /\ hilosEnReady' \in Seq(Hilos) /\ semHiloEnReady' \in Nat
              /\ hilosEnBlock' \in [Hilos -> Nat]
              /\ Len(hilosEnReady') - semHiloEnReady' = Len(hilosEnReady) - semHiloEnReady
<1> DEFINE h == tcb[cp.hilo].hiloBloqueadoPorJoin
           t == [tcb EXCEPT ![h].bloqueadoPorJoin = FALSE]
<1>1. tcb \in [Hilos -> Tcbs] /\ hilosEnBlock \in [Hilos -> Nat]
  BY DEF TypeOK
<1>2. h \in Hilos \/ h = NULO
  BY <1>1 DEF Tcbs, HiloONulo
<1>3. CASE h = NULO
  BY <1>3 DEF DespertarPorJoin
<1>4. CASE h # NULO /\ hilosEnBlock[h] = 0
  BY <1>4 DEF DespertarPorJoin
<1>5. CASE h # NULO /\ ~(hilosEnBlock[h] = 0)
  <2>1. hilosEnBlock[h] > 0 /\ h \in Hilos
    BY <1>1, <1>2, <1>5
  <2>2. PICK listo \in ListoTrasJoin(h) : desbloquear(h, t, listo)
    BY <1>5 DEF DespertarPorJoin
  <2>3. cp' = [cp EXCEPT !.pc = "recursos"] /\ UNCHANGED caida
    BY <1>5 DEF DespertarPorJoin
  <2> HIDE DEF h
  <2>4. /\ t \in [Hilos -> Tcbs] /\ SoloDe(h, tcb, t)
        /\ t[h].estado = tcb[h].estado
        /\ t[h].hiloBloqueadoPorJoin = tcb[h].hiloBloqueadoPorJoin
        /\ t[h].bloqueadoPorJoin = FALSE
        /\ t[h].bloqueadoPorIO = tcb[h].bloqueadoPorIO
        /\ t[h].mutexEnEspera = tcb[h].mutexEnEspera
    BY <1>1, <2>1 DEF Tcbs, SoloDe
  <2> HIDE DEF t
  <2>5. tcb[h].estado # "LIBERADO" =>
           (listo <=> tcb[h].mutexEnEspera = {} /\ ~tcb[h].bloqueadoPorIO)
    BY <2>2, Zenon DEF ListoTrasJoin
  <2>6. listo \in BOOLEAN
    BY <2>2, Zenon DEF ListoTrasJoin
  <2>7. transicion_a_ready(h, t, listo)
    BY <2>2 DEF desbloquear
  <2>8. /\ tcb' \in [Hilos -> Tcbs] /\ SoloDe(h, t, tcb') /\ MismaEspera(h, t, tcb')
        /\ tcb'[h].estado = IF listo /\ t[h].estado # "LIBERADO" THEN "READY" ELSE t[h].estado
        /\ IF listo THEN /\ hilosEnReady' = Append(hilosEnReady, h)
                         /\ semHiloEnReady' = semHiloEnReady + 1
                    ELSE UNCHANGED <<hilosEnReady, semHiloEnReady>>
        /\ hilosEnReady' \in Seq(Hilos) /\ semHiloEnReady' \in Nat
        /\ Len(hilosEnReady') - semHiloEnReady' = Len(hilosEnReady) - semHiloEnReady
    BY <2>1, <2>4, <2>6, <2>7, Transicion
  <2>9. /\ IF listo THEN hilosEnBlock' = [hilosEnBlock EXCEPT ![h] = @ - 1]
                    ELSE hilosEnBlock' = hilosEnBlock
        /\ hilosEnBlock' \in [Hilos -> Nat]
    <3>1. hilosEnBlock' = IF listo THEN [hilosEnBlock EXCEPT ![h] = @ - 1]
                                   ELSE hilosEnBlock
      BY <2>2 DEF desbloquear
    <3> QED BY <1>1, <2>1, <3>1
  <2>10. /\ SoloDe(h, tcb, tcb')
         /\ tcb'[h].estado = IF listo /\ tcb[h].estado # "LIBERADO" THEN "READY"
                                                               ELSE tcb[h].estado
         /\ tcb'[h].hiloBloqueadoPorJoin = tcb[h].hiloBloqueadoPorJoin
         /\ tcb'[h].bloqueadoPorJoin = FALSE
         /\ tcb'[h].bloqueadoPorIO = tcb[h].bloqueadoPorIO
         /\ tcb'[h].mutexEnEspera = tcb[h].mutexEnEspera
    BY <2>1, <2>4, <2>8 DEF SoloDe, MismaEspera
  <2>11. tcb[cp.hilo].hiloBloqueadoPorJoin = h
    BY DEF h
  <2> QED
    BY <2>1, <2>3, <2>5, <2>6, <2>8, <2>9, <2>10, <2>11 DEF varsColas
<1> QED BY <1>3, <1>4, <1>5

LEMMA AtenderIOHecho ==
    ASSUME TypeOK, AtenderIO
    PROVE  \E h \in Hilos, listo \in BOOLEAN :
           /\ dispositivoIO # <<>> /\ h = Head(dispositivoIO)
           /\ dispositivoIO' = Tail(dispositivoIO)
           /\ tcb[h].estado # "LIBERADO" =>
                 (listo <=> tcb[h].mutexEnEspera = {} /\ ~tcb[h].bloqueadoPorJoin)
           /\ tcb' \in [Hilos -> Tcbs] /\ SoloDe(h, tcb, tcb')
           /\ tcb'[h].estado = IF listo /\ tcb[h].estado # "LIBERADO" THEN "READY"
                                                                 ELSE tcb[h].estado
           /\ tcb'[h].hiloBloqueadoPorJoin = tcb[h].hiloBloqueadoPorJoin
           /\ tcb'[h].bloqueadoPorJoin = tcb[h].bloqueadoPorJoin
           /\ tcb'[h].bloqueadoPorIO = FALSE
           /\ tcb'[h].mutexEnEspera = tcb[h].mutexEnEspera
           /\ IF listo THEN /\ hilosEnReady' = Append(hilosEnReady, h)
                            /\ semHiloEnReady' = semHiloEnReady + 1
                       ELSE UNCHANGED <<hilosEnReady, semHiloEnReady>>
           /\ hilosEnReady' \in Seq(Hilos) /\ semHiloEnReady' \in Nat
           /\ Len(hilosEnReady') - semHiloEnReady' = Len(hilosEnReady) - semHiloEnReady
<1> DEFINE h == Head(dispositivoIO)
           t == [tcb EXCEPT ![h].bloqueadoPorIO = FALSE]
<1>1. /\ tcb \in [Hilos -> Tcbs] /\ h \in Hilos
      /\ dispositivoIO # <<>> /\ dispositivoIO' = Tail(dispositivoIO)
  BY DEF TypeOK, AtenderIO
<1>2. PICK listo \in ListoTrasIO(h) : transicion_a_ready(h, t, listo)
  BY DEF AtenderIO
<1>3. h = Head(dispositivoIO)
  OBVIOUS
<1> HIDE DEF h
<1>4. /\ t \in [Hilos -> Tcbs] /\ SoloDe(h, tcb, t)
      /\ t[h].estado = tcb[h].estado
      /\ t[h].hiloBloqueadoPorJoin = tcb[h].hiloBloqueadoPorJoin
      /\ t[h].bloqueadoPorJoin = tcb[h].bloqueadoPorJoin
      /\ t[h].bloqueadoPorIO = FALSE
      /\ t[h].mutexEnEspera = tcb[h].mutexEnEspera
  BY <1>1 DEF Tcbs, SoloDe
<1> HIDE DEF t
<1>5. tcb[h].estado # "LIBERADO" =>
         (listo <=> tcb[h].mutexEnEspera = {} /\ ~tcb[h].bloqueadoPorJoin)
  BY <1>2, Zenon DEF ListoTrasIO
<1>6. listo \in BOOLEAN
  BY <1>2, Zenon DEF ListoTrasIO
<1>7. /\ tcb' \in [Hilos -> Tcbs] /\ SoloDe(h, t, tcb') /\ MismaEspera(h, t, tcb')
      /\ tcb'[h].estado = IF listo /\ t[h].estado # "LIBERADO" THEN "READY" ELSE t[h].estado
      /\ IF listo THEN /\ hilosEnReady' = Append(hilosEnReady, h)
                       /\ semHiloEnReady' = semHiloEnReady + 1
                  ELSE UNCHANGED <<hilosEnReady, semHiloEnReady>>
      /\ hilosEnReady' \in Seq(Hilos) /\ semHiloEnReady' \in Nat
      /\ Len(hilosEnReady') - semHiloEnReady' = Len(hilosEnReady) - semHiloEnReady
  BY <1>1, <1>2, <1>4, <1>6, Transicion
<1>8. /\ SoloDe(h, tcb, tcb')
      /\ tcb'[h].estado = IF listo /\ tcb[h].estado # "LIBERADO" THEN "READY"
                                                            ELSE tcb[h].estado
      /\ tcb'[h].hiloBloqueadoPorJoin = tcb[h].hiloBloqueadoPorJoin
      /\ tcb'[h].bloqueadoPorJoin = tcb[h].bloqueadoPorJoin
      /\ tcb'[h].bloqueadoPorIO = FALSE
      /\ tcb'[h].mutexEnEspera = tcb[h].mutexEnEspera
  BY <1>1, <1>4, <1>7 DEF SoloDe, MismaEspera
<1> QED BY <1>1, <1>3, <1>5, <1>6, <1>7, <1>8

LEMMA DumpTerminadoHecho ==
    ASSUME TypeOK, NEW h \in Hilos, DumpTerminado(h)
    PROVE  \/ caida' = TRUE /\ UNCHANGED <<tcb, varsColas>>
           \/ \E listo \in BOOLEAN :
              /\ listo <=> PuedeIrAReady(h)
              /\ EnBlock(h) /\ UNCHANGED caida
              /\ tcb' \in [Hilos -> Tcbs] /\ SoloDe(h, tcb, tcb') /\ MismaEspera(h, tcb, tcb')
              /\ tcb'[h].estado = IF listo THEN "READY" ELSE tcb[h].estado
              /\ IF listo THEN /\ hilosEnReady' = Append(hilosEnReady, h)
                               /\ semHiloEnReady' = semHiloEnReady + 1
                               /\ hilosEnBlock' = [hilosEnBlock EXCEPT ![h] = @ - 1]
                          ELSE UNCHANGED varsColas
              /\ hilosEnReady' \in Seq(Hilos) /\ semHiloEnReady' \in Nat
              /\ hilosEnBlock' \in [Hilos -> Nat]
              /\ Len(hilosEnReady') - semHiloEnReady' = Len(hilosEnReady) - semHiloEnReady
<1> DEFINE listo == PuedeIrAReady(h)
<1>1. tcb \in [Hilos -> Tcbs] /\ hilosEnBlock \in [Hilos -> Nat]
  BY DEF TypeOK
<1>2. CASE ~EnBlock(h)
  BY <1>2 DEF DumpTerminado
<1>3. CASE EnBlock(h)
  <2>1. desbloquear(h, tcb, listo) /\ UNCHANGED caida
    BY <1>3 DEF DumpTerminado
  <2>2. hilosEnBlock[h] > 0 /\ tcb[h].estado # "LIBERADO"
    BY <1>3 DEF EnBlock
  <2>3. listo \in BOOLEAN
    BY DEF PuedeIrAReady
  <2>4. listo <=> PuedeIrAReady(h)
    OBVIOUS
  <2> HIDE DEF listo
  <2>5. transicion_a_ready(h, tcb, listo)
    BY <2>1 DEF desbloquear
  <2>6. /\ tcb' \in [Hilos -> Tcbs] /\ SoloDe(h, tcb, tcb') /\ MismaEspera(h, tcb, tcb')
        /\ tcb'[h].estado = IF listo /\ tcb[h].estado # "LIBERADO" THEN "READY"
                                                              ELSE tcb[h].estado
        /\ IF listo THEN /\ hilosEnReady' = Append(hilosEnReady, h)
                         /\ semHiloEnReady' = semHiloEnReady + 1
                    ELSE UNCHANGED <<hilosEnReady, semHiloEnReady>>
        /\ hilosEnReady' \in Seq(Hilos) /\ semHiloEnReady' \in Nat
        /\ Len(hilosEnReady') - semHiloEnReady' = Len(hilosEnReady) - semHiloEnReady
    BY <1>1, <2>3, <2>5, Transicion
  <2>7. /\ IF listo THEN hilosEnBlock' = [hilosEnBlock EXCEPT ![h] = @ - 1]
                    ELSE hilosEnBlock' = hilosEnBlock
        /\ hilosEnBlock' \in [Hilos -> Nat]
    <3>1. hilosEnBlock' = IF listo THEN [hilosEnBlock EXCEPT ![h] = @ - 1]
                                   ELSE hilosEnBlock
      BY <2>1 DEF desbloquear
    <3> QED BY <1>1, <2>2, <3>1
  <2>8. tcb'[h].estado = IF listo THEN "READY" ELSE tcb[h].estado
    BY <2>2, <2>6
  <2> QED BY <1>3, <2>1, <2>3, <2>4, <2>6, <2>7, <2>8 DEF varsColas
<1> QED BY <1>2, <1>3

\* The queue of a mutex without the thread that finishes.
LEMMA TipoSinEsperar ==
    ASSUME TypeOK, NEW m \in Mutexes, NEW h \in Hilos
    PROVE  SinEsperar(m, h) \in Seq(Hilos)
<1>1. mutex[m].hilosBloqueados \in Seq(Hilos)
  BY DEF TypeOK, LosMutex
<1> QED BY <1>1, TipoQuitarPrimero DEF SinEsperar

LEMMA AbandonarHecho ==
    ASSUME TypeOK, NEW m \in Mutexes, NEW h \in Hilos
    PROVE  /\ Abandonar(m, h) \in LosMutex
           /\ Abandonar(m, h).tomadoPor
                 = IF mutex[m].tomadoPor # h THEN mutex[m].tomadoPor
                   ELSE IF SinEsperar(m, h) = <<>> THEN NULO ELSE Head(SinEsperar(m, h))
           /\ Abandonar(m, h).hilosBloqueados
                 = IF mutex[m].tomadoPor = h /\ SinEsperar(m, h) # <<>>
                   THEN Tail(SinEsperar(m, h)) ELSE SinEsperar(m, h)
<1> DEFINE q == SinEsperar(m, h)
           r == mutex[m]
           a == Abandonar(m, h)
<1>1. q \in Seq(Hilos) /\ r \in LosMutex
  BY TipoSinEsperar DEF TypeOK
<1>2. CASE r.tomadoPor # h
  <2>1. a = [r EXCEPT !.hilosBloqueados = q]
    BY <1>2 DEF Abandonar
  <2> HIDE DEF a, q, r
  <2>2. a \in LosMutex /\ a.tomadoPor = r.tomadoPor /\ a.hilosBloqueados = q
    BY <1>1, <2>1 DEF LosMutex
  <2> QED BY <1>2, <2>2 DEF a, q, r
<1>3. CASE r.tomadoPor = h /\ q = <<>>
  <2>1. a = [r EXCEPT !.hilosBloqueados = q, !.tomadoPor = NULO]
    BY <1>3 DEF Abandonar
  <2>2. NULO \in HiloONulo
    BY DEF HiloONulo
  <2> HIDE DEF a, q, r
  <2>3. a \in LosMutex /\ a.tomadoPor = NULO /\ a.hilosBloqueados = q
    BY <1>1, <2>1, <2>2 DEF LosMutex
  <2> QED BY <1>3, <2>3 DEF a, q, r
<1>4. CASE r.tomadoPor = h /\ q # <<>>
  <2> DEFINE x == Head(q)
             c == Tail(q)
  <2>1. a = [r EXCEPT !.hilosBloqueados = c, !.tomadoPor = x]
    BY <1>4 DEF Abandonar
  <2>2. x \in HiloONulo /\ c \in Seq(Hilos)
    BY <1>1, <1>4 DEF HiloONulo
  <2> HIDE DEF a, q, r, x, c
  <2>3. a \in LosMutex /\ a.tomadoPor = x /\ a.hilosBloqueados = c
    BY <1>1, <2>1, <2>2 DEF LosMutex
  <2> QED BY <1>4, <2>3 DEF a, q, r, x, c
<1> QED BY <1>2, <1>3, <1>4

LEMMA MutexesFinitos == IsFiniteSet(Mutexes)
<1>1. IsFiniteSet(Pids)
  <2>1. 0 \in Int /\ CantProcesos - 1 \in Int
    BY CotasPositivas
  <2> QED BY <2>1, FS_Interval DEF Pids
<1> QED BY <1>1, RecursosFinitos, FS_Product DEF Mutexes

LEMMA TipoRevividos ==
    ASSUME TypeOK, NEW h \in Hilos
    PROVE  /\ Revividos(h) \in Nat /\ Revividos(h) <= hilosEnBlock[h]
           /\ Revividos(h) > 0 => /\ PuedeIrAReady(h)
                                  /\ \E m \in Mutexes : mutex[m].tomadoPor = h
<1>1. hilosEnBlock[h] \in Nat
  BY DEF TypeOK
<1>2. IsFiniteSet(Heredados(h))
  <2>1. Heredados(h) \subseteq Mutexes
    BY DEF Heredados
  <2> QED BY <2>1, MutexesFinitos, FS_Subset
<1>3. Cardinality(Heredados(h)) \in Nat
  BY <1>2, FS_CardinalityType
<1>4. Heredados(h) = {} => Cardinality(Heredados(h)) = 0
  BY FS_EmptySet
<1>5. Heredados(h) # {} => \E m \in Mutexes : mutex[m].tomadoPor = h
  BY DEF Heredados
<1> QED BY <1>1, <1>3, <1>4, <1>5 DEF Revividos

\* The thread that finishes leaves its mutexes, and goes to Ready once for
\* each heir, while it is found in Block.
LEMMA LiberarHecho ==
    ASSUME TypeOK, cp.hilo \in Hilos, LiberarRecursosMutex
    PROVE  LET h == cp.hilo
               n == Revividos(h)
           IN /\ mutex' \in [Mutexes -> LosMutex]
              /\ \A m \in Mutexes :
                    mutex'[m] = IF m[1] = h[1] THEN Abandonar(m, h) ELSE mutex[m]
              /\ tcb' \in [Hilos -> Tcbs]
              /\ \A x \in Hilos :
                    /\ tcb'[x].estado = IF x = h /\ n > 0 THEN "READY" ELSE tcb[x].estado
                    /\ tcb'[x].hiloBloqueadoPorJoin = tcb[x].hiloBloqueadoPorJoin
                    /\ tcb'[x].bloqueadoPorJoin = tcb[x].bloqueadoPorJoin
                    /\ tcb'[x].bloqueadoPorIO = tcb[x].bloqueadoPorIO
                    /\ tcb'[x].mutexEnEspera = tcb[x].mutexEnEspera \ HeredaEl(x, h)
              /\ hilosEnBlock' \in [Hilos -> Nat]
              /\ hilosEnBlock' = [hilosEnBlock EXCEPT ![h] = @ - n]
              /\ [i \in 1 .. n |-> h] \in Seq(Hilos) /\ Len([i \in 1 .. n |-> h]) = n
              /\ hilosEnReady' = hilosEnReady \o [i \in 1 .. n |-> h]
              /\ hilosEnReady' \in Seq(Hilos) /\ semHiloEnReady' \in Nat
              /\ Len(hilosEnReady') - semHiloEnReady' = Len(hilosEnReady) - semHiloEnReady
<1> DEFINE h == cp.hilo
           n == Revividos(h)
<1>1. /\ tcb \in [Hilos -> Tcbs] /\ mutex \in [Mutexes -> LosMutex]
      /\ hilosEnBlock \in [Hilos -> Nat] /\ hilosEnReady \in Seq(Hilos)
      /\ semHiloEnReady \in Nat
  BY DEF TypeOK
<1>2. n \in Nat /\ n <= hilosEnBlock[h]
  BY TipoRevividos
<1>3. /\ mutex' = [m \in Mutexes |-> IF m[1] = h[1] THEN Abandonar(m, h) ELSE mutex[m]]
      /\ tcb' = [x \in Hilos |->
                [tcb[x] EXCEPT !.mutexEnEspera = @ \ HeredaEl(x, h),
                               !.estado = IF x = h /\ n > 0 THEN "READY" ELSE @]]
      /\ hilosEnBlock' = [hilosEnBlock EXCEPT ![h] = @ - n]
      /\ hilosEnReady' = hilosEnReady \o [i \in 1 .. n |-> h]
      /\ semHiloEnReady' = semHiloEnReady + n
  BY DEF LiberarRecursosMutex
<1>4. h \in Hilos
  OBVIOUS
<1>5. /\ mutex' \in [Mutexes -> LosMutex]
      /\ \A m \in Mutexes :
            mutex'[m] = IF m[1] = h[1] THEN Abandonar(m, h) ELSE mutex[m]
  <2> HIDE DEF h, n
  <2>1. \A m \in Mutexes : Abandonar(m, h) \in LosMutex /\ mutex[m] \in LosMutex
    BY <1>1, <1>4, AbandonarHecho
  <2> QED BY <1>3, <2>1
<1>6. /\ tcb' \in [Hilos -> Tcbs]
      /\ \A x \in Hilos :
            /\ tcb'[x].estado = IF x = h /\ n > 0 THEN "READY" ELSE tcb[x].estado
            /\ tcb'[x].hiloBloqueadoPorJoin = tcb[x].hiloBloqueadoPorJoin
            /\ tcb'[x].bloqueadoPorJoin = tcb[x].bloqueadoPorJoin
            /\ tcb'[x].bloqueadoPorIO = tcb[x].bloqueadoPorIO
            /\ tcb'[x].mutexEnEspera = tcb[x].mutexEnEspera \ HeredaEl(x, h)
  <2> HIDE DEF h, n
  <2> QED BY ZenonT(30), <1>1, <1>3 DEF Tcbs, Estados
<1> HIDE DEF h, n
<1>7. hilosEnBlock' \in [Hilos -> Nat]
  <2>1. hilosEnBlock[h] \in Nat /\ hilosEnBlock[h] - n \in Nat
    BY <1>1, <1>2, <1>4
  <2>2. hilosEnBlock' = [hilosEnBlock EXCEPT ![h] = hilosEnBlock[h] - n]
    BY <1>3
  <2> QED BY <1>1, <1>4, <2>1, <2>2
<1> DEFINE s == [i \in 1 .. n |-> h]
<1>8. s \in Seq(Hilos) /\ Len(s) = n
  BY <1>2, <1>4
<1>9. /\ hilosEnReady' \in Seq(Hilos) /\ semHiloEnReady' \in Nat
      /\ Len(hilosEnReady') - semHiloEnReady' = Len(hilosEnReady) - semHiloEnReady
  <2>1. hilosEnReady' = hilosEnReady \o s
    BY <1>3
  <2> HIDE DEF s
  <2>2. hilosEnReady' \in Seq(Hilos) /\ Len(hilosEnReady') = Len(hilosEnReady) + n
    BY <1>1, <1>8, <2>1, ConcatProperties
  <2>3. semHiloEnReady' = semHiloEnReady + n
    BY <1>3
  <2>5. semHiloEnReady' \in Nat
    BY <1>1, <1>2, <2>3
  <2>4. Len(hilosEnReady) \in Nat
    BY <1>1
  <2> QED BY <1>1, <1>2, <2>2, <2>3, <2>4, <2>5
<1> QED BY <1>3, <1>5, <1>6, <1>7, <1>8, <1>9 DEF h, n
-----------------------------------------------------------------------------
(* The types, and what they rest on.                                       *)

\* hiloEnExec is the thread that runs, or for which the scheduler works.
EnMano == cp.pc # "elegir" \/ ~replanificar
EnFinalizacion == cp.pc \in {"avisando", "recursos", "eliminar"}

\* The scheduler works for a thread of a process that exists, which the memory
\* knows until it calls the kernel.
Control ==
    /\ EnMano => hiloEnExec \in Hilos
    /\ cp.pc = "ejecutando" => hiloEnExec \in enMemoria
    /\ cp.pc \notin {"elegir", "colgado"} => pcb[PidEnExec] = "vivo"
    /\ EnFinalizacion => cp.hilo \in Hilos

\* A thread is in hilosEnExit before its post.
SinPost == IF cp.pc \in {"avisando", "recursos"} THEN 1 ELSE 0
Salida == Len(hilosEnExit) = semHiloEnExit + SinPost

\* A process has no more threads than it has created, and none in NEW.
Listas ==
    \A p \in Pids : /\ Len(listaDeHilos[p]) <= siguienteTid[p]
                    /\ pcb[p] \in {"no", "new"} => siguienteTid[p] = 0

IInv == TypeOK /\ Control /\ Salida /\ Listas

LEMMA PartesDeHilo ==
    ASSUME NEW h \in Hilos
    PROVE  h[1] \in Pids /\ h[2] \in Tids /\ h = <<h[1], h[2]>> /\ h # NULO
BY DEF Hilos, NULO, Pids, Tids

LEMMA Ejecutando ==
    ASSUME IInv, cp.pc \notin {"elegir", "colgado"}
    PROVE  hiloEnExec \in Hilos /\ PidEnExec \in Pids /\ pcb[PidEnExec] = "vivo"
<1>1. hiloEnExec \in Hilos /\ pcb[PidEnExec] = "vivo"
  BY DEF IInv, Control, EnMano
<1> QED BY <1>1, PartesDeHilo DEF PidEnExec

LEMMA SeguirHecho ==
    ASSUME TypeOK, Seguir
    PROVE  /\ cp' \in Controles /\ cp'.pc = "elegir"
           /\ cp'.hilo = cp.hilo /\ cp'.origen = cp.origen
           /\ replanificar' = FALSE
BY DEF TypeOK, Controles, Seguir

LEMMA DesalojarHecho ==
    ASSUME TypeOK, Desalojar
    PROVE  /\ cp' \in Controles /\ cp'.pc = "elegir"
           /\ cp'.hilo = cp.hilo /\ cp'.origen = cp.origen
           /\ replanificar' = TRUE
BY DEF TypeOK, Controles, Desalojar

\* What is left to show when the scheduler goes back to choose a thread and
\* the lists of the processes stay.
LEMMA AlVolver ==
    ASSUME IInv, cp'.pc = "elegir", UNCHANGED hiloEnExec, hiloEnExec \in Hilos,
           UNCHANGED <<hilosEnExit, semHiloEnExit>>,
           cp.pc \notin {"avisando", "recursos"}
    PROVE  Control' /\ Salida'
BY DEF IInv, Control, Salida, SinPost, EnMano, EnFinalizacion

LEMMA ListasSinCambio ==
    ASSUME IInv, UNCHANGED <<listaDeHilos, siguienteTid>>,
           \A p \in Pids : pcb'[p] \in {"no", "new"} => pcb[p] \in {"no", "new"}
    PROVE  Listas'
BY DEF IInv, Listas

\* Where nothing of the short term scheduler changes.
LEMMA ControlSinCambio ==
    ASSUME IInv, UNCHANGED varsCP, enMemoria \subseteq enMemoria',
           \A p \in Pids : pcb[p] = "vivo" => pcb'[p] = "vivo"
    PROVE  Control'
<1>1. UNCHANGED <<hiloEnExec, replanificar, cp>>
  BY DEF varsCP
<1>2. cp.pc \notin {"elegir", "colgado"} => pcb'[PidEnExec] = "vivo"
  BY Ejecutando
<1> QED BY <1>1, <1>2 DEF IInv, Control, EnMano, EnFinalizacion, PidEnExec

LEMMA InicioIInv == Init => IInv
<1> SUFFICES ASSUME Init PROVE IInv
  OBVIOUS
<1>1. tcb \in [Hilos -> Tcbs]
  <2>1. TcbNuevo("NINGUNO", 0) \in Tcbs
    BY PrioridadesNat DEF TcbNuevo, Tcbs, Estados, HiloONulo
  <2>2. tcb = [h \in Hilos |-> TcbNuevo("NINGUNO", 0)]
    BY DEF Init
  <2> QED BY <2>1, <2>2
<1>2. mutex \in [Mutexes -> LosMutex]
  <2>1. MutexNuevo \in LosMutex
    BY DEF MutexNuevo, LosMutex, HiloONulo
  <2> QED BY <2>1 DEF Init
<1>3. /\ cp = [pc |-> "elegir", hilo |-> NULO, origen |-> "", i |-> 0]
      /\ replanificar = TRUE
  BY DEF Init
<1>4. NULO \in HiloONulo /\ 0 \in 0 .. CantHilos
  BY CotasPositivas DEF HiloONulo
<1>5. cp \in Controles
  BY <1>3, <1>4 DEF Controles
<1>6. /\ pcb \in [Pids -> {"no", "new", "vivo", "liberado"}]
      /\ listaDeHilos \in [Pids -> Seq(Hilos)]
      /\ siguienteTid \in [Pids -> 0 .. CantHilos]
      /\ hilosEnBlock \in [Hilos -> Nat]
      /\ \A p \in Pids : listaDeHilos[p] = <<>> /\ siguienteTid[p] = 0
  <2>1. /\ pcb = [p \in Pids |-> IF p = 0 THEN "new" ELSE "no"]
        /\ listaDeHilos = [p \in Pids |-> <<>>] /\ siguienteTid = [p \in Pids |-> 0]
        /\ hilosEnBlock = [h \in Hilos |-> 0]
    BY DEF Init
  <2>2. <<>> \in Seq(Hilos)
    OBVIOUS
  <2> QED BY <1>4, <2>1, <2>2
<1>7. /\ hilosEnReady = <<>> /\ hilosEnExit = <<>> /\ dispositivoIO = <<>>
      /\ semHiloEnReady = 0 /\ semHiloEnExit = 0
      /\ dumps = {} /\ enMemoria = {} /\ hiloEnExec = NULO
      /\ caida = FALSE
  BY DEF Init
<1>8. TypeOK
  <2>1. /\ hilosEnReady \in Seq(Hilos) /\ hilosEnExit \in Seq(Hilos)
        /\ dispositivoIO \in Seq(Hilos)
    BY <1>7
  <2>2. /\ semHiloEnReady \in Nat /\ semHiloEnExit \in Nat
        /\ dumps \subseteq Hilos /\ enMemoria \subseteq Hilos
        /\ hiloEnExec \in HiloONulo
        /\ replanificar \in BOOLEAN /\ caida \in BOOLEAN
    BY <1>3, <1>4, <1>7
  <2> QED BY <1>1, <1>2, <1>5, <1>6, <2>1, <2>2 DEF TypeOK
<1>9. cp.pc = "elegir"
  BY <1>3
<1>10. Control
  BY <1>3, <1>9 DEF Control, EnMano, EnFinalizacion
<1>11. Salida
  BY <1>7, <1>9 DEF Salida, SinPost
<1>12. Listas
  BY <1>6 DEF Listas
<1> QED BY <1>8, <1>10, <1>11, <1>12 DEF IInv
-----------------------------------------------------------------------------
(* One lemma for each group of actions.                                    *)

LEMMA IInvLargoPlazo == IInv /\ LargoPlazo => IInv'
<1> SUFFICES ASSUME IInv, NEW p \in Pids, AdmitirProceso(p) PROVE IInv'
  BY DEF LargoPlazo
<1> DEFINE h == <<p, 0>>
<1>1. h \in Hilos /\ h[1] = p
  BY CotasPositivas DEF Hilos, Tids
<1>2. PICK prio \in Prioridades : crear_tcb(h, prio)
  BY PrioridadesNat DEF AdmitirProceso
<1>3. TypeOK /\ tcb' \in [Hilos -> Tcbs]
  BY <1>1, <1>2, CrearTcbHecho DEF IInv
<1>4. /\ listaDeHilos' = [listaDeHilos EXCEPT ![p] = Append(@, h)]
      /\ siguienteTid' = [siguienteTid EXCEPT ![p] = @ + 1]
      /\ enMemoria' = enMemoria \cup {h}
  BY <1>1, <1>2 DEF crear_tcb, notificar_a_memoria_creacion_hilo
<1>5. /\ pcb[p] = "new" /\ pcb' = [pcb EXCEPT ![p] = "vivo"]
      /\ hilosEnReady' = Append(hilosEnReady, h)
      /\ semHiloEnReady' = semHiloEnReady + 1
      /\ UNCHANGED <<mutex, hilosEnBlock, hilosEnExit, semHiloEnExit, varsExternas,
                     varsCP, caida>>
  BY DEF AdmitirProceso, Encolar
<1> HIDE DEF h
<1>6. siguienteTid[p] = 0 /\ siguienteTid'[p] = 1 /\ Len(listaDeHilos[p]) <= 0
  BY <1>3, <1>4, <1>5 DEF IInv, Listas, TypeOK
<1>7. /\ siguienteTid' \in [Pids -> 0 .. CantHilos]
      /\ listaDeHilos' \in [Pids -> Seq(Hilos)]
      /\ Len(listaDeHilos'[p]) <= 1
  BY <1>1, <1>3, <1>4, <1>6, CotasPositivas DEF TypeOK
<1>8. TypeOK'
  BY <1>1, <1>3, <1>4, <1>5, <1>7 DEF TypeOK, varsExternas, varsCP
<1>9. Listas'
  BY <1>3, <1>4, <1>5, <1>6, <1>7 DEF IInv, Listas, TypeOK
<1>10. Control'
  BY <1>3, <1>4, <1>5, ControlSinCambio DEF TypeOK
<1>11. Salida'
  BY <1>5 DEF IInv, Salida, SinPost, varsCP
<1> QED BY <1>8, <1>9, <1>10, <1>11 DEF IInv

LEMMA ElegidosEstan ==
    ASSUME TypeOK, NEW i \in Elegidos
    PROVE  i \in 1 .. Len(hilosEnReady) /\ hilosEnReady[i] \in Hilos
<1>1. i \in DOMAIN hilosEnReady
  BY AlgoritmoConocido
     DEF Elegidos, elegirSiguienteHiloAEjecutarFIFO, elegirSiguienteHiloAEjecutarPRIORIDAD,
         elegirSiguienteHiloAEjecutarCOLAS
<1> QED BY <1>1 DEF TypeOK

LEMMA IInvEjecutar ==
    ASSUME IInv, NEW h \in Hilos, ejecutar_hilo(h), cp.pc = "elegir",
           UNCHANGED <<varsProceso, mutex, hilosEnBlock, varsExit, varsExternas,
                       replanificar>>,
           hilosEnReady' \in Seq(Hilos), semHiloEnReady' \in Nat
    PROVE  IInv'
<1>1. CASE Despachable(h)
  <2>1. /\ tcb' \in [Hilos -> Tcbs] /\ hiloEnExec' = h
        /\ cp' = [cp EXCEPT !.pc = "ejecutando"] /\ UNCHANGED caida
    BY <1>1, EjecutarHecho DEF IInv
  <2>2. /\ cp' \in Controles /\ cp'.pc = "ejecutando"
    BY <2>1 DEF IInv, TypeOK, Controles
  <2>3. TypeOK'
    BY <2>1, <2>2 DEF IInv, TypeOK, varsProceso, varsExit, varsExternas, HiloONulo
  <2>4. Control'
    BY <1>1, <2>1, <2>2
       DEF Despachable, Control, EnMano, EnFinalizacion, PidEnExec, varsProceso, varsExit
  <2>5. Salida'
    BY <2>2 DEF IInv, Salida, SinPost, varsExit
  <2>6. Listas'
    BY ListasSinCambio DEF varsProceso
  <2> QED BY <2>3, <2>4, <2>5, <2>6 DEF IInv
<1>2. CASE ~Despachable(h)
  <2>1. caida' = TRUE /\ UNCHANGED <<hiloEnExec, tcb, cp>>
    BY <1>2 DEF ejecutar_hilo
  <2>2. TypeOK'
    BY <2>1 DEF IInv, TypeOK, varsProceso, varsExit, varsExternas
  <2>3. Control'
    BY <2>1, ControlSinCambio DEF varsCP, varsProceso, varsExit
  <2>4. Salida'
    BY <2>1 DEF IInv, Salida, SinPost, varsExit
  <2>5. Listas'
    BY ListasSinCambio DEF varsProceso
  <2> QED BY <2>2, <2>3, <2>4, <2>5 DEF IInv
<1> QED BY <1>1, <1>2

LEMMA IInvCortoPlazo == IInv /\ CortoPlazo => IInv'
<1> SUFFICES ASSUME IInv, CortoPlazo PROVE IInv'
  OBVIOUS
<1>0. TypeOK
  BY DEF IInv
<1>1. CASE ElegirHilo
  <2>1. PICK i \in Elegidos : /\ hilosEnReady' = RemoveAt(hilosEnReady, i)
                              /\ ejecutar_hilo(hilosEnReady[i])
    BY <1>1 DEF ElegirHilo
  <2>2. i \in 1 .. Len(hilosEnReady) /\ hilosEnReady[i] \in Hilos
    BY <1>0, ElegidosEstan
  <2>3. hilosEnReady' \in Seq(Hilos)
    BY <1>0, <2>1, <2>2, QuitarEn DEF TypeOK
  <2>4. semHiloEnReady' \in Nat
    BY <1>0, <1>1 DEF ElegirHilo, TypeOK
  <2>5. cp.pc = "elegir" /\ UNCHANGED <<varsProceso, mutex, hilosEnBlock, varsExit,
                                        varsExternas, replanificar>>
    BY <1>1 DEF ElegirHilo, En
  <2> QED BY <2>1, <2>2, <2>3, <2>4, <2>5, IInvEjecutar
<1>2. CASE ElegirSinHilos
  <2>1. TypeOK'
    BY <1>0, <1>2
       DEF ElegirSinHilos, TypeOK, varsProceso, varsColas, varsExit, varsExternas, varsCP
  <2>2. Control'
    BY <1>2, ControlSinCambio DEF ElegirSinHilos, varsProceso, varsExit
  <2>3. Salida'
    BY <1>2 DEF ElegirSinHilos, IInv, Salida, SinPost, varsExit, varsCP
  <2>4. Listas'
    BY <1>2, ListasSinCambio DEF ElegirSinHilos, varsProceso
  <2> QED BY <2>1, <2>2, <2>3, <2>4 DEF IInv
<1>3. CASE ContinuarHilo
  <2>1. /\ cp.pc = "elegir" /\ ejecutar_hilo(hiloEnExec)
        /\ UNCHANGED <<varsProceso, mutex, varsColas, varsExit, varsExternas, replanificar>>
        /\ hiloEnExec \in Hilos
    BY <1>3 DEF ContinuarHilo, En, IInv, Control, EnMano
  <2>2. /\ hilosEnReady' \in Seq(Hilos) /\ semHiloEnReady' \in Nat
        /\ UNCHANGED hilosEnBlock
    BY <1>0, <2>1 DEF TypeOK, varsColas
  <2> QED BY <2>1, <2>2, IInvEjecutar
<1> QED BY <1>1, <1>2, <1>3 DEF CortoPlazo

LEMMA IInvDespertar == IInv /\ DespertarPorJoin => IInv'
<1> SUFFICES ASSUME IInv, DespertarPorJoin PROVE IInv'
  OBVIOUS
<1>1. /\ cp.pc = "avisando" /\ cp.hilo \in Hilos
      /\ UNCHANGED <<varsProceso, mutex, varsExit, varsExternas, hiloEnExec, replanificar>>
  BY DEF DespertarPorJoin, En, IInv, Control, EnFinalizacion
<1>2. /\ tcb' \in [Hilos -> Tcbs]
      /\ hilosEnReady' \in Seq(Hilos) /\ semHiloEnReady' \in Nat
      /\ hilosEnBlock' \in [Hilos -> Nat] /\ caida' \in BOOLEAN
      /\ cp' = cp \/ cp' = [cp EXCEPT !.pc = "recursos"]
  BY <1>1, DespertarHecho DEF IInv, TypeOK, varsColas
<1>3. /\ cp' \in Controles /\ cp'.pc \in {"avisando", "recursos"} /\ cp'.hilo = cp.hilo
  BY <1>1, <1>2 DEF IInv, TypeOK, Controles
<1>4. TypeOK'
  BY <1>1, <1>2, <1>3 DEF IInv, TypeOK, varsProceso, varsExit, varsExternas
<1>5. Control'
  BY <1>1, <1>3, Ejecutando
     DEF IInv, Control, EnMano, EnFinalizacion, PidEnExec, varsProceso, varsExit
<1>6. Salida'
  BY <1>1, <1>3 DEF IInv, Salida, SinPost, varsExit
<1>7. Listas'
  BY <1>1, ListasSinCambio DEF varsProceso
<1> QED BY <1>4, <1>5, <1>6, <1>7 DEF IInv

LEMMA IInvLiberarRecursos == IInv /\ LiberarRecursosMutex => IInv'
<1> SUFFICES ASSUME IInv, LiberarRecursosMutex PROVE IInv'
  OBVIOUS
<1>1. /\ cp.pc = "recursos" /\ cp.hilo \in Hilos /\ TypeOK
      /\ UNCHANGED <<varsProceso, hilosEnExit, enMemoria, varsExternas, hiloEnExec, caida>>
      /\ semHiloEnExit' = semHiloEnExit + 1
  BY DEF LiberarRecursosMutex, AvisarFinalizador, En, IInv, Control, EnFinalizacion
<1>2. /\ tcb' \in [Hilos -> Tcbs] /\ mutex' \in [Mutexes -> LosMutex]
      /\ hilosEnReady' \in Seq(Hilos) /\ semHiloEnReady' \in Nat
      /\ hilosEnBlock' \in [Hilos -> Nat]
  BY <1>1, LiberarHecho
<1>3. \/ cp' = [cp EXCEPT !.pc = "eliminar"] /\ UNCHANGED replanificar
      \/ Desalojar \/ Seguir
  BY DEF LiberarRecursosMutex
<1>4. /\ cp' \in Controles /\ cp'.pc \in {"eliminar", "elegir"} /\ cp'.hilo = cp.hilo
      /\ replanificar' \in BOOLEAN
  <2>1. CASE cp' = [cp EXCEPT !.pc = "eliminar"] /\ UNCHANGED replanificar
    BY <1>1, <2>1 DEF TypeOK, Controles
  <2>2. CASE Desalojar \/ Seguir
    BY <1>1, <2>2, SeguirHecho, DesalojarHecho
  <2> QED BY <1>3, <2>1, <2>2
<1>5. TypeOK'
  BY <1>1, <1>2, <1>4 DEF TypeOK, varsProceso, varsExternas
<1>6. Control'
  BY <1>1, <1>4, Ejecutando
     DEF IInv, Control, EnMano, EnFinalizacion, PidEnExec, varsProceso
<1>7. Salida'
  BY <1>1, <1>4 DEF IInv, TypeOK, Salida, SinPost
<1>8. Listas'
  BY <1>1, ListasSinCambio DEF varsProceso
<1> QED BY <1>5, <1>6, <1>7, <1>8 DEF IInv

LEMMA IInvEliminar == IInv /\ EliminarDeColas => IInv'
<1> SUFFICES ASSUME IInv, EliminarDeColas PROVE IInv'
  OBVIOUS
<1>1. /\ cp.pc = "eliminar" /\ cp.hilo \in Hilos /\ TypeOK
      /\ UNCHANGED <<tcb, varsProceso, mutex, semHiloEnReady, varsExit, varsExternas,
                     hiloEnExec, caida>>
  BY DEF EliminarDeColas, En, IInv, Control, EnFinalizacion
<1>2. hilosEnReady' \in Seq(Hilos) /\ hilosEnBlock' \in [Hilos -> Nat]
  <2>1. CASE hilosEnBlock[cp.hilo] > 0
    <3>1. /\ hilosEnBlock' = [hilosEnBlock EXCEPT ![cp.hilo] = @ - 1]
          /\ UNCHANGED hilosEnReady
      BY <1>1, <2>1 DEF EliminarDeColas, TypeOK
    <3> QED BY <1>1, <2>1, <3>1 DEF TypeOK
  <2>2. CASE ~(hilosEnBlock[cp.hilo] > 0)
    <3>1. hilosEnReady' = RemoveFirst(hilosEnReady, cp.hilo) /\ UNCHANGED hilosEnBlock
      BY <2>2 DEF EliminarDeColas
    <3> QED BY <1>1, <3>1, TipoQuitarPrimero DEF TypeOK
  <2> QED BY <2>1, <2>2
<1>3. \/ Seguir
      \/ cp' = [cp EXCEPT !.pc = "iterar"] /\ UNCHANGED replanificar
  BY DEF EliminarDeColas
<1>4. /\ cp' \in Controles /\ cp'.pc \in {"elegir", "iterar"}
      /\ replanificar' \in BOOLEAN
  <2>1. CASE cp' = [cp EXCEPT !.pc = "iterar"] /\ UNCHANGED replanificar
    BY <1>1, <2>1 DEF TypeOK, Controles
  <2>2. CASE Seguir
    BY <1>1, <2>2, SeguirHecho
  <2> QED BY <1>3, <2>1, <2>2
<1>5. TypeOK'
  BY <1>1, <1>2, <1>4 DEF TypeOK, varsProceso, varsExit, varsExternas
<1>6. Control'
  BY <1>1, <1>4, Ejecutando
     DEF Control, EnMano, EnFinalizacion, PidEnExec, varsProceso
<1>7. Salida'
  BY <1>1, <1>4 DEF IInv, Salida, SinPost, varsExit
<1>8. Listas'
  BY <1>1, ListasSinCambio DEF varsProceso
<1> QED BY <1>5, <1>6, <1>7, <1>8 DEF IInv
\* finalizar_hilo, called for the running thread: the post is still to come.
FinalizaBien ==
    /\ tcb' \in [Hilos -> Tcbs] /\ hilosEnExit' \in Seq(Hilos)
    /\ semHiloEnExit' \in Nat /\ enMemoria' \subseteq Hilos
    /\ cp' \in Controles /\ cp'.pc = "avisando" /\ cp'.hilo \in Hilos
    /\ Salida'

LEMMA Finaliza ==
    ASSUME IInv, NEW h \in Hilos, NEW o \in {"salir", "mutex", "cancelar", "proceso"},
           NEW i \in 0 .. CantHilos, finalizar_hilo(h, o, i),
           cp.pc \notin {"avisando", "recursos"}
    PROVE  FinalizaBien
<1>0. TypeOK
  BY DEF IInv
<1>1. /\ tcb' \in [Hilos -> Tcbs] /\ UNCHANGED semHiloEnExit
      /\ hilosEnExit' \in Seq(Hilos) /\ Len(hilosEnExit') = Len(hilosEnExit) + 1
      /\ enMemoria' = enMemoria \ {h}
      /\ cp' = [pc |-> "avisando", hilo |-> h, origen |-> o, i |-> i]
      /\ cp' \in Controles
  BY <1>0, FinalizarHecho
<1>2. cp'.pc = "avisando" /\ cp'.hilo = h
  BY <1>1
<1>3. semHiloEnExit' \in Nat /\ enMemoria' \subseteq Hilos
  BY <1>0, <1>1 DEF TypeOK
<1>4. Len(hilosEnExit) = semHiloEnExit
  BY <1>0 DEF IInv, Salida, SinPost, TypeOK
<1>5. Salida'
  BY <1>1, <1>2, <1>4 DEF Salida, SinPost
<1> QED BY <1>1, <1>2, <1>3, <1>5 DEF FinalizaBien

LEMMA IInvIterar == IInv /\ IterarProceso => IInv'
<1> SUFFICES ASSUME IInv, IterarProceso PROVE IInv'
  OBVIOUS
<1> DEFINE p == PidEnExec
           l == listaDeHilos[p]
           h == l[cp.i + 1]
<1>1. /\ cp.pc = "iterar" /\ TypeOK /\ hiloEnExec \in Hilos /\ p \in Pids
      /\ pcb[p] = "vivo"
  BY Ejecutando DEF IterarProceso, En, IInv
<1>2. /\ l \in Seq(Hilos) /\ Len(l) <= siguienteTid[p] /\ siguienteTid[p] \in 0 .. CantHilos
      /\ cp.i \in 0 .. CantHilos /\ cp.i < Len(l)
  BY <1>1 DEF IterarProceso, IInv, TypeOK, Listas, Controles
<1>3. cp.i + 1 \in 1 .. Len(l) /\ cp.i + 1 \in 0 .. CantHilos
  BY <1>2, CotasPositivas
<1>4. /\ h \in Hilos
      /\ RemoveAt(l, cp.i + 1) \in Seq(Hilos) /\ Len(RemoveAt(l, cp.i + 1)) <= Len(l)
  BY <1>2, <1>3, QuitarEn
<1>5. /\ listaDeHilos' = [listaDeHilos EXCEPT ![p] = RemoveAt(l, cp.i + 1)]
      /\ UNCHANGED <<pcb, siguienteTid, mutex, varsColas, varsExternas, hiloEnExec,
                     replanificar, caida>>
  BY <1>1 DEF IterarProceso, TypeOK
<1>6. \/ cp' = [cp EXCEPT !.i = @ + 1] /\ UNCHANGED <<tcb, varsExit>>
      \/ finalizar_hilo(h, "proceso", cp.i + 1)
  BY DEF IterarProceso
<1>7. listaDeHilos' \in [Pids -> Seq(Hilos)]
  BY <1>1, <1>4, <1>5 DEF TypeOK
<1>8. Listas'
  BY SMTT(30), <1>1, <1>2, <1>4, <1>5 DEF IInv, Listas, TypeOK
<1> HIDE DEF p, l, h
<1>9. CASE cp' = [cp EXCEPT !.i = @ + 1] /\ UNCHANGED <<tcb, varsExit>>
  <2>1. cp' \in Controles /\ cp'.pc = "iterar"
    BY <1>1, <1>3, <1>9 DEF TypeOK, Controles
  <2>2. TypeOK'
    BY <1>1, <1>5, <1>7, <1>9, <2>1 DEF TypeOK, varsColas, varsExit, varsExternas
  <2>3. Control'
    BY <1>1, <1>5, <1>9, <2>1 DEF p, Control, EnMano, EnFinalizacion, PidEnExec
  <2>4. Salida'
    BY <1>1, <1>9, <2>1 DEF IInv, Salida, SinPost, varsExit
  <2> QED BY <1>8, <2>2, <2>3, <2>4 DEF IInv
<1>10. CASE finalizar_hilo(h, "proceso", cp.i + 1)
  <2>1. FinalizaBien
    BY <1>1, <1>3, <1>4, <1>5, <1>10, Finaliza
  <2>2. TypeOK'
    BY <1>1, <1>5, <1>7, <2>1 DEF FinalizaBien, TypeOK, varsColas, varsExternas
  <2>3. Control'
    BY <1>1, <1>5, <2>1 DEF p, FinalizaBien, Control, EnMano, EnFinalizacion, PidEnExec
  <2>4. Salida'
    BY <2>1 DEF FinalizaBien
  <2> QED BY <1>8, <2>2, <2>3, <2>4 DEF IInv
<1> QED BY <1>6, <1>9, <1>10

LEMMA IInvLiberarProceso == IInv /\ LiberarProceso => IInv'
<1> SUFFICES ASSUME IInv, LiberarProceso PROVE IInv'
  OBVIOUS
<1>1. /\ cp.pc = "iterar" /\ TypeOK /\ hiloEnExec \in Hilos /\ PidEnExec \in Pids
      /\ pcb' = [pcb EXCEPT ![PidEnExec] = "liberado"] /\ Desalojar
      /\ UNCHANGED <<tcb, listaDeHilos, siguienteTid, mutex, varsColas, varsExit,
                     varsExternas, hiloEnExec, caida>>
  BY Ejecutando DEF LiberarProceso, En, IInv
<1>2. cp' \in Controles /\ cp'.pc = "elegir" /\ replanificar' = TRUE
  BY <1>1, DesalojarHecho
<1>3. TypeOK'
  BY <1>1, <1>2 DEF TypeOK, varsColas, varsExit, varsExternas
<1>4. Control' /\ Salida'
  BY <1>1, <1>2, AlVolver DEF varsExit
<1>5. Listas'
  BY <1>1, ListasSinCambio DEF TypeOK
<1> QED BY <1>3, <1>4, <1>5 DEF IInv

LEMMA IInvFinalizacion == IInv /\ Finalizacion => IInv'
BY IInvDespertar, IInvLiberarRecursos, IInvEliminar, IInvIterar, IInvLiberarProceso
   DEF Finalizacion

\* A call after which the scheduler chooses again, or goes on with the caller.
LEMMA IInvVuelve ==
    ASSUME IInv, cp.pc = "ejecutando", Seguir \/ Desalojar,
           UNCHANGED <<varsProceso, varsExit, hiloEnExec, caida>>,
           tcb' \in [Hilos -> Tcbs], mutex' \in [Mutexes -> LosMutex],
           hilosEnReady' \in Seq(Hilos), semHiloEnReady' \in Nat,
           hilosEnBlock' \in [Hilos -> Nat],
           dispositivoIO' \in Seq(Hilos), dumps' \subseteq Hilos
    PROVE  IInv'
<1>1. /\ cp' \in Controles /\ cp'.pc = "elegir" /\ replanificar' \in BOOLEAN
      /\ hiloEnExec \in Hilos /\ TypeOK
  BY SeguirHecho, DesalojarHecho, Ejecutando DEF IInv
<1>2. TypeOK'
  BY <1>1 DEF TypeOK, varsProceso, varsExit
<1>3. Control' /\ Salida'
  BY <1>1, AlVolver DEF varsExit
<1>4. Listas'
  BY ListasSinCambio DEF varsProceso
<1> QED BY <1>2, <1>3, <1>4 DEF IInv

\* A call that finishes the caller.
LEMMA IInvFinaliza ==
    ASSUME IInv, cp.pc = "ejecutando", NEW o \in {"salir", "mutex"},
           finalizar_hilo(hiloEnExec, o, 0),
           UNCHANGED <<varsProceso, mutex, varsColas, varsExternas, hiloEnExec,
                       replanificar, caida>>
    PROVE  IInv'
<1>1. hiloEnExec \in Hilos /\ TypeOK /\ PidEnExec \in Pids /\ pcb[PidEnExec] = "vivo"
  BY Ejecutando DEF IInv
<1>2. FinalizaBien
  BY <1>1, CotasPositivas, Finaliza
<1>3. TypeOK'
  BY <1>1, <1>2 DEF FinalizaBien, TypeOK, varsProceso, varsColas, varsExternas
<1>4. Control'
  BY <1>1, <1>2 DEF FinalizaBien, Control, EnMano, EnFinalizacion, PidEnExec, varsProceso
<1>5. Listas'
  BY ListasSinCambio DEF varsProceso
<1> QED BY <1>2, <1>3, <1>4, <1>5 DEF IInv, FinalizaBien

LEMMA IInvProcesos == IInv /\ (PROCESS_CREATE \/ PROCESS_EXIT) => IInv'
<1> SUFFICES ASSUME IInv, PROCESS_CREATE \/ PROCESS_EXIT PROVE IInv'
  OBVIOUS
<1>1. cp.pc = "ejecutando" /\ TypeOK
  BY DEF PROCESS_CREATE, PROCESS_EXIT, Pide, En, IInv
<1>2. hiloEnExec \in Hilos /\ PidEnExec \in Pids /\ pcb[PidEnExec] = "vivo"
  BY <1>1, Ejecutando
<1>3. CASE PROCESS_CREATE
  <2>1. PICK p \in Pids : pcb[p] = "no" /\ pcb' = [pcb EXCEPT ![p] = "new"]
    BY <1>3 DEF PROCESS_CREATE
  <2>2. /\ Seguir
        /\ UNCHANGED <<tcb, listaDeHilos, siguienteTid, mutex, varsColas, varsExit,
                       varsExternas, hiloEnExec, caida>>
    BY <1>3 DEF PROCESS_CREATE
  <2>3. cp' \in Controles /\ cp'.pc = "elegir" /\ replanificar' = FALSE
    BY <1>1, <2>2, SeguirHecho
  <2>4. TypeOK'
    BY <1>1, <2>1, <2>2, <2>3 DEF TypeOK, varsColas, varsExit, varsExternas
  <2>5. Control' /\ Salida'
    BY <1>1, <1>2, <2>2, <2>3, AlVolver DEF varsExit
  <2>6. Listas'
    BY <1>1, <2>1, <2>2, ListasSinCambio DEF TypeOK
  <2> QED BY <2>4, <2>5, <2>6 DEF IInv
<1>4. CASE PROCESS_EXIT
  <2>1. /\ cp' = [cp EXCEPT !.pc = "iterar", !.i = 0]
        /\ UNCHANGED <<tcb, varsProceso, mutex, varsColas, varsExit, varsExternas,
                       hiloEnExec, replanificar, caida>>
    BY <1>4 DEF PROCESS_EXIT
  <2>2. cp' \in Controles /\ cp'.pc = "iterar"
    <3>1. 0 \in 0 .. CantHilos
      BY CotasPositivas
    <3>2. cp \in Controles
      BY <1>1 DEF TypeOK
    <3> QED BY <2>1, <3>1, <3>2 DEF Controles
  <2>3. TypeOK'
    BY <1>1, <2>1, <2>2 DEF TypeOK, varsProceso, varsColas, varsExit, varsExternas
  <2>4. Control'
    BY <1>2, <2>1, <2>2 DEF Control, EnMano, EnFinalizacion, PidEnExec, varsProceso
  <2>5. Salida'
    BY <1>1, <2>1, <2>2 DEF IInv, Salida, SinPost, varsExit
  <2>6. Listas'
    BY <2>1, ListasSinCambio DEF varsProceso
  <2> QED BY <2>3, <2>4, <2>5, <2>6 DEF IInv
<1> QED BY <1>3, <1>4

LEMMA IInvThreadCreate == IInv /\ THREAD_CREATE => IInv'
<1> SUFFICES ASSUME IInv, THREAD_CREATE PROVE IInv'
  OBVIOUS
<1> DEFINE p == PidEnExec
           h == <<p, siguienteTid[p]>>
<1>1. cp.pc = "ejecutando" /\ TypeOK
  BY DEF THREAD_CREATE, Pide, En, IInv
<1>2. hiloEnExec \in Hilos /\ p \in Pids /\ pcb[p] = "vivo"
  BY <1>1, Ejecutando
<1>3. siguienteTid[p] \in 0 .. CantHilos /\ siguienteTid[p] < CantHilos
  BY <1>1, <1>2 DEF THREAD_CREATE, TypeOK
<1>4. h \in Hilos /\ h[1] = p
  BY <1>2, <1>3, CotasPositivas DEF Hilos, Tids
<1>5. PICK prio \in Prioridades : crear_tcb(h, prio)
  BY DEF THREAD_CREATE
<1>6. /\ Seguir
      /\ hilosEnReady' = Append(hilosEnReady, h)
      /\ semHiloEnReady' = semHiloEnReady + 1
      /\ UNCHANGED <<pcb, mutex, hilosEnBlock, hilosEnExit, semHiloEnExit,
                     varsExternas, hiloEnExec, caida>>
  BY DEF THREAD_CREATE, Encolar
<1> HIDE DEF h
<1>7. tcb' \in [Hilos -> Tcbs]
  BY <1>1, <1>4, <1>5, CrearTcbHecho
<1>8. /\ listaDeHilos' = [listaDeHilos EXCEPT ![p] = Append(@, h)]
      /\ siguienteTid' = [siguienteTid EXCEPT ![p] = @ + 1]
      /\ enMemoria' = enMemoria \cup {h}
  BY <1>4, <1>5 DEF crear_tcb, notificar_a_memoria_creacion_hilo
<1>9. cp' \in Controles /\ cp'.pc = "elegir" /\ replanificar' = FALSE
  BY <1>1, <1>6, SeguirHecho
<1>10. /\ listaDeHilos' \in [Pids -> Seq(Hilos)]
       /\ siguienteTid' \in [Pids -> 0 .. CantHilos]
  BY <1>1, <1>2, <1>3, <1>4, <1>8, CotasPositivas DEF TypeOK
<1>11. TypeOK'
  <2>1. /\ hilosEnReady' \in Seq(Hilos) /\ semHiloEnReady' \in Nat
        /\ enMemoria' \subseteq Hilos /\ replanificar' \in BOOLEAN
    <3>1. /\ hilosEnReady \in Seq(Hilos) /\ semHiloEnReady \in Nat
          /\ enMemoria \subseteq Hilos
      BY <1>1 DEF TypeOK
    <3>2. hilosEnReady' \in Seq(Hilos)
      BY <1>4, <1>6, <3>1
    <3>3. semHiloEnReady' \in Nat
      BY <1>6, <3>1
    <3>4. enMemoria' \subseteq Hilos
      BY <1>4, <1>8, <3>1, Zenon
    <3> QED BY <1>9, <3>2, <3>3, <3>4
  <2> QED BY <1>1, <1>6, <1>7, <1>9, <1>10, <2>1 DEF TypeOK, varsExternas
<1>12. Control' /\ Salida'
  BY <1>1, <1>2, <1>6, <1>9, AlVolver
<1>13. Listas'
  BY <1>1, <1>2, <1>3, <1>4, <1>6, <1>8 DEF IInv, Listas, TypeOK
<1> QED BY <1>11, <1>12, <1>13 DEF IInv

LEMMA IInvThreadCancel == IInv /\ THREAD_CANCEL => IInv'
<1> SUFFICES ASSUME IInv, THREAD_CANCEL PROVE IInv'
  OBVIOUS
<1> DEFINE p == PidEnExec
           l == listaDeHilos[p]
<1>1. cp.pc = "ejecutando" /\ TypeOK
  BY DEF THREAD_CANCEL, Pide, En, IInv
<1>2. hiloEnExec \in Hilos /\ p \in Pids /\ pcb[p] = "vivo"
  BY <1>1, Ejecutando
<1>3. PICK h \in Hilos :
        /\ listaDeHilos' = [listaDeHilos EXCEPT ![p] = RemoveFirst(l, h)]
        /\ \/ Seguir /\ UNCHANGED <<tcb, varsExit>>
           \/ finalizar_hilo(h, "cancelar", 0) /\ UNCHANGED replanificar
  <2>1. PICK tid \in Tids :
          /\ listaDeHilos' = [listaDeHilos EXCEPT ![p] = RemoveFirst(@, <<p, tid>>)]
          /\ \/ Seguir /\ UNCHANGED <<tcb, varsExit>>
             \/ finalizar_hilo(<<p, tid>>, "cancelar", 0) /\ UNCHANGED replanificar
    BY DEF THREAD_CANCEL
  <2>2. <<p, tid>> \in Hilos
    BY <1>2 DEF Hilos
  <2>3. listaDeHilos' = [listaDeHilos EXCEPT ![p] = RemoveFirst(l, <<p, tid>>)]
    BY <2>1
  <2> QED BY <2>1, <2>2, <2>3
<1>4. /\ l \in Seq(Hilos) /\ RemoveFirst(l, h) \in Seq(Hilos)
      /\ Len(RemoveFirst(l, h)) <= Len(l)
  BY <1>1, <1>2, TipoQuitarPrimero DEF TypeOK
<1>5. UNCHANGED <<pcb, siguienteTid, mutex, varsColas, varsExternas, hiloEnExec, caida>>
  BY DEF THREAD_CANCEL
<1>6. listaDeHilos' \in [Pids -> Seq(Hilos)]
  BY <1>1, <1>2, <1>3, <1>4 DEF TypeOK
<1>7. Listas'
  BY <1>1, <1>2, <1>3, <1>4, <1>5 DEF IInv, Listas, TypeOK
<1> HIDE DEF p, l
<1>8. CASE Seguir /\ UNCHANGED <<tcb, varsExit>>
  <2>1. cp' \in Controles /\ cp'.pc = "elegir" /\ replanificar' = FALSE
    BY <1>1, <1>8, SeguirHecho
  <2>2. TypeOK'
    BY <1>1, <1>5, <1>6, <1>8, <2>1 DEF TypeOK, varsColas, varsExit, varsExternas
  <2>3. Control' /\ Salida'
    BY <1>1, <1>2, <1>5, <1>8, <2>1, AlVolver DEF varsExit
  <2> QED BY <1>7, <2>2, <2>3 DEF IInv
<1>9. CASE finalizar_hilo(h, "cancelar", 0) /\ UNCHANGED replanificar
  <2>1. FinalizaBien
    BY <1>1, <1>9, CotasPositivas, Finaliza
  <2>2. TypeOK'
    BY <1>1, <1>5, <1>6, <1>9, <2>1 DEF FinalizaBien, TypeOK, varsColas, varsExternas
  <2>3. Control'
    BY <1>2, <1>5, <2>1 DEF p, FinalizaBien, Control, EnMano, EnFinalizacion, PidEnExec
  <2> QED BY <1>7, <2>1, <2>2, <2>3 DEF IInv, FinalizaBien
<1> QED BY <1>3, <1>8, <1>9

LEMMA IInvMutexes == IInv /\ (MUTEX_CREATE \/ MUTEX_LOCK \/ MUTEX_UNLOCK) => IInv'
<1> SUFFICES ASSUME IInv, MUTEX_CREATE \/ MUTEX_LOCK \/ MUTEX_UNLOCK PROVE IInv'
  OBVIOUS
<1>1. /\ cp.pc = "ejecutando" /\ TypeOK
      /\ UNCHANGED <<varsProceso, varsExternas, hiloEnExec, caida>>
  BY DEF MUTEX_CREATE, MUTEX_LOCK, MUTEX_UNLOCK, Pide, En, IInv
<1>2. /\ hiloEnExec \in Hilos /\ PidEnExec \in Pids
      /\ dispositivoIO' \in Seq(Hilos) /\ dumps' \subseteq Hilos
      /\ \A r \in Recursos : <<PidEnExec, r>> \in Mutexes
  BY <1>1, Ejecutando DEF TypeOK, varsExternas, Mutexes
<1>3. /\ tcb \in [Hilos -> Tcbs] /\ mutex \in [Mutexes -> LosMutex]
      /\ hilosEnReady \in Seq(Hilos) /\ semHiloEnReady \in Nat
      /\ hilosEnBlock \in [Hilos -> Nat] /\ hiloEnExec \in HiloONulo /\ NULO \in HiloONulo
  BY <1>1, <1>2 DEF TypeOK, HiloONulo
<1>4. CASE MUTEX_CREATE
  <2>1. PICK r \in Recursos : mutex' = [mutex EXCEPT ![<<PidEnExec, r>>].creado = TRUE]
    BY <1>4 DEF MUTEX_CREATE
  <2>2. mutex' \in [Mutexes -> LosMutex]
    BY <1>2, <1>3, <2>1 DEF LosMutex
  <2>3. Seguir /\ UNCHANGED <<tcb, varsColas, varsExit>>
    BY <1>4 DEF MUTEX_CREATE
  <2> QED BY <1>1, <1>2, <1>3, <2>2, <2>3, IInvVuelve DEF varsColas
<1>5. CASE MUTEX_LOCK
  <2>1. PICK m \in Mutexes :
          \/ (LockLibre(m) \/ LockTomado(m)) /\ UNCHANGED varsExit
          \/ /\ finalizar_hilo(hiloEnExec, "mutex", 0)
             /\ UNCHANGED <<mutex, hilosEnBlock, replanificar>>
    BY <1>2, <1>5 DEF MUTEX_LOCK
  <2>2. UNCHANGED <<hilosEnReady, semHiloEnReady>>
    BY <1>5 DEF MUTEX_LOCK
  <2>3. CASE LockLibre(m) /\ UNCHANGED varsExit
    <3>1. mutex' \in [Mutexes -> LosMutex]
      BY <1>3, <2>3 DEF LockLibre, LosMutex
    <3> QED BY <1>1, <1>2, <1>3, <2>2, <2>3, <3>1, IInvVuelve DEF LockLibre
  <2>4. CASE LockTomado(m) /\ UNCHANGED varsExit
    <3>1. tcb' \in [Hilos -> Tcbs] /\ mutex' \in [Mutexes -> LosMutex]
      BY <1>1, <1>2, <2>4, LockTomadoHecho
    <3>2. hilosEnBlock' \in [Hilos -> Nat] /\ Desalojar
      BY <1>2, <1>3, <2>4 DEF LockTomado
    <3> QED BY <1>1, <1>2, <1>3, <2>2, <2>4, <3>1, <3>2, IInvVuelve
  <2>5. CASE /\ finalizar_hilo(hiloEnExec, "mutex", 0)
             /\ UNCHANGED <<mutex, hilosEnBlock, replanificar>>
    BY <1>1, <2>2, <2>5, IInvFinaliza DEF varsColas
  <2> QED BY <2>1, <2>3, <2>4, <2>5
<1>6. CASE MUTEX_UNLOCK
  <2>1. PICK m \in Mutexes :
          \/ /\ UnlockSinEspera(m) \/ UnlockConEspera(m)
             /\ Seguir /\ UNCHANGED varsExit
          \/ UnlockAjeno(m)
    BY <1>2, <1>6 DEF MUTEX_UNLOCK
  <2>2. CASE UnlockSinEspera(m) /\ Seguir /\ UNCHANGED varsExit
    <3>1. mutex' \in [Mutexes -> LosMutex]
      BY <1>3, <2>2 DEF UnlockSinEspera, LosMutex
    <3>2. UNCHANGED <<tcb, varsColas>>
      BY <2>2 DEF UnlockSinEspera
    <3> QED BY <1>1, <1>2, <1>3, <2>2, <3>1, <3>2, IInvVuelve DEF varsColas
  <2>3. CASE UnlockConEspera(m) /\ Seguir /\ UNCHANGED varsExit
    <3>1. /\ tcb' \in [Hilos -> Tcbs] /\ mutex' \in [Mutexes -> LosMutex]
          /\ hilosEnReady' \in Seq(Hilos) /\ semHiloEnReady' \in Nat
          /\ hilosEnBlock' \in [Hilos -> Nat]
      BY <1>1, <2>3, UnlockHecho
    <3> QED BY <1>1, <1>2, <2>3, <3>1, IInvVuelve
  <2>4. CASE UnlockAjeno(m)
    BY <1>1, <2>4, IInvFinaliza DEF UnlockAjeno
  <2> QED BY <2>1, <2>2, <2>3, <2>4
<1> QED BY <1>4, <1>5, <1>6

\* The calls that block the caller, the end of its quantum, and the calls
\* that change nothing.
LEMMA IInvEsperas ==
    IInv /\ (THREAD_JOIN \/ SinEseHilo \/ IO \/ DUMP_MEMORY \/ FIN_DE_QUANTUM) => IInv'
<1> SUFFICES ASSUME IInv, THREAD_JOIN \/ SinEseHilo \/ IO \/ DUMP_MEMORY \/ FIN_DE_QUANTUM
             PROVE  IInv'
  OBVIOUS
<1>1. /\ cp.pc = "ejecutando" /\ TypeOK
      /\ UNCHANGED <<varsProceso, mutex, varsExit, hiloEnExec, caida>>
  BY DEF THREAD_JOIN, SinEseHilo, IO, DUMP_MEMORY, FIN_DE_QUANTUM, Pide, En, IInv
<1>2. hiloEnExec \in Hilos
  BY <1>1, Ejecutando
<1>3. /\ tcb \in [Hilos -> Tcbs] /\ mutex' \in [Mutexes -> LosMutex]
      /\ hilosEnReady \in Seq(Hilos) /\ semHiloEnReady \in Nat
      /\ hilosEnBlock \in [Hilos -> Nat]
      /\ dispositivoIO \in Seq(Hilos) /\ dumps \subseteq Hilos
  BY <1>1 DEF TypeOK
<1>4. CASE THREAD_JOIN
  <2>1. tcb' \in [Hilos -> Tcbs]
    BY <1>1, <1>2, <1>4, JoinHecho
  <2>2. /\ hilosEnBlock' = [hilosEnBlock EXCEPT ![hiloEnExec] = @ + 1] /\ Desalojar
        /\ UNCHANGED <<hilosEnReady, semHiloEnReady, varsExternas>>
    BY <1>4 DEF THREAD_JOIN
  <2>3. hilosEnBlock' \in [Hilos -> Nat]
    BY <1>2, <1>3, <2>2
  <2> QED BY <1>1, <1>3, <2>1, <2>2, <2>3, IInvVuelve DEF varsExternas
<1>5. CASE SinEseHilo
  <2>1. Seguir /\ UNCHANGED <<tcb, varsColas, varsExternas>>
    BY <1>5 DEF SinEseHilo
  <2> QED BY <1>1, <1>3, <2>1, IInvVuelve DEF varsColas, varsExternas
<1>6. CASE IO
  <2>1. tcb' \in [Hilos -> Tcbs]
    BY <1>1, <1>2, <1>6, IOHecho
  <2>2. /\ hilosEnBlock' = [hilosEnBlock EXCEPT ![hiloEnExec] = @ + 1] /\ Desalojar
        /\ dispositivoIO' = Append(dispositivoIO, hiloEnExec)
        /\ UNCHANGED <<hilosEnReady, semHiloEnReady, dumps>>
    BY <1>6 DEF IO
  <2>3. hilosEnBlock' \in [Hilos -> Nat] /\ dispositivoIO' \in Seq(Hilos)
    BY <1>2, <1>3, <2>2
  <2> QED BY <1>1, <1>3, <2>1, <2>2, <2>3, IInvVuelve
<1>7. CASE DUMP_MEMORY
  <2>1. tcb' \in [Hilos -> Tcbs]
    BY <1>1, <1>2, <1>7, DumpHecho
  <2>2. /\ hilosEnBlock' = [hilosEnBlock EXCEPT ![hiloEnExec] = @ + 1] /\ Desalojar
        /\ dumps' = dumps \cup {hiloEnExec}
        /\ UNCHANGED <<hilosEnReady, semHiloEnReady, dispositivoIO>>
    BY <1>7 DEF DUMP_MEMORY
  <2>3. hilosEnBlock' \in [Hilos -> Nat] /\ dumps' \subseteq Hilos
    BY <1>2, <1>3, <2>2
  <2> QED BY <1>1, <1>3, <2>1, <2>2, <2>3, IInvVuelve
<1>8. CASE FIN_DE_QUANTUM
  <2>1. /\ transicion_a_ready(hiloEnExec, tcb, PuedeIrAReady(hiloEnExec)) /\ Desalojar
        /\ UNCHANGED <<hilosEnBlock, varsExternas>>
    BY <1>8 DEF FIN_DE_QUANTUM
  <2>2. PuedeIrAReady(hiloEnExec) \in BOOLEAN
    BY DEF PuedeIrAReady
  <2>3. tcb' \in [Hilos -> Tcbs] /\ hilosEnReady' \in Seq(Hilos) /\ semHiloEnReady' \in Nat
    BY <1>1, <1>2, <1>3, <2>1, <2>2, Transicion
  <2> QED BY <1>1, <1>3, <2>1, <2>3, IInvVuelve DEF varsExternas
<1> QED BY <1>4, <1>5, <1>6, <1>7, <1>8

LEMMA IInvSegmentationFault == IInv /\ SEGMENTATION_FAULT => IInv'
<1> SUFFICES ASSUME IInv, SEGMENTATION_FAULT PROVE IInv'
  OBVIOUS
<1>1. /\ cp.pc = "ejecutando" /\ TypeOK
      /\ UNCHANGED <<tcb, varsProceso, mutex, varsColas, varsExit, varsExternas,
                     hiloEnExec, replanificar>>
      /\ \/ cp' = [cp EXCEPT !.pc = "iterar", !.i = CantHilos]
         \/ cp' = cp
         \/ cp' = [cp EXCEPT !.pc = "colgado"]
      /\ caida' \in BOOLEAN
  BY DEF SEGMENTATION_FAULT, Pide, En, IInv, TypeOK
<1>2. hiloEnExec \in Hilos /\ PidEnExec \in Pids /\ pcb[PidEnExec] = "vivo"
  BY <1>1, Ejecutando
<1>3. cp' \in Controles /\ cp'.pc \in {"iterar", "ejecutando", "colgado"}
  <2>1. CantHilos \in 0 .. CantHilos /\ cp \in Controles
    BY <1>1, CotasPositivas DEF TypeOK
  <2>2. CASE cp' = [cp EXCEPT !.pc = "iterar", !.i = CantHilos]
    BY <2>1, <2>2 DEF Controles
  <2>3. CASE cp' = cp
    BY <1>1, <2>1, <2>3
  <2>4. CASE cp' = [cp EXCEPT !.pc = "colgado"]
    BY <2>1, <2>4 DEF Controles
  <2> QED BY <1>1, <2>2, <2>3, <2>4
<1>4. TypeOK'
  BY <1>1, <1>3 DEF TypeOK, varsProceso, varsColas, varsExit, varsExternas
<1>5. Control'
  BY <1>1, <1>2, <1>3
     DEF IInv, Control, EnMano, EnFinalizacion, PidEnExec, varsProceso, varsExit
<1>6. Salida'
  BY <1>1, <1>3 DEF IInv, Salida, SinPost, varsExit
<1>7. Listas'
  BY <1>1, ListasSinCambio DEF varsProceso
<1> QED BY <1>4, <1>5, <1>6, <1>7 DEF IInv

LEMMA IInvSystemCall == IInv /\ SystemCall => IInv'
<1> SUFFICES ASSUME IInv, SystemCall PROVE IInv'
  OBVIOUS
<1>1. CASE THREAD_EXIT
  <2>1. /\ cp.pc = "ejecutando" /\ finalizar_hilo(hiloEnExec, "salir", 0)
        /\ UNCHANGED <<varsProceso, mutex, varsColas, varsExternas, hiloEnExec,
                       replanificar, caida>>
    BY <1>1 DEF THREAD_EXIT, Pide, En
  <2> QED BY <2>1, IInvFinaliza
<1> QED
  BY <1>1, IInvProcesos, IInvThreadCreate, IInvThreadCancel, IInvMutexes, IInvEsperas,
     IInvSegmentationFault DEF SystemCall

LEMMA IInvAlrededor == IInv /\ Alrededor => IInv'
<1> SUFFICES ASSUME IInv, Alrededor PROVE IInv'
  OBVIOUS
<1>0. TypeOK
  BY DEF IInv
<1>1. CASE FinalizadorDeHilos
  <2> DEFINE h == Head(hilosEnExit)
             p == h[1]
  <2>1. /\ semHiloEnExit > 0 /\ semHiloEnExit' = semHiloEnExit - 1
        /\ hilosEnExit' = Tail(hilosEnExit) /\ liberar_tcb(h)
        /\ UNCHANGED <<pcb, siguienteTid, mutex, varsColas, enMemoria, varsExternas, varsCP>>
    BY <1>1 DEF FinalizadorDeHilos
  <2>2. hilosEnExit \in Seq(Hilos) /\ semHiloEnExit \in Nat
    BY <1>0 DEF TypeOK
  <2>3. hilosEnExit # <<>>
    <3>1. Len(hilosEnExit) = semHiloEnExit + SinPost /\ SinPost \in {0, 1}
      BY DEF IInv, Salida, SinPost
    <3> QED BY <2>1, <2>2, <3>1
  <2>4. /\ h \in Hilos /\ p \in Pids
        /\ hilosEnExit' \in Seq(Hilos) /\ Len(hilosEnExit') = Len(hilosEnExit) - 1
        /\ semHiloEnExit' \in Nat
    BY <2>1, <2>2, <2>3, PartesDeHilo
  <2>5. tcb' \in [Hilos -> Tcbs]
    BY <1>0, <2>1, <2>4, LiberarTcbHecho
  <2>6. /\ caida' \in BOOLEAN
        /\ \/ listaDeHilos' = [listaDeHilos EXCEPT ![p] = RemoveFirst(@, h)]
           \/ UNCHANGED listaDeHilos
    BY <2>1 DEF liberar_tcb
  <2> DEFINE l == listaDeHilos[p]
             q == RemoveFirst(l, h)
  <2>7. l \in Seq(Hilos) /\ q \in Seq(Hilos) /\ Len(q) <= Len(l)
    BY <1>0, <2>4, TipoQuitarPrimero DEF TypeOK
  <2>8. \/ listaDeHilos' = [listaDeHilos EXCEPT ![p] = q]
        \/ UNCHANGED listaDeHilos
    BY <2>6
  <2>9. listaDeHilos' \in [Pids -> Seq(Hilos)]
    BY <1>0, <2>4, <2>7, <2>8 DEF TypeOK
  <2> HIDE DEF h
  <2>10. Listas'
    <3>1. CASE UNCHANGED listaDeHilos
      BY <2>1, <3>1, ListasSinCambio
    <3>2. CASE listaDeHilos' = [listaDeHilos EXCEPT ![p] = q]
      <4> HIDE DEF p, q
      <4>1. Len(q) <= siguienteTid[p]
        BY <1>0, <2>4, <2>7 DEF IInv, Listas, TypeOK, l
      <4> QED BY <1>0, <2>1, <2>4, <3>2, <4>1 DEF IInv, Listas, TypeOK
    <3> QED BY <2>8, <3>1, <3>2
  <2>11. TypeOK'
    BY <1>0, <2>1, <2>4, <2>5, <2>6, <2>9 DEF TypeOK, varsColas, varsExternas, varsCP
  <2>12. Control'
    BY <2>1, ControlSinCambio
  <2>13. Salida'
    BY <2>1, <2>2, <2>4 DEF IInv, Salida, SinPost, varsCP
  <2> QED BY <2>10, <2>11, <2>12, <2>13 DEF IInv
<1>2. ASSUME tcb' \in [Hilos -> Tcbs], hilosEnReady' \in Seq(Hilos),
             semHiloEnReady' \in Nat, hilosEnBlock' \in [Hilos -> Nat],
             dispositivoIO' \in Seq(Hilos), dumps' \subseteq Hilos, caida' \in BOOLEAN,
             UNCHANGED <<varsProceso, mutex, varsExit, varsCP>>
      PROVE  IInv'
  <2>1. TypeOK'
    BY <1>0, <1>2 DEF TypeOK, varsProceso, varsExit, varsCP
  <2>2. Control'
    BY <1>2, ControlSinCambio DEF varsProceso, varsExit
  <2>3. Salida'
    BY <1>2 DEF IInv, Salida, SinPost, varsExit, varsCP
  <2>4. Listas'
    BY <1>2, ListasSinCambio DEF varsProceso
  <2> QED BY <2>1, <2>2, <2>3, <2>4 DEF IInv
<1>3. CASE AtenderIO
  <2>1. /\ tcb' \in [Hilos -> Tcbs] /\ hilosEnReady' \in Seq(Hilos)
        /\ semHiloEnReady' \in Nat
        /\ dispositivoIO # <<>> /\ dispositivoIO' = Tail(dispositivoIO)
    BY <1>0, <1>3, AtenderIOHecho
  <2>2. UNCHANGED <<varsProceso, mutex, hilosEnBlock, varsExit, dumps, varsCP, caida>>
    BY <1>3 DEF AtenderIO
  <2>3. /\ dispositivoIO' \in Seq(Hilos) /\ dumps' \subseteq Hilos
        /\ hilosEnBlock' \in [Hilos -> Nat] /\ caida' \in BOOLEAN
    BY <1>0, <2>1, <2>2 DEF TypeOK
  <2> QED BY <1>2, <2>1, <2>2, <2>3
<1>4. ASSUME NEW h \in Hilos, DumpTerminado(h) PROVE IInv'
  <2>1. /\ tcb' \in [Hilos -> Tcbs] /\ hilosEnReady' \in Seq(Hilos)
        /\ semHiloEnReady' \in Nat /\ hilosEnBlock' \in [Hilos -> Nat]
        /\ caida' \in BOOLEAN
    BY <1>0, <1>4, DumpTerminadoHecho DEF TypeOK, varsColas
  <2>2. /\ dumps' = dumps \ {h}
        /\ UNCHANGED <<varsProceso, mutex, varsExit, dispositivoIO, varsCP>>
    BY <1>4 DEF DumpTerminado
  <2>3. dispositivoIO' \in Seq(Hilos) /\ dumps' \subseteq Hilos
    BY <1>0, <2>2 DEF TypeOK
  <2> QED BY <1>2, <2>1, <2>2, <2>3
<1>5. ASSUME NEW h \in Hilos, DumpFallido(h) PROVE IInv'
  <2>1. /\ cp.pc = "ejecutando" /\ cp' = [cp EXCEPT !.pc = "colgado"]
        /\ dumps' = dumps \ {h}
        /\ UNCHANGED <<tcb, varsProceso, mutex, varsColas, varsExit, dispositivoIO,
                       hiloEnExec, replanificar, caida>>
    BY <1>5 DEF DumpFallido, En
  <2>2. cp' \in Controles /\ cp'.pc = "colgado" /\ hiloEnExec \in Hilos
    BY <1>0, <2>1, Ejecutando DEF TypeOK, Controles
  <2>3. TypeOK'
    BY <1>0, <2>1, <2>2 DEF TypeOK, varsProceso, varsColas, varsExit
  <2>4. Control'
    BY <2>1, <2>2 DEF Control, EnMano, EnFinalizacion
  <2>5. Salida'
    BY <2>1, <2>2 DEF IInv, Salida, SinPost, varsExit
  <2>6. Listas'
    BY <2>1, ListasSinCambio DEF varsProceso
  <2> QED BY <2>3, <2>4, <2>5, <2>6 DEF IInv
<1> QED BY <1>1, <1>3, <1>4, <1>5 DEF Alrededor

LEMMA IInvInductivo == IInv /\ [Next]_vars => IInv'
<1> SUFFICES ASSUME IInv, [Next]_vars PROVE IInv'
  OBVIOUS
<1>1. CASE UNCHANGED vars
  <2>1. TypeOK'
    BY <1>1 DEF IInv, TypeOK, vars
  <2>2. Control' /\ Salida' /\ Listas'
    BY <1>1 DEF IInv, Control, EnMano, EnFinalizacion, PidEnExec, Salida, SinPost, Listas, vars
  <2> QED BY <2>1, <2>2 DEF IInv
<1> QED
  BY <1>1, IInvLargoPlazo, IInvCortoPlazo, IInvFinalizacion, IInvSystemCall, IInvAlrededor
     DEF Next

LEMMA SiempreIInv == Spec => []IInv
BY InicioIInv, IInvInductivo, PTL DEF Spec

\* Whatever the threads ask for and however their steps interleave, every
\* variable keeps its type: no queue holds anything but threads, no semaphore
\* is negative, no index of finalizar_proceso is beyond the list, and every
\* thread the scheduler works for exists.
THEOREM TiposSiempre == Spec => []TypeOK
<1>1. IInv => TypeOK
  BY DEF IInv
<1> QED BY <1>1, SiempreIInv, PTL
-----------------------------------------------------------------------------
(* Threads in hilosEnReady and tokens in its semaphore.                    *)

Sobran == semHiloEnReady - Len(hilosEnReady)

\* Only finishing another thread leaves a token without its thread.
LEMMA FichasEnSystemCall ==
    IInv /\ SystemCall => Sobran' = Sobran
<1> SUFFICES ASSUME IInv, SystemCall PROVE Sobran' = Sobran
  OBVIOUS
<1>1. /\ TypeOK /\ hilosEnReady \in Seq(Hilos) /\ semHiloEnReady \in Nat
      /\ Len(hilosEnReady) \in Nat
  BY DEF IInv, TypeOK
<1>2. CASE UNCHANGED <<hilosEnReady, semHiloEnReady>>
  BY <1>2 DEF Sobran
<1>3. CASE THREAD_CREATE
  <2>1. hilosEnReady' = Append(hilosEnReady, <<PidEnExec, siguienteTid[PidEnExec]>>)
        /\ semHiloEnReady' = semHiloEnReady + 1
    BY <1>3 DEF THREAD_CREATE, Encolar
  <2> DEFINE h == <<PidEnExec, siguienteTid[PidEnExec]>>
  <2>2. hilosEnReady' = Append(hilosEnReady, h)
    BY <2>1
  <2> HIDE DEF h
  <2>3. Len(hilosEnReady') = Len(hilosEnReady) + 1
    BY <1>1, <2>2
  <2> QED BY <1>1, <2>1, <2>3 DEF Sobran
<1>4. CASE FIN_DE_QUANTUM
  <2>1. /\ cp.pc = "ejecutando"
        /\ transicion_a_ready(hiloEnExec, tcb, PuedeIrAReady(hiloEnExec))
    BY <1>4 DEF FIN_DE_QUANTUM, En
  <2>2. hiloEnExec \in Hilos /\ tcb \in [Hilos -> Tcbs]
    BY <1>1, <2>1, Ejecutando DEF TypeOK
  <2>3. PuedeIrAReady(hiloEnExec) \in BOOLEAN
    BY DEF PuedeIrAReady
  <2>4. /\ hilosEnReady' \in Seq(Hilos) /\ semHiloEnReady' \in Nat
        /\ Len(hilosEnReady') - semHiloEnReady' = Len(hilosEnReady) - semHiloEnReady
    BY <1>1, <2>1, <2>2, <2>3, Transicion
  <2> QED BY <1>1, <2>4 DEF Sobran
<1>5. ASSUME NEW m \in Mutexes, UnlockConEspera(m) PROVE Sobran' = Sobran
  <2>1. /\ hilosEnReady' \in Seq(Hilos) /\ semHiloEnReady' \in Nat
        /\ Len(hilosEnReady') - semHiloEnReady' = Len(hilosEnReady) - semHiloEnReady
    BY <1>1, <1>5, UnlockHecho
  <2> QED BY <1>1, <2>1 DEF Sobran
<1>6. CASE MUTEX_UNLOCK
  <2>1. cp.pc = "ejecutando"
    BY <1>6 DEF MUTEX_UNLOCK, Pide, En
  <2>2. PICK r \in Recursos :
          \/ UnlockSinEspera(<<PidEnExec, r>>) \/ UnlockConEspera(<<PidEnExec, r>>)
          \/ UnlockAjeno(<<PidEnExec, r>>)
    BY <1>6 DEF MUTEX_UNLOCK
  <2>3. <<PidEnExec, r>> \in Mutexes
    BY <2>1, Ejecutando DEF Mutexes
  <2> QED BY <1>2, <1>5, <2>2, <2>3 DEF UnlockSinEspera, UnlockAjeno, varsColas
<1>7. CASE ~(THREAD_CREATE \/ FIN_DE_QUANTUM \/ MUTEX_UNLOCK)
  BY <1>2, <1>7
     DEF SystemCall, PROCESS_CREATE, PROCESS_EXIT, THREAD_EXIT, THREAD_JOIN, THREAD_CANCEL,
         SinEseHilo, MUTEX_CREATE, MUTEX_LOCK, IO, DUMP_MEMORY, SEGMENTATION_FAULT, varsColas
<1> QED BY <1>3, <1>4, <1>6, <1>7

LEMMA Fichas ==
    IInv /\ [Next]_vars =>
       \/ Sobran' = Sobran
       \/ EliminarDeColas /\ Sobran' >= Sobran
<1> SUFFICES ASSUME IInv, [Next]_vars
             PROVE  Sobran' = Sobran \/ (EliminarDeColas /\ Sobran' >= Sobran)
  OBVIOUS
<1>1. /\ TypeOK /\ hilosEnReady \in Seq(Hilos) /\ semHiloEnReady \in Nat
      /\ Len(hilosEnReady) \in Nat
  BY DEF IInv, TypeOK
<1>2. ASSUME UNCHANGED <<hilosEnReady, semHiloEnReady>> PROVE Sobran' = Sobran
  BY <1>2 DEF Sobran
<1>3. ASSUME hilosEnReady' \in Seq(Hilos), semHiloEnReady' \in Nat,
             Len(hilosEnReady') - semHiloEnReady' = Len(hilosEnReady) - semHiloEnReady
      PROVE  Sobran' = Sobran
  <2>1. Len(hilosEnReady') \in Nat
    BY <1>3
  <2> QED BY <1>1, <1>3, <2>1 DEF Sobran
<1>4. CASE LargoPlazo
  <2>1. PICK p \in Pids : Encolar(<<p, 0>>)
    BY <1>4 DEF LargoPlazo, AdmitirProceso
  <2>2. Len(hilosEnReady') = Len(hilosEnReady) + 1 /\ semHiloEnReady' = semHiloEnReady + 1
    BY <1>1, <2>1 DEF Encolar
  <2> QED BY <1>1, <2>2 DEF Sobran
<1>5. CASE CortoPlazo
  <2>1. CASE ElegirHilo
    <3>1. PICK i \in Elegidos : hilosEnReady' = RemoveAt(hilosEnReady, i)
      BY <2>1 DEF ElegirHilo
    <3>2. i \in 1 .. Len(hilosEnReady)
      BY <1>1, ElegidosEstan
    <3>3. Len(hilosEnReady') = Len(hilosEnReady) - 1
      BY <1>1, <3>1, <3>2, QuitarEn
    <3>4. semHiloEnReady' = semHiloEnReady - 1
      BY <2>1 DEF ElegirHilo
    <3> QED BY <1>1, <3>3, <3>4 DEF Sobran
  <2>2. CASE ElegirSinHilos \/ ContinuarHilo
    BY <1>2, <2>2 DEF ElegirSinHilos, ContinuarHilo, varsColas
  <2> QED BY <1>5, <2>1, <2>2 DEF CortoPlazo
<1>6. CASE Finalizacion
  <2>1. CASE DespertarPorJoin
    <3>1. cp.hilo \in Hilos
      BY <2>1 DEF DespertarPorJoin, En, IInv, Control, EnFinalizacion
    <3>2. \/ UNCHANGED <<hilosEnReady, semHiloEnReady>>
          \/ /\ hilosEnReady' \in Seq(Hilos) /\ semHiloEnReady' \in Nat
             /\ Len(hilosEnReady') - semHiloEnReady' = Len(hilosEnReady) - semHiloEnReady
      BY <1>1, <2>1, <3>1, DespertarHecho DEF varsColas
    <3> QED BY <1>2, <1>3, <3>2
  <2>2. CASE LiberarRecursosMutex
    <3>1. cp.hilo \in Hilos
      BY <2>2 DEF LiberarRecursosMutex, En, IInv, Control, EnFinalizacion
    <3>2. /\ hilosEnReady' \in Seq(Hilos) /\ semHiloEnReady' \in Nat
          /\ Len(hilosEnReady') - semHiloEnReady' = Len(hilosEnReady) - semHiloEnReady
      BY <1>1, <2>2, <3>1, LiberarHecho
    <3> QED BY <1>3, <3>2
  <2>3. CASE EliminarDeColas
    <3>1. UNCHANGED semHiloEnReady
      BY <2>3 DEF EliminarDeColas
    <3>2. \/ UNCHANGED hilosEnReady
          \/ hilosEnReady' = RemoveFirst(hilosEnReady, cp.hilo)
      BY <2>3 DEF EliminarDeColas
    <3>3. hilosEnReady' \in Seq(Hilos) /\ Len(hilosEnReady') <= Len(hilosEnReady)
      BY <1>1, <3>2, TipoQuitarPrimero
    <3>4. Len(hilosEnReady') \in Nat
      BY <3>3
    <3>5. Sobran' >= Sobran
      BY <1>1, <3>1, <3>3, <3>4 DEF Sobran
    <3> QED BY <2>3, <3>5
  <2>4. CASE IterarProceso \/ LiberarProceso
    BY <1>2, <2>4 DEF IterarProceso, LiberarProceso, varsColas
  <2> QED BY <1>6, <2>1, <2>2, <2>3, <2>4 DEF Finalizacion
<1>7. CASE SystemCall
  BY <1>7, FichasEnSystemCall
<1>8. CASE Alrededor
  <2>1. CASE FinalizadorDeHilos
    BY <1>2, <2>1 DEF FinalizadorDeHilos, varsColas
  <2>2. CASE AtenderIO
    <3>1. /\ hilosEnReady' \in Seq(Hilos) /\ semHiloEnReady' \in Nat
          /\ Len(hilosEnReady') - semHiloEnReady' = Len(hilosEnReady) - semHiloEnReady
      BY <1>1, <2>2, AtenderIOHecho
    <3> QED BY <1>3, <3>1
  <2>3. ASSUME NEW h \in Hilos, DumpTerminado(h) PROVE Sobran' = Sobran
    <3>1. \/ UNCHANGED <<hilosEnReady, semHiloEnReady>>
          \/ /\ hilosEnReady' \in Seq(Hilos) /\ semHiloEnReady' \in Nat
             /\ Len(hilosEnReady') - semHiloEnReady' = Len(hilosEnReady) - semHiloEnReady
      BY <1>1, <2>3, DumpTerminadoHecho DEF varsColas
    <3> QED BY <1>2, <1>3, <3>1
  <2>4. ASSUME NEW h \in Hilos, DumpFallido(h) PROVE Sobran' = Sobran
    BY <1>2, <2>4 DEF DumpFallido, varsColas
  <2> QED BY <1>8, <2>1, <2>2, <2>3, <2>4 DEF Alrededor
<1>9. CASE UNCHANGED vars
  BY <1>2, <1>9 DEF vars
<1> QED BY <1>4, <1>5, <1>6, <1>7, <1>8, <1>9 DEF Next

\* A ready thread never lacks the token that wakes the scheduler up for it:
\* whoever puts it in Ready posts once, the scheduler takes a token for each
\* thread it takes off, and cancels and process exits, which take threads off
\* behind the semaphore's back, only leave tokens in excess.
THEOREM FichasAlcanzanSiempre == Spec => []FichasAlcanzan
<1> DEFINE J == IInv /\ Sobran >= 0
<1>1. Init => J
  <2> SUFFICES ASSUME Init PROVE Sobran >= 0
    BY InicioIInv
  <2>1. hilosEnReady = <<>> /\ semHiloEnReady = 0
    BY DEF Init
  <2> QED BY <2>1 DEF Sobran
<1>2. J /\ [Next]_vars => J'
  <2> SUFFICES ASSUME J, [Next]_vars PROVE Sobran' >= 0
    BY IInvInductivo
  <2>1. Sobran' = Sobran \/ Sobran' >= Sobran
    BY Fichas
  <2>2. IInv'
    BY IInvInductivo
  <2>3. Sobran \in Int /\ Sobran' \in Int
    BY <2>2 DEF IInv, TypeOK, Sobran
  <2> QED BY <2>1, <2>3
<1>3. J => FichasAlcanzan
  <2> SUFFICES ASSUME J PROVE FichasAlcanzan
    OBVIOUS
  <2>1. hilosEnReady \in Seq(Hilos) /\ semHiloEnReady \in Nat
    BY DEF IInv, TypeOK
  <2> QED BY <2>1 DEF Sobran, FichasAlcanzan
<1> QED BY <1>1, <1>2, <1>3, PTL DEF Spec

\* The scheduler is not finishing a thread that somebody else cancelled, nor
\* those of a process.
SinBajas ==
    /\ cp.pc \notin {"eliminar", "iterar"}
    /\ cp.origen \in {"", "salir", "mutex"}

Bajas == {"THREAD_CANCEL", "PROCESS_EXIT", "SEGMENTATION_FAULT"}

LEMMA SinBajasInductivo ==
    ASSUME Syscalls \cap Bajas = {}, IInv, SinBajas, [Next]_vars
    PROVE  SinBajas'
<1>1. TypeOK /\ cp \in Controles
  BY DEF IInv, TypeOK
<1>2. ASSUME Seguir \/ Desalojar PROVE SinBajas'
  BY <1>1, <1>2, SeguirHecho, DesalojarHecho DEF SinBajas
<1>3. ASSUME NEW pc \in {"ejecutando", "recursos", "colgado"}, cp' = [cp EXCEPT !.pc = pc]
      PROVE  SinBajas'
  BY <1>1, <1>3 DEF SinBajas, Controles
<1>4. ASSUME NEW h, NEW o \in {"salir", "mutex"}, finalizar_hilo(h, o, 0) PROVE SinBajas'
  BY <1>4 DEF finalizar_hilo, SinBajas
<1>5. CASE UNCHANGED cp
  BY <1>5 DEF SinBajas
<1>6. CASE LargoPlazo
  BY <1>5, <1>6 DEF LargoPlazo, AdmitirProceso, varsCP
<1>7. CASE CortoPlazo
  <2>1. \/ UNCHANGED cp
        \/ cp' = [cp EXCEPT !.pc = "ejecutando"]
    BY <1>7 DEF CortoPlazo, ElegirHilo, ElegirSinHilos, ContinuarHilo, ejecutar_hilo, varsCP
  <2> QED BY <1>3, <1>5, <2>1
<1>8. CASE Finalizacion
  <2>1. DespertarPorJoin \/ LiberarRecursosMutex
    BY <1>8 DEF Finalizacion, EliminarDeColas, IterarProceso, LiberarProceso, En, SinBajas
  <2>2. CASE DespertarPorJoin
    <3>1. UNCHANGED cp \/ cp' = [cp EXCEPT !.pc = "recursos"]
      BY <2>2 DEF DespertarPorJoin
    <3> QED BY <1>3, <1>5, <3>1
  <2>3. CASE LiberarRecursosMutex
    <3>1. Desalojar \/ Seguir
      BY <2>3 DEF LiberarRecursosMutex, SinBajas
    <3> QED BY <1>2, <3>1
  <2> QED BY <2>1, <2>2, <2>3
<1>9. CASE SystemCall
  <2>1. ~THREAD_CANCEL /\ ~PROCESS_EXIT /\ ~SEGMENTATION_FAULT
    BY DEF THREAD_CANCEL, PROCESS_EXIT, SEGMENTATION_FAULT, Pide, Bajas
  <2>2. \/ Seguir \/ Desalojar
        \/ \E o \in {"salir", "mutex"} : finalizar_hilo(hiloEnExec, o, 0)
    <3>1. MUTEX_LOCK => Seguir \/ Desalojar \/ finalizar_hilo(hiloEnExec, "mutex", 0)
      BY DEF MUTEX_LOCK, LockLibre, LockTomado
    <3>2. MUTEX_UNLOCK => Seguir \/ finalizar_hilo(hiloEnExec, "mutex", 0)
      BY DEF MUTEX_UNLOCK, UnlockAjeno
    <3>3. PROCESS_CREATE \/ THREAD_CREATE \/ SinEseHilo \/ MUTEX_CREATE => Seguir
      BY DEF PROCESS_CREATE, THREAD_CREATE, SinEseHilo, MUTEX_CREATE
    <3>4. THREAD_JOIN \/ IO \/ DUMP_MEMORY \/ FIN_DE_QUANTUM => Desalojar
      BY DEF THREAD_JOIN, IO, DUMP_MEMORY, FIN_DE_QUANTUM
    <3>5. THREAD_EXIT => finalizar_hilo(hiloEnExec, "salir", 0)
      BY DEF THREAD_EXIT
    <3> QED BY <1>9, <2>1, <3>1, <3>2, <3>3, <3>4, <3>5 DEF SystemCall
  <2> QED BY <1>2, <1>4, <2>2
<1>10. CASE Alrededor
  <2>1. \/ UNCHANGED cp
        \/ cp' = [cp EXCEPT !.pc = "colgado"]
    BY <1>10 DEF Alrededor, FinalizadorDeHilos, AtenderIO, DumpTerminado, DumpFallido, varsCP
  <2> QED BY <1>3, <1>5, <2>1
<1>11. CASE UNCHANGED vars
  BY <1>5, <1>11 DEF vars
<1> QED BY <1>6, <1>7, <1>8, <1>9, <1>10, <1>11 DEF Next

\* Where no thread is finished but by itself, every token has its thread: the
\* scheduler is never woken up with the ready queue empty, where FIFO and
\* PRIORIDADES would dereference NULL.
THEOREM FichasExactasSinBajas ==
    ASSUME Syscalls \cap Bajas = {}
    PROVE  Spec => []FichasExactas
<1> DEFINE J == IInv /\ SinBajas /\ Sobran = 0
<1>1. Init => J
  <2> SUFFICES ASSUME Init PROVE SinBajas /\ Sobran = 0
    BY InicioIInv
  <2>1. hilosEnReady = <<>> /\ semHiloEnReady = 0
    BY DEF Init
  <2>2. cp = [pc |-> "elegir", hilo |-> NULO, origen |-> "", i |-> 0]
    BY DEF Init
  <2>3. SinBajas
    BY <2>2 DEF SinBajas
  <2>4. Sobran = 0
    <3>1. Len(hilosEnReady) = 0 /\ semHiloEnReady = 0
      BY <2>1
    <3>2. semHiloEnReady - Len(hilosEnReady) = 0
      BY <3>1, SMT
    <3> QED BY <3>2 DEF Sobran
  <2> QED BY <2>3, <2>4
<1>2. J /\ [Next]_vars => J'
  <2> SUFFICES ASSUME J, [Next]_vars PROVE SinBajas' /\ Sobran' = 0
    BY IInvInductivo
  <2>1. SinBajas'
    BY SinBajasInductivo
  <2>2. ~EliminarDeColas
    BY DEF SinBajas, EliminarDeColas, En
  <2>3. Sobran' = Sobran
    BY <2>2, Fichas
  <2> QED BY <2>1, <2>3
<1>3. J => FichasExactas
  <2> SUFFICES ASSUME J PROVE FichasExactas
    OBVIOUS
  <2>1. hilosEnReady \in Seq(Hilos) /\ semHiloEnReady \in Nat
    BY DEF IInv, TypeOK
  <2> QED BY <2>1 DEF Sobran, FichasExactas
<1> QED BY <1>1, <1>2, <1>3, PTL DEF Spec
=============================================================================
