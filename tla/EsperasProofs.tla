----------------------------- MODULE EsperasProofs -----------------------------
(***************************************************************************)
(* Theorems about Planificador: where each thread is, what it waits for    *)
(* and who will end the wait; that the mutexes are FIFO locks; that no     *)
(* control block is freed twice.  They hold for every number of processes, *)
(* threads and mutexes and every algorithm, where the programs do not mix  *)
(* IO, mutexes and the end of another thread: with the three together most *)
(* are false.  Last, what kills the kernel where no thread ends another.   *)
(***************************************************************************)
EXTENDS PlanificadorProofs

(* Sequences that grow and shrink.                                         *)

\* h is in s, once.
UnaVez(s, h) == \E i \in DOMAIN s : \A j \in DOMAIN s : s[j] = h <=> j = i

\* t is s without its i-th element.
SinEse(s, i, t) ==
    /\ Len(t) = Len(s) - 1
    /\ \A j \in 1 .. Len(s) - 1 : t[j] = IF j < i THEN s[j] ELSE s[j + 1]

LEMMA EfectoQuitar ==
    ASSUME NEW S, NEW s \in Seq(S), NEW i \in 1 .. Len(s), NEW t \in Seq(S),
           SinEse(s, i, t)
    PROVE  /\ ToSet(t) \subseteq ToSet(s)
           /\ \A e : e # s[i] /\ UnaVez(s, e) => UnaVez(t, e)
           /\ \A e : e # s[i] /\ e \in ToSet(s) => e \in ToSet(t)
           /\ UnaVez(s, s[i]) => s[i] \notin ToSet(t)
           /\ IsInjective(s) => IsInjective(t) /\ ToSet(t) = ToSet(s) \ {s[i]}
<1> DEFINE n == Len(s)
<1>1. /\ n \in Nat /\ i \in Nat /\ i >= 1 /\ i <= n
      /\ DOMAIN s = 1 .. n /\ DOMAIN t = 1 .. n - 1
  BY DEF SinEse
<1> DEFINE viejo(j) == IF j < i THEN j ELSE j + 1
           nuevo(k) == IF k < i THEN k ELSE k - 1
<1>2. \A j \in 1 .. n - 1 : /\ viejo(j) \in 1 .. n /\ viejo(j) # i
                            /\ nuevo(viejo(j)) = j /\ t[j] = s[viejo(j)]
  BY <1>1 DEF SinEse
<1>3. \A k \in 1 .. n : k # i => nuevo(k) \in 1 .. n - 1 /\ viejo(nuevo(k)) = k
  BY <1>1
<1> HIDE DEF n, viejo, nuevo
<1>0. DOMAIN s = 1 .. n
  BY <1>1
<1>4. ToSet(t) \subseteq ToSet(s)
  BY <1>1, <1>2 DEF ToSet
<1>5. ASSUME NEW e, e # s[i], UnaVez(s, e) PROVE UnaVez(t, e)
  <2>0. UnaVez(s, e)
    BY <1>5
  <2>1. PICK k \in 1 .. n : \A j \in 1 .. n : s[j] = e <=> j = k
    BY <1>0, <2>0 DEF UnaVez
  <2>2. k # i /\ nuevo(k) \in 1 .. n - 1 /\ viejo(nuevo(k)) = k
    BY <1>1, <1>3, <1>5, <2>1
  <2>3. \A j \in 1 .. n - 1 : t[j] = e <=> j = nuevo(k)
    BY <1>2, <2>1, <2>2
  <2> QED BY <1>1, <2>2, <2>3 DEF UnaVez
<1>6. ASSUME NEW e, e # s[i], e \in ToSet(s) PROVE e \in ToSet(t)
  <2>1. PICK k \in 1 .. n : s[k] = e
    BY <1>1, <1>6 DEF ToSet
  <2>2. nuevo(k) \in 1 .. n - 1 /\ t[nuevo(k)] = e
    BY <1>2, <1>3, <1>6, <2>1
  <2> QED BY <1>1, <2>2 DEF ToSet
<1>7. ASSUME \A j \in 1 .. n : s[j] = s[i] <=> j = i PROVE s[i] \notin ToSet(t)
  BY <1>1, <1>2, <1>7 DEF ToSet
<1>8. UnaVez(s, s[i]) => s[i] \notin ToSet(t)
  <2> SUFFICES ASSUME UnaVez(s, s[i]) PROVE \A j \in 1 .. n : s[j] = s[i] <=> j = i
    BY <1>7
  <2>1. PICK k \in 1 .. n : \A j \in 1 .. n : s[j] = s[i] <=> j = k
    BY <1>0 DEF UnaVez
  <2>2. i \in 1 .. n
    BY <1>1
  <2> QED BY <2>1, <2>2
<1>9. ASSUME IsInjective(s) PROVE IsInjective(t) /\ ToSet(t) = ToSet(s) \ {s[i]}
  <2>1. \A j, k \in 1 .. n : s[j] = s[k] => j = k
    BY <1>1, <1>9 DEF IsInjective
  <2>2. \A j, k \in 1 .. n - 1 : t[j] = t[k] => j = k
    BY <1>2, <2>1
  <2>3. IsInjective(t)
    BY <1>1, <2>2 DEF IsInjective
  <2>4. s[i] \notin ToSet(t)
    BY <1>1, <1>7, <2>1
  <2> QED BY <1>4, <1>6, <2>3, <2>4
<1> QED BY <1>4, <1>5, <1>6, <1>8, <1>9

LEMMA EfectoRemoveAt ==
    ASSUME NEW S, NEW s \in Seq(S), NEW i \in 1 .. Len(s)
    PROVE  LET t == RemoveAt(s, i) IN
           /\ ToSet(t) \subseteq ToSet(s)
           /\ \A e : e # s[i] /\ UnaVez(s, e) => UnaVez(t, e)
           /\ \A e : e # s[i] /\ e \in ToSet(s) => e \in ToSet(t)
           /\ UnaVez(s, s[i]) => s[i] \notin ToSet(t)
           /\ IsInjective(s) => IsInjective(t) /\ ToSet(t) = ToSet(s) \ {s[i]}
<1> DEFINE t == RemoveAt(s, i)
<1>1. t \in Seq(S) /\ SinEse(s, i, t)
  BY QuitarEn DEF SinEse
<1> HIDE DEF t
<1>2. /\ ToSet(t) \subseteq ToSet(s)
      /\ \A e : e # s[i] /\ UnaVez(s, e) => UnaVez(t, e)
      /\ \A e : e # s[i] /\ e \in ToSet(s) => e \in ToSet(t)
      /\ UnaVez(s, s[i]) => s[i] \notin ToSet(t)
      /\ IsInjective(s) => IsInjective(t) /\ ToSet(t) = ToSet(s) \ {s[i]}
  BY <1>1, EfectoQuitar
<1> QED BY <1>2 DEF t

LEMMA EfectoTail ==
    ASSUME NEW S, NEW s \in Seq(S), s # <<>>
    PROVE  /\ Tail(s) \in Seq(S) /\ Head(s) \in S /\ Head(s) \in ToSet(s)
           /\ ToSet(Tail(s)) \subseteq ToSet(s)
           /\ \A e : e # Head(s) /\ UnaVez(s, e) => UnaVez(Tail(s), e)
           /\ \A e : e # Head(s) /\ e \in ToSet(s) => e \in ToSet(Tail(s))
           /\ UnaVez(s, Head(s)) => Head(s) \notin ToSet(Tail(s))
           /\ IsInjective(s) => /\ IsInjective(Tail(s))
                                /\ ToSet(Tail(s)) = ToSet(s) \ {Head(s)}
<1> DEFINE t == Tail(s)
           x == Head(s)
<1>1. /\ t \in Seq(S) /\ Len(t) = Len(s) - 1 /\ Len(s) \in Nat /\ Len(s) >= 1
      /\ \A j \in 1 .. Len(s) - 1 : t[j] = s[j + 1]
      /\ x = s[1] /\ x \in S
  OBVIOUS
<1> HIDE DEF t, x
<1>2. SinEse(s, 1, t)
  BY <1>1 DEF SinEse
<1>3. 1 \in 1 .. Len(s)
  BY <1>1
<1>4. /\ ToSet(t) \subseteq ToSet(s)
      /\ \A e : e # s[1] /\ UnaVez(s, e) => UnaVez(t, e)
      /\ \A e : e # s[1] /\ e \in ToSet(s) => e \in ToSet(t)
      /\ UnaVez(s, s[1]) => s[1] \notin ToSet(t)
      /\ IsInjective(s) => IsInjective(t) /\ ToSet(t) = ToSet(s) \ {s[1]}
  BY <1>1, <1>2, <1>3, EfectoQuitar
<1>5. x \in ToSet(s)
  BY <1>1, <1>3 DEF ToSet
<1> QED BY <1>1, <1>4, <1>5 DEF t, x

LEMMA EfectoRemoveFirst ==
    ASSUME NEW S, NEW s \in Seq(S), NEW x
    PROVE  LET t == RemoveFirst(s, x) IN
           /\ t \in Seq(S) /\ ToSet(t) \subseteq ToSet(s)
           /\ \A e : e # x /\ UnaVez(s, e) => UnaVez(t, e)
           /\ \A e : e # x /\ e \in ToSet(s) => e \in ToSet(t)
           /\ IsInjective(s) => IsInjective(t) /\ ToSet(t) = ToSet(s) \ {x}
<1> DEFINE t == RemoveFirst(s, x)
<1>0. t \in Seq(S)
  BY TipoQuitarPrimero
<1>1. CASE x \notin ToSet(s) /\ t = s
  BY <1>0, <1>1
<1>2. ASSUME NEW i \in 1 .. Len(s), s[i] = x, t = RemoveAt(s, i)
      PROVE  /\ ToSet(t) \subseteq ToSet(s)
             /\ \A e : e # x /\ UnaVez(s, e) => UnaVez(t, e)
             /\ \A e : e # x /\ e \in ToSet(s) => e \in ToSet(t)
             /\ IsInjective(s) => IsInjective(t) /\ ToSet(t) = ToSet(s) \ {x}
  <2> DEFINE u == RemoveAt(s, i)
  <2>1. /\ ToSet(u) \subseteq ToSet(s)
        /\ \A e : e # s[i] /\ UnaVez(s, e) => UnaVez(u, e)
        /\ \A e : e # s[i] /\ e \in ToSet(s) => e \in ToSet(u)
        /\ IsInjective(s) => IsInjective(u) /\ ToSet(u) = ToSet(s) \ {s[i]}
    BY EfectoRemoveAt
  <2> HIDE DEF u, t
  <2>2. t = u
    BY <1>2 DEF u
  <2> QED BY <1>2, <2>1, <2>2
<1>3. \/ x \notin ToSet(s) /\ t = s
      \/ \E i \in 1 .. Len(s) : s[i] = x /\ t = RemoveAt(s, i)
  BY QuitarPrimero
<1> QED BY <1>0, <1>1, <1>2, <1>3

LEMMA EfectoAppend ==
    ASSUME NEW S, NEW s \in Seq(S), NEW x \in S
    PROVE  /\ Append(s, x) \in Seq(S)
           /\ ToSet(Append(s, x)) = ToSet(s) \cup {x}
           /\ \A e : e # x /\ UnaVez(s, e) => UnaVez(Append(s, x), e)
           /\ x \notin ToSet(s) => UnaVez(Append(s, x), x)
           /\ x \notin ToSet(s) /\ IsInjective(s) => IsInjective(Append(s, x))
<1> DEFINE t == Append(s, x)
           n == Len(s)
<1>1. /\ t \in Seq(S) /\ n \in Nat /\ DOMAIN s = 1 .. n /\ DOMAIN t = 1 .. n + 1
      /\ \A j \in 1 .. n : t[j] = s[j] /\ j # n + 1
      /\ t[n + 1] = x
      /\ \A j \in 1 .. n + 1 : j \in 1 .. n \/ j = n + 1
      /\ n + 1 \in 1 .. n + 1 /\ 1 .. n \subseteq 1 .. n + 1
  OBVIOUS
<1> HIDE DEF t, n
<1>0. DOMAIN s = 1 .. n /\ DOMAIN t = 1 .. n + 1 /\ 1 .. n \subseteq 1 .. n + 1
  BY <1>1
<1>2. ToSet(t) = ToSet(s) \cup {x}
  BY <1>1 DEF ToSet
<1>3. ASSUME NEW e, e # x, UnaVez(s, e) PROVE UnaVez(t, e)
  <2>1. PICK i \in 1 .. n : \A j \in 1 .. n : s[j] = e <=> j = i
    BY <1>0, <1>3 DEF UnaVez
  <2>2. \A j \in 1 .. n + 1 : t[j] = e <=> j = i
    BY <1>1, <1>3, <2>1
  <2> QED BY <1>0, <2>1, <2>2 DEF UnaVez
<1>4. ASSUME x \notin ToSet(s) PROVE UnaVez(t, x)
  <2>1. \A j \in 1 .. n : s[j] # x
    BY <1>1, <1>4 DEF ToSet
  <2>2. \A j \in 1 .. n + 1 : t[j] = x <=> j = n + 1
    BY <1>1, <2>1
  <2> QED BY <1>1, <2>2 DEF UnaVez
<1>5. ASSUME x \notin ToSet(s), IsInjective(s) PROVE IsInjective(t)
  <2>1. \A j \in 1 .. n : s[j] # x
    BY <1>1, <1>5 DEF ToSet
  <2>2. \A j, k \in 1 .. n : s[j] = s[k] => j = k
    BY <1>1, <1>5 DEF IsInjective
  <2>3. \A j, k \in 1 .. n + 1 : t[j] = t[k] => j = k
    BY <1>1, <2>1, <2>2
  <2> QED BY <1>1, <2>3 DEF IsInjective
<1> QED BY <1>1, <1>2, <1>3, <1>4, <1>5 DEF t

\* The thread that finishes goes to Ready as many times as the code says.
LEMMA EfectoRevividos ==
    ASSUME NEW S, NEW s \in Seq(S), NEW r \in Seq(S), NEW x,
           \A i \in 1 .. Len(r) : r[i] = x
    PROVE  /\ ToSet(s \o r) \subseteq ToSet(s) \cup {x}
           /\ \A e : e # x /\ UnaVez(s, e) => UnaVez(s \o r, e)
<1> DEFINE t == s \o r
           n == Len(s)
           k == Len(r)
<1>1. /\ t \in Seq(S) /\ n \in Nat /\ k \in Nat /\ Len(t) = n + k
      /\ DOMAIN s = 1 .. n /\ DOMAIN t = 1 .. n + k
      /\ \A j \in 1 .. n + k : t[j] = IF j <= n THEN s[j] ELSE r[j - n]
  BY ConcatProperties
<1> HIDE DEF t, n
<1>2. \A j \in 1 .. n : j \in 1 .. n + k /\ t[j] = s[j]
  BY <1>1
<1>3. \A j \in 1 .. n + k : j \notin 1 .. n => t[j] = x
  <2> SUFFICES ASSUME NEW j \in 1 .. n + k, j \notin 1 .. n PROVE t[j] = x
    OBVIOUS
  <2>1. ~(j <= n) /\ j - n \in 1 .. k
    BY <1>1
  <2> QED BY <1>1, <2>1
<1> HIDE DEF k
<1>4. ToSet(t) \subseteq ToSet(s) \cup {x}
  BY <1>1, <1>2, <1>3 DEF ToSet
<1>5. ASSUME NEW e, e # x, UnaVez(s, e) PROVE UnaVez(t, e)
  <2>0. DOMAIN s = 1 .. n /\ UnaVez(s, e)
    BY <1>1, <1>5
  <2>1. PICK i \in 1 .. n : \A j \in 1 .. n : s[j] = e <=> j = i
    BY <2>0 DEF UnaVez
  <2>2. \A j \in 1 .. n + k : t[j] = e <=> j = i
    BY <1>2, <1>3, <1>5, <2>1
  <2>3. i \in DOMAIN t /\ \A j \in DOMAIN t : t[j] = e <=> j = i
    BY <1>1, <1>2, <2>1, <2>2
  <2> QED BY <2>3 DEF UnaVez
<1> QED BY <1>4, <1>5 DEF t

LEMMA CuantasVeces ==
    ASSUME NEW S, NEW s \in Seq(S), NEW x
    PROVE  /\ UnaVez(s, x) => Cardinality({i \in DOMAIN s : s[i] = x}) = 1
           /\ x \notin ToSet(s) => Cardinality({i \in DOMAIN s : s[i] = x}) = 0
<1> DEFINE C == {i \in DOMAIN s : s[i] = x}
<1>1. ASSUME UnaVez(s, x) PROVE Cardinality(C) = 1
  <2>1. PICK i \in DOMAIN s : \A j \in DOMAIN s : s[j] = x <=> j = i
    BY <1>1 DEF UnaVez
  <2>2. C = {i}
    BY <2>1
  <2> QED BY <2>2, FS_Singleton
<1>2. ASSUME x \notin ToSet(s) PROVE Cardinality(C) = 0
  <2>1. C = {}
    BY <1>2 DEF ToSet
  <2> QED BY <2>1, FS_EmptySet
<1> QED BY <1>1, <1>2
-----------------------------------------------------------------------------
(* Where threads are.                                                      *)

Creado(h) == h[2] < siguienteTid[h[1]]

\* Somebody has the thread h.
Referido(h) ==
    \/ h \in enMemoria \/ h \in dumps
    \/ h \in ToSet(hilosEnReady) \/ h \in ToSet(hilosEnExit) \/ h \in ToSet(dispositivoIO)
    \/ h \in ToSet(listaDeHilos[h[1]])
    \/ EnMano /\ h = hiloEnExec
    \/ EnFinalizacion /\ h = cp.hilo
    \/ \E t \in Hilos : tcb[t].hiloBloqueadoPorJoin = h

\* Nobody has a thread that was not created, so it is new when it is.
Creados == \A h \in Hilos : Referido(h) => Creado(h)

\* The memory forgets a thread before its finalization.
Muertos ==
    /\ EnFinalizacion => cp.hilo \notin enMemoria
    /\ \A h \in ToSet(hilosEnExit) : h \notin enMemoria

\* A process has each of its threads once.
EnLista ==
    \A p \in Pids : /\ IsInjective(listaDeHilos[p])
                    /\ \A h \in ToSet(listaDeHilos[p]) : h[1] = p

\* A thread is in the queue of its state and not in another, and it runs or
\* may run only if it waits for nothing.
EnSuLugar(h) ==
    /\ tcb[h].estado \in {"READY", "EXECUTE", "BLOCKED"}
    /\ tcb[h].estado = "READY" => UnaVez(hilosEnReady, h)
    /\ tcb[h].estado # "READY" => h \notin ToSet(hilosEnReady)
    /\ tcb[h].estado = "EXECUTE" <=> EnMano /\ h = hiloEnExec
    /\ tcb[h].estado = "BLOCKED" => hilosEnBlock[h] > 0
    /\ tcb[h].estado # "BLOCKED" => PuedeIrAReady(h) /\ h \notin dumps
    /\ h \in dumps => PuedeIrAReady(h)
    /\ tcb[h].bloqueadoPorIO => UnaVez(dispositivoIO, h)
    /\ ~tcb[h].bloqueadoPorIO => h \notin ToSet(dispositivoIO)
Lugares == \A h \in Hilos : Vivo(h) => EnSuLugar(h)

\* Thread t, not yet through with its joins, has the address of h.
Activo(t) == t \in enMemoria \/ (cp.pc = "avisando" /\ cp.hilo = t)
Apunta(t, h) == Activo(t) /\ tcb[t].hiloBloqueadoPorJoin = h

\* Who wakes up a thread that waits in a join is the thread it waits for.
Joins ==
    \A t, h \in Hilos : Apunta(t, h) /\ Vivo(h) =>
       /\ tcb[h].bloqueadoPorJoin
       /\ \A u \in Hilos : Apunta(u, h) => u = t

\* Owner and waiters of a mutex, and the lists of awaited mutexes.
Presente(h) == h \in enMemoria \/ SeEstaFinalizando(h)
Colas ==
    \A m \in Mutexes :
       /\ mutex[m].tomadoPor = NULO => mutex[m].hilosBloqueados = <<>>
       /\ mutex[m].tomadoPor # NULO =>
             mutex[m].tomadoPor[1] = m[1] /\ Presente(mutex[m].tomadoPor)
       /\ IsInjective(mutex[m].hilosBloqueados)
       /\ \A h \in ToSet(mutex[m].hilosBloqueados) : h[1] = m[1] /\ Presente(h)
       /\ \A h \in enMemoria : h[1] = m[1] =>
             (m[2] \in tcb[h].mutexEnEspera <=> h \in ToSet(mutex[m].hilosBloqueados))

\* A thread that finished by itself is in the list of its process until it is
\* reaped: nobody may wake it up meanwhile, or it would be finished again.
Zombi(h) == pcb[h[1]] = "vivo" /\ h \in ToSet(listaDeHilos[h[1]]) /\ h \notin enMemoria
Quieto(h) ==
    /\ tcb[h].estado = "EXIT" /\ h \notin ToSet(dispositivoIO) /\ h \notin dumps
    /\ \A t \in Hilos : ~Apunta(t, h)
Zombis == Syscalls \cap Bajas = {} \/ \A h \in Hilos : Zombi(h) => Quieto(h)

\* What is missing in the programs: the end of another thread, or stale entries
\* in hilosEnBlock, or mutexes to inherit.
BlockExacto(h) ==
    /\ Vivo(h) => hilosEnBlock[h] = IF tcb[h].estado = "BLOCKED" THEN 1 ELSE 0
    /\ ~Creado(h) \/ Zombi(h) => hilosEnBlock[h] = 0
SinIO == dispositivoIO = <<>> /\ \A h \in Hilos : BlockExacto(h)
SinMutexes ==
    \A m \in Mutexes : mutex[m].tomadoPor = NULO /\ mutex[m].hilosBloqueados = <<>>
Escasez ==
    /\ "IO" \notin Syscalls => SinIO
    /\ "MUTEX_LOCK" \notin Syscalls => SinMutexes

Hilado ==
    /\ Creados /\ Muertos /\ EnLista /\ Lugares /\ Joins /\ Colas
    /\ BloqueadoDeMasSoloPorHerencia /\ SeLiberaUnaVez /\ Zombis /\ Escasez

\* The thread that exits is the one that runs.
SaleElQueCorre ==
    cp.pc \in {"avisando", "recursos"} /\ cp.origen = "salir" => cp.hilo = hiloEnExec

JInv == IInv /\ (Syscalls \cap Bajas = {} => SinBajas) /\ SaleElQueCorre /\ Hilado

\* The programs do not use together what breaks the scheduler.
SinMezcla ==
    \/ Syscalls \cap Bajas = {} \/ "IO" \notin Syscalls \/ "MUTEX_LOCK" \notin Syscalls
-----------------------------------------------------------------------------
(* What a step leaves.                                                     *)

\* The step is not about h; it may take mutexes off what h waits for.
NadaDe(h) ==
    /\ tcb'[h].estado = tcb[h].estado
    /\ tcb'[h].bloqueadoPorJoin = tcb[h].bloqueadoPorJoin
    /\ tcb'[h].bloqueadoPorIO = tcb[h].bloqueadoPorIO
    /\ tcb'[h].mutexEnEspera \subseteq tcb[h].mutexEnEspera
    /\ hilosEnBlock'[h] = hilosEnBlock[h]
    /\ UnaVez(hilosEnReady, h) => UnaVez(hilosEnReady', h)
    /\ h \notin ToSet(hilosEnReady) => h \notin ToSet(hilosEnReady')
    /\ UnaVez(dispositivoIO, h) => UnaVez(dispositivoIO', h)
    /\ h \notin ToSet(dispositivoIO) => h \notin ToSet(dispositivoIO')
    /\ h \in dumps' => h \in dumps
    /\ EnMano' /\ h = hiloEnExec' <=> EnMano /\ h = hiloEnExec

LEMMA LugarIgual ==
    ASSUME NEW h \in Hilos, EnSuLugar(h), NadaDe(h)
    PROVE  EnSuLugar(h)'
BY DEF EnSuLugar, NadaDe, PuedeIrAReady

LEMMA LugaresMarco ==
    ASSUME Lugares, \A h \in Hilos : Vivo(h)' => EnSuLugar(h)' \/ (Vivo(h) /\ NadaDe(h))
    PROVE  Lugares'
<1>1. ASSUME NEW h \in Hilos, Vivo(h)' PROVE EnSuLugar(h)'
  BY <1>1, LugarIgual DEF Lugares
<1> QED BY <1>1 DEF Lugares

LEMMA CreadosMarco ==
    ASSUME Creados, UNCHANGED siguienteTid, \A h \in Hilos : Referido(h)' => Referido(h)
    PROVE  Creados'
BY DEF Creados, Creado

LEMMA JoinsMarco ==
    ASSUME Joins, \A t, h \in Hilos : Vivo(h)' /\ Apunta(t, h)' => Apunta(t, h),
           \A h \in Hilos : Vivo(h)' =>
              Vivo(h) /\ tcb'[h].bloqueadoPorJoin = tcb[h].bloqueadoPorJoin
    PROVE  Joins'
<1> SUFFICES ASSUME NEW t \in Hilos, NEW h \in Hilos, Apunta(t, h)', Vivo(h)'
             PROVE  /\ tcb'[h].bloqueadoPorJoin
                    /\ \A u \in Hilos : Apunta(u, h)' => u = t
  BY DEF Joins
<1> QED BY DEF Joins

LEMMA ColasMarco ==
    ASSUME Colas, enMemoria' \subseteq enMemoria,
           \A m \in Mutexes : /\ mutex'[m].tomadoPor = mutex[m].tomadoPor
                              /\ mutex'[m].hilosBloqueados = mutex[m].hilosBloqueados,
           \A h \in Hilos : Presente(h) => Presente(h)',
           \A h \in enMemoria' : tcb'[h].mutexEnEspera = tcb[h].mutexEnEspera,
           TypeOK
    PROVE  Colas'
<1>1. ASSUME NEW m \in Mutexes
      PROVE  /\ mutex[m].tomadoPor \in Hilos \cup {NULO}
             /\ \A h \in ToSet(mutex[m].hilosBloqueados) : h \in Hilos
  BY DEF TypeOK, LosMutex, HiloONulo, ToSet
<1> QED BY <1>1 DEF Colas

LEMMA MotivosMarco ==
    ASSUME BloqueadoDeMasSoloPorHerencia, cp'.pc # "colgado" => cp.pc # "colgado",
           \A h \in Hilos : Vivo(h)' /\ tcb'[h].estado = "BLOCKED" /\ ~EsperaAlgo(h)' =>
              \/ Dueno(h)'
              \/ /\ Vivo(h) /\ tcb[h].estado = "BLOCKED" /\ ~EsperaAlgo(h)
                 /\ Dueno(h) => Dueno(h)'
    PROVE  BloqueadoDeMasSoloPorHerencia'
BY DEF BloqueadoDeMasSoloPorHerencia

LEMMA ZombisMarco ==
    ASSUME Zombis,
           \A h \in Hilos : Zombi(h)' =>
              \/ Quieto(h)'
              \/ /\ Zombi(h) /\ tcb'[h].estado = tcb[h].estado
                 /\ h \in ToSet(dispositivoIO') => h \in ToSet(dispositivoIO)
                 /\ h \in dumps' => h \in dumps
                 /\ \A t \in Hilos : Apunta(t, h)' => Apunta(t, h)
    PROVE  Zombis'
<1>1. ASSUME NEW h \in Hilos, Zombi(h)', \A x \in Hilos : Zombi(x) => Quieto(x)
      PROVE  Quieto(h)'
  BY <1>1 DEF Quieto
<1> QED BY <1>1 DEF Zombis

LEMMA ExitMarco ==
    ASSUME SeLiberaUnaVez, UNCHANGED hilosEnExit,
           \A h \in ToSet(hilosEnExit) : tcb'[h].estado = "LIBERADO" => tcb[h].estado = "LIBERADO"
    PROVE  SeLiberaUnaVez'
BY DEF SeLiberaUnaVez

\* Every thread that may have one entry in hilosEnBlock still does.
LEMMA BlockMarco ==
    ASSUME SinIO, UNCHANGED siguienteTid, dispositivoIO' = <<>>,
           \A h \in Hilos :
              /\ Vivo(h)' => \/ hilosEnBlock'[h] = IF tcb'[h].estado = "BLOCKED" THEN 1 ELSE 0
                             \/ /\ Vivo(h) /\ hilosEnBlock'[h] = hilosEnBlock[h]
                                /\ tcb'[h].estado = tcb[h].estado
              /\ ~Creado(h) => hilosEnBlock'[h] = hilosEnBlock[h]
              /\ Zombi(h)' => \/ hilosEnBlock'[h] = 0
                              \/ Zombi(h) /\ hilosEnBlock'[h] = hilosEnBlock[h]
    PROVE  SinIO'
<1>1. ASSUME NEW h \in Hilos PROVE BlockExacto(h)'
  BY DEF SinIO, BlockExacto, Creado
<1> QED BY <1>1 DEF SinIO

LEMMA MutexesMarco ==
    ASSUME SinMutexes,
           \A m \in Mutexes : /\ mutex'[m].tomadoPor = mutex[m].tomadoPor
                              /\ mutex'[m].hilosBloqueados = mutex[m].hilosBloqueados
    PROVE  SinMutexes'
BY DEF SinMutexes
-----------------------------------------------------------------------------
(* The steps that are about one thread, h, and leave the threads there are. *)

\* (A list may lose a thread, and a process may end.)
MismosHilos ==
    /\ UNCHANGED <<enMemoria, hilosEnExit, siguienteTid>>
    /\ EnLista'
    /\ \A p \in Pids : /\ ToSet(listaDeHilos'[p]) \subseteq ToSet(listaDeHilos[p])
                       /\ pcb'[p] = "vivo" => pcb[p] = "vivo"

\* No finalization begins, or passes liberar_recursos_mutex.
MismaBaja ==
    /\ cp'.hilo = cp.hilo
    /\ EnFinalizacion' => EnFinalizacion
    /\ cp'.pc = "avisando" => cp.pc = "avisando"
    /\ cp.pc \in {"avisando", "recursos"} => cp'.pc \in {"avisando", "recursos"}
    /\ cp.pc = "colgado" => cp'.pc = "colgado"

Ajeno(x) ==
    /\ NadaDe(x)
    /\ tcb'[x].mutexEnEspera = tcb[x].mutexEnEspera
    /\ x \in ToSet(dispositivoIO) => x \in ToSet(dispositivoIO')
    /\ x \in dumps => x \in dumps'

PasoDe(h) ==
    /\ MismosHilos /\ MismaBaja
    /\ \A x \in Hilos : x # h => Ajeno(x)
    /\ \A x \in Hilos : x # h /\ x \in ToSet(hilosEnReady') => x \in ToSet(hilosEnReady)

MismosPunteros == \A t \in Hilos : tcb'[t].hiloBloqueadoPorJoin = tcb[t].hiloBloqueadoPorJoin
MismosMutex ==
    \A m \in Mutexes : /\ mutex'[m].tomadoPor = mutex[m].tomadoPor
                       /\ mutex'[m].hilosBloqueados = mutex[m].hilosBloqueados

\* What is left to show of h.
HiloBien(h) ==
    /\ Creado(h)
    /\ Vivo(h)' => EnSuLugar(h)'
    /\ Vivo(h)' /\ tcb'[h].estado = "BLOCKED" /\ ~EsperaAlgo(h)' /\ cp'.pc # "colgado"
          => Dueno(h)'
    /\ Syscalls \cap Bajas # {} /\ Zombi(h)' => Quieto(h)'
    /\ tcb'[h].estado = "LIBERADO" => tcb[h].estado = "LIBERADO"

BlockBien(h) ==
    SinIO => /\ dispositivoIO' = <<>>
             /\ Vivo(h)' => hilosEnBlock'[h] = IF tcb'[h].estado = "BLOCKED" THEN 1 ELSE 0
             /\ Zombi(h)' => hilosEnBlock'[h] = 0

LEMMA MismosVivos ==
    ASSUME MismosHilos
    PROVE  \A x \in Hilos : /\ Vivo(x)' => Vivo(x)
                            /\ Zombi(x)' => Zombi(x)
                            /\ Creado(x)' <=> Creado(x)
<1> SUFFICES ASSUME NEW x \in Hilos
             PROVE  /\ Vivo(x)' => Vivo(x)
                    /\ Zombi(x)' => Zombi(x)
                    /\ Creado(x)' <=> Creado(x)
  OBVIOUS
<1>1. x[1] \in Pids
  BY PartesDeHilo
<1> QED BY <1>1 DEF MismosHilos, Vivo, Zombi, Creado

LEMMA MismosSiIguales ==
    ASSUME JInv, UNCHANGED <<enMemoria, hilosEnExit, siguienteTid, listaDeHilos>>,
           \A p \in Pids : pcb'[p] = "vivo" => pcb[p] = "vivo"
    PROVE  MismosHilos
<1>1. EnLista'
  BY DEF JInv, Hilado, EnLista
<1> QED BY <1>1 DEF MismosHilos

LEMMA PasoDeUno ==
    ASSUME JInv, NEW h \in Hilos, PasoDe(h), HiloBien(h),
           \A t \in Hilos : tcb'[t].hiloBloqueadoPorJoin \in {tcb[t].hiloBloqueadoPorJoin, h},
           \A t \in Hilos : Zombi(h) => tcb'[t].hiloBloqueadoPorJoin = tcb[t].hiloBloqueadoPorJoin,
           Joins', Colas',
           \A x \in Hilos : tcb[x].estado = "BLOCKED" /\ Dueno(x) => Dueno(x)',
           "IO" \notin Syscalls => BlockBien(h),
           "MUTEX_LOCK" \notin Syscalls => SinMutexes'
    PROVE  Hilado'
<1>0. MismosHilos /\ MismaBaja /\ \A x \in Hilos : x # h => Ajeno(x)
  BY DEF PasoDe
<1>1. \A x \in Hilos : (Vivo(x)' => Vivo(x)) /\ (Zombi(x)' => Zombi(x))
                       /\ (Creado(x)' <=> Creado(x))
  BY <1>0, MismosVivos
<1>2. Creados'
  <2> SUFFICES ASSUME NEW x \in Hilos, Referido(x)', x # h PROVE Referido(x)
    BY <1>1 DEF Creados, HiloBien, JInv, Hilado
  <2>1. Ajeno(x) /\ (x \in ToSet(hilosEnReady') => x \in ToSet(hilosEnReady))
    BY DEF PasoDe
  <2>2. x \in ToSet(dispositivoIO') => x \in ToSet(dispositivoIO)
    BY <2>1 DEF Ajeno, NadaDe
  <2>3. x \in dumps' => x \in dumps
    BY <2>1 DEF Ajeno, NadaDe
  <2>4. EnMano' /\ x = hiloEnExec' => EnMano /\ x = hiloEnExec
    BY <2>1 DEF Ajeno, NadaDe
  <2>5. EnFinalizacion' /\ x = cp'.hilo => EnFinalizacion /\ x = cp.hilo
    BY <1>0 DEF MismaBaja
  <2>6. \A t \in Hilos : tcb'[t].hiloBloqueadoPorJoin = x => tcb[t].hiloBloqueadoPorJoin = x
    OBVIOUS
  <2>7. x \in ToSet(listaDeHilos'[x[1]]) => x \in ToSet(listaDeHilos[x[1]])
    BY <1>0, PartesDeHilo DEF MismosHilos
  <2> QED BY <1>0, <2>1, <2>2, <2>3, <2>4, <2>5, <2>6, <2>7 DEF Referido, MismosHilos
<1>3. Muertos' /\ EnLista'
  BY <1>0 DEF JInv, Hilado, Muertos, MismosHilos, MismaBaja
<1>4. Lugares'
  <2>1. \A x \in Hilos : Vivo(x)' => EnSuLugar(x)' \/ (Vivo(x) /\ NadaDe(x))
    BY <1>0, <1>1 DEF HiloBien, Ajeno
  <2> QED BY <2>1, LugaresMarco DEF JInv, Hilado
<1>5. BloqueadoDeMasSoloPorHerencia'
  <2>1. SUFFICES ASSUME cp'.pc # "colgado", NEW x \in Hilos, Vivo(x)',
                        tcb'[x].estado = "BLOCKED", ~EsperaAlgo(x)', x # h
                 PROVE  Dueno(x)'
    BY <1>1 DEF BloqueadoDeMasSoloPorHerencia, HiloBien
  <2>2. Ajeno(x) /\ Vivo(x)
    BY <1>0, <1>1, <2>1
  <2>3. ~EsperaAlgo(x) /\ tcb[x].estado = "BLOCKED"
    BY <2>1, <2>2 DEF EsperaAlgo, Ajeno, NadaDe
  <2>4. cp.pc # "colgado"
    BY <1>0, <2>1 DEF MismaBaja
  <2> QED BY <2>2, <2>3, <2>4 DEF BloqueadoDeMasSoloPorHerencia, JInv, Hilado
<1>6. SeLiberaUnaVez'
  <2>1. \A x \in ToSet(hilosEnExit) : x \in Hilos
    BY DEF JInv, IInv, TypeOK, ToSet
  <2>2. \A x \in ToSet(hilosEnExit) : tcb'[x].estado = "LIBERADO" => tcb[x].estado = "LIBERADO"
    BY <1>0, <2>1 DEF Ajeno, NadaDe, HiloBien
  <2> QED BY <1>0, <2>2, ExitMarco DEF JInv, Hilado, MismosHilos
<1>7. Zombis'
  <2> SUFFICES ASSUME Syscalls \cap Bajas # {}, NEW x \in Hilos, Zombi(x)', x # h
               PROVE  Quieto(x)'
    BY <1>1 DEF Zombis, HiloBien
  <2>1. Quieto(x) /\ Ajeno(x)
    BY <1>0, <1>1 DEF Zombis, JInv, Hilado
  <2>2. \A t \in Hilos : Apunta(t, x)' => Apunta(t, x)
    BY <1>0 DEF Apunta, Activo, MismaBaja, MismosHilos
  <2> QED BY <2>1, <2>2 DEF Quieto, Ajeno, NadaDe
<1>8. "IO" \notin Syscalls => SinIO'
  <2> SUFFICES ASSUME SinIO, BlockBien(h) PROVE SinIO'
    BY DEF JInv, Hilado, Escasez
  <2>1. ASSUME NEW x \in Hilos PROVE BlockExacto(x)'
    <3>1. CASE x = h
      BY <1>1, <3>1 DEF BlockBien, BlockExacto, HiloBien
    <3>2. CASE x # h
      <4>1. BlockExacto(x) /\ hilosEnBlock'[x] = hilosEnBlock[x]
            /\ tcb'[x].estado = tcb[x].estado
        BY <1>0, <3>2 DEF SinIO, Ajeno, NadaDe
      <4> QED BY <1>1, <4>1 DEF BlockExacto
    <3> QED BY <3>1, <3>2
  <2> QED BY <2>1 DEF SinIO, BlockBien
<1> QED BY <1>2, <1>3, <1>4, <1>5, <1>6, <1>7, <1>8 DEF Hilado, Escasez
\* Nobody but h enters or leaves the queue.
SoloMueve(h, s, t) ==
    \A x \in Hilos : x # h => /\ x \in ToSet(t) <=> x \in ToSet(s)
                              /\ UnaVez(s, x) => UnaVez(t, x)

LEMMA SoloMueveAppend ==
    ASSUME NEW h \in Hilos, NEW s \in Seq(Hilos)
    PROVE  SoloMueve(h, s, Append(s, h))
BY EfectoAppend DEF SoloMueve

LEMMA SoloMueveTail ==
    ASSUME NEW s \in Seq(Hilos), s # <<>>
    PROVE  SoloMueve(Head(s), s, Tail(s))
<1>1. /\ \A e : e # Head(s) /\ UnaVez(s, e) => UnaVez(Tail(s), e)
      /\ \A e : e # Head(s) /\ e \in ToSet(s) => e \in ToSet(Tail(s))
      /\ ToSet(Tail(s)) \subseteq ToSet(s)
  BY EfectoTail
<1> QED BY <1>1 DEF SoloMueve

LEMMA SoloMueveRemoveFirst ==
    ASSUME NEW s \in Seq(Hilos), NEW h \in Hilos
    PROVE  SoloMueve(h, s, RemoveFirst(s, h))
<1> DEFINE t == RemoveFirst(s, h)
<1>1. /\ \A e : e # h /\ UnaVez(s, e) => UnaVez(t, e)
      /\ \A e : e # h /\ e \in ToSet(s) => e \in ToSet(t)
      /\ ToSet(t) \subseteq ToSet(s)
  BY EfectoRemoveFirst
<1> QED BY <1>1 DEF SoloMueve

LEMMA SoloMueveNada ==
    ASSUME NEW s, NEW h
    PROVE  SoloMueve(h, s, s)
BY DEF SoloMueve

LEMMA AjenosMarco ==
    ASSUME NEW h \in Hilos, MismosHilos, MismaBaja, SoloDe(h, tcb, tcb'),
           SoloMueve(h, hilosEnReady, hilosEnReady'),
           SoloMueve(h, dispositivoIO, dispositivoIO'),
           \A x \in Hilos : x # h => /\ hilosEnBlock'[x] = hilosEnBlock[x]
                                     /\ x \in dumps' <=> x \in dumps
                                     /\ EnMano' /\ x = hiloEnExec' <=> EnMano /\ x = hiloEnExec
    PROVE  PasoDe(h)
<1>1. ASSUME NEW x \in Hilos, x # h PROVE Ajeno(x)
  BY <1>1 DEF SoloDe, SoloMueve, Ajeno, NadaDe
<1>2. \A x \in Hilos : x # h /\ x \in ToSet(hilosEnReady') => x \in ToSet(hilosEnReady)
  BY DEF SoloMueve
<1> QED BY <1>1, <1>2 DEF PasoDe

\* The running thread is in no queue, and nobody is going to wake it up.
LEMMA ElQueCorre ==
    ASSUME JInv, cp.pc = "ejecutando"
    PROVE  /\ hiloEnExec \in Hilos /\ PidEnExec \in Pids /\ pcb[PidEnExec] = "vivo"
           /\ hiloEnExec \in enMemoria /\ Vivo(hiloEnExec) /\ Creado(hiloEnExec)
           /\ EnSuLugar(hiloEnExec) /\ EnMano
           /\ tcb[hiloEnExec].estado = "EXECUTE"
           /\ tcb[hiloEnExec].mutexEnEspera = {}
           /\ ~tcb[hiloEnExec].bloqueadoPorJoin /\ ~tcb[hiloEnExec].bloqueadoPorIO
           /\ hiloEnExec \notin dumps
           /\ hiloEnExec \notin ToSet(hilosEnReady)
           /\ hiloEnExec \notin ToSet(dispositivoIO)
           /\ \A m \in Mutexes : hiloEnExec \notin ToSet(mutex[m].hilosBloqueados)
           /\ \A t \in Hilos : ~Apunta(t, hiloEnExec)
           /\ ~Zombi(hiloEnExec)
<1> DEFINE h == hiloEnExec
<1>1. /\ IInv /\ Lugares /\ Creados /\ Joins /\ Colas /\ EnMano /\ h \in enMemoria
      /\ h \in Hilos /\ PidEnExec \in Pids /\ pcb[PidEnExec] = "vivo"
  BY Ejecutando DEF JInv, Hilado, EnMano, IInv, Control
<1>2. Vivo(h) /\ ~Zombi(h) /\ Creado(h)
  BY <1>1 DEF Vivo, Zombi, PidEnExec, Creados, Referido
<1>3. EnSuLugar(h)
  BY <1>1, <1>2 DEF Lugares
<1>4. /\ tcb[h].estado = "EXECUTE" /\ PuedeIrAReady(h)
      /\ h \notin dumps /\ h \notin ToSet(hilosEnReady)
  BY <1>1, <1>3 DEF EnSuLugar
<1>5. /\ tcb[h].mutexEnEspera = {} /\ ~tcb[h].bloqueadoPorJoin /\ ~tcb[h].bloqueadoPorIO
  BY <1>4 DEF PuedeIrAReady
<1>6. h \notin ToSet(dispositivoIO)
  BY <1>3, <1>5 DEF EnSuLugar
<1>7. \A m \in Mutexes : h \notin ToSet(mutex[m].hilosBloqueados)
  BY <1>1, <1>5 DEF Colas
<1>8. \A t \in Hilos : ~Apunta(t, h)
  BY <1>1, <1>2, <1>5 DEF Joins
<1> QED BY <1>1, <1>2, <1>3, <1>4, <1>5, <1>6, <1>7, <1>8

LEMMA VuelvePasoDe ==
    ASSUME JInv, cp.pc = "ejecutando", NEW h \in Hilos,
           Seguir \/ (Desalojar /\ h = hiloEnExec),
           MismosHilos, UNCHANGED hiloEnExec, SoloDe(h, tcb, tcb'),
           SoloMueve(h, hilosEnReady, hilosEnReady'),
           SoloMueve(h, dispositivoIO, dispositivoIO'),
           \A x \in Hilos : x # h => /\ hilosEnBlock'[x] = hilosEnBlock[x]
                                     /\ x \in dumps' <=> x \in dumps
    PROVE  /\ PasoDe(h) /\ cp'.pc = "elegir"
           /\ Seguir => EnMano'
           /\ Desalojar => ~EnMano'
<1>1. /\ cp'.pc = "elegir" /\ cp'.hilo = cp.hilo
      /\ Seguir => replanificar' = FALSE
      /\ Desalojar => replanificar' = TRUE
  BY SeguirHecho, DesalojarHecho DEF JInv, IInv
<1>2. MismaBaja
  BY <1>1 DEF MismaBaja, EnFinalizacion
<1>3. EnMano /\ (Seguir => EnMano') /\ (Desalojar => ~EnMano')
  BY <1>1 DEF EnMano
<1>4. \A x \in Hilos : x # h => (EnMano' /\ x = hiloEnExec' <=> EnMano /\ x = hiloEnExec)
  BY <1>3
<1> QED BY <1>1, <1>2, <1>3, <1>4, AjenosMarco

LEMMA JoinsIgual ==
    ASSUME JInv, NEW h \in Hilos, PasoDe(h), MismosPunteros,
           Vivo(h) => \/ tcb'[h].bloqueadoPorJoin = tcb[h].bloqueadoPorJoin
                      \/ \A t \in Hilos : ~Apunta(t, h)
                      \/ \A t \in Hilos : ~Apunta(t, h)'
    PROVE  Joins'
<1>0. MismosHilos /\ MismaBaja /\ \A x \in Hilos : x # h => Ajeno(x)
  BY DEF PasoDe
<1>1. \A t, x \in Hilos : Apunta(t, x)' => Apunta(t, x)
  BY <1>0 DEF Apunta, Activo, MismaBaja, MismosHilos, MismosPunteros
<1>2. SUFFICES ASSUME NEW t \in Hilos, NEW x \in Hilos, Apunta(t, x)', Vivo(x)'
               PROVE  tcb'[x].bloqueadoPorJoin /\ \A u \in Hilos : Apunta(u, x)' => u = t
  BY DEF Joins
<1>3. Vivo(x)
  BY <1>0, <1>2, MismosVivos
<1>4. tcb[x].bloqueadoPorJoin /\ \A u \in Hilos : Apunta(u, x) => u = t
  BY <1>1, <1>2, <1>3 DEF Joins, JInv, Hilado
<1>5. tcb'[x].bloqueadoPorJoin = tcb[x].bloqueadoPorJoin
  <2>1. CASE x = h
    BY <1>1, <1>2, <1>3, <2>1
  <2>2. CASE x # h
    BY <1>0, <2>2 DEF Ajeno, NadaDe
  <2> QED BY <2>1, <2>2
<1> QED BY <1>1, <1>4, <1>5

LEMMA ColasIgual ==
    ASSUME JInv, NEW h \in Hilos, PasoDe(h), MismosMutex,
           tcb'[h].mutexEnEspera = tcb[h].mutexEnEspera
    PROVE  /\ Colas' /\ ("MUTEX_LOCK" \notin Syscalls => SinMutexes')
           /\ \A x \in Hilos : Dueno(x) => Dueno(x)'
<1>0. MismosHilos /\ MismaBaja /\ TypeOK /\ \A x \in Hilos : x # h => Ajeno(x)
  BY DEF PasoDe, JInv, IInv
<1>1. \A x \in Hilos : Presente(x) => Presente(x)'
  BY <1>0 DEF Presente, SeEstaFinalizando, MismosHilos, MismaBaja
<1>2. enMemoria' = enMemoria /\ enMemoria \subseteq Hilos
  BY <1>0 DEF MismosHilos, TypeOK
<1>3. \A x \in enMemoria' : tcb'[x].mutexEnEspera = tcb[x].mutexEnEspera
  BY <1>0, <1>2 DEF Ajeno
<1>4. Colas'
  BY <1>0, <1>1, <1>2, <1>3, ColasMarco DEF MismosMutex, JInv, Hilado
<1>5. "MUTEX_LOCK" \notin Syscalls => SinMutexes'
  BY MutexesMarco DEF MismosMutex, JInv, Hilado, Escasez
<1>6. \A x \in Hilos : Dueno(x) => Dueno(x)'
  BY DEF Dueno, MismosMutex
<1> QED BY <1>4, <1>5, <1>6
-----------------------------------------------------------------------------
(* System calls of the running thread that neither create nor finish one.  *)

\* The caller goes on as it was.
LEMMA SigueIgual ==
    ASSUME JInv, cp.pc = "ejecutando", Seguir, MismosHilos,
           UNCHANGED <<tcb, varsColas, varsExternas, hiloEnExec>>,
           Colas', \A x \in Hilos : tcb[x].estado = "BLOCKED" /\ Dueno(x) => Dueno(x)',
           "MUTEX_LOCK" \notin Syscalls => SinMutexes'
    PROVE  Hilado'
<1> DEFINE h == hiloEnExec
<1>1. /\ h \in Hilos /\ Vivo(h) /\ Creado(h) /\ EnSuLugar(h) /\ EnMano
      /\ tcb[h].estado = "EXECUTE" /\ ~Zombi(h)
  BY ElQueCorre
<1>2. UNCHANGED <<tcb, hilosEnReady, hilosEnBlock, dispositivoIO, dumps, hiloEnExec>>
  BY DEF varsColas, varsExternas
<1>3. /\ SoloDe(h, tcb, tcb') /\ SoloMueve(h, hilosEnReady, hilosEnReady')
      /\ SoloMueve(h, dispositivoIO, dispositivoIO')
  BY <1>2 DEF SoloDe, SoloMueve
<1>4. PasoDe(h) /\ EnMano'
  BY <1>1, <1>2, <1>3, VuelvePasoDe
<1>5. MismosPunteros /\ tcb'[h].estado = "EXECUTE"
  BY <1>1, <1>2 DEF MismosPunteros
<1>6. Joins'
  BY <1>1, <1>2, <1>4, <1>5, JoinsIgual
<1>7. EnSuLugar(h)'
  <2>1. NadaDe(h)
    BY <1>1, <1>2, <1>4 DEF NadaDe
  <2> QED BY <1>1, <2>1, LugarIgual
<1>8. ~Zombi(h)'
  BY <1>1, <1>2, MismosVivos
<1>9. HiloBien(h)
  BY <1>1, <1>2, <1>5, <1>7, <1>8 DEF HiloBien
<1>10. BlockBien(h)
  BY <1>1, <1>2, <1>8 DEF BlockBien, SinIO, BlockExacto
<1> QED BY <1>1, <1>4, <1>5, <1>6, <1>9, <1>10, PasoDeUno DEF MismosPunteros

\* The caller waits for something, in hilosEnBlock.
LEMMA EsperaBien ==
    ASSUME JInv, cp.pc = "ejecutando", Desalojar, MismosHilos, UNCHANGED hiloEnExec,
           hilosEnBlock' = [hilosEnBlock EXCEPT ![hiloEnExec] = @ + 1],
           UNCHANGED hilosEnReady, tcb' \in [Hilos -> Tcbs],
           tcb'[hiloEnExec].estado = "BLOCKED",
           SoloMueve(hiloEnExec, dispositivoIO, dispositivoIO'),
           \A x \in Hilos : x # hiloEnExec =>
              /\ x \in dumps' <=> x \in dumps
              /\ tcb'[x].estado = tcb[x].estado
              /\ tcb'[x].bloqueadoPorJoin = tcb[x].bloqueadoPorJoin
              /\ tcb'[x].bloqueadoPorIO = tcb[x].bloqueadoPorIO
              /\ tcb'[x].mutexEnEspera = tcb[x].mutexEnEspera,
           \A t \in Hilos : tcb'[t].hiloBloqueadoPorJoin
                               \in {tcb[t].hiloBloqueadoPorJoin, hiloEnExec},
           hiloEnExec \in dumps' => PuedeIrAReady(hiloEnExec)',
           tcb'[hiloEnExec].bloqueadoPorIO => UnaVez(dispositivoIO', hiloEnExec),
           ~tcb'[hiloEnExec].bloqueadoPorIO => hiloEnExec \notin ToSet(dispositivoIO'),
           EsperaAlgo(hiloEnExec)',
           "IO" \notin Syscalls => UNCHANGED dispositivoIO,
           Joins', Colas', \A x \in Hilos : Dueno(x) => Dueno(x)',
           "MUTEX_LOCK" \notin Syscalls => SinMutexes'
    PROVE  Hilado'
<1> DEFINE h == hiloEnExec
<1>1. /\ h \in Hilos /\ Vivo(h) /\ Creado(h) /\ EnSuLugar(h) /\ EnMano
      /\ tcb[h].estado = "EXECUTE" /\ ~Zombi(h) /\ h \notin ToSet(hilosEnReady)
  BY ElQueCorre
<1>2. hilosEnBlock \in [Hilos -> Nat]
  BY DEF JInv, IInv, TypeOK
<1>3. /\ hilosEnBlock'[h] = hilosEnBlock[h] + 1 /\ hilosEnBlock'[h] > 0
      /\ \A x \in Hilos : x # h => hilosEnBlock'[x] = hilosEnBlock[x]
  BY <1>1, <1>2
<1>4. MismaBaja /\ cp'.pc = "elegir" /\ ~EnMano'
  <2>1. cp'.pc = "elegir" /\ cp'.hilo = cp.hilo /\ replanificar' = TRUE
    BY DesalojarHecho DEF JInv, IInv
  <2> QED BY <2>1 DEF MismaBaja, EnFinalizacion, EnMano
<1>5. PasoDe(h)
  <2>1. \A x \in Hilos : x # h => Ajeno(x)
    BY <1>3, <1>4 DEF Ajeno, NadaDe, SoloMueve
  <2> QED BY <1>4, <2>1 DEF PasoDe
<1>6. EnSuLugar(h)'
  BY <1>1, <1>3, <1>4 DEF EnSuLugar
<1>7. ~Zombi(h)'
  BY <1>1, MismosVivos
<1>8. HiloBien(h)
  BY <1>1, <1>6, <1>7 DEF HiloBien
<1>9. "IO" \notin Syscalls => BlockBien(h)
  <2> SUFFICES ASSUME SinIO, UNCHANGED dispositivoIO
               PROVE  dispositivoIO' = <<>> /\ hilosEnBlock'[h] = 1
    BY <1>7 DEF BlockBien
  <2>1. hilosEnBlock[h] = 0
    BY <1>1 DEF SinIO, BlockExacto
  <2> QED BY <1>3, <2>1 DEF SinIO
<1> QED BY <1>1, <1>5, <1>8, <1>9, PasoDeUno

LEMMA HiladoJoin == JInv /\ THREAD_JOIN => Hilado'
<1> SUFFICES ASSUME JInv, THREAD_JOIN PROVE Hilado'
  OBVIOUS
<1> DEFINE h == hiloEnExec
<1>1. /\ cp.pc = "ejecutando" /\ Desalojar
      /\ hilosEnBlock' = [hilosEnBlock EXCEPT ![h] = @ + 1]
      /\ UNCHANGED <<varsProceso, mutex, hilosEnReady, semHiloEnReady, varsExit,
                     varsExternas, hiloEnExec, caida>>
  BY DEF THREAD_JOIN, Pide, En
<1>2. MismosHilos /\ MismosMutex /\ UNCHANGED <<dispositivoIO, dumps>>
  BY <1>1, MismosSiIguales DEF MismosMutex, varsProceso, varsExit, varsExternas
<1>3. /\ h \in Hilos /\ Vivo(h) /\ Creado(h) /\ EnMano
      /\ ~tcb[h].bloqueadoPorIO /\ h \notin dumps /\ h \notin ToSet(dispositivoIO)
      /\ \A t \in Hilos : ~Apunta(t, h)
  BY <1>1, ElQueCorre
<1>4. PICK k \in Hilos :
         /\ tcb' \in [Hilos -> Tcbs]
         /\ \A x \in Hilos :
               /\ tcb'[x].estado = IF x = h THEN "BLOCKED" ELSE tcb[x].estado
               /\ tcb'[x].hiloBloqueadoPorJoin = IF x = k THEN h ELSE tcb[x].hiloBloqueadoPorJoin
               /\ tcb'[x].bloqueadoPorJoin = IF x = h THEN TRUE ELSE tcb[x].bloqueadoPorJoin
               /\ tcb'[x].bloqueadoPorIO = tcb[x].bloqueadoPorIO
               /\ tcb'[x].mutexEnEspera = tcb[x].mutexEnEspera
  BY <1>3, JoinHecho DEF JInv, IInv
<1>5. cp'.pc = "elegir" /\ cp'.hilo = cp.hilo
  BY <1>1, DesalojarHecho DEF JInv, IInv
<1>6. Joins'
  <2> SUFFICES ASSUME NEW t \in Hilos, NEW x \in Hilos, Apunta(t, x)', Vivo(x)'
               PROVE  tcb'[x].bloqueadoPorJoin /\ \A u \in Hilos : Apunta(u, x)' => u = t
    BY DEF Joins
  <2>1. Vivo(x)
    BY <1>2, MismosVivos
  <2>2. \A u \in Hilos : Apunta(u, x)' => (u = k /\ x = h) \/ Apunta(u, x)
    BY <1>2, <1>4, <1>5 DEF Apunta, Activo, MismosHilos
  <2>3. CASE x = h
    BY <1>3, <1>4, <2>2, <2>3
  <2>4. CASE x # h
    <3>1. tcb[x].bloqueadoPorJoin /\ \A u \in Hilos : Apunta(u, x) => u = t
      BY <2>1, <2>2, <2>4 DEF Joins, JInv, Hilado
    <3> QED BY <1>4, <2>2, <2>4, <3>1
  <2> QED BY <2>3, <2>4
<1>7. TypeOK /\ Colas /\ enMemoria' = enMemoria /\ enMemoria \subseteq Hilos
  BY <1>2 DEF JInv, IInv, Hilado, TypeOK, MismosHilos
<1>8. \A x \in Hilos : Presente(x) => Presente(x)'
  BY <1>1, <1>5, <1>7 DEF Presente, SeEstaFinalizando
<1>9. Colas'
  <2>1. \A x \in enMemoria' : tcb'[x].mutexEnEspera = tcb[x].mutexEnEspera
    BY <1>4, <1>7
  <2> QED BY <1>2, <1>7, <1>8, <2>1, ColasMarco DEF MismosMutex
<1>10. /\ \A x \in Hilos : Dueno(x) => Dueno(x)'
       /\ "MUTEX_LOCK" \notin Syscalls => SinMutexes'
  BY <1>2, MutexesMarco DEF MismosMutex, Dueno, JInv, Hilado, Escasez
<1>11. /\ tcb'[h].estado = "BLOCKED" /\ ~tcb'[h].bloqueadoPorIO /\ EsperaAlgo(h)'
       /\ h \notin dumps' /\ h \notin ToSet(dispositivoIO')
       /\ SoloMueve(h, dispositivoIO, dispositivoIO')
  <2>1. tcb'[h].estado = "BLOCKED" /\ ~tcb'[h].bloqueadoPorIO /\ tcb'[h].bloqueadoPorJoin = TRUE
    BY <1>3, <1>4
  <2>2. EsperaAlgo(h)'
    BY <1>1, <2>1 DEF EsperaAlgo
  <2> QED BY <1>2, <1>3, <2>1, <2>2 DEF SoloMueve
<1>12. \A t \in Hilos : tcb'[t].hiloBloqueadoPorJoin \in {tcb[t].hiloBloqueadoPorJoin, h}
  BY <1>4
<1>13. \A x \in Hilos : x # h =>
           /\ x \in dumps' <=> x \in dumps
           /\ tcb'[x].estado = tcb[x].estado
           /\ tcb'[x].bloqueadoPorJoin = tcb[x].bloqueadoPorJoin
           /\ tcb'[x].bloqueadoPorIO = tcb[x].bloqueadoPorIO
           /\ tcb'[x].mutexEnEspera = tcb[x].mutexEnEspera
  BY <1>2, <1>4
<1>14. tcb' \in [Hilos -> Tcbs] /\ UNCHANGED <<hiloEnExec, hilosEnReady, dispositivoIO>>
  BY <1>1, <1>2, <1>4
<1> QED
  BY <1>1, <1>2, <1>6, <1>9, <1>10, <1>11, <1>12, <1>13, <1>14, EsperaBien

\* The calls that only change what the caller itself waits for.
LEMMA EsperaSolo ==
    ASSUME JInv, cp.pc = "ejecutando", Desalojar, MismosHilos, MismosMutex,
           UNCHANGED hiloEnExec,
           hilosEnBlock' = [hilosEnBlock EXCEPT ![hiloEnExec] = @ + 1],
           UNCHANGED hilosEnReady, tcb' \in [Hilos -> Tcbs],
           SoloDe(hiloEnExec, tcb, tcb'),
           tcb'[hiloEnExec].estado = "BLOCKED",
           tcb'[hiloEnExec].hiloBloqueadoPorJoin = tcb[hiloEnExec].hiloBloqueadoPorJoin,
           tcb'[hiloEnExec].bloqueadoPorJoin = tcb[hiloEnExec].bloqueadoPorJoin,
           tcb'[hiloEnExec].mutexEnEspera = tcb[hiloEnExec].mutexEnEspera,
           SoloMueve(hiloEnExec, dispositivoIO, dispositivoIO'),
           \A x \in Hilos : x # hiloEnExec => (x \in dumps' <=> x \in dumps),
           hiloEnExec \in dumps' => PuedeIrAReady(hiloEnExec)',
           tcb'[hiloEnExec].bloqueadoPorIO => UnaVez(dispositivoIO', hiloEnExec),
           ~tcb'[hiloEnExec].bloqueadoPorIO => hiloEnExec \notin ToSet(dispositivoIO'),
           hiloEnExec \in ToSet(dispositivoIO') \cup dumps',
           "IO" \notin Syscalls => UNCHANGED dispositivoIO
    PROVE  Hilado'
<1> DEFINE h == hiloEnExec
<1>1. h \in Hilos /\ \A t \in Hilos : ~Apunta(t, h)
  BY ElQueCorre
<1>2. hilosEnBlock \in [Hilos -> Nat]
  BY DEF JInv, IInv, TypeOK
<1>3. \A x \in Hilos : x # h => hilosEnBlock'[x] = hilosEnBlock[x]
  BY <1>2
<1>4. PasoDe(h)
  BY <1>1, <1>3, SoloMueveNada, VuelvePasoDe
<1>5. MismosPunteros
  BY DEF MismosPunteros, SoloDe
<1>6. Joins'
  BY <1>1, <1>4, <1>5, JoinsIgual
<1>7. /\ Colas' /\ ("MUTEX_LOCK" \notin Syscalls => SinMutexes')
      /\ \A x \in Hilos : Dueno(x) => Dueno(x)'
  BY <1>1, <1>4, ColasIgual
<1>8. EsperaAlgo(h)'
  BY DEF EsperaAlgo
<1>9. \A x \in Hilos : x # h =>
         /\ x \in dumps' <=> x \in dumps
         /\ tcb'[x].estado = tcb[x].estado
         /\ tcb'[x].bloqueadoPorJoin = tcb[x].bloqueadoPorJoin
         /\ tcb'[x].bloqueadoPorIO = tcb[x].bloqueadoPorIO
         /\ tcb'[x].mutexEnEspera = tcb[x].mutexEnEspera
  BY DEF SoloDe
<1>10. \A t \in Hilos : tcb'[t].hiloBloqueadoPorJoin \in {tcb[t].hiloBloqueadoPorJoin, h}
  BY <1>5 DEF MismosPunteros
<1> QED BY <1>6, <1>7, <1>8, <1>9, <1>10, EsperaBien

LEMMA HiladoIO == JInv /\ IO => Hilado'
<1> SUFFICES ASSUME JInv, IO PROVE Hilado'
  OBVIOUS
<1> DEFINE h == hiloEnExec
<1>1. /\ cp.pc = "ejecutando" /\ Desalojar /\ "IO" \in Syscalls
      /\ hilosEnBlock' = [hilosEnBlock EXCEPT ![h] = @ + 1]
      /\ dispositivoIO' = Append(dispositivoIO, h)
      /\ UNCHANGED <<varsProceso, mutex, hilosEnReady, semHiloEnReady, varsExit, dumps,
                     hiloEnExec, caida>>
  BY DEF IO, Pide, En
<1>2. MismosHilos /\ MismosMutex
  BY <1>1, MismosSiIguales DEF MismosMutex, varsProceso, varsExit
<1>3. h \in Hilos /\ h \notin dumps /\ h \notin ToSet(dispositivoIO)
  BY <1>1, ElQueCorre
<1>4. TypeOK /\ dispositivoIO \in Seq(Hilos)
  BY DEF JInv, IInv, TypeOK
<1>5. /\ tcb' \in [Hilos -> Tcbs] /\ SoloDe(h, tcb, tcb')
      /\ tcb'[h].estado = "BLOCKED"
      /\ tcb'[h].hiloBloqueadoPorJoin = tcb[h].hiloBloqueadoPorJoin
      /\ tcb'[h].bloqueadoPorJoin = tcb[h].bloqueadoPorJoin
      /\ tcb'[h].bloqueadoPorIO = TRUE
      /\ tcb'[h].mutexEnEspera = tcb[h].mutexEnEspera
  BY <1>3, <1>4, IOHecho
<1>6. /\ SoloMueve(h, dispositivoIO, dispositivoIO')
      /\ UnaVez(dispositivoIO', h) /\ h \in ToSet(dispositivoIO') /\ h \notin dumps'
  BY <1>1, <1>3, <1>4, EfectoAppend, SoloMueveAppend
<1> QED BY <1>1, <1>2, <1>5, <1>6, EsperaSolo

LEMMA HiladoDump == JInv /\ DUMP_MEMORY => Hilado'
<1> SUFFICES ASSUME JInv, DUMP_MEMORY PROVE Hilado'
  OBVIOUS
<1> DEFINE h == hiloEnExec
<1>1. /\ cp.pc = "ejecutando" /\ Desalojar
      /\ hilosEnBlock' = [hilosEnBlock EXCEPT ![h] = @ + 1]
      /\ dumps' = dumps \cup {h}
      /\ UNCHANGED <<varsProceso, mutex, hilosEnReady, semHiloEnReady, varsExit,
                     dispositivoIO, hiloEnExec, caida>>
  BY DEF DUMP_MEMORY, Pide, En
<1>2. MismosHilos /\ MismosMutex
  BY <1>1, MismosSiIguales DEF MismosMutex, varsProceso, varsExit
<1>3. /\ h \in Hilos /\ h \notin ToSet(dispositivoIO) /\ tcb[h].mutexEnEspera = {}
      /\ ~tcb[h].bloqueadoPorJoin /\ ~tcb[h].bloqueadoPorIO
  BY <1>1, ElQueCorre
<1>4. /\ tcb' \in [Hilos -> Tcbs] /\ SoloDe(h, tcb, tcb')
      /\ MismaEspera(h, tcb, tcb') /\ tcb'[h].estado = "BLOCKED"
  BY <1>3, DumpHecho DEF JInv, IInv
<1>5. /\ tcb'[h].hiloBloqueadoPorJoin = tcb[h].hiloBloqueadoPorJoin
      /\ tcb'[h].bloqueadoPorJoin = tcb[h].bloqueadoPorJoin
      /\ tcb'[h].bloqueadoPorIO = tcb[h].bloqueadoPorIO
      /\ tcb'[h].mutexEnEspera = tcb[h].mutexEnEspera
  BY <1>4 DEF MismaEspera
<1>6. PuedeIrAReady(h)'
  BY <1>1, <1>3, <1>5 DEF PuedeIrAReady
<1>7. /\ SoloMueve(h, dispositivoIO, dispositivoIO') /\ h \notin ToSet(dispositivoIO')
      /\ \A x \in Hilos : x # h => (x \in dumps' <=> x \in dumps)
      /\ h \in dumps'
  BY <1>1, <1>3, SoloMueveNada
<1>8. ~tcb'[h].bloqueadoPorIO
  BY <1>3, <1>5
<1> QED BY <1>1, <1>2, <1>4, <1>5, <1>6, <1>7, <1>8, EsperaSolo

LEMMA HiladoQuantum == JInv /\ FIN_DE_QUANTUM => Hilado'
<1> SUFFICES ASSUME JInv, FIN_DE_QUANTUM PROVE Hilado'
  OBVIOUS
<1> DEFINE h == hiloEnExec
<1>1. /\ cp.pc = "ejecutando" /\ Desalojar
      /\ transicion_a_ready(h, tcb, PuedeIrAReady(h))
      /\ UNCHANGED <<varsProceso, mutex, hilosEnBlock, varsExit, varsExternas,
                     hiloEnExec, caida>>
  BY DEF FIN_DE_QUANTUM, En
<1>2. MismosHilos /\ MismosMutex /\ UNCHANGED <<dispositivoIO, dumps>>
  BY <1>1, MismosSiIguales DEF MismosMutex, varsProceso, varsExit, varsExternas
<1>3. /\ h \in Hilos /\ Vivo(h) /\ Creado(h) /\ EnSuLugar(h) /\ ~Zombi(h)
      /\ tcb[h].estado = "EXECUTE" /\ tcb[h].mutexEnEspera = {}
      /\ ~tcb[h].bloqueadoPorJoin /\ ~tcb[h].bloqueadoPorIO
      /\ h \notin dumps /\ h \notin ToSet(hilosEnReady) /\ h \notin ToSet(dispositivoIO)
  BY <1>1, ElQueCorre
<1>4. PuedeIrAReady(h)
  BY <1>3 DEF PuedeIrAReady
<1>5. TypeOK /\ tcb \in [Hilos -> Tcbs] /\ hilosEnReady \in Seq(Hilos)
  BY DEF JInv, IInv, TypeOK
<1>6. transicion_a_ready(h, tcb, TRUE)
  BY <1>1, <1>4
<1>7. /\ SoloDe(h, tcb, tcb') /\ MismaEspera(h, tcb, tcb') /\ tcb'[h].estado = "READY"
      /\ hilosEnReady' = Append(hilosEnReady, h)
  BY <1>3, <1>5, <1>6, Transicion
<1>8. /\ SoloMueve(h, hilosEnReady, hilosEnReady') /\ UnaVez(hilosEnReady', h)
      /\ SoloMueve(h, dispositivoIO, dispositivoIO')
  BY <1>2, <1>3, <1>5, <1>7, EfectoAppend, SoloMueveAppend, SoloMueveNada
<1>9. PasoDe(h) /\ ~EnMano'
  BY <1>1, <1>2, <1>3, <1>7, <1>8, VuelvePasoDe
<1>10. /\ tcb'[h].hiloBloqueadoPorJoin = tcb[h].hiloBloqueadoPorJoin
       /\ tcb'[h].bloqueadoPorJoin = tcb[h].bloqueadoPorJoin
       /\ tcb'[h].bloqueadoPorIO = tcb[h].bloqueadoPorIO
       /\ tcb'[h].mutexEnEspera = tcb[h].mutexEnEspera
  BY <1>7 DEF MismaEspera
<1>11. MismosPunteros
  BY <1>7, <1>10 DEF MismosPunteros, SoloDe
<1>12. Joins'
  BY <1>3, <1>9, <1>10, <1>11, JoinsIgual
<1>13. /\ Colas' /\ ("MUTEX_LOCK" \notin Syscalls => SinMutexes')
       /\ \A x \in Hilos : Dueno(x) => Dueno(x)'
  BY <1>2, <1>3, <1>9, <1>10, ColasIgual
<1>14. EnSuLugar(h)'
  BY <1>1, <1>2, <1>3, <1>7, <1>8, <1>9, <1>10 DEF EnSuLugar, PuedeIrAReady
<1>17. ~Zombi(h)'
  BY <1>1, <1>2, <1>3, MismosVivos
<1>15. HiloBien(h)
  BY <1>1, <1>3, <1>7, <1>14, <1>17 DEF HiloBien
<1>16. BlockBien(h)
  BY <1>1, <1>2, <1>3, <1>7, <1>17 DEF BlockBien, SinIO, BlockExacto
<1> QED BY <1>3, <1>9, <1>11, <1>12, <1>13, <1>15, <1>16, PasoDeUno DEF MismosPunteros
-----------------------------------------------------------------------------
(* Mutexes.                                                                *)

\* All but mutex m stay.
SoloElMutex(m) ==
    \A n \in Mutexes : n # m => /\ mutex'[n].tomadoPor = mutex[n].tomadoPor
                                /\ mutex'[n].hilosBloqueados = mutex[n].hilosBloqueados

\* What Colas says of one mutex.
ColaBien(m) ==
    /\ mutex[m].tomadoPor = NULO => mutex[m].hilosBloqueados = <<>>
    /\ mutex[m].tomadoPor # NULO =>
          mutex[m].tomadoPor[1] = m[1] /\ Presente(mutex[m].tomadoPor)
    /\ IsInjective(mutex[m].hilosBloqueados)
    /\ \A h \in ToSet(mutex[m].hilosBloqueados) : h[1] = m[1] /\ Presente(h)
    /\ \A h \in enMemoria : h[1] = m[1] =>
          (m[2] \in tcb[h].mutexEnEspera <=> h \in ToSet(mutex[m].hilosBloqueados))

LEMMA ColasUna ==
    ASSUME JInv, NEW m \in Mutexes, SoloElMutex(m), UNCHANGED enMemoria,
           \A h \in Hilos : Presente(h) => Presente(h)',
           \A h \in enMemoria : \A r \in Recursos : <<h[1], r>> # m =>
              (r \in tcb'[h].mutexEnEspera <=> r \in tcb[h].mutexEnEspera),
           ColaBien(m)'
    PROVE  Colas'
<1>1. TypeOK /\ Colas /\ enMemoria \subseteq Hilos
  BY DEF JInv, IInv, Hilado, TypeOK
<1>2. ASSUME NEW n \in Mutexes, n # m PROVE ColaBien(n)'
  <2>1. ColaBien(n)
    BY <1>1 DEF Colas, ColaBien
  <2>2. /\ mutex'[n].tomadoPor = mutex[n].tomadoPor
        /\ mutex'[n].hilosBloqueados = mutex[n].hilosBloqueados
    BY <1>2 DEF SoloElMutex
  <2>3. /\ mutex[n].tomadoPor \in Hilos \cup {NULO}
        /\ \A h \in ToSet(mutex[n].hilosBloqueados) : h \in Hilos
    BY <1>1 DEF TypeOK, LosMutex, HiloONulo, ToSet
  <2>4. ASSUME NEW h \in enMemoria, h[1] = n[1]
        PROVE  n[2] \in tcb'[h].mutexEnEspera <=> n[2] \in tcb[h].mutexEnEspera
    <3>1. n[2] \in Recursos /\ n = <<h[1], n[2]>>
      BY <2>4 DEF Mutexes
    <3> QED BY <1>2, <3>1
  <2> QED BY <2>1, <2>2, <2>3, <2>4 DEF ColaBien
<1> QED BY <1>2 DEF Colas, ColaBien

LEMMA PresenteIgual ==
    ASSUME MismosHilos, MismaBaja
    PROVE  UNCHANGED enMemoria /\ \A h \in Hilos : Presente(h) => Presente(h)'
BY DEF Presente, SeEstaFinalizando, MismosHilos, MismaBaja

LEMMA SeguirBaja ==
    ASSUME JInv, cp.pc = "ejecutando", Seguir \/ Desalojar
    PROVE  MismaBaja
<1>1. cp'.pc = "elegir" /\ cp'.hilo = cp.hilo
  BY SeguirHecho, DesalojarHecho DEF JInv, IInv
<1> QED BY <1>1 DEF MismaBaja, EnFinalizacion

LEMMA HiladoMutexCreate == JInv /\ MUTEX_CREATE => Hilado'
<1> SUFFICES ASSUME JInv, MUTEX_CREATE PROVE Hilado'
  OBVIOUS
<1>1. /\ cp.pc = "ejecutando" /\ Seguir
      /\ UNCHANGED <<tcb, varsProceso, varsColas, varsExit, varsExternas, hiloEnExec, caida>>
  BY DEF MUTEX_CREATE, Pide, En
<1>2. PICK r \in Recursos : mutex' = [mutex EXCEPT ![<<PidEnExec, r>>].creado = TRUE]
  BY DEF MUTEX_CREATE
<1> DEFINE m == <<PidEnExec, r>>
<1>3. m \in Mutexes /\ mutex \in [Mutexes -> LosMutex]
  BY <1>1, ElQueCorre DEF Mutexes, JInv, IInv, TypeOK
<1>4. MismosMutex
  <2>1. mutex' = [mutex EXCEPT ![m].creado = TRUE]
    BY <1>2
  <2> HIDE DEF m
  <2> QED BY <1>3, <2>1 DEF MismosMutex, LosMutex
<1>5. MismosHilos /\ UNCHANGED tcb
  BY <1>1, MismosSiIguales DEF varsProceso, varsExit
<1>6. /\ UNCHANGED enMemoria /\ \A h \in Hilos : Presente(h) => Presente(h)'
  BY <1>1, <1>5, PresenteIgual, SeguirBaja
<1>7. Colas'
  BY <1>4, <1>5, <1>6, ColasMarco DEF JInv, IInv, Hilado, MismosMutex
<1>8. /\ \A x \in Hilos : Dueno(x) => Dueno(x)'
      /\ "MUTEX_LOCK" \notin Syscalls => SinMutexes'
  BY <1>4, MutexesMarco DEF MismosMutex, Dueno, JInv, Hilado, Escasez
<1> QED BY <1>1, <1>5, <1>7, <1>8, SigueIgual

LEMMA HiladoLockLibre ==
    ASSUME JInv, cp.pc = "ejecutando", "MUTEX_LOCK" \in Syscalls, NEW m \in Mutexes,
           m[1] = PidEnExec, LockLibre(m), MismosHilos,
           UNCHANGED <<hilosEnReady, semHiloEnReady, varsExternas, hiloEnExec>>
    PROVE  Hilado'
<1> DEFINE h == hiloEnExec
<1>1. /\ mutex[m].tomadoPor = NULO /\ mutex' = [mutex EXCEPT ![m].tomadoPor = h]
      /\ Seguir /\ UNCHANGED <<tcb, hilosEnBlock>>
  BY DEF LockLibre
<1>2. mutex \in [Mutexes -> LosMutex] /\ Colas
  BY DEF JInv, IInv, Hilado, TypeOK
<1>3. h \in Hilos /\ h \in enMemoria /\ h[1] = m[1] /\ h # NULO
  BY ElQueCorre, PartesDeHilo DEF PidEnExec
<1>4. /\ SoloElMutex(m) /\ mutex'[m].tomadoPor = h
      /\ mutex'[m].hilosBloqueados = mutex[m].hilosBloqueados
  <2> HIDE DEF h
  <2> QED BY <1>1, <1>2 DEF SoloElMutex, LosMutex
<1>5. UNCHANGED enMemoria /\ \A x \in Hilos : Presente(x) => Presente(x)'
  BY <1>1, PresenteIgual, SeguirBaja
<1>6. ColaBien(m)'
  <2>1. ColaBien(m)
    BY <1>2 DEF Colas, ColaBien
  <2>2. \A x \in ToSet(mutex[m].hilosBloqueados) : x \in Hilos
    BY <1>2 DEF LosMutex, ToSet
  <2>3. Presente(mutex[m].tomadoPor)'
    BY <1>3, <1>4, <1>5 DEF Presente
  <2> QED BY <1>1, <1>3, <1>4, <1>5, <2>1, <2>2, <2>3 DEF ColaBien
<1>7. Colas'
  BY <1>1, <1>4, <1>5, <1>6, ColasUna
<1>8. \A x \in Hilos : Dueno(x) => Dueno(x)'
  <2> SUFFICES ASSUME NEW x \in Hilos, NEW n \in Mutexes, mutex[n].tomadoPor = x
               PROVE  mutex'[n].tomadoPor = x
    BY DEF Dueno
  <2>1. n # m
    BY <1>1, PartesDeHilo
  <2> QED BY <1>4, <2>1 DEF SoloElMutex
<1> QED BY <1>1, <1>7, <1>8, SigueIgual DEF varsColas

LEMMA HiladoLockTomado ==
    ASSUME JInv, cp.pc = "ejecutando", "MUTEX_LOCK" \in Syscalls, NEW m \in Mutexes,
           m[1] = PidEnExec, LockTomado(m), MismosHilos,
           UNCHANGED <<hilosEnReady, semHiloEnReady, varsExternas, hiloEnExec>>
    PROVE  Hilado'
<1> DEFINE h == hiloEnExec
<1>1. /\ mutex[m].tomadoPor # NULO /\ Desalojar
      /\ hilosEnBlock' = [hilosEnBlock EXCEPT ![h] = @ + 1]
      /\ UNCHANGED <<dispositivoIO, dumps>>
  BY DEF LockTomado, varsExternas
<1>2. /\ mutex \in [Mutexes -> LosMutex] /\ Colas /\ TypeOK
      /\ mutex[m].hilosBloqueados \in Seq(Hilos) /\ mutex[m].tomadoPor \in HiloONulo
  BY DEF JInv, IInv, Hilado, TypeOK, LosMutex
<1>3. /\ h \in Hilos /\ h \in enMemoria /\ h[1] = m[1] /\ tcb[h].mutexEnEspera = {}
      /\ ~tcb[h].bloqueadoPorJoin /\ ~tcb[h].bloqueadoPorIO
      /\ h \notin dumps /\ h \notin ToSet(dispositivoIO)
      /\ h \notin ToSet(mutex[m].hilosBloqueados)
      /\ \A t \in Hilos : ~Apunta(t, h)
  BY ElQueCorre DEF PidEnExec
<1>4. /\ tcb' \in [Hilos -> Tcbs] /\ SoloDe(h, tcb, tcb')
      /\ tcb'[h].estado = "BLOCKED"
      /\ tcb'[h].hiloBloqueadoPorJoin = tcb[h].hiloBloqueadoPorJoin
      /\ tcb'[h].bloqueadoPorJoin = tcb[h].bloqueadoPorJoin
      /\ tcb'[h].bloqueadoPorIO = tcb[h].bloqueadoPorIO
      /\ tcb'[h].mutexEnEspera = tcb[h].mutexEnEspera \cup {m[2]}
      /\ \A n \in Mutexes :
            /\ mutex'[n].tomadoPor = mutex[n].tomadoPor
            /\ mutex'[n].hilosBloqueados
                  = IF n = m THEN Append(mutex[n].hilosBloqueados, h)
                             ELSE mutex[n].hilosBloqueados
  BY <1>2, <1>3, LockTomadoHecho
<1>5. /\ SoloElMutex(m) /\ mutex'[m].tomadoPor = mutex[m].tomadoPor
      /\ mutex'[m].hilosBloqueados = Append(mutex[m].hilosBloqueados, h)
  BY <1>4 DEF SoloElMutex
<1>6. UNCHANGED enMemoria /\ \A x \in Hilos : Presente(x) => Presente(x)'
  BY <1>1, PresenteIgual, SeguirBaja
<1> DEFINE q == Append(mutex[m].hilosBloqueados, h)
<1>7. /\ IsInjective(q) /\ ToSet(q) = ToSet(mutex[m].hilosBloqueados) \cup {h}
  <2>1. IsInjective(mutex[m].hilosBloqueados)
    BY <1>2 DEF Colas
  <2> QED BY <1>2, <1>3, <2>1, EfectoAppend
<1>8. ColaBien(m)'
  <2>1. ColaBien(m)
    BY <1>2 DEF Colas, ColaBien
  <2>2. \A x \in ToSet(mutex[m].hilosBloqueados) : x \in Hilos
    BY <1>2 DEF ToSet
  <2>3. \A x \in enMemoria : x \in Hilos
    BY <1>2 DEF TypeOK
  <2>4. \A x \in enMemoria : tcb'[x].mutexEnEspera =
           IF x = h THEN tcb[x].mutexEnEspera \cup {m[2]} ELSE tcb[x].mutexEnEspera
    BY <1>4, <2>3 DEF SoloDe
  <2>5. mutex'[m].hilosBloqueados = q
    BY <1>5
  <2> HIDE DEF q
  <2>6. /\ mutex'[m].tomadoPor # NULO /\ mutex'[m].tomadoPor[1] = m[1]
        /\ Presente(mutex[m].tomadoPor)
    BY <1>1, <1>5, <2>1 DEF ColaBien
  <2>7. Presente(mutex[m].tomadoPor)'
    BY <1>1, <1>2, <1>5, <1>6, <2>6 DEF HiloONulo
  <2>8. \A x \in ToSet(q) : x[1] = m[1] /\ Presente(x)'
    BY <1>3, <1>6, <1>7, <2>1, <2>2 DEF ColaBien, Presente
  <2>9. \A x \in enMemoria : x[1] = m[1] => (m[2] \in tcb'[x].mutexEnEspera <=> x \in ToSet(q))
    BY <1>7, <2>1, <2>4 DEF ColaBien
  <2> QED BY <1>6, <1>7, <2>5, <2>6, <2>7, <2>8, <2>9 DEF ColaBien
<1>9. Colas'
  <2>1. ASSUME NEW x \in enMemoria, NEW r \in Recursos, <<x[1], r>> # m
        PROVE  r \in tcb'[x].mutexEnEspera <=> r \in tcb[x].mutexEnEspera
    <3>1. x \in Hilos
      BY <1>2 DEF TypeOK
    <3>2. CASE x = h
      <4>1. m = <<m[1], m[2]>>
        BY DEF Mutexes
      <4>2. r # m[2]
        BY <1>3, <2>1, <3>2, <4>1
      <4> QED BY <1>4, <3>2, <4>2
    <3>3. CASE x # h
      BY <1>4, <3>1, <3>3 DEF SoloDe
    <3> QED BY <3>2, <3>3
  <2> QED BY <1>5, <1>6, <1>8, <2>1, ColasUna
<1>10. \A x \in Hilos : Dueno(x) => Dueno(x)'
  BY <1>4 DEF Dueno
<1>11. \A x \in Hilos : x # h => hilosEnBlock'[x] = hilosEnBlock[x]
  BY <1>1, <1>2 DEF TypeOK
<1>12. PasoDe(h)
  BY <1>1, <1>3, <1>4, <1>11, SoloMueveNada, VuelvePasoDe
<1>13. MismosPunteros
  BY <1>4 DEF MismosPunteros, SoloDe
<1>14. Joins'
  BY <1>3, <1>12, <1>13, JoinsIgual
<1>15. EsperaAlgo(h)'
  <2>1. tcb'[h].mutexEnEspera # {}
    BY <1>4
  <2> QED BY <2>1 DEF EsperaAlgo
<1>16. \A x \in Hilos : x # h =>
          /\ x \in dumps' <=> x \in dumps
          /\ tcb'[x].estado = tcb[x].estado
          /\ tcb'[x].bloqueadoPorJoin = tcb[x].bloqueadoPorJoin
          /\ tcb'[x].bloqueadoPorIO = tcb[x].bloqueadoPorIO
          /\ tcb'[x].mutexEnEspera = tcb[x].mutexEnEspera
  BY <1>1, <1>4 DEF SoloDe
<1>17. /\ \A t \in Hilos : tcb'[t].hiloBloqueadoPorJoin \in {tcb[t].hiloBloqueadoPorJoin, h}
       /\ ~tcb'[h].bloqueadoPorIO /\ h \notin dumps' /\ h \notin ToSet(dispositivoIO')
       /\ SoloMueve(h, dispositivoIO, dispositivoIO')
  BY <1>1, <1>3, <1>4, <1>13, SoloMueveNada DEF MismosPunteros
<1> QED BY <1>1, <1>4, <1>9, <1>10, <1>14, <1>15, <1>16, <1>17, EsperaBien

LEMMA HiladoUnlockSinEspera ==
    ASSUME JInv, cp.pc = "ejecutando", NEW m \in Mutexes, mutex[m].tomadoPor = hiloEnExec,
           UnlockSinEspera(m), Seguir, MismosHilos, UNCHANGED <<varsExternas, hiloEnExec>>
    PROVE  Hilado'
<1> DEFINE h == hiloEnExec
<1>1. /\ mutex[m].hilosBloqueados = <<>> /\ mutex' = [mutex EXCEPT ![m].tomadoPor = NULO]
      /\ UNCHANGED <<tcb, varsColas>>
  BY DEF UnlockSinEspera
<1>2. mutex \in [Mutexes -> LosMutex] /\ Colas
  BY DEF JInv, IInv, Hilado, TypeOK
<1>3. h \in Hilos /\ tcb[h].estado = "EXECUTE" /\ h # NULO
  BY ElQueCorre, PartesDeHilo
<1>4. /\ SoloElMutex(m) /\ mutex'[m].tomadoPor = NULO /\ mutex'[m].hilosBloqueados = <<>>
  BY <1>1, <1>2 DEF SoloElMutex, LosMutex
<1>5. UNCHANGED enMemoria /\ \A x \in Hilos : Presente(x) => Presente(x)'
  BY PresenteIgual, SeguirBaja
<1>6. ColaBien(m)'
  <2>1. ColaBien(m)
    BY <1>2 DEF Colas, ColaBien
  <2>2. ToSet(<<>>) = {}
    BY DEF ToSet
  <2>3. mutex'[m].hilosBloqueados = mutex[m].hilosBloqueados /\ UNCHANGED <<tcb, enMemoria>>
    BY <1>1, <1>4, <1>5
  <2> QED BY <1>1, <1>4, <2>1, <2>2, <2>3 DEF ColaBien
<1>7. Colas'
  BY <1>1, <1>4, <1>5, <1>6, ColasUna
<1>8. \A x \in Hilos : tcb[x].estado = "BLOCKED" /\ Dueno(x) => Dueno(x)'
  <2> SUFFICES ASSUME NEW x \in Hilos, tcb[x].estado = "BLOCKED",
                      NEW n \in Mutexes, mutex[n].tomadoPor = x
               PROVE  mutex'[n].tomadoPor = x
    BY DEF Dueno
  <2>1. n # m
    BY <1>3
  <2> QED BY <1>4, <2>1 DEF SoloElMutex
<1>9. "MUTEX_LOCK" \in Syscalls
  BY <1>3 DEF JInv, Hilado, Escasez, SinMutexes
<1> QED BY <1>1, <1>7, <1>8, <1>9, SigueIgual

LEMMA HiladoUnlockConEspera ==
    ASSUME JInv, cp.pc = "ejecutando", NEW m \in Mutexes, m[1] = PidEnExec,
           mutex[m].tomadoPor = hiloEnExec,
           UnlockConEspera(m), Seguir, MismosHilos, UNCHANGED <<varsExternas, hiloEnExec>>
    PROVE  Hilado'
<1>1. TypeOK /\ Colas /\ Lugares /\ Creados
  BY DEF JInv, IInv, Hilado
<1>2. PICK h \in Hilos, listo \in BOOLEAN :
         /\ mutex[m].hilosBloqueados # <<>>
         /\ h = Head(mutex[m].hilosBloqueados)
         /\ listo => /\ hilosEnBlock[h] > 0
                     /\ tcb[h].mutexEnEspera \ {m[2]} = {}
                     /\ ~tcb[h].bloqueadoPorJoin /\ ~tcb[h].bloqueadoPorIO
         /\ tcb' \in [Hilos -> Tcbs] /\ SoloDe(h, tcb, tcb')
         /\ tcb'[h].estado = IF listo /\ tcb[h].estado # "LIBERADO" THEN "READY"
                                                               ELSE tcb[h].estado
         /\ tcb'[h].hiloBloqueadoPorJoin = tcb[h].hiloBloqueadoPorJoin
         /\ tcb'[h].bloqueadoPorJoin = tcb[h].bloqueadoPorJoin
         /\ tcb'[h].bloqueadoPorIO = tcb[h].bloqueadoPorIO
         /\ tcb'[h].mutexEnEspera = tcb[h].mutexEnEspera \ {m[2]}
         /\ IF listo THEN /\ hilosEnReady' = Append(hilosEnReady, h)
                          /\ semHiloEnReady' = semHiloEnReady + 1
                          /\ hilosEnBlock' = [hilosEnBlock EXCEPT ![h] = @ - 1]
                     ELSE UNCHANGED varsColas
         /\ \A n \in Mutexes :
               /\ mutex'[n].tomadoPor = IF n = m THEN h ELSE mutex[n].tomadoPor
               /\ mutex'[n].hilosBloqueados
                     = IF n = m THEN Tail(mutex[n].hilosBloqueados)
                                ELSE mutex[n].hilosBloqueados
  BY <1>1, UnlockHecho
<1>3. /\ UNCHANGED <<hiloEnExec, dispositivoIO, dumps>> /\ hilosEnReady \in Seq(Hilos)
      /\ hilosEnBlock \in [Hilos -> Nat] /\ mutex[m].hilosBloqueados \in Seq(Hilos)
  BY <1>1 DEF varsExternas, TypeOK, LosMutex
<1>4. /\ hiloEnExec \in Hilos /\ hiloEnExec # NULO /\ pcb[PidEnExec] = "vivo" /\ EnMano
      /\ tcb[hiloEnExec].estado = "EXECUTE"
  BY ElQueCorre, PartesDeHilo
<1> DEFINE q == Tail(mutex[m].hilosBloqueados)
<1>5. /\ q \in Seq(Hilos) /\ h \in ToSet(mutex[m].hilosBloqueados)
      /\ IsInjective(mutex[m].hilosBloqueados)
      /\ IsInjective(q) /\ ToSet(q) = ToSet(mutex[m].hilosBloqueados) \ {h}
  <2>1. IsInjective(mutex[m].hilosBloqueados)
    BY <1>1 DEF Colas
  <2> QED BY <1>2, <1>3, <2>1, EfectoTail
<1>6. SoloElMutex(m) /\ mutex'[m].tomadoPor = h /\ mutex'[m].hilosBloqueados = q
  BY <1>2 DEF SoloElMutex
<1> HIDE DEF q
<1>7. ColaBien(m)
  BY <1>1 DEF Colas, ColaBien
\* The heir is blocked in this mutex, of the process that runs.
<1>8. h \in enMemoria /\ h[1] = m[1] /\ m[2] \in tcb[h].mutexEnEspera
  BY <1>5, <1>7 DEF ColaBien, Presente, SeEstaFinalizando
<1>9. /\ Vivo(h) /\ EnSuLugar(h) /\ ~Zombi(h) /\ Creado(h)
  BY <1>1, <1>4, <1>8 DEF Vivo, Zombi, Lugares, Creados, Referido
<1>10. /\ ~PuedeIrAReady(h) /\ tcb[h].estado = "BLOCKED"
       /\ h \notin ToSet(hilosEnReady) /\ h \notin dumps
       /\ h # hiloEnExec /\ hilosEnBlock[h] > 0
  <2>1. ~PuedeIrAReady(h)
    BY <1>8 DEF PuedeIrAReady
  <2> QED BY <1>4, <1>9, <2>1 DEF EnSuLugar
<1>11. MismaBaja /\ UNCHANGED enMemoria /\ \A x \in Hilos : Presente(x) => Presente(x)'
  BY PresenteIgual, SeguirBaja
<1>12. \A x \in enMemoria : tcb'[x].mutexEnEspera =
          IF x = h THEN tcb[x].mutexEnEspera \ {m[2]} ELSE tcb[x].mutexEnEspera
  BY <1>1, <1>2 DEF SoloDe, TypeOK
<1>13. ColaBien(m)'
  <2>1. \A x \in ToSet(q) : x[1] = m[1] /\ Presente(x)'
    BY <1>5, <1>7, <1>11 DEF ColaBien, ToSet
  <2>2. \A x \in enMemoria : x[1] = m[1] => (m[2] \in tcb'[x].mutexEnEspera <=> x \in ToSet(q))
    BY <1>5, <1>7, <1>12 DEF ColaBien
  <2>3. h # NULO /\ Presente(h)'
    BY <1>8, <1>11, PartesDeHilo DEF Presente
  <2> QED BY <1>5, <1>6, <1>8, <1>11, <2>1, <2>2, <2>3 DEF ColaBien
<1>14. Colas'
  <2>1. ASSUME NEW x \in enMemoria, NEW r \in Recursos, <<x[1], r>> # m
        PROVE  r \in tcb'[x].mutexEnEspera <=> r \in tcb[x].mutexEnEspera
    <3>1. CASE x = h
      <4>1. m = <<m[1], m[2]>>
        BY DEF Mutexes
      <4>2. r # m[2]
        BY <1>8, <2>1, <3>1, <4>1
      <4> QED BY <1>2, <3>1, <4>2
    <3>2. CASE x # h
      BY <1>12, <3>2
    <3> QED BY <3>1, <3>2
  <2> QED BY <1>6, <1>11, <1>13, <2>1, ColasUna
<1>15. \A x \in Hilos : tcb[x].estado = "BLOCKED" /\ Dueno(x) => Dueno(x)'
  <2> SUFFICES ASSUME NEW x \in Hilos, tcb[x].estado = "BLOCKED",
                      NEW n \in Mutexes, mutex[n].tomadoPor = x
               PROVE  mutex'[n].tomadoPor = x
    BY DEF Dueno
  <2>1. n # m
    BY <1>4
  <2> QED BY <1>6, <2>1 DEF SoloElMutex
<1>16. Dueno(h)'
  BY <1>6 DEF Dueno
<1>17. "MUTEX_LOCK" \in Syscalls
  BY <1>4 DEF JInv, Hilado, Escasez, SinMutexes
<1>18. /\ SoloMueve(h, hilosEnReady, hilosEnReady')
       /\ SoloMueve(h, dispositivoIO, dispositivoIO')
       /\ \A x \in Hilos : x # h => hilosEnBlock'[x] = hilosEnBlock[x]
  <2>1. CASE listo
    BY ZenonT(30), <1>2, <1>3, <2>1, SoloMueveAppend, SoloMueveNada
  <2>2. CASE ~listo
    BY <1>2, <1>3, <2>2, SoloMueveNada DEF varsColas
  <2> QED BY <2>1, <2>2
<1>19. PasoDe(h) /\ EnMano'
  BY <1>2, <1>3, <1>18, VuelvePasoDe
<1>20. MismosPunteros
  BY <1>2 DEF MismosPunteros, SoloDe
<1>21. Joins'
  BY <1>2, <1>19, <1>20, JoinsIgual
<1>22. EnSuLugar(h)'
  <2>1. CASE listo
    <3>1. UnaVez(hilosEnReady', h) /\ tcb'[h].estado = "READY"
      <4>1. hilosEnReady' = Append(hilosEnReady, h) /\ tcb'[h].estado = "READY"
        BY <1>2, <1>10, <2>1
      <4>2. UnaVez(Append(hilosEnReady, h), h)
        BY <1>3, <1>10, EfectoAppend
      <4> QED BY <4>1, <4>2
    <3>2. PuedeIrAReady(h)'
      BY <1>2, <2>1 DEF PuedeIrAReady
    <3>3. ~tcb'[h].bloqueadoPorIO /\ h \notin ToSet(dispositivoIO') /\ h \notin dumps'
      BY <1>2, <1>3, <1>9, <1>10, <2>1 DEF EnSuLugar
    <3>4. ~(EnMano' /\ h = hiloEnExec')
      BY <1>3, <1>10
    <3> QED BY <3>1, <3>2, <3>3, <3>4 DEF EnSuLugar
  <2>2. CASE ~listo
    <3>1. UNCHANGED <<hilosEnReady, hilosEnBlock>> /\ tcb'[h].estado = tcb[h].estado
      BY <1>2, <2>2 DEF varsColas
    <3>2. NadaDe(h)
      BY <1>2, <1>3, <1>4, <1>19, <3>1 DEF NadaDe
    <3> QED BY <1>9, <3>2, LugarIgual
  <2> QED BY <2>1, <2>2
<1>25. ~Zombi(h)'
  BY <1>9, MismosVivos
<1>23. HiloBien(h)
  BY <1>2, <1>9, <1>10, <1>16, <1>22, <1>25 DEF HiloBien
<1>24. BlockBien(h)
  <2> SUFFICES ASSUME SinIO
               PROVE  dispositivoIO' = <<>>
                      /\ hilosEnBlock'[h] = IF tcb'[h].estado = "BLOCKED" THEN 1 ELSE 0
    BY <1>25 DEF BlockBien
  <2>1. hilosEnBlock[h] = 1 /\ dispositivoIO' = <<>>
    BY <1>3, <1>9, <1>10 DEF SinIO, BlockExacto
  <2>2. CASE listo
    BY SMTT(30), <1>2, <1>3, <1>10, <2>1, <2>2
  <2>3. CASE ~listo
    BY <1>2, <1>10, <2>1, <2>3 DEF varsColas
  <2> QED BY <2>1, <2>2, <2>3
<1> QED
  BY <1>2, <1>9, <1>14, <1>15, <1>17, <1>19, <1>20, <1>21, <1>23, <1>24, PasoDeUno
     DEF MismosPunteros

LEMMA HiladoUnlock ==
    ASSUME JInv, MUTEX_UNLOCK
    PROVE  \/ Hilado'
           \/ \E m \in Mutexes : UnlockAjeno(m) /\ UNCHANGED <<varsProceso, varsExternas,
                                                               hiloEnExec, caida>>
<1>1. /\ cp.pc = "ejecutando" /\ PidEnExec \in Pids
      /\ UNCHANGED <<varsProceso, varsExternas, hiloEnExec, caida>>
  BY ElQueCorre DEF MUTEX_UNLOCK, Pide, En
<1>2. PICK r \in Recursos :
         \/ /\ mutex[<<PidEnExec, r>>].tomadoPor = hiloEnExec
            /\ UnlockSinEspera(<<PidEnExec, r>>) \/ UnlockConEspera(<<PidEnExec, r>>)
            /\ Seguir
            /\ UNCHANGED varsExit
         \/ UnlockAjeno(<<PidEnExec, r>>)
  BY DEF MUTEX_UNLOCK
<1> DEFINE m == <<PidEnExec, r>>
<1>3. m \in Mutexes /\ m[1] = PidEnExec
  BY <1>1 DEF Mutexes
<1>4. \/ /\ mutex[m].tomadoPor = hiloEnExec
         /\ UnlockSinEspera(m) \/ UnlockConEspera(m)
         /\ Seguir
         /\ UNCHANGED varsExit
      \/ UnlockAjeno(m)
  BY <1>2
<1> HIDE DEF m
<1>5. UNCHANGED varsExit => MismosHilos
  BY <1>1, MismosSiIguales DEF varsProceso, varsExit
<1> QED BY <1>1, <1>3, <1>4, <1>5, HiladoUnlockSinEspera, HiladoUnlockConEspera

LEMMA HiladoLock ==
    ASSUME JInv, MUTEX_LOCK
    PROVE  \/ Hilado'
           \/ /\ finalizar_hilo(hiloEnExec, "mutex", 0)
              /\ UNCHANGED <<varsProceso, mutex, varsColas, varsExternas, hiloEnExec>>
<1>1. /\ cp.pc = "ejecutando" /\ PidEnExec \in Pids /\ "MUTEX_LOCK" \in Syscalls
      /\ UNCHANGED <<varsProceso, hilosEnReady, semHiloEnReady, varsExternas, hiloEnExec,
                     caida>>
  BY ElQueCorre DEF MUTEX_LOCK, Pide, En
<1>2. PICK r \in Recursos :
         \/ /\ LockLibre(<<PidEnExec, r>>) \/ LockTomado(<<PidEnExec, r>>)
            /\ UNCHANGED varsExit
         \/ /\ finalizar_hilo(hiloEnExec, "mutex", 0)
            /\ UNCHANGED <<mutex, hilosEnBlock>>
  BY DEF MUTEX_LOCK
<1> DEFINE m == <<PidEnExec, r>>
<1>3. m \in Mutexes /\ m[1] = PidEnExec
  BY <1>1 DEF Mutexes
<1>4. \/ (LockLibre(m) \/ LockTomado(m)) /\ UNCHANGED varsExit
      \/ finalizar_hilo(hiloEnExec, "mutex", 0) /\ UNCHANGED <<mutex, hilosEnBlock>>
  BY <1>2
<1> HIDE DEF m
<1>5. UNCHANGED varsExit => MismosHilos
  BY <1>1, MismosSiIguales DEF varsProceso, varsExit
<1> QED BY <1>1, <1>3, <1>4, <1>5, HiladoLockLibre, HiladoLockTomado DEF varsColas
-----------------------------------------------------------------------------
(* The end of threads.                                                     *)

\* A step of the scheduler's control, or of a dump that failed.
LEMMA SoloControl ==
    ASSUME JInv, NEW h \in Hilos, Creado(h), MismosHilos, MismaBaja,
           UNCHANGED <<tcb, mutex, hilosEnReady, hilosEnBlock, dispositivoIO>>,
           \A x \in Hilos : x \in dumps' => x \in dumps,
           \A x \in Hilos : x # h /\ x \in dumps => x \in dumps',
           cp'.pc = "colgado" \/ UNCHANGED dumps,
           \A x \in Hilos : x # h \/ Vivo(x)' =>
              (EnMano' /\ x = hiloEnExec' <=> EnMano /\ x = hiloEnExec)
    PROVE  Hilado'
<1>1. PasoDe(h)
  BY SoloMueveNada, AjenosMarco DEF SoloDe
<1>2. MismosPunteros /\ MismosMutex
  BY DEF MismosPunteros, MismosMutex
<1>3. Joins'
  BY <1>1, <1>2, JoinsIgual
<1>4. /\ Colas' /\ ("MUTEX_LOCK" \notin Syscalls => SinMutexes')
      /\ \A x \in Hilos : Dueno(x) => Dueno(x)'
  BY <1>1, <1>2, ColasIgual
<1>5. (Vivo(h)' => Vivo(h)) /\ (Zombi(h)' => Zombi(h))
  BY MismosVivos
<1>6. HiloBien(h)
  <2>1. ASSUME Vivo(h)' PROVE EnSuLugar(h)'
    <3>1. EnSuLugar(h)
      BY <1>5, <2>1 DEF JInv, Hilado, Lugares
    <3>2. NadaDe(h)
      BY <2>1 DEF NadaDe
    <3> QED BY <3>1, <3>2, LugarIgual
  <2>2. ASSUME Vivo(h)', tcb'[h].estado = "BLOCKED", ~EsperaAlgo(h)', cp'.pc # "colgado"
        PROVE  Dueno(h)'
    <3>1. Vivo(h) /\ tcb[h].estado = "BLOCKED" /\ ~EsperaAlgo(h)
      BY <1>5, <2>2 DEF EsperaAlgo
    <3>2. cp.pc # "colgado"
      BY <2>2 DEF MismaBaja
    <3> QED BY <1>4, <3>1, <3>2 DEF JInv, Hilado, BloqueadoDeMasSoloPorHerencia
  <2>3. ASSUME Syscalls \cap Bajas # {}, Zombi(h)' PROVE Quieto(h)'
    <3>1. Quieto(h)
      BY <1>5, <2>3 DEF JInv, Hilado, Zombis
    <3>2. \A t \in Hilos : Apunta(t, h)' => Apunta(t, h)
      BY DEF Apunta, Activo, MismaBaja, MismosHilos
    <3> QED BY <3>1, <3>2 DEF Quieto
  <2> QED BY <2>1, <2>2, <2>3 DEF HiloBien
<1>7. BlockBien(h)
  BY <1>5 DEF BlockBien, SinIO, BlockExacto
<1> QED BY <1>1, <1>2, <1>3, <1>4, <1>6, <1>7, PasoDeUno DEF MismosPunteros

LEMMA ListaMenor ==
    ASSUME JInv, NEW p \in Pids, NEW q, listaDeHilos' = [listaDeHilos EXCEPT ![p] = q],
           ToSet(q) \subseteq ToSet(listaDeHilos[p]),
           IsInjective(listaDeHilos[p]) => IsInjective(q)
    PROVE  /\ EnLista' /\ listaDeHilos'[p] = q
           /\ \A r \in Pids : ToSet(listaDeHilos'[r]) \subseteq ToSet(listaDeHilos[r])
<1>1. listaDeHilos \in [Pids -> Seq(Hilos)] /\ EnLista
  BY DEF JInv, IInv, TypeOK, Hilado
<1>2. listaDeHilos'[p] = q /\ \A r \in Pids : r # p => listaDeHilos'[r] = listaDeHilos[r]
  BY <1>1
<1>3. \A r \in Pids : ToSet(listaDeHilos'[r]) \subseteq ToSet(listaDeHilos[r])
  BY <1>2
<1>4. \A r \in Pids : IsInjective(listaDeHilos'[r])
  BY <1>1, <1>2 DEF EnLista
<1> QED BY <1>1, <1>2, <1>3, <1>4 DEF EnLista

\* finalizar_hilo, of a thread the memory knows.
LEMMA HiladoFinaliza ==
    ASSUME JInv, cp.pc \in {"ejecutando", "iterar"}, NEW h \in Hilos, h \in enMemoria,
           NEW o \in {"salir", "mutex", "cancelar", "proceso"}, NEW i \in 0 .. CantHilos,
           finalizar_hilo(h, o, i),
           UNCHANGED <<pcb, siguienteTid, mutex, varsColas, varsExternas, hiloEnExec>>,
           EnLista', \A p \in Pids : ToSet(listaDeHilos'[p]) \subseteq ToSet(listaDeHilos[p]),
           \/ h \notin ToSet(listaDeHilos'[h[1]])
           \/ cp.pc = "ejecutando" /\ h = hiloEnExec
    PROVE  Hilado'
<1>0. TypeOK /\ Hilado
  BY DEF JInv, IInv
<1>1. /\ tcb' \in [Hilos -> Tcbs] /\ SoloDe(h, tcb, tcb')
      /\ MismaEspera(h, tcb, tcb') /\ tcb'[h].estado = "EXIT"
      /\ hilosEnExit' = Append(hilosEnExit, h)
      /\ enMemoria' = enMemoria \ {h}
      /\ cp' = [pc |-> "avisando", hilo |-> h, origen |-> o, i |-> i]
  BY <1>0, FinalizarHecho
<1>2. cp'.pc = "avisando" /\ cp'.hilo = h
  BY <1>1
<1>3. \A x \in Hilos :
         /\ x # h => tcb'[x].estado = tcb[x].estado
         /\ tcb'[x].hiloBloqueadoPorJoin = tcb[x].hiloBloqueadoPorJoin
         /\ tcb'[x].bloqueadoPorJoin = tcb[x].bloqueadoPorJoin
         /\ tcb'[x].bloqueadoPorIO = tcb[x].bloqueadoPorIO
         /\ tcb'[x].mutexEnEspera = tcb[x].mutexEnEspera
  BY <1>1 DEF SoloDe, MismaEspera
<1>4. UNCHANGED <<pcb, siguienteTid, mutex, hilosEnReady, hilosEnBlock, dispositivoIO, dumps,
                  hiloEnExec>>
  BY DEF varsColas, varsExternas
<1>5. EnMano /\ EnMano' /\ ~EnFinalizacion /\ cp.pc # "colgado"
  BY <1>2 DEF EnMano, EnFinalizacion
<1>6. \A x \in Hilos : /\ Vivo(x)' => Vivo(x) /\ x # h
                       /\ Zombi(x)' /\ x # h => Zombi(x)
                       /\ Presente(x) => Presente(x)'
  <2> SUFFICES ASSUME NEW x \in Hilos
               PROVE  /\ Vivo(x)' => Vivo(x) /\ x # h
                      /\ Zombi(x)' /\ x # h => Zombi(x)
                      /\ Presente(x) => Presente(x)'
    OBVIOUS
  <2>1. ToSet(listaDeHilos'[x[1]]) \subseteq ToSet(listaDeHilos[x[1]])
    BY PartesDeHilo
  <2> QED BY <1>1, <1>2, <1>4, <1>5, <2>1
          DEF Vivo, Zombi, Presente, SeEstaFinalizando, EnFinalizacion
<1>7. hilosEnExit \in Seq(Hilos) /\ h \notin ToSet(hilosEnExit)
  BY <1>0 DEF TypeOK, Hilado, Muertos
<1>8. /\ ToSet(hilosEnExit') = ToSet(hilosEnExit) \cup {h}
      /\ IsInjective(hilosEnExit) => IsInjective(hilosEnExit')
  BY <1>1, <1>7, EfectoAppend
<1>9. \A t, x \in Hilos : Apunta(t, x)' => Apunta(t, x)
  BY <1>1, <1>2, <1>3 DEF Apunta, Activo
<1>10. Creados'
  <2>1. ASSUME NEW x \in Hilos, Referido(x)' PROVE Referido(x)
    <3>1. x \in ToSet(listaDeHilos'[x[1]]) => x \in ToSet(listaDeHilos[x[1]])
      BY PartesDeHilo
    <3>2. EnMano' /\ x = hiloEnExec' => EnMano /\ x = hiloEnExec
      BY <1>4, <1>5
    <3>3. EnFinalizacion' /\ x = cp'.hilo => x \in enMemoria
      BY <1>2
    <3>4. x \in ToSet(hilosEnExit') => x \in ToSet(hilosEnExit) \/ x \in enMemoria
      BY <1>8
    <3>5. x \in enMemoria' => x \in enMemoria
      BY <1>1
    <3> QED BY <1>3, <1>4, <2>1, <3>1, <3>2, <3>3, <3>4, <3>5 DEF Referido
  <2> QED BY <1>0, <1>4, <2>1, CreadosMarco DEF Hilado
<1>11. Muertos'
  BY <1>0, <1>1, <1>2, <1>8 DEF Hilado, Muertos
<1>12. Lugares'
  <2>1. ASSUME NEW x \in Hilos, x # h PROVE NadaDe(x)
    BY <1>3, <1>4, <1>5, <2>1 DEF NadaDe
  <2> QED BY <1>0, <1>6, <2>1, LugaresMarco DEF Hilado
<1>13. Joins'
  BY <1>0, <1>3, <1>6, <1>9, JoinsMarco DEF Hilado
<1>14. Colas'
  <2>1. enMemoria' \subseteq enMemoria /\ enMemoria \subseteq Hilos
    BY <1>0, <1>1 DEF TypeOK
  <2>2. \A x \in enMemoria' : tcb'[x].mutexEnEspera = tcb[x].mutexEnEspera
    BY <1>3, <2>1
  <2> QED BY <1>0, <1>4, <1>6, <2>1, <2>2, ColasMarco DEF Hilado
<1>15. BloqueadoDeMasSoloPorHerencia'
  <2>1. \A x \in Hilos : Vivo(x)' /\ tcb'[x].estado = "BLOCKED" /\ ~EsperaAlgo(x)' =>
           /\ Vivo(x) /\ tcb[x].estado = "BLOCKED" /\ ~EsperaAlgo(x)
           /\ Dueno(x) => Dueno(x)'
    BY <1>3, <1>4, <1>6 DEF EsperaAlgo, Dueno
  <2> QED BY <1>0, <1>5, <2>1, MotivosMarco DEF Hilado
<1>16. SeLiberaUnaVez'
  <2>1. \A x \in ToSet(hilosEnExit) : x \in Hilos /\ x # h
    BY <1>7 DEF ToSet
  <2> QED BY <1>0, <1>1, <1>3, <1>8, <2>1 DEF Hilado, SeLiberaUnaVez
\* The thread that finishes by itself was running.
<1>17. Zombi(h)' => /\ tcb[h].estado = "EXECUTE" /\ Vivo(h)
                    /\ h \notin ToSet(dispositivoIO) /\ h \notin dumps
                    /\ \A t \in Hilos : ~Apunta(t, h)
  BY ElQueCorre DEF Zombi
<1>18. Zombis'
  <2>1. Zombi(h)' => Quieto(h)'
    BY <1>1, <1>4, <1>9, <1>17 DEF Quieto
  <2>2. \A x \in Hilos : Zombi(x)' =>
           \/ Quieto(x)'
           \/ /\ Zombi(x) /\ tcb'[x].estado = tcb[x].estado
              /\ x \in ToSet(dispositivoIO') => x \in ToSet(dispositivoIO)
              /\ x \in dumps' => x \in dumps
              /\ \A t \in Hilos : Apunta(t, x)' => Apunta(t, x)
    BY <1>3, <1>4, <1>6, <1>9, <2>1
  <2> QED BY <1>0, <2>2, ZombisMarco DEF Hilado
<1>19. SinIO => SinIO'
  <2> SUFFICES ASSUME SinIO PROVE SinIO'
    OBVIOUS
  <2>1. Zombi(h)' => hilosEnBlock[h] = 0
    BY <1>17 DEF SinIO, BlockExacto
  <2>2. ASSUME NEW x \in Hilos
        PROVE /\ Vivo(x)' => /\ Vivo(x) /\ hilosEnBlock'[x] = hilosEnBlock[x]
                             /\ tcb'[x].estado = tcb[x].estado
              /\ ~Creado(x) => hilosEnBlock'[x] = hilosEnBlock[x]
              /\ Zombi(x)' => \/ hilosEnBlock'[x] = 0
                              \/ Zombi(x) /\ hilosEnBlock'[x] = hilosEnBlock[x]
    BY <1>3, <1>4, <1>6, <2>1
  <2>3. dispositivoIO' = <<>> /\ UNCHANGED siguienteTid
    BY <1>4 DEF SinIO
  <2> QED BY <2>2, <2>3, BlockMarco
<1>20. SinMutexes => SinMutexes'
  BY <1>4, MutexesMarco
<1>21. Escasez'
  BY <1>0, <1>19, <1>20 DEF Escasez, Hilado
<1> QED
  BY <1>10, <1>11, <1>12, <1>13, <1>14, <1>15, <1>16, <1>18, <1>21 DEF Hilado

\* The running thread is finished by its own call.
LEMMA HiladoSale ==
    ASSUME JInv, cp.pc = "ejecutando", NEW o \in {"salir", "mutex", "cancelar", "proceso"},
           finalizar_hilo(hiloEnExec, o, 0),
           UNCHANGED <<varsProceso, mutex, varsColas, varsExternas, hiloEnExec>>
    PROVE  Hilado'
<1>1. hiloEnExec \in Hilos /\ hiloEnExec \in enMemoria
  BY ElQueCorre
<1>2. UNCHANGED <<pcb, listaDeHilos, siguienteTid>>
  BY DEF varsProceso
<1>3. EnLista'
  BY <1>2 DEF JInv, Hilado, EnLista
<1>4. 0 \in 0 .. CantHilos
  BY CotasPositivas
<1> QED BY <1>1, <1>2, <1>3, <1>4, HiladoFinaliza

\* A list that loses a thread, and nothing else.
LEMMA ListaCorta ==
    ASSUME JInv, NEW p \in Pids, NEW q, listaDeHilos' = [listaDeHilos EXCEPT ![p] = q],
           ToSet(q) \subseteq ToSet(listaDeHilos[p]),
           IsInjective(listaDeHilos[p]) => IsInjective(q),
           UNCHANGED <<pcb, siguienteTid, enMemoria, hilosEnExit>>
    PROVE  MismosHilos
<1>1. EnLista' /\ \A r \in Pids : ToSet(listaDeHilos'[r]) \subseteq ToSet(listaDeHilos[r])
  BY ListaMenor
<1> QED BY <1>1 DEF MismosHilos

\* The thread that is cancelled, or met by finalizar_proceso, was not finished.
LEMMA SinFinalizar ==
    ASSUME JInv, Syscalls \cap Bajas # {}, cp.pc \in {"ejecutando", "iterar"},
           NEW h \in ToSet(listaDeHilos[PidEnExec]), ~YaFinalizado(h)
    PROVE  h \in Hilos /\ h \in enMemoria /\ h[1] = PidEnExec
<1>1. PidEnExec \in Pids /\ pcb[PidEnExec] = "vivo" /\ TypeOK
  BY Ejecutando DEF JInv, IInv
<1>2. h \in Hilos
  BY <1>1 DEF TypeOK, ToSet
<1>3. h[1] = PidEnExec
  BY <1>1 DEF JInv, Hilado, EnLista
<1>4. ~Zombi(h)
  BY <1>2 DEF JInv, Hilado, Zombis, Quieto, YaFinalizado
<1> QED BY <1>1, <1>2, <1>3, <1>4 DEF Zombi

LEMMA HiladoCancel == JInv /\ THREAD_CANCEL => Hilado'
<1> SUFFICES ASSUME JInv, THREAD_CANCEL PROVE Hilado'
  OBVIOUS
<1> DEFINE p == PidEnExec
           l == listaDeHilos[p]
<1>1. /\ cp.pc = "ejecutando" /\ TypeOK /\ Syscalls \cap Bajas # {}
      /\ UNCHANGED <<pcb, siguienteTid, mutex, varsColas, varsExternas, hiloEnExec, caida>>
  BY DEF THREAD_CANCEL, Pide, En, JInv, IInv, Bajas
<1>2. hiloEnExec \in Hilos /\ p \in Pids /\ pcb[p] = "vivo"
  BY <1>1, ElQueCorre
<1>3. PICK h \in ToSet(l) :
        /\ listaDeHilos' = [listaDeHilos EXCEPT ![p] = RemoveFirst(l, h)]
        /\ \/ Seguir /\ UNCHANGED <<tcb, varsExit>>
           \/ ~YaFinalizado(h) /\ finalizar_hilo(h, "cancelar", 0)
  <2>1. PICK tid \in Tids :
          /\ EnSuProceso(tid)
          /\ listaDeHilos' = [listaDeHilos EXCEPT ![p] = RemoveFirst(@, <<p, tid>>)]
          /\ \/ Seguir /\ UNCHANGED <<tcb, varsExit>>
             \/ ~YaFinalizado(<<p, tid>>) /\ finalizar_hilo(<<p, tid>>, "cancelar", 0)
    BY DEF THREAD_CANCEL
  <2>2. <<p, tid>> \in ToSet(l)
    BY <2>1 DEF EnSuProceso
  <2>3. listaDeHilos' = [listaDeHilos EXCEPT ![p] = RemoveFirst(l, <<p, tid>>)]
    BY <2>1
  <2> QED BY <2>1, <2>2, <2>3
<1> DEFINE q == RemoveFirst(l, h)
<1>4. l \in Seq(Hilos) /\ IsInjective(l)
  BY <1>1, <1>2 DEF TypeOK, JInv, Hilado, EnLista
<1>5. ToSet(q) \subseteq ToSet(l) /\ IsInjective(q) /\ h \notin ToSet(q)
  BY <1>4, EfectoRemoveFirst
<1> HIDE DEF q
<1>6. listaDeHilos' = [listaDeHilos EXCEPT ![p] = q]
  BY <1>3 DEF q
<1>7. CASE Seguir /\ UNCHANGED <<tcb, varsExit>>
  <2>1. MismosHilos
    BY <1>1, <1>2, <1>5, <1>6, <1>7, ListaCorta DEF varsExit
  <2>2. Colas' /\ ("MUTEX_LOCK" \notin Syscalls => SinMutexes')
    <3>1. UNCHANGED enMemoria /\ \A x \in Hilos : Presente(x) => Presente(x)'
      BY <1>1, <1>7, <2>1, PresenteIgual, SeguirBaja
    <3>2. Colas'
      BY <1>1, <1>7, <3>1, ColasMarco DEF JInv, Hilado
    <3> QED BY <1>1, <3>2, MutexesMarco DEF JInv, Hilado, Escasez
  <2>3. \A x \in Hilos : Dueno(x) => Dueno(x)'
    BY <1>1 DEF Dueno
  <2> QED BY <1>1, <1>7, <2>1, <2>2, <2>3, SigueIgual
<1>8. CASE ~YaFinalizado(h) /\ finalizar_hilo(h, "cancelar", 0)
  <2>1. h \in Hilos /\ h \in enMemoria /\ h[1] = p
    BY <1>1, <1>8, SinFinalizar
  <2>2. /\ EnLista' /\ listaDeHilos'[p] = q
        /\ \A r \in Pids : ToSet(listaDeHilos'[r]) \subseteq ToSet(listaDeHilos[r])
    BY <1>2, <1>5, <1>6, ListaMenor
  <2>3. h \notin ToSet(listaDeHilos'[h[1]]) /\ 0 \in 0 .. CantHilos
    BY <1>5, <2>1, <2>2, CotasPositivas
  <2> QED BY <1>1, <1>8, <2>1, <2>2, <2>3, HiladoFinaliza
<1> QED BY <1>3, <1>7, <1>8

LEMMA HiladoSinNada ==
    ASSUME JInv, cp.pc = "ejecutando", Seguir, MismosHilos,
           UNCHANGED <<tcb, mutex, varsColas, varsExternas, hiloEnExec>>
    PROVE  Hilado'
<1>1. UNCHANGED enMemoria /\ \A x \in Hilos : Presente(x) => Presente(x)'
  BY PresenteIgual, SeguirBaja
<1>2. Colas'
  BY <1>1, ColasMarco DEF JInv, IInv, Hilado
<1>3. "MUTEX_LOCK" \notin Syscalls => SinMutexes'
  BY MutexesMarco DEF JInv, Hilado, Escasez
<1>4. \A x \in Hilos : Dueno(x) => Dueno(x)'
  BY DEF Dueno
<1> QED BY <1>2, <1>3, <1>4, SigueIgual

\* Nothing but caida.
LEMMA HiladoQuieto ==
    ASSUME Hilado,
           UNCHANGED <<tcb, varsProceso, mutex, varsColas, varsExit, varsExternas, varsCP>>
    PROVE  Hilado'
<1>1. UNCHANGED <<tcb, pcb, listaDeHilos, siguienteTid, mutex, hilosEnReady, hilosEnBlock,
                  hilosEnExit, enMemoria, dispositivoIO, dumps, hiloEnExec, replanificar, cp>>
  BY DEF varsProceso, varsColas, varsExit, varsExternas, varsCP
<1>2. Creados' /\ Muertos' /\ EnLista'
  BY <1>1 DEF Hilado, Creados, Creado, Referido, Muertos, EnLista, EnMano, EnFinalizacion
<1>3. Lugares' /\ Joins'
  BY <1>1 DEF Hilado, Lugares, Vivo, EnSuLugar, EnMano, PuedeIrAReady, Joins, Apunta, Activo
<1>4. Colas'
  BY <1>1 DEF Hilado, Colas, Presente, SeEstaFinalizando
<1>5. BloqueadoDeMasSoloPorHerencia' /\ SeLiberaUnaVez'
  BY <1>1 DEF Hilado, BloqueadoDeMasSoloPorHerencia, SeLiberaUnaVez, Vivo, EsperaAlgo, Dueno
<1>6. Zombis' /\ Escasez'
  BY <1>1 DEF Hilado, Zombis, Zombi, Quieto, Apunta, Activo, Escasez, SinIO, SinMutexes,
              BlockExacto, Vivo, Creado
<1> QED BY <1>2, <1>3, <1>4, <1>5, <1>6 DEF Hilado

LEMMA HiladoProcesos == JInv /\ (PROCESS_CREATE \/ SinEseHilo) => Hilado'
<1> SUFFICES ASSUME JInv, PROCESS_CREATE \/ SinEseHilo PROVE Hilado'
  OBVIOUS
<1>1. /\ cp.pc = "ejecutando" /\ Seguir
      /\ UNCHANGED <<tcb, listaDeHilos, siguienteTid, mutex, varsColas, varsExit,
                     varsExternas, hiloEnExec>>
  BY DEF PROCESS_CREATE, SinEseHilo, Pide, En, varsProceso
<1>2. \A p \in Pids : pcb'[p] = "vivo" => pcb[p] = "vivo"
  <2>1. pcb \in [Pids -> {"no", "new", "vivo", "liberado"}]
    BY DEF JInv, IInv, TypeOK
  <2>2. UNCHANGED pcb \/ \E p \in Pids : pcb' = [pcb EXCEPT ![p] = "new"]
    BY DEF PROCESS_CREATE, SinEseHilo, varsProceso
  <2> QED BY <2>1, <2>2
<1>3. MismosHilos
  BY <1>1, <1>2, MismosSiIguales DEF varsExit
<1> QED BY <1>1, <1>3, HiladoSinNada

\* The scheduler goes on to another part of the same call.
LEMMA SigueEnLaLlamada ==
    ASSUME JInv, cp.pc \notin {"elegir", "colgado"}, ~EnFinalizacion,
           cp'.pc \in {"iterar", "colgado"}, cp'.hilo = cp.hilo, UNCHANGED hiloEnExec,
           MismosHilos, UNCHANGED <<tcb, mutex, varsColas, varsExternas>>
    PROVE  Hilado'
<1>1. hiloEnExec \in Hilos /\ EnMano /\ EnMano'
  BY Ejecutando DEF JInv, EnMano
<1>2. Creado(hiloEnExec)
  BY <1>1 DEF JInv, Hilado, Creados, Referido
<1>3. MismaBaja
  BY DEF MismaBaja, EnFinalizacion
<1>4. UNCHANGED <<hilosEnReady, hilosEnBlock, dispositivoIO, dumps>>
  BY DEF varsColas, varsExternas
<1> QED BY <1>1, <1>2, <1>3, <1>4, SoloControl

LEMMA HiladoFinProceso == JInv /\ (PROCESS_EXIT \/ SEGMENTATION_FAULT) => Hilado'
<1> SUFFICES ASSUME JInv, PROCESS_EXIT \/ SEGMENTATION_FAULT PROVE Hilado'
  OBVIOUS
<1>1. /\ cp.pc = "ejecutando" /\ cp \in Controles
      /\ UNCHANGED <<tcb, varsProceso, mutex, varsColas, varsExit, varsExternas,
                     hiloEnExec, replanificar>>
      /\ \/ cp' = [cp EXCEPT !.pc = "iterar", !.i = 0]
         \/ cp' = [cp EXCEPT !.pc = "iterar", !.i = CantHilos]
         \/ cp' = cp
         \/ cp' = [cp EXCEPT !.pc = "colgado"]
  BY DEF PROCESS_EXIT, SEGMENTATION_FAULT, Pide, En, JInv, IInv, TypeOK
<1>2. MismosHilos
  BY <1>1, MismosSiIguales DEF varsProceso, varsExit
<1>3. CASE cp' = cp
  BY <1>1, <1>3, HiladoQuieto DEF JInv, varsCP
<1>4. CASE cp' # cp
  <2>1. cp'.pc \in {"iterar", "colgado"} /\ cp'.hilo = cp.hilo
    BY <1>1, <1>4 DEF Controles
  <2> QED BY <1>1, <1>2, <2>1, SigueEnLaLlamada DEF EnFinalizacion
<1> QED BY <1>3, <1>4

LEMMA HiladoIterar == JInv /\ IterarProceso => Hilado'
<1> SUFFICES ASSUME JInv, IterarProceso PROVE Hilado'
  OBVIOUS
<1> DEFINE p == PidEnExec
           l == listaDeHilos[p]
           h == l[cp.i + 1]
           q == RemoveAt(l, cp.i + 1)
<1>1. /\ cp.pc = "iterar" /\ TypeOK /\ p \in Pids /\ pcb[p] = "vivo" /\ cp \in Controles
  BY Ejecutando DEF IterarProceso, En, JInv, IInv, TypeOK
<1>2. Syscalls \cap Bajas # {}
  BY <1>1 DEF JInv, SinBajas
<1>3. /\ l \in Seq(Hilos) /\ IsInjective(l) /\ Len(l) <= siguienteTid[p]
      /\ siguienteTid[p] \in 0 .. CantHilos /\ cp.i \in 0 .. CantHilos /\ cp.i < Len(l)
  BY <1>1 DEF IterarProceso, JInv, IInv, TypeOK, Listas, Controles, Hilado, EnLista
<1>4. cp.i + 1 \in 1 .. Len(l) /\ cp.i + 1 \in 0 .. CantHilos
  BY <1>3, CotasPositivas
<1>5. /\ listaDeHilos' = [listaDeHilos EXCEPT ![p] = q]
      /\ UNCHANGED <<pcb, siguienteTid, mutex, varsColas, varsExternas, hiloEnExec,
                     replanificar, caida>>
  BY <1>1 DEF IterarProceso, TypeOK
<1>6. \/ cp' = [cp EXCEPT !.i = @ + 1] /\ UNCHANGED <<tcb, varsExit>>
      \/ ~YaFinalizado(h) /\ finalizar_hilo(h, "proceso", cp.i + 1)
  BY DEF IterarProceso
<1>7. h \in ToSet(l)
  BY <1>3, <1>4 DEF ToSet
<1>8. ToSet(q) \subseteq ToSet(l) /\ IsInjective(q) /\ h \notin ToSet(q)
  <2> DEFINE i == cp.i + 1
  <2> HIDE DEF l, i
  <2>1. i \in 1 .. Len(l) /\ l \in Seq(Hilos) /\ IsInjective(l)
    BY <1>3, <1>4 DEF i
  <2> DEFINE t == RemoveAt(l, i)
  <2>2. IsInjective(t) /\ ToSet(t) = ToSet(l) \ {l[i]}
    BY <2>1, EfectoRemoveAt
  <2> QED BY <2>2 DEF i
<1> HIDE DEF p, l, h, q
<1>9. CASE cp' = [cp EXCEPT !.i = @ + 1] /\ UNCHANGED <<tcb, varsExit>>
  <2>1. cp'.pc = "iterar" /\ cp'.hilo = cp.hilo
    BY <1>1, <1>9 DEF Controles
  <2>2. MismosHilos
    BY <1>1, <1>5, <1>8, <1>9, ListaCorta DEF varsExit, l
  <2> QED BY <1>1, <1>5, <1>9, <2>1, <2>2, SigueEnLaLlamada DEF EnFinalizacion
<1>10. CASE ~YaFinalizado(h) /\ finalizar_hilo(h, "proceso", cp.i + 1)
  <2>1. h \in Hilos /\ h \in enMemoria /\ h[1] = p
    BY <1>1, <1>2, <1>7, <1>10, SinFinalizar DEF p, l
  <2>2. /\ EnLista' /\ listaDeHilos'[p] = q
        /\ \A r \in Pids : ToSet(listaDeHilos'[r]) \subseteq ToSet(listaDeHilos[r])
    BY <1>1, <1>5, <1>8, ListaMenor DEF l
  <2>3. h \notin ToSet(listaDeHilos'[h[1]])
    BY <1>8, <2>1, <2>2
  <2> QED BY <1>1, <1>4, <1>5, <1>10, <2>1, <2>2, <2>3, HiladoFinaliza
<1> QED BY <1>6, <1>9, <1>10

LEMMA HiladoLiberarProceso == JInv /\ LiberarProceso => Hilado'
<1> SUFFICES ASSUME JInv, LiberarProceso PROVE Hilado'
  OBVIOUS
<1>1. /\ cp.pc = "iterar" /\ TypeOK /\ hiloEnExec \in Hilos /\ PidEnExec \in Pids
      /\ pcb' = [pcb EXCEPT ![PidEnExec] = "liberado"] /\ Desalojar
      /\ UNCHANGED <<tcb, listaDeHilos, siguienteTid, mutex, varsColas, varsExit,
                     varsExternas, hiloEnExec, caida>>
  BY Ejecutando DEF LiberarProceso, En, JInv, IInv
<1>2. cp'.pc = "elegir" /\ replanificar' = TRUE /\ cp'.hilo = cp.hilo
  BY <1>1, DesalojarHecho
<1>3. \A p \in Pids : pcb'[p] = IF p = PidEnExec THEN "liberado" ELSE pcb[p]
  BY <1>1 DEF TypeOK
<1>4. MismosHilos
  BY <1>1, <1>3, MismosSiIguales DEF varsExit
<1>5. Creado(hiloEnExec)
  BY <1>1 DEF JInv, Hilado, Creados, Referido, EnMano
<1>6. MismaBaja
  BY <1>1, <1>2 DEF MismaBaja, EnFinalizacion
<1>7. ~Vivo(hiloEnExec)'
  BY <1>1, <1>3 DEF Vivo, PidEnExec
<1>8. UNCHANGED <<hilosEnReady, hilosEnBlock, dispositivoIO, dumps>>
  BY <1>1 DEF varsColas, varsExternas
<1>9. \A x \in Hilos : x # hiloEnExec \/ Vivo(x)' =>
         (EnMano' /\ x = hiloEnExec' <=> EnMano /\ x = hiloEnExec)
  BY <1>1, <1>7
<1> QED BY <1>1, <1>4, <1>5, <1>6, <1>8, <1>9, SoloControl

LEMMA HiladoDumpFallido == ASSUME JInv, NEW h \in Hilos, DumpFallido(h) PROVE Hilado'
<1>1. /\ cp.pc = "ejecutando" /\ cp' = [cp EXCEPT !.pc = "colgado"] /\ cp \in Controles
      /\ h \in dumps /\ dumps' = dumps \ {h}
      /\ UNCHANGED <<tcb, varsProceso, mutex, varsColas, varsExit, dispositivoIO,
                     hiloEnExec, replanificar, caida>>
  BY DEF DumpFallido, En, JInv, IInv, TypeOK
<1>2. cp'.pc = "colgado" /\ cp'.hilo = cp.hilo
  BY <1>1 DEF Controles
<1>3. MismosHilos
  BY <1>1, MismosSiIguales DEF varsProceso, varsExit
<1>4. Creado(h)
  BY <1>1 DEF JInv, Hilado, Creados, Referido
<1>5. MismaBaja
  BY <1>1, <1>2 DEF MismaBaja, EnFinalizacion
<1>6. EnMano /\ EnMano' /\ UNCHANGED hiloEnExec
  BY <1>1, <1>2 DEF EnMano
<1> QED BY <1>1, <1>2, <1>3, <1>4, <1>5, <1>6, SoloControl DEF varsColas
-----------------------------------------------------------------------------
(* The choice of a thread, and the queues a finished one is taken off.     *)

\* The thread waits for the same as before.
LEMMA PasoSimple ==
    ASSUME JInv, NEW h \in Hilos, PasoDe(h), HiloBien(h), SoloDe(h, tcb, tcb'),
           MismaEspera(h, tcb, tcb'), UNCHANGED mutex, "IO" \notin Syscalls => BlockBien(h)
    PROVE  Hilado'
<1>1. /\ tcb'[h].hiloBloqueadoPorJoin = tcb[h].hiloBloqueadoPorJoin
      /\ tcb'[h].bloqueadoPorJoin = tcb[h].bloqueadoPorJoin
      /\ tcb'[h].mutexEnEspera = tcb[h].mutexEnEspera
  BY DEF MismaEspera
<1>2. MismosPunteros /\ MismosMutex
  BY <1>1 DEF MismosPunteros, MismosMutex, SoloDe
<1>3. Joins'
  BY <1>1, <1>2, JoinsIgual
<1>4. /\ Colas' /\ ("MUTEX_LOCK" \notin Syscalls => SinMutexes')
      /\ \A x \in Hilos : Dueno(x) => Dueno(x)'
  BY <1>1, <1>2, ColasIgual
<1> QED BY <1>2, <1>3, <1>4, PasoDeUno DEF MismosPunteros

LEMMA SoloMueveRemoveAt ==
    ASSUME NEW s \in Seq(Hilos), NEW i \in 1 .. Len(s)
    PROVE  /\ SoloMueve(s[i], s, RemoveAt(s, i)) /\ s[i] \in ToSet(s)
           /\ UnaVez(s, s[i]) => s[i] \notin ToSet(RemoveAt(s, i))
<1> DEFINE t == RemoveAt(s, i)
<1>1. /\ \A e : e # s[i] /\ UnaVez(s, e) => UnaVez(t, e)
      /\ \A e : e # s[i] /\ e \in ToSet(s) => e \in ToSet(t)
      /\ ToSet(t) \subseteq ToSet(s)
      /\ UnaVez(s, s[i]) => s[i] \notin ToSet(t)
  BY EfectoRemoveAt
<1> QED BY <1>1 DEF SoloMueve, ToSet

\* ejecutar_hilo, of the thread that was chosen or of the one that goes on.
LEMMA HiladoEjecutar ==
    ASSUME JInv, NEW h \in Hilos, ejecutar_hilo(h), cp.pc = "elegir", Creado(h),
           UNCHANGED <<varsProceso, mutex, hilosEnBlock, varsExit, varsExternas,
                       replanificar>>,
           SoloMueve(h, hilosEnReady, hilosEnReady'),
           \/ replanificar /\ h \in ToSet(hilosEnReady)
              /\ (UnaVez(hilosEnReady, h) => h \notin ToSet(hilosEnReady'))
           \/ ~replanificar /\ h = hiloEnExec /\ UNCHANGED hilosEnReady
    PROVE  Hilado'
<1>1. TypeOK /\ UNCHANGED <<hilosEnBlock, dispositivoIO, dumps, mutex, enMemoria>>
  BY DEF JInv, IInv, varsExternas, varsExit
<1>2. MismosHilos
  BY MismosSiIguales DEF varsProceso, varsExit
<1>3. EnMano => h = hiloEnExec
  BY DEF EnMano
<1>4. SoloMueve(h, dispositivoIO, dispositivoIO')
  BY <1>1, SoloMueveNada
<1>5. (Vivo(h)' <=> Vivo(h)) /\ (Zombi(h)' => Zombi(h))
  BY <1>1, <1>2, MismosVivos DEF Vivo, varsProceso
<1>6. CASE Despachable(h)
  <2>1. /\ tcb' \in [Hilos -> Tcbs] /\ SoloDe(h, tcb, tcb')
        /\ MismaEspera(h, tcb, tcb') /\ tcb'[h].estado = "EXECUTE"
        /\ hiloEnExec' = h /\ cp' = [cp EXCEPT !.pc = "ejecutando"]
    BY <1>1, <1>6, EjecutarHecho
  <2>2. cp'.pc = "ejecutando" /\ cp'.hilo = cp.hilo
    BY <1>1, <2>1 DEF TypeOK, Controles
  <2>3. MismaBaja /\ EnMano'
    BY <2>2 DEF MismaBaja, EnFinalizacion, EnMano
  <2>4. PasoDe(h)
    BY <1>1, <1>2, <1>3, <1>4, <2>1, <2>3, AjenosMarco
  <2>5. Vivo(h) /\ EnSuLugar(h)
    BY <1>6 DEF Despachable, Vivo, JInv, Hilado, Lugares
  <2>6. tcb[h].estado \in {"READY", "EXECUTE"} /\ h \notin ToSet(hilosEnReady')
    BY <1>3, <2>5 DEF EnSuLugar, EnMano
  <2>7. /\ tcb'[h].bloqueadoPorJoin = tcb[h].bloqueadoPorJoin
        /\ tcb'[h].bloqueadoPorIO = tcb[h].bloqueadoPorIO
        /\ tcb'[h].mutexEnEspera = tcb[h].mutexEnEspera
    BY <2>1 DEF MismaEspera
  <2>8. EnSuLugar(h)'
    BY <1>1, <2>1, <2>3, <2>5, <2>6, <2>7 DEF EnSuLugar, PuedeIrAReady
  <2>9. ~Zombi(h)'
    BY <1>5, <2>5 DEF Zombi, Vivo
  <2>10. HiloBien(h)
    BY <2>1, <2>8, <2>9 DEF HiloBien
  <2>11. BlockBien(h)
    BY <1>1, <2>1, <2>5, <2>6, <2>9 DEF BlockBien, SinIO, BlockExacto
  <2> QED BY <1>1, <2>1, <2>4, <2>10, <2>11, PasoSimple
<1>7. CASE ~Despachable(h)
  <2>1. UNCHANGED <<hiloEnExec, tcb, cp>>
    BY <1>7 DEF ejecutar_hilo
  <2>2. MismaBaja /\ (EnMano' <=> EnMano) /\ SoloDe(h, tcb, tcb') /\ MismaEspera(h, tcb, tcb')
    BY <2>1 DEF MismaBaja, EnFinalizacion, EnMano, SoloDe, MismaEspera
  <2>3. PasoDe(h)
    BY <1>1, <1>2, <1>4, <2>1, <2>2, AjenosMarco
  <2>4. ~Vivo(h)'
    BY <1>5, <1>7 DEF Despachable, Vivo
  <2>5. Syscalls \cap Bajas # {} /\ Zombi(h)' => Quieto(h)'
    <3>1. Quieto(h) => Quieto(h)'
      BY <1>1, <2>1 DEF Quieto, Apunta, Activo
    <3> QED BY <1>5, <3>1 DEF JInv, Hilado, Zombis
  <2>6. HiloBien(h)
    BY <2>1, <2>4, <2>5 DEF HiloBien
  <2>7. BlockBien(h)
    BY <1>1, <1>5, <2>4 DEF BlockBien, SinIO, BlockExacto
  <2> QED BY <1>1, <2>2, <2>3, <2>6, <2>7, PasoSimple
<1> QED BY <1>6, <1>7

LEMMA HiladoCortoPlazo == JInv /\ CortoPlazo => Hilado'
<1> SUFFICES ASSUME JInv, CortoPlazo PROVE Hilado'
  OBVIOUS
<1>0. TypeOK
  BY DEF JInv, IInv
<1>1. CASE ElegirHilo
  <2>1. PICK i \in Elegidos : /\ hilosEnReady' = RemoveAt(hilosEnReady, i)
                              /\ ejecutar_hilo(hilosEnReady[i])
    BY <1>1 DEF ElegirHilo
  <2> DEFINE h == hilosEnReady[i]
  <2>2. /\ cp.pc = "elegir" /\ replanificar
        /\ UNCHANGED <<varsProceso, mutex, hilosEnBlock, varsExit, varsExternas, replanificar>>
    BY <1>1 DEF ElegirHilo, En
  <2>3. i \in 1 .. Len(hilosEnReady) /\ h \in Hilos /\ hilosEnReady \in Seq(Hilos)
    BY <1>0, ElegidosEstan DEF TypeOK
  <2>4. /\ SoloMueve(h, hilosEnReady, hilosEnReady') /\ h \in ToSet(hilosEnReady)
        /\ UnaVez(hilosEnReady, h) => h \notin ToSet(hilosEnReady')
    BY <2>1, <2>3, SoloMueveRemoveAt
  <2>5. Creado(h)
    BY <2>3, <2>4 DEF JInv, Hilado, Creados, Referido
  <2>6. ejecutar_hilo(h)
    BY <2>1
  <2> HIDE DEF h
  <2> QED BY <2>2, <2>3, <2>4, <2>5, <2>6, HiladoEjecutar
<1>2. CASE ElegirSinHilos
  BY <1>2, HiladoQuieto DEF ElegirSinHilos, JInv
<1>3. CASE ContinuarHilo
  <2> DEFINE h == hiloEnExec
  <2>1. /\ cp.pc = "elegir" /\ ~replanificar /\ ejecutar_hilo(h)
        /\ UNCHANGED <<varsProceso, mutex, varsColas, varsExit, varsExternas, replanificar>>
    BY <1>3 DEF ContinuarHilo, En
  <2>2. EnMano /\ h \in Hilos
    BY <2>1 DEF EnMano, JInv, IInv, Control
  <2>3. Creado(h)
    BY <2>2 DEF JInv, Hilado, Creados, Referido
  <2>4. UNCHANGED <<hilosEnReady, hilosEnBlock>>
    BY <2>1 DEF varsColas
  <2>5. SoloMueve(h, hilosEnReady, hilosEnReady')
    BY <2>4, SoloMueveNada
  <2> QED BY <2>1, <2>2, <2>3, <2>4, <2>5, HiladoEjecutar
<1> QED BY <1>1, <1>2, <1>3 DEF CortoPlazo

LEMMA HiladoEliminar == JInv /\ EliminarDeColas => Hilado'
<1> SUFFICES ASSUME JInv, EliminarDeColas PROVE Hilado'
  OBVIOUS
<1> DEFINE h == cp.hilo
<1>1. /\ cp.pc = "eliminar" /\ cp \in Controles /\ TypeOK
      /\ UNCHANGED <<tcb, varsProceso, mutex, semHiloEnReady, varsExit, varsExternas,
                     hiloEnExec, caida>>
      /\ Seguir \/ (cp' = [cp EXCEPT !.pc = "iterar"] /\ UNCHANGED replanificar)
  BY DEF EliminarDeColas, En, JInv, IInv, TypeOK
<1>2. cp'.pc \in {"elegir", "iterar"} /\ cp'.hilo = cp.hilo /\ EnMano /\ EnMano'
  <2>1. Seguir => cp'.pc = "elegir" /\ cp'.hilo = cp.hilo /\ replanificar' = FALSE
    BY <1>1, SeguirHecho
  <2>2. cp' = [cp EXCEPT !.pc = "iterar"] => cp'.pc = "iterar" /\ cp'.hilo = cp.hilo
    BY <1>1 DEF Controles
  <2> QED BY <1>1, <2>1, <2>2 DEF EnMano
<1>3. EnFinalizacion /\ h \in Hilos /\ h \notin enMemoria /\ Creado(h)
  BY <1>1 DEF EnFinalizacion, JInv, IInv, Control, Hilado, Muertos, Creados, Referido
<1>4. MismaBaja /\ MismosHilos
  BY <1>1, <1>2, MismosSiIguales DEF MismaBaja, EnFinalizacion, varsProceso, varsExit
<1>5. UNCHANGED <<tcb, mutex, dispositivoIO, dumps, hiloEnExec, enMemoria>>
  BY <1>1 DEF varsExternas, varsExit
<1>6. /\ SoloMueve(h, hilosEnReady, hilosEnReady')
      /\ \A x \in Hilos : x # h => hilosEnBlock'[x] = hilosEnBlock[x]
      /\ hilosEnBlock[h] = 0 => hilosEnBlock'[h] = 0
  <2>0. hilosEnReady \in Seq(Hilos) /\ hilosEnBlock \in [Hilos -> Nat]
    BY <1>1 DEF TypeOK
  <2>1. \/ /\ hilosEnBlock[h] > 0
           /\ hilosEnBlock' = [hilosEnBlock EXCEPT ![h] = @ - 1]
           /\ UNCHANGED hilosEnReady
        \/ /\ hilosEnBlock[h] = 0
           /\ hilosEnReady' = RemoveFirst(hilosEnReady, h)
           /\ UNCHANGED hilosEnBlock
    BY DEF EliminarDeColas
  <2> HIDE DEF h
  <2>2. CASE UNCHANGED hilosEnReady
    BY <1>3, <2>0, <2>1, <2>2, SoloMueveNada
  <2>3. CASE hilosEnReady' = RemoveFirst(hilosEnReady, h)
    BY <1>3, <2>0, <2>1, <2>3, SoloMueveRemoveFirst
  <2> QED BY <2>1, <2>2, <2>3
<1>7. SoloMueve(h, dispositivoIO, dispositivoIO') /\ SoloDe(h, tcb, tcb')
      /\ MismaEspera(h, tcb, tcb')
  BY <1>5, SoloMueveNada DEF SoloDe, MismaEspera
<1>13. h' = h
  BY <1>2
<1> HIDE DEF h
<1>8. PasoDe(h)
  BY <1>2, <1>3, <1>4, <1>5, <1>6, <1>7, AjenosMarco
<1>9. ~Vivo(h)' /\ (Zombi(h)' => Zombi(h))
  BY <1>3, <1>4, <1>5, <1>13, MismosVivos DEF Vivo
<1>10. Syscalls \cap Bajas # {} /\ Zombi(h)' => Quieto(h)'
  <2>1. \A t \in Hilos : Apunta(t, h)' => Apunta(t, h)
    BY <1>2, <1>5, <1>13 DEF Apunta, Activo, h
  <2>2. Quieto(h) => Quieto(h)'
    BY <1>5, <1>13, <2>1 DEF Quieto
  <2> QED BY <1>3, <1>9, <2>2 DEF JInv, Hilado, Zombis
<1>11. HiloBien(h)
  BY <1>3, <1>5, <1>9, <1>10 DEF HiloBien
<1>12. BlockBien(h)
  BY <1>3, <1>5, <1>6, <1>9 DEF BlockBien, SinIO, BlockExacto
<1> QED BY <1>3, <1>5, <1>7, <1>8, <1>11, <1>12, PasoSimple
-----------------------------------------------------------------------------
(* The end of the waits.                                                   *)

LEMMA EstaSiUnaVez ==
    ASSUME NEW s, NEW h, UnaVez(s, h)
    PROVE  h \in ToSet(s)
BY DEF UnaVez, ToSet

\* One of the waits of h has ended, or it goes to Ready.
LEMMA PasoDespierta ==
    ASSUME JInv, NEW h \in Hilos, PasoDe(h), HiloBien(h), SoloDe(h, tcb, tcb'),
           tcb'[h].hiloBloqueadoPorJoin = tcb[h].hiloBloqueadoPorJoin,
           tcb'[h].mutexEnEspera = tcb[h].mutexEnEspera,
           Vivo(h) => \/ tcb'[h].bloqueadoPorJoin = tcb[h].bloqueadoPorJoin
                      \/ \A t \in Hilos : ~Apunta(t, h)',
           UNCHANGED mutex, "IO" \notin Syscalls => BlockBien(h)
    PROVE  Hilado'
<1>1. MismosPunteros /\ MismosMutex
  BY DEF MismosPunteros, MismosMutex, SoloDe
<1>2. Joins'
  BY <1>1, JoinsIgual
<1>3. /\ Colas' /\ ("MUTEX_LOCK" \notin Syscalls => SinMutexes')
      /\ \A x \in Hilos : Dueno(x) => Dueno(x)'
  BY <1>1, ColasIgual
<1> QED BY <1>1, <1>2, <1>3, PasoDeUno DEF MismosPunteros

LEMMA HiladoAtenderIO == JInv /\ AtenderIO => Hilado'
<1> SUFFICES ASSUME JInv, AtenderIO PROVE Hilado'
  OBVIOUS
<1>0. TypeOK /\ hilosEnReady \in Seq(Hilos) /\ dispositivoIO \in Seq(Hilos)
  BY DEF JInv, IInv, TypeOK
<1>1. PICK h \in Hilos, listo \in BOOLEAN :
         /\ dispositivoIO # <<>> /\ h = Head(dispositivoIO)
         /\ dispositivoIO' = Tail(dispositivoIO)
         /\ tcb[h].estado # "LIBERADO" =>
               (listo <=> tcb[h].mutexEnEspera = {} /\ ~tcb[h].bloqueadoPorJoin)
         /\ SoloDe(h, tcb, tcb')
         /\ tcb'[h].estado = IF listo /\ tcb[h].estado # "LIBERADO" THEN "READY"
                                                               ELSE tcb[h].estado
         /\ tcb'[h].hiloBloqueadoPorJoin = tcb[h].hiloBloqueadoPorJoin
         /\ tcb'[h].bloqueadoPorJoin = tcb[h].bloqueadoPorJoin
         /\ tcb'[h].bloqueadoPorIO = FALSE
         /\ tcb'[h].mutexEnEspera = tcb[h].mutexEnEspera
         /\ IF listo THEN hilosEnReady' = Append(hilosEnReady, h)
                     ELSE hilosEnReady' = hilosEnReady
  BY <1>0, AtenderIOHecho
<1>2. /\ UNCHANGED <<varsProceso, mutex, hilosEnBlock, varsExit, dumps, varsCP>>
      /\ UNCHANGED <<hiloEnExec, replanificar, cp, mutex>>
  BY DEF AtenderIO, varsCP
<1>3. MismosHilos
  BY <1>2, MismosSiIguales DEF varsProceso, varsExit
<1>4. MismaBaja /\ (EnMano' <=> EnMano)
  BY <1>2 DEF MismaBaja, EnFinalizacion, EnMano
<1>5. /\ SoloMueve(h, dispositivoIO, dispositivoIO') /\ h \in ToSet(dispositivoIO)
      /\ UnaVez(dispositivoIO, h) => h \notin ToSet(dispositivoIO')
  BY <1>0, <1>1, SoloMueveTail, EfectoTail
<1>6. SoloMueve(h, hilosEnReady, hilosEnReady')
  BY <1>0, <1>1, SoloMueveAppend, SoloMueveNada
<1>7. PasoDe(h)
  BY <1>1, <1>2, <1>3, <1>4, <1>5, <1>6, AjenosMarco
<1>8. Creado(h)
  BY <1>5 DEF JInv, Hilado, Creados, Referido
<1>9. (Vivo(h)' => Vivo(h)) /\ (Zombi(h)' => Zombi(h))
  BY <1>3, MismosVivos
<1>10. ASSUME Vivo(h)
       PROVE  /\ EnSuLugar(h) /\ tcb[h].estado = "BLOCKED" /\ h \notin dumps
              /\ UnaVez(dispositivoIO, h) /\ h \notin ToSet(hilosEnReady)
              /\ hilosEnBlock[h] > 0 /\ ~(EnMano /\ h = hiloEnExec)
  <2>1. EnSuLugar(h)
    BY <1>10 DEF JInv, Hilado, Lugares
  <2> QED BY <1>5, <2>1 DEF EnSuLugar, PuedeIrAReady
<1>11. ASSUME Vivo(h), listo
       PROVE  tcb'[h].estado = "READY" /\ EnSuLugar(h)'
  <2>0. tcb'[h].estado = "READY" /\ hilosEnReady' = Append(hilosEnReady, h)
    BY <1>1, <1>10, <1>11
  <2>1. tcb'[h].estado = "READY" /\ UnaVez(hilosEnReady', h)
    BY <1>0, <1>10, <1>11, <2>0, EfectoAppend
  <2>2. PuedeIrAReady(h)'
    BY <1>1, <1>10, <1>11 DEF PuedeIrAReady
  <2> QED BY <1>1, <1>2, <1>4, <1>5, <1>10, <1>11, <2>1, <2>2 DEF EnSuLugar
<1>12. ASSUME Vivo(h), ~listo
       PROVE  tcb'[h].estado = "BLOCKED" /\ EnSuLugar(h)' /\ EsperaAlgo(h)'
  <2>1. tcb'[h].estado = "BLOCKED" /\ hilosEnReady' = hilosEnReady
    BY <1>1, <1>10, <1>12
  <2>2. EsperaAlgo(h)'
    BY <1>1, <1>10, <1>12 DEF EsperaAlgo
  <2> QED BY <1>1, <1>2, <1>4, <1>5, <1>10, <1>12, <2>1, <2>2 DEF EnSuLugar
<1>13. Syscalls \cap Bajas # {} => ~Zombi(h)
  BY <1>5 DEF JInv, Hilado, Zombis, Quieto
<1>14. HiloBien(h)
  BY <1>1, <1>8, <1>9, <1>11, <1>12, <1>13 DEF HiloBien
<1>15. "IO" \in Syscalls
  BY <1>1 DEF JInv, Hilado, Escasez, SinIO
<1> QED BY <1>1, <1>2, <1>7, <1>14, <1>15, PasoDespierta

LEMMA HiladoDumpTerminado == ASSUME JInv, NEW h \in Hilos, DumpTerminado(h) PROVE Hilado'
<1>0. /\ TypeOK /\ hilosEnReady \in Seq(Hilos) /\ hilosEnBlock \in [Hilos -> Nat]
  BY DEF JInv, IInv, TypeOK
<1>1. PICK listo \in BOOLEAN :
         /\ SoloDe(h, tcb, tcb') /\ MismaEspera(h, tcb, tcb')
         /\ listo => PuedeIrAReady(h) /\ EnBlock(h)
         /\ ~listo => ~PuedeIrAReady(h) \/ ~EnBlock(h)
         /\ tcb'[h].estado = IF listo THEN "READY" ELSE tcb[h].estado
         /\ IF listo THEN /\ hilosEnReady' = Append(hilosEnReady, h)
                          /\ hilosEnBlock' = [hilosEnBlock EXCEPT ![h] = @ - 1]
                     ELSE UNCHANGED <<hilosEnReady, hilosEnBlock>>
  <2>1. CASE EnBlock(h)
    <3>1. UNCHANGED caida
      BY <2>1 DEF DumpTerminado
    <3>2. \E listo \in BOOLEAN :
              /\ listo <=> PuedeIrAReady(h)
              /\ SoloDe(h, tcb, tcb') /\ MismaEspera(h, tcb, tcb')
              /\ tcb'[h].estado = IF listo THEN "READY" ELSE tcb[h].estado
              /\ IF listo THEN /\ hilosEnReady' = Append(hilosEnReady, h)
                               /\ hilosEnBlock' = [hilosEnBlock EXCEPT ![h] = @ - 1]
                          ELSE UNCHANGED varsColas
      BY <1>0, <3>1, DumpTerminadoHecho DEF DumpTerminado
    <3> QED BY <2>1, <3>2 DEF varsColas
  <2>2. CASE ~EnBlock(h)
    <3>1. UNCHANGED <<tcb, varsColas>>
      BY <2>2 DEF DumpTerminado
    <3> DEFINE listo == FALSE
    <3>2. /\ listo \in BOOLEAN /\ SoloDe(h, tcb, tcb') /\ MismaEspera(h, tcb, tcb')
          /\ ~listo /\ UNCHANGED <<tcb, hilosEnReady, hilosEnBlock>>
      BY <3>1 DEF SoloDe, MismaEspera, varsColas
    <3> HIDE DEF listo
    <3> QED BY <2>2, <3>2
  <2> QED BY <2>1, <2>2
<1>2. /\ h \in dumps /\ dumps' = dumps \ {h}
      /\ UNCHANGED <<varsProceso, mutex, varsExit, dispositivoIO, varsCP>>
      /\ UNCHANGED <<hiloEnExec, replanificar, cp, mutex>>
  BY DEF DumpTerminado, varsCP
<1>3. MismosHilos
  BY <1>2, MismosSiIguales DEF varsProceso, varsExit
<1>4. MismaBaja /\ (EnMano' <=> EnMano)
  BY <1>2 DEF MismaBaja, EnFinalizacion, EnMano
<1>5. /\ SoloMueve(h, dispositivoIO, dispositivoIO')
      /\ SoloMueve(h, hilosEnReady, hilosEnReady')
      /\ \A x \in Hilos : x # h => /\ hilosEnBlock'[x] = hilosEnBlock[x]
                                   /\ x \in dumps' <=> x \in dumps
  BY <1>0, <1>1, <1>2, SoloMueveAppend, SoloMueveNada
<1>6. PasoDe(h)
  BY <1>1, <1>2, <1>3, <1>4, <1>5, AjenosMarco
<1>7. Creado(h)
  BY <1>2 DEF JInv, Hilado, Creados, Referido
<1>8. (Vivo(h)' => Vivo(h)) /\ (Zombi(h)' => Zombi(h))
  BY <1>3, MismosVivos
<1>9. ASSUME Vivo(h)
      PROVE  /\ EnSuLugar(h) /\ tcb[h].estado = "BLOCKED" /\ PuedeIrAReady(h)
             /\ h \notin ToSet(hilosEnReady) /\ ~(EnMano /\ h = hiloEnExec)
             /\ h \notin ToSet(dispositivoIO) /\ listo
  <2>1. EnSuLugar(h)
    BY <1>9 DEF JInv, Hilado, Lugares
  <2>2. tcb[h].estado = "BLOCKED" /\ PuedeIrAReady(h) /\ hilosEnBlock[h] > 0
    BY <1>2, <2>1 DEF EnSuLugar
  <2>3. EnBlock(h)
    BY <1>9, <2>2 DEF EnBlock, Vivo
  <2>4. ~tcb[h].bloqueadoPorIO
    BY <2>2 DEF PuedeIrAReady
  <2> QED BY <1>1, <2>1, <2>2, <2>3, <2>4 DEF EnSuLugar
<1>10. /\ tcb'[h].bloqueadoPorJoin = tcb[h].bloqueadoPorJoin
       /\ tcb'[h].bloqueadoPorIO = tcb[h].bloqueadoPorIO
       /\ tcb'[h].mutexEnEspera = tcb[h].mutexEnEspera
  BY <1>1 DEF MismaEspera
<1>11. ASSUME Vivo(h) PROVE tcb'[h].estado = "READY" /\ EnSuLugar(h)'
  <2>0. tcb'[h].estado = "READY" /\ hilosEnReady' = Append(hilosEnReady, h)
    BY <1>1, <1>9, <1>11
  <2>1. tcb'[h].estado = "READY" /\ UnaVez(hilosEnReady', h)
    BY <1>0, <1>9, <1>11, <2>0, EfectoAppend
  <2>2. PuedeIrAReady(h)' /\ ~tcb'[h].bloqueadoPorIO
    BY <1>9, <1>10, <1>11 DEF PuedeIrAReady
  <2> QED BY <1>2, <1>4, <1>9, <1>11, <2>1, <2>2 DEF EnSuLugar
<1>12. Syscalls \cap Bajas # {} => ~Zombi(h)
  BY <1>2 DEF JInv, Hilado, Zombis, Quieto
<1>13. HiloBien(h)
  BY <1>1, <1>7, <1>8, <1>11, <1>12 DEF HiloBien
<1>14. BlockBien(h)
  <2> SUFFICES ASSUME SinIO PROVE /\ dispositivoIO' = <<>>
                                  /\ Vivo(h) => hilosEnBlock'[h] = 0
                                  /\ Zombi(h) => hilosEnBlock'[h] = 0
    BY <1>8, <1>11 DEF BlockBien
  <2>1. BlockExacto(h) /\ dispositivoIO' = <<>>
    BY <1>2 DEF SinIO
  <2>2. Vivo(h) => hilosEnBlock'[h] = 0
    BY <1>0, <1>1, <1>9, <2>1 DEF BlockExacto
  <2>3. Zombi(h) => hilosEnBlock'[h] = 0
    BY <1>0, <1>1, <2>1 DEF BlockExacto, EnBlock
  <2> QED BY <2>1, <2>2, <2>3
<1> QED BY <1>1, <1>2, <1>6, <1>13, <1>14, PasoSimple

LEMMA HiladoDespertar == JInv /\ DespertarPorJoin => Hilado'
<1> SUFFICES ASSUME JInv, DespertarPorJoin PROVE Hilado'
  OBVIOUS
<1>0. /\ TypeOK /\ hilosEnReady \in Seq(Hilos) /\ hilosEnBlock \in [Hilos -> Nat]
      /\ cp \in Controles /\ cp.pc = "avisando"
      /\ UNCHANGED <<varsProceso, mutex, varsExit, varsExternas, hiloEnExec, replanificar>>
  BY DEF JInv, IInv, TypeOK, DespertarPorJoin, En
<1>1. /\ EnMano /\ EnFinalizacion /\ cp.hilo \in Hilos /\ cp.hilo \notin enMemoria
      /\ Creado(cp.hilo)
  BY <1>0 DEF EnMano, EnFinalizacion, JInv, IInv, Control, Hilado, Muertos, Creados, Referido
<1>2. MismosHilos /\ UNCHANGED <<dispositivoIO, dumps, mutex, enMemoria>>
  BY <1>0, MismosSiIguales DEF varsProceso, varsExit, varsExternas
<1>3. ASSUME cp' = [cp EXCEPT !.pc = "recursos"]
      PROVE  /\ MismaBaja /\ EnMano' /\ cp'.pc = "recursos" /\ cp'.hilo = cp.hilo
  <2>1. cp'.pc = "recursos" /\ cp'.hilo = cp.hilo
    BY <1>0, <1>3 DEF Controles
  <2> QED BY <1>0, <2>1 DEF MismaBaja, EnFinalizacion, EnMano
<1>4. CASE cp' = [cp EXCEPT !.pc = "recursos"] /\ UNCHANGED <<tcb, varsColas, caida>>
  <2>1. UNCHANGED <<tcb, mutex, hilosEnReady, hilosEnBlock, dispositivoIO, dumps, hiloEnExec>>
    BY <1>0, <1>2, <1>4 DEF varsColas
  <2> QED BY <1>1, <1>2, <1>3, <1>4, <2>1, SoloControl
<1>5. CASE UNCHANGED <<tcb, varsColas, cp>>
  BY <1>0, <1>5, HiladoQuieto DEF JInv, varsCP
<1>6. ASSUME NEW h \in Hilos, NEW listo \in BOOLEAN,
             tcb[cp.hilo].hiloBloqueadoPorJoin = h, hilosEnBlock[h] > 0,
             tcb[h].estado # "LIBERADO" =>
                (listo <=> tcb[h].mutexEnEspera = {} /\ ~tcb[h].bloqueadoPorIO),
             cp' = [cp EXCEPT !.pc = "recursos"], SoloDe(h, tcb, tcb'),
             tcb'[h].estado = IF listo /\ tcb[h].estado # "LIBERADO" THEN "READY"
                                                              ELSE tcb[h].estado,
             tcb'[h].hiloBloqueadoPorJoin = tcb[h].hiloBloqueadoPorJoin,
             tcb'[h].bloqueadoPorJoin = FALSE,
             tcb'[h].bloqueadoPorIO = tcb[h].bloqueadoPorIO,
             tcb'[h].mutexEnEspera = tcb[h].mutexEnEspera,
             IF listo THEN /\ hilosEnReady' = Append(hilosEnReady, h)
                           /\ hilosEnBlock' = [hilosEnBlock EXCEPT ![h] = @ - 1]
                      ELSE UNCHANGED <<hilosEnReady, hilosEnBlock>>
      PROVE  Hilado'
  <2>1. /\ MismaBaja /\ EnMano' /\ cp'.pc = "recursos"
        /\ SoloMueve(h, dispositivoIO, dispositivoIO')
        /\ SoloMueve(h, hilosEnReady, hilosEnReady')
        /\ \A x \in Hilos : x # h => hilosEnBlock'[x] = hilosEnBlock[x]
    BY <1>0, <1>2, <1>3, <1>6, SoloMueveAppend, SoloMueveNada
  <2>2. PasoDe(h)
    BY <1>0, <1>1, <1>2, <1>6, <2>1, AjenosMarco
  <2>3. Apunta(cp.hilo, h)
    BY <1>0, <1>6 DEF Apunta, Activo
  <2>4. Creado(h)
    BY <1>1, <1>6 DEF JInv, Hilado, Creados, Referido
  <2>5. (Vivo(h)' => Vivo(h)) /\ (Zombi(h)' => Zombi(h))
    BY <1>2, MismosVivos
  <2>6. ASSUME Vivo(h) PROVE \A t \in Hilos : ~Apunta(t, h)'
    <3>1. \A t \in Hilos : Apunta(t, h) => t = cp.hilo
      BY <1>1, <2>3, <2>6 DEF JInv, Hilado, Joins
    <3>2. \A t \in Hilos : Apunta(t, h)' => Apunta(t, h)
      BY <1>2, <1>6, <2>1 DEF Apunta, Activo, SoloDe
    <3>3. ~Activo(cp.hilo)'
      BY <1>1, <1>2, <1>3, <1>6 DEF Activo
    <3>4. ~Apunta(cp.hilo, h)'
      BY <1>3, <1>6, <3>3 DEF Apunta
    <3>5. cp.hilo' = cp.hilo
      BY <1>3, <1>6
    <3> QED BY <3>1, <3>2, <3>4, <3>5
  <2>7. ASSUME Vivo(h)
        PROVE  /\ EnSuLugar(h) /\ tcb[h].estado = "BLOCKED" /\ h \notin dumps
               /\ h \notin ToSet(hilosEnReady) /\ ~(EnMano /\ h = hiloEnExec)
    <3>1. EnSuLugar(h) /\ tcb[h].bloqueadoPorJoin
      BY <1>1, <2>3, <2>7 DEF JInv, Hilado, Lugares, Joins
    <3> QED BY <3>1 DEF EnSuLugar, PuedeIrAReady
  <2>8. ASSUME Vivo(h), listo PROVE tcb'[h].estado = "READY" /\ EnSuLugar(h)'
    <3>0. tcb'[h].estado = "READY" /\ hilosEnReady' = Append(hilosEnReady, h)
      BY <1>6, <2>7, <2>8
    <3>1. tcb'[h].estado = "READY" /\ UnaVez(hilosEnReady', h)
      BY <1>0, <2>7, <2>8, <3>0, EfectoAppend
    <3>2. PuedeIrAReady(h)' /\ ~tcb'[h].bloqueadoPorIO
      BY <1>6, <2>7, <2>8 DEF PuedeIrAReady
    <3>3. h \notin ToSet(dispositivoIO')
      BY <1>2, <1>6, <2>7, <2>8, <3>2 DEF EnSuLugar
    <3> QED BY <1>0, <1>1, <1>2, <2>1, <2>7, <2>8, <3>1, <3>2, <3>3 DEF EnSuLugar
  <2>9. ASSUME Vivo(h), ~listo
        PROVE  tcb'[h].estado = "BLOCKED" /\ EnSuLugar(h)' /\ EsperaAlgo(h)'
    <3>1. /\ tcb'[h].estado = "BLOCKED"
          /\ UNCHANGED <<hilosEnReady, hilosEnBlock, dispositivoIO, dumps>>
      BY <1>2, <1>6, <2>7, <2>9
    <3>2. tcb[h].mutexEnEspera # {} \/ tcb[h].bloqueadoPorIO
      BY <1>6, <2>7, <2>9
    <3>3. tcb[h].bloqueadoPorIO => h \in ToSet(dispositivoIO)
      BY <2>7, <2>9, EstaSiUnaVez DEF EnSuLugar
    <3>4. EsperaAlgo(h)'
      BY <1>6, <3>1, <3>2, <3>3 DEF EsperaAlgo
    <3> QED BY <1>0, <1>1, <1>6, <2>1, <2>7, <2>9, <3>1, <3>4 DEF EnSuLugar
  <2>10. Syscalls \cap Bajas # {} => ~Zombi(h)
    BY <1>1, <2>3 DEF JInv, Hilado, Zombis, Quieto
  <2>11. HiloBien(h)
    BY <1>6, <2>4, <2>5, <2>8, <2>9, <2>10 DEF HiloBien
  <2>12. BlockBien(h)
    <3> SUFFICES ASSUME SinIO
                 PROVE /\ dispositivoIO' = <<>>
                       /\ Vivo(h) => hilosEnBlock'[h] = IF tcb'[h].estado = "BLOCKED"
                                                        THEN 1 ELSE 0
                       /\ ~Zombi(h)
      BY <2>5 DEF BlockBien
    <3>1. BlockExacto(h) /\ dispositivoIO' = <<>>
      BY <1>2 DEF SinIO
    <3>2. ~Zombi(h)
      BY <1>6, <3>1 DEF BlockExacto
    <3>3. Vivo(h) /\ listo => hilosEnBlock'[h] = 0 /\ tcb'[h].estado = "READY"
      BY <1>0, <1>6, <2>7, <2>8, <3>1 DEF BlockExacto
    <3>4. Vivo(h) /\ ~listo => hilosEnBlock'[h] = 1 /\ tcb'[h].estado = "BLOCKED"
      BY <1>0, <1>6, <2>7, <2>9, <3>1 DEF BlockExacto
    <3> QED BY <3>1, <3>2, <3>3, <3>4
  <2> QED BY <1>2, <1>6, <2>2, <2>6, <2>11, <2>12, PasoDespierta
<1> QED
  <2>1. \/ cp' = [cp EXCEPT !.pc = "recursos"] /\ UNCHANGED <<tcb, varsColas, caida>>
        \/ UNCHANGED <<tcb, varsColas, cp>>
        \/ \E h \in Hilos, listo \in BOOLEAN :
             /\ tcb[cp.hilo].hiloBloqueadoPorJoin = h /\ hilosEnBlock[h] > 0
             /\ tcb[h].estado # "LIBERADO" =>
                   (listo <=> tcb[h].mutexEnEspera = {} /\ ~tcb[h].bloqueadoPorIO)
             /\ cp' = [cp EXCEPT !.pc = "recursos"] /\ SoloDe(h, tcb, tcb')
             /\ tcb'[h].estado = IF listo /\ tcb[h].estado # "LIBERADO" THEN "READY"
                                                                   ELSE tcb[h].estado
             /\ tcb'[h].hiloBloqueadoPorJoin = tcb[h].hiloBloqueadoPorJoin
             /\ tcb'[h].bloqueadoPorJoin = FALSE
             /\ tcb'[h].bloqueadoPorIO = tcb[h].bloqueadoPorIO
             /\ tcb'[h].mutexEnEspera = tcb[h].mutexEnEspera
             /\ IF listo THEN /\ hilosEnReady' = Append(hilosEnReady, h)
                              /\ hilosEnBlock' = [hilosEnBlock EXCEPT ![h] = @ - 1]
                         ELSE UNCHANGED varsColas
    BY <1>0, <1>1, DespertarHecho
  <2> QED BY <1>4, <1>5, <1>6, <2>1 DEF varsColas
-----------------------------------------------------------------------------
(* Threads that are created, and control blocks that are freed.            *)

\* Thread h is created: nobody had it.
LEMMA HiladoNace ==
    ASSUME JInv, NEW h \in Hilos, h[2] = siguienteTid[h[1]], NEW prio \in Prioridades,
           crear_tcb(h, prio), Encolar(h), pcb'[h[1]] = "vivo",
           \A q \in Pids : q # h[1] => pcb'[q] = pcb[q],
           pcb[h[1]] = "vivo" \/ siguienteTid[h[1]] = 0,
           UNCHANGED <<mutex, hilosEnBlock, hilosEnExit, varsExternas, hiloEnExec>>,
           MismaBaja, EnMano' <=> EnMano
    PROVE  Hilado'
<1> DEFINE p == h[1]
<1>0. TypeOK /\ Hilado /\ p \in Pids /\ h[2] \in Nat /\ hilosEnReady \in Seq(Hilos)
      /\ siguienteTid \in [Pids -> 0 .. CantHilos] /\ CantHilos \in Nat
      /\ listaDeHilos \in [Pids -> Seq(Hilos)]
  BY PartesDeHilo, CotasPositivas DEF JInv, IInv, TypeOK, Tids
<1>1. /\ tcb' \in [Hilos -> Tcbs] /\ SoloDe(h, tcb, tcb')
      /\ tcb'[h].estado = "READY" /\ tcb'[h].hiloBloqueadoPorJoin = NULO
      /\ tcb'[h].bloqueadoPorJoin = FALSE /\ tcb'[h].bloqueadoPorIO = FALSE
      /\ tcb'[h].mutexEnEspera = {}
  BY <1>0, CrearTcbHecho
<1>2. /\ listaDeHilos' = [listaDeHilos EXCEPT ![p] = Append(@, h)]
      /\ siguienteTid' = [siguienteTid EXCEPT ![p] = @ + 1]
      /\ enMemoria' = enMemoria \cup {h}
      /\ hilosEnReady' = Append(hilosEnReady, h)
  BY DEF crear_tcb, notificar_a_memoria_creacion_hilo, Encolar
<1>3. UNCHANGED <<mutex, hilosEnBlock, hilosEnExit, dispositivoIO, dumps, hiloEnExec>>
  BY DEF varsExternas
<1>4. siguienteTid[p] \in Nat /\ ~Creado(h)
  BY <1>0 DEF Creado
<1>5. /\ h \notin enMemoria /\ h \notin dumps /\ h \notin ToSet(hilosEnReady)
      /\ h \notin ToSet(hilosEnExit) /\ h \notin ToSet(dispositivoIO)
      /\ h \notin ToSet(listaDeHilos[p])
      /\ ~(EnMano /\ h = hiloEnExec) /\ ~(EnFinalizacion /\ h = cp.hilo)
      /\ \A t \in Hilos : tcb[t].hiloBloqueadoPorJoin # h
  BY <1>0, <1>4 DEF Hilado, Creados, Referido
<1>6. /\ siguienteTid'[p] = siguienteTid[p] + 1
      /\ \A q \in Pids : q # p => siguienteTid'[q] = siguienteTid[q]
      /\ listaDeHilos'[p] = Append(listaDeHilos[p], h)
      /\ \A q \in Pids : q # p => listaDeHilos'[q] = listaDeHilos[q]
  BY <1>0, <1>2
<1> HIDE DEF p
<1>7. /\ Creado(h)'
      /\ \A x \in Hilos : x # h => (Creado(x)' <=> Creado(x))
  <2>1. ASSUME NEW x \in Hilos, x # h PROVE Creado(x)' <=> Creado(x)
    <3>1. x[1] \in Pids /\ x[2] \in Nat /\ x = <<x[1], x[2]>> /\ h = <<h[1], h[2]>>
      BY PartesDeHilo DEF Tids
    <3>2. CASE x[1] = p
      <4>1. x[2] # siguienteTid[p]
        BY <2>1, <3>1, <3>2 DEF p
      <4> QED BY <1>4, <1>6, <3>1, <3>2, <4>1 DEF Creado
    <3>3. CASE x[1] # p
      BY <1>6, <3>1, <3>3 DEF Creado
    <3> QED BY <3>2, <3>3
  <2>2. Creado(h)'
    BY <1>0, <1>4, <1>6 DEF Creado, p
  <2> QED BY <2>1, <2>2
<1>8. /\ ToSet(listaDeHilos'[p]) = ToSet(listaDeHilos[p]) \cup {h}
      /\ IsInjective(listaDeHilos[p]) => IsInjective(listaDeHilos'[p])
  BY <1>0, <1>5, <1>6, EfectoAppend
<1>9. \A x \in Hilos : x # h /\ x \in ToSet(listaDeHilos'[x[1]])
                          => x \in ToSet(listaDeHilos[x[1]])
  <2>1. \A x \in Hilos : x[1] \in Pids
    BY PartesDeHilo
  <2> QED BY <1>6, <1>8, <2>1
<1>10. /\ ToSet(hilosEnReady') = ToSet(hilosEnReady) \cup {h} /\ UnaVez(hilosEnReady', h)
       /\ \A x \in Hilos : x # h /\ UnaVez(hilosEnReady, x) => UnaVez(hilosEnReady', x)
  BY <1>0, <1>2, <1>5, EfectoAppend
<1>11. \A x \in Hilos : x # h =>
          /\ Vivo(x)' => Vivo(x)
          /\ Zombi(x)' => Zombi(x)
  <2> SUFFICES ASSUME NEW x \in Hilos, x # h, Creado(x), pcb'[x[1]] = "vivo"
               PROVE  pcb[x[1]] = "vivo"
    <3>1. ASSUME NEW x \in Hilos, x # h, x \in enMemoria \/ x \in ToSet(listaDeHilos[x[1]])
          PROVE  Creado(x)
      BY <1>0, <3>1 DEF Hilado, Creados, Referido
    <3> QED BY <1>2, <1>9, <3>1 DEF Vivo, Zombi
  <2>1. x[1] \in Pids /\ x[2] \in Nat
    BY PartesDeHilo DEF Tids
  <2>2. siguienteTid[x[1]] # 0
    BY <2>1 DEF Creado
  <2> QED BY <2>1, <2>2 DEF p
<1>12. \A t, x \in Hilos : Apunta(t, x)' => x # h /\ Apunta(t, x)
  <2> SUFFICES ASSUME NEW t \in Hilos, NEW x \in Hilos, Apunta(t, x)'
               PROVE  x # h /\ Apunta(t, x)
    OBVIOUS
  <2>1. t # h
    BY <1>1, PartesDeHilo DEF Apunta
  <2>2. tcb'[t] = tcb[t]
    BY <1>1, <2>1 DEF SoloDe
  <2>3. Activo(t)
    BY <1>2, <2>1 DEF Apunta, Activo, MismaBaja
  <2> QED BY <1>5, <2>2, <2>3 DEF Apunta
<1>13. Creados'
  <2>1. ASSUME NEW x \in Hilos, x # h, Referido(x)' PROVE Referido(x)
    <3>1. \A t \in Hilos : tcb'[t].hiloBloqueadoPorJoin = x => tcb[t].hiloBloqueadoPorJoin = x
      BY <1>1, PartesDeHilo DEF SoloDe
    <3>2. x \in ToSet(hilosEnReady') => x \in ToSet(hilosEnReady)
      BY <1>10, <2>1
    <3>3. EnFinalizacion' /\ x = cp'.hilo => EnFinalizacion /\ x = cp.hilo
      BY DEF MismaBaja
    <3>4. x \in enMemoria' => x \in enMemoria
      BY <1>2, <2>1
    <3> QED BY <1>3, <1>9, <2>1, <3>1, <3>2, <3>3, <3>4 DEF Referido
  <2> QED BY <1>0, <1>7, <2>1 DEF Hilado, Creados
<1>14. Muertos'
  BY <1>0, <1>2, <1>3, <1>5 DEF Hilado, Muertos, MismaBaja
<1>15. EnLista'
  BY <1>0, <1>6, <1>8 DEF Hilado, EnLista, p
<1>16. \A x \in Hilos : x # h => NadaDe(x)
  BY <1>1, <1>3, <1>10 DEF NadaDe, SoloDe
<1>17. Lugares'
  <2>1. EnSuLugar(h)'
    BY <1>1, <1>3, <1>5, <1>10 DEF EnSuLugar, PuedeIrAReady
  <2> QED BY <1>0, <1>11, <1>16, <2>1, LugaresMarco DEF Hilado
<1>18. Joins'
  <2> SUFFICES ASSUME NEW t \in Hilos, NEW x \in Hilos, Apunta(t, x)', Vivo(x)'
               PROVE  /\ tcb'[x].bloqueadoPorJoin
                      /\ \A u \in Hilos : Apunta(u, x)' => u = t
    BY DEF Joins
  <2>1. x # h /\ Apunta(t, x) /\ Vivo(x)
    BY <1>11, <1>12
  <2>2. tcb[x].bloqueadoPorJoin /\ \A u \in Hilos : Apunta(u, x) => u = t
    BY <1>0, <2>1 DEF Hilado, Joins
  <2> QED BY <1>1, <1>12, <2>1, <2>2 DEF SoloDe
<1>19. \A x \in Hilos : Presente(x) => x # h /\ Presente(x)'
  BY <1>2, <1>5 DEF Presente, SeEstaFinalizando, EnFinalizacion, MismaBaja
<1>20. Colas'
  <2>1. ASSUME NEW m \in Mutexes PROVE ColaBien(m)'
    <3>1. ColaBien(m) /\ UNCHANGED mutex
      BY <1>0, <1>3 DEF Hilado, Colas, ColaBien
    <3>2. /\ mutex[m].tomadoPor \in Hilos \cup {NULO}
          /\ \A x \in ToSet(mutex[m].hilosBloqueados) : x \in Hilos
      BY <1>0 DEF TypeOK, LosMutex, HiloONulo, ToSet
    <3>3. \A x \in enMemoria : tcb'[x].mutexEnEspera = tcb[x].mutexEnEspera
      BY <1>0, <1>1, <1>5 DEF SoloDe, TypeOK
    <3>4. h \notin ToSet(mutex[m].hilosBloqueados)
      BY <1>19, <3>1 DEF ColaBien
    <3>5. \A x \in enMemoria' : x[1] = m[1] =>
             (m[2] \in tcb'[x].mutexEnEspera <=> x \in ToSet(mutex[m].hilosBloqueados))
      BY <1>1, <1>2, <3>1, <3>3, <3>4 DEF ColaBien
    <3> QED BY <1>19, <3>1, <3>2, <3>5 DEF ColaBien
  <2> QED BY <2>1 DEF Colas, ColaBien
<1>21. BloqueadoDeMasSoloPorHerencia'
  <2>1. \A x \in Hilos : Vivo(x)' /\ tcb'[x].estado = "BLOCKED" /\ ~EsperaAlgo(x)' =>
           /\ Vivo(x) /\ tcb[x].estado = "BLOCKED" /\ ~EsperaAlgo(x)
           /\ Dueno(x) => Dueno(x)'
    BY <1>1, <1>3, <1>11 DEF EsperaAlgo, Dueno, SoloDe
  <2> QED BY <1>0, <2>1, MotivosMarco DEF Hilado, MismaBaja
<1>22. SeLiberaUnaVez'
  <2>1. \A x \in ToSet(hilosEnExit) : x \in Hilos /\ x # h
    BY <1>0, <1>5 DEF TypeOK, ToSet
  <2> QED BY <1>0, <1>1, <1>3, <2>1, ExitMarco DEF Hilado, SoloDe
<1>23. Zombis'
  <2>1. \A x \in Hilos : Zombi(x)' => x # h
    BY <1>2 DEF Zombi
  <2>2. \A x \in Hilos : Zombi(x)' =>
           /\ Zombi(x) /\ tcb'[x].estado = tcb[x].estado
           /\ x \in ToSet(dispositivoIO') => x \in ToSet(dispositivoIO)
           /\ x \in dumps' => x \in dumps
           /\ \A t \in Hilos : Apunta(t, x)' => Apunta(t, x)
    BY <1>1, <1>3, <1>11, <1>12, <2>1 DEF SoloDe
  <2> QED BY <1>0, <2>2, ZombisMarco DEF Hilado
<1>24. SinIO => SinIO'
  <2> SUFFICES ASSUME SinIO, NEW x \in Hilos PROVE BlockExacto(x)'
    BY <1>3 DEF SinIO
  <2>1. BlockExacto(x) /\ hilosEnBlock'[x] = hilosEnBlock[x]
    BY <1>3 DEF SinIO
  <2>2. CASE x = h
    BY <1>1, <1>4, <2>1, <2>2 DEF BlockExacto
  <2>3. CASE x # h
    BY <1>1, <1>7, <1>11, <2>1, <2>3 DEF BlockExacto, SoloDe
  <2> QED BY <2>2, <2>3
<1>25. SinMutexes => SinMutexes'
  BY <1>3, MutexesMarco
<1>26. Escasez'
  BY <1>0, <1>24, <1>25 DEF Escasez, Hilado
<1> QED
  BY <1>13, <1>14, <1>15, <1>17, <1>18, <1>20, <1>21, <1>22, <1>23, <1>26 DEF Hilado

LEMMA HiladoThreadCreate == JInv /\ THREAD_CREATE => Hilado'
<1> SUFFICES ASSUME JInv, THREAD_CREATE PROVE Hilado'
  OBVIOUS
<1> DEFINE p == PidEnExec
           h == <<p, siguienteTid[p]>>
<1>1. cp.pc = "ejecutando" /\ TypeOK
  BY DEF THREAD_CREATE, Pide, En, JInv, IInv
<1>2. hiloEnExec \in Hilos /\ p \in Pids /\ pcb[p] = "vivo" /\ EnMano
  BY <1>1, ElQueCorre
<1>3. siguienteTid[p] \in 0 .. CantHilos /\ siguienteTid[p] < CantHilos
  BY <1>1, <1>2 DEF THREAD_CREATE, TypeOK
<1>4. h \in Hilos /\ h[1] = p /\ h[2] = siguienteTid[p]
  BY <1>2, <1>3, CotasPositivas DEF Hilos, Tids
<1>5. PICK prio \in Prioridades : crear_tcb(h, prio)
  BY DEF THREAD_CREATE
<1>6. /\ Seguir /\ Encolar(h)
      /\ UNCHANGED <<pcb, mutex, hilosEnBlock, hilosEnExit, semHiloEnExit,
                     varsExternas, hiloEnExec, caida>>
  BY DEF THREAD_CREATE
<1>7. cp'.pc = "elegir" /\ replanificar' = FALSE
  BY <1>1, <1>6, SeguirHecho
<1>8. MismaBaja /\ EnMano'
  BY <1>1, <1>6, <1>7, SeguirBaja DEF EnMano
<1> HIDE DEF h
<1> QED BY <1>2, <1>4, <1>5, <1>6, <1>8, HiladoNace

LEMMA HiladoLargoPlazo == JInv /\ LargoPlazo => Hilado'
<1> SUFFICES ASSUME JInv, NEW p \in Pids, AdmitirProceso(p) PROVE Hilado'
  BY DEF LargoPlazo
<1> DEFINE h == <<p, 0>>
<1>1. /\ pcb[p] = "new" /\ pcb' = [pcb EXCEPT ![p] = "vivo"] /\ Encolar(h)
      /\ UNCHANGED <<mutex, hilosEnBlock, hilosEnExit, semHiloEnExit, varsExternas,
                     varsCP, caida>>
  BY DEF AdmitirProceso
<1>2. PICK prio \in IF p = 0 THEN {0} ELSE Prioridades : crear_tcb(h, prio)
  BY DEF AdmitirProceso
<1>3. prio \in Prioridades /\ h \in Hilos /\ h[1] = p /\ h[2] = 0
  BY CotasPositivas, PrioridadesNat DEF Hilos, Tids
<1>4. siguienteTid[p] = 0 /\ pcb'[p] = "vivo" /\ \A q \in Pids : q # p => pcb'[q] = pcb[q]
  BY <1>1 DEF JInv, IInv, Listas, TypeOK
<1>5. UNCHANGED <<hiloEnExec, replanificar, cp>>
  BY <1>1 DEF varsCP
<1>6. MismaBaja /\ (EnMano' <=> EnMano)
  BY <1>5 DEF MismaBaja, EnFinalizacion, EnMano
<1> HIDE DEF h
<1> QED BY <1>1, <1>2, <1>3, <1>4, <1>5, <1>6, HiladoNace

LEMMA HiladoFinalizador == JInv /\ FinalizadorDeHilos => Hilado'
<1> SUFFICES ASSUME JInv, FinalizadorDeHilos PROVE Hilado'
  OBVIOUS
<1> DEFINE h == Head(hilosEnExit)
           p == h[1]
           l == listaDeHilos[p]
           q == RemoveFirst(l, h)
<1>0. TypeOK /\ Hilado /\ hilosEnExit \in Seq(Hilos) /\ semHiloEnExit \in Nat
      /\ listaDeHilos \in [Pids -> Seq(Hilos)]
  BY DEF JInv, IInv, TypeOK
<1>1. /\ semHiloEnExit > 0 /\ hilosEnExit' = Tail(hilosEnExit) /\ liberar_tcb(h)
      /\ UNCHANGED <<pcb, siguienteTid, mutex, varsColas, enMemoria, varsExternas, varsCP>>
      /\ UNCHANGED <<hilosEnReady, hilosEnBlock, dispositivoIO, dumps, hiloEnExec,
                     replanificar, cp>>
  BY DEF FinalizadorDeHilos, varsColas, varsExternas, varsCP
<1>2. hilosEnExit # <<>>
  <2>1. Len(hilosEnExit) = semHiloEnExit + SinPost /\ SinPost \in {0, 1}
    BY DEF JInv, IInv, Salida, SinPost
  <2> QED BY <1>0, <1>1, <2>1
<1>3. /\ h \in Hilos /\ h \in ToSet(hilosEnExit) /\ p \in Pids
      /\ ToSet(hilosEnExit') \subseteq ToSet(hilosEnExit)
      /\ IsInjective(hilosEnExit) => IsInjective(hilosEnExit') /\ h \notin ToSet(hilosEnExit')
  <2>1. /\ h \in Hilos /\ h \in ToSet(hilosEnExit)
        /\ IsInjective(hilosEnExit) =>
              /\ IsInjective(Tail(hilosEnExit))
              /\ ToSet(Tail(hilosEnExit)) = ToSet(hilosEnExit) \ {h}
        /\ ToSet(Tail(hilosEnExit)) \subseteq ToSet(hilosEnExit)
    BY <1>0, <1>2, EfectoTail
  <2> QED BY <1>1, <2>1, PartesDeHilo
<1> HIDE DEF h
<1>4. /\ SoloDe(h, tcb, tcb') /\ MismaEspera(h, tcb, tcb') /\ tcb'[h].estado = "LIBERADO"
  BY <1>0, <1>1, <1>3, LiberarTcbHecho
<1>5. \A x \in Hilos : /\ x # h => tcb'[x].estado = tcb[x].estado
                       /\ tcb'[x].hiloBloqueadoPorJoin = tcb[x].hiloBloqueadoPorJoin
                       /\ tcb'[x].bloqueadoPorJoin = tcb[x].bloqueadoPorJoin
                       /\ tcb'[x].bloqueadoPorIO = tcb[x].bloqueadoPorIO
                       /\ tcb'[x].mutexEnEspera = tcb[x].mutexEnEspera
  BY <1>4 DEF SoloDe, MismaEspera
<1>6. h \notin enMemoria /\ IsInjective(hilosEnExit)
  BY <1>0, <1>3 DEF Hilado, Muertos, SeLiberaUnaVez
<1>7. /\ EnLista' /\ \A r \in Pids : ToSet(listaDeHilos'[r]) \subseteq ToSet(listaDeHilos[r])
      /\ pcb[p] = "vivo" => h \notin ToSet(listaDeHilos'[p])
  <2>1. CASE pcb[p] = "vivo"
    <3>1. listaDeHilos' = [listaDeHilos EXCEPT ![p] = q]
      BY <1>1, <2>1 DEF liberar_tcb
    <3>2. /\ l \in Seq(Hilos) /\ IsInjective(l)
      BY <1>0, <1>3 DEF Hilado, EnLista
    <3>3. ToSet(q) \subseteq ToSet(l) /\ IsInjective(q) /\ h \notin ToSet(q)
      BY <3>2, EfectoRemoveFirst
    <3> HIDE DEF q
    <3> QED BY <1>3, <3>1, <3>3, ListaMenor
  <2>2. CASE pcb[p] # "vivo"
    <3>1. UNCHANGED listaDeHilos
      BY <1>1, <2>2 DEF liberar_tcb
    <3> QED BY <1>0, <2>2, <3>1 DEF Hilado, EnLista
  <2> QED BY <2>1, <2>2
<1>8. \A x \in Hilos : /\ Vivo(x)' => Vivo(x) /\ x # h
                       /\ Zombi(x)' => Zombi(x) /\ x # h
                       /\ Presente(x)' <=> Presente(x)
  <2> SUFFICES ASSUME NEW x \in Hilos
               PROVE  /\ Vivo(x)' => Vivo(x) /\ x # h
                      /\ Zombi(x)' => Zombi(x) /\ x # h
                      /\ Presente(x)' <=> Presente(x)
    OBVIOUS
  <2>1. x[1] \in Pids
    BY PartesDeHilo
  <2> QED BY <1>1, <1>6, <1>7, <2>1 DEF Vivo, Zombi, Presente, SeEstaFinalizando
<1>9. \A t, x \in Hilos : Apunta(t, x)' => Apunta(t, x)
  BY <1>1, <1>5 DEF Apunta, Activo
<1>10. Creados'
  <2>1. ASSUME NEW x \in Hilos, Referido(x)' PROVE Referido(x)
    <3>1. x \in ToSet(listaDeHilos'[x[1]]) => x \in ToSet(listaDeHilos[x[1]])
      BY <1>7, PartesDeHilo
    <3>2. EnMano' /\ x = hiloEnExec' => EnMano /\ x = hiloEnExec
      BY <1>1 DEF EnMano
    <3>3. EnFinalizacion' /\ x = cp'.hilo => EnFinalizacion /\ x = cp.hilo
      BY <1>1 DEF EnFinalizacion
    <3> QED BY <1>1, <1>3, <1>5, <2>1, <3>1, <3>2, <3>3 DEF Referido
  <2> QED BY <1>0, <1>1, <2>1, CreadosMarco DEF Hilado
<1>11. Muertos'
  BY <1>0, <1>1, <1>3 DEF Hilado, Muertos, EnFinalizacion
<1>12. Lugares'
  <2>1. ASSUME NEW x \in Hilos, x # h PROVE NadaDe(x)
    BY <1>1, <1>5, <2>1 DEF NadaDe, EnMano
  <2> QED BY <1>0, <1>8, <2>1, LugaresMarco DEF Hilado
<1>13. Joins'
  BY <1>0, <1>5, <1>8, <1>9, JoinsMarco DEF Hilado
<1>14. Colas'
  <2>1. enMemoria' \subseteq enMemoria /\ enMemoria \subseteq Hilos
    BY <1>0, <1>1 DEF TypeOK
  <2>2. \A x \in enMemoria' : tcb'[x].mutexEnEspera = tcb[x].mutexEnEspera
    BY <1>5, <2>1
  <2> QED BY <1>0, <1>1, <1>8, <2>1, <2>2, ColasMarco DEF Hilado
<1>15. BloqueadoDeMasSoloPorHerencia'
  <2>1. \A x \in Hilos : Vivo(x)' /\ tcb'[x].estado = "BLOCKED" /\ ~EsperaAlgo(x)' =>
           /\ Vivo(x) /\ tcb[x].estado = "BLOCKED" /\ ~EsperaAlgo(x)
           /\ Dueno(x) => Dueno(x)'
    BY <1>1, <1>5, <1>8 DEF EsperaAlgo, Dueno
  <2> QED BY <1>0, <1>1, <2>1, MotivosMarco DEF Hilado
<1>16. SeLiberaUnaVez'
  <2>1. \A x \in ToSet(hilosEnExit') : x \in Hilos /\ x # h /\ x \in ToSet(hilosEnExit)
    <3>1. \A x \in ToSet(hilosEnExit) : x \in Hilos
      BY <1>0 DEF ToSet
    <3> QED BY <1>3, <1>6, <3>1
  <2> QED BY <1>0, <1>3, <1>5, <1>6, <2>1 DEF Hilado, SeLiberaUnaVez
<1>17. Zombis'
  <2>1. \A x \in Hilos : Zombi(x)' =>
           /\ Zombi(x) /\ tcb'[x].estado = tcb[x].estado
           /\ x \in ToSet(dispositivoIO') => x \in ToSet(dispositivoIO)
           /\ x \in dumps' => x \in dumps
           /\ \A t \in Hilos : Apunta(t, x)' => Apunta(t, x)
    BY <1>1, <1>5, <1>8, <1>9
  <2> QED BY <1>0, <2>1, ZombisMarco DEF Hilado
<1>18. SinIO => SinIO'
  <2> SUFFICES ASSUME SinIO PROVE SinIO'
    OBVIOUS
  <2>1. ASSUME NEW x \in Hilos
        PROVE /\ Vivo(x)' => /\ Vivo(x) /\ hilosEnBlock'[x] = hilosEnBlock[x]
                             /\ tcb'[x].estado = tcb[x].estado
              /\ ~Creado(x) => hilosEnBlock'[x] = hilosEnBlock[x]
              /\ Zombi(x)' => Zombi(x) /\ hilosEnBlock'[x] = hilosEnBlock[x]
    BY <1>1, <1>5, <1>8
  <2>2. dispositivoIO' = <<>> /\ UNCHANGED siguienteTid
    BY <1>1 DEF SinIO
  <2> QED BY <2>1, <2>2, BlockMarco
<1>19. SinMutexes => SinMutexes'
  BY <1>1, MutexesMarco
<1>20. Escasez'
  BY <1>0, <1>18, <1>19 DEF Escasez, Hilado
<1> QED
  BY <1>7, <1>10, <1>11, <1>12, <1>13, <1>14, <1>15, <1>16, <1>17, <1>20 DEF Hilado
-----------------------------------------------------------------------------
(* liberar_recursos_mutex.                                                 *)

\* The queue of a mutex of the process without the thread that finishes, and
\* the mutex once that thread has left it.
LEMMA AbandonarBien ==
    ASSUME JInv, cp.pc = "recursos", NEW m \in Mutexes
    PROVE  LET h == cp.hilo
               s == SinEsperar(m, h)
               q == mutex[m].hilosBloqueados
           IN /\ s \in Seq(Hilos) /\ IsInjective(s) /\ ToSet(s) = ToSet(q) \ {h}
              /\ ToSet(s) \subseteq Hilos
              /\ \A x \in ToSet(s) : x[1] = m[1] /\ x \in enMemoria
              /\ s # <<>> => /\ Head(s) \in ToSet(s) /\ Head(s) # NULO
                             /\ Tail(s) \in Seq(Hilos) /\ IsInjective(Tail(s))
                             /\ ToSet(Tail(s)) = ToSet(s) \ {Head(s)}
              /\ q = <<>> => s = <<>>
              /\ mutex[m].tomadoPor \notin {h, NULO} =>
                    mutex[m].tomadoPor \in enMemoria /\ mutex[m].tomadoPor[1] = m[1]
              /\ m[1] # h[1] => /\ mutex[m].tomadoPor # h
                                /\ h \notin ToSet(q) /\ \A x \in ToSet(q) : x \in enMemoria
<1> DEFINE h == cp.hilo
           s == SinEsperar(m, h)
           q == mutex[m].hilosBloqueados
<1>1. TypeOK /\ Colas /\ h \in Hilos /\ h \notin enMemoria /\ h # NULO
  BY PartesDeHilo DEF JInv, IInv, Control, EnFinalizacion, Hilado, Muertos
<1>2. q \in Seq(Hilos) /\ mutex[m].tomadoPor \in HiloONulo
  BY <1>1 DEF TypeOK, LosMutex
<1>3. /\ IsInjective(q) /\ \A x \in ToSet(q) : x[1] = m[1] /\ Presente(x)
      /\ mutex[m].tomadoPor # NULO =>
            mutex[m].tomadoPor[1] = m[1] /\ Presente(mutex[m].tomadoPor)
  BY <1>1 DEF Colas
<1>4. s = RemoveFirst(q, h)
  BY DEF SinEsperar
<1>5. \A x : Presente(x) => x \in enMemoria \/ x = h
  BY DEF Presente, SeEstaFinalizando
<1> HIDE DEF h, s, q
<1>6. s \in Seq(Hilos) /\ IsInjective(s) /\ ToSet(s) = ToSet(q) \ {h}
  BY <1>2, <1>3, <1>4, EfectoRemoveFirst
<1>7. ToSet(s) \subseteq Hilos
  BY <1>6 DEF ToSet
<1>8. \A x \in ToSet(s) : x[1] = m[1] /\ x \in enMemoria
  BY <1>3, <1>5, <1>6
<1>9. s # <<>> => /\ Head(s) \in ToSet(s) /\ Head(s) # NULO
                  /\ Tail(s) \in Seq(Hilos) /\ IsInjective(Tail(s))
                  /\ ToSet(Tail(s)) = ToSet(s) \ {Head(s)}
  <2>1. s # <<>> => /\ Head(s) \in ToSet(s) /\ Head(s) \in Hilos
                    /\ Tail(s) \in Seq(Hilos) /\ IsInjective(Tail(s))
                    /\ ToSet(Tail(s)) = ToSet(s) \ {Head(s)}
    BY <1>6, EfectoTail
  <2> QED BY <2>1, PartesDeHilo
<1>10. q = <<>> => s = <<>>
  <2>1. q = <<>> => ToSet(q) = {}
    BY DEF ToSet
  <2> QED BY <1>6, <1>9, <2>1
<1>11. mutex[m].tomadoPor \notin {h, NULO} =>
          mutex[m].tomadoPor \in enMemoria /\ mutex[m].tomadoPor[1] = m[1]
  BY <1>3, <1>5
<1>12. m[1] # h[1] => /\ mutex[m].tomadoPor # h
                      /\ h \notin ToSet(q) /\ \A x \in ToSet(q) : x \in enMemoria
  BY <1>1, <1>3, <1>5
<1> QED BY <1>6, <1>7, <1>8, <1>9, <1>10, <1>11, <1>12 DEF h, s, q

\* What the step does to the mutexes of the process and to who waits for them.
LEMMA LiberaLasColas ==
    ASSUME JInv, LiberarRecursosMutex
    PROVE  /\ Colas'
           /\ SinMutexes => SinMutexes'
           /\ \A x \in Hilos : x # cp.hilo /\ Dueno(x) => Dueno(x)'
           /\ \A x \in Hilos : HeredaEl(x, cp.hilo) # {} => Dueno(x)'
<1> DEFINE h == cp.hilo
<1>1. TypeOK /\ Colas /\ h \in Hilos /\ h \notin enMemoria /\ h # NULO /\ cp.pc = "recursos"
      /\ UNCHANGED enMemoria /\ enMemoria \subseteq Hilos
  BY PartesDeHilo
     DEF JInv, IInv, Control, EnFinalizacion, Hilado, Muertos, LiberarRecursosMutex, En, TypeOK
<1>2. /\ \A m \in Mutexes : mutex'[m] = IF m[1] = h[1] THEN Abandonar(m, h) ELSE mutex[m]
      /\ \A x \in Hilos : tcb'[x].mutexEnEspera = tcb[x].mutexEnEspera \ HeredaEl(x, h)
  BY <1>1, LiberarHecho
<1>3. \A x : x \in enMemoria => Presente(x)'
  BY <1>1 DEF Presente
<1> HIDE DEF h
<1> DEFINE s(m) == SinEsperar(m, h)
<1>4. ASSUME NEW m \in Mutexes
      PROVE  /\ s(m) \in Seq(Hilos) /\ IsInjective(s(m))
             /\ ToSet(s(m)) = ToSet(mutex[m].hilosBloqueados) \ {h}
             /\ ToSet(s(m)) \subseteq Hilos
             /\ \A x \in ToSet(s(m)) : x[1] = m[1] /\ x \in enMemoria
             /\ s(m) # <<>> => /\ Head(s(m)) \in ToSet(s(m)) /\ Head(s(m)) # NULO
                               /\ Tail(s(m)) \in Seq(Hilos) /\ IsInjective(Tail(s(m)))
                               /\ ToSet(Tail(s(m))) = ToSet(s(m)) \ {Head(s(m))}
             /\ mutex[m].hilosBloqueados = <<>> => s(m) = <<>>
             /\ mutex[m].tomadoPor \notin {h, NULO} =>
                   mutex[m].tomadoPor \in enMemoria /\ mutex[m].tomadoPor[1] = m[1]
             /\ m[1] # h[1] => /\ mutex[m].tomadoPor # h
                               /\ h \notin ToSet(mutex[m].hilosBloqueados)
                               /\ \A x \in ToSet(mutex[m].hilosBloqueados) : x \in enMemoria
  BY <1>1, AbandonarBien DEF h
<1>5. ASSUME NEW m \in Mutexes, m[1] = h[1]
      PROVE  /\ mutex'[m].tomadoPor = IF mutex[m].tomadoPor # h THEN mutex[m].tomadoPor
                                      ELSE IF s(m) = <<>> THEN NULO ELSE Head(s(m))
             /\ mutex'[m].hilosBloqueados = IF mutex[m].tomadoPor = h /\ s(m) # <<>>
                                            THEN Tail(s(m)) ELSE s(m)
  BY <1>1, <1>2, <1>5, AbandonarHecho
<1>6. \A x \in Hilos, m \in Mutexes :
         m \in Heredados(h) /\ Head(s(m)) = x => x[1] = h[1] /\ mutex'[m].tomadoPor = x
  BY <1>4, <1>5 DEF Heredados
<1>7. ASSUME NEW x \in enMemoria, NEW m \in Mutexes, x[1] = m[1]
      PROVE  m[2] \in HeredaEl(x, h) <=> m \in Heredados(h) /\ Head(s(m)) = x
  <2>1. m[2] \in HeredaEl(x, h) <=> \E n \in Heredados(h) : Head(s(n)) = x /\ n[2] = m[2]
    BY DEF HeredaEl
  <2>2. ASSUME NEW n \in Heredados(h), Head(s(n)) = x, n[2] = m[2] PROVE n = m
    <3>1. n \in Mutexes /\ n[1] = h[1]
      BY <2>2 DEF Heredados
    <3>2. x[1] = h[1]
      BY <1>1, <1>6, <2>2, <3>1
    <3>3. n = <<n[1], n[2]>> /\ m = <<m[1], m[2]>>
      BY <3>1 DEF Mutexes
    <3>4. n[1] = m[1] /\ n[2] = m[2]
      BY <1>7, <2>2, <3>1, <3>2
    <3> QED BY <3>3, <3>4
  <2> QED BY <2>1, <2>2
<1> HIDE DEF s
<1>8. ASSUME NEW m \in Mutexes PROVE ColaBien(m)'
  <2>1. ColaBien(m)
    BY <1>1 DEF Colas, ColaBien
  <2>2. CASE m[1] = h[1]
    <3>1. mutex'[m].tomadoPor = NULO => mutex'[m].hilosBloqueados = <<>>
      BY <1>1, <1>4, <1>5, <2>1, <2>2 DEF ColaBien
    <3>2. mutex'[m].tomadoPor # NULO =>
             mutex'[m].tomadoPor[1] = m[1] /\ mutex'[m].tomadoPor \in enMemoria
      BY <1>1, <1>4, <1>5, <2>2
    <3>3. IsInjective(mutex'[m].hilosBloqueados)
      BY <1>4, <1>5, <2>2
    <3>4. \A x : x \in ToSet(mutex'[m].hilosBloqueados) <=>
                    /\ x \in ToSet(mutex[m].hilosBloqueados) /\ x # h
                    /\ ~(mutex[m].tomadoPor = h /\ s(m) # <<>> /\ x = Head(s(m)))
      BY <1>4, <1>5, <2>2
    <3>5. \A x \in ToSet(mutex'[m].hilosBloqueados) : x[1] = m[1] /\ x \in enMemoria
      BY <1>4, <3>4
    <3>6. ASSUME NEW x \in enMemoria, x[1] = m[1]
          PROVE  m[2] \in tcb'[x].mutexEnEspera <=> x \in ToSet(mutex'[m].hilosBloqueados)
      <4>1. m[2] \in tcb[x].mutexEnEspera <=> x \in ToSet(mutex[m].hilosBloqueados)
        BY <2>1, <3>6 DEF ColaBien
      <4>2. m[2] \in HeredaEl(x, h) <=>
               mutex[m].tomadoPor = h /\ s(m) # <<>> /\ x = Head(s(m))
        BY <1>7, <2>2, <3>6 DEF Heredados, s
      <4>3. x # h /\ x \in Hilos
        BY <1>1
      <4> QED BY <1>2, <3>4, <4>1, <4>2, <4>3
    <3>7. mutex'[m].tomadoPor # NULO => Presente(mutex[m].tomadoPor)'
      BY <1>3, <3>2
    <3> QED BY <1>1, <1>3, <3>1, <3>2, <3>3, <3>5, <3>6, <3>7 DEF ColaBien
  <2>3. CASE m[1] # h[1]
    <3>1. mutex'[m] = mutex[m]
      BY <1>2, <2>3
    <3>2. ASSUME NEW x \in enMemoria, x[1] = m[1]
          PROVE  m[2] \in tcb'[x].mutexEnEspera <=> m[2] \in tcb[x].mutexEnEspera
      <4>1. m \notin Heredados(h)
        BY <2>3 DEF Heredados
      <4>2. m[2] \notin HeredaEl(x, h)
        BY <1>7, <3>2, <4>1
      <4> QED BY <1>1, <1>2, <4>2
    <3>3. mutex[m].tomadoPor # NULO => Presente(mutex[m].tomadoPor)'
      BY <1>3, <1>4, <2>3, <3>1
    <3>4. \A x \in ToSet(mutex[m].hilosBloqueados) : Presente(x)'
      BY <1>3, <1>4, <2>3
    <3> QED BY <1>1, <2>1, <3>1, <3>2, <3>3, <3>4 DEF ColaBien
  <2> QED BY <2>2, <2>3
<1>9. Colas'
  BY <1>8 DEF Colas, ColaBien
<1>10. SinMutexes => SinMutexes'
  <2> SUFFICES ASSUME SinMutexes, NEW m \in Mutexes
               PROVE  mutex'[m].tomadoPor = NULO /\ mutex'[m].hilosBloqueados = <<>>
    BY DEF SinMutexes
  <2>1. mutex[m].tomadoPor = NULO /\ mutex[m].hilosBloqueados = <<>>
    BY DEF SinMutexes
  <2> QED BY <1>1, <1>2, <1>4, <1>5, <2>1
<1>11. ASSUME NEW x \in Hilos, x # h, Dueno(x) PROVE Dueno(x)'
  <2>1. PICK m \in Mutexes : mutex[m].tomadoPor = x
    BY <1>11 DEF Dueno
  <2>2. mutex'[m].tomadoPor = x
    BY <1>2, <1>5, <1>11, <2>1
  <2> QED BY <2>2 DEF Dueno
<1>12. ASSUME NEW x \in Hilos, HeredaEl(x, h) # {} PROVE Dueno(x)'
  <2>1. PICK m \in Heredados(h) : Head(s(m)) = x
    BY <1>12 DEF HeredaEl, s
  <2>2. m \in Mutexes /\ mutex'[m].tomadoPor = x
    BY <1>6, <2>1 DEF Heredados, s
  <2> QED BY <2>2 DEF Dueno
<1> QED BY <1>9, <1>10, <1>11, <1>12 DEF h

\* A thread that may be finished again is not sent to Ready by its heirs.
LEMMA NoRevive ==
    ASSUME JInv, SinMezcla, NEW h \in Hilos, Zombi(h), Syscalls \cap Bajas # {}
    PROVE  Revividos(h) = 0
<1>1. /\ TypeOK /\ Revividos(h) \in Nat /\ Revividos(h) <= hilosEnBlock[h]
      /\ Revividos(h) > 0 => \E m \in Mutexes : mutex[m].tomadoPor = h
  BY TipoRevividos DEF JInv, IInv
<1>2. CASE "IO" \notin Syscalls
  <2>1. hilosEnBlock[h] = 0
    BY <1>2 DEF JInv, Hilado, Escasez, SinIO, BlockExacto
  <2> QED BY <1>1, <2>1
<1>3. CASE "MUTEX_LOCK" \notin Syscalls
  <2>1. \A m \in Mutexes : mutex[m].tomadoPor # h
    BY <1>3, PartesDeHilo DEF JInv, Hilado, Escasez, SinMutexes
  <2> QED BY <1>1, <2>1
<1> QED BY <1>2, <1>3 DEF SinMezcla

LEMMA HiladoLiberar ==
    ASSUME JInv, SinMezcla, LiberarRecursosMutex
    PROVE  Hilado'
<1> DEFINE h == cp.hilo
           n == Revividos(h)
           r == [i \in 1 .. n |-> h]
<1>0. TypeOK /\ Hilado /\ cp.pc = "recursos" /\ hilosEnReady \in Seq(Hilos)
      /\ hilosEnBlock \in [Hilos -> Nat] /\ enMemoria \subseteq Hilos
  BY DEF JInv, IInv, TypeOK, LiberarRecursosMutex, En
<1>1. /\ h \in Hilos /\ h \notin enMemoria /\ EnFinalizacion /\ Creado(h)
  BY <1>0 DEF EnFinalizacion, JInv, IInv, Control, Hilado, Muertos, Creados, Referido
<1>2. /\ UNCHANGED <<pcb, listaDeHilos, siguienteTid, hilosEnExit, enMemoria,
                     dispositivoIO, dumps, hiloEnExec>>
  BY DEF LiberarRecursosMutex, varsProceso, varsExternas
<1>3. /\ cp'.pc \in {"eliminar", "elegir"} /\ cp'.hilo = h
      /\ EnMano' \/ hiloEnExec = h
  <2>1. \/ cp' = [cp EXCEPT !.pc = "eliminar"]
        \/ cp.origen = "salir" /\ Desalojar
        \/ Seguir
    BY DEF LiberarRecursosMutex
  <2>2. cp' = [cp EXCEPT !.pc = "eliminar"] => cp'.pc = "eliminar" /\ cp'.hilo = cp.hilo
    BY <1>0 DEF TypeOK, Controles
  <2>3. Seguir => cp'.pc = "elegir" /\ cp'.hilo = cp.hilo /\ replanificar' = FALSE
    BY <1>0, SeguirHecho
  <2>4. Desalojar => cp'.pc = "elegir" /\ cp'.hilo = cp.hilo
    BY <1>0, DesalojarHecho
  <2>5. cp.origen = "salir" => hiloEnExec = h
    BY <1>0 DEF JInv, SaleElQueCorre
  <2> QED BY <2>1, <2>2, <2>3, <2>4, <2>5 DEF EnMano
<1>4. /\ \A x \in Hilos :
            /\ tcb'[x].estado = IF x = h /\ n > 0 THEN "READY" ELSE tcb[x].estado
            /\ tcb'[x].hiloBloqueadoPorJoin = tcb[x].hiloBloqueadoPorJoin
            /\ tcb'[x].bloqueadoPorJoin = tcb[x].bloqueadoPorJoin
            /\ tcb'[x].bloqueadoPorIO = tcb[x].bloqueadoPorIO
            /\ tcb'[x].mutexEnEspera = tcb[x].mutexEnEspera \ HeredaEl(x, h)
      /\ hilosEnBlock' = [hilosEnBlock EXCEPT ![h] = @ - n]
      /\ r \in Seq(Hilos) /\ Len(r) = n /\ hilosEnReady' = hilosEnReady \o r
      /\ n \in Nat /\ n <= hilosEnBlock[h]
  BY <1>0, <1>1, LiberarHecho, TipoRevividos
<1>5. /\ Colas'
      /\ SinMutexes => SinMutexes'
      /\ \A x \in Hilos : x # h /\ Dueno(x) => Dueno(x)'
      /\ \A x \in Hilos : HeredaEl(x, h) # {} => Dueno(x)'
  BY LiberaLasColas
<1>6. Zombi(h) /\ Syscalls \cap Bajas # {} => n = 0
  BY <1>1, NoRevive
<1>7. \A i \in 1 .. Len(r) : r[i] = h
  BY <1>4
<1>14. h' = h
  BY <1>3
<1> HIDE DEF h, n, r
<1>8. /\ ToSet(hilosEnReady') \subseteq ToSet(hilosEnReady) \cup {h}
      /\ \A e : e # h /\ UnaVez(hilosEnReady, e) => UnaVez(hilosEnReady', e)
  <2>1. /\ ToSet(hilosEnReady \o r) \subseteq ToSet(hilosEnReady) \cup {h}
        /\ \A e : e # h /\ UnaVez(hilosEnReady, e) => UnaVez(hilosEnReady \o r, e)
    <3>1. hilosEnReady \in Seq(Hilos) /\ r \in Seq(Hilos)
      BY <1>0, <1>4
    <3> QED BY <3>1, <1>7, EfectoRevividos
  <2> QED BY <1>4, <2>1
<1>9. \A x \in Hilos : /\ x # h => hilosEnBlock'[x] = hilosEnBlock[x]
                       /\ hilosEnBlock[h] = 0 => hilosEnBlock'[h] = 0
  BY <1>0, <1>1, <1>4
<1>10. \A x \in Hilos : /\ Vivo(x)' => Vivo(x) /\ x # h
                        /\ Zombi(x)' <=> Zombi(x)
  BY <1>1, <1>2 DEF Vivo, Zombi
<1>11. EnMano
  BY <1>0 DEF EnMano
<1>12. \A t, x \in Hilos : Apunta(t, x)' => Apunta(t, x)
  BY <1>2, <1>3, <1>4 DEF Apunta, Activo
<1>13. Creados'
  <2>1. ASSUME NEW x \in Hilos, Referido(x)', x # h PROVE Referido(x)
    <3>1. x \in ToSet(hilosEnReady') => x \in ToSet(hilosEnReady)
      BY <1>8, <2>1
    <3>2. ~(EnFinalizacion' /\ x = cp'.hilo)
      BY <1>3, <2>1
    <3> QED BY <1>2, <1>4, <1>11, <2>1, <3>1, <3>2 DEF Referido
  <2>2. Referido(h)
    BY <1>1 DEF Referido, h
  <2> QED BY <1>0, <1>2, <2>1, <2>2, CreadosMarco DEF Hilado
<1>15. Muertos'
  BY <1>0, <1>1, <1>2, <1>3 DEF Hilado, Muertos
<1>16. EnLista'
  BY <1>0, <1>2 DEF Hilado, EnLista
<1>17. Lugares'
  <2>1. ASSUME NEW x \in Hilos, x # h PROVE NadaDe(x)
    <3>1. EnMano' /\ x = hiloEnExec' <=> EnMano /\ x = hiloEnExec
      BY <1>2, <1>3, <1>11, <2>1
    <3>2. /\ UnaVez(hilosEnReady, x) => UnaVez(hilosEnReady', x)
          /\ x \notin ToSet(hilosEnReady) => x \notin ToSet(hilosEnReady')
      BY <1>8, <2>1
    <3> QED BY <1>2, <1>4, <1>9, <2>1, <3>1, <3>2 DEF NadaDe
  <2> QED BY <1>0, <1>10, <2>1, LugaresMarco DEF Hilado
<1>18. Joins'
  BY <1>0, <1>4, <1>10, <1>12, JoinsMarco DEF Hilado
<1>19. BloqueadoDeMasSoloPorHerencia'
  <2>1. ASSUME NEW x \in Hilos, Vivo(x)', tcb'[x].estado = "BLOCKED", ~EsperaAlgo(x)'
        PROVE  \/ Dueno(x)'
               \/ /\ Vivo(x) /\ tcb[x].estado = "BLOCKED" /\ ~EsperaAlgo(x)
                  /\ Dueno(x) => Dueno(x)'
    <3>1. HeredaEl(x, h) = {} => tcb'[x].mutexEnEspera = tcb[x].mutexEnEspera
      BY <1>4
    <3>2. Vivo(x) /\ x # h
      BY <1>10, <2>1
    <3> QED BY <1>2, <1>4, <1>5, <2>1, <3>1, <3>2 DEF EsperaAlgo
  <2> QED BY <1>0, <2>1, MotivosMarco DEF Hilado
<1>20. SeLiberaUnaVez'
  <2>1. \A x \in ToSet(hilosEnExit) : x \in Hilos
    BY <1>0 DEF TypeOK, ToSet
  <2> QED BY <1>0, <1>2, <1>4, <2>1, ExitMarco DEF Hilado
<1>21. Zombis'
  <2>1. CASE Syscalls \cap Bajas = {}
    BY <2>1 DEF Zombis
  <2>2. CASE Syscalls \cap Bajas # {}
    <3>1. \A x \in Hilos : Zombi(x)' =>
             /\ Zombi(x) /\ tcb'[x].estado = tcb[x].estado
             /\ x \in ToSet(dispositivoIO') => x \in ToSet(dispositivoIO)
             /\ x \in dumps' => x \in dumps
             /\ \A t \in Hilos : Apunta(t, x)' => Apunta(t, x)
      BY <1>2, <1>4, <1>6, <1>10, <1>12, <2>2
    <3> QED BY <1>0, <3>1, ZombisMarco DEF Hilado
  <2> QED BY <2>1, <2>2
<1>22. SinIO => SinIO'
  <2> SUFFICES ASSUME SinIO PROVE SinIO'
    OBVIOUS
  <2>1. ASSUME NEW x \in Hilos
        PROVE /\ Vivo(x)' => /\ Vivo(x) /\ hilosEnBlock'[x] = hilosEnBlock[x]
                             /\ tcb'[x].estado = tcb[x].estado
              /\ ~Creado(x) => hilosEnBlock'[x] = hilosEnBlock[x]
              /\ Zombi(x)' => \/ hilosEnBlock'[x] = 0
                              \/ Zombi(x) /\ hilosEnBlock'[x] = hilosEnBlock[x]
    <3>1. Zombi(h) => hilosEnBlock[h] = 0
      BY <1>1 DEF SinIO, BlockExacto
    <3> QED BY <1>1, <1>4, <1>9, <1>10, <3>1
  <2>2. dispositivoIO' = <<>> /\ UNCHANGED siguienteTid
    BY <1>2 DEF SinIO
  <2> QED BY <2>1, <2>2, BlockMarco
<1>23. Escasez'
  BY <1>0, <1>5, <1>22 DEF Escasez, Hilado
<1> QED
  BY <1>5, <1>13, <1>15, <1>16, <1>17, <1>18, <1>19, <1>20, <1>21, <1>23 DEF Hilado
-----------------------------------------------------------------------------
(* The invariant.                                                          *)

LEMMA SaleInductivo ==
    ASSUME TypeOK, SaleElQueCorre, [Next]_vars
    PROVE  SaleElQueCorre'
<1>1. cp \in Controles
  BY DEF TypeOK
<1>2. ASSUME Seguir \/ Desalojar PROVE SaleElQueCorre'
  BY <1>2, SeguirHecho, DesalojarHecho DEF SaleElQueCorre
<1>3. ASSUME NEW pc \in {"ejecutando", "eliminar", "iterar", "colgado"},
             cp' = [cp EXCEPT !.pc = pc]
      PROVE  SaleElQueCorre'
  BY <1>1, <1>3 DEF SaleElQueCorre, Controles
<1>4. CASE UNCHANGED <<cp, hiloEnExec>>
  BY <1>4 DEF SaleElQueCorre
<1>5. ASSUME NEW h, NEW o, NEW i, finalizar_hilo(h, o, i), o = "salir" => h = hiloEnExec,
             UNCHANGED hiloEnExec
      PROVE  SaleElQueCorre'
  BY <1>5 DEF finalizar_hilo, SaleElQueCorre
<1>6. ASSUME NEW i, cp' = [cp EXCEPT !.pc = "iterar", !.i = i] PROVE SaleElQueCorre'
  <2>1. cp'.pc = "iterar"
    BY <1>1, <1>6 DEF Controles
  <2> QED BY <2>1 DEF SaleElQueCorre
<1>7. CASE LargoPlazo
  BY <1>4, <1>7 DEF LargoPlazo, AdmitirProceso, varsCP
<1>8. CASE CortoPlazo
  <2>1. UNCHANGED <<cp, hiloEnExec>> \/ cp' = [cp EXCEPT !.pc = "ejecutando"]
    BY <1>8 DEF CortoPlazo, ElegirHilo, ElegirSinHilos, ContinuarHilo, ejecutar_hilo, varsCP
  <2> QED BY <1>3, <1>4, <2>1
<1>9. CASE DespertarPorJoin
  <2>1. /\ cp.pc = "avisando" /\ UNCHANGED hiloEnExec
        /\ UNCHANGED cp \/ cp' = [cp EXCEPT !.pc = "recursos"]
    BY <1>9 DEF DespertarPorJoin, En
  <2>2. cp' = [cp EXCEPT !.pc = "recursos"] => cp'.hilo = cp.hilo /\ cp'.origen = cp.origen
    BY <1>1 DEF Controles
  <2> QED BY <2>1, <2>2 DEF SaleElQueCorre
<1>10. CASE LiberarRecursosMutex
  <2>1. cp' = [cp EXCEPT !.pc = "eliminar"] \/ Desalojar \/ Seguir
    BY <1>10 DEF LiberarRecursosMutex
  <2> QED BY <1>2, <1>3, <2>1
<1>11. CASE EliminarDeColas
  <2>1. Seguir \/ cp' = [cp EXCEPT !.pc = "iterar"]
    BY <1>11 DEF EliminarDeColas
  <2> QED BY <1>2, <1>3, <2>1
<1>12. CASE IterarProceso
  <2>1. /\ cp.pc = "iterar" /\ UNCHANGED hiloEnExec
        /\ \/ cp' = [cp EXCEPT !.i = @ + 1]
           \/ finalizar_hilo(listaDeHilos[PidEnExec][cp.i + 1], "proceso", cp.i + 1)
    BY <1>12 DEF IterarProceso, En
  <2>2. cp' = [cp EXCEPT !.i = @ + 1] => cp'.pc = "iterar"
    BY <1>1, <2>1 DEF Controles
  <2> QED BY <1>5, <2>1, <2>2 DEF SaleElQueCorre
<1>13. CASE LiberarProceso
  BY <1>2, <1>13 DEF LiberarProceso
<1>14. CASE SystemCall
  <2>1. THREAD_EXIT => finalizar_hilo(hiloEnExec, "salir", 0) /\ UNCHANGED hiloEnExec
    BY DEF THREAD_EXIT
  <2>2. MUTEX_LOCK \/ MUTEX_UNLOCK =>
           \/ Seguir \/ Desalojar
           \/ finalizar_hilo(hiloEnExec, "mutex", 0) /\ UNCHANGED hiloEnExec
    BY DEF MUTEX_LOCK, LockLibre, LockTomado, MUTEX_UNLOCK, UnlockAjeno
  <2>3. THREAD_CANCEL =>
           \/ Seguir
           \/ \E h \in {<<PidEnExec, tid>> : tid \in Tids} :
                 finalizar_hilo(h, "cancelar", 0) /\ UNCHANGED hiloEnExec
    BY DEF THREAD_CANCEL
  <2>4. PROCESS_CREATE \/ THREAD_CREATE \/ SinEseHilo \/ MUTEX_CREATE => Seguir
    BY DEF PROCESS_CREATE, THREAD_CREATE, SinEseHilo, MUTEX_CREATE
  <2>5. THREAD_JOIN \/ IO \/ DUMP_MEMORY \/ FIN_DE_QUANTUM => Desalojar
    BY DEF THREAD_JOIN, IO, DUMP_MEMORY, FIN_DE_QUANTUM
  <2>6. PROCESS_EXIT => \E i \in {0} : cp' = [cp EXCEPT !.pc = "iterar", !.i = i]
    BY DEF PROCESS_EXIT
  <2>7. SEGMENTATION_FAULT =>
           \/ \E i \in {CantHilos} : cp' = [cp EXCEPT !.pc = "iterar", !.i = i]
           \/ UNCHANGED <<cp, hiloEnExec>>
           \/ cp' = [cp EXCEPT !.pc = "colgado"]
    BY DEF SEGMENTATION_FAULT
  <2> QED
    BY <1>2, <1>3, <1>4, <1>5, <1>6, <1>14, <2>1, <2>2, <2>3, <2>4, <2>5, <2>6, <2>7
       DEF SystemCall
<1>15. CASE Alrededor
  <2>1. UNCHANGED <<cp, hiloEnExec>> \/ cp' = [cp EXCEPT !.pc = "colgado"]
    BY <1>15 DEF Alrededor, FinalizadorDeHilos, AtenderIO, DumpTerminado, DumpFallido, varsCP
  <2> QED BY <1>3, <1>4, <2>1
<1>16. CASE UNCHANGED vars
  BY <1>4, <1>16 DEF vars
<1> QED
  BY <1>7, <1>8, <1>9, <1>10, <1>11, <1>12, <1>13, <1>14, <1>15, <1>16
     DEF Next, Finalizacion

LEMMA HiladoSystemCall == JInv /\ SystemCall => Hilado'
<1> SUFFICES ASSUME JInv, SystemCall PROVE Hilado'
  OBVIOUS
<1>1. CASE THREAD_EXIT
  BY <1>1, HiladoSale DEF THREAD_EXIT, Pide, En
<1>2. CASE MUTEX_LOCK
  <2>1. cp.pc = "ejecutando"
    BY <1>2 DEF MUTEX_LOCK, Pide, En
  <2> QED BY <1>2, <2>1, HiladoLock, HiladoSale
<1>3. CASE MUTEX_UNLOCK
  <2>1. cp.pc = "ejecutando"
    BY <1>3 DEF MUTEX_UNLOCK, Pide, En
  <2>2. ASSUME NEW m \in Mutexes, UnlockAjeno(m),
               UNCHANGED <<varsProceso, varsExternas, hiloEnExec, caida>>
        PROVE  Hilado'
    <3>1. /\ finalizar_hilo(hiloEnExec, "mutex", 0)
          /\ UNCHANGED <<varsProceso, mutex, varsColas, varsExternas, hiloEnExec>>
      BY <2>2 DEF UnlockAjeno
    <3> QED BY <2>1, <3>1, HiladoSale
  <2> QED BY <1>3, <2>2, HiladoUnlock
<1> QED
  BY <1>1, <1>2, <1>3, HiladoProcesos, HiladoFinProceso, HiladoThreadCreate, HiladoJoin,
     HiladoCancel, HiladoMutexCreate, HiladoIO, HiladoDump, HiladoQuantum
     DEF SystemCall

LEMMA InicioJInv == Init => JInv
<1> SUFFICES ASSUME Init PROVE SinBajas /\ SaleElQueCorre /\ Hilado
  BY InicioIInv DEF JInv
<1>0. TypeOK /\ IInv
  BY InicioIInv DEF IInv
<1>1. /\ \A h \in Hilos : tcb[h] = TcbNuevo("NINGUNO", 0) /\ hilosEnBlock[h] = 0
      /\ \A m \in Mutexes : mutex[m] = MutexNuevo
      /\ \A p \in Pids : listaDeHilos[p] = <<>> /\ pcb[p] # "vivo"
      /\ hilosEnReady = <<>> /\ hilosEnExit = <<>> /\ dispositivoIO = <<>>
      /\ dumps = {} /\ enMemoria = {} /\ hiloEnExec = NULO /\ replanificar = TRUE
      /\ cp = [pc |-> "elegir", hilo |-> NULO, origen |-> "", i |-> 0]
  BY DEF Init
<1>2. cp.pc = "elegir" /\ cp.origen = "" /\ ~EnMano /\ ~EnFinalizacion
  BY <1>1 DEF EnMano, EnFinalizacion
<1>3. SinBajas /\ SaleElQueCorre
  BY <1>2 DEF SinBajas, SaleElQueCorre
<1>4. ToSet(<<>>) = {} /\ IsInjective(<<>>)
  BY DEF ToSet, IsInjective
<1>5. \A h \in Hilos : /\ tcb[h].hiloBloqueadoPorJoin = NULO /\ h # NULO
                       /\ h[1] \in Pids
  <2>1. TcbNuevo("NINGUNO", 0).hiloBloqueadoPorJoin = NULO
    BY DEF TcbNuevo
  <2> QED BY <1>1, <2>1, PartesDeHilo
<1>6. \A h \in Hilos : ~Referido(h) /\ ~Vivo(h) /\ ~Zombi(h)
  BY <1>1, <1>2, <1>4, <1>5 DEF Referido, Vivo, Zombi
<1>7. Creados /\ Muertos /\ EnLista
  BY <1>1, <1>2, <1>4, <1>6 DEF Creados, Muertos, EnLista
<1>8. Lugares /\ Joins /\ BloqueadoDeMasSoloPorHerencia
  BY <1>6 DEF Lugares, Joins, BloqueadoDeMasSoloPorHerencia
<1>9. SinMutexes
  <2>1. MutexNuevo.tomadoPor = NULO /\ MutexNuevo.hilosBloqueados = <<>>
    BY DEF MutexNuevo
  <2> QED BY <1>1, <2>1 DEF SinMutexes
<1>10. Colas
  BY <1>1, <1>4, <1>9 DEF Colas, SinMutexes
<1>11. SeLiberaUnaVez
  BY <1>1, <1>4 DEF SeLiberaUnaVez
<1>12. Zombis
  BY <1>6 DEF Zombis
<1>13. SinIO
  BY <1>1, <1>6 DEF SinIO, BlockExacto
<1> QED BY <1>3, <1>7, <1>8, <1>9, <1>10, <1>11, <1>12, <1>13 DEF Hilado, Escasez

LEMMA JInvInductivo ==
    ASSUME SinMezcla, JInv, [Next]_vars
    PROVE  JInv'
<1>1. IInv' /\ SaleElQueCorre' /\ (Syscalls \cap Bajas = {} => SinBajas')
  BY IInvInductivo, SinBajasInductivo, SaleInductivo DEF JInv, IInv
<1>2. Finalizacion => Hilado'
  BY HiladoDespertar, HiladoLiberar, HiladoEliminar, HiladoIterar, HiladoLiberarProceso
     DEF Finalizacion
<1>3. Alrededor => Hilado'
  BY HiladoFinalizador, HiladoAtenderIO, HiladoDumpTerminado, HiladoDumpFallido
     DEF Alrededor
<1>4. UNCHANGED vars => Hilado'
  BY HiladoQuieto
     DEF vars, JInv, varsProceso, varsColas, varsExit, varsExternas, varsCP
<1>5. Hilado'
  BY <1>2, <1>3, <1>4, HiladoLargoPlazo, HiladoCortoPlazo, HiladoSystemCall DEF Next
<1> QED BY <1>1, <1>5 DEF JInv

LEMMA SiempreJInv ==
    ASSUME SinMezcla
    PROVE  Spec => []JInv
<1>1. JInv /\ [Next]_vars => JInv'
  BY JInvInductivo
<1> QED BY <1>1, InicioJInv, PTL DEF Spec
-----------------------------------------------------------------------------
(* What the invariant says.                                                *)

\* A control block is freed once: finalizar_hilo never appends to hilosEnExit a
\* thread that is there already or that the reaper has freed, whichever of its
\* callers gets to it (its own exit, a cancel, the loop of finalizar_proceso).
THEOREM SeLiberaUnaVezSiempre ==
    ASSUME SinMezcla
    PROVE  Spec => []SeLiberaUnaVez
<1>1. JInv => SeLiberaUnaVez
  BY DEF JInv, Hilado
<1> QED BY <1>1, SiempreJInv, PTL

\* A live thread is in hilosEnReady once when its state is READY and not at
\* all when it is not, and the one in EXECUTE is hiloEnExec: the wake-ups of
\* joins, mutexes, IO and dumps never put a thread in Ready twice.
THEOREM UnSoloLugarSiempre ==
    ASSUME SinMezcla
    PROVE  Spec => []UnSoloLugar
<1>1. ASSUME JInv PROVE UnSoloLugar
  <2> SUFFICES ASSUME NEW h \in Hilos, Vivo(h)
               PROVE  /\ VecesEnReady(h) = IF tcb[h].estado = "READY" THEN 1 ELSE 0
                      /\ tcb[h].estado = "EXECUTE" => h = hiloEnExec
    BY DEF UnSoloLugar
  <2>1. EnSuLugar(h) /\ hilosEnReady \in Seq(Hilos)
    BY <1>1 DEF JInv, IInv, TypeOK, Hilado, Lugares
  <2>2. /\ UnaVez(hilosEnReady, h) => VecesEnReady(h) = 1
        /\ h \notin ToSet(hilosEnReady) => VecesEnReady(h) = 0
    BY <2>1, CuantasVeces DEF VecesEnReady
  <2> QED BY <2>1, <2>2 DEF EnSuLugar
<1>2. JInv => UnSoloLugar
  BY <1>1
<1> QED BY <1>2, SiempreJInv, PTL

\* No thread runs, or may be chosen to run, while it waits for something: a
\* mutex, the end of another thread, the IO device or the answer to a dump.
THEOREM ListoSinMotivoSiempre ==
    ASSUME SinMezcla
    PROVE  Spec => []ListoSinMotivo
<1>1. ASSUME JInv PROVE ListoSinMotivo
  <2>1. SUFFICES ASSUME NEW h \in Hilos, Vivo(h), tcb[h].estado \in {"READY", "EXECUTE"}
                 PROVE  /\ PuedeIrAReady(h)
                        /\ h \notin ToSet(dispositivoIO) \cup dumps
                        /\ \A m \in Mutexes : h \notin ToSet(mutex[m].hilosBloqueados)
    BY DEF ListoSinMotivo
  <2>2. EnSuLugar(h) /\ Colas /\ h \in enMemoria
    BY <1>1, <2>1 DEF JInv, Hilado, Lugares, Vivo
  <2>3. PuedeIrAReady(h) /\ h \notin dumps
    BY <2>1, <2>2 DEF EnSuLugar
  <2>4. h \notin ToSet(dispositivoIO)
    BY <2>2, <2>3 DEF EnSuLugar, PuedeIrAReady
  <2>5. \A m \in Mutexes : h \notin ToSet(mutex[m].hilosBloqueados)
    BY <2>2, <2>3 DEF Colas, PuedeIrAReady
  <2> QED BY <2>3, <2>4, <2>5
<1>2. JInv => ListoSinMotivo
  BY <1>1
<1> QED BY <1>2, SiempreJInv, PTL

\* The queue of a mutex and what its waiters say they wait for agree, nobody
\* waits for a free mutex, and owner and waiters are threads that have not
\* passed liberar_recursos_mutex, whoever finishes them.
THEOREM MutexCoherenteSiempre ==
    ASSUME SinMezcla
    PROVE  Spec => []MutexCoherente
<1>1. ASSUME JInv PROVE MutexCoherente
  <2>1. SUFFICES ASSUME NEW m \in Mutexes, pcb[m[1]] = "vivo"
                 PROVE  /\ mutex[m].tomadoPor = NULO => mutex[m].hilosBloqueados = <<>>
                        /\ \A h \in ToSet(mutex[m].hilosBloqueados)
                                    \cup ({mutex[m].tomadoPor} \ {NULO}) :
                              Vivo(h) \/ SeEstaFinalizando(h)
                        /\ \A h \in Hilos : h[1] = m[1] /\ Vivo(h) =>
                              (m[2] \in tcb[h].mutexEnEspera
                                  <=> h \in ToSet(mutex[m].hilosBloqueados))
    BY DEF MutexCoherente
  <2>2. ColaBien(m)
    BY <1>1 DEF JInv, Hilado, Colas, ColaBien
  <2>3. \A h : h[1] = m[1] /\ Presente(h) => Vivo(h) \/ SeEstaFinalizando(h)
    BY <2>1 DEF Presente, Vivo
  <2> QED BY <2>2, <2>3 DEF ColaBien, Vivo
<1>2. JInv => MutexCoherente
  BY <1>1
<1> QED BY <1>2, SiempreJInv, PTL

\* hiloBloqueadoPorJoin is good whenever finalizar_hilo may follow it: the thread
\* it points to, if alive, waits for that end and for that of no other thread,
\* and the search in hilosEnBlock finds it.
THEOREM PunteroDeJoinVigenteSiempre ==
    ASSUME SinMezcla
    PROVE  Spec => []PunteroDeJoinVigente
<1>1. ASSUME JInv PROVE PunteroDeJoinVigente
  <2>1. SUFFICES ASSUME NEW t \in Hilos, NEW h \in Hilos, Vivo(t), Vivo(h),
                        tcb[t].hiloBloqueadoPorJoin = h
                 PROVE  /\ tcb[h].bloqueadoPorJoin /\ tcb[h].estado = "BLOCKED"
                        /\ hilosEnBlock[h] > 0
                        /\ \A u \in Hilos \ {t} : Vivo(u) => tcb[u].hiloBloqueadoPorJoin # h
    BY DEF PunteroDeJoinVigente
  <2>2. Apunta(t, h) /\ Joins /\ EnSuLugar(h)
    BY <1>1, <2>1 DEF Apunta, Activo, Vivo, JInv, Hilado, Lugares
  <2>3. tcb[h].bloqueadoPorJoin /\ \A u \in Hilos : Apunta(u, h) => u = t
    BY <2>1, <2>2 DEF Joins
  <2>4. tcb[h].estado = "BLOCKED" /\ hilosEnBlock[h] > 0
    BY <2>2, <2>3 DEF EnSuLugar, PuedeIrAReady
  <2> QED BY <2>3, <2>4 DEF Apunta, Activo, Vivo
<1>2. JInv => PunteroDeJoinVigente
  BY <1>1
<1> QED BY <1>2, SiempreJInv, PTL

\* A thread that is blocked waits for something that will end, unless it was
\* given a mutex by a thread that finished: liberar_recursos_mutex looks for
\* the thread that ends in Block, not for the heir.
THEOREM BloqueadoDeMasSiempre ==
    ASSUME SinMezcla
    PROVE  Spec => []BloqueadoDeMasSoloPorHerencia
<1>1. JInv => BloqueadoDeMasSoloPorHerencia
  BY DEF JInv, Hilado
<1> QED BY <1>1, SiempreJInv, PTL
-----------------------------------------------------------------------------
(* The mutexes are the locks of Cerrojos.                                  *)

\* The library's operators, seen through the instance.
LEMMA MismaCola ==
    ASSUME NEW s, NEW x
    PROVE  LosCerrojos!ToSet(s) = ToSet(s) /\ LosCerrojos!RemoveFirst(s, x) = RemoveFirst(s, x)
BY DEF LosCerrojos!ToSet, ToSet, LosCerrojos!RemoveFirst, RemoveFirst,
       LosCerrojos!SelectInSeq, SelectInSeq, LosCerrojos!RemoveAt, RemoveAt,
       LosCerrojos!Min, Min

LEMMA EsQueda ==
    ASSUME NEW m \in Mutexes, mutex'[m].tomadoPor = mutex[m].tomadoPor,
           mutex'[m].hilosBloqueados = mutex[m].hilosBloqueados
    PROVE  LosCerrojos!Paso(m)
BY DEF LosCerrojos!Paso, LosCerrojos!Queda

LEMMA EsTomar ==
    ASSUME NEW m \in Mutexes, NEW h \in Hilos, mutex[m].tomadoPor = NULO,
           mutex'[m].tomadoPor = h, mutex'[m].hilosBloqueados = mutex[m].hilosBloqueados
    PROVE  LosCerrojos!Paso(m)
<1>1. LosCerrojos!Tomar(m, h)
  BY DEF LosCerrojos!Tomar
<1> QED BY <1>1 DEF LosCerrojos!Paso

LEMMA EsEsperar ==
    ASSUME NEW m \in Mutexes, NEW h \in Hilos, mutex[m].tomadoPor # NULO,
           h \notin ToSet(mutex[m].hilosBloqueados),
           mutex'[m].tomadoPor = mutex[m].tomadoPor,
           mutex'[m].hilosBloqueados = Append(mutex[m].hilosBloqueados, h)
    PROVE  LosCerrojos!Paso(m)
<1>1. LosCerrojos!Esperar(m, h)
  BY MismaCola DEF LosCerrojos!Esperar
<1> QED BY <1>1 DEF LosCerrojos!Paso

\* The lock goes to the first of the sequence q.
PasaA(m, q) ==
    /\ mutex[m].tomadoPor # NULO
    /\ mutex'[m].tomadoPor = IF q = <<>> THEN NULO ELSE Head(q)
    /\ mutex'[m].hilosBloqueados = IF q = <<>> THEN <<>> ELSE Tail(q)

LEMMA EsPasar ==
    ASSUME NEW m \in Mutexes, PasaA(m, mutex[m].hilosBloqueados)
    PROVE  LosCerrojos!Paso(m)
BY DEF PasaA, LosCerrojos!Paso, LosCerrojos!Pasar

LEMMA EsIrse ==
    ASSUME NEW m \in Mutexes, NEW h \in Hilos, h \in ToSet(mutex[m].hilosBloqueados),
           \/ /\ mutex'[m].hilosBloqueados = RemoveFirst(mutex[m].hilosBloqueados, h)
              /\ mutex'[m].tomadoPor = mutex[m].tomadoPor
           \/ mutex[m].tomadoPor = h /\ PasaA(m, RemoveFirst(mutex[m].hilosBloqueados, h))
    PROVE  LosCerrojos!Paso(m)
<1> DEFINE s == [x \in Mutexes |-> mutex[x].hilosBloqueados][m]
           q == LosCerrojos!RemoveFirst(s, h)
<1>1. /\ s = mutex[m].hilosBloqueados /\ q = RemoveFirst(mutex[m].hilosBloqueados, h)
      /\ h \in LosCerrojos!ToSet(s)
  BY MismaCola
<1> HIDE DEF q
<1>2. CASE /\ mutex'[m].hilosBloqueados = RemoveFirst(mutex[m].hilosBloqueados, h)
           /\ mutex'[m].tomadoPor = mutex[m].tomadoPor
  <2>1. LosCerrojos!Irse(m, h)
    BY <1>1, <1>2 DEF LosCerrojos!Irse, q
  <2> QED BY <2>1 DEF LosCerrojos!Paso
<1>3. CASE mutex[m].tomadoPor = h /\ PasaA(m, RemoveFirst(mutex[m].hilosBloqueados, h))
  <2>1. LosCerrojos!Irse(m, h)
    BY <1>1, <1>3 DEF LosCerrojos!Irse, LosCerrojos!Pasar, PasaA, q
  <2> QED BY <2>1 DEF LosCerrojos!Paso
<1> QED BY <1>2, <1>3

\* What the end of a thread does to one mutex of its process.
LEMMA CerrojoAbandonado ==
    ASSUME TypeOK, NEW m \in Mutexes, NEW h \in Hilos, mutex'[m] = Abandonar(m, h)
    PROVE  LosCerrojos!Paso(m)
<1> DEFINE q == mutex[m].hilosBloqueados
           s == SinEsperar(m, h)
<1>1. /\ mutex'[m].tomadoPor = IF mutex[m].tomadoPor # h THEN mutex[m].tomadoPor
                               ELSE IF s = <<>> THEN NULO ELSE Head(s)
      /\ mutex'[m].hilosBloqueados = IF mutex[m].tomadoPor = h /\ s # <<>>
                                     THEN Tail(s) ELSE s
  BY AbandonarHecho
<1>2. /\ s = RemoveFirst(q, h) /\ h # NULO
      /\ h \notin ToSet(q) => s = q
  <2>1. q \in Seq(Hilos)
    BY DEF TypeOK, LosMutex
  <2>2. h \notin ToSet(q) => RemoveFirst(q, h) = q
    <3>1. \A i \in 1 .. Len(q) : q[i] \in ToSet(q)
      BY <2>1 DEF ToSet
    <3> QED BY <2>1, <3>1, QuitarPrimero
  <2> QED BY <2>2, PartesDeHilo DEF SinEsperar
<1> HIDE DEF s
<1>3. mutex[m].tomadoPor = h => PasaA(m, s)
  BY <1>1, <1>2 DEF PasaA
<1>4. CASE h \in ToSet(q)
  BY <1>1, <1>2, <1>3, <1>4, EsIrse
<1>5. CASE h \notin ToSet(q)
  BY <1>1, <1>2, <1>3, <1>5, EsQueda, EsPasar
<1> QED BY <1>4, <1>5

LEMMA PasoDeCerrojos ==
    ASSUME JInv, [Next]_vars
    PROVE  \A m \in Mutexes : LosCerrojos!Paso(m)
<1>0. TypeOK /\ mutex \in [Mutexes -> LosMutex]
  BY DEF JInv, IInv, TypeOK
<1>1. CASE UNCHANGED mutex
  BY <1>1, EsQueda
<1>2. CASE LiberarRecursosMutex
  <2>1. cp.hilo \in Hilos
    BY <1>2 DEF LiberarRecursosMutex, En, JInv, IInv, Control, EnFinalizacion
  <2>2. \A m \in Mutexes :
           mutex'[m] = IF m[1] = cp.hilo[1] THEN Abandonar(m, cp.hilo) ELSE mutex[m]
    BY <1>0, <1>2, <2>1, LiberarHecho
  <2>3. ASSUME NEW m \in Mutexes PROVE LosCerrojos!Paso(m)
    BY <1>0, <2>1, <2>2, CerrojoAbandonado, EsQueda
  <2> QED BY <2>3
<1>3. ASSUME NEW m \in Mutexes, SoloElMutex(m), LosCerrojos!Paso(m)
      PROVE  \A x \in Mutexes : LosCerrojos!Paso(x)
  <2>1. ASSUME NEW x \in Mutexes, x # m PROVE LosCerrojos!Paso(x)
    BY <1>3, <2>1, EsQueda DEF SoloElMutex
  <2> QED BY <1>3, <2>1
<1>4. CASE MUTEX_CREATE
  <2>1. PICK r \in Recursos : mutex' = [mutex EXCEPT ![<<PidEnExec, r>>].creado = TRUE]
    BY <1>4 DEF MUTEX_CREATE
  <2> DEFINE m == <<PidEnExec, r>>
  <2>2. mutex' = [mutex EXCEPT ![m].creado = TRUE]
    BY <2>1
  <2> HIDE DEF m
  <2>3. \A x \in Mutexes : /\ mutex'[x].tomadoPor = mutex[x].tomadoPor
                           /\ mutex'[x].hilosBloqueados = mutex[x].hilosBloqueados
    BY <1>0, <2>2 DEF LosMutex
  <2> QED BY <2>3, EsQueda
<1>5. CASE MUTEX_LOCK
  <2>1. cp.pc = "ejecutando"
    BY <1>5 DEF MUTEX_LOCK, Pide, En
  <2>2. /\ hiloEnExec \in Hilos /\ PidEnExec \in Pids
        /\ \A x \in Mutexes : hiloEnExec \notin ToSet(mutex[x].hilosBloqueados)
    BY <2>1, ElQueCorre
  <2>3. PICK h \in Hilos : h = hiloEnExec
    BY <2>2
  <2>4. \E r \in Recursos : \/ LockLibre(<<PidEnExec, r>>) \/ LockTomado(<<PidEnExec, r>>)
                           \/ UNCHANGED mutex
    BY <1>5 DEF MUTEX_LOCK
  <2>5. PICK m \in Mutexes : LockLibre(m) \/ LockTomado(m) \/ UNCHANGED mutex
    BY <2>2, <2>4 DEF Mutexes
  <2>6. CASE LockLibre(m)
    <3>1. mutex[m].tomadoPor = NULO /\ mutex' = [mutex EXCEPT ![m].tomadoPor = h]
      BY <2>3, <2>6 DEF LockLibre
    <3>2. /\ SoloElMutex(m) /\ mutex'[m].tomadoPor = h
          /\ mutex'[m].hilosBloqueados = mutex[m].hilosBloqueados
      BY <1>0, <3>1 DEF SoloElMutex, LosMutex
    <3>3. LosCerrojos!Paso(m)
      BY <3>1, <3>2, EsTomar
    <3> QED BY <1>3, <3>2, <3>3
  <2>7. CASE LockTomado(m)
    <3>1. /\ mutex[m].tomadoPor # NULO
          /\ \A x \in Mutexes :
                /\ mutex'[x].tomadoPor = mutex[x].tomadoPor
                /\ mutex'[x].hilosBloqueados
                      = IF x = m THEN Append(mutex[x].hilosBloqueados, h)
                                 ELSE mutex[x].hilosBloqueados
      BY <1>0, <2>2, <2>3, <2>7, LockTomadoHecho DEF LockTomado
    <3>2. LosCerrojos!Paso(m)
      BY <2>2, <2>3, <3>1, EsEsperar
    <3>3. ASSUME NEW x \in Mutexes, x # m PROVE LosCerrojos!Paso(x)
      BY <3>1, <3>3, EsQueda
    <3> QED BY <3>2, <3>3
  <2> QED BY <1>1, <2>5, <2>6, <2>7
<1>6. CASE MUTEX_UNLOCK
  <2>1. cp.pc = "ejecutando"
    BY <1>6 DEF MUTEX_UNLOCK, Pide, En
  <2>2. hiloEnExec # NULO /\ PidEnExec \in Pids
    BY <2>1, ElQueCorre, PartesDeHilo
  <2>3. \E r \in Recursos : \/ /\ mutex[<<PidEnExec, r>>].tomadoPor = hiloEnExec
                              /\ \/ UnlockSinEspera(<<PidEnExec, r>>)
                                 \/ UnlockConEspera(<<PidEnExec, r>>)
                           \/ UNCHANGED mutex
    BY <1>6 DEF MUTEX_UNLOCK, UnlockAjeno
  <2>4. PICK m \in Mutexes : \/ /\ mutex[m].tomadoPor = hiloEnExec
                                /\ UnlockSinEspera(m) \/ UnlockConEspera(m)
                             \/ UNCHANGED mutex
    BY <2>2, <2>3 DEF Mutexes
  <2> DEFINE q == mutex[m].hilosBloqueados
  <2>5. ASSUME mutex[m].tomadoPor = hiloEnExec, UnlockSinEspera(m)
        PROVE  SoloElMutex(m) /\ PasaA(m, q)
    <3>1. q = <<>> /\ mutex' = [mutex EXCEPT ![m].tomadoPor = NULO]
      BY <2>5 DEF UnlockSinEspera
    <3>2. /\ SoloElMutex(m) /\ mutex'[m].tomadoPor = NULO
          /\ mutex'[m].hilosBloqueados = mutex[m].hilosBloqueados
      BY <1>0, <3>1 DEF SoloElMutex, LosMutex
    <3> QED BY <2>2, <2>5, <3>1, <3>2 DEF PasaA
  <2>6. ASSUME mutex[m].tomadoPor = hiloEnExec, UnlockConEspera(m)
        PROVE  SoloElMutex(m) /\ PasaA(m, q)
    <3> DEFINE e == Head(q)
               c == Tail(q)
    <3>1. q # <<>> /\ mutex' = [mutex EXCEPT ![m].tomadoPor = e, ![m].hilosBloqueados = Tail(@)]
      BY <2>6 DEF UnlockConEspera
    <3>2. mutex' = [mutex EXCEPT ![m].tomadoPor = e, ![m].hilosBloqueados = c]
      BY <1>0, <3>1 DEF LosMutex
    <3> HIDE DEF e, c
    <3>3. SoloElMutex(m) /\ mutex'[m].tomadoPor = e /\ mutex'[m].hilosBloqueados = c
      BY <1>0, <3>2 DEF SoloElMutex, LosMutex
    <3> QED BY <2>2, <2>6, <3>1, <3>3 DEF PasaA, e, c
  <2>7. ASSUME SoloElMutex(m), PasaA(m, q) PROVE \A x \in Mutexes : LosCerrojos!Paso(x)
    <3>1. LosCerrojos!Paso(m)
      BY <2>7, EsPasar
    <3> QED BY <1>3, <2>7, <3>1
  <2> QED BY <1>1, <2>4, <2>5, <2>6, <2>7
<1>7. \/ UNCHANGED mutex \/ LiberarRecursosMutex
      \/ MUTEX_CREATE \/ MUTEX_LOCK \/ MUTEX_UNLOCK
  <2>1. LargoPlazo \/ CortoPlazo => UNCHANGED mutex
    BY DEF LargoPlazo, AdmitirProceso, CortoPlazo, ElegirHilo, ElegirSinHilos, ContinuarHilo
  <2>2. DespertarPorJoin \/ EliminarDeColas \/ IterarProceso \/ LiberarProceso
           => UNCHANGED mutex
    BY DEF DespertarPorJoin, EliminarDeColas, IterarProceso, LiberarProceso
  <2>3. (\/ PROCESS_CREATE \/ PROCESS_EXIT \/ THREAD_CREATE \/ THREAD_EXIT \/ THREAD_JOIN
         \/ THREAD_CANCEL \/ SinEseHilo \/ IO \/ DUMP_MEMORY \/ SEGMENTATION_FAULT
         \/ FIN_DE_QUANTUM)
           => UNCHANGED mutex
    BY DEF PROCESS_CREATE, PROCESS_EXIT, THREAD_CREATE, THREAD_EXIT, THREAD_JOIN,
           THREAD_CANCEL, SinEseHilo, IO, DUMP_MEMORY, SEGMENTATION_FAULT, FIN_DE_QUANTUM
  <2>4. Alrededor => UNCHANGED mutex
    BY DEF Alrededor, FinalizadorDeHilos, AtenderIO, DumpTerminado, DumpFallido
  <2>5. UNCHANGED vars => UNCHANGED mutex
    BY DEF vars
  <2> HIDE DEF vars
  <2>6. Next \/ UNCHANGED vars
    OBVIOUS
  <2> QED BY <2>1, <2>2, <2>3, <2>4, <2>5, <2>6 DEF Next, Finalizacion, SystemCall
<1> QED BY <1>1, <1>2, <1>4, <1>5, <1>6, <1>7

\* Every mutex behaves as the lock of Cerrojos: one owner at a time, who is not
\* displaced; the waiters are served in the order they came; and what
\* MUTEX_UNLOCK and the finalization of a thread, its owner or a waiter, do to
\* it is a step of that lock.
THEOREM RefinaCerrojos ==
    ASSUME SinMezcla
    PROVE  Spec => ImplementaCerrojos
<1>1. Init => LosCerrojos!Init
  <2> SUFFICES ASSUME Init PROVE LosCerrojos!Init
    OBVIOUS
  <2>1. \A m \in Mutexes : mutex[m].tomadoPor = NULO /\ mutex[m].hilosBloqueados = <<>>
    <3>1. MutexNuevo.tomadoPor = NULO /\ MutexNuevo.hilosBloqueados = <<>>
      BY DEF MutexNuevo
    <3> QED BY <3>1 DEF Init
  <2> QED BY <2>1 DEF LosCerrojos!Init
<1>2. JInv /\ [Next]_vars => [\A m \in Mutexes : LosCerrojos!Paso(m)]_(LosCerrojos!vars)
  BY PasoDeCerrojos
<1> QED BY <1>1, <1>2, SiempreJInv, PTL DEF Spec, ImplementaCerrojos, LosCerrojos!Spec
-----------------------------------------------------------------------------
(* What kills the kernel where nobody else finishes a thread.              *)

\* Somebody has the address of h and is going to wake it up.
Avisable(h) ==
    h \in dumps \/ h \in ToSet(dispositivoIO) \/ \E t \in Hilos : Apunta(t, h)

Esperados == \A h \in Hilos : Avisable(h) => h \in enMemoria

\* The thread that the CPU goes on with has not finished, but if a call on a
\* mutex has just finished it.
SigueVivo ==
    cp.pc = "elegir" /\ ~replanificar => hiloEnExec \in enMemoria \/ cp.origen = "mutex"

SinLiberados == \A p \in Pids : pcb[p] # "liberado"

\* Nothing that the kernel is going to use was freed behind its back.
SInv == JInv /\ Esperados /\ SigueVivo /\ SinLiberados /\ Sobran = 0

\* S: the thread that begins to wait in this step, if any.
LEMMA EsperadosPaso ==
    ASSUME JInv, Esperados, NEW S,
           S = {} \/ (cp.pc = "ejecutando" /\ S = {hiloEnExec} /\ enMemoria \subseteq enMemoria'),
           \A x \in enMemoria : x \in enMemoria' \/ (cp.pc = "ejecutando" /\ x = hiloEnExec),
           dumps' \subseteq dumps \cup S,
           ToSet(dispositivoIO') \subseteq ToSet(dispositivoIO) \cup S,
           \A t \in Hilos : tcb'[t].hiloBloqueadoPorJoin
                               \in {tcb[t].hiloBloqueadoPorJoin, NULO} \cup S,
           \A t \in Hilos : Activo(t)' => Activo(t) \/ tcb'[t].hiloBloqueadoPorJoin = NULO
    PROVE  Esperados'
<1> SUFFICES ASSUME NEW h \in Hilos, Avisable(h)' PROVE h \in enMemoria'
  BY DEF Esperados
<1>1. h # NULO
  BY PartesDeHilo
<1>2. ASSUME NEW t \in Hilos, Apunta(t, h)' PROVE Apunta(t, h) \/ h \in S
  <2>1. Activo(t)' /\ tcb'[t].hiloBloqueadoPorJoin = h
    BY <1>2 DEF Apunta
  <2>2. Activo(t)
    BY <1>1, <2>1
  <2>3. tcb[t].hiloBloqueadoPorJoin = h \/ h \in S
    BY <1>1, <2>1
  <2> QED BY <2>2, <2>3 DEF Apunta
<1>3. Avisable(h) \/ h \in S
  BY <1>2 DEF Avisable
<1>4. CASE h \in S
  <2>1. cp.pc = "ejecutando" /\ h = hiloEnExec /\ enMemoria \subseteq enMemoria'
    BY <1>4
  <2> QED BY <2>1, ElQueCorre
<1>5. CASE Avisable(h)
  <2>1. h \in enMemoria
    BY <1>5 DEF Esperados
  <2>2. ASSUME cp.pc = "ejecutando", h = hiloEnExec PROVE FALSE
    BY <1>5, <2>2, ElQueCorre DEF Avisable
  <2> QED BY <2>1, <2>2
<1> QED BY <1>3, <1>4, <1>5

\* No thread begins or ends, and none begins to wait.
LEMMA EsperadosIgual ==
    ASSUME JInv, Esperados, MismosPunteros, UNCHANGED enMemoria,
           dumps' \subseteq dumps, ToSet(dispositivoIO') \subseteq ToSet(dispositivoIO),
           cp'.pc = "avisando" => UNCHANGED cp
    PROVE  Esperados'
<1>1. \A t \in Hilos : Activo(t)' => Activo(t)
  BY DEF Activo
<1>2. \A t \in Hilos : tcb'[t].hiloBloqueadoPorJoin
                          \in {tcb[t].hiloBloqueadoPorJoin, NULO} \cup {}
  BY DEF MismosPunteros
<1>3. /\ dumps' \subseteq dumps \cup {}
      /\ ToSet(dispositivoIO') \subseteq ToSet(dispositivoIO) \cup {}
  OBVIOUS
<1>4. \A x \in enMemoria : x \in enMemoria' \/ (cp.pc = "ejecutando" /\ x = hiloEnExec)
  OBVIOUS
<1> QED BY <1>1, <1>2, <1>3, <1>4, EsperadosPaso

\* A thread begins.
LEMMA EsperadosNace ==
    ASSUME JInv, Esperados, NEW h \in Hilos, NEW prio \in Prioridades, crear_tcb(h, prio),
           UNCHANGED varsExternas, cp'.pc = "avisando" => UNCHANGED cp
    PROVE  Esperados'
<1>1. TypeOK
  BY DEF JInv, IInv
<1>2. /\ SoloDe(h, tcb, tcb') /\ tcb'[h].hiloBloqueadoPorJoin = NULO
      /\ enMemoria' = enMemoria \cup {h}
  BY <1>1, CrearTcbHecho DEF crear_tcb, notificar_a_memoria_creacion_hilo
<1>3. \A t \in Hilos : tcb'[t].hiloBloqueadoPorJoin
                          \in {tcb[t].hiloBloqueadoPorJoin, NULO} \cup {}
  BY <1>2 DEF SoloDe
<1>4. \A t \in Hilos : Activo(t)' => Activo(t) \/ tcb'[t].hiloBloqueadoPorJoin = NULO
  BY <1>2 DEF Activo
<1>5. /\ dumps' \subseteq dumps \cup {}
      /\ ToSet(dispositivoIO') \subseteq ToSet(dispositivoIO) \cup {}
  BY DEF varsExternas
<1>6. \A x \in enMemoria : x \in enMemoria' \/ (cp.pc = "ejecutando" /\ x = hiloEnExec)
  BY <1>2
<1> QED BY <1>3, <1>4, <1>5, <1>6, EsperadosPaso

\* The thread that runs ends: nobody is going to wake it up.
LEMMA EsperadosSale ==
    ASSUME JInv, Esperados, cp.pc = "ejecutando", NEW o \in {"salir", "mutex"},
           finalizar_hilo(hiloEnExec, o, 0), UNCHANGED varsExternas
    PROVE  Esperados'
<1> DEFINE h == hiloEnExec
<1>1. TypeOK /\ h \in Hilos /\ h \in enMemoria
  BY ElQueCorre DEF JInv, IInv
<1>2. /\ SoloDe(h, tcb, tcb') /\ MismaEspera(h, tcb, tcb') /\ enMemoria' = enMemoria \ {h}
      /\ cp' = [pc |-> "avisando", hilo |-> h, origen |-> o, i |-> 0]
  <2>1. 0 \in 0 .. CantHilos
    BY CotasPositivas
  <2> QED BY <1>1, <2>1, FinalizarHecho
<1>3. \A t \in Hilos : tcb'[t].hiloBloqueadoPorJoin
                          \in {tcb[t].hiloBloqueadoPorJoin, NULO} \cup {}
  BY <1>2 DEF SoloDe, MismaEspera
<1>4. \A t \in Hilos : Activo(t)' => Activo(t)
  BY <1>1, <1>2 DEF Activo
<1>5. /\ dumps' \subseteq dumps \cup {}
      /\ ToSet(dispositivoIO') \subseteq ToSet(dispositivoIO) \cup {}
  BY DEF varsExternas
<1>6. \A x \in enMemoria : x \in enMemoria' \/ (cp.pc = "ejecutando" /\ x = h)
  BY <1>2
<1> QED BY <1>3, <1>4, <1>5, <1>6, EsperadosPaso

LEMMA PunterosSi ==
    ASSUME NEW h \in Hilos, SoloDe(h, tcb, tcb'),
           tcb'[h].hiloBloqueadoPorJoin = tcb[h].hiloBloqueadoPorJoin
    PROVE  MismosPunteros
BY DEF SoloDe, MismosPunteros

LEMMA EsperadosCortoPlazo == JInv /\ Esperados /\ CortoPlazo => Esperados'
<1> SUFFICES ASSUME JInv, Esperados, CortoPlazo PROVE Esperados'
  OBVIOUS
<1>1. TypeOK /\ IInv /\ UNCHANGED <<enMemoria, dumps, dispositivoIO>> /\ cp.pc = "elegir"
  BY DEF JInv, IInv, CortoPlazo, ElegirHilo, ElegirSinHilos, ContinuarHilo, En, varsExit,
         varsExternas
<1>2. ASSUME NEW h \in Hilos, ejecutar_hilo(h) PROVE Esperados'
  <2>1. CASE Despachable(h)
    <3>1. MismosPunteros
      BY <1>1, <1>2, <2>1, EjecutarHecho, PunterosSi DEF MismaEspera
    <3>2. cp'.pc = "ejecutando"
      BY <1>1, <1>2, <2>1, EjecutarHecho DEF TypeOK, Controles
    <3> QED BY <1>1, <3>1, <3>2, EsperadosIgual
  <2>2. CASE ~Despachable(h)
    BY <1>1, <1>2, <2>2, EsperadosIgual DEF ejecutar_hilo, MismosPunteros
  <2> QED BY <2>1, <2>2
<1>3. CASE ElegirHilo
  <2>1. PICK i \in Elegidos : ejecutar_hilo(hilosEnReady[i])
    BY <1>3 DEF ElegirHilo
  <2> QED BY <1>1, <1>2, <2>1, ElegidosEstan
<1>4. CASE ElegirSinHilos
  BY <1>1, <1>4, EsperadosIgual DEF ElegirSinHilos, MismosPunteros, varsCP
<1>5. CASE ContinuarHilo
  <2>1. hiloEnExec \in Hilos /\ ejecutar_hilo(hiloEnExec)
    BY <1>1, <1>5 DEF ContinuarHilo, En, EnMano, IInv, Control
  <2> QED BY <1>2, <2>1
<1> QED BY <1>3, <1>4, <1>5 DEF CortoPlazo

LEMMA EsperadosFinalizacion ==
    JInv /\ Esperados /\ (DespertarPorJoin \/ LiberarRecursosMutex) => Esperados'
<1> SUFFICES ASSUME JInv, Esperados, DespertarPorJoin \/ LiberarRecursosMutex
             PROVE  Esperados'
  OBVIOUS
<1>1. /\ TypeOK /\ cp \in Controles
      /\ UNCHANGED <<enMemoria, dumps, dispositivoIO>> /\ cp.hilo \in Hilos
  BY DEF JInv, IInv, TypeOK, Control, EnFinalizacion, DespertarPorJoin,
         LiberarRecursosMutex, En, varsExit, varsExternas
<1>2. CASE DespertarPorJoin
  <2>1. MismosPunteros /\ (cp'.pc = "avisando" => UNCHANGED cp)
    <3>1. CASE UNCHANGED tcb
      <4>1. cp' = [cp EXCEPT !.pc = "recursos"] \/ UNCHANGED cp
        BY <1>1, <1>2, DespertarHecho
      <4> QED BY <1>1, <3>1, <4>1 DEF MismosPunteros, Controles
    <3>2. ASSUME NEW h \in Hilos, SoloDe(h, tcb, tcb'),
                 tcb'[h].hiloBloqueadoPorJoin = tcb[h].hiloBloqueadoPorJoin,
                 cp' = [cp EXCEPT !.pc = "recursos"]
          PROVE  MismosPunteros /\ (cp'.pc = "avisando" => UNCHANGED cp)
      BY <1>1, <3>2, PunterosSi DEF Controles
    <3> QED BY <1>1, <1>2, <3>1, <3>2, DespertarHecho
  <2> QED BY <1>1, <2>1, EsperadosIgual
<1>3. CASE LiberarRecursosMutex
  <2>1. MismosPunteros
    BY <1>1, <1>3, LiberarHecho DEF MismosPunteros
  <2>2. cp'.pc \in {"eliminar", "elegir"}
    BY <1>1, <1>3, SeguirHecho, DesalojarHecho DEF LiberarRecursosMutex, Controles
  <2> QED BY <1>1, <2>1, <2>2, EsperadosIgual
<1> QED BY <1>2, <1>3

LEMMA EsperadosAlrededor == JInv /\ Esperados /\ Alrededor => Esperados'
<1> SUFFICES ASSUME JInv, Esperados, Alrededor PROVE Esperados'
  OBVIOUS
<1>1. TypeOK /\ IInv /\ UNCHANGED enMemoria
  BY DEF JInv, IInv, Alrededor, FinalizadorDeHilos, AtenderIO, DumpTerminado, DumpFallido,
         varsExit
<1>2. CASE FinalizadorDeHilos
  <2>1. /\ liberar_tcb(Head(hilosEnExit)) /\ semHiloEnExit > 0
        /\ UNCHANGED <<dumps, dispositivoIO, cp>>
    BY <1>2 DEF FinalizadorDeHilos, varsExternas, varsCP
  <2>2. Head(hilosEnExit) \in Hilos
    <3>1. Len(hilosEnExit) > 0 /\ hilosEnExit \in Seq(Hilos)
      BY <1>1, <2>1 DEF IInv, Salida, SinPost, TypeOK
    <3> QED BY <3>1
  <2>3. MismosPunteros
    BY <1>1, <2>1, <2>2, LiberarTcbHecho, PunterosSi DEF MismaEspera
  <2> QED BY <1>1, <2>1, <2>3, EsperadosIgual
<1>3. CASE AtenderIO
  <2>1. UNCHANGED <<dumps, cp>> /\ dispositivoIO # <<>> /\ dispositivoIO' = Tail(dispositivoIO)
    BY <1>3 DEF AtenderIO, varsCP
  <2>2. ToSet(dispositivoIO') \subseteq ToSet(dispositivoIO)
    BY <1>1, <2>1, EfectoTail DEF TypeOK
  <2>3. MismosPunteros
    BY <1>1, <1>3, AtenderIOHecho, PunterosSi
  <2> QED BY <1>1, <2>1, <2>2, <2>3, EsperadosIgual
<1>4. ASSUME NEW h \in Hilos, DumpTerminado(h) PROVE Esperados'
  <2>1. /\ dumps' \subseteq dumps /\ UNCHANGED <<dispositivoIO, cp>>
    BY <1>4 DEF DumpTerminado, varsCP
  <2>2. MismosPunteros
    <3>1. UNCHANGED tcb \/ (SoloDe(h, tcb, tcb') /\ MismaEspera(h, tcb, tcb'))
      BY <1>1, <1>4, DumpTerminadoHecho
    <3> QED BY <3>1, PunterosSi DEF MismosPunteros, MismaEspera
  <2> QED BY <1>1, <2>1, <2>2, EsperadosIgual
<1>5. ASSUME NEW h \in Hilos, DumpFallido(h) PROVE Esperados'
  <2>1. /\ dumps' \subseteq dumps /\ UNCHANGED <<dispositivoIO, tcb>>
        /\ cp' = [cp EXCEPT !.pc = "colgado"]
    BY <1>5 DEF DumpFallido
  <2>2. cp'.pc = "colgado"
    BY <1>1, <2>1 DEF TypeOK, Controles
  <2> QED BY <1>1, <2>1, <2>2, EsperadosIgual DEF MismosPunteros
<1> QED BY <1>2, <1>3, <1>4, <1>5 DEF Alrededor

LEMMA EsperadosSystemCall ==
    ASSUME JInv, Esperados, SystemCall, Syscalls \cap Bajas = {}
    PROVE  Esperados'
<1>1. /\ TypeOK /\ cp.pc = "ejecutando" /\ hiloEnExec \in Hilos /\ PidEnExec \in Pids
      /\ \A t \in Hilos : ~Apunta(t, hiloEnExec)
  <2>1. cp.pc = "ejecutando"
    BY DEF SystemCall, PROCESS_CREATE, PROCESS_EXIT, THREAD_CREATE, THREAD_EXIT, THREAD_JOIN,
           THREAD_CANCEL, SinEseHilo, MUTEX_CREATE, MUTEX_LOCK, MUTEX_UNLOCK, IO,
           DUMP_MEMORY, SEGMENTATION_FAULT, FIN_DE_QUANTUM, Pide, En
  <2> QED BY <2>1, ElQueCorre DEF JInv, IInv
<1>2. ~THREAD_CANCEL /\ ~PROCESS_EXIT /\ ~SEGMENTATION_FAULT
  BY DEF THREAD_CANCEL, PROCESS_EXIT, SEGMENTATION_FAULT, Pide, Bajas
<1>3. ASSUME Seguir \/ Desalojar PROVE cp'.pc = "elegir"
  BY <1>1, <1>3, SeguirHecho, DesalojarHecho
<1>4. ASSUME Seguir \/ Desalojar, MismosPunteros, UNCHANGED <<enMemoria, dumps, dispositivoIO>>
      PROVE  Esperados'
  BY <1>3, <1>4, EsperadosIgual
<1>5. CASE PROCESS_CREATE \/ SinEseHilo \/ MUTEX_CREATE
  BY <1>4, <1>5
     DEF PROCESS_CREATE, SinEseHilo, MUTEX_CREATE, varsExit, varsExternas, MismosPunteros
<1>6. CASE THREAD_CREATE
  <2>1. \E prio \in Prioridades : crear_tcb(<<PidEnExec, siguienteTid[PidEnExec]>>, prio)
    BY <1>6 DEF THREAD_CREATE
  <2>2. <<PidEnExec, siguienteTid[PidEnExec]>> \in Hilos
    BY <1>1, <1>6, CotasPositivas DEF THREAD_CREATE, TypeOK, Hilos, Tids
  <2>3. Seguir /\ UNCHANGED varsExternas
    BY <1>6 DEF THREAD_CREATE
  <2> QED BY <1>3, <2>1, <2>2, <2>3, EsperadosNace
<1>7. CASE THREAD_EXIT
  BY <1>1, <1>7, EsperadosSale DEF THREAD_EXIT
<1>8. CASE THREAD_JOIN
  <2>1. \A t \in Hilos : tcb'[t].hiloBloqueadoPorJoin
                            \in {tcb[t].hiloBloqueadoPorJoin, NULO} \cup {hiloEnExec}
    BY <1>1, <1>8, JoinHecho
  <2>2. Desalojar /\ UNCHANGED <<enMemoria, dumps, dispositivoIO>>
    BY <1>8 DEF THREAD_JOIN, varsExit, varsExternas
  <2>3. \A t \in Hilos : Activo(t)' => Activo(t)
    BY <1>3, <2>2 DEF Activo
  <2>4. /\ enMemoria \subseteq enMemoria' /\ dumps' \subseteq dumps \cup {hiloEnExec}
        /\ ToSet(dispositivoIO') \subseteq ToSet(dispositivoIO) \cup {hiloEnExec}
        /\ \A x \in enMemoria : x \in enMemoria' \/ (cp.pc = "ejecutando" /\ x = hiloEnExec)
    BY <2>2
  <2> DEFINE S == {hiloEnExec}
  <2> HIDE DEF S
  <2>5. S = {} \/ (cp.pc = "ejecutando" /\ S = {hiloEnExec} /\ enMemoria \subseteq enMemoria')
    BY <1>1, <2>4 DEF S
  <2>6. /\ \A t \in Hilos : tcb'[t].hiloBloqueadoPorJoin
                               \in {tcb[t].hiloBloqueadoPorJoin, NULO} \cup S
        /\ dumps' \subseteq dumps \cup S
        /\ ToSet(dispositivoIO') \subseteq ToSet(dispositivoIO) \cup S
    BY <2>1, <2>4 DEF S
  <2> QED BY <2>3, <2>4, <2>5, <2>6, EsperadosPaso
<1>9. CASE IO \/ DUMP_MEMORY
  <2>1. /\ Desalojar /\ UNCHANGED enMemoria
        /\ dumps' \subseteq dumps \cup {hiloEnExec}
        /\ dispositivoIO' = dispositivoIO \/ dispositivoIO' = Append(dispositivoIO, hiloEnExec)
    BY <1>9 DEF IO, DUMP_MEMORY, varsExit
  <2>2. MismosPunteros
    BY <1>1, <1>9, IOHecho, DumpHecho, PunterosSi DEF MismaEspera
  <2>3. \A t \in Hilos : Activo(t)' => Activo(t)
    BY <1>3, <2>1 DEF Activo
  <2>4. ToSet(dispositivoIO') \subseteq ToSet(dispositivoIO) \cup {hiloEnExec}
    <3>1. dispositivoIO \in Seq(Hilos)
      BY <1>1 DEF TypeOK
    <3>2. ToSet(Append(dispositivoIO, hiloEnExec)) = ToSet(dispositivoIO) \cup {hiloEnExec}
      BY <1>1, <3>1, EfectoAppend
    <3>3. CASE dispositivoIO' = dispositivoIO
      BY <3>3
    <3>4. CASE dispositivoIO' = Append(dispositivoIO, hiloEnExec)
      BY <3>2, <3>4
    <3> QED BY <2>1, <3>3, <3>4
  <2> DEFINE S == {hiloEnExec}
  <2> HIDE DEF S
  <2>5. S = {} \/ (cp.pc = "ejecutando" /\ S = {hiloEnExec} /\ enMemoria \subseteq enMemoria')
    BY <1>1, <2>1 DEF S
  <2>6. /\ \A t \in Hilos : tcb'[t].hiloBloqueadoPorJoin
                               \in {tcb[t].hiloBloqueadoPorJoin, NULO} \cup S
        /\ dumps' \subseteq dumps \cup S
        /\ ToSet(dispositivoIO') \subseteq ToSet(dispositivoIO) \cup S
        /\ \A x \in enMemoria : x \in enMemoria' \/ (cp.pc = "ejecutando" /\ x = hiloEnExec)
    BY <2>1, <2>2, <2>4 DEF S, MismosPunteros
  <2> QED BY <2>3, <2>5, <2>6, EsperadosPaso
<1>10. CASE FIN_DE_QUANTUM
  <2>1. /\ transicion_a_ready(hiloEnExec, tcb, PuedeIrAReady(hiloEnExec)) /\ Desalojar
        /\ UNCHANGED <<enMemoria, dumps, dispositivoIO>>
    BY <1>10 DEF FIN_DE_QUANTUM, varsExit, varsExternas
  <2>2. PuedeIrAReady(hiloEnExec) \in BOOLEAN /\ tcb \in [Hilos -> Tcbs]
    BY <1>1 DEF PuedeIrAReady, TypeOK
  <2>3. MismosPunteros
    BY <1>1, <2>1, <2>2, Transicion, PunterosSi DEF MismaEspera
  <2> QED BY <1>4, <2>1, <2>3
<1>11. CASE MUTEX_LOCK
  <2>1. PICK r \in Recursos :
          \/ /\ LockLibre(<<PidEnExec, r>>) \/ LockTomado(<<PidEnExec, r>>)
             /\ UNCHANGED varsExit
          \/ finalizar_hilo(hiloEnExec, "mutex", 0)
    BY <1>11 DEF MUTEX_LOCK
  <2>2. <<PidEnExec, r>> \in Mutexes /\ UNCHANGED varsExternas
    BY <1>1, <1>11 DEF Mutexes, MUTEX_LOCK
  <2>3. CASE LockLibre(<<PidEnExec, r>>) /\ UNCHANGED varsExit
    BY <1>4, <2>2, <2>3 DEF LockLibre, MismosPunteros, varsExit, varsExternas
  <2>4. CASE LockTomado(<<PidEnExec, r>>) /\ UNCHANGED varsExit
    <3>1. MismosPunteros
      BY <1>1, <2>2, <2>4, LockTomadoHecho, PunterosSi
    <3> QED BY <1>4, <2>2, <2>4, <3>1 DEF LockTomado, varsExit, varsExternas
  <2>5. CASE finalizar_hilo(hiloEnExec, "mutex", 0)
    BY <1>1, <2>2, <2>5, EsperadosSale
  <2> QED BY <2>1, <2>3, <2>4, <2>5
<1>12. CASE MUTEX_UNLOCK
  <2>1. PICK r \in Recursos :
          \/ /\ UnlockSinEspera(<<PidEnExec, r>>) \/ UnlockConEspera(<<PidEnExec, r>>)
             /\ Seguir /\ UNCHANGED varsExit
          \/ finalizar_hilo(hiloEnExec, "mutex", 0)
    BY <1>12 DEF MUTEX_UNLOCK, UnlockAjeno
  <2>2. <<PidEnExec, r>> \in Mutexes /\ UNCHANGED varsExternas
    BY <1>1, <1>12 DEF Mutexes, MUTEX_UNLOCK
  <2>3. CASE UnlockSinEspera(<<PidEnExec, r>>) /\ Seguir /\ UNCHANGED varsExit
    BY <1>4, <2>2, <2>3 DEF UnlockSinEspera, MismosPunteros, varsExit, varsExternas
  <2>4. CASE UnlockConEspera(<<PidEnExec, r>>) /\ Seguir /\ UNCHANGED varsExit
    <3>1. MismosPunteros
      BY <1>1, <2>2, <2>4, UnlockHecho, PunterosSi
    <3> QED BY <1>4, <2>2, <2>4, <3>1 DEF varsExit, varsExternas
  <2>5. CASE finalizar_hilo(hiloEnExec, "mutex", 0)
    BY <1>1, <2>2, <2>5, EsperadosSale
  <2> QED BY <2>1, <2>3, <2>4, <2>5
<1> QED
  BY <1>2, <1>5, <1>6, <1>7, <1>8, <1>9, <1>10, <1>11, <1>12 DEF SystemCall

LEMMA EsperadosInductivo ==
    ASSUME JInv, Esperados, [Next]_vars, Syscalls \cap Bajas = {}
    PROVE  Esperados'
<1>1. TypeOK /\ SinBajas
  BY DEF JInv, IInv
<1>2. CASE LargoPlazo
  <2>1. PICK p \in Pids : AdmitirProceso(p)
    BY <1>2 DEF LargoPlazo
  <2>2. PICK prio \in Prioridades : crear_tcb(<<p, 0>>, prio)
    BY <2>1, PrioridadesNat DEF AdmitirProceso
  <2>3. <<p, 0>> \in Hilos /\ UNCHANGED cp /\ UNCHANGED varsExternas
    BY <2>1, CotasPositivas DEF AdmitirProceso, Hilos, Tids, varsCP
  <2> QED BY <2>2, <2>3, EsperadosNace
<1>3. CASE Finalizacion
  <2>1. DespertarPorJoin \/ LiberarRecursosMutex
    BY <1>1, <1>3 DEF Finalizacion, EliminarDeColas, IterarProceso, LiberarProceso, En, SinBajas
  <2> QED BY <2>1, EsperadosFinalizacion
<1>4. CASE UNCHANGED vars
  BY <1>4, EsperadosIgual DEF vars, MismosPunteros
<1> QED
  BY <1>2, <1>3, <1>4, EsperadosCortoPlazo, EsperadosSystemCall, EsperadosAlrededor DEF Next

\* A thread that the memory knows is of a process that runs.
LEMMA EnMemoriaVive ==
    ASSUME JInv, SinLiberados, NEW h \in enMemoria
    PROVE  h \in Hilos /\ Vivo(h) /\ Despachable(h)
<1>1. h \in Hilos /\ h[1] \in Pids /\ h[2] \in Tids
  BY PartesDeHilo DEF JInv, IInv, TypeOK
<1>2. h[2] < siguienteTid[h[1]]
  BY <1>1 DEF JInv, Hilado, Creados, Referido, Creado
<1>3. pcb[h[1]] \notin {"no", "new"}
  BY <1>1, <1>2, CotasPositivas DEF JInv, IInv, Listas, Tids
<1>4. pcb[h[1]] = "vivo"
  BY <1>1, <1>3 DEF JInv, IInv, TypeOK, SinLiberados
<1> QED BY <1>1, <1>4 DEF Vivo, Despachable

LEMMA SinLiberadosInductivo ==
    ASSUME JInv, SinBajas, SinLiberados, [Next]_vars
    PROVE  SinLiberados'
<1>1. pcb \in [Pids -> {"no", "new", "vivo", "liberado"}]
  BY DEF JInv, IInv, TypeOK
<1>2. ASSUME NEW p \in Pids, NEW v \in {"new", "vivo"}, pcb' = [pcb EXCEPT ![p] = v]
      PROVE  SinLiberados'
  BY <1>1, <1>2 DEF SinLiberados
<1>3. CASE UNCHANGED pcb
  BY <1>3 DEF SinLiberados
<1>4. CASE LargoPlazo
  BY <1>2, <1>4 DEF LargoPlazo, AdmitirProceso
<1>5. CASE CortoPlazo
  BY <1>3, <1>5 DEF CortoPlazo, ElegirHilo, ElegirSinHilos, ContinuarHilo, varsProceso
<1>6. CASE Finalizacion
  BY <1>3, <1>6 DEF Finalizacion, DespertarPorJoin, LiberarRecursosMutex, EliminarDeColas,
                    IterarProceso, LiberarProceso, En, SinBajas, varsProceso
<1>7. CASE PROCESS_CREATE
  BY <1>2, <1>7 DEF PROCESS_CREATE
<1>8. CASE SystemCall /\ ~PROCESS_CREATE
  <2>1. UNCHANGED pcb
    BY <1>8 DEF SystemCall, PROCESS_EXIT, THREAD_CREATE, THREAD_EXIT, THREAD_JOIN,
                THREAD_CANCEL, SinEseHilo, MUTEX_CREATE, MUTEX_LOCK, MUTEX_UNLOCK, IO,
                DUMP_MEMORY, SEGMENTATION_FAULT, FIN_DE_QUANTUM, varsProceso
  <2> QED BY <1>3, <2>1
<1>9. CASE Alrededor
  BY <1>3, <1>9 DEF Alrededor, FinalizadorDeHilos, AtenderIO, DumpTerminado, DumpFallido,
                    varsProceso
<1>10. CASE UNCHANGED vars
  BY <1>3, <1>10 DEF vars
<1> QED BY <1>4, <1>5, <1>6, <1>7, <1>8, <1>9, <1>10 DEF Next

LEMMA SigueVivoInductivo ==
    ASSUME JInv, SinBajas, SigueVivo, [Next]_vars, Syscalls \cap Bajas = {}
    PROVE  SigueVivo'
<1>1. TypeOK /\ IInv /\ cp \in Controles
  BY DEF JInv, IInv, TypeOK
<1>2. CASE UNCHANGED varsCP /\ enMemoria \subseteq enMemoria'
  BY <1>2 DEF SigueVivo, varsCP
<1>3. CASE Desalojar
  BY <1>1, <1>3, DesalojarHecho DEF SigueVivo
<1>4. CASE cp.pc = "ejecutando" /\ UNCHANGED hiloEnExec /\ enMemoria \subseteq enMemoria'
  BY <1>4, ElQueCorre DEF SigueVivo
<1>5. CASE cp'.pc # "elegir"
  BY <1>5 DEF SigueVivo
<1>6. ASSUME NEW pc \in {"ejecutando", "recursos", "colgado"}, cp' = [cp EXCEPT !.pc = pc]
      PROVE  SigueVivo'
  BY <1>1, <1>5, <1>6 DEF Controles
<1>7. ASSUME NEW o, finalizar_hilo(hiloEnExec, o, 0) PROVE SigueVivo'
  BY <1>5, <1>7 DEF finalizar_hilo
<1>8. CASE LargoPlazo
  BY <1>2, <1>8
     DEF LargoPlazo, AdmitirProceso, crear_tcb, notificar_a_memoria_creacion_hilo
<1>9. CASE CortoPlazo
  <2>1. ASSUME NEW h, ejecutar_hilo(h), UNCHANGED varsExit, UNCHANGED replanificar
        PROVE  SigueVivo'
    <3>1. \/ cp' = [cp EXCEPT !.pc = "ejecutando"]
          \/ UNCHANGED varsCP
      BY <2>1 DEF ejecutar_hilo, varsCP
    <3> QED BY <1>2, <1>6, <2>1, <3>1 DEF varsExit
  <2> QED BY <1>2, <1>9, <2>1
         DEF CortoPlazo, ElegirHilo, ElegirSinHilos, ContinuarHilo, varsExit
<1>10. CASE Finalizacion
  <2>1. CASE DespertarPorJoin
    <3>1. cp' = [cp EXCEPT !.pc = "recursos"] \/ cp' = cp
      BY <2>1 DEF DespertarPorJoin
    <3>2. cp.pc = "avisando"
      BY <2>1 DEF DespertarPorJoin, En
    <3> QED BY <1>5, <1>6, <3>1, <3>2
  <2>2. CASE LiberarRecursosMutex
    <3>1. Desalojar \/ (Seguir /\ cp.origen = "mutex")
      BY <2>2 DEF LiberarRecursosMutex, SinBajas
    <3> QED BY <1>1, <1>3, <3>1, SeguirHecho DEF SigueVivo
  <2>3. ~EliminarDeColas /\ ~IterarProceso /\ ~LiberarProceso
    BY DEF EliminarDeColas, IterarProceso, LiberarProceso, En, SinBajas
  <2> QED BY <1>10, <2>1, <2>2, <2>3 DEF Finalizacion
<1>11. CASE SystemCall
  <2>1. cp.pc = "ejecutando"
    BY <1>11 DEF SystemCall, PROCESS_CREATE, PROCESS_EXIT, THREAD_CREATE, THREAD_EXIT,
       THREAD_JOIN, THREAD_CANCEL, SinEseHilo, MUTEX_CREATE, MUTEX_LOCK, MUTEX_UNLOCK, IO,
       DUMP_MEMORY, SEGMENTATION_FAULT, FIN_DE_QUANTUM, Pide, En
  <2>2. ~THREAD_CANCEL /\ ~PROCESS_EXIT /\ ~SEGMENTATION_FAULT
    BY DEF THREAD_CANCEL, PROCESS_EXIT, SEGMENTATION_FAULT, Pide, Bajas
  <2>3. CASE PROCESS_CREATE \/ SinEseHilo \/ MUTEX_CREATE \/ THREAD_CREATE
    <3>1. UNCHANGED hiloEnExec /\ enMemoria \subseteq enMemoria'
      BY <2>3 DEF PROCESS_CREATE, SinEseHilo, MUTEX_CREATE, THREAD_CREATE, crear_tcb,
                  notificar_a_memoria_creacion_hilo, varsExit
    <3> QED BY <1>4, <2>1, <3>1
  <2>4. CASE THREAD_JOIN \/ IO \/ DUMP_MEMORY \/ FIN_DE_QUANTUM
    BY <1>3, <2>4 DEF THREAD_JOIN, IO, DUMP_MEMORY, FIN_DE_QUANTUM
  <2>5. CASE THREAD_EXIT
    BY <1>7, <2>5 DEF THREAD_EXIT
  <2>6. CASE MUTEX_LOCK
    <3>1. \/ finalizar_hilo(hiloEnExec, "mutex", 0)
          \/ UNCHANGED hiloEnExec /\ UNCHANGED varsExit
      BY <2>6 DEF MUTEX_LOCK
    <3> QED BY <1>4, <1>7, <2>1, <3>1 DEF varsExit
  <2>7. CASE MUTEX_UNLOCK
    <3>1. \/ finalizar_hilo(hiloEnExec, "mutex", 0)
          \/ UNCHANGED hiloEnExec /\ UNCHANGED varsExit
      BY <2>7 DEF MUTEX_UNLOCK, UnlockAjeno
    <3> QED BY <1>4, <1>7, <2>1, <3>1 DEF varsExit
  <2> QED BY <1>11, <2>2, <2>3, <2>4, <2>5, <2>6, <2>7 DEF SystemCall
<1>12. CASE Alrededor
  <2>1. ASSUME NEW h \in Hilos, DumpFallido(h) PROVE SigueVivo'
    BY <1>6, <2>1 DEF DumpFallido
  <2>2. FinalizadorDeHilos \/ AtenderIO \/ (\E h \in Hilos : DumpTerminado(h)) => SigueVivo'
    BY <1>2 DEF FinalizadorDeHilos, AtenderIO, DumpTerminado, varsExit
  <2> QED BY <1>12, <2>1, <2>2 DEF Alrededor
<1>13. CASE UNCHANGED vars
  BY <1>2, <1>13 DEF vars, varsCP
<1> QED BY <1>8, <1>9, <1>10, <1>11, <1>12, <1>13 DEF Next

LEMMA SInvInductivo ==
    ASSUME Syscalls \cap Bajas = {}, SInv, [Next]_vars
    PROVE  SInv'
<1>1. SinMezcla /\ SinBajas /\ IInv
  BY DEF SinMezcla, SInv, JInv
<1>2. JInv'
  BY <1>1, JInvInductivo DEF SInv
<1>3. Esperados' /\ SigueVivo' /\ SinLiberados'
  BY <1>1, EsperadosInductivo, SigueVivoInductivo, SinLiberadosInductivo DEF SInv
<1>4. ~EliminarDeColas
  BY <1>1 DEF SinBajas, EliminarDeColas, En
<1>5. Sobran' = 0
  BY <1>1, <1>4, Fichas DEF SInv
<1> QED BY <1>2, <1>3, <1>5 DEF SInv

LEMMA InicioSInv == Init => SInv
<1> SUFFICES ASSUME Init PROVE SInv
  OBVIOUS
<1>1. JInv
  BY InicioJInv
<1>2. /\ dumps = {} /\ dispositivoIO = <<>> /\ enMemoria = {} /\ replanificar = TRUE
      /\ hilosEnReady = <<>> /\ semHiloEnReady = 0
      /\ cp = [pc |-> "elegir", hilo |-> NULO, origen |-> "", i |-> 0]
      /\ \A p \in Pids : pcb[p] # "liberado"
  BY DEF Init
<1>3. ToSet(<<>>) = {} /\ \A t \in Hilos : ~Activo(t)
  <2>1. cp.pc = "elegir" /\ enMemoria = {}
    BY <1>2
  <2>2. ToSet(<<>>) = {}
    BY DEF ToSet
  <2> QED BY <2>1, <2>2 DEF Activo
<1>4. Esperados
  BY <1>2, <1>3 DEF Esperados, Avisable, Apunta
<1>5. SigueVivo /\ SinLiberados
  BY <1>2 DEF SigueVivo, SinLiberados
<1>6. Sobran = 0
  <2>1. Len(hilosEnReady) = 0 /\ semHiloEnReady = 0
    BY <1>2
  <2>2. semHiloEnReady - Len(hilosEnReady) = 0
    BY <2>1, SMT
  <2> QED BY <2>2 DEF Sobran
<1> QED BY <1>1, <1>4, <1>5, <1>6 DEF SInv

\* The step that kills the kernel or the memory.
LEMMA Cae ==
    ASSUME Syscalls \cap Bajas = {}, SInv, [Next]_vars, caida', ~caida
    PROVE  /\ cp.pc = "elegir"
           /\ IF replanificar THEN \E h \in ToSet(hilosEnReady) : h \notin enMemoria
              ELSE cp.origen = "mutex" /\ hiloEnExec \notin enMemoria
<1>1. /\ JInv /\ IInv /\ TypeOK /\ SinBajas /\ Hilado
      /\ Esperados /\ SigueVivo /\ SinLiberados /\ Sobran = 0
  BY DEF SInv, JInv, IInv
<1>2. \A h \in enMemoria : h \in Hilos /\ Vivo(h) /\ Despachable(h) /\ EnSuLugar(h)
  BY <1>1, EnMemoriaVive DEF Hilado, Lugares
<1>3. ASSUME NEW h \in Hilos, ejecutar_hilo(h) PROVE h \notin enMemoria
  BY <1>2, <1>3 DEF ejecutar_hilo
<1>4. CASE ElegirHilo
  <2>1. PICK i \in Elegidos : ejecutar_hilo(hilosEnReady[i])
    BY <1>4 DEF ElegirHilo
  <2>2. i \in 1 .. Len(hilosEnReady) /\ hilosEnReady[i] \in Hilos
    BY <1>1, ElegidosEstan
  <2>3. hilosEnReady[i] \notin enMemoria
    BY <1>3, <2>1, <2>2
  <2>4. hilosEnReady[i] \in ToSet(hilosEnReady)
    BY <1>1, <2>2 DEF ToSet, TypeOK
  <2>5. cp.pc = "elegir" /\ replanificar
    BY <1>4 DEF ElegirHilo, En
  <2> QED BY <2>3, <2>4, <2>5
<1>5. ~ElegirSinHilos
  <2> SUFFICES ASSUME ElegirSinHilos PROVE FALSE
    OBVIOUS
  <2>1. hilosEnReady = <<>> /\ semHiloEnReady > 0
    BY DEF ElegirSinHilos
  <2>2. Len(hilosEnReady) = 0 /\ semHiloEnReady \in Nat
    BY <1>1, <2>1 DEF TypeOK
  <2> QED BY <1>1, <2>1, <2>2 DEF Sobran
<1>6. CASE ContinuarHilo
  <2>1. cp.pc = "elegir" /\ ~replanificar /\ ejecutar_hilo(hiloEnExec)
    BY <1>6 DEF ContinuarHilo, En
  <2>2. hiloEnExec \in Hilos
    BY <1>1, <2>1 DEF IInv, Control, EnMano
  <2>3. hiloEnExec \notin enMemoria
    BY <1>3, <2>1, <2>2
  <2>4. cp.origen = "mutex"
    BY <1>1, <2>1, <2>3 DEF SigueVivo
  <2> QED BY <2>1, <2>3, <2>4
<1>7. ~DespertarPorJoin
  <2> SUFFICES ASSUME DespertarPorJoin PROVE FALSE
    OBVIOUS
  <2> DEFINE h == tcb[cp.hilo].hiloBloqueadoPorJoin
  <2>1. cp.pc = "avisando" /\ h # NULO /\ hilosEnBlock[h] = 0
    BY DEF DespertarPorJoin, En
  <2>2. cp.hilo \in Hilos
    BY <1>1, <2>1 DEF IInv, Control, EnFinalizacion
  <2>3. h \in Hilos
    BY <1>1, <2>1, <2>2 DEF TypeOK, Tcbs, HiloONulo
  <2>4. Apunta(cp.hilo, h)
    BY <2>1 DEF Apunta, Activo
  <2> HIDE DEF h
  <2>5. h \in enMemoria
    BY <1>1, <2>2, <2>3, <2>4 DEF Esperados, Avisable
  <2>6. Vivo(h) /\ EnSuLugar(h)
    BY <1>2, <2>5
  <2>7. tcb[h].bloqueadoPorJoin
    BY <1>1, <2>2, <2>3, <2>4, <2>6 DEF Hilado, Joins
  <2>8. hilosEnBlock[h] > 0
    BY <2>6, <2>7 DEF EnSuLugar, PuedeIrAReady
  <2> QED BY <2>1, <2>8
<1>8. ~Finalizacion
  BY <1>1, <1>7 DEF Finalizacion, LiberarRecursosMutex, EliminarDeColas, IterarProceso,
                    LiberarProceso, En, SinBajas
<1>9. ~SystemCall
  <2>1. ~SEGMENTATION_FAULT
    BY DEF SEGMENTATION_FAULT, Pide, Bajas
  <2> QED BY <2>1 DEF SystemCall, PROCESS_CREATE, PROCESS_EXIT, THREAD_CREATE, THREAD_EXIT,
       THREAD_JOIN, THREAD_CANCEL, SinEseHilo, MUTEX_CREATE, MUTEX_LOCK, MUTEX_UNLOCK, IO,
       DUMP_MEMORY, FIN_DE_QUANTUM
<1>10. ~FinalizadorDeHilos
  <2> SUFFICES ASSUME FinalizadorDeHilos PROVE FALSE
    OBVIOUS
  <2> DEFINE h == Head(hilosEnExit)
  <2>1. semHiloEnExit > 0 /\ liberar_tcb(h)
    BY DEF FinalizadorDeHilos
  <2>2. hilosEnExit \in Seq(Hilos) /\ hilosEnExit # <<>>
    <3>1. Len(hilosEnExit) > 0 /\ hilosEnExit \in Seq(Hilos)
      BY <1>1, <2>1 DEF IInv, Salida, SinPost, TypeOK
    <3> QED BY <3>1
  <2>3. h \in Hilos /\ h \in ToSet(hilosEnExit)
    BY <2>2, EfectoTail
  <2> HIDE DEF h
  <2>4. tcb[h].estado # "LIBERADO"
    BY <1>1, <2>3 DEF Hilado, SeLiberaUnaVez
  <2>5. pcb[h[1]] # "liberado"
    BY <1>1, <2>3, PartesDeHilo DEF SinLiberados
  <2> QED BY <2>1, <2>4, <2>5 DEF liberar_tcb
<1>11. ASSUME NEW h \in Hilos, DumpTerminado(h) PROVE FALSE
  <2>1. h \in dumps /\ ~EnBlock(h)
    BY <1>11 DEF DumpTerminado
  <2>2. h \in enMemoria
    BY <1>1, <2>1 DEF Esperados, Avisable
  <2>3. Vivo(h) /\ EnSuLugar(h)
    BY <1>2, <2>2
  <2>4. tcb[h].estado = "BLOCKED" /\ hilosEnBlock[h] > 0
    BY <2>1, <2>3 DEF EnSuLugar
  <2> QED BY <2>1, <2>3, <2>4 DEF EnBlock, Vivo
<1>12. ~Alrededor
  BY <1>10, <1>11 DEF Alrededor, AtenderIO, DumpFallido
<1>13. ~LargoPlazo /\ ~UNCHANGED vars
  BY DEF LargoPlazo, AdmitirProceso, vars
<1>14. ElegirHilo \/ ContinuarHilo
  <2>1. Next
    BY <1>13
  <2> QED BY <1>5, <1>8, <1>9, <1>12, <1>13, <2>1 DEF Next, CortoPlazo
<1> QED BY <1>4, <1>6, <1>14

\* Where nobody cancels a thread and no process exits, nothing but the dispatch
\* of a finished thread kills the kernel or the memory: the scheduler never
\* finds Ready empty behind a token, finalizar_hilo always finds in Block the
\* thread that joined, and so does the answer of a dump; the reaper frees each
\* control block once.
THEOREM CaeSoloAlDespacharSinBajas ==
    ASSUME Syscalls \cap Bajas = {}
    PROVE  Spec => CaeSoloAlDespachar
<1>1. SInv /\ [Next]_vars => SInv'
  BY SInvInductivo
<1>2. SInv /\ [Next]_vars =>
         [caida' => \/ caida
                    \/ /\ cp.pc = "elegir"
                       /\ IF replanificar
                          THEN \E h \in ToSet(hilosEnReady) : h \notin enMemoria
                          ELSE cp.origen = "mutex" /\ hiloEnExec \notin enMemoria]_vars
  BY Cae
<1> QED BY <1>1, <1>2, InicioSInv, PTL DEF Spec, CaeSoloAlDespachar
-----------------------------------------------------------------------------
(* Where there are no mutexes either, it does not die.                     *)

\* No call on a mutex has failed, and whoever is in Ready is alive.
SinFallos ==
    /\ cp.origen # "mutex"
    /\ \A h \in ToSet(hilosEnReady) : h \in enMemoria

DeMutex == {"MUTEX_LOCK", "MUTEX_UNLOCK"}

LEMMA OrigenInductivo ==
    ASSUME Syscalls \cap (Bajas \cup DeMutex) = {}, SInv, cp.origen # "mutex", [Next]_vars
    PROVE  cp'.origen # "mutex"
<1>1. TypeOK /\ cp \in Controles /\ SinBajas
  BY DEF SInv, JInv, IInv, TypeOK
<1>2. ASSUME Seguir \/ Desalojar PROVE cp'.origen # "mutex"
  BY <1>1, <1>2, SeguirHecho, DesalojarHecho
<1>3. ASSUME NEW pc \in {"ejecutando", "recursos", "colgado"}, cp' = [cp EXCEPT !.pc = pc]
      PROVE  cp'.origen # "mutex"
  BY <1>1, <1>3 DEF Controles
<1>4. CASE UNCHANGED cp
  BY <1>4
<1>5. CASE LargoPlazo
  BY <1>4, <1>5 DEF LargoPlazo, AdmitirProceso, varsCP
<1>6. CASE CortoPlazo
  <2>1. UNCHANGED cp \/ cp' = [cp EXCEPT !.pc = "ejecutando"]
    BY <1>6 DEF CortoPlazo, ElegirHilo, ElegirSinHilos, ContinuarHilo, ejecutar_hilo, varsCP
  <2> QED BY <1>3, <1>4, <2>1
<1>7. CASE Finalizacion
  <2>1. DespertarPorJoin \/ LiberarRecursosMutex
    BY <1>1, <1>7 DEF Finalizacion, EliminarDeColas, IterarProceso, LiberarProceso, En, SinBajas
  <2>2. DespertarPorJoin => UNCHANGED cp \/ cp' = [cp EXCEPT !.pc = "recursos"]
    BY DEF DespertarPorJoin
  <2>3. LiberarRecursosMutex => Desalojar \/ Seguir
    BY <1>1 DEF LiberarRecursosMutex, SinBajas
  <2> QED BY <1>2, <1>3, <1>4, <2>1, <2>2, <2>3
<1>8. CASE SystemCall
  <2>1. /\ ~THREAD_CANCEL /\ ~PROCESS_EXIT /\ ~SEGMENTATION_FAULT
        /\ ~MUTEX_LOCK /\ ~MUTEX_UNLOCK
    BY DEF THREAD_CANCEL, PROCESS_EXIT, SEGMENTATION_FAULT, MUTEX_LOCK, MUTEX_UNLOCK, Pide,
           Bajas, DeMutex
  <2>2. PROCESS_CREATE \/ THREAD_CREATE \/ SinEseHilo \/ MUTEX_CREATE => Seguir
    BY DEF PROCESS_CREATE, THREAD_CREATE, SinEseHilo, MUTEX_CREATE
  <2>3. THREAD_JOIN \/ IO \/ DUMP_MEMORY \/ FIN_DE_QUANTUM => Desalojar
    BY DEF THREAD_JOIN, IO, DUMP_MEMORY, FIN_DE_QUANTUM
  <2>4. THREAD_EXIT => cp'.origen = "salir"
    BY DEF THREAD_EXIT, finalizar_hilo
  <2> QED BY <1>2, <1>8, <2>1, <2>2, <2>3, <2>4 DEF SystemCall
<1>9. CASE Alrededor
  <2>1. UNCHANGED cp \/ cp' = [cp EXCEPT !.pc = "colgado"]
    BY <1>9 DEF Alrededor, FinalizadorDeHilos, AtenderIO, DumpTerminado, DumpFallido, varsCP
  <2> QED BY <1>3, <1>4, <2>1
<1>10. CASE UNCHANGED vars
  BY <1>4, <1>10 DEF vars
<1> QED BY <1>5, <1>6, <1>7, <1>8, <1>9, <1>10 DEF Next

\* Where every mutex is free, none is inherited.
LEMMA SinHerencias ==
    ASSUME TypeOK, SinMutexes, NEW h \in Hilos
    PROVE  Revividos(h) = 0
<1>1. Heredados(h) = {}
  <2> SUFFICES ASSUME NEW m \in Mutexes, mutex[m].tomadoPor = h PROVE FALSE
    BY DEF Heredados
  <2> QED BY PartesDeHilo DEF SinMutexes
<1>2. Cardinality(Heredados(h)) = 0
  BY <1>1, FS_EmptySet
<1>3. hilosEnBlock[h] \in Nat
  BY DEF TypeOK
<1> QED BY <1>2, <1>3 DEF Revividos

LEMMA ListosInductivo ==
    ASSUME Syscalls \cap (Bajas \cup DeMutex) = {}, SInv, [Next]_vars,
           \A h \in ToSet(hilosEnReady) : h \in enMemoria
    PROVE  \A h \in ToSet(hilosEnReady') : h \in enMemoria'
<1> DEFINE Listos == \A h \in ToSet(hilosEnReady) : h \in enMemoria
<1> HIDE DEF Listos
<1>1. /\ JInv /\ IInv /\ TypeOK /\ SinBajas /\ Hilado /\ Esperados /\ Listos
      /\ hilosEnReady \in Seq(Hilos) /\ SinMutexes
  <2>1. "MUTEX_LOCK" \notin Syscalls
    BY DEF DeMutex
  <2> QED BY <2>1 DEF SInv, JInv, IInv, TypeOK, Hilado, Escasez, Listos
<1>2. CASE UNCHANGED hilosEnReady /\ enMemoria \subseteq enMemoria'
  BY <1>1, <1>2 DEF Listos
<1>3. ASSUME ToSet(hilosEnReady') \subseteq ToSet(hilosEnReady), enMemoria \subseteq enMemoria'
      PROVE  Listos'
  BY <1>1, <1>3 DEF Listos
\* A thread that is alive goes to Ready, if any does.
<1>4. ASSUME NEW h \in Hilos, h \in enMemoria', enMemoria \subseteq enMemoria',
             hilosEnReady' = hilosEnReady \/ hilosEnReady' = Append(hilosEnReady, h)
      PROVE  Listos'
  <2>1. ToSet(Append(hilosEnReady, h)) = ToSet(hilosEnReady) \cup {h}
    BY <1>1, EfectoAppend
  <2>2. ToSet(hilosEnReady') \subseteq ToSet(hilosEnReady) \cup {h}
    <3>1. CASE hilosEnReady' = hilosEnReady
      BY <3>1
    <3>2. CASE hilosEnReady' = Append(hilosEnReady, h)
      BY <2>1, <3>2
    <3> QED BY <1>4, <3>1, <3>2
  <2> QED BY <1>1, <1>4, <2>2 DEF Listos
<1>5. ASSUME NEW h \in Hilos, NEW prio, crear_tcb(h, prio), Encolar(h) PROVE Listos'
  <2>1. enMemoria' = enMemoria \cup {h} /\ hilosEnReady' = Append(hilosEnReady, h)
    BY <1>5 DEF crear_tcb, notificar_a_memoria_creacion_hilo, Encolar
  <2> QED BY <1>4, <2>1
<1>6. CASE LargoPlazo
  <2>1. PICK p \in Pids : AdmitirProceso(p)
    BY <1>6 DEF LargoPlazo
  <2>2. PICK prio \in (IF p = 0 THEN {0} ELSE Prioridades) : crear_tcb(<<p, 0>>, prio)
    BY <2>1 DEF AdmitirProceso
  <2>3. <<p, 0>> \in Hilos /\ Encolar(<<p, 0>>)
    BY <2>1, CotasPositivas DEF AdmitirProceso, Hilos, Tids
  <2>4. Listos'
    BY <1>5, <2>2, <2>3
  <2> QED BY <2>4 DEF Listos
<1>7. CASE CortoPlazo
  <2>1. UNCHANGED enMemoria
    BY <1>7 DEF CortoPlazo, ElegirHilo, ElegirSinHilos, ContinuarHilo, varsExit
  <2>2. ToSet(hilosEnReady') \subseteq ToSet(hilosEnReady)
    <3>1. CASE ElegirHilo
      <4>1. PICK i \in Elegidos : hilosEnReady' = RemoveAt(hilosEnReady, i)
        BY <3>1 DEF ElegirHilo
      <4>2. i \in 1 .. Len(hilosEnReady)
        BY <1>1, ElegidosEstan
      <4>3. ToSet(RemoveAt(hilosEnReady, i)) \subseteq ToSet(hilosEnReady)
        BY <1>1, <4>2, EfectoRemoveAt
      <4> QED BY <4>1, <4>3
    <3>2. CASE ElegirSinHilos \/ ContinuarHilo
      BY <3>2 DEF ElegirSinHilos, ContinuarHilo, varsColas
    <3> QED BY <1>7, <3>1, <3>2 DEF CortoPlazo
  <2>3. Listos'
    BY <1>3, <2>1, <2>2
  <2> QED BY <2>3 DEF Listos
<1>8. CASE Finalizacion
  <2>1. DespertarPorJoin \/ LiberarRecursosMutex
    BY <1>1, <1>8 DEF Finalizacion, EliminarDeColas, IterarProceso, LiberarProceso, En, SinBajas
  <2>2. UNCHANGED enMemoria /\ cp.hilo \in Hilos
    BY <1>1, <2>1 DEF DespertarPorJoin, LiberarRecursosMutex, varsExit, En, IInv, Control,
                      EnFinalizacion
  <2>3. CASE DespertarPorJoin
    <3>1. CASE UNCHANGED varsColas
      BY <1>2, <2>2, <3>1 DEF varsColas
    <3>2. ASSUME NEW h \in Hilos, tcb[cp.hilo].hiloBloqueadoPorJoin = h,
                 hilosEnReady' = hilosEnReady \/ hilosEnReady' = Append(hilosEnReady, h)
          PROVE  Listos'
      <4>1. cp.pc = "avisando"
        BY <2>3 DEF DespertarPorJoin, En
      <4>2. Apunta(cp.hilo, h)
        BY <3>2, <4>1 DEF Apunta, Activo
      <4>3. h \in enMemoria
        BY <1>1, <2>2, <4>2 DEF Esperados, Avisable
      <4> QED BY <1>4, <2>2, <3>2, <4>3
    <3>3. UNCHANGED varsColas \/ Listos'
      <4>1. \/ UNCHANGED varsColas
            \/ \E h \in Hilos : /\ tcb[cp.hilo].hiloBloqueadoPorJoin = h
                                /\ \/ hilosEnReady' = hilosEnReady
                                   \/ hilosEnReady' = Append(hilosEnReady, h)
        <5>1. \E h \in Hilos, listo \in BOOLEAN :
                 /\ tcb[cp.hilo].hiloBloqueadoPorJoin = h
                 /\ listo => hilosEnReady' = Append(hilosEnReady, h)
                 /\ ~listo => UNCHANGED varsColas
              \/ UNCHANGED varsColas
          BY <1>1, <2>2, <2>3, DespertarHecho
        <5> QED BY <5>1
      <4> QED BY <3>2, <4>1
    <3> QED BY <3>1, <3>3 DEF Listos
  <2>4. CASE LiberarRecursosMutex
    <3> DEFINE r == [i \in 1 .. Revividos(cp.hilo) |-> cp.hilo]
    <3>1. Revividos(cp.hilo) = 0
      BY <1>1, <2>2, SinHerencias
    <3>2. /\ r \in Seq(Hilos) /\ Len(r) = Revividos(cp.hilo)
          /\ hilosEnReady' = hilosEnReady \o r
      BY <1>1, <2>2, <2>4, LiberarHecho
    <3> HIDE DEF r
    <3>3. hilosEnReady' = hilosEnReady
      BY <1>1, <3>1, <3>2
    <3> QED BY <1>2, <2>2, <3>3
  <2> QED BY <2>1, <2>3, <2>4
<1>9. CASE SystemCall
  <2>1. cp.pc = "ejecutando"
    BY <1>9 DEF SystemCall, PROCESS_CREATE, PROCESS_EXIT, THREAD_CREATE, THREAD_EXIT,
       THREAD_JOIN, THREAD_CANCEL, SinEseHilo, MUTEX_CREATE, MUTEX_LOCK, MUTEX_UNLOCK, IO,
       DUMP_MEMORY, SEGMENTATION_FAULT, FIN_DE_QUANTUM, Pide, En
  <2>2. /\ hiloEnExec \in Hilos /\ hiloEnExec \in enMemoria /\ PidEnExec \in Pids
        /\ hiloEnExec \notin ToSet(hilosEnReady)
    BY <1>1, <2>1, ElQueCorre
  <2>3. /\ ~THREAD_CANCEL /\ ~PROCESS_EXIT /\ ~SEGMENTATION_FAULT
        /\ ~MUTEX_LOCK /\ ~MUTEX_UNLOCK
    BY DEF THREAD_CANCEL, PROCESS_EXIT, SEGMENTATION_FAULT, MUTEX_LOCK, MUTEX_UNLOCK, Pide,
           Bajas, DeMutex
  <2>4. CASE PROCESS_CREATE \/ SinEseHilo \/ MUTEX_CREATE \/ THREAD_JOIN \/ IO \/ DUMP_MEMORY
    BY <1>2, <2>4 DEF PROCESS_CREATE, SinEseHilo, MUTEX_CREATE, THREAD_JOIN, IO, DUMP_MEMORY,
                      varsColas, varsExit
  <2>5. CASE THREAD_CREATE
    <3>1. <<PidEnExec, siguienteTid[PidEnExec]>> \in Hilos
      BY <1>1, <2>2, <2>5, CotasPositivas DEF THREAD_CREATE, TypeOK, Hilos, Tids
    <3>2. Listos'
      BY <1>5, <2>5, <3>1 DEF THREAD_CREATE
    <3> QED BY <3>2 DEF Listos
  <2>6. CASE THREAD_EXIT
    <3>1. enMemoria' = enMemoria \ {hiloEnExec} /\ UNCHANGED hilosEnReady
      BY <2>6 DEF THREAD_EXIT, finalizar_hilo, notificar_a_memoria_finalizacion_hilo, varsColas
    <3> QED BY <1>1, <2>2, <3>1 DEF Listos
  <2>7. CASE FIN_DE_QUANTUM
    <3>1. transicion_a_ready(hiloEnExec, tcb, PuedeIrAReady(hiloEnExec)) /\ UNCHANGED enMemoria
      BY <2>7 DEF FIN_DE_QUANTUM, varsExit
    <3>2. hilosEnReady' = hilosEnReady \/ hilosEnReady' = Append(hilosEnReady, hiloEnExec)
      BY <3>1 DEF transicion_a_ready, Encolar
    <3>3. Listos'
      BY <1>4, <2>2, <3>1, <3>2
    <3> QED BY <3>3 DEF Listos
  <2> QED BY <1>9, <2>3, <2>4, <2>5, <2>6, <2>7 DEF SystemCall
<1>10. CASE Alrededor
  <2>1. UNCHANGED enMemoria
    BY <1>10 DEF Alrededor, FinalizadorDeHilos, AtenderIO, DumpTerminado, DumpFallido, varsExit
  <2>2. CASE FinalizadorDeHilos \/ (\E h \in Hilos : DumpFallido(h))
    BY <1>2, <2>1, <2>2 DEF FinalizadorDeHilos, DumpFallido, varsColas
  <2>3. CASE AtenderIO
    <3>1. PICK h \in Hilos : /\ dispositivoIO # <<>> /\ h = Head(dispositivoIO)
                             /\ \/ hilosEnReady' = hilosEnReady
                                \/ hilosEnReady' = Append(hilosEnReady, h)
      BY <1>1, <2>3, AtenderIOHecho
    <3>2. dispositivoIO \in Seq(Hilos)
      BY <1>1 DEF TypeOK
    <3>3. h \in ToSet(dispositivoIO)
      BY <3>1, <3>2, EfectoTail
    <3>4. h \in enMemoria
      BY <1>1, <3>3 DEF Esperados, Avisable
    <3>5. Listos'
      BY <1>4, <2>1, <3>1, <3>4
    <3> QED BY <3>5 DEF Listos
  <2>4. ASSUME NEW h \in Hilos, DumpTerminado(h) PROVE Listos'
    <3>1. h \in dumps
      BY <2>4 DEF DumpTerminado
    <3>2. h \in enMemoria
      BY <1>1, <3>1 DEF Esperados, Avisable
    <3>3. hilosEnReady' = hilosEnReady \/ hilosEnReady' = Append(hilosEnReady, h)
      BY <2>4 DEF DumpTerminado, desbloquear, transicion_a_ready, Encolar, varsColas
    <3> QED BY <1>4, <2>1, <3>2, <3>3
  <2>5. Listos'
    BY <1>10, <2>2, <2>3, <2>4 DEF Alrededor, Listos
  <2> QED BY <2>5 DEF Listos
<1>11. CASE UNCHANGED vars
  BY <1>2, <1>11 DEF vars
<1> QED BY <1>6, <1>7, <1>8, <1>9, <1>10, <1>11 DEF Next

\* Where nobody cancels a thread or takes a mutex, and no process exits, neither
\* the kernel nor the memory dies, whatever the threads of the system do with
\* creations, exits, joins, IO and dumps, and under every algorithm.  (A dump
\* that fails may still leave the scheduler waiting for ever.)
THEOREM NoCaeSinMutexes ==
    ASSUME Syscalls \cap (Bajas \cup DeMutex) = {}
    PROVE  Spec => []~caida
<1> DEFINE J == SInv /\ SinFallos /\ ~caida
<1>0. Syscalls \cap Bajas = {}
  OBVIOUS
<1>1. Init => J
  <2> SUFFICES ASSUME Init PROVE SinFallos /\ ~caida
    BY InicioSInv
  <2>1. /\ hilosEnReady = <<>> /\ caida = FALSE
        /\ cp = [pc |-> "elegir", hilo |-> NULO, origen |-> "", i |-> 0]
    BY DEF Init
  <2>2. ToSet(<<>>) = {}
    BY DEF ToSet
  <2> QED BY <2>1, <2>2 DEF SinFallos
<1>2. J /\ [Next]_vars => J'
  <2> SUFFICES ASSUME J, [Next]_vars PROVE J'
    OBVIOUS
  <2>1. SInv' /\ SinFallos'
    BY <1>0, SInvInductivo, OrigenInductivo, ListosInductivo DEF SinFallos
  <2>2. ASSUME caida' PROVE FALSE
    BY <1>0, <2>2, Cae DEF SinFallos
  <2> QED BY <2>1, <2>2
<1>3. J => ~caida
  OBVIOUS
<1> QED BY <1>1, <1>2, <1>3, PTL DEF Spec
=============================================================================
