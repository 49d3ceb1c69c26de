--------------------------- MODULE AdmisionProofs ---------------------------
(***************************************************************************)
(* Theorems about Admision, for every number of processes and of requests  *)
(* in flight, every memory and every algorithm.                            *)
(***************************************************************************)
EXTENDS Admision, SequenceTheorems, FiniteSetTheorems, TLAPS

(***************************************************************************)
(* The inductive invariant.  Processes are created, asked for and taken off*)
(* NEW in pid order, so one number tells all of them apart: the first that *)
(* is still in the queue.  Those before it were admitted, those after it   *)
(* have not been asked for, and it is the one the long term scheduler is   *)
(* with, if it is with any.                                                *)
(***************************************************************************)
Primero == siguientePID - Len(procesosEnNew)

TipoInv ==
    /\ siguientePID \in 0 .. CantProcesos
    /\ procesosEnNew \in Seq(Pids)
    /\ semProcesoEnNew \in Nat
    /\ lp \in [pc : {"esperando", "consultando", "admitido"}, proceso : Pids \cup {NULO}]
    /\ cp \in {"libre", "iniciado", "finalizado"}
    /\ enSistema \subseteq Pids
    /\ caida \in BOOLEAN
    /\ estado \in [Pids -> {"nuevo", "rechazado"} \cup Mem!EnCreacion \cup Mem!Creado]

ColaInv ==
    /\ Primero \in Nat
    /\ \A i \in 1 .. Len(procesosEnNew) : procesosEnNew[i] = Primero + i - 1
    /\ lp.pc = "esperando" => lp.proceso = NULO
    /\ lp.pc # "esperando" => lp.proceso = Primero /\ procesosEnNew # <<>>

EstadosInv ==
    \A p \in Pids :
       /\ p < Primero => estado[p] \in Mem!Creado
       /\ p > Primero \/ (procesosEnNew = <<>> /\ p >= Primero) => estado[p] = "nuevo"
       /\ p = Primero =>
             /\ lp.pc = "esperando" => estado[p] \in {"nuevo", "rechazado"}
             /\ lp.pc = "consultando" => estado[p] \in Mem!EnCreacion \cup {"rechazado", "activo"}
             /\ lp.pc = "admitido" => estado[p] \in Mem!Creado
       /\ p \in enSistema => estado[p] = "activo" /\ ~(lp.pc = "consultando" /\ p = Primero)

\* Who will post semProcesoEnNew, while nobody has asked for the first of NEW
\* (or for the one that will be it): the creation or the end of some process.
FichaInv ==
    \/ lp.pc = "admitido"
    \/ lp.pc = "esperando" /\ procesosEnNew # <<>> /\ estado[Primero] = "nuevo"
    => semProcesoEnNew > 0 \/ cp # "libre" \/ enSistema # {}

IInv == TipoInv /\ ColaInv /\ EstadosInv /\ FichaInv
-----------------------------------------------------------------------------
(* Numbers and states.                                                      *)

\* The pids of the queue, its length and its first one.
LEMMA DeLaCola ==
    ASSUME IInv
    PROVE  /\ siguientePID \in Nat /\ siguientePID <= CantProcesos /\ CantProcesos \in Nat
           /\ Len(procesosEnNew) \in Nat /\ Primero \in Nat
           /\ siguientePID = Primero + Len(procesosEnNew)
           /\ procesosEnNew = <<>> <=> Len(procesosEnNew) = 0
           /\ procesosEnNew # <<>> => Primero \in Pids /\ Head(procesosEnNew) = Primero
  <1>1. siguientePID \in Nat /\ siguientePID <= CantProcesos
    BY CantProcesosNat DEF IInv, TipoInv
  <1>2. procesosEnNew \in Seq(Pids) /\ Primero \in Nat
    BY DEF IInv, TipoInv, ColaInv
  <1>3. Len(procesosEnNew) \in Nat /\ (procesosEnNew = <<>> <=> Len(procesosEnNew) = 0)
    BY <1>2
  <1>4. siguientePID = Primero + Len(procesosEnNew)
    BY <1>1, <1>3 DEF Primero
  <1>5. ASSUME procesosEnNew # <<>> PROVE Primero \in Pids /\ Head(procesosEnNew) = Primero
    <2>1. 1 \in 1 .. Len(procesosEnNew) BY <1>3, <1>5
    <2>2. procesosEnNew[1] = Primero + 1 - 1 BY <2>1 DEF IInv, ColaInv
    <2>3. procesosEnNew[1] \in Pids BY <1>2, <2>1
    <2>4. Head(procesosEnNew) = procesosEnNew[1] BY <1>2, <1>5
    <2> QED BY <1>2, <2>2, <2>3, <2>4
  <1> QED BY <1>1, <1>3, <1>4, <1>5, CantProcesosNat, <1>2

\* What a handler of the memory does to the state of its process.
LEMMA ManejadorHecho ==
    ASSUME TipoInv, NEW p \in Pids, Mem!Manejador(p)
    PROVE  \E e \in {"rechazado"} \cup Mem!EnCreacion \cup Mem!Creado :
              /\ estado' = [estado EXCEPT ![p] = e]
              /\ \/ estado[p] \in Mem!EnCreacion /\ e \in Mem!EnCreacion \cup {"rechazado", "activo"}
                 \/ estado[p] \in {"finPedido", "quitado"} /\ e \in {"quitado", "terminado"}
  <1> USE DEF Mem!EnCreacion, Mem!Creado
  <1>1. CASE Mem!RechazarCreacion(p) BY <1>1 DEF Mem!RechazarCreacion
  <1>2. CASE Mem!TomarHueco(p)
    <2>1. estado[p] = "pedido"
          /\ (estado' = [estado EXCEPT ![p] = "conResto"] \/ estado' = [estado EXCEPT ![p] = "cargando"])
      BY <1>2 DEF Mem!TomarHueco
    <2> QED BY <2>1
  <1>3. CASE Mem!AgregarResto(p) BY <1>3 DEF Mem!AgregarResto
  <1>4. CASE Mem!AgregarProceso(p) BY <1>4 DEF Mem!AgregarProceso
  <1>5. CASE Mem!QuitarProceso(p) BY <1>5 DEF Mem!QuitarProceso
  <1>6. CASE Mem!LiberarRegion(p) BY <1>6 DEF Mem!LiberarRegion
  <1> QED BY <1>1, <1>2, <1>3, <1>4, <1>5, <1>6 DEF Mem!Manejador
-----------------------------------------------------------------------------
(* The invariant, one operation after the other.                            *)

LEMMA Inicial == Init => IInv
  <1> SUFFICES ASSUME Init PROVE IInv
    OBVIOUS
  <1>1. /\ estado = [p \in Pids |-> "nuevo"] /\ siguientePID = 0 /\ procesosEnNew = <<>>
        /\ semProcesoEnNew = 0 /\ lp = [pc |-> "esperando", proceso |-> NULO] /\ cp = "libre"
        /\ enSistema = {} /\ caida = FALSE
    BY DEF Init, Mem!Init, Pids
  <1>2. Primero = 0 /\ Len(procesosEnNew) = 0 /\ procesosEnNew \in Seq(Pids)
    <2>1. Len(procesosEnNew) = 0 BY <1>1
    <2>2. procesosEnNew \in Seq(Pids) BY <1>1
    <2>3. Primero = siguientePID - Len(procesosEnNew) BY DEF Primero
    <2>4. Primero = 0 - 0 BY <1>1, <2>1, <2>3
    <2> QED BY <2>1, <2>2, <2>4
  <1>3. TipoInv
    <2>1. siguientePID \in 0 .. CantProcesos BY <1>1, CantProcesosNat
    <2>2. semProcesoEnNew \in Nat BY <1>1
    <2>3. lp \in [pc : {"esperando", "consultando", "admitido"}, proceso : Pids \cup {NULO}]
      BY <1>1
    <2>4. estado \in [Pids -> {"nuevo", "rechazado"} \cup Mem!EnCreacion \cup Mem!Creado]
      BY <1>1
    <2> QED BY <1>1, <1>2, <2>1, <2>2, <2>3, <2>4 DEF TipoInv
  <1>4. ColaInv
    BY <1>1, <1>2 DEF ColaInv
  <1>5. EstadosInv
    <2>1. \A p \in Pids : ~(p < 0) BY CantProcesosNat DEF Pids, Mem!Pids
    <2> QED BY <1>1, <1>2, <2>1 DEF EstadosInv
  <1>6. FichaInv
    BY <1>1 DEF FichaInv
  <1> QED BY <1>3, <1>4, <1>5, <1>6 DEF IInv

LEMMA AlEncolar == ASSUME IInv, EncolarEnNew PROVE IInv'
  <1>1. /\ siguientePID < CantProcesos /\ siguientePID' = siguientePID + 1
        /\ procesosEnNew' = Append(procesosEnNew, siguientePID) /\ cp' = "iniciado"
        /\ UNCHANGED <<estado, semProcesoEnNew, lp, enSistema, caida>>
    BY DEF EncolarEnNew, obtener_siguiente_pid, varsMemoria
  <1>2. /\ siguientePID \in Nat /\ CantProcesos \in Nat /\ Len(procesosEnNew) \in Nat
        /\ Primero \in Nat /\ siguientePID = Primero + Len(procesosEnNew)
        /\ procesosEnNew \in Seq(Pids)
    BY DeLaCola DEF IInv, TipoInv
  <1>3. siguientePID \in Pids
    BY <1>1, <1>2 DEF Pids, Mem!Pids
  <1>4. /\ procesosEnNew' \in Seq(Pids) /\ Len(procesosEnNew') = Len(procesosEnNew) + 1
        /\ \A i \in 1 .. Len(procesosEnNew) : procesosEnNew'[i] = procesosEnNew[i]
        /\ procesosEnNew'[Len(procesosEnNew) + 1] = siguientePID
        /\ procesosEnNew' # <<>>
    BY <1>1, <1>2, <1>3, AppendProperties
  <1>5. Primero' = Primero
    BY <1>1, <1>2, <1>4 DEF Primero
  <1>6. TipoInv'
    <2>1. siguientePID' \in 0 .. CantProcesos BY <1>1, <1>2
    <2> QED BY <1>1, <1>4, <2>1 DEF IInv, TipoInv
  <1>7. ColaInv'
    <2>1. \A i \in 1 .. Len(procesosEnNew') : procesosEnNew'[i] = Primero + i - 1
      <3> TAKE i \in 1 .. Len(procesosEnNew')
      <3>1. CASE i = Len(procesosEnNew) + 1 BY <1>2, <1>4, <3>1
      <3>2. CASE i # Len(procesosEnNew) + 1
        <4>1. i \in 1 .. Len(procesosEnNew) BY <1>2, <1>4, <3>2
        <4> QED BY <1>4, <4>1 DEF IInv, ColaInv
      <3> QED BY <3>1, <3>2
    <2> QED BY <1>1, <1>2, <1>4, <1>5, <2>1 DEF IInv, ColaInv
  <1>8. EstadosInv'
    <2> SUFFICES ASSUME NEW p \in Pids
                 PROVE  /\ p < Primero => estado[p] \in Mem!Creado
                        /\ p > Primero => estado[p] = "nuevo"
                        /\ p = Primero =>
                              /\ lp.pc = "esperando" => estado[p] \in {"nuevo", "rechazado"}
                              /\ lp.pc = "consultando"
                                    => estado[p] \in Mem!EnCreacion \cup {"rechazado", "activo"}
                              /\ lp.pc = "admitido" => estado[p] \in Mem!Creado
                        /\ p \in enSistema =>
                              estado[p] = "activo" /\ ~(lp.pc = "consultando" /\ p = Primero)
      BY <1>1, <1>4, <1>5 DEF EstadosInv, Mem!Creado, Mem!EnCreacion
    <2> QED BY DEF IInv, EstadosInv
  <1>9. FichaInv'
    BY <1>1 DEF FichaInv
  <1> QED BY <1>6, <1>7, <1>8, <1>9 DEF IInv

\* The steps that change neither the queue nor a state.
LEMMA SinCola ==
    ASSUME IInv, UNCHANGED <<estado, siguientePID, procesosEnNew, lp, enSistema, caida>>,
           semProcesoEnNew' \in Nat, cp' \in {"libre", "iniciado", "finalizado"},
           FichaInv'
    PROVE  IInv'
  <1>1. Primero' = Primero BY DEF Primero
  <1>2. TipoInv' BY DEF IInv, TipoInv
  <1>3. ColaInv' BY <1>1 DEF IInv, ColaInv
  <1>4. EstadosInv' BY <1>1 DEF IInv, EstadosInv, Mem!Creado, Mem!EnCreacion
  <1> QED BY <1>2, <1>3, <1>4 DEF IInv

LEMMA AlPostear == ASSUME IInv, AvisarNew \/ Reintentar PROVE IInv'
  <1>1. UNCHANGED <<estado, siguientePID, procesosEnNew, lp, enSistema, caida>> /\ cp' = "libre"
    BY DEF AvisarNew, Reintentar, varsMemoria
  <1>2. semProcesoEnNew \in Nat BY DEF IInv, TipoInv
  <1>3. \/ semProcesoEnNew' = semProcesoEnNew + 1
        \/ procesosEnNew = <<>> /\ semProcesoEnNew' = semProcesoEnNew
    BY DEF AvisarNew, Reintentar
  <1>4. FichaInv'
    <2>1. CASE procesosEnNew # <<>>
      <3>1. semProcesoEnNew' > 0 BY <1>2, <1>3, <2>1
      <3> QED BY <3>1 DEF FichaInv
    <2>2. CASE procesosEnNew = <<>>
      <3>1. lp.pc = "esperando"
        BY <2>2 DEF IInv, ColaInv, TipoInv
      <3> QED BY <1>1, <2>2, <3>1 DEF FichaInv
    <2> QED BY <2>1, <2>2
  <1>5. semProcesoEnNew' \in Nat BY <1>2, <1>3
  <1> QED BY <1>1, <1>4, <1>5, SinCola

LEMMA AlNotificar ==
    ASSUME IInv, NEW p \in Pids, NotificarFinalizacion(p)
    PROVE  IInv' /\ estado[p] = "activo"
  <1>1. /\ p \in enSistema /\ estado' = [estado EXCEPT ![p] = "finPedido"]
        /\ enSistema' = enSistema \ {p} /\ cp' = "finalizado"
        /\ UNCHANGED <<siguientePID, procesosEnNew, semProcesoEnNew, lp, caida>>
    BY DEF NotificarFinalizacion, varsNew
  <1>2. estado[p] = "activo" /\ ~(lp.pc = "consultando" /\ p = Primero)
    BY <1>1 DEF IInv, EstadosInv
  <1>3. Primero' = Primero /\ estado \in [Pids -> {"nuevo", "rechazado"} \cup Mem!EnCreacion \cup Mem!Creado]
    BY <1>1 DEF Primero, IInv, TipoInv
  <1>4. TipoInv'
    BY <1>1, <1>3 DEF IInv, TipoInv, Mem!Creado, Mem!EnCreacion
  <1>5. ColaInv'
    BY <1>1, <1>3 DEF IInv, ColaInv
  <1>6. EstadosInv'
    <2> SUFFICES ASSUME NEW q \in Pids
                 PROVE  /\ q < Primero => estado'[q] \in Mem!Creado
                        /\ q > Primero \/ (procesosEnNew = <<>> /\ q >= Primero) => estado'[q] = "nuevo"
                        /\ q = Primero =>
                              /\ lp.pc = "esperando" => estado'[q] \in {"nuevo", "rechazado"}
                              /\ lp.pc = "consultando"
                                    => estado'[q] \in Mem!EnCreacion \cup {"rechazado", "activo"}
                              /\ lp.pc = "admitido" => estado'[q] \in Mem!Creado
                        /\ q \in enSistema \ {p} =>
                              estado'[q] = "activo" /\ ~(lp.pc = "consultando" /\ q = Primero)
      BY <1>1, <1>3 DEF EstadosInv, Mem!Creado, Mem!EnCreacion
    <2>1. CASE q = p
      <3>1. estado'[q] = "finPedido" /\ "finPedido" \in Mem!Creado
        BY <1>1, <1>3, <2>1 DEF Mem!Creado
      <3> QED BY <1>2, <2>1, <3>1 DEF IInv, EstadosInv
    <2>2. CASE q # p
      <3>1. estado'[q] = estado[q] BY <1>1, <1>3, <2>2
      <3> QED BY <3>1 DEF IInv, EstadosInv
    <2> QED BY <2>1, <2>2
  <1>7. FichaInv' BY <1>1 DEF FichaInv
  <1> QED BY <1>2, <1>4, <1>5, <1>6, <1>7 DEF IInv

LEMMA AlTomarFicha ==
    ASSUME IInv, TomarFicha
    PROVE  /\ IInv'
           /\ \/ UNCHANGED estado
              \/ /\ procesosEnNew # <<>> /\ Elegido = Primero /\ Primero \in Pids
                 /\ estado[Primero] \in {"nuevo", "rechazado"}
                 /\ \A q \in Pids : q < Primero => estado[q] \in Mem!Creado
  <1>1. /\ lp.pc = "esperando" /\ semProcesoEnNew > 0 /\ semProcesoEnNew' = semProcesoEnNew - 1
        /\ UNCHANGED <<siguientePID, procesosEnNew, cp, enSistema>>
    BY DEF TomarFicha
  <1>2. Primero' = Primero BY <1>1 DEF Primero
  <1>3. semProcesoEnNew' \in Nat
    <2>1. semProcesoEnNew \in Nat BY DEF IInv, TipoInv
    <2> QED BY <1>1, <2>1
  <1>4. CASE procesosEnNew = <<>> /\ caida' = TRUE /\ UNCHANGED <<estado, lp>>
    <2>1. TipoInv' BY <1>1, <1>3, <1>4 DEF IInv, TipoInv
    <2>2. ColaInv' BY <1>1, <1>2, <1>4 DEF IInv, ColaInv
    <2>3. EstadosInv' BY <1>1, <1>2, <1>4 DEF IInv, EstadosInv, Mem!Creado, Mem!EnCreacion
    <2>4. FichaInv' BY <1>1, <1>4 DEF FichaInv
    <2> QED BY <1>4, <2>1, <2>2, <2>3, <2>4 DEF IInv
  <1>5. CASE /\ procesosEnNew # <<>>
             /\ estado' = [estado EXCEPT ![Elegido] = "pedido"]
             /\ lp' = [pc |-> "consultando", proceso |-> Elegido]
             /\ UNCHANGED caida
    <2>1. Elegido = Primero /\ Primero \in Pids
      BY <1>5, DeLaCola DEF Elegido
    <2>2. estado \in [Pids -> {"nuevo", "rechazado"} \cup Mem!EnCreacion \cup Mem!Creado]
      BY DEF IInv, TipoInv
    <2>3. /\ estado[Primero] \in {"nuevo", "rechazado"}
          /\ \A q \in Pids : q < Primero => estado[q] \in Mem!Creado
      BY <1>1, <2>1 DEF IInv, EstadosInv
    <2>4. lp'.pc = "consultando" /\ lp'.proceso = Primero BY <1>5, <2>1
    <2>5. TipoInv'
      <3>1. lp' \in [pc : {"esperando", "consultando", "admitido"}, proceso : Pids \cup {NULO}]
        BY <1>5, <2>1
      <3> QED BY <1>1, <1>3, <1>5, <2>2, <3>1 DEF IInv, TipoInv, Mem!Creado, Mem!EnCreacion
    <2>6. ColaInv'
      BY <1>1, <1>2, <1>5, <2>4 DEF IInv, ColaInv
    <2>7. EstadosInv'
      <3> SUFFICES ASSUME NEW q \in Pids
                   PROVE  /\ q < Primero => estado'[q] \in Mem!Creado
                          /\ q > Primero => estado'[q] = "nuevo"
                          /\ q = Primero => estado'[q] \in Mem!EnCreacion
                          /\ q \in enSistema => estado'[q] = "activo" /\ q # Primero
        BY <1>1, <1>2, <1>5, <2>4 DEF EstadosInv, Mem!Creado, Mem!EnCreacion
      <3>1. Primero \in Nat /\ q \in Int BY DEF IInv, ColaInv, Pids, Mem!Pids
      <3>2. CASE q = Primero
        <4>1. estado'[q] = "pedido" BY <1>5, <2>1, <2>2, <3>2
        <4>2. q \notin enSistema BY <2>3, <3>2 DEF IInv, EstadosInv
        <4> QED BY <3>1, <3>2, <4>1, <4>2 DEF Mem!EnCreacion
      <3>3. CASE q # Primero
        <4>1. estado'[q] = estado[q] BY <1>5, <2>1, <2>2, <3>3
        <4> QED BY <3>3, <4>1 DEF IInv, EstadosInv
      <3> QED BY <3>2, <3>3
    <2>8. FichaInv' BY <2>4 DEF FichaInv
    <2> QED BY <1>5, <2>1, <2>3, <2>5, <2>6, <2>7, <2>8 DEF IInv
  <1> QED BY <1>4, <1>5 DEF TomarFicha

LEMMA AlLeerRespuesta == ASSUME IInv, LeerRespuesta PROVE IInv'
  <1>1. /\ lp.pc = "consultando"
        /\ UNCHANGED <<estado, siguientePID, procesosEnNew, semProcesoEnNew, cp, caida>>
    BY DEF LeerRespuesta, varsMemoria, varsNew
  <1>2. /\ lp.proceso = Primero /\ Primero \in Pids /\ procesosEnNew # <<>> /\ Primero' = Primero
        /\ Primero \in Nat
    BY <1>1, DeLaCola DEF IInv, ColaInv, Primero
  <1>3. CASE /\ estado[Primero] = "rechazado"
             /\ lp' = [pc |-> "esperando", proceso |-> NULO]
             /\ UNCHANGED enSistema
    <2>1. lp'.pc = "esperando" /\ lp'.proceso = NULO BY <1>3
    <2>2. TipoInv'
      <3>1. lp' \in [pc : {"esperando", "consultando", "admitido"}, proceso : Pids \cup {NULO}]
        BY <1>3
      <3> QED BY <1>1, <1>3, <3>1 DEF IInv, TipoInv
    <2>3. ColaInv' BY <1>1, <1>2, <2>1 DEF IInv, ColaInv
    <2>4. EstadosInv'
      BY <1>1, <1>2, <1>3, <2>1 DEF IInv, EstadosInv, Mem!Creado, Mem!EnCreacion
    <2>5. FichaInv' BY <1>1, <1>2, <1>3, <2>1 DEF FichaInv
    <2> QED BY <2>2, <2>3, <2>4, <2>5 DEF IInv
  <1>4. CASE /\ estado[Primero] = "activo"
             /\ lp' = [lp EXCEPT !.pc = "admitido"]
             /\ enSistema' = enSistema \cup {Primero}
    <2>1. /\ lp'.pc = "admitido" /\ lp'.proceso = Primero
          /\ lp' \in [pc : {"esperando", "consultando", "admitido"}, proceso : Pids \cup {NULO}]
      BY <1>2, <1>4 DEF IInv, TipoInv
    <2>2. TipoInv' BY <1>1, <1>2, <1>4, <2>1 DEF IInv, TipoInv
    <2>3. ColaInv' BY <1>1, <1>2, <2>1 DEF IInv, ColaInv
    <2>4. EstadosInv'
      <3>1. "activo" \in Mem!Creado BY DEF Mem!Creado
      <3> SUFFICES ASSUME NEW q \in Pids
                   PROVE  /\ q < Primero => estado[q] \in Mem!Creado
                          /\ q > Primero => estado[q] = "nuevo"
                          /\ q = Primero => estado[q] \in Mem!Creado
                          /\ q \in enSistema \cup {Primero} => estado[q] = "activo"
        BY <1>1, <1>2, <1>4, <2>1 DEF EstadosInv, Mem!Creado, Mem!EnCreacion
      <3> QED BY <1>4, <3>1 DEF IInv, EstadosInv
    <2>5. FichaInv' BY <1>4 DEF FichaInv
    <2> QED BY <2>2, <2>3, <2>4, <2>5 DEF IInv
  <1> QED BY <1>2, <1>3, <1>4 DEF LeerRespuesta

LEMMA AlQuitar == ASSUME IInv, QuitarDeNew PROVE IInv'
  <1>1. /\ lp.pc = "admitido" /\ procesosEnNew' = Tail(procesosEnNew)
        /\ lp' = [pc |-> "esperando", proceso |-> NULO] /\ caida' \in BOOLEAN
        /\ UNCHANGED <<estado, siguientePID, semProcesoEnNew, cp, enSistema>>
    BY DEF QuitarDeNew, Quitar, varsMemoria
  <1>2. /\ Primero \in Nat /\ Primero \in Pids /\ procesosEnNew # <<>> /\ procesosEnNew \in Seq(Pids)
        /\ Len(procesosEnNew) \in Nat /\ siguientePID \in Nat
        /\ siguientePID = Primero + Len(procesosEnNew)
    BY <1>1, DeLaCola DEF IInv, ColaInv, TipoInv
  <1>3. /\ procesosEnNew' \in Seq(Pids) /\ Len(procesosEnNew') = Len(procesosEnNew) - 1
        /\ \A i \in 1 .. Len(procesosEnNew') : procesosEnNew'[i] = procesosEnNew[i + 1]
    BY <1>1, <1>2, HeadTailProperties
  <1>4. Primero' = Primero + 1
    BY <1>1, <1>2, <1>3 DEF Primero
  <1>5. lp'.pc = "esperando" /\ lp'.proceso = NULO BY <1>1
  <1>6. TipoInv'
    <2>1. lp' \in [pc : {"esperando", "consultando", "admitido"}, proceso : Pids \cup {NULO}]
      BY <1>1
    <2> QED BY <1>1, <1>3, <2>1 DEF IInv, TipoInv
  <1>7. ColaInv'
    <2>1. \A i \in 1 .. Len(procesosEnNew') : procesosEnNew'[i] = Primero' + i - 1
      <3> TAKE i \in 1 .. Len(procesosEnNew')
      <3>1. i + 1 \in 1 .. Len(procesosEnNew) BY <1>2, <1>3
      <3>2. procesosEnNew[i + 1] = Primero + (i + 1) - 1 BY <3>1 DEF IInv, ColaInv
      <3> QED BY <1>2, <1>3, <1>4, <3>2
    <2>2. Primero' \in Nat BY <1>2, <1>4
    <2> QED BY <1>5, <2>1, <2>2 DEF ColaInv
  <1>8. EstadosInv'
    <2>1. estado[Primero] \in Mem!Creado
      BY <1>1, <1>2 DEF IInv, EstadosInv
    <2> SUFFICES ASSUME NEW q \in Pids
                 PROVE  /\ q < Primero + 1 => estado[q] \in Mem!Creado
                        /\ q >= Primero + 1 => estado[q] = "nuevo"
                        /\ q \in enSistema => estado[q] = "activo"
      <3>1. \A q \in Pids : q > Primero + 1 => q >= Primero + 1
        BY <1>2 DEF Pids, Mem!Pids
      <3>2. \A q \in Pids : q = Primero + 1 => q >= Primero + 1
        BY <1>2 DEF Pids, Mem!Pids
      <3> QED BY <1>1, <1>4, <1>5, <3>1, <3>2 DEF EstadosInv, Mem!Creado
    <2>2. q \in Int BY DEF Pids, Mem!Pids
    <2>3. q < Primero + 1 => q < Primero \/ q = Primero BY <1>2, <2>2
    <2>4. q >= Primero + 1 => q > Primero BY <1>2, <2>2
    <2> QED BY <2>1, <2>3, <2>4 DEF IInv, EstadosInv
  <1>9. FichaInv'
    <2>1. semProcesoEnNew > 0 \/ cp # "libre" \/ enSistema # {}
      BY <1>1 DEF IInv, FichaInv
    <2> QED BY <1>1, <2>1 DEF FichaInv
  <1> QED BY <1>6, <1>7, <1>8, <1>9 DEF IInv

LEMMA AlAtender ==
    ASSUME IInv, Atender PROVE IInv'
  <1>1. PICK p \in Pids : Mem!Manejador(p) BY DEF Atender
  <1>2. UNCHANGED <<siguientePID, procesosEnNew, semProcesoEnNew, lp, cp, enSistema, caida>>
    BY DEF Atender, varsNew
  <1>3. TipoInv BY DEF IInv
  <1>4. PICK e \in {"rechazado"} \cup Mem!EnCreacion \cup Mem!Creado :
           /\ estado' = [estado EXCEPT ![p] = e]
           /\ \/ estado[p] \in Mem!EnCreacion /\ e \in Mem!EnCreacion \cup {"rechazado", "activo"}
              \/ estado[p] \in {"finPedido", "quitado"} /\ e \in {"quitado", "terminado"}
    BY <1>1, <1>3, ManejadorHecho
  <1>5. estado \in [Pids -> {"nuevo", "rechazado"} \cup Mem!EnCreacion \cup Mem!Creado]
    BY <1>3 DEF TipoInv
  <1>6. Primero' = Primero BY <1>2 DEF Primero
  <1>7. TipoInv' BY <1>2, <1>3, <1>4, <1>5 DEF TipoInv, Mem!EnCreacion, Mem!Creado
  <1>8. ColaInv' BY <1>2, <1>6 DEF IInv, ColaInv
  <1>9. estado'[p] = e /\ \A q \in Pids \ {p} : estado'[q] = estado[q]
    BY <1>4, <1>5
  <1>10. EstadosInv'
    <2> SUFFICES ASSUME NEW q \in Pids
                 PROVE  /\ q < Primero => estado'[q] \in Mem!Creado
                        /\ q > Primero \/ (procesosEnNew = <<>> /\ q >= Primero) => estado'[q] = "nuevo"
                        /\ q = Primero =>
                              /\ lp.pc = "esperando" => estado'[q] \in {"nuevo", "rechazado"}
                              /\ lp.pc = "consultando"
                                    => estado'[q] \in Mem!EnCreacion \cup {"rechazado", "activo"}
                              /\ lp.pc = "admitido" => estado'[q] \in Mem!Creado
                        /\ q \in enSistema =>
                              estado'[q] = "activo" /\ ~(lp.pc = "consultando" /\ q = Primero)
      BY <1>2, <1>6 DEF EstadosInv, Mem!Creado, Mem!EnCreacion
    <2>1. CASE q # p
      BY <1>9, <2>1 DEF IInv, EstadosInv
    <2>2. CASE q = p /\ estado[p] \in Mem!EnCreacion /\ e \in Mem!EnCreacion \cup {"rechazado", "activo"}
      <3>1. estado[p] \notin Mem!Creado /\ estado[p] \notin {"nuevo", "rechazado", "activo"}
        BY <2>2 DEF Mem!Creado, Mem!EnCreacion
      <3> QED BY <1>9, <2>2, <3>1 DEF IInv, EstadosInv
    <2>3. CASE q = p /\ estado[p] \in {"finPedido", "quitado"} /\ e \in {"quitado", "terminado"}
      <3>1. estado[p] \notin Mem!EnCreacion \cup {"nuevo", "rechazado", "activo"} /\ e \in Mem!Creado
        BY <2>3 DEF Mem!Creado, Mem!EnCreacion
      <3> QED BY <1>9, <2>3, <3>1 DEF IInv, EstadosInv
    <2> QED BY <1>4, <2>1, <2>2, <2>3
  <1>11. FichaInv'
    <2>1. ASSUME procesosEnNew # <<>>, estado'[Primero] = "nuevo" PROVE estado[Primero] = "nuevo"
      <3>1. Primero \in Pids BY <2>1, DeLaCola
      <3>2. e # "nuevo" BY DEF Mem!Creado, Mem!EnCreacion
      <3> QED BY <1>9, <2>1, <3>1, <3>2
    <2> QED BY <1>2, <1>6, <2>1 DEF IInv, FichaInv
  <1> QED BY <1>7, <1>8, <1>10, <1>11 DEF IInv

LEMMA SeMantiene == IInv /\ [Next]_vars => IInv'
  <1> SUFFICES ASSUME IInv, [Next]_vars PROVE IInv'
    OBVIOUS
  <1>1. CASE LargoPlazo
    BY <1>1, AlTomarFicha, AlLeerRespuesta, AlQuitar DEF LargoPlazo
  <1>2. CASE SystemCalls
    BY <1>2, AlEncolar, AlPostear, AlNotificar DEF SystemCalls
  <1>3. CASE Atender BY <1>3, AlAtender
  <1>4. CASE UNCHANGED vars
    <2>1. UNCHANGED <<estado, siguientePID, procesosEnNew, lp, enSistema, caida, semProcesoEnNew, cp>>
      BY <1>4 DEF vars, varsMemoria, varsNew
    <2>2. FichaInv' BY <2>1 DEF IInv, FichaInv, Primero
    <2> QED BY <2>1, <2>2, SinCola DEF IInv, TipoInv
  <1> QED BY <1>1, <1>2, <1>3, <1>4 DEF Next

LEMMA Invariante == Spec => []IInv
  <1> QED BY Inicial, SeMantiene, PTL DEF Spec
-----------------------------------------------------------------------------
(* The theorems.                                                           *)

\* procesosEnNew holds the processes that are not admitted, in the order they
\* were created: the list_remove(procesosEnNew, 0) of planificador_largo_plazo
\* takes the process that it asked the memory for, whatever iniciar_proceso
\* queues and finalizar_proceso posts in between.
THEOREM NewSiempreEnOrden == Spec => []NewEnOrden
  <1>1. IInv => NewEnOrden
    <2> SUFFICES ASSUME IInv PROVE NewEnOrden
      OBVIOUS
    <2>1. /\ siguientePID \in Nat /\ siguientePID <= CantProcesos /\ CantProcesos \in Nat
          /\ Len(procesosEnNew) \in Nat /\ Primero \in Nat
          /\ siguientePID = Primero + Len(procesosEnNew)
          /\ procesosEnNew = <<>> <=> Len(procesosEnNew) = 0
      BY DeLaCola
    <2>2. /\ DOMAIN procesosEnNew = 1 .. Len(procesosEnNew)
          /\ \A i \in 1 .. Len(procesosEnNew) : procesosEnNew[i] = Primero + i - 1
      <3>1. procesosEnNew \in Seq(Pids) BY DEF IInv, TipoInv
      <3> QED BY <3>1 DEF IInv, ColaInv
    <2>3. ToSet(procesosEnNew) = Primero .. siguientePID - 1
      <3>1. ASSUME NEW p \in Primero .. siguientePID - 1 PROVE p \in ToSet(procesosEnNew)
        <4>1. p - Primero + 1 \in 1 .. Len(procesosEnNew) BY <2>1
        <4>2. procesosEnNew[p - Primero + 1] = p BY <2>1, <2>2, <4>1
        <4> QED BY <2>2, <4>1, <4>2 DEF ToSet
      <3>2. ASSUME NEW i \in 1 .. Len(procesosEnNew)
            PROVE  procesosEnNew[i] \in Primero .. siguientePID - 1
        BY <2>1, <2>2
      <3> QED BY <2>2, <3>1, <3>2 DEF ToSet
    <2>4. SinAdmitir = Primero .. siguientePID - 1
      <3>1. ASSUME NEW p \in 0 .. siguientePID - 1, p >= Primero
            PROVE  estado[p] \in {"nuevo", "rechazado"} \/ lp.proceso = p
        <4>1. p \in Pids BY <2>1 DEF Pids, Mem!Pids
        <4>2. p > Primero \/ p = Primero BY <2>1, <3>1
        <4>3. CASE p > Primero BY <4>1, <4>3 DEF IInv, EstadosInv
        <4>4. CASE p = Primero
          BY <4>1, <4>4 DEF IInv, EstadosInv, ColaInv
        <4> QED BY <4>2, <4>3, <4>4
      <3>2. ASSUME NEW p \in 0 .. siguientePID - 1, p < Primero
            PROVE  estado[p] \notin {"nuevo", "rechazado"} /\ lp.proceso # p
        <4>1. p \in Pids BY <2>1 DEF Pids, Mem!Pids
        <4>2. estado[p] \in Mem!Creado BY <3>2, <4>1 DEF IInv, EstadosInv
        <4>3. lp.proceso = NULO \/ lp.proceso = Primero BY DEF IInv, ColaInv
        <4>4. p # NULO /\ p # Primero BY <2>1, <3>2 DEF NULO
        <4> QED BY <4>2, <4>3, <4>4 DEF Mem!Creado
      <3>3. ASSUME NEW p \in Primero .. siguientePID - 1 PROVE p \in 0 .. siguientePID - 1 /\ p >= Primero
        BY <2>1
      <3>4. ASSUME NEW p \in 0 .. siguientePID - 1, ~(p < Primero) PROVE p \in Primero .. siguientePID - 1
        BY <2>1, <3>4
      <3> QED BY <3>1, <3>2, <3>3, <3>4 DEF SinAdmitir
    <2>5. \A i, j \in DOMAIN procesosEnNew : i < j => procesosEnNew[i] < procesosEnNew[j]
      BY <2>1, <2>2
    <2> QED BY <2>3, <2>4, <2>5 DEF NewEnOrden
  <1> QED BY <1>1, Invariante, PTL

\* Every creation and every end of a process posts semProcesoEnNew, which is
\* enough for the first of NEW to be asked for before the system stops.
THEOREM SiempreSeConsultaAlPrimero == Spec => []SeConsultaAlPrimero
  <1>1. IInv => SeConsultaAlPrimero
    <2> SUFFICES ASSUME IInv, Detenido, procesosEnNew # <<>>
                 PROVE  estado[Head(procesosEnNew)] = "rechazado"
      BY DEF SeConsultaAlPrimero
    <2>1. Primero \in Pids /\ Head(procesosEnNew) = Primero BY DeLaCola
    <2>2. estado[Primero] \in {"nuevo", "rechazado"}
      BY <2>1 DEF Detenido, IInv, EstadosInv
    <2>3. estado[Primero] # "nuevo"
      <3>1. ~(semProcesoEnNew > 0) BY DEF Detenido
      <3> QED BY <3>1 DEF Detenido, IInv, FichaInv
    <2> QED BY <2>1, <2>2, <2>3
  <1> QED BY <1>1, Invariante, PTL

\* The two modules count alike.
LEMMA MismoCardinal == \A S : Mem!Cardinality(S) = Cardinality(S)
  BY DEF Mem!Cardinality, Cardinality

LEMMA PasoDeMemoria == IInv /\ [Next]_vars => [Mem!Next]_(Mem!vars)
  <1> SUFFICES ASSUME IInv, [Next]_vars PROVE Mem!Next \/ UNCHANGED Mem!vars
    OBVIOUS
  <1>1. ASSUME UNCHANGED varsMemoria PROVE UNCHANGED Mem!vars
    BY <1>1 DEF varsMemoria, Mem!vars
  <1>2. CASE TomarFicha
    <2>1. UNCHANGED <<huecos_libres, lista_de_procesos, inicio_de_particion, particion,
                      region, resto, victima, tam>>
      BY <1>2 DEF TomarFicha
    <2>2. CASE UNCHANGED estado BY <1>1, <2>1, <2>2 DEF varsMemoria
    <2>3. CASE ~UNCHANGED estado
      <3>1. /\ Elegido = Primero /\ Primero \in Pids
            /\ estado[Primero] \in {"nuevo", "rechazado"}
            /\ \A q \in Pids : q < Primero => estado[q] \in Mem!Creado
        BY <1>2, <2>3, AlTomarFicha
      <3>2. /\ Cardinality(Mem!EnVuelo) < MaxEnVuelo
            /\ estado' = [estado EXCEPT ![Primero] = "pedido"]
        BY <1>2, <2>3, <3>1 DEF TomarFicha
      <3>3. Mem!Arrancada BY SoloDinamicas DEF Mem!Arrancada
      <3>4. Mem!PedirCreacion(Primero)
        BY <2>1, <3>1, <3>2, <3>3, MismoCardinal DEF Mem!PedirCreacion, Mem!varsArranque, Pids
      <3> QED BY <3>1, <3>4 DEF Mem!Next, Pids
    <2> QED BY <2>2, <2>3
  <1>3. CASE LeerRespuesta \/ QuitarDeNew \/ EncolarEnNew \/ AvisarNew \/ Reintentar
    BY <1>1, <1>3 DEF LeerRespuesta, QuitarDeNew, EncolarEnNew, AvisarNew, Reintentar
  <1>4. ASSUME NEW p \in Pids, NotificarFinalizacion(p) PROVE Mem!Next
    <2>1. estado[p] = "activo" BY <1>4, AlNotificar
    <2>2. Mem!PedirFinalizacion(p)
      BY <1>4, <2>1, MismoCardinal DEF NotificarFinalizacion, Mem!PedirFinalizacion, Mem!varsArranque
    <2> QED BY <2>2 DEF Mem!Next, Pids
  <1>5. CASE Atender
    <2>1. PICK p \in Pids : Mem!Manejador(p) BY <1>5 DEF Atender
    <2> QED BY <2>1 DEF Mem!Manejador, Mem!Next, Pids
  <1>6. CASE UNCHANGED vars BY <1>1, <1>6 DEF vars
  <1> QED BY <1>2, <1>3, <1>4, <1>5, <1>6 DEF Next, LargoPlazo, SystemCalls

\* What the kernel asks of the memory, from two threads and without waiting
\* for the finalizations, is what Memoria supposes of it: one creation at a
\* time and in pid order, each process created and finished once at most.
THEOREM ElKernelPideComoDebe == Spec => ImplementaMemoria
  <1>1. Init => Mem!Init BY DEF Init
  <1>2. Spec => Mem!Init /\ [][Mem!Next]_(Mem!vars)
    BY <1>1, Invariante, PasoDeMemoria, PTL DEF Spec
  <1> QED BY <1>2 DEF ImplementaMemoria, Mem!Spec
-----------------------------------------------------------------------------
(* The tokens of NEW, counted.                                              *)

\* A creation or an end that has not posted yet, and a process the long term
\* scheduler is with, count as tokens: each step but a NULL head keeps both
\* sides in step.
CuentaInv ==
    semProcesoEnNew + (IF cp = "libre" THEN 0 ELSE 1) + (IF lp.pc = "esperando" THEN 0 ELSE 1)
        <= Len(procesosEnNew) + Cardinality(Terminados)

\* A process that the memory created has threads that can run, once the long
\* term scheduler has read the answer and until it ends.
ActivosInv ==
    \A p \in Pids : estado[p] = "activo" => p \in enSistema \/ (lp.pc = "consultando" /\ p = lp.proceso)

CaidaInv == caida => Terminados # {}

LEMMA Finitos ==
    /\ IsFiniteSet(Terminados) /\ Cardinality(Terminados) \in Nat
    /\ Terminados = {} <=> Cardinality(Terminados) = 0
  <1>1. IsFiniteSet(Pids)
    BY CantProcesosNat, FS_Interval DEF Pids, Mem!Pids
  <1>2. IsFiniteSet(Terminados)
    BY <1>1, FS_Subset DEF Terminados
  <1> QED BY <1>2, FS_CardinalityType, FS_EmptySet

\* Only NotificarFinalizacion adds to Terminados.
LEMMA TerminadosHecho ==
    ASSUME IInv, [Next]_vars
    PROVE  \/ Terminados' = Terminados
           \/ \E p \in Pids : /\ NotificarFinalizacion(p)
                              /\ Cardinality(Terminados') = Cardinality(Terminados) + 1
                              /\ Terminados' # {}
  <1>0. estado \in [Pids -> {"nuevo", "rechazado"} \cup Mem!EnCreacion \cup Mem!Creado]
    BY DEF IInv, TipoInv
  <1>1. ASSUME UNCHANGED estado PROVE Terminados' = Terminados
    BY <1>1 DEF Terminados
  <1>2. CASE LeerRespuesta \/ QuitarDeNew \/ EncolarEnNew \/ AvisarNew \/ Reintentar \/ UNCHANGED vars
    BY <1>1, <1>2 DEF LeerRespuesta, QuitarDeNew, EncolarEnNew, AvisarNew, Reintentar, vars, varsMemoria
  <1>3. CASE TomarFicha
    <2>1. CASE UNCHANGED estado BY <1>1, <2>1
    <2>2. CASE ~UNCHANGED estado
      <3>1. /\ Elegido = Primero /\ Primero \in Pids /\ estado[Primero] \in {"nuevo", "rechazado"}
        BY <1>3, <2>2, AlTomarFicha
      <3>2. estado' = [estado EXCEPT ![Primero] = "pedido"]
        BY <1>3, <2>2, <3>1 DEF TomarFicha
      <3> QED BY <1>0, <3>1, <3>2 DEF Terminados
    <2> QED BY <2>1, <2>2
  <1>4. ASSUME NEW p \in Pids, NotificarFinalizacion(p)
        PROVE  Cardinality(Terminados') = Cardinality(Terminados) + 1 /\ Terminados' # {}
    <2>1. estado[p] = "activo" /\ estado' = [estado EXCEPT ![p] = "finPedido"]
      BY <1>4, AlNotificar DEF NotificarFinalizacion
    <2>2. Terminados' = Terminados \cup {p} /\ p \notin Terminados
      BY <1>0, <2>1 DEF Terminados
    <2> QED BY <2>2, Finitos, FS_AddElement
  <1>5. CASE Atender
    <2>1. PICK p \in Pids : Mem!Manejador(p) BY <1>5 DEF Atender
    <2>2. PICK e \in {"rechazado"} \cup Mem!EnCreacion \cup Mem!Creado :
             /\ estado' = [estado EXCEPT ![p] = e]
             /\ \/ estado[p] \in Mem!EnCreacion /\ e \in Mem!EnCreacion \cup {"rechazado", "activo"}
                \/ estado[p] \in {"finPedido", "quitado"} /\ e \in {"quitado", "terminado"}
      BY <2>1, ManejadorHecho DEF IInv
    <2> QED BY <1>0, <2>2 DEF Terminados, Mem!EnCreacion
  <1> QED BY <1>2, <1>3, <1>4, <1>5 DEF Next, LargoPlazo, SystemCalls

LEMMA ActivosSeMantiene == IInv /\ ActivosInv /\ [Next]_vars => ActivosInv'
  <1> SUFFICES ASSUME IInv, ActivosInv, [Next]_vars PROVE ActivosInv'
    OBVIOUS
  <1>0. estado \in [Pids -> {"nuevo", "rechazado"} \cup Mem!EnCreacion \cup Mem!Creado]
    BY DEF IInv, TipoInv
  <1>1. CASE QuitarDeNew \/ EncolarEnNew \/ AvisarNew \/ Reintentar \/ UNCHANGED vars
    BY <1>1 DEF QuitarDeNew, EncolarEnNew, AvisarNew, Reintentar, vars, varsMemoria, ActivosInv
  <1>2. CASE TomarFicha
    BY <1>0, <1>2 DEF TomarFicha, ActivosInv
  <1>3. CASE LeerRespuesta
    BY <1>3 DEF LeerRespuesta, varsMemoria, ActivosInv
  <1>4. ASSUME NEW p \in Pids, NotificarFinalizacion(p) PROVE ActivosInv'
    BY <1>0, <1>4 DEF NotificarFinalizacion, ActivosInv
  <1>5. CASE Atender
    <2>1. PICK p \in Pids : Mem!Manejador(p) BY <1>5 DEF Atender
    <2>2. UNCHANGED <<lp, enSistema, procesosEnNew, siguientePID>>
      BY <1>5 DEF Atender, varsNew
    <2>3. PICK e \in {"rechazado"} \cup Mem!EnCreacion \cup Mem!Creado :
             /\ estado' = [estado EXCEPT ![p] = e]
             /\ \/ estado[p] \in Mem!EnCreacion /\ e \in Mem!EnCreacion \cup {"rechazado", "activo"}
                \/ estado[p] \in {"finPedido", "quitado"} /\ e \in {"quitado", "terminado"}
      BY <2>1, ManejadorHecho DEF IInv
    <2>4. CASE estado[p] \in Mem!EnCreacion
      <3>1. lp.pc = "consultando" /\ p = lp.proceso
        <4>1. Primero \in Nat /\ p \in Int
          BY DEF IInv, ColaInv, Pids, Mem!Pids
        <4>2. p = Primero
          <5>1. ~(p < Primero) /\ ~(p > Primero)
            BY <2>4 DEF IInv, EstadosInv, Mem!EnCreacion, Mem!Creado
          <5> QED BY <4>1, <5>1
        <4>3. lp.pc = "consultando"
          BY <2>4, <4>2 DEF IInv, TipoInv, EstadosInv, Mem!EnCreacion, Mem!Creado
        <4> QED BY <4>2, <4>3 DEF IInv, ColaInv
      <3> QED BY <1>0, <2>2, <2>3, <3>1 DEF ActivosInv
    <2>5. CASE e \in {"quitado", "terminado"}
      BY <1>0, <2>2, <2>3, <2>5 DEF ActivosInv
    <2> QED BY <2>3, <2>4, <2>5
  <1> QED BY <1>1, <1>2, <1>3, <1>4, <1>5 DEF Next, LargoPlazo, SystemCalls

LEMMA CuentaSeMantiene == IInv /\ CuentaInv /\ [Next]_vars => CuentaInv'
  <1> SUFFICES ASSUME IInv, CuentaInv, [Next]_vars PROVE CuentaInv'
    OBVIOUS
  <1> DEFINE T == Cardinality(Terminados)
             L == Len(procesosEnNew)
             c == IF cp = "libre" THEN 0 ELSE 1
             l == IF lp.pc = "esperando" THEN 0 ELSE 1
  <1>1. /\ semProcesoEnNew \in Nat /\ T \in Nat /\ T' \in Nat /\ L \in Nat
        /\ c = 0 \/ c = 1
        /\ l = 0 \/ l = 1
        /\ semProcesoEnNew + c + l <= L + T
    <2>1. T' \in Nat
      <3>1. IsFiniteSet(Pids)
        BY CantProcesosNat, FS_Interval DEF Pids, Mem!Pids
      <3>2. IsFiniteSet(Terminados')
        BY <3>1, FS_Subset DEF Terminados
      <3> QED BY <3>2, FS_CardinalityType
    <2> QED BY <2>1, Finitos, DeLaCola DEF IInv, TipoInv, CuentaInv
  <1>2. SUFFICES semProcesoEnNew' + c' + l' <= L' + T'
    BY DEF CuentaInv
  <1>3. ASSUME Terminados' = Terminados PROVE T' = T
    BY <1>3
  <1>4. ASSUME ~ \E p \in Pids : NotificarFinalizacion(p) PROVE T' = T
    BY <1>3, <1>4, TerminadosHecho
  <1> HIDE DEF T
  <1>5. CASE EncolarEnNew
    <2>1. L' = L + 1
      BY <1>5, AppendProperties, DeLaCola DEF EncolarEnNew, IInv, TipoInv, Pids, Mem!Pids
    <2>2. c = 0 /\ c' = 1 /\ l' = l /\ semProcesoEnNew' = semProcesoEnNew
      BY <1>5 DEF EncolarEnNew
    <2>3. T' = T
      BY <1>3, <1>5 DEF EncolarEnNew, varsMemoria, Terminados
    <2> HIDE DEF L, c, l
    <2> QED BY <1>1, <2>1, <2>2, <2>3
  <1>6. CASE AvisarNew \/ Reintentar
    <2>1. /\ c = 1 /\ c' = 0 /\ l' = l /\ L' = L
          /\ semProcesoEnNew' = semProcesoEnNew \/ semProcesoEnNew' = semProcesoEnNew + 1
      BY <1>6 DEF AvisarNew, Reintentar
    <2>2. T' = T
      BY <1>3, <1>6 DEF AvisarNew, Reintentar, varsMemoria, Terminados
    <2> HIDE DEF L, c, l
    <2> QED BY <1>1, <2>1, <2>2
  <1>7. ASSUME NEW p \in Pids, NotificarFinalizacion(p)
        PROVE  semProcesoEnNew' + c' + l' <= L' + T'
    <2>1. c = 0 /\ c' = 1 /\ l' = l /\ L' = L /\ semProcesoEnNew' = semProcesoEnNew
      BY <1>7 DEF NotificarFinalizacion, varsNew
    <2>2. T' = T + 1
      <3>1. estado[p] = "activo" /\ estado' = [estado EXCEPT ![p] = "finPedido"]
        BY <1>7, AlNotificar DEF NotificarFinalizacion
      <3>2. estado \in [Pids -> {"nuevo", "rechazado"} \cup Mem!EnCreacion \cup Mem!Creado]
        BY DEF IInv, TipoInv
      <3>3. Terminados' = Terminados \cup {p} /\ p \notin Terminados
        BY <3>1, <3>2 DEF Terminados
      <3> QED BY <3>3, Finitos, FS_AddElement DEF T
    <2> HIDE DEF L, c, l
    <2> QED BY <1>1, <2>1, <2>2
  <1>8. CASE TomarFicha
    <2>1. /\ semProcesoEnNew' = semProcesoEnNew - 1 /\ c' = c /\ L' = L /\ l = 0 /\ (l' = 0 \/ l' = 1)
      BY <1>8 DEF TomarFicha
    <2>2. T' = T
      <3>1. cp' = cp BY <1>8 DEF TomarFicha
      <3>2. ~ \E p \in Pids : NotificarFinalizacion(p) BY <3>1 DEF NotificarFinalizacion
      <3> QED BY <1>4, <3>2
    <2> HIDE DEF L, c, l
    <2> QED BY <1>1, <2>1, <2>2
  <1>9. CASE LeerRespuesta
    <2>1. /\ semProcesoEnNew' = semProcesoEnNew /\ c' = c /\ L' = L /\ l = 1 /\ (l' = 0 \/ l' = 1)
      BY <1>9 DEF LeerRespuesta, varsNew
    <2>2. T' = T
      BY <1>3, <1>9 DEF LeerRespuesta, varsMemoria, Terminados
    <2> HIDE DEF L, c, l
    <2> QED BY <1>1, <2>1, <2>2
  <1>10. CASE QuitarDeNew
    <2>1. L' = L - 1
      <3>1. procesosEnNew # <<>> /\ procesosEnNew \in Seq(Pids)
        BY <1>10 DEF QuitarDeNew, IInv, ColaInv, TipoInv
      <3> QED BY <1>10, <3>1, HeadTailProperties DEF QuitarDeNew, Quitar
    <2>2. semProcesoEnNew' = semProcesoEnNew /\ c' = c /\ l = 1 /\ l' = 0
      BY <1>10 DEF QuitarDeNew
    <2>3. T' = T
      BY <1>3, <1>10 DEF QuitarDeNew, varsMemoria, Terminados
    <2> HIDE DEF L, c, l
    <2> QED BY <1>1, <2>1, <2>2, <2>3
  <1>11. CASE Atender \/ UNCHANGED vars
    <2>1. semProcesoEnNew' = semProcesoEnNew /\ c' = c /\ l' = l /\ L' = L /\ cp' = cp
      BY <1>11 DEF Atender, vars, varsNew
    <2>2. T' = T
      <3>1. ~ \E p \in Pids : NotificarFinalizacion(p) BY <2>1 DEF NotificarFinalizacion
      <3> QED BY <1>4, <3>1
    <2> HIDE DEF L, c, l
    <2> QED BY <1>1, <2>1, <2>2
  <1> QED BY <1>5, <1>6, <1>7, <1>8, <1>9, <1>10, <1>11 DEF Next, LargoPlazo, SystemCalls

LEMMA CaidaSeMantiene == IInv /\ CuentaInv /\ ActivosInv /\ CaidaInv /\ [Next]_vars => CaidaInv'
  <1> SUFFICES ASSUME IInv, CuentaInv, ActivosInv, CaidaInv, [Next]_vars, caida' PROVE Terminados' # {}
    BY DEF CaidaInv
  <1>1. Terminados # {} => Terminados' # {}
    BY TerminadosHecho
  <1>2. CASE caida
    BY <1>1, <1>2 DEF CaidaInv
  <1>3. CASE ~caida /\ TomarFicha
    <2>1. procesosEnNew = <<>> /\ semProcesoEnNew > 0 /\ lp.pc = "esperando"
      BY <1>3 DEF TomarFicha
    <2>2. semProcesoEnNew + (IF cp = "libre" THEN 0 ELSE 1) <= Cardinality(Terminados)
      BY <2>1, DeLaCola, Finitos DEF IInv, TipoInv, CuentaInv
    <2>3. Cardinality(Terminados) # 0
      BY <2>1, <2>2, Finitos DEF IInv, TipoInv
    <2> QED BY <1>1, <2>3, Finitos
  <1>4. CASE ~caida /\ QuitarDeNew
    <2>1. lp.pc = "admitido" /\ lp.proceso \notin enSistema /\ lp.proceso = Primero /\ Primero \in Pids
      BY <1>4, DeLaCola DEF QuitarDeNew, IInv, ColaInv
    <2>2. estado[Primero] \in Mem!Creado \ {"activo"}
      BY <2>1 DEF IInv, EstadosInv, ActivosInv
    <2> QED BY <1>1, <2>1, <2>2 DEF Mem!Creado, Terminados
  <1>5. CASE ~caida /\ (LeerRespuesta \/ EncolarEnNew \/ AvisarNew \/ Reintentar \/ Atender \/ UNCHANGED vars)
    BY <1>5 DEF LeerRespuesta, EncolarEnNew, AvisarNew, Reintentar, Atender, vars
  <1>6. CASE ~caida /\ \E p \in Pids : NotificarFinalizacion(p)
    BY <1>6 DEF NotificarFinalizacion
  <1> QED BY <1>2, <1>3, <1>4, <1>5, <1>6 DEF Next, LargoPlazo, SystemCalls

LEMMA SiempreCuenta == Spec => [](CuentaInv /\ ActivosInv /\ CaidaInv)
  <1>1. Init => CuentaInv /\ ActivosInv /\ CaidaInv
    <2> SUFFICES ASSUME Init PROVE CuentaInv /\ ActivosInv /\ CaidaInv
      OBVIOUS
    <2>1. /\ estado = [p \in Pids |-> "nuevo"] /\ procesosEnNew = <<>> /\ semProcesoEnNew = 0
          /\ lp.pc = "esperando" /\ cp = "libre" /\ caida = FALSE
      BY DEF Init, Mem!Init, Pids
    <2>2. CuentaInv
      BY <2>1, Inicial, DeLaCola, Finitos DEF CuentaInv
    <2> QED BY <2>1, <2>2 DEF ActivosInv, CaidaInv
  <1>2. IInv /\ (CuentaInv /\ ActivosInv /\ CaidaInv) /\ [Next]_vars => (CuentaInv /\ ActivosInv /\ CaidaInv)'
    BY CuentaSeMantiene, ActivosSeMantiene, CaidaSeMantiene
  <1> QED BY <1>1, <1>2, Invariante, PTL DEF Spec

\* The tokens of semProcesoEnNew and the processes of procesosEnNew part only
\* by the ends of processes, one token each (iniciar_proceso,
\* finalizar_proceso, planificador_largo_plazo).
THEOREM FichasDeMasSoloPorFinales == Spec => []FichasDeMasPorFinales
  <1>1. IInv /\ CuentaInv => FichasDeMasPorFinales
    <2> SUFFICES ASSUME IInv, CuentaInv PROVE FichasDeMasPorFinales
      OBVIOUS
    <2>1. semProcesoEnNew \in Nat /\ Len(procesosEnNew) \in Nat /\ Cardinality(Terminados) \in Nat
      BY DeLaCola, Finitos DEF IInv, TipoInv
    <2> QED BY <2>1 DEF CuentaInv, FichasDeMasPorFinales
  <1> QED BY <1>1, Invariante, SiempreCuenta, PTL

\* Neither the NULL head of procesosEnNew nor the log of an admitted process
\* (planificador_largo_plazo) kills the kernel before some process ends.
THEOREM NoCaeAntesDeUnFinal == Spec => [](caida => Terminados # {})
  <1>1. CaidaInv => (caida => Terminados # {})
    BY DEF CaidaInv
  <1> QED BY <1>1, SiempreCuenta, PTL
=============================================================================
