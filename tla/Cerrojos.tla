----------------------------- MODULE Cerrojos -----------------------------
(***************************************************************************)
(* What the mutexes of the processes promise to their threads: one owner   *)
(* at a time, waiters served in the order they arrived, nobody waiting for *)
(* a mutex that has no owner, no owner displaced by somebody else, and no  *)
(* new owner before the old one leaves it.  A thread that finishes leaves  *)
(* all its mutexes in one step, so a step is a step of each lock or none.  *)
(***************************************************************************)
EXTENDS SequencesExt

CONSTANTS Mutexes,    \* the locks
          Clientes,   \* who may own a lock or wait for it
          Nadie       \* the owner of a free lock

VARIABLES dueno, cola
vars == <<dueno, cola>>

Init == /\ dueno = [m \in Mutexes |-> Nadie]
        /\ cola = [m \in Mutexes |-> <<>>]

Queda(m) == dueno'[m] = dueno[m] /\ cola'[m] = cola[m]

Tomar(m, h) == dueno[m] = Nadie /\ dueno'[m] = h /\ cola'[m] = cola[m]

Esperar(m, h) ==
    /\ dueno[m] # Nadie
    /\ h \notin ToSet(cola[m])
    /\ cola'[m] = Append(cola[m], h)
    /\ dueno'[m] = dueno[m]

\* The owner goes, and the first of the ones that stay gets the lock.
Pasar(m, quedan) ==
    /\ dueno[m] # Nadie
    /\ \/ quedan = <<>> /\ dueno'[m] = Nadie /\ cola'[m] = <<>>
       \/ quedan # <<>> /\ dueno'[m] = Head(quedan) /\ cola'[m] = Tail(quedan)

\* A waiter leaves; if it was the owner too, it leaves altogether.
Irse(m, h) ==
    LET quedan == RemoveFirst(cola[m], h) IN
    /\ h \in ToSet(cola[m])
    /\ \/ cola'[m] = quedan /\ dueno'[m] = dueno[m]
       \/ dueno[m] = h /\ Pasar(m, quedan)

Paso(m) ==
    \/ Queda(m) \/ Pasar(m, cola[m])
    \/ \E h \in Clientes : Tomar(m, h) \/ Esperar(m, h) \/ Irse(m, h)

Spec == Init /\ [][\A m \in Mutexes : Paso(m)]_vars
=============================================================================
