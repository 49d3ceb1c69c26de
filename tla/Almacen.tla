------------------------------ MODULE Almacen ------------------------------
(***************************************************************************)
(* What the file system promises about its blocks.  A block is of one file *)
(* at most and of that one for ever; a file is accepted when it has all    *)
(* the blocks it needs, and refused, without having got any, only when     *)
(* there are not enough free ones.  A crash may stop a file half way: it   *)
(* keeps what it got, and is neither accepted nor refused.                 *)
(***************************************************************************)
EXTENDS Integers, FiniteSets

CONSTANTS Pedidos,   \* files asked for
          Bloques    \* blocks of the disk

VARIABLES libres,      \* blocks of nobody
          bloquesDe,   \* file -> its blocks
          necesita,    \* file -> blocks it needs, 0 before it is asked for
          resultado    \* file -> "", "OK" or "ERROR"
vars == <<libres, bloquesDe, necesita, resultado>>

Init == /\ libres \in SUBSET Bloques
        /\ bloquesDe = [a \in Pedidos |-> {}]
        /\ necesita = [a \in Pedidos |-> 0]
        /\ resultado = [a \in Pedidos |-> ""]

Pedir(a) ==
    /\ necesita[a] = 0
    /\ necesita'[a] \in Nat \ {0}
    /\ necesita' = [necesita EXCEPT ![a] = necesita'[a]]
    /\ UNCHANGED <<libres, bloquesDe, resultado>>

EnCurso(a) == necesita[a] > 0 /\ resultado[a] = ""

Asignar(a) ==
    /\ EnCurso(a)
    /\ libres' \in SUBSET libres
    /\ LET dados == libres \ libres' IN
       /\ Cardinality(bloquesDe[a]) + Cardinality(dados) <= necesita[a]
       /\ bloquesDe' = [bloquesDe EXCEPT ![a] = @ \cup dados]
    /\ UNCHANGED <<necesita, resultado>>

Aceptar(a) ==
    /\ EnCurso(a)
    /\ Cardinality(bloquesDe[a]) = necesita[a]
    /\ resultado' = [resultado EXCEPT ![a] = "OK"]
    /\ UNCHANGED <<libres, bloquesDe, necesita>>

Rechazar(a) ==
    /\ EnCurso(a)
    /\ bloquesDe[a] = {}
    /\ Cardinality(libres) < necesita[a]
    /\ resultado' = [resultado EXCEPT ![a] = "ERROR"]
    /\ UNCHANGED <<libres, bloquesDe, necesita>>

Next == \E a \in Pedidos : Pedir(a) \/ Asignar(a) \/ Aceptar(a) \/ Rechazar(a)

Spec == Init /\ [][Next]_vars
=============================================================================
