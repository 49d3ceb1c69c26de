--------------------------- MODULE MemoriaProofs ---------------------------
EXTENDS Memoria, SequenceTheorems, TLAPS

(* Removing position i: the length drops by one, what was before i keeps its *)
(* place and what was after it moves one place down (list_remove_by_condition).*)
LEMMA RemoveAtHecho ==
    ASSUME NEW S, NEW s \in Seq(S), NEW i \in 1 .. Len(s)
    PROVE  /\ RemoveAt(s, i) \in Seq(S)
           /\ Len(RemoveAt(s, i)) = Len(s) - 1
           /\ \A j \in 1 .. Len(s) - 1 :
                 RemoveAt(s, i)[j] = IF j < i THEN s[j] ELSE s[j + 1]
<1> DEFINE a == SubSeq(s, 1, i - 1)
           b == SubSeq(s, i + 1, Len(s))
<1>1. /\ a \in Seq(S) /\ Len(a) = i - 1
      /\ \A j \in 1 .. i - 1 : a[j] = s[j]
  OBVIOUS
<1>2. /\ b \in Seq(S) /\ Len(b) = Len(s) - i
      /\ \A j \in 1 .. Len(s) - i : b[j] = s[i + j]
  OBVIOUS
<1>3. RemoveAt(s, i) = a \o b
  BY DEF RemoveAt
<1> HIDE DEF a, b
<1>4. /\ a \o b \in Seq(S)
      /\ Len(a \o b) = Len(a) + Len(b)
      /\ \A j \in 1 .. Len(a) + Len(b) :
            (a \o b)[j] = IF j <= Len(a) THEN a[j] ELSE b[j - Len(a)]
  BY <1>1, <1>2, ConcatProperties
<1>5. Len(s) \in Nat /\ Len(a \o b) = Len(s) - 1
  BY <1>1, <1>2, <1>4
<1>6. ASSUME NEW j \in 1 .. Len(s) - 1
      PROVE  (a \o b)[j] = IF j < i THEN s[j] ELSE s[j + 1]
  <2>1. CASE j < i
    BY <1>1, <1>4, <1>5, <2>1
  <2>2. CASE j >= i
    <3>1. (a \o b)[j] = b[j - (i - 1)]
      BY <1>1, <1>2, <1>4, <1>5, <2>2
    <3>2. j - (i - 1) \in 1 .. Len(s) - i /\ i + (j - (i - 1)) = j + 1
      BY <1>5, <2>2
    <3>3. b[j - (i - 1)] = s[i + (j - (i - 1))]
      BY <1>2, <3>2
    <3> QED BY <2>2, <3>1, <3>2, <3>3
  <2> QED BY <1>5, <2>1, <2>2
<1> QED BY <1>3, <1>4, <1>5, <1>6
-----------------------------------------------------------------------------
(***************************************************************************)
(* The inductive invariant has two halves.  ControlInv speaks of requests  *)
(* and of the list of processes and is inductive by itself; DatosInv       *)
(* speaks of addresses and needs it: a release gives back the region of    *)
(* the process it was asked for, and two creations never overlap.          *)
(***************************************************************************)

\* A process is asked for only when every earlier one was created.
OrdenDeCreacion ==
    \A p, q \in Pids : q < p /\ estado[p] # "nuevo" => estado[q] \in Creado

\* The list holds the created processes that no finalization has taken off,
\* in pid order.
ListaFiel ==
    /\ \A i \in 1 .. Len(lista_de_procesos) :
          estado[lista_de_procesos[i]] \in {"activo", "finPedido"}
    /\ \A p \in Pids : estado[p] \in {"activo", "finPedido"} =>
          \E i \in 1 .. Len(lista_de_procesos) : lista_de_procesos[i] = p
    /\ \A i, j \in 1 .. Len(lista_de_procesos) :
          i < j => lista_de_procesos[i] < lista_de_procesos[j]

VictimaFiel ==
    \A p \in Pids : estado[p] \in {"quitado", "terminado"} => victima[p] = p

TipoControl ==
    /\ lista_de_procesos \in Seq(Pids)
    /\ particion \in 0 .. Len(Particiones)
    /\ estado \in [Pids -> {"nuevo", "rechazado"} \cup EnCreacion \cup Creado]
    /\ victima \in [Pids -> Pids \cup {SinVictima}]
    /\ tam \in [Pids -> Tamanios]

ControlInv ==
    /\ TipoControl
    /\ OrdenDeCreacion
    /\ ListaFiel
    /\ VictimaFiel
    /\ ~Arrancada => \A p \in Pids : estado[p] = "nuevo"

TipoDatos ==
    /\ huecos_libres \subseteq Bloque
    /\ inicio_de_particion \in Nat
    /\ region \in [Pids -> Bloque]
    /\ resto \in [Pids -> Bloque]

\* No empty block: an empty one could lie inside a merge unnoticed.
SinVacios ==
    /\ \A h \in huecos_libres : h.tamanio > 0
    /\ \A p \in Pids : Ocupa(p) => region[p].tamanio > 0
    /\ \A p \in Pids : estado[p] = "conResto" => resto[p].tamanio > 0

DatosInv ==
    /\ TipoDatos
    /\ SinVacios
    /\ SinSolapamiento
    /\ ~Arrancada => \A h \in huecos_libres : FinDe(h) <= inicio_de_particion

IInv == ControlInv /\ DatosInv
-----------------------------------------------------------------------------
LEMMA ControlInicial == Init => ControlInv
<1> SUFFICES ASSUME Init PROVE ControlInv
  OBVIOUS
<1>1. Len(Particiones) \in Nat
  BY ParticionesPositivas
<1>2. TipoControl
  BY <1>1 DEF Init, TipoControl, SinVictima, EnCreacion, Creado
<1>3. OrdenDeCreacion /\ VictimaFiel
  BY DEF Init, OrdenDeCreacion, VictimaFiel
<1>4. ListaFiel
  BY DEF Init, ListaFiel
<1> QED
  BY <1>2, <1>3, <1>4 DEF Init, ControlInv

LEMMA ControlSeMantiene == ControlInv /\ [Next]_vars => ControlInv'
<1> SUFFICES ASSUME ControlInv, [Next]_vars PROVE ControlInv'
  OBVIOUS
<1> USE DEF ControlInv, TipoControl
<1>1. CASE CrearParticion
  <2>1. Len(Particiones) \in Nat /\ particion < Len(Particiones)
    BY <1>1, ParticionesPositivas DEF CrearParticion, Arrancada
  <2> QED
    BY <1>1, <2>1 DEF CrearParticion, OrdenDeCreacion, ListaFiel, VictimaFiel, Arrancada
<1>2. ASSUME NEW p \in Pids, PedirCreacion(p) PROVE ControlInv'
  <2>1. TipoControl' /\ Arrancada'
    BY <1>2 DEF PedirCreacion, varsArranque, EnCreacion, Creado, Arrancada
  <2>2. OrdenDeCreacion'
    BY <1>2 DEF PedirCreacion, OrdenDeCreacion, Creado, Pids
  <2>3. ListaFiel' /\ VictimaFiel'
    BY <1>2 DEF PedirCreacion, ListaFiel, VictimaFiel
  <2> QED BY <2>1, <2>2, <2>3
<1>3. ASSUME NEW p \in Pids, PedirFinalizacion(p) PROVE ControlInv'
  <2>1. TipoControl' /\ Arrancada'
    BY <1>3 DEF PedirFinalizacion, varsArranque, EnCreacion, Creado, Arrancada
  <2>2. OrdenDeCreacion'
    BY <1>3 DEF PedirFinalizacion, OrdenDeCreacion, Creado
  <2>3. ListaFiel' /\ VictimaFiel'
    BY <1>3 DEF PedirFinalizacion, ListaFiel, VictimaFiel
  <2> QED BY <2>1, <2>2, <2>3
<1>4. ASSUME NEW p \in Pids, RechazarCreacion(p) PROVE ControlInv'
  <2>1. TipoControl' /\ Arrancada'
    BY <1>4 DEF RechazarCreacion, varsArranque, EnCreacion, Creado, Arrancada
  <2>2. OrdenDeCreacion'
    BY <1>4 DEF RechazarCreacion, OrdenDeCreacion, Creado
  <2>3. ListaFiel' /\ VictimaFiel'
    BY <1>4 DEF RechazarCreacion, ListaFiel, VictimaFiel
  <2> QED BY <2>1, <2>2, <2>3
<1>5. ASSUME NEW p \in Pids, TomarHueco(p) PROVE ControlInv'
  <2>0. /\ estado[p] = "pedido"
        /\ \/ estado' = [estado EXCEPT ![p] = "conResto"]
           \/ estado' = [estado EXCEPT ![p] = "cargando"]
        /\ UNCHANGED <<lista_de_procesos, particion, victima, tam>>
    BY <1>5 DEF TomarHueco, varsArranque
  <2>1. TipoControl' /\ Arrancada'
    BY <2>0 DEF EnCreacion, Creado, Arrancada
  <2>2. OrdenDeCreacion'
    BY <2>0 DEF OrdenDeCreacion, Creado
  <2>3. ListaFiel' /\ VictimaFiel'
    BY <2>0 DEF ListaFiel, VictimaFiel
  <2> QED BY <2>1, <2>2, <2>3
<1>6. ASSUME NEW p \in Pids, AgregarResto(p) PROVE ControlInv'
  <2>1. TipoControl' /\ Arrancada'
    BY <1>6 DEF AgregarResto, varsArranque, EnCreacion, Creado, Arrancada
  <2>2. OrdenDeCreacion'
    BY <1>6 DEF AgregarResto, OrdenDeCreacion, Creado
  <2>3. ListaFiel' /\ VictimaFiel'
    BY <1>6 DEF AgregarResto, ListaFiel, VictimaFiel
  <2> QED BY <2>1, <2>2, <2>3
<1>7. ASSUME NEW p \in Pids, AgregarProceso(p) PROVE ControlInv'
  <2> DEFINE l == lista_de_procesos
  <2>0. /\ estado[p] = "cargando"
        /\ l' = Append(l, p)
        /\ estado' = [estado EXCEPT ![p] = "activo"]
        /\ UNCHANGED <<particion, victima, tam>>
    BY <1>7 DEF AgregarProceso, varsArranque
  <2>1. TipoControl' /\ Arrancada'
    BY <2>0 DEF EnCreacion, Creado, Arrancada
  <2>2. OrdenDeCreacion'
    BY <2>0 DEF OrdenDeCreacion, Creado
  <2>3. /\ Len(l') = Len(l) + 1
        /\ l'[Len(l) + 1] = p
        /\ \A i \in 1 .. Len(l) : l'[i] = l[i] /\ l[i] \in Pids
    BY <2>0
  <2>4. \A i \in 1 .. Len(l) : l[i] < p
    <3> SUFFICES ASSUME NEW i \in 1 .. Len(l), ~(l[i] < p) PROVE FALSE
      OBVIOUS
    <3>1. estado[l[i]] \in {"activo", "finPedido"} /\ l[i] \in Pids
      BY DEF ListaFiel
    <3>2. p < l[i]
      BY <2>0, <3>1 DEF Pids
    <3> QED
      BY <2>0, <3>1, <3>2 DEF OrdenDeCreacion, Creado
  <2>5. ListaFiel'
    <3> HIDE DEF l
    <3>1. Len(l) \in Nat
      BY DEF l
    <3>2. \A i \in 1 .. Len(l') : estado'[l'[i]] \in {"activo", "finPedido"}
      BY <2>0, <2>3, <3>1 DEF ListaFiel, l
    <3>3. \A q \in Pids : estado'[q] \in {"activo", "finPedido"} =>
             \E i \in 1 .. Len(l') : l'[i] = q
      BY <2>0, <2>3, <3>1 DEF ListaFiel, l
    <3>4. ASSUME NEW i \in 1 .. Len(l'), NEW j \in 1 .. Len(l'), i < j
          PROVE  l'[i] < l'[j]
      <4>1. \A x, y \in 1 .. Len(l) : x < y => l[x] < l[y]
        BY DEF ListaFiel, l
      <4>2. i \in 1 .. Len(l)
        BY <2>3, <3>1, <3>4
      <4>3. CASE j = Len(l) + 1
        BY <2>3, <2>4, <4>2, <4>3
      <4>4. CASE j \in 1 .. Len(l)
        BY <2>3, <3>4, <4>1, <4>2, <4>4
      <4> QED BY <2>3, <3>1, <4>3, <4>4
    <3> QED BY <3>2, <3>3, <3>4 DEF ListaFiel, l
  <2>6. VictimaFiel'
    BY <2>0 DEF VictimaFiel
  <2> QED BY <2>1, <2>2, <2>5, <2>6
<1>8. ASSUME NEW p \in Pids, QuitarProceso(p) PROVE ControlInv'
  <2> DEFINE l == lista_de_procesos
  <2>0. /\ estado[p] = "finPedido"
        /\ estado' = [estado EXCEPT ![p] = "quitado"]
        /\ UNCHANGED <<particion, tam>>
    BY <1>8 DEF QuitarProceso, varsArranque
  <2>1. PICK i \in 1 .. Len(l) :
           /\ l[i] >= p
           /\ \A j \in 1 .. i - 1 : ~(l[j] >= p)
           /\ victima' = [victima EXCEPT ![p] = l[i]]
           /\ l' = RemoveAt(l, i)
    BY <1>8 DEF QuitarProceso, Coincide
  <2>2. PICK k \in 1 .. Len(l) : l[k] = p
    BY <2>0 DEF ListaFiel
  <2>3. l[i] = p
    <3>1. \A j \in 1 .. Len(l) : l[j] \in Int
      BY DEF Pids
    <3>2. k >= i
      BY <2>1, <2>2, <3>1
    <3>3. i < k => l[i] < l[k]
      BY DEF ListaFiel
    <3> QED BY <2>1, <2>2, <3>1, <3>2, <3>3
  <2>4. /\ l' \in Seq(Pids)
        /\ Len(l') = Len(l) - 1
        /\ \A j \in 1 .. Len(l) - 1 : l'[j] = IF j < i THEN l[j] ELSE l[j + 1]
    BY <2>1, RemoveAtHecho
  <2>5. TipoControl' /\ Arrancada'
    BY <2>0, <2>1, <2>3, <2>4 DEF EnCreacion, Creado, Arrancada
  <2>6. OrdenDeCreacion'
    BY <2>0 DEF OrdenDeCreacion, Creado
  <2>7. VictimaFiel'
    BY <2>0, <2>1, <2>3 DEF VictimaFiel
  <2>8. ListaFiel'
    <3> HIDE DEF l
    <3>0. Len(l) \in Nat /\ \A j \in 1 .. Len(l) : l[j] \in Pids
      BY DEF l
    <3>1. Len(l) \in Nat /\ \A j \in 1 .. Len(l) : l[j] \in Pids /\ l[j] \in Int
      BY <3>0 DEF Pids
    <3>2. \A j \in 1 .. Len(l) : j # i => l[j] # p
      BY <2>3, <3>1 DEF ListaFiel, l
    <3>3. \A j \in 1 .. Len(l') : estado'[l'[j]] \in {"activo", "finPedido"}
      <4> SUFFICES ASSUME NEW j \in 1 .. Len(l')
                   PROVE  estado'[l'[j]] \in {"activo", "finPedido"}
        OBVIOUS
      <4>1. PICK m \in 1 .. Len(l) : m # i /\ l'[j] = l[m]
        BY <2>4, <3>1
      <4>2. l[m] \in Pids /\ l[m] # p /\ estado[l[m]] \in {"activo", "finPedido"}
        BY <3>1, <3>2, <4>1 DEF ListaFiel, l
      <4> QED BY <2>0, <4>1, <4>2
    <3>4. \A q \in Pids : estado'[q] \in {"activo", "finPedido"} =>
             \E j \in 1 .. Len(l') : l'[j] = q
      <4> SUFFICES ASSUME NEW q \in Pids, estado'[q] \in {"activo", "finPedido"}
                   PROVE  \E j \in 1 .. Len(l') : l'[j] = q
        OBVIOUS
      <4>1. q # p /\ estado[q] \in {"activo", "finPedido"}
        BY <2>0
      <4>2. PICK m \in 1 .. Len(l) : l[m] = q
        BY <4>1 DEF ListaFiel, l
      <4>3. m # i
        BY <2>3, <4>1, <4>2
      <4>4. CASE m < i
        BY <2>4, <3>1, <4>2, <4>4
      <4>5. CASE m > i
        <5>1. m - 1 \in 1 .. Len(l') /\ l'[m - 1] = l[m]
          BY <2>4, <3>1, <4>5
        <5> QED BY <4>2, <5>1
      <4> QED BY <4>3, <4>4, <4>5
    <3>5. ASSUME NEW j \in 1 .. Len(l'), NEW m \in 1 .. Len(l'), j < m
          PROVE  l'[j] < l'[m]
      <4> DEFINE antes(x) == IF x < i THEN x ELSE x + 1
      <4>1. \A x, y \in 1 .. Len(l) : x < y => l[x] < l[y]
        BY DEF ListaFiel, l
      <4>2. \A x \in 1 .. Len(l') : antes(x) \in 1 .. Len(l) /\ l'[x] = l[antes(x)]
        BY <2>4, <3>1
      <4>3. antes(j) < antes(m)
        BY <2>4, <3>1, <3>5
      <4> HIDE DEF antes
      <4> QED BY <4>1, <4>2, <4>3
    <3> QED BY <3>3, <3>4, <3>5 DEF ListaFiel, l
  <2> QED BY <2>5, <2>6, <2>7, <2>8
<1>9. ASSUME NEW p \in Pids, LiberarRegion(p) PROVE ControlInv'
  <2>1. TipoControl' /\ Arrancada'
    BY <1>9 DEF LiberarRegion, varsArranque, EnCreacion, Creado, Arrancada
  <2>2. OrdenDeCreacion'
    BY <1>9 DEF LiberarRegion, OrdenDeCreacion, Creado
  <2>3. ListaFiel' /\ VictimaFiel'
    BY <1>9 DEF LiberarRegion, ListaFiel, VictimaFiel
  <2> QED BY <2>1, <2>2, <2>3
<1>10. CASE UNCHANGED vars
  BY <1>10 DEF vars, OrdenDeCreacion, ListaFiel, VictimaFiel, Arrancada
<1> QED
  BY <1>1, <1>2, <1>3, <1>4, <1>5, <1>6, <1>7, <1>8, <1>9, <1>10 DEF Next
-----------------------------------------------------------------------------
LEMMA AjenosSimetrico ==
    ASSUME NEW b \in Bloque, NEW c \in Bloque
    PROVE  Ajenos(b, c) <=> Ajenos(c, b)
BY DEF Ajenos

\* n replaces the holes viejos and the freed region b, and nothing else.
Fusion(n, viejos, b) ==
    /\ n \in Bloque /\ n.tamanio > 0
    /\ viejos \subseteq huecos_libres
    /\ huecos_libres' = (huecos_libres \ viejos) \cup {n}
    /\ \A c \in Bloque :
          c.tamanio > 0 /\ Ajenos(b, c) /\ (\A v \in viejos : Ajenos(v, c))
             => Ajenos(n, c)
    /\ \A d \in Nat :
          Contiene(b, d) \/ (\E v \in viejos : Contiene(v, d)) => Contiene(n, d)

(* Every branch of consolidar_huecos_libres_aledanios, and crear_hueco, puts *)
(* in the list one block made of the freed region and the holes it replaces.*)
LEMMA LiberarEsUnaFusion ==
    ASSUME DatosInv, NEW p \in Pids, LiberarRegion(p), victima[p] = p
    PROVE  \E n, viejos : Fusion(n, viejos, region[p])
<1> DEFINE b == region[p]
<1>1. /\ b \in Bloque /\ b.inicio \in Nat /\ b.tamanio \in Nat /\ b.tamanio > 0
      /\ huecos_libres \subseteq Bloque
      /\ \A h \in huecos_libres : /\ h.inicio \in Nat /\ h.tamanio \in Nat
                                  /\ h.tamanio > 0
  BY DEF DatosInv, TipoDatos, SinVacios, LiberarRegion, Ocupa, Bloque
<1> HIDE DEF b
<1>2. CASE huecos_libres' = crear_hueco(b)
  <2>1. Fusion(b, {}, b)
    BY <1>1, <1>2 DEF Fusion, crear_hueco
  <2> QED BY <2>1 DEF b
<1>3. CASE \E izq \in buscar_hueco_por_posicion_limite(b.inicio),
              der \in buscar_hueco_por_posicion_inicial(FinDe(b)) :
              huecos_libres' = ConsolidarDosLados(b, izq, der)
  <2>1. PICK izq \in huecos_libres, der \in huecos_libres :
           /\ FinDe(izq) = b.inicio /\ der.inicio = FinDe(b)
           /\ huecos_libres' = ConsolidarDosLados(b, izq, der)
    BY <1>3 DEF buscar_hueco_por_posicion_limite, buscar_hueco_por_posicion_inicial
  <2> DEFINE n == [inicio |-> izq.inicio,
                   tamanio |-> izq.tamanio + b.tamanio + der.tamanio]
  <2>2. n \in Bloque /\ n.tamanio > 0 /\ n.inicio = izq.inicio /\ FinDe(n) = FinDe(der)
    BY <1>1, <2>1 DEF Bloque, FinDe
  <2>3. huecos_libres' = (huecos_libres \ {izq, der}) \cup {n}
    BY <2>1 DEF ConsolidarDosLados
  <2> HIDE DEF n
  <2>4. ASSUME NEW c \in Bloque, c.tamanio > 0, Ajenos(b, c), Ajenos(izq, c), Ajenos(der, c)
        PROVE  Ajenos(n, c)
    <3>1. c.inicio \in Nat /\ c.tamanio \in Nat
      BY DEF Bloque
    <3> QED BY <1>1, <2>1, <2>2, <2>4, <3>1 DEF Ajenos, FinDe
  <2>5. ASSUME NEW d \in Nat, Contiene(b, d) \/ Contiene(izq, d) \/ Contiene(der, d)
        PROVE  Contiene(n, d)
    BY <1>1, <2>1, <2>2, <2>5 DEF Contiene, FinDe
  <2>6. Fusion(n, {izq, der}, b)
    BY <2>1, <2>2, <2>3, <2>4, <2>5 DEF Fusion
  <2> QED BY <2>6 DEF b
<1>4. CASE \E izq \in buscar_hueco_por_posicion_limite(b.inicio) :
              huecos_libres' = ConsolidarIzquierdo(b, izq)
  <2>1. PICK izq \in huecos_libres :
           /\ FinDe(izq) = b.inicio
           /\ huecos_libres' = ConsolidarIzquierdo(b, izq)
    BY <1>4 DEF buscar_hueco_por_posicion_limite
  <2> DEFINE n == [inicio |-> izq.inicio, tamanio |-> izq.tamanio + b.tamanio]
  <2>2. n \in Bloque /\ n.tamanio > 0 /\ n.inicio = izq.inicio /\ FinDe(n) = FinDe(b)
    BY <1>1, <2>1 DEF Bloque, FinDe
  <2>3. huecos_libres' = (huecos_libres \ {izq}) \cup {n}
    BY <2>1 DEF ConsolidarIzquierdo
  <2> HIDE DEF n
  <2>4. ASSUME NEW c \in Bloque, c.tamanio > 0, Ajenos(b, c), Ajenos(izq, c)
        PROVE  Ajenos(n, c)
    <3>1. c.inicio \in Nat /\ c.tamanio \in Nat
      BY DEF Bloque
    <3> QED BY <1>1, <2>1, <2>2, <2>4, <3>1 DEF Ajenos, FinDe
  <2>5. ASSUME NEW d \in Nat, Contiene(b, d) \/ Contiene(izq, d)
        PROVE  Contiene(n, d)
    BY <1>1, <2>1, <2>2, <2>5 DEF Contiene, FinDe
  <2>6. Fusion(n, {izq}, b)
    BY <2>1, <2>2, <2>3, <2>4, <2>5 DEF Fusion
  <2> QED BY <2>6 DEF b
<1>5. CASE \E der \in buscar_hueco_por_posicion_inicial(FinDe(b)) :
              huecos_libres' = ConsolidarDerecho(b, der)
  <2>1. PICK der \in huecos_libres :
           /\ der.inicio = FinDe(b)
           /\ huecos_libres' = ConsolidarDerecho(b, der)
    BY <1>5 DEF buscar_hueco_por_posicion_inicial
  <2> DEFINE n == [inicio |-> b.inicio, tamanio |-> b.tamanio + der.tamanio]
  <2>2. n \in Bloque /\ n.tamanio > 0 /\ n.inicio = b.inicio /\ FinDe(n) = FinDe(der)
    BY <1>1, <2>1 DEF Bloque, FinDe
  <2>3. huecos_libres' = (huecos_libres \ {der}) \cup {n}
    BY <2>1 DEF ConsolidarDerecho
  <2> HIDE DEF n
  <2>4. ASSUME NEW c \in Bloque, c.tamanio > 0, Ajenos(b, c), Ajenos(der, c)
        PROVE  Ajenos(n, c)
    <3>1. c.inicio \in Nat /\ c.tamanio \in Nat
      BY DEF Bloque
    <3> QED BY <1>1, <2>1, <2>2, <2>4, <3>1 DEF Ajenos, FinDe
  <2>5. ASSUME NEW d \in Nat, Contiene(b, d) \/ Contiene(der, d)
        PROVE  Contiene(n, d)
    BY <1>1, <2>1, <2>2, <2>5 DEF Contiene, FinDe
  <2>6. Fusion(n, {der}, b)
    BY <2>1, <2>2, <2>3, <2>4, <2>5 DEF Fusion
  <2> QED BY <2>6 DEF b
<1> QED
  BY <1>2, <1>3, <1>4, <1>5
     DEF LiberarRegion, consolidar_huecos_libres_aledanios, b
-----------------------------------------------------------------------------
(* A step that moves requests along without touching an address. *)
LEMMA DatosSinCambio ==
    ASSUME DatosInv,
           UNCHANGED <<huecos_libres, region, resto, varsArranque>>,
           \A p \in Pids : Ocupa(p)' => Ocupa(p),
           \A p \in Pids : estado'[p] = "conResto" => estado[p] = "conResto"
    PROVE  DatosInv'
<1> USE DEF DatosInv, varsArranque
<1>1. TipoDatos'
  BY DEF TipoDatos
<1>2. SinVacios'
  BY DEF SinVacios
<1>3. SinSolapamiento'
  BY DEF SinSolapamiento
<1>4. ~Arrancada' => \A h \in huecos_libres' : FinDe(h) <= inicio_de_particion'
  BY DEF Arrancada
<1> QED BY <1>1, <1>2, <1>3, <1>4

LEMMA DatosInicial == Init => DatosInv
<1> SUFFICES ASSUME Init PROVE DatosInv
  OBVIOUS
<1>1. \A h \in huecos_libres : /\ h = [inicio |-> 0, tamanio |-> TamMemoria]
                               /\ Esquema # "FIJAS"
  BY DEF Init
<1>2. \A p \in Pids : ~Ocupa(p) /\ estado[p] # "conResto"
  BY DEF Init, Ocupa
<1>3. Vacio \in Bloque
  BY DEF Vacio, Bloque
<1>4. TipoDatos
  BY <1>1, <1>3, TamMemoriaPositivo DEF Init, TipoDatos, Bloque
<1>5. SinVacios
  BY <1>1, <1>2, TamMemoriaPositivo DEF SinVacios
<1>6. SinSolapamiento
  BY <1>1, <1>2 DEF SinSolapamiento
<1> QED BY <1>1, <1>4, <1>5, <1>6 DEF DatosInv, Arrancada
-----------------------------------------------------------------------------
LEMMA BusquedaEligeHueco ==
    ASSUME NEW t, NEW h \in buscar_hueco_libre(t)
    PROVE  h \in huecos_libres /\ h.tamanio >= t
BY AlgoritmoConocido
   DEF buscar_hueco_libre, first_fit, best_fit, worst_fit, Candidatos

\* What taking hole h for process p does to p's own blocks.
Toma(p, h) ==
    /\ estado[p] = "pedido"
    /\ h \in huecos_libres /\ h.tamanio >= tam[p]
    /\ huecos_libres' = huecos_libres \ {h}
    /\ \A q \in Pids \ {p} : /\ region'[q] = region[q] /\ resto'[q] = resto[q]
                             /\ estado'[q] = estado[q]
    /\ region'[p] \in Bloque /\ resto'[p] \in Bloque
    /\ region'[p].inicio = h.inicio /\ region'[p].tamanio > 0
    /\ \/ /\ estado'[p] = "conResto"
          /\ resto'[p].inicio = FinDe(region'[p])
          /\ resto'[p].tamanio > 0 /\ FinDe(resto'[p]) = FinDe(h)
       \/ /\ estado'[p] = "cargando"
          /\ FinDe(region'[p]) = FinDe(h)
    /\ region' \in [Pids -> Bloque] /\ resto' \in [Pids -> Bloque]
    /\ UNCHANGED varsArranque

LEMMA TomarHuecoHecho ==
    ASSUME ControlInv, DatosInv, NEW p \in Pids, TomarHueco(p)
    PROVE  \E h : Toma(p, h)
<1>1. PICK h \in buscar_hueco_libre(tam[p]) :
         /\ huecos_libres' = huecos_libres \ {h}
         /\ IF SeParte(h, tam[p])
            THEN /\ region' = [region EXCEPT ![p] =
                        [inicio |-> h.inicio, tamanio |-> tam[p]]]
                 /\ resto' = [resto EXCEPT ![p] =
                        [inicio |-> h.inicio + tam[p],
                         tamanio |-> h.tamanio - tam[p]]]
                 /\ estado' = [estado EXCEPT ![p] = "conResto"]
            ELSE /\ region' = [region EXCEPT ![p] = h]
                 /\ estado' = [estado EXCEPT ![p] = "cargando"]
                 /\ UNCHANGED resto
  BY DEF TomarHueco
<1>2. h \in huecos_libres /\ h.tamanio >= tam[p]
  BY BusquedaEligeHueco
<1>3. h \in Bloque /\ h.inicio \in Nat /\ h.tamanio \in Nat /\ h.tamanio > 0
  BY <1>2 DEF DatosInv, TipoDatos, SinVacios, Bloque
<1>4. tam[p] \in Nat /\ tam[p] > 0
  <2>1. tam[p] \in Tamanios
    BY DEF ControlInv, TipoControl
  <2>2. tam[p] \in Nat \ {0}
    BY <2>1, TamaniosPositivos
  <2> QED BY <2>2
<1>5. /\ estado[p] = "pedido" /\ UNCHANGED varsArranque
      /\ region \in [Pids -> Bloque] /\ resto \in [Pids -> Bloque]
      /\ estado \in [Pids -> {"nuevo", "rechazado"} \cup EnCreacion \cup Creado]
  BY DEF TomarHueco, DatosInv, TipoDatos, ControlInv, TipoControl
<1>6. CASE SeParte(h, tam[p])
  <2>1. h.tamanio > tam[p]
    BY <1>6 DEF SeParte
  <2>2. /\ [inicio |-> h.inicio, tamanio |-> tam[p]] \in Bloque
        /\ [inicio |-> h.inicio + tam[p], tamanio |-> h.tamanio - tam[p]] \in Bloque
    BY <1>3, <1>4, <2>1 DEF Bloque
  <2>3. Toma(p, h)
    BY <1>1, <1>2, <1>3, <1>4, <1>5, <1>6, <2>1, <2>2 DEF Toma, FinDe
  <2> QED BY <2>3
<1>7. CASE ~SeParte(h, tam[p])
  <2>1. Toma(p, h)
    BY <1>1, <1>2, <1>3, <1>4, <1>5, <1>7 DEF Toma, FinDe
  <2> QED BY <2>1
<1> QED BY <1>6, <1>7

\* Two creations never carry the rest of a hole at once.
LEMMA UnSoloResto ==
    ASSUME ControlInv, NEW p \in Pids, NEW q \in Pids,
           estado[p] \in EnCreacion, estado[q] \in EnCreacion
    PROVE  p = q
<1>1. p < q \/ q < p \/ p = q
  BY DEF Pids
<1> QED BY <1>1 DEF ControlInv, OrdenDeCreacion, EnCreacion, Creado
-----------------------------------------------------------------------------
LEMMA DatosSeMantiene == ControlInv /\ DatosInv /\ [Next]_vars => DatosInv'
<1> SUFFICES ASSUME ControlInv, DatosInv, [Next]_vars PROVE DatosInv'
  OBVIOUS
<1>0. /\ estado \in [Pids -> {"nuevo", "rechazado"} \cup EnCreacion \cup Creado]
      /\ region \in [Pids -> Bloque] /\ resto \in [Pids -> Bloque]
      /\ huecos_libres \subseteq Bloque /\ inicio_de_particion \in Nat
  BY DEF ControlInv, TipoControl, DatosInv, TipoDatos
<1>1. CASE CrearParticion
  <2> DEFINE n == [inicio |-> inicio_de_particion,
                   tamanio |-> Particiones[particion + 1]]
  <2>1. \A p \in Pids : estado'[p] = "nuevo"
    BY <1>1 DEF CrearParticion, ControlInv
  <2>2. \A p \in Pids : ~Ocupa(p)' /\ estado'[p] # "conResto"
    BY <2>1 DEF Ocupa
  <2>3. Particiones[particion + 1] \in Nat \ {0}
    BY <1>1, ParticionesPositivas
       DEF CrearParticion, Arrancada, ControlInv, TipoControl
  <2>4. n \in Bloque /\ n.tamanio > 0 /\ n.inicio = inicio_de_particion
        /\ FinDe(n) = inicio_de_particion'
    BY <1>0, <1>1, <2>3 DEF CrearParticion, Bloque, FinDe
  <2>5. huecos_libres' = huecos_libres \cup {n}
    BY <1>1 DEF CrearParticion
  <2> HIDE DEF n
  <2>6. \A h \in huecos_libres : FinDe(h) <= n.inicio
    BY <1>1, <2>4 DEF CrearParticion, DatosInv
  <2>7. TipoDatos'
    BY <1>0, <1>1, <2>3, <2>4, <2>5 DEF TipoDatos, CrearParticion
  <2>8. SinVacios'
    BY <2>2, <2>4, <2>5 DEF SinVacios, DatosInv
  <2>9. SinSolapamiento'
    <3>1. \A h, g \in huecos_libres' : h # g => Ajenos(h, g)
      BY <2>5, <2>6 DEF SinSolapamiento, DatosInv, Ajenos
    <3> QED BY <2>2, <3>1 DEF SinSolapamiento
  <2>10. \A h \in huecos_libres' : FinDe(h) <= inicio_de_particion'
    <3>1. \A h \in huecos_libres : FinDe(h) \in Nat
      BY <1>0 DEF Bloque, FinDe
    <3>2. n.inicio <= inicio_de_particion' /\ inicio_de_particion' \in Nat /\ n.inicio \in Nat
      BY <1>0, <1>1, <2>3, <2>4 DEF CrearParticion
    <3> QED BY <2>4, <2>5, <2>6, <3>1, <3>2
  <2> QED BY <2>7, <2>8, <2>9, <2>10 DEF DatosInv
<1>2. ASSUME NEW p \in Pids, PedirCreacion(p) PROVE DatosInv'
  BY <1>0, <1>2, DatosSinCambio DEF PedirCreacion, Ocupa
<1>3. ASSUME NEW p \in Pids, PedirFinalizacion(p) PROVE DatosInv'
  BY <1>0, <1>3, DatosSinCambio DEF PedirFinalizacion, Ocupa
<1>4. ASSUME NEW p \in Pids, RechazarCreacion(p) PROVE DatosInv'
  BY <1>0, <1>4, DatosSinCambio DEF RechazarCreacion, Ocupa
<1>5. ASSUME NEW p \in Pids, TomarHueco(p) PROVE DatosInv'
  <2>1. PICK h : Toma(p, h)
    BY <1>5, TomarHuecoHecho
  <2> DEFINE r == region'[p]
             s == resto'[p]
  <2>2. /\ h \in Bloque /\ r \in Bloque /\ s \in Bloque
        /\ \A b \in Bloque : b.inicio \in Nat /\ b.tamanio \in Nat
    BY <1>0, <2>1 DEF Toma, Bloque
  <2>3. \A c \in Bloque : Ajenos(h, c) => Ajenos(r, c)
    BY <2>1, <2>2 DEF Toma, Ajenos, FinDe
  <2>4. estado'[p] = "conResto" =>
           /\ Ajenos(s, r) /\ s.tamanio > 0
           /\ \A c \in Bloque : Ajenos(h, c) => Ajenos(s, c)
    BY <2>1, <2>2 DEF Toma, Ajenos, FinDe
  <2>5. /\ ~Ocupa(p) /\ estado[p] \in EnCreacion
        /\ \A q \in Pids \ {p} : (Ocupa(q)' <=> Ocupa(q)) /\ region'[q] = region[q]
        /\ \A q \in Pids \ {p} : estado'[q] # "conResto"
    BY <2>1, UnSoloResto DEF Toma, Ocupa, EnCreacion
  <2>6. TipoDatos'
    BY <1>0, <2>1 DEF Toma, TipoDatos, varsArranque
  <2>7. SinVacios'
    BY <2>1, <2>4, <2>5 DEF SinVacios, DatosInv, Toma
  <2>8. \A g \in huecos_libres' :
           g \in huecos_libres /\ g \in Bloque /\ Ajenos(h, g)
    BY <1>0, <2>1 DEF Toma, DatosInv, SinSolapamiento
  <2>9. \A q \in Pids \ {p} : Ocupa(q) => region[q] \in Bloque /\ Ajenos(h, region[q])
    BY <1>0, <2>1, <2>2, AjenosSimetrico DEF Toma, DatosInv, SinSolapamiento
  <2> HIDE DEF r, s
  <2>10. SinSolapamiento'
    <3>1. \A g, k \in huecos_libres' : g # k => Ajenos(g, k)
      BY <2>8 DEF DatosInv, SinSolapamiento
    <3>2. \A q \in Pids : Ocupa(q)' => \A g \in huecos_libres' : Ajenos(region'[q], g)
      BY <2>3, <2>5, <2>8 DEF DatosInv, SinSolapamiento, r
    <3>3. \A q \in Pids \ {p} : Ocupa(q)' => Ajenos(r, region'[q])
      BY <2>3, <2>5, <2>9
    <3>4. \A q \in Pids : \A k \in Pids \ {q} :
             Ocupa(q)' /\ Ocupa(k)' => Ajenos(region'[q], region'[k])
      <4> SUFFICES ASSUME NEW q \in Pids, NEW k \in Pids \ {q}, Ocupa(q)', Ocupa(k)'
                   PROVE  Ajenos(region'[q], region'[k])
        OBVIOUS
      <4>1. CASE q = p
        BY <3>3, <4>1 DEF r
      <4>2. CASE k = p
        <5>1. region'[q] \in Bloque
          BY <2>5, <2>9, <4>2
        <5> QED BY <2>2, <3>3, <4>2, <5>1, AjenosSimetrico DEF r
      <4>3. CASE q # p /\ k # p
        BY <2>5, <4>3 DEF DatosInv, SinSolapamiento
      <4> QED BY <4>1, <4>2, <4>3
    <3>5. \A q \in Pids : estado'[q] = "conResto" =>
             /\ q = p
             /\ \A g \in huecos_libres' : Ajenos(s, g)
             /\ \A k \in Pids : Ocupa(k)' => Ajenos(s, region'[k])
      BY <2>4, <2>5, <2>8, <2>9 DEF r
    <3> QED BY <3>1, <3>2, <3>4, <3>5 DEF SinSolapamiento, s
  <2>11. ~Arrancada' => \A g \in huecos_libres' : FinDe(g) <= inicio_de_particion'
    BY <2>1, <2>8 DEF Toma, varsArranque, Arrancada, DatosInv
  <2> QED BY <2>6, <2>7, <2>10, <2>11 DEF DatosInv
<1>6. ASSUME NEW p \in Pids, AgregarResto(p) PROVE DatosInv'
  <2>1. /\ estado[p] = "conResto" /\ Ocupa(p) /\ estado[p] \in EnCreacion
        /\ huecos_libres' = huecos_libres \cup {resto[p]}
        /\ UNCHANGED <<varsArranque, region, resto>>
        /\ \A q \in Pids : Ocupa(q)' <=> Ocupa(q)
    BY <1>0, <1>6 DEF AgregarResto, Ocupa, EnCreacion
  <2>2. \A q \in Pids : estado'[q] # "conResto"
    BY <1>0, <1>6, UnSoloResto DEF AgregarResto, EnCreacion
  <2>3. TipoDatos'
    BY <1>0, <2>1 DEF TipoDatos, varsArranque
  <2>4. SinVacios'
    BY <2>1, <2>2 DEF SinVacios, DatosInv
  <2>5. SinSolapamiento'
    <3>1. \A h \in huecos_libres : Ajenos(resto[p], h) /\ Ajenos(h, resto[p])
      BY <1>0, <2>1, AjenosSimetrico DEF DatosInv, SinSolapamiento
    <3>2. \A q \in Pids : Ocupa(q) => Ajenos(region[q], resto[p])
      BY <1>0, <2>1, AjenosSimetrico DEF DatosInv, SinSolapamiento
    <3> QED BY <2>1, <2>2, <3>1, <3>2 DEF DatosInv, SinSolapamiento
  <2>6. Arrancada'
    BY <2>1 DEF ControlInv, Arrancada, varsArranque
  <2> QED BY <2>3, <2>4, <2>5, <2>6 DEF DatosInv
<1>7. ASSUME NEW p \in Pids, AgregarProceso(p) PROVE DatosInv'
  BY <1>0, <1>7, DatosSinCambio DEF AgregarProceso, Ocupa
<1>8. ASSUME NEW p \in Pids, QuitarProceso(p) PROVE DatosInv'
  BY <1>0, <1>8, DatosSinCambio DEF QuitarProceso, Ocupa
<1>9. ASSUME NEW p \in Pids, LiberarRegion(p) PROVE DatosInv'
  <2>1. victima[p] = p /\ estado[p] = "quitado"
    BY <1>9 DEF ControlInv, VictimaFiel, LiberarRegion
  <2>2. PICK n, viejos : Fusion(n, viejos, region[p])
    BY <1>9, <2>1, LiberarEsUnaFusion
  <2>3. /\ Ocupa(p) /\ ~Ocupa(p)' /\ UNCHANGED <<varsArranque, region, resto>>
        /\ \A q \in Pids \ {p} : estado'[q] = estado[q] /\ (Ocupa(q)' <=> Ocupa(q))
        /\ estado'[p] # "conResto"
    BY <1>0, <1>9, <2>1 DEF LiberarRegion, Ocupa
  <2>4. /\ n \in Bloque /\ n.tamanio > 0 /\ viejos \subseteq huecos_libres
        /\ huecos_libres' = (huecos_libres \ viejos) \cup {n}
    BY <2>2 DEF Fusion
  <2>5. TipoDatos'
    BY <1>0, <2>3, <2>4 DEF TipoDatos, varsArranque
  <2>6. SinVacios'
    BY <2>3, <2>4 DEF SinVacios, DatosInv
  \* A block apart from the freed region and from every old hole it replaces.
  <2>7. \A c \in Bloque :
           c.tamanio > 0 /\ Ajenos(region[p], c) /\ (\A v \in viejos : Ajenos(v, c))
              => Ajenos(n, c) /\ Ajenos(c, n)
    BY <2>2, <2>4, AjenosSimetrico DEF Fusion
  <2>8. \A h \in huecos_libres \ viejos : Ajenos(n, h) /\ Ajenos(h, n)
    BY <1>0, <2>3, <2>4, <2>7 DEF DatosInv, SinSolapamiento, SinVacios
  <2>9. \A q \in Pids \ {p} : Ocupa(q) => Ajenos(region[q], n)
    <3> SUFFICES ASSUME NEW q \in Pids \ {p}, Ocupa(q) PROVE Ajenos(region[q], n)
      OBVIOUS
    <3>1. region[q] \in Bloque /\ region[q].tamanio > 0 /\ Ajenos(region[p], region[q])
      BY <1>0, <2>3 DEF DatosInv, SinSolapamiento, SinVacios
    <3>2. \A v \in viejos : Ajenos(v, region[q])
      BY <1>0, <2>4, <3>1, AjenosSimetrico DEF DatosInv, SinSolapamiento
    <3> QED BY <2>7, <3>1, <3>2
  <2>10. \A q \in Pids : estado'[q] = "conResto" => Ajenos(resto[q], n)
    <3> SUFFICES ASSUME NEW q \in Pids, estado[q] = "conResto", q # p
                 PROVE  Ajenos(resto[q], n)
      BY <2>3
    <3>1. resto[q] \in Bloque /\ resto[q].tamanio > 0 /\ Ajenos(region[p], resto[q])
      BY <1>0, <2>3, AjenosSimetrico DEF DatosInv, SinSolapamiento, SinVacios
    <3>2. \A v \in viejos : Ajenos(v, resto[q])
      BY <1>0, <2>4, <3>1, AjenosSimetrico DEF DatosInv, SinSolapamiento
    <3> QED BY <2>7, <3>1, <3>2
  <2>11. SinSolapamiento'
    <3>1. \A h, g \in huecos_libres' : h # g => Ajenos(h, g)
      BY <2>4, <2>8 DEF DatosInv, SinSolapamiento
    <3>2. \A q \in Pids : Ocupa(q)' =>
             /\ \A h \in huecos_libres' : Ajenos(region'[q], h)
             /\ \A k \in Pids \ {q} : Ocupa(k)' => Ajenos(region'[q], region'[k])
      BY <2>3, <2>4, <2>9 DEF DatosInv, SinSolapamiento
    <3>3. \A q \in Pids : estado'[q] = "conResto" =>
             /\ \A h \in huecos_libres' : Ajenos(resto'[q], h)
             /\ \A k \in Pids : Ocupa(k)' => Ajenos(resto'[q], region'[k])
      BY <2>3, <2>4, <2>10 DEF DatosInv, SinSolapamiento
    <3> QED BY <3>1, <3>2, <3>3 DEF SinSolapamiento
  <2>12. Arrancada'
    BY <2>1, <2>3 DEF ControlInv, Arrancada, varsArranque
  <2> QED BY <2>5, <2>6, <2>11, <2>12 DEF DatosInv
<1>10. CASE UNCHANGED vars
  BY <1>10, DatosSinCambio DEF vars, varsArranque, Ocupa
<1> QED
  BY <1>1, <1>2, <1>3, <1>4, <1>5, <1>6, <1>7, <1>8, <1>9, <1>10 DEF Next
-----------------------------------------------------------------------------
THEOREM Invariante == Spec => []IInv
<1>1. Init => IInv
  BY ControlInicial, DatosInicial DEF IInv
<1>2. IInv /\ [Next]_vars => IInv'
  BY ControlSeMantiene, DatosSeMantiene DEF IInv
<1>3. QED
  BY <1>1, <1>2, PTL DEF Spec

(* Types: every variable of the allocator keeps its type, for any number of *)
(* processes, any configuration and any overlap of requests.                *)
THEOREM TipoCorrecto == Spec => []TypeOK
<1>1. IInv => TypeOK
  BY DEF IInv, ControlInv, TipoControl, DatosInv, TipoDatos, TypeOK
<1>2. QED
  BY <1>1, Invariante, PTL

(* The allocator never gives one address to two owners: crear_proceso and   *)
(* consolidar_huecos_libres_aledanios keep holes and regions disjoint.      *)
THEOREM Exclusion == Spec => []SinSolapamiento
<1>1. IInv => SinSolapamiento
  BY DEF IInv, DatosInv
<1>2. QED
  BY <1>1, Invariante, PTL

(* eliminar_proceso_de_la_lista, with its >=, takes off the list exactly the *)
(* process whose finalization the kernel asked for.                          *)
THEOREM FinalizaElQueDebe == Spec => []FinalizaElPedido
<1>1. IInv => FinalizaElPedido
  <2> SUFFICES ASSUME IInv, NEW p \in Pids, estado[p] = "finPedido"
               PROVE  p \in ToSet(lista_de_procesos)
    BY DEF IInv, ControlInv, VictimaFiel, FinalizaElPedido
  <2>1. PICK i \in 1 .. Len(lista_de_procesos) : lista_de_procesos[i] = p
    BY DEF IInv, ControlInv, ListaFiel
  <2>2. i \in DOMAIN lista_de_procesos
    BY DEF IInv, ControlInv, TipoControl
  <2> QED BY <2>1, <2>2 DEF ToSet
<1>2. QED
  BY <1>1, Invariante, PTL
-----------------------------------------------------------------------------
(* No byte is lost.  The steps that matter are the four that move addresses *)
(* from one kind of block to another.                                       *)
LEMMA CoberturaSeMantiene == IInv /\ NadaSePierde /\ [Next]_vars => NadaSePierde'
<1> SUFFICES ASSUME IInv, NadaSePierde, [Next]_vars,
                    NEW d \in 0 .. Tope' - 1
             PROVE  Cubierta(d)'
  BY DEF NadaSePierde, Cubierta
<1> USE DEF IInv
<1>0. /\ estado \in [Pids -> {"nuevo", "rechazado"} \cup EnCreacion \cup Creado]
      /\ region \in [Pids -> Bloque] /\ resto \in [Pids -> Bloque]
      /\ huecos_libres \subseteq Bloque /\ inicio_de_particion \in Nat
      /\ \A b \in Bloque : b.inicio \in Nat /\ b.tamanio \in Nat
      /\ d \in Nat
  BY DEF ControlInv, TipoControl, DatosInv, TipoDatos, Bloque
<1>1. CASE CrearParticion
  <2> DEFINE n == [inicio |-> inicio_de_particion,
                   tamanio |-> Particiones[particion + 1]]
  <2>1. Particiones[particion + 1] \in Nat \ {0}
    BY <1>1, ParticionesPositivas
       DEF CrearParticion, Arrancada, ControlInv, TipoControl
  <2>2. /\ huecos_libres' = huecos_libres \cup {n}
        /\ Tope = inicio_de_particion /\ Tope' = Tope + Particiones[particion + 1]
        /\ UNCHANGED <<estado, region, resto>>
    BY <1>1 DEF CrearParticion, Tope, Arrancada
  <2>3. CASE d < Tope
    <3>1. d \in 0 .. Tope - 1
      BY <1>0, <2>2, <2>3
    <3>2. Cubierta(d)
      BY <3>1 DEF NadaSePierde, Cubierta
    <3> QED BY <2>2, <3>2 DEF Cubierta, Ocupa
  <2>4. CASE d >= Tope
    <3>1. Contiene(n, d)
      BY <1>0, <2>1, <2>2, <2>4 DEF Contiene, FinDe
    <3> QED BY <2>2, <3>1 DEF Cubierta
  <2> QED BY <1>0, <2>2, <2>3, <2>4
<1>a. ASSUME UNCHANGED varsArranque PROVE Cubierta(d)
  <2>1. Tope' = Tope
    BY <1>a DEF varsArranque, Tope
  <2> QED BY <2>1 DEF NadaSePierde, Cubierta
<1>2. ASSUME NEW p \in Pids,
             \/ PedirCreacion(p) \/ PedirFinalizacion(p) \/ RechazarCreacion(p)
             \/ AgregarProceso(p) \/ QuitarProceso(p)
      PROVE  Cubierta(d)'
  <2>1. /\ UNCHANGED <<huecos_libres, region, resto, varsArranque>>
        /\ \A q \in Pids : /\ Ocupa(q) => Ocupa(q)'
                           /\ estado[q] = "conResto" => estado'[q] = "conResto"
    BY <1>0, <1>2 DEF PedirCreacion, PedirFinalizacion, RechazarCreacion,
                      AgregarProceso, QuitarProceso, Ocupa
  <2> QED BY <1>a, <2>1 DEF Cubierta
<1>3. ASSUME NEW p \in Pids, TomarHueco(p) PROVE Cubierta(d)'
  <2>1. PICK h : Toma(p, h)
    BY <1>3, TomarHuecoHecho
  <2>2. h \in Bloque /\ region'[p] \in Bloque /\ Ocupa(p)'
    BY <1>0, <2>1 DEF Toma, Ocupa
  <2>3. Cubierta(d)
    BY <1>a, <2>1 DEF Toma
  <2>4. CASE Contiene(h, d)
    <3>1. Contiene(region'[p], d) \/ (estado'[p] = "conResto" /\ Contiene(resto'[p], d))
      BY <1>0, <2>1, <2>2, <2>4 DEF Toma, Contiene, FinDe
    <3> QED BY <2>2, <3>1 DEF Cubierta
  <2>5. CASE \E g \in huecos_libres \ {h} : Contiene(g, d)
    BY <2>1, <2>5 DEF Toma, Cubierta
  <2>6. ASSUME NEW q \in Pids, Ocupa(q), Contiene(region[q], d) PROVE Cubierta(d)'
    <3>1. q # p /\ Ocupa(q)' /\ region'[q] = region[q]
      BY <2>1, <2>6 DEF Toma, Ocupa
    <3> QED BY <2>6, <3>1 DEF Cubierta
  <2>7. ASSUME NEW q \in Pids, estado[q] = "conResto", Contiene(resto[q], d)
        PROVE  Cubierta(d)'
    <3>1. q # p /\ estado'[q] = "conResto" /\ resto'[q] = resto[q]
      BY <2>1, <2>7 DEF Toma
    <3> QED BY <2>7, <3>1 DEF Cubierta
  <2> QED BY <2>3, <2>4, <2>5, <2>6, <2>7 DEF Cubierta
<1>4. ASSUME NEW p \in Pids, AgregarResto(p) PROVE Cubierta(d)'
  <2>1. /\ huecos_libres' = huecos_libres \cup {resto[p]}
        /\ UNCHANGED <<region, resto, varsArranque>>
        /\ \A q \in Pids : /\ Ocupa(q) => Ocupa(q)'
                           /\ q # p => estado'[q] = estado[q]
    BY <1>0, <1>4 DEF AgregarResto, Ocupa
  <2> QED BY <1>a, <2>1 DEF Cubierta
<1>5. ASSUME NEW p \in Pids, LiberarRegion(p) PROVE Cubierta(d)'
  <2>1. victima[p] = p
    BY <1>5 DEF ControlInv, VictimaFiel, LiberarRegion
  <2>2. PICK n, viejos : Fusion(n, viejos, region[p])
    BY <1>5, <2>1, LiberarEsUnaFusion
  <2>3. /\ UNCHANGED <<varsArranque, region, resto>>
        /\ \A q \in Pids \ {p} : estado'[q] = estado[q] /\ (Ocupa(q) => Ocupa(q)')
        /\ estado[p] # "conResto"
    BY <1>0, <1>5 DEF LiberarRegion, Ocupa
  <2>4. CASE Contiene(region[p], d) \/ \E v \in viejos : Contiene(v, d)
    <3>1. Contiene(n, d) /\ n \in huecos_libres'
      BY <1>0, <2>2, <2>4 DEF Fusion
    <3> QED BY <3>1 DEF Cubierta
  <2>5. CASE ~(Contiene(region[p], d) \/ \E v \in viejos : Contiene(v, d))
    <3>1. huecos_libres' = (huecos_libres \ viejos) \cup {n}
      BY <2>2 DEF Fusion
    <3> QED BY <1>a, <2>3, <2>5, <3>1 DEF Cubierta
  <2> QED BY <2>4, <2>5
<1>6. CASE UNCHANGED vars
  BY <1>6, <1>a DEF vars, varsArranque, Cubierta, Ocupa
<1> QED
  BY <1>1, <1>2, <1>3, <1>4, <1>5, <1>6 DEF Next

(* Whatever is created and destroyed, and however requests overlap, each    *)
(* byte of memory stays in a hole, in a process or in a rest under way.     *)
THEOREM MemoriaCompleta == Spec => []NadaSePierde
<1>1. Init => NadaSePierde
  <2> SUFFICES ASSUME Init, NEW d \in 0 .. Tope - 1 PROVE Cubierta(d)
    BY DEF NadaSePierde, Cubierta
  <2>1. CASE Esquema = "FIJAS"
    BY <2>1 DEF Init, Tope
  <2>2. CASE Esquema # "FIJAS"
    <3>1. d \in 0 .. TamMemoria - 1
      BY <2>2 DEF Tope
    <3>2. [inicio |-> 0, tamanio |-> TamMemoria] \in huecos_libres
      BY <2>2 DEF Init
    <3>3. Contiene([inicio |-> 0, tamanio |-> TamMemoria], d)
      BY <3>1, TamMemoriaPositivo DEF Contiene, FinDe
    <3> QED BY <3>2, <3>3 DEF Cubierta
  <2> QED BY <2>1, <2>2
<1>2. IInv /\ NadaSePierde /\ [Next]_vars => NadaSePierde'
  BY CoberturaSeMantiene
<1>3. QED
  BY <1>1, <1>2, Invariante, PTL DEF Spec
=============================================================================
