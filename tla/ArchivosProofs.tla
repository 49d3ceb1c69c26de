--------------------------- MODULE ArchivosProofs ---------------------------
(***************************************************************************)
(* Theorems about Archivos, for every number of requests, of blocks and of *)
(* restarts, and every size of block.                                      *)
(***************************************************************************)
EXTENDS Archivos, SequenceTheorems, FiniteSetTheorems, FunctionTheorems, TLAPS

(***************************************************************************)
(* The inductive invariant.                                                *)
(***************************************************************************)
Quieto == {"nada", "contestado", "perdido"}
ConLista == {"metadata", "bloquear", "puntero", "dato", "soltar"}
Escribiendo == {"puntero", "dato", "soltar"}

Lista(a) == hilo[a].lista
Completa(a) == Len(Lista(a)) = DeDatos(a) + 1

\* Only the holder of mutex_archivo_bloques writes, and a process that is
\* not serving has no thread half way.
CandadoInv ==
    /\ \A a \in Pedidos : hilo[a].etapa \in Escribiendo => mutex_archivo_bloques = a
    /\ fs # "atendiendo" => \A a \in Pedidos : hilo[a].etapa \in Quieto

\* What the memory knows of a request follows where its thread is.
EtapasDe(a) ==
    /\ hilo[a].etapa = "nada" <=> dump[a] = "no"
    /\ hilo[a].etapa = "nada" <=> hilo[a].tam = 0
    /\ hilo[a].etapa # "contestado" => respuesta[a] = ""
    /\ dump[a] = "DUMP_MEMORY_OK" => respuesta[a] = "OK"
    /\ dump[a] = "DUMP_MEMORY_OKNT" => respuesta[a] = "ERROR"

\* The files are still being created.
ArranqueInv == fs = "creando" => disco < COMPLETO

ControlInv == TypeOK /\ ArranqueInv /\ CandadoInv /\ \A a \in Pedidos : EtapasDe(a)

\* The bits of a request are those of its list, and its list has no block
\* twice; before the list, and if it is refused, it has none.
SinRepetir(s) == \A i, j \in 1 .. Len(s) : s[i] = s[j] => i = j
ReservaDe(a) ==
    /\ hilo[a].etapa \in {"nada", "consultar", "reservar"} \/ respuesta[a] = "ERROR"
       => BloquesDe(a) = {}
    /\ hilo[a].etapa \in {"nada", "consultar", "reservar", "metadata"} \/ respuesta[a] = "ERROR"
       => metadata[a].tam = 0
    /\ hilo[a].etapa \in ConLista =>
          /\ Len(Lista(a)) <= DeDatos(a) + 1
          /\ SinRepetir(Lista(a))
          /\ BloquesDe(a) = IF Completa(a) THEN ToSet(Lista(a)) ELSE {}
    /\ hilo[a].etapa \in {"bloquear"} \cup Escribiendo =>
          /\ Lista(a) # <<>>
          /\ metadata[a].tam = hilo[a].tam /\ metadata[a].indice = Lista(a)[1]

\* What a thread with all its blocks has written already.
PunterosEscritos(a) ==
    \A j \in 1 .. DeDatos(a) :
       (hilo[a].etapa = "puntero" => j < hilo[a].i)
       => bloques[Lista(a)[1]][j - 1] = Puntero(Lista(a)[j + 1])
DatosEscritos(a) ==
    \A j \in 1 .. DeDatos(a), w \in Palabras :
       /\ hilo[a].etapa = "dato" => j < hilo[a].i
       /\ (j - 1) * PunterosPorBloque + w < hilo[a].tam
       => bloques[Lista(a)[j + 1]][w] = Dato(a, (j - 1) * PunterosPorBloque + w)

EscrituraDe(a) ==
    /\ hilo[a].etapa \in {"puntero", "dato"} => UnSoloIndice(a) /\ hilo[a].i \in 1 .. DeDatos(a)
    /\ hilo[a].etapa = "dato" => ~SinContenido(a)
    /\ hilo[a].etapa \in {"dato", "soltar"} /\ UnSoloIndice(a) => Completa(a)
    /\ hilo[a].etapa \in Escribiendo /\ UnSoloIndice(a) /\ Completa(a) => PunterosEscritos(a)
    /\ hilo[a].etapa \in {"dato", "soltar"} /\ UnSoloIndice(a) /\ ~SinContenido(a)
       => DatosEscritos(a)

\* A file that was answered "OK", if its pointers fit in a block, has all
\* the blocks it needs and can be read.
ContestadoDe(a) ==
    respuesta[a] = "OK" /\ UnSoloIndice(a)
    => Cardinality(BloquesDe(a)) = DeDatos(a) + 1 /\ Legible(a)

\* The blocks that a request was told of are there, or others took some.
CarreraDe(a) ==
    /\ hilo[a].etapa = "reservar" /\ ~hay_espacio_disponible(a)
       => \E b \in Pedidos \ {a} : BloquesDe(b) # {}
    /\ hilo[a].etapa \in {"metadata", "bloquear", "puntero"} /\ Len(Lista(a)) <= DeDatos(a)
       => \E b \in Pedidos \ {a} : BloquesDe(b) # {}

PedidoInv(a) == ReservaDe(a) /\ EscrituraDe(a) /\ ContestadoDe(a)

(* A thread whose list came out short writes pointers in a block that is not*)
(* its own, until it ends the process.  They fall on an index block, and do *)
(* not change it: its list was all the free blocks, the next reservations   *)
(* take them in the same order, and so whoever got its first block got the  *)
(* same pointers for the same positions.                                    *)
Corta(a) ==
    /\ hilo[a].etapa \in {"metadata", "bloquear", "puntero"}
    /\ UnSoloIndice(a) /\ ~Completa(a) /\ Lista(a) # <<>>

Prefijo(c, a) ==
    /\ Len(Lista(c)) <= Len(Lista(a))
    /\ \A j \in 1 .. Len(Lista(c)) : Lista(c)[j] = Lista(a)[j]

MismosPunteros(c, a) ==
    /\ DeDatos(c) + 1 <= Len(Lista(a))
    /\ metadata[c].indice = Lista(a)[1]
    /\ \A i \in 0 .. DeDatos(c) - 1 : EntradaDeIndice(c, i) = Puntero(Lista(a)[i + 2])

CortaDe(a) ==
    Corta(a) =>
       /\ bitmap[Lista(a)[1]] = LIBRE => Lista(a) = LosPrimeros(BloquesLibres, DeDatos(a) + 1)
       /\ \A c \in Pedidos : bitmap[Lista(a)[1]] = c =>
             \/ hilo[c].etapa \in ConLista /\ Completa(c) /\ Prefijo(c, a)
             \/ respuesta[c] = "OK" /\ (UnSoloIndice(c) => MismosPunteros(c, a))

DiscoInv == \A a \in Pedidos : PedidoInv(a) /\ CortaDe(a) /\ CarreraDe(a)

IInv == ControlInv /\ DiscoInv
-----------------------------------------------------------------------------
(* Numbers, and the blocks in order.                                        *)

\* Quotient and remainder.
LEMMA Division ==
    ASSUME NEW x \in Nat, NEW n \in Nat \ {0}
    PROVE  /\ x \div n \in Nat /\ x % n \in 0 .. n - 1
           /\ x = n * (x \div n) + (x % n)
  OBVIOUS
\* The quotient grows with the dividend.
LEMMA CocienteCreciente ==
    ASSUME NEW x \in Nat, NEW y \in Nat, x <= y, NEW n \in Nat \ {0}
    PROVE  x \div n <= y \div n
  <1> DEFINE q == x \div n  r == y \div n
  <1>1. q \in Nat /\ r \in Nat /\ n * q <= x /\ y < n * r + n
     BY Division
  <1> HIDE DEF q, r
  <1>2. CASE q > r
    <2>1. n * q >= n * (r + 1) BY <1>1, <1>2
    <2> QED BY <1>1, <2>1
  <1> QED BY <1>1, <1>2 DEF q, r

\* Each position of a finite set of numbers has its element: counting those
\* below is an injection into as many positions as there are elements.
LEMMA EnesimoHecho ==
    ASSUME NEW S \in SUBSET Nat, IsFiniteSet(S), NEW i \in 1 .. Cardinality(S)
    PROVE  Enesimo(S, i) \in S /\ Cardinality(S \cap (0 .. Enesimo(S, i) - 1)) = i - 1
  <1> DEFINE Menores(b) == S \cap (0 .. b - 1)
             k == Cardinality(S)
             g == [b \in S |-> Cardinality(Menores(b))]
  <1>0. k \in Nat
    BY FS_CardinalityType
  <1>1. ASSUME NEW b \in S
        PROVE  IsFiniteSet(Menores(b)) /\ Cardinality(Menores(b)) \in Nat
    BY FS_Subset, FS_CardinalityType
  <1>2. ASSUME NEW b \in S PROVE Cardinality(Menores(b)) \in 0 .. k - 1
    <2>1. IsFiniteSet(S \ {b}) /\ Cardinality(S \ {b}) = k - 1
      BY FS_RemoveElement
    <2>2. Menores(b) \in SUBSET (S \ {b})
      OBVIOUS
    <2>3. Cardinality(Menores(b)) <= Cardinality(S \ {b})
      BY <2>1, <2>2, FS_Subset
    <2> QED BY <1>0, <1>1, <2>1, <2>3
  <1>3. ASSUME NEW b \in S, NEW c \in S, b < c
        PROVE  Cardinality(Menores(b)) < Cardinality(Menores(c))
    <2>1. IsFiniteSet(Menores(c) \ {b}) /\ Cardinality(Menores(c) \ {b}) = Cardinality(Menores(c)) - 1
      <3>1. b \in Menores(c) BY <1>3
      <3> QED BY <1>1, <3>1, FS_RemoveElement
    <2>2. Menores(b) \in SUBSET (Menores(c) \ {b})
      BY <1>3
    <2>3. Cardinality(Menores(b)) <= Cardinality(Menores(c) \ {b})
      BY <2>1, <2>2, FS_Subset
    <2> QED BY <1>1, <2>1, <2>3
  <1>4. g \in Injection(S, 0 .. k - 1)
    <2>1. g \in [S -> 0 .. k - 1]
      BY <1>2
    <2>2. ASSUME NEW b \in S, NEW c \in S, g[b] = g[c] PROVE b = c
      <3> HIDE DEF Menores
      <3>1. Cardinality(Menores(b)) = Cardinality(Menores(c)) BY <2>2
      <3>2. Cardinality(Menores(b)) \in Nat BY <1>1
      <3> QED BY <1>3, <3>1, <3>2
    <2> HIDE DEF g
    <2> QED BY <2>1, <2>2, Fun_IsInj
  <1>5. IsFiniteSet(0 .. k - 1) /\ Cardinality(0 .. k - 1) = k
    <2> HIDE DEF k
    <2>1. 0 \in Int /\ k - 1 \in Int BY <1>0
    <2>2. IsFiniteSet(0 .. k - 1) /\ Cardinality(0 .. k - 1) = IF 0 > k - 1 THEN 0 ELSE k - 1 - 0 + 1
      BY <2>1, FS_Interval
    <2> QED BY <1>0, <2>2
  <1>6. g \in Surjection(S, 0 .. k - 1)
    <2> HIDE DEF g
    <2> QED BY <1>4, <1>5, FS_Injection
  <1>7. PICK b \in S : g[b] = i - 1
    <2>1. i - 1 \in 0 .. k - 1 BY <1>0
    <2> HIDE DEF g, k
    <2> QED BY <1>6, <2>1 DEF Surjection
  <1>8. Cardinality(Menores(b)) = i - 1
    BY <1>7
  <1> QED BY <1>8 DEF Enesimo

\* The list of the first blocks: as many as asked or as there are, none twice.
LEMMA LosPrimerosHecho ==
    ASSUME NEW S \in SUBSET Nat, IsFiniteSet(S), NEW n \in Nat
    PROVE  /\ LosPrimeros(S, n) \in Seq(S)
           /\ Len(LosPrimeros(S, n)) = IF n <= Cardinality(S) THEN n ELSE Cardinality(S)
           /\ \A i \in 1 .. Len(LosPrimeros(S, n)) : LosPrimeros(S, n)[i] = Enesimo(S, i)
           /\ \A i, j \in 1 .. Len(LosPrimeros(S, n)) :
                 LosPrimeros(S, n)[i] = LosPrimeros(S, n)[j] => i = j
  <1> DEFINE m == IF n <= Cardinality(S) THEN n ELSE Cardinality(S)
  <1>1. m \in Nat /\ m <= Cardinality(S) /\ Cardinality(S) \in Nat
    BY FS_CardinalityType
  <1>2. LosPrimeros(S, n) = [i \in 1 .. m |-> Enesimo(S, i)]
    BY DEF LosPrimeros
  <1> HIDE DEF m
  <1>3. \A i \in 1 .. m : /\ Enesimo(S, i) \in S
                          /\ Cardinality(S \cap (0 .. Enesimo(S, i) - 1)) = i - 1
    BY <1>1, EnesimoHecho
  <1>4. \A i, j \in 1 .. m : Enesimo(S, i) = Enesimo(S, j) => i = j
    <2> TAKE i, j \in 1 .. m
    <2> HAVE Enesimo(S, i) = Enesimo(S, j)
    <2>1. i - 1 = j - 1 BY <1>3
    <2> QED BY <1>1, <2>1
  <1>5. [i \in 1 .. m |-> Enesimo(S, i)] \in Seq(S)
    <2>1. [i \in 1 .. m |-> Enesimo(S, i)] \in [1 .. m -> S]
      BY <1>3
    <2> QED BY <1>1, <2>1, SeqDef
  <1>6. Len([i \in 1 .. m |-> Enesimo(S, i)]) = m
    BY <1>1, <1>3
  <1> QED BY <1>1, <1>2, <1>3, <1>4, <1>5, <1>6 DEF m

\* A list with no element twice has as many elements as positions.
LEMMA CardinalDeLista ==
    ASSUME NEW S, NEW s \in Seq(S), \A i, j \in 1 .. Len(s) : s[i] = s[j] => i = j
    PROVE  IsFiniteSet(ToSet(s)) /\ Cardinality(ToSet(s)) = Len(s)
  <1>1. Len(s) \in Nat /\ DOMAIN s = 1 .. Len(s) /\ s \in [1 .. Len(s) -> S]
    BY LenProperties
  <1>2. s \in [1 .. Len(s) -> ToSet(s)]
    BY <1>1 DEF ToSet
  <1>3. s \in Bijection(1 .. Len(s), ToSet(s))
    <2>1. \A t \in ToSet(s) : \E i \in 1 .. Len(s) : s[i] = t
      BY <1>1 DEF ToSet
    <2> QED BY <1>2, <2>1, Fun_IsBij
  <1>4. ExistsBijection(1 .. Len(s), ToSet(s))
    BY <1>3 DEF ExistsBijection
  <1>5. IsFiniteSet(1 .. Len(s)) /\ Cardinality(1 .. Len(s)) = Len(s)
    BY <1>1, FS_Interval
  <1> QED BY <1>1, <1>4, <1>5, FS_Bijection
-----------------------------------------------------------------------------
(* What the actions' helpers leave in hilo.                                *)

LEMMA SigueHecho ==
    ASSUME hilo \in [Pedidos -> Hilo], NEW a \in Pedidos, NEW e \in Etapas, NEW n \in Nat,
           Sigue(a, e, n)
    PROVE  /\ hilo' \in [Pedidos -> Hilo]
           /\ hilo'[a].etapa = e /\ hilo'[a].i = n
           /\ hilo'[a].tam = hilo[a].tam /\ hilo'[a].lista = hilo[a].lista
           /\ \A b \in Pedidos \ {a} : hilo'[b] = hilo[b]
  <1>1. hilo[a] \in Hilo OBVIOUS
  <1>2. En(a, e, hilo[a].lista, n) \in Hilo BY <1>1 DEF Hilo, En
  <1> QED BY <1>1, <1>2 DEF Sigue, En

LEMMA TerminaHecho ==
    ASSUME hilo \in [Pedidos -> Hilo], NEW a \in Pedidos, NEW e \in Etapas,
           hilo' = [hilo EXCEPT ![a] = Termina(a, e)]
    PROVE  /\ hilo' \in [Pedidos -> Hilo]
           /\ hilo'[a].etapa = e /\ hilo'[a].tam = hilo[a].tam
           /\ \A b \in Pedidos \ {a} : hilo'[b] = hilo[b]
  <1>1. hilo[a] \in Hilo OBVIOUS
  <1>2. Termina(a, e) \in Hilo /\ Termina(a, e).etapa = e /\ Termina(a, e).tam = hilo[a].tam
    BY <1>1 DEF Hilo, Termina, En
  <1> QED BY <1>2

LEMMA ReservaHecho ==
    ASSUME hilo \in [Pedidos -> Hilo], NEW a \in Pedidos, NEW l \in Seq(Bloques),
           hilo' = [hilo EXCEPT ![a] = En(a, "metadata", l, 0)]
    PROVE  /\ hilo' \in [Pedidos -> Hilo]
           /\ hilo'[a].etapa = "metadata"
           /\ hilo'[a].tam = hilo[a].tam /\ hilo'[a].lista = l
           /\ \A b \in Pedidos \ {a} : hilo'[b] = hilo[b]
  <1>1. hilo[a] \in Hilo OBVIOUS
  <1>2. En(a, "metadata", l, 0) \in Hilo BY <1>1 DEF Hilo, Etapas, En
  <1> QED BY <1>1, <1>2 DEF En

LEMMA PedidoHecho ==
    ASSUME hilo \in [Pedidos -> Hilo], NEW a \in Pedidos, NEW t \in Tamanios,
           hilo' = [hilo EXCEPT ![a] = [etapa |-> "consultar", tam |-> t, lista |-> <<>>, i |-> 0]]
    PROVE  /\ hilo' \in [Pedidos -> Hilo]
           /\ hilo'[a].etapa = "consultar" /\ hilo'[a].tam = t
           /\ \A b \in Pedidos \ {a} : hilo'[b] = hilo[b]
  <1>1. [etapa |-> "consultar", tam |-> t, lista |-> <<>>, i |-> 0] \in Hilo
    BY DEF Hilo, Etapas
  <1> QED BY <1>1

LEMMA MuereHecho ==
    ASSUME hilo \in [Pedidos -> Hilo], TerminarFS
    PROVE  /\ hilo' \in [Pedidos -> Hilo]
           /\ \A b \in Pedidos :
                 /\ hilo'[b].tam = hilo[b].tam
                 /\ hilo'[b].etapa = IF hilo[b].etapa \in {"nada", "contestado"}
                                     THEN hilo[b].etapa ELSE "perdido"
  <1>1. \A b \in Pedidos : hilo[b] \in Hilo OBVIOUS
  <1>2. \A b \in Pedidos : /\ Termina(b, "perdido") \in Hilo
                           /\ Termina(b, "perdido").etapa = "perdido"
                           /\ Termina(b, "perdido").tam = hilo[b].tam
    BY <1>1 DEF Hilo, Termina, Etapas, En
  <1> QED BY <1>1, <1>2 DEF TerminarFS

LEMMA DelHilo ==
    ASSUME hilo \in [Pedidos -> Hilo], NEW a \in Pedidos
    PROVE  hilo[a].tam \in Nat /\ hilo[a].lista \in Seq(Bloques) /\ hilo[a].i \in Nat
  <1>1. hilo[a] \in Hilo OBVIOUS
  <1>2. hilo[a].tam \in Tamanios \cup {0} /\ hilo[a].lista \in Seq(Bloques) /\ hilo[a].i \in Nat
    BY <1>1 DEF Hilo
  <1>3. hilo[a].tam = 0 \/ hilo[a].tam \in Nat \ {0}
    BY <1>2, TamaniosPositivos
  <1> QED BY <1>2, <1>3

\* How many blocks a request needs.
LEMMA CuantosBloques ==
    ASSUME hilo \in [Pedidos -> Hilo], NEW a \in Pedidos, hilo[a].tam # 0
    PROVE  hilo[a].tam \in Nat \ {0} /\ DeDatos(a) \in Nat \ {0}
  <1>1. hilo[a].tam \in Nat \ {0}
    BY TamaniosPositivos DEF Hilo
  <1>2. hilo[a].tam - 1 \in Nat /\ PunterosPorBloque \in Nat \ {0}
    BY <1>1, PunterosPositivos
  <1>3. (hilo[a].tam - 1) \div PunterosPorBloque \in Nat
    BY <1>2, Division
  <1> QED BY <1>1, <1>3 DEF DeDatos

LEMMA LibresFinitos == BloquesLibres \in SUBSET Nat /\ IsFiniteSet(BloquesLibres)
  <1>1. IsFiniteSet(Bloques) /\ Bloques \subseteq Nat
    <2>1. 0 \in Int /\ BlockCount - 1 \in Int BY BitmapExacto
    <2>2. IsFiniteSet(0 .. BlockCount - 1) BY <2>1, FS_Interval
    <2> QED BY <2>2, BitmapExacto DEF Bloques
  <1>2. BloquesLibres \in SUBSET Bloques BY DEF BloquesLibres
  <1> QED BY <1>1, <1>2, FS_Subset
-----------------------------------------------------------------------------
(* Types, the mutex and where each request is.                             *)

LEMMA ControlInicial == Init => ControlInv
  <1> SUFFICES ASSUME Init PROVE ControlInv
    OBVIOUS
  <1>1. HiloNuevo \in Hilo /\ HiloNuevo.etapa = "nada" /\ HiloNuevo.tam = 0
    BY DEF HiloNuevo, Hilo, Etapas
  <1>2. TypeOK
    <2>1. bitmap \in [Bloques -> Pedidos \cup {LIBRE, ANTERIOR}] BY DEF Init
    <2>2. metadata \in [Pedidos -> [tam : Nat, indice : Bloques]]
      <3>1. 0 \in Bloques BY BitmapExacto DEF Bloques
      <3>2. [tam |-> 0, indice |-> 0] \in [tam : Nat, indice : Bloques] BY <3>1
      <3> QED BY <3>2 DEF Init
    <2>3. DOMAIN bloques = Bloques /\ \A b \in Bloques : DOMAIN bloques[b] = Palabras
      BY DEF Init
    <2>4. hilo \in [Pedidos -> Hilo] BY <1>1 DEF Init
    <2>5. disco \in 0 .. COMPLETO /\ reinicios \in 0 .. MaxReinicios
      <3>1. disco = 0 \/ disco = COMPLETO BY DEF Init
      <3>2. reinicios = 0 BY DEF Init
      <3> QED BY <3>1, <3>2, ReiniciosNat DEF COMPLETO
    <2>6. /\ respuesta \in [Pedidos -> {"", "OK", "ERROR"}]
          /\ dump \in [Pedidos -> {"no", "pedido", "perdido",
                                   "DUMP_MEMORY_OK", "DUMP_MEMORY_OKNT"}]
      BY DEF Init
    <2> QED BY <2>1, <2>2, <2>3, <2>4, <2>5, <2>6 DEF Init, TypeOK
  <1>3. CandadoInv /\ ArranqueInv
    BY <1>1 DEF Init, CandadoInv, ArranqueInv, Quieto, Escribiendo
  <1>4. \A a \in Pedidos : EtapasDe(a)
    BY <1>1 DEF Init, EtapasDe
  <1> QED BY <1>2, <1>3, <1>4 DEF ControlInv

LEMMA TipoDeLaLista ==
    ASSUME TypeOK, NEW a \in Pedidos, hilo[a].tam # 0
    PROVE  /\ BloquesObtenidos(a) \in Seq(Bloques)
           /\ Len(BloquesObtenidos(a)) \in 0 .. DeDatos(a) + 1
           /\ Len(BloquesObtenidos(a)) = DeDatos(a) + 1 <=> hay_espacio_disponible(a)
           /\ Len(BloquesObtenidos(a)) # DeDatos(a) + 1
              => Len(BloquesObtenidos(a)) = Cardinality(BloquesLibres)
           /\ SinRepetir(BloquesObtenidos(a))
           /\ ToSet(BloquesObtenidos(a)) \subseteq BloquesLibres
           /\ \A i \in 1 .. Len(BloquesObtenidos(a)) :
                 BloquesObtenidos(a)[i] = Enesimo(BloquesLibres, i)
  <1>1. DeDatos(a) + 1 \in Nat
    <2>1. hilo \in [Pedidos -> Hilo] BY DEF TypeOK
    <2>2. DeDatos(a) \in Nat \ {0} BY <2>1, CuantosBloques
    <2> QED BY <2>2
  <1> DEFINE l == BloquesObtenidos(a)
             n == DeDatos(a) + 1
  <1>2. /\ l \in Seq(BloquesLibres)
        /\ Len(l) = IF n <= Cardinality(BloquesLibres) THEN n ELSE Cardinality(BloquesLibres)
        /\ \A i \in 1 .. Len(l) : l[i] = Enesimo(BloquesLibres, i)
        /\ SinRepetir(l)
    BY <1>1, LosPrimerosHecho, LibresFinitos DEF BloquesObtenidos, SinRepetir
  <1>3. Cardinality(BloquesLibres) \in Nat
    BY LibresFinitos, FS_CardinalityType
  <1>4. l \in Seq(Bloques)
    <2>1. BloquesLibres \subseteq Bloques BY DEF BloquesLibres
    <2> HIDE DEF l
    <2> QED BY <1>2, <2>1, SeqMonotonic
  <1>5. ToSet(l) \subseteq BloquesLibres
    <2> HIDE DEF l
    <2> QED BY <1>2 DEF ToSet
  <1>6. n <= Cardinality(BloquesLibres) <=> hay_espacio_disponible(a)
    BY <1>1, <1>3 DEF hay_espacio_disponible
  <1> HIDE DEF l
  <1> QED BY <1>1, <1>2, <1>3, <1>4, <1>5, <1>6 DEF l

\* A step that moves no thread, and that the memory or the start-up takes.
LEMMA ControlSinHilos ==
    ASSUME ControlInv,
           \/ levantar_archivos \/ crear_archivos \/ Reiniciar
           \/ \E a \in Pedidos : MEMORY_DUMP_SinFS(a) \/ RecibirRespuesta(a) \/ MemoriaAborta(a)
    PROVE  ControlInv'
  <1> USE DEF ControlInv
  <1>1. CASE levantar_archivos
    BY <1>1 DEF levantar_archivos, TypeOK, CandadoInv, EtapasDe, ArranqueInv, varsDisco, varsMemoria
  <1>2. CASE crear_archivos
    <2>1. disco' \in 0 .. COMPLETO /\ ArranqueInv'
      <3>1. disco < COMPLETO BY <1>2 DEF crear_archivos, ArranqueInv, COMPLETO
      <3>2. disco' = disco + 1 /\ disco \in 0 .. COMPLETO BY <1>2 DEF crear_archivos, TypeOK
      <3>3. fs' = "creando" => disco' # COMPLETO BY <1>2 DEF crear_archivos
      <3> QED BY <3>1, <3>2, <3>3 DEF ArranqueInv, COMPLETO
    <2>2. TypeOK'
      BY <1>2, <2>1 DEF crear_archivos, TypeOK, varsMemoria
    <2> QED BY <1>2, <2>1, <2>2 DEF crear_archivos, CandadoInv, EtapasDe, varsMemoria
  <1>3. CASE Reiniciar
    <2>1. TypeOK'
      <3>1. reinicios' \in 0 .. MaxReinicios
        <4>1. reinicios < MaxReinicios /\ reinicios' = reinicios + 1 BY <1>3 DEF Reiniciar
        <4>2. reinicios \in 0 .. MaxReinicios BY DEF TypeOK
        <4> QED BY <4>1, <4>2, ReiniciosNat
      <3>2. dump' \in [Pedidos -> {"no", "pedido", "perdido", "DUMP_MEMORY_OK", "DUMP_MEMORY_OKNT"}]
        BY <1>3 DEF Reiniciar, TypeOK
      <3> QED BY <1>3, <3>1, <3>2 DEF Reiniciar, TypeOK, varsDisco
    <2>2. CandadoInv' /\ ArranqueInv'
      BY <1>3 DEF Reiniciar, CandadoInv, ArranqueInv, varsDisco
    <2>3. \A b \in Pedidos : EtapasDe(b)'
      BY <1>3 DEF Reiniciar, EtapasDe, TypeOK
    <2> QED BY <2>1, <2>2, <2>3
  <1>4. ASSUME NEW a \in Pedidos, MEMORY_DUMP_SinFS(a) PROVE ControlInv'
    BY <1>4 DEF MEMORY_DUMP_SinFS, TypeOK, CandadoInv, ArranqueInv, EtapasDe, varsDisco
  <1>5. ASSUME NEW a \in Pedidos, MemoriaAborta(a) PROVE ControlInv'
    BY <1>5 DEF MemoriaAborta, TypeOK, CandadoInv, ArranqueInv, EtapasDe, varsDisco
  <1>6. ASSUME NEW a \in Pedidos, RecibirRespuesta(a) PROVE ControlInv'
    <2>1. TypeOK'
      BY <1>6 DEF RecibirRespuesta, TypeOK, varsDisco
    <2>2. CandadoInv' /\ ArranqueInv'
      BY <1>6 DEF RecibirRespuesta, CandadoInv, ArranqueInv, varsDisco
    <2>3. \A b \in Pedidos : EtapasDe(b)'
      BY <1>6 DEF RecibirRespuesta, EtapasDe, TypeOK
    <2> QED BY <2>1, <2>2, <2>3
  <1> QED BY <1>1, <1>2, <1>3, <1>4, <1>5, <1>6

\* The process ends, at any moment.
LEMMA ControlAlMorir ==
    ASSUME ControlInv, TerminarFS, bitmap' \in [Bloques -> Pedidos \cup {LIBRE, ANTERIOR}]
    PROVE  ControlInv'
  <1> USE DEF ControlInv
  <1>1. /\ hilo' \in [Pedidos -> Hilo]
        /\ \A b \in Pedidos :
              /\ hilo'[b].tam = hilo[b].tam
              /\ hilo'[b].etapa = IF hilo[b].etapa \in {"nada", "contestado"}
                                  THEN hilo[b].etapa ELSE "perdido"
    <2>1. hilo \in [Pedidos -> Hilo] BY DEF TypeOK
    <2> QED BY <2>1, MuereHecho
  <1>2. TypeOK'
    BY <1>1 DEF TerminarFS, TypeOK, varsMemoria
  <1>3. CandadoInv' /\ ArranqueInv'
    BY <1>1 DEF TerminarFS, CandadoInv, ArranqueInv, Quieto, Escribiendo
  <1>4. \A b \in Pedidos : EtapasDe(b)'
    BY <1>1 DEF TerminarFS, EtapasDe, varsMemoria
  <1> QED BY <1>2, <1>3, <1>4

\* The thread of a request moves, and the others stay.
LEMMA ControlDelHilo ==
    ASSUME ControlInv, NEW a \in Pedidos, hilo' \in [Pedidos -> Hilo],
           \A b \in Pedidos \ {a} : hilo'[b] = hilo[b] /\ respuesta'[b] = respuesta[b] /\ dump'[b] = dump[b],
           TypeOK', fs = "atendiendo", fs' = fs, EtapasDe(a)',
           hilo'[a].etapa \in Escribiendo => mutex_archivo_bloques' = a,
           \/ mutex_archivo_bloques' = mutex_archivo_bloques
           \/ mutex_archivo_bloques = NADIE
           \/ hilo[a].etapa \in Escribiendo
    PROVE  ControlInv'
  <1> USE DEF ControlInv
  <1>1. \A b \in Pedidos \ {a} : EtapasDe(b)'
    <2> TAKE b \in Pedidos \ {a}
    <2>1. hilo'[b] = hilo[b] /\ respuesta'[b] = respuesta[b] /\ dump'[b] = dump[b] /\ EtapasDe(b)
      OBVIOUS
    <2> QED BY <2>1 DEF EtapasDe
  <1>2. ASSUME NEW b \in Pedidos, hilo'[b].etapa \in Escribiendo
        PROVE  mutex_archivo_bloques' = b
    <2>1. CASE b # a
      BY <1>2, <2>1, MarcasAparte DEF CandadoInv
    <2> QED BY <1>2, <2>1
  <1> QED BY <1>1, <1>2 DEF CandadoInv, ArranqueInv

LEMMA ControlAlPedir ==
    ASSUME ControlInv, NEW a \in Pedidos, MEMORY_DUMP(a)
    PROVE  ControlInv'
  <1> USE DEF ControlInv
  <1>1. PICK t \in Tamanios :
           hilo' = [hilo EXCEPT ![a] = [etapa |-> "consultar", tam |-> t, lista |-> <<>>, i |-> 0]]
    BY DEF MEMORY_DUMP
  <1>2. /\ hilo' \in [Pedidos -> Hilo] /\ hilo'[a].etapa = "consultar" /\ hilo'[a].tam = t
        /\ \A b \in Pedidos \ {a} : hilo'[b] = hilo[b]
    <2>1. hilo \in [Pedidos -> Hilo] BY DEF TypeOK
    <2> QED BY <1>1, <2>1, PedidoHecho
  <1>3. TypeOK'
    BY <1>2 DEF MEMORY_DUMP, TypeOK, varsDisco
  <1>4. EtapasDe(a)'
    <2>1. dump'[a] = "pedido" /\ dump[a] = "no" BY DEF MEMORY_DUMP, TypeOK, Proximo
    <2>2. hilo'[a].tam # 0 BY <1>2, TamaniosPositivos
    <2> QED BY <1>2, <2>1, <2>2 DEF MEMORY_DUMP, EtapasDe
  <1>5. \A b \in Pedidos \ {a} : respuesta'[b] = respuesta[b] /\ dump'[b] = dump[b]
    BY DEF MEMORY_DUMP, TypeOK
  <1>6. fs = "atendiendo" /\ fs' = fs /\ mutex_archivo_bloques' = mutex_archivo_bloques
    BY DEF MEMORY_DUMP
  <1>7. hilo'[a].etapa \notin Escribiendo
    BY <1>2 DEF Escribiendo
  <1> QED BY <1>2, <1>3, <1>4, <1>5, <1>6, <1>7, ControlDelHilo

\* A thread that goes on to another step, with its request not answered yet.
LEMMA ControlAlSeguir ==
    ASSUME ControlInv, NEW a \in Pedidos, hilo[a].etapa \notin Quieto, fs = "atendiendo",
           hilo' \in [Pedidos -> Hilo], hilo'[a].tam = hilo[a].tam,
           \A b \in Pedidos \ {a} : hilo'[b] = hilo[b],
           hilo'[a].etapa \notin Quieto,
           UNCHANGED <<disco, fs, respuesta, varsMemoria>>,
           bitmap' \in [Bloques -> Pedidos \cup {LIBRE, ANTERIOR}],
           metadata' \in [Pedidos -> [tam : Nat, indice : Bloques]],
           DOMAIN bloques' = Bloques, \A b \in Bloques : DOMAIN bloques'[b] = Palabras,
           hilo'[a].etapa \in Escribiendo =>
              mutex_archivo_bloques' = a
              /\ (hilo[a].etapa \in Escribiendo \/ mutex_archivo_bloques = NADIE),
           hilo'[a].etapa \notin Escribiendo => mutex_archivo_bloques' = mutex_archivo_bloques
    PROVE  ControlInv'
  <1> USE DEF ControlInv
  <1>1. TypeOK'
    <2>1. mutex_archivo_bloques' \in Pedidos \cup {NADIE}
      BY DEF TypeOK
    <2> QED BY <2>1 DEF TypeOK, varsMemoria
  <1>2. EtapasDe(a)'
    BY DEF EtapasDe, Quieto, varsMemoria
  <1>3. \A b \in Pedidos \ {a} : hilo'[b] = hilo[b] /\ respuesta'[b] = respuesta[b] /\ dump'[b] = dump[b]
    BY DEF varsMemoria
  <1>4. fs' = fs OBVIOUS
  <1> QED BY <1>1, <1>2, <1>3, <1>4, ControlDelHilo

\* A thread that answers.
LEMMA ControlAlContestar ==
    ASSUME ControlInv, NEW a \in Pedidos, hilo[a].etapa \notin Quieto, fs = "atendiendo",
           NEW r \in {"OK", "ERROR"}, respuesta' = [respuesta EXCEPT ![a] = r],
           hilo' = [hilo EXCEPT ![a] = Termina(a, "contestado")],
           UNCHANGED <<varsDisco, fs, varsMemoria>>,
           \/ mutex_archivo_bloques' = mutex_archivo_bloques
           \/ mutex_archivo_bloques' = NADIE /\ hilo[a].etapa \in Escribiendo
    PROVE  ControlInv'
  <1> USE DEF ControlInv
  <1>1. /\ hilo' \in [Pedidos -> Hilo] /\ hilo'[a].etapa = "contestado" /\ hilo'[a].tam = hilo[a].tam
        /\ \A b \in Pedidos \ {a} : hilo'[b] = hilo[b]
    <2>1. hilo \in [Pedidos -> Hilo] /\ "contestado" \in Etapas BY DEF TypeOK, Etapas
    <2> QED BY <2>1, TerminaHecho
  <1>2. TypeOK'
    BY <1>1 DEF TypeOK, varsDisco, varsMemoria
  <1>3. EtapasDe(a)'
    BY <1>1 DEF EtapasDe, Quieto, TypeOK, varsMemoria
  <1>4. \A b \in Pedidos \ {a} : respuesta'[b] = respuesta[b] /\ dump'[b] = dump[b]
    BY DEF TypeOK, varsMemoria
  <1>5. hilo'[a].etapa \notin Escribiendo
    BY <1>1 DEF Escribiendo
  <1>6. \/ mutex_archivo_bloques' = mutex_archivo_bloques
        \/ hilo[a].etapa \in Escribiendo
    OBVIOUS
  <1>7. fs' = fs OBVIOUS
  <1> QED BY <1>1, <1>2, <1>3, <1>4, <1>5, <1>6, <1>7, ControlDelHilo

\* Where a thread is while it serves.
LEMMA SirviendoNoQuieto ==
    \A a \in Pedidos, e \in {"consultar", "reservar", "metadata", "bloquear", "puntero", "dato", "soltar"} :
       Atiende(a, e) => fs = "atendiendo" /\ hilo[a].etapa = e /\ hilo[a].etapa \notin Quieto
  BY DEF Atiende, Quieto

LEMMA ControlDeCreacion ==
    ASSUME ControlInv, NEW a \in Pedidos, creacion_de_archivos(a)
    PROVE  ControlInv'
  <1>0. hilo \in [Pedidos -> Hilo] /\ hilo[a] \in Hilo /\ TypeOK
    BY DEF ControlInv, TypeOK
  <1>1. CASE RechazarPedido(a)
    <2>1. hilo[a].etapa \notin Quieto /\ fs = "atendiendo"
      BY <1>1, SirviendoNoQuieto DEF RechazarPedido
    <2> QED BY <1>1, <2>1, ControlAlContestar DEF RechazarPedido
  <1>2. CASE AceptarPedido(a)
    <2>1. hilo[a].etapa \notin Quieto /\ fs = "atendiendo"
      BY <1>2, SirviendoNoQuieto DEF AceptarPedido
    <2>2. "reservar" \in Etapas /\ 0 \in Nat /\ Sigue(a, "reservar", 0)
      BY <1>2 DEF AceptarPedido, Etapas
    <2>3. /\ hilo' \in [Pedidos -> Hilo] /\ hilo'[a].etapa = "reservar"
          /\ hilo'[a].tam = hilo[a].tam /\ \A b \in Pedidos \ {a} : hilo'[b] = hilo[b]
      BY <1>0, <2>2, SigueHecho
    <2>4. hilo'[a].etapa \notin Quieto /\ hilo'[a].etapa \notin Escribiendo
      BY <2>3 DEF Quieto, Escribiendo
    <2>5. UNCHANGED <<varsDisco, fs, mutex_archivo_bloques, respuesta, varsMemoria>>
      BY <1>2 DEF AceptarPedido
    <2> QED BY <1>0, <2>1, <2>3, <2>4, <2>5, ControlAlSeguir DEF varsDisco, TypeOK
  <1>3. ASSUME MorirFS PROVE ControlInv'
    <2>1. bitmap' \in [Bloques -> Pedidos \cup {LIBRE, ANTERIOR}]
      BY <1>0, <1>3 DEF MorirFS, TypeOK
    <2> QED BY <1>3, <2>1, ControlAlMorir DEF MorirFS
  <1>4. CASE reservar_el_bloque_de_indice_y_los_bloques_de_datos(a)
    <2> DEFINE l == BloquesObtenidos(a)
    <2>1. hilo[a].etapa = "reservar" /\ hilo[a].etapa \notin Quieto /\ fs = "atendiendo"
      BY <1>4, SirviendoNoQuieto DEF reservar_el_bloque_de_indice_y_los_bloques_de_datos
    <2>2. hilo[a].tam # 0
      BY <2>1 DEF ControlInv, EtapasDe
    <2>3. l \in Seq(Bloques)
      BY <1>0, <2>2, TipoDeLaLista
    <2>4. /\ hilo' = [hilo EXCEPT ![a] = En(a, "metadata", l, 0)]
          /\ bitmap' = Marcados(a, l) \/ bitmap' = bitmap
          /\ UNCHANGED <<disco, metadata, bloques, fs, mutex_archivo_bloques, respuesta, varsMemoria>>
      BY <1>4 DEF reservar_el_bloque_de_indice_y_los_bloques_de_datos
    <2> HIDE DEF l
    <2>5. /\ hilo' \in [Pedidos -> Hilo] /\ hilo'[a].etapa = "metadata"
          /\ hilo'[a].tam = hilo[a].tam /\ \A b \in Pedidos \ {a} : hilo'[b] = hilo[b]
      BY <1>0, <2>3, <2>4, ReservaHecho
    <2>6. bitmap' \in [Bloques -> Pedidos \cup {LIBRE, ANTERIOR}]
      BY <1>0, <2>4 DEF Marcados, TypeOK
    <2>7. hilo'[a].etapa \notin Quieto /\ hilo'[a].etapa \notin Escribiendo
      BY <2>5 DEF Quieto, Escribiendo
    <2> QED BY <1>0, <2>1, <2>4, <2>5, <2>6, <2>7, ControlAlSeguir DEF TypeOK
  <1>5. CASE crear_el_archivo_de_metadata(a) /\ ~MorirFS
    <2>1. hilo[a].etapa \notin Quieto /\ fs = "atendiendo"
      BY <1>5, SirviendoNoQuieto DEF crear_el_archivo_de_metadata
    <2>2. /\ Sigue(a, "bloquear", 0) /\ hilo[a].lista # <<>>
          /\ metadata' = [metadata EXCEPT ![a] = [tam |-> hilo[a].tam, indice |-> Head(hilo[a].lista)]]
          /\ UNCHANGED <<disco, bitmap, bloques, fs, mutex_archivo_bloques, respuesta, varsMemoria>>
      BY <1>5 DEF crear_el_archivo_de_metadata
    <2>3. /\ hilo' \in [Pedidos -> Hilo] /\ hilo'[a].etapa = "bloquear"
          /\ hilo'[a].tam = hilo[a].tam /\ \A b \in Pedidos \ {a} : hilo'[b] = hilo[b]
      <3>1. "bloquear" \in Etapas /\ 0 \in Nat BY DEF Etapas
      <3> QED BY <1>0, <2>2, <3>1, SigueHecho
    <2>4. hilo'[a].etapa \notin Quieto /\ hilo'[a].etapa \notin Escribiendo
      BY <2>3 DEF Quieto, Escribiendo
    <2>5. metadata' \in [Pedidos -> [tam : Nat, indice : Bloques]]
      <3>1. hilo[a].lista \in Seq(Bloques) /\ hilo[a].tam \in Nat
        BY <1>0, DelHilo
      <3>2. Head(hilo[a].lista) \in Bloques BY <2>2, <3>1, HeadTailProperties
      <3> QED BY <1>0, <2>2, <3>1, <3>2 DEF TypeOK
    <2> QED BY <1>0, <2>1, <2>2, <2>3, <2>4, <2>5, ControlAlSeguir DEF TypeOK
  <1>6. CASE EmpezarAEscribir(a)
    <2>1. hilo[a].etapa \notin Quieto /\ fs = "atendiendo"
      BY <1>6, SirviendoNoQuieto DEF EmpezarAEscribir
    <2>2. PICK e \in {"puntero", "soltar"} : Sigue(a, e, 1)
      BY <1>6 DEF EmpezarAEscribir
    <2>3. /\ hilo' \in [Pedidos -> Hilo] /\ hilo'[a].etapa = e
          /\ hilo'[a].tam = hilo[a].tam /\ \A b \in Pedidos \ {a} : hilo'[b] = hilo[b]
      <3>1. e \in Etapas /\ 1 \in Nat BY DEF Etapas
      <3> QED BY <1>0, <2>2, <3>1, SigueHecho
    <2>4. hilo'[a].etapa \notin Quieto /\ hilo'[a].etapa \in Escribiendo
      BY <2>3 DEF Quieto, Escribiendo
    <2>5. /\ mutex_archivo_bloques = NADIE /\ mutex_archivo_bloques' = a
          /\ UNCHANGED <<varsDisco, fs, respuesta, varsMemoria>>
      BY <1>6 DEF EmpezarAEscribir
    <2> QED BY <1>0, <2>1, <2>3, <2>4, <2>5, ControlAlSeguir DEF varsDisco, TypeOK
  <1>7. CASE (EscribirPuntero(a) /\ ~MorirFS) \/ EscribirDatos(a)
    <2>1. hilo[a].etapa \in Escribiendo /\ hilo[a].etapa \notin Quieto /\ fs = "atendiendo"
      BY <1>7, SirviendoNoQuieto DEF EscribirPuntero, EscribirDatos, Atiende, Escribiendo
    <2>2. PICK e \in Escribiendo, n \in Nat : Sigue(a, e, n)
      <3>1. hilo[a].i \in Nat BY <1>0 DEF Hilo
      <3>2. CASE EscribirPuntero(a) /\ ~MorirFS
        <4>1. \/ Sigue(a, "puntero", hilo[a].i + 1) \/ Sigue(a, "soltar", 0) \/ Sigue(a, "dato", 1)
          BY <3>2 DEF EscribirPuntero
        <4> QED BY <3>1, <4>1 DEF Escribiendo
      <3>3. CASE EscribirDatos(a)
        <4>1. \/ Sigue(a, "dato", hilo[a].i + 1) \/ Sigue(a, "soltar", hilo[a].i + 1)
          BY <3>3 DEF EscribirDatos
        <4> QED BY <3>1, <4>1 DEF Escribiendo
      <3> QED BY <1>7, <3>2, <3>3
    <2>3. /\ hilo' \in [Pedidos -> Hilo] /\ hilo'[a].etapa = e
          /\ hilo'[a].tam = hilo[a].tam /\ \A b \in Pedidos \ {a} : hilo'[b] = hilo[b]
      <3>1. e \in Etapas BY DEF Etapas, Escribiendo
      <3> QED BY <1>0, <2>2, <3>1, SigueHecho
    <2>4. hilo'[a].etapa \notin Quieto /\ hilo'[a].etapa \in Escribiendo
      BY <2>3 DEF Quieto, Escribiendo
    <2>5. /\ mutex_archivo_bloques' = mutex_archivo_bloques
          /\ UNCHANGED <<disco, bitmap, metadata, fs, respuesta, varsMemoria>>
      BY <1>7 DEF EscribirPuntero, EscribirDatos
    <2>6. mutex_archivo_bloques = a
      BY <2>1 DEF ControlInv, CandadoInv
    <2>7. DOMAIN bloques' = Bloques /\ \A b \in Bloques : DOMAIN bloques'[b] = Palabras
      <3>1. DOMAIN bloques = Bloques /\ \A b \in Bloques : DOMAIN bloques[b] = Palabras
        BY <1>0 DEF TypeOK
      <3>2. PICK x, f : bloques' = [bloques EXCEPT ![x] = f] /\ (x \in Bloques => DOMAIN f = Palabras)
        <4>1. CASE EscribirPuntero(a) /\ ~MorirFS
          <5> DEFINE x == hilo[a].lista[1]
                     f == [bloques[x] EXCEPT ![PosicionDelPuntero(hilo[a].i)]
                              = Puntero(hilo[a].lista[hilo[a].i + 1])]
          <5>1. bloques' = [bloques EXCEPT ![x] = f]
            BY <4>1 DEF EscribirPuntero
          <5>2. x \in Bloques => DOMAIN f = Palabras
            BY <3>1
          <5> QED BY <5>1, <5>2
        <4>2. CASE EscribirDatos(a)
          <5> DEFINE x == hilo[a].lista[hilo[a].i + 1]
                     pr == (hilo[a].i - 1) * PunterosPorBloque
                     f == [p \in Palabras |-> IF pr + p < hilo[a].tam THEN Dato(a, pr + p)
                                                                        ELSE bloques[x][p]]
          <5>1. bloques' = [bloques EXCEPT ![x] = f]
            BY <4>2 DEF EscribirDatos
          <5>2. DOMAIN f = Palabras
            OBVIOUS
          <5> QED BY <5>1, <5>2
        <4> QED BY <1>7, <4>1, <4>2
      <3> QED BY <3>1, <3>2
    <2> QED BY <1>0, <2>1, <2>3, <2>4, <2>5, <2>6, <2>7, ControlAlSeguir DEF TypeOK
  <1>8. CASE ResponderOK(a)
    <2>1. hilo[a].etapa = "soltar" /\ hilo[a].etapa \notin Quieto /\ fs = "atendiendo"
      BY <1>8, SirviendoNoQuieto DEF ResponderOK
    <2>2. hilo[a].etapa \in Escribiendo BY <2>1 DEF Escribiendo
    <2> QED BY <1>8, <2>1, <2>2, ControlAlContestar DEF ResponderOK
  <1> QED
    BY <1>1, <1>2, <1>3, <1>4, <1>5, <1>6, <1>7, <1>8
       DEF creacion_de_archivos, ConsultarSinBitmap, crear_el_archivo_de_metadata, EscribirPuntero

LEMMA ControlSeMantiene == ControlInv /\ [Next]_vars => ControlInv'
  <1> SUFFICES ASSUME ControlInv, [Next]_vars PROVE ControlInv'
    OBVIOUS
  <1>1. CASE levantar_archivos \/ crear_archivos \/ Reiniciar
    BY <1>1, ControlSinHilos
  <1>2. CASE Matar
    <2>1. bitmap' \in [Bloques -> Pedidos \cup {LIBRE, ANTERIOR}]
      BY <1>2 DEF Matar, MorirFS, ControlInv, TypeOK
    <2> QED BY <1>2, <2>1, ControlAlMorir DEF Matar, MorirFS
  <1>3. ASSUME NEW a \in Pedidos, Dump(a) PROVE ControlInv'
    BY <1>3, ControlSinHilos, ControlAlPedir DEF Dump
  <1>4. ASSUME NEW a \in Pedidos, creacion_de_archivos(a) PROVE ControlInv'
    BY <1>4, ControlDeCreacion
  <1>5. ASSUME NEW a \in Pedidos, MatarAlReservar(a) PROVE ControlInv'
    <2>1. PICK k : bitmap' = Marcados(a, SubSeq(BloquesObtenidos(a), 1, k))
      BY <1>5 DEF MatarAlReservar
    <2>2. bitmap' \in [Bloques -> Pedidos \cup {LIBRE, ANTERIOR}]
      BY <2>1 DEF Marcados, ControlInv, TypeOK
    <2> QED BY <1>5, <2>2, ControlAlMorir DEF MatarAlReservar
  <1>6. CASE UNCHANGED vars
    <2>1. TypeOK'
      BY <1>6 DEF vars, varsDisco, varsMemoria, ControlInv, TypeOK
    <2> QED BY <1>6, <2>1 DEF vars, varsDisco, varsMemoria, ControlInv, ArranqueInv, CandadoInv, EtapasDe
  <1> QED BY <1>1, <1>2, <1>3, <1>4, <1>5, <1>6 DEF Next
-----------------------------------------------------------------------------
(* What is on the disk.                                                    *)

LEMMA MismoTamanio ==
    ASSUME NEW b \in Pedidos, hilo'[b].tam = hilo[b].tam
    PROVE  /\ DeDatos(b)' = DeDatos(b)
           /\ UnSoloIndice(b)' = UnSoloIndice(b)
           /\ SinContenido(b)' = SinContenido(b)
  BY DEF DeDatos, UnSoloIndice, SinContenido

\* The blocks of a list that has them all.
LEMMA SusBloques ==
    ASSUME ControlInv, NEW a \in Pedidos, hilo[a].etapa \in ConLista, ReservaDe(a), Completa(a)
    PROVE  /\ Lista(a) \in Seq(Bloques) /\ DeDatos(a) \in Nat \ {0}
           /\ Len(Lista(a)) = DeDatos(a) + 1
           /\ Lista(a)[1] \in BloquesDe(a) /\ SinRepetir(Lista(a))
           /\ \A j \in 1 .. DeDatos(a) : Lista(a)[j + 1] \in BloquesDe(a) /\ Lista(a)[j + 1] # Lista(a)[1]
           /\ Cardinality(BloquesDe(a)) = DeDatos(a) + 1
  <1>1. hilo \in [Pedidos -> Hilo] /\ Lista(a) \in Seq(Bloques)
    BY DEF ControlInv, TypeOK, Hilo, Lista
  <1>2. hilo[a].tam # 0
    BY DEF ControlInv, EtapasDe, ConLista
  <1>3. DeDatos(a) \in Nat \ {0}
    BY <1>1, <1>2, CuantosBloques
  <1>4. BloquesDe(a) = ToSet(Lista(a)) /\ SinRepetir(Lista(a)) /\ Len(Lista(a)) = DeDatos(a) + 1
    BY DEF ReservaDe, Completa
  <1>5. \A j \in 1 .. DeDatos(a) + 1 : Lista(a)[j] \in ToSet(Lista(a))
    BY <1>1, <1>3, <1>4 DEF ToSet
  <1>6. \A j \in 1 .. DeDatos(a) : Lista(a)[j + 1] # Lista(a)[1]
    BY <1>3, <1>4 DEF SinRepetir
  <1>7. Cardinality(ToSet(Lista(a))) = Len(Lista(a))
    BY <1>1, <1>4, CardinalDeLista DEF SinRepetir
  <1>8. Lista(a)[1] \in BloquesDe(a)
    BY <1>3, <1>4, <1>5
  <1>9. \A j \in 1 .. DeDatos(a) : Lista(a)[j + 1] \in BloquesDe(a)
    BY <1>3, <1>4, <1>5
  <1> QED BY <1>1, <1>3, <1>4, <1>6, <1>7, <1>8, <1>9

\* What nobody touches of a file that is answered.
EntradasIguales(b) ==
    \A q \in 0 .. DeDatos(b) - 1 :
       /\ EntradaDeIndice(b, q)' = EntradaDeIndice(b, q)
       /\ bloques'[EntradaDeIndice(b, q)[2]] = bloques[EntradaDeIndice(b, q)[2]]
Intocado(b) ==
    /\ hilo'[b] = hilo[b] /\ metadata'[b] = metadata[b] /\ respuesta'[b] = respuesta[b]
    /\ BloquesDe(b)' = BloquesDe(b)
    /\ hilo[b].etapa \in Escribiendo => \A x \in BloquesDe(b) : bloques'[x] = bloques[x]
    /\ respuesta[b] = "OK" /\ UnSoloIndice(b) => EntradasIguales(b)

\* A request that is not touched stays as it was.
LEMMA PedidoAjeno ==
    ASSUME ControlInv, NEW b \in Pedidos, PedidoInv(b), Intocado(b)
    PROVE  PedidoInv(b)'
  <1>1. /\ hilo'[b] = hilo[b] /\ metadata'[b] = metadata[b] /\ respuesta'[b] = respuesta[b]
        /\ BloquesDe(b)' = BloquesDe(b)
    BY DEF Intocado
  <1>2. /\ DeDatos(b)' = DeDatos(b) /\ UnSoloIndice(b)' = UnSoloIndice(b)
        /\ SinContenido(b)' = SinContenido(b)
    BY <1>1, MismoTamanio
  <1>3. Lista(b)' = Lista(b) /\ Completa(b)' = Completa(b)
    BY <1>1, <1>2 DEF Lista, Completa
  <1>4. ReservaDe(b)'
    BY <1>1, <1>2, <1>3 DEF PedidoInv, ReservaDe
  <1>5. EscrituraDe(b)'
    <2>1. ASSUME hilo[b].etapa \in Escribiendo, Completa(b), PunterosEscritos(b)
          PROVE  PunterosEscritos(b)'
      <3>1. bloques'[Lista(b)[1]] = bloques[Lista(b)[1]]
        <4>1. hilo[b].etapa \in ConLista /\ ReservaDe(b) BY <2>1 DEF ConLista, Escribiendo, PedidoInv
        <4>2. Lista(b)[1] \in BloquesDe(b) BY <2>1, <4>1, SusBloques
        <4> QED BY <2>1, <4>2 DEF Intocado
      <3> QED BY <1>1, <1>2, <1>3, <2>1, <3>1 DEF PunterosEscritos, Puntero
    <2>2. ASSUME hilo[b].etapa \in Escribiendo, Completa(b), DatosEscritos(b)
          PROVE  DatosEscritos(b)'
      <3>1. \A j \in 1 .. DeDatos(b) : bloques'[Lista(b)[j + 1]] = bloques[Lista(b)[j + 1]]
        <4>1. hilo[b].etapa \in ConLista /\ ReservaDe(b) BY <2>2 DEF ConLista, Escribiendo, PedidoInv
        <4>2. \A j \in 1 .. DeDatos(b) : Lista(b)[j + 1] \in BloquesDe(b) BY <2>2, <4>1, SusBloques
        <4> QED BY <2>2, <4>2 DEF Intocado
      <3> QED BY <1>1, <1>2, <1>3, <2>2, <3>1 DEF DatosEscritos, Dato
    <2> QED BY <1>1, <1>2, <1>3, <2>1, <2>2 DEF PedidoInv, EscrituraDe, Escribiendo
  <1>6. ContestadoDe(b)'
    <2> SUFFICES ASSUME respuesta[b] = "OK", UnSoloIndice(b)
                 PROVE  Cardinality(BloquesDe(b)) = DeDatos(b) + 1 /\ Legible(b)'
      BY <1>1, <1>2 DEF ContestadoDe
    <2>1. Cardinality(BloquesDe(b)) = DeDatos(b) + 1 /\ Legible(b)
      BY DEF PedidoInv, ContestadoDe
    <2>2. EntradasIguales(b) BY DEF Intocado
    <2>3. \A i \in 0 .. DeDatos(b) - 1 : Apunta(b, i)'
      BY <1>1, <1>2, <2>1, <2>2 DEF Legible, Apunta, EntradasIguales
    <2>4. ASSUME ~SinContenido(b), NEW p \in 0 .. hilo[b].tam - 1
          PROVE  PalabraDelArchivo(b, p)' = Dato(b, p)
      <3>1. p \div PunterosPorBloque \in 0 .. DeDatos(b) - 1
        <4>1. hilo[b].tam \in Nat /\ hilo \in [Pedidos -> Hilo]
          BY DelHilo DEF ControlInv, TypeOK
        <4>2. p \in Nat /\ hilo[b].tam - 1 \in Nat /\ p <= hilo[b].tam - 1
          BY <4>1
        <4>3. p \div PunterosPorBloque <= (hilo[b].tam - 1) \div PunterosPorBloque
          BY <4>2, CocienteCreciente, PunterosPositivos
        <4>4. p \div PunterosPorBloque \in Nat /\ (hilo[b].tam - 1) \div PunterosPorBloque \in Nat
          BY <4>2, Division, PunterosPositivos
        <4> QED BY <4>3, <4>4 DEF DeDatos
      <3>2. PalabraDelArchivo(b, p) = Dato(b, p)
        BY <2>1, <2>4 DEF Legible
      <3>3. EntradaDeIndice(b, p \div PunterosPorBloque)' = EntradaDeIndice(b, p \div PunterosPorBloque)
            /\ bloques'[EntradaDeIndice(b, p \div PunterosPorBloque)[2]]
               = bloques[EntradaDeIndice(b, p \div PunterosPorBloque)[2]]
        BY <2>2, <3>1 DEF EntradasIguales
      <3> QED BY <3>2, <3>3 DEF PalabraDelArchivo
    <2> QED BY <1>1, <1>2, <2>1, <2>3, <2>4 DEF Legible
  <1> QED BY <1>4, <1>5, <1>6 DEF PedidoInv

\* A request none of whose blocks is written.
LEMMA SinEscribirle ==
    ASSUME NEW b \in Pedidos, PedidoInv(b),
           hilo'[b] = hilo[b], metadata'[b] = metadata[b], respuesta'[b] = respuesta[b],
           BloquesDe(b)' = BloquesDe(b), \A x \in BloquesDe(b) : bloques'[x] = bloques[x]
    PROVE  Intocado(b)
  <1>1. ASSUME respuesta[b] = "OK", UnSoloIndice(b), NEW q \in 0 .. DeDatos(b) - 1
        PROVE  /\ EntradaDeIndice(b, q)' = EntradaDeIndice(b, q)
               /\ bloques'[EntradaDeIndice(b, q)[2]] = bloques[EntradaDeIndice(b, q)[2]]
    <2>1. Legible(b) BY <1>1 DEF PedidoInv, ContestadoDe
    <2>2. metadata[b].indice \in BloquesDe(b) /\ Apunta(b, q)
      BY <1>1, <2>1 DEF Legible
    <2>3. PICK x \in BloquesDe(b) : EntradaDeIndice(b, q) = Puntero(x)
      BY <2>2 DEF Apunta
    <2>4. EntradaDeIndice(b, q)[2] \in BloquesDe(b)
      BY <2>3 DEF Puntero
    <2> QED BY <2>2, <2>4 DEF EntradaDeIndice
  <1> QED BY <1>1 DEF Intocado, EntradasIguales

\* Nobody took blocks from the others: the excuse of a short list stays.
LEMMA CarreraAjena ==
    ASSUME NEW b \in Pedidos, CarreraDe(b), hilo'[b] = hilo[b], bitmap' = bitmap
    PROVE  CarreraDe(b)'
  <1>1. DeDatos(b)' = DeDatos(b) /\ BloquesLibres' = BloquesLibres
        /\ \A c \in Pedidos : BloquesDe(c)' = BloquesDe(c)
    BY MismoTamanio DEF BloquesLibres, BloquesDe
  <1>2. hay_espacio_disponible(b)' = hay_espacio_disponible(b) /\ Lista(b)' = Lista(b)
    BY <1>1 DEF hay_espacio_disponible, Lista
  <1> QED BY <1>1, <1>2 DEF CarreraDe

\* A thread with a short list, while another one, a, takes a step that leaves
\* the bitmap as it is.
LEMMA CortaAjena ==
    ASSUME ControlInv, DiscoInv, NEW a \in Pedidos, NEW b \in Pedidos \ {a},
           bitmap' = bitmap, \A c \in Pedidos \ {a} : Intocado(c),
           hilo[a].etapa # "contestado",
           hilo[a].etapa \in ConLista /\ Completa(a) /\ Corta(b) /\ Prefijo(a, b)
                 /\ bitmap[Lista(b)[1]] = a
              => \/ hilo'[a].etapa \in ConLista /\ Completa(a)' /\ Prefijo(a, b)'
                 \/ respuesta'[a] = "OK" /\ (UnSoloIndice(a)' => MismosPunteros(a, b)')
    PROVE  CortaDe(b)'
  <1>1. /\ hilo'[b] = hilo[b] /\ Lista(b)' = Lista(b) /\ DeDatos(b)' = DeDatos(b)
        /\ UnSoloIndice(b)' = UnSoloIndice(b)
    BY MismoTamanio DEF Intocado, Lista
  <1>2. Corta(b)' = Corta(b) /\ BloquesLibres' = BloquesLibres
    BY <1>1 DEF Corta, Completa, BloquesLibres
  <1> SUFFICES ASSUME Corta(b)
               PROVE  /\ bitmap[Lista(b)[1]] = LIBRE
                         => Lista(b) = LosPrimeros(BloquesLibres, DeDatos(b) + 1)
                      /\ \A c \in Pedidos : bitmap[Lista(b)[1]] = c =>
                            \/ hilo'[c].etapa \in ConLista /\ Completa(c)' /\ Prefijo(c, b)'
                            \/ respuesta'[c] = "OK" /\ (UnSoloIndice(c)' => MismosPunteros(c, b)')
    BY <1>1, <1>2 DEF CortaDe, LosPrimeros, Enesimo
  <1>3. /\ bitmap[Lista(b)[1]] = LIBRE
           => Lista(b) = LosPrimeros(BloquesLibres, DeDatos(b) + 1)
        /\ \A c \in Pedidos : bitmap[Lista(b)[1]] = c =>
              \/ hilo[c].etapa \in ConLista /\ Completa(c) /\ Prefijo(c, b)
              \/ respuesta[c] = "OK" /\ (UnSoloIndice(c) => MismosPunteros(c, b))
    BY DEF DiscoInv, CortaDe
  <1>4. ASSUME NEW c \in Pedidos, bitmap[Lista(b)[1]] = c
        PROVE  \/ hilo'[c].etapa \in ConLista /\ Completa(c)' /\ Prefijo(c, b)'
               \/ respuesta'[c] = "OK" /\ (UnSoloIndice(c)' => MismosPunteros(c, b)')
    <2>1. CASE c # a
      <3>1. /\ hilo'[c] = hilo[c] /\ metadata'[c] = metadata[c] /\ respuesta'[c] = respuesta[c]
            /\ Lista(c)' = Lista(c) /\ DeDatos(c)' = DeDatos(c)
            /\ UnSoloIndice(c)' = UnSoloIndice(c)
        BY <2>1, MismoTamanio DEF Intocado, Lista
      <3>2. CASE hilo[c].etapa \in ConLista /\ Completa(c) /\ Prefijo(c, b)
        BY <1>1, <3>1, <3>2 DEF Completa, Prefijo
      <3>3. CASE respuesta[c] = "OK" /\ (UnSoloIndice(c) => MismosPunteros(c, b))
        <4>1. UnSoloIndice(c) => EntradasIguales(c)
          BY <2>1, <3>3 DEF Intocado
        <4> QED BY <1>1, <3>1, <3>3, <4>1 DEF MismosPunteros, EntradasIguales
      <3> QED BY <1>3, <1>4, <3>2, <3>3
    <2>2. CASE c = a
      <3>1. respuesta[a] = "" BY DEF ControlInv, EtapasDe
      <3> QED BY <1>3, <1>4, <2>2, <3>1
    <2> QED BY <2>1, <2>2
  <1> QED BY <1>3, <1>4

\* The steps that move no thread, and the bitmap and the files stay.
LEMMA DiscoSinHilos ==
    ASSUME ControlInv, DiscoInv, UNCHANGED <<hilo, bitmap, metadata, bloques, respuesta>>
    PROVE  DiscoInv'
  <1>1. \A b \in Pedidos : Intocado(b)
    BY SinEscribirle DEF DiscoInv, BloquesDe
  <1> SUFFICES ASSUME NEW b \in Pedidos PROVE (PedidoInv(b) /\ CortaDe(b) /\ CarreraDe(b))'
    BY DEF DiscoInv
  <1>2. PedidoInv(b)' BY <1>1, PedidoAjeno DEF DiscoInv
  <1>3. CarreraDe(b)' BY CarreraAjena DEF DiscoInv
  <1>4. CortaDe(b)'
    <2>1. \A c \in Pedidos :
             /\ Lista(c)' = Lista(c) /\ Completa(c)' = Completa(c) /\ DeDatos(c)' = DeDatos(c)
             /\ UnSoloIndice(c)' = UnSoloIndice(c) /\ Prefijo(c, b)' = Prefijo(c, b)
             /\ MismosPunteros(c, b)' = MismosPunteros(c, b)
      BY DEF Lista, Completa, DeDatos, UnSoloIndice, Prefijo, MismosPunteros, EntradaDeIndice
    <2>2. Corta(b)' = Corta(b) /\ BloquesLibres' = BloquesLibres
      BY <2>1 DEF Corta, BloquesLibres
    <2>3. LosPrimeros(BloquesLibres, DeDatos(b) + 1)' = LosPrimeros(BloquesLibres, DeDatos(b) + 1)
      BY <2>1, <2>2 DEF LosPrimeros, Enesimo
    <2>4. CortaDe(b) BY DEF DiscoInv
    <2> QED BY <2>1, <2>2, <2>3, <2>4 DEF CortaDe
  <1> QED BY <1>2, <1>3, <1>4

\* The process ends: only what is answered has still to be so.
LEMMA DiscoAlMorir ==
    ASSUME ControlInv, DiscoInv, TerminarFS,
           \A b \in Pedidos : hilo[b].etapa \in Quieto => BloquesDe(b)' = BloquesDe(b)
    PROVE  DiscoInv'
  <1>1. /\ hilo' \in [Pedidos -> Hilo]
        /\ \A b \in Pedidos :
              /\ hilo'[b].tam = hilo[b].tam
              /\ hilo'[b].etapa = IF hilo[b].etapa \in {"nada", "contestado"}
                                  THEN hilo[b].etapa ELSE "perdido"
    <2>1. hilo \in [Pedidos -> Hilo] BY DEF ControlInv, TypeOK
    <2> QED BY <2>1, MuereHecho
  <1>2. UNCHANGED <<metadata, bloques, respuesta>>
    BY DEF TerminarFS
  <1> SUFFICES ASSUME NEW b \in Pedidos PROVE (PedidoInv(b) /\ CortaDe(b) /\ CarreraDe(b))'
    BY DEF DiscoInv
  <1>3. CortaDe(b)' /\ CarreraDe(b)' /\ EscrituraDe(b)'
    BY <1>1 DEF CortaDe, Corta, CarreraDe, EscrituraDe, Escribiendo
  <1>4. CASE hilo[b].etapa \in {"nada", "contestado"}
    <2>1. hilo'[b] = hilo[b]
      BY <1>4 DEF TerminarFS
    <2>2. Intocado(b)
      BY <1>2, <1>4, <2>1, SinEscribirle DEF DiscoInv, Quieto
    <2> QED BY <1>3, <2>2, PedidoAjeno DEF DiscoInv
  <1>5. CASE hilo[b].etapa \notin {"nada", "contestado"}
    <2>1. hilo'[b].etapa = "perdido" BY <1>1, <1>5
    <2>2. respuesta'[b] = "" BY <1>2, <1>5 DEF ControlInv, EtapasDe
    <2>3. ReservaDe(b)' /\ ContestadoDe(b)'
      BY <2>1, <2>2 DEF ReservaDe, ContestadoDe, ConLista, Escribiendo
    <2> QED BY <1>3, <2>3 DEF PedidoInv
  <1> QED BY <1>4, <1>5

\* A step of the thread of a request that leaves the bitmap as it is.
LEMMA PasoDelHilo ==
    ASSUME ControlInv, DiscoInv, NEW a \in Pedidos, bitmap' = bitmap,
           \A c \in Pedidos \ {a} : Intocado(c),
           hilo[a].etapa # "contestado",
           \/ ~(hilo[a].etapa \in ConLista /\ Completa(a))
           \/ /\ hilo'[a].etapa \in ConLista
              /\ Lista(a)' = Lista(a) /\ hilo'[a].tam = hilo[a].tam
           \/ /\ respuesta'[a] = "OK"
              /\ \A b \in Pedidos \ {a} :
                    Corta(b) /\ Prefijo(a, b) /\ UnSoloIndice(a)' => MismosPunteros(a, b)',
           PedidoInv(a)', CortaDe(a)', CarreraDe(a)'
    PROVE  DiscoInv'
  <1> SUFFICES ASSUME NEW b \in Pedidos \ {a}
               PROVE  (PedidoInv(b) /\ CortaDe(b) /\ CarreraDe(b))'
    BY DEF DiscoInv
  <1>1. PedidoInv(b)' BY PedidoAjeno DEF DiscoInv
  <1>2. CarreraDe(b)' BY CarreraAjena DEF DiscoInv, Intocado
  <1>3. hilo[a].etapa \in ConLista /\ Completa(a) /\ Corta(b) /\ Prefijo(a, b)
                 /\ bitmap[Lista(b)[1]] = a
              => \/ hilo'[a].etapa \in ConLista /\ Completa(a)' /\ Prefijo(a, b)'
                 \/ respuesta'[a] = "OK" /\ (UnSoloIndice(a)' => MismosPunteros(a, b)')
    <2>1. Lista(b)' = Lista(b) BY DEF Intocado, Lista
    <2>2. Lista(a)' = Lista(a) /\ hilo'[a].tam = hilo[a].tam
          => Completa(a)' = Completa(a) /\ Prefijo(a, b)' = Prefijo(a, b)
      BY <2>1, MismoTamanio DEF Completa, Prefijo
    <2> QED BY <2>2
  <1>4. CortaDe(b)' BY <1>3, CortaAjena
  <1> QED BY <1>1, <1>2, <1>4

\* The request itself, when its list and its size stay.
LEMMA CortaPropia ==
    ASSUME ControlInv, DiscoInv, NEW a \in Pedidos, bitmap' = bitmap,
           \A c \in Pedidos \ {a} : Intocado(c),
           Lista(a)' = Lista(a), hilo'[a].tam = hilo[a].tam, Corta(a)' => Corta(a)
    PROVE  CortaDe(a)'
  <1> SUFFICES ASSUME Corta(a)' PROVE CortaDe(a)'
    BY DEF CortaDe
  <1>1. Corta(a) OBVIOUS
  <1>2. DeDatos(a)' = DeDatos(a) /\ BloquesLibres' = BloquesLibres
    BY MismoTamanio DEF BloquesLibres
  <1>3. ASSUME NEW c \in Pedidos, bitmap[Lista(a)[1]] = c
        PROVE  \/ hilo'[c].etapa \in ConLista /\ Completa(c)' /\ Prefijo(c, a)'
               \/ respuesta'[c] = "OK" /\ (UnSoloIndice(c)' => MismosPunteros(c, a)')
    <2>1. c # a
      <3>1. BloquesDe(a) = {}
        BY <1>1 DEF DiscoInv, PedidoInv, ReservaDe, Corta, ConLista
      <3>2. Lista(a)[1] \in Bloques
        <4>1. Lista(a) \in Seq(Bloques) /\ Lista(a) # <<>>
          BY <1>1, DelHilo DEF ControlInv, TypeOK, Lista, Corta
        <4> QED BY <4>1
      <3> QED BY <1>3, <3>1, <3>2 DEF BloquesDe
    <2>2. /\ hilo'[c] = hilo[c] /\ metadata'[c] = metadata[c] /\ respuesta'[c] = respuesta[c]
          /\ Lista(c)' = Lista(c) /\ DeDatos(c)' = DeDatos(c) /\ UnSoloIndice(c)' = UnSoloIndice(c)
      BY <2>1, MismoTamanio DEF Intocado, Lista
    <2>3. \/ hilo[c].etapa \in ConLista /\ Completa(c) /\ Prefijo(c, a)
          \/ respuesta[c] = "OK" /\ (UnSoloIndice(c) => MismosPunteros(c, a))
      BY <1>1, <1>3 DEF DiscoInv, CortaDe
    <2>4. CASE hilo[c].etapa \in ConLista /\ Completa(c) /\ Prefijo(c, a)
      BY <2>2, <2>4 DEF Completa, Prefijo
    <2>5. CASE respuesta[c] = "OK" /\ (UnSoloIndice(c) => MismosPunteros(c, a))
      <3>1. UnSoloIndice(c) => EntradasIguales(c)
        BY <2>1, <2>5 DEF Intocado
      <3> QED BY <2>2, <2>5, <3>1 DEF MismosPunteros, EntradasIguales
    <2> QED BY <2>3, <2>4, <2>5
  <1>4. bitmap[Lista(a)[1]] = LIBRE => Lista(a) = LosPrimeros(BloquesLibres, DeDatos(a) + 1)
    BY <1>1 DEF DiscoInv, CortaDe
  <1>5. LosPrimeros(BloquesLibres, DeDatos(a) + 1)' = LosPrimeros(BloquesLibres, DeDatos(a) + 1)
    BY <1>2 DEF LosPrimeros, Enesimo
  <1> QED BY <1>3, <1>4, <1>5 DEF CortaDe

LEMMA CarreraPropia ==
    ASSUME NEW a \in Pedidos, CarreraDe(a), bitmap' = bitmap,
           Lista(a)' = Lista(a), hilo'[a].tam = hilo[a].tam, hilo'[a].etapa # "reservar",
           hilo'[a].etapa \in {"metadata", "bloquear", "puntero"}
              => hilo[a].etapa \in {"metadata", "bloquear", "puntero"}
    PROVE  CarreraDe(a)'
  <1>1. DeDatos(a)' = DeDatos(a) /\ \A c \in Pedidos : BloquesDe(c)' = BloquesDe(c)
    BY MismoTamanio DEF BloquesDe
  <1> QED BY <1>1 DEF CarreraDe

\* Before the blocks are reserved, and when the request is refused.
LEMMA DiscoAntesDeReservar ==
    ASSUME ControlInv, DiscoInv, NEW a \in Pedidos,
           \/ MEMORY_DUMP(a) \/ RechazarPedido(a) \/ AceptarPedido(a)
    PROVE  DiscoInv'
  <1>0. hilo \in [Pedidos -> Hilo] /\ bitmap' = bitmap /\ metadata' = metadata /\ bloques' = bloques
    BY DEF ControlInv, TypeOK, MEMORY_DUMP, RechazarPedido, AceptarPedido, varsDisco
  <1>1. hilo[a].etapa \in {"nada", "consultar"}
    BY DEF MEMORY_DUMP, Proximo, RechazarPedido, AceptarPedido, Atiende, ControlInv, EtapasDe
  <1>2. BloquesDe(a) = {} /\ metadata[a].tam = 0 /\ respuesta[a] = ""
    BY <1>1 DEF DiscoInv, PedidoInv, ReservaDe, ControlInv, EtapasDe
  <1>3. /\ hilo'[a].etapa \in {"consultar", "reservar", "contestado"}
        /\ respuesta'[a] \in {"", "ERROR"}
        /\ \A b \in Pedidos \ {a} : hilo'[b] = hilo[b] /\ respuesta'[b] = respuesta[b]
        /\ hilo'[a].etapa = "reservar" => hilo'[a].tam = hilo[a].tam /\ hay_espacio_disponible(a)
    <2>1. CASE MEMORY_DUMP(a)
      <3>1. PICK t \in Tamanios :
               hilo' = [hilo EXCEPT ![a] = [etapa |-> "consultar", tam |-> t, lista |-> <<>>, i |-> 0]]
        BY <2>1 DEF MEMORY_DUMP
      <3> QED BY <1>0, <1>2, <2>1, <3>1, PedidoHecho DEF MEMORY_DUMP
    <2>2. CASE RechazarPedido(a)
      <3>1. "contestado" \in Etapas BY DEF Etapas
      <3>2. respuesta \in [Pedidos -> {"", "OK", "ERROR"}] BY DEF ControlInv, TypeOK
      <3> QED BY <1>0, <1>2, <2>2, <3>1, <3>2, TerminaHecho DEF RechazarPedido
    <2>3. CASE AceptarPedido(a)
      <3>1. "reservar" \in Etapas /\ 0 \in Nat BY DEF Etapas
      <3> QED BY <1>0, <1>2, <2>3, <3>1, SigueHecho DEF AceptarPedido
    <2> QED BY <2>1, <2>2, <2>3
  <1>4. \A c \in Pedidos \ {a} : Intocado(c)
    BY <1>0, <1>3, SinEscribirle DEF DiscoInv, BloquesDe
  <1>5. PedidoInv(a)'
    <2>1. BloquesDe(a)' = {} /\ metadata'[a].tam = 0
      BY <1>0, <1>2 DEF BloquesDe
    <2> QED BY <1>3, <2>1 DEF PedidoInv, ReservaDe, EscrituraDe, ContestadoDe, ConLista, Escribiendo
  <1>6. CortaDe(a)' BY <1>3 DEF CortaDe, Corta
  <1>7. CarreraDe(a)'
    <2>1. ASSUME hilo'[a].etapa = "reservar" PROVE hay_espacio_disponible(a)'
      <3>1. DeDatos(a)' = DeDatos(a) /\ BloquesLibres' = BloquesLibres
        BY <1>0, <1>3, <2>1, MismoTamanio DEF BloquesLibres
      <3> QED BY <1>3, <2>1, <3>1 DEF hay_espacio_disponible
    <2> QED BY <1>3, <2>1 DEF CarreraDe
  <1>8. hilo[a].etapa # "contestado" /\ hilo[a].etapa \notin ConLista
    BY <1>1 DEF ConLista
  <1> QED BY <1>0, <1>4, <1>5, <1>6, <1>7, <1>8, PasoDelHilo

\* The metadata names the block that will be the index.
LEMMA DiscoMetadata ==
    ASSUME ControlInv, DiscoInv, NEW a \in Pedidos, crear_el_archivo_de_metadata(a), ~MorirFS
    PROVE  DiscoInv'
  <1>0. hilo \in [Pedidos -> Hilo] BY DEF ControlInv, TypeOK
  <1>1. /\ hilo[a].etapa = "metadata" /\ Lista(a) # <<>> /\ Sigue(a, "bloquear", 0)
        /\ metadata' = [metadata EXCEPT ![a] = [tam |-> hilo[a].tam, indice |-> Head(Lista(a))]]
        /\ bitmap' = bitmap /\ bloques' = bloques /\ respuesta' = respuesta
    BY DEF crear_el_archivo_de_metadata, Atiende, Lista
  <1>2. /\ hilo'[a].etapa = "bloquear" /\ hilo'[a].tam = hilo[a].tam /\ Lista(a)' = Lista(a)
        /\ \A b \in Pedidos \ {a} : hilo'[b] = hilo[b]
    <2>1. "bloquear" \in Etapas /\ 0 \in Nat BY DEF Etapas
    <2> QED BY <1>0, <1>1, <2>1, SigueHecho DEF Lista
  <1>3. /\ metadata'[a].tam = hilo[a].tam /\ metadata'[a].indice = Lista(a)[1]
        /\ \A b \in Pedidos \ {a} : metadata'[b] = metadata[b]
    <2>1. metadata \in [Pedidos -> [tam : Nat, indice : Bloques]] BY DEF ControlInv, TypeOK
    <2>2. Head(Lista(a)) = Lista(a)[1]
      BY <1>0, <1>1, DelHilo DEF Lista
    <2> QED BY <1>1, <2>1, <2>2
  <1>4. \A c \in Pedidos \ {a} : Intocado(c)
    BY <1>1, <1>2, <1>3, SinEscribirle DEF DiscoInv, BloquesDe
  <1>5. respuesta'[a] = "" BY <1>1 DEF ControlInv, EtapasDe
  <1>6. /\ DeDatos(a)' = DeDatos(a) /\ Completa(a)' = Completa(a) /\ UnSoloIndice(a)' = UnSoloIndice(a)
        /\ BloquesDe(a)' = BloquesDe(a)
    BY <1>1, <1>2, MismoTamanio DEF Completa, BloquesDe
  <1>7. PedidoInv(a)'
    <2>1. ReservaDe(a) BY DEF DiscoInv, PedidoInv
    <2>2. ReservaDe(a)'
      BY <1>1, <1>2, <1>3, <1>5, <1>6, <2>1 DEF ReservaDe, ConLista
    <2>3. EscrituraDe(a)' /\ ContestadoDe(a)'
      BY <1>2, <1>5 DEF EscrituraDe, ContestadoDe, Escribiendo
    <2> QED BY <2>2, <2>3 DEF PedidoInv
  <1>8. CortaDe(a)'
    <2>1. Corta(a)' => Corta(a) BY <1>1, <1>2, <1>6 DEF Corta
    <2> QED BY <1>1, <1>2, <1>4, <2>1, CortaPropia
  <1>9. CarreraDe(a)'
    BY <1>1, <1>2, CarreraPropia DEF DiscoInv
  <1>10. hilo[a].etapa # "contestado" /\ hilo'[a].etapa \in ConLista
    BY <1>1, <1>2 DEF ConLista
  <1> QED BY <1>1, <1>2, <1>4, <1>7, <1>8, <1>9, <1>10, PasoDelHilo

\* The mutex is taken: nothing is written yet.
LEMMA DiscoEmpezar ==
    ASSUME ControlInv, DiscoInv, NEW a \in Pedidos, EmpezarAEscribir(a)
    PROVE  DiscoInv'
  <1>0. hilo \in [Pedidos -> Hilo] BY DEF ControlInv, TypeOK
  <1>1. /\ hilo[a].etapa = "bloquear"
        /\ bitmap' = bitmap /\ bloques' = bloques /\ respuesta' = respuesta /\ metadata' = metadata
        /\ \/ UnSoloIndice(a) /\ Sigue(a, "puntero", 1)
           \/ ~UnSoloIndice(a) /\ Sigue(a, "soltar", 1)
    BY DEF EmpezarAEscribir, Atiende, varsDisco
  <1>2. /\ hilo'[a].tam = hilo[a].tam /\ Lista(a)' = Lista(a) /\ hilo'[a].i = 1
        /\ \A b \in Pedidos \ {a} : hilo'[b] = hilo[b]
        /\ \/ UnSoloIndice(a) /\ hilo'[a].etapa = "puntero"
           \/ ~UnSoloIndice(a) /\ hilo'[a].etapa = "soltar"
    <2>1. "puntero" \in Etapas /\ "soltar" \in Etapas /\ 1 \in Nat BY DEF Etapas
    <2> QED BY <1>0, <1>1, <2>1, SigueHecho DEF Lista
  <1>3. \A c \in Pedidos \ {a} : Intocado(c)
    BY <1>1, <1>2, SinEscribirle DEF DiscoInv, BloquesDe
  <1>4. respuesta'[a] = ""
    BY <1>1 DEF ControlInv, EtapasDe
  <1>10. DeDatos(a) \in Nat \ {0}
    <2>1. hilo[a].tam # 0 BY <1>1 DEF ControlInv, EtapasDe
    <2> QED BY <1>0, <2>1, CuantosBloques
  <1>5. /\ DeDatos(a)' = DeDatos(a) /\ Completa(a)' = Completa(a) /\ UnSoloIndice(a)' = UnSoloIndice(a)
        /\ BloquesDe(a)' = BloquesDe(a)
    BY <1>1, <1>2, MismoTamanio DEF Completa, BloquesDe
  <1>6. PedidoInv(a)'
    <2>1. ReservaDe(a) BY DEF DiscoInv, PedidoInv
    <2>2. ReservaDe(a)'
      BY <1>1, <1>2, <1>4, <1>5, <2>1 DEF ReservaDe, ConLista, Escribiendo
    <2>3. ContestadoDe(a)'
      BY <1>4 DEF ContestadoDe
    <2>4. EscrituraDe(a)'
      <3>1. CASE UnSoloIndice(a) /\ hilo'[a].etapa = "puntero"
        <4>1. \A j \in 1 .. DeDatos(a) : ~(j < 1) BY <1>10
        <4>2. PunterosEscritos(a)'
          BY <1>2, <1>5, <3>1, <4>1 DEF PunterosEscritos
        <4>3. 1 \in 1 .. DeDatos(a) BY <1>10
        <4> QED BY <1>2, <1>5, <3>1, <4>2, <4>3 DEF EscrituraDe
      <3>2. CASE ~UnSoloIndice(a) /\ hilo'[a].etapa = "soltar"
        BY <1>5, <3>2 DEF EscrituraDe
      <3> QED BY <1>2, <3>1, <3>2
    <2> QED BY <2>2, <2>3, <2>4 DEF PedidoInv
  <1>7. CortaDe(a)'
    <2>1. Corta(a)' => Corta(a) BY <1>1, <1>2, <1>5 DEF Corta
    <2> QED BY <1>1, <1>2, <1>3, <2>1, CortaPropia
  <1>8. CarreraDe(a)'
    BY <1>1, <1>2, CarreraPropia DEF DiscoInv
  <1>9. hilo[a].etapa # "contestado" /\ hilo'[a].etapa \in ConLista
    BY <1>1, <1>2 DEF ConLista
  <1> QED BY <1>1, <1>2, <1>3, <1>6, <1>7, <1>8, <1>9, PasoDelHilo

\* A write of a thread with all its blocks falls on one of them: no other
\* request sees it.
LEMMA EscribeEnLoSuyo ==
    ASSUME ControlInv, DiscoInv, NEW a \in Pedidos, NEW x \in BloquesDe(a), NEW f,
           bloques' = [bloques EXCEPT ![x] = f],
           UNCHANGED <<bitmap, metadata, respuesta>>,
           \A b \in Pedidos \ {a} : hilo'[b] = hilo[b]
    PROVE  \A c \in Pedidos \ {a} : Intocado(c)
  <1> TAKE c \in Pedidos \ {a}
  <1>1. DOMAIN bloques = Bloques BY DEF ControlInv, TypeOK
  <1>2. \A y \in BloquesDe(c) : y # x /\ y \in Bloques
    BY DEF BloquesDe
  <1>3. \A y \in BloquesDe(c) : bloques'[y] = bloques[y]
    BY <1>1, <1>2
  <1>4. BloquesDe(c)' = BloquesDe(c) BY DEF BloquesDe
  <1> QED BY <1>3, <1>4, SinEscribirle DEF DiscoInv

\* A write of a thread with a short list falls on an index block, if it is
\* somebody's by now, and writes there what there is already.
LEMMA EscribeEnLoAjeno ==
    ASSUME ControlInv, DiscoInv, NEW a \in Pedidos, Corta(a), hilo[a].etapa = "puntero",
           NEW k \in 1 .. Len(Lista(a)) - 1,
           bloques' = [bloques EXCEPT ![Lista(a)[1]] =
                          [@ EXCEPT ![PosicionDelPuntero(k)] = Puntero(Lista(a)[k + 1])]],
           UNCHANGED <<bitmap, metadata, respuesta>>,
           \A b \in Pedidos \ {a} : hilo'[b] = hilo[b]
    PROVE  \A c \in Pedidos \ {a} : Intocado(c)
  <1> TAKE c \in Pedidos \ {a}
  <1> DEFINE x == Lista(a)[1]
  <1>0. Lista(a) \in Seq(Bloques) /\ x \in Bloques /\ Len(Lista(a)) \in Nat /\ SinRepetir(Lista(a))
    <2>1. Lista(a) \in Seq(Bloques) /\ Lista(a) # <<>>
      BY DelHilo DEF ControlInv, TypeOK, Lista, Corta
    <2> QED BY <2>1 DEF DiscoInv, PedidoInv, ReservaDe, ConLista
  <1>1. /\ DOMAIN bloques = Bloques /\ DOMAIN bloques[x] = Palabras
        /\ bloques'[x] = [bloques[x] EXCEPT ![k - 1] = Puntero(Lista(a)[k + 1])]
        /\ \A y \in Bloques \ {x} : bloques'[y] = bloques[y]
    BY <1>0 DEF ControlInv, TypeOK, PosicionDelPuntero
  <1>2. BloquesDe(c)' = BloquesDe(c) BY DEF BloquesDe
  <1>3. CASE bitmap[x] # c
    <2>1. \A y \in BloquesDe(c) : y \in Bloques \ {x} BY <1>3 DEF BloquesDe
    <2> QED BY <1>1, <1>2, <2>1, SinEscribirle DEF DiscoInv
  <1>4. CASE bitmap[x] = c
    <2>1. \/ hilo[c].etapa \in ConLista /\ Completa(c) /\ Prefijo(c, a)
          \/ respuesta[c] = "OK" /\ (UnSoloIndice(c) => MismosPunteros(c, a))
      BY <1>4 DEF DiscoInv, CortaDe
    <2>2. hilo[c].etapa \notin Escribiendo
      <3>1. hilo[a].etapa \in Escribiendo BY DEF Escribiendo
      <3> QED BY <3>1 DEF ControlInv, CandadoInv
    <2>3. ASSUME respuesta[c] = "OK", UnSoloIndice(c) PROVE EntradasIguales(c)
      <3>1. hilo[c].etapa = "contestado" BY <2>3 DEF ControlInv, EtapasDe
      <3>2. MismosPunteros(c, a) BY <2>1, <2>3, <3>1 DEF ConLista
      <3>3. DeDatos(c) \in Nat
        <4>1. hilo[c].tam # 0 BY <3>1 DEF ControlInv, EtapasDe
        <4> QED BY <4>1, CuantosBloques DEF ControlInv, TypeOK
      <3> SUFFICES ASSUME NEW q \in 0 .. DeDatos(c) - 1
                   PROVE  /\ EntradaDeIndice(c, q)' = EntradaDeIndice(c, q)
                          /\ bloques'[EntradaDeIndice(c, q)[2]] = bloques[EntradaDeIndice(c, q)[2]]
        BY DEF EntradasIguales
      <3>4. EntradaDeIndice(c, q) = bloques[x][q] /\ EntradaDeIndice(c, q)' = bloques'[x][q]
        BY <3>2 DEF MismosPunteros, EntradaDeIndice
      <3>5. bloques[x][q] = Puntero(Lista(a)[q + 2])
        BY <3>2, <3>4 DEF MismosPunteros
      <3>6. bloques'[x][q] = bloques[x][q]
        <4>1. CASE q = k - 1
          <5>1. q + 2 = k + 1 BY <4>1
          <5> QED BY <1>1, <3>5, <4>1, <5>1
        <4>2. CASE q # k - 1
          BY <1>1, <4>2
        <4> QED BY <4>1, <4>2
      <3>7. Lista(a)[q + 2] \in Bloques \ {x}
        <4>1. q + 2 \in 1 .. Len(Lista(a)) /\ 1 \in 1 .. Len(Lista(a)) /\ q + 2 # 1
          BY <1>0, <3>2, <3>3 DEF MismosPunteros
        <4>2. Lista(a)[q + 2] # x BY <1>0, <4>1 DEF SinRepetir
        <4> QED BY <1>0, <4>1, <4>2
      <3>8. bloques[x][q][2] = Lista(a)[q + 2] BY <3>5 DEF Puntero
      <3> QED BY <1>1, <3>4, <3>6, <3>7, <3>8
    <2> QED BY <1>2, <2>2, <2>3 DEF Intocado
  <1> QED BY <1>3, <1>4

\* A pointer is written in the index block.
LEMMA DiscoPuntero ==
    ASSUME ControlInv, DiscoInv, NEW a \in Pedidos, EscribirPuntero(a), ~MorirFS
    PROVE  DiscoInv'
  <1> DEFINE k == hilo[a].i
             l == Lista(a)
  <1>0. hilo \in [Pedidos -> Hilo] /\ l \in Seq(Bloques) /\ k \in Nat
    BY DelHilo DEF ControlInv, TypeOK, Lista
  <1>1. /\ hilo[a].etapa = "puntero" /\ k + 1 <= Len(l)
        /\ bloques' = [bloques EXCEPT ![l[1]] = [@ EXCEPT ![PosicionDelPuntero(k)] = Puntero(l[k + 1])]]
        /\ bitmap' = bitmap /\ metadata' = metadata /\ respuesta' = respuesta
    BY DEF EscribirPuntero, Atiende, Lista
  <1>2. \/ k < DeDatos(a) /\ Sigue(a, "puntero", k + 1)
        \/ k = DeDatos(a) /\ SinContenido(a) /\ Sigue(a, "soltar", 0)
        \/ k = DeDatos(a) /\ ~SinContenido(a) /\ Sigue(a, "dato", 1)
    BY DEF EscribirPuntero
  <1> HIDE DEF k, l
  <1>3. /\ hilo'[a].tam = hilo[a].tam /\ Lista(a)' = Lista(a)
        /\ \A b \in Pedidos \ {a} : hilo'[b] = hilo[b]
        /\ \/ k < DeDatos(a) /\ hilo'[a].etapa = "puntero" /\ hilo'[a].i = k + 1
           \/ k = DeDatos(a) /\ SinContenido(a) /\ hilo'[a].etapa = "soltar"
           \/ k = DeDatos(a) /\ ~SinContenido(a) /\ hilo'[a].etapa = "dato" /\ hilo'[a].i = 1
    <2>1. {"puntero", "soltar", "dato"} \subseteq Etapas /\ {0, 1, k + 1} \subseteq Nat
      BY <1>0 DEF Etapas
    <2>2. CASE k < DeDatos(a) /\ Sigue(a, "puntero", k + 1)
      BY <1>0, <2>1, <2>2, SigueHecho DEF Lista
    <2>3. CASE k = DeDatos(a) /\ SinContenido(a) /\ Sigue(a, "soltar", 0)
      BY <1>0, <2>1, <2>3, SigueHecho DEF Lista
    <2>4. CASE k = DeDatos(a) /\ ~SinContenido(a) /\ Sigue(a, "dato", 1)
      BY <1>0, <2>1, <2>4, SigueHecho DEF Lista
    <2> QED BY <1>2, <2>2, <2>3, <2>4
  <1>4. DeDatos(a) \in Nat \ {0}
    <2>1. hilo[a].tam # 0 BY <1>1 DEF ControlInv, EtapasDe
    <2> QED BY <1>0, <2>1, CuantosBloques
  <1>5. /\ DeDatos(a)' = DeDatos(a) /\ Completa(a)' = Completa(a) /\ UnSoloIndice(a)' = UnSoloIndice(a)
        /\ SinContenido(a)' = SinContenido(a)
        /\ BloquesDe(a)' = BloquesDe(a)
    BY <1>1, <1>3, MismoTamanio DEF Completa, BloquesDe
  <1>6. /\ ReservaDe(a) /\ EscrituraDe(a) /\ UnSoloIndice(a) /\ respuesta[a] = ""
        /\ hilo[a].etapa \in ConLista /\ l # <<>>
    BY <1>1 DEF DiscoInv, PedidoInv, ReservaDe, EscrituraDe, ControlInv, EtapasDe, ConLista, Escribiendo, l
  <1>7. k \in 1 .. DeDatos(a)
    BY <1>1, <1>6 DEF EscrituraDe, k
  <1>8. ~Completa(a) => hilo'[a].etapa = "puntero"
    <2>0. Len(l) \in Nat BY <1>0
    <2>1. Len(l) <= DeDatos(a) + 1
      BY <1>6 DEF ReservaDe, l
    <2>2. k = DeDatos(a) => Len(l) = DeDatos(a) + 1
      BY <1>1, <1>4, <2>0, <2>1
    <2> QED BY <1>3, <2>2 DEF Completa, l
  <1>9. \A c \in Pedidos \ {a} : Intocado(c)
    <2>1. CASE Completa(a)
      <3>1. l[1] \in BloquesDe(a)
        BY <1>4, <1>6, <2>1, SusBloques DEF l
      <3> QED BY <1>1, <1>3, <3>1, EscribeEnLoSuyo
    <2>2. CASE ~Completa(a)
      <3>1. Corta(a) BY <1>1, <1>6, <2>2 DEF Corta, l
      <3>2. k \in 1 .. Len(l) - 1 BY <1>0, <1>1, <1>7
      <3> QED BY <1>1, <1>3, <3>1, <3>2, EscribeEnLoAjeno DEF l
    <2> QED BY <2>1, <2>2
  <1>10. PedidoInv(a)'
    <2>1. ReservaDe(a)'
      <3>1. metadata[a].tam = hilo[a].tam /\ metadata[a].indice = Lista(a)[1]
        BY <1>1, <1>6 DEF ReservaDe, Escribiendo
      <3> QED BY <1>1, <1>3, <1>5, <1>6, <3>1 DEF ReservaDe, ConLista, Escribiendo, l
    <2>2. ContestadoDe(a)' BY <1>1, <1>6 DEF ContestadoDe
    <2>3. ASSUME Completa(a) PROVE PunterosEscritos(a)'
      <3>1. /\ l[1] \in Bloques /\ k - 1 \in Palabras
        <4>1. l[1] \in Bloques BY <1>4, <1>6, <2>3, SusBloques DEF l, BloquesDe
        <4>2. DeDatos(a) <= PunterosPorBloque
          <5>1. DeDatos(a) = 1 \/ DeDatos(a) <= PunterosPorBloque BY <1>6 DEF UnSoloIndice
          <5>2. PunterosPorBloque >= 1 BY PunterosPositivos
          <5> QED BY <5>1, <5>2
        <4> QED BY <1>4, <1>7, <4>1, <4>2, PunterosPositivos DEF Palabras
      <3>2. /\ DOMAIN bloques = Bloques /\ DOMAIN bloques[l[1]] = Palabras
        BY <3>1 DEF ControlInv, TypeOK
      <3>3. bloques'[l[1]] = [bloques[l[1]] EXCEPT ![k - 1] = Puntero(l[k + 1])]
        BY <1>1, <3>1, <3>2 DEF PosicionDelPuntero
      <3>4. PunterosEscritos(a) BY <1>1, <1>6, <2>3 DEF EscrituraDe, Escribiendo
      <3> SUFFICES ASSUME NEW j \in 1 .. DeDatos(a), hilo'[a].etapa = "puntero" => j < hilo'[a].i
                   PROVE  bloques'[l[1]][j - 1] = Puntero(l[j + 1])
        BY <1>3, <1>5 DEF PunterosEscritos, l, Puntero
      <3>5. CASE j = k
        BY <3>1, <3>2, <3>3, <3>5
      <3>6. CASE j # k
        <4>1. j < k
          BY <1>3, <1>7, <3>6
        <4>2. bloques[l[1]][j - 1] = Puntero(l[j + 1])
          BY <3>4, <4>1 DEF PunterosEscritos, k, l
        <4>3. j - 1 # k - 1 BY <1>0, <3>6
        <4> QED BY <3>3, <4>2, <4>3
      <3> QED BY <3>5, <3>6
    <2>4. hilo'[a].etapa = "dato" => DatosEscritos(a)'
      <3>1. \A j \in 1 .. DeDatos(a) : ~(j < 1) OBVIOUS
      <3> QED BY <1>3, <1>5, <3>1 DEF DatosEscritos
    <2>5. EscrituraDe(a)'
      <3>1. CASE k < DeDatos(a) /\ hilo'[a].etapa = "puntero" /\ hilo'[a].i = k + 1
        <4>1. k + 1 \in 1 .. DeDatos(a) BY <1>4, <1>7, <3>1
        <4> QED BY <1>5, <1>6, <2>3, <3>1, <4>1 DEF EscrituraDe, Escribiendo
      <3>2. CASE k = DeDatos(a) /\ SinContenido(a) /\ hilo'[a].etapa = "soltar"
        BY <1>5, <1>6, <1>8, <2>3, <3>2 DEF EscrituraDe, Escribiendo
      <3>3. CASE k = DeDatos(a) /\ ~SinContenido(a) /\ hilo'[a].etapa = "dato" /\ hilo'[a].i = 1
        <4>1. 1 \in 1 .. DeDatos(a) BY <1>4
        <4> QED BY <1>5, <1>6, <1>8, <2>3, <2>4, <3>3, <4>1 DEF EscrituraDe, Escribiendo
      <3> QED BY <1>3, <3>1, <3>2, <3>3
    <2> QED BY <2>1, <2>2, <2>5 DEF PedidoInv
  <1>11. CortaDe(a)'
    <2>1. Corta(a)' => Corta(a) BY <1>1, <1>3, <1>5 DEF Corta
    <2> QED BY <1>1, <1>3, <1>9, <2>1, CortaPropia
  <1>12. CarreraDe(a)'
    BY <1>1, <1>3, CarreraPropia DEF DiscoInv
  <1>13. hilo[a].etapa # "contestado" /\ hilo'[a].etapa \in ConLista
    BY <1>1, <1>3 DEF ConLista
  <1> QED BY <1>1, <1>3, <1>9, <1>10, <1>11, <1>12, <1>13, PasoDelHilo

\* The words of a data block are written.
LEMMA DiscoDatos ==
    ASSUME ControlInv, DiscoInv, NEW a \in Pedidos, EscribirDatos(a)
    PROVE  DiscoInv'
  <1> DEFINE k == hilo[a].i
             l == Lista(a)
             pr == (k - 1) * PunterosPorBloque
             x == l[k + 1]
             f == [p \in Palabras |-> IF pr + p < hilo[a].tam THEN Dato(a, pr + p) ELSE bloques[x][p]]
  <1>0. hilo \in [Pedidos -> Hilo] /\ l \in Seq(Bloques) /\ k \in Nat
    BY DelHilo DEF ControlInv, TypeOK, Lista
  <1>1. /\ hilo[a].etapa = "dato" /\ bloques' = [bloques EXCEPT ![x] = f]
        /\ bitmap' = bitmap /\ metadata' = metadata /\ respuesta' = respuesta
        /\ \/ k < DeDatos(a) /\ Sigue(a, "dato", k + 1)
           \/ ~(k < DeDatos(a)) /\ Sigue(a, "soltar", k + 1)
    BY DEF EscribirDatos, Atiende, Lista
  <1> HIDE DEF k, l, f, x
  <1>3. /\ hilo'[a].tam = hilo[a].tam /\ Lista(a)' = Lista(a)
        /\ \A b \in Pedidos \ {a} : hilo'[b] = hilo[b]
        /\ \/ k < DeDatos(a) /\ hilo'[a].etapa = "dato" /\ hilo'[a].i = k + 1
           \/ ~(k < DeDatos(a)) /\ hilo'[a].etapa = "soltar"
    <2>1. {"soltar", "dato"} \subseteq Etapas /\ k + 1 \in Nat
      BY <1>0 DEF Etapas
    <2>2. CASE k < DeDatos(a) /\ Sigue(a, "dato", k + 1)
      BY <1>0, <2>1, <2>2, SigueHecho DEF Lista
    <2>3. CASE ~(k < DeDatos(a)) /\ Sigue(a, "soltar", k + 1)
      BY <1>0, <2>1, <2>3, SigueHecho DEF Lista
    <2> QED BY <1>1, <2>2, <2>3
  <1>4. DeDatos(a) \in Nat \ {0}
    <2>1. hilo[a].tam # 0 BY <1>1 DEF ControlInv, EtapasDe
    <2> QED BY <1>0, <2>1, CuantosBloques
  <1>5. /\ DeDatos(a)' = DeDatos(a) /\ Completa(a)' = Completa(a) /\ UnSoloIndice(a)' = UnSoloIndice(a)
        /\ SinContenido(a)' = SinContenido(a)
        /\ BloquesDe(a)' = BloquesDe(a)
    BY <1>1, <1>3, MismoTamanio DEF Completa, BloquesDe
  <1>6. /\ ReservaDe(a) /\ EscrituraDe(a) /\ respuesta[a] = "" /\ hilo[a].etapa \in ConLista
    BY <1>1 DEF DiscoInv, PedidoInv, ControlInv, EtapasDe, ConLista
  <1>7. /\ k \in 1 .. DeDatos(a) /\ UnSoloIndice(a) /\ ~SinContenido(a) /\ Completa(a)
        /\ PunterosEscritos(a) /\ DatosEscritos(a)
    BY <1>1, <1>6 DEF EscrituraDe, Escribiendo, k
  <1>8. /\ \A j \in 1 .. DeDatos(a) : l[j + 1] \in BloquesDe(a) /\ l[j + 1] # l[1]
        /\ l[1] \in BloquesDe(a) /\ SinRepetir(l) /\ Len(l) = DeDatos(a) + 1
    BY <1>4, <1>6, <1>7, SusBloques DEF l, ReservaDe
  <1>9. x \in BloquesDe(a) /\ x # l[1] BY <1>7, <1>8 DEF x
  <1>10. \A c \in Pedidos \ {a} : Intocado(c)
    BY <1>1, <1>3, <1>9, EscribeEnLoSuyo
  <1>11. bloques'[x] = f /\ \A y \in Bloques \ {x} : bloques'[y] = bloques[y]
    BY <1>1, <1>9 DEF ControlInv, TypeOK, BloquesDe
  <1>12. PunterosEscritos(a)'
    <2>1. bloques'[l[1]] = bloques[l[1]]
      BY <1>8, <1>9, <1>11 DEF BloquesDe
    <2>2. \A j \in 1 .. DeDatos(a) : bloques[l[1]][j - 1] = Puntero(l[j + 1])
      BY <1>1, <1>7 DEF PunterosEscritos, l
    <2> QED BY <1>3, <1>5, <2>1, <2>2 DEF PunterosEscritos, l, Puntero
  <1>13. DatosEscritos(a)'
    <2> SUFFICES ASSUME NEW j \in 1 .. DeDatos(a), NEW w \in Palabras,
                        hilo'[a].etapa = "dato" => j < hilo'[a].i,
                        (j - 1) * PunterosPorBloque + w < hilo[a].tam
                 PROVE  bloques'[l[j + 1]][w] = Dato(a, (j - 1) * PunterosPorBloque + w)
      BY <1>3, <1>5 DEF DatosEscritos, l, Dato
    <2>1. CASE j = k
      BY <1>11, <2>1 DEF f, x
    <2>2. CASE j # k
      <3>1. j < k BY <1>3, <1>4, <1>7, <2>2
      <3>2. bloques[l[j + 1]][w] = Dato(a, (j - 1) * PunterosPorBloque + w)
        BY <1>7, <3>1 DEF DatosEscritos, k, l
      <3>3. l[j + 1] # x
        <4>1. j + 1 \in 1 .. Len(l) /\ k + 1 \in 1 .. Len(l) /\ j + 1 # k + 1
          BY <1>4, <1>7, <1>8, <2>2
        <4> QED BY <1>8, <4>1 DEF SinRepetir, x
      <3>4. l[j + 1] \in Bloques BY <1>8 DEF BloquesDe
      <3> QED BY <1>11, <3>2, <3>3, <3>4
    <2> QED BY <2>1, <2>2
  <1>14. PedidoInv(a)'
    <2>1. ReservaDe(a)'
      <3>1. Lista(a) # <<>> /\ metadata[a].tam = hilo[a].tam /\ metadata[a].indice = Lista(a)[1]
        BY <1>1, <1>6 DEF ReservaDe, Escribiendo
      <3> QED BY <1>1, <1>3, <1>5, <1>6, <3>1 DEF ReservaDe, ConLista, Escribiendo
    <2>2. ContestadoDe(a)' BY <1>1, <1>6 DEF ContestadoDe
    <2>3. EscrituraDe(a)'
      <3>1. k < DeDatos(a) => k + 1 \in 1 .. DeDatos(a) BY <1>4, <1>7
      <3> QED BY <1>3, <1>5, <1>7, <1>12, <1>13, <3>1 DEF EscrituraDe, Escribiendo
    <2> QED BY <2>1, <2>2, <2>3 DEF PedidoInv
  <1>15. CortaDe(a)'
    BY <1>3, <1>5, <1>7 DEF CortaDe, Corta
  <1>16. CarreraDe(a)'
    BY <1>3 DEF CarreraDe
  <1>17. hilo[a].etapa # "contestado" /\ hilo'[a].etapa \in ConLista
    BY <1>1, <1>3 DEF ConLista
  <1> QED BY <1>1, <1>3, <1>10, <1>14, <1>15, <1>16, <1>17, PasoDelHilo

\* When a thread is about to answer, what it has written can be read.
LEMMA AlContestarEsLegible ==
    ASSUME ControlInv, DiscoInv, NEW a \in Pedidos, hilo[a].etapa = "soltar", UnSoloIndice(a)
    PROVE  /\ Completa(a) /\ metadata[a].indice = Lista(a)[1]
           /\ \A q \in 0 .. DeDatos(a) - 1 : EntradaDeIndice(a, q) = Puntero(Lista(a)[q + 2])
           /\ Cardinality(BloquesDe(a)) = DeDatos(a) + 1
           /\ Legible(a)
  <1>1. ReservaDe(a) /\ EscrituraDe(a) /\ hilo[a].etapa \in ConLista
    BY DEF DiscoInv, PedidoInv, ConLista
  <1>2. /\ Completa(a) /\ PunterosEscritos(a) /\ (~SinContenido(a) => DatosEscritos(a))
        /\ metadata[a].indice = Lista(a)[1] /\ metadata[a].tam = hilo[a].tam
    BY <1>1 DEF EscrituraDe, ReservaDe, Escribiendo
  <1>3. /\ DeDatos(a) \in Nat \ {0} /\ Lista(a)[1] \in BloquesDe(a)
        /\ \A j \in 1 .. DeDatos(a) : Lista(a)[j + 1] \in BloquesDe(a)
        /\ Cardinality(BloquesDe(a)) = DeDatos(a) + 1
    BY <1>1, <1>2, SusBloques
  <1>4. ASSUME NEW q \in 0 .. DeDatos(a) - 1
        PROVE  /\ EntradaDeIndice(a, q) = Puntero(Lista(a)[q + 2])
               /\ Lista(a)[q + 2] \in BloquesDe(a)
    <2>1. q + 1 \in 1 .. DeDatos(a) /\ (q + 1) - 1 = q /\ (q + 1) + 1 = q + 2
      BY <1>3
    <2>2. bloques[Lista(a)[1]][(q + 1) - 1] = Puntero(Lista(a)[(q + 1) + 1])
      BY <1>2, <2>1 DEF PunterosEscritos
    <2>3. Lista(a)[(q + 1) + 1] \in BloquesDe(a)
      BY <1>3, <2>1
    <2> QED BY <1>2, <2>1, <2>2, <2>3 DEF EntradaDeIndice
  <1>5. ASSUME ~SinContenido(a), NEW p \in 0 .. hilo[a].tam - 1
        PROVE  PalabraDelArchivo(a, p) = Dato(a, p)
    <2> DEFINE c == p \div PunterosPorBloque
               r == p % PunterosPorBloque
    <2>1. hilo[a].tam \in Nat
      BY DelHilo DEF ControlInv, TypeOK
    <2>2. p \in Nat /\ hilo[a].tam - 1 \in Nat /\ p <= hilo[a].tam - 1 /\ p < hilo[a].tam
      BY <2>1
    <2>3. /\ c \in Nat /\ r \in Palabras
          /\ p = PunterosPorBloque * c + r
      BY <2>2, Division, PunterosPositivos DEF Palabras
    <2>4. c \in 0 .. DeDatos(a) - 1
      <3>1. c <= (hilo[a].tam - 1) \div PunterosPorBloque
        BY <2>2, CocienteCreciente, PunterosPositivos
      <3>2. (hilo[a].tam - 1) \div PunterosPorBloque \in Nat
        BY <2>2, Division, PunterosPositivos
      <3> QED BY <2>3, <3>1, <3>2 DEF DeDatos
    <2> HIDE DEF c, r
    <2>5. c + 1 \in 1 .. DeDatos(a) /\ (c + 1) + 1 = c + 2
      BY <1>3, <2>4
    <2>6. ((c + 1) - 1) * PunterosPorBloque + r = p
      <3>1. (c + 1) - 1 = c BY <2>3
      <3>2. c * PunterosPorBloque = PunterosPorBloque * c BY <2>3, PunterosPositivos
      <3> QED BY <2>3, <3>1, <3>2
    <2>7. bloques[Lista(a)[(c + 1) + 1]][r] = Dato(a, ((c + 1) - 1) * PunterosPorBloque + r)
      BY <1>2, <1>5, <2>2, <2>3, <2>5, <2>6 DEF DatosEscritos
    <2>8. EntradaDeIndice(a, c)[2] = Lista(a)[c + 2]
      BY <1>4, <2>4 DEF Puntero
    <2> QED BY <2>5, <2>6, <2>7, <2>8 DEF PalabraDelArchivo, c, r
  <1>6. \A i \in 0 .. DeDatos(a) - 1 : Apunta(a, i)
    BY <1>4 DEF Apunta
  <1> QED BY <1>2, <1>3, <1>4, <1>5, <1>6 DEF Legible

\* The request is answered, and its file is what it has to be.
LEMMA DiscoOK ==
    ASSUME ControlInv, DiscoInv, NEW a \in Pedidos, ResponderOK(a)
    PROVE  DiscoInv'
  <1>1. /\ hilo[a].etapa = "soltar" /\ hilo \in [Pedidos -> Hilo]
        /\ bitmap' = bitmap /\ metadata' = metadata /\ bloques' = bloques
    BY DEF ResponderOK, Atiende, varsDisco, ControlInv, TypeOK
  <1>2. /\ hilo'[a].etapa = "contestado" /\ hilo'[a].tam = hilo[a].tam
        /\ \A b \in Pedidos \ {a} : hilo'[b] = hilo[b]
    <2>1. "contestado" \in Etapas BY DEF Etapas
    <2> QED BY <1>1, <2>1, TerminaHecho DEF ResponderOK
  <1>3. respuesta'[a] = "OK" /\ \A b \in Pedidos \ {a} : respuesta'[b] = respuesta[b]
    BY DEF ResponderOK, ControlInv, TypeOK
  <1>4. /\ DeDatos(a)' = DeDatos(a) /\ UnSoloIndice(a)' = UnSoloIndice(a)
        /\ SinContenido(a)' = SinContenido(a) /\ BloquesDe(a)' = BloquesDe(a)
        /\ \A q : EntradaDeIndice(a, q)' = EntradaDeIndice(a, q)
    BY <1>1, <1>2, MismoTamanio DEF BloquesDe, EntradaDeIndice
  <1>5. \A c \in Pedidos \ {a} : Intocado(c)
    BY <1>1, <1>2, <1>3, SinEscribirle DEF DiscoInv, BloquesDe
  <1>6. PedidoInv(a)'
    <2>1. ReservaDe(a)' /\ EscrituraDe(a)'
      BY <1>2, <1>3 DEF ReservaDe, EscrituraDe, ConLista, Escribiendo
    <2>2. ASSUME UnSoloIndice(a)
          PROVE  Cardinality(BloquesDe(a)) = DeDatos(a) + 1 /\ Legible(a)'
      <3>1. Cardinality(BloquesDe(a)) = DeDatos(a) + 1 /\ Legible(a)
        BY <1>1, <2>2, AlContestarEsLegible
      <3>2. \A i : Apunta(a, i)' = Apunta(a, i)
        BY <1>4 DEF Apunta
      <3>3. \A p : PalabraDelArchivo(a, p)' = PalabraDelArchivo(a, p)
        BY <1>1 DEF PalabraDelArchivo, EntradaDeIndice
      <3> QED BY <1>1, <1>2, <1>4, <3>1, <3>2, <3>3 DEF Legible, Dato
    <2>3. ContestadoDe(a)'
      BY <1>4, <2>2 DEF ContestadoDe
    <2> QED BY <2>1, <2>3 DEF PedidoInv
  <1>7. CortaDe(a)' /\ CarreraDe(a)'
    BY <1>2 DEF CortaDe, Corta, CarreraDe
  <1>8. ASSUME NEW b \in Pedidos \ {a}, Corta(b), Prefijo(a, b), UnSoloIndice(a)
        PROVE  MismosPunteros(a, b)'
    <2>1. /\ Completa(a) /\ metadata[a].indice = Lista(a)[1]
          /\ \A q \in 0 .. DeDatos(a) - 1 : EntradaDeIndice(a, q) = Puntero(Lista(a)[q + 2])
      BY <1>1, <1>8, AlContestarEsLegible
    <2>2. DeDatos(a) \in Nat \ {0} /\ Len(Lista(a)) = DeDatos(a) + 1
      <3>1. hilo[a].tam # 0 BY <1>1 DEF ControlInv, EtapasDe
      <3> QED BY <1>1, <2>1, <3>1, CuantosBloques DEF Completa
    <2>3. Lista(b)' = Lista(b) BY <1>2 DEF Lista
    <2>4. DeDatos(a) + 1 <= Len(Lista(b)) /\ Lista(a)[1] = Lista(b)[1]
      <3>1. 1 \in 1 .. Len(Lista(a)) BY <2>2
      <3> QED BY <1>8, <2>2, <3>1 DEF Prefijo
    <2>5. ASSUME NEW q \in 0 .. DeDatos(a) - 1 PROVE Lista(a)[q + 2] = Lista(b)[q + 2]
      <3>1. q + 2 \in 1 .. Len(Lista(a)) BY <2>2
      <3> QED BY <1>8, <3>1 DEF Prefijo
    <2> QED BY <1>1, <1>4, <2>1, <2>3, <2>4, <2>5 DEF MismosPunteros, Puntero
  <1>9. hilo[a].etapa # "contestado" BY <1>1
  <1> QED BY <1>1, <1>3, <1>4, <1>5, <1>6, <1>7, <1>8, <1>9, PasoDelHilo

\* The bits of a reservation, or of the part of it that a crash lets through,
\* are set on free blocks: no other request loses or wins one.
LEMMA MarcarLibres ==
    ASSUME TypeOK, NEW a \in Pedidos, NEW s, ToSet(s) \subseteq BloquesLibres,
           bitmap' = Marcados(a, s)
    PROVE  /\ \A b \in Pedidos \ {a} : BloquesDe(b)' = BloquesDe(b)
           /\ BloquesDe(a)' = BloquesDe(a) \cup ToSet(s)
           /\ \A x \in Bloques : bitmap'[x] = IF x \in ToSet(s) THEN a ELSE bitmap[x]
  <1>1. \A x \in Bloques : bitmap'[x] = IF x \in ToSet(s) THEN a ELSE bitmap[x]
    BY DEF Marcados
  <1>2. \A x \in ToSet(s) : x \in Bloques /\ bitmap[x] = LIBRE
    BY DEF BloquesLibres
  <1>3. ASSUME NEW b \in Pedidos \ {a} PROVE BloquesDe(b)' = BloquesDe(b)
    <2>1. b # LIBRE BY MarcasAparte
    <2> QED BY <1>1, <1>2, <2>1 DEF BloquesDe
  <1>4. BloquesDe(a)' = BloquesDe(a) \cup ToSet(s)
    BY <1>1, <1>2 DEF BloquesDe
  <1> QED BY <1>1, <1>3, <1>4

\* What a thread with a short list would have got with the blocks still free
\* is what the next reservation gets.
LEMMA LaCortaEsElResto ==
    ASSUME ControlInv, DiscoInv, NEW b \in Pedidos, Corta(b), bitmap[Lista(b)[1]] = LIBRE
    PROVE  /\ Len(Lista(b)) \in Nat \ {0} /\ Len(Lista(b)) = Cardinality(BloquesLibres)
           /\ \A j \in 1 .. Len(Lista(b)) : Lista(b)[j] = Enesimo(BloquesLibres, j)
  <1>1. Lista(b) = LosPrimeros(BloquesLibres, DeDatos(b) + 1)
    BY DEF DiscoInv, CortaDe
  <1>2. DeDatos(b) + 1 \in Nat
    <2>1. hilo[b].tam # 0 BY DEF ControlInv, EtapasDe, Corta
    <2>2. DeDatos(b) \in Nat \ {0} BY <2>1, CuantosBloques DEF ControlInv, TypeOK
    <2> QED BY <2>2
  <1>3. /\ Len(Lista(b)) = IF DeDatos(b) + 1 <= Cardinality(BloquesLibres)
                           THEN DeDatos(b) + 1 ELSE Cardinality(BloquesLibres)
        /\ \A j \in 1 .. Len(Lista(b)) : Lista(b)[j] = Enesimo(BloquesLibres, j)
    BY <1>1, <1>2, LosPrimerosHecho, LibresFinitos
  <1>4. Len(Lista(b)) # DeDatos(b) + 1 BY DEF Corta, Completa
  <1>5. Len(Lista(b)) \in Nat \ {0}
    <2>1. Lista(b) \in Seq(Bloques) /\ Lista(b) # <<>>
      BY DelHilo DEF ControlInv, TypeOK, Lista, Corta
    <2> QED BY <2>1
  <1> QED BY <1>3, <1>4, <1>5

\* The blocks are reserved, or the list comes out short and none is.
LEMMA DiscoReservar ==
    ASSUME ControlInv, DiscoInv, NEW a \in Pedidos,
           reservar_el_bloque_de_indice_y_los_bloques_de_datos(a)
    PROVE  DiscoInv'
  <1> DEFINE l == BloquesObtenidos(a)
             n == DeDatos(a) + 1
  <1>0. hilo \in [Pedidos -> Hilo] /\ TypeOK BY DEF ControlInv, TypeOK
  <1>1. /\ hilo[a].etapa = "reservar" /\ hilo' = [hilo EXCEPT ![a] = En(a, "metadata", l, 0)]
        /\ bitmap' = IF Len(l) = n THEN Marcados(a, l) ELSE bitmap
        /\ UNCHANGED <<metadata, bloques, respuesta>>
    BY DEF reservar_el_bloque_de_indice_y_los_bloques_de_datos, Atiende
  <1>2. hilo[a].tam # 0 /\ respuesta[a] = ""
    BY <1>1 DEF ControlInv, EtapasDe
  <1>3. BloquesDe(a) = {} /\ metadata[a].tam = 0
    BY <1>1 DEF DiscoInv, PedidoInv, ReservaDe
  <1>4. DeDatos(a) \in Nat \ {0}
    BY <1>0, <1>2, CuantosBloques
  <1>5. /\ l \in Seq(Bloques) /\ Len(l) \in 0 .. n
        /\ Len(l) = n <=> hay_espacio_disponible(a)
        /\ Len(l) # n => Len(l) = Cardinality(BloquesLibres)
        /\ SinRepetir(l) /\ ToSet(l) \subseteq BloquesLibres
        /\ \A i \in 1 .. Len(l) : l[i] = Enesimo(BloquesLibres, i)
    BY <1>0, <1>2, TipoDeLaLista
  <1>6. l = LosPrimeros(BloquesLibres, n)
    BY DEF BloquesObtenidos
  <1>7. l # <<>> => l[1] \in ToSet(l)
    BY <1>5 DEF ToSet
  <1> HIDE DEF l
  <1>8. /\ hilo'[a].etapa = "metadata" /\ hilo'[a].tam = hilo[a].tam /\ Lista(a)' = l
        /\ \A b \in Pedidos \ {a} : hilo'[b] = hilo[b]
    BY <1>0, <1>1, <1>5, ReservaHecho DEF Lista
  <1>9. DeDatos(a)' = DeDatos(a) /\ UnSoloIndice(a)' = UnSoloIndice(a)
    BY <1>8, MismoTamanio
  <1>10. Completa(a)' <=> Len(l) = n
    BY <1>8, <1>9 DEF Completa
  <1>11. EscrituraDe(a)' /\ ContestadoDe(a)'
    BY <1>1, <1>2, <1>8 DEF EscrituraDe, ContestadoDe, Escribiendo
  <1>12. ASSUME BloquesDe(a)' = IF Len(l) = n THEN ToSet(l) ELSE {}
         PROVE  PedidoInv(a)'
    <2>1. Len(l) <= n BY <1>4, <1>5
    <2>2. metadata'[a].tam = 0 /\ respuesta'[a] = "" BY <1>1, <1>2, <1>3
    <2>3. Len(Lista(a)') <= DeDatos(a)' + 1 /\ SinRepetir(Lista(a))'
      <3>1. SinRepetir(Lista(a))' <=> SinRepetir(l) BY <1>8 DEF SinRepetir
      <3> QED BY <1>5, <1>8, <1>9, <2>1, <3>1
    <2>4. BloquesDe(a)' = IF Completa(a)' THEN ToSet(Lista(a)') ELSE {}
      BY <1>8, <1>10, <1>12
    <2>5. ReservaDe(a)'
      BY <1>8, <2>2, <2>3, <2>4 DEF ReservaDe, ConLista, Escribiendo, ToSet
    <2> QED BY <1>11, <2>5 DEF PedidoInv
  <1>13. CASE Len(l) = n
    <2>1. /\ \A b \in Pedidos \ {a} : BloquesDe(b)' = BloquesDe(b)
          /\ BloquesDe(a)' = ToSet(l)
          /\ \A x \in Bloques : bitmap'[x] = IF x \in ToSet(l) THEN a ELSE bitmap[x]
      <3>1. bitmap' = Marcados(a, l) BY <1>1, <1>13
      <3>2. TypeOK /\ ToSet(l) \subseteq BloquesLibres BY <1>0, <1>5
      <3>3. {} \cup ToSet(l) = ToSet(l) OBVIOUS
      <3> HIDE DEF n
      <3> QED BY <1>3, <3>1, <3>2, <3>3, MarcarLibres
    <2>2. \A b \in Pedidos \ {a} : Intocado(b)
      BY <1>1, <1>8, <2>1, SinEscribirle DEF DiscoInv
    <2>3. PedidoInv(a)' /\ CortaDe(a)' /\ CarreraDe(a)'
      <3>1. PedidoInv(a)' BY <1>12, <1>13, <2>1
      <3>2. CortaDe(a)' BY <1>10, <1>13 DEF CortaDe, Corta
      <3>3. ~(Len(l) <= DeDatos(a)) BY <1>4, <1>13
      <3>4. CarreraDe(a)' BY <1>8, <1>9, <3>3 DEF CarreraDe
      <3> QED BY <3>1, <3>2, <3>4
    <2>4. l[1] \in ToSet(l) /\ 1 \in 1 .. Len(l)
      <3>1. Len(l) # 0 BY <1>4, <1>13
      <3>2. l # <<>> BY <1>5, <3>1
      <3> QED BY <1>4, <1>7, <1>13, <3>2
    <2> SUFFICES ASSUME NEW b \in Pedidos \ {a}
                 PROVE  (PedidoInv(b) /\ CortaDe(b) /\ CarreraDe(b))'
      BY <2>3 DEF DiscoInv
    <2>5. PedidoInv(b)' BY <2>2, PedidoAjeno DEF DiscoInv
    <2>6. CarreraDe(b)' BY <2>1, <2>4 DEF CarreraDe
    <2>7. CortaDe(b)'
      <3>1. /\ hilo'[b] = hilo[b] /\ Lista(b)' = Lista(b) /\ DeDatos(b)' = DeDatos(b)
            /\ Corta(b)' = Corta(b)
        BY <1>8, MismoTamanio DEF Lista, Corta, Completa
      <3> SUFFICES ASSUME Corta(b)
                   PROVE  /\ bitmap'[Lista(b)[1]] # LIBRE
                          /\ \A c \in Pedidos : bitmap'[Lista(b)[1]] = c =>
                                \/ hilo'[c].etapa \in ConLista /\ Completa(c)' /\ Prefijo(c, b)'
                                \/ respuesta'[c] = "OK" /\ (UnSoloIndice(c)' => MismosPunteros(c, b)')
        BY <3>1 DEF CortaDe
      <3>2. Lista(b)[1] \in Bloques
        <4>1. Lista(b) \in Seq(Bloques) /\ Lista(b) # <<>>
          BY <1>0, DelHilo DEF Lista, Corta
        <4> QED BY <4>1
      <3>3. CASE bitmap[Lista(b)[1]] = LIBRE
        <4>1. /\ Len(Lista(b)) \in Nat \ {0} /\ Len(Lista(b)) = Cardinality(BloquesLibres)
              /\ \A j \in 1 .. Len(Lista(b)) : Lista(b)[j] = Enesimo(BloquesLibres, j)
          BY <3>3, LaCortaEsElResto
        <4>2. Lista(b)[1] = l[1]
          <5>1. 1 \in 1 .. Len(Lista(b)) BY <4>1
          <5> QED BY <1>5, <2>4, <4>1, <5>1
        <4>3. bitmap'[Lista(b)[1]] = a
          BY <2>1, <2>4, <3>2, <4>2
        <4>4. Len(l) <= Len(Lista(b))
          <5>1. n <= Cardinality(BloquesLibres)
            BY <1>4, <1>5, <1>13, <4>1 DEF hay_espacio_disponible
          <5> QED BY <1>13, <4>1, <5>1
        <4>5. Prefijo(a, b)'
          <5>1. \A j \in 1 .. Len(l) : l[j] = Lista(b)[j]
            <6> TAKE j \in 1 .. Len(l)
            <6>1. j \in 1 .. Len(Lista(b)) BY <1>4, <1>13, <4>1, <4>4
            <6> QED BY <1>5, <4>1, <6>1
          <5> QED BY <1>8, <3>1, <4>4, <5>1 DEF Prefijo
        <4>6. a # LIBRE BY MarcasAparte
        <4>7. hilo'[a].etapa \in ConLista /\ Completa(a)' BY <1>8, <1>10, <1>13 DEF ConLista
        <4> QED BY <4>3, <4>5, <4>6, <4>7
      <3>4. CASE bitmap[Lista(b)[1]] # LIBRE
        <4>1. Lista(b)[1] \notin ToSet(l)
          BY <1>5, <3>4 DEF BloquesLibres
        <4>2. bitmap'[Lista(b)[1]] = bitmap[Lista(b)[1]]
          BY <2>1, <3>2, <4>1
        <4> SUFFICES ASSUME NEW c \in Pedidos, bitmap[Lista(b)[1]] = c
                     PROVE  \/ hilo'[c].etapa \in ConLista /\ Completa(c)' /\ Prefijo(c, b)'
                            \/ respuesta'[c] = "OK" /\ (UnSoloIndice(c)' => MismosPunteros(c, b)')
          BY <3>4, <4>2
        <4>3. c # a
          BY <1>3, <3>2 DEF BloquesDe
        <4>4. /\ hilo'[c] = hilo[c] /\ Lista(c)' = Lista(c) /\ DeDatos(c)' = DeDatos(c)
              /\ UnSoloIndice(c)' = UnSoloIndice(c)
          BY <1>8, <4>3, MismoTamanio DEF Lista
        <4>5. \/ hilo[c].etapa \in ConLista /\ Completa(c) /\ Prefijo(c, b)
              \/ respuesta[c] = "OK" /\ (UnSoloIndice(c) => MismosPunteros(c, b))
          BY DEF DiscoInv, CortaDe
        <4>6. CASE hilo[c].etapa \in ConLista /\ Completa(c) /\ Prefijo(c, b)
          BY <3>1, <4>4, <4>6 DEF Completa, Prefijo
        <4>7. CASE respuesta[c] = "OK" /\ (UnSoloIndice(c) => MismosPunteros(c, b))
          <5>1. MismosPunteros(c, b)' = MismosPunteros(c, b)
            BY <1>1, <3>1, <4>4 DEF MismosPunteros, EntradaDeIndice, Puntero
          <5> QED BY <1>1, <4>4, <4>7, <5>1
        <4> QED BY <4>5, <4>6, <4>7
      <3> QED BY <3>3, <3>4
    <2> QED BY <2>5, <2>6, <2>7
  <1>14. CASE Len(l) # n
    <2>1. bitmap' = bitmap BY <1>1, <1>14
    <2>2. BloquesLibres' = BloquesLibres /\ \A b \in Pedidos : BloquesDe(b)' = BloquesDe(b)
      BY <2>1 DEF BloquesLibres, BloquesDe
    <2>3. \A b \in Pedidos \ {a} : Intocado(b)
      BY <1>1, <1>8, <2>2, SinEscribirle DEF DiscoInv
    <2>4. PedidoInv(a)' BY <1>3, <1>12, <1>14, <2>2
    <2>5. CortaDe(a)'
      <3>1. LosPrimeros(BloquesLibres, DeDatos(a) + 1)' = l
        BY <1>6, <1>9, <2>2 DEF LosPrimeros, Enesimo
      <3>2. Corta(a)' => bitmap[l[1]] = LIBRE
        BY <1>5, <1>7, <1>8 DEF Corta, BloquesLibres
      <3>3. LIBRE \notin Pedidos BY MarcasAparte
      <3> QED BY <1>8, <2>1, <3>1, <3>2, <3>3 DEF CortaDe
    <2>6. CarreraDe(a)'
      <3>1. \E b \in Pedidos \ {a} : BloquesDe(b) # {}
        BY <1>1, <1>5, <1>14 DEF DiscoInv, CarreraDe
      <3> QED BY <2>2, <3>1 DEF CarreraDe
    <2>7. hilo[a].etapa # "contestado" /\ hilo[a].etapa \notin ConLista
      BY <1>1 DEF ConLista
    <2> QED BY <2>1, <2>3, <2>4, <2>5, <2>6, <2>7, PasoDelHilo
  <1> QED BY <1>13, <1>14

LEMMA DiscoMatarAlReservar ==
    ASSUME ControlInv, DiscoInv, NEW a \in Pedidos, MatarAlReservar(a)
    PROVE  DiscoInv'
  <1> DEFINE l == BloquesObtenidos(a)
  <1>0. TypeOK /\ hilo \in [Pedidos -> Hilo] BY DEF ControlInv, TypeOK
  <1>1. /\ hilo[a].etapa = "reservar" /\ Len(l) = DeDatos(a) + 1 /\ TerminarFS
        /\ \E k \in 1 .. DeDatos(a) : bitmap' = Marcados(a, SubSeq(l, 1, k))
    BY DEF MatarAlReservar, Atiende
  <1>2. PICK k \in 1 .. DeDatos(a) : bitmap' = Marcados(a, SubSeq(l, 1, k))
    BY <1>1
  <1>3. hilo[a].tam # 0
    BY <1>1 DEF ControlInv, EtapasDe
  <1>4. l \in Seq(Bloques) /\ ToSet(l) \subseteq BloquesLibres
    BY <1>0, <1>3, TipoDeLaLista
  <1>5. DeDatos(a) \in Nat \ {0}
    BY <1>0, <1>3, CuantosBloques
  <1> HIDE DEF l
  <1>6. ToSet(SubSeq(l, 1, k)) \subseteq ToSet(l)
    <2>1. /\ DOMAIN SubSeq(l, 1, k) = 1 .. k /\ \A i \in 1 .. k : SubSeq(l, 1, k)[i] = l[i]
      BY <1>1, <1>2, <1>4, <1>5
    <2>2. 1 .. k \subseteq DOMAIN l
      BY <1>1, <1>2, <1>4, <1>5
    <2> QED BY <2>1, <2>2 DEF ToSet
  <1>7. \A b \in Pedidos \ {a} : BloquesDe(b)' = BloquesDe(b)
    <2>1. ToSet(SubSeq(l, 1, k)) \subseteq BloquesLibres BY <1>4, <1>6
    <2> QED BY <1>0, <1>2, <2>1, MarcarLibres
  <1>8. hilo[a].etapa \notin Quieto BY <1>1 DEF Quieto
  <1> QED BY <1>1, <1>7, <1>8, DiscoAlMorir

LEMMA DiscoInicial == Init => DiscoInv
  <1> SUFFICES ASSUME Init, NEW a \in Pedidos PROVE PedidoInv(a) /\ CortaDe(a) /\ CarreraDe(a)
    BY DEF DiscoInv
  <1>1. hilo[a].etapa = "nada" /\ respuesta[a] = "" /\ metadata[a].tam = 0
    BY DEF Init, HiloNuevo
  <1>2. BloquesDe(a) = {}
    <2>1. \A b \in Bloques : bitmap[b] \in {LIBRE, ANTERIOR}
      <3>1. CASE bitmap = [b \in Bloques |-> LIBRE] BY <3>1
      <3>2. CASE \E k \in Ocupados : bitmap = [b \in Bloques |-> IF b < k THEN ANTERIOR ELSE LIBRE]
        BY <3>2
      <3> QED BY <3>1, <3>2 DEF Init
    <2> QED BY <2>1, MarcasAparte DEF BloquesDe
  <1>3. PedidoInv(a)
    BY <1>1, <1>2 DEF PedidoInv, ReservaDe, EscrituraDe, ContestadoDe, ConLista, Escribiendo
  <1>4. CortaDe(a) /\ CarreraDe(a)
    BY <1>1 DEF CortaDe, Corta, CarreraDe
  <1> QED BY <1>3, <1>4

LEMMA DiscoSeMantiene == ControlInv /\ DiscoInv /\ [Next]_vars => DiscoInv'
  <1> SUFFICES ASSUME ControlInv, DiscoInv, [Next]_vars PROVE DiscoInv'
    OBVIOUS
  <1>1. ASSUME MorirFS PROVE DiscoInv'
    <2>1. \A b \in Pedidos : BloquesDe(b)' = BloquesDe(b)
      BY <1>1 DEF MorirFS, BloquesDe
    <2> QED BY <1>1, <2>1, DiscoAlMorir DEF MorirFS
  <1>2. CASE levantar_archivos \/ crear_archivos \/ Reiniciar \/ UNCHANGED vars
    BY <1>2, DiscoSinHilos
       DEF levantar_archivos, crear_archivos, Reiniciar, vars, varsDisco
  <1>3. ASSUME NEW a \in Pedidos, Dump(a) PROVE DiscoInv'
    <2>1. CASE MEMORY_DUMP(a)
      BY <2>1, DiscoAntesDeReservar
    <2>2. CASE MEMORY_DUMP_SinFS(a) \/ RecibirRespuesta(a) \/ MemoriaAborta(a)
      BY <2>2, DiscoSinHilos DEF MEMORY_DUMP_SinFS, RecibirRespuesta, MemoriaAborta, varsDisco
    <2> QED BY <1>3, <2>1, <2>2 DEF Dump
  <1>4. ASSUME NEW a \in Pedidos, creacion_de_archivos(a) PROVE DiscoInv'
    <2>1. CASE RechazarPedido(a) \/ AceptarPedido(a)
      BY <2>1, DiscoAntesDeReservar
    <2>2. CASE ConsultarSinBitmap(a)
      BY <1>1, <2>2 DEF ConsultarSinBitmap
    <2>3. CASE reservar_el_bloque_de_indice_y_los_bloques_de_datos(a)
      BY <2>3, DiscoReservar
    <2>4. CASE crear_el_archivo_de_metadata(a)
      BY <1>1, <2>4, DiscoMetadata
    <2>5. CASE EmpezarAEscribir(a) BY <2>5, DiscoEmpezar
    <2>6. CASE EscribirPuntero(a) BY <1>1, <2>6, DiscoPuntero
    <2>7. CASE EscribirDatos(a) BY <2>7, DiscoDatos
    <2>8. CASE ResponderOK(a) BY <2>8, DiscoOK
    <2> QED BY <1>4, <2>1, <2>2, <2>3, <2>4, <2>5, <2>6, <2>7, <2>8 DEF creacion_de_archivos
  <1>5. ASSUME NEW a \in Pedidos, MatarAlReservar(a) PROVE DiscoInv'
    BY <1>5, DiscoMatarAlReservar
  <1>6. CASE Matar BY <1>1, <1>6 DEF Matar
  <1> QED BY <1>2, <1>3, <1>4, <1>5, <1>6 DEF Next
-----------------------------------------------------------------------------
(* The theorems.                                                           *)

LEMMA Invariante == Spec => []IInv
  <1>1. Init => IInv
    BY ControlInicial, DiscoInicial DEF IInv
  <1>2. IInv /\ [Next]_vars => IInv'
    BY ControlSeMantiene, DiscoSeMantiene DEF IInv
  <1> QED BY <1>1, <1>2, PTL DEF Spec

\* The variables of the file system and of the memory's dumps keep their
\* types: in particular the bitmap has only the marks of requests, and a block
\* of the disk keeps its words, whatever is written and wherever a crash falls.
THEOREM TipoCorrecto == Spec => []TypeOK
  <1>1. IInv => TypeOK BY DEF IInv, ControlInv
  <1> QED BY <1>1, Invariante, PTL

\* creacion_de_archivos answers "OK" only for a file that can be read back, and
\* nothing that happens afterwards, not the write of a thread whose list came
\* out short in a block that is not its own, nor a crash, changes it.
THEOREM ArchivoIntactoSiempre == Spec => []ArchivoIntacto
  <1>1. IInv => ArchivoIntacto
    BY DEF IInv, DiscoInv, PedidoInv, ContestadoDe, ArchivoIntacto
  <1> QED BY <1>1, Invariante, PTL

\* What MEMORY_DUMP tells the kernel is what the disk has.
THEOREM DumpVeraz == Spec => []DumpDiceLaVerdad
  <1>1. ASSUME IInv, NEW a \in Pedidos
        PROVE  /\ dump[a] = "DUMP_MEMORY_OK" /\ UnSoloIndice(a) =>
                    Cardinality(BloquesDe(a)) = DeDatos(a) + 1 /\ metadata[a].indice \in BloquesDe(a)
               /\ dump[a] = "DUMP_MEMORY_OKNT" =>
                    BloquesDe(a) = {} /\ metadata[a].tam = 0
    <2>1. /\ dump[a] = "DUMP_MEMORY_OK" => respuesta[a] = "OK"
          /\ dump[a] = "DUMP_MEMORY_OKNT" => respuesta[a] = "ERROR"
      BY <1>1 DEF IInv, ControlInv, EtapasDe
    <2>2. ReservaDe(a) /\ ContestadoDe(a)
      BY <1>1 DEF IInv, DiscoInv, PedidoInv
    <2> QED BY <2>1, <2>2 DEF ReservaDe, ContestadoDe, Legible
  <1>2. IInv => DumpDiceLaVerdad
    BY <1>1 DEF DumpDiceLaVerdad
  <1> QED BY <1>2, Invariante, PTL

\* reservar_el_bloque_de_indice_y_los_bloques_de_datos finds fewer blocks than
\* hay_espacio_disponible promised only if another request took some.
THEOREM CortaSoloPorCarrera == Spec => []ListaCortaSoloPorCarrera
  <1>1. IInv => ListaCortaSoloPorCarrera
    BY DEF IInv, DiscoInv, CarreraDe, ListaCortaSoloPorCarrera, Lista
  <1> QED BY <1>1, Invariante, PTL
-----------------------------------------------------------------------------
(* The refinement of Almacen.                                              *)

NecesitaDe(a) == IF hilo[a].tam = 0 THEN 0 ELSE DeDatos(a) + 1
ResultadoDe(a) == IF respuesta[a] = "OK" /\ ~UnSoloIndice(a) THEN "" ELSE respuesta[a]

\* The two modules count alike.
LEMMA MismoCardinal == \A S : ElAlmacen!Cardinality(S) = Cardinality(S)
  BY DEF ElAlmacen!Cardinality, Cardinality

\* The steps that Almacen does not see.
LEMMA AlmacenNoLoVe ==
    ASSUME bitmap' = bitmap, \A b \in Pedidos : hilo'[b].tam = hilo[b].tam,
           \A b \in Pedidos : ResultadoDe(b)' = ResultadoDe(b)
    PROVE  UNCHANGED ElAlmacen!vars
  <1>1. BloquesLibres' = BloquesLibres /\ \A b \in Pedidos : BloquesDe(b)' = BloquesDe(b)
    BY DEF BloquesLibres, BloquesDe
  <1>2. \A b \in Pedidos : NecesitaDe(b)' = NecesitaDe(b)
    BY MismoTamanio DEF NecesitaDe
  <1> QED BY <1>1, <1>2 DEF ElAlmacen!vars, NecesitaDe, ResultadoDe

\* Bits set on free blocks, for a request with no blocks, are an assignment.
LEMMA MarcarAsigna ==
    ASSUME IInv, NEW a \in Pedidos, hilo[a].etapa = "reservar",
           NEW s \in Seq(Bloques), SinRepetir(s), Len(s) <= DeDatos(a) + 1,
           ToSet(s) \subseteq BloquesLibres, bitmap' = Marcados(a, s),
           \A b \in Pedidos : hilo'[b].tam = hilo[b].tam, respuesta' = respuesta
    PROVE  ElAlmacen!Next
  <1>1. hilo \in [Pedidos -> Hilo] /\ TypeOK /\ hilo[a].tam # 0 /\ respuesta[a] = ""
        /\ BloquesDe(a) = {}
    BY DEF IInv, ControlInv, TypeOK, EtapasDe, DiscoInv, PedidoInv, ReservaDe
  <1>2. DeDatos(a) \in Nat \ {0} BY <1>1, CuantosBloques
  <1>3. /\ \A b \in Pedidos \ {a} : BloquesDe(b)' = BloquesDe(b)
        /\ BloquesDe(a)' = BloquesDe(a) \cup ToSet(s)
        /\ \A x \in Bloques : bitmap'[x] = IF x \in ToSet(s) THEN a ELSE bitmap[x]
    BY <1>1, MarcarLibres
  <1>4. BloquesLibres' = BloquesLibres \ ToSet(s)
    BY <1>3, MarcasAparte DEF BloquesLibres
  <1>5. BloquesLibres \ BloquesLibres' = ToSet(s)
    BY <1>4
  <1>6. Cardinality(BloquesDe(a)) + Cardinality(ToSet(s)) <= DeDatos(a) + 1
    <2>1. Cardinality(BloquesDe(a)) = 0 BY <1>1, FS_EmptySet
    <2>2. Cardinality(ToSet(s)) = Len(s) BY CardinalDeLista DEF SinRepetir
    <2>3. Len(s) \in Nat OBVIOUS
    <2> QED BY <2>1, <2>2, <2>3
  <1>7. [b \in Pedidos |-> BloquesDe(b)]'
        = [[b \in Pedidos |-> BloquesDe(b)] EXCEPT ![a] = @ \cup ToSet(s)]
    BY <1>3
  <1>8. \A b \in Pedidos : NecesitaDe(b)' = NecesitaDe(b) /\ ResultadoDe(b)' = ResultadoDe(b)
    BY MismoTamanio DEF NecesitaDe, ResultadoDe
  <1>9. NecesitaDe(a) = DeDatos(a) + 1 /\ ResultadoDe(a) = "" /\ NecesitaDe(a) > 0
    <2>1. NecesitaDe(a) = DeDatos(a) + 1 /\ ResultadoDe(a) = ""
      BY <1>1 DEF NecesitaDe, ResultadoDe
    <2>2. DeDatos(a) + 1 > 0 BY <1>2
    <2> QED BY <2>1, <2>2
  <1>10. ElAlmacen!Asignar(a)
    <2>1. ElAlmacen!EnCurso(a)
      BY <1>9 DEF ElAlmacen!EnCurso, NecesitaDe, ResultadoDe
    <2>2. BloquesLibres' \in SUBSET BloquesLibres BY <1>4
    <2>3. Cardinality([b \in Pedidos |-> BloquesDe(b)][a]) + Cardinality(BloquesLibres \ BloquesLibres')
          <= [b \in Pedidos |-> NecesitaDe(b)][a]
      BY <1>5, <1>6, <1>9
    <2>4. [b \in Pedidos |-> BloquesDe(b)]'
          = [[b \in Pedidos |-> BloquesDe(b)] EXCEPT ![a] = @ \cup (BloquesLibres \ BloquesLibres')]
      BY <1>5, <1>7
    <2>5. UNCHANGED <<[b \in Pedidos |-> NecesitaDe(b)], [b \in Pedidos |-> ResultadoDe(b)]>>
      BY <1>8
    <2> QED BY <2>1, <2>2, <2>3, <2>4, <2>5, MismoCardinal DEF ElAlmacen!Asignar, NecesitaDe, ResultadoDe
  <1> QED BY <1>10 DEF ElAlmacen!Next

LEMMA AlmacenAlPedir ==
    ASSUME IInv, NEW a \in Pedidos, MEMORY_DUMP(a)
    PROVE  ElAlmacen!Next
  <1>1. hilo \in [Pedidos -> Hilo] /\ hilo[a].tam = 0 /\ respuesta[a] = ""
    <2>1. dump[a] = "no" BY DEF MEMORY_DUMP, Proximo
    <2> QED BY <2>1 DEF IInv, ControlInv, TypeOK, EtapasDe
  <1>2. PICK t \in Tamanios :
           hilo' = [hilo EXCEPT ![a] = [etapa |-> "consultar", tam |-> t, lista |-> <<>>, i |-> 0]]
    BY DEF MEMORY_DUMP
  <1>3. /\ hilo' \in [Pedidos -> Hilo] /\ hilo'[a].tam = t /\ hilo'[a].tam # 0
        /\ \A b \in Pedidos \ {a} : hilo'[b] = hilo[b]
    BY <1>1, <1>2, PedidoHecho, TamaniosPositivos
  <1>4. bitmap' = bitmap /\ respuesta' = respuesta
    BY DEF MEMORY_DUMP, varsDisco
  <1>5. NecesitaDe(a) = 0 /\ NecesitaDe(a)' \in Nat \ {0}
    <2>1. (DeDatos(a) \in Nat \ {0})'
      <3>1. hilo'[a].tam - 1 \in Nat
        BY <1>3, TamaniosPositivos
      <3>2. (hilo'[a].tam - 1) \div PunterosPorBloque \in Nat
        BY <3>1, Division, PunterosPositivos
      <3> QED BY <3>2 DEF DeDatos
    <2>2. NecesitaDe(a) = 0 /\ NecesitaDe(a)' = DeDatos(a)' + 1
      BY <1>1, <1>3 DEF NecesitaDe
    <2> QED BY <2>1, <2>2
  <1>6. \A b \in Pedidos \ {a} : NecesitaDe(b)' = NecesitaDe(b)
    BY <1>3, MismoTamanio DEF NecesitaDe
  <1>7. \A b \in Pedidos : ResultadoDe(b)' = ResultadoDe(b)
    BY <1>1, <1>3, <1>4, MismoTamanio DEF ResultadoDe
  <1>8. BloquesLibres' = BloquesLibres /\ \A b \in Pedidos : BloquesDe(b)' = BloquesDe(b)
    BY <1>4 DEF BloquesLibres, BloquesDe
  <1>9. ElAlmacen!Pedir(a)
    <2>1. [b \in Pedidos |-> NecesitaDe(b)]'
          = [[b \in Pedidos |-> NecesitaDe(b)] EXCEPT ![a] = NecesitaDe(a)']
      BY <1>6
    <2> QED BY <1>5, <1>7, <1>8, <2>1 DEF ElAlmacen!Pedir, NecesitaDe, ResultadoDe
  <1> QED BY <1>9 DEF ElAlmacen!Next

LEMMA AlmacenAlContestar ==
    ASSUME IInv, NEW a \in Pedidos, RechazarPedido(a) \/ ResponderOK(a)
    PROVE  ElAlmacen!Next \/ UNCHANGED ElAlmacen!vars
  <1>1. /\ hilo \in [Pedidos -> Hilo] /\ respuesta \in [Pedidos -> {"", "OK", "ERROR"}]
        /\ hilo[a].etapa \in {"consultar", "soltar"} /\ bitmap' = bitmap
    BY DEF IInv, ControlInv, TypeOK, RechazarPedido, ResponderOK, Atiende, varsDisco
  <1>2. hilo[a].tam # 0 /\ respuesta[a] = ""
    BY <1>1 DEF IInv, ControlInv, EtapasDe
  <1>3. DeDatos(a) \in Nat \ {0} BY <1>1, <1>2, CuantosBloques
  <1>4. \A b \in Pedidos : hilo'[b].tam = hilo[b].tam
    <2>1. "contestado" \in Etapas BY DEF Etapas
    <2> QED BY <1>1, <2>1, TerminaHecho DEF RechazarPedido, ResponderOK
  <1>5. BloquesLibres' = BloquesLibres /\ \A b \in Pedidos : BloquesDe(b)' = BloquesDe(b)
    BY <1>1 DEF BloquesLibres, BloquesDe
  <1>6. \A b \in Pedidos : NecesitaDe(b)' = NecesitaDe(b)
    BY <1>4, MismoTamanio DEF NecesitaDe
  <1>7. \A b \in Pedidos \ {a} : ResultadoDe(b)' = ResultadoDe(b)
    BY <1>1, <1>4, MismoTamanio DEF ResultadoDe, RechazarPedido, ResponderOK
  <1>8. NecesitaDe(a) = DeDatos(a) + 1 /\ NecesitaDe(a) > 0 /\ ResultadoDe(a) = ""
    <2>1. NecesitaDe(a) = DeDatos(a) + 1 /\ ResultadoDe(a) = ""
      BY <1>2 DEF NecesitaDe, ResultadoDe
    <2>2. DeDatos(a) + 1 > 0 BY <1>3
    <2> QED BY <2>1, <2>2
  <1>9. ElAlmacen!EnCurso(a)
    BY <1>8 DEF ElAlmacen!EnCurso, NecesitaDe, ResultadoDe
  <1>10. CASE RechazarPedido(a)
    <2>1. BloquesDe(a) = {}
      BY <1>10 DEF RechazarPedido, Atiende, IInv, DiscoInv, PedidoInv, ReservaDe
    <2>2. Cardinality(BloquesLibres) < DeDatos(a) + 1
      <3>1. Cardinality(BloquesLibres) \in Nat BY LibresFinitos, FS_CardinalityType
      <3> QED BY <1>3, <1>10, <3>1 DEF RechazarPedido, hay_espacio_disponible
    <2>3. ResultadoDe(a)' = "ERROR"
      BY <1>1, <1>10 DEF RechazarPedido, ResultadoDe
    <2>4. [b \in Pedidos |-> ResultadoDe(b)]'
          = [[b \in Pedidos |-> ResultadoDe(b)] EXCEPT ![a] = "ERROR"]
      BY <1>7, <2>3
    <2>5. ElAlmacen!Rechazar(a)
      BY <1>5, <1>6, <1>8, <1>9, <2>1, <2>2, <2>4, MismoCardinal DEF ElAlmacen!Rechazar, NecesitaDe, ResultadoDe
    <2> QED BY <2>5 DEF ElAlmacen!Next
  <1>11. CASE ResponderOK(a) /\ UnSoloIndice(a)
    <2>1. hilo[a].etapa = "soltar" /\ respuesta'[a] = "OK"
      BY <1>1, <1>11 DEF ResponderOK, Atiende
    <2>2. Cardinality(BloquesDe(a)) = DeDatos(a) + 1
      BY <1>11, <2>1, AlContestarEsLegible DEF IInv
    <2>3. ResultadoDe(a)' = "OK"
      BY <1>4, <1>11, <2>1, MismoTamanio DEF ResultadoDe
    <2>4. [b \in Pedidos |-> ResultadoDe(b)]'
          = [[b \in Pedidos |-> ResultadoDe(b)] EXCEPT ![a] = "OK"]
      BY <1>7, <2>3
    <2>5. ElAlmacen!Aceptar(a)
      BY <1>5, <1>6, <1>8, <1>9, <2>2, <2>4, MismoCardinal DEF ElAlmacen!Aceptar, NecesitaDe, ResultadoDe
    <2> QED BY <2>5 DEF ElAlmacen!Next
  <1>12. CASE ResponderOK(a) /\ ~UnSoloIndice(a)
    <2>1. respuesta'[a] = "OK" BY <1>1, <1>12 DEF ResponderOK
    <2>2. ResultadoDe(a)' = "" BY <1>4, <1>12, <2>1, MismoTamanio DEF ResultadoDe
    <2> QED BY <1>1, <1>4, <1>7, <1>8, <2>2, AlmacenNoLoVe
  <1> QED BY <1>10, <1>11, <1>12

LEMMA AlmacenAlReservar ==
    ASSUME IInv, NEW a \in Pedidos,
           reservar_el_bloque_de_indice_y_los_bloques_de_datos(a) \/ MatarAlReservar(a)
    PROVE  ElAlmacen!Next \/ UNCHANGED ElAlmacen!vars
  <1> DEFINE l == BloquesObtenidos(a)
             n == DeDatos(a) + 1
  <1>1. /\ hilo \in [Pedidos -> Hilo] /\ TypeOK /\ hilo[a].etapa = "reservar"
        /\ respuesta' = respuesta
    BY DEF IInv, ControlInv, TypeOK, reservar_el_bloque_de_indice_y_los_bloques_de_datos,
           MatarAlReservar, Atiende, TerminarFS
  <1>2. hilo[a].tam # 0 /\ DeDatos(a) \in Nat \ {0}
    <2>1. hilo[a].tam # 0 BY <1>1 DEF IInv, ControlInv, EtapasDe
    <2> QED BY <1>1, <2>1, CuantosBloques
  <1>3. /\ l \in Seq(Bloques) /\ Len(l) \in 0 .. n /\ SinRepetir(l)
        /\ ToSet(l) \subseteq BloquesLibres
    BY <1>1, <1>2, TipoDeLaLista
  <1>4. CASE reservar_el_bloque_de_indice_y_los_bloques_de_datos(a)
    <2>1. /\ hilo' = [hilo EXCEPT ![a] = En(a, "metadata", l, 0)]
          /\ bitmap' = IF Len(l) = n THEN Marcados(a, l) ELSE bitmap
      BY <1>4 DEF reservar_el_bloque_de_indice_y_los_bloques_de_datos
    <2> HIDE DEF l
    <2>2. \A b \in Pedidos : hilo'[b].tam = hilo[b].tam
      BY <1>1, <1>3, <2>1, ReservaHecho
    <2>3. CASE Len(l) = n
      BY <1>1, <1>2, <1>3, <2>1, <2>2, <2>3, MarcarAsigna
    <2>4. CASE Len(l) # n
      <3>1. bitmap' = bitmap BY <2>1, <2>4
      <3>2. \A b \in Pedidos : ResultadoDe(b)' = ResultadoDe(b)
        BY <1>1, <2>2, MismoTamanio DEF ResultadoDe
      <3> QED BY <2>2, <3>1, <3>2, AlmacenNoLoVe
    <2> QED BY <2>3, <2>4
  <1>5. CASE MatarAlReservar(a)
    <2>1. Len(l) = n /\ \E k \in 1 .. DeDatos(a) : bitmap' = Marcados(a, SubSeq(l, 1, k))
      BY <1>5 DEF MatarAlReservar
    <2>2. \A b \in Pedidos : hilo'[b].tam = hilo[b].tam
      BY <1>1, <1>5, MuereHecho DEF MatarAlReservar
    <2> HIDE DEF l
    <2>3. PICK k \in 1 .. DeDatos(a) : bitmap' = Marcados(a, SubSeq(l, 1, k))
      BY <2>1
    <2> DEFINE s == SubSeq(l, 1, k)
    <2>4. /\ s \in Seq(Bloques) /\ Len(s) = k /\ k <= Len(l)
          /\ \A i \in 1 .. k : s[i] = l[i]
      BY <1>2, <1>3, <2>1
    <2>5. bitmap' = Marcados(a, s) BY <2>3
    <2> HIDE DEF s
    <2>6. SinRepetir(s)
      <3>1. \A i \in 1 .. k : i \in 1 .. Len(l) BY <1>2, <1>3, <2>4
      <3> QED BY <1>3, <2>4, <3>1 DEF SinRepetir
    <2>7. ToSet(s) \subseteq BloquesLibres
      <3>1. \A i \in 1 .. k : l[i] \in ToSet(l)
        BY <1>2, <1>3, <2>4 DEF ToSet
      <3> QED BY <1>3, <2>4, <3>1 DEF ToSet
    <2>8. Len(s) <= DeDatos(a) + 1 BY <1>2, <2>4
    <2> QED BY <1>1, <2>2, <2>4, <2>5, <2>6, <2>7, <2>8, MarcarAsigna
  <1> QED BY <1>4, <1>5

\* Every step of the rest of the file system and of the memory is one that
\* Almacen does not see: no bit, no size and no answer changes.
LEMMA AlmacenElResto ==
    ASSUME IInv, bitmap' = bitmap, respuesta' = respuesta,
           \/ hilo' = hilo \/ TerminarFS
           \/ \E a \in Pedidos : \E e \in Etapas, k \in Nat : Sigue(a, e, k)
    PROVE  UNCHANGED ElAlmacen!vars
  <1>1. hilo \in [Pedidos -> Hilo] BY DEF IInv, ControlInv, TypeOK
  <1>2. \A b \in Pedidos : hilo'[b].tam = hilo[b].tam
    <2>1. ASSUME NEW a \in Pedidos, NEW e \in Etapas, NEW k \in Nat, Sigue(a, e, k)
          PROVE  \A b \in Pedidos : hilo'[b].tam = hilo[b].tam
      BY <1>1, <2>1, SigueHecho
    <2>2. CASE TerminarFS BY <1>1, <2>2, MuereHecho
    <2> QED BY <2>1, <2>2
  <1>3. \A b \in Pedidos : ResultadoDe(b)' = ResultadoDe(b)
    BY <1>2, MismoTamanio DEF ResultadoDe
  <1> QED BY <1>2, <1>3, AlmacenNoLoVe

LEMMA PasoDeAlmacen == IInv /\ [Next]_vars => ElAlmacen!Next \/ UNCHANGED ElAlmacen!vars
  <1> SUFFICES ASSUME IInv, [Next]_vars PROVE ElAlmacen!Next \/ UNCHANGED ElAlmacen!vars
    OBVIOUS
  <1>1. CASE levantar_archivos \/ crear_archivos \/ Reiniciar \/ UNCHANGED vars
    BY <1>1, AlmacenElResto DEF levantar_archivos, crear_archivos, Reiniciar, vars, varsDisco
  <1>2. ASSUME MorirFS PROVE UNCHANGED ElAlmacen!vars
    BY <1>2, AlmacenElResto DEF MorirFS, TerminarFS
  <1>3. ASSUME NEW a \in Pedidos, Dump(a) PROVE ElAlmacen!Next \/ UNCHANGED ElAlmacen!vars
    <2>1. CASE MEMORY_DUMP(a) BY <2>1, AlmacenAlPedir
    <2>2. CASE MEMORY_DUMP_SinFS(a) \/ RecibirRespuesta(a) \/ MemoriaAborta(a)
      BY <2>2, AlmacenElResto DEF MEMORY_DUMP_SinFS, RecibirRespuesta, MemoriaAborta, varsDisco
    <2> QED BY <1>3, <2>1, <2>2 DEF Dump
  <1>4. ASSUME NEW a \in Pedidos, creacion_de_archivos(a)
        PROVE  ElAlmacen!Next \/ UNCHANGED ElAlmacen!vars
    <2>1. CASE RechazarPedido(a) \/ ResponderOK(a) BY <2>1, AlmacenAlContestar
    <2>2. CASE reservar_el_bloque_de_indice_y_los_bloques_de_datos(a) BY <2>2, AlmacenAlReservar
    <2>3. CASE \/ AceptarPedido(a) \/ (crear_el_archivo_de_metadata(a) /\ ~MorirFS)
               \/ EmpezarAEscribir(a) \/ (EscribirPuntero(a) /\ ~MorirFS) \/ EscribirDatos(a)
      <3>1. bitmap' = bitmap /\ respuesta' = respuesta
        BY <2>3 DEF AceptarPedido, crear_el_archivo_de_metadata, EmpezarAEscribir,
                    EscribirPuntero, EscribirDatos, varsDisco
      <3>2. PICK e \in {"reservar", "bloquear", "puntero", "dato", "soltar"},
                 k \in {0, 1, hilo[a].i + 1} : Sigue(a, e, k)
        BY <2>3 DEF AceptarPedido, crear_el_archivo_de_metadata, EmpezarAEscribir,
                    EscribirPuntero, EscribirDatos
      <3>3. e \in Etapas BY DEF Etapas
      <3>4. k \in Nat
        <4>1. hilo[a].i \in Nat BY DelHilo DEF IInv, ControlInv, TypeOK
        <4> QED BY <4>1
      <3> QED BY <3>1, <3>2, <3>3, <3>4, AlmacenElResto
    <2> QED BY <1>2, <1>4, <2>1, <2>2, <2>3
            DEF creacion_de_archivos, ConsultarSinBitmap, crear_el_archivo_de_metadata, EscribirPuntero
  <1>5. ASSUME NEW a \in Pedidos, MatarAlReservar(a)
        PROVE  ElAlmacen!Next \/ UNCHANGED ElAlmacen!vars
    BY <1>5, AlmacenAlReservar
  <1>6. CASE Matar BY <1>2, <1>6 DEF Matar
  <1> QED BY <1>1, <1>3, <1>4, <1>5, <1>6 DEF Next

LEMMA InicioDeAlmacen == Init => ElAlmacen!Init
  <1> SUFFICES ASSUME Init PROVE ElAlmacen!Init
    OBVIOUS
  <1>1. \A a \in Pedidos : hilo[a].tam = 0 /\ respuesta[a] = "" BY DEF Init, HiloNuevo
  <1>2. \A a \in Pedidos : BloquesDe(a) = {}
    <2>1. \A a \in Pedidos : hilo[a].etapa = "nada" BY DEF Init, HiloNuevo
    <2> QED BY <2>1, DiscoInicial DEF DiscoInv, PedidoInv, ReservaDe
  <1> QED BY <1>1, <1>2 DEF ElAlmacen!Init, BloquesLibres

\* The file system does what Almacen promises: a block is of one file at most
\* and of that one for ever, a file is accepted only with all its blocks, and
\* refused only when there are not enough, whatever the order of the threads
\* and wherever the process ends.
THEOREM RefinaAlmacen == Spec => ImplementaAlmacen
  <1>1. Spec => ElAlmacen!Init /\ [][ElAlmacen!Next]_(ElAlmacen!vars)
    <2>1. IInv /\ [Next]_vars => [ElAlmacen!Next]_(ElAlmacen!vars)
      BY PasoDeAlmacen
    <2> QED BY <2>1, Invariante, InicioDeAlmacen, PTL DEF Spec
  <1> QED BY <1>1 DEF ImplementaAlmacen, ElAlmacen!Spec
=============================================================================
