------------------------------ MODULE Archivos ------------------------------
(***************************************************************************)
(* The file system (filesystem/src/mainFS.c) and the memory's requests for *)
(* a dump (memoria/src/mainMemoria.c).                                     *)
(*                                                                         *)
(* Who runs concurrently: in the memory one thread per dump, in the file   *)
(* system one thread per connection (hilo[a] is where it is with request   *)
(* a), and the start-up.  A crash may come between any two of their steps, *)
(* and takes what is not on the disk: the files are mapped MAP_SHARED, so  *)
(* what was written to them stays.  The whole system is then started again.*)
(*                                                                         *)
(* Sizes are counted in words of sizeof(uint32_t), the size of a pointer.  *)
(* Two dumps have not the same file name: it has the pid, the tid and the  *)
(* time of the day.  A bit of the bitmap also says who set it (LIBRE: it   *)
(* is clear; ANTERIOR: set in an earlier execution), which only the        *)
(* properties look at.                                                     *)
(***************************************************************************)
EXTENDS Integers, FiniteSets, SequencesExt

CONSTANTS
    CantPedidos,         \* bound: dumps of the execution
    BlockCount,          \* BLOCK_COUNT
    PunterosPorBloque,   \* BLOCK_SIZE / sizeof(uint32_t)
    Tamanios,            \* sizes of the partitions that may be dumped
    Ocupados,            \* how many blocks earlier executions may have taken
    MaxReinicios,        \* bound: times the system is started again
    LIBRE, ANTERIOR, NADIE

\* The bitmap has whole bytes; only then has it one bit for each block.
ASSUME BitmapExacto == BlockCount \in Nat \ {0} /\ BlockCount % 8 = 0
ASSUME CantPedidosNat == CantPedidos \in Nat
ASSUME TamaniosPositivos == Tamanios \subseteq Nat \ {0}
ASSUME OcupadosCaben == Ocupados \subseteq 0 .. BlockCount
ASSUME PunterosPositivos == PunterosPorBloque \in Nat \ {0}
ASSUME ReiniciosNat == MaxReinicios \in Nat

Pedidos == 0 .. CantPedidos - 1   \* in the order they are asked
Bloques == 0 .. BlockCount - 1
Palabras == 0 .. PunterosPorBloque - 1
CERO == <<"cero">>
Puntero(b) == <<"puntero", b>>
Dato(a, p) == <<"dato", a, p>>

\* What a bit and the mutex say when no request is meant.
ASSUME MarcasAparte ==
    LIBRE # ANTERIOR /\ {LIBRE, ANTERIOR, NADIE} \cap Pedidos = {}

\* The start-up's steps on the disk, in order: the directory, its files/,
\* bitmap.dat opened and given its size, bloques.dat opened and given its
\* size.  disco is how many of them have been taken.
BITMAP_USABLE == 4
COMPLETO == 6

VARIABLES
    disco, bitmap, metadata, bloques,       \* what a crash does not take
    fs,                                     \* "caido", "arrancando", "creando" or "atendiendo"
    hilo,                                   \* request -> its thread in the file system
    mutex_archivo_bloques,                  \* the request that holds it, or NADIE
    respuesta,                              \* request -> what the file system has answered
    dump,                                   \* request -> what the memory says of it
    memoria,                                \* "viva" or "caida"
    reinicios

varsDisco == <<disco, bitmap, metadata, bloques>>
varsMemoria == <<dump, memoria, reinicios>>
vars == <<varsDisco, fs, hilo, mutex_archivo_bloques, respuesta, varsMemoria>>

HiloNuevo == [etapa |-> "nada", tam |-> 0, lista |-> <<>>, i |-> 0]

Init ==
    /\ \/ disco = 0 /\ bitmap = [b \in Bloques |-> LIBRE]
       \/ /\ disco = COMPLETO
          /\ \E k \in Ocupados :
                bitmap = [b \in Bloques |-> IF b < k THEN ANTERIOR ELSE LIBRE]
    /\ metadata = [a \in Pedidos |-> [tam |-> 0, indice |-> 0]]
    /\ bloques = [b \in Bloques |-> [p \in Palabras |-> CERO]]
    /\ fs = "arrancando" /\ memoria = "viva"
    /\ hilo = [a \in Pedidos |-> HiloNuevo]
    /\ mutex_archivo_bloques = NADIE
    /\ respuesta = [a \in Pedidos |-> ""]
    /\ dump = [a \in Pedidos |-> "no"]
    /\ reinicios = 0
-----------------------------------------------------------------------------
(* iniciar_filesystem                                                      *)

\* Mutant of levantar_archivos: the bitmap is created again.
levantar_de_cero ==
    /\ fs = "arrancando" /\ disco > 0
    /\ fs' = "atendiendo"
    /\ bitmap' = [b \in Bloques |-> LIBRE]
    /\ UNCHANGED <<disco, metadata, bloques, hilo, mutex_archivo_bloques, respuesta, varsMemoria>>

\* The directory is there: the files are taken to be there too, and whole.
levantar_archivos ==
    /\ fs = "arrancando" /\ disco > 0
    /\ fs' = "atendiendo"
    /\ UNCHANGED <<varsDisco, hilo, mutex_archivo_bloques, respuesta, varsMemoria>>

\* Each step of the creation; a file gets its size full of zeros.
crear_archivos ==
    /\ \/ fs = "arrancando" /\ disco = 0
       \/ fs = "creando"
    /\ disco' = disco + 1
    /\ fs' = IF disco' = COMPLETO THEN "atendiendo" ELSE "creando"
    /\ UNCHANGED <<bitmap, metadata, bloques, hilo, mutex_archivo_bloques, respuesta, varsMemoria>>
-----------------------------------------------------------------------------
(* MEMORY_DUMP, as far as the question: the memory of the process is copied*)
(* at once, and sent with its size.                                        *)

Proximo(a) == dump[a] = "no" /\ \A b \in 0 .. a - 1 : dump[b] # "no"

MEMORY_DUMP(a) ==
    /\ memoria = "viva" /\ fs = "atendiendo"
    /\ Proximo(a)
    /\ dump' = [dump EXCEPT ![a] = "pedido"]
    /\ \E t \in Tamanios :
          hilo' = [hilo EXCEPT ![a] = [etapa |-> "consultar", tam |-> t, lista |-> <<>>, i |-> 0]]
    /\ UNCHANGED <<varsDisco, fs, mutex_archivo_bloques, respuesta, memoria, reinicios>>

\* crear_conexion ends the memory when nobody listens.
MEMORY_DUMP_SinFS(a) ==
    /\ memoria = "viva" /\ fs # "atendiendo"
    /\ Proximo(a)
    /\ memoria' = "caida"
    /\ UNCHANGED <<varsDisco, fs, hilo, mutex_archivo_bloques, respuesta, dump, reinicios>>
-----------------------------------------------------------------------------
(* creacion_de_archivos, in the thread of request a.                       *)

Atiende(a, etapa) == fs = "atendiendo" /\ hilo[a].etapa = etapa
En(a, etapa, lista, i) == [etapa |-> etapa, tam |-> hilo[a].tam, lista |-> lista, i |-> i]
Sigue(a, etapa, i) == hilo' = [hilo EXCEPT ![a] = En(a, etapa, hilo[a].lista, i)]
Termina(a, etapa) == En(a, etapa, <<>>, 0)

\* cantidad_de_bloques_necesarios, without the index block.
DeDatos(a) == 1 + ((hilo[a].tam - 1) \div PunterosPorBloque)

\* A bad access of any thread ends the process, with all its threads.
TerminarFS ==
    /\ fs' = "caido"
    /\ mutex_archivo_bloques' = NADIE
    /\ hilo' = [a \in Pedidos |->
          IF hilo[a].etapa \in {"nada", "contestado"} THEN hilo[a] ELSE Termina(a, "perdido")]
    /\ UNCHANGED <<disco, metadata, bloques, respuesta, varsMemoria>>
MorirFS == TerminarFS /\ UNCHANGED bitmap

\* (The bitmap is only looked at and changed with mutex_bitmap locked.)
BloquesLibres == {b \in Bloques : bitmap[b] = LIBRE}

\* Mutant of hay_espacio_disponible: the index block is not counted.
hay_espacio_sin_indice(a) == Cardinality(BloquesLibres) >= DeDatos(a)

hay_espacio_disponible(a) == Cardinality(BloquesLibres) >= DeDatos(a) + 1

RechazarPedido(a) ==
    /\ Atiende(a, "consultar")
    /\ disco >= BITMAP_USABLE
    /\ ~hay_espacio_disponible(a)
    /\ respuesta' = [respuesta EXCEPT ![a] = "ERROR"]
    /\ hilo' = [hilo EXCEPT ![a] = Termina(a, "contestado")]
    /\ UNCHANGED <<varsDisco, fs, mutex_archivo_bloques, varsMemoria>>

AceptarPedido(a) ==
    /\ Atiende(a, "consultar")
    /\ disco >= BITMAP_USABLE
    /\ hay_espacio_disponible(a)
    /\ Sigue(a, "reservar", 0)
    /\ UNCHANGED <<varsDisco, fs, mutex_archivo_bloques, respuesta, varsMemoria>>

\* bitmap.dat is not there, or has no bytes.
ConsultarSinBitmap(a) ==
    /\ Atiende(a, "consultar")
    /\ disco < BITMAP_USABLE
    /\ MorirFS

\* The i-th of a set of blocks, from the lowest.
Enesimo(S, i) == CHOOSE b \in S : Cardinality(S \cap (0 .. b - 1)) = i - 1

\* The first n of them, in order, or all if they are fewer.
LosPrimeros(S, n) ==
    [i \in 1 .. (IF n <= Cardinality(S) THEN n ELSE Cardinality(S)) |-> Enesimo(S, i)]

\* As many free blocks as needed.
BloquesObtenidos(a) == LosPrimeros(BloquesLibres, DeDatos(a) + 1)

Marcados(a, lista) == [b \in Bloques |-> IF b \in ToSet(lista) THEN a ELSE bitmap[b]]

\* Nothing tells the caller that the list is short, and no bit is set then.
\* (The bits are set one by one, with mutex_bitmap locked.)
reservar_el_bloque_de_indice_y_los_bloques_de_datos(a) ==
    /\ Atiende(a, "reservar")
    /\ LET lista == BloquesObtenidos(a) IN
       /\ hilo' = [hilo EXCEPT ![a] = En(a, "metadata", lista, 0)]
       /\ bitmap' = IF Len(lista) = DeDatos(a) + 1 THEN Marcados(a, lista) ELSE bitmap
    /\ UNCHANGED <<disco, metadata, bloques, fs, mutex_archivo_bloques, respuesta, varsMemoria>>

\* With an empty list the index block is a NULL that is dereferenced.
crear_el_archivo_de_metadata(a) ==
    /\ Atiende(a, "metadata")
    /\ \/ hilo[a].lista = <<>> /\ MorirFS
       \/ /\ hilo[a].lista # <<>>
          /\ metadata' = [metadata EXCEPT ![a] = [tam |-> hilo[a].tam,
                                                  indice |-> Head(hilo[a].lista)]]
          /\ Sigue(a, "bloquear", 0)
          /\ UNCHANGED <<disco, bitmap, bloques, fs, mutex_archivo_bloques, respuesta, varsMemoria>>

\* The pointers of the file fit in one index block.
UnSoloIndice(a) == DeDatos(a) = 1 \/ DeDatos(a) <= PunterosPorBloque
\* More than one data block, and the last not full: only the pointers are written.
SinContenido(a) == DeDatos(a) > 1 /\ hilo[a].tam % PunterosPorBloque # 0

\* (Otherwise the error is logged, and the request answered as the others.)
EmpezarAEscribir(a) ==
    /\ Atiende(a, "bloquear")
    /\ mutex_archivo_bloques = NADIE
    /\ mutex_archivo_bloques' = a
    /\ Sigue(a, IF UnSoloIndice(a) THEN "puntero" ELSE "soltar", 1)
    /\ UNCHANGED <<varsDisco, fs, respuesta, varsMemoria>>

\* Mutant of PosicionDelPuntero: the position does not advance.
PosicionFija(i) == 0

PosicionDelPuntero(i) == i - 1

\* Pointer i, which is element i + 1 of the list: NULL when the list is short.
EscribirPuntero(a) ==
    /\ Atiende(a, "puntero")
    /\ LET i == hilo[a].i
           lista == hilo[a].lista
       IN \/ (i + 1 > Len(lista) \/ disco # COMPLETO) /\ MorirFS
          \/ /\ i + 1 <= Len(lista) /\ disco = COMPLETO
             /\ bloques' = [bloques EXCEPT ![lista[1]] =
                   [@ EXCEPT ![PosicionDelPuntero(i)] = Puntero(lista[i + 1])]]
             /\ \/ i < DeDatos(a) /\ Sigue(a, "puntero", i + 1)
                \/ i = DeDatos(a) /\ SinContenido(a) /\ Sigue(a, "soltar", 0)
                \/ i = DeDatos(a) /\ ~SinContenido(a) /\ Sigue(a, "dato", 1)
             /\ UNCHANGED <<disco, bitmap, metadata, fs, mutex_archivo_bloques, respuesta, varsMemoria>>

\* Data block i: all its words, or what there is when it is the only one.
EscribirDatos(a) ==
    /\ Atiende(a, "dato")
    /\ LET i == hilo[a].i
           primera == (i - 1) * PunterosPorBloque
       IN /\ bloques' = [bloques EXCEPT ![hilo[a].lista[i + 1]] =
                [p \in Palabras |-> IF primera + p < hilo[a].tam THEN Dato(a, primera + p)
                                                                  ELSE @[p]]]
          /\ Sigue(a, IF i < DeDatos(a) THEN "dato" ELSE "soltar", i + 1)
    /\ UNCHANGED <<disco, bitmap, metadata, fs, mutex_archivo_bloques, respuesta, varsMemoria>>

\* Mutant of ResponderOK: mutex_archivo_bloques is not released.
ResponderSinSoltar(a) ==
    /\ Atiende(a, "soltar")
    /\ respuesta' = [respuesta EXCEPT ![a] = "OK"]
    /\ hilo' = [hilo EXCEPT ![a] = Termina(a, "contestado")]
    /\ UNCHANGED <<varsDisco, fs, mutex_archivo_bloques, varsMemoria>>

\* The end of crear_archivo, and the answer, which is "OK" whatever was written.
ResponderOK(a) ==
    /\ Atiende(a, "soltar")
    /\ mutex_archivo_bloques' = NADIE
    /\ respuesta' = [respuesta EXCEPT ![a] = "OK"]
    /\ hilo' = [hilo EXCEPT ![a] = Termina(a, "contestado")]
    /\ UNCHANGED <<varsDisco, fs, varsMemoria>>

creacion_de_archivos(a) ==
    \/ RechazarPedido(a) \/ AceptarPedido(a) \/ ConsultarSinBitmap(a)
    \/ reservar_el_bloque_de_indice_y_los_bloques_de_datos(a)
    \/ crear_el_archivo_de_metadata(a)
    \/ EmpezarAEscribir(a) \/ EscribirPuntero(a) \/ EscribirDatos(a) \/ ResponderOK(a)
-----------------------------------------------------------------------------
(* MEMORY_DUMP, once the file system has answered, or has died.            *)

\* Mutant of RecibirRespuesta: any answer is good.
RecibirSinMirar(a) ==
    /\ memoria = "viva" /\ dump[a] = "pedido" /\ respuesta[a] # ""
    /\ dump' = [dump EXCEPT ![a] = "DUMP_MEMORY_OK"]
    /\ UNCHANGED <<varsDisco, fs, hilo, mutex_archivo_bloques, respuesta, memoria, reinicios>>

\* Mutant of RecibirRespuesta: the answer is passed on as it came.
RecibirTalCual(a) ==
    /\ memoria = "viva" /\ dump[a] = "pedido" /\ respuesta[a] # ""
    /\ dump' = [dump EXCEPT ![a] = respuesta[a]]
    /\ UNCHANGED <<varsDisco, fs, hilo, mutex_archivo_bloques, respuesta, memoria, reinicios>>

RecibirRespuesta(a) ==
    /\ memoria = "viva" /\ dump[a] = "pedido" /\ respuesta[a] # ""
    /\ dump' = [dump EXCEPT ![a] = IF respuesta[a] = "OK" THEN "DUMP_MEMORY_OK"
                                                          ELSE "DUMP_MEMORY_OKNT"]
    /\ UNCHANGED <<varsDisco, fs, hilo, mutex_archivo_bloques, respuesta, memoria, reinicios>>

\* The connection is closed with no answer: the assert on its code fails.
MemoriaAborta(a) ==
    /\ memoria = "viva" /\ dump[a] = "pedido"
    /\ fs = "caido" /\ respuesta[a] = ""
    /\ memoria' = "caida"
    /\ UNCHANGED <<varsDisco, fs, hilo, mutex_archivo_bloques, respuesta, dump, reinicios>>
-----------------------------------------------------------------------------
(* The environment.                                                        *)

\* The file system is killed, at any moment.
Matar ==
    /\ fs # "caido"
    /\ reinicios < MaxReinicios
    /\ MorirFS

\* It is killed with part of the bits of a reservation set.
MatarAlReservar(a) ==
    /\ reinicios < MaxReinicios
    /\ Atiende(a, "reservar")
    /\ LET lista == BloquesObtenidos(a) IN
       /\ Len(lista) = DeDatos(a) + 1
       /\ \E k \in 1 .. DeDatos(a) : bitmap' = Marcados(a, SubSeq(lista, 1, k))
    /\ TerminarFS

\* Everything is started again, once the file system is down.
Reiniciar ==
    /\ fs = "caido"
    /\ reinicios < MaxReinicios
    /\ reinicios' = reinicios + 1
    /\ fs' = "arrancando" /\ memoria' = "viva"
    /\ dump' = [a \in Pedidos |-> IF dump[a] = "pedido" THEN "perdido" ELSE dump[a]]
    /\ UNCHANGED <<varsDisco, hilo, mutex_archivo_bloques, respuesta>>
-----------------------------------------------------------------------------
Dump(a) ==
    MEMORY_DUMP(a) \/ MEMORY_DUMP_SinFS(a) \/ RecibirRespuesta(a) \/ MemoriaAborta(a)

Next ==
    \/ levantar_archivos \/ crear_archivos \/ Matar \/ Reiniciar
    \/ \E a \in Pedidos : Dump(a) \/ creacion_de_archivos(a) \/ MatarAlReservar(a)

Spec == Init /\ [][Next]_vars

\* Some thread of a live process goes on, if any can; nothing has to be
\* asked, killed or started again.
SpecJusta ==
    /\ Spec
    /\ WF_vars(\E a \in Pedidos : creacion_de_archivos(a) \/ RecibirRespuesta(a))
-----------------------------------------------------------------------------
(* Properties                                                              *)

Etapas == {"nada", "consultar", "reservar", "metadata", "bloquear",
           "puntero", "dato", "soltar", "contestado", "perdido"}
Hilo == [etapa : Etapas, tam : Tamanios \cup {0}, lista : Seq(Bloques), i : Nat]

\* The types of the variables.
TypeOK ==
    /\ disco \in 0 .. COMPLETO
    /\ bitmap \in [Bloques -> Pedidos \cup {LIBRE, ANTERIOR}]
    /\ metadata \in [Pedidos -> [tam : Nat, indice : Bloques]]
    /\ DOMAIN bloques = Bloques /\ \A b \in Bloques : DOMAIN bloques[b] = Palabras
    /\ fs \in {"caido", "arrancando", "creando", "atendiendo"}
    /\ hilo \in [Pedidos -> Hilo]
    /\ mutex_archivo_bloques \in Pedidos \cup {NADIE}
    /\ respuesta \in [Pedidos -> {"", "OK", "ERROR"}]
    /\ dump \in [Pedidos -> {"no", "pedido", "perdido", "DUMP_MEMORY_OK", "DUMP_MEMORY_OKNT"}]
    /\ memoria \in {"viva", "caida"}
    /\ reinicios \in 0 .. MaxReinicios

BloquesDe(a) == {b \in Bloques : bitmap[b] = a}

\* What the file's own index block says.
EntradaDeIndice(a, i) == bloques[metadata[a].indice][i]
Apunta(a, i) == EntradaDeIndice(a, i) \in {Puntero(b) : b \in BloquesDe(a)}
PalabraDelArchivo(a, p) ==
    bloques[EntradaDeIndice(a, p \div PunterosPorBloque)[2]][p % PunterosPorBloque]

\* Metadata, index block and words are what they have to be.
Legible(a) ==
    /\ metadata[a].tam = hilo[a].tam
    /\ metadata[a].indice \in BloquesDe(a)
    /\ \A i \in 0 .. DeDatos(a) - 1 : Apunta(a, i)
    /\ ~SinContenido(a) => \A p \in 0 .. hilo[a].tam - 1 : PalabraDelArchivo(a, p) = Dato(a, p)

\* A file that was answered "OK", and whose pointers fit in a block, can be
\* read back for ever through its metadata and its index block: blocks that
\* are its own, in order, and what the memory sent in them when the size is
\* one that crear_archivo writes.  No other request, late, short of blocks or
\* cut by a crash, and no restart changes a word of it.
ArchivoIntacto ==
    \A a \in Pedidos : respuesta[a] = "OK" /\ UnSoloIndice(a) => Legible(a)

\* What the memory tells the kernel is so on the disk: a good dump, if
\* one index block is enough, has all its blocks, and a bad one left nothing.
DumpDiceLaVerdad ==
    \A a \in Pedidos :
       /\ dump[a] = "DUMP_MEMORY_OK" /\ UnSoloIndice(a) =>
             Cardinality(BloquesDe(a)) = DeDatos(a) + 1 /\ metadata[a].indice \in BloquesDe(a)
       /\ dump[a] = "DUMP_MEMORY_OKNT" =>
             BloquesDe(a) = {} /\ metadata[a].tam = 0

\* The question and the reservation lock the bitmap apart.  The list comes
\* out short, and its thread is about to end the file system, only when
\* another request took blocks: alone, a request that was let in has them.
ListaCortaSoloPorCarrera ==
    \A a \in Pedidos :
       hilo[a].etapa \in {"metadata", "bloquear", "puntero"} /\ Len(hilo[a].lista) <= DeDatos(a)
       => \E b \in Pedidos \ {a} : BloquesDe(b) # {}

\* The blocks are given as Almacen promises, whatever the order of the
\* threads and wherever a crash falls.  (A file whose pointers do not fit in
\* a block has no promise: it is answered "OK" even if its list was short.)
ElAlmacen == INSTANCE Almacen WITH
    libres <- BloquesLibres,
    bloquesDe <- [a \in Pedidos |-> BloquesDe(a)],
    necesita <- [a \in Pedidos |-> IF hilo[a].tam = 0 THEN 0 ELSE DeDatos(a) + 1],
    resultado <- [a \in Pedidos |->
        IF respuesta[a] = "OK" /\ ~UnSoloIndice(a) THEN "" ELSE respuesta[a]]
ImplementaAlmacen == ElAlmacen!Spec

\* The threads of the kernel that asked for a dump are always answered,
\* unless one of the two processes dies.
TodoPedidoResponde ==
    (\E a \in Pedidos : dump[a] = "pedido")
    ~> ((\A a \in Pedidos : dump[a] # "pedido") \/ fs = "caido" \/ memoria = "caida")
=============================================================================
