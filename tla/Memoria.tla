------------------------------ MODULE Memoria ------------------------------
(***************************************************************************)
(* The partition allocator of the memory module (memoria/src/mainMemoria.c)*)
(* and its list of processes, driven by the requests of the kernel.        *)
(*                                                                         *)
(* Every request arrives on a connection of its own and is served by a     *)
(* detached thread (atender_KERNEL), so the handlers below interleave; one *)
(* action is one critical section of a handler (mutex_huecos_libres or     *)
(* mutex_lista_procesos).  The kernel's long term scheduler asks for       *)
(* processes in pid order and waits for each answer; it tells of           *)
(* finalizations without waiting (notificar_a_memoria_finalizacion_        *)
(* proceso), so they overlap each other and the next creation.             *)
(*                                                                         *)
(* A free hole and the region of a process are [inicio, tamanio] records   *)
(* (the code stores base and limite = base + tamanio - 1).  huecos_libres  *)
(* is a set: FIRST, BEST and WORST sort the list before they search it, so *)
(* its order decides only between holes of the same size, which the model  *)
(* leaves open.                                                            *)
(***************************************************************************)
EXTENDS Integers, FiniteSets, SequencesExt

CONSTANTS
    CantProcesos,   \* processes of the execution: pids 0 .. CantProcesos-1
    Tamanios,       \* the sizes a process may ask for
    TamMemoria,     \* TAM_MEMORIA
    Esquema,        \* ESQUEMA: "FIJAS" or "DINAMICAS"
    Algoritmo,      \* ALGORITMO_BUSQUEDA: "FIRST", "BEST" or "WORST"
    Particiones,    \* PARTICIONES: the sizes of the fixed partitions
    MaxEnVuelo      \* bound: kernel requests that are being served at once

ASSUME CantProcesosNat == CantProcesos \in Nat
ASSUME TamaniosPositivos == Tamanios \subseteq Nat \ {0}
ASSUME TamMemoriaPositivo == TamMemoria \in Nat \ {0}
ASSUME EsquemaConocido == Esquema \in {"FIJAS", "DINAMICAS"}
ASSUME AlgoritmoConocido == Algoritmo \in {"FIRST", "BEST", "WORST"}
ASSUME ParticionesPositivas == Particiones \in Seq(Nat \ {0})

VARIABLES
    huecos_libres,        \* set of free holes
    lista_de_procesos,    \* pids in the order of the list
    inicio_de_particion,  \* local of the start-up loop over PARTICIONES
    particion,            \* partitions the loop has turned into holes
    estado,               \* pid -> where its request is
    region,               \* pid -> the hole or part of it taken for it
    resto,                \* pid -> what is left of that hole
    victima,              \* pid -> process its finalization took off the list
    tam                   \* pid -> size the kernel asks for

vars == <<huecos_libres, lista_de_procesos, inicio_de_particion, particion,
          estado, region, resto, victima, tam>>
varsArranque == <<inicio_de_particion, particion>>

Pids == 0 .. CantProcesos - 1
SinVictima == -1                  \* NULL of eliminar_proceso_de_la_lista
Bloque == [inicio : Nat, tamanio : Nat]
Vacio == [inicio |-> 0, tamanio |-> 0]
FinDe(b) == b.inicio + b.tamanio

\* Where a request can be.  "nuevo" and "rechazado" wait in the kernel's NEW
\* queue; "activo" runs in the kernel; the others are inside a handler.
EnCreacion == {"pedido", "conResto", "cargando"}
EnFinalizacion == {"finPedido", "quitado"}
Creado == {"activo", "finPedido", "quitado", "terminado"}
EnVuelo == {p \in Pids : estado[p] \in EnCreacion \cup EnFinalizacion}
-----------------------------------------------------------------------------
(* Start-up: fixed partitions become holes one after the other, a dynamic  *)
(* memory is a single hole.                                                *)

Init ==
    /\ huecos_libres = IF Esquema = "FIJAS" THEN {}
                       ELSE {[inicio |-> 0, tamanio |-> TamMemoria]}
    /\ inicio_de_particion = 0
    /\ particion = 0
    /\ lista_de_procesos = <<>>
    /\ estado = [p \in Pids |-> "nuevo"]
    /\ region = [p \in Pids |-> Vacio]
    /\ resto = [p \in Pids |-> Vacio]
    /\ victima = [p \in Pids |-> SinVictima]
    /\ tam \in [Pids -> Tamanios]

Arrancada == Esquema = "FIJAS" => particion = Len(Particiones)

\* Mutant of CrearParticion: the next partition begins at the last byte.
CrearParticionCorta ==
    /\ ~Arrancada
    /\ huecos_libres' = huecos_libres \cup
          {[inicio |-> inicio_de_particion, tamanio |-> Particiones[particion + 1]]}
    /\ inicio_de_particion' = inicio_de_particion + Particiones[particion + 1] - 1
    /\ particion' = particion + 1
    /\ UNCHANGED <<lista_de_procesos, estado, region, resto, victima, tam>>

CrearParticion ==
    /\ ~Arrancada
    /\ huecos_libres' = huecos_libres \cup
          {[inicio |-> inicio_de_particion, tamanio |-> Particiones[particion + 1]]}
    /\ inicio_de_particion' = inicio_de_particion + Particiones[particion + 1]
    /\ particion' = particion + 1
    /\ UNCHANGED <<lista_de_procesos, estado, region, resto, victima, tam>>
-----------------------------------------------------------------------------
(* The kernel's side: which requests reach the memory, and when.           *)

PedirCreacion(p) ==
    /\ Arrancada
    /\ estado[p] \in {"nuevo", "rechazado"}
    /\ \A q \in Pids : q < p => estado[q] \in Creado
    /\ Cardinality(EnVuelo) < MaxEnVuelo
    /\ estado' = [estado EXCEPT ![p] = "pedido"]
    /\ UNCHANGED <<huecos_libres, lista_de_procesos, varsArranque, region,
                   resto, victima, tam>>

PedirFinalizacion(p) ==
    /\ estado[p] = "activo"
    /\ Cardinality(EnVuelo) < MaxEnVuelo
    /\ estado' = [estado EXCEPT ![p] = "finPedido"]
    /\ UNCHANGED <<huecos_libres, lista_de_procesos, varsArranque, region,
                   resto, victima, tam>>
-----------------------------------------------------------------------------
(* The search for a hole.                                                  *)

\* Mutant of Candidatos: > for >=.
CandidatosMayores(t) == {h \in huecos_libres : h.tamanio > t}

Candidatos(t) == {h \in huecos_libres : h.tamanio >= t}

first_fit(t) ==
    {h \in Candidatos(t) : \A g \in Candidatos(t) : h.inicio <= g.inicio}
best_fit(t) ==
    {h \in Candidatos(t) : \A g \in Candidatos(t) : h.tamanio <= g.tamanio}
worst_fit(t) ==
    {h \in Candidatos(t) : \A g \in Candidatos(t) : h.tamanio >= g.tamanio}

buscar_hueco_libre(t) ==
    CASE Algoritmo = "FIRST" -> first_fit(t)
      [] Algoritmo = "BEST"  -> best_fit(t)
      [] Algoritmo = "WORST" -> worst_fit(t)
-----------------------------------------------------------------------------
(* CREACION_DE_PROCESO: crear_proceso                                      *)

\* First critical section: a hole leaves the list, or the request is refused.
RechazarCreacion(p) ==
    /\ estado[p] = "pedido"
    /\ buscar_hueco_libre(tam[p]) = {}
    /\ estado' = [estado EXCEPT ![p] = "rechazado"]
    /\ UNCHANGED <<huecos_libres, lista_de_procesos, varsArranque, region,
                   resto, victima, tam>>

\* Mutant of SeParte: in any scheme.
SeParteSiempre(h, t) == h.tamanio > t

SeParte(h, t) == Esquema = "DINAMICAS" /\ h.tamanio > t

TomarHueco(p) ==
    /\ estado[p] = "pedido"
    /\ \E h \in buscar_hueco_libre(tam[p]) :
          /\ huecos_libres' = huecos_libres \ {h}
          /\ IF SeParte(h, tam[p])
             THEN /\ region' = [region EXCEPT ![p] =
                         [inicio |-> h.inicio, tamanio |-> tam[p]]]
                  /\ resto' = [resto EXCEPT ![p] =
                         [inicio |-> h.inicio + tam[p],
                          tamanio |-> h.tamanio - tam[p]]]
                  /\ estado' = [estado EXCEPT ![p] = "conResto"]
             ELSE /\ region' = [region EXCEPT ![p] = h]
                  /\ estado' = [estado EXCEPT ![p] = "cargando"]
                  /\ UNCHANGED resto
    /\ UNCHANGED <<lista_de_procesos, varsArranque, victima, tam>>

\* Second critical section, dynamic scheme only: the rest of the hole goes
\* back to the list as it is, without looking at its neighbours.
AgregarResto(p) ==
    /\ estado[p] = "conResto"
    /\ huecos_libres' = huecos_libres \cup {resto[p]}
    /\ estado' = [estado EXCEPT ![p] = "cargando"]
    /\ UNCHANGED <<lista_de_procesos, varsArranque, region, resto, victima, tam>>

\* Last critical section, and the answer to the kernel.
AgregarProceso(p) ==
    /\ estado[p] = "cargando"
    /\ lista_de_procesos' = Append(lista_de_procesos, p)
    /\ estado' = [estado EXCEPT ![p] = "activo"]
    /\ UNCHANGED <<huecos_libres, varsArranque, region, resto, victima, tam>>
-----------------------------------------------------------------------------
(* FINALIZACION_DE_PROCESO                                                 *)

\* Mutants of Coincide: the comparison the other way round, and strict.
CoincideAlReves(q, p) == q <= p
CoincideEstricto(q, p) == q > p

\* The comparison of eliminar_proceso_de_la_lista is >=, not =.
Coincide(q, p) == q >= p

QuitarProceso(p) ==
    /\ estado[p] = "finPedido"
    /\ \E i \in 1 .. Len(lista_de_procesos) :
          /\ Coincide(lista_de_procesos[i], p)
          /\ \A j \in 1 .. i - 1 : ~Coincide(lista_de_procesos[j], p)
          /\ victima' = [victima EXCEPT ![p] = lista_de_procesos[i]]
          /\ lista_de_procesos' = RemoveAt(lista_de_procesos, i)
    /\ estado' = [estado EXCEPT ![p] = "quitado"]
    /\ UNCHANGED <<huecos_libres, varsArranque, region, resto, tam>>

\* (Were there none, the handler would read proceso->base through NULL:
\* FinalizaElPedido says that there is one.)

\* Mutants of the searches: the last byte for the end, the next byte for the start.
buscarConLimiteCorrido(posicion) == {h \in huecos_libres : FinDe(h) - 1 = posicion}
buscarConInicioCorrido(posicion) == {h \in huecos_libres : h.inicio = posicion + 1}

buscar_hueco_por_posicion_limite(posicion) ==
    {h \in huecos_libres : FinDe(h) = posicion}
buscar_hueco_por_posicion_inicial(posicion) ==
    {h \in huecos_libres : h.inicio = posicion}

\* Mutants of the three merges: the hole on the right stays in the list; the
\* hole on the left does not grow; the start goes back twice.
ConsolidarSinQuitar(b, izq, der) ==
    (huecos_libres \ {izq}) \cup
       {[inicio |-> izq.inicio, tamanio |-> izq.tamanio + b.tamanio + der.tamanio]}
ConsolidarSinCrecer(b, izq) == huecos_libres
ConsolidarDeMas(b, der) ==
    (huecos_libres \ {der}) \cup
       {[inicio |-> b.inicio - b.tamanio, tamanio |-> b.tamanio + der.tamanio]}

\* The list of holes after region b is freed next to hole izq or der.
ConsolidarDosLados(b, izq, der) ==
    (huecos_libres \ {izq, der}) \cup
       {[inicio |-> izq.inicio, tamanio |-> izq.tamanio + b.tamanio + der.tamanio]}
ConsolidarIzquierdo(b, izq) ==
    (huecos_libres \ {izq}) \cup
       {[inicio |-> izq.inicio, tamanio |-> izq.tamanio + b.tamanio]}
ConsolidarDerecho(b, der) ==
    (huecos_libres \ {der}) \cup
       {[inicio |-> b.inicio, tamanio |-> b.tamanio + der.tamanio]}
crear_hueco(b) == huecos_libres \cup {b}

consolidar_huecos_libres_aledanios(b) ==
    LET izquierdos == buscar_hueco_por_posicion_limite(b.inicio)
        derechos == buscar_hueco_por_posicion_inicial(FinDe(b))
    IN  \/ \E izq \in izquierdos, der \in derechos :
              huecos_libres' = ConsolidarDosLados(b, izq, der)
        \/ /\ derechos = {}
           /\ \E izq \in izquierdos : huecos_libres' = ConsolidarIzquierdo(b, izq)
        \/ /\ izquierdos = {}
           /\ \E der \in derechos : huecos_libres' = ConsolidarDerecho(b, der)
        \/ /\ izquierdos = {} /\ derechos = {}
           /\ huecos_libres' = crear_hueco(b)

LiberarRegion(p) ==
    /\ estado[p] = "quitado"
    /\ \/ /\ Esquema = "DINAMICAS"
          /\ consolidar_huecos_libres_aledanios(region[victima[p]])
       \/ /\ Esquema = "FIJAS"
          /\ huecos_libres' = crear_hueco(region[victima[p]])
    /\ estado' = [estado EXCEPT ![p] = "terminado"]
    /\ UNCHANGED <<lista_de_procesos, varsArranque, region, resto, victima, tam>>
-----------------------------------------------------------------------------
Manejador(p) ==
    \/ RechazarCreacion(p) \/ TomarHueco(p) \/ AgregarResto(p) \/ AgregarProceso(p)
    \/ QuitarProceso(p) \/ LiberarRegion(p)

Next ==
    \/ CrearParticion
    \/ \E p \in Pids : \/ PedirCreacion(p) \/ PedirFinalizacion(p)
                       \/ RechazarCreacion(p) \/ TomarHueco(p) \/ AgregarResto(p)
                       \/ AgregarProceso(p) \/ QuitarProceso(p)
                       \/ LiberarRegion(p)

Spec == Init /\ [][Next]_vars

\* A detached handler thread that can run does run.
SpecJusta == Spec /\ \A p \in Pids : WF_vars(Manejador(p))
-----------------------------------------------------------------------------
(* Properties                                                              *)

\* The types of the variables.
TypeOK ==
    /\ huecos_libres \subseteq Bloque
    /\ lista_de_procesos \in Seq(Pids)
    /\ inicio_de_particion \in Nat
    /\ particion \in 0 .. Len(Particiones)
    /\ estado \in [Pids -> {"nuevo", "rechazado"} \cup EnCreacion \cup Creado]
    /\ region \in [Pids -> Bloque]
    /\ resto \in [Pids -> Bloque]
    /\ victima \in [Pids -> Pids \cup {SinVictima}]
    /\ tam \in [Pids -> Tamanios]

\* p holds region[p]: taken from the list of holes and not yet given back.
Ocupa(p) == estado[p] \in {"conResto", "cargando", "activo", "finPedido", "quitado"}
Ajenos(b, c) == FinDe(b) <= c.inicio \/ FinDe(c) <= b.inicio

\* No address is in two free holes, in two processes, or both free and in
\* use; the rest of a hole that a creation still carries counts as free.
\* (A hole taken and returned in separate critical sections, merges that
\* extend a hole in place.)
SinSolapamiento ==
    /\ \A h, g \in huecos_libres : h # g => Ajenos(h, g)
    /\ \A p \in Pids : Ocupa(p) =>
          /\ \A h \in huecos_libres : Ajenos(region[p], h)
          /\ \A q \in Pids \ {p} : Ocupa(q) => Ajenos(region[p], region[q])
    /\ \A p \in Pids : estado[p] = "conResto" =>
          /\ \A h \in huecos_libres : Ajenos(resto[p], h)
          /\ \A q \in Pids : Ocupa(q) => Ajenos(resto[p], region[q])

Contiene(b, d) == b.inicio <= d /\ d < FinDe(b)
Tope == IF Esquema = "FIJAS" THEN inicio_de_particion ELSE TamMemoria

Cubierta(d) ==
    \/ \E h \in huecos_libres : Contiene(h, d)
    \/ \E p \in Pids : Ocupa(p) /\ Contiene(region[p], d)
    \/ \E p \in Pids : estado[p] = "conResto" /\ Contiene(resto[p], d)

\* No byte of memory is lost: each belongs to a hole, to a process or to the
\* rest a creation is carrying between its two critical sections.
NadaSePierde == \A d \in 0 .. Tope - 1 : Cubierta(d)

\* A finalization takes the process it names off the list, although
\* eliminar_proceso_de_la_lista looks for the first pid >= the one asked:
\* the list is in pid order and the process is still in it.
FinalizaElPedido ==
    \A p \in Pids :
       /\ estado[p] = "finPedido" => p \in ToSet(lista_de_procesos)
       /\ estado[p] \in {"quitado", "terminado"} => victima[p] = p

Bloques == huecos_libres \cup {region[p] : p \in {q \in Pids : Ocupa(q)}}

\* Fixed scheme: free holes and regions are exactly the configured
\* partitions, one after the other from address 0 on, whatever was created
\* and destroyed before.
ParticionesIntactas ==
    Arrancada =>
       \E f \in [1 .. Len(Particiones) -> Bloques] :
          /\ Bloques = {f[i] : i \in DOMAIN f}
          /\ \A i \in DOMAIN f :
                /\ f[i].tamanio = Particiones[i]
                /\ f[i].inicio = IF i = 1 THEN 0 ELSE FinDe(f[i - 1])

\* Two free holes never touch: the memory is not fragmented beyond what the
\* processes in it explain.  True when the kernel's requests do not overlap
\* (MaxEnVuelo = 1).
HuecosConsolidados ==
    \A h, g \in huecos_libres : FinDe(h) # g.inicio

\* Whatever overlaps, a release leaves no hole that ends where the freed
\* region began or begins where it ended.
LiberarConsolida ==
    [][\A p \in Pids :
          estado[p] = "quitado" /\ estado'[p] = "terminado" =>
             \A h \in huecos_libres' : /\ FinDe(h) # region[p].inicio
                                       /\ h.inicio # FinDe(region[p])]_vars

\* A run of addresses that no process holds (free, or being freed).
TramoSinDueno(inicio, tamanio) ==
    \A d \in inicio .. inicio + tamanio - 1 :
       ~\E p \in Pids : Ocupa(p) /\ Contiene(region[p], d)

\* Dynamic scheme, requests that do not overlap: a process is refused only
\* when no run of free addresses is long enough for it.
RechazoJustificado ==
    [][\A p \in Pids :
          estado[p] = "pedido" /\ estado'[p] = "rechazado" =>
             \A d \in 0 .. TamMemoria - tam[p] : ~TramoSinDueno(d, tam[p])]_vars

\* Every request the kernel sends is served to its end.
TodoPedidoTermina ==
    \A p \in Pids :
       /\ estado[p] = "pedido" ~> estado[p] \in {"rechazado", "activo"}
       /\ estado[p] = "finPedido" ~> estado[p] = "terminado"

\* The allocator implements the abstract partitioned memory: a process gets
\* its range at once when its handler takes the hole, and loses it at once
\* when the region goes back to the list.
Tiene(p, d) == Ocupa(p) /\ Contiene(region[p], d)
Dueno(d) == IF \E p \in Pids : Tiene(p, d) THEN CHOOSE p \in Pids : Tiene(p, d) ELSE -1
Duenos == [d \in 0 .. TamMemoria - 1 |-> Dueno(d)]
Abstracta == INSTANCE Particionado WITH dueno <- Duenos
ImplementaParticionado == Abstracta!Spec
=============================================================================
