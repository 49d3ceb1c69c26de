------------------------ MODULE FragmentacionProofs ------------------------
(***************************************************************************)
(* Theorems about how Memoria divides the memory: where the blocks end,    *)
(* what a release leaves behind it, when a process is refused, what becomes*)
(* of the fixed partitions, and that the allocator implements Particionado.*)
(* They rest on the invariant of MemoriaProofs.                            *)
(***************************************************************************)
EXTENDS MemoriaProofs, FiniteSetTheorems, WellFoundedInduction

\* A set of naturals that is not empty has a least element.
MenorQue == {ab \in Nat \X Nat : ab[1] < ab[2]}

LEMMA Minimo ==
    ASSUME NEW T, T \subseteq Nat, T # {}
    PROVE  \E x \in T : \A y \in T : x <= y
<1>1. IsWellFoundedOn(MenorQue, Nat)
  BY NatLessThanWellFounded DEF OpToRel, MenorQue
<1>2. PICK x \in T : \A y \in T : ~ (<<y, x>> \in MenorQue)
  BY <1>1, WFMin, Zenon
<1>3. ASSUME NEW y \in T PROVE x <= y
  <2>1. x \in Nat /\ y \in Nat /\ <<y, x>> \in Nat \X Nat
    OBVIOUS
  <2>2. ~ (y < x)
    BY <1>2, <2>1 DEF MenorQue
  <2> QED BY <2>1, <2>2
<1> QED BY <1>2, <1>3

\* The parts of a block.
LEMMA PartesDeBloque ==
    ASSUME NEW b \in Bloque
    PROVE  b.inicio \in Nat /\ b.tamanio \in Nat /\ FinDe(b) \in Nat
BY DEF Bloque, FinDe
-----------------------------------------------------------------------------
(* Every block ends within the memory the start-up loop has reached.        *)

Dentro ==
    /\ \A h \in huecos_libres : FinDe(h) <= Tope
    /\ \A p \in Pids : Ocupa(p) => FinDe(region[p]) <= Tope
    /\ \A p \in Pids : estado[p] = "conResto" => FinDe(resto[p]) <= Tope

LEMMA TipoDelTope == IInv => Tope \in Nat
BY TamMemoriaPositivo DEF IInv, DatosInv, TipoDatos, Tope

LEMMA DentroSinCambio ==
    ASSUME Dentro, UNCHANGED <<huecos_libres, region, resto, varsArranque>>,
           \A p \in Pids : Ocupa(p)' => Ocupa(p),
           \A p \in Pids : estado'[p] = "conResto" => estado[p] = "conResto"
    PROVE  Dentro'
BY DEF Dentro, Tope, varsArranque

LEMMA DentroSeMantiene == IInv /\ Dentro /\ [Next]_vars => Dentro'
<1> SUFFICES ASSUME IInv, Dentro, [Next]_vars PROVE Dentro'
  OBVIOUS
<1>0. /\ estado \in [Pids -> {"nuevo", "rechazado"} \cup EnCreacion \cup Creado]
      /\ region \in [Pids -> Bloque] /\ resto \in [Pids -> Bloque]
      /\ huecos_libres \subseteq Bloque /\ inicio_de_particion \in Nat
      /\ Tope \in Nat
  BY TipoDelTope DEF IInv, ControlInv, TipoControl, DatosInv, TipoDatos
<1>1. CASE CrearParticion
  <2>1. \A p \in Pids : ~Ocupa(p)' /\ estado'[p] # "conResto"
    BY <1>1 DEF CrearParticion, IInv, ControlInv, Ocupa
  <2>2. Particiones[particion + 1] \in Nat \ {0}
    BY <1>1, ParticionesPositivas
       DEF CrearParticion, Arrancada, IInv, ControlInv, TipoControl
  <2>3. Tope = inicio_de_particion /\ Tope' = Tope + Particiones[particion + 1]
    BY <1>1 DEF CrearParticion, Tope, Arrancada
  <2> DEFINE n == [inicio |-> inicio_de_particion,
                   tamanio |-> Particiones[particion + 1]]
  <2>4. huecos_libres' = huecos_libres \cup {n} /\ FinDe(n) = Tope'
    BY <1>1, <2>3 DEF CrearParticion, FinDe
  <2> HIDE DEF n
  <2>5. ASSUME NEW h \in huecos_libres' PROVE FinDe(h) <= Tope'
    <3>1. CASE h \in huecos_libres
      <4>1. FinDe(h) \in Nat /\ FinDe(h) <= Tope
        BY <1>0, <3>1, PartesDeBloque DEF Dentro
      <4> QED BY <1>0, <2>2, <2>3, <4>1
    <3>2. CASE h = n
      <4>1. Tope' \in Nat BY <1>0, <2>2, <2>3
      <4> QED BY <2>4, <3>2, <4>1
    <3> QED BY <2>4, <3>1, <3>2
  <2> QED BY <2>1, <2>5 DEF Dentro
<1>2. ASSUME NEW p \in Pids,
             \/ PedirCreacion(p) \/ PedirFinalizacion(p) \/ RechazarCreacion(p)
             \/ AgregarProceso(p) \/ QuitarProceso(p)
      PROVE  Dentro'
  BY <1>0, <1>2, DentroSinCambio
     DEF PedirCreacion, PedirFinalizacion, RechazarCreacion, AgregarProceso,
         QuitarProceso, Ocupa
<1>3. ASSUME NEW p \in Pids, TomarHueco(p) PROVE Dentro'
  <2>1. PICK h : Toma(p, h)
    BY <1>3, TomarHuecoHecho DEF IInv
  <2>2. /\ h \in Bloque /\ region'[p] \in Bloque /\ resto'[p] \in Bloque
        /\ FinDe(h) <= Tope /\ Tope' = Tope
    BY <1>0, <2>1 DEF Toma, Dentro, Tope, varsArranque
  <2>3. /\ FinDe(h) \in Nat
        /\ FinDe(region'[p]) \in Nat
        /\ resto'[p].inicio \in Nat /\ resto'[p].tamanio \in Nat
    BY <2>2, PartesDeBloque
  <2>4. estado'[p] = "conResto" => FinDe(region'[p]) <= FinDe(h)
    BY <2>1, <2>3 DEF Toma, FinDe
  <2>5. FinDe(region'[p]) <= Tope'
    BY <1>0, <2>1, <2>2, <2>3, <2>4 DEF Toma
  <2>6. estado'[p] = "conResto" => FinDe(resto'[p]) <= Tope'
    BY <2>1, <2>2 DEF Toma
  <2>7. \A q \in Pids \ {p} :
           /\ region'[q] = region[q] /\ resto'[q] = resto[q]
           /\ Ocupa(q)' <=> Ocupa(q)
           /\ estado'[q] = estado[q]
    BY <2>1 DEF Toma, Ocupa
  <2> QED BY <2>1, <2>2, <2>5, <2>6, <2>7 DEF Dentro, Toma
<1>4. ASSUME NEW p \in Pids, AgregarResto(p) PROVE Dentro'
  BY <1>0, <1>4 DEF AgregarResto, Dentro, Ocupa, Tope, varsArranque
<1>5. ASSUME NEW p \in Pids, LiberarRegion(p) PROVE Dentro'
  <2>1. victima[p] = p
    BY <1>5 DEF IInv, ControlInv, VictimaFiel, LiberarRegion
  <2> DEFINE b == region[p]
  <2>2. PICK n, viejos : Fusion(n, viejos, b)
    BY <1>5, <2>1, LiberarEsUnaFusion DEF IInv
  <2>3. /\ b \in Bloque /\ b.tamanio > 0 /\ FinDe(b) <= Tope
        /\ UNCHANGED <<region, resto, varsArranque>> /\ Tope' = Tope
        /\ \A q \in Pids : /\ Ocupa(q)' => Ocupa(q)
                           /\ estado'[q] = "conResto" => estado[q] = "conResto"
    BY <1>0, <1>5 DEF LiberarRegion, IInv, DatosInv, SinVacios, Ocupa, Dentro, Tope,
                      varsArranque
  <2>4. /\ n \in Bloque /\ viejos \subseteq huecos_libres
        /\ huecos_libres' = (huecos_libres \ viejos) \cup {n}
    BY <2>2 DEF Fusion
  \* The block after the last address is apart from n, which begins before it.
  <2>5. FinDe(n) <= Tope
    <3> DEFINE c == [inicio |-> Tope, tamanio |-> 1]
    <3>1. c \in Bloque /\ c.tamanio > 0 /\ c.inicio = Tope /\ FinDe(c) = Tope + 1
      BY <1>0 DEF Bloque, FinDe
    <3> HIDE DEF c
    <3>2. Ajenos(b, c) /\ \A v \in viejos : Ajenos(v, c)
      BY <2>3, <2>4, <3>1 DEF Ajenos, Dentro
    <3>3. Ajenos(n, c)
      BY <2>2, <3>1, <3>2 DEF Fusion
    <3>4. b.inicio \in Nat /\ b.tamanio \in Nat
      BY <2>3, PartesDeBloque
    <3>5. Contiene(b, b.inicio)
      BY <2>3, <3>4 DEF Contiene, FinDe
    <3>6. Contiene(n, b.inicio)
      BY <2>2, <3>4, <3>5 DEF Fusion
    <3>7. n.inicio <= b.inicio /\ n.inicio \in Nat
      BY <2>4, <3>6, PartesDeBloque DEF Contiene
    <3> QED BY <1>0, <2>3, <3>1, <3>3, <3>4, <3>7 DEF Ajenos, FinDe
  <2> QED BY <2>3, <2>4, <2>5 DEF Dentro
<1>6. CASE UNCHANGED vars
  BY <1>6, DentroSinCambio DEF vars, varsArranque, Ocupa
<1> QED
  BY <1>1, <1>2, <1>3, <1>4, <1>5, <1>6 DEF Next

LEMMA SiempreDentro == Spec => [](IInv /\ Dentro)
<1>1. Init => Dentro
  <2> SUFFICES ASSUME Init PROVE Dentro
    OBVIOUS
  <2>1. \A p \in Pids : ~Ocupa(p) /\ estado[p] # "conResto"
    BY DEF Init, Ocupa
  <2>2. \A h \in huecos_libres : FinDe(h) = TamMemoria /\ Esquema # "FIJAS"
    BY TamMemoriaPositivo DEF Init, FinDe
  <2> QED BY <2>1, <2>2, TamMemoriaPositivo DEF Dentro, Tope
<1>2. IInv /\ Dentro /\ [Next]_vars => Dentro'
  BY DentroSeMantiene
<1> QED BY <1>1, <1>2, Invariante, PTL DEF Spec
-----------------------------------------------------------------------------
(* What a release leaves beside the freed region.                           *)

\* n replaces the holes viejos and the freed region b, and reaches as far as
\* the holes that touched b, which are all in viejos.
Consolida(n, viejos, b) ==
    /\ n \in Bloque /\ viejos \subseteq huecos_libres
    /\ huecos_libres' = (huecos_libres \ viejos) \cup {n}
    /\ n.inicio <= b.inicio /\ FinDe(b) <= FinDe(n)
    /\ \A h \in huecos_libres \ viejos : FinDe(h) # b.inicio /\ h.inicio # FinDe(b)
    /\ n.inicio = b.inicio \/ \E v \in viejos : n.inicio = v.inicio
    /\ FinDe(n) = FinDe(b) \/ \E v \in viejos : FinDe(n) = FinDe(v)

\* One hole at most ends at an address, and one at most begins there.
LEMMA UnVecinoPorLado ==
    ASSUME IInv, NEW h \in huecos_libres, NEW g \in huecos_libres,
           FinDe(h) = FinDe(g) \/ h.inicio = g.inicio
    PROVE  h = g
<1> SUFFICES ASSUME h # g PROVE FALSE
  OBVIOUS
<1>1. h \in Bloque /\ g \in Bloque /\ h.tamanio > 0 /\ g.tamanio > 0 /\ Ajenos(h, g)
  BY DEF IInv, DatosInv, TipoDatos, SinVacios, SinSolapamiento
<1>2. /\ h.inicio \in Nat /\ h.tamanio \in Nat
      /\ g.inicio \in Nat /\ g.tamanio \in Nat
  BY <1>1, PartesDeBloque
<1> QED BY <1>1, <1>2 DEF Ajenos, FinDe

LEMMA LiberarCierraLaBrecha ==
    ASSUME IInv, Esquema = "DINAMICAS", NEW p \in Pids, LiberarRegion(p)
    PROVE  \E n, viejos : Consolida(n, viejos, region[p])
<1> DEFINE b == region[p]
<1>1. victima[p] = p
  BY DEF IInv, ControlInv, VictimaFiel, LiberarRegion
<1>2. b \in Bloque /\ b.inicio \in Nat /\ b.tamanio \in Nat /\ b.tamanio > 0
  BY PartesDeBloque DEF IInv, DatosInv, TipoDatos, SinVacios, LiberarRegion, Ocupa
<1>3. \A h \in huecos_libres : /\ h \in Bloque /\ h.inicio \in Nat /\ h.tamanio \in Nat
                               /\ h.tamanio > 0
  BY PartesDeBloque DEF IInv, DatosInv, TipoDatos, SinVacios
<1>4. consolidar_huecos_libres_aledanios(b)
  BY <1>1 DEF LiberarRegion
<1> HIDE DEF b
<1>5. ASSUME NEW izq \in buscar_hueco_por_posicion_limite(b.inicio),
             NEW der \in buscar_hueco_por_posicion_inicial(FinDe(b)),
             huecos_libres' = ConsolidarDosLados(b, izq, der)
      PROVE  \E n, viejos : Consolida(n, viejos, b)
  <2> DEFINE n == [inicio |-> izq.inicio,
                   tamanio |-> izq.tamanio + b.tamanio + der.tamanio]
  <2>1. /\ izq \in huecos_libres /\ FinDe(izq) = b.inicio
        /\ der \in huecos_libres /\ der.inicio = FinDe(b)
    BY <1>5 DEF buscar_hueco_por_posicion_limite, buscar_hueco_por_posicion_inicial
  <2>2. n \in Bloque /\ n.inicio = izq.inicio /\ FinDe(n) = FinDe(der)
    BY <1>2, <1>3, <2>1 DEF Bloque, FinDe
  <2>3. huecos_libres' = (huecos_libres \ {izq, der}) \cup {n}
    BY <1>5 DEF ConsolidarDosLados
  <2> HIDE DEF n
  <2>4. n.inicio <= b.inicio /\ FinDe(b) <= FinDe(n)
    BY <1>2, <1>3, <2>1, <2>2 DEF FinDe
  <2>5. \A h \in huecos_libres \ {izq, der} : FinDe(h) # b.inicio /\ h.inicio # FinDe(b)
    BY <2>1, UnVecinoPorLado
  <2>6. Consolida(n, {izq, der}, b)
    BY <2>1, <2>2, <2>3, <2>4, <2>5 DEF Consolida
  <2> QED BY <2>6
<1>6. ASSUME buscar_hueco_por_posicion_inicial(FinDe(b)) = {},
             NEW izq \in buscar_hueco_por_posicion_limite(b.inicio),
             huecos_libres' = ConsolidarIzquierdo(b, izq)
      PROVE  \E n, viejos : Consolida(n, viejos, b)
  <2> DEFINE n == [inicio |-> izq.inicio, tamanio |-> izq.tamanio + b.tamanio]
  <2>1. /\ izq \in huecos_libres /\ FinDe(izq) = b.inicio
        /\ \A h \in huecos_libres : h.inicio # FinDe(b)
    BY <1>6 DEF buscar_hueco_por_posicion_limite, buscar_hueco_por_posicion_inicial
  <2>2. n \in Bloque /\ n.inicio = izq.inicio /\ FinDe(n) = FinDe(b)
    BY <1>2, <1>3, <2>1 DEF Bloque, FinDe
  <2>3. huecos_libres' = (huecos_libres \ {izq}) \cup {n}
    BY <1>6 DEF ConsolidarIzquierdo
  <2> HIDE DEF n
  <2>4. n.inicio <= b.inicio /\ FinDe(b) <= FinDe(n)
    BY <1>2, <1>3, <2>1, <2>2 DEF FinDe
  <2>5. \A h \in huecos_libres \ {izq} : FinDe(h) # b.inicio /\ h.inicio # FinDe(b)
    BY <2>1, UnVecinoPorLado
  <2>6. Consolida(n, {izq}, b)
    BY <2>1, <2>2, <2>3, <2>4, <2>5 DEF Consolida
  <2> QED BY <2>6
<1>7. ASSUME buscar_hueco_por_posicion_limite(b.inicio) = {},
             NEW der \in buscar_hueco_por_posicion_inicial(FinDe(b)),
             huecos_libres' = ConsolidarDerecho(b, der)
      PROVE  \E n, viejos : Consolida(n, viejos, b)
  <2> DEFINE n == [inicio |-> b.inicio, tamanio |-> b.tamanio + der.tamanio]
  <2>1. /\ der \in huecos_libres /\ der.inicio = FinDe(b)
        /\ \A h \in huecos_libres : FinDe(h) # b.inicio
    BY <1>7 DEF buscar_hueco_por_posicion_limite, buscar_hueco_por_posicion_inicial
  <2>2. n \in Bloque /\ n.inicio = b.inicio /\ FinDe(n) = FinDe(der)
    BY <1>2, <1>3, <2>1 DEF Bloque, FinDe
  <2>3. huecos_libres' = (huecos_libres \ {der}) \cup {n}
    BY <1>7 DEF ConsolidarDerecho
  <2> HIDE DEF n
  <2>4. n.inicio <= b.inicio /\ FinDe(b) <= FinDe(n)
    BY <1>2, <1>3, <2>1, <2>2 DEF FinDe
  <2>5. \A h \in huecos_libres \ {der} : FinDe(h) # b.inicio /\ h.inicio # FinDe(b)
    BY <2>1, UnVecinoPorLado
  <2>6. Consolida(n, {der}, b)
    BY <2>1, <2>2, <2>3, <2>4, <2>5 DEF Consolida
  <2> QED BY <2>6
<1>8. ASSUME buscar_hueco_por_posicion_limite(b.inicio) = {},
             buscar_hueco_por_posicion_inicial(FinDe(b)) = {},
             huecos_libres' = crear_hueco(b)
      PROVE  \E n, viejos : Consolida(n, viejos, b)
  <2>1. \A h \in huecos_libres : FinDe(h) # b.inicio /\ h.inicio # FinDe(b)
    BY <1>8 DEF buscar_hueco_por_posicion_limite, buscar_hueco_por_posicion_inicial
  <2>2. huecos_libres' = (huecos_libres \ {}) \cup {b}
    BY <1>8 DEF crear_hueco
  <2>3. FinDe(b) <= FinDe(b) /\ b.inicio <= b.inicio
    BY <1>2 DEF FinDe
  <2>4. Consolida(b, {}, b)
    BY <1>2, <2>1, <2>2, <2>3 DEF Consolida
  <2> QED BY <2>4
<1>9. \E n, viejos : Consolida(n, viejos, b)
  BY <1>4, <1>5, <1>6, <1>7, <1>8 DEF consolidar_huecos_libres_aledanios
<1> QED BY <1>9 DEF b

\* In the dynamic scheme a release leaves no hole beside the freed region:
\* consolidar_huecos_libres_aledanios looks at both sides in one critical
\* section, so requests that overlap do not matter.
THEOREM LiberarSiempreConsolida ==
    ASSUME Esquema = "DINAMICAS"
    PROVE  Spec => LiberarConsolida
<1>1. IInv /\ [Next]_vars =>
        [\A p \in Pids :
            estado[p] = "quitado" /\ estado'[p] = "terminado" =>
               \A h \in huecos_libres' : /\ FinDe(h) # region[p].inicio
                                         /\ h.inicio # FinDe(region[p])]_vars
  <2> SUFFICES ASSUME IInv, [Next]_vars, NEW p \in Pids,
                      estado[p] = "quitado", estado'[p] = "terminado",
                      NEW h \in huecos_libres'
               PROVE  FinDe(h) # region[p].inicio /\ h.inicio # FinDe(region[p])
    OBVIOUS
  <2>0. estado \in [Pids -> {"nuevo", "rechazado"} \cup EnCreacion \cup Creado]
    BY DEF IInv, ControlInv, TipoControl
  <2>1. LiberarRegion(p)
    <3>1. \A q \in Pids : LiberarRegion(q) => q = p
      BY <2>0 DEF LiberarRegion
    <3>2. ~ CrearParticion /\ ~ UNCHANGED vars
      BY DEF CrearParticion, vars
    <3>3. \A q \in Pids :
             ~ (\/ PedirCreacion(q) \/ PedirFinalizacion(q) \/ RechazarCreacion(q)
                \/ AgregarResto(q) \/ AgregarProceso(q) \/ QuitarProceso(q))
      BY <2>0 DEF PedirCreacion, PedirFinalizacion, RechazarCreacion, AgregarResto,
                  AgregarProceso, QuitarProceso
    <3>4. \A q \in Pids : ~ TomarHueco(q)
      <4> SUFFICES ASSUME NEW q \in Pids, TomarHueco(q) PROVE FALSE
        OBVIOUS
      <4>1. /\ estado[q] = "pedido"
            /\ \/ estado' = [estado EXCEPT ![q] = "conResto"]
               \/ estado' = [estado EXCEPT ![q] = "cargando"]
        BY DEF TomarHueco
      <4> QED BY <2>0, <4>1
    <3> QED BY <3>1, <3>2, <3>3, <3>4 DEF Next
  <2>2. PICK n, viejos : Consolida(n, viejos, region[p])
    BY <2>1, LiberarCierraLaBrecha
  <2>3. region[p] \in Bloque /\ region[p].tamanio > 0
    BY DEF IInv, DatosInv, TipoDatos, SinVacios, Ocupa
  <2>4. region[p].inicio \in Nat /\ region[p].tamanio \in Nat
    BY <2>3, PartesDeBloque
  <2>5. CASE h = n
    <3>1. h.inicio \in Nat /\ FinDe(h) \in Nat
      BY <2>2, <2>5, PartesDeBloque DEF Consolida
    <3>2. h.inicio <= region[p].inicio /\ FinDe(region[p]) <= FinDe(h)
      BY <2>2, <2>5 DEF Consolida
    <3> QED BY <2>3, <2>4, <3>1, <3>2 DEF FinDe
  <2>6. CASE h \in huecos_libres \ viejos
    BY <2>2, <2>6 DEF Consolida
  <2>7. h = n \/ h \in huecos_libres \ viejos
    BY <2>2 DEF Consolida
  <2> QED BY <2>5, <2>6, <2>7
<1> QED BY <1>1, Invariante, PTL DEF Spec, LiberarConsolida
-----------------------------------------------------------------------------
(* Requests that do not overlap: no two free holes touch.                   *)

UnoEnVuelo == \A p, q \in EnVuelo : p = q

\* The rest that a creation carries does not touch a hole either.
RestoSuelto ==
    \A p \in Pids : estado[p] = "conResto" =>
       \A h \in huecos_libres : FinDe(h) # resto[p].inicio /\ h.inicio # FinDe(resto[p])

SerieInv == UnoEnVuelo /\ HuecosConsolidados /\ RestoSuelto

LEMMA NadieEnVuelo ==
    ASSUME MaxEnVuelo = 1, Cardinality(EnVuelo) < MaxEnVuelo
    PROVE  EnVuelo = {}
<1>1. IsFiniteSet(Pids)
  BY CantProcesosNat, FS_Interval DEF Pids
<1>2. EnVuelo \subseteq Pids
  BY DEF EnVuelo
<1>3. IsFiniteSet(EnVuelo) /\ Cardinality(EnVuelo) \in Nat
  BY <1>1, <1>2, FS_Subset, FS_CardinalityType
<1>4. Cardinality(EnVuelo) = 0
  BY <1>3
<1> QED BY <1>3, <1>4, FS_EmptySet

\* A step of a request that is being served, or that nobody served before.
LEMMA UnoSigue ==
    ASSUME UnoEnVuelo, NEW p \in Pids, p \in EnVuelo \/ EnVuelo = {},
           \A q \in Pids \ {p} : estado'[q] = estado[q]
    PROVE  UnoEnVuelo'
BY DEF UnoEnVuelo, EnVuelo

\* A step that leaves the holes as they are, and carries no rest.
LEMMA SerieSinCambio ==
    ASSUME SerieInv, UNCHANGED <<huecos_libres, resto>>,
           \A p \in Pids : estado'[p] = "conResto" => estado[p] = "conResto"
    PROVE  HuecosConsolidados' /\ RestoSuelto'
BY DEF SerieInv, HuecosConsolidados, RestoSuelto

LEMMA SerieSeMantiene ==
    ASSUME Esquema = "DINAMICAS", MaxEnVuelo = 1
    PROVE  IInv /\ SerieInv /\ [Next]_vars => SerieInv'
<1> SUFFICES ASSUME IInv, SerieInv, [Next]_vars PROVE SerieInv'
  OBVIOUS
<1>0. /\ estado \in [Pids -> {"nuevo", "rechazado"} \cup EnCreacion \cup Creado]
      /\ region \in [Pids -> Bloque] /\ resto \in [Pids -> Bloque]
      /\ huecos_libres \subseteq Bloque
  BY DEF IInv, ControlInv, TipoControl, DatosInv, TipoDatos
<1>1. CASE CrearParticion
  BY <1>1 DEF CrearParticion, Arrancada
<1>2. ASSUME NEW p \in Pids, PedirCreacion(p) \/ PedirFinalizacion(p) PROVE SerieInv'
  <2>1. EnVuelo = {}
    BY <1>2, NadieEnVuelo DEF PedirCreacion, PedirFinalizacion
  <2>2. /\ \A q \in Pids \ {p} : estado'[q] = estado[q]
        /\ UNCHANGED <<huecos_libres, resto>>
        /\ estado'[p] # "conResto"
    BY <1>0, <1>2 DEF PedirCreacion, PedirFinalizacion
  <2>3. UnoEnVuelo'
    BY <2>1, <2>2, UnoSigue DEF SerieInv
  <2> QED BY <2>2, <2>3, SerieSinCambio DEF SerieInv
<1>3. ASSUME NEW p \in Pids,
             RechazarCreacion(p) \/ AgregarProceso(p) \/ QuitarProceso(p)
      PROVE  SerieInv'
  <2>1. /\ p \in EnVuelo
        /\ \A q \in Pids \ {p} : estado'[q] = estado[q]
        /\ UNCHANGED <<huecos_libres, resto>>
        /\ estado'[p] # "conResto"
    BY <1>0, <1>3 DEF RechazarCreacion, AgregarProceso, QuitarProceso, EnVuelo, EnCreacion,
                      EnFinalizacion
  <2>2. UnoEnVuelo'
    BY <2>1, UnoSigue DEF SerieInv
  <2> QED BY <2>1, <2>2, SerieSinCambio DEF SerieInv
<1>4. ASSUME NEW p \in Pids, TomarHueco(p) PROVE SerieInv'
  <2>1. PICK h : Toma(p, h)
    BY <1>4, TomarHuecoHecho DEF IInv
  <2>2. p \in EnVuelo /\ \A q \in Pids \ {p} : estado'[q] = estado[q] /\ estado[q] # "conResto"
    BY <2>1 DEF Toma, SerieInv, UnoEnVuelo, EnVuelo, EnCreacion
  <2>3. UnoEnVuelo'
    BY <2>2, UnoSigue DEF SerieInv
  <2>4. HuecosConsolidados'
    BY <2>1 DEF Toma, SerieInv, HuecosConsolidados
  <2>5. ASSUME estado'[p] = "conResto", NEW g \in huecos_libres'
        PROVE  FinDe(g) # resto'[p].inicio /\ g.inicio # FinDe(resto'[p])
    <3>1. g \in huecos_libres /\ g # h /\ h \in huecos_libres
      BY <2>1 DEF Toma
    <3>2. g \in Bloque /\ h \in Bloque /\ g.tamanio > 0 /\ Ajenos(g, h)
      BY <1>0, <3>1 DEF IInv, DatosInv, SinVacios, SinSolapamiento
    <3>3. /\ g.inicio \in Nat /\ g.tamanio \in Nat /\ h.inicio \in Nat /\ h.tamanio \in Nat
          /\ region'[p].inicio \in Nat /\ region'[p].tamanio \in Nat
          /\ resto'[p].inicio \in Nat /\ resto'[p].tamanio \in Nat
      BY <2>1, <3>2, PartesDeBloque DEF Toma
    <3>4. /\ region'[p].inicio = h.inicio /\ region'[p].tamanio > 0
          /\ resto'[p].inicio = FinDe(region'[p])
          /\ resto'[p].tamanio > 0 /\ FinDe(resto'[p]) = FinDe(h)
      BY <2>1, <2>5 DEF Toma
    <3>5. FinDe(g) # resto'[p].inicio
      BY <3>2, <3>3, <3>4 DEF Ajenos, FinDe
    <3>6. g.inicio # FinDe(h)
      BY <3>1 DEF SerieInv, HuecosConsolidados
    <3> QED BY <3>4, <3>5, <3>6
  <2>6. RestoSuelto'
    BY <2>2, <2>5 DEF RestoSuelto
  <2> QED BY <2>3, <2>4, <2>6 DEF SerieInv
<1>5. ASSUME NEW p \in Pids, AgregarResto(p) PROVE SerieInv'
  <2>1. /\ p \in EnVuelo /\ estado[p] = "conResto"
        /\ \A q \in Pids \ {p} : estado'[q] = estado[q]
        /\ huecos_libres' = huecos_libres \cup {resto[p]}
        /\ estado'[p] # "conResto"
    BY <1>0, <1>5 DEF AgregarResto, EnVuelo, EnCreacion
  <2>2. UnoEnVuelo'
    BY <2>1, UnoSigue DEF SerieInv
  <2>3. RestoSuelto'
    BY <2>1 DEF RestoSuelto, SerieInv, UnoEnVuelo, EnVuelo, EnCreacion
  <2>4. resto[p] \in Bloque /\ resto[p].tamanio > 0
    BY <1>0, <2>1 DEF IInv, DatosInv, SinVacios
  <2>5. FinDe(resto[p]) # resto[p].inicio
    BY <2>4, PartesDeBloque DEF FinDe
  <2>6. HuecosConsolidados'
    BY <2>1, <2>5 DEF SerieInv, HuecosConsolidados, RestoSuelto
  <2> QED BY <2>2, <2>3, <2>6 DEF SerieInv
<1>6. ASSUME NEW p \in Pids, LiberarRegion(p) PROVE SerieInv'
  <2>1. /\ p \in EnVuelo /\ estado[p] = "quitado"
        /\ \A q \in Pids \ {p} : estado'[q] = estado[q]
        /\ estado'[p] # "conResto"
    BY <1>0, <1>6 DEF LiberarRegion, EnVuelo, EnFinalizacion
  <2>2. UnoEnVuelo'
    BY <2>1, UnoSigue DEF SerieInv
  <2>3. RestoSuelto'
    BY <2>1 DEF RestoSuelto, SerieInv, UnoEnVuelo, EnVuelo, EnCreacion
  <2> DEFINE b == region[p]
  <2>4. PICK n, viejos : Consolida(n, viejos, b)
    BY <1>6, LiberarCierraLaBrecha
  <2>5. b \in Bloque /\ b.tamanio > 0 /\ n \in Bloque
    BY <1>0, <2>1, <2>4 DEF IInv, DatosInv, SinVacios, Ocupa, Consolida
  <2> HIDE DEF b
  <2>6. FinDe(n) # n.inicio
    BY <2>4, <2>5, PartesDeBloque DEF Consolida, FinDe
  <2>7. \A h \in huecos_libres \ viejos : FinDe(h) # n.inicio /\ h.inicio # FinDe(n)
    BY <2>4 DEF Consolida, SerieInv, HuecosConsolidados
  <2>8. huecos_libres' = (huecos_libres \ viejos) \cup {n}
    BY <2>4 DEF Consolida
  <2>9. HuecosConsolidados'
    BY <2>6, <2>7, <2>8 DEF SerieInv, HuecosConsolidados
  <2> QED BY <2>2, <2>3, <2>9 DEF SerieInv
<1>7. CASE UNCHANGED vars
  BY <1>7 DEF vars, SerieInv, UnoEnVuelo, HuecosConsolidados, RestoSuelto, EnVuelo
<1> QED
  BY <1>1, <1>2, <1>3, <1>4, <1>5, <1>6, <1>7 DEF Next

LEMMA SiempreEnSerie ==
    ASSUME Esquema = "DINAMICAS", MaxEnVuelo = 1
    PROVE  Spec => [](IInv /\ Dentro /\ SerieInv)
<1>1. Init => SerieInv
  <2> SUFFICES ASSUME Init PROVE SerieInv
    OBVIOUS
  <2>1. /\ huecos_libres = {[inicio |-> 0, tamanio |-> TamMemoria]}
        /\ \A p \in Pids : estado[p] = "nuevo"
    BY DEF Init
  <2>2. HuecosConsolidados
    BY <2>1, TamMemoriaPositivo DEF HuecosConsolidados, FinDe
  <2> QED BY <2>1, <2>2
             DEF SerieInv, UnoEnVuelo, RestoSuelto, EnVuelo, EnCreacion, EnFinalizacion
<1>2. IInv /\ SerieInv /\ [Next]_vars => SerieInv'
  BY SerieSeMantiene
<1> QED BY <1>1, <1>2, SiempreDentro, PTL DEF Spec

\* When the kernel's requests do not overlap, two free holes never touch: what
\* crear_proceso puts back of a hole, and what FINALIZACION_DE_PROCESO merges.
THEOREM SinFragmentacion ==
    ASSUME Esquema = "DINAMICAS", MaxEnVuelo = 1
    PROVE  Spec => []HuecosConsolidados
<1>1. SerieInv => HuecosConsolidados
  BY DEF SerieInv
<1> QED BY <1>1, SiempreEnSerie, PTL
-----------------------------------------------------------------------------
(* A process is refused only when there is no room for it.                  *)

\* The search finds a hole if there is one that is large enough: the list of
\* candidates has a first one, a smallest one and a largest one.
LEMMA LaBusquedaEncuentra ==
    ASSUME IInv, Dentro, NEW t \in Nat, NEW c \in Candidatos(t)
    PROVE  buscar_hueco_libre(t) # {}
<1>1. \A h \in Candidatos(t) :
         /\ h.inicio \in Nat /\ h.tamanio \in Nat
         /\ Tope - h.tamanio \in Nat
  <2> SUFFICES ASSUME NEW h \in Candidatos(t)
               PROVE  /\ h.inicio \in Nat /\ h.tamanio \in Nat
                      /\ Tope - h.tamanio \in Nat
    OBVIOUS
  <2>1. h \in Bloque /\ FinDe(h) <= Tope /\ Tope \in Nat
    BY TipoDelTope DEF Candidatos, IInv, DatosInv, TipoDatos, Dentro
  <2>2. h.inicio \in Nat /\ h.tamanio \in Nat
    BY <2>1, PartesDeBloque
  <2> QED BY <2>1, <2>2 DEF FinDe
<1>2. CASE Algoritmo = "FIRST"
  <2> DEFINE T == {h.inicio : h \in Candidatos(t)}
  <2>1. T \subseteq Nat /\ T # {}
    BY <1>1
  <2>2. \E x \in T : \A y \in T : x <= y
    <3> HIDE DEF T
    <3> QED BY <2>1, Minimo
  <2>3. PICK h \in Candidatos(t) : \A g \in Candidatos(t) : h.inicio <= g.inicio
    BY <2>2
  <2>4. h \in first_fit(t)
    BY <2>3 DEF first_fit
  <2> QED BY <1>2, <2>4 DEF buscar_hueco_libre
<1>3. CASE Algoritmo = "BEST"
  <2> DEFINE T == {h.tamanio : h \in Candidatos(t)}
  <2>1. T \subseteq Nat /\ T # {}
    BY <1>1
  <2>2. \E x \in T : \A y \in T : x <= y
    <3> HIDE DEF T
    <3> QED BY <2>1, Minimo
  <2>3. PICK h \in Candidatos(t) : \A g \in Candidatos(t) : h.tamanio <= g.tamanio
    BY <2>2
  <2>4. h \in best_fit(t)
    BY <2>3 DEF best_fit
  <2> QED BY <1>3, <2>4 DEF buscar_hueco_libre
<1>4. CASE Algoritmo = "WORST"
  <2> DEFINE T == {Tope - h.tamanio : h \in Candidatos(t)}
  <2>1. T \subseteq Nat /\ T # {}
    BY <1>1
  <2>2. \E x \in T : \A y \in T : x <= y
    <3> HIDE DEF T
    <3> QED BY <2>1, Minimo
  <2>3. PICK h \in Candidatos(t) :
          \A g \in Candidatos(t) : Tope - h.tamanio <= Tope - g.tamanio
    BY <2>2
  <2>4. \A g \in Candidatos(t) : h.tamanio >= g.tamanio
    BY <1>1, <2>3, TipoDelTope
  <2>5. h \in worst_fit(t)
    BY <2>3, <2>4 DEF worst_fit
  <2> QED BY <1>4, <2>5 DEF buscar_hueco_libre
<1> QED BY <1>2, <1>3, <1>4, AlgoritmoConocido

\* A run of addresses that no process holds is within one hole: if it went on
\* after the end of a hole, another hole would begin there.
LEMMA TramoEnUnHueco ==
    ASSUME IInv, SerieInv, NadaSePierde, Esquema = "DINAMICAS",
           \A p \in Pids : estado[p] # "conResto",
           NEW t \in Nat \ {0}, NEW d \in 0 .. TamMemoria - t, TramoSinDueno(d, t)
    PROVE  \E h \in huecos_libres : h.tamanio >= t
<1>1. /\ Tope = TamMemoria /\ TamMemoria \in Nat /\ d \in Nat /\ d + t <= TamMemoria
      /\ t \in Nat /\ t > 0
  BY TamMemoriaPositivo DEF Tope
<1>2. ASSUME NEW e \in d .. d + t - 1
      PROVE  \E h \in huecos_libres : Contiene(h, e)
  <2>1. e \in 0 .. Tope - 1
    BY <1>1
  <2>2. Cubierta(e)
    BY <2>1 DEF NadaSePierde
  <2>3. ~\E p \in Pids : Ocupa(p) /\ Contiene(region[p], e)
    BY DEF TramoSinDueno
  <2> QED BY <2>2, <2>3 DEF Cubierta
<1>3. PICK h \in huecos_libres : Contiene(h, d)
  BY <1>1, <1>2
<1>4. /\ h \in Bloque /\ h.inicio \in Nat /\ h.tamanio \in Nat /\ FinDe(h) \in Nat
  BY PartesDeBloque DEF IInv, DatosInv, TipoDatos
<1>5. CASE FinDe(h) >= d + t
  BY <1>1, <1>3, <1>4, <1>5 DEF Contiene, FinDe
<1>6. CASE FinDe(h) < d + t
  <2>1. FinDe(h) \in d .. d + t - 1
    BY <1>1, <1>3, <1>4, <1>6 DEF Contiene
  <2>2. PICK g \in huecos_libres : Contiene(g, FinDe(h))
    BY <1>2, <2>1
  <2>3. g # h
    BY <1>4, <2>2 DEF Contiene
  <2>4. Ajenos(h, g)
    BY <2>3 DEF IInv, DatosInv, SinSolapamiento
  <2>5. g.inicio \in Nat /\ g.tamanio \in Nat
    BY PartesDeBloque DEF IInv, DatosInv, TipoDatos
  <2>6. h.tamanio > 0
    BY DEF IInv, DatosInv, SinVacios
  <2>7. FinDe(h) = g.inicio
    BY <1>4, <2>2, <2>4, <2>5, <2>6 DEF Ajenos, Contiene, FinDe
  <2> QED BY <2>7 DEF SerieInv, HuecosConsolidados
<1> QED BY <1>1, <1>4, <1>5, <1>6

\* crear_proceso refuses a process only when no run of addresses without an
\* owner is long enough for it, if the kernel's requests do not overlap.
THEOREM SoloSeRechazaSinLugar ==
    ASSUME Esquema = "DINAMICAS", MaxEnVuelo = 1
    PROVE  Spec => RechazoJustificado
<1>1. IInv /\ Dentro /\ SerieInv /\ NadaSePierde /\ [Next]_vars =>
        [\A p \in Pids :
            estado[p] = "pedido" /\ estado'[p] = "rechazado" =>
               \A d \in 0 .. TamMemoria - tam[p] : ~TramoSinDueno(d, tam[p])]_vars
  <2> SUFFICES ASSUME IInv, Dentro, SerieInv, NadaSePierde, [Next]_vars, NEW p \in Pids,
                      estado[p] = "pedido", estado'[p] = "rechazado",
                      NEW d \in 0 .. TamMemoria - tam[p], TramoSinDueno(d, tam[p])
               PROVE  FALSE
    OBVIOUS
  <2>0. estado \in [Pids -> {"nuevo", "rechazado"} \cup EnCreacion \cup Creado]
    BY DEF IInv, ControlInv, TipoControl
  <2>1. RechazarCreacion(p)
    <3>1. \A q \in Pids : RechazarCreacion(q) => q = p
      BY <2>0 DEF RechazarCreacion
    <3>2. ~ CrearParticion /\ ~ UNCHANGED vars
      BY DEF CrearParticion, vars
    <3>3. \A q \in Pids :
             ~ (\/ PedirCreacion(q) \/ PedirFinalizacion(q) \/ LiberarRegion(q)
                \/ AgregarResto(q) \/ AgregarProceso(q) \/ QuitarProceso(q))
      BY <2>0 DEF PedirCreacion, PedirFinalizacion, LiberarRegion, AgregarResto,
                  AgregarProceso, QuitarProceso
    <3>4. \A q \in Pids : ~ TomarHueco(q)
      <4> SUFFICES ASSUME NEW q \in Pids, TomarHueco(q) PROVE FALSE
        OBVIOUS
      <4>1. /\ estado[q] = "pedido"
            /\ \/ estado' = [estado EXCEPT ![q] = "conResto"]
               \/ estado' = [estado EXCEPT ![q] = "cargando"]
        BY DEF TomarHueco
      <4> QED BY <2>0, <4>1
    <3> QED BY <3>1, <3>2, <3>3, <3>4 DEF Next
  <2>2. \A q \in Pids : estado[q] # "conResto"
    BY DEF SerieInv, UnoEnVuelo, EnVuelo, EnCreacion
  <2>3. tam[p] \in Nat \ {0}
    BY TamaniosPositivos DEF IInv, ControlInv, TipoControl
  <2>4. PICK h \in huecos_libres : h.tamanio >= tam[p]
    BY <2>2, <2>3, TramoEnUnHueco
  <2>5. h \in Candidatos(tam[p])
    BY <2>4 DEF Candidatos
  <2> QED BY <2>1, <2>3, <2>5, LaBusquedaEncuentra DEF RechazarCreacion
<1> QED BY <1>1, SiempreEnSerie, MemoriaCompleta, PTL DEF Spec, RechazoJustificado
-----------------------------------------------------------------------------
(* The fixed partitions.                                                    *)

\* f gives the block of each partition that the start-up loop has made.
SonLasParticiones(f) ==
    /\ f \in [1 .. particion -> Bloque]
    /\ Bloques = {f[i] : i \in 1 .. particion}
    /\ \A i \in 1 .. particion :
          /\ f[i].tamanio = Particiones[i]
          /\ f[i].inicio = IF i = 1 THEN 0 ELSE FinDe(f[i - 1])
    /\ inicio_de_particion = IF particion = 0 THEN 0 ELSE FinDe(f[particion])

\* No hole is divided.
SinRestos == \A p \in Pids : estado[p] # "conResto"

LEMMA SinRestosSeMantiene ==
    ASSUME Esquema = "FIJAS", IInv, SinRestos, [Next]_vars
    PROVE  SinRestos'
<1>0. estado \in [Pids -> {"nuevo", "rechazado"} \cup EnCreacion \cup Creado]
  BY DEF IInv, ControlInv, TipoControl
<1>1. ASSUME NEW p \in Pids, TomarHueco(p) PROVE SinRestos'
  <2>1. estado' = [estado EXCEPT ![p] = "cargando"]
    BY <1>1 DEF TomarHueco, SeParte
  <2> QED BY <1>0, <2>1 DEF SinRestos
<1>2. CASE CrearParticion \/ UNCHANGED vars
  BY <1>2 DEF CrearParticion, vars, SinRestos
<1>3. ASSUME NEW p \in Pids,
             \/ PedirCreacion(p) \/ PedirFinalizacion(p) \/ RechazarCreacion(p)
             \/ AgregarResto(p) \/ AgregarProceso(p) \/ QuitarProceso(p)
             \/ LiberarRegion(p)
      PROVE  SinRestos'
  BY <1>0, <1>3
     DEF PedirCreacion, PedirFinalizacion, RechazarCreacion, AgregarResto, AgregarProceso,
         QuitarProceso, LiberarRegion, SinRestos
<1> QED BY <1>1, <1>2, <1>3 DEF Next

LEMMA ParticionesSeMantienen ==
    ASSUME Esquema = "FIJAS", NEW f, IInv, SinRestos, SonLasParticiones(f), [Next]_vars
    PROVE  \E g : SonLasParticiones(g)'
<1>0. /\ estado \in [Pids -> {"nuevo", "rechazado"} \cup EnCreacion \cup Creado]
      /\ region \in [Pids -> Bloque] /\ particion \in Nat
      /\ huecos_libres \subseteq Bloque /\ inicio_de_particion \in Nat
      /\ Len(Particiones) \in Nat /\ particion <= Len(Particiones)
  BY ParticionesPositivas DEF IInv, ControlInv, TipoControl, DatosInv, TipoDatos
\* A step that neither loses a block nor makes one.
<1>a. ASSUME UNCHANGED varsArranque, Bloques' = Bloques
      PROVE  \E g : SonLasParticiones(g)'
  <2>1. SonLasParticiones(f)'
    BY <1>a DEF SonLasParticiones, varsArranque
  <2> QED BY <2>1
<1>1. CASE CrearParticion
  <2> DEFINE n == [inicio |-> inicio_de_particion,
                   tamanio |-> Particiones[particion + 1]]
  <2> PICK g : g = [i \in 1 .. particion + 1 |-> IF i <= particion THEN f[i] ELSE n]
    OBVIOUS
  <2>1. /\ Particiones[particion + 1] \in Nat
        /\ particion' = particion + 1
        /\ inicio_de_particion' = inicio_de_particion + Particiones[particion + 1]
        /\ huecos_libres' = huecos_libres \cup {n}
    BY <1>0, <1>1, ParticionesPositivas DEF CrearParticion, Arrancada
  <2>2. n \in Bloque /\ n.inicio = inicio_de_particion
        /\ n.tamanio = Particiones[particion + 1] /\ FinDe(n) = inicio_de_particion'
    BY <1>0, <2>1 DEF Bloque, FinDe
  <2> HIDE DEF n
  <2>3. \A p \in Pids : ~Ocupa(p) /\ ~Ocupa(p)'
    BY <1>1 DEF CrearParticion, IInv, ControlInv, Ocupa
  <2>4. Bloques' = Bloques \cup {n}
    BY <2>1, <2>3 DEF Bloques
  <2>5. /\ g \in [1 .. particion' -> Bloque]
        /\ \A i \in 1 .. particion : g[i] = f[i]
        /\ g[particion + 1] = n
    BY <1>0, <2>1, <2>2 DEF SonLasParticiones
  <2>6. Bloques' = {g[i] : i \in 1 .. particion'}
    <3>1. \A i \in 1 .. particion' : i \in 1 .. particion \/ i = particion + 1
      BY <1>0, <2>1
    <3>2. 1 .. particion \subseteq 1 .. particion' /\ particion + 1 \in 1 .. particion'
      BY <1>0, <2>1
    <3> QED BY <2>4, <2>5, <3>1, <3>2 DEF SonLasParticiones
  <2>7. ASSUME NEW i \in 1 .. particion'
        PROVE  /\ g[i].tamanio = Particiones[i]
               /\ g[i].inicio = IF i = 1 THEN 0 ELSE FinDe(g[i - 1])
    <3>1. CASE i \in 1 .. particion
      <4>1. i # 1 => i - 1 \in 1 .. particion
        BY <1>0, <3>1
      <4> QED BY <2>5, <3>1, <4>1 DEF SonLasParticiones
    <3>2. CASE i = particion + 1
      <4>1. i # 1 => particion # 0 /\ i - 1 = particion /\ i - 1 \in 1 .. particion
        BY <1>0, <3>2
      <4>2. i = 1 => particion = 0
        BY <1>0, <3>2
      <4> QED BY <2>2, <2>5, <3>2, <4>1, <4>2 DEF SonLasParticiones
    <3> QED BY <1>0, <2>1, <3>1, <3>2
  <2>8. inicio_de_particion' = FinDe(g[particion']) /\ particion' # 0
    BY <1>0, <2>1, <2>2, <2>5
  <2>9. SonLasParticiones(g)'
    BY <2>5, <2>6, <2>7, <2>8 DEF SonLasParticiones
  <2> QED BY <2>9
<1>2. ASSUME NEW p \in Pids,
             \/ PedirCreacion(p) \/ PedirFinalizacion(p) \/ RechazarCreacion(p)
             \/ AgregarProceso(p) \/ QuitarProceso(p)
      PROVE  \E g : SonLasParticiones(g)'
  <2>1. /\ UNCHANGED <<huecos_libres, region, varsArranque>>
        /\ \A q \in Pids : Ocupa(q)' <=> Ocupa(q)
    BY <1>0, <1>2 DEF PedirCreacion, PedirFinalizacion, RechazarCreacion, AgregarProceso,
                      QuitarProceso, Ocupa
  <2>2. Bloques' = Bloques
    BY <2>1 DEF Bloques
  <2> QED BY <1>a, <2>1, <2>2
\* In this scheme a hole is taken whole.
<1>3. ASSUME NEW p \in Pids, TomarHueco(p) PROVE \E g : SonLasParticiones(g)'
  <2>1. PICK h \in buscar_hueco_libre(tam[p]) :
           /\ huecos_libres' = huecos_libres \ {h}
           /\ region' = [region EXCEPT ![p] = h]
           /\ estado' = [estado EXCEPT ![p] = "cargando"]
           /\ estado[p] = "pedido"
           /\ UNCHANGED varsArranque
    BY <1>3 DEF TomarHueco, SeParte
  <2>2. h \in huecos_libres
    BY BusquedaEligeHueco
  <2>3. /\ ~Ocupa(p) /\ Ocupa(p)' /\ region'[p] = h
        /\ \A q \in Pids \ {p} : (Ocupa(q)' <=> Ocupa(q)) /\ region'[q] = region[q]
    BY <1>0, <2>1 DEF Ocupa
  <2>4. Bloques' = Bloques
    <3>1. \A b : b \in Bloques <=>
             b \in huecos_libres \/ \E q \in Pids : Ocupa(q) /\ b = region[q]
      BY DEF Bloques
    <3>2. \A b : b \in Bloques' <=>
             b \in huecos_libres' \/ \E q \in Pids : Ocupa(q)' /\ b = region'[q]
      BY DEF Bloques
    <3>3. \A b : b \in Bloques <=> b \in Bloques'
      BY <2>1, <2>2, <2>3, <3>1, <3>2
    <3> QED BY <3>3
  <2> QED BY <1>a, <2>1, <2>4
<1>4. ASSUME NEW p \in Pids, AgregarResto(p) PROVE \E g : SonLasParticiones(g)'
  BY <1>4 DEF AgregarResto, SinRestos
<1>5. ASSUME NEW p \in Pids, LiberarRegion(p) PROVE \E g : SonLasParticiones(g)'
  <2>1. /\ huecos_libres' = huecos_libres \cup {region[p]}
        /\ Ocupa(p) /\ ~Ocupa(p)' /\ UNCHANGED <<region, varsArranque>>
        /\ \A q \in Pids \ {p} : Ocupa(q)' <=> Ocupa(q)
    BY <1>0, <1>5 DEF LiberarRegion, crear_hueco, Ocupa, IInv, ControlInv, VictimaFiel
  <2>2. Bloques' = Bloques
    BY <2>1 DEF Bloques
  <2> QED BY <1>a, <2>1, <2>2
<1>6. CASE UNCHANGED vars
  <2>1. Bloques' = Bloques /\ UNCHANGED varsArranque
    BY <1>6 DEF vars, Bloques, Ocupa, varsArranque
  <2> QED BY <1>a, <2>1
<1> QED
  BY <1>1, <1>2, <1>3, <1>4, <1>5, <1>6 DEF Next

\* In the fixed scheme the blocks are those of PARTICIONES, one after the other,
\* whatever is created and destroyed: a partition is never cut nor merged.
THEOREM LasParticionesNoCambian ==
    ASSUME Esquema = "FIJAS"
    PROVE  Spec => []ParticionesIntactas
<1> DEFINE J == SinRestos /\ \E f : SonLasParticiones(f)
<1>1. Init => J
  <2> SUFFICES ASSUME Init PROVE J
    OBVIOUS
  <2>1. /\ huecos_libres = {} /\ particion = 0 /\ inicio_de_particion = 0
        /\ \A p \in Pids : estado[p] = "nuevo"
    BY DEF Init
  <2>2. Bloques = {}
    BY <2>1 DEF Bloques, Ocupa
  <2> DEFINE f == [i \in 1 .. particion |-> Vacio]
  <2>3. f \in [1 .. particion -> Bloque] /\ 1 .. particion = {}
    BY <2>1 DEF Vacio, Bloque
  <2> HIDE DEF f
  <2>4. SonLasParticiones(f)
    BY <2>1, <2>2, <2>3 DEF SonLasParticiones
  <2> QED BY <2>1, <2>4 DEF SinRestos
<1>2. IInv /\ J /\ [Next]_vars => J'
  <2> SUFFICES ASSUME IInv, J, [Next]_vars PROVE J'
    OBVIOUS
  <2>1. PICK f : SonLasParticiones(f)
    OBVIOUS
  <2>2. \E g : SonLasParticiones(g)'
    BY <2>1, ParticionesSeMantienen
  <2> QED BY <2>2, SinRestosSeMantiene
<1>3. J => ParticionesIntactas
  <2> SUFFICES ASSUME J, Arrancada
               PROVE  \E f \in [1 .. Len(Particiones) -> Bloques] :
                         /\ Bloques = {f[i] : i \in DOMAIN f}
                         /\ \A i \in DOMAIN f :
                               /\ f[i].tamanio = Particiones[i]
                               /\ f[i].inicio = IF i = 1 THEN 0 ELSE FinDe(f[i - 1])
    BY DEF ParticionesIntactas
  <2>1. PICK f : SonLasParticiones(f)
    OBVIOUS
  <2>2. particion = Len(Particiones)
    BY DEF Arrancada
  <2>3. DOMAIN f = 1 .. particion /\ f \in [1 .. Len(Particiones) -> Bloques]
    BY <2>1, <2>2 DEF SonLasParticiones
  <2>4. /\ Bloques = {f[i] : i \in DOMAIN f}
        /\ \A i \in DOMAIN f :
              /\ f[i].tamanio = Particiones[i]
              /\ f[i].inicio = IF i = 1 THEN 0 ELSE FinDe(f[i - 1])
    BY <2>1, <2>2, <2>3 DEF SonLasParticiones
  <2> QED BY <2>3, <2>4
<1> HIDE DEF J
<1> QED BY <1>1, <1>2, <1>3, Invariante, PTL DEF Spec
-----------------------------------------------------------------------------
(* Memoria implements Particionado.                                         *)

\* What the steps of the refinement need of a state: no block beyond the end
\* of the memory, too.
Refinable == IInv /\ Dentro /\ Tope <= TamMemoria

\* The owner of an address is the one process that has it.
LEMMA DuenoUnico ==
    ASSUME IInv, NEW d \in Nat
    PROVE  /\ Dueno(d) \in Pids \cup {-1}
           /\ \A p \in Pids : Tiene(p, d) <=> Dueno(d) = p
<1>1. -1 \notin Pids
  BY CantProcesosNat DEF Pids
<1>2. ASSUME NEW p \in Pids, NEW q \in Pids, Tiene(p, d), Tiene(q, d) PROVE p = q
  <2> SUFFICES ASSUME p # q PROVE FALSE
    OBVIOUS
  <2>1. region[p] \in Bloque /\ region[q] \in Bloque /\ Ajenos(region[p], region[q])
    BY <1>2 DEF Tiene, IInv, DatosInv, TipoDatos, SinSolapamiento
  <2>2. /\ region[p].inicio \in Nat /\ region[p].tamanio \in Nat
        /\ region[q].inicio \in Nat /\ region[q].tamanio \in Nat
    BY <2>1, PartesDeBloque
  <2> QED BY <1>2, <2>1, <2>2 DEF Tiene, Ajenos, Contiene, FinDe
<1>3. CASE \E p \in Pids : Tiene(p, d)
  <2>1. Dueno(d) = CHOOSE p \in Pids : Tiene(p, d)
    BY <1>3 DEF Dueno
  <2>2. Dueno(d) \in Pids /\ Tiene(Dueno(d), d)
    BY <1>3, <2>1, Zenon
  <2> QED BY <1>2, <2>2
<1>4. CASE ~ \E p \in Pids : Tiene(p, d)
  BY <1>1, <1>4 DEF Dueno
<1> QED BY <1>3, <1>4

\* The same, after a step.
DuenosUnicos ==
    \A d \in Nat : /\ Dueno(d) \in Pids \cup {-1}
                  /\ \A p \in Pids : Tiene(p, d) <=> Dueno(d) = p

LEMMA DuenosDespues == IInv' => DuenosUnicos'
<1>1. IInv => DuenosUnicos
  BY DuenoUnico DEF DuenosUnicos
<1> QED BY <1>1, PTL

\* An address whose owners do not change.
LEMMA DuenoSigue ==
    ASSUME IInv, IInv', NEW d \in Nat, \A p \in Pids : Tiene(p, d)' <=> Tiene(p, d)
    PROVE  Dueno(d)' = Dueno(d)
<1>1. /\ Dueno(d) \in Pids \cup {-1}
      /\ \A p \in Pids : Tiene(p, d) <=> Dueno(d) = p
  BY DuenoUnico
<1>2. /\ Dueno(d)' \in Pids \cup {-1}
      /\ \A p \in Pids : Tiene(p, d)' <=> Dueno(d)' = p
  BY DuenosDespues DEF DuenosUnicos
<1> QED BY <1>1, <1>2

LEMMA DuenosSiguen ==
    ASSUME IInv, IInv', \A d \in 0 .. TamMemoria - 1, p \in Pids : Tiene(p, d)' <=> Tiene(p, d)
    PROVE  UNCHANGED Duenos
<1>1. \A d \in 0 .. TamMemoria - 1 : Dueno(d)' = Dueno(d)
  BY DuenoSigue
<1>2. Duenos' = [d \in 0 .. TamMemoria - 1 |-> Dueno(d)']
  BY DEF Duenos
<1> QED BY <1>1, <1>2 DEF Duenos

LEMMA TomarEsAsignar ==
    ASSUME Refinable, IInv', Dentro', NEW p \in Pids, TomarHueco(p)
    PROVE  Abstracta!Asignar(p)
<1> USE DEF Refinable
<1>1. PICK h : Toma(p, h)
  BY TomarHuecoHecho DEF IInv
<1> DEFINE b == region'[p]
           D == 0 .. TamMemoria - 1
<1>2. /\ ~Ocupa(p) /\ Ocupa(p)' /\ b \in Bloque /\ b.tamanio > 0
      /\ \A q \in Pids \ {p} : (Ocupa(q)' <=> Ocupa(q)) /\ region'[q] = region[q]
      /\ Tope' = Tope
  BY <1>1 DEF Toma, Ocupa, Tope, varsArranque
<1>3. /\ b.inicio \in Nat /\ b.tamanio \in Nat
      /\ FinDe(b) <= TamMemoria
  <2>1. FinDe(b) <= Tope' /\ FinDe(b) \in Nat /\ b.inicio \in Nat /\ b.tamanio \in Nat
    BY <1>2, PartesDeBloque DEF Dentro
  <2> QED BY <1>2, <2>1, TipoDelTope, TamMemoriaPositivo
<1> HIDE DEF b
<1>4. \A d : ~Tiene(p, d) /\ (Tiene(p, d)' <=> Contiene(b, d))
  BY <1>2 DEF Tiene, b
<1>5. \A d : \A q \in Pids \ {p} : Tiene(q, d)' <=> Tiene(q, d)
  BY <1>2 DEF Tiene, Contiene, FinDe
<1>6. \A d \in D : Contiene(b, d) => Dueno(d) = -1 /\ Dueno(d)' = p
  <2> SUFFICES ASSUME NEW d \in D, Contiene(b, d)
               PROVE  Dueno(d) = -1 /\ Dueno(d)' = p
    OBVIOUS
  <2>1. /\ Dueno(d) \in Pids \cup {-1}
        /\ \A q \in Pids : Tiene(q, d) <=> Dueno(d) = q
    BY DuenoUnico
  <2>2. \A q \in Pids : Tiene(q, d)' <=> Dueno(d)' = q
    BY DuenosDespues DEF DuenosUnicos
  <2> QED BY <1>4, <1>5, <2>1, <2>2
<1>7. \A d \in D : ~Contiene(b, d) => Dueno(d)' = Dueno(d)
  BY <1>4, <1>5, DuenoSigue
<1>8. /\ b.inicio \in D /\ b.tamanio \in 1 .. TamMemoria - b.inicio
      /\ \A d \in D : b.inicio <= d /\ d < b.inicio + b.tamanio <=> Contiene(b, d)
  BY <1>2, <1>3, TamMemoriaPositivo DEF FinDe, Contiene
<1>9. \A d \in D : Dueno(d) # p
  BY <1>4, DuenoUnico
<1>10. /\ \A d \in D : Duenos[d] = Dueno(d)
       /\ Duenos' = [d \in D |-> Dueno(d)']
  BY DEF Duenos
<1> HIDE DEF D
<1>11. {d \in D : Duenos[d] = p} = {}
  BY <1>9, <1>10
<1> DEFINE R == {d \in D : b.inicio <= d /\ d < b.inicio + b.tamanio}
<1>12. \A d \in R : Duenos[d] = -1
  BY <1>6, <1>8, <1>10
<1>13. Duenos' = [d \in D |-> IF d \in R THEN p ELSE Duenos[d]]
  BY <1>6, <1>7, <1>8, <1>10
<1> QED
  BY <1>8, <1>11, <1>12, <1>13
     DEF Abstracta!Asignar, Abstracta!DireccionesDe, Abstracta!Rango, Abstracta!Direcciones,
         Abstracta!Nadie, D

LEMMA LiberarEsLiberar ==
    ASSUME Refinable, IInv', NEW p \in Pids, LiberarRegion(p)
    PROVE  Abstracta!Liberar(p)
<1> USE DEF Refinable
<1> DEFINE b == region[p]
           D == 0 .. TamMemoria - 1
<1>1. /\ estado \in [Pids -> {"nuevo", "rechazado"} \cup EnCreacion \cup Creado]
      /\ region \in [Pids -> Bloque]
  BY DEF IInv, ControlInv, TipoControl, DatosInv, TipoDatos
<1>2. /\ Ocupa(p) /\ ~Ocupa(p)' /\ b \in Bloque /\ b.tamanio > 0 /\ FinDe(b) <= Tope
      /\ \A q \in Pids \ {p} : (Ocupa(q)' <=> Ocupa(q)) /\ region'[q] = region[q]
  BY <1>1 DEF LiberarRegion, Ocupa, IInv, DatosInv, SinVacios, Dentro
<1>3. /\ b.inicio \in Nat /\ b.tamanio \in Nat /\ FinDe(b) <= TamMemoria
  <2>1. FinDe(b) \in Nat /\ b.inicio \in Nat /\ b.tamanio \in Nat
    BY <1>2, PartesDeBloque
  <2> QED BY <1>2, <2>1, TipoDelTope, TamMemoriaPositivo
<1> HIDE DEF b
<1>4. b.inicio \in D /\ Tiene(p, b.inicio)
  BY <1>2, <1>3, TamMemoriaPositivo DEF FinDe, Contiene, Tiene, b
<1>5. \A d : ~Tiene(p, d)'
  BY <1>2 DEF Tiene
<1>6. \A d : \A q \in Pids \ {p} : Tiene(q, d)' <=> Tiene(q, d)
  BY <1>2 DEF Tiene, Contiene, FinDe
<1>7. ASSUME NEW d \in D
      PROVE  Dueno(d)' = IF Dueno(d) = p THEN -1 ELSE Dueno(d)
  <2>1. /\ Dueno(d) \in Pids \cup {-1}
        /\ \A q \in Pids : Tiene(q, d) <=> Dueno(d) = q
    BY DuenoUnico
  <2>2. /\ Dueno(d)' \in Pids \cup {-1}
        /\ \A q \in Pids : Tiene(q, d)' <=> Dueno(d)' = q
    BY DuenosDespues DEF DuenosUnicos
  <2> QED BY <1>5, <1>6, <2>1, <2>2
<1>8. Dueno(b.inicio) = p
  BY <1>3, <1>4, DuenoUnico
<1>9. /\ \A d \in D : Duenos[d] = Dueno(d)
      /\ Duenos' = [d \in D |-> Dueno(d)']
  BY DEF Duenos
<1> HIDE DEF D
<1>10. {d \in D : Duenos[d] = p} # {}
  BY <1>4, <1>8, <1>9
<1>11. Duenos' = [d \in D |-> IF Duenos[d] = p THEN -1 ELSE Duenos[d]]
  BY <1>7, <1>9
<1> QED
  BY <1>10, <1>11
     DEF Abstracta!Liberar, Abstracta!DireccionesDe, Abstracta!Direcciones, Abstracta!Nadie, D

LEMMA PasoAbstracto ==
    Refinable /\ Refinable' /\ [Next]_vars => [Abstracta!Next]_Duenos
<1> SUFFICES ASSUME Refinable, Refinable', [Next]_vars
             PROVE  Abstracta!Next \/ UNCHANGED Duenos
  OBVIOUS
<1>0. /\ IInv /\ IInv' /\ Dentro'
      /\ estado \in [Pids -> {"nuevo", "rechazado"} \cup EnCreacion \cup Creado]
  BY DEF Refinable, IInv, ControlInv, TipoControl
<1>1. CASE CrearParticion \/ UNCHANGED vars
  <2>1. \A d \in 0 .. TamMemoria - 1, p \in Pids : Tiene(p, d)' <=> Tiene(p, d)
    BY <1>1 DEF CrearParticion, vars, Tiene, Ocupa, Contiene, FinDe
  <2> QED BY <1>0, <2>1, DuenosSiguen
<1>2. ASSUME NEW p \in Pids,
             \/ PedirCreacion(p) \/ PedirFinalizacion(p) \/ RechazarCreacion(p)
             \/ AgregarResto(p) \/ AgregarProceso(p) \/ QuitarProceso(p)
      PROVE  UNCHANGED Duenos
  <2>1. UNCHANGED region /\ \A q \in Pids : Ocupa(q)' <=> Ocupa(q)
    BY <1>0, <1>2
       DEF PedirCreacion, PedirFinalizacion, RechazarCreacion, AgregarResto, AgregarProceso,
           QuitarProceso, Ocupa
  <2>2. \A d \in 0 .. TamMemoria - 1, q \in Pids : Tiene(q, d)' <=> Tiene(q, d)
    BY <2>1 DEF Tiene, Contiene, FinDe
  <2> QED BY <1>0, <2>2, DuenosSiguen
<1>3. ASSUME NEW p \in Pids, TomarHueco(p) PROVE Abstracta!Next
  BY <1>0, <1>3, TomarEsAsignar DEF Abstracta!Next
<1>4. ASSUME NEW p \in Pids, LiberarRegion(p) PROVE Abstracta!Next
  BY <1>0, <1>4, LiberarEsLiberar DEF Abstracta!Next
<1> QED BY <1>1, <1>2, <1>3, <1>4 DEF Next

\* The allocator, with a list of holes, three critical sections per creation
\* and requests that overlap, is a memory in which a process gets a range that
\* nobody has in one step and gives it back in another.  The fixed partitions
\* must fit in the memory, which nothing in the code looks at.
THEOREM RefinaParticionado == Spec /\ [](Tope <= TamMemoria) => ImplementaParticionado
<1>1. Init => Abstracta!Init
  <2> SUFFICES ASSUME Init PROVE Abstracta!Init
    OBVIOUS
  <2>1. \A d, p : ~ (p \in Pids /\ Tiene(p, d))
    BY DEF Init, Tiene, Ocupa
  <2>2. \A d : Dueno(d) = -1
    BY <2>1 DEF Dueno
  <2> QED BY <2>2 DEF Abstracta!Init, Abstracta!Direcciones, Abstracta!Nadie, Duenos
<1>2. Refinable /\ Refinable' /\ [Next]_vars => [Abstracta!Next]_Duenos
  BY PasoAbstracto
<1>3. IInv /\ Dentro /\ Tope <= TamMemoria => Refinable
  BY DEF Refinable
<1> QED
  BY <1>1, <1>2, <1>3, SiempreDentro, PTL DEF Spec, ImplementaParticionado, Abstracta!Spec

\* In the dynamic scheme there is nothing to suppose.
THEOREM RefinaParticionadoDinamico ==
    ASSUME Esquema = "DINAMICAS"
    PROVE  Spec => ImplementaParticionado
<1>1. Tope <= TamMemoria
  BY TamMemoriaPositivo DEF Tope
<1> QED BY <1>1, RefinaParticionado, PTL
=============================================================================
