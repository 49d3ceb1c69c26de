--------------------------- MODULE MaquinaProofs ---------------------------
(***************************************************************************)
(* Turnos implements Maquina: each thread executes its own program, in     *)
(* order, on its own registers and on the memory of its process, whatever  *)
(* the order of the turns; and the types that this rests on.               *)
(***************************************************************************)
EXTENDS TurnosProofs, FiniteSetTheorems

-----------------------------------------------------------------------------
(* The arithmetic of the registers.                                         *)

LEMMA BasePositiva == Base \in Nat /\ Base > 1
BY BaseAlMenosDos

\* Quotient and remainder by the base.
LEMMA DivisionPorBase ==
    ASSUME NEW v \in Nat
    PROVE  /\ v \div Base \in Nat /\ v % Base \in Bytes
           /\ v = Base * (v \div Base) + (v % Base)
<1>1. Base \in Nat /\ Base > 1
  BY BasePositiva
<1> QED BY <1>1 DEF Bytes

LEMMA ModuloPositivo == Modulo \in Nat /\ Modulo > 0
<1>1. Base \in Nat /\ Base > 1
  BY BasePositiva
<1>2. \A a, b \in Nat : a > 0 /\ b > 0 => a * b \in Nat /\ a * b > 0
  OBVIOUS
<1> QED BY <1>1, <1>2 DEF Modulo

LEMMA ValorModulo ==
    ASSUME NEW x \in Int
    PROVE  x % Modulo \in Valores
BY ModuloPositivo DEF Valores

LEMMA ValoresNat == Valores \subseteq Nat
BY DEF Valores

LEMMA ByteEsByte ==
    ASSUME NEW v \in Nat, NEW k \in 0 .. 3
    PROVE  Byte(v, k) \in Bytes
<1>1. /\ Corrido(v, 0) \in Nat /\ Corrido(v, 1) \in Nat
      /\ Corrido(v, 2) \in Nat /\ Corrido(v, 3) \in Nat
  BY DivisionPorBase DEF Corrido
<1>2. Corrido(v, k) \in Nat
  BY <1>1
<1> QED BY <1>2, DivisionPorBase DEF Byte

\* A product bounds its factor.
LEMMA FactorMenor ==
    ASSUME NEW a \in Nat, NEW b \in Nat, NEW m \in Nat, Base * a + b < Base * m
    PROVE  a < m
<1>1. Base \in Nat /\ Base > 1
  BY BasePositiva
<1> SUFFICES ASSUME ~ (a < m) PROVE FALSE
  OBVIOUS
<1>2. a = m + (a - m) /\ a - m \in Nat
  OBVIOUS
<1>3. Base * a = Base * m + Base * (a - m) /\ Base * (a - m) \in Nat
  BY <1>1, <1>2
<1>4. Base * m \in Nat /\ Base * a \in Nat /\ Base * a + b < Base * m
  BY <1>1
<1> QED BY <1>3, <1>4

\* A register is what its four bytes say.
LEMMA NumeroDeLosBytes ==
    ASSUME NEW v \in Valores
    PROVE  Numero([k \in 0 .. 3 |-> Byte(v, k)]) = v
<1> DEFINE a == v \div Base
           b == a \div Base
           c == b \div Base
<1>1. v \in Nat /\ Base \in Nat /\ Base > 1
  BY ValoresNat, BasePositiva
<1>2. a \in Nat /\ v % Base \in Nat /\ v = Base * a + (v % Base)
  BY <1>1, DivisionPorBase DEF Bytes
<1>3. b \in Nat /\ a % Base \in Nat /\ a = Base * b + (a % Base)
  BY <1>2, DivisionPorBase DEF Bytes
<1>4. c \in Nat /\ b % Base \in Nat /\ b = Base * c + (b % Base)
  BY <1>3, DivisionPorBase DEF Bytes
<1>5. /\ Byte(v, 0) = v % Base /\ Byte(v, 1) = a % Base
      /\ Byte(v, 2) = b % Base /\ Byte(v, 3) = c % Base
  BY DEF Byte, Corrido
<1> HIDE DEF a, b, c
<1>6. c < Base
  <2> DEFINE B2 == Base * Base
             B3 == Base * B2
  <2>1. B2 \in Nat /\ B3 \in Nat /\ Modulo = Base * B3
    <3>1. B2 \in Nat BY <1>1
    <3> HIDE DEF B2
    <3>2. B3 \in Nat BY <1>1, <3>1
    <3>3. Modulo = ((Base * Base) * Base) * Base BY DEF Modulo
    <3>4. (Base * Base) * Base = Base * (Base * Base) BY <1>1
    <3>5. ((Base * Base) * Base) * Base = Base * ((Base * Base) * Base) BY <1>1, <3>1 DEF B2
    <3> QED BY <3>1, <3>2, <3>3, <3>4, <3>5 DEF B2
  <2>2. v < Modulo
    BY ModuloPositivo DEF Valores
  <2> HIDE DEF B3
  <2>3. a < B3
    BY <1>2, <2>1, <2>2, FactorMenor
  <2>4. b < B2
    <3> HIDE DEF B2
    <3> QED BY <1>3, <2>1, <2>3, FactorMenor DEF B3
  <2> QED BY <1>1, <1>4, <2>4, FactorMenor
<1>7. c % Base = c
  BY <1>1, <1>4, <1>6
<1>8. Numero([k \in 0 .. 3 |-> Byte(v, k)])
        = (v % Base) + Base * ((a % Base) + Base * ((b % Base) + Base * (c % Base)))
  BY <1>5 DEF Numero
<1>9. (b % Base) + Base * (c % Base) = b
  <2>1. Base * c \in Nat BY <1>1, <1>4
  <2> QED BY <1>4, <1>7, <2>1
<1>10. (a % Base) + Base * b = a
  <2>1. Base * b \in Nat BY <1>1, <1>3
  <2> QED BY <1>3, <2>1
<1>11. (v % Base) + Base * a = v
  <2>1. Base * a \in Nat BY <1>1, <1>2
  <2> QED BY <1>2, <2>1
<1> QED BY <1>8, <1>9, <1>10, <1>11
-----------------------------------------------------------------------------
(* The instructions.                                                        *)

\* The context c of h is within the program of h.
EnPrograma(h, c) == c.pc < Len(Programa[h])

LEMMA InstruccionBienFormada ==
    ASSUME NEW h \in Hilos, NEW c \in Contextos, EnPrograma(h, c), NEW i, i = Instruccion(h, c)
    PROVE  /\ i.op \in DeRegistros \cup DeMemoria \cup Syscalls
           /\ i.op \in DeRegistros \cup DeMemoria => i.r \in Registros
           /\ i.op \in {"SUM", "SUB"} \cup DeMemoria => i.s \in Registros
           /\ i.op = "SET" => i.v \in Int
           /\ i.op = "JNZ" => i.v \in 0 .. Len(Programa[h]) - 1
           /\ i.op \notin Salen => c.pc + 1 < Len(Programa[h])
<1>1. BienFormado(Programa[h])
  BY ProgramasBienFormados
<1>2. c.pc \in Nat /\ Len(Programa[h]) \in Nat
  BY <1>1 DEF Contextos, BienFormado
<1>3. c.pc + 1 \in 1 .. Len(Programa[h]) /\ i = Programa[h][c.pc + 1]
  BY <1>2 DEF EnPrograma, Instruccion
<1>4. i.op \notin Salen => c.pc + 1 # Len(Programa[h])
  BY <1>1, <1>3 DEF BienFormado
<1>5. c.pc + 1 <= Len(Programa[h])
  BY <1>3
<1> QED BY <1>1, <1>2, <1>3, <1>4, <1>5 DEF BienFormado

LEMMA PartesDeContexto ==
    ASSUME NEW c \in Contextos
    PROVE  /\ c.regs \in [Registros -> Valores] /\ c.pc \in Nat
           /\ \A r \in Registros : c.regs[r] \in Nat
BY ValoresNat DEF Contextos

LEMMA GuardarHecho ==
    ASSUME NEW c \in Contextos, NEW r \in Registros, NEW v \in Int
    PROVE  Guardar(c, r, v) \in Contextos /\ Guardar(c, r, v).pc = c.pc + 1
<1>1. v % Modulo \in Valores
  BY ValorModulo
<1>2. [c.regs EXCEPT ![r] = v % Modulo] \in [Registros -> Valores] /\ c.pc + 1 \in Nat
  BY <1>1, PartesDeContexto
<1> QED BY <1>2 DEF Guardar, Contextos

\* pc++ of an instruction.
LEMMA SiguientePc ==
    ASSUME NEW c \in Contextos, NEW n \in Nat
    PROVE  [c EXCEPT !.pc = n] \in Contextos /\ [c EXCEPT !.pc = n].pc = n
BY DEF Contextos

LEMMA CalcularHecho ==
    ASSUME NEW h \in Hilos, NEW c \in Contextos, EnPrograma(h, c), NEW i, i = Instruccion(h, c),
           i.op \in DeRegistros
    PROVE  Calcular(i, c) \in Contextos /\ EnPrograma(h, Calcular(i, c))
<1>1. /\ i.r \in Registros
      /\ i.op \in {"SUM", "SUB"} => i.s \in Registros
      /\ i.op = "SET" => i.v \in Int
      /\ i.op = "JNZ" => i.v \in 0 .. Len(Programa[h]) - 1
      /\ c.pc + 1 < Len(Programa[h])
  BY InstruccionBienFormada DEF DeRegistros, Salen
<1>2. /\ c.pc \in Nat /\ \A r \in Registros : c.regs[r] \in Nat
      /\ Len(Programa[h]) \in Nat
  BY PartesDeContexto, ProgramasBienFormados DEF BienFormado
<1>3. CASE i.op = "SET"
  BY <1>1, <1>2, <1>3, GuardarHecho DEF Calcular, EnPrograma
<1>4. CASE i.op = "SUM"
  <2> DEFINE x == c.regs[i.r] + c.regs[i.s]
  <2>1. x \in Int
    BY <1>1, <1>2, <1>4
  <2>2. Calcular(i, c) = Guardar(c, i.r, x)
    BY <1>4 DEF Calcular
  <2> HIDE DEF x
  <2> QED BY <1>1, <2>1, <2>2, GuardarHecho DEF EnPrograma
<1>5. CASE i.op = "SUB"
  <2> DEFINE x == c.regs[i.r] - c.regs[i.s]
  <2>1. x \in Int
    BY <1>1, <1>2, <1>5
  <2>2. Calcular(i, c) = Guardar(c, i.r, x)
    BY <1>5 DEF Calcular
  <2> HIDE DEF x
  <2> QED BY <1>1, <2>1, <2>2, GuardarHecho DEF EnPrograma
<1>6. CASE i.op = "JNZ"
  <2> DEFINE n == IF c.regs[i.r] # 0 THEN i.v ELSE c.pc + 1
  <2>1. n \in Nat /\ n < Len(Programa[h])
    BY <1>1, <1>2, <1>6
  <2>2. Calcular(i, c) = [c EXCEPT !.pc = n]
    BY <1>6 DEF Calcular
  <2> HIDE DEF n
  <2> QED BY <2>1, <2>2, SiguientePc DEF EnPrograma
<1>7. CASE i.op = "LOG"
  <2>1. Calcular(i, c) = [c EXCEPT !.pc = c.pc + 1]
    BY <1>7 DEF Calcular
  <2> QED BY <1>1, <1>2, <2>1, SiguientePc DEF EnPrograma
<1> QED BY <1>3, <1>4, <1>5, <1>6, <1>7 DEF DeRegistros
-----------------------------------------------------------------------------
(* Sequences without repetitions: the queues of the scheduler.              *)

Elementos(s) == {s[i] : i \in DOMAIN s}
Distintos(s) == \A i, j \in DOMAIN s : s[i] = s[j] => i = j

LEMMA AlFinal ==
    ASSUME NEW S, NEW s \in Seq(S), NEW x \in S
    PROVE  /\ Append(s, x) \in Seq(S)
           /\ Elementos(Append(s, x)) = Elementos(s) \cup {x}
           /\ Distintos(s) /\ x \notin Elementos(s) => Distintos(Append(s, x))
<1> DEFINE t == Append(s, x)
<1>1. Len(s) \in Nat /\ DOMAIN s = 1 .. Len(s)
  OBVIOUS
<1>2. /\ t \in Seq(S) /\ DOMAIN t = 1 .. Len(s) + 1
      /\ t[Len(s) + 1] = x /\ \A i \in 1 .. Len(s) : t[i] = s[i]
  OBVIOUS
<1> HIDE DEF t
<1>3. \A i \in DOMAIN t : i \in 1 .. Len(s) \/ i = Len(s) + 1
  BY <1>1, <1>2
<1>4. \A i \in 1 .. Len(s) : i \in DOMAIN t /\ i # Len(s) + 1
  BY <1>1, <1>2
<1>5. Elementos(t) = Elementos(s) \cup {x}
  <2>1. Len(s) + 1 \in DOMAIN t
    BY <1>1, <1>2
  <2> QED BY <1>1, <1>2, <1>3, <1>4, <2>1 DEF Elementos
<1>6. Distintos(s) /\ x \notin Elementos(s) => Distintos(t)
  BY <1>1, <1>2, <1>3, <1>4 DEF Distintos, Elementos
<1> QED BY <1>2, <1>5, <1>6 DEF t

LEMMA DelPrincipio ==
    ASSUME NEW S, NEW s \in Seq(S), s # <<>>
    PROVE  /\ Head(s) \in S /\ Tail(s) \in Seq(S)
           /\ Head(s) \in Elementos(s)
           /\ Elementos(Tail(s)) \subseteq Elementos(s)
           /\ Distintos(s) => Distintos(Tail(s)) /\ Head(s) \notin Elementos(Tail(s))
<1> DEFINE t == Tail(s)
<1>1. Len(s) \in Nat /\ Len(s) > 0 /\ DOMAIN s = 1 .. Len(s) /\ 1 \in DOMAIN s
  <2>1. Len(s) \in Nat /\ DOMAIN s = 1 .. Len(s) /\ Len(s) # 0
    OBVIOUS
  <2> QED BY <2>1
<1>2. /\ t \in Seq(S) /\ DOMAIN t = 1 .. Len(s) - 1
      /\ \A i \in 1 .. Len(s) - 1 : t[i] = s[i + 1]
      /\ Head(s) = s[1] /\ s[1] \in S
  <2>1. t \in Seq(S) /\ Len(t) = Len(s) - 1
    OBVIOUS
  <2>2. DOMAIN t = 1 .. Len(t)
    BY <2>1
  <2> QED BY <1>1, <2>1, <2>2
<1> HIDE DEF t
<1>3. \A i \in 1 .. Len(s) - 1 : i + 1 \in 1 .. Len(s) /\ i + 1 # 1
  BY <1>1
<1>4. \A i, j \in 1 .. Len(s) - 1 : i + 1 = j + 1 => i = j
  OBVIOUS
<1>5. Elementos(t) \subseteq Elementos(s) /\ Head(s) \in Elementos(s)
  BY <1>1, <1>2, <1>3 DEF Elementos
<1>6. ASSUME Distintos(s) PROVE Distintos(t) /\ Head(s) \notin Elementos(t)
  <2>1. ASSUME NEW i \in DOMAIN t, NEW j \in DOMAIN t, t[i] = t[j] PROVE i = j
    <3>1. s[i + 1] = s[j + 1] /\ i + 1 \in DOMAIN s /\ j + 1 \in DOMAIN s
      BY <1>1, <1>2, <1>3, <2>1
    <3>2. i + 1 = j + 1
      BY <1>6, <3>1 DEF Distintos
    <3> QED BY <1>2, <1>4, <3>2
  <2>2. \A i \in DOMAIN t : t[i] # Head(s)
    BY <1>1, <1>2, <1>3, <1>6 DEF Distintos
  <2> QED BY <2>1, <2>2 DEF Elementos, Distintos
<1> QED BY <1>2, <1>5, <1>6 DEF t
-----------------------------------------------------------------------------
(* The invariant that the types rest on.                                    *)

\* A thread is in the hands of the scheduler, which has sent it to the CPU
\* or will send it again.
EnMano == kernel # "elegir" \/ ~replanificar

\* A thread is ready, or waits for the device, or is in the hands of the
\* scheduler, or has ended; and a timer is created only with a thread.
EnUnLugar ==
    /\ hiloEnExec = NADIE => ~EnMano /\ \A k \in Relojes : reloj[k].paso = "libre"
    /\ Distintos(enReady) /\ Distintos(dispositivoIO)
    /\ Elementos(enReady) \cap Elementos(dispositivoIO) = {}
    /\ terminados \cap (Elementos(enReady) \cup Elementos(dispositivoIO)) = {}
    /\ EnMano => hiloEnExec \notin Elementos(enReady) \cup Elementos(dispositivoIO) \cup terminados

\* The scheduler has not been told yet that h has ended.
Saliendo(h) == aKernel # <<>> /\ Head(aKernel).op \in Salen /\ Head(aKernel).hilo = h

\* Whoever may run again has an instruction to execute.
EnOrden ==
    /\ etapa # "libre" => EnPrograma(hilo, cpu)
    /\ \A h \in Hilos \ terminados : EnPrograma(h, contexto[h]) \/ Saliendo(h)

IInv == TypeOK /\ Turno /\ EnUnLugar /\ EnOrden

LEMMA Largos == \A h \in Hilos : Len(Programa[h]) \in Nat /\ Len(Programa[h]) > 0
<1>1. \A h \in Hilos : Len(Programa[h]) \in Nat \ {0}
  BY ProgramasBienFormados DEF BienFormado
<1>2. \A n \in Nat \ {0} : n > 0
  OBVIOUS
<1> QED BY <1>1, <1>2

LEMMA ContextoInicialDeTipo == ContextoInicial \in Contextos /\ ContextoInicial.pc = 0
BY ModuloPositivo DEF ContextoInicial, Contextos, Valores

LEMMA OrdenSinRepetir == OrdenInicial \in Seq(Hilos) /\ Distintos(OrdenInicial)
<1>1. IsFiniteSet(Hilos) /\ Cardinality(Hilos) \in Nat
  BY TodosEnOrden, FS_CardinalityType
<1>2. OrdenInicial \in Seq(Hilos)
  BY <1>1, TodosEnOrden
<1> DEFINE S == 1 .. Cardinality(Hilos)
<1>3. IsFiniteSet(S) /\ Cardinality(S) = Cardinality(Hilos)
  BY <1>1, FS_Interval
<1>4. OrdenInicial \in Surjection(S, Hilos)
  BY TodosEnOrden DEF Surjection
<1>5. OrdenInicial \in Injection(S, Hilos)
  <2> HIDE DEF S
  <2> QED BY <1>3, <1>4, FS_SurjSameCardinalityImpliesInj
<1> QED BY <1>2, <1>5 DEF Injection, IsInjective, Distintos

LEMMA AlEmpezar == Init => IInv
<1> SUFFICES ASSUME Init PROVE IInv
  OBVIOUS
<1> USE DEF Init, InitCpu
<1>1. TypeOKCpu
  <2>1. espacio \in [0 .. TamMemoria - 1 -> Bytes]
    BY BasePositiva DEF Bytes
  <2>2. cpu \in Contextos /\ contexto \in [Hilos -> Contextos]
    BY ContextoInicialDeTipo
  <2>3. aCpu \in Seq(Hilos) /\ interrupciones \in Seq(Nat \X Nat) /\ DOMAIN aKernel = {}
    OBVIOUS
  <2> QED BY <2>1, <2>2, <2>3 DEF TypeOKCpu
<1>2. semHiloEnReady \in Nat
  BY TodosEnOrden, FS_CardinalityType
<1>3. TypeOK
  <2>1. clockContando \in [Hilos -> BOOLEAN] /\ dispositivoIO \in Seq(Hilos)
    OBVIOUS
  <2>2. \A k \in Relojes : reloj[k] = [paso |-> "libre", pid |-> 0, tid |-> 0]
    BY DEF SinReloj
  <2>3. reloj \in [Relojes -> [paso : {"libre", "nuevo", "leyendo", "dormido", "vencido", "mandando"},
                              pid : Nat, tid : Nat]]
    BY <2>2
  <2> QED BY <1>1, <1>2, <2>1, <2>3, OrdenSinRepetir DEF TypeOK
<1>4. Turno
  BY DEF Turno, SinTurno, EnCpu
<1>5. EnUnLugar
  BY OrdenSinRepetir DEF EnUnLugar, EnMano, SinReloj, Distintos, Elementos
<1>6. EnOrden
  BY Largos, ContextoInicialDeTipo DEF EnOrden, EnPrograma
<1> QED BY <1>3, <1>4, <1>5, <1>6 DEF IInv

\* The instruction that the CPU executes.
LEMMA LaInstruccion ==
    ASSUME TypeOK, EnOrden, etapa # "libre"
    PROVE  /\ hilo \in Hilos /\ cpu \in Contextos /\ EnPrograma(hilo, cpu)
           /\ cpu.pc \in Nat /\ cpu.regs \in [Registros -> Valores]
           /\ Instr.op \in DeRegistros \cup DeMemoria \cup Syscalls
           /\ Instr.op \in DeMemoria => Instr.r \in Registros /\ Instr.s \in Registros
           /\ Instr.op \notin Salen => cpu.pc + 1 < Len(Programa[hilo])
<1>1. hilo \in Hilos /\ cpu \in Contextos /\ EnPrograma(hilo, cpu)
  BY DEF TypeOK, TypeOKCpu, EnOrden
<1> QED BY <1>1, PartesDeContexto, InstruccionBienFormada DEF Instr

\* The turn, for the steps of the CPU.
LEMMA EnCpuSinMensajes ==
    Turno /\ EnCpu => /\ kernel = "esperar" /\ hilo = hiloEnExec
                      /\ aCpu = <<>> /\ aKernel = <<>>
BY DEF Turno, SinTurno, EnDespacho, EnEjecucion, EnRespuesta

\* What the steps of the CPU leave alone of the types.
varsDelKernel == <<varsKernel, carrera>>

LEMMA TiposDelKernel == TypeOK /\ TypeOKCpu' /\ UNCHANGED varsDelKernel => TypeOK'
BY DEF TypeOK, varsDelKernel, varsKernel, varsReady

\* The steps of the CPU that change only where it is.
LEMMA CpuSoloEtapa ==
    ASSUME TypeOK, EnOrden, etapa # "libre",
           UNCHANGED <<aCpu, aKernel, interrupciones, hilo, contexto, espacio, fallaron, terminados>>,
           etapa' \in {"libre", "ciclo", "chequear", "avisar", "limpiar", "acceder"},
           cpu' \in Contextos, EnPrograma(hilo, cpu'),
           interrupcion' \in {interrupcion, NADIE}, caida' \in BOOLEAN
    PROVE  TypeOKCpu' /\ EnOrden'
<1>1. TypeOKCpu'
  BY DEF TypeOK, TypeOKCpu
<1>2. EnOrden'
  BY DEF EnOrden, EnPrograma, Saliendo
<1> QED BY <1>1, <1>2

LEMMA TiposRecibirDespacho ==
    ASSUME IInv, RecibirDespacho, UNCHANGED varsDelKernel
    PROVE  TypeOKCpu' /\ EnOrden'
<1> USE DEF IInv
<1>1. /\ kernel = "esperar" /\ aCpu = <<hiloEnExec>> /\ aKernel = <<>> /\ UNCHANGED <<aKernel, contexto, terminados>>
  BY DEF RecibirDespacho, Turno, SinTurno, EnDespacho, EnEjecucion, EnRespuesta, varsMemoria, varsDelKernel, varsKernel
<1>2. hilo' = hiloEnExec /\ aCpu' = <<>> /\ cpu' = contexto[hiloEnExec] /\ etapa' = "ciclo"
  BY <1>1, UnElemento DEF RecibirDespacho, OBTENER_CONTEXTO_DE_EJECUCION
<1>3. hiloEnExec \in Hilos \ terminados
  BY <1>1, UnElemento DEF TypeOK, TypeOKCpu, EnUnLugar, EnMano
<1>4. EnPrograma(hiloEnExec, contexto[hiloEnExec])
  BY <1>1, <1>3 DEF EnOrden, Saliendo
<1>5. contexto[hiloEnExec] \in Contextos
  BY <1>3 DEF TypeOK, TypeOKCpu
<1>6. TypeOKCpu'
  BY <1>2, <1>3, <1>5 DEF TypeOK, TypeOKCpu, RecibirDespacho, varsMemoria
<1>7. EnOrden'
  BY <1>1, <1>2, <1>4 DEF EnOrden, EnPrograma, Saliendo
<1> QED BY <1>6, <1>7

LEMMA TiposEjecutarRegistros ==
    ASSUME IInv, EjecutarRegistros, UNCHANGED varsDelKernel
    PROVE  TypeOKCpu' /\ EnOrden'
<1> USE DEF IInv
<1>1. etapa # "libre" /\ Instr.op \in DeRegistros
  BY DEF EjecutarRegistros, EnCiclo
<1>2. cpu' \in Contextos /\ EnPrograma(hilo, cpu')
  BY <1>1, LaInstruccion, CalcularHecho DEF EjecutarRegistros, Instr
<1> QED BY <1>1, <1>2, CpuSoloEtapa DEF EjecutarRegistros, varsMensajes, varsMemoria, TypeOK,
           TypeOKCpu, varsDelKernel, varsKernel

LEMMA Tipos_ejecutar_read_mem ==
    ASSUME IInv, ejecutar_read_mem, UNCHANGED varsDelKernel
    PROVE  TypeOKCpu' /\ EnOrden'
<1> USE DEF IInv
<1>1. etapa # "libre" /\ Instr.op = "READ_MEM"
  BY DEF ejecutar_read_mem, EnCiclo
<1>2. /\ hilo \in Hilos /\ cpu \in Contextos /\ cpu.pc + 1 < Len(Programa[hilo])
      /\ Instr.r \in Registros
  BY <1>1, LaInstruccion DEF DeMemoria, Salen
<1>3. PICK v \in Valores : cpu' = Guardar(cpu, Instr.r, v)
  BY DEF ejecutar_read_mem, Leibles
<1>4. cpu' \in Contextos /\ EnPrograma(hilo, cpu')
  <2>1. v \in Int
    BY <1>3, ValoresNat
  <2> QED BY <1>2, <1>3, <2>1, GuardarHecho DEF EnPrograma
<1> QED BY <1>1, <1>4, CpuSoloEtapa DEF ejecutar_read_mem, varsMensajes, varsMemoria, TypeOK,
           TypeOKCpu, varsDelKernel, varsKernel

LEMMA EscritoHecho ==
    ASSUME TypeOK, NEW f \in Int, NEW v \in Valores
    PROVE  Escrito(f, v) \in [0 .. TamMemoria - 1 -> Bytes]
<1>1. espacio \in [0 .. TamMemoria - 1 -> Bytes] /\ v \in Nat
  BY ValoresNat DEF TypeOK, TypeOKCpu
<1>2. \A d \in 0 .. TamMemoria - 1 : d \in f .. f + 3 => d - f \in 0 .. 3
  OBVIOUS
<1> QED BY <1>1, <1>2, ByteEsByte DEF Escrito

\* The base of a partition, as the CPU adds it.
LEMMA BaseEntera == TypeOK /\ etapa # "libre" => BaseActual \in Nat
BY ParticionesEnMemoria DEF BaseActual, TypeOK, TypeOKCpu

LEMMA Tipos_ejecutar_write_mem ==
    ASSUME IInv, ejecutar_write_mem, UNCHANGED varsDelKernel
    PROVE  TypeOKCpu' /\ EnOrden'
<1> USE DEF IInv
<1>1. etapa # "libre" /\ Instr.op = "WRITE_MEM"
  BY DEF ejecutar_write_mem, EnCiclo
<1>2. /\ hilo \in Hilos /\ cpu \in Contextos /\ cpu.pc + 1 < Len(Programa[hilo])
      /\ Instr.r \in Registros /\ Instr.s \in Registros /\ cpu.pc \in Nat
      /\ cpu.regs \in [Registros -> Valores]
  BY <1>1, LaInstruccion DEF DeMemoria, Salen
<1>3. cpu' \in Contextos /\ EnPrograma(hilo, cpu')
  <2>1. cpu' = [cpu EXCEPT !.pc = cpu.pc + 1]
    BY DEF ejecutar_write_mem
  <2> QED BY <1>2, <2>1, SiguientePc DEF EnPrograma
<1>4. espacio' \in [0 .. TamMemoria - 1 -> Bytes]
  <2>1. cpu.regs[Instr.s] \in Valores /\ cpu.regs[Instr.r] \in Nat
    BY <1>2, ValoresNat
  <2>2. BaseActual + cpu.regs[Instr.r] \in Int
    BY <1>1, <2>1, BaseEntera
  <2> QED BY <2>1, <2>2, EscritoHecho DEF ejecutar_write_mem
<1>5. TypeOKCpu'
  BY <1>2, <1>3, <1>4 DEF ejecutar_write_mem, varsMensajes, TypeOK, TypeOKCpu
<1>6. EnOrden'
  BY <1>1, <1>3 DEF ejecutar_write_mem, varsMensajes, EnOrden, EnPrograma, Saliendo,
     varsDelKernel, varsKernel
<1> QED BY <1>5, <1>6

\* The context of the thread in the CPU is saved, and the kernel gets op.
LEMMA TiposResponder ==
    ASSUME IInv, EnCpu, NEW op, op \in Syscalls \cup {"SEGMENTATION_FAULT", "FIN_DE_QUANTUM"},
           aKernel' = Append(aKernel, Mensaje(op)), EnPrograma(hilo, cpu') \/ op \in Salen,
           etapa' = "libre" \/ (etapa' = "acceder" /\ cpu' = cpu),
           contexto' = [contexto EXCEPT ![hilo] = cpu'], cpu' \in Contextos,
           fallaron' \in {fallaron, fallaron \cup {hilo[1]}},
           UNCHANGED <<aCpu, interrupciones, interrupcion, hilo, espacio, caida, terminados>>
    PROVE  TypeOKCpu' /\ EnOrden'
<1> USE DEF IInv
<1>1. kernel = "esperar" /\ aKernel = <<>> /\ hilo \in Hilos /\ hilo = hiloEnExec
  BY EnCpuSinMensajes DEF TypeOK, TypeOKCpu, EnCpu
<1>2. aKernel' = <<Mensaje(op)>> /\ Head(aKernel') = Mensaje(op) /\ aKernel' # <<>>
  BY <1>1, UnElemento
<1>3. TypeOKCpu'
  <2>1. contexto' \in [Hilos -> Contextos]
    BY <1>1 DEF TypeOK, TypeOKCpu
  <2>2. fallaron' \subseteq {h[1] : h \in Hilos}
    BY <1>1 DEF TypeOK, TypeOKCpu
  <2>3. \A k \in DOMAIN aKernel' : aKernel'[k] = Mensaje(op)
    BY <1>2
  <2>4. \A k \in DOMAIN aKernel' :
           /\ aKernel'[k].hilo \in Hilos
           /\ aKernel'[k].op \in Syscalls \cup {"SEGMENTATION_FAULT", "FIN_DE_QUANTUM"}
    BY <1>1, <2>3 DEF Mensaje
  <2> QED BY <1>1, <2>1, <2>2, <2>4 DEF TypeOK, TypeOKCpu
<1>4. EnOrden'
  <2>1. etapa' # "libre" => EnPrograma(hilo', cpu')
    BY DEF EnCpu, EnOrden
  <2>2. ASSUME NEW h \in Hilos \ terminados
        PROVE  EnPrograma(h, contexto'[h]) \/ (Head(aKernel').op \in Salen /\ Head(aKernel').hilo = h)
    <3>1. CASE h = hilo
      <4>1. contexto'[h] = cpu'
        BY <1>1, <3>1 DEF TypeOK, TypeOKCpu
      <4> QED BY <1>2, <3>1, <4>1 DEF Mensaje
    <3>2. CASE h # hilo
      <4>1. contexto'[h] = contexto[h]
        BY <3>2 DEF TypeOK, TypeOKCpu
      <4>2. EnPrograma(h, contexto[h])
        BY <1>1 DEF EnOrden, Saliendo
      <4> QED BY <4>1, <4>2
    <3> QED BY <3>1, <3>2
  <2> QED BY <1>2, <2>1, <2>2 DEF EnOrden, EnPrograma, Saliendo
<1> QED BY <1>3, <1>4

LEMMA TiposSegmentationFault ==
    ASSUME IInv, SegmentationFault, UNCHANGED varsDelKernel
    PROVE  TypeOKCpu' /\ EnOrden'
<1>1. EnCpu /\ EnPrograma(hilo, cpu) /\ cpu \in Contextos
  BY LaInstruccion DEF IInv, SegmentationFault, EnCiclo, EnCpu
<1> QED BY <1>1, TiposResponder DEF SegmentationFault, actualizar_contexto_y_enviar,
           recibir_contexto_y_actualizar, varsDelKernel, varsKernel

LEMMA TiposEjecutarSyscall ==
    ASSUME IInv, EjecutarSyscall, UNCHANGED varsDelKernel
    PROVE  TypeOKCpu' /\ EnOrden'
<1>1. EnCpu /\ Instr.op \in Syscalls /\ etapa # "libre"
  BY DEF EjecutarSyscall, EnCiclo, EnCpu
<1>2. /\ cpu \in Contextos /\ cpu.pc \in Nat
      /\ Instr.op \notin Salen => cpu.pc + 1 < Len(Programa[hilo])
  BY <1>1, LaInstruccion DEF IInv
<1>3. cpu' = [cpu EXCEPT !.pc = cpu.pc + 1]
  BY DEF EjecutarSyscall
<1>4. cpu' \in Contextos /\ cpu'.pc = cpu.pc + 1
  <2>1. cpu.pc + 1 \in Nat
    BY <1>2
  <2> QED BY <1>2, <1>3, <2>1, SiguientePc
<1>5. EnPrograma(hilo, cpu') \/ Instr.op \in Salen
  BY <1>2, <1>4 DEF EnPrograma
<1>6. /\ contexto' = [contexto EXCEPT ![hilo] = cpu']
      /\ aKernel' = Append(aKernel, Mensaje(Instr.op)) /\ etapa' = "libre"
      /\ UNCHANGED <<aCpu, interrupciones, interrupcion, hilo, espacio, caida, fallaron, terminados>>
  BY DEF EjecutarSyscall, actualizar_contexto_y_enviar, recibir_contexto_y_actualizar,
     varsDelKernel, varsKernel
<1> QED BY <1>1, <1>4, <1>5, <1>6, TiposResponder

LEMMA TiposAvisarDesalojo ==
    ASSUME IInv, AvisarDesalojo, UNCHANGED varsDelKernel
    PROVE  TypeOKCpu' /\ EnOrden'
<1> USE DEF IInv
<1>1. EnCpu /\ EnPrograma(hilo, cpu) /\ cpu \in Contextos /\ hilo \in Hilos
  BY LaInstruccion DEF AvisarDesalojo, EnCpu
<1>2. kernel = "esperar" /\ aKernel = <<>>
  BY <1>1, EnCpuSinMensajes
<1>3. aKernel' = <<Mensaje("FIN_DE_QUANTUM")>>
  BY <1>2, UnElemento DEF AvisarDesalojo
<1>4. TypeOKCpu'
  <2>1. \A k \in DOMAIN aKernel' : aKernel'[k] = Mensaje("FIN_DE_QUANTUM")
    BY <1>3
  <2>2. \A k \in DOMAIN aKernel' : aKernel'[k].hilo \in Hilos /\ aKernel'[k].op = "FIN_DE_QUANTUM"
    BY <1>1, <2>1 DEF Mensaje
  <2> QED BY <1>1, <2>2 DEF AvisarDesalojo, varsMemoria, TypeOK, TypeOKCpu
<1>5. EnOrden'
  BY <1>1, <1>2 DEF EnOrden, EnPrograma, Saliendo, AvisarDesalojo, varsMemoria, varsDelKernel, varsKernel
<1> QED BY <1>4, <1>5

LEMMA TiposConInterrupcion ==
    ASSUME IInv, ConInterrupcion, UNCHANGED varsDelKernel
    PROVE  TypeOKCpu' /\ EnOrden'
<1> USE DEF IInv
<1>1. EnPrograma(hilo, cpu) /\ cpu \in Contextos /\ hilo \in Hilos
  BY LaInstruccion DEF ConInterrupcion
<1>2. contexto' = [contexto EXCEPT ![hilo] = cpu]
  BY DEF ConInterrupcion, actualizar_contexto_y_enviar, recibir_contexto_y_actualizar
<1>3. TypeOKCpu'
  BY <1>1, <1>2 DEF ConInterrupcion, varsMensajes, TypeOK, TypeOKCpu
<1>4. EnOrden'
  <2>1. \A h \in Hilos : contexto'[h] = IF h = hilo THEN cpu ELSE contexto[h]
    BY <1>2 DEF TypeOK, TypeOKCpu
  <2> QED BY <1>1, <2>1 DEF EnOrden, EnPrograma, Saliendo, ConInterrupcion, varsMensajes, varsDelKernel, varsKernel
<1> QED BY <1>3, <1>4

\* A misread access, at the address -1.
LEMMA TiposEscribirEnMenosUno ==
    ASSUME IInv, EscribirEnMenosUno, UNCHANGED varsDelKernel
    PROVE  TypeOKCpu' /\ EnOrden'
<1> USE DEF IInv
<1>1. cpu.regs[Instr.s] \in Valores
  BY LaInstruccion DEF EscribirEnMenosUno, DeMemoria
<1>2. espacio' \in [0 .. TamMemoria - 1 -> Bytes]
  <2>1. -1 \in Int
    OBVIOUS
  <2>2. Escrito(-1, cpu.regs[Instr.s]) \in [0 .. TamMemoria - 1 -> Bytes]
    BY <1>1, <2>1, EscritoHecho
  <2> QED BY <2>2 DEF EscribirEnMenosUno
<1>3. TypeOKCpu'
  BY <1>2 DEF EscribirEnMenosUno, varsMensajes, TypeOK, TypeOKCpu
<1>4. EnOrden'
  BY DEF EnOrden, EnPrograma, Saliendo, EscribirEnMenosUno, varsMensajes, varsDelKernel, varsKernel
<1> QED BY <1>3, <1>4

LEMMA CpuConTipos ==
    ASSUME IInv, DeLaCpu
    PROVE  TypeOK' /\ EnOrden'
<1> SUFFICES ASSUME NextCpu, UNCHANGED varsDelKernel PROVE TypeOKCpu' /\ EnOrden'
  BY TiposDelKernel DEF DeLaCpu, varsDelKernel, IInv
<1>1. CASE RecibirDespacho
  BY <1>1, TiposRecibirDespacho
<1>2. CASE EjecutarRegistros
  BY <1>2, TiposEjecutarRegistros
<1>3. CASE ejecutar_read_mem
  BY <1>3, Tipos_ejecutar_read_mem
<1>4. CASE ejecutar_write_mem
  BY <1>4, Tipos_ejecutar_write_mem
<1>5. CASE SegmentationFault
  BY <1>5, TiposSegmentationFault
<1>6. CASE EscribirEnMenosUno
  BY <1>6, TiposEscribirEnMenosUno
<1>7. CASE EjecutarSyscall
  BY <1>7, TiposEjecutarSyscall
<1>8. CASE ConInterrupcion
  BY <1>8, TiposConInterrupcion
<1>9. CASE AvisarDesalojo
  BY <1>9, TiposAvisarDesalojo
<1>10. CASE LeerDeMenosUno \/ SinInterrupcion \/ LimpiarInterrupcion
  <2>1. etapa # "libre" /\ EnPrograma(hilo, cpu) /\ cpu \in Contextos /\ caida \in BOOLEAN
    BY <1>10, LaInstruccion DEF IInv, TypeOK, TypeOKCpu, LeerDeMenosUno, SinInterrupcion, LimpiarInterrupcion
  <2> QED BY <1>10, <2>1, CpuSoloEtapa DEF IInv, LeerDeMenosUno, SinInterrupcion, LimpiarInterrupcion,
             varsMensajes, varsMemoria, varsDelKernel, varsKernel
<1> QED BY <1>1, <1>2, <1>3, <1>4, <1>5, <1>6, <1>7, <1>8, <1>9, <1>10 DEF NextCpu

\* The steps of the CPU do not move the threads.
LEMMA NadieSeMueve ==
    EnUnLugar /\ UNCHANGED <<kernel, hiloEnExec, replanificar, enReady, dispositivoIO, terminados, reloj>>
    => EnUnLugar'
BY DEF EnUnLugar, EnMano

\* The kernel does not touch what the CPU does.
LEMMA NadieEjecuta ==
    EnOrden /\ UNCHANGED <<etapa, hilo, cpu, contexto, terminados, aKernel>> => EnOrden'
BY DEF EnOrden, EnPrograma, Saliendo
-----------------------------------------------------------------------------
(* The steps of the scheduler.                                              *)

Pasos == {"libre", "nuevo", "leyendo", "dormido", "vencido", "mandando"}

LEMMA TiposDelReloj ==
    TypeOK => /\ reloj \in [Relojes -> [paso : Pasos, pid : Nat, tid : Nat]]
              /\ clockContando \in [Hilos -> BOOLEAN]
BY DEF TypeOK, Pasos

LEMMA TiposEjecutar ==
    ASSUME TypeOK, NEW h \in Hilos, Ejecutar(h),
           enReady' \in Seq(Hilos), semHiloEnReady' \in Nat, carrera' \in BOOLEAN
    PROVE  TypeOK'
<1>1. TypeOKCpu'
  <2>1. aCpu' \in Seq(Hilos)
    BY DEF Ejecutar, TypeOK, TypeOKCpu
  <2> QED BY <2>1 DEF Ejecutar, varsEjecucion, varsMemoria, TypeOK, TypeOKCpu
<1>2. reloj' \in [Relojes -> [paso : Pasos, pid : Nat, tid : Nat]]
  <2> DEFINE m == Min(Libres)
  <2> HIDE DEF m
  <2>1. reloj' = reloj \/ reloj' = [reloj EXCEPT ![m] = [reloj[m] EXCEPT !.paso = "nuevo"]]
    BY DEF Ejecutar, m
  <2>2. \A r \in [paso : Pasos, pid : Nat, tid : Nat] :
          [r EXCEPT !.paso = "nuevo"] \in [paso : Pasos, pid : Nat, tid : Nat]
    BY DEF Pasos
  <2>3. CASE m \in Relojes
    BY <2>1, <2>2, <2>3, TiposDelReloj
  <2>4. CASE m \notin Relojes
    BY <2>1, <2>4, TiposDelReloj
  <2> QED BY <2>3, <2>4
<1>3. clockContando' \in [Hilos -> BOOLEAN]
  BY TiposDelReloj DEF Ejecutar
<1> QED BY <1>1, <1>2, <1>3 DEF Ejecutar, TypeOK, Pasos

LEMMA TurnoDelPrimero ==
    ASSUME IInv, ElegirYEjecutar
    PROVE  TypeOK' /\ EnUnLugar' /\ EnOrden'
<1> USE DEF IInv
<1> DEFINE h == Head(enReady)
<1>1. /\ kernel = "elegir" /\ replanificar /\ enReady # <<>> /\ enReady \in Seq(Hilos)
      /\ semHiloEnReady \in Nat /\ semHiloEnReady > 0 /\ carrera \in BOOLEAN
  BY DEF ElegirYEjecutar, TypeOK
<1>2. /\ h \in Hilos /\ enReady' \in Seq(Hilos) /\ h \in Elementos(enReady)
      /\ Elementos(enReady') \subseteq Elementos(enReady)
      /\ Distintos(enReady') /\ h \notin Elementos(enReady')
  BY <1>1, DelPrincipio DEF ElegirYEjecutar, EnUnLugar
<1>3. semHiloEnReady' \in Nat /\ carrera' \in BOOLEAN
  BY <1>1 DEF ElegirYEjecutar
<1>4. Ejecutar(h)
  BY DEF ElegirYEjecutar
<1> HIDE DEF h
<1>5. TypeOK'
  BY <1>2, <1>3, <1>4, TiposEjecutar
<1>6. /\ kernel' = "esperar" /\ hiloEnExec' = h /\ hiloEnExec' # NADIE
      /\ UNCHANGED <<dispositivoIO, terminados>>
  BY <1>2, <1>4, NadieNoEsHilo DEF Ejecutar
<1>7. EnUnLugar'
  BY <1>2, <1>6 DEF EnUnLugar
<1>8. EnOrden'
  BY <1>4, NadieEjecuta DEF Ejecutar, varsEjecucion, varsMemoria
<1> QED BY <1>5, <1>7, <1>8

LEMMA OtroTurno ==
    ASSUME IInv, SeguirEjecutando
    PROVE  TypeOK' /\ EnUnLugar' /\ EnOrden'
<1> USE DEF IInv
<1>1. kernel = "elegir" /\ ~replanificar /\ EnMano
  BY DEF SeguirEjecutando, EnMano
<1>2. hiloEnExec \in Hilos
  BY <1>1 DEF EnUnLugar, TypeOK
<1>3. Ejecutar(hiloEnExec) /\ UNCHANGED <<enReady, semHiloEnReady, carrera>>
  BY DEF SeguirEjecutando
<1>4. TypeOK'
  BY <1>2, <1>3, TiposEjecutar DEF TypeOK
<1>5. UNCHANGED <<hiloEnExec, replanificar, enReady, dispositivoIO, terminados>>
  BY <1>3 DEF Ejecutar
<1>6. EnUnLugar'
  BY <1>1, <1>2, <1>5, NadieNoEsHilo DEF EnUnLugar
<1>7. EnOrden'
  BY <1>3, NadieEjecuta DEF Ejecutar, varsEjecucion, varsMemoria
<1> QED BY <1>4, <1>6, <1>7

\* The scheduler has an answer, about the thread in execution.
LEMMA LaRespuesta ==
    ASSUME IInv, NEW ops, Recibe(ops)
    PROVE  /\ EnMano /\ hiloEnExec \in Hilos /\ hiloEnExec \notin terminados
           /\ aKernel' = <<>> /\ aCpu = <<>> /\ Head(aKernel).hilo = hiloEnExec
           /\ hiloEnExec \notin Elementos(enReady) \cup Elementos(dispositivoIO)
<1> USE DEF IInv
<1>1. EnRespuesta
  BY DEF Turno, SinTurno, EnDespacho, EnEjecucion, EnRespuesta, Recibe
<1>2. PICK op : aKernel = <<[op |-> op, hilo |-> hiloEnExec]>>
  BY <1>1 DEF EnRespuesta
<1>3. aKernel' = <<>> /\ Head(aKernel).hilo = hiloEnExec
  BY <1>2, UnElemento DEF Recibe
<1>4. EnMano
  BY <1>1 DEF EnMano, EnRespuesta
<1> QED BY <1>1, <1>3, <1>4 DEF EnUnLugar, TypeOK, EnRespuesta

LEMMA TiposRecibe ==
    ASSUME IInv, NEW ops, Recibe(ops), caida' \in BOOLEAN
    PROVE  TypeOKCpu'
<1>1. DOMAIN aKernel' = {}
  BY LaRespuesta
<1> QED BY <1>1 DEF IInv, Recibe, varsEjecucion, varsMemoria, TypeOK, TypeOKCpu

\* Whoever has not ended has its context saved within its program.
LEMMA OrdenRecibe ==
    ASSUME IInv, NEW ops, Recibe(ops), terminados \subseteq terminados',
           ops \cap Salen = {} \/ hiloEnExec \in terminados'
    PROVE  EnOrden'
<1> USE DEF IInv
<1>1. Head(aKernel).hilo = hiloEnExec /\ Head(aKernel).op \in ops
  BY LaRespuesta DEF Recibe
<1>2. \A h \in Hilos \ terminados' : EnPrograma(h, contexto[h])
  BY <1>1 DEF EnOrden, Saliendo
<1> QED BY <1>2 DEF EnOrden, EnPrograma, Recibe, varsEjecucion, varsMemoria

LEMMA RecibirConTipos ==
    ASSUME IInv, RecibirContinua \/ RecibirIO \/ RecibirSalida \/ RecibirFallo \/ RecibirFinDeQuantum
    PROVE  TypeOK' /\ EnUnLugar' /\ EnOrden'
<1> USE DEF IInv
<1> DEFINE Otros == /\ caida' \in BOOLEAN /\ kernel' \in {"elegir", "colgado"} /\ replanificar' \in BOOLEAN
                    /\ enReady' \in Seq(Hilos) /\ semHiloEnReady' \in Nat
                    /\ dispositivoIO' \in Seq(Hilos) /\ posteando' = posteando
                    /\ clockContando' \in [Hilos -> BOOLEAN] /\ terminados' \subseteq Hilos
<1>1. ASSUME NEW ops, Recibe(ops), Otros PROVE TypeOK'
  BY <1>1, TiposRecibe DEF Recibe, TypeOK
<1>2. ASSUME NEW ops, Recibe(ops)
      PROVE  UNCHANGED <<hiloEnExec, reloj>> /\ EnMano /\ hiloEnExec # NADIE
  BY <1>2, LaRespuesta, NadieNoEsHilo DEF Recibe
<1>3. CASE RecibirContinua
  <2>1. Recibe(Continuan) /\ UNCHANGED <<enReady, dispositivoIO, terminados>>
    BY <1>3 DEF RecibirContinua, varsReady
  <2>2. Otros
    BY <1>3 DEF RecibirContinua, varsReady, TypeOK, TypeOKCpu
  <2>3. EnOrden'
    BY <2>1, OrdenRecibe DEF Continuan, Salen
  <2>4. EnUnLugar'
    BY <1>2, <2>1 DEF EnUnLugar
  <2> QED BY <1>1, <2>1, <2>2, <2>3, <2>4
<1>4. CASE RecibirIO
  <2>1. Recibe({"IO"}) /\ UNCHANGED <<enReady, terminados>>
    BY <1>4 DEF RecibirIO
  <2>2. /\ dispositivoIO' \in Seq(Hilos) /\ Distintos(dispositivoIO')
        /\ Elementos(dispositivoIO') = Elementos(dispositivoIO) \cup {hiloEnExec}
    BY <1>4, <2>1, LaRespuesta, AlFinal DEF RecibirIO, TypeOK, EnUnLugar
  <2>3. Otros
    BY <1>4, <2>2 DEF RecibirIO, TypeOK, TypeOKCpu
  <2>4. EnOrden'
    BY <2>1, OrdenRecibe DEF Salen
  <2>5. EnUnLugar'
    <3>1. ~EnMano'
      BY <1>4 DEF RecibirIO, EnMano
    <3> QED BY <1>2, <2>1, <2>2, <3>1, LaRespuesta DEF EnUnLugar
  <2> QED BY <1>1, <2>1, <2>3, <2>4, <2>5
<1>5. CASE RecibirSalida
  <2>1. /\ Recibe(Salen) /\ UNCHANGED <<enReady, dispositivoIO>>
        /\ terminados' = terminados \cup {hiloEnExec}
    BY <1>5 DEF RecibirSalida, varsReady
  <2>2. Otros
    BY <1>5, <2>1, LaRespuesta DEF RecibirSalida, varsReady, TypeOK, TypeOKCpu
  <2>3. EnOrden'
    BY <2>1, OrdenRecibe
  <2>4. EnUnLugar'
    <3>1. ~EnMano'
      BY <1>5 DEF RecibirSalida, EnMano
    <3> QED BY <1>2, <2>1, <3>1, LaRespuesta DEF EnUnLugar
  <2> QED BY <1>1, <2>1, <2>2, <2>3, <2>4
<1>6. CASE RecibirFallo
  <2>1. Recibe({"SEGMENTATION_FAULT"}) /\ UNCHANGED <<enReady, dispositivoIO>>
    BY <1>6 DEF RecibirFallo, varsReady
  <2>2. \/ terminados' = terminados \cup {hiloEnExec} /\ ~EnMano'
        \/ terminados' = terminados /\ EnMano'
    BY <1>6 DEF RecibirFallo, EnMano
  <2>3. Otros
    BY <1>6, <2>1, <2>2, LaRespuesta DEF RecibirFallo, varsReady, TypeOK, TypeOKCpu
  <2>4. EnOrden'
    BY <2>1, <2>2, OrdenRecibe DEF Salen
  <2>5. EnUnLugar'
    BY <1>2, <2>1, <2>2, LaRespuesta DEF EnUnLugar
  <2> QED BY <1>1, <2>1, <2>3, <2>4, <2>5
<1>7. CASE RecibirFinDeQuantum
  <2>1. Recibe({"FIN_DE_QUANTUM"}) /\ UNCHANGED <<dispositivoIO, terminados>>
    BY <1>7 DEF RecibirFinDeQuantum
  <2>2. /\ enReady' \in Seq(Hilos) /\ Distintos(enReady')
        /\ Elementos(enReady') = Elementos(enReady) \cup {hiloEnExec}
    BY <1>7, <2>1, LaRespuesta, AlFinal DEF RecibirFinDeQuantum, TypeOK, EnUnLugar
  <2>3. Otros
    BY <1>7, <2>2 DEF RecibirFinDeQuantum, TypeOK, TypeOKCpu
  <2>4. EnOrden'
    BY <2>1, OrdenRecibe DEF Salen
  <2>5. EnUnLugar'
    <3>1. ~EnMano'
      BY <1>7 DEF RecibirFinDeQuantum, EnMano
    <3> QED BY <1>2, <2>1, <2>2, <3>1, LaRespuesta DEF EnUnLugar
  <2> QED BY <1>1, <2>1, <2>3, <2>4, <2>5
<1> QED BY <1>3, <1>4, <1>5, <1>6, <1>7
-----------------------------------------------------------------------------
(* The steps of the device, the timers and the interrupts.                  *)

\* What the steps of the others leave alone of the types of the CPU.
LEMMA TiposDeLosDemas ==
    ASSUME TypeOK, interrupciones' \in Seq(Nat \X Nat), interrupcion' = NADIE \/ interrupcion' \in Nat \X Nat,
           caida' \in BOOLEAN, UNCHANGED <<aCpu, aKernel, varsEjecucion, varsMemoria, fallaron>>
    PROVE  TypeOKCpu'
BY DEF TypeOK, TypeOKCpu, varsEjecucion, varsMemoria

LEMMA ElDispositivo ==
    ASSUME IInv, AtenderIO \/ PostearIO
    PROVE  TypeOK' /\ EnUnLugar' /\ EnOrden'
<1> USE DEF IInv
<1>1. UNCHANGED <<varsCpu, kernel, hiloEnExec, replanificar, terminados, reloj, carrera>>
  BY DEF AtenderIO, PostearIO
<1>2. TypeOKCpu'
  BY <1>1, TiposDeLosDemas DEF varsCpu, varsMensajes, varsEjecucion, varsMemoria, TypeOK, TypeOKCpu
<1>3. EnOrden'
  BY <1>1, NadieEjecuta DEF varsCpu, varsMensajes, varsEjecucion, varsMemoria
<1>4. CASE AtenderIO
  <2> DEFINE h == Head(dispositivoIO)
  <2>1. dispositivoIO # <<>> /\ dispositivoIO \in Seq(Hilos) /\ enReady \in Seq(Hilos)
    BY <1>4 DEF AtenderIO, TypeOK
  <2>2. /\ h \in Hilos /\ h \in Elementos(dispositivoIO)
        /\ Tail(dispositivoIO) \in Seq(Hilos) /\ Distintos(Tail(dispositivoIO))
        /\ Elementos(Tail(dispositivoIO)) \subseteq Elementos(dispositivoIO)
        /\ h \notin Elementos(Tail(dispositivoIO))
    BY <2>1, DelPrincipio DEF EnUnLugar
  <2>3. enReady' = Append(enReady, h) /\ dispositivoIO' = Tail(dispositivoIO) /\ posteando' = h
    BY <1>4 DEF AtenderIO
  <2> HIDE DEF h
  <2>4. h \notin Elementos(enReady)
    BY <2>2 DEF EnUnLugar
  <2>5. /\ enReady' \in Seq(Hilos) /\ Distintos(enReady')
        /\ Elementos(enReady') = Elementos(enReady) \cup {h}
    BY <2>1, <2>2, <2>3, <2>4, AlFinal DEF EnUnLugar
  <2>6. TypeOK'
    BY <1>2, <1>4, <2>2, <2>3, <2>5 DEF AtenderIO, TypeOK
  <2>7. h \notin terminados /\ (EnMano => hiloEnExec # h)
    BY <2>2 DEF EnUnLugar
  <2>8. EnMano' <=> EnMano
    BY <1>1 DEF EnMano
  <2>9. EnUnLugar'
    <3>1. terminados \cap (Elementos(enReady') \cup Elementos(dispositivoIO')) = {}
      BY <2>2, <2>3, <2>5, <2>7 DEF EnUnLugar
    <3>2. Elementos(enReady') \cap Elementos(dispositivoIO') = {}
      BY <2>2, <2>3, <2>5 DEF EnUnLugar
    <3>3. EnMano => hiloEnExec \notin Elementos(enReady') \cup Elementos(dispositivoIO') \cup terminados
      BY <2>2, <2>3, <2>5, <2>7 DEF EnUnLugar
    <3> QED BY <1>1, <2>2, <2>3, <2>5, <2>8, <3>1, <3>2, <3>3 DEF EnUnLugar
  <2> QED BY <1>3, <2>6, <2>9
<1>5. CASE PostearIO
  <2>1. TypeOK'
    BY <1>2, <1>5 DEF PostearIO, TypeOK
  <2> QED BY <1>3, <1>5, <2>1, NadieSeMueve DEF PostearIO
<1> QED BY <1>4, <1>5

\* A step of timer k, which then holds r.
LEMMA UnReloj ==
    ASSUME IInv, NEW k \in Relojes, NEW paso, paso # "libre", Reloj(k, paso), Mirar,
           NEW r \in [paso : Pasos, pid : Nat, tid : Nat], reloj' = [reloj EXCEPT ![k] = r],
           interrupciones' \in Seq(Nat \X Nat)
    PROVE  TypeOK' /\ EnUnLugar' /\ EnOrden'
<1> USE DEF IInv
<1>1. caida' \in BOOLEAN
  BY DEF Mirar
<1>2. TypeOKCpu'
  BY <1>1, TiposDeLosDemas DEF Reloj, TypeOK, TypeOKCpu
<1>3. reloj' \in [Relojes -> [paso : Pasos, pid : Nat, tid : Nat]]
  BY TiposDelReloj
<1>4. TypeOK'
  BY <1>2, <1>3 DEF Reloj, varsReady, TypeOK, Pasos
<1>5. hiloEnExec # NADIE
  BY DEF Reloj, EnUnLugar
<1>6. EnUnLugar'
  <2>1. EnMano' <=> EnMano
    BY DEF Reloj, EnMano
  <2> QED BY <1>5, <2>1 DEF Reloj, varsReady, EnUnLugar
<1>7. EnOrden'
  BY NadieEjecuta DEF Reloj, varsEjecucion, varsMemoria
<1> QED BY <1>4, <1>6, <1>7

\* A timer reads the thread in execution.
LEMMA ElRelojMira ==
    ASSUME IInv, NEW k \in Relojes, reloj[k].paso # "libre"
    PROVE  /\ hiloEnExec[1] \in Nat /\ hiloEnExec[2] \in Nat
           /\ reloj[k].pid \in Nat /\ reloj[k].tid \in Nat
<1>1. hiloEnExec \in Hilos
  BY DEF IInv, TypeOK, EnUnLugar
<1>2. hiloEnExec \in Nat \X Nat
  BY <1>1, HilosPidTid
<1> QED BY <1>2, TiposDelReloj DEF IInv

LEMMA LosRelojes ==
    ASSUME IInv, NEW k \in Relojes, CorreReloj(k)
    PROVE  TypeOK' /\ EnUnLugar' /\ EnOrden'
<1>1. interrupciones \in Seq(Nat \X Nat) /\ k \in DOMAIN reloj
  BY TiposDelReloj DEF IInv, TypeOK, TypeOKCpu
<1>2. CASE RelojLeeTid(k)
  <2> DEFINE r == [paso |-> "leyendo", pid |-> reloj[k].pid, tid |-> hiloEnExec[2]]
  <2>1. Reloj(k, "nuevo") /\ Mirar /\ reloj' = [reloj EXCEPT ![k] = r] /\ UNCHANGED interrupciones
    BY <1>2 DEF RelojLeeTid
  <2>2. r \in [paso : Pasos, pid : Nat, tid : Nat]
    BY <2>1, ElRelojMira DEF Reloj, Pasos
  <2> HIDE DEF r
  <2> QED BY <1>1, <2>1, <2>2, UnReloj
<1>3. CASE RelojLeePid(k)
  <2> DEFINE r == [paso |-> "dormido", pid |-> hiloEnExec[1], tid |-> reloj[k].tid]
  <2>1. Reloj(k, "leyendo") /\ Mirar /\ reloj' = [reloj EXCEPT ![k] = r] /\ UNCHANGED interrupciones
    BY <1>3 DEF RelojLeePid
  <2>2. r \in [paso : Pasos, pid : Nat, tid : Nat]
    BY <2>1, ElRelojMira DEF Reloj, Pasos
  <2> HIDE DEF r
  <2> QED BY <1>1, <2>1, <2>2, UnReloj
<1>4. CASE RelojVence(k)
  <2> DEFINE r == IF hiloEnExec = <<reloj[k].pid, reloj[k].tid>> /\ clockContando[hiloEnExec]
                  THEN [SinReloj EXCEPT !.paso = "vencido"] ELSE SinReloj
  <2>1. Reloj(k, "dormido") /\ Mirar /\ reloj' = [reloj EXCEPT ![k] = r] /\ UNCHANGED interrupciones
    BY <1>4 DEF RelojVence
  <2>2. r \in [paso : Pasos, pid : Nat, tid : Nat]
    <3>1. SinReloj \in [paso : Pasos, pid : Nat, tid : Nat]
      BY DEF SinReloj, Pasos
    <3>2. [SinReloj EXCEPT !.paso = "vencido"] \in [paso : Pasos, pid : Nat, tid : Nat]
      BY <3>1 DEF Pasos
    <3> QED BY <3>1, <3>2
  <2> HIDE DEF r
  <2> QED BY <1>1, <2>1, <2>2, UnReloj
<1>5. CASE RelojLeeQuien(k)
  <2> DEFINE r == [paso |-> "mandando", pid |-> hiloEnExec[1], tid |-> reloj[k].tid]
  <2>1. Reloj(k, "vencido") /\ Mirar /\ reloj' = [reloj EXCEPT ![k] = r] /\ UNCHANGED interrupciones
    BY <1>5 DEF RelojLeeQuien
  <2>2. r \in [paso : Pasos, pid : Nat, tid : Nat]
    BY <2>1, ElRelojMira DEF Reloj, Pasos
  <2> HIDE DEF r
  <2> QED BY <1>1, <2>1, <2>2, UnReloj
<1>6. CASE RelojInterrumpe(k)
  <2>1. /\ Reloj(k, "mandando") /\ Mirar /\ reloj' = [reloj EXCEPT ![k] = SinReloj]
        /\ interrupciones' = Append(interrupciones, <<reloj[k].pid, hiloEnExec[2]>>)
    BY <1>6 DEF RelojInterrumpe
  <2>2. SinReloj \in [paso : Pasos, pid : Nat, tid : Nat]
    BY DEF SinReloj, Pasos
  <2>3. <<reloj[k].pid, hiloEnExec[2]>> \in Nat \X Nat
    BY <2>1, ElRelojMira DEF Reloj
  <2>4. interrupciones' \in Seq(Nat \X Nat)
    BY <1>1, <2>1, <2>3
  <2> QED BY <2>1, <2>2, <2>4, UnReloj
<1> QED BY <1>2, <1>3, <1>4, <1>5, <1>6 DEF CorreReloj

LEMMA LlegaConTipos ==
    ASSUME IInv, Interrumpir
    PROVE  TypeOK' /\ EnUnLugar' /\ EnOrden'
<1> USE DEF IInv
<1>1. interrupciones \in Seq(Nat \X Nat) /\ interrupciones # <<>>
  BY DEF Interrumpir, LlegaInterrupcion, TypeOK, TypeOKCpu
<1>2. interrupcion' \in Nat \X Nat /\ interrupciones' \in Seq(Nat \X Nat)
  BY <1>1, DelPrincipio DEF Interrumpir, LlegaInterrupcion
<1>3. UNCHANGED <<aCpu, aKernel, varsEjecucion, varsMemoria, caida, fallaron>> /\ UNCHANGED varsKernel
  BY DEF Interrumpir, LlegaInterrupcion
<1>4. TypeOKCpu'
  BY <1>2, <1>3, TiposDeLosDemas DEF TypeOK, TypeOKCpu
<1>5. TypeOK'
  BY <1>3, <1>4 DEF Interrumpir, SePierde, varsKernel, varsReady, TypeOK
<1> QED BY <1>3, <1>5, NadieSeMueve, NadieEjecuta DEF varsKernel, varsReady, varsEjecucion, varsMemoria

LEMMA CadaPaso == IInv /\ [Next]_vars => TypeOK' /\ EnUnLugar' /\ EnOrden'
<1> SUFFICES ASSUME IInv, [Next]_vars PROVE TypeOK' /\ EnUnLugar' /\ EnOrden'
  OBVIOUS
<1>1. CASE DeLaCpu
  BY <1>1, CpuConTipos, NadieSeMueve DEF IInv, DeLaCpu, varsKernel, varsReady
<1>2. CASE Interrumpir
  BY <1>2, LlegaConTipos
<1>3. CASE Planificar
  BY <1>3, TurnoDelPrimero, OtroTurno, RecibirConTipos DEF Planificar
<1>4. CASE AtenderIO \/ PostearIO
  BY <1>4, ElDispositivo
<1>5. CASE \E k \in Relojes : CorreReloj(k)
  BY <1>5, LosRelojes
<1>6. CASE UNCHANGED vars
  <2>1. TypeOKCpu'
    BY <1>6 DEF IInv, vars, varsCpu, varsMensajes, varsEjecucion, varsMemoria, TypeOK, TypeOKCpu
  <2>2. TypeOK'
    BY <1>6, <2>1, TiposDelKernel DEF IInv, vars, varsDelKernel
  <2> QED BY <1>6, <2>2, NadieSeMueve, NadieEjecuta DEF IInv, vars, varsCpu, varsMensajes, varsEjecucion, varsMemoria,
             varsKernel, varsReady
<1> QED BY <1>1, <1>2, <1>3, <1>4, <1>5, <1>6 DEF Next

LEMMA SiempreIInv == Spec => []IInv
<1>1. Init => IInv
  BY AlEmpezar
<1>2. IInv /\ Turno' /\ [Next]_vars => IInv'
  BY CadaPaso DEF IInv
<1> QED BY <1>1, <1>2, SiempreTurno, PTL DEF Spec

\* The state is of its type, with any programs, timers and devices: the CPU
\* never runs past the end of a program, and a timer that looks at
\* hiloEnExec finds a thread there (controlar_tiempo_de_ejecucion).
THEOREM TiposSiempre == Spec => []TypeOK
<1>1. IInv => TypeOK
  BY DEF IInv
<1> QED BY <1>1, SiempreIInv, PTL
-----------------------------------------------------------------------------
(* Turnos implements Maquina.                                               *)

\* Whoever has failed does not run again: the kernel has stopped, or is about
\* to be told.
NoRevive ==
    \A h \in Hilos \ terminados : h[1] \in fallaron =>
       \/ kernel = "colgado"
       \/ /\ kernel = "esperar" /\ aKernel # <<>> /\ Head(aKernel).op = "SEGMENTATION_FAULT"
          /\ hiloEnExec[2] # 0 \/ h = hiloEnExec

LEMMA MismasInstrucciones ==
    /\ M!ContextoInicial = ContextoInicial
    /\ M!DeRegistros = DeRegistros /\ M!DeMemoria = DeMemoria /\ M!Syscalls = Syscalls
    /\ \A h, c : M!Instruccion(h, c) = Instruccion(h, c)
    /\ \A c, r, v : M!Guardar(c, r, v) = Guardar(c, r, v)
    /\ \A i, c : M!Calcular(i, c) = Calcular(i, c)
    /\ \A v, k : M!Byte(v, k) = Byte(v, k)
    /\ \A b : M!Numero(b) = Numero(b)
<1>1. M!Modulo = Modulo
  BY DEF M!Modulo, Modulo
<1>2. \A c, r, v : M!Guardar(c, r, v) = Guardar(c, r, v)
  BY <1>1 DEF M!Guardar, Guardar
<1>3. M!DeRegistros = DeRegistros /\ M!DeMemoria = DeMemoria /\ M!Syscalls = Syscalls
  BY DEF M!DeRegistros, DeRegistros, M!DeMemoria, DeMemoria, M!Syscalls, Syscalls,
     M!Continuan, Continuan, M!Bloquean, Bloquean, M!Salen, Salen
<1>4. \A i, c : M!Calcular(i, c) = Calcular(i, c)
  BY <1>2 DEF M!Calcular, Calcular
<1>5. \A v, k : M!Byte(v, k) = Byte(v, k)
  BY DEF M!Byte, Byte, M!Corrido, Corrido
<1>6. \A b : M!Numero(b) = Numero(b)
  BY DEF M!Numero, Numero
<1>7. M!ContextoInicial = ContextoInicial /\ \A h, c : M!Instruccion(h, c) = Instruccion(h, c)
  BY DEF M!ContextoInicial, ContextoInicial, M!Instruccion, Instruccion
<1> QED BY <1>2, <1>3, <1>4, <1>5, <1>6, <1>7

\* A process that has not failed has a memory, and those of a process are
\* addresses of the space.
LEMMA DireccionesDe ==
    ASSUME NEW h \in Hilos, NEW d \in 0 .. Tamanio[h[1]] - 1
    PROVE  /\ Particion[h[1]].base + d \in 0 .. TamMemoria - 1
           /\ Particion[h[1]].base + d \in Particion[h[1]].base .. Particion[h[1]].limite
<1> DEFINE b == Particion[h[1]].base
           l == Particion[h[1]].limite
<1>1. b \in Nat /\ l \in b .. TamMemoria - 1 /\ TamMemoria \in Nat
  BY ParticionesEnMemoria, TamMemoriaNat
<1>2. Tamanio[h[1]] = l - b + 1
  BY ParticionesDelTamanio
<1> HIDE DEF b, l
<1>3. d \in 0 .. l - b
  BY <1>1, <1>2
<1>4. b + d \in b .. l /\ b + d \in 0 .. TamMemoria - 1
  BY <1>1, <1>3
<1> QED BY <1>4 DEF b, l

LEMMA NoEsNada ==
    ASSUME TypeOK, NEW h \in Hilos
    PROVE  MemoriaDe(h[1]) \in [0 .. Tamanio[h[1]] - 1 -> Bytes] /\ MemoriaDe(h[1]) # NADA
<1>1. MemoriaDe(h[1]) \in [0 .. Tamanio[h[1]] - 1 -> Bytes]
  BY DireccionesDe DEF MemoriaDe, TypeOK, TypeOKCpu
<1> QED BY <1>1, NadaNoEsMemoria

LEMMA EmpiezaLaMaquina == Init => M!Init
<1> SUFFICES ASSUME Init PROVE M!Init
  OBVIOUS
<1>1. ContextosVistos = [h \in Hilos |-> M!ContextoInicial]
  BY MismasInstrucciones DEF Init, InitCpu, ContextosVistos, Contexto
<1>2. MemoriasVistas = [p \in M!Procesos |-> [d \in 0 .. Tamanio[p] - 1 |-> 0]]
  <2>1. \A h \in Hilos : MemoriaDe(h[1]) = [d \in 0 .. Tamanio[h[1]] - 1 |-> 0]
    BY DireccionesDe DEF MemoriaDe, Init, InitCpu
  <2>2. \A p \in M!Procesos : MemoriaDe(p) = [d \in 0 .. Tamanio[p] - 1 |-> 0]
    BY <2>1 DEF M!Procesos
  <2>3. fallaron = {}
    BY DEF Init, InitCpu
  <2>4. MemoriasVistas = [p \in M!Procesos |-> MemoriaDe(p)]
    BY <2>3 DEF MemoriasVistas, M!Procesos
  <2> QED BY <2>2, <2>4
<1> QED BY <1>1, <1>2 DEF M!Init

\* The thread in the CPU is one that Maquina may move.
LEMMA ElHiloEnLaCpu ==
    ASSUME IInv, NoRevive, NEW ops, EnCiclo(ops)
    PROVE  /\ hilo \in Hilos /\ hilo[1] \in M!Procesos /\ hilo \notin terminados /\ hilo[1] \notin fallaron
           /\ ContextosVistos[hilo] = cpu
           /\ MemoriasVistas[hilo[1]] = MemoriaDe(hilo[1])
           /\ M!Instruccion(hilo, cpu) = Instr
           /\ M!Siguiente(hilo, ops)
<1> USE DEF IInv
<1>1. EnCpu /\ etapa # "libre"
  BY DEF EnCiclo, EnCpu
<1>2. hilo \in Hilos /\ EnPrograma(hilo, cpu)
  BY <1>1, LaInstruccion
<1>3. kernel = "esperar" /\ aKernel = <<>> /\ hilo = hiloEnExec
  BY <1>1, EnCpuSinMensajes
<1>4. hilo \notin terminados
  BY <1>3 DEF EnUnLugar, EnMano
<1>5. hilo[1] \notin fallaron
  BY <1>2, <1>3, <1>4 DEF NoRevive
<1>6. ContextosVistos[hilo] = cpu
  BY <1>2 DEF ContextosVistos, Contexto, EnCiclo
<1>7. MemoriasVistas[hilo[1]] = MemoriaDe(hilo[1]) /\ hilo[1] \in M!Procesos
  BY <1>2, <1>5 DEF MemoriasVistas, M!Procesos
<1>8. MemoriaDe(hilo[1]) # NADA
  BY <1>2, NoEsNada
<1>9. M!Instruccion(hilo, cpu) = Instr
  BY MismasInstrucciones DEF Instr
<1>10. M!Siguiente(hilo, ops)
  BY <1>2, <1>6, <1>7, <1>8, <1>9 DEF M!Siguiente, EnPrograma, EnCiclo
<1> QED BY <1>2, <1>4, <1>5, <1>6, <1>7, <1>9, <1>10

\* The CPU has executed an instruction of its thread.
LEMMA CambiaUnContexto ==
    ASSUME etapa = "ciclo", hilo \in Hilos, UNCHANGED <<hilo, contexto>>, etapa' = "chequear"
    PROVE  ContextosVistos' = [ContextosVistos EXCEPT ![hilo] = cpu']
<1>1. \A h \in Hilos : Contexto(h)' = IF h = hilo THEN cpu' ELSE Contexto(h)
  BY DEF Contexto
<1> QED BY <1>1 DEF ContextosVistos

\* The context of a thread that is leaving the CPU is saved.
LEMMA ContextoGuardado ==
    ASSUME TypeOK, hilo \in Hilos, etapa \in {"ciclo", "chequear"}, UNCHANGED hilo,
           contexto' = [contexto EXCEPT ![hilo] = cpu'], etapa' \notin {"ciclo", "chequear"}
    PROVE  ContextosVistos' = [ContextosVistos EXCEPT ![hilo] = cpu']
<1>1. \A h \in Hilos : contexto'[h] = IF h = hilo THEN cpu' ELSE contexto[h]
  BY DEF TypeOK, TypeOKCpu
<1>2. \A h \in Hilos : Contexto(h)' = IF h = hilo THEN cpu' ELSE Contexto(h)
  BY <1>1 DEF Contexto
<1> QED BY <1>2 DEF ContextosVistos

\* The memories are the same if the space is.
LEMMA MismasMemorias == UNCHANGED <<espacio, fallaron>> => UNCHANGED MemoriasVistas
BY DEF MemoriasVistas, MemoriaDe

LEMMA PasoRegistro ==
    ASSUME IInv, NoRevive, EjecutarRegistros
    PROVE  M!Registro(hilo)
<1>1. /\ EnCiclo(DeRegistros) /\ cpu' = Calcular(Instr, cpu) /\ etapa = "ciclo" /\ etapa' = "chequear"
      /\ UNCHANGED <<hilo, contexto, espacio, fallaron>>
  BY DEF EjecutarRegistros, EnCiclo, varsMemoria
<1>2. hilo \in Hilos /\ ContextosVistos[hilo] = cpu /\ M!Instruccion(hilo, cpu) = Instr
  BY <1>1, ElHiloEnLaCpu
<1>3. M!Siguiente(hilo, M!DeRegistros)
  BY <1>1, ElHiloEnLaCpu, MismasInstrucciones
<1>4. ContextosVistos' = [ContextosVistos EXCEPT ![hilo] = cpu']
  BY <1>1, <1>2, CambiaUnContexto
<1>5. cpu' = M!Calcular(M!Instruccion(hilo, ContextosVistos[hilo]), ContextosVistos[hilo])
  BY <1>1, <1>2, MismasInstrucciones
<1>6. UNCHANGED MemoriasVistas
  BY <1>1, MismasMemorias
<1> QED BY <1>3, <1>4, <1>5, <1>6 DEF M!Registro

LEMMA PasoLlamada ==
    ASSUME IInv, NoRevive, EjecutarSyscall
    PROVE  M!Llamada(hilo)
<1>1. /\ EnCiclo(Syscalls) /\ cpu' = [cpu EXCEPT !.pc = cpu.pc + 1] /\ etapa = "ciclo" /\ etapa' = "libre"
      /\ contexto' = [contexto EXCEPT ![hilo] = cpu']
      /\ UNCHANGED <<hilo, espacio, fallaron>>
  BY DEF EjecutarSyscall, EnCiclo, actualizar_contexto_y_enviar, recibir_contexto_y_actualizar
<1>2. hilo \in Hilos /\ ContextosVistos[hilo] = cpu
  BY <1>1, ElHiloEnLaCpu
<1>3. M!Siguiente(hilo, M!Syscalls)
  BY <1>1, ElHiloEnLaCpu, MismasInstrucciones
<1>4. ContextosVistos' = [ContextosVistos EXCEPT ![hilo] = cpu']
  BY <1>1, <1>2, ContextoGuardado DEF IInv
<1>5. ContextosVistos' = [ContextosVistos EXCEPT ![hilo].pc = ContextosVistos[hilo].pc + 1]
  BY <1>1, <1>2, <1>4
<1>6. UNCHANGED MemoriasVistas
  BY <1>1, MismasMemorias
<1> QED BY <1>3, <1>5, <1>6 DEF M!Llamada

\* A read within the process: what memcpy finds are its bytes.
LEMMA PasoLectura ==
    ASSUME IInv, NoRevive, Sano, ejecutar_read_mem
    PROVE  M!Lectura(hilo)
<1> DEFINE d == cpu.regs[Instr.s]
           p == hilo[1]
           bytes == [k \in 0 .. 3 |-> MemoriaDe(p)[d + k]]
<1>1. /\ EnCiclo({"READ_MEM"}) /\ Traducible(d) /\ etapa = "ciclo" /\ etapa' = "chequear"
      /\ UNCHANGED <<hilo, contexto, espacio, fallaron>>
      /\ Instr.op = "READ_MEM" /\ EnCiclo(DeMemoria) /\ Direccion = d
  BY DEF ejecutar_read_mem, EnCiclo, varsMemoria, DeMemoria, Direccion
<1>2. PICK v \in Leibles(BaseActual + d) : cpu' = Guardar(cpu, Instr.r, v)
  BY DEF ejecutar_read_mem
<1>3. /\ hilo \in Hilos /\ ContextosVistos[hilo] = cpu /\ M!Instruccion(hilo, cpu) = Instr
      /\ MemoriasVistas[p] = MemoriaDe(p) /\ M!Siguiente(hilo, {"READ_MEM"})
  BY <1>1, ElHiloEnLaCpu
<1>4. d \in Nat
  BY <1>1, LaInstruccion, ValoresNat DEF IInv, DeMemoria
<1>5. d + 4 <= Tamanio[p]
  BY <1>1 DEF Sano, LimiteJusto
<1>6. Tamanio[p] \in Nat
  BY <1>3, ParticionesDelTamanio, ParticionesEnMemoria
<1>7. v \in Valores /\ \A k \in 0 .. 3 : BaseActual + d + k < TamMemoria => Byte(v, k) = espacio[BaseActual + d + k]
  BY <1>2 DEF Leibles
<1>8. \A k \in 0 .. 3 : bytes[k] = Byte(v, k)
  <2> SUFFICES ASSUME NEW k \in 0 .. 3 PROVE bytes[k] = Byte(v, k)
    OBVIOUS
  <2>1. d + k \in 0 .. Tamanio[p] - 1
    <3> HIDE DEF d, p
    <3> QED BY <1>4, <1>5, <1>6
  <2>2. bytes[k] = espacio[Particion[p].base + (d + k)]
    BY <2>1 DEF MemoriaDe
  <2>3. Particion[p].base + (d + k) \in 0 .. TamMemoria - 1
    BY <1>3, <2>1, DireccionesDe
  <2>4. Particion[p].base \in Nat
    BY <1>3, ParticionesEnMemoria
  <2>5. BaseActual + d + k = Particion[p].base + (d + k)
    <3>1. BaseActual = Particion[p].base
      BY DEF BaseActual
    <3> HIDE DEF d, p
    <3> QED BY <1>4, <2>4, <3>1
  <2>6. BaseActual + d + k < TamMemoria
    BY <2>3, <2>5, TamMemoriaNat
  <2> QED BY <1>7, <2>2, <2>5, <2>6
<1>9. Numero(bytes) = v
  <2>1. bytes = [k \in 0 .. 3 |-> Byte(v, k)]
    BY <1>8
  <2> QED BY <1>7, <2>1, NumeroDeLosBytes
<1>10. ContextosVistos' = [ContextosVistos EXCEPT ![hilo] = M!Guardar(cpu, Instr.r, M!Numero(bytes))]
  BY <1>1, <1>2, <1>3, <1>9, CambiaUnContexto, MismasInstrucciones
<1>11. UNCHANGED MemoriasVistas
  BY <1>1, MismasMemorias
<1> QED BY <1>3, <1>5, <1>10, <1>11 DEF M!Lectura, M!Cabe

\* A write within the process: it changes those bytes of its memory, and the
\* memory of no other process.
LEMMA PasoEscritura ==
    ASSUME IInv, NoRevive, Sano, ejecutar_write_mem
    PROVE  M!Escritura(hilo)
<1> DEFINE d == cpu.regs[Instr.r]
           v == cpu.regs[Instr.s]
           p == hilo[1]
           b == Particion[p].base
<1>1. /\ EnCiclo({"WRITE_MEM"}) /\ Traducible(d) /\ etapa = "ciclo" /\ etapa' = "chequear"
      /\ espacio' = Escrito(BaseActual + d, v) /\ cpu' = [cpu EXCEPT !.pc = cpu.pc + 1]
      /\ UNCHANGED <<hilo, contexto, fallaron>>
      /\ Instr.op = "WRITE_MEM" /\ EnCiclo(DeMemoria) /\ Direccion = d
  BY DEF ejecutar_write_mem, EnCiclo, DeMemoria, Direccion
<1>2. /\ hilo \in Hilos /\ ContextosVistos[hilo] = cpu /\ M!Instruccion(hilo, cpu) = Instr
      /\ MemoriasVistas[p] = MemoriaDe(p) /\ M!Siguiente(hilo, {"WRITE_MEM"})
      /\ p \in M!Procesos /\ p \notin fallaron
  BY <1>1, ElHiloEnLaCpu
<1>3. d \in Nat
  BY <1>1, LaInstruccion, ValoresNat DEF IInv, DeMemoria
<1>4. d + 4 <= Tamanio[p]
  BY <1>1 DEF Sano, LimiteJusto
<1>5. /\ b \in Nat /\ Particion[p].limite \in Nat
      /\ Tamanio[p] = Particion[p].limite - b + 1
  BY <1>2, ParticionesDelTamanio, ParticionesEnMemoria
<1>6. DOMAIN espacio = 0 .. TamMemoria - 1
  BY DEF IInv, TypeOK, TypeOKCpu
<1>7. \A a \in 0 .. TamMemoria - 1 :
        espacio'[a] = IF a \in b + d .. b + d + 3 THEN Byte(v, a - (b + d)) ELSE espacio[a]
  BY <1>1, <1>6 DEF Escrito, BaseActual
<1> HIDE DEF d, v, b
<1>8. MemoriaDe(p)' = [e \in DOMAIN MemoriaDe(p) |-> IF e \in d .. d + 3 THEN Byte(v, e - d) ELSE MemoriaDe(p)[e]]
  <2>1. ASSUME NEW e \in 0 .. Tamanio[p] - 1
        PROVE  espacio'[b + e] = IF e \in d .. d + 3 THEN Byte(v, e - d) ELSE espacio[b + e]
    <3>1. b + e \in 0 .. TamMemoria - 1
      BY <1>2, DireccionesDe DEF b
    <3>2. e \in Nat
      BY <1>5
    <3>3. (b + e \in b + d .. b + d + 3) <=> e \in d .. d + 3
      BY <1>3, <1>5, <3>2
    <3>4. (b + e) - (b + d) = e - d
      BY <1>3, <1>5, <3>2
    <3> QED BY <1>7, <3>1, <3>3, <3>4
  <2>2. MemoriaDe(p)' = [e \in 0 .. Tamanio[p] - 1 |-> espacio'[b + e]]
    BY <1>1 DEF MemoriaDe, b
  <2>3. MemoriaDe(p) = [e \in 0 .. Tamanio[p] - 1 |-> espacio[b + e]]
    BY DEF MemoriaDe, b
  <2> QED BY <2>1, <2>2, <2>3
<1>9. ASSUME NEW g \in Hilos, g[1] # p
      PROVE  MemoriaDe(g[1])' = MemoriaDe(g[1])
  <2> DEFINE c == Particion[g[1]].base
  <2>1. ASSUME NEW e \in 0 .. Tamanio[g[1]] - 1
        PROVE  espacio'[c + e] = espacio[c + e]
    <3>1. c + e \in 0 .. TamMemoria - 1 /\ c + e \in c .. Particion[g[1]].limite
      BY DireccionesDe
    <3>2. c \in Nat /\ Particion[g[1]].limite \in Nat
      BY ParticionesEnMemoria
    <3>3. Particion[g[1]].limite < b \/ Particion[p].limite < c
      BY <1>2, <1>9, ParticionesAjenas DEF b
    <3>4. c + e \notin b + d .. b + d + 3
      <4> DEFINE a == c + e
      <4>1. a \in Nat /\ c <= a /\ a <= Particion[g[1]].limite
        BY <3>1, <3>2
      <4> HIDE DEF a, c
      <4>2. b + d + 3 <= Particion[p].limite
        BY <1>3, <1>4, <1>5
      <4> QED BY <1>3, <1>5, <3>2, <3>3, <4>1, <4>2 DEF a
    <3> QED BY <1>7, <3>1, <3>4
  <2> QED BY <2>1 DEF MemoriaDe
<1>10. MemoriasVistas' = [MemoriasVistas EXCEPT ![p] = MemoriaDe(p)']
  <2>1. \A q \in M!Procesos : q # p => MemoriaDe(q)' = MemoriaDe(q)
    BY <1>9 DEF M!Procesos
  <2>2. MemoriasVistas' = [q \in M!Procesos |-> IF q \in fallaron THEN NADA ELSE MemoriaDe(q)']
    BY <1>1 DEF MemoriasVistas, M!Procesos
  <2>3. MemoriasVistas = [q \in M!Procesos |-> IF q \in fallaron THEN NADA ELSE MemoriaDe(q)]
    BY DEF MemoriasVistas, M!Procesos
  <2>4. \A q \in M!Procesos : MemoriasVistas'[q] = IF q = p THEN MemoriaDe(p)' ELSE MemoriasVistas[q]
    <3> SUFFICES ASSUME NEW q \in M!Procesos
                 PROVE  MemoriasVistas'[q] = IF q = p THEN MemoriaDe(p)' ELSE MemoriasVistas[q]
      OBVIOUS
    <3>1. CASE q = p
      <4>1. MemoriaDe(p)' = MemoriaDe(q)'
        BY <1>1, <3>1 DEF MemoriaDe
      <4> QED BY <1>2, <2>2, <3>1, <4>1
    <3>2. CASE q # p
      BY <2>1, <2>2, <2>3, <3>2
    <3> QED BY <3>1, <3>2
  <2>5. MemoriasVistas' = [q \in M!Procesos |-> MemoriasVistas'[q]]
    BY <2>2
  <2>6. DOMAIN MemoriasVistas = M!Procesos
    BY <2>3
  <2> QED BY <2>4, <2>5, <2>6
<1>11. ContextosVistos' = [ContextosVistos EXCEPT ![hilo].pc = ContextosVistos[hilo].pc + 1]
  BY <1>1, <1>2, CambiaUnContexto
<1>12. MemoriasVistas' = [MemoriasVistas EXCEPT ![p] = [e \in DOMAIN MemoriasVistas[p] |->
                            IF e \in d .. d + 3 THEN M!Byte(v, e - d) ELSE MemoriasVistas[p][e]]]
  BY <1>2, <1>8, <1>10, MismasInstrucciones
<1> QED BY <1>2, <1>4, <1>11, <1>12 DEF M!Escritura, M!Cabe, d, v

LEMMA PasoFallo ==
    ASSUME IInv, NoRevive, Sano, SegmentationFault
    PROVE  M!Fallo(hilo)
<1>1. /\ EnCiclo(DeMemoria) /\ ~ Traducible(Direccion) /\ etapa = "ciclo" /\ etapa' = "acceder"
      /\ contexto' = [contexto EXCEPT ![hilo] = cpu'] /\ cpu' = cpu
      /\ fallaron' = fallaron \cup {hilo[1]}
      /\ UNCHANGED <<hilo, espacio>>
  BY DEF SegmentationFault, EnCiclo, Direccion, actualizar_contexto_y_enviar, recibir_contexto_y_actualizar
<1>2. /\ hilo \in Hilos /\ ContextosVistos[hilo] = cpu /\ M!Instruccion(hilo, cpu) = Instr
      /\ M!Siguiente(hilo, M!DeMemoria) /\ hilo[1] \in M!Procesos
  BY <1>1, ElHiloEnLaCpu, MismasInstrucciones
<1>3. ~ M!Cabe(hilo[1], Direccion)
  BY <1>1 DEF Sano, LimiteJusto, M!Cabe
<1>4. ContextosVistos' = ContextosVistos
  <2>1. ContextosVistos' = [ContextosVistos EXCEPT ![hilo] = cpu']
    BY <1>1, <1>2, ContextoGuardado DEF IInv
  <2>2. ContextosVistos = [h \in Hilos |-> Contexto(h)]
    BY DEF ContextosVistos
  <2> QED BY <1>1, <1>2, <2>1, <2>2
<1>5. MemoriasVistas' = [MemoriasVistas EXCEPT ![hilo[1]] = NADA]
  <2>1. \A q : MemoriaDe(q)' = MemoriaDe(q)
    BY <1>1 DEF MemoriaDe
  <2>2. MemoriasVistas' = [q \in M!Procesos |-> IF q \in fallaron' THEN NADA ELSE MemoriaDe(q)]
    BY <2>1 DEF MemoriasVistas, M!Procesos
  <2>3. MemoriasVistas = [q \in M!Procesos |-> IF q \in fallaron THEN NADA ELSE MemoriaDe(q)]
    BY DEF MemoriasVistas, M!Procesos
  <2> QED BY <1>1, <1>2, <2>2, <2>3
<1> QED BY <1>2, <1>3, <1>4, <1>5 DEF M!Fallo, Direccion

\* The steps that programs do not see.
LEMMA NadieLoVe ==
    ASSUME UNCHANGED <<espacio, fallaron>>, \A h \in Hilos : Contexto(h)' = Contexto(h)
    PROVE  UNCHANGED M!vars
BY MismasMemorias DEF ContextosVistos, M!vars

\* What is written from -1 on is not seen: the processes it belongs to have
\* failed.
LEMMA MenosUnoNoSeVe ==
    ASSUME IInv, Sano, EscribirEnMenosUno
    PROVE  UNCHANGED MemoriasVistas
<1>1. /\ etapa = "acceder" /\ Instr.op = "WRITE_MEM" /\ UNCHANGED fallaron
      /\ espacio' = Escrito(-1, cpu.regs[Instr.s])
  BY DEF EscribirEnMenosUno
<1>2. \A a \in 0 .. TamMemoria - 1 : a > 2 => espacio'[a] = espacio[a]
  <2>1. DOMAIN espacio = 0 .. TamMemoria - 1
    BY DEF IInv, TypeOK, TypeOKCpu
  <2>2. \A a \in 0 .. TamMemoria - 1 : a > 2 => a \notin -1 .. -1 + 3
    OBVIOUS
  <2> QED BY <1>1, <2>1, <2>2 DEF Escrito
<1>3. ASSUME NEW h \in Hilos, h[1] \notin fallaron
      PROVE  MemoriaDe(h[1])' = MemoriaDe(h[1])
  <2> DEFINE b == Particion[h[1]].base
  <2>1. b > 2 /\ b \in Nat
    BY <1>1, <1>3, ParticionesEnMemoria DEF Sano, MenosUnoDeNadie
  <2>2. ASSUME NEW e \in 0 .. Tamanio[h[1]] - 1 PROVE espacio'[b + e] = espacio[b + e]
    <3>1. b + e \in 0 .. TamMemoria - 1
      BY DireccionesDe
    <3>2. b + e > 2
      <4> HIDE DEF b
      <4> QED BY <2>1
    <3> QED BY <1>2, <3>1, <3>2
  <2> QED BY <2>2 DEF MemoriaDe
<1>4. \A q \in M!Procesos : q \notin fallaron => MemoriaDe(q)' = MemoriaDe(q)
  BY <1>3 DEF M!Procesos
<1>5. MemoriasVistas' = [q \in M!Procesos |-> IF q \in fallaron THEN NADA ELSE MemoriaDe(q)']
  BY <1>1 DEF MemoriasVistas, M!Procesos
<1>6. MemoriasVistas = [q \in M!Procesos |-> IF q \in fallaron THEN NADA ELSE MemoriaDe(q)]
  BY DEF MemoriasVistas, M!Procesos
<1> QED BY <1>4, <1>5, <1>6

LEMMA PasoDeLaCpuVisto ==
    ASSUME IInv, NoRevive, Sano, NextCpu
    PROVE  [M!Next]_(M!vars)
<1>1. ASSUME NEW h \in Hilos, M!Registro(h) \/ M!Lectura(h) \/ M!Escritura(h) \/ M!Fallo(h) \/ M!Llamada(h)
      PROVE  M!Next
  BY <1>1 DEF M!Next
<1>2. ASSUME NEW ops, EnCiclo(ops)
      PROVE  hilo \in Hilos
  BY <1>2, ElHiloEnLaCpu
<1>3. CASE EjecutarRegistros
  BY <1>1, <1>2, <1>3, PasoRegistro DEF EjecutarRegistros
<1>4. CASE ejecutar_read_mem
  BY <1>1, <1>2, <1>4, PasoLectura DEF ejecutar_read_mem
<1>5. CASE ejecutar_write_mem
  BY <1>1, <1>2, <1>5, PasoEscritura DEF ejecutar_write_mem
<1>6. CASE SegmentationFault
  BY <1>1, <1>2, <1>6, PasoFallo DEF SegmentationFault
<1>7. CASE EjecutarSyscall
  BY <1>1, <1>2, <1>7, PasoLlamada DEF EjecutarSyscall
<1>8. CASE RecibirDespacho
  BY <1>8, NadieLoVe DEF RecibirDespacho, OBTENER_CONTEXTO_DE_EJECUCION, Contexto, varsMemoria
<1>9. CASE EscribirEnMenosUno
  <2>1. \A h \in Hilos : Contexto(h)' = Contexto(h)
    BY <1>9 DEF EscribirEnMenosUno, Contexto
  <2>2. UNCHANGED MemoriasVistas
    BY <1>9, MenosUnoNoSeVe
  <2> QED BY <2>1, <2>2 DEF ContextosVistos, M!vars
<1>10. CASE LeerDeMenosUno \/ SinInterrupcion \/ AvisarDesalojo \/ LimpiarInterrupcion
  BY <1>10, NadieLoVe DEF LeerDeMenosUno, SinInterrupcion, AvisarDesalojo, LimpiarInterrupcion,
     Contexto, varsMemoria
<1>11. CASE ConInterrupcion
  <2>1. /\ etapa = "chequear" /\ etapa' = "avisar" /\ UNCHANGED <<hilo, cpu, espacio, fallaron>>
        /\ contexto' = [contexto EXCEPT ![hilo] = cpu]
    BY <1>11 DEF ConInterrupcion, actualizar_contexto_y_enviar, recibir_contexto_y_actualizar
  <2>2. \A h \in Hilos : contexto'[h] = IF h = hilo THEN cpu ELSE contexto[h]
    BY <2>1 DEF IInv, TypeOK, TypeOKCpu
  <2>3. \A h \in Hilos : Contexto(h)' = Contexto(h)
    BY <2>1, <2>2 DEF Contexto
  <2> QED BY <2>1, <2>3, NadieLoVe
<1> QED BY <1>3, <1>4, <1>5, <1>6, <1>7, <1>8, <1>9, <1>10, <1>11 DEF NextCpu

LEMMA PasoVisto ==
    ASSUME IInv, NoRevive, Sano, [Next]_vars
    PROVE  [M!Next]_(M!vars)
<1>1. CASE DeLaCpu
  BY <1>1, PasoDeLaCpuVisto DEF DeLaCpu
<1>2. ASSUME UNCHANGED <<varsEjecucion, varsMemoria, fallaron>>
      PROVE  UNCHANGED M!vars
  BY <1>2, NadieLoVe DEF varsEjecucion, varsMemoria, Contexto
<1>3. CASE Interrumpir
  BY <1>2, <1>3 DEF Interrumpir, LlegaInterrupcion
<1>4. CASE Planificar
  BY <1>2, <1>4 DEF Planificar, ElegirYEjecutar, SeguirEjecutando, Ejecutar, RecibirContinua, RecibirIO,
     RecibirSalida, RecibirFallo, RecibirFinDeQuantum, Recibe
<1>5. CASE AtenderIO \/ PostearIO
  BY <1>2, <1>5 DEF AtenderIO, PostearIO, varsCpu
<1>6. ASSUME NEW k \in Relojes, CorreReloj(k) PROVE UNCHANGED M!vars
  BY <1>2, <1>6 DEF CorreReloj, RelojLeeTid, RelojLeePid, RelojVence, RelojLeeQuien, RelojInterrumpe, Reloj
<1>7. CASE UNCHANGED vars
  BY <1>2, <1>7 DEF vars, varsCpu
<1> QED BY <1>1, <1>3, <1>4, <1>5, <1>6, <1>7 DEF Next

\* NoRevive is inductive, given FallaSolo.
LEMMA NadieRevive ==
    ASSUME IInv, NoRevive, FallaSolo, [Next]_vars
    PROVE  NoRevive'
<1> USE DEF IInv
<1>1. ASSUME UNCHANGED <<fallaron, terminados, kernel, aKernel, hiloEnExec>>
      PROVE  NoRevive'
  BY <1>1 DEF NoRevive
<1>2. CASE DeLaCpu
  <2> UNCHANGED <<terminados, kernel, hiloEnExec>>
    BY <1>2 DEF DeLaCpu, varsKernel
  <2>1. CASE SegmentationFault
    <3>1. /\ EnCiclo(DeMemoria) /\ ~ Traducible(Direccion)
          /\ aKernel' = Append(aKernel, Mensaje("SEGMENTATION_FAULT"))
          /\ fallaron' = fallaron \cup {hilo[1]}
      BY <2>1 DEF SegmentationFault, Direccion
    <3>2. kernel = "esperar" /\ aKernel = <<>> /\ hilo = hiloEnExec /\ hilo \in Hilos
      BY <3>1, EnCpuSinMensajes, ElHiloEnLaCpu DEF EnCiclo, EnCpu
    <3>3. aKernel' # <<>> /\ Head(aKernel').op = "SEGMENTATION_FAULT"
      BY <3>1, <3>2, UnElemento DEF Mensaje
    <3>4. ASSUME NEW h \in Hilos \ terminados, h[1] \in fallaron'
          PROVE  hiloEnExec[2] # 0 \/ h = hiloEnExec
      <4>1. h[1] \notin fallaron
        BY <3>2 DEF NoRevive
      <4>2. h[1] = hilo[1]
        BY <3>1, <3>4, <4>1
      <4> QED BY <3>1, <3>2, <4>2 DEF FallaSolo
    <3> QED BY <3>2, <3>3, <3>4 DEF NoRevive
  <2>2. CASE EjecutarSyscall \/ AvisarDesalojo
    <3>1. EnCpu /\ fallaron' = fallaron
      BY <2>2 DEF EjecutarSyscall, AvisarDesalojo, EnCiclo, EnCpu
    <3>2. kernel = "esperar" /\ aKernel = <<>>
      BY <3>1, EnCpuSinMensajes
    <3>3. \A h \in Hilos \ terminados : h[1] \notin fallaron
      BY <3>2 DEF NoRevive
    <3> QED BY <3>1, <3>3 DEF NoRevive
  <2>3. CASE \/ RecibirDespacho \/ EjecutarRegistros \/ ejecutar_read_mem \/ ejecutar_write_mem
             \/ EscribirEnMenosUno \/ LeerDeMenosUno \/ SinInterrupcion \/ ConInterrupcion
             \/ LimpiarInterrupcion
    BY <1>1, <2>3 DEF RecibirDespacho, EjecutarRegistros, ejecutar_read_mem, ejecutar_write_mem,
       EscribirEnMenosUno, LeerDeMenosUno, SinInterrupcion, ConInterrupcion, LimpiarInterrupcion,
       varsMensajes
  <2> QED BY <1>2, <2>1, <2>2, <2>3 DEF DeLaCpu, NextCpu
<1>3. CASE ElegirYEjecutar \/ SeguirEjecutando
  <2>1. kernel = "elegir" /\ UNCHANGED <<fallaron, terminados>>
    BY <1>3 DEF ElegirYEjecutar, SeguirEjecutando, Ejecutar
  <2> QED BY <2>1 DEF NoRevive
<1>4. CASE RecibirContinua \/ RecibirIO \/ RecibirSalida \/ RecibirFinDeQuantum
  <2>1. /\ kernel = "esperar" /\ Head(aKernel).op # "SEGMENTATION_FAULT"
        /\ fallaron' = fallaron /\ terminados \subseteq terminados'
    BY <1>4 DEF RecibirContinua, RecibirIO, RecibirSalida, RecibirFinDeQuantum, Recibe, Continuan, Salen
  <2> QED BY <2>1 DEF NoRevive
<1>5. CASE RecibirFallo
  <2>1. /\ kernel = "esperar" /\ fallaron' = fallaron
        /\ \/ hiloEnExec[2] = 0 /\ terminados' = terminados \cup {hiloEnExec}
           \/ kernel' = "colgado"
    BY <1>5 DEF RecibirFallo, Recibe
  <2> QED BY <2>1 DEF NoRevive
<1>6. CASE Interrumpir \/ AtenderIO \/ PostearIO \/ UNCHANGED vars
  BY <1>1, <1>6 DEF Interrumpir, LlegaInterrupcion, AtenderIO, PostearIO, varsKernel, varsCpu, varsMensajes, vars
<1>7. ASSUME NEW k \in Relojes, CorreReloj(k) PROVE NoRevive'
  BY <1>1, <1>7 DEF CorreReloj, RelojLeeTid, RelojLeePid, RelojVence, RelojLeeQuien, RelojInterrumpe, Reloj
<1> QED BY <1>2, <1>3, <1>4, <1>5, <1>6, <1>7 DEF Next, Planificar

\* Programs cannot tell that they share the CPU, whatever they are and
\* wherever their partitions: through evictions, system calls and the saving
\* and restoring of contexts, each thread executes its own program, in order,
\* on its own registers and the memory of its process (ejecutar_hilo,
\* ejecutar_ciclo_instruccion, atender_cpu).
THEOREM RefinaMaquina == Spec /\ []Sano => ImplementaMaquina
<1>1. Init => NoRevive
  BY DEF Init, InitCpu, NoRevive
<1>2. IInv /\ NoRevive /\ Sano /\ [Next]_vars => NoRevive' /\ [M!Next]_(M!vars)
  BY NadieRevive, PasoVisto DEF Sano
<1>3. Init => M!Init
  BY EmpiezaLaMaquina
<1> QED BY <1>1, <1>2, <1>3, SiempreIInv, PTL DEF Spec, ImplementaMaquina, M!Spec
-----------------------------------------------------------------------------
(* Programs whose accesses are all sound (Alcance): Sano is what the        *)
(* refinement rests on, and it follows from the programs and the partitions *)
(* alone, for each thread computes what it would compute alone, whatever is *)
(* in memory.                                                               *)

\* Whoever may run again is in a context that its own program reaches; and an
\* access from -1 on is of a process whose translation has failed.
Alcanzados(A) ==
    /\ etapa # "libre" => cpu \in A[hilo]
    /\ \A h \in Hilos \ terminados : contexto[h] \in A[h] \/ Saliendo(h)
    /\ etapa = "acceder" =>
          Instr.op \in DeMemoria /\ ~ Traducible(Direccion) /\ hilo[1] \in fallaron

\* The instruction of the thread in the CPU, and what it leaves there.
LEMMA EnAlcance ==
    ASSUME IInv, NEW A, Alcance(A), Alcanzados(A), etapa # "libre"
    PROVE  /\ hilo \in Hilos /\ cpu \in A[hilo]
           /\ Sucesores(hilo, cpu) \subseteq A[hilo]
           /\ Instr.op \in DeMemoria => AccesoSano(hilo, cpu)
<1>1. hilo \in Hilos /\ cpu \in A[hilo]
  BY DEF IInv, TypeOK, TypeOKCpu, Alcanzados
<1> QED BY <1>1 DEF Alcance, Instr

\* The steps of the CPU that save nothing and answer nothing.
LEMMA SigueEnAlcance ==
    ASSUME NEW A, Alcanzados(A), etapa # "libre", etapa' # "acceder",
           etapa' = "libre" \/ cpu' \in A[hilo],
           UNCHANGED <<hilo, contexto, terminados, aKernel>>
    PROVE  Alcanzados(A)'
BY DEF Alcanzados, Saliendo

LEMMA AlcanceAlDespachar ==
    ASSUME IInv, NEW A, Alcanzados(A), RecibirDespacho, UNCHANGED varsDelKernel
    PROVE  Alcanzados(A)'
<1> USE DEF IInv
<1>1. /\ aCpu = <<hiloEnExec>> /\ aKernel = <<>> /\ UNCHANGED <<aKernel, contexto, terminados>>
      /\ kernel = "esperar"
  BY DEF RecibirDespacho, Turno, SinTurno, EnDespacho, EnEjecucion, EnRespuesta, varsMemoria, varsDelKernel, varsKernel
<1>2. hilo' = hiloEnExec /\ cpu' = contexto[hiloEnExec] /\ etapa' = "ciclo"
  BY <1>1, UnElemento DEF RecibirDespacho, OBTENER_CONTEXTO_DE_EJECUCION
<1>3. hiloEnExec \in Hilos \ terminados
  BY <1>1, UnElemento DEF TypeOK, TypeOKCpu, EnUnLugar, EnMano
<1> QED BY <1>1, <1>2, <1>3 DEF Alcanzados, Saliendo

LEMMA AlcanceAlEjecutar ==
    ASSUME IInv, NEW A, Alcance(A), Alcanzados(A), UNCHANGED varsDelKernel,
           EjecutarRegistros \/ ejecutar_read_mem \/ ejecutar_write_mem
    PROVE  Alcanzados(A)'
<1>1. /\ etapa # "libre" /\ etapa' = "chequear"
      /\ UNCHANGED <<hilo, contexto, terminados, aKernel>>
  BY DEF EjecutarRegistros, ejecutar_read_mem, ejecutar_write_mem, EnCiclo,
     varsMensajes, varsMemoria, varsDelKernel, varsKernel
<1>2. Sucesores(hilo, cpu) \subseteq A[hilo]
  BY <1>1, EnAlcance
<1>3. cpu' \in Sucesores(hilo, cpu)
  <2>1. CASE EjecutarRegistros
    <3>1. Instr.op \in DeRegistros /\ cpu' = Calcular(Instr, cpu)
      BY <2>1 DEF EjecutarRegistros, EnCiclo
    <3>2. Sucesores(hilo, cpu) = {Calcular(Instr, cpu)}
      BY <3>1 DEF Instr, Sucesores, DeRegistros, Syscalls, Continuan, Bloquean, Salen
    <3> QED BY <3>1, <3>2
  <2>2. CASE ejecutar_read_mem
    <3>1. Instr.op = "READ_MEM" /\ cpu.regs[Instr.s] + 4 <= Particion[hilo[1]].limite
      BY <2>2 DEF ejecutar_read_mem, EnCiclo, Traducible
    <3>2. cpu' \in {Guardar(cpu, Instr.r, v) : v \in Valores}
      BY <2>2 DEF ejecutar_read_mem, Leibles
    <3>3. Sucesores(hilo, cpu) = {Guardar(cpu, Instr.r, v) : v \in Valores}
      BY <3>1 DEF Instr, Sucesores, DeRegistros, Syscalls, Continuan, Bloquean, Salen
    <3> QED BY <3>2, <3>3
  <2>3. CASE ejecutar_write_mem
    <3>1. Instr.op = "WRITE_MEM" /\ cpu.regs[Instr.r] + 4 <= Particion[hilo[1]].limite
      BY <2>3 DEF ejecutar_write_mem, EnCiclo, Traducible
    <3>2. cpu' = [cpu EXCEPT !.pc = cpu.pc + 1]
      BY <2>3 DEF ejecutar_write_mem
    <3>3. Sucesores(hilo, cpu) = {[cpu EXCEPT !.pc = cpu.pc + 1]}
      BY <3>1 DEF Instr, Sucesores, DeRegistros, Syscalls, Continuan, Bloquean, Salen
    <3> QED BY <3>2, <3>3
  <2> QED BY <2>1, <2>2, <2>3
<1> QED BY <1>1, <1>2, <1>3, SigueEnAlcance

\* The answers of the CPU: a saved context is within reach, but for that of a
\* thread that ends.
LEMMA AlcanceAlResponder ==
    ASSUME IInv, NEW A, Alcanzados(A), EnCpu, NEW op,
           aKernel' = Append(aKernel, Mensaje(op)), cpu' \in A[hilo] \/ op \in Salen,
           etapa' # "libre" => cpu' \in A[hilo],
           contexto' \in {contexto, [contexto EXCEPT ![hilo] = cpu']},
           etapa' = "acceder" => (Instr.op \in DeMemoria /\ ~ Traducible(Direccion) /\ hilo[1] \in fallaron)',
           UNCHANGED <<hilo, terminados>>
    PROVE  Alcanzados(A)'
<1>1. aKernel = <<>> /\ hilo \in Hilos
  BY EnCpuSinMensajes DEF IInv, TypeOK, TypeOKCpu, EnCpu
<1>2. Head(aKernel') = Mensaje(op) /\ aKernel' # <<>>
  BY <1>1, UnElemento
<1>3. \A h \in Hilos \ terminados : contexto[h] \in A[h]
  BY <1>1 DEF Alcanzados, Saliendo
<1>4. \A h \in Hilos : contexto'[h] = contexto[h] \/ (h = hilo /\ contexto'[h] = cpu')
  BY DEF IInv, TypeOK, TypeOKCpu
<1>5. \A h \in Hilos \ terminados : contexto'[h] \in A[h] \/ Saliendo(h)'
  BY <1>2, <1>3, <1>4 DEF Saliendo, Mensaje
<1> QED BY <1>5 DEF Alcanzados

LEMMA AlcanceDeLaCpu ==
    ASSUME IInv, NEW A, Alcance(A), Alcanzados(A), DeLaCpu
    PROVE  Alcanzados(A)'
<1> UNCHANGED varsDelKernel
  BY DEF DeLaCpu, varsDelKernel
<1> UNCHANGED terminados
  BY DEF DeLaCpu, varsKernel
<1>1. CASE RecibirDespacho
  BY <1>1, AlcanceAlDespachar
<1>2. CASE EjecutarRegistros \/ ejecutar_read_mem \/ ejecutar_write_mem
  BY <1>2, AlcanceAlEjecutar
<1>3. CASE SegmentationFault
  <2>1. /\ EnCpu /\ etapa # "libre" /\ UNCHANGED <<hilo, cpu>>
        /\ aKernel' = Append(aKernel, Mensaje("SEGMENTATION_FAULT"))
        /\ contexto' = [contexto EXCEPT ![hilo] = cpu']
    BY <1>3 DEF SegmentationFault, EnCiclo, EnCpu, actualizar_contexto_y_enviar, recibir_contexto_y_actualizar
  <2>2. (Instr.op \in DeMemoria /\ ~ Traducible(Direccion) /\ hilo[1] \in fallaron)'
    BY <1>3 DEF SegmentationFault, EnCiclo, Instr, Direccion, Traducible
  <2>3. cpu' \in A[hilo]
    BY <2>1, EnAlcance
  <2> QED BY <2>1, <2>2, <2>3, AlcanceAlResponder
<1>4. CASE EjecutarSyscall
  <2>1. /\ EnCpu /\ etapa # "libre" /\ etapa' = "libre" /\ UNCHANGED hilo
        /\ Instr.op \in Syscalls /\ cpu' = [cpu EXCEPT !.pc = cpu.pc + 1]
        /\ aKernel' = Append(aKernel, Mensaje(Instr.op))
        /\ contexto' = [contexto EXCEPT ![hilo] = cpu']
    BY <1>4 DEF EjecutarSyscall, EnCiclo, EnCpu, actualizar_contexto_y_enviar, recibir_contexto_y_actualizar
  <2>2. Instr.op \notin Salen => cpu' \in Sucesores(hilo, cpu)
    BY <2>1 DEF Instr, Sucesores, DeRegistros, DeMemoria, Syscalls, Continuan, Bloquean, Salen
  <2>3. cpu' \in A[hilo] \/ Instr.op \in Salen
    BY <2>1, <2>2, EnAlcance
  <2> QED BY <2>1, <2>3, AlcanceAlResponder
<1>5. CASE AvisarDesalojo
  <2>1. /\ EnCpu /\ etapa # "libre" /\ etapa' = "limpiar" /\ UNCHANGED <<hilo, cpu, contexto>>
        /\ aKernel' = Append(aKernel, Mensaje("FIN_DE_QUANTUM"))
    BY <1>5 DEF AvisarDesalojo, EnCpu, varsMemoria
  <2>2. cpu' \in A[hilo]
    BY <2>1, EnAlcance
  <2> QED BY <2>1, <2>2, AlcanceAlResponder
<1>6. CASE ConInterrupcion
  <2>1. /\ etapa # "libre" /\ etapa' = "avisar" /\ UNCHANGED <<hilo, cpu, aKernel>>
        /\ contexto' = [contexto EXCEPT ![hilo] = cpu]
    BY <1>6 DEF ConInterrupcion, actualizar_contexto_y_enviar, recibir_contexto_y_actualizar, varsMensajes
  <2>2. cpu \in A[hilo]
    BY <2>1, EnAlcance
  <2>3. \A h \in Hilos : contexto'[h] = IF h = hilo THEN cpu ELSE contexto[h]
    BY <2>1 DEF IInv, TypeOK, TypeOKCpu
  <2> QED BY <2>1, <2>2, <2>3 DEF Alcanzados, Saliendo
<1>7. CASE EscribirEnMenosUno \/ LeerDeMenosUno \/ SinInterrupcion \/ LimpiarInterrupcion
  <2>1. /\ etapa # "libre" /\ etapa' # "acceder" /\ UNCHANGED <<hilo, cpu, contexto, aKernel>>
    BY <1>7 DEF EscribirEnMenosUno, LeerDeMenosUno, SinInterrupcion, LimpiarInterrupcion, varsMensajes, varsMemoria
  <2> QED BY <2>1, EnAlcance, SigueEnAlcance
<1> QED BY <1>1, <1>2, <1>3, <1>4, <1>5, <1>6, <1>7 DEF DeLaCpu, NextCpu

\* The scheduler takes an answer: whoever is still to run has its context
\* within reach.
LEMMA AlcanceAlRecibir ==
    ASSUME IInv, NEW A, Alcanzados(A), NEW ops, Recibe(ops), terminados \subseteq terminados',
           ops \cap Salen = {} \/ hiloEnExec \in terminados'
    PROVE  Alcanzados(A)'
<1>1. Head(aKernel).hilo = hiloEnExec /\ Head(aKernel).op \in ops
  BY LaRespuesta DEF Recibe
<1>2. \A h \in Hilos \ terminados' : contexto[h] \in A[h]
  BY <1>1 DEF Alcanzados, Saliendo
<1>3. UNCHANGED <<etapa, hilo, cpu, contexto, fallaron>>
  BY DEF Recibe, varsEjecucion, varsMemoria
<1> QED BY <1>2, <1>3 DEF Alcanzados, Instr, Direccion, Traducible

LEMMA AlcanceSeMantiene ==
    ASSUME IInv, NEW A, Alcance(A), Alcanzados(A), [Next]_vars
    PROVE  Alcanzados(A)'
<1>1. ASSUME UNCHANGED <<etapa, hilo, cpu, contexto, fallaron, aKernel, terminados>>
      PROVE  Alcanzados(A)'
  BY <1>1 DEF Alcanzados, Saliendo, Instr, Direccion, Traducible
<1>2. CASE DeLaCpu
  BY <1>2, AlcanceDeLaCpu
<1>3. CASE ElegirYEjecutar \/ SeguirEjecutando
  BY <1>1, <1>3 DEF ElegirYEjecutar, SeguirEjecutando, Ejecutar, varsEjecucion, varsMemoria
<1>4. CASE RecibirContinua
  <2>1. Recibe(Continuan) /\ terminados' = terminados
    BY <1>4 DEF RecibirContinua
  <2> QED BY <2>1, AlcanceAlRecibir DEF Continuan, Salen
<1>5. CASE RecibirIO
  <2>1. Recibe({"IO"}) /\ terminados' = terminados
    BY <1>5 DEF RecibirIO
  <2> QED BY <2>1, AlcanceAlRecibir DEF Salen
<1>6. CASE RecibirSalida
  <2>1. Recibe(Salen) /\ terminados' = terminados \cup {hiloEnExec}
    BY <1>6 DEF RecibirSalida
  <2> QED BY <2>1, AlcanceAlRecibir
<1>7. CASE RecibirFallo
  <2>1. Recibe({"SEGMENTATION_FAULT"}) /\ terminados \subseteq terminados'
    BY <1>7 DEF RecibirFallo
  <2> QED BY <2>1, AlcanceAlRecibir DEF Salen
<1>8. CASE RecibirFinDeQuantum
  <2>1. Recibe({"FIN_DE_QUANTUM"}) /\ terminados' = terminados
    BY <1>8 DEF RecibirFinDeQuantum
  <2> QED BY <2>1, AlcanceAlRecibir DEF Salen
<1>9. CASE Interrumpir \/ AtenderIO \/ PostearIO \/ UNCHANGED vars
  BY <1>1, <1>9 DEF Interrumpir, LlegaInterrupcion, AtenderIO, PostearIO, varsKernel, varsCpu, varsMensajes,
     varsEjecucion, varsMemoria, vars
<1>10. ASSUME NEW k \in Relojes, CorreReloj(k) PROVE Alcanzados(A)'
  BY <1>1, <1>10 DEF CorreReloj, RelojLeeTid, RelojLeePid, RelojVence, RelojLeeQuien, RelojInterrumpe, Reloj,
     varsEjecucion, varsMemoria
<1> QED BY <1>2, <1>3, <1>4, <1>5, <1>6, <1>7, <1>8, <1>9, <1>10 DEF Next, Planificar

LEMMA SanoAlAlcance ==
    ASSUME IInv, NEW A, Alcance(A), Alcanzados(A)
    PROVE  Sano
<1>1. ASSUME EnCiclo(DeMemoria)
      PROVE  /\ Traducible(Direccion) <=> Direccion + 4 <= Tamanio[hilo[1]]
             /\ ~ Traducible(Direccion) /\ hilo[2] = 0 => \A g \in Hilos : g[1] = hilo[1] => g = hilo
  <2>1. AccesoSano(hilo, cpu)
    BY <1>1, EnAlcance DEF EnCiclo
  <2> QED BY <2>1 DEF AccesoSano, Direccion, Traducible, Instr
<1>2. ASSUME etapa = "acceder", Instr.op = "WRITE_MEM", NEW h \in Hilos, h[1] \notin fallaron
      PROVE  Particion[h[1]].base > 2
  <2>1. AccesoSano(hilo, cpu) /\ ~ Traducible(Direccion) /\ h[1] # hilo[1]
    BY <1>2, EnAlcance DEF Alcanzados
  <2> QED BY <1>2, <2>1 DEF AccesoSano, Direccion, Traducible, Instr
<1> QED BY <1>1, <1>2 DEF Sano, LimiteJusto, FallaSolo, MenosUnoDeNadie

\* Programs whose own contexts make only sound accesses never meet the faults
\* of the translation (traducir_direccion_logica), however they are
\* scheduled and whatever they read.
THEOREM SanoPorLosProgramas ==
    ASSUME NEW A, Alcance(A)
    PROVE  Spec => []Sano
<1>1. Init => Alcanzados(A)
  BY DEF Init, InitCpu, Alcanzados, Alcance
<1>2. IInv /\ Alcanzados(A) /\ [Next]_vars => Alcanzados(A)'
  BY AlcanceSeMantiene
<1>3. IInv /\ Alcanzados(A) => Sano
  BY SanoAlAlcance
<1> QED BY <1>1, <1>2, <1>3, SiempreIInv, PTL DEF Spec

\* So a condition on the programs and the partitions, which can be checked
\* before they run, is enough for each to run as if it had the machine for
\* itself (ejecutar_hilo, ejecutar_ciclo_instruccion, atender_cpu).
THEOREM RefinaMaquinaSana ==
    ASSUME NEW A, Alcance(A)
    PROVE  Spec => ImplementaMaquina
BY SanoPorLosProgramas, RefinaMaquina, PTL
=============================================================================
