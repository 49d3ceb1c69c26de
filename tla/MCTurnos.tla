------------------------------ MODULE MCTurnos ------------------------------
(* Instances of Turnos for TLC: programs and partitions. *)
EXTENDS Turnos, TLC

Set(r, v) == [op |-> "SET", r |-> r, v |-> v]
Dos(op, r, s) == [op |-> op, r |-> r, s |-> s]
Jnz(r, v) == [op |-> "JNZ", r |-> r, v |-> v]
Log(r) == [op |-> "LOG", r |-> r]
Sys(op) == [op |-> op]

\* An access that does not fit in the partition ends the process.
EscribeFuera == << Dos("WRITE_MEM", "AX", "BX"), Sys("PROCESS_EXIT") >>
LeeFuera == << Dos("READ_MEM", "BX", "AX"), Sys("PROCESS_EXIT") >>

\* After its IO it never leaves the CPU.
SinFin == << Sys("IO"), Set("AX", 1), Jnz("AX", 2), Sys("THREAD_EXIT") >>

\* Leaves its mark in memory, and reads it back after a call.
Anota == << Set("BX", -1), Dos("WRITE_MEM", "AX", "BX"), Sys("MUTEX_CREATE"),
            Dos("READ_MEM", "AX", "AX"), Sys("THREAD_EXIT") >>

\* Writes beyond the end of a partition of 8 addresses.
EscribeAjeno == << Set("AX", 8), Set("BX", 1), Dos("WRITE_MEM", "AX", "BX"), Sys("PROCESS_EXIT") >>

MCHilos == {<<0, 0>>, <<1, 0>>, <<1, 1>>, <<2, 0>>}
MCPrograma == <<0, 0>> :> EscribeFuera @@ <<1, 0>> :> SinFin @@ <<1, 1>> :> Anota @@ <<2, 0>> :> LeeFuera
MCOrden == << <<1, 0>>, <<0, 0>>, <<2, 0>>, <<1, 1>> >>
MCParticion == 0 :> [base |-> 0, limite |-> 2] @@ 1 :> [base |-> 4, limite |-> 11] @@ 2 :> [base |-> 3, limite |-> 3]
MCTamanio == 0 :> 3 @@ 1 :> 8 @@ 2 :> 1
MCFinitos == {<<0, 0>>, <<1, 1>>, <<2, 0>>}

\* The contexts that each of these programs reaches: the partition of process
\* 1 admits its addresses 0 to 7, and the read of Anota may find any value.
En(pc, ax, bx) == [pc |-> pc, regs |-> "AX" :> ax @@ "BX" :> bx]
MCAlcance ==
    <<0, 0>> :> {En(0, 0, 0)} @@
    <<1, 0>> :> {En(0, 0, 0), En(1, 0, 0), En(2, 1, 0)} @@
    <<1, 1>> :> {En(0, 0, 0)} \cup {En(k, 0, Modulo - 1) : k \in 1 .. 3}
                             \cup {En(4, v, Modulo - 1) : v \in Valores} @@
    <<2, 0>> :> {En(0, 0, 0)}
ASSUME ProgramasSanos == Programa = MCPrograma => Alcance(MCAlcance)

\* Two processes of 8 addresses, one beside the other.
DosHilos == {<<0, 0>>, <<1, 0>>}
DosProgramas == [h \in DosHilos |-> EscribeAjeno]
DosOrden == << <<0, 0>>, <<1, 0>> >>
DosParticion == 0 :> [base |-> 8, limite |-> 15] @@ 1 :> [base |-> 16, limite |-> 23]
DosTamanio == [p \in 0 .. 1 |-> 8]
DosFinitos == DosHilos
=============================================================================
