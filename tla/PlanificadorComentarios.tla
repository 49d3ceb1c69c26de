----------------------- MODULE PlanificadorComentarios -----------------------
(***************************************************************************)
(* What a comment of kernel/src/mainkernel.c says of the end of a process  *)
(* and the code does not do, which a run refutes.                          *)
(***************************************************************************)
EXTENDS Planificador

\* finalizar_proceso (mainkernel.c:126, 146): all the threads of the process go to EXIT.
ProcesoLiberadoSinHilos ==
    \A h \in Hilos : pcb[h[1]] = "liberado" =>
       tcb[h].estado \in {"NINGUNO", "EXIT", "LIBERADO"}
=============================================================================
