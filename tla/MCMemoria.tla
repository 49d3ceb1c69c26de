----------------------------- MODULE MCMemoria -----------------------------
(* Instances of Memoria for TLC. *)
EXTENDS Memoria

MCParticiones == <<2, 1, 3>>
=============================================================================
