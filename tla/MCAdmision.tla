----------------------------- MODULE MCAdmision -----------------------------
(* Instances of Admision for TLC. *)
EXTENDS Admision

MCParticiones == <<>>
=============================================================================
