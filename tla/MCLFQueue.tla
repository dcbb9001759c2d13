----------------------------- MODULE MCLFQueue -----------------------------
(* Instances of LFQueue for TLC. *)
EXTENDS LFQueue

CONSTANTS x, y

MCData == {x, y}
=============================================================================
