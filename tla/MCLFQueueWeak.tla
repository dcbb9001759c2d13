--------------------------- MODULE MCLFQueueWeak ---------------------------
(* An instance of LFQueueWeak for TLC. *)
EXTENDS LFQueueWeak

CONSTANTS x, y

MCData == {x, y}
=============================================================================
