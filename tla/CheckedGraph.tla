---------------------------- MODULE CheckedGraph ----------------------------
(***************************************************************************)
(* The abstract specification of the checker thread: the wait-for graph of *)
(* GraphProtocol, and the deadlock checks of Search between two events.    *)
(* Detector, with arc lists and Tarjan's algorithm, implements it.         *)
(***************************************************************************)
EXTENDS GraphProtocol, Search

checkedVars == <<vars, marked, found>>

CheckedInit == Init /\ marked = {} /\ found = {}

CheckedNext ==
  \/ Next /\ found' = {} /\ UNCHANGED marked
  \/ strongConnectedComponent

CheckedSpec == CheckedInit /\ [][CheckedNext]_checkedVars
=============================================================================
