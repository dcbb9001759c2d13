------------------------------- MODULE Search -------------------------------
(***************************************************************************)
(* A deadlock check on the wait-for graph, as one step: what               *)
(* strongConnectedComponent of eventLoop.c promises.  The check starts     *)
(* from the threads that request a mutex and finds the strongly connected  *)
(* components it can reach without entering a vertex that an earlier check *)
(* has left marked.  Detector shows that Tarjan's algorithm on arc lists   *)
(* implements it.                                                          *)
(***************************************************************************)
EXTENDS LockGraph

VARIABLES
  marked,   \* vertices whose dfn is not 0 between two checks
  found     \* components found by the last check, until the next event

\* The vertices that can be reached from v around those of X: they are outside
\* of every set without v that no arc leads into.
Reached(v, X) ==
  LET arcs == {e \in edges : e[2] \notin X}
  IN  Vertex \ UNION {S \in SUBSET (Vertex \ {v}) : \A e \in arcs : e[2] \in S => e[1] \in S}

\* Faulty variant: no vertex closes a component before the search is over.
ComponentsMerged(X) ==
  {Reached(t, X) : t \in requestThreadMap \ X} \ {{v} : v \in Vertex}

\* The strongly connected components of more than one vertex; each contains a
\* thread that requests a mutex.
Components(X) ==
  LET reached == [v \in Vertex \ X |-> Reached(v, X)]
  IN  {{w \in reached[t] : t \in reached[w]} : t \in requestThreadMap \ X}
        \ {{v} : v \in Vertex}

\* What a check enters, and what is reset after it.
Visited == UNION {Reached(t, marked) : t \in requestThreadMap \ marked}

Cleared == requestThreadMap \cup UNION {Requested(t) : t \in requestThreadMap}

\* Faulty variant: nothing is reset.
strongConnectedComponentOnce ==
  /\ Running
  /\ requestThreadMap # {}
  /\ found' = Components(marked)
  /\ marked' = marked \cup Visited
  /\ UNCHANGED <<graphVars, abort>>

strongConnectedComponent ==
  /\ Running
  /\ requestThreadMap # {}
  /\ found' = Components(marked)
  /\ marked' = (marked \cup Visited) \ Cleared
  /\ UNCHANGED <<graphVars, abort>>
=============================================================================
