----------------------------- MODULE LockGraph -----------------------------
(***************************************************************************)
(* The wait-for graph of eventLoop.c and vertex.c: one vertex per thread   *)
(* and per mutex that an event has named, an arc <<t, m>> for "t requests  *)
(* m", an arc <<m, t>> for "m is occupied by t", and the map of the        *)
(* threads that request something.  The three event handlers are operators *)
(* of the thread and the mutex an event carries.                           *)
(*                                                                         *)
(* A handler that fails aborts the process half way; what it had changed   *)
(* by then no longer matters, so a failing handler leaves the graph alone. *)
(***************************************************************************)
EXTENDS WatchedProcess, Integers, FiniteSets

CONSTANTS
  MaxThreadVertex,   \* NUMBER_OF_VERTEX_THREAD
  MaxMutexVertex,    \* NUMBER_OF_VERTEX_MUTEX
  MaxArc             \* NUMBER_OF_ARC

ASSUME CapacityAssumption ==
  MaxThreadVertex \in Nat /\ MaxMutexVertex \in Nat /\ MaxArc \in Nat

VARIABLES
  vertexThreadMap,    \* threads that have a vertex
  vertexMutexMap,     \* mutexes that have a vertex
  edges,              \* the arcs, as pairs
  requestThreadMap    \* threads that request a mutex

graphVars == <<vertexThreadMap, vertexMutexMap, edges, requestThreadMap>>

Vertex == Thread \cup Mutex

GraphTypeOK ==
  /\ vertexThreadMap \subseteq Thread
  /\ vertexMutexMap \subseteq Mutex
  /\ edges \subseteq (Thread \X Mutex) \cup (Mutex \X Thread)
  /\ requestThreadMap \subseteq Thread

GraphInit ==
  /\ vertexThreadMap = {}
  /\ vertexMutexMap = {}
  /\ edges = {}
  /\ requestThreadMap = {}

\* What the graph says of one thread.
Requested(t) == {m \in Mutex : <<t, m>> \in edges}
Occupied(t)  == {m \in Mutex : <<m, t>> \in edges}
-----------------------------------------------------------------------------
(* addEdge and deleteEdge, on the set of arcs *)
\* Faulty variant: takes the comment in deleteEdge at its word, that a vertex
\* has one arc only.
deleteEdgeOnly(E, u, v) == {e \in E : e[1] # u}

addEdge(E, u, v)    == E \cup {<<u, v>>}
deleteEdge(E, u, v) == E \ {<<u, v>>}

Fail(reason) ==
  /\ abort' = reason
  /\ UNCHANGED graphVars

\* Faulty variant: a vertex is taken from the pool for a thread that has one.
WaitOutcomeNewVertex(t, m) ==
  CASE Cardinality(vertexThreadMap) >= MaxThreadVertex       -> "poolEmpty"
    [] Cardinality(vertexMutexMap \cup {m}) > MaxMutexVertex -> "poolEmpty"
    [] <<t, m>> \in edges                                    -> "assertion"
    [] Cardinality(edges) >= MaxArc                          -> "poolEmpty"
    [] t \in requestThreadMap                                -> "assertion"
    [] OTHER                                                 -> "none"

\* The outcome of waitLockHandler, its checks in the order of the code.
WaitOutcome(t, m) ==
  CASE Cardinality(vertexThreadMap \cup {t}) > MaxThreadVertex -> "poolEmpty"
    [] Cardinality(vertexMutexMap \cup {m}) > MaxMutexVertex   -> "poolEmpty"
    [] <<t, m>> \in edges                                      -> "assertion"
    [] Cardinality(edges) >= MaxArc                            -> "poolEmpty"
    [] t \in requestThreadMap                                  -> "assertion"
    [] OTHER                                                   -> "none"

\* Faulty variant: the vertex of the mutex is put into the map of the threads.
waitLockHandlerOtherMap(t, m) ==
  /\ WaitOutcome(t, m) = "none"
  /\ vertexThreadMap' = vertexThreadMap \cup {t, m}
  /\ edges' = addEdge(edges, t, m)
  /\ requestThreadMap' = requestThreadMap \cup {t}
  /\ UNCHANGED <<vertexMutexMap, abort>>

waitLockHandler(t, m) ==
  \/ /\ WaitOutcome(t, m) = "none"
     /\ vertexThreadMap' = vertexThreadMap \cup {t}
     /\ vertexMutexMap' = vertexMutexMap \cup {m}
     /\ edges' = addEdge(edges, t, m)
     /\ requestThreadMap' = requestThreadMap \cup {t}
     /\ UNCHANGED abort
  \/ /\ WaitOutcome(t, m) # "none"
     /\ Fail(WaitOutcome(t, m))

\* The checks of holdLockHandler: both vertices exist, deleteEdge finds the
\* request arc, addEdge finds no such arc, the thread was in the request map.
\* deleteEdge has just returned an arc to the pool, so addEdge gets one.
HoldConsistent(t, m) ==
  /\ t \in vertexThreadMap
  /\ m \in vertexMutexMap
  /\ <<t, m>> \in edges
  /\ <<m, t>> \notin edges
  /\ t \in requestThreadMap

\* Faulty variant: the thread stays in the request map.
holdLockHandlerForgets(t, m) ==
  \/ /\ HoldConsistent(t, m)
     /\ edges' = addEdge(deleteEdge(edges, t, m), m, t)
     /\ UNCHANGED <<vertexThreadMap, vertexMutexMap, requestThreadMap, abort>>
  \/ /\ ~HoldConsistent(t, m)
     /\ Fail("assertion")

holdLockHandler(t, m) ==
  \/ /\ HoldConsistent(t, m)
     /\ edges' = addEdge(deleteEdge(edges, t, m), m, t)
     /\ requestThreadMap' = requestThreadMap \ {t}
     /\ UNCHANGED <<vertexThreadMap, vertexMutexMap, abort>>
  \/ /\ ~HoldConsistent(t, m)
     /\ Fail("assertion")

ReleaseConsistent(t, m) ==
  /\ t \in vertexThreadMap
  /\ m \in vertexMutexMap
  /\ <<m, t>> \in edges

\* Faulty variant: the arc of the released mutex stays.
releaseLockHandlerForgets(t, m) ==
  /\ ReleaseConsistent(t, m)
  /\ UNCHANGED <<graphVars, abort>>

releaseLockHandler(t, m) ==
  \/ /\ ReleaseConsistent(t, m)
     /\ edges' = deleteEdge(edges, m, t)
     /\ UNCHANGED <<vertexThreadMap, vertexMutexMap, requestThreadMap, abort>>
  \/ /\ ~ReleaseConsistent(t, m)
     /\ Fail("assertion")
-----------------------------------------------------------------------------
\* A set of threads that the graph shows waiting for one another: each
\* requests a mutex that a member of the set occupies.  The graph has a cycle
\* if and only if such a set exists.
Knot(D) ==
  /\ D # {}
  /\ \A t \in D : \E m \in Requested(t), u \in D : <<m, u>> \in edges
=============================================================================
