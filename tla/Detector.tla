------------------------------ MODULE Detector ------------------------------
(***************************************************************************)
(* The deadlock check of eventLoop.c and its report (report.c): Tarjan's   *)
(* algorithm on the arc lists of vertex.c, started from every thread that  *)
(* requests a mutex.  The order of the arcs in a list and that of the      *)
(* request map, a hash map (hashMap.c) whose buckets are chains, decide in *)
(* which order components are found.                                       *)
(*                                                                         *)
(* Event handlers and checks run one after the other in the checker        *)
(* thread.  What a check leaves behind is the dfn field of some vertices:  *)
(* clearTarjanStatus resets the threads in the request map and what they   *)
(* request, not everything the search has visited.                         *)
(*                                                                         *)
(* The events of each thread arrive in the order CheckedGraph allows,      *)
(* which is what DlChecker's threads and queues guarantee.  The module is  *)
(* for TLC only: tarjan is recursive.                                      *)
(***************************************************************************)
EXTENDS WatchedProcess, Integers, FiniteSets, Sequences, SequencesExt, Graphs

CONSTANT Capacity     \* the number of buckets

ASSUME BucketAssumption == Capacity \in Nat \ {0}

Bucket == 0 .. Capacity - 1

VARIABLES
  arcList,            \* of every vertex that exists, its successors in order
  hashCode,           \* the bucket of each thread; it never changes
  table,              \* the chains of the request map
  marked,             \* vertices whose dfn is not 0 between two checks
  found               \* components found by the last check, until the next event

graphVars == <<abort, arcList, hashCode, table>>
vars == <<graphVars, marked, found>>

\* hashMapNext, from the first bucket to the last.
Traversal(map) == FlattenSeq([i \in 1..Capacity |-> map[i - 1]])

\* The threads that request a mutex.
requestThreadMap == ToSet(Traversal(table))

Vertex == Thread \cup Mutex

Edges == UNION {{u} \X ToSet(arcList[u]) : u \in DOMAIN arcList}

\* The types, the shape of the arc lists (no arc twice, a thread requests one
\* mutex at most), the shape of the chains (no thread twice, each in its bucket),
\* and that the request map and the arcs of the threads agree.
TypeOK ==
  /\ abort \in AbortReason
  /\ DOMAIN arcList \subseteq Vertex
  /\ \A v \in DOMAIN arcList :
       /\ ToSet(arcList[v]) \subseteq DOMAIN arcList
       /\ IsInjective(arcList[v])
       /\ v \in Thread => ToSet(arcList[v]) \subseteq Mutex /\ Len(arcList[v]) <= 1
       /\ v \in Mutex => ToSet(arcList[v]) \subseteq Thread
  /\ hashCode \in [Thread -> Bucket]
  /\ DOMAIN table = Bucket
  /\ IsInjective(Traversal(table))
  /\ \A i \in Bucket : \A t \in ToSet(table[i]) : hashCode[t] = i
  /\ requestThreadMap = {t \in Thread \cap DOMAIN arcList : arcList[t] # <<>>}
  /\ marked \subseteq Thread \cap DOMAIN arcList
  /\ found \subseteq SUBSET DOMAIN arcList

Init ==
  /\ abort = "none"
  /\ arcList = <<>>
  /\ hashCode \in [Thread -> Bucket]
  /\ table = [i \in Bucket |-> <<>>]
  /\ marked = {}
  /\ found = {}
-----------------------------------------------------------------------------
(* addEdge puts a new arc in front; deleteEdge takes out the first arc whose *)
(* tail is v, and asserts that there is one.                                 *)

\* Faulty variant: the first arc is taken out, whatever its tail.
deleteEdgeFirst(arcs, u, v) == [arcs EXCEPT ![u] = Tail(@)]

addEdge(arcs, u, v)    == [arcs EXCEPT ![u] = Cons(v, @)]
deleteEdge(arcs, u, v) == [arcs EXCEPT ![u] = RemoveFirst(@, v)]

HasArc(arcs, u, v) == u \in DOMAIN arcs /\ v \in ToSet(arcs[u])

\* vertexCreate for the vertices that do not exist yet.
WithVertices(t, m) ==
  [v \in DOMAIN arcList \cup {t, m} |-> IF v \in DOMAIN arcList THEN arcList[v] ELSE <<>>]

\* Faulty variant: the chain goes on behind the entry, also if it had begun
\* before it.
hashMapRemoveFront(map, t) ==
  [map EXCEPT ![hashCode[t]] =
     IF Contains(@, t) THEN SubSeq(@, SelectInSeq(@, LAMBDA u : u = t) + 1, Len(@)) ELSE @]

\* A new entry becomes the first of its chain; an entry is unlinked wherever it
\* is in the chain.
hashMapPut(map, t)    == [map EXCEPT ![hashCode[t]] = Cons(t, @)]
hashMapRemove(map, t) == [map EXCEPT ![hashCode[t]] = RemoveFirst(@, t)]

\* The asserts of a handler and of addEdge and deleteEdge.
Consistent(condition) == abort' = IF condition THEN "none" ELSE "assertion"

waitLockHandler(t, m) ==
  /\ Consistent(~HasArc(arcList, t, m) /\ t \notin requestThreadMap)
  /\ arcList' = addEdge(WithVertices(t, m), t, m)
  /\ table' = hashMapPut(table, t)
  /\ UNCHANGED hashCode

holdLockHandler(t, m) ==
  /\ Consistent(HasArc(arcList, t, m) /\ ~HasArc(arcList, m, t) /\ t \in requestThreadMap)
  /\ arcList' = addEdge(deleteEdge(arcList, t, m), m, t)
  /\ table' = hashMapRemove(table, t)
  /\ UNCHANGED hashCode

releaseLockHandler(t, m) ==
  /\ Consistent(HasArc(arcList, m, t))
  /\ arcList' = deleteEdge(arcList, m, t)
  /\ UNCHANGED <<hashCode, table>>

Handle(t, m) ==
  /\ Running
  /\ \/ t \notin requestThreadMap /\ waitLockHandler(t, m)
     \/ HasArc(arcList, t, m) /\ ~HasArc(arcList, m, t) /\ holdLockHandler(t, m)
     \/ t \notin requestThreadMap /\ HasArc(arcList, m, t) /\ releaseLockHandler(t, m)
  /\ found' = {}
  /\ UNCHANGED marked
-----------------------------------------------------------------------------
(* The search.  Its state: the last dfn given out, dfn and low of every      *)
(* vertex, the stack, and the components found so far, the members of each   *)
(* in the order they were popped.                                            *)

\* A vertex that an earlier check left marked has some dfn other than 0.
SearchInit ==
  [ time  |-> 0,
    dfn   |-> [v \in DOMAIN arcList |-> IF v \in marked THEN 1 ELSE 0],
    low   |-> [v \in DOMAIN arcList |-> 0],
    stack |-> <<>>,
    sscs  |-> <<>> ]

Push(u, s) ==
  [ s EXCEPT !.time   = @ + 1,
             !.dfn[u] = s.time + 1,
             !.low[u] = s.time + 1,
             !.stack  = Append(@, u) ]

Lower(s, u, n) == [s EXCEPT !.low[u] = IF n < @ THEN n ELSE @]

\* Faulty variant: the vertex itself is left on the stack.
PopLeavesRoot(u, s) ==
  IF s.dfn[u] # s.low[u] THEN s
  ELSE LET k == CHOOSE i \in 1..Len(s.stack) : s.stack[i] = u
       IN  [ s EXCEPT !.stack = SubSeq(@, 1, k),
                      !.sscs  = Append(@, Reverse(SubSeq(s.stack, k, Len(s.stack)))) ]

\* A vertex whose low is its own dfn closes a component: everything above it.
Pop(u, s) ==
  IF s.dfn[u] # s.low[u] THEN s
  ELSE LET k == CHOOSE i \in 1..Len(s.stack) : s.stack[i] = u
       IN  [ s EXCEPT !.stack = SubSeq(@, 1, k - 1),
                      !.sscs  = Append(@, Reverse(SubSeq(s.stack, k, Len(s.stack)))) ]

RECURSIVE tarjan(_, _)
tarjan(u, entered) ==
  LET follow(s, v) ==
        IF s.dfn[v] = 0 THEN LET r == tarjan(v, s) IN Lower(r, u, r.low[v])
        ELSE IF v \in ToSet(s.stack) THEN Lower(s, u, s.dfn[v])
        ELSE s
  IN  Pop(u, FoldLeft(follow, Push(u, entered), arcList[u]))

\* strongConnectedComponent up to the report.
Search ==
  LET root(s, t) == IF s.dfn[t] = 0 THEN tarjan(t, s) ELSE s
  IN  FoldLeft(root, SearchInit, Traversal(table))

Nontrivial(sscs) == SelectSeq(sscs, LAMBDA c : Len(c) > 1)

\* if(sscCount[0] > 1) displayInfo: what is found is reported only if the first
\* component is one of several vertices.
Reported(sscs) ==
  IF sscs # <<>> /\ Len(sscs[1]) > 1 THEN Nontrivial(sscs) ELSE <<>>

\* Faulty variant: only the threads of the request map are reset.
clearTarjanStatusRequesters(dfn) ==
  {v \in DOMAIN arcList : dfn[v] # 0} \ requestThreadMap

clearTarjanStatus(dfn) ==
  {v \in DOMAIN arcList : dfn[v] # 0}
    \ (requestThreadMap \cup UNION {ToSet(arcList[t]) : t \in requestThreadMap})

Check ==
  /\ Running
  /\ requestThreadMap # {}
  /\ marked' = clearTarjanStatus(Search.dfn)
  /\ found' = {ToSet(component) : component \in ToSet(Nontrivial(Search.sscs))}
  /\ UNCHANGED graphVars
-----------------------------------------------------------------------------
(* reportDeadLock: from the last thread of the component, as many arcs as    *)
(* the component has vertices, always the first one that stays inside.       *)

Inside(ssc, v) == SelectSeq(arcList[v], LAMBDA w : w \in ToSet(ssc))

\* Faulty variant: one arc too few.
reportDeadLockShort(ssc) ==
  LET start == ssc[SelectLastInSeq(ssc, LAMBDA v : v \in Thread)]
      walk[i \in 0..Len(ssc)] == IF i = 0 THEN start ELSE Inside(ssc, walk[i - 1])[1]
  IN  [i \in 1..(Len(ssc) - 1) |-> <<walk[i - 1], walk[i]>>]

reportDeadLock(ssc) ==
  LET start == ssc[SelectLastInSeq(ssc, LAMBDA v : v \in Thread)]
      walk[i \in 0..Len(ssc)] == IF i = 0 THEN start ELSE Inside(ssc, walk[i - 1])[1]
  IN  [i \in 1..Len(ssc) |-> <<walk[i - 1], walk[i]>>]
-----------------------------------------------------------------------------
Next == (\E t \in Thread, m \in Mutex : Handle(t, m)) \/ Check

Spec == Init /\ [][Next]_vars
-----------------------------------------------------------------------------
\* The strongly connected components of more than one vertex of the graph that
\* is left when the vertices of X are taken out.
Components(X) ==
  LET N == DOMAIN arcList \ X
      path == ConnectionsIn([node |-> N, edge |-> Edges \cap (N \X N)])
  IN  {C \in {{w \in N : path[v, w] /\ path[w, v]} : v \in N} : Cardinality(C) > 1}

\* Whatever the order of the request map and of the arcs, tarjan finds every component
\* of the graph without the vertices that an earlier check left marked, each of
\* them once, and nothing else: a leftover mark can hide a cycle that runs
\* through its vertex, but it can neither hide another cycle nor make one up.
SearchIsExact ==
  LET sscs == Nontrivial(Search.sscs)
  IN  /\ {ToSet(sscs[i]) : i \in DOMAIN sscs} = Components(marked)
      /\ \A i, j \in DOMAIN sscs : ToSet(sscs[i]) = ToSet(sscs[j]) => i = j
      /\ \A i \in DOMAIN sscs : IsInjective(sscs[i])

\* clearTarjanStatus does not reset all that the search has visited, but it
\* does reset every vertex of a cycle: a cycle that a check has missed because
\* of a leftover mark is free of marks when the next check comes.
CycleIsMissedOnce ==
  clearTarjanStatus(Search.dfn) \cap UNION Components({}) = {}

\* The report follows arcs inside the component, comes back to a vertex where it
\* has been, and so shows a cycle.  In a component with a mutex of two owners, one
\* of them outdated, it need not show all of it; in every other it names each
\* vertex once and ends where it began: it is the cycle.
ReportIsTheCycle ==
  \A ssc \in ToSet(Nontrivial(Search.sscs)) :
    LET report == reportDeadLock(ssc)
        Simple == \A v \in ToSet(ssc) : Len(Inside(ssc, v)) = 1
    IN  /\ ToSet(report) \subseteq Edges \cap (ToSet(ssc) \X ToSet(ssc))
        /\ \E i, j \in DOMAIN report : i <= j /\ report[i][1] = report[j][2]
        /\ Simple => /\ {report[i][1] : i \in DOMAIN report} = ToSet(ssc)
                     /\ Last(report)[2] = report[1][1]

Protocol == INSTANCE CheckedGraph WITH
  edges            <- Edges,
  vertexThreadMap  <- Thread \cap DOMAIN arcList,
  vertexMutexMap   <- Mutex \cap DOMAIN arcList,
  MaxThreadVertex  <- Cardinality(Thread),
  MaxMutexVertex   <- Cardinality(Mutex),
  MaxArc           <- 2 * Cardinality(Thread) * Cardinality(Mutex)

\* The arc lists and chains, with their insertions in front and deletions by
\* search, show the arcs and requests that CheckedGraph speaks of, no assertion fails, and each
\* check finds the components and leaves the marks that it may, whatever the
\* order of the arcs and of the requesting threads.
FollowsProtocol == Protocol!CheckedSpec

\* README 2.4: if there is a cycle, a report is printed.  (strongConnected-
\* Component looks at the size of the first component only.)
CycleIsReported ==
  Nontrivial(Search.sscs) # <<>> => Reported(Search.sscs) # <<>>
=============================================================================
