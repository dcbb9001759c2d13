-------------------------- MODULE EventGraphProofs --------------------------
(***************************************************************************)
(* Facts about the operators of EventGraph, on which the proofs about its  *)
(* users rest: what appending an event to a queue and taking one from it   *)
(* does to Leads, and what a handler does to the arcs of each thread.      *)
(***************************************************************************)
EXTENDS EventGraph, TLAPS

(***************************************************************************)
(* The effect of one event on what the graph shows of its thread.          *)
(***************************************************************************)
NextRequested(ev) == {m \in Mutex : ev = wait(m)}

NextOccupied(o, ev) ==
  {m \in Mutex : (m \in o /\ ev # release(m)) \/ ev = hold(m)}

(***************************************************************************)
(* An event appended to a queue takes effect after all the others.         *)
(***************************************************************************)
LEMMA AfterAppend ==
  ASSUME NEW r, NEW o, NEW q \in Seq(Event), NEW ev \in Event
  PROVE  /\ \A i \in 0..Len(q) :
              /\ RequestedAfter(r, Append(q, ev), i) = RequestedAfter(r, q, i)
              /\ OccupiedAfter(o, Append(q, ev), i) = OccupiedAfter(o, q, i)
         /\ RequestedAfter(r, Append(q, ev), Len(q) + 1) = NextRequested(ev)
         /\ OccupiedAfter(o, Append(q, ev), Len(q) + 1)
              = NextOccupied(OccupiedAfter(o, q, Len(q)), ev)
<1> DEFINE p == Append(q, ev)
<1>1. Len(q) \in Nat /\ Len(p) = Len(q) + 1 /\ p[Len(q) + 1] = ev
  OBVIOUS
<1>2. \A i \in 1..Len(q) : p[i] = q[i]
  OBVIOUS
<1> HIDE DEF p
<1>3. \A i \in 0..Len(q) : RequestedAfter(r, p, i) = RequestedAfter(r, q, i)
  <2> TAKE i \in 0..Len(q)
  <2>1. i # 0 => p[i] = q[i]
    BY <1>1, <1>2
  <2> QED
    BY <2>1 DEF RequestedAfter
<1>4. \A i \in 0..Len(q) : OccupiedAfter(o, p, i) = OccupiedAfter(o, q, i)
  <2> TAKE i \in 0..Len(q)
  <2>1. \A j \in 1..i : p[j] = q[j]
    BY <1>1, <1>2
  <2>2. \A j \in 1..i : \A k \in (j+1)..i : p[k] = q[k]
    BY <1>1, <1>2
  <2> QED
    BY <2>1, <2>2, <1>1 DEF OccupiedAfter
<1>5. RequestedAfter(r, p, Len(q) + 1) = NextRequested(ev)
  BY <1>1 DEF RequestedAfter, NextRequested
<1>6. OccupiedAfter(o, p, Len(q) + 1) = NextOccupied(OccupiedAfter(o, q, Len(q)), ev)
  <2> DEFINE n == Len(q)
  <2> SUFFICES ASSUME NEW m \in Mutex
               PROVE  m \in OccupiedAfter(o, p, n + 1)
                        <=> m \in NextOccupied(OccupiedAfter(o, q, n), ev)
    BY DEF OccupiedAfter, NextOccupied
  <2>1. (\A k \in 1..(n+1) : p[k] # release(m))
          <=> (\A k \in 1..n : q[k] # release(m)) /\ ev # release(m)
    BY <1>1, <1>2
  <2>2. ASSUME NEW j \in 1..n
        PROVE  (\A k \in (j+1)..(n+1) : p[k] # release(m))
                 <=> (\A k \in (j+1)..n : q[k] # release(m)) /\ ev # release(m)
    BY <1>1, <1>2
  <2>3. (\E j \in 1..(n+1) : p[j] = hold(m) /\ \A k \in (j+1)..(n+1) : p[k] # release(m))
          <=> \/ ev = hold(m)
              \/ /\ ev # release(m)
                 /\ \E j \in 1..n : q[j] = hold(m) /\ \A k \in (j+1)..n : q[k] # release(m)
    BY <1>1, <1>2, <2>2
  <2> QED
    BY <2>1, <2>3 DEF OccupiedAfter, NextOccupied
<1> QED
  BY <1>3, <1>4, <1>5, <1>6 DEF p

(***************************************************************************)
(* Taking the first event off a queue and applying it to what the graph    *)
(* shows leaves what the graph will show after the other events.           *)
(***************************************************************************)
LEMMA AfterTail ==
  ASSUME NEW r, NEW o, NEW q \in Seq(Event), q # <<>>
  PROVE  /\ \A i \in 0..Len(Tail(q)) :
              /\ RequestedAfter(NextRequested(Head(q)), Tail(q), i)
                   = RequestedAfter(r, q, i + 1)
              /\ OccupiedAfter(NextOccupied(o, Head(q)), Tail(q), i)
                   = OccupiedAfter(o, q, i + 1)
<1> DEFINE p == Tail(q)
           n == Len(p)
<1>1. n \in Nat /\ Len(q) = n + 1 /\ q[1] = Head(q)
  OBVIOUS
<1>2. \A i \in 1..n : p[i] = q[i + 1]
  OBVIOUS
<1> HIDE DEF p, n
<1> SUFFICES ASSUME NEW i \in 0..n
             PROVE  /\ RequestedAfter(NextRequested(Head(q)), p, i)
                         = RequestedAfter(r, q, i + 1)
                    /\ OccupiedAfter(NextOccupied(o, Head(q)), p, i)
                         = OccupiedAfter(o, q, i + 1)
  BY DEF p, n
<1>3. RequestedAfter(NextRequested(Head(q)), p, i) = RequestedAfter(r, q, i + 1)
  <2>1. i + 1 # 0 /\ i + 1 \in 1..Len(q)
    BY <1>1
  <2>2. CASE i = 0
    <3>1. q[i + 1] = Head(q)
      BY <2>2, <1>1
    <3> QED
      BY <2>1, <2>2, <3>1 DEF RequestedAfter, NextRequested
  <2>3. CASE i # 0
    <3>1. p[i] = q[i + 1]
      BY <2>3, <1>1, <1>2
    <3> QED
      BY <2>1, <2>3, <3>1 DEF RequestedAfter
  <2> QED
    BY <2>2, <2>3
<1>4. OccupiedAfter(NextOccupied(o, Head(q)), p, i) = OccupiedAfter(o, q, i + 1)
  <2> SUFFICES ASSUME NEW m \in Mutex
               PROVE  m \in OccupiedAfter(NextOccupied(o, Head(q)), p, i)
                        <=> m \in OccupiedAfter(o, q, i + 1)
    BY DEF OccupiedAfter
  <2> DEFINE Kept(j) == \A k \in (j+1)..i : p[k] # release(m)
  <2>1. \A j \in 0..i : Kept(j) <=> \A k \in (j+2)..(i+1) : q[k] # release(m)
    <3> SUFFICES ASSUME NEW j \in 0..i
                 PROVE  Kept(j) <=> \A k \in (j+2)..(i+1) : q[k] # release(m)
      OBVIOUS
    <3>1. ASSUME Kept(j), NEW k \in (j+2)..(i+1) PROVE q[k] # release(m)
      <4>1. k - 1 \in (j+1)..i /\ k - 1 \in 1..n /\ (k - 1) + 1 = k
        BY <1>1
      <4> QED
        BY <4>1, <3>1, <1>2
    <3>2. ASSUME \A k \in (j+2)..(i+1) : q[k] # release(m), NEW k \in (j+1)..i
          PROVE  p[k] # release(m)
      <4>1. k + 1 \in (j+2)..(i+1) /\ k \in 1..n
        BY <1>1
      <4> QED
        BY <4>1, <3>2, <1>2
    <3> QED
      BY <3>1, <3>2
  <2>2. (\A k \in 1..i : p[k] # release(m)) <=> Kept(0)
    OBVIOUS
  <2>4. (\A k \in 2..(i+1) : q[k] # release(m)) <=> Kept(0)
    BY <2>1, SMTT(30)
  <2>3. (\A k \in 1..(i+1) : q[k] # release(m)) <=> Kept(0) /\ Head(q) # release(m)
    <3>1. \A k : k \in 1..(i+1) <=> k = 1 \/ k \in 2..(i+1)
      BY <1>1
    <3> HIDE DEF Kept
    <3> QED
      BY <3>1, <2>4, <1>1
  <2> HIDE DEF Kept
  <2>5. (\E j \in 1..(i+1) : q[j] = hold(m) /\ \A k \in (j+1)..(i+1) : q[k] # release(m))
          <=> \/ Head(q) = hold(m) /\ Kept(0)
              \/ \E j \in 1..i : p[j] = hold(m) /\ Kept(j)
    <3>1. ASSUME NEW j \in 1..(i+1), q[j] = hold(m),
                 \A k \in (j+1)..(i+1) : q[k] # release(m)
          PROVE  \/ Head(q) = hold(m) /\ Kept(0)
                 \/ \E l \in 1..i : p[l] = hold(m) /\ Kept(l)
      <4>1. CASE j = 1
        BY <4>1, <3>1, <2>4, <1>1
      <4>2. CASE j # 1
        <5>1. j - 1 \in 1..i /\ j - 1 \in 1..n /\ (j - 1) + 1 = j /\ (j - 1) + 2 = j + 1
          BY <4>2, <1>1
        <5>2. p[j - 1] = hold(m) /\ Kept(j - 1)
          BY <5>1, <3>1, <2>1, <1>2
        <5> QED
          BY <5>1, <5>2
      <4> QED
        BY <4>1, <4>2
    <3>2. ASSUME NEW j \in 1..i, p[j] = hold(m), Kept(j)
          PROVE  /\ j + 1 \in 1..(i+1)
                 /\ q[j + 1] = hold(m)
                 /\ \A k \in ((j+1)+1)..(i+1) : q[k] # release(m)
      BY <3>2, <2>1, <1>1, <1>2
    <3>3. Head(q) = hold(m) /\ Kept(0)
            => \E j \in 1..(i+1) : q[j] = hold(m) /\ \A k \in (j+1)..(i+1) : q[k] # release(m)
      BY <2>4, <1>1
    <3> QED
      BY <3>1, <3>2, <3>3
  <2> QED
    <3>1. m \in OccupiedAfter(o, q, i + 1)
            <=> \/ m \in o /\ Kept(0) /\ Head(q) # release(m)
                \/ Head(q) = hold(m) /\ Kept(0)
                \/ \E j \in 1..i : p[j] = hold(m) /\ Kept(j)
      BY <2>3, <2>5 DEF OccupiedAfter
    <3>2. m \in OccupiedAfter(NextOccupied(o, Head(q)), p, i)
            <=> \/ m \in NextOccupied(o, Head(q)) /\ Kept(0)
                \/ \E j \in 1..i : p[j] = hold(m) /\ Kept(j)
      BY <2>2 DEF OccupiedAfter, Kept
    <3> QED
      BY <3>1, <3>2 DEF NextOccupied
<1> QED
  BY <1>3, <1>4

LEMMA LeadsAppend ==
  ASSUME NEW r, NEW o, NEW r2, NEW o2, NEW q \in Seq(Event), NEW ev \in Event,
         Leads(r, o, q, r2, o2), Accepts(r2, o2, ev)
  PROVE  Leads(r, o, Append(q, ev), NextRequested(ev), NextOccupied(o2, ev))
<1> DEFINE p == Append(q, ev)
<1>1. Len(q) \in Nat /\ Len(p) = Len(q) + 1 /\ p[Len(q) + 1] = ev
  OBVIOUS
<1>2. \A i \in 1..Len(q) : p[i] = q[i]
  OBVIOUS
<1>3. \A i \in 0..Len(q) : /\ RequestedAfter(r, p, i) = RequestedAfter(r, q, i)
                           /\ OccupiedAfter(o, p, i) = OccupiedAfter(o, q, i)
  BY AfterAppend
<1>4. /\ RequestedAfter(r, p, Len(p)) = NextRequested(ev)
      /\ OccupiedAfter(o, p, Len(p)) = NextOccupied(o2, ev)
  BY <1>1, AfterAppend DEF Leads
<1> HIDE DEF p
<1>5. ASSUME NEW i \in 1..Len(p)
      PROVE  Accepts(RequestedAfter(r, p, i-1), OccupiedAfter(o, p, i-1), p[i])
  <2>1. CASE i = Len(q) + 1
    <3>1. i - 1 = Len(q) /\ Len(q) \in 0..Len(q)
      BY <2>1, <1>1
    <3> QED
      BY <3>1, <2>1, <1>1, <1>3 DEF Leads
  <2>2. CASE i # Len(q) + 1
    <3>1. i \in 1..Len(q) /\ i - 1 \in 0..Len(q)
      BY <2>2, <1>1
    <3> QED
      BY <3>1, <1>2, <1>3 DEF Leads
  <2> QED
    BY <2>1, <2>2
<1> QED
  BY <1>4, <1>5 DEF Leads, p

LEMMA LeadsTail ==
  ASSUME NEW r, NEW o, NEW r2, NEW o2, NEW q \in Seq(Event), q # <<>>,
         o \subseteq Mutex, Leads(r, o, q, r2, o2)
  PROVE  /\ Accepts(r, o, Head(q))
         /\ Leads(NextRequested(Head(q)), NextOccupied(o, Head(q)), Tail(q), r2, o2)
<1> DEFINE p == Tail(q)
<1>1. Len(p) \in Nat /\ Len(q) = Len(p) + 1 /\ q[1] = Head(q)
  OBVIOUS
<1>2. \A i \in 1..Len(p) : p[i] = q[i + 1]
  OBVIOUS
<1>3. \A i \in 0..Len(p) :
        /\ RequestedAfter(NextRequested(Head(q)), p, i) = RequestedAfter(r, q, i + 1)
        /\ OccupiedAfter(NextOccupied(o, Head(q)), p, i) = OccupiedAfter(o, q, i + 1)
  BY AfterTail
<1> HIDE DEF p
<1>4. Accepts(r, o, Head(q))
  <2>1. 1 \in 1..Len(q) /\ 1 - 1 = 0
    BY <1>1
  <2>2. RequestedAfter(r, q, 0) = r
    BY DEF RequestedAfter
  <2>3. OccupiedAfter(o, q, 0) = o
    BY DEF OccupiedAfter
  <2> QED
    BY <2>1, <2>2, <2>3, <1>1 DEF Leads
<1>5. ASSUME NEW i \in 1..Len(p)
      PROVE  Accepts(RequestedAfter(NextRequested(Head(q)), p, i-1),
                     OccupiedAfter(NextOccupied(o, Head(q)), p, i-1), p[i])
  <2>1. i + 1 \in 1..Len(q) /\ (i + 1) - 1 = i /\ i - 1 \in 0..Len(p) /\ (i - 1) + 1 = i
    BY <1>1
  <2>2. Accepts(RequestedAfter(r, q, i), OccupiedAfter(o, q, i), q[i + 1])
    BY <2>1 DEF Leads
  <2> QED
    BY <2>1, <2>2, <1>2, <1>3
<1>6. /\ RequestedAfter(NextRequested(Head(q)), p, Len(p)) = r2
      /\ OccupiedAfter(NextOccupied(o, Head(q)), p, Len(p)) = o2
  <2>1. Len(p) \in 0..Len(p)
    BY <1>1
  <2> QED
    BY <2>1, <1>1, <1>3 DEF Leads
<1> QED
  BY <1>4, <1>5, <1>6 DEF Leads, p

\* With no event queued the graph shows what it will show.
LEMMA LeadsNothing ==
  ASSUME NEW r, NEW o, NEW r2, NEW o2, o \subseteq Mutex, Leads(r, o, <<>>, r2, o2)
  PROVE  r = r2 /\ o = o2
<1> DEFINE q == << >>
<1>1. Len(q) = 0
  OBVIOUS
<1> HIDE DEF q
<1>2. RequestedAfter(r, q, Len(q)) = r
  BY <1>1 DEF RequestedAfter
<1>3. OccupiedAfter(o, q, Len(q)) = o
  BY <1>1 DEF OccupiedAfter
<1>4. Leads(r, o, q, r2, o2)
  BY DEF q
<1> QED
  BY <1>2, <1>3, <1>4 DEF Leads
-----------------------------------------------------------------------------
(***************************************************************************)
(* The handlers.  What a thread's events may rely on: the request map and  *)
(* the vertex maps agree with the arcs of the thread.                      *)
(***************************************************************************)
ThreadConsistent(t) ==
  /\ (t \in requestThreadMap) <=> (Requested(t) # {})
  /\ \A m \in Mutex : <<t, m>> \in edges \/ <<m, t>> \in edges
                        => t \in vertexThreadMap /\ m \in vertexMutexMap

LEMMA EventTypes ==
  \A m \in Mutex : wait(m) \in Event /\ hold(m) \in Event /\ release(m) \in Event
  BY DEF wait, hold, release, Event, EventType

\* The arcs of a thread, once the arcs of the graph are known.
LEMMA SameArcs ==
  ASSUME NEW t \in Thread, UNCHANGED edges
  PROVE  Requested(t)' = Requested(t) /\ Occupied(t)' = Occupied(t)
  BY DEF Requested, Occupied

LEMMA SameThread ==
  ASSUME NEW t \in Thread, UNCHANGED graphVars, ThreadConsistent(t)
  PROVE  ThreadConsistent(t)'
  BY DEF ThreadConsistent, graphVars, Requested

LEMMA HandlerType ==
  ASSUME abort \in AbortReason, GraphTypeOK,
         NEW t \in Thread, NEW ev \in Event, eventHandler(t, ev)
  PROVE  abort' \in AbortReason /\ GraphTypeOK'
<1> USE DEF GraphTypeOK, Fail, graphVars, AbortReason, addEdge, deleteEdge
<1>1. ev.mutex \in Mutex
  BY DEF Event
<1>2. CASE waitLockHandler(t, ev.mutex)
  BY <1>1, <1>2 DEF waitLockHandler, WaitOutcome
<1>3. CASE holdLockHandler(t, ev.mutex)
  BY <1>1, <1>3 DEF holdLockHandler
<1>4. CASE releaseLockHandler(t, ev.mutex)
  BY <1>1, <1>4 DEF releaseLockHandler
<1> QED
  BY <1>2, <1>3, <1>4 DEF eventHandler

\* No event of another thread, accepted or not, touches the arcs of a thread.
LEMMA OtherHandler ==
  ASSUME NEW t \in Thread, NEW ev \in Event, eventHandler(t, ev),
         NEW u \in Thread \ {t}
  PROVE  /\ Requested(u)' = Requested(u)
         /\ Occupied(u)' = Occupied(u)
         /\ ThreadConsistent(u) => ThreadConsistent(u)'
<1> DEFINE m == ev.mutex
<1>1. m \in Mutex /\ (\A n \in Mutex : n # t /\ n # u) /\ u # t
  BY ProcessAssumption DEF Event
<1>2. /\ \A n \in Mutex : /\ <<u, n>> \in edges' <=> <<u, n>> \in edges
                          /\ <<n, u>> \in edges' <=> <<n, u>> \in edges
      /\ u \in requestThreadMap' <=> u \in requestThreadMap
      /\ vertexThreadMap \subseteq vertexThreadMap'
      /\ vertexMutexMap \subseteq vertexMutexMap'
  <2> HIDE DEF m
  <2>1. CASE waitLockHandler(t, m)
    <3> HIDE <1>1
    <3>1. CASE Fail(WaitOutcome(t, m))
      BY <3>1 DEF Fail, graphVars
    <3>2. CASE /\ vertexThreadMap' = vertexThreadMap \cup {t}
               /\ vertexMutexMap' = vertexMutexMap \cup {m}
               /\ edges' = edges \cup {<<t, m>>}
               /\ requestThreadMap' = requestThreadMap \cup {t}
      BY <3>2, <1>1
    <3> QED
      BY <2>1, <3>1, <3>2 DEF waitLockHandler, addEdge
  <2>2. CASE holdLockHandler(t, m)
    BY <2>2, <1>1 DEF holdLockHandler, Fail, graphVars, addEdge, deleteEdge
  <2>3. CASE releaseLockHandler(t, m)
    BY <2>3, <1>1 DEF releaseLockHandler, Fail, graphVars, deleteEdge
  <2> QED
    BY <2>1, <2>2, <2>3 DEF eventHandler, m
<1>3. Requested(u)' = Requested(u) /\ Occupied(u)' = Occupied(u)
  BY <1>2 DEF Requested, Occupied
<1> QED
  BY <1>2, <1>3 DEF ThreadConsistent
\* What a handler does to the arcs of the thread that its event comes from,
\* when what the graph shows of that thread accepts the event.
LEMMA AcceptedHandler ==
  ASSUME Running, NEW t \in Thread, ThreadConsistent(t), NEW ev \in Event,
         Accepts(Requested(t), Occupied(t), ev), eventHandler(t, ev)
  PROVE  /\ abort' # "assertion"
         /\ Running' => /\ ThreadConsistent(t)'
                        /\ Requested(t)' = NextRequested(ev)
                        /\ Occupied(t)' = NextOccupied(Occupied(t), ev)
<1> DEFINE m == ev.mutex
<1>1. m \in Mutex /\ ev = [type |-> ev.type, mutex |-> m] /\ \A n \in Mutex : n # t
  BY ProcessAssumption DEF Event
<1>2. CASE ev.type = "wait"
  <2>1. waitLockHandler(t, m) /\ Requested(t) = {} /\ ev = wait(m)
    BY <1>1, <1>2 DEF Accepts, eventHandler, wait
  <2>2. <<t, m>> \notin edges /\ t \notin requestThreadMap
    BY <1>1, <2>1 DEF Requested, ThreadConsistent
  <2>3. WaitOutcome(t, m) # "assertion"
    BY <2>2 DEF WaitOutcome
  <2>4. abort' # "assertion"
    BY <2>1, <2>3 DEF waitLockHandler, Fail, Running
  <2>5. ASSUME Running'
        PROVE  /\ edges' = edges \cup {<<t, m>>}
               /\ requestThreadMap' = requestThreadMap \cup {t}
               /\ vertexThreadMap' = vertexThreadMap \cup {t}
               /\ vertexMutexMap' = vertexMutexMap \cup {m}
    BY <2>1, <2>5 DEF waitLockHandler, Fail, Running, addEdge
  <2>6. ASSUME Running'
        PROVE  Requested(t)' = Requested(t) \cup {m} /\ Occupied(t)' = Occupied(t)
    BY <1>1, <2>5, <2>6 DEF Requested, Occupied
  <2>7. NextRequested(ev) = {m} /\ NextOccupied(Occupied(t), ev) = Occupied(t)
    BY <1>1, <2>1 DEF NextRequested, NextOccupied, Occupied, wait, hold, release
  <2>8. Running' => ThreadConsistent(t)'
    BY <1>1, <2>5, <2>6 DEF ThreadConsistent
  <2> QED
    BY <2>1, <2>4, <2>6, <2>7, <2>8
<1>3. CASE ev.type = "hold"
  <2>1. holdLockHandler(t, m) /\ Requested(t) = {m} /\ m \notin Occupied(t) /\ ev = hold(m)
    BY <1>1, <1>3 DEF Accepts, eventHandler, hold
  <2>2. HoldConsistent(t, m)
    BY <1>1, <2>1 DEF HoldConsistent, Requested, Occupied, ThreadConsistent
  <2>3. /\ edges' = (edges \ {<<t, m>>}) \cup {<<m, t>>}
        /\ requestThreadMap' = requestThreadMap \ {t}
        /\ UNCHANGED <<vertexThreadMap, vertexMutexMap, abort>>
    BY <2>1, <2>2 DEF holdLockHandler, addEdge, deleteEdge
  <2>4. Requested(t)' = {} /\ Occupied(t)' = Occupied(t) \cup {m}
    <3>1. \A n \in Mutex : <<t, n>> \in edges' <=> <<t, n>> \in edges /\ n # m
      BY <1>1, <2>3
    <3>2. \A n \in Mutex : <<n, t>> \in edges' <=> <<n, t>> \in edges \/ n = m
      BY <1>1, <2>3
    <3> QED
      BY <3>1, <3>2, <2>1, <1>1 DEF Requested, Occupied
  <2>5. NextRequested(ev) = {} /\ NextOccupied(Occupied(t), ev) = Occupied(t) \cup {m}
    BY <1>1, <2>1 DEF NextRequested, NextOccupied, Occupied, wait, hold, release
  <2>6. ThreadConsistent(t)'
    <3>1. t \notin requestThreadMap'
      BY <2>3
    <3>2. \A n \in Mutex : <<t, n>> \in edges' \/ <<n, t>> \in edges'
                            => t \in vertexThreadMap' /\ n \in vertexMutexMap'
      BY <2>2, <2>3, <1>1 DEF ThreadConsistent, HoldConsistent
    <3> QED
      BY <2>4, <3>1, <3>2 DEF ThreadConsistent
  <2> QED
    BY <2>3, <2>4, <2>5, <2>6 DEF Running
<1>4. CASE ev.type = "release"
  <2>1. releaseLockHandler(t, m) /\ Requested(t) = {} /\ m \in Occupied(t) /\ ev = release(m)
    BY <1>1, <1>4 DEF Accepts, eventHandler, release
  <2>2. ReleaseConsistent(t, m)
    BY <1>1, <2>1 DEF ReleaseConsistent, Occupied, ThreadConsistent
  <2>3. /\ edges' = edges \ {<<m, t>>}
        /\ UNCHANGED <<vertexThreadMap, vertexMutexMap, requestThreadMap, abort>>
    BY <2>1, <2>2 DEF releaseLockHandler, deleteEdge
  <2>4. Requested(t)' = Requested(t) /\ Occupied(t)' = Occupied(t) \ {m}
    <3>1. \A n \in Mutex : <<t, n>> \in edges' <=> <<t, n>> \in edges
      BY <1>1, <2>3
    <3>2. \A n \in Mutex : <<n, t>> \in edges' <=> <<n, t>> \in edges /\ n # m
      BY <1>1, <2>3
    <3> QED
      BY <3>1, <3>2, <1>1 DEF Requested, Occupied
  <2>5. NextRequested(ev) = {} /\ NextOccupied(Occupied(t), ev) = Occupied(t) \ {m}
    BY <1>1, <2>1 DEF NextRequested, NextOccupied, Occupied, wait, hold, release
  <2>6. ThreadConsistent(t)'
    BY <2>3, <2>4 DEF ThreadConsistent
  <2> QED
    BY <2>1, <2>3, <2>4, <2>5, <2>6 DEF Running
<1> QED
  BY <1>1, <1>2, <1>3, <1>4 DEF Event, EventType

\* An arc of a thread is what it wants or holds in the end, or the event that
\* ends it is still to come.
LEMMA LeadsBacks ==
  ASSUME NEW r, NEW o, NEW q \in Seq(Event), NEW r2, NEW o2, Leads(r, o, q, r2, o2),
         NEW m \in Mutex
  PROVE  /\ m \in r => m \in r2 \/ \E i \in 1..Len(q) : q[i] = hold(m)
         /\ m \in o => m \in o2 \/ \E i \in 1..Len(q) : q[i] = release(m)
<1>1. CASE q = <<>>
  BY <1>1 DEF Leads, RequestedAfter, OccupiedAfter
<1>2. ASSUME m \in r, q # <<>>
      PROVE  \E i \in 1..Len(q) : q[i] = hold(m)
  <2>1. 1 \in 1..Len(q) /\ q[1] \in Event
    BY <1>2
  <2>2. Accepts(r, OccupiedAfter(o, q, 1-1), q[1])
    <3>1. Accepts(RequestedAfter(r, q, 1-1), OccupiedAfter(o, q, 1-1), q[1])
      BY <2>1 DEF Leads
    <3>2. RequestedAfter(r, q, 1-1) = r
      BY DEF RequestedAfter
    <3> QED
      BY <3>1, <3>2
  <2>3. q[1].type = "hold" /\ q[1].mutex = m
    BY <1>2, <2>2 DEF Accepts
  <2>4. q[1] = hold(m)
    BY <2>1, <2>3 DEF Event, hold
  <2> QED
    BY <2>1, <2>4
<1>3. m \in o => m \in o2 \/ \E i \in 1..Len(q) : q[i] = release(m)
  BY DEF Leads, OccupiedAfter
<1> QED
  BY <1>1, <1>2, <1>3

\* An event that the graph is ready for can only fail for lack of space, and only
\* a wait event can.
LEMMA HandlerOutOfSpace ==
  ASSUME Running, NEW t \in Thread, ThreadConsistent(t), NEW ev \in Event,
         Accepts(Requested(t), Occupied(t), ev), eventHandler(t, ev), ~Running'
  PROVE  /\ ev = wait(ev.mutex) /\ ev.mutex \in Mutex
         /\ UNCHANGED graphVars
         /\ abort' = "poolEmpty"
         /\ \/ Cardinality(vertexThreadMap \cup {t}) > MaxThreadVertex
            \/ Cardinality(vertexMutexMap \cup {ev.mutex}) > MaxMutexVertex
            \/ Cardinality(edges) >= MaxArc
<1> DEFINE m == ev.mutex
<1>1. m \in Mutex /\ ev = [type |-> ev.type, mutex |-> m] /\ ev.type \in EventType
  BY DEF Event
<1>2. ev.type # "hold"
  <2> SUFFICES ASSUME ev.type = "hold" PROVE FALSE
    OBVIOUS
  <2>1. holdLockHandler(t, m) /\ Requested(t) = {m} /\ m \notin Occupied(t)
    BY DEF Accepts, eventHandler
  <2>2. HoldConsistent(t, m)
    BY <1>1, <2>1 DEF HoldConsistent, Requested, Occupied, ThreadConsistent
  <2> QED
    BY <2>1, <2>2 DEF holdLockHandler, Running
<1>3. ev.type # "release"
  <2> SUFFICES ASSUME ev.type = "release" PROVE FALSE
    OBVIOUS
  <2>1. releaseLockHandler(t, m) /\ m \in Occupied(t)
    BY DEF Accepts, eventHandler
  <2>2. ReleaseConsistent(t, m)
    BY <1>1, <2>1 DEF ReleaseConsistent, Requested, Occupied, ThreadConsistent
  <2> QED
    BY <2>1, <2>2 DEF releaseLockHandler, Running
<1>4. waitLockHandler(t, m) /\ Requested(t) = {} /\ ev = wait(m)
  BY <1>1, <1>2, <1>3 DEF Accepts, eventHandler, wait, EventType
<1>5. <<t, m>> \notin edges /\ t \notin requestThreadMap
  BY <1>1, <1>4 DEF Requested, ThreadConsistent
<1>6. Fail(WaitOutcome(t, m)) /\ WaitOutcome(t, m) # "none"
  BY <1>4 DEF waitLockHandler, Running
<1> HIDE DEF m
<1>7. /\ WaitOutcome(t, m) = "poolEmpty"
      /\ \/ Cardinality(vertexThreadMap \cup {t}) > MaxThreadVertex
         \/ Cardinality(vertexMutexMap \cup {m}) > MaxMutexVertex
         \/ Cardinality(edges) >= MaxArc
  BY <1>5, <1>6 DEF WaitOutcome
<1> QED
  BY <1>1, <1>4, <1>6, <1>7 DEF Fail, m

\* Vertices are made for what the event names.
LEMMA HandlerVertices ==
  ASSUME NEW t, NEW ev, eventHandler(t, ev)
  PROVE  /\ vertexThreadMap' \subseteq vertexThreadMap \cup {t}
         /\ vertexMutexMap' \subseteq vertexMutexMap \cup {ev.mutex}
  BY DEF eventHandler, waitLockHandler, holdLockHandler, releaseLockHandler, Fail, graphVars
=============================================================================
