-------------------------- MODULE RegistryProofs --------------------------
(***************************************************************************)
(* Theorems about Registry.                                                *)
(***************************************************************************)
EXTENDS Registry, FiniteSetTheorems, TLAPS

(***************************************************************************)
(* The inductive invariant.                                                *)
(***************************************************************************)
\* Between __lock and __unlock; past CountThread, past Lookup, past
\* CountEntry; and with an entry of its own in the table.
Inside  == {"locked", "counted", "existing", "linking", "linked", "sized",
            "keyed", "stored", "updated"}
Early   == {"absent", "starting", "locked"}
Counted == {t \in Thread : pc[t] \notin Early}
Sized   == {t \in Thread : pc[t] \in {"sized", "keyed", "stored", "registered", "ended"}}
Numbered(t) == pc[t] \notin Early \cup {"counted"}
InTable == {"linked", "sized", "keyed", "stored", "registered", "ended"}
Linked(t)   == pc[t] \in InTable
Alive(t)    == pc[t] \notin {"absent", "ended"}

LockInv ==
  /\ \A t \in Thread : pc[t] \in Inside => lock
  /\ \A t, u \in Thread : pc[t] \in Inside /\ pc[u] \in Inside => t = u

\* No two living threads have the same id, nor do two that enter it in the table.
IdInv ==
  /\ \A t \in Thread : pc[t] # "absent" => tid[t] \in Tid
  /\ \A t, u \in Thread : Alive(t) /\ Alive(u) /\ tid[t] = tid[u] => t = u
  /\ \A t, u \in Thread :
       (/\ Linked(t) \/ pc[t] = "linking"
        /\ Linked(u) \/ pc[u] = "linking"
        /\ tid[t] = tid[u]) => t = u

\* The counters are exact, and every thread has taken a value of its own.
NumberInv ==
  /\ count = Cardinality(Counted)
  /\ size = Cardinality(Sized)
  /\ \A t \in Thread : Numbered(t) => threadCount[t] \in 1..count
  /\ \A t, u \in Thread : Numbered(t) /\ pc[u] = "counted" => threadCount[t] # count
  /\ \A t, u \in Thread :
       Numbered(t) /\ Numbered(u) /\ threadCount[t] = threadCount[u] => t = u

\* Each bucket holds the threads that belong there, each of them once; the
\* thread that is about to enter itself still knows the head.
TableInv ==
  /\ \A b \in 0..Capacity - 1 :
       /\ \A i \in 1..Len(table[b]) : Linked(table[b][i]) /\ Bucket(tid[table[b][i]]) = b
       /\ \A i, j \in 1..Len(table[b]) : table[b][i] = table[b][j] => i = j
  /\ \A t \in Thread :
       Linked(t) => \E i \in 1..Len(table[Bucket(tid[t])]) : table[Bucket(tid[t])][i] = t
  /\ \A t \in Thread : pc[t] = "linking" => head[t] = table[Bucket(tid[t])]

EntryInv ==
  \A t \in Thread :
    /\ pc[t] \in {"linked", "sized"} => entry[t].key \notin Tid
    /\ pc[t] \in {"keyed", "stored", "registered", "ended"} => entry[t].key = tid[t]
    /\ pc[t] \in {"stored", "registered", "ended"} => entry[t].value = t \/ TakenOver(t)

\* The key that a thread finds is that of a thread that has ended.
ReuseInv ==
  /\ \A t \in Thread : pc[t] = "existing" =>
       \E u \in Thread : head[t] = <<u>> /\ pc[u] = "ended" /\ tid[u] = tid[t]
  /\ \A t \in Thread : pc[t] \in {"updated", "refused"} =>
       \E u \in Thread : pc[u] = "ended" /\ tid[u] = tid[t]
  /\ abort = "assertion" => \E t \in Thread : pc[t] = "refused"

\* What the pass still owes a visit lies ahead of the iterator.
PassInv ==
  /\ index = Capacity => rest = <<>> /\ lookup = -1
  /\ Running =>
       \A t \in due :
         /\ pc[t] \in {"registered", "ended"}
         /\ \/ t \in served
            \/ TakenOver(t)
            \/ Bucket(tid[t]) > index
            \/ \E i \in 1..Len(rest) : rest[i] = t
            \/ lookup = tid[t]

IInv ==
  /\ TypeOK
  /\ LockInv
  /\ IdInv
  /\ NumberInv
  /\ TableInv
  /\ EntryInv
  /\ ReuseInv
  /\ PassInv

(***************************************************************************)
(* Facts about keys and about steps of one thread.                         *)
(***************************************************************************)
\* Every key has a bucket.
LEMMA BucketType ==
  ASSUME NEW k \in Nat
  PROVE  Bucket(k) \in 0..Capacity - 1
BY RegistryAssumption DEF Bucket

LEMMA KeyType == Key \subseteq Nat /\ Tid \subseteq Nat \ {0} /\ Tid \subseteq Key
<1>1. \A fresh \in FreshEntry : fresh.key \in Nat
  BY RegistryAssumption
<1>2. Tid \subseteq Nat \ {0}
  BY RegistryAssumption
<1>3. {fresh.key : fresh \in FreshEntry} \subseteq Nat
  BY <1>1
<1>4. Tid \subseteq Key
  BY Zenon DEF Key
<1>5. Key \subseteq Nat
  <2> DEFINE F == {fresh.key : fresh \in FreshEntry}
  <2>1. F \subseteq Nat
    BY <1>3
  <2>2. Key = Tid \cup {0} \cup F
    BY DEF Key
  <2> HIDE DEF F
  <2> QED
    BY <1>2, <2>1, <2>2
<1> QED
  BY <1>2, <1>4, <1>5

\* A set of threads that grows by one.
LEMMA CountThreads ==
  ASSUME NEW S \in SUBSET Thread
  PROVE  /\ Cardinality(Thread) \in Nat
         /\ Cardinality(S) \in 0..Cardinality(Thread)
         /\ \A t \in Thread \ S : Cardinality(S \cup {t}) = Cardinality(S) + 1
<1>1. IsFiniteSet(Thread)
  BY RegistryAssumption
<1>2. IsFiniteSet(S) /\ Cardinality(S) <= Cardinality(Thread)
  BY <1>1, FS_Subset
<1>3. Cardinality(S) \in Nat /\ Cardinality(Thread) \in Nat
  BY <1>1, <1>2, FS_CardinalityType
<1>4. \A t \in Thread \ S : Cardinality(S \cup {t}) = Cardinality(S) + 1
  BY <1>2, FS_AddElement
<1> QED
  BY <1>2, <1>3, <1>4

\* A thread that goes on leaves the others where they are; what the checker has
\* seen stays true.
LEMMA WriterStep ==
  ASSUME IInv, NEW t \in Thread, NEW from \in Point, NEW to \in Point,
         Goto(t, from, to), UNCHANGED <<abort, checkerVars>>,
         from \notin {"ended", "refused"},
         from = "registered" => to = "ended",
         from = "updated" => to = "refused",
         tid' \in [Thread -> Tid \cup {0}],
         \A u \in Thread : pc[u] # "absent" => tid'[u] = tid[u]
  PROVE  /\ pc[t] = from /\ pc'[t] = to
         /\ \A u \in Thread \ {t} : pc'[u] = pc[u]
         /\ pc' \in [Thread -> Point]
         /\ Running /\ abort' # "assertion"
         /\ \A u \in Thread : pc[u] # "absent" /\ TakenOver(u) => TakenOver(u)'
         /\ PassInv'
<1>1. /\ pc[t] = from /\ pc'[t] = to
      /\ \A u \in Thread \ {t} : pc'[u] = pc[u]
      /\ pc' \in [Thread -> Point]
      /\ Running /\ abort' # "assertion"
  BY DEF Goto, IInv, TypeOK, Running
<1>2. ASSUME NEW u \in Thread, pc[u] # "absent", TakenOver(u)
      PROVE  TakenOver(u)'
  <2>1. PICK v \in Thread : pc[v] \in {"updated", "refused"} /\ tid[v] = tid[u]
    BY <1>2 DEF TakenOver
  <2>2. pc'[v] \in {"updated", "refused"} /\ tid'[v] = tid[v] /\ tid'[u] = tid[u]
    BY <1>1, <1>2, <2>1
  <2> QED
    BY <2>1, <2>2 DEF TakenOver
<1>3. PassInv'
  <2>1. UNCHANGED <<index, rest, lookup, served, due>>
    BY DEF checkerVars
  <2>2. ASSUME NEW u \in due
        PROVE  /\ pc'[u] \in {"registered", "ended"}
               /\ \/ u \in served
                  \/ TakenOver(u)'
                  \/ Bucket(tid'[u]) > index
                  \/ \E i \in 1..Len(rest) : rest[i] = u
                  \/ lookup = tid'[u]
    <3>1. u \in Thread
      BY DEF IInv, TypeOK
    <3>2. pc[u] \in {"registered", "ended"} /\ tid'[u] = tid[u]
      BY <1>1, <3>1 DEF IInv, PassInv
    <3>3. pc'[u] \in {"registered", "ended"}
      BY <1>1, <3>1, <3>2
    <3> QED
      BY <1>1, <1>2, <3>1, <3>2, <3>3 DEF IInv, PassInv
  <2>3. PassInv
    BY DEF IInv
  <2> QED
    BY <2>1, <2>2, <2>3 DEF PassInv
<1> QED
  BY <1>1, <1>2, <1>3

\* The table stays, and so does what it holds.
LEMMA SameTable ==
  ASSUME IInv, UNCHANGED <<table, head>>,
         \A u \in Thread : /\ Linked(u)' <=> Linked(u)
                           /\ pc'[u] = "linking" => pc[u] = "linking"
                           /\ Linked(u) \/ pc[u] = "linking" => tid'[u] = tid[u]
  PROVE  TableInv'
<1>1. ASSUME NEW b \in 0..Capacity - 1, NEW i \in 1..Len(table[b])
      PROVE  pc'[table[b][i]] \in InTable /\ Bucket(tid'[table[b][i]]) = b
  <2>1. table[b] \in Seq(Thread)
    BY DEF IInv, TypeOK
  <2>2. table[b][i] \in Thread
    BY <2>1
  <2>3. Linked(table[b][i]) /\ Bucket(tid[table[b][i]]) = b
    BY DEF IInv, TableInv
  <2> QED
    BY <2>2, <2>3 DEF Linked
<1>2. ASSUME NEW u \in Thread, Linked(u)'
      PROVE  \E i \in 1..Len(table[Bucket(tid'[u])]) : table[Bucket(tid'[u])][i] = u
  BY <1>2 DEF IInv, TableInv
<1>3. ASSUME NEW u \in Thread, pc'[u] = "linking"
      PROVE  head[u] = table[Bucket(tid'[u])]
  BY <1>3 DEF IInv, TableInv
<1>4. \A b \in 0..Capacity - 1 : \A i, j \in 1..Len(table[b]) :
        table[b][i] = table[b][j] => i = j
  BY DEF IInv, TableInv
<1>5. table' = table /\ head' = head
  OBVIOUS
<1>6. \A b \in 0..Capacity - 1 :
        /\ \A i \in 1..Len(table'[b]) :
             pc'[table'[b][i]] \in InTable /\ Bucket(tid'[table'[b][i]]) = b
        /\ \A i, j \in 1..Len(table'[b]) : table'[b][i] = table'[b][j] => i = j
  BY <1>1, <1>4, <1>5
<1>7. \A u \in Thread :
        Linked(u)' => \E i \in 1..Len(table'[Bucket(tid'[u])]) : table'[Bucket(tid'[u])][i] = u
  BY <1>2, <1>5
<1>8. \A u \in Thread : pc'[u] = "linking" => head'[u] = table'[Bucket(tid'[u])]
  BY <1>3, <1>5
<1> QED
  BY <1>6, <1>7, <1>8 DEF TableInv, Bucket, Linked

\* An entry with the id of a thread belongs to a thread with that id, which has
\* stored it.
LEMMA MatchKey ==
  ASSUME IInv, NEW k \in Tid, NEW i \in Matches(k)
  PROVE  LET u == table[Bucket(k)][i]
         IN  /\ u \in Thread /\ tid[u] = k
             /\ pc[u] \in {"keyed", "stored", "registered", "ended"}
<1> DEFINE b == Bucket(k)
           u == table[b][i]
<1>1. b \in 0..Capacity - 1
  BY KeyType, BucketType
<1>2. table[b] \in Seq(Thread)
  BY <1>1 DEF IInv, TypeOK
<1>3. i \in 1..Len(table[b]) /\ entry[u].key = k
  BY <1>2 DEF Matches
<1>4. u \in Thread /\ Linked(u)
  BY <1>1, <1>2, <1>3 DEF IInv, TableInv
<1>5. pc[u] \in {"keyed", "stored", "registered", "ended"}
  BY <1>3, <1>4 DEF IInv, EntryInv, Linked, InTable
<1>6. tid[u] = k
  BY <1>3, <1>4, <1>5 DEF IInv, EntryInv
<1> QED
  BY <1>4, <1>5, <1>6

\* The lookup of a stored id finds the thread, and no other.
LEMMA KeyFound ==
  ASSUME IInv, NEW u \in Thread, pc[u] \in {"keyed", "stored", "registered", "ended"}
  PROVE  Matches(tid[u]) # {} /\ hashMapFind(tid[u]) = u
<1> DEFINE k == tid[u]
           b == Bucket(k)
<1>1. k \in Tid /\ Linked(u)
  BY DEF IInv, IdInv, Linked, InTable
<1>2. b \in 0..Capacity - 1
  BY <1>1, KeyType, BucketType
<1>3. table[b] \in Seq(Thread)
  BY <1>2 DEF IInv, TypeOK
<1>4. PICK i \in 1..Len(table[b]) : table[b][i] = u
  BY <1>1 DEF IInv, TableInv
<1>5. entry[u].key = k
  BY DEF IInv, EntryInv
<1>6. i \in Matches(k)
  BY <1>3, <1>4, <1>5 DEF Matches
<1>7. ASSUME NEW j \in Matches(k)
      PROVE  j = i
  <2>1. /\ table[b][j] \in Thread /\ tid[table[b][j]] = k
        /\ pc[table[b][j]] \in {"keyed", "stored", "registered", "ended"}
    BY <1>1, <1>7, MatchKey
  <2>2. table[b][j] = u
    BY <2>1, <1>1 DEF IInv, IdInv, Linked, InTable
  <2>3. j \in 1..Len(table[b])
    BY <1>3 DEF Matches
  <2> QED
    BY <1>2, <1>4, <2>2, <2>3 DEF IInv, TableInv
<1>8. Matches(k) = {i} /\ i <= i
  <2>1. i <= i
    BY <1>4
  <2> QED
    BY <1>6, <1>7, <2>1, Zenon
<1>9. (CHOOSE m \in Matches(k) : \A j \in Matches(k) : m <= j) = i
  BY <1>8
<1> QED
  BY <1>4, <1>6, <1>9 DEF hashMapFind

\* What the lookup of an id finds, it finds rightly.
LEMMA FoundKey ==
  ASSUME IInv, NEW k \in Tid, Matches(k) # {}
  PROVE  /\ hashMapFind(k) \in Thread /\ tid[hashMapFind(k)] = k
         /\ pc[hashMapFind(k)] \in {"keyed", "stored", "registered", "ended"}
<1>1. PICK i \in Matches(k) : TRUE
  OBVIOUS
<1>2. PICK u \in Thread : tid[u] = k /\ pc[u] \in {"keyed", "stored", "registered", "ended"}
  BY MatchKey
<1> QED
  BY <1>2, KeyFound

(***************************************************************************)
(* The steps of a thread.                                                  *)
(***************************************************************************)
\* The kernel gives a thread an id that no living thread has.
LEMMA StartIInv ==
  ASSUME IInv, NEW t \in Thread, Start(t)
  PROVE  IInv'
<1>1. PICK i \in Tid :
      /\ UNCHANGED <<abort, lock, count, threadCount, head, table, entry, size, checkerVars>>
      /\ Goto(t, "absent", "starting")
      /\ tid' = [tid EXCEPT ![t] = i]
      /\ \A u \in Thread : Alive(u) => tid[u] # i
  BY DEF Start, Alive
<1>id. tid' \in [Thread -> Tid \cup {0}] /\ pc[t] = "absent"
       /\ \A u \in Thread \ {t} : tid'[u] = tid[u]
  BY <1>1 DEF IInv, TypeOK, Goto
<1>2. /\ pc[t] = "absent" /\ pc'[t] = "starting"
      /\ \A u \in Thread \ {t} : pc'[u] = pc[u]
      /\ pc' \in [Thread -> Point]
      /\ Running /\ abort' # "assertion"
      /\ \A u \in Thread : pc[u] # "absent" /\ TakenOver(u) => TakenOver(u)'
      /\ PassInv'
  BY <1>1, WriterStep, <1>id DEF Point, IInv, TypeOK
<1>3. tid' \in [Thread -> Tid \cup {0}] /\ tid'[t] = i
      /\ \A u \in Thread \ {t} : tid'[u] = tid[u]
  BY <1>1 DEF IInv, TypeOK
<1>4. Counted' = Counted /\ Sized' = Sized
  BY <1>1, <1>2 DEF Counted, Sized, Early
<1>5. TypeOK'
  BY <1>1, <1>2, <1>3, <1>4 DEF IInv, TypeOK, checkerVars
<1>6. LockInv'
  BY <1>1, <1>2, <1>3, <1>4 DEF IInv, LockInv, Inside
<1>7. IdInv'
  BY <1>1, <1>2, <1>3, <1>4 DEF IInv, IdInv, Alive, Linked, InTable
<1>8. NumberInv'
  BY <1>1, <1>2, <1>3, <1>4 DEF IInv, NumberInv, Numbered, Early
<1>9. TableInv'
  BY <1>1, <1>2, <1>3, <1>4, SameTable DEF Linked, InTable
<1>10. EntryInv'
  BY <1>1, <1>2, <1>3, <1>4 DEF IInv, EntryInv
<1>11. ReuseInv'
  BY <1>1, <1>2, <1>3, <1>4 DEF IInv, ReuseInv
<1>12. PassInv'
  BY <1>2
<1> QED
  BY <1>5, <1>6, <1>7, <1>8, <1>9, <1>10, <1>11, <1>12 DEF IInv

\* The spin lock admits one thread.
LEMMA LockIInv ==
  ASSUME IInv, NEW t \in Thread, __lock(t)
  PROVE  IInv'
<1>1. /\ UNCHANGED <<abort, tid, count, threadCount, head, table, entry, size, checkerVars>>
      /\ Goto(t, "starting", "locked")
      /\ lock = FALSE /\ lock' = TRUE
  BY DEF __lock
<1>2. /\ pc[t] = "starting" /\ pc'[t] = "locked"
      /\ \A u \in Thread \ {t} : pc'[u] = pc[u]
      /\ pc' \in [Thread -> Point]
      /\ Running /\ abort' # "assertion"
      /\ \A u \in Thread : pc[u] # "absent" /\ TakenOver(u) => TakenOver(u)'
      /\ PassInv'
  BY <1>1, WriterStep DEF Point, IInv, TypeOK
<1>3. Counted' = Counted /\ Sized' = Sized
  BY <1>1, <1>2 DEF Counted, Sized, Early
<1>4. TypeOK'
  BY <1>1, <1>2, <1>3 DEF IInv, TypeOK, checkerVars
<1>5. LockInv'
  BY <1>1, <1>2, <1>3 DEF IInv, LockInv, Inside
<1>6. IdInv'
  BY <1>1, <1>2, <1>3 DEF IInv, IdInv, Alive, Linked, InTable
<1>7. NumberInv'
  BY <1>1, <1>2, <1>3 DEF IInv, NumberInv, Numbered, Early
<1>8. TableInv'
  BY <1>1, <1>2, <1>3, SameTable DEF Linked, InTable
<1>9. EntryInv'
  BY <1>1, <1>2, <1>3 DEF IInv, EntryInv
<1>10. ReuseInv'
  BY <1>1, <1>2, <1>3 DEF IInv, ReuseInv
<1>11. PassInv'
  BY <1>2
<1> QED
  BY <1>4, <1>5, <1>6, <1>7, <1>8, <1>9, <1>10, <1>11 DEF IInv

\* The counter is taken to a value that no thread has.
LEMMA CountThreadIInv ==
  ASSUME IInv, NEW t \in Thread, CountThread(t)
  PROVE  IInv'
<1>1. /\ UNCHANGED <<abort, tid, lock, threadCount, head, table, entry, size, checkerVars>>
      /\ Goto(t, "locked", "counted")
      /\ count' = count + 1
  BY DEF CountThread
<1>2. /\ pc[t] = "locked" /\ pc'[t] = "counted"
      /\ \A u \in Thread \ {t} : pc'[u] = pc[u]
      /\ pc' \in [Thread -> Point]
      /\ Running /\ abort' # "assertion"
      /\ \A u \in Thread : pc[u] # "absent" /\ TakenOver(u) => TakenOver(u)'
      /\ PassInv'
  BY <1>1, WriterStep DEF Point, IInv, TypeOK
<1>3. Counted' = Counted \cup {t} /\ t \notin Counted /\ Sized' = Sized
  BY <1>1, <1>2 DEF Counted, Sized, Early
<1>4. /\ Cardinality(Counted') = Cardinality(Counted) + 1
      /\ Cardinality(Counted') \in 0..Cardinality(Thread)
      /\ count \in Nat
  <2>1. Counted \in SUBSET Thread /\ Counted' \in SUBSET Thread
    BY DEF Counted
  <2>2. count \in Nat
    BY CountThreads DEF IInv, TypeOK
  <2> QED
    BY <1>3, <2>1, <2>2, CountThreads
<1>5. TypeOK'
  BY <1>1, <1>2, <1>3, <1>4 DEF IInv, TypeOK, NumberInv, checkerVars
<1>6. LockInv'
  BY <1>1, <1>2, <1>3, <1>4 DEF IInv, LockInv, Inside
<1>7. IdInv'
  BY <1>1, <1>2, <1>3, <1>4 DEF IInv, IdInv, Alive, Linked, InTable
<1>8. NumberInv'
  BY <1>1, <1>2, <1>3, <1>4 DEF IInv, NumberInv, Numbered, Early
<1>9. TableInv'
  BY <1>1, <1>2, <1>3, <1>4, SameTable DEF Linked, InTable
<1>10. EntryInv'
  BY <1>1, <1>2, <1>3, <1>4 DEF IInv, EntryInv
<1>11. ReuseInv'
  BY <1>1, <1>2, <1>3, <1>4 DEF IInv, ReuseInv
<1>12. PassInv'
  BY <1>2
<1> QED
  BY <1>5, <1>6, <1>7, <1>8, <1>9, <1>10, <1>11, <1>12 DEF IInv

\* Whether the id is in the table; the lock keeps unfinished entries out of it.
LEMMA LookupIInv ==
  ASSUME IInv, NEW t \in Thread, Lookup(t)
  PROVE  IInv'
<1>1. /\ UNCHANGED <<abort, tid, lock, count, table, entry, size, checkerVars>>
      /\ Goto(t, "counted", (IF Matches(tid[t]) = {} THEN "linking" ELSE "existing"))
      /\ threadCount' = [threadCount EXCEPT ![t] = count]
      /\ head' = [head EXCEPT ![t] = IF Matches(tid[t]) = {} THEN table[Bucket(tid[t])]
                                        ELSE <<hashMapFind(tid[t])>>]
  BY DEF Lookup
<1>2. /\ pc[t] = "counted" /\ pc'[t] = (IF Matches(tid[t]) = {} THEN "linking" ELSE "existing")
      /\ \A u \in Thread \ {t} : pc'[u] = pc[u]
      /\ pc' \in [Thread -> Point]
      /\ Running /\ abort' # "assertion"
      /\ \A u \in Thread : pc[u] # "absent" /\ TakenOver(u) => TakenOver(u)'
      /\ PassInv'
  BY <1>1, WriterStep, ZenonT(60) DEF Point, IInv, TypeOK
<1>3. Counted' = Counted /\ Sized' = Sized
  BY <1>1, <1>2 DEF Counted, Sized, Early
<1>4. tid[t] \in Tid /\ Bucket(tid[t]) \in 0..Capacity - 1
  BY <1>2, KeyType, BucketType DEF IInv, IdInv
<1>5. \A u \in Thread \ {t} : pc[u] \notin Inside
  BY <1>2 DEF IInv, LockInv, Inside
<1>6. Matches(tid[t]) = {} => \A u \in Thread : Linked(u) => tid[u] # tid[t]
  BY <1>2, <1>5, KeyFound DEF Linked, InTable, Inside
<1>7. Matches(tid[t]) # {} =>
        /\ hashMapFind(tid[t]) \in Thread /\ tid[hashMapFind(tid[t])] = tid[t]
        /\ pc[hashMapFind(tid[t])] = "ended"
  <2> SUFFICES ASSUME Matches(tid[t]) # {}
               PROVE  /\ hashMapFind(tid[t]) \in Thread /\ tid[hashMapFind(tid[t])] = tid[t]
                      /\ pc[hashMapFind(tid[t])] = "ended"
    OBVIOUS
  <2> DEFINE u == hashMapFind(tid[t])
  <2>1. u \in Thread /\ tid[u] = tid[t] /\ pc[u] \in {"keyed", "stored", "registered", "ended"}
    BY <1>4, FoundKey
  <2> HIDE DEF u
  <2>2. Alive(t) /\ u # t
    BY <1>2, <2>1 DEF Alive
  <2>3. ~Alive(u)
    BY <2>1, <2>2 DEF IInv, IdInv
  <2> QED
    BY <2>1, <2>3 DEF Alive, u
<1>8. /\ head' \in [Thread -> Seq(Thread)]
      /\ \A u \in Thread \ {t} : head'[u] = head[u]
      /\ Matches(tid[t]) = {} => head'[t] = table[Bucket(tid[t])]
      /\ Matches(tid[t]) # {} => head'[t] = <<hashMapFind(tid[t])>>
  BY <1>1, <1>4, <1>7 DEF IInv, TypeOK
<1>9. /\ count \in 1..Cardinality(Thread)
      /\ threadCount' \in [Thread -> -1..Cardinality(Thread)]
      /\ threadCount'[t] = count
      /\ \A u \in Thread \ {t} : threadCount'[u] = threadCount[u]
  <2>1. Counted \in SUBSET Thread /\ t \in Counted /\ Counted # {}
    BY <1>2 DEF Counted, Early
  <2>2. Cardinality(Counted) # 0 /\ IsFiniteSet(Counted)
    BY <2>1, FS_EmptySet, FS_Subset, RegistryAssumption
  <2>3. count \in 1..Cardinality(Thread)
    BY <2>1, <2>2, CountThreads DEF IInv, NumberInv
  <2> QED
    BY <1>1, <2>3, CountThreads DEF IInv, TypeOK
<1>10. TypeOK'
  BY <1>1, <1>2, <1>8, <1>9 DEF IInv, TypeOK, checkerVars
<1>11. LockInv'
  BY <1>1, <1>2 DEF IInv, LockInv, Inside
<1>12. IdInv'
  BY <1>1, <1>2, <1>5, <1>6 DEF IInv, IdInv, Alive, Linked, InTable, Inside
<1>13. NumberInv'
  <2>1. \A u, v \in Thread : Numbered(u) /\ Numbered(v) /\ threadCount[u] = threadCount[v] => u = v
    BY DEF IInv, NumberInv
  <2>2. \A u \in Thread : Numbered(u) => threadCount[u] \in 1..count /\ threadCount[u] # count
    BY <1>2 DEF IInv, NumberInv
  <2>3. \A u \in Thread \ {t} : /\ pc'[u] # "counted"
                                /\ Numbered(u)' <=> Numbered(u)
    BY <1>2, <1>5 DEF Numbered, Inside
  <2>4. pc'[t] # "counted" /\ ~Numbered(t)
    BY <1>2 DEF Numbered
  <2>5. count' = count /\ size' = size
    BY <1>1
  <2>6. \A u \in Thread : Numbered(u)' => threadCount'[u] \in 1..count
    BY <1>9, <2>2, <2>3
  <2>7. \A u, v \in Thread :
          Numbered(u)' /\ Numbered(v)' /\ threadCount'[u] = threadCount'[v] => u = v
    BY <1>9, <2>1, <2>2, <2>3
  <2> QED
    BY <1>3, <2>3, <2>4, <2>5, <2>6, <2>7 DEF IInv, NumberInv
<1>14. TableInv'
  <2>1. \A u \in Thread : Linked(u)' <=> Linked(u)
    BY <1>2 DEF Linked, InTable
  <2>2. \A b \in 0..Capacity - 1 : table[b] \in Seq(Thread)
    BY DEF IInv, TypeOK
  <2>3. \A b \in 0..Capacity - 1 : \A i \in 1..Len(table[b]) :
          pc'[table[b][i]] \in InTable /\ Bucket(tid[table[b][i]]) = b
    <3> TAKE b \in 0..Capacity - 1
    <3> TAKE i \in 1..Len(table[b])
    <3>1. table[b][i] \in Thread
      BY <2>2
    <3> QED
      BY <2>1, <3>1 DEF IInv, TableInv, Linked
  <2>4. \A u \in Thread : pc'[u] = "linking" => head'[u] = table[Bucket(tid[u])]
    BY <1>2, <1>8 DEF IInv, TableInv
  <2> QED
    BY <1>1, <2>1, <2>3, <2>4 DEF IInv, TableInv, Bucket, Linked
<1>15. EntryInv'
  BY <1>1, <1>2 DEF IInv, EntryInv
<1>16. ReuseInv'
  <2>1. ASSUME NEW u \in Thread, pc'[u] = "existing"
        PROVE  \E v \in Thread : head'[u] = <<v>> /\ pc'[v] = "ended" /\ tid[v] = tid[u]
    <3>1. CASE u = t
      <4>1. Matches(tid[t]) # {}
        BY <1>2, <2>1, <3>1
      <4> QED
        BY <1>2, <1>7, <1>8, <3>1, <4>1
    <3>2. CASE u # t
      <4>1. pc[u] = "existing" /\ head'[u] = head[u]
        BY <1>2, <1>8, <2>1, <3>2
      <4>2. PICK v \in Thread : head[u] = <<v>> /\ pc[v] = "ended" /\ tid[v] = tid[u]
        BY <4>1 DEF IInv, ReuseInv
      <4>3. pc'[v] = "ended"
        BY <1>2, <4>2
      <4> QED
        BY <4>1, <4>2, <4>3
    <3> QED
      BY <3>1, <3>2
  <2>2. ASSUME NEW u \in Thread, pc'[u] \in {"updated", "refused"}
        PROVE  \E v \in Thread : pc'[v] = "ended" /\ tid[v] = tid[u]
    BY <1>2, <2>2 DEF IInv, ReuseInv
  <2> QED
    BY <1>1, <1>2, <2>1, <2>2 DEF ReuseInv
<1>17. PassInv'
  BY <1>2
<1> QED
  BY <1>10, <1>11, <1>12, <1>13, <1>14, <1>15, <1>16, <1>17 DEF IInv

\* The entry goes in front of what the thread read under the lock.
LEMMA LinkIInv ==
  ASSUME IInv, NEW t \in Thread, Link(t)
  PROVE  IInv'
<1>1. PICK fresh \in FreshEntry :
      /\ UNCHANGED <<abort, tid, lock, count, threadCount, head, size, checkerVars>>
      /\ Goto(t, "linking", "linked")
      /\ entry' = [entry EXCEPT ![t] = fresh]
      /\ table' = [table EXCEPT ![Bucket(tid[t])] = <<t>> \o head[t]]
  BY DEF Link
<1>2. /\ pc[t] = "linking" /\ pc'[t] = "linked"
      /\ \A u \in Thread \ {t} : pc'[u] = pc[u]
      /\ pc' \in [Thread -> Point]
      /\ Running /\ abort' # "assertion"
      /\ \A u \in Thread : pc[u] # "absent" /\ TakenOver(u) => TakenOver(u)'
      /\ PassInv'
  BY <1>1, WriterStep DEF Point, IInv, TypeOK
<1>3. Counted' = Counted /\ Sized' = Sized
  BY <1>1, <1>2 DEF Counted, Sized, Early
<1>4. fresh \in [key : Key, value : Value] /\ fresh.key \notin Tid
  <2>1. fresh \in [key : Nat \ Tid, value : Value \ Thread]
    BY RegistryAssumption
  <2>2. fresh.key \in Key
    BY Zenon DEF Key
  <2> QED
    BY <2>1, <2>2
<1>5. /\ entry' \in [Thread -> [key : Key, value : Value]]
      /\ entry'[t] = fresh
      /\ \A u \in Thread \ {t} : entry'[u] = entry[u]
  BY <1>1, <1>4 DEF IInv, TypeOK
<1> DEFINE b == Bucket(tid[t])
           q == <<t>> \o table[b]
<1>6. b \in 0..Capacity - 1
  BY <1>2, KeyType, BucketType DEF IInv, IdInv
<1>7. table[b] \in Seq(Thread) /\ head[t] = table[b]
  BY <1>2, <1>6 DEF IInv, TypeOK, TableInv
<1>8. /\ q \in Seq(Thread) /\ Len(q) = Len(table[b]) + 1 /\ Len(table[b]) \in Nat
      /\ q[1] = t
      /\ \A i \in 1..Len(table[b]) : q[i + 1] = table[b][i]
      /\ \A i \in 1..Len(q) : i # 1 => i - 1 \in 1..Len(table[b]) /\ q[i] = table[b][i - 1]
  BY <1>7
<1> HIDE DEF b, q
<1>9. /\ table' \in [0..Capacity - 1 -> Seq(Thread)]
      /\ table'[b] = q
      /\ \A c \in (0..Capacity - 1) \ {b} : table'[c] = table[c]
  BY <1>1, <1>6, <1>7, <1>8 DEF IInv, TypeOK, b, q
<1>10. TypeOK'
  BY <1>1, <1>2, <1>5, <1>9 DEF IInv, TypeOK, checkerVars
<1>11. LockInv'
  BY <1>1, <1>2 DEF IInv, LockInv, Inside
<1>12. IdInv'
  BY <1>1, <1>2 DEF IInv, IdInv, Alive, Linked, InTable
<1>13. NumberInv'
  BY <1>1, <1>2, <1>3 DEF IInv, NumberInv, Numbered, Early
<1>14. TableInv'
  <2>1. /\ \A u \in Thread \ {t} : Linked(u)' <=> Linked(u)
        /\ Linked(t)' /\ ~Linked(t)
    BY <1>2 DEF Linked, InTable
  <2>2. \A c \in 0..Capacity - 1 : \A i \in 1..Len(table[c]) :
          /\ table[c][i] \in Thread \ {t} /\ pc'[table[c][i]] \in InTable
          /\ Bucket(tid[table[c][i]]) = c
    <3> TAKE c \in 0..Capacity - 1
    <3> TAKE i \in 1..Len(table[c])
    <3>1. table[c] \in Seq(Thread)
      BY DEF IInv, TypeOK
    <3>2. table[c][i] \in Thread
      BY <3>1
    <3>3. Linked(table[c][i]) /\ Bucket(tid[table[c][i]]) = c
      BY DEF IInv, TableInv
    <3> QED
      BY <2>1, <3>2, <3>3 DEF Linked
  <2>3. ASSUME NEW c \in 0..Capacity - 1
        PROVE  /\ \A i \in 1..Len(table'[c]) :
                    pc'[table'[c][i]] \in InTable /\ Bucket(tid[table'[c][i]]) = c
               /\ \A i, j \in 1..Len(table'[c]) : table'[c][i] = table'[c][j] => i = j
    <3>1. \A i, j \in 1..Len(table[c]) : table[c][i] = table[c][j] => i = j
      BY DEF IInv, TableInv
    <3>2. CASE c # b
      BY <1>9, <2>2, <3>1, <3>2
    <3>3. CASE c = b
      <4>0. \A i \in 1..Len(table[b]) :
              /\ table[b][i] # t /\ pc'[table[b][i]] \in InTable
              /\ Bucket(tid[table[b][i]]) = b
        BY <1>6, <2>2
      <4>1. ASSUME NEW i \in 1..Len(q)
            PROVE  pc'[q[i]] \in InTable /\ Bucket(tid[q[i]]) = b
        <5>1. CASE i = 1
          BY <1>8, <2>1, <5>1 DEF Linked, b
        <5>2. CASE i # 1
          <6>1. i - 1 \in 1..Len(table[b]) /\ q[i] = table[b][i - 1]
            BY <1>8, <5>2
          <6> QED
            BY <4>0, <6>1
        <5> QED
          BY <5>1, <5>2
      <4>2. ASSUME NEW i \in 1..Len(q), NEW j \in 1..Len(q), q[i] = q[j]
            PROVE  i = j
        <5>1. \A k \in 1..Len(q) : k # 1 => q[k] # t
          BY <1>8, <4>0
        <5>2. CASE i = 1 \/ j = 1
          BY <1>8, <4>2, <5>1, <5>2
        <5>3. CASE i # 1 /\ j # 1
          <6>1. /\ i - 1 \in 1..Len(table[b]) /\ j - 1 \in 1..Len(table[b])
                /\ table[b][i - 1] = table[b][j - 1]
            BY <1>8, <4>2, <5>3
          <6>2. i - 1 = j - 1
            BY <3>1, <3>3, <6>1
          <6> QED
            BY <1>8, <6>2
        <5> QED
          BY <5>2, <5>3
      <4> QED
        BY <1>9, <3>3, <4>1, <4>2
    <3> QED
      BY <3>2, <3>3
  <2>4. ASSUME NEW u \in Thread, pc'[u] \in InTable
        PROVE  \E i \in 1..Len(table'[Bucket(tid[u])]) : table'[Bucket(tid[u])][i] = u
    <3>1. CASE u = t
      <4>1. 1 \in 1..Len(q) /\ q[1] = u
        BY <1>8, <3>1
      <4> QED
        BY <1>9, <3>1, <4>1 DEF b
    <3>2. CASE u # t
      <4> DEFINE c == Bucket(tid[u])
      <4>1. Linked(u)
        BY <2>1, <2>4, <3>2 DEF Linked
      <4>2. PICK i \in 1..Len(table[c]) : table[c][i] = u
        BY <4>1 DEF IInv, TableInv
      <4>3. c \in 0..Capacity - 1
        BY <4>1, KeyType, BucketType DEF IInv, IdInv, Linked, InTable
      <4>4. CASE c = b
        <5>1. i + 1 \in 1..Len(q) /\ q[i + 1] = u
          BY <1>8, <4>2, <4>4
        <5> QED
          BY <1>9, <4>4, <5>1
      <4>5. CASE c # b
        BY <1>9, <4>2, <4>3, <4>5
      <4> QED
        BY <4>4, <4>5
    <3> QED
      BY <3>1, <3>2
  <2>5. \A u \in Thread : pc'[u] # "linking"
    BY <1>2 DEF IInv, LockInv, Inside
  <2> QED
    BY <1>1, <2>3, <2>4, <2>5, ZenonT(60) DEF TableInv, Bucket, Linked
<1>15. EntryInv'
  BY <1>1, <1>2, <1>4, <1>5 DEF IInv, EntryInv
<1>16. ReuseInv'
  BY <1>1, <1>2 DEF IInv, ReuseInv
<1>17. PassInv'
  BY <1>2
<1> QED
  BY <1>10, <1>11, <1>12, <1>13, <1>14, <1>15, <1>16, <1>17 DEF IInv

\* The entry is counted once.
LEMMA CountEntryIInv ==
  ASSUME IInv, NEW t \in Thread, CountEntry(t)
  PROVE  IInv'
<1>1. /\ UNCHANGED <<abort, tid, lock, count, threadCount, head, table, entry, checkerVars>>
      /\ Goto(t, "linked", "sized")
      /\ size' = size + 1
  BY DEF CountEntry
<1>2. /\ pc[t] = "linked" /\ pc'[t] = "sized"
      /\ \A u \in Thread \ {t} : pc'[u] = pc[u]
      /\ pc' \in [Thread -> Point]
      /\ Running /\ abort' # "assertion"
      /\ \A u \in Thread : pc[u] # "absent" /\ TakenOver(u) => TakenOver(u)'
      /\ PassInv'
  BY <1>1, WriterStep DEF Point, IInv, TypeOK
<1>3. Sized' = Sized \cup {t} /\ t \notin Sized /\ Counted' = Counted
  BY <1>1, <1>2 DEF Counted, Sized, Early
<1>4. /\ Cardinality(Sized') = Cardinality(Sized) + 1
      /\ Cardinality(Sized') \in 0..Cardinality(Thread)
      /\ size \in Nat
  <2>1. Sized \in SUBSET Thread /\ Sized' \in SUBSET Thread
    BY DEF Sized
  <2>2. size \in Nat
    BY CountThreads DEF IInv, TypeOK
  <2> QED
    BY <1>3, <2>1, <2>2, CountThreads
<1>5. TypeOK'
  BY <1>1, <1>2, <1>3, <1>4 DEF IInv, TypeOK, NumberInv, checkerVars
<1>6. LockInv'
  BY <1>1, <1>2, <1>3, <1>4 DEF IInv, LockInv, Inside
<1>7. IdInv'
  BY <1>1, <1>2, <1>3, <1>4 DEF IInv, IdInv, Alive, Linked, InTable
<1>8. NumberInv'
  BY <1>1, <1>2, <1>3, <1>4 DEF IInv, NumberInv, Numbered, Early
<1>9. TableInv'
  BY <1>1, <1>2, <1>3, <1>4, SameTable DEF Linked, InTable
<1>10. EntryInv'
  BY <1>1, <1>2, <1>3, <1>4 DEF IInv, EntryInv
<1>11. ReuseInv'
  BY <1>1, <1>2, <1>3, <1>4 DEF IInv, ReuseInv
<1>12. PassInv'
  BY <1>2
<1> QED
  BY <1>5, <1>6, <1>7, <1>8, <1>9, <1>10, <1>11, <1>12 DEF IInv

\* Only now the id can be found.
LEMMA SetEntryKeyIInv ==
  ASSUME IInv, NEW t \in Thread, SetEntryKey(t)
  PROVE  IInv'
<1>1. /\ UNCHANGED <<abort, tid, lock, count, threadCount, head, table, size, checkerVars>>
      /\ Goto(t, "sized", "keyed")
      /\ entry' = [entry EXCEPT ![t].key = tid[t]]
  BY DEF SetEntryKey
<1>2. /\ pc[t] = "sized" /\ pc'[t] = "keyed"
      /\ \A u \in Thread \ {t} : pc'[u] = pc[u]
      /\ pc' \in [Thread -> Point]
      /\ Running /\ abort' # "assertion"
      /\ \A u \in Thread : pc[u] # "absent" /\ TakenOver(u) => TakenOver(u)'
      /\ PassInv'
  BY <1>1, WriterStep DEF Point, IInv, TypeOK
<1>3. Counted' = Counted /\ Sized' = Sized
  BY <1>1, <1>2 DEF Counted, Sized, Early
<1>4. tid[t] \in Tid /\ tid[t] \in Key
  BY <1>2, KeyType DEF IInv, IdInv
<1>5. /\ entry' \in [Thread -> [key : Key, value : Value]]
      /\ entry'[t].key = tid[t]
      /\ \A u \in Thread \ {t} : entry'[u] = entry[u]
  BY <1>1, <1>4 DEF IInv, TypeOK
<1>6. TypeOK'
  BY <1>1, <1>2, <1>3, <1>4, <1>5 DEF IInv, TypeOK, checkerVars
<1>7. LockInv'
  BY <1>1, <1>2, <1>3, <1>4, <1>5 DEF IInv, LockInv, Inside
<1>8. IdInv'
  BY <1>1, <1>2, <1>3, <1>4, <1>5 DEF IInv, IdInv, Alive, Linked, InTable
<1>9. NumberInv'
  BY <1>1, <1>2, <1>3, <1>4, <1>5 DEF IInv, NumberInv, Numbered, Early
<1>10. TableInv'
  BY <1>1, <1>2, <1>3, <1>4, <1>5, SameTable DEF Linked, InTable
<1>11. EntryInv'
  BY <1>1, <1>2, <1>3, <1>4, <1>5 DEF IInv, EntryInv
<1>12. ReuseInv'
  BY <1>1, <1>2, <1>3, <1>4, <1>5 DEF IInv, ReuseInv
<1>13. PassInv'
  BY <1>2
<1> QED
  BY <1>6, <1>7, <1>8, <1>9, <1>10, <1>11, <1>12, <1>13 DEF IInv

\* The entry leads to the queue.
LEMMA SetEntryValIInv ==
  ASSUME IInv, NEW t \in Thread, SetEntryVal(t)
  PROVE  IInv'
<1>1. /\ UNCHANGED <<abort, tid, lock, count, threadCount, head, table, size, checkerVars>>
      /\ Goto(t, "keyed", "stored")
      /\ entry' = [entry EXCEPT ![t].value = t]
  BY DEF SetEntryVal
<1>2. /\ pc[t] = "keyed" /\ pc'[t] = "stored"
      /\ \A u \in Thread \ {t} : pc'[u] = pc[u]
      /\ pc' \in [Thread -> Point]
      /\ Running /\ abort' # "assertion"
      /\ \A u \in Thread : pc[u] # "absent" /\ TakenOver(u) => TakenOver(u)'
      /\ PassInv'
  BY <1>1, WriterStep DEF Point, IInv, TypeOK
<1>3. Counted' = Counted /\ Sized' = Sized
  BY <1>1, <1>2 DEF Counted, Sized, Early
<1>4. t \in Value
  BY DEF Value
<1>5. /\ entry' \in [Thread -> [key : Key, value : Value]]
      /\ entry'[t].key = entry[t].key /\ entry'[t].value = t
      /\ \A u \in Thread \ {t} : entry'[u] = entry[u]
  BY <1>1, <1>4 DEF IInv, TypeOK
<1>6. TypeOK'
  BY <1>1, <1>2, <1>3, <1>4, <1>5 DEF IInv, TypeOK, checkerVars
<1>7. LockInv'
  BY <1>1, <1>2, <1>3, <1>4, <1>5 DEF IInv, LockInv, Inside
<1>8. IdInv'
  BY <1>1, <1>2, <1>3, <1>4, <1>5 DEF IInv, IdInv, Alive, Linked, InTable
<1>9. NumberInv'
  BY <1>1, <1>2, <1>3, <1>4, <1>5 DEF IInv, NumberInv, Numbered, Early
<1>10. TableInv'
  BY <1>1, <1>2, <1>3, <1>4, <1>5, SameTable DEF Linked, InTable
<1>11. EntryInv'
  BY <1>1, <1>2, <1>3, <1>4, <1>5 DEF IInv, EntryInv
<1>12. ReuseInv'
  BY <1>1, <1>2, <1>3, <1>4, <1>5 DEF IInv, ReuseInv
<1>13. PassInv'
  BY <1>2
<1> QED
  BY <1>6, <1>7, <1>8, <1>9, <1>10, <1>11, <1>12, <1>13 DEF IInv

\* The queue of a thread that has ended is replaced by that of t.
LEMMA OverwriteIInv ==
  ASSUME IInv, NEW t \in Thread, Overwrite(t)
  PROVE  IInv'
<1>1. /\ UNCHANGED <<abort, tid, lock, count, threadCount, head, table, size, checkerVars>>
      /\ Goto(t, "existing", "updated")
      /\ entry' = [entry EXCEPT ![Head(head[t])].value = t]
  BY DEF Overwrite
<1>2. /\ pc[t] = "existing" /\ pc'[t] = "updated"
      /\ \A u \in Thread \ {t} : pc'[u] = pc[u]
      /\ pc' \in [Thread -> Point]
      /\ Running /\ abort' # "assertion"
      /\ \A u \in Thread : pc[u] # "absent" /\ TakenOver(u) => TakenOver(u)'
      /\ PassInv'
  BY <1>1, WriterStep DEF Point, IInv, TypeOK
<1>3. Counted' = Counted /\ Sized' = Sized
  BY <1>1, <1>2 DEF Counted, Sized, Early
<1>4. PICK v \in Thread : head[t] = <<v>> /\ pc[v] = "ended" /\ tid[v] = tid[t]
  BY <1>2 DEF IInv, ReuseInv
<1>5. Head(head[t]) = v /\ t \in Value
  BY <1>4 DEF Value
<1>6. /\ entry' \in [Thread -> [key : Key, value : Value]]
      /\ entry'[v].key = entry[v].key
      /\ \A u \in Thread \ {v} : entry'[u] = entry[u]
  BY <1>1, <1>4, <1>5 DEF IInv, TypeOK
<1>7. TakenOver(v)'
  BY <1>1, <1>2, <1>4 DEF TakenOver
<1>8. pc'[v] = "ended"
  BY <1>2, <1>4
<1>9. TypeOK'
  BY <1>1, <1>2, <1>3, <1>4, <1>5, <1>6, <1>7, <1>8 DEF IInv, TypeOK, checkerVars
<1>10. LockInv'
  BY <1>1, <1>2, <1>3, <1>4, <1>5, <1>6, <1>7, <1>8 DEF IInv, LockInv, Inside
<1>11. IdInv'
  BY <1>1, <1>2, <1>3, <1>4, <1>5, <1>6, <1>7, <1>8 DEF IInv, IdInv, Alive, Linked, InTable
<1>12. NumberInv'
  BY <1>1, <1>2, <1>3, <1>4, <1>5, <1>6, <1>7, <1>8 DEF IInv, NumberInv, Numbered, Early
<1>13. TableInv'
  BY <1>1, <1>2, <1>3, <1>4, <1>5, <1>6, <1>7, <1>8, SameTable DEF Linked, InTable
<1>14. EntryInv'
  <2>1. ASSUME NEW u \in Thread, u # v
        PROVE  /\ pc'[u] \in {"linked", "sized"} => entry'[u].key \notin Tid
               /\ pc'[u] \in {"keyed", "stored", "registered", "ended"} => entry'[u].key = tid[u]
               /\ pc'[u] \in {"stored", "registered", "ended"} =>
                    entry'[u].value = u \/ TakenOver(u)'
    BY <1>2, <1>6, <2>1 DEF IInv, EntryInv
  <2>2. entry'[v].key = tid[v]
    BY <1>4, <1>6 DEF IInv, EntryInv
  <2> QED
    BY <1>1, <1>7, <1>8, <2>1, <2>2 DEF EntryInv
<1>15. ReuseInv'
  <2>1. ASSUME NEW u \in Thread, pc'[u] \in {"existing", "updated", "refused"}
        PROVE  \E w \in Thread : /\ pc'[w] = "ended" /\ tid[w] = tid[u]
                                 /\ pc'[u] = "existing" => head[u] = <<w>>
    <3>1. CASE u = t
      BY <1>2, <1>4, <1>8, <3>1
    <3>2. CASE u # t
      BY <1>2, <2>1, <3>2 DEF IInv, ReuseInv
    <3> QED
      BY <3>1, <3>2
  <2> QED
    BY <1>1, <1>2, <2>1 DEF ReuseInv
<1>16. PassInv'
  BY <1>2
<1> QED
  BY <1>9, <1>10, <1>11, <1>12, <1>13, <1>14, <1>15, <1>16 DEF IInv

\* The lock is free again, and no unfinished entry is in the table.
LEMMA UnlockIInv ==
  ASSUME IInv, NEW t \in Thread, __unlock(t)
  PROVE  IInv'
<1>1. PICK from \in Point, to \in Point :
      /\ UNCHANGED <<abort, tid, count, threadCount, head, table, entry, size, checkerVars>>
      /\ Goto(t, from, to)
      /\ lock' = FALSE
      /\ (from = "stored" /\ to = "registered") \/ (from = "updated" /\ to = "refused")
  BY DEF __unlock, Point
<1>2. /\ pc[t] = from /\ pc'[t] = to
      /\ \A u \in Thread \ {t} : pc'[u] = pc[u]
      /\ pc' \in [Thread -> Point]
      /\ Running /\ abort' # "assertion"
      /\ \A u \in Thread : pc[u] # "absent" /\ TakenOver(u) => TakenOver(u)'
      /\ PassInv'
  BY <1>1, WriterStep, ZenonT(60) DEF Point, IInv, TypeOK
<1>3. Counted' = Counted /\ Sized' = Sized
  BY <1>1, <1>2 DEF Counted, Sized, Early
<1>4. TypeOK'
  BY <1>1, <1>2, <1>3 DEF IInv, TypeOK, checkerVars
<1>5. LockInv'
  BY <1>1, <1>2, <1>3 DEF IInv, LockInv, Inside
<1>6. IdInv'
  BY <1>1, <1>2, <1>3 DEF IInv, IdInv, Alive, Linked, InTable
<1>7. NumberInv'
  BY <1>1, <1>2, <1>3 DEF IInv, NumberInv, Numbered, Early
<1>8. TableInv'
  BY <1>1, <1>2, <1>3, SameTable DEF Linked, InTable
<1>9. EntryInv'
  BY <1>1, <1>2, <1>3 DEF IInv, EntryInv
<1>10. ReuseInv'
  BY <1>1, <1>2, <1>3 DEF IInv, ReuseInv
<1>11. PassInv'
  BY <1>2
<1> QED
  BY <1>4, <1>5, <1>6, <1>7, <1>8, <1>9, <1>10, <1>11 DEF IInv

\* The entry of a thread stays when it ends.
LEMMA EndIInv ==
  ASSUME IInv, NEW t \in Thread, End(t)
  PROVE  IInv'
<1>1. /\ UNCHANGED <<abort, tid, lock, count, threadCount, head, table, entry, size, checkerVars>>
      /\ Goto(t, "registered", "ended")
  BY DEF End
<1>2. /\ pc[t] = "registered" /\ pc'[t] = "ended"
      /\ \A u \in Thread \ {t} : pc'[u] = pc[u]
      /\ pc' \in [Thread -> Point]
      /\ Running /\ abort' # "assertion"
      /\ \A u \in Thread : pc[u] # "absent" /\ TakenOver(u) => TakenOver(u)'
      /\ PassInv'
  BY <1>1, WriterStep DEF Point, IInv, TypeOK
<1>3. Counted' = Counted /\ Sized' = Sized
  BY <1>1, <1>2 DEF Counted, Sized, Early
<1>4. TypeOK'
  BY <1>1, <1>2, <1>3 DEF IInv, TypeOK, checkerVars
<1>5. LockInv'
  BY <1>1, <1>2, <1>3 DEF IInv, LockInv, Inside
<1>6. IdInv'
  BY <1>1, <1>2, <1>3 DEF IInv, IdInv, Alive, Linked, InTable
<1>7. NumberInv'
  BY <1>1, <1>2, <1>3 DEF IInv, NumberInv, Numbered, Early
<1>8. TableInv'
  BY <1>1, <1>2, <1>3, SameTable DEF Linked, InTable
<1>9. EntryInv'
  BY <1>1, <1>2, <1>3 DEF IInv, EntryInv
<1>10. ReuseInv'
  BY <1>1, <1>2, <1>3 DEF IInv, ReuseInv
<1>11. PassInv'
  BY <1>2
<1> QED
  BY <1>4, <1>5, <1>6, <1>7, <1>8, <1>9, <1>10, <1>11 DEF IInv

\* dispatcherInit's assert fails in a thread that has met its id in the table.
LEMMA RefuseIInv ==
  ASSUME IInv, NEW t \in Thread, Refuse(t)
  PROVE  IInv'
<1>1. /\ UNCHANGED <<pc, tid, lock, count, threadCount, head, table, entry, size>>
      /\ UNCHANGED <<index, rest, lookup, served, due>>
      /\ pc[t] = "refused" /\ abort' = "assertion"
  BY DEF Refuse, writerVars, checkerVars
<1>2. TypeOK'
  BY <1>1 DEF IInv, TypeOK, AbortReason
<1>3. LockInv' /\ IdInv' /\ EntryInv'
  BY <1>1 DEF IInv, LockInv, IdInv, EntryInv, Alive, Linked, TakenOver
<1>4. NumberInv'
  BY <1>1 DEF IInv, NumberInv, Counted, Sized, Numbered
<1>5. TableInv'
  BY <1>1, SameTable DEF Linked
<1>6. ReuseInv' /\ PassInv'
  BY <1>1 DEF IInv, ReuseInv, PassInv, Running
<1> QED
  BY <1>2, <1>3, <1>4, <1>5, <1>6 DEF IInv

(***************************************************************************)
(* The steps of the checker.                                               *)
(***************************************************************************)
\* The checker writes nothing but its own variables.
LEMMA CheckerStep ==
  ASSUME IInv, UNCHANGED writerVars, abort' # "assertion", TypeOK', PassInv'
  PROVE  IInv'
<1>1. UNCHANGED <<pc, tid, lock, count, threadCount, head, table, entry, size>>
  BY DEF writerVars
<1>2. LockInv' /\ IdInv' /\ EntryInv' /\ ReuseInv'
  BY <1>1 DEF IInv, LockInv, IdInv, EntryInv, ReuseInv, Alive, Linked, TakenOver
<1>3. NumberInv'
  BY <1>1 DEF IInv, NumberInv, Counted, Sized, Numbered
<1>4. TableInv'
  BY <1>1, SameTable DEF Linked
<1> QED
  BY <1>2, <1>3, <1>4 DEF IInv

LEMMA StartPassIInv ==
  ASSUME IInv, StartPass
  PROVE  IInv'
<1>1. /\ UNCHANGED <<abort, rest, lookup>> /\ UNCHANGED writerVars
      /\ Running /\ index' = -1 /\ served' = {} /\ due' = Registered
  BY DEF StartPass
<1>2. UNCHANGED <<pc, tid, lock, count, threadCount, head, table, entry, size>>
  BY <1>1 DEF writerVars
<1>3. TypeOK'
  BY <1>1, <1>2, RegistryAssumption DEF IInv, TypeOK, Registered
<1>4. PassInv'
  <2>1. \A t \in Registered : pc[t] \in {"registered", "ended"} /\ Bucket(tid[t]) > -1
    <3> TAKE t \in Registered
    <3>1. t \in Thread /\ pc[t] \in {"registered", "ended"}
      BY DEF Registered
    <3>2. Bucket(tid[t]) \in 0..Capacity - 1
      BY <3>1, KeyType, BucketType DEF IInv, IdInv
    <3> QED
      BY <3>1, <3>2
  <2>2. -1 # Capacity
    BY RegistryAssumption
  <2> QED
    BY <1>1, <1>2, <2>1, <2>2 DEF PassInv, Bucket
<1> QED
  BY <1>1, <1>3, <1>4, CheckerStep DEF Running

\* The iterator reads the head of the next bucket: what it owes there is ahead.
LEMMA NextBucketIInv ==
  ASSUME IInv, NextBucket
  PROVE  IInv'
<1>1. /\ UNCHANGED <<abort, lookup, served, due>> /\ UNCHANGED writerVars
      /\ Running /\ index < Capacity /\ rest = <<>> /\ lookup = -1
      /\ index' = index + 1
      /\ rest' = IF index + 1 < Capacity THEN table[index + 1] ELSE <<>>
  BY DEF NextBucket
<1>2. UNCHANGED <<pc, tid, lock, count, threadCount, head, table, entry, size>>
  BY <1>1 DEF writerVars
<1>3. index \in -1..Capacity /\ Capacity \in Nat /\ index + 1 \in 0..Capacity
  BY <1>1, RegistryAssumption DEF IInv, TypeOK
<1>4. rest' \in Seq(Thread)
  BY <1>1, <1>3 DEF IInv, TypeOK
<1>5. TypeOK'
  BY <1>1, <1>2, <1>3, <1>4 DEF IInv, TypeOK
<1>6. PassInv'
  <2>1. ASSUME NEW t \in due
        PROVE  /\ pc[t] \in {"registered", "ended"}
               /\ \/ t \in served \/ TakenOver(t)
                  \/ Bucket(tid[t]) > index + 1
                  \/ \E i \in 1..Len(rest') : rest'[i] = t
    <3>1. t \in Thread /\ pc[t] \in {"registered", "ended"}
      BY <1>1 DEF IInv, TypeOK, PassInv
    <3>2. tid[t] \in Tid /\ Bucket(tid[t]) \in 0..Capacity - 1
      BY <3>1, KeyType, BucketType DEF IInv, IdInv
    <3>3. tid[t] # -1
      BY <3>2, KeyType
    <3>4. t \in served \/ TakenOver(t) \/ Bucket(tid[t]) > index
      BY <1>1, <3>3 DEF IInv, PassInv
    <3>5. CASE Bucket(tid[t]) = index + 1
      <4>1. \E i \in 1..Len(table[index + 1]) : table[index + 1][i] = t
        BY <3>1, <3>5 DEF IInv, TableInv, Linked, InTable
      <4>2. rest' = table[index + 1]
        BY <1>1, <1>3, <3>2, <3>5
      <4> QED
        BY <3>1, <4>1, <4>2
    <3>6. CASE Bucket(tid[t]) # index + 1
      BY <1>3, <3>1, <3>2, <3>4, <3>6
    <3> QED
      BY <3>5, <3>6
  <2>2. index + 1 = Capacity => rest' = <<>>
    BY <1>1, <1>3
  <2> QED
    BY <1>1, <1>2, <2>1, <2>2 DEF PassInv, Bucket, TakenOver
<1> QED
  BY <1>1, <1>5, <1>6, CheckerStep DEF Running

\* The key of the next entry is read; an entry that the pass owes has its key.
LEMMA NextEntryIInv ==
  ASSUME IInv, NextEntry
  PROVE  IInv'
<1>1. /\ UNCHANGED <<abort, index, served, due>> /\ UNCHANGED writerVars
      /\ Running /\ rest # <<>> /\ lookup = -1
      /\ lookup' = entry[Head(rest)].key
      /\ rest' = Tail(rest)
  BY DEF NextEntry
<1>2. UNCHANGED <<pc, tid, lock, count, threadCount, head, table, entry, size>>
  BY <1>1 DEF writerVars
<1>3. /\ rest \in Seq(Thread) /\ Head(rest) \in Thread /\ Head(rest) = rest[1]
      /\ rest' \in Seq(Thread) /\ Len(rest') = Len(rest) - 1 /\ Len(rest) \in Nat
      /\ \A i \in 1..Len(rest) : i # 1 => i - 1 \in 1..Len(rest') /\ rest'[i - 1] = rest[i]
  <2>1. rest \in Seq(Thread)
    BY DEF IInv, TypeOK
  <2> QED
    BY <1>1, <2>1
<1>4. entry[Head(rest)].key \in Key
  BY <1>3 DEF IInv, TypeOK
<1>5. TypeOK'
  BY <1>1, <1>2, <1>3, <1>4 DEF IInv, TypeOK
<1>6. PassInv'
  <2>1. ASSUME NEW t \in due
        PROVE  /\ pc[t] \in {"registered", "ended"}
               /\ \/ t \in served \/ TakenOver(t)
                  \/ Bucket(tid[t]) > index
                  \/ \E i \in 1..Len(rest') : rest'[i] = t
                  \/ lookup' = tid[t]
    <3>1. t \in Thread /\ pc[t] \in {"registered", "ended"}
      BY <1>1 DEF IInv, TypeOK, PassInv
    <3>2. tid[t] # -1
      BY <3>1, KeyType DEF IInv, IdInv
    <3>3. CASE \E i \in 1..Len(rest) : rest[i] = t
      <4>1. PICK i \in 1..Len(rest) : rest[i] = t
        BY <3>3
      <4>2. i = 1 => lookup' = tid[t]
        BY <1>1, <1>3, <3>1, <4>1 DEF IInv, EntryInv
      <4> QED
        BY <1>3, <3>1, <4>1, <4>2
    <3>4. CASE ~\E i \in 1..Len(rest) : rest[i] = t
      <4>1. t \in served \/ TakenOver(t) \/ Bucket(tid[t]) > index
        BY <1>1, <3>2, <3>4 DEF IInv, PassInv
      <4> QED
        BY <3>1, <4>1
    <3> QED
      BY <3>3, <3>4
  <2>2. index # Capacity
    BY <1>1 DEF IInv, PassInv
  <2> QED
    BY <1>1, <1>2, <2>1, <2>2 DEF PassInv, Bucket, TakenOver
<1> QED
  BY <1>1, <1>5, <1>6, CheckerStep DEF Running

\* The lookup of an id finds the queue of its thread, or of the one that took it.
LEMMA ServeIInv ==
  ASSUME IInv, Serve
  PROVE  IInv'
<1> DEFINE eq == hashMapGet(lookup)
<1>1. /\ UNCHANGED <<index, rest, due>> /\ UNCHANGED writerVars
      /\ Running /\ lookup # -1 /\ lookup' = -1
      /\ abort' = IF eq = Garbage THEN "badPointer" ELSE abort
      /\ served' = served \cup ({eq} \cap Thread)
  BY DEF Serve
<1>2. UNCHANGED <<pc, tid, lock, count, threadCount, head, table, entry, size>>
  BY <1>1 DEF writerVars
<1>3. TypeOK'
  BY <1>1, <1>2 DEF IInv, TypeOK
<1>4. ASSUME NEW t \in Thread, pc[t] \in {"registered", "ended"}, lookup = tid[t]
      PROVE  eq = t \/ TakenOver(t)
  <2>1. Matches(tid[t]) # {} /\ hashMapFind(tid[t]) = t
    BY <1>4, KeyFound
  <2>2. size # 0
    <3>1. t \in Sized /\ Sized \in SUBSET Thread
      BY <1>4 DEF Sized
    <3>2. IsFiniteSet(Sized)
      BY <3>1, FS_Subset, RegistryAssumption
    <3> QED
      BY <3>1, <3>2, FS_EmptySet DEF IInv, NumberInv
  <2>3. eq = entry[t].value
    BY <1>4, <2>1, <2>2 DEF hashMapGet
  <2> QED
    BY <1>4, <2>3 DEF IInv, EntryInv
<1>5. PassInv'
  <2>1. ASSUME NEW t \in due
        PROVE  /\ pc[t] \in {"registered", "ended"}
               /\ \/ t \in served' \/ TakenOver(t)
                  \/ Bucket(tid[t]) > index
                  \/ \E i \in 1..Len(rest) : rest[i] = t
    <3>1. t \in Thread /\ pc[t] \in {"registered", "ended"}
      BY <1>1 DEF IInv, TypeOK, PassInv
    <3>2. CASE lookup = tid[t]
      BY <1>1, <1>4, <3>1, <3>2
    <3>3. CASE lookup # tid[t]
      <4>1. \/ t \in served \/ TakenOver(t) \/ Bucket(tid[t]) > index
            \/ \E i \in 1..Len(rest) : rest[i] = t
        BY <1>1, <3>3 DEF IInv, PassInv
      <4> QED
        BY <1>1, <3>1, <4>1
    <3> QED
      BY <3>2, <3>3
  <2>2. index # Capacity
    BY <1>1 DEF IInv, PassInv
  <2> HIDE DEF eq
  <2> QED
    BY <1>1, <1>2, <2>1, <2>2 DEF PassInv, Bucket, TakenOver
<1>6. abort' # "assertion"
  BY <1>1 DEF Running
<1> QED
  BY <1>1, <1>3, <1>5, <1>6, CheckerStep

(***************************************************************************)
(* The theorems.                                                           *)
(***************************************************************************)
LEMMA InitIInv == Init => IInv
<1> SUFFICES ASSUME Init PROVE IInv
  OBVIOUS
<1>1. /\ \A t \in Thread : pc[t] = "absent" /\ head[t] = <<>>
      /\ \A b \in 0..Capacity - 1 : table[b] = <<>>
      /\ abort = "none" /\ index = Capacity /\ rest = <<>> /\ lookup = -1 /\ due = {}
      /\ count = 0 /\ size = 0
  BY DEF Init
<1>2. TypeOK
  <2>1. Cardinality(Thread) \in Nat
    BY CountThreads
  <2>2. Capacity \in -1..Capacity
    BY RegistryAssumption
  <2>3. [t \in Thread |-> [key |-> 0, value |-> NoThread]]
          \in [Thread -> [key : Key, value : Value]]
    <3>1. 0 \in Key
      BY Zenon DEF Key
    <3>2. NoThread \in Value
      BY DEF Value
    <3> QED
      BY <3>1, <3>2
  <2>4. /\ pc \in [Thread -> Point]
        /\ tid \in [Thread -> Tid \cup {0}]
        /\ threadCount \in [Thread -> -1..Cardinality(Thread)]
    BY <2>1 DEF Init, Point
  <2>5. head \in [Thread -> Seq(Thread)] /\ table \in [0..Capacity - 1 -> Seq(Thread)]
    BY DEF Init
  <2>6. rest \in Seq(Thread)
    BY <1>1
  <2>7. entry \in [Thread -> [key : Key, value : Value]]
    BY <2>3 DEF Init
  <2>a. abort \in AbortReason
    BY <1>1 DEF AbortReason
  <2>b. lock \in BOOLEAN
    BY DEF Init
  <2>8. count \in 0..Cardinality(Thread) /\ size \in 0..Cardinality(Thread)
    BY <1>1, <2>1
  <2>9. /\ index \in -1..Capacity /\ lookup \in Key \cup {-1}
        /\ served \subseteq Thread /\ due \subseteq Thread
    BY <1>1, <2>2 DEF Init
  <2> QED
    BY <2>4, <2>5, <2>6, <2>7, <2>8, <2>9, <2>a, <2>b DEF TypeOK
<1>3. LockInv /\ IdInv /\ EntryInv /\ ReuseInv
  BY <1>1 DEF LockInv, IdInv, EntryInv, ReuseInv, Inside, Alive, Linked, InTable
<1>4. NumberInv
  <2>1. Counted = {} /\ Sized = {}
    BY <1>1 DEF Counted, Sized, Early
  <2> QED
    BY <1>1, <2>1, FS_EmptySet DEF NumberInv, Numbered, Early
<1>5. TableInv
  BY <1>1 DEF TableInv, Linked, InTable
<1>6. PassInv
  BY <1>1 DEF PassInv
<1> QED
  BY <1>2, <1>3, <1>4, <1>5, <1>6 DEF IInv

LEMMA NextIInv == IInv /\ [Next]_vars => IInv'
<1> SUFFICES ASSUME IInv, [Next]_vars PROVE IInv'
  OBVIOUS
<1>1. CASE eventLoopEnter
  BY <1>1, StartPassIInv, NextBucketIInv, NextEntryIInv, ServeIInv DEF eventLoopEnter
<1>2. ASSUME NEW t \in Thread, Register(t)
      PROVE  IInv'
  BY <1>2, LockIInv, CountThreadIInv, LookupIInv, LinkIInv, CountEntryIInv, SetEntryKeyIInv,
     SetEntryValIInv, OverwriteIInv, UnlockIInv, RefuseIInv DEF Register
<1>3. ASSUME NEW t \in Thread, Start(t) \/ End(t)
      PROVE  IInv'
  BY <1>3, StartIInv, EndIInv
<1>4. CASE UNCHANGED vars
  <2>1. UNCHANGED writerVars /\ UNCHANGED <<abort, index, rest, lookup, served, due>>
    BY <1>4 DEF vars, checkerVars
  <2>2. UNCHANGED <<pc, tid, lock, count, threadCount, head, table, entry, size>>
    BY <2>1 DEF writerVars
  <2>3. TypeOK'
    BY <2>1, <2>2 DEF IInv, TypeOK
  <2>4. PassInv'
    BY <2>1, <2>2 DEF IInv, PassInv, Running, TakenOver, Bucket
  <2>5. CASE abort # "assertion"
    BY <2>1, <2>3, <2>4, <2>5, CheckerStep
  <2>6. CASE abort = "assertion"
    <3>1. LockInv' /\ IdInv' /\ EntryInv' /\ ReuseInv'
      BY <2>1, <2>2 DEF IInv, LockInv, IdInv, EntryInv, ReuseInv, Alive, Linked, TakenOver
    <3>2. NumberInv'
      BY <2>2 DEF IInv, NumberInv, Counted, Sized, Numbered
    <3>3. TableInv'
      BY <2>2, SameTable DEF Linked
    <3> QED
      BY <2>3, <2>4, <3>1, <3>2, <3>3 DEF IInv
  <2> QED
    BY <2>5, <2>6
<1> QED
  BY <1>1, <1>2, <1>3, <1>4 DEF Next

LEMMA Inductive == Spec => []IInv
BY InitIInv, NextIInv, PTL DEF Spec

\* The types, for any number of threads, ids and buckets.
THEOREM TypeCorrect == Spec => []TypeOK
<1>1. IInv => TypeOK
  BY DEF IInv
<1> QED
  BY <1>1, Inductive, PTL

\* Registrations at the same time lose nothing.
THEOREM NoEntryLostHolds == Spec => []NoEntryLost
<1>1. ASSUME IInv
      PROVE  NoEntryLost
  <2>1. ASSUME NEW t \in Registered
        PROVE  \E p \in EntriesOf(t) : EntriesOf(t) = {p} /\ p[1] = Bucket(tid[t])
    <3> DEFINE b == Bucket(tid[t])
               n == Cardinality(Thread)
    <3>1. t \in Thread /\ Linked(t)
      BY DEF Registered, Linked, InTable
    <3>2. b \in 0..Capacity - 1
      BY <1>1, <3>1, KeyType, BucketType DEF IInv, IdInv, Linked, InTable
    <3>3. PICK i \in 1..Len(table[b]) : table[b][i] = t
      BY <1>1, <3>1 DEF IInv, TableInv
    <3>4. \A c \in 0..Capacity - 1 : table[c] \in Seq(Thread) /\ DOMAIN table[c] = 1..Len(table[c])
      <4> TAKE c \in 0..Capacity - 1
      <4>1. table[c] \in Seq(Thread)
        BY <1>1 DEF IInv, TypeOK
      <4> QED
        BY <4>1
    <3>5. Len(table[b]) <= n /\ n \in Nat /\ Len(table[b]) \in Nat
      <4> DEFINE m == Len(table[b])
      <4>1. m \in Nat /\ table[b] \in [1..m -> Thread]
        BY <3>2, <3>4
      <4>2. \A j, k \in 1..m : table[b][j] = table[b][k] => j = k
        BY <1>1, <3>2 DEF IInv, TableInv
      <4>3. table[b] \in Injection(1..m, Thread)
        BY <4>1, <4>2 DEF Injection, IsInjective
      <4>4. Cardinality(1..m) <= n
        BY <4>3, FS_Injection, RegistryAssumption
      <4>5. Cardinality(1..m) = m
        BY <4>1, FS_Interval
      <4> QED
        BY <4>1, <4>4, <4>5, CountThreads
    <3>6. <<b, i>> \in EntriesOf(t)
      BY <3>2, <3>3, <3>4, <3>5 DEF EntriesOf
    <3>7. ASSUME NEW p \in EntriesOf(t)
          PROVE  p = <<b, i>>
      <4>1. /\ p = <<p[1], p[2]>> /\ p[1] \in 0..Capacity - 1
            /\ p[2] \in 1..Len(table[p[1]]) /\ table[p[1]][p[2]] = t
        BY <3>4 DEF EntriesOf
      <4>2. p[1] = b
        BY <1>1, <4>1 DEF IInv, TableInv
      <4>3. p[2] = i
        BY <1>1, <3>2, <3>3, <4>1, <4>2 DEF IInv, TableInv
      <4> QED
        BY <4>1, <4>2, <4>3
    <3> QED
      BY <3>6, <3>7
  <2>2. ASSUME NEW t \in Registered
        PROVE  /\ entry[t].key = tid[t]
               /\ entry[t].value = t \/ TakenOver(t)
               /\ \A u \in Registered \ {t} : threadCount[u] # threadCount[t]
    BY <1>1 DEF IInv, EntryInv, NumberInv, Numbered, Early, Registered
  <2>3. ~lock => size = Cardinality(Registered)
    <3>1. ~lock => Sized = Registered
      BY <1>1 DEF IInv, LockInv, Inside, Sized, Registered
    <3> QED
      BY <1>1, <3>1 DEF IInv, NumberInv
  <2> QED
    BY <2>1, <2>2, <2>3 DEF NoEntryLost
<1> QED
  BY <1>1, Inductive, PTL

\* A pass misses no queue that was registered when it began.
THEOREM PassIsCompleteHolds == Spec => []PassIsComplete
<1>1. ASSUME IInv
      PROVE  PassIsComplete
  <2> SUFFICES ASSUME Running, index = Capacity, NEW t \in due
               PROVE  t \in served \/ TakenOver(t)
    BY DEF PassIsComplete
  <2>1. t \in Thread /\ pc[t] \in {"registered", "ended"}
    <3>1. t \in Thread
      BY <1>1 DEF IInv, TypeOK
    <3> QED
      BY <1>1, <3>1 DEF IInv, PassInv
  <2>2. tid[t] # -1 /\ Bucket(tid[t]) \in 0..Capacity - 1
    <3>1. tid[t] \in Tid
      BY <1>1, <2>1 DEF IInv, IdInv
    <3>2. tid[t] \in Nat
      BY <3>1, KeyType
    <3>3. Bucket(tid[t]) \in 0..Capacity - 1
      BY <3>2, BucketType
    <3> QED
      BY <3>2, <3>3
  <2>3. rest = <<>> /\ lookup = -1
    BY <1>1 DEF IInv, PassInv
  <2>4. ~(Bucket(tid[t]) > index)
    BY <2>2, RegistryAssumption
  <2>5. ~\E i \in 1..Len(rest) : rest[i] = t
    BY <2>3
  <2> QED
    BY <1>1, <2>2, <2>3, <2>4, <2>5 DEF IInv, PassInv
<1> QED
  BY <1>1, Inductive, PTL

\* The assert of dispatcherInit fails only when an id has come back.
THEOREM RefusedOnlyOnReuseHolds == Spec => []RefusedOnlyOnReuse
<1>1. IInv => RefusedOnlyOnReuse
  BY DEF IInv, ReuseInv, RefusedOnlyOnReuse
<1> QED
  BY <1>1, Inductive, PTL
=============================================================================
