--------------------------- MODULE MemPoolProofs ---------------------------
(***************************************************************************)
(* Theorems about MemPool.                                                 *)
(***************************************************************************)
EXTENDS MemPool, FiniteSetTheorems, TLAPS

(***************************************************************************)
(* The inductive invariant.                                                *)
(***************************************************************************)
\* s leads from the block "first" along the pointers h to NULL; it runs through
\* the n blocks of S, each once.
Chain(n, s, first, h, S) ==
  /\ \A i, j \in 1 .. n : s[i] = s[j] => i = j
  /\ first = IF n = 0 THEN NULL ELSE s[1]
  /\ \A i \in 1 .. n : h[s[i]] = IF i = n THEN NULL ELSE s[i + 1]
  /\ S = {s[i] : i \in 1 .. n}
  /\ Cardinality(S) = n

\* The spin lock: exactly the thread that has it is inside a call.
LockInv == \A t \in Thread : pc[t] \in Critical <=> lock = t

\* What is in nobody's hands is on the list, also in the middle of a call.
ListInv ==
  \E n \in 0 .. total_blocks : \E s \in [1 .. n -> Block] :
    Chain(n, s, block_list, header, Listed)

\* The counter is changed after the list: in between it is one behind.
CountInv ==
  /\ \A t \in Thread :
       /\ pc[t] \in {"claim", "account"} => free_blocks = Cardinality(Listed) + 1
       /\ pc[t] = "count" => free_blocks = Cardinality(Listed) - 1
  /\ (\A t \in Thread : pc[t] \notin {"claim", "account", "count"})
        => free_blocks = Cardinality(Listed)

\* The block that a call is about: nobody has it, and what it points to.
CallInv ==
  \A t \in Thread :
    /\ block_ptr[t] = NULL <=> pc[t] \in {"idle", "null", "alloc", "refused"}
    /\ \A u \in Thread : block_ptr[t] \notin live[u]
    /\ pc[t] \in {"unlink", "count"} => block_list = block_ptr[t]
    /\ pc[t] \in {"account", "given", "free", "link"} => header[block_ptr[t]] = mp
    /\ pc[t] = "push" => header[block_ptr[t]] = block_list

IInv ==
  /\ TypeOK
  /\ LockInv
  /\ CallInv
  /\ BlocksDisjoint
  /\ ListInv
  /\ CountInv
  /\ AssertsHold

(***************************************************************************)
(* Facts about lists of blocks.                                            *)
(***************************************************************************)
\* Blocks can be counted.
LEMMA CountBlocks ==
  ASSUME NEW S \in SUBSET Block
  PROVE  /\ IsFiniteSet(S)
         /\ Cardinality(S) \in 0 .. total_blocks
         /\ Cardinality(S) = 0 <=> S = {}
         /\ S # Block => Cardinality(S) < total_blocks
         /\ \A b \in S : Cardinality(S \ {b}) = Cardinality(S) - 1
         /\ \A b \in Block \ S : Cardinality(S \cup {b}) = Cardinality(S) + 1
<1>1. IsFiniteSet(Block) /\ Cardinality(Block) = total_blocks
  <2>1. total_blocks \in Int /\ total_blocks >= 1 /\ 1 \in Int
    BY MemPoolAssumption
  <2> QED
    BY <2>1, FS_Interval DEF Block
<1>2. /\ IsFiniteSet(S)
      /\ Cardinality(S) <= Cardinality(Block)
      /\ Cardinality(Block) = Cardinality(S) => Block = S
  BY <1>1, FS_Subset
<1>3. Cardinality(S) \in Nat /\ total_blocks \in Nat
  BY <1>2, FS_CardinalityType, MemPoolAssumption
<1>4. Cardinality(S) \in 0 .. total_blocks /\ (S # Block => Cardinality(S) < total_blocks)
  BY <1>1, <1>2, <1>3
<1>5. \A b \in S : Cardinality(S \ {b}) = Cardinality(S) - 1
  BY <1>2, FS_RemoveElement
<1>6. \A b \in Block \ S : Cardinality(S \cup {b}) = Cardinality(S) + 1
  BY <1>2, FS_AddElement
<1> QED
  BY <1>2, <1>4, <1>5, <1>6, FS_EmptySet

\* What the blocks of the list do not point to is of no importance.
LEMMA ChainKept ==
  ASSUME NEW n \in 0 .. total_blocks, NEW s \in [1 .. n -> Block],
         NEW S, NEW first, NEW h, NEW g,
         Chain(n, s, first, h, S),
         \A b \in S : g[b] = h[b]
  PROVE  Chain(n, s, first, g, S)
BY DEF Chain

\* The list without its first block.
LEMMA ChainTail ==
  ASSUME NEW n \in 0 .. total_blocks, NEW s \in [1 .. n -> Block],
         NEW S, NEW first \in Block, NEW h,
         Chain(n, s, first, h, S)
  PROVE  /\ first \in S
         /\ \E m \in 0 .. total_blocks : \E r \in [1 .. m -> Block] :
              Chain(m, r, h[first], h, S \ {first})
<1> DEFINE m == n - 1
           r == [i \in 1 .. m |-> s[i + 1]]
<1>1. n \in Nat /\ first \in Nat \ {0}
  BY MemPoolAssumption DEF Block
<1>2. n # 0 /\ first = s[1] /\ m \in 0 .. total_blocks /\ 1 \in 1 .. n
  BY <1>1, MemPoolAssumption DEF Chain, NULL
<1>3. first \in S
  BY <1>2 DEF Chain
<1>4. \A i \in 1 .. m : i + 1 \in 1 .. n /\ r[i] = s[i + 1] /\ i + 1 # 1
  BY <1>1, <1>2
<1>5. r \in [1 .. m -> Block]
  BY <1>4
<1>6. h[first] = IF m = 0 THEN NULL ELSE r[1]
  <2>1. h[s[1]] = IF 1 = n THEN NULL ELSE s[2]
    BY <1>2 DEF Chain
  <2>2. m # 0 => r[1] = s[2]
    BY <1>1, <1>2
  <2> QED
    BY <1>1, <1>2, <2>1, <2>2
<1>7. \A i \in 1 .. m : h[r[i]] = IF i = m THEN NULL ELSE r[i + 1]
  <2> TAKE i \in 1 .. m
  <2>1. h[s[i + 1]] = IF i + 1 = n THEN NULL ELSE s[i + 1 + 1]
    BY <1>4 DEF Chain
  <2>2. i # m => r[i + 1] = s[i + 1 + 1]
    BY <1>1, <1>2
  <2> QED
    BY <1>1, <1>4, <2>1, <2>2
<1>8. S \ {first} = {r[i] : i \in 1 .. m}
  <2>1. ASSUME NEW b \in S \ {first}
        PROVE  b \in {r[i] : i \in 1 .. m}
    <3>1. PICK j \in 1 .. n : b = s[j]
      BY DEF Chain
    <3>2. j # 1
      BY <1>2, <3>1
    <3>3. j - 1 \in 1 .. m /\ r[j - 1] = s[j]
      BY <1>1, <3>2
    <3> QED
      BY <3>1, <3>3
  <2>2. ASSUME NEW i \in 1 .. m
        PROVE  r[i] \in S \ {first}
    BY <1>2, <1>4 DEF Chain
  <2> QED
    BY <2>1, <2>2
<1>9. Cardinality(S \ {first}) = m
  <2>1. S \in SUBSET Block
    BY DEF Chain
  <2> QED
    BY <2>1, <1>3, CountBlocks, ZenonT(60) DEF Chain
<1>10. \A i, j \in 1 .. m : r[i] = r[j] => i = j
  BY <1>1, <1>2, <1>4 DEF Chain
<1>11. Chain(m, r, h[first], h, S \ {first})
  <2> HIDE DEF m, r
  <2> QED
    BY <1>6, <1>7, <1>8, <1>9, <1>10 DEF Chain
<1> QED
  BY <1>2, <1>3, <1>5, <1>11

\* The list with a block in front.
LEMMA ChainPush ==
  ASSUME NEW n \in 0 .. total_blocks, NEW s \in [1 .. n -> Block],
         NEW S, NEW first, NEW h, NEW b \in Block,
         Chain(n, s, first, h, S),
         b \notin S,
         h[b] = first
  PROVE  \E m \in 0 .. total_blocks : \E r \in [1 .. m -> Block] :
           Chain(m, r, b, h, S \cup {b})
<1> DEFINE m == n + 1
           r == [i \in 1 .. m |-> IF i = 1 THEN b ELSE s[i - 1]]
<1>1. n \in Nat
  OBVIOUS
<1>2. S \in SUBSET Block /\ Cardinality(S) = n
  BY DEF Chain
<1>3. Cardinality(S \cup {b}) = m /\ m \in 0 .. total_blocks
  BY <1>2, CountBlocks
<1>4. r[1] = b /\ \A i \in 1 .. m : i # 1 => i - 1 \in 1 .. n /\ r[i] = s[i - 1]
  BY <1>1
<1>5. r \in [1 .. m -> Block]
  BY <1>1
<1>6. \A i, j \in 1 .. m : r[i] = r[j] => i = j
  <2>1. \A i \in 1 .. n : s[i] # b
    BY DEF Chain
  <2>2. \A i, j \in 1 .. n : s[i] = s[j] => i = j
    BY DEF Chain
  <2> HIDE DEF r
  <2> QED
    BY <1>1, <1>4, <2>1, <2>2
<1>7. \A i \in 1 .. m : h[r[i]] = IF i = m THEN NULL ELSE r[i + 1]
  <2> TAKE i \in 1 .. m
  <2>1. i + 1 \in 1 .. m \/ i = m
    BY <1>1
  <2>2. i # m => r[i + 1] = s[i]
    BY <1>1, <1>4, <2>1
  <2>3. CASE i = 1
    BY <1>1, <1>4, <2>2, <2>3 DEF Chain
  <2>4. CASE i # 1
    <3>1. h[s[i - 1]] = IF i - 1 = n THEN NULL ELSE s[i - 1 + 1]
      BY <1>4, <2>4 DEF Chain
    <3> QED
      BY <1>1, <1>4, <2>2, <2>4, <3>1
  <2> QED
    BY <2>3, <2>4
<1>8. S \cup {b} = {r[i] : i \in 1 .. m}
  <2>1. ASSUME NEW c \in S
        PROVE  c \in {r[i] : i \in 1 .. m}
    <3>1. PICK j \in 1 .. n : c = s[j]
      BY DEF Chain
    <3>2. j + 1 \in 1 .. m /\ r[j + 1] = s[j]
      BY <1>1
    <3> QED
      BY <3>1, <3>2
  <2>2. b \in {r[i] : i \in 1 .. m}
    BY <1>1, <1>4
  <2>3. ASSUME NEW i \in 1 .. m
        PROVE  r[i] \in S \cup {b}
    BY <1>4 DEF Chain
  <2> QED
    BY <2>1, <2>2, <2>3
<1>9. b = IF m = 0 THEN NULL ELSE r[1]
  BY <1>1, <1>4
<1>10. Chain(m, r, b, h, S \cup {b})
  <2> HIDE DEF m, r
  <2> QED
    BY <1>3, <1>6, <1>7, <1>8, <1>9 DEF Chain
<1> QED
  BY <1>3, <1>5, <1>10

(***************************************************************************)
(* The thread that has the lock is alone inside the pool.                  *)
(***************************************************************************)
\* The blocks on the list when t is the only thread inside.
ListedBeside(b, place) ==
  {c \in Block : /\ \A u \in Thread : c \notin live[u]
                 /\ ~(b = c /\ place \notin {"unlink", "count", "freed"})}

\* The others are outside, so that the counter and the list depend on t alone.
LEMMA Alone ==
  ASSUME IInv, NEW t \in Thread, pc[t] \in Critical
  PROVE  /\ lock = t
         /\ \A u \in Thread \ {t} : pc[u] \in {"idle", "null"} /\ block_ptr[u] = NULL
         /\ Listed = ListedBeside(block_ptr[t], pc[t])
         /\ pc[t] \notin {"claim", "account", "count"} => free_blocks = Cardinality(Listed)
<1>1. lock = t
  BY DEF IInv, LockInv
<1>2. \A u \in Thread \ {t} : pc[u] \in {"idle", "null"}
  BY <1>1 DEF IInv, TypeOK, LockInv
<1>3. \A u \in Thread \ {t} : block_ptr[u] = NULL
  BY <1>2 DEF IInv, CallInv
<1>4. NULL \notin Block
  BY DEF Block, NULL
<1>5. Listed = ListedBeside(block_ptr[t], pc[t])
  BY <1>3, <1>4 DEF Listed, ListedBeside
<1> QED
  BY <1>1, <1>2, <1>3, <1>5 DEF IInv, CountInv

\* A step of a thread that has the lock and keeps it.
LEMMA Inside ==
  ASSUME IInv, NEW t \in Thread, NEW from \in Critical, NEW to \in Critical,
         Goto(t, from, to), UNCHANGED <<lock, live>>,
         block_ptr' \in [Thread -> Block \cup {NULL}],
         \A u \in Thread \ {t} : block_ptr'[u] = block_ptr[u]
  PROVE  /\ pc[t] = from /\ pc'[t] = to
         /\ pc' \in [Thread -> Critical \cup {"idle", "null"}]
         /\ \A u \in Thread \ {t} : /\ pc[u] \in {"idle", "null"} /\ pc'[u] = pc[u]
                                    /\ block_ptr[u] = NULL /\ block_ptr'[u] = NULL
         /\ LockInv'
         /\ Listed = ListedBeside(block_ptr[t], from)
         /\ Listed' = ListedBeside(block_ptr'[t], to)
<1>1. pc[t] = from /\ pc'[t] = to /\ pc' \in [Thread -> Critical \cup {"idle", "null"}]
  BY DEF Goto, IInv, TypeOK
<1>2. \A u \in Thread \ {t} : /\ pc[u] \in {"idle", "null"} /\ pc'[u] = pc[u]
                              /\ block_ptr[u] = NULL /\ block_ptr'[u] = NULL
  BY <1>1, Alone DEF Goto, IInv, TypeOK
<1>3. LockInv'
  BY <1>1, <1>2, Alone DEF LockInv, Critical, Allocating, Freeing, Leaving
<1>4. NULL \notin Block
  BY DEF Block, NULL
<1>5. Listed' = ListedBeside(block_ptr'[t], to)
  BY <1>1, <1>2, <1>4 DEF Listed, ListedBeside
<1> QED
  BY <1>1, <1>2, <1>3, <1>5, Alone

\* Where the counter stands after a step of the only thread inside.
LEMMA CountAlone ==
  ASSUME NEW t \in Thread,
         \A u \in Thread \ {t} : pc'[u] \in {"idle", "null"},
         pc'[t] \in {"claim", "account"} => free_blocks' = Cardinality(Listed') + 1,
         pc'[t] = "count" => free_blocks' = Cardinality(Listed') - 1,
         pc'[t] \notin {"claim", "account", "count"} => free_blocks' = Cardinality(Listed')
  PROVE  CountInv'
BY DEF CountInv

(***************************************************************************)
(* The steps of memPoolAlloc.                                              *)
(***************************************************************************)
LEMMA AllocBeginIInv ==
  ASSUME IInv, NEW t \in Thread, AllocBegin(t)
  PROVE  IInv'
<1> USE DEF AllocBegin, Goto, acquire, poolVars
<1>1. pc[t] = "idle" /\ lock = NoThread /\ lock' = t
  OBVIOUS
<1>2. TypeOK'
  BY DEF IInv, TypeOK, Critical, Allocating
<1>3. \A u \in Thread : pc[u] \in {"idle", "null"}
  BY <1>1, ProcessAssumption DEF IInv, TypeOK, LockInv
<1>4. pc'[t] = "alloc" /\ \A u \in Thread \ {t} : pc'[u] = pc[u]
  BY DEF IInv, TypeOK
<1>5. LockInv'
  BY <1>1, <1>3, <1>4 DEF LockInv, Critical, Allocating, Freeing, Leaving
<1>6. CallInv'
  BY <1>1, <1>4 DEF IInv, CallInv
<1>7. Listed' = Listed
  BY <1>1, <1>3, <1>4 DEF Listed, IInv, CallInv
<1>8. CountInv'
  BY <1>3, <1>4, <1>7 DEF CountInv, IInv
<1> QED
  BY <1>2, <1>5, <1>6, <1>7, <1>8 DEF IInv, BlocksDisjoint, ListInv, AssertsHold

\* The test leaves the pool as it is: the assert holds, and a request is
\* refused only if the list is empty.
LEMMA AllocTestIInv ==
  ASSUME IInv, NEW t \in Thread, AllocTest(t)
  PROVE  /\ IInv'
         /\ err' # err => pc[t] = "alloc" /\ Listed = {}
<1>1. pc[t] = "alloc" /\ block_ptr[t] = NULL /\ t \in Thread /\ abort = "none"
  BY DEF AllocTest, Goto, IInv, CallInv, Running
<1>2. free_blocks = Cardinality(Listed)
  BY <1>1, Alone DEF Critical, Allocating
<1>3. Listed \in SUBSET Block
  BY DEF Listed
<1>4. Cardinality(Listed) \in 0 .. total_blocks /\ (Cardinality(Listed) = 0 <=> Listed = {})
  BY <1>3, CountBlocks
<1>list. PICK n \in 0 .. total_blocks : \E s \in [1 .. n -> Block] :
        Chain(n, s, block_list, header, Listed)
  BY DEF IInv, ListInv
<1>5. PICK s \in [1 .. n -> Block] :
        Chain(n, s, block_list, header, Listed)
  BY <1>list
<1>6. NULL \notin Block
  BY DEF Block, NULL
<1>7. n = Cardinality(Listed) /\ (block_list = NULL <=> n = 0)
  <2>1. n # 0 => s[1] \in Block
    OBVIOUS
  <2> QED
    BY <1>5, <1>6, <2>1 DEF Chain
<1>8. CASE /\ Goto(t, "alloc", "refused")
           /\ err' = err + 1
           /\ UNCHANGED <<abort, block_ptr>>
           /\ free_blocks <= 0 \/ block_list = NULL
  <2>1. UNCHANGED <<header, block_list, free_blocks, lock, live>>
    BY DEF AllocTest
  <2>2. /\ pc[t] = "alloc" /\ pc'[t] = "refused"
        /\ pc' \in [Thread -> Critical \cup {"idle", "null"}]
        /\ \A u \in Thread \ {t} : /\ pc[u] \in {"idle", "null"} /\ pc'[u] = pc[u]
                                   /\ block_ptr[u] = NULL /\ block_ptr'[u] = NULL
        /\ LockInv'
        /\ Listed = ListedBeside(block_ptr[t], "alloc")
        /\ Listed' = ListedBeside(block_ptr'[t], "refused")
    BY <1>8, <2>1, Inside DEF Critical, Allocating, Leaving, IInv, TypeOK
  <2>3. TypeOK'
    BY <1>8, <2>1, <2>2 DEF IInv, TypeOK
  <2>4. Listed' = Listed
    BY <1>8, <2>2 DEF ListedBeside
  <2>5. CallInv'
    BY <1>1, <1>8, <2>1, <2>2 DEF IInv, CallInv
  <2>6. CountInv'
    BY <1>2, <2>1, <2>2, <2>4, CountAlone
  <2>7. Listed = {}
    BY <1>2, <1>4, <1>7, <1>8
  <2> QED
    BY <1>1, <1>8, <2>1, <2>2, <2>3, <2>4, <2>5, <2>6, <2>7
       DEF IInv, BlocksDisjoint, ListInv, AssertsHold
<1>9. CASE /\ Goto(t, "alloc", "unlink")
           /\ block_list # NULL
           /\ block_ptr' = [block_ptr EXCEPT ![t] = block_list]
           /\ UNCHANGED <<abort, err>>
  <2>1. UNCHANGED <<header, block_list, free_blocks, lock, live>>
    BY DEF AllocTest
  <2>2. block_list \in Block
    BY <1>9 DEF IInv, TypeOK
  <2>3. block_ptr' \in [Thread -> Block \cup {NULL}] /\ block_ptr'[t] = block_list
        /\ \A u \in Thread \ {t} : block_ptr'[u] = block_ptr[u]
    BY <1>9, <2>2 DEF IInv, TypeOK
  <2>4. /\ pc[t] = "alloc" /\ pc'[t] = "unlink"
        /\ pc' \in [Thread -> Critical \cup {"idle", "null"}]
        /\ \A u \in Thread \ {t} : /\ pc[u] \in {"idle", "null"} /\ pc'[u] = pc[u]
                                   /\ block_ptr[u] = NULL /\ block_ptr'[u] = NULL
        /\ LockInv'
        /\ Listed = ListedBeside(block_ptr[t], "alloc")
        /\ Listed' = ListedBeside(block_ptr'[t], "unlink")
    BY <1>9, <2>1, <2>3, Inside DEF Critical, Allocating
  <2>5. TypeOK'
    BY <1>9, <2>1, <2>3, <2>4 DEF IInv, TypeOK
  <2>6. Listed' = Listed
    BY <1>1, <1>6, <2>4 DEF ListedBeside
  <2>7. block_list \in Listed
    BY <1>5, <2>2, ChainTail
  <2>8. CallInv'
    <3>1. NULL # block_list /\ \A u \in Thread : block_list \notin live[u]
      BY <2>7, <1>6, <2>2 DEF Listed
    <3> QED
      BY <1>9, <2>1, <2>3, <2>4, <3>1 DEF IInv, CallInv
  <2>9. CountInv'
    BY <1>2, <2>1, <2>4, <2>6, CountAlone
  <2> QED
    BY <1>1, <1>9, <2>1, <2>4, <2>5, <2>6, <2>8, <2>9
       DEF IInv, BlocksDisjoint, ListInv, AssertsHold
<1>10. ~(free_blocks > total_blocks)
  BY <1>2, <1>4, MemPoolAssumption
<1> QED
  BY <1>8, <1>9, <1>10 DEF AllocTest

LEMMA UnlinkIInv ==
  ASSUME IInv, NEW t \in Thread, Unlink(t)
  PROVE  IInv'
<1> DEFINE b == block_ptr[t]
<1>1. /\ Goto(t, "unlink", "claim")
      /\ UNCHANGED <<abort, header, free_blocks, err, lock, block_ptr, live>>
      /\ block_list' = header[b]
  BY DEF Unlink
<1>2. /\ pc[t] = "unlink" /\ pc'[t] = "claim"
      /\ pc' \in [Thread -> Critical \cup {"idle", "null"}]
      /\ \A u \in Thread \ {t} : /\ pc[u] \in {"idle", "null"} /\ pc'[u] = pc[u]
                                 /\ block_ptr[u] = NULL /\ block_ptr'[u] = NULL
      /\ LockInv'
      /\ Listed = ListedBeside(block_ptr[t], "unlink")
      /\ Listed' = ListedBeside(block_ptr'[t], "claim")
  BY <1>1, Inside DEF Critical, Allocating, IInv, TypeOK
<1>3. b \in Block /\ b = block_list /\ NULL \notin Block
  BY <1>2 DEF IInv, TypeOK, CallInv, Block, NULL
<1>4. Listed' = Listed \ {b}
  BY <1>1, <1>2 DEF ListedBeside
<1>list. PICK n \in 0 .. total_blocks : \E s \in [1 .. n -> Block] :
        Chain(n, s, block_list, header, Listed)
  BY DEF IInv, ListInv
<1>5. PICK s \in [1 .. n -> Block] :
        Chain(n, s, block_list, header, Listed)
  BY <1>list
<1>6. /\ b \in Listed
      /\ \E m \in 0 .. total_blocks : \E r \in [1 .. m -> Block] :
           Chain(m, r, header[b], header, Listed \ {b})
  BY <1>3, <1>5, ChainTail
<1>7. ListInv'
  BY <1>1, <1>4, <1>6 DEF ListInv
<1>8. header[b] \in Block \cup {NULL}
  <2>list. PICK m \in 0 .. total_blocks : \E r \in [1 .. m -> Block] :
          Chain(m, r, header[b], header, Listed \ {b})
    BY <1>6
  <2>1. PICK r \in [1 .. m -> Block] :
          Chain(m, r, header[b], header, Listed \ {b})
    BY <2>list
  <2>2. header[b] = IF m = 0 THEN NULL ELSE r[1]
    BY <2>1 DEF Chain
  <2> QED
    BY <2>2
<1>9. TypeOK'
  BY <1>1, <1>2, <1>8 DEF IInv, TypeOK
<1>10. CallInv'
  BY <1>1, <1>2 DEF IInv, CallInv
<1>11. CountInv'
  <2>1. Listed \in SUBSET Block
    BY DEF Listed
  <2>2. Cardinality(Listed \ {b}) = Cardinality(Listed) - 1 /\ Cardinality(Listed) \in Nat
    BY <1>6, <2>1, CountBlocks
  <2>3. free_blocks = Cardinality(Listed)
    BY <1>2, Alone DEF Critical, Allocating
  <2>4. free_blocks' = Cardinality(Listed') + 1
    BY <1>1, <1>4, <2>2, <2>3
  <2> QED
    BY <1>2, <2>4, CountAlone
<1> QED
  BY <1>1, <1>2, <1>7, <1>9, <1>10, <1>11 DEF IInv, BlocksDisjoint, AssertsHold

LEMMA ClaimIInv ==
  ASSUME IInv, NEW t \in Thread, Claim(t)
  PROVE  IInv'
<1> DEFINE b == block_ptr[t]
<1>1. /\ Goto(t, "claim", "account")
      /\ UNCHANGED <<abort, block_list, free_blocks, err, lock, block_ptr, live>>
      /\ header' = [header EXCEPT ![b] = mp]
  BY DEF Claim
<1>2. /\ pc[t] = "claim" /\ pc'[t] = "account"
      /\ pc' \in [Thread -> Critical \cup {"idle", "null"}]
      /\ \A u \in Thread \ {t} : /\ pc[u] \in {"idle", "null"} /\ pc'[u] = pc[u]
                                 /\ block_ptr[u] = NULL /\ block_ptr'[u] = NULL
      /\ LockInv'
      /\ Listed = ListedBeside(block_ptr[t], "claim")
      /\ Listed' = ListedBeside(block_ptr'[t], "account")
  BY <1>1, Inside DEF Critical, Allocating, IInv, TypeOK
<1>3. b \in Block
  BY <1>2 DEF IInv, TypeOK, CallInv
<1>4. Listed' = Listed /\ b \notin Listed
  BY <1>1, <1>2 DEF ListedBeside
<1>5. header'[b] = mp /\ \A c \in Block \ {b} : header'[c] = header[c]
  BY <1>1, <1>3 DEF IInv, TypeOK
<1>6. TypeOK'
  BY <1>1, <1>2 DEF IInv, TypeOK
<1>7. CallInv'
  BY <1>1, <1>2, <1>5 DEF IInv, CallInv
<1>8. ListInv'
  <2>list. PICK n \in 0 .. total_blocks : \E s \in [1 .. n -> Block] :
          Chain(n, s, block_list, header, Listed)
    BY DEF IInv, ListInv
  <2>1. PICK s \in [1 .. n -> Block] :
          Chain(n, s, block_list, header, Listed)
    BY <2>list
  <2>2. \A c \in Listed : header'[c] = header[c]
    BY <1>4, <1>5 DEF Listed
  <2>3. Chain(n, s, block_list, header', Listed)
    BY <2>1, <2>2, ChainKept
  <2> QED
    BY <1>1, <1>4, <2>3 DEF ListInv
<1>9. BlocksDisjoint'
  BY <1>1, <1>5 DEF IInv, TypeOK, BlocksDisjoint, CallInv
<1>10. CountInv'
  BY <1>1, <1>2, <1>4, CountAlone DEF IInv, CountInv
<1> QED
  BY <1>1, <1>2, <1>6, <1>7, <1>8, <1>9, <1>10 DEF IInv, AssertsHold

LEMMA AccountIInv ==
  ASSUME IInv, NEW t \in Thread, Account(t)
  PROVE  IInv'
<1>1. /\ Goto(t, "account", "given")
      /\ UNCHANGED <<abort, header, block_list, err, lock, block_ptr, live>>
      /\ free_blocks' = free_blocks - 1
  BY DEF Account
<1>2. /\ pc[t] = "account" /\ pc'[t] = "given"
      /\ pc' \in [Thread -> Critical \cup {"idle", "null"}]
      /\ \A u \in Thread \ {t} : /\ pc[u] \in {"idle", "null"} /\ pc'[u] = pc[u]
                                 /\ block_ptr[u] = NULL /\ block_ptr'[u] = NULL
      /\ LockInv'
      /\ Listed = ListedBeside(block_ptr[t], "account")
      /\ Listed' = ListedBeside(block_ptr'[t], "given")
  BY <1>1, Inside DEF Critical, Allocating, Leaving, IInv, TypeOK
<1>3. Listed' = Listed
  BY <1>1, <1>2 DEF ListedBeside
<1>4. Cardinality(Listed) \in 0 .. total_blocks
  BY CountBlocks DEF Listed
<1>5. free_blocks' = Cardinality(Listed)
  BY <1>1, <1>2, <1>4 DEF IInv, CountInv
<1>6. TypeOK'
  BY <1>1, <1>2, <1>4, <1>5 DEF IInv, TypeOK
<1>7. CallInv'
  BY <1>1, <1>2 DEF IInv, CallInv
<1>8. CountInv'
  BY <1>2, <1>3, <1>5, CountAlone
<1> QED
  BY <1>1, <1>2, <1>3, <1>6, <1>7, <1>8 DEF IInv, BlocksDisjoint, ListInv, AssertsHold

\* The block passes from the call to its caller, which it points to the pool for.
LEMMA AllocEndIInv ==
  ASSUME IInv, NEW t \in Thread, AllocEnd(t)
  PROVE  IInv'
<1> DEFINE b == block_ptr[t]
<1>1. /\ UNCHANGED <<abort, header, block_list, free_blocks, err>>
      /\ lock' = NoThread
      /\ block_ptr' = [block_ptr EXCEPT ![t] = NULL]
      /\ pc[t] \in {"given", "refused"}
      /\ pc' = [pc EXCEPT ![t] = IF pc[t] = "given" THEN "idle" ELSE "null"]
      /\ pc[t] = "given" => live' = [live EXCEPT ![t] = @ \cup {b}]
      /\ pc[t] = "refused" => live' = live
  BY DEF AllocEnd, Goto, releaseLock, poolVars
<1>2. /\ lock = t
      /\ \A u \in Thread \ {t} : pc[u] \in {"idle", "null"} /\ block_ptr[u] = NULL
      /\ Listed = ListedBeside(b, pc[t])
      /\ free_blocks = Cardinality(Listed)
  BY <1>1, Alone DEF Critical, Leaving
<1>3. /\ pc' \in [Thread -> Critical \cup {"idle", "null"}]
      /\ \A u \in Thread : pc'[u] \in {"idle", "null"} /\ block_ptr'[u] = NULL
      /\ block_ptr' \in [Thread -> Block \cup {NULL}]
  BY <1>1, <1>2 DEF IInv, TypeOK
<1>4. NULL \notin Block /\ (pc[t] = "given" => b \in Block)
  BY DEF IInv, TypeOK, CallInv, Block, NULL
<1>5. /\ live' \in [Thread -> SUBSET Block]
      /\ \A u \in Thread : live'[u] = IF u = t /\ pc[t] = "given" THEN live[u] \cup {b} ELSE live[u]
  <2>1. live \in [Thread -> SUBSET Block]
    BY DEF IInv, TypeOK
  <2>2. CASE pc[t] = "given"
    BY <1>1, <1>4, <2>1, <2>2
  <2>3. CASE pc[t] = "refused"
    BY <1>1, <2>1, <2>3
  <2> QED
    BY <1>1, <2>2, <2>3
<1>6. TypeOK'
  BY <1>1, <1>3, <1>5 DEF IInv, TypeOK
<1>7. LockInv'
  BY <1>1, <1>3, ProcessAssumption DEF LockInv, Critical, Allocating, Freeing, Leaving
<1>8. CallInv'
  <2>1. \A u \in Thread : NULL \notin live'[u]
    BY <1>4, <1>5
  <2> QED
    BY <1>3, <2>1 DEF CallInv
<1>9. Listed' = Listed
  <2>1. Listed' = {c \in Block : \A u \in Thread : c \notin live'[u]}
    BY <1>3, <1>4 DEF Listed
  <2>2. pc[t] = "refused" => b = NULL
    BY DEF IInv, CallInv
  <2> QED
    BY <1>1, <1>2, <1>4, <1>5, <2>1, <2>2 DEF ListedBeside
<1>10. BlocksDisjoint'
  <2>1. pc[t] = "given" => header[b] = mp /\ \A u \in Thread : b \notin live[u]
    BY DEF IInv, CallInv
  <2> QED
    BY <1>1, <1>5, <2>1 DEF IInv, BlocksDisjoint
<1>11. CountInv'
  BY <1>1, <1>2, <1>3, <1>9 DEF CountInv
<1> QED
  BY <1>1, <1>6, <1>7, <1>8, <1>9, <1>10, <1>11 DEF IInv, ListInv, AssertsHold

\* The caller's assert is not the pool's.
LEMMA NoBlockIInv ==
  ASSUME IInv, NEW t \in Thread, NoBlock(t)
  PROVE  IInv'
<1>1. UNCHANGED <<poolVars, callVars>> /\ abort' = "poolEmpty"
  BY DEF NoBlock
<1> QED
  BY <1>1 DEF IInv, TypeOK, AbortReason, LockInv, CallInv, BlocksDisjoint, ListInv,
              CountInv, AssertsHold, Listed, poolVars, callVars

(***************************************************************************)
(* The steps of memPoolFree.                                               *)
(***************************************************************************)
\* The block passes from its caller to the call.
LEMMA FreeBeginIInv ==
  ASSUME IInv, NEW t \in Thread, NEW b \in Block, FreeBegin(t, b)
  PROVE  IInv'
<1>1. /\ UNCHANGED <<abort, header, block_list, free_blocks, err>>
      /\ pc[t] = "idle" /\ pc' = [pc EXCEPT ![t] = "free"]
      /\ lock = NoThread /\ lock' = t
      /\ b \in live[t]
      /\ block_ptr' = [block_ptr EXCEPT ![t] = b]
      /\ live' = [live EXCEPT ![t] = @ \ {b}]
  BY DEF FreeBegin, Goto, acquire, poolVars
<1>2. \A u \in Thread : pc[u] \in {"idle", "null"} /\ block_ptr[u] = NULL
  BY <1>1, ProcessAssumption DEF IInv, TypeOK, LockInv, CallInv
<1>3. /\ pc'[t] = "free" /\ block_ptr'[t] = b
      /\ \A u \in Thread \ {t} : pc'[u] = pc[u] /\ block_ptr'[u] = NULL
      /\ pc' \in [Thread -> Critical \cup {"idle", "null"}]
      /\ block_ptr' \in [Thread -> Block \cup {NULL}]
  BY <1>1, <1>2 DEF IInv, TypeOK, Critical, Freeing
<1>4. /\ live' \in [Thread -> SUBSET Block]
      /\ \A u \in Thread : live'[u] = IF u = t THEN live[u] \ {b} ELSE live[u]
  BY <1>1 DEF IInv, TypeOK
<1>5. header[b] = mp /\ \A u \in Thread \ {t} : b \notin live[u]
  BY <1>1 DEF IInv, BlocksDisjoint
<1>6. NULL \notin Block
  BY DEF Block, NULL
<1>7. TypeOK'
  BY <1>1, <1>3, <1>4 DEF IInv, TypeOK
<1>8. LockInv'
  BY <1>1, <1>2, <1>3 DEF LockInv, Critical, Allocating, Freeing, Leaving
<1>9. CallInv'
  <2>1. ASSUME NEW v \in Thread, NEW u \in Thread
        PROVE  block_ptr'[v] \notin live'[u]
    BY <1>3, <1>4, <1>5, <1>6
  <2> QED
    BY <1>1, <1>2, <1>3, <1>5, <1>6, <2>1 DEF CallInv
<1>10. Listed' = Listed
  BY <1>1, <1>2, <1>3, <1>4, <1>6 DEF Listed
<1>11. BlocksDisjoint'
  BY <1>1, <1>4 DEF IInv, BlocksDisjoint
<1>12. CountInv'
  BY <1>1, <1>2, <1>3, <1>10 DEF IInv, CountInv
<1> QED
  BY <1>1, <1>7, <1>8, <1>9, <1>10, <1>11, <1>12 DEF IInv, ListInv, AssertsHold

\* The block points to the pool and is not on the list, so that the list is not
\* full: the block is accepted.
LEMMA FreeTestIInv ==
  ASSUME IInv, NEW t \in Thread, FreeTest(t)
  PROVE  IInv' /\ err' = err
<1> DEFINE b == block_ptr[t]
<1>a. pc[t] = "free" /\ header[b] = mp /\ b \in Block
  BY DEF FreeTest, IInv, CallInv, TypeOK
<1>b. free_blocks = Cardinality(Listed) /\ Listed = ListedBeside(b, "free")
  BY <1>a, Alone DEF Critical, Freeing
<1>c. Listed \in SUBSET Block /\ Listed # Block
  BY <1>a, <1>b DEF ListedBeside
<1>d. free_blocks < total_blocks
  BY <1>b, <1>c, CountBlocks
<1>1. /\ Goto(t, "free", "link")
      /\ UNCHANGED <<abort, header, block_list, free_blocks, err, lock, block_ptr, live>>
  BY <1>a, <1>d, MemPoolAssumption DEF FreeTest, IInv, TypeOK
<1>2. /\ pc[t] = "free" /\ pc'[t] = "link"
      /\ pc' \in [Thread -> Critical \cup {"idle", "null"}]
      /\ \A u \in Thread \ {t} : /\ pc[u] \in {"idle", "null"} /\ pc'[u] = pc[u]
                                 /\ block_ptr[u] = NULL /\ block_ptr'[u] = NULL
      /\ LockInv'
      /\ Listed = ListedBeside(block_ptr[t], "free")
      /\ Listed' = ListedBeside(block_ptr'[t], "link")
  BY <1>1, Inside DEF Critical, Freeing, IInv, TypeOK
<1>3. Listed' = Listed
  BY <1>1, <1>2 DEF ListedBeside
<1>4. TypeOK'
  BY <1>1, <1>2 DEF IInv, TypeOK
<1>5. CallInv'
  BY <1>1, <1>2 DEF IInv, CallInv
<1>6. CountInv'
  BY <1>1, <1>2, <1>3, <1>b, CountAlone
<1> QED
  BY <1>1, <1>2, <1>3, <1>4, <1>5, <1>6 DEF IInv, BlocksDisjoint, ListInv, AssertsHold

LEMMA LinkIInv ==
  ASSUME IInv, NEW t \in Thread, Link(t)
  PROVE  IInv'
<1> DEFINE b == block_ptr[t]
<1>1. /\ Goto(t, "link", "push")
      /\ UNCHANGED <<abort, block_list, free_blocks, err, lock, block_ptr, live>>
      /\ header' = [header EXCEPT ![b] = block_list]
  BY DEF Link
<1>2. /\ pc[t] = "link" /\ pc'[t] = "push"
      /\ pc' \in [Thread -> Critical \cup {"idle", "null"}]
      /\ \A u \in Thread \ {t} : /\ pc[u] \in {"idle", "null"} /\ pc'[u] = pc[u]
                                 /\ block_ptr[u] = NULL /\ block_ptr'[u] = NULL
      /\ LockInv'
      /\ Listed = ListedBeside(block_ptr[t], "link")
      /\ Listed' = ListedBeside(block_ptr'[t], "push")
  BY <1>1, Inside DEF Critical, Freeing, IInv, TypeOK
<1>3. b \in Block
  BY <1>2 DEF IInv, TypeOK, CallInv
<1>4. Listed' = Listed /\ b \notin Listed
  BY <1>1, <1>2 DEF ListedBeside
<1>5. header'[b] = block_list /\ \A c \in Block \ {b} : header'[c] = header[c]
  BY <1>1, <1>3 DEF IInv, TypeOK
<1>6. TypeOK'
  BY <1>1, <1>2 DEF IInv, TypeOK
<1>7. CallInv'
  BY <1>1, <1>2, <1>5 DEF IInv, CallInv
<1>8. ListInv'
  <2>1. PICK n \in 0 .. total_blocks : \E s \in [1 .. n -> Block] :
          Chain(n, s, block_list, header, Listed)
    BY DEF IInv, ListInv
  <2>2. PICK s \in [1 .. n -> Block] :
          Chain(n, s, block_list, header, Listed)
    BY <2>1
  <2>3. \A c \in Listed : header'[c] = header[c]
    BY <1>4, <1>5 DEF Listed
  <2>4. Chain(n, s, block_list, header', Listed)
    BY <2>2, <2>3, ChainKept
  <2> QED
    BY <1>1, <1>4, <2>4 DEF ListInv
<1>9. BlocksDisjoint'
  <2>1. \A u \in Thread : b \notin live[u] /\ live[u] \subseteq Block
    BY DEF IInv, CallInv, TypeOK
  <2> QED
    BY <1>1, <1>5, <2>1 DEF IInv, BlocksDisjoint
<1>10. CountInv'
  BY <1>1, <1>2, <1>4, CountAlone, Alone DEF Critical, Freeing
<1> QED
  BY <1>1, <1>2, <1>6, <1>7, <1>8, <1>9, <1>10 DEF IInv, AssertsHold

LEMMA PushIInv ==
  ASSUME IInv, NEW t \in Thread, Push(t)
  PROVE  IInv'
<1> DEFINE b == block_ptr[t]
<1>1. /\ Goto(t, "push", "count")
      /\ UNCHANGED <<abort, header, free_blocks, err, lock, block_ptr, live>>
      /\ block_list' = b
  BY DEF Push
<1>2. /\ pc[t] = "push" /\ pc'[t] = "count"
      /\ pc' \in [Thread -> Critical \cup {"idle", "null"}]
      /\ \A u \in Thread \ {t} : /\ pc[u] \in {"idle", "null"} /\ pc'[u] = pc[u]
                                 /\ block_ptr[u] = NULL /\ block_ptr'[u] = NULL
      /\ LockInv'
      /\ Listed = ListedBeside(block_ptr[t], "push")
      /\ Listed' = ListedBeside(block_ptr'[t], "count")
  BY <1>1, Inside DEF Critical, Freeing, IInv, TypeOK
<1>3. b \in Block /\ header[b] = block_list /\ \A u \in Thread : b \notin live[u]
  BY <1>2 DEF IInv, TypeOK, CallInv
<1>4. Listed' = Listed \cup {b} /\ b \notin Listed
  BY <1>1, <1>2, <1>3 DEF ListedBeside
<1>5. ListInv'
  <2>1. PICK n \in 0 .. total_blocks : \E s \in [1 .. n -> Block] :
          Chain(n, s, block_list, header, Listed)
    BY DEF IInv, ListInv
  <2>2. PICK s \in [1 .. n -> Block] :
          Chain(n, s, block_list, header, Listed)
    BY <2>1
  <2>3. \E m \in 0 .. total_blocks : \E r \in [1 .. m -> Block] :
          Chain(m, r, b, header, Listed \cup {b})
    BY <1>3, <1>4, <2>2, ChainPush
  <2> QED
    BY <1>1, <1>4, <2>3 DEF ListInv
<1>6. TypeOK'
  BY <1>1, <1>2, <1>3 DEF IInv, TypeOK
<1>7. CallInv'
  BY <1>1, <1>2 DEF IInv, CallInv
<1>8. CountInv'
  <2>1. Listed \in SUBSET Block
    BY DEF Listed
  <2>2. Cardinality(Listed \cup {b}) = Cardinality(Listed) + 1 /\ Cardinality(Listed) \in Nat
    BY <1>3, <1>4, <2>1, CountBlocks
  <2>3. free_blocks = Cardinality(Listed)
    BY <1>2, Alone DEF Critical, Freeing
  <2>4. free_blocks' = Cardinality(Listed') - 1
    BY <1>1, <1>4, <2>2, <2>3
  <2> QED
    BY <1>2, <2>4, CountAlone
<1> QED
  BY <1>1, <1>2, <1>5, <1>6, <1>7, <1>8 DEF IInv, BlocksDisjoint, AssertsHold

LEMMA CountIInv ==
  ASSUME IInv, NEW t \in Thread, Count(t)
  PROVE  IInv'
<1>1. /\ Goto(t, "count", "freed")
      /\ UNCHANGED <<abort, header, block_list, err, lock, block_ptr, live>>
      /\ free_blocks' = free_blocks + 1
  BY DEF Count
<1>2. /\ pc[t] = "count" /\ pc'[t] = "freed"
      /\ pc' \in [Thread -> Critical \cup {"idle", "null"}]
      /\ \A u \in Thread \ {t} : /\ pc[u] \in {"idle", "null"} /\ pc'[u] = pc[u]
                                 /\ block_ptr[u] = NULL /\ block_ptr'[u] = NULL
      /\ LockInv'
      /\ Listed = ListedBeside(block_ptr[t], "count")
      /\ Listed' = ListedBeside(block_ptr'[t], "freed")
  BY <1>1, Inside DEF Critical, Freeing, Leaving, IInv, TypeOK
<1>3. Listed' = Listed
  BY <1>1, <1>2 DEF ListedBeside
<1>4. Cardinality(Listed) \in 0 .. total_blocks
  BY CountBlocks DEF Listed
<1>5. free_blocks' = Cardinality(Listed)
  BY <1>1, <1>2, <1>4 DEF IInv, CountInv
<1>6. TypeOK'
  BY <1>1, <1>2, <1>4, <1>5 DEF IInv, TypeOK
<1>7. CallInv'
  BY <1>1, <1>2 DEF IInv, CallInv
<1>8. CountInv'
  BY <1>2, <1>3, <1>5, CountAlone
<1> QED
  BY <1>1, <1>2, <1>3, <1>6, <1>7, <1>8 DEF IInv, BlocksDisjoint, ListInv, AssertsHold

LEMMA FreeEndIInv ==
  ASSUME IInv, NEW t \in Thread, FreeEnd(t)
  PROVE  IInv'
<1>1. /\ UNCHANGED <<abort, header, block_list, free_blocks, err, live>>
      /\ lock' = NoThread
      /\ block_ptr' = [block_ptr EXCEPT ![t] = NULL]
      /\ pc[t] = "freed"
      /\ pc' = [pc EXCEPT ![t] = "idle"]
  BY DEF FreeEnd, Goto, releaseLock, poolVars
<1>2. /\ \A u \in Thread \ {t} : pc[u] \in {"idle", "null"} /\ block_ptr[u] = NULL
      /\ Listed = ListedBeside(block_ptr[t], "freed")
      /\ free_blocks = Cardinality(Listed)
  BY <1>1, Alone DEF Critical, Leaving
<1>3. /\ pc' \in [Thread -> Critical \cup {"idle", "null"}]
      /\ \A u \in Thread : pc'[u] \in {"idle", "null"} /\ block_ptr'[u] = NULL
      /\ block_ptr' \in [Thread -> Block \cup {NULL}]
  BY <1>1, <1>2 DEF IInv, TypeOK
<1>4. NULL \notin Block
  BY DEF Block, NULL
<1>5. TypeOK'
  BY <1>1, <1>3 DEF IInv, TypeOK
<1>6. LockInv'
  BY <1>1, <1>3, ProcessAssumption DEF LockInv, Critical, Allocating, Freeing, Leaving
<1>7. CallInv'
  <2>1. \A u \in Thread : NULL \notin live'[u]
    BY <1>1, <1>4 DEF IInv, TypeOK
  <2> QED
    BY <1>3, <2>1 DEF CallInv
<1>8. Listed' = Listed
  <2>1. Listed' = {c \in Block : \A u \in Thread : c \notin live'[u]}
    BY <1>3, <1>4 DEF Listed
  <2> QED
    BY <1>1, <1>2, <2>1 DEF ListedBeside
<1>9. CountInv'
  BY <1>1, <1>2, <1>3, <1>8 DEF CountInv
<1> QED
  BY <1>1, <1>5, <1>6, <1>7, <1>8, <1>9 DEF IInv, ListInv, BlocksDisjoint, AssertsHold

(***************************************************************************)
(* The theorems.                                                           *)
(***************************************************************************)
\* memPoolDefine links all blocks.
LEMMA InitIInv == Init => IInv
<1> SUFFICES ASSUME Init PROVE IInv
  OBVIOUS
<1> DEFINE s == [i \in 1 .. total_blocks |-> i]
<1>1. total_blocks \in Nat /\ total_blocks >= 1
  BY MemPoolAssumption
<1>2. \A t \in Thread : pc[t] = "idle" /\ block_ptr[t] = NULL /\ live[t] = {}
  BY DEF Init
<1>3. Listed = Block
  BY <1>2 DEF Listed, Block, NULL
<1>4. Cardinality(Block) = total_blocks
  <2>1. total_blocks \in Int /\ 1 \in Int
    BY <1>1
  <2> QED
    BY <1>1, <2>1, FS_Interval DEF Block
<1>5. TypeOK
  BY <1>1 DEF Init, TypeOK, AbortReason, Block
<1>6. LockInv
  BY <1>2, ProcessAssumption DEF Init, LockInv, Critical, Allocating, Freeing, Leaving
<1>7. CallInv
  BY <1>2 DEF CallInv
<1>8. ListInv
  <2>1. total_blocks \in 0 .. total_blocks /\ s \in [1 .. total_blocks -> Block]
    BY <1>1 DEF Block
  <2>2. Chain(total_blocks, s, block_list, header, Block)
    BY <1>1, <1>4 DEF Init, Chain, Block
  <2> QED
    BY <1>3, <2>1, <2>2 DEF ListInv
<1>9. BlocksDisjoint /\ CountInv /\ AssertsHold
  BY <1>2, <1>3, <1>4 DEF Init, BlocksDisjoint, CountInv, AssertsHold
<1> QED
  BY <1>5, <1>6, <1>7, <1>8, <1>9 DEF IInv

\* Every step of every call keeps the invariant, and refuses nothing but a
\* request when no block is left.
LEMMA NextIInv ==
  ASSUME IInv, [Next]_vars
  PROVE  /\ IInv'
         /\ err' # err => \E t \in Thread : pc[t] = "alloc" /\ Listed = {}
<1>1. ASSUME NEW t \in Thread, memPoolAlloc(t)
      PROVE  IInv' /\ (err' # err => pc[t] = "alloc" /\ Listed = {})
  <2>1. CASE AllocTest(t)
    BY <2>1, AllocTestIInv
  <2>2. CASE AllocBegin(t)
    BY <2>2, AllocBeginIInv DEF AllocBegin, poolVars
  <2>3. CASE Unlink(t)
    BY <2>3, UnlinkIInv DEF Unlink
  <2>4. CASE Claim(t)
    BY <2>4, ClaimIInv DEF Claim
  <2>5. CASE Account(t)
    BY <2>5, AccountIInv DEF Account
  <2>6. CASE AllocEnd(t)
    BY <2>6, AllocEndIInv DEF AllocEnd, poolVars
  <2> QED
    BY <1>1, <2>1, <2>2, <2>3, <2>4, <2>5, <2>6 DEF memPoolAlloc
<1>2. ASSUME NEW t \in Thread, memPoolFree(t)
      PROVE  IInv' /\ err' = err
  <2>1. ASSUME NEW b \in Block, FreeBegin(t, b)
        PROVE  IInv' /\ err' = err
    BY <2>1, FreeBeginIInv DEF FreeBegin, poolVars
  <2>2. CASE FreeTest(t)
    BY <2>2, FreeTestIInv
  <2>3. CASE Link(t)
    BY <2>3, LinkIInv DEF Link
  <2>4. CASE Push(t)
    BY <2>4, PushIInv DEF Push
  <2>5. CASE Count(t)
    BY <2>5, CountIInv DEF Count
  <2>6. CASE FreeEnd(t)
    BY <2>6, FreeEndIInv DEF FreeEnd, poolVars
  <2> QED
    BY <1>2, <2>1, <2>2, <2>3, <2>4, <2>5, <2>6 DEF memPoolFree
<1>3. ASSUME NEW t \in Thread, NoBlock(t)
      PROVE  IInv' /\ err' = err
  BY <1>3, NoBlockIInv DEF NoBlock, poolVars
<1>4. CASE UNCHANGED vars
  BY <1>4 DEF vars, poolVars, callVars, IInv, TypeOK, LockInv, CallInv, BlocksDisjoint,
              ListInv, CountInv, AssertsHold, Listed
<1> QED
  BY <1>1, <1>2, <1>3, <1>4 DEF Next

LEMMA Inductive == Spec => []IInv
<1>1. IInv /\ [Next]_vars => IInv'
  BY NextIInv
<1> QED
  BY <1>1, InitIInv, PTL DEF Spec

\* The types, for any number of threads and blocks.
THEOREM TypeCorrect == Spec => []TypeOK
<1>1. IInv => TypeOK
  BY DEF IInv
<1> QED
  BY <1>1, Inductive, PTL

\* No block is in two hands, and each can be given back.
THEOREM BlocksDisjointHolds == Spec => []BlocksDisjoint
<1>1. IInv => BlocksDisjoint
  BY DEF IInv
<1> QED
  BY <1>1, Inductive, PTL

\* Neither assert() of the pool fails.
THEOREM AssertsHoldAlways == Spec => []AssertsHold
<1>1. IInv => AssertsHold
  BY DEF IInv
<1> QED
  BY <1>1, Inductive, PTL

\* No block is lost and none is on the list while in use; the counter is exact.
THEOREM ListIsWholeHolds == Spec => []ListIsWhole
<1>1. ASSUME IInv
      PROVE  ListIsWhole
  <2> SUFFICES ASSUME lock = NoThread
               PROVE  /\ \E n \in 0 .. total_blocks : \E s \in [1 .. n -> Block] :
                           IsFreeList(s) /\ {s[i] : i \in 1 .. n} = Listed
                      /\ free_blocks = Cardinality(Listed)
    BY DEF ListIsWhole
  <2>1. PICK n \in 0 .. total_blocks : \E s \in [1 .. n -> Block] :
          Chain(n, s, block_list, header, Listed)
    BY <1>1 DEF IInv, ListInv
  <2>2. PICK s \in [1 .. n -> Block] :
          Chain(n, s, block_list, header, Listed)
    BY <2>1
  <2>3. s \in Seq(Block) /\ Len(s) = n /\ (s = <<>> <=> n = 0)
    OBVIOUS
  <2>4. IsFreeList(s) /\ {s[i] : i \in 1 .. n} = Listed
    BY <2>2, <2>3 DEF IsFreeList, Chain
  <2>5. \A t \in Thread : pc[t] \notin Critical
    BY <1>1, ProcessAssumption DEF IInv, LockInv
  <2>6. free_blocks = Cardinality(Listed)
    BY <1>1, <2>5 DEF IInv, CountInv, Critical, Allocating, Freeing
  <2> QED
    BY <2>4, <2>6
<1> QED
  BY <1>1, Inductive, PTL

\* The pool refuses nothing but a request when it has no block.
THEOREM RefusesOnlyIfEmptyHolds == Spec => RefusesOnlyIfEmpty
<1>1. IInv /\ [Next]_vars =>
        [err' # err => \E t \in Thread : pc[t] = "alloc" /\ Listed = {}]_vars
  BY NextIInv
<1> QED
  BY <1>1, Inductive, PTL DEF Spec, RefusesOnlyIfEmpty
=============================================================================
