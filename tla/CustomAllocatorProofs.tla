------------------------ MODULE CustomAllocatorProofs ------------------------
(***************************************************************************)
(* What is proved about the pool allocator and about the processes of the  *)
(* custom-allocator example, for any number of threads and blocks.         *)
(*                                                                         *)
(* The pool first.  Its invariant has three layers: the mutex is held      *)
(* exactly by the thread that is between its lock and its unlock; what a   *)
(* thread's local variable means at each step; and where the blocks are.   *)
(* Then the processes: they use the pool as its proofs assume, so that its *)
(* theorems hold of them, and the guard's unsynchronised variables do what *)
(* they are for.                                                           *)
(***************************************************************************)
EXTENDS CustomAllocator, SequenceTheorems, FiniteSetTheorems, TLAPS

\* Steps at which a thread has the mutex.
Critical == {"allocRead", "allocPop", "allocUnlock", "freeLink", "freePush", "freeUnlock"}

MutexHeld == \A t \in Threads : (mutex = t) <=> (pc[t] \in Critical)

NodeMeans == \A t \in Threads :
    /\ pc[t] \in {"idle", "allocLock", "allocRead", "freeUnlock"} => node[t] = NULL
    /\ pc[t] = "allocPop" => node[t] = head /\ head # NULL
    /\ pc[t] \in {"freeLock", "freeLink", "freePush"} => node[t] # NULL
    /\ pc[t] = "freePush" => next[node[t]] = head

IInv ==
    /\ TypeOK
    /\ MutexHeld
    /\ NodeMeans
    /\ NoDoubleHandout
    /\ NothingLost
    /\ ChainIntact

-----------------------------------------------------------------------------
(***************************************************************************)
(* The two changes of the free list.                                       *)
(***************************************************************************)
LEMMA PopLast ==
    ASSUME NEW S, NEW s \in Seq(S)
    PROVE  LET p == [i \in 1 .. Len(s) - 1 |-> s[i]]
           IN  s # << >> => /\ p \in Seq(S)
                            /\ Len(p) = Len(s) - 1
                            /\ DOMAIN p = 1 .. Len(s) - 1
                            /\ \A i \in 1 .. Len(s) - 1 : p[i] = s[i]
<1> DEFINE p == [i \in 1 .. Len(s) - 1 |-> s[i]]
<1> SUFFICES ASSUME s # << >>
             PROVE  /\ p \in Seq(S)
                    /\ Len(p) = Len(s) - 1
                    /\ DOMAIN p = 1 .. Len(s) - 1
                    /\ \A i \in 1 .. Len(s) - 1 : p[i] = s[i]
  OBVIOUS
<1>1. Len(s) - 1 \in Nat
  OBVIOUS
<1>2. p \in [1 .. Len(s) - 1 -> S]
  OBVIOUS
<1>3. p \in Seq(S)
  BY <1>1, <1>2
<1>4. Len(p) = Len(s) - 1
  BY <1>1, <1>3
<1> QED
  BY <1>3, <1>4

LEMMA PushLast ==
    ASSUME NEW S, NEW s \in Seq(S), NEW b \in S
    PROVE  /\ Append(s, b) \in Seq(S)
           /\ Len(Append(s, b)) = Len(s) + 1
           /\ DOMAIN Append(s, b) = 1 .. Len(s) + 1
           /\ \A i \in 1 .. Len(s) : Append(s, b)[i] = s[i]
           /\ Append(s, b)[Len(s) + 1] = b
  OBVIOUS
-----------------------------------------------------------------------------
LEMMA InitIInv == Init => IInv
<1> SUFFICES ASSUME Init PROVE IInv
  OBVIOUS
<1>1. TypeOK
  BY BlockCountAssumption DEF Init, TypeOK, ResetNext, Blocks, NULL, Bytes
<1>2. Len(freeList) = BlockCount /\ DOMAIN freeList = Blocks
  BY <1>1, BlockCountAssumption DEF Init, Blocks
<1>3. MutexHeld /\ NodeMeans
  BY NoThreadAssumption DEF Init, MutexHeld, NodeMeans, Critical
<1>4. NoDoubleHandout /\ NothingLost
  BY <1>2 DEF Init, NoDoubleHandout, NothingLost, InTransit, Members, Blocks
<1>5. ChainIntact
  BY <1>2, BlockCountAssumption DEF Init, ChainIntact, ResetNext, Blocks, NULL
<1> QED
  BY <1>1, <1>3, <1>4, <1>5 DEF IInv

-----------------------------------------------------------------------------
(***************************************************************************)
(* One lemma per step of a thread.  The steps that move no block are       *)
(* immediate; the others track where each block is before and after.       *)
(***************************************************************************)
LEMMA AllocCallKeepsIInv == ASSUME IInv, NEW t \in Threads, AllocCall(t) PROVE IInv'
<1> USE DEF IInv, AllocCall, Goto
<1>1. TypeOK'
  BY DEF TypeOK, AllocSteps
<1>2. MutexHeld'
  BY DEF MutexHeld, Critical
<1>3. NodeMeans'
  BY DEF NodeMeans
<1>4. NoDoubleHandout'
  BY DEF NoDoubleHandout, InTransit
<1>5. NothingLost'
  BY DEF NothingLost, InTransit
<1>6. ChainIntact'
  BY DEF ChainIntact
<1> QED
  BY <1>1, <1>2, <1>3, <1>4, <1>5, <1>6

LEMMA AllocLockKeepsIInv == ASSUME IInv, NEW t \in Threads, AllocLock(t) PROVE IInv'
<1> USE DEF IInv, AllocLock, Goto
<1>1. TypeOK'
  BY DEF TypeOK, AllocSteps
<1>2. MutexHeld'
  BY NoThreadAssumption DEF TypeOK, MutexHeld, Critical
<1>3. NodeMeans'
  BY DEF NodeMeans
<1>4. NoDoubleHandout'
  BY DEF NoDoubleHandout, InTransit
<1>5. NothingLost'
  BY NoThreadAssumption DEF NothingLost, InTransit
<1>6. ChainIntact'
  BY DEF ChainIntact
<1> QED
  BY <1>1, <1>2, <1>3, <1>4, <1>5, <1>6

LEMMA AllocReadKeepsIInv == ASSUME IInv, NEW t \in Threads, AllocRead(t) PROVE IInv'
<1> USE DEF IInv, AllocRead, Goto
<1>1. TypeOK'
  BY DEF TypeOK, AllocSteps, FreeSteps, Blocks, NULL, Bytes
<1>2. MutexHeld' /\ NodeMeans'
  BY DEF TypeOK, MutexHeld, NodeMeans, Critical, NULL
<1>3. \A u \in Threads : /\ u # t => pc'[u] = pc[u] /\ node'[u] = node[u]
                         /\ pc'[t] = "allocPop" \/ node'[t] = NULL
  BY DEF TypeOK, AllocSteps, FreeSteps
<1>4. \A b \in Blocks : InTransit(b)' <=> InTransit(b)
  BY <1>3 DEF TypeOK, InTransit, NULL, Blocks
<1>5. NoDoubleHandout'
  <2>1. \A u, v \in Threads :
           node'[u] = node'[v] /\ node'[u] # NULL
           /\ pc'[u] # "allocPop" /\ pc'[v] # "allocPop" => u = v
    BY <1>3 DEF NoDoubleHandout
  <2> QED
    BY <1>4, <2>1 DEF NoDoubleHandout, Members
<1>6. NothingLost' /\ ChainIntact'
  BY <1>4 DEF NothingLost, ChainIntact, Members
<1> QED
  BY <1>1, <1>2, <1>5, <1>6

LEMMA AllocPopKeepsIInv == ASSUME IInv, NEW t \in Threads, AllocPop(t) PROVE IInv'
<1> DEFINE n == Len(freeList)
<1> USE DEF IInv
<1>1. /\ n \in Nat \ {0}
      /\ freeList \in Seq(Blocks)
      /\ freeList # << >>
      /\ node[t] = freeList[n]
      /\ DOMAIN freeList = 1 .. n
      /\ node[t] \in Blocks
  BY DEF AllocPop, TypeOK, NodeMeans, ChainIntact, NULL, Blocks
<1>2. /\ freeList' \in Seq(Blocks)
      /\ Len(freeList') = n - 1
      /\ DOMAIN freeList' = 1 .. n - 1
      /\ \A i \in 1 .. n - 1 : freeList'[i] = freeList[i]
  BY <1>1, PopLast DEF AllocPop
<1>3. /\ pc'[t] = "allocUnlock"
      /\ \A u \in Threads : u # t => pc'[u] = pc[u]
      /\ UNCHANGED << next, mutex, node, held >>
      /\ head' = next[freeList[n]]
  BY <1>1 DEF AllocPop, Goto, TypeOK
<1>4. head' = IF n - 1 = 0 THEN NULL ELSE freeList[n - 1]
  BY <1>1, <1>3 DEF ChainIntact
<1>5. TypeOK'
  <2>1. head' \in Blocks \cup {NULL}
    BY <1>1, <1>4 DEF TypeOK
  <2> QED
    BY <1>2, <2>1 DEF AllocPop, Goto, TypeOK, AllocSteps
<1>6. MutexHeld'
  BY <1>3 DEF AllocPop, MutexHeld, Critical, TypeOK
<1>7. NodeMeans'
  BY <1>3 DEF AllocPop, NodeMeans, MutexHeld, Critical
<1>8. \A b \in Blocks : b \in Members(freeList)' <=> b \in Members(freeList) /\ b # node[t]
  BY <1>1, <1>2 DEF Members, NoDoubleHandout
<1>9. \A b \in Blocks : InTransit(b)' <=> InTransit(b) \/ b = node[t]
  BY <1>3 DEF InTransit, AllocPop
<1>10. node[t] \in Members(freeList)
  BY <1>1 DEF Members
<1>11. NoDoubleHandout'
  <2>1. \A i, j \in DOMAIN freeList' : freeList'[i] = freeList'[j] => i = j
    BY <1>1, <1>2 DEF NoDoubleHandout
  <2>2. ASSUME NEW b \in Blocks
        PROVE  /\ ~(b \in held' /\ (b \in Members(freeList)' \/ InTransit(b)'))
               /\ ~(b \in Members(freeList)' /\ InTransit(b)')
    BY <1>3, <1>8, <1>9, <1>10 DEF NoDoubleHandout
  <2>3. \A u \in Threads : u # t /\ node[u] = node[t] => pc[u] = "allocPop" \/ node[u] = NULL
    <3> SUFFICES ASSUME NEW u \in Threads, u # t, node[u] = node[t], pc[u] # "allocPop"
                 PROVE  FALSE
      OBVIOUS
    <3>1. node[u] # NULL
      BY <1>1 DEF Blocks, NULL
    <3>2. InTransit(node[u])
      BY <3>1 DEF InTransit, NodeMeans, TypeOK, AllocSteps, FreeSteps
    <3> QED
      BY <1>1, <1>10, <3>2 DEF NoDoubleHandout
  <2>4. \A u \in Threads : u # t => pc[u] # "allocPop"
    BY DEF AllocPop, MutexHeld, Critical
  <2>5. \A u, v \in Threads :
           node'[u] = node'[v] /\ node'[u] # NULL
           /\ pc'[u] # "allocPop" /\ pc'[v] # "allocPop" => u = v
    BY <1>3, <2>3, <2>4 DEF NoDoubleHandout
  <2> QED
    BY <2>1, <2>2, <2>5 DEF NoDoubleHandout
<1>12. NothingLost'
  BY <1>3, <1>8, <1>9 DEF NothingLost
<1>13. ChainIntact'
  BY <1>1, <1>2, <1>3, <1>4 DEF ChainIntact
<1> QED
  BY <1>5, <1>6, <1>7, <1>11, <1>12, <1>13

LEMMA AllocUnlockKeepsIInv == ASSUME IInv, NEW t \in Threads, AllocUnlock(t) PROVE IInv'
<1> USE DEF IInv, AllocUnlock, Goto
<1>1. TypeOK'
  BY DEF TypeOK
<1>2. MutexHeld'
  BY NoThreadAssumption DEF TypeOK, MutexHeld, Critical
<1>3. NodeMeans'
  BY DEF TypeOK, NodeMeans
<1>4. NoDoubleHandout'
  BY DEF TypeOK, NoDoubleHandout, InTransit
<1>5. NothingLost'
  BY DEF NothingLost, InTransit, NULL, Blocks
<1>6. ChainIntact'
  BY DEF ChainIntact
<1> QED
  BY <1>1, <1>2, <1>3, <1>4, <1>5, <1>6

LEMMA FreeCallKeepsIInv == ASSUME IInv, NEW t \in Threads, FreeCall(t) PROVE IInv'
<1> USE DEF IInv
<1>1. PICK b \in held : held' = held \ {b} /\ node' = [node EXCEPT ![t] = b]
  BY DEF FreeCall
<1>2. /\ b \in Blocks
      /\ pc[t] = "idle" /\ node[t] = NULL
      /\ pc'[t] = "freeLock" /\ node'[t] = b
      /\ \A u \in Threads : u # t => pc'[u] = pc[u] /\ node'[u] = node[u]
      /\ UNCHANGED << head, next, mutex, freeList >>
  BY <1>1 DEF FreeCall, Goto, TypeOK, NodeMeans
<1>3. TypeOK'
  BY <1>1, <1>2 DEF FreeCall, Goto, TypeOK, FreeSteps
<1>4. MutexHeld'
  BY <1>2 DEF MutexHeld, Critical
<1>5. NodeMeans'
  BY <1>2 DEF NodeMeans, Blocks, NULL
<1>6. \A c \in Blocks : InTransit(c)' <=> InTransit(c) \/ c = b
  BY <1>2 DEF InTransit
<1>7. \A u \in Threads : node[u] = b => pc[u] = "allocPop"
  <2> SUFFICES ASSUME NEW u \in Threads, node[u] = b, pc[u] # "allocPop"
               PROVE  InTransit(b)
    BY <1>2 DEF NoDoubleHandout
  <2> QED
    BY <1>2 DEF InTransit, NodeMeans, TypeOK, AllocSteps, FreeSteps, Blocks, NULL
<1>8. NoDoubleHandout'
  <2>1. \A u, v \in Threads :
           node'[u] = node'[v] /\ node'[u] # NULL
           /\ pc'[u] # "allocPop" /\ pc'[v] # "allocPop" => u = v
    BY <1>2, <1>7 DEF NoDoubleHandout
  <2> QED
    BY <1>1, <1>2, <1>6, <2>1 DEF NoDoubleHandout, Members
<1>9. NothingLost' /\ ChainIntact'
  BY <1>1, <1>2, <1>6 DEF NothingLost, ChainIntact, Members
<1> QED
  BY <1>3, <1>4, <1>5, <1>8, <1>9

LEMMA FreeLockKeepsIInv == ASSUME IInv, NEW t \in Threads, FreeLock(t) PROVE IInv'
<1> USE DEF IInv, FreeLock, Goto
<1>1. TypeOK'
  BY DEF TypeOK, FreeSteps
<1>2. MutexHeld'
  BY NoThreadAssumption DEF TypeOK, MutexHeld, Critical
<1>3. NodeMeans'
  BY DEF NodeMeans
<1>4. NoDoubleHandout'
  BY DEF NoDoubleHandout, InTransit
<1>5. NothingLost'
  BY DEF NothingLost, InTransit
<1>6. ChainIntact'
  BY DEF ChainIntact
<1> QED
  BY <1>1, <1>2, <1>3, <1>4, <1>5, <1>6

LEMMA FreeLinkKeepsIInv == ASSUME IInv, NEW t \in Threads, FreeLink(t) PROVE IInv'
<1> USE DEF IInv, FreeLink, Goto
<1>1. TypeOK'
  BY DEF TypeOK, FreeSteps
<1>2. MutexHeld'
  BY DEF MutexHeld, Critical
<1>3. NodeMeans'
  BY DEF TypeOK, NodeMeans
<1>4. NoDoubleHandout'
  BY DEF NoDoubleHandout, InTransit
<1>5. NothingLost'
  BY DEF NothingLost, InTransit
<1>6. ChainIntact'
  BY DEF TypeOK, ChainIntact, NoDoubleHandout, InTransit, Members
<1> QED
  BY <1>1, <1>2, <1>3, <1>4, <1>5, <1>6

LEMMA FreePushKeepsIInv == ASSUME IInv, NEW t \in Threads, FreePush(t) PROVE IInv'
<1> DEFINE n == Len(freeList)
           b == node[t]
<1> USE DEF IInv
<1>1. /\ n \in Nat
      /\ freeList \in Seq(Blocks)
      /\ DOMAIN freeList = 1 .. n
      /\ b \in Blocks
      /\ next[b] = head
      /\ InTransit(b)
  BY DEF FreePush, TypeOK, NodeMeans, InTransit
<1>2. /\ freeList' \in Seq(Blocks)
      /\ Len(freeList') = n + 1
      /\ DOMAIN freeList' = 1 .. n + 1
      /\ \A i \in 1 .. n : freeList'[i] = freeList[i]
      /\ freeList'[n + 1] = b
  BY <1>1, PushLast DEF FreePush
<1>3. /\ pc'[t] = "freeUnlock" /\ node'[t] = NULL
      /\ \A u \in Threads : u # t => pc'[u] = pc[u] /\ node'[u] = node[u]
      /\ UNCHANGED << next, mutex, held >>
      /\ head' = b
  BY <1>1 DEF FreePush, Goto, TypeOK
<1>4. TypeOK'
  BY <1>1, <1>2 DEF FreePush, Goto, TypeOK, FreeSteps
<1>5. MutexHeld'
  BY <1>3 DEF FreePush, MutexHeld, Critical, TypeOK
<1>6. NodeMeans'
  BY <1>3 DEF FreePush, NodeMeans, MutexHeld, Critical
<1>7. \A c \in Blocks : c \in Members(freeList)' <=> c \in Members(freeList) \/ c = b
  BY <1>1, <1>2 DEF Members
<1>8. b \notin held /\ b \notin Members(freeList)
  BY <1>1 DEF NoDoubleHandout
<1>9. \A u \in Threads : node[u] = b /\ pc[u] # "allocPop" => u = t
  BY <1>1 DEF FreePush, NoDoubleHandout, Blocks, NULL
<1>10. \A c \in Blocks : InTransit(c)' <=> InTransit(c) /\ c # b
  BY <1>1, <1>3, <1>9 DEF InTransit, Blocks, NULL
<1>11. NoDoubleHandout'
  <2>1. \A i, j \in DOMAIN freeList' : freeList'[i] = freeList'[j] => i = j
    BY <1>1, <1>2, <1>8 DEF NoDoubleHandout, Members
  <2>2. ASSUME NEW c \in Blocks
        PROVE  /\ ~(c \in held' /\ (c \in Members(freeList)' \/ InTransit(c)'))
               /\ ~(c \in Members(freeList)' /\ InTransit(c)')
    BY <1>3, <1>7, <1>8, <1>10 DEF NoDoubleHandout
  <2>3. \A u, v \in Threads :
           node'[u] = node'[v] /\ node'[u] # NULL
           /\ pc'[u] # "allocPop" /\ pc'[v] # "allocPop" => u = v
    BY <1>3 DEF NoDoubleHandout
  <2> QED
    BY <2>1, <2>2, <2>3 DEF NoDoubleHandout
<1>12. NothingLost'
  BY <1>3, <1>7, <1>10 DEF NothingLost
<1>13. ChainIntact'
  <2>1. /\ head = IF n = 0 THEN NULL ELSE freeList[n]
        /\ \A i \in 1 .. n : next[freeList[i]] = IF i = 1 THEN NULL ELSE freeList[i - 1]
    BY DEF ChainIntact
  <2>2. head' = IF n + 1 = 0 THEN NULL ELSE freeList'[n + 1]
    BY <1>1, <1>2, <1>3
  <2>3. ASSUME NEW i \in 1 .. n + 1
        PROVE  next'[freeList'[i]] = IF i = 1 THEN NULL ELSE freeList'[i - 1]
    <3>1. CASE i = n + 1
      <4>1. next'[freeList'[i]] = head
        BY <1>1, <1>2, <1>3, <3>1
      <4>2. i # 1 => i - 1 = n /\ n # 0 /\ freeList'[i - 1] = freeList[n]
        BY <1>1, <1>2, <3>1
      <4>3. i = 1 => n = 0
        BY <1>1, <3>1
      <4> QED
        BY <2>1, <4>1, <4>2, <4>3
    <3>2. CASE i # n + 1
      <4>1. i \in 1 .. n /\ freeList'[i] = freeList[i]
        BY <1>1, <1>2, <3>2
      <4>2. i # 1 => i - 1 \in 1 .. n /\ freeList'[i - 1] = freeList[i - 1]
        BY <1>1, <1>2, <4>1
      <4> QED
        BY <1>3, <2>1, <4>1, <4>2
    <3> QED
      BY <3>1, <3>2
  <2> QED
    BY <1>2, <2>2, <2>3 DEF ChainIntact
<1> QED
  BY <1>4, <1>5, <1>6, <1>11, <1>12, <1>13

LEMMA FreeUnlockKeepsIInv == ASSUME IInv, NEW t \in Threads, FreeUnlock(t) PROVE IInv'
<1> USE DEF IInv, FreeUnlock, Goto
<1>1. TypeOK'
  BY DEF TypeOK
<1>2. MutexHeld'
  BY NoThreadAssumption DEF TypeOK, MutexHeld, Critical
<1>3. NodeMeans'
  BY DEF NodeMeans
<1>4. NoDoubleHandout'
  BY DEF NoDoubleHandout, InTransit
<1>5. NothingLost'
  BY DEF NothingLost, InTransit
<1>6. ChainIntact'
  BY DEF ChainIntact
<1> QED
  BY <1>1, <1>2, <1>3, <1>4, <1>5, <1>6

\* A caller writes only into a block it holds, which the chain does not reach.
LEMMA UseKeepsIInv == ASSUME IInv, Use PROVE IInv'
<1> USE DEF IInv
<1>1. PICK b \in held : next' = [next EXCEPT ![b] = Bytes]
  BY DEF Use
<1>2. UNCHANGED << head, mutex, pc, node, held, freeList >>
  BY DEF Use
<1>3. b \in Blocks /\ b \notin Members(freeList) /\ ~InTransit(b)
  BY DEF TypeOK, NoDoubleHandout
<1>4. TypeOK'
  BY <1>1, <1>2 DEF TypeOK, Bytes
<1>5. MutexHeld' /\ NoDoubleHandout' /\ NothingLost'
  BY <1>2 DEF MutexHeld, NoDoubleHandout, NothingLost, InTransit, Members
<1>6. NodeMeans'
  BY <1>1, <1>2, <1>3 DEF NodeMeans, InTransit, TypeOK, Blocks, NULL
<1>7. ChainIntact'
  BY <1>1, <1>2, <1>3 DEF ChainIntact, Members, TypeOK
<1> QED
  BY <1>4, <1>5, <1>6, <1>7

LEMMA NextKeepsIInv == ASSUME IInv, [Next]_vars PROVE IInv'
<1>1. CASE Use
  BY <1>1, UseKeepsIInv
<1>2. ASSUME NEW t \in Threads, Step(t) PROVE IInv'
  BY <1>2, AllocCallKeepsIInv, AllocLockKeepsIInv, AllocReadKeepsIInv,
     AllocPopKeepsIInv, AllocUnlockKeepsIInv, FreeCallKeepsIInv, FreeLockKeepsIInv,
     FreeLinkKeepsIInv, FreePushKeepsIInv, FreeUnlockKeepsIInv DEF Step
<1>3. CASE UNCHANGED vars
  BY <1>3 DEF vars, IInv, TypeOK, MutexHeld, NodeMeans, NoDoubleHandout, NothingLost,
              ChainIntact, InTransit, Members
<1> QED
  BY <1>1, <1>2, <1>3 DEF Next

LEMMA Invariance == Spec => []IInv
<1>1. Init => IInv
  BY InitIInv
<1>2. IInv /\ [Next]_vars => IInv'
  BY NextKeepsIInv
<1> QED
  BY <1>1, <1>2, PTL DEF Spec
-----------------------------------------------------------------------------
(***************************************************************************)
(* Theorems.                                                               *)
(***************************************************************************)
\* The allocator's variables keep their types for any number of threads.
THEOREM TypeCorrect == Spec => []TypeOK
<1>1. IInv => TypeOK
  BY DEF IInv
<1> QED
  BY <1>1, Invariance, PTL

\* pool_alloc never hands out a block that another caller has or that the
\* free list still reaches, for any number of threads and blocks.
THEOREM NeverHandedOutTwice == Spec => []NoDoubleHandout
<1>1. IInv => NoDoubleHandout
  BY DEF IInv
<1> QED
  BY <1>1, Invariance, PTL

\* Every block is free, handed out or in transit: pool_alloc and pool_free
\* lose none, however their steps interleave.
THEOREM NeverLost == Spec => []NothingLost
<1>1. IInv => NothingLost
  BY DEF IInv
<1> QED
  BY <1>1, Invariance, PTL

\* The chain through the free blocks stays a list of exactly the free blocks,
\* whatever callers write into theirs.
THEOREM ChainAlwaysIntact == Spec => []ChainIntact
<1>1. IInv => ChainIntact
  BY DEF IInv
<1> QED
  BY <1>1, Invariance, PTL
-----------------------------------------------------------------------------
(***************************************************************************)
(* The allocator implements the atomic pool.                               *)
(***************************************************************************)
LEMMA InitRefines == Init => Service!Init
<1> SUFFICES ASSUME Init PROVE Service!Init
  OBVIOUS
<1>1. Members(freeList) = Blocks
  BY BlockCountAssumption DEF Init, Members, Blocks
<1> QED
  BY <1>1 DEF Init, Service!Init

LEMMA StepRefines ==
    ASSUME IInv, NEW t \in Threads, Step(t)
    PROVE  Service!Next \/ UNCHANGED Service!vars
<1> USE DEF IInv
<1>1. CASE AllocCall(t)
  <2>1. Service!Ask(t)
    BY <1>1 DEF AllocCall, Goto, TypeOK, NodeMeans, Service!Ask, Members
  <2> QED
    BY <2>1 DEF Service!Next
<1>2. CASE AllocLock(t)
  BY <1>2 DEF AllocLock, Goto, TypeOK, Service!vars, Members
<1>3. CASE AllocRead(t) /\ head = NULL
  <2>1. Members(freeList) = {}
    <3>1. Len(freeList) \in Nat /\ DOMAIN freeList = 1 .. Len(freeList)
      BY DEF TypeOK
    <3>2. ASSUME Len(freeList) # 0 PROVE FALSE
      <4>1. freeList[Len(freeList)] \in Blocks
        BY <3>1, <3>2 DEF TypeOK
      <4> QED
        BY <1>3, <3>2, <4>1 DEF ChainIntact, NULL, Blocks
    <3> QED
      BY <3>1, <3>2 DEF Members
  <2>2. Service!Refuse(t)
    BY <1>3, <2>1 DEF AllocRead, Goto, TypeOK, NodeMeans, Service!Refuse, Members
  <2> QED
    BY <2>2 DEF Service!Next
<1>4. CASE AllocRead(t) /\ head # NULL
  BY <1>4 DEF AllocRead, Goto, TypeOK, NodeMeans, Service!vars, Members
<1>5. CASE AllocPop(t)
  <2> DEFINE n == Len(freeList)
  <2>1. /\ n \in Nat \ {0}
        /\ freeList \in Seq(Blocks)
        /\ freeList # << >>
        /\ node[t] = freeList[n]
        /\ DOMAIN freeList = 1 .. n
    BY <1>5 DEF AllocPop, TypeOK, NodeMeans, ChainIntact, NULL, Blocks
  <2>2. /\ DOMAIN freeList' = 1 .. n - 1
        /\ \A i \in 1 .. n - 1 : freeList'[i] = freeList[i]
    BY <1>5, <2>1, PopLast DEF AllocPop
  <2>3. Members(freeList') = Members(freeList) \ {node[t]}
    BY <2>1, <2>2 DEF Members, NoDoubleHandout
  <2>4. node[t] \in Members(freeList)
    BY <2>1 DEF Members
  <2>5. Service!HandOut(t)
    BY <1>5, <2>3, <2>4 DEF AllocPop, Goto, TypeOK, Service!HandOut
  <2> QED
    BY <2>5 DEF Service!Next
<1>6. CASE AllocUnlock(t)
  <2>1. Service!Return(t)
    BY <1>6 DEF AllocUnlock, Goto, TypeOK, Service!Return, Members
  <2> QED
    BY <2>1 DEF Service!Next
<1>7. CASE FreeCall(t)
  <2>1. Service!GiveBack(t)
    BY <1>7 DEF FreeCall, Goto, TypeOK, Service!GiveBack, Members
  <2> QED
    BY <2>1 DEF Service!Next
<1>8. CASE FreeLock(t)
  BY <1>8 DEF FreeLock, Goto, TypeOK, Service!vars, Members
<1>9. CASE FreeLink(t)
  BY <1>9 DEF FreeLink, Goto, TypeOK, Service!vars, Members
<1>10. CASE FreePush(t)
  <2> DEFINE n == Len(freeList)
  <2>1. /\ DOMAIN freeList = 1 .. n
        /\ DOMAIN freeList' = 1 .. n + 1
        /\ \A i \in 1 .. n : freeList'[i] = freeList[i]
        /\ freeList'[n + 1] = node[t]
        /\ n \in Nat
    <3>1. node[t] \in Blocks /\ freeList \in Seq(Blocks)
      BY <1>10 DEF FreePush, TypeOK, NodeMeans
    <3> QED
      BY <1>10, <3>1, PushLast DEF FreePush
  <2>2. Members(freeList') = Members(freeList) \cup {node[t]}
    BY <2>1 DEF Members
  <2>3. Service!Accept(t)
    BY <1>10, <2>2 DEF FreePush, Goto, TypeOK, Service!Accept
  <2> QED
    BY <2>3 DEF Service!Next
<1>11. CASE FreeUnlock(t)
  BY <1>11 DEF FreeUnlock, Goto, TypeOK, NodeMeans, Service!vars, Members
<1> QED
  BY <1>1, <1>2, <1>3, <1>4, <1>5, <1>6, <1>7, <1>8, <1>9, <1>10, <1>11 DEF Step

\* Whatever the interleaving of lock, read, pop, link and push, the callers of
\* pool_alloc and pool_free see a pool whose calls take effect at one instant,
\* and get NULL only from an exhausted pool.
THEOREM ImplementsPoolService == Spec => ActsAtomically
<1>1. Init => Service!Init
  BY InitRefines
<1>2. IInv /\ [Next]_vars => [Service!Next]_(Service!vars)
  <2>1. CASE Use
    BY <2>1 DEF Use, Service!vars, Members
  <2>2. CASE UNCHANGED vars
    BY <2>2 DEF vars, Service!vars, Members
  <2> QED
    BY <2>1, <2>2, StepRefines DEF Next
<1> QED
  BY <1>1, <1>2, Invariance, PTL DEF Spec, ActsAtomically, Service!Spec
-----------------------------------------------------------------------------
(***************************************************************************)
(* The processes run the pool.                                             *)
(***************************************************************************)
\* What main and the guard do without calling the allocator leaves it alone.
LEMMA ProcessStepsPool == [ProcessNext]_allVars => [Next]_vars
<1> SUFFICES ASSUME [ProcessNext]_allVars PROVE Next \/ UNCHANGED vars
  OBVIOUS
<1> Main \in Threads
  BY MainAssumption
<1>1. CASE UNCHANGED allVars
  BY <1>1 DEF allVars
<1>2. CASE MainStep
  <2>1. CASE MainPoolStep
    BY <2>1 DEF MainPoolStep, Next
  <2>2. CASE DecodeLog
    BY <2>2 DEF DecodeLog, Next, Step
  <2>3. CASE TakeLog
    BY <2>3 DEF TakeLog, Next, Step
  <2>4. CASE FreeLog
    BY <2>4 DEF FreeLog, Next, Step
  <2>5. CASE LibraryCall \/ CreateSpawns \/ Created \/ Settle \/ TryArm \/ TryDisarm \/ Wrote
             \/ TakeSamples \/ LogsOver \/ Finish
    BY <2>5 DEF LibraryCall, CreateSpawns, Created, Settle, TryArm, TryDisarm, Wrote,
                TakeSamples, LogsOver, Finish
  <2> QED
    BY <1>2, <2>1, <2>2, <2>3, <2>4, <2>5 DEF MainStep
<1>3. CASE UseBlock
  BY <1>3 DEF UseBlock, Next
<1>4. CASE Ended
  BY <1>4 DEF Ended, allVars
<1>5. ASSUME NEW t \in Threads, GuardStep(t) PROVE UNCHANGED vars
  BY <1>5 DEF GuardStep, EnterFreeUnseen, EnterBootstrap, EnterEnsure, Resolve, DlsymAllocates,
              EnsureReturns, Check, StoreArmed, CallReal, TripAllocates, TripAborts
<1>6. ASSUME NEW t \in Threads, Discover(t) \/ SpawnReturns(t) PROVE UNCHANGED vars
  BY <1>6 DEF Discover, SpawnReturns
<1>7. ASSUME NEW t \in Threads, PoolStep(t) PROVE Next
  BY <1>7 DEF PoolStep, Next
<1> QED
  BY <1>1, <1>2, <1>3, <1>4, <1>5, <1>6, <1>7 DEF ProcessNext

\* Every run of a publisher, a subscriber or a bootstrap check is a run of the
\* pool.
THEOREM ProcessRunsPool == ProcessSpec => Spec
<1>1. ProcessInit => Init
  BY DEF ProcessInit
<1> QED
  BY <1>1, ProcessStepsPool, PTL DEF ProcessSpec, Spec

\* Whatever main, the middleware's threads and the guard do, no block has two
\* owners.
THEOREM ProcessNeverHandsOutTwice == ProcessSpec => []NoDoubleHandout
  BY ProcessRunsPool, NeverHandedOutTwice, PTL

\* Nor is one lost, also by a subscriber that frees what take has decoded.
THEOREM ProcessNeverLoses == ProcessSpec => []NothingLost
  BY ProcessRunsPool, NeverLost, PTL

\* The free list stays a list, whatever the threads write into their blocks.
THEOREM ProcessKeepsChain == ProcessSpec => []ChainIntact
  BY ProcessRunsPool, ChainAlwaysIntact, PTL

\* To the threads of a process the pool is an atomic one.
THEOREM ProcessImplementsPoolService == ProcessSpec => ActsAtomically
  BY ProcessRunsPool, ImplementsPoolService, PTL
-----------------------------------------------------------------------------
(***************************************************************************)
(* The guard.  Until the real functions are known there is one thread, and *)
(* its stack has one of four shapes; afterwards nothing is looked up again.*)
(***************************************************************************)
GuardTypes ==
    /\ preloaded \in BOOLEAN /\ armed \in BOOLEAN /\ resolving \in BOOLEAN
    /\ Main \in live /\ spawning \subseteq live /\ live \subseteq Threads
    /\ stack \in [Threads -> Seq(Frame)]
    /\ resolved \subseteq RealFns

\* A frame has got past its entry only under the guard and with a heap block.
FrameOK(f) ==
    f.at # "enter" => /\ preloaded /\ f.ptr = "heap"
                      /\ f.at \in {"through", "trip"} => f.op # "arm"

FramesOK == \A t \in Threads : \A i \in 1 .. Len(stack[t]) : FrameOK(stack[t][i])

Ready == resolved = RealFns /\ ~resolving

\* The shapes of main's stack before: no call; a call that has not looked yet;
\* a call inside dlsym; and dlsym's own calloc on top of it.
Quiet(s)    == s = << >> /\ ~resolving /\ spawning = {}
Entering(s) == /\ Len(s) = 1 /\ s[1].at = "enter" /\ ~resolving
               /\ spawning # {} => s[1].op = "malloc" /\ s[1].ptr = "heap"
Looking(s)  == Len(s) = 1 /\ s[1].at = "dlsym" /\ resolving
Nested(s)   == /\ Len(s) = 2 /\ s[2].at = "dlsym" /\ resolving
               /\ s[1].op = "calloc" /\ s[1].ptr = "heap"
               /\ s[1].at # "enter" => s[1].at \in {"check", "through"} /\ "calloc" \in resolved

Before(s) == Quiet(s) \/ Entering(s) \/ Looking(s) \/ Nested(s)

Early ==
    /\ live = {Main} /\ ~armed
    /\ \A t \in Threads \ {Main} : stack[t] = << >>
    /\ Before(stack[Main])

GuardInv ==
    /\ GuardTypes
    /\ FramesOK
    /\ preloaded => Ready \/ Early

\* The three changes of a stack.
LEMMA Pushed ==
    ASSUME GuardTypes, NEW t \in Threads,
           NEW op \in RealFns \cup {"arm"}, NEW ptr \in {"heap", "boot"}, Call(t, op, ptr)
    PROVE  /\ stack' \in [Threads -> Seq(Frame)]
           /\ \A u \in Threads : u # t => stack'[u] = stack[u]
           /\ Len(stack'[t]) = Len(stack[t]) + 1
           /\ stack'[t][1].at = "enter" /\ stack'[t][1].op = op /\ stack'[t][1].ptr = ptr
           /\ stack'[t][1].begunArmed = armed
           /\ \A i \in 1 .. Len(stack[t]) : stack'[t][i + 1] = stack[t][i]
           /\ \A i \in 2 .. Len(stack'[t]) : stack'[t][i] = stack[t][i - 1]
<1> DEFINE f == [op |-> op, ptr |-> ptr, at |-> "enter", begunArmed |-> armed]
           s == stack[t]
<1>1. f \in Frame /\ s \in Seq(Frame) /\ << f >> \in Seq(Frame) /\ Len(<< f >>) = 1
  <2>1. armed \in BOOLEAN /\ s \in Seq(Frame)
    BY DEF GuardTypes
  <2>2. f \in Frame
    BY <2>1 DEF Frame
  <2>3. << f >> \in Seq(Frame) /\ Len(<< f >>) = 1
    BY <2>2
  <2> QED
    BY <2>1, <2>2, <2>3
<1>2. stack' = [stack EXCEPT ![t] = << f >> \o s]
  BY DEF Call
<1>3. << f >> \o s \in Seq(Frame) /\ Len(<< f >> \o s) = Len(s) + 1
  BY <1>1, ConcatProperties
<1>4. \A i \in 1 .. Len(s) + 1 : (<< f >> \o s)[i] = IF i <= 1 THEN f ELSE s[i - 1]
  BY <1>1, ConcatProperties
<1>5. stack'[t] = << f >> \o s /\ Len(s) \in Nat
  BY <1>1, <1>2 DEF GuardTypes
<1>6. stack' \in [Threads -> Seq(Frame)] /\ \A u \in Threads : u # t => stack'[u] = stack[u]
  BY <1>2, <1>3 DEF GuardTypes
<1>7. stack'[t][1] = f
  BY <1>4, <1>5
<1>8. \A i \in 1 .. Len(s) : stack'[t][i + 1] = s[i]
  BY <1>4, <1>5
<1>9. \A i \in 2 .. Len(stack'[t]) : stack'[t][i] = s[i - 1]
  BY <1>3, <1>4, <1>5
<1> QED
  BY <1>3, <1>5, <1>6, <1>7, <1>8, <1>9

LEMMA Popped ==
    ASSUME GuardTypes, NEW t \in Threads, stack[t] # << >>, Return(t)
    PROVE  /\ stack' \in [Threads -> Seq(Frame)]
           /\ \A u \in Threads : u # t => stack'[u] = stack[u]
           /\ Len(stack[t]) \in Nat /\ Len(stack[t]) >= 1
           /\ Len(stack'[t]) = Len(stack[t]) - 1
           /\ \A i \in 1 .. Len(stack'[t]) : stack'[t][i] = stack[t][i + 1]
<1>1. stack[t] \in Seq(Frame)
  BY DEF GuardTypes
<1>2. stack'[t] = Tail(stack[t]) /\ Len(stack[t]) \in Nat /\ Len(stack[t]) >= 1
  BY <1>1 DEF GuardTypes, Return
<1>3. Tail(stack[t]) \in Seq(Frame) /\ Len(Tail(stack[t])) = Len(stack[t]) - 1
  BY <1>1, HeadTailProperties
<1>4. \A i \in 1 .. Len(Tail(stack[t])) : Tail(stack[t])[i] = stack[t][i + 1]
  BY <1>1, HeadTailProperties
<1> QED
  BY <1>2, <1>3, <1>4 DEF GuardTypes, Return

LEMMA Moved ==
    ASSUME GuardTypes, NEW t \in Threads, stack[t] # << >>,
           NEW place \in {"enter", "dlsym", "check", "through", "trip"}, Move(t, place)
    PROVE  /\ stack' \in [Threads -> Seq(Frame)]
           /\ \A u \in Threads : u # t => stack'[u] = stack[u]
           /\ Len(stack[t]) \in Nat /\ Len(stack[t]) >= 1
           /\ Len(stack'[t]) = Len(stack[t])
           /\ stack'[t][1].at = place
           /\ stack'[t][1].op = stack[t][1].op /\ stack'[t][1].ptr = stack[t][1].ptr
           /\ stack'[t][1].begunArmed = stack[t][1].begunArmed
           /\ \A i \in 2 .. Len(stack[t]) : stack'[t][i] = stack[t][i]
<1> DEFINE s == stack[t]
           f == [s[1] EXCEPT !.at = place]
<1>1. s \in Seq(Frame) /\ Len(s) \in Nat /\ Len(s) >= 1 /\ s[1] \in Frame
  BY DEF GuardTypes
<1>2. /\ f \in Frame /\ f.at = place /\ f.op = s[1].op /\ f.ptr = s[1].ptr
      /\ f.begunArmed = s[1].begunArmed
  BY <1>1 DEF Frame
<1>3. stack'[t] = [s EXCEPT ![1] = f]
  BY <1>1 DEF Move, GuardTypes
<1>4. [s EXCEPT ![1] = f] \in Seq(Frame) /\ Len([s EXCEPT ![1] = f]) = Len(s)
  BY <1>1, <1>2, ExceptSeq
<1>5. stack'[t][1] = f /\ \A i \in 2 .. Len(s) : stack'[t][i] = s[i]
  BY <1>1, <1>3
<1>6. stack' \in [Threads -> Seq(Frame)] /\ \A u \in Threads : u # t => stack'[u] = stack[u]
  BY <1>3, <1>4 DEF Move, GuardTypes
<1> QED
  BY <1>1, <1>2, <1>3, <1>4, <1>5, <1>6
-----------------------------------------------------------------------------
\* What each change of a stack does to the frames.
LEMMA PushedFramesOK ==
    ASSUME GuardInv, NEW t \in Threads, preloaded' = preloaded,
           NEW op \in RealFns \cup {"arm"}, NEW ptr \in {"heap", "boot"}, Call(t, op, ptr)
    PROVE  FramesOK'
<1> SUFFICES ASSUME NEW u \in Threads, NEW i \in 1 .. Len(stack'[u])
             PROVE  FrameOK(stack[u][i])'
  BY DEF FramesOK
<1>1. CASE u # t
  BY <1>1, Pushed DEF GuardInv, FramesOK, FrameOK
<1>2. CASE u = t /\ i = 1
  BY <1>2, Pushed DEF GuardInv, FrameOK
<1>3. CASE u = t /\ i # 1
  <2>1. Len(stack[t]) \in Nat
    BY DEF GuardInv, GuardTypes
  <2>2. stack'[t][i] = stack[t][i - 1] /\ i - 1 \in 1 .. Len(stack[t])
    BY <1>3, <2>1, Pushed DEF GuardInv
  <2> QED
    BY <1>3, <2>2 DEF GuardInv, FramesOK, FrameOK
<1> QED
  BY <1>1, <1>2, <1>3

LEMMA PoppedFramesOK ==
    ASSUME GuardInv, NEW t \in Threads, preloaded' = preloaded,
           stack[t] # << >>, Return(t)
    PROVE  FramesOK'
<1> SUFFICES ASSUME NEW u \in Threads, NEW i \in 1 .. Len(stack'[u])
             PROVE  FrameOK(stack[u][i])'
  BY DEF FramesOK
<1>1. CASE u # t
  BY <1>1, Popped DEF GuardInv, FramesOK, FrameOK
<1>2. CASE u = t
  <2>1. stack'[t][i] = stack[t][i + 1] /\ i + 1 \in 1 .. Len(stack[t])
    BY <1>2, Popped DEF GuardInv
  <2> QED
    BY <1>2, <2>1 DEF GuardInv, FramesOK, FrameOK
<1> QED
  BY <1>1, <1>2

LEMMA MovedFramesOK ==
    ASSUME GuardInv, NEW t \in Threads, preloaded' = preloaded, stack[t] # << >>,
           NEW place \in {"enter", "dlsym", "check", "through", "trip"}, Move(t, place),
           preloaded, Top(t).ptr = "heap", place \in {"through", "trip"} => Top(t).op # "arm"
    PROVE  FramesOK'
<1> SUFFICES ASSUME NEW u \in Threads, NEW i \in 1 .. Len(stack'[u])
             PROVE  FrameOK(stack[u][i])'
  BY DEF FramesOK
<1>1. Top(t) = stack[t][1]
  BY DEF Top, GuardInv, GuardTypes
<1>2. CASE u # t
  BY <1>2, Moved DEF GuardInv, FramesOK, FrameOK
<1>3. CASE u = t /\ i = 1
  BY <1>1, <1>3, Moved DEF GuardInv, FrameOK
<1>4. CASE u = t /\ i # 1
  <2>1. stack'[t][i] = stack[t][i] /\ i \in 1 .. Len(stack[t])
    BY <1>4, Moved DEF GuardInv
  <2> QED
    BY <1>4, <2>1 DEF GuardInv, FramesOK, FrameOK
<1> QED
  BY <1>2, <1>3, <1>4

\* A thread with a call in progress, before everything has been looked up, is
\* main.
LEMMA EarlyTop ==
    ASSUME GuardInv, Early, NEW t \in Threads, stack[t] # << >>
    PROVE  /\ t = Main /\ Top(t) = stack[Main][1]
           /\ \/ Entering(stack[Main])
              \/ Looking(stack[Main])
              \/ Nested(stack[Main])
  BY DEF GuardInv, GuardTypes, Early, Before, Quiet, Top

LEMMA FreeKeeps == ASSUME GuardInv, NEW t \in Threads, EnterFreeUnseen(t) PROVE GuardInv'
<1>1. /\ stack[t] # << >> /\ Top(t).at = "enter" /\ FreedUnseen(t) /\ Return(t)
      /\ UNCHANGED << vars, mainVars, guardVars, over >>
  BY DEF EnterFreeUnseen, TopAt
<1>2. UNCHANGED << preloaded, armed, resolving, live, spawning, resolved >>
  BY <1>1 DEF mainVars, guardVars
<1>3. GuardTypes'
  BY <1>1, <1>2, Popped DEF GuardInv, GuardTypes
<1>4. FramesOK'
  BY <1>1, <1>2, PoppedFramesOK
<1>5. ASSUME preloaded, Early PROVE Early'
  <2>1. t = Main /\ Top(t) = stack[Main][1] /\ Top(t).ptr = "boot"
    BY <1>1, <1>5, EarlyTop DEF FreedUnseen
  <2>2. Entering(stack[Main])
    BY <1>1, <1>5, <2>1, EarlyTop DEF Entering, Looking, Nested
  <2>3. stack'[Main] = << >> /\ spawning = {} /\ ~resolving
    BY <1>1, <2>1, <2>2, Popped DEF Entering, GuardInv
  <2> QED
    BY <1>1, <1>2, <1>5, <2>1, <2>3, Popped DEF Early, Before, Quiet, GuardInv
<1>6. Ready => Ready'
  BY <1>2 DEF Ready
<1> QED
  BY <1>2, <1>3, <1>4, <1>5, <1>6 DEF GuardInv

LEMMA BootstrapKeeps == ASSUME GuardInv, NEW t \in Threads, EnterBootstrap(t) PROVE GuardInv'
<1>1. /\ stack[t] # << >> /\ Top(t).at = "enter" /\ preloaded /\ resolving /\ Return(t)
      /\ UNCHANGED << vars, mainVars, armed, resolving, resolved, inTrip, over >>
  BY DEF EnterBootstrap, ServedByBootstrap, TopAt
<1>2. UNCHANGED << preloaded, armed, resolving, live, spawning, resolved >>
  BY <1>1 DEF mainVars
<1>3. GuardTypes'
  BY <1>1, <1>2, Popped DEF GuardInv, GuardTypes
<1>4. FramesOK'
  BY <1>1, <1>2, PoppedFramesOK
<1>5. Early
  BY <1>1 DEF GuardInv, Ready
<1>6. t = Main /\ Nested(stack[Main])
  BY <1>1, <1>5, EarlyTop DEF Entering, Looking
<1>7. Looking(stack[Main])'
  <2>1. Len(stack[t]) = 2 /\ stack[t][2].at = "dlsym"
    BY <1>6 DEF Nested
  <2>2. Len(stack'[t]) = 1
    <3>1. Len(stack'[t]) = Len(stack[t]) - 1
      BY <1>1, Popped DEF GuardInv
    <3> QED
      BY <2>1, <3>1
  <2>3. stack'[t][1] = stack[t][1 + 1]
    BY <1>1, <2>2, Popped DEF GuardInv
  <2> QED
    BY <1>1, <1>6, <2>1, <2>2, <2>3 DEF Looking
<1>8. Early'
  BY <1>1, <1>2, <1>5, <1>6, <1>7, Popped DEF Early, Before, GuardInv
<1> QED
  BY <1>2, <1>3, <1>4, <1>8 DEF GuardInv

LEMMA EnsureKeeps == ASSUME GuardInv, NEW t \in Threads, EnterEnsure(t) PROVE GuardInv'
<1>1. /\ stack[t] # << >> /\ Top(t).at = "enter" /\ preloaded /\ Top(t).ptr # "boot"
      /\ ~ServedByBootstrap(t)
      /\ UNCHANGED << vars, mainVars, armed, resolved, bootUsed, inTrip, over >>
  BY DEF EnterEnsure, FreedUnseen, TopAt
<1>2. UNCHANGED << preloaded, armed, live, spawning, resolved >>
  BY <1>1 DEF mainVars
<1>3. Top(t) = stack[t][1] /\ Top(t) \in Frame
  BY <1>1 DEF Top, GuardInv, GuardTypes
<1>4. Top(t).ptr = "heap"
  BY <1>1, <1>3 DEF Frame
<1>5. CASE resolved = RealFns \/ resolving
  <2>1. Move(t, "check") /\ UNCHANGED resolving
    BY <1>5 DEF EnterEnsure
  <2>2. GuardTypes'
    BY <1>1, <1>2, <2>1, Moved DEF GuardInv, GuardTypes
  <2>3. FramesOK'
    BY <1>1, <1>2, <1>4, <2>1, MovedFramesOK
  <2>4. ASSUME Early PROVE (Ready \/ Early)'
    <3>1. t = Main /\ ~Looking(stack[Main]) /\ (Entering(stack[Main]) \/ Nested(stack[Main]))
      BY <1>1, <2>4, EarlyTop DEF Looking
    <3>2. CASE Entering(stack[Main])
      BY <1>2, <1>5, <2>1, <3>2 DEF Entering, Ready
    <3>3. CASE Nested(stack[Main])
      <4>1. "calloc" \in resolved
        BY <1>1, <1>3, <3>1, <3>3 DEF ServedByBootstrap, Nested
      <4>2. Nested(stack[Main])'
        BY <1>1, <1>2, <2>1, <3>1, <3>3, <4>1, Moved DEF Nested, GuardInv
      <4> QED
        BY <1>1, <1>2, <2>1, <2>4, <3>1, <4>2, Moved DEF Early, Before, GuardInv
    <3> QED
      BY <3>1, <3>2, <3>3
  <2>5. Ready => Ready'
    BY <1>2, <2>1 DEF Ready
  <2> QED
    BY <1>1, <1>2, <2>2, <2>3, <2>4, <2>5 DEF GuardInv
<1>6. CASE ~(resolved = RealFns \/ resolving)
  <2>1. Move(t, "dlsym") /\ resolving' = TRUE
    BY <1>6 DEF EnterEnsure
  <2>2. GuardTypes'
    BY <1>1, <1>2, <2>1, Moved DEF GuardInv, GuardTypes
  <2>3. FramesOK'
    BY <1>1, <1>2, <1>4, <2>1, MovedFramesOK
  <2>4. Early /\ t = Main /\ Entering(stack[Main])
    BY <1>1, <1>6, EarlyTop DEF GuardInv, Ready, Looking, Nested
  <2>5. Looking(stack[Main])'
    BY <1>1, <2>1, <2>4, Moved DEF Looking, Entering, GuardInv
  <2>6. Early'
    BY <1>1, <1>2, <2>1, <2>4, <2>5, Moved DEF Early, Before, GuardInv
  <2> QED
    BY <1>2, <2>2, <2>3, <2>6 DEF GuardInv
<1> QED
  BY <1>5, <1>6

\* What is not found has a first one.
LEMMA FirstNotFound ==
    ASSUME NotFound # {}
    PROVE  \E i \in NotFound : \A j \in NotFound : i <= j
<1>1. NotFound \subseteq 1 .. 4
  BY DEF NotFound, LookupOrder
<1>2. CASE 1 \in NotFound
  BY <1>1, <1>2
<1>3. CASE 1 \notin NotFound /\ 2 \in NotFound
  BY <1>1, <1>3
<1>4. CASE 1 \notin NotFound /\ 2 \notin NotFound /\ 3 \in NotFound
  BY <1>1, <1>4
<1>5. CASE 1 \notin NotFound /\ 2 \notin NotFound /\ 3 \notin NotFound
  <2>1. \A j \in NotFound : j = 4
    BY <1>1, <1>5
  <2> QED
    BY <2>1
<1> QED
  BY <1>2, <1>3, <1>4, <1>5

LEMMA AllFound == ASSUME resolved \subseteq RealFns PROVE NotFound = {} <=> resolved = RealFns
  BY DEF NotFound, RealFns

LEMMA ResolveKeeps == ASSUME GuardInv, NEW t \in Threads, Resolve(t) PROVE GuardInv'
<1> DEFINE i == CHOOSE i \in NotFound : \A j \in NotFound : i <= j
<1>1. /\ stack[t] # << >> /\ NotFound # {} /\ resolved' = resolved \cup {LookupOrder[i]}
      /\ UNCHANGED << vars, mainVars, stack, armed, resolving, bootUsed, inTrip, over >>
  BY DEF Resolve, TopAt
<1>2. UNCHANGED << preloaded, armed, live, spawning, stack, resolving >>
  BY <1>1 DEF mainVars
<1>3. i \in NotFound
  BY <1>1, FirstNotFound
<1>4. LookupOrder[i] \in RealFns
  BY <1>3 DEF NotFound, RealFns
<1>5. GuardTypes'
  BY <1>1, <1>2, <1>4 DEF GuardInv, GuardTypes
<1>6. FramesOK'
  BY <1>2 DEF GuardInv, FramesOK, FrameOK
<1>7. ~Ready
  BY <1>1, AllFound DEF GuardInv, GuardTypes, Ready
<1>8. Early => Early'
  BY <1>1, <1>2 DEF Early, Before, Quiet, Entering, Looking, Nested
<1> QED
  BY <1>2, <1>5, <1>6, <1>7, <1>8 DEF GuardInv

LEMMA DlsymAllocatesKeeps == ASSUME GuardInv, NEW t \in Threads, DlsymAllocates(t) PROVE GuardInv'
<1>1. /\ stack[t] # << >> /\ Top(t).at = "dlsym" /\ NotFound # {} /\ Call(t, "calloc", "heap")
      /\ UNCHANGED << vars, mainVars, guardVars, over >>
  BY DEF DlsymAllocates, TopAt
<1>2. UNCHANGED << preloaded, armed, resolving, live, spawning, resolved >>
  BY <1>1 DEF mainVars, guardVars
<1>3. "calloc" \in RealFns \cup {"arm"} /\ "heap" \in {"heap", "boot"}
  BY DEF RealFns, LookupOrder
<1>4. GuardTypes'
  BY <1>1, <1>2, <1>3, Pushed DEF GuardInv, GuardTypes
<1>5. FramesOK'
  BY <1>1, <1>2, <1>3, PushedFramesOK
<1>6. ~Ready
  BY <1>1, AllFound DEF GuardInv, GuardTypes, Ready
<1>7. ASSUME Early PROVE Early'
  <2>1. t = Main /\ Looking(stack[Main])
    BY <1>1, <1>7, EarlyTop DEF Entering, Nested
  <2>2. Len(stack'[t]) = 2
    <3>1. Len(stack'[t]) = Len(stack[t]) + 1
      BY <1>1, <1>3, Pushed DEF GuardInv
    <3>2. Len(stack[t]) = 1
      BY <2>1 DEF Looking
    <3> QED
      BY <3>1, <3>2
  <2>3. /\ stack'[t][1].at = "enter" /\ stack'[t][1].op = "calloc" /\ stack'[t][1].ptr = "heap"
        /\ stack'[t][1 + 1] = stack[t][1]
    BY <1>1, <1>3, <2>1, Pushed DEF GuardInv, Looking
  <2>4. Nested(stack[Main])'
    BY <1>2, <2>1, <2>2, <2>3 DEF Looking, Nested
  <2> QED
    BY <1>1, <1>2, <1>3, <1>7, <2>1, <2>4, Pushed DEF Early, Before, GuardInv
<1> QED
  BY <1>2, <1>4, <1>5, <1>6, <1>7 DEF GuardInv

LEMMA EnsureReturnsKeeps == ASSUME GuardInv, NEW t \in Threads, EnsureReturns(t) PROVE GuardInv'
<1>1. /\ stack[t] # << >> /\ Top(t).at = "dlsym" /\ NotFound = {} /\ Move(t, "check")
      /\ resolving' = FALSE
      /\ UNCHANGED << vars, mainVars, armed, resolved, bootUsed, inTrip, over >>
  BY DEF EnsureReturns, TopAt
<1>2. UNCHANGED << preloaded, armed, live, spawning, resolved >>
  BY <1>1 DEF mainVars
<1>3. FrameOK(Top(t)) /\ Top(t).at # "enter"
  BY <1>1 DEF GuardInv, GuardTypes, FramesOK, Top
<1>4. GuardTypes'
  BY <1>1, <1>2, Moved DEF GuardInv, GuardTypes
<1>5. FramesOK'
  BY <1>1, <1>2, <1>3, MovedFramesOK DEF FrameOK
<1>6. Ready'
  BY <1>1, <1>2, AllFound DEF GuardInv, GuardTypes, Ready
<1> QED
  BY <1>4, <1>5, <1>6 DEF GuardInv

LEMMA CheckKeeps == ASSUME GuardInv, NEW t \in Threads, Check(t) PROVE GuardInv'
<1>1. /\ stack[t] # << >> /\ Top(t).at = "check" /\ Top(t).op # "arm"
      /\ UNCHANGED << vars, mainVars, armed, resolving, resolved, bootUsed, over >>
  BY DEF Check, TopAt
<1>2. UNCHANGED << preloaded, armed, resolving, live, spawning, resolved >>
  BY <1>1 DEF mainVars
<1>3. PICK place \in {"trip", "through"} : Move(t, place) /\ (~armed => place = "through")
  BY DEF Check
<1>4. FrameOK(Top(t)) /\ Top(t).at # "enter"
  BY <1>1 DEF GuardInv, GuardTypes, FramesOK, Top
<1>5. GuardTypes'
  BY <1>1, <1>2, <1>3, Moved DEF GuardInv, GuardTypes
<1>6. FramesOK'
  BY <1>1, <1>2, <1>3, <1>4, MovedFramesOK DEF FrameOK
<1>7. Ready => Ready'
  BY <1>2 DEF Ready
<1>8. ASSUME Early PROVE Early'
  <2>1. t = Main /\ Nested(stack[Main]) /\ "calloc" \in resolved
    BY <1>1, <1>8, EarlyTop DEF Entering, Looking, Nested
  <2>2. Move(t, "through")
    BY <1>3, <1>8 DEF Early
  <2>3. Nested(stack[Main])'
    BY <1>1, <1>2, <2>1, <2>2, Moved DEF Nested, GuardInv
  <2> QED
    BY <1>1, <1>2, <1>8, <2>1, <2>2, <2>3, Moved DEF Early, Before, GuardInv
<1> QED
  BY <1>2, <1>5, <1>6, <1>7, <1>8 DEF GuardInv

LEMMA StoreArmedKeeps == ASSUME GuardInv, NEW t \in Threads, StoreArmed(t) PROVE GuardInv'
<1>1. /\ stack[t] # << >> /\ Top(t).at = "check" /\ Top(t).op = "arm" /\ armed' = TRUE /\ Return(t)
      /\ UNCHANGED << vars, mainVars, resolving, resolved, bootUsed, inTrip, over >>
  BY DEF StoreArmed, TopAt
<1>2. UNCHANGED << preloaded, resolving, live, spawning, resolved >>
  BY <1>1 DEF mainVars
<1>3. GuardTypes'
  BY <1>1, <1>2, Popped DEF GuardInv, GuardTypes
<1>4. FramesOK'
  BY <1>1, <1>2, PoppedFramesOK
<1>5. ~Early
  BY <1>1, EarlyTop DEF Entering, Looking, Nested
<1>6. Ready => Ready'
  BY <1>2 DEF Ready
<1> QED
  BY <1>2, <1>3, <1>4, <1>5, <1>6 DEF GuardInv

LEMMA CallRealKeeps == ASSUME GuardInv, NEW t \in Threads, CallReal(t) PROVE GuardInv'
<1>1. /\ stack[t] # << >> /\ Top(t).at = "through" /\ Return(t)
      /\ UNCHANGED << vars, mainVars, guardVars, over >>
  BY DEF CallReal, TopAt
<1>2. UNCHANGED << preloaded, armed, resolving, live, spawning, resolved >>
  BY <1>1 DEF mainVars, guardVars
<1>3. GuardTypes'
  BY <1>1, <1>2, Popped DEF GuardInv, GuardTypes
<1>4. FramesOK'
  BY <1>1, <1>2, PoppedFramesOK
<1>5. Ready => Ready'
  BY <1>2 DEF Ready
<1>6. ASSUME Early PROVE Early'
  <2>1. t = Main /\ Nested(stack[Main])
    BY <1>1, <1>6, EarlyTop DEF Entering, Looking
  <2>2. Looking(stack[Main])'
    <3>1. Len(stack'[t]) = Len(stack[t]) - 1
      BY <1>1, Popped DEF GuardInv
    <3>2. Len(stack'[t]) = 1
      BY <2>1, <3>1 DEF Nested
    <3>3. stack'[t][1] = stack[t][1 + 1]
      BY <1>1, <3>2, Popped DEF GuardInv
    <3> QED
      BY <1>2, <2>1, <3>2, <3>3 DEF Looking, Nested
  <2> QED
    BY <1>1, <1>2, <1>6, <2>1, <2>2, Popped DEF Early, Before, GuardInv
<1> QED
  BY <1>2, <1>3, <1>4, <1>5, <1>6 DEF GuardInv

LEMMA TripAllocatesKeeps == ASSUME GuardInv, NEW t \in Threads, TripAllocates(t) PROVE GuardInv'
<1>1. /\ stack[t] # << >> /\ Top(t).at = "trip" /\ Call(t, "malloc", "heap")
      /\ UNCHANGED << vars, mainVars, guardVars, over >>
  BY DEF TripAllocates, TopAt
<1>2. UNCHANGED << preloaded, armed, resolving, live, spawning, resolved >>
  BY <1>1 DEF mainVars, guardVars
<1>3. "malloc" \in RealFns \cup {"arm"} /\ "heap" \in {"heap", "boot"}
  BY DEF RealFns, LookupOrder
<1>4. GuardTypes'
  BY <1>1, <1>2, <1>3, Pushed DEF GuardInv, GuardTypes
<1>5. FramesOK'
  BY <1>1, <1>2, <1>3, PushedFramesOK
<1>6. ~Early
  BY <1>1, EarlyTop DEF Entering, Looking, Nested
<1>7. Ready => Ready'
  BY <1>2 DEF Ready
<1> QED
  BY <1>2, <1>4, <1>5, <1>6, <1>7 DEF GuardInv

LEMMA GuardStepKeeps == ASSUME GuardInv, NEW t \in Threads, GuardStep(t) PROVE GuardInv'
<1>1. CASE TripAborts(t)
  BY <1>1 DEF TripAborts, mainVars, guardVars, GuardInv, GuardTypes, FramesOK, FrameOK, Ready,
              Early, Before, Quiet, Entering, Looking, Nested
<1> QED
  BY <1>1, FreeKeeps, BootstrapKeeps, EnsureKeeps, ResolveKeeps, DlsymAllocatesKeeps,
     EnsureReturnsKeeps, CheckKeeps, StoreArmedKeeps, CallRealKeeps, TripAllocatesKeeps
     DEF GuardStep
-----------------------------------------------------------------------------
\* Steps that neither call nor start a thread.
LEMMA QuietStepKeeps ==
    ASSUME GuardInv, armed' = FALSE \/ armed' = armed,
           UNCHANGED << preloaded, resolving, resolved, live, spawning, stack >>
    PROVE  GuardInv'
<1>1. GuardTypes' /\ FramesOK'
  BY DEF GuardInv, GuardTypes, FramesOK, FrameOK
<1>2. Ready => Ready'
  BY DEF Ready
<1>3. Early => Early'
  BY DEF Early, Before, Quiet, Entering, Looking, Nested
<1> QED
  BY <1>1, <1>2, <1>3 DEF GuardInv

\* A heap call of a thread that has none in progress; the middleware's threads
\* make theirs only when everything has been looked up.
LEMMA CallKeeps ==
    ASSUME GuardInv, NEW t \in Threads, t \in live \ spawning, stack[t] = << >>,
           NEW op \in RealFns \cup {"arm"}, NEW ptr \in {"heap", "boot"}, Call(t, op, ptr),
           UNCHANGED << preloaded, armed, resolving, resolved, live >>,
           \/ spawning' = spawning
           \/ spawning' = spawning \cup {t} /\ op = "malloc" /\ ptr = "heap"
    PROVE  GuardInv'
<1>1. GuardTypes'
  BY Pushed DEF GuardInv, GuardTypes
<1>2. FramesOK'
  BY PushedFramesOK
<1>3. Ready => Ready'
  BY DEF Ready
<1>4. ASSUME Early PROVE Early'
  <2>1. t = Main /\ spawning = {} /\ ~resolving
    BY <1>4 DEF Early, Before, Quiet, Entering, Looking, Nested, GuardInv, GuardTypes
  <2>2. Len(stack'[t]) = 1
    <3>1. Len(stack'[t]) = Len(stack[t]) + 1
      BY Pushed DEF GuardInv
    <3> QED
      BY <3>1
  <2>3. stack'[t][1].at = "enter" /\ stack'[t][1].op = op /\ stack'[t][1].ptr = ptr
    BY Pushed DEF GuardInv
  <2>4. Entering(stack[Main])'
    BY <2>1, <2>2, <2>3 DEF Entering
  <2> QED
    BY <1>4, <2>1, <2>4, Pushed DEF Early, Before, GuardInv
<1> QED
  BY <1>1, <1>2, <1>3, <1>4 DEF GuardInv

LEMMA MainStepKeeps == ASSUME GuardInv, MainStep PROVE GuardInv'
<1> Main \in Threads /\ "free" \in RealFns \cup {"arm"} /\ "malloc" \in RealFns \cup {"arm"}
    /\ "arm" \in RealFns \cup {"arm"} /\ "heap" \in {"heap", "boot"} /\ "boot" \in {"heap", "boot"}
  BY MainAssumption DEF RealFns, LookupOrder
<1>1. CASE LibraryCall
  <2>1. Main \in live \ spawning /\ stack[Main] = << >>
    BY <1>1 DEF LibraryCall, InMain, Free
  <2>2. UNCHANGED << preloaded, armed, resolving, resolved, live, spawning >>
    BY <1>1 DEF LibraryCall, mainVars, guardVars
  <2>3. ASSUME NEW op \in LibraryOps, Call(Main, op, "heap") PROVE GuardInv'
    <3>1. op \in RealFns \cup {"arm"}
      BY LibraryOpsAssumption DEF RealFns, LookupOrder
    <3> QED
      BY <2>1, <2>2, <2>3, <3>1, CallKeeps
  <2>4. CASE Call(Main, "free", "boot")
    BY <2>1, <2>2, <2>4, CallKeeps
  <2> QED
    BY <1>1, <2>3, <2>4 DEF LibraryCall
<1>2. CASE CreateSpawns
  <2>1. Main \in live \ spawning /\ stack[Main] = << >> /\ Call(Main, "malloc", "heap")
        /\ spawning' = spawning \cup {Main}
    BY <1>2 DEF CreateSpawns, Free
  <2>2. UNCHANGED << preloaded, armed, resolving, resolved, live >>
    BY <1>2 DEF CreateSpawns, guardVars
  <2> QED
    BY <2>1, <2>2, CallKeeps
<1>3. CASE TryArm
  <2>1. Main \in live \ spawning /\ stack[Main] = << >>
    BY <1>3 DEF TryArm, InMain, Free
  <2>2. UNCHANGED << preloaded, armed, resolving, resolved, live, spawning >>
    BY <1>3 DEF TryArm, guardVars
  <2>3. CASE preloaded
    <3>1. Call(Main, "arm", "heap")
      BY <1>3, <2>3 DEF TryArm
    <3> QED
      BY <2>1, <2>2, <3>1, CallKeeps
  <2>4. CASE ~preloaded
    <3>1. UNCHANGED stack
      BY <1>3, <2>4 DEF TryArm
    <3> QED
      BY <2>2, <3>1, QuietStepKeeps
  <2> QED
    BY <2>3, <2>4
<1>4. CASE TryDisarm
  BY <1>4, QuietStepKeeps DEF TryDisarm
<1>5. CASE MainPoolStep \/ Created \/ Settle \/ Wrote \/ TakeSamples \/ DecodeLog \/ TakeLog
           \/ FreeLog \/ LogsOver \/ Finish
  <2>1. UNCHANGED << preloaded, armed, resolving, resolved, live, spawning, stack >>
    BY <1>5 DEF MainPoolStep, Created, Settle, Wrote, TakeSamples, DecodeLog, TakeLog, FreeLog,
                LogsOver, Finish, mainVars, guardVars
  <2> QED
    BY <2>1, QuietStepKeeps
<1> QED
  BY <1>1, <1>2, <1>3, <1>4, <1>5 DEF MainStep

LEMMA PeerStepKeeps ==
    ASSUME GuardInv, NEW t \in Threads, Discover(t) \/ SpawnReturns(t) PROVE GuardInv'
<1>1. CASE Discover(t)
  <2>1. t \in live \ spawning /\ stack[t] = << >> /\ Call(t, "malloc", "heap")
        /\ spawning' = spawning \cup {t}
    BY <1>1 DEF Discover, Free
  <2>2. UNCHANGED << preloaded, armed, resolving, resolved, live >>
    BY <1>1 DEF Discover, guardVars
  <2>3. "malloc" \in RealFns \cup {"arm"} /\ "heap" \in {"heap", "boot"}
    BY DEF RealFns, LookupOrder
  <2> QED
    BY <2>1, <2>2, <2>3, CallKeeps
<1>2. CASE SpawnReturns(t)
  <2>1. /\ t \in spawning /\ stack[t] = << >>
        /\ live' \subseteq Threads /\ live \subseteq live' /\ spawning' = spawning \ {t}
        /\ UNCHANGED << preloaded, armed, resolving, resolved, stack >>
    BY <1>2 DEF SpawnReturns, guardVars, GuardInv, GuardTypes
  <2>2. GuardTypes' /\ FramesOK'
    BY <2>1 DEF GuardInv, GuardTypes, FramesOK, FrameOK
  <2>3. ~Early
    BY <2>1 DEF GuardInv, GuardTypes, Early, Before, Quiet, Entering, Looking, Nested
  <2>4. Ready => Ready'
    BY <2>1 DEF Ready
  <2> QED
    BY <2>1, <2>2, <2>3, <2>4 DEF GuardInv
<1> QED
  BY <1>1, <1>2

LEMMA ProcessKeepsGuard == ASSUME GuardInv, [ProcessNext]_allVars PROVE GuardInv'
<1>1. CASE UNCHANGED allVars
  <2>1. UNCHANGED << preloaded, armed, resolving, resolved, live, spawning, stack >>
    BY <1>1 DEF allVars, mainVars, guardVars
  <2> QED
    BY <2>1, QuietStepKeeps
<1>2. CASE UseBlock
  <2>1. UNCHANGED << preloaded, armed, resolving, resolved, live, spawning, stack >>
    BY <1>2 DEF UseBlock, mainVars, guardVars
  <2> QED
    BY <2>1, QuietStepKeeps
<1>3. ASSUME NEW t \in Threads, PoolStep(t) PROVE GuardInv'
  <2>1. UNCHANGED << preloaded, armed, resolving, resolved, live, spawning, stack >>
    BY <1>3 DEF PoolStep, mainVars, guardVars
  <2> QED
    BY <2>1, QuietStepKeeps
<1> QED
  BY <1>1, <1>2, <1>3, MainStepKeeps, GuardStepKeeps, PeerStepKeeps DEF ProcessNext, Ended

LEMMA StartsGuarded == ASSUME ProcessInit PROVE GuardInv
<1>1. live = {Main} /\ spawning = {} /\ resolved = {} /\ armed = FALSE /\ resolving = FALSE
  BY DEF ProcessInit
<1>2. \A t \in Threads : stack[t] = << >>
  BY DEF ProcessInit
<1>3. GuardTypes
  <2>1. stack \in [Threads -> Seq(Frame)]
    BY DEF ProcessInit
  <2>2. preloaded \in BOOLEAN
    BY DEF ProcessInit
  <2>3. armed \in BOOLEAN /\ resolving \in BOOLEAN
    BY <1>1
  <2>4. Main \in live /\ spawning \subseteq live /\ live \subseteq Threads /\ resolved \subseteq RealFns
    BY <1>1, MainAssumption
  <2> QED
    BY <2>1, <2>2, <2>3, <2>4 DEF GuardTypes
<1>4. FramesOK
  BY <1>2 DEF FramesOK
<1>5. Early
  <2>1. Quiet(stack[Main])
    BY <1>1, <1>2, MainAssumption DEF Quiet
  <2>2. ~armed
    BY <1>1
  <2> QED
    BY <1>1, <1>2, <2>1, <2>2 DEF Early, Before
<1> QED
  BY <1>3, <1>4, <1>5 DEF GuardInv

\* The guard never calls through a null pointer nor gives the real heap a block
\* of its own bootstrap pool, although it synchronises nothing: while something
\* is still unknown there is only one thread.
THEOREM NeverCallsWild == ProcessSpec => []NoWildCall
<1>1. ProcessInit => GuardInv
  BY StartsGuarded
<1>2. GuardInv /\ [ProcessNext]_allVars => GuardInv'
  BY ProcessKeepsGuard
<1>3. GuardInv => NoWildCall
  <2> SUFFICES ASSUME GuardInv, NEW t \in Threads, stack[t] # << >>, Top(t).at = "through"
               PROVE  Top(t).op \in resolved /\ Top(t).ptr = "heap"
    BY DEF NoWildCall
  <2>1. Top(t) \in Frame /\ FrameOK(Top(t))
    BY DEF GuardInv, GuardTypes, FramesOK, Top
  <2>2. preloaded /\ Top(t).ptr = "heap" /\ Top(t).op \in RealFns
    BY <2>1 DEF FrameOK, Frame
  <2>3. CASE Ready
    BY <2>2, <2>3 DEF Ready
  <2>4. CASE Early
    BY <2>2, <2>4, EarlyTop DEF Entering, Looking, Nested
  <2> QED
    BY <2>2, <2>3, <2>4 DEF GuardInv
<1> QED
  BY <1>1, <1>2, <1>3, PTL DEF ProcessSpec
-----------------------------------------------------------------------------
(***************************************************************************)
(* The whole process.  Main goes through its stages one by one; a frame of *)
(* a heap call leaves the guard only past its check; and the stage in      *)
(* which main arms or disarms the guard tells which calls were begun when. *)
(***************************************************************************)
\* The guard is armed by a stage of main and disarmed by a later one.
ArmAt    == IF program = "bootstrap" THEN 1 ELSE 3
DisarmAt == CASE program = "publisher" -> 5 [] program = "subscriber" -> 6 [] OTHER -> 3

\* What the guard's types leave of the process's.
MainTypes ==
    /\ program \in DOMAIN Stages /\ at \in DOMAIN Stages[program]
    /\ settled \in BOOLEAN
    /\ peers \in 0 .. MaxPeers
    /\ bootUsed \in 0 .. BootSize
    /\ inTrip \in [Threads -> BOOLEAN]
    /\ sample \in Blocks \cup {NULL}
    /\ received \in SUBSET {"sample", "log"}
    /\ over \in {"running", "done", "failed", "aborted"}

\* t_in_trip tells whether one frame of the thread, and then only one, trips.
Tripping(t, i) == i \in 1 .. Len(stack[t]) /\ stack[t][i].at = "trip"

TripInv ==
    \A t \in Threads :
        /\ inTrip[t] <=> \E i \in Nat : Tripping(t, i)
        /\ \A i, j \in Nat : Tripping(t, i) /\ Tripping(t, j) => i = j

\* One frame: begun armed only while the guard is armed or after; the arming call
\* is main's outermost, before the store; a call begun armed goes through while
\* the guard is armed only on a thread that trips.
FrameArmed(t, i) ==
    LET f == stack[t][i]
    IN  /\ f.begunArmed => armed \/ at > DisarmAt
        /\ f.op = "arm" => /\ t = Main /\ i = Len(stack[t]) /\ at = ArmAt + 1 /\ ~armed
                           /\ preloaded /\ f.ptr = "heap"
        /\ f.at = "through" /\ f.begunArmed /\ armed => inTrip[t]

ArmedInv ==
    /\ armed => ArmAt < at /\ at <= DisarmAt
    /\ \A t \in Threads : \A i \in 1 .. Len(stack[t]) : FrameArmed(t, i)

\* Threads that do not exist call nothing.  In a settled environment only main
\* calls the heap once main sleeps no longer, and not while the guard is armed.
QuietInv ==
    /\ \A t \in Threads \ live : stack[t] = << >>
    /\ program = "bootstrap" => live = {Main} /\ spawning = {}
    /\ settled =>
        /\ at > 2 => spawning = {} /\ \A t \in Threads \ {Main} : stack[t] = << >>
        /\ armed => stack[Main] = << >>
        /\ \A t \in Threads : ~inTrip[t]
        /\ over # "aborted"

ProcInd == MainTypes /\ TripInv /\ ArmedInv /\ QuietInv

\* Main has a next stage until it destroys its entities.
LEMMA StagePlaces ==
    ASSUME MainTypes
    PROVE  /\ at \in Nat /\ at >= 1
           /\ ArmAt \in Nat /\ DisarmAt \in Nat /\ ArmAt + 1 <= DisarmAt
           /\ Stage # "destroy" => at + 1 \in DOMAIN Stages[program]
           /\ Stage = "arm" <=> at = ArmAt
           /\ Stage = "disarm" <=> at = DisarmAt
           /\ Stage = "destroy" => at > DisarmAt
           /\ Stage = "create" => program = "bootstrap" \/ at = 1
           /\ program # "bootstrap" => (Stage = "settle" <=> at = 2)
           /\ program # "bootstrap" => Stages[program][2] = "settle"
           /\ program = "bootstrap" => Stage # "settle"
<1>1. CASE program = "publisher"
  BY <1>1 DEF MainTypes, Stages, Stage, ArmAt, DisarmAt
<1>2. CASE program = "subscriber"
  BY <1>2 DEF MainTypes, Stages, Stage, ArmAt, DisarmAt
<1>3. CASE program = "bootstrap"
  BY <1>3 DEF MainTypes, Stages, Stage, ArmAt, DisarmAt
<1> QED
  BY <1>1, <1>2, <1>3 DEF MainTypes, Stages

\* Every step leaves main where it is or takes it, with no call in progress, to
\* its next stage.
LEMMA MainAdvances ==
    ASSUME [ProcessNext]_allVars
    PROVE  /\ UNCHANGED << program, preloaded, settled >>
           /\ \/ at' = at
              \/ /\ at' = at + 1 /\ Free(Main) /\ Stage # "destroy"
                 /\ UNCHANGED << spawning, live, peers, bootUsed, inTrip >>
                 /\ \/ /\ Stage \notin {"arm", "disarm"}
                       /\ UNCHANGED << armed, stack >>
                    \/ /\ Stage = "arm" /\ UNCHANGED armed
                       /\ UNCHANGED stack \/ (preloaded /\ Call(Main, "arm", "heap"))
                    \/ /\ Stage = "disarm" /\ armed' = FALSE
                       /\ UNCHANGED stack
<1> DEFINE Kept == UNCHANGED << program, preloaded, settled, at >>
<1>1. CASE UNCHANGED allVars
  BY <1>1 DEF allVars, mainVars
<1>2. CASE MainStep
  <2>1. CASE LibraryCall \/ MainPoolStep \/ CreateSpawns \/ DecodeLog \/ TakeLog \/ FreeLog \/ Finish
    <3>1. Kept
      BY <2>1 DEF LibraryCall, MainPoolStep, CreateSpawns, DecodeLog, TakeLog, FreeLog, Finish,
                  mainVars
    <3> QED
      BY <3>1
  <2>2. CASE Created \/ Settle \/ Wrote \/ TakeSamples \/ LogsOver
    BY <2>2 DEF Created, Settle, Wrote, TakeSamples, LogsOver, Advance, InMain, guardVars
  <2>3. CASE TryArm
    BY <2>3 DEF TryArm, Advance, InMain, guardVars
  <2>4. CASE TryDisarm
    BY <2>4 DEF TryDisarm, Advance, InMain
  <2> QED
    BY <1>2, <2>1, <2>2, <2>3, <2>4 DEF MainStep
<1>3. CASE UseBlock
  BY <1>3 DEF UseBlock, mainVars
<1>4. ASSUME NEW t \in Threads, GuardStep(t) PROVE Kept
  BY <1>4 DEF GuardStep, EnterFreeUnseen, EnterBootstrap, EnterEnsure, Resolve, DlsymAllocates,
              EnsureReturns, Check, StoreArmed, CallReal, TripAllocates, TripAborts, mainVars
<1>5. ASSUME NEW t \in Threads, Discover(t) \/ SpawnReturns(t) \/ PoolStep(t) PROVE Kept
  BY <1>5 DEF Discover, SpawnReturns, PoolStep, mainVars
<1> QED
  BY <1>1, <1>2, <1>3, <1>4, <1>5 DEF ProcessNext, Ended

\* The bounded counters and the verdict.
LEMMA CountersKept ==
    ASSUME MainTypes, GuardTypes, [ProcessNext]_allVars
    PROVE  /\ peers' \in 0 .. MaxPeers
           /\ bootUsed' \in 0 .. BootSize
           /\ over' \in {"running", "done", "failed", "aborted"}
<1> USE GuardBoundsAssumption
<1>1. CASE UNCHANGED << peers, bootUsed, over >>
  BY <1>1 DEF MainTypes
<1>2. CASE MainStep
  <2>1. UNCHANGED << peers, bootUsed >>
    BY <1>2 DEF MainStep, LibraryCall, MainPoolStep, CreateSpawns, DecodeLog, TakeLog, FreeLog,
                Finish, Created, Settle, Wrote, TakeSamples, LogsOver, TryArm, TryDisarm, mainVars,
                guardVars
  <2>2. over' \in {over, "failed", "done"}
    BY <1>2 DEF MainStep, LibraryCall, MainPoolStep, CreateSpawns, DecodeLog, TakeLog, FreeLog,
                Finish, Created, Settle, Wrote, TakeSamples, LogsOver, TryArm, TryDisarm
  <2> QED
    BY <2>1, <2>2 DEF MainTypes
<1>3. ASSUME NEW t \in Threads, GuardStep(t)
      PROVE  /\ peers' = peers /\ over' \in {over, "aborted"}
             /\ bootUsed' = bootUsed \/ (bootUsed < BootSize /\ bootUsed' = bootUsed + 1)
  <2>1. CASE EnterBootstrap(t)
    BY <2>1 DEF EnterBootstrap, mainVars
  <2>2. CASE ~EnterBootstrap(t)
    BY <1>3, <2>2 DEF GuardStep, EnterFreeUnseen, EnterEnsure, Resolve, DlsymAllocates,
                EnsureReturns, Check, StoreArmed, CallReal, TripAllocates, TripAborts, mainVars,
                guardVars
  <2> QED
    BY <2>1, <2>2
<1>4. ASSUME NEW t \in Threads, Discover(t) \/ SpawnReturns(t) \/ PoolStep(t)
      PROVE  /\ bootUsed' = bootUsed /\ over' = over
             /\ peers' = peers \/ (peers < MaxPeers /\ peers' = peers + 1)
  BY <1>4 DEF Discover, SpawnReturns, PoolStep, mainVars, guardVars
<1>5. UseBlock \/ UNCHANGED allVars => UNCHANGED << peers, bootUsed, over >>
  BY DEF UseBlock, allVars, mainVars, guardVars
<1> QED
  BY <1>1, <1>2, <1>3, <1>4, <1>5 DEF MainTypes, ProcessNext, Ended

\* t_in_trip, the log sample and what has been received.
LEMMA LocalsKept ==
    ASSUME MainTypes, TypeOK, [ProcessNext]_allVars
    PROVE  /\ inTrip' \in [Threads -> BOOLEAN]
           /\ sample' \in Blocks \cup {NULL}
           /\ received' \in SUBSET {"sample", "log"}
<1> Main \in Threads
  BY MainAssumption
<1>1. CASE UNCHANGED << inTrip, sample, received >>
  BY <1>1 DEF MainTypes
<1>2. CASE MainStep
  <2>1. inTrip' = inTrip
    BY <1>2 DEF MainStep, LibraryCall, MainPoolStep, CreateSpawns, DecodeLog, TakeLog, FreeLog,
                Finish, Created, Settle, Wrote, TakeSamples, LogsOver, TryArm, TryDisarm, guardVars
  <2>2. CASE TakeLog
    <3>1. sample' = node[Main] /\ received' \in {received, received \cup {"log"}}
      BY <2>2 DEF TakeLog
    <3>2. node[Main] \in Blocks \cup {NULL}
      BY DEF TypeOK
    <3> QED
      BY <2>1, <3>1, <3>2 DEF MainTypes
  <2>3. CASE FreeLog
    BY <2>1, <2>3 DEF FreeLog, MainTypes
  <2>4. CASE TakeSamples
    BY <2>1, <2>4 DEF TakeSamples, MainTypes
  <2>5. CASE ~TakeLog /\ ~FreeLog /\ ~TakeSamples
    <3>1. UNCHANGED << sample, received >>
      BY <1>2, <2>5 DEF MainStep, LibraryCall, MainPoolStep, CreateSpawns, DecodeLog, Finish,
                        Created, Settle, Wrote, LogsOver, TryArm, TryDisarm, mainVars
    <3> QED
      BY <2>1, <3>1 DEF MainTypes
  <2> QED
    BY <2>2, <2>3, <2>4, <2>5
<1>3. ASSUME NEW t \in Threads, GuardStep(t)
      PROVE  /\ UNCHANGED << sample, received >>
             /\ inTrip' = inTrip \/ inTrip' = [inTrip EXCEPT ![t] = TRUE]
  <2>1. CASE Check(t)
    BY <2>1 DEF Check, mainVars
  <2>2. CASE ~Check(t)
    BY <1>3, <2>2 DEF GuardStep, EnterFreeUnseen, EnterBootstrap, EnterEnsure, Resolve,
                DlsymAllocates, EnsureReturns, StoreArmed, CallReal, TripAllocates, TripAborts,
                mainVars, guardVars
  <2> QED
    BY <2>1, <2>2
<1>4. ASSUME NEW t \in Threads, Discover(t) \/ SpawnReturns(t) \/ PoolStep(t)
      PROVE  UNCHANGED << inTrip, sample, received >>
  BY <1>4 DEF Discover, SpawnReturns, PoolStep, mainVars, guardVars
<1>5. UseBlock \/ UNCHANGED allVars => UNCHANGED << inTrip, sample, received >>
  BY DEF UseBlock, allVars, mainVars, guardVars
<1>6. ASSUME NEW t \in Threads, GuardStep(t)
      PROVE  inTrip' \in [Threads -> BOOLEAN]
  BY <1>3, <1>6 DEF MainTypes
<1> QED
  BY <1>1, <1>2, <1>3, <1>4, <1>5, <1>6 DEF MainTypes, ProcessNext, Ended

LEMMA MainTypesKept ==
    ASSUME MainTypes, GuardTypes, TypeOK, [ProcessNext]_allVars
    PROVE  MainTypes'
<1>1. program' \in DOMAIN Stages /\ at' \in DOMAIN Stages[program']
  BY MainAdvances, StagePlaces DEF MainTypes
<1>2. settled' \in BOOLEAN
  BY MainAdvances DEF MainTypes
<1> QED
  BY <1>1, <1>2, CountersKept, LocalsKept DEF MainTypes
-----------------------------------------------------------------------------
\* A step changes the stack of one thread at most: by a call, by the return of a
\* call that is not reporting, or by a move; and one move begins a report.
LEMMA StackSteps ==
    ASSUME GuardInv, [ProcessNext]_allVars
    PROVE  \/ UNCHANGED << stack, inTrip >>
           \/ /\ UNCHANGED inTrip
              /\ \E t \in Threads, op \in RealFns \cup {"arm"}, ptr \in {"heap", "boot"} :
                    Call(t, op, ptr)
           \/ /\ UNCHANGED inTrip
              /\ \E t \in Threads : stack[t] # << >> /\ Top(t).at # "trip" /\ Return(t)
           \/ /\ UNCHANGED inTrip
              /\ \E t \in Threads, place \in {"dlsym", "check", "through"} :
                    stack[t] # << >> /\ Top(t).at # "trip" /\ Move(t, place)
           \/ \E t \in Threads :
                 /\ stack[t] # << >> /\ Top(t).at # "trip" /\ Move(t, "trip")
                 /\ ~inTrip[t] /\ inTrip' = [inTrip EXCEPT ![t] = TRUE]
<1> DEFINE Calls   == \E t \in Threads, op \in RealFns \cup {"arm"}, ptr \in {"heap", "boot"} :
                         Call(t, op, ptr)
           Returns == \E t \in Threads : stack[t] # << >> /\ Top(t).at # "trip" /\ Return(t)
           Moves   == \E t \in Threads, place \in {"dlsym", "check", "through"} :
                         stack[t] # << >> /\ Top(t).at # "trip" /\ Move(t, place)
           Trips   == \E t \in Threads :
                         /\ stack[t] # << >> /\ Top(t).at # "trip" /\ Move(t, "trip")
                         /\ ~inTrip[t] /\ inTrip' = [inTrip EXCEPT ![t] = TRUE]
<1> SUFFICES (UNCHANGED inTrip /\ (UNCHANGED stack \/ Calls \/ Returns \/ Moves)) \/ Trips
  OBVIOUS
<1>a. /\ Main \in Threads /\ LibraryOps \subseteq RealFns \cup {"arm"}
      /\ {"malloc", "free", "calloc", "arm"} \subseteq RealFns \cup {"arm"}
  BY MainAssumption, LibraryOpsAssumption DEF RealFns, LookupOrder
<1>1. CASE UNCHANGED allVars \/ UseBlock
  BY <1>1 DEF allVars, guardVars, UseBlock
<1>2. CASE MainStep
  <2>1. inTrip' = inTrip
    BY <1>2 DEF MainStep, LibraryCall, MainPoolStep, CreateSpawns, DecodeLog, TakeLog, FreeLog,
                Finish, Created, Settle, Wrote, TakeSamples, LogsOver, TryArm, TryDisarm, guardVars
  <2>2. CASE LibraryCall
    <3>1. (\E op \in LibraryOps : Call(Main, op, "heap")) \/ Call(Main, "free", "boot")
      BY <2>2 DEF LibraryCall
    <3> QED
      BY <1>a, <2>1, <3>1
  <2>3. CASE CreateSpawns
    <3>1. Call(Main, "malloc", "heap")
      BY <2>3 DEF CreateSpawns
    <3> QED
      BY <1>a, <2>1, <3>1
  <2>4. CASE TryArm
    <3>1. UNCHANGED stack \/ Call(Main, "arm", "heap")
      BY <2>4 DEF TryArm
    <3> QED
      BY <1>a, <2>1, <3>1
  <2>5. CASE ~LibraryCall /\ ~CreateSpawns /\ ~TryArm
    <3>1. UNCHANGED stack
      BY <1>2, <2>5 DEF MainStep, MainPoolStep, DecodeLog, TakeLog, FreeLog, Finish, Created,
                        Settle, Wrote, TakeSamples, LogsOver, TryDisarm
    <3> QED
      BY <2>1, <3>1
  <2> QED
    BY <2>2, <2>3, <2>4, <2>5
<1>3. ASSUME NEW t \in Threads, GuardStep(t)
      PROVE  (UNCHANGED inTrip /\ (UNCHANGED stack \/ Calls \/ Returns \/ Moves)) \/ Trips
  <2>1. CASE EnterFreeUnseen(t) \/ EnterBootstrap(t) \/ StoreArmed(t) \/ CallReal(t)
    <3>1. UNCHANGED inTrip /\ stack[t] # << >> /\ Top(t).at # "trip" /\ Return(t)
      BY <2>1 DEF EnterFreeUnseen, EnterBootstrap, StoreArmed, CallReal, TopAt, guardVars
    <3> QED
      BY <3>1
  <2>2. CASE EnterEnsure(t) \/ EnsureReturns(t)
    <3>1. UNCHANGED inTrip /\ stack[t] # << >> /\ Top(t).at # "trip"
          /\ (Move(t, "check") \/ Move(t, "dlsym"))
      BY <2>2 DEF EnterEnsure, EnsureReturns, TopAt
    <3> QED
      BY <3>1
  <2>3. CASE DlsymAllocates(t) \/ TripAllocates(t)
    <3>1. UNCHANGED inTrip /\ (Call(t, "calloc", "heap") \/ Call(t, "malloc", "heap"))
      BY <2>3 DEF DlsymAllocates, TripAllocates, guardVars
    <3> QED
      BY <1>a, <3>1
  <2>4. CASE Resolve(t) \/ TripAborts(t)
    BY <2>4 DEF Resolve, TripAborts, guardVars
  <2>5. CASE Check(t)
    <3>1. stack[t] # << >> /\ Top(t).at # "trip"
      BY <2>5 DEF Check, TopAt
    <3>2. CASE ~inTrip[t] /\ armed
      BY <2>5, <3>1, <3>2 DEF Check, ExemptFromCheck
    <3>3. CASE ~(~inTrip[t] /\ armed)
      <4>1. Move(t, "through") /\ UNCHANGED inTrip
        BY <2>5, <3>3 DEF Check, ExemptFromCheck
      <4> QED
        BY <3>1, <4>1
    <3> QED
      BY <3>2, <3>3
  <2> QED
    BY <1>3, <2>1, <2>2, <2>3, <2>4, <2>5 DEF GuardStep
<1>4. ASSUME NEW t \in Threads, Discover(t)
      PROVE  UNCHANGED inTrip /\ Calls
  <2>1. UNCHANGED inTrip /\ Call(t, "malloc", "heap")
    BY <1>4 DEF Discover, guardVars
  <2> QED
    BY <1>a, <2>1
<1>5. ASSUME NEW t \in Threads, SpawnReturns(t) \/ PoolStep(t)
      PROVE  UNCHANGED << inTrip, stack >>
  BY <1>5 DEF SpawnReturns, PoolStep, guardVars
<1> QED
  BY <1>1, <1>2, <1>3, <1>4, <1>5 DEF ProcessNext, Ended

\* Which frames trip after each kind of step.
LEMMA PushTrips ==
    ASSUME GuardTypes, NEW t \in Threads,
           NEW op \in RealFns \cup {"arm"}, NEW ptr \in {"heap", "boot"}, Call(t, op, ptr),
           NEW u \in Threads, NEW i \in Nat
    PROVE  Tripping(u, i)' <=> IF u = t THEN i >= 1 /\ Tripping(t, i - 1) ELSE Tripping(u, i)
<1>1. CASE u # t
  BY <1>1, Pushed DEF Tripping
<1>2. CASE u = t
  <2>1. Len(stack[t]) \in Nat /\ Len(stack'[t]) = Len(stack[t]) + 1 /\ stack'[t][1].at = "enter"
    BY Pushed DEF GuardTypes
  <2>2. CASE i = 1 \/ i = 0
    BY <1>2, <2>1, <2>2 DEF Tripping
  <2>3. CASE i # 1 /\ i # 0
    <3>1. i \in 1 .. Len(stack'[t]) <=> i - 1 \in 1 .. Len(stack[t])
      BY <2>1, <2>3
    <3>2. i \in 1 .. Len(stack'[t]) => stack'[t][i] = stack[t][i - 1]
      BY <2>3, Pushed
    <3> QED
      BY <1>2, <2>3, <3>1, <3>2 DEF Tripping
  <2> QED
    BY <2>2, <2>3
<1> QED
  BY <1>1, <1>2

LEMMA PopTrips ==
    ASSUME GuardTypes, NEW t \in Threads, stack[t] # << >>, Top(t).at # "trip", Return(t),
           NEW u \in Threads, NEW i \in Nat
    PROVE  /\ Tripping(u, i)' <=> IF u = t THEN i >= 1 /\ Tripping(t, i + 1) ELSE Tripping(u, i)
           /\ u = t => ~Tripping(t, 1)
<1>1. CASE u # t
  BY <1>1, Popped DEF Tripping
<1>2. CASE u = t
  <2>1. Len(stack[t]) \in Nat /\ Len(stack[t]) >= 1 /\ Len(stack'[t]) = Len(stack[t]) - 1
    BY Popped
  <2>2. i \in 1 .. Len(stack'[t]) <=> i >= 1 /\ i + 1 \in 1 .. Len(stack[t])
    BY <2>1
  <2>3. i \in 1 .. Len(stack'[t]) => stack'[t][i] = stack[t][i + 1]
    BY Popped
  <2>4. Top(t) = stack[t][1]
    BY DEF Top, GuardTypes
  <2> QED
    BY <1>2, <2>2, <2>3, <2>4 DEF Tripping
<1> QED
  BY <1>1, <1>2

LEMMA MoveTrips ==
    ASSUME GuardTypes, NEW t \in Threads, stack[t] # << >>, Top(t).at # "trip",
           NEW place \in {"enter", "dlsym", "check", "through", "trip"}, Move(t, place),
           NEW u \in Threads, NEW i \in Nat
    PROVE  /\ Tripping(u, i)' <=> Tripping(u, i) \/ (u = t /\ i = 1 /\ place = "trip")
           /\ u = t => ~Tripping(t, 1)
<1>1. CASE u # t
  BY <1>1, Moved DEF Tripping
<1>2. CASE u = t
  <2>1. Len(stack[t]) \in Nat /\ Len(stack[t]) >= 1 /\ Len(stack'[t]) = Len(stack[t])
    BY Moved
  <2>2. Top(t) = stack[t][1]
    BY DEF Top, GuardTypes
  <2>3. ~Tripping(t, 1)
    BY <2>2 DEF Tripping
  <2>4. CASE i = 1
    <3>1. stack'[t][1].at = place
      BY Moved
    <3> QED
      BY <1>2, <2>1, <2>3, <2>4, <3>1 DEF Tripping
  <2>5. CASE i # 1
    <3>1. i \in 1 .. Len(stack[t]) => stack'[t][i] = stack[t][i]
      BY <2>1, <2>5, Moved
    <3> QED
      BY <1>2, <2>1, <2>3, <2>5, <3>1 DEF Tripping
  <2> QED
    BY <2>4, <2>5
<1> QED
  BY <1>1, <1>2

LEMMA TripInvKept ==
    ASSUME GuardInv, MainTypes, TripInv, [ProcessNext]_allVars
    PROVE  TripInv'
<1> DEFINE One(u) == /\ inTrip[u] <=> \E i \in Nat : Tripping(u, i)
                     /\ \A i, j \in Nat : Tripping(u, i) /\ Tripping(u, j) => i = j
<1> SUFFICES ASSUME NEW u \in Threads PROVE One(u)'
  BY DEF TripInv
<1>0. GuardTypes /\ One(u)
  BY DEF GuardInv, TripInv
<1>1. CASE UNCHANGED << stack, inTrip >>
  BY <1>0, <1>1 DEF Tripping
<1>2. ASSUME UNCHANGED inTrip, NEW t \in Threads, NEW op \in RealFns \cup {"arm"},
             NEW ptr \in {"heap", "boot"}, Call(t, op, ptr)
      PROVE  One(u)'
  <2>1. CASE u # t
    <3>1. \A i \in Nat : Tripping(u, i)' <=> Tripping(u, i)
      BY <1>0, <1>2, <2>1, PushTrips
    <3> QED
      BY <1>0, <1>2, <3>1
  <2>2. CASE u = t
    <3>1. \A i \in Nat : Tripping(u, i)' <=> i >= 1 /\ Tripping(u, i - 1)
      BY <1>0, <1>2, <2>2, PushTrips
    <3>2. \A i \in Nat : i + 1 \in Nat /\ i + 1 >= 1 /\ (i + 1) - 1 = i
      OBVIOUS
    <3>3. \A i \in Nat : Tripping(u, i) => Tripping(u, i + 1)'
      BY <3>1, <3>2
    <3>4. \A i \in Nat : Tripping(u, i)' => i - 1 \in Nat /\ Tripping(u, i - 1)
      BY <3>1
    <3>5. (inTrip[u] <=> \E i \in Nat : Tripping(u, i))'
      BY <1>0, <1>2, <3>2, <3>3, <3>4
    <3>6. (\A i, j \in Nat : Tripping(u, i) /\ Tripping(u, j) => i = j)'
      BY <1>0, <3>4
    <3> QED
      BY <3>5, <3>6
  <2> QED
    BY <2>1, <2>2
<1>3. ASSUME UNCHANGED inTrip, NEW t \in Threads, stack[t] # << >>, Top(t).at # "trip", Return(t)
      PROVE  One(u)'
  <2>1. CASE u # t
    <3>1. \A i \in Nat : Tripping(u, i)' <=> Tripping(u, i)
      BY <1>0, <1>3, <2>1, PopTrips
    <3> QED
      BY <1>0, <1>3, <3>1
  <2>2. CASE u = t
    <3>1. \A i \in Nat : Tripping(u, i)' <=> i >= 1 /\ Tripping(u, i + 1)
      BY <1>0, <1>3, <2>2, PopTrips
    <3>2. ~Tripping(u, 1) /\ ~Tripping(u, 0)
      <4>1. ~Tripping(u, 1)
        BY <1>0, <1>3, <2>2, PopTrips
      <4> QED
        BY <4>1 DEF Tripping
    <3>3. \A i \in Nat : Tripping(u, i) => i - 1 \in Nat /\ Tripping(u, i - 1)'
      <4> SUFFICES ASSUME NEW i \in Nat, Tripping(u, i) PROVE i - 1 \in Nat /\ Tripping(u, i - 1)'
        OBVIOUS
      <4>1. i # 0 /\ i # 1
        BY <3>2
      <4>2. i - 1 \in Nat /\ i - 1 >= 1 /\ (i - 1) + 1 = i
        BY <4>1
      <4> QED
        BY <3>1, <4>2
    <3>4. \A i \in Nat : Tripping(u, i)' => i + 1 \in Nat /\ Tripping(u, i + 1)
      BY <3>1
    <3>5. (inTrip[u] <=> \E i \in Nat : Tripping(u, i))'
      BY <1>0, <1>3, <3>3, <3>4
    <3>6. (\A i, j \in Nat : Tripping(u, i) /\ Tripping(u, j) => i = j)'
      BY <1>0, <3>4
    <3> QED
      BY <3>5, <3>6
  <2> QED
    BY <2>1, <2>2
<1>4. ASSUME UNCHANGED inTrip, NEW t \in Threads, NEW place \in {"dlsym", "check", "through"},
             stack[t] # << >>, Top(t).at # "trip", Move(t, place)
      PROVE  One(u)'
  <2>1. \A i \in Nat : Tripping(u, i)' <=> Tripping(u, i)
    BY <1>0, <1>4, MoveTrips
  <2> QED
    BY <1>0, <1>4, <2>1
<1>5. ASSUME NEW t \in Threads, stack[t] # << >>, Top(t).at # "trip", Move(t, "trip"), ~inTrip[t],
             inTrip' = [inTrip EXCEPT ![t] = TRUE]
      PROVE  One(u)'
  <2>1. \A i \in Nat : Tripping(u, i)' <=> Tripping(u, i) \/ (u = t /\ i = 1)
    BY <1>0, <1>5, MoveTrips
  <2>2. CASE u # t
    BY <1>0, <1>5, <2>1, <2>2 DEF MainTypes
  <2>3. CASE u = t
    <3>1. \A i \in Nat : Tripping(u, i)' <=> i = 1
      BY <1>0, <1>5, <2>1, <2>3
    <3>2. inTrip'[u]
      BY <1>5, <2>3 DEF MainTypes
    <3> QED
      BY <3>1, <3>2
  <2> QED
    BY <2>2, <2>3
<1> QED
  BY <1>1, <1>2, <1>3, <1>4, <1>5, StackSteps
-----------------------------------------------------------------------------
(***************************************************************************)
(* Which calls were begun armed.                                           *)
(***************************************************************************)
\* A call other than the arming one.
LEMMA ArmedCallKept ==
    ASSUME GuardInv, ArmedInv, UNCHANGED << preloaded, at, program, armed, inTrip >>,
           NEW t \in Threads, NEW op \in RealFns, NEW ptr \in {"heap", "boot"}, Call(t, op, ptr)
    PROVE  ArmedInv'
<1>1. GuardTypes /\ op \in RealFns \cup {"arm"} /\ op # "arm"
  BY DEF GuardInv, RealFns, LookupOrder
<1>2. ArmAt' = ArmAt /\ DisarmAt' = DisarmAt
  BY DEF ArmAt, DisarmAt
<1>3. (armed => ArmAt < at /\ at <= DisarmAt)'
  BY <1>2 DEF ArmedInv
<1>4. ASSUME NEW u \in Threads, NEW i \in 1 .. Len(stack'[u]) PROVE FrameArmed(u, i)'
  <2>1. CASE u # t
    <3>1. stack'[u] = stack[u]
      BY <1>1, <2>1, Pushed
    <3> QED
      BY <1>2, <1>4, <3>1 DEF ArmedInv, FrameArmed
  <2>2. CASE u = t /\ i = 1
    <3>1. stack'[t][1].begunArmed = armed /\ stack'[t][1].op = op /\ stack'[t][1].at = "enter"
      BY <1>1, Pushed
    <3> QED
      BY <1>1, <2>2, <3>1 DEF FrameArmed
  <2>3. CASE u = t /\ i # 1
    <3>1. Len(stack[t]) \in Nat /\ Len(stack'[t]) = Len(stack[t]) + 1
      BY <1>1, Pushed DEF GuardTypes
    <3>2. i - 1 \in 1 .. Len(stack[t]) /\ stack'[t][i] = stack[t][i - 1]
      BY <1>1, <1>4, <2>3, <3>1, Pushed
    <3>3. i - 1 = Len(stack[t]) => i = Len(stack'[t])
      BY <3>1, <3>2, <1>4, <2>3
    <3>4. FrameArmed(t, i - 1)
      BY <3>2 DEF ArmedInv
    <3> QED
      BY <1>2, <2>3, <3>2, <3>3, <3>4 DEF FrameArmed
  <2> QED
    BY <2>1, <2>2, <2>3
<1> QED
  BY <1>3, <1>4 DEF ArmedInv

\* The return of a call; when it is the arming one, the guard is armed.
LEMMA ArmedReturnKept ==
    ASSUME GuardInv, MainTypes, ArmedInv, UNCHANGED << preloaded, at, program, inTrip >>,
           NEW t \in Threads, stack[t] # << >>, Return(t),
           IF Top(t).op = "arm" THEN armed' = TRUE ELSE armed' = armed
    PROVE  ArmedInv'
<1>1. /\ GuardTypes /\ Len(stack[t]) \in Nat /\ Len(stack[t]) >= 1
      /\ Len(stack'[t]) = Len(stack[t]) - 1
  BY Popped DEF GuardInv
<1>2. ArmAt' = ArmAt /\ DisarmAt' = DisarmAt
  BY DEF ArmAt, DisarmAt
<1>3. Top(t) = stack[t][1] /\ FrameArmed(t, 1)
  BY <1>1 DEF Top, GuardTypes, ArmedInv
<1>4. Top(t).op = "arm" => t = Main /\ Len(stack[t]) = 1 /\ at = ArmAt + 1 /\ ~armed
  BY <1>3 DEF FrameArmed
<1>5. at \in Nat /\ ArmAt \in Nat /\ DisarmAt \in Nat /\ ArmAt + 1 <= DisarmAt
  BY StagePlaces
<1>6. (armed => ArmAt < at /\ at <= DisarmAt)'
  <2>1. CASE Top(t).op = "arm"
    <3>1. at = ArmAt + 1
      BY <1>4, <2>1
    <3>2. ArmAt < at /\ at <= DisarmAt
      BY <1>5, <3>1
    <3> QED
      BY <1>2, <3>2
  <2>2. CASE Top(t).op # "arm"
    BY <1>2, <2>2 DEF ArmedInv
  <2> QED
    BY <2>1, <2>2
<1>7. ASSUME NEW u \in Threads, NEW i \in 1 .. Len(stack'[u]) PROVE FrameArmed(u, i)'
  <2>1. PICK j \in 1 .. Len(stack[u]) : /\ stack'[u][i] = stack[u][j]
                                        /\ j = Len(stack[u]) => i = Len(stack'[u])
    <3>1. CASE u # t
      BY <1>1, <1>7, <3>1, Popped
    <3>2. CASE u = t
      <4>1. i + 1 \in 1 .. Len(stack[u]) /\ stack'[u][i] = stack[u][i + 1]
        BY <1>1, <1>7, <3>2, Popped
      <4>2. i + 1 = Len(stack[u]) => i = Len(stack'[u])
        BY <1>1, <1>7, <3>2
      <4> QED
        BY <4>1, <4>2
    <3> QED
      BY <3>1, <3>2
  <2>2. FrameArmed(u, j)
    BY DEF ArmedInv
  <2>3. CASE Top(t).op # "arm"
    BY <1>2, <2>1, <2>2, <2>3 DEF FrameArmed
  <2>4. CASE Top(t).op = "arm"
    <3>1. armed' /\ ~armed /\ at <= DisarmAt /\ t = Main /\ Len(stack[t]) = 1
      BY <1>4, <1>5, <2>4
    <3>2. ~stack[u][j].begunArmed
      BY <1>5, <2>2, <3>1 DEF FrameArmed
    <3>3. u # Main
      BY <1>1, <1>7, <3>1
    <3>4. stack[u][j].op # "arm"
      BY <2>2, <3>3 DEF FrameArmed
    <3>5. ~stack'[u][i].begunArmed /\ stack'[u][i].op # "arm"
      <4>1. FrameArmed(u, j) /\ stack[u][j] \in Frame
        BY <1>1, <2>2 DEF GuardTypes
      <4> QED
        BY <2>1, <3>2, <3>4
    <3> QED
      BY <3>5 DEF FrameArmed
  <2> QED
    BY <2>3, <2>4
<1> QED
  BY <1>6, <1>7 DEF ArmedInv

\* A call moves on; past the check while the guard is armed only in a report.
LEMMA ArmedMoveKept ==
    ASSUME GuardInv, ArmedInv, UNCHANGED << preloaded, at, program, armed >>,
           \A u \in Threads : inTrip[u] => inTrip'[u],
           NEW t \in Threads, stack[t] # << >>,
           NEW place \in {"dlsym", "check", "through", "trip"}, Move(t, place),
           place = "through" => ~armed \/ inTrip'[t]
    PROVE  ArmedInv'
<1>1. /\ GuardTypes /\ Len(stack[t]) \in Nat /\ Len(stack[t]) >= 1
      /\ Len(stack'[t]) = Len(stack[t])
  BY Moved DEF GuardInv
<1>2. ArmAt' = ArmAt /\ DisarmAt' = DisarmAt
  BY DEF ArmAt, DisarmAt
<1>3. (armed => ArmAt < at /\ at <= DisarmAt)'
  BY <1>2 DEF ArmedInv
<1>4. ASSUME NEW u \in Threads, NEW i \in 1 .. Len(stack'[u]) PROVE FrameArmed(u, i)'
  <2>1. i \in 1 .. Len(stack[u]) /\ Len(stack'[u]) = Len(stack[u])
    <3>1. u # t => stack'[u] = stack[u]
      BY <1>1, Moved
    <3> QED
      BY <1>1, <1>4, <3>1
  <2>2. FrameArmed(u, i)
    BY <2>1 DEF ArmedInv
  <2>3. CASE u # t \/ i # 1
    <3>1. stack'[u][i] = stack[u][i]
      BY <1>1, <2>1, <2>3, Moved
    <3> QED
      BY <1>2, <2>1, <2>2, <3>1 DEF FrameArmed
  <2>4. CASE u = t /\ i = 1
    <3>1. /\ stack'[t][1].at = place /\ stack'[t][1].op = stack[t][1].op
          /\ stack'[t][1].begunArmed = stack[t][1].begunArmed
          /\ stack'[t][1].ptr = stack[t][1].ptr
      BY <1>1, Moved
    <3> QED
      BY <1>2, <2>1, <2>2, <2>4, <3>1 DEF FrameArmed
  <2> QED
    BY <2>3, <2>4
<1> QED
  BY <1>3, <1>4 DEF ArmedInv

\* Main goes on, with no call in progress.
LEMMA ArmedAdvanceKept ==
    ASSUME GuardInv, MainTypes, ArmedInv, UNCHANGED << preloaded, program, inTrip >>,
           at' = at + 1, stack[Main] = << >>,
           \/ UNCHANGED << armed, stack >> /\ Stage # "disarm"
           \/ UNCHANGED stack /\ armed' = FALSE /\ Stage = "disarm"
    PROVE  ArmedInv'
<1>1. ArmAt' = ArmAt /\ DisarmAt' = DisarmAt
  BY DEF ArmAt, DisarmAt
<1>2. at \in Nat /\ ArmAt \in Nat /\ DisarmAt \in Nat /\ (Stage = "disarm" <=> at = DisarmAt)
  BY StagePlaces
<1>3. (armed => ArmAt < at /\ at <= DisarmAt)'
  <2> SUFFICES ASSUME armed' PROVE ArmAt < at + 1 /\ at + 1 <= DisarmAt
    BY <1>1
  <2>1. armed /\ Stage # "disarm"
    OBVIOUS
  <2>2. ArmAt < at /\ at <= DisarmAt
    BY <2>1 DEF ArmedInv
  <2>3. at # DisarmAt
    BY <1>2, <2>1
  <2> QED
    BY <1>2, <2>2, <2>3
<1>4. ASSUME NEW u \in Threads, NEW i \in 1 .. Len(stack'[u]) PROVE FrameArmed(u, i)'
  <2>1. i \in 1 .. Len(stack[u]) /\ stack'[u] = stack[u]
    BY <1>4
  <2>2. FrameArmed(u, i)
    BY <2>1 DEF ArmedInv
  <2>3. u # Main
    BY <2>1
  <2> QED
    BY <1>1, <1>2, <2>1, <2>2, <2>3 DEF FrameArmed
<1> QED
  BY <1>3, <1>4 DEF ArmedInv

\* Main reaches the arming call.
LEMMA ArmedTryArmKept ==
    ASSUME GuardInv, MainTypes, ArmedInv, UNCHANGED << preloaded, program, inTrip, armed >>,
           preloaded,
           at' = at + 1, stack[Main] = << >>, Stage = "arm", Call(Main, "arm", "heap")
    PROVE  ArmedInv'
<1>1. ArmAt' = ArmAt /\ DisarmAt' = DisarmAt /\ Main \in Threads
  BY MainAssumption DEF ArmAt, DisarmAt
<1>2. at \in Nat /\ ArmAt \in Nat /\ DisarmAt \in Nat /\ at = ArmAt
  BY StagePlaces
<1>3. GuardTypes /\ ~armed /\ "arm" \in RealFns \cup {"arm"} /\ "heap" \in {"heap", "boot"}
  BY <1>2 DEF GuardInv, ArmedInv
<1>4. /\ Len(stack'[Main]) = 1 /\ stack'[Main][1].begunArmed = armed
      /\ stack'[Main][1].at = "enter" /\ stack'[Main][1].ptr = "heap"
  <2>1. /\ Len(stack'[Main]) = Len(stack[Main]) + 1 /\ stack'[Main][1].begunArmed = armed
        /\ stack'[Main][1].at = "enter" /\ stack'[Main][1].ptr = "heap"
    BY <1>1, <1>3, Pushed
  <2> QED
    BY <2>1
<1>5. ASSUME NEW u \in Threads, NEW i \in 1 .. Len(stack'[u]) PROVE FrameArmed(u, i)'
  <2>1. CASE u # Main
    <3>1. stack'[u] = stack[u]
      BY <1>1, <1>3, <2>1, Pushed
    <3>2. FrameArmed(u, i)
      BY <1>5, <3>1 DEF ArmedInv
    <3> QED
      BY <1>1, <1>2, <2>1, <3>1, <3>2 DEF FrameArmed
  <2>2. CASE u = Main
    <3>1. Len(stack'[u]) = 1
      BY <1>4, <2>2
    <3>2. i = 1
      BY <1>5, <3>1
    <3> QED
      BY <1>1, <1>2, <1>3, <1>4, <2>2, <3>2 DEF FrameArmed
  <2> QED
    BY <2>1, <2>2
<1> QED
  BY <1>3, <1>5 DEF ArmedInv

LEMMA ArmedGuardStepKept ==
    ASSUME GuardInv, MainTypes, ArmedInv, NEW t \in Threads, GuardStep(t)
    PROVE  ArmedInv'
<1>1. UNCHANGED << preloaded, at, program >>
  BY DEF GuardStep, EnterFreeUnseen, EnterBootstrap, EnterEnsure, Resolve, DlsymAllocates,
         EnsureReturns, Check, StoreArmed, CallReal, TripAllocates, TripAborts, mainVars
<1>2. ASSUME stack[t] # << >>
      PROVE  Top(t) = stack[t][1] /\ FrameOK(Top(t)) /\ FrameArmed(t, 1)
  BY <1>2 DEF Top, GuardInv, GuardTypes, FramesOK, ArmedInv
<1>3. {"malloc", "calloc"} \subseteq RealFns
  BY DEF RealFns, LookupOrder
<1>4. CASE EnterFreeUnseen(t)
  <2>1. stack[t] # << >> /\ Top(t).at = "enter" /\ Return(t) /\ UNCHANGED << armed, inTrip >>
        /\ FreedUnseen(t)
    BY <1>4 DEF EnterFreeUnseen, TopAt, guardVars
  <2>2. Top(t).op # "arm"
    BY <1>2, <2>1 DEF FreedUnseen, FrameArmed
  <2> QED
    BY <1>1, <2>1, <2>2, ArmedReturnKept
<1>5. CASE EnterBootstrap(t) \/ CallReal(t)
  <2>1. stack[t] # << >> /\ Return(t) /\ UNCHANGED << armed, inTrip >>
    BY <1>5 DEF EnterBootstrap, CallReal, TopAt, guardVars
  <2>2. Top(t).op = "calloc" \/ Top(t).at = "through"
    BY <1>5 DEF EnterBootstrap, ServedByBootstrap, CallReal, TopAt
  <2>3. Top(t).op # "arm"
    BY <1>2, <2>1, <2>2 DEF FrameOK
  <2> QED
    BY <1>1, <2>1, <2>3, ArmedReturnKept
<1>6. CASE StoreArmed(t)
  <2>1. stack[t] # << >> /\ Return(t) /\ Top(t).op = "arm" /\ armed' = TRUE /\ UNCHANGED inTrip
    BY <1>6 DEF StoreArmed, TopAt
  <2> QED
    BY <1>1, <2>1, ArmedReturnKept
<1>7. CASE EnterEnsure(t) \/ EnsureReturns(t)
  <2>1. PICK place \in {"check", "dlsym"} :
           stack[t] # << >> /\ Move(t, place) /\ UNCHANGED << armed, inTrip >>
    BY <1>7 DEF EnterEnsure, EnsureReturns, TopAt
  <2> QED
    BY <1>1, <2>1, ArmedMoveKept
<1>8. CASE DlsymAllocates(t) \/ TripAllocates(t)
  <2>1. PICK op \in {"malloc", "calloc"} : Call(t, op, "heap") /\ UNCHANGED << armed, inTrip >>
    BY <1>8 DEF DlsymAllocates, TripAllocates, guardVars
  <2> QED
    BY <1>1, <1>3, <2>1, ArmedCallKept
<1>9. CASE Resolve(t) \/ TripAborts(t)
  <2>1. UNCHANGED << armed, inTrip, stack >>
    BY <1>9 DEF Resolve, TripAborts, guardVars
  <2> QED
    BY <1>1, <2>1 DEF ArmedInv, FrameArmed, ArmAt, DisarmAt
<1>10. CASE Check(t)
  <2>1. stack[t] # << >> /\ UNCHANGED armed
    BY <1>10 DEF Check, TopAt
  <2>2. CASE ~inTrip[t] /\ armed
    <3>1. Move(t, "trip") /\ inTrip' = [inTrip EXCEPT ![t] = TRUE]
      BY <1>10, <2>2 DEF Check, ExemptFromCheck
    <3>2. \A u \in Threads : inTrip[u] => inTrip'[u]
      BY <3>1 DEF MainTypes
    <3> QED
      BY <1>1, <2>1, <3>1, <3>2, ArmedMoveKept
  <2>3. CASE ~(~inTrip[t] /\ armed)
    <3>1. Move(t, "through") /\ UNCHANGED inTrip
      BY <1>10, <2>3 DEF Check, ExemptFromCheck
    <3> QED
      BY <1>1, <2>1, <2>3, <3>1, ArmedMoveKept
  <2> QED
    BY <2>2, <2>3
<1> QED
  BY <1>4, <1>5, <1>6, <1>7, <1>8, <1>9, <1>10 DEF GuardStep

LEMMA ArmedMainStepKept ==
    ASSUME GuardInv, MainTypes, ArmedInv, MainStep
    PROVE  ArmedInv'
<1>a. Main \in Threads /\ LibraryOps \subseteq RealFns /\ {"malloc", "free"} \subseteq RealFns
  BY MainAssumption, LibraryOpsAssumption DEF RealFns, LookupOrder
<1>1. inTrip' = inTrip
  BY DEF MainStep, LibraryCall, MainPoolStep, CreateSpawns, DecodeLog, TakeLog, FreeLog, Finish,
         Created, Settle, Wrote, TakeSamples, LogsOver, TryArm, TryDisarm, guardVars
<1>2. [ProcessNext]_allVars
  BY DEF ProcessNext
<1>3. CASE at' # at
  <2>1. /\ at' = at + 1 /\ stack[Main] = << >> /\ UNCHANGED << preloaded, program >>
        /\ \/ Stage # "disarm" /\ UNCHANGED << armed, stack >>
           \/ Stage = "arm" /\ UNCHANGED armed /\ preloaded /\ Call(Main, "arm", "heap")
           \/ Stage = "disarm" /\ armed' = FALSE /\ UNCHANGED stack
    BY <1>2, <1>3, MainAdvances DEF Free
  <2> QED
    BY <1>1, <2>1, ArmedAdvanceKept, ArmedTryArmKept
<1>4. CASE at' = at
  <2>1. UNCHANGED << preloaded, program >> /\ at \in Nat
    BY <1>2, MainAdvances, StagePlaces
  <2>2. CASE LibraryCall \/ CreateSpawns
    <3>1. PICK op \in RealFns, ptr \in {"heap", "boot"} : Call(Main, op, ptr) /\ UNCHANGED armed
      BY <1>a, <2>2 DEF LibraryCall, CreateSpawns, guardVars
    <3> QED
      BY <1>a, <1>1, <1>4, <2>1, <3>1, ArmedCallKept
  <2>3. CASE MainPoolStep \/ DecodeLog \/ TakeLog \/ FreeLog \/ Finish
    <3>1. UNCHANGED << armed, stack >>
      BY <2>3 DEF MainPoolStep, DecodeLog, TakeLog, FreeLog, Finish, guardVars
    <3> QED
      BY <1>1, <1>4, <2>1, <3>1 DEF ArmedInv, FrameArmed, ArmAt, DisarmAt
  <2>4. CASE Created \/ Settle \/ Wrote \/ TakeSamples \/ LogsOver \/ TryArm \/ TryDisarm
    <3>1. at' = at + 1
      BY <2>4 DEF Created, Settle, Wrote, TakeSamples, LogsOver, TryArm, TryDisarm, Advance
    <3> QED
      BY <1>4, <2>1, <3>1
  <2> QED
    BY <2>2, <2>3, <2>4 DEF MainStep
<1> QED
  BY <1>3, <1>4

LEMMA ArmedInvKept ==
    ASSUME GuardInv, MainTypes, ArmedInv, [ProcessNext]_allVars
    PROVE  ArmedInv'
<1>1. CASE UNCHANGED allVars \/ UseBlock \/ \E t \in Threads : SpawnReturns(t) \/ PoolStep(t)
  <2>1. UNCHANGED << preloaded, at, program, armed, inTrip, stack >>
    BY <1>1 DEF allVars, UseBlock, SpawnReturns, PoolStep, mainVars, guardVars
  <2> QED
    BY <2>1 DEF ArmedInv, FrameArmed, ArmAt, DisarmAt
<1>2. ASSUME NEW t \in Threads, Discover(t) PROVE ArmedInv'
  <2>1. Call(t, "malloc", "heap") /\ UNCHANGED << preloaded, at, program, armed, inTrip >>
    BY <1>2 DEF Discover, guardVars
  <2>2. "malloc" \in RealFns
    BY DEF RealFns, LookupOrder
  <2> QED
    BY <2>1, <2>2, ArmedCallKept
<1> QED
  BY <1>1, <1>2, ArmedMainStepKept, ArmedGuardStepKept DEF ProcessNext, Ended
-----------------------------------------------------------------------------
(***************************************************************************)
(* Settled environments.                                                   *)
(***************************************************************************)
\* A thread that has no call in progress begins one only if it is main, outside
\* the guarded stretch, or discovers a participant.
LEMMA WhoCalls ==
    ASSUME GuardInv, [ProcessNext]_allVars, NEW u \in Threads, stack[u] = << >>,
           stack'[u] # << >>
    PROVE  /\ u \in live
           /\ \/ /\ u = Main
                 /\ Stage \in {"arm", "destroy"} \/ (Stage = "create" /\ program # "bootstrap")
              \/ Discover(u)
<1>a. /\ Main \in Threads /\ LibraryOps \subseteq RealFns \cup {"arm"} /\ GuardTypes
      /\ {"malloc", "free", "calloc", "arm"} \subseteq RealFns \cup {"arm"}
  BY MainAssumption, LibraryOpsAssumption DEF RealFns, LookupOrder, GuardInv
<1>1. ASSUME NEW t \in Threads, NEW op \in RealFns \cup {"arm"}, NEW ptr \in {"heap", "boot"},
             Call(t, op, ptr)
      PROVE  u = t
  BY <1>a, <1>1, Pushed
<1>2. CASE MainStep
  <2>1. CASE LibraryCall
    <3>1. /\ Stage \in {"arm", "destroy"} \/ (Stage = "create" /\ program # "bootstrap")
          /\ Main \in live
          /\ (\E op \in LibraryOps : Call(Main, op, "heap")) \/ Call(Main, "free", "boot")
      BY <2>1 DEF LibraryCall, InMain, Free
    <3> QED
      BY <1>a, <1>1, <3>1
  <2>2. CASE CreateSpawns
    <3>1. /\ Stage = "create" /\ program # "bootstrap" /\ Main \in live
          /\ Call(Main, "malloc", "heap")
      BY <2>2 DEF CreateSpawns, Free
    <3> QED
      BY <1>a, <1>1, <3>1
  <2>3. CASE TryArm
    <3>1. Stage = "arm" /\ Main \in live /\ (UNCHANGED stack \/ Call(Main, "arm", "heap"))
      BY <2>3 DEF TryArm, InMain, Free
    <3> QED
      BY <1>a, <1>1, <3>1
  <2>4. CASE ~LibraryCall /\ ~CreateSpawns /\ ~TryArm
    <3>1. UNCHANGED stack
      BY <1>2, <2>4 DEF MainStep, MainPoolStep, DecodeLog, TakeLog, FreeLog, Finish, Created,
                        Settle, Wrote, TakeSamples, LogsOver, TryDisarm
    <3> QED
      BY <3>1
  <2> QED
    BY <2>1, <2>2, <2>3, <2>4
<1>3. ASSUME NEW t \in Threads, GuardStep(t) PROVE FALSE
  <2>1. CASE Resolve(t) \/ TripAborts(t)
    BY <2>1 DEF Resolve, TripAborts
  <2>2. CASE ~Resolve(t) /\ ~TripAborts(t)
    <3>1. stack[t] # << >>
      BY <1>3, <2>2 DEF GuardStep, EnterFreeUnseen, EnterBootstrap, EnterEnsure, DlsymAllocates,
                  EnsureReturns, Check, StoreArmed, CallReal, TripAllocates, TopAt
    <3>2. \/ Call(t, "calloc", "heap") \/ Call(t, "malloc", "heap") \/ Return(t)
          \/ \E place \in {"dlsym", "check", "through", "trip"} : Move(t, place)
      BY <1>3, <2>2 DEF GuardStep, EnterFreeUnseen, EnterBootstrap, EnterEnsure, DlsymAllocates,
                  EnsureReturns, Check, StoreArmed, CallReal, TripAllocates
    <3>3. stack'[u] = stack[u]
      <4>1. u # t
        BY <3>1
      <4>2. CASE Call(t, "calloc", "heap") \/ Call(t, "malloc", "heap")
        BY <1>a, <4>1, <4>2, Pushed
      <4>3. CASE Return(t)
        BY <1>a, <3>1, <4>1, <4>3, Popped
      <4>4. ASSUME NEW place \in {"dlsym", "check", "through", "trip"}, Move(t, place)
            PROVE  stack'[u] = stack[u]
        BY <1>a, <3>1, <4>1, <4>4, Moved
      <4> QED
        BY <3>2, <4>2, <4>3, <4>4
    <3> QED
      BY <3>3
  <2> QED
    BY <2>1, <2>2
<1>4. ASSUME NEW t \in Threads, Discover(t) PROVE u = t /\ u \in live
  <2>1. Call(t, "malloc", "heap") /\ t \in live
    BY <1>4 DEF Discover, Free
  <2> QED
    BY <1>1, <1>a, <2>1
<1>5. ASSUME UseBlock \/ UNCHANGED allVars \/ \E t \in Threads : SpawnReturns(t) \/ PoolStep(t)
      PROVE  UNCHANGED stack
  BY <1>5 DEF UseBlock, allVars, SpawnReturns, PoolStep
<1> QED
  BY <1>2, <1>3, <1>4, <1>5 DEF ProcessNext, Ended

\* Threads come only from spawns, and spawns only from main's creation of the
\* participant and from discovery.
LEMMA WhoSpawns ==
    ASSUME GuardInv, [ProcessNext]_allVars
    PROVE  /\ live \subseteq live'
           /\ spawning = {} => live' = live
           /\ \/ spawning' \subseteq spawning
              \/ Stage = "create" /\ program # "bootstrap" /\ at' = at
              \/ at' = at /\ \E t \in Threads : Discover(t)
<1>1. CASE MainStep
  <2>1. CASE CreateSpawns
    BY <2>1 DEF CreateSpawns
  <2>2. CASE ~CreateSpawns
    <3>1. UNCHANGED << live, spawning >>
      BY <1>1, <2>2 DEF MainStep, LibraryCall, MainPoolStep, DecodeLog, TakeLog, FreeLog, Finish,
                        Created, Settle, Wrote, TakeSamples, LogsOver, TryArm, TryDisarm, mainVars
    <3> QED
      BY <3>1
  <2> QED
    BY <2>1, <2>2
<1>2. ASSUME NEW t \in Threads, GuardStep(t) PROVE UNCHANGED << live, spawning >>
  BY <1>2 DEF GuardStep, EnterFreeUnseen, EnterBootstrap, EnterEnsure, Resolve, DlsymAllocates,
              EnsureReturns, Check, StoreArmed, CallReal, TripAllocates, TripAborts, mainVars
<1>3. ASSUME NEW t \in Threads, Discover(t) PROVE live' = live /\ at' = at
  BY <1>3 DEF Discover
<1>4. ASSUME NEW t \in Threads, SpawnReturns(t)
      PROVE  live \subseteq live' /\ spawning' \subseteq spawning /\ spawning # {}
  BY <1>4 DEF SpawnReturns
<1>5. ASSUME UseBlock \/ UNCHANGED allVars \/ \E t \in Threads : PoolStep(t)
      PROVE  UNCHANGED << live, spawning >>
  BY <1>5 DEF UseBlock, allVars, PoolStep, mainVars
<1> QED
  BY <1>1, <1>2, <1>3, <1>4, <1>5 DEF ProcessNext, Ended

\* In a settled environment nothing is discovered once main has slept, and never
\* by the bootstrap check.
LEMMA NothingDiscovered ==
    ASSUME GuardInv, MainTypes, QuietInv, settled, NEW t \in Threads, Discover(t)
    PROVE  at <= 2 /\ program # "bootstrap"
<1>1. t # Main /\ t \in live /\ ~SettleOver
  BY DEF Discover, Free
<1>2. program # "bootstrap"
  BY <1>1 DEF QuietInv
<1>3. Stages[program][2] = "settle" /\ at \in Nat
  BY <1>2, StagePlaces
<1> QED
  BY <1>1, <1>2, <1>3 DEF SettleOver

LEMMA NobodyElse ==
    ASSUME GuardInv, MainTypes, QuietInv, [ProcessNext]_allVars
    PROVE  /\ \A t \in Threads \ live' : stack'[t] = << >>
           /\ program' = "bootstrap" => live' = {Main} /\ spawning' = {}
<1>1. ASSUME NEW t \in Threads \ live' PROVE stack'[t] = << >>
  <2>1. t \notin live /\ stack[t] = << >>
    BY <1>1, WhoSpawns DEF QuietInv
  <2> QED
    BY <2>1, WhoCalls
<1>2. ASSUME program' = "bootstrap" PROVE live' = {Main} /\ spawning' = {}
  <2>1. program = "bootstrap" /\ live = {Main} /\ spawning = {}
    BY <1>2, MainAdvances DEF QuietInv
  <2>2. \A t \in Threads : ~Discover(t)
    BY <2>1 DEF Discover, Free
  <2> QED
    BY <2>1, <2>2, WhoSpawns
<1> QED
  BY <1>1, <1>2

\* Main's sleep ends, in a settled environment, when nobody calls the heap.
LEMMA SleptQuietly ==
    ASSUME GuardInv, MainTypes, QuietInv, settled, [ProcessNext]_allVars,
           at = 2, at' = 3, program # "bootstrap"
    PROVE  spawning' = {} /\ \A t \in Threads : stack'[t] = << >>
<1>1. Stage = "settle"
  BY StagePlaces
<1>2. Settle
  <2>1. at' # at /\ at \in Nat
    BY StagePlaces
  <2>2. MainStep
    BY <2>1 DEF ProcessNext, Ended, allVars, UseBlock, mainVars, GuardStep, EnterFreeUnseen,
                EnterBootstrap, EnterEnsure, Resolve, DlsymAllocates, EnsureReturns, Check,
                StoreArmed, CallReal, TripAllocates, TripAborts, Discover, SpawnReturns, PoolStep
  <2> QED
    BY <1>1, <2>1, <2>2 DEF MainStep, LibraryCall, MainPoolStep, CreateSpawns, DecodeLog, TakeLog,
                FreeLog, Finish, Created, Wrote, TakeSamples, LogsOver, TryArm, TryDisarm, InMain,
                mainVars
<1>3. /\ spawning = {} /\ \A t \in live : stack[t] = << >>
      /\ UNCHANGED << spawning, stack >>
  BY <1>2 DEF Settle
<1>4. \A t \in Threads : stack[t] = << >>
  BY <1>3 DEF QuietInv
<1> QED
  BY <1>3, <1>4

LEMMA OthersQuiet ==
    ASSUME GuardInv, MainTypes, QuietInv, settled, [ProcessNext]_allVars, at' > 2
    PROVE  spawning' = {} /\ \A t \in Threads \ {Main} : stack'[t] = << >>
<1>1. at \in Nat /\ (at' = at \/ at' = at + 1)
  BY StagePlaces, MainAdvances
<1>2. CASE program = "bootstrap"
  <2>1. program' = "bootstrap"
    BY <1>2, MainAdvances
  <2> QED
    BY <2>1, NobodyElse
<1>3. CASE program # "bootstrap" /\ at <= 2
  <2>1. at = 2 /\ at' = 3
    BY <1>1, <1>3
  <2> QED
    BY <1>3, <2>1, SleptQuietly
<1>4. CASE program # "bootstrap" /\ at > 2
  <2>1. spawning = {} /\ \A t \in Threads \ {Main} : stack[t] = << >>
    BY <1>4 DEF QuietInv
  <2>2. \A t \in Threads : ~Discover(t)
    BY <1>1, <1>4, NothingDiscovered
  <2>3. Stage # "create"
    BY <1>4, StagePlaces
  <2>4. spawning' = {}
    BY <2>1, <2>2, <2>3, WhoSpawns
  <2>5. \A t \in Threads \ {Main} : stack'[t] = << >>
    BY <2>1, <2>2, WhoCalls
  <2> QED
    BY <2>4, <2>5
<1> QED
  BY <1>1, <1>2, <1>3, <1>4

\* While the guard is armed nobody is in the heap, in a settled environment.
LEMMA AllQuiet ==
    ASSUME GuardInv, MainTypes, ArmedInv, QuietInv, settled, armed
    PROVE  \A t \in Threads : stack[t] = << >>
<1>1. at > ArmAt
  BY StagePlaces DEF ArmedInv
<1>2. stack[Main] = << >>
  BY DEF QuietInv
<1>3. CASE program = "bootstrap"
  BY <1>2, <1>3 DEF QuietInv
<1>4. CASE program # "bootstrap"
  <2>1. at > 2
    BY <1>1, <1>4, StagePlaces DEF ArmAt
  <2> QED
    BY <1>2, <2>1 DEF QuietInv
<1> QED
  BY <1>3, <1>4

LEMMA MainQuiet ==
    ASSUME GuardInv, MainTypes, ArmedInv, QuietInv, settled, [ProcessNext]_allVars, armed'
    PROVE  stack'[Main] = << >>
<1>1. CASE armed
  <2>1. Main \in Threads /\ stack[Main] = << >>
    BY <1>1, MainAssumption DEF QuietInv
  <2>2. /\ at \in Nat /\ ArmAt < at /\ at <= DisarmAt
        /\ ArmAt \in Nat /\ DisarmAt \in Nat
    BY <1>1, StagePlaces DEF ArmedInv
  <2>3. Stage # "arm" /\ Stage # "destroy"
    BY <2>2, StagePlaces
  <2>4. Stage = "create" => program = "bootstrap"
    BY <2>2, StagePlaces DEF ArmAt
  <2>5. ~Discover(Main)
    BY DEF Discover
  <2> QED
    BY <2>1, <2>3, <2>4, <2>5, WhoCalls
<1>2. CASE ~armed
  <2>1. PICK t \in Threads : StoreArmed(t)
    <3>1. \E t \in Threads : GuardStep(t)
      BY <1>2, MainAdvances DEF ProcessNext, Ended, allVars, UseBlock, guardVars, Discover,
            SpawnReturns, PoolStep, MainStep, LibraryCall, MainPoolStep, CreateSpawns, DecodeLog,
            TakeLog, FreeLog, Finish, Created, Settle, Wrote, TakeSamples, LogsOver, TryArm, TryDisarm
    <3> QED
      BY <1>2, <3>1 DEF GuardStep, EnterFreeUnseen, EnterBootstrap, EnterEnsure, Resolve,
            DlsymAllocates, EnsureReturns, Check, CallReal, TripAllocates, TripAborts, guardVars
  <2>2. stack[t] # << >> /\ Top(t).op = "arm" /\ Return(t)
    BY <2>1 DEF StoreArmed, TopAt
  <2>3. GuardTypes /\ Top(t) = stack[t][1] /\ FrameArmed(t, 1)
    BY <2>2 DEF Top, GuardInv, GuardTypes, ArmedInv
  <2>4. t = Main /\ Len(stack[t]) = 1
    BY <2>2, <2>3 DEF FrameArmed
  <2>5. stack'[t] \in Seq(Frame) /\ Len(stack'[t]) = Len(stack[t]) - 1
    BY <2>2, <2>3, Popped
  <2>6. Len(stack'[t]) = 0
    BY <2>4, <2>5
  <2> QED
    BY <2>4, <2>5, <2>6, EmptySeq
<1> QED
  BY <1>1, <1>2

LEMMA NobodyTrips ==
    ASSUME GuardInv, MainTypes, TripInv, ArmedInv, QuietInv, settled, [ProcessNext]_allVars
    PROVE  /\ \A t \in Threads : ~inTrip'[t]
           /\ over' # "aborted"
<1>1. \A t \in Threads : ~inTrip[t]
  BY DEF QuietInv
<1>2. over # "aborted"
  BY DEF QuietInv
<1>3. CASE MainStep
  <2>1. inTrip' = inTrip
    BY <1>3 DEF MainStep, LibraryCall, MainPoolStep, CreateSpawns, DecodeLog, TakeLog, FreeLog,
                Finish, Created, Settle, Wrote, TakeSamples, LogsOver, TryArm, TryDisarm, guardVars
  <2>2. over' \in {over, "failed", "done"}
    BY <1>3 DEF MainStep, LibraryCall, MainPoolStep, CreateSpawns, DecodeLog, TakeLog, FreeLog,
                Finish, Created, Settle, Wrote, TakeSamples, LogsOver, TryArm, TryDisarm
  <2> QED
    BY <1>1, <1>2, <2>1, <2>2
<1>4. ASSUME NEW u \in Threads, GuardStep(u) PROVE UNCHANGED << inTrip, over >>
  <2>1. CASE Check(u)
    <3>1. stack[u] # << >> /\ over' = over
      BY <2>1 DEF Check, TopAt
    <3>2. ~armed
      BY <3>1, AllQuiet
    <3> QED
      BY <2>1, <3>1, <3>2 DEF Check
  <2>2. CASE TripAborts(u)
    <3>1. stack[u] # << >> /\ Top(u).at = "trip"
      BY <2>2 DEF TripAborts, TopAt
    <3>2. Top(u) = stack[u][1] /\ 1 \in 1 .. Len(stack[u])
      BY <3>1 DEF Top, GuardInv, GuardTypes
    <3>3. Tripping(u, 1)
      BY <3>1, <3>2 DEF Tripping
    <3>4. inTrip[u]
      BY <3>3 DEF TripInv
    <3> QED
      BY <1>1, <3>4
  <2>3. CASE ~Check(u) /\ ~TripAborts(u)
    BY <1>4, <2>3 DEF GuardStep, EnterFreeUnseen, EnterBootstrap, EnterEnsure, Resolve,
          DlsymAllocates, EnsureReturns, StoreArmed, CallReal, TripAllocates, guardVars
  <2> QED
    BY <2>1, <2>2, <2>3
<1>5. ASSUME \/ UseBlock \/ UNCHANGED allVars
             \/ \E t \in Threads : Discover(t) \/ SpawnReturns(t) \/ PoolStep(t)
      PROVE  UNCHANGED << inTrip, over >>
  BY <1>5 DEF UseBlock, allVars, guardVars, Discover, SpawnReturns, PoolStep
<1> QED
  BY <1>1, <1>2, <1>3, <1>4, <1>5 DEF ProcessNext, Ended

LEMMA QuietInvKept ==
    ASSUME GuardInv, MainTypes, TripInv, ArmedInv, QuietInv, [ProcessNext]_allVars
    PROVE  QuietInv'
<1>1. settled' = settled
  BY MainAdvances
<1> QED
  BY <1>1, NobodyElse, OthersQuiet, MainQuiet, NobodyTrips DEF QuietInv
-----------------------------------------------------------------------------
LEMMA StartsInd == ASSUME ProcessInit PROVE MainTypes /\ TripInv /\ ArmedInv /\ QuietInv
<1>1. \A t \in Threads : stack[t] = << >> /\ Len(stack[t]) = 0 /\ ~inTrip[t]
  BY DEF ProcessInit
<1>2. MainTypes
  <2>1. program \in DOMAIN Stages /\ at \in DOMAIN Stages[program]
    BY DEF ProcessInit, Stages
  <2>2. peers \in 0 .. MaxPeers /\ bootUsed \in 0 .. BootSize
    BY GuardBoundsAssumption DEF ProcessInit
  <2>3. inTrip \in [Threads -> BOOLEAN]
    BY DEF ProcessInit
  <2> QED
    BY <2>1, <2>2, <2>3 DEF ProcessInit, MainTypes
<1>3. TripInv
  <2>1. \A t \in Threads : \A i \in Nat : ~Tripping(t, i)
    BY <1>1 DEF Tripping
  <2> QED
    BY <1>1, <2>1 DEF TripInv
<1>4. ArmedInv
  BY <1>1 DEF ArmedInv, ProcessInit
<1>5. QuietInv
  BY <1>1, MainAssumption DEF QuietInv, ProcessInit
<1> QED
  BY <1>2, <1>3, <1>4, <1>5

LEMMA AlwaysInd == ProcessSpec => [](TypeOK /\ GuardInv /\ MainTypes /\ TripInv /\ ArmedInv /\ QuietInv)
<1> DEFINE Rest == GuardInv /\ MainTypes /\ TripInv /\ ArmedInv /\ QuietInv
<1>1. ProcessSpec => []TypeOK
  BY ProcessRunsPool, TypeCorrect, PTL
<1>2. ProcessInit => Rest
  BY StartsGuarded, StartsInd
<1>3. Rest /\ TypeOK /\ [ProcessNext]_allVars => Rest'
  BY ProcessKeepsGuard, MainTypesKept, TripInvKept, ArmedInvKept, QuietInvKept DEF GuardInv
<1>4. Rest => GuardInv /\ MainTypes /\ TripInv /\ ArmedInv /\ QuietInv
  OBVIOUS
<1> HIDE DEF Rest
<1> QED
  BY <1>1, <1>2, <1>3, <1>4, PTL DEF ProcessSpec

LEMMA TripsAtMostOnce == ASSUME GuardInv, TripInv PROVE TripsOnce
<1> SUFFICES ASSUME NEW t \in Threads
             PROVE  Cardinality({i \in DOMAIN stack[t] : stack[t][i].at = "trip"}) <= 1
  BY DEF TripsOnce
<1> DEFINE S == {i \in DOMAIN stack[t] : stack[t][i].at = "trip"}
<1>1. \A i \in S : i \in Nat /\ Tripping(t, i)
  BY DEF Tripping, GuardInv, GuardTypes
<1>2. \A i, j \in S : i = j
  BY <1>1 DEF TripInv
<1>3. S = {} \/ \E i : S = {i}
  BY <1>2
<1>4. Cardinality(S) = 0 \/ Cardinality(S) = 1
  BY <1>3, FS_EmptySet, FS_Singleton
<1> QED
  BY <1>4

\* The process is well formed, and the report of a trip, which itself calls the
\* heap, never trips: every trip ends in abort.
THEOREM ProcessAlwaysWellFormed == ProcessSpec => []ProcessInv
<1>1. TypeOK /\ GuardInv /\ MainTypes /\ TripInv => ProcessInv
  <2> SUFFICES ASSUME TypeOK, GuardInv, MainTypes, TripInv PROVE ProcessTypeOK /\ TripsOnce
    BY DEF ProcessInv
  <2>1. ProcessTypeOK
    BY DEF ProcessTypeOK, GuardInv, GuardTypes, MainTypes
  <2> QED
    BY <2>1, TripsAtMostOnce
<1> QED
  BY <1>1, AlwaysInd, PTL

\* No heap call that is begun while the guard is armed gets past it: whichever
\* threads trip meanwhile, and although the flag is read some steps after the
\* call begins.
THEOREM NothingPassesUnseen == ProcessSpec => []NothingUnseen
<1>1. GuardInv /\ TripInv /\ ArmedInv => NothingUnseen
  <2> SUFFICES ASSUME GuardInv, TripInv, ArmedInv, NEW t \in Threads, stack[t] # << >>,
                      Top(t).at = "through", Top(t).begunArmed, armed
               PROVE  Reported(t)
    BY DEF NothingUnseen
  <2>1. Top(t) = stack[t][1] /\ FrameArmed(t, 1)
    BY DEF Top, GuardInv, GuardTypes, ArmedInv
  <2>2. inTrip[t]
    BY <2>1 DEF FrameArmed
  <2>3. PICK i \in Nat : Tripping(t, i)
    BY <2>2 DEF TripInv
  <2> QED
    BY <2>3 DEF Tripping, Reported, GuardInv, GuardTypes
<1> QED
  BY <1>1, AlwaysInd, PTL

\* Where discovery has settled before main arms the guard, the guard stays quiet:
\* the background threads use only the pool.
THEOREM SettledAlwaysQuiet == ProcessSpec => []SettledRunsQuiet
<1>1. GuardInv /\ TripInv /\ QuietInv => SettledRunsQuiet
  <2> SUFFICES ASSUME GuardInv, TripInv, QuietInv, settled
               PROVE  over # "aborted" /\ \A t \in Threads : ~Reported(t)
    BY DEF SettledRunsQuiet
  <2>1. ASSUME NEW t \in Threads, Reported(t) PROVE FALSE
    <3>1. PICK i \in Nat : Tripping(t, i)
      BY <2>1 DEF Reported, Tripping, GuardInv, GuardTypes
    <3> QED
      BY <3>1 DEF TripInv, QuietInv
  <2> QED
    BY <2>1 DEF QuietInv
<1> QED
  BY <1>1, AlwaysInd, PTL
=============================================================================
