----------------------------- MODULE StaticPool -----------------------------
(***************************************************************************)
(* The static pool allocator of the custom-allocator example: a LIFO free  *)
(* list threaded through the free blocks themselves, guarded by one mutex  *)
(* and called by the application's thread and the middleware's background  *)
(* threads.  Every read and write of shared memory is a step of its own.   *)
(*                                                                         *)
(* Lengths and alignments are abstracted to whether a request fits a       *)
(* block; pool_resize compares two numbers and touches no shared state.    *)
(***************************************************************************)
EXTENDS Integers, Sequences

CONSTANTS
    Threads,
    BlockCount,    \* STATIC_POOL_BLOCK_COUNT
    NoThread       \* the mutex is free

ASSUME BlockCountAssumption == BlockCount \in Nat \ {0}
ASSUME NoThreadAssumption == NoThread \notin Threads

NULL   == 0
Blocks == 1 .. BlockCount
Bytes  == -1         \* a caller's data where a free block keeps its next pointer

VARIABLES
    head,        \* g_free_list
    next,        \* the first word of every block
    mutex,       \* the thread that holds g_pool_mutex, or NoThread
    pc,          \* each thread's place in pool_alloc or pool_free
    node,        \* each thread's local variable
    held,        \* blocks returned to callers and not yet given to pool_free
    freeList     \* history variable: the free blocks, oldest first

vars == << head, next, mutex, pc, node, held, freeList >>

AllocSteps == {"allocLock", "allocRead", "allocPop", "allocUnlock"}
FreeSteps  == {"freeLock", "freeLink", "freePush", "freeUnlock"}

TypeOK ==
    /\ head \in Blocks \cup {NULL}
    /\ next \in [Blocks -> Blocks \cup {NULL, Bytes}]
    /\ mutex \in Threads \cup {NoThread}
    /\ pc \in [Threads -> {"idle"} \cup AllocSteps \cup FreeSteps]
    /\ node \in [Threads -> Blocks \cup {NULL}]
    /\ held \in SUBSET Blocks
    /\ freeList \in Seq(Blocks)

\* static_pool_allocator_reset chains every block in front of the one before.
ResetNext == [b \in Blocks |-> b - 1]

\* The pool is reset once, before any other thread exists.
Init ==
    /\ head = BlockCount
    /\ next = ResetNext
    /\ mutex = NoThread
    /\ pc = [t \in Threads |-> "idle"]
    /\ node = [t \in Threads |-> NULL]
    /\ held = {}
    /\ freeList = [i \in Blocks |-> i]

Goto(t, step) == pc' = [pc EXCEPT ![t] = step]
-----------------------------------------------------------------------------
\* pool_alloc with a length and alignment that fit a block; any other request
\* returns NULL before the mutex is taken.
AllocCall(t) ==
    /\ pc[t] = "idle"
    /\ Goto(t, "allocLock")
    /\ node' = [node EXCEPT ![t] = NULL]
    /\ UNCHANGED << head, next, mutex, held, freeList >>

\* Fault: pool_alloc does not take the mutex.
AllocLock_Faulty(t) ==
    /\ pc[t] = "allocLock"
    /\ Goto(t, "allocRead")
    /\ UNCHANGED << head, next, mutex, node, held, freeList >>

AllocLock(t) ==
    /\ pc[t] = "allocLock"
    /\ mutex = NoThread
    /\ mutex' = t
    /\ Goto(t, "allocRead")
    /\ UNCHANGED << head, next, node, held, freeList >>

AllocRead(t) ==
    /\ pc[t] = "allocRead"
    /\ node' = [node EXCEPT ![t] = head]
    /\ Goto(t, IF head = NULL THEN "allocUnlock" ELSE "allocPop")
    /\ UNCHANGED << head, next, mutex, held, freeList >>

AllocPop(t) ==
    /\ pc[t] = "allocPop"
    /\ head' = next[node[t]]
    /\ freeList' = [i \in 1 .. Len(freeList) - 1 |-> freeList[i]]
    /\ Goto(t, "allocUnlock")
    /\ UNCHANGED << next, mutex, node, held >>

\* Unlock and return the node to the caller.
AllocUnlock(t) ==
    /\ pc[t] = "allocUnlock"
    /\ mutex' = NoThread
    /\ held' = held \cup ({node[t]} \ {NULL})
    /\ node' = [node EXCEPT ![t] = NULL]
    /\ Goto(t, "idle")
    /\ UNCHANGED << head, next, freeList >>

\* pool_free of a block some thread got from pool_alloc, not necessarily this
\* one; free of NULL returns at once.
FreeCall(t) ==
    /\ pc[t] = "idle"
    /\ \E b \in held :
        /\ held' = held \ {b}
        /\ node' = [node EXCEPT ![t] = b]
    /\ Goto(t, "freeLock")
    /\ UNCHANGED << head, next, mutex, freeList >>

\* Fault: pool_free does not take the mutex.
FreeLock_Faulty(t) ==
    /\ pc[t] = "freeLock"
    /\ Goto(t, "freeLink")
    /\ UNCHANGED << head, next, mutex, node, held, freeList >>

FreeLock(t) ==
    /\ pc[t] = "freeLock"
    /\ mutex = NoThread
    /\ mutex' = t
    /\ Goto(t, "freeLink")
    /\ UNCHANGED << head, next, node, held, freeList >>

FreeLink(t) ==
    /\ pc[t] = "freeLink"
    /\ next' = [next EXCEPT ![node[t]] = head]
    /\ Goto(t, "freePush")
    /\ UNCHANGED << head, mutex, node, held, freeList >>

FreePush(t) ==
    /\ pc[t] = "freePush"
    /\ head' = node[t]
    /\ freeList' = Append(freeList, node[t])
    /\ node' = [node EXCEPT ![t] = NULL]
    /\ Goto(t, "freeUnlock")
    /\ UNCHANGED << next, mutex, held >>

FreeUnlock(t) ==
    /\ pc[t] = "freeUnlock"
    /\ mutex' = NoThread
    /\ Goto(t, "idle")
    /\ UNCHANGED << head, next, node, held, freeList >>

\* The holder of a block writes to it, over the pointer a free block keeps.
Use ==
    /\ \E b \in held : next' = [next EXCEPT ![b] = Bytes]
    /\ UNCHANGED << head, mutex, pc, node, held, freeList >>

Step(t) ==
    \/ AllocCall(t)
    \/ AllocLock(t)
    \/ AllocRead(t)
    \/ AllocPop(t)
    \/ AllocUnlock(t)
    \/ FreeCall(t)
    \/ FreeLock(t)
    \/ FreeLink(t)
    \/ FreePush(t)
    \/ FreeUnlock(t)

Next == Use \/ \E t \in Threads : Step(t)

Spec == Init /\ [][Next]_vars
-----------------------------------------------------------------------------
(***************************************************************************)
(* Properties.                                                             *)
(***************************************************************************)
Members(s) == {s[i] : i \in DOMAIN s}

\* Block b is on its way to a caller or back into the list.
InTransit(b) ==
    \E t \in Threads : node[t] = b /\ pc[t] \in {"allocUnlock", "freeLock", "freeLink", "freePush"}

\* No block is in two places: handed to two callers, or handed out while the
\* free list still reaches it, whatever the interleaving of the threads.
NoDoubleHandout ==
    /\ \A i, j \in DOMAIN freeList : freeList[i] = freeList[j] => i = j
    /\ \A b \in Blocks :
        /\ ~(b \in held /\ (b \in Members(freeList) \/ InTransit(b)))
        /\ ~(b \in Members(freeList) /\ InTransit(b))
    /\ \A t, u \in Threads :
        node[t] = node[u] /\ node[t] # NULL
        /\ pc[t] # "allocPop" /\ pc[u] # "allocPop" => t = u

\* No block is lost: each is free, handed out, or in the hands of a thread
\* inside the allocator.
NothingLost ==
    \A b \in Blocks : b \in held \/ b \in Members(freeList) \/ InTransit(b)

\* The chain the next pointers form is the free list, in the order in which
\* the blocks were freed, whatever callers have written into their blocks.
ChainIntact ==
    LET n == Len(freeList)
        FreeLinked(i) == next[freeList[i]] = IF i = 1 THEN NULL ELSE freeList[i - 1]
    IN  /\ head = IF n = 0 THEN NULL ELSE freeList[n]
        /\ \A i \in 1 .. n : FreeLinked(i)

\* Concurrent calls behave as if each took effect at one instant: a block is
\* given to one caller only, and NULL only when the pool is exhausted.
Service == INSTANCE PoolService WITH
    available <- Members(freeList),
    call  <- [t \in Threads |->
                CASE pc[t] \in {"idle", "freeUnlock"} -> "idle"
                  [] pc[t] \in {"allocLock", "allocRead", "allocPop"} -> "alloc"
                  [] pc[t] = "allocUnlock" -> "answer"
                  [] OTHER -> "free"],
    block <- [t \in Threads |-> IF pc[t] = "allocPop" THEN NULL ELSE node[t]]

ActsAtomically == Service!Spec
=============================================================================
