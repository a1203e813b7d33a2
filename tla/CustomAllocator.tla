--------------------------- MODULE CustomAllocator ---------------------------
(***************************************************************************)
(* One process of the custom-allocator example: the publisher, the         *)
(* subscriber or the bootstrap check, its main thread and the threads the  *)
(* middleware spawns, over the static pool (StaticPool) and under the      *)
(* preloaded allocation guard, which stands between every caller and the   *)
(* real heap and aborts the process when a heap call is made while armed.  *)
(*                                                                         *)
(* A heap call is a frame on its thread's stack: the guard looks up the    *)
(* real functions by dlsym, which may itself call calloc, and the          *)
(* diagnostics of trip() may call malloc.  Nothing in the guard but the    *)
(* armed flag is atomic; every step below is one access of the others.     *)
(***************************************************************************)
EXTENDS StaticPool, FiniteSets

CONSTANTS
    Main,        \* the thread that runs main()
    MaxPeers,    \* bound: remote participants discovered in a run
    BootSize,    \* bound: calls the bootstrap pool can serve
    LibraryOps   \* the heap functions main's own libraries call

ASSUME MainAssumption == Main \in Threads
ASSUME GuardBoundsAssumption == MaxPeers \in Nat /\ BootSize \in Nat
ASSUME LibraryOpsAssumption == LibraryOps \subseteq {"malloc", "realloc", "free", "calloc"}

VARIABLES
    program,     \* which of the three mains
    preloaded,   \* LD_PRELOAD names the guard
    settled,     \* environment: discovery is over within main's sleep(2)
    at,          \* main's place in Stages[program]
    live,        \* the threads that exist
    spawning,    \* threads inside Thread.spawn
    peers,       \* remote participants discovered so far
    stack,       \* per thread, the frames of its heap calls, innermost first
    armed,       \* g_armed
    resolving,   \* g_resolving
    resolved,    \* the real_ pointers that are not null
    bootUsed,    \* g_bootstrap_used
    inTrip,      \* t_in_trip of every thread
    sample,      \* the block of the log sample main is looking at
    received,    \* what the subscriber has received
    over         \* how the process has ended

mainVars  == << program, preloaded, settled, at, live, spawning, peers, sample, received >>
guardVars == << armed, resolving, resolved, bootUsed, inTrip >>
allVars   == << vars, mainVars, stack, guardVars, over >>

\* Fault: the guard is armed before discovery has settled.
Stages_Faulty ==
    [ publisher  |-> << "create", "arm", "settle", "write", "disarm", "destroy" >>,
      subscriber |-> << "create", "arm", "settle", "samples", "logs", "disarm", "destroy" >>,
      bootstrap  |-> << "arm", "create", "disarm", "destroy" >> ]

\* What the three mains do, in order.  "create" stands for the configuration,
\* the factory and, except in the bootstrap check, the entities.
Stages ==
    [ publisher  |-> << "create", "settle", "arm", "write", "disarm", "destroy" >>,
      subscriber |-> << "create", "settle", "arm", "samples", "logs", "disarm", "destroy" >>,
      bootstrap  |-> << "arm", "create", "disarm", "destroy" >> ]

Stage   == Stages[program][at]
Running == over = "running"

\* The order in which ensure_real_fns looks the real functions up.
LookupOrder == << "malloc", "realloc", "free", "calloc" >>
RealFns     == {LookupOrder[i] : i \in DOMAIN LookupOrder}
NotFound    == {i \in DOMAIN LookupOrder : LookupOrder[i] \notin resolved}

Frame == [ op : RealFns \cup {"arm"}, ptr : {"heap", "boot"},
           at : {"enter", "dlsym", "check", "through", "trip"}, begunArmed : BOOLEAN ]

\* The pool's types and those of the process around it.
ProcessTypeOK ==
    /\ TypeOK
    /\ program \in DOMAIN Stages /\ at \in DOMAIN Stages[program]
    /\ preloaded \in BOOLEAN /\ settled \in BOOLEAN
    /\ live \in SUBSET Threads /\ spawning \in SUBSET live
    /\ peers \in 0 .. MaxPeers
    /\ stack \in [Threads -> Seq(Frame)]
    /\ armed \in BOOLEAN /\ resolving \in BOOLEAN
    /\ resolved \in SUBSET RealFns
    /\ bootUsed \in 0 .. BootSize
    /\ inTrip \in [Threads -> BOOLEAN]
    /\ sample \in Blocks \cup {NULL}
    /\ received \in SUBSET {"sample", "log"}
    /\ over \in {"running", "done", "failed", "aborted"}

\* The process starts with one thread; main resets the pool first of all.
ProcessInit ==
    /\ Init
    /\ program \in DOMAIN Stages
    /\ preloaded \in BOOLEAN /\ settled \in BOOLEAN
    /\ at = 1 /\ live = {Main} /\ spawning = {} /\ peers = 0
    /\ stack = [t \in Threads |-> << >>]
    /\ armed = FALSE /\ resolving = FALSE /\ resolved = {} /\ bootUsed = 0
    /\ inTrip = [t \in Threads |-> FALSE]
    /\ sample = NULL /\ received = {} /\ over = "running"
-----------------------------------------------------------------------------
(***************************************************************************)
(* The guard.                                                              *)
(***************************************************************************)
Call(t, op, ptr) ==
    stack' = [stack EXCEPT ![t] =
        << [op |-> op, ptr |-> ptr, at |-> "enter", begunArmed |-> armed] >> \o @]
Move(t, place) == stack' = [stack EXCEPT ![t][1].at = place]
Return(t)      == stack' = [stack EXCEPT ![t] = Tail(@)]

Top(t) == Head(stack[t])
TopAt(t, place) == Running /\ stack[t] # << >> /\ Top(t).at = place

\* A thread that is neither in the pool nor in the heap nor in a spawn.
Free(t) == Running /\ t \in live \ spawning /\ stack[t] = << >> /\ pc[t] = "idle"

\* Fault: free does not look where the block comes from.
FreedUnseen_Faulty(t) == ~preloaded

\* Without LD_PRELOAD there is no guard in between, and free ignores a block of
\* the bootstrap pool.
FreedUnseen(t) == ~preloaded \/ Top(t).ptr = "boot"

EnterFreeUnseen(t) ==
    /\ TopAt(t, "enter") /\ FreedUnseen(t)
    /\ Return(t)
    /\ UNCHANGED << vars, mainVars, guardVars, over >>

\* Fault: calloc has no way out when dlsym calls it.
ServedByBootstrap_Faulty(t) == FALSE

\* calloc, called by dlsym before the real one is known.
ServedByBootstrap(t) == Top(t).op = "calloc" /\ resolving /\ "calloc" \notin resolved

\* bootstrap_calloc, which answers NULL when its pool is used up.
EnterBootstrap(t) ==
    /\ TopAt(t, "enter") /\ preloaded /\ ServedByBootstrap(t)
    /\ Return(t)
    /\ bootUsed' = IF bootUsed < BootSize THEN bootUsed + 1 ELSE bootUsed
    /\ UNCHANGED << vars, mainVars, armed, resolving, resolved, inTrip, over >>

\* ensure_real_fns: it returns at once when all four are known or when it is
\* entered again from inside its own dlsym; otherwise it looks them up.
EnterEnsure(t) ==
    /\ TopAt(t, "enter") /\ preloaded /\ ~ServedByBootstrap(t)
    /\ ~FreedUnseen(t)
    /\ IF resolved = RealFns \/ resolving
       THEN Move(t, "check") /\ UNCHANGED resolving
       ELSE Move(t, "dlsym") /\ resolving' = TRUE
    /\ UNCHANGED << vars, mainVars, armed, resolved, bootUsed, inTrip, over >>

\* One dlsym of ensure_real_fns is over.
Resolve(t) ==
    /\ TopAt(t, "dlsym") /\ NotFound # {}
    /\ resolved' = resolved \cup {LookupOrder[CHOOSE i \in NotFound : \A j \in NotFound : i <= j]}
    /\ UNCHANGED << vars, mainVars, stack, armed, resolving, bootUsed, inTrip, over >>

\* dlsym needs memory of its own.
DlsymAllocates(t) ==
    /\ TopAt(t, "dlsym") /\ NotFound # {}
    /\ Call(t, "calloc", "heap")
    /\ UNCHANGED << vars, mainVars, guardVars, over >>

EnsureReturns(t) ==
    /\ TopAt(t, "dlsym") /\ NotFound = {}
    /\ resolving' = FALSE
    /\ Move(t, "check")
    /\ UNCHANGED << vars, mainVars, armed, resolved, bootUsed, inTrip, over >>

\* Fault: one flag for all threads instead of one for each.
ExemptFromCheck_Faulty(t) == \E u \in Threads : inTrip[u]

ExemptFromCheck(t) == inTrip[t]

\* Fault: in_trip is not set.
Check_Faulty(t) ==
    /\ TopAt(t, "check") /\ Top(t).op # "arm"
    /\ IF ~ExemptFromCheck(t) /\ armed
       THEN Move(t, "trip")
       ELSE Move(t, "through")
    /\ UNCHANGED << vars, mainVars, armed, resolving, resolved, bootUsed, inTrip, over >>

\* The look at t_in_trip and g_armed.
Check(t) ==
    /\ TopAt(t, "check") /\ Top(t).op # "arm"
    /\ IF ~ExemptFromCheck(t) /\ armed
       THEN Move(t, "trip") /\ inTrip' = [inTrip EXCEPT ![t] = TRUE]
       ELSE Move(t, "through") /\ UNCHANGED inTrip
    /\ UNCHANGED << vars, mainVars, armed, resolving, resolved, bootUsed, over >>

\* noalloc_guard_arm, after its own ensure_real_fns.
StoreArmed(t) ==
    /\ TopAt(t, "check") /\ Top(t).op = "arm"
    /\ armed' = TRUE
    /\ Return(t)
    /\ UNCHANGED << vars, mainVars, resolving, resolved, bootUsed, inTrip, over >>

\* The call through the real_ pointer.
CallReal(t) ==
    /\ TopAt(t, "through")
    /\ Return(t)
    /\ UNCHANGED << vars, mainVars, guardVars, over >>

\* trip: its diagnostics may need the heap, then it aborts.
TripAllocates(t) ==
    /\ TopAt(t, "trip")
    /\ Call(t, "malloc", "heap")
    /\ UNCHANGED << vars, mainVars, guardVars, over >>

TripAborts(t) ==
    /\ TopAt(t, "trip")
    /\ over' = "aborted"
    /\ UNCHANGED << vars, mainVars, stack, guardVars >>

GuardStep(t) ==
    \/ EnterFreeUnseen(t)
    \/ EnterBootstrap(t)
    \/ EnterEnsure(t)
    \/ Resolve(t)
    \/ DlsymAllocates(t)
    \/ EnsureReturns(t)
    \/ Check(t)
    \/ StoreArmed(t)
    \/ CallReal(t)
    \/ TripAllocates(t)
    \/ TripAborts(t)
-----------------------------------------------------------------------------
(***************************************************************************)
(* The middleware: threads that use the pool for everything but the        *)
(* bookkeeping of Thread.spawn, which is allocated before the new thread   *)
(* exists.                                                                 *)
(***************************************************************************)
\* main's sleep has ended.
SettleOver == \E i \in 1 .. at - 1 : Stages[program][i] = "settle"

\* Creating the participant starts threads from main.
CreateSpawns ==
    /\ Free(Main) /\ Stage = "create" /\ program # "bootstrap" /\ live # Threads
    /\ Call(Main, "malloc", "heap")
    /\ spawning' = spawning \cup {Main}
    /\ UNCHANGED << vars, program, preloaded, settled, at, live, peers, sample, received,
                    guardVars, over >>

\* A newly discovered participant gets a heartbeat thread.  In a settled
\* environment all of them are found before main's sleep ends.
Discover(t) ==
    /\ t # Main /\ Free(t) /\ peers < MaxPeers
    /\ settled => ~SettleOver
    /\ peers' = peers + 1
    /\ Call(t, "malloc", "heap")
    /\ spawning' = spawning \cup {t}
    /\ UNCHANGED << vars, program, preloaded, settled, at, live, sample, received, guardVars, over >>

\* Bound: a thread spawned when all of Threads exist is not followed.
SpawnReturns(t) ==
    /\ Running /\ t \in spawning /\ stack[t] = << >>
    /\ IF live = Threads THEN UNCHANGED live
       ELSE \E u \in Threads \ live : live' = live \cup {u}
    /\ spawning' = spawning \ {t}
    /\ UNCHANGED << vars, program, preloaded, settled, at, peers, sample, received,
                    stack, guardVars, over >>

\* A background thread inside the pool, or its owner writing to a block.  It
\* leaves alone the block main's log sample lives in.
PoolStep(t) ==
    /\ t # Main /\ Running /\ t \in live \ spawning /\ stack[t] = << >>
    /\ Step(t)
    /\ sample \in held' \cup {NULL}
    /\ UNCHANGED << mainVars, stack, guardVars, over >>

UseBlock ==
    /\ Running /\ Use
    /\ UNCHANGED << mainVars, stack, guardVars, over >>
-----------------------------------------------------------------------------
(***************************************************************************)
(* The main thread.                                                        *)
(***************************************************************************)
InMain(s) == Free(Main) /\ Stage = s
Advance   == at' = at + 1

\* Heap calls main makes by itself, in libraries and in the guard's client: only
\* outside the guarded stretch.  What is freed may come from the bootstrap pool.
LibraryCall ==
    /\ \/ InMain("create") /\ program # "bootstrap"
       \/ InMain("arm")
       \/ InMain("destroy")
    /\ \/ \E op \in LibraryOps : Call(Main, op, "heap")
       \/ bootUsed > 0 /\ Call(Main, "free", "boot")
    /\ UNCHANGED << vars, mainVars, guardVars, over >>

\* The pool refuses main a block it needs: a call returns NULL or an error.
Refused == pc[Main] = "allocUnlock" /\ node[Main] = NULL /\ Stage \in {"create", "write"}

\* Creating and destroying entities and encoding samples go through the pool.
MainPoolStep ==
    /\ Running /\ stack[Main] = << >> /\ Main \notin spawning
    /\ Stage \in {"create", "write", "destroy"}
    /\ Step(Main)
    /\ over' = IF Refused THEN "failed" ELSE over
    /\ UNCHANGED << mainVars, stack, guardVars >>

\* The participant has its threads; the bootstrap check creates none.
Created ==
    /\ InMain("create") /\ (program # "bootstrap" => live # {Main})
    /\ Advance
    /\ UNCHANGED << vars, program, preloaded, settled, live, spawning, peers, sample, received,
                    stack, guardVars, over >>

\* sleep(2).
Settle ==
    /\ InMain("settle")
    /\ settled => spawning = {} /\ \A t \in live : stack[t] = << >>
    /\ Advance
    /\ UNCHANGED << vars, program, preloaded, settled, live, spawning, peers, sample, received,
                    stack, guardVars, over >>

\* noalloc_guard_try_arm finds nothing to call when the guard is not preloaded.
TryArm ==
    /\ InMain("arm")
    /\ Advance
    /\ IF preloaded THEN Call(Main, "arm", "heap") ELSE UNCHANGED stack
    /\ UNCHANGED << vars, program, preloaded, settled, live, spawning, peers, sample, received,
                    guardVars, over >>

TryDisarm ==
    /\ InMain("disarm")
    /\ Advance
    /\ armed' = FALSE
    /\ UNCHANGED << vars, program, preloaded, settled, live, spawning, peers, sample, received,
                    stack, resolving, resolved, bootUsed, inTrip, over >>

\* All samples are written.
Wrote ==
    /\ InMain("write")
    /\ Advance
    /\ UNCHANGED << vars, program, preloaded, settled, live, spawning, peers, sample, received,
                    stack, guardVars, over >>

\* The loop over SensorSample, which needs no memory, ends with or without one.
TakeSamples ==
    /\ InMain("samples")
    /\ Advance
    /\ received' \in {{}, {"sample"}}
    /\ UNCHANGED << vars, program, preloaded, settled, live, spawning, peers, sample,
                    stack, guardVars, over >>

\* Decoding a log sample takes a block; when the pool has none, take fails and
\* the loop goes on.
DecodeLog ==
    /\ Running /\ Stage = "logs" /\ stack[Main] = << >> /\ sample = NULL
    /\ \/ AllocCall(Main) \/ AllocLock(Main) \/ AllocRead(Main) \/ AllocPop(Main)
    /\ UNCHANGED << mainVars, stack, guardVars, over >>

TakeLog ==
    /\ Running /\ Stage = "logs" /\ stack[Main] = << >>
    /\ AllocUnlock(Main)
    /\ sample' = node[Main]
    /\ received' = IF node[Main] = NULL THEN received ELSE received \cup {"log"}
    /\ UNCHANGED << program, preloaded, settled, at, live, spawning, peers, stack, guardVars, over >>

\* SensorLog_free, or the destructor of the C++ sample.
FreeLog ==
    /\ Running /\ Stage = "logs" /\ stack[Main] = << >>
    /\ \/ FreeCall(Main) /\ sample # NULL /\ node'[Main] = sample /\ sample' = NULL
       \/ (FreeLock(Main) \/ FreeLink(Main) \/ FreePush(Main) \/ FreeUnlock(Main)) /\ UNCHANGED sample
    /\ UNCHANGED << program, preloaded, settled, at, live, spawning, peers, received,
                    stack, guardVars, over >>

\* The log loop ends when it has enough or its time is up.
LogsOver ==
    /\ InMain("logs") /\ sample = NULL
    /\ Advance
    /\ UNCHANGED << vars, program, preloaded, settled, live, spawning, peers, sample, received,
                    stack, guardVars, over >>

\* The factory is gone and main returns its verdict.
Finish ==
    /\ InMain("destroy")
    /\ over' = IF program = "subscriber" /\ received # {"sample", "log"} THEN "failed" ELSE "done"
    /\ UNCHANGED << vars, mainVars, stack, guardVars >>

MainStep ==
    \/ LibraryCall
    \/ MainPoolStep
    \/ CreateSpawns
    \/ Created
    \/ Settle
    \/ TryArm
    \/ TryDisarm
    \/ Wrote
    \/ TakeSamples
    \/ DecodeLog
    \/ TakeLog
    \/ FreeLog
    \/ LogsOver
    \/ Finish

Ended == ~Running /\ UNCHANGED allVars

ProcessNext ==
    \/ MainStep
    \/ UseBlock
    \/ Ended
    \/ \E t \in Threads :
        \/ GuardStep(t)
        \/ Discover(t)
        \/ SpawnReturns(t)
        \/ PoolStep(t)

ProcessSpec == ProcessInit /\ [][ProcessNext]_allVars
-----------------------------------------------------------------------------
(***************************************************************************)
(* Properties.                                                             *)
(***************************************************************************)

\* No call goes through a pointer that has not been looked up, and no block of
\* the bootstrap pool reaches the real free: the guard's plain variables suffice
\* because the first heap call comes before the second thread.
NoWildCall ==
    \A t \in Threads :
        stack[t] # << >> /\ Top(t).at = "through" =>
            Top(t).op \in resolved /\ Top(t).ptr = "heap"

Reported(t) == \E i \in DOMAIN stack[t] : stack[t][i].at = "trip"

\* A heap call begun while the guard was armed does not reach the heap while it
\* still is, whichever threads are tripping, unless it is part of a report.
NothingUnseen ==
    \A t \in Threads :
        stack[t] # << >> /\ Top(t).at = "through" /\ Top(t).begunArmed /\ armed => Reported(t)

\* The report of a trip, which allocates, does not trip again, so that abort is
\* reached.
TripsOnce ==
    \A t \in Threads : Cardinality({i \in DOMAIN stack[t] : stack[t][i].at = "trip"}) <= 1

\* The state of the process is well formed (the bootstrap pool is not overdrawn,
\* only started threads allocate), and no thread reports a trip inside another.
ProcessInv == ProcessTypeOK /\ TripsOnce

\* Where discovery has settled before main arms the guard, no program aborts,
\* whatever the background threads do with the pool.
SettledRunsQuiet ==
    settled => over # "aborted" /\ \A t \in Threads : ~Reported(t)
=============================================================================
