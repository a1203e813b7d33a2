---------------------------- MODULE PoolService -----------------------------
(***************************************************************************)
(* A pool of equal blocks as its callers may think of it: every call takes *)
(* effect at one instant between its start and its return.  A request is   *)
(* answered with a block nobody else has, or with NULL, and with NULL only *)
(* at an instant when no block is available.                               *)
(***************************************************************************)
CONSTANTS
    Threads,
    Blocks,
    NULL

VARIABLES
    available,   \* blocks that can be handed out
    held,        \* blocks the callers have and have not given back
    call,        \* each thread's call: "idle", "alloc", "answer" or "free"
    block        \* the block that call is about, or NULL

vars == << available, held, call, block >>

TypeOK ==
    /\ available \in SUBSET Blocks
    /\ held \in SUBSET Blocks
    /\ call \in [Threads -> {"idle", "alloc", "answer", "free"}]
    /\ block \in [Threads -> Blocks \cup {NULL}]

Init ==
    /\ available = Blocks
    /\ held = {}
    /\ call = [t \in Threads |-> "idle"]
    /\ block = [t \in Threads |-> NULL]

Ask(t) ==
    /\ call[t] = "idle"
    /\ call' = [call EXCEPT ![t] = "alloc"]
    /\ UNCHANGED << available, held, block >>

HandOut(t) ==
    /\ call[t] = "alloc"
    /\ \E b \in available :
        /\ available' = available \ {b}
        /\ block' = [block EXCEPT ![t] = b]
    /\ call' = [call EXCEPT ![t] = "answer"]
    /\ UNCHANGED held

Refuse(t) ==
    /\ call[t] = "alloc"
    /\ available = {}
    /\ call' = [call EXCEPT ![t] = "answer"]
    /\ UNCHANGED << available, held, block >>

Return(t) ==
    /\ call[t] = "answer"
    /\ held' = held \cup ({block[t]} \ {NULL})
    /\ block' = [block EXCEPT ![t] = NULL]
    /\ call' = [call EXCEPT ![t] = "idle"]
    /\ UNCHANGED available

GiveBack(t) ==
    /\ call[t] = "idle"
    /\ \E b \in held :
        /\ held' = held \ {b}
        /\ block' = [block EXCEPT ![t] = b]
    /\ call' = [call EXCEPT ![t] = "free"]
    /\ UNCHANGED available

Accept(t) ==
    /\ call[t] = "free"
    /\ available' = available \cup {block[t]}
    /\ block' = [block EXCEPT ![t] = NULL]
    /\ call' = [call EXCEPT ![t] = "idle"]
    /\ UNCHANGED held

Next == \E t \in Threads :
    Ask(t) \/ HandOut(t) \/ Refuse(t) \/ Return(t) \/ GiveBack(t) \/ Accept(t)

Spec == Init /\ [][Next]_vars
=============================================================================
