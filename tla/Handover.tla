------------------------------ MODULE Handover ------------------------------
(***************************************************************************)
(* What the pairs of example programs promise, with no thread, callback or *)
(* middleware in sight: a publisher hands Total samples to a subscriber in *)
(* order and without a gap, the subscriber is complete only with all of    *)
(* them, and the publisher is done only after the subscriber has left.     *)
(* Either side may give up at any time (a deadline, a failed call).        *)
(***************************************************************************)
EXTENDS Naturals

CONSTANT Total   \* how many samples make the handover complete: a positive number

VARIABLES
    sent,        \* samples the publisher has written: 0 .. sent-1
    received,    \* samples the subscriber has accepted: 0 .. received-1
    publisher,   \* "running", "done" or "failed"
    subscriber   \* "running", "complete" or "failed"

vars == << sent, received, publisher, subscriber >>

TypeOK ==
    /\ sent \in 0 .. Total
    /\ received \in 0 .. Total
    /\ publisher \in {"running", "done", "failed"}
    /\ subscriber \in {"running", "complete", "failed"}

Init ==
    /\ sent = 0
    /\ received = 0
    /\ publisher = "running"
    /\ subscriber = "running"

Send ==
    /\ publisher = "running"
    /\ sent < Total
    /\ sent' = sent + 1
    /\ UNCHANGED << received, publisher, subscriber >>

Receive ==
    /\ subscriber = "running"
    /\ received < sent
    /\ received' = received + 1
    /\ UNCHANGED << sent, publisher, subscriber >>

Complete ==
    /\ subscriber = "running"
    /\ received = Total
    /\ subscriber' = "complete"
    /\ UNCHANGED << sent, received, publisher >>

Finish ==
    /\ publisher = "running"
    /\ sent = Total
    /\ subscriber # "running"
    /\ publisher' = "done"
    /\ UNCHANGED << sent, received, subscriber >>

PublisherGivesUp ==
    /\ publisher = "running"
    /\ publisher' = "failed"
    /\ UNCHANGED << sent, received, subscriber >>

SubscriberGivesUp ==
    /\ subscriber = "running"
    /\ subscriber' = "failed"
    /\ UNCHANGED << sent, received, publisher >>

Next ==
    \/ Send
    \/ Receive
    \/ Complete
    \/ Finish
    \/ PublisherGivesUp
    \/ SubscriberGivesUp

Spec == Init /\ [][Next]_vars
=============================================================================
