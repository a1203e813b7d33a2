------------------------------ MODULE WaitSet -------------------------------
(***************************************************************************)
(* The waitset pair: both mains block in WaitSet.wait instead of being     *)
(* called back.  The publisher's wait set has the writer's StatusCondition *)
(* and a GuardCondition; the subscriber's has the reader's StatusCondition,*)
(* a QueryCondition for the high priorities, a ReadCondition for anything  *)
(* and a GuardCondition.  In each process a watchdog thread triggers the   *)
(* guard when the whole run takes too long.                                *)
(*                                                                         *)
(* wait hands main a list of the conditions that were active; what main    *)
(* then reads and takes is the state of a later moment.                    *)
(***************************************************************************)
EXTENDS Integers, FiniteSets

CONSTANTS
    SampleCount,        \* SAMPLE_COUNT and EXPECTED_SAMPLES; priority = count
    Threshold,          \* HIGH_PRIORITY_THRESHOLD
    PublisherPorts,     \* the ports a behaviour may pick from
    SubscriberPorts

Ports == {"cpp", "c", "zig", "java"}

ASSUME SampleCountAssumption == SampleCount \in Nat \ {0}
ASSUME ThresholdAssumption == Threshold \in Nat
ASSUME PortsAssumption ==
    /\ PublisherPorts \subseteq Ports
    /\ SubscriberPorts \subseteq Ports

Samples == 0 .. SampleCount - 1
High    == {s \in Samples : s > Threshold}

\* What a reader's cache holds for an instance that has lost its writers:
\* sample info with valid_data false.
Invalid == -1

(***************************************************************************)
(* The main programs: each record maps a step to the step that follows it, *)
(* "fail" to where a failure after the watchdog's start leads.  In C++ the *)
(* watchdog's destructor stops and joins the thread on every way out.      *)
(***************************************************************************)
CppPublisher  == [setup |-> "awaitMatch", match |-> "write", write |-> "awaitGone",
                  gone |-> "stop", stop |-> "join", join |-> "cleanup", cleanup |-> "done",
                  fail |-> "unwind"]
CPublisher    == [setup |-> "awaitMatch", match |-> "write", write |-> "awaitGone",
                  gone |-> "stop", stop |-> "join", join |-> "cleanup", cleanup |-> "done",
                  fail |-> "failed"]
ZigPublisher  == [setup |-> "awaitMatch", match |-> "write", write |-> "awaitGone",
                  gone |-> "stop", stop |-> "join", join |-> "cleanup", cleanup |-> "done",
                  fail |-> "failed"]
JavaPublisher == [setup |-> "awaitMatch", match |-> "write", write |-> "awaitGone",
                  gone |-> "stop", stop |-> "join", join |-> "cleanup", cleanup |-> "done",
                  fail |-> "failed"]

\* Zig counts what its two takes return without a look at valid_data.
CppSubscriber  == [setup |-> "wait", label |-> "stop", stop |-> "join",
                   join |-> "cleanup", cleanup |-> "done", fail |-> "unwind",
                   counts |-> "valid"]
CSubscriber    == [setup |-> "wait", label |-> "stop", stop |-> "join",
                   join |-> "cleanup", cleanup |-> "done", fail |-> "failed",
                   counts |-> "valid"]
ZigSubscriber  == [setup |-> "wait", label |-> "stop", stop |-> "join",
                   join |-> "cleanup", cleanup |-> "done", fail |-> "failed",
                   counts |-> "all"]
JavaSubscriber == [setup |-> "wait", label |-> "stop", stop |-> "join",
                   join |-> "cleanup", cleanup |-> "done", fail |-> "failed",
                   counts |-> "valid"]

PublisherProgram  == [cpp |-> CppPublisher, c |-> CPublisher,
                      zig |-> ZigPublisher, java |-> JavaPublisher]
SubscriberProgram == [cpp |-> CppSubscriber, c |-> CSubscriber,
                      zig |-> ZigSubscriber, java |-> JavaSubscriber]

Sides == {"pub", "sub"}

VARIABLES
    env,          \* what this behaviour runs: see Environments
    pc,           \* each main thread's step
    active,       \* what each main's last wait returned
    dog,          \* each watchdog thread: "off", "running", "expired" or "ended"
    stop,         \* Watchdog.stop
    guard,        \* the GuardCondition's trigger value
    changed,      \* the matched status of each endpoint changed since it was read
    current,      \* current_count of that status
    link,         \* the endpoints' relation, as the middleware sees it
    written,      \* samples written: counts 0 .. written-1
    arrived,      \* counts below this have reached the reader
    cache,        \* what the reader can take
    matchedLogged,\* the subscriber's matched_logged
    highTaken,    \* what take_w_condition returned
    lowTaken,     \* what the second take returned
    received,     \* the subscriber's count
    printedHigh,  \* counts printed as high-priority
    printedLow    \* counts printed as low-priority

sideVars  == << pc, active, dog, stop, guard >>
matchVars == << changed, current, link >>
dataVars  == << written, arrived, cache >>
takeVars  == << matchedLogged, highTaken, lowTaken, received, printedHigh, printedLow >>
vars      == << env, sideVars, matchVars, dataVars, takeVars >>

(***************************************************************************)
(* The environment of a behaviour: the ports; whether the samples written  *)
(* before the reader has matched the writer are lost (the publisher waits  *)
(* for its own match only, and the topic is volatile); and whether no      *)
(* deadline passes and no call fails.                                      *)
(***************************************************************************)
Environments == [pub : PublisherPorts, sub : SubscriberPorts, lossy : BOOLEAN,
                 smooth : BOOLEAN]

Exits == {"done", "failed"}
PubSteps == {"setup", "awaitMatch", "match", "write", "awaitGone", "gone", "stop", "join",
             "cleanup", "unwind", "unwindJoin"}
SubSteps == {"setup", "wait", "handle", "takeHigh", "takeLow", "label", "stop", "join",
             "cleanup", "unwind", "unwindJoin"}

Runs(side)   == pc[side] \notin Exits
WriterExists == pc["pub"] \notin {"setup"} \cup Exits
ReaderExists == pc["sub"] \notin {"setup"} \cup Exits
ReaderGone   == pc["sub"] \in Exits

Program(side) == IF side = "pub" THEN PublisherProgram[env.pub]
                                 ELSE SubscriberProgram[env.sub]

Goto(side, step) == pc' = [pc EXCEPT ![side] = step]

\* The conditions that are active now.
ActiveOf(side) ==
    {c \in {"gc", "sc", "qc", "rc"} :
        \/ c = "gc" /\ guard[side]
        \/ c = "sc" /\ changed[side]
        \/ c = "qc" /\ side = "sub" /\ cache \cap High # {}
        \/ c = "rc" /\ side = "sub" /\ cache # {}}

TypeOK ==
    /\ env \in Environments
    /\ pc["pub"] \in PubSteps \cup Exits
    /\ pc["sub"] \in SubSteps \cup Exits
    /\ active \in [Sides -> SUBSET {"gc", "sc", "qc", "rc"}]
    /\ dog \in [Sides -> {"off", "running", "expired", "ended"}]
    /\ stop \in [Sides -> BOOLEAN]
    /\ guard \in [Sides -> BOOLEAN]
    /\ changed \in [Sides -> BOOLEAN]
    /\ current \in [Sides -> {0, 1}]
    /\ link \in {"none", "matched", "ready", "gone", "lost"}
    /\ written \in 0 .. SampleCount
    /\ arrived \in 0 .. SampleCount
    /\ cache \in SUBSET (Samples \cup {Invalid})
    /\ matchedLogged \in BOOLEAN
    /\ highTaken \in SUBSET Samples
    /\ lowTaken \in SUBSET (Samples \cup {Invalid})
    /\ received \in 0 .. SampleCount + 1
    /\ printedHigh \in SUBSET Samples
    /\ printedLow \in SUBSET Samples

Init ==
    /\ env \in Environments
    /\ pc = [side \in Sides |-> "setup"]
    /\ active = [side \in Sides |-> {}]
    /\ dog = [side \in Sides |-> "off"]
    /\ stop = [side \in Sides |-> FALSE]
    /\ guard = [side \in Sides |-> FALSE]
    /\ changed = [side \in Sides |-> FALSE]
    /\ current = [side \in Sides |-> 0]
    /\ link = "none"
    /\ written = 0
    /\ arrived = 0
    /\ cache = {}
    /\ matchedLogged = FALSE
    /\ highTaken = {}
    /\ lowTaken = {}
    /\ received = 0
    /\ printedHigh = {}
    /\ printedLow = {}
-----------------------------------------------------------------------------
(***************************************************************************)
(* What the two mains have in common.                                      *)
(***************************************************************************)
\* The entities, the wait set and its conditions; the watchdog starts last.
Setup(side) ==
    /\ pc[side] = "setup"
    /\ dog' = [dog EXCEPT ![side] = "running"]
    /\ Goto(side, Program(side).setup)
    /\ UNCHANGED << env, active, stop, guard, matchVars, dataVars, takeVars >>

\* wait returns as soon as a condition is active; RETCODE_TIMEOUT after
\* WAIT_STEP leads back into wait.
Wait(side, from, to) ==
    /\ pc[side] = from
    /\ ActiveOf(side) # {}
    /\ active' = [active EXCEPT ![side] = ActiveOf(side)]
    /\ Goto(side, to)
    /\ UNCHANGED << env, dog, stop, guard, matchVars, dataVars, takeVars >>

\* stop_and_join: the flag ...
Stop(side) ==
    /\ pc[side] \in {"stop", "unwind"}
    /\ stop' = [stop EXCEPT ![side] = TRUE]
    /\ Goto(side, IF pc[side] = "stop" THEN Program(side).stop ELSE "unwindJoin")
    /\ UNCHANGED << env, active, dog, guard, matchVars, dataVars, takeVars >>

\* ... and the join.
Join(side) ==
    /\ pc[side] \in {"join", "unwindJoin"}
    /\ dog[side] = "ended"
    /\ Goto(side, IF pc[side] = "join" THEN Program(side).join ELSE "failed")
    /\ UNCHANGED << env, active, dog, stop, guard, matchVars, dataVars, takeVars >>

\* The conditions are detached and the endpoint deleted; the publisher's
\* StatusCondition stays attached through delete_datawriter.
Cleanup(side) ==
    /\ pc[side] = "cleanup"
    /\ Goto(side, Program(side).cleanup)
    /\ UNCHANGED << env, active, dog, stop, guard, matchVars, dataVars, takeVars >>

\* A call fails: creation, wait, or write.
CallFails(side) ==
    /\ ~env.smooth
    /\ \/ /\ pc[side] = "setup"
          /\ Goto(side, "failed")
       \/ /\ \/ pc[side] \in {"awaitMatch", "awaitGone", "wait"}
             \/ pc[side] = "write" /\ written < SampleCount
          /\ Goto(side, Program(side).fail)
    /\ UNCHANGED << env, active, dog, stop, guard, matchVars, dataVars, takeVars >>
-----------------------------------------------------------------------------
(***************************************************************************)
(* Watchdog threads.                                                       *)
(***************************************************************************)
\* The deadline is found to have passed, stop having been false before.
DogExpires(side) ==
    /\ Runs(side)
    /\ ~env.smooth
    /\ dog[side] = "running"
    /\ ~stop[side]
    /\ dog' = [dog EXCEPT ![side] = "expired"]
    /\ UNCHANGED << env, pc, active, stop, guard, matchVars, dataVars, takeVars >>

\* Fault: the guard condition is not triggered.
DogTriggers_Faulty(side) ==
    /\ Runs(side)
    /\ dog[side] = "expired"
    /\ dog' = [dog EXCEPT ![side] = "ended"]
    /\ UNCHANGED << env, pc, active, stop, guard, matchVars, dataVars, takeVars >>

DogTriggers(side) ==
    /\ Runs(side)
    /\ dog[side] = "expired"
    /\ guard' = [guard EXCEPT ![side] = TRUE]
    /\ dog' = [dog EXCEPT ![side] = "ended"]
    /\ UNCHANGED << env, pc, active, stop, matchVars, dataVars, takeVars >>

DogStops(side) ==
    /\ Runs(side)
    /\ dog[side] = "running"
    /\ stop[side]
    /\ dog' = [dog EXCEPT ![side] = "ended"]
    /\ UNCHANGED << env, pc, active, stop, guard, matchVars, dataVars, takeVars >>

Watchdog(side) == DogExpires(side) \/ DogTriggers(side) \/ DogStops(side)
-----------------------------------------------------------------------------
(***************************************************************************)
(* Publisher.                                                              *)
(***************************************************************************)
\* After wait: the guard ends the process; a status change is looked at,
\* which resets the status, and ends the phase when the count is the awaited
\* one.
HandleStatus(from, wait, awaited) ==
    /\ pc["pub"] = from
    /\ IF "gc" \in active["pub"]
       THEN Goto("pub", Program("pub").fail) /\ UNCHANGED changed
       ELSE /\ changed' = [changed EXCEPT !["pub"] = FALSE]
            /\ Goto("pub", IF current["pub"] = awaited THEN Program("pub")[from] ELSE wait)
    /\ UNCHANGED << env, active, dog, stop, guard, current, link, dataVars, takeVars >>

PubAwaitMatch  == Wait("pub", "awaitMatch", "match")
PubHandleMatch == HandleStatus("match", "awaitMatch", 1)

PubWrite ==
    /\ pc["pub"] = "write"
    /\ IF written < SampleCount
       THEN written' = written + 1 /\ UNCHANGED pc
       ELSE Goto("pub", Program("pub").write) /\ UNCHANGED written
    /\ UNCHANGED << env, active, dog, stop, guard, matchVars, arrived, cache, takeVars >>

PubAwaitGone  == Wait("pub", "awaitGone", "gone")

\* Fault: whatever ends the wait counts as the disconnection.
PubHandleGone_Faulty ==
    /\ pc["pub"] = "gone"
    /\ Goto("pub", Program("pub").gone)
    /\ UNCHANGED << env, active, dog, stop, guard, matchVars, dataVars, takeVars >>

PubHandleGone == HandleStatus("gone", "awaitGone", 0)

PubMain ==
    \/ Setup("pub") \/ Stop("pub") \/ Join("pub") \/ Cleanup("pub")
    \/ PubAwaitMatch
    \/ PubHandleMatch
    \/ PubWrite
    \/ PubAwaitGone
    \/ PubHandleGone
-----------------------------------------------------------------------------
(***************************************************************************)
(* Subscriber.                                                             *)
(***************************************************************************)
SubWait == Wait("sub", "wait", "handle")

\* The guard ends the process; the first match is logged; data is taken.
SubHandle ==
    /\ pc["sub"] = "handle"
    /\ IF "gc" \in active["sub"]
       THEN Goto("sub", Program("sub").fail) /\ UNCHANGED << changed, matchedLogged >>
       ELSE /\ IF ~matchedLogged /\ "sc" \in active["sub"]
               THEN /\ changed' = [changed EXCEPT !["sub"] = FALSE]
                    /\ matchedLogged' = (current["sub"] > 0)
               ELSE UNCHANGED << changed, matchedLogged >>
            /\ Goto("sub", IF active["sub"] \cap {"qc", "rc"} # {} THEN "takeHigh"
                                                                   ELSE "wait")
    /\ UNCHANGED << env, active, dog, stop, guard, current, link, dataVars, highTaken,
                    lowTaken, received, printedHigh, printedLow >>

\* Fault: the samples are read and stay in the cache.
TakeHigh_Faulty ==
    /\ pc["sub"] = "takeHigh"
    /\ highTaken' = cache \cap High
    /\ Goto("sub", "takeLow")
    /\ UNCHANGED << env, active, dog, stop, guard, matchVars, dataVars,
                    matchedLogged, lowTaken, received, printedHigh, printedLow >>

\* take_w_condition: one call, one lock ...
TakeHigh ==
    /\ pc["sub"] = "takeHigh"
    /\ highTaken' = cache \cap High
    /\ cache' = cache \ High
    /\ Goto("sub", "takeLow")
    /\ UNCHANGED << env, active, dog, stop, guard, matchVars, written, arrived,
                    matchedLogged, lowTaken, received, printedHigh, printedLow >>

\* Fault: the second take is left out.
TakeLow_Faulty ==
    /\ pc["sub"] = "takeLow"
    /\ lowTaken' = {}
    /\ Goto("sub", "label")
    /\ UNCHANGED << env, active, dog, stop, guard, matchVars, dataVars,
                    matchedLogged, highTaken, received, printedHigh, printedLow >>

\* ... and take_n, another one: samples may have come in between.
TakeLow ==
    /\ pc["sub"] = "takeLow"
    /\ lowTaken' = cache
    /\ cache' = {}
    /\ Goto("sub", "label")
    /\ UNCHANGED << env, active, dog, stop, guard, matchVars, written, arrived,
                    matchedLogged, highTaken, received, printedHigh, printedLow >>

\* What of a take is counted.
Counted(batch) == IF Program("sub").counts = "all" THEN batch ELSE batch \cap Samples

\* Fault: the label comes from the call that returned the sample.
Label_Faulty ==
    /\ pc["sub"] = "label"
    /\ received' = received + Cardinality(Counted(highTaken)) + Cardinality(Counted(lowTaken))
    /\ printedHigh' = printedHigh \cup highTaken
    /\ printedLow' = printedLow \cup (lowTaken \cap Samples)
    /\ Goto("sub", IF received' >= SampleCount THEN Program("sub").label ELSE "wait")
    /\ UNCHANGED << env, active, dog, stop, guard, matchVars, dataVars, matchedLogged,
                    highTaken, lowTaken >>

\* Each sample is printed under the label its own priority gives it, and the
\* loop ends with the count.
Label ==
    /\ pc["sub"] = "label"
    /\ received' = received + Cardinality(Counted(highTaken)) + Cardinality(Counted(lowTaken))
    /\ LET printed == (highTaken \cup lowTaken) \cap Samples
       IN  /\ printedHigh' = printedHigh \cup (printed \cap High)
           /\ printedLow' = printedLow \cup (printed \ High)
    /\ Goto("sub", IF received' >= SampleCount THEN Program("sub").label ELSE "wait")
    /\ UNCHANGED << env, active, dog, stop, guard, matchVars, dataVars, matchedLogged,
                    highTaken, lowTaken >>

SubMain ==
    \/ Setup("sub") \/ Stop("sub") \/ Join("sub") \/ Cleanup("sub")
    \/ SubWait
    \/ SubHandle
    \/ TakeHigh
    \/ TakeLow
    \/ Label
-----------------------------------------------------------------------------
(***************************************************************************)
(* Middleware (external).                                                  *)
(***************************************************************************)
Notify(side, count) ==
    /\ changed' = [changed EXCEPT ![side] = TRUE]
    /\ current' = [current EXCEPT ![side] = count]

\* The writer matches the reader ...
Match ==
    /\ link = "none"
    /\ WriterExists
    /\ ReaderExists
    /\ link' = "matched"
    /\ Notify("pub", 1)
    /\ UNCHANGED << env, sideVars, dataVars, takeVars >>

\* ... and the reader the writer.
Handshake ==
    /\ link = "matched"
    /\ WriterExists
    /\ ReaderExists
    /\ link' = "ready"
    /\ Notify("sub", 1)
    /\ arrived' = IF env.lossy THEN written ELSE arrived
    /\ UNCHANGED << env, sideVars, written, cache, takeVars >>

Deliver ==
    /\ link = "ready"
    /\ WriterExists
    /\ ReaderExists
    /\ arrived < written
    /\ arrived' = arrived + 1
    /\ cache' = cache \cup {arrived}
    /\ UNCHANGED << env, sideVars, matchVars, written, takeVars >>

Depart ==
    /\ link \in {"matched", "ready"}
    /\ WriterExists
    /\ ReaderGone
    /\ link' = "gone"
    /\ Notify("pub", 0)
    /\ UNCHANGED << env, sideVars, dataVars, takeVars >>

\* The publisher's process is missed: the reader's instance, if there is one,
\* has no writers left.
WriterLost ==
    /\ link = "ready"
    /\ ~WriterExists
    /\ ReaderExists
    /\ link' = "lost"
    /\ Notify("sub", 0)
    /\ cache' = IF arrived > 0 THEN cache \cup {Invalid} ELSE cache
    /\ UNCHANGED << env, sideVars, written, arrived, takeVars >>

Next ==
    \/ PubMain
    \/ SubMain
    \/ \E side \in Sides : Watchdog(side) \/ CallFails(side)
    \/ Match \/ Handshake \/ Deliver \/ Depart \/ WriterLost

\* Threads are scheduled, the watchdogs' clocks go on, and the middleware gets
\* round to every match, delivery and departure.  Nothing makes a call fail: a
\* wait that blocks is left by a condition or not at all.
Fairness ==
    /\ WF_vars(PubMain)
    /\ WF_vars(SubMain)
    /\ WF_vars(Watchdog("pub"))
    /\ WF_vars(Watchdog("sub"))
    /\ WF_vars(Match \/ Handshake)
    /\ WF_vars(Deliver)
    /\ WF_vars(Depart)

Spec == Init /\ [][Next]_vars

FairSpec == Spec /\ Fairness
-----------------------------------------------------------------------------
(***************************************************************************)
(* Properties.                                                             *)
(***************************************************************************)
LoopOver == pc["sub"] \in {"stop", "join", "cleanup", "done"}

\* A sample is printed under its own priority's label, although one that
\* arrives between the two takes is returned by the wrong one.
LabelsRight == printedHigh \subseteq High /\ printedLow \cap High = {}

\* No process returns from main with its watchdog still running, save where a
\* port without destructors fails; a C++ main never does.
WatchdogJoined ==
    \A side \in Sides :
        pc[side] = "done" \/ (pc[side] = "failed" /\ env[side] = "cpp")
            => dog[side] \in {"off", "ended"}

\* The variables stay in their ranges, no sample is mislabelled, and no watchdog
\* is left behind.
WaitSetInv == TypeOK /\ LabelsRight /\ WatchdogJoined

\* "received all": the loop ends only when every sample has been printed, none
\* counted twice between the two takes and nothing else counted.
AllReceived == LoopOver => printedHigh \cup printedLow = Samples

\* The same for the ports that look at valid_data.
AllReceivedIfValidated == SubscriberProgram[env.sub].counts = "valid" => AllReceived

\* The publisher takes nothing but a real departure for one, in a status that
\* is read some time after the wait that reported its change and whose first
\* change, the match, it has consumed before.
DoneAfterDeparture ==
    pc["pub"] \in {"stop", "join", "cleanup", "done"} => ReaderGone

\* Both processes exit however the other one fares: the watchdogs bound every
\* wait, and stopping them blocks nobody.
BothExit == <>(env.smooth \/ (~Runs("pub") /\ ~Runs("sub")))

\* Without deadlines, failures and early samples lost, the pair succeeds: no
\* wake-up is lost between the snapshots wait returns and the takes.
BothSucceed ==
    (env.smooth /\ ~env.lossy) => <>(pc["pub"] = "done" /\ pc["sub"] = "done")
=============================================================================
