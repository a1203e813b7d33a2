------------------------------ MODULE Presence ------------------------------
(***************************************************************************)
(* The presence pair: a publisher writes beacons, falls silent for longer  *)
(* than the lease of its writer's liveliness, asserts its liveliness and   *)
(* writes on; a subscriber follows the liveliness changes of the writer    *)
(* through a phase machine and is complete when it has been told ONLINE,   *)
(* OFFLINE and ONLINE again.                                               *)
(*                                                                         *)
(* Nothing but time ties the two together, so time is part of the model:   *)
(* sleeps, the lease and delays are measured in ticks.  Computation takes  *)
(* no time; a sleep, a message, the reliable handshake, the middleware's   *)
(* look at an expired lease and a callback may each be late by up to Slack.*)
(* on_data_available prints what it takes and is left out.                 *)
(***************************************************************************)
EXTENDS Integers

CONSTANTS
    BeaconCount,        \* ONLINE_BEACON_COUNT
    BeaconPeriod,       \* BEACON_PERIOD_MS
    Lease,              \* LEASE_DURATION_S
    OfflineDuration,    \* OFFLINE_DURATION_MS
    Slack,              \* how late anything may be
    PublisherPorts,     \* the ports a behaviour may pick from
    SubscriberPorts

ASSUME DurationAssumption ==
    /\ BeaconCount \in Nat \ {0}
    /\ BeaconPeriod \in Nat \ {0}
    /\ Lease \in Nat \ {0}
    /\ OfflineDuration \in Nat \ {0}
    /\ Slack \in Nat

\* What the durations are chosen for: a beacon that is late twice, in its
\* sleep and on its way, still comes within the lease, and in the silence the
\* lease ends, and is reported, before the writer is heard of again.
ASSUME TimingAssumption ==
    /\ BeaconPeriod + 2 * Slack < Lease
    /\ Lease + 2 * Slack < OfflineDuration

Ports == {"cpp", "c", "zig", "java"}

ASSUME PortsAssumption ==
    /\ PublisherPorts \subseteq Ports
    /\ SubscriberPorts \subseteq Ports

(***************************************************************************)
(* The main programs: each record maps a step to the step that follows it. *)
(* Zig's reader is created with its listener; the others attach it         *)
(* afterwards.  C++, C and Zig shut the middleware down ("leave").         *)
(***************************************************************************)
CppPublisher  == [create |-> "attach", attach |-> "awaitReady", awaitReady |-> "online",
                  online |-> "offline", offline |-> "resume", resume |-> "drain",
                  drain |-> "done"]
CPublisher    == [create |-> "attach", attach |-> "awaitReady", awaitReady |-> "online",
                  online |-> "offline", offline |-> "resume", resume |-> "drain",
                  drain |-> "done"]
ZigPublisher  == [create |-> "attach", attach |-> "awaitReady", awaitReady |-> "online",
                  online |-> "offline", offline |-> "resume", resume |-> "drain",
                  drain |-> "done"]
JavaPublisher == [create |-> "attach", attach |-> "awaitReady", awaitReady |-> "online",
                  online |-> "offline", offline |-> "resume", resume |-> "drain",
                  drain |-> "done"]

CppSubscriber  == [create |-> "attach", attach |-> "await", await |-> "delete",
                   delete |-> "leave", leave |-> "ok"]
CSubscriber    == [create |-> "attach", attach |-> "await", await |-> "delete",
                   delete |-> "leave", leave |-> "ok"]
ZigSubscriber  == [create |-> "await", await |-> "delete",
                   delete |-> "leave", leave |-> "ok"]
JavaSubscriber == [create |-> "attach", attach |-> "await", await |-> "delete",
                   delete |-> "ok"]

PublisherProgram  == [cpp |-> CppPublisher, c |-> CPublisher,
                      zig |-> ZigPublisher, java |-> JavaPublisher]
SubscriberProgram == [cpp |-> CppSubscriber, c |-> CSubscriber,
                      zig |-> ZigSubscriber, java |-> JavaSubscriber]

VARIABLES
    env,            \* what this behaviour runs: see Environments
    \* publisher process
    pubPc,          \* main thread's step
    listening,      \* the extended listener is attached to the writer
    pubCb,          \* dispatch thread: "idle" or the store it is about to make
    readerReady,    \* PubState.reader_ready
    everMatched,    \* PubState.ever_matched
    matchedCount,   \* PubState.matched_current_count
    seq,            \* the loops' seq: beacons written
    wake,           \* ticks to the end of the sleep in progress; negative when late
    recovered,      \* history: assert_liveliness has been called
    \* middleware
    link,           \* the writer's view of the reader
    events,         \* status changes not yet handed to the writer's listener
    inFlight,       \* the ages of the signs of life on their way to the reader
    alive,          \* alive_count of the reader's liveliness status
    age,            \* ticks since the reader last heard of the writer, while alive
    \* subscriber process
    subPc,          \* main thread's step
    changed,        \* ticks a liveliness change has waited for its callback, or -1
    phase,          \* SubState.phase, counted as SubState.step is
    onlines,        \* history: the ONLINE lines printed
    cycleComplete   \* SubState.cycle_complete

flagVars  == << listening, pubCb, readerReady, everMatched, matchedCount >>
pubVars   == << pubPc, flagVars, seq, wake, recovered >>
lifeVars  == << inFlight, alive, age >>
netVars   == << link, events, lifeVars >>
cycleVars == << phase, onlines, cycleComplete >>
subVars   == << subPc, changed, cycleVars >>
vars      == << env, pubVars, netVars, subVars >>

(***************************************************************************)
(* The environment of a behaviour: the ports; whether the middleware       *)
(* reports on attachment what happened while no listener was attached      *)
(* (replays: the source does not say); and whether no deadline passes and  *)
(* no call fails (smooth).                                                 *)
(***************************************************************************)
Environments == [pub : PublisherPorts, sub : SubscriberPorts, replays : BOOLEAN,
                 smooth : BOOLEAN]

PubSteps  == {"create", "attach", "awaitReady", "online", "offline", "resume", "drain",
              "drainCount"}
PubExits  == {"done", "failed"}
SubSteps  == {"create", "attach", "await", "delete", "leave"}
SubExits  == {"ok", "timeout", "failed"}
PubStores == {"readyStore", "matchCount", "matchEver", "unmatchCount"}
Events    == {"ready", "matched", "unmatched"}

\* The values of Phase: waiting_first_online, waiting_offline,
\* waiting_second_online and done.
Phases == 0 .. 3

PubRuns      == pubPc \notin PubExits
SubRuns      == subPc \notin SubExits
WriterExists == pubPc \notin {"create"} \cup PubExits
ReaderExists == subPc \in {"attach", "await", "delete"}
ReaderGone   == subPc \in {"leave"} \cup SubExits
Attached     == subPc \in {"await", "delete"}
Sleeping     == pubPc \in {"online", "offline", "resume"}
Awake        == wake <= 0

PubNext(step) == pubPc' = PublisherProgram[env.pub][step]
SubNext(step) == subPc' = SubscriberProgram[env.sub][step]

Raise(e) == events' = IF listening \/ env.replays THEN events \cup {e} ELSE events

TypeOK ==
    /\ env \in Environments
    /\ pubPc \in PubSteps \cup PubExits
    /\ listening \in BOOLEAN
    /\ pubCb \in PubStores \cup {"idle"}
    /\ readerReady \in BOOLEAN
    /\ everMatched \in BOOLEAN
    /\ matchedCount \in {0, 1}
    /\ seq \in 0 .. 2 * BeaconCount
    /\ wake \in -Slack .. OfflineDuration
    /\ recovered \in BOOLEAN
    /\ link \in {"none", "matched", "ready", "gone"}
    /\ events \in SUBSET Events
    /\ inFlight \in SUBSET (0 .. Slack)
    /\ alive \in {0, 1}
    /\ age \in 0 .. Lease + Slack
    /\ subPc \in SubSteps \cup SubExits
    /\ changed \in -1 .. Slack
    /\ phase \in Phases
    /\ onlines \in Nat
    /\ cycleComplete \in BOOLEAN

Init ==
    /\ env \in Environments
    /\ pubPc = "create"
    /\ listening = FALSE
    /\ pubCb = "idle"
    /\ readerReady = FALSE
    /\ everMatched = FALSE
    /\ matchedCount = 0
    /\ seq = 0
    /\ wake = -Slack
    /\ recovered = FALSE
    /\ link = "none"
    /\ events = {}
    /\ inFlight = {}
    /\ alive = 0
    /\ age = 0
    /\ subPc = "create"
    /\ changed = -1
    /\ phase = 0
    /\ onlines = 0
    /\ cycleComplete = FALSE
-----------------------------------------------------------------------------
(***************************************************************************)
(* Publisher, main thread.                                                 *)
(***************************************************************************)
\* create_datawriter, with no listener yet.
PubCreate ==
    /\ pubPc = "create"
    /\ PubNext("create")
    /\ UNCHANGED << env, flagVars, seq, wake, recovered, netVars, subVars >>

\* set_listener_ex.
PubAttach ==
    /\ pubPc = "attach"
    /\ listening' = TRUE
    /\ PubNext("attach")
    /\ UNCHANGED << env, pubCb, readerReady, everMatched, matchedCount, seq, wake,
                    recovered, netVars, subVars >>

\* The first poll that finds reader_ready set ends the wait.
PubAwaitReady ==
    /\ pubPc = "awaitReady"
    /\ readerReady
    /\ PubNext("awaitReady")
    /\ UNCHANGED << env, flagVars, seq, wake, recovered, netVars, subVars >>

\* A write or an assertion is a sign of life for a matched reader.
SignOfLife == inFlight' = IF link = "ready" THEN inFlight \cup {0} ELSE inFlight

\* One turn of a beacon loop that runs up to count end, with its sleep.
WriteBeacon(step, end, pause) ==
    /\ pubPc = step
    /\ Awake
    /\ seq < end
    /\ seq' = seq + 1
    /\ SignOfLife
    /\ wake' = pause
    /\ UNCHANGED << env, pubPc, flagVars, recovered, link, events, alive, age, subVars >>

\* Fault: the online phase pauses as long as the offline phase.
PubOnline_Faulty == WriteBeacon("online", BeaconCount, OfflineDuration)

PubOnline == WriteBeacon("online", BeaconCount, BeaconPeriod)

\* Fault: the silence is as short as a beacon's.
PubGoOffline_Faulty ==
    /\ pubPc = "online"
    /\ Awake
    /\ seq = BeaconCount
    /\ wake' = BeaconPeriod
    /\ PubNext("online")
    /\ UNCHANGED << env, flagVars, seq, recovered, netVars, subVars >>

\* The online phase is over: the silence begins.
PubGoOffline ==
    /\ pubPc = "online"
    /\ Awake
    /\ seq = BeaconCount
    /\ wake' = OfflineDuration
    /\ PubNext("online")
    /\ UNCHANGED << env, flagVars, seq, recovered, netVars, subVars >>

\* assert_liveliness.
PubRecover ==
    /\ pubPc = "offline"
    /\ Awake
    /\ SignOfLife
    /\ recovered' = TRUE
    /\ wake' = -Slack
    /\ PubNext("offline")
    /\ UNCHANGED << env, flagVars, seq, link, events, alive, age, subVars >>

PubResume == WriteBeacon("resume", 2 * BeaconCount, BeaconPeriod)

PubResumed ==
    /\ pubPc = "resume"
    /\ Awake
    /\ seq = 2 * BeaconCount
    /\ PubNext("resume")
    /\ UNCHANGED << env, flagVars, seq, wake, recovered, netVars, subVars >>

\* ever_matched is loaded first ...
PubDrainEver ==
    /\ pubPc = "drain"
    /\ everMatched
    /\ pubPc' = "drainCount"
    /\ UNCHANGED << env, flagVars, seq, wake, recovered, netVars, subVars >>

\* ... and matched_current_count after it.
PubDrainCount ==
    /\ pubPc = "drainCount"
    /\ IF matchedCount = 0 THEN PubNext("drain") ELSE pubPc' = "drain"
    /\ UNCHANGED << env, flagVars, seq, wake, recovered, netVars, subVars >>

\* READER_READY_TIMEOUT_MS and DRAIN_TIMEOUT_MS.
PubDeadline ==
    /\ ~env.smooth
    /\ \/ pubPc = "awaitReady" /\ ~readerReady
       \/ pubPc = "drain" /\ ~everMatched
       \/ pubPc = "drainCount" /\ matchedCount # 0
    /\ pubPc' = "failed"
    /\ UNCHANGED << env, flagVars, seq, wake, recovered, netVars, subVars >>

\* create_datawriter, set_listener_ex, write or assert_liveliness fails.
PubCallFails ==
    /\ ~env.smooth
    /\ \/ pubPc \in {"create", "attach"}
       \/ pubPc = "online" /\ Awake /\ seq < BeaconCount
       \/ pubPc = "offline" /\ Awake
       \/ pubPc = "resume" /\ Awake /\ seq < 2 * BeaconCount
    /\ pubPc' = "failed"
    /\ UNCHANGED << env, flagVars, seq, wake, recovered, netVars, subVars >>

PubMain ==
    \/ PubCreate
    \/ PubAttach
    \/ PubAwaitReady
    \/ PubOnline
    \/ PubGoOffline
    \/ PubRecover
    \/ PubResume
    \/ PubResumed
    \/ PubDrainEver
    \/ PubDrainCount
    \/ PubDeadline
-----------------------------------------------------------------------------
(***************************************************************************)
(* Publisher, dispatch thread.                                             *)
(***************************************************************************)
PubDispatch ==
    /\ PubRuns
    /\ listening
    /\ pubCb = "idle"
    /\ \E e \in events :
        /\ e = "unmatched" => "matched" \notin events
        /\ events' = events \ {e}
        /\ pubCb' = [ready |-> "readyStore", matched |-> "matchCount",
                     unmatched |-> "unmatchCount"][e]
    /\ UNCHANGED << env, pubPc, listening, readerReady, everMatched, matchedCount, seq,
                    wake, recovered, link, lifeVars, subVars >>

\* on_reliable_reader_ready with is_ready true.
OnReliableReaderReady ==
    /\ PubRuns
    /\ pubCb = "readyStore"
    /\ readerReady' = TRUE
    /\ pubCb' = "idle"
    /\ UNCHANGED << env, pubPc, listening, everMatched, matchedCount, seq, wake,
                    recovered, netVars, subVars >>

\* on_publication_matched: matched_current_count first, then, for a count
\* above zero, ever_matched.
OnPublicationMatched ==
    /\ PubRuns
    /\ \/ /\ pubCb = "matchCount"
          /\ matchedCount' = 1
          /\ pubCb' = "matchEver"
          /\ UNCHANGED everMatched
       \/ /\ pubCb = "matchEver"
          /\ everMatched' = TRUE
          /\ pubCb' = "idle"
          /\ UNCHANGED matchedCount
       \/ /\ pubCb = "unmatchCount"
          /\ matchedCount' = 0
          /\ pubCb' = "idle"
          /\ UNCHANGED everMatched
    /\ UNCHANGED << env, pubPc, listening, readerReady, seq, wake, recovered, netVars,
                    subVars >>

PubListener == PubDispatch \/ OnReliableReaderReady \/ OnPublicationMatched
-----------------------------------------------------------------------------
(***************************************************************************)
(* Middleware (external).                                                  *)
(***************************************************************************)
\* A liveliness change waits for its callback; one that is still waiting is
\* merged with it.  A listener that is not attached yet hears of it on
\* attachment or not at all.
LivelinessChanges ==
    changed' = IF changed = -1 /\ (Attached \/ env.replays) THEN 0 ELSE changed

\* The match itself makes the writer alive for the reader.
Match ==
    /\ link = "none"
    /\ WriterExists
    /\ ReaderExists
    /\ link' = "matched"
    /\ Raise("matched")
    /\ alive' = 1
    /\ age' = 0
    /\ LivelinessChanges
    /\ UNCHANGED << env, pubVars, inFlight, subPc, cycleVars >>

\* The reader's first acknowledgement makes it a ready reliable reader.
Handshake ==
    /\ link = "matched"
    /\ WriterExists
    /\ ReaderExists
    /\ link' = "ready"
    /\ Raise("ready")
    /\ UNCHANGED << env, pubVars, lifeVars, subVars >>

\* A sign of life arrives.
Deliver ==
    /\ ReaderExists
    /\ \E a \in inFlight : inFlight' = inFlight \ {a}
    /\ alive' = 1
    /\ age' = 0
    /\ IF alive = 0 THEN LivelinessChanges ELSE UNCHANGED changed
    /\ UNCHANGED << env, pubVars, link, events, subPc, cycleVars >>

\* The reader has not heard of the writer for a whole lease.
Expire ==
    /\ ReaderExists
    /\ alive = 1
    /\ age >= Lease
    /\ alive' = 0
    /\ age' = 0
    /\ LivelinessChanges
    /\ UNCHANGED << env, pubVars, link, events, inFlight, subPc, cycleVars >>

Depart ==
    /\ link \in {"matched", "ready"}
    /\ WriterExists
    /\ ReaderGone
    /\ link' = "gone"
    /\ Raise("unmatched")
    /\ UNCHANGED << env, pubVars, lifeVars, subVars >>

\* Readiness is on its way to main, which sees it at most Slack after the match.
ReadyDue ==
    /\ pubPc = "awaitReady"
    /\ link = "matched" \/ events # {} \/ pubCb # "idle" \/ readerReady
    /\ alive = 1 /\ age >= Slack

\* Nothing that is due is as late as it may be.
TimeMayPass ==
    /\ pubPc # "attach"
    /\ subPc # "attach"
    /\ Sleeping => wake > -Slack
    /\ ReaderExists =>
        /\ Slack \notin inFlight
        /\ alive = 1 => age < Lease + Slack
        /\ Attached => changed < Slack
        /\ ~ReadyDue

\* Time passes for a process that sleeps and for a reader that listens.
Tick ==
    /\ TimeMayPass
    /\ wake' = IF Sleeping THEN wake - 1 ELSE wake
    /\ IF ReaderExists
       THEN /\ inFlight' = {a + 1 : a \in inFlight}
            /\ age' = age + alive
            /\ changed' = IF Attached /\ changed >= 0 THEN changed + 1 ELSE changed
       ELSE UNCHANGED << inFlight, age, changed >>
    /\ UNCHANGED << env, pubPc, flagVars, seq, recovered, link, events, alive, subPc,
                    cycleVars >>

Middleware == Match \/ Handshake \/ Deliver \/ Expire \/ Depart
-----------------------------------------------------------------------------
(***************************************************************************)
(* Subscriber, main thread.                                                *)
(***************************************************************************)
\* create_datareader and the typed reader made from it; set_listener,
\* delete_datareader, and the shutdown of the middleware.
SubStep ==
    /\ subPc \in {"create", "attach", "delete", "leave"}
    /\ SubNext(subPc)
    /\ UNCHANGED << env, pubVars, netVars, changed, cycleVars >>

\* The first poll that finds cycle_complete set ends the wait.
SubAwait ==
    /\ subPc = "await"
    /\ cycleComplete
    /\ SubNext("await")
    /\ UNCHANGED << env, pubVars, netVars, changed, cycleVars >>

\* CYCLE_TIMEOUT_MS.
SubDeadline ==
    /\ ~env.smooth
    /\ subPc = "await"
    /\ ~cycleComplete
    /\ subPc' = "timeout"
    /\ UNCHANGED << env, pubVars, netVars, changed, cycleVars >>

\* create_datareader or set_listener fails.
SubCallFails ==
    /\ ~env.smooth
    /\ subPc \in {"create", "attach"}
    /\ subPc' = "failed"
    /\ UNCHANGED << env, pubVars, netVars, changed, cycleVars >>

SubMain == SubStep \/ SubAwait \/ SubDeadline
-----------------------------------------------------------------------------
(***************************************************************************)
(* Subscriber, dispatch thread: on_liveliness_changed, with the status as  *)
(* it is then.  It alone writes phase, step and cycle_complete, and main   *)
(* acts on the last one only: the callback is one step.                    *)
(***************************************************************************)
\* ONLINE leads on from waiting_first_online and waiting_second_online,
\* OFFLINE from waiting_offline; any other change is printed and ignored.
OnLivelinessChanged ==
    /\ Attached
    /\ changed >= 0
    /\ changed' = -1
    /\ onlines' = onlines + alive
    /\ phase' = IF phase < 3 /\ alive = (phase + 1) % 2 THEN phase + 1 ELSE phase
    /\ cycleComplete' = (cycleComplete \/ phase' = 3)
    /\ UNCHANGED << env, pubVars, netVars, subPc >>
-----------------------------------------------------------------------------
\* on_data_available prints the beacons; a take that returns an error ends the
\* process.  What take does then in Java the source does not show.
TakeFails ==
    /\ ~env.smooth
    /\ env.sub # "java"
    /\ Attached
    /\ subPc' = "failed"
    /\ UNCHANGED << env, pubVars, netVars, changed, cycleVars >>
-----------------------------------------------------------------------------
\* Calls may fail; nothing makes them.
Failures == PubCallFails \/ SubCallFails \/ TakeFails

Next ==
    \/ PubMain \/ PubListener \/ Middleware \/ Tick
    \/ SubMain \/ OnLivelinessChanged
    \/ Failures

\* Threads are scheduled, time passes, and the middleware gets round to every
\* match, handshake, delivery, expiry and departure.
Fairness ==
    /\ WF_vars(PubMain)
    /\ WF_vars(PubListener)
    /\ WF_vars(Match)
    /\ WF_vars(Handshake)
    /\ WF_vars(Deliver)
    /\ WF_vars(Expire)
    /\ WF_vars(Depart)
    /\ WF_vars(Tick)
    /\ WF_vars(SubMain)
    /\ WF_vars(OnLivelinessChanged)

Spec == Init /\ [][Next]_vars

FairSpec == Spec /\ Fairness
-----------------------------------------------------------------------------
(***************************************************************************)
(* Properties.                                                             *)
(***************************************************************************)
\* The cycle the subscriber reports is the one the publisher went through:
\* with nothing later than Slack, the phase machine gets past waiting_offline
\* only after the publisher has stopped writing its first batch (or has failed,
\* or was never told of the reader), and to its end only after the publisher
\* has asserted its liveliness again.
GenuineCycle ==
    /\ phase >= 2 => \/ pubPc \notin {"create", "attach", "awaitReady", "online"}
                     \/ pubPc = "awaitReady" /\ ~env.replays
    /\ phase = 3 => recovered

\* A successful subscriber has printed ONLINE exactly twice, as the smoke test
\* counts: no change is reported twice, none is ignored on the way.
TwoOnlines == subPc = "ok" => onlines = 2

\* The variables stay in their ranges, the reported cycle is the real one, and it
\* has just its two ONLINEs.
PresenceInv == TypeOK /\ GenuineCycle /\ TwoOnlines

\* The cycle is always seen: when liveliness changes and matches that precede
\* a listener are reported on attachment and nothing fails, both sides end well.
BothSucceed == (env.smooth /\ env.replays) => <>(pubPc = "done" /\ subPc = "ok")
=============================================================================
