--------------------------- MODULE PresenceProofs ---------------------------
(***************************************************************************)
(* Proofs about Presence, for every choice of durations that satisfies     *)
(* TimingAssumption, every number of beacons and every pair of ports.      *)
(* IInv is the inductive invariant.  Its core is the argument the          *)
(* durations are chosen for: while beacons are being written, the reader   *)
(* either has heard of the writer since the last one, or is about to; in   *)
(* the silence everything on its way arrives within Slack, and from then   *)
(* on the age of the writer grows with the silence.                        *)
(***************************************************************************)
EXTENDS Presence, TLAPS

\* The steps before the publisher has been told of the reader.
Early == {"create", "attach", "awaitReady"}

\* The publisher is told of the reader, or is going to be.
ToldOfReader ==
    link = "matched" \/ "ready" \in events \/ pubCb = "readyStore" \/ readerReady

\* A sign of life under way that comes in time.
Arriving == \E a \in inFlight : age =< a + BeaconPeriod + Slack

\* Where the programs are, and what the link says of it.
Stations ==
    /\ subPc = "attach" => env.sub # "zig"
    /\ subPc = "leave" => env.sub # "java"
    /\ subPc = "create" \/ pubPc = "create" => link = "none"
    /\ link = "gone" => ReaderGone
    /\ readerReady \/ pubCb = "readyStore" \/ "ready" \in events
          => link \in {"ready", "gone"}
    /\ pubPc \notin Early \cup {"failed"} \/ recovered => readerReady
    /\ pubPc \in {"resume", "drain", "drainCount", "done"} => recovered
    /\ recovered => pubPc \in {"resume", "drain", "drainCount", "done", "failed"}

\* Before the match, and before the first beacon.
Before ==
    /\ link = "none" => alive = 0 /\ phase = 0 /\ onlines = 0 /\ changed = -1
    /\ link = "none" \/ pubPc \in Early => inFlight = {}
    /\ pubPc \in Early => wake = -Slack

\* Between the match and the first beacon the writer's age stays below Slack,
\* unless the news of the reader was lost.
Waiting ==
    pubPc \in {"attach", "awaitReady"} /\ ReaderExists /\ link # "none" =>
        /\ ToldOfReader => alive = 1 /\ age =< Slack
        /\ ~ToldOfReader => ~env.replays
        /\ pubPc = "attach" => alive = 1 /\ age = 0

\* While beacons are written: the reader has heard of the writer since the last
\* one was, or a sign of life arrives in time.
Beaconing ==
    pubPc \in {"online", "resume"} =>
        /\ wake =< BeaconPeriod
        /\ ReaderExists =>
            /\ pubPc = "online" => alive = 1
            /\ alive = 0 => inFlight # {}
            /\ alive = 1 => age =< BeaconPeriod - wake \/ Arriving

\* In the silence: what is on its way was written before it, and the reader has
\* heard nothing since Slack after its beginning.
Silent ==
    pubPc = "offline" /\ ReaderExists =>
        /\ \A a \in inFlight : a >= OfflineDuration - wake
        /\ alive = 1 => age + Slack >= OfflineDuration - wake

\* Whatever is on its way comes before the lease ends; when a lease has ended
\* before the recovery, nothing is.
Signs ==
    ReaderExists =>
        /\ alive = 1 /\ inFlight # {} => Arriving
        /\ alive = 0 /\ ~recovered => inFlight = {}

\* How far the phase machine may be.
Reported ==
    /\ pubPc \in {"create", "attach", "online"} => phase =< 1
    /\ pubPc = "awaitReady" /\ phase >= 2 => ~env.replays /\ ~ToldOfReader
    /\ ~recovered => phase =< 2
    /\ ~recovered /\ phase = 2 /\ ReaderExists => alive = 0
    /\ cycleComplete => phase = 3
    /\ subPc \in {"delete", "leave", "ok"} => cycleComplete

\* How many ONLINEs have been printed, in the writer's first life, between its
\* lives, and in its second one.
Counted ==
    /\ phase = 3 => onlines = 2
    /\ ReaderExists =>
        /\ alive = 1 /\ ~recovered =>
              \/ phase = 0 /\ onlines = 0
              \/ phase = 1 /\ onlines = 1 /\ changed = -1
        /\ alive = 0 /\ (~recovered \/ inFlight # {}) =>
              \/ phase = 0 /\ onlines = 0
              \/ phase \in {1, 2} /\ onlines = 1
        /\ alive = 1 /\ recovered =>
              \/ phase = 0 /\ onlines = 0
              \/ phase \in {1, 2} /\ onlines = 1
              \/ phase \in {1, 3} /\ onlines = 2 /\ changed = -1

IInv ==
    /\ TypeOK
    /\ Stations
    /\ Before
    /\ Waiting
    /\ Beaconing
    /\ Silent
    /\ Signs
    /\ Reported
    /\ Counted

-----------------------------------------------------------------------------
\* Where each step of a publisher's main program leads: the ports agree.
LEMMA PublisherSteps ==
    ASSUME NEW p \in Ports
    PROVE  /\ PublisherProgram[p]["create"] = "attach"
           /\ PublisherProgram[p]["attach"] = "awaitReady"
           /\ PublisherProgram[p]["awaitReady"] = "online"
           /\ PublisherProgram[p]["online"] = "offline"
           /\ PublisherProgram[p]["offline"] = "resume"
           /\ PublisherProgram[p]["resume"] = "drain"
           /\ PublisherProgram[p]["drain"] = "done"
  BY DEF Ports, PublisherProgram, CppPublisher, CPublisher, ZigPublisher, JavaPublisher

\* Where each step of a subscriber's main program leads.
LEMMA SubscriberSteps ==
    ASSUME NEW p \in Ports
    PROVE  /\ SubscriberProgram[p]["create"] = IF p = "zig" THEN "await" ELSE "attach"
           /\ p # "zig" => SubscriberProgram[p]["attach"] = "await"
           /\ SubscriberProgram[p]["await"] = "delete"
           /\ SubscriberProgram[p]["delete"] = IF p = "java" THEN "ok" ELSE "leave"
           /\ p # "java" => SubscriberProgram[p]["leave"] = "ok"
  BY DEF Ports, SubscriberProgram, CppSubscriber, CSubscriber, ZigSubscriber,
         JavaSubscriber

\* What the durations are, and how they compare.
LEMMA Durations ==
    /\ BeaconCount \in Nat /\ BeaconCount > 0
    /\ BeaconPeriod \in Nat /\ BeaconPeriod > 0
    /\ Lease \in Nat /\ Lease > 0
    /\ OfflineDuration \in Nat /\ OfflineDuration > 0
    /\ Slack \in Nat
    /\ BeaconPeriod + 2 * Slack < Lease
    /\ Lease + 2 * Slack < OfflineDuration
  BY DurationAssumption, TimingAssumption

\* The ports of a behaviour are ports.
LEMMA EnvironmentPorts ==
    ASSUME TypeOK PROVE env.pub \in Ports /\ env.sub \in Ports
  BY PortsAssumption DEF TypeOK, Environments

\* While something that arrives in time is on its way no lease ends.
LEMMA ArrivesInTime ==
    ASSUME TypeOK, Arriving PROVE age < Lease
  <1>1. PICK a \in inFlight : age =< a + BeaconPeriod + Slack
    BY DEF Arriving
  <1>2. a \in 0 .. Slack /\ age \in Nat
    BY Durations DEF TypeOK
  <1> QED
    BY <1>1, <1>2, Durations

\* No lease ends while beacons are written.
LEMMA NoExpiryWhileBeaconing ==
    ASSUME TypeOK, Beaconing, pubPc \in {"online", "resume"}, ReaderExists, alive = 1
    PROVE  age < Lease
  <1>1. CASE Arriving
    BY <1>1, ArrivesInTime
  <1>2. CASE age =< BeaconPeriod - wake
    <2>1. wake \in Int /\ wake >= -Slack /\ age \in Nat
      BY Durations DEF TypeOK
    <2> QED
      BY <1>2, <2>1, Durations
  <1> QED
    BY <1>1, <1>2 DEF Beaconing

\* When the silence is over, the lease has ended and nothing is on its way.
LEMMA DeadAfterSilence ==
    ASSUME IInv, pubPc = "offline", Awake, ReaderExists
    PROVE  alive = 0 /\ inFlight = {}
  <1>1. wake \in Int /\ wake =< 0 /\ age \in Nat /\ age =< Lease + Slack /\ alive \in {0, 1}
    BY Durations DEF IInv, TypeOK, Awake
  <1>2. alive = 0
    BY <1>1, Durations DEF IInv, Silent
  <1>3. \A a \in inFlight : a \in 0 .. Slack /\ a >= OfflineDuration - wake
    BY DEF IInv, TypeOK, Silent
  <1>4. \A a \in inFlight : FALSE
    BY <1>1, <1>3, Durations
  <1> QED
    BY <1>2, <1>4

-----------------------------------------------------------------------------
\* The invariant holds initially.
LEMMA InitInv == Init => IInv
  <1> SUFFICES ASSUME Init PROVE IInv
    OBVIOUS
  <1> USE Durations DEF Init
  <1>1. TypeOK
    <2>1. /\ listening \in BOOLEAN /\ readerReady \in BOOLEAN /\ everMatched \in BOOLEAN
          /\ recovered \in BOOLEAN /\ cycleComplete \in BOOLEAN
      BY Zenon
    <2>2. /\ seq \in 0 .. 2 * BeaconCount
          /\ wake \in -Slack .. OfflineDuration
          /\ age \in 0 .. Lease + Slack
          /\ changed \in -1 .. Slack
      OBVIOUS
    <2> QED
      BY <2>1, <2>2
         DEF TypeOK, PubSteps, PubExits, SubSteps, SubExits, PubStores, Events, Phases
  <1>2. Stations /\ Before /\ Waiting
    BY DEF Stations, Before, Waiting, Early, ReaderExists
  <1>3. Beaconing /\ Silent /\ Signs
    BY DEF Beaconing, Silent, Signs, ReaderExists
  <1>4. Reported /\ Counted
    BY DEF Reported, Counted, ReaderExists
  <1> QED
    BY <1>1, <1>2, <1>3, <1>4 DEF IInv

\* Steps of the publisher's main thread that send no sign of life; a call of
\* its that fails is one.
LEMMA QuietPubMainInv ==
    ASSUME IInv,
           \/ PubCreate \/ PubAttach \/ PubAwaitReady \/ PubGoOffline \/ PubResumed
           \/ PubDrainEver \/ PubDrainCount \/ PubDeadline \/ PubCallFails
    PROVE  IInv'
  <1> USE Durations
      DEF IInv, TypeOK, PubSteps, PubExits, Early, ToldOfReader, Arriving, ReaderExists,
          ReaderGone, PubNext, Awake, flagVars, lifeVars, netVars, cycleVars, subVars
  <1>0. env.pub \in Ports
    BY EnvironmentPorts
  <1>1. CASE PubCreate
    BY <1>1, <1>0, PublisherSteps
       DEF PubCreate, Stations, Before, Waiting, Beaconing, Silent, Signs, Reported, Counted
  <1>2. CASE PubAttach
    <2>1. /\ pubPc = "attach" /\ pubPc' = "awaitReady"
          /\ UNCHANGED << env, pubCb, readerReady, everMatched, matchedCount, seq, wake,
                          recovered, netVars, subVars >>
      BY <1>2, <1>0, PublisherSteps DEF PubAttach
    <2>2. TypeOK' /\ Stations'
      BY <1>2, <2>1 DEF PubAttach, Stations
    <2>3. Before' /\ Waiting' /\ Beaconing' /\ Silent'
      BY <2>1 DEF Before, Waiting, Beaconing, Silent
    <2>4. Signs' /\ Reported' /\ Counted'
      BY <2>1 DEF Signs, Reported, Counted, Phases
    <2> QED
      BY <2>2, <2>3, <2>4
  <1>3. CASE PubAwaitReady
    <2>1. /\ pubPc = "awaitReady" /\ pubPc' = "online" /\ readerReady
          /\ UNCHANGED << env, flagVars, seq, wake, recovered, netVars, subVars >>
      <3>1. /\ pubPc = "awaitReady" /\ pubPc' = PublisherProgram[env.pub]["awaitReady"]
            /\ readerReady
            /\ UNCHANGED << env, flagVars, seq, wake, recovered, netVars, subVars >>
        BY <1>3, Zenon DEF PubAwaitReady, PubNext
      <3>2. PublisherProgram[env.pub]["awaitReady"] = "online"
        BY <1>0, PublisherSteps, Zenon
      <3> QED
        BY <3>1, <3>2, Zenon
    <2>0. link \in {"ready", "gone"} /\ wake = -Slack
      BY <2>1 DEF Stations, Before
    <2>2. ReaderExists => alive = 1 /\ age =< Slack
      BY <2>0, <2>1 DEF Stations, Waiting
    <2>3. TypeOK' /\ Stations'
      BY <2>1, <2>0 DEF Stations
    <2>4. Before' /\ Waiting' /\ Silent'
      BY <2>1 DEF Before, Waiting, Silent
    <2>5. Beaconing'
      <3>1. -Slack =< BeaconPeriod /\ BeaconPeriod - (-Slack) >= Slack
        OBVIOUS
      <3> QED
        BY <2>0, <2>1, <2>2, <3>1 DEF Beaconing
    <2>6. Signs' /\ Counted'
      BY <2>1 DEF Signs, Counted
    <2>7. Reported'
      BY <2>1 DEF Reported, Phases
    <2> QED
      BY <2>3, <2>4, <2>5, <2>6, <2>7
  <1>4. CASE PubGoOffline
    <2>1. /\ pubPc = "online" /\ pubPc' = "offline" /\ wake' = OfflineDuration
          /\ UNCHANGED << env, flagVars, seq, recovered, netVars, subVars >>
      BY <1>4, <1>0, PublisherSteps DEF PubGoOffline
    <2>2. TypeOK' /\ Stations'
      BY <2>1 DEF Stations
    <2>3. Before' /\ Waiting' /\ Beaconing'
      BY <2>1 DEF Before, Waiting, Beaconing
    <2>4. Silent'
      <3>1. OfflineDuration - OfflineDuration = 0
        OBVIOUS
      <3>2. \A a \in inFlight : a >= 0
        OBVIOUS
      <3>3. age + Slack >= 0
        OBVIOUS
      <3> QED
        BY <2>1, <3>1, <3>2, <3>3 DEF Silent
    <2>5. Signs' /\ Reported' /\ Counted'
      BY <2>1 DEF Signs, Reported, Counted
    <2> QED
      BY <2>2, <2>3, <2>4, <2>5
  <1>5. CASE PubResumed
    BY <1>5, <1>0, PublisherSteps
       DEF PubResumed, Stations, Before, Waiting, Beaconing, Silent, Signs, Reported,
           Counted
  <1>6. CASE PubDrainEver
    BY <1>6
       DEF PubDrainEver, Stations, Before, Waiting, Beaconing, Silent, Signs, Reported,
           Counted
  <1>7. CASE PubDrainCount
    BY <1>7, <1>0, PublisherSteps
       DEF PubDrainCount, Stations, Before, Waiting, Beaconing, Silent, Signs, Reported,
           Counted
  <1>8. CASE PubDeadline
    BY <1>8
       DEF PubDeadline, Stations, Before, Waiting, Beaconing, Silent, Signs, Reported,
           Counted
  <1>9. CASE PubCallFails
    BY <1>9
       DEF PubCallFails, Stations, Before, Waiting, Beaconing, Silent, Signs, Reported,
           Counted
  <1> QED
    BY <1>1, <1>2, <1>3, <1>4, <1>5, <1>6, <1>7, <1>8, <1>9

\* The publisher's dispatch thread keeps the invariant.
LEMMA PubListenerInv == ASSUME IInv, PubListener PROVE IInv'
  <1> USE Durations
      DEF IInv, TypeOK, PubSteps, PubExits, PubStores, Events, Early, ToldOfReader,
          Arriving, ReaderExists, ReaderGone, Stations, Before, Waiting, Beaconing,
          Silent, Signs, Reported, Counted, lifeVars, netVars, cycleVars, subVars
  <1>1. CASE PubDispatch
    BY <1>1 DEF PubDispatch
  <1>2. CASE OnReliableReaderReady
    BY <1>2 DEF OnReliableReaderReady
  <1>3. CASE OnPublicationMatched
    <2>1. CASE pubCb = "matchCount"
      BY <1>3, <2>1 DEF OnPublicationMatched
    <2>2. CASE pubCb = "matchEver"
      BY <1>3, <2>2 DEF OnPublicationMatched
    <2>3. CASE pubCb = "unmatchCount"
      BY <1>3, <2>3 DEF OnPublicationMatched
    <2> QED
      BY <1>3, <2>1, <2>2, <2>3 DEF OnPublicationMatched
  <1> QED
    BY <1>1, <1>2, <1>3 DEF PubListener

\* Writing a beacon keeps the invariant: the beacon is on its way at the moment
\* from which the next one is counted.
LEMMA BeaconInv == ASSUME IInv, PubOnline \/ PubResume PROVE IInv'
  <1> USE Durations
      DEF IInv, TypeOK, PubSteps, PubExits, Early, ToldOfReader, Arriving, ReaderExists,
          ReaderGone, Awake, SignOfLife, flagVars, lifeVars, netVars, cycleVars, subVars
  <1>1. /\ pubPc \in {"online", "resume"} /\ wake =< 0 /\ seq < 2 * BeaconCount
        /\ seq' = seq + 1 /\ wake' = BeaconPeriod
        /\ inFlight' = IF link = "ready" THEN inFlight \cup {0} ELSE inFlight
        /\ UNCHANGED << env, pubPc, flagVars, recovered, link, events, alive, age, subVars >>
    BY DEF PubOnline, PubResume, WriteBeacon
  <1>2. ReaderExists => link = "ready" /\ inFlight' = inFlight \cup {0}
    BY <1>1 DEF Stations, SubExits
  <1>3. ReaderExists /\ alive = 1 => Arriving'
    <2> SUFFICES ASSUME ReaderExists, alive = 1 PROVE Arriving'
      OBVIOUS
    <2>1. CASE Arriving
      BY <2>1, <1>1, <1>2
    <2>2. CASE age =< BeaconPeriod - wake
      <3>1. age' =< 0 + BeaconPeriod + Slack
        BY <2>2, <1>1
      <3> QED
        BY <3>1, <1>1, <1>2
    <2> QED
      BY <1>1, <2>1, <2>2 DEF Beaconing
  <1>4. TypeOK'
    <2>1. inFlight' \in SUBSET (0 .. Slack) /\ seq' \in 0 .. 2 * BeaconCount
          /\ wake' \in -Slack .. OfflineDuration
      BY <1>1
    <2> QED
      BY <1>1, <2>1
  <1>5. Stations' /\ Before' /\ Waiting' /\ Silent'
    BY <1>1 DEF Stations, Before, Waiting, Silent
  <1>6. Beaconing'
    BY <1>1, <1>2, <1>3 DEF Beaconing
  <1>7. Signs'
    <2>1. ReaderExists /\ alive = 0 => recovered
      BY <1>1 DEF Stations, Beaconing
    <2> QED
      BY <1>1, <1>3, <2>1 DEF Signs
  <1>8. Reported'
    BY <1>1 DEF Reported
  <1>9. Counted'
    <2>1. ReaderExists /\ alive = 0 => inFlight # {}
      BY <1>1 DEF Beaconing
    <2> QED
      BY <1>1, <2>1 DEF Counted
  <1> QED
    BY <1>4, <1>5, <1>6, <1>7, <1>8, <1>9

\* Asserting the writer's liveliness keeps the invariant: the reader has seen
\* the lease end.
LEMMA RecoverInv == ASSUME IInv, PubRecover PROVE IInv'
  <1>1. /\ pubPc = "offline" /\ pubPc' = "resume" /\ wake' = -Slack /\ recovered'
        /\ inFlight' = IF link = "ready" THEN inFlight \cup {0} ELSE inFlight
        /\ UNCHANGED << env, flagVars, seq, link, events, alive, age, subVars >>
    <2>1. PublisherProgram[env.pub]["offline"] = "resume"
      BY EnvironmentPorts, PublisherSteps DEF IInv
    <2> QED
      BY <2>1 DEF PubRecover, SignOfLife, PubNext
  <1>2. ReaderExists => alive = 0 /\ inFlight = {}
    BY DeadAfterSilence DEF PubRecover
  <1> USE Durations
      DEF IInv, TypeOK, PubSteps, PubExits, Early, ToldOfReader, Arriving, ReaderExists,
          ReaderGone, flagVars, lifeVars, netVars, cycleVars, subVars
  <1>3. ~recovered
    BY <1>1 DEF Stations
  <1>4. ReaderExists => link = "ready" /\ inFlight' = {0}
    BY <1>1, <1>2 DEF Stations, SubExits
  <1>5. TypeOK'
    <2>1. inFlight' \in SUBSET (0 .. Slack) /\ wake' \in -Slack .. OfflineDuration
      BY <1>1
    <2>2. recovered' \in BOOLEAN
      BY DEF PubRecover
    <2> QED
      BY <1>1, <2>1, <2>2
  <1>6. Stations' /\ Before' /\ Waiting' /\ Silent'
    BY <1>1 DEF Stations, Before, Waiting, Silent
  <1>7. Beaconing'
    BY <1>1, <1>2, <1>4 DEF Beaconing
  <1>8. Signs' /\ Reported'
    BY <1>1, <1>2 DEF Signs, Reported
  <1>9. Counted'
    BY <1>1, <1>2, <1>3 DEF Counted
  <1> QED
    BY <1>5, <1>6, <1>7, <1>8, <1>9

-----------------------------------------------------------------------------
\* The match and the handshake keep the invariant.
LEMMA MatchInv == ASSUME IInv, Match \/ Handshake PROVE IInv'
  <1> USE Durations
      DEF IInv, TypeOK, PubSteps, PubExits, Events, Early, ToldOfReader, Arriving,
          ReaderExists, ReaderGone, SubExits, Attached, WriterExists, Raise,
          LivelinessChanges, flagVars, pubVars, lifeVars, cycleVars, subVars
  <1>1. CASE Match
    <2>1. /\ link = "none" /\ link' = "matched" /\ alive' = 1 /\ age' = 0
          /\ pubPc \in {"attach", "awaitReady"} /\ ReaderExists /\ ~recovered
          /\ UNCHANGED << env, pubVars, inFlight, subPc, cycleVars >>
      BY <1>1 DEF Match, Stations
    <2>2. /\ phase = 0 /\ onlines = 0 /\ inFlight = {} /\ wake = -Slack
      BY <2>1 DEF Before
    <2>3. /\ changed' \in {changed, 0}
          /\ events' \in {events, events \cup {"matched"}}
      BY <1>1 DEF Match
    <2>4. TypeOK'
      BY <2>1, <2>2, <2>3
    <2>5. Stations' /\ Before'
      BY <2>1, <2>2, <2>3 DEF Stations, Before
    <2>6. Waiting' /\ Beaconing' /\ Silent' /\ Signs'
      BY <2>1, <2>2 DEF Waiting, Beaconing, Silent, Signs
    <2>7. Reported' /\ Counted'
      BY <2>1, <2>2 DEF Reported, Counted
    <2> QED
      BY <2>4, <2>5, <2>6, <2>7
  <1>2. CASE Handshake
    <2>1. /\ link = "matched" /\ link' = "ready" /\ ReaderExists /\ WriterExists
          /\ events' \in {events, events \cup {"ready"}}
          /\ env.replays => "ready" \in events'
          /\ UNCHANGED << env, pubVars, lifeVars, subVars >>
      BY <1>2 DEF Handshake
    <2>2. TypeOK' /\ Stations' /\ Before'
      BY <2>1 DEF Stations, Before
    <2>3. Waiting'
      BY <2>1 DEF Waiting
    <2>4. Beaconing' /\ Silent' /\ Signs'
      BY <2>1 DEF Beaconing, Silent, Signs
    <2>5. Reported'
      BY <2>1 DEF Reported, Phases
    <2>6. Counted'
      BY <2>1 DEF Counted
    <2> QED
      BY <2>2, <2>3, <2>4, <2>5, <2>6
  <1> QED
    BY <1>1, <1>2

\* A sign of life that arrives keeps the invariant.
LEMMA DeliverInv == ASSUME IInv, Deliver PROVE IInv'
  <1> USE Durations
      DEF IInv, TypeOK, PubSteps, PubExits, Early, ToldOfReader, Arriving, ReaderExists,
          ReaderGone, flagVars, pubVars, lifeVars, cycleVars
  <1>1. PICK a \in inFlight :
           /\ ReaderExists /\ inFlight' = inFlight \ {a} /\ alive' = 1 /\ age' = 0
           /\ UNCHANGED << env, pubVars, link, events, subPc, cycleVars >>
    BY DEF Deliver
  <1>2. /\ link # "none" /\ pubPc \notin Early
    BY <1>1 DEF Before
  <1>3. ~recovered => alive = 1
    BY <1>1 DEF Signs
  <1>4. alive = 1 => changed' = changed
    BY DEF Deliver
  <1>5. changed' \in {changed, 0}
    BY DEF Deliver, LivelinessChanges
  <1>6. TypeOK'
    BY <1>1, <1>5
  <1>7. Stations' /\ Before' /\ Waiting'
    BY <1>1, <1>2 DEF Stations, Before, Waiting
  <1>8. Beaconing'
    <2>1. wake =< BeaconPeriod => 0 =< BeaconPeriod - wake
      OBVIOUS
    <2> QED
      BY <1>1, <2>1 DEF Beaconing
  <1>9. Silent'
    <2>1. pubPc = "offline" => a >= OfflineDuration - wake /\ a =< Slack
      BY <1>1 DEF Silent
    <2>2. pubPc = "offline" => 0 + Slack >= OfflineDuration - wake
      BY <2>1
    <2> QED
      BY <1>1, <2>2 DEF Silent
  <1>10. Signs'
    <2>1. \A b \in inFlight' : age' =< b + BeaconPeriod + Slack
      BY <1>1
    <2> QED
      BY <1>1, <2>1 DEF Signs
  <1>11. Reported'
    BY <1>1, <1>2, <1>3 DEF Reported
  <1>12. Counted'
    <2>1. CASE recovered
      BY <1>1, <1>4, <2>1 DEF Counted
    <2>2. CASE ~recovered
      BY <1>1, <1>3, <1>4, <2>2 DEF Counted
    <2> QED
      BY <2>1, <2>2
  <1> QED
    BY <1>6, <1>7, <1>8, <1>9, <1>10, <1>11, <1>12

\* The end of a lease keeps the invariant: it comes in the silence, or after the
\* last beacon, with nothing on its way.
LEMMA ExpireInv == ASSUME IInv, Expire PROVE IInv'
  <1>1. /\ ReaderExists /\ alive = 1 /\ age >= Lease /\ alive' = 0 /\ age' = 0
        /\ changed' \in {changed, 0}
        /\ UNCHANGED << env, pubVars, link, events, inFlight, subPc, cycleVars >>
    BY DEF Expire, LivelinessChanges
  <1>2. TypeOK /\ age \in Nat /\ Lease \in Nat
    BY Durations DEF IInv, TypeOK
  <1>3. ~(age < Lease)
    BY <1>1, <1>2
  <1>4. inFlight = {}
    BY <1>1, <1>3, <1>2, ArrivesInTime DEF IInv, Signs
  <1>5. pubPc \notin {"online", "resume"}
    BY <1>1, <1>3, <1>2, NoExpiryWhileBeaconing DEF IInv
  <1> USE Durations
      DEF IInv, TypeOK, PubSteps, PubExits, Early, ToldOfReader, Arriving, ReaderExists,
          ReaderGone, flagVars, pubVars, lifeVars, cycleVars
  <1>6. TypeOK'
    BY <1>1
  <1>7. Stations' /\ Before'
    BY <1>1 DEF Stations, Before
  <1>8. Waiting'
    <2>1. ~(age =< Slack) /\ age # 0
      BY <1>1
    <2> QED
      BY <1>1, <2>1 DEF Waiting
  <1>9. Beaconing' /\ Silent' /\ Signs'
    BY <1>1, <1>4, <1>5 DEF Beaconing, Silent, Signs
  <1>10. Reported'
    BY <1>1 DEF Reported
  <1>11. Counted'
    BY <1>1, <1>4 DEF Counted
  <1> QED
    BY <1>6, <1>7, <1>8, <1>9, <1>10, <1>11

\* The reader's departure keeps the invariant.
LEMMA DepartInv == ASSUME IInv, Depart PROVE IInv'
  <1> USE Durations
      DEF IInv, TypeOK, PubSteps, PubExits, SubSteps, SubExits, Events, Early, ToldOfReader,
          Arriving, ReaderExists, ReaderGone, flagVars, pubVars, lifeVars, cycleVars, subVars
  <1>1. /\ link # "none" /\ link' = "gone" /\ ReaderGone /\ ~ReaderExists /\ WriterExists
        /\ events' \in {events, events \cup {"unmatched"}}
        /\ UNCHANGED << env, pubVars, lifeVars, subVars >>
    BY DEF Depart, Raise
  <1>2. TypeOK' /\ Stations' /\ Before'
    BY <1>1 DEF Stations, Before, WriterExists
  <1>3. Waiting' /\ Beaconing' /\ Silent' /\ Signs' /\ Reported' /\ Counted'
    <2>1. ToldOfReader' => \/ link = "matched" \/ ToldOfReader
      BY <1>1
    <2>2. Waiting' /\ Beaconing' /\ Silent' /\ Signs' /\ Counted'
      BY <1>1 DEF Waiting, Beaconing, Silent, Signs, Counted
    <2>3. Reported'
      BY <1>1, <2>1 DEF Reported
    <2> QED
      BY <2>2, <2>3
  <1> QED
    BY <1>2, <1>3

\* Time keeps the invariant: all that is counted in ticks moves together.
LEMMA TickInv == ASSUME IInv, Tick PROVE IInv'
  <1> USE Durations
      DEF IInv, TypeOK, PubSteps, PubExits, SubSteps, SubExits, Early, ToldOfReader,
          Arriving, ReaderExists, ReaderGone, Attached, Sleeping, flagVars, cycleVars
  <1>1. /\ pubPc # "attach" /\ subPc # "attach"
        /\ Sleeping => wake > -Slack
        /\ wake' = IF Sleeping THEN wake - 1 ELSE wake
        /\ UNCHANGED << env, pubPc, flagVars, seq, recovered, link, events, alive, subPc,
                        cycleVars >>
    BY DEF Tick, TimeMayPass
  <1>2. ReaderExists =>
          /\ Slack \notin inFlight
          /\ alive = 1 => age < Lease + Slack
          /\ Attached => changed < Slack
          /\ ~ReadyDue
          /\ inFlight' = {a + 1 : a \in inFlight}
          /\ age' = age + alive
          /\ changed' = IF Attached /\ changed >= 0 THEN changed + 1 ELSE changed
    BY DEF Tick, TimeMayPass
  <1>3. ~ReaderExists => UNCHANGED << inFlight, age, changed >>
    BY DEF Tick
  <1>4. ReaderExists /\ Arriving => Arriving' \/ alive = 0
    <2> SUFFICES ASSUME ReaderExists, Arriving, alive = 1 PROVE Arriving'
      OBVIOUS
    <2>1. PICK a \in inFlight : age =< a + BeaconPeriod + Slack
      OBVIOUS
    <2>2. a + 1 \in inFlight' /\ age' =< (a + 1) + BeaconPeriod + Slack
      BY <1>2, <2>1
    <2> QED
      BY <2>2
  <1>5. inFlight' # {} <=> inFlight # {}
    <2>1. CASE ReaderExists
      <3>1. inFlight' = {a + 1 : a \in inFlight}
        BY <1>2, <2>1
      <3>2. (\E b \in inFlight' : TRUE) <=> (\E a \in inFlight : TRUE)
        BY <3>1
      <3> QED
        BY <3>2
    <2>2. CASE ~ReaderExists
      BY <1>3, <2>2
    <2> QED
      BY <2>1, <2>2
  <1>6. TypeOK'
    <2>1. wake' \in -Slack .. OfflineDuration
      BY <1>1
    <2>2. /\ inFlight' \in SUBSET (0 .. Slack)
          /\ age' \in 0 .. Lease + Slack
          /\ changed' \in -1 .. Slack
      <3>1. CASE ReaderExists
        <4>1. \A a \in inFlight : a + 1 \in 0 .. Slack
          BY <1>2, <3>1
        <4>2. inFlight' \in SUBSET (0 .. Slack)
          BY <1>2, <3>1, <4>1
        <4>3. age' \in 0 .. Lease + Slack
          BY <1>2, <3>1
        <4>4. changed' \in -1 .. Slack
          BY <1>2, <3>1
        <4> QED
          BY <4>2, <4>3, <4>4
      <3>2. CASE ~ReaderExists
        BY <1>3, <3>2
      <3> QED
        BY <3>1, <3>2
    <2> QED
      BY <1>1, <2>1, <2>2
  <1>7. Stations'
    BY <1>1 DEF Stations
  <1>8. Before'
    <2>1. link = "none" => age' = age /\ changed' = -1
      BY <1>2, <1>3 DEF Before
    <2> QED
      BY <1>1, <1>5, <2>1 DEF Before
  <1>9. Waiting'
    <2> SUFFICES ASSUME pubPc = "awaitReady", ReaderExists, link # "none"
                 PROVE  Waiting'
      BY <1>1 DEF Waiting
    <2>1. ToldOfReader => alive = 1 /\ age + 1 =< Slack
      BY <1>2 DEF Waiting, ReadyDue
    <2> QED
      BY <1>1, <1>2, <2>1 DEF Waiting
  <1>10. Beaconing'
    <2> SUFFICES ASSUME pubPc \in {"online", "resume"} PROVE Beaconing'
      BY <1>1 DEF Beaconing
    <2>1. wake' = wake - 1 /\ wake =< BeaconPeriod
      BY <1>1 DEF Beaconing
    <2>2. ReaderExists /\ alive = 1 => age' =< BeaconPeriod - wake' \/ Arriving'
      <3> SUFFICES ASSUME ReaderExists, alive = 1, ~Arriving
                   PROVE  age' =< BeaconPeriod - wake'
        BY <1>4
      <3> QED
        BY <1>2, <2>1 DEF Beaconing
    <2>3. ReaderExists => /\ pubPc = "online" => alive = 1
                          /\ alive = 0 => inFlight # {}
      BY DEF Beaconing
    <2>4. wake' =< BeaconPeriod
      BY <2>1
    <2> QED
      BY <1>1, <1>5, <2>2, <2>3, <2>4 DEF Beaconing
  <1>11. Silent'
    <2> SUFFICES ASSUME pubPc = "offline", ReaderExists PROVE Silent'
      BY <1>1 DEF Silent
    <2>1. wake' = wake - 1
      BY <1>1
    <2>2. \A a \in inFlight' : a >= OfflineDuration - wake'
      BY <1>2, <2>1 DEF Silent
    <2>3. alive = 1 => age' + Slack >= OfflineDuration - wake'
      BY <1>2, <2>1 DEF Silent
    <2> QED
      BY <1>1, <2>2, <2>3 DEF Silent
  <1>12. Signs'
    <2>1. ReaderExists' <=> ReaderExists
      BY <1>1
    <2>2. ReaderExists /\ alive = 1 /\ inFlight # {} => Arriving'
      <3>1. ReaderExists /\ alive = 1 /\ inFlight # {} => Arriving
        BY Zenon DEF Signs, Arriving
      <3> QED
        BY <1>4, <3>1
    <2>3. ReaderExists /\ alive = 0 /\ ~recovered => inFlight = {}
      BY DEF Signs
    <2> QED
      BY <1>1, <1>5, <2>1, <2>2, <2>3 DEF Signs
  <1>13. Reported'
    BY <1>1 DEF Reported
  <1>14. Counted'
    <2>1. ReaderExists /\ changed = -1 => changed' = -1
      BY <1>2
    <2> QED
      BY <1>1, <1>5, <2>1 DEF Counted
  <1> QED
    BY <1>6, <1>7, <1>8, <1>9, <1>10, <1>11, <1>12, <1>13, <1>14

-----------------------------------------------------------------------------
\* The subscriber's main thread keeps the invariant, and so does a call that
\* fails in its process.
LEMMA SubMainInv == ASSUME IInv, SubMain \/ SubCallFails \/ TakeFails PROVE IInv'
  <1> USE Durations
      DEF IInv, TypeOK, PubSteps, PubExits, SubSteps, SubExits, Early, ToldOfReader,
          Arriving, ReaderExists, ReaderGone, flagVars, pubVars, lifeVars, netVars,
          cycleVars
  <1>0. env.sub \in Ports
    BY EnvironmentPorts
  <1>1. /\ UNCHANGED << env, pubVars, netVars, changed, cycleVars >>
        /\ \/ /\ subPc = "create"
              /\ subPc' \in {"attach", "await", "failed"}
              /\ subPc' = "attach" => env.sub # "zig"
           \/ subPc = "attach" /\ subPc' \in {"await", "failed"}
           \/ subPc = "await" /\ subPc' \in {"delete", "timeout", "failed"}
              /\ (subPc' = "delete" => cycleComplete)
           \/ /\ subPc = "delete"
              /\ subPc' \in {"leave", "ok", "failed"}
              /\ subPc' = "leave" => env.sub # "java"
           \/ subPc = "leave" /\ subPc' = "ok"
    <2>1. CASE SubStep
      <3>1. CASE subPc = "create"
        BY <2>1, <3>1, <1>0, SubscriberSteps DEF SubStep, SubNext
      <3>2. CASE subPc = "attach"
        BY <2>1, <3>2, <1>0, SubscriberSteps DEF SubStep, SubNext, Stations
      <3>3. CASE subPc = "delete"
        BY <2>1, <3>3, <1>0, SubscriberSteps DEF SubStep, SubNext
      <3>4. CASE subPc = "leave"
        BY <2>1, <3>4, <1>0, SubscriberSteps DEF SubStep, SubNext, Stations
      <3> QED
        BY <2>1, <3>1, <3>2, <3>3, <3>4 DEF SubStep
    <2>2. CASE SubAwait
      BY <2>2, <1>0, SubscriberSteps DEF SubAwait, SubNext
    <2>3. CASE SubDeadline
      BY <2>3 DEF SubDeadline
    <2>4. CASE SubCallFails
      BY <2>4 DEF SubCallFails
    <2>5. CASE TakeFails
      BY <2>5 DEF TakeFails, Attached
    <2> QED
      BY <2>1, <2>2, <2>3, <2>4, <2>5 DEF SubMain
  <1>2. CASE subPc = "create"
    <2>1. link = "none" /\ alive = 0 /\ phase = 0 /\ onlines = 0 /\ changed = -1 /\ inFlight = {}
      BY <1>2 DEF Stations, Before
    <2>2. ~recovered /\ pubPc \in Early \cup {"failed"}
      BY <2>1 DEF Stations
    <2>3. TypeOK' /\ Stations' /\ Before'
      BY <1>1, <1>2, <2>1 DEF Stations, Before
    <2>4. Waiting' /\ Beaconing' /\ Silent' /\ Signs'
      BY <1>1, <2>1, <2>2 DEF Waiting, Beaconing, Silent, Signs
    <2>5. Reported'
      BY <1>1, <1>2, <2>1 DEF Reported
    <2>6. Counted'
      BY <1>1, <2>1 DEF Counted
    <2> QED
      BY <2>3, <2>4, <2>5, <2>6
  <1>3. CASE subPc # "create"
    <2>1. ReaderExists' => ReaderExists
      BY <1>1, <1>3
    <2>2. TypeOK' /\ Stations' /\ Before'
      BY <1>1, <1>3 DEF Stations, Before
    <2>3. Waiting' /\ Beaconing' /\ Silent' /\ Signs'
      BY <1>1, <1>3 DEF Waiting, Beaconing, Silent, Signs
    <2>4. Reported'
      BY <1>1, <1>3 DEF Reported
    <2>5. Counted'
      BY <1>1, <1>3 DEF Counted
    <2> QED
      BY <2>2, <2>3, <2>4, <2>5
  <1> QED
    BY <1>2, <1>3

\* The phase machine, case by case.
LEMMA PhaseMachine ==
    ASSUME NEW p \in Phases, NEW a \in {0, 1}
    PROVE  (p < 3 /\ a = (p + 1) % 2) <=> ((p \in {0, 2} /\ a = 1) \/ (p = 1 /\ a = 0))
  <1>1. (0 + 1) % 2 = 1 /\ (1 + 1) % 2 = 0 /\ (2 + 1) % 2 = 1
    OBVIOUS
  <1> QED
    BY <1>1 DEF Phases

\* The callback keeps the invariant.
LEMMA CallbackInv == ASSUME IInv, OnLivelinessChanged PROVE IInv'
  <1> USE Durations
      DEF IInv, TypeOK, PubSteps, PubExits, SubSteps, SubExits, Early, ToldOfReader,
          Arriving, ReaderExists, ReaderGone, Attached, flagVars, pubVars, lifeVars, netVars
  <1>1. /\ ReaderExists /\ changed >= 0 /\ changed' = -1
        /\ onlines' = onlines + alive
        /\ phase' = IF phase < 3 /\ alive = (phase + 1) % 2 THEN phase + 1 ELSE phase
        /\ cycleComplete' = (cycleComplete \/ phase' = 3)
        /\ UNCHANGED << env, pubVars, netVars, subPc >>
    BY DEF OnLivelinessChanged
  <1>2. /\ phase \in {0, 2} /\ alive = 1 => phase' = phase + 1
        /\ phase = 1 /\ alive = 0 => phase' = 2
        /\ phase = 3 \/ (phase = 1 /\ alive = 1) \/ (phase \in {0, 2} /\ alive = 0)
              => phase' = phase
    BY <1>1, PhaseMachine DEF Phases
  <1>3. link # "none" /\ pubPc # "create"
    BY <1>1 DEF Before, Stations
  <1>4. TypeOK'
    <2>1. phase' \in Phases /\ onlines' \in Nat /\ changed' \in -1 .. Slack
      BY <1>1, <1>2 DEF Phases
    <2>2. cycleComplete' \in BOOLEAN
      <3>1. (cycleComplete \/ phase' = 3) \in BOOLEAN
        OBVIOUS
      <3> QED
        BY <1>1, <3>1, Zenon
    <2> QED
      BY <1>1, <2>1, <2>2
  <1>5. Stations' /\ Before' /\ Waiting' /\ Beaconing' /\ Silent' /\ Signs'
    BY <1>1, <1>3 DEF Stations, Before, Waiting, Beaconing, Silent, Signs
  <1>6. alive = 1 /\ ~recovered => phase = 0 /\ onlines = 0
    BY <1>1 DEF Counted
  <1>7. alive = 1 /\ recovered =>
          \/ phase = 0 /\ onlines = 0
          \/ phase \in {1, 2} /\ onlines = 1
    BY <1>1 DEF Counted
  <1>8. Reported'
    <2>1. ~recovered => phase' =< 2 /\ (phase' = 2 => alive = 0)
      BY <1>1, <1>2, <1>6 DEF Reported, Phases
    <2>2. pubPc \in {"attach", "online"} => phase' =< 1
      <3>1. pubPc \in {"attach", "online"} => alive = 1 /\ ~recovered
        BY <1>1, <1>3 DEF Waiting, Beaconing, Stations
      <3> QED
        BY <1>1, <1>2, <1>6, <3>1
    <2>3. pubPc = "awaitReady" /\ phase' >= 2 => ~env.replays /\ ~ToldOfReader
      <3>1. pubPc = "awaitReady" => ~recovered
        BY DEF Stations
      <3>2. pubPc = "awaitReady" /\ phase' >= 2 => alive = 0
        BY <1>2, <1>6, <3>1
      <3> QED
        BY <1>1, <1>3, <3>2 DEF Waiting
    <2>4. cycleComplete' => phase' = 3
      BY <1>1, <1>2 DEF Reported
    <2>5. subPc \in {"delete", "leave", "ok"} => cycleComplete'
      BY <1>1 DEF Reported
    <2> QED
      BY <1>1, <1>3, <2>1, <2>2, <2>3, <2>4, <2>5 DEF Reported
  <1>9. Counted'
    <2>1. phase' = 3 => onlines' = 2
      BY <1>1, <1>2, <1>6, <1>7 DEF Counted, Phases
    <2>2. CASE alive = 1
      BY <1>1, <1>2, <1>6, <1>7, <2>1, <2>2 DEF Counted
    <2>3. CASE alive = 0
      BY <1>1, <1>2, <2>1, <2>3 DEF Counted, Phases
    <2> QED
      BY <2>2, <2>3
  <1> QED
    BY <1>4, <1>5, <1>8, <1>9

\* A step that changes nothing keeps the invariant.
LEMMA StutterInv == ASSUME IInv, UNCHANGED vars PROVE IInv'
  BY DEF IInv, vars, TypeOK, Early, ToldOfReader, Arriving, ReaderExists, ReaderGone,
         Stations, Before, Waiting, Beaconing, Silent, Signs, Reported, Counted,
         flagVars, pubVars, lifeVars, netVars, cycleVars, subVars

\* IInv is an invariant of the pair.
LEMMA Invariance == Spec => []IInv
  <1>1. IInv /\ [Next]_vars => IInv'
    <2> SUFFICES ASSUME IInv, [Next]_vars PROVE IInv'
      OBVIOUS
    <2>1. CASE PubMain
      BY <2>1, QuietPubMainInv, BeaconInv, RecoverInv DEF PubMain
    <2>2. CASE PubListener
      BY <2>2, PubListenerInv
    <2>3. CASE Middleware
      BY <2>3, MatchInv, DeliverInv, ExpireInv, DepartInv DEF Middleware
    <2>4. CASE Tick
      BY <2>4, TickInv
    <2>5. CASE SubMain
      BY <2>5, SubMainInv
    <2>6. CASE OnLivelinessChanged
      BY <2>6, CallbackInv
    <2>7. CASE Failures
      BY <2>7, QuietPubMainInv, SubMainInv DEF Failures
    <2>8. CASE UNCHANGED vars
      BY <2>8, StutterInv
    <2> QED
      BY <2>1, <2>2, <2>3, <2>4, <2>5, <2>6, <2>7, <2>8 DEF Next
  <1> QED
    BY InitInv, <1>1, PTL DEF Spec

\* For all durations that satisfy TimingAssumption: the cycle the subscriber
\* reports is the one the publisher went through, and a subscriber that ends well
\* has printed ONLINE exactly twice.
THEOREM CycleAlwaysGenuine == Spec => []PresenceInv
  <1>1. IInv => PresenceInv
    <2> SUFFICES ASSUME IInv PROVE PresenceInv
      OBVIOUS
    <2>1. TypeOK
      BY DEF IInv
    <2>2. GenuineCycle
      <3>1. phase \in 0 .. 3
        BY DEF IInv, TypeOK, Phases
      <3> QED
        BY <3>1 DEF IInv, Reported, GenuineCycle
    <2>3. TwoOnlines
      BY DEF IInv, Reported, Counted, TwoOnlines
    <2> QED
      BY <2>1, <2>2, <2>3 DEF PresenceInv
  <1> QED
    BY <1>1, Invariance, PTL
=============================================================================
