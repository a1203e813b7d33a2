------------------------------ MODULE Registry ------------------------------
(***************************************************************************)
(* The registry pair: a publisher leads three instances through different  *)
(* lives (written twice and disposed; written and unregistered; written    *)
(* and left alive), and a subscriber follows each of them by the           *)
(* instance_state of what it takes, fails at once on a state the instance  *)
(* should not be in, and is complete when all three have got where they    *)
(* should.  The listener decides alone that the run is complete, but main  *)
(* deletes the reader as soon as it sees all_done.                         *)
(*                                                                         *)
(* When the publisher's process is gone, the middleware tells the reader   *)
(* that every instance still alive has lost its writer: the same state an  *)
(* unregistered instance is in.                                            *)
(***************************************************************************)
EXTENDS Integers, Sequences

CONSTANTS
    PublisherPorts,     \* the ports a behaviour may pick from
    SubscriberPorts

Ports == {"cpp", "c", "zig", "java"}

ASSUME PortsAssumption ==
    /\ PublisherPorts \subseteq Ports
    /\ SubscriberPorts \subseteq Ports

\* The three sensor_ids.
Sensors == {1, 2, 3}

\* What the publisher's calls do to its instances, in order.  Registering an
\* instance sends nothing.
Changes == << [sensor |-> 1, state |-> "alive"],
              [sensor |-> 1, state |-> "alive"],
              [sensor |-> 1, state |-> "disposed"],
              [sensor |-> 2, state |-> "alive"],
              [sensor |-> 2, state |-> "noWriters"],
              [sensor |-> 3, state |-> "alive"] >>

Total == Len(Changes)

(***************************************************************************)
(* The main programs: each record maps a step to the step that follows it. *)
(* Every subscriber creates its reader without a listener, makes the typed *)
(* reader the listener uses, and only then attaches the listener.  C++, C  *)
(* and Zig shut the middleware down before they exit ("leave").            *)
(***************************************************************************)
CppPublisher  == [create |-> "attach", attach |-> "awaitReady", awaitReady |-> "publish",
                  publish |-> "keyValue", keyValue |-> "drain", drain |-> "done"]
CPublisher    == [create |-> "attach", attach |-> "awaitReady", awaitReady |-> "publish",
                  publish |-> "keyValue", keyValue |-> "drain", drain |-> "done"]
ZigPublisher  == [create |-> "attach", attach |-> "awaitReady", awaitReady |-> "publish",
                  publish |-> "keyValue", keyValue |-> "drain", drain |-> "done"]
JavaPublisher == [create |-> "attach", attach |-> "awaitReady", awaitReady |-> "publish",
                  publish |-> "keyValue", keyValue |-> "drain", drain |-> "done"]

CppSubscriber  == [create |-> "attach", attach |-> "await", await |-> "delete",
                   delete |-> "leave", leave |-> "ok"]
CSubscriber    == [create |-> "attach", attach |-> "await", await |-> "delete",
                   delete |-> "leave", leave |-> "ok"]
ZigSubscriber  == [create |-> "attach", attach |-> "await", await |-> "delete",
                   delete |-> "leave", leave |-> "ok"]
JavaSubscriber == [create |-> "attach", attach |-> "await", await |-> "delete",
                   delete |-> "ok"]

PublisherProgram  == [cpp |-> CppPublisher, c |-> CPublisher,
                      zig |-> ZigPublisher, java |-> JavaPublisher]
SubscriberProgram == [cpp |-> CppSubscriber, c |-> CSubscriber,
                      zig |-> ZigSubscriber, java |-> JavaSubscriber]

VARIABLES
    env,            \* what this behaviour runs: see Environments
    \* publisher process
    pubPc,          \* main thread's step
    listening,      \* the extended listener is attached to the writer
    pubCb,          \* dispatch thread: "idle" or the store it is about to make
    readerReady,    \* PubState.reader_ready
    everMatched,    \* PubState.ever_matched
    matchedCount,   \* PubState.matched_current_count
    written,        \* changes made: Changes[1] .. Changes[written]
    \* middleware
    link,           \* the writer's view of the reader
    events,         \* status changes not yet handed to the writer's listener
    arrived,        \* changes up to this one have reached the reader's cache
    cache,          \* what the reader's cache holds of each instance
    current,        \* the state each instance is in for the reader
    \* subscriber process
    subPc,          \* main thread's step
    notified,       \* on_data_available is due
    subCb,          \* dispatch thread: "idle" or in the take loop
    taken,          \* changes taken so far
    seenAlive,      \* the instances whose seen_alive is set
    terminal,       \* the instances whose reached_terminal is set
    becameDone,     \* became_done of the latest callback
    lookups,        \* calls of lookup_instance
    allDone         \* SubState.all_done

pubVars == << pubPc, listening, pubCb, readerReady, everMatched, matchedCount, written >>
cacheVars == << arrived, cache, current >>
netVars == << link, events, cacheVars >>
trackVars == << seenAlive, terminal, lookups >>
subVars == << subPc, notified, subCb, taken, trackVars, becameDone, allDone >>
vars    == << env, pubVars, netVars, subVars >>

(***************************************************************************)
(* The environment of a behaviour: the ports; whether the middleware       *)
(* reports on attachment what happened while no listener was attached      *)
(* (replays); whether a sample carries the state its own change put the    *)
(* instance in, or the state the instance is in when it is taken (stamped);*)
(* and whether no deadline passes and no call fails (smooth).  The source  *)
(* settles neither of the middle two.                                      *)
(***************************************************************************)
Environments == [pub : PublisherPorts, sub : SubscriberPorts, replays : BOOLEAN,
                 stamped : BOOLEAN, smooth : BOOLEAN]

PubSteps  == {"create", "attach", "awaitReady", "publish", "keyValue", "drain", "drainCount"}
PubExits  == {"done", "failed"}
SubSteps  == {"create", "attach", "await", "delete", "leave"}
SubExits  == {"ok", "timeout", "illegal", "failed"}
PubStores == {"readyStore", "matchCount", "matchEver", "unmatchCount"}
Events    == {"ready", "matched", "unmatched"}

\* What a cache entry says of its instance; "lost" is the middleware's own
\* notice that the writer is gone.
Entries == {"alive", "disposed", "noWriters", "lost"}
States  == {"none", "alive", "disposed", "noWriters"}

PubRuns      == pubPc \notin PubExits
SubRuns      == subPc \notin SubExits
WriterExists == pubPc \notin {"create"} \cup PubExits
ReaderExists == subPc \in {"attach", "await", "delete"}
ReaderGone   == subPc \in {"leave"} \cup SubExits
Attached     == subPc \in {"await", "delete"}

PubNext(step) == pubPc' = PublisherProgram[env.pub][step]
SubNext(step) == subPc' = SubscriberProgram[env.sub][step]

Raise(e) == events' = IF listening \/ env.replays THEN events \cup {e} ELSE events

TypeOK ==
    /\ env \in Environments
    /\ pubPc \in PubSteps \cup PubExits
    /\ listening \in BOOLEAN
    /\ pubCb \in PubStores \cup {"idle"}
    /\ readerReady \in BOOLEAN
    /\ everMatched \in BOOLEAN
    /\ matchedCount \in {0, 1}
    /\ written \in 0 .. Total
    /\ link \in {"none", "matched", "ready", "gone"}
    /\ events \in SUBSET Events
    /\ arrived \in 0 .. Total
    /\ cache \in [Sensors -> Seq(Entries)]
    /\ current \in [Sensors -> States]
    /\ subPc \in SubSteps \cup SubExits
    /\ notified \in BOOLEAN
    /\ subCb \in {"idle", "take"}
    /\ taken \in 0 .. Total
    /\ seenAlive \in SUBSET Sensors
    /\ terminal \in SUBSET Sensors
    /\ becameDone \in BOOLEAN
    /\ lookups \in Nat
    /\ allDone \in BOOLEAN

Init ==
    /\ env \in Environments
    /\ pubPc = "create"
    /\ listening = FALSE
    /\ pubCb = "idle"
    /\ readerReady = FALSE
    /\ everMatched = FALSE
    /\ matchedCount = 0
    /\ written = 0
    /\ link = "none"
    /\ events = {}
    /\ arrived = 0
    /\ cache = [i \in Sensors |-> << >>]
    /\ current = [i \in Sensors |-> "none"]
    /\ subPc = "create"
    /\ notified = FALSE
    /\ subCb = "idle"
    /\ taken = 0
    /\ seenAlive = {}
    /\ terminal = {}
    /\ becameDone = FALSE
    /\ lookups = 0
    /\ allDone = FALSE
-----------------------------------------------------------------------------
(***************************************************************************)
(* Publisher, main thread.                                                 *)
(***************************************************************************)
\* create_datawriter, with no listener yet.
PubCreate ==
    /\ pubPc = "create"
    /\ PubNext("create")
    /\ UNCHANGED << env, listening, pubCb, readerReady, everMatched, matchedCount,
                    written, netVars, subVars >>

\* set_listener_ex.
PubAttach ==
    /\ pubPc = "attach"
    /\ listening' = TRUE
    /\ PubNext("attach")
    /\ UNCHANGED << env, pubCb, readerReady, everMatched, matchedCount, written,
                    netVars, subVars >>

\* The first poll that finds reader_ready set ends the wait.
PubAwaitReady ==
    /\ pubPc = "awaitReady"
    /\ readerReady
    /\ PubNext("awaitReady")
    /\ UNCHANGED << env, listening, pubCb, readerReady, everMatched, matchedCount,
                    written, netVars, subVars >>

\* The next write, dispose or unregister_instance; the last one ends the step.
PubPublish ==
    /\ pubPc = "publish"
    /\ written' = written + 1
    /\ IF written' = Total THEN PubNext("publish") ELSE UNCHANGED pubPc
    /\ UNCHANGED << env, listening, pubCb, readerReady, everMatched, matchedCount,
                    netVars, subVars >>

\* get_key_value on the disposed instance's handle.
PubKeyValue ==
    /\ pubPc = "keyValue"
    /\ PubNext("keyValue")
    /\ UNCHANGED << env, listening, pubCb, readerReady, everMatched, matchedCount,
                    written, netVars, subVars >>

\* ever_matched is loaded first ...
PubDrainEver ==
    /\ pubPc = "drain"
    /\ everMatched
    /\ pubPc' = "drainCount"
    /\ UNCHANGED << env, listening, pubCb, readerReady, everMatched, matchedCount,
                    written, netVars, subVars >>

\* ... and matched_current_count after it.
PubDrainCount ==
    /\ pubPc = "drainCount"
    /\ IF matchedCount = 0 THEN PubNext("drain") ELSE pubPc' = "drain"
    /\ UNCHANGED << env, listening, pubCb, readerReady, everMatched, matchedCount,
                    written, netVars, subVars >>

\* READER_READY_TIMEOUT_MS and DRAIN_TIMEOUT_MS.
PubDeadline ==
    /\ ~env.smooth
    /\ \/ pubPc = "awaitReady" /\ ~readerReady
       \/ pubPc = "drain" /\ ~everMatched
       \/ pubPc = "drainCount" /\ matchedCount # 0
    /\ pubPc' = "failed"
    /\ UNCHANGED << env, listening, pubCb, readerReady, everMatched, matchedCount,
                    written, netVars, subVars >>

\* A middleware call that fails, or a key that does not come back, ends the
\* process wherever the instances are then.
PubCallFails ==
    /\ ~env.smooth
    /\ pubPc \in {"create", "attach", "publish", "keyValue"}
    /\ pubPc' = "failed"
    /\ UNCHANGED << env, listening, pubCb, readerReady, everMatched, matchedCount,
                    written, netVars, subVars >>

PubMain ==
    \/ PubCreate
    \/ PubAttach
    \/ PubAwaitReady
    \/ PubPublish
    \/ PubKeyValue
    \/ PubDrainEver
    \/ PubDrainCount
    \/ PubDeadline
-----------------------------------------------------------------------------
(***************************************************************************)
(* Publisher, dispatch thread.                                             *)
(***************************************************************************)
PubDispatch ==
    /\ PubRuns
    /\ listening
    /\ pubCb = "idle"
    /\ \E e \in events :
        /\ e = "unmatched" => "matched" \notin events
        /\ events' = events \ {e}
        /\ pubCb' = [ready |-> "readyStore", matched |-> "matchCount",
                     unmatched |-> "unmatchCount"][e]
    /\ UNCHANGED << env, pubPc, listening, readerReady, everMatched, matchedCount,
                    written, link, cacheVars, subVars >>

\* on_reliable_reader_ready with is_ready true.
OnReliableReaderReady ==
    /\ PubRuns
    /\ pubCb = "readyStore"
    /\ readerReady' = TRUE
    /\ pubCb' = "idle"
    /\ UNCHANGED << env, pubPc, listening, everMatched, matchedCount, written,
                    netVars, subVars >>

\* on_publication_matched: matched_current_count first, then, for a count
\* above zero, ever_matched.
OnPublicationMatched ==
    /\ PubRuns
    /\ \/ /\ pubCb = "matchCount"
          /\ matchedCount' = 1
          /\ pubCb' = "matchEver"
          /\ UNCHANGED everMatched
       \/ /\ pubCb = "matchEver"
          /\ everMatched' = TRUE
          /\ pubCb' = "idle"
          /\ UNCHANGED matchedCount
       \/ /\ pubCb = "unmatchCount"
          /\ matchedCount' = 0
          /\ pubCb' = "idle"
          /\ UNCHANGED everMatched
    /\ UNCHANGED << env, pubPc, listening, readerReady, written, netVars, subVars >>

PubListener == PubDispatch \/ OnReliableReaderReady \/ OnPublicationMatched
-----------------------------------------------------------------------------
(***************************************************************************)
(* Middleware (external): RELIABLE and KEEP_ALL, volatile.                 *)
(***************************************************************************)
Match ==
    /\ link = "none"
    /\ WriterExists
    /\ ReaderExists
    /\ link' = "matched"
    /\ Raise("matched")
    /\ UNCHANGED << env, pubVars, cacheVars, subVars >>

\* The reader's first acknowledgement makes it a ready reliable reader.
Handshake ==
    /\ link = "matched"
    /\ WriterExists
    /\ ReaderExists
    /\ link' = "ready"
    /\ Raise("ready")
    /\ UNCHANGED << env, pubVars, cacheVars, subVars >>

\* The reader's cache has something new; a listener that is not attached yet
\* hears of it on attachment or not at all.
NotifyReader == notified' = (notified \/ Attached \/ env.replays)

\* Changes arrive in the order they were made.
Deliver ==
    /\ link = "ready"
    /\ WriterExists
    /\ ReaderExists
    /\ arrived < written
    /\ LET change == Changes[arrived + 1]
       IN  /\ cache' = [cache EXCEPT ![change.sensor] = Append(@, change.state)]
           /\ current' = [current EXCEPT ![change.sensor] = change.state]
    /\ arrived' = arrived + 1
    /\ NotifyReader
    /\ UNCHANGED << env, pubVars, link, events, subPc, subCb, taken, trackVars,
                    becameDone, allDone >>

\* The publisher's process is gone: instances that were alive lose their
\* writer.  Changes that have not arrived never will.
WriterLost ==
    /\ ~PubRuns
    /\ ReaderExists
    /\ \E i \in Sensors : current[i] = "alive"
    /\ cache' = [i \in Sensors |-> IF current[i] = "alive" THEN Append(cache[i], "lost")
                                                           ELSE cache[i]]
    /\ current' = [i \in Sensors |-> IF current[i] = "alive" THEN "noWriters"
                                                             ELSE current[i]]
    /\ NotifyReader
    /\ UNCHANGED << env, pubVars, link, events, arrived, subPc, subCb, taken, trackVars,
                    becameDone, allDone >>

Depart ==
    /\ link \in {"matched", "ready"}
    /\ WriterExists
    /\ ReaderGone
    /\ link' = "gone"
    /\ Raise("unmatched")
    /\ UNCHANGED << env, pubVars, cacheVars, subVars >>

Middleware == Match \/ Handshake \/ Deliver \/ WriterLost \/ Depart
-----------------------------------------------------------------------------
(***************************************************************************)
(* Subscriber, main thread.                                                *)
(***************************************************************************)
\* create_datareader without a listener, and the typed reader made from it;
\* set_listener, delete_datareader, and the shutdown of the middleware.
SubStep ==
    /\ subPc \in {"create", "attach", "delete", "leave"}
    /\ SubNext(subPc)
    /\ UNCHANGED << env, pubVars, netVars, notified, subCb, taken, trackVars,
                    becameDone, allDone >>

\* The first poll that finds all_done set ends the wait.
SubAwait ==
    /\ subPc = "await"
    /\ allDone
    /\ SubNext("await")
    /\ UNCHANGED << env, pubVars, netVars, notified, subCb, taken, trackVars,
                    becameDone, allDone >>

\* RECEIVE_TIMEOUT_MS.
SubDeadline ==
    /\ ~env.smooth
    /\ subPc = "await"
    /\ ~allDone
    /\ subPc' = "timeout"
    /\ UNCHANGED << env, pubVars, netVars, notified, subCb, taken, trackVars,
                    becameDone, allDone >>

\* create_datareader or set_listener fails.
SubCallFails ==
    /\ ~env.smooth
    /\ subPc \in {"create", "attach"}
    /\ subPc' = "failed"
    /\ UNCHANGED << env, pubVars, netVars, notified, subCb, taken, trackVars,
                    becameDone, allDone >>

SubMain == SubStep \/ SubAwait \/ SubDeadline
-----------------------------------------------------------------------------
(***************************************************************************)
(* Subscriber, dispatch thread: on_data_available.  The tracks are touched *)
(* by this thread only, so one turn of the take loop is one step.          *)
(***************************************************************************)
OnDataAvailable ==
    /\ ReaderExists
    /\ Attached
    /\ notified
    /\ subCb = "idle"
    /\ notified' = FALSE
    /\ becameDone' = FALSE
    /\ subCb' = "take"
    /\ UNCHANGED << env, pubVars, netVars, subPc, taken, trackVars, allDone >>

\* The instance_state of instance i's next sample.
SampleState(i) ==
    CASE ~env.stamped            -> current[i]
      [] Head(cache[i]) = "lost" -> "noWriters"
      [] OTHER                   -> Head(cache[i])

\* Fault: the instances' ends are mixed up.
Legal_Faulty(i, state) ==
    \/ state = "alive"
    \/ state = "disposed"  /\ i = 2 /\ i \in seenAlive
    \/ state = "noWriters" /\ i = 1 /\ i \in seenAlive

\* The states the listener accepts: only instance 1 may be disposed and only
\* instance 2 may lose its writer, each after it has been seen alive.
Legal(i, state) ==
    \/ state = "alive"
    \/ state = "disposed"  /\ i = 1 /\ i \in seenAlive
    \/ state = "noWriters" /\ i = 2 /\ i \in seenAlive

\* Fault: became_done is not looked at.
LookupAsked_Faulty == IF env.sub = "zig" THEN lookups > 0 ELSE allDone

\* The round trip has been made: Zig keeps lookup_checked for this, the other
\* ports look at all_done and became_done.
LookupAsked == IF env.sub = "zig" THEN lookups > 0 ELSE allDone \/ becameDone

\* Fault: instance 3 is not asked for.
AllInstancesDone_Faulty(ended) == {1, 2} \subseteq ended

\* all_instances_done.
AllInstancesDone(ended) == ended = Sensors

\* Fault: all_done is stored inside the loop.
TakeSample_Faulty ==
    /\ SubRuns
    /\ subCb = "take"
    /\ ReaderExists
    /\ \E i \in Sensors :
        /\ cache[i] # << >>
        /\ Legal(i, SampleState(i))
        /\ cache' = [cache EXCEPT ![i] = Tail(@)]
        /\ taken' = IF Head(cache[i]) = "lost" THEN taken ELSE taken + 1
        /\ seenAlive' = IF SampleState(i) = "alive" THEN seenAlive \cup {i} ELSE seenAlive
        /\ terminal' = IF SampleState(i) # "alive" \/ i = 3 THEN terminal \cup {i} ELSE terminal
        /\ LET completes == AllInstancesDone(terminal') /\ ~LookupAsked
           IN  /\ lookups' = IF completes THEN lookups + 1 ELSE lookups
               /\ becameDone' = (becameDone \/ completes)
               /\ allDone' = (allDone \/ completes)
    /\ UNCHANGED << env, pubVars, link, events, arrived, current, subPc, notified, subCb >>

\* The next sample of some instance, in a state it may be in.  A first ALIVE
\* sample is all instance 3 ever gets, so it ends with that one.  The turn
\* that finds all three instances at their ends looks instance 3 up.
TakeSample ==
    /\ SubRuns
    /\ subCb = "take"
    /\ ReaderExists
    /\ \E i \in Sensors :
        /\ cache[i] # << >>
        /\ Legal(i, SampleState(i))
        /\ cache' = [cache EXCEPT ![i] = Tail(@)]
        /\ taken' = IF Head(cache[i]) = "lost" THEN taken ELSE taken + 1
        /\ seenAlive' = IF SampleState(i) = "alive" THEN seenAlive \cup {i} ELSE seenAlive
        /\ terminal' = IF SampleState(i) # "alive" \/ i = 3 THEN terminal \cup {i} ELSE terminal
        /\ LET completes == AllInstancesDone(terminal') /\ ~LookupAsked
           IN  /\ lookups' = IF completes THEN lookups + 1 ELSE lookups
               /\ becameDone' = (becameDone \/ completes)
    /\ UNCHANGED << env, pubVars, link, events, arrived, current, subPc, notified, subCb,
                    allDone >>

\* A sample in any other state ends the process from the listener.
TakeIllegal ==
    /\ SubRuns
    /\ subCb = "take"
    /\ ReaderExists
    /\ \E i \in Sensors : cache[i] # << >> /\ ~Legal(i, SampleState(i))
    /\ subPc' = "illegal"
    /\ UNCHANGED << env, pubVars, netVars, notified, subCb, taken, trackVars,
                    becameDone, allDone >>

\* take returns an error, the sample is of no known sensor, or lookup_instance
\* does not find instance 3 under its own handle: the listener ends the process.
TakeFails ==
    /\ ~env.smooth
    /\ subCb = "take"
    /\ ReaderExists
    /\ subPc' = "failed"
    /\ UNCHANGED << env, pubVars, netVars, notified, subCb, taken, trackVars,
                    becameDone, allDone >>

\* Fault: became_done is forgotten.
TakeNoData_Faulty ==
    /\ SubRuns
    /\ subCb = "take"
    /\ ReaderExists => \A i \in Sensors : cache[i] = << >>
    /\ subCb' = "idle"
    /\ UNCHANGED << env, pubVars, netVars, subPc, notified, taken, trackVars, becameDone,
                    allDone >>

\* No data, also for a take beside delete_datareader; only then is all_done
\* stored.
TakeNoData ==
    /\ SubRuns
    /\ subCb = "take"
    /\ ReaderExists => \A i \in Sensors : cache[i] = << >>
    /\ allDone' = (allDone \/ becameDone)
    /\ subCb' = "idle"
    /\ UNCHANGED << env, pubVars, netVars, subPc, notified, taken, trackVars, becameDone >>

SubListener == OnDataAvailable \/ TakeSample \/ TakeIllegal \/ TakeNoData
-----------------------------------------------------------------------------
\* Calls may fail; nothing makes them.
Failures == PubCallFails \/ SubCallFails \/ TakeFails

Next == PubMain \/ PubListener \/ Middleware \/ SubMain \/ SubListener \/ Failures

\* Threads are scheduled, polls are repeated, and the middleware gets round to
\* every match, handshake, delivery and departure.  That a lost publisher is
\* noticed in time is not assumed.
Fairness ==
    /\ WF_vars(PubMain)
    /\ WF_vars(PubListener)
    /\ WF_vars(Match)
    /\ WF_vars(Handshake)
    /\ WF_vars(Deliver)
    /\ WF_vars(Depart)
    /\ WF_vars(SubMain)
    /\ WF_vars(SubListener)

Spec == Init /\ [][Next]_vars

FairSpec == Spec /\ Fairness
-----------------------------------------------------------------------------
(***************************************************************************)
(* Properties.                                                             *)
(***************************************************************************)
\* The listener's fail-fast checks raise no false alarm: with samples that
\* carry their own state, and whatever the order in which instances are taken,
\* the subscriber exits on an illegal state only if the publisher has failed.
NoFalseAlarm == (env.stamped /\ subPc = "illegal") => pubPc = "failed"

\* The lookup_instance round trip is made once, although the condition it is
\* made under stays true for every later sample.
LookedUpOnce == lookups <= 1

\* The variables stay in their ranges, and the round trip is never repeated.
RegistryInv == TypeOK /\ LookedUpOnce

\* main never deletes the reader under the invocation that completed the run:
\* the invocation that sets became_done has left its take loop before.
CompletingCallOver == (subPc \in {"delete", "leave", "ok"} /\ becameDone) => subCb = "idle"

\* The pair keeps the promise of a handover: the subscriber is complete only
\* with all six changes (taken, or with samples that carry the instance's
\* current state at least arrived), although a publisher that fails halfway
\* puts instances in a state that looks like an end.
Promise == INSTANCE Handover WITH
    Total      <- Total,
    sent       <- written,
    received   <- IF env.stamped THEN taken ELSE arrived,
    publisher  <- IF PubRuns THEN "running" ELSE pubPc,
    subscriber <- IF subPc \in {"leave", "ok"} THEN "complete"
                  ELSE IF SubRuns THEN "running" ELSE "failed"

KeepsPromise == Promise!Spec

\* The example is deterministic, as its design document says, given samples
\* that carry their own state and a listener that is told what it missed:
\* without deadlines and failures every schedule ends well on both sides.
BothSucceed ==
    (env.smooth /\ env.replays /\ env.stamped) => <>(pubPc = "done" /\ subPc = "ok")
=============================================================================
