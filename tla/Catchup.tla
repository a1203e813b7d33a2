------------------------------ MODULE Catchup -------------------------------
(***************************************************************************)
(* The catchup pair: a publisher writes a historical batch that nobody is  *)
(* listening to, waits for a reader to match and writes a live batch; a    *)
(* late subscriber blocks in wait_for_historical_data, confirms the        *)
(* historical batch and goes on until it has the live one.                 *)
(*                                                                         *)
(* The subscriber's two threads decide together when it is finished: main  *)
(* stores historical_confirmed and then looks at the live flags, the       *)
(* listener stores a live flag and then looks at historical_confirmed.     *)
(* C, C++ and Java do so with sequentially consistent atomics.  Zig uses   *)
(* release stores and acquire loads, which let a thread's store become     *)
(* visible to the other one after the loads that follow it.                *)
(***************************************************************************)
EXTENDS Integers

CONSTANTS
    HistoricalCount,    \* HISTORICAL_COUNT
    LiveCount,          \* LIVE_COUNT
    PublisherPorts,     \* the ports a behaviour may pick from
    SubscriberPorts

ASSUME HistoricalAssumption == HistoricalCount \in Nat \ {0}
ASSUME LiveAssumption == LiveCount \in Nat \ {0}

Total == HistoricalCount + LiveCount

Ports == {"cpp", "c", "zig", "java"}

ASSUME PortsAssumption ==
    /\ PublisherPorts \subseteq Ports
    /\ SubscriberPorts \subseteq Ports

(***************************************************************************)
(* The main programs: each record maps a step to the step that follows it. *)
(* C destroys the factory before main returns, Zig and C++ leave scopes    *)
(* that do the same; Java leaves the middleware running.                   *)
(***************************************************************************)
CppPublisher  == [create |-> "attach", attach |-> "historical", historical |-> "awaitMatch",
                  awaitMatch |-> "live", live |-> "drain", drain |-> "done"]
CPublisher    == [create |-> "attach", attach |-> "historical", historical |-> "awaitMatch",
                  awaitMatch |-> "live", live |-> "drain", drain |-> "done"]
ZigPublisher  == [create |-> "attach", attach |-> "historical", historical |-> "awaitMatch",
                  awaitMatch |-> "live", live |-> "drain", drain |-> "done"]
JavaPublisher == [create |-> "attach", attach |-> "historical", historical |-> "awaitMatch",
                  awaitMatch |-> "live", live |-> "drain", drain |-> "done"]

CppSubscriber  == [create |-> "attach", attach |-> "history", history |-> "count",
                   count |-> "confirm", confirm |-> "recheck", recheck |-> "await",
                   await |-> "delete", delete |-> "leave", leave |-> "ok"]
CSubscriber    == [create |-> "attach", attach |-> "history", history |-> "count",
                   count |-> "confirm", confirm |-> "recheck", recheck |-> "await",
                   await |-> "delete", delete |-> "leave", leave |-> "ok"]
ZigSubscriber  == [create |-> "attach", attach |-> "history", history |-> "count",
                   count |-> "confirm", confirm |-> "recheck", recheck |-> "await",
                   await |-> "delete", delete |-> "leave", leave |-> "ok"]
JavaSubscriber == [create |-> "attach", attach |-> "history", history |-> "count",
                   count |-> "confirm", confirm |-> "recheck", recheck |-> "await",
                   await |-> "delete", delete |-> "ok"]

PublisherProgram  == [cpp |-> CppPublisher, c |-> CPublisher,
                      zig |-> ZigPublisher, java |-> JavaPublisher]
SubscriberProgram == [cpp |-> CppSubscriber, c |-> CSubscriber,
                      zig |-> ZigSubscriber, java |-> JavaSubscriber]

VARIABLES
    env,            \* what this behaviour runs: see Environments
    \* publisher process
    pubPc,          \* main thread's step
    listening,      \* the listener is attached to the writer
    pubCb,          \* dispatch thread: "idle" or the store it is about to make
    everMatched,    \* PubState.ever_matched
    matchedCount,   \* PubState.matched_current_count
    written,        \* samples written: seq_num 0 .. written-1
    \* middleware
    link,           \* the writer's view of the reader
    events,         \* match changes not yet handed to the writer's listener
    history,        \* what the writer's cache held when the reader matched
    arrived,        \* samples below this have reached the reader's cache
    \* subscriber process
    subPc,          \* main thread's step
    notified,       \* on_data_available is due
    subCb,          \* dispatch thread: "idle" or its step in on_data_available
    taken,          \* samples below this have left the reader's cache
    becameDone,     \* became_done of the callback in progress
    recorded,       \* the received flags below this are stored by the listener
    recordedSeen,   \* ... and visible to main
    confirmed,      \* historical_confirmed is stored by main
    confirmedSeen,  \* ... and visible to the listener
    allDone         \* SubState.all_done

pubVars == << pubPc, listening, pubCb, everMatched, matchedCount, written >>
netVars == << link, events, history, arrived >>
listenerVars == << notified, subCb, taken, becameDone, recorded >>
seenVars     == << recordedSeen, confirmedSeen >>
subVars == << subPc, listenerVars, seenVars, confirmed, allDone >>
vars    == << env, pubVars, netVars, subVars >>

(***************************************************************************)
(* The environment of a behaviour: the ports; whether the subscriber       *)
(* starts after the historical batch is written (ordered), as the smoke    *)
(* test arranges with a head start; whether the middleware reports on      *)
(* attachment what happened while no listener was attached (replays),      *)
(* which the source does not settle; and whether no deadline passes and no *)
(* call fails (smooth).                                                    *)
(***************************************************************************)
Environments == [pub : PublisherPorts, sub : SubscriberPorts, ordered : BOOLEAN,
                 replays : BOOLEAN, smooth : BOOLEAN]

PubSteps == {"create", "attach", "historical", "awaitMatch", "live", "drain", "drainCount"}
PubExits == {"done", "failed"}
SubSteps == {"create", "attach", "history", "count", "confirm", "recheck", "await",
             "delete", "leave"}
SubExits == {"ok", "timeout", "short", "failed"}

PubRuns      == pubPc \notin PubExits
SubRuns      == subPc \notin SubExits
WriterExists == pubPc \notin {"create"} \cup PubExits
ReaderExists == subPc \in SubSteps \ {"create", "leave"}
ReaderGone   == subPc \in {"leave"} \cup SubExits

\* The subscriber's listener is attached.
Attached     == subPc \in SubSteps \ {"create", "attach", "leave"}

PubNext(step) == pubPc' = PublisherProgram[env.pub][step]
SubNext(step) == subPc' = SubscriberProgram[env.sub][step]

Raise(e) == events' = IF listening \/ env.replays THEN events \cup {e} ELSE events

TypeOK ==
    /\ env \in Environments
    /\ pubPc \in PubSteps \cup PubExits
    /\ listening \in BOOLEAN
    /\ pubCb \in {"idle", "matchCount", "matchEver", "unmatchCount"}
    /\ everMatched \in BOOLEAN
    /\ matchedCount \in {0, 1}
    /\ written \in 0 .. Total
    /\ link \in {"none", "matched", "gone"}
    /\ events \in SUBSET {"matched", "unmatched"}
    /\ history \in 0 .. Total
    /\ arrived \in 0 .. Total
    /\ subPc \in SubSteps \cup SubExits
    /\ notified \in BOOLEAN
    /\ subCb \in {"idle", "take", "record", "test"}
    /\ taken \in 0 .. Total
    /\ becameDone \in BOOLEAN
    /\ recorded \in 0 .. Total
    /\ recordedSeen \in 0 .. Total
    /\ confirmed \in BOOLEAN
    /\ confirmedSeen \in BOOLEAN
    /\ allDone \in BOOLEAN

Init ==
    /\ env \in Environments
    /\ pubPc = "create"
    /\ listening = FALSE
    /\ pubCb = "idle"
    /\ everMatched = FALSE
    /\ matchedCount = 0
    /\ written = 0
    /\ link = "none"
    /\ events = {}
    /\ history = 0
    /\ arrived = 0
    /\ subPc = "create"
    /\ notified = FALSE
    /\ subCb = "idle"
    /\ taken = 0
    /\ becameDone = FALSE
    /\ recorded = 0
    /\ recordedSeen = 0
    /\ confirmed = FALSE
    /\ confirmedSeen = FALSE
    /\ allDone = FALSE
-----------------------------------------------------------------------------
(***************************************************************************)
(* Publisher, main thread.                                                 *)
(***************************************************************************)
PubCreate ==
    /\ pubPc = "create"
    /\ PubNext("create")
    /\ UNCHANGED << env, listening, pubCb, everMatched, matchedCount, written,
                    netVars, subVars >>

PubAttach ==
    /\ pubPc = "attach"
    /\ listening' = TRUE
    /\ PubNext("attach")
    /\ UNCHANGED << env, pubCb, everMatched, matchedCount, written, netVars, subVars >>

\* One turn of a write loop that runs up to count end, and the loop's end.
WriteUpTo(step, end) ==
    /\ pubPc = step
    /\ IF written < end
       THEN written' = written + 1 /\ UNCHANGED pubPc
       ELSE PubNext(step) /\ UNCHANGED written
    /\ UNCHANGED << env, listening, pubCb, everMatched, matchedCount, netVars, subVars >>

\* Written at once, matched or not.
PubWriteHistorical == WriteUpTo("historical", HistoricalCount)

\* The first poll that finds ever_matched set ends the wait.
PubAwaitMatch ==
    /\ pubPc = "awaitMatch"
    /\ everMatched
    /\ PubNext("awaitMatch")
    /\ UNCHANGED << env, listening, pubCb, everMatched, matchedCount, written,
                    netVars, subVars >>

PubWriteLive == WriteUpTo("live", Total)

\* The drain loop loads ever_matched first ...
PubDrainEver ==
    /\ pubPc = "drain"
    /\ everMatched
    /\ pubPc' = "drainCount"
    /\ UNCHANGED << env, listening, pubCb, everMatched, matchedCount, written,
                    netVars, subVars >>

\* Fault: the drain loop ends whatever the count.
PubDrainCount_Faulty ==
    /\ pubPc = "drainCount"
    /\ PubNext("drain")
    /\ UNCHANGED << env, listening, pubCb, everMatched, matchedCount, written,
                    netVars, subVars >>

\* ... and matched_current_count after it.
PubDrainCount ==
    /\ pubPc = "drainCount"
    /\ IF matchedCount = 0 THEN PubNext("drain") ELSE pubPc' = "drain"
    /\ UNCHANGED << env, listening, pubCb, everMatched, matchedCount, written,
                    netVars, subVars >>

\* MATCH_TIMEOUT_MS and DRAIN_TIMEOUT_MS.
PubDeadline ==
    /\ ~env.smooth
    /\ \/ pubPc \in {"awaitMatch", "drain"} /\ ~everMatched
       \/ pubPc = "drainCount" /\ matchedCount # 0
    /\ pubPc' = "failed"
    /\ UNCHANGED << env, listening, pubCb, everMatched, matchedCount, written,
                    netVars, subVars >>

\* create_datawriter, set_listener or write fails.
PubCallFails ==
    /\ ~env.smooth
    /\ \/ pubPc \in {"create", "attach"}
       \/ pubPc = "historical" /\ written < HistoricalCount
       \/ pubPc = "live" /\ written < Total
    /\ pubPc' = "failed"
    /\ UNCHANGED << env, listening, pubCb, everMatched, matchedCount, written,
                    netVars, subVars >>

PubMain ==
    \/ PubCreate
    \/ PubAttach
    \/ PubWriteHistorical
    \/ PubAwaitMatch
    \/ PubWriteLive
    \/ PubDrainEver
    \/ PubDrainCount
    \/ PubDeadline
-----------------------------------------------------------------------------
(***************************************************************************)
(* Publisher, dispatch thread.                                             *)
(***************************************************************************)
PubDispatch ==
    /\ PubRuns
    /\ listening
    /\ pubCb = "idle"
    /\ \E e \in events :
        /\ e = "unmatched" => "matched" \notin events
        /\ events' = events \ {e}
        /\ pubCb' = [matched |-> "matchCount", unmatched |-> "unmatchCount"][e]
    /\ UNCHANGED << env, pubPc, listening, everMatched, matchedCount, written,
                    link, history, arrived, subVars >>

\* on_publication_matched: matched_current_count first, then, for a count
\* above zero, ever_matched.
OnPublicationMatched ==
    /\ PubRuns
    /\ \/ /\ pubCb = "matchCount"
          /\ matchedCount' = 1
          /\ pubCb' = "matchEver"
          /\ UNCHANGED everMatched
       \/ /\ pubCb = "matchEver"
          /\ everMatched' = TRUE
          /\ pubCb' = "idle"
          /\ UNCHANGED matchedCount
       \/ /\ pubCb = "unmatchCount"
          /\ matchedCount' = 0
          /\ pubCb' = "idle"
          /\ UNCHANGED everMatched
    /\ UNCHANGED << env, pubPc, listening, written, netVars, subVars >>

PubListener == PubDispatch \/ OnPublicationMatched
-----------------------------------------------------------------------------
(***************************************************************************)
(* Middleware (external).  TRANSIENT_LOCAL, RELIABLE and KEEP_ALL: the     *)
(* reader gets what the writer's cache holds and then all that follows.    *)
(***************************************************************************)
Match ==
    /\ link = "none"
    /\ WriterExists
    /\ ReaderExists
    /\ link' = "matched"
    /\ history' = written
    /\ Raise("matched")
    /\ UNCHANGED << env, pubVars, arrived, subVars >>

\* A sample that arrives before the listener is attached is reported on
\* attachment or not at all.
Deliver ==
    /\ link = "matched"
    /\ WriterExists
    /\ ReaderExists
    /\ arrived < written
    /\ arrived' = arrived + 1
    /\ notified' = (notified \/ Attached \/ env.replays)
    /\ UNCHANGED << env, pubVars, link, events, history, subPc, subCb, taken,
                    becameDone, recorded, seenVars, confirmed, allDone >>

Depart ==
    /\ link = "matched"
    /\ WriterExists
    /\ ReaderGone
    /\ link' = "gone"
    /\ Raise("unmatched")
    /\ UNCHANGED << env, pubVars, history, arrived, subVars >>

\* A release store becomes visible to the other thread.
BecomesVisible ==
    /\ SubRuns
    /\ \/ recordedSeen' = recorded /\ UNCHANGED confirmedSeen
       \/ confirmedSeen' = confirmed /\ UNCHANGED recordedSeen
    /\ UNCHANGED << env, pubVars, netVars, subPc, listenerVars, confirmed, allDone >>

\* The middleware's part in what happens next.
Middleware == Match \/ Deliver \/ Depart
-----------------------------------------------------------------------------
(***************************************************************************)
(* Subscriber, main thread.                                                *)
(***************************************************************************)
\* Only Zig's stores may be seen late.
SequentiallyConsistent == env.sub # "zig"

\* create_datareader without a listener, and the typed reader made from it.
SubCreate ==
    /\ subPc = "create"
    /\ env.ordered => pubPc \notin {"create", "attach", "historical"}
    /\ SubNext("create")
    /\ UNCHANGED << env, pubVars, netVars, listenerVars, seenVars, confirmed, allDone >>

SubAttach ==
    /\ subPc = "attach"
    /\ SubNext("attach")
    /\ UNCHANGED << env, pubVars, netVars, listenerVars, seenVars, confirmed, allDone >>

\* Fault: a reader that no writer has matched yet counts as up to date.
SubAwaitHistory_Faulty ==
    /\ subPc = "history"
    /\ history <= arrived
    /\ SubNext("history")
    /\ UNCHANGED << env, pubVars, netVars, listenerVars, seenVars, confirmed, allDone >>

\* wait_for_historical_data returns once the reader has matched and what the
\* writer's cache held at that time has been delivered to the reader.  It does not
\* wait for the listener, which may still have all of it to take.
SubAwaitHistory ==
    /\ subPc = "history"
    /\ link # "none"
    /\ history <= arrived
    /\ SubNext("history")
    /\ UNCHANGED << env, pubVars, netVars, listenerVars, seenVars, confirmed, allDone >>

\* The count of historical flags that main sees must be complete.
SubCount ==
    /\ subPc = "count"
    /\ IF recordedSeen >= HistoricalCount THEN SubNext("count") ELSE subPc' = "short"
    /\ UNCHANGED << env, pubVars, netVars, listenerVars, seenVars, confirmed, allDone >>

\* historical_confirmed is stored ...
SubConfirm ==
    /\ subPc = "confirm"
    /\ confirmed' = TRUE
    /\ confirmedSeen' = SequentiallyConsistent
    /\ SubNext("confirm")
    /\ UNCHANGED << env, pubVars, netVars, listenerVars, recordedSeen, allDone >>

\* Fault: main leaves the decision to the listener.
SubRecheck_Faulty ==
    /\ subPc = "recheck"
    /\ SubNext("recheck")
    /\ UNCHANGED << env, pubVars, netVars, listenerVars, seenVars, confirmed, allDone >>

\* ... and then the live flags are looked at: the listener may have stored
\* the last one when it could not yet see historical_confirmed.
SubRecheck ==
    /\ subPc = "recheck"
    /\ allDone' = (allDone \/ recordedSeen = Total)
    /\ SubNext("recheck")
    /\ UNCHANGED << env, pubVars, netVars, listenerVars, seenVars, confirmed >>

SubAwait ==
    /\ subPc = "await"
    /\ allDone
    /\ SubNext("await")
    /\ UNCHANGED << env, pubVars, netVars, listenerVars, seenVars, confirmed, allDone >>

SubDelete ==
    /\ subPc = "delete"
    /\ SubNext("delete")
    /\ UNCHANGED << env, pubVars, netVars, listenerVars, seenVars, confirmed, allDone >>

SubLeave ==
    /\ subPc = "leave"
    /\ SubNext("leave")
    /\ UNCHANGED << env, pubVars, netVars, listenerVars, seenVars, confirmed, allDone >>

\* HISTORICAL_WAIT_TIMEOUT_S and RECEIVE_TIMEOUT_MS.
SubDeadline ==
    /\ ~env.smooth
    /\ \/ subPc = "history"
       \/ subPc = "await" /\ ~allDone
    /\ subPc' = "timeout"
    /\ UNCHANGED << env, pubVars, netVars, listenerVars, seenVars, confirmed, allDone >>

\* create_datareader or set_listener fails.
SubCallFails ==
    /\ ~env.smooth
    /\ subPc \in {"create", "attach"}
    /\ subPc' = "failed"
    /\ UNCHANGED << env, pubVars, netVars, listenerVars, seenVars, confirmed, allDone >>

SubMain ==
    \/ SubCreate
    \/ SubAttach
    \/ SubAwaitHistory
    \/ SubCount
    \/ SubConfirm
    \/ SubRecheck
    \/ SubAwait
    \/ SubDelete
    \/ SubLeave
    \/ SubDeadline
-----------------------------------------------------------------------------
(***************************************************************************)
(* Subscriber, dispatch thread: on_data_available.                         *)
(***************************************************************************)
OnDataAvailable ==
    /\ ReaderExists
    /\ Attached
    /\ notified
    /\ subCb = "idle"
    /\ notified' = FALSE
    /\ becameDone' = FALSE
    /\ subCb' = "take"
    /\ UNCHANGED << env, pubVars, netVars, subPc, taken, recorded, seenVars, confirmed,
                    allDone >>

\* Fault: became_done is forgotten at the end of the loop.
Take_Faulty ==
    /\ SubRuns
    /\ subCb = "take"
    /\ IF ReaderExists /\ taken < arrived
       THEN taken' = taken + 1 /\ subCb' = "record"
       ELSE subCb' = "idle" /\ UNCHANGED taken
    /\ UNCHANGED << env, pubVars, netVars, subPc, notified, becameDone, recorded,
                    seenVars, confirmed, allDone >>

\* The next sample, or no data (also for a take beside delete_datareader);
\* only then is all_done stored.
Take ==
    /\ SubRuns
    /\ subCb = "take"
    /\ IF ReaderExists /\ taken < arrived
       THEN taken' = taken + 1 /\ subCb' = "record" /\ UNCHANGED allDone
       ELSE subCb' = "idle" /\ allDone' = (allDone \/ becameDone) /\ UNCHANGED taken
    /\ UNCHANGED << env, pubVars, netVars, subPc, notified, becameDone, recorded,
                    seenVars, confirmed >>

\* The sample's flag is stored, in historical_received or live_received; only
\* a live sample asks whether this was the last one.
Record ==
    /\ SubRuns
    /\ subCb = "record"
    /\ recorded' = taken
    /\ recordedSeen' = IF SequentiallyConsistent THEN taken ELSE recordedSeen
    /\ subCb' = IF taken > HistoricalCount THEN "test" ELSE "take"
    /\ UNCHANGED << env, pubVars, netVars, subPc, notified, taken, becameDone,
                    confirmedSeen, confirmed, allDone >>

\* Fault: historical_confirmed is not asked for.
Test_Faulty ==
    /\ SubRuns
    /\ subCb = "test"
    /\ becameDone' = (becameDone \/ recorded = Total)
    /\ subCb' = "take"
    /\ UNCHANGED << env, pubVars, netVars, subPc, notified, taken, recorded, seenVars,
                    confirmed, allDone >>

\* ready_to_finish, as the listener sees it.
Test ==
    /\ SubRuns
    /\ subCb = "test"
    /\ becameDone' = (becameDone \/ (~allDone /\ confirmedSeen /\ recorded = Total))
    /\ subCb' = "take"
    /\ UNCHANGED << env, pubVars, netVars, subPc, notified, taken, recorded, seenVars,
                    confirmed, allDone >>

\* take returns an error, or a sample of neither batch: the listener ends the
\* process.
TakeFails ==
    /\ ~env.smooth
    /\ subCb = "take"
    /\ ReaderExists
    /\ subPc' = "failed"
    /\ UNCHANGED << env, pubVars, netVars, listenerVars, seenVars, confirmed, allDone >>

SubListener == OnDataAvailable \/ Take \/ Record \/ Test
-----------------------------------------------------------------------------
\* Calls may fail; nothing makes them.
Failures == PubCallFails \/ SubCallFails \/ TakeFails

Next ==
    PubMain \/ PubListener \/ Middleware \/ BecomesVisible \/ SubMain \/ SubListener \/ Failures

\* Threads are scheduled, polls are repeated, stores become visible, and the
\* middleware gets round to every match, delivery and departure.
Fairness ==
    /\ WF_vars(PubMain)
    /\ WF_vars(PubListener)
    /\ WF_vars(Match)
    /\ WF_vars(Deliver)
    /\ WF_vars(Depart)
    /\ WF_vars(BecomesVisible)
    /\ WF_vars(SubMain)
    /\ WF_vars(SubListener)

Spec == Init /\ [][Next]_vars

FairSpec == Spec /\ Fairness
-----------------------------------------------------------------------------
(***************************************************************************)
(* Properties.                                                             *)
(***************************************************************************)
\* The subscriber only finishes with both batches: all_done, which either
\* thread may store on what it sees of the other one's flags, is never true
\* before the historical batch is confirmed and the last live flag is stored.
DoneMeansBothBatches == allDone => confirmed /\ recorded = Total

\* The variables stay in their ranges, and the subscriber never finishes early.
CatchupInv == TypeOK /\ DoneMeansBothBatches

\* main counts flags that the listener stores.  In a late subscriber the count is
\* short only if main has overtaken its listener: the replay itself is complete
\* in the reader's cache, and the flags that are missing are about to be stored,
\* or to become visible.
ShortOnlyByLag ==
    env.ordered /\ env.replays /\ subPc = "count" /\ recordedSeen < HistoricalCount =>
        /\ HistoricalCount <= arrived
        /\ notified \/ subCb # "idle" \/ recordedSeen < recorded

\* Between the two of them the threads cannot both miss the last sample: once
\* every flag is stored and the listener is at rest, a main thread that polls
\* all_done finds it set, for nothing would ever set it afterwards.
CompletionSeen ==
    (subPc = "await" /\ recorded = Total /\ subCb = "idle") => allDone

\* The same for the three ports with sequentially consistent atomics.
CompletionSeenSeqCst == SequentiallyConsistent => CompletionSeen

\* The pair keeps the promise of an ordered handover.
Promise == INSTANCE Handover WITH
    Total      <- Total,
    sent       <- written,
    received   <- recorded,
    publisher  <- IF PubRuns THEN "running" ELSE pubPc,
    subscriber <- IF subPc \in {"leave", "ok"} THEN "complete"
                  ELSE IF SubRuns THEN "running" ELSE "failed"

KeepsPromise == Promise!Spec

\* When nothing is dropped or late, the publisher is done, and a late subscriber
\* of a sequentially consistent port succeeds unless its count came too early.
BothSucceed ==
    (env.smooth /\ env.replays /\ env.ordered /\ SequentiallyConsistent)
        => <>(pubPc = "done" /\ subPc \in {"ok", "short"})
=============================================================================
