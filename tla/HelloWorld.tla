----------------------------- MODULE HelloWorld -----------------------------
(***************************************************************************)
(* The hello_world, participant-config and discovery pairs: a publisher    *)
(* that waits for a reliable reader to become ready, writes SampleCount    *)
(* samples and waits for the reader to go away, and a subscriber whose     *)
(* listener checks every count against the next expected one.  Four        *)
(* threads take part: the two main threads and, in each process, the       *)
(* middleware's dispatch thread that runs the listener.  zzdds itself is   *)
(* external: it matches endpoints, completes the reliable handshake,       *)
(* delivers in order and reports departures.                               *)
(*                                                                         *)
(* The three applications and the four language ports run the same steps   *)
(* except where a program below says otherwise; a behaviour picks an       *)
(* application, any publisher port and any subscriber port, as the         *)
(* cross-binding smoke tests do.                                           *)
(***************************************************************************)
EXTENDS Integers

CONSTANT SampleCount    \* SAMPLE_COUNT and EXPECTED_SAMPLES

ASSUME SampleCountAssumption == SampleCount \in Nat \ {0}

Apps  == {"hello_world", "participant_config", "discovery"}
Ports == {"cpp", "c", "zig", "java"}

(***************************************************************************)
(* The main programs: a record maps a step to the step that follows it.    *)
(***************************************************************************)
PlainPublisher  == [create |-> "attach", attach |-> "awaitReady", awaitReady |-> "write",
                    write |-> "drain", drain |-> "done"]
\* discovery: the publisher looks the matched reader up before it writes.
LookupPublisher == [create |-> "attach", attach |-> "awaitReady", awaitReady |-> "lookup",
                    lookup |-> "write", write |-> "drain", drain |-> "done"]

CppPublisher             == PlainPublisher
CPublisher               == PlainPublisher
ZigPublisher             == PlainPublisher
JavaPublisher            == PlainPublisher
ConfigCppPublisher       == PlainPublisher
ConfigCPublisher         == PlainPublisher
ConfigZigPublisher       == PlainPublisher
ConfigJavaPublisher      == PlainPublisher

\* Fault: the reader is looked up before it is ready.
DiscoveryCppPublisher_Faulty ==
    [create |-> "attach", attach |-> "lookup", lookup |-> "awaitReady",
     awaitReady |-> "write", write |-> "drain", drain |-> "done"]

DiscoveryCppPublisher    == LookupPublisher
DiscoveryCPublisher      == LookupPublisher
DiscoveryZigPublisher    == LookupPublisher
DiscoveryJavaPublisher   == LookupPublisher

PublisherProgram ==
    [hello_world |->
        [cpp |-> CppPublisher, c |-> CPublisher,
         zig |-> ZigPublisher, java |-> JavaPublisher],
     participant_config |->
        [cpp |-> ConfigCppPublisher, c |-> ConfigCPublisher,
         zig |-> ConfigZigPublisher, java |-> ConfigJavaPublisher],
     discovery |->
        [cpp |-> DiscoveryCppPublisher, c |-> DiscoveryCPublisher,
         zig |-> DiscoveryZigPublisher, java |-> DiscoveryJavaPublisher]]

\* Early: the listener reads the typed reader from state that main fills in
\* ("bind") after create_datareader has already attached it.  Late: it is
\* attached in a call of its own, once the typed reader is there ("attach").
\* Own: the listener builds a typed reader from the callback's own argument.
\* discovery also waits until it finds a matched writer and looks it up.
EarlySubscriber      == [create |-> "bind", bind |-> "await", await |-> "delete",
                         delete |-> "leave", leave |-> "ok"]
LateSubscriber       == [create |-> "bind", bind |-> "attach", attach |-> "await",
                         await |-> "delete", delete |-> "leave", leave |-> "ok"]
OwnSubscriber        == [create |-> "await", await |-> "delete",
                         delete |-> "leave", leave |-> "ok"]
LateLookupSubscriber == [create |-> "bind", bind |-> "attach", attach |-> "lookup",
                         lookup |-> "await", await |-> "delete",
                         delete |-> "leave", leave |-> "ok"]
OwnLookupSubscriber  == [create |-> "lookup", lookup |-> "await", await |-> "delete",
                         delete |-> "leave", leave |-> "ok"]

\* C, C++ and Zig shut the middleware down before they exit, Java does not.
ExitsAtOnce(program) == [program EXCEPT !.delete = "ok"]

CppSubscriber            == EarlySubscriber
CSubscriber              == EarlySubscriber
ZigSubscriber            == OwnSubscriber
JavaSubscriber           == ExitsAtOnce(EarlySubscriber)
ConfigCppSubscriber      == LateSubscriber
ConfigCSubscriber        == LateSubscriber
ConfigZigSubscriber      == OwnSubscriber
ConfigJavaSubscriber     == ExitsAtOnce(LateSubscriber)

\* Fault: the listener is attached before the typed reader is there.
DiscoveryCSubscriber_Faulty ==
    [create |-> "attach", attach |-> "bind", bind |-> "lookup", lookup |-> "await",
     await |-> "delete", delete |-> "leave", leave |-> "ok"]

DiscoveryCppSubscriber   == LateLookupSubscriber
DiscoveryCSubscriber     == LateLookupSubscriber
DiscoveryZigSubscriber   == OwnLookupSubscriber
DiscoveryJavaSubscriber  == ExitsAtOnce(LateLookupSubscriber)

SubscriberProgram ==
    [hello_world |->
        [cpp |-> CppSubscriber, c |-> CSubscriber,
         zig |-> ZigSubscriber, java |-> JavaSubscriber],
     participant_config |->
        [cpp |-> ConfigCppSubscriber, c |-> ConfigCSubscriber,
         zig |-> ConfigZigSubscriber, java |-> ConfigJavaSubscriber],
     discovery |->
        [cpp |-> DiscoveryCppSubscriber, c |-> DiscoveryCSubscriber,
         zig |-> DiscoveryZigSubscriber, java |-> DiscoveryJavaSubscriber]]

VARIABLES
    env,            \* what this behaviour runs: see Environments
    \* publisher process
    pubPc,          \* main thread's step
    listening,      \* the extended listener is attached to the writer
    pubCb,          \* dispatch thread: "idle" or the store it is about to make
    readerReady,    \* PubState.reader_ready
    everMatched,    \* PubState.ever_matched
    matchedCount,   \* PubState.matched_current_count
    written,        \* samples written: counts 0 .. written-1
    \* middleware
    link,           \* the writer's view of the reader
    events,         \* status changes not yet handed to the writer's listener
    arrived,        \* counts below this have reached the reader's cache
    \* subscriber process
    subPc,          \* main thread's step
    attached,       \* the listener is attached to the reader
    bound,          \* SubState.reader has been assigned
    notified,       \* on_data_available is due
    subCb,          \* dispatch thread: "idle" or its step in on_data_available
    taken,          \* counts below this have left the reader's cache
    expectedNext,   \* SubState.expected_next
    allReceived,    \* SubState.all_received
    nullTaken       \* a listener has called take on an unassigned reader

pubVars == << pubPc, listening, pubCb, readerReady, everMatched, matchedCount, written >>
netVars == << link, events, arrived >>
subVars == << subPc, attached, bound, notified, subCb, taken, expectedNext,
              allReceived, nullTaken >>
vars    == << env, pubVars, netVars, subVars >>

(***************************************************************************)
(* The environment of a behaviour: the application and the two ports;      *)
(* whether the middleware keeps a status change that happens while no      *)
(* listener is attached and reports it on attachment, or drops it (the     *)
(* source does not say); and whether everything is smooth: no deadline     *)
(* passes and no call fails.                                               *)
(***************************************************************************)
Environments ==
    [app : Apps, pub : Ports, sub : Ports, replays : BOOLEAN, smooth : BOOLEAN]

PubSteps  == {"create", "attach", "awaitReady", "lookup", "write", "drain", "drainCount"}
PubExits  == {"done", "unmatched", "failed"}
SubSteps  == {"create", "bind", "attach", "lookup", "await", "delete", "leave"}
SubExits  == {"ok", "timeout", "gap", "crash", "unmatched", "failed"}
PubStores == {"readyStore", "matchCount", "matchEver", "unmatchCount"}
Events    == {"ready", "matched", "unmatched"}

PubRuns      == pubPc \notin PubExits
SubRuns      == subPc \notin SubExits
WriterExists == pubPc \notin {"create"} \cup PubExits
ReaderExists == subPc \in {"bind", "attach", "lookup", "await", "delete"}
ReaderGone   == subPc \in {"leave"} \cup SubExits

PubProgram == PublisherProgram[env.app][env.pub]
SubProgram == SubscriberProgram[env.app][env.sub]

PubNext(step) == pubPc' = PubProgram[step]
SubNext(step) == subPc' = SubProgram[step]

\* A status change of the writer, as its listener gets to know of it.
Raise(e) == events' = IF listening \/ env.replays THEN events \cup {e} ELSE events

\* New data, as the reader's listener gets to know of it.
NotifyReader == notified' = (notified \/ attached \/ env.replays)

TypeOK ==
    /\ env \in Environments
    /\ pubPc \in PubSteps \cup PubExits
    /\ listening \in BOOLEAN
    /\ pubCb \in PubStores \cup {"idle"}
    /\ readerReady \in BOOLEAN
    /\ everMatched \in BOOLEAN
    /\ matchedCount \in {0, 1}
    /\ written \in 0 .. SampleCount
    /\ link \in {"none", "matched", "ready", "gone"}
    /\ events \in SUBSET Events
    /\ arrived \in 0 .. SampleCount
    /\ subPc \in SubSteps \cup SubExits
    /\ attached \in BOOLEAN
    /\ bound \in BOOLEAN
    /\ notified \in BOOLEAN
    /\ subCb \in {"idle", "take", "check", "flag"}
    /\ taken \in 0 .. SampleCount
    /\ expectedNext \in 0 .. SampleCount
    /\ allReceived \in BOOLEAN
    /\ nullTaken \in BOOLEAN

Init ==
    /\ env \in Environments
    /\ pubPc = "create"
    /\ listening = FALSE
    /\ pubCb = "idle"
    /\ readerReady = FALSE
    /\ everMatched = FALSE
    /\ matchedCount = 0
    /\ written = 0
    /\ link = "none"
    /\ events = {}
    /\ arrived = 0
    /\ subPc = "create"
    /\ attached = FALSE
    /\ bound = FALSE
    /\ notified = FALSE
    /\ subCb = "idle"
    /\ taken = 0
    /\ expectedNext = 0
    /\ allReceived = FALSE
    /\ nullTaken = FALSE
-----------------------------------------------------------------------------
(***************************************************************************)
(* Publisher, main thread.                                                 *)
(***************************************************************************)
\* create_datawriter, with no listener yet.
PubCreate ==
    /\ pubPc = "create"
    /\ PubNext("create")
    /\ UNCHANGED << env, listening, pubCb, readerReady, everMatched, matchedCount,
                    written, netVars, subVars >>

\* set_listener_ex.
PubAttach ==
    /\ pubPc = "attach"
    /\ listening' = TRUE
    /\ PubNext("attach")
    /\ UNCHANGED << env, pubCb, readerReady, everMatched, matchedCount, written,
                    netVars, subVars >>

\* Fault: the wait for reader_ready is skipped.
PubAwaitReady_Faulty ==
    /\ pubPc = "awaitReady"
    /\ PubNext("awaitReady")
    /\ UNCHANGED << env, listening, pubCb, readerReady, everMatched, matchedCount,
                    written, netVars, subVars >>

\* The first poll that finds reader_ready set ends the wait.
PubAwaitReady ==
    /\ pubPc = "awaitReady"
    /\ readerReady
    /\ PubNext("awaitReady")
    /\ UNCHANGED << env, listening, pubCb, readerReady, everMatched, matchedCount,
                    written, netVars, subVars >>

\* get_matched_subscriptions and get_matched_subscription_data: the program
\* ends unless the reader is matched.
PubLookup ==
    /\ pubPc = "lookup"
    /\ IF link \in {"matched", "ready"} THEN PubNext("lookup") ELSE pubPc' = "unmatched"
    /\ UNCHANGED << env, listening, pubCb, readerReady, everMatched, matchedCount,
                    written, netVars, subVars >>

\* One turn of the write loop, and the loop's end.
PubWrite ==
    /\ pubPc = "write"
    /\ IF written < SampleCount
       THEN written' = written + 1 /\ UNCHANGED pubPc
       ELSE PubNext("write") /\ UNCHANGED written
    /\ UNCHANGED << env, listening, pubCb, readerReady, everMatched, matchedCount,
                    netVars, subVars >>

\* Fault: only the match count is looked at.
PubDrainEver_Faulty ==
    /\ pubPc = "drain"
    /\ pubPc' = "drainCount"
    /\ UNCHANGED << env, listening, pubCb, readerReady, everMatched, matchedCount,
                    written, netVars, subVars >>

\* ever_matched is loaded first ...
PubDrainEver ==
    /\ pubPc = "drain"
    /\ everMatched
    /\ pubPc' = "drainCount"
    /\ UNCHANGED << env, listening, pubCb, readerReady, everMatched, matchedCount,
                    written, netVars, subVars >>

\* ... and matched_current_count after it, in a second atomic load.
PubDrainCount ==
    /\ pubPc = "drainCount"
    /\ IF matchedCount = 0 THEN PubNext("drain") ELSE pubPc' = "drain"
    /\ UNCHANGED << env, listening, pubCb, readerReady, everMatched, matchedCount,
                    written, netVars, subVars >>

\* A wait that outlasts READER_READY_TIMEOUT_MS or DRAIN_TIMEOUT_MS ends the
\* process: the flag is tested before the deadline on every turn.
PubDeadline ==
    /\ ~env.smooth
    /\ \/ pubPc = "awaitReady" /\ ~readerReady
       \/ pubPc = "drain" /\ ~everMatched
       \/ pubPc = "drainCount" /\ matchedCount # 0
    /\ pubPc' = "failed"
    /\ UNCHANGED << env, listening, pubCb, readerReady, everMatched, matchedCount,
                    written, netVars, subVars >>

\* A middleware call that fails ends the process.
PubCallFails ==
    /\ ~env.smooth
    /\ \/ pubPc \in {"create", "attach", "lookup"}
       \/ pubPc = "write" /\ written < SampleCount
    /\ pubPc' = "failed"
    /\ UNCHANGED << env, listening, pubCb, readerReady, everMatched, matchedCount,
                    written, netVars, subVars >>

PubMain ==
    \/ PubCreate
    \/ PubAttach
    \/ PubAwaitReady
    \/ PubLookup
    \/ PubWrite
    \/ PubDrainEver
    \/ PubDrainCount
    \/ PubDeadline
-----------------------------------------------------------------------------
(***************************************************************************)
(* Publisher, dispatch thread: one callback at a time, one atomic store    *)
(* per step.                                                               *)
(***************************************************************************)
\* A departure is reported after the match it ends; readiness in any order.
PubDispatch ==
    /\ PubRuns
    /\ listening
    /\ pubCb = "idle"
    /\ \E e \in events :
        /\ e = "unmatched" => "matched" \notin events
        /\ events' = events \ {e}
        /\ pubCb' = [ready |-> "readyStore", matched |-> "matchCount",
                     unmatched |-> "unmatchCount"][e]
    /\ UNCHANGED << env, pubPc, listening, readerReady, everMatched, matchedCount,
                    written, link, arrived, subVars >>

\* on_reliable_reader_ready with is_ready true.
OnReliableReaderReady ==
    /\ PubRuns
    /\ pubCb = "readyStore"
    /\ readerReady' = TRUE
    /\ pubCb' = "idle"
    /\ UNCHANGED << env, pubPc, listening, everMatched, matchedCount, written,
                    netVars, subVars >>

\* Fault: ever_matched is stored first.
OnPublicationMatched_Faulty ==
    /\ PubRuns
    /\ \/ /\ pubCb = "matchCount"
          /\ everMatched' = TRUE
          /\ pubCb' = "matchEver"
          /\ UNCHANGED matchedCount
       \/ /\ pubCb = "matchEver"
          /\ matchedCount' = 1
          /\ pubCb' = "idle"
          /\ UNCHANGED everMatched
       \/ /\ pubCb = "unmatchCount"
          /\ matchedCount' = 0
          /\ pubCb' = "idle"
          /\ UNCHANGED everMatched
    /\ UNCHANGED << env, pubPc, listening, readerReady, written, netVars, subVars >>

\* Fault: a current count of zero is not stored.
OnPublicationMatched_NoZero ==
    /\ PubRuns
    /\ \/ /\ pubCb = "matchCount"
          /\ matchedCount' = 1
          /\ pubCb' = "matchEver"
          /\ UNCHANGED everMatched
       \/ /\ pubCb = "matchEver"
          /\ everMatched' = TRUE
          /\ pubCb' = "idle"
          /\ UNCHANGED matchedCount
       \/ /\ pubCb = "unmatchCount"
          /\ pubCb' = "idle"
          /\ UNCHANGED << everMatched, matchedCount >>
    /\ UNCHANGED << env, pubPc, listening, readerReady, written, netVars, subVars >>

\* Fault: the count is the number of matches ever made.
OnPublicationMatched_Total ==
    /\ PubRuns
    /\ pubCb \in {"matchCount", "unmatchCount"}
    /\ matchedCount' = matchedCount + 1
    /\ pubCb' = "idle"
    /\ UNCHANGED << env, pubPc, listening, readerReady, everMatched, written, netVars,
                    subVars >>

\* on_publication_matched: matched_current_count first, then, for a count
\* above zero, ever_matched.
OnPublicationMatched ==
    /\ PubRuns
    /\ \/ /\ pubCb = "matchCount"
          /\ matchedCount' = 1
          /\ pubCb' = "matchEver"
          /\ UNCHANGED everMatched
       \/ /\ pubCb = "matchEver"
          /\ everMatched' = TRUE
          /\ pubCb' = "idle"
          /\ UNCHANGED matchedCount
       \/ /\ pubCb = "unmatchCount"
          /\ matchedCount' = 0
          /\ pubCb' = "idle"
          /\ UNCHANGED everMatched
    /\ UNCHANGED << env, pubPc, listening, readerReady, written, netVars, subVars >>

PubListener == PubDispatch \/ OnReliableReaderReady \/ OnPublicationMatched
-----------------------------------------------------------------------------
(***************************************************************************)
(* Middleware (external).                                                  *)
(***************************************************************************)
Match ==
    /\ link = "none"
    /\ WriterExists
    /\ ReaderExists
    /\ link' = "matched"
    /\ Raise("matched")
    /\ UNCHANGED << env, pubVars, arrived, subVars >>

\* The AckNack/Heartbeat handshake.  The topic is volatile: a reader gets
\* nothing that was written before it.
Handshake ==
    /\ link = "matched"
    /\ WriterExists
    /\ ReaderExists
    /\ link' = "ready"
    /\ arrived' = written
    /\ taken' = written
    /\ Raise("ready")
    /\ UNCHANGED << env, pubVars, subPc, attached, bound, notified, subCb, expectedNext,
                    allReceived, nullTaken >>

\* The next sample reaches the reader's cache.
Deliver ==
    /\ link = "ready"
    /\ WriterExists
    /\ ReaderExists
    /\ arrived < written
    /\ arrived' = arrived + 1
    /\ NotifyReader
    /\ UNCHANGED << env, pubVars, link, events, subPc, attached, bound, subCb, taken,
                    expectedNext, allReceived, nullTaken >>

\* A deleted reader says so; one whose process died is missed in time.
Depart ==
    /\ link \in {"matched", "ready"}
    /\ WriterExists
    /\ ReaderGone
    /\ link' = "gone"
    /\ Raise("unmatched")
    /\ UNCHANGED << env, pubVars, arrived, subVars >>

Middleware == Match \/ Handshake \/ Deliver \/ Depart
-----------------------------------------------------------------------------
(***************************************************************************)
(* Subscriber, main thread.                                                *)
(***************************************************************************)
\* create_datareader; with the listener, callbacks may start now.
SubCreate ==
    /\ subPc = "create"
    /\ SubNext("create")
    /\ attached' = ("attach" \notin DOMAIN SubProgram)
    /\ bound' = ("bind" \notin DOMAIN SubProgram)
    /\ UNCHANGED << env, pubVars, netVars, notified, subCb, taken, expectedNext,
                    allReceived, nullTaken >>

SubBind ==
    /\ subPc = "bind"
    /\ bound' = TRUE
    /\ SubNext("bind")
    /\ UNCHANGED << env, pubVars, netVars, attached, notified, subCb, taken, expectedNext,
                    allReceived, nullTaken >>

\* set_listener.
SubAttach ==
    /\ subPc = "attach"
    /\ attached' = TRUE
    /\ SubNext("attach")
    /\ UNCHANGED << env, pubVars, netVars, bound, notified, subCb, taken,
                    expectedNext, allReceived, nullTaken >>

\* The polls of get_matched_publications end with the first that finds the
\* writer; get_matched_publication_data fails if its process has gone since.
SubLookup ==
    /\ subPc = "lookup"
    /\ link # "none"
    /\ \/ SubNext("lookup")
       \/ ~PubRuns /\ subPc' = "unmatched"
    /\ UNCHANGED << env, pubVars, netVars, attached, bound, notified, subCb, taken,
                    expectedNext, allReceived, nullTaken >>

SubAwait ==
    /\ subPc = "await"
    /\ allReceived
    /\ SubNext("await")
    /\ UNCHANGED << env, pubVars, netVars, attached, bound, notified, subCb, taken,
                    expectedNext, allReceived, nullTaken >>

\* delete_datareader, possibly beside a take in progress.
SubDelete ==
    /\ subPc = "delete"
    /\ SubNext("delete")
    /\ UNCHANGED << env, pubVars, netVars, attached, bound, notified, subCb, taken,
                    expectedNext, allReceived, nullTaken >>

SubLeave ==
    /\ subPc = "leave"
    /\ SubNext("leave")
    /\ UNCHANGED << env, pubVars, netVars, attached, bound, notified, subCb, taken,
                    expectedNext, allReceived, nullTaken >>

\* Fault: the receive loop has no deadline.
SubDeadline_Faulty == FALSE /\ UNCHANGED vars

\* MATCH_TIMEOUT_MS and RECEIVE_TIMEOUT_MS.
SubDeadline ==
    /\ ~env.smooth
    /\ \/ subPc = "lookup" /\ (link = "none" \/ ~PubRuns)
       \/ subPc = "await" /\ ~allReceived
    /\ subPc' = "timeout"
    /\ UNCHANGED << env, pubVars, netVars, attached, bound, notified, subCb, taken,
                    expectedNext, allReceived, nullTaken >>

SubCallFails ==
    /\ ~env.smooth
    /\ subPc \in {"create", "attach", "lookup"}
    /\ subPc' = "failed"
    /\ UNCHANGED << env, pubVars, netVars, attached, bound, notified, subCb, taken,
                    expectedNext, allReceived, nullTaken >>

SubMain ==
    \/ SubCreate
    \/ SubBind
    \/ SubAttach
    \/ SubLookup
    \/ SubAwait
    \/ SubDelete
    \/ SubLeave
    \/ SubDeadline
-----------------------------------------------------------------------------
(***************************************************************************)
(* Subscriber, dispatch thread: on_data_available.                         *)
(***************************************************************************)
OnDataAvailable ==
    /\ ReaderExists
    /\ attached
    /\ notified
    /\ subCb = "idle"
    /\ notified' = FALSE
    /\ subCb' = "take"
    /\ UNCHANGED << env, pubVars, netVars, subPc, attached, bound, taken, expectedNext,
                    allReceived, nullTaken >>

\* take through an unassigned reader: C and C++ dereference a null pointer,
\* in Java the exception ends this callback.
TakeNull ==
    /\ SubRuns
    /\ subCb = "take"
    /\ ~bound
    /\ nullTaken' = TRUE
    /\ subCb' = "idle"
    /\ subPc' = IF env.sub = "java" THEN subPc ELSE "crash"
    /\ UNCHANGED << env, pubVars, netVars, attached, bound, notified, taken, expectedNext,
                    allReceived >>

\* take: the next sample, or no data, which is also what a take that runs
\* into delete_datareader gets.
Take ==
    /\ SubRuns
    /\ subCb = "take"
    /\ bound
    /\ IF ReaderExists /\ taken < arrived
       THEN taken' = taken + 1 /\ subCb' = "check"
       ELSE subCb' = "idle" /\ UNCHANGED taken
    /\ UNCHANGED << env, pubVars, netVars, subPc, attached, bound, notified, expectedNext,
                    allReceived, nullTaken >>

\* Fault: the completion test is off by one.
Check_Faulty ==
    /\ SubRuns
    /\ subCb = "check"
    /\ expectedNext' = expectedNext + 1
    /\ subCb' = IF expectedNext' = SampleCount - 1 THEN "flag" ELSE "take"
    /\ UNCHANGED << env, pubVars, netVars, subPc, attached, bound, notified, taken,
                    allReceived, nullTaken >>

\* The count just taken (taken - 1) must be the expected one; a gap ends the
\* process.
Check ==
    /\ SubRuns
    /\ subCb = "check"
    /\ IF taken - 1 # expectedNext
       THEN subPc' = "gap" /\ UNCHANGED << subCb, expectedNext >>
       ELSE /\ expectedNext' = expectedNext + 1
            /\ subCb' = IF expectedNext' = SampleCount THEN "flag" ELSE "take"
            /\ UNCHANGED subPc
    /\ UNCHANGED << env, pubVars, netVars, attached, bound, notified, taken,
                    allReceived, nullTaken >>

\* all_received is stored inside the take loop, which goes on afterwards.
Flag ==
    /\ SubRuns
    /\ subCb = "flag"
    /\ allReceived' = TRUE
    /\ subCb' = "take"
    /\ UNCHANGED << env, pubVars, netVars, subPc, attached, bound, notified, taken,
                    expectedNext, nullTaken >>

\* take returns an error: the listener ends the process.  What take does then
\* in Java the source does not show.
TakeFails ==
    /\ ~env.smooth
    /\ env.sub # "java"
    /\ subCb = "take"
    /\ bound
    /\ ReaderExists
    /\ subPc' = "failed"
    /\ UNCHANGED << env, pubVars, netVars, attached, bound, notified, subCb, taken,
                    expectedNext, allReceived, nullTaken >>

SubListener == OnDataAvailable \/ TakeNull \/ Take \/ Check \/ Flag
-----------------------------------------------------------------------------
\* Calls may fail; nothing makes them.
Failures == PubCallFails \/ SubCallFails \/ TakeFails

Next == PubMain \/ PubListener \/ Middleware \/ SubMain \/ SubListener \/ Failures

\* Threads are scheduled, polls are repeated, and the middleware gets round
\* to every match, handshake, delivery and departure.
Fairness ==
    /\ WF_vars(PubMain)
    /\ WF_vars(PubListener)
    /\ WF_vars(Match \/ Handshake)
    /\ WF_vars(Deliver)
    /\ WF_vars(Depart)
    /\ WF_vars(SubMain)
    /\ WF_vars(SubListener)

Spec == Init /\ [][Next]_vars

FairSpec == Spec /\ Fairness
-----------------------------------------------------------------------------
(***************************************************************************)
(* Properties.                                                             *)
(***************************************************************************)
\* The subscriber never reports a gap: no count is lost or reordered between
\* the write loop and the listener's check, whatever the order in which the
\* match, the handshake, the attachment of the listener and the waits fall.
\* It rests on the publisher's wait for on_reliable_reader_ready.
NoGap == subPc # "gap"

\* The publisher reports "done" only once the reader has really gone: the two
\* flags its drain loop loads one after the other, while the listener stores
\* them one after the other, never show it a departure that has not happened.
DoneAfterDeparture == pubPc = "done" => ReaderGone

\* The listener calls take only through a reader that main has assigned.
ReaderAssignedBeforeTake == ~nullTaken

\* Where set_listener follows the assignment, the window is closed: no callback
\* runs, and no notification of earlier data leads to one, before the typed
\* reader is there.
WindowClosed == env.app # "hello_world" => ~nullTaken

\* A lookup that finds nobody means that the other process has failed: the wait
\* for readiness implies a match that lasts until the reader fails, and the
\* drain loop keeps the writer alive until the reader has left.
LookupFindsPeer ==
    /\ pubPc = "unmatched" => subPc \in SubExits \ {"ok"}
    /\ subPc = "unmatched" => pubPc \in PubExits \ {"done"}

\* The four threads together keep the promise of an ordered handover.
Promise == INSTANCE Handover WITH
    Total      <- SampleCount,
    sent       <- written,
    received   <- expectedNext,
    publisher  <- IF PubRuns THEN "running"
                  ELSE IF pubPc = "done" THEN "done" ELSE "failed",
    subscriber <- IF subPc \in {"leave", "ok"} THEN "complete"
                  ELSE IF SubRuns THEN "running" ELSE "failed"

KeepsPromise == Promise!Spec

\* Neither process waits for the other for ever: with deadlines that do
\* pass, both exit, however the other one fares.
BothExit == <>(env.smooth \/ (~PubRuns /\ ~SubRuns))

\* When no deadline passes and no call fails, no status change is dropped and
\* no unassigned reader is used, the pair runs to its successful end.
BothSucceed ==
    (env.smooth /\ env.replays) => <>(nullTaken \/ (pubPc = "done" /\ subPc = "ok"))
=============================================================================
