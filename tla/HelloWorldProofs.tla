-------------------------- MODULE HelloWorldProofs --------------------------
(***************************************************************************)
(* Proofs about HelloWorld, for every SampleCount, every application and   *)
(* every pair of ports.  IInv is the inductive invariant: the type         *)
(* invariant and five groups of facts, each about what one thread may      *)
(* conclude from what it has read.                                         *)
(***************************************************************************)
EXTENDS HelloWorld, TLAPS

\* The main threads are only at steps their own programs have.
InProgram ==
    /\ pubPc = "lookup" => env.app = "discovery"
    /\ subPc = "bind" => env.sub # "zig"
    /\ subPc = "attach" => env.app # "hello_world" /\ env.sub # "zig"
    /\ subPc = "lookup" => env.app = "discovery"
    /\ subPc = "leave" => env.sub # "java"

\* By the time main waits, and where set_listener follows the assignment by the
\* time any callback runs, the typed reader has been assigned.
Assigned ==
    /\ subPc \in {"attach", "lookup", "await", "delete", "leave", "ok"} => bound
    /\ subCb # "idle" => attached /\ subPc # "create"
    /\ env.app # "hello_world" /\ attached => bound

\* Nothing is written before the publisher has learned of a handshake that
\* has taken place.
Gated ==
    /\ pubPc \in {"create", "attach", "awaitReady", "lookup"} => written = 0
    /\ pubPc \in {"lookup", "write"} \/ written > 0 => readerReady
    /\ readerReady \/ pubCb = "readyStore" \/ "ready" \in events
          => link \in {"ready", "gone"}

\* The reader's cache and the listener's counter move together.
Aligned ==
    /\ taken = expectedNext + (IF subCb = "check" THEN 1 ELSE 0)
    /\ taken =< arrived
    /\ arrived =< written

\* What the publisher's flags say about the reader.
Departures ==
    /\ link = "gone" \/ "unmatched" \in events \/ pubCb = "unmatchCount"
          => ReaderGone
    /\ pubCb = "matchEver" => matchedCount = 1
    /\ everMatched /\ matchedCount = 0 => ReaderGone
    /\ pubPc = "drainCount" => everMatched

\* What the two main threads have finished.
Finished ==
    /\ pubPc \in {"drain", "drainCount", "done"} => written = SampleCount
    /\ subCb = "flag" \/ allReceived => expectedNext = SampleCount
    /\ subPc \in {"delete", "leave", "ok"} => allReceived

IInv ==
    /\ TypeOK
    /\ InProgram
    /\ Assigned
    /\ Gated
    /\ Aligned
    /\ Departures
    /\ Finished
    /\ NoGap
    /\ DoneAfterDeparture
    /\ WindowClosed
    /\ LookupFindsPeer

-----------------------------------------------------------------------------
\* Where each step of a publisher's main program leads: the ports agree.
LEMMA PublisherSteps ==
    ASSUME NEW a \in Apps, NEW p \in Ports
    PROVE  /\ PublisherProgram[a][p]["create"] = "attach"
           /\ PublisherProgram[a][p]["attach"] = "awaitReady"
           /\ PublisherProgram[a][p]["awaitReady"]
                = IF a = "discovery" THEN "lookup" ELSE "write"
           /\ a = "discovery" => PublisherProgram[a][p]["lookup"] = "write"
           /\ PublisherProgram[a][p]["write"] = "drain"
           /\ PublisherProgram[a][p]["drain"] = "done"
  <1>1. PublisherProgram[a][p] = IF a = "discovery" THEN LookupPublisher ELSE PlainPublisher
    BY DEF Apps, Ports, PublisherProgram, CppPublisher, CPublisher, ZigPublisher,
           JavaPublisher, ConfigCppPublisher, ConfigCPublisher, ConfigZigPublisher,
           ConfigJavaPublisher, DiscoveryCppPublisher, DiscoveryCPublisher,
           DiscoveryZigPublisher, DiscoveryJavaPublisher
  <1> QED
    BY <1>1 DEF PlainPublisher, LookupPublisher

\* The program each subscriber runs: Zig's builds its own reader, the others
\* share theirs with main, and Java's exits at once.
SharedReader(a) ==
    IF a = "hello_world" THEN EarlySubscriber
    ELSE IF a = "discovery" THEN LateLookupSubscriber ELSE LateSubscriber

LEMMA SubscriberPrograms ==
    ASSUME NEW a \in Apps
    PROVE  /\ SubscriberProgram[a]["cpp"] = SharedReader(a)
           /\ SubscriberProgram[a]["c"] = SharedReader(a)
           /\ SubscriberProgram[a]["java"] = ExitsAtOnce(SharedReader(a))
           /\ SubscriberProgram[a]["zig"]
                = IF a = "discovery" THEN OwnLookupSubscriber ELSE OwnSubscriber
  <1> USE DEF SubscriberProgram, SharedReader
  <1>1. CASE a = "hello_world"
    BY <1>1 DEF CppSubscriber, CSubscriber, ZigSubscriber, JavaSubscriber
  <1>2. CASE a = "participant_config"
    BY <1>2 DEF ConfigCppSubscriber, ConfigCSubscriber, ConfigZigSubscriber,
                ConfigJavaSubscriber
  <1>3. CASE a = "discovery"
    BY <1>3 DEF DiscoveryCppSubscriber, DiscoveryCSubscriber, DiscoveryZigSubscriber,
                DiscoveryJavaSubscriber
  <1> QED
    BY <1>1, <1>2, <1>3 DEF Apps

\* Where each step of a subscriber's main program leads, port by port.
LEMMA SubscriberSteps ==
    ASSUME NEW a \in Apps, NEW p \in Ports
    PROVE  /\ SubscriberProgram[a][p]["create"]
                = IF p # "zig" THEN "bind"
                  ELSE IF a = "discovery" THEN "lookup" ELSE "await"
           /\ p # "zig" => SubscriberProgram[a][p]["bind"]
                = IF a = "hello_world" THEN "await" ELSE "attach"
           /\ p # "zig" /\ a # "hello_world" => SubscriberProgram[a][p]["attach"]
                = IF a = "discovery" THEN "lookup" ELSE "await"
           /\ a = "discovery" => SubscriberProgram[a][p]["lookup"] = "await"
           /\ SubscriberProgram[a][p]["await"] = "delete"
           /\ SubscriberProgram[a][p]["delete"] = IF p = "java" THEN "ok" ELSE "leave"
           /\ p # "java" => SubscriberProgram[a][p]["leave"] = "ok"
           /\ "bind" \in DOMAIN SubscriberProgram[a][p] <=> p # "zig"
           /\ "attach" \in DOMAIN SubscriberProgram[a][p]
                <=> p # "zig" /\ a # "hello_world"
  <1>1. CASE p = "zig"
    <2>1. SubscriberProgram[a][p]
            = IF a = "discovery" THEN OwnLookupSubscriber ELSE OwnSubscriber
      BY <1>1, SubscriberPrograms
    <2> QED
      BY <1>1, <2>1 DEF OwnLookupSubscriber, OwnSubscriber
  <1>2. CASE p \in {"cpp", "c"}
    <2>1. SubscriberProgram[a][p] = SharedReader(a)
      BY <1>2, SubscriberPrograms
    <2> QED
      BY <1>2, <2>1
         DEF Apps, SharedReader, EarlySubscriber, LateSubscriber, LateLookupSubscriber
  <1>3. CASE p = "java"
    <2>1. SubscriberProgram[a][p] = [SharedReader(a) EXCEPT !.delete = "ok"]
      BY <1>3, SubscriberPrograms DEF ExitsAtOnce
    <2> QED
      BY <1>3, <2>1
         DEF Apps, SharedReader, EarlySubscriber, LateSubscriber, LateLookupSubscriber
  <1> QED
    BY <1>1, <1>2, <1>3 DEF Ports

-----------------------------------------------------------------------------
\* The invariant holds initially.
LEMMA InitInv == Init => IInv
  <1> SUFFICES ASSUME Init PROVE IInv
    OBVIOUS
  <1> USE SampleCountAssumption DEF Init
  <1>1. TypeOK
    <2>1. /\ listening \in BOOLEAN /\ readerReady \in BOOLEAN /\ everMatched \in BOOLEAN
          /\ attached \in BOOLEAN /\ bound \in BOOLEAN /\ notified \in BOOLEAN
          /\ allReceived \in BOOLEAN
          /\ nullTaken \in BOOLEAN
      BY Zenon
    <2>2. /\ matchedCount \in {0, 1} /\ written \in 0 .. SampleCount
          /\ arrived \in 0 .. SampleCount /\ taken \in 0 .. SampleCount
          /\ expectedNext \in 0 .. SampleCount
      OBVIOUS
    <2> QED
      BY <2>1, <2>2 DEF TypeOK, PubSteps, PubExits, SubSteps, SubExits, PubStores, Events
  <1>2. InProgram /\ Assigned /\ Gated /\ Aligned
    BY DEF InProgram, Assigned, Gated, Aligned
  <1>3. Departures /\ Finished
    BY DEF Departures, Finished
  <1>4. NoGap /\ DoneAfterDeparture /\ WindowClosed /\ LookupFindsPeer
    BY DEF NoGap, DoneAfterDeparture, WindowClosed, LookupFindsPeer
  <1> QED
    BY <1>1, <1>2, <1>3, <1>4 DEF IInv

\* Every step of the publisher's main thread keeps the invariant.
LEMMA PubMainInv == ASSUME IInv, PubMain PROVE IInv'
  <1> USE SampleCountAssumption
      DEF IInv, TypeOK, Environments, PubSteps, PubExits, SubSteps, SubExits, PubStores,
          Events, InProgram, Assigned, Gated, Aligned, Departures, Finished,
          NoGap, DoneAfterDeparture, WindowClosed, LookupFindsPeer, ReaderGone,
          PubNext, PubProgram, netVars, subVars
  <1>0. env.app \in Apps /\ env.pub \in Ports /\ env.sub \in Ports
    OBVIOUS
  <1>1. CASE PubCreate
    BY <1>1, <1>0, PublisherSteps DEF PubCreate
  <1>2. CASE PubAttach
    BY <1>2, <1>0, PublisherSteps DEF PubAttach
  <1>3. CASE PubAwaitReady
    BY <1>3, <1>0, PublisherSteps DEF PubAwaitReady
  <1>4. CASE PubWrite
    BY <1>4, <1>0, PublisherSteps DEF PubWrite
  <1>5. CASE PubDrainEver
    BY <1>5 DEF PubDrainEver
  <1>6. CASE PubDrainCount
    BY <1>6, <1>0, PublisherSteps DEF PubDrainCount
  <1>7. CASE PubDeadline
    BY <1>7 DEF PubDeadline
  <1>8. CASE PubLookup
    <2>1. CASE link \in {"matched", "ready"}
      BY <1>8, <2>1, <1>0, PublisherSteps DEF PubLookup
    <2>2. CASE link \notin {"matched", "ready"}
      <3>1. link = "gone" /\ ReaderGone /\ subPc \notin {"leave", "ok"}
        BY <1>8, <2>2 DEF PubLookup
      <3> QED
        BY <1>8, <2>2, <3>1 DEF PubLookup
    <2> QED
      BY <2>1, <2>2
  <1> QED
    BY <1>1, <1>2, <1>3, <1>4, <1>5, <1>6, <1>7, <1>8 DEF PubMain

\* Every step of the publisher's dispatch thread keeps the invariant.
LEMMA PubListenerInv == ASSUME IInv, PubListener PROVE IInv'
  <1> USE SampleCountAssumption
      DEF IInv, TypeOK, PubSteps, PubExits, SubSteps, SubExits, PubStores, Events,
          InProgram, Assigned, Gated, Aligned, Departures, Finished, NoGap,
          DoneAfterDeparture, WindowClosed, LookupFindsPeer, ReaderGone, netVars, subVars
  <1>1. CASE PubDispatch
    BY <1>1 DEF PubDispatch
  <1>2. CASE OnReliableReaderReady
    BY <1>2 DEF OnReliableReaderReady
  <1>3. CASE OnPublicationMatched
    <2>1. CASE pubCb = "matchCount"
      BY <1>3, <2>1 DEF OnPublicationMatched
    <2>2. CASE pubCb = "matchEver"
      BY <1>3, <2>2 DEF OnPublicationMatched
    <2>3. CASE pubCb = "unmatchCount"
      BY <1>3, <2>3 DEF OnPublicationMatched
    <2> QED
      BY <1>3, <2>1, <2>2, <2>3 DEF OnPublicationMatched
  <1> QED
    BY <1>1, <1>2, <1>3 DEF PubListener

\* Every step of the middleware keeps the invariant.
LEMMA MiddlewareInv == ASSUME IInv, Middleware PROVE IInv'
  <1> USE SampleCountAssumption
      DEF IInv, TypeOK, PubSteps, PubExits, SubSteps, SubExits, PubStores, Events,
          InProgram, Assigned, Gated, Aligned, Departures, Finished, NoGap,
          DoneAfterDeparture, WindowClosed, LookupFindsPeer, ReaderGone,
          pubVars, subVars, Raise
  <1>1. CASE Match
    BY <1>1 DEF Match
  <1>2. CASE Handshake
    BY <1>2 DEF Handshake
  <1>3. CASE Deliver
    <2>1. notified' \in BOOLEAN
      BY <1>3 DEF Deliver, NotifyReader
    <2> QED
      BY <1>3, <2>1 DEF Deliver
  <1>4. CASE Depart
    BY <1>4 DEF Depart
  <1> QED
    BY <1>1, <1>2, <1>3, <1>4 DEF Middleware

\* What create_datareader leaves behind, port by port.
LEMMA CreateLeads ==
    ASSUME SubCreate, env.app \in Apps, env.sub \in Ports
    PROVE  /\ subPc' = IF env.sub # "zig" THEN "bind"
                       ELSE IF env.app = "discovery" THEN "lookup" ELSE "await"
           /\ bound' \in BOOLEAN
           /\ attached' \in BOOLEAN
           /\ env.sub = "zig" => bound'
           /\ attached' => env.sub = "zig" \/ env.app = "hello_world"
  <1>1. subPc' = SubscriberProgram[env.app][env.sub]["create"]
    BY DEF SubCreate, SubNext, SubProgram
  <1>2. bound' = ("bind" \notin DOMAIN SubscriberProgram[env.app][env.sub])
    BY DEF SubCreate, SubProgram
  <1>3. attached' = ("attach" \notin DOMAIN SubscriberProgram[env.app][env.sub])
    BY DEF SubCreate, SubProgram
  <1>4. bound' \in BOOLEAN /\ attached' \in BOOLEAN
    BY <1>2, <1>3
  <1>5. env.sub = "zig" => bound'
    BY <1>2, SubscriberSteps
  <1>6. attached' => env.sub = "zig" \/ env.app = "hello_world"
    BY <1>3, SubscriberSteps
  <1> QED
    BY <1>1, <1>4, <1>5, <1>6, SubscriberSteps

\* Every step of the subscriber's main thread keeps the invariant.
LEMMA SubMainInv == ASSUME IInv, SubMain PROVE IInv'
  <1> USE SampleCountAssumption
      DEF IInv, TypeOK, Environments, PubSteps, PubExits, SubSteps, SubExits, PubStores,
          Events, InProgram, Assigned, Gated, Aligned, Departures, Finished,
          NoGap, DoneAfterDeparture, WindowClosed, LookupFindsPeer, ReaderGone,
          SubNext, SubProgram, pubVars, netVars
  <1>0. env.app \in Apps /\ env.sub \in Ports
    OBVIOUS
  <1>1. CASE SubCreate
    <2>1. /\ subPc' \in {"bind", "lookup", "await"}
          /\ subPc' = "bind" => env.sub # "zig"
          /\ subPc' = "lookup" => env.app = "discovery"
          /\ subPc' # "bind" => bound'
          /\ env.app # "hello_world" /\ attached' => bound'
          /\ bound' \in BOOLEAN
          /\ attached' \in BOOLEAN
      BY <1>1, <1>0, CreateLeads
    <2>2. TypeOK'
      BY <1>1, <2>1 DEF SubCreate
    <2>3. ReaderGone' <=> ReaderGone
      BY <1>1, <2>1 DEF SubCreate
    <2>4. InProgram' /\ Assigned'
      BY <1>1, <2>1 DEF SubCreate
    <2>5. Gated' /\ Aligned' /\ Finished'
      BY <1>1, <2>1 DEF SubCreate
    <2>6. Departures' /\ DoneAfterDeparture'
      BY <1>1, <2>3 DEF SubCreate
    <2>7. NoGap' /\ WindowClosed' /\ LookupFindsPeer'
      BY <1>1, <2>1 DEF SubCreate
    <2> QED
      BY <2>2, <2>4, <2>5, <2>6, <2>7
  <1>2. CASE SubBind
    BY <1>2, <1>0, SubscriberSteps DEF SubBind
  <1>3. CASE SubAwait
    BY <1>3, <1>0, SubscriberSteps DEF SubAwait
  <1>4. CASE SubDelete
    BY <1>4, <1>0, SubscriberSteps DEF SubDelete
  <1>5. CASE SubLeave
    BY <1>5, <1>0, SubscriberSteps DEF SubLeave
  <1>6. CASE SubDeadline
    BY <1>6 DEF SubDeadline
  <1>7. CASE SubAttach
    BY <1>7, <1>0, SubscriberSteps DEF SubAttach
  <1>8. CASE SubLookup
    <2>1. CASE SubNext("lookup")
      BY <1>8, <2>1, <1>0, SubscriberSteps DEF SubLookup
    <2>2. CASE ~PubRuns /\ subPc' = "unmatched"
      BY <1>8, <2>2 DEF SubLookup, PubRuns
    <2> QED
      BY <1>8, <2>1, <2>2 DEF SubLookup
  <1> QED
    BY <1>1, <1>2, <1>3, <1>4, <1>5, <1>6, <1>7, <1>8 DEF SubMain

\* Every step of the subscriber's dispatch thread keeps the invariant.
LEMMA SubListenerInv == ASSUME IInv, SubListener PROVE IInv'
  <1> USE SampleCountAssumption
      DEF IInv, TypeOK, PubSteps, PubExits, SubSteps, SubExits, PubStores, Events,
          InProgram, Assigned, Gated, Aligned, Departures, Finished, NoGap,
          DoneAfterDeparture, WindowClosed, LookupFindsPeer, ReaderGone,
          SubRuns, pubVars, netVars
  <1>1. CASE OnDataAvailable
    <2>1. notified' \in BOOLEAN
      BY <1>1 DEF OnDataAvailable
    <2> QED
      BY <1>1, <2>1 DEF OnDataAvailable, ReaderExists
  <1>2. CASE TakeNull
    BY <1>2 DEF TakeNull
  <1>3. CASE Take
    BY <1>3 DEF Take
  <1>4. CASE Check
    BY <1>4 DEF Check
  <1>5. CASE Flag
    BY <1>5 DEF Flag
  <1> QED
    BY <1>1, <1>2, <1>3, <1>4, <1>5 DEF SubListener

\* A call that fails keeps the invariant.
LEMMA FailuresInv == ASSUME IInv, Failures PROVE IInv'
  <1> USE SampleCountAssumption
      DEF IInv, TypeOK, PubSteps, PubExits, SubSteps, SubExits, PubStores, Events,
          InProgram, Assigned, Gated, Aligned, Departures, Finished, NoGap,
          DoneAfterDeparture, WindowClosed, LookupFindsPeer, ReaderGone,
          pubVars, netVars, subVars
  <1>1. CASE PubCallFails
    BY <1>1 DEF PubCallFails
  <1>2. CASE SubCallFails
    BY <1>2 DEF SubCallFails
  <1>3. CASE TakeFails
    BY <1>3 DEF TakeFails, ReaderExists
  <1> QED
    BY <1>1, <1>2, <1>3 DEF Failures

\* A stuttering step keeps the invariant.
LEMMA StutterInv == ASSUME IInv, UNCHANGED vars PROVE IInv'
  BY DEF IInv, TypeOK, InProgram, Assigned, Gated, Aligned, Departures, Finished, NoGap,
         DoneAfterDeparture, WindowClosed, LookupFindsPeer, PubExits, SubExits,
         ReaderGone, vars, pubVars, netVars, subVars

\* IInv is an invariant of the pair, whatever the ports and SampleCount.
LEMMA Invariance == Spec => []IInv
  <1>1. IInv /\ [Next]_vars => IInv'
    BY PubMainInv, PubListenerInv, MiddlewareInv, SubMainInv, SubListenerInv,
       FailuresInv, StutterInv DEF Next
  <1> QED
    BY <1>1, InitInv, PTL DEF Spec

-----------------------------------------------------------------------------
\* Every variable keeps its type.
THEOREM TypeCorrect == Spec => []TypeOK
  <1>1. IInv => TypeOK
    BY DEF IInv
  <1> QED
    BY <1>1, Invariance, PTL

\* The subscriber's listener never meets a count it does not expect.
THEOREM NoGapAlways == Spec => []NoGap
  <1>1. IInv => NoGap
    BY DEF IInv
  <1> QED
    BY <1>1, Invariance, PTL

\* The publisher is never done while the reader is still there.
THEOREM DoneAfterDepartureAlways == Spec => []DoneAfterDeparture
  <1>1. IInv => DoneAfterDeparture
    BY DEF IInv
  <1> QED
    BY <1>1, Invariance, PTL

\* Where set_listener follows the assignment, no callback meets an unassigned
\* reader.
THEOREM WindowClosedAlways == Spec => []WindowClosed
  <1>1. IInv => WindowClosed
    BY DEF IInv
  <1> QED
    BY <1>1, Invariance, PTL

\* A lookup that finds nobody means that the other process has failed.
THEOREM LookupFindsPeerAlways == Spec => []LookupFindsPeer
  <1>1. IInv => LookupFindsPeer
    BY DEF IInv
  <1> QED
    BY <1>1, Invariance, PTL

-----------------------------------------------------------------------------
\* A step of the publisher's main thread is a send, the finish, a surrender
\* or nothing at all to an observer of the handover.
LEMMA PubMainRefines ==
    ASSUME IInv, PubMain PROVE [Promise!Next]_(Promise!vars)
  <1> USE SampleCountAssumption
      DEF IInv, TypeOK, Environments, PubRuns, SubRuns, PubExits, SubExits, PubNext,
          PubProgram, netVars, subVars, Promise!vars
  <1>0. env.app \in Apps /\ env.pub \in Ports
    OBVIOUS
  <1>1. CASE PubCreate
    BY <1>1, <1>0, PublisherSteps DEF PubCreate
  <1>2. CASE PubAttach
    BY <1>2, <1>0, PublisherSteps DEF PubAttach
  <1>3. CASE PubAwaitReady
    BY <1>3, <1>0, PublisherSteps DEF PubAwaitReady
  <1>4. CASE PubWrite
    <2>1. CASE written < SampleCount
      BY <1>4, <2>1 DEF PubWrite, Promise!Next, Promise!Send
    <2>2. CASE ~(written < SampleCount)
      BY <1>4, <2>2, <1>0, PublisherSteps DEF PubWrite
    <2> QED
      BY <2>1, <2>2
  <1>5. CASE PubDrainEver
    BY <1>5 DEF PubDrainEver
  <1>6. CASE PubDrainCount
    <2>1. CASE matchedCount = 0
      BY <1>6, <2>1, <1>0, PublisherSteps
         DEF PubDrainCount, Departures, Finished, ReaderGone, Promise!Next, Promise!Finish
    <2>2. CASE matchedCount # 0
      BY <1>6, <2>2 DEF PubDrainCount
    <2> QED
      BY <2>1, <2>2
  <1>7. CASE PubDeadline
    BY <1>7 DEF PubDeadline, Promise!Next, Promise!PublisherGivesUp
  <1>8. CASE PubLookup
    <2>1. CASE link \in {"matched", "ready"}
      BY <1>8, <2>1, <1>0, PublisherSteps DEF PubLookup, InProgram
    <2>2. CASE link \notin {"matched", "ready"}
      BY <1>8, <2>2 DEF PubLookup, Promise!Next, Promise!PublisherGivesUp
    <2> QED
      BY <2>1, <2>2
  <1> QED
    BY <1>1, <1>2, <1>3, <1>4, <1>5, <1>6, <1>7, <1>8 DEF PubMain

\* The publisher's dispatch thread and the middleware change nothing an
\* observer of the handover sees.
LEMMA HiddenRefines ==
    ASSUME IInv, PubListener \/ Middleware PROVE UNCHANGED Promise!vars
  BY DEF PubListener, PubDispatch, OnReliableReaderReady, OnPublicationMatched,
         Middleware, Match, Handshake, Deliver, Depart, PubRuns, SubRuns,
         pubVars, netVars, subVars, Promise!vars

\* A step of the subscriber's main thread is its completion, a surrender or
\* nothing at all to an observer of the handover.
LEMMA SubMainRefines ==
    ASSUME IInv, SubMain PROVE [Promise!Next]_(Promise!vars)
  <1> USE SampleCountAssumption
      DEF IInv, TypeOK, Environments, PubRuns, SubRuns, SubExits, SubNext, SubProgram,
          pubVars, netVars, Promise!vars
  <1>0. env.app \in Apps /\ env.sub \in Ports
    OBVIOUS
  <1>1. CASE SubCreate
    BY <1>1, <1>0, SubscriberSteps DEF SubCreate
  <1>2. CASE SubBind
    BY <1>2, <1>0, SubscriberSteps DEF SubBind, InProgram
  <1>3. CASE SubAwait
    BY <1>3, <1>0, SubscriberSteps DEF SubAwait
  <1>4. CASE SubDelete
    BY <1>4, <1>0, SubscriberSteps
       DEF SubDelete, Finished, Promise!Next, Promise!Complete
  <1>5. CASE SubLeave
    BY <1>5, <1>0, SubscriberSteps DEF SubLeave, InProgram
  <1>6. CASE SubDeadline
    BY <1>6 DEF SubDeadline, Promise!Next, Promise!SubscriberGivesUp
  <1>7. CASE SubAttach
    BY <1>7, <1>0, SubscriberSteps DEF SubAttach, InProgram
  <1>8. CASE SubLookup
    <2>1. CASE SubNext("lookup")
      BY <1>8, <2>1, <1>0, SubscriberSteps DEF SubLookup, InProgram
    <2>2. CASE subPc' = "unmatched"
      BY <1>8, <2>2 DEF SubLookup, Promise!Next, Promise!SubscriberGivesUp
    <2> QED
      BY <1>8, <2>1, <2>2 DEF SubLookup
  <1> QED
    BY <1>1, <1>2, <1>3, <1>4, <1>5, <1>6, <1>7, <1>8 DEF SubMain

\* A step of the subscriber's dispatch thread is a receipt, a crash or
\* nothing at all to an observer of the handover.
LEMMA SubListenerRefines ==
    ASSUME IInv, SubListener PROVE [Promise!Next]_(Promise!vars)
  <1> USE SampleCountAssumption
      DEF IInv, TypeOK, PubRuns, SubRuns, SubExits, pubVars, netVars, Promise!vars
  <1>1. CASE OnDataAvailable
    BY <1>1 DEF OnDataAvailable
  <1>2. CASE TakeNull
    BY <1>2 DEF TakeNull, Assigned, Promise!Next, Promise!SubscriberGivesUp
  <1>3. CASE Take
    BY <1>3 DEF Take
  <1>4. CASE Check
    <2>1. expectedNext < written /\ taken - 1 = expectedNext
      BY <1>4 DEF Check, Aligned
    <2>2. subPc \notin {"leave", "ok"}
      BY <1>4, <2>1 DEF Check, Finished
    <2> QED
      BY <1>4, <2>1, <2>2 DEF Check, Promise!Next, Promise!Receive
  <1>5. CASE Flag
    BY <1>5 DEF Flag
  <1> QED
    BY <1>1, <1>2, <1>3, <1>4, <1>5 DEF SubListener

\* A call that fails is a surrender to an observer of the handover.
LEMMA FailuresRefine ==
    ASSUME IInv, Failures PROVE [Promise!Next]_(Promise!vars)
  <1> USE DEF PubRuns, SubRuns, PubExits, SubExits, ReaderExists, pubVars, netVars,
              subVars, Promise!vars, Promise!Next
  <1>1. CASE PubCallFails
    BY <1>1 DEF PubCallFails, Promise!PublisherGivesUp
  <1>2. CASE SubCallFails
    BY <1>2 DEF SubCallFails, Promise!SubscriberGivesUp
  <1>3. CASE TakeFails
    BY <1>3 DEF TakeFails, Promise!SubscriberGivesUp
  <1> QED
    BY <1>1, <1>2, <1>3 DEF Failures

\* The four threads and the middleware implement the ordered handover: what
\* the subscriber accepts is what was written, in order, it is complete only
\* with all of it, and the publisher is done only after it has left.
THEOREM ImplementsHandover == Spec => KeepsPromise
  <1>1. Init => Promise!Init
    BY DEF Init, Promise!Init, PubRuns, SubRuns, PubExits, SubExits
  <1>2. IInv /\ [Next]_vars => [Promise!Next]_(Promise!vars)
    <2>1. IInv /\ UNCHANGED vars => UNCHANGED Promise!vars
      BY DEF vars, pubVars, netVars, subVars, Promise!vars, PubRuns, SubRuns
    <2> QED
      BY <2>1, PubMainRefines, HiddenRefines, SubMainRefines, SubListenerRefines,
         FailuresRefine DEF Next
  <1> QED
    BY <1>1, <1>2, Invariance, PTL DEF Spec, KeepsPromise, Promise!Spec
=============================================================================
