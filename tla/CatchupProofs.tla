---------------------------- MODULE CatchupProofs ----------------------------
(***************************************************************************)
(* Proofs about Catchup, for every size of the two batches and every pair  *)
(* of ports.  IInv is the inductive invariant: the type invariant and six  *)
(* groups of facts, about what the publisher has written, how far each     *)
(* sample has come, what a departure means, what main counts, and what the *)
(* two threads of the subscriber know of each other.                       *)
(***************************************************************************)
EXTENDS Catchup, TLAPS

\* What has been written at each step of the publisher.
WrittenSoFar ==
    /\ pubPc \in {"create", "attach"} => written = 0
    /\ pubPc = "historical" => written =< HistoricalCount
    /\ pubPc = "awaitMatch" => written = HistoricalCount
    /\ pubPc = "live" => written >= HistoricalCount
    /\ pubPc \in {"drain", "drainCount", "done"} => written = Total

\* How far the samples have come: written, arrived, taken, stored, visible.
Lags ==
    /\ recordedSeen =< recorded
    /\ taken = recorded + (IF subCb = "record" THEN 1 ELSE 0)
    /\ taken =< arrived
    /\ arrived =< written
    /\ confirmedSeen => confirmed
    /\ SequentiallyConsistent => recordedSeen = recorded /\ (confirmed => confirmedSeen)

\* What the publisher's flags say about the reader.
Departures ==
    /\ link = "gone" \/ "unmatched" \in events \/ pubCb = "unmatchCount"
          => ReaderGone
    /\ pubCb = "matchEver" => matchedCount = 1
    /\ everMatched /\ matchedCount = 0 => ReaderGone
    /\ pubPc = "drainCount" => everMatched

\* A decision that the run is complete, taken by either thread, is right, and
\* main only leaves with it.
Decided ==
    /\ allDone \/ becameDone => confirmed /\ recorded = Total
    /\ subPc \in {"recheck", "await"} => confirmed
    /\ subPc \in {"delete", "leave", "ok"} => allDone
    /\ subPc = "leave" => env.sub # "java"

\* A late reader finds the whole historical batch in the writer's cache, and
\* has it in its own when wait_for_historical_data has returned.  What has
\* arrived and is not taken is due to the listener.
BatchThere ==
    /\ env.ordered /\ ReaderExists => pubPc \notin {"create", "attach", "historical"}
    /\ env.ordered /\ link # "none" => history >= HistoricalCount
    /\ env.ordered /\ subPc = "count" => arrived >= HistoricalCount
    /\ subPc = "create" => arrived = 0
    /\ env.replays /\ ReaderExists /\ taken < arrived => notified \/ subCb # "idle"

\* With every flag stored and main polling, somebody has decided or is about to.
Noticed ==
    SequentiallyConsistent /\ recorded = Total /\ subPc = "await"
        => allDone \/ subCb = "test" \/ (subCb = "take" /\ becameDone)

IInv ==
    /\ TypeOK
    /\ WrittenSoFar
    /\ Lags
    /\ Departures
    /\ Decided
    /\ BatchThere
    /\ Noticed

-----------------------------------------------------------------------------
\* Where each step of a publisher's main program leads: the ports agree.
LEMMA PublisherSteps ==
    ASSUME NEW p \in Ports
    PROVE  /\ PublisherProgram[p]["create"] = "attach"
           /\ PublisherProgram[p]["attach"] = "historical"
           /\ PublisherProgram[p]["historical"] = "awaitMatch"
           /\ PublisherProgram[p]["awaitMatch"] = "live"
           /\ PublisherProgram[p]["live"] = "drain"
           /\ PublisherProgram[p]["drain"] = "done"
  BY DEF Ports, PublisherProgram, CppPublisher, CPublisher, ZigPublisher, JavaPublisher

\* Where each step of a subscriber's main program leads: only Java's exits at
\* once.
LEMMA SubscriberSteps ==
    ASSUME NEW p \in Ports
    PROVE  /\ SubscriberProgram[p]["create"] = "attach"
           /\ SubscriberProgram[p]["attach"] = "history"
           /\ SubscriberProgram[p]["history"] = "count"
           /\ SubscriberProgram[p]["count"] = "confirm"
           /\ SubscriberProgram[p]["confirm"] = "recheck"
           /\ SubscriberProgram[p]["recheck"] = "await"
           /\ SubscriberProgram[p]["await"] = "delete"
           /\ SubscriberProgram[p]["delete"] = IF p = "java" THEN "ok" ELSE "leave"
           /\ p # "java" => SubscriberProgram[p]["leave"] = "ok"
  BY DEF Ports, SubscriberProgram, CppSubscriber, CSubscriber, ZigSubscriber,
         JavaSubscriber

\* The two batches together are more than either of them.
LEMMA BatchSizes ==
    /\ HistoricalCount \in Nat /\ LiveCount \in Nat /\ Total \in Nat
    /\ HistoricalCount > 0
    /\ HistoricalCount < Total
  BY HistoricalAssumption, LiveAssumption DEF Total

\* The ports of a behaviour are ports.
LEMMA EnvironmentPorts ==
    ASSUME TypeOK PROVE env.pub \in Ports /\ env.sub \in Ports
  BY PortsAssumption DEF TypeOK, Environments

-----------------------------------------------------------------------------
\* The invariant holds initially.
LEMMA InitInv == Init => IInv
  <1> SUFFICES ASSUME Init PROVE IInv
    OBVIOUS
  <1> USE BatchSizes DEF Init
  <1>1. TypeOK
    <2>1. /\ listening \in BOOLEAN /\ everMatched \in BOOLEAN /\ notified \in BOOLEAN
          /\ becameDone \in BOOLEAN /\ confirmed \in BOOLEAN
          /\ confirmedSeen \in BOOLEAN /\ allDone \in BOOLEAN
      BY Zenon
    <2>2. /\ matchedCount \in {0, 1} /\ written \in 0 .. Total
          /\ history \in 0 .. Total /\ arrived \in 0 .. Total
          /\ taken \in 0 .. Total /\ recorded \in 0 .. Total
          /\ recordedSeen \in 0 .. Total
      OBVIOUS
    <2> QED
      BY <2>1, <2>2 DEF TypeOK, PubSteps, PubExits, SubSteps, SubExits
  <1>2. WrittenSoFar /\ Lags /\ Departures
    BY DEF WrittenSoFar, Lags, Departures
  <1>3. Decided /\ BatchThere /\ Noticed
    BY DEF Decided, BatchThere, Noticed, ReaderExists, SubSteps
  <1> QED
    BY <1>1, <1>2, <1>3 DEF IInv

\* Every step of the publisher's main thread keeps the invariant.
LEMMA PubMainInv == ASSUME IInv, PubMain PROVE IInv'
  <1> USE BatchSizes
      DEF IInv, TypeOK, PubSteps, PubExits, SubSteps, SubExits, WrittenSoFar, Lags,
          Departures, Decided, BatchThere, Noticed, ReaderGone, ReaderExists,
          SequentiallyConsistent, PubNext, netVars, subVars, listenerVars, seenVars
  <1>0. env.pub \in Ports
    BY EnvironmentPorts
  <1>1. CASE PubCreate
    BY <1>1, <1>0, PublisherSteps DEF PubCreate
  <1>2. CASE PubAttach
    BY <1>2, <1>0, PublisherSteps DEF PubAttach
  <1>3. CASE PubWriteHistorical
    BY <1>3, <1>0, PublisherSteps DEF PubWriteHistorical, WriteUpTo
  <1>4. CASE PubAwaitMatch
    BY <1>4, <1>0, PublisherSteps DEF PubAwaitMatch
  <1>5. CASE PubWriteLive
    BY <1>5, <1>0, PublisherSteps DEF PubWriteLive, WriteUpTo
  <1>6. CASE PubDrainEver
    BY <1>6 DEF PubDrainEver
  <1>7. CASE PubDrainCount
    BY <1>7, <1>0, PublisherSteps DEF PubDrainCount
  <1>8. CASE PubDeadline
    BY <1>8 DEF PubDeadline
  <1> QED
    BY <1>1, <1>2, <1>3, <1>4, <1>5, <1>6, <1>7, <1>8 DEF PubMain

\* Every step of the publisher's dispatch thread keeps the invariant.
LEMMA PubListenerInv == ASSUME IInv, PubListener PROVE IInv'
  <1> USE BatchSizes
      DEF IInv, TypeOK, PubSteps, PubExits, SubSteps, SubExits, WrittenSoFar, Lags,
          Departures, Decided, BatchThere, Noticed, ReaderGone, ReaderExists,
          SequentiallyConsistent, netVars, subVars, listenerVars, seenVars
  <1>1. CASE PubDispatch
    BY <1>1 DEF PubDispatch
  <1>2. CASE OnPublicationMatched
    <2>1. CASE pubCb = "matchCount"
      BY <1>2, <2>1 DEF OnPublicationMatched
    <2>2. CASE pubCb = "matchEver"
      BY <1>2, <2>2 DEF OnPublicationMatched
    <2>3. CASE pubCb = "unmatchCount"
      BY <1>2, <2>3 DEF OnPublicationMatched
    <2> QED
      BY <1>2, <2>1, <2>2, <2>3 DEF OnPublicationMatched
  <1> QED
    BY <1>1, <1>2 DEF PubListener

\* Every step of the middleware keeps the invariant.
LEMMA MiddlewareInv == ASSUME IInv, Middleware \/ BecomesVisible PROVE IInv'
  <1> USE BatchSizes
      DEF IInv, TypeOK, PubSteps, PubExits, SubSteps, SubExits, WrittenSoFar, Lags,
          Departures, Decided, BatchThere, Noticed, ReaderGone, ReaderExists,
          SequentiallyConsistent, pubVars, netVars, subVars, listenerVars, seenVars
  <1>1. CASE Match
    <2>1. env.ordered => written >= HistoricalCount
      BY <1>1 DEF Match, WriterExists
    <2> QED
      BY <1>1, <2>1 DEF Match, Raise
  <1>2. CASE Deliver
    <2>1. notified' \in BOOLEAN /\ (env.replays => notified')
      BY <1>2, Zenon DEF Deliver
    <2>2. env' = env /\ subPc \in SubSteps \ {"create", "leave"}
      BY <1>2 DEF Deliver
    <2> QED
      BY <1>2, <2>1, <2>2 DEF Deliver
  <1>3. CASE Depart
    BY <1>3 DEF Depart, Raise
  <1>4. CASE BecomesVisible
    BY <1>4 DEF BecomesVisible
  <1> QED
    BY <1>1, <1>2, <1>3, <1>4 DEF Middleware

\* Every step of the subscriber's main thread keeps the invariant.
LEMMA SubMainInv == ASSUME IInv, SubMain PROVE IInv'
  <1> USE BatchSizes
      DEF IInv, TypeOK, PubSteps, PubExits, SubSteps, SubExits, WrittenSoFar, Lags,
          Departures, Decided, BatchThere, Noticed, ReaderGone, ReaderExists,
          SequentiallyConsistent, SubNext, pubVars, netVars, listenerVars, seenVars
  <1>0. env.sub \in Ports
    BY EnvironmentPorts
  <1>1. CASE SubCreate
    BY <1>1, <1>0, SubscriberSteps DEF SubCreate
  <1>2. CASE SubAttach
    BY <1>2, <1>0, SubscriberSteps DEF SubAttach
  <1>3. CASE SubAwaitHistory
    BY <1>3, <1>0, SubscriberSteps DEF SubAwaitHistory
  <1>4. CASE SubCount
    BY <1>4, <1>0, SubscriberSteps DEF SubCount
  <1>5. CASE SubConfirm
    <2>1. confirmed' \in BOOLEAN /\ confirmedSeen' \in BOOLEAN
      BY <1>5, Zenon DEF SubConfirm
    <2>2. confirmed' /\ (SequentiallyConsistent => confirmedSeen')
      BY <1>5 DEF SubConfirm
    <2>3. ReaderGone' <=> ReaderGone
      BY <1>5, <1>0, SubscriberSteps DEF SubConfirm
    <2> QED
      BY <1>5, <1>0, <2>1, <2>2, <2>3, SubscriberSteps DEF SubConfirm
  <1>6. CASE SubRecheck
    BY <1>6, <1>0, SubscriberSteps DEF SubRecheck
  <1>7. CASE SubAwait
    BY <1>7, <1>0, SubscriberSteps DEF SubAwait
  <1>8. CASE SubDelete
    BY <1>8, <1>0, SubscriberSteps DEF SubDelete
  <1>9. CASE SubLeave
    BY <1>9, <1>0, SubscriberSteps DEF SubLeave
  <1>10. CASE SubDeadline
    BY <1>10 DEF SubDeadline
  <1> QED
    BY <1>1, <1>2, <1>3, <1>4, <1>5, <1>6, <1>7, <1>8, <1>9, <1>10 DEF SubMain

\* Every step of the subscriber's dispatch thread keeps the invariant.
LEMMA SubListenerInv == ASSUME IInv, SubListener PROVE IInv'
  <1> USE BatchSizes
      DEF IInv, TypeOK, PubSteps, PubExits, SubSteps, SubExits, WrittenSoFar, Lags,
          Departures, Decided, BatchThere, Noticed, ReaderGone, ReaderExists,
          SequentiallyConsistent, SubRuns, pubVars, netVars, seenVars
  <1>1. CASE OnDataAvailable
    <2>1. notified' \in BOOLEAN /\ becameDone' \in BOOLEAN
      BY <1>1, Zenon DEF OnDataAvailable
    <2>2. ReaderExists
      BY <1>1 DEF OnDataAvailable
    <2> QED
      BY <1>1, <2>1, <2>2 DEF OnDataAvailable
  <1>2. CASE Take
    BY <1>2 DEF Take
  <1>3. CASE Record
    BY <1>3 DEF Record
  <1>4. CASE Test
    BY <1>4 DEF Test
  <1> QED
    BY <1>1, <1>2, <1>3, <1>4 DEF SubListener

\* A call that fails keeps the invariant.
LEMMA FailuresInv == ASSUME IInv, Failures PROVE IInv'
  <1> USE BatchSizes
      DEF IInv, TypeOK, PubSteps, PubExits, SubSteps, SubExits, WrittenSoFar, Lags,
          Departures, Decided, BatchThere, Noticed, ReaderGone, ReaderExists,
          SequentiallyConsistent, pubVars, netVars, subVars, listenerVars, seenVars
  <1>1. CASE PubCallFails
    BY <1>1 DEF PubCallFails
  <1>2. CASE SubCallFails
    BY <1>2 DEF SubCallFails
  <1>3. CASE TakeFails
    BY <1>3 DEF TakeFails
  <1> QED
    BY <1>1, <1>2, <1>3 DEF Failures

\* A stuttering step keeps the invariant.
LEMMA StutterInv == ASSUME IInv, UNCHANGED vars PROVE IInv'
  BY DEF IInv, TypeOK, WrittenSoFar, Lags, Departures, Decided, BatchThere, Noticed,
         PubExits, SubExits, SubSteps, ReaderGone, ReaderExists,
         SequentiallyConsistent, vars, pubVars, netVars, subVars, listenerVars, seenVars

\* IInv is an invariant of the pair, whatever the ports and the two batches.
LEMMA Invariance == Spec => []IInv
  <1>1. IInv /\ [Next]_vars => IInv'
    BY PubMainInv, PubListenerInv, MiddlewareInv, SubMainInv, SubListenerInv,
       FailuresInv, StutterInv DEF Next
  <1> QED
    BY <1>1, InitInv, PTL DEF Spec

-----------------------------------------------------------------------------
\* Every variable keeps its type, and the subscriber never finishes without
\* both batches: neither thread is fooled by what it sees of the other one's
\* flags, in whatever order they become visible.
THEOREM NeverDoneEarly == Spec => []CatchupInv
  <1>1. IInv => CatchupInv
    BY DEF IInv, CatchupInv, Decided, DoneMeansBothBatches
  <1> QED
    BY <1>1, Invariance, PTL

\* In a late subscriber that is told on attachment what came before, the
\* historical count is short only by what its own listener is about to store
\* or to make visible: the batch itself has arrived.
THEOREM ShortOnlyByLagAlways == Spec => []ShortOnlyByLag
  <1>1. IInv => ShortOnlyByLag
    BY HistoricalAssumption
       DEF IInv, TypeOK, BatchThere, Lags, ShortOnlyByLag, ReaderExists, SubSteps
  <1> QED
    BY <1>1, Invariance, PTL

\* With sequentially consistent atomics the two threads never both miss the
\* last sample.
THEOREM CompletionNeverMissed == Spec => []CompletionSeenSeqCst
  <1>1. IInv => CompletionSeenSeqCst
    BY DEF IInv, Noticed, CompletionSeenSeqCst, CompletionSeen
  <1> QED
    BY <1>1, Invariance, PTL

-----------------------------------------------------------------------------
\* A step of the publisher's main thread is a send, the finish, a surrender
\* or nothing at all to an observer of the handover.
LEMMA PubMainRefines ==
    ASSUME IInv, PubMain PROVE [Promise!Next]_(Promise!vars)
  <1> USE BatchSizes
      DEF IInv, TypeOK, PubRuns, SubRuns, PubExits, SubExits, PubNext, netVars, subVars,
          listenerVars, seenVars, Promise!vars
  <1>0. env.pub \in Ports
    BY EnvironmentPorts
  <1>1. CASE PubCreate
    BY <1>1, <1>0, PublisherSteps DEF PubCreate
  <1>2. CASE PubAttach
    BY <1>2, <1>0, PublisherSteps DEF PubAttach
  <1>3. CASE PubWriteHistorical
    <2>1. CASE written < HistoricalCount
      BY <1>3, <2>1 DEF PubWriteHistorical, WriteUpTo, Promise!Next, Promise!Send
    <2>2. CASE ~(written < HistoricalCount)
      BY <1>3, <2>2, <1>0, PublisherSteps DEF PubWriteHistorical, WriteUpTo
    <2> QED
      BY <2>1, <2>2
  <1>4. CASE PubAwaitMatch
    BY <1>4, <1>0, PublisherSteps DEF PubAwaitMatch
  <1>5. CASE PubWriteLive
    <2>1. CASE written < Total
      BY <1>5, <2>1 DEF PubWriteLive, WriteUpTo, Promise!Next, Promise!Send
    <2>2. CASE ~(written < Total)
      BY <1>5, <2>2, <1>0, PublisherSteps DEF PubWriteLive, WriteUpTo
    <2> QED
      BY <2>1, <2>2
  <1>6. CASE PubDrainEver
    BY <1>6 DEF PubDrainEver
  <1>7. CASE PubDrainCount
    <2>1. CASE matchedCount = 0
      BY <1>7, <2>1, <1>0, PublisherSteps
         DEF PubDrainCount, WrittenSoFar, Departures, ReaderGone, Promise!Next,
             Promise!Finish
    <2>2. CASE matchedCount # 0
      BY <1>7, <2>2 DEF PubDrainCount
    <2> QED
      BY <2>1, <2>2
  <1>8. CASE PubDeadline
    BY <1>8 DEF PubDeadline, Promise!Next, Promise!PublisherGivesUp
  <1> QED
    BY <1>1, <1>2, <1>3, <1>4, <1>5, <1>6, <1>7, <1>8 DEF PubMain

\* The publisher's dispatch thread and the middleware change nothing an
\* observer of the handover sees.
LEMMA HiddenRefines ==
    ASSUME IInv, PubListener \/ Middleware \/ BecomesVisible
    PROVE  UNCHANGED Promise!vars
  BY DEF PubListener, PubDispatch, OnPublicationMatched, Middleware, Match, Deliver,
         Depart, BecomesVisible, PubRuns, SubRuns, pubVars, netVars, subVars,
         listenerVars, seenVars, Promise!vars

\* A step of the subscriber's main thread is its completion, a surrender or
\* nothing at all to an observer of the handover.
LEMMA SubMainRefines ==
    ASSUME IInv, SubMain PROVE [Promise!Next]_(Promise!vars)
  <1> USE BatchSizes
      DEF IInv, TypeOK, PubRuns, SubRuns, SubExits, SubNext, pubVars, netVars,
          listenerVars, Promise!vars
  <1>0. env.sub \in Ports
    BY EnvironmentPorts
  <1>1. CASE SubCreate
    BY <1>1, <1>0, SubscriberSteps DEF SubCreate
  <1>2. CASE SubAttach
    BY <1>2, <1>0, SubscriberSteps DEF SubAttach
  <1>3. CASE SubAwaitHistory
    BY <1>3, <1>0, SubscriberSteps DEF SubAwaitHistory
  <1>4. CASE SubCount
    <2>1. CASE recordedSeen >= HistoricalCount
      BY <1>4, <2>1, <1>0, SubscriberSteps DEF SubCount
    <2>2. CASE ~(recordedSeen >= HistoricalCount)
      BY <1>4, <2>2 DEF SubCount, Promise!Next, Promise!SubscriberGivesUp
    <2> QED
      BY <2>1, <2>2
  <1>5. CASE SubConfirm
    BY <1>5, <1>0, SubscriberSteps DEF SubConfirm
  <1>6. CASE SubRecheck
    BY <1>6, <1>0, SubscriberSteps DEF SubRecheck
  <1>7. CASE SubAwait
    BY <1>7, <1>0, SubscriberSteps DEF SubAwait
  <1>8. CASE SubDelete
    BY <1>8, <1>0, SubscriberSteps DEF SubDelete, Decided, Promise!Next, Promise!Complete
  <1>9. CASE SubLeave
    BY <1>9, <1>0, SubscriberSteps DEF SubLeave, Decided
  <1>10. CASE SubDeadline
    BY <1>10 DEF SubDeadline, Promise!Next, Promise!SubscriberGivesUp
  <1> QED
    BY <1>1, <1>2, <1>3, <1>4, <1>5, <1>6, <1>7, <1>8, <1>9, <1>10 DEF SubMain

\* A step of the subscriber's dispatch thread is a receipt or nothing at all
\* to an observer of the handover.
LEMMA SubListenerRefines ==
    ASSUME IInv, SubListener PROVE [Promise!Next]_(Promise!vars)
  <1> USE BatchSizes
      DEF IInv, TypeOK, PubRuns, SubRuns, SubExits, pubVars, netVars, Promise!vars
  <1>1. CASE OnDataAvailable
    BY <1>1 DEF OnDataAvailable
  <1>2. CASE Take
    BY <1>2 DEF Take
  <1>3. CASE Record
    <2>1. recorded < written /\ taken = recorded + 1
      BY <1>3 DEF Record, Lags
    <2>2. subPc \notin {"leave", "ok"}
      BY <1>3, <2>1 DEF Record, Decided
    <2> QED
      BY <1>3, <2>1, <2>2 DEF Record, Promise!Next, Promise!Receive
  <1>4. CASE Test
    BY <1>4 DEF Test
  <1> QED
    BY <1>1, <1>2, <1>3, <1>4 DEF SubListener

\* A call that fails is a surrender to an observer of the handover.
LEMMA FailuresRefine ==
    ASSUME IInv, Failures PROVE [Promise!Next]_(Promise!vars)
  <1> USE DEF PubRuns, SubRuns, PubExits, SubExits, SubSteps, ReaderExists, pubVars,
              netVars, subVars, listenerVars, Promise!vars, Promise!Next
  <1>1. CASE PubCallFails
    BY <1>1 DEF PubCallFails, Promise!PublisherGivesUp
  <1>2. CASE SubCallFails
    BY <1>2 DEF SubCallFails, Promise!SubscriberGivesUp
  <1>3. CASE TakeFails
    BY <1>3 DEF TakeFails, Promise!SubscriberGivesUp
  <1> QED
    BY <1>1, <1>2, <1>3 DEF Failures

\* The four threads, the middleware and the memory implement the ordered
\* handover: what the subscriber stores is what was written, in order, it is
\* complete only with both batches, and the publisher is done only after it
\* has left.
THEOREM ImplementsHandover == Spec => KeepsPromise
  <1>1. Init => Promise!Init
    BY DEF Init, Promise!Init, PubRuns, SubRuns, PubExits, SubExits
  <1>2. IInv /\ [Next]_vars => [Promise!Next]_(Promise!vars)
    <2>1. IInv /\ UNCHANGED vars => UNCHANGED Promise!vars
      BY DEF vars, pubVars, netVars, subVars, listenerVars, Promise!vars, PubRuns, SubRuns
    <2> QED
      BY <2>1, PubMainRefines, HiddenRefines, SubMainRefines, SubListenerRefines,
         FailuresRefine DEF Next
  <1> QED
    BY <1>1, <1>2, Invariance, PTL DEF Spec, KeepsPromise, Promise!Spec
=============================================================================
