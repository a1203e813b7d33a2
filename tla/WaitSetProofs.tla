---------------------------- MODULE WaitSetProofs ----------------------------
(***************************************************************************)
(* Proofs about WaitSet, for every SampleCount, every threshold and every  *)
(* pair of ports.  IInv is the inductive invariant: the type invariant,    *)
(* where each thread is, what the publisher knows of the reader, and where *)
(* each sample is on its way from the writer to the label.                 *)
(***************************************************************************)
EXTENDS WaitSet, FiniteSetTheorems, TLAPS

Validates == SubscriberProgram[env.sub].counts = "valid"

Printed == printedHigh \cup printedLow

\* The batches main has taken and not yet labelled.
HighInHand == IF pc["sub"] \in {"takeLow", "label"} THEN highTaken ELSE {}
LowInHand  == IF pc["sub"] = "label" THEN lowTaken ELSE {}

\* The notice has left the cache and has been counted, or passed over.
NoticeGone == link = "lost" /\ Invalid \notin cache /\ Invalid \notin LowInHand

PcType == pc \in [Sides -> PubSteps \cup SubSteps \cup Exits]

\* Where main is while its watchdog is in a given state.
Watched ==
    \A side \in Sides :
        /\ pc[side] = "setup" => dog[side] = "off"
        /\ pc[side] \in {"cleanup", "done"} => dog[side] = "ended"
        /\ pc[side] = "failed" /\ env[side] = "cpp" => dog[side] \in {"off", "ended"}

\* The publisher has seen the match before it waits for the departure.
Departures ==
    /\ pc["pub"] \in {"write", "awaitGone", "gone"} /\ current["pub"] = 0 => ReaderGone
    /\ DoneAfterDeparture

\* A sample is in one place: under way, in the cache, in hand, or printed.
Placed ==
    /\ \A s \in cache \cup HighInHand \cup LowInHand \cup Printed :
          s # Invalid => s < arrived
    /\ cache \cap (HighInHand \cup LowInHand \cup Printed) = {}
    /\ HighInHand \cap LowInHand = {}
    /\ (HighInHand \cup LowInHand) \cap Printed = {}
    /\ Invalid \in cache \cup LowInHand => link = "lost"
    /\ link \in {"none", "matched"} => arrived = 0
    /\ LabelsRight

\* main's count is the number of printed samples, and one more where a notice
\* is counted.
Counts ==
    /\ Validates => received = Cardinality(Printed)
    /\ received =< Cardinality(Printed) + (IF NoticeGone THEN 1 ELSE 0)
    /\ AllReceivedIfValidated

IInv ==
    /\ TypeOK
    /\ PcType
    /\ Watched
    /\ Departures
    /\ Placed
    /\ Counts

-----------------------------------------------------------------------------
\* Where each step of a publisher's main program leads.
LEMMA PublisherSteps ==
    ASSUME NEW p \in Ports
    PROVE  /\ PublisherProgram[p].setup = "awaitMatch"
           /\ PublisherProgram[p]["match"] = "write"
           /\ PublisherProgram[p].write = "awaitGone"
           /\ PublisherProgram[p]["gone"] = "stop"
           /\ PublisherProgram[p].gone = "stop"
           /\ PublisherProgram[p].stop = "join"
           /\ PublisherProgram[p].join = "cleanup"
           /\ PublisherProgram[p].cleanup = "done"
           /\ PublisherProgram[p].fail = IF p = "cpp" THEN "unwind" ELSE "failed"
  BY DEF Ports, PublisherProgram, CppPublisher, CPublisher, ZigPublisher, JavaPublisher

\* Where each step of a subscriber's main program leads.
LEMMA SubscriberSteps ==
    ASSUME NEW p \in Ports
    PROVE  /\ SubscriberProgram[p].setup = "wait"
           /\ SubscriberProgram[p].label = "stop"
           /\ SubscriberProgram[p].stop = "join"
           /\ SubscriberProgram[p].join = "cleanup"
           /\ SubscriberProgram[p].cleanup = "done"
           /\ SubscriberProgram[p].fail = IF p = "cpp" THEN "unwind" ELSE "failed"
           /\ SubscriberProgram[p].counts = IF p = "zig" THEN "all" ELSE "valid"
  BY DEF Ports, SubscriberProgram, CppSubscriber, CSubscriber, ZigSubscriber,
         JavaSubscriber

\* What the programs of the two sides have in common.
LEMMA ProgramSteps ==
    ASSUME TypeOK, NEW side \in Sides
    PROVE  /\ env[side] \in Ports
           /\ Program(side).setup = IF side = "pub" THEN "awaitMatch" ELSE "wait"
           /\ Program(side).stop = "join"
           /\ Program(side).join = "cleanup"
           /\ Program(side).cleanup = "done"
           /\ Program(side).fail = IF env[side] = "cpp" THEN "unwind" ELSE "failed"
  <1>1. env.pub \in Ports /\ env.sub \in Ports
    BY PortsAssumption DEF TypeOK, Environments
  <1>2. CASE side = "pub"
    BY <1>1, <1>2, PublisherSteps DEF Program
  <1>3. CASE side = "sub"
    BY <1>1, <1>3, SubscriberSteps DEF Program
  <1> QED
    BY <1>2, <1>3 DEF Sides

\* A step of main that leads elsewhere leaves the other main where it is.
LEMMA Going ==
    ASSUME PcType, NEW side \in Sides, NEW step, Goto(side, step)
    PROVE  /\ pc'[side] = step
           /\ \A other \in Sides \ {side} : pc'[other] = pc[other]
           /\ step \in PubSteps \cup SubSteps \cup Exits => PcType'
  BY DEF PcType, Goto

\* A step that moves no sample keeps what is known of the samples.
LEMMA SamplesKept ==
    ASSUME Placed, Counts,
           UNCHANGED << env, link, arrived, cache, highTaken, lowTaken, received,
                        printedHigh, printedLow >>,
           pc'["sub"] = "takeLow" <=> pc["sub"] = "takeLow",
           pc'["sub"] = "label" <=> pc["sub"] = "label",
           LoopOver' => LoopOver
    PROVE  Placed' /\ Counts'
  <1>1. UNCHANGED << HighInHand, LowInHand, Printed, NoticeGone, Validates >>
    BY DEF HighInHand, LowInHand, Printed, NoticeGone, Validates
  <1>2. Placed'
    BY <1>1 DEF Placed, LabelsRight
  <1>3. Counts'
    BY <1>1 DEF Counts, AllReceivedIfValidated, AllReceived, Printed
  <1> QED
    BY <1>2, <1>3

-----------------------------------------------------------------------------
\* The invariant holds initially.
LEMMA InitInv == Init => IInv
  <1> SUFFICES ASSUME Init PROVE IInv
    OBVIOUS
  <1> USE SampleCountAssumption DEF Init
  <1>1. TypeOK
    <2>1. matchedLogged \in BOOLEAN
      BY Zenon
    <2>2. /\ stop \in [Sides -> BOOLEAN] /\ guard \in [Sides -> BOOLEAN]
          /\ changed \in [Sides -> BOOLEAN]
      BY Zenon
    <2> QED
      BY <2>1, <2>2 DEF TypeOK, PubSteps, SubSteps, Sides, Exits
  <1>2. PcType
    BY DEF PcType, PubSteps
  <1>3. Watched /\ Departures
    BY DEF Watched, Departures, DoneAfterDeparture, Sides
  <1>4. Placed
    BY DEF Placed, HighInHand, LowInHand, Printed, LabelsRight
  <1>5. Counts
    <2>1. Cardinality(Printed) = 0
      BY FS_EmptySet DEF Printed
    <2> QED
      BY <2>1 DEF Counts, AllReceivedIfValidated, AllReceived, LoopOver, Sides
  <1> QED
    BY <1>1, <1>2, <1>3, <1>4, <1>5 DEF IInv

-----------------------------------------------------------------------------
\* A step of a main thread that only moves it on, at a place where no sample
\* is in hand, keeps the invariant if it leaves what the place says true.
LEMMA MainMoves ==
    ASSUME IInv, NEW side \in Sides, NEW step \in PubSteps \cup SubSteps \cup Exits,
           Goto(side, step),
           UNCHANGED << env, guard, matchVars, dataVars, takeVars >>,
           active' \in [Sides -> SUBSET {"gc", "sc", "qc", "rc"}],
           dog' \in [Sides -> {"off", "running", "expired", "ended"}],
           stop' \in [Sides -> BOOLEAN],
           side = "pub" => step \in PubSteps \cup Exits,
           side = "sub" => step \in SubSteps \cup Exits,
           pc[side] \notin {"takeLow", "label"} \cup Exits,
           step \notin {"takeLow", "label", "write"},
           \A other \in Sides \ {side} : dog'[other] = dog[other],
           step # "setup",
           step \in {"cleanup", "done"} => dog'[side] = "ended",
           step = "failed" /\ env[side] = "cpp" => dog'[side] \in {"off", "ended"},
           side = "pub" /\ step \in {"awaitGone", "gone"}
               => pc["pub"] \in {"write", "awaitGone", "gone"},
           step \in {"stop", "join", "cleanup", "done"}
               => pc[side] \in {"stop", "join", "cleanup"}
    PROVE  IInv'
  <1>1. /\ pc'[side] = step
        /\ \A other \in Sides \ {side} : pc'[other] = pc[other]
        /\ PcType'
    BY Going DEF IInv
  <1>2. "pub" \in Sides /\ "sub" \in Sides
    BY DEF Sides
  <1>3. /\ side = "pub" => pc'["sub"] = pc["sub"]
        /\ side = "sub" => pc'["pub"] = pc["pub"]
    BY <1>1, <1>2
  <1>4. TypeOK'
    <2>1. pc'["pub"] \in PubSteps \cup Exits /\ pc'["sub"] \in SubSteps \cup Exits
      BY <1>1, <1>3 DEF IInv, TypeOK, Sides
    <2> QED
      BY <2>1 DEF IInv, TypeOK, matchVars, dataVars, takeVars
  <1>5. Watched'
    BY <1>1 DEF IInv, Watched
  <1>6. Departures'
    <2>1. ReaderGone => ReaderGone'
      BY <1>1, <1>3 DEF ReaderGone, Sides
    <2> QED
      BY <1>1, <1>3, <2>1
         DEF IInv, Departures, DoneAfterDeparture, Sides, matchVars
  <1>7. Placed' /\ Counts'
    <2>1. /\ pc'["sub"] = "takeLow" <=> pc["sub"] = "takeLow"
          /\ pc'["sub"] = "label" <=> pc["sub"] = "label"
          /\ LoopOver' => LoopOver
      BY <1>1, <1>3 DEF LoopOver, Sides
    <2> QED
      BY <2>1, SamplesKept DEF IInv, matchVars, dataVars, takeVars
  <1> QED
    BY <1>1, <1>4, <1>5, <1>6, <1>7 DEF IInv

\* The steps the two mains have in common keep the invariant.
LEMMA CommonInv ==
    ASSUME IInv, NEW side \in Sides,
           Setup(side) \/ Stop(side) \/ Join(side) \/ Cleanup(side) \/ CallFails(side)
    PROVE  IInv'
  <1> USE DEF PubSteps, SubSteps, Exits
  <1>0. /\ active \in [Sides -> SUBSET {"gc", "sc", "qc", "rc"}]
        /\ dog \in [Sides -> {"off", "running", "expired", "ended"}]
        /\ stop \in [Sides -> BOOLEAN]
        /\ env[side] \in Ports
        /\ side = "pub" => pc[side] \in PubSteps \cup Exits
        /\ side = "sub" => pc[side] \in SubSteps \cup Exits
        /\ Sides = {"pub", "sub"}
    BY ProgramSteps DEF IInv, TypeOK, Sides
  <1>1. CASE Setup(side)
    <2>1. Goto(side, IF side = "pub" THEN "awaitMatch" ELSE "wait")
      BY <1>1, ProgramSteps DEF Setup, IInv
    <2>2. /\ dog' \in [Sides -> {"off", "running", "expired", "ended"}]
          /\ \A other \in Sides \ {side} : dog'[other] = dog[other]
      BY <1>0, <1>1 DEF Setup
    <2> QED
      BY <1>0, <1>1, <2>1, <2>2, MainMoves DEF Setup
  <1>2. CASE Stop(side)
    <2>1. Goto(side, IF pc[side] = "stop" THEN "join" ELSE "unwindJoin")
      BY <1>2, ProgramSteps DEF Stop, IInv
    <2>2. stop' \in [Sides -> BOOLEAN]
      BY <1>0, <1>2, Zenon DEF Stop
    <2> QED
      BY <1>0, <1>2, <2>1, <2>2, MainMoves DEF Stop
  <1>3. CASE Join(side)
    <2>1. Goto(side, IF pc[side] = "join" THEN "cleanup" ELSE "failed")
      BY <1>3, ProgramSteps DEF Join, IInv
    <2> QED
      BY <1>0, <1>3, <2>1, MainMoves DEF Join
  <1>4. CASE Cleanup(side)
    <2>1. Goto(side, "done") /\ dog[side] = "ended"
      BY <1>4, ProgramSteps DEF Cleanup, IInv, Watched
    <2> QED
      BY <1>0, <1>4, <2>1, MainMoves DEF Cleanup
  <1>5. CASE CallFails(side)
    <2>1. CASE pc[side] = "setup"
      <3>1. Goto(side, "failed") /\ dog[side] = "off"
        BY <1>5, <2>1 DEF CallFails, IInv, Watched
      <3> QED
        BY <1>0, <1>5, <2>1, <3>1, MainMoves DEF CallFails
    <2>2. CASE pc[side] # "setup"
      <3>1. /\ Goto(side, IF env[side] = "cpp" THEN "unwind" ELSE "failed")
            /\ pc[side] \in {"awaitMatch", "awaitGone", "wait", "write"}
        BY <1>5, <2>2, ProgramSteps DEF CallFails, IInv
      <3> QED
        BY <1>0, <1>5, <3>1, MainMoves DEF CallFails
    <2> QED
      BY <2>1, <2>2
  <1> QED
    BY <1>1, <1>2, <1>3, <1>4, <1>5

\* A wait that returns keeps the invariant.
LEMMA WaitInv ==
    ASSUME IInv, NEW side \in Sides, NEW from, NEW to, Wait(side, from, to),
           << side, from, to >> \in { << "pub", "awaitMatch", "match" >>,
                                      << "pub", "awaitGone", "gone" >>,
                                      << "sub", "wait", "handle" >> }
    PROVE  IInv'
  <1>1. active' \in [Sides -> SUBSET {"gc", "sc", "qc", "rc"}]
    <2>1. ActiveOf(side) \in SUBSET {"gc", "sc", "qc", "rc"}
      BY DEF ActiveOf
    <2> QED
      BY <2>1 DEF Wait, IInv, TypeOK
  <1> QED
    BY <1>1, MainMoves DEF Wait, IInv, TypeOK, PubSteps, SubSteps, Exits, Sides

-----------------------------------------------------------------------------
\* The publisher's status handler: it resets the status, and only a count it
\* has read leads on.
LEMMA StatusInv ==
    ASSUME IInv, PubHandleMatch \/ PubHandleGone PROVE IInv'
  <1> USE DEF PubSteps, SubSteps, Exits
  <1>0. env.pub \in Ports /\ "pub" \in Sides /\ "sub" \in Sides
    BY ProgramSteps DEF IInv, Sides
  <1>1. PICK step \in {"unwind", "failed", "awaitMatch", "write", "awaitGone", "stop"} :
          /\ Goto("pub", step)
          /\ step = "failed" => env.pub # "cpp"
          /\ step = "write" => current["pub"] = 1
          /\ step = "stop" => current["pub"] = 0
          /\ step \in {"awaitGone", "stop"} => pc["pub"] = "gone"
    BY <1>0, PublisherSteps, ProgramSteps
       DEF PubHandleMatch, PubHandleGone, HandleStatus, Program, IInv
  <1>2. /\ pc'["pub"] = step
        /\ pc'["sub"] = pc["sub"]
        /\ PcType'
    <2>1. step \in PubSteps \cup SubSteps \cup Exits
      BY <1>1
    <2>2. \A other \in Sides \ {"pub"} : pc'[other] = pc[other]
      BY <1>0, <1>1, Going DEF IInv
    <2>3. pc'["pub"] = step /\ PcType'
      BY <1>0, <1>1, <2>1, Going DEF IInv
    <2> QED
      BY <1>0, <2>2, <2>3
  <1>3. UNCHANGED << env, active, dog, stop, guard, current, link, dataVars, takeVars >>
    BY DEF PubHandleMatch, PubHandleGone, HandleStatus
  <1>4. changed' \in [Sides -> BOOLEAN]
    <2>1. changed \in [Sides -> BOOLEAN]
      BY DEF IInv, TypeOK
    <2>2. changed' = changed \/ changed' = [changed EXCEPT !["pub"] = FALSE]
      BY DEF PubHandleMatch, PubHandleGone, HandleStatus
    <2> QED
      BY <2>1, <2>2, Zenon
  <1>5. TypeOK'
    BY <1>1, <1>2, <1>3, <1>4 DEF IInv, TypeOK, dataVars, takeVars
  <1>6. Watched'
    <2>1. pc["pub"] \in {"match", "gone"}
      BY DEF PubHandleMatch, PubHandleGone, HandleStatus
    <2> QED
      BY <1>1, <1>2, <1>3, <2>1 DEF IInv, Watched, Sides
  <1>7. Departures'
    BY <1>1, <1>2, <1>3 DEF IInv, Departures, DoneAfterDeparture, ReaderGone
  <1>8. Placed' /\ Counts'
    BY <1>2, <1>3, SamplesKept DEF IInv, LoopOver, dataVars, takeVars
  <1> QED
    BY <1>2, <1>5, <1>6, <1>7, <1>8 DEF IInv

\* Writing keeps the invariant: what is written is under way.
LEMMA WriteInv == ASSUME IInv, PubWrite PROVE IInv'
  <1> USE SampleCountAssumption DEF PubSteps, SubSteps, Exits
  <1>0. env.pub \in Ports /\ "pub" \in Sides /\ "sub" \in Sides
    BY ProgramSteps DEF IInv, Sides
  <1>1. CASE written < SampleCount
    <2>1. UNCHANGED << env, active, dog, stop, guard, matchVars, arrived, cache, takeVars, pc >>
      BY <1>1 DEF PubWrite
    <2>2. written' \in 0 .. SampleCount
      BY <1>1 DEF PubWrite, IInv, TypeOK
    <2>3. TypeOK' /\ PcType' /\ Watched' /\ Departures'
      BY <2>1, <2>2 DEF IInv, TypeOK, PcType, Watched, Departures, DoneAfterDeparture,
                        ReaderGone, matchVars, takeVars
    <2>4. Placed' /\ Counts'
      BY <2>1, SamplesKept DEF IInv, LoopOver, matchVars, takeVars
    <2> QED
      BY <2>3, <2>4 DEF IInv
  <1>2. CASE ~(written < SampleCount)
    <2>1. Goto("pub", "awaitGone") /\ UNCHANGED written
      BY <1>0, <1>2, PublisherSteps DEF PubWrite, Program
    <2> QED
      BY <1>0, <1>2, <2>1, MainMoves DEF PubWrite, IInv, TypeOK, dataVars
  <1> QED
    BY <1>1, <1>2

\* Every step of the publisher's main thread keeps the invariant.
LEMMA PubMainInv == ASSUME IInv, PubMain PROVE IInv'
  <1>1. CASE PubAwaitMatch \/ PubAwaitGone
    BY <1>1, WaitInv DEF PubAwaitMatch, PubAwaitGone, Sides
  <1> QED
    BY <1>1, CommonInv, StatusInv, WriteInv DEF PubMain, Sides

-----------------------------------------------------------------------------
\* The subscriber's look at what its wait returned moves no sample.
LEMMA HandleInv == ASSUME IInv, SubHandle PROVE IInv'
  <1> USE DEF PubSteps, SubSteps, Exits
  <1>0. env.sub \in Ports /\ "pub" \in Sides /\ "sub" \in Sides
    BY ProgramSteps DEF IInv, Sides
  <1>1. PICK step \in {"unwind", "failed", "takeHigh", "wait"} :
          /\ Goto("sub", step)
          /\ step = "failed" => env.sub # "cpp"
    BY <1>0, ProgramSteps DEF SubHandle, IInv
  <1>2. /\ pc'["sub"] = step
        /\ pc'["pub"] = pc["pub"]
        /\ PcType'
    <2>1. step \in PubSteps \cup SubSteps \cup Exits
      BY <1>1
    <2>2. \A other \in Sides \ {"sub"} : pc'[other] = pc[other]
      BY <1>0, <1>1, Going DEF IInv
    <2>3. pc'["sub"] = step /\ PcType'
      BY <1>0, <1>1, <2>1, Going DEF IInv
    <2> QED
      BY <1>0, <2>2, <2>3
  <1>3. UNCHANGED << env, active, dog, stop, guard, current, link, dataVars, highTaken,
                     lowTaken, received, printedHigh, printedLow >>
    BY DEF SubHandle
  <1>4. changed' \in [Sides -> BOOLEAN] /\ matchedLogged' \in BOOLEAN
    <2>1. changed \in [Sides -> BOOLEAN] /\ matchedLogged \in BOOLEAN
      BY DEF IInv, TypeOK
    <2>2. /\ changed' = changed \/ changed' = [changed EXCEPT !["sub"] = FALSE]
          /\ matchedLogged' = matchedLogged \/ matchedLogged' = (current["sub"] > 0)
      BY DEF SubHandle
    <2>3. changed' \in [Sides -> BOOLEAN]
      BY <2>1, <2>2, Zenon
    <2>4. matchedLogged' \in BOOLEAN
      <3>1. (current["sub"] > 0) \in BOOLEAN
        OBVIOUS
      <3> QED
        BY <2>1, <2>2, <3>1, Zenon
    <2> QED
      BY <2>3, <2>4
  <1>5. TypeOK'
    BY <1>1, <1>2, <1>3, <1>4 DEF IInv, TypeOK, dataVars
  <1>6. pc["sub"] = "handle"
    BY DEF SubHandle
  <1>7. Watched' /\ Departures'
    BY <1>1, <1>2, <1>3, <1>6
       DEF IInv, Watched, Departures, DoneAfterDeparture, ReaderGone, Sides
  <1>8. Placed' /\ Counts'
    BY <1>1, <1>2, <1>3, <1>6, SamplesKept DEF IInv, LoopOver, dataVars
  <1> QED
    BY <1>2, <1>5, <1>7, <1>8 DEF IInv

\* A step of the subscriber within its loop: the watchdog and the publisher
\* are left alone.
LEMMA LoopMoves ==
    ASSUME IInv, NEW step \in {"takeLow", "label", "wait", "stop"}, Goto("sub", step),
           pc["sub"] \in {"takeHigh", "takeLow", "label"},
           UNCHANGED << env, active, dog, stop, guard, matchVars >>
    PROVE  /\ pc'["sub"] = step
           /\ pc'["pub"] \in PubSteps \cup Exits
           /\ PcType'
           /\ Watched'
           /\ Departures'
  <1> USE DEF PubSteps, SubSteps, Exits
  <1>0. "pub" \in Sides /\ "sub" \in Sides
    BY DEF Sides
  <1>1. \A other \in Sides \ {"sub"} : pc'[other] = pc[other]
    BY <1>0, Going DEF IInv
  <1>2. pc'["sub"] = step /\ PcType'
    BY <1>0, Going DEF IInv
  <1>3. pc'["pub"] = pc["pub"]
    BY <1>0, <1>1
  <1>4. pc'["pub"] \in PubSteps \cup Exits
    BY <1>3 DEF IInv, TypeOK
  <1>5. Watched' /\ Departures'
    BY <1>2, <1>3
       DEF IInv, Watched, Departures, DoneAfterDeparture, ReaderGone, Sides, matchVars
  <1> QED
    BY <1>2, <1>4, <1>5

\* take_w_condition moves the samples of high priority from the cache into
\* main's hands.
LEMMA TakeHighInv == ASSUME IInv, TakeHigh PROVE IInv'
  <1>1. /\ pc'["sub"] = "takeLow" /\ pc["sub"] = "takeHigh"
        /\ pc'["pub"] \in PubSteps \cup Exits
        /\ PcType' /\ Watched' /\ Departures'
    BY LoopMoves DEF TakeHigh
  <1>2. cache' = cache \ High /\ highTaken' = cache \cap High
    BY DEF TakeHigh
  <1>3. UNCHANGED << env, link, arrived, lowTaken, received, printedHigh, printedLow >>
    BY DEF TakeHigh, matchVars
  <1>4. High \subseteq Samples /\ Invalid \notin High
    BY DEF High, Samples, Invalid
  <1>5. TypeOK'
    BY <1>1, <1>2, <1>4 DEF TakeHigh, IInv, TypeOK, matchVars, SubSteps
  <1>6. /\ HighInHand = {} /\ HighInHand' = cache \cap High
        /\ LowInHand = {} /\ LowInHand' = {}
        /\ UNCHANGED Printed
    BY <1>1, <1>2, <1>3 DEF HighInHand, LowInHand, Printed
  <1>7. Placed'
    BY <1>2, <1>3, <1>4, <1>6 DEF IInv, Placed, LabelsRight
  <1>8. Counts'
    <2>1. NoticeGone' <=> NoticeGone
      BY <1>2, <1>3, <1>4, <1>6 DEF NoticeGone
    <2>2. UNCHANGED Validates /\ ~LoopOver'
      BY <1>1, <1>3 DEF Validates, LoopOver
    <2> QED
      BY <1>3, <1>6, <2>1, <2>2
         DEF IInv, Counts, AllReceivedIfValidated, AllReceived
  <1> QED
    BY <1>1, <1>5, <1>7, <1>8 DEF IInv

\* take_n moves what the cache holds by then into main's hands.
LEMMA TakeLowInv == ASSUME IInv, TakeLow PROVE IInv'
  <1>1. /\ pc'["sub"] = "label" /\ pc["sub"] = "takeLow"
        /\ pc'["pub"] \in PubSteps \cup Exits
        /\ PcType' /\ Watched' /\ Departures'
    BY LoopMoves DEF TakeLow
  <1>2. cache' = {} /\ lowTaken' = cache
    BY DEF TakeLow
  <1>3. UNCHANGED << env, link, arrived, highTaken, received, printedHigh, printedLow >>
    BY DEF TakeLow, matchVars
  <1>4. TypeOK'
    BY <1>1, <1>2 DEF TakeLow, IInv, TypeOK, matchVars, SubSteps
  <1>5. /\ HighInHand' = HighInHand
        /\ LowInHand = {} /\ LowInHand' = cache
        /\ UNCHANGED Printed
    BY <1>1, <1>2, <1>3 DEF HighInHand, LowInHand, Printed
  <1>6. Placed'
    BY <1>2, <1>3, <1>5 DEF IInv, Placed, LabelsRight
  <1>7. Counts'
    <2>1. NoticeGone' <=> NoticeGone
      BY <1>2, <1>3, <1>5 DEF NoticeGone
    <2>2. UNCHANGED Validates /\ ~LoopOver'
      BY <1>1, <1>3 DEF Validates, LoopOver
    <2> QED
      BY <1>3, <1>5, <2>1, <2>2
         DEF IInv, Counts, AllReceivedIfValidated, AllReceived
  <1> QED
    BY <1>1, <1>4, <1>6, <1>7 DEF IInv

\* There are SampleCount samples.
LEMMA SampleSet ==
    /\ IsFiniteSet(Samples)
    /\ Cardinality(Samples) = SampleCount
    /\ SampleCount \in Nat
    /\ Invalid \notin Samples
    /\ High \subseteq Samples
  <1>1. SampleCount \in Nat /\ SampleCount > 0
    BY SampleCountAssumption
  <1>2. IsFiniteSet(0 .. SampleCount - 1)
    BY <1>1, FS_Interval
  <1>3. Cardinality(0 .. SampleCount - 1) = SampleCount
    BY <1>1, FS_Interval
  <1> QED
    BY <1>1, <1>2, <1>3 DEF Samples, High, Invalid

\* A set of samples is finite, and with all of them it is Samples.
LEMMA SampleSubset ==
    ASSUME NEW S \in SUBSET Samples
    PROVE  /\ IsFiniteSet(S)
           /\ Cardinality(S) \in Nat
           /\ Cardinality(S) =< SampleCount
           /\ Cardinality(S) >= SampleCount => S = Samples
  <1>1. IsFiniteSet(S) /\ Cardinality(S) =< Cardinality(Samples)
    BY SampleSet, FS_Subset
  <1>2. Cardinality(S) = Cardinality(Samples) => S = Samples
    BY SampleSet, FS_Subset
  <1>3. Cardinality(S) \in Nat
    BY <1>1, FS_CardinalityType
  <1> QED
    BY <1>1, <1>2, <1>3, SampleSet

\* Two sets of samples without a common member.
LEMMA DisjointSamples ==
    ASSUME NEW S \in SUBSET Samples, NEW T \in SUBSET Samples, S \cap T = {}
    PROVE  Cardinality(S \cup T) = Cardinality(S) + Cardinality(T)
  <1>1. IsFiniteSet(S) /\ IsFiniteSet(T) /\ Cardinality(S) \in Nat /\ Cardinality(T) \in Nat
    BY SampleSubset
  <1>2. Cardinality(S \cup T) = Cardinality(S) + Cardinality(T) - Cardinality(S \cap T)
    BY <1>1, FS_Union
  <1>3. Cardinality(S \cap T) = 0
    BY FS_EmptySet
  <1> QED
    BY <1>1, <1>2, <1>3

\* What a batch adds to the count: its samples, and a notice where notices
\* are counted.
LEMMA CountedBatch ==
    ASSUME TypeOK, NEW B \in SUBSET (Samples \cup {Invalid})
    PROVE  /\ Cardinality(B \cap Samples) \in Nat
           /\ Cardinality(Counted(B)) \in Nat
           /\ Validates => Cardinality(Counted(B)) = Cardinality(B \cap Samples)
           /\ Cardinality(Counted(B))
                =< Cardinality(B \cap Samples) + (IF Invalid \in B THEN 1 ELSE 0)
           /\ B \subseteq Samples => Cardinality(Counted(B)) = Cardinality(B)
  <1>1. env.sub \in Ports /\ Program("sub") = SubscriberProgram[env.sub]
    BY ProgramSteps DEF Sides, Program
  <1>2. Cardinality(B \cap Samples) \in Nat /\ IsFiniteSet(B \cap Samples)
    BY SampleSubset
  <1>3. CASE Counted(B) = B \cap Samples
    <2>1. B \subseteq Samples => B \cap Samples = B
      OBVIOUS
    <2> QED
      BY <1>2, <1>3, <2>1
  <1>4. CASE Counted(B) # B \cap Samples
    <2>1. ~Validates /\ Counted(B) = B
      BY <1>1, <1>4 DEF Counted, Validates
    <2>2. Invalid \in B /\ B = (B \cap Samples) \cup {Invalid} /\ Invalid \notin Samples
      BY <1>4, <2>1, SampleSet
    <2>3. Cardinality((B \cap Samples) \cup {Invalid}) = Cardinality(B \cap Samples) + 1
      BY <1>2, <2>2, FS_AddElement
    <2>4. Cardinality(B) = Cardinality(B \cap Samples) + 1
      BY <2>2, <2>3
    <2> QED
      BY <1>2, <2>1, <2>2, <2>4
  <1> QED
    BY <1>3, <1>4

\* Printing what is in hand makes it printed, counts it once, and ends the
\* loop only with every sample printed.
LEMMA LabelInv == ASSUME IInv, Label PROVE IInv'
  <1> DEFINE H == highTaken
             L == lowTaken \cap Samples
             N == IF Invalid \in lowTaken THEN 1 ELSE 0
             h == Cardinality(Counted(H))
             l == Cardinality(Counted(lowTaken))
  <1>0. env.sub \in Ports
    BY ProgramSteps DEF IInv, Sides
  <1>1. pc["sub"] = "label" /\ received' = received + h + l
    BY DEF Label
  <1>2. UNCHANGED << env, active, dog, stop, guard, matchVars, dataVars, matchedLogged,
                     highTaken, lowTaken >>
    BY DEF Label
  <1>3. Goto("sub", IF received' >= SampleCount THEN "stop" ELSE "wait")
    BY <1>0, SubscriberSteps DEF Label, Program
  <1>4. /\ pc'["sub"] = IF received' >= SampleCount THEN "stop" ELSE "wait"
        /\ pc'["pub"] \in PubSteps \cup Exits
        /\ PcType' /\ Watched' /\ Departures'
    BY <1>1, <1>2, <1>3, LoopMoves
  <1>5. HighInHand = H /\ LowInHand = lowTaken /\ HighInHand' = {} /\ LowInHand' = {}
    BY <1>1, <1>4 DEF HighInHand, LowInHand
  <1>6. /\ H \subseteq Samples /\ L \subseteq Samples
        /\ lowTaken \in SUBSET (Samples \cup {Invalid})
        /\ Printed \subseteq Samples
        /\ printedHigh \subseteq Samples /\ printedLow \subseteq Samples
    BY DEF IInv, TypeOK, Printed
  <1>7. /\ printedHigh' = printedHigh \cup ((H \cup L) \cap High)
        /\ printedLow' = printedLow \cup ((H \cup L) \ High)
    BY <1>6 DEF Label
  <1>8. Printed' = Printed \cup (H \cup L) /\ Printed' \subseteq Samples
    BY <1>6, <1>7 DEF Printed
  <1>9. Placed'
    BY <1>2, <1>5, <1>6, <1>7, <1>8
       DEF IInv, Placed, LabelsRight, matchVars, dataVars
  <1>10. Cardinality(Printed') = Cardinality(Printed) + (Cardinality(H) + Cardinality(L))
    <2>1. H \cap L = {} /\ Printed \cap (H \cup L) = {}
      BY <1>5 DEF IInv, Placed
    <2>2. Cardinality(H \cup L) = Cardinality(H) + Cardinality(L)
      BY <1>6, <2>1, DisjointSamples
    <2>3. Cardinality(Printed \cup (H \cup L)) = Cardinality(Printed) + Cardinality(H \cup L)
      BY <1>6, <2>1, DisjointSamples
    <2> QED
      BY <1>8, <2>2, <2>3
  <1>11. /\ h = Cardinality(H)
         /\ l \in Nat /\ l =< Cardinality(L) + N
         /\ Validates => l = Cardinality(L)
    BY <1>6, CountedBatch DEF IInv
  <1>12. /\ Cardinality(H) \in Nat /\ Cardinality(L) \in Nat
         /\ Cardinality(Printed) \in Nat
         /\ Cardinality(Printed') \in Nat /\ Cardinality(Printed') =< SampleCount
    BY <1>6, <1>8, SampleSubset
  <1>13. received' =< Cardinality(Printed') + (IF NoticeGone' THEN 1 ELSE 0)
    <2>1. CASE Invalid \in lowTaken
      <3>1. ~NoticeGone /\ NoticeGone'
        BY <1>2, <1>5, <2>1 DEF NoticeGone, IInv, Placed, matchVars, dataVars
      <3> QED
        BY <1>1, <1>10, <1>11, <1>12, <2>1, <3>1 DEF IInv, Counts, TypeOK
    <2>2. CASE Invalid \notin lowTaken
      <3>1. NoticeGone' <=> NoticeGone
        BY <1>2, <1>5, <2>2 DEF NoticeGone, matchVars, dataVars
      <3> QED
        BY <1>1, <1>10, <1>11, <1>12, <2>2, <3>1 DEF IInv, Counts, TypeOK
    <2> QED
      BY <2>1, <2>2
  <1>14. Validates' => received' = Cardinality(Printed')
    BY <1>1, <1>2, <1>10, <1>11, <1>12 DEF IInv, Counts, Validates, TypeOK
  <1>15. AllReceivedIfValidated'
    <2>1. LoopOver' => received' >= SampleCount
      BY <1>4 DEF LoopOver
    <2>2. Validates' /\ LoopOver' => Printed' = Samples
      BY <1>8, <1>14, <2>1, SampleSubset
    <2> QED
      BY <2>2 DEF AllReceivedIfValidated, AllReceived, Validates, Printed
  <1>16. TypeOK'
    <2>1. received' \in 0 .. SampleCount + 1
      BY <1>1, <1>11, <1>12, <1>13, SampleSet DEF IInv, TypeOK
    <2>2. printedHigh' \subseteq Samples /\ printedLow' \subseteq Samples
      BY <1>6, <1>7
    <2>3. pc'["sub"] \in SubSteps \cup Exits
      BY <1>4 DEF SubSteps
    <2> QED
      BY <1>2, <1>4, <2>1, <2>2, <2>3 DEF IInv, TypeOK, matchVars, dataVars
  <1> QED
    BY <1>4, <1>9, <1>13, <1>14, <1>15, <1>16 DEF IInv, Counts

\* Every step of the subscriber's main thread keeps the invariant.
LEMMA SubMainInv == ASSUME IInv, SubMain PROVE IInv'
  <1>1. CASE SubWait
    BY <1>1, WaitInv DEF SubWait, Sides
  <1> QED
    BY <1>1, CommonInv, HandleInv, TakeHighInv, TakeLowInv, LabelInv DEF SubMain, Sides

-----------------------------------------------------------------------------
\* A watchdog touches its own state and the guard only.
LEMMA WatchdogInv == ASSUME IInv, NEW side \in Sides, Watchdog(side) PROVE IInv'
  <1>1. UNCHANGED << env, pc, active, stop, matchVars, dataVars, takeVars >>
    BY DEF Watchdog, DogExpires, DogTriggers, DogStops
  <1>2. PICK state \in {"expired", "ended"} : dog' = [dog EXCEPT ![side] = state]
    BY DEF Watchdog, DogExpires, DogTriggers, DogStops
  <1>3. dog[side] \in {"running", "expired"} /\ pc[side] \notin Exits
    BY DEF Watchdog, DogExpires, DogTriggers, DogStops, Runs
  <1>4. guard' \in [Sides -> BOOLEAN]
    <2>1. guard \in [Sides -> BOOLEAN]
      BY DEF IInv, TypeOK
    <2>2. guard' = guard \/ guard' = [guard EXCEPT ![side] = TRUE]
      BY DEF Watchdog, DogExpires, DogTriggers, DogStops
    <2> QED
      BY <2>1, <2>2, Zenon
  <1>5. dog' \in [Sides -> {"off", "running", "expired", "ended"}]
    BY <1>2 DEF IInv, TypeOK
  <1>6. TypeOK' /\ PcType'
    BY <1>1, <1>4, <1>5 DEF IInv, TypeOK, PcType, matchVars, dataVars, takeVars
  <1>7. Watched'
    <2>1. /\ dog'[side] = state
          /\ \A other \in Sides \ {side} : dog'[other] = dog[other]
      BY <1>2 DEF IInv, TypeOK
    <2>2. pc[side] \notin {"setup", "cleanup", "done", "failed"}
      BY <1>3 DEF IInv, Watched, Exits
    <2> QED
      BY <1>1, <2>1, <2>2 DEF IInv, Watched
  <1>8. Departures'
    BY <1>1 DEF IInv, Departures, DoneAfterDeparture, ReaderGone, matchVars
  <1>9. Placed' /\ Counts'
    BY <1>1, SamplesKept DEF IInv, LoopOver, matchVars, dataVars, takeVars
  <1> QED
    BY <1>6, <1>7, <1>8, <1>9 DEF IInv

\* A change of an endpoint's matched status.
LEMMA Notifying ==
    ASSUME TypeOK, NEW side \in Sides, NEW count \in {0, 1}, Notify(side, count)
    PROVE  /\ changed' \in [Sides -> BOOLEAN]
           /\ current' \in [Sides -> {0, 1}]
           /\ current'[side] = count
           /\ \A other \in Sides \ {side} : current'[other] = current[other]
  <1>1. changed' \in [Sides -> BOOLEAN]
    <2>1. changed \in [Sides -> BOOLEAN] /\ changed' = [changed EXCEPT ![side] = TRUE]
      BY DEF TypeOK, Notify
    <2> QED
      BY <2>1, Zenon
  <1> QED
    BY <1>1 DEF TypeOK, Notify

\* What the middleware tells the endpoints, and what it does to the samples,
\* keeps the invariant.
LEMMA MiddlewareInv ==
    ASSUME IInv, Match \/ Handshake \/ Deliver \/ Depart \/ WriterLost PROVE IInv'
  <1>0. "pub" \in Sides /\ "sub" \in Sides /\ "sub" \in Sides \ {"pub"}
        /\ "pub" \in Sides \ {"sub"}
    BY DEF Sides
  <1>1. UNCHANGED << env, sideVars, written, takeVars >>
    BY DEF Match, Handshake, Deliver, Depart, WriterLost, dataVars
  <1>2. PcType' /\ Watched'
    BY <1>1 DEF IInv, PcType, Watched, sideVars
  <1>3. UNCHANGED << HighInHand, LowInHand, Printed, Validates, LoopOver, ReaderGone >>
    BY <1>1 DEF HighInHand, LowInHand, Printed, Validates, LoopOver, ReaderGone, sideVars,
                takeVars
  <1>4. CASE Match \/ Depart
    <2>1. UNCHANGED << arrived, cache >>
      BY <1>4 DEF Match, Depart, dataVars
    <2>2. /\ link \in {"none", "matched", "ready"} /\ link' \in {"matched", "gone"}
          /\ link' = "matched" => link = "none"
          /\ changed' \in [Sides -> BOOLEAN] /\ current' \in [Sides -> {0, 1}]
          /\ current'["pub"] = 0 => ReaderGone
      <3>1. CASE Match
        BY <1>0, <3>1, Notifying DEF IInv, Match
      <3>2. CASE Depart
        BY <1>0, <3>2, Notifying DEF IInv, Depart
      <3> QED
        BY <1>4, <3>1, <3>2
    <2>3. TypeOK' /\ Departures'
      BY <1>1, <1>3, <2>1, <2>2
         DEF IInv, TypeOK, Departures, DoneAfterDeparture, sideVars, takeVars
    <2>4. Placed'
      BY <1>1, <1>3, <2>1, <2>2 DEF IInv, Placed, LabelsRight, takeVars
    <2>5. NoticeGone' <=> NoticeGone
      BY <2>2 DEF NoticeGone
    <2>6. Counts'
      BY <1>1, <1>3, <2>5 DEF IInv, Counts, AllReceivedIfValidated, AllReceived,
                              Validates, Printed, takeVars
    <2> QED
      BY <1>2, <2>3, <2>4, <2>6 DEF IInv
  <1>5. CASE Handshake
    <2>1. /\ changed' \in [Sides -> BOOLEAN] /\ current' \in [Sides -> {0, 1}]
          /\ current'["pub"] = current["pub"]
      BY <1>0, <1>5, Notifying DEF IInv, Handshake
    <2>2. /\ link = "matched" /\ link' = "ready" /\ UNCHANGED cache
          /\ arrived' = written \/ arrived' = arrived
      BY <1>5 DEF Handshake
    <2>3. TypeOK' /\ Departures'
      BY <1>1, <1>3, <2>1, <2>2
         DEF IInv, TypeOK, Departures, DoneAfterDeparture, sideVars, takeVars
    <2>4. Placed'
      <3>1. \A s \in cache \cup HighInHand \cup LowInHand \cup Printed : s \in Samples \cup {Invalid}
        BY DEF IInv, TypeOK, HighInHand, LowInHand, Printed
      <3>2. \A s \in cache \cup HighInHand \cup LowInHand \cup Printed : s = Invalid
        BY <2>2, <3>1, SampleSet DEF IInv, Placed, Samples
      <3> QED
        BY <1>1, <1>3, <2>2, <3>2 DEF IInv, Placed, LabelsRight, takeVars
    <2>5. NoticeGone' <=> NoticeGone
      BY <2>2 DEF NoticeGone
    <2>6. Counts'
      BY <1>1, <1>3, <2>5 DEF IInv, Counts, AllReceivedIfValidated, AllReceived,
                              Validates, Printed, takeVars
    <2> QED
      BY <1>2, <2>3, <2>4, <2>6 DEF IInv
  <1>6. CASE Deliver
    <2>1. /\ UNCHANGED matchVars /\ link = "ready"
          /\ arrived' = arrived + 1 /\ arrived < written
          /\ cache' = cache \cup {arrived}
      BY <1>6 DEF Deliver
    <2>2. arrived \in Samples /\ arrived' \in 0 .. SampleCount /\ arrived # Invalid
      BY <2>1, SampleSet DEF IInv, TypeOK, Samples, Invalid
    <2>3. TypeOK' /\ Departures'
      BY <1>1, <1>3, <2>1, <2>2
         DEF IInv, TypeOK, Departures, DoneAfterDeparture, sideVars, matchVars, takeVars
    <2>4. Placed'
      <3>1. arrived \notin HighInHand \cup LowInHand \cup Printed
        BY <2>2, SampleSet DEF IInv, Placed, Samples
      <3>2. \A s \in cache \cup HighInHand \cup LowInHand \cup Printed :
               s # Invalid => s \in Samples
        BY DEF IInv, TypeOK, HighInHand, LowInHand, Printed
      <3>3. \A s \in cache' \cup HighInHand \cup LowInHand \cup Printed :
               s # Invalid => s < arrived'
        BY <2>1, <2>2, <3>2, SampleSet DEF IInv, Placed, Samples
      <3>4. cache' \cap (HighInHand \cup LowInHand \cup Printed) = {}
        BY <2>1, <3>1 DEF IInv, Placed
      <3> QED
        BY <1>1, <1>3, <2>1, <2>2, <3>3, <3>4
           DEF IInv, Placed, LabelsRight, takeVars, matchVars
    <2>5. NoticeGone' <=> NoticeGone
      BY <2>1 DEF NoticeGone, matchVars
    <2>6. Counts'
      BY <1>1, <1>3, <2>5 DEF IInv, Counts, AllReceivedIfValidated, AllReceived,
                              Validates, Printed, takeVars
    <2> QED
      BY <1>2, <2>3, <2>4, <2>6 DEF IInv
  <1>7. CASE WriterLost
    <2>1. /\ changed' \in [Sides -> BOOLEAN] /\ current' \in [Sides -> {0, 1}]
          /\ current'["pub"] = current["pub"]
      BY <1>0, <1>7, Notifying DEF IInv, WriterLost
    <2>2. /\ link = "ready" /\ link' = "lost" /\ UNCHANGED arrived
          /\ cache' = cache \cup {Invalid} \/ cache' = cache
      BY <1>7 DEF WriterLost
    <2>3. TypeOK' /\ Departures'
      BY <1>1, <1>3, <2>1, <2>2
         DEF IInv, TypeOK, Departures, DoneAfterDeparture, sideVars, takeVars
    <2>4. Placed'
      <3>1. Invalid \notin HighInHand \cup LowInHand \cup Printed
        BY <2>2, SampleSet DEF IInv, Placed, TypeOK, HighInHand, Printed
      <3> QED
        BY <1>1, <1>3, <2>2, <3>1 DEF IInv, Placed, LabelsRight, takeVars
    <2>5. ~NoticeGone
      BY <2>2 DEF NoticeGone
    <2>6. Cardinality(Printed) \in Nat
      BY SampleSubset DEF IInv, TypeOK, Printed
    <2>7. Counts'
      <3>1. received' =< Cardinality(Printed') + (IF NoticeGone' THEN 1 ELSE 0)
        BY <1>1, <1>3, <2>5, <2>6 DEF IInv, Counts, TypeOK, takeVars
      <3> QED
        BY <1>1, <1>3, <3>1 DEF IInv, Counts, AllReceivedIfValidated, AllReceived,
                                Validates, Printed, takeVars
    <2> QED
      BY <1>2, <2>3, <2>4, <2>7 DEF IInv
  <1> QED
    BY <1>4, <1>5, <1>6, <1>7

\* A stuttering step keeps the invariant.
LEMMA StutterInv == ASSUME IInv, UNCHANGED vars PROVE IInv'
  <1>1. TypeOK' /\ PcType' /\ Watched' /\ Departures'
    BY DEF IInv, TypeOK, PcType, Watched, Departures, DoneAfterDeparture, ReaderGone,
           vars, sideVars, matchVars, dataVars, takeVars
  <1>2. Placed' /\ Counts'
    BY SamplesKept DEF IInv, LoopOver, vars, sideVars, matchVars, dataVars, takeVars
  <1> QED
    BY <1>1, <1>2 DEF IInv

\* A call that fails keeps the invariant.
LEMMA CallFailsInv == ASSUME IInv, NEW side \in Sides, CallFails(side) PROVE IInv'
  BY CommonInv

\* IInv is an invariant of the pair, whatever the ports and the counts.
LEMMA Invariance == Spec => []IInv
  <1>1. IInv /\ [Next]_vars => IInv'
    BY PubMainInv, SubMainInv, WatchdogInv, CallFailsInv, MiddlewareInv, StutterInv DEF Next
  <1> QED
    BY <1>1, InitInv, PTL DEF Spec

-----------------------------------------------------------------------------
\* Every variable keeps its type, which for the count of received samples says
\* that no schedule counts more than one notice too many; every sample is
\* printed under the label of its own priority; and no main returns with its
\* watchdog running where it must not.
THEOREM WaitSetSafe == Spec => []WaitSetInv
  <1>1. IInv => WaitSetInv
    <2>1. IInv => WatchdogJoined
      BY DEF IInv, Watched, WatchdogJoined
    <2> QED
      BY <2>1 DEF IInv, Placed, WaitSetInv
  <1> QED
    BY <1>1, Invariance, PTL

\* A port that looks at valid_data leaves its loop only with every sample
\* printed: between the two takes none is counted twice.
THEOREM AllReceivedAlways == Spec => []AllReceivedIfValidated
  <1>1. IInv => AllReceivedIfValidated
    BY DEF IInv, Counts
  <1> QED
    BY <1>1, Invariance, PTL

\* The publisher takes nothing but a real departure for one.
THEOREM DoneAfterDepartureAlways == Spec => []DoneAfterDeparture
  <1>1. IInv => DoneAfterDeparture
    BY DEF IInv, Departures
  <1> QED
    BY <1>1, Invariance, PTL
=============================================================================
