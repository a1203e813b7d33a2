-------------------------------- MODULE Shape --------------------------------
(***************************************************************************)
(* The shape application of the four ports: publishers that write finite   *)
(* runs of samples, one per topic and instance or in coherent sets, and    *)
(* one polling subscriber.  Publishers may run one after the other or at   *)
(* the same time, and share the instance keys (colors).                    *)
(*                                                                         *)
(* A sample is the publisher, the iteration and the place in that          *)
(* iteration it was written at.  The middleware is external: reliable,     *)
(* volatile, keeping all samples.  With coherent access, taken to be of    *)
(* group scope, a set arrives whole when it has been ended; with ordered   *)
(* access alone the programs use the same brackets, but samples arrive one *)
(* by one.                                                                 *)
(***************************************************************************)
EXTENDS Integers, Sequences, FiniteSets

CONSTANTS
    Publishers,
    NumInstances,
    CoherentSamples,   \* coherent_sample_count
    Options            \* the combinations of options and circumstances to look at

ASSUME SizesAssumption == NumInstances \in Nat \ {0} /\ CoherentSamples \in Nat \ {0}
ASSUME OptionsAssumption ==
    \A o \in Options :
        /\ o.port \in {"cpp", "c", "zig", "java"}
        /\ o.coherent \in BOOLEAN /\ o.ordered \in BOOLEAN
        /\ o.finale \in {"dispose", "unregister"} /\ o.together \in BOOLEAN
        /\ o.publishers \subseteq Publishers
        /\ o.numTopics \in Nat \ {0} /\ o.numIterations \in Nat \ {0}

VARIABLES
    opts,         \* the options in force
    interrupted,  \* publishers whose g_all_done is set
    ppc, iteration, place, printed, timedOut,   \* per publisher
    matched,      \* per publisher, the topics whose writer has a matched reader
    chan,         \* per publisher and topic, written and not yet delivered
    ended,        \* per publisher, the coherent sets it has ended
    writersOf,    \* per topic and instance, the publishers the reader knows to write it
    cache,        \* per topic, samples received and not yet taken
    spc, topic,   \* the subscriber's place and its loop variable
    limit,        \* per topic, the samples of cache the access window shows
    colors,       \* ih_cache: per instance handle, nothing, an empty string or the key
    taken         \* << p, iteration, place >> taken in this access window

pubVars     == << ppc, iteration, place, printed, timedOut >>
subVars     == << spc, topic, limit, colors, taken >>
readerVars  == << writersOf, cache >>
vars == << opts, interrupted, pubVars, matched, chan, ended, readerVars, subVars >>

port          == opts.port            \* of the subscriber
coherent      == opts.coherent        \* coherent_access
gated         == coherent \/ opts.ordered   \* use_coherent_gating, use_access
finale        == opts.finale          \* final_instance_state
NumTopics     == opts.numTopics
NumIterations == opts.numIterations
together      == opts.together   \* environment: readers of all topics match at one instant

Topics    == 1 .. NumTopics
Instances == 1 .. NumInstances

\* One iteration writes this many samples, topic by topic, instance by instance.
PerInstance == IF gated THEN CoherentSamples ELSE 1
SetSize     == NumTopics * NumInstances * PerInstance
TopicOf(k)    == ((k - 1) \div (NumInstances * PerInstance)) + 1
InstanceOf(k) == (((k - 1) \div PerInstance) % NumInstances) + 1

Data(p, i, k)    == [kind |-> "data", from |-> p, set |-> i, place |-> k, inst |-> InstanceOf(k)]
Final(p, x)      == [kind |-> "final", from |-> p, inst |-> x]
NotAlive(x, key) == [kind |-> "notice", inst |-> x, keyed |-> key]

Samples == [kind : {"data"}, from : Publishers, set : 1 .. NumIterations, place : 1 .. SetSize,
            inst : Instances]
Finals  == [kind : {"final"}, from : Publishers, inst : Instances]
Notices == [kind : {"notice"}, inst : Instances, keyed : BOOLEAN]

TypeOK ==
    /\ opts \in Options
    /\ interrupted \in SUBSET Publishers
    /\ ppc \in [Publishers -> {"loop", "write", "final", "ack", "done", "failed", "unmatched"}]
    /\ iteration \in [Publishers -> 0 .. NumIterations]
    /\ place \in [Publishers -> 1 .. SetSize]
    /\ printed \in [Publishers -> BOOLEAN] /\ timedOut \in [Publishers -> BOOLEAN]
    /\ matched \in [Publishers -> SUBSET Topics]
    /\ chan \in [Publishers -> [Topics -> Seq(Samples \cup Finals)]]
    /\ ended \in [Publishers -> 0 .. NumIterations]
    /\ cache \in [Topics -> Seq(Samples \cup Notices)]
    /\ writersOf \in [Topics -> [Instances -> SUBSET Publishers]]
    /\ spc \in {"loop", "read", "end", "done", "failed"}
    /\ topic \in Topics
    /\ limit \in [Topics -> Nat]
    /\ \A t \in Topics : limit[t] <= Len(cache[t])
    /\ colors \in [Instances -> {"none", "empty", "right"}]
    /\ taken \subseteq Publishers \X (1 .. NumIterations) \X (1 .. SetSize)

Init ==
    /\ opts \in Options
    /\ interrupted = {}
    /\ ppc = [p \in Publishers |-> IF p \in opts.publishers THEN "loop" ELSE "done"]
    /\ iteration = [p \in Publishers |-> 0] /\ place = [p \in Publishers |-> 1]
    /\ printed = [p \in Publishers |-> FALSE] /\ timedOut = [p \in Publishers |-> FALSE]
    /\ matched = [p \in Publishers |-> {}]
    /\ chan = [p \in Publishers |-> [t \in Topics |-> << >>]]
    /\ ended = [p \in Publishers |-> 0]
    /\ writersOf = [t \in Topics |-> [x \in Instances |-> {}]]
    /\ cache = [t \in Topics |-> << >>]
    /\ spc = "loop" /\ topic = 1 /\ limit = [t \in Topics |-> 0]
    /\ colors = [x \in Instances |-> "none"] /\ taken = {}
-----------------------------------------------------------------------------
(***************************************************************************)
(* A publisher.                                                            *)
(***************************************************************************)
PubGoes(p, step) == ppc' = [ppc EXCEPT ![p] = step]
PubIsOver(p)     == ppc[p] \in {"done", "failed", "unmatched"}

\* handle_sigint; the flag is looked at at the top of the loop.
PubInterrupt(p) ==
    /\ ppc[p] = "loop" /\ p \notin interrupted
    /\ interrupted' = interrupted \cup {p}
    /\ UNCHANGED << opts, pubVars, matched, chan, ended, readerVars, subVars >>

MayGoOn(p) == p \notin interrupted /\ iteration[p] < NumIterations

\* The loop is left for the final changes, which an interrupt does not skip.
PubLeaveLoop(p) ==
    /\ ppc[p] = "loop" /\ ~MayGoOn(p)
    /\ PubGoes(p, "final")
    /\ UNCHANGED << opts, interrupted, iteration, place, printed, timedOut, matched, chan,
                    ended, readerVars, subVars >>

\* Fault: no deadline for the match.
PubGiveUp_Faulty(p) == FALSE /\ UNCHANGED vars

\* READER_NOT_MATCHED: nobody has matched the first topic's writer in time.
PubGiveUp(p) ==
    /\ ppc[p] = "loop" /\ MayGoOn(p)
    /\ ~printed[p] /\ 1 \notin matched[p]
    /\ PubGoes(p, "unmatched")
    /\ UNCHANGED << opts, interrupted, iteration, place, printed, timedOut, matched, chan,
                    ended, readerVars, subVars >>

\* One iteration begins.  A gated publisher sleeps until the first topic's writer
\* is matched; the match is looked for only until it has been seen.
PubBegin(p) ==
    /\ ppc[p] = "loop" /\ MayGoOn(p)
    /\ printed' = [printed EXCEPT ![p] = @ \/ 1 \in matched[p]]
    /\ gated => printed'[p]
    /\ PubGoes(p, "write")
    /\ UNCHANGED << opts, interrupted, iteration, place, timedOut, matched, chan,
                    ended, readerVars, subVars >>

\* end_coherent_changes comes after the last sample of the iteration.
EndsSet(p) == place[p] = SetSize

\* One write of the iteration; what is written to an unmatched topic is lost.
PubWrite(p) ==
    /\ ppc[p] = "write"
    /\ LET t == TopicOf(place[p])
       IN  chan' = IF t \in matched[p]
                   THEN [chan EXCEPT ![p][t] = Append(@, Data(p, iteration[p] + 1, place[p]))]
                   ELSE chan
    /\ ended' = IF EndsSet(p) THEN [ended EXCEPT ![p] = iteration[p] + 1] ELSE ended
    /\ IF place[p] = SetSize
       THEN /\ place' = [place EXCEPT ![p] = 1]
            /\ iteration' = [iteration EXCEPT ![p] = @ + 1]
            /\ PubGoes(p, "loop")
       ELSE place' = [place EXCEPT ![p] = @ + 1] /\ UNCHANGED << iteration, ppc >>
    /\ UNCHANGED << opts, interrupted, printed, timedOut, matched, readerVars, subVars >>

\* A write, a final change or a wait for acknowledgments fails, otherwise than
\* by time-out: return 1, leaving the set open.  It may happen; nothing makes it.
PubFails(p) ==
    /\ ppc[p] \in {"write", "final", "ack"}
    /\ PubGoes(p, "failed")
    /\ UNCHANGED << opts, interrupted, iteration, place, printed, timedOut, matched, chan,
                    ended, readerVars, subVars >>

\* The last changes, again topic by topic, instance by instance.
NumFinals        == NumTopics * NumInstances
FinalTopic(k)    == ((k - 1) \div NumInstances) + 1
FinalInstance(k) == ((k - 1) % NumInstances) + 1

\* Dispose or unregister of every instance on every topic.
PubFinal(p) ==
    /\ ppc[p] = "final"
    /\ LET t == FinalTopic(place[p])
           x == FinalInstance(place[p])
       IN  chan' = IF t \in matched[p] THEN [chan EXCEPT ![p][t] = Append(@, Final(p, x))] ELSE chan
    /\ IF place[p] = NumFinals
       THEN place' = [place EXCEPT ![p] = 1] /\ PubGoes(p, "ack")
       ELSE place' = [place EXCEPT ![p] = @ + 1] /\ UNCHANGED ppc
    /\ UNCHANGED << opts, interrupted, iteration, printed, timedOut, matched, ended,
                    readerVars, subVars >>

\* Fault: only the first writer's acknowledgments are waited for.
LastToAcknowledge_Faulty == 1

LastToAcknowledge == NumTopics

\* wait_for_acknowledgments of one writer after the other, five seconds each.
PubAck(p) ==
    /\ ppc[p] = "ack"
    /\ \/ chan[p][place[p]] = << >> /\ UNCHANGED timedOut
       \/ chan[p][place[p]] # << >> /\ timedOut' = [timedOut EXCEPT ![p] = TRUE]
    /\ IF place[p] = LastToAcknowledge
       THEN PubGoes(p, "done") /\ UNCHANGED place
       ELSE place' = [place EXCEPT ![p] = @ + 1] /\ UNCHANGED ppc
    /\ UNCHANGED << opts, interrupted, iteration, printed, matched, chan, ended,
                    readerVars, subVars >>

PubStep(p) ==
    PubLeaveLoop(p) \/ PubGiveUp(p) \/ PubBegin(p) \/ PubWrite(p) \/ PubFinal(p) \/ PubAck(p)
-----------------------------------------------------------------------------
(***************************************************************************)
(* The middleware.                                                         *)
(***************************************************************************)
SubIsOver == spc \in {"done", "failed"}

\* Endpoints are matched topic by topic, or all at once where the environment
\* is kind.
Match(p) ==
    /\ ~SubIsOver /\ ~PubIsOver(p) /\ matched[p] # Topics
    /\ IF together THEN matched' = [matched EXCEPT ![p] = Topics]
       ELSE \E t \in Topics \ matched[p] : matched' = [matched EXCEPT ![p] = @ \cup {t}]
    /\ UNCHANGED << opts, interrupted, pubVars, chan, ended, readerVars, subVars >>

OfSet(i, m) == m.kind = "data" /\ m.set = i

\* A coherent set that has been ended reaches the readers of all topics at once:
\* the oldest one, the first n[t] changes of every topic.
DeliverSet(p) ==
    /\ coherent
    /\ \E i \in 1 .. ended[p], n \in [Topics -> 0 .. SetSize] :
        /\ \E t \in Topics : n[t] > 0
        /\ \A t \in Topics :
            /\ n[t] <= Len(chan[p][t])
            /\ \A j \in DOMAIN chan[p][t] : OfSet(i, chan[p][t][j]) <=> j <= n[t]
        /\ cache' = [t \in Topics |-> cache[t] \o SubSeq(chan[p][t], 1, n[t])]
        /\ writersOf' = [t \in Topics |-> [x \in Instances |->
             IF \E j \in 1 .. n[t] : chan[p][t][j].inst = x
             THEN writersOf[t][x] \cup {p} ELSE writersOf[t][x]]]
        /\ chan' = [chan EXCEPT ![p] =
             [t \in Topics |-> SubSeq(chan[p][t], n[t] + 1, Len(chan[p][t]))]]
    /\ UNCHANGED << opts, interrupted, pubVars, matched, ended, subVars >>

DeliverData(p, t) ==
    /\ ~coherent /\ chan[p][t] # << >> /\ Head(chan[p][t]).kind = "data"
    /\ cache' = [cache EXCEPT ![t] = Append(@, Head(chan[p][t]))]
    /\ writersOf' = [writersOf EXCEPT ![t][Head(chan[p][t]).inst] = @ \cup {p}]
    /\ chan' = [chan EXCEPT ![p][t] = Tail(@)]
    /\ UNCHANGED << opts, interrupted, pubVars, matched, ended, subVars >>

\* The last change of an instance gives a notice when it disposes it or leaves
\* it without a writer.  The notice carries the key or only its hash, and a
\* reader that never saw the instance may give one too.
DeliverFinal(p, t) ==
    /\ chan[p][t] # << >> /\ Head(chan[p][t]).kind = "final"
    /\ LET x    == Head(chan[p][t]).inst
           left == writersOf[t][x] \ {p}
       IN  /\ writersOf' = [writersOf EXCEPT ![t][x] = left]
           /\ \/ /\ finale = "dispose" \/ left = {}
                 /\ \E key \in BOOLEAN : cache' = [cache EXCEPT ![t] = Append(@, NotAlive(x, key))]
              \/ /\ ~(finale = "dispose" /\ p \in writersOf[t][x])
                 /\ ~(writersOf[t][x] = {p})
                 /\ UNCHANGED cache
    /\ chan' = [chan EXCEPT ![p][t] = Tail(@)]
    /\ UNCHANGED << opts, interrupted, pubVars, matched, ended, subVars >>

\* The participant of a publisher that is over is gone.
Depart(p) ==
    /\ PubIsOver(p) /\ matched[p] # {}
    /\ matched' = [matched EXCEPT ![p] = {}]
    /\ chan' = [chan EXCEPT ![p] = [t \in Topics |-> << >>]]
    /\ UNCHANGED << opts, interrupted, pubVars, ended, readerVars, subVars >>

\* An instance it leaves without a writer gives a notice that the middleware
\* makes up, without a key.
Orphan(p, t, x) ==
    /\ PubIsOver(p) /\ matched[p] = {} /\ ~SubIsOver
    /\ p \in writersOf[t][x]
    /\ writersOf' = [writersOf EXCEPT ![t][x] = @ \ {p}]
    /\ cache' = IF writersOf[t][x] = {p}
                THEN [cache EXCEPT ![t] = Append(@, NotAlive(x, FALSE))] ELSE cache
    /\ UNCHANGED << opts, interrupted, pubVars, matched, chan, ended, subVars >>

Deliver(p) == DeliverSet(p) \/ \E t \in Topics : DeliverData(p, t) \/ DeliverFinal(p, t)
-----------------------------------------------------------------------------
(***************************************************************************)
(* The subscriber.                                                         *)
(***************************************************************************)

\* Fault: begin_access is left out, so that every look sees what has arrived.
Visible_Faulty(t) == Len(cache[t])

\* Between begin_access and end_access the readers show what they had when it
\* began; without an access window every look sees what has arrived.
Visible(t) == IF gated THEN limit[t] ELSE Len(cache[t])

\* begin_access.
SubBegin ==
    /\ spc = "loop"
    /\ spc' = "read" /\ topic' = 1 /\ taken' = {}
    /\ limit' = [t \in Topics |-> IF gated THEN Len(cache[t]) ELSE 0]
    /\ UNCHANGED << opts, interrupted, pubVars, matched, chan, ended, readerVars, colors >>

TakeHead ==
    /\ cache' = [cache EXCEPT ![topic] = Tail(@)]
    /\ limit' = [limit EXCEPT ![topic] = IF @ > 0 THEN @ - 1 ELSE 0]

\* Fault: looking up an unknown handle inserts an empty string in every port.
InsertsOnMiss_Faulty == TRUE

\* ih_cache[handle] of the C++ port inserts an empty string for an unknown
\* handle; the look-ups of the other three ports do not.
InsertsOnMiss == port = "cpp"

\* A sample with data: a key that differs from the remembered one ends the run.
SubTakeData ==
    /\ spc = "read" /\ Visible(topic) > 0
    /\ LET m == Head(cache[topic])
       IN  /\ m.kind = "data"
           /\ TakeHead
           /\ IF colors[m.inst] = "empty"
              THEN spc' = "failed" /\ UNCHANGED << colors, taken >>
              ELSE /\ colors' = [colors EXCEPT ![m.inst] = "right"]
                   /\ taken' = taken \cup {<< m.from, m.set, m.place >>}
                   /\ UNCHANGED spc
    /\ UNCHANGED << opts, interrupted, pubVars, matched, chan, ended, writersOf, topic >>

\* A notice is printed with its own key or the remembered one.
SubTakeNotice ==
    /\ spc = "read" /\ Visible(topic) > 0
    /\ LET m == Head(cache[topic])
       IN  /\ m.kind = "notice"
           /\ TakeHead
           /\ colors' = IF ~m.keyed /\ colors[m.inst] = "none" /\ InsertsOnMiss
                        THEN [colors EXCEPT ![m.inst] = "empty"] ELSE colors
    /\ UNCHANGED << opts, interrupted, pubVars, matched, chan, ended, writersOf,
                    spc, topic, taken >>

\* Nothing more on this topic.
SubNextTopic ==
    /\ spc = "read" /\ Visible(topic) = 0
    /\ IF topic = NumTopics THEN spc' = "end" /\ UNCHANGED topic
       ELSE topic' = topic + 1 /\ UNCHANGED spc
    /\ UNCHANGED << opts, interrupted, pubVars, matched, chan, ended, readerVars,
                    limit, colors, taken >>

\* end_access and the pause.
SubEnd ==
    /\ spc = "end"
    /\ spc' = "loop" /\ topic' = 1 /\ taken' = {}
    /\ limit' = [t \in Topics |-> 0]
    /\ UNCHANGED << opts, interrupted, pubVars, matched, chan, ended, readerVars, colors >>

\* The subscriber's iterations are over or it is interrupted.
SubStop ==
    /\ spc = "loop"
    /\ spc' = "done"
    /\ UNCHANGED << opts, interrupted, pubVars, matched, chan, ended, readerVars,
                    topic, limit, colors, taken >>

\* A subscriber that is over takes its readers with it.
SubDepart ==
    /\ SubIsOver /\ \E p \in Publishers : matched[p] # {}
    /\ matched' = [p \in Publishers |-> {}]
    /\ chan' = [p \in Publishers |-> [t \in Topics |-> << >>]]
    /\ UNCHANGED << opts, interrupted, pubVars, ended, readerVars, subVars >>

SubStep == SubBegin \/ SubTakeData \/ SubTakeNotice \/ SubNextTopic \/ SubEnd

Next ==
    \/ SubStep
    \/ SubStop
    \/ SubDepart
    \/ \E p \in Publishers :
        \/ PubInterrupt(p)
        \/ PubStep(p)
        \/ PubFails(p)
        \/ Match(p)
        \/ Deliver(p)
        \/ Depart(p)
        \/ \E t \in Topics, x \in Instances : Orphan(p, t, x)

Spec == Init /\ [][Next]_vars

\* A publisher's process runs, and its deadlines pass; nothing is asked of the
\* middleware or of the subscriber, and no call has to fail.
FairSpec == Spec /\ \A p \in Publishers : WF_vars(PubStep(p))
-----------------------------------------------------------------------------
(***************************************************************************)
(* Properties.                                                             *)
(***************************************************************************)

\* What the subscriber takes of an iteration between begin_access and
\* end_access is the whole coherent set, on all topics, or nothing of it.
SetsWhole ==
    spc = "end" /\ coherent /\ together =>
        \A p \in Publishers : \A i \in 1 .. NumIterations :
            LET places == {k \in 1 .. SetSize : << p, i, k >> \in taken}
            IN  places = {} \/ places = 1 .. SetSize

\* A publisher that ends without a time-out is no longer a writer of any
\* instance of any topic, for a subscriber that is there: it has acknowledged
\* every last change.
FinalStateDelivered ==
    \A p \in Publishers :
        ppc[p] = "done" /\ ~timedOut[p] /\ ~SubIsOver =>
            \A t \in Topics : \A x \in Instances : p \notin writersOf[t][x]

\* The subscriber fails only on the key of an instance that has changed, which
\* the publishers never do; it does not fail on one it has only had a notice of.
NoFailure == spc # "failed"

\* The same of the ports whose look-up does not insert.
NoFalseFailure == port # "cpp" => NoFailure

\* The variables stay in their ranges, and a subscriber that only had a notice of
\* an instance does not take its next sample for a changed key.
ShapeInv == TypeOK /\ NoFalseFailure

\* A publisher ends, whether or not a reader matches, acknowledges or stays.
PublisherEnds == \A p \in Publishers : <>PubIsOver(p)
=============================================================================
