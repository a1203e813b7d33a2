----------------------------- MODULE ShapeProofs -----------------------------
(***************************************************************************)
(* What is proved about the shape application, for any number of           *)
(* publishers, topics, instances, iterations and samples of a set.         *)
(*                                                                         *)
(* Three invariants, each inductive with the types: which keys the         *)
(* subscriber remembers; how far the last changes of a publisher have got; *)
(* and where the samples of a coherent set are, which is together.         *)
(***************************************************************************)
EXTENDS Shape, SequenceTheorems, TLAPS

(***************************************************************************)
(* Places of an iteration.                                                 *)
(***************************************************************************)
LEMMA Product ==
    ASSUME NEW a \in Nat \ {0}, NEW b \in Nat \ {0}
    PROVE  a * b \in Nat \ {0} /\ a <= a * b /\ b <= a * b
  OBVIOUS

LEMMA Quotient ==
    ASSUME NEW a \in Nat, NEW m \in Nat \ {0}, NEW n \in Nat \ {0}
    PROVE  /\ a \div n \in Nat
           /\ a < m * n => a \div n \in 0 .. m - 1
           /\ a % n \in 0 .. n - 1
<1>1. a \div n \in Nat
  OBVIOUS
<1>2. a < m * n => a \div n \in 0 .. m - 1
  <2>1. a < m * n => a \div n < m
    OBVIOUS
  <2> QED
    BY <1>1, <2>1
<1>3. a % n \in 0 .. n - 1
  OBVIOUS
<1> QED
  BY <1>1, <1>2, <1>3

LEMMA QuotientOf ==
    ASSUME NEW q \in Nat, NEW n \in Nat \ {0}, NEW r \in 0 .. n - 1
    PROVE  (q * n + r) \div n = q /\ (q * n + r) % n = r
<1>1. (q * n + r) \div n = q
  OBVIOUS
<1>2. (q * n + r) % n = r
  OBVIOUS
<1> QED
  BY <1>1, <1>2

LEMMA Sizes ==
    ASSUME opts \in Options
    PROVE  /\ NumTopics \in Nat \ {0} /\ NumIterations \in Nat \ {0}
           /\ NumInstances \in Nat \ {0} /\ PerInstance \in Nat \ {0}
           /\ SetSize \in Nat \ {0} /\ NumFinals \in Nat \ {0}
           /\ NumTopics <= NumFinals /\ NumFinals <= SetSize
           /\ coherent \in BOOLEAN /\ gated \in BOOLEAN /\ together \in BOOLEAN
<1>1. /\ NumTopics \in Nat \ {0} /\ NumIterations \in Nat \ {0}
      /\ coherent \in BOOLEAN /\ gated \in BOOLEAN /\ together \in BOOLEAN
  BY OptionsAssumption DEF NumTopics, NumIterations, coherent, gated, together
<1>2. NumInstances \in Nat \ {0} /\ PerInstance \in Nat \ {0}
  BY SizesAssumption DEF PerInstance
<1>3. NumFinals \in Nat \ {0} /\ NumTopics <= NumFinals
  BY <1>1, <1>2, Product DEF NumFinals
<1>4. SetSize \in Nat \ {0} /\ NumFinals <= SetSize
  BY <1>2, <1>3, Product DEF SetSize, NumFinals
<1> QED
  BY <1>1, <1>2, <1>3, <1>4

LEMMA SamplePlaces ==
    ASSUME opts \in Options, NEW k \in 1 .. SetSize
    PROVE  TopicOf(k) \in Topics /\ InstanceOf(k) \in Instances
<1>1. /\ NumTopics \in Nat \ {0} /\ NumInstances \in Nat \ {0} /\ PerInstance \in Nat \ {0}
      /\ SetSize \in Nat
  BY Sizes
<1>2. k - 1 \in Nat
  BY <1>1
<1>3. NumInstances * PerInstance \in Nat \ {0}
  BY <1>1, Product
<1>4. k - 1 < NumTopics * (NumInstances * PerInstance)
  <2>1. SetSize = NumTopics * (NumInstances * PerInstance)
    BY <1>1 DEF SetSize
  <2> QED
    BY <1>1, <2>1
<1>5. (k - 1) \div (NumInstances * PerInstance) \in 0 .. NumTopics - 1
  BY <1>1, <1>2, <1>3, <1>4, Quotient
<1>6. (k - 1) \div PerInstance \in Nat
  BY <1>1, <1>2, Quotient
<1>7. ((k - 1) \div PerInstance) % NumInstances \in 0 .. NumInstances - 1
  BY <1>1, <1>6, Quotient
<1>8. TopicOf(k) \in Topics
  BY <1>1, <1>5 DEF TopicOf, Topics
<1>9. InstanceOf(k) \in Instances
  BY <1>1, <1>7 DEF InstanceOf, Instances
<1> QED
  BY <1>8, <1>9

LEMMA FinalPlaces ==
    ASSUME opts \in Options
    PROVE  /\ \A k \in 1 .. NumFinals : FinalTopic(k) \in Topics /\ FinalInstance(k) \in Instances
           /\ \A t \in Topics, x \in Instances :
                 \E k \in 1 .. NumFinals : FinalTopic(k) = t /\ FinalInstance(k) = x
<1>1. NumTopics \in Nat \ {0} /\ NumInstances \in Nat \ {0} /\ NumFinals \in Nat
  BY Sizes
<1>2. ASSUME NEW k \in 1 .. NumFinals PROVE FinalTopic(k) \in Topics /\ FinalInstance(k) \in Instances
  <2>1. k - 1 \in Nat /\ k - 1 < NumTopics * NumInstances
    BY <1>1 DEF NumFinals
  <2>2. (k - 1) \div NumInstances \in 0 .. NumTopics - 1 /\ (k - 1) % NumInstances \in 0 .. NumInstances - 1
    BY <1>1, <2>1, Quotient
  <2> QED
    BY <1>1, <2>2 DEF FinalTopic, FinalInstance, Topics, Instances
<1>3. ASSUME NEW t \in Topics, NEW x \in Instances
      PROVE  \E k \in 1 .. NumFinals : FinalTopic(k) = t /\ FinalInstance(k) = x
  <2> DEFINE q == t - 1
             r == x - 1
             k == (q * NumInstances + r) + 1
  <2>1. /\ q \in Nat /\ q <= NumTopics - 1 /\ t = q + 1
        /\ r \in 0 .. NumInstances - 1 /\ x = r + 1
    BY <1>1 DEF Topics, Instances
  <2> HIDE DEF q, r
  <2>2. q * NumInstances \in Nat /\ q * NumInstances <= (NumTopics - 1) * NumInstances
    BY <1>1, <2>1
  <2>3. (NumTopics - 1) * NumInstances = NumFinals - NumInstances
    BY <1>1 DEF NumFinals
  <2>4. k \in 1 .. NumFinals
    BY <1>1, <2>1, <2>2, <2>3
  <2>5. k - 1 = q * NumInstances + r
    BY <1>1, <2>1, <2>2
  <2>6. (k - 1) \div NumInstances = q /\ (k - 1) % NumInstances = r
    BY <1>1, <2>1, <2>5, QuotientOf
  <2>7. FinalTopic(k) = t /\ FinalInstance(k) = x
    BY <2>1, <2>6 DEF FinalTopic, FinalInstance
  <2> QED
    BY <2>4, <2>7
<1> QED
  BY <1>2, <1>3
-----------------------------------------------------------------------------
(***************************************************************************)
(* Types and keys.                                                         *)
(***************************************************************************)
\* Where a publisher's loop variables are.
PubPlaces ==
    \A p \in Publishers :
        /\ ppc[p] = "loop" => place[p] = 1
        /\ ppc[p] = "write" => iteration[p] < NumIterations
        /\ ppc[p] = "final" => place[p] <= NumFinals
        /\ ppc[p] = "ack" => place[p] <= NumTopics
        /\ ended[p] = iteration[p]

\* Only the C++ port remembers an empty key, and only it fails.
KeysKept == port # "cpp" => spc # "failed" /\ \A x \in Instances : colors[x] # "empty"

PubTypes ==
    /\ interrupted \in SUBSET Publishers
    /\ ppc \in [Publishers -> {"loop", "write", "final", "ack", "done", "failed", "unmatched"}]
    /\ iteration \in [Publishers -> 0 .. NumIterations]
    /\ place \in [Publishers -> 1 .. SetSize]
    /\ printed \in [Publishers -> BOOLEAN] /\ timedOut \in [Publishers -> BOOLEAN]
    /\ ended \in [Publishers -> 0 .. NumIterations]

NetTypes ==
    /\ matched \in [Publishers -> SUBSET Topics]
    /\ chan \in [Publishers -> [Topics -> Seq(Samples \cup Finals)]]
    /\ cache \in [Topics -> Seq(Samples \cup Notices)]
    /\ writersOf \in [Topics -> [Instances -> SUBSET Publishers]]

SubTypes ==
    /\ spc \in {"loop", "read", "end", "done", "failed"}
    /\ topic \in Topics
    /\ limit \in [Topics -> Nat]
    /\ \A t \in Topics : limit[t] <= Len(cache[t])
    /\ colors \in [Instances -> {"none", "empty", "right"}]
    /\ taken \subseteq Publishers \X (1 .. NumIterations) \X (1 .. SetSize)

TypeInd ==
    /\ opts \in Options
    /\ PubTypes /\ PubPlaces
    /\ NetTypes
    /\ SubTypes /\ KeysKept

\* A publisher's own step: one of its program, or the failure of a call.
PubActs(p) == PubStep(p) \/ PubFails(p)

\* The options stay, and with them everything that depends only on them.
LEMMA OptionsStay == ASSUME [Next]_vars PROVE opts' = opts
<1>1. CASE SubStep \/ SubStop \/ SubDepart \/ UNCHANGED vars
  BY <1>1 DEF vars, SubStep, SubStop, SubDepart, SubBegin, SubTakeData, SubTakeNotice,
              SubNextTopic, SubEnd
<1>2. ASSUME NEW p \in Publishers, PubInterrupt(p) \/ PubActs(p) PROVE opts' = opts
  BY <1>2 DEF PubInterrupt, PubActs, PubStep, PubLeaveLoop, PubGiveUp, PubBegin, PubWrite, PubFails,
              PubFinal, PubAck
<1>3. ASSUME NEW p \in Publishers, Match(p) \/ Deliver(p) \/ Depart(p) PROVE opts' = opts
  BY <1>3 DEF Match, Deliver, Depart, DeliverSet, DeliverData, DeliverFinal
<1>4. ASSUME NEW p \in Publishers, NEW t \in Topics, NEW x \in Instances, Orphan(p, t, x)
      PROVE  opts' = opts
  BY <1>4 DEF Orphan
<1> QED
  BY <1>1, <1>2, <1>3, <1>4 DEF Next, PubActs

LEMMA Fixed ==
    ASSUME opts' = opts
    PROVE  /\ UNCHANGED << port, coherent, gated, together, NumTopics, NumIterations, Topics,
                           SetSize, NumFinals, Samples, Finals, Notices >>
           /\ \A k : UNCHANGED << TopicOf(k), InstanceOf(k) >>
           /\ \A p, i, k : UNCHANGED Data(p, i, k)
  BY DEF port, coherent, gated, together, NumTopics, NumIterations, Topics, PerInstance,
         SetSize, NumFinals, Samples, Finals, Notices, TopicOf, InstanceOf, Data

\* A publisher's own variables after one of its steps.
LEMMA PubStepTypes ==
    ASSUME TypeInd, opts' = opts, NEW p \in Publishers, PubActs(p)
    PROVE  PubTypes' /\ PubPlaces'
<1> DEFINE Others == \A q \in Publishers : q # p =>
                        /\ ppc'[q] = ppc[q] /\ place'[q] = place[q]
                        /\ iteration'[q] = iteration[q] /\ ended'[q] = ended[q]
<1>a. /\ NumTopics \in Nat \ {0} /\ NumIterations \in Nat \ {0} /\ SetSize \in Nat \ {0}
      /\ NumFinals \in Nat \ {0} /\ NumTopics <= NumFinals /\ NumFinals <= SetSize
  BY Sizes DEF TypeInd
<1>b. UNCHANGED << NumTopics, NumIterations, SetSize, NumFinals >>
  BY Fixed
<1>c. /\ ppc[p] = "loop" => place[p] = 1
      /\ ppc[p] = "write" => iteration[p] < NumIterations
      /\ ppc[p] = "final" => place[p] <= NumFinals
      /\ ppc[p] = "ack" => place[p] <= NumTopics
      /\ ended[p] = iteration[p]
  BY DEF TypeInd, PubPlaces
<1>d. place[p] \in 1 .. SetSize /\ iteration[p] \in 0 .. NumIterations /\ ended[p] \in 0 .. NumIterations
  BY DEF TypeInd, PubTypes
<1>1. CASE PubLeaveLoop(p) \/ PubGiveUp(p) \/ PubFails(p)
  <2>1. /\ \E step \in {"final", "unmatched", "failed"} :
              ppc' = [ppc EXCEPT ![p] = step] /\ (step = "final" => ppc[p] = "loop")
        /\ UNCHANGED << interrupted, iteration, place, printed, timedOut, ended >>
    BY <1>1 DEF PubLeaveLoop, PubGiveUp, PubFails, PubGoes
  <2>2. PubTypes'
    BY <1>b, <2>1 DEF TypeInd, PubTypes
  <2>3. PubPlaces'
    BY <1>a, <1>b, <1>c, <2>1 DEF TypeInd, PubTypes, PubPlaces
  <2> QED
    BY <2>2, <2>3
<1>2. CASE PubBegin(p)
  <2>1. /\ ppc' = [ppc EXCEPT ![p] = "write"]
        /\ printed' = [printed EXCEPT ![p] = @ \/ 1 \in matched[p]]
        /\ iteration[p] < NumIterations
        /\ UNCHANGED << interrupted, iteration, place, timedOut, ended >>
    BY <1>2 DEF PubBegin, PubGoes, MayGoOn
  <2>2. printed' \in [Publishers -> BOOLEAN]
    BY <2>1 DEF TypeInd, PubTypes
  <2>3. PubTypes'
    BY <1>b, <2>1, <2>2 DEF TypeInd, PubTypes
  <2>4. PubPlaces'
    BY <1>a, <1>b, <1>c, <2>1 DEF TypeInd, PubTypes, PubPlaces
  <2> QED
    BY <2>3, <2>4
<1>3. CASE PubWrite(p)
  <2>1. UNCHANGED << interrupted, printed, timedOut >> /\ ppc[p] = "write"
    BY <1>3 DEF PubWrite
  <2>2. CASE place[p] = SetSize
    <3>1. /\ ppc' = [ppc EXCEPT ![p] = "loop"] /\ place' = [place EXCEPT ![p] = 1]
          /\ iteration' = [iteration EXCEPT ![p] = iteration[p] + 1]
          /\ ended' = [ended EXCEPT ![p] = iteration[p] + 1]
      BY <1>3, <2>2 DEF PubWrite, PubGoes, EndsSet
    <3>2. iteration[p] + 1 \in 0 .. NumIterations /\ 1 \in 1 .. SetSize
      BY <1>a, <1>c, <1>d, <2>1
    <3>3. PubTypes'
      BY <1>b, <2>1, <3>1, <3>2 DEF TypeInd, PubTypes
    <3>4. /\ ppc'[p] = "loop" /\ place'[p] = 1 /\ ended'[p] = iteration'[p] /\ Others
      BY <3>1 DEF TypeInd, PubTypes
    <3>5. PubPlaces'
      BY <1>b, <3>4 DEF TypeInd, PubPlaces
    <3> QED
      BY <3>3, <3>5
  <2>3. CASE place[p] # SetSize
    <3>1. /\ place' = [place EXCEPT ![p] = place[p] + 1] /\ UNCHANGED << ppc, iteration, ended >>
      BY <1>3, <2>3 DEF PubWrite, EndsSet
    <3>2. place[p] + 1 \in 1 .. SetSize
      BY <1>a, <1>d, <2>3
    <3>3. PubTypes'
      BY <1>b, <2>1, <3>1, <3>2 DEF TypeInd, PubTypes
    <3>4. ppc'[p] = "write" /\ iteration'[p] < NumIterations /\ ended'[p] = iteration'[p] /\ Others
      BY <1>c, <2>1, <3>1 DEF TypeInd, PubTypes
    <3>5. PubPlaces'
      BY <1>b, <3>4 DEF TypeInd, PubPlaces
    <3> QED
      BY <3>3, <3>5
  <2> QED
    BY <2>2, <2>3
<1>4. CASE PubFinal(p)
  <2>1. UNCHANGED << interrupted, iteration, printed, timedOut, ended >> /\ ppc[p] = "final"
    BY <1>4 DEF PubFinal
  <2>2. CASE place[p] = NumFinals
    <3>1. place' = [place EXCEPT ![p] = 1] /\ ppc' = [ppc EXCEPT ![p] = "ack"]
      BY <1>4, <2>2 DEF PubFinal, PubGoes
    <3>2. 1 \in 1 .. SetSize /\ 1 <= NumTopics
      BY <1>a
    <3>3. PubTypes'
      BY <1>b, <2>1, <3>1, <3>2 DEF TypeInd, PubTypes
    <3>4. ppc'[p] = "ack" /\ place'[p] = 1 /\ ended'[p] = iteration'[p] /\ Others
      BY <1>c, <2>1, <3>1 DEF TypeInd, PubTypes
    <3>5. PubPlaces'
      BY <1>b, <3>2, <3>4 DEF TypeInd, PubPlaces
    <3> QED
      BY <3>3, <3>5
  <2>3. CASE place[p] # NumFinals
    <3>1. place' = [place EXCEPT ![p] = place[p] + 1] /\ UNCHANGED ppc
      BY <1>4, <2>3 DEF PubFinal
    <3>2. place[p] + 1 \in 1 .. SetSize /\ place[p] + 1 <= NumFinals
      BY <1>a, <1>c, <1>d, <2>1, <2>3
    <3>3. PubTypes'
      BY <1>b, <2>1, <3>1, <3>2 DEF TypeInd, PubTypes
    <3>4. ppc'[p] = "final" /\ place'[p] <= NumFinals /\ ended'[p] = iteration'[p] /\ Others
      BY <1>c, <2>1, <3>1, <3>2 DEF TypeInd, PubTypes
    <3>5. PubPlaces'
      BY <1>b, <3>4 DEF TypeInd, PubPlaces
    <3> QED
      BY <3>3, <3>5
  <2> QED
    BY <2>2, <2>3
<1>5. CASE PubAck(p)
  <2>1. /\ UNCHANGED << interrupted, iteration, printed, ended >> /\ ppc[p] = "ack"
        /\ timedOut' = timedOut \/ timedOut' = [timedOut EXCEPT ![p] = TRUE]
    BY <1>5 DEF PubAck
  <2>2. timedOut' \in [Publishers -> BOOLEAN]
    BY <2>1 DEF TypeInd, PubTypes
  <2>3. CASE place[p] = NumTopics
    <3>1. ppc' = [ppc EXCEPT ![p] = "done"] /\ UNCHANGED place
      BY <1>5, <2>3 DEF PubAck, PubGoes, LastToAcknowledge
    <3>2. PubTypes'
      BY <1>b, <2>1, <2>2, <3>1 DEF TypeInd, PubTypes
    <3>3. ppc'[p] = "done" /\ ended'[p] = iteration'[p] /\ Others
      BY <1>c, <2>1, <3>1 DEF TypeInd, PubTypes
    <3>4. PubPlaces'
      BY <1>b, <3>3 DEF TypeInd, PubPlaces
    <3> QED
      BY <3>2, <3>4
  <2>4. CASE place[p] # NumTopics
    <3>1. place' = [place EXCEPT ![p] = place[p] + 1] /\ UNCHANGED ppc
      BY <1>5, <2>4 DEF PubAck, LastToAcknowledge
    <3>2. place[p] + 1 \in 1 .. SetSize /\ place[p] + 1 <= NumTopics
      BY <1>a, <1>c, <1>d, <2>1, <2>4
    <3>3. PubTypes'
      BY <1>b, <2>1, <2>2, <3>1, <3>2 DEF TypeInd, PubTypes
    <3>4. ppc'[p] = "ack" /\ place'[p] <= NumTopics /\ ended'[p] = iteration'[p] /\ Others
      BY <1>c, <2>1, <3>1, <3>2 DEF TypeInd, PubTypes
    <3>5. PubPlaces'
      BY <1>b, <3>4 DEF TypeInd, PubPlaces
    <3> QED
      BY <3>3, <3>5
  <2> QED
    BY <2>3, <2>4
<1> QED
  BY <1>1, <1>2, <1>3, <1>4, <1>5 DEF PubActs, PubStep

\* What a publisher's own step puts on its way.
LEMMA WriteSends ==
    ASSUME TypeInd, NEW p \in Publishers, PubWrite(p)
    PROVE  LET k == place[p]
               t == TopicOf(k)
               m == Data(p, iteration[p] + 1, k)
           IN  /\ ppc[p] = "write" /\ ppc'[p] \in {"loop", "write"} /\ k \in 1 .. SetSize
               /\ t \in Topics /\ m \in Samples /\ iteration[p] + 1 \in 1 .. NumIterations
               /\ t \notin matched[p] => UNCHANGED chan
               /\ t \in matched[p] => chan' = [chan EXCEPT ![p][t] = Append(chan[p][t], m)]
<1> DEFINE k == place[p]
           t == TopicOf(k)
           m == Data(p, iteration[p] + 1, k)
<1>1. /\ ppc[p] = "write" /\ (t \notin matched[p] => UNCHANGED chan)
      /\ t \in matched[p] => chan' = [chan EXCEPT ![p][t] = Append(chan[p][t], m)]
  BY DEF PubWrite
<1>2. ppc'[p] \in {"loop", "write"}
  BY <1>1 DEF PubWrite, PubGoes, TypeInd, PubTypes
<1>3. k \in 1 .. SetSize /\ NumIterations \in Nat /\ iteration[p] \in 0 .. NumIterations
  BY Sizes DEF TypeInd, PubTypes
<1>4. iteration[p] + 1 \in 1 .. NumIterations
  BY <1>1, <1>3 DEF TypeInd, PubPlaces
<1>5. InstanceOf(k) \in Instances /\ t \in Topics
  BY <1>3, SamplePlaces DEF TypeInd
<1>6. m \in Samples
  BY <1>3, <1>4, <1>5 DEF Data, Samples
<1> QED
  BY <1>1, <1>2, <1>3, <1>4, <1>5, <1>6

LEMMA FinalSends ==
    ASSUME TypeInd, NEW p \in Publishers, PubFinal(p)
    PROVE  LET k == place[p]
               t == FinalTopic(k)
               m == Final(p, FinalInstance(k))
           IN  /\ ppc[p] = "final" /\ k \in 1 .. NumFinals
               /\ t \in Topics /\ m \in Finals /\ FinalInstance(k) \in Instances
               /\ t \notin matched[p] => UNCHANGED chan
               /\ t \in matched[p] => chan' = [chan EXCEPT ![p][t] = Append(chan[p][t], m)]
<1> DEFINE k == place[p]
           t == FinalTopic(k)
           m == Final(p, FinalInstance(k))
<1>1. /\ ppc[p] = "final" /\ (t \notin matched[p] => UNCHANGED chan)
      /\ t \in matched[p] => chan' = [chan EXCEPT ![p][t] = Append(chan[p][t], m)]
  BY DEF PubFinal
<1>2. k \in 1 .. NumFinals
  BY <1>1, Sizes DEF TypeInd, PubTypes, PubPlaces
<1>3. FinalInstance(k) \in Instances /\ t \in Topics
  BY <1>2, FinalPlaces DEF TypeInd
<1>4. m \in Finals
  BY <1>3 DEF Final, Finals
<1> QED
  BY <1>1, <1>2, <1>3, <1>4

\* What a publisher's step leaves alone, and how what is on its way grows.
LEMMA PubStepChan ==
    ASSUME TypeInd, NEW p \in Publishers, PubActs(p)
    PROVE  /\ UNCHANGED << interrupted, matched, readerVars, subVars >>
           /\ \/ UNCHANGED chan
              \/ \E t \in matched[p], m \in Samples \cup Finals :
                    chan' = [chan EXCEPT ![p][t] = Append(chan[p][t], m)]
<1>1. CASE PubLeaveLoop(p) \/ PubGiveUp(p) \/ PubBegin(p) \/ PubFails(p) \/ PubAck(p)
  BY <1>1 DEF PubLeaveLoop, PubGiveUp, PubBegin, PubFails, PubAck
<1>2. CASE PubWrite(p)
  <2>1. UNCHANGED << interrupted, matched, readerVars, subVars >>
    BY <1>2 DEF PubWrite
  <2> QED
    BY <1>2, <2>1, WriteSends
<1>3. CASE PubFinal(p)
  <2>1. UNCHANGED << interrupted, matched, readerVars, subVars >>
    BY <1>3 DEF PubFinal
  <2> QED
    BY <1>3, <2>1, FinalSends
<1> QED
  BY <1>1, <1>2, <1>3 DEF PubActs, PubStep

\* The three ways in which a sequence of changes or samples changes.
LEMMA Appended ==
    ASSUME NEW S, NEW s \in Seq(S), NEW m \in S
    PROVE  /\ Append(s, m) \in Seq(S) /\ Len(Append(s, m)) = Len(s) + 1
           /\ \A j \in 1 .. Len(s) : Append(s, m)[j] = s[j]
           /\ Append(s, m)[Len(s) + 1] = m
  OBVIOUS

LEMMA Behead ==
    ASSUME NEW S, NEW s \in Seq(S), s # << >>
    PROVE  /\ Tail(s) \in Seq(S) /\ Len(Tail(s)) = Len(s) - 1 /\ Len(s) \in Nat /\ Len(s) >= 1
           /\ \A j \in 1 .. Len(s) - 1 : Tail(s)[j] = s[j + 1]
           /\ Head(s) = s[1] /\ s[1] \in S
  BY HeadTailProperties

LEMMA Divided ==
    ASSUME NEW S, NEW s \in Seq(S), NEW n \in 0 .. Len(s)
    PROVE  LET a == SubSeq(s, 1, n)
               b == SubSeq(s, n + 1, Len(s))
           IN  /\ a \in Seq(S) /\ Len(a) = n /\ \A j \in 1 .. n : a[j] = s[j]
               /\ b \in Seq(S) /\ Len(b) = Len(s) - n
               /\ \A j \in 1 .. Len(s) - n : b[j] = s[n + j]
<1> DEFINE a == SubSeq(s, 1, n)
           b == SubSeq(s, n + 1, Len(s))
<1>0. Len(s) \in Nat /\ n \in Nat /\ n <= Len(s)
  OBVIOUS
<1>1. a \in Seq(S) /\ Len(a) = n /\ \A j \in 1 .. n : a[j] = s[j]
  BY <1>0, SubSeqProperties
<1>2. b \in Seq(S) /\ Len(b) = Len(s) - n /\ \A j \in 1 .. Len(s) - n : b[j] = s[n + j]
  BY <1>0, SubSeqProperties
<1> QED
  BY <1>1, <1>2
-----------------------------------------------------------------------------
\* A publisher's variables stay when it takes no step.
LEMMA PubKept ==
    ASSUME TypeInd, UNCHANGED << opts, interrupted, pubVars, ended >>
    PROVE  PubTypes' /\ PubPlaces'
<1>1. UNCHANGED << NumTopics, NumIterations, SetSize, NumFinals >>
  BY Fixed
<1> QED
  BY <1>1 DEF TypeInd, PubTypes, PubPlaces, pubVars

\* The subscriber's variables stay when it takes no step and nothing is lost of
\* what it has.
LEMMA SubKept ==
    ASSUME TypeInd, UNCHANGED << opts, subVars >>,
           \A t \in Topics : Len(cache[t]) <= Len(cache'[t]),
           NetTypes'
    PROVE  SubTypes' /\ KeysKept'
<1>1. UNCHANGED << port, Topics, NumIterations, SetSize, Samples, Notices >>
  BY Fixed
<1>2. \A t \in Topics : Len(cache[t]) \in Nat /\ Len(cache'[t]) \in Nat /\ limit[t] \in Nat
  BY <1>1 DEF TypeInd, NetTypes, SubTypes
<1>3. \A t \in Topics : limit[t] <= Len(cache'[t])
  BY <1>2 DEF TypeInd, SubTypes
<1> QED
  BY <1>1, <1>3 DEF TypeInd, SubTypes, KeysKept, subVars

\* The matches and the changes on their way, when the subscriber's side stays.
LEMMA ReaderKept ==
    ASSUME TypeInd, UNCHANGED << opts, readerVars, subVars >>,
           matched' \in [Publishers -> SUBSET Topics],
           chan' \in [Publishers -> [Topics -> Seq(Samples \cup Finals)]]
    PROVE  NetTypes' /\ SubTypes' /\ KeysKept'
<1>1. UNCHANGED << Topics, Samples, Finals, Notices >>
  BY Fixed
<1>2. NetTypes'
  BY <1>1 DEF TypeInd, NetTypes, readerVars
<1>3. \A t \in Topics : Len(cache[t]) <= Len(cache'[t])
  BY DEF TypeInd, NetTypes, readerVars
<1> QED
  BY <1>2, <1>3, SubKept

LEMMA PubInd ==
    ASSUME TypeInd, opts' = opts, NEW p \in Publishers, PubActs(p)
    PROVE  TypeInd'
<1>1. PubTypes' /\ PubPlaces'
  BY PubStepTypes
<1>2. UNCHANGED << matched, readerVars, subVars >>
  BY PubStepChan
<1>3. chan' \in [Publishers -> [Topics -> Seq(Samples \cup Finals)]]
  <2>1. CASE UNCHANGED chan
    BY <2>1 DEF TypeInd, NetTypes
  <2>2. ASSUME NEW t \in matched[p], NEW m \in Samples \cup Finals,
               chan' = [chan EXCEPT ![p][t] = Append(chan[p][t], m)]
        PROVE  chan' \in [Publishers -> [Topics -> Seq(Samples \cup Finals)]]
    <3>1. t \in Topics /\ chan[p] \in [Topics -> Seq(Samples \cup Finals)]
      BY DEF TypeInd, NetTypes
    <3>2. Append(chan[p][t], m) \in Seq(Samples \cup Finals)
      BY <3>1, Appended
    <3> QED
      BY <2>2, <3>1, <3>2 DEF TypeInd, NetTypes
  <2> QED
    BY <2>1, <2>2, PubStepChan
<1>4. matched' \in [Publishers -> SUBSET Topics]
  BY <1>2 DEF TypeInd, NetTypes
<1>5. NetTypes' /\ SubTypes' /\ KeysKept'
  BY <1>2, <1>3, <1>4, ReaderKept
<1> QED
  BY <1>1, <1>5 DEF TypeInd

\* The steps that only match, or end a match.
LEMMA MatchInd ==
    ASSUME TypeInd, opts' = opts,
           SubDepart \/ \E p \in Publishers : Match(p) \/ Depart(p) \/ PubInterrupt(p)
    PROVE  TypeInd'
<1> DEFINE S == Samples \cup Finals
           Silence == [t \in Topics |-> << >>]
           Kept == /\ UNCHANGED << pubVars, ended, readerVars, subVars >>
                   /\ interrupted' \in SUBSET Publishers
                   /\ matched' \in [Publishers -> SUBSET Topics]
                   /\ chan' \in [Publishers -> [Topics -> Seq(S)]]
<1> HIDE DEF S
<1>0. /\ matched \in [Publishers -> SUBSET Topics] /\ chan \in [Publishers -> [Topics -> Seq(S)]]
      /\ Silence \in [Topics -> Seq(S)]
  <2>1. << >> \in Seq(S)
    BY EmptySeq
  <2> QED
    BY <2>1 DEF TypeInd, NetTypes, S
<1>1. Kept
  <2>1. CASE SubDepart
    BY <1>0, <2>1 DEF SubDepart, TypeInd, PubTypes
  <2>2. ASSUME NEW p \in Publishers, Match(p)
        PROVE  Kept
    <3>1. UNCHANGED << interrupted, pubVars, chan, ended, readerVars, subVars >>
      BY <2>2 DEF Match
    <3>2. \E T \in SUBSET Topics : matched' = [matched EXCEPT ![p] = T]
      <4>1. matched[p] \in SUBSET Topics
        BY <1>0
      <4>2. \/ matched' = [matched EXCEPT ![p] = Topics]
            \/ \E t \in Topics : matched' = [matched EXCEPT ![p] = matched[p] \cup {t}]
        BY <2>2 DEF Match
      <4> QED
        BY <4>1, <4>2
    <3>3. matched' \in [Publishers -> SUBSET Topics]
      BY <1>0, <3>2
    <3> QED
      BY <1>0, <3>1, <3>3 DEF TypeInd, PubTypes
  <2>3. ASSUME NEW p \in Publishers, Depart(p)
        PROVE  Kept
    BY <1>0, <2>3 DEF Depart, TypeInd, PubTypes
  <2>4. ASSUME NEW p \in Publishers, PubInterrupt(p)
        PROVE  Kept
    BY <1>0, <2>4 DEF PubInterrupt, TypeInd, PubTypes
  <2> QED
    BY <2>1, <2>2, <2>3, <2>4
<1>2. PubTypes' /\ PubPlaces'
  <2>1. UNCHANGED << NumTopics, NumIterations, SetSize, NumFinals >>
    BY Fixed
  <2> QED
    BY <1>1, <2>1 DEF TypeInd, PubTypes, PubPlaces, pubVars
<1>3. NetTypes' /\ SubTypes' /\ KeysKept'
  BY <1>1, ReaderKept DEF S
<1> QED
  BY <1>2, <1>3 DEF TypeInd

\* Delivery, of a set, of a sample or of a last change.
LEMMA DeliverInd ==
    ASSUME TypeInd, opts' = opts, NEW p \in Publishers,
           Deliver(p) \/ \E t \in Topics, x \in Instances : Orphan(p, t, x)
    PROVE  TypeInd'
<1> DEFINE S == Samples \cup Finals
           C == Samples \cup Notices
           W == [Instances -> SUBSET Publishers]
           Kept == /\ chan' \in [Publishers -> [Topics -> Seq(S)]]
                   /\ cache' \in [Topics -> Seq(C)]
                   /\ writersOf' \in [Topics -> W]
                   /\ \A t \in Topics : Len(cache[t]) <= Len(cache'[t])
<1>0. /\ chan \in [Publishers -> [Topics -> Seq(S)]] /\ cache \in [Topics -> Seq(C)]
      /\ writersOf \in [Topics -> W]
      /\ \A m \in S : m.kind = "data" => m \in Samples
      /\ \A m \in S : m.inst \in Instances
      /\ \A x \in Instances, key \in BOOLEAN : NotAlive(x, key) \in C
  BY DEF TypeInd, NetTypes, Samples, Finals, Notices, NotAlive
<1>1. UNCHANGED << opts, interrupted, pubVars, matched, ended, subVars >>
  BY DEF Deliver, DeliverSet, DeliverData, DeliverFinal, Orphan
<1>k. \A t \in Topics, m \in C : /\ Append(cache[t], m) \in Seq(C)
                                 /\ Len(Append(cache[t], m)) = Len(cache[t]) + 1
                                 /\ Len(cache[t]) \in Nat
  <2> HIDE DEF C
  <2> QED
    BY <1>0, Appended
<1>t. \A t \in Topics : chan[p][t] # << >> => /\ Tail(chan[p][t]) \in Seq(S)
                                              /\ Head(chan[p][t]) \in S
  <2> HIDE DEF S
  <2> QED
    BY <1>0, Behead
<1> HIDE DEF S, C, W
<1>2. ASSUME DeliverSet(p) PROVE Kept
  <2>1. PICK i \in 1 .. ended[p], n \in [Topics -> 0 .. SetSize] :
          /\ \A t \in Topics : n[t] <= Len(chan[p][t])
          /\ \A t \in Topics : \A j \in DOMAIN chan[p][t] : OfSet(i, chan[p][t][j]) <=> j <= n[t]
          /\ cache' = [t \in Topics |-> cache[t] \o SubSeq(chan[p][t], 1, n[t])]
          /\ writersOf' = [t \in Topics |-> [x \in Instances |->
               IF \E j \in 1 .. n[t] : chan[p][t][j].inst = x
               THEN writersOf[t][x] \cup {p} ELSE writersOf[t][x]]]
          /\ chan' = [chan EXCEPT ![p] =
               [t \in Topics |-> SubSeq(chan[p][t], n[t] + 1, Len(chan[p][t]))]]
    BY <1>2 DEF DeliverSet
  <2>2. \A t \in Topics : chan[p][t] \in Seq(S) /\ n[t] \in 0 .. Len(chan[p][t])
    BY <1>0, <2>1, Sizes DEF TypeInd
  <2>3. \A t \in Topics : SubSeq(chan[p][t], n[t] + 1, Len(chan[p][t])) \in Seq(S)
    BY <2>2, Divided
  <2>4. chan' \in [Publishers -> [Topics -> Seq(S)]]
    <3>1. [t \in Topics |-> SubSeq(chan[p][t], n[t] + 1, Len(chan[p][t]))] \in [Topics -> Seq(S)]
      BY <2>3
    <3> QED
      BY <1>0, <2>1, <3>1
  <2>5. ASSUME NEW t \in Topics
        PROVE  /\ cache[t] \o SubSeq(chan[p][t], 1, n[t]) \in Seq(C)
               /\ Len(cache[t]) <= Len(cache[t] \o SubSeq(chan[p][t], 1, n[t]))
    <3> DEFINE a == SubSeq(chan[p][t], 1, n[t])
    <3>1. a \in Seq(S) /\ Len(a) = n[t] /\ \A j \in 1 .. n[t] : a[j] = chan[p][t][j]
      BY <2>2, Divided
    <3>2. \A j \in 1 .. n[t] : a[j] \in C
      <4>1. ASSUME NEW j \in 1 .. n[t] PROVE a[j] \in C
        <5>1. j \in DOMAIN chan[p][t] /\ j <= n[t] /\ chan[p][t][j] \in S
          BY <2>2
        <5>2. chan[p][t][j].kind = "data"
          BY <2>1, <5>1 DEF OfSet
        <5> QED
          BY <1>0, <3>1, <5>1, <5>2 DEF C
      <4> QED
        BY <4>1
    <3>3. a \in Seq(C)
      BY <3>1, <3>2
    <3>4. cache[t] \in Seq(C)
      BY <1>0
    <3> HIDE DEF a
    <3>5. cache[t] \o a \in Seq(C) /\ Len(cache[t] \o a) = Len(cache[t]) + Len(a)
      BY <3>3, <3>4, ConcatProperties
    <3>6. Len(a) \in Nat /\ Len(cache[t]) \in Nat
      BY <3>3, <3>4
    <3> QED
      BY <3>5, <3>6 DEF a
  <2>6. cache' \in [Topics -> Seq(C)] /\ \A t \in Topics : Len(cache[t]) <= Len(cache'[t])
    BY <2>1, <2>5
  <2>7. writersOf' \in [Topics -> W]
    BY <1>0, <2>1 DEF W
  <2> QED
    BY <2>4, <2>6, <2>7
<1>n. ASSUME NEW t \in Topics, NEW x \in Instances, NEW key \in BOOLEAN,
             \/ cache' = [cache EXCEPT ![t] = Append(cache[t], NotAlive(x, key))]
             \/ UNCHANGED cache
      PROVE  cache' \in [Topics -> Seq(C)] /\ \A u \in Topics : Len(cache[u]) <= Len(cache'[u])
  <2>1. NotAlive(x, key) \in C
    BY <1>0
  <2>2. /\ Append(cache[t], NotAlive(x, key)) \in Seq(C)
        /\ Len(Append(cache[t], NotAlive(x, key))) = Len(cache[t]) + 1
    BY <1>k, <2>1
  <2>3. \A u \in Topics : Len(cache[u]) \in Nat
    BY <1>0
  <2>4. CASE UNCHANGED cache
    BY <1>0, <2>3, <2>4
  <2>5. CASE cache' = [cache EXCEPT ![t] = Append(cache[t], NotAlive(x, key))]
    BY <1>0, <2>2, <2>3, <2>5
  <2> QED
    BY <1>n, <2>4, <2>5
<1>3. ASSUME NEW t \in Topics, DeliverData(p, t) PROVE Kept
  <2> DEFINE m == Head(chan[p][t])
  <2>1. /\ chan[p][t] # << >> /\ m.kind = "data"
        /\ cache' = [cache EXCEPT ![t] = Append(cache[t], m)]
        /\ writersOf' = [writersOf EXCEPT ![t][m.inst] = writersOf[t][m.inst] \cup {p}]
        /\ chan' = [chan EXCEPT ![p][t] = Tail(chan[p][t])]
    BY <1>3 DEF DeliverData
  <2>2. m \in C /\ m.inst \in Instances /\ Tail(chan[p][t]) \in Seq(S)
    BY <1>0, <1>t, <2>1 DEF C
  <2> HIDE DEF m
  <2>3. cache' \in [Topics -> Seq(C)] /\ \A u \in Topics : Len(cache[u]) <= Len(cache'[u])
    BY <1>0, <1>k, <2>1, <2>2
  <2>4. chan' \in [Publishers -> [Topics -> Seq(S)]]
    BY <1>0, <2>1, <2>2
  <2>5. writersOf' \in [Topics -> W]
    BY <1>0, <2>1, <2>2 DEF W
  <2> QED
    BY <2>3, <2>4, <2>5
<1>4. ASSUME NEW t \in Topics, DeliverFinal(p, t) PROVE Kept
  <2> DEFINE m == Head(chan[p][t])
  <2>1. /\ chan[p][t] # << >>
        /\ \/ \E key \in BOOLEAN : cache' = [cache EXCEPT ![t] = Append(cache[t], NotAlive(m.inst, key))]
           \/ UNCHANGED cache
        /\ writersOf' = [writersOf EXCEPT ![t][m.inst] = writersOf[t][m.inst] \ {p}]
        /\ chan' = [chan EXCEPT ![p][t] = Tail(chan[p][t])]
    BY <1>4 DEF DeliverFinal
  <2>2. m.inst \in Instances /\ Tail(chan[p][t]) \in Seq(S)
    BY <1>0, <1>t, <2>1
  <2> HIDE DEF m
  <2>3. cache' \in [Topics -> Seq(C)] /\ \A u \in Topics : Len(cache[u]) <= Len(cache'[u])
    BY <1>n, <2>1, <2>2
  <2>4. chan' \in [Publishers -> [Topics -> Seq(S)]]
    BY <1>0, <2>1, <2>2
  <2>5. writersOf' \in [Topics -> W]
    BY <1>0, <2>1, <2>2 DEF W
  <2> QED
    BY <2>3, <2>4, <2>5
<1>5. ASSUME NEW t \in Topics, NEW x \in Instances, Orphan(p, t, x) PROVE Kept
  <2>1. /\ \/ cache' = [cache EXCEPT ![t] = Append(cache[t], NotAlive(x, FALSE))]
           \/ UNCHANGED cache
        /\ writersOf' = [writersOf EXCEPT ![t][x] = writersOf[t][x] \ {p}]
        /\ UNCHANGED chan
    BY <1>5 DEF Orphan
  <2>3. cache' \in [Topics -> Seq(C)] /\ \A u \in Topics : Len(cache[u]) <= Len(cache'[u])
    BY <1>n, <2>1
  <2>5. writersOf' \in [Topics -> W]
    BY <1>0, <2>1 DEF W
  <2> QED
    BY <1>0, <2>1, <2>3, <2>5
<1>6. Kept
  BY <1>2, <1>3, <1>4, <1>5 DEF Deliver
<1>7. NetTypes'
  <2>1. UNCHANGED << Topics, Samples, Finals, Notices >> /\ Instances' = Instances
    BY Fixed DEF Instances
  <2> QED
    BY <1>1, <1>6, <2>1 DEF TypeInd, NetTypes, S, C, W
<1>8. SubTypes' /\ KeysKept'
  BY <1>1, <1>6, <1>7, SubKept
<1> QED
  BY <1>1, <1>7, <1>8, PubKept DEF TypeInd

LEMMA Shown ==
    ASSUME TypeInd, NEW t \in Topics, Visible(t) > 0
    PROVE  cache[t] # << >>
<1>1. limit[t] <= Len(cache[t]) /\ limit[t] \in Nat
  BY DEF TypeInd, SubTypes
<1> QED
  BY <1>1 DEF Visible

\* What taking the first sample does.
LEMMA Taking ==
    ASSUME TypeInd, Visible(topic) > 0, TakeHead
    PROVE  /\ cache[topic] # << >>
           /\ Head(cache[topic]) \in Samples \cup Notices
           /\ cache' \in [Topics -> Seq(Samples \cup Notices)]
           /\ limit' \in [Topics -> Nat]
           /\ \A t \in Topics : limit'[t] <= Len(cache'[t])
<1> DEFINE C == Samples \cup Notices
<1>0. topic \in Topics /\ cache \in [Topics -> Seq(C)] /\ limit \in [Topics -> Nat]
  BY DEF TypeInd, NetTypes, SubTypes
<1>1. cache[topic] # << >>
  BY <1>0, Shown
<1> HIDE DEF C
<1>2. /\ Tail(cache[topic]) \in Seq(C) /\ Len(Tail(cache[topic])) = Len(cache[topic]) - 1
      /\ Len(cache[topic]) >= 1 /\ Head(cache[topic]) \in C /\ Len(cache[topic]) \in Nat
  BY <1>0, <1>1, Behead
<1>3. cache' = [cache EXCEPT ![topic] = Tail(cache[topic])]
  BY DEF TakeHead
<1>4. limit' = [limit EXCEPT ![topic] = IF limit[topic] > 0 THEN limit[topic] - 1 ELSE 0]
  BY DEF TakeHead
<1>5. cache' \in [Topics -> Seq(C)]
  BY <1>0, <1>2, <1>3
<1>6. limit' \in [Topics -> Nat]
  BY <1>0, <1>4
<1>7. ASSUME NEW t \in Topics PROVE limit'[t] <= Len(cache'[t])
  <2>1. limit[t] <= Len(cache[t])
    BY DEF TypeInd, SubTypes
  <2>2. CASE t = topic
    BY <1>0, <1>2, <1>3, <1>4, <2>1, <2>2
  <2>3. CASE t # topic
    BY <1>0, <1>3, <1>4, <2>1, <2>3
  <2> QED
    BY <2>2, <2>3
<1> QED
  BY <1>1, <1>2, <1>5, <1>6, <1>7 DEF C

\* The subscriber.
LEMMA SubInd ==
    ASSUME TypeInd, opts' = opts, SubStep \/ SubStop
    PROVE  TypeInd'
<1> DEFINE Own == /\ spc' \in {"loop", "read", "end", "done", "failed"}
                  /\ topic' \in Topics
                  /\ limit' \in [Topics -> Nat]
                  /\ \A t \in Topics : limit'[t] <= Len(cache'[t])
                  /\ colors' \in [Instances -> {"none", "empty", "right"}]
                  /\ taken' \subseteq Publishers \X (1 .. NumIterations) \X (1 .. SetSize)
                  /\ cache' \in [Topics -> Seq(Samples \cup Notices)]
<1>a. NumTopics \in Nat \ {0}
  BY Sizes DEF TypeInd
<1>b. UNCHANGED << port, Topics, NumTopics, NumIterations, SetSize, Samples, Finals, Notices >>
  BY Fixed
<1>c. UNCHANGED << opts, interrupted, pubVars, matched, chan, ended, writersOf >>
  BY DEF SubStep, SubBegin, SubTakeData, SubTakeNotice, SubNextTopic, SubEnd, SubStop, readerVars
<1>d. Own /\ KeysKept'
  <2>1. CASE SubBegin
    <3>1. /\ spc' = "read" /\ topic' = 1 /\ taken' = {} /\ UNCHANGED << readerVars, colors >>
          /\ limit' = [t \in Topics |-> IF gated THEN Len(cache[t]) ELSE 0]
      BY <2>1 DEF SubBegin
    <3>2. \A t \in Topics : Len(cache[t]) \in Nat
      BY DEF TypeInd, NetTypes
    <3> QED
      BY <1>a, <1>b, <3>1, <3>2 DEF TypeInd, NetTypes, SubTypes, KeysKept, readerVars, Topics
  <2>2. CASE SubTakeData
    <3> DEFINE m == Head(cache[topic])
    <3>1. /\ spc = "read" /\ Visible(topic) > 0 /\ m.kind = "data" /\ TakeHead /\ UNCHANGED topic
          /\ \/ colors[m.inst] = "empty" /\ spc' = "failed" /\ UNCHANGED << colors, taken >>
             \/ /\ colors' = [colors EXCEPT ![m.inst] = "right"] /\ UNCHANGED spc
                /\ taken' = taken \cup {<< m.from, m.set, m.place >>}
      BY <2>2 DEF SubTakeData
    <3>2. /\ m \in Samples \cup Notices
          /\ cache' \in [Topics -> Seq(Samples \cup Notices)] /\ limit' \in [Topics -> Nat]
          /\ \A t \in Topics : limit'[t] <= Len(cache'[t])
      BY <3>1, Taking
    <3>3. /\ m.inst \in Instances /\ m.from \in Publishers /\ m.set \in 1 .. NumIterations
          /\ m.place \in 1 .. SetSize
      BY <3>1, <3>2 DEF Samples, Notices
    <3> HIDE DEF m
    <3>4. CASE colors[m.inst] = "empty" /\ spc' = "failed" /\ UNCHANGED << colors, taken >>
      BY <1>b, <3>1, <3>2, <3>3, <3>4 DEF TypeInd, SubTypes, KeysKept
    <3>5. CASE /\ colors' = [colors EXCEPT ![m.inst] = "right"] /\ UNCHANGED spc
               /\ taken' = taken \cup {<< m.from, m.set, m.place >>}
      <4>1. Own
        BY <1>b, <3>1, <3>2, <3>3, <3>5 DEF TypeInd, SubTypes
      <4>2. KeysKept'
        BY <1>b, <3>1, <3>3, <3>5 DEF TypeInd, SubTypes, KeysKept
      <4> QED
        BY <4>1, <4>2
    <3> QED
      BY <3>1, <3>4, <3>5
  <2>3. CASE SubTakeNotice
    <3> DEFINE m == Head(cache[topic])
    <3>1. /\ spc = "read" /\ Visible(topic) > 0 /\ m.kind = "notice" /\ TakeHead
          /\ UNCHANGED << spc, topic, taken >>
          /\ \/ UNCHANGED colors
             \/ port = "cpp" /\ colors' = [colors EXCEPT ![m.inst] = "empty"]
      BY <2>3 DEF SubTakeNotice, InsertsOnMiss
    <3>2. /\ m \in Samples \cup Notices
          /\ cache' \in [Topics -> Seq(Samples \cup Notices)] /\ limit' \in [Topics -> Nat]
          /\ \A t \in Topics : limit'[t] <= Len(cache'[t])
      BY <3>1, Taking
    <3>3. m.inst \in Instances
      BY <3>1, <3>2 DEF Samples, Notices
    <3> HIDE DEF m
    <3>4. Own
      BY <1>b, <3>1, <3>2, <3>3 DEF TypeInd, SubTypes
    <3>5. KeysKept'
      BY <1>b, <3>1, <3>3 DEF TypeInd, SubTypes, KeysKept
    <3> QED
      BY <3>4, <3>5
  <2>4. CASE SubNextTopic
    <3>1. /\ UNCHANGED << readerVars, limit, colors, taken >> /\ spc = "read"
          /\ \/ topic = NumTopics /\ spc' = "end" /\ UNCHANGED topic
             \/ topic # NumTopics /\ topic' = topic + 1 /\ UNCHANGED spc
      BY <2>4 DEF SubNextTopic
    <3>2. topic' \in Topics
      BY <1>a, <3>1 DEF TypeInd, SubTypes, Topics
    <3> QED
      BY <1>b, <3>1, <3>2 DEF TypeInd, NetTypes, SubTypes, KeysKept, readerVars
  <2>5. CASE SubEnd
    <3>1. /\ spc' = "loop" /\ topic' = 1 /\ taken' = {} /\ UNCHANGED << readerVars, colors >>
          /\ limit' = [t \in Topics |-> 0]
      BY <2>5 DEF SubEnd
    <3>2. \A t \in Topics : Len(cache[t]) \in Nat
      BY DEF TypeInd, NetTypes
    <3> QED
      BY <1>a, <1>b, <3>1, <3>2 DEF TypeInd, NetTypes, SubTypes, KeysKept, readerVars, Topics
  <2>6. CASE SubStop
    BY <1>b, <2>6 DEF SubStop, TypeInd, NetTypes, SubTypes, KeysKept, readerVars
  <2> QED
    BY <2>1, <2>2, <2>3, <2>4, <2>5, <2>6 DEF SubStep
<1>e. Instances' = Instances
  BY DEF Instances
<1>1. PubTypes' /\ PubPlaces'
  BY <1>c, PubKept
<1>2. NetTypes'
  BY <1>b, <1>c, <1>d, <1>e DEF TypeInd, NetTypes
<1>3. SubTypes'
  BY <1>b, <1>d, <1>e DEF SubTypes
<1> QED
  BY <1>c, <1>d, <1>1, <1>2, <1>3 DEF TypeInd

LEMMA TypeIndInit == ASSUME Init PROVE TypeInd
<1>a. opts \in Options
  BY DEF Init
<1>1. NumTopics \in Nat \ {0} /\ NumIterations \in Nat \ {0} /\ SetSize \in Nat \ {0}
  BY <1>a, Sizes
<1>2. << >> \in Seq(Samples \cup Finals) /\ << >> \in Seq(Samples \cup Notices) /\ Len(<< >>) = 0
  BY EmptySeq
<1>3. PubTypes /\ PubPlaces
  BY <1>1 DEF Init, PubTypes, PubPlaces
<1>4. NetTypes
  BY <1>2 DEF Init, NetTypes
<1>5. SubTypes /\ KeysKept
  BY <1>1, <1>2 DEF Init, SubTypes, KeysKept, Topics
<1> QED
  BY <1>a, <1>3, <1>4, <1>5 DEF TypeInd

LEMMA TypeIndNext == ASSUME TypeInd, [Next]_vars PROVE TypeInd'
<1>1. opts' = opts
  BY OptionsStay
<1>2. CASE UNCHANGED vars
  <2>1. PubTypes' /\ PubPlaces'
    BY <1>2, PubKept DEF vars
  <2>2. NetTypes' /\ SubTypes' /\ KeysKept'
    BY <1>2, ReaderKept DEF vars, TypeInd, NetTypes
  <2> QED
    BY <1>1, <2>1, <2>2 DEF TypeInd
<1>3. CASE SubStep \/ SubStop
  BY <1>1, <1>3, SubInd
<1>4. CASE SubDepart
  BY <1>1, <1>4, MatchInd
<1>5. ASSUME NEW p \in Publishers, Match(p) \/ Depart(p) \/ PubInterrupt(p) PROVE TypeInd'
  BY <1>1, <1>5, MatchInd
<1>6. ASSUME NEW p \in Publishers, PubActs(p) PROVE TypeInd'
  BY <1>1, <1>6, PubInd
<1>7. ASSUME NEW p \in Publishers, Deliver(p) \/ \E t \in Topics, x \in Instances : Orphan(p, t, x)
      PROVE  TypeInd'
  BY <1>1, <1>7, DeliverInd
<1> QED
  BY <1>2, <1>3, <1>4, <1>5, <1>6, <1>7 DEF Next, PubActs

LEMMA AlwaysTyped == Spec => []TypeInd
<1>1. Init => TypeInd
  BY TypeIndInit
<1>2. TypeInd /\ [Next]_vars => TypeInd'
  BY TypeIndNext
<1> QED
  BY <1>1, <1>2, PTL DEF Spec

\* The variables stay in their ranges, and a subscriber of the three ports whose
\* look-up does not insert never takes the next sample of an instance it only had
\* a notice of for a changed key.
THEOREM NeverFailsFalsely == Spec => []ShapeInv
<1>1. ASSUME TypeInd PROVE ShapeInv
  <2>1. TypeOK
    BY <1>1 DEF TypeInd, PubTypes, NetTypes, SubTypes, TypeOK
  <2>2. NoFalseFailure
    BY <1>1 DEF TypeInd, KeysKept, NoFalseFailure, NoFailure
  <2> QED
    BY <2>1, <2>2 DEF ShapeInv
<1> QED
  BY <1>1, AlwaysTyped, PTL
-----------------------------------------------------------------------------
(***************************************************************************)
(* The last changes of a publisher.                                        *)
(***************************************************************************)
\* The last changes are written after all samples, and what is on its way goes
\* over a match.
ChanFor(p) ==
    \A t \in Topics :
        /\ \A i, j \in 1 .. Len(chan[p][t]) :
            i < j /\ chan[p][t][i].kind = "final" => chan[p][t][j].kind = "final"
        /\ \A j \in 1 .. Len(chan[p][t]) :
            /\ chan[p][t][j].from = p
            /\ ppc[p] \in {"loop", "write"} => chan[p][t][j].kind = "data"
        /\ chan[p][t] # << >> => t \in matched[p]

ChanOrder == \A p \in Publishers : ChanFor(p)

\* The subscriber takes p for a writer of the instance, or will when what is on its
\* way has arrived.
Writes(p, t, x) ==
    \/ p \in writersOf[t][x]
    \/ \E j \in 1 .. Len(chan[p][t]) : chan[p][t][j].kind = "data" /\ chan[p][t][j].inst = x

LastOnItsWay(p, t, x) ==
    \E j \in 1 .. Len(chan[p][t]) : chan[p][t][j].kind = "final" /\ chan[p][t][j].inst = x

\* The last change of this topic and instance has been written.
Reached(p, t, x) == \E k \in 1 .. place[p] - 1 : FinalTopic(k) = t /\ FinalInstance(k) = x

\* An instance the subscriber may take p for a writer of gets, or has got, its last
\* change.
WillEnd(p, t, x) ==
    /\ Writes(p, t, x) => t \in matched[p]
    /\ \/ ~Writes(p, t, x)
       \/ ppc[p] \in {"loop", "write"}
       \/ ppc[p] = "final" /\ ~Reached(p, t, x)
       \/ LastOnItsWay(p, t, x)

FinalFor(p) ==
    /\ ~PubIsOver(p) => \A t \in Topics, x \in Instances : WillEnd(p, t, x)
    /\ ppc[p] = "ack" /\ ~timedOut[p] =>
        \A t \in Topics : t < place[p] => chan[p][t] = << >>
    /\ ppc[p] = "done" /\ ~timedOut[p] =>
        \A t \in Topics : chan[p][t] = << >> /\ \A x \in Instances : ~Writes(p, t, x)

FinalInv == ~SubIsOver => \A p \in Publishers : FinalFor(p)

\* Nothing of this happens to p.
ViewKept(p) ==
    /\ UNCHANGED << ppc[p], iteration[p], place[p], timedOut[p], printed[p], ended[p], matched[p],
                    chan[p] >>
    /\ \A t \in Topics, x \in Instances : p \in writersOf'[t][x] <=> p \in writersOf[t][x]

\* Of p's changes of topic t the first n have arrived; p is known as a writer
\* of what it has sent a sample of, until its last change.
Arrived(p, t, n) ==
    /\ n \in 0 .. Len(chan[p][t])
    /\ Len(chan'[p][t]) = Len(chan[p][t]) - n
    /\ \A j \in 1 .. Len(chan[p][t]) - n : chan'[p][t][j] = chan[p][t][n + j]
    /\ \/ /\ \A j \in 1 .. n : chan[p][t][j].kind = "data"
          /\ \A x \in Instances :
                p \in writersOf'[t][x] <=>
                    \/ p \in writersOf[t][x]
                    \/ \E j \in 1 .. n : chan[p][t][j].inst = x
       \/ /\ n = 1 /\ chan[p][t][1].kind = "final"
          /\ \A x \in Instances :
                p \in writersOf'[t][x] <=> p \in writersOf[t][x] /\ x # chan[p][t][1].inst

LEMMA ViewStays ==
    ASSUME opts' = opts, NEW p \in Publishers, ViewKept(p)
    PROVE  /\ ChanFor(p) => ChanFor(p)'
           /\ FinalFor(p) => FinalFor(p)'
<1>1. UNCHANGED << Topics, NumTopics >> /\ Instances' = Instances
  BY Fixed DEF Instances
<1>2. ChanFor(p) => ChanFor(p)'
  BY <1>1 DEF ViewKept, ChanFor
<1>3. \A t \in Topics, x \in Instances :
        /\ Writes(p, t, x)' <=> Writes(p, t, x)
        /\ LastOnItsWay(p, t, x)' <=> LastOnItsWay(p, t, x)
        /\ Reached(p, t, x)' <=> Reached(p, t, x)
  BY DEF ViewKept, Writes, LastOnItsWay, Reached, FinalTopic, FinalInstance
<1>4. FinalFor(p) => FinalFor(p)'
  BY <1>1, <1>3 DEF ViewKept, FinalFor, WillEnd, PubIsOver
<1> QED
  BY <1>2, <1>4

\* A publisher's own steps are not seen by the others.
LEMMA PubOthers ==
    ASSUME TypeInd, NEW p \in Publishers, PubActs(p), NEW q \in Publishers, q # p
    PROVE  ViewKept(q)
<1>1. UNCHANGED << matched, readerVars >>
  BY PubStepChan
<1>2. chan'[q] = chan[q]
  BY PubStepChan DEF TypeInd, NetTypes
<1>3. UNCHANGED << ppc[q], iteration[q], place[q], timedOut[q], printed[q], ended[q] >>
  <2>1. CASE PubLeaveLoop(p) \/ PubGiveUp(p) \/ PubBegin(p) \/ PubFails(p)
    BY <2>1 DEF PubLeaveLoop, PubGiveUp, PubBegin, PubFails, PubGoes, TypeInd, PubTypes
  <2>2. CASE PubWrite(p)
    BY <2>2 DEF PubWrite, PubGoes, TypeInd, PubTypes
  <2>3. CASE PubFinal(p)
    BY <2>3 DEF PubFinal, PubGoes, TypeInd, PubTypes
  <2>4. CASE PubAck(p)
    BY <2>4 DEF PubAck, PubGoes, TypeInd, PubTypes
  <2> QED
    BY <2>1, <2>2, <2>3, <2>4 DEF PubActs, PubStep
<1> QED
  BY <1>1, <1>2, <1>3 DEF ViewKept, readerVars

\* What delivery does to a publisher's changes.
LEMMA Delivery ==
    ASSUME TypeInd, NEW p \in Publishers, Deliver(p)
    PROVE  /\ \A t \in Topics : \E n \in Nat : Arrived(p, t, n)
           /\ \A q \in Publishers : q # p => ViewKept(q)
           /\ UNCHANGED << opts, interrupted, pubVars, matched, ended, subVars >>
<1> DEFINE S == Samples \cup Finals
<1>0. /\ chan \in [Publishers -> [Topics -> Seq(S)]]
      /\ writersOf \in [Topics -> [Instances -> SUBSET Publishers]]
      /\ \A m \in S : m.inst \in Instances /\ m.kind \in {"data", "final"}
  BY DEF TypeInd, NetTypes, Samples, Finals
<1> HIDE DEF S
<1>1. UNCHANGED << opts, interrupted, pubVars, matched, ended, subVars >>
  BY DEF Deliver, DeliverSet, DeliverData, DeliverFinal
<1>2. ASSUME DeliverSet(p)
      PROVE  /\ \A t \in Topics : \E n \in Nat : Arrived(p, t, n)
             /\ \A q \in Publishers : q # p => ViewKept(q)
  <2>1. PICK i \in 1 .. ended[p], n \in [Topics -> 0 .. SetSize] :
          /\ \A t \in Topics : n[t] <= Len(chan[p][t])
          /\ \A t \in Topics : \A j \in DOMAIN chan[p][t] : OfSet(i, chan[p][t][j]) <=> j <= n[t]
          /\ writersOf' = [t \in Topics |-> [x \in Instances |->
               IF \E j \in 1 .. n[t] : chan[p][t][j].inst = x
               THEN writersOf[t][x] \cup {p} ELSE writersOf[t][x]]]
          /\ chan' = [chan EXCEPT ![p] =
               [t \in Topics |-> SubSeq(chan[p][t], n[t] + 1, Len(chan[p][t]))]]
    BY <1>2 DEF DeliverSet
  <2>2. \A t \in Topics : chan[p][t] \in Seq(S) /\ n[t] \in 0 .. Len(chan[p][t]) /\ n[t] \in Nat
    BY <1>0, <2>1, Sizes DEF TypeInd
  <2>3. ASSUME NEW t \in Topics PROVE Arrived(p, t, n[t])
    <3>1. chan'[p][t] = SubSeq(chan[p][t], n[t] + 1, Len(chan[p][t]))
      BY <1>0, <2>1
    <3>2. /\ Len(chan'[p][t]) = Len(chan[p][t]) - n[t]
          /\ \A j \in 1 .. Len(chan[p][t]) - n[t] : chan'[p][t][j] = chan[p][t][n[t] + j]
      <4> DEFINE s == chan[p][t]
                 k == n[t]
      <4>1. s \in Seq(S) /\ k \in 0 .. Len(s)
        BY <2>2
      <4> HIDE DEF s, k
      <4>2. /\ Len(SubSeq(s, k + 1, Len(s))) = Len(s) - k
            /\ \A j \in 1 .. Len(s) - k : SubSeq(s, k + 1, Len(s))[j] = s[k + j]
        BY <4>1, Divided
      <4> QED
        BY <3>1, <4>2 DEF s, k
    <3>3. \A j \in 1 .. n[t] : chan[p][t][j].kind = "data"
      <4>1. ASSUME NEW j \in 1 .. n[t] PROVE chan[p][t][j].kind = "data"
        <5>1. j \in DOMAIN chan[p][t] /\ j <= n[t]
          BY <2>2
        <5> QED
          BY <2>1, <5>1 DEF OfSet
      <4> QED
        BY <4>1
    <3>4. \A x \in Instances : p \in writersOf'[t][x] <=>
             (p \in writersOf[t][x] \/ \E j \in 1 .. n[t] : chan[p][t][j].inst = x)
      BY <1>0, <2>1
    <3> QED
      BY <2>2, <3>2, <3>3, <3>4 DEF Arrived
  <2>4. ASSUME NEW q \in Publishers, q # p PROVE ViewKept(q)
    <3>1. chan'[q] = chan[q]
      BY <1>0, <2>1, <2>4
    <3>2. \A t \in Topics, x \in Instances : q \in writersOf'[t][x] <=> q \in writersOf[t][x]
      BY <1>0, <2>1, <2>4
    <3> QED
      BY <1>1, <3>1, <3>2 DEF ViewKept, pubVars
  <2> QED
    BY <2>2, <2>3, <2>4
<1>3. ASSUME NEW t \in Topics, chan[p][t] # << >>, chan' = [chan EXCEPT ![p][t] = Tail(chan[p][t])],
             LET m == Head(chan[p][t])
             IN  \/ /\ m.kind = "data"
                    /\ writersOf' = [writersOf EXCEPT ![t][m.inst] = writersOf[t][m.inst] \cup {p}]
                 \/ /\ m.kind = "final"
                    /\ writersOf' = [writersOf EXCEPT ![t][m.inst] = writersOf[t][m.inst] \ {p}]
      PROVE  /\ \A u \in Topics : \E n \in Nat : Arrived(p, u, n)
             /\ \A q \in Publishers : q # p => ViewKept(q)
  <2> DEFINE m == Head(chan[p][t])
  <2>1. /\ Len(Tail(chan[p][t])) = Len(chan[p][t]) - 1 /\ Len(chan[p][t]) \in Nat
        /\ Len(chan[p][t]) >= 1
        /\ \A j \in 1 .. Len(chan[p][t]) - 1 : Tail(chan[p][t])[j] = chan[p][t][j + 1]
        /\ m = chan[p][t][1] /\ m \in S
    <3> DEFINE s == chan[p][t]
    <3>1. s \in Seq(S) /\ s # << >>
      BY <1>0, <1>3
    <3> HIDE DEF s
    <3>2. /\ Len(Tail(s)) = Len(s) - 1 /\ Len(s) \in Nat /\ Len(s) >= 1
          /\ \A j \in 1 .. Len(s) - 1 : Tail(s)[j] = s[j + 1]
          /\ Head(s) = s[1] /\ s[1] \in S
      BY <3>1, Behead
    <3> QED
      BY <3>2 DEF s
  <2>2. m.inst \in Instances
    BY <1>0, <2>1
  <2> HIDE DEF m
  <2>3. /\ chan'[p][t] = Tail(chan[p][t])
        /\ \A u \in Topics : u # t => chan'[p][u] = chan[p][u]
        /\ \A q \in Publishers : q # p => chan'[q] = chan[q]
    BY <1>0, <1>3
  <2>4. /\ \A u \in Topics, x \in Instances : u # t \/ x # m.inst => writersOf'[u][x] = writersOf[u][x]
        /\ \/ m.kind = "data" /\ writersOf'[t][m.inst] = writersOf[t][m.inst] \cup {p}
           \/ m.kind = "final" /\ writersOf'[t][m.inst] = writersOf[t][m.inst] \ {p}
    <3>1. CASE /\ m.kind = "data"
               /\ writersOf' = [writersOf EXCEPT ![t][m.inst] = writersOf[t][m.inst] \cup {p}]
      BY <1>0, <2>2, <3>1
    <3>2. CASE /\ m.kind = "final"
               /\ writersOf' = [writersOf EXCEPT ![t][m.inst] = writersOf[t][m.inst] \ {p}]
      BY <1>0, <2>2, <3>2
    <3> QED
      BY <1>3, <3>1, <3>2 DEF m
  <2>5. ASSUME NEW u \in Topics, u # t PROVE Arrived(p, u, 0)
    <3>1. chan[p][u] \in Seq(S) /\ chan'[p][u] = chan[p][u]
      BY <1>0, <2>3, <2>5
    <3>2. Len(chan[p][u]) \in Nat /\ \A j : j \in 1 .. 0 => FALSE
      BY <3>1
    <3>3. \A j \in 1 .. Len(chan[p][u]) : 0 + j = j
      BY <3>2
    <3> QED
      BY <2>4, <2>5, <3>1, <3>2, <3>3 DEF Arrived
  <2>6. Arrived(p, t, 1)
    <3>1. \A j \in 1 .. Len(chan[p][t]) - 1 : chan'[p][t][j] = chan[p][t][1 + j]
      BY <2>1, <2>3
    <3>2. \A j \in 1 .. 1 : j = 1
      OBVIOUS
    <3>3. 1 \in 0 .. Len(chan[p][t]) /\ 1 \in 1 .. 1
      BY <2>1
    <3>4. CASE m.kind = "data" /\ writersOf'[t][m.inst] = writersOf[t][m.inst] \cup {p}
      <4>1. \A x \in Instances : p \in writersOf'[t][x] <=>
               (p \in writersOf[t][x] \/ \E j \in 1 .. 1 : chan[p][t][j].inst = x)
        BY <2>1, <2>2, <2>4, <3>2, <3>3, <3>4
      <4> QED
        BY <2>1, <2>3, <3>1, <3>2, <3>3, <3>4, <4>1 DEF Arrived
    <3>5. CASE m.kind = "final" /\ writersOf'[t][m.inst] = writersOf[t][m.inst] \ {p}
      <4>1. \A x \in Instances :
               p \in writersOf'[t][x] <=> p \in writersOf[t][x] /\ x # chan[p][t][1].inst
        BY <2>1, <2>2, <2>4, <3>5
      <4> QED
        BY <2>1, <2>3, <3>1, <3>3, <3>5, <4>1 DEF Arrived
    <3> QED
      BY <2>4, <3>4, <3>5
  <2>7. ASSUME NEW q \in Publishers, q # p PROVE ViewKept(q)
    <3>1. \A u \in Topics, x \in Instances : q \in writersOf'[u][x] <=> q \in writersOf[u][x]
      BY <2>4, <2>7
    <3> QED
      BY <1>1, <2>3, <2>7, <3>1 DEF ViewKept, pubVars
  <2> QED
    BY <2>5, <2>6, <2>7
<1>4. ASSUME NEW t \in Topics, DeliverData(p, t) \/ DeliverFinal(p, t)
      PROVE  /\ \A u \in Topics : \E n \in Nat : Arrived(p, u, n)
             /\ \A q \in Publishers : q # p => ViewKept(q)
  <2>1. CASE DeliverData(p, t)
    BY <1>3, <2>1 DEF DeliverData
  <2>2. CASE DeliverFinal(p, t)
    BY <1>3, <2>2 DEF DeliverFinal
  <2> QED
    BY <1>4, <2>1, <2>2
<1> QED
  BY <1>1, <1>2, <1>4 DEF Deliver

\* The order of what is on its way, when something is appended.
LEMMA OrderAppended ==
    ASSUME TypeInd, opts' = opts, NEW p \in Publishers, ChanFor(p),
           NEW t \in matched[p], NEW m \in Samples \cup Finals,
           chan' = [chan EXCEPT ![p][t] = Append(chan[p][t], m)], UNCHANGED matched,
           m.from = p,
           \/ m.kind = "data" /\ ppc[p] = "write"
           \/ m.kind = "final" /\ ppc'[p] \notin {"loop", "write"},
           ppc'[p] \in {"loop", "write"} => ppc[p] \in {"loop", "write"}
    PROVE  ChanFor(p)'
<1> DEFINE S == Samples \cup Finals
<1>0. /\ chan \in [Publishers -> [Topics -> Seq(S)]] /\ matched \in [Publishers -> SUBSET Topics]
      /\ \A s \in S : s.kind \in {"data", "final"}
  BY DEF TypeInd, NetTypes, Samples, Finals
<1>1. Topics' = Topics
  BY Fixed
<1>2. t \in Topics /\ m \in S
  BY <1>0
<1> HIDE DEF S
<1>3. ASSUME NEW u \in Topics, u # t
      PROVE  chan'[p][u] = chan[p][u]
  BY <1>0, <1>2, <1>3
<1>4. /\ chan'[p][t] = Append(chan[p][t], m) /\ chan[p][t] \in Seq(S)
      /\ chan'[p][t] \in Seq(S)
      /\ Len(chan'[p][t]) = Len(chan[p][t]) + 1 /\ Len(chan[p][t]) \in Nat
      /\ \A j \in 1 .. Len(chan[p][t]) : chan'[p][t][j] = chan[p][t][j]
      /\ chan'[p][t][Len(chan[p][t]) + 1] = m
  BY <1>0, <1>2, Appended
<1>5. \A j \in 1 .. Len(chan'[p][t]) : j \in 1 .. Len(chan[p][t]) \/ j = Len(chan[p][t]) + 1
  BY <1>4
<1>6. \A i, j \in 1 .. Len(chan'[p][t]) :
         i < j /\ chan'[p][t][i].kind = "final" => chan'[p][t][j].kind = "final"
  <2> SUFFICES ASSUME NEW i \in 1 .. Len(chan'[p][t]), NEW j \in 1 .. Len(chan'[p][t]),
                      i < j, chan'[p][t][i].kind = "final"
               PROVE  chan'[p][t][j].kind = "final"
    OBVIOUS
  <2>1. i \in 1 .. Len(chan[p][t]) /\ chan[p][t][i].kind = "final"
    BY <1>4, <1>5
  <2>2. CASE j \in 1 .. Len(chan[p][t])
    BY <1>2, <1>4, <2>1, <2>2 DEF ChanFor
  <2>3. CASE j = Len(chan[p][t]) + 1
    BY <1>2, <1>4, <2>1, <2>3 DEF ChanFor
  <2> QED
    BY <1>5, <2>2, <2>3
<1>7. \A j \in 1 .. Len(chan'[p][t]) :
         /\ chan'[p][t][j].from = p
         /\ ppc'[p] \in {"loop", "write"} => chan'[p][t][j].kind = "data"
  BY <1>2, <1>4, <1>5 DEF ChanFor
<1>8. \A u \in Topics : chan'[p][u] # << >> => u \in matched'[p]
  BY <1>3 DEF ChanFor
<1>9. ASSUME NEW u \in Topics, u # t
      PROVE  /\ \A i, j \in 1 .. Len(chan'[p][u]) :
                   i < j /\ chan'[p][u][i].kind = "final" => chan'[p][u][j].kind = "final"
             /\ \A j \in 1 .. Len(chan'[p][u]) :
                   /\ chan'[p][u][j].from = p
                   /\ ppc'[p] \in {"loop", "write"} => chan'[p][u][j].kind = "data"
  BY <1>3, <1>9 DEF ChanFor
<1> QED
  BY <1>1, <1>6, <1>7, <1>8, <1>9 DEF ChanFor

LEMMA OrderPub ==
    ASSUME TypeInd, opts' = opts, NEW p \in Publishers, ChanFor(p), PubActs(p)
    PROVE  ChanFor(p)'
<1>1. UNCHANGED matched /\ Topics' = Topics
  BY PubStepChan, Fixed
<1>2. ppc'[p] \in {"loop", "write"} => ppc[p] \in {"loop", "write"}
  <2>1. CASE PubLeaveLoop(p) \/ PubGiveUp(p) \/ PubBegin(p) \/ PubFails(p)
    BY <2>1 DEF PubLeaveLoop, PubGiveUp, PubBegin, PubFails, PubGoes, TypeInd, PubTypes
  <2>2. CASE PubWrite(p)
    BY <2>2 DEF PubWrite
  <2>3. CASE PubFinal(p)
    BY <2>3 DEF PubFinal, PubGoes, TypeInd, PubTypes
  <2>4. CASE PubAck(p)
    BY <2>4 DEF PubAck, PubGoes, TypeInd, PubTypes
  <2> QED
    BY <2>1, <2>2, <2>3, <2>4 DEF PubActs, PubStep
<1>3. CASE UNCHANGED chan
  BY <1>1, <1>2, <1>3 DEF ChanFor
<1>4. CASE PubWrite(p) /\ chan' # chan
  <2>1. /\ TopicOf(place[p]) \in matched[p] /\ Data(p, iteration[p] + 1, place[p]) \in Samples
        /\ chan' = [chan EXCEPT ![p][TopicOf(place[p])] =
                      Append(chan[p][TopicOf(place[p])], Data(p, iteration[p] + 1, place[p]))]
        /\ ppc[p] = "write"
    BY <1>4, WriteSends
  <2>2. /\ Data(p, iteration[p] + 1, place[p]).from = p
        /\ Data(p, iteration[p] + 1, place[p]).kind = "data"
    BY DEF Data
  <2> QED
    BY <1>1, <1>2, <2>1, <2>2, OrderAppended
<1>5. CASE PubFinal(p) /\ chan' # chan
  <2>1. /\ FinalTopic(place[p]) \in matched[p] /\ Final(p, FinalInstance(place[p])) \in Finals
        /\ chan' = [chan EXCEPT ![p][FinalTopic(place[p])] =
                      Append(chan[p][FinalTopic(place[p])], Final(p, FinalInstance(place[p])))]
        /\ ppc[p] = "final"
    BY <1>5, FinalSends
  <2>2. /\ Final(p, FinalInstance(place[p])).from = p
        /\ Final(p, FinalInstance(place[p])).kind = "final"
    BY DEF Final
  <2>3. ppc'[p] \notin {"loop", "write"}
    BY <1>2, <2>1
  <2> QED
    BY <1>1, <1>2, <2>1, <2>2, <2>3, OrderAppended
<1>6. UNCHANGED chan \/ PubWrite(p) \/ PubFinal(p)
  BY DEF PubActs, PubStep, PubLeaveLoop, PubGiveUp, PubBegin, PubFails, PubAck
<1> QED
  BY <1>3, <1>4, <1>5, <1>6

LEMMA OrderDeliver ==
    ASSUME TypeInd, opts' = opts, NEW p \in Publishers, ChanFor(p), Deliver(p)
    PROVE  ChanFor(p)'
<1>1. /\ \A t \in Topics : \E n \in Nat : Arrived(p, t, n)
      /\ UNCHANGED << ppc, matched >> /\ Topics' = Topics
  BY Delivery, Fixed DEF pubVars
<1>2. ASSUME NEW t \in Topics
      PROVE  /\ \A i, j \in 1 .. Len(chan'[p][t]) :
                   i < j /\ chan'[p][t][i].kind = "final" => chan'[p][t][j].kind = "final"
             /\ \A j \in 1 .. Len(chan'[p][t]) :
                   /\ chan'[p][t][j].from = p
                   /\ ppc[p] \in {"loop", "write"} => chan'[p][t][j].kind = "data"
             /\ chan'[p][t] # << >> => t \in matched[p]
  <2>1. PICK n \in Nat : Arrived(p, t, n)
    BY <1>1
  <2>2. Len(chan[p][t]) \in Nat /\ n \in 0 .. Len(chan[p][t])
    BY <2>1 DEF TypeInd, NetTypes, Arrived
  <2>3. /\ \A j \in 1 .. Len(chan'[p][t]) :
              n + j \in 1 .. Len(chan[p][t]) /\ chan'[p][t][j] = chan[p][t][n + j]
        /\ Len(chan'[p][t]) \in Nat
    BY <2>1, <2>2 DEF Arrived
  <2>4. \A i, j \in 1 .. Len(chan'[p][t]) : i < j => n + i < n + j
    BY <2>2, <2>3
  <2>5. chan[p][t] = << >> => chan'[p][t] = << >>
    <3>1. chan'[p][t] \in Seq(Samples \cup Finals)
      <4>1. TypeInd' /\ UNCHANGED << Topics, Samples, Finals >>
        BY DeliverInd, Fixed
      <4> QED
        BY <4>1 DEF TypeInd, NetTypes
    <3>2. chan[p][t] = << >> => Len(chan[p][t]) = 0 /\ Len(chan'[p][t]) = 0
      BY <2>1, <2>2, <2>3 DEF Arrived
    <3> QED
      BY <3>1, <3>2, EmptySeq
  <2>6. \A i, j \in 1 .. Len(chan'[p][t]) :
           i < j /\ chan'[p][t][i].kind = "final" => chan'[p][t][j].kind = "final"
    <3> SUFFICES ASSUME NEW i \in 1 .. Len(chan'[p][t]), NEW j \in 1 .. Len(chan'[p][t]),
                        i < j, chan'[p][t][i].kind = "final"
                 PROVE  chan'[p][t][j].kind = "final"
      OBVIOUS
    <3>1. /\ n + i \in 1 .. Len(chan[p][t]) /\ n + j \in 1 .. Len(chan[p][t]) /\ n + i < n + j
          /\ chan[p][t][n + i].kind = "final" /\ chan'[p][t][j] = chan[p][t][n + j]
      BY <2>3, <2>4
    <3> QED
      BY <3>1 DEF ChanFor
  <2>7. \A j \in 1 .. Len(chan'[p][t]) :
           /\ chan'[p][t][j].from = p
           /\ ppc[p] \in {"loop", "write"} => chan'[p][t][j].kind = "data"
    <3> SUFFICES ASSUME NEW j \in 1 .. Len(chan'[p][t])
                 PROVE  /\ chan'[p][t][j].from = p
                        /\ ppc[p] \in {"loop", "write"} => chan'[p][t][j].kind = "data"
      OBVIOUS
    <3>1. n + j \in 1 .. Len(chan[p][t]) /\ chan'[p][t][j] = chan[p][t][n + j]
      BY <2>3
    <3> QED
      BY <3>1 DEF ChanFor
  <2> QED
    BY <2>5, <2>6, <2>7 DEF ChanFor
<1> QED
  BY <1>1, <1>2 DEF ChanFor

\* A step of the subscriber is not seen by a publisher.
LEMMA SubView ==
    ASSUME SubStep \/ SubStop
    PROVE  \A p \in Publishers : ViewKept(p)
  BY DEF SubStep, SubBegin, SubTakeData, SubTakeNotice, SubNextTopic, SubEnd, SubStop, TakeHead,
         ViewKept, pubVars, readerVars

LEMMA OrderNext ==
    ASSUME TypeInd, ChanOrder, [Next]_vars
    PROVE  ChanOrder'
<1>o. opts' = opts
  BY OptionsStay
<1>t. Topics' = Topics /\ chan \in [Publishers -> [Topics -> Seq(Samples \cup Finals)]]
  BY <1>o, Fixed DEF TypeInd, NetTypes
<1> SUFFICES ASSUME NEW q \in Publishers PROVE ChanFor(q)'
  BY DEF ChanOrder
<1>q. ChanFor(q)
  BY DEF ChanOrder
<1>v. ViewKept(q) => ChanFor(q)'
  BY <1>o, <1>q, ViewStays
<1>e. (\A t \in Topics : chan'[q][t] = << >>) => ChanFor(q)'
  <2>1. Len(<< >>) = 0
    BY EmptySeq
  <2> QED
    BY <1>t, <2>1 DEF ChanFor
<1>1. CASE UNCHANGED vars
  BY <1>v, <1>1 DEF vars, ViewKept, pubVars, readerVars
<1>2. CASE SubStep \/ SubStop
  BY <1>v, <1>2, SubView
<1>3. CASE SubDepart
  BY <1>e, <1>3 DEF SubDepart
<1>4. ASSUME NEW p \in Publishers, PubInterrupt(p) PROVE ChanFor(q)'
  BY <1>v, <1>4 DEF PubInterrupt, ViewKept, pubVars, readerVars
<1>5. ASSUME NEW p \in Publishers, PubActs(p) PROVE ChanFor(q)'
  BY <1>o, <1>q, <1>v, <1>5, OrderPub, PubOthers
<1>6. ASSUME NEW p \in Publishers, Match(p) PROVE ChanFor(q)'
  <2>1. UNCHANGED << ppc, chan >>
    BY <1>6 DEF Match, pubVars
  <2>2. \A t \in Topics : t \in matched[q] => t \in matched'[q]
    BY <1>6 DEF Match, TypeInd, NetTypes
  <2> QED
    BY <1>q, <1>t, <2>1, <2>2 DEF ChanFor
<1>7. ASSUME NEW p \in Publishers, Deliver(p) PROVE ChanFor(q)'
  BY <1>o, <1>q, <1>v, <1>7, OrderDeliver, Delivery
<1>8. ASSUME NEW p \in Publishers, Depart(p) PROVE ChanFor(q)'
  <2>1. CASE p = q
    BY <1>e, <1>t, <1>8, <2>1 DEF Depart
  <2>2. CASE p # q
    BY <1>v, <1>8, <2>2 DEF Depart, ViewKept, pubVars, readerVars, TypeInd, NetTypes
  <2> QED
    BY <2>1, <2>2
<1>9. ASSUME NEW p \in Publishers, NEW t \in Topics, NEW x \in Instances, Orphan(p, t, x)
      PROVE  ChanFor(q)'
  BY <1>q, <1>t, <1>9 DEF Orphan, pubVars, ChanFor
<1> QED
  BY <1>1, <1>2, <1>3, <1>4, <1>5, <1>6, <1>7, <1>8, <1>9 DEF Next, PubActs
-----------------------------------------------------------------------------
\* What a publisher's own step does to its last changes.
LEMMA FinalPub ==
    ASSUME TypeInd, opts' = opts, NEW p \in Publishers, ChanFor(p), FinalFor(p), PubActs(p)
    PROVE  FinalFor(p)'
<1>0. /\ chan \in [Publishers -> [Topics -> Seq(Samples \cup Finals)]]
      /\ ppc \in [Publishers -> {"loop", "write", "final", "ack", "done", "failed", "unmatched"}]
      /\ place \in [Publishers -> 1 .. SetSize] /\ timedOut \in [Publishers -> BOOLEAN]
      /\ SetSize \in Nat /\ NumFinals \in Nat /\ NumTopics \in Nat \ {0}
  BY Sizes DEF TypeInd, PubTypes, NetTypes
<1>f. /\ UNCHANGED << Topics, NumTopics >> /\ Instances' = Instances
      /\ \A k : UNCHANGED << FinalTopic(k), FinalInstance(k) >>
  BY Fixed DEF Instances, FinalTopic, FinalInstance
<1>m. UNCHANGED << matched, writersOf >>
  BY PubStepChan DEF readerVars
<1>1. CASE PubLeaveLoop(p)
  <2>1. ppc[p] = "loop" /\ ppc'[p] = "final" /\ place'[p] = 1 /\ UNCHANGED << chan, writersOf, matched >>
    BY <1>0, <1>1 DEF PubLeaveLoop, PubGoes, TypeInd, PubPlaces, readerVars
  <2>2. ASSUME NEW t \in Topics, NEW x \in Instances PROVE WillEnd(p, t, x)'
    <3>1. Writes(p, t, x)' <=> Writes(p, t, x)
      BY <2>1 DEF Writes
    <3>2. ~Reached(p, t, x)'
      BY <2>1 DEF Reached
    <3>3. WillEnd(p, t, x)
      BY <2>1, <2>2 DEF FinalFor, PubIsOver
    <3> QED
      BY <2>1, <3>1, <3>2, <3>3 DEF WillEnd
  <2> QED
    BY <1>f, <2>1, <2>2 DEF FinalFor
<1>2. CASE PubGiveUp(p) \/ PubFails(p)
  <2>1. ppc'[p] \in {"unmatched", "failed"}
    BY <1>0, <1>2 DEF PubGiveUp, PubFails, PubGoes
  <2> QED
    BY <2>1 DEF FinalFor, PubIsOver
<1>3. CASE PubBegin(p)
  <2>1. ppc[p] = "loop" /\ ppc'[p] = "write" /\ UNCHANGED << chan, writersOf, matched >>
    BY <1>0, <1>3 DEF PubBegin, PubGoes, readerVars
  <2>2. ASSUME NEW t \in Topics, NEW x \in Instances PROVE WillEnd(p, t, x)'
    <3>1. Writes(p, t, x)' <=> Writes(p, t, x)
      BY <2>1 DEF Writes
    <3>3. WillEnd(p, t, x)
      BY <2>1, <2>2 DEF FinalFor, PubIsOver
    <3> QED
      BY <2>1, <3>1, <3>3 DEF WillEnd
  <2> QED
    BY <1>f, <2>1, <2>2 DEF FinalFor
<1>4. CASE PubWrite(p)
  <2> DEFINE u == TopicOf(place[p])
             m == Data(p, iteration[p] + 1, place[p])
  <2>1. /\ ppc[p] = "write" /\ ppc'[p] \in {"loop", "write"} /\ u \in Topics /\ m \in Samples
        /\ u \notin matched[p] => UNCHANGED chan
        /\ u \in matched[p] => chan' = [chan EXCEPT ![p][u] = Append(chan[p][u], m)]
    BY <1>4, WriteSends
  <2> HIDE DEF u, m
  <2>2. ASSUME NEW t \in Topics, NEW x \in Instances, Writes(p, t, x)'
        PROVE  t \in matched[p]
    <3>1. WillEnd(p, t, x)
      BY <2>1, <2>2 DEF FinalFor, PubIsOver
    <3>2. CASE chan'[p][t] = chan[p][t]
      BY <1>m, <2>2, <3>1, <3>2 DEF Writes, WillEnd
    <3>3. CASE chan'[p][t] # chan[p][t]
      BY <1>0, <2>1, <3>3
    <3> QED
      BY <3>2, <3>3
  <2>3. \A t \in Topics, x \in Instances : WillEnd(p, t, x)'
    BY <1>m, <2>1, <2>2 DEF WillEnd
  <2> QED
    BY <1>f, <2>1, <2>3 DEF FinalFor
<1>5. CASE PubFinal(p)
  <2> DEFINE k == place[p]
             u == FinalTopic(k)
             y == FinalInstance(k)
             m == Final(p, y)
  <2>1. /\ ppc[p] = "final" /\ k \in 1 .. NumFinals /\ u \in Topics /\ m \in Finals
        /\ u \notin matched[p] => UNCHANGED chan
        /\ u \in matched[p] => chan' = [chan EXCEPT ![p][u] = Append(chan[p][u], m)]
    BY <1>5, FinalSends
  <2>2. m.kind = "final" /\ m.inst = y
    BY DEF Final
  <2>3. \/ k = NumFinals /\ ppc'[p] = "ack" /\ place'[p] = 1
        \/ k # NumFinals /\ ppc'[p] = "final" /\ place'[p] = k + 1
    BY <1>0, <1>5, <2>1 DEF PubFinal, PubGoes
  <2>4. u = FinalTopic(k) /\ y = FinalInstance(k)
    OBVIOUS
  <2>5. y \in Instances
    BY <2>1, FinalPlaces DEF TypeInd
  <2> HIDE DEF k, u, y, m
  <2>6. u \in matched[p] =>
          /\ chan[p][u] \in Seq(Samples \cup Finals) /\ Len(chan[p][u]) \in Nat
          /\ chan'[p][u] = Append(chan[p][u], m)
          /\ Len(chan'[p][u]) = Len(chan[p][u]) + 1
          /\ \A j \in 1 .. Len(chan[p][u]) : chan'[p][u][j] = chan[p][u][j]
          /\ chan'[p][u][Len(chan[p][u]) + 1] = m
    <3>1. chan[p][u] \in Seq(Samples \cup Finals)
      BY <1>0, <2>1
    <3>2. m \in Samples \cup Finals
      BY <2>1
    <3> HIDE DEF Samples, Finals
    <3>3. u \in matched[p] => chan'[p][u] = Append(chan[p][u], m)
      BY <1>0, <2>1
    <3>4. Len(chan[p][u]) \in Nat
      BY <3>1
    <3> QED
      BY <3>1, <3>2, <3>3, <3>4, Appended
  <2>7. \A t \in Topics : t # u \/ u \notin matched[p] => chan'[p][t] = chan[p][t]
    BY <1>0, <2>1
  <2>8. ASSUME NEW t \in Topics, NEW x \in Instances
        PROVE  /\ Writes(p, t, x)' <=> Writes(p, t, x)
               /\ LastOnItsWay(p, t, x) => LastOnItsWay(p, t, x)'
               /\ t = u /\ x = y /\ u \in matched[p] => LastOnItsWay(p, t, x)'
    <3>1. CASE t # u \/ u \notin matched[p]
      <4>1. chan'[p][t] = chan[p][t]
        BY <2>7, <3>1
      <4> QED
        BY <1>m, <3>1, <4>1 DEF Writes, LastOnItsWay
    <3>2. CASE t = u /\ u \in matched[p]
      <4>1. \A j \in 1 .. Len(chan'[p][u]) :
              (j \in 1 .. Len(chan[p][u]) /\ chan'[p][u][j] = chan[p][u][j]) \/ chan'[p][u][j] = m
        <5> SUFFICES ASSUME NEW j \in 1 .. Len(chan'[p][u])
                     PROVE  \/ j \in 1 .. Len(chan[p][u]) /\ chan'[p][u][j] = chan[p][u][j]
                            \/ chan'[p][u][j] = m
          OBVIOUS
        <5>1. j \in 1 .. Len(chan[p][u]) \/ j = Len(chan[p][u]) + 1
          BY <2>6, <3>2
        <5> QED
          BY <2>6, <3>2, <5>1
      <4>2. /\ \A j \in 1 .. Len(chan[p][u]) : j \in 1 .. Len(chan'[p][u])
            /\ Len(chan[p][u]) + 1 \in 1 .. Len(chan'[p][u])
        BY <2>6, <3>2
      <4>3. Writes(p, t, x)' <=> Writes(p, t, x)
        BY <1>m, <2>2, <2>6, <3>2, <4>1, <4>2 DEF Writes
      <4>4. LastOnItsWay(p, t, x) => LastOnItsWay(p, t, x)'
        BY <2>6, <3>2, <4>2 DEF LastOnItsWay
      <4>5. x = y => LastOnItsWay(p, t, x)'
        BY <2>2, <2>6, <3>2, <4>2 DEF LastOnItsWay
      <4> QED
        BY <4>3, <4>4, <4>5
    <3> QED
      BY <3>1, <3>2
  <2>9. ASSUME NEW t \in Topics, NEW x \in Instances PROVE WillEnd(p, t, x)'
    <3>1. WillEnd(p, t, x)
      BY <2>1, <2>9 DEF FinalFor, PubIsOver
    <3>2. Writes(p, t, x)' => t \in matched'[p]
      BY <1>m, <2>8, <3>1 DEF WillEnd
    <3>3. CASE ~Writes(p, t, x) \/ LastOnItsWay(p, t, x)
      BY <2>8, <3>2, <3>3 DEF WillEnd
    <3>4. CASE Writes(p, t, x) /\ ~Reached(p, t, x)
      <4>1. t \in matched[p]
        BY <3>1, <3>4 DEF WillEnd
      <4>2. CASE t = u /\ x = y
        BY <2>8, <3>2, <4>1, <4>2 DEF WillEnd
      <4>3. CASE ~(t = u /\ x = y)
        <5>1. ASSUME NEW j \in 1 .. k PROVE ~(FinalTopic(j) = t /\ FinalInstance(j) = x)
          <6>1. j = k \/ j \in 1 .. place[p] - 1
            BY <2>1 DEF k
          <6> QED
            BY <2>4, <3>4, <4>3, <6>1 DEF Reached
        <5>2. k # NumFinals
          BY <5>1, FinalPlaces DEF TypeInd
        <5>3. ppc'[p] = "final" /\ place'[p] - 1 = k
          BY <2>1, <2>3, <5>2
        <5>4. ~Reached(p, t, x)'
          BY <1>f, <5>1, <5>3 DEF Reached
        <5> QED
          BY <3>2, <5>3, <5>4 DEF WillEnd
      <4> QED
        BY <4>2, <4>3
    <3> QED
      BY <2>1, <3>1, <3>3, <3>4 DEF WillEnd
  <2>10. ppc'[p] = "ack" => place'[p] = 1 /\ \A t \in Topics : ~(t < 1)
    BY <1>0, <2>3 DEF Topics
  <2> QED
    BY <1>f, <2>3, <2>9, <2>10 DEF FinalFor
<1>6. CASE PubAck(p)
  <2> DEFINE k == place[p]
  <2>1. /\ ppc[p] = "ack" /\ UNCHANGED chan
        /\ timedOut'[p] = TRUE \/ (timedOut'[p] = timedOut[p] /\ chan[p][k] = << >>)
    BY <1>0, <1>6 DEF PubAck
  <2>2. \/ k = NumTopics /\ ppc'[p] = "done"
        \/ k # NumTopics /\ ppc'[p] = "ack" /\ place'[p] = k + 1
    BY <1>0, <1>6, <2>1 DEF PubAck, PubGoes, LastToAcknowledge
  <2>3. k \in Nat /\ k <= NumTopics
    BY <1>0, <2>1 DEF TypeInd, PubPlaces
  <2>4. ~timedOut'[p] => \A t \in Topics : t < k + 1 => chan[p][t] = << >>
    <3> SUFFICES ASSUME ~timedOut'[p], NEW t \in Topics, t < k + 1 PROVE chan[p][t] = << >>
      OBVIOUS
    <3>1. ~timedOut[p] /\ chan[p][k] = << >>
      BY <2>1
    <3>2. t = k \/ t < k
      BY <1>0, <2>3 DEF Topics
    <3>3. t < place[p] => chan[p][t] = << >>
      BY <2>1, <3>1 DEF FinalFor
    <3> QED
      BY <3>1, <3>2, <3>3
  <2> HIDE DEF k
  <2>5. \A t \in Topics, x \in Instances : WillEnd(p, t, x) /\ (Writes(p, t, x)' <=> Writes(p, t, x))
                                           /\ (LastOnItsWay(p, t, x)' <=> LastOnItsWay(p, t, x))
    BY <1>m, <2>1 DEF FinalFor, PubIsOver, Writes, LastOnItsWay
  <2>6. \A t \in Topics, x \in Instances : ~Writes(p, t, x) \/ LastOnItsWay(p, t, x)
    BY <2>1, <2>5 DEF WillEnd
  <2>7. ~PubIsOver(p)' => \A t \in Topics, x \in Instances : WillEnd(p, t, x)'
    BY <1>m, <2>5, <2>6 DEF WillEnd
  <2>8. ppc'[p] = "ack" /\ ~timedOut'[p] => \A t \in Topics : t < place'[p] => chan'[p][t] = << >>
    BY <2>1, <2>2, <2>4
  <2>9. ppc'[p] = "done" /\ ~timedOut'[p] =>
          \A t \in Topics : chan'[p][t] = << >> /\ \A x \in Instances : ~Writes(p, t, x)'
    <3> SUFFICES ASSUME ppc'[p] = "done", ~timedOut'[p], NEW t \in Topics
                 PROVE  chan'[p][t] = << >> /\ \A x \in Instances : ~Writes(p, t, x)'
      OBVIOUS
    <3>1. t < k + 1
      BY <1>0, <2>2, <2>3 DEF Topics
    <3>2. chan[p][t] = << >>
      BY <2>4, <3>1
    <3>3. \A x \in Instances : ~LastOnItsWay(p, t, x)
      BY <3>2, EmptySeq DEF LastOnItsWay
    <3> QED
      BY <2>1, <2>5, <2>6, <3>2, <3>3
  <2> QED
    BY <1>f, <2>7, <2>8, <2>9 DEF FinalFor
<1> QED
  BY <1>1, <1>2, <1>3, <1>4, <1>5, <1>6 DEF PubActs, PubStep

\* What delivery does to a publisher's last changes.
LEMMA FinalDeliver ==
    ASSUME TypeInd, opts' = opts, NEW p \in Publishers, ChanFor(p), FinalFor(p), Deliver(p)
    PROVE  FinalFor(p)'
<1>1. /\ \A t \in Topics : \E n \in Nat : Arrived(p, t, n)
      /\ UNCHANGED << ppc, place, timedOut, matched >>
      /\ Topics' = Topics /\ Instances' = Instances
      /\ \A k : UNCHANGED << FinalTopic(k), FinalInstance(k) >>
  BY Delivery, Fixed DEF pubVars, Instances, FinalTopic, FinalInstance
<1>2. ASSUME NEW t \in Topics
      PROVE  /\ chan[p][t] = << >> => chan'[p][t] = << >>
             /\ \A x \in Instances :
                  /\ Writes(p, t, x)' => Writes(p, t, x)
                  /\ Writes(p, t, x)' /\ LastOnItsWay(p, t, x) => LastOnItsWay(p, t, x)'
  <2>1. PICK n \in Nat : Arrived(p, t, n)
    BY <1>1
  <2>2. Len(chan[p][t]) \in Nat /\ n \in 0 .. Len(chan[p][t]) /\ chan[p][t] \in Seq(Samples \cup Finals)
    BY <2>1 DEF TypeInd, NetTypes, Arrived
  <2>3. /\ \A j \in 1 .. Len(chan'[p][t]) :
              n + j \in 1 .. Len(chan[p][t]) /\ chan'[p][t][j] = chan[p][t][n + j]
        /\ \A j \in 1 .. Len(chan[p][t]) :
              j \in 1 .. n \/ (j - n \in 1 .. Len(chan'[p][t]) /\ chan'[p][t][j - n] = chan[p][t][j])
        /\ \A j \in 1 .. n : j \in 1 .. Len(chan[p][t])
        /\ Len(chan'[p][t]) \in Nat
    <3>1. /\ Len(chan'[p][t]) = Len(chan[p][t]) - n
          /\ \A j \in 1 .. Len(chan[p][t]) - n : chan'[p][t][j] = chan[p][t][n + j]
      BY <2>1 DEF Arrived
    <3> DEFINE l == Len(chan[p][t])
               m == Len(chan'[p][t])
    <3>2. l \in Nat /\ n \in 0 .. l /\ m = l - n
      BY <2>2, <3>1
    <3> HIDE DEF l, m
    <3>3. /\ \A j \in 1 .. m : n + j \in 1 .. l
          /\ \A j \in 1 .. l : j \in 1 .. n \/ j - n \in 1 .. m
          /\ \A j \in 1 .. n : j \in 1 .. l
          /\ m \in Nat
      BY <2>1, <3>2
    <3>4. \A j \in 1 .. m : chan'[p][t][j] = chan[p][t][n + j]
      BY <3>1 DEF m
    <3>5. \A j \in 1 .. l : j - n \in 1 .. m => chan'[p][t][j - n] = chan[p][t][j]
      <4> TAKE j \in 1 .. l
      <4> HAVE j - n \in 1 .. m
      <4>1. n + (j - n) = j
        BY <2>1, <3>2
      <4> QED
        BY <3>4, <4>1
    <3> QED
      BY <3>3, <3>4, <3>5 DEF l, m
  <2>4. \A j \in 1 .. Len(chan[p][t]) : ~(chan[p][t][j].kind = "data" /\ chan[p][t][j].kind = "final")
    OBVIOUS
  <2>5. chan[p][t] = << >> => chan'[p][t] = << >>
    <3>1. chan'[p][t] \in Seq(Samples \cup Finals)
      <4>1. TypeInd' /\ UNCHANGED << Topics, Samples, Finals >>
        BY DeliverInd, Fixed
      <4> QED
        BY <4>1 DEF TypeInd, NetTypes
    <3>2. chan[p][t] = << >> => Len(chan[p][t]) = 0 /\ Len(chan'[p][t]) = 0
      BY <2>1, <2>2, <2>3 DEF Arrived
    <3> QED
      BY <3>1, <3>2, EmptySeq
  <2>6. ASSUME NEW x \in Instances
        PROVE  /\ Writes(p, t, x)' => Writes(p, t, x)
               /\ Writes(p, t, x)' /\ LastOnItsWay(p, t, x) => LastOnItsWay(p, t, x)'
    <3>1. CASE /\ \A j \in 1 .. n : chan[p][t][j].kind = "data"
               /\ \A z \in Instances : p \in writersOf'[t][z] <=>
                     \/ p \in writersOf[t][z]
                     \/ \E j \in 1 .. n : chan[p][t][j].inst = z
      <4>1. ASSUME Writes(p, t, x)' PROVE Writes(p, t, x)
        <5>1. CASE p \in writersOf'[t][x]
          BY <2>3, <3>1, <5>1 DEF Writes
        <5>2. ASSUME NEW j \in 1 .. Len(chan'[p][t]),
                     chan'[p][t][j].kind = "data", chan'[p][t][j].inst = x
              PROVE  Writes(p, t, x)
          <6>1. n + j \in 1 .. Len(chan[p][t]) /\ chan'[p][t][j] = chan[p][t][n + j]
            BY <2>3
          <6> QED
            BY <5>2, <6>1 DEF Writes
        <5> QED
          BY <4>1, <5>1, <5>2 DEF Writes
      <4>2. ASSUME LastOnItsWay(p, t, x) PROVE LastOnItsWay(p, t, x)'
        <5>1. PICK j \in 1 .. Len(chan[p][t]) : chan[p][t][j].kind = "final" /\ chan[p][t][j].inst = x
          BY <4>2 DEF LastOnItsWay
        <5>2. j \notin 1 .. n
          BY <3>1, <5>1
        <5>3. j - n \in 1 .. Len(chan'[p][t]) /\ chan'[p][t][j - n] = chan[p][t][j]
          BY <2>3, <5>2
        <5> QED
          BY <5>1, <5>3 DEF LastOnItsWay
      <4> QED
        BY <4>1, <4>2
    <3>2. CASE /\ n = 1 /\ chan[p][t][1].kind = "final"
               /\ \A z \in Instances :
                     p \in writersOf'[t][z] <=> p \in writersOf[t][z] /\ z # chan[p][t][1].inst
      <4>1. \A j \in 1 .. Len(chan[p][t]) : chan[p][t][j].kind = "final"
        <5>1. 1 \in 1 .. Len(chan[p][t]) /\ \A j \in 1 .. Len(chan[p][t]) : j = 1 \/ 1 < j
          BY <2>2, <3>2
        <5> QED
          BY <3>2, <5>1 DEF ChanFor
      <4>2. \A j \in 1 .. Len(chan'[p][t]) : chan'[p][t][j].kind # "data"
        BY <2>3, <4>1
      <4>3. Writes(p, t, x)' => p \in writersOf[t][x] /\ x # chan[p][t][1].inst
        BY <3>2, <4>2 DEF Writes
      <4>4. ASSUME LastOnItsWay(p, t, x), x # chan[p][t][1].inst PROVE LastOnItsWay(p, t, x)'
        <5>1. PICK j \in 1 .. Len(chan[p][t]) : chan[p][t][j].kind = "final" /\ chan[p][t][j].inst = x
          BY <4>4 DEF LastOnItsWay
        <5>2. j \notin 1 .. n
          BY <3>2, <4>4, <5>1
        <5>3. j - n \in 1 .. Len(chan'[p][t]) /\ chan'[p][t][j - n] = chan[p][t][j]
          BY <2>3, <5>2
        <5> QED
          BY <5>1, <5>3 DEF LastOnItsWay
      <4> QED
        BY <4>3, <4>4 DEF Writes
    <3> QED
      BY <2>1, <3>1, <3>2 DEF Arrived
  <2> QED
    BY <2>5, <2>6
<1>3. ASSUME ~PubIsOver(p), NEW t \in Topics, NEW x \in Instances
      PROVE  WillEnd(p, t, x)'
  <2>1. WillEnd(p, t, x)
    BY <1>3 DEF FinalFor
  <2>2. Reached(p, t, x)' <=> Reached(p, t, x)
    BY <1>1 DEF Reached
  <2> QED
    BY <1>1, <1>2, <2>1, <2>2 DEF WillEnd
<1>4. PubIsOver(p)' <=> PubIsOver(p)
  BY <1>1 DEF PubIsOver
<1> QED
  BY <1>1, <1>2, <1>3, <1>4 DEF FinalFor

LEMMA FinalNext ==
    ASSUME TypeInd, ChanOrder, FinalInv, [Next]_vars
    PROVE  FinalInv'
<1>o. opts' = opts
  BY OptionsStay
<1>t. /\ Topics' = Topics /\ Instances' = Instances /\ matched \in [Publishers -> SUBSET Topics]
      /\ chan \in [Publishers -> [Topics -> Seq(Samples \cup Finals)]]
      /\ writersOf \in [Topics -> [Instances -> SUBSET Publishers]]
      /\ \A k : UNCHANGED << FinalTopic(k), FinalInstance(k) >>
  BY <1>o, Fixed DEF Instances, TypeInd, NetTypes, FinalTopic, FinalInstance
<1>s. ~SubIsOver' => ~SubIsOver
  <2>1. SubIsOver => ~SubStep /\ ~SubStop
    BY DEF SubIsOver, SubStep, SubBegin, SubTakeData, SubTakeNotice, SubNextTopic, SubEnd, SubStop
  <2>2. SubStep \/ SubStop \/ UNCHANGED spc
    <3>1. ASSUME NEW p \in Publishers, PubActs(p) PROVE UNCHANGED spc
      BY <3>1, PubStepChan DEF subVars
    <3>2. ASSUME NEW p \in Publishers, Deliver(p) PROVE UNCHANGED spc
      BY <3>2, Delivery DEF subVars
    <3>3. ASSUME NEW p \in Publishers, PubInterrupt(p) \/ Match(p) \/ Depart(p) PROVE UNCHANGED spc
      BY <3>3 DEF PubInterrupt, Match, Depart, subVars
    <3>4. ASSUME NEW p \in Publishers, NEW t \in Topics, NEW x \in Instances, Orphan(p, t, x)
          PROVE  UNCHANGED spc
      BY <3>4 DEF Orphan, subVars
    <3>5. SubDepart => UNCHANGED spc
      BY DEF SubDepart, subVars
    <3>6. UNCHANGED vars => UNCHANGED spc
      BY DEF vars, subVars
    <3> QED
      BY <3>1, <3>2, <3>3, <3>4, <3>5, <3>6 DEF Next, PubActs
  <2> QED
    BY <2>1, <2>2 DEF SubIsOver
<1> SUFFICES ASSUME ~SubIsOver', NEW q \in Publishers PROVE FinalFor(q)'
  BY DEF FinalInv
<1>q. FinalFor(q) /\ ChanFor(q)
  BY <1>s DEF FinalInv, ChanOrder
<1>v. ViewKept(q) => FinalFor(q)'
  BY <1>o, <1>q, ViewStays
<1>1. CASE UNCHANGED vars
  BY <1>v, <1>1 DEF vars, ViewKept, pubVars, readerVars
<1>2. CASE SubStep \/ SubStop
  BY <1>v, <1>2, SubView
<1>3. CASE SubDepart
  BY <1>3 DEF SubDepart, SubIsOver, subVars
<1>4. ASSUME NEW p \in Publishers, PubInterrupt(p) PROVE FinalFor(q)'
  BY <1>v, <1>4 DEF PubInterrupt, ViewKept, pubVars, readerVars
<1>5. ASSUME NEW p \in Publishers, PubActs(p) PROVE FinalFor(q)'
  BY <1>o, <1>q, <1>v, <1>5, FinalPub, PubOthers
<1>6. ASSUME NEW p \in Publishers, Match(p) PROVE FinalFor(q)'
  <2>1. UNCHANGED << ppc, place, timedOut, chan, writersOf >>
    BY <1>6 DEF Match, pubVars, readerVars
  <2>2. \A t \in Topics : t \in matched[q] => t \in matched'[q]
    BY <1>6 DEF Match, TypeInd, NetTypes
  <2>3. \A t \in Topics, x \in Instances :
          /\ Writes(q, t, x)' <=> Writes(q, t, x)
          /\ LastOnItsWay(q, t, x)' <=> LastOnItsWay(q, t, x)
          /\ Reached(q, t, x)' <=> Reached(q, t, x)
    BY <1>t, <2>1 DEF Writes, LastOnItsWay, Reached
  <2> QED
    BY <1>q, <1>t, <2>1, <2>2, <2>3 DEF FinalFor, WillEnd, PubIsOver
<1>7. ASSUME NEW p \in Publishers, Deliver(p) PROVE FinalFor(q)'
  BY <1>o, <1>q, <1>v, <1>7, FinalDeliver, Delivery
<1>8. ASSUME NEW p \in Publishers, Depart(p) PROVE FinalFor(q)'
  <2>1. CASE p = q
    <3>1. /\ PubIsOver(q) /\ UNCHANGED << ppc, timedOut, writersOf >>
          /\ \A t \in Topics : chan'[q][t] = << >>
      BY <1>t, <1>8, <2>1 DEF Depart, pubVars, readerVars
    <3>2. \A t \in Topics, x \in Instances : Writes(q, t, x)' => Writes(q, t, x)
      BY <3>1, EmptySeq DEF Writes
    <3> QED
      BY <1>q, <1>t, <3>1, <3>2 DEF FinalFor, PubIsOver
  <2>2. CASE p # q
    BY <1>v, <1>8, <2>2 DEF Depart, ViewKept, pubVars, readerVars, TypeInd, NetTypes
  <2> QED
    BY <2>1, <2>2
<1>9. ASSUME NEW p \in Publishers, NEW t \in Topics, NEW x \in Instances, Orphan(p, t, x)
      PROVE  FinalFor(q)'
  <2>1. /\ UNCHANGED << pubVars, matched, chan, ended >> /\ PubIsOver(p) /\ p \in writersOf[t][x]
        /\ writersOf' = [writersOf EXCEPT ![t][x] = writersOf[t][x] \ {p}]
    BY <1>9 DEF Orphan
  <2>2. CASE p = q
    <3>1. Writes(q, t, x) /\ UNCHANGED << ppc, timedOut >>
      BY <2>1, <2>2 DEF Writes, pubVars
    <3> QED
      BY <1>q, <2>1, <2>2, <3>1 DEF FinalFor, PubIsOver
  <2>3. CASE p # q
    BY <1>t, <1>v, <2>1, <2>3 DEF ViewKept, pubVars
  <2> QED
    BY <2>2, <2>3
<1> QED
  BY <1>1, <1>2, <1>3, <1>4, <1>5, <1>6, <1>7, <1>8, <1>9 DEF Next, PubActs

LEMMA AlwaysOrdered == Spec => [](ChanOrder /\ FinalInv)
<1>1. Init => ChanOrder /\ FinalInv
  <2> SUFFICES ASSUME Init PROVE ChanOrder /\ FinalInv
    OBVIOUS
  <2>1. \A p \in Publishers, t \in Topics : chan[p][t] = << >> /\ \A x \in Instances : writersOf[t][x] = {}
    BY DEF Init
  <2>2. \A p \in Publishers, t \in Topics : Len(chan[p][t]) = 0
    BY <2>1, EmptySeq
  <2>3. \A p \in Publishers, t \in Topics, x \in Instances : ~Writes(p, t, x)
    BY <2>1, <2>2 DEF Writes
  <2>4. \A p \in Publishers : ppc[p] # "ack"
    BY DEF Init
  <2>5. ChanOrder
    BY <2>1, <2>2 DEF ChanOrder, ChanFor
  <2>6. FinalInv
    BY <2>1, <2>3, <2>4 DEF FinalInv, FinalFor, WillEnd
  <2> QED
    BY <2>5, <2>6
<1>2. TypeInd /\ ChanOrder /\ FinalInv /\ [Next]_vars => (ChanOrder /\ FinalInv)'
  BY OrderNext, FinalNext
<1> QED
  BY <1>1, <1>2, AlwaysTyped, PTL DEF Spec

\* A publisher that ends without a time-out is, for a subscriber that is still
\* there, no longer a writer of any instance of any topic: wait_for_acknowledgments
\* of every writer comes after the last change of every instance.
THEOREM LastStateArrives == Spec => []FinalStateDelivered
<1>1. FinalInv => FinalStateDelivered
  BY DEF FinalInv, FinalFor, Writes, FinalStateDelivered
<1> QED
  BY <1>1, AlwaysOrdered, PTL
-----------------------------------------------------------------------------
(***************************************************************************)
(* Coherent sets.                                                          *)
(***************************************************************************)
\* A sample is what its writer, set and place make it, and on its topic.
Genuine(m, t) ==
    m.kind = "data" => m = Data(m.from, m.set, m.place) /\ TopicOf(m.place) = t

AllGenuine ==
    \A t \in Topics :
        /\ \A p \in Publishers : \A j \in 1 .. Len(chan[p][t]) : Genuine(chan[p][t][j], t)
        /\ \A j \in 1 .. Len(cache[t]) : Genuine(cache[t][j], t)

\* The sample is on its way; in the present look, taken or not; or beyond it.
Sent(p, i, k) ==
    \E j \in 1 .. Len(chan[p][TopicOf(k)]) : chan[p][TopicOf(k)][j] = Data(p, i, k)
InLook(p, i, k) ==
    \/ << p, i, k >> \in taken
    \/ \E j \in 1 .. limit[TopicOf(k)] : cache[TopicOf(k)][j] = Data(p, i, k)
Beyond(p, i, k) ==
    \E j \in limit[TopicOf(k)] + 1 .. Len(cache[TopicOf(k)]) : cache[TopicOf(k)][j] = Data(p, i, k)

\* Once a set has been ended all of it is on its way or nothing; before, what is on
\* its way is what has been written.
SentFor(p) ==
    /\ matched[p] \in {{}, Topics}
    /\ ppc[p] = "write" => matched[p] = Topics
    /\ printed[p] /\ ~PubIsOver(p) => matched[p] = Topics
    /\ \A i \in 1 .. NumIterations :
        /\ i <= ended[p] => \A k, l \in 1 .. SetSize : Sent(p, i, k) => Sent(p, i, l)
        /\ ppc[p] \in {"loop", "write"} /\ i > ended[p] =>
            \A k \in 1 .. SetSize : Sent(p, i, k) <=> i = ended[p] + 1 /\ k < place[p]

\* The look has all of a set or nothing, and so has what comes after it.
LookFor(p) ==
    \A i \in 1 .. NumIterations : \A k, l \in 1 .. SetSize :
        /\ InLook(p, i, k) => InLook(p, i, l)
        /\ Beyond(p, i, k) => Beyond(p, i, l)

\* The topics that have been read show nothing more.
LookPlace ==
    /\ \A t \in Topics : spc \in {"loop", "end"} \/ (spc = "read" /\ t < topic) => limit[t] = 0
    /\ spc = "loop" => taken = {}

SetInv ==
    coherent /\ together /\ ~SubIsOver =>
        LookPlace /\ \A p \in Publishers : SentFor(p) /\ LookFor(p)

LEMMA Joined ==
    ASSUME NEW A, NEW B, NEW c \in Seq(A), NEW a \in Seq(B)
    PROVE  /\ Len(c \o a) = Len(c) + Len(a) /\ Len(c) \in Nat /\ Len(a) \in Nat
           /\ \A l \in 1 .. Len(c) + Len(a) : (c \o a)[l] = IF l <= Len(c) THEN c[l] ELSE a[l - Len(c)]
  OBVIOUS

LEMMA Distinct ==
    /\ \A p, q, i, j, k, l : Data(p, i, k) = Data(q, j, l) <=> p = q /\ i = j /\ k = l
    /\ \A p, i, k : /\ Data(p, i, k).kind = "data" /\ Data(p, i, k).from = p
                    /\ Data(p, i, k).set = i /\ Data(p, i, k).place = k
<1>1. \A p, i, k : /\ Data(p, i, k).kind = "data" /\ Data(p, i, k).from = p
                   /\ Data(p, i, k).set = i /\ Data(p, i, k).place = k
  BY DEF Data
<1>2. ASSUME NEW p, NEW q, NEW i, NEW j, NEW k, NEW l, Data(p, i, k) = Data(q, j, l)
      PROVE  p = q /\ i = j /\ k = l
  BY <1>1, <1>2
<1> QED
  BY <1>1, <1>2

\* What a set has in the look, or beyond it, when its samples keep their places.
LEMMA LookStays ==
    ASSUME TypeInd, opts' = opts, UNCHANGED << cache, limit, taken >>
    PROVE  \A p \in Publishers : LookFor(p) => LookFor(p)'
<1>1. /\ UNCHANGED << NumIterations, SetSize >> /\ \A k : TopicOf(k)' = TopicOf(k)
      /\ \A p, i, k : Data(p, i, k)' = Data(p, i, k)
  BY Fixed
<1>2. \A p, i, k : (InLook(p, i, k)' <=> InLook(p, i, k)) /\ (Beyond(p, i, k)' <=> Beyond(p, i, k))
  BY <1>1 DEF InLook, Beyond
<1> QED
  BY <1>1, <1>2 DEF LookFor

LEMMA SentStays ==
    ASSUME TypeInd, opts' = opts, NEW p \in Publishers, ViewKept(p), SentFor(p)
    PROVE  SentFor(p)'
<1>1. /\ UNCHANGED << NumIterations, SetSize, Topics >> /\ \A k : TopicOf(k)' = TopicOf(k)
      /\ \A q, i, k : Data(q, i, k)' = Data(q, i, k)
  BY Fixed
<1>2. \A i, k : Sent(p, i, k)' <=> Sent(p, i, k)
  BY <1>1 DEF Sent, ViewKept
<1> QED
  BY <1>1, <1>2 DEF SentFor, ViewKept, PubIsOver

-----------------------------------------------------------------------------
\* Samples are genuine when written and stay so.
LEMMA GenuineNext ==
    ASSUME TypeInd, AllGenuine, [Next]_vars
    PROVE  AllGenuine'
<1> DEFINE S == Samples \cup Finals
           C == Samples \cup Notices
<1>o. opts' = opts
  BY OptionsStay
<1>t. /\ Topics' = Topics /\ \A m, t : Genuine(m, t) <=> Genuine(m, t)'
      /\ chan \in [Publishers -> [Topics -> Seq(S)]] /\ cache \in [Topics -> Seq(C)]
  <2>1. Topics' = Topics /\ (\A k : TopicOf(k)' = TopicOf(k)) /\ \A p, i, k : Data(p, i, k)' = Data(p, i, k)
    BY <1>o, Fixed
  <2> QED
    BY <2>1 DEF TypeInd, NetTypes, Genuine
<1> DEFINE OnWay == \A t \in Topics : \A p \in Publishers :
                       \A j \in 1 .. Len(chan'[p][t]) : Genuine(chan'[p][t][j], t)
           Here  == \A t \in Topics : \A j \in 1 .. Len(cache'[t]) : Genuine(cache'[t][j], t)
<1> HIDE DEF S, C
<1> SUFFICES OnWay /\ Here
  <2>1. ASSUME OnWay, Here, NEW t \in Topics', NEW p \in Publishers, NEW j \in 1 .. Len(chan'[p][t])
        PROVE  Genuine(chan[p][t][j], t)'
    <3>1. Genuine(chan'[p][t][j], t)
      BY <1>t, <2>1
    <3> QED
      BY <1>o, <3>1, Fixed DEF Genuine
  <2>2. ASSUME OnWay, Here, NEW t \in Topics', NEW j \in 1 .. Len(cache'[t])
        PROVE  Genuine(cache[t][j], t)'
    <3>1. Genuine(cache'[t][j], t)
      BY <1>t, <2>2
    <3> QED
      BY <1>o, <3>1, Fixed DEF Genuine
  <2> QED
    BY <2>1, <2>2 DEF AllGenuine
<1>a. UNCHANGED chan => OnWay
  BY DEF AllGenuine
<1>b. UNCHANGED cache => Here
  BY DEF AllGenuine
<1>c. ASSUME NEW p \in Publishers, NEW t \in Topics, NEW m \in S, Genuine(m, t),
             chan' = [chan EXCEPT ![p][t] = Append(chan[p][t], m)]
      PROVE  OnWay
  <2>1. /\ chan[p][t] \in Seq(S) /\ chan'[p][t] = Append(chan[p][t], m)
        /\ \A q \in Publishers, u \in Topics : q # p \/ u # t => chan'[q][u] = chan[q][u]
    BY <1>t, <1>c
  <2>2. /\ Len(chan'[p][t]) = Len(chan[p][t]) + 1 /\ Len(chan[p][t]) \in Nat
        /\ \A j \in 1 .. Len(chan[p][t]) : chan'[p][t][j] = chan[p][t][j]
        /\ chan'[p][t][Len(chan[p][t]) + 1] = m
    BY <2>1, Appended
  <2>3. \A j \in 1 .. Len(chan'[p][t]) : Genuine(chan'[p][t][j], t)
    <3> SUFFICES ASSUME NEW j \in 1 .. Len(chan'[p][t]) PROVE Genuine(chan'[p][t][j], t)
      OBVIOUS
    <3>1. j \in 1 .. Len(chan[p][t]) \/ j = Len(chan[p][t]) + 1
      BY <2>2
    <3> QED
      BY <1>c, <2>2, <3>1 DEF AllGenuine
  <2>4. ASSUME NEW q \in Publishers, NEW u \in Topics, q # p \/ u # t, NEW j \in 1 .. Len(chan'[q][u])
        PROVE  Genuine(chan'[q][u][j], u)
    BY <2>1, <2>4 DEF AllGenuine
  <2> QED
    BY <2>3, <2>4
<1>d. ASSUME \A p \in Publishers : (\A t \in Topics : \E n \in Nat : Arrived(p, t, n)) \/ ViewKept(p)
      PROVE  OnWay
  <2> SUFFICES ASSUME NEW t \in Topics, NEW p \in Publishers, NEW j \in 1 .. Len(chan'[p][t])
               PROVE  Genuine(chan'[p][t][j], t)
    OBVIOUS
  <2>1. CASE ViewKept(p)
    BY <2>1 DEF ViewKept, AllGenuine
  <2>2. ASSUME NEW n \in Nat, Arrived(p, t, n) PROVE Genuine(chan'[p][t][j], t)
    <3>1. Len(chan[p][t]) \in Nat
      BY <1>t
    <3>2. n + j \in 1 .. Len(chan[p][t]) /\ chan'[p][t][j] = chan[p][t][n + j]
      BY <2>2, <3>1 DEF Arrived
    <3> QED
      BY <3>2 DEF AllGenuine
  <2> QED
    BY <1>d, <2>1, <2>2
<1>e. ASSUME NEW t \in Topics, NEW m \in C, Genuine(m, t),
             cache' = [cache EXCEPT ![t] = Append(cache[t], m)]
      PROVE  Here
  <2>1. /\ cache[t] \in Seq(C) /\ cache'[t] = Append(cache[t], m)
        /\ \A u \in Topics : u # t => cache'[u] = cache[u]
    BY <1>t, <1>e
  <2>2. /\ Len(cache'[t]) = Len(cache[t]) + 1 /\ Len(cache[t]) \in Nat
        /\ \A j \in 1 .. Len(cache[t]) : cache'[t][j] = cache[t][j]
        /\ cache'[t][Len(cache[t]) + 1] = m
    BY <2>1, Appended
  <2>3. \A j \in 1 .. Len(cache'[t]) : Genuine(cache'[t][j], t)
    <3> SUFFICES ASSUME NEW j \in 1 .. Len(cache'[t]) PROVE Genuine(cache'[t][j], t)
      OBVIOUS
    <3>1. j \in 1 .. Len(cache[t]) \/ j = Len(cache[t]) + 1
      BY <2>2
    <3> QED
      BY <1>e, <2>2, <3>1 DEF AllGenuine
  <2> QED
    BY <2>1, <2>3 DEF AllGenuine
<1>n. ASSUME NEW x, NEW key PROVE NotAlive(x, key).kind # "data" /\ NotAlive(x, key).kind = "notice"
  BY DEF NotAlive
<1>1. CASE UNCHANGED vars
  BY <1>a, <1>b, <1>1 DEF vars, readerVars
<1>2. CASE SubStep \/ SubStop
  <2>1. UNCHANGED chan
    BY <1>2 DEF SubStep, SubBegin, SubTakeData, SubTakeNotice, SubNextTopic, SubEnd, SubStop
  <2>2. UNCHANGED cache \/ (Visible(topic) > 0 /\ TakeHead)
    BY <1>2 DEF SubStep, SubBegin, SubTakeData, SubTakeNotice, SubNextTopic, SubEnd, SubStop, readerVars
  <2>3. CASE Visible(topic) > 0 /\ TakeHead
    <3>1. /\ topic \in Topics /\ cache[topic] # << >> /\ cache' = [cache EXCEPT ![topic] = Tail(cache[topic])]
      BY <2>3, Taking DEF TakeHead, TypeInd, SubTypes
    <3>2. /\ cache[topic] \in Seq(C) /\ cache'[topic] = Tail(cache[topic])
          /\ \A u \in Topics : u # topic => cache'[u] = cache[u]
      BY <1>t, <3>1
    <3>3. /\ Len(cache'[topic]) = Len(cache[topic]) - 1 /\ Len(cache[topic]) \in Nat
          /\ \A j \in 1 .. Len(cache[topic]) - 1 : cache'[topic][j] = cache[topic][j + 1]
      <4> DEFINE s == cache[topic]
      <4>1. s \in Seq(C) /\ s # << >> /\ cache'[topic] = Tail(s)
        BY <3>1, <3>2
      <4> HIDE DEF s
      <4>2. /\ Len(Tail(s)) = Len(s) - 1 /\ Len(s) \in Nat
            /\ \A j \in 1 .. Len(s) - 1 : Tail(s)[j] = s[j + 1]
        BY <4>1, Behead
      <4> QED
        BY <4>1, <4>2 DEF s
    <3>4. \A j \in 1 .. Len(cache'[topic]) : Genuine(cache'[topic][j], topic)
      <4> SUFFICES ASSUME NEW j \in 1 .. Len(cache'[topic]) PROVE Genuine(cache'[topic][j], topic)
        OBVIOUS
      <4>1. j + 1 \in 1 .. Len(cache[topic]) /\ cache'[topic][j] = cache[topic][j + 1]
        BY <3>3
      <4> QED
        BY <3>1, <4>1 DEF AllGenuine
    <3>5. Here
      BY <3>2, <3>4 DEF AllGenuine
    <3> QED
      BY <1>a, <2>1, <3>5
  <2> QED
    BY <1>a, <1>b, <2>1, <2>2, <2>3
<1>3. ASSUME SubDepart \/ \E p \in Publishers : PubInterrupt(p) \/ Match(p) \/ Depart(p)
      PROVE  OnWay /\ Here
  <2>1. UNCHANGED cache
    BY <1>3 DEF SubDepart, PubInterrupt, Match, Depart, readerVars
  <2>2. \A p \in Publishers, t \in Topics : chan'[p][t] = chan[p][t] \/ chan'[p][t] = << >>
    <3>1. CASE SubDepart
      BY <3>1 DEF SubDepart
    <3>2. ASSUME NEW p \in Publishers, PubInterrupt(p) \/ Match(p) PROVE UNCHANGED chan
      BY <3>2 DEF PubInterrupt, Match
    <3>3. ASSUME NEW p \in Publishers, Depart(p),
                 NEW q \in Publishers, NEW t \in Topics
          PROVE  chan'[q][t] = chan[q][t] \/ chan'[q][t] = << >>
      BY <1>t, <3>3 DEF Depart
    <3> QED
      BY <1>3, <3>1, <3>2, <3>3
  <2>3. OnWay
    <3> SUFFICES ASSUME NEW t \in Topics, NEW p \in Publishers, NEW j \in 1 .. Len(chan'[p][t])
                 PROVE  Genuine(chan'[p][t][j], t)
      OBVIOUS
    <3>1. chan'[p][t] # << >>
      BY EmptySeq
    <3> QED
      BY <2>2, <3>1 DEF AllGenuine
  <2> QED
    BY <1>b, <2>1, <2>3
<1>4. ASSUME NEW p \in Publishers, PubActs(p) PROVE OnWay /\ Here
  <2>1. UNCHANGED << matched, cache >>
    BY <1>4, PubStepChan DEF readerVars
  <2>2. CASE UNCHANGED chan
    BY <1>a, <1>b, <2>1, <2>2
  <2>3. CASE PubWrite(p) /\ chan' # chan
    <3> DEFINE t == TopicOf(place[p])
               m == Data(p, iteration[p] + 1, place[p])
    <3>1. t \in Topics /\ m \in S /\ chan' = [chan EXCEPT ![p][t] = Append(chan[p][t], m)]
      BY <2>3, WriteSends DEF S
    <3>2. Genuine(m, t)
      BY Distinct DEF Genuine
    <3> HIDE DEF t, m
    <3> QED
      BY <1>b, <1>c, <2>1, <3>1, <3>2
  <2>4. CASE PubFinal(p) /\ chan' # chan
    <3> DEFINE t == FinalTopic(place[p])
               m == Final(p, FinalInstance(place[p]))
    <3>1. t \in Topics /\ m \in S /\ chan' = [chan EXCEPT ![p][t] = Append(chan[p][t], m)]
      BY <2>4, FinalSends DEF S
    <3>2. Genuine(m, t)
      BY DEF Genuine, Final
    <3> HIDE DEF t, m
    <3> QED
      BY <1>b, <1>c, <2>1, <3>1, <3>2
  <2>5. UNCHANGED chan \/ PubWrite(p) \/ PubFinal(p)
    BY <1>4 DEF PubActs, PubStep, PubLeaveLoop, PubGiveUp, PubBegin, PubFails, PubAck
  <2> QED
    BY <2>2, <2>3, <2>4, <2>5
<1>5. ASSUME NEW p \in Publishers, NEW t \in Topics, NEW x \in Instances, Orphan(p, t, x)
      PROVE  OnWay /\ Here
  <2>1. UNCHANGED chan /\ (UNCHANGED cache \/ cache' = [cache EXCEPT ![t] = Append(cache[t], NotAlive(x, FALSE))])
    BY <1>5 DEF Orphan
  <2>2. NotAlive(x, FALSE) \in C /\ Genuine(NotAlive(x, FALSE), t)
    BY <1>n DEF C, NotAlive, Notices, Genuine
  <2> QED
    BY <1>a, <1>b, <1>e, <2>1, <2>2
<1>6. ASSUME NEW p \in Publishers, Deliver(p) PROVE OnWay /\ Here
  <2>1. OnWay
    BY <1>d, <1>6, Delivery
  <2>2. ASSUME NEW t \in Topics, DeliverData(p, t) PROVE Here
    <3> DEFINE m == Head(chan[p][t])
    <3>1. /\ chan[p][t] # << >> /\ m.kind = "data"
          /\ cache' = [cache EXCEPT ![t] = Append(cache[t], m)]
      BY <2>2 DEF DeliverData
    <3>2. m = chan[p][t][1] /\ m \in S /\ Len(chan[p][t]) \in Nat /\ Len(chan[p][t]) >= 1
      BY <1>t, <3>1, Behead
    <3>3. Genuine(m, t) /\ m \in C
      BY <3>1, <3>2 DEF AllGenuine, S, C, Finals
    <3> HIDE DEF m
    <3> QED
      BY <1>e, <3>1, <3>3
  <2>3. ASSUME NEW t \in Topics, DeliverFinal(p, t) PROVE Here
    <3> DEFINE x == Head(chan[p][t]).inst
    <3>1. /\ chan[p][t] # << >>
          /\ \/ UNCHANGED cache
             \/ \E key \in BOOLEAN : cache' = [cache EXCEPT ![t] = Append(cache[t], NotAlive(x, key))]
      BY <2>3 DEF DeliverFinal
    <3>2. Head(chan[p][t]) \in S
      BY <1>t, <3>1, Behead
    <3>3. x \in Instances
      BY <3>2 DEF S, Samples, Finals
    <3> HIDE DEF x
    <3>4. \A key \in BOOLEAN : NotAlive(x, key) \in C /\ Genuine(NotAlive(x, key), t)
      BY <1>n, <3>3 DEF C, NotAlive, Notices, Genuine
    <3> QED
      BY <1>b, <1>e, <3>1, <3>4
  <2>4. ASSUME DeliverSet(p) PROVE Here
    <3>1. PICK n \in [Topics -> 0 .. SetSize] :
            /\ \A t \in Topics : n[t] <= Len(chan[p][t])
            /\ cache' = [t \in Topics |-> cache[t] \o SubSeq(chan[p][t], 1, n[t])]
      BY <2>4 DEF DeliverSet
    <3> SUFFICES ASSUME NEW t \in Topics, NEW j \in 1 .. Len(cache'[t])
                 PROVE  Genuine(cache'[t][j], t)
      OBVIOUS
    <3> DEFINE s == chan[p][t]
               c == cache[t]
               k == n[t]
               a == SubSeq(s, 1, k)
    <3>2. s \in Seq(S) /\ c \in Seq(C) /\ k \in 0 .. Len(s)
      BY <1>t, <3>1, Sizes DEF TypeInd
    <3>3. cache'[t] = c \o a
      BY <3>1
    <3>4. /\ \A l \in 1 .. Len(s) : Genuine(s[l], t)
          /\ \A l \in 1 .. Len(c) : Genuine(c[l], t)
      BY DEF AllGenuine
    <3> HIDE DEF s, c, k
    <3>5. a \in Seq(S) /\ Len(a) = k /\ \A l \in 1 .. k : a[l] = s[l]
      BY <3>2, Divided
    <3>6. k \in Nat /\ k <= Len(s) /\ Len(c) \in Nat /\ Len(s) \in Nat
      BY <3>2
    <3> HIDE DEF a
    <3>7. /\ Len(c \o a) = Len(c) + Len(a)
          /\ \A l \in 1 .. Len(c) + Len(a) : (c \o a)[l] = IF l <= Len(c) THEN c[l] ELSE a[l - Len(c)]
      BY <3>2, <3>5, Joined
    <3>8. CASE j <= Len(c)
      BY <3>3, <3>4, <3>6, <3>7, <3>8
    <3>9. CASE j > Len(c)
      <4>1. j - Len(c) \in 1 .. k /\ j - Len(c) \in 1 .. Len(s) /\ cache'[t][j] = a[j - Len(c)]
        BY <3>3, <3>5, <3>6, <3>7, <3>9
      <4> QED
        BY <3>4, <3>5, <4>1
    <3> QED
      BY <3>6, <3>8, <3>9
  <2> QED
    BY <1>6, <2>1, <2>2, <2>3, <2>4 DEF Deliver
<1> QED
  BY <1>1, <1>2, <1>3, <1>4, <1>5, <1>6 DEF Next, PubActs
-----------------------------------------------------------------------------
\* What is on its way of a set, when a publisher writes.
LEMMA SentWritten ==
    ASSUME TypeInd, NEW p \in Publishers, PubWrite(p), matched[p] = Topics,
           NEW i \in 1 .. NumIterations, NEW k \in 1 .. SetSize
    PROVE  Sent(p, i, k)' <=> Sent(p, i, k) \/ (i = iteration[p] + 1 /\ k = place[p])
<1> DEFINE t == TopicOf(place[p])
           u == TopicOf(k)
           m == Data(p, iteration[p] + 1, place[p])
           S == Samples \cup Finals
<1>1. /\ t \in Topics /\ m \in S /\ chan' = [chan EXCEPT ![p][t] = Append(chan[p][t], m)]
      /\ chan \in [Publishers -> [Topics -> Seq(S)]]
  BY WriteSends DEF TypeInd, NetTypes
<1>2. u \in Topics
  BY SamplePlaces DEF TypeInd
<1>3. (\A l : TopicOf(l)' = TopicOf(l)) /\ \A q, j, l : Data(q, j, l)' = Data(q, j, l)
  BY Fixed DEF PubWrite
<1>4. m = Data(p, i, k) <=> i = iteration[p] + 1 /\ k = place[p]
  BY Distinct
<1>5. k = place[p] => u = t
  OBVIOUS
<1> HIDE DEF t, u, m, S
<1>6. CASE u = t
  <2>1. chan[p][u] \in Seq(S) /\ chan'[p][u] = Append(chan[p][u], m)
    BY <1>1, <1>6
  <2>2. /\ Len(chan'[p][u]) = Len(chan[p][u]) + 1 /\ Len(chan[p][u]) \in Nat
        /\ \A j \in 1 .. Len(chan[p][u]) : chan'[p][u][j] = chan[p][u][j]
        /\ chan'[p][u][Len(chan[p][u]) + 1] = m
    BY <1>1, <2>1, Appended
  <2>3. /\ \A j \in 1 .. Len(chan'[p][u]) : j \in 1 .. Len(chan[p][u]) \/ j = Len(chan[p][u]) + 1
        /\ \A j \in 1 .. Len(chan[p][u]) : j \in 1 .. Len(chan'[p][u])
        /\ Len(chan[p][u]) + 1 \in 1 .. Len(chan'[p][u])
    BY <2>2
  <2>4. Sent(p, i, k)' <=> \E j \in 1 .. Len(chan'[p][u]) : chan'[p][u][j] = Data(p, i, k)
    BY <1>3 DEF Sent, u
  <2>5. Sent(p, i, k) <=> \E j \in 1 .. Len(chan[p][u]) : chan[p][u][j] = Data(p, i, k)
    BY DEF Sent, u
  <2>6. (\E j \in 1 .. Len(chan'[p][u]) : chan'[p][u][j] = Data(p, i, k)) <=>
           \/ \E j \in 1 .. Len(chan[p][u]) : chan[p][u][j] = Data(p, i, k)
           \/ m = Data(p, i, k)
    BY <2>2, <2>3
  <2> QED
    BY <1>4, <2>4, <2>5, <2>6
<1>7. CASE u # t
  <2>1. chan'[p][u] = chan[p][u]
    BY <1>1, <1>2, <1>7
  <2>2. Sent(p, i, k)' <=> Sent(p, i, k)
    BY <1>3, <2>1 DEF Sent, u
  <2> QED
    BY <1>5, <1>7, <2>2
<1> QED
  BY <1>6, <1>7

\* A publisher's own step and its coherent sets.
LEMMA SentPub ==
    ASSUME TypeInd, opts' = opts, coherent, together, NEW p \in Publishers, SentFor(p), PubActs(p)
    PROVE  SentFor(p)'
<1>f. /\ UNCHANGED << NumIterations, SetSize, Topics >> /\ \A k : TopicOf(k)' = TopicOf(k)
      /\ \A q, i, k : Data(q, i, k)' = Data(q, i, k)
  BY Fixed
<1>0. /\ ppc \in [Publishers -> {"loop", "write", "final", "ack", "done", "failed", "unmatched"}]
      /\ printed \in [Publishers -> BOOLEAN] /\ ended[p] \in Nat /\ ended[p] = iteration[p]
      /\ place \in [Publishers -> 1 .. SetSize] /\ iteration \in [Publishers -> 0 .. NumIterations]
      /\ ended \in [Publishers -> 0 .. NumIterations]
      /\ SetSize \in Nat \ {0} /\ NumIterations \in Nat \ {0} /\ NumTopics \in Nat \ {0}
      /\ ppc[p] = "loop" => place[p] = 1
  BY Sizes DEF TypeInd, PubTypes, PubPlaces
<1>m. UNCHANGED matched
  BY PubStepChan
<1>1. CASE UNCHANGED << chan, printed, ended >> /\ ppc'[p] \notin {"loop", "write"} /\ (PubIsOver(p) => PubIsOver(p)')
  <2>1. \A i, k : Sent(p, i, k)' <=> Sent(p, i, k)
    BY <1>f, <1>1 DEF Sent
  <2> QED
    BY <1>f, <1>m, <1>1, <2>1 DEF SentFor
<1>2. CASE PubLeaveLoop(p) \/ PubGiveUp(p) \/ PubFails(p) \/ PubAck(p)
  <2>1. UNCHANGED << chan, printed, ended >> /\ ~PubIsOver(p)
    BY <1>2 DEF PubLeaveLoop, PubGiveUp, PubFails, PubAck, PubIsOver
  <2>2. ppc'[p] \notin {"loop", "write"}
    BY <1>0, <1>2 DEF PubLeaveLoop, PubGiveUp, PubFails, PubAck, PubGoes
  <2> QED
    BY <1>1, <2>1, <2>2
<1>3. CASE PubBegin(p)
  <2>1. /\ ppc[p] = "loop" /\ ppc'[p] = "write" /\ UNCHANGED << chan, ended, place >>
        /\ printed' = [printed EXCEPT ![p] = printed[p] \/ 1 \in matched[p]]
        /\ printed'[p]
    BY <1>0, <1>3 DEF PubBegin, PubGoes, gated
  <2>2. printed[p] \/ 1 \in matched[p]
    BY <1>0, <2>1
  <2>3. matched[p] = Topics
    BY <2>1, <2>2 DEF SentFor, PubIsOver
  <2>4. \A i, k : Sent(p, i, k)' <=> Sent(p, i, k)
    BY <1>f, <2>1 DEF Sent
  <2> QED
    BY <1>f, <1>m, <2>1, <2>3, <2>4 DEF SentFor
<1>4. CASE PubWrite(p)
  <2>1. /\ ppc[p] = "write" /\ ppc'[p] \in {"loop", "write"} /\ place[p] \in 1 .. SetSize
        /\ UNCHANGED printed
    BY <1>4, WriteSends DEF PubWrite
  <2>2. matched[p] = Topics /\ matched'[p] = Topics
    BY <1>m, <2>1 DEF SentFor
  <2>3. \A i \in 1 .. NumIterations, k \in 1 .. SetSize :
          Sent(p, i, k)' <=> Sent(p, i, k) \/ (i = ended[p] + 1 /\ k = place[p])
    BY <1>0, <1>4, <2>2, SentWritten
  <2>4. ASSUME NEW i \in 1 .. NumIterations
        PROVE  /\ i <= ended'[p] => \A k, l \in 1 .. SetSize : Sent(p, i, k)' => Sent(p, i, l)'
               /\ i > ended'[p] =>
                   \A k \in 1 .. SetSize : Sent(p, i, k)' <=> i = ended'[p] + 1 /\ k < place'[p]
    <3>1. /\ i <= ended[p] => \A k, l \in 1 .. SetSize : Sent(p, i, k) => Sent(p, i, l)
          /\ i > ended[p] => \A k \in 1 .. SetSize : Sent(p, i, k) <=> i = ended[p] + 1 /\ k < place[p]
      BY <2>1 DEF SentFor
    <3>2. CASE place[p] = SetSize
      <4>1. ended'[p] = ended[p] + 1 /\ place'[p] = 1
        BY <1>0, <1>4, <3>2 DEF PubWrite, EndsSet
      <4>2. CASE i <= ended[p]
        BY <1>0, <2>3, <3>1, <4>1, <4>2
      <4>3. CASE i = ended[p] + 1
        <5>1. \A k \in 1 .. SetSize : k < place[p] \/ k = place[p]
          BY <1>0, <3>2
        <5>2. \A k \in 1 .. SetSize : Sent(p, i, k)'
          BY <1>0, <2>3, <3>1, <4>3, <5>1
        <5> QED
          BY <1>0, <4>1, <4>3, <5>2
      <4>4. CASE i > ended[p] + 1
        <5>1. \A k \in 1 .. SetSize : ~(k < 1)
          OBVIOUS
        <5> QED
          BY <1>0, <2>3, <3>1, <4>1, <4>4, <5>1
      <4> QED
        BY <1>0, <4>2, <4>3, <4>4
    <3>3. CASE place[p] # SetSize
      <4>1. ended'[p] = ended[p] /\ place'[p] = place[p] + 1
        BY <1>0, <1>4, <3>3 DEF PubWrite, EndsSet
      <4>2. \A k \in 1 .. SetSize : k < place[p] + 1 <=> k < place[p] \/ k = place[p]
        BY <1>0
      <4>3. CASE i <= ended[p]
        BY <1>0, <2>3, <3>1, <4>1, <4>3
      <4>4. CASE i > ended[p]
        BY <1>0, <2>3, <3>1, <4>1, <4>2, <4>4
      <4> QED
        BY <1>0, <4>3, <4>4
    <3> QED
      BY <3>2, <3>3
  <2> QED
    BY <1>f, <2>1, <2>2, <2>4 DEF SentFor
<1>5. CASE PubFinal(p)
  <2> DEFINE t == FinalTopic(place[p])
             m == Final(p, FinalInstance(place[p]))
             S == Samples \cup Finals
  <2>1. /\ ppc[p] = "final" /\ t \in Topics /\ m \in S
        /\ UNCHANGED chan \/ chan' = [chan EXCEPT ![p][t] = Append(chan[p][t], m)]
    BY <1>5, FinalSends
  <2>2. ppc'[p] \in {"final", "ack"} /\ UNCHANGED << printed, ended >>
    BY <1>0, <1>5, <2>1 DEF PubFinal, PubGoes
  <2>3. \A i, k : m # Data(p, i, k)
    BY DEF Final, Data
  <2> HIDE DEF t, m, S
  <2>4. ASSUME NEW i \in 1 .. NumIterations, NEW k \in 1 .. SetSize
        PROVE  Sent(p, i, k)' <=> Sent(p, i, k)
    <3> DEFINE u == TopicOf(k)
    <3>1. u \in Topics /\ chan \in [Publishers -> [Topics -> Seq(S)]]
      BY SamplePlaces DEF TypeInd, NetTypes, S
    <3>2. CASE chan'[p][u] = chan[p][u]
      BY <1>f, <3>2 DEF Sent
    <3>3. CASE chan'[p][u] = Append(chan[p][u], m)
      <4> HIDE DEF u
      <4>1. /\ chan[p][u] \in Seq(S)
            /\ Len(chan'[p][u]) = Len(chan[p][u]) + 1 /\ Len(chan[p][u]) \in Nat
            /\ \A j \in 1 .. Len(chan[p][u]) : chan'[p][u][j] = chan[p][u][j]
            /\ chan'[p][u][Len(chan[p][u]) + 1] = m
        BY <2>1, <3>1, <3>3, Appended
      <4>2. /\ \A j \in 1 .. Len(chan'[p][u]) : j \in 1 .. Len(chan[p][u]) \/ j = Len(chan[p][u]) + 1
            /\ \A j \in 1 .. Len(chan[p][u]) : j \in 1 .. Len(chan'[p][u])
        BY <4>1
      <4>3. (\E j \in 1 .. Len(chan'[p][u]) : chan'[p][u][j] = Data(p, i, k)) <=>
               \E j \in 1 .. Len(chan[p][u]) : chan[p][u][j] = Data(p, i, k)
        BY <2>3, <4>1, <4>2
      <4> QED
        BY <1>f, <4>3 DEF Sent, u
    <3> QED
      BY <2>1, <3>1, <3>2, <3>3
  <2>5. /\ printed'[p] => matched'[p] = Topics /\ matched[p] \in {{}, Topics}
    BY <1>m, <2>1, <2>2 DEF SentFor, PubIsOver
  <2>6. \A i \in 1 .. NumIterations : i <= ended[p] =>
           \A k, l \in 1 .. SetSize : Sent(p, i, k)' => Sent(p, i, l)'
    BY <2>4 DEF SentFor
  <2> QED
    BY <1>f, <1>m, <2>2, <2>5, <2>6 DEF SentFor
<1> QED
  BY <1>2, <1>3, <1>4, <1>5 DEF PubActs, PubStep
-----------------------------------------------------------------------------
\* A notice that comes to the cache is no sample.
LEMMA LookNoticed ==
    ASSUME TypeInd, opts' = opts, UNCHANGED << limit, taken >>,
           NEW t \in Topics, NEW x, NEW key,
           UNCHANGED cache \/ cache' = [cache EXCEPT ![t] = Append(cache[t], NotAlive(x, key))]
    PROVE  \A p \in Publishers : LookFor(p) => LookFor(p)'
<1>f. /\ UNCHANGED << NumIterations, SetSize >> /\ \A k : TopicOf(k)' = TopicOf(k)
      /\ \A p, i, k : Data(p, i, k)' = Data(p, i, k)
  BY Fixed
<1> DEFINE C == Samples \cup Notices
           m == NotAlive(x, key)
           S == UNION {C, {m}}
<1>0. /\ cache \in [Topics -> Seq(C)] /\ \A u \in Topics : limit[u] \in Nat /\ limit[u] <= Len(cache[u])
  BY DEF TypeInd, NetTypes, SubTypes
<1>1. \A p, i, k : m # Data(p, i, k)
  BY DEF NotAlive, Data
<1> HIDE DEF C, m
<1>2. ASSUME NEW p \in Publishers, NEW i \in 1 .. NumIterations, NEW k \in 1 .. SetSize
      PROVE  (InLook(p, i, k)' <=> InLook(p, i, k)) /\ (Beyond(p, i, k)' <=> Beyond(p, i, k))
  <2> DEFINE u == TopicOf(k)
  <2>1. u \in Topics
    BY SamplePlaces DEF TypeInd
  <2>2. CASE cache'[u] = cache[u]
    BY <1>f, <2>2 DEF InLook, Beyond
  <2>3. CASE cache'[u] = Append(cache[u], m)
    <3> HIDE DEF u
    <3>1. cache[u] \in Seq(C) /\ limit[u] \in Nat /\ limit[u] <= Len(cache[u])
      BY <1>0, <2>1
    <3>2. /\ Len(cache'[u]) = Len(cache[u]) + 1 /\ Len(cache[u]) \in Nat
          /\ \A j \in 1 .. Len(cache[u]) : cache'[u][j] = cache[u][j]
          /\ cache'[u][Len(cache[u]) + 1] = m
      <4>1. cache[u] \in Seq(S) /\ m \in S
        BY <3>1
      <4> HIDE DEF S
      <4> QED
        BY <2>3, <4>1, Appended
    <3>3. /\ \A j \in 1 .. limit[u] : cache'[u][j] = cache[u][j]
          /\ \A j \in limit[u] + 1 .. Len(cache[u]) :
                cache'[u][j] = cache[u][j] /\ j \in limit[u] + 1 .. Len(cache'[u])
          /\ \A j \in limit[u] + 1 .. Len(cache'[u]) :
                j \in limit[u] + 1 .. Len(cache[u]) \/ cache'[u][j] = m
      BY <3>1, <3>2
    <3>4. InLook(p, i, k)' <=> InLook(p, i, k)
      BY <1>f, <3>3 DEF InLook, u
    <3>5. (\E j \in limit[u] + 1 .. Len(cache'[u]) : cache'[u][j] = Data(p, i, k)) <=>
             \E j \in limit[u] + 1 .. Len(cache[u]) : cache[u][j] = Data(p, i, k)
      BY <1>1, <3>3
    <3>6. Beyond(p, i, k)' <=> Beyond(p, i, k)
      BY <1>f, <3>5 DEF Beyond, u
    <3> QED
      BY <3>4, <3>6
  <2> QED
    <3>1. cache'[u] = cache[u] \/ cache'[u] = Append(cache[u], m)
      BY <1>0, <2>1 DEF m
    <3> QED
      BY <2>2, <2>3, <3>1
<1> QED
  BY <1>f, <1>2 DEF LookFor

\* A last change that arrives is no sample either.
LEMMA SentFinal ==
    ASSUME TypeInd, opts' = opts, NEW p \in Publishers, NEW t \in Topics, SentFor(p),
           DeliverFinal(p, t)
    PROVE  SentFor(p)'
<1>f. /\ UNCHANGED << NumIterations, SetSize, Topics >> /\ \A k : TopicOf(k)' = TopicOf(k)
      /\ \A q, i, k : Data(q, i, k)' = Data(q, i, k)
  BY Fixed
<1> DEFINE S == Samples \cup Finals
           m == Head(chan[p][t])
<1>0. /\ chan[p][t] # << >> /\ m.kind = "final" /\ chan' = [chan EXCEPT ![p][t] = Tail(chan[p][t])]
      /\ UNCHANGED << ppc, place, printed, ended, matched >>
  BY DEF DeliverFinal, pubVars
<1>1. chan \in [Publishers -> [Topics -> Seq(S)]]
  BY DEF TypeInd, NetTypes
<1>2. \A i, k : m # Data(p, i, k)
  BY <1>0, Distinct
<1> HIDE DEF S, m
<1>3. ASSUME NEW i \in 1 .. NumIterations, NEW k \in 1 .. SetSize
      PROVE  Sent(p, i, k)' <=> Sent(p, i, k)
  <2> DEFINE u == TopicOf(k)
  <2>1. u \in Topics
    BY SamplePlaces DEF TypeInd
  <2>2. CASE u # t
    <3>1. chan'[p][u] = chan[p][u]
      BY <1>0, <1>1, <2>1, <2>2
    <3> QED
      BY <1>f, <3>1 DEF Sent
  <2>3. CASE u = t
    <3> HIDE DEF u
    <3>1. chan[p][u] \in Seq(S) /\ chan[p][u] # << >> /\ chan'[p][u] = Tail(chan[p][u])
      BY <1>0, <1>1, <2>1, <2>3
    <3>2. /\ Len(chan'[p][u]) = Len(chan[p][u]) - 1 /\ Len(chan[p][u]) \in Nat
          /\ \A j \in 1 .. Len(chan[p][u]) - 1 : chan'[p][u][j] = chan[p][u][j + 1]
          /\ m = chan[p][u][1]
      BY <2>3, <3>1, Behead DEF m
    <3>3. /\ \A j \in 1 .. Len(chan[p][u]) :
                j = 1 \/ (j - 1 \in 1 .. Len(chan'[p][u]) /\ chan'[p][u][j - 1] = chan[p][u][j])
          /\ \A j \in 1 .. Len(chan'[p][u]) :
                j + 1 \in 1 .. Len(chan[p][u]) /\ chan'[p][u][j] = chan[p][u][j + 1]
      BY <3>2
    <3>4. (\E j \in 1 .. Len(chan'[p][u]) : chan'[p][u][j] = Data(p, i, k)) =>
             \E j \in 1 .. Len(chan[p][u]) : chan[p][u][j] = Data(p, i, k)
      <4> SUFFICES ASSUME NEW j \in 1 .. Len(chan'[p][u]), chan'[p][u][j] = Data(p, i, k)
                   PROVE  \E l \in 1 .. Len(chan[p][u]) : chan[p][u][l] = Data(p, i, k)
        OBVIOUS
      <4>1. j + 1 \in 1 .. Len(chan[p][u]) /\ chan[p][u][j + 1] = Data(p, i, k)
        BY <3>3
      <4> QED
        BY <4>1
    <3>5. (\E j \in 1 .. Len(chan[p][u]) : chan[p][u][j] = Data(p, i, k)) =>
             \E j \in 1 .. Len(chan'[p][u]) : chan'[p][u][j] = Data(p, i, k)
      <4> SUFFICES ASSUME NEW j \in 1 .. Len(chan[p][u]), chan[p][u][j] = Data(p, i, k)
                   PROVE  \E l \in 1 .. Len(chan'[p][u]) : chan'[p][u][l] = Data(p, i, k)
        OBVIOUS
      <4>1. j # 1
        BY <1>2, <3>2
      <4>2. j - 1 \in 1 .. Len(chan'[p][u]) /\ chan'[p][u][j - 1] = chan[p][u][j]
        BY <3>3, <4>1
      <4> QED
        BY <4>2
    <3> QED
      BY <1>f, <3>4, <3>5 DEF Sent, u
  <2> QED
    BY <2>2, <2>3
<1> QED
  BY <1>f, <1>0, <1>3 DEF SentFor, PubIsOver

\* An ended set that arrives goes from its way to beyond the look, as a whole.
LEMMA SetArrives ==
    ASSUME TypeInd, opts' = opts, NEW p \in Publishers, ChanFor(p), SentFor(p), DeliverSet(p)
    PROVE  SentFor(p)' /\ \A q \in Publishers : LookFor(q) => LookFor(q)'
<1>f. /\ UNCHANGED << NumIterations, SetSize, Topics >> /\ \A k : TopicOf(k)' = TopicOf(k)
      /\ \A q, i, k : Data(q, i, k)' = Data(q, i, k)
  BY Fixed
<1> DEFINE S == Samples \cup Finals
           C == Samples \cup Notices
<1>1. PICK i \in 1 .. ended[p], n \in [Topics -> 0 .. SetSize] :
        /\ \A t \in Topics : n[t] <= Len(chan[p][t])
        /\ \A t \in Topics : \A j \in DOMAIN chan[p][t] : OfSet(i, chan[p][t][j]) <=> j <= n[t]
        /\ cache' = [t \in Topics |-> cache[t] \o SubSeq(chan[p][t], 1, n[t])]
        /\ chan' = [chan EXCEPT ![p] =
             [t \in Topics |-> SubSeq(chan[p][t], n[t] + 1, Len(chan[p][t]))]]
  BY DEF DeliverSet
<1>2. UNCHANGED << ppc, place, printed, ended, matched, limit, taken >>
  BY DEF DeliverSet, pubVars, subVars
<1>3. /\ chan \in [Publishers -> [Topics -> Seq(S)]] /\ cache \in [Topics -> Seq(C)]
      /\ \A t \in Topics : limit[t] \in Nat /\ limit[t] <= Len(cache[t])
      /\ ended[p] \in 0 .. NumIterations /\ NumIterations \in Nat /\ SetSize \in Nat
  BY Sizes DEF TypeInd, NetTypes, PubTypes, SubTypes
<1>i. i \in 1 .. NumIterations /\ i <= ended[p]
  BY <1>1, <1>3
<1> HIDE DEF S, C
<1>4. ASSUME NEW q \in Publishers, NEW j \in 1 .. NumIterations, NEW k \in 1 .. SetSize
      PROVE  /\ InLook(q, j, k)' <=> InLook(q, j, k)
             /\ Beyond(q, j, k)' <=> Beyond(q, j, k) \/ (q = p /\ j = i /\ Sent(p, i, k))
             /\ q = p => (Sent(p, j, k)' <=> Sent(p, j, k) /\ j # i)
  <2> DEFINE u == TopicOf(k)
             c == cache[u]
             s == chan[p][u]
             d == n[u]
             a == SubSeq(s, 1, d)
             b == SubSeq(s, d + 1, Len(s))
             lim == limit[u]
  <2>1. u \in Topics
    BY SamplePlaces DEF TypeInd
  <2>2. /\ c \in Seq(C) /\ s \in Seq(S) /\ d \in 0 .. Len(s) /\ lim \in Nat /\ lim <= Len(c)
        /\ cache'[u] = c \o a /\ chan'[p][u] = b
    <3>1. c \in Seq(C) /\ s \in Seq(S) /\ lim \in Nat /\ lim <= Len(c)
      BY <1>3, <2>1
    <3>2. d \in 0 .. SetSize /\ d <= Len(s)
      BY <1>1, <2>1
    <3>3. d \in 0 .. Len(s)
      BY <1>3, <3>1, <3>2
    <3>4. cache'[u] = c \o a
      BY <1>1, <2>1
    <3>5. chan'[p][u] = b
      BY <1>1, <1>3, <2>1
    <3> QED
      BY <3>1, <3>3, <3>4, <3>5
  <2>3. /\ \A l \in 1 .. Len(s) : OfSet(i, s[l]) <=> l <= d
        /\ \A l \in 1 .. Len(s) : s[l].from = p
    BY <1>1, <2>1, <2>2 DEF ChanFor
  <2>4. /\ Sent(p, j, k) <=> \E l \in 1 .. Len(s) : s[l] = Data(p, j, k)
        /\ Sent(p, i, k) <=> \E l \in 1 .. Len(s) : s[l] = Data(p, i, k)
        /\ Sent(p, j, k)' <=> \E l \in 1 .. Len(b) : b[l] = Data(p, j, k)
    BY <1>f, <2>2 DEF Sent
  <2>5. /\ InLook(q, j, k) <=> << q, j, k >> \in taken \/ \E l \in 1 .. lim : c[l] = Data(q, j, k)
        /\ InLook(q, j, k)' <=> << q, j, k >> \in taken \/ \E l \in 1 .. lim : (c \o a)[l] = Data(q, j, k)
        /\ Beyond(q, j, k) <=> \E l \in lim + 1 .. Len(c) : c[l] = Data(q, j, k)
        /\ Beyond(q, j, k)' <=> \E l \in lim + 1 .. Len(c \o a) : (c \o a)[l] = Data(q, j, k)
    BY <1>f, <1>2, <2>2 DEF InLook, Beyond
  <2> HIDE DEF c, s, d, lim
  <2>6. /\ a \in Seq(S) /\ Len(a) = d /\ \A l \in 1 .. d : a[l] = s[l]
        /\ b \in Seq(S) /\ Len(b) = Len(s) - d
        /\ \A l \in 1 .. Len(s) - d : b[l] = s[d + l]
        /\ Len(s) \in Nat /\ d \in Nat /\ d <= Len(s) /\ Len(c) \in Nat
    <3>1. Len(s) \in Nat /\ d \in Nat /\ d <= Len(s) /\ Len(c) \in Nat
      BY <2>2
    <3>2. s \in Seq(S) /\ d \in 0 .. Len(s)
      BY <2>2
    <3>3. /\ a \in Seq(S) /\ Len(a) = d /\ \A l \in 1 .. d : a[l] = s[l]
          /\ b \in Seq(S) /\ Len(b) = Len(s) - d
          /\ \A l \in 1 .. Len(s) - d : b[l] = s[d + l]
      BY <3>2, Divided
    <3> QED
      BY <3>1, <3>3
  <2> HIDE DEF a, b
  <2>7. /\ Len(c \o a) = Len(c) + d
        /\ \A l \in 1 .. Len(c) + d : (c \o a)[l] = IF l <= Len(c) THEN c[l] ELSE a[l - Len(c)]
    <3>1. c \in Seq(C) /\ a \in Seq(S)
      BY <2>2, <2>6
    <3>2. /\ Len(c \o a) = Len(c) + Len(a)
          /\ \A l \in 1 .. Len(c) + Len(a) : (c \o a)[l] = IF l <= Len(c) THEN c[l] ELSE a[l - Len(c)]
      BY <3>1, Joined
    <3>3. Len(a) = d
      BY <2>6
    <3> QED
      BY <3>2, <3>3
  <2>8. \A l \in 1 .. Len(c) : (c \o a)[l] = c[l]
    BY <2>6, <2>7
  <2>9. \A l \in 1 .. d : (c \o a)[Len(c) + l] = s[l] /\ Len(c) + l \in lim + 1 .. Len(c \o a)
    BY <2>2, <2>6, <2>7
  <2>10. \A l \in lim + 1 .. Len(c \o a) :
           \/ l \in lim + 1 .. Len(c)
           \/ l - Len(c) \in 1 .. d /\ (c \o a)[l] = s[l - Len(c)]
    BY <2>2, <2>6, <2>7
  <2>11. InLook(q, j, k)' <=> InLook(q, j, k)
    <3>1. \A l \in 1 .. lim : (c \o a)[l] = c[l]
      BY <2>2, <2>6, <2>8
    <3> QED
      BY <2>5, <3>1
  <2>12. \A l \in lim + 1 .. Len(c) : l \in lim + 1 .. Len(c \o a) /\ (c \o a)[l] = c[l]
    BY <2>2, <2>6, <2>7, <2>8
  <2>13. ASSUME Beyond(q, j, k)' PROVE Beyond(q, j, k) \/ (q = p /\ j = i /\ Sent(p, i, k))
    <3>1. PICK l \in lim + 1 .. Len(c \o a) : (c \o a)[l] = Data(q, j, k)
      BY <2>5, <2>13
    <3>2. CASE l \in lim + 1 .. Len(c)
      BY <2>5, <2>12, <3>1, <3>2
    <3>3. CASE l - Len(c) \in 1 .. d /\ s[l - Len(c)] = Data(q, j, k)
      <4>1. l - Len(c) \in 1 .. Len(s) /\ l - Len(c) <= d
        BY <2>6, <3>3
      <4>2. OfSet(i, Data(q, j, k)) /\ Data(q, j, k).from = p
        BY <2>3, <3>3, <4>1
      <4>3. q = p /\ j = i
        BY <4>2, Distinct DEF OfSet
      <4> QED
        BY <2>4, <3>3, <4>1, <4>3
    <3> QED
      BY <2>10, <3>1, <3>2, <3>3
  <2>14. ASSUME Beyond(q, j, k) PROVE Beyond(q, j, k)'
    BY <2>5, <2>12, <2>14
  <2>15. ASSUME q = p, j = i, Sent(p, i, k) PROVE Beyond(q, j, k)'
    <3>1. PICK l \in 1 .. Len(s) : s[l] = Data(p, i, k)
      BY <2>4, <2>15
    <3>2. l \in 1 .. d
      <4>1. OfSet(i, s[l])
        BY <3>1, Distinct DEF OfSet
      <4>2. l <= d
        BY <2>3, <4>1
      <4> QED
        BY <2>6, <4>2
    <3>3. (c \o a)[Len(c) + l] = Data(q, j, k) /\ Len(c) + l \in lim + 1 .. Len(c \o a)
      BY <2>9, <2>15, <3>1, <3>2
    <3> QED
      BY <2>5, <3>3
  <2>16. ASSUME Sent(p, j, k)' PROVE Sent(p, j, k) /\ j # i
    <3>1. PICK l \in 1 .. Len(b) : b[l] = Data(p, j, k)
      BY <2>4, <2>16
    <3>2. d + l \in 1 .. Len(s) /\ s[d + l] = Data(p, j, k) /\ ~(d + l <= d)
      BY <2>6, <3>1
    <3>3. ~OfSet(i, Data(p, j, k))
      BY <2>3, <3>2
    <3>4. j # i
      BY <3>3, Distinct DEF OfSet
    <3> QED
      BY <2>4, <3>2, <3>4
  <2>17. ASSUME Sent(p, j, k), j # i PROVE Sent(p, j, k)'
    <3>1. PICK l \in 1 .. Len(s) : s[l] = Data(p, j, k)
      BY <2>4, <2>17
    <3>2. ~(l <= d)
      BY <2>3, <2>17, <3>1, Distinct DEF OfSet
    <3>3. l - d \in 1 .. Len(b) /\ b[l - d] = Data(p, j, k)
      BY <2>6, <3>1, <3>2
    <3> QED
      BY <2>4, <3>3
  <2> QED
    BY <2>11, <2>13, <2>14, <2>15, <2>16, <2>17
<1>5. SentFor(p)'
  <2>1. ASSUME NEW j \in 1 .. NumIterations
        PROVE  /\ j <= ended[p] => \A k, l \in 1 .. SetSize : Sent(p, j, k)' => Sent(p, j, l)'
               /\ ppc[p] \in {"loop", "write"} /\ j > ended[p] =>
                    \A k \in 1 .. SetSize : Sent(p, j, k)' <=> j = ended[p] + 1 /\ k < place[p]
    <3>1. j > ended[p] => j # i
      BY <1>3, <1>i
    <3> QED
      BY <1>4, <3>1 DEF SentFor
  <2> QED
    BY <1>f, <1>2, <2>1 DEF SentFor, PubIsOver
<1>6. ASSUME NEW q \in Publishers, LookFor(q) PROVE LookFor(q)'
  <2>1. \A k, l \in 1 .. SetSize : Sent(p, i, k) => Sent(p, i, l)
    BY <1>i DEF SentFor
  <2>2. ASSUME NEW j \in 1 .. NumIterations, NEW k \in 1 .. SetSize, NEW l \in 1 .. SetSize
        PROVE  (InLook(q, j, k)' => InLook(q, j, l)') /\ (Beyond(q, j, k)' => Beyond(q, j, l)')
    <3>1. (InLook(q, j, k) => InLook(q, j, l)) /\ (Beyond(q, j, k) => Beyond(q, j, l))
      BY <1>6 DEF LookFor
    <3> QED
      BY <1>4, <2>1, <3>1
  <2> QED
    BY <1>f, <2>2 DEF LookFor
<1> QED
  BY <1>5, <1>6
-----------------------------------------------------------------------------
\* Taking the first sample of the look moves it into what has been taken.
LEMMA LookTaken ==
    ASSUME TypeInd, AllGenuine, opts' = opts, limit[topic] > 0, TakeHead,
           LET m == Head(cache[topic])
           IN  \/ m.kind = "data" /\ taken' = taken \cup {<< m.from, m.set, m.place >>}
               \/ m.kind # "data" /\ UNCHANGED taken
    PROVE  \A p \in Publishers : LookFor(p) => LookFor(p)'
<1>f. /\ UNCHANGED << NumIterations, SetSize, Topics >> /\ \A k : TopicOf(k)' = TopicOf(k)
      /\ \A q, i, k : Data(q, i, k)' = Data(q, i, k)
  BY Fixed
<1> DEFINE C == Samples \cup Notices
           t == topic
           m == Head(cache[t])
           c == cache[t]
           d == cache'[t]
           lim == limit[t]
<1>0. /\ cache \in [Topics -> Seq(C)] /\ limit \in [Topics -> Nat] /\ t \in Topics
      /\ lim <= Len(c) /\ lim \in Nat /\ lim > 0
  BY DEF TypeInd, NetTypes, SubTypes
<1>1. /\ \/ m.kind = "data" /\ taken' = taken \cup {<< m.from, m.set, m.place >>}
         \/ m.kind # "data" /\ UNCHANGED taken
      /\ cache' = [cache EXCEPT ![t] = Tail(c)]
      /\ limit' = [limit EXCEPT ![t] = IF lim > 0 THEN lim - 1 ELSE 0]
  BY DEF TakeHead
<1>2. /\ d = Tail(c) /\ limit'[t] = lim - 1
      /\ \A u \in Topics : u # t => cache'[u] = cache[u] /\ limit'[u] = limit[u]
  BY <1>0, <1>1
<1>3. c \in Seq(C) /\ c # << >>
  BY <1>0, EmptySeq
<1> HIDE DEF C, c
<1>4. /\ Len(d) = Len(c) - 1 /\ Len(c) \in Nat /\ \A j \in 1 .. Len(c) - 1 : d[j] = c[j + 1]
      /\ Head(c) = c[1]
  BY <1>2, <1>3, Behead
<1>5. m = c[1] /\ 1 \in 1 .. Len(c)
  BY <1>0, <1>4 DEF c
<1>6. m.kind = "data" => m = Data(m.from, m.set, m.place) /\ TopicOf(m.place) = t
  BY <1>0, <1>5 DEF AllGenuine, Genuine, c
<1> HIDE DEF m, d, lim, t
<1>7. /\ \A j \in 1 .. lim : j = 1 \/ (j - 1 \in 1 .. lim - 1 /\ d[j - 1] = c[j])
      /\ \A j \in 1 .. lim - 1 : j + 1 \in 1 .. lim /\ d[j] = c[j + 1]
      /\ \A j \in lim + 1 .. Len(c) : j - 1 \in (lim - 1) + 1 .. Len(d) /\ d[j - 1] = c[j]
      /\ \A j \in (lim - 1) + 1 .. Len(d) : j + 1 \in lim + 1 .. Len(c) /\ d[j] = c[j + 1]
      /\ 1 \in 1 .. lim
  BY <1>0, <1>4
<1>8. ASSUME NEW p \in Publishers, NEW i \in 1 .. NumIterations, NEW k \in 1 .. SetSize
      PROVE  (InLook(p, i, k)' <=> InLook(p, i, k)) /\ (Beyond(p, i, k)' <=> Beyond(p, i, k))
  <2> DEFINE x == << p, i, k >>
             e == Data(p, i, k)
             u == TopicOf(k)
  <2>1. u \in Topics
    BY SamplePlaces DEF TypeInd
  <2>2. /\ m = e => m.kind = "data" /\ << m.from, m.set, m.place >> = x
        /\ m.kind = "data" /\ << m.from, m.set, m.place >> = x => m = e /\ u = t
    BY <1>6, Distinct
  <2>3. /\ x \in taken => x \in taken'
        /\ m = e => x \in taken'
        /\ x \in taken' => x \in taken \/ (m = e /\ u = t)
    BY <1>1, <2>2
  <2>4. CASE u # t
    <3>1. cache'[u] = cache[u] /\ limit'[u] = limit[u]
      BY <1>2, <2>1, <2>4
    <3>2. x \in taken' <=> x \in taken
      BY <2>3, <2>4
    <3> QED
      BY <1>f, <3>1, <3>2 DEF InLook, Beyond
  <2>5. CASE u = t
    <3>1. /\ InLook(p, i, k) <=> x \in taken \/ \E j \in 1 .. lim : c[j] = e
          /\ Beyond(p, i, k) <=> \E j \in lim + 1 .. Len(c) : c[j] = e
      BY <2>5 DEF InLook, Beyond, c, lim
    <3>2. /\ InLook(p, i, k)' <=> x \in taken' \/ \E j \in 1 .. lim - 1 : d[j] = e
          /\ Beyond(p, i, k)' <=> \E j \in (lim - 1) + 1 .. Len(d) : d[j] = e
      <4>1. /\ TopicOf(k)' = t /\ Data(p, i, k)' = e
            /\ limit'[t] = lim - 1 /\ cache'[t] = d
        BY <1>f, <1>2, <2>5 DEF d
      <4> HIDE DEF u, e
      <4> QED
        BY <4>1 DEF InLook, Beyond
    <3> HIDE DEF x, e, u
    <3>3. (\E j \in 1 .. lim : c[j] = e) => m = e \/ \E j \in 1 .. lim - 1 : d[j] = e
      <4> SUFFICES ASSUME NEW j \in 1 .. lim, c[j] = e, m # e
                   PROVE  \E l \in 1 .. lim - 1 : d[l] = e
        OBVIOUS
      <4>1. j - 1 \in 1 .. lim - 1 /\ d[j - 1] = e
        BY <1>5, <1>7
      <4> QED
        BY <4>1
    <3>4. (\E j \in 1 .. lim - 1 : d[j] = e) => \E j \in 1 .. lim : c[j] = e
      <4> SUFFICES ASSUME NEW j \in 1 .. lim - 1, d[j] = e PROVE \E l \in 1 .. lim : c[l] = e
        OBVIOUS
      <4>1. j + 1 \in 1 .. lim /\ c[j + 1] = e
        BY <1>7
      <4> QED
        BY <4>1
    <3>5. m = e => \E j \in 1 .. lim : c[j] = e
      BY <1>5, <1>7
    <3>6. (\E j \in lim + 1 .. Len(c) : c[j] = e) => \E j \in (lim - 1) + 1 .. Len(d) : d[j] = e
      <4> SUFFICES ASSUME NEW j \in lim + 1 .. Len(c), c[j] = e
                   PROVE  \E l \in (lim - 1) + 1 .. Len(d) : d[l] = e
        OBVIOUS
      <4>1. j - 1 \in (lim - 1) + 1 .. Len(d) /\ d[j - 1] = e
        BY <1>7
      <4> QED
        BY <4>1
    <3>7. (\E j \in (lim - 1) + 1 .. Len(d) : d[j] = e) => \E j \in lim + 1 .. Len(c) : c[j] = e
      <4> SUFFICES ASSUME NEW j \in (lim - 1) + 1 .. Len(d), d[j] = e
                   PROVE  \E l \in lim + 1 .. Len(c) : c[l] = e
        OBVIOUS
      <4>1. j + 1 \in lim + 1 .. Len(c) /\ c[j + 1] = e
        BY <1>7
      <4> QED
        BY <4>1
    <3> QED
      BY <2>3, <3>1, <3>2, <3>3, <3>4, <3>5, <3>6, <3>7
  <2> QED
    BY <2>4, <2>5
<1> QED
  BY <1>f, <1>8 DEF LookFor

\* The subscriber's steps and its look.
LEMMA LookSub ==
    ASSUME TypeInd, AllGenuine, opts' = opts, coherent, SubStep, ~SubIsOver',
           LookPlace, \A p \in Publishers : LookFor(p)
    PROVE  LookPlace' /\ \A p \in Publishers : LookFor(p)'
<1>f. /\ UNCHANGED << NumIterations, SetSize, Topics, NumTopics, coherent >>
      /\ \A k : TopicOf(k)' = TopicOf(k)
      /\ \A q, i, k : Data(q, i, k)' = Data(q, i, k)
  BY Fixed
<1>0. /\ topic \in Topics /\ limit \in [Topics -> Nat] /\ NumTopics \in Nat \ {0}
      /\ \A t \in Topics : Len(cache[t]) \in Nat
      /\ \A k \in 1 .. SetSize : TopicOf(k) \in Topics
  BY Sizes, SamplePlaces DEF TypeInd, NetTypes, SubTypes
<1>1. CASE SubBegin
  <2>1. /\ spc = "loop" /\ spc' = "read" /\ topic' = 1 /\ taken' = {} /\ taken = {}
        /\ limit' = [t \in Topics |-> Len(cache[t])] /\ UNCHANGED cache
        /\ \A t \in Topics : limit[t] = 0
    BY <1>1 DEF SubBegin, LookPlace, readerVars, gated
  <2>2. LookPlace'
    <3>1. \A t \in Topics : ~(t < 1)
      BY <1>0 DEF Topics
    <3> QED
      BY <1>f, <2>1, <3>1 DEF LookPlace
  <2>3. ASSUME NEW p \in Publishers, NEW i \in 1 .. NumIterations, NEW k \in 1 .. SetSize
        PROVE  (InLook(p, i, k)' <=> Beyond(p, i, k)) /\ ~Beyond(p, i, k)'
    <3> DEFINE u == TopicOf(k)
    <3>1. u \in Topics /\ limit[u] = 0 /\ limit'[u] = Len(cache[u]) /\ Len(cache[u]) \in Nat
      BY <1>0, <2>1
    <3>2. Beyond(p, i, k) <=> \E j \in 1 .. Len(cache[u]) : cache[u][j] = Data(p, i, k)
      BY <3>1 DEF Beyond
    <3>3. InLook(p, i, k)' <=> \E j \in 1 .. Len(cache[u]) : cache[u][j] = Data(p, i, k)
      BY <1>f, <2>1, <3>1 DEF InLook
    <3>4. ~Beyond(p, i, k)'
      <4>1. \A j \in Len(cache[u]) + 1 .. Len(cache[u]) : FALSE
        BY <3>1
      <4> QED
        BY <1>f, <2>1, <3>1, <4>1 DEF Beyond
    <3> QED
      BY <3>2, <3>3, <3>4
  <2> QED
    BY <1>f, <2>2, <2>3 DEF LookFor
<1>2. CASE SubTakeData
  <2>1. /\ spc = "read" /\ Visible(topic) > 0 /\ TakeHead /\ UNCHANGED topic
        /\ Head(cache[topic]).kind = "data"
        /\ \/ spc' = "failed"
           \/ /\ UNCHANGED spc
              /\ taken' = taken \cup {<< Head(cache[topic]).from, Head(cache[topic]).set, Head(cache[topic]).place >>}
    BY <1>2 DEF SubTakeData
  <2>2. limit[topic] > 0
    BY <2>1 DEF Visible, gated
  <2>3. /\ UNCHANGED spc
        /\ taken' = taken \cup {<< Head(cache[topic]).from, Head(cache[topic]).set, Head(cache[topic]).place >>}
    BY <2>1 DEF SubIsOver
  <2>4. \A p \in Publishers : LookFor(p)'
    BY <2>1, <2>2, <2>3, LookTaken
  <2>5. \A t \in Topics : t < topic => limit'[t] = limit[t]
    <3>1. \A t \in Topics : t < topic => t # topic
      BY <1>0 DEF Topics
    <3> QED
      BY <1>0, <2>1, <3>1 DEF TakeHead
  <2>6. LookPlace'
    BY <1>f, <2>1, <2>3, <2>5 DEF LookPlace
  <2> QED
    BY <2>4, <2>6
<1>3. CASE SubTakeNotice
  <2>1. /\ spc = "read" /\ Visible(topic) > 0 /\ TakeHead /\ UNCHANGED << topic, spc, taken >>
        /\ Head(cache[topic]).kind # "data"
    BY <1>3 DEF SubTakeNotice
  <2>2. limit[topic] > 0
    BY <2>1 DEF Visible, gated
  <2>4. \A p \in Publishers : LookFor(p)'
    BY <2>1, <2>2, LookTaken
  <2>5. \A t \in Topics : t < topic => limit'[t] = limit[t]
    <3>1. \A t \in Topics : t < topic => t # topic
      BY <1>0 DEF Topics
    <3> QED
      BY <1>0, <2>1, <3>1 DEF TakeHead
  <2>6. LookPlace'
    BY <1>f, <2>1, <2>5 DEF LookPlace
  <2> QED
    BY <2>4, <2>6
<1>4. CASE SubNextTopic
  <2>1. /\ spc = "read" /\ limit[topic] = 0 /\ UNCHANGED << cache, limit, taken >>
        /\ \/ topic = NumTopics /\ spc' = "end" /\ UNCHANGED topic
           \/ topic # NumTopics /\ topic' = topic + 1 /\ UNCHANGED spc
    BY <1>4 DEF SubNextTopic, Visible, readerVars, gated
  <2>2. \A p \in Publishers : LookFor(p)'
    BY <2>1, LookStays
  <2>3. LookPlace'
    <3>1. \A t \in Topics : (topic = NumTopics \/ t < topic + 1) => t = topic \/ t < topic
      BY <1>0 DEF Topics
    <3> QED
      BY <1>f, <2>1, <3>1 DEF LookPlace
  <2> QED
    BY <2>2, <2>3
<1>5. CASE SubEnd
  <2>1. /\ spc = "end" /\ spc' = "loop" /\ taken' = {} /\ UNCHANGED cache
        /\ limit' = [t \in Topics |-> 0] /\ \A t \in Topics : limit[t] = 0
    BY <1>5 DEF SubEnd, LookPlace, readerVars
  <2>2. LookPlace'
    BY <1>f, <2>1 DEF LookPlace
  <2>3. ASSUME NEW p \in Publishers, NEW i \in 1 .. NumIterations, NEW k \in 1 .. SetSize
        PROVE  ~InLook(p, i, k)' /\ (Beyond(p, i, k)' <=> Beyond(p, i, k))
    <3>1. limit[TopicOf(k)] = 0 /\ limit'[TopicOf(k)] = 0 /\ \A j \in 1 .. 0 : FALSE
      BY <1>0, <2>1
    <3>2. ~InLook(p, i, k)'
      BY <1>f, <2>1, <3>1 DEF InLook
    <3>3. Beyond(p, i, k)' <=> Beyond(p, i, k)
      BY <1>f, <2>1, <3>1 DEF Beyond
    <3> QED
      BY <3>2, <3>3
  <2> QED
    BY <1>f, <2>2, <2>3 DEF LookFor
<1> QED
  BY <1>1, <1>2, <1>3, <1>4, <1>5 DEF SubStep

LEMMA SetNext ==
    ASSUME TypeInd, ChanOrder, AllGenuine, SetInv, [Next]_vars
    PROVE  SetInv'
<1>o. opts' = opts
  BY OptionsStay
<1>f. UNCHANGED << coherent, together, Topics, NumIterations, SetSize >>
  BY <1>o, Fixed
<1>s. ~SubIsOver' => ~SubIsOver \/ ~(SubStep \/ SubStop)
  BY DEF SubIsOver, SubStep, SubBegin, SubTakeData, SubTakeNotice, SubNextTopic, SubEnd, SubStop
<1> DEFINE Holds == LookPlace' /\ \A p \in Publishers : SentFor(p)' /\ LookFor(p)'
<1> SUFFICES ASSUME coherent, together, ~SubIsOver' PROVE Holds
  BY <1>f DEF SetInv
<1>h. ASSUME ~SubIsOver PROVE LookPlace /\ \A p \in Publishers : SentFor(p) /\ LookFor(p)
  BY <1>h DEF SetInv
<1>l. ASSUME LookPlace, UNCHANGED << spc, topic, limit, taken >> PROVE LookPlace'
  BY <1>f, <1>l DEF LookPlace
<1>1. CASE UNCHANGED vars
  <2>1. /\ ~SubIsOver /\ UNCHANGED << cache, spc, topic, limit, taken >>
        /\ \A p \in Publishers : ViewKept(p)
    BY <1>1 DEF vars, subVars, readerVars, pubVars, ViewKept, SubIsOver
  <2> QED
    BY <1>o, <1>h, <1>l, <2>1, LookStays, SentStays
<1>2. CASE SubStep \/ SubStop
  <2>1. SubStep /\ ~SubIsOver
    BY <1>s, <1>2 DEF SubStop, SubIsOver
  <2> QED
    BY <1>o, <1>h, <1>2, <2>1, LookSub, SubView, SentStays
<1>3. CASE SubDepart
  BY <1>3 DEF SubDepart, SubIsOver, subVars
<1>4. ASSUME NEW p \in Publishers, PubInterrupt(p) PROVE Holds
  <2>1. /\ ~SubIsOver /\ UNCHANGED << cache, spc, topic, limit, taken >>
        /\ \A q \in Publishers : ViewKept(q)
    BY <1>4 DEF PubInterrupt, subVars, readerVars, pubVars, ViewKept, SubIsOver
  <2> QED
    BY <1>o, <1>h, <1>l, <2>1, LookStays, SentStays
<1>5. ASSUME NEW p \in Publishers, PubActs(p) PROVE Holds
  <2>1. ~SubIsOver /\ UNCHANGED << cache, spc, topic, limit, taken >>
    BY <1>5, PubStepChan DEF subVars, readerVars, SubIsOver
  <2>2. \A q \in Publishers : SentFor(q)'
    BY <1>o, <1>h, <1>5, <2>1, SentPub, PubOthers, SentStays
  <2> QED
    BY <1>o, <1>h, <1>l, <2>1, <2>2, LookStays
<1>6. ASSUME NEW p \in Publishers, Match(p) PROVE Holds
  <2>1. ~SubIsOver /\ UNCHANGED << chan, ppc, place, printed, ended, cache, spc, topic, limit, taken >>
    BY <1>6 DEF Match, pubVars, subVars, readerVars, SubIsOver
  <2>2. \A q \in Publishers : matched'[q] = IF q = p THEN Topics ELSE matched[q]
    BY <1>6 DEF Match, TypeInd, NetTypes
  <2>3. ASSUME NEW q \in Publishers PROVE SentFor(q)'
    <3>1. /\ \A k : TopicOf(k)' = TopicOf(k)
          /\ \A i, k : Data(q, i, k)' = Data(q, i, k)
      BY <1>o, Fixed
    <3>2. \A i, k : Sent(q, i, k)' <=> Sent(q, i, k)
      BY <2>1, <3>1 DEF Sent
    <3>3. SentFor(q)
      BY <1>h, <2>1
    <3>4. matched'[q] = Topics \/ matched'[q] = matched[q]
      BY <2>2
    <3> QED
      BY <1>f, <2>1, <3>2, <3>3, <3>4 DEF SentFor, PubIsOver
  <2> QED
    BY <1>o, <1>h, <1>l, <2>1, <2>3, LookStays
<1>7. ASSUME NEW p \in Publishers, Deliver(p) PROVE Holds
  <2>1. ~SubIsOver /\ UNCHANGED << spc, topic, limit, taken >>
    BY <1>7, Delivery DEF subVars, SubIsOver
  <2>2. \A q \in Publishers : q # p => SentFor(q)'
    BY <1>o, <1>h, <1>7, <2>1, Delivery, SentStays
  <2>3. CASE DeliverSet(p)
    BY <1>o, <1>h, <1>l, <2>1, <2>2, <2>3, SetArrives DEF ChanOrder
  <2>4. ASSUME NEW t \in Topics, DeliverFinal(p, t) PROVE Holds
    <3>1. SentFor(p)'
      BY <1>o, <1>h, <2>1, <2>4, SentFinal
    <3>2. \E key \in BOOLEAN :
            \/ UNCHANGED cache
            \/ cache' = [cache EXCEPT ![t] = Append(cache[t], NotAlive(Head(chan[p][t]).inst, key))]
      BY <2>4 DEF DeliverFinal
    <3>3. \A q \in Publishers : LookFor(q)'
      BY <1>o, <1>h, <2>1, <3>2, LookNoticed
    <3> QED
      BY <1>h, <1>l, <2>1, <2>2, <3>1, <3>3
  <2>5. ASSUME NEW t \in Topics, DeliverData(p, t) PROVE FALSE
    BY <2>5 DEF DeliverData
  <2> QED
    BY <1>7, <2>3, <2>4, <2>5 DEF Deliver
<1>8. ASSUME NEW p \in Publishers, Depart(p) PROVE Holds
  <2>1. /\ ~SubIsOver /\ UNCHANGED << ppc, place, printed, ended, cache, spc, topic, limit, taken >>
        /\ PubIsOver(p)
    BY <1>8 DEF Depart, pubVars, subVars, readerVars, SubIsOver
  <2>2. ASSUME NEW q \in Publishers, q # p PROVE SentFor(q)'
    <3>1. ViewKept(q)
      BY <1>8, <2>2 DEF Depart, ViewKept, pubVars, readerVars, TypeInd, NetTypes
    <3> QED
      BY <1>o, <1>h, <2>1, <3>1, SentStays
  <2>3. SentFor(p)'
    <3>1. /\ matched'[p] = {} /\ \A t \in Topics : chan'[p][t] = << >>
          /\ PubIsOver(p)' /\ ppc'[p] \notin {"loop", "write"}
      BY <1>8, <2>1 DEF Depart, PubIsOver, TypeInd, NetTypes
    <3>2. ASSUME NEW i \in 1 .. NumIterations, NEW k \in 1 .. SetSize PROVE ~Sent(p, i, k)'
      <4>1. TopicOf(k)' = TopicOf(k) /\ TopicOf(k) \in Topics
        BY <1>o, Fixed, SamplePlaces DEF TypeInd
      <4>2. Len(chan'[p][TopicOf(k)]) = 0
        BY <3>1, <4>1, EmptySeq
      <4> QED
        BY <4>1, <4>2 DEF Sent
    <3> QED
      BY <1>f, <3>1, <3>2 DEF SentFor
  <2> QED
    BY <1>o, <1>h, <1>l, <2>1, <2>2, <2>3, LookStays
<1>9. ASSUME NEW p \in Publishers, NEW t \in Topics, NEW x \in Instances, Orphan(p, t, x)
      PROVE  Holds
  <2>1. /\ ~SubIsOver /\ UNCHANGED << ppc, place, printed, ended, matched, chan >>
        /\ UNCHANGED << spc, topic, limit, taken >>
        /\ UNCHANGED cache \/ cache' = [cache EXCEPT ![t] = Append(cache[t], NotAlive(x, FALSE))]
    BY <1>9 DEF Orphan, pubVars, subVars, SubIsOver
  <2>2. \A q \in Publishers : LookFor(q)'
    BY <1>o, <1>h, <2>1, LookNoticed
  <2>3. ASSUME NEW q \in Publishers PROVE SentFor(q)'
    <3>1. /\ \A k : TopicOf(k)' = TopicOf(k)
          /\ \A i, k : Data(q, i, k)' = Data(q, i, k)
      BY <1>o, Fixed
    <3>2. \A i, k : Sent(q, i, k)' <=> Sent(q, i, k)
      BY <2>1, <3>1 DEF Sent
    <3>3. SentFor(q)
      BY <1>h, <2>1
    <3> QED
      BY <1>f, <2>1, <3>2, <3>3 DEF SentFor, PubIsOver
  <2> QED
    BY <1>h, <1>l, <2>1, <2>2, <2>3
<1> QED
  BY <1>1, <1>2, <1>3, <1>4, <1>5, <1>6, <1>7, <1>8, <1>9 DEF Next, PubActs

LEMMA AlwaysInSets == Spec => [](AllGenuine /\ SetInv)
<1>1. Init => AllGenuine /\ SetInv
  <2> SUFFICES ASSUME Init PROVE AllGenuine /\ SetInv
    OBVIOUS
  <2>1. /\ SetSize \in Nat \ {0} /\ NumIterations \in Nat
        /\ \A k \in 1 .. SetSize : TopicOf(k) \in Topics
    BY Sizes, SamplePlaces DEF Init
  <2>2. /\ \A p \in Publishers, t \in Topics : Len(chan[p][t]) = 0
        /\ \A t \in Topics : Len(cache[t]) = 0 /\ limit[t] = 0
        /\ spc = "loop" /\ taken = {}
    BY EmptySeq DEF Init
  <2>3. AllGenuine
    BY <2>2 DEF AllGenuine
  <2>4. LookPlace
    BY <2>2 DEF LookPlace
  <2>5. ASSUME NEW p \in Publishers, NEW i \in 1 .. NumIterations, NEW k \in 1 .. SetSize
        PROVE  ~Sent(p, i, k) /\ ~InLook(p, i, k) /\ ~Beyond(p, i, k)
    BY <2>1, <2>2 DEF Sent, InLook, Beyond
  <2>6. \A p \in Publishers : LookFor(p)
    BY <2>5 DEF LookFor
  <2>7. ASSUME NEW p \in Publishers PROVE SentFor(p)
    <3>1. /\ matched[p] = {} /\ ppc[p] # "write" /\ ~printed[p] /\ place[p] = 1 /\ ended[p] = 0
      BY DEF Init
    <3>2. \A k \in 1 .. SetSize : ~(k < 1)
      OBVIOUS
    <3> QED
      BY <2>5, <3>1, <3>2 DEF SentFor
  <2> QED
    BY <2>3, <2>4, <2>6, <2>7 DEF SetInv
<1>2. TypeInd /\ ChanOrder /\ AllGenuine /\ SetInv /\ [Next]_vars => (AllGenuine /\ SetInv)'
  BY GenuineNext, SetNext
<1>3. Spec => [](TypeInd /\ ChanOrder)
  BY AlwaysTyped, AlwaysOrdered, PTL
<1> QED
  BY <1>1, <1>2, <1>3, PTL DEF Spec

\* Where the readers of all topics match at one instant, what the subscriber takes
\* of an iteration between begin_access and end_access is the whole coherent set, on
\* all topics, or nothing of it.
THEOREM SetsArriveWhole == Spec => []SetsWhole
<1>1. ASSUME TypeInd, SetInv PROVE SetsWhole
  <2> SUFFICES ASSUME spc = "end", coherent, together,
                      NEW p \in Publishers, NEW i \in 1 .. NumIterations
               PROVE  LET places == {k \in 1 .. SetSize : << p, i, k >> \in taken}
                      IN  places = {} \/ places = 1 .. SetSize
    BY DEF SetsWhole
  <2>1. LookPlace /\ LookFor(p)
    BY <1>1 DEF SetInv, SubIsOver
  <2>2. ASSUME NEW k \in 1 .. SetSize PROVE InLook(p, i, k) <=> << p, i, k >> \in taken
    <3>1. TopicOf(k) \in Topics
      BY <1>1, SamplePlaces DEF TypeInd
    <3>2. limit[TopicOf(k)] = 0
      BY <2>1, <3>1 DEF LookPlace
    <3> QED
      BY <3>2 DEF InLook
  <2>3. \A k, l \in 1 .. SetSize : << p, i, k >> \in taken => << p, i, l >> \in taken
    BY <2>1, <2>2 DEF LookFor
  <2> QED
    BY <2>3
<1> QED
  BY <1>1, AlwaysTyped, AlwaysInSets, PTL
=============================================================================
