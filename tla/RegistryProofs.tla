--------------------------- MODULE RegistryProofs ---------------------------
(***************************************************************************)
(* Proofs about Registry, for every choice of ports.  IInv is the          *)
(* inductive invariant: what the programs have done, what a departure      *)
(* means, what the reader's cache may hold of each instance, what an       *)
(* instance's end says about the changes that have come, and what the two  *)
(* threads of the subscriber know of each other.                           *)
(***************************************************************************)
EXTENDS Registry, SequenceTheorems, TLAPS

\* The entries of a cache that are changes of the publisher.
ChangesIn(s) ==
    IF s # << >> /\ s[Len(s)] = "lost" THEN Len(s) - 1 ELSE Len(s)

\* What has been written at each step of the publisher.
WrittenSoFar ==
    /\ pubPc \in {"create", "attach", "awaitReady"} => written = 0
    /\ pubPc = "publish" => written < Total
    /\ pubPc \in {"keyValue", "drain", "drainCount", "done"} => written = Total
    /\ arrived =< written

\* What the publisher's flags say about the reader.
Departures ==
    /\ link = "gone" \/ "unmatched" \in events \/ pubCb = "unmatchCount" => ReaderGone
    /\ pubCb = "matchEver" => matchedCount = 1
    /\ everMatched /\ matchedCount = 0 => ReaderGone
    /\ pubPc = "drainCount" => everMatched
    /\ pubPc = "done" => ReaderGone

\* What has arrived of each instance, and the state it is in then.
Lives ==
    /\ arrived >= 1 => current[1] # "none"
    /\ arrived >= 3 => current[1] = "disposed"
    /\ arrived < 4  => current[2] = "none" /\ cache[2] = << >>
    /\ arrived >= 4 => current[2] # "none"
    /\ arrived >= 5 => current[2] = "noWriters"
    /\ arrived < 6  => current[3] = "none" /\ cache[3] = << >>
    /\ ChangesIn(cache[3]) =< 1

\* What a cache entry says about its instance; the last entry of a life, and the
\* notice that the writer is lost, come last.
Held ==
    \A i \in Sensors : \A j \in 1 .. Len(cache[i]) :
        /\ cache[i][j] = "disposed"  => i = 1 /\ j = Len(cache[i]) /\ arrived >= 3
        /\ cache[i][j] = "noWriters" => i = 2 /\ j = Len(cache[i]) /\ arrived >= 5
        /\ cache[i][j] = "lost" => /\ j = Len(cache[i]) /\ ~PubRuns
                                   /\ current[i] # "alive"
                                   /\ i = 2 => arrived = 4

\* What has arrived has been taken or is in a cache.
Counted ==
    /\ taken + ChangesIn(cache[1]) + ChangesIn(cache[2]) + ChangesIn(cache[3]) = arrived
    /\ taken =< arrived

\* An instance's first sample is alive: whatever comes later finds it seen.
Seen ==
    env.stamped => \A i \in Sensors :
        /\ cache[i] = << >> /\ current[i] # "none" => i \in seenAlive
        /\ cache[i] # << >> /\ cache[i][1] # "alive" => i \in seenAlive

\* What the end of an instance says.
Ended ==
    /\ 3 \in terminal => arrived = 6
    /\ env.stamped =>
        /\ 1 \in terminal => arrived >= 3 /\ cache[1] = << >>
        /\ 2 \in terminal => \/ arrived >= 5 /\ cache[2] = << >>
                             \/ arrived = 4 /\ ~PubRuns
        /\ 3 \in terminal => ChangesIn(cache[3]) = 0

\* What the callback and main know of the completion.
Decided ==
    /\ allDone \/ becameDone => terminal = Sensors
    /\ allDone /\ becameDone => subCb = "idle"
    /\ subCb = "idle" /\ becameDone => allDone
    /\ lookups > 0 <=> allDone \/ becameDone
    /\ subPc \in {"delete", "leave", "ok"} => allDone
    /\ subPc = "leave" => env.sub # "java"

IInv ==
    /\ TypeOK
    /\ WrittenSoFar
    /\ Departures
    /\ Lives
    /\ Held
    /\ Counted
    /\ Seen
    /\ Ended
    /\ Decided
    /\ RegistryInv
    /\ NoFalseAlarm

-----------------------------------------------------------------------------
\* Where each step of a publisher's main program leads: the ports agree.
LEMMA PublisherSteps ==
    ASSUME NEW p \in Ports
    PROVE  /\ PublisherProgram[p]["create"] = "attach"
           /\ PublisherProgram[p]["attach"] = "awaitReady"
           /\ PublisherProgram[p]["awaitReady"] = "publish"
           /\ PublisherProgram[p]["publish"] = "keyValue"
           /\ PublisherProgram[p]["keyValue"] = "drain"
           /\ PublisherProgram[p]["drain"] = "done"
  BY DEF Ports, PublisherProgram, CppPublisher, CPublisher, ZigPublisher, JavaPublisher

\* Where each step of a subscriber's main program leads.
LEMMA SubscriberSteps ==
    ASSUME NEW p \in Ports
    PROVE  /\ SubscriberProgram[p]["create"] = "attach"
           /\ SubscriberProgram[p]["attach"] = "await"
           /\ SubscriberProgram[p]["await"] = "delete"
           /\ SubscriberProgram[p]["delete"] = IF p = "java" THEN "ok" ELSE "leave"
           /\ p # "java" => SubscriberProgram[p]["leave"] = "ok"
  BY DEF Ports, SubscriberProgram, CppSubscriber, CSubscriber, ZigSubscriber,
         JavaSubscriber

\* The ports of a behaviour are ports.
LEMMA EnvironmentPorts ==
    ASSUME TypeOK PROVE env.pub \in Ports /\ env.sub \in Ports
  BY PortsAssumption DEF TypeOK, Environments

\* The six changes.
LEMMA TheChanges ==
    /\ Total = 6
    /\ Changes[1].sensor = 1 /\ Changes[1].state = "alive"
    /\ Changes[2].sensor = 1 /\ Changes[2].state = "alive"
    /\ Changes[3].sensor = 1 /\ Changes[3].state = "disposed"
    /\ Changes[4].sensor = 2 /\ Changes[4].state = "alive"
    /\ Changes[5].sensor = 2 /\ Changes[5].state = "noWriters"
    /\ Changes[6].sensor = 3 /\ Changes[6].state = "alive"
  BY DEF Changes, Total

\* What appending an entry does to a cache.
LEMMA Appended ==
    ASSUME NEW s \in Seq(Entries), NEW e \in Entries
    PROVE  LET r == Append(s, e)
           IN  /\ r \in Seq(Entries) /\ r # << >> /\ Len(r) = Len(s) + 1
               /\ r[Len(r)] = e
               /\ \A j \in 1 .. Len(s) : r[j] = s[j]
               /\ s = << >> => r[1] = e
               /\ s # << >> => r[1] = s[1]
  OBVIOUS

\* What taking the first entry does to a cache.
LEMMA Shortened ==
    ASSUME NEW s \in Seq(Entries), s # << >>
    PROVE  LET r == Tail(s)
           IN  /\ r \in Seq(Entries) /\ Len(s) >= 1 /\ Len(r) = Len(s) - 1
               /\ Head(s) = s[1] /\ Head(s) \in Entries
               /\ \A j \in 1 .. Len(r) : r[j] = s[j + 1]
               /\ r = << >> <=> Len(s) = 1
  <1>1. /\ Tail(s) \in Seq(Entries) /\ Len(s) \in Nat /\ Len(s) >= 1
        /\ Len(Tail(s)) = Len(s) - 1
    OBVIOUS
  <1>2. Head(s) = s[1] /\ Head(s) \in Entries
    BY <1>1
  <1>3. \A j \in 1 .. Len(Tail(s)) : Tail(s)[j] = s[j + 1]
    BY <1>1
  <1>4. Tail(s) = << >> <=> Len(s) = 1
    <2>1. Tail(s) = << >> => Len(Tail(s)) = 0
      BY EmptySeq, Zenon
    <2>2. Len(Tail(s)) = 0 => Tail(s) = << >>
      BY <1>1, EmptySeq
    <2> QED
      BY <1>1, <2>1, <2>2
  <1> QED
    BY <1>1, <1>2, <1>3, <1>4

\* Only the last entry of s may be the notice.
NoticeLast(s) == \A j \in 1 .. Len(s) : s[j] = "lost" => j = Len(s)

\* The changes in a cache are counted as they come and go.
LEMMA CountingChanges ==
    ASSUME NEW s \in Seq(Entries), NoticeLast(s)
    PROVE  /\ ChangesIn(s) \in Nat
           /\ \A e \in Entries \ {"lost"} :
                 (\A j \in 1 .. Len(s) : s[j] # "lost")
                     => ChangesIn(Append(s, e)) = ChangesIn(s) + 1
           /\ (\A j \in 1 .. Len(s) : s[j] # "lost")
                 => ChangesIn(Append(s, "lost")) = ChangesIn(s)
           /\ s # << >> =>
                 ChangesIn(Tail(s)) = ChangesIn(s) - (IF Head(s) = "lost" THEN 0 ELSE 1)
  <1>1. ChangesIn(s) \in Nat
    BY DEF ChangesIn
  <1>2. ASSUME \A j \in 1 .. Len(s) : s[j] # "lost", NEW e \in Entries \ {"lost"}
        PROVE  ChangesIn(Append(s, e)) = ChangesIn(s) + 1
    <2>1. ChangesIn(s) = Len(s)
      BY <1>2 DEF ChangesIn
    <2>2. ChangesIn(Append(s, e)) = Len(s) + 1
      BY <1>2, Appended DEF ChangesIn
    <2> QED
      BY <2>1, <2>2
  <1>3. ASSUME \A j \in 1 .. Len(s) : s[j] # "lost"
        PROVE  ChangesIn(Append(s, "lost")) = ChangesIn(s)
    <2>1. ChangesIn(s) = Len(s)
      BY <1>3 DEF ChangesIn
    <2>2. "lost" \in Entries
      BY DEF Entries
    <2>3. ChangesIn(Append(s, "lost")) = Len(s) + 1 - 1
      BY <2>2, Appended DEF ChangesIn
    <2> QED
      BY <2>1, <2>3
  <1>4. ASSUME s # << >>
        PROVE  ChangesIn(Tail(s)) = ChangesIn(s) - (IF Head(s) = "lost" THEN 0 ELSE 1)
    <2>1. CASE Len(s) = 1
      <3>1. Tail(s) = << >> /\ Head(s) = s[1]
        BY <1>4, <2>1, Shortened
      <3>2. ChangesIn(Tail(s)) = 0
        BY <3>1 DEF ChangesIn
      <3>3. CASE Head(s) = "lost"
        <4>1. ChangesIn(s) = 0
          BY <1>4, <2>1, <3>1, <3>3 DEF ChangesIn
        <4> QED
          BY <3>2, <3>3, <4>1
      <3>4. CASE Head(s) # "lost"
        <4>1. ChangesIn(s) = 1
          BY <1>4, <2>1, <3>1, <3>4 DEF ChangesIn
        <4> QED
          BY <3>2, <3>4, <4>1
      <3> QED
        BY <3>3, <3>4
    <2>2. CASE Len(s) # 1
      <3>1. /\ Len(s) >= 2 /\ Len(Tail(s)) = Len(s) - 1 /\ Tail(s) # << >>
            /\ Tail(s)[Len(Tail(s))] = s[Len(s)] /\ Head(s) = s[1]
        BY <1>4, <2>2, Shortened
      <3>2. Head(s) # "lost"
        BY <3>1 DEF NoticeLast
      <3> QED
        BY <1>4, <3>1, <3>2 DEF ChangesIn
    <2> QED
      BY <2>1, <2>2
  <1> QED
    BY <1>1, <1>2, <1>3, <1>4

\* In a reachable state the notice comes last in every cache.
LEMMA NoticesLast == ASSUME IInv, NEW i \in Sensors PROVE NoticeLast(cache[i])
  BY DEF IInv, Held, NoticeLast

-----------------------------------------------------------------------------
\* The invariant holds initially.
LEMMA InitInv == Init => IInv
  <1> SUFFICES ASSUME Init PROVE IInv
    OBVIOUS
  <1>1. TypeOK
    <2>1. /\ listening \in BOOLEAN /\ readerReady \in BOOLEAN /\ everMatched \in BOOLEAN
          /\ notified \in BOOLEAN /\ becameDone \in BOOLEAN /\ allDone \in BOOLEAN
      BY Zenon DEF Init
    <2>2. /\ cache \in [Sensors -> Seq(Entries)] /\ current \in [Sensors -> States]
          /\ written \in 0 .. Total /\ arrived \in 0 .. Total /\ taken \in 0 .. Total
      BY TheChanges DEF Init, States
    <2> QED
      BY <2>1, <2>2
         DEF Init, TypeOK, PubSteps, PubExits, SubSteps, SubExits, PubStores, Events
  <1>2. WrittenSoFar /\ Departures
    BY TheChanges DEF Init, WrittenSoFar, Departures, ReaderGone
  <1>3. Lives /\ Held /\ Counted
    BY DEF Init, Lives, Held, Counted, ChangesIn, Sensors
  <1>4. Seen /\ Ended /\ Decided
    BY DEF Init, Seen, Ended, Decided, Sensors
  <1>5. RegistryInv /\ NoFalseAlarm
    BY <1>1 DEF Init, RegistryInv, LookedUpOnce, NoFalseAlarm
  <1> QED
    BY <1>1, <1>2, <1>3, <1>4, <1>5 DEF IInv

\* A step that leaves the caches and the tracks alone, and revives no publisher,
\* keeps what is said of them.
LEMMA CachesKept ==
    ASSUME IInv, UNCHANGED << env, cacheVars, taken, seenAlive, terminal >>, PubRuns' => PubRuns
    PROVE  (Lives /\ Held /\ Counted /\ Seen /\ Ended)'
  <1>1. /\ arrived' = arrived /\ cache' = cache /\ current' = current /\ taken' = taken
        /\ seenAlive' = seenAlive /\ terminal' = terminal /\ env' = env
    BY DEF cacheVars
  <1>2. Lives' /\ Counted'
    BY <1>1 DEF IInv, Lives, Counted, ChangesIn
  <1>3. Held'
    BY <1>1 DEF IInv, Held
  <1>4. Seen'
    BY <1>1 DEF IInv, Seen
  <1>5. Ended'
    BY <1>1 DEF IInv, Ended, ChangesIn
  <1> QED
    BY <1>2, <1>3, <1>4, <1>5

\* A step that leaves the subscriber alone keeps what is said of its threads.
LEMMA SubscriberKept ==
    ASSUME IInv, UNCHANGED << env, subVars >>, pubPc = "failed" => pubPc' = "failed"
    PROVE  (Decided /\ LookedUpOnce /\ NoFalseAlarm)'
  BY DEF IInv, subVars, trackVars, Decided, RegistryInv, LookedUpOnce, NoFalseAlarm

-----------------------------------------------------------------------------
\* Every step of the publisher's main thread keeps the invariant.
LEMMA PubMainInv == ASSUME IInv, PubMain PROVE IInv'
  <1> USE TheChanges
      DEF IInv, TypeOK, PubSteps, PubExits, WrittenSoFar, Departures, ReaderGone,
          SubExits, PubNext, netVars, cacheVars, subVars, trackVars
  <1>0. env.pub \in Ports
    BY EnvironmentPorts
  <1>1. /\ TypeOK' /\ WrittenSoFar' /\ Departures'
        /\ UNCHANGED << env, cacheVars, subVars >>
        /\ pubPc \notin PubExits
    <2>1. CASE PubCreate
      BY <2>1, <1>0, PublisherSteps DEF PubCreate
    <2>2. CASE PubAttach
      BY <2>2, <1>0, PublisherSteps DEF PubAttach
    <2>3. CASE PubAwaitReady
      BY <2>3, <1>0, PublisherSteps DEF PubAwaitReady
    <2>4. CASE PubPublish
      BY <2>4, <1>0, PublisherSteps DEF PubPublish
    <2>5. CASE PubKeyValue
      BY <2>5, <1>0, PublisherSteps DEF PubKeyValue
    <2>6. CASE PubDrainEver
      BY <2>6 DEF PubDrainEver
    <2>7. CASE PubDrainCount
      BY <2>7, <1>0, PublisherSteps DEF PubDrainCount
    <2>8. CASE PubDeadline
      BY <2>8 DEF PubDeadline
    <2> QED
      BY <2>1, <2>2, <2>3, <2>4, <2>5, <2>6, <2>7, <2>8 DEF PubMain
  <1>2. (Lives /\ Held /\ Counted /\ Seen /\ Ended)'
    BY <1>1, CachesKept DEF PubRuns
  <1>3. (Decided /\ LookedUpOnce /\ NoFalseAlarm)'
    BY <1>1, SubscriberKept
  <1> QED
    BY <1>1, <1>2, <1>3 DEF RegistryInv

\* Every step of the publisher's dispatch thread keeps the invariant.
LEMMA PubListenerInv == ASSUME IInv, PubListener PROVE IInv'
  <1> USE TheChanges
      DEF IInv, TypeOK, WrittenSoFar, Departures, ReaderGone,
          SubExits, PubStores, Events, netVars, cacheVars, subVars, trackVars
  <1>1. /\ TypeOK' /\ WrittenSoFar' /\ Departures'
        /\ UNCHANGED << env, cacheVars, subVars, pubPc >>
    <2>1. CASE PubDispatch
      <3>1. PICK e \in events :
               /\ events' = events \ {e}
               /\ pubCb' = [ready |-> "readyStore", matched |-> "matchCount",
                            unmatched |-> "unmatchCount"][e]
        BY <2>1 DEF PubDispatch
      <3>2. /\ e = "ready" => pubCb' = "readyStore"
            /\ e = "matched" => pubCb' = "matchCount"
            /\ e = "unmatched" => pubCb' = "unmatchCount"
        BY <3>1
      <3> QED
        BY <2>1, <3>1, <3>2 DEF PubDispatch
    <2>2. CASE OnReliableReaderReady
      BY <2>2 DEF OnReliableReaderReady
    <2>3. CASE OnPublicationMatched
      <3>1. CASE pubCb = "matchCount"
        BY <2>3, <3>1 DEF OnPublicationMatched
      <3>2. CASE pubCb = "matchEver"
        BY <2>3, <3>2 DEF OnPublicationMatched
      <3>3. CASE pubCb = "unmatchCount"
        BY <2>3, <3>3 DEF OnPublicationMatched
      <3> QED
        BY <2>3, <3>1, <3>2, <3>3 DEF OnPublicationMatched
    <2> QED
      BY <2>1, <2>2, <2>3 DEF PubListener
  <1>2. (Lives /\ Held /\ Counted /\ Seen /\ Ended)'
    BY <1>1, CachesKept DEF PubRuns
  <1>3. (Decided /\ LookedUpOnce /\ NoFalseAlarm)'
    BY <1>1, SubscriberKept
  <1> QED
    BY <1>1, <1>2, <1>3 DEF RegistryInv

-----------------------------------------------------------------------------
\* A match, a handshake and a departure keep the invariant.
LEMMA LinkInv == ASSUME IInv, Match \/ Handshake \/ Depart PROVE IInv'
  <1> USE DEF IInv, TypeOK, WrittenSoFar, Departures, ReaderGone, SubExits, Events,
              pubVars, cacheVars, subVars, trackVars, Raise
  <1>1. /\ TypeOK' /\ WrittenSoFar' /\ Departures'
        /\ UNCHANGED << env, cacheVars, subVars, pubPc >>
    <2>1. CASE Match
      BY <2>1 DEF Match
    <2>2. CASE Handshake
      BY <2>2 DEF Handshake
    <2>3. CASE Depart
      BY <2>3 DEF Depart
    <2> QED
      BY <2>1, <2>2, <2>3
  <1>2. (Lives /\ Held /\ Counted /\ Seen /\ Ended)'
    BY <1>1, CachesKept DEF PubRuns
  <1>3. (Decided /\ LookedUpOnce /\ NoFalseAlarm)'
    BY <1>1, SubscriberKept
  <1> QED
    BY <1>1, <1>2, <1>3 DEF RegistryInv

\* The change that arrives goes to the cache of its instance, which holds no
\* notice.
LEMMA DeliverInv == ASSUME IInv, Deliver PROVE IInv'
  <1> DEFINE i == Changes[arrived + 1].sensor
             e == Changes[arrived + 1].state
  <1>1. /\ arrived \in 0 .. 5 /\ arrived' = arrived + 1 /\ arrived' =< written
        /\ cache' = [cache EXCEPT ![i] = Append(cache[i], e)]
        /\ current' = [current EXCEPT ![i] = e]
        /\ UNCHANGED << env, pubVars, link, events, subPc, subCb, taken, trackVars,
                        becameDone, allDone >>
    BY TheChanges DEF Deliver, IInv, TypeOK
  <1>2. notified' \in BOOLEAN
    BY Zenon DEF Deliver, NotifyReader, IInv, TypeOK, Attached
  <1>3. /\ arrived = 0 => i = 1 /\ e = "alive"
        /\ arrived = 1 => i = 1 /\ e = "alive"
        /\ arrived = 2 => i = 1 /\ e = "disposed"
        /\ arrived = 3 => i = 2 /\ e = "alive"
        /\ arrived = 4 => i = 2 /\ e = "noWriters"
        /\ arrived = 5 => i = 3 /\ e = "alive"
    BY TheChanges
  <1> HIDE DEF i, e
  <1>4. i \in Sensors /\ e \in Entries /\ e \in States /\ e # "lost" /\ e # "none"
    BY <1>1, <1>3 DEF Sensors, Entries, States
  <1>5. /\ cache \in [Sensors -> Seq(Entries)] /\ current \in [Sensors -> States]
        /\ cache[i] \in Seq(Entries)
    BY <1>4 DEF IInv, TypeOK
  <1>6. \A k \in Sensors : \A j \in 1 .. Len(cache[k]) : cache[k][j] # "lost"
    BY DEF IInv, Held, Deliver, WriterExists, PubRuns
  <1>7. \A j \in 1 .. Len(cache[i]) : cache[i][j] = "alive"
    <2>1. \A j \in 1 .. Len(cache[i]) : cache[i][j] \in Entries
      BY <1>5
    <2>2. \A j \in 1 .. Len(cache[i]) : cache[i][j] \notin {"disposed", "noWriters"}
      BY <1>1, <1>3, <1>4, <1>5 DEF IInv, Held
    <2> QED
      BY <1>4, <1>6, <2>1, <2>2 DEF Entries
  <1>8. /\ cache'[i] = Append(cache[i], e) /\ current'[i] = e
        /\ \A k \in Sensors \ {i} : cache'[k] = cache[k] /\ current'[k] = current[k]
    BY <1>1, <1>4, <1>5
  <1>9. /\ cache'[i] \in Seq(Entries) /\ cache'[i] # << >>
        /\ Len(cache'[i]) = Len(cache[i]) + 1 /\ Len(cache[i]) \in Nat
        /\ cache'[i][Len(cache'[i])] = e
        /\ \A j \in 1 .. Len(cache[i]) : cache'[i][j] = cache[i][j]
        /\ cache[i] = << >> => cache'[i][1] = e
        /\ cache[i] # << >> => cache'[i][1] = cache[i][1]
    BY <1>4, <1>5, <1>8, Appended
  <1>10. /\ ChangesIn(cache'[i]) = ChangesIn(cache[i]) + 1
         /\ \A k \in Sensors : ChangesIn(cache[k]) \in Nat
    <2>1. \A k \in Sensors : NoticeLast(cache[k])
      BY NoticesLast
    <2>2. \A k \in Sensors : ChangesIn(cache[k]) \in Nat
      BY <1>5, <2>1, CountingChanges
    <2>3. ChangesIn(Append(cache[i], e)) = ChangesIn(cache[i]) + 1
      BY <1>4, <1>5, <1>6, <2>1, CountingChanges
    <2> QED
      BY <1>8, <2>2, <2>3
  <1>11. TypeOK'
    <2>1. cache' \in [Sensors -> Seq(Entries)] /\ current' \in [Sensors -> States]
      BY <1>1, <1>4, <1>5, <1>8, <1>9
    <2>2. arrived' \in 0 .. Total
      BY <1>1, TheChanges
    <2> QED
      BY <1>1, <1>2, <2>1, <2>2 DEF IInv, TypeOK, pubVars, trackVars
  <1>12. WrittenSoFar' /\ Departures'
    BY <1>1 DEF IInv, WrittenSoFar, Departures, pubVars, ReaderGone
  <1>13. Lives'
    <2>1. cache[3] = << >> => ChangesIn(cache[3]) = 0
      BY EmptySeq DEF ChangesIn
    <2> QED
      BY <1>1, <1>3, <1>4, <1>8, <1>10, <2>1 DEF IInv, Lives, Sensors
  <1>14. Held'
    <2> SUFFICES ASSUME NEW k \in Sensors, NEW j \in 1 .. Len(cache'[k])
                 PROVE  /\ cache'[k][j] = "disposed"
                              => k = 1 /\ j = Len(cache'[k]) /\ arrived' >= 3
                        /\ cache'[k][j] = "noWriters"
                              => k = 2 /\ j = Len(cache'[k]) /\ arrived' >= 5
                        /\ cache'[k][j] # "lost"
      BY DEF Held
    <2>1. CASE k # i
      BY <1>1, <1>6, <1>8, <2>1 DEF IInv, Held
    <2>2. CASE k = i /\ j # Len(cache'[i])
      <3>1. j \in 1 .. Len(cache[i])
        BY <1>9, <2>2
      <3> QED
        BY <1>7, <1>9, <2>2, <3>1
    <2>3. CASE k = i /\ j = Len(cache'[i])
      BY <1>1, <1>3, <1>4, <1>9, <2>3
    <2> QED
      BY <2>1, <2>2, <2>3
  <1>15. Counted'
    <2>1. taken + ChangesIn(cache'[1]) + ChangesIn(cache'[2]) + ChangesIn(cache'[3])
             = arrived + 1
      <3>0. /\ taken \in Nat /\ arrived \in Nat
            /\ taken + ChangesIn(cache[1]) + ChangesIn(cache[2]) + ChangesIn(cache[3])
                  = arrived
            /\ ChangesIn(cache[1]) \in Nat /\ ChangesIn(cache[2]) \in Nat
            /\ ChangesIn(cache[3]) \in Nat
        BY <1>10 DEF IInv, TypeOK, Counted, Sensors
      <3>1. \A k \in Sensors : ChangesIn(cache'[k]) =
                IF k = i THEN ChangesIn(cache[k]) + 1 ELSE ChangesIn(cache[k])
        BY <1>8, <1>10
      <3>2. /\ ChangesIn(cache'[1]) = IF i = 1 THEN ChangesIn(cache[1]) + 1
                                              ELSE ChangesIn(cache[1])
            /\ ChangesIn(cache'[2]) = IF i = 2 THEN ChangesIn(cache[2]) + 1
                                              ELSE ChangesIn(cache[2])
            /\ ChangesIn(cache'[3]) = IF i = 3 THEN ChangesIn(cache[3]) + 1
                                              ELSE ChangesIn(cache[3])
        BY <3>1 DEF Sensors
      <3> QED
        BY <1>4, <3>0, <3>2 DEF Sensors
    <2>2. taken' =< arrived'
      BY <1>1 DEF IInv, TypeOK, Counted
    <2> QED
      BY <1>1, <2>1, <2>2 DEF Counted
  <1>16. Seen'
    <2>1. ASSUME env.stamped, cache[i] = << >>, e # "alive" PROVE i \in seenAlive
      <3>1. current[i] # "none"
        BY <1>1, <1>3, <2>1 DEF IInv, Lives
      <3> QED
        BY <1>4, <2>1, <3>1 DEF IInv, Seen
    <2> QED
      BY <1>1, <1>4, <1>8, <1>9, <2>1 DEF IInv, Seen, trackVars
  <1>17. Ended'
    <2>1. 3 \notin terminal
      BY <1>1 DEF IInv, Ended
    <2>2. env.stamped /\ 1 \in terminal => i # 1
      BY <1>1, <1>3 DEF IInv, Ended
    <2>3. env.stamped /\ 2 \in terminal => arrived >= 5
      BY DEF IInv, Ended, Deliver, WriterExists, PubRuns
    <2>4. terminal' = terminal /\ env' = env
      BY <1>1 DEF trackVars
    <2>5. env.stamped /\ 1 \in terminal => arrived' >= 3 /\ cache'[1] = << >>
      BY <1>1, <1>8, <2>2 DEF IInv, Ended, Sensors
    <2>6. env.stamped /\ 2 \in terminal => arrived' >= 5 /\ cache'[2] = << >>
      BY <1>1, <1>3, <1>8, <2>3 DEF IInv, Ended, Sensors
    <2> QED
      BY <2>1, <2>4, <2>5, <2>6 DEF Ended
  <1>18. (Decided /\ LookedUpOnce /\ NoFalseAlarm)'
    BY <1>1 DEF IInv, pubVars, trackVars, Decided, RegistryInv, LookedUpOnce, NoFalseAlarm
  <1> QED
    BY <1>11, <1>12, <1>13, <1>14, <1>15, <1>16, <1>17, <1>18 DEF IInv, RegistryInv

\* The notice comes last in the caches of the instances that were alive, and
\* nothing arrives after it.
LEMMA WriterLostInv == ASSUME IInv, WriterLost PROVE IInv'
  <1> DEFINE Hit(i) == current[i] = "alive"
  <1>1. /\ ~PubRuns
        /\ cache' = [i \in Sensors |-> IF Hit(i) THEN Append(cache[i], "lost") ELSE cache[i]]
        /\ current' = [i \in Sensors |-> IF Hit(i) THEN "noWriters" ELSE current[i]]
        /\ UNCHANGED << env, pubVars, link, events, arrived, subPc, subCb, taken,
                        trackVars, becameDone, allDone >>
    BY DEF WriterLost
  <1>2. notified' \in BOOLEAN
    BY Zenon DEF WriterLost, NotifyReader, IInv, TypeOK, Attached
  <1>3. cache \in [Sensors -> Seq(Entries)] /\ current \in [Sensors -> States]
    BY DEF IInv, TypeOK
  <1>4. "lost" \in Entries /\ "noWriters" \in States
    BY DEF Entries, States
  <1>5. \A i \in Sensors : ~Hit(i) => cache'[i] = cache[i] /\ current'[i] = current[i]
    BY <1>1
  <1>6. \A i \in Sensors : Hit(i) =>
           /\ cache'[i] = Append(cache[i], "lost") /\ current'[i] = "noWriters"
           /\ cache'[i] \in Seq(Entries) /\ cache'[i] # << >>
           /\ Len(cache'[i]) = Len(cache[i]) + 1 /\ Len(cache[i]) \in Nat
           /\ cache'[i][Len(cache'[i])] = "lost"
           /\ \A j \in 1 .. Len(cache[i]) : cache'[i][j] = cache[i][j]
           /\ cache[i] = << >> => cache'[i][1] = "lost"
           /\ cache[i] # << >> => cache'[i][1] = cache[i][1]
    <2> TAKE i \in Sensors
    <2> HAVE Hit(i)
    <2>1. cache[i] \in Seq(Entries) /\ Len(cache[i]) \in Nat
      BY <1>3
    <2>2. cache'[i] = Append(cache[i], "lost") /\ current'[i] = "noWriters"
      BY <1>1
    <2> QED
      BY <1>4, <2>1, <2>2, Appended
  <1>7. \A i \in Sensors : Hit(i) =>
           \A j \in 1 .. Len(cache[i]) : cache[i][j] = "alive"
    <2> SUFFICES ASSUME NEW i \in Sensors, Hit(i), NEW j \in 1 .. Len(cache[i])
                 PROVE  cache[i][j] = "alive"
      OBVIOUS
    <2>1. cache[i][j] \in Entries
      BY <1>3
    <2>2. cache[i][j] # "lost"
      BY DEF IInv, Held
    <2>3. cache[i][j] # "disposed"
      BY DEF IInv, Held, Lives
    <2>4. cache[i][j] # "noWriters"
      BY DEF IInv, Held, Lives
    <2> QED
      BY <2>1, <2>2, <2>3, <2>4 DEF Entries
  <1>8. \A i \in Sensors : ChangesIn(cache'[i]) = ChangesIn(cache[i])
    <2> SUFFICES ASSUME NEW i \in Sensors PROVE ChangesIn(cache'[i]) = ChangesIn(cache[i])
      OBVIOUS
    <2>1. CASE ~Hit(i)
      BY <1>5, <2>1
    <2>2. CASE Hit(i)
      <3>1. cache[i] \in Seq(Entries) /\ NoticeLast(cache[i])
        BY <1>3, NoticesLast
      <3>2. \A j \in 1 .. Len(cache[i]) : cache[i][j] # "lost"
        BY <1>7, <2>2
      <3> QED
        BY <1>6, <2>2, <3>1, <3>2, CountingChanges
    <2> QED
      BY <2>1, <2>2
  <1> HIDE DEF Hit
  <1>9. \A i \in Sensors : Hit(i) <=> current[i] = "alive"
    BY DEF Hit
  <1>10. TypeOK'
    <2>1. cache' \in [Sensors -> Seq(Entries)] /\ current' \in [Sensors -> States]
      BY <1>1, <1>3, <1>4, <1>5, <1>6
    <2> QED
      BY <1>1, <1>2, <2>1 DEF IInv, TypeOK, pubVars, trackVars
  <1>11. WrittenSoFar' /\ Departures'
    BY <1>1 DEF IInv, WrittenSoFar, Departures, pubVars, ReaderGone
  <1>12. Lives'
    BY <1>1, <1>5, <1>6, <1>8, <1>9 DEF IInv, Lives, Sensors
  <1>13. Held'
    <2> SUFFICES ASSUME NEW k \in Sensors, NEW j \in 1 .. Len(cache'[k])
                 PROVE  /\ cache'[k][j] = "disposed"
                              => k = 1 /\ j = Len(cache'[k]) /\ arrived' >= 3
                        /\ cache'[k][j] = "noWriters"
                              => k = 2 /\ j = Len(cache'[k]) /\ arrived' >= 5
                        /\ cache'[k][j] = "lost" =>
                              /\ j = Len(cache'[k]) /\ ~PubRuns'
                              /\ current'[k] # "alive"
                              /\ k = 2 => arrived' = 4
      BY DEF Held
    <2>0. arrived' = arrived /\ ~PubRuns'
      BY <1>1 DEF pubVars, PubRuns
    <2>1. CASE ~Hit(k)
      BY <1>5, <2>0, <2>1 DEF IInv, Held
    <2>2. CASE Hit(k) /\ j # Len(cache'[k])
      <3>1. j \in 1 .. Len(cache[k])
        BY <1>6, <2>2
      <3> QED
        BY <1>6, <1>7, <2>2, <3>1
    <2>3. CASE Hit(k) /\ j = Len(cache'[k])
      <3>1. k = 2 => arrived = 4
        BY <1>9, <2>3 DEF IInv, TypeOK, Lives, Sensors
      <3> QED
        BY <1>6, <2>0, <2>3, <3>1
    <2> QED
      BY <2>1, <2>2, <2>3
  <1>14. Counted'
    BY <1>1, <1>8 DEF IInv, Counted, Sensors
  <1>15. Seen'
    <2> SUFFICES ASSUME env.stamped, NEW k \in Sensors
                 PROVE  /\ cache'[k] = << >> /\ current'[k] # "none" => k \in seenAlive
                        /\ cache'[k] # << >> /\ cache'[k][1] # "alive" => k \in seenAlive
      BY <1>1 DEF Seen, trackVars
    <2>1. CASE ~Hit(k)
      BY <1>5, <2>1 DEF IInv, Seen
    <2>2. CASE Hit(k)
      BY <1>6, <1>9, <2>2 DEF IInv, Seen
    <2> QED
      BY <2>1, <2>2
  <1>16. Ended'
    <2>1. terminal' = terminal /\ env' = env /\ arrived' = arrived /\ ~PubRuns'
      BY <1>1 DEF trackVars, pubVars, PubRuns
    <2>2. arrived >= 3 => cache'[1] = cache[1]
      BY <1>5, <1>9 DEF IInv, Lives, Sensors
    <2>3. arrived >= 5 => cache'[2] = cache[2]
      BY <1>5, <1>9 DEF IInv, Lives, Sensors
    <2>4. ChangesIn(cache'[3]) = ChangesIn(cache[3])
      BY <1>8 DEF Sensors
    <2> QED
      BY <2>1, <2>2, <2>3, <2>4 DEF IInv, Ended
  <1>17. (Decided /\ LookedUpOnce /\ NoFalseAlarm)'
    BY <1>1 DEF IInv, pubVars, trackVars, Decided, RegistryInv, LookedUpOnce, NoFalseAlarm
  <1> QED
    BY <1>10, <1>11, <1>12, <1>13, <1>14, <1>15, <1>16, <1>17 DEF IInv, RegistryInv

-----------------------------------------------------------------------------
\* Every step of the subscriber's main thread keeps the invariant.
LEMMA SubMainInv == ASSUME IInv, SubMain PROVE IInv'
  <1>0. env.sub \in Ports
    BY EnvironmentPorts DEF IInv
  <1>1. /\ UNCHANGED << env, pubVars, netVars, notified, subCb, taken, trackVars,
                        becameDone, allDone >>
        /\ subPc' \in SubSteps \cup SubExits
        /\ ReaderGone => ReaderGone'
        /\ subPc' \in {"delete", "leave", "ok"} => allDone
        /\ subPc' = "leave" => env.sub # "java"
        /\ subPc' # "illegal"
    <2> USE DEF IInv, TypeOK, Decided, SubSteps, SubExits, ReaderGone, SubNext
    <2>1. CASE SubStep
      <3>1. CASE subPc = "create"
        BY <1>0, <2>1, <3>1, SubscriberSteps DEF SubStep
      <3>2. CASE subPc = "attach"
        BY <1>0, <2>1, <3>2, SubscriberSteps DEF SubStep
      <3>3. CASE subPc = "delete"
        BY <1>0, <2>1, <3>3, SubscriberSteps DEF SubStep
      <3>4. CASE subPc = "leave"
        BY <1>0, <2>1, <3>4, SubscriberSteps DEF SubStep
      <3> QED
        BY <2>1, <3>1, <3>2, <3>3, <3>4 DEF SubStep
    <2>2. CASE SubAwait
      BY <1>0, <2>2, SubscriberSteps DEF SubAwait
    <2>3. CASE SubDeadline
      BY <2>3 DEF SubDeadline
    <2> QED
      BY <2>1, <2>2, <2>3 DEF SubMain
  <1>2. TypeOK'
    BY <1>1 DEF IInv, TypeOK, pubVars, netVars, cacheVars, trackVars
  <1>3. WrittenSoFar' /\ Departures'
    BY <1>1 DEF IInv, WrittenSoFar, Departures, pubVars, netVars, cacheVars
  <1>4. (Lives /\ Held /\ Counted /\ Seen /\ Ended)'
    BY <1>1, CachesKept DEF PubRuns, pubVars, netVars, cacheVars, trackVars
  <1>5. Decided' /\ LookedUpOnce' /\ NoFalseAlarm'
    BY <1>1 DEF IInv, pubVars, trackVars, Decided, RegistryInv, LookedUpOnce, NoFalseAlarm
  <1> QED
    BY <1>2, <1>3, <1>4, <1>5 DEF IInv, RegistryInv

\* A call that fails keeps the invariant.
LEMMA FailuresInv == ASSUME IInv, Failures PROVE IInv'
  <1>1. CASE PubCallFails
    <2> USE DEF PubCallFails
    <2>1. /\ UNCHANGED << env, netVars, subVars >>
          /\ pubPc' = "failed" /\ pubPc \notin PubExits
          /\ UNCHANGED << listening, pubCb, readerReady, everMatched, matchedCount,
                          written >>
      BY <1>1 DEF PubExits
    <2>2. TypeOK' /\ WrittenSoFar' /\ Departures'
      BY <2>1, TheChanges
         DEF IInv, TypeOK, PubSteps, PubExits, WrittenSoFar, Departures, ReaderGone,
             SubExits, netVars, cacheVars, subVars, trackVars
    <2>3. (Lives /\ Held /\ Counted /\ Seen /\ Ended)'
      BY <2>1, CachesKept DEF PubRuns, netVars, subVars, trackVars
    <2>4. (Decided /\ LookedUpOnce /\ NoFalseAlarm)'
      BY <2>1, SubscriberKept
    <2> QED
      BY <2>2, <2>3, <2>4 DEF IInv, RegistryInv
  <1>2. CASE SubCallFails \/ TakeFails
    <2>1. /\ UNCHANGED << env, pubVars, netVars, notified, subCb, taken, trackVars,
                          becameDone, allDone >>
          /\ subPc' = "failed"
      BY <1>2 DEF SubCallFails, TakeFails
    <2>2. TypeOK'
      BY <2>1 DEF IInv, TypeOK, SubExits, pubVars, netVars, cacheVars, trackVars
    <2>3. WrittenSoFar' /\ Departures'
      BY <2>1 DEF IInv, WrittenSoFar, Departures, ReaderGone, SubExits, pubVars, netVars,
                  cacheVars
    <2>4. (Lives /\ Held /\ Counted /\ Seen /\ Ended)'
      BY <2>1, CachesKept DEF PubRuns, pubVars, netVars, cacheVars, trackVars
    <2>5. Decided' /\ LookedUpOnce' /\ NoFalseAlarm'
      BY <2>1 DEF IInv, pubVars, trackVars, Decided, RegistryInv, LookedUpOnce,
                  NoFalseAlarm
    <2> QED
      BY <2>2, <2>3, <2>4, <2>5 DEF IInv, RegistryInv
  <1> QED
    BY <1>1, <1>2 DEF Failures

\* A callback that begins or ends keeps the invariant.
LEMMA CallbackInv == ASSUME IInv, OnDataAvailable \/ TakeNoData PROVE IInv'
  <1>1. UNCHANGED << env, pubVars, netVars, subPc, taken, trackVars >>
    BY DEF OnDataAvailable, TakeNoData
  <1>2. notified' \in BOOLEAN /\ becameDone' \in BOOLEAN /\ allDone' \in BOOLEAN
    BY Zenon DEF IInv, TypeOK, OnDataAvailable, TakeNoData
  <1>3. subCb' \in {"idle", "take"}
    BY DEF OnDataAvailable, TakeNoData
  <1>4. TypeOK'
    BY <1>1, <1>2, <1>3 DEF IInv, TypeOK, pubVars, netVars, cacheVars, trackVars
  <1>5. WrittenSoFar' /\ Departures'
    BY <1>1 DEF IInv, WrittenSoFar, Departures, pubVars, netVars, cacheVars, ReaderGone
  <1>6. (Lives /\ Held /\ Counted /\ Seen /\ Ended)'
    BY <1>1, CachesKept DEF PubRuns, pubVars, netVars, cacheVars, trackVars
  <1>7. Decided'
    <2>1. CASE OnDataAvailable
      <3>1. becameDone' = FALSE /\ allDone' = allDone /\ (becameDone => allDone)
        BY <2>1 DEF OnDataAvailable, IInv, Decided
      <3>2. lookups' = lookups /\ terminal' = terminal /\ subPc' = subPc /\ env' = env
        BY <1>1 DEF trackVars
      <3>3. ~becameDone'
        BY <3>1
      <3>4. allDone' <=> allDone
        BY <3>1, Zenon
      <3>5. (allDone \/ becameDone) <=> allDone
        BY <3>1
      <3> QED
        BY <3>2, <3>3, <3>4, <3>5 DEF IInv, Decided
    <2>2. CASE TakeNoData
      <3>1. /\ becameDone' = becameDone /\ (allDone' <=> allDone \/ becameDone)
            /\ subCb' = "idle"
        BY <2>2 DEF TakeNoData
      <3> QED
        BY <1>1, <3>1 DEF IInv, Decided, trackVars
    <2> QED
      BY <2>1, <2>2
  <1>8. LookedUpOnce' /\ NoFalseAlarm'
    BY <1>1 DEF IInv, RegistryInv, LookedUpOnce, NoFalseAlarm, trackVars, pubVars
  <1> QED
    BY <1>4, <1>5, <1>6, <1>7, <1>8 DEF IInv, RegistryInv

\* With samples that carry their own state, an illegal one is the notice that
\* the writer is lost before its work was done.
LEMMA IllegalInv == ASSUME IInv, TakeIllegal PROVE IInv'
  <1>1. /\ UNCHANGED << env, pubVars, netVars, notified, subCb, taken, trackVars,
                        becameDone, allDone >>
        /\ subPc' = "illegal" /\ ReaderExists
    BY DEF TakeIllegal
  <1>2. TypeOK'
    BY <1>1 DEF IInv, TypeOK, SubExits, pubVars, netVars, cacheVars, trackVars
  <1>3. WrittenSoFar' /\ Departures'
    BY <1>1 DEF IInv, WrittenSoFar, Departures, pubVars, netVars, cacheVars,
                ReaderGone, SubExits
  <1>4. (Lives /\ Held /\ Counted /\ Seen /\ Ended)'
    BY <1>1, CachesKept DEF PubRuns, pubVars, netVars, cacheVars, trackVars
  <1>5. Decided' /\ LookedUpOnce'
    BY <1>1 DEF IInv, Decided, RegistryInv, LookedUpOnce, trackVars
  <1>6. NoFalseAlarm'
    <2> SUFFICES ASSUME env.stamped PROVE pubPc = "failed"
      BY <1>1 DEF NoFalseAlarm, pubVars
    <2>1. PICK i \in Sensors : cache[i] # << >> /\ ~Legal(i, SampleState(i))
      BY DEF TakeIllegal
    <2>2. /\ cache[i] \in Seq(Entries) /\ Head(cache[i]) = cache[i][1]
          /\ Head(cache[i]) \in Entries /\ 1 \in 1 .. Len(cache[i])
      <3>1. cache[i] \in Seq(Entries)
        BY DEF IInv, TypeOK
      <3> QED
        BY <2>1, <3>1, Shortened
    <2>3. SampleState(i) = IF Head(cache[i]) = "lost" THEN "noWriters" ELSE Head(cache[i])
      BY DEF SampleState
    <2>4. Head(cache[i]) # "alive" => i \in seenAlive
      BY <2>1, <2>2 DEF IInv, Seen
    <2>5. Head(cache[i]) = "lost"
      BY <2>1, <2>2, <2>3, <2>4 DEF IInv, Held, Legal, Entries
    <2>6. ~PubRuns
      BY <2>2, <2>5 DEF IInv, Held
    <2>7. pubPc # "done"
      BY <1>1 DEF IInv, Departures, ReaderExists, ReaderGone, SubExits
    <2> QED
      BY <2>6, <2>7 DEF PubRuns, PubExits
  <1> QED
    BY <1>2, <1>3, <1>4, <1>5, <1>6 DEF IInv, RegistryInv

\* What the sample of instance i that is taken says, and what is left.
LEMMA SampleTaken ==
    ASSUME IInv, NEW i \in Sensors, cache[i] # << >>
    PROVE  /\ cache[i] \in Seq(Entries) /\ Tail(cache[i]) \in Seq(Entries)
           /\ Len(cache[i]) \in Nat /\ Len(cache[i]) >= 1
           /\ Len(Tail(cache[i])) = Len(cache[i]) - 1
           /\ Head(cache[i]) = cache[i][1] /\ Head(cache[i]) \in Entries
           /\ \A j \in 1 .. Len(Tail(cache[i])) : Tail(cache[i])[j] = cache[i][j + 1]
           /\ Tail(cache[i]) = << >> <=> Len(cache[i]) = 1
           /\ ChangesIn(Tail(cache[i]))
                 = ChangesIn(cache[i]) - (IF Head(cache[i]) = "lost" THEN 0 ELSE 1)
           /\ \A k \in Sensors : ChangesIn(cache[k]) \in Nat
           /\ ChangesIn(Tail(cache[i])) \in Nat
           /\ Head(cache[i]) \in {"disposed", "noWriters", "lost"} => Len(cache[i]) = 1
  <1>1. cache \in [Sensors -> Seq(Entries)] /\ cache[i] \in Seq(Entries)
    BY DEF IInv, TypeOK
  <1>2. \A k \in Sensors : ChangesIn(cache[k]) \in Nat
    BY <1>1, NoticesLast, CountingChanges
  <1>3. NoticeLast(cache[i])
    BY NoticesLast
  <1>4. /\ Tail(cache[i]) \in Seq(Entries)
        /\ Len(cache[i]) \in Nat /\ Len(cache[i]) >= 1
        /\ Len(Tail(cache[i])) = Len(cache[i]) - 1
        /\ Head(cache[i]) = cache[i][1] /\ Head(cache[i]) \in Entries
        /\ \A j \in 1 .. Len(Tail(cache[i])) : Tail(cache[i])[j] = cache[i][j + 1]
        /\ Tail(cache[i]) = << >> <=> Len(cache[i]) = 1
    BY <1>1, Shortened
  <1>5. ChangesIn(Tail(cache[i]))
           = ChangesIn(cache[i]) - (IF Head(cache[i]) = "lost" THEN 0 ELSE 1)
    BY <1>1, <1>3, CountingChanges
  <1>6. NoticeLast(Tail(cache[i]))
    BY <1>3, <1>4 DEF NoticeLast
  <1>7. ChangesIn(Tail(cache[i])) \in Nat
    BY <1>4, <1>6, CountingChanges
  <1>8. Head(cache[i]) \in {"disposed", "noWriters", "lost"} => Len(cache[i]) = 1
    <2>1. 1 \in 1 .. Len(cache[i])
      BY <1>4
    <2> QED
      BY <1>4, <2>1 DEF IInv, Held
  <1> QED
    BY <1>1, <1>2, <1>4, <1>5, <1>7, <1>8

\* A turn of the take loop keeps the invariant.
LEMMA SampleInv == ASSUME IInv, TakeSample PROVE IInv'
  <1>1. PICK i \in Sensors :
           /\ cache[i] # << >>
           /\ Legal(i, SampleState(i))
           /\ cache' = [cache EXCEPT ![i] = Tail(cache[i])]
           /\ taken' = IF Head(cache[i]) = "lost" THEN taken ELSE taken + 1
           /\ seenAlive' = IF SampleState(i) = "alive" THEN seenAlive \cup {i}
                                                       ELSE seenAlive
           /\ terminal' = IF SampleState(i) # "alive" \/ i = 3 THEN terminal \cup {i}
                                                               ELSE terminal
           /\ LET completes == AllInstancesDone(terminal') /\ ~LookupAsked
              IN  /\ lookups' = IF completes THEN lookups + 1 ELSE lookups
                  /\ becameDone' = (becameDone \/ completes)
    BY DEF TakeSample
  <1>2. /\ subCb = "take" /\ SubRuns
        /\ UNCHANGED << env, pubVars, link, events, arrived, current, subPc, notified,
                        subCb, allDone >>
    BY DEF TakeSample
  <1> DEFINE s == cache[i]
  <1>3. /\ s \in Seq(Entries) /\ Tail(s) \in Seq(Entries) /\ s # << >>
        /\ Len(s) \in Nat /\ Len(s) >= 1 /\ Len(Tail(s)) = Len(s) - 1
        /\ Head(s) = s[1] /\ Head(s) \in Entries
        /\ \A j \in 1 .. Len(Tail(s)) : Tail(s)[j] = s[j + 1]
        /\ Tail(s) = << >> <=> Len(s) = 1
        /\ ChangesIn(Tail(s)) = ChangesIn(s) - (IF Head(s) = "lost" THEN 0 ELSE 1)
        /\ \A k \in Sensors : ChangesIn(cache[k]) \in Nat
        /\ ChangesIn(Tail(s)) \in Nat
        /\ Head(s) \in {"disposed", "noWriters", "lost"} => Len(s) = 1
    BY <1>1, SampleTaken
  <1>4. cache \in [Sensors -> Seq(Entries)]
    BY DEF IInv, TypeOK
  <1>5. /\ cache'[i] = Tail(s)
        /\ \A k \in Sensors \ {i} : cache'[k] = cache[k]
    BY <1>1, <1>4
  <1>6. env.stamped => SampleState(i) = IF Head(s) = "lost" THEN "noWriters" ELSE Head(s)
    BY DEF SampleState
  <1>7. /\ terminal' \in SUBSET Sensors /\ terminal \subseteq terminal'
        /\ terminal' \subseteq terminal \cup {i}
        /\ seenAlive' \in SUBSET Sensors /\ seenAlive \subseteq seenAlive'
    BY <1>1 DEF IInv, TypeOK
  <1> HIDE DEF s
  <1>8. Held'
    <2> SUFFICES ASSUME NEW k \in Sensors, NEW j \in 1 .. Len(cache'[k])
                 PROVE  /\ cache'[k][j] = "disposed"
                              => k = 1 /\ j = Len(cache'[k]) /\ arrived' >= 3
                        /\ cache'[k][j] = "noWriters"
                              => k = 2 /\ j = Len(cache'[k]) /\ arrived' >= 5
                        /\ cache'[k][j] = "lost" =>
                              /\ j = Len(cache'[k]) /\ ~PubRuns'
                              /\ current'[k] # "alive"
                              /\ k = 2 => arrived' = 4
      BY DEF Held
    <2>0. arrived' = arrived /\ (PubRuns' <=> PubRuns) /\ current' = current
      BY <1>2 DEF pubVars, PubRuns
    <2>1. CASE k # i
      <3>1. cache'[k] = cache[k]
        BY <1>5, <2>1
      <3> QED
        BY <2>0, <3>1 DEF IInv, Held
    <2>2. CASE k = i
      <3>1. cache'[k] = Tail(s) /\ cache[k] = s
        BY <1>5, <2>2 DEF s
      <3>2. /\ j \in Nat /\ j + 1 \in 1 .. Len(s)
            /\ Tail(s)[j] = s[j + 1]
            /\ j = Len(Tail(s)) <=> j + 1 = Len(s)
        BY <1>3, <3>1
      <3>3. /\ s[j + 1] = "disposed"  => k = 1 /\ j + 1 = Len(s) /\ arrived >= 3
            /\ s[j + 1] = "noWriters" => k = 2 /\ j + 1 = Len(s) /\ arrived >= 5
            /\ s[j + 1] = "lost" => /\ j + 1 = Len(s) /\ ~PubRuns
                                    /\ current[k] # "alive"
                                    /\ k = 2 => arrived = 4
        BY <3>1, <3>2 DEF IInv, Held
      <3> QED
        BY <2>0, <3>1, <3>2, <3>3
    <2> QED
      BY <2>1, <2>2
  <1>9. \A k \in Sensors : ChangesIn(cache'[k]) =
           ChangesIn(cache[k]) - (IF k = i /\ Head(s) # "lost" THEN 1 ELSE 0)
    <2> SUFFICES ASSUME NEW k \in Sensors
                 PROVE  ChangesIn(cache'[k]) =
                          ChangesIn(cache[k]) - (IF k = i /\ Head(s) # "lost" THEN 1 ELSE 0)
      OBVIOUS
    <2>0. ChangesIn(cache[k]) \in Nat
      BY <1>3
    <2>1. CASE k = i
      <3>1. ChangesIn(cache'[k]) = ChangesIn(Tail(s)) /\ ChangesIn(cache[k]) = ChangesIn(s)
        BY <1>5, <2>1 DEF s
      <3> QED
        BY <1>3, <2>1, <3>1
    <2>2. CASE k # i
      <3>1. ChangesIn(cache'[k]) = ChangesIn(cache[k])
        BY <1>5, <2>2
      <3> QED
        BY <2>0, <2>2, <3>1
    <2> QED
      BY <2>1, <2>2
  <1>10. /\ ChangesIn(cache'[1]) \in Nat /\ ChangesIn(cache'[2]) \in Nat
         /\ ChangesIn(cache'[3]) \in Nat /\ ChangesIn(cache'[3]) =< ChangesIn(cache[3])
    <2>1. \A k \in Sensors : ChangesIn(cache'[k]) \in Nat
      <3> TAKE k \in Sensors
      <3>1. CASE k = i
        BY <1>3, <1>5, <3>1
      <3>2. CASE k # i
        BY <1>3, <1>5, <3>2
      <3> QED
        BY <3>1, <3>2
    <2>2. ChangesIn(cache[3]) \in Nat /\ ChangesIn(cache'[3]) =
             ChangesIn(cache[3]) - (IF 3 = i /\ Head(s) # "lost" THEN 1 ELSE 0)
      BY <1>3, <1>9 DEF Sensors
    <2> QED
      BY <2>1, <2>2 DEF Sensors
  <1>11. Counted'
    <2>1. /\ taken \in Nat /\ arrived \in Nat
          /\ taken + ChangesIn(cache[1]) + ChangesIn(cache[2]) + ChangesIn(cache[3]) = arrived
          /\ ChangesIn(cache[1]) \in Nat /\ ChangesIn(cache[2]) \in Nat
          /\ ChangesIn(cache[3]) \in Nat
      BY <1>3 DEF IInv, TypeOK, Counted, Sensors
    <2>2. /\ ChangesIn(cache'[1]) =
               ChangesIn(cache[1]) - (IF 1 = i /\ Head(s) # "lost" THEN 1 ELSE 0)
          /\ ChangesIn(cache'[2]) =
               ChangesIn(cache[2]) - (IF 2 = i /\ Head(s) # "lost" THEN 1 ELSE 0)
          /\ ChangesIn(cache'[3]) =
               ChangesIn(cache[3]) - (IF 3 = i /\ Head(s) # "lost" THEN 1 ELSE 0)
      BY <1>9 DEF Sensors
    <2>3. taken' = taken + (IF Head(s) # "lost" THEN 1 ELSE 0) /\ arrived' = arrived
      BY <1>1, <1>2, <2>1 DEF s
    <2>4. taken' + ChangesIn(cache'[1]) + ChangesIn(cache'[2]) + ChangesIn(cache'[3])
             = arrived'
      BY <2>1, <2>2, <2>3 DEF Sensors
    <2>5. taken' \in Nat
      BY <2>1, <2>3
    <2> QED
      BY <1>10, <2>1, <2>3, <2>4, <2>5 DEF Counted
  <1>12. Lives'
    <2>1. /\ arrived < 4 => i # 2
          /\ arrived < 6 => i # 3
      BY <1>1 DEF IInv, Lives
    <2>2. /\ arrived < 4 => cache'[2] = << >>
          /\ arrived < 6 => cache'[3] = << >>
      BY <1>5, <2>1 DEF IInv, Lives, Sensors
    <2>3. ChangesIn(cache'[3]) =< 1
      BY <1>3, <1>10 DEF IInv, Lives, Sensors
    <2> QED
      BY <1>2, <2>2, <2>3 DEF IInv, Lives
  <1>13. Seen'
    <2> SUFFICES ASSUME env.stamped, NEW k \in Sensors
                 PROVE  /\ cache'[k] = << >> /\ current'[k] # "none" => k \in seenAlive'
                        /\ cache'[k] # << >> /\ cache'[k][1] # "alive" => k \in seenAlive'
      BY <1>2 DEF Seen
    <2>1. CASE k # i
      <3>1. cache'[k] = cache[k] /\ current'[k] = current[k]
        BY <1>2, <1>5, <2>1
      <3> QED
        BY <1>7, <3>1 DEF IInv, Seen
    <2>2. CASE k = i
      <3>1. CASE Head(s) = "alive"
        BY <1>1, <1>6, <2>2, <3>1
      <3>2. CASE Head(s) # "alive"
        <4>1. i \in seenAlive
          BY <1>1, <1>3, <3>2 DEF s, IInv, Seen
        <4> QED
          BY <1>7, <2>2, <4>1
      <3> QED
        BY <3>1, <3>2
    <2> QED
      BY <2>1, <2>2
  <1>14. Ended'
    <2>0. /\ env' = env /\ arrived' = arrived /\ (PubRuns' <=> PubRuns)
          /\ 1 \in 1 .. Len(cache[i]) /\ Head(s) = cache[i][1]
      BY <1>2, <1>3 DEF s, pubVars, PubRuns
    <2>1. /\ Head(s) = "disposed" => arrived >= 3
          /\ Head(s) = "noWriters" => arrived >= 5
          /\ Head(s) = "lost" /\ i = 2 => arrived = 4 /\ ~PubRuns
          /\ Head(s) \in {"disposed", "noWriters"} => Tail(s) = << >>
      BY <1>3, <2>0 DEF IInv, Held
    <2>2. 3 \in terminal' => arrived = 6
      <3>1. i = 3 => arrived = 6
        BY <1>1, TheChanges DEF IInv, TypeOK, Lives
      <3> QED
        BY <1>7, <3>1 DEF IInv, Ended
    <2>3. ASSUME env.stamped, 1 \in terminal' PROVE arrived >= 3 /\ cache'[1] = << >>
      <3>1. CASE i = 1
        <4>1. SampleState(i) # "alive"
          BY <1>1, <2>3, <3>1 DEF IInv, Ended
        <4>2. Head(s) = "disposed"
          BY <1>1, <1>6, <2>3, <3>1, <4>1 DEF Legal
        <4> QED
          BY <1>5, <2>1, <3>1, <4>2
      <3>2. CASE i # 1
        BY <1>5, <1>7, <2>3, <3>2 DEF IInv, Ended, Sensors
      <3> QED
        BY <3>1, <3>2
    <2>4. ASSUME env.stamped, 2 \in terminal'
          PROVE  \/ arrived >= 5 /\ cache'[2] = << >>
                 \/ arrived = 4 /\ ~PubRuns
      <3>1. CASE i = 2
        <4>1. CASE SampleState(i) = "alive"
          BY <1>1, <2>4, <3>1, <4>1 DEF IInv, Ended
        <4>2. CASE SampleState(i) # "alive"
          <5>1. Head(s) \in {"noWriters", "lost"}
            BY <1>1, <1>6, <2>4, <3>1, <4>2 DEF Legal
          <5>2. Head(s) = "noWriters" => arrived >= 5 /\ cache'[2] = << >>
            BY <1>5, <2>1, <3>1
          <5> QED
            BY <2>1, <3>1, <5>1, <5>2
        <4> QED
          BY <4>1, <4>2
      <3>2. CASE i # 2
        <4>1. cache'[2] = cache[2] /\ 2 \in terminal
          BY <1>5, <1>7, <2>4, <3>2 DEF Sensors
        <4> QED
          BY <2>4, <4>1 DEF IInv, Ended
      <3> QED
        BY <3>1, <3>2
    <2>5. ASSUME env.stamped, 3 \in terminal' PROVE ChangesIn(cache'[3]) = 0
      <3>0. ChangesIn(cache[3]) \in Nat /\ ChangesIn(cache[3]) =< 1
        BY <1>3 DEF IInv, Lives, Sensors
      <3>1. CASE i = 3
        <4>1. Head(s) # "lost"
          BY <1>1, <1>6, <2>5, <3>1 DEF Legal
        <4>2. ChangesIn(cache'[3]) = ChangesIn(cache[3]) - 1
          BY <1>9, <3>1, <4>1 DEF Sensors
        <4> QED
          BY <1>10, <3>0, <4>2
      <3>2. CASE i # 3
        <4>1. cache'[3] = cache[3] /\ 3 \in terminal
          BY <1>5, <1>7, <2>5, <3>2 DEF Sensors
        <4> QED
          BY <2>5, <4>1 DEF IInv, Ended
      <3> QED
        BY <3>1, <3>2
    <2> QED
      BY <2>0, <2>2, <2>3, <2>4, <2>5 DEF Ended
  <1>15. Decided' /\ LookedUpOnce' /\ TypeOK'
    <2> DEFINE completes == AllInstancesDone(terminal') /\ ~LookupAsked
    <2>0. /\ lookups \in Nat /\ (lookups > 0 <=> allDone \/ becameDone)
          /\ ~(allDone /\ becameDone)
      BY <1>2 DEF IInv, TypeOK, Decided
    <2>1. /\ lookups' = IF completes THEN lookups + 1 ELSE lookups
          /\ becameDone' = (becameDone \/ completes)
      BY <1>1
    <2>2. completes => lookups = 0 /\ ~allDone /\ ~becameDone /\ terminal' = Sensors
      BY <2>0 DEF LookupAsked, AllInstancesDone
    <2>3. becameDone' \in BOOLEAN
      BY <2>1, Zenon DEF IInv, TypeOK
    <2> HIDE DEF completes
    <2>4. lookups' \in Nat /\ (lookups' > 0 <=> allDone \/ becameDone')
      <3>1. CASE completes
        <4>1. lookups' = 1
          BY <2>1, <2>2, <3>1
        <4>2. becameDone'
          BY <2>1, <3>1, Zenon
        <4> QED
          BY <4>1, <4>2
      <3>2. CASE ~completes
        <4>1. lookups' = lookups
          BY <2>1, <3>2
        <4>2. becameDone' <=> becameDone
          BY <2>1, <3>2, Zenon
        <4> QED
          BY <2>0, <4>1, <4>2
      <3> QED
        BY <3>1, <3>2
    <2>5. lookups' =< 1
      BY <2>0, <2>1, <2>2 DEF IInv, RegistryInv, LookedUpOnce
    <2>6. allDone \/ becameDone' => terminal' = Sensors
      BY <1>7, <2>1, <2>2 DEF IInv, Decided
    <2>7. ~(allDone /\ becameDone')
      BY <2>0, <2>1, <2>2
    <2>8. Decided'
      BY <1>2, <2>4, <2>6, <2>7 DEF IInv, Decided
    <2>9. taken' \in 0 .. Total
      <3>1. taken' \in Nat
        BY <1>1 DEF IInv, TypeOK
      <3>2. taken' =< arrived /\ arrived \in 0 .. 6
        BY <1>2, <1>11, <1>10, <3>1, TheChanges DEF Counted, IInv, TypeOK
      <3> QED
        BY <3>1, <3>2, TheChanges
    <2>10. cache' \in [Sensors -> Seq(Entries)]
      BY <1>1, <1>3, <1>4 DEF s
    <2>11. TypeOK'
      BY <1>2, <1>7, <2>3, <2>4, <2>9, <2>10 DEF IInv, TypeOK, pubVars
    <2> QED
      BY <2>5, <2>8, <2>11 DEF LookedUpOnce
  <1>16. WrittenSoFar' /\ Departures' /\ NoFalseAlarm'
    BY <1>2 DEF IInv, WrittenSoFar, Departures, NoFalseAlarm, pubVars, ReaderGone
  <1> QED
    BY <1>8, <1>11, <1>12, <1>13, <1>14, <1>15, <1>16 DEF IInv, RegistryInv

\* A step that changes nothing keeps the invariant.
LEMMA StutterInv == ASSUME IInv, UNCHANGED vars PROVE IInv'
  <1>1. UNCHANGED << env, pubVars, netVars, subVars >>
    BY DEF vars
  <1>2. TypeOK' /\ WrittenSoFar' /\ Departures'
    BY <1>1 DEF IInv, TypeOK, WrittenSoFar, Departures, ReaderGone, pubVars, netVars,
                cacheVars, subVars, trackVars
  <1>3. (Lives /\ Held /\ Counted /\ Seen /\ Ended)'
    BY <1>1, CachesKept DEF PubRuns, pubVars, netVars, subVars, trackVars
  <1>4. (Decided /\ LookedUpOnce /\ NoFalseAlarm)'
    BY <1>1, SubscriberKept DEF pubVars
  <1> QED
    BY <1>2, <1>3, <1>4 DEF IInv, RegistryInv

\* The invariant holds in every reachable state.
LEMMA Invariance == Spec => []IInv
  <1>1. IInv /\ [Next]_vars => IInv'
    BY PubMainInv, PubListenerInv, LinkInv, DeliverInv, WriterLostInv, SubMainInv,
       CallbackInv, SampleInv, IllegalInv, FailuresInv, StutterInv
       DEF Next, Middleware, SubListener
  <1> QED
    BY <1>1, InitInv, PTL DEF Spec

\* The variables stay in their ranges, and the lookup_instance round trip is
\* made once, whichever ports run and whatever order instances are taken in.
THEOREM LookedUpOnceAlways == Spec => []RegistryInv
  <1>1. IInv => RegistryInv
    BY DEF IInv
  <1> QED
    BY <1>1, Invariance, PTL

\* The fail-fast checks of the listener raise no false alarm, whichever ports
\* run and whatever order instances are taken in.
THEOREM NoFalseAlarmAlways == Spec => []NoFalseAlarm
  <1>1. IInv => NoFalseAlarm
    BY DEF IInv
  <1> QED
    BY <1>1, Invariance, PTL

\* main never deletes the reader under the callback that completed the run.
THEOREM CompletingCallOverAlways == Spec => []CompletingCallOver
  <1>1. IInv => CompletingCallOver
    BY DEF IInv, Decided, CompletingCallOver
  <1> QED
    BY <1>1, Invariance, PTL

-----------------------------------------------------------------------------
\* A step of the publisher's main thread is a change, its end, a surrender or
\* nothing at all to an observer of the handover.
LEMMA PubMainRefines ==
    ASSUME IInv, PubMain PROVE [Promise!Next]_(Promise!vars)
  <1> USE TheChanges
      DEF IInv, TypeOK, PubRuns, SubRuns, PubExits, PubNext, netVars, cacheVars,
          subVars, Promise!vars
  <1>0. env.pub \in Ports
    BY EnvironmentPorts
  <1>1. CASE PubCreate
    BY <1>1, <1>0, PublisherSteps DEF PubCreate
  <1>2. CASE PubAttach
    BY <1>2, <1>0, PublisherSteps DEF PubAttach
  <1>3. CASE PubAwaitReady
    BY <1>3, <1>0, PublisherSteps DEF PubAwaitReady
  <1>4. CASE PubPublish
    BY <1>4, <1>0, PublisherSteps DEF PubPublish, WrittenSoFar, Promise!Next, Promise!Send
  <1>5. CASE PubKeyValue
    BY <1>5, <1>0, PublisherSteps DEF PubKeyValue
  <1>6. CASE PubDrainEver
    BY <1>6 DEF PubDrainEver
  <1>7. CASE PubDrainCount
    <2>1. CASE matchedCount = 0
      BY <1>7, <2>1, <1>0, PublisherSteps
         DEF PubDrainCount, WrittenSoFar, Departures, ReaderGone, SubExits,
             Promise!Next, Promise!Finish
    <2>2. CASE matchedCount # 0
      BY <1>7, <2>2 DEF PubDrainCount
    <2> QED
      BY <2>1, <2>2
  <1>8. CASE PubDeadline
    BY <1>8 DEF PubDeadline, Promise!Next, Promise!PublisherGivesUp
  <1> QED
    BY <1>1, <1>2, <1>3, <1>4, <1>5, <1>6, <1>7, <1>8 DEF PubMain

\* What an observer of the handover sees of neither process: the publisher's
\* dispatch thread, the middleware but for its deliveries, and a callback that
\* begins or ends.
LEMMA HiddenRefines ==
    ASSUME \/ PubListener \/ Match \/ Handshake \/ Depart \/ WriterLost
           \/ OnDataAvailable \/ TakeNoData
    PROVE  UNCHANGED Promise!vars
  BY DEF PubListener, PubDispatch, OnReliableReaderReady, OnPublicationMatched, Match,
         Handshake, Depart, WriterLost, OnDataAvailable, TakeNoData, PubRuns, SubRuns,
         pubVars, netVars, cacheVars, subVars, trackVars, Promise!vars

\* A delivery is the receipt where a sample carries the state its instance is in.
LEMMA DeliverRefines ==
    ASSUME IInv, Deliver PROVE [Promise!Next]_(Promise!vars)
  <1>1. /\ arrived < written /\ arrived' = arrived + 1 /\ ReaderExists
        /\ UNCHANGED << env, pubVars, link, events, subPc, subCb, taken, trackVars,
                        becameDone, allDone >>
    BY DEF Deliver
  <1>2. subPc \notin {"leave", "ok"} /\ SubRuns
    BY <1>1 DEF ReaderExists, SubRuns, SubExits
  <1>3. CASE env.stamped
    BY <1>1, <1>3 DEF pubVars, PubRuns, SubRuns, Promise!vars
  <1>4. CASE ~env.stamped
    BY <1>1, <1>2, <1>4 DEF pubVars, PubRuns, SubRuns, Promise!vars, Promise!Next,
                            Promise!Receive
  <1> QED
    BY <1>3, <1>4

\* All six changes have been received when the run is complete.
LEMMA CompleteMeansAll ==
    ASSUME IInv, allDone PROVE (IF env.stamped THEN taken ELSE arrived) = Total
  <1>1. terminal = Sensors
    BY DEF IInv, Decided
  <1>2. arrived = 6
    BY <1>1 DEF IInv, Ended, Sensors
  <1>3. ASSUME env.stamped PROVE taken = 6
    <2>1. cache[1] = << >> /\ cache[2] = << >> /\ ChangesIn(cache[3]) = 0
      BY <1>1, <1>2, <1>3 DEF IInv, Ended, Sensors
    <2>2. ChangesIn(cache[1]) = 0 /\ ChangesIn(cache[2]) = 0
      BY <2>1, EmptySeq DEF ChangesIn
    <2> QED
      BY <1>2, <2>1, <2>2 DEF IInv, TypeOK, Counted
  <1> QED
    BY <1>2, <1>3, TheChanges

\* A step of the subscriber's main thread is its completion, a surrender or
\* nothing at all to an observer of the handover.
LEMMA SubMainRefines ==
    ASSUME IInv, SubMain PROVE [Promise!Next]_(Promise!vars)
  <1> USE DEF IInv, TypeOK, PubRuns, SubRuns, SubExits, SubNext, pubVars, netVars,
              cacheVars, trackVars, Promise!vars
  <1>0. env.sub \in Ports
    BY EnvironmentPorts
  <1>1. CASE SubStep
    <2>1. CASE subPc \in {"create", "attach"}
      BY <1>0, <1>1, <2>1, SubscriberSteps DEF SubStep
    <2>2. CASE subPc = "delete"
      <3>1. allDone
        BY <2>2 DEF Decided
      <3> QED
        BY <1>0, <1>1, <2>2, <3>1, SubscriberSteps, CompleteMeansAll
           DEF SubStep, Promise!Next, Promise!Complete
    <2>3. CASE subPc = "leave"
      BY <1>0, <1>1, <2>3, SubscriberSteps DEF SubStep, Decided
    <2> QED
      BY <1>1, <2>1, <2>2, <2>3 DEF SubStep
  <1>2. CASE SubAwait
    BY <1>0, <1>2, SubscriberSteps DEF SubAwait
  <1>3. CASE SubDeadline
    BY <1>3 DEF SubDeadline, Promise!Next, Promise!SubscriberGivesUp
  <1> QED
    BY <1>1, <1>2, <1>3 DEF SubMain

\* A turn of the take loop is the receipt where a sample carries its own state.
LEMMA SampleRefines ==
    ASSUME IInv, TakeSample PROVE [Promise!Next]_(Promise!vars)
  <1>1. /\ taken' = taken \/ taken' = taken + 1
        /\ ReaderExists
        /\ UNCHANGED << env, pubVars, arrived, subPc >>
    BY DEF TakeSample
  <1>2. subPc \notin {"leave", "ok"} /\ SubRuns
    BY <1>1 DEF ReaderExists, SubRuns, SubExits
  <1>3. taken' =< written
    <2>1. IInv'
      BY SampleInv
    <2>2. taken' =< arrived' /\ arrived' =< written'
      BY <2>1 DEF IInv, Counted, WrittenSoFar
    <2>3. taken' \in Nat /\ arrived' \in Nat /\ written' \in Nat /\ written' = written
      BY <1>1, <2>1, TheChanges DEF IInv, TypeOK, pubVars
    <2> QED
      BY <2>2, <2>3
  <1>4. CASE env.stamped
    <2>1. taken \in Nat /\ written \in Nat
      BY TheChanges DEF IInv, TypeOK
    <2>2. CASE taken' = taken
      BY <1>1, <2>2 DEF pubVars, PubRuns, SubRuns, Promise!vars
    <2>3. CASE taken' = taken + 1
      BY <1>1, <1>2, <1>3, <1>4, <2>1, <2>3
         DEF pubVars, PubRuns, SubRuns, Promise!vars, Promise!Next, Promise!Receive
    <2> QED
      BY <1>1, <2>2, <2>3
  <1>5. CASE ~env.stamped
    BY <1>1, <1>5 DEF pubVars, PubRuns, SubRuns, Promise!vars
  <1> QED
    BY <1>4, <1>5

\* An illegal sample is a surrender.
LEMMA IllegalRefines ==
    ASSUME TakeIllegal PROVE Promise!Next
  BY DEF TakeIllegal, ReaderExists, PubRuns, SubRuns, SubExits, pubVars, netVars,
         cacheVars, Promise!Next, Promise!SubscriberGivesUp

\* A call that fails is a surrender to an observer of the handover.
LEMMA FailuresRefine ==
    ASSUME Failures PROVE Promise!Next
  <1> USE DEF PubRuns, SubRuns, PubExits, SubExits, ReaderExists, pubVars, netVars,
              cacheVars, subVars, trackVars, Promise!Next
  <1>1. CASE PubCallFails
    BY <1>1 DEF PubCallFails, Promise!PublisherGivesUp
  <1>2. CASE SubCallFails \/ TakeFails
    BY <1>2 DEF SubCallFails, TakeFails, Promise!SubscriberGivesUp
  <1> QED
    BY <1>1, <1>2 DEF Failures

\* The four threads and the middleware implement the ordered handover: the
\* subscriber is complete only with all six changes, also against a publisher
\* that fails halfway, and the publisher is done only after it has left.
THEOREM ImplementsHandover == Spec => KeepsPromise
  <1>1. Init => Promise!Init
    BY DEF Init, Promise!Init, PubRuns, SubRuns, PubExits, SubExits
  <1>2. IInv /\ [Next]_vars => [Promise!Next]_(Promise!vars)
    <2>1. IInv /\ UNCHANGED vars => UNCHANGED Promise!vars
      BY DEF vars, pubVars, netVars, cacheVars, subVars, Promise!vars, PubRuns, SubRuns
    <2> QED
      BY <2>1, PubMainRefines, HiddenRefines, DeliverRefines, SubMainRefines,
         SampleRefines, IllegalRefines, FailuresRefine
         DEF Next, Middleware, SubListener
  <1> QED
    BY <1>1, <1>2, Invariance, PTL DEF Spec, KeepsPromise, Promise!Spec
=============================================================================
