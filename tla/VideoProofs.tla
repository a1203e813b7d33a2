---------------------------- MODULE VideoProofs ----------------------------
(***************************************************************************)
(* Proofs about Video, for every set of displays, whichever of them are    *)
(* followed, and every number of frames.  IInv is the inductive invariant: *)
(* what the variables hold, that there is only one notice, whose turn it   *)
(* is with a display's frame, and when its header and pixels agree.        *)
(***************************************************************************)
EXTENDS Video, FiniteSetTheorems, SequenceTheorems, TLAPS

\* What a history holds before the notice: a frame at most.
Plain == {<< >>} \cup {<< n >> : n \in Frames}

\* The writer's counter is below the bound when it captures, and has counted
\* the frame it writes.
Counting ==
    /\ writer = "capture" => count < MaxFrames
    /\ writer \in {"write", "result"} => count \in Frames

\* The one notice is given when the writer ends, and is in one place.
OneNotice ==
    \A d \in Displays :
        /\ writer # "ended" => outbox[d] \in Plain /\ cache[d] \in Plain
        /\ outbox[d] \in Plain \/ cache[d] \in Plain

\* Who holds a display's mutex.
Locked ==
    \A d \in Displays :
        /\ mutex[d] = "listener" <=> listener[d] \in {"store", "copy", "unlock"}
        /\ display[d] \in {"test", "header", "clone"} => mutex[d] = "main"
        /\ listener[d] \in {"store", "copy"} => loan[d] # Notice

\* Header and pixels agree but while the listener is between the two, and main
\* clones the frame it has read the header of.
Agreed ==
    \A d \in Displays :
        /\ IF listener[d] = "copy" THEN stored[d] = loan[d] ELSE stored[d] = pixels[d]
        /\ display[d] = "clone" => image[d].header = stored[d]
        /\ display[d] = "show" => image[d].header = image[d].pixels

IInv ==
    /\ TypeOK
    /\ IsFiniteSet(matched)
    /\ Counting
    /\ OneNotice
    /\ Locked
    /\ Agreed

-----------------------------------------------------------------------------
\* A frame is neither a notice nor nothing.
LEMMA FrameNumbers ==
    /\ MaxFrames \in Nat
    /\ \A n \in Frames : n \in Nat /\ n # None /\ n # Notice
    /\ None # Notice
  BY MaxFramesAssumption DEF Frames, None, Notice

\* What is left of a history without its oldest entry.
LEMMA HistoryTail ==
    ASSUME NEW h \in Histories, h # << >>
    PROVE  /\ Head(h) \in Frames \cup {Notice}
           /\ Tail(h) \in Histories
           /\ Head(h) = Notice => h = << Notice >> /\ Tail(h) = << >>
           /\ h \in Plain => Tail(h) = << >> /\ Head(h) \in Frames
  <1>1. CASE h = << Notice >>
    <2>1. h \notin Plain
      BY <1>1, FrameNumbers DEF Plain
    <2> QED
      BY <1>1, <2>1 DEF Histories
  <1>2. CASE \E n \in Frames : h = << n >>
    BY <1>2, FrameNumbers DEF Histories
  <1>3. CASE \E n \in Frames : h = << n, Notice >>
    <2>1. PICK n \in Frames : h = << n, Notice >>
      BY <1>3
    <2>2. Head(h) = n /\ Tail(h) = << Notice >> /\ Len(h) = 2
      BY <2>1
    <2>3. h \notin Plain
      BY <2>2 DEF Plain
    <2> QED
      BY <2>2, <2>3, FrameNumbers DEF Histories
  <1> QED
    BY <1>1, <1>2, <1>3 DEF Histories

\* A notice may follow whatever came before it.
LEMMA NoticeFollows ==
    ASSUME NEW h \in Plain PROVE Append(h, Notice) \in Histories
  <1>1. CASE h = << >>
    BY <1>1 DEF Histories
  <1>2. CASE \E n \in Frames : h = << n >>
    <2>1. PICK n \in Frames : h = << n >>
      BY <1>2
    <2>2. Append(h, Notice) = << n, Notice >>
      <3>1. h \in Seq(Int) /\ << n, Notice >> \in Seq(Int) /\ Append(h, Notice) \in Seq(Int)
        BY <2>1, FrameNumbers DEF Notice
      <3>2. Len(Append(h, Notice)) = 2 /\ Len(<< n, Notice >>) = 2
        BY <2>1, <3>1
      <3>3. Append(h, Notice)[1] = n /\ Append(h, Notice)[2] = Notice
        BY <2>1, <3>1
      <3>4. \A i \in 1 .. Len(Append(h, Notice)) : Append(h, Notice)[i] = << n, Notice >>[i]
        BY <3>2, <3>3
      <3> QED
        BY <3>1, <3>2, <3>4, SeqEqual, Zenon
    <2> QED
      BY <2>2 DEF Histories
  <1> QED
    BY <1>1, <1>2 DEF Plain

\* A history without a notice is a history.
LEMMA PlainHistories == Plain \subseteq Histories /\ << >> \in Plain
  BY DEF Plain, Histories

-----------------------------------------------------------------------------
\* The invariant holds initially.
LEMMA InitInv == Init => IInv
  <1> SUFFICES ASSUME Init PROVE IInv
    OBVIOUS
  <1>1. TypeOK
    <2>1. /\ run \in BOOLEAN /\ connected \in BOOLEAN /\ broken \in BOOLEAN
          /\ signal \in [Displays -> BOOLEAN] /\ fresh \in [Displays -> BOOLEAN]
      BY Zenon DEF Init
    <2>2. /\ count \in 0 .. MaxFrames /\ reports \in Seq(Nat) /\ matched \in SUBSET Displays
          /\ outbox \in [Displays -> Histories] /\ cache \in [Displays -> Histories]
      BY PlainHistories, FrameNumbers DEF Init
    <2>3. /\ loan \in [Displays -> Frames \cup {None, Notice}]
          /\ stored \in [Displays -> Frames \cup {None}]
          /\ pixels \in [Displays -> Frames \cup {None}]
          /\ shown \in [Displays -> Frames \cup {None}]
          /\ image \in [Displays -> [header : Frames \cup {None}, pixels : Frames \cup {None}]]
      BY DEF Init
    <2> QED
      BY <2>1, <2>2, <2>3 DEF Init, TypeOK
  <1>2. IsFiniteSet(matched)
    BY FS_EmptySet DEF Init
  <1>3. Counting /\ OneNotice /\ Locked /\ Agreed
    BY PlainHistories DEF Init, Counting, OneNotice, Locked, Agreed
  <1> QED
    BY <1>1, <1>2, <1>3 DEF IInv

\* A step of the writer thread.
LEMMA WriterInv == ASSUME IInv, WriterStep PROVE IInv'
  <1>1. UNCHANGED << matched, reports, cacheVars, listener, loan, mutex, objectVars, displayVars,
                     run, connected, capture, broken >>
    BY DEF WriterStep, WriterLoop, WriterPoll, WriterCapture, WriterWrite, WriterResult, netVars
  <1>2. (Locked /\ Agreed /\ IsFiniteSet(matched))'
    BY <1>1 DEF IInv, Locked, Agreed, displayVars, objectVars
  <1>3. /\ writer' \in {"loop", "poll", "capture", "write", "result", "ended"}
        /\ rc' \in {"OK", "TIMEOUT", "ERROR"}
        /\ count' \in 0 .. MaxFrames
        /\ Counting'
    BY FrameNumbers DEF IInv, TypeOK, Counting, WriterStep, WriterLoop, WriterPoll, WriterCapture,
       WriterWrite, WriterResult, WriterGoes, netVars, Frames
  <1>4. outbox' \in [Displays -> Histories] /\ OneNotice'
    <2>1. CASE WriterLoop /\ ~run
      <3>1. /\ writer = "loop" /\ writer' = "ended" /\ cache' = cache
            /\ outbox' = [d \in Displays |-> IF d \in matched THEN Append(outbox[d], Notice)
                                             ELSE outbox[d]]
        BY <2>1 DEF WriterLoop, WriterGoes, cacheVars
      <3>2. \A d \in Displays : outbox[d] \in Plain /\ cache[d] \in Plain
        BY <3>1 DEF IInv, OneNotice
      <3>3. \A d \in Displays : outbox'[d] \in Histories
        BY <3>1, <3>2, NoticeFollows, PlainHistories
      <3>4. outbox' \in [Displays -> Histories]
        BY <3>1, <3>3
      <3> QED
        BY <3>1, <3>2, <3>4 DEF OneNotice
    <2>2. CASE WriterWrite /\ rc' = "OK"
      <3>1. /\ writer = "write" /\ cache' = cache /\ writer' = "result"
            /\ outbox' = [d \in Displays |-> IF d \in matched THEN << count >> ELSE outbox[d]]
        BY <2>2 DEF WriterWrite, WriterGoes, cacheVars
      <3>2. << count >> \in Plain
        BY <3>1 DEF IInv, Counting, Plain
      <3>3. \A d \in Displays : outbox'[d] \in Plain /\ cache'[d] \in Plain
        BY <3>1, <3>2 DEF IInv, OneNotice
      <3> QED
        BY <3>1, <3>3, PlainHistories DEF OneNotice
    <2>3. CASE UNCHANGED outbox /\ writer # "ended"
      BY <2>3, <1>1 DEF IInv, TypeOK, OneNotice, cacheVars
    <2> QED
      BY <2>1, <2>2, <2>3 DEF WriterStep, WriterLoop, WriterPoll, WriterCapture, WriterWrite,
         WriterResult, netVars
  <1>5. TypeOK'
    BY <1>1, <1>3, <1>4 DEF IInv, TypeOK, cacheVars, objectVars, displayVars
  <1> QED
    BY <1>2, <1>3, <1>4, <1>5 DEF IInv

\* The other steps of video_capture.
LEMMA CaptureInv ==
    ASSUME IInv, OnPublicationMatched \/ StopCapture \/ JoinWriter \/ Break
    PROVE  IInv'
  <1>1. UNCHANGED << writer, rc, count, cacheVars, listener, loan, mutex, objectVars, displayVars >>
    BY DEF OnPublicationMatched, StopCapture, JoinWriter, Break
  <1>2. (Locked /\ Agreed /\ Counting)'
    BY <1>1 DEF IInv, Locked, Agreed, Counting, displayVars, objectVars
  <1>3. /\ matched' \in SUBSET Displays /\ IsFiniteSet(matched')
        /\ outbox' \in [Displays -> Histories] /\ OneNotice'
    <2>1. CASE UNCHANGED << matched, outbox >>
      BY <2>1, <1>1 DEF IInv, TypeOK, OneNotice, cacheVars
    <2>2. CASE matched' = {} /\ outbox' = [d \in Displays |-> << >>]
      BY <2>2, <1>1, FS_EmptySet, PlainHistories DEF IInv, OneNotice, cacheVars
    <2> QED
      BY <2>1, <2>2 DEF OnPublicationMatched, StopCapture, JoinWriter, Break, netVars
  <1>4. reports' \in Seq(Nat)
    <2>1. CASE OnPublicationMatched
      BY <2>1 DEF IInv, TypeOK, OnPublicationMatched
    <2>2. CASE JoinWriter
      BY <2>2 DEF JoinWriter
    <2>3. CASE StopCapture \/ Break
      BY <2>3 DEF IInv, TypeOK, StopCapture, Break, netVars
    <2> QED
      BY <2>1, <2>2, <2>3
  <1>5. capture' \in {"waiting", "joining", "done"}
    BY DEF IInv, TypeOK, OnPublicationMatched, StopCapture, JoinWriter, Break
  <1>6. run' \in BOOLEAN /\ connected' \in BOOLEAN /\ broken' \in BOOLEAN
    <2>1. (Head(reports) # 0) \in BOOLEAN
      OBVIOUS
    <2>2. CASE OnPublicationMatched
      BY <2>1, <2>2, Zenon DEF IInv, TypeOK, OnPublicationMatched
    <2>3. CASE StopCapture \/ JoinWriter \/ Break
      BY <2>3, Zenon DEF IInv, TypeOK, StopCapture, JoinWriter, Break
    <2> QED
      BY <2>2, <2>3
  <1>7. TypeOK'
    BY <1>1, <1>3, <1>4, <1>5, <1>6 DEF IInv, TypeOK, cacheVars, objectVars, displayVars
  <1> QED
    BY <1>2, <1>3, <1>7 DEF IInv

-----------------------------------------------------------------------------
\* The middleware, and a display that hangs or leaves.
LEMMA NetInv ==
    ASSUME IInv, NEW d \in Displays,
           Match(d) \/ Unmatch(d) \/ Deliver(d) \/ GetStuck(d) \/ Leave(d) \/ DeleteReader(d)
    PROVE  IInv'
  <1>1. UNCHANGED << captureVars, listener, loan, mutex, objectVars, image, shown >>
    BY DEF Match, Unmatch, Deliver, GetStuck, Leave, DeleteReader, displayVars
  <1>2. /\ display' \in [Displays -> {"off", "loop", "test", "header", "clone", "show", "leaving",
                                     "left", "stuck"}]
        /\ \A e \in Displays : display'[e] \in {"test", "header", "clone", "show"}
                                 => display'[e] = display[e]
    BY DEF IInv, TypeOK, Match, Unmatch, Deliver, GetStuck, Leave, DeleteReader, DisplayGoes,
       displayVars
  <1>3. (Locked /\ Agreed /\ Counting)'
    BY <1>1, <1>2 DEF IInv, Locked, Agreed, Counting, captureVars, objectVars
  <1>4. matched' \in SUBSET Displays /\ IsFiniteSet(matched') /\ reports' \in Seq(Nat)
    <2>1. CASE Match(d)
      <3>1. matched' = matched \cup {d} /\ reports' = Append(reports, Cardinality(matched'))
        BY <2>1 DEF Match, Matchings
      <3>2. IsFiniteSet(matched')
        BY <3>1, FS_AddElement DEF IInv
      <3>3. Cardinality(matched') \in Nat
        BY <3>2, FS_CardinalityType
      <3> QED
        BY <3>1, <3>2, <3>3 DEF IInv, TypeOK
    <2>2. CASE Unmatch(d)
      <3>1. matched' = matched \ {d} /\ reports' = Append(reports, Cardinality(matched'))
        BY <2>2 DEF Unmatch, Matchings
      <3>2. IsFiniteSet(matched')
        BY <3>1, FS_RemoveElement DEF IInv
      <3>3. Cardinality(matched') \in Nat
        BY <3>2, FS_CardinalityType
      <3> QED
        BY <3>1, <3>2, <3>3 DEF IInv, TypeOK
    <2>3. CASE UNCHANGED << matched, reports >>
      BY <2>3 DEF IInv, TypeOK
    <2> QED
      BY <2>1, <2>2, <2>3 DEF Deliver, GetStuck, Leave, DeleteReader, netVars
  <1>5. /\ outbox' \in [Displays -> Histories] /\ cache' \in [Displays -> Histories]
        /\ OneNotice'
    <2>1. CASE Unmatch(d)
      <3>1. outbox' = [outbox EXCEPT ![d] = << >>] /\ cache' = cache /\ writer' = writer
        BY <2>1 DEF Unmatch, captureVars, cacheVars
      <3> QED
        BY <3>1, PlainHistories DEF IInv, TypeOK, OneNotice
    <2>2. CASE Deliver(d)
      <3> DEFINE h == outbox[d]
      <3>1. /\ h \in Histories /\ h # << >> /\ writer' = writer
            /\ outbox' = [outbox EXCEPT ![d] = Tail(h)]
        BY <2>2 DEF IInv, TypeOK, Deliver, captureVars
      <3>2. \/ cache' = cache
            \/ cache' = [cache EXCEPT ![d] = IF Head(h) = Notice THEN Append(@, Notice)
                                              ELSE << Head(h) >>]
        BY <2>2 DEF Deliver, cacheVars
      <3>3. /\ Head(h) \in Frames \cup {Notice}
            /\ Tail(h) \in Histories
            /\ Head(h) = Notice => h = << Notice >> /\ Tail(h) = << >>
            /\ h \in Plain => Tail(h) = << >> /\ Head(h) \in Frames
        BY <3>1, HistoryTail
      <3>4. outbox' \in [Displays -> Histories]
        BY <3>1, <3>3 DEF IInv, TypeOK
      <3>5. CASE Head(h) = Notice
        <4>1. h \notin Plain
          BY <3>3, <3>5, FrameNumbers
        <4>2. cache[d] \in Plain /\ writer = "ended" /\ Append(cache[d], Notice) \in Histories
          BY <4>1, NoticeFollows DEF IInv, OneNotice
        <4>3. cache' \in [Displays -> Histories]
          BY <3>2, <3>5, <4>2 DEF IInv, TypeOK
        <4> QED
          BY <3>1, <3>2, <3>3, <3>4, <3>5, <4>2, <4>3, PlainHistories DEF IInv, TypeOK, OneNotice
      <3>6. CASE Head(h) # Notice
        <4>1. << Head(h) >> \in Plain
          BY <3>3, <3>6 DEF Plain
        <4>2. cache' \in [Displays -> Histories]
          BY <3>2, <3>6, <4>1, PlainHistories DEF IInv, TypeOK
        <4>3. cache'[d] \in Plain \/ cache'[d] = cache[d]
          BY <3>2, <3>6, <4>1 DEF IInv, TypeOK
        <4>4. h \in Plain => Tail(h) \in Plain
          BY <3>3, PlainHistories
        <4> QED
          BY <3>1, <3>2, <3>4, <3>6, <4>2, <4>3, <4>4 DEF IInv, TypeOK, OneNotice
      <3> QED
        BY <3>5, <3>6
    <2>3. CASE UNCHANGED << outbox, cache >>
      BY <1>1, <2>3 DEF IInv, TypeOK, OneNotice, captureVars
    <2> QED
      BY <2>1, <2>2, <2>3 DEF Match, GetStuck, Leave, DeleteReader, netVars, cacheVars
  <1>6. signal' \in [Displays -> BOOLEAN]
    <2>1. signal' = signal \/ signal' = [signal EXCEPT ![d] = TRUE]
      BY DEF Match, Unmatch, Deliver, GetStuck, Leave, DeleteReader, cacheVars
    <2> QED
      BY <2>1 DEF IInv, TypeOK
  <1>7. TypeOK'
    BY <1>1, <1>2, <1>4, <1>5, <1>6 DEF IInv, TypeOK, captureVars, objectVars
  <1> QED
    BY <1>3, <1>4, <1>5, <1>7 DEF IInv

\* The listener of a display.
LEMMA ListenerInv == ASSUME IInv, NEW d \in Displays, ListenerStep(d) PROVE IInv'
  <1>1. /\ UNCHANGED << captureVars, netVars, displayVars >>
    BY DEF ListenerStep, OnDataAvailable, ListenerLock, ListenerStore, ListenerCopy, ListenerUnlock
  <1>2. (Counting /\ IsFiniteSet(matched))'
    BY <1>1 DEF IInv, Counting, captureVars, netVars
  <1>3. cache' \in [Displays -> Histories] /\ OneNotice'
    <2>1. CASE cache' = cache
      BY <1>1, <2>1 DEF IInv, TypeOK, OneNotice, captureVars, netVars
    <2>2. CASE cache[d] # << >> /\ cache' = [cache EXCEPT ![d] = Tail(@)]
      <3>1. Tail(cache[d]) \in Histories /\ (cache[d] \in Plain => Tail(cache[d]) \in Plain)
        BY <2>2, HistoryTail, PlainHistories DEF IInv, TypeOK
      <3> QED
        BY <1>1, <2>2, <3>1 DEF IInv, TypeOK, OneNotice, captureVars, netVars
    <2> QED
      BY <2>1, <2>2 DEF ListenerStep, OnDataAvailable, ListenerLock, ListenerStore, ListenerCopy,
         ListenerUnlock, cacheVars
  <1>4. loan' \in [Displays -> Frames \cup {None, Notice}]
    <2>1. cache[d] # << >> => Head(cache[d]) \in Frames \cup {Notice}
      BY HistoryTail DEF IInv, TypeOK
    <2> QED
      BY <2>1 DEF IInv, TypeOK, ListenerStep, OnDataAvailable, ListenerLock, ListenerStore,
         ListenerCopy, ListenerUnlock
  <1>5. /\ listener' \in [Displays -> {"idle", "lock", "store", "copy", "unlock"}]
        /\ mutex' \in [Displays -> {"free", "listener", "main"}]
        /\ Locked'
    <2>1. CASE OnDataAvailable(d)
      BY <1>1, <2>1 DEF IInv, TypeOK, Locked, OnDataAvailable, ListenerGoes, displayVars
    <2>2. CASE ListenerLock(d)
      BY <1>1, <2>2 DEF IInv, TypeOK, Locked, ListenerLock, ListenerGoes, displayVars
    <2>3. CASE ListenerStore(d)
      BY <1>1, <2>3 DEF IInv, TypeOK, Locked, ListenerStore, ListenerGoes, displayVars
    <2>4. CASE ListenerCopy(d)
      BY <1>1, <2>4 DEF IInv, TypeOK, Locked, ListenerCopy, ListenerGoes, displayVars
    <2>5. CASE ListenerUnlock(d)
      BY <1>1, <2>5 DEF IInv, TypeOK, Locked, ListenerUnlock, ListenerGoes, displayVars
    <2> QED
      BY <2>1, <2>2, <2>3, <2>4, <2>5 DEF ListenerStep
  <1>6. signal' \in [Displays -> BOOLEAN] /\ fresh' \in [Displays -> BOOLEAN]
    <2>1. signal' = signal \/ signal' = [signal EXCEPT ![d] = FALSE]
      BY DEF ListenerStep, OnDataAvailable, ListenerLock, ListenerStore, ListenerCopy,
         ListenerUnlock, cacheVars
    <2>2. fresh' = fresh \/ fresh' = [fresh EXCEPT ![d] = TRUE]
      BY DEF ListenerStep, OnDataAvailable, ListenerLock, ListenerStore, ListenerCopy,
         ListenerUnlock, objectVars
    <2> QED
      BY <2>1, <2>2 DEF IInv, TypeOK
  <1>7. /\ stored' \in [Displays -> Frames \cup {None}] /\ pixels' \in [Displays -> Frames \cup {None}]
        /\ Agreed'
    <2>1. CASE ListenerStore(d)
      <3>1. loan[d] \in Frames \cup {None} /\ display[d] \notin {"test", "header", "clone"}
        BY <2>1, FrameNumbers DEF IInv, TypeOK, Locked, ListenerStore
      <3> QED
        BY <1>1, <2>1, <3>1 DEF IInv, TypeOK, Agreed, ListenerStore, ListenerGoes, displayVars
    <2>2. CASE ListenerCopy(d)
      <3>1. loan[d] \in Frames \cup {None}
        BY <2>2, FrameNumbers DEF IInv, TypeOK, Locked, ListenerCopy
      <3> QED
        BY <1>1, <2>2, <3>1 DEF IInv, TypeOK, Agreed, ListenerCopy, ListenerGoes, displayVars
    <2>3. CASE OnDataAvailable(d) \/ ListenerLock(d) \/ ListenerUnlock(d)
      BY <1>1, <2>3 DEF IInv, TypeOK, Agreed, OnDataAvailable, ListenerLock, ListenerUnlock,
         ListenerGoes, displayVars, objectVars
    <2> QED
      BY <2>1, <2>2, <2>3 DEF ListenerStep
  <1>8. TypeOK'
    BY <1>1, <1>3, <1>4, <1>5, <1>6, <1>7 DEF IInv, TypeOK, captureVars, netVars, displayVars
  <1> QED
    BY <1>2, <1>3, <1>5, <1>7, <1>8 DEF IInv

\* The main loop of a display.
LEMMA DisplayInv == ASSUME IInv, NEW d \in Displays, DisplayStep(d) PROVE IInv'
  <1>1. UNCHANGED << captureVars, netVars, cacheVars, listener, loan, stored, pixels >>
    BY DEF DisplayStep, GetImage, TestFresh, ReadHeader, ClonePixels, Show, objectVars
  <1>2. (Counting /\ OneNotice /\ IsFiniteSet(matched))'
    BY <1>1 DEF IInv, Counting, OneNotice, captureVars, netVars, cacheVars
  <1>3. /\ display' \in [Displays -> {"off", "loop", "test", "header", "clone", "show", "leaving",
                                     "left", "stuck"}]
        /\ mutex' \in [Displays -> {"free", "listener", "main"}]
        /\ Locked'
    <2>1. CASE GetImage(d)
      BY <1>1, <2>1 DEF IInv, TypeOK, Locked, GetImage, DisplayGoes
    <2>2. CASE TestFresh(d)
      <3>1. /\ display[d] = "test"
            /\ \/ display' = [display EXCEPT ![d] = "header"] /\ mutex' = mutex
               \/ display' = [display EXCEPT ![d] = "loop"] /\ mutex' = [mutex EXCEPT ![d] = "free"]
        BY <2>2, Zenon DEF TestFresh, DisplayGoes
      <3>2. CASE display' = [display EXCEPT ![d] = "header"] /\ mutex' = mutex
        BY <1>1, <3>1, <3>2 DEF IInv, TypeOK, Locked
      <3>3. CASE display' = [display EXCEPT ![d] = "loop"] /\ mutex' = [mutex EXCEPT ![d] = "free"]
        BY <1>1, <3>1, <3>3 DEF IInv, TypeOK, Locked
      <3> QED
        BY <3>1, <3>2, <3>3
    <2>3. CASE ReadHeader(d)
      BY <1>1, <2>3 DEF IInv, TypeOK, Locked, ReadHeader, DisplayGoes
    <2>4. CASE ClonePixels(d)
      BY <1>1, <2>4 DEF IInv, TypeOK, Locked, ClonePixels, DisplayGoes
    <2>5. CASE Show(d)
      BY <1>1, <2>5 DEF IInv, TypeOK, Locked, Show, DisplayGoes
    <2> QED
      BY <2>1, <2>2, <2>3, <2>4, <2>5 DEF DisplayStep
  <1>4. fresh' \in [Displays -> BOOLEAN]
    <2>1. fresh' = fresh \/ fresh' = [fresh EXCEPT ![d] = FALSE]
      BY DEF DisplayStep, GetImage, TestFresh, ReadHeader, ClonePixels, Show, objectVars
    <2> QED
      BY <2>1 DEF IInv, TypeOK
  <1>5. /\ image' \in [Displays -> [header : Frames \cup {None}, pixels : Frames \cup {None}]]
        /\ shown' \in [Displays -> Frames \cup {None}]
        /\ Agreed'
    <2>1. CASE ReadHeader(d)
      <3>1. /\ display' = [display EXCEPT ![d] = "clone"] /\ shown' = shown
            /\ image' = [image EXCEPT ![d].header = stored[d]]
        BY <2>1 DEF ReadHeader, DisplayGoes
      <3>2. image' \in [Displays -> [header : Frames \cup {None}, pixels : Frames \cup {None}]]
        <4> DEFINE Images == [header : Frames \cup {None}, pixels : Frames \cup {None}]
        <4>1. image \in [Displays -> Images] /\ stored[d] \in Frames \cup {None}
          BY DEF IInv, TypeOK
        <4>2. [image[d] EXCEPT !.header = stored[d]] \in Images
          BY <4>1
        <4>3. image' = [image EXCEPT ![d] = [image[d] EXCEPT !.header = stored[d]]]
          BY <3>1, <4>1
        <4> HIDE DEF Images
        <4>4. image' \in [Displays -> Images]
          BY <4>1, <4>2, <4>3
        <4> QED
          BY <4>4 DEF Images
      <3>3. image'[d].header = stored[d] /\ \A e \in Displays \ {d} : image'[e] = image[e]
        BY <3>1 DEF IInv, TypeOK
      <3>4. display'[d] = "clone" /\ \A e \in Displays \ {d} : display'[e] = display[e]
        BY <3>1 DEF IInv, TypeOK
      <3>5. Agreed'
        BY <1>1, <3>3, <3>4 DEF IInv, Agreed
      <3> QED
        BY <3>1, <3>2, <3>5 DEF IInv, TypeOK
    <2>2. CASE ClonePixels(d)
      <3>1. listener[d] # "copy"
        BY <2>2 DEF IInv, TypeOK, Locked, ClonePixels
      <3> QED
        BY <1>1, <2>2, <3>1 DEF IInv, TypeOK, Agreed, ClonePixels, DisplayGoes
    <2>3. CASE Show(d)
      BY <1>1, <2>3 DEF IInv, TypeOK, Agreed, Show, DisplayGoes
    <2>4. CASE GetImage(d) \/ TestFresh(d)
      BY <1>1, <2>4 DEF IInv, TypeOK, Agreed, GetImage, TestFresh, DisplayGoes
    <2> QED
      BY <2>1, <2>2, <2>3, <2>4 DEF DisplayStep
  <1>6. TypeOK'
    BY <1>1, <1>3, <1>4, <1>5 DEF IInv, TypeOK, captureVars, netVars, cacheVars
  <1> QED
    BY <1>2, <1>3, <1>5, <1>6 DEF IInv

-----------------------------------------------------------------------------
\* IInv is an invariant of the pipeline.
LEMMA Invariance == Spec => []IInv
  <1>1. IInv /\ [Next]_vars => IInv'
    <2> SUFFICES ASSUME IInv, [Next]_vars PROVE IInv'
      OBVIOUS
    <2>1. CASE WriterStep
      BY <2>1, WriterInv
    <2>2. CASE OnPublicationMatched \/ StopCapture \/ JoinWriter \/ Break
      BY <2>2, CaptureInv
    <2>3. ASSUME NEW d \in Displays,
                 Match(d) \/ Unmatch(d) \/ Deliver(d) \/ GetStuck(d) \/ Leave(d) \/ DeleteReader(d)
          PROVE  IInv'
      BY <2>3, NetInv
    <2>4. ASSUME NEW d \in Followed, ListenerStep(d) \/ DisplayStep(d)
          PROVE  IInv'
      BY <2>4, FollowedAssumption, ListenerInv, DisplayInv
    <2>5. CASE UNCHANGED vars
      BY <2>5 DEF IInv, TypeOK, Counting, OneNotice, Locked, Agreed, vars, captureVars, netVars,
         cacheVars, objectVars, displayVars
    <2> QED
      BY <2>1, <2>2, <2>3, <2>4, <2>5 DEF Next
  <1> QED
    BY InitInv, <1>1, PTL DEF Spec

\* For every set of displays and every number of frames, no display shows an image
\* put together from two frames.
THEOREM ImagesAlwaysWhole == Spec => []VideoInv
  <1>1. IInv => VideoInv
    BY FollowedAssumption DEF IInv, Agreed, VideoInv, ImageWhole
  <1> QED
    BY <1>1, Invariance, PTL
=============================================================================
