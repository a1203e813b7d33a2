-------------------------------- MODULE Video --------------------------------
(***************************************************************************)
(* The video pipeline of opencv_zzdds: video_capture, whose writer thread  *)
(* captures and writes frames while some display is matched, and any       *)
(* number of video_roi_display processes, whose listener stores the newest *)
(* frame for the main loop to show.                                        *)
(*                                                                         *)
(* A frame is its count; the pixels are abstracted to the count of the     *)
(* frame they belong to, kept apart from the other members so that a torn  *)
(* copy can be seen.  The middleware is external: reliable delivery with a *)
(* history of one frame, match reports that arrive late but in order.      *)
(***************************************************************************)
EXTENDS Integers, Sequences, FiniteSets

CONSTANTS
    Displays,
    Followed,    \* bound: the displays whose inside is modelled; the others only
                 \* receive, acknowledge, leave and get stuck
    MaxFrames    \* bound: frames the camera yields

ASSUME FollowedAssumption == Followed \subseteq Displays
ASSUME MaxFramesAssumption == MaxFrames \in Nat

Frames == 1 .. MaxFrames
None   == 0
Notice == -1         \* the sample without data that unregistering gives

VARIABLES
    run, connected,      \* the two flags of video_capture's main
    capture,             \* its main thread
    writer,              \* its writer thread
    rc,                  \* what the last write returned
    count,               \* frame.count
    broken,              \* writes fail for good
    matched,             \* displays the middleware has matched with the writer
    reports,             \* match counts not yet handed to the listener
    outbox,              \* per display, changes written and not yet acknowledged
    cache,               \* per display, samples received and not yet taken
    signal,              \* on_data_available is due
    listener, loan,      \* per display, its listener and the sample it took
    mutex,               \* who holds the listener object's mutex_
    stored, pixels,      \* frame_: its members and its data
    fresh,               \* new_frame_
    display,             \* per display, its main thread
    image,               \* the header and the pixels of the image main has cloned
    shown                \* the frame last shown

captureVars == << run, connected, capture, writer, rc, count, broken >>
netVars     == << matched, reports, outbox >>
cacheVars   == << cache, signal >>
objectVars  == << stored, pixels, fresh >>
displayVars == << display, image, shown >>
vars == << captureVars, netVars, cacheVars, listener, loan, mutex, objectVars, displayVars >>

\* What a history of depth one keeps of one instance: a frame, then a notice.
Histories == {<< >>, << Notice >>} \cup {<< n >> : n \in Frames} \cup {<< n, Notice >> : n \in Frames}

TypeOK ==
    /\ run \in BOOLEAN /\ connected \in BOOLEAN /\ broken \in BOOLEAN
    /\ capture \in {"waiting", "joining", "done"}
    /\ writer \in {"loop", "poll", "capture", "write", "result", "ended"}
    /\ rc \in {"OK", "TIMEOUT", "ERROR"}
    /\ count \in 0 .. MaxFrames
    /\ matched \in SUBSET Displays
    /\ reports \in Seq(Nat)
    /\ outbox \in [Displays -> Histories] /\ cache \in [Displays -> Histories]
    /\ signal \in [Displays -> BOOLEAN]
    /\ listener \in [Displays -> {"idle", "lock", "store", "copy", "unlock"}]
    /\ loan \in [Displays -> Frames \cup {None, Notice}]
    /\ mutex \in [Displays -> {"free", "listener", "main"}]
    /\ stored \in [Displays -> Frames \cup {None}] /\ pixels \in [Displays -> Frames \cup {None}]
    /\ fresh \in [Displays -> BOOLEAN]
    /\ display \in [Displays -> {"off", "loop", "test", "header", "clone", "show", "leaving", "left", "stuck"}]
    /\ image \in [Displays -> [header : Frames \cup {None}, pixels : Frames \cup {None}]]
    /\ shown \in [Displays -> Frames \cup {None}]

Init ==
    /\ run = TRUE /\ connected = FALSE /\ broken = FALSE
    /\ capture = "waiting" /\ writer = "loop" /\ rc = "OK" /\ count = 0
    /\ matched = {} /\ reports = << >>
    /\ outbox = [d \in Displays |-> << >>] /\ cache = [d \in Displays |-> << >>]
    /\ signal = [d \in Displays |-> FALSE]
    /\ listener = [d \in Displays |-> "idle"] /\ loan = [d \in Displays |-> None]
    /\ mutex = [d \in Displays |-> "free"]
    /\ stored = [d \in Displays |-> None] /\ pixels = [d \in Displays |-> None]
    /\ fresh = [d \in Displays |-> FALSE]
    /\ display = [d \in Displays |-> "off"]
    /\ image = [d \in Displays |-> [header |-> None, pixels |-> None]]
    /\ shown = [d \in Displays |-> None]
-----------------------------------------------------------------------------
(***************************************************************************)
(* video_capture.                                                          *)
(***************************************************************************)
WriterGoes(place) == writer' = place

\* The loop condition; after the loop the instance is unregistered.
WriterLoop ==
    /\ writer = "loop"
    /\ IF run
       THEN WriterGoes("poll") /\ UNCHANGED outbox
       ELSE /\ WriterGoes("ended")
            /\ outbox' = [d \in Displays |-> IF d \in matched THEN Append(outbox[d], Notice)
                                             ELSE outbox[d]]
    /\ UNCHANGED << run, connected, capture, rc, count, broken, matched, reports,
                    cacheVars, listener, loan, mutex, objectVars, displayVars >>

\* Nobody to write to: sleep and look again.  At the bound the camera yields
\* nothing more.
WriterPoll ==
    /\ writer = "poll"
    /\ WriterGoes(IF connected /\ count < MaxFrames THEN "capture" ELSE "loop")
    /\ UNCHANGED << run, connected, capture, rc, count, broken, netVars,
                    cacheVars, listener, loan, mutex, objectVars, displayVars >>

\* A frame beyond UHD is counted and skipped.
WriterCapture ==
    /\ writer = "capture"
    /\ count' = count + 1
    /\ WriterGoes("write") \/ WriterGoes("loop")
    /\ UNCHANGED << run, connected, capture, rc, broken, netVars,
                    cacheVars, listener, loan, mutex, objectVars, displayVars >>

\* write replaces a frame that is still unacknowledged, or times out on it.
WriterWrite ==
    /\ writer = "write"
    /\ \/ /\ ~broken /\ rc' = "OK"
          /\ outbox' = [d \in Displays |-> IF d \in matched THEN << count >> ELSE outbox[d]]
       \/ /\ ~broken /\ rc' = "TIMEOUT"
          /\ \E d \in matched : outbox[d] # << >>
          /\ UNCHANGED outbox
       \/ broken /\ rc' = "ERROR" /\ UNCHANGED outbox
    /\ WriterGoes("result")
    /\ UNCHANGED << run, connected, capture, count, broken, matched, reports,
                    cacheVars, listener, loan, mutex, objectVars, displayVars >>

\* Fault: every failure is retried, not the time-out alone.
WriteAgain_Faulty == connected /\ rc # "OK"

\* The retry loop looks at connected and rc, not at run.
WriteAgain == connected /\ rc = "TIMEOUT"

WriterResult ==
    /\ writer = "result"
    /\ WriterGoes(IF WriteAgain THEN "write" ELSE "loop")
    /\ UNCHANGED << run, connected, capture, rc, count, broken, netVars,
                    cacheVars, listener, loan, mutex, objectVars, displayVars >>

WriterStep == WriterLoop \/ WriterPoll \/ WriterCapture \/ WriterWrite \/ WriterResult

\* connected follows the match count the report carries.
OnPublicationMatched ==
    /\ reports # << >>
    /\ connected' = (Head(reports) # 0)
    /\ reports' = Tail(reports)
    /\ UNCHANGED << run, capture, writer, rc, count, broken, matched, outbox,
                    cacheVars, listener, loan, mutex, objectVars, displayVars >>

\* A line on stdin, or the seconds are over.
StopCapture ==
    /\ capture = "waiting"
    /\ run' = FALSE /\ capture' = "joining"
    /\ UNCHANGED << connected, writer, rc, count, broken, netVars,
                    cacheVars, listener, loan, mutex, objectVars, displayVars >>

\* writer.join(), then the entities are deleted with what is still unsent.
JoinWriter ==
    /\ capture = "joining" /\ writer = "ended"
    /\ capture' = "done"
    /\ matched' = {} /\ reports' = << >>
    /\ outbox' = [d \in Displays |-> << >>]
    /\ UNCHANGED << run, connected, writer, rc, count, broken,
                    cacheVars, listener, loan, mutex, objectVars, displayVars >>
-----------------------------------------------------------------------------
(***************************************************************************)
(* The middleware and what may go wrong around it.                         *)
(***************************************************************************)
Matchings(m) == reports' = Append(reports, Cardinality(m))

\* A display starts and is matched; the topic is volatile, so it gets what is
\* written from now on.
Match(d) ==
    /\ display[d] = "off" /\ capture # "done"
    /\ display' = [display EXCEPT ![d] = "loop"]
    /\ matched' = matched \cup {d} /\ Matchings(matched')
    /\ UNCHANGED << captureVars, outbox, cacheVars, listener, loan, mutex, objectVars, image, shown >>

\* A display has deleted its reader, or a stuck one has lost its lease.
Unmatch(d) ==
    /\ d \in matched /\ display[d] \in {"left", "stuck"}
    /\ matched' = matched \ {d} /\ Matchings(matched')
    /\ outbox' = [outbox EXCEPT ![d] = << >>]
    /\ UNCHANGED << captureVars, cacheVars, listener, loan, mutex, objectVars, displayVars >>

\* The oldest change reaches the reader's cache, where a frame takes the place
\* of an older one, and is acknowledged.
Deliver(d) ==
    /\ outbox[d] # << >> /\ display[d] \notin {"off", "left", "stuck"}
    /\ outbox' = [outbox EXCEPT ![d] = Tail(@)]
    /\ IF d \in Followed
       THEN /\ cache' = [cache EXCEPT ![d] = IF Head(outbox[d]) = Notice THEN Append(@, Notice)
                                             ELSE << Head(outbox[d]) >>]
            /\ signal' = [signal EXCEPT ![d] = TRUE]
       ELSE UNCHANGED cacheVars
    /\ UNCHANGED << captureVars, matched, reports, listener, loan, mutex, objectVars, displayVars >>

\* A display's process stops running without leaving.
GetStuck(d) ==
    /\ display[d] \notin {"off", "left", "stuck"}
    /\ display' = [display EXCEPT ![d] = "stuck"]
    /\ UNCHANGED << captureVars, netVars, cacheVars, listener, loan, mutex, objectVars, image, shown >>

Break ==
    /\ ~broken /\ broken' = TRUE
    /\ UNCHANGED << run, connected, capture, writer, rc, count, netVars,
                    cacheVars, listener, loan, mutex, objectVars, displayVars >>
-----------------------------------------------------------------------------
(***************************************************************************)
(* video_roi_display: the listener, which runs in a thread of the          *)
(* middleware, and the main loop.                                          *)
(***************************************************************************)
Runs(d) == display[d] \notin {"off", "left", "stuck"}

ListenerGoes(d, place) == listener' = [listener EXCEPT ![d] = place]
DisplayGoes(d, place)  == display' = [display EXCEPT ![d] = place]

\* One sample is taken per call, before the lock.
OnDataAvailable(d) ==
    /\ Runs(d) /\ listener[d] = "idle" /\ signal[d]
    /\ signal' = [signal EXCEPT ![d] = FALSE]
    /\ IF cache[d] = << >>
       THEN UNCHANGED << cache, loan, listener >>
       ELSE /\ loan' = [loan EXCEPT ![d] = Head(cache[d])]
            /\ cache' = [cache EXCEPT ![d] = Tail(@)]
            /\ ListenerGoes(d, "lock")
    /\ UNCHANGED << captureVars, netVars, mutex, objectVars, displayVars >>

ListenerLock(d) ==
    /\ Runs(d) /\ listener[d] = "lock" /\ mutex[d] = "free"
    /\ mutex' = [mutex EXCEPT ![d] = "listener"]
    /\ ListenerGoes(d, IF loan[d] = Notice THEN "unlock" ELSE "store")
    /\ UNCHANGED << captureVars, netVars, cacheVars, loan, objectVars, displayVars >>

ListenerStore(d) ==
    /\ Runs(d) /\ listener[d] = "store"
    /\ stored' = [stored EXCEPT ![d] = loan[d]]
    /\ ListenerGoes(d, "copy")
    /\ UNCHANGED << captureVars, netVars, cacheVars, loan, mutex, pixels, fresh, displayVars >>

ListenerCopy(d) ==
    /\ Runs(d) /\ listener[d] = "copy"
    /\ pixels' = [pixels EXCEPT ![d] = loan[d]]
    /\ fresh' = [fresh EXCEPT ![d] = TRUE]
    /\ ListenerGoes(d, "unlock")
    /\ UNCHANGED << captureVars, netVars, cacheVars, loan, mutex, stored, displayVars >>

ListenerUnlock(d) ==
    /\ Runs(d) /\ listener[d] = "unlock"
    /\ mutex' = [mutex EXCEPT ![d] = "free"]
    /\ loan' = [loan EXCEPT ![d] = None]
    /\ ListenerGoes(d, "idle")
    /\ UNCHANGED << captureVars, netVars, cacheVars, objectVars, displayVars >>

\* Fault: get_image does not take the mutex.
GetImage_Faulty(d) ==
    /\ display[d] = "loop"
    /\ DisplayGoes(d, "test")
    /\ UNCHANGED << captureVars, netVars, cacheVars, listener, loan, mutex, objectVars, image, shown >>

GetImage(d) ==
    /\ display[d] = "loop" /\ mutex[d] = "free"
    /\ mutex' = [mutex EXCEPT ![d] = "main"]
    /\ DisplayGoes(d, "test")
    /\ UNCHANGED << captureVars, netVars, cacheVars, listener, loan, objectVars, image, shown >>

TestFresh(d) ==
    /\ display[d] = "test"
    /\ fresh' = [fresh EXCEPT ![d] = FALSE]
    /\ IF fresh[d]
       THEN DisplayGoes(d, "header") /\ UNCHANGED mutex
       ELSE DisplayGoes(d, "loop") /\ mutex' = [mutex EXCEPT ![d] = "free"]
    /\ UNCHANGED << captureVars, netVars, cacheVars, listener, loan, stored, pixels, image, shown >>

ReadHeader(d) ==
    /\ display[d] = "header"
    /\ image' = [image EXCEPT ![d].header = stored[d]]
    /\ DisplayGoes(d, "clone")
    /\ UNCHANGED << captureVars, netVars, cacheVars, listener, loan, mutex, objectVars, shown >>

ClonePixels(d) ==
    /\ display[d] = "clone"
    /\ image' = [image EXCEPT ![d].pixels = pixels[d]]
    /\ mutex' = [mutex EXCEPT ![d] = "free"]
    /\ DisplayGoes(d, "show")
    /\ UNCHANGED << captureVars, netVars, cacheVars, listener, loan, objectVars, shown >>

\* Fault: the flag is cleared again once the image has been shown.
Show_Faulty(d) ==
    /\ display[d] = "show"
    /\ shown' = [shown EXCEPT ![d] = image[d].pixels]
    /\ fresh' = [fresh EXCEPT ![d] = FALSE]
    /\ DisplayGoes(d, "loop")
    /\ UNCHANGED << captureVars, netVars, cacheVars, listener, loan, mutex, stored, pixels, image >>

\* imshow, or nothing when headless; then the pause of the loop.
Show(d) ==
    /\ display[d] = "show"
    /\ shown' = [shown EXCEPT ![d] = image[d].pixels]
    /\ DisplayGoes(d, "loop")
    /\ UNCHANGED << captureVars, netVars, cacheVars, listener, loan, mutex, objectVars, image >>

\* The seconds are over or a key is pressed; frames_received takes the mutex.
Leave(d) ==
    /\ display[d] = "loop" /\ mutex[d] = "free"
    /\ DisplayGoes(d, "leaving")
    /\ UNCHANGED << captureVars, netVars, cacheVars, listener, loan, mutex, objectVars, image, shown >>

\* delete_contained_entities waits for the callback that is running.
DeleteReader(d) ==
    /\ display[d] = "leaving" /\ listener[d] = "idle"
    /\ DisplayGoes(d, "left")
    /\ UNCHANGED << captureVars, netVars, cacheVars, listener, loan, mutex, objectVars, image, shown >>

ListenerStep(d) ==
    OnDataAvailable(d) \/ ListenerLock(d) \/ ListenerStore(d) \/ ListenerCopy(d) \/ ListenerUnlock(d)

DisplayStep(d) ==
    GetImage(d) \/ TestFresh(d) \/ ReadHeader(d) \/ ClonePixels(d) \/ Show(d)

Next ==
    \/ WriterStep
    \/ OnPublicationMatched
    \/ StopCapture
    \/ JoinWriter
    \/ Break
    \/ \E d \in Displays :
        \/ Match(d)
        \/ Unmatch(d)
        \/ Deliver(d)
        \/ GetStuck(d)
        \/ Leave(d)
        \/ DeleteReader(d)
    \/ \E d \in Followed :
        \/ ListenerStep(d)
        \/ DisplayStep(d)

Spec == Init /\ [][Next]_vars

\* The threads run and the middleware delivers, reports and expires leases.  The
\* listener gets the mutex in the pauses of the main loop, hence SF.  Nobody has
\* to start, stop, leave or fail.
FairSpec ==
    /\ Spec
    /\ WF_vars(WriterStep) /\ WF_vars(OnPublicationMatched) /\ WF_vars(JoinWriter)
    /\ \A d \in Displays :
        WF_vars(Unmatch(d)) /\ WF_vars(Deliver(d)) /\ WF_vars(DeleteReader(d))
    /\ \A d \in Followed :
        SF_vars(ListenerStep(d)) /\ WF_vars(DisplayStep(d))
-----------------------------------------------------------------------------
(***************************************************************************)
(* Properties.                                                             *)
(***************************************************************************)

\* The image a display shows is one frame: its size, type and pixels were not
\* taken from two frames that the listener stored one after the other.
ImageWhole ==
    \A d \in Followed : display[d] = "show" => image[d].header = image[d].pixels

\* The variables stay in their ranges, and no torn image is shown.
VideoInv == TypeOK /\ ImageWhole

\* A frame the listener has stored is shown, or a later one is, unless the
\* display ends: the flag that announces it is never lost.
StoredIsShown ==
    \A d \in Followed : \A n \in Frames :
        (listener[d] = "unlock" /\ pixels[d] = n) ~>
            (shown[d] >= n \/ display[d] \in {"leaving", "left", "stuck"})

\* video_capture ends once it is told to, although the retry loop does not look
\* at run, whatever its displays do and even if every write fails.
CaptureEnds == ~run ~> capture = "done"
=============================================================================
