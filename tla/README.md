# A verification development for zzdds-examples

zzdds-examples is a collection of small publish/subscribe programs, each written
four times (C++, C, Zig, Java) on top of the zzdds middleware, with smoke tests
that run every language's publisher against every other language's subscriber.
Each program is short. What is hard about it is what it shares with the
middleware: a dispatch thread that runs listeners while `main` polls, status
changes that happen before anybody listens, samples that arrive between two
calls, and a peer process that may fail, be late or be gone.

This directory models those programs in TLA+, checks them with TLC on small
instances, and proves some of the results for every value of the constants with
TLAPS. zzdds itself is not part of the repository: it is modelled, as *external*
actions, from how the programs use it and what their comments say of it.

## 1. Inventory

| Component | State it keeps | Operations | What is hard | What makes it correct |
|---|---|---|---|---|
| **hello_world** pair, `{cpp,c,zig,java}/hello_world` | publisher: `reader_ready`, `ever_matched`, `matched_current_count`; subscriber: `reader`, `expected_next`, `all_received` | attach a listener, wait for a reliable reader, write ten samples, wait for the reader to leave; check each count, delete the reader | flags stored one by one on one thread and loaded one by one on the other; the listener attached before (subscriber) or after (publisher) the state it needs; a volatile topic | no gap, an ordered hand-over, "done" only after the reader left, no process waits for ever |
| **catchup** pair, `*/catchup` | publisher as above without readiness; subscriber: `historical_received[]`, `live_received[]`, `historical_confirmed`, `all_done` | write the historical batch, wait for a match, write the live batch; block in `wait_for_historical_data`, count, confirm, wait for the live batch | two threads decide together that the run is complete; main counts flags the listener is storing; live samples arrive while main still waits for historical ones | never complete too early, never overlooked by both threads, the historical batch complete when counted |
| **waitset** pair, `*/waitset` | conditions (guard, status, read, query), a watchdog thread with a `stop` flag, `received`, `matched_logged` | `wait`, read a status, take by query, take the rest, stop and join the watchdog | `wait` returns a list that is old when it is used; reading a status resets it; two takes with a gap between them; the watchdog races completion | each sample once and under its own label, no lost wake-up, no thread left behind |
| **static pool allocator**, `{c,cpp}/custom-allocator/src/static_pool_allocator.c` | `g_free_list`, the links inside free blocks, `g_pool_mutex` | `alloc`, `free`, `resize`, `reset` | called by the application and by the middleware's own threads; the links live in memory callers write to | no block handed out twice, none lost, the chain never broken, NULL only when exhausted |
| **custom-allocator** pair and its **allocation guard** | `g_armed`, `g_resolving`, the bootstrap pool, resolved function pointers | interposed `malloc`/`calloc`/`realloc`/`free`, arm, disarm | looking up the real allocator allocates; arming while other threads run | no null call, no bootstrap block handed to the real `free`, trips only while armed |
| **presence** pair, `*/presence` | subscriber: `phase`, `step` | beacons under a 2 s lease, silence, recovery; a phase machine over liveliness changes | a lease that ends between two beacons; status changes that are merged | ONLINE, OFFLINE, ONLINE seen in that order, and only so |
| **registry** pair, `*/registry` | subscriber: a track per instance, `all_done` | register, write, dispose, unregister three instances | notices of several instances in one callback or several; the completion flag deferred to the callback's end | each instance ends in the state its last call gave it |
| **shape**, `*/shape` | options, the sample, `g_all_done`, per-topic readers and writers | publish or subscribe until a count, a timeout or an interrupt | coherent sets, a reader that never matches, an interrupt between two steps | the loop ends; nothing is printed for an instance that is gone |
| **participant-config** pair, `*/participant-config` | as hello_world | set and read back a configuration, then the hand-over of hello_world | the reader's listener attached after the reader exists | as hello_world, and no callback before the typed reader is there |
| **discovery** pair, `*/discovery` | as hello_world | look the local topic up, hand over, and in between look the matched reader and writer up | a lookup relies on a match another thread was told of earlier | a lookup finds nobody only if the other side has failed |
| **java/listener-pubsub** pair | subscriber: `received`, its monitor | poll for a match, write ten samples a second apart; count what a best-effort reader gets | no readiness, no drain: nothing ties the last sample to the publisher's exit | the subscriber's wait ends, woken or not |
| **opencv_zzdds** | `run`, `connected`, the newest frame | capture, write (retried on a timeout), display | a retry loop beside a shutdown | the writing thread is always joined |
| **smoke-test harness**, `_common.py`, `run_all.py`, `interop/*.py`, `scripts/*.py` | child processes, their output, deadlines | start, wait for a line, stop, kill | a child that does not answer; orders arranged by sleeping | no test blocks past its own limits |
| runners, build scripts, spikes | none | - | - | - |

Components interact in three ways: publisher and subscriber through the
middleware (match, handshake, samples, departure); a process's `main` and its
dispatch thread through atomics; and the allocator's callers through shared
memory. `PROJECT.json` lists every component with its status and every hazard
with its line.

## 2. Modules

| Module | Models | Built on |
|---|---|---|
| `Handover` | the abstract promise of a pair: an ordered hand-over without a gap, completion only with everything, "done" only after the other side has left | |
| `HelloWorld` | the hello_world, participant-config and discovery pairs in their four ports | `Handover` |
| `Catchup` | the catchup pair in its four ports | `Handover` |
| `WaitSet` | the waitset pair in its four ports | |
| `Registry` | the registry pair in its four ports, with the life of each instance | `Handover` |
| `Presence` | the presence pair in its four ports, with time | |
| `PoolService` | the abstract pool: each call takes effect at one instant | |
| `StaticPool` | the allocator, one shared access per step | `PoolService` |
| `CustomAllocator` | a process of the custom-allocator pair or of its bootstrap check: main, the middleware's threads, the allocation guard, over the pool | `StaticPool` |
| `Video` | video_capture with its writing thread, and the video_roi_display processes it serves | |
| `Shape` | publishers and a subscriber of the shape application, with its options | |
| `HelloWorldProofs`, `CatchupProofs`, `WaitSetProofs`, `PresenceProofs`, `RegistryProofs`, `VideoProofs`, `CustomAllocatorProofs` (also about `StaticPool`), `ShapeProofs` | theorems about the module they are named after | that module |
| `MC...` | values for the constants, for TLC | |

### How a pair is modelled

The four ports of an application run the same steps except in a few places. A
module states the program of each port as a record that maps a step of `main` to
the step after it (`CppPublisher`, `ZigSubscriber`, ...), and one action per step
whose behaviour the ports share. A behaviour picks a publisher port and a
subscriber port at the start, as the cross-binding smoke tests do.

`main` and the dispatch thread of a process interleave freely; every load or
store of a shared atomic, and every call into the middleware, is a step of its
own. So `on_publication_matched` takes two steps to store
`matched_current_count` and `ever_matched`, and the drain loop two steps to load
them. A polling loop is one guarded action: a poll that fails changes nothing.

Differences between ports that the modules keep:

* C, C++ and Java hello_world subscribers read the typed reader from state that
  `main` fills in after `create_datareader`; Zig builds it from the callback's
  argument (`HelloWorld!SubBind`, `TakeNull`). In participant-config and
  discovery the same three ports attach the listener last (`SubAttach`).
* C, C++ and Zig shut the middleware down on the way out, Java does not
  (`SubLeave`): a departure may be noticed before or after the process ends.
* Zig's catchup uses release stores and acquire loads, the others sequentially
  consistent atomics. A Zig store becomes visible to the other thread in a step
  of its own (`Catchup!BecomesVisible`).
* The C++ watchdog stops and joins its thread in its destructor, on every way
  out; the other ports return with the thread running when they fail
  (`fail |-> "unwind"` and `"failed"`).
* Zig's waitset subscriber counts what its takes return without looking at
  `valid_data` (`counts |-> "all"`).
* Zig's registry subscriber remembers that it has made the `lookup_instance`
  round trip in a flag of its own; the others infer it from `all_done` and
  `became_done` (`Registry!LookupAsked`).
* Zig's presence reader is created with its listener, the others attach it
  afterwards.
* The C++ shape subscriber looks a key up with `operator[]`, which inserts; the
  other ports' look-ups do not (`Shape!InsertsOnMiss`).

What the source does not settle is left open, as part of the environment `env`
of a behaviour: whether a status change that precedes the attachment of a
listener is reported on attachment (`replays`); whether the subscriber really starts late (`ordered`; the smoke test arranges it
with a sleep); whether samples written before the reader has matched are lost
(`lossy`); and whether the run is free of deadlines and failing calls (`smooth`).
`wait_for_historical_data` is taken at its word: it
"blocks until the cached historical batch has actually been delivered"
(`docs/design/catchup-reference-app.md`), delivered to the reader, whose listener may
still have to take it (`Catchup!SubAwaitHistory`). What a Java `take` does on an error
the source does not show; in hello_world and presence it is not modelled
(`TakeFails`).
In the registry pair it is also open whether a sample carries the instance state
of its own change or the state the instance is in when the sample is taken
(`stamped`). Safety properties hold for every environment unless they name one.

`HelloWorld` takes in two more applications, whose pairs hand over in the same
way: a behaviour also picks the application, and its programs differ where the
applications do. A lookup in discovery is a step of `main` that consults the
middleware's view (`PubLookup`, `SubLookup`); reader and writer are taken to
match in one step, so that neither end can be found before the other one.

The volatile topic of hello_world is modelled at its worst: what is written
before the reliable handshake is complete never arrives. That is what makes the
wait for `on_reliable_reader_ready` necessary, as
`docs/design/hello-world-reference-app.md` says it is.

The registry subscriber's listener keeps a track of each instance that no other
thread reads, so one turn of its take loop is one step; the middleware keeps the
order of changes within an instance, not between instances, and tells the reader
that every instance still alive has lost its writer once the publisher's process
is gone (`WriterLost`).

### How time is modelled

Nothing but time ties the two sides of the presence pair together, so `Presence`
counts ticks. A sleep, a message, the handshake, the middleware's look at an
expired lease and a callback may each be late by up to `Slack` ticks, and `Tick`
is enabled only while nothing is as late as it may be; computation takes no
time. `TimingAssumption` says what the durations must satisfy,
`BeaconPeriod + 2 * Slack < Lease` and `Lease + 2 * Slack < OfflineDuration`.
The first is sharp: with a `Slack` of 2 in the run below, a lease of 4 ends
between two beacons and `GenuineCycle` fails. The second is what it takes to be
certain that the silence is noticed. `on_data_available` of this pair prints and
touches no state; it is left out.

### How the pool is modelled

A block is a number, its first word an entry of `next`; a caller that owns a
block may overwrite the word at any time (`Use`). `pool_alloc` and `pool_free`
are a lock, one step per shared access, and an unlock. `freeList` is a history
variable: the free blocks in the order of the chain, which the code does not
store but which says what the chain should be. A request too large for a block
returns before the mutex and is not modelled; `pool_resize` touches no state.

### How a process of custom-allocator is modelled

`CustomAllocator` extends the pool by the process around it. Each of the three
mains is a sequence of stages (`Stages`: create, settle, arm, write, ...), with
the pool calls and heap calls a stage makes as steps that interleave with those
of the threads the middleware spawns. A heap call is a frame on its thread's
stack, because the guard's functions call each other through the library:
`ensure_real_fns` calls `dlsym`, `dlsym` may call `calloc`, and that `calloc`
enters the guard again; `trip` prints, and printing may call `malloc`. Every
access of `g_armed`, `g_resolving`, a `real_` pointer, the bootstrap counter and
the thread-local `t_in_trip` is a step of its own; only `g_armed` is atomic in
the source, and the model lets any thread come between any two accesses. A
release of a block takes a path of its own when the block is one of the
bootstrap pool's (`FreedUnseen`).

The environment decides whether `LD_PRELOAD` names the guard (`preloaded`) and
whether discovery is over within the two seconds main sleeps before it arms
(`settled`). Three bounds are named: `MaxPeers`, the remote participants
discovered in a run, each of which has a thread spawned for it; `BootSize`, the
calls the bootstrap pool can serve before it answers NULL; `LibraryOps`, which
heap functions main's own libraries call. Threads beyond `Threads` are not
followed: a spawn that finds none free is not taken.

### How the video pipeline is modelled

A frame is its count, with the header and the pixels of a stored frame kept
apart, so that an image put together from two frames can be told from a whole
one. The listener of a display takes one sample per callback, locks the mutex,
stores the members, copies the pixels, raises the flag and unlocks; main locks,
tests and clears the flag, copies header and pixels, unlocks, and shows. The
reader keeps a history of one: a frame takes the place of an older one, a notice
does not. A display may hang at any point without leaving (`GetStuck`), in which
case only the end of its lease unmatches it, and writes may fail for good
(`Break`). `Followed` bounds the displays whose inside is modelled, `MaxFrames`
the frames the camera yields.

### How shape is modelled

A sample is who wrote it, in which iteration and at which place of the
iteration; colours, sizes and coordinates are left out. `Options` lists the
combinations of command-line options and circumstances a behaviour picks from:
the subscriber's port, coherent and ordered access, the final change, the publishers that
run, topics, iterations, and whether the middleware matches the readers of all
topics at one instant (`together`). The access window of `begin_access` and
`end_access` is a limit per topic on what the reader shows (`limit`); either kind of
access opens it and gates the publisher (`gated`), but only coherent access, taken to be
of group scope, delivers a set to all topics at once. The key cache `ih_cache` is a value per instance: nothing, an empty string, or the
key (`colors`). The three ways of taking (`-R`, plain, by instance) differ in
the order in which instances come and are not told apart. The middleware delivers a
coherent set as the first changes on their way to each topic, all at one instant
(`DeliverSet`). A write, a last change or a wait for acknowledgments that fails otherwise
than by time-out ends the publisher (`PubFails`). When a publisher's participant is
gone, what was on its way is lost, and the reader drops it as a writer one instance at a
time, with a notice for each instance nobody else writes (`Depart`, `Orphan`).

## 3. Runs

| Run | Asks | Instance | States |
|---|---|---|---|
| `hello` | safety, refinement of `Handover`, and liveness of all sixteen port pairs of the three applications | 3 samples | 678 thousand |
| `hello_null_reader` | finding: take through an unassigned reader | 3 samples | stops at 13 steps |
| `catchup` | the joint completion decision, the cause of a short historical count, refinement, liveness | 2 + 2 samples | 376 thousand |
| `catchup_zig_completion` | finding: both threads miss the completion | 2 + 2 samples | stops |
| `pool` | the pool inside the processes that use it, each call atomic, and the guard | 3 threads, 2 blocks, 2 peers, a bootstrap pool of 1 | 2.5 million (symmetry) |
| `waitset` | labels, counts, wake-ups, watchdogs, liveness | 3 samples, 1 of high priority | 398 thousand |
| `waitset_zig_invalid` | finding: a notice counted as a sample | as above | stops |
| `registry` | false alarms, the completing call, refinement, liveness | 3 instances, 6 changes | 373 thousand |
| `presence` | is the reported cycle the real one, and is it always reported | 2 beacons a phase, period 1, lease 4, silence 10, slack 1 | 215 thousand |
| `video` | whole images, frames shown, the end of the capture | 2 displays, 1 of them followed, 2 frames | 325 thousand |
| `shape` | whole sets, last changes delivered, publishers that end | 1 publisher on 2 topics for 2 iterations, or 2 publishers on 1 topic for 1 | 2.2 million |
| `shape_cpp_cache` | finding: a notice that spoils the key cache | 2 publishers, C++ subscriber | stops |

**Bounds.** Three samples have a first, a middle and a last one, so a sample may
be lost, delivered between two takes, or last while others are in the cache; two
and two give each catchup batch a first and a last. Ten instead of three adds
repetitions of the middle. The registry's three instances and six changes are
all there are in the source. A presence tick is half a second: period, lease and
silence are the source's, and anything may be half a second late; two beacons a
phase instead of eight have a pause between them, before the first and
after the last. One subscriber is what every test starts. Main and two threads
over two blocks exhaust the pool and leave the chain in either order; two peers
let two threads trip at once, and a bootstrap pool of one serves a call and then
answers NULL. Main's libraries call `calloc` only: it is the function the look-up
itself needs, and every other one takes the same way through the guard. Two frames
let one overtake or tear the other; two displays let one hold the writer up while
the other goes on. In `shape`, two topics are what it takes to see one of them ahead
of the other, and two iterations to have a set arrive while another is read; two
publishers of one instance let one be done with it while the other still writes.
Where ports run equal programs the MC module asserts that they do
(`SamePrograms`) and takes one of them. `CHECK_DEADLOCK FALSE` appears where all
processes end: nothing is left to do then. The run `pool` checks deadlock; its
last step is a stuttering one that only a process that has ended can take
(`CustomAllocator!Ended`).

**Fairness.** `FairSpec` assumes that the operating system schedules each thread,
that polls and timers go on, and that the middleware gets round to every match,
handshake, delivery and departure. It never assumes that a deadline passes while
the awaited thing has happened (weak fairness on `main` as a whole, whose exits
by deadline are only enabled while it waits). Nor does it assume that anything fails:
a failing call (`Failures`, `CallFails`, `PubFails`) is an action of `Next` outside the
fair ones, so that what bounds a blocked `main` is its deadline, its watchdog or its peer,
never a failure that has to come. `BothExit` is for runs whose
deadlines do pass, `BothSucceed` for runs without deadlines or failures. In `Registry` the
middleware need not notice that the publisher is gone, and `BothSucceed` needs
samples that carry their own state and a listener that is told what it missed.
In `Presence` time passes (`Tick` is weakly fair), which together with what
`Tick` waits for bounds every delay. In `Video` the threads run and the
middleware delivers, reports matches and ends leases (weakly fair); the listener
competes for the mutex with a main loop that takes it again and again but sleeps
in between, so it is given strong fairness. Nobody is obliged to start, stop,
leave, hang or fail. In `Shape` only the publisher's own steps are fair: that it
ends must not depend on the middleware or the subscriber.

**Properties.** The deeper ones:

* `HelloWorld!NoGap` relates the publisher's wait on one thread, the handshake
  in the middleware and the listener's counter in the other process.
* `DoneAfterDeparture` (hello_world): two flags stored in sequence and loaded in
  sequence never show the drain loop a departure that has not happened. It would
  fail with the stores swapped, or with one of the loads left out.
* `WindowClosed`: attaching the listener after the typed reader is assigned does
  close the window that hello_world leaves open (finding 1), also when the
  middleware makes up for notifications that came before.
* `LookupFindsPeer` (discovery): the publisher looks its reader up because of a
  flag another thread stored earlier. That is right: nothing has been written,
  so only a failed subscriber can be gone by then.
* `KeepsPromise`: the pairs refine `Handover`, whose `Finish` and `Complete`
  tie the two processes together.
* `CatchupInv` (`DoneMeansBothBatches`) and `CompletionSeenSeqCst` (catchup): the
  decision the two threads take together is neither early nor lost.
* `ShortOnlyByLag` (catchup): `main` counts flags that the listener stores. Where the
  subscriber starts late and is told what it missed, a short count means that every
  historical sample has been delivered and that the listener's callback is pending or
  running, or its stores not yet visible. A wait that returned before the match would
  break it.
* `WaitSetInv` (`LabelsRight`), `AllReceivedIfValidated` (waitset): the race
  between the two takes, which the source describes as confirmed in practice,
  neither mislabels nor double-counts.
* `WaitSetInv` (`WatchdogJoined`), `BothExit` (waitset): the watchdog ends with its
  process and joining it never blocks.
* `NoFalseAlarm` (registry): whatever the order in which instances are taken and
  whichever notices share a callback, the fail-fast checks only fire when the
  publisher really failed halfway.
* `CompletingCallOver` and `RegistryInv` (`LookedUpOnce`) (registry): the completion
  flag is deferred to the callback's end, so that `main` never deletes the reader
  under the very call that completed the run. With the flag stored inside the loop
  it would.
* `PresenceInv` (`GenuineCycle`, `TwoOnlines`) (presence): OFFLINE comes from the
  silence, never from a late beacon, and no change is merged away.
* `NoDoubleHandout`, `NothingLost`, `ChainIntact`, `ActsAtomically` (pool): inside a
  process whose main and middleware threads all allocate from it.
* `NoWildCall` (pool): the guard's pointers, flag and counter are plain variables
  that any thread reads. They suffice because the first heap call is made, and
  ends, before there is a second thread, and because the order of the four
  look-ups fits what the look-up itself allocates.
* `NothingUnseen`, `ProcessInv` (`TripsOnce`): a thread that reports a trip is exempt
  from tripping again, and only that thread is.
* `SettledRunsQuiet`: when discovery is over by the time main arms, no program
  aborts. When it is not, a correct program may: the thread of a late peer is
  spawned from the heap.
* `VideoInv` (`ImageWhole`), `StoredIsShown` (video): an image is never put together
  from two frames, and no stored frame goes unnoticed although main clears the
  flag that the listener raises.
* `CaptureEnds` (video): the retry loop does not look at `run`. The capture ends
  all the same, since a display that does not acknowledge is unmatched in the end
  and any other failure leaves the loop.
* `SetsWhole` (shape): what the subscriber takes of a coherent set between
  `begin_access` and `end_access` is all of it, on all topics, or nothing, while
  further sets arrive.
* `FinalStateDelivered` (shape): a publisher that ends without a time-out has had
  its last changes acknowledged on every topic.
* `PublisherEnds` (shape): every wait of the publisher has a way out that needs
  nobody else.
* `ShapeInv` (`NoFalseFailure`): outside C++, a notice about an unknown instance
  does not make its next sample look like a changed key.

Each property of a passing run has a mutant: a definition with a plausible fault
(`..._Faulty` and the like, beside the right one) that makes the property fail
under the run's own configuration.

## 4. Findings

1. **hello_world subscribers use a reader that is not there yet.** The listener
   goes to `create_datareader`, the typed reader it uses is assigned afterwards.
   The catchup subscriber's comment describes this very race and closes it with
   `set_listener`; hello_world (C++, C, Java) still has it.
2. **The Zig catchup subscriber can miss its completion.** Its two threads store
   one flag and load the other one with release and acquire, which allows both
   loads to miss: everything has arrived and the program times out.
3. **The Zig waitset subscriber counts notices as samples.** If the writer's
   process goes after one early sample was lost, "received all 10 samples" is
   printed with nine.
4. **The C++ shape subscriber can fail on a key that has not changed.** A notice
   without a key, about an instance it has no sample of, makes `operator[]` insert
   an empty string into the key cache; the next sample of that instance then "changed
   from ''".

Not findings, but worth knowing:

* "Publisher: done." means that the reader has left, not that it received
  everything; a subscriber that fails also leaves.
* `docs/design/catchup-reference-app.md:96-99` says that the catchup example
  asserts that a sample is "never counted as "live" before" the boundary. The
  listener files samples by their number alone, whether or not
  `wait_for_historical_data` has returned; what holds, and is checked, is that the
  run is complete only after the historical batch is confirmed.
* A late catchup subscriber, of any port, can end a healthy run with "only n/10 historical
  samples were actually received". `docs/design/catchup-reference-app.md` (Subscriber
  flow, step 4) has it "take everything currently available and confirm" after the wait;
  the code counts flags that the listener stores
  (`src/cpp/catchup/src/subscriber.cpp:206-216`), and the wait does not wait for the
  listener. `BothSucceed` of `Catchup` therefore lets the subscriber end by a short count,
  and `ShortOnlyByLag` says what such a count means.
* `video_roi_display` counts notices among the frames it reports at its end, and takes
  one sample per callback; with two captures on one topic, their frames take each
  other's place.
* The coherent publisher of shape waits for the match of its first topic only. If
  the readers of the other topics are matched later, the first sets are incomplete;
  `SetsWhole` therefore asks for readers matched together.
* Zig's shape subscriber passes over the valid data of an instance that is no longer
  alive when it takes; Java prints every notice as one of an instance without
  writers; C's `-R` path makes no check of what it reads.

## 5. Proofs

`HelloWorldProofs` proves for every `SampleCount`: `TypeCorrect`, `NoGapAlways`,
`DoneAfterDepartureAlways`, `WindowClosedAlways`, `LookupFindsPeerAlways` and
`ImplementsHandover`, for all three applications and all ports. None of the
properties is inductive by itself. The invariant behind them says, in this
order: at which steps a program can be (`InProgram`); that the typed reader is
assigned by the time it is needed (`Assigned`); that nothing is written before
the link is ready, so that nothing is lost in the handshake (`Gated`); that the
listener's `expected_next` follows `taken` exactly (`Aligned`); what the
publisher's flags, a store in progress and an undelivered event imply for the
reader (`Departures`); and what the two main threads have finished (`Finished`).
`LookupFindsPeer` needs most of it: a reader that is gone while nothing has been
written cannot have received everything. `ImplementsHandover` maps each step to a
step of `Handover` or to a stutter.

The first part of `CustomAllocatorProofs` proves for every set of threads and every
`BlockCount` that
the allocator is type correct and has `NoDoubleHandout`, `NothingLost` and
`ChainIntact`, and that it implements `PoolService`. The invariant has three
layers: who holds the mutex (`MutexHeld`), what each thread's local variable
means at each step (`NodeMeans`), and the three properties. Each action has a
lemma of its own; `PopLast` and `PushLast` state what taking the last element
off a sequence, and adding one, do to its range and its order.

Its second part shows that every step of a process is, seen from the
pool, a step of the pool or a stutter (`ProcessRunsPool`), so that what is proved of
`StaticPool` holds in the process: `ProcessNeverHandsOutTwice`,
`ProcessNeverLoses`, `ProcessKeepsChain`, `ProcessImplementsPoolService`. Then it
proves `NeverCallsWild` for any number of threads, peers and bootstrap blocks. Its
invariant `GuardInv` says that, with the guard preloaded, either the four real
functions are known and nobody is looking them up (`Ready`), or there is one
thread, whose stack has one of four shapes (`Before`), and the guard has not been
armed. That is the argument the plain variables rest on, and why the bootstrap
check may arm first: arming is itself preceded by a look-up.

The third part proves the other three invariants of the process, for any number of
threads and peers. `ProcessAlwaysWellFormed` follows from the types and `TripInv`: a thread
has `t_in_trip` set exactly while one frame on its stack, and only one, reports a trip.
`NothingPassesUnseen` follows from what is known of each frame (`FrameArmed`): a heap
call begun armed sees the guard armed until `main` disarms it for good, so that it gets
past the test of the flag only on a thread that reports. `SettledAlwaysQuiet`: with discovery
over, the other threads have empty heap stacks once `main` sleeps no longer, and `main` has
one while the guard is armed; so nobody trips and nothing aborts (`QuietInv`).

`CatchupProofs` proves, for every size of the two batches, `NeverDoneEarly`,
`ShortOnlyByLagAlways`, `CompletionNeverMissed` and `ImplementsHandover`. The
invariant relates the counters of a sample's way (written, arrived, taken,
recorded, visible to the other thread: `Lags`) to the two threads' knowledge of
each other (`Decided`, `Noticed`). `BatchThere` says that from the wait's return on the
historical batch has arrived, and that a listener that is told what it missed has a callback
to come or under way while any of it is not recorded: the reason a short count can have. `Noticed` is the heart of the completion
argument: with every sample recorded and `main` polling, either the flag is set or
the listener is still to look, which needs sequential consistency.

`WaitSetProofs` proves, for every `SampleCount` and every threshold, `WaitSetSafe`,
`AllReceivedAlways` and `DoneAfterDepartureAlways`. The invariant says where each
sample is: under way, in the cache, in one of the two batches in hand, or printed,
and in one place only (`Placed`); `received` is then the number of printed samples
(`Counts`), by facts about the cardinality of finite sets.

`PresenceProofs` proves `CycleAlwaysGenuine` for every choice of durations that
satisfies `TimingAssumption`, every lateness and every number of beacons. The
invariant is the timing argument: while beacons are being written, the reader has
heard of the writer since the last one, or something on its way arrives in time
(`Beaconing`, `Arriving`), so that no lease ends; in the silence all that is on its
way was written before it and arrives within `Slack`, and from then on the reader's
age grows with the silence (`Silent`), so that when the writer is heard of again the
lease has ended and been noticed (`DeadAfterSilence`). `Counted` follows the phase machine and
the number of ONLINEs through the writer's two lives.

`RegistryProofs` proves, for every choice of ports, `LookedUpOnceAlways`,
`NoFalseAlarmAlways`, `CompletingCallOverAlways` and `ImplementsHandover`. (The six
changes are fixed in the code, so these are the statements TLC checks, over
all ports.) The invariant says what a cache entry means: the last entry of a life and
the notice that the writer is lost come last and only after certain arrivals
(`Held`, `Lives`); everything that has arrived is taken or in a cache, notices not
counted (`Counted`); an instance whose cache does not begin with an alive sample has been
seen alive (`Seen`), which is why an illegal state can only be a notice; and an
instance that has got to its end has nothing left to take (`Ended`), which is why the
lost-writer notice cannot complete a run that misses a change: instance 3 ends only
with the last of the six. `Decided` is what the callback and `main` know of each other.

`VideoProofs` proves `ImagesAlwaysWhole` for every set of displays, every choice of
those that are followed, and every number of frames. The invariant says
that a display has at most one notice under way or in its cache (`OneNotice`, over
the shape of the histories, `Plain`), which thread the steps that hold the mutex
belong to (`Locked`), and that the stored image and the image `main` cloned have
a header and pixels of one frame except while the listener is between storing the one and
copying the other (`Agreed`).

`ShapeProofs` proves for every set of publishers, every list of options and every number of
instances and of samples in a set:

* `NeverFailsFalsely` (`ShapeInv`). Outside C++ an entry of the key cache is either
  missing or right (`KeysKept`); beside it, the invariant bounds the places a publisher
  counts through and the limits of the access window.
* `LastStateArrives` (`FinalStateDelivered`). On its way from a publisher to a reader
  all data come before all last changes, and nothing is on its way without a match
  (`ChanOrder`). An instance the reader takes the publisher for a writer of, or will when
  the data on their way have arrived, has its last change still to be written or on its
  way (`WillEnd`, where `Reached` counts the last changes through topics and instances).
  The acknowledgment of a topic, awaited without a time-out, leaves nothing on its way there
  (`FinalFor`), so that at the end the reader takes the publisher for a writer no more.
* `SetsArriveWhole` (`SetsWhole`). Each sample on its way or in a cache is what its
  publisher wrote, and on the topic its place belongs to (`AllGenuine`). With
  coherent sets and readers matched together, a set that has been ended is on its way as a
  whole or not at all (`Sent`); what lies beyond the access window, and what lies within it
  together with what has been taken, is whole sets (`Beyond`, `InLook`). `begin_access`
  turns the one into the other. That needs the topics read before to show nothing more
  (`LookPlace`), and facts about quotients, which say which places of a set belong to
  which topic.

The assumptions are those the modules state: the counts are positive, the
durations compare as `TimingAssumption` says, the ports are ports, and the
value that stands for "no thread" is not a thread. The mutex is assumed to be
one, and the middleware to behave as its actions say.

The theorems are about `Spec`, without fairness; `FairSpec` implies it.

Only model-checked: `StoredIsShown` (video), `BothExit`, `BothSucceed`, `CaptureEnds`
and `PublisherEnds`, which are about what happens in the end under fairness, beyond the
prover. The four properties that do not hold are shown by the runs of their findings.

## 6. Not modelled

Left out of the models: argument parsing, type registration, the creation of
participants and topics (before any thread exists), printing, and what a message
says. Left out altogether:

* `cpp/opencv_zzdds/roi_generator.cpp`: one loop that writes a rectangle and
  sleeps, with nothing to interleave with. The filter of the display, which it
  feeds, is an expression the middleware evaluates.
* Of shape, the quality-of-service options that are only passed on (best effort,
  history depth, partitions, filters, deadlines, ownership), and the publisher that
  runs until it is interrupted, which writes no last change.
* `java/listener-pubsub` hands over without readiness, drain or reliability, so
  nothing is promised there about what arrives; its one wait is a monitor with a
  deadline.
* The smoke-test harness (`_common.py`, `run_all.py`, `interop`, `scripts`) starts
  and stops processes and reads their output. What it would lose by stopping too
  early is output of programs it has already judged. The head start it gives the catchup
  publisher is the flag `ordered` of `Catchup`.
* The runners and build scripts of the ports, and the spikes, keep no state.
