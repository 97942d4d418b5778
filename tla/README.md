# Screencoder, specified

TLA+ specifications of the screen capture and encoding engine in `src/`: how
frames travel from the capture thread to a sink, what the queues and events
between the threads guarantee, how an encoder's capabilities are found, what the adaptive
control makes of the threads' reports, how the log comes into being, and how
H.264 is cut into RTP packets. The modules are written from the code; line
numbers below are those of `src/`.

## 1. The system

A session is a pipeline of threads that talk through `QueueArray`s and one
shutdown event:

    display --> capture thread --packet_queue--> video thread --> sink
                    |  ^                              |            |
      capture_event_out capture_event_in              |        sink_event_out
                    v  |                              |            |
                adaptive control  <-------------------------------- 
    the Go listener:  app sink --out--> goroutine --pktchannel--> goroutine --channel--> ReadRTP

| Component | State | Operations | Hard part |
|---|---|---|---|
| queue (`util/queue`) | linked list, counter, mutex | push, pop, peek, size, stop | list under the mutex, counter and polling loops not |
| buffer (`util/object`) | `ref_count`, data, destructor | ref, unref, and copies, searches | counter updated without a lock |
| event (`util/event`) | a queue nobody pops | new, raise, wait, is_invoked | several raisers, several pollers |
| capture thread (`encode/encoder_thread`) | three buffers, frame number, `reinit` | the capture loop, adaptive commands, reinitialisation | every early exit must balance references and raise shutdown |
| encode session (`encode/encoder_session`) | codec context, device | make the context, the frame | parameters depend on capabilities found earlier |
| encoder device (`encode/encoder`, `d3d11`) | static capability flags of each codec | `NVENC`, `AMD`, `validate_encoder` | flags shared by validators and sessions |
| session (`session`) | queues, three detached threads | `start_session` | detached threads outlive the caller's stack |
| broadcast (`sink/generic_sink`) | context on the stack, join event | `start_broadcast`, video thread | who returns first |
| RTP sink (`sink/rtp`) | muxer, `preseted`, event queues | preset, start, handle, describe | preset and start in different threads |
| app sink (`sink/appsink`) | `out` of one place, the time of the last frame | handle, `GoHandleAVPacket`, `GoUnrefAVPacket`, stop | stop drains a queue somebody else pops; a time in an int |
| Go listener (`sink/appsink/go`) | two channels, the sink | `Open`, `ReadRTP`, `Close` | four threads, one closer |
| H.264 payloader (`.../go/h264`) | stored SPS and PPS, timestamp | `SplitNALUs`, `Payload`, `Packetize` | byte boundaries, state across calls |
| adaptive control (`adaptive`) | window of records, context on the stack | listen, process, `newAdaptiveControl` | two threads, one window, nothing locked |
| display (`capture/windows`) | duplication, textures | next frame, capture, free | frame held or released, device lost |
| log (`util/log`, `util/macro`) | start time, class tables, log queue, each made on first use | `log`, `render_log` | one-time initialisation without a lock, from any thread |
| array, key-value, constants | small | | none: filled once, by one thread |

For each component, what makes it right: a queue delivers everything once, in
order; a buffer is alive while anyone may use it and freed once; an event once
seen stays seen; the capture thread balances its references on every path and
always ends in the shutdown event; frames reach the sink in the order they were
captured; what a thread uses on another's stack is still there; the flags found
for an encoder are the truth about the driver; a receiver of the RTP packets
gets back the units of the encoder, at times that follow the frames'; the window
holds what was reported; nothing is used before it is made.

`PROJECT.json` lists every component with its status, and under `hazards` the
places where this code is hard to test, each with the properties aimed at it.

## 2. The modules

| Module | Models | Notes |
|---|---|---|
| `Fifo` | what a queue promises | abstract specification |
| `QueueArray` | `screencoder_queue.cpp` and ref/unref of `screencoder_object.cpp` | one action per load, store or critical section |
| `Event` | `screencoder_event.cpp` | extends `QueueArray` with no consumer, plus waiters |
| `CaptureThread` | `encoder_thread.cpp`, the calls it makes into `encoder_session.cpp` | with an open environment |
| `Session` | `screencoder_session.cpp`, `generic_sink.cpp`, preset/start/handle of the RTP sink, the draining half of the adaptive control | composes `CaptureThread`; refines it |
| `AppSink` | `app_sink.cpp`, `appsink.go`, the clock of `Packetize` | four threads and `Close` |
| `Adaptive` | `screencoder_adaptive.cpp` | two threads, a field of a record at a time |
| `Log` | `screencoder_log.cpp`, `screencoder_macro.h`, the first use of the class tables | any number of threads |
| `H264Split` | `SplitNALUs` of `h264_parser.go`, `U32BE` of `reader.go` | its loops against the definitions of the two formats |
| `H264Payloader` | `Payload` and `Packetize` of `h264_parser.go` | with an independent receiver |
| `Validation` | `encoder_device.cpp`, the parameter choice of `encoder_session.cpp`, its callers in `app_sink.cpp` | against every possible driver, with displays that differ |
| `Display` | `duplication.cpp`, `display_vram.cpp`, `display_base.cpp`, `gpu_hw_device.cpp`, the replacement of a display in `encoder_thread.cpp` | against a system that may refuse what section 2 says of it |
| `QueueArrayProofs`, `SessionProofs`, `DisplayProofs`, `ValidationProofs`, `AdaptiveProofs`, `LogProofs`, `AppSinkProofs`, `H264Proofs` | | proofs; those of `Event` are in `QueueArrayProofs`, those of `CaptureThread` in `SessionProofs` |
| `MC*` | | sets and symmetry for TLC; `MCH264` runs both H.264 modules |

How state and actions correspond to the code:

*QueueArray.* The linked list is the sequence `list`; the containers have the
name of the buffer they carry. `pc[t]` is the statement a thread is at. `size++`,
`size--` and the reference count are a load into `reg[t]` and a store, since they
are plain fields outside the mutex (:92, :149 of the queue, :149 and :163 of the
object). A producer allocates, pushes and drops its own reference, as the capture
thread and `raise_event` do, unless it is one of the `Keepers`: the pushers of cycle
reports (`rtpsink_handle`, rtp.cpp:97; `GoUnrefAVPacket`, app_sink.cpp:146) never drop
theirs, and those buffers are never freed. A consumer pops, uses, drops. The tail
search and the link are separate actions under the mutex, so that a missing lock
would show.
`sizeRaced` and `refRaced` remember that two updates overlapped: the code loses an
update there, and the exactness properties hold up to that point.

*Event.* The raisers are the producers of `QueueArray`; `IsInvoked` is peek on the
unsigned counter.

*CaptureThread.* `cpc` walks through `captureThread` and `capture`. A
`BUFFER_REF ... BUFFER_UNREF` pair around a call is one action whose net effect
on the count is nothing; what remains is the count that is left over. Outcomes of
`dummy_img`, `make_hwdevice`, `make_encode_context`, `capture`, `convert`,
`encode` and `get_display_by_name` are free choices, including each error; a context
that cannot be allocated is used all the same (encoder_session.cpp:132) and ends the
process (`crashed`). The packet queue is its list (`packets`) and the counter beside it
(`queued`), which is what push waits for; `size++` reads it into `counted` in one action
(`CountLoad`) and writes it in another (`CountStore`). Whoever pops may do its own update
in between, and one of the two is then lost.
`HandleCommand` has the branches of the adaptive events as they are: a new delay
ends the draining, the frame rate branches drop the context a second time (:167
and :172, then :183). Nothing in `src/` pushes to `capture_event_in`
(`adaptive.h:40` holds it as an output), so `Command` is the module's open
interface and stays unused in `Session`.

*Session.* The event and the queues' lists are the abstract ones that `Event` and
`QueueArray` implement. The packet queue's counter is the one of `CaptureThread`, with
the load and the store of the video thread's pop (`taken`) between those of push: with
room for two, one lost update matters. `raced` remembers one. The counters of the
report queues, with room for ten thousand, are taken to be exact; no property needs a
report to be taken. The three
statements of `rtpsink_preset` (the flag, the stream, its parameters;
`rtp.cpp:36`) are actions of the capture thread, so `start` may see the flag
between any two of them: `StartPoll` is its loop and `overtook` remembers that it ended
in the middle. A store through a stream that is not there ends the process
(`NoStream`). `avio_open` may fail, and `start` then returns before the header; a header
that fails is only logged; the caller looks at neither and starts the video thread
(rtp.cpp:65-72, generic_sink.cpp:70). Nothing in the code depends on which of these it
was, so `StartSink` is one step for all of them, and no property says that a header was
written. `rtpsink_start` has no `return` when it succeeds; it is taken to return. `BroadcastReturns` is the end of
`start_broadcast`, where the destructor of a joinable thread ends the process as
well. `staleReads` counts the reads of the configuration on `start_session`'s stack
after that has returned. `ListenRound` takes at most one report of each kind, as
`adaptiveThreadListen` does.

*AppSink.* Each thread has a statement (`pc`), the frame it holds (`cur`) and the
register of its `x++`. Push and pop are those of `QueueArray` but for what is done under
the mutex, which is one step: the test before the lock (`SeeElement`) is apart from the
unlinking (`Take`), and the loads and stores of the reference counts and of the counter
are apart, so that the video thread's drop overlaps the pop's reference and two threads
that pop meet at the last element. `refRaced` has the frames whose count two updates
overlapped on. Go channels here have no buffer, so send and receive are one step. A use
of a freed frame, queue or sink, or of NULL, sets `fault` and ends the run. `prev` is the
static of `GoHandleAVPacket`; the difference of two times is stored in an `int`
(`ToInt`), and `SamplesOf` is the conversion to ticks, whose result for a negative
duration Go leaves to the implementation. `WriterCopy` stamps the packets of a frame with
the clock and then moves it by the frame's duration, also for a frame without packets:
the time on the packets is one frame behind.

*Adaptive.* A record is named by the order in which records are stamped, and its
cycles by the report they came with, so that "newer" can be compared; `pushed` has the
cycles of each, and `prev` is the number of records stamped when it was taken. The shift
of the window is one action per element. A copy of a record is not atomic: while one is
under way, each field read of that element may be of the old record or of the new one
(`MayRead`), and the sum reads an element's time, its sink cycle and its capture cycle
apart (`ReadTime`, `ReadSinkCycle`, `ReadCaptureCycle`). `peek` and `pop` are apart as
well; where `raced` says that the count of a queue has lost an update, `peek` may answer
anything, and `pop` may wait for a report that does not come. `has_sink` is not
initialised in the code: `ListenTest` gives it either value, and `stray` remembers a
TRUE. The sums are not initialised either (`adaptive.cpp:41`), which is why a mean is
modelled as what each weighing reads (`weighed`) and not as a number. What a thread
reads of the context after `newAdaptiveControl` has returned is what was there, or the
end of the process (`UseGoneContext`).

*Log.* `RETURN_ONCE` and `RETURN_PTR_ONCE` are three actions: the test of the static
flag, its store, and the making, which for the queue is the queue, its thread and the
result. `Once` names the four things a message needs in the order `log` needs them.
A thread that finds a flag set goes on whether or not the thing is made: it takes the
time since the epoch, calls through a table that may lack the entry, gets a NULL queue
or one that is replaced a moment later. `early` distinguishes the program's own order,
where one thread validates the encoders and logs before it starts any other, from
callers that log from several threads at once. A queue is a list and the count beside it, updated in two steps by those who log
(`CountLoad`, `CountStore`) and by `render_log` (`TakenLoad`, `TakenStore`), which looks
at the count before it pops (`AwaitMessage`). A render thread is named by the thread that
started it and serves the queue `ret` named then, so that two may serve one queue and
meet in `Unlink`. Each opens the file and truncates it (`OpenFile`); `erased` has what
was in it, `lost` the queues whose count has lost an update.

*H264Split.* A call of `SplitNALUs` for every sample. A step is one round of one of its
loops: a byte looked at by `findIndicator` (`Zero`, `Other`, `Indicator`), or a unit
behind its length (`LengthUnit`, `LengthTooLong`); `Return` is a return with the
deferred function. A unit is a slice, its first and last byte, so that what
`nalus` says is where in the sample each unit lies. The two framings are defined apart
from the code, as what an encoder writes: `IsAnnexB` by where start codes are and are
not, `IsAvcc` by what the lengths say, and `Covered` by a set of bytes where lengths
could be, without an order to find them in.

*H264Payloader.* A sample is the list of its units, a unit its type, its length and its
number. A step of the payloader is one round of the loop of `Payload` (`SkipUnit`,
`StashSps`, `StashPps`, `SendPicture`); `Packetize` begins a call, once the packets of
the last one were taken, as `writeSample` hands them all over before it returns. The
stored parameter sets last from call to call. The receiver is a process written from the
RTP payload rules (RFC 6184) and not from this code: it takes the packets one by one and
puts pieces together by start and end bits, never knowing what was sent. `given` and
`payloads` are histories; `received` is what the receiver has made. The clock of the
packets is in `AppSink`, where the durations come from.

*Validation.* The driver is an arbitrary set `accepts` of parameter combinations
(a mode of the display, that is its size and frame rate; constant bit rate or quantizer;
slices of a frame); `capabilities` is the static bitset of a codec. A call of
`QueryEncoder` or `StartScreencodeThread` validates (`Reset`, then `Assume` and `Judge`
for each case) with the mode the first display has at that moment
(encoder_device.cpp:107) and looks at the result (`Answer`); a session that was started
opens a context with the mode of its own display, as it then is (`Open`,
app_sink.cpp:227, encoder_session.cpp:136-139). `judged` is the mode last validated with.
The dynamic range is never found, as the display makes no device for its pixel format.
The colour settings are left out: those of the session are those of the slice test.

*Display.* `dpc` walks through one run of the capture thread as the display sees it:
image and context, the loop (release, acquire, the release that ends
`duplication_get_next_frame` and whose result is ignored, the request for the
texture, the copy, conversion, encoding), `free_resources`, and the next
`get_display_by_name`. A picture is the number of the desktop update it shows. The
system is external: `ReleaseStatus` and `AcquireStatus` say what it may answer,
`Present` writes into any surface that is not held, `LoseAccess` comes at any time; the
request for the texture may fail, which leaves `src` NULL, and so may the
making of a context or of a display. `hw_device_set_frame` may fail to make its texture
or a view of either plane (`Views`), and `hw_device_init` ignores it
(gpu_hw_device.cpp:235): `target` has the planes with a view, which are those `Convert`
draws.
`WAIT_ABANDONED`, `ACCESS_LOST` and `ACCESS_DENIED` are one status, as in the code.
The copy is made after the frame was released: what is read may be newer than what
was acquired, never older. References are counted per object: `hw_device_init` takes
one to the device and none to the context, and `hw_device_finalize` releases one of
the context and none of the device, so the count of the context goes below zero.
The display that is made after the last run is left where it is. The references to
surfaces grow with each frame (`res` is never released), which `MaxRefs` bounds.

## 3. The runs

| Run | Asks | Instance |
|---|---|---|
| `queue_one_consumer` | `PopSafe`, `QueuedAlive`, `SizeExact`, `FreedOnce`, refinement of `Fifo` | 2 producers of 2 buffers, one a keeper, 1 consumer, capacity 1 |
| `queue_delivery` | `AllDelivered` under fairness | 1 producer of 3 buffers, 1 consumer, capacity 1 |
| `queue_counter` | violation of `SizeAgrees` | 1 producer, 1 consumer |
| `event` | `Sticky`, `WakesAll` | 3 raisers, 2 waiters |
| `capture` | types, `BuffersBalanced`, `PacketsInOrder` | 4 frames, 2 new displays, 2 commands, queue of 2 |
| `session` | `ContextOutlivesVideo`, `SinkReady`, `StaleConfigOnce`, `SinkInOrder`, `SessionIsEnvironment`, `CaptureStops`, `EndIsNoticed` | 5 frames, 1 new display, 2 packets, 1 report of a kind |
| `h264` | `SplitInverted`, `PicturesArrive`, `ParameterSetsFirst` | every string of up to 10 bytes over 3 values; packets of 8, units around that length, 5 units in any number of calls |
| `app_sink` | `AliveWhileInUse`, `ReadInOrder`, `ClockLag`, `FramesFlow` | 4 frames of differing packet counts and distances, an int of 16 values, a tick of 3, a clock of 6 that wraps |
| `validation` | `OpensWhatWorks`, `FoundRight` | every driver, 2 modes, 1 query and 2 sessions, 1 open of each |
| `display` | types, `FrameFlagAgrees`, `SourceAlive`, `EncodesWhatWasTaken`, `OneOfEach`, `LossIsNoticed` | 2 surfaces, 2 updates, 2 replacements |
| `adaptive` | `WindowHoldsTwo`, `CyclesKept`, `EvaluationFresh`, `ThreadsEnd` | a window of 3, 3 records, 2 reports |
| `log` | `FirstUseSafe`, `LogInOrder`, `AllRendered` | 3 threads, two of which may meet in a first use; 2 messages of the first when it goes first, else 1 of each |

Bounds. `Quota`, `MaxFrames`, `MaxReinits`, `MaxCommands`, `MaxOpens`, `MaxBytes`,
`MaxUnits`, `MaxUpdates`, `MaxRefs`, `MaxReports`, `MaxRecords` and
`MaxMessages` cap counters and inputs; `Rivals` says which threads may begin to log at
any time while the rest begin when the log queue is being made; `MaxSize`, `PacketQueueSize`
and `ReportQueueSize` are the code's capacities made small, so that full queues
happen (`ReportQueueSize` stands for `INFINITE_` = 10000), and so are `RecordSize`
(200), `IntModulus` (2^32), `Tick` (the nanoseconds of a tick) and `ClockModulus`
(2^32). Two producers suffice
for every lost update, since one is between two threads; capacity 1 makes every
push wait; 5 frames more than fill the packet queue while one is in the sink and
one in the encoder, with a push left for the counter to be wrong after two lost
updates; a packet of 8 bytes lets units of one, two and three
fragments, and of exactly the limit, occur, and five of them let a pair of sets be
sent, replaced and sent again over several calls; 10 bytes hold two start codes of
different length with a unit on each side, and two lengths with a unit each; two
surfaces and two updates let a frame be overwritten after its release while the other
is acquired, and two replacements let what one display leaves meet the next; three
records in a window of three are the first that lets an evaluation begin, and lets
every element be shifted under it; with three threads two may make a queue each while
the third pushes to the first of them. The times of `app_sink` hold steps that are
whole ticks, steps that are not, and a first that does not fit the int; what a duration
out of range becomes is one value there (`AnySamples`), as all that `ClockLag` says is
relative to it. One open of a session suffices for `validation`: a session keeps nothing
from one open to the next. `SYMMETRY` is used only in `validation`, over the sessions and
over the modes, and its properties are invariants.

Fairness. Weak fairness of every thread: the threads are started by
`std::thread` or `go` and the operating system keeps scheduling them; the
polling loops are modelled by their exit, which stays enabled as long as the
condition holds. The mutex is contended by threads whose critical sections are
finite. Nothing obliges the application to stop a session or to call `Close`, and
nothing obliges the encoder to produce a packet, nor the listening thread of a `Session`
to take a report. `FramesFlow` also takes it that the application goes on calling
`ReadRTP`. In `Display` only the capture thread is
fair; `LossIsNoticed` takes it that packets go on being taken from the packet
queue, since encoding and pushing are one step there (`CaptureStops` has the push).
`Adaptive` and `Log` assume fairness of their threads only: no report, record or
message need ever come, and nobody need stop the session.

Deadlock is not checked: every instance really may stop, because a producer ends
after its quota, a session terminates, a consumer may wait for ever on an empty
queue (each .cfg says which).

What the runs show beyond "it holds":

* The list is a FIFO under every interleaving of any number of producers and
  consumers. The unlocked wait in pop is sound with one consumer only (`PopSafe`).
  Two threads do pop one queue in this program: the goroutine in `GoHandleAVPacket`
  and `StopAppSink`'s drain, which may wait for an element the other took.
* Room is tested long before an element is linked, so a queue can hold more than its
  capacity: by one for each further producer, and no more as long as the counter is
  exact (`SizeExact`).
* The counter is exact until two updates overlap and wrong for good afterwards
  (`queue_counter`). An event survives this: it is only ever incremented.
* The reference count of a buffer may lose an update when the producer's drop
  overlaps the consumer's reference; `FreedOnce` holds for all other buffers, and
  `QueuedAlive` for every one. `FreedOnce` also says what becomes of a keeper's buffers,
  the cycle reports: they are never freed, and one reference to each is left.
* The capture thread's references balance on every path except after a frame rate
  command, which drops the context once more than it took it; nothing sends that
  command today.
* After shutdown the capture thread always ends, except in the push of a packet;
  `CaptureStops` says exactly when. The video thread may have ended before it, or hang in
  a report of its own; or two updates of the packet queue's counter were lost, the
  counter says full and the list is empty, and the video thread waits in pop while the
  capture thread waits in push.
  The video thread has no such guarantee, since it may wait in pop.
  `start_session` returns all the same (`EndIsNoticed`).
* The sink is given the frames in rising order, none twice, whatever updates of that
  counter are lost (`SinkInOrder`): what they spoil is waiting, not order.
* The context on `start_broadcast`'s stack is never gone too early. When that
  function does return it takes the process with it, as its thread is never joined.
* The flag `preseted` is set before what it announces. Only a `start` that looks in
  exactly that moment is hurt; any other finds the one stream with its parameters, to
  write the header from if the output can be opened, up to the first new display, whose
  `preset` makes another stream that no header describes (`SinkReady`). Whether or not
  there is a header, the video thread runs.
* The capture thread reads the configuration on a stack that may be gone, but once at
  most, for the run it was about to start (`StaleConfigOnce`).
* A frame is freed once all threads are done with it, also while Close drains the queue
  the goroutine pops; only a lost update of its count, when the video thread drops it
  while it is being popped, frees it under a thread before Close is called
  (`AliveWhileInUse`). `FramesFlow` has the same excuse.
* The times on the RTP packets are one frame late. They lose a fraction of a tick with
  each frame and never gain one; they are wrong by anything from the second frame on,
  since the first one's duration is the time since the epoch, and after a pause that an
  `int` of nanoseconds cannot hold (`ClockLag`).
* The window of the adaptive control is shifted from the front: however long it is, it
  holds the newest record once and the one before everywhere else (`WindowHoldsTwo`),
  which is then weighed up to 199 times.
  All the same no evaluation weighs anything older than those two, or than the end of
  the evaluation before, though the window moves under it. What is weighed together may
  be of two records, the cycle at most one record older than the time
  (`EvaluationFresh`). How often a record is weighed is not recorded.
* A capture cycle stays with the newest record until the next report; a sink cycle may
  be replaced by zero when `has_sink`, which is not initialised, happens to be TRUE.
* Logging is safe as the program does it, one thread first. From several threads at
  once a message may be given to a queue that is then replaced and never rendered, a
  NULL queue may be used, two threads may render one queue, the second truncates the
  file, and times may be since the epoch; it takes an overlap in a
  first use for any of them (`FirstUseSafe`, `AllRendered`). What takes no overlap in a
  first use is a lost update of the queue's count: a message then waits although it is in
  the list, for as long as the count says there is none.
* Whatever the system refuses, the capture never acquires a frame while it holds
  one and never releases one twice; a lost duplication leads to a new display or to
  the end of the capture; and the next display is made only after the last is gone,
  except for the device, the colour matrices and the surfaces, which are left behind.
* What is encoded is never older than the last frame taken, in each plane the device
  has a view of (`EncodesWhatWasTaken`). After an unnoticed failure of
  `hw_device_set_frame` the frames go on being encoded, the other planes as they were
  made.
* A session can open its encoder with parameters the driver refuses if it does so while
  somebody validates the same codec, or if its display has another size or frame rate
  than the first display had when the codec was last validated. Otherwise it cannot:
  sequentially what is found is what the driver accepts (`OpensWhatWorks`,
  `FoundRight`).

## 4. The proofs

All constants are arbitrary here: any number of threads, any capacity.

| Theorem | States | Argument |
|---|---|---|
| `TypeCorrect` | `TypeOK`, which no run checks but every proof of the queue uses | inductive by itself |
| `PopIsSafe` | `PopSafe` | `SoleInv`: with one consumer, what it saw is still in the list, and the counter is at least one, because the stores it can race with were loaded from values that are no smaller than what it needs |
| `QueueIsFifo` | `FifoSpec` | `QueueInv`: the mutex holder is the one thread in a critical section, a producer's `last` is the tail between the search and the link, a consumer's buffer is the head between reading and detaching; then `Link` is `Put`, `Detach` is `Take`, all else stutters |
| `QueuedIsAlive` | `QueuedAlive` | `CountInv`: a queued buffer has the list's reference and, until its drop is stored, its producer's; no other thread has its name |
| `SizeIsExact` | `SizeExact` | `SizeInv`: until two updates of the counter overlap at most one thread is between its load and its store, and its register holds the counter; a producer that saw room counts against the bound as if it had linked. Needs finitely many threads |
| `FreedExactlyOnce` | `FreedOnce` | `RefInv`, on top of `CountInv`: until two updates of it overlap a count is the sum of what the list, the producer and the one consumer account for at their positions, and the last of them to leave frees, unless a keeper's reference remains |
| `EventIsSticky` | `Sticky` | with no consumer the counter is never stored smaller than one, once it is not zero |
| `CaptureTypeCorrect` | `CaptureTypeOK` | inductive by itself: the counter is written one above what was read below the queue's size |
| `PacketsStayInOrder` | `PacketsInOrder` | `OrderInv`: the queue rises and stays below the next frame number, by one more while a packet waits to be pushed |
| `BuffersStayBalanced` | `BuffersBalanced` | `BalanceInv`: by position, which of the three counts are one and which are zero, unless a dropping command was handled |
| `SessionImplementsCapture` | `SessionIsEnvironment` | each step of the session is a step of the capture thread, of its environment, or stutters; `TakenInv` keeps what the video thread has read of the counter within its bounds |
| `SinkGetsFramesInOrder` | `SinkInOrder` | `SinkInv`: the packet held and the packets queued come after the one handled |
| `ContextLives` | `ContextOutlivesVideo` | `JoinInv`: the join event is raised only by a video thread that has ended |
| `ConfigReadOnce` | `StaleConfigOnce` | `StaleInv`: a stale read needs the event raised, and the test of the event that follows ends the run and the thread |
| `SinkIsReady` | `SinkReady` | `FormatInv`: by the capture thread's position, whether the flag, the stream and its parameters are there; a poll that succeeds outside preset sees all three. It is about what the header is written from, not whether it is |
| `DisplayTypeCorrect` | `DisplayTypeOK` | `TypeInv`: an acquired resource has a reference to spare for its texture |
| `FlagStaysRight` | `FrameFlagAgrees` | inductive with the types of the flag: the system's answers say what it holds |
| `SourceStaysAlive` | `SourceAlive` | `SourceInv`: a texture is pointed to without a reference only between two displays |
| `NothingOlderIsEncoded` | `EncodesWhatWasTaken` | `TakenInv`: surfaces are only overwritten with newer pictures, and by position the resource, the texture, the image or every plane of the target that has a view covers the last frame taken |
| `OneDisplayAtATime` | `OneOfEach` | `LifeInv`: the counts by position; a run that is to be repeated has left nothing of the image and the hardware device |
| `FindsTheTruth` | `FoundRight` | `FoundInv`: as long as no two calls overlap at most one is at work, and its step says exactly which flags are set; when none is, the flags are what the driver accepts for the mode judged last |
| `SessionsOpenWhatWorks` | `OpensWhatWorks` | from `FoundInv`: what a session's config becomes under the flags finally found is, in that mode, one of the combinations tried |
| `WindowIsTwo` | `WindowHoldsTwo` | `Window`: during the shift the elements below the index already hold the newest record, those above it the one before |
| `CyclesAreKept` | `CyclesKept` | `Cycles`: by position, what the record in hand has taken over and what is still to come |
| `EvaluationIsFresh` | `EvaluationFresh` | `Evaluation`: elements only ever get newer while an evaluation runs, a copy that is under way makes one of them newer by one record at most, and `prev` is not newer than what it began with |
| `FirstUseIsSafe` | `FirstUseSafe` | `LogInv`: as long as nothing overlapped each thing has one maker, after its flag and before its use, and the one queue has one render thread; in turn, the first thread is the only one until all is made |
| `WrittenInOrder` | `LogInOrder` | on top of `LogInv`: there is one queue, so what is written, what the render thread holds and what is queued, one after the other, grow at the end only, by the next message of a thread, while rendering moves the middle; the count decides when, not what |
| `HeldIsAlive` | `AliveWhileInUse` | `LineInv`: the frames are in line, each with the threads that may hold it at their positions. `RefInv`: until two updates of it overlap a count is what those positions, the queue and the channel account for, a register between a load and a store holds it, and the last to leave frees. `OpenInv`: until Close is called one thread pops |
| `PacketsInOrder` | `ReadInOrder` | `ReadInv`, on top of `LineInv`: the writer's frame is not older than any packet read, what is left of it and what was returned of it make up the whole, and until Close everything before it is through |
| `SamplesComeApart` | `SplitInverted` | `SplitInv`: the zeros counted are those before the byte looked at (`Zeros`), the bytes passed since the last indicator hide no start code, and the units found are those of the bytes after some `n` (`SoFar`); over the lengths, the units found are `Measured`, and every way lengths could cover the sample goes through the length read last (`OnTheWay`), so that none is missed when the code gives up |
| `AllPicturesArrive` | `PicturesArrive` | `PayloadInv`: every packet is a unit, a pair of sets or a fragment of a unit whose fragments lie next to each other in order. `ReceiverInv`: what is open is a prefix of one unit's fragments, and everything that was complete is there, in turn. That a prefix goes on, and that the whole of it is the unit, rests on where each fragment begins and ends, which is arithmetic on its number |
| `SetsComeFirst` | `ParameterSetsFirst` | the same invariant: the stash holds the latest set of each kind unless a picture came since (`Stash`), and is younger than all that was sent (`Younger`); a first packet of a picture follows its pair (`Led`), and the receiver's last two units are the pair that was taken last (`Before`) |
| `ClockFollows` | `ClockLag` | `ClockInv`: the duration a frame carries is the difference to the one before it, as an int, and by induction along the frames the clock, which the next frame is stamped with, has taken whole ticks that fall behind by less than one each |

The assumptions are the named `ASSUME`s of the modules (disjoint finite sets of
threads, positive capacities, a packet that takes more than the header of a fragment),
which the runs evaluate. What `SessionProofs` shows of `CaptureThread` it uses for
`Session` through the refinement.

The properties that hold until two updates overlap are proved with that condition in
them; the runs reach states on both sides of it.

Only model-checked: liveness (`AllDelivered`, `WakesAll`, `CaptureStops`,
`EndIsNoticed`, `FramesFlow`, `LossIsNoticed`, `ThreadsEnd`, `AllRendered`), which
needs `ENABLED`. Every safety property the runs check is proved.

## 5. What is not modelled

Pixels, bit streams inside the encoder, Direct3D and libavcodec objects, shaders,
log text, clocks as real time (`sleep_for` is a stutter; the times of frames are in
`AppSink`). Of the buffer objects, `object_duplicate`, `buffer_merge`, `insert`,
`search` and `replace`, and of the arrays `ListObject`, are called by nothing. The
key-value lists are option tables, filled once by one thread. What the RTP muxer
writes, its url and the SDP text are library output. Of
the display, the cursor, the monitor enumeration and an image whose texture cannot
be made (`dummy_img` then fails, and its error buffer is used as the image,
encoder_thread.cpp:123) are left out, as is a validation that gets no display
(encoder_device.cpp:107). Memory is modelled by counts and by who may still use what; leaks
of libavcodec objects are not.

## 6. Plan

Done, in this order, as the behaviour everything else rests on: queue and
buffers, event, capture thread, session, app sink, payloader, validation, display; then
the statements of preset and the stack of `start_session` in `Session`, the RTP clock
in `AppSink`, the adaptive control and the log.

What is left to compose:

1. `Display` with `CaptureThread`, whose choices become what `Display` offers, and a
   refinement that shows it.
2. A validation that gets no display while a session duplicates the output
   (encoder_device.cpp:107), which joins `Validation` and `Display`.
3. A session that is refused (`app_sink.cpp:222`) before `AppSink` and `Session` begin.
