------------------------------ MODULE Session ------------------------------
(***************************************************************************)
(* A running session (src/session/screencoder_session.cpp): start_session  *)
(* starts three threads and waits for the shutdown event.  `capture` is    *)
(* CaptureThread; `broadcast` starts the sink and then the video thread    *)
(* that hands packets to it (src/sink/generic_sink.cpp, with the RTP sink  *)
(* of src/sink/rtp); `control` starts the threads of the adaptive control  *)
(* (src/adaptive), of which only the draining of the reports matters here. *)
(* The event and the queues are the abstract ones that Event and           *)
(* QueueArray implement, but the counter of the packet queue is here with  *)
(* the loads and stores of its two threads: with room for two packets one  *)
(* lost update tells.  The report queues have room for ten thousand and    *)
(* their counters are taken to be exact, but nothing below needs a report  *)
(* to be taken.                                                            *)
(* Nobody pushes to capture_event_in, so `commands` stays empty here.      *)
(***************************************************************************)
EXTENDS CaptureThread

VARIABLES
    main,           \* start_session
    broadcast,      \* start_broadcast
    video,          \* videoBroadcastThread
    joined,         \* ctx.join_event is raised
    held,           \* the packet the video thread works on, 0 if none
    taken,          \* what size-- of its pop has read of the counter
    handled,        \* pts of the last packet given to the sink
    sinkReports,    \* length of the sink's sink_event_out
    listen,         \* adaptiveThreadListen
    preset,         \* the statement of rtpsink_preset
    preseted,       \* rtp->preseted
    streams,        \* streams made in rtp->format; rtp->stream is the last
    described,      \* how many of them have the encoder's parameters
    overtook,       \* HISTORY: start went on in the middle of a preset
    raced,          \* HISTORY: a store to the counter undid another thread's
    staleReads,     \* HISTORY: reads of the configuration after main returned
    terminated      \* std::terminate or a store through NULL has ended the process

sink == <<preset, preseted, streams, described, overtook>>
sessionVars == <<captureVars, main, broadcast, video, joined, held, taken, handled,
                 sinkReports, listen, sink, raced, staleReads, terminated>>
threads == <<main, broadcast, video, listen>>

BGoto(from, to) == broadcast = from /\ broadcast' = to
VGoto(from, to) == video = from /\ video' = to

captureRest == <<cpc, reinit, frameNr, count, commands, reinits, commanded, misused, leaked>>
rest == <<taken, sink, raced, staleReads, terminated>>

-----------------------------------------------------------------------------
(* start_session and the world around it.                                  *)

\* WAIT_EVENT(session.shutdown_event), and start_session returns
MainReturns ==
    /\ main = "waiting" /\ shutdown
    /\ main' = "returned"
    /\ UNCHANGED <<captureVars, broadcast, video, joined, held, handled, sinkReports,
                   listen, rest>>

\* the application raises the event
Stop ==
    /\ ~shutdown
    /\ shutdown' = TRUE
    /\ UNCHANGED <<captureRest, reports, queue, threads, joined, held, handled, sinkReports,
                   rest>>

-----------------------------------------------------------------------------
(* The broadcast thread.                                                   *)

\* MUTANT of StartPoll: the sink does not wait for the encoder's parameters
StartPollNot ==
    /\ BGoto("start", "header")
    /\ overtook' = (preset # "flag")
    /\ UNCHANGED <<captureVars, main, video, joined, held, handled, sinkReports, listen,
                   preset, preseted, streams, described, taken, raced, staleReads,
                   terminated>>

\* while(!rtp->preseted)
StartPoll ==
    /\ BGoto("start", "header")
    /\ preseted
    /\ overtook' = (preset # "flag")
    /\ UNCHANGED <<captureVars, main, video, joined, held, handled, sinkReports, listen,
                   preset, preseted, streams, described, taken, raced, staleReads,
                   terminated>>

\* format->streams[0] = rtp->stream, a store through NULL if there is no stream
NoStream ==
    /\ broadcast = "header" /\ streams = 0
    /\ terminated' = TRUE
    /\ UNCHANGED <<captureVars, threads, joined, held, taken, handled, sinkReports, sink, raced,
                   staleReads>>

\* avio_open, where rtpsink_start returns -1 if it fails; the header, where a
\* failure is only logged.  Nobody looks at what came of either: in every case
\* ctx.video_thread is started, and nothing later depends on it.
StartSink ==
    /\ BGoto("header", "waiting")
    /\ streams # 0
    /\ video' = "test"
    /\ UNCHANGED <<captureVars, main, joined, held, taken, handled, sinkReports, listen, sink,
                   raced, staleReads, terminated>>

\* MUTANT of BroadcastReturns: it waits for the shutdown event instead
BroadcastReturnsEarly ==
    /\ BGoto("waiting", "returned")
    /\ shutdown
    /\ terminated' = TRUE
    /\ UNCHANGED <<captureVars, main, video, joined, held, handled, sinkReports, listen, sink,
                   taken, raced, staleReads>>

\* WAIT_EVENT(ctx.join_event); the destructor of ctx finds video_thread
\* joinable and ends the process
BroadcastReturns ==
    /\ BGoto("waiting", "returned")
    /\ joined
    /\ terminated' = TRUE
    /\ UNCHANGED <<captureVars, main, video, joined, held, handled, sinkReports, listen, sink,
                   taken, raced, staleReads>>

\* while (!IS_INVOKED(shutdown_event))
VideoTest ==
    /\ VGoto("test", IF shutdown THEN "raise" ELSE "pop")
    /\ UNCHANGED <<captureVars, main, broadcast, joined, held, handled, sinkReports, listen,
                   rest>>

\* MUTANT of VideoPop: the newest packet is popped
VideoPopNewest ==
    /\ VGoto("pop", "count")
    /\ packets # <<>> /\ queued > 0
    /\ held' = packets[Len(packets)]
    /\ packets' = SubSeq(packets, 1, Len(packets) - 1)
    /\ taken' = queued
    /\ UNCHANGED <<captureRest, reports, queued, counted, shutdown, main, broadcast, joined,
                   handled, sinkReports, listen, sink, raced, staleReads, terminated>>

\* MUTANT of VideoPop: the packet is read and not unlinked
VideoPopAgain ==
    /\ VGoto("pop", "count")
    /\ packets # <<>> /\ queued > 0
    /\ held' = Head(packets)
    /\ taken' = queued
    /\ UNCHANGED <<captureVars, main, broadcast, joined, handled, sinkReports, listen, sink,
                   raced, staleReads, terminated>>

\* QUEUE_ARRAY_CLASS->pop(packets, ...) waits while the list is empty or the
\* counter 0, unlinks the first packet, and after the mutex queue->size-- reads
\* the counter.  There is no other popper: the packet stays and the counter does
\* not reach 0 until it is read, so that these are one step; the counter is
\* written in another.
VideoPop ==
    /\ VGoto("pop", "count")
    /\ packets # <<>> /\ queued > 0
    /\ held' = Head(packets)
    /\ packets' = Tail(packets)
    /\ taken' = queued
    /\ UNCHANGED <<captureRest, reports, queued, counted, shutdown, main, broadcast, joined,
                   handled, sinkReports, listen, sink, raced, staleReads, terminated>>

VideoCountStore ==
    /\ VGoto("count", "handle")
    /\ queued' = taken - 1
    /\ taken' = 0
    /\ raced' = (raced \/ queued # taken)
    /\ UNCHANGED <<captureRest, reports, packets, counted, shutdown, main, broadcast, joined,
                   held, handled, sinkReports, listen, sink, staleReads, terminated>>

\* rtpsink_handle: the packet is written, and SINK_CYCLE_REPORT pushed,
\* waiting for room; then the packet's BUFFER_UNREF
VideoHandle ==
    /\ VGoto("handle", "test")
    /\ sinkReports < ReportQueueSize
    /\ handled' = held
    /\ held' = 0
    /\ sinkReports' = sinkReports + 1
    /\ UNCHANGED <<captureVars, main, broadcast, joined, listen, rest>>

\* RAISE_EVENT(shutdown_event); RAISE_EVENT(ctx->join_event)
VideoRaise ==
    /\ VGoto("raise", "join")
    /\ shutdown' = TRUE
    /\ UNCHANGED <<captureRest, reports, queue, main, broadcast, joined, held, handled,
                   sinkReports, listen, rest>>

VideoJoin ==
    /\ VGoto("join", "done")
    /\ joined' = TRUE
    /\ UNCHANGED <<captureVars, main, broadcast, held, handled, sinkReports, listen, rest>>

-----------------------------------------------------------------------------
(* adaptiveThreadListen, as far as the queues are concerned.               *)

\* one report of either kind is popped in a round, each after a peek
ListenRound ==
    /\ listen = "listening"
    /\ listen' = IF shutdown THEN "done" ELSE "listening"
    /\ ~shutdown => sinkReports > 0 \/ reports > 0
    /\ sinkReports' = IF ~shutdown /\ sinkReports > 0 THEN sinkReports - 1 ELSE sinkReports
    /\ reports' = IF ~shutdown /\ reports > 0 THEN reports - 1 ELSE reports
    /\ UNCHANGED <<captureRest, queue, shutdown, main, broadcast, video, joined, held,
                   handled, rest>>

-----------------------------------------------------------------------------
(* The capture thread, with rtpsink_preset in the middle of a run.         *)

format == <<overtook, raced, staleReads, terminated>>
captureOthers == <<threads, joined, held, taken, handled, sinkReports>>

\* rtp->preseted = TRUE
PresetFlag ==
    /\ cpc = "preset" /\ preset = "flag"
    /\ preset' = "stream"
    /\ preseted' = TRUE
    /\ UNCHANGED <<captureVars, captureOthers, streams, described, format>>

\* rtp->stream = avformat_new_stream(...)
PresetStream ==
    /\ cpc = "preset" /\ preset = "stream"
    /\ preset' = "parameters"
    /\ streams' = streams + 1
    /\ UNCHANGED <<captureVars, captureOthers, preseted, described, format>>

\* avcodec_parameters_from_context(...)
PresetParameters ==
    /\ Preset /\ preset = "parameters"
    /\ preset' = "flag"
    /\ described' = streams
    /\ UNCHANGED <<captureOthers, preseted, streams, format>>

\* every other step; a new context reads the configuration start_session keeps
\* on its stack
CaptureOther ==
    /\ CaptureStep /\ cpc # "preset"
    /\ raced' = (raced \/ (CountStore /\ queued # counted))
    /\ terminated' = (cpc' = "crashed")
    /\ staleReads' = IF cpc = "context" /\ main = "returned" THEN staleReads + 1 ELSE staleReads
    /\ UNCHANGED <<captureOthers, sink>>

-----------------------------------------------------------------------------
SessionInit ==
    /\ CaptureInit
    /\ main = "waiting" /\ broadcast = "start" /\ video = "none"
    /\ joined = FALSE /\ held = 0 /\ taken = 0 /\ handled = 0
    /\ sinkReports = 0 /\ listen = "listening"
    /\ preset = "flag" /\ preseted = FALSE /\ streams = 0 /\ described = 0
    /\ overtook = FALSE
    /\ raced = FALSE /\ staleReads = 0 /\ terminated = FALSE

Capture == PresetFlag \/ PresetStream \/ PresetParameters \/ CaptureOther
Broadcast == StartPoll \/ NoStream \/ StartSink \/ BroadcastReturns
Video == \/ VideoTest \/ VideoPop \/ VideoCountStore
         \/ VideoHandle \/ VideoRaise \/ VideoJoin

SessionNext == /\ ~terminated
               /\ Capture \/ Broadcast \/ Video \/ ListenRound \/ MainReturns \/ Stop

SessionSpec == SessionInit /\ [][SessionNext]_sessionVars

\* The threads keep being scheduled while the process lives.  That the listening
\* thread ever takes a report is not assumed, nor that the application stops the
\* session.
FairSession ==
    /\ SessionSpec
    /\ WF_sessionVars(~terminated /\ Capture)
    /\ WF_sessionVars(~terminated /\ Broadcast)
    /\ WF_sessionVars(~terminated /\ Video)
    /\ WF_sessionVars(~terminated /\ MainReturns)

-----------------------------------------------------------------------------
(* Properties.                                                             *)

\* Each packet the video thread is through with was newer than the one before:
\* the sink is given the frames in the order the encoder got them and none twice,
\* across new displays, whatever the threads' speeds and whatever became of the
\* queue's counter (generic_sink.cpp:38 and encoder_thread.cpp:238).
SinkInOrder == [][video = "handle" /\ video' # video => handled' > handled]_sessionVars

\* The video thread works on a context on the stack of start_broadcast: that
\* function is still there whenever the thread has something left to do,
\* whoever raised the shutdown event and when.  Its own end, which ends the
\* process because the thread is never joined, does not come before a stop; nor
\* does any other end, unless start overtook preset or a context could not be
\* allocated (generic_sink.cpp:64-73, encoder_session.cpp:132).
ContextOutlivesVideo ==
    /\ broadcast = "returned" => video = "done"
    /\ terminated => shutdown \/ overtook \/ cpc = "crashed"

\* The broadcast thread and the capture thread share the sink's format with
\* nothing but a flag between them.  All the same the one uses it only when the
\* other has done with it, and finds in it one stream, with its parameters --
\* unless start looked at the flag between the statements of preset, or the
\* display was replaced and preset called again.  This is of what the header is
\* written from; that it is written is not promised: the video thread runs
\* without one when the output cannot be opened or the header is refused
\* (screencoder_rtp.cpp:36-40, :57-72, generic_sink.cpp:70).
SinkReady ==
    reinits = 0 /\ ~overtook /\ broadcast # "start" =>
        /\ cpc \notin {"start", "dummy", "context", "preset", "crashed"}
        /\ streams = 1 /\ described = 1

\* The capture thread reads the configuration through a pointer to the stack of
\* start_session.  After that has returned it does so once at most, however late
\* the stop, for a run it was about to start (screencoder_session.cpp:78 and
\* :101, encoder_thread.cpp:134).
StaleConfigOnce == staleReads <= 1

\* What the other threads do is what the capture thread is prepared for: the
\* session is one of the environments CaptureThread allows.
SessionIsEnvironment == CaptureSpec

\* Once the event is raised and there is room for a report, the capture thread
\* ends, from wherever it is.  Only the push of a packet can keep it: when the
\* video thread has ended before it or hangs in a report of its own that nobody
\* takes; or when lost updates left a counter that is full over a list that is
\* empty, and both threads wait, the one for room and the other for a packet
\* (encoder_thread.cpp:260, generic_sink.cpp:34, screencoder_queue.cpp:61, :120).
CaptureStops ==
    shutdown /\ reports < ReportQueueSize ~>
        \/ cpc = "done" \/ terminated
        \/ /\ cpc = "push" /\ queued = PacketQueueSize
           /\ \/ video = "done"
              \/ video = "handle" /\ sinkReports = ReportQueueSize
              \/ raced /\ video = "pop" /\ packets = <<>>

\* When the capture thread ends, for whatever reason, start_session returns
\* (encoder_thread.cpp:323, screencoder_session.cpp:101).
EndIsNoticed == cpc = "done" ~> main = "returned" \/ terminated
=============================================================================
