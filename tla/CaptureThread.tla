--------------------------- MODULE CaptureThread ---------------------------
(***************************************************************************)
(* The capture thread (src/encode/encoder_thread.cpp): capture() runs      *)
(* captureThread() again and again while the display asks for it.  Each    *)
(* run allocates an image, an encode context and a frame, loops            *)
(* capture - convert - encode - push until something stops it, and drops   *)
(* the three.  The outcomes of the display, of the colour conversion and   *)
(* of the encoder are chosen freely.                                       *)
(*                                                                         *)
(* A BUFFER_REF and its BUFFER_UNREF around a call cancel out within the   *)
(* action of the call; what remains is the net change of the count.        *)
(***************************************************************************)
EXTENDS Integers, Sequences

CONSTANTS PacketQueueSize,  \* PACKET_QUEUE_SIZE
          ReportQueueSize,  \* BOUND: stands for INFINITE_ = 10000
          MaxFrames,        \* BOUND: frames given to the encoder
          MaxReinits,       \* BOUND: REINIT results of the display
          MaxCommands       \* BOUND: events put into capture_event_in

ASSUME CaptureAssumption ==
    /\ PacketQueueSize \in Nat \ {0}
    /\ ReportQueueSize \in Nat \ {0}
    /\ MaxFrames \in Nat
    /\ MaxReinits \in Nat
    /\ MaxCommands \in Nat

\* what captureThread allocates: imgBuf, ctxBuf and frameBuf
CaptureBuffers == {"img", "ctx", "frame"}

\* the AdaptiveEventCode of an event for the capture thread
Commands == {"UPDATE_CAPTURE_DELAY_INTERVAL", "DISABLE_CAPTURE_DELAY_INTERVAL",
             "AVCODEC_FRAMERATE_CHANGE", "AVCODEC_BITRATE_CHANGE"}

VARIABLES
    cpc,        \* the statement of the capture thread
    reinit,     \* ctx->reinit
    frameNr,    \* ctx->frame_nr
    count,      \* ref_count of the buffers of this run, 0 before and after
    commands,   \* capture_event_in
    reports,    \* length of capture_event_out
    packets,    \* packet_queue: the pts of the packets in its list
    queued,     \* packet_queue->size, the counter beside the list
    counted,    \* what size++ of the thread's push has read of it
    shutdown,   \* shutdown_event is raised
    reinits,    \* HISTORY: REINIT results so far
    commanded,  \* HISTORY: the events handled so far, and how many
    misused,    \* HISTORY: buffers used or dropped after they were freed
    leaked      \* HISTORY: what a run left allocated, with the reason

captureVars == <<cpc, reinit, frameNr, count, commands, reports, packets,
                 queued, counted, shutdown, reinits, commanded, misused, leaked>>

history == <<reinits, commanded, leaked>>
queue == <<packets, queued, counted>>

-----------------------------------------------------------------------------
At(from, to) == cpc = from /\ cpc' = to

\* BUFFER_REF ... BUFFER_UNREF on the buffers bs, around a call that uses them
Use(bs) == misused' = misused \cup {b \in bs : count[b] = 0}

\* a run whose initialisation fails returns without dropping anything
Abandon(from, why, left) ==
    /\ At(from, "cleanup")
    /\ shutdown' = TRUE
    /\ leaked' = leaked \cup ({why} \X left)
    /\ count' = [b \in CaptureBuffers |-> 0]

\* MUTANT of StartRun: a new run numbers its frames from 1 again
StartRunFromOne ==
    /\ At("start", "dummy")
    /\ reinit' = FALSE
    /\ frameNr' = 1
    /\ count' = [count EXCEPT !["img"] = 1]
    /\ UNCHANGED <<commands, reports, queue, shutdown, misused, history>>

\* while (ss_ctx.reinit) { ss_ctx.reinit = false; ... alloc_img
StartRun ==
    /\ At("start", "dummy")
    /\ reinit' = FALSE
    /\ count' = [count EXCEPT !["img"] = 1]
    /\ UNCHANGED <<frameNr, commands, reports, queue, shutdown, misused, history>>

\* dummy_img fills the image, or the run is given up
DummyImage ==
    /\ \/ At("dummy", "context") /\ UNCHANGED <<shutdown, leaked, count>>
       \/ Abandon("dummy", "dummy_img", {"img"})
    /\ Use({"img"})
    /\ UNCHANGED <<reinit, frameNr, commands, reports, queue, reinits, commanded>>

\* make_encode_context_buffer: make_hwdevice, then make_encode_context, which
\* leaves the device behind when it fails, and uses what alloc_encode_context
\* returns without a test: if that is NULL the process crashes
MakeContext ==
    /\ \/ /\ At("context", "preset")
          /\ count' = [count EXCEPT !["ctx"] = 1]
          /\ UNCHANGED <<shutdown, leaked>>
       \/ Abandon("context", "make_hwdevice", {"img"})
       \/ Abandon("context", "make_encode_context", {"img", "device"})
       \/ At("context", "crashed") /\ UNCHANGED <<count, shutdown, leaked>>
    /\ UNCHANGED <<reinit, frameNr, commands, reports, queue, reinits, commanded, misused>>

\* sink->preset(sink, context), as its last statement ends; make_avframe_buffer
Preset ==
    /\ At("preset", "test")
    /\ count' = [count EXCEPT !["frame"] = 1]
    /\ UNCHANGED <<reinit, frameNr, commands, reports, queue, shutdown, misused, history>>

\* MUTANT of TestShutdown: the loop does not look at the event
TestShutdownNot ==
    /\ At("test", "drain")
    /\ UNCHANGED <<reinit, frameNr, count, commands, reports, queue, shutdown,
                   misused, history>>

\* while (!IS_INVOKED(ctx->shutdown_event))
TestShutdown ==
    /\ At("test", IF shutdown THEN "release" ELSE "drain")
    /\ UNCHANGED <<reinit, frameNr, count, commands, reports, queue, shutdown,
                   misused, history>>

\* One event of capture_event_in.  The branches of the frame rate drop the
\* context's buffer once more than they took it; a delay ends the draining.
HandleCommand ==
    /\ cpc = "drain"
    /\ commands # <<>>
    /\ LET code == Head(commands)
           drop == code \in {"DISABLE_CAPTURE_DELAY_INTERVAL", "AVCODEC_FRAMERATE_CHANGE"}
       IN  /\ commanded' = Append(commanded, code)
           /\ count' = [count EXCEPT !["ctx"] = IF drop /\ @ > 0 THEN @ - 1 ELSE @]
           /\ cpc' = IF code = "UPDATE_CAPTURE_DELAY_INTERVAL" THEN "report" ELSE "drain"
           /\ IF code = "UPDATE_CAPTURE_DELAY_INTERVAL" THEN UNCHANGED misused ELSE Use({"ctx"})
    /\ commands' = Tail(commands)
    /\ UNCHANGED <<reinit, frameNr, reports, queue, shutdown, reinits, leaked>>

DrainEnd ==
    /\ At("drain", "report")
    /\ commands = <<>>
    /\ UNCHANGED <<reinit, frameNr, count, commands, reports, queue, shutdown,
                   misused, history>>

\* CAPTURE_CYCLE_REPORT is pushed, waiting for room
Report ==
    /\ At("report", "capture")
    /\ reports < ReportQueueSize
    /\ reports' = reports + 1
    /\ UNCHANGED <<reinit, frameNr, count, commands, queue, shutdown, misused, history>>

\* display->klass->capture
CaptureFrame ==
    /\ \/ At("capture", "convert") /\ frameNr < MaxFrames /\ UNCHANGED <<reinit, reinits>>
       \/ At("capture", "test") /\ UNCHANGED <<reinit, reinits>>        \* TIMEOUT
       \/ At("capture", "release") /\ UNCHANGED <<reinit, reinits>>     \* ERR
       \/ /\ At("capture", "release")                                   \* REINIT
          /\ reinits < MaxReinits
          /\ reinits' = reinits + 1
          /\ reinit' = TRUE
    /\ Use({"img"})
    /\ UNCHANGED <<frameNr, count, commands, reports, queue, shutdown, commanded, leaked>>

\* MUTANT of Convert: the failing path forgets to drop the context
ConvertKeepsContext ==
    /\ \/ At("convert", "encode") /\ UNCHANGED <<shutdown, count>>
       \/ At("convert", "test") /\ shutdown' = TRUE /\ count' = [count EXCEPT !["ctx"] = @ + 1]
    /\ Use({"img", "ctx", "frame"})
    /\ UNCHANGED <<reinit, frameNr, commands, reports, queue, history>>

\* device->klass->convert: a failure raises the event and tests it again
Convert ==
    /\ \/ At("convert", "encode") /\ UNCHANGED shutdown
       \/ At("convert", "test") /\ shutdown' = TRUE
    /\ Use({"img", "ctx", "frame"})
    /\ UNCHANGED <<reinit, frameNr, count, commands, reports, queue, history>>

\* encode(ctx->frame_nr++, ...): a packet, no packet yet, or an error
Encode ==
    /\ \/ At("encode", "push") /\ UNCHANGED shutdown
       \/ At("encode", "test") /\ UNCHANGED shutdown       \* NEED_MORE_FRAME, END_OF_STREAM
       \/ At("encode", "release") /\ shutdown' = TRUE
    /\ frameNr' = frameNr + 1
    /\ Use({"ctx", "frame"})
    /\ UNCHANGED <<reinit, count, commands, reports, queue, history>>

\* MUTANT of PushPacket: the push does not wait for room
PushPacketNoWait ==
    /\ At("push", "count")
    /\ packets' = Append(packets, frameNr - 1)
    /\ UNCHANGED <<reinit, frameNr, count, commands, reports, queued, counted, shutdown,
                   misused, history>>

\* The packet of the frame is pushed: while (queue->size >= queue->max_size), and
\* the list gets it.  Between the two the counter can only fall, so that they are
\* one step.
PushPacket ==
    /\ At("push", "count")
    /\ queued < PacketQueueSize
    /\ packets' = Append(packets, frameNr - 1)
    /\ UNCHANGED <<reinit, frameNr, count, commands, reports, queued, counted, shutdown,
                   misused, history>>

\* queue->size++ after the mutex: the counter is read ...
CountLoad ==
    /\ At("count", "store")
    /\ counted' = queued
    /\ UNCHANGED <<reinit, frameNr, count, commands, reports, packets, queued, shutdown,
                   misused, history>>

\* ... and written
CountStore ==
    /\ At("store", "test")
    /\ queued' = counted + 1
    /\ counted' = 0
    /\ UNCHANGED <<reinit, frameNr, count, commands, reports, packets, shutdown, misused,
                   history>>

\* the three BUFFER_UNREF at the end of captureThread
Release ==
    /\ At("release", "cleanup")
    /\ count' = [b \in CaptureBuffers |-> 0]
    /\ misused' = misused \cup {b \in CaptureBuffers : count[b] = 0}
    /\ leaked' = leaked \cup ({"release"} \X {b \in CaptureBuffers : count[b] > 1})
    /\ UNCHANGED <<reinit, frameNr, commands, reports, queue, shutdown,
                   reinits, commanded>>

\* free_resources, get_display_by_name: a new display is there, or not
ReplaceDisplay ==
    /\ \/ At("cleanup", IF reinit THEN "start" ELSE "raise")
       \/ At("cleanup", "raise")
    /\ UNCHANGED <<reinit, frameNr, count, commands, reports, queue, shutdown,
                   misused, history>>

\* MUTANT of RaiseShutdown: the thread ends without raising the event
RaiseShutdownNot ==
    /\ At("raise", "done")
    /\ UNCHANGED <<reinit, frameNr, count, commands, reports, queue, shutdown,
                   misused, history>>

\* RAISE_EVENT(ss_ctx.shutdown_event) as capture() ends
RaiseShutdown ==
    /\ At("raise", "done")
    /\ shutdown' = TRUE
    /\ UNCHANGED <<reinit, frameNr, count, commands, reports, queue, misused, history>>

CaptureInit ==
    /\ cpc = "start" /\ reinit = TRUE /\ frameNr = 1
    /\ count = [b \in CaptureBuffers |-> 0]
    /\ commands = <<>> /\ reports = 0 /\ packets = <<>>
    /\ queued = 0 /\ counted = 0 /\ shutdown = FALSE
    /\ reinits = 0 /\ commanded = <<>> /\ misused = {} /\ leaked = {}

CaptureStep ==
    \/ StartRun \/ DummyImage \/ MakeContext \/ Preset
    \/ TestShutdown \/ HandleCommand \/ DrainEnd \/ Report
    \/ CaptureFrame \/ Convert \/ Encode
    \/ PushPacket \/ CountLoad \/ CountStore
    \/ Release \/ ReplaceDisplay \/ RaiseShutdown

-----------------------------------------------------------------------------
(* What the other threads may do to the queues and the event, whoever they *)
(* are: the thread's environment.                                          *)

\* a packet is unlinked by pop, which waits on the list and on the counter
TakePacket ==
    /\ packets # <<>> /\ queued > 0
    /\ packets' = Tail(packets)
    /\ UNCHANGED <<cpc, reinit, frameNr, count, commands, reports, queued, counted, shutdown,
                   misused, history>>

\* queue->size-- of a pop is written: what it makes of a value read earlier,
\* and that is lower than the size of the queue, whatever was counted since
TakenStore ==
    /\ queued' \in 0 .. PacketQueueSize - 1
    /\ UNCHANGED <<cpc, reinit, frameNr, count, commands, reports, packets, counted, shutdown,
                   misused, history>>

\* the report queue is popped
TakeReport ==
    /\ reports > 0
    /\ reports' = reports - 1
    /\ UNCHANGED <<cpc, reinit, frameNr, count, commands, queue, shutdown,
                   misused, history>>

\* the event is raised
RaisedElsewhere ==
    /\ ~shutdown
    /\ shutdown' = TRUE
    /\ UNCHANGED <<cpc, reinit, frameNr, count, commands, reports, queue,
                   misused, history>>

\* An event for this thread.  The control thread holds this queue as its
\* output (adaptive.h:40) and does not push to it yet.
Command(code) ==
    /\ Len(commanded) + Len(commands) < MaxCommands
    /\ commands' = Append(commands, code)
    /\ UNCHANGED <<cpc, reinit, frameNr, count, reports, queue, shutdown,
                   misused, history>>

Environment == \/ TakePacket \/ TakenStore \/ TakeReport \/ RaisedElsewhere
               \/ \E code \in Commands : Command(code)

CaptureSpec == CaptureInit /\ [][CaptureStep \/ Environment]_captureVars

-----------------------------------------------------------------------------
(* Properties.                                                             *)

CapturePCs == {"start", "dummy", "context", "preset", "test", "drain", "report", "capture",
               "convert", "encode", "push", "count", "store", "release", "cleanup",
               "raise", "done", "crashed"}
Reasons == {"dummy_img", "make_hwdevice", "make_encode_context", "release"}

\* Every variable keeps its type; the counter of the packet queue, if not its
\* list, stays within the queue's size, whatever updates of it are lost.
CaptureTypeOK ==
    /\ cpc \in CapturePCs
    /\ reinit \in BOOLEAN /\ shutdown \in BOOLEAN
    /\ frameNr \in Nat \ {0}
    /\ count \in [CaptureBuffers -> Nat]
    /\ commands \in Seq(Commands) /\ commanded \in Seq(Commands)
    /\ reports \in 0 .. ReportQueueSize
    /\ packets \in Seq(Nat)
    /\ queued \in 0 .. PacketQueueSize /\ counted \in 0 .. PacketQueueSize - 1
    /\ cpc = "count" => queued < PacketQueueSize
    /\ reinits \in 0 .. MaxReinits
    /\ misused \subseteq CaptureBuffers
    /\ leaked \subseteq Reasons \X (CaptureBuffers \cup {"device"})

\* the events whose handling drops the context once too often
Dropping == {"DISABLE_CAPTURE_DELAY_INTERVAL", "AVCODEC_FRAMERATE_CHANGE"}

\* On every path through a run -- a timeout, a failed conversion, an encoder
\* that wants more frames, a new display, a stop in between -- each of the three
\* buffers is alive when used and freed by the drops at the end, unless one of
\* the two events was handled; only a run that fails to start leaks
\* (encoder_thread.cpp:121-267).
BuffersBalanced ==
    (\A i \in DOMAIN commanded : commanded[i] \notin Dropping)
        => misused = {} /\ \A l \in leaked : l[1] # "release"

\* The packets in the queue carry rising presentation times, all of them below
\* that of the next frame, through any number of runs: a new display goes on
\* counting (encoder_thread.cpp:238 and :292).
PacketsInOrder ==
    /\ \A i, j \in DOMAIN packets : i < j => packets[i] < packets[j]
    /\ \A i \in DOMAIN packets : packets[i] < frameNr
    /\ cpc = "push" => \A i \in DOMAIN packets : packets[i] < frameNr - 1
=============================================================================
