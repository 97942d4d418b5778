------------------------------ MODULE AppSink ------------------------------
(***************************************************************************)
(* The application sink (src/sink/appsink/app_sink.cpp) and the Go         *)
(* listener around it (src/sink/appsink/go/appsink.go): a frame goes from  *)
(* the video thread through the queue `out` of one place to a goroutine    *)
(* that pops it, through a channel to a goroutine that packetizes it and   *)
(* drops it, and its RTP packets through a channel to whoever calls        *)
(* ReadRTP.  Close stops all this from a fourth thread, which pops what is *)
(* left in the queue and frees the queue and the sink.                     *)
(*                                                                         *)
(* The queue and the reference counts are at the granularity of            *)
(* QueueArray, except that what is done under the mutex is one step.  A    *)
(* packet comes with the one reference it has in the packet queue: the     *)
(* capture thread has dropped its own.  Sends on the channels, which have  *)
(* no buffer, are taken with the receive.  The reports of GoUnrefAVPacket  *)
(* always find room among INFINITE_ places.                                *)
(***************************************************************************)
EXTENDS Integers, Sequences, FiniteSets, SequencesExt

CONSTANTS MaxFrames,    \* BOUND: frames the capture thread delivers
          PacketsOf,    \* the RTP packets Packetize makes of a frame
          Created,      \* when a frame's buffer was made, in time since the epoch
          IntModulus,   \* BOUND: stands for the 2^32 values of an int
          Tick,         \* BOUND: stands for the 1000000000 / 90000 ns of a tick
          ClockModulus, \* BOUND: stands for the 2^32 of the RTP clock
          AnySamples    \* BOUND: what a negative duration may become

Frames == 1 .. MaxFrames

ASSUME AppSinkAssumption ==
    /\ MaxFrames \in Nat /\ PacketsOf \in [Frames -> Nat]
    /\ Created \in [Frames -> Nat] /\ \A f, g \in Frames : f < g => Created[f] <= Created[g]
    /\ IntModulus \in Nat \ {0} /\ IntModulus % 2 = 0
    /\ Tick \in Nat \ {0} /\ ClockModulus \in Nat \ {0}
    /\ AnySamples \subseteq 0 .. ClockModulus - 1

\* the video thread, the goroutine in GoHandleAVPacket, the one in writeSample
\* and the thread in Close
Threads == {"video", "handler", "writer", "closer"}

VARIABLES
    pc,         \* the statement a thread executes next
    cur,        \* the frame it has, 0 if none
    reg,        \* the register of its x++ or x--
    popped,     \* frames the video thread has taken from the packet queue
    out,        \* sink->out: its list
    size,       \* and its counter, a uint64: n < 0 stands for 2^64 + n
    refs,       \* ref_count of a frame's buffer
    buried,     \* the frames whose buffer was given to free()
    refRaced,   \* HISTORY: the frames two updates of whose count overlapped
    left,       \* RTP packets the writer has not sent yet
    prev,       \* the static `prev` of GoHandleAVPacket
    duration,   \* the durations of the frames got and work
    clock,      \* p.Timestamp of the packetizer
    stamped,    \* HISTORY: the frames packetized and the time their packets carry
    read,       \* HISTORY: the frames whose RTP packets ReadRTP returned
    shutdown,   \* the shutdown event is raised
    freed,      \* sink->out and the sink are freed
    sinkNil,    \* app.sink = nil
    fault       \* freed memory or NULL was used: what follows is undefined

queue == <<out, size>>
counts == <<refs, buried, refRaced>>
times == <<prev, duration, clock, stamped>>
flow == <<left, times, read>>
flags == <<shutdown, freed, sinkNil, fault>>
avars == <<pc, cur, reg, popped, queue, counts, flow, flags>>

got == cur["handler"]
work == cur["writer"]

\* what is stored to an int, and what float64 to uint32 makes of it
ToInt(x) == ((x + IntModulus \div 2) % IntModulus) - IntModulus \div 2
SamplesOf(d) == IF d >= 0 THEN {d \div Tick} ELSE AnySamples

Goto(t, from, to) == pc[t] = from /\ pc' = [pc EXCEPT ![t] = to]

-----------------------------------------------------------------------------
(* The reference count of a frame's buffer, and the counter of the queue.  *)

\* another thread is between the first and the last access of an update of the
\* count of f
Updating(f, t) ==
    \E u \in Threads \ {t} : /\ cur[u] = f
                             /\ pc[u] \in {"ref2", "unref2", "check", "drop2", "dropcheck"}

\* obj->ref_count is loaded ...
CountLoad(t, from, to) ==
    /\ Goto(t, from, to)
    /\ reg' = [reg EXCEPT ![t] = refs[cur[t]]]
    /\ refRaced' = IF Updating(cur[t], t) THEN refRaced \cup {cur[t]} ELSE refRaced
    /\ UNCHANGED <<cur, popped, queue, refs, buried, flow, flags>>

\* ... and stored back, one up or one down
CountStore(t, from, to, d) ==
    /\ Goto(t, from, to)
    /\ refs' = [refs EXCEPT ![cur[t]] = reg[t] + d]
    /\ reg' = [reg EXCEPT ![t] = 0]
    /\ UNCHANGED <<cur, popped, queue, buried, refRaced, flow, flags>>

\* `if (!obj->ref_count)` is one more load
FreeIfZero(t, from, to) ==
    /\ Goto(t, from, to)
    /\ buried' = IF refs[cur[t]] = 0 THEN buried \cup {cur[t]} ELSE buried
    /\ cur' = IF from = "dropcheck" THEN [cur EXCEPT ![t] = 0] ELSE cur
    /\ UNCHANGED <<reg, popped, queue, refs, refRaced, flow, flags>>

\* BUFFER_UNREF
DropLoad(t) == CountLoad(t, "drop", "drop2")
DropStore(t) == CountStore(t, "drop2", "dropcheck", -1)
Drop(t, to) == DropLoad(t) \/ DropStore(t) \/ FreeIfZero(t, "dropcheck", to)

\* queue->size++ and queue->size--
SizeLoad(t, from, to) ==
    /\ Goto(t, from, to)
    /\ reg' = [reg EXCEPT ![t] = size]
    /\ UNCHANGED <<cur, popped, queue, counts, flow, flags>>

SizeStore(t, from, to, d) ==
    /\ Goto(t, from, to)
    /\ size' = reg[t] + d
    /\ reg' = [reg EXCEPT ![t] = 0]
    /\ UNCHANGED <<cur, popped, out, counts, flow, flags>>

-----------------------------------------------------------------------------
(* queue_array_pop, which a goroutine and Close execute.                   *)

\* the polling loop ends: `first` and `size` are read without the lock
SeeElement(t) ==
    /\ Goto(t, "see", "take")
    /\ out # <<>> /\ size # 0
    /\ UNCHANGED <<cur, reg, popped, queue, counts, flow, flags>>

\* under the mutex: the container is unlinked, if there still is one
Take(t) ==
    /\ Goto(t, "take", "ref") /\ out # <<>>
    /\ cur' = [cur EXCEPT ![t] = Head(out)]
    /\ out' = Tail(out)
    /\ UNCHANGED <<reg, popped, size, counts, flow, flags>>

PopRefLoad(t) == CountLoad(t, "ref", "ref2")
PopRefStore(t) == CountStore(t, "ref2", "unref", 1)
PopUnrefLoad(t) == CountLoad(t, "unref", "unref2")
\* MUTANT of PopUnrefStore: pop keeps the reference of the list
PopUnrefStoreKept(t) == CountStore(t, "unref2", "check", 0)
PopUnrefStore(t) == CountStore(t, "unref2", "check", -1)
PopUnrefCheck(t) == FreeIfZero(t, "check", "dec")
DecLoad(t) == SizeLoad(t, "dec", "dec2")
DecStore(t, to) == SizeStore(t, "dec2", to, -1)

Pop(t, to) ==
    \/ SeeElement(t) \/ Take(t) \/ PopRefLoad(t) \/ PopRefStore(t)
    \/ PopUnrefLoad(t) \/ PopUnrefStore(t) \/ PopUnrefCheck(t)
    \/ DecLoad(t) \/ DecStore(t, to)

-----------------------------------------------------------------------------
(* videoBroadcastThread with appsink_handle.                               *)

\* while (!IS_INVOKED(shutdown_event)): after a raise the thread ends
VideoTest ==
    /\ Goto("video", "test", IF shutdown THEN "end" ELSE "pop")
    /\ UNCHANGED <<cur, reg, popped, queue, counts, flow, flags>>

\* a popped packet carries the reference the queue had
VideoPop ==
    /\ Goto("video", "pop", "room") /\ popped < MaxFrames
    /\ popped' = popped + 1
    /\ cur' = [cur EXCEPT !["video"] = popped + 1]
    /\ refs' = [refs EXCEPT ![popped + 1] = 1]
    /\ UNCHANGED <<reg, queue, buried, refRaced, flow, flags>>

\* QUEUE_ARRAY_CLASS->push(app->out, buf) polls until there is room
SeeRoom ==
    /\ Goto("video", "room", "ref") /\ size = 0
    /\ UNCHANGED <<cur, reg, popped, queue, counts, flow, flags>>

PushRefLoad == CountLoad("video", "ref", "ref2")
PushRefStore == CountStore("video", "ref2", "link", 1)

\* under the mutex: the container is linked at the end of the list
Link ==
    /\ Goto("video", "link", "inc")
    /\ out' = Append(out, cur["video"])
    /\ UNCHANGED <<cur, reg, popped, size, counts, flow, flags>>

IncLoad == SizeLoad("video", "inc", "inc2")
IncStore == SizeStore("video", "inc2", "drop", 1)

-----------------------------------------------------------------------------
(* The goroutine that pops: GoHandleAVPacket, then the channel.            *)

\* a nil sink ends the goroutine
HandlerCall ==
    /\ Goto("handler", "call", IF sinkNil THEN "end" ELSE "see")
    /\ UNCHANGED <<cur, reg, popped, queue, counts, flow, flags>>

\* *duration = current - prev, once the frame is popped
HandlerTime ==
    /\ Goto("handler", "time", "send")
    /\ duration' = [duration EXCEPT !.got = ToInt(Created[got] - prev)]
    /\ prev' = Created[got]
    /\ UNCHANGED <<cur, reg, popped, queue, counts, left, clock, stamped, read, flags>>

\* app.pktchannel <- &pkt, taken by the other goroutine
Channel ==
    /\ pc["handler"] = "send" /\ pc["writer"] = "recv"
    /\ pc' = [pc EXCEPT !["handler"] = "call", !["writer"] = "copy"]
    /\ cur' = [cur EXCEPT !["handler"] = 0, !["writer"] = got]
    /\ duration' = [got |-> 0, work |-> duration.got]
    /\ UNCHANGED <<reg, popped, queue, counts, left, prev, clock, stamped, read, flags>>

-----------------------------------------------------------------------------
(* The goroutine that packetizes: writeSample, then GoUnrefAVPacket.       *)

\* MUTANT of WriterCopy: a frame is cut one packet short
WriterCopyShort ==
    /\ Goto("writer", "copy", IF PacketsOf[work] > 0 THEN "emit" ELSE "report")
    /\ left' = IF PacketsOf[work] > 1 THEN PacketsOf[work] - 1 ELSE PacketsOf[work]
    /\ stamped' = Append(stamped, [frame |-> work, clock |-> clock])
    /\ \E samples \in SamplesOf(duration.work) : clock' = (clock + samples) % ClockModulus
    /\ UNCHANGED <<cur, reg, popped, queue, counts, prev, duration, read, flags>>

\* MUTANT of WriterCopy: a frame without packets does not move the clock
WriterCopyIdle ==
    /\ Goto("writer", "copy", IF PacketsOf[work] > 0 THEN "emit" ELSE "report")
    /\ left' = PacketsOf[work]
    /\ stamped' = Append(stamped, [frame |-> work, clock |-> clock])
    /\ \E samples \in SamplesOf(duration.work) :
          clock' = IF left' = 0 THEN clock ELSE (clock + samples) % ClockModulus
    /\ UNCHANGED <<cur, reg, popped, queue, counts, prev, duration, read, flags>>

\* C.GoBytes copies the frame; Packetize cuts it, stamps its packets with the
\* clock and advances the clock for the next frame
WriterCopy ==
    /\ Goto("writer", "copy", IF PacketsOf[work] > 0 THEN "emit" ELSE "report")
    /\ left' = PacketsOf[work]
    /\ stamped' = Append(stamped, [frame |-> work, clock |-> clock])
    /\ \E samples \in SamplesOf(duration.work) : clock' = (clock + samples) % ClockModulus
    /\ UNCHANGED <<cur, reg, popped, queue, counts, prev, duration, read, flags>>

\* s.channel <- p, taken by ReadRTP
WriterEmit ==
    /\ Goto("writer", "emit", IF left > 1 THEN "emit" ELSE "report")
    /\ left' = left - 1
    /\ read' = Append(read, work)
    /\ UNCHANGED <<cur, reg, popped, queue, counts, times, flags>>

\* GoUnrefAVPacket uses the sink before it drops the frame
WriterReport ==
    /\ Goto("writer", "report", "drop")
    /\ UNCHANGED <<cur, reg, popped, queue, counts, flow, flags>>

\* MUTANT of WriterDrop: the goroutine ends with the frame
WriterDropEnds == Drop("writer", "end")
WriterDrop == Drop("writer", "recv")

-----------------------------------------------------------------------------
(* Close: C.RaiseEvent, C.StopAppSink, lis.sink = nil.                     *)

CloseRaise ==
    /\ Goto("closer", "open", "peek")
    /\ shutdown' = TRUE
    /\ UNCHANGED <<cur, reg, popped, queue, counts, flow, freed, sinkNil, fault>>

\* queue_array_finalize: `while (peek)`, and what follows the loop: the frees
ClosePeek ==
    /\ Goto("closer", "peek", IF size = 0 THEN "nil" ELSE "see")
    /\ freed' = (size = 0)
    /\ UNCHANGED <<cur, reg, popped, queue, counts, flow, shutdown, sinkNil, fault>>

CloseNil ==
    /\ Goto("closer", "nil", "closed")
    /\ sinkNil' = TRUE
    /\ UNCHANGED <<cur, reg, popped, queue, counts, flow, shutdown, freed, fault>>

-----------------------------------------------------------------------------
\* The next statement of a thread uses memory that was freed, or NULL: the
\* queue or the sink after Close has freed them, an element another thread has
\* taken since the test, a buffer that was freed.  GoUnrefAVPacket does not test
\* for a nil sink.
Dead(t) ==
    \/ freed /\ pc[t] \in {"room", "link", "inc", "inc2", "see", "take", "dec", "dec2", "report"}
    \/ sinkNil /\ pc[t] = "report"
    \/ out = <<>> /\ pc[t] = "take"
    \/ cur[t] \in buried /\ pc[t] \in {"ref", "ref2", "unref", "unref2", "check", "time", "copy",
                                       "drop", "drop2", "dropcheck"}

Crash(t) ==
    /\ Dead(t)
    /\ fault' = TRUE
    /\ UNCHANGED <<pc, cur, reg, popped, queue, counts, flow, shutdown, freed, sinkNil>>

Init ==
    /\ pc = [video |-> "test", handler |-> "call", writer |-> "recv", closer |-> "open"]
    /\ cur = [t \in Threads |-> 0] /\ reg = [t \in Threads |-> 0]
    /\ popped = 0 /\ out = <<>> /\ size = 0
    /\ refs = [f \in Frames |-> 0] /\ buried = {} /\ refRaced = {}
    /\ left = 0 /\ read = <<>>
    /\ prev = 0 /\ duration = [got |-> 0, work |-> 0] /\ clock = 0 /\ stamped = <<>>
    /\ shutdown = FALSE /\ freed = FALSE /\ sinkNil = FALSE /\ fault = FALSE

Video ==
    \/ VideoTest \/ VideoPop
    \/ SeeRoom \/ PushRefLoad \/ PushRefStore \/ Link \/ IncLoad \/ IncStore
    \/ Drop("video", "test")
Handler == HandlerCall \/ Pop("handler", "time") \/ HandlerTime \/ Channel
Writer == WriterCopy \/ WriterEmit \/ WriterReport \/ WriterDrop
Close == CloseRaise \/ ClosePeek \/ Pop("closer", "drop") \/ Drop("closer", "peek") \/ CloseNil

\* one step of a thread
Runs(t, Step) == ~fault /\ (Crash(t) \/ (~Dead(t) /\ Step))

Next == \/ Runs("video", Video) \/ Runs("handler", Handler)
        \/ Runs("writer", Writer) \/ Runs("closer", Close)

Spec == Init /\ [][Next]_avars

\* The threads keep being scheduled, and the application keeps calling
\* ReadRTP; it need not call Close.
FairSpec == /\ Spec
            /\ WF_avars(Runs("video", Video))
            /\ WF_avars(Runs("handler", Handler))
            /\ WF_avars(Runs("writer", Writer))

-----------------------------------------------------------------------------
(* Properties.                                                             *)

\* the frames somebody works on or keeps
InUse == ToSet(out) \cup ({cur[t] : t \in Threads} \ {0})

\* Unless two updates of its count overlap, a frame's buffer is freed once the
\* threads, the queue and the channel are all done with it, and never before,
\* with Close draining the queue at the same time: neither is it freed under the
\* goroutine that copies it, nor left behind.  Nor does any thread use what is
\* gone until Close is called (generic_sink.cpp:45, app_sink.cpp:34 and :153,
\* queue.cpp:120, :139 and :172).
AliveWhileInUse ==
    /\ \A f \in Frames \ refRaced : f \in buried <=> f <= popped /\ f \notin InUse
    /\ fault /\ pc["closer"] = "open" => refRaced # {}

\* the RTP packets of a frame that ReadRTP has returned
Returned(f) == Cardinality({n \in DOMAIN read : read[n] = f})

\* Until Close is called ReadRTP returns the packets of every frame, all of
\* them and in order: nothing is skipped in the queue or the channels, those of
\* a frame come when those of every earlier one are through.  After Close what it
\* returns is still in order, and no packet comes twice (appsink.go:131-145).
ReadInOrder ==
    /\ \A i, j \in DOMAIN read : i < j => read[i] <= read[j]
    /\ \A f \in Frames : Returned(f) <= PacketsOf[f]
    /\ pc["closer"] = "open" => \A f, g \in Frames :
           f < g /\ Returned(g) > 0 => Returned(f) = PacketsOf[f]

\* As long as nobody calls Close, and no frame is freed under a thread by a lost
\* update of its count, every frame the capture thread delivers gets to the
\* reader whole and is dropped by all: no thread of the four waits for another
\* for ever (queue.cpp:61, :120).
FramesFlow ==
    <>(\/ pc["closer"] # "open" \/ fault
       \/ \A f \in Frames : Returned(f) = PacketsOf[f] /\ f \notin InUse)

\* From the second frame on the times the packets carry, taken without their
\* wrapping, follow the times at which the frames were made, one frame late:
\* they never run ahead of the frame before, and fall behind it by less than a
\* tick a frame, the fraction each conversion cuts off, as long as no two frames
\* are further apart than an int can tell -- two seconds, as with a picture
\* that stands still.  The second frame is stamped with anything, since the
\* duration of the first is the time since the epoch (app_sink.cpp:130-132,
\* appsink.go:88, h264_parser.go:332 and :338).
ClockLag ==
    \A n \in 3 .. Len(stamped) :
        (\A k \in 2 .. n - 1 : Created[stamped[k].frame] - Created[stamped[k - 1].frame]
                                     < IntModulus \div 2)
        => LET elapsed == Created[stamped[n - 1].frame] - Created[stamped[1].frame]
           IN  \E ticks \in 0 .. elapsed :
                  /\ stamped[n].clock = (stamped[2].clock + ticks) % ClockModulus
                  /\ elapsed - Tick * ticks \in 0 .. (n - 2) * (Tick - 1)
=============================================================================
