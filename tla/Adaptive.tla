------------------------------ MODULE Adaptive ------------------------------
(***************************************************************************)
(* The adaptive control (src/adaptive/screencoder_adaptive.cpp): a thread  *)
(* that turns reports of the capture thread and of the sink into records,  *)
(* a thread that weighs the records, and newAdaptiveControl, on whose      *)
(* stack lies the context both use.  Nothing is locked: the window of      *)
(* records is shifted element by element while it is summed up, and an     *)
(* element is read field by field while it is copied: what is read of it   *)
(* then is, field for field, of the old record or of the new one.          *)
(*                                                                         *)
(* A record is named by its turn to be stamped, 0 for the zeroes there were*)
(* at first, and a cycle by the number of the report it came with.  `prev` *)
(* is the number of records stamped before it was taken, so that diff < 0  *)
(* is a time <= prev.  What is read of the context after newAdaptiveControl*)
(* has returned is what was there, or the end of the process.              *)
(***************************************************************************)
EXTENDS Integers, Sequences

CONSTANTS RecordSize,   \* RECORD_SIZE = 200
          MaxReports,   \* BOUND: reports of both kinds
          MaxRecords    \* BOUND: records pushed

ASSUME AdaptiveAssumption ==
    /\ RecordSize \in Nat /\ RecordSize >= 2
    /\ MaxReports \in Nat /\ MaxRecords \in Nat

Slots == 1 .. RecordSize            \* records[0] is slot 1
Kinds == {"sink", "capture"}        \* the reports, and the cycles of a record
Fields == Kinds \cup {"time"}        \* of a record

VARIABLES
    shutdown,       \* the event is raised
    control,        \* newAdaptiveControl
    sent,           \* reports pushed, by kind
    taken,          \* reports popped, by kind
    raced,          \* the kinds whose queue has a wrong count of its reports
    listen,         \* adaptiveThreadListen
    rec,            \* the cycles in its record
    has,            \* has_sink, has_capture
    i,              \* the index of its loop in push_record
    records,        \* context->records: the record in each element
    pushed,         \* HISTORY: the cycles of every record that was stamped
    recordCount,    \* context->record_count
    process,        \* adaptiveThreadProcess
    j,              \* the index of its loop in median_10_record
    seen,           \* the fields it has read of its element
    prev,           \* context->prev
    weighed,        \* what this evaluation weighed last
    began,          \* HISTORY: the newest record as this evaluation began
    stray,          \* HISTORY: has_sink was TRUE by chance
    fault           \* the gone context was used: the process has ended

listenVars == <<listen, rec, has, i, records, pushed, recordCount, taken, stray>>
processVars == <<process, j, seen, prev, weighed, began>>
adaptiveVars == <<shutdown, control, sent, raced, listenVars, processVars, fault>>

LGoto(from, to) == listen = from /\ listen' = to
PGoto(from, to) == process = from /\ process' = to
others == <<shutdown, control, sent, raced, fault>>

NoCycles == [kind \in Kinds |-> 0]
NoReports == [kind \in Kinds |-> FALSE]
Zero == [field \in Fields |-> 0]

\* the cycle of a kind that is in the window's first element
Newest(kind) == IF records[1] = 0 THEN 0 ELSE pushed[records[1]][kind]

-----------------------------------------------------------------------------
(* The listening thread.                                                   *)

\* while (!IS_INVOKED(context->shutdown)): rec is zeroed, has_capture is
\* FALSE, has_sink is what the stack holds
ListenTest ==
    /\ LGoto("test", IF shutdown THEN "done" ELSE "peekSink")
    /\ rec' = NoCycles
    /\ \E chance \in BOOLEAN :
          /\ chance => Len(pushed) < MaxRecords
          /\ has' = [kind \in Kinds |-> kind = "sink" /\ chance]
          /\ stray' = (stray \/ chance)
    /\ UNCHANGED <<i, records, pushed, recordCount, taken, processVars, others>>

\* peek looks at the count of a queue ...
Peek(kind, from, pop, next) ==
    /\ \E some \in IF kind \in raced THEN BOOLEAN ELSE {taken[kind] < sent[kind]} :
           LGoto(from, IF some THEN pop ELSE next)
    /\ UNCHANGED <<rec, has, i, records, pushed, recordCount, taken, stray, processVars, others>>

\* ... and pop waits for a report to be in the list
Pop(kind, from, to) ==
    /\ LGoto(from, to)
    /\ taken[kind] < sent[kind]
    /\ taken' = [taken EXCEPT ![kind] = @ + 1]
    /\ rec' = [rec EXCEPT ![kind] = taken[kind] + 1]
    /\ has' = [has EXCEPT ![kind] = TRUE]
    /\ UNCHANGED <<i, records, pushed, recordCount, stray, processVars, others>>

Popping == [sink |-> "popSink", capture |-> "popCapture"]

TakeSink == \/ Peek("sink", "peekSink", Popping.sink, "peekCapture")
            \/ Pop("sink", Popping.sink, "peekCapture")

TakeCapture == \/ Peek("capture", "peekCapture", Popping.capture, "fill")
               \/ Pop("capture", Popping.capture, "fill")

\* MUTANT of Fill: a cycle without a report stays zero
FillZero ==
    /\ LGoto("fill", IF has.sink \/ has.capture THEN "shift" ELSE "test")
    /\ pushed' = IF has.sink \/ has.capture THEN Append(pushed, rec) ELSE pushed
    /\ rec' = NoCycles /\ has' = NoReports
    /\ UNCHANGED <<i, records, recordCount, taken, stray, processVars, others>>

\* The record gets its timestamp, and the cycles no report came for from the
\* newest record.
Fill ==
    /\ LGoto("fill", IF has.sink \/ has.capture THEN "shift" ELSE "test")
    /\ pushed' = IF has.sink \/ has.capture
                 THEN Append(pushed, [kind \in Kinds |-> IF has[kind] THEN rec[kind]
                                                         ELSE Newest(kind)])
                 ELSE pushed
    /\ rec' = NoCycles /\ has' = NoReports
    /\ UNCHANGED <<i, records, recordCount, taken, stray, processVars, others>>

\* MUTANT of Shift: the loop ends one element early
ShiftShort ==
    /\ LGoto("shift", IF i >= RecordSize - 1 THEN "head" ELSE "shift")
    /\ records' = [records EXCEPT ![i] = records[i - 1]]
    /\ i' = IF i >= RecordSize - 1 THEN 2 ELSE i + 1
    /\ UNCHANGED <<rec, has, pushed, recordCount, taken, stray, processVars, others>>

\* MUTANT of Shift: the elements are moved from the back
ShiftFromBack ==
    /\ LGoto("shift", "head")
    /\ records' = [s \in Slots |-> IF s = 1 THEN records[1] ELSE records[s - 1]]
    /\ i' = 2
    /\ UNCHANGED <<rec, has, pushed, recordCount, taken, stray, processVars, others>>

\* records[i] = records[i-1], from the front, is done
Shift ==
    /\ LGoto("shift", IF i = RecordSize THEN "head" ELSE "shift")
    /\ records' = [records EXCEPT ![i] = records[i - 1]]
    /\ i' = IF i = RecordSize THEN 2 ELSE i + 1
    /\ UNCHANGED <<rec, has, pushed, recordCount, taken, stray, processVars, others>>

\* the new record is copied to the front
StoreHead ==
    /\ LGoto("head", "count")
    /\ records' = [records EXCEPT ![1] = Len(pushed)]
    /\ UNCHANGED <<rec, has, i, pushed, recordCount, taken, stray, processVars, others>>

\* and counted
CountRecord ==
    /\ LGoto("count", "test")
    /\ recordCount' = recordCount + 1
    /\ UNCHANGED <<rec, has, i, records, pushed, taken, stray, processVars, others>>

-----------------------------------------------------------------------------
(* The processing thread.                                                  *)

\* the record a field of element s may be of: while it is being copied, the
\* one it was or the one it becomes
MayRead(s) ==
    {records[s]} \cup (IF listen = "shift" /\ s = i THEN {records[i - 1]} ELSE {})
                 \cup (IF listen = "head" /\ s = 1 THEN {Len(pushed)} ELSE {})

\* while (!IS_INVOKED(context->shutdown)), with the sleep until there are
\* RECORD_SIZE records
ProcessTest ==
    /\ PGoto("test", IF shutdown THEN "done" ELSE "time")
    /\ ~shutdown => recordCount >= RecordSize
    /\ began' = IF shutdown THEN 0 ELSE records[1]
    /\ UNCHANGED <<j, seen, prev, weighed, listenVars, others>>

\* diff = records[i].timestamp - prev; if (diff < 0) continue
ReadTime ==
    /\ process = "time" /\ j <= RecordSize
    /\ \E time \in MayRead(j) :
           IF time > prev
           THEN process' = "sink" /\ seen' = [seen EXCEPT !.time = time] /\ UNCHANGED j
           ELSE j' = j + 1 /\ UNCHANGED <<process, seen>>
    /\ UNCHANGED <<prev, weighed, began, listenVars, others>>

\* the element's cycles, each read when it is needed, are added with the
\* weight diff
ReadSinkCycle ==
    /\ PGoto("sink", "capture")
    /\ \E sink \in MayRead(j) : seen' = [seen EXCEPT !.sink = sink]
    /\ UNCHANGED <<j, prev, weighed, began, listenVars, others>>

ReadCaptureCycle ==
    /\ PGoto("capture", "time")
    /\ \E capture \in MayRead(j) : weighed' = [seen EXCEPT !.capture = capture]
    /\ j' = j + 1
    /\ seen' = Zero
    /\ UNCHANGED <<prev, began, listenVars, others>>

\* the average is logged, and prev = now
EndEvaluation ==
    /\ PGoto("time", "test")
    /\ j > RecordSize
    /\ prev' = Len(pushed)
    /\ weighed' = Zero /\ began' = 0 /\ j' = 1
    /\ UNCHANGED <<seen, listenVars, others>>

-----------------------------------------------------------------------------
\* a report is pushed to one of the queues; its update of the count, which is
\* not locked, may overlap another's, and the count is wrong from then on
Report(kind) ==
    /\ sent.sink + sent.capture < MaxReports
    /\ sent' = [sent EXCEPT ![kind] = @ + 1]
    /\ raced' \in {raced, raced \cup {kind}}
    /\ UNCHANGED <<shutdown, control, fault, listenVars, processVars>>

\* whoever stops the session raises the event
Stop ==
    /\ ~shutdown
    /\ shutdown' = TRUE
    /\ UNCHANGED <<control, sent, raced, fault, listenVars, processVars>>

\* MUTANT of ControlReturns: newAdaptiveControl does not wait for the event
ControlReturnsAtOnce ==
    /\ control = "waiting"
    /\ control' = "returned"
    /\ UNCHANGED <<shutdown, sent, raced, fault, listenVars, processVars>>

\* WAIT_EVENT(context.shutdown), and the context is gone
ControlReturns ==
    /\ control = "waiting" /\ shutdown
    /\ control' = "returned"
    /\ UNCHANGED <<shutdown, sent, raced, fault, listenVars, processVars>>

\* a thread that goes on reads the gone context
UseGoneContext ==
    /\ control = "returned"
    /\ listen # "done" \/ process # "done"
    /\ fault' = TRUE
    /\ UNCHANGED <<shutdown, control, sent, raced, listenVars, processVars>>

Init ==
    /\ shutdown = FALSE /\ control = "waiting" /\ fault = FALSE
    /\ sent = NoCycles /\ taken = NoCycles /\ raced = {}
    /\ listen = "test" /\ rec = NoCycles /\ i = 2 /\ stray = FALSE
    /\ has = NoReports
    /\ records = [s \in Slots |-> 0] /\ pushed = <<>> /\ recordCount = 0
    /\ process = "test" /\ j = 1 /\ seen = Zero /\ prev = 0 /\ weighed = Zero /\ began = 0

Listen == \/ ListenTest \/ TakeSink \/ TakeCapture \/ Fill
          \/ Shift \/ StoreHead \/ CountRecord
Process == ProcessTest \/ ReadTime \/ ReadSinkCycle \/ ReadCaptureCycle \/ EndEvaluation

Next == ~fault /\ (\/ Listen \/ Process \/ ControlReturns \/ UseGoneContext \/ Stop
                   \/ \E kind \in Kinds : Report(kind))

Spec == Init /\ [][Next]_adaptiveVars

\* The three threads keep being scheduled; the session need not stop.
FairSpec == /\ Spec
            /\ WF_adaptiveVars(~fault /\ Listen)
            /\ WF_adaptiveVars(~fault /\ Process)
            /\ WF_adaptiveVars(~fault /\ ControlReturns)

-----------------------------------------------------------------------------
(* Properties.                                                             *)

\* Except inside push_record, the window holds the newest record and, in every
\* other place, the one before: RECORD_SIZE records have been pushed when the
\* first is weighed, and two are left (screencoder_adaptive.cpp:31-35).
WindowHoldsTwo ==
    listen \notin {"shift", "head"} =>
        /\ records[1] = Len(pushed)
        /\ pushed # <<>> => \A s \in Slots \ {1} : records[s] = Len(pushed) - 1

\* Between two rounds the newest record has the capture cycle reported last,
\* through any number of rounds without such a report; the sink's cycle as well,
\* as long as has_sink, which is not initialised, happened to be FALSE
\* (screencoder_adaptive.cpp:65, :118-121).
CyclesKept ==
    listen = "test" => /\ Newest("capture") = taken["capture"]
                       /\ ~stray => Newest("sink") = taken["sink"]

\* An evaluation weighs only what was stamped after the one before ended, and
\* nothing of a record older than the two newest it began with, although the
\* window is shifted under its loop and its elements are read and copied in
\* pieces: what is weighed together can be of two records, but a cycle is at
\* most one record older than the time it is weighed with
\* (screencoder_adaptive.cpp:31-33, :43-51).  It is not said how often: the
\* record before the newest is weighed for every place that holds it.
EvaluationFresh ==
    weighed # Zero => /\ weighed.time > prev
                      /\ \A field \in Fields : /\ weighed[field] >= began - 1
                                               /\ weighed[field] >= weighed.time - 1

\* After a stop newAdaptiveControl returns and both threads end, or the gone
\* context ends the process, which it can only after a stop; but the listening
\* thread may wait for ever in pop for a report that a wrong count made peek
\* see (screencoder_adaptive.cpp:62-71, :89-92, :133, :184, queue.cpp:61, :149).
ThreadsEnd ==
    /\ shutdown ~> \/ fault
                   \/ /\ control = "returned" /\ process = "done"
                      /\ listen = "done" \/ \E kind \in raced : listen = Popping[kind]
    /\ [](fault => shutdown)
=============================================================================
