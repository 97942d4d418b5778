-------------------------------- MODULE Log --------------------------------
(***************************************************************************)
(* The log (src/util/log/screencoder_log.cpp) and the things made on first *)
(* use that a message needs: the start time, the class tables of buffers   *)
(* and queues, and the log queue with the thread that renders it.  Each of *)
(* them is guarded by RETURN_ONCE or RETURN_PTR_ONCE                       *)
(* (src/util/macro/screencoder_macro.h), a static flag that is tested, set *)
(* and only then followed by the making; nothing is locked.                *)
(*                                                                         *)
(* In the program's own order one thread logs before any other is started: *)
(* it validates the encoders first.  `early` lets the others begin at any  *)
(* time.  A table that is not filled yet may or may not have the entry that*)
(* is called.                                                              *)
(*                                                                         *)
(* A queue is a list and, updated after it and without its lock, the count *)
(* of it, which is what the rendering threads look at: an update that      *)
(* overlaps another one is lost (QueueArray).  A queue is named by the     *)
(* thread that made it, a rendering thread by the one that started it.  A  *)
(* count below zero stands for one that wrapped; MaxMessages is far below  *)
(* INFINITE_, so only such a count lets push wait.                         *)
(***************************************************************************)
EXTENDS Integers, Sequences

CONSTANTS Loggers,      \* the threads that log
          First,        \* the one that starts the others
          Rivals,       \* BOUND: the threads that may meet in a first use; the
                        \* others begin when the log queue is being made
          MaxMessages,  \* BOUND: messages of First when it goes first; any other
                        \* thread logs one
          Nil           \* NULL

ASSUME LogAssumption ==
    /\ First \in Loggers /\ Nil \notin Loggers
    /\ MaxMessages \in Nat

\* what is made on first use, in the order log() needs it
Once == {"start", "object", "queue", "log"}
After == [start |-> "object", object |-> "queue", queue |-> "log", log |-> "push"]
Tables == {"object", "queue"}

VARIABLES
    early,      \* the other threads may begin before First has logged
    pc,         \* what a thread is at, and the step of it
    done,       \* messages a thread has pushed
    told,       \* whether the time a thread took is since the start
    got,        \* the log queue a thread got
    flag,       \* the static flags that are set
    made,       \* what has been made
    ret,        \* the static `ret` of get_log_queue
    lists,      \* the log queues
    size,       \* the count of each
    loaded,     \* the count a thread has loaded to add to it
    serves,     \* the queue of each render_log, Nil before it is started
    at,         \* what render_log is at
    holds,      \* the message it has popped and not written yet
    drawn,      \* the count it has loaded to take from it
    file,       \* log.txt, oldest first
    replaced,   \* HISTORY: queues replaced before a thread was started for them
    lost,       \* HISTORY: queues whose count has lost an update
    erased,     \* HISTORY: what was in log.txt when it was truncated
    overlapped, \* HISTORY: something was used or made while another made it
    fault       \* NULL or an empty entry was used: the process has ended

onceVars == <<flag, made, ret, got, told, replaced, overlapped>>
renderVars == <<serves, at, holds, drawn, file, erased>>
queueVars == <<lists, size, loaded, lost>>
logVars == <<early, pc, done, onceVars, queueVars, renderVars, fault>>

Quota(t) == IF t = First /\ ~early THEN MaxMessages ELSE 1

At(t, what, step) == pc[t] = <<what, step>>
Goto(t, what, step) == pc' = [pc EXCEPT ![t] = <<what, step>>]

\* calling through a table that is not filled yet may end the process
Outcomes(unfilled) == {FALSE, unfilled}

-----------------------------------------------------------------------------
\* MUTANT of Begin: the other threads do not wait for the first
BeginAtOnce(t) ==
    /\ At(t, "idle", "test") /\ done[t] < Quota(t)
    /\ Goto(t, "start", "test")
    /\ UNCHANGED <<early, done, onceVars, queueVars, renderVars, fault>>

\* error::log is called, outside /util/
Begin(t) ==
    /\ At(t, "idle", "test") /\ done[t] < Quota(t)
    /\ t = First \/ done[First] > 0 \/ (early /\ (t \in Rivals \/ "log" \in flag))
    /\ Goto(t, "start", "test")
    /\ UNCHANGED <<early, done, onceVars, queueVars, renderVars, fault>>

\* if(init) return x: what x stands for is used, made or not
TestFlag(t, o) ==
    /\ At(t, o, "test")
    /\ IF o \in flag
       THEN /\ Goto(t, After[o], "test")
            /\ overlapped' = (overlapped \/ o \notin made)
            /\ told' = IF o = "start" THEN [told EXCEPT ![t] = o \in made] ELSE told
            /\ got' = IF o = "log" THEN [got EXCEPT ![t] = ret] ELSE got
            /\ fault' \in Outcomes(o \in Tables \ made)
       ELSE /\ Goto(t, o, "set")
            /\ UNCHANGED <<told, got, overlapped, fault>>
    /\ UNCHANGED <<early, done, flag, made, ret, replaced, queueVars, renderVars>>

\* init = true
SetFlag(t, o) ==
    /\ At(t, o, "set")
    /\ Goto(t, o, "make")
    /\ flag' = flag \cup {o}
    /\ overlapped' = (overlapped \/ o \in flag)
    /\ UNCHANGED <<early, done, told, got, made, ret, replaced, queueVars, renderVars, fault>>

\* the start time is taken, a class table filled
Make(t, o) ==
    /\ At(t, o, "make") /\ o # "log"
    /\ Goto(t, After[o], "test")
    /\ made' = made \cup {o}
    /\ told' = IF o = "start" THEN [told EXCEPT ![t] = TRUE] ELSE told
    /\ UNCHANGED <<early, done, got, flag, ret, replaced, overlapped, queueVars, renderVars, fault>>

\* ret = QUEUE_ARRAY_CLASS->init(INFINITE_), with the table of queues
MakeQueue(t) ==
    /\ At(t, "log", "make")
    /\ Goto(t, "log", "render")
    /\ made' = made \cup {"log"}
    /\ ret' = t
    /\ fault' \in Outcomes("queue" \notin made)
    /\ UNCHANGED <<early, done, told, got, flag, replaced, overlapped, queueVars, renderVars>>

\* MUTANT of StartRender: a second queue gets no thread
StartRenderOnce(t) ==
    /\ At(t, "log", "render")
    /\ Goto(t, "log", "return")
    /\ serves' = IF \A u \in Loggers : serves[u] = Nil THEN [serves EXCEPT ![t] = ret] ELSE serves
    /\ replaced' = IF ret = t THEN replaced ELSE replaced \cup {t}
    /\ UNCHANGED <<early, done, told, got, flag, made, ret, overlapped, queueVars, at, holds, drawn,
                   file, erased, fault>>

\* std::thread render {render_log,ret}
StartRender(t) ==
    /\ At(t, "log", "render")
    /\ Goto(t, "log", "return")
    /\ serves' = [serves EXCEPT ![t] = ret]
    /\ replaced' = IF ret = t THEN replaced ELSE replaced \cup {t}
    /\ UNCHANGED <<early, done, told, got, flag, made, ret, overlapped, queueVars, at, holds, drawn,
                   file, erased, fault>>

\* return ret
ReturnQueue(t) ==
    /\ At(t, "log", "return")
    /\ Goto(t, "push", "test")
    /\ got' = [got EXCEPT ![t] = ret]
    /\ UNCHANGED <<early, done, told, flag, made, ret, replaced, overlapped, queueVars, renderVars, fault>>

Message(t, n) == [by |-> t, nr |-> n, timed |-> told[t]]

\* MUTANT of Push: a message is put in front of the waiting ones
PushInFront(t) ==
    /\ At(t, "push", "test")
    /\ IF got[t] = Nil
       THEN fault' = TRUE /\ UNCHANGED <<pc, lists>>
       ELSE /\ size[got[t]] >= 0
            /\ Goto(t, "count", "load")
            /\ lists' = [lists EXCEPT ![got[t]] = <<Message(t, done[t] + 1)>> \o @]
            /\ UNCHANGED fault
    /\ UNCHANGED <<early, done, onceVars, size, loaded, lost, renderVars>>

\* the message is linked to the queue the thread got, when there is room
Push(t) ==
    /\ At(t, "push", "test")
    /\ IF got[t] = Nil
       THEN fault' = TRUE /\ UNCHANGED <<pc, lists>>
       ELSE /\ size[got[t]] >= 0
            /\ Goto(t, "count", "load")
            /\ lists' = [lists EXCEPT ![got[t]] = Append(@, Message(t, done[t] + 1))]
            /\ UNCHANGED fault
    /\ UNCHANGED <<early, done, onceVars, size, loaded, lost, renderVars>>

\* size++ loads the count ...
CountLoad(t) ==
    /\ At(t, "count", "load")
    /\ Goto(t, "count", "store")
    /\ loaded' = [loaded EXCEPT ![t] = size[got[t]]]
    /\ UNCHANGED <<early, done, onceVars, lists, size, lost, renderVars, fault>>

\* ... and stores it; log returns
CountStore(t) ==
    /\ At(t, "count", "store")
    /\ Goto(t, "idle", "test")
    /\ size' = [size EXCEPT ![got[t]] = loaded[t] + 1]
    /\ lost' = IF size[got[t]] = loaded[t] THEN lost ELSE lost \cup {got[t]}
    /\ loaded' = [loaded EXCEPT ![t] = 0]
    /\ done' = [done EXCEPT ![t] = @ + 1]
    /\ UNCHANGED <<early, onceVars, lists, renderVars, fault>>

-----------------------------------------------------------------------------
RGoto(r, from, to) == serves[r] # Nil /\ at[r] = from /\ at' = [at EXCEPT ![r] = to]

\* log.txt is truncated
OpenFile(r) ==
    /\ RGoto(r, "open", "wait")
    /\ file' = <<>>
    /\ erased' = erased \cup {file[n] : n \in DOMAIN file}
    /\ UNCHANGED <<early, pc, done, onceVars, queueVars, serves, holds, drawn, fault>>

\* peek, and the wait of pop, with both tables
AwaitMessage(r) ==
    /\ RGoto(r, "wait", "unlink")
    /\ size[serves[r]] # 0 /\ lists[serves[r]] # <<>>
    /\ fault' \in Outcomes(~(Tables \subseteq made))
    /\ UNCHANGED <<early, pc, done, onceVars, queueVars, serves, holds, drawn, file, erased>>

\* pop takes the first message under the lock: another rendering thread of the
\* same queue may have been faster
Unlink(r) ==
    /\ RGoto(r, "unlink", "load")
    /\ IF lists[serves[r]] = <<>>
       THEN fault' = TRUE /\ UNCHANGED <<holds, lists>>
       ELSE /\ holds' = [holds EXCEPT ![r] = <<Head(lists[serves[r]])>>]
            /\ lists' = [lists EXCEPT ![serves[r]] = Tail(@)]
            /\ UNCHANGED fault
    /\ UNCHANGED <<early, pc, done, onceVars, size, loaded, lost, serves, drawn, file, erased>>

\* size-- loads the count ...
TakenLoad(r) ==
    /\ RGoto(r, "load", "store")
    /\ drawn' = [drawn EXCEPT ![r] = size[serves[r]]]
    /\ UNCHANGED <<early, pc, done, onceVars, queueVars, serves, holds, file, erased, fault>>

\* ... and stores it; the message is written
TakenStore(r) ==
    /\ RGoto(r, "store", "wait")
    /\ size' = [size EXCEPT ![serves[r]] = drawn[r] - 1]
    /\ lost' = IF size[serves[r]] = drawn[r] THEN lost ELSE lost \cup {serves[r]}
    /\ file' = file \o holds[r]
    /\ holds' = [holds EXCEPT ![r] = <<>>]
    /\ drawn' = [drawn EXCEPT ![r] = 0]
    /\ UNCHANGED <<early, pc, done, onceVars, lists, loaded, serves, erased, fault>>

-----------------------------------------------------------------------------
Init ==
    /\ early \in BOOLEAN
    /\ pc = [t \in Loggers |-> <<"idle", "test">>]
    /\ done = [t \in Loggers |-> 0]
    /\ told = [t \in Loggers |-> FALSE]
    /\ got = [t \in Loggers |-> Nil]
    /\ flag = {} /\ made = {} /\ ret = Nil
    /\ lists = [t \in Loggers |-> <<>>]
    /\ size = [t \in Loggers |-> 0] /\ loaded = size
    /\ serves = [t \in Loggers |-> Nil] /\ at = [t \in Loggers |-> "open"]
    /\ holds = [t \in Loggers |-> <<>>] /\ drawn = size
    /\ file = <<>> /\ replaced = {} /\ lost = {} /\ erased = {}
    /\ overlapped = FALSE /\ fault = FALSE

Logger(t) == \/ Begin(t)
             \/ \E o \in Once : TestFlag(t, o) \/ SetFlag(t, o) \/ Make(t, o)
             \/ MakeQueue(t) \/ StartRender(t) \/ ReturnQueue(t)
             \/ Push(t) \/ CountLoad(t) \/ CountStore(t)

Render(r) == \/ OpenFile(r) \/ AwaitMessage(r) \/ Unlink(r)
             \/ TakenLoad(r) \/ TakenStore(r)

Next == ~fault /\ \E t \in Loggers : Logger(t) \/ Render(t)

Spec == Init /\ [][Next]_logVars

\* Every thread keeps being scheduled.
FairSpec == /\ Spec
            /\ \A t \in Loggers : /\ WF_logVars(~fault /\ Logger(t))
                                  /\ WF_logVars(~fault /\ Render(t))

-----------------------------------------------------------------------------
(* Properties.                                                             *)

\* the messages t has put in a queue
Sent(t) == IF pc[t][1] = "count" THEN done[t] + 1 ELSE done[t]

\* what was written and what waits to be, oldest first
Logged == file \o (IF ret = Nil THEN <<>> ELSE holds[ret] \o lists[ret])

\* As long as one thread logs before the others start nobody finds anything
\* half made, neither the others nor the rendering thread that starts in the
\* middle of the first message: there is one log queue with one thread, nothing
\* ends the process and every time is since the start (macro.h:39-41,
\* log.cpp:134, queue.cpp:120-129, :192, object.cpp:319).  Otherwise that takes
\* two threads that overlap in a first use.
FirstUseSafe ==
    /\ overlapped => early
    /\ ~overlapped =>
           /\ ~fault
           /\ \A t \in Loggers : /\ lists[t] # <<>> => t = ret
                                 /\ serves[t] # Nil => t = ret /\ serves[t] = t
           /\ \A n \in DOMAIN file : file[n].timed
           /\ \A q \in Loggers : \A n \in DOMAIN lists[q] : lists[q][n].timed

\* Unless first uses overlap, the messages of a thread are in log.txt in the
\* order it logged them, each once, and whatever updates of the count are lost
\* none is left out but those that still wait (log.cpp:70, :75-127, :184,
\* queue.cpp:92, :149).
LogInOrder ==
    ~overlapped =>
        /\ \A i, j \in DOMAIN Logged :
               i < j /\ Logged[i].by = Logged[j].by => Logged[i].nr < Logged[j].nr
        /\ \A t \in Loggers :
               {Logged[i].nr : i \in {k \in DOMAIN Logged : Logged[k].by = t}} = 1 .. Sent(t)

\* message n of t is written, or lost in a way AllRendered allows
Written(t, n) ==
    LET Is(m) == m.by = t /\ m.nr = n
    IN  \/ fault
        \/ \E k \in DOMAIN file : Is(file[k])
        \/ \E m \in erased : Is(m)
        \/ \E q \in replaced \cup lost : \E k \in DOMAIN lists[q] : Is(lists[q][k])

\* Again and again there is a moment when every message that was pushed is
\* written, also when overlapping first uses have made more than one queue,
\* unless the process ends; a queue is replaced by another before a thread is
\* started for it, which then gets the other, so that what a third one has
\* pushed to the first is lost (log.cpp:132-140); the thread of a second queue
\* truncates what is written (:70); or the count of the queue has lost an update
\* and says that nothing waits (:75, queue.cpp:92, :149).
AllRendered == []<>(\A t \in Loggers : \A n \in 1 .. done[t] : Written(t, n))
=============================================================================
