----------------------------- MODULE QueueArray -----------------------------
(***************************************************************************)
(* The queue between two threads of the pipeline                           *)
(* (src/util/queue/screencoder_queue.cpp) together with the reference      *)
(* counts of the buffers that travel through it                            *)
(* (src/util/object/screencoder_object.cpp), at the granularity of the     *)
(* memory accesses: the list is under the mutex, the size counter and the  *)
(* reference counts are not, and `x++` is a load and a store.              *)
(*                                                                         *)
(* A producer allocates a buffer, pushes it and drops its own reference    *)
(* (encoder_thread.cpp:260, raise_event), unless it is one of the pushers  *)
(* of cycle reports, which keep theirs for ever (rtpsink_handle,           *)
(* GoUnrefAVPacket); a consumer pops, uses what it got and drops it        *)
(* (generic_sink.cpp:32).                                                  *)
(***************************************************************************)
EXTENDS Integers, Sequences, FiniteSets

CONSTANTS Producers,    \* the threads that push
          Keepers,      \* the producers that never drop their own reference
          Consumers,    \* the threads that pop
          MaxSize,      \* queue->max_size
          Quota,        \* BOUND: buffers a producer pushes
          Nil           \* NULL

Threads == Producers \cup Consumers

\* A buffer, and the list container that carries it, named by its creator.
Buffers == Producers \X (1 .. Quota)

ASSUME QueueAssumption ==
    /\ Producers \cap Consumers = {}
    /\ Keepers \subseteq Producers
    /\ MaxSize \in Nat \ {0}
    /\ Quota \in Nat \ {0}
    /\ Nil \notin Threads
    /\ Nil \notin Buffers

\* the process has finitely many threads
ASSUME FiniteThreads == IsFiniteSet(Producers) /\ IsFiniteSet(Consumers)

VARIABLES
    list,       \* the containers reachable from queue->first
    size,       \* queue->size: a uint64, n < 0 standing for 2^64 + n
    mutex,      \* who holds queue->mutex
    pc,         \* the statement a thread executes next
    cur,        \* the buffer a thread works on (obj, ret)
    reg,        \* the register of a thread's x++ or x--
    last,       \* the container a producer's traversal stopped at
    made,       \* buffers a producer has allocated so far
    refs,       \* obj->ref_count
    freed,      \* times a buffer was given to free()
    taken,      \* HISTORY: what was detached from the list, oldest first
    sizeRaced,  \* HISTORY: two updates of queue->size overlapped
    refRaced    \* HISTORY: the buffers two updates of whose count overlapped

vars == <<list, size, mutex, pc, cur, reg, last, made, refs, freed,
          taken, sizeRaced, refRaced>>

queueVars == <<list, size, mutex, taken>>
countVars == <<refs, freed, refRaced>>

-----------------------------------------------------------------------------
Items(s) == {s[i] : i \in DOMAIN s}

Goto(t, from, to) == pc[t] = from /\ pc' = [pc EXCEPT ![t] = to]

\* MUTANT of Full: a queue with one free place counts as full
FullOneEarly == size < 0 \/ size >= MaxSize - 1

\* `queue->size >= queue->max_size` on unsigned operands
Full == size < 0 \/ size >= MaxSize

\* the other threads that are between the first and the last access of an
\* update of the count of b, or of the size counter
Updating(b, t) ==
    \E u \in Threads \ {t} : /\ cur[u] = b
                             /\ pc[u] \in {"ref2", "unref2", "check", "drop2", "dropcheck"}
Resizing(t) == \E u \in Threads \ {t} : pc[u] \in {"inc2", "dec2"}

-----------------------------------------------------------------------------
(* object_ref, object_unref: what both kinds of thread do to a buffer.     *)

\* obj->ref_count is loaded ...
CountLoad(t, from, to) ==
    /\ Goto(t, from, to)
    /\ reg' = [reg EXCEPT ![t] = refs[cur[t]]]
    /\ refRaced' = IF Updating(cur[t], t) THEN refRaced \cup {cur[t]} ELSE refRaced
    /\ UNCHANGED <<queueVars, cur, last, made, refs, freed, sizeRaced>>

\* ... and stored back, one up or one down
CountStore(t, from, to, d) ==
    /\ Goto(t, from, to)
    /\ refs' = [refs EXCEPT ![cur[t]] = reg[t] + d]
    /\ reg' = [reg EXCEPT ![t] = 0]
    /\ UNCHANGED <<queueVars, cur, last, made, freed, sizeRaced, refRaced>>

\* `if (!obj->ref_count)` is one more load
FreeIfZero(t, from, to) ==
    /\ Goto(t, from, to)
    /\ freed' = IF refs[cur[t]] = 0 THEN [freed EXCEPT ![cur[t]] = @ + 1] ELSE freed
    /\ cur' = IF to \in {"init", "empty"} THEN [cur EXCEPT ![t] = Nil] ELSE cur
    /\ UNCHANGED <<queueVars, reg, last, made, refs, sizeRaced, refRaced>>

\* pthread_mutex_lock
Lock(t, to) ==
    /\ Goto(t, "lock", to)
    /\ mutex = Nil
    /\ mutex' = t
    /\ UNCHANGED <<list, size, taken, cur, reg, last, made, countVars, sizeRaced>>

-----------------------------------------------------------------------------
(* The producer: BUFFER_MALLOC, queue_array_push, BUFFER_UNREF.            *)

\* BUFFER_INIT: a new buffer has one reference, its creator's
Allocate(p) ==
    /\ Goto(p, "init", "full")
    /\ made[p] < Quota
    /\ made' = [made EXCEPT ![p] = made[p] + 1]
    /\ cur' = [cur EXCEPT ![p] = <<p, made[p] + 1>>]
    /\ refs' = [refs EXCEPT ![<<p, made[p] + 1>>] = 1]
    /\ UNCHANGED <<queueVars, reg, last, freed, sizeRaced, refRaced>>

\* MUTANT of SeeRoom: a queue with MaxSize elements counts as having room
SeeRoomOneMore(p) ==
    /\ Goto(p, "full", "ref")
    /\ size >= 0 /\ size <= MaxSize
    /\ UNCHANGED <<queueVars, cur, reg, last, made, countVars, sizeRaced>>

\* the polling loop ends: the counter is read once, without the lock
SeeRoom(p) ==
    /\ Goto(p, "full", "ref")
    /\ ~Full
    /\ UNCHANGED <<queueVars, cur, reg, last, made, countVars, sizeRaced>>

PushRefLoad(p) == CountLoad(p, "ref", "ref2")
\* MUTANT of PushRefStore: push takes no reference for the list
PushRefStoreNoRef(p) == CountStore(p, "ref2", "lock", 0)
PushRefStore(p) == CountStore(p, "ref2", "lock", 1)
\* MUTANT of PushLock: push does not wait for the mutex
PushLockNoWait(p) ==
    /\ Goto(p, "lock", "tail")
    /\ UNCHANGED <<queueVars, cur, reg, last, made, countVars, sizeRaced>>
PushLock(p) == Lock(p, "tail")

\* the traversal from queue->first to the last container
FindTail(p) ==
    /\ Goto(p, "tail", "link")
    /\ last' = [last EXCEPT ![p] = IF list = <<>> THEN Nil ELSE list[Len(list)]]
    /\ UNCHANGED <<queueVars, cur, reg, made, countVars, sizeRaced>>

\* The list after `queue->first = b` (l is NULL) or `l->next = b`: what
\* followed l is lost, and b itself is when l is no longer in the list.
Linked(l, b) ==
    IF l = Nil
    THEN <<b>>
    ELSE LET at == {i \in DOMAIN list : list[i] = l}
         IN  IF at = {} THEN list
             ELSE Append(SubSeq(list, 1, CHOOSE i \in at : TRUE), b)

\* the container is linked in and the mutex released
Link(p) ==
    /\ Goto(p, "link", "inc")
    /\ list' = Linked(last[p], cur[p])
    /\ mutex' = Nil
    /\ last' = [last EXCEPT ![p] = Nil]
    /\ UNCHANGED <<size, taken, cur, reg, made, countVars, sizeRaced>>

\* queue->size++, after the unlock
IncLoad(p) ==
    /\ Goto(p, "inc", "inc2")
    /\ reg' = [reg EXCEPT ![p] = size]
    /\ sizeRaced' = (sizeRaced \/ Resizing(p))
    /\ UNCHANGED <<queueVars, cur, last, made, countVars>>

\* The end of push: the caller drops its own reference next, or forgets the
\* buffer as the pushers of reports do (rtp.cpp:101, app_sink.cpp:150).
PushReturns(p) ==
    /\ Goto(p, "inc2", IF p \in Keepers THEN "init" ELSE "drop")
    /\ cur' = IF p \in Keepers THEN [cur EXCEPT ![p] = Nil] ELSE cur
    /\ reg' = [reg EXCEPT ![p] = 0]

\* MUTANT of IncStore: the push is not counted
IncStoreSkipped(p) ==
    /\ PushReturns(p)
    /\ UNCHANGED <<queueVars, last, made, countVars, sizeRaced>>

IncStore(p) ==
    /\ PushReturns(p)
    /\ size' = reg[p] + 1
    /\ UNCHANGED <<list, mutex, taken, last, made, countVars, sizeRaced>>

\* the producer's BUFFER_UNREF after the push
ProducerDropLoad(p) == CountLoad(p, "drop", "drop2")
ProducerDropStore(p) == CountStore(p, "drop2", "dropcheck", -1)
ProducerDropCheck(p) == FreeIfZero(p, "dropcheck", "init")

-----------------------------------------------------------------------------
(* The consumer: queue_array_pop, the use of the data, BUFFER_UNREF.       *)

\* MUTANT of SeeElement: the loop trusts the counter alone
SeeElementByCount(c) ==
    /\ Goto(c, "empty", "lock")
    /\ size # 0
    /\ UNCHANGED <<queueVars, cur, reg, last, made, countVars, sizeRaced>>

\* the polling loop ends: `first` and `size` are read without the lock
SeeElement(c) ==
    /\ Goto(c, "empty", "lock")
    /\ list # <<>>
    /\ size # 0
    /\ UNCHANGED <<queueVars, cur, reg, last, made, countVars, sizeRaced>>

PopLock(c) == Lock(c, "head")

\* container = queue->first; ret = queue->first->obj: a NULL `first` is fatal
ReadHead(c) ==
    /\ Goto(c, "head", IF list = <<>> THEN "fault" ELSE "detach")
    /\ cur' = [cur EXCEPT ![c] = IF list = <<>> THEN Nil ELSE list[1]]
    /\ UNCHANGED <<queueVars, reg, last, made, countVars, sizeRaced>>

\* queue->first = queue->first->next, and the unlock
Detach(c) ==
    /\ Goto(c, "detach", IF list = <<>> THEN "fault" ELSE "ref")
    /\ IF list = <<>>
       THEN UNCHANGED <<list, mutex, taken>>
       ELSE /\ list' = Tail(list)
            /\ mutex' = Nil
            /\ taken' = Append(taken, cur[c])
    /\ UNCHANGED <<size, cur, reg, last, made, countVars, sizeRaced>>

PopRefLoad(c) == CountLoad(c, "ref", "ref2")
PopRefStore(c) == CountStore(c, "ref2", "unref", 1)
PopUnrefLoad(c) == CountLoad(c, "unref", "unref2")
\* MUTANT of PopUnrefStore: pop keeps the list's reference
PopUnrefStoreKept(c) == CountStore(c, "unref2", "check", 0)
PopUnrefStore(c) == CountStore(c, "unref2", "check", -1)
PopUnrefCheck(c) == FreeIfZero(c, "check", "dec")

\* queue->size--, after the unlock
DecLoad(c) ==
    /\ Goto(c, "dec", "dec2")
    /\ reg' = [reg EXCEPT ![c] = size]
    /\ sizeRaced' = (sizeRaced \/ Resizing(c))
    /\ UNCHANGED <<queueVars, cur, last, made, countVars>>

DecStore(c) ==
    /\ Goto(c, "dec2", "drop")
    /\ size' = reg[c] - 1
    /\ reg' = [reg EXCEPT ![c] = 0]
    /\ UNCHANGED <<list, mutex, taken, cur, last, made, countVars, sizeRaced>>

\* The data is in use from the return of pop to the end of BUFFER_UNREF.
ConsumerDropLoad(c) == CountLoad(c, "drop", "drop2")
ConsumerDropStore(c) == CountStore(c, "drop2", "dropcheck", -1)
ConsumerDropCheck(c) == FreeIfZero(c, "dropcheck", "empty")

-----------------------------------------------------------------------------
Init ==
    /\ list = <<>>
    /\ size = 0
    /\ mutex = Nil
    /\ pc = [t \in Threads |-> IF t \in Producers THEN "init" ELSE "empty"]
    /\ cur = [t \in Threads |-> Nil]
    /\ reg = [t \in Threads |-> 0]
    /\ last = [p \in Producers |-> Nil]
    /\ made = [p \in Producers |-> 0]
    /\ refs = [b \in Buffers |-> 0]
    /\ freed = [b \in Buffers |-> 0]
    /\ taken = <<>>
    /\ sizeRaced = FALSE
    /\ refRaced = {}

Producer(p) ==
    \/ Allocate(p) \/ SeeRoom(p)
    \/ PushRefLoad(p) \/ PushRefStore(p)
    \/ PushLock(p) \/ FindTail(p) \/ Link(p)
    \/ IncLoad(p) \/ IncStore(p)
    \/ ProducerDropLoad(p) \/ ProducerDropStore(p) \/ ProducerDropCheck(p)

Consumer(c) ==
    \/ SeeElement(c)
    \/ PopLock(c) \/ ReadHead(c) \/ Detach(c)
    \/ PopRefLoad(c) \/ PopRefStore(c)
    \/ PopUnrefLoad(c) \/ PopUnrefStore(c) \/ PopUnrefCheck(c)
    \/ DecLoad(c) \/ DecStore(c)
    \/ ConsumerDropLoad(c) \/ ConsumerDropStore(c) \/ ConsumerDropCheck(c)

Next == \/ \E p \in Producers : Producer(p)
        \/ \E c \in Consumers : Consumer(c)

Spec == Init /\ [][Next]_vars

\* Every thread keeps being scheduled.
FairSpec == /\ Spec
            /\ \A p \in Producers : WF_vars(Producer(p))
            /\ \A c \in Consumers : WF_vars(Consumer(c))

-----------------------------------------------------------------------------
(* Properties.                                                             *)

ProducerPCs == {"init", "full", "ref", "ref2", "lock", "tail", "link",
                "inc", "inc2", "drop", "drop2", "dropcheck"}
ConsumerPCs == {"empty", "lock", "head", "detach", "ref", "ref2", "unref",
                "unref2", "check", "dec", "dec2", "drop", "drop2",
                "dropcheck", "fault"}
\* between pthread_mutex_lock and pthread_mutex_unlock
Critical == {"tail", "link", "head", "detach"}
\* a consumer past the polling loop whose element is still in the list
Claiming == {"lock", "head", "detach"}
\* a consumer past the polling loop that has not stored the counter yet
Popping == Claiming \cup {"ref", "ref2", "unref", "unref2", "check", "dec", "dec2"}
\* a consumer that took a buffer out and has not counted it out
Detached == Popping \ Claiming

\* Every variable keeps its type, whatever the threads' interleaving.
TypeOK ==
    /\ list \in Seq(Buffers)
    /\ taken \in Seq(Buffers)
    /\ size \in Int
    /\ mutex \in Threads \cup {Nil}
    /\ pc \in [Threads -> ProducerPCs \cup ConsumerPCs]
    /\ \A p \in Producers : pc[p] \in ProducerPCs
    /\ \A c \in Consumers : pc[c] \in ConsumerPCs
    /\ cur \in [Threads -> Buffers \cup {Nil}]
    /\ reg \in [Threads -> Int]
    /\ last \in [Producers -> Buffers \cup {Nil}]
    /\ made \in [Producers -> 0 .. Quota]
    /\ refs \in [Buffers -> Int]
    /\ freed \in [Buffers -> Nat]
    /\ sizeRaced \in BOOLEAN
    /\ refRaced \in SUBSET Buffers

\* The list and the mutex implement a first-in first-out queue: every buffer
\* pushed comes out at most once and in the order of linking, however the
\* pushes and pops of all threads interleave (queue.cpp:79 and :124).
F == INSTANCE Fifo WITH Elements <- Buffers, queue <- list
FifoSpec == F!FSpec

\* With one consumer the unlocked polling loop of pop is sound: what it saw
\* is still there at the detach, although `first` and `size` were read before
\* the lock and the counter loses updates (queue.cpp:120): `first` is not NULL
\* when it is dereferenced, and the unsigned counter never goes below zero.
PopSafe ==
    (\A c, d \in Consumers : c = d) =>
        /\ size >= 0
        /\ \A c \in Consumers : /\ pc[c] # "fault"
                                /\ pc[c] \in Claiming => list # <<>>
                                /\ pc[c] \in Popping => size > 0

\* A buffer in the list is alive whatever its producer does meanwhile: push
\* took the list's reference before it linked the container (queue.cpp:64).
QueuedAlive == \A b \in Items(list) : freed[b] = 0 /\ refs[b] >= 1

\* Until two updates of the counter overlap it is exact: it counts the list,
\* less the pushes that linked and have not counted yet, plus the pops that
\* detached and have not.  The room is tested long before the container is
\* linked, so producers that passed the test together overfill the queue; but
\* by no more than one element for each of the others (queue.cpp:61, :92, :149).
SizeExact ==
    ~sizeRaced =>
        /\ size = Len(list) - Cardinality({p \in Producers : pc[p] \in {"inc", "inc2"}})
                            + Cardinality({c \in Consumers : pc[c] \in Detached})
        /\ Len(list) <= MaxSize + Cardinality(Producers) - 1

\* what a thread's position adds to the count of its buffer
Holds(t, b) ==
    cur[t] = b /\ pc[t] \notin {"init", "empty", "lock", "head", "detach", "fault"}

\* Until two updates of its count overlap, a buffer whose producer drops its
\* reference is freed exactly once, and only when the list, its producer and
\* its consumer are all done with it (object.cpp:156).  A report, whose
\* producer keeps its reference, is never freed: it is left with that one
\* (rtp.cpp:97, app_sink.cpp:146).
FreedOnce ==
    \A b \in Buffers \ refRaced :
        /\ freed[b] <= IF b[1] \in Keepers THEN 0 ELSE 1
        /\ freed[b] = 1 => /\ b \notin Items(list)
                           /\ \A t \in Threads :
                                Holds(t, b) => pc[t] = "dropcheck"
        /\ (b \in Items(taken) /\ \A t \in Threads : ~Holds(t, b)) =>
               IF b[1] \in Keepers THEN refs[b] = 1 ELSE freed[b] = 1

\* As long as no two updates of the counter overlap, every producer gets all
\* its buffers through and the consumers take and release every one: neither a
\* full nor an empty queue is waited on for ever (queue.cpp:61 and :120).
AllDelivered ==
    []~sizeRaced => <>(/\ \A p \in Producers : made[p] = Quota /\ pc[p] = "init"
                       /\ Items(taken) = Buffers
                       /\ \A c \in Consumers : pc[c] = "empty")

\* The queue's counter is the length of the list whenever no thread is in the
\* middle of a push or a pop, which is what the comment "lock this" over each
\* of them promises (queue.cpp:75 and :119).
SizeAgrees ==
    (\A t \in Threads : pc[t] \in {"init", "empty"}) => size = Len(list)
=============================================================================
