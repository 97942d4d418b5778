-------------------------- MODULE QueueArrayProofs --------------------------
(***************************************************************************)
(* What is proved of QueueArray, and of Event, which is one nobody pops,   *)
(* for all sets of threads, all quotas and every max_size.                 *)
(***************************************************************************)
EXTENDS Event, SequenceTheorems, FiniteSetTheorems, TLAPS

-----------------------------------------------------------------------------
(* The inductive invariant behind FifoSpec.                                *)

\* a producer whose buffer is not linked into the list yet
Pushing == {"full", "ref", "ref2", "lock", "tail", "link"}

\* a thread that works on a buffer has one, and a keeper never drops its own
CurInv ==
    /\ \A p \in Producers : pc[p] # "init" => cur[p] # Nil
    /\ \A p \in Keepers : pc[p] \notin {"drop", "drop2", "dropcheck"}
    /\ \A c \in Consumers :
           pc[c] \notin {"empty", "lock", "head", "fault"} => cur[c] # Nil

\* the mutex excludes: whoever is in a critical section holds it
MutexInv == \A t \in Threads : pc[t] \in Critical => mutex = t

\* what a critical section has read still holds
TailInv == \A p \in Producers :
    pc[p] = "link" => last[p] = IF list = <<>> THEN Nil ELSE list[Len(list)]
HeadInv == \A c \in Consumers :
    pc[c] = "detach" => list # <<>> /\ cur[c] = list[1]

\* a buffer being pushed is the latest of its producer and in nobody's hands
FreshInv ==
    /\ \A p \in Producers : pc[p] # "init" => cur[p] = <<p, made[p]>>
    /\ \A b \in Items(list) \cup Items(taken) : b[2] <= made[b[1]]
    /\ \A p \in Producers :
           pc[p] \in Pushing => cur[p] \notin Items(list) \cup Items(taken)

\* no buffer is in the list twice
NoDup == \A i, j \in DOMAIN list : list[i] = list[j] => i = j

QueueInv == TypeOK /\ CurInv /\ MutexInv /\ TailInv /\ HeadInv /\ FreshInv /\ NoDup

-----------------------------------------------------------------------------
(* The inductive invariant behind PopSafe, for a single consumer.          *)

SoleInv ==
    /\ size >= 0
    /\ \A p \in Producers : pc[p] = "inc2" => reg[p] >= 0
    /\ \A c \in Consumers :
           /\ pc[c] # "fault"
           /\ pc[c] \in Claiming => list # <<>>
           /\ pc[c] \in Popping => size > 0
           /\ pc[c] = "dec2" => reg[c] > 0

-----------------------------------------------------------------------------
(* The inductive invariant behind QueuedAlive.                             *)

\* what was taken is not in the list any more
Disjoint == Items(list) \cap Items(taken) = {}

\* a consumer only counts a buffer it has taken
TakenInv == \A c \in Consumers : pc[c] \in Detached \cup {"drop", "drop2", "dropcheck"}
                                     => cur[c] \in Items(taken)

\* While a buffer is in its producer's hands or in the list, only its producer
\* touches its count, which is known at each statement.
AliveInv ==
    /\ \A p \in Producers :
           /\ pc[p] \in {"full", "ref"} => refs[cur[p]] = 1 /\ freed[cur[p]] = 0
           /\ pc[p] = "ref2" => refs[cur[p]] = 1 /\ freed[cur[p]] = 0 /\ reg[p] = 1
           /\ pc[p] \in {"lock", "tail", "link"} => refs[cur[p]] = 2 /\ freed[cur[p]] = 0
    /\ \A b \in Items(list) :
           /\ freed[b] = 0
           /\ refs[b] >= 1
           /\ \A p \in Producers :
                  pc[p] # "init" /\ cur[p] = b =>
                      /\ pc[p] \in {"inc", "inc2", "drop"} => refs[b] = 2
                      /\ pc[p] = "drop2" => reg[p] = 2
    /\ \A p \in Producers : \A i \in 1 .. Quota : made[p] < i =>
           freed[<<p, i>>] = 0

CountInv == QueueInv /\ Disjoint /\ TakenInv /\ AliveInv

-----------------------------------------------------------------------------
(* Sequences.                                                              *)

\* the elements of the lists push and pop leave behind
LEMMA ItemsAppend ==
    ASSUME NEW S, NEW s \in Seq(S), NEW e \in S
    PROVE  Items(Append(s, e)) = Items(s) \cup {e}
<1> DEFINE a == Append(s, e)
<1>1. /\ DOMAIN s = 1 .. Len(s) /\ DOMAIN a = 1 .. Len(s) + 1
      /\ Len(s) \in Nat
      /\ \A i \in 1 .. Len(s) : a[i] = s[i]
      /\ a[Len(s) + 1] = e
  OBVIOUS
<1>2. Items(s) \cup {e} \subseteq Items(a)
  BY <1>1 DEF Items
<1>3. ASSUME NEW i \in DOMAIN a
      PROVE  a[i] \in Items(s) \cup {e}
  BY <1>1 DEF Items
<1> QED
  BY <1>2, <1>3 DEF Items

\* the elements of the list pop leaves behind
LEMMA ItemsTail ==
    ASSUME NEW S, NEW s \in Seq(S), s # <<>>
    PROVE  /\ Items(Tail(s)) \subseteq Items(s)
           /\ Items(s) = Items(Tail(s)) \cup {s[1]}
<1>1. /\ DOMAIN Tail(s) = 1 .. Len(s) - 1
      /\ \A i \in 1 .. Len(s) - 1 : Tail(s)[i] = s[i + 1]
      /\ DOMAIN s = 1 .. Len(s)
      /\ Len(s) \in Nat \ {0}
  OBVIOUS
<1>2. Items(Tail(s)) \subseteq Items(s)
  BY <1>1 DEF Items
<1>3. Items(s) \subseteq Items(Tail(s)) \cup {s[1]}
  <2> SUFFICES ASSUME NEW i \in DOMAIN s
               PROVE  s[i] \in Items(Tail(s)) \cup {s[1]}
    BY DEF Items
  <2>1. CASE i = 1
    BY <2>1
  <2>2. CASE i # 1
    <3>1. i - 1 \in DOMAIN Tail(s) /\ Tail(s)[i - 1] = s[i]
      BY <1>1, <2>2
    <3> QED
      BY <3>1 DEF Items
  <2> QED
    BY <2>1, <2>2
<1> QED
  BY <1>1, <1>2, <1>3 DEF Items

-----------------------------------------------------------------------------
(* Type correctness.                                                       *)

\* A statement of object_ref or object_unref keeps the types.
LEMMA LoadTypes ==
    ASSUME TypeOK, NEW t \in Threads, NEW from, NEW to, cur[t] # Nil,
           t \in Producers => to \in ProducerPCs,
           t \in Consumers => to \in ConsumerPCs,
           CountLoad(t, from, to)
    PROVE  TypeOK'
  BY QueueAssumption DEF TypeOK, CountLoad, Goto, queueVars, Threads

\* Storing a count back keeps the types.
LEMMA StoreTypes ==
    ASSUME TypeOK, NEW t \in Threads, NEW from, NEW to, NEW d \in Int, cur[t] # Nil,
           t \in Producers => to \in ProducerPCs,
           t \in Consumers => to \in ConsumerPCs,
           CountStore(t, from, to, d)
    PROVE  TypeOK'
  BY QueueAssumption DEF TypeOK, CountStore, Goto, queueVars, Threads

\* The test that may free a buffer keeps the types.
LEMMA FreeTypes ==
    ASSUME TypeOK, NEW t \in Threads, NEW from, NEW to, cur[t] # Nil,
           t \in Producers => to \in ProducerPCs,
           t \in Consumers => to \in ConsumerPCs,
           FreeIfZero(t, from, to)
    PROVE  TypeOK'
  BY QueueAssumption DEF TypeOK, FreeIfZero, Goto, queueVars, Threads

\* A step of push keeps the types, and a buffer in the producer's hands.
LEMMA ProducerTypes ==
    ASSUME TypeOK, CurInv, NEW p \in Producers, Producer(p)
    PROVE  TypeOK'
<1> USE QueueAssumption
<1>0. p \in Threads /\ p \notin Consumers
  BY DEF Threads
<1>a. pc[p] # "init" => cur[p] \in Buffers
  BY <1>0 DEF CurInv, TypeOK
<1>1. CASE Allocate(p)
  <2>1. <<p, made[p] + 1>> \in Buffers /\ made[p] + 1 \in 0 .. Quota
    BY <1>1 DEF Allocate, TypeOK, Buffers
  <2> QED
    BY <1>0, <1>1, <2>1 DEF Allocate, TypeOK, Goto, queueVars, Threads, ProducerPCs
<1>2. CASE SeeRoom(p)
  BY <1>0, <1>2 DEF SeeRoom, TypeOK, Goto, queueVars, countVars, Threads, ProducerPCs
<1>3. CASE PushRefLoad(p)
  <2>1. CountLoad(p, "ref", "ref2")
    BY <1>3 DEF PushRefLoad
  <2>2. cur[p] # Nil
    BY <2>1, <1>a DEF CountLoad, Goto
  <2> QED
    BY <1>0, <2>1, <2>2, LoadTypes DEF ProducerPCs
<1>4. CASE PushRefStore(p)
  <2>1. CountStore(p, "ref2", "lock", 1)
    BY <1>4 DEF PushRefStore
  <2>2. cur[p] # Nil
    BY <2>1, <1>a DEF CountStore, Goto
  <2> QED
    BY <1>0, <2>1, <2>2, StoreTypes DEF ProducerPCs
<1>5. CASE PushLock(p)
  BY <1>0, <1>5 DEF PushLock, TypeOK, Lock, Goto, countVars, Threads, ProducerPCs
<1>6. CASE FindTail(p)
  <2>1. list # <<>> => list[Len(list)] \in Buffers
    BY DEF TypeOK
  <2> QED
    BY <1>0, <1>6, <2>1 DEF FindTail, TypeOK, Goto, queueVars, countVars, Threads, ProducerPCs
<1>7. CASE Link(p)
  <2>1. cur[p] \in Buffers
    BY <1>7, <1>a DEF Link, TypeOK, Goto
  <2>2. Linked(last[p], cur[p]) \in Seq(Buffers)
    <3> DEFINE at == {i \in DOMAIN list : list[i] = last[p]}
    <3>1. CASE last[p] = Nil
      BY <2>1, <3>1 DEF Linked
    <3>2. CASE last[p] # Nil /\ at = {}
      BY <3>2 DEF Linked, TypeOK
    <3>3. CASE last[p] # Nil /\ at # {}
      <4>1. PICK i \in DOMAIN list : i = CHOOSE j \in at : TRUE
        BY <3>3
      <4>2. SubSeq(list, 1, i) \in Seq(Buffers)
        BY DEF TypeOK
      <4> QED
        BY <2>1, <3>3, <4>1, <4>2 DEF Linked
    <3> QED
      BY <3>1, <3>2, <3>3
  <2> QED
    BY <1>0, <1>7, <2>2 DEF Link, TypeOK, Goto, countVars, Threads, ProducerPCs
<1>8. CASE IncLoad(p)
  BY <1>0, <1>8 DEF IncLoad, TypeOK, Goto, queueVars, countVars, Threads, ProducerPCs, Resizing
<1>9. CASE IncStore(p)
  BY <1>0, <1>9 DEF IncStore, PushReturns, TypeOK, Goto, countVars, Threads, ProducerPCs
<1>10. CASE ProducerDropLoad(p)
  <2>1. CountLoad(p, "drop", "drop2")
    BY <1>10 DEF ProducerDropLoad
  <2>2. cur[p] # Nil
    BY <2>1, <1>a DEF CountLoad, Goto
  <2> QED
    BY <1>0, <2>1, <2>2, LoadTypes DEF ProducerPCs
<1>11. CASE ProducerDropStore(p)
  <2>1. CountStore(p, "drop2", "dropcheck", -1)
    BY <1>11 DEF ProducerDropStore
  <2>2. cur[p] # Nil
    BY <2>1, <1>a DEF CountStore, Goto
  <2> QED
    BY <1>0, <2>1, <2>2, StoreTypes DEF ProducerPCs
<1>12. CASE ProducerDropCheck(p)
  <2>1. FreeIfZero(p, "dropcheck", "init")
    BY <1>12 DEF ProducerDropCheck
  <2>2. cur[p] # Nil
    BY <2>1, <1>a DEF FreeIfZero, Goto
  <2> QED
    BY <1>0, <2>1, <2>2, FreeTypes DEF ProducerPCs
<1> QED
  BY <1>1, <1>2, <1>3, <1>4, <1>5, <1>6, <1>7, <1>8, <1>9, <1>10, <1>11, <1>12 DEF Producer

\* A step of pop keeps the types.
LEMMA ConsumerTypes ==
    ASSUME TypeOK, CurInv, NEW c \in Consumers, Consumer(c)
    PROVE  TypeOK'
<1> USE QueueAssumption
<1>0. c \in Threads /\ c \notin Producers
  BY DEF Threads
<1>a. pc[c] \notin {"empty", "lock", "head", "fault"} => cur[c] \in Buffers
  BY <1>0 DEF CurInv, TypeOK
<1>1. CASE SeeElement(c)
  BY <1>0, <1>1 DEF SeeElement, TypeOK, Goto, queueVars, countVars, Threads, ConsumerPCs
<1>2. CASE PopLock(c)
  BY <1>0, <1>2 DEF PopLock, TypeOK, Lock, Goto, countVars, Threads, ConsumerPCs
<1>3. CASE ReadHead(c)
  <2>1. list # <<>> => list[1] \in Buffers
    BY DEF TypeOK
  <2> QED
    BY <1>0, <1>3, <2>1 DEF ReadHead, TypeOK, Goto, queueVars, countVars, Threads, ConsumerPCs
<1>4. CASE Detach(c)
  <2>1. cur[c] \in Buffers
    BY <1>4, <1>a DEF Detach, TypeOK, Goto
  <2>2. list # <<>> => Tail(list) \in Seq(Buffers)
    BY DEF TypeOK
  <2>3. Append(taken, cur[c]) \in Seq(Buffers)
    BY <2>1 DEF TypeOK
  <2> QED
    BY <1>0, <1>4, <2>2, <2>3 DEF Detach, TypeOK, Goto, countVars, Threads, ConsumerPCs
<1>5. CASE \/ PopRefLoad(c) \/ PopUnrefLoad(c) \/ ConsumerDropLoad(c)
  <2>1. \E from, to : /\ CountLoad(c, from, to) /\ cur[c] # Nil
                      /\ to \in ConsumerPCs
    BY <1>5, <1>a DEF PopRefLoad, PopUnrefLoad, ConsumerDropLoad, CountLoad, Goto, ConsumerPCs
  <2> QED
    BY <1>0, <2>1, LoadTypes
<1>6. CASE \/ PopRefStore(c) \/ PopUnrefStore(c) \/ ConsumerDropStore(c)
  <2>1. CASE PopRefStore(c)
    <3>1. CountStore(c, "ref2", "unref", 1)
      BY <2>1 DEF PopRefStore
    <3>2. cur[c] # Nil
      BY <3>1, <1>a DEF CountStore, Goto
    <3> QED
      BY <1>0, <3>1, <3>2, StoreTypes DEF ConsumerPCs
  <2>2. CASE PopUnrefStore(c)
    <3>1. CountStore(c, "unref2", "check", -1)
      BY <2>2 DEF PopUnrefStore
    <3>2. cur[c] # Nil
      BY <3>1, <1>a DEF CountStore, Goto
    <3> QED
      BY <1>0, <3>1, <3>2, StoreTypes DEF ConsumerPCs
  <2>3. CASE ConsumerDropStore(c)
    <3>1. CountStore(c, "drop2", "dropcheck", -1)
      BY <2>3 DEF ConsumerDropStore
    <3>2. cur[c] # Nil
      BY <3>1, <1>a DEF CountStore, Goto
    <3> QED
      BY <1>0, <3>1, <3>2, StoreTypes DEF ConsumerPCs
  <2> QED
    BY <1>6, <2>1, <2>2, <2>3
<1>7. CASE PopUnrefCheck(c) \/ ConsumerDropCheck(c)
  <2>1. \E from, to : /\ FreeIfZero(c, from, to) /\ cur[c] # Nil
                      /\ to \in ConsumerPCs
    BY <1>7, <1>a DEF PopUnrefCheck, ConsumerDropCheck, FreeIfZero, Goto, ConsumerPCs
  <2> QED
    BY <1>0, <2>1, FreeTypes
<1>8. CASE DecLoad(c)
  BY <1>0, <1>8 DEF DecLoad, TypeOK, Goto, queueVars, countVars, Threads, ConsumerPCs, Resizing
<1>9. CASE DecStore(c)
  BY <1>0, <1>9 DEF DecStore, TypeOK, Goto, countVars, Threads, ConsumerPCs
<1> QED
  BY <1>1, <1>2, <1>3, <1>4, <1>5, <1>6, <1>7, <1>8, <1>9 DEF Consumer

\* A thread that works on a buffer keeps one.
LEMMA CurStep == TypeOK /\ CurInv /\ Next => CurInv'
<1> SUFFICES ASSUME TypeOK, CurInv, Next PROVE CurInv'
  OBVIOUS
<1> USE QueueAssumption DEF TypeOK, CurInv, Threads
<1>1. ASSUME NEW p \in Producers, Producer(p) PROVE CurInv'
  <2>1. CASE Allocate(p)
    BY <2>1 DEF Allocate, Goto, Buffers
  <2>2. CASE ProducerDropCheck(p)
    BY <2>2 DEF ProducerDropCheck, FreeIfZero, Goto
  <2>3. CASE \/ SeeRoom(p) \/ PushRefLoad(p) \/ PushRefStore(p) \/ PushLock(p) \/ FindTail(p)
             \/ Link(p) \/ IncLoad(p) \/ ProducerDropLoad(p) \/ ProducerDropStore(p)
    <3>1. /\ cur' = cur /\ pc[p] # "init"
          /\ \E to : /\ pc' = [pc EXCEPT ![p] = to]
                     /\ to \in {"drop", "drop2", "dropcheck"} =>
                            pc[p] \in {"drop", "drop2", "dropcheck"}
      BY <2>3 DEF SeeRoom, PushRefLoad, PushRefStore, PushLock, FindTail, Link, IncLoad,
            ProducerDropLoad, ProducerDropStore, CountLoad, CountStore, Lock, Goto
    <3> QED
      BY <3>1
  <2>4. CASE IncStore(p)
    BY <2>4 DEF IncStore, PushReturns, Goto
  <2> QED
    BY <1>1, <2>1, <2>2, <2>3, <2>4 DEF Producer
<1>2. ASSUME NEW c \in Consumers, Consumer(c) PROVE CurInv'
  <2>1. CASE ReadHead(c)
    <3>1. list # <<>> => list[1] \in Buffers
      OBVIOUS
    <3> QED
      BY <2>1, <3>1 DEF ReadHead, Goto
  <2>2. CASE PopUnrefCheck(c)
    BY <2>2 DEF PopUnrefCheck, FreeIfZero, Goto
  <2>3. CASE ConsumerDropCheck(c)
    BY <2>3 DEF ConsumerDropCheck, FreeIfZero, Goto
  <2>4. CASE \/ PopRefLoad(c) \/ PopRefStore(c) \/ PopUnrefLoad(c) \/ PopUnrefStore(c)
             \/ DecLoad(c) \/ DecStore(c) \/ ConsumerDropLoad(c) \/ ConsumerDropStore(c) \/ Detach(c)
    <3>1. /\ cur' = cur /\ pc[c] \notin {"empty", "lock", "head", "fault"}
          /\ \E to : pc' = [pc EXCEPT ![c] = to]
      BY <2>4 DEF PopRefLoad, PopRefStore, PopUnrefLoad, PopUnrefStore, DecLoad, DecStore,
            ConsumerDropLoad, ConsumerDropStore, Detach, CountLoad, CountStore, Goto
    <3> QED
      BY <3>1
  <2>5. CASE SeeElement(c) \/ PopLock(c)
    <3>1. /\ cur' = cur
          /\ \E to \in {"lock", "head"} : pc' = [pc EXCEPT ![c] = to]
      BY <2>5 DEF SeeElement, PopLock, Lock, Goto
    <3> QED
      BY <3>1
  <2> QED
    BY <1>2, <2>1, <2>2, <2>3, <2>4, <2>5 DEF Consumer
<1> QED
  BY <1>1, <1>2 DEF Next

\* The initial state is well typed, and every step keeps it so.
LEMMA InitTypes == Init => TypeOK /\ CurInv
<1> SUFFICES ASSUME Init PROVE TypeOK /\ CurInv
  OBVIOUS
<1> USE QueueAssumption DEF Init
<1>1. TypeOK
  <2>1. <<>> \in Seq(Buffers) /\ cur \in [Threads -> Buffers \cup {Nil}]
        /\ last \in [Producers -> Buffers \cup {Nil}] /\ reg \in [Threads -> Int]
    OBVIOUS
  <2>2. \A t \in Threads : pc[t] \in ProducerPCs \cup ConsumerPCs
    BY DEF ProducerPCs, ConsumerPCs
  <2>3. pc \in [Threads -> ProducerPCs \cup ConsumerPCs]
    BY <2>2
  <2>4. /\ \A p \in Producers : pc[p] \in ProducerPCs
        /\ \A c \in Consumers : pc[c] \in ConsumerPCs
    BY DEF Threads, ProducerPCs, ConsumerPCs
  <2>5. /\ made \in [Producers -> 0 .. Quota] /\ freed \in [Buffers -> Nat]
        /\ refs \in [Buffers -> Int]
    OBVIOUS
  <2>6. /\ list \in Seq(Buffers) /\ taken \in Seq(Buffers)
        /\ size \in Int /\ mutex \in Threads \cup {Nil}
    BY <2>1
  <2>7. sizeRaced \in BOOLEAN /\ refRaced \in SUBSET Buffers
    OBVIOUS
  <2> HIDE DEF Init
  <2> QED
    BY <2>1, <2>3, <2>4, <2>5, <2>6, <2>7 DEF TypeOK
<1>2. CurInv
  BY DEF CurInv, Threads
<1> QED
  BY <1>1, <1>2

\* Types, and a buffer in busy hands, are inductive together.
LEMMA StepTypes == TypeOK /\ CurInv /\ [Next]_vars => (TypeOK /\ CurInv)'
<1> SUFFICES ASSUME TypeOK, CurInv, [Next]_vars PROVE (TypeOK /\ CurInv)'
  OBVIOUS
<1>1. CASE Next
  BY <1>1, ProducerTypes, ConsumerTypes, CurStep DEF Next
<1>2. CASE UNCHANGED vars
  BY <1>2 DEF vars, TypeOK, CurInv
<1> QED
  BY <1>1, <1>2

\* The variables keep their types in every behaviour.
THEOREM TypeCorrect == Spec => []TypeOK
<1> QED
  BY InitTypes, StepTypes, PTL DEF Spec

-----------------------------------------------------------------------------
(* Frames.                                                                 *)

\* what a step of t leaves alone of the other threads
Only(t) == \A u \in Threads \ {t} :
               pc'[u] = pc[u] /\ cur'[u] = cur[u] /\ reg'[u] = reg[u]

\* A producer's step moves no other thread and touches none of its registers.
LEMMA ProducerOnly ==
    ASSUME TypeOK, NEW p \in Producers, Producer(p)
    PROVE  Only(p)
<1> USE DEF Only, TypeOK, Goto
<1>1. CASE \/ PushRefLoad(p) \/ PushRefStore(p)
           \/ ProducerDropLoad(p) \/ ProducerDropStore(p) \/ ProducerDropCheck(p)
  BY <1>1 DEF PushRefLoad, PushRefStore, ProducerDropLoad, ProducerDropStore, ProducerDropCheck,
        CountLoad, CountStore, FreeIfZero
<1>2. CASE Allocate(p) \/ SeeRoom(p) \/ PushLock(p) \/ FindTail(p)
  BY <1>2 DEF Allocate, SeeRoom, PushLock, Lock, FindTail
<1>3. CASE Link(p) \/ IncLoad(p) \/ IncStore(p)
  BY <1>3 DEF Link, IncLoad, IncStore, PushReturns
<1> QED
  BY <1>1, <1>2, <1>3 DEF Producer

\* A consumer's step moves no other thread and touches none of its registers.
LEMMA ConsumerOnly ==
    ASSUME TypeOK, NEW c \in Consumers, Consumer(c)
    PROVE  Only(c)
<1> USE DEF Only, TypeOK, Goto
<1>1. CASE \/ PopRefLoad(c) \/ PopRefStore(c)
           \/ PopUnrefLoad(c) \/ PopUnrefStore(c) \/ PopUnrefCheck(c)
  BY <1>1 DEF PopRefLoad, PopRefStore, PopUnrefLoad, PopUnrefStore, PopUnrefCheck,
        CountLoad, CountStore, FreeIfZero
<1>2. CASE ConsumerDropLoad(c) \/ ConsumerDropStore(c) \/ ConsumerDropCheck(c)
  BY <1>2 DEF ConsumerDropLoad, ConsumerDropStore, ConsumerDropCheck,
        CountLoad, CountStore, FreeIfZero
<1>3. CASE SeeElement(c) \/ PopLock(c) \/ ReadHead(c)
  BY <1>3 DEF SeeElement, PopLock, Lock, ReadHead
<1>4. CASE Detach(c) \/ DecLoad(c) \/ DecStore(c)
  BY <1>4 DEF Detach, DecLoad, DecStore
<1> QED
  BY <1>1, <1>2, <1>3, <1>4 DEF Consumer

-----------------------------------------------------------------------------
(* A single consumer: pop is safe without the lock around its wait.        *)

Sole == \A c, d \in Consumers : c = d

\* Linking a container never empties the list.
LEMMA LinkedNonempty ==
    ASSUME TypeOK, list # <<>>, NEW l, NEW b \in Buffers
    PROVE  Linked(l, b) # <<>>
<1> DEFINE at == {i \in DOMAIN list : list[i] = l}
<1>1. CASE l = Nil \/ at = {}
  BY <1>1 DEF Linked
<1>2. CASE l # Nil /\ at # {}
  <2>1. PICK i \in DOMAIN list : i = CHOOSE j \in at : TRUE
    BY <1>2
  <2>2. SubSeq(list, 1, i) \in Seq(Buffers)
    BY DEF TypeOK
  <2>3. Append(SubSeq(list, 1, i), b) # <<>>
    BY <2>2
  <2> QED
    BY <1>2, <2>1, <2>3 DEF Linked
<1> QED
  BY <1>1, <1>2

\* A producer only ever makes the list and the counter grow.
LEMMA ProducerSole ==
    ASSUME TypeOK, CurInv, SoleInv, NEW p \in Producers, Producer(p)
    PROVE  SoleInv'
<1> USE QueueAssumption DEF Threads
<1>0. /\ Only(p)
      /\ p \in Threads
      /\ \A c \in Consumers : c \in Threads \ {p}
  BY ProducerOnly
<1>1. SUFFICES /\ size' >= 0
               /\ size > 0 => size' > 0
               /\ list # <<>> => list' # <<>>
               /\ pc'[p] = "inc2" => reg'[p] >= 0
  BY <1>0, <1>1 DEF SoleInv, Only
<1>2. size \in Int /\ size >= 0
  BY DEF TypeOK, SoleInv
<1>3. CASE \/ Allocate(p) \/ SeeRoom(p) \/ PushLock(p) \/ FindTail(p)
  <2>1. UNCHANGED <<list, size>> /\ pc'[p] # "inc2"
    BY <1>0, <1>3 DEF Allocate, SeeRoom, PushLock, Lock, FindTail, queueVars, Goto, TypeOK
  <2> QED
    BY <1>2, <2>1
<1>4. CASE \/ PushRefLoad(p) \/ PushRefStore(p)
           \/ ProducerDropLoad(p) \/ ProducerDropStore(p) \/ ProducerDropCheck(p)
  <2>1. UNCHANGED <<list, size>> /\ pc'[p] # "inc2"
    BY <1>0, <1>4 DEF PushRefLoad, PushRefStore, ProducerDropLoad, ProducerDropStore,
          ProducerDropCheck, CountLoad, CountStore, FreeIfZero, queueVars, Goto, TypeOK
  <2> QED
    BY <1>2, <2>1
<1>5. CASE Link(p)
  <2>1. size' = size /\ pc'[p] # "inc2" /\ list' = Linked(last[p], cur[p])
    BY <1>0, <1>5 DEF Link, Goto, TypeOK
  <2>2. cur[p] \in Buffers
    BY <1>0, <1>5 DEF Link, Goto, TypeOK, CurInv
  <2> QED
    BY <1>2, <2>1, <2>2, LinkedNonempty
<1>6. CASE IncLoad(p)
  <2>1. UNCHANGED <<list, size>> /\ reg'[p] = size
    BY <1>0, <1>6 DEF IncLoad, queueVars, TypeOK
  <2> QED
    BY <1>2, <2>1
<1>7. CASE IncStore(p)
  <2>1. list' = list /\ size' = reg[p] + 1 /\ pc'[p] # "inc2"
    BY <1>0, <1>7 DEF IncStore, PushReturns, Goto, TypeOK
  <2>2. reg[p] \in Int /\ reg[p] >= 0
    BY <1>0, <1>7 DEF IncStore, PushReturns, Goto, TypeOK, SoleInv
  <2> QED
    BY <2>1, <2>2
<1> QED
  BY <1>3, <1>4, <1>5, <1>6, <1>7 DEF Producer

\* The only consumer finds at each statement what it saw at the wait.
LEMMA ConsumerSole ==
    ASSUME TypeOK, CurInv, Sole, SoleInv, NEW c \in Consumers, Consumer(c)
    PROVE  SoleInv'
<1> USE QueueAssumption DEF Threads
<1>0. /\ Only(c)
      /\ c \in Threads
      /\ \A p \in Producers : p \in Threads \ {c}
      /\ \A d \in Consumers : d = c
  BY ConsumerOnly DEF Sole
<1>1. SUFFICES /\ size' >= 0
               /\ pc'[c] # "fault"
               /\ pc'[c] \in Claiming => list' # <<>>
               /\ pc'[c] \in Popping => size' > 0
               /\ pc'[c] = "dec2" => reg'[c] > 0
  BY <1>0, <1>1 DEF SoleInv, Only
<1>2. /\ size \in Int /\ size >= 0
      /\ pc[c] \in Claiming => list # <<>>
      /\ pc[c] \in Popping => size > 0
      /\ pc[c] = "dec2" => reg[c] > 0
      /\ reg[c] \in Int
      /\ pc \in [Threads -> ProducerPCs \cup ConsumerPCs]
      /\ reg \in [Threads -> Int]
  BY <1>0 DEF TypeOK, SoleInv
<1> USE <1>0, <1>2 DEF Claiming, Popping, Goto
<1>3. CASE SeeElement(c)
  BY <1>3 DEF SeeElement, queueVars
<1>4. CASE PopLock(c)
  BY <1>4 DEF PopLock, Lock
<1>5. CASE ReadHead(c)
  BY <1>5 DEF ReadHead, queueVars
<1>6. CASE Detach(c)
  BY <1>6 DEF Detach
<1>7. CASE PopRefLoad(c) \/ PopUnrefLoad(c) \/ ConsumerDropLoad(c)
  BY <1>7 DEF PopRefLoad, PopUnrefLoad, ConsumerDropLoad, CountLoad, queueVars
<1>8. CASE PopRefStore(c) \/ PopUnrefStore(c) \/ ConsumerDropStore(c)
  BY <1>8 DEF PopRefStore, PopUnrefStore, ConsumerDropStore, CountStore, queueVars
<1>9. CASE PopUnrefCheck(c) \/ ConsumerDropCheck(c)
  BY <1>9 DEF PopUnrefCheck, ConsumerDropCheck, FreeIfZero, queueVars
<1>10. CASE DecLoad(c)
  BY <1>10 DEF DecLoad, queueVars
<1>11. CASE DecStore(c)
  BY <1>11 DEF DecStore
<1> QED
  BY <1>3, <1>4, <1>5, <1>6, <1>7, <1>8, <1>9, <1>10, <1>11 DEF Consumer

\* With a single consumer, pop never follows a NULL `first` and the unsigned
\* counter never wraps below zero, for any number of producers and although
\* the counter is updated outside the lock (queue.cpp:120-149).
THEOREM PopIsSafe == Spec => []PopSafe
<1> DEFINE J == TypeOK /\ CurInv /\ (Sole => SoleInv)
<1>1. Init => J
  <2> SUFFICES ASSUME Init PROVE Sole => SoleInv
    BY InitTypes
  <2> QED
    BY QueueAssumption DEF Init, SoleInv, Threads, Claiming, Popping
<1>2. J /\ [Next]_vars => J'
  <2> SUFFICES ASSUME J, [Next]_vars PROVE Sole => SoleInv'
    BY StepTypes
  <2>1. ASSUME NEW p \in Producers, Producer(p) PROVE Sole => SoleInv'
    BY <2>1, ProducerSole
  <2>2. ASSUME NEW c \in Consumers, Consumer(c) PROVE Sole => SoleInv'
    BY <2>2, ConsumerSole
  <2>3. CASE UNCHANGED vars
    BY <2>3 DEF vars, SoleInv
  <2> QED
    BY <2>1, <2>2, <2>3 DEF Next
<1>3. J => PopSafe
  BY DEF Sole, SoleInv, PopSafe
<1> QED
  BY <1>1, <1>2, <1>3, PTL DEF Spec

-----------------------------------------------------------------------------
(* Any number of consumers: the list is a first-in first-out queue.        *)

\* With the mutex the container the traversal found is still the last one.
LEMMA LinkedIsAppend ==
    ASSUME TypeOK, NoDup, NEW b \in Buffers, NEW l,
           l = IF list = <<>> THEN Nil ELSE list[Len(list)]
    PROVE  Linked(l, b) = Append(list, b)
<1> USE QueueAssumption DEF TypeOK
<1>1. CASE list = <<>>
  BY <1>1 DEF Linked
<1>2. CASE list # <<>>
  <2> DEFINE at == {i \in DOMAIN list : list[i] = l}
  <2>1. Len(list) \in DOMAIN list /\ l = list[Len(list)] /\ l \in Buffers
    BY <1>2
  <2>2. at = {Len(list)}
    BY <2>1 DEF NoDup
  <2>3. (CHOOSE i \in at : TRUE) = Len(list)
    BY <2>2
  <2>4. SubSeq(list, 1, Len(list)) = list
    OBVIOUS
  <2>5. l # Nil /\ at # {}
    BY <2>1, <2>2
  <2> HIDE DEF at
  <2>6. Linked(l, b) = Append(SubSeq(list, 1, CHOOSE i \in at : TRUE), b)
    BY <2>5 DEF Linked, at
  <2> QED
    BY <2>3, <2>4, <2>6
<1> QED
  BY <1>1, <1>2

\* What a statement other than Link and Detach leaves alone.
LEMMA ProducerList ==
    ASSUME NEW p \in Producers, Producer(p), ~Link(p)
    PROVE  list' = list /\ taken' = taken
<1>1. CASE \/ PushRefLoad(p) \/ PushRefStore(p)
           \/ ProducerDropLoad(p) \/ ProducerDropStore(p) \/ ProducerDropCheck(p)
  BY <1>1 DEF PushRefLoad, PushRefStore, ProducerDropLoad, ProducerDropStore, ProducerDropCheck,
        CountLoad, CountStore, FreeIfZero, queueVars
<1>2. CASE \/ Allocate(p) \/ SeeRoom(p) \/ PushLock(p) \/ FindTail(p)
           \/ IncLoad(p) \/ IncStore(p)
  BY <1>2 DEF Allocate, SeeRoom, PushLock, Lock, FindTail, IncLoad, IncStore, PushReturns, queueVars
<1> QED
  BY <1>1, <1>2 DEF Producer

\* Of a consumer's statements only Detach changes the list or what was taken.
LEMMA ConsumerList ==
    ASSUME NEW c \in Consumers, Consumer(c), ~Detach(c)
    PROVE  list' = list /\ taken' = taken
<1>1. CASE \/ PopRefLoad(c) \/ PopRefStore(c)
           \/ PopUnrefLoad(c) \/ PopUnrefStore(c) \/ PopUnrefCheck(c)
  BY <1>1 DEF PopRefLoad, PopRefStore, PopUnrefLoad, PopUnrefStore, PopUnrefCheck,
        CountLoad, CountStore, FreeIfZero, queueVars
<1>2. CASE \/ ConsumerDropLoad(c) \/ ConsumerDropStore(c) \/ ConsumerDropCheck(c)
           \/ DecLoad(c) \/ DecStore(c)
  BY <1>2 DEF ConsumerDropLoad, ConsumerDropStore, ConsumerDropCheck, DecLoad, DecStore,
        CountLoad, CountStore, FreeIfZero, queueVars
<1>3. CASE SeeElement(c) \/ PopLock(c) \/ ReadHead(c)
  BY <1>3 DEF SeeElement, PopLock, Lock, ReadHead, queueVars
<1> QED
  BY <1>1, <1>2, <1>3 DEF Consumer

\* A consumer allocates nothing.
LEMMA ConsumerMade ==
    ASSUME NEW c \in Consumers, Consumer(c)
    PROVE  made' = made
<1>1. CASE \/ PopRefLoad(c) \/ PopRefStore(c)
           \/ PopUnrefLoad(c) \/ PopUnrefStore(c) \/ PopUnrefCheck(c)
  BY <1>1 DEF PopRefLoad, PopRefStore, PopUnrefLoad, PopUnrefStore, PopUnrefCheck,
        CountLoad, CountStore, FreeIfZero
<1>2. CASE \/ ConsumerDropLoad(c) \/ ConsumerDropStore(c) \/ ConsumerDropCheck(c)
           \/ DecLoad(c) \/ DecStore(c)
  BY <1>2 DEF ConsumerDropLoad, ConsumerDropStore, ConsumerDropCheck, DecLoad, DecStore,
        CountLoad, CountStore, FreeIfZero
<1>3. CASE SeeElement(c) \/ PopLock(c) \/ ReadHead(c) \/ Detach(c)
  BY <1>3 DEF SeeElement, PopLock, Lock, ReadHead, Detach
<1> QED
  BY <1>1, <1>2, <1>3 DEF Consumer

\* Only who holds the mutex is in a critical section.
LEMMA MutexStep ==
    ASSUME TypeOK, MutexInv, Next
    PROVE  MutexInv'
<1> USE QueueAssumption DEF TypeOK, MutexInv, Critical, Threads, Goto
<1>1. ASSUME NEW p \in Producers, Producer(p) PROVE MutexInv'
  <2>1. CASE \/ PushRefLoad(p) \/ PushRefStore(p)
             \/ ProducerDropLoad(p) \/ ProducerDropStore(p) \/ ProducerDropCheck(p)
    BY <2>1 DEF PushRefLoad, PushRefStore, ProducerDropLoad, ProducerDropStore, ProducerDropCheck,
          CountLoad, CountStore, FreeIfZero, queueVars
  <2>2. CASE Allocate(p) \/ SeeRoom(p) \/ IncLoad(p) \/ IncStore(p)
    BY <2>2 DEF Allocate, SeeRoom, IncLoad, IncStore, PushReturns, queueVars
  <2>3. CASE PushLock(p)
    BY <2>3 DEF PushLock, Lock
  <2>4. CASE FindTail(p)
    BY <2>4 DEF FindTail, queueVars
  <2>5. CASE Link(p)
    BY <2>5 DEF Link
  <2> QED
    BY <1>1, <2>1, <2>2, <2>3, <2>4, <2>5 DEF Producer
<1>2. ASSUME NEW c \in Consumers, Consumer(c) PROVE MutexInv'
  <2>1. CASE \/ PopRefLoad(c) \/ PopRefStore(c)
             \/ PopUnrefLoad(c) \/ PopUnrefStore(c) \/ PopUnrefCheck(c)
    BY <2>1 DEF PopRefLoad, PopRefStore, PopUnrefLoad, PopUnrefStore, PopUnrefCheck,
          CountLoad, CountStore, FreeIfZero, queueVars
  <2>2. CASE \/ ConsumerDropLoad(c) \/ ConsumerDropStore(c) \/ ConsumerDropCheck(c)
             \/ DecLoad(c) \/ DecStore(c)
    BY <2>2 DEF ConsumerDropLoad, ConsumerDropStore, ConsumerDropCheck, DecLoad, DecStore,
          CountLoad, CountStore, FreeIfZero, queueVars
  <2>3. CASE SeeElement(c)
    BY <2>3 DEF SeeElement, queueVars
  <2>4. CASE PopLock(c)
    BY <2>4 DEF PopLock, Lock
  <2>5. CASE ReadHead(c)
    BY <2>5 DEF ReadHead, queueVars
  <2>6. CASE Detach(c)
    BY <2>6 DEF Detach
  <2> QED
    BY <1>2, <2>1, <2>2, <2>3, <2>4, <2>5, <2>6 DEF Consumer
<1> QED
  BY <1>1, <1>2 DEF Next

\* A producer's buffer keeps its name, and is fresh until it is linked.
LEMMA ProducerName ==
    ASSUME TypeOK, CurInv, FreshInv, NEW p \in Producers, Producer(p)
    PROVE  /\ pc'[p] # "init" => cur'[p] = <<p, made'[p]>>
           /\ \A q \in Producers \ {p} : made'[q] = made[q]
           /\ made'[p] >= made[p] /\ made'[p] \in Nat
           /\ ~Allocate(p) =>
                 /\ made' = made
                 /\ pc[p] # "init"
                 /\ pc'[p] # "init" => cur'[p] = cur[p]
                 /\ pc'[p] \in Pushing => pc[p] \in Pushing
           /\ Allocate(p) => made'[p] = made[p] + 1 /\ pc'[p] = "full"
<1> USE QueueAssumption DEF TypeOK, FreshInv, Goto, Pushing, Threads
<1>1. CASE Allocate(p)
  BY <1>1 DEF Allocate
<1>2. CASE \/ PushRefLoad(p) \/ PushRefStore(p) \/ ProducerDropLoad(p) \/ ProducerDropStore(p)
  BY <1>2 DEF PushRefLoad, PushRefStore, ProducerDropLoad, ProducerDropStore, Allocate,
        CountLoad, CountStore
<1>3. CASE ProducerDropCheck(p)
  BY <1>3 DEF ProducerDropCheck, FreeIfZero, Allocate
<1>4. CASE SeeRoom(p) \/ PushLock(p) \/ FindTail(p)
  BY <1>4 DEF SeeRoom, PushLock, Lock, FindTail, Allocate
<1>5. CASE Link(p) \/ IncLoad(p) \/ IncStore(p)
  BY <1>5 DEF Link, IncLoad, IncStore, PushReturns, Allocate
<1> QED
  BY <1>1, <1>2, <1>3, <1>4, <1>5 DEF Producer

\* The two statements that change the list append to it and behead it.
LEMMA LinkEffect ==
    ASSUME QueueInv, NEW p \in Producers, Link(p)
    PROVE  /\ cur[p] \in Buffers
           /\ cur[p] \notin Items(list) \cup Items(taken)
           /\ list' = Append(list, cur[p]) /\ taken' = taken
           /\ list \in Seq(Buffers)
<1>1. cur[p] \in Buffers
  BY DEF QueueInv, TypeOK, CurInv, Link, Goto, Threads
<1>2. last[p] = IF list = <<>> THEN Nil ELSE list[Len(list)]
  BY DEF QueueInv, TailInv, Link, Goto
<1>3. Linked(last[p], cur[p]) = Append(list, cur[p])
  BY <1>1, <1>2, LinkedIsAppend DEF QueueInv
<1>4. cur[p] \notin Items(list) \cup Items(taken)
  BY DEF QueueInv, FreshInv, Link, Goto, Pushing
<1> QED
  BY <1>1, <1>3, <1>4 DEF Link, QueueInv, TypeOK

\* Detach takes the oldest element, the one ReadHead saw.
LEMMA DetachEffect ==
    ASSUME QueueInv, NEW c \in Consumers, Detach(c)
    PROVE  /\ list # <<>> /\ list \in Seq(Buffers)
           /\ cur[c] = list[1]
           /\ list' = Tail(list)
           /\ taken' = Append(taken, list[1])
           /\ taken \in Seq(Buffers) /\ list[1] \in Buffers
<1>1. list # <<>> /\ cur[c] = list[1]
  BY DEF QueueInv, HeadInv, Detach, Goto
<1> QED
  BY <1>1 DEF Detach, QueueInv, TypeOK

\* Linking adds the producer's buffer to those queued and nothing else.
LEMMA LinkItems ==
    ASSUME QueueInv, NEW p \in Producers, Link(p)
    PROVE  /\ Items(list)' = Items(list) \cup {cur[p]}
           /\ Items(taken)' = Items(taken)
<1>1. Items(Append(list, cur[p])) = Items(list) \cup {cur[p]}
  BY LinkEffect, ItemsAppend
<1> QED
  BY <1>1, LinkEffect DEF Items

\* Detaching moves one buffer from those queued to those taken.
LEMMA DetachItems ==
    ASSUME QueueInv, NEW c \in Consumers, Detach(c)
    PROVE  /\ Items(list)' \subseteq Items(list)
           /\ Items(list) = Items(list)' \cup {cur[c]}
           /\ Items(taken)' = Items(taken) \cup {cur[c]}
<1>1. Items(Append(taken, list[1])) = Items(taken) \cup {list[1]}
  BY DetachEffect, ItemsAppend
<1>2. /\ Items(Tail(list)) \subseteq Items(list)
      /\ Items(list) = Items(Tail(list)) \cup {list[1]}
  BY DetachEffect, ItemsTail
<1>3. Items(list)' = Items(Tail(list)) /\ Items(taken)' = Items(Append(taken, list[1]))
  BY DetachEffect DEF Items
<1> QED
  BY <1>1, <1>2, <1>3, DetachEffect

\* Buffers keep distinct names, and a name is fresh until it is linked.
LEMMA FreshStep ==
    ASSUME QueueInv, Next
    PROVE  FreshInv'
<1> USE QueueAssumption DEF Threads
<1>0. TypeOK /\ CurInv /\ FreshInv
  BY DEF QueueInv
<1>1. \A b \in Items(list) \cup Items(taken) : b \in Buffers
  BY <1>0 DEF TypeOK, Items
<1>2. \A b \in Items(list) \cup Items(taken) :
          b \in Buffers /\ b[1] \in Producers /\ b[2] \in Nat /\ b[2] <= made[b[1]]
  BY <1>0, <1>1 DEF FreshInv, Buffers
<1>3. ASSUME NEW p \in Producers, Producer(p) PROVE FreshInv'
  <2>0. /\ \A q \in Producers \ {p} : pc'[q] = pc[q] /\ cur'[q] = cur[q]
        /\ pc'[p] # "init" => cur'[p] = <<p, made'[p]>>
        /\ \A q \in Producers \ {p} : made'[q] = made[q]
        /\ made'[p] >= made[p] /\ made'[p] \in Nat
    BY <1>0, <1>3, ProducerOnly, ProducerName DEF Only
  <2>1. CASE Link(p)
    <3>1. made' = made /\ pc'[p] = "inc" /\ cur[p] = <<p, made[p]>>
      BY <1>0, <2>1 DEF Link, Goto, FreshInv, TypeOK
    <3>2. (Items(list) \cup Items(taken))' = Items(list) \cup Items(taken) \cup {cur[p]}
      BY <2>1, LinkItems
    <3>3. \A b \in (Items(list) \cup Items(taken))' : b[2] <= made'[b[1]]
      <4>1. cur[p][2] <= made[cur[p][1]]
        BY <1>0, <3>1 DEF TypeOK
      <4> QED
        BY <1>2, <3>1, <3>2, <4>1
    <3>4. ASSUME NEW q \in Producers, pc'[q] \in Pushing
          PROVE  cur'[q] \notin (Items(list) \cup Items(taken))'
      <4>1. q # p /\ pc[q] \in Pushing /\ cur'[q] = cur[q]
        BY <2>0, <3>1, <3>4 DEF Pushing
      <4>2. cur[q] = <<q, made[q]>> /\ cur[q] # cur[p]
        BY <1>0, <3>1, <4>1 DEF FreshInv, Pushing
      <4> QED
        BY <1>0, <3>2, <4>1, <4>2 DEF FreshInv
    <3> QED
      BY <1>0, <2>0, <3>3, <3>4 DEF FreshInv
  <2>2. CASE ~Link(p)
    <3>1. list' = list /\ taken' = taken
      BY <1>3, <2>2, ProducerList
    <3>2. (Items(list) \cup Items(taken))' = Items(list) \cup Items(taken)
      BY <3>1 DEF Items
    <3>3. ASSUME NEW b \in Items(list) \cup Items(taken) PROVE b[2] <= made'[b[1]]
      <4>1. b[1] \in Producers /\ b[2] \in Nat /\ b[2] <= made[b[1]] /\ made[b[1]] \in Nat
        BY <1>0, <1>2 DEF TypeOK
      <4>2. CASE b[1] = p
        BY <2>0, <4>1, <4>2
      <4>3. CASE b[1] # p
        BY <2>0, <4>1, <4>3
      <4> QED
        BY <4>2, <4>3
    <3>4. ASSUME NEW q \in Producers, pc'[q] \in Pushing
          PROVE  cur'[q] \notin Items(list) \cup Items(taken)
      <4>1. CASE q # p
        BY <1>0, <2>0, <3>4, <4>1 DEF FreshInv
      <4>2. CASE q = p /\ Allocate(p)
        <5>1. cur'[p] = <<p, made[p] + 1>>
          BY <1>0, <1>3, <2>0, <4>2, ProducerName
        <5>2. ASSUME cur'[p] \in Items(list) \cup Items(taken) PROVE FALSE
          <6>1. made[p] + 1 <= made[p] /\ made[p] \in Nat
            BY <1>0, <1>2, <5>1, <5>2 DEF TypeOK
          <6> QED
            BY <6>1
        <5> QED
          BY <4>2, <5>2
      <4>3. CASE q = p /\ ~Allocate(p)
        <5>1. pc'[p] # "init" /\ pc[p] \in Pushing /\ cur'[p] = cur[p]
          BY <1>0, <1>3, <3>4, <4>3, ProducerName DEF Pushing
        <5> QED
          BY <1>0, <4>3, <5>1 DEF FreshInv
      <4> QED
        BY <4>1, <4>2, <4>3
    <3> QED
      BY <1>0, <2>0, <3>2, <3>3, <3>4 DEF FreshInv
  <2> QED
    BY <2>1, <2>2
<1>4. ASSUME NEW c \in Consumers, Consumer(c) PROVE FreshInv'
  <2>1. \A q \in Producers : pc'[q] = pc[q] /\ cur'[q] = cur[q]
    BY <1>0, <1>4, ConsumerOnly DEF Only
  <2>2. made' = made
    <3>1. CASE \/ PopRefLoad(c) \/ PopRefStore(c)
               \/ PopUnrefLoad(c) \/ PopUnrefStore(c) \/ PopUnrefCheck(c)
               \/ ConsumerDropLoad(c) \/ ConsumerDropStore(c) \/ ConsumerDropCheck(c)
      BY <3>1 DEF PopRefLoad, PopRefStore, PopUnrefLoad, PopUnrefStore, PopUnrefCheck,
            ConsumerDropLoad, ConsumerDropStore, ConsumerDropCheck, CountLoad, CountStore, FreeIfZero
    <3>2. CASE \/ SeeElement(c) \/ PopLock(c) \/ ReadHead(c) \/ Detach(c)
               \/ DecLoad(c) \/ DecStore(c)
      BY <3>2 DEF SeeElement, PopLock, Lock, ReadHead, Detach, DecLoad, DecStore
    <3> QED
      BY <1>4, <3>1, <3>2 DEF Consumer
  <2>3. (Items(list) \cup Items(taken))' = Items(list) \cup Items(taken)
    <3>1. CASE Detach(c)
      BY <3>1, DetachItems
    <3>2. CASE ~Detach(c)
      BY <1>4, <3>2, ConsumerList DEF Items
    <3> QED
      BY <3>1, <3>2
  <2> QED
    BY <1>0, <2>1, <2>2, <2>3 DEF FreshInv
<1> QED
  BY <1>3, <1>4 DEF Next

\* The container a producer's traversal stopped at stays the last one until it
\* links: nobody else changes the list meanwhile.
LEMMA TailStep ==
    ASSUME QueueInv, Next
    PROVE  TailInv'
<1> USE QueueAssumption DEF Threads
<1>0. TypeOK /\ MutexInv /\ TailInv
  BY DEF QueueInv
<1>1. ASSUME NEW p \in Producers, Producer(p) PROVE TailInv'
  <2>0. \A q \in Producers \ {p} : pc'[q] = pc[q]
    BY <1>0, <1>1, ProducerOnly DEF Only
  <2>1. CASE Link(p)
    <3>1. \A q \in Producers \ {p} : pc[q] # "link"
      BY <1>0, <2>1 DEF Link, Goto, MutexInv, Critical
    <3>2. pc'[p] = "inc"
      BY <1>0, <2>1 DEF Link, Goto, TypeOK
    <3> QED
      BY <2>0, <3>1, <3>2 DEF TailInv
  <2>2. CASE FindTail(p)
    <3>1. /\ list' = list
          /\ last' = [last EXCEPT ![p] = IF list = <<>> THEN Nil ELSE list[Len(list)]]
      BY <2>2 DEF FindTail, queueVars
    <3> QED
      BY <1>0, <2>0, <3>1 DEF TailInv, TypeOK
  <2>3. CASE ~Link(p) /\ ~FindTail(p)
    <3>1. list' = list
      BY <1>1, <2>3, ProducerList
    <3>2. last' = last /\ pc'[p] # "link"
      <4>1. CASE \/ PushRefLoad(p) \/ PushRefStore(p)
                 \/ ProducerDropLoad(p) \/ ProducerDropStore(p) \/ ProducerDropCheck(p)
        BY <1>0, <4>1 DEF PushRefLoad, PushRefStore, ProducerDropLoad, ProducerDropStore,
              ProducerDropCheck, CountLoad, CountStore, FreeIfZero, Goto, TypeOK
      <4>2. CASE Allocate(p) \/ SeeRoom(p) \/ PushLock(p) \/ IncLoad(p) \/ IncStore(p)
        BY <1>0, <4>2 DEF Allocate, SeeRoom, PushLock, Lock, IncLoad, IncStore, PushReturns, Goto, TypeOK
      <4> QED
        BY <1>1, <2>3, <4>1, <4>2 DEF Producer
    <3> QED
      BY <1>0, <2>0, <3>1, <3>2 DEF TailInv
  <2> QED
    BY <2>1, <2>2, <2>3
<1>2. ASSUME NEW c \in Consumers, Consumer(c) PROVE TailInv'
  <2>0. \A q \in Producers : pc'[q] = pc[q]
    BY <1>0, <1>2, ConsumerOnly DEF Only
  <2>1. last' = last
    <3>1. CASE \/ PopRefLoad(c) \/ PopRefStore(c)
               \/ PopUnrefLoad(c) \/ PopUnrefStore(c) \/ PopUnrefCheck(c)
               \/ ConsumerDropLoad(c) \/ ConsumerDropStore(c) \/ ConsumerDropCheck(c)
      BY <3>1 DEF PopRefLoad, PopRefStore, PopUnrefLoad, PopUnrefStore, PopUnrefCheck,
            ConsumerDropLoad, ConsumerDropStore, ConsumerDropCheck, CountLoad, CountStore, FreeIfZero
    <3>2. CASE \/ SeeElement(c) \/ PopLock(c) \/ ReadHead(c) \/ Detach(c)
               \/ DecLoad(c) \/ DecStore(c)
      BY <3>2 DEF SeeElement, PopLock, Lock, ReadHead, Detach, DecLoad, DecStore
    <3> QED
      BY <1>2, <3>1, <3>2 DEF Consumer
  <2>2. CASE Detach(c)
    <3>1. \A q \in Producers : pc[q] # "link"
      BY <1>0, <2>2 DEF Detach, Goto, MutexInv, Critical
    <3> QED
      BY <2>0, <3>1 DEF TailInv
  <2>3. CASE ~Detach(c)
    BY <1>0, <1>2, <2>0, <2>1, <2>3, ConsumerList DEF TailInv
  <2> QED
    BY <2>2, <2>3
<1> QED
  BY <1>1, <1>2 DEF Next

\* The container a consumer read stays the first one until it detaches it.
LEMMA HeadStep ==
    ASSUME QueueInv, Next
    PROVE  HeadInv'
<1> USE QueueAssumption DEF Threads
<1>0. TypeOK /\ MutexInv /\ HeadInv
  BY DEF QueueInv
<1>1. ASSUME NEW p \in Producers, Producer(p) PROVE HeadInv'
  <2>0. \A c \in Consumers : pc'[c] = pc[c] /\ cur'[c] = cur[c]
    BY <1>0, <1>1, ProducerOnly DEF Only
  <2>1. CASE Link(p)
    <3>1. \A c \in Consumers : pc[c] # "detach"
      BY <1>0, <2>1 DEF Link, Goto, MutexInv, Critical
    <3> QED
      BY <2>0, <3>1 DEF HeadInv
  <2>2. CASE ~Link(p)
    BY <1>0, <1>1, <2>0, <2>2, ProducerList DEF HeadInv
  <2> QED
    BY <2>1, <2>2
<1>2. ASSUME NEW c \in Consumers, Consumer(c) PROVE HeadInv'
  <2>0. \A d \in Consumers \ {c} : pc'[d] = pc[d] /\ cur'[d] = cur[d]
    BY <1>0, <1>2, ConsumerOnly DEF Only
  <2>1. CASE Detach(c)
    <3>1. \A d \in Consumers \ {c} : pc[d] # "detach"
      BY <1>0, <2>1 DEF Detach, Goto, MutexInv, Critical
    <3>2. pc'[c] # "detach"
      BY <1>0, <2>1 DEF Detach, Goto, TypeOK
    <3> QED
      BY <2>0, <3>1, <3>2 DEF HeadInv
  <2>2. CASE ReadHead(c)
    <3>1. list' = list /\ (pc'[c] = "detach" => list # <<>> /\ cur'[c] = list[1])
      BY <1>0, <2>2 DEF ReadHead, Goto, queueVars, TypeOK
    <3> QED
      BY <1>0, <2>0, <3>1 DEF HeadInv
  <2>3. CASE ~Detach(c) /\ ~ReadHead(c)
    <3>1. list' = list
      BY <1>2, <2>3, ConsumerList
    <3>2. pc'[c] # "detach"
      <4>1. CASE \/ PopRefLoad(c) \/ PopRefStore(c)
                 \/ PopUnrefLoad(c) \/ PopUnrefStore(c) \/ PopUnrefCheck(c)
        BY <1>0, <4>1 DEF PopRefLoad, PopRefStore, PopUnrefLoad, PopUnrefStore, PopUnrefCheck,
              CountLoad, CountStore, FreeIfZero, Goto, TypeOK
      <4>2. CASE \/ ConsumerDropLoad(c) \/ ConsumerDropStore(c) \/ ConsumerDropCheck(c)
                 \/ SeeElement(c) \/ PopLock(c) \/ DecLoad(c) \/ DecStore(c)
        BY <1>0, <4>2 DEF ConsumerDropLoad, ConsumerDropStore, ConsumerDropCheck, SeeElement, PopLock,
              Lock, DecLoad, DecStore, CountLoad, CountStore, FreeIfZero, Goto, TypeOK
      <4> QED
        BY <1>2, <2>3, <4>1, <4>2 DEF Consumer
    <3> QED
      BY <1>0, <2>0, <3>1, <3>2 DEF HeadInv
  <2> QED
    BY <2>1, <2>2, <2>3
<1> QED
  BY <1>1, <1>2 DEF Next

\* No buffer is in the list twice, since only fresh ones are linked.
LEMMA NoDupStep ==
    ASSUME QueueInv, Next
    PROVE  NoDup'
<1>0. NoDup /\ list \in Seq(Buffers)
  BY DEF QueueInv, TypeOK
<1>1. ASSUME NEW p \in Producers, Link(p) PROVE NoDup'
  <2>1. list' = Append(list, cur[p]) /\ \A i \in DOMAIN list : list[i] # cur[p]
    BY <1>1, LinkEffect DEF Items
  <2>2. /\ DOMAIN list' = 1 .. Len(list) + 1 /\ DOMAIN list = 1 .. Len(list)
        /\ list'[Len(list) + 1] = cur[p]
        /\ \A i \in 1 .. Len(list) : list'[i] = list[i]
        /\ Len(list) \in Nat
    BY <1>0, <1>1, <2>1, LinkEffect
  <2> QED
    BY <1>0, <2>1, <2>2 DEF NoDup
<1>2. ASSUME NEW c \in Consumers, Detach(c) PROVE NoDup'
  <2>1. list' = Tail(list) /\ list # <<>>
    BY <1>2, DetachEffect
  <2>2. /\ DOMAIN list' = 1 .. Len(list) - 1 /\ DOMAIN list = 1 .. Len(list)
        /\ \A i \in 1 .. Len(list) - 1 : list'[i] = list[i + 1]
        /\ Len(list) \in Nat
    BY <1>0, <2>1
  <2> QED
    BY <1>0, <2>2 DEF NoDup
<1>3. CASE list' = list
  BY <1>0, <1>3 DEF NoDup
<1> QED
  BY <1>1, <1>2, <1>3, ProducerList, ConsumerList DEF Next

\* The invariant behind the queue's order is inductive.
LEMMA QueueInit == Init => QueueInv
<1> SUFFICES ASSUME Init PROVE QueueInv
  OBVIOUS
<1>1. \A t \in Threads : pc[t] \in {"init", "empty"}
  BY DEF Init
<1>2. Items(list) = {} /\ Items(taken) = {} /\ list = <<>>
  BY DEF Init, Items
<1>3. MutexInv /\ TailInv /\ HeadInv /\ NoDup
  BY <1>1, <1>2 DEF MutexInv, Critical, TailInv, HeadInv, NoDup, Threads
<1>4. FreshInv
  <2>1. \A p \in Producers : pc[p] = "init"
    BY DEF Init, Threads
  <2> QED
    BY <1>2, <2>1 DEF FreshInv, Pushing
<1> QED
  BY <1>3, <1>4, InitTypes DEF QueueInv

\* Every step keeps the invariant behind the queue's order.
LEMMA QueueStep == QueueInv /\ [Next]_vars => QueueInv'
<1> SUFFICES ASSUME QueueInv, [Next]_vars PROVE QueueInv'
  OBVIOUS
<1>1. CASE Next
  BY <1>1, StepTypes, MutexStep, TailStep, HeadStep, FreshStep, NoDupStep DEF QueueInv
<1>2. CASE UNCHANGED vars
  BY <1>2 DEF vars, QueueInv, TypeOK, CurInv, MutexInv, TailInv, HeadInv, FreshInv, NoDup, Items
<1> QED
  BY <1>1, <1>2

\* Every step of the threads is a step of the abstract queue: linking puts,
\* detaching takes the oldest, everything else is invisible.
LEMMA StepRefines == QueueInv /\ [Next]_vars => [F!FNext]_(F!fvars)
<1> SUFFICES ASSUME QueueInv, [Next]_vars PROVE [F!FNext]_(F!fvars)
  OBVIOUS
<1>1. ASSUME NEW p \in Producers, Link(p) PROVE F!Put(cur[p])
  <2>1. cur[p] \notin F!Items(list) \cup F!Items(taken)
    BY <1>1, LinkEffect DEF Items, F!Items
  <2> QED
    BY <1>1, <2>1, LinkEffect DEF F!Put
<1>2. ASSUME NEW c \in Consumers, Detach(c) PROVE F!Take
  BY <1>2, DetachEffect DEF F!Take
<1>3. CASE list' = list /\ taken' = taken
  BY <1>3 DEF F!fvars
<1>4. CASE UNCHANGED vars
  BY <1>4 DEF vars, F!fvars
<1> QED
  BY <1>1, <1>2, <1>3, <1>4, ProducerList, ConsumerList, LinkEffect DEF Next, F!FNext

\* For any number of producers and consumers the list is a first-in first-out
\* queue from which every buffer comes out at most once.
THEOREM QueueIsFifo == Spec => FifoSpec
<1>1. Init => F!FInit
  BY DEF Init, F!FInit
<1>2. QueueInv /\ [Next]_vars => [F!FNext]_(F!fvars)
  BY StepRefines
<1> QED
  BY <1>1, <1>2, QueueInit, QueueStep, PTL DEF Spec, FifoSpec, F!FSpec

-----------------------------------------------------------------------------
(* A queued buffer is alive.                                               *)

\* The head is not left behind in the tail.
LEMMA HeadLeaves ==
    ASSUME QueueInv, NEW c \in Consumers, Detach(c)
    PROVE  cur[c] \notin Items(list)'
<1>1. /\ list \in Seq(Buffers) /\ list # <<>> /\ cur[c] = list[1] /\ list' = Tail(list)
      /\ NoDup
  BY DetachEffect DEF QueueInv
<1>2. /\ DOMAIN list' = 1 .. Len(list) - 1 /\ DOMAIN list = 1 .. Len(list)
      /\ Len(list) \in Nat
      /\ \A i \in 1 .. Len(list) - 1 : list'[i] = list[i + 1]
  BY <1>1
<1>3. ASSUME NEW i \in DOMAIN list', list'[i] = list[1] PROVE FALSE
  <2>1. i + 1 \in DOMAIN list /\ 1 \in DOMAIN list /\ list[i + 1] = list[1] /\ i >= 1
    BY <1>2, <1>3
  <2>2. i + 1 = 1
    BY <1>1, <2>1 DEF NoDup
  <2> QED
    BY <1>2, <2>1, <2>2
<1> QED
  BY <1>1, <1>3 DEF Items

\* A buffer is never queued again once it was taken.
LEMMA DisjointStep ==
    ASSUME QueueInv, Disjoint, Next
    PROVE  Disjoint'
<1>1. ASSUME NEW p \in Producers, Link(p) PROVE Disjoint'
  BY <1>1, LinkItems, LinkEffect DEF Disjoint
<1>2. ASSUME NEW c \in Consumers, Detach(c) PROVE Disjoint'
  BY <1>2, DetachItems, HeadLeaves DEF Disjoint
<1>3. CASE list' = list /\ taken' = taken
  BY <1>3 DEF Disjoint, Items
<1> QED
  BY <1>1, <1>2, <1>3, ProducerList, ConsumerList DEF Next

\* the statements at which a consumer counts the buffer it took
Counting == Detached \cup {"drop", "drop2", "dropcheck"}

\* What a consumer works on after the removal is among the buffers taken.
LEMMA TakenStep ==
    ASSUME QueueInv, TakenInv, Next
    PROVE  TakenInv'
<1> USE QueueAssumption DEF Threads
<1>0. TypeOK
  BY DEF QueueInv
<1>1. ASSUME NEW p \in Producers, Producer(p) PROVE TakenInv'
  <2>1. \A c \in Consumers : pc'[c] = pc[c] /\ cur'[c] = cur[c]
    BY <1>0, <1>1, ProducerOnly DEF Only
  <2>2. Items(taken)' = Items(taken)
    BY <1>1, ProducerList, LinkItems DEF Items
  <2> QED
    BY <2>1, <2>2 DEF TakenInv
<1>2. ASSUME NEW c \in Consumers, Consumer(c) PROVE TakenInv'
  <2>1. \A d \in Consumers \ {c} : pc'[d] = pc[d] /\ cur'[d] = cur[d]
    BY <1>0, <1>2, ConsumerOnly DEF Only
  <2>2. CASE Detach(c)
    <3>1. cur'[c] \in Items(taken)' /\ Items(taken) \subseteq Items(taken)'
      <4>1. cur' = cur
        BY <2>2 DEF Detach
      <4> QED
        BY <2>2, <4>1, DetachItems
    <3> QED
      BY <2>1, <3>1 DEF TakenInv
  <2>3. CASE ~Detach(c)
    <3>1. Items(taken)' = Items(taken)
      BY <1>2, <2>3, ConsumerList DEF Items
    <3>2. pc'[c] \in Counting => pc[c] \in Counting /\ cur'[c] = cur[c]
      <4> USE DEF Counting, Detached, Popping, Claiming, Goto, TypeOK
      <4>1. CASE \/ PopRefLoad(c) \/ PopRefStore(c) \/ PopUnrefLoad(c) \/ PopUnrefStore(c)
        BY <1>0, <4>1 DEF PopRefLoad, PopRefStore, PopUnrefLoad, PopUnrefStore, CountLoad, CountStore
      <4>2. CASE PopUnrefCheck(c) \/ ConsumerDropCheck(c)
        BY <1>0, <4>2 DEF PopUnrefCheck, ConsumerDropCheck, FreeIfZero
      <4>3. CASE ConsumerDropLoad(c) \/ ConsumerDropStore(c) \/ DecLoad(c) \/ DecStore(c)
        BY <1>0, <4>3 DEF ConsumerDropLoad, ConsumerDropStore, DecLoad, DecStore, CountLoad, CountStore
      <4>4. CASE SeeElement(c) \/ PopLock(c) \/ ReadHead(c)
        BY <1>0, <4>4 DEF SeeElement, PopLock, Lock, ReadHead
      <4> QED
        BY <1>2, <2>3, <4>1, <4>2, <4>3, <4>4 DEF Consumer
    <3> QED
      BY <2>1, <3>1, <3>2 DEF TakenInv, Counting
  <2> QED
    BY <2>2, <2>3
<1> QED
  BY <1>1, <1>2 DEF Next

\* A consumer counts what it has taken, which neither a producer that has not
\* linked nor the list holds any more.
LEMMA AliveConsumer ==
    ASSUME CountInv, NEW c \in Consumers, Consumer(c)
    PROVE  AliveInv'
<1> USE QueueAssumption DEF Threads
<1>0. /\ TypeOK /\ FreshInv /\ AliveInv /\ Disjoint /\ TakenInv
      /\ \A q \in Producers : pc'[q] = pc[q] /\ cur'[q] = cur[q] /\ reg'[q] = reg[q]
  <2>1. TypeOK
    BY DEF CountInv, QueueInv
  <2> QED
    BY <2>1, ConsumerOnly DEF Only, CountInv, QueueInv
<1>1. \A b \in Items(list)' : b \in Items(list) /\ b \notin Items(taken)
  <2>1. CASE Detach(c)
    BY <1>0, <2>1, DetachItems DEF Disjoint, CountInv
  <2>2. CASE ~Detach(c)
    BY <1>0, <2>2, ConsumerList DEF Disjoint, Items
  <2> QED
    BY <2>1, <2>2
<1>2. /\ made' = made
      /\ \A b \in Buffers \ Items(taken) : refs'[b] = refs[b] /\ freed'[b] = freed[b]
      /\ \A b \in Buffers : b \notin Items(taken) => freed'[b] = freed[b]
  <2>1. CASE PopRefLoad(c) \/ PopUnrefLoad(c) \/ ConsumerDropLoad(c)
    BY <2>1 DEF PopRefLoad, PopUnrefLoad, ConsumerDropLoad, CountLoad
  <2>2. CASE PopRefStore(c) \/ PopUnrefStore(c) \/ ConsumerDropStore(c)
    <3>1. cur[c] \in Items(taken) /\ made' = made /\ freed' = freed
          /\ \E n : refs' = [refs EXCEPT ![cur[c]] = n]
      BY <1>0, <2>2 DEF PopRefStore, PopUnrefStore, ConsumerDropStore, CountStore, Goto, TakenInv,
            Detached, Popping, Claiming
    <3> QED
      BY <1>0, <3>1 DEF TypeOK
  <2>3. CASE PopUnrefCheck(c) \/ ConsumerDropCheck(c)
    <3>1. cur[c] \in Items(taken) /\ made' = made /\ refs' = refs
          /\ (freed' = freed \/ freed' = [freed EXCEPT ![cur[c]] = @ + 1])
      BY <1>0, <2>3 DEF PopUnrefCheck, ConsumerDropCheck, FreeIfZero, Goto, TakenInv,
            Detached, Popping, Claiming
    <3> QED
      BY <1>0, <3>1 DEF TypeOK
  <2>4. CASE SeeElement(c) \/ PopLock(c) \/ ReadHead(c) \/ Detach(c) \/ DecLoad(c) \/ DecStore(c)
    BY <2>4 DEF SeeElement, PopLock, Lock, ReadHead, Detach, DecLoad, DecStore, countVars
  <2> QED
    BY <2>1, <2>2, <2>3, <2>4 DEF Consumer
<1>3. \A b \in Items(list)' : b \in Buffers /\ refs'[b] = refs[b] /\ freed'[b] = freed[b]
  <2>1. \A b \in Items(list) : b \in Buffers
    BY <1>0 DEF TypeOK, Items
  <2> QED
    BY <1>1, <1>2, <2>1
<1>4. ASSUME NEW p \in Producers, pc[p] \in Pushing
      PROVE  refs'[cur[p]] = refs[cur[p]] /\ freed'[cur[p]] = freed[cur[p]]
  <2>1. cur[p] \in Buffers /\ cur[p] \notin Items(taken)
    BY <1>0, <1>4 DEF FreshInv, Pushing, CurInv, CountInv, QueueInv, TypeOK
  <2> QED
    BY <1>2, <2>1
<1>5. ASSUME NEW p \in Producers, NEW i \in 1 .. Quota, made[p] < i
      PROVE  freed'[<<p, i>>] = 0
  <2>1. <<p, i>> \in Buffers /\ <<p, i>>[1] = p /\ <<p, i>>[2] = i
    BY DEF Buffers
  <2>2. <<p, i>> \notin Items(taken)
    BY <1>0, <1>5, <2>1 DEF FreshInv, TypeOK
  <2> QED
    BY <1>0, <1>2, <1>5, <2>1, <2>2 DEF AliveInv
<1>6. \A p \in Producers :
          /\ pc[p] \in {"full", "ref"} => refs'[cur[p]] = 1 /\ freed'[cur[p]] = 0
          /\ pc[p] = "ref2" => refs'[cur[p]] = 1 /\ freed'[cur[p]] = 0 /\ reg[p] = 1
          /\ pc[p] \in {"lock", "tail", "link"} => refs'[cur[p]] = 2 /\ freed'[cur[p]] = 0
  BY <1>0, <1>4 DEF AliveInv, Pushing
<1>7. \A b \in Items(list)' :
          /\ freed'[b] = 0
          /\ refs'[b] >= 1
          /\ \A p \in Producers :
                 pc[p] # "init" /\ cur[p] = b =>
                     /\ pc[p] \in {"inc", "inc2", "drop"} => refs'[b] = 2
                     /\ pc[p] = "drop2" => reg[p] = 2
  BY <1>0, <1>1, <1>3 DEF AliveInv
<1> QED
  BY <1>0, <1>2, <1>5, <1>6, <1>7 DEF AliveInv

\* Own(p, b): what AliveInv says of a producer and its own buffer.
Own(p, b) ==
    /\ pc[p] \in {"full", "ref"} => refs[b] = 1 /\ freed[b] = 0
    /\ pc[p] = "ref2" => refs[b] = 1 /\ freed[b] = 0 /\ reg[p] = 1
    /\ pc[p] \in {"lock", "tail", "link"} => refs[b] = 2 /\ freed[b] = 0
    /\ b \in Items(list) =>
           /\ freed[b] = 0
           /\ refs[b] >= 1
           /\ pc[p] \in {"inc", "inc2", "drop"} => refs[b] = 2
           /\ pc[p] = "drop2" => reg[p] = 2

\* A producer's step concerns its own buffer only, so that AliveInv need only
\* be shown of that one.
LEMMA AliveOwn ==
    ASSUME CountInv, NEW p \in Producers, Producer(p), NEW b \in Buffers,
           b = <<p, made'[p]>>,
           \A x \in Buffers \ {b} : refs'[x] = refs[x] /\ freed'[x] = freed[x],
           Own(p, b)',
           \A x \in Items(list)' \ {b} : x \in Items(list)
    PROVE  AliveInv'
<1> USE QueueAssumption DEF Threads
<1>0. TypeOK /\ CurInv /\ FreshInv /\ AliveInv
  BY DEF CountInv, QueueInv
<1>1. /\ \A q \in Producers \ {p} : pc'[q] = pc[q] /\ cur'[q] = cur[q] /\ reg'[q] = reg[q]
      /\ \A q \in Producers \ {p} : made'[q] = made[q]
      /\ made'[p] >= made[p] /\ made'[p] \in Nat /\ made[p] \in Nat
      /\ pc'[p] # "init" => cur'[p] = b
  <2>1. \A q \in Producers \ {p} : pc'[q] = pc[q] /\ cur'[q] = cur[q] /\ reg'[q] = reg[q]
    BY <1>0, ProducerOnly DEF Only
  <2>2. made[p] \in Nat
    BY <1>0 DEF TypeOK
  <2> QED
    BY <1>0, <2>1, <2>2, ProducerName
<1>2. ASSUME NEW q \in Producers \ {p}, pc[q] # "init"
      PROVE  cur[q] \in Buffers \ {b}
  <2>1. cur[q] = <<q, made[q]>> /\ cur[q] \in Buffers
    BY <1>0, <1>2 DEF FreshInv, CurInv, TypeOK
  <2> QED
    BY <2>1
<1>3. \A q \in Producers :
          /\ pc'[q] \in {"full", "ref"} => refs'[cur'[q]] = 1 /\ freed'[cur'[q]] = 0
          /\ pc'[q] = "ref2" => refs'[cur'[q]] = 1 /\ freed'[cur'[q]] = 0 /\ reg'[q] = 1
          /\ pc'[q] \in {"lock", "tail", "link"} => refs'[cur'[q]] = 2 /\ freed'[cur'[q]] = 0
  <2> SUFFICES ASSUME NEW q \in Producers
               PROVE  /\ pc'[q] \in {"full", "ref"} => refs'[cur'[q]] = 1 /\ freed'[cur'[q]] = 0
                      /\ pc'[q] = "ref2" => /\ refs'[cur'[q]] = 1 /\ freed'[cur'[q]] = 0
                                            /\ reg'[q] = 1
                      /\ pc'[q] \in {"lock", "tail", "link"} =>
                             refs'[cur'[q]] = 2 /\ freed'[cur'[q]] = 0
    OBVIOUS
  <2>1. CASE q = p
    BY <1>1, <2>1 DEF Own
  <2>2. CASE q # p
    BY <1>0, <1>1, <1>2, <2>2 DEF AliveInv
  <2> QED
    BY <2>1, <2>2
<1>4. ASSUME NEW x \in Items(list)'
      PROVE  /\ freed'[x] = 0
             /\ refs'[x] >= 1
             /\ \A q \in Producers :
                    pc'[q] # "init" /\ cur'[q] = x =>
                        /\ pc'[q] \in {"inc", "inc2", "drop"} => refs'[x] = 2
                        /\ pc'[q] = "drop2" => reg'[q] = 2
  <2>1. CASE x = b
    <3>1. \A q \in Producers \ {p} : pc'[q] # "init" => cur'[q] # x
      BY <1>1, <1>2, <2>1
    <3> QED
      BY <1>4, <2>1, <3>1 DEF Own
  <2>2. CASE x # b
    <3>a. x \in Items(list)
      BY <1>4, <2>2
    <3>1. x \in Items(list) /\ x \in Buffers \ {b}
      BY <1>0, <2>2, <3>a DEF TypeOK, Items
    <3>2. pc'[p] # "init" => cur'[p] # x
      BY <1>1, <2>2
    <3> QED
      BY <1>0, <1>1, <3>1, <3>2 DEF AliveInv
  <2> QED
    BY <2>1, <2>2
<1>5. ASSUME NEW q \in Producers, NEW i \in 1 .. Quota, made'[q] < i
      PROVE  freed'[<<q, i>>] = 0
  <2>1. <<q, i>> \in Buffers /\ made[q] < i
    <3>1. made[q] \in Nat /\ made'[q] \in Nat /\ made'[q] >= made[q]
      <4>1. made[q] \in Nat
        BY <1>0 DEF TypeOK
      <4> QED
        BY <1>1, <4>1
    <3> QED
      BY <1>5, <3>1 DEF Buffers
  <2>2. <<q, i>> # b
    BY <1>1, <1>5
  <2> QED
    BY <1>0, <2>1, <2>2 DEF AliveInv
<1> QED
  BY <1>3, <1>4, <1>5 DEF AliveInv

\* A producer's step leaves everything queued alive: its own reference lasts
\* until the list has one (queue.cpp:64, event.cpp:36).
LEMMA AliveProducer ==
    ASSUME CountInv, NEW p \in Producers, Producer(p)
    PROVE  AliveInv'
<1> USE QueueAssumption DEF Threads
<1>0. QueueInv /\ TypeOK /\ CurInv /\ FreshInv /\ AliveInv
  BY DEF CountInv, QueueInv
<1>1. CASE Allocate(p)
  <2>1. PICK b \in Buffers : b = <<p, made[p] + 1>>
    BY <1>0, <1>1 DEF Allocate, Buffers, TypeOK
  <2>2. /\ made[p] + 1 \in 1 .. Quota /\ made[p] \in Nat /\ b = <<p, made'[p]>>
        /\ refs' = [refs EXCEPT ![b] = 1] /\ freed' = freed
        /\ pc'[p] = "full" /\ list' = list
    BY <1>0, <1>1, <2>1 DEF Allocate, Goto, TypeOK, queueVars
  <2>3. freed[b] = 0
    BY <1>0, <2>1, <2>2 DEF AliveInv
  <2>4. b \notin Items(list) /\ Items(list)' = Items(list)
    <3>1. b \in Items(list) => made[p] + 1 <= made[p]
      BY <1>0, <2>1 DEF FreshInv
    <3> QED
      BY <2>2, <3>1 DEF Items
  <2>5. Own(p, b)'
    BY <1>0, <2>2, <2>3, <2>4 DEF Own, TypeOK
  <2>6. \A x \in Buffers \ {b} : refs'[x] = refs[x] /\ freed'[x] = freed[x]
    BY <1>0, <2>2 DEF TypeOK
  <2> QED
    BY <2>2, <2>4, <2>5, <2>6, AliveOwn
<1>2. CASE ~Allocate(p)
  <2>1. PICK b \in Buffers : b = cur[p]
    BY <1>0, <1>2, ProducerName DEF CurInv, TypeOK
  <2>2. made' = made /\ pc[p] # "init" /\ b = <<p, made[p]>>
    BY <1>0, <1>2, <2>1, ProducerName DEF FreshInv
  <2>3. Own(p, b)
    BY <1>0, <2>1, <2>2 DEF AliveInv, Own
  <2>4. /\ refs \in [Buffers -> Int] /\ freed \in [Buffers -> Nat]
        /\ pc \in [Threads -> ProducerPCs \cup ConsumerPCs]
        /\ reg \in [Threads -> Int]
    BY <1>0 DEF TypeOK
  <2>5. SUFFICES /\ \A x \in Buffers \ {b} : refs'[x] = refs[x] /\ freed'[x] = freed[x]
                 /\ Own(p, b)'
                 /\ \A x \in Items(list)' \ {b} : x \in Items(list)
    BY <2>2, <2>5, AliveOwn
  <2>6. CASE Link(p)
    <3>1. /\ Items(list)' = Items(list) \cup {b}
          /\ refs' = refs /\ freed' = freed
          /\ pc[p] = "link" /\ pc'[p] = "inc"
      BY <1>0, <2>1, <2>4, <2>6, LinkItems DEF Link, countVars, Goto
    <3> QED
      BY <2>3, <3>1 DEF Own
  <2>7. CASE ~Link(p)
    <3>1. Items(list)' = Items(list)
      BY <2>7, ProducerList DEF Items
    <3> USE <2>3, <2>4, <3>1 DEF Own, Goto
    <3>2. CASE SeeRoom(p) \/ PushLock(p) \/ FindTail(p)
      BY <3>2 DEF SeeRoom, PushLock, Lock, FindTail, countVars
    <3>3. CASE IncLoad(p) \/ IncStore(p)
      BY <3>3 DEF IncLoad, IncStore, PushReturns, countVars
    <3>4. CASE PushRefLoad(p)
      BY <2>1, <3>4 DEF PushRefLoad, CountLoad
    <3>5. CASE PushRefStore(p)
      <4>1. /\ refs' = [refs EXCEPT ![b] = reg[p] + 1] /\ freed' = freed
            /\ pc[p] = "ref2" /\ pc'[p] = "lock"
        BY <2>1, <3>5 DEF PushRefStore, CountStore
      <4>2. b \notin Items(list)
        BY <1>0, <2>1, <4>1 DEF FreshInv, Pushing
      <4> QED
        BY <4>1, <4>2
    <3>6. CASE ProducerDropLoad(p)
      BY <2>1, <3>6 DEF ProducerDropLoad, CountLoad
    <3>7. CASE ProducerDropStore(p)
      <4>1. /\ refs' = [refs EXCEPT ![b] = reg[p] + -1] /\ freed' = freed
            /\ pc[p] = "drop2" /\ pc'[p] = "dropcheck"
        BY <2>1, <3>7 DEF ProducerDropStore, CountStore
      <4>2. b \in Items(list) => reg[p] + -1 = 1
        BY <4>1
      <4> QED
        BY <4>1, <4>2
    <3>8. CASE ProducerDropCheck(p)
      <4>1. /\ refs' = refs
            /\ freed' = IF refs[b] = 0 THEN [freed EXCEPT ![b] = @ + 1] ELSE freed
            /\ pc[p] = "dropcheck" /\ pc'[p] = "init"
        BY <2>1, <3>8 DEF ProducerDropCheck, FreeIfZero
      <4> QED
        BY <4>1
    <3> QED
      BY <1>2, <2>7, <3>2, <3>3, <3>4, <3>5, <3>6, <3>7, <3>8 DEF Producer
  <2> QED
    BY <2>6, <2>7
<1> QED
  BY <1>1, <1>2

\* What is known of the counts of buffers that are queued holds throughout.
LEMMA CountHolds == Spec => []CountInv
<1>1. Init => CountInv
  <2> SUFFICES ASSUME Init PROVE Disjoint /\ TakenInv /\ AliveInv
    BY QueueInit DEF CountInv
  <2>1. Items(list) = {} /\ Items(taken) = {}
    BY DEF Init, Items
  <2>2. /\ \A p \in Producers : pc[p] = "init"
        /\ \A c \in Consumers : pc[c] = "empty"
        /\ freed = [b \in Buffers |-> 0]
    BY QueueAssumption DEF Init, Threads
  <2>3. TakenInv
    BY <2>2 DEF TakenInv, Detached, Popping, Claiming
  <2> QED
    BY <2>1, <2>2, <2>3 DEF Disjoint, AliveInv, Buffers
<1>2. CountInv /\ [Next]_vars => CountInv'
  <2> SUFFICES ASSUME CountInv, [Next]_vars PROVE CountInv'
    OBVIOUS
  <2>1. CASE Next
    BY <2>1, QueueStep, DisjointStep, TakenStep, AliveProducer, AliveConsumer DEF Next, CountInv
  <2>2. CASE UNCHANGED vars
    <3>1. Disjoint' /\ TakenInv' /\ AliveInv'
      BY <2>2 DEF vars, CountInv, Disjoint, TakenInv, AliveInv, Items
    <3> QED
      BY <2>2, <3>1, QueueStep DEF CountInv
  <2> QED
    BY <2>1, <2>2
<1> QED
  BY <1>1, <1>2, PTL DEF Spec

\* The reference push takes for the list, before it links, keeps every queued
\* buffer alive, for any number of producers and consumers and although no
\* count is updated atomically (queue.cpp:64).
THEOREM QueuedIsAlive == Spec => []QueuedAlive
<1>1. CountInv => QueuedAlive
  BY DEF CountInv, AliveInv, QueuedAlive
<1> QED
  BY <1>1, CountHolds, PTL

-----------------------------------------------------------------------------
(* The counter, as long as no two updates of it overlap.                   *)

\* how many of a kind of thread are at certain statements
HowMany(T, at) == Cardinality({u \in T : pc[u] \in at})

\* a producer that saw room and has not linked yet; one that has not counted
Admitted == {"ref", "ref2", "lock", "tail", "link"}
Linking == {"inc", "inc2"}

\* a thread between the load and the store of the counter
Storing == {"inc2", "dec2"}

\* Who passed the test of room counts as if it had linked already.
SizeInv ==
    ~sizeRaced =>
        /\ size = Len(list) - HowMany(Producers, Linking) + HowMany(Consumers, Detached)
        /\ Len(list) + HowMany(Producers, Admitted) <= MaxSize + Cardinality(Producers) - 1
        /\ \A t \in Threads : pc[t] \in Storing => reg[t] = size
        /\ \A t, u \in Threads : pc[t] \in Storing /\ pc[u] \in Storing => t = u

\* A step of one thread moves at most that one in or out of a set of positions.
LEMMA OneMoves ==
    ASSUME NEW T, IsFiniteSet(T), NEW at, NEW t \in T, \A u \in T \ {t} : pc'[u] = pc[u]
    PROVE  /\ HowMany(T, at) \in Nat
           /\ (pc[t] \in at <=> pc'[t] \in at) => HowMany(T, at)' = HowMany(T, at)
           /\ pc[t] \notin at /\ pc'[t] \in at => HowMany(T, at)' = HowMany(T, at) + 1
           /\ pc[t] \in at /\ pc'[t] \notin at => HowMany(T, at)' = HowMany(T, at) - 1
<1> DEFINE A == {u \in T : pc[u] \in at}
           B == {u \in T : pc'[u] \in at}
<1>1. IsFiniteSet(A) /\ IsFiniteSet(B) /\ Cardinality(A) \in Nat /\ Cardinality(B) \in Nat
  <2>1. A \subseteq T /\ B \subseteq T
    OBVIOUS
  <2> QED
    BY <2>1, FS_Subset, FS_CardinalityType
<1>2. HowMany(T, at) = Cardinality(A) /\ HowMany(T, at)' = Cardinality(B)
  BY DEF HowMany
<1>3. (pc[t] \in at <=> pc'[t] \in at) => B = A
  OBVIOUS
<1>4. pc[t] \notin at /\ pc'[t] \in at => B = A \cup {t} /\ t \notin A
  OBVIOUS
<1>5. pc[t] \in at /\ pc'[t] \notin at => B = A \ {t} /\ t \in A
  OBVIOUS
<1> HIDE DEF A, B
<1>6. pc[t] \notin at /\ pc'[t] \in at => Cardinality(B) = Cardinality(A) + 1
  BY <1>1, <1>4, FS_AddElement
<1>7. pc[t] \in at /\ pc'[t] \notin at => Cardinality(B) = Cardinality(A) - 1
  BY <1>1, <1>5, FS_RemoveElement
<1> QED
  BY <1>1, <1>2, <1>3, <1>6, <1>7

\* A producer is admitted or has linked, not both.
LEMMA TwoGroups ==
    ASSUME NEW f
    PROVE  Cardinality({u \in Producers : f[u] \in Linking})
               + Cardinality({u \in Producers : f[u] \in Admitted}) <= Cardinality(Producers)
<1> DEFINE T == Producers
           A == {u \in T : f[u] \in Linking}
           B == {u \in T : f[u] \in Admitted}
<1>1. A \subseteq T /\ B \subseteq T /\ A \cup B \subseteq T /\ A \cap B = {}
      /\ IsFiniteSet(T)
  BY FiniteThreads DEF Linking, Admitted
<1> HIDE DEF A, B, T
<1>2. /\ IsFiniteSet(A) /\ IsFiniteSet(B) /\ Cardinality(A \cup B) <= Cardinality(T)
      /\ Cardinality(A) \in Nat /\ Cardinality(B) \in Nat
  BY <1>1, FS_Subset, FS_CardinalityType
<1>3. Cardinality(A \cup B) = Cardinality(A) + Cardinality(B) - Cardinality(A \cap B)
  BY <1>2, FS_Union
<1>4. Cardinality(A \cap B) = 0
  BY <1>1, FS_EmptySet
<1>5. Cardinality(A) + Cardinality(B) <= Cardinality(T)
  <2>1. Cardinality(T) \in Nat
    BY <1>1, FS_CardinalityType
  <2> QED
    BY <1>2, <1>3, <1>4, <2>1
<1> QED
  BY <1>5 DEF A, B, T

\* A step of push, by what it does to the counter and to the list.
LEMMA ProducerSize ==
    ASSUME QueueInv, SizeInv, NEW p \in Producers, Producer(p)
    PROVE  SizeInv'
<1> USE QueueAssumption, FiniteThreads
<1> SUFFICES ASSUME ~sizeRaced' PROVE SizeInv'
  BY DEF SizeInv
<1> DEFINE I == HowMany(Producers, Linking)
           A == HowMany(Producers, Admitted)
           D == HowMany(Consumers, Detached)
<1>0. /\ TypeOK /\ p \in Threads /\ p \notin Consumers
      /\ \A u \in Threads \ {p} : pc'[u] = pc[u] /\ reg'[u] = reg[u]
      /\ Producers \subseteq Threads /\ Consumers \subseteq Threads \ {p}
  BY ProducerOnly DEF QueueInv, Threads, Only
<1>1. D' = D /\ D \in Nat
  BY <1>0, FS_Subset, FS_CardinalityType DEF HowMany
<1>2. /\ I \in Nat /\ A \in Nat /\ Cardinality(Producers) \in Nat
      /\ (pc[p] \in Linking <=> pc'[p] \in Linking) => I' = I
      /\ pc[p] \notin Linking /\ pc'[p] \in Linking => I' = I + 1
      /\ pc[p] \in Linking /\ pc'[p] \notin Linking => I' = I - 1
      /\ (pc[p] \in Admitted <=> pc'[p] \in Admitted) => A' = A
      /\ pc[p] \notin Admitted /\ pc'[p] \in Admitted => A' = A + 1
      /\ pc[p] \in Admitted /\ pc'[p] \notin Admitted => A' = A - 1
  <2>1. \A u \in Producers \ {p} : pc'[u] = pc[u]
    BY <1>0
  <2>2. \A at : /\ HowMany(Producers, at) \in Nat
                /\ (pc[p] \in at <=> pc'[p] \in at) =>
                       HowMany(Producers, at)' = HowMany(Producers, at)
                /\ pc[p] \notin at /\ pc'[p] \in at =>
                       HowMany(Producers, at)' = HowMany(Producers, at) + 1
                /\ pc[p] \in at /\ pc'[p] \notin at =>
                       HowMany(Producers, at)' = HowMany(Producers, at) - 1
    BY <2>1, OneMoves
  <2> QED
    BY <2>2, FS_CardinalityType
<1>3. I + A <= Cardinality(Producers) /\ I' + A' <= Cardinality(Producers)
  BY TwoGroups DEF HowMany
<1>4. ~sizeRaced => /\ size = Len(list) - I + D
                    /\ Len(list) + A <= MaxSize + Cardinality(Producers) - 1
                    /\ \A t \in Threads : pc[t] \in Storing => reg[t] = size
                    /\ \A t, u \in Threads : pc[t] \in Storing /\ pc[u] \in Storing => t = u
  BY DEF SizeInv
<1>5. SUFFICES /\ size' = Len(list)' - I' + D'
               /\ Len(list)' + A' <= MaxSize + Cardinality(Producers) - 1
               /\ \A t \in Threads : pc'[t] \in Storing => reg'[t] = size'
               /\ \A t, u \in Threads : pc'[t] \in Storing /\ pc'[u] \in Storing => t = u
  BY DEF SizeInv
<1>6. size \in Int /\ Len(list) \in Nat /\ reg \in [Threads -> Int]
      /\ pc \in [Threads -> ProducerPCs \cup ConsumerPCs]
  BY <1>0 DEF TypeOK
<1>b. ~sizeRaced => /\ size = Len(list) - I + D
                    /\ Len(list) + A <= MaxSize + Cardinality(Producers) - 1
  BY <1>4
<1>t. size \in Int /\ Len(list) \in Nat /\ MaxSize \in Nat
  BY <1>6
<1> HIDE DEF I, A, D
<1>7. CASE /\ UNCHANGED <<list, size, sizeRaced>>
           /\ pc[p] \in Linking <=> pc'[p] \in Linking
           /\ pc[p] \in Admitted <=> pc'[p] \in Admitted
           /\ pc[p] \notin Storing /\ pc'[p] \notin Storing
  BY <1>0, <1>1, <1>2, <1>4, <1>6, <1>7
<1>8. CASE Allocate(p) \/ PushLock(p) \/ FindTail(p)
  <2>1. /\ UNCHANGED <<list, size, sizeRaced>>
        /\ pc[p] \in Linking <=> pc'[p] \in Linking
        /\ pc[p] \in Admitted <=> pc'[p] \in Admitted
        /\ pc[p] \notin Storing /\ pc'[p] \notin Storing
    BY <1>0, <1>6, <1>8 DEF Allocate, PushLock, Lock, FindTail, Goto, queueVars, Linking, Admitted, Storing
  <2> QED
    BY <2>1, <1>7
<1>9. CASE \/ PushRefLoad(p) \/ PushRefStore(p)
           \/ ProducerDropLoad(p) \/ ProducerDropStore(p) \/ ProducerDropCheck(p)
  <2>1. /\ UNCHANGED <<list, size, sizeRaced>>
        /\ pc[p] \in Linking <=> pc'[p] \in Linking
        /\ pc[p] \in Admitted <=> pc'[p] \in Admitted
        /\ pc[p] \notin Storing /\ pc'[p] \notin Storing
    BY <1>0, <1>6, <1>9 DEF PushRefLoad, PushRefStore, ProducerDropLoad, ProducerDropStore,
          ProducerDropCheck, CountLoad, CountStore, FreeIfZero, Goto, queueVars, Linking,
          Admitted, Storing
  <2> QED
    BY <2>1, <1>7
<1>10. CASE SeeRoom(p)
  <2>1. /\ UNCHANGED <<list, size, sizeRaced>> /\ size < MaxSize
        /\ pc[p] = "full" /\ pc'[p] = "ref"
    BY <1>0, <1>6, <1>10 DEF SeeRoom, Goto, queueVars, Full
  <2>2. I' = I /\ A' = A + 1 /\ pc[p] \notin Storing /\ pc'[p] \notin Storing
    BY <1>2, <2>1 DEF Linking, Admitted, Storing
  <2>3. /\ size' = Len(list)' - I' + D'
        /\ Len(list)' + A' <= MaxSize + Cardinality(Producers) - 1
    BY <1>1, <1>2, <1>3, <1>b, <1>t, <2>1, <2>2
  <2>4. \A t \in Threads : pc'[t] \in Storing => pc[t] \in Storing /\ t # p
    BY <1>0, <2>2
  <2> QED
    BY <1>0, <1>4, <2>1, <2>3, <2>4
<1>11. CASE Link(p)
  <2>1. /\ UNCHANGED <<size, sizeRaced>> /\ list' = Append(list, cur[p])
        /\ list \in Seq(Buffers) /\ cur[p] \in Buffers
        /\ pc[p] = "link" /\ pc'[p] = "inc"
    BY <1>0, <1>6, <1>11, LinkEffect DEF Link, Goto
  <2>2. I' = I + 1 /\ A' = A - 1 /\ pc[p] \notin Storing /\ pc'[p] \notin Storing
    BY <1>2, <2>1 DEF Linking, Admitted, Storing
  <2>3. Len(list)' = Len(list) + 1
    BY <2>1
  <2>6. UNCHANGED <<size, sizeRaced>>
    BY <2>1
  <2>4. /\ size' = Len(list)' - I' + D'
        /\ Len(list)' + A' <= MaxSize + Cardinality(Producers) - 1
    BY <1>1, <1>2, <1>b, <1>t, <2>2, <2>3, <2>6
  <2>5. \A t \in Threads : pc'[t] \in Storing => pc[t] \in Storing /\ t # p
    BY <1>0, <2>2
  <2> QED
    BY <1>0, <1>4, <2>4, <2>5, <2>6
<1>12. CASE IncLoad(p)
  <2>0. ~sizeRaced /\ ~Resizing(p)
    BY <1>12, Zenon DEF IncLoad
  <2>1. /\ UNCHANGED <<list, size>> /\ reg'[p] = size
        /\ pc[p] = "inc" /\ pc'[p] = "inc2"
    BY <1>0, <1>6, <1>12 DEF IncLoad, Goto, queueVars
  <2>2. I' = I /\ A' = A
    BY <1>2, <2>1 DEF Linking, Admitted
  <2>3. \A t \in Threads : pc'[t] \in Storing => t = p
    BY <1>0, <2>0, <2>1 DEF Resizing, Storing
  <2>4. /\ size' = Len(list)' - I' + D'
        /\ Len(list)' + A' <= MaxSize + Cardinality(Producers) - 1
    BY <1>1, <1>2, <1>b, <1>t, <2>0, <2>1, <2>2, <2>3
  <2> QED
    BY <1>0, <2>1, <2>3, <2>4
<1>13. CASE IncStore(p)
  <2>1. /\ UNCHANGED <<list, sizeRaced>> /\ size' = reg[p] + 1
        /\ pc[p] = "inc2" /\ pc'[p] \in {"init", "drop"}
    BY <1>0, <1>6, <1>13 DEF IncStore, PushReturns, Goto
  <2>2. I' = I - 1 /\ A' = A /\ pc[p] \in Storing /\ pc'[p] \notin Storing
    BY <1>2, <2>1 DEF Linking, Admitted, Storing
  <2>3. reg[p] = size /\ \A t \in Threads : pc'[t] \notin Storing
    BY <1>0, <1>4, <2>1, <2>2
  <2>5. size' = size + 1 /\ ~sizeRaced /\ UNCHANGED list
    BY <2>1, <2>3
  <2>4. /\ size' = Len(list)' - I' + D'
        /\ Len(list)' + A' <= MaxSize + Cardinality(Producers) - 1
    BY <1>1, <1>2, <1>b, <1>t, <2>5, <2>2
  <2> QED
    BY <1>0, <2>1, <2>3, <2>4
<1> QED
  BY <1>8, <1>9, <1>10, <1>11, <1>12, <1>13 DEF Producer

\* A step of pop.
LEMMA ConsumerSize ==
    ASSUME QueueInv, SizeInv, NEW c \in Consumers, Consumer(c)
    PROVE  SizeInv'
<1> USE QueueAssumption, FiniteThreads
<1> SUFFICES ASSUME ~sizeRaced' PROVE SizeInv'
  BY DEF SizeInv
<1> DEFINE I == HowMany(Producers, Linking)
           A == HowMany(Producers, Admitted)
           D == HowMany(Consumers, Detached)
<1>0. /\ TypeOK /\ c \in Threads /\ c \notin Producers
      /\ \A u \in Threads \ {c} : pc'[u] = pc[u] /\ reg'[u] = reg[u]
      /\ Consumers \subseteq Threads /\ Producers \subseteq Threads \ {c}
  BY ConsumerOnly DEF QueueInv, Threads, Only
<1>1. /\ I' = I /\ I \in Nat /\ A' = A /\ A \in Nat /\ Cardinality(Producers) \in Nat
  BY <1>0, FS_Subset, FS_CardinalityType DEF HowMany
<1>2. /\ D \in Nat
      /\ (pc[c] \in Detached <=> pc'[c] \in Detached) => D' = D
      /\ pc[c] \notin Detached /\ pc'[c] \in Detached => D' = D + 1
      /\ pc[c] \in Detached /\ pc'[c] \notin Detached => D' = D - 1
  <2>1. \A u \in Consumers \ {c} : pc'[u] = pc[u]
    BY <1>0
  <2> QED
    BY <2>1, OneMoves
<1>3. Detached = {"ref", "ref2", "unref", "unref2", "check", "dec", "dec2"}
  BY DEF Detached, Popping, Claiming
<1>4. ~sizeRaced => /\ size = Len(list) - I + D
                    /\ Len(list) + A <= MaxSize + Cardinality(Producers) - 1
                    /\ \A t \in Threads : pc[t] \in Storing => reg[t] = size
                    /\ \A t, u \in Threads : pc[t] \in Storing /\ pc[u] \in Storing => t = u
  BY DEF SizeInv
<1>5. SUFFICES /\ size' = Len(list)' - I' + D'
               /\ Len(list)' + A' <= MaxSize + Cardinality(Producers) - 1
               /\ \A t \in Threads : pc'[t] \in Storing => reg'[t] = size'
               /\ \A t, u \in Threads : pc'[t] \in Storing /\ pc'[u] \in Storing => t = u
  BY DEF SizeInv
<1>6. size \in Int /\ Len(list) \in Nat /\ reg \in [Threads -> Int]
      /\ pc \in [Threads -> ProducerPCs \cup ConsumerPCs]
  BY <1>0 DEF TypeOK
<1>b. ~sizeRaced => /\ size = Len(list) - I + D
                    /\ Len(list) + A <= MaxSize + Cardinality(Producers) - 1
  BY <1>4
<1>t. size \in Int /\ Len(list) \in Nat /\ MaxSize \in Nat
  BY <1>6
<1> HIDE DEF I, A, D
<1>7. CASE /\ UNCHANGED <<list, size, sizeRaced>>
           /\ pc[c] \in Detached <=> pc'[c] \in Detached
           /\ pc[c] \notin Storing /\ pc'[c] \notin Storing
  BY <1>0, <1>1, <1>2, <1>4, <1>6, <1>7
<1>8. CASE SeeElement(c) \/ PopLock(c) \/ ReadHead(c)
  <2>1. /\ UNCHANGED <<list, size, sizeRaced>>
        /\ pc[c] \in Detached <=> pc'[c] \in Detached
        /\ pc[c] \notin Storing /\ pc'[c] \notin Storing
    BY <1>0, <1>3, <1>6, <1>8 DEF SeeElement, PopLock, Lock, ReadHead, Goto, queueVars, Storing
  <2> QED
    BY <2>1, <1>7
<1>9. CASE \/ PopRefLoad(c) \/ PopRefStore(c)
           \/ PopUnrefLoad(c) \/ PopUnrefStore(c) \/ PopUnrefCheck(c)
  <2>1. /\ UNCHANGED <<list, size, sizeRaced>>
        /\ pc[c] \in Detached <=> pc'[c] \in Detached
        /\ pc[c] \notin Storing /\ pc'[c] \notin Storing
    BY <1>0, <1>3, <1>6, <1>9 DEF PopRefLoad, PopRefStore, PopUnrefLoad, PopUnrefStore,
          PopUnrefCheck, CountLoad, CountStore, FreeIfZero, Goto, queueVars, Storing
  <2> QED
    BY <2>1, <1>7
<1>10. CASE ConsumerDropLoad(c) \/ ConsumerDropStore(c) \/ ConsumerDropCheck(c)
  <2>1. /\ UNCHANGED <<list, size, sizeRaced>>
        /\ pc[c] \in Detached <=> pc'[c] \in Detached
        /\ pc[c] \notin Storing /\ pc'[c] \notin Storing
    BY <1>0, <1>3, <1>6, <1>10 DEF ConsumerDropLoad, ConsumerDropStore, ConsumerDropCheck,
          CountLoad, CountStore, FreeIfZero, Goto, queueVars, Storing
  <2> QED
    BY <2>1, <1>7
<1>11. CASE Detach(c)
  <2>1. /\ UNCHANGED <<size, sizeRaced>> /\ list # <<>> /\ list' = Tail(list)
        /\ list \in Seq(Buffers) /\ pc[c] = "detach" /\ pc'[c] = "ref"
    BY <1>0, <1>6, <1>11, DetachEffect DEF Detach, Goto
  <2>2. D' = D + 1 /\ pc[c] \notin Storing /\ pc'[c] \notin Storing
    BY <1>2, <1>3, <2>1 DEF Storing
  <2>3. Len(list)' = Len(list) - 1
    BY <2>1
  <2>4. UNCHANGED <<size, sizeRaced>>
    BY <2>1
  <2>5. /\ size' = Len(list)' - I' + D'
        /\ Len(list)' + A' <= MaxSize + Cardinality(Producers) - 1
    BY <1>1, <1>2, <1>b, <1>t, <2>2, <2>3, <2>4
  <2>6. \A t \in Threads : pc'[t] \in Storing => pc[t] \in Storing /\ t # c
    BY <1>0, <2>2
  <2> QED
    BY <1>0, <1>4, <2>4, <2>5, <2>6
<1>12. CASE DecLoad(c)
  <2>0. ~sizeRaced /\ ~Resizing(c)
    BY <1>12, Zenon DEF DecLoad
  <2>1. /\ UNCHANGED <<list, size>> /\ reg'[c] = size
        /\ pc[c] = "dec" /\ pc'[c] = "dec2"
    BY <1>0, <1>6, <1>12 DEF DecLoad, Goto, queueVars
  <2>2. D' = D
    BY <1>2, <1>3, <2>1
  <2>3. \A t \in Threads : pc'[t] \in Storing => t = c
    BY <1>0, <2>0, <2>1 DEF Resizing, Storing
  <2>4. /\ size' = Len(list)' - I' + D'
        /\ Len(list)' + A' <= MaxSize + Cardinality(Producers) - 1
    BY <1>1, <1>2, <1>b, <1>t, <2>0, <2>1, <2>2
  <2> QED
    BY <1>0, <2>1, <2>3, <2>4
<1>13. CASE DecStore(c)
  <2>1. /\ UNCHANGED <<list, sizeRaced>> /\ size' = reg[c] - 1
        /\ pc[c] = "dec2" /\ pc'[c] = "drop"
    BY <1>0, <1>6, <1>13 DEF DecStore, Goto
  <2>2. D' = D - 1 /\ pc[c] \in Storing /\ pc'[c] \notin Storing
    BY <1>2, <1>3, <2>1 DEF Storing
  <2>3. reg[c] = size /\ \A t \in Threads : pc'[t] \notin Storing
    BY <1>0, <1>4, <2>1, <2>2
  <2>5. size' = size - 1 /\ ~sizeRaced /\ UNCHANGED list
    BY <2>1, <2>3
  <2>4. /\ size' = Len(list)' - I' + D'
        /\ Len(list)' + A' <= MaxSize + Cardinality(Producers) - 1
    BY <1>1, <1>2, <1>b, <1>t, <2>5, <2>2
  <2> QED
    BY <1>0, <2>1, <2>3, <2>4
<1> QED
  BY <1>8, <1>9, <1>10, <1>11, <1>12, <1>13 DEF Consumer

\* Until two updates overlap the counter is exact at every statement, and the
\* list holds at most one element too many for each further producer
\* (queue.cpp:61, :92 and :149).
THEOREM SizeIsExact == Spec => []SizeExact
<1> USE FiniteThreads, QueueAssumption
<1>1. Init => SizeInv
  <2> SUFFICES ASSUME Init PROVE SizeInv
    OBVIOUS
  <2>1. /\ {u \in Producers : pc[u] \in Linking} = {}
        /\ {u \in Producers : pc[u] \in Admitted} = {}
        /\ {u \in Consumers : pc[u] \in Detached} = {}
        /\ \A t \in Threads : pc[t] \notin Storing
    BY DEF Init, Threads, Linking, Admitted, Detached, Popping, Claiming, Storing
  <2>2. /\ HowMany(Producers, Linking) = 0 /\ HowMany(Producers, Admitted) = 0
        /\ HowMany(Consumers, Detached) = 0 /\ Cardinality(Producers) \in Nat
    BY <2>1, FS_EmptySet, FS_CardinalityType DEF HowMany
  <2>3. size = 0 /\ Len(list) = 0
    BY DEF Init
  <2> QED
    BY <2>1, <2>2, <2>3 DEF SizeInv
<1>2. QueueInv /\ SizeInv /\ [Next]_vars => SizeInv'
  <2> SUFFICES ASSUME QueueInv, SizeInv, [Next]_vars PROVE SizeInv'
    OBVIOUS
  <2>1. ASSUME NEW p \in Producers, Producer(p) PROVE SizeInv'
    BY <2>1, ProducerSize
  <2>2. ASSUME NEW c \in Consumers, Consumer(c) PROVE SizeInv'
    BY <2>2, ConsumerSize
  <2>3. CASE UNCHANGED vars
    BY <2>3 DEF vars, SizeInv, HowMany
  <2> QED
    BY <2>1, <2>2, <2>3 DEF Next
<1>3. QueueInv /\ SizeInv => SizeExact
  <2> SUFFICES ASSUME QueueInv, SizeInv, ~sizeRaced PROVE SizeExact
    BY DEF SizeExact
  <2>1. Cardinality({p \in Producers : pc[p] \in {"inc", "inc2"}}) = HowMany(Producers, Linking)
    BY DEF HowMany, Linking
  <2>2. Cardinality({c \in Consumers : pc[c] \in Detached}) = HowMany(Consumers, Detached)
    BY DEF HowMany
  <2>3. /\ HowMany(Producers, Admitted) \in Nat /\ Cardinality(Producers) \in Nat
        /\ Len(list) \in Nat
    BY FS_Subset, FS_CardinalityType DEF HowMany, QueueInv, TypeOK
  <2>4. Len(list) <= MaxSize + Cardinality(Producers) - 1
    BY <2>3 DEF SizeInv
  <2> QED
    BY <2>1, <2>2, <2>4 DEF SizeExact, SizeInv
<1> QED
  BY <1>1, <1>2, <1>3, QueueInit, QueueStep, PTL DEF Spec

-----------------------------------------------------------------------------
(* The counts of a buffer, as long as no two updates of them overlap.      *)

\* the thread has the buffer: a producer from the allocation to its drop, a
\* consumer from the removal to its drop
Has(t, b) ==
    /\ cur[t] = b
    /\ pc[t] \in IF t \in Producers THEN ProducerPCs \ {"init"} ELSE Counting

\* the references a thread that has a buffer accounts for: its own, and the
\* list's before the link and after the removal
Share(t) == IF pc[t] \in {"lock", "tail", "link", "unref", "unref2"} THEN 2
            ELSE IF pc[t] = "dropcheck" THEN 0 ELSE 1

\* a report whose producer has forgotten it, and its reference
Kept(b) == b[1] \in Keepers /\ b[2] <= made[b[1]]

OwnerShare(b) == IF Has(b[1], b) THEN Share(b[1]) ELSE IF Kept(b) THEN 1 ELSE 0
ListShare(b) == IF b \in Items(list) THEN 1 ELSE 0

\* the statements between the first and the last access of an update, and those
\* between the load and the store
Changing == {"ref2", "unref2", "check", "drop2", "dropcheck"}
Loaded == {"ref2", "unref2", "drop2"}

RightCount(b) ==
    /\ (\A c \in Consumers : ~Has(c, b)) => refs[b] = ListShare(b) + OwnerShare(b)
    /\ \A c \in Consumers :
           Has(c, b) => refs[b] = ListShare(b) + OwnerShare(b) + Share(c)

OneByOne(b) ==
    /\ \A t, u \in Threads :
           Has(t, b) /\ Has(u, b) /\ pc[t] \in Changing /\ pc[u] \in Changing => t = u
    /\ \A t \in Threads : Has(t, b) /\ pc[t] \in Loaded => reg[t] = refs[b]

\* the last to have a buffer frees it, unless its producer keeps a reference
FreedLast(b) ==
    /\ freed[b] \in {0, 1}
    /\ freed[b] = 1 => /\ b \notin Items(list) /\ b[1] \notin Keepers
                       /\ \A t \in Threads : ~Has(t, b)
    /\ b \in Items(taken) /\ (\A t \in Threads : ~Has(t, b)) =>
           b[1] \in Keepers \/ freed[b] = 1

OneUser == \A c, d \in Consumers : Has(c, cur[c]) /\ Has(d, cur[c]) => c = d

RefInv ==
    /\ OneUser
    /\ \A b \in Buffers \ refRaced : RightCount(b) /\ OneByOne(b) /\ FreedLast(b)

-----------------------------------------------------------------------------
\* Who has what, among the threads that are not at this step.
LEMMA HasFrame ==
    ASSUME NEW t \in Threads, Only(t), NEW b
    PROVE  \A u \in Threads \ {t} : /\ Has(u, b)' <=> Has(u, b)
                                    /\ Share(u)' = Share(u)
                                    /\ pc'[u] = pc[u] /\ reg'[u] = reg[u]
  BY DEF Only, Has, Share

\* A consumer has only what was taken from the list, a producer only what it
\* made last.
LEMMA WhoHas ==
    ASSUME CountInv
    PROVE  /\ \A c \in Consumers : c \notin Producers /\ c \in Threads
           /\ \A c \in Consumers : \A b : Has(c, b) => b \in Items(taken) /\ b \notin Items(list)
           /\ \A p \in Producers : \A b : Has(p, b) => b = <<p, made[p]>> /\ b[1] = p
           /\ \A p \in Producers : pc[p] # "init" => Has(p, cur[p])
<1> USE QueueAssumption DEF Threads
<1>1. \A c \in Consumers : c \notin Producers /\ c \in Threads
  OBVIOUS
<1>2. ASSUME NEW c \in Consumers, NEW b, Has(c, b)
      PROVE  b \in Items(taken) /\ b \notin Items(list)
  BY <1>1, <1>2 DEF Has, CountInv, TakenInv, Counting, Disjoint
<1>3. ASSUME NEW p \in Producers, NEW b, Has(p, b)
      PROVE  b = <<p, made[p]>> /\ b[1] = p
  BY <1>3 DEF Has, CountInv, QueueInv, FreshInv
<1>4. ASSUME NEW p \in Producers, pc[p] # "init"
      PROVE  Has(p, cur[p])
  BY <1>4 DEF Has, CountInv, QueueInv, TypeOK
<1> QED
  BY <1>1, <1>2, <1>3, <1>4

Right(b) == RightCount(b) /\ OneByOne(b) /\ FreedLast(b)

\* A step does nothing to a buffer its thread does not have.
LEMMA Untouched ==
    ASSUME CountInv, NEW t \in Threads, Only(t), NEW b \in Buffers, Right(b),
           ~Has(t, b), ~Has(t, b)', refs'[b] = refs[b], freed'[b] = freed[b],
           b \in Items(list)' <=> b \in Items(list),
           b \in Items(taken)' <=> b \in Items(taken), Kept(b)' <=> Kept(b)
    PROVE  Right(b)'
<1>1. \A u \in Threads : Has(u, b)' <=> Has(u, b)
  BY HasFrame
<1>2. \A u \in Threads : Has(u, b) => /\ Share(u)' = Share(u)
                                      /\ pc'[u] = pc[u] /\ reg'[u] = reg[u]
  BY HasFrame
<1>3. b[1] \in Threads /\ Consumers \subseteq Threads
  BY DEF Buffers, Threads
<1>4. OwnerShare(b)' = OwnerShare(b) /\ ListShare(b)' = ListShare(b)
  BY <1>1, <1>2, <1>3 DEF OwnerShare, ListShare
<1>5. RightCount(b)'
  BY <1>1, <1>2, <1>3, <1>4 DEF RightCount, Right
<1>6. OneByOne(b)'
  BY <1>1, <1>2 DEF OneByOne, Right
<1>7. FreedLast(b)'
  BY <1>1 DEF FreedLast, Right
<1> QED
  BY <1>5, <1>6, <1>7 DEF Right

\* A step of a thread that keeps its buffer changes the count by as much as
\* what it and the list account for.
LEMMA Keeps ==
    ASSUME CountInv, OneUser, NEW t \in Threads, Only(t), NEW b \in Buffers, Right(b),
           Has(t, b), Has(t, b)', NEW d \in Int, refs'[b] = refs[b] + d,
           ListShare(b)' + Share(t)' = ListShare(b) + Share(t) + d,
           t \in Consumers => ListShare(b)' = ListShare(b),
           freed'[b] = freed[b], made' = made
    PROVE  RightCount(b)' /\ FreedLast(b)'
<1>0. /\ \A u \in Threads \ {t} : (Has(u, b)' <=> Has(u, b)) /\ Share(u)' = Share(u)
      /\ b[1] \in Producers /\ Consumers \subseteq Threads /\ Producers \subseteq Threads
      /\ refs[b] \in Int
      /\ \A u \in Threads : Share(u) \in Int /\ Share(u)' \in Int
      /\ ListShare(b) \in Int /\ ListShare(b)' \in Int
  <2>1. refs[b] \in Int
    BY DEF CountInv, QueueInv, TypeOK
  <2>2. \A u \in Threads : Share(u) \in Int /\ Share(u)' \in Int
    BY DEF Share
  <2>3. ListShare(b) \in Int /\ ListShare(b)' \in Int
    BY DEF ListShare
  <2> QED
    BY <2>1, <2>2, <2>3, HasFrame DEF Buffers, Threads
<1>1. FreedLast(b)'
  BY DEF FreedLast, Right
<1>2. CASE t \in Producers
  <2>1. /\ t = b[1] /\ \A c \in Consumers : c # t
    BY <1>2, WhoHas
  <2>2. OwnerShare(b) = Share(t) /\ OwnerShare(b)' = Share(t)'
    BY <2>1 DEF OwnerShare
  <2>3. \A c \in Consumers : (Has(c, b)' <=> Has(c, b)) /\ Share(c)' = Share(c)
    BY <1>0, <2>1
  <2> QED
    BY <1>0, <1>1, <2>2, <2>3 DEF RightCount, Right
<1>3. CASE t \in Consumers
  <2>1. t # b[1] /\ \A c \in Consumers \ {t} : ~Has(c, b) /\ ~Has(c, b)'
    BY <1>0, <1>3, WhoHas DEF OneUser, Has
  <2>2. OwnerShare(b)' = OwnerShare(b) /\ OwnerShare(b) \in Int
    BY <1>0, <2>1 DEF OwnerShare, Kept
  <2>3. refs[b] = ListShare(b) + OwnerShare(b) + Share(t)
    BY <1>3 DEF RightCount, Right
  <2>4. refs'[b] = ListShare(b)' + OwnerShare(b)' + Share(t)'
    BY <1>0, <1>3, <2>2, <2>3
  <2> QED
    BY <1>1, <1>3, <2>1, <2>4 DEF RightCount
<1> QED
  BY <1>2, <1>3 DEF Threads

\* Statements outside the updates of the count.
LEMMA KeepsQuiet ==
    ASSUME CountInv, OneUser, NEW t \in Threads, Only(t), NEW b \in Buffers, Right(b),
           Has(t, b), Has(t, b)', refs'[b] = refs[b], freed'[b] = freed[b], made' = made,
           ListShare(b)' + Share(t)' = ListShare(b) + Share(t),
           t \in Consumers => ListShare(b)' = ListShare(b),
           pc'[t] \notin Changing
    PROVE  Right(b)'
<1>1. RightCount(b)' /\ FreedLast(b)'
  <2>1. 0 \in Int /\ refs'[b] = refs[b] + 0
        /\ ListShare(b)' + Share(t)' = ListShare(b) + Share(t) + 0
    BY DEF CountInv, QueueInv, TypeOK, ListShare, Share
  <2> QED
    BY <2>1, Keeps
<1>2. pc'[t] \notin Loaded
  BY DEF Changing, Loaded
<1>3. OneByOne(b)'
  BY <1>2, HasFrame DEF OneByOne, Right
<1> QED
  BY <1>1, <1>3 DEF Right

\* The load of the count: unless it overlaps with another update, the register
\* holds the count.
LEMMA KeepsLoad ==
    ASSUME CountInv, OneUser, NEW t \in Threads, Only(t), NEW b \in Buffers, Right(b),
           Has(t, b), Has(t, b)', NEW from, NEW to, CountLoad(t, from, to), b \notin refRaced',
           Share(t)' = Share(t)
    PROVE  Right(b)'
<1>1. /\ cur[t] = b /\ refs' = refs /\ freed' = freed /\ list' = list /\ made' = made
      /\ ~Updating(b, t) /\ reg'[t] = refs[b]
  BY DEF Has, CountLoad, queueVars, CountInv, QueueInv, TypeOK
<1>2. RightCount(b)' /\ FreedLast(b)'
  <2>1. 0 \in Int /\ refs'[b] = refs[b] + 0
        /\ ListShare(b)' + Share(t)' = ListShare(b) + Share(t) + 0 /\ ListShare(b)' = ListShare(b)
    BY <1>1 DEF CountInv, QueueInv, TypeOK, ListShare, Share, Items
  <2> QED
    BY <1>1, <2>1, Keeps
<1>3. \A u \in Threads \ {t} : Has(u, b)' => pc'[u] \notin Changing
  BY <1>1, HasFrame DEF Updating, Changing, Has
<1>4. OneByOne(b)'
  BY <1>1, <1>3, HasFrame DEF OneByOne, Right, Changing, Loaded
<1> QED
  BY <1>2, <1>4 DEF Right

\* The store of the count.
LEMMA KeepsStore ==
    ASSUME CountInv, OneUser, NEW t \in Threads, Only(t), NEW b \in Buffers, Right(b),
           Has(t, b), Has(t, b)', NEW from, NEW to, NEW d \in Int, CountStore(t, from, to, d),
           from \in Loaded, pc'[t] \notin Loaded, Share(t)' = Share(t) + d
    PROVE  Right(b)'
<1>1. /\ cur[t] = b /\ freed' = freed /\ list' = list /\ made' = made /\ pc[t] \in Loaded
      /\ refs'[b] = reg[t] + d
  BY DEF Has, CountStore, Goto, queueVars, CountInv, QueueInv, TypeOK
<1>2. refs'[b] = refs[b] + d
  BY <1>1 DEF Right, OneByOne
<1>3. RightCount(b)' /\ FreedLast(b)'
  <2>1. ListShare(b)' + Share(t)' = ListShare(b) + Share(t) + d /\ ListShare(b)' = ListShare(b)
    BY <1>1 DEF ListShare, Share, Items
  <2> QED
    BY <1>1, <1>2, <2>1, Keeps
<1>4. \A u \in Threads \ {t} : Has(u, b)' => pc'[u] \notin Changing
  BY <1>1, HasFrame DEF OneByOne, Right, Changing, Loaded
<1>5. OneByOne(b)'
  BY <1>4 DEF OneByOne, Changing, Loaded
<1> QED
  BY <1>3, <1>5 DEF Right

\* The last statement of BUFFER_UNREF: who leaves a buffer nobody else has, and
\* that is in no list, frees it.
LEMMA Leaves ==
    ASSUME CountInv, OneUser, NEW t \in Threads, Only(t), NEW b \in Buffers, Right(b),
           NEW to, FreeIfZero(t, "dropcheck", to), Has(t, b), ~Has(t, b)'
    PROVE  Right(b)'
<1>0. /\ cur[t] = b /\ refs' = refs /\ list' = list /\ taken' = taken /\ made' = made
      /\ pc[t] = "dropcheck" /\ Share(t) = 0
      /\ freed'[b] = IF refs[b] = 0 THEN freed[b] + 1 ELSE freed[b]
  BY DEF FreeIfZero, Goto, queueVars, Has, Share, CountInv, QueueInv, TypeOK
<1>1. /\ \A u \in Threads \ {t} : /\ Has(u, b)' <=> Has(u, b)
                                  /\ Share(u)' = Share(u)
                                  /\ pc'[u] = pc[u] /\ reg'[u] = reg[u]
      /\ ~Has(t, b)'
  BY HasFrame
<1>2. freed[b] = 0
  BY DEF Right, FreedLast
<1>3. ListShare(b)' = ListShare(b) /\ ListShare(b) \in {0, 1} /\ refs[b] \in Int
  BY <1>0 DEF ListShare, Items, CountInv, QueueInv, TypeOK
<1>4. OneByOne(b)'
  BY <1>0, <1>1 DEF OneByOne, Right
<1>5. \A u \in Threads \ {t} : Has(u, b) => Share(u) \in {1, 2}
  <2> SUFFICES ASSUME NEW u \in Threads \ {t}, Has(u, b) PROVE Share(u) \in {1, 2}
    OBVIOUS
  <2>1. pc[u] # "dropcheck"
    BY <1>0 DEF Right, OneByOne, Changing
  <2> QED
    BY <2>1 DEF Share
<1>6. b[1] \in Threads /\ b[1] \in Producers /\ Consumers \subseteq Threads
  BY DEF Buffers, Threads
<1>7. CASE t \in Producers
  <2>1. /\ t = b[1] /\ \A c \in Consumers : c # t
    BY <1>7, WhoHas
  <2>2. OwnerShare(b) = 0 /\ OwnerShare(b)' = 0 /\ b[1] \notin Keepers
    <3>1. b[1] \notin Keepers
      BY <1>0, <2>1 DEF CountInv, QueueInv, CurInv
    <3> QED
      BY <1>0, <1>1, <2>1, <3>1 DEF OwnerShare, Kept
  <2>3. RightCount(b)'
    BY <1>0, <1>1, <1>3, <1>6, <2>1, <2>2 DEF RightCount, Right
  <2>4. (\A c \in Consumers : ~Has(c, b)) => refs[b] = ListShare(b)
    BY <1>3, <2>2 DEF RightCount, Right
  <2>5. \A c \in Consumers : Has(c, b) => refs[b] # 0
    BY <1>3, <1>5, <1>6, <2>1, <2>2 DEF RightCount, Right
  <2>6. \A u \in Threads : Has(u, b)' <=> u # t /\ Has(u, b)
    BY <1>1
  <2>7. \A q \in Producers : Has(q, b) => q = t
    BY <2>1, WhoHas
  <2>8. FreedLast(b)'
    <3>1. CASE \E c \in Consumers : Has(c, b)
      BY <1>0, <1>2, <1>6, <2>1, <2>5, <2>6, <3>1 DEF FreedLast, Items
    <3>2. CASE \A c \in Consumers : ~Has(c, b)
      <4>1. \A u \in Threads : ~Has(u, b)'
        BY <2>6, <2>7, <3>2 DEF Threads
      <4>2. b \in Items(list)' <=> ListShare(b) = 1
        BY <1>0 DEF ListShare, Items
      <4>3. Items(taken)' = Items(taken) /\ (b \in Items(taken) => ListShare(b) = 0)
        BY <1>0 DEF CountInv, Disjoint, ListShare, Items
      <4>4. freed'[b] \in {0, 1} /\ (freed'[b] = 1 <=> ListShare(b) = 0)
        BY <1>0, <1>2, <1>3, <2>4, <3>2
      <4> QED
        BY <2>2, <4>1, <4>2, <4>3, <4>4, <1>3 DEF FreedLast
    <3> QED
      BY <3>1, <3>2
  <2> QED
    BY <1>4, <2>3, <2>8 DEF Right
<1>8. CASE t \in Consumers
  <2>1. t # b[1] /\ \A c \in Consumers \ {t} : ~Has(c, b)
    BY <1>0, <1>6, <1>8, WhoHas DEF OneUser, Has
  <2>2. b \in Items(taken) /\ b \notin Items(list) /\ ListShare(b) = 0
    BY <1>8, WhoHas DEF ListShare
  <2>3. OwnerShare(b)' = OwnerShare(b) /\ OwnerShare(b) \in {0, 1, 2}
    BY <1>0, <1>1, <1>6, <2>1 DEF OwnerShare, Share, Kept
  <2>4. refs[b] = OwnerShare(b)
    BY <1>0, <1>8, <2>2, <2>3 DEF RightCount, Right
  <2>5. RightCount(b)'
    BY <1>0, <1>1, <1>3, <1>8, <2>1, <2>2, <2>3, <2>4, <1>6 DEF RightCount
  <2>6. \A u \in Threads : Has(u, b)' <=> u # t /\ Has(u, b)
    BY <1>1
  <2>7. \A q \in Producers : Has(q, b) => q = b[1]
    BY WhoHas
  <2>8. Items(taken)' = Items(taken) /\ Items(list)' = Items(list)
    BY <1>0 DEF Items
  <2>9. FreedLast(b)'
    <3>1. CASE Has(b[1], b)
      <4>1. OwnerShare(b) # 0
        BY <1>5, <1>6, <2>1, <3>1 DEF OwnerShare
      <4>2. Has(b[1], b)'
        BY <1>6, <2>1, <2>6, <3>1
      <4> QED
        BY <1>0, <1>2, <1>6, <2>4, <4>1, <4>2 DEF FreedLast
    <3>2. CASE ~Has(b[1], b)
      <4>1. \A u \in Threads : ~Has(u, b)'
        BY <2>1, <2>6, <2>7, <3>2 DEF Threads
      <4>2. CASE b[1] \notin Keepers
        <5>1. freed'[b] = 1
          BY <1>0, <1>2, <2>4, <3>2, <4>2 DEF OwnerShare, Kept
        <5> QED
          BY <2>2, <2>8, <4>1, <4>2, <5>1 DEF FreedLast
      <4>3. CASE b[1] \in Keepers
        <5>1. Kept(b)
          BY <2>2, <4>3 DEF Kept, CountInv, QueueInv, FreshInv
        <5>2. freed'[b] = 0
          BY <1>0, <1>2, <2>4, <3>2, <5>1 DEF OwnerShare
        <5> QED
          BY <2>8, <4>1, <4>3, <5>2 DEF FreedLast
      <4> QED
        BY <4>2, <4>3
    <3> QED
      BY <3>1, <3>2
  <2> QED
    BY <1>4, <2>5, <2>9 DEF Right
<1> QED
  BY <1>7, <1>8 DEF Threads

\* A step of push leaves every count right but those of the buffers two updates
\* of which overlapped.
LEMMA ProducerRight ==
    ASSUME CountInv, RefInv, NEW p \in Producers, Producer(p), NEW b \in Buffers,
           b \notin refRaced'
    PROVE  Right(b)'
<1> USE QueueAssumption
<1>0. /\ TypeOK /\ QueueInv /\ OneUser /\ p \in Threads /\ Only(p) /\ p \notin Consumers
      /\ cur \in [Threads -> Buffers \cup {Nil}] /\ pc \in [Threads -> ProducerPCs \cup ConsumerPCs]
      /\ refs \in [Buffers -> Int] /\ freed \in [Buffers -> Nat] /\ reg \in [Threads -> Int]
      /\ pc[p] # "init" => cur[p] = <<p, made[p]>> /\ cur[p] \in Buffers
      /\ Nil \notin Buffers
  <2>1. TypeOK /\ QueueInv /\ OneUser /\ p \in Threads /\ p \notin Consumers
    BY DEF CountInv, QueueInv, RefInv, Threads
  <2>2. pc[p] # "init" => cur[p] = <<p, made[p]>> /\ cur[p] \in Buffers
    BY <2>1 DEF QueueInv, CurInv, FreshInv, TypeOK
  <2>3. Only(p)
    BY <2>1, ProducerOnly
  <2> QED
    BY <2>1, <2>2, <2>3 DEF TypeOK
<1>1. refRaced \subseteq refRaced' /\ Right(b)
  <2>1. refRaced \subseteq refRaced'
    <3>1. CASE Allocate(p) \/ SeeRoom(p) \/ PushLock(p) \/ FindTail(p)
      BY <3>1 DEF Allocate, SeeRoom, PushLock, Lock, FindTail, countVars
    <3>2. CASE Link(p) \/ IncLoad(p) \/ IncStore(p)
      BY <3>2 DEF Link, IncLoad, IncStore, PushReturns, countVars
    <3>3. CASE \/ PushRefLoad(p) \/ PushRefStore(p)
               \/ ProducerDropLoad(p) \/ ProducerDropStore(p) \/ ProducerDropCheck(p)
      BY <3>3 DEF PushRefLoad, PushRefStore, ProducerDropLoad, ProducerDropStore,
            ProducerDropCheck, CountLoad, CountStore, FreeIfZero
    <3> QED
      BY <3>1, <3>2, <3>3 DEF Producer
  <2> QED
    BY <2>1 DEF RefInv, Right
<1>2. ASSUME ~Link(p) PROVE Items(list)' = Items(list) /\ Items(taken)' = Items(taken)
  BY <1>2, ProducerList DEF Items
<1>3. CASE Allocate(p)
  <2> DEFINE x == <<p, made[p] + 1>>
  <2>1. /\ cur'[p] = x /\ refs' = [refs EXCEPT ![x] = 1] /\ freed' = freed
        /\ pc[p] = "init" /\ pc'[p] = "full" /\ made[p] < Quota
        /\ Items(list)' = Items(list) /\ Items(taken)' = Items(taken)
    BY <1>0, <1>2, <1>3 DEF Allocate, Goto, TypeOK, Link
  <2>2. ~Has(p, b)
    BY <2>1 DEF Has
  <2>3. CASE b # x
    <3>1. ~Has(p, b)' /\ refs'[b] = refs[b]
      BY <1>0, <2>1, <2>3 DEF Has
    <3>2. Kept(b)' <=> Kept(b)
      <4>1. made' = [made EXCEPT ![p] = made[p] + 1] /\ made[p] \in Nat /\ made \in [Producers -> 0 .. Quota]
        BY <1>0, <1>3 DEF Allocate, TypeOK
      <4>2. PICK q \in Producers, i \in 1 .. Quota : b = <<q, i>>
        BY DEF Buffers
      <4>3. b[1] = q /\ b[2] = i /\ (q = p => i # made[p] + 1)
        BY <2>3, <4>2
      <4> QED
        BY <4>1, <4>3 DEF Kept
    <3> QED
      BY <1>0, <1>1, <2>1, <2>2, <3>1, <3>2, Untouched
  <2>4. CASE b = x
    <3>1. made[p] \in Nat /\ b[1] = p /\ b[2] = made[p] + 1
      BY <1>0, <2>4 DEF TypeOK
    <3>2. b \notin Items(list) /\ b \notin Items(taken)
      <4>1. \A y \in Items(list) \cup Items(taken) : y[2] <= made[y[1]]
        BY <1>0 DEF QueueInv, FreshInv
      <4> QED
        BY <3>1, <4>1
    <3>3. \A t \in Threads : ~Has(t, b)
      <4>1. \A q \in Producers \ {p} : ~Has(q, b)
        BY <3>1, WhoHas
      <4>2. \A c \in Consumers : ~Has(c, b)
        BY <3>2, WhoHas
      <4> QED
        BY <2>2, <4>1, <4>2 DEF Threads
    <3>4. \A t \in Threads \ {p} : ~Has(t, b)'
      BY <1>0, <3>3, HasFrame
    <3>5. Has(p, b)' /\ Share(p)' = 1 /\ refs'[b] = 1 /\ ListShare(b)' = 0
      BY <1>0, <2>1, <2>4, <3>2 DEF Has, Share, ListShare, ProducerPCs
    <3>6. freed[b] = 0
      <4>1. \A q \in Producers : \A i \in 1 .. Quota : made[q] < i => freed[<<q, i>>] = 0
        BY DEF CountInv, AliveInv
      <4>2. made[p] + 1 \in 1 .. Quota /\ made[p] < made[p] + 1
        BY <2>1, <3>1
      <4> QED
        BY <2>4, <4>1, <4>2
    <3>7. RightCount(b)'
      <4>1. OwnerShare(b)' = 1
        BY <3>1, <3>5 DEF OwnerShare
      <4>2. \A c \in Consumers : ~Has(c, b)'
        BY <1>0, <3>4 DEF Threads
      <4> QED
        BY <3>5, <4>1, <4>2 DEF RightCount
    <3>8. OneByOne(b)'
      BY <2>1, <3>4 DEF OneByOne, Loaded
    <3>9. FreedLast(b)'
      BY <1>0, <2>1, <3>5, <3>6 DEF FreedLast
    <3> QED
      BY <3>7, <3>8, <3>9 DEF Right
  <2> QED
    BY <2>3, <2>4
<1>4. ASSUME ~Allocate(p), b # cur[p] PROVE Right(b)'
  <2>1. /\ cur'[p] \in {cur[p], Nil} /\ refs'[b] = refs[b] /\ freed'[b] = freed[b]
    <3>1. CASE SeeRoom(p) \/ PushLock(p) \/ FindTail(p)
      BY <1>0, <3>1 DEF SeeRoom, PushLock, Lock, FindTail, countVars
    <3>2. CASE Link(p) \/ IncLoad(p) \/ IncStore(p)
      BY <1>0, <3>2 DEF Link, IncLoad, IncStore, PushReturns, countVars
    <3>3. CASE \/ PushRefLoad(p) \/ PushRefStore(p) \/ ProducerDropLoad(p) \/ ProducerDropStore(p)
      BY <1>0, <1>4, <3>3 DEF PushRefLoad, PushRefStore, ProducerDropLoad, ProducerDropStore,
            CountLoad, CountStore
    <3>4. CASE ProducerDropCheck(p)
      BY <1>0, <1>4, <3>4 DEF ProducerDropCheck, FreeIfZero
    <3> QED
      BY <1>4, <3>1, <3>2, <3>3, <3>4 DEF Producer
  <2>2. b \in Items(list)' <=> b \in Items(list)
    BY <1>0, <1>2, <1>4, LinkItems
  <2>3. b \in Items(taken)' <=> b \in Items(taken)
    BY <1>0, <1>2, LinkItems
  <2>4. ~Has(p, b) /\ ~Has(p, b)'
    BY <1>0, <1>4, <2>1 DEF Has
  <2>5. Kept(b)' <=> Kept(b)
    BY <1>0, <1>4, ProducerName DEF Kept, QueueInv
  <2> QED
    BY <1>0, <1>1, <2>1, <2>2, <2>3, <2>4, <2>5, Untouched
<1>5. ASSUME ~Allocate(p), b = cur[p], ~ProducerDropCheck(p),
             ~(IncStore(p) /\ p \in Keepers)
      PROVE  Right(b)'
  <2>0. made' = made
    BY <1>0, <1>5, ProducerName DEF QueueInv
  <2>1. pc[p] # "init" /\ pc'[p] # "init" /\ pc'[p] \in ProducerPCs /\ cur' = cur
    BY <1>0, <1>5 DEF Producer, SeeRoom, PushLock, Lock, FindTail, Link, IncLoad, IncStore, PushReturns,
          PushRefLoad, PushRefStore, ProducerDropLoad, ProducerDropStore, CountLoad, CountStore,
          Goto, ProducerPCs
  <2>2. Has(p, b) /\ Has(p, b)'
    BY <1>0, <1>5, <2>1 DEF Has, TypeOK
  <2>3. CASE SeeRoom(p) \/ PushLock(p) \/ FindTail(p) \/ IncLoad(p) \/ IncStore(p)
    <3>1. /\ refs' = refs /\ freed' = freed /\ Share(p)' = Share(p) /\ pc'[p] \notin Changing
      BY <1>0, <1>5, <2>3 DEF SeeRoom, PushLock, Lock, FindTail, IncLoad, IncStore, PushReturns, countVars, Goto,
            Share, Changing
    <3>2. ListShare(b)' = ListShare(b)
      BY <1>2, <2>3 DEF ListShare, Link, SeeRoom, PushLock, Lock, FindTail, IncLoad, IncStore, PushReturns, Goto
    <3> QED
      BY <1>0, <1>1, <2>0, <2>2, <3>1, <3>2, KeepsQuiet
  <2>4. CASE Link(p)
    <3>1. /\ refs' = refs /\ freed' = freed /\ pc[p] = "link" /\ pc'[p] = "inc"
      BY <1>0, <2>4 DEF Link, countVars, Goto
    <3>2. b \notin Items(list) /\ b \in Items(list)'
      BY <1>0, <1>5, <2>4, LinkEffect, LinkItems
    <3>3. ListShare(b)' + Share(p)' = ListShare(b) + Share(p) /\ pc'[p] \notin Changing
      BY <3>1, <3>2 DEF ListShare, Share, Changing
    <3> QED
      BY <1>0, <1>1, <2>0, <2>2, <3>1, <3>3, KeepsQuiet
  <2>5. CASE PushRefLoad(p) \/ ProducerDropLoad(p)
    <3>1. Share(p)' = Share(p)
      BY <1>0, <2>5 DEF PushRefLoad, ProducerDropLoad, CountLoad, Goto, Share
    <3> QED
      BY <1>0, <1>1, <2>2, <2>5, <3>1, KeepsLoad DEF PushRefLoad, ProducerDropLoad
  <2>6. CASE PushRefStore(p)
    <3>1. CountStore(p, "ref2", "lock", 1) /\ Share(p)' = Share(p) + 1 /\ pc'[p] \notin Loaded
          /\ "ref2" \in Loaded
      BY <1>0, <2>6 DEF PushRefStore, CountStore, Goto, Share, Loaded
    <3> QED
      BY <1>0, <1>1, <2>2, <3>1, KeepsStore
  <2>7. CASE ProducerDropStore(p)
    <3>1. CountStore(p, "drop2", "dropcheck", -1) /\ Share(p)' = Share(p) + (-1)
          /\ pc'[p] \notin Loaded /\ "drop2" \in Loaded
      BY <1>0, <2>7 DEF ProducerDropStore, CountStore, Goto, Share, Loaded
    <3> QED
      BY <1>0, <1>1, <2>2, <3>1, KeepsStore
  <2> QED
    BY <1>5, <2>3, <2>4, <2>5, <2>6, <2>7 DEF Producer
<1>6. ASSUME ProducerDropCheck(p), b = cur[p] PROVE Right(b)'
  <2>1. FreeIfZero(p, "dropcheck", "init") /\ list' = list /\ taken' = taken
    BY <1>6 DEF ProducerDropCheck, FreeIfZero, queueVars
  <2>2. pc[p] = "dropcheck" /\ pc'[p] = "init" /\ Has(p, b) /\ ~Has(p, b)' /\ Share(p) = 0
    BY <1>0, <1>6, <2>1 DEF FreeIfZero, Goto, Has, ProducerPCs, Share
  <2> QED
    BY <1>0, <1>1, <1>6, <2>1, <2>2, Leaves
<1>7. ASSUME IncStore(p), p \in Keepers, b = cur[p] PROVE Right(b)'
  <2>1. /\ refs' = refs /\ freed' = freed /\ list' = list /\ taken' = taken /\ made' = made
        /\ pc[p] = "inc2" /\ pc'[p] = "init"
    BY <1>0, <1>7 DEF IncStore, PushReturns, Goto, countVars
  <2>2. Has(p, b) /\ ~Has(p, b)' /\ b = <<p, made[p]>> /\ b[1] = p /\ b[2] = made[p]
    BY <1>0, <1>7, <2>1 DEF Has, ProducerPCs
  <2>3. Kept(b)' /\ Kept(b) /\ made[p] \in Nat
    BY <1>0, <1>7, <2>1, <2>2 DEF Kept, TypeOK
  <2>4. Items(list)' = Items(list) /\ Items(taken)' = Items(taken) /\ ListShare(b)' = ListShare(b)
    BY <2>1 DEF Items, ListShare
  <2>5. OwnerShare(b) = 1 /\ OwnerShare(b)' = 1
    BY <2>1, <2>2, <2>3 DEF OwnerShare, Share
  <2>6. \A u \in Threads \ {p} : (Has(u, b)' <=> Has(u, b)) /\ Share(u)' = Share(u)
    BY <1>0, HasFrame
  <2>7. \A u \in Threads \ {p} : pc'[u] = pc[u] /\ reg'[u] = reg[u]
    BY <1>0, HasFrame
  <2>8. RightCount(b)'
    <3>1. refs'[b] = refs[b] /\ RightCount(b)
      BY <1>1, <2>1 DEF Right
    <3>a. Consumers \subseteq Threads /\ \A c \in Consumers : c # p
      BY <1>0 DEF Threads
    <3>2. \A c \in Consumers : (Has(c, b)' <=> Has(c, b)) /\ Share(c)' = Share(c)
      BY <2>6, <3>a
    <3>3. ListShare(b)' = ListShare(b) /\ OwnerShare(b)' = OwnerShare(b)
      BY <2>4, <2>5
    <3>4. (\A c \in Consumers : ~Has(c, b)') => refs'[b] = ListShare(b)' + OwnerShare(b)'
      BY <3>1, <3>2, <3>3 DEF RightCount
    <3>5. \A c \in Consumers :
              Has(c, b)' => refs'[b] = ListShare(b)' + OwnerShare(b)' + Share(c)'
      BY <3>1, <3>2, <3>3 DEF RightCount
    <3> QED
      BY <3>4, <3>5 DEF RightCount
  <2>9. OneByOne(b)'
    BY <1>1, <2>1, <2>2, <2>6, <2>7 DEF OneByOne, Right
  <2>10. FreedLast(b)'
    BY <1>1, <1>7, <2>1, <2>2, <2>4 DEF FreedLast, Right
  <2> QED
    BY <2>8, <2>9, <2>10 DEF Right
<1> QED
  BY <1>3, <1>4, <1>5, <1>6, <1>7

\* Only Detach gives a consumer a buffer.
LEMMA StillHas ==
    ASSUME TypeOK, NEW c \in Consumers, Consumer(c), ~Detach(c), pc'[c] \in Counting
    PROVE  pc[c] \in Counting /\ cur'[c] = cur[c]
<1> USE DEF Counting, Detached, Popping, Claiming, Goto, TypeOK, Threads
<1>1. CASE \/ PopRefLoad(c) \/ PopRefStore(c) \/ PopUnrefLoad(c) \/ PopUnrefStore(c)
  BY <1>1 DEF PopRefLoad, PopRefStore, PopUnrefLoad, PopUnrefStore, CountLoad, CountStore
<1>2. CASE PopUnrefCheck(c) \/ ConsumerDropCheck(c)
  BY <1>2 DEF PopUnrefCheck, ConsumerDropCheck, FreeIfZero
<1>3. CASE ConsumerDropLoad(c) \/ ConsumerDropStore(c) \/ DecLoad(c) \/ DecStore(c)
  BY <1>3 DEF ConsumerDropLoad, ConsumerDropStore, DecLoad, DecStore, CountLoad, CountStore
<1>4. CASE SeeElement(c) \/ PopLock(c) \/ ReadHead(c)
  BY <1>4 DEF SeeElement, PopLock, Lock, ReadHead
<1> QED
  BY <1>1, <1>2, <1>3, <1>4 DEF Consumer

\* No two consumers have the same buffer.
LEMMA OneUserStep ==
    ASSUME CountInv, OneUser, Next
    PROVE  OneUser'
<1> USE QueueAssumption
<1>0. TypeOK /\ QueueInv
  BY DEF CountInv, QueueInv
<1>1. ASSUME NEW p \in Producers, Producer(p) PROVE OneUser'
  <2>1. \A c \in Consumers : cur'[c] = cur[c] /\ \A b : Has(c, b)' <=> Has(c, b)
    <3>1. Only(p)
      BY <1>0, <1>1, ProducerOnly
    <3>2. \A c \in Consumers : c \in Threads \ {p}
      BY DEF Threads
    <3> QED
      BY <3>1, <3>2 DEF Only, Has
  <2> QED
    BY <2>1 DEF OneUser
<1>2. ASSUME NEW c \in Consumers, Consumer(c) PROVE OneUser'
  <2>1. \A d \in Consumers \ {c} : cur'[d] = cur[d] /\ \A b : Has(d, b)' <=> Has(d, b)
    <3>1. Only(c)
      BY <1>0, <1>2, ConsumerOnly
    <3>2. \A d \in Consumers \ {c} : d \in Threads \ {c}
      BY DEF Threads
    <3> QED
      BY <3>1, <3>2 DEF Only, Has
  <2>2. CASE Detach(c)
    <3>1. cur' = cur /\ cur[c] \in Items(list)
      BY <1>0, <2>2, DetachItems DEF Detach
    <3>2. \A d \in Consumers : ~Has(d, cur[c])
      BY <3>1, WhoHas
    <3>3. \A d \in Consumers \ {c} : ~Has(d, cur[c])'
      BY <2>1, <3>1, <3>2
    <3>4. \A d \in Consumers \ {c} : Has(d, cur[d])' => cur'[d] # cur'[c]
      BY <3>1, <3>3 DEF Has
    <3> QED
      BY <2>1, <3>1, <3>3, <3>4 DEF OneUser, Has
  <2>3. CASE ~Detach(c)
    <3>1. \A b : Has(c, b)' => Has(c, b)
      <4>1. c \notin Producers
        OBVIOUS
      <4> QED
        BY <1>0, <1>2, <2>3, <4>1, StillHas DEF Has
    <3>2. \A d \in Consumers : \A b : Has(d, b)' => Has(d, b)
      BY <2>1, <3>1
    <3> QED
      BY <3>2 DEF OneUser, Has
  <2> QED
    BY <2>2, <2>3
<1> QED
  BY <1>1, <1>2 DEF Next

\* A step of pop leaves every count right but those of the buffers two updates
\* of which overlapped.
LEMMA ConsumerRight ==
    ASSUME CountInv, RefInv, NEW c \in Consumers, Consumer(c), NEW b \in Buffers,
           b \notin refRaced'
    PROVE  Right(b)'
<1> USE QueueAssumption
<1>0. /\ TypeOK /\ QueueInv /\ OneUser /\ c \in Threads /\ Only(c) /\ c \notin Producers
      /\ cur \in [Threads -> Buffers \cup {Nil}] /\ pc \in [Threads -> ProducerPCs \cup ConsumerPCs]
      /\ refs \in [Buffers -> Int] /\ freed \in [Buffers -> Nat] /\ reg \in [Threads -> Int]
  <2>1. TypeOK /\ QueueInv /\ OneUser /\ c \in Threads /\ c \notin Producers
    BY DEF CountInv, QueueInv, RefInv, Threads
  <2>2. Only(c)
    BY <2>1, ConsumerOnly
  <2> QED
    BY <2>1, <2>2 DEF TypeOK
<1>1. refRaced \subseteq refRaced' /\ Right(b)
  <2>1. refRaced \subseteq refRaced'
    <3>1. CASE SeeElement(c) \/ PopLock(c) \/ ReadHead(c) \/ Detach(c) \/ DecLoad(c) \/ DecStore(c)
      BY <3>1 DEF SeeElement, PopLock, Lock, ReadHead, Detach, DecLoad, DecStore, countVars
    <3>2. CASE \/ PopRefLoad(c) \/ PopRefStore(c)
               \/ PopUnrefLoad(c) \/ PopUnrefStore(c) \/ PopUnrefCheck(c)
      BY <3>2 DEF PopRefLoad, PopRefStore, PopUnrefLoad, PopUnrefStore, PopUnrefCheck,
            CountLoad, CountStore, FreeIfZero
    <3>3. CASE ConsumerDropLoad(c) \/ ConsumerDropStore(c) \/ ConsumerDropCheck(c)
      BY <3>3 DEF ConsumerDropLoad, ConsumerDropStore, ConsumerDropCheck,
            CountLoad, CountStore, FreeIfZero
    <3> QED
      BY <3>1, <3>2, <3>3 DEF Consumer
  <2> QED
    BY <2>1 DEF RefInv, Right
<1>m. made' = made /\ (Kept(b)' <=> Kept(b))
  BY ConsumerMade DEF Kept
<1>2. ASSUME ~Detach(c) PROVE Items(list)' = Items(list) /\ Items(taken)' = Items(taken)
  BY <1>2, ConsumerList DEF Items
<1>3. CASE Detach(c)
  <2>1. /\ cur' = cur /\ refs' = refs /\ freed' = freed
        /\ pc[c] = "detach" /\ pc'[c] = "ref" /\ list # <<>>
    <3>1. list # <<>>
      BY <1>0, <1>3, DetachEffect
    <3> QED
      BY <1>0, <1>3, <3>1 DEF Detach, Goto, countVars
  <2>2. /\ Items(list) = Items(list)' \cup {cur[c]} /\ cur[c] \notin Items(list)'
        /\ Items(taken)' = Items(taken) \cup {cur[c]}
    BY <1>0, <1>3, DetachItems, HeadLeaves
  <2>3. ~Has(c, b)
    BY <1>0, <2>1 DEF Has, Counting, Detached, Popping, Claiming
  <2>4. CASE b # cur[c]
    <3>1. ~Has(c, b)'
      BY <2>1, <2>4 DEF Has
    <3> QED
      BY <1>0, <1>1, <1>m, <2>1, <2>2, <2>3, <2>4, <3>1, Untouched
  <2>5. CASE b = cur[c]
    <3>1. \A d \in Consumers : ~Has(d, b)
      BY <2>2, <2>5, WhoHas
    <3>2. \A d \in Consumers \ {c} : ~Has(d, b)'
      BY <1>0, <3>1, HasFrame DEF Threads
    <3>3. Has(c, b)' /\ Share(c)' = 1 /\ ListShare(b) = 1 /\ ListShare(b)' = 0
      BY <1>0, <2>1, <2>2, <2>5 DEF Has, Share, ListShare, Counting, Detached, Popping, Claiming
    <3>4. OwnerShare(b)' = OwnerShare(b) /\ OwnerShare(b) \in Int
      <4>1. b[1] \in Threads \ {c}
        BY <1>0 DEF Buffers, Threads
      <4> QED
        BY <1>0, <1>m, <4>1, HasFrame DEF OwnerShare, Share
    <3>5. refs[b] = 1 + OwnerShare(b)
      BY <1>1, <3>1, <3>3 DEF Right, RightCount
    <3>6. RightCount(b)'
      <4>1. refs'[b] = ListShare(b)' + OwnerShare(b)' + Share(c)'
        BY <2>1, <3>3, <3>4, <3>5
      <4> QED
        BY <3>2, <3>3, <4>1 DEF RightCount
    <3>7. OneByOne(b)'
      BY <1>0, <1>1, <2>1, HasFrame DEF Right, OneByOne, Changing, Loaded
    <3>8. FreedLast(b)'
      BY <1>0, <1>1, <2>1, <2>2, <2>5, <3>3 DEF Right, FreedLast
    <3> QED
      BY <3>6, <3>7, <3>8 DEF Right
  <2> QED
    BY <2>4, <2>5
<1>4. CASE SeeElement(c) \/ PopLock(c) \/ ReadHead(c)
  <2>1. /\ refs' = refs /\ freed' = freed /\ ~Detach(c)
        /\ pc[c] \in {"empty", "lock", "head"} /\ pc'[c] \in {"lock", "head", "detach", "fault"}
    BY <1>0, <1>4 DEF SeeElement, PopLock, Lock, ReadHead, Goto, countVars, Detach
  <2>2. ~Has(c, b) /\ ~Has(c, b)'
    BY <1>0, <2>1 DEF Has, Counting, Detached, Popping, Claiming
  <2> QED
    BY <1>0, <1>1, <1>2, <1>m, <2>1, <2>2, Untouched
<1>5. ASSUME ~Detach(c), ~(SeeElement(c) \/ PopLock(c) \/ ReadHead(c)), b # cur[c]
      PROVE  Right(b)'
  <2>1. /\ cur'[c] \in {cur[c], Nil} /\ refs'[b] = refs[b] /\ freed'[b] = freed[b]
    <3>1. CASE DecLoad(c) \/ DecStore(c)
      BY <1>0, <3>1 DEF DecLoad, DecStore, countVars
    <3>2. CASE \/ PopRefLoad(c) \/ PopRefStore(c) \/ PopUnrefLoad(c) \/ PopUnrefStore(c)
      BY <1>0, <1>5, <3>2 DEF PopRefLoad, PopRefStore, PopUnrefLoad, PopUnrefStore,
            CountLoad, CountStore
    <3>3. CASE ConsumerDropLoad(c) \/ ConsumerDropStore(c)
      BY <1>0, <1>5, <3>3 DEF ConsumerDropLoad, ConsumerDropStore, CountLoad, CountStore
    <3>4. CASE PopUnrefCheck(c) \/ ConsumerDropCheck(c)
      BY <1>0, <1>5, <3>4 DEF PopUnrefCheck, ConsumerDropCheck, FreeIfZero
    <3> QED
      BY <1>5, <3>1, <3>2, <3>3, <3>4 DEF Consumer
  <2>2. ~Has(c, b) /\ ~Has(c, b)'
    <3>1. b # Nil
      OBVIOUS
    <3> QED
      BY <1>5, <2>1, <3>1 DEF Has
  <2> QED
    BY <1>0, <1>1, <1>2, <1>m, <1>5, <2>1, <2>2, Untouched
<1>6. ASSUME ~Detach(c), ~(SeeElement(c) \/ PopLock(c) \/ ReadHead(c)), b = cur[c],
             ~ConsumerDropCheck(c)
      PROVE  Right(b)'
  <2> USE DEF Counting, Detached, Popping, Claiming
  <2>1. pc[c] \in Counting /\ pc'[c] \in Counting /\ cur'[c] = cur[c]
    <3>1. CASE DecLoad(c) \/ DecStore(c)
      BY <1>0, <3>1 DEF DecLoad, DecStore, Goto
    <3>2. CASE \/ PopRefLoad(c) \/ PopRefStore(c) \/ PopUnrefLoad(c) \/ PopUnrefStore(c)
      BY <1>0, <3>2 DEF PopRefLoad, PopRefStore, PopUnrefLoad, PopUnrefStore,
            CountLoad, CountStore, Goto
    <3>3. CASE ConsumerDropLoad(c) \/ ConsumerDropStore(c) \/ PopUnrefCheck(c)
      BY <1>0, <3>3 DEF ConsumerDropLoad, ConsumerDropStore, PopUnrefCheck, CountLoad, CountStore,
            FreeIfZero, Goto
    <3> QED
      BY <1>6, <3>1, <3>2, <3>3 DEF Consumer
  <2>2. Has(c, b) /\ Has(c, b)'
    BY <1>0, <1>6, <2>1 DEF Has
  <2>3. ListShare(b)' = ListShare(b) /\ ListShare(b) \in {0, 1}
    BY <1>2, <1>6 DEF ListShare
  <2>4. CASE DecLoad(c) \/ DecStore(c)
    <3>1. /\ refs' = refs /\ freed' = freed /\ Share(c)' = Share(c) /\ pc'[c] \notin Changing
      BY <1>0, <2>4 DEF DecLoad, DecStore, countVars, Goto, Share, Changing
    <3> QED
      BY <1>0, <1>1, <1>m, <2>2, <2>3, <3>1, KeepsQuiet
  <2>5. CASE PopUnrefCheck(c)
    <3>1. /\ refs' = refs /\ pc[c] = "check" /\ pc'[c] = "dec"
          /\ freed' = IF refs[b] = 0 THEN [freed EXCEPT ![b] = @ + 1] ELSE freed
      BY <1>0, <1>6, <2>5 DEF PopUnrefCheck, FreeIfZero, Goto
    <3>2. Share(c) = 1 /\ Share(c)' = 1 /\ pc'[c] \notin Changing
      BY <3>1 DEF Share, Changing
    <3>3. OwnerShare(b) \in {0, 1, 2}
      BY DEF OwnerShare, Share
    <3>4. refs[b] # 0
      BY <1>1, <2>2, <2>3, <3>2, <3>3 DEF Right, RightCount
    <3> QED
      BY <1>0, <1>1, <2>2, <2>3, <3>1, <3>2, <3>4, <1>m, KeepsQuiet
  <2>6. CASE PopRefLoad(c) \/ PopUnrefLoad(c) \/ ConsumerDropLoad(c)
    <3>1. Share(c)' = Share(c)
      BY <1>0, <2>6 DEF PopRefLoad, PopUnrefLoad, ConsumerDropLoad, CountLoad, Goto, Share
    <3> QED
      BY <1>0, <1>1, <2>2, <2>6, <3>1, KeepsLoad DEF PopRefLoad, PopUnrefLoad, ConsumerDropLoad
  <2>7. CASE PopRefStore(c)
    <3>1. CountStore(c, "ref2", "unref", 1) /\ Share(c)' = Share(c) + 1 /\ pc'[c] \notin Loaded
          /\ "ref2" \in Loaded
      BY <1>0, <2>7 DEF PopRefStore, CountStore, Goto, Share, Loaded
    <3> QED
      BY <1>0, <1>1, <2>2, <3>1, KeepsStore
  <2>8. CASE PopUnrefStore(c)
    <3>1. CountStore(c, "unref2", "check", -1) /\ Share(c)' = Share(c) + (-1)
          /\ pc'[c] \notin Loaded /\ "unref2" \in Loaded
      BY <1>0, <2>8 DEF PopUnrefStore, CountStore, Goto, Share, Loaded
    <3> QED
      BY <1>0, <1>1, <2>2, <3>1, KeepsStore
  <2>9. CASE ConsumerDropStore(c)
    <3>1. CountStore(c, "drop2", "dropcheck", -1) /\ Share(c)' = Share(c) + (-1)
          /\ pc'[c] \notin Loaded /\ "drop2" \in Loaded
      BY <1>0, <2>9 DEF ConsumerDropStore, CountStore, Goto, Share, Loaded
    <3> QED
      BY <1>0, <1>1, <2>2, <3>1, KeepsStore
  <2> QED
    BY <1>6, <2>4, <2>5, <2>6, <2>7, <2>8, <2>9 DEF Consumer
<1>7. ASSUME ConsumerDropCheck(c), b = cur[c] PROVE Right(b)'
  <2>1. FreeIfZero(c, "dropcheck", "empty")
    BY <1>7 DEF ConsumerDropCheck
  <2>2. pc[c] = "dropcheck" /\ pc'[c] = "empty" /\ Has(c, b) /\ ~Has(c, b)'
    BY <1>0, <1>7, <2>1 DEF FreeIfZero, Goto, Has, Counting, Detached, Popping, Claiming
  <2> QED
    BY <1>0, <1>1, <2>1, <2>2, Leaves
<1> QED
  BY <1>3, <1>4, <1>5, <1>6, <1>7

\* The counts stay right.
LEMMA RefStep == CountInv /\ RefInv /\ [Next]_vars => RefInv'
<1> SUFFICES ASSUME CountInv, RefInv, [Next]_vars PROVE RefInv'
  OBVIOUS
<1>1. CASE Next
  <2>1. OneUser'
    BY <1>1, OneUserStep DEF RefInv
  <2>2. \A b \in Buffers \ refRaced' : Right(b)'
    BY <1>1, ProducerRight, ConsumerRight DEF Next
  <2> QED
    BY <2>1, <2>2 DEF RefInv, Right
<1>2. CASE UNCHANGED vars
  <2>1. \A t, b : (Has(t, b)' <=> Has(t, b)) /\ Share(t)' = Share(t)
    BY <1>2 DEF vars, Has, Share
  <2>2. \A b : OwnerShare(b)' = OwnerShare(b) /\ ListShare(b)' = ListShare(b)
    BY <1>2, <2>1 DEF vars, OwnerShare, ListShare, Items, Kept
  <2>3. OneUser'
    BY <1>2, <2>1 DEF vars, OneUser, RefInv, Has
  <2>4. ASSUME NEW b \in Buffers \ refRaced
        PROVE  RightCount(b)' /\ OneByOne(b)' /\ FreedLast(b)'
    <3>1. RightCount(b)'
      BY <1>2, <2>1, <2>2 DEF vars, RightCount, RefInv
    <3>2. OneByOne(b)'
      BY <1>2, <2>1 DEF vars, OneByOne, RefInv
    <3>3. FreedLast(b)'
      BY <1>2, <2>1 DEF vars, FreedLast, RefInv, Items
    <3> QED
      BY <3>1, <3>2, <3>3
  <2>5. refRaced' = refRaced
    BY <1>2 DEF vars
  <2> QED
    BY <2>3, <2>4, <2>5 DEF RefInv
<1> QED
  BY <1>1, <1>2

\* At the start nobody has a buffer.
LEMMA RefInit == Init => RefInv
<1> SUFFICES ASSUME Init PROVE RefInv
  OBVIOUS
<1> USE QueueAssumption
<1>1. \A t \in Threads : \A b : ~Has(t, b)
  BY DEF Init, Has, Counting, Detached, Popping, Claiming
<1>2. Items(list) = {} /\ Items(taken) = {}
  BY DEF Init, Items
<1>3. OneUser
  BY <1>1 DEF OneUser, Threads
<1>4. ASSUME NEW b \in Buffers PROVE RightCount(b) /\ OneByOne(b) /\ FreedLast(b)
  <2>1. b[1] \in Threads /\ refs[b] = 0 /\ freed[b] = 0
    BY DEF Init, Buffers, Threads
  <2>2. ListShare(b) = 0 /\ OwnerShare(b) = 0
    <3>1. ~Kept(b)
      BY DEF Init, Kept, Buffers
    <3> QED
      BY <1>1, <1>2, <2>1, <3>1 DEF ListShare, OwnerShare
  <2>3. RightCount(b)
    BY <1>1, <2>1, <2>2 DEF RightCount, Threads
  <2> QED
    BY <1>1, <1>2, <2>1, <2>3 DEF OneByOne, FreedLast
<1> QED
  BY <1>3, <1>4 DEF RefInv

\* What Holds says of a thread, Has does too, but for a producer that waits for
\* the mutex.
LEMMA RefImplies == CountInv /\ RefInv => FreedOnce
<1> SUFFICES ASSUME CountInv, RefInv, NEW b \in Buffers \ refRaced
             PROVE  /\ freed[b] <= IF b[1] \in Keepers THEN 0 ELSE 1
                    /\ freed[b] = 1 => /\ b \notin Items(list)
                                       /\ \A t \in Threads : Holds(t, b) => pc[t] = "dropcheck"
                    /\ (b \in Items(taken) /\ \A t \in Threads : ~Holds(t, b)) =>
                           IF b[1] \in Keepers THEN refs[b] = 1 ELSE freed[b] = 1
  BY DEF FreedOnce
<1> USE QueueAssumption
<1>1. FreedLast(b)
  BY DEF RefInv
<1>2. TypeOK /\ FreshInv
  BY DEF CountInv, QueueInv
<1>3. \A t \in Threads : Holds(t, b) => Has(t, b)
  <2>1. ASSUME NEW p \in Producers, Holds(p, b) PROVE Has(p, b)
    BY <1>2, <2>1 DEF Holds, Has, TypeOK, ProducerPCs
  <2>2. ASSUME NEW c \in Consumers, Holds(c, b) PROVE Has(c, b)
    BY <1>2, <2>2 DEF Holds, Has, TypeOK, ConsumerPCs, Counting, Detached, Popping, Claiming
  <2> QED
    BY <2>1, <2>2 DEF Threads
<1>4. ASSUME b \in Items(taken), NEW t \in Threads, Has(t, b) PROVE Holds(t, b)
  <2>1. CASE t \in Producers
    <3>1. pc[t] # "lock"
      BY <1>2, <1>4, <2>1 DEF Has, FreshInv, Pushing
    <3> QED
      BY <1>4, <2>1, <3>1 DEF Has, Holds, ProducerPCs
  <2>2. CASE t \in Consumers
    BY <1>4, <2>2 DEF Has, Holds, Counting, Detached, Popping, Claiming
  <2> QED
    BY <2>1, <2>2 DEF Threads
<1>5. ASSUME b \in Items(taken), \A t \in Threads : ~Holds(t, b), b[1] \in Keepers
      PROVE  refs[b] = 1
  <2>1. /\ b \notin Items(list) /\ Kept(b) /\ b[1] \in Threads
        /\ \A t \in Threads : ~Has(t, b)
    BY <1>2, <1>4, <1>5 DEF CountInv, Disjoint, Kept, FreshInv, Threads
  <2> QED
    BY <2>1 DEF RefInv, RightCount, ListShare, OwnerShare, Threads
<1> QED
  BY <1>1, <1>3, <1>4, <1>5 DEF FreedLast

\* Until two updates of its count overlap, a buffer is freed exactly once, by
\* the last of the list, its producer and its consumer to leave it, unless its
\* producer keeps a reference, which then nobody frees: for any number of
\* producers, keepers and consumers (object.cpp:156, rtp.cpp:97).
THEOREM FreedExactlyOnce == Spec => []FreedOnce
<1>1. CountInv' /\ CountInv /\ RefInv /\ [Next]_vars => RefInv'
  BY RefStep
<1> QED
  BY <1>1, RefInit, RefImplies, CountHolds, PTL DEF Spec

-----------------------------------------------------------------------------
(* The event: nobody pops.                                                 *)

\* a counter nobody decrements, and whose updates may overwrite each other
EventInv == TypeOK /\ CurInv /\ SoleInv

\* The invariant of the event holds initially.
LEMMA EventInit0 == EventInit => EventInv
<1> SUFFICES ASSUME Init PROVE EventInv
  BY DEF EventInit
<1> QED
  BY InitTypes, QueueAssumption DEF EventInv, Init, SoleInv, Threads, Claiming, Popping

\* Every step of raisers and waiters keeps the invariant of the event.
LEMMA EventStep == EventInv /\ [EventNext]_evars => EventInv'
<1> SUFFICES ASSUME EventInv, [EventNext]_evars PROVE EventInv'
  OBVIOUS
<1>1. ASSUME NEW p \in Producers, Producer(p) PROVE EventInv'
  BY <1>1, StepTypes, ProducerSole DEF EventInv, Next
<1>2. CASE UNCHANGED vars
  BY <1>2, StepTypes DEF EventInv, SoleInv, vars
<1> QED
  BY <1>1, <1>2 DEF EventNext, Wake, evars

\* The only statement that writes the counter of an event raises it, whatever
\* stale value its increment started from.
LEMMA RaisedStep ==
    ASSUME EventInv, IsInvoked, NEW p \in Producers, Producer(p)
    PROVE  IsInvoked'
<1> USE QueueAssumption DEF Threads, IsInvoked
<1>1. CASE IncStore(p)
  <2>1. size' = reg[p] + 1 /\ reg[p] \in Int /\ reg[p] >= 0
    BY <1>1 DEF IncStore, PushReturns, Goto, EventInv, TypeOK, SoleInv
  <2> QED
    BY <2>1
<1>2. CASE \/ PushRefLoad(p) \/ PushRefStore(p)
           \/ ProducerDropLoad(p) \/ ProducerDropStore(p) \/ ProducerDropCheck(p)
  BY <1>2 DEF PushRefLoad, PushRefStore, ProducerDropLoad, ProducerDropStore, ProducerDropCheck,
        CountLoad, CountStore, FreeIfZero, queueVars
<1>3. CASE Allocate(p) \/ SeeRoom(p) \/ PushLock(p) \/ FindTail(p) \/ Link(p) \/ IncLoad(p)
  BY <1>3 DEF Allocate, SeeRoom, PushLock, Lock, FindTail, Link, IncLoad, queueVars
<1> QED
  BY <1>1, <1>2, <1>3 DEF Producer

\* A raised event stays raised, for any number of raisers and although their
\* increments of the counter may overwrite each other (event.cpp:31).
THEOREM EventIsSticky == EventSpec => Sticky
<1>1. EventInv /\ [EventNext]_evars => [IsInvoked => IsInvoked']_evars
  <2> SUFFICES ASSUME EventInv, EventNext, IsInvoked PROVE IsInvoked'
    OBVIOUS
  <2>1. ASSUME NEW p \in Producers, Producer(p) PROVE IsInvoked'
    BY <2>1, RaisedStep
  <2>2. CASE UNCHANGED vars
    BY <2>2 DEF vars, IsInvoked
  <2> QED
    BY <2>1, <2>2 DEF EventNext, Wake
<1> QED
  BY <1>1, EventInit0, EventStep, PTL DEF EventSpec, Sticky
=============================================================================
