---------------------------- MODULE AppSinkProofs ----------------------------
(***************************************************************************)
(* What is proved of AppSink, for any frames, packets and times.           *)
(***************************************************************************)
EXTENDS AppSink, SequenceTheorems, FiniteSetTheorems, TLAPS

-----------------------------------------------------------------------------
(* Where the threads are, what they have, and in which order.              *)

video == pc["video"]
handler == pc["handler"]
writer == pc["writer"]
closer == pc["closer"]

PopPCs == {"see", "take", "ref", "ref2", "unref", "unref2", "check", "dec", "dec2"}
DropPCs == {"drop", "drop2", "dropcheck"}
PCs == [video   |-> {"test", "pop", "room", "ref", "ref2", "link", "inc", "inc2", "end"} \cup DropPCs,
        handler |-> {"call", "time", "send", "end"} \cup PopPCs,
        writer  |-> {"recv", "copy", "emit", "report"} \cup DropPCs,
        closer  |-> {"open", "peek", "nil", "closed"} \cup PopPCs \cup DropPCs]

\* where a thread has a frame
Holding == {"room", "ref", "ref2", "link", "inc", "inc2", "unref", "unref2", "check", "dec", "dec2",
            "time", "send", "copy", "emit", "report"} \cup DropPCs
Places == Holding \cup PopPCs \cup {"test", "pop", "end", "call", "recv", "open", "peek", "nil", "closed"}

Types ==
    /\ pc \in [Threads -> Places] /\ \A t \in Threads : pc[t] \in PCs[t]
    /\ cur \in [Threads -> 0 .. MaxFrames] /\ reg \in [Threads -> Int]
    /\ popped \in 0 .. MaxFrames /\ out \in Seq(Frames) /\ size \in Int
    /\ refs \in [Frames -> Int] /\ buried \subseteq Frames /\ refRaced \subseteq Frames
    /\ left \in Nat /\ read \in Seq(Frames)
    /\ writer = "emit" => left > 0

Holders ==
    /\ \A t \in Threads : cur[t] # 0 <=> pc[t] \in Holding
    /\ video \in Holding => cur["video"] = popped

\* The video thread has a frame it has not linked yet.
Unlinked == video \in {"room", "ref", "ref2", "link"}

Rising(s) == \A i, j \in DOMAIN s : i < j => s[i] < s[j]

\* Frames overtake each other nowhere on their way.
InLine ==
    /\ Rising(out)
    /\ \A q \in ToSet(out) : q <= popped /\ got < q /\ work < q /\ (Unlinked => q < popped)
    /\ \A t \in Threads : cur[t] <= popped
    /\ \A t \in Threads \ {"video"} : Unlinked => cur[t] < popped
    /\ got # 0 => work < got

LineInv == Types /\ Holders /\ InLine

-----------------------------------------------------------------------------
(* What the steps of each thread do to the line of frames.                 *)

\* The other threads stay where they are.
Only(t) == \A u \in Threads \ {t} : pc'[u] = pc[u] /\ cur'[u] = cur[u] /\ reg'[u] = reg[u]

\* how a step of a thread leaves what it does not use
Frame(t) == /\ Only(t)
            /\ pc' \in [Threads -> Places] /\ pc'[t] \in PCs[t]
            /\ cur' \in [Threads -> 0 .. MaxFrames] /\ reg' \in [Threads -> Int]
            /\ popped' \in 0 .. MaxFrames /\ out' \in Seq(Frames) /\ size' \in Int
            /\ refs' \in [Frames -> Int] /\ buried' \subseteq Frames /\ refRaced' \subseteq Frames
            /\ cur'[t] # 0 <=> pc'[t] \in Holding

LEMMA KnownThreads ==
    /\ \A t \in Threads : t = "video" \/ t = "handler" \/ t = "writer" \/ t = "closer"
    /\ "video" \in Threads /\ "handler" \in Threads /\ "writer" \in Threads /\ "closer" \in Threads
  BY DEF Threads

\* A move within pop, push or drop.
LEMMA GotoFrame ==
    ASSUME Types, Holders, NEW t \in Threads, NEW from \in Places, NEW to \in Places, Goto(t, from, to)
    PROVE  /\ pc[t] = from /\ pc'[t] = to /\ pc' \in [Threads -> Places]
           /\ \A u \in Threads \ {t} : pc'[u] = pc[u]
           /\ from \in Holding => cur[t] \in Frames
  BY AppSinkAssumption DEF Types, Holders, Goto, Frames

LEMMA LoadFrame ==
    ASSUME Types, Holders, NEW t \in Threads, NEW from \in Holding, NEW to \in Holding,
           to \in PCs[t], CountLoad(t, from, to)
    PROVE  Frame(t) /\ UNCHANGED <<cur, popped, queue, flow, flags>>
<1>1. from \in Places /\ to \in Places
  BY DEF Places, Holding, DropPCs
<1>2. /\ Goto(t, from, to) /\ reg' = [reg EXCEPT ![t] = refs[cur[t]]]
      /\ refRaced' = IF Updating(cur[t], t) THEN refRaced \cup {cur[t]} ELSE refRaced
      /\ UNCHANGED <<cur, popped, queue, refs, buried, flow, flags>>
  BY DEF CountLoad
<1>3. /\ pc[t] = from /\ pc'[t] = to /\ pc' \in [Threads -> Places]
      /\ \A u \in Threads \ {t} : pc'[u] = pc[u]
      /\ cur[t] \in Frames
  BY <1>1, <1>2, GotoFrame
<1>4. refs[cur[t]] \in Int /\ refRaced' \subseteq Frames
  BY <1>2, <1>3 DEF Types
<1> QED
  BY <1>2, <1>3, <1>4 DEF Frame, Only, Types, Holders, queue

LEMMA StoreFrame ==
    ASSUME Types, Holders, NEW t \in Threads, NEW from \in Holding, NEW to \in Holding,
           to \in PCs[t], NEW d \in Int, CountStore(t, from, to, d)
    PROVE  Frame(t) /\ UNCHANGED <<cur, popped, queue, flow, flags>>
<1>1. from \in Places /\ to \in Places
  BY DEF Places, Holding, DropPCs
<1>2. /\ Goto(t, from, to) /\ reg' = [reg EXCEPT ![t] = 0]
      /\ refs' = [refs EXCEPT ![cur[t]] = reg[t] + d]
      /\ UNCHANGED <<cur, popped, queue, buried, refRaced, flow, flags>>
  BY DEF CountStore
<1>3. /\ pc[t] = from /\ pc'[t] = to /\ pc' \in [Threads -> Places]
      /\ \A u \in Threads \ {t} : pc'[u] = pc[u]
      /\ cur[t] \in Frames
  BY <1>1, <1>2, GotoFrame
<1>4. refs' \in [Frames -> Int] /\ reg' \in [Threads -> Int]
  <2>1. reg[t] + d \in Int
    BY DEF Types
  <2> QED
    BY <1>2, <1>3, <2>1 DEF Types
<1>5. \A u \in Threads \ {t} : reg'[u] = reg[u]
  BY <1>2 DEF Types
<1> QED
  BY <1>2, <1>3, <1>4, <1>5 DEF Frame, Only, Types, Holders, queue

LEMMA FreeFrame ==
    ASSUME Types, Holders, NEW t \in Threads, NEW from \in {"check", "dropcheck"}, NEW to \in PCs[t],
           to \in Places, FreeIfZero(t, from, to), to \in Holding <=> from = "check"
    PROVE  /\ Frame(t) /\ UNCHANGED <<popped, queue, flow, flags>>
           /\ cur' = IF from = "dropcheck" THEN [cur EXCEPT ![t] = 0] ELSE cur
<1>1. from \in Places /\ from \in Holding
  BY DEF Places, Holding, DropPCs
<1>2. /\ Goto(t, from, to)
      /\ buried' = IF refs[cur[t]] = 0 THEN buried \cup {cur[t]} ELSE buried
      /\ cur' = IF from = "dropcheck" THEN [cur EXCEPT ![t] = 0] ELSE cur
      /\ UNCHANGED <<reg, popped, queue, refs, refRaced, flow, flags>>
  BY DEF FreeIfZero
<1>3. /\ pc[t] = from /\ pc'[t] = to /\ pc' \in [Threads -> Places]
      /\ \A u \in Threads \ {t} : pc'[u] = pc[u]
      /\ cur[t] \in Frames
  BY <1>1, <1>2, GotoFrame
<1>4. buried' \subseteq Frames /\ 0 \in 0 .. MaxFrames
  BY <1>2, <1>3, AppSinkAssumption DEF Types
<1>5. /\ cur' \in [Threads -> 0 .. MaxFrames] /\ \A u \in Threads \ {t} : cur'[u] = cur[u]
      /\ cur'[t] # 0 <=> to \in Holding
  <2>1. CASE from = "dropcheck"
    BY <1>2, <1>4, <2>1 DEF Types
  <2>2. CASE from = "check"
    BY <1>1, <1>2, <1>3, <2>2, AppSinkAssumption DEF Types, Frames
  <2> QED
    BY <2>1, <2>2
<1> QED
  BY <1>2, <1>3, <1>4, <1>5 DEF Frame, Only, Types, queue

LEMMA SizeFrame ==
    ASSUME Types, Holders, NEW t \in Threads, NEW from \in Holding, NEW to \in Holding,
           to \in PCs[t], NEW d \in Int, SizeLoad(t, from, to) \/ SizeStore(t, from, to, d)
    PROVE  Frame(t) /\ UNCHANGED <<cur, popped, out, counts, flow, flags>>
<1>1. from \in Places /\ to \in Places
  BY DEF Places, Holding, DropPCs
<1>2. /\ Goto(t, from, to) /\ reg' \in [Threads -> Int] /\ size' \in Int
      /\ \A u \in Threads \ {t} : reg'[u] = reg[u]
      /\ UNCHANGED <<cur, popped, out, counts, flow, flags>>
  BY DEF SizeLoad, SizeStore, Types, queue
<1>3. /\ pc[t] = from /\ pc'[t] = to /\ pc' \in [Threads -> Places]
      /\ \A u \in Threads \ {t} : pc'[u] = pc[u]
      /\ cur[t] \in Frames
  BY <1>1, <1>2, GotoFrame
<1> QED
  BY <1>2, <1>3 DEF Frame, Only, Types, Holders, counts

\* One step that leaves all but the position of the thread.
LEMMA MoveFrame ==
    ASSUME Types, Holders, NEW t \in Threads, NEW from \in Places, NEW to \in PCs[t], to \in Places,
           Goto(t, from, to), UNCHANGED <<cur, reg, popped, queue, counts>>,
           to \in Holding <=> from \in Holding
    PROVE  Frame(t)
<1>1. /\ pc[t] = from /\ pc'[t] = to /\ pc' \in [Threads -> Places]
      /\ \A u \in Threads \ {t} : pc'[u] = pc[u]
  BY GotoFrame
<1> QED
  BY <1>1 DEF Frame, Only, Types, Holders, queue, counts

VideoRests == /\ UNCHANGED <<popped, out>> /\ (Unlinked' <=> Unlinked)
              /\ video' \in Holding => video \in Holding /\ cur'["video"] = cur["video"]
VideoPops == /\ video = "pop" /\ video' = "room" /\ popped \in 0 .. MaxFrames - 1 /\ out' = out
             /\ popped' = popped + 1 /\ cur'["video"] = popped + 1
VideoLinks == /\ video = "link" /\ video' = "inc" /\ UNCHANGED <<popped, cur>>
              /\ out' = Append(out, cur["video"])

\* BUFFER_UNREF
LEMMA DropMoves ==
    ASSUME Types, Holders, NEW t \in Threads, NEW to \in {"test", "recv", "peek"}, to \in PCs[t],
           DropPCs \subseteq PCs[t], Drop(t, to)
    PROVE  /\ Frame(t) /\ UNCHANGED <<popped, queue, flow, flags>>
           /\ pc[t] \in DropPCs /\ pc'[t] \in {"drop2", "dropcheck", to}
           /\ pc'[t] \in Holding => cur' = cur
           /\ pc'[t] \notin Holding => cur'[t] = 0
<1>1. {"drop", "drop2", "dropcheck"} \subseteq Holding /\ {"drop", "drop2", "dropcheck"} \subseteq PCs[t]
  BY DEF Holding, DropPCs
<1>2. to \in Places /\ to \notin Holding /\ to # "drop2" /\ to # "dropcheck"
  BY DEF Places, Holding, DropPCs
<1>3. CASE DropLoad(t)
  <2>1. CountLoad(t, "drop", "drop2")
    BY <1>3 DEF DropLoad
  <2>2. Frame(t) /\ UNCHANGED <<cur, popped, queue, flow, flags>>
    BY <1>1, <2>1, LoadFrame
  <2>3. pc[t] = "drop" /\ pc'[t] = "drop2"
    BY <1>1, <2>1, GotoFrame DEF CountLoad, Places
  <2> QED
    BY <1>1, <2>2, <2>3 DEF DropPCs
<1>4. CASE DropStore(t)
  <2>1. CountStore(t, "drop2", "dropcheck", -1)
    BY <1>4 DEF DropStore
  <2>2. Frame(t) /\ UNCHANGED <<cur, popped, queue, flow, flags>>
    BY <1>1, <2>1, StoreFrame
  <2>3. pc[t] = "drop2" /\ pc'[t] = "dropcheck"
    BY <1>1, <2>1, GotoFrame DEF CountStore, Places
  <2> QED
    BY <1>1, <2>2, <2>3 DEF DropPCs
<1>5. CASE FreeIfZero(t, "dropcheck", to)
  <2>1. Frame(t) /\ UNCHANGED <<popped, queue, flow, flags>> /\ cur' = [cur EXCEPT ![t] = 0]
    BY <1>2, <1>5, FreeFrame
  <2>2. pc[t] = "dropcheck" /\ pc'[t] = to
    BY <1>1, <1>2, <1>5, GotoFrame DEF FreeIfZero, Places
  <2> QED
    BY <1>2, <2>1, <2>2 DEF DropPCs, Types
<1> QED
  BY <1>3, <1>4, <1>5 DEF Drop

\* queue_array_pop
LEMMA PopMoves ==
    ASSUME Types, Holders, NEW t \in Threads, NEW to \in {"time", "drop"}, to \in PCs[t],
           PopPCs \subseteq PCs[t], Pop(t, to)
    PROVE  /\ Frame(t) /\ UNCHANGED <<popped, flow, flags>>
           /\ pc[t] \in PopPCs /\ pc'[t] \in PopPCs \cup {to}
           /\ \/ UNCHANGED <<cur, out>> /\ (pc'[t] \in Holding <=> pc[t] \in Holding)
              \/ /\ pc[t] = "take" /\ pc'[t] = "ref" /\ out # <<>>
                 /\ cur' = [cur EXCEPT ![t] = Head(out)] /\ out' = Tail(out)
<1>1. /\ {"ref", "ref2", "unref", "unref2", "check", "dec", "dec2", to} \subseteq Holding
      /\ {"see", "take"} \cap Holding = {}
      /\ {"see", "take", "ref", "ref2", "unref", "unref2", "check", "dec", "dec2", to} \subseteq PCs[t]
      /\ Holding \subseteq Places /\ {"see", "take"} \subseteq Places
  BY DEF Holding, DropPCs, PopPCs, Places
<1>2. CASE SeeElement(t)
  <2>1. Goto(t, "see", "take") /\ UNCHANGED <<cur, reg, popped, queue, counts, flow, flags>>
    BY <1>2 DEF SeeElement
  <2>2. Frame(t)
    BY <1>1, <2>1, MoveFrame
  <2>3. pc[t] = "see" /\ pc'[t] = "take"
    BY <1>1, <2>1, GotoFrame
  <2> QED
    BY <1>1, <2>1, <2>2, <2>3 DEF PopPCs, queue
<1>3. CASE Take(t)
  <2>1. /\ Goto(t, "take", "ref") /\ out # <<>>
        /\ cur' = [cur EXCEPT ![t] = Head(out)] /\ out' = Tail(out)
        /\ UNCHANGED <<reg, popped, size, counts, flow, flags>>
    BY <1>3 DEF Take
  <2>2. /\ pc[t] = "take" /\ pc'[t] = "ref" /\ pc' \in [Threads -> Places]
        /\ \A u \in Threads \ {t} : pc'[u] = pc[u]
    BY <1>1, <2>1, GotoFrame
  <2>3. Head(out) \in Frames /\ Tail(out) \in Seq(Frames)
    BY <2>1, HeadTailProperties DEF Types
  <2>4. Head(out) \in 0 .. MaxFrames /\ Head(out) # 0
    BY <2>3, AppSinkAssumption DEF Frames
  <2>5. /\ cur' \in [Threads -> 0 .. MaxFrames] /\ cur'[t] # 0
        /\ \A u \in Threads \ {t} : cur'[u] = cur[u]
    BY <2>1, <2>4 DEF Types
  <2>6. Frame(t)
    BY <1>1, <2>1, <2>2, <2>3, <2>5 DEF Frame, Only, Types, counts
  <2> QED
    BY <2>1, <2>2, <2>6 DEF PopPCs
<1>4. ASSUME NEW from \in Holding, NEW at \in Holding, from \in PopPCs, at \in PopPCs \cup {to},
             \/ CountLoad(t, from, at)
             \/ \E d \in Int : CountStore(t, from, at, d)
             \/ SizeLoad(t, from, at)
             \/ \E d \in Int : SizeStore(t, from, at, d)
      PROVE  /\ Frame(t) /\ UNCHANGED <<popped, out, cur, flow, flags>>
             /\ pc[t] = from /\ pc'[t] = at
  <2>1. at \in PCs[t] /\ from \in Places /\ at \in Places
    BY <1>1, <1>4
  <2>2. pc[t] = from /\ pc'[t] = at
    BY <1>4, <2>1, GotoFrame DEF CountLoad, CountStore, SizeLoad, SizeStore
  <2>3. Frame(t) /\ UNCHANGED <<popped, out, cur, flow, flags>>
    <3>1. CASE CountLoad(t, from, at)
      BY <2>1, <3>1, LoadFrame DEF queue
    <3>2. CASE \E d \in Int : CountStore(t, from, at, d)
      BY <2>1, <3>2, StoreFrame DEF queue
    <3>3. CASE SizeLoad(t, from, at)
      <4>1. 0 \in Int
        OBVIOUS
      <4> QED
        BY <2>1, <3>3, <4>1, SizeFrame
    <3>4. CASE \E d \in Int : SizeStore(t, from, at, d)
      BY <2>1, <3>4, SizeFrame
    <3> QED
      BY <1>4, <3>1, <3>2, <3>3, <3>4
  <2> QED
    BY <2>2, <2>3
<1>5. CASE PopRefLoad(t) \/ PopRefStore(t) \/ PopUnrefLoad(t) \/ PopUnrefStore(t)
  <2>1. /\ 1 \in Int /\ -1 \in Int
        /\ {"ref", "ref2", "unref", "unref2", "check"} \subseteq PopPCs
    BY DEF PopPCs
  <2>2. \/ CountLoad(t, "ref", "ref2") \/ CountStore(t, "ref2", "unref", 1)
        \/ CountLoad(t, "unref", "unref2") \/ CountStore(t, "unref2", "check", -1)
    BY <1>5 DEF PopRefLoad, PopRefStore, PopUnrefLoad, PopUnrefStore
  <2> QED
    BY <1>1, <1>4, <2>1, <2>2
<1>6. CASE PopUnrefCheck(t)
  <2>1. FreeIfZero(t, "check", "dec")
    BY <1>6 DEF PopUnrefCheck
  <2>2. Frame(t) /\ UNCHANGED <<popped, queue, flow, flags>> /\ cur' = cur
    BY <1>1, <2>1, FreeFrame
  <2>3. pc[t] = "check" /\ pc'[t] = "dec"
    BY <1>1, <2>1, GotoFrame DEF FreeIfZero
  <2> QED
    BY <1>1, <2>2, <2>3 DEF PopPCs, queue
<1>7. CASE DecLoad(t) \/ DecStore(t, to)
  <2>1. -1 \in Int /\ {"dec", "dec2"} \subseteq PopPCs
    BY DEF PopPCs
  <2>2. SizeLoad(t, "dec", "dec2") \/ SizeStore(t, "dec2", to, -1)
    BY <1>7 DEF DecLoad, DecStore
  <2> QED
    BY <1>1, <1>4, <2>1, <2>2
<1> QED
  BY <1>2, <1>3, <1>5, <1>6, <1>7 DEF Pop

\* videoBroadcastThread
LEMMA VideoMoves ==
    ASSUME Types, Holders, Video
    PROVE  /\ Frame("video") /\ UNCHANGED <<flow, flags>>
           /\ VideoRests \/ VideoPops \/ VideoLinks
<1> DEFINE v == "video"
<1>0. v \in Threads /\ PCs[v] = {"test", "pop", "room", "ref", "ref2", "link", "inc", "inc2", "end"} \cup DropPCs
  BY DEF Threads, PCs
<1>1. /\ {"room", "ref", "ref2", "link", "inc", "inc2", "drop"} \subseteq Holding
      /\ {"test", "pop", "end"} \cap Holding = {}
      /\ Holding \subseteq Places /\ {"test", "pop", "end"} \subseteq Places
      /\ DropPCs = {"drop", "drop2", "dropcheck"}
  BY DEF Holding, DropPCs, PopPCs, Places
<1>2. CASE VideoTest
  <2>1. PICK to \in {"end", "pop"} : Goto(v, "test", to) /\ UNCHANGED <<cur, reg, popped, queue, counts, flow, flags>>
    BY <1>2 DEF VideoTest
  <2>2. Frame(v)
    BY <1>0, <1>1, <2>1, MoveFrame
  <2>3. pc[v] = "test" /\ pc'[v] = to
    BY <1>0, <1>1, <2>1, GotoFrame
  <2> QED
    BY <1>1, <2>1, <2>2, <2>3 DEF VideoRests, Unlinked, video, queue
<1>3. CASE VideoPop
  <2>1. /\ Goto(v, "pop", "room") /\ popped < MaxFrames /\ popped' = popped + 1
        /\ cur' = [cur EXCEPT ![v] = popped + 1] /\ refs' = [refs EXCEPT ![popped + 1] = 1]
        /\ UNCHANGED <<reg, queue, buried, refRaced, flow, flags>>
    BY <1>3 DEF VideoPop
  <2>2. popped \in 0 .. MaxFrames - 1 /\ popped + 1 \in Frames /\ popped + 1 \in 0 .. MaxFrames /\ popped + 1 # 0
    BY <2>1, AppSinkAssumption DEF Types, Frames
  <2>3. pc[v] = "pop" /\ pc'[v] = "room" /\ pc' \in [Threads -> Places] /\ \A u \in Threads \ {v} : pc'[u] = pc[u]
    BY <1>0, <1>1, <2>1, GotoFrame
  <2>4. /\ cur' \in [Threads -> 0 .. MaxFrames] /\ cur'[v] = popped + 1
        /\ \A u \in Threads \ {v} : cur'[u] = cur[u]
        /\ refs' \in [Frames -> Int]
    BY <1>0, <2>1, <2>2 DEF Types
  <2>5. Frame(v)
    BY <1>0, <1>1, <2>1, <2>2, <2>3, <2>4 DEF Frame, Only, Types, queue
  <2> QED
    BY <2>1, <2>2, <2>3, <2>4, <2>5 DEF VideoPops, video, queue
<1>4. CASE SeeRoom
  <2>1. Goto(v, "room", "ref") /\ UNCHANGED <<cur, reg, popped, queue, counts, flow, flags>>
    BY <1>4 DEF SeeRoom
  <2>2. Frame(v)
    BY <1>0, <1>1, <2>1, MoveFrame
  <2>3. pc[v] = "room" /\ pc'[v] = "ref"
    BY <1>0, <1>1, <2>1, GotoFrame
  <2> QED
    BY <1>1, <2>1, <2>2, <2>3 DEF VideoRests, Unlinked, video, queue
<1>5. CASE PushRefLoad
  <2>1. CountLoad(v, "ref", "ref2")
    BY <1>5 DEF PushRefLoad
  <2>2. Frame(v) /\ UNCHANGED <<cur, popped, queue, flow, flags>>
    BY <1>0, <1>1, <2>1, LoadFrame
  <2>3. pc[v] = "ref" /\ pc'[v] = "ref2"
    BY <1>0, <1>1, <2>1, GotoFrame DEF CountLoad
  <2> QED
    BY <1>1, <2>2, <2>3 DEF VideoRests, Unlinked, video, queue
<1>6. CASE PushRefStore
  <2>1. CountStore(v, "ref2", "link", 1)
    BY <1>6 DEF PushRefStore
  <2>2. Frame(v) /\ UNCHANGED <<cur, popped, queue, flow, flags>>
    BY <1>0, <1>1, <2>1, StoreFrame
  <2>3. pc[v] = "ref2" /\ pc'[v] = "link"
    BY <1>0, <1>1, <2>1, GotoFrame DEF CountStore
  <2> QED
    BY <1>1, <2>2, <2>3 DEF VideoRests, Unlinked, video, queue
<1>7. CASE Link
  <2>1. /\ Goto(v, "link", "inc") /\ out' = Append(out, cur[v])
        /\ UNCHANGED <<cur, reg, popped, size, counts, flow, flags>>
    BY <1>7 DEF Link
  <2>2. /\ pc[v] = "link" /\ pc'[v] = "inc" /\ pc' \in [Threads -> Places]
        /\ (\A u \in Threads \ {v} : pc'[u] = pc[u]) /\ cur[v] \in Frames
    BY <1>0, <1>1, <2>1, GotoFrame
  <2>3. out' \in Seq(Frames)
    BY <2>1, <2>2, AppendProperties DEF Types
  <2>4. Frame(v)
    BY <1>0, <1>1, <2>1, <2>2, <2>3 DEF Frame, Only, Types, Holders, counts
  <2> QED
    BY <2>1, <2>2, <2>4 DEF VideoLinks, video
<1>8. CASE IncLoad \/ IncStore
  <2>1. PICK from \in {"inc", "inc2"}, to \in {"inc2", "drop"} :
           SizeLoad(v, from, to) \/ SizeStore(v, from, to, 1)
    BY <1>8 DEF IncLoad, IncStore
  <2>2. Frame(v) /\ UNCHANGED <<cur, popped, out, counts, flow, flags>>
    BY <1>0, <1>1, <2>1, SizeFrame
  <2>3. pc[v] = from /\ pc'[v] = to
    BY <1>0, <1>1, <2>1, GotoFrame DEF SizeLoad, SizeStore
  <2> QED
    BY <1>1, <2>1, <2>2, <2>3 DEF VideoRests, Unlinked, video
<1>9. CASE Drop(v, "test")
  <2>1. /\ Frame(v) /\ UNCHANGED <<popped, queue, flow, flags>>
        /\ pc[v] \in DropPCs /\ pc'[v] \in {"drop2", "dropcheck", "test"}
        /\ pc'[v] \in Holding => cur' = cur
    BY <1>0, <1>1, <1>9, DropMoves
  <2>2. DropPCs \subseteq Holding
    BY DEF Holding
  <2> QED
    BY <1>1, <2>1, <2>2 DEF VideoRests, Unlinked, video, queue
<1> QED
  BY <1>2, <1>3, <1>4, <1>5, <1>6, <1>7, <1>8, <1>9 DEF Video

\* the goroutine in GoHandleAVPacket, but for the channel
HandlerRests == /\ UNCHANGED <<cur, out, flow>> /\ handler # "send" /\ handler' # "send"
                /\ handler' \in Holding <=> handler \in Holding
HandlerTakes == /\ handler = "take" /\ handler' = "ref" /\ out # <<>> /\ UNCHANGED flow
                /\ cur' = [cur EXCEPT !["handler"] = Head(out)] /\ out' = Tail(out)
HandlerTimes == /\ handler = "time" /\ handler' = "send" /\ UNCHANGED <<cur, out>>
                /\ duration' = [duration EXCEPT !.got = ToInt(Created[got] - prev)]
                /\ prev' = Created[got] /\ UNCHANGED <<left, clock, stamped, read>>

LEMMA HandlerMoves ==
    ASSUME Types, Holders, Handler
    PROVE  \/ /\ Frame("handler") /\ UNCHANGED <<popped, flags>>
              /\ HandlerRests \/ HandlerTakes \/ HandlerTimes
           \/ Channel
<1> DEFINE h == "handler"
<1>0. h \in Threads /\ PCs[h] = {"call", "time", "send", "end"} \cup PopPCs
  BY DEF Threads, PCs
<1>1. /\ {"time", "send"} \subseteq Holding /\ {"call", "see", "end"} \cap Holding = {}
      /\ {"time", "send", "call", "see", "end"} \subseteq Places /\ "see" \in PopPCs
      /\ {"call", "time", "send", "end"} \cap PopPCs = {}
  BY DEF Holding, DropPCs, PopPCs, Places
<1>2. CASE HandlerCall
  <2>1. PICK to \in {"end", "see"} : Goto(h, "call", to) /\ UNCHANGED <<cur, reg, popped, queue, counts, flow, flags>>
    BY <1>2 DEF HandlerCall
  <2>2. Frame(h)
    BY <1>0, <1>1, <2>1, MoveFrame
  <2>3. pc[h] = "call" /\ pc'[h] = to
    BY <1>0, <1>1, <2>1, GotoFrame
  <2> QED
    BY <1>1, <2>1, <2>2, <2>3 DEF HandlerRests, handler, queue
<1>3. CASE Pop(h, "time")
  <2>1. /\ Frame(h) /\ UNCHANGED <<popped, flow, flags>>
        /\ pc[h] \in PopPCs /\ pc'[h] \in PopPCs \cup {"time"}
        /\ \/ UNCHANGED <<cur, out>> /\ (pc'[h] \in Holding <=> pc[h] \in Holding)
           \/ /\ pc[h] = "take" /\ pc'[h] = "ref" /\ out # <<>>
              /\ cur' = [cur EXCEPT ![h] = Head(out)] /\ out' = Tail(out)
    BY <1>0, <1>1, <1>3, PopMoves
  <2> QED
    BY <1>1, <2>1 DEF HandlerRests, HandlerTakes, handler
<1>4. CASE HandlerTime
  <2>1. /\ Goto(h, "time", "send")
        /\ duration' = [duration EXCEPT !.got = ToInt(Created[got] - prev)]
        /\ prev' = Created[got]
        /\ UNCHANGED <<cur, reg, popped, queue, counts, left, clock, stamped, read, flags>>
    BY <1>4 DEF HandlerTime
  <2>2. Frame(h)
    BY <1>0, <1>1, <2>1, MoveFrame
  <2>3. pc[h] = "time" /\ pc'[h] = "send"
    BY <1>0, <1>1, <2>1, GotoFrame
  <2> QED
    BY <2>1, <2>2, <2>3 DEF HandlerTimes, handler, queue
<1> QED
  BY <1>2, <1>3, <1>4 DEF Handler

\* the channel: the frame goes from one goroutine to the other
LEMMA ChannelMoves ==
    ASSUME Types, Holders, Channel
    PROVE  /\ handler = "send" /\ handler' = "call" /\ writer = "recv" /\ writer' = "copy"
           /\ pc' \in [Threads -> Places] /\ \A t \in Threads : pc'[t] \in PCs[t]
           /\ cur' \in [Threads -> 0 .. MaxFrames]
           /\ got' = 0 /\ work' = got /\ got # 0 /\ work = 0
           /\ \A t \in {"video", "closer"} : cur'[t] = cur[t] /\ pc'[t] = pc[t]
           /\ duration' = [got |-> 0, work |-> duration.got]
           /\ UNCHANGED <<reg, popped, queue, counts, left, prev, clock, stamped, read, flags>>
<1>0. /\ "handler" \in Threads /\ "writer" \in Threads /\ "video" \in Threads /\ "closer" \in Threads
      /\ "call" \in Places /\ "copy" \in Places /\ "call" \in PCs["handler"] /\ "copy" \in PCs["writer"]
      /\ "send" \in Holding /\ "recv" \notin Holding
  BY DEF Threads, Places, PCs, Holding, DropPCs, PopPCs
<1>1. /\ pc["handler"] = "send" /\ pc["writer"] = "recv"
      /\ pc' = [[pc EXCEPT !["handler"] = "call"] EXCEPT !["writer"] = "copy"]
      /\ cur' = [[cur EXCEPT !["handler"] = 0] EXCEPT !["writer"] = got]
      /\ duration' = [got |-> 0, work |-> duration.got]
      /\ UNCHANGED <<reg, popped, queue, counts, left, prev, clock, stamped, read, flags>>
  BY DEF Channel
<1>2. got \in 0 .. MaxFrames /\ got # 0 /\ work = 0 /\ 0 \in 0 .. MaxFrames
  BY <1>0, <1>1, AppSinkAssumption DEF Types, Holders, got, work
<1>3. /\ pc' \in [Threads -> Places] /\ pc'["handler"] = "call" /\ pc'["writer"] = "copy"
      /\ \A t \in Threads \ {"handler", "writer"} : pc'[t] = pc[t]
  BY <1>0, <1>1 DEF Types
<1>4. /\ cur' \in [Threads -> 0 .. MaxFrames] /\ cur'["handler"] = 0 /\ cur'["writer"] = got
      /\ \A t \in Threads \ {"handler", "writer"} : cur'[t] = cur[t]
  BY <1>0, <1>1, <1>2 DEF Types
<1>5. \A t \in Threads : pc'[t] \in PCs[t]
  BY <1>0, <1>3 DEF Types
<1> QED
  BY <1>0, <1>1, <1>2, <1>3, <1>4, <1>5 DEF handler, writer, got, work

\* the goroutine in writeSample
WriterCopies == /\ writer = "copy" /\ UNCHANGED <<cur, prev, duration, read>>
                /\ writer' = IF PacketsOf[work] > 0 THEN "emit" ELSE "report"
                /\ left' = PacketsOf[work]
                /\ stamped' = Append(stamped, [frame |-> work, clock |-> clock])
                /\ \E samples \in SamplesOf(duration.work) : clock' = (clock + samples) % ClockModulus
WriterEmits == /\ writer = "emit" /\ UNCHANGED <<cur, times>>
               /\ writer' = IF left > 1 THEN "emit" ELSE "report"
               /\ left' = left - 1 /\ read' = Append(read, work)
WriterRests == /\ writer \in {"report"} \cup DropPCs /\ writer' \in {"recv"} \cup DropPCs /\ UNCHANGED flow
               /\ writer' \in DropPCs => cur' = cur
               /\ writer' = "recv" => work' = 0

LEMMA WriterMoves ==
    ASSUME Types, Holders, Writer
    PROVE  /\ Frame("writer") /\ UNCHANGED <<popped, out, flags>>
           /\ WriterCopies \/ WriterEmits \/ WriterRests
<1> DEFINE w == "writer"
<1>0. w \in Threads /\ PCs[w] = {"recv", "copy", "emit", "report"} \cup DropPCs
  BY DEF Threads, PCs
<1>1. /\ {"copy", "emit", "report", "drop"} \subseteq Holding /\ "recv" \notin Holding
      /\ {"recv", "copy", "emit", "report", "drop"} \subseteq Places /\ DropPCs \subseteq Holding
      /\ DropPCs = {"drop", "drop2", "dropcheck"}
  BY DEF Holding, DropPCs, PopPCs, Places
<1>2. CASE WriterCopy
  <2>1. PICK to \in {"emit", "report"} :
           /\ to = IF PacketsOf[work] > 0 THEN "emit" ELSE "report"
           /\ Goto(w, "copy", to)
    BY <1>2 DEF WriterCopy
  <2>2. UNCHANGED <<cur, reg, popped, queue, counts, prev, duration, read, flags>>
    BY <1>2 DEF WriterCopy
  <2>3. Frame(w)
    BY <1>0, <1>1, <2>1, <2>2, MoveFrame
  <2>4. pc[w] = "copy" /\ pc'[w] = to
    BY <1>0, <1>1, <2>1, GotoFrame
  <2>5. /\ left' = PacketsOf[work] /\ stamped' = Append(stamped, [frame |-> work, clock |-> clock])
        /\ \E samples \in SamplesOf(duration.work) : clock' = (clock + samples) % ClockModulus
    BY <1>2 DEF WriterCopy
  <2> QED
    BY <2>1, <2>2, <2>3, <2>4, <2>5 DEF WriterCopies, writer, queue
<1>3. CASE WriterEmit
  <2>1. PICK to \in {"emit", "report"} :
           /\ to = IF left > 1 THEN "emit" ELSE "report"
           /\ Goto(w, "emit", to)
    BY <1>3 DEF WriterEmit
  <2>2. UNCHANGED <<cur, reg, popped, queue, counts, times, flags>> /\ left' = left - 1 /\ read' = Append(read, work)
    BY <1>3 DEF WriterEmit
  <2>3. Frame(w)
    BY <1>0, <1>1, <2>1, <2>2, MoveFrame
  <2>4. pc[w] = "emit" /\ pc'[w] = to
    BY <1>0, <1>1, <2>1, GotoFrame
  <2> QED
    BY <2>1, <2>2, <2>3, <2>4 DEF WriterEmits, writer, queue
<1>4. CASE WriterReport
  <2>1. Goto(w, "report", "drop") /\ UNCHANGED <<cur, reg, popped, queue, counts, flow, flags>>
    BY <1>4 DEF WriterReport
  <2>2. Frame(w)
    BY <1>0, <1>1, <2>1, MoveFrame
  <2>3. pc[w] = "report" /\ pc'[w] = "drop"
    BY <1>0, <1>1, <2>1, GotoFrame
  <2> QED
    BY <1>1, <2>1, <2>2, <2>3 DEF WriterRests, writer, queue
<1>5. CASE WriterDrop
  <2>1. /\ Frame(w) /\ UNCHANGED <<popped, queue, flow, flags>>
        /\ pc[w] \in DropPCs /\ pc'[w] \in {"drop2", "dropcheck", "recv"}
        /\ pc'[w] \in Holding => cur' = cur
        /\ pc'[w] \notin Holding => cur'[w] = 0
    BY <1>0, <1>1, <1>5, DropMoves DEF WriterDrop
  <2> QED
    BY <1>1, <2>1 DEF WriterRests, writer, work, queue
<1> QED
  BY <1>2, <1>3, <1>4, <1>5 DEF Writer

\* the thread in Close
CloserTakes == /\ closer = "take" /\ out # <<>> /\ out' = Tail(out)
               /\ cur' = [cur EXCEPT !["closer"] = Head(out)]

LEMMA CloseMoves ==
    ASSUME Types, Holders, Close
    PROVE  /\ Frame("closer") /\ UNCHANGED <<popped, flow, fault>> /\ closer' # "open"
           /\ (out' = out /\ cur'["closer"] \in {cur["closer"], 0}) \/ CloserTakes
<1> DEFINE c == "closer"
<1>0. c \in Threads /\ PCs[c] = {"open", "peek", "nil", "closed"} \cup PopPCs \cup DropPCs
  BY DEF Threads, PCs
<1>1. /\ {"open", "peek", "nil", "closed", "see"} \cap Holding = {}
      /\ {"open", "peek", "nil", "closed", "see"} \subseteq Places /\ "see" \in PopPCs
      /\ "drop" \in DropPCs /\ DropPCs \subseteq Holding
      /\ "open" \notin PopPCs /\ "open" \notin DropPCs
  BY DEF Holding, DropPCs, PopPCs, Places
<1>2. CASE CloseRaise \/ ClosePeek \/ CloseNil
  <2>1. PICK from \in {"open", "peek", "nil"}, to \in {"peek", "nil", "see", "closed"} :
           Goto(c, from, to) /\ UNCHANGED <<cur, reg, popped, queue, counts, flow, fault>>
    BY <1>2 DEF CloseRaise, ClosePeek, CloseNil
  <2>2. Frame(c)
    BY <1>0, <1>1, <2>1, MoveFrame
  <2>3. pc'[c] = to
    BY <1>0, <1>1, <2>1, GotoFrame
  <2> QED
    BY <2>1, <2>2, <2>3 DEF closer, queue
<1>3. CASE Pop(c, "drop")
  <2>1. /\ Frame(c) /\ UNCHANGED <<popped, flow, flags>>
        /\ pc[c] \in PopPCs /\ pc'[c] \in PopPCs \cup {"drop"}
        /\ \/ UNCHANGED <<cur, out>> /\ (pc'[c] \in Holding <=> pc[c] \in Holding)
           \/ /\ pc[c] = "take" /\ pc'[c] = "ref" /\ out # <<>>
              /\ cur' = [cur EXCEPT ![c] = Head(out)] /\ out' = Tail(out)
    BY <1>0, <1>1, <1>3, PopMoves
  <2> QED
    BY <1>1, <2>1 DEF CloserTakes, closer, flags
<1>4. CASE Drop(c, "peek")
  <2>1. /\ Frame(c) /\ UNCHANGED <<popped, queue, flow, flags>>
        /\ pc'[c] \in {"drop2", "dropcheck", "peek"}
        /\ pc'[c] \in Holding => cur' = cur
        /\ pc'[c] \notin Holding => cur'[c] = 0
    BY <1>0, <1>1, <1>4, DropMoves
  <2> QED
    BY <1>1, <2>1 DEF closer, queue, flags
<1> QED
  BY <1>2, <1>3, <1>4 DEF Close

-----------------------------------------------------------------------------
(* The line of frames stays in order.                                      *)

LEMMA RisingTail ==
    ASSUME NEW s \in Seq(Frames), s # <<>>, Rising(s)
    PROVE  /\ Head(s) \in Frames /\ Tail(s) \in Seq(Frames) /\ Rising(Tail(s))
           /\ ToSet(s) = {Head(s)} \cup ToSet(Tail(s))
           /\ \A q \in ToSet(Tail(s)) : Head(s) < q
<1>1. /\ Head(s) = s[1] /\ s[1] \in Frames /\ Tail(s) \in Seq(Frames)
      /\ Len(s) \in Nat /\ Len(s) >= 1 /\ DOMAIN s = 1 .. Len(s)
      /\ Len(Tail(s)) = Len(s) - 1 /\ DOMAIN Tail(s) = 1 .. Len(s) - 1
      /\ \A i \in 1 .. Len(s) - 1 : Tail(s)[i] = s[i + 1]
  <2>1. Len(s) \in Nat /\ Len(s) # 0 /\ DOMAIN s = 1 .. Len(s)
    BY LenProperties, EmptySeq
  <2>2. Tail(s) \in Seq(Frames) /\ Len(Tail(s)) = Len(s) - 1 /\ \A i \in 1 .. Len(Tail(s)) : Tail(s)[i] = s[i + 1]
    BY HeadTailProperties
  <2>3. DOMAIN Tail(s) = 1 .. Len(Tail(s))
    BY <2>2, LenProperties
  <2>4. Head(s) = s[1] /\ s[1] \in Frames
    BY HeadTailProperties
  <2> QED
    BY <2>1, <2>2, <2>3, <2>4
<1>2. Rising(Tail(s))
  BY <1>1 DEF Rising
<1>3. ToSet(s) = {s[1]} \cup ToSet(Tail(s))
  <2>1. \A i \in 1 .. Len(s) : i = 1 \/ (i - 1 \in 1 .. Len(s) - 1 /\ s[i] = Tail(s)[i - 1])
    BY <1>1
  <2>2. \A i \in 1 .. Len(s) - 1 : i + 1 \in 1 .. Len(s) /\ Tail(s)[i] = s[i + 1]
    BY <1>1
  <2>3. ToSet(s) \subseteq {s[1]} \cup ToSet(Tail(s))
    <3> SUFFICES ASSUME NEW i \in 1 .. Len(s) PROVE s[i] \in {s[1]} \cup ToSet(Tail(s))
      BY <1>1 DEF ToSet
    <3>1. CASE i = 1
      BY <3>1
    <3>2. CASE i # 1
      <4>1. i - 1 \in DOMAIN Tail(s) /\ s[i] = Tail(s)[i - 1]
        BY <1>1, <2>1, <3>2
      <4> QED
        BY <4>1 DEF ToSet
    <3> QED
      BY <3>1, <3>2
  <2>4. ToSet(Tail(s)) \subseteq ToSet(s) /\ s[1] \in ToSet(s)
    <3>1. 1 \in 1 .. Len(s)
      BY <1>1
    <3> QED
      BY <1>1, <2>2, <3>1 DEF ToSet
  <2> QED
    BY <2>3, <2>4
<1>4. \A q \in ToSet(Tail(s)) : s[1] < q
  <2>1. \A i \in 1 .. Len(s) - 1 : s[1] < Tail(s)[i]
    BY <1>1 DEF Rising
  <2> QED
    BY <1>1, <2>1 DEF ToSet
<1> QED
  BY <1>1, <1>2, <1>3, <1>4

LEMMA RisingAppend ==
    ASSUME NEW s \in Seq(Frames), NEW f \in Frames, Rising(s), \A q \in ToSet(s) : q < f
    PROVE  Rising(Append(s, f)) /\ ToSet(Append(s, f)) = ToSet(s) \cup {f}
<1>1. /\ Len(s) \in Nat /\ DOMAIN s = 1 .. Len(s)
      /\ DOMAIN Append(s, f) = 1 .. Len(s) + 1 /\ Append(s, f)[Len(s) + 1] = f
      /\ \A i \in 1 .. Len(s) : Append(s, f)[i] = s[i]
  <2>1. /\ Append(s, f) \in Seq(Frames) /\ Len(Append(s, f)) = Len(s) + 1
        /\ \A i \in 1 .. Len(s) : Append(s, f)[i] = s[i]
        /\ Append(s, f)[Len(s) + 1] = f
    BY AppendProperties
  <2> QED
    BY <2>1, LenProperties
<1>2. \A i \in 1 .. Len(s) : s[i] < f
  BY <1>1 DEF ToSet
<1>3. \A i \in 1 .. Len(s) + 1 : i \in 1 .. Len(s) \/ i = Len(s) + 1
  BY <1>1
<1>4. Rising(Append(s, f))
  <2> SUFFICES ASSUME NEW i \in 1 .. Len(s) + 1, NEW j \in 1 .. Len(s) + 1, i < j
               PROVE  Append(s, f)[i] < Append(s, f)[j]
    BY <1>1 DEF Rising
  <2>1. i \in 1 .. Len(s)
    BY <1>1
  <2> QED
    BY <1>1, <1>2, <1>3, <2>1 DEF Rising
<1>5. ToSet(Append(s, f)) = ToSet(s) \cup {f}
  <2>1. Len(s) + 1 \in 1 .. Len(s) + 1 /\ 1 .. Len(s) \subseteq 1 .. Len(s) + 1
    BY <1>1
  <2> QED
    BY <1>1, <1>3, <2>1 DEF ToSet
<1> QED
  BY <1>4, <1>5

\* the frames in the queue are frames
LEMMA QueuedFrames ==
    ASSUME Types
    PROVE  ToSet(out) \subseteq Frames /\ Frames \subseteq Nat \ {0} /\ Frames \subseteq Int
           /\ popped \in Nat /\ \A t \in Threads : cur[t] \in Nat
<1>1. DOMAIN out = 1 .. Len(out) /\ \A i \in 1 .. Len(out) : out[i] \in Frames
  BY LenProperties, ElementOfSeq DEF Types
<1>2. ToSet(out) \subseteq Frames
  BY <1>1 DEF ToSet
<1>3. \A q \in Frames : q \in Nat /\ q > 0
  BY AppSinkAssumption DEF Frames
<1> QED
  BY <1>2, <1>3, AppSinkAssumption DEF Types

\* a frame that is not linked yet is one of those taken
LEMMA UnlinkedFrame ==
    ASSUME Types, Holders, Unlinked
    PROVE  popped > 0 /\ popped \in Frames
<1>1. pc["video"] \in Holding
  BY DEF Unlinked, Holding, video
<1>2. cur["video"] = popped /\ cur["video"] # 0 /\ popped \in 0 .. MaxFrames
  BY <1>1, KnownThreads DEF Holders, Types, video
<1> QED
  BY <1>2, AppSinkAssumption DEF Frames

\* What a step of one thread keeps.
LEMMA FrameKeeps ==
    ASSUME Types, Holders, NEW t \in Threads, Frame(t), left' \in Nat, read' \in Seq(Frames),
           writer' = "emit" => left' > 0,
           video' \in Holding => cur'["video"] = popped'
    PROVE  Types' /\ Holders'
<1>1. \A u \in Threads : pc'[u] \in PCs[u]
  BY DEF Frame, Only, Types
<1>2. \A u \in Threads : cur'[u] # 0 <=> pc'[u] \in Holding
  BY DEF Frame, Only, Holders
<1>3. Types'
  BY <1>1 DEF Types, Frame
<1>4. Holders'
  BY <1>2 DEF Holders
<1> QED
  BY <1>3, <1>4

LEMMA LineInit == Init => LineInv
<1> SUFFICES ASSUME Init PROVE LineInv
  OBVIOUS
<1>1. /\ pc = [video |-> "test", handler |-> "call", writer |-> "recv", closer |-> "open"]
      /\ cur = [t \in Threads |-> 0] /\ reg = [t \in Threads |-> 0]
      /\ popped = 0 /\ out = <<>> /\ size = 0 /\ refs = [f \in Frames |-> 0] /\ buried = {} /\ refRaced = {}
      /\ left = 0 /\ read = <<>>
  BY DEF Init
<1>2. pc \in [Threads -> Places] /\ \A t \in Threads : pc[t] \in PCs[t] /\ pc[t] \notin Holding
  <2>1. pc["video"] = "test" /\ pc["handler"] = "call" /\ pc["writer"] = "recv" /\ pc["closer"] = "open"
        /\ DOMAIN pc = Threads
    BY <1>1 DEF Threads
  <2>2. {"test", "call", "recv", "open"} \subseteq Places /\ {"test", "call", "recv", "open"} \cap Holding = {}
    BY DEF Places, Holding, DropPCs, PopPCs
  <2>3. /\ "test" \in PCs["video"] /\ "call" \in PCs["handler"]
        /\ "recv" \in PCs["writer"] /\ "open" \in PCs["closer"]
    BY DEF PCs
  <2>4. \A t \in Threads : pc[t] \in {"test", "call", "recv", "open"} /\ pc[t] \in PCs[t]
    BY <2>1, <2>3, KnownThreads
  <2>5. pc = [t \in Threads |-> pc[t]]
    BY <1>1 DEF Threads
  <2> QED
    BY <2>2, <2>4, <2>5
<1>3. Types
  <2>1. writer # "emit"
    BY <1>1 DEF writer
  <2> QED
    BY <1>1, <1>2, <2>1, AppSinkAssumption DEF Types
<1>4. Holders
  BY <1>1, <1>2, KnownThreads DEF Holders, video
<1>5. InLine
  BY <1>1, <1>2, KnownThreads DEF InLine, Rising, ToSet, got, Unlinked, video
<1> QED
  BY <1>3, <1>4, <1>5 DEF LineInv

LEMMA LineVideo == LineInv /\ Video => LineInv'
<1> SUFFICES ASSUME LineInv, Video PROVE LineInv'
  OBVIOUS
<1>1. Types /\ Holders /\ InLine
  BY DEF LineInv
<1>2. Frame("video") /\ UNCHANGED <<flow, flags>> /\ (VideoRests \/ VideoPops \/ VideoLinks)
  BY <1>1, VideoMoves
<1>3. UNCHANGED <<left, read, writer>> /\ got' = got /\ work' = work
      /\ \A t \in Threads \ {"video"} : cur'[t] = cur[t]
  BY <1>2, KnownThreads DEF Frame, Only, flow, writer, got, work
<1>4. /\ "room" \in Holding /\ "link" \in Holding /\ "inc" \in Holding
      /\ {"room", "ref", "ref2", "link"} \subseteq Holding
  BY DEF Holding
<1>5. video' \in Holding => cur'["video"] = popped'
  BY <1>1, <1>2, <1>4 DEF VideoRests, VideoPops, VideoLinks, Holders
<1>6. Types' /\ Holders'
  BY <1>1, <1>2, <1>3, <1>5, FrameKeeps, KnownThreads DEF Types
<1>7. /\ ToSet(out) \subseteq Frames /\ \A q \in ToSet(out) : q \in Nat
      /\ popped \in Nat /\ \A t \in Threads : cur[t] \in Nat
  BY <1>1, QueuedFrames
<1>8. popped' \in Nat /\ \A t \in Threads : cur'[t] \in Nat
  BY <1>6, QueuedFrames, AppSinkAssumption DEF Types
<1>9. InLine'
  <2>1. CASE VideoRests
    <3>1. popped' = popped /\ out' = out /\ ToSet(out)' = ToSet(out) /\ (Unlinked' <=> Unlinked)
      BY <2>1 DEF VideoRests
    <3>2. cur'["video"] <= popped
      BY <1>1, <1>6, <1>7, <2>1, KnownThreads DEF VideoRests, InLine, Holders, video
    <3> QED
      BY <1>1, <1>3, <1>7, <3>1, <3>2 DEF InLine, Rising
  <2>2. CASE VideoPops
    <3>1. popped' = popped + 1 /\ out' = out /\ ToSet(out)' = ToSet(out) /\ cur'["video"] = popped + 1
      BY <2>2 DEF VideoPops
    <3>2. \A q \in ToSet(out) : q <= popped /\ q <= popped + 1 /\ q < popped + 1 /\ got < q /\ work < q
      BY <1>1, <1>7 DEF InLine
    <3>3. \A t \in Threads : cur'[t] <= popped + 1 /\ (t # "video" => cur'[t] < popped + 1)
      BY <1>1, <1>3, <1>7, <3>1 DEF InLine
    <3> QED
      BY <1>1, <1>3, <3>1, <3>2, <3>3 DEF InLine, Rising
  <2>3. CASE VideoLinks
    <3>1. /\ popped' = popped /\ cur' = cur /\ out' = Append(out, cur["video"]) /\ ~Unlinked' /\ Unlinked
          /\ cur["video"] = popped /\ cur["video"] \in Frames
      <4>1. popped' = popped /\ cur' = cur /\ out' = Append(out, cur["video"]) /\ video = "link" /\ video' = "inc"
        BY <2>3 DEF VideoLinks
      <4> QED
        BY <1>1, <1>4, <4>1, KnownThreads, AppSinkAssumption DEF Unlinked, Holders, Types, Frames, video
    <3>2. \A q \in ToSet(out) : q < cur["video"]
      BY <1>1, <3>1 DEF InLine
    <3>3. Rising(out)' /\ ToSet(out)' = ToSet(out) \cup {popped}
      BY <1>1, <3>1, <3>2, RisingAppend DEF InLine, Types, Rising
    <3>4. got < popped /\ work < popped
      BY <1>1, <3>1, KnownThreads DEF InLine, got, work
    <3> QED
      BY <1>1, <1>3, <1>7, <3>1, <3>3, <3>4 DEF InLine
  <2> QED
    BY <1>2, <2>1, <2>2, <2>3
<1> QED
  BY <1>6, <1>9 DEF LineInv

\* A pop by one of the two threads that pop.
LEMMA LineTake ==
    ASSUME LineInv, NEW t \in {"handler", "closer"}, out # <<>>, out' = Tail(out), cur[t] = 0,
           cur' = [cur EXCEPT ![t] = Head(out)], UNCHANGED popped, Unlinked' <=> Unlinked
    PROVE  InLine'
<1>1. Types /\ Holders /\ InLine /\ t \in Threads
  BY KnownThreads DEF LineInv
<1>2. /\ Head(out) \in Frames /\ Rising(out)' /\ ToSet(out) = {Head(out)} \cup ToSet(out)'
      /\ \A q \in ToSet(out)' : Head(out) < q
  BY <1>1, RisingTail DEF Types, InLine, Rising
<1>3. ToSet(out) \subseteq Frames /\ Frames \subseteq Nat \ {0} /\ popped \in Nat /\ \A u \in Threads : cur[u] \in Nat
  BY <1>1, QueuedFrames
<1>4. cur'[t] = Head(out) /\ \A u \in Threads \ {t} : cur'[u] = cur[u]
  BY <1>1 DEF Types
<1>5. work' = work /\ got' = IF t = "handler" THEN Head(out) ELSE got
  BY <1>4, KnownThreads DEF got, work
<1>6. Head(out) \in ToSet(out) /\ ToSet(out)' \subseteq ToSet(out)
  BY <1>2
<1>7. Head(out) <= popped /\ got < Head(out) /\ work < Head(out) /\ (Unlinked => Head(out) < popped)
  BY <1>1, <1>6 DEF InLine
<1>8. \A u \in Threads : cur'[u] <= popped
  BY <1>1, <1>4, <1>7 DEF InLine
<1>9. \A u \in Threads \ {"video"} : Unlinked => cur'[u] < popped
  BY <1>1, <1>4, <1>7 DEF InLine
<1>10. \A q \in ToSet(out)' : q <= popped /\ got' < q /\ work' < q /\ (Unlinked => q < popped)
  BY <1>1, <1>2, <1>5, <1>6 DEF InLine
<1>11. got' # 0 => work' < got'
  BY <1>1, <1>5, <1>7 DEF InLine
<1> QED
  BY <1>2, <1>8, <1>9, <1>10, <1>11 DEF InLine

LEMMA LineHandler == LineInv /\ Handler => LineInv'
<1> SUFFICES ASSUME LineInv, Handler PROVE LineInv'
  OBVIOUS
<1>1. Types /\ Holders /\ InLine
  BY DEF LineInv
<1>2. ToSet(out) \subseteq Frames /\ Frames \subseteq Nat \ {0} /\ popped \in Nat /\ \A t \in Threads : cur[t] \in Nat
  BY <1>1, QueuedFrames
<1>3. ASSUME Frame("handler"), UNCHANGED <<popped, flags>>, HandlerRests \/ HandlerTakes \/ HandlerTimes
      PROVE  LineInv'
  <2>1. video' = video /\ writer' = writer /\ (Unlinked' <=> Unlinked) /\ cur'["video"] = cur["video"]
    BY <1>3, KnownThreads DEF Frame, Only, video, writer, Unlinked
  <2>2. left' = left /\ read' = read
    BY <1>3 DEF HandlerRests, HandlerTakes, HandlerTimes, flow
  <2>3. Types' /\ Holders'
    BY <1>1, <1>3, <2>1, <2>2, FrameKeeps, KnownThreads DEF Types, Holders
  <2>4. InLine'
    <3>1. CASE HandlerTakes
      <4>1. /\ out # <<>> /\ out' = Tail(out) /\ cur' = [cur EXCEPT !["handler"] = Head(out)] /\ handler = "take"
        BY <3>1 DEF HandlerTakes
      <4>2. cur["handler"] = 0
        BY <1>1, <4>1, KnownThreads DEF Holders, handler, Holding, DropPCs
      <4> QED
        BY <1>3, <2>1, <4>1, <4>2, LineTake
    <3>2. CASE HandlerRests \/ HandlerTimes
      <4>1. cur' = cur /\ out' = out /\ popped' = popped /\ ToSet(out)' = ToSet(out) /\ got' = got /\ work' = work
        BY <1>3, <3>2 DEF HandlerRests, HandlerTimes, got, work
      <4> QED
        BY <1>1, <2>1, <4>1 DEF InLine, Rising
    <3> QED
      BY <1>3, <3>1, <3>2
  <2> QED
    BY <2>3, <2>4 DEF LineInv
<1>4. CASE Channel
  <2>1. /\ handler = "send" /\ handler' = "call" /\ writer = "recv" /\ writer' = "copy"
        /\ pc' \in [Threads -> Places] /\ \A t \in Threads : pc'[t] \in PCs[t]
        /\ cur' \in [Threads -> 0 .. MaxFrames]
        /\ got' = 0 /\ work' = got /\ got # 0 /\ work = 0
        /\ \A t \in {"video", "closer"} : cur'[t] = cur[t] /\ pc'[t] = pc[t]
        /\ UNCHANGED <<reg, popped, queue, counts, left, prev, clock, stamped, read, flags>>
    BY <1>1, <1>4, ChannelMoves
  <2>2. /\ out' = out /\ ToSet(out)' = ToSet(out) /\ popped' = popped /\ size' = size
        /\ UNCHANGED <<refs, buried, refRaced>> /\ (Unlinked' <=> Unlinked) /\ video' = video
    BY <2>1 DEF queue, counts, video, Unlinked
  <2>3. Types'
    BY <1>1, <2>1, <2>2 DEF Types
  <2>4. Holders'
    <3>1. "call" \notin Holding /\ "copy" \in Holding
      BY DEF Holding, DropPCs
    <3> QED
      BY <1>1, <2>1, <2>2, <3>1, KnownThreads DEF Holders, got, work, handler, writer, video
  <2>5. InLine'
    <3>1. \A t \in Threads : cur'[t] <= popped /\ (t # "video" /\ Unlinked => cur'[t] < popped)
      BY <1>1, <1>2, <2>1, KnownThreads DEF InLine, got, work
    <3> QED
      BY <1>1, <1>2, <2>1, <2>2, <3>1 DEF InLine, Rising
  <2> QED
    BY <2>3, <2>4, <2>5 DEF LineInv
<1> QED
  BY <1>1, <1>3, <1>4, HandlerMoves

LEMMA LineWriter == LineInv /\ Writer => LineInv'
<1> SUFFICES ASSUME LineInv, Writer PROVE LineInv'
  OBVIOUS
<1>1. Types /\ Holders /\ InLine
  BY DEF LineInv
<1>2. ToSet(out) \subseteq Frames /\ Frames \subseteq Nat \ {0} /\ popped \in Nat /\ \A t \in Threads : cur[t] \in Nat
  BY <1>1, QueuedFrames
<1>3. Frame("writer") /\ UNCHANGED <<popped, out, flags>> /\ (WriterCopies \/ WriterEmits \/ WriterRests)
  BY <1>1, WriterMoves
<1>4. video' = video /\ got' = got /\ (Unlinked' <=> Unlinked) /\ (\A t \in Threads \ {"writer"} : cur'[t] = cur[t])
  BY <1>3, KnownThreads DEF Frame, Only, video, got, Unlinked
<1>5. left' \in Nat /\ read' \in Seq(Frames) /\ (writer' = "emit" => left' > 0)
  <2>1. CASE WriterCopies
    <3>1. work \in Frames
      BY <1>1, <2>1, KnownThreads, AppSinkAssumption DEF WriterCopies, Holders, writer, work, Holding, Types, Frames
    <3> QED
      BY <1>1, <2>1, <3>1, AppSinkAssumption DEF WriterCopies, Types
  <2>2. CASE WriterEmits
    <3>1. work \in Frames
      BY <1>1, <2>2, KnownThreads, AppSinkAssumption DEF WriterEmits, Holders, writer, work, Holding, Types, Frames
    <3>2. read' \in Seq(Frames)
      BY <1>1, <2>2, <3>1, AppendProperties DEF WriterEmits, Types
    <3> QED
      BY <1>1, <2>2, <3>2 DEF WriterEmits, Types
  <2>3. CASE WriterRests
    BY <1>1, <2>3 DEF WriterRests, Types, flow, DropPCs
  <2> QED
    BY <1>3, <2>1, <2>2, <2>3
<1>6. Types' /\ Holders'
  BY <1>1, <1>3, <1>4, <1>5, FrameKeeps, KnownThreads DEF Holders
<1>7. work' = work \/ work' = 0
  BY <1>3 DEF WriterCopies, WriterEmits, WriterRests, work
<1>8. InLine'
  <2>1. ToSet(out)' = ToSet(out) /\ popped' = popped
    BY <1>3
  <2>2. \A t \in Threads : cur'[t] = cur[t] \/ cur'[t] = 0
    BY <1>4, <1>7 DEF work
  <2>3. \A t \in Threads \ {"video"} : Unlinked => cur'[t] < popped
    BY <1>1, <1>2, <2>2, UnlinkedFrame DEF InLine
  <2>4. \A t \in Threads : cur'[t] <= popped
    BY <1>1, <1>2, <2>2 DEF InLine
  <2>5. \A q \in ToSet(out) : work' < q
    <3> SUFFICES ASSUME NEW q \in ToSet(out) PROVE work' < q
      OBVIOUS
    <3>1. q \in Nat /\ q > 0
      BY <1>1, QueuedFrames
    <3>2. work < q
      BY <1>1 DEF InLine
    <3> QED
      BY <1>7, <3>1, <3>2
  <2>6. got # 0 => work' < got
    BY <1>1, <1>2, <1>7, KnownThreads DEF InLine, got
  <2> QED
    BY <1>1, <1>3, <1>4, <2>1, <2>3, <2>4, <2>5, <2>6 DEF InLine, Rising
<1> QED
  BY <1>6, <1>8 DEF LineInv

LEMMA LineClose == LineInv /\ Close => LineInv'
<1> SUFFICES ASSUME LineInv, Close PROVE LineInv'
  OBVIOUS
<1>1. Types /\ Holders /\ InLine
  BY DEF LineInv
<1>2. ToSet(out) \subseteq Frames /\ Frames \subseteq Nat \ {0} /\ popped \in Nat /\ \A t \in Threads : cur[t] \in Nat
  BY <1>1, QueuedFrames
<1>3. /\ Frame("closer") /\ UNCHANGED <<popped, flow, fault>>
      /\ (out' = out /\ cur'["closer"] \in {cur["closer"], 0}) \/ CloserTakes
  BY <1>1, CloseMoves
<1>4. /\ video' = video /\ writer' = writer /\ got' = got /\ work' = work /\ (Unlinked' <=> Unlinked)
      /\ \A t \in Threads \ {"closer"} : cur'[t] = cur[t]
  BY <1>3, KnownThreads DEF Frame, Only, video, writer, got, work, Unlinked
<1>5. Types' /\ Holders'
  BY <1>1, <1>3, <1>4, FrameKeeps, KnownThreads DEF Types, Holders, flow
<1>6. InLine'
  <2>1. CASE CloserTakes
    <3>1. /\ out # <<>> /\ out' = Tail(out) /\ cur' = [cur EXCEPT !["closer"] = Head(out)] /\ closer = "take"
      BY <2>1 DEF CloserTakes
    <3>2. cur["closer"] = 0
      BY <1>1, <3>1, KnownThreads DEF Holders, closer, Holding, DropPCs
    <3> QED
      BY <1>3, <1>4, <3>1, <3>2, LineTake
  <2>2. CASE out' = out /\ cur'["closer"] \in {cur["closer"], 0}
    <3>1. ToSet(out)' = ToSet(out) /\ popped' = popped /\ \A t \in Threads : cur'[t] = cur[t] \/ cur'[t] = 0
      BY <1>3, <1>4, <2>2
    <3>2. \A t \in Threads \ {"video"} : Unlinked => cur'[t] < popped
      BY <1>1, <1>2, <3>1, UnlinkedFrame DEF InLine
    <3>3. \A t \in Threads : cur'[t] <= popped
      BY <1>1, <1>2, <3>1 DEF InLine
    <3> QED
      BY <1>1, <1>4, <2>2, <3>1, <3>2, <3>3 DEF InLine, Rising
  <2> QED
    BY <1>3, <2>1, <2>2
<1> QED
  BY <1>5, <1>6 DEF LineInv

\* A step is one of a thread, or the end of the model at a use of what is gone.
LEMMA StepKinds ==
    ASSUME [Next]_avars
    PROVE  \/ UNCHANGED <<pc, cur, reg, popped, queue, counts, flow, shutdown, freed, sinkNil>>
              /\ (fault' # fault => fault' = TRUE /\ ~fault /\ \E t \in Threads : Dead(t))
           \/ ~fault /\ ~Dead("video") /\ Video
           \/ ~fault /\ ~Dead("handler") /\ Handler
           \/ ~fault /\ ~Dead("writer") /\ Writer
           \/ ~fault /\ ~Dead("closer") /\ Close
  BY KnownThreads DEF Next, Runs, Crash, avars, flags

LEMMA LineStep == LineInv /\ [Next]_avars => LineInv'
<1> SUFFICES ASSUME LineInv, [Next]_avars PROVE LineInv'
  OBVIOUS
<1>1. CASE UNCHANGED <<pc, cur, reg, popped, queue, counts, flow, shutdown, freed, sinkNil>>
  <2>1. Types' /\ Holders'
    BY <1>1 DEF LineInv, Types, Holders, queue, counts, flow, video, writer
  <2>2. InLine'
    BY <1>1 DEF LineInv, InLine, Rising, Unlinked, video, got, work, queue
  <2> QED
    BY <2>1, <2>2 DEF LineInv
<1> QED
  BY <1>1, StepKinds, LineVideo, LineHandler, LineWriter, LineClose

LEMMA LineHolds == Spec => []LineInv
  BY LineInit, LineStep, PTL DEF Spec

-----------------------------------------------------------------------------
(* The reference counts.                                                   *)

\* between the first and the last access of an update of a count, and between
\* its load and its store
Loaded == {"ref2", "unref2", "drop2"}
Changing == Loaded \cup {"check", "dropcheck"}

\* what a thread at p counts for in the count of its frame
Weigh(p) == IF p \in {"link", "unref", "unref2"} THEN 2 ELSE IF p = "dropcheck" THEN 0 ELSE 1
Share(t, f) == IF cur[t] = f THEN Weigh(pc[t]) ELSE 0
ListShare(f) == IF f \in ToSet(out) THEN 1 ELSE 0
Uses(f) == ListShare(f) + (Share("video", f) + Share("handler", f) + Share("writer", f) + Share("closer", f))

\* The count of a frame is what its users count for, and it is freed when there
\* is none left.
Counted == \A f \in Frames \ refRaced : refs[f] = Uses(f)
Freed == \A f \in Frames \ refRaced : f \in buried <=> f <= popped /\ f \notin InUse

\* The updates of a count that did not race come one after the other.
OneByOne ==
    \A t, u \in Threads :
        t # u /\ pc[t] \in Changing /\ pc[u] \in Changing /\ cur[t] = cur[u] => cur[t] \in refRaced
LoadedLast ==
    \A t \in Threads : pc[t] \in Loaded => cur[t] \in refRaced \/ reg[t] = refs[cur[t]]

RefInv == Counted /\ Freed /\ OneByOne /\ LoadedLast

\* As long as Close is not called, only the handler pops, and nothing is freed
\* under a thread but a frame whose count raced.
OpenInv ==
    closer = "open" => /\ ~freed /\ ~sinkNil
                       /\ handler = "take" => out # <<>>
                       /\ fault => refRaced # {}

-----------------------------------------------------------------------------
(* Every frame somebody holds is alive, and no other.                      *)

LEMMA WeighType ==
    /\ \A p : Weigh(p) \in 0 .. 2 /\ (Weigh(p) = 0 <=> p = "dropcheck")
    /\ \A t, f : Share(t, f) \in 0 .. 2
    /\ \A f : ListShare(f) \in 0 .. 1 /\ (ListShare(f) = 0 <=> f \notin ToSet(out))
  BY DEF Weigh, Share, ListShare

LEMMA UsesType == \A f : Uses(f) \in Nat
  BY WeighType DEF Uses

\* Where another thread does not move, it counts for what it counted for.
LEMMA SharesKept ==
    ASSUME NEW f, NEW u, pc'[u] = pc[u], cur'[u] = cur[u]
    PROVE  Share(u, f)' = Share(u, f)
  BY DEF Share, Weigh

\* If one thread moves, the uses of a frame change by what changes for it and
\* for the list.
LEMMA UsesMove ==
    ASSUME NEW t \in Threads, Only(t), NEW f,
           NEW d \in Int, Share(t, f)' + ListShare(f)' = Share(t, f) + ListShare(f) + d
    PROVE  Uses(f)' = Uses(f) + d
<1>1. \A u \in Threads \ {t} : Share(u, f)' = Share(u, f)
  BY SharesKept DEF Only
<1>2. PICK x \in Int : x = Share(t, f)
  BY WeighType
<1>3. PICK y \in Int : y = ListShare(f)
  BY WeighType
<1>4. PICK x1 \in Int : x1 = Share(t, f)'
  BY DEF Share, Weigh
<1>5. PICK y1 \in Int : y1 = ListShare(f)'
  BY DEF ListShare
<1>6. x1 + y1 = x + y + d
  BY <1>2, <1>3, <1>4, <1>5
<1>7. ASSUME NEW z \in Int, Uses(f) = y + (x + z), Uses(f)' = y1 + (x1 + z)
      PROVE  Uses(f)' = Uses(f) + d
  BY <1>6, <1>7
<1>8. \A u \in Threads : Share(u, f) \in Int
  BY WeighType
<1>9. PICK a \in Int, b \in Int, c \in Int, e \in Int :
         a = Share("video", f) /\ b = Share("handler", f) /\ c = Share("writer", f) /\ e = Share("closer", f)
  BY <1>8, KnownThreads
<1>10. CASE t = "video"
  <2>1. Uses(f) = y + (x + b + c + e) /\ Uses(f)' = y1 + (x1 + b + c + e)
    BY <1>1, <1>2, <1>3, <1>4, <1>5, <1>9, <1>10, KnownThreads DEF Uses
  <2>2. y + (x + b + c + e) = y + (x + (b + c + e)) /\ y1 + (x1 + b + c + e) = y1 + (x1 + (b + c + e))
        /\ b + c + e \in Int
    OBVIOUS
  <2> QED
    BY <1>7, <2>1, <2>2
<1>11. CASE t = "handler"
  <2>1. Uses(f) = y + (a + x + c + e) /\ Uses(f)' = y1 + (a + x1 + c + e)
    BY <1>1, <1>2, <1>3, <1>4, <1>5, <1>9, <1>11, KnownThreads DEF Uses
  <2>2. y + (a + x + c + e) = y + (x + (a + c + e)) /\ y1 + (a + x1 + c + e) = y1 + (x1 + (a + c + e))
        /\ a + c + e \in Int
    OBVIOUS
  <2> QED
    BY <1>7, <2>1, <2>2
<1>12. CASE t = "writer"
  <2>1. Uses(f) = y + (a + b + x + e) /\ Uses(f)' = y1 + (a + b + x1 + e)
    BY <1>1, <1>2, <1>3, <1>4, <1>5, <1>9, <1>12, KnownThreads DEF Uses
  <2>2. y + (a + b + x + e) = y + (x + (a + b + e)) /\ y1 + (a + b + x1 + e) = y1 + (x1 + (a + b + e))
        /\ a + b + e \in Int
    OBVIOUS
  <2> QED
    BY <1>7, <2>1, <2>2
<1>13. CASE t = "closer"
  <2>1. Uses(f) = y + (a + b + c + x) /\ Uses(f)' = y1 + (a + b + c + x1)
    BY <1>1, <1>2, <1>3, <1>4, <1>5, <1>9, <1>13, KnownThreads DEF Uses
  <2>2. y + (a + b + c + x) = y + (x + (a + b + c)) /\ y1 + (a + b + c + x1) = y1 + (x1 + (a + b + c))
        /\ a + b + c \in Int
    OBVIOUS
  <2> QED
    BY <1>7, <2>1, <2>2
<1> QED
  BY <1>10, <1>11, <1>12, <1>13, KnownThreads

\* A frame is in use as long as it is queued or some thread has it.
LEMMA InUseMeans ==
    /\ \A f \in Frames : f \in InUse <=> f \in ToSet(out) \/ \E t \in Threads : cur[t] = f
    /\ \A f \in Frames : f \in InUse' <=> f \in ToSet(out)' \/ \E t \in Threads : cur'[t] = f
  BY AppSinkAssumption DEF InUse, Frames

\* The frame of a thread counts for that thread at least.
LEMMA UsesAtLeast ==
    ASSUME NEW t \in Threads, NEW f
    PROVE  Uses(f) >= Share(t, f)
<1>1. \A u \in {"video", "handler", "writer", "closer"} : Share(u, f) \in Nat
  BY WeighType
<1>2. ListShare(f) \in Nat
  BY WeighType
<1> QED
  BY <1>1, <1>2, KnownThreads DEF Uses

\* Without a thread that counts for nothing any more, a frame nothing counts for
\* is in nobody's hands.
LEMMA UsesNone ==
    ASSUME NEW t \in Threads, NEW f \in Frames, Share(t, f) = 0,
           \A u \in Threads \ {t} : cur[u] = f => pc[u] # "dropcheck"
    PROVE  Uses(f) = 0 <=> f \notin ToSet(out) /\ \A u \in Threads \ {t} : cur[u] # f
<1>1. ListShare(f) \in Nat /\ (ListShare(f) = 0 <=> f \notin ToSet(out))
  BY WeighType
<1>2. \A u \in Threads \ {t} : Share(u, f) \in Nat /\ (Share(u, f) = 0 <=> cur[u] # f)
  BY WeighType DEF Share
<1>3. \A u \in Threads : Share(u, f) \in Nat
  BY WeighType
<1>4. Uses(f) = 0 <=> ListShare(f) = 0 /\ \A u \in Threads : Share(u, f) = 0
  <2>1. \A u \in {"video", "handler", "writer", "closer"} : Share(u, f) \in Nat
    BY WeighType
  <2>2. Uses(f) = 0 <=> ListShare(f) = 0 /\ Share("video", f) = 0 /\ Share("handler", f) = 0
                        /\ Share("writer", f) = 0 /\ Share("closer", f) = 0
    <3>1. PICK l \in Nat, a \in Nat, b \in Nat, c \in Nat, e \in Nat :
             l = ListShare(f) /\ a = Share("video", f) /\ b = Share("handler", f)
             /\ c = Share("writer", f) /\ e = Share("closer", f)
      BY <1>1, <2>1
    <3>2. Uses(f) = l + (a + b + c + e)
      BY <3>1 DEF Uses
    <3>3. l + (a + b + c + e) = 0 <=> l = 0 /\ a = 0 /\ b = 0 /\ c = 0 /\ e = 0
      OBVIOUS
    <3> QED
      BY <3>1, <3>2, <3>3
  <2> QED
    BY <2>2, KnownThreads
<1> QED
  BY <1>1, <1>2, <1>4

\* A step that leaves the counts alone and neither adds nor takes a use.
LEMMA RefCalm ==
    ASSUME LineInv, RefInv, NEW t \in Threads, Only(t), UNCHANGED <<popped, refs, buried, refRaced>>,
           pc'[t] \notin Changing,
           \A f \in Frames : Share(t, f)' + ListShare(f)' = Share(t, f) + ListShare(f),
           \A f \in Frames : f \in ToSet(out)' \/ cur'[t] = f <=> f \in ToSet(out) \/ cur[t] = f
    PROVE  RefInv'
<1>1. Counted'
  <2> SUFFICES ASSUME NEW f \in Frames \ refRaced PROVE refs'[f] = Uses(f)'
    BY DEF Counted
  <2>1. Share(t, f)' + ListShare(f)' = Share(t, f) + ListShare(f) + 0
    <3>1. Share(t, f) \in Int /\ ListShare(f) \in Int
      BY WeighType
    <3> QED
      BY <3>1
  <2>2. Uses(f)' = Uses(f) + 0 /\ Uses(f) \in Nat
    BY <2>1, UsesMove, UsesType
  <2> QED
    BY <2>2 DEF RefInv, Counted
<1>2. Freed'
  <2>1. \A f \in Frames : f \in InUse' <=> f \in InUse
    BY InUseMeans DEF Only
  <2> QED
    BY <2>1 DEF RefInv, Freed
<1>3. OneByOne' /\ LoadedLast'
  <2>1. Loaded \subseteq Changing
    BY DEF Changing
  <2>2. \A u \in Threads \ {t} : pc'[u] = pc[u] /\ cur'[u] = cur[u] /\ reg'[u] = reg[u]
    BY DEF Only
  <2> QED
    BY <2>1, <2>2 DEF RefInv, OneByOne, LoadedLast
<1> QED
  BY <1>1, <1>2, <1>3 DEF RefInv

\* The same if the frame of the thread stays too.
LEMMA RefRest ==
    ASSUME LineInv, RefInv, NEW t \in Threads, Only(t), UNCHANGED <<cur, popped, out, refs, buried, refRaced>>,
           pc'[t] \notin Changing, cur[t] # 0 => Weigh(pc'[t]) = Weigh(pc[t])
    PROVE  RefInv'
<1>1. \A f \in Frames : Share(t, f)' + ListShare(f)' = Share(t, f) + ListShare(f)
  BY AppSinkAssumption DEF Share, ListShare, Frames
<1> QED
  BY <1>1, RefCalm

\* The load of an update.
LEMMA RefLoad ==
    ASSUME LineInv, RefInv, NEW t \in Threads, NEW from \in {"ref", "unref", "drop"}, NEW to \in Loaded,
           Weigh(to) = Weigh(from), Frame(t), CountLoad(t, from, to)
    PROVE  RefInv'
<1>1. /\ pc[t] = from /\ pc'[t] = to /\ reg' = [reg EXCEPT ![t] = refs[cur[t]]]
      /\ refRaced' = IF Updating(cur[t], t) THEN refRaced \cup {cur[t]} ELSE refRaced
      /\ UNCHANGED <<cur, popped, out, refs, buried>>
  <2>1. Types /\ Holders
    BY DEF LineInv
  <2>2. pc' = [pc EXCEPT ![t] = to] /\ pc[t] = from
    BY DEF CountLoad, Goto
  <2>3. pc'[t] = to
    BY <2>1, <2>2 DEF Types
  <2> QED
    BY <2>2, <2>3 DEF CountLoad, queue
<1>2. Only(t) /\ refRaced \subseteq refRaced' /\ reg'[t] = refs[cur[t]]
  <2>1. Types
    BY DEF LineInv
  <2> QED
    BY <1>1, <2>1 DEF Frame, Types
<1>3. \A f \in Frames : Uses(f)' = Uses(f) /\ (f \in InUse' <=> f \in InUse)
  <2> SUFFICES ASSUME NEW f \in Frames PROVE Uses(f)' = Uses(f) /\ (f \in InUse' <=> f \in InUse)
    OBVIOUS
  <2>1. Share(t, f)' + ListShare(f)' = Share(t, f) + ListShare(f) + 0
    <3>1. Share(t, f)' = Share(t, f) /\ ListShare(f)' = ListShare(f)
      BY <1>1 DEF Share, ListShare
    <3>2. Share(t, f) \in Int /\ ListShare(f) \in Int
      BY WeighType
    <3> QED
      BY <3>1, <3>2
  <2>2. Uses(f)' = Uses(f) + 0 /\ Uses(f) \in Nat
    BY <1>2, <2>1, UsesMove, UsesType
  <2> QED
    BY <1>1, <2>2, InUseMeans
<1>4. Counted' /\ Freed'
  BY <1>1, <1>2, <1>3 DEF RefInv, Counted, Freed
<1>5. OneByOne'
  <2> SUFFICES ASSUME NEW a \in Threads, NEW b \in Threads, a # b, pc'[a] \in Changing, pc'[b] \in Changing,
                      cur'[a] = cur'[b]
               PROVE  cur'[a] \in refRaced'
    BY DEF OneByOne
  <2>1. Changing = {"ref2", "unref2", "drop2", "check", "dropcheck"}
    BY DEF Changing, Loaded
  <2>2. CASE a # t /\ b # t
    BY <1>1, <1>2, <2>2 DEF Only, RefInv, OneByOne
  <2>3. ASSUME NEW u \in Threads \ {t}, pc'[u] \in Changing, cur'[u] = cur'[t]
        PROVE  cur[t] \in refRaced'
    <3>1. pc[u] \in {"ref2", "unref2", "check", "drop2", "dropcheck"} /\ cur[u] = cur[t]
      BY <1>1, <1>2, <2>1, <2>3 DEF Only
    <3> QED
      BY <1>1, <3>1 DEF Updating
  <2> QED
    BY <1>1, <2>2, <2>3
<1>6. LoadedLast'
  BY <1>1, <1>2 DEF Only, RefInv, LoadedLast
<1> QED
  BY <1>4, <1>5, <1>6 DEF RefInv

\* The store of an update.
LEMMA RefStore ==
    ASSUME LineInv, RefInv, NEW t \in Threads, NEW from \in Loaded, NEW to, NEW d \in Int, to \notin Loaded,
           Weigh(to) = Weigh(from) + d, Frame(t), CountStore(t, from, to, d), cur[t] \in Frames
    PROVE  RefInv'
<1>0. Types /\ Only(t) /\ refs \in [Frames -> Int] /\ pc \in [Threads -> Places]
  BY DEF LineInv, Types, Frame
<1>1. /\ pc[t] = from /\ pc'[t] = to /\ refs' = [refs EXCEPT ![cur[t]] = reg[t] + d]
      /\ UNCHANGED <<cur, popped, out, buried, refRaced>>
  BY <1>0 DEF CountStore, Goto, queue
<1>2. from \in Changing /\ Loaded \subseteq Changing
  BY DEF Changing
<1>3. \A f \in Frames \ {cur[t]} : refs'[f] = refs[f]
  BY <1>0, <1>1
<1>4. cur[t] \notin refRaced => refs'[cur[t]] = refs[cur[t]] + d
  BY <1>0, <1>1 DEF RefInv, LoadedLast
<1>5. \A f \in Frames : Uses(f)' = Uses(f) + (IF f = cur[t] THEN d ELSE 0)
  <2> SUFFICES ASSUME NEW f \in Frames PROVE Uses(f)' = Uses(f) + (IF f = cur[t] THEN d ELSE 0)
    OBVIOUS
  <2> DEFINE e == IF f = cur[t] THEN d ELSE 0
  <2>1. Share(t, f)' + ListShare(f)' = Share(t, f) + ListShare(f) + e
    <3>1. ListShare(f)' = ListShare(f)
      BY <1>1 DEF ListShare
    <3>2. Share(t, f)' = Share(t, f) + e
      <4>1. Weigh(from) \in Int
        BY WeighType
      <4> QED
        BY <1>1, <4>1 DEF Share
    <3>3. Share(t, f) \in Int /\ ListShare(f) \in Int /\ e \in Int
      BY WeighType
    <3> HIDE DEF e
    <3> QED
      BY <3>1, <3>2, <3>3
  <2>2. e \in Int
    OBVIOUS
  <2> QED
    BY <1>0, <2>1, <2>2, UsesMove
<1>6. Counted'
  <2> SUFFICES ASSUME NEW f \in Frames \ refRaced PROVE refs'[f] = Uses(f)'
    BY <1>1 DEF Counted
  <2>1. refs[f] = Uses(f) /\ Uses(f) \in Nat
    BY UsesType DEF RefInv, Counted
  <2> QED
    BY <1>3, <1>4, <1>5, <2>1
<1>7. Freed'
  <2>1. \A f \in Frames : f \in InUse' <=> f \in InUse
    BY <1>1, InUseMeans
  <2> QED
    BY <1>1, <2>1 DEF RefInv, Freed
<1>8. OneByOne'
  <2>1. \A u \in Threads : (pc'[u] \in Changing => pc[u] \in Changing) /\ cur'[u] = cur[u]
    BY <1>0, <1>1, <1>2 DEF Only
  <2> QED
    BY <1>1, <2>1 DEF RefInv, OneByOne
<1>9. LoadedLast'
  <2> SUFFICES ASSUME NEW u \in Threads, pc'[u] \in Loaded, cur[u] \notin refRaced
               PROVE  reg'[u] = refs'[cur[u]]
    BY <1>1 DEF LoadedLast
  <2>1. u # t /\ pc[u] = pc'[u] /\ reg'[u] = reg[u] /\ reg[u] = refs[cur[u]]
    BY <1>0, <1>1 DEF Only, RefInv, LoadedLast
  <2>2. cur[u] # cur[t]
    BY <1>1, <1>2, <2>1 DEF RefInv, OneByOne
  <2> QED
    BY <1>1, <2>1, <2>2, <1>0
<1> QED
  BY <1>6, <1>7, <1>8, <1>9 DEF RefInv

\* The test for zero after an update: it frees what nobody uses any more.
LEMMA RefFree ==
    ASSUME LineInv, RefInv, NEW t \in Threads, NEW from \in {"check", "dropcheck"}, NEW to,
           to \notin Changing, from = "check" => Weigh(to) = 1,
           Frame(t), FreeIfZero(t, from, to), cur[t] \in Frames
    PROVE  RefInv'
<1>0. Types /\ Only(t) /\ refs \in [Frames -> Int] /\ pc \in [Threads -> Places]
      /\ cur \in [Threads -> 0 .. MaxFrames]
  BY DEF LineInv, Types, Frame
<1>1. /\ pc[t] = from /\ pc'[t] = to
      /\ buried' = IF refs[cur[t]] = 0 THEN buried \cup {cur[t]} ELSE buried
      /\ cur' = IF from = "dropcheck" THEN [cur EXCEPT ![t] = 0] ELSE cur
      /\ UNCHANGED <<popped, out, refs, refRaced>>
  BY <1>0 DEF FreeIfZero, Goto, queue
<1>2. pc[t] \in Changing /\ Loaded \subseteq Changing /\ "dropcheck" \in Changing
  BY <1>1 DEF Changing
<1>3. OneByOne' /\ LoadedLast'
  <2>1. \A u \in Threads \ {t} : pc'[u] = pc[u] /\ cur'[u] = cur[u] /\ reg'[u] = reg[u]
    BY <1>0 DEF Only
  <2> QED
    BY <1>1, <1>2, <2>1 DEF RefInv, OneByOne, LoadedLast
<1>4. CASE from = "check"
  <2>1. cur' = cur /\ \A f \in Frames : f \in InUse' <=> f \in InUse
    BY <1>1, <1>4, InUseMeans
  <2>2. \A f \in Frames : Uses(f)' = Uses(f)
    <3> SUFFICES ASSUME NEW f \in Frames PROVE Uses(f)' = Uses(f)
      OBVIOUS
    <3>1. Share(t, f)' + ListShare(f)' = Share(t, f) + ListShare(f) + 0
      <4>1. ListShare(f)' = ListShare(f)
        BY <1>1 DEF ListShare
      <4>2. Share(t, f)' = Share(t, f)
        BY <1>1, <1>4, <2>1 DEF Share, Weigh
      <4>3. Share(t, f) \in Int /\ ListShare(f) \in Int
        BY WeighType
      <4> QED
        BY <4>1, <4>2, <4>3
    <3>2. Uses(f)' = Uses(f) + 0 /\ Uses(f) \in Nat
      BY <1>0, <3>1, UsesMove, UsesType
    <3> QED
      BY <3>2
  <2>3. Counted'
    BY <1>1, <2>2 DEF RefInv, Counted
  <2>4. cur[t] \notin refRaced => refs[cur[t]] # 0
    <3>1. Share(t, cur[t]) = 1
      BY <1>1, <1>4 DEF Share, Weigh
    <3>2. Uses(cur[t]) >= 1 /\ Uses(cur[t]) \in Nat
      BY <3>1, UsesAtLeast, UsesType
    <3> QED
      BY <3>2 DEF RefInv, Counted
  <2>5. Freed'
    <3>1. \A f \in Frames \ refRaced : f \in buried' <=> f \in buried
      BY <1>1, <2>4
    <3> QED
      BY <1>1, <2>1, <3>1 DEF RefInv, Freed
  <2> QED
    BY <1>3, <2>3, <2>5 DEF RefInv
<1>5. CASE from = "dropcheck"
  <2>1. cur'[t] = 0 /\ (\A u \in Threads \ {t} : cur'[u] = cur[u]) /\ 0 \notin Frames
    BY <1>0, <1>1, <1>5, AppSinkAssumption DEF Frames
  <2>2. Counted'
    <3> SUFFICES ASSUME NEW f \in Frames \ refRaced PROVE refs'[f] = Uses(f)'
      BY <1>1 DEF Counted
    <3>1. Share(t, f)' + ListShare(f)' = Share(t, f) + ListShare(f) + 0
      <4>1. ListShare(f)' = ListShare(f)
        BY <1>1 DEF ListShare
      <4>2. Share(t, f)' = 0 /\ Share(t, f) = 0
        BY <1>1, <1>5, <2>1 DEF Share, Weigh
      <4>3. ListShare(f) \in Int
        BY WeighType
      <4> QED
        BY <4>1, <4>2, <4>3
    <3>2. Uses(f)' = Uses(f) + 0 /\ Uses(f) \in Nat
      BY <1>0, <3>1, UsesMove, UsesType
    <3> QED
      BY <1>1, <3>2 DEF RefInv, Counted
  <2>3. Freed'
    <3> SUFFICES ASSUME NEW f \in Frames \ refRaced PROVE f \in buried' <=> f <= popped /\ f \notin InUse'
      BY <1>1 DEF Freed
    <3>1. CASE f # cur[t]
      <4>1. f \in InUse' <=> f \in InUse
        BY <1>1, <2>1, <3>1, InUseMeans
      <4> QED
        BY <1>1, <3>1, <4>1 DEF RefInv, Freed
    <3>2. CASE f = cur[t]
      <4>1. Share(t, f) = 0
        BY <1>1, <1>5 DEF Share, Weigh
      <4>2. \A u \in Threads \ {t} : cur[u] = f => pc[u] # "dropcheck"
        BY <1>1, <1>2, <1>5, <3>2 DEF RefInv, OneByOne
      <4>3. refs[f] = 0 <=> f \notin ToSet(out) /\ \A u \in Threads \ {t} : cur[u] # f
        BY <4>1, <4>2, UsesNone DEF RefInv, Counted
      <4>4. f \notin InUse' <=> f \notin ToSet(out) /\ \A u \in Threads \ {t} : cur[u] # f
        BY <1>1, <2>1, InUseMeans
      <4>5. f <= popped
        BY <3>2 DEF LineInv, InLine
      <4>6. f \notin buried
        <5>1. f \in InUse
          BY <3>2, InUseMeans
        <5> QED
          BY <5>1 DEF RefInv, Freed
      <4> QED
        BY <1>1, <3>2, <4>3, <4>4, <4>5, <4>6
    <3> QED
      BY <3>1, <3>2
  <2> QED
    BY <1>3, <2>2, <2>3 DEF RefInv
<1> QED
  BY <1>4, <1>5

\* where a move within pop, push or drop leads
LEMMA GotoPlaces ==
    ASSUME Types, NEW t \in Threads, NEW from, NEW to, Goto(t, from, to)
    PROVE  pc[t] = from /\ pc'[t] = to
  BY DEF Goto, Types

\* A test or an access to the counter of the queue leaves the counts alone.
LEMMA RefMove ==
    ASSUME LineInv, RefInv, NEW t \in Threads, NEW from, NEW to, Frame(t), Goto(t, from, to),
           UNCHANGED <<cur, popped, out, counts>>, to \notin Changing, Weigh(from) = Weigh(to)
    PROVE  RefInv'
<1>1. pc[t] = from /\ pc'[t] = to
  BY GotoPlaces DEF LineInv
<1> QED
  BY <1>1, RefRest DEF Frame, counts

\* BUFFER_UNREF
LEMMA RefDrop ==
    ASSUME LineInv, RefInv, NEW t \in Threads, NEW to \in {"test", "recv", "peek"}, Frame(t), Drop(t, to)
    PROVE  RefInv'
<1>1. pc[t] \in DropPCs => cur[t] \in Frames
  BY AppSinkAssumption DEF LineInv, Holders, Types, Holding, Frames
<1>2. CASE DropLoad(t)
  <2>1. CountLoad(t, "drop", "drop2") /\ "drop2" \in Loaded /\ Weigh("drop2") = Weigh("drop")
    BY <1>2 DEF DropLoad, Loaded, Weigh
  <2> QED
    BY <2>1, RefLoad
<1>3. CASE DropStore(t)
  <2>1. /\ CountStore(t, "drop2", "dropcheck", -1) /\ "drop2" \in Loaded /\ "dropcheck" \notin Loaded
        /\ Weigh("dropcheck") = Weigh("drop2") + (-1) /\ -1 \in Int
    BY <1>3 DEF DropStore, Loaded, Weigh
  <2>2. cur[t] \in Frames
    BY <1>1, <2>1, GotoPlaces DEF CountStore, DropPCs, LineInv
  <2> QED
    BY <2>1, <2>2, RefStore
<1>4. CASE FreeIfZero(t, "dropcheck", to)
  <2>1. cur[t] \in Frames
    BY <1>1, <1>4, GotoPlaces DEF FreeIfZero, DropPCs, LineInv
  <2>2. to \notin Changing
    BY DEF Changing, Loaded
  <2> QED
    BY <1>4, <2>1, <2>2, RefFree
<1> QED
  BY <1>2, <1>3, <1>4 DEF Drop

\* The container of a frame is unlinked: the reference of the list is the
\* thread's now.
LEMMA RefTake ==
    ASSUME LineInv, RefInv, NEW t \in {"handler", "closer"}, Frame(t), Take(t)
    PROVE  RefInv'
<1>1. Types /\ Holders /\ InLine /\ t \in Threads
  BY KnownThreads DEF LineInv
<1>2. /\ pc[t] = "take" /\ pc'[t] = "ref" /\ out # <<>> /\ out' = Tail(out)
      /\ cur' = [cur EXCEPT ![t] = Head(out)] /\ UNCHANGED <<popped, counts>>
  BY <1>1, GotoPlaces DEF Take
<1>3. cur[t] = 0 /\ cur'[t] = Head(out)
  <2>1. "take" \notin Holding
    BY DEF Holding, DropPCs
  <2> QED
    BY <1>1, <1>2, <2>1 DEF Holders, Types
<1>4. /\ Head(out) \in Frames /\ ToSet(out) = {Head(out)} \cup ToSet(out)' /\ Head(out) \notin ToSet(out)'
  <2>1. /\ Head(out) \in Frames /\ ToSet(out) = {Head(out)} \cup ToSet(out)'
        /\ \A q \in ToSet(out)' : Head(out) < q
    BY <1>1, <1>2, RisingTail DEF Types, InLine
  <2>2. Head(out) \in Int
    BY <2>1, AppSinkAssumption DEF Frames
  <2> QED
    BY <2>1, <2>2
<1>5. \A f \in Frames : Share(t, f)' + ListShare(f)' = Share(t, f) + ListShare(f)
  <2> SUFFICES ASSUME NEW f \in Frames PROVE Share(t, f)' + ListShare(f)' = Share(t, f) + ListShare(f)
    OBVIOUS
  <2>1. f # 0
    BY AppSinkAssumption DEF Frames
  <2>2. Share(t, f) = 0 /\ Share(t, f)' = (IF f = Head(out) THEN 1 ELSE 0)
    BY <1>2, <1>3, <2>1 DEF Share, Weigh
  <2>3. ListShare(f) = (IF f = Head(out) \/ f \in ToSet(out)' THEN 1 ELSE 0)
        /\ ListShare(f)' = (IF f \in ToSet(out)' THEN 1 ELSE 0)
    BY <1>4 DEF ListShare
  <2> QED
    BY <1>4, <2>2, <2>3
<1>6. \A f \in Frames : f \in ToSet(out)' \/ cur'[t] = f <=> f \in ToSet(out) \/ cur[t] = f
  BY <1>3, <1>4, AppSinkAssumption DEF Frames
<1>7. pc'[t] \notin Changing
  BY <1>2 DEF Changing, Loaded
<1> QED
  BY <1>1, <1>2, <1>5, <1>6, <1>7, RefCalm DEF Frame, counts

\* queue_array_pop
LEMMA RefPop ==
    ASSUME LineInv, RefInv, NEW t \in {"handler", "closer"}, NEW to \in {"time", "drop"}, Frame(t), Pop(t, to)
    PROVE  RefInv'
<1>1. t \in Threads /\ Types
  BY KnownThreads DEF LineInv
<1>2. pc[t] \in Holding => cur[t] \in Frames
  BY <1>1, AppSinkAssumption DEF LineInv, Holders, Types, Frames
<1>3. CASE SeeElement(t)
  <2>1. Goto(t, "see", "take") /\ UNCHANGED <<cur, popped, out, counts>>
    BY <1>3 DEF SeeElement, queue
  <2>2. "take" \notin Changing /\ Weigh("see") = Weigh("take")
    BY DEF Changing, Loaded, Weigh
  <2> QED
    BY <1>1, <2>1, <2>2, RefMove
<1>4. CASE PopRefLoad(t) \/ PopUnrefLoad(t)
  <2>1. /\ CountLoad(t, "ref", "ref2") \/ CountLoad(t, "unref", "unref2")
        /\ "ref2" \in Loaded /\ "unref2" \in Loaded
        /\ Weigh("ref2") = Weigh("ref") /\ Weigh("unref2") = Weigh("unref")
    BY <1>4 DEF PopRefLoad, PopUnrefLoad, Loaded, Weigh
  <2> QED
    BY <1>1, <2>1, RefLoad
<1>5. CASE PopRefStore(t) \/ PopUnrefStore(t)
  <2>1. /\ CountStore(t, "ref2", "unref", 1) \/ CountStore(t, "unref2", "check", -1)
        /\ "ref2" \in Loaded /\ "unref2" \in Loaded /\ "unref" \notin Loaded /\ "check" \notin Loaded
        /\ Weigh("unref") = Weigh("ref2") + 1 /\ Weigh("check") = Weigh("unref2") + (-1)
        /\ 1 \in Int /\ -1 \in Int
    BY <1>5 DEF PopRefStore, PopUnrefStore, Loaded, Weigh
  <2>2. cur[t] \in Frames
    BY <1>1, <1>2, <2>1, GotoPlaces DEF CountStore, Holding
  <2> QED
    BY <1>1, <2>1, <2>2, RefStore
<1>6. CASE PopUnrefCheck(t)
  <2>1. FreeIfZero(t, "check", "dec") /\ "dec" \notin Changing /\ Weigh("dec") = 1
    BY <1>6 DEF PopUnrefCheck, Changing, Loaded, Weigh
  <2>2. cur[t] \in Frames
    BY <1>1, <1>2, <2>1, GotoPlaces DEF FreeIfZero, Holding
  <2> QED
    BY <1>1, <2>1, <2>2, RefFree
<1>7. CASE DecLoad(t) \/ DecStore(t, to)
  <2>1. PICK from \in {"dec", "dec2"}, at \in {"dec2", "time", "drop"} :
           Goto(t, from, at) /\ UNCHANGED <<cur, popped, out, counts>>
    BY <1>7 DEF DecLoad, DecStore, SizeLoad, SizeStore, queue
  <2>2. at \notin Changing /\ Weigh(from) = Weigh(at)
    BY DEF Changing, Loaded, Weigh
  <2> QED
    BY <1>1, <2>1, <2>2, RefMove
<1> QED
  BY <1>3, <1>4, <1>5, <1>6, <1>7, RefTake DEF Pop

LEMMA RefInit == Init => RefInv
<1> SUFFICES ASSUME Init PROVE RefInv
  OBVIOUS
<1>1. /\ pc = [video |-> "test", handler |-> "call", writer |-> "recv", closer |-> "open"]
      /\ cur = [t \in Threads |-> 0] /\ popped = 0 /\ out = <<>>
      /\ refs = [f \in Frames |-> 0] /\ buried = {} /\ refRaced = {}
  BY DEF Init
<1>2. ToSet(out) = {} /\ \A t \in Threads : cur[t] = 0
  BY <1>1 DEF ToSet
<1>3. Counted
  BY <1>1, <1>2, KnownThreads, AppSinkAssumption DEF Counted, Uses, Share, ListShare, Frames
<1>4. Freed
  BY <1>1, <1>2, AppSinkAssumption DEF Freed, Frames
<1>5. \A t \in Threads : pc[t] \notin Changing /\ pc[t] \notin Loaded
  BY <1>1, KnownThreads DEF Changing, Loaded
<1> QED
  BY <1>3, <1>4, <1>5 DEF RefInv, OneByOne, LoadedLast

\* videoBroadcastThread
LEMMA RefVideo == LineInv /\ RefInv /\ Video => RefInv'
<1> SUFFICES ASSUME LineInv, RefInv, Video PROVE RefInv'
  OBVIOUS
<1> DEFINE v == "video"
<1>1. Types /\ Holders /\ InLine /\ Frame(v) /\ v \in Threads
  BY VideoMoves, KnownThreads DEF LineInv
<1>2. CASE VideoTest \/ SeeRoom \/ IncLoad \/ IncStore
  <2>1. PICK from \in {"test", "room", "inc", "inc2"}, to \in {"end", "pop", "ref", "inc2", "drop"} :
           Goto(v, from, to) /\ UNCHANGED <<cur, popped, out, counts>>
    BY <1>2 DEF VideoTest, SeeRoom, IncLoad, IncStore, SizeLoad, SizeStore, queue
  <2>2. to \notin Changing /\ Weigh(from) = Weigh(to)
    BY DEF Changing, Loaded, Weigh
  <2> QED
    BY <1>1, <2>1, <2>2, RefMove
<1>3. CASE VideoPop
  <2>1. /\ pc[v] = "pop" /\ pc'[v] = "room" /\ popped < MaxFrames /\ popped' = popped + 1
        /\ cur' = [cur EXCEPT ![v] = popped + 1] /\ refs' = [refs EXCEPT ![popped + 1] = 1]
        /\ UNCHANGED <<out, buried, refRaced>>
    BY <1>1, <1>3, GotoPlaces DEF VideoPop, queue
  <2>2. PICK new \in Frames : new = popped + 1
    BY <1>1, <2>1, AppSinkAssumption DEF Types, Frames
  <2>3. /\ cur[v] = 0 /\ cur'[v] = new /\ 0 \notin Frames
        /\ \A u \in Threads \ {v} : pc'[u] = pc[u] /\ cur'[u] = cur[u] /\ reg'[u] = reg[u]
    <3>1. "pop" \notin Holding
      BY DEF Holding, DropPCs
    <3> QED
      BY <1>1, <2>1, <2>2, <3>1, AppSinkAssumption DEF Holders, Types, Frame, Only, Frames
  <2>4. new \notin ToSet(out) /\ \A u \in Threads : cur[u] # new
    <3>1. \A q \in ToSet(out) : q <= popped /\ q \in Nat
      BY <1>1, QueuedFrames DEF InLine
    <3>2. \A u \in Threads : cur[u] <= popped /\ cur[u] \in Nat /\ popped \in Nat
      BY <1>1, QueuedFrames DEF InLine
    <3>3. popped \in Nat
      BY <1>1, QueuedFrames
    <3>4. \A q \in Nat : q <= popped => q # new
      BY <2>2, <3>3
    <3> QED
      BY <3>1, <3>2, <3>4
  <2>5. Counted'
    <3> SUFFICES ASSUME NEW f \in Frames \ refRaced PROVE refs'[f] = Uses(f)'
      BY <2>1 DEF Counted
    <3>1. ListShare(f)' = ListShare(f) /\ ListShare(f) \in Int
      BY <2>1, WeighType DEF ListShare
    <3>2. Share(v, f) = 0 /\ Share(v, f)' = (IF f = new THEN 1 ELSE 0)
      BY <2>1, <2>3 DEF Share, Weigh
    <3>3. Share(v, f)' + ListShare(f)' = Share(v, f) + ListShare(f) + (IF f = new THEN 1 ELSE 0)
      BY <3>1, <3>2
    <3>4. Uses(f)' = Uses(f) + (IF f = new THEN 1 ELSE 0) /\ Uses(f) \in Nat
      <4>1. (IF f = new THEN 1 ELSE 0) \in Int /\ Only(v)
        BY <1>1 DEF Frame
      <4> QED
        BY <1>1, <3>3, <4>1, UsesMove, UsesType
    <3>5. CASE f = new
      <4>1. Uses(f) = 0
        BY <1>1, <2>3, <2>4, <3>2, <3>5, UsesNone
      <4>2. refs'[f] = 1
        BY <1>1, <2>1, <2>2, <3>5 DEF Types
      <4> QED
        BY <3>4, <3>5, <4>1, <4>2
    <3>6. CASE f # new
      <4>1. refs'[f] = refs[f] /\ refs[f] = Uses(f)
        BY <1>1, <2>1, <2>2, <3>6 DEF Types, RefInv, Counted
      <4> QED
        BY <3>4, <3>6, <4>1
    <3> QED
      BY <3>5, <3>6
  <2>6. Freed'
    <3> SUFFICES ASSUME NEW f \in Frames \ refRaced PROVE f \in buried' <=> f <= popped' /\ f \notin InUse'
      BY <2>1 DEF Freed
    <3>1. f \in buried <=> f <= popped /\ f \notin InUse
      BY DEF RefInv, Freed
    <3>2. f \in Int /\ popped \in Int /\ (f # new => (f <= popped' <=> f <= popped))
      <4>1. f \in Int /\ popped \in Int
        BY <1>1, AppSinkAssumption DEF Types, Frames
      <4>2. new = popped + 1 /\ popped' = popped + 1
        BY <2>1, <2>2
      <4> QED
        BY <4>1, <4>2
    <3>3. f # new => (f \in InUse' <=> f \in InUse)
      BY <1>1, <2>1, <2>3, InUseMeans
    <3>4. f = new => f \in InUse' /\ ~(f <= popped)
      BY <1>1, <2>2, <2>3, <3>2, InUseMeans
    <3> QED
      BY <2>1, <3>1, <3>2, <3>3, <3>4
  <2>7. "room" \notin Changing /\ Loaded \subseteq Changing
    BY DEF Changing, Loaded
  <2>8. OneByOne'
    BY <2>1, <2>3, <2>7 DEF RefInv, OneByOne
  <2>9. LoadedLast'
    <3> SUFFICES ASSUME NEW u \in Threads, pc'[u] \in Loaded, cur'[u] \notin refRaced
                 PROVE  reg'[u] = refs'[cur'[u]]
      BY <2>1 DEF LoadedLast
    <3>1. u # v /\ pc[u] \in Loaded /\ cur'[u] = cur[u] /\ reg'[u] = reg[u]
      BY <2>1, <2>3, <2>7
    <3>2. cur[u] \in Frames
      BY <1>1, <3>1, AppSinkAssumption DEF Holders, Loaded, Holding, DropPCs, Types, Frames
    <3>3. refs'[cur[u]] = refs[cur[u]]
      BY <1>1, <2>1, <2>2, <2>4, <3>2 DEF Types
    <3> QED
      BY <3>1, <3>3 DEF RefInv, LoadedLast
  <2> QED
    BY <2>5, <2>6, <2>8, <2>9 DEF RefInv
<1>4. CASE PushRefLoad
  <2>1. CountLoad(v, "ref", "ref2") /\ "ref2" \in Loaded /\ Weigh("ref2") = Weigh("ref")
    BY <1>4 DEF PushRefLoad, Loaded, Weigh
  <2> QED
    BY <1>1, <2>1, RefLoad
<1>5. CASE PushRefStore
  <2>1. /\ CountStore(v, "ref2", "link", 1) /\ "ref2" \in Loaded /\ "link" \notin Loaded
        /\ Weigh("link") = Weigh("ref2") + 1
    BY <1>5 DEF PushRefStore, Loaded, Weigh
  <2>2. cur[v] \in Frames
    <3>1. pc[v] = "ref2"
      BY <1>1, <2>1, GotoPlaces DEF CountStore
    <3>2. pc[v] \in Holding
      BY <3>1 DEF Holding
    <3> QED
      BY <1>1, <3>2, AppSinkAssumption DEF Holders, Types, Frames
  <2> QED
    BY <1>1, <2>1, <2>2, RefStore
<1>6. CASE Link
  <2>1. /\ pc[v] = "link" /\ pc'[v] = "inc" /\ out' = Append(out, cur[v]) /\ UNCHANGED <<cur, popped, counts>>
    BY <1>1, <1>6, GotoPlaces DEF Link
  <2>2. cur[v] \in Frames /\ cur[v] = popped /\ Unlinked
    BY <1>1, <2>1, AppSinkAssumption DEF Holders, Types, Holding, Frames, Unlinked, video
  <2>3. \A q \in ToSet(out) : q < cur[v] /\ q \in Nat
    BY <1>1, <2>2, QueuedFrames DEF InLine
  <2>4. ToSet(out)' = ToSet(out) \cup {cur[v]} /\ cur[v] \notin ToSet(out)
    <3>1. ToSet(out)' = ToSet(out) \cup {cur[v]}
      BY <1>1, <2>1, <2>2, <2>3, RisingAppend DEF InLine, Types
    <3> QED
      BY <2>3, <3>1
  <2>5. \A f \in Frames : Share(v, f)' + ListShare(f)' = Share(v, f) + ListShare(f)
    BY <2>1, <2>4 DEF Share, Weigh, ListShare
  <2>6. \A f \in Frames : f \in ToSet(out)' \/ cur'[v] = f <=> f \in ToSet(out) \/ cur[v] = f
    BY <2>1, <2>4
  <2>7. pc'[v] \notin Changing
    BY <2>1 DEF Changing, Loaded
  <2> QED
    BY <1>1, <2>1, <2>5, <2>6, <2>7, RefCalm DEF Frame, counts
<1> QED
  BY <1>1, <1>2, <1>3, <1>4, <1>5, <1>6, RefDrop DEF Video

\* the goroutine in GoHandleAVPacket
LEMMA RefHandler == LineInv /\ RefInv /\ Handler => RefInv'
<1> SUFFICES ASSUME LineInv, RefInv, Handler PROVE RefInv'
  OBVIOUS
<1>0. Types /\ Holders /\ InLine
  BY DEF LineInv
<1>1. CASE Channel
  <2>1. /\ pc["handler"] = "send" /\ pc'["handler"] = "call" /\ pc["writer"] = "recv" /\ pc'["writer"] = "copy"
        /\ cur'["handler"] = 0 /\ cur'["writer"] = cur["handler"] /\ cur["handler"] # 0 /\ cur["writer"] = 0
        /\ cur'["video"] = cur["video"] /\ cur'["closer"] = cur["closer"]
        /\ pc'["video"] = pc["video"] /\ pc'["closer"] = pc["closer"]
        /\ UNCHANGED <<reg, popped, out, refs, buried, refRaced>>
    BY <1>0, <1>1, ChannelMoves DEF got, work, handler, writer, queue, counts
  <2>2. \A f \in Frames : Uses(f)' = Uses(f)
    <3> SUFFICES ASSUME NEW f \in Frames PROVE Uses(f)' = Uses(f)
      OBVIOUS
    <3>1. /\ Share("handler", f)' = 0 /\ Share("writer", f)' = Share("handler", f) /\ Share("writer", f) = 0
          /\ Share("video", f)' = Share("video", f) /\ Share("closer", f)' = Share("closer", f)
          /\ ListShare(f)' = ListShare(f)
      BY <2>1, AppSinkAssumption DEF Share, Weigh, ListShare, Frames
    <3>2. /\ Share("handler", f) \in Int /\ Share("video", f) \in Int /\ Share("closer", f) \in Int
          /\ ListShare(f) \in Int
      BY WeighType
    <3> QED
      BY <3>1, <3>2 DEF Uses
  <2>3. Counted'
    BY <2>1, <2>2 DEF RefInv, Counted
  <2>4. Freed'
    <3>1. \A f \in Frames : f \in InUse' <=> f \in InUse
      <4> SUFFICES ASSUME NEW f \in Frames
                   PROVE  (\E t \in Threads : cur'[t] = f) <=> (\E t \in Threads : cur[t] = f)
        BY <2>1, InUseMeans
      <4>1. f # 0
        BY AppSinkAssumption DEF Frames
      <4>2. (\E t \in Threads : cur[t] = f) <=> cur["video"] = f \/ cur["handler"] = f \/ cur["closer"] = f
        BY <2>1, <4>1, KnownThreads
      <4>3. (\E t \in Threads : cur'[t] = f) <=> cur["video"] = f \/ cur["handler"] = f \/ cur["closer"] = f
        BY <2>1, <4>1, KnownThreads
      <4> QED
        BY <4>2, <4>3
    <3> QED
      BY <2>1, <3>1 DEF RefInv, Freed
  <2>5. \A t \in Threads : pc'[t] \in Changing => pc[t] \in Changing /\ cur'[t] = cur[t] /\ pc'[t] = pc[t]
    <3>1. "call" \notin Changing /\ "copy" \notin Changing
      BY DEF Changing, Loaded
    <3> QED
      BY <2>1, <3>1, KnownThreads
  <2>6. OneByOne' /\ LoadedLast'
    <3>1. Loaded \subseteq Changing
      BY DEF Changing
    <3> QED
      BY <2>1, <2>5, <3>1 DEF RefInv, OneByOne, LoadedLast
  <2> QED
    BY <2>3, <2>4, <2>6 DEF RefInv
<1>2. CASE ~Channel
  <2> DEFINE h == "handler"
  <2>1. Frame(h) /\ h \in Threads
    BY <1>0, <1>2, HandlerMoves, KnownThreads
  <2>2. CASE HandlerCall \/ HandlerTime
    <3>1. PICK from \in {"call", "time"}, to \in {"end", "see", "send"} :
             Goto(h, from, to) /\ UNCHANGED <<cur, popped, out, counts>>
      BY <2>2 DEF HandlerCall, HandlerTime, queue
    <3>2. to \notin Changing /\ Weigh(from) = Weigh(to)
      BY DEF Changing, Loaded, Weigh
    <3> QED
      BY <2>1, <3>1, <3>2, RefMove
  <2> QED
    BY <1>2, <2>1, <2>2, RefPop DEF Handler
<1> QED
  BY <1>1, <1>2

\* the goroutine in writeSample
LEMMA RefWriter == LineInv /\ RefInv /\ Writer => RefInv'
<1> SUFFICES ASSUME LineInv, RefInv, Writer PROVE RefInv'
  OBVIOUS
<1> DEFINE w == "writer"
<1>1. Frame(w) /\ w \in Threads
  BY WriterMoves, KnownThreads DEF LineInv
<1>2. CASE WriterCopy \/ WriterEmit \/ WriterReport
  <2>1. PICK from \in {"copy", "emit", "report"}, to \in {"emit", "report", "drop"} :
           Goto(w, from, to) /\ UNCHANGED <<cur, popped, out, counts>>
    BY <1>2 DEF WriterCopy, WriterEmit, WriterReport, queue
  <2>2. to \notin Changing /\ Weigh(from) = Weigh(to)
    BY DEF Changing, Loaded, Weigh
  <2> QED
    BY <1>1, <2>1, <2>2, RefMove
<1> QED
  BY <1>1, <1>2, RefDrop DEF Writer, WriterDrop

\* the thread in Close
LEMMA RefClose == LineInv /\ RefInv /\ Close => RefInv'
<1> SUFFICES ASSUME LineInv, RefInv, Close PROVE RefInv'
  OBVIOUS
<1> DEFINE c == "closer"
<1>1. Frame(c) /\ c \in Threads
  BY CloseMoves, KnownThreads DEF LineInv
<1>2. CASE CloseRaise \/ ClosePeek \/ CloseNil
  <2>1. PICK from \in {"open", "peek", "nil"}, to \in {"peek", "nil", "see", "closed"} :
           Goto(c, from, to) /\ UNCHANGED <<cur, popped, out, counts>>
    BY <1>2 DEF CloseRaise, ClosePeek, CloseNil, queue
  <2>2. to \notin Changing /\ Weigh(from) = Weigh(to)
    BY DEF Changing, Loaded, Weigh
  <2> QED
    BY <1>1, <2>1, <2>2, RefMove
<1> QED
  BY <1>1, <1>2, RefDrop, RefPop DEF Close

LEMMA RefStep == LineInv /\ RefInv /\ [Next]_avars => RefInv'
<1> SUFFICES ASSUME LineInv, RefInv, [Next]_avars PROVE RefInv'
  OBVIOUS
<1>1. CASE UNCHANGED <<pc, cur, reg, popped, queue, counts, flow, shutdown, freed, sinkNil>>
  <2>1. UNCHANGED <<pc, cur, reg, popped, out, refs, buried, refRaced>>
    BY <1>1 DEF queue, counts
  <2>2. \A f : Uses(f)' = Uses(f)
    BY <2>1 DEF Uses, Share, ListShare, Weigh
  <2>3. InUse' = InUse
    BY <2>1 DEF InUse
  <2> QED
    BY <2>1, <2>2, <2>3 DEF RefInv, Counted, Freed, OneByOne, LoadedLast
<1> QED
  BY <1>1, StepKinds, RefVideo, RefHandler, RefWriter, RefClose

\* Until Close is called nothing is gone but a frame whose count raced.
LEMMA OpenStep == LineInv /\ RefInv /\ OpenInv /\ [Next]_avars => OpenInv'
<1> SUFFICES ASSUME LineInv, RefInv, OpenInv, [Next]_avars, closer' = "open"
             PROVE  /\ ~freed' /\ ~sinkNil'
                    /\ handler' = "take" => out' # <<>>
                    /\ fault' => refRaced' # {}
  BY DEF OpenInv
<1>0. Types /\ Holders /\ InLine
  BY DEF LineInv
<1>1. CASE UNCHANGED <<pc, cur, reg, popped, queue, counts, flow, shutdown, freed, sinkNil>>
           /\ (fault' # fault => fault' = TRUE /\ ~fault /\ \E t \in Threads : Dead(t))
  <2>1. closer = "open" /\ UNCHANGED <<handler, out, freed, sinkNil, refRaced>>
    BY <1>1 DEF closer, handler, queue, counts
  <2>2. ~freed /\ ~sinkNil /\ (handler = "take" => out # <<>>) /\ (fault => refRaced # {})
    BY <2>1 DEF OpenInv
  <2>3. ASSUME NEW t \in Threads, Dead(t) PROVE refRaced # {}
    <3>1. ~(pc[t] = "take" /\ out = <<>>)
      <4>1. pc["video"] # "take" /\ pc["writer"] # "take"
        BY <1>0, KnownThreads DEF Types, PCs, DropPCs
      <4> QED
        BY <2>1, <2>2, <4>1, KnownThreads DEF handler, closer
    <3>2. cur[t] \in buried
      BY <2>2, <2>3, <3>1 DEF Dead
    <3>3. cur[t] \in Frames /\ cur[t] \in InUse
      BY <1>0, <3>2, InUseMeans DEF Types
    <3> QED
      BY <3>2, <3>3 DEF RefInv, Freed
  <2> QED
    BY <1>1, <2>1, <2>2, <2>3
<1>2. CASE ~fault /\ Video
  <2>1. Frame("video") /\ UNCHANGED flags /\ (VideoRests \/ VideoPops \/ VideoLinks)
    BY <1>0, <1>2, VideoMoves
  <2>2. closer = "open" /\ handler' = handler /\ UNCHANGED <<freed, sinkNil, fault>>
    BY <2>1, KnownThreads DEF Frame, Only, closer, handler, flags
  <2>3. out # <<>> => out' # <<>>
    <3>1. CASE VideoLinks
      <4>1. out' = Append(out, cur["video"]) /\ cur["video"] \in Frames
        BY <1>0, <3>1, KnownThreads, AppSinkAssumption DEF VideoLinks, Holders, Holding, Types, video, Frames
      <4>2. Len(out') = Len(out) + 1 /\ Len(out) \in Nat
        BY <1>0, <4>1, AppendProperties, LenProperties DEF Types
      <4> QED
        BY <4>2, EmptySeq
    <3> QED
      BY <2>1, <3>1 DEF VideoRests, VideoPops
  <2> QED
    BY <1>2, <2>2, <2>3 DEF OpenInv
<1>3. CASE ~fault /\ Handler
  <2>1. closer = "open" /\ UNCHANGED <<freed, sinkNil, fault>>
    <3>1. CASE Channel
      BY <1>0, <3>1, ChannelMoves DEF closer, flags
    <3>2. CASE ~Channel
      BY <1>0, <1>3, <3>2, HandlerMoves, KnownThreads DEF Frame, Only, closer, flags
    <3> QED
      BY <3>1, <3>2
  <2>2. handler' = "take" => out' # <<>>
    <3>1. CASE Channel
      BY <1>0, <3>1, ChannelMoves
    <3>2. CASE HandlerCall \/ HandlerTime
      <4>1. PICK from \in {"call", "time"}, to \in {"end", "see", "send"} : Goto("handler", from, to)
        BY <3>2 DEF HandlerCall, HandlerTime
      <4> QED
        BY <1>0, <4>1, GotoPlaces, KnownThreads DEF handler
    <3>3. CASE Pop("handler", "time")
      <4>1. CASE SeeElement("handler")
        BY <4>1 DEF SeeElement, queue
      <4>2. CASE ~SeeElement("handler")
        <5> DEFINE h == "handler"
        <5>1. \/ Goto(h, "take", "ref") \/ Goto(h, "ref", "ref2") \/ Goto(h, "ref2", "unref")
              \/ Goto(h, "unref", "unref2") \/ Goto(h, "unref2", "check") \/ Goto(h, "check", "dec")
              \/ Goto(h, "dec", "dec2") \/ Goto(h, "dec2", "time")
          BY <3>3, <4>2 DEF Pop, Take, PopRefLoad, PopRefStore, PopUnrefLoad, PopUnrefStore, PopUnrefCheck,
                            DecLoad, DecStore, CountLoad, CountStore, SizeLoad, SizeStore, FreeIfZero
        <5> QED
          BY <1>0, <5>1, GotoPlaces, KnownThreads DEF handler
      <4> QED
        BY <4>1, <4>2
    <3> QED
      BY <1>3, <3>1, <3>2, <3>3 DEF Handler
  <2> QED
    BY <1>3, <2>1, <2>2 DEF OpenInv
<1>4. CASE ~fault /\ Writer
  <2>1. Frame("writer") /\ UNCHANGED <<popped, out, flags>>
    BY <1>0, <1>4, WriterMoves
  <2>2. closer = "open" /\ handler' = handler /\ UNCHANGED <<out, freed, sinkNil, fault>>
    BY <2>1, KnownThreads DEF Frame, Only, closer, handler, flags
  <2> QED
    BY <1>4, <2>2 DEF OpenInv
<1>5. CASE ~fault /\ Close
  BY <1>0, <1>5, CloseMoves
<1> QED
  BY <1>1, <1>2, <1>3, <1>4, <1>5, StepKinds

LEMMA RefHolds == Spec => [](RefInv /\ OpenInv)
<1>1. Init => OpenInv
  BY DEF Init, OpenInv, handler
<1> QED
  BY <1>1, LineHolds, RefInit, RefStep, OpenStep, PTL DEF Spec

\* A frame's buffer is freed exactly when the threads, the queue and the channel
\* are all done with it, unless two updates of its count overlapped, for any
\* number of frames and wherever Close comes; and until then only such a frame
\* can be freed under a thread (generic_sink.cpp:45, app_sink.cpp:34 and :153,
\* queue.cpp:120, :139 and :172, object.cpp:149 and :163).
THEOREM HeldIsAlive == Spec => []AliveWhileInUse
<1>1. RefInv /\ OpenInv => AliveWhileInUse
  BY DEF RefInv, OpenInv, Freed, AliveWhileInUse, closer
<1> QED
  BY <1>1, RefHolds, PTL

-----------------------------------------------------------------------------
(* What ReadRTP returns.                                                   *)

\* a frame no packet of which was sent yet
Pending(f) ==
    \/ f > popped
    \/ Unlinked /\ f = popped
    \/ f \in ToSet(out) \/ f = got
    \/ writer = "copy" /\ f = work

\* What was read is behind every frame that is pending, and not before the one
\* that is sent.
Behind ==
    \A i \in DOMAIN read :
        /\ \A f \in Frames : Pending(f) => read[i] < f
        /\ writer = "emit" => read[i] <= work

Sorted == \A i, j \in DOMAIN read : i < j => read[i] <= read[j]

\* how many packets of a frame are through
Through ==
    \A f \in Frames :
        /\ Pending(f) => Returned(f) = 0
        /\ Returned(f) <= PacketsOf[f]
        /\ writer = "emit" /\ f = work => Returned(f) + left = PacketsOf[f]
        /\ closer = "open" /\ ~Pending(f) /\ ~(writer = "emit" /\ f = work)
               => Returned(f) = PacketsOf[f]

ReadInv == Behind /\ Sorted /\ Through

-----------------------------------------------------------------------------
(* ReadRTP returns the packets of the frames in order.                     *)

LEMMA ReturnedNat ==
    ASSUME read \in Seq(Frames), NEW f
    PROVE  /\ IsFiniteSet({n \in DOMAIN read : read[n] = f})
           /\ Returned(f) \in Nat
           /\ Returned(f) > 0 => \E i \in DOMAIN read : read[i] = f
<1> DEFINE S == {n \in DOMAIN read : read[n] = f}
<1>1. Len(read) \in Nat /\ DOMAIN read = 1 .. Len(read)
  BY LenProperties
<1>2. IsFiniteSet(1 .. Len(read))
  BY <1>1, FS_Interval
<1>3. IsFiniteSet(S)
  <2>1. S \subseteq 1 .. Len(read)
    BY <1>1
  <2> QED
    BY <1>2, <2>1, FS_Subset
<1>4. Cardinality(S) \in Nat
  BY <1>3, FS_CardinalityType
<1>5. (\A i \in DOMAIN read : read[i] # f) => Cardinality(S) = 0
  <2> SUFFICES ASSUME \A i \in DOMAIN read : read[i] # f PROVE Cardinality(S) = 0
    OBVIOUS
  <2>1. S = {}
    OBVIOUS
  <2> QED
    BY <2>1, FS_EmptySet
<1> QED
  BY <1>3, <1>4, <1>5 DEF Returned

\* ReadRTP returns one packet more, of frame g.
LEMMA ReturnedOneMore ==
    ASSUME read \in Seq(Frames), NEW g \in Frames, read' = Append(read, g), NEW f
    PROVE  Returned(f)' = IF f = g THEN Returned(f) + 1 ELSE Returned(f)
<1> DEFINE S == {n \in DOMAIN read : read[n] = f}
           T == {n \in DOMAIN read' : read'[n] = f}
<1>1. /\ Len(read) \in Nat /\ DOMAIN read = 1 .. Len(read)
      /\ DOMAIN read' = 1 .. Len(read) + 1
      /\ \A n \in 1 .. Len(read) : read'[n] = read[n]
      /\ read'[Len(read) + 1] = g
  BY LenProperties, AppendProperties
<1>2. IsFiniteSet(S)
  BY ReturnedNat
<1>3. CASE f = g
  <2>1. T = S \cup {Len(read) + 1} /\ Len(read) + 1 \notin S
    BY <1>1, <1>3
  <2>2. Cardinality(T) = Cardinality(S) + 1
    BY <1>2, <2>1, FS_AddElement
  <2> QED
    BY <1>3, <2>2 DEF Returned
<1>4. CASE f # g
  <2>1. T = S
    BY <1>1, <1>4
  <2> QED
    BY <1>4, <2>1 DEF Returned
<1> QED
  BY <1>3, <1>4

LEMMA ReadInit == Init => ReadInv
<1> SUFFICES ASSUME Init PROVE ReadInv
  OBVIOUS
<1>1. DOMAIN read = {} /\ read \in Seq(Frames)
  BY DEF Init
<1>2. Behind /\ Sorted
  BY <1>1 DEF Behind, Sorted
<1>3. \A f \in Frames : Returned(f) = 0
  BY <1>1, ReturnedNat
<1>4. \A f \in Frames : Pending(f) /\ PacketsOf[f] \in Nat
  BY AppSinkAssumption DEF Init, Pending, Frames
<1>5. writer = "recv"
  BY DEF Init, writer
<1>6. Through
  BY <1>3, <1>4, <1>5 DEF Through
<1> QED
  BY <1>2, <1>6 DEF ReadInv

\* A step that returns no packet and makes no frame pending keeps the order; as
\* long as Close is not called it takes no frame out of the line either.
LEMMA ReadKept ==
    ASSUME ReadInv, read' = read,
           \A f \in Frames : Pending(f)' => Pending(f),
           writer' = "emit" <=> writer = "emit",
           writer = "emit" => work' = work /\ left' = left,
           closer' = "open" => /\ closer = "open"
                               /\ \A f \in Frames : Pending(f) => Pending(f)',
           read \in Seq(Frames)
    PROVE  ReadInv'
<1>1. \A f \in Frames : Returned(f)' = Returned(f)
  BY DEF Returned
<1>2. \A i \in DOMAIN read : read[i] \in Frames
  BY ElementOfSeq, LenProperties
<1>3. Behind'
  BY <1>2 DEF ReadInv, Behind
<1>4. Sorted'
  BY DEF ReadInv, Sorted
<1>5. Through'
  BY <1>1 DEF ReadInv, Through
<1> QED
  BY <1>3, <1>4, <1>5 DEF ReadInv

LEMMA ReadVideo == LineInv /\ ReadInv /\ Video => ReadInv'
<1> SUFFICES ASSUME LineInv, ReadInv, Video PROVE ReadInv'
  OBVIOUS
<1>1. Types /\ Holders /\ InLine
  BY DEF LineInv
<1>2. Frame("video") /\ UNCHANGED <<flow, flags>> /\ (VideoRests \/ VideoPops \/ VideoLinks)
  BY <1>1, VideoMoves
<1>3. UNCHANGED <<got, work, writer, closer, read, left>> /\ read \in Seq(Frames)
  BY <1>1, <1>2, KnownThreads DEF Frame, Only, flow, writer, closer, got, work, Types
<1>4. \A f \in Frames : Pending(f)' <=> Pending(f)
  <2> SUFFICES ASSUME NEW f \in Frames PROVE Pending(f)' <=> Pending(f)
    OBVIOUS
  <2>0. f \in Int /\ popped \in Int
    BY <1>1, AppSinkAssumption DEF Types, Frames
  <2>1. CASE VideoRests
    BY <1>3, <2>1 DEF Pending, VideoRests
  <2>2. CASE VideoPops
    <3>1. ~Unlinked /\ Unlinked' /\ popped' = popped + 1 /\ out' = out
      BY <2>2 DEF VideoPops, Unlinked
    <3> QED
      BY <1>3, <2>0, <3>1 DEF Pending
  <2>3. CASE VideoLinks
    <3>1. /\ Unlinked /\ ~Unlinked' /\ popped' = popped /\ out' = Append(out, cur["video"])
          /\ cur["video"] = popped /\ cur["video"] \in Frames
      <4>1. video \in Holding
        BY <2>3 DEF VideoLinks, Holding
      <4> QED
        BY <1>1, <2>3, <4>1, KnownThreads, AppSinkAssumption DEF VideoLinks, Unlinked, Holders, Types, Frames, video
    <3>2. ToSet(out)' = ToSet(out) \cup {popped}
      <4>1. \A q \in ToSet(out) : q < cur["video"]
        BY <1>1, <3>1 DEF InLine
      <4> QED
        BY <1>1, <3>1, <4>1, RisingAppend DEF InLine, Types
    <3> QED
      BY <1>3, <2>0, <3>1, <3>2 DEF Pending
  <2> QED
    BY <1>2, <2>1, <2>2, <2>3
<1> QED
  BY <1>3, <1>4, ReadKept

LEMMA ReadHandler == LineInv /\ ReadInv /\ Handler => ReadInv'
<1> SUFFICES ASSUME LineInv, ReadInv, Handler PROVE ReadInv'
  OBVIOUS
<1>1. Types /\ Holders /\ InLine /\ read \in Seq(Frames) /\ 0 \notin Frames
  <2>1. 0 \notin Frames
    BY AppSinkAssumption DEF Frames
  <2>2. Types /\ Holders /\ InLine
    BY DEF LineInv
  <2> QED
    BY <2>1, <2>2 DEF Types
<1>2. ASSUME Frame("handler"), UNCHANGED <<popped, flags>>, HandlerRests \/ HandlerTakes \/ HandlerTimes
      PROVE  ReadInv'
  <2>1. /\ UNCHANGED <<work, writer, closer, popped>> /\ (Unlinked' <=> Unlinked)
    BY <1>2, KnownThreads DEF Frame, Only, work, writer, closer, Unlinked, video
  <2>2. UNCHANGED <<left, read>>
    BY <1>2 DEF HandlerRests, HandlerTakes, HandlerTimes, flow
  <2>3. \A f \in Frames : Pending(f)' <=> Pending(f)
    <3>1. CASE HandlerTakes
      <4>1. got = 0 /\ got' = Head(out) /\ out # <<>> /\ out' = Tail(out)
        <5>1. "take" \notin Holding
          BY DEF Holding, DropPCs
        <5> QED
          BY <1>1, <3>1, <5>1, KnownThreads DEF HandlerTakes, Holders, Types, got, handler
      <4>2. ToSet(out) = {Head(out)} \cup ToSet(out)'
        BY <1>1, <4>1, RisingTail DEF InLine, Types
      <4> QED
        BY <1>1, <2>1, <4>1, <4>2 DEF Pending
    <3>2. CASE HandlerRests \/ HandlerTimes
      <4>1. out' = out /\ got' = got
        BY <3>2 DEF HandlerRests, HandlerTimes, got
      <4> QED
        BY <2>1, <4>1 DEF Pending
    <3> QED
      BY <1>2, <3>1, <3>2
  <2> QED
    BY <1>1, <2>1, <2>2, <2>3, ReadKept
<1>3. CASE Channel
  <2>1. /\ UNCHANGED <<popped, out, read, left, closer>> /\ (Unlinked' <=> Unlinked)
        /\ writer = "recv" /\ writer' = "copy" /\ got' = 0 /\ work' = got
    BY <1>1, <1>3, ChannelMoves DEF queue, closer, Unlinked, video
  <2>2. \A f \in Frames : Pending(f)' <=> Pending(f)
    BY <1>1, <2>1 DEF Pending
  <2> QED
    BY <1>1, <2>1, <2>2, ReadKept
<1> QED
  BY <1>1, <1>2, <1>3, HandlerMoves

\* A pending frame comes after the one that is packetized.
LEMMA PendingLater ==
    ASSUME LineInv, writer \in Holding, writer # "copy", NEW f \in Frames, Pending(f)
    PROVE  work < f
<1>1. Types /\ Holders /\ InLine
  BY DEF LineInv
<1>2. /\ work \in Nat /\ f \in Nat /\ popped \in Nat /\ f # 0 /\ work <= popped
  BY <1>1, QueuedFrames, KnownThreads, AppSinkAssumption DEF InLine, work, Frames
<1>3. CASE f > popped
  BY <1>2, <1>3
<1>4. CASE Unlinked /\ f = popped
  BY <1>1, <1>4, KnownThreads DEF InLine, work
<1>5. CASE f \in ToSet(out)
  BY <1>1, <1>5 DEF InLine
<1>6. CASE f = got
  BY <1>1, <1>2, <1>6 DEF InLine
<1> QED
  BY <1>3, <1>4, <1>5, <1>6 DEF Pending

LEMMA ReadWriter == LineInv /\ ReadInv /\ Writer => ReadInv'
<1> SUFFICES ASSUME LineInv, ReadInv, Writer PROVE ReadInv'
  OBVIOUS
<1>0. Types /\ Holders /\ InLine
  BY DEF LineInv
<1>1. Frame("writer") /\ UNCHANGED <<popped, out, flags>> /\ (WriterCopies \/ WriterEmits \/ WriterRests)
  BY <1>0, WriterMoves
<1>2. /\ UNCHANGED <<popped, out, got, closer>> /\ (Unlinked' <=> Unlinked)
  BY <1>1, KnownThreads DEF Frame, Only, got, closer, Unlinked, video
<1>3. /\ read \in Seq(Frames) /\ left \in Nat /\ Frames \subseteq Int
      /\ writer \in Holding => work \in Frames
  BY <1>0, KnownThreads, AppSinkAssumption DEF Types, Holders, Frames, writer, work
<1>4. \A i \in DOMAIN read : read[i] \in Frames
  BY <1>3, ElementOfSeq, LenProperties
<1>5. \A f \in Frames : Returned(f) \in Nat /\ PacketsOf[f] \in Nat
  BY <1>3, ReturnedNat, AppSinkAssumption
<1>6. CASE WriterCopies
  <2>1. /\ UNCHANGED <<work, read>> /\ writer = "copy" /\ left' = PacketsOf[work] /\ work \in Frames
        /\ writer' = IF PacketsOf[work] > 0 THEN "emit" ELSE "report"
    <3>1. "copy" \in Holding
      BY DEF Holding
    <3> QED
      BY <1>3, <1>6, <3>1 DEF WriterCopies, work
  <2>2. Pending(work)
    BY <2>1 DEF Pending
  <2>3. \A f \in Frames : Pending(f)' <=> Pending(f) /\ f # work
    <3> SUFFICES ASSUME NEW f \in Frames PROVE Pending(f)' <=> Pending(f) /\ f # work
      OBVIOUS
    <3>1. /\ work <= popped /\ work # 0 /\ popped \in Nat /\ work \in Nat
          /\ (Unlinked => work < popped) /\ (\A q \in ToSet(out) : work < q) /\ (got # 0 => work < got)
      BY <1>0, <2>1, QueuedFrames, KnownThreads, AppSinkAssumption DEF InLine, work, Frames
    <3>2. ~(work > popped) /\ ~(Unlinked /\ work = popped) /\ work \notin ToSet(out) /\ work # got
      BY <3>1
    <3>3. writer' # "copy"
      BY <2>1
    <3> QED
      BY <1>2, <2>1, <3>2, <3>3 DEF Pending
  <2>4. Behind'
    <3> SUFFICES ASSUME NEW i \in DOMAIN read'
                 PROVE  /\ \A f \in Frames : Pending(f)' => read'[i] < f
                        /\ read'[i] <= work'
      BY DEF Behind
    <3>0. i \in DOMAIN read /\ read'[i] = read[i] /\ work' = work
      BY <2>1
    <3>1. read[i] \in Frames /\ \A f \in Frames : Pending(f) => read[i] < f
      BY <1>4, <3>0 DEF ReadInv, Behind
    <3>2. read[i] < work
      BY <2>1, <2>2, <3>1
    <3>3. \A f \in Frames : Pending(f)' => read'[i] < f
      BY <2>3, <3>0, <3>1
    <3>4. read'[i] <= work'
      <4>1. read[i] \in Int /\ work \in Int
        BY <2>1, <3>1, AppSinkAssumption DEF Frames
      <4> QED
        BY <3>0, <3>2, <4>1
    <3> QED
      BY <3>3, <3>4
  <2>5. Sorted'
    BY <2>1 DEF ReadInv, Sorted
  <2>6. Through'
    <3>1. \A f \in Frames : Returned(f)' = Returned(f)
      BY <2>1 DEF Returned
    <3> QED
      BY <1>2, <1>5, <2>1, <2>2, <2>3, <3>1 DEF ReadInv, Through
  <2> QED
    BY <2>4, <2>5, <2>6 DEF ReadInv
<1>7. CASE WriterEmits
  <2>1. /\ work' = work /\ writer = "emit" /\ left > 0 /\ left' = left - 1
        /\ writer' = (IF left > 1 THEN "emit" ELSE "report")
        /\ read' = Append(read, work) /\ work \in Frames
    <3>1. "emit" \in Holding
      BY DEF Holding
    <3> QED
      BY <1>0, <1>3, <1>7, <3>1 DEF WriterEmits, work, Types
  <2>2. \A f \in Frames : (Pending(f)' <=> Pending(f)) /\ (Pending(f) => work < f)
    <3>1. writer \in Holding /\ writer # "copy" /\ writer' # "copy"
      BY <2>1 DEF Holding
    <3>2. \A f \in Frames : Pending(f)' <=> Pending(f)
      BY <1>2, <2>1, <3>1 DEF Pending
    <3> QED
      BY <3>1, <3>2, PendingLater
  <2>3. /\ DOMAIN read' = 1 .. Len(read) + 1 /\ Len(read) \in Nat
        /\ DOMAIN read = 1 .. Len(read)
        /\ \A i \in 1 .. Len(read) : read'[i] = read[i]
        /\ read'[Len(read) + 1] = work
    BY <1>3, <2>1, AppendProperties, LenProperties
  <2>4. Behind'
    <3> SUFFICES ASSUME NEW i \in DOMAIN read'
                 PROVE  /\ \A f \in Frames : Pending(f)' => read'[i] < f
                        /\ read'[i] <= work
      BY <2>1 DEF Behind
    <3>1. CASE i = Len(read) + 1
      BY <1>3, <2>1, <2>2, <2>3, <3>1
    <3>2. CASE i \in DOMAIN read
      <4>1. /\ read[i] \in Frames /\ read[i] <= work
            /\ \A f \in Frames : Pending(f) => read[i] < f
        BY <1>4, <2>1, <3>2 DEF ReadInv, Behind
      <4>2. read'[i] = read[i]
        BY <2>3, <3>2
      <4> QED
        BY <2>2, <4>1, <4>2
    <3> QED
      BY <2>3, <3>1, <3>2
  <2>5. Sorted'
    <3> SUFFICES ASSUME NEW i \in DOMAIN read', NEW j \in DOMAIN read', i < j
                 PROVE  read'[i] <= read'[j]
      BY DEF Sorted
    <3>1. i \in DOMAIN read /\ read'[i] = read[i] /\ read[i] \in Frames /\ read[i] <= work
      BY <1>4, <2>1, <2>3 DEF ReadInv, Behind
    <3>2. CASE j = Len(read) + 1
      BY <2>3, <3>1, <3>2
    <3>3. CASE j \in DOMAIN read
      BY <2>3, <3>1, <3>3 DEF ReadInv, Sorted
    <3> QED
      BY <2>3, <3>2, <3>3
  <2>6. Through'
    <3> SUFFICES ASSUME NEW f \in Frames
                 PROVE  /\ Pending(f)' => Returned(f)' = 0
                        /\ Returned(f)' <= PacketsOf[f]
                        /\ writer' = "emit" /\ f = work => Returned(f)' + left' = PacketsOf[f]
                        /\ closer = "open" /\ ~Pending(f)' /\ ~(writer' = "emit" /\ f = work)
                               => Returned(f)' = PacketsOf[f]
      BY <1>2, <2>1 DEF Through
    <3>1. Returned(f)' = IF f = work THEN Returned(f) + 1 ELSE Returned(f)
      BY <1>3, <2>1, ReturnedOneMore
    <3>2. /\ Pending(f) => Returned(f) = 0
          /\ Returned(f) <= PacketsOf[f]
          /\ f = work => Returned(f) + left = PacketsOf[f]
          /\ closer = "open" /\ ~Pending(f) /\ f # work => Returned(f) = PacketsOf[f]
      BY <2>1 DEF ReadInv, Through
    <3>3. /\ Returned(f) \in Nat /\ PacketsOf[f] \in Nat /\ left \in Nat
          /\ (Pending(f)' <=> Pending(f)) /\ (Pending(f) => f # work)
      BY <1>3, <1>5, <2>2
    <3>4. CASE f = work
      <4>1. Returned(f)' = Returned(f) + 1 /\ ~Pending(f) /\ Returned(f) + left = PacketsOf[f]
        BY <3>1, <3>2, <3>3, <3>4
      <4>2. Returned(f)' + left' = PacketsOf[f]
        BY <2>1, <3>3, <4>1
      <4>3. Returned(f)' <= PacketsOf[f]
        BY <2>1, <3>3, <4>1
      <4>4. writer' # "emit" => Returned(f)' = PacketsOf[f]
        BY <2>1, <3>3, <4>1
      <4> QED
        BY <3>3, <3>4, <4>1, <4>2, <4>3, <4>4
    <3>5. CASE f # work
      BY <3>1, <3>2, <3>3, <3>5
    <3> QED
      BY <3>4, <3>5
  <2> QED
    BY <2>4, <2>5, <2>6 DEF ReadInv
<1>8. CASE WriterRests
  <2>1. UNCHANGED <<read, left>> /\ writer \notin {"copy", "emit"} /\ writer' \notin {"copy", "emit"}
    BY <1>8 DEF WriterRests, flow, DropPCs
  <2>2. \A f \in Frames : Pending(f)' <=> Pending(f)
    BY <1>2, <2>1 DEF Pending
  <2> QED
    BY <1>2, <1>3, <2>1, <2>2, ReadKept
<1> QED
  BY <1>1, <1>6, <1>7, <1>8

LEMMA ReadClose == LineInv /\ ReadInv /\ Close => ReadInv'
<1> SUFFICES ASSUME LineInv, ReadInv, Close PROVE ReadInv'
  OBVIOUS
<1>1. Types /\ Holders /\ InLine /\ read \in Seq(Frames)
  BY DEF LineInv, Types
<1>2. /\ Frame("closer") /\ UNCHANGED <<popped, flow>> /\ closer' # "open"
      /\ out' = out \/ CloserTakes
  BY <1>1, CloseMoves
<1>3. /\ UNCHANGED <<popped, got, work, writer, read, left>> /\ (Unlinked' <=> Unlinked)
  BY <1>2, KnownThreads DEF Frame, Only, got, work, writer, flow, Unlinked, video
<1>4. ToSet(out)' \subseteq ToSet(out)
  <2>1. CASE CloserTakes
    <3>1. ToSet(out) = {Head(out)} \cup ToSet(Tail(out)) /\ out' = Tail(out)
      BY <1>1, <2>1, RisingTail DEF InLine, Types, CloserTakes
    <3> QED
      BY <3>1
  <2> QED
    BY <1>2, <2>1
<1>5. \A f \in Frames : Pending(f)' => Pending(f)
  BY <1>3, <1>4 DEF Pending
<1> QED
  BY <1>1, <1>2, <1>3, <1>5, ReadKept

LEMMA ReadStep == LineInv /\ ReadInv /\ [Next]_avars => ReadInv'
<1> SUFFICES ASSUME LineInv, ReadInv, [Next]_avars PROVE ReadInv'
  OBVIOUS
<1>1. CASE UNCHANGED <<pc, cur, reg, popped, queue, counts, flow, shutdown, freed, sinkNil>>
  <2>1. UNCHANGED <<popped, out, got, work, writer, closer, left, read>> /\ (Unlinked' <=> Unlinked)
    BY <1>1 DEF queue, flow, got, work, writer, closer, Unlinked, video
  <2>2. read \in Seq(Frames) /\ \A f \in Frames : Pending(f)' <=> Pending(f)
    BY <2>1 DEF Pending, LineInv, Types
  <2> QED
    BY <2>1, <2>2, ReadKept
<1> QED
  BY <1>1, StepKinds, ReadVideo, ReadHandler, ReadWriter, ReadClose

LEMMA ReadHolds == Spec => []ReadInv
  BY LineHolds, ReadInit, ReadStep, PTL DEF Spec

\* ReadRTP returns the packets of the frames in the order the frames were made,
\* none twice, and until Close is called none is missing of a frame before the
\* one it is at (appsink.go:131-145).
THEOREM PacketsInOrder == Spec => []ReadInOrder
<1>1. LineInv /\ ReadInv => ReadInOrder
  <2> SUFFICES ASSUME LineInv, ReadInv PROVE ReadInOrder
    OBVIOUS
  <2>1. \A f \in Frames : Returned(f) > 0 => \E i \in DOMAIN read : read[i] = f
    BY ReturnedNat DEF LineInv, Types
  <2>2. ASSUME closer = "open", NEW f \in Frames, NEW g \in Frames, f < g, Returned(g) > 0
        PROVE  Returned(f) = PacketsOf[f]
    <3>1. PICK i \in DOMAIN read : read[i] = g
      BY <2>1, <2>2
    <3>2. ~Pending(f) /\ (writer = "emit" => g <= work)
      BY <2>2, <3>1 DEF ReadInv, Behind, Frames
    <3>3. ~(writer = "emit" /\ f = work)
      BY <2>2, <3>2 DEF Frames
    <3> QED
      BY <2>2, <3>2, <3>3 DEF ReadInv, Through
  <2> QED
    BY <2>2 DEF ReadInOrder, ReadInv, Sorted, Through, closer
<1> QED
  BY <1>1, LineHolds, ReadHolds, PTL

-----------------------------------------------------------------------------
(* The times the packets carry.                                            *)

\* the frame packetized last, the one before what the handler holds, and the one
\* whose time it saw last; 0 if there is none
Stamped == IF stamped = <<>> THEN 0 ELSE stamped[Len(stamped)].frame
Ahead == IF writer = "copy" THEN work ELSE Stamped
Newest == IF handler = "send" THEN got ELSE Ahead

Stamps == [frame : Frames, clock : 0 .. ClockModulus - 1]

\* The durations under way are the differences between frames that follow each
\* other.
Durations ==
    /\ prev \in Nat /\ duration \in [{"got", "work"} -> Int]
    /\ clock \in 0 .. ClockModulus - 1 /\ stamped \in Seq(Stamps)
    /\ Newest # 0 => prev = Created[Newest]
    /\ handler = "send" /\ Ahead # 0 => duration.got = ToInt(Created[got] - Created[Ahead])
    /\ writer = "copy" /\ Stamped # 0 => duration.work = ToInt(Created[work] - Created[Stamped])

\* Each frame is stamped once and in its turn.
Turns ==
    /\ Stamped <= popped
    /\ writer = "copy" => Stamped < work
    /\ got # 0 => Stamped < got
    /\ \A q \in ToSet(out) : Stamped < q
    /\ Unlinked => Stamped < popped

\* the clock after the n-th frame: what the next one is stamped with
After(n) == IF n < Len(stamped) THEN stamped[n + 1].clock ELSE clock

\* what ClockLag says of the first n frames
Lag(n) ==
    (\A k \in 2 .. n : Created[stamped[k].frame] - Created[stamped[k - 1].frame]
                             < IntModulus \div 2)
    => \E ticks \in Nat :
          /\ After(n) = (After(1) + ticks) % ClockModulus
          /\ Created[stamped[n].frame] - Created[stamped[1].frame] - Tick * ticks
                 \in 0 .. (n - 1) * (Tick - 1)

ClockInv == Durations /\ Turns /\ \A n \in 1 .. Len(stamped) : Lag(n)

-----------------------------------------------------------------------------
(* The RTP clock follows the times of the frames.                          *)

\* what a division leaves
LEMMA Division ==
    ASSUME NEW a \in Int, NEW b \in Nat \ {0}
    PROVE  /\ a % b \in 0 .. b - 1 /\ a \div b \in Int
           /\ a - b * (a \div b) = a % b
<1>1. a % b \in 0 .. b - 1 /\ a \div b \in Int
  OBVIOUS
<1>2. a = (a \div b) * b + (a % b)
  BY Z3
<1> QED
  BY <1>1, <1>2

LEMMA SmallRemainder ==
    ASSUME NEW b \in Nat \ {0}, NEW a \in 0 .. b - 1
    PROVE  a % b = a
<1> DEFINE q == a \div b
<1>1. a % b \in 0 .. b - 1 /\ q \in Int /\ a - b * q = a % b
  BY Division
<1>2. q <= 0
  <2> SUFFICES ASSUME q >= 1 PROVE FALSE
    BY <1>1
  <2> HIDE DEF q
  <2>1. b * 1 <= b * q
    BY <1>1
  <2> QED
    BY <1>1, <2>1
<1>3. q >= 0
  <2> SUFFICES ASSUME q <= -1 PROVE FALSE
    BY <1>1
  <2> HIDE DEF q
  <2>1. b * q <= b * (-1)
    BY <1>1
  <2> QED
    BY <1>1, <2>1
<1> HIDE DEF q
<1>4. q = 0
  BY <1>1, <1>2, <1>3
<1> QED
  BY <1>1, <1>4

\* two numbers less than b apart with the same remainder are one
LEMMA SameRemainder ==
    ASSUME NEW b \in Nat \ {0}, NEW r \in 0 .. b - 1, NEW s \in 0 .. b - 1,
           NEW p \in Int, NEW q \in Int, b * p + r = b * q + s
    PROVE  r = s
<1>1. b * (p - q) = s - r
  OBVIOUS
<1>2. p - q <= 0
  <2> SUFFICES ASSUME p - q >= 1 PROVE FALSE
    OBVIOUS
  <2>1. b * 1 <= b * (p - q)
    OBVIOUS
  <2> QED
    BY <1>1, <2>1
<1>3. p - q >= 0
  <2> SUFFICES ASSUME p - q <= -1 PROVE FALSE
    OBVIOUS
  <2>1. b * (p - q) <= b * (-1)
    OBVIOUS
  <2> QED
    BY <1>1, <2>1
<1>4. p = q
  BY <1>2, <1>3
<1> QED
  BY <1>1, <1>4

\* a wrapping clock may wrap whenever it likes
LEMMA ModSum ==
    ASSUME NEW b \in Nat \ {0}, NEW a \in Int, NEW c \in Int
    PROVE  ((a % b) + c) % b = (a + c) % b
<1> DEFINE p == a \div b
           q == ((a % b) + c) \div b
           t == (a + c) \div b
<1>1. a % b \in 0 .. b - 1 /\ p \in Int /\ a - b * p = a % b
  BY Division
<1>2. /\ ((a % b) + c) % b \in 0 .. b - 1 /\ q \in Int
      /\ ((a % b) + c) - b * q = ((a % b) + c) % b
  <2>1. (a % b) + c \in Int
    BY <1>1
  <2> QED
    BY <2>1, Division
<1>3. (a + c) % b \in 0 .. b - 1 /\ t \in Int /\ (a + c) - b * t = (a + c) % b
  <2>1. a + c \in Int
    OBVIOUS
  <2> QED
    BY <2>1, Division
<1> HIDE DEF p, q, t
<1>4. b * (p + q) + (((a % b) + c) % b) = b * t + ((a + c) % b)
  <2> DEFINE x == b * p
             y == b * q
             z == b * t
             r == a % b
             s == (r + c) % b
             u == (a + c) % b
  <2>1. b * (p + q) = x + y
    BY <1>1, <1>2
  <2>2. x \in Int /\ y \in Int /\ z \in Int /\ r \in Int /\ s \in Int /\ u \in Int
    BY <1>1, <1>2, <1>3
  <2>3. a - x = r /\ (r + c) - y = s /\ (a + c) - z = u
    BY <1>1, <1>2, <1>3
  <2> HIDE DEF x, y, z, r, s, u
  <2>4. x + y + s = z + u
    BY <2>2, <2>3
  <2> QED
    BY <2>1, <2>4 DEF z, r, s, u
<1> DEFINE s == ((a % b) + c) % b
           u == (a + c) % b
<1> HIDE DEF s, u
<1>5. s \in 0 .. b - 1 /\ u \in 0 .. b - 1 /\ p + q \in Int /\ b * (p + q) + s = b * t + u
  BY <1>1, <1>2, <1>3, <1>4 DEF s, u
<1>6. s = u
  BY <1>3, <1>5, SameRemainder
<1> QED
  BY <1>6 DEF s, u

\* an int keeps what is not too large for it
LEMMA ToIntSmall ==
    /\ \A x \in Int : ToInt(x) \in Int
    /\ \A x \in Nat : x < IntModulus \div 2 => ToInt(x) = x
<1>1. IntModulus \in Nat \ {0} /\ IntModulus \div 2 \in Nat
      /\ 2 * (IntModulus \div 2) = IntModulus
  BY AppSinkAssumption
<1>2. ASSUME NEW x \in Int PROVE ToInt(x) \in Int
  <2>1. (x + IntModulus \div 2) % IntModulus \in Int
    BY <1>1, Division
  <2> QED
    BY <1>1, <2>1 DEF ToInt
<1>3. ASSUME NEW x \in Nat, x < IntModulus \div 2 PROVE ToInt(x) = x
  <2>1. x + IntModulus \div 2 \in 0 .. IntModulus - 1
    BY <1>1, <1>3
  <2>2. (x + IntModulus \div 2) % IntModulus = x + IntModulus \div 2
    BY <1>1, <2>1, SmallRemainder
  <2> QED
    BY <1>1, <2>2 DEF ToInt
<1> QED
  BY <1>2, <1>3

LEMMA StampedFrame ==
    ASSUME stamped \in Seq(Stamps)
    PROVE  /\ Stamped \in 0 .. MaxFrames /\ Len(stamped) \in Nat
           /\ Stamped = 0 <=> stamped = <<>>
           /\ stamped = <<>> <=> Len(stamped) = 0
           /\ \A n \in 1 .. Len(stamped) : stamped[n] \in Stamps /\ stamped[n].frame \in Frames
<1>1. Len(stamped) \in Nat /\ (stamped = <<>> <=> Len(stamped) = 0)
  BY LenProperties, EmptySeq
<1>2. \A n \in 1 .. Len(stamped) : stamped[n] \in Stamps
  BY ElementOfSeq
<1>3. \A n \in 1 .. Len(stamped) : stamped[n].frame \in Frames
  BY <1>2 DEF Stamps
<1>4. stamped # <<>> => Stamped \in Frames
  BY <1>1, <1>3 DEF Stamped
<1> QED
  BY <1>1, <1>2, <1>3, <1>4, AppSinkAssumption DEF Stamped, Frames

LEMMA ClockInit == Init => ClockInv
<1> SUFFICES ASSUME Init PROVE ClockInv
  OBVIOUS
<1>1. stamped = <<>> /\ Len(stamped) = 0
  BY DEF Init
<1>2. Stamped = 0 /\ Ahead = 0 /\ Newest = 0 /\ handler = "call" /\ writer = "recv" /\ ~Unlinked
  BY <1>1 DEF Init, Stamped, Ahead, Newest, handler, writer, Unlinked, video
<1>3. Durations
  BY <1>1, <1>2, AppSinkAssumption DEF Init, Durations
<1>4. Turns
  <2>1. got = 0 /\ popped = 0 /\ ToSet(out) = {}
    BY KnownThreads DEF Init, got, ToSet
  <2> QED
    BY <1>2, <2>1 DEF Turns
<1> QED
  BY <1>1, <1>3, <1>4 DEF ClockInv

\* A step that stamps no frame leaves what was said of those stamped.
LEMMA LagKept == ASSUME ClockInv, stamped' = stamped, clock' = clock
                 PROVE  /\ \A n \in 1 .. Len(stamped') : Lag(n)'
                        /\ Stamped' = Stamped
  BY DEF ClockInv, Lag, After, Stamped

LEMMA ClockVideo == LineInv /\ ClockInv /\ Video => ClockInv'
<1> SUFFICES ASSUME LineInv, ClockInv, Video PROVE ClockInv'
  OBVIOUS
<1>0. Types /\ Holders /\ InLine
  BY DEF LineInv
<1>1. Frame("video") /\ UNCHANGED <<flow, flags>> /\ (VideoRests \/ VideoPops \/ VideoLinks)
  BY <1>0, VideoMoves
<1>2. UNCHANGED <<handler, got, writer, work, prev, duration, clock, stamped>>
  BY <1>1, KnownThreads DEF Frame, Only, flow, times, handler, got, writer, work
<1>3. Stamped' = Stamped /\ Ahead' = Ahead /\ Newest' = Newest
  BY <1>2, LagKept DEF Ahead, Newest
<1>4. Durations'
  BY <1>2, <1>3 DEF ClockInv, Durations
<1>5. Stamped \in 0 .. MaxFrames /\ popped \in Nat
  BY <1>0, StampedFrame DEF Types, ClockInv, Durations
<1>6. Turns'
  <2>1. CASE VideoRests
    BY <1>2, <1>3, <2>1 DEF ClockInv, Turns, VideoRests
  <2>2. CASE VideoPops
    <3>1. popped' = popped + 1 /\ ToSet(out)' = ToSet(out)
      BY <2>2 DEF VideoPops
    <3> QED
      BY <1>2, <1>3, <1>5, <3>1 DEF ClockInv, Turns
  <2>3. CASE VideoLinks
    <3>1. /\ Unlinked /\ ~Unlinked' /\ popped' = popped /\ out' = Append(out, cur["video"])
          /\ cur["video"] = popped /\ cur["video"] \in Frames
      <4>1. video \in Holding
        BY <2>3 DEF VideoLinks, Holding
      <4> QED
        BY <1>0, <2>3, <4>1, KnownThreads, AppSinkAssumption DEF VideoLinks, Unlinked, Holders, Types, Frames, video
    <3>2. ToSet(out)' = ToSet(out) \cup {popped}
      <4>1. \A q \in ToSet(out) : q < cur["video"]
        BY <1>0, <3>1 DEF InLine
      <4> QED
        BY <1>0, <3>1, <4>1, RisingAppend DEF InLine, Types
    <3> QED
      BY <1>2, <1>3, <3>1, <3>2 DEF ClockInv, Turns
  <2> QED
    BY <1>1, <2>1, <2>2, <2>3
<1> QED
  BY <1>2, <1>4, <1>6, LagKept DEF ClockInv

LEMMA ClockClose == LineInv /\ ClockInv /\ Close => ClockInv'
<1> SUFFICES ASSUME LineInv, ClockInv, Close PROVE ClockInv'
  OBVIOUS
<1>0. Types /\ Holders /\ InLine
  BY DEF LineInv
<1>1. /\ Frame("closer") /\ UNCHANGED <<popped, flow>>
      /\ out' = out \/ CloserTakes
  BY <1>0, CloseMoves
<1>2. /\ UNCHANGED <<popped, handler, got, writer, work, prev, duration, clock, stamped>>
      /\ (Unlinked' <=> Unlinked)
  BY <1>1, KnownThreads DEF Frame, Only, flow, times, handler, got, writer, work, Unlinked, video
<1>3. Stamped' = Stamped /\ Ahead' = Ahead /\ Newest' = Newest
  BY <1>2, LagKept DEF Ahead, Newest
<1>4. Durations'
  BY <1>2, <1>3 DEF ClockInv, Durations
<1>5. ToSet(out)' \subseteq ToSet(out)
  <2>1. CASE CloserTakes
    <3>1. ToSet(out) = {Head(out)} \cup ToSet(Tail(out)) /\ out' = Tail(out)
      BY <1>0, <2>1, RisingTail DEF InLine, Types, CloserTakes
    <3> QED
      BY <3>1
  <2> QED
    BY <1>1, <2>1
<1>6. Turns'
  BY <1>2, <1>3, <1>5 DEF ClockInv, Turns
<1> QED
  BY <1>2, <1>4, <1>6, LagKept DEF ClockInv

LEMMA ClockHandler == LineInv /\ ClockInv /\ Handler => ClockInv'
<1> SUFFICES ASSUME LineInv, ClockInv, Handler PROVE ClockInv'
  OBVIOUS
<1>0. Types /\ Holders /\ InLine /\ Stamped \in 0 .. MaxFrames
  BY StampedFrame DEF LineInv, ClockInv, Durations
<1>1. ASSUME Frame("handler"), UNCHANGED <<popped, flags>>, HandlerRests \/ HandlerTakes \/ HandlerTimes
      PROVE  ClockInv'
  <2>1. UNCHANGED <<popped, writer, work>> /\ (Unlinked' <=> Unlinked)
    BY <1>1, KnownThreads DEF Frame, Only, writer, work, Unlinked, video
  <2>2. UNCHANGED <<clock, stamped>>
    BY <1>1 DEF HandlerRests, HandlerTakes, HandlerTimes, flow, times
  <2>3. Stamped' = Stamped /\ Ahead' = Ahead
    BY <2>1, <2>2, LagKept DEF Ahead
  <2>4. CASE HandlerRests
    <3>1. UNCHANGED <<out, got, prev, duration>> /\ handler # "send" /\ handler' # "send"
      BY <2>4 DEF HandlerRests, flow, times, got
    <3>2. Newest' = Newest
      BY <2>3, <3>1 DEF Newest
    <3>3. Durations'
      BY <2>1, <2>2, <2>3, <3>1, <3>2 DEF ClockInv, Durations
    <3>4. Turns'
      BY <2>1, <2>3, <3>1 DEF ClockInv, Turns
    <3> QED
      BY <2>2, <3>3, <3>4, LagKept DEF ClockInv
  <2>5. CASE HandlerTakes
    <3>1. /\ UNCHANGED <<prev, duration>> /\ handler # "send" /\ handler' # "send"
          /\ got' = Head(out) /\ out # <<>> /\ out' = Tail(out)
      BY <1>0, <2>5, KnownThreads DEF HandlerTakes, flow, times, Types, got
    <3>2. Newest' = Newest
      BY <2>3, <3>1 DEF Newest
    <3>3. Durations'
      BY <2>1, <2>2, <2>3, <3>1, <3>2 DEF ClockInv, Durations
    <3>4. ToSet(out) = {Head(out)} \cup ToSet(out)'
      BY <1>0, <3>1, RisingTail DEF InLine, Types
    <3>5. Turns'
      BY <2>1, <2>3, <3>1, <3>4 DEF ClockInv, Turns
    <3> QED
      BY <2>2, <3>3, <3>5, LagKept DEF ClockInv
  <2>6. CASE HandlerTimes
    <3>1. /\ UNCHANGED <<out, got>> /\ handler = "time" /\ handler' = "send"
          /\ duration' = [duration EXCEPT !.got = ToInt(Created[got] - prev)]
          /\ prev' = Created[got] /\ got \in Frames
      <4>1. "time" \in Holding
        BY DEF Holding
      <4>2. /\ UNCHANGED <<out, got>> /\ handler = "time" /\ handler' = "send"
            /\ duration' = [duration EXCEPT !.got = ToInt(Created[got] - prev)]
            /\ prev' = Created[got]
        BY <1>0, <2>6, KnownThreads DEF HandlerTimes, got, handler, Types
      <4>3. got \in Frames
        <5>1. "handler" \in Threads /\ pc["handler"] \in Holding
          BY <4>1, <4>2, KnownThreads DEF handler
        <5> QED
          BY <1>0, <5>1, AppSinkAssumption DEF got, Holders, Types, Frames
      <4> QED
        BY <4>2, <4>3
    <3>2. Newest' = got /\ Newest = Ahead
      BY <3>1 DEF Newest
    <3>3. Created[got] \in Nat
      BY <3>1, AppSinkAssumption
    <3>4. prev \in Nat /\ duration \in [{"got", "work"} -> Int]
      BY DEF ClockInv, Durations
    <3>5. ToInt(Created[got] - prev) \in Int
      BY <3>3, <3>4, ToIntSmall
    <3>6. /\ duration' \in [{"got", "work"} -> Int]
          /\ duration'.got = ToInt(Created[got] - prev) /\ duration'.work = duration.work
      BY <3>1, <3>4, <3>5
    <3>7. Durations'
      BY <2>1, <2>2, <2>3, <3>1, <3>2, <3>3, <3>6 DEF ClockInv, Durations
    <3>8. Turns'
      BY <2>1, <2>3, <3>1 DEF ClockInv, Turns
    <3> QED
      BY <2>2, <3>7, <3>8, LagKept DEF ClockInv
  <2> QED
    BY <1>1, <2>4, <2>5, <2>6
<1>2. CASE Channel
  <2>1. /\ UNCHANGED <<popped, out, prev, clock, stamped>> /\ (Unlinked' <=> Unlinked)
        /\ handler = "send" /\ writer = "recv" /\ handler' = "call" /\ got' = 0
        /\ writer' = "copy" /\ work' = got /\ got # 0
        /\ duration' = [got |-> 0, work |-> duration.got]
    BY <1>0, <1>2, ChannelMoves DEF queue, Unlinked, video
  <2>2. Ahead = Stamped /\ Newest = got /\ Stamped' = Stamped /\ Ahead' = got /\ Newest' = got
    BY <2>1, LagKept DEF Ahead, Newest
  <2>3. /\ duration' \in [{"got", "work"} -> Int] /\ duration'.work = duration.got
    BY <2>1 DEF ClockInv, Durations
  <2>4. Durations'
    BY <2>1, <2>2, <2>3 DEF ClockInv, Durations
  <2>5. Turns'
    BY <2>1, <2>2 DEF ClockInv, Turns
  <2> QED
    BY <2>1, <2>4, <2>5, LagKept DEF ClockInv
<1> QED
  BY <1>0, <1>1, <1>2, HandlerMoves

\* What a frame adds to the lag: less than a tick.
LEMMA LagOfOne ==
    ASSUME ClockInv, stamped # <<>>, Lag(Len(stamped)),
           \A k \in 2 .. Len(stamped) : Created[stamped[k].frame] - Created[stamped[k - 1].frame]
                                             < IntModulus \div 2,
           NEW f \in Frames, Stamped < f,
           NEW samples \in SamplesOf(ToInt(Created[f] - Created[Stamped])),
           Created[f] - Created[Stamped] < IntModulus \div 2
    PROVE  \E ticks \in Nat :
              /\ (clock + samples) % ClockModulus = (After(1) + ticks) % ClockModulus
              /\ Created[f] - Created[stamped[1].frame] - Tick * ticks
                     \in 0 .. Len(stamped) * (Tick - 1)
<1> DEFINE last == Len(stamped)
           d == Created[f] - Created[Stamped]
<1>1. /\ last \in Nat /\ last >= 1 /\ Stamped \in Frames
      /\ stamped[1].frame \in Frames /\ Stamped = stamped[last].frame
      /\ stamped[1] \in Stamps
  <2>1. /\ stamped = <<>> <=> Len(stamped) = 0 /\ Len(stamped) \in Nat
        /\ \A n \in 1 .. Len(stamped) : stamped[n] \in Stamps /\ stamped[n].frame \in Frames
    BY StampedFrame DEF ClockInv, Durations
  <2>2. last \in Nat /\ last >= 1 /\ 1 \in 1 .. last /\ last \in 1 .. last
    BY <2>1
  <2>3. Stamped = stamped[last].frame
    BY DEF Stamped
  <2> QED
    BY <2>1, <2>2, <2>3
<1>2. /\ Created[f] \in Nat /\ Created[Stamped] \in Nat /\ Created[stamped[1].frame] \in Nat
      /\ Created[Stamped] <= Created[f]
  BY <1>1, AppSinkAssumption
<1>3. d \in Nat /\ ToInt(d) = d
  <2>1. d \in Nat /\ d < IntModulus \div 2
    BY <1>2
  <2> HIDE DEF d
  <2> QED
    BY <2>1, ToIntSmall
<1>4. samples = d \div Tick
  BY <1>3 DEF SamplesOf
<1>5. Tick \in Nat \ {0} /\ ClockModulus \in Nat \ {0}
  BY AppSinkAssumption
<1> HIDE DEF d
<1>6. samples \in Nat /\ d - Tick * samples \in 0 .. Tick - 1
  <2>1. d \in Int /\ d % Tick \in 0 .. Tick - 1 /\ d \div Tick \in Int
        /\ d - Tick * (d \div Tick) = d % Tick
    <3>1. d \in Int /\ Tick \in Nat \ {0}
      BY <1>3, <1>5
    <3> QED
      BY <3>1, Division
  <2>2. d \div Tick >= 0
    <3> DEFINE q == d \div Tick
    <3> HIDE DEF q
    <3>1. q \in Int /\ d - Tick * q <= Tick - 1
      BY <1>5, <2>1 DEF q
    <3> SUFFICES ASSUME q <= -1 PROVE FALSE
      BY <3>1 DEF q
    <3>2. Tick * q <= Tick * (-1)
      BY <1>5, <3>1
    <3> QED
      BY <1>3, <1>5, <3>1, <3>2
  <2> QED
    BY <1>4, <2>1, <2>2
<1>7. PICK ticks \in Nat :
          /\ After(last) = (After(1) + ticks) % ClockModulus
          /\ Created[stamped[last].frame] - Created[stamped[1].frame] - Tick * ticks
                 \in 0 .. (last - 1) * (Tick - 1)
  BY DEF Lag
<1>8. clock = (After(1) + ticks) % ClockModulus
  BY <1>7 DEF After
<1>9. After(1) \in Int
  <2>1. clock \in Int
    BY <1>5 DEF ClockInv, Durations
  <2>2. 1 < last => stamped[2].clock \in Int
    <3>1. 1 < last => 2 \in 1 .. last
      BY <1>1
    <3>2. \A n \in 1 .. last : stamped[n] \in Stamps
      BY StampedFrame DEF ClockInv, Durations
    <3> QED
      BY <1>5, <3>1, <3>2 DEF Stamps
  <2> QED
    BY <2>1, <2>2 DEF After
<1>10. (clock + samples) % ClockModulus = (After(1) + (ticks + samples)) % ClockModulus
  <2>1. (((After(1) + ticks) % ClockModulus) + samples) % ClockModulus
        = ((After(1) + ticks) + samples) % ClockModulus
    <3>1. After(1) + ticks \in Int
      BY <1>9
    <3>2. ClockModulus \in Nat \ {0} /\ samples \in Int
      BY <1>5, <1>6
    <3> DEFINE e == After(1) + ticks
    <3> HIDE DEF e
    <3>3. ((e % ClockModulus) + samples) % ClockModulus = (e + samples) % ClockModulus
      BY <3>1, <3>2, ModSum DEF e
    <3> QED
      BY <3>3 DEF e
  <2>2. After(1) + ticks + samples = After(1) + (ticks + samples)
    BY <1>6, <1>9
  <2> QED
    BY <1>8, <2>1, <2>2
<1>11. Created[f] - Created[stamped[1].frame] - Tick * (ticks + samples) \in 0 .. last * (Tick - 1)
  <2> HIDE DEF last
  <2>1. Tick * (ticks + samples) = Tick * ticks + Tick * samples
    BY <1>5, <1>6
  <2>2. last * (Tick - 1) = (last - 1) * (Tick - 1) + (Tick - 1)
    BY <1>1, <1>5
  <2> DEFINE a == Tick * ticks
             b == Tick * samples
             m == (last - 1) * (Tick - 1)
  <2>3. a \in Int /\ b \in Int /\ m \in Int
    BY <1>1, <1>5, <1>6
  <2> DEFINE x == Created[stamped[1].frame]
             y == Created[Stamped]
             z == Created[f]
  <2>4. y - x - a \in 0 .. m /\ z - y - b \in 0 .. Tick - 1
    BY <1>1, <1>6, <1>7 DEF d
  <2>5. x \in Nat /\ y \in Nat /\ z \in Nat
    BY <1>2
  <2> HIDE DEF a, b, m, x, y, z
  <2>6. z - x - (a + b) \in 0 .. m + (Tick - 1)
    BY <1>5, <2>3, <2>4, <2>5
  <2> QED
    BY <2>1, <2>2, <2>6 DEF a, b, m, x, z
<1>12. ticks + samples \in Nat
  BY <1>6
<1> QED
  BY <1>10, <1>11, <1>12

LEMMA ClockWriter == LineInv /\ ClockInv /\ Writer => ClockInv'
<1> SUFFICES ASSUME LineInv, ClockInv, Writer PROVE ClockInv'
  OBVIOUS
<1>0. /\ Stamped \in 0 .. MaxFrames /\ Len(stamped) \in Nat
      /\ Stamped = 0 <=> stamped = <<>>
      /\ stamped = <<>> <=> Len(stamped) = 0
      /\ \A n \in 1 .. Len(stamped) : stamped[n] \in Stamps /\ stamped[n].frame \in Frames
      /\ stamped \in Seq(Stamps) /\ duration \in [{"got", "work"} -> Int]
      /\ clock \in 0 .. ClockModulus - 1
  BY StampedFrame DEF ClockInv, Durations
<1>1. Types /\ Holders /\ InLine
  BY DEF LineInv
<1>2. Frame("writer") /\ UNCHANGED <<popped, out, flags>> /\ (WriterCopies \/ WriterEmits \/ WriterRests)
  BY <1>1, WriterMoves
<1>3. UNCHANGED <<popped, out, handler, got>> /\ (Unlinked' <=> Unlinked)
  BY <1>2, KnownThreads DEF Frame, Only, handler, got, Unlinked, video
<1>4. CASE WriterEmits \/ WriterRests
  <2>1. UNCHANGED <<prev, duration, clock, stamped>> /\ writer # "copy" /\ writer' # "copy"
    BY <1>4 DEF WriterEmits, WriterRests, times, flow, DropPCs
  <2>2. Stamped' = Stamped /\ Ahead' = Ahead /\ Newest' = Newest
    BY <1>3, <2>1, LagKept DEF Ahead, Newest
  <2>3. Durations'
    BY <1>3, <2>1, <2>2 DEF ClockInv, Durations
  <2>4. Turns'
    BY <1>3, <2>1, <2>2 DEF ClockInv, Turns
  <2> QED
    BY <2>1, <2>3, <2>4, LagKept DEF ClockInv
<1>5. CASE WriterCopies
  <2>1. PICK samples \in SamplesOf(duration.work) : clock' = (clock + samples) % ClockModulus
    BY <1>5 DEF WriterCopies
  <2>2. /\ UNCHANGED <<work, prev, duration>> /\ writer = "copy" /\ writer' # "copy"
        /\ work \in Frames /\ got \in Nat /\ popped \in Nat
        /\ stamped' = Append(stamped, [frame |-> work, clock |-> clock])
    <3>1. "copy" \in Holding
      BY DEF Holding
    <3> QED
      BY <1>1, <1>5, <3>1, KnownThreads, AppSinkAssumption DEF WriterCopies, work, writer, got, Types, Holders, Frames
  <2>3. samples \in Int
    <3>1. duration.work \in Int /\ duration.work \div Tick \in Int
      BY <1>0, AppSinkAssumption
    <3> QED
      BY <2>1, <3>1, AppSinkAssumption DEF SamplesOf
  <2>4. clock' \in 0 .. ClockModulus - 1
    BY <1>0, <2>1, <2>3, AppSinkAssumption, Division
  <2>5. [frame |-> work, clock |-> clock] \in Stamps
    BY <1>0, <2>2 DEF Stamps
  <2>6. /\ stamped' \in Seq(Stamps) /\ Len(stamped') = Len(stamped) + 1
        /\ \A n \in 1 .. Len(stamped) : stamped'[n] = stamped[n]
        /\ stamped'[Len(stamped) + 1] = [frame |-> work, clock |-> clock]
    BY <1>0, <2>2, <2>5, AppendProperties
  <2>7. stamped' # <<>>
    BY <1>0, <2>6, EmptySeq
  <2>8. Stamped' = work /\ Ahead' = work /\ Ahead = work /\ Newest' = Newest
    BY <1>3, <2>2, <2>6, <2>7 DEF Stamped, Ahead, Newest
  <2>9. Durations'
    BY <1>3, <2>2, <2>4, <2>6, <2>8 DEF ClockInv, Durations
  <2>10. Turns'
    <3>1. work <= popped /\ (Unlinked => work < popped)
      BY <1>1, KnownThreads DEF InLine, work
    <3> QED
      BY <1>1, <1>3, <2>2, <2>8, <3>1 DEF Turns, InLine
  <2>11. \A n \in 1 .. Len(stamped) : After(n)' = After(n)
    <3> SUFFICES ASSUME NEW n \in 1 .. Len(stamped) PROVE After(n)' = After(n)
      OBVIOUS
    <3>1. n < Len(stamped') /\ n \in Nat
      BY <1>0, <2>6
    <3>2. CASE n < Len(stamped)
      <4>1. n + 1 \in 1 .. Len(stamped)
        BY <1>0, <3>1, <3>2
      <4> QED
        BY <2>6, <3>1, <3>2, <4>1 DEF After
    <3>3. CASE ~(n < Len(stamped))
      <4>1. n + 1 = Len(stamped) + 1
        BY <1>0, <3>1, <3>3
      <4> QED
        BY <2>6, <3>1, <3>3, <4>1 DEF After
    <3> QED
      BY <3>2, <3>3
  <2>12. \A n \in 1 .. Len(stamped) : Lag(n)'
    <3> SUFFICES ASSUME NEW n \in 1 .. Len(stamped) PROVE Lag(n)'
      OBVIOUS
    <3>1. \A k \in 1 .. n : stamped'[k] = stamped[k]
      BY <1>0, <2>6
    <3>2. stamped'[n] = stamped[n] /\ stamped'[1] = stamped[1]
      BY <1>0, <3>1
    <3>3. \A k \in 2 .. n : k \in 1 .. n /\ k - 1 \in 1 .. n
      BY <1>0
    <3>4. \A k \in 2 .. n : stamped'[k] = stamped[k] /\ stamped'[k - 1] = stamped[k - 1]
      BY <3>1, <3>3
    <3>5. After(n)' = After(n) /\ After(1)' = After(1)
      BY <1>0, <2>11
    <3>6. Lag(n)
      BY DEF ClockInv
    <3> QED
      BY <3>2, <3>4, <3>5, <3>6 DEF Lag
  <2>13. ASSUME NEW m \in Nat, m = Len(stamped) + 1 PROVE Lag(m)'
    <3>0. After(m)' = clock'
      BY <1>0, <2>6, <2>13 DEF After
    <3>1. CASE stamped = <<>>
      <4>1. m = 1 /\ stamped'[1].frame = work
        BY <1>0, <2>6, <2>13, <3>1
      <4>2. Created[work] \in Nat
        BY <2>2, AppSinkAssumption
      <4>3. (clock' + 0) % ClockModulus = clock'
        <5>1. \A c \in 0 .. ClockModulus - 1 : (c + 0) % ClockModulus = c
          <6> SUFFICES ASSUME NEW c \in 0 .. ClockModulus - 1
                       PROVE  (c + 0) % ClockModulus = c
            OBVIOUS
          <6>1. c + 0 = c
            BY AppSinkAssumption
          <6>2. c % ClockModulus = c
            BY AppSinkAssumption, SmallRemainder
          <6> QED
            BY <6>1, <6>2
        <5> QED
          BY <2>4, <5>1
      <4>4. Created[work] - Created[work] - Tick * 0 \in 0 .. (1 - 1) * (Tick - 1)
        BY <4>2, AppSinkAssumption
      <4> QED
        BY <3>0, <4>1, <4>3, <4>4 DEF Lag
    <3>2. CASE stamped # <<>>
      <4> SUFFICES ASSUME \A k \in 2 .. m : Created[stamped'[k].frame] - Created[stamped'[k - 1].frame]
                                                < IntModulus \div 2
                   PROVE  \E ticks \in Nat :
                             /\ After(m)' = (After(1)' + ticks) % ClockModulus
                             /\ Created[stamped'[m].frame] - Created[stamped'[1].frame] - Tick * ticks
                                    \in 0 .. (m - 1) * (Tick - 1)
        BY <2>13, <3>2 DEF Lag
      <4>1. Len(stamped) >= 1 /\ m - 1 = Len(stamped) /\ m >= 2 /\ m \in 2 .. m /\ 1 \in 1 .. Len(stamped)
        BY <1>0, <2>13, <3>2
      <4>2. /\ stamped'[1] = stamped[1] /\ stamped'[m].frame = work /\ After(1)' = After(1)
            /\ stamped'[m - 1] = stamped[Len(stamped)] /\ stamped[Len(stamped)].frame = Stamped
        BY <1>0, <2>6, <2>11, <2>13, <3>2, <4>1 DEF Stamped
      <4>3. Created[work] - Created[Stamped] < IntModulus \div 2
        BY <4>1, <4>2
      <4>4. \A k \in 2 .. Len(stamped) :
                k \in 2 .. m /\ k \in 1 .. Len(stamped) /\ k - 1 \in 1 .. Len(stamped)
        BY <1>0, <2>13
      <4>5. \A k \in 2 .. Len(stamped) :
                Created[stamped[k].frame] - Created[stamped[k - 1].frame] < IntModulus \div 2
        BY <2>6, <4>4
      <4>6. Lag(Len(stamped))
        BY <1>0, <4>1 DEF ClockInv
      <4>7. Stamped < work /\ duration.work = ToInt(Created[work] - Created[Stamped])
        BY <1>0, <2>2, <3>2 DEF ClockInv, Durations, Turns
      <4>8. \E ticks \in Nat :
              /\ (clock + samples) % ClockModulus = (After(1) + ticks) % ClockModulus
              /\ Created[work] - Created[stamped[1].frame] - Tick * ticks
                     \in 0 .. Len(stamped) * (Tick - 1)
        BY <2>1, <2>2, <3>2, <4>3, <4>5, <4>6, <4>7, LagOfOne
      <4> QED
        BY <2>1, <3>0, <4>1, <4>2, <4>8
    <3> QED
      BY <3>1, <3>2
  <2>14. \A n \in 1 .. Len(stamped') : Lag(n)'
    <3>1. \A n \in 1 .. Len(stamped') :
              n \in Nat /\ (n \in 1 .. Len(stamped) \/ n = Len(stamped) + 1)
      BY <1>0, <2>6
    <3> QED
      BY <2>12, <2>13, <3>1
  <2> QED
    BY <2>9, <2>10, <2>14 DEF ClockInv
<1> QED
  BY <1>2, <1>4, <1>5

LEMMA ClockStep == LineInv /\ ClockInv /\ [Next]_avars => ClockInv'
<1> SUFFICES ASSUME LineInv, ClockInv, [Next]_avars PROVE ClockInv'
  OBVIOUS
<1>1. CASE UNCHANGED <<pc, cur, reg, popped, queue, counts, flow, shutdown, freed, sinkNil>>
  <2>1. UNCHANGED <<popped, out, handler, got, writer, work, prev, duration, clock, stamped>> /\ (Unlinked' <=> Unlinked)
    BY <1>1 DEF queue, flow, times, got, work, writer, handler, Unlinked, video
  <2>2. Stamped' = Stamped /\ Ahead' = Ahead /\ Newest' = Newest
    BY <2>1, LagKept DEF Ahead, Newest
  <2>3. Durations'
    BY <2>1, <2>2 DEF ClockInv, Durations
  <2>4. Turns'
    BY <2>1, <2>2 DEF ClockInv, Turns
  <2> QED
    BY <2>1, <2>3, <2>4, LagKept DEF ClockInv
<1> QED
  BY <1>1, StepKinds, ClockVideo, ClockHandler, ClockWriter, ClockClose

LEMMA ClockHolds == Spec => []ClockInv
  BY LineHolds, ClockInit, ClockStep, PTL DEF Spec

\* From the second frame on the times the packets carry follow the times the
\* frames were made at, one frame late: they never run ahead of the frame before
\* and fall behind it by less than a tick a frame, however often the clock wraps,
\* as long as no two frames are further apart than an int can tell: for any width
\* of the int and the clock, and any length of a tick (app_sink.cpp:130-132,
\* appsink.go:88, h264_parser.go:332 and :338).
THEOREM ClockFollows == Spec => []ClockLag
<1>1. ClockInv => ClockLag
  <2> SUFFICES ASSUME ClockInv, NEW n \in 3 .. Len(stamped),
                      \A k \in 2 .. n - 1 : Created[stamped[k].frame] - Created[stamped[k - 1].frame]
                                                 < IntModulus \div 2
               PROVE  LET elapsed == Created[stamped[n - 1].frame] - Created[stamped[1].frame]
                      IN  \E ticks \in 0 .. elapsed :
                             /\ stamped[n].clock = (stamped[2].clock + ticks) % ClockModulus
                             /\ elapsed - Tick * ticks \in 0 .. (n - 2) * (Tick - 1)
    BY DEF ClockLag
  <2>0. Len(stamped) \in Nat
    BY StampedFrame DEF ClockInv, Durations
  <2>a. PICK m \in 2 .. Len(stamped) - 1 : m = n - 1
    BY <2>0
  <2>b. /\ m \in 1 .. Len(stamped) /\ 1 \in 1 .. Len(stamped) /\ m + 1 = n /\ m - 1 = n - 2
        /\ m < Len(stamped) /\ 1 < Len(stamped) /\ 1 + 1 = 2
    BY <2>0, <2>a
  <2> DEFINE elapsed == Created[stamped[m].frame] - Created[stamped[1].frame]
  <2>2. stamped[m].frame \in Frames /\ stamped[1].frame \in Frames
    BY <2>b, StampedFrame DEF ClockInv, Durations
  <2>3. elapsed \in Int
    BY <2>2, AppSinkAssumption
  <2>c. After(m) = stamped[n].clock /\ After(1) = stamped[2].clock
    BY <2>b DEF After
  <2>d. Lag(m)
    BY <2>b DEF ClockInv
  <2>4. PICK ticks \in Nat :
           /\ stamped[n].clock = (stamped[2].clock + ticks) % ClockModulus
           /\ elapsed - Tick * ticks \in 0 .. (m - 1) * (Tick - 1)
    BY <2>a, <2>c, <2>d DEF Lag
  <2>5. ticks <= Tick * ticks /\ Tick * ticks \in Int
    <3>1. ticks * 1 <= ticks * Tick
      BY AppSinkAssumption
    <3> QED
      BY <3>1, AppSinkAssumption
  <2>6. Tick * ticks <= elapsed
    <3> HIDE DEF elapsed
    <3>1. elapsed - Tick * ticks >= 0
      BY <2>4
    <3> QED
      BY <2>3, <2>5, <3>1
  <2>7. ticks \in 0 .. elapsed
    <3> HIDE DEF elapsed
    <3> QED
      BY <2>3, <2>5, <2>6
  <2> QED
    BY <2>4, <2>7, <2>a, <2>b
<1> QED
  BY <1>1, ClockHolds, PTL
=============================================================================
