--------------------------- MODULE AdaptiveProofs ---------------------------
(***************************************************************************)
(* What is proved of Adaptive, for a window of every length and any number *)
(* of reports: what the window holds, what a new record takes over, and    *)
(* what an evaluation weighs while the window moves under it.              *)
(***************************************************************************)
EXTENDS Adaptive, TLAPS

-----------------------------------------------------------------------------
(* The inductive invariant.                                                *)

Gathering == {"peekSink", "popSink", "peekCapture", "popCapture", "fill"}

Types ==
    /\ listen \in {"test", "shift", "head", "count", "done"} \cup Gathering
    /\ process \in {"test", "time", "sink", "capture", "done"}
    /\ rec \in [Kinds -> Nat] /\ taken \in [Kinds -> Nat]
    /\ has \in [Kinds -> BOOLEAN] /\ stray \in BOOLEAN
    /\ records \in [Slots -> Nat] /\ pushed \in Seq([Kinds -> Nat])
    /\ i \in 2 .. RecordSize /\ (listen # "shift" => i = 2)
    /\ j \in Nat \ {0} /\ (process \in {"sink", "capture"} => j \in Slots)
    /\ prev \in Nat /\ began \in Nat
    /\ seen \in [Fields -> Nat] /\ weighed \in [Fields -> Nat]

\* Inside push_record the newest record spreads from the front; no place is
\* ever more than one record behind it.
Window ==
    /\ WindowHoldsTwo
    /\ listen \in {"shift", "head"} => Len(pushed) = records[1] + 1
    /\ listen = "shift" => \A s \in 2 .. i - 1 : records[s] = records[1]
    /\ listen = "head" => \A s \in Slots : records[s] = records[1]
    /\ \A s \in Slots : records[s] <= records[1] /\ records[1] <= records[s] + 1

\* value is the cycle that was reported last, or stood in by chance
Last(kind, value) == (kind = "sink" /\ stray) \/ value = taken[kind]

\* Where the cycle of the last report is, before and after the record has it.
Cycles == \A kind \in Kinds :
    /\ listen \in {"test", "count"} => Last(kind, Newest(kind))
    /\ listen \in {"shift", "head"} => Last(kind, pushed[Len(pushed)][kind])
    /\ listen \in Gathering /\ has[kind] => Last(kind, rec[kind])
    /\ listen \in Gathering /\ ~has[kind] => Last(kind, Newest(kind))

\* An evaluation began at a record the front has not fallen behind.
Evaluation ==
    /\ EvaluationFresh
    /\ began <= records[1]
    /\ process = "test" => weighed = Zero
    /\ process \in {"sink", "capture"} => /\ seen["time"] > prev /\ seen["time"] >= began - 1
                                          /\ records[j] >= seen["time"] - 1
    /\ process = "capture" => seen["sink"] >= began - 1 /\ seen["sink"] >= seen["time"] - 1

AdaptiveInv == Types /\ Window /\ Cycles /\ Evaluation

-----------------------------------------------------------------------------
LEMMA InitInv == Init => AdaptiveInv
<1> SUFFICES ASSUME Init PROVE AdaptiveInv
  OBVIOUS
<1> USE AdaptiveAssumption DEF Init, Slots
<1>1. Types
  <2>1. has \in [Kinds -> BOOLEAN] /\ stray \in BOOLEAN
    BY Zenon DEF NoReports
  <2>2. /\ listen = "test" /\ process = "test" /\ i \in 2 .. RecordSize
        /\ rec \in [Kinds -> Nat] /\ taken \in [Kinds -> Nat]
        /\ records \in [Slots -> Nat]
        /\ seen \in [Fields -> Nat] /\ weighed \in [Fields -> Nat]
    BY DEF NoCycles, Zero
  <2>3. pushed \in Seq([Kinds -> Nat])
    OBVIOUS
  <2> QED
    BY <2>1, <2>2, <2>3 DEF Types, Gathering
<1>2. Window
  BY DEF Window, WindowHoldsTwo
<1>3. Cycles
  BY DEF Cycles, Last, Newest, NoCycles, Gathering
<1>4. Evaluation
  BY DEF Evaluation, EvaluationFresh
<1> QED
  BY <1>1, <1>2, <1>3, <1>4 DEF AdaptiveInv

-----------------------------------------------------------------------------
(* The steps of the listening thread.                                      *)

\* What a record takes from the newest one is a cycle.
LEMMA NewestTypes == Types /\ Window => \A kind \in Kinds : Newest(kind) \in Nat
<1> SUFFICES ASSUME Types, Window, NEW kind \in Kinds PROVE Newest(kind) \in Nat
  OBVIOUS
<1>1. records[1] \in Nat /\ Len(pushed) \in Nat
  BY AdaptiveAssumption DEF Types, Slots
<1>2. records[1] <= Len(pushed)
  BY <1>1 DEF Window, WindowHoldsTwo, Fields
<1>3. CASE records[1] = 0
  BY <1>3 DEF Newest
<1>4. CASE records[1] # 0
  <2>1. records[1] \in 1 .. Len(pushed)
    BY <1>1, <1>2, <1>4
  <2>2. pushed[records[1]] \in [Kinds -> Nat]
    BY <2>1 DEF Types
  <2> QED
    BY <1>4, <2>2 DEF Newest
<1> QED
  BY <1>3, <1>4

LEMMA Appended ==
    ASSUME NEW S, NEW s \in Seq(S), NEW e \in S
    PROVE  /\ Append(s, e) \in Seq(S)
           /\ Len(Append(s, e)) = Len(s) + 1
           /\ Append(s, e)[Len(s) + 1] = e
  OBVIOUS

\* The record that is stamped, and what of the newest one is in it.
Made == [kind \in Kinds |-> IF has[kind] THEN rec[kind] ELSE Newest(kind)]

LEMMA FillPushes ==
    ASSUME Types, Window, Fill
    PROVE  /\ pushed' \in Seq([Kinds -> Nat])
           /\ has["sink"] \/ has["capture"] =>
                  Len(pushed') = Len(pushed) + 1 /\ pushed'[Len(pushed')] = Made
           /\ ~(has["sink"] \/ has["capture"]) => pushed' = pushed
<1>1. Made \in [Kinds -> Nat]
  BY NewestTypes DEF Made, Types
<1>2. /\ has["sink"] \/ has["capture"] => pushed' = Append(pushed, Made)
      /\ ~(has["sink"] \/ has["capture"]) => pushed' = pushed
  BY DEF Fill, Made
<1>3. pushed \in Seq([Kinds -> Nat])
  BY DEF Types
<1>4. /\ Append(pushed, Made) \in Seq([Kinds -> Nat])
      /\ Len(Append(pushed, Made)) = Len(pushed) + 1
      /\ Append(pushed, Made)[Len(pushed) + 1] = Made
  BY <1>1, <1>3, Appended
<1>5. CASE has["sink"] \/ has["capture"]
  <2>1. pushed' = Append(pushed, Made)
    BY <1>2, <1>5
  <2> QED
    BY <1>4, <1>5, <2>1
<1>6. CASE ~(has["sink"] \/ has["capture"])
  <2>1. pushed' = pushed
    BY <1>2, <1>6
  <2> QED
    BY <1>3, <1>6, <2>1
<1> QED
  BY <1>5, <1>6

\* What is read of an element is what it was, or the record it becomes.
LEMMA ReadsNear ==
    ASSUME Types, Window, NEW s \in Slots, NEW r \in MayRead(s)
    PROVE  r \in Nat /\ records[s] <= r /\ r <= records[s] + 1
<1> USE AdaptiveAssumption
<1>1. /\ 1 \in Slots /\ i - 1 \in Slots /\ (i - 1 = 1 \/ i - 1 \in 2 .. i - 1)
      /\ records[s] \in Nat /\ records[1] \in Nat
  BY DEF Types, Slots
<1>2. records[s] <= records[1] /\ records[1] <= records[s] + 1
  BY DEF Window
<1>3. CASE r = records[s]
  BY <1>1, <1>3
<1>4. CASE listen = "shift" /\ r = records[i - 1]
  <2>1. records[i - 1] = records[1]
    BY <1>1, <1>4 DEF Window
  <2> QED
    BY <1>1, <1>2, <1>4, <2>1
<1>5. CASE listen = "head" /\ s = 1 /\ r = Len(pushed)
  <2>1. Len(pushed) = records[1] + 1
    BY <1>5 DEF Window
  <2> QED
    BY <1>1, <1>5, <2>1
<1> QED
  BY <1>3, <1>4, <1>5 DEF MayRead

LEMMA TypesStep == Types /\ Window /\ [Next]_adaptiveVars => Types'
<1> SUFFICES ASSUME Types, Window, [Next]_adaptiveVars PROVE Types'
  OBVIOUS
<1> USE AdaptiveAssumption DEF Types, LGoto, PGoto, others, listenVars, processVars, Gathering
<1>1. CASE ListenTest
  <2>1. has' \in [Kinds -> BOOLEAN] /\ stray' \in BOOLEAN
    BY <1>1 DEF ListenTest
  <2> QED
    BY <1>1, <2>1 DEF ListenTest, NoCycles
<1>2. ASSUME NEW kind, NEW from, NEW pop, NEW next, Peek(kind, from, pop, next), from # "shift",
             pop \in Gathering, next \in Gathering
      PROVE  Types'
  <2>1. listen' \in Gathering /\ listen # "shift"
    BY <1>2 DEF Peek
  <2> QED
    BY <1>2, <2>1 DEF Peek
<1>3. ASSUME NEW kind \in Kinds, NEW from, NEW to, Pop(kind, from, to), from # "shift", to \in Gathering
      PROVE  Types'
  <2>1. rec' \in [Kinds -> Nat] /\ taken' \in [Kinds -> Nat]
    BY <1>3 DEF Pop
  <2>2. has' \in [Kinds -> BOOLEAN]
    BY <1>3 DEF Pop
  <2>3. listen # "shift" /\ listen' \in Gathering
    BY <1>3 DEF Pop
  <2> QED
    BY <1>3, <2>1, <2>2, <2>3 DEF Pop
<1>4. CASE TakeSink \/ TakeCapture
  BY <1>2, <1>3, <1>4 DEF TakeSink, TakeCapture, Popping, Kinds
<1>5. CASE Fill
  <2>1. pushed' \in Seq([Kinds -> Nat])
    BY <1>5, FillPushes
  <2>2. has' \in [Kinds -> BOOLEAN] /\ rec' \in [Kinds -> Nat]
    BY <1>5 DEF Fill, NoReports, NoCycles
  <2>3. listen' \in {"shift", "test"} /\ i' = 2
    BY <1>5 DEF Fill
  <2> QED
    BY <1>5, <2>1, <2>2, <2>3 DEF Fill
<1>6. CASE Shift
  BY <1>6 DEF Shift, Slots
<1>7. CASE StoreHead
  <2>1. Len(pushed) \in Nat
    BY DEF Types
  <2>2. records' \in [Slots -> Nat]
    BY <1>7, <2>1 DEF StoreHead
  <2> QED
    BY <1>7, <2>2 DEF StoreHead
<1>8. CASE CountRecord
  BY <1>8 DEF CountRecord
<1>9. CASE ProcessTest
  BY <1>9 DEF ProcessTest, Slots
<1>10. CASE ReadTime
  <2>1. j \in Slots
    BY <1>10 DEF ReadTime, Slots
  <2>2. PICK time \in MayRead(j) :
            IF time > prev
            THEN process' = "sink" /\ seen' = [seen EXCEPT !.time = time] /\ j' = j
            ELSE j' = j + 1 /\ UNCHANGED <<process, seen>>
    BY <1>10 DEF ReadTime
  <2>3. time \in Nat
    BY <2>1, ReadsNear
  <2>4. process = "time" /\ UNCHANGED <<prev, weighed, began, listenVars>>
    BY <1>10 DEF ReadTime
  <2>5. /\ process' \in {"time", "sink"} /\ seen' \in [Fields -> Nat] /\ j' \in Nat \ {0}
        /\ (process' = "sink" => j' \in Slots)
    <3>1. CASE time > prev
      <4>1. process' = "sink" /\ seen' = [seen EXCEPT !.time = time] /\ j' = j
        BY <2>2, <3>1
      <4>2. seen' \in [Fields -> Nat]
        BY <4>1, <2>3
      <4> QED
        BY <4>1, <4>2, <2>1
    <3>2. CASE ~(time > prev)
      <4>1. j' = j + 1 /\ process' = "time" /\ seen' = seen
        BY <2>2, <2>4, <3>2
      <4> QED
        BY <4>1
    <3> QED
      BY <3>1, <3>2
  <2> QED
    BY <2>4, <2>5
<1>11. CASE ReadSinkCycle
  <2>1. PICK sink \in MayRead(j) : seen' = [seen EXCEPT !.sink = sink]
    BY <1>11 DEF ReadSinkCycle
  <2>2. sink \in Nat
    BY <1>11, <2>1, ReadsNear DEF ReadSinkCycle
  <2> QED
    BY <1>11, <2>1, <2>2 DEF ReadSinkCycle
<1>12. CASE ReadCaptureCycle
  <2>1. PICK capture \in MayRead(j) : weighed' = [seen EXCEPT !.capture = capture]
    BY <1>12 DEF ReadCaptureCycle
  <2>2. capture \in Nat
    BY <1>12, <2>1, ReadsNear DEF ReadCaptureCycle
  <2>3. weighed' \in [Fields -> Nat] /\ seen' \in [Fields -> Nat]
    BY <1>12, <2>1, <2>2 DEF ReadCaptureCycle, Zero
  <2>4. process' = "time" /\ j' \in Nat \ {0} /\ UNCHANGED <<prev, began, listenVars>>
    BY <1>12 DEF ReadCaptureCycle
  <2> QED
    BY <2>3, <2>4
<1>13. CASE EndEvaluation
  BY <1>13 DEF EndEvaluation, Slots, Zero
<1>14. CASE ControlReturns \/ UseGoneContext \/ Stop \/ \E kind \in Kinds : Report(kind)
  BY <1>14 DEF ControlReturns, UseGoneContext, Stop, Report
<1>15. CASE UNCHANGED adaptiveVars
  BY <1>15 DEF adaptiveVars
<1> QED
  BY <1>1, <1>4, <1>5, <1>6, <1>7, <1>8, <1>9, <1>10, <1>11, <1>12, <1>13, <1>14, <1>15
     DEF Next, Listen, Process

\* The window through every step: only Shift, StoreHead and the steps that start
\* and end a push matter.
LEMMA WindowStep == Types /\ Window /\ [Next]_adaptiveVars => Window'
<1> SUFFICES ASSUME Types, Window, [Next]_adaptiveVars PROVE Window'
  OBVIOUS
<1> USE AdaptiveAssumption
<1>a. /\ 1 \in Slots /\ 2 \in Slots /\ records \in [Slots -> Nat]
      /\ \A s \in Slots : records[s] \in Nat
      /\ i \in 2 .. RecordSize /\ Len(pushed) \in Nat
  BY DEF Types, Slots
<1>1. ASSUME UNCHANGED <<records, pushed, i>>,
             listen' = listen \/ {listen, listen'} \cap {"shift", "head"} = {}
      PROVE  Window'
  BY <1>1 DEF Window, WindowHoldsTwo
<1>2. CASE ListenTest \/ CountRecord \/ TakeSink \/ TakeCapture
  BY <1>1, <1>2 DEF ListenTest, CountRecord, TakeSink, TakeCapture, Peek, Pop, Popping, LGoto
<1>3. CASE Fill
  <2>1. CASE has["sink"] \/ has["capture"]
    <3>1. listen = "fill" /\ listen' = "shift" /\ i = 2 /\ i' = 2 /\ records' = records
      BY <1>3, <2>1 DEF Fill, LGoto, Types
    <3>2. Len(pushed') = Len(pushed) + 1
      BY <1>3, <2>1, FillPushes
    <3>3. records[1] = Len(pushed)
      BY <3>1 DEF Window, WindowHoldsTwo, Fields
    <3>4. \A s \in 2 .. i' - 1 : records'[s] = records'[1]
      BY <3>1
    <3> QED
      BY <3>1, <3>2, <3>3, <3>4 DEF Window, WindowHoldsTwo
  <2>2. CASE ~(has["sink"] \/ has["capture"])
    <3>1. UNCHANGED <<records, pushed, i>> /\ listen = "fill" /\ listen' = "test"
      BY <1>3, <2>2 DEF Fill, LGoto
    <3> QED
      BY <1>1, <3>1
  <2> QED
    BY <2>1, <2>2
<1>4. CASE Shift
  <2>1. /\ listen = "shift" /\ pushed' = pushed
        /\ \A s \in 2 .. i - 1 : records[s] = records[1]
        /\ i \in Slots /\ i - 1 \in Slots
        /\ records' = [records EXCEPT ![i] = records[i - 1]]
        /\ Len(pushed) = records[1] + 1
    BY <1>4, <1>a DEF Shift, LGoto, Window, Slots
  <2>2. records[i - 1] = records[1]
    BY <2>1, <1>a DEF Slots
  <2>3. \A s \in Slots : records'[s] = IF s = i THEN records[1] ELSE records[s]
    BY <2>1, <2>2, <1>a
  <2>4. records'[1] = records[1]
    BY <2>3, <1>a
  <2>5. \A s \in Slots : records'[s] <= records'[1] /\ records'[1] <= records'[s] + 1
    BY <2>3, <2>4, <1>a DEF Window
  <2>6. \A s \in 2 .. i : records'[s] = records'[1]
    BY <2>1, <2>3, <2>4, <1>a DEF Slots
  <2>7. CASE i = RecordSize
    <3>1. listen' = "head"
      BY <1>4, <2>7 DEF Shift, LGoto
    <3>2. \A s \in Slots : records'[s] = records'[1]
      BY <2>6, <2>7 DEF Slots
    <3> QED
      BY <2>1, <2>4, <2>5, <3>1, <3>2 DEF Window, WindowHoldsTwo
  <2>8. CASE i # RecordSize
    <3>1. listen' = "shift" /\ i' = i + 1
      BY <1>4, <2>8 DEF Shift, LGoto
    <3>2. \A s \in 2 .. i' - 1 : records'[s] = records'[1]
      BY <2>6, <3>1, <1>a
    <3> QED
      BY <2>1, <2>4, <2>5, <3>1, <3>2 DEF Window, WindowHoldsTwo
  <2> QED
    BY <2>7, <2>8
<1>5. CASE StoreHead
  <2>1. /\ listen = "head" /\ listen' = "count" /\ pushed' = pushed
        /\ records' = [records EXCEPT ![1] = Len(pushed)]
    BY <1>5 DEF StoreHead, LGoto
  <2>2. /\ \A s \in Slots : records[s] = records[1]
        /\ Len(pushed) = records[1] + 1
    BY <2>1 DEF Window
  <2>3. /\ records'[1] = Len(pushed)
        /\ \A s \in Slots \ {1} : records'[s] = records[1]
    BY <2>1, <2>2, <1>a
  <2>4. WindowHoldsTwo'
    BY <2>1, <2>2, <2>3, <1>a DEF WindowHoldsTwo
  <2>5. \A s \in Slots : records'[s] <= records'[1] /\ records'[1] <= records'[s] + 1
    BY <2>2, <2>3, <1>a
  <2> QED
    BY <2>1, <2>4, <2>5 DEF Window
<1>6. CASE Process
  BY <1>1, <1>6 DEF Process, ProcessTest, ReadTime, ReadSinkCycle, ReadCaptureCycle, EndEvaluation,
              listenVars
<1>7. CASE ControlReturns \/ UseGoneContext \/ Stop \/ \E kind \in Kinds : Report(kind)
  BY <1>1, <1>7 DEF ControlReturns, UseGoneContext, Stop, Report, listenVars
<1>8. CASE UNCHANGED adaptiveVars
  BY <1>1, <1>8 DEF adaptiveVars, listenVars
<1> QED
  BY <1>2, <1>3, <1>4, <1>5, <1>6, <1>7, <1>8 DEF Next, Listen

\* The cycles: a report popped goes to the record, and the record to the front.
LEMMA CyclesStep == Types /\ Window /\ Cycles /\ [Next]_adaptiveVars => Cycles'
<1> SUFFICES ASSUME Types, Window, Cycles, [Next]_adaptiveVars PROVE Cycles'
  OBVIOUS
<1> USE AdaptiveAssumption
<1>a. /\ 1 \in Slots /\ records \in [Slots -> Nat] /\ Len(pushed) \in Nat
      /\ rec \in [Kinds -> Nat] /\ taken \in [Kinds -> Nat] /\ has \in [Kinds -> BOOLEAN]
  BY DEF Types, Slots
<1>1. ASSUME UNCHANGED <<listen, rec, has, records, pushed, taken, stray>> PROVE Cycles'
  BY <1>1 DEF Cycles, Last, Newest
<1>2. CASE ListenTest
  <2>1. listen = "test" /\ listen' \in {"peekSink", "done"}
        /\ records' = records /\ taken' = taken /\ pushed' = pushed
    BY <1>2 DEF ListenTest, LGoto
  <2>2. PICK chance \in BOOLEAN : /\ has' = [kind \in Kinds |-> kind = "sink" /\ chance]
                                 /\ stray' = (stray \/ chance)
    BY <1>2 DEF ListenTest
  <2>3. \A kind \in Kinds : has'[kind] => kind = "sink" /\ stray'
    BY <2>2, Zenon
  <2>4. stray => stray'
    BY <2>2, Zenon
  <2>5. \A kind \in Kinds : Last(kind, Newest(kind))
    BY <2>1 DEF Cycles
  <2>6. \A kind \in Kinds : Last(kind, Newest(kind))'
    BY <2>1, <2>4, <2>5 DEF Last, Newest
  <2>7. \A kind \in Kinds : has'[kind] => Last(kind, rec[kind])'
    BY <2>3 DEF Last
  <2> QED
    BY <2>1, <2>6, <2>7 DEF Cycles, Gathering
<1>3. ASSUME NEW kind, NEW from \in Gathering, NEW pop \in Gathering, NEW next \in Gathering,
             Peek(kind, from, pop, next)
      PROVE  Cycles'
  <2>1. /\ listen \in Gathering /\ listen' \in Gathering
        /\ UNCHANGED <<rec, has, records, pushed, taken, stray>>
    BY <1>3 DEF Peek, LGoto
  <2> QED
    BY <2>1 DEF Cycles, Last, Newest, Gathering
<1>4. ASSUME NEW kind \in Kinds, NEW from \in Gathering, NEW to \in Gathering, Pop(kind, from, to)
      PROVE  Cycles'
  <2>1. /\ listen \in Gathering /\ listen' \in Gathering
        /\ taken' = [taken EXCEPT ![kind] = @ + 1]
        /\ rec' = [rec EXCEPT ![kind] = taken[kind] + 1]
        /\ has' = [has EXCEPT ![kind] = TRUE]
        /\ UNCHANGED <<records, pushed, stray>>
    BY <1>4 DEF Pop, LGoto
  <2>2. rec'[kind] = taken'[kind] /\ has'[kind]
    BY <2>1, <1>a
  <2>3. \A k \in Kinds \ {kind} :
            /\ rec'[k] = rec[k] /\ taken'[k] = taken[k] /\ (has'[k] <=> has[k])
    BY <2>1, <1>a
  <2>4. \A k \in Kinds : Newest(k)' = Newest(k)
    BY <2>1 DEF Newest
  <2>5. \A k \in Kinds : has'[k] => Last(k, rec[k])'
    BY <2>1, <2>2, <2>3 DEF Cycles, Last
  <2>6. \A k \in Kinds : ~has'[k] => Last(k, Newest(k))'
    BY <2>1, <2>2, <2>3, <2>4 DEF Cycles, Last
  <2> QED
    BY <2>1, <2>5, <2>6 DEF Cycles, Gathering
<1>5. CASE TakeSink \/ TakeCapture
  BY <1>3, <1>4, <1>5 DEF TakeSink, TakeCapture, Popping, Kinds, Gathering
<1>6. CASE Fill
  <2>0. listen = "fill" /\ UNCHANGED <<records, taken, stray>>
    BY <1>6 DEF Fill, LGoto
  <2>1. CASE has["sink"] \/ has["capture"]
    <3>1. listen' = "shift" /\ pushed'[Len(pushed')] = Made
      BY <1>6, <2>1, FillPushes DEF Fill, LGoto
    <3>2. \A kind \in Kinds : Last(kind, Made[kind])
      BY <2>0 DEF Made, Cycles, Gathering
    <3>3. \A kind \in Kinds : Last(kind, pushed[Len(pushed)][kind])'
      BY <2>0, <3>1, <3>2 DEF Last
    <3> QED
      BY <3>1, <3>3 DEF Cycles, Gathering
  <2>2. CASE ~(has["sink"] \/ has["capture"])
    <3>1. listen' = "test" /\ pushed' = pushed
      BY <1>6, <2>2 DEF Fill, LGoto
    <3>2. \A kind \in Kinds : Last(kind, Newest(kind))
      BY <2>0, <2>2 DEF Cycles, Gathering, Kinds
    <3>3. \A kind \in Kinds : Last(kind, Newest(kind))'
      BY <2>0, <3>1, <3>2 DEF Last, Newest
    <3> QED
      BY <3>1, <3>3 DEF Cycles, Gathering
  <2> QED
    BY <2>1, <2>2
<1>7. CASE Shift
  <2>1. listen = "shift" /\ listen' \in {"shift", "head"} /\ UNCHANGED <<pushed, taken, stray>>
    BY <1>7 DEF Shift, LGoto
  <2> QED
    BY <2>1 DEF Cycles, Last, Gathering
<1>8. CASE StoreHead
  <2>1. /\ listen = "head" /\ listen' = "count" /\ UNCHANGED <<pushed, taken, stray>>
        /\ records' = [records EXCEPT ![1] = Len(pushed)]
    BY <1>8 DEF StoreHead, LGoto
  <2>2. records'[1] = Len(pushed) /\ Len(pushed) # 0
    BY <2>1, <1>a DEF Window
  <2>3. \A kind \in Kinds : Newest(kind)' = pushed[Len(pushed)][kind]
    BY <2>1, <2>2 DEF Newest
  <2>4. \A kind \in Kinds : Last(kind, Newest(kind))'
    BY <2>1, <2>3 DEF Cycles, Last
  <2> QED
    BY <2>1, <2>4 DEF Cycles, Gathering
<1>9. CASE CountRecord
  <2>1. listen = "count" /\ listen' = "test" /\ UNCHANGED <<records, pushed, taken, stray>>
    BY <1>9 DEF CountRecord, LGoto
  <2> QED
    BY <2>1 DEF Cycles, Last, Newest, Gathering
<1>10. CASE Process
  BY <1>1, <1>10 DEF Process, ProcessTest, ReadTime, ReadSinkCycle, ReadCaptureCycle, EndEvaluation,
              listenVars
<1>11. CASE ControlReturns \/ UseGoneContext \/ Stop \/ \E kind \in Kinds : Report(kind)
  BY <1>1, <1>11 DEF ControlReturns, UseGoneContext, Stop, Report, listenVars
<1>12. CASE UNCHANGED adaptiveVars
  BY <1>1, <1>12 DEF adaptiveVars, listenVars
<1> QED
  BY <1>2, <1>5, <1>6, <1>7, <1>8, <1>9, <1>10, <1>11, <1>12 DEF Next, Listen

\* No place of the window goes back, and the front least of all.
LEMMA SlotsRise ==
    ASSUME Types, Window, [Next]_adaptiveVars, NEW s \in Slots
    PROVE  records'[s] >= records[s]
<1> USE AdaptiveAssumption
<1>a. /\ 1 \in Slots /\ records \in [Slots -> Nat]
      /\ \A q \in Slots : records[q] \in Nat
      /\ i \in 2 .. RecordSize /\ i - 1 \in Slots
  BY DEF Types, Slots
<1>1. CASE Shift
  <2>1. /\ records' = [records EXCEPT ![i] = records[i - 1]]
        /\ i - 1 = 1 \/ i - 1 \in 2 .. i - 1
    BY <1>1, <1>a DEF Shift
  <2>2. records[i - 1] = records[1]
    BY <1>1, <2>1 DEF Shift, LGoto, Window
  <2>3. records[s] <= records[1]
    BY DEF Window
  <2> QED
    BY <2>1, <2>2, <2>3, <1>a
<1>2. CASE StoreHead
  <2>1. records' = [records EXCEPT ![1] = Len(pushed)] /\ Len(pushed) = records[1] + 1
    BY <1>2 DEF StoreHead, LGoto, Window
  <2> QED
    BY <2>1, <1>a
<1>3. CASE records' = records
  BY <1>3, <1>a
<1>4. Shift \/ StoreHead \/ records' = records
  BY DEF Next, Listen, Process, ListenTest, TakeSink, TakeCapture, Peek, Pop, Fill, CountRecord,
         ProcessTest, ReadTime, ReadSinkCycle, ReadCaptureCycle, EndEvaluation, ControlReturns,
         UseGoneContext, Stop, Report, adaptiveVars, listenVars
<1> QED
  BY <1>1, <1>2, <1>3, <1>4

-----------------------------------------------------------------------------
(* The steps of the processing thread.                                     *)

LEMMA EvaluationStep ==
    Types /\ Window /\ Evaluation /\ [Next]_adaptiveVars => Evaluation'
<1> SUFFICES ASSUME Types, Window, Evaluation, [Next]_adaptiveVars PROVE Evaluation'
  OBVIOUS
<1> USE AdaptiveAssumption
<1>a. /\ 1 \in Slots /\ records \in [Slots -> Nat]
      /\ \A s \in Slots : records[s] \in Nat
      /\ process \in {"sink", "capture"} => j \in Slots
      /\ j \in Nat \ {0} /\ prev \in Nat /\ began \in Nat
      /\ seen \in [Fields -> Nat] /\ weighed \in [Fields -> Nat]
      /\ seen["time"] \in Nat /\ seen["sink"] \in Nat
  BY DEF Types, Slots, Fields, Kinds
<1>b. \A s \in Slots : records'[s] \in Nat /\ records'[s] >= records[s]
  BY TypesStep, SlotsRise DEF Types
<1>1. CASE ProcessTest
  <2>1. /\ process' \notin {"sink", "capture"} /\ records' = records /\ prev' = prev
        /\ weighed' = weighed /\ weighed = Zero
        /\ began' \in {0, records[1]}
    BY <1>1 DEF ProcessTest, PGoto, listenVars, Evaluation
  <2> QED
    BY <2>1, <1>a DEF Evaluation, EvaluationFresh, Zero
<1>2. CASE ReadTime
  <2>1. /\ process = "time" /\ j \in Slots
        /\ UNCHANGED <<records, weighed, prev, began>>
    BY <1>2, <1>a DEF ReadTime, Slots, listenVars
  <2>2. PICK time \in MayRead(j) :
            IF time > prev
            THEN process' = "sink" /\ seen' = [seen EXCEPT !.time = time] /\ j' = j
            ELSE j' = j + 1 /\ UNCHANGED <<process, seen>>
    BY <1>2 DEF ReadTime
  <2>3. time \in Nat /\ records[j] <= time /\ time <= records[j] + 1
    BY <2>1, ReadsNear
  <2>4. CASE time > prev
    <3>1. seen'["time"] = time /\ j' = j /\ process' = "sink"
      BY <2>2, <2>4, <1>a DEF Fields
    <3>2. began <= records[1] /\ records[1] <= records[j] + 1
      BY <2>1 DEF Evaluation, Window
    <3>3. seen'["time"] > prev /\ seen'["time"] >= began - 1 /\ records[j] >= seen'["time"] - 1
      BY <2>1, <2>3, <2>4, <3>1, <3>2, <1>a
    <3> QED
      BY <2>1, <3>1, <3>3 DEF Evaluation, EvaluationFresh
  <2>5. CASE ~(time > prev)
    <3>1. process' = "time"
      BY <2>1, <2>2, <2>5
    <3> QED
      BY <2>1, <3>1 DEF Evaluation, EvaluationFresh
  <2> QED
    BY <2>4, <2>5
<1>3. CASE ReadSinkCycle
  <2>1. /\ process = "sink" /\ process' = "capture" /\ j \in Slots
        /\ UNCHANGED <<j, records, weighed, prev, began>>
    BY <1>3, <1>a DEF ReadSinkCycle, PGoto, listenVars
  <2>2. PICK sink \in MayRead(j) : seen' = [seen EXCEPT !.sink = sink]
    BY <1>3 DEF ReadSinkCycle
  <2>3. sink \in Nat /\ records[j] <= sink
    BY <2>1, ReadsNear
  <2>4. seen'["sink"] = sink /\ seen'["time"] = seen["time"]
    BY <2>2, <1>a DEF Fields, Kinds
  <2>5. /\ seen["time"] > prev /\ seen["time"] >= began - 1
        /\ records[j] >= seen["time"] - 1
        /\ began <= records[1] /\ records[1] <= records[j] + 1
    BY <2>1 DEF Evaluation, Window
  <2>6. sink >= began - 1 /\ sink >= seen["time"] - 1
    BY <2>1, <2>3, <2>5, <1>a
  <2> QED
    BY <2>1, <2>4, <2>5, <2>6 DEF Evaluation, EvaluationFresh
<1>4. CASE ReadCaptureCycle
  <2>1. /\ process = "capture" /\ process' = "time" /\ j \in Slots
        /\ UNCHANGED <<records, prev, began>>
    BY <1>4, <1>a DEF ReadCaptureCycle, PGoto, listenVars
  <2>2. PICK capture \in MayRead(j) : weighed' = [seen EXCEPT !.capture = capture]
    BY <1>4 DEF ReadCaptureCycle
  <2>3. capture \in Nat /\ records[j] <= capture
    BY <2>1, ReadsNear
  <2>4. weighed'["capture"] = capture /\ weighed'["sink"] = seen["sink"]
        /\ weighed'["time"] = seen["time"]
    BY <2>2, <1>a DEF Fields, Kinds
  <2>5. /\ seen["time"] > prev /\ seen["time"] >= began - 1
        /\ seen["sink"] >= began - 1 /\ seen["sink"] >= seen["time"] - 1
        /\ records[j] >= seen["time"] - 1
        /\ began <= records[1] /\ records[1] <= records[j] + 1
    BY <2>1 DEF Evaluation, Window
  <2>6. capture >= began - 1 /\ capture >= seen["time"] - 1
    BY <2>1, <2>3, <2>5, <1>a
  <2>7. seen["time"] >= seen["time"] - 1
    BY <1>a
  <2>8. EvaluationFresh'
    BY <2>1, <2>4, <2>5, <2>6, <2>7 DEF EvaluationFresh, Fields, Kinds
  <2> QED
    BY <2>1, <2>5, <2>8 DEF Evaluation
<1>5. CASE EndEvaluation
  <2>1. process' = "test" /\ weighed' = Zero /\ began' = 0 /\ records' = records
    BY <1>5 DEF EndEvaluation, PGoto, listenVars
  <2> QED
    BY <2>1, <1>a DEF Evaluation, EvaluationFresh, Zero
<1>6. CASE UNCHANGED processVars
  <2>1. UNCHANGED <<process, j, seen, prev, weighed, began>>
    BY <1>6 DEF processVars
  <2>2. EvaluationFresh'
    BY <2>1 DEF Evaluation, EvaluationFresh
  <2>3. began' <= records'[1]
    <3>1. began <= records[1] /\ records'[1] >= records[1] /\ records'[1] \in Nat
      BY <1>a, <1>b DEF Evaluation
    <3> QED
      BY <2>1, <3>1, <1>a
  <2>4. process \in {"sink", "capture"} => records'[j] >= seen["time"] - 1
    <3> SUFFICES ASSUME process \in {"sink", "capture"} PROVE records'[j] >= seen["time"] - 1
      OBVIOUS
    <3>1. /\ j \in Slots /\ records[j] >= seen["time"] - 1
          /\ records'[j] >= records[j] /\ records'[j] \in Nat /\ records[j] \in Nat
      BY <1>a, <1>b DEF Evaluation
    <3> QED
      BY <3>1, <1>a
  <2> QED
    BY <2>1, <2>2, <2>3, <2>4 DEF Evaluation
<1>7. Process \/ UNCHANGED processVars
  BY DEF Next, Listen, ListenTest, TakeSink, TakeCapture, Peek, Pop, Fill, Shift, StoreHead,
         CountRecord, ControlReturns, UseGoneContext, Stop, Report, adaptiveVars
<1> QED
  BY <1>1, <1>2, <1>3, <1>4, <1>5, <1>6, <1>7 DEF Process

-----------------------------------------------------------------------------
\* The invariant of both threads and the window between them.
THEOREM AdaptiveInvHolds == Spec => []AdaptiveInv
<1>1. Init => AdaptiveInv
  BY InitInv
<1>2. AdaptiveInv /\ [Next]_adaptiveVars => AdaptiveInv'
  BY TypesStep, WindowStep, CyclesStep, EvaluationStep DEF AdaptiveInv
<1> QED
  BY <1>1, <1>2, PTL DEF Spec

\* Whatever the length of the window, between two pushes it holds the newest
\* record and, in every other place, the one before.
THEOREM WindowIsTwo == Spec => []WindowHoldsTwo
<1>1. AdaptiveInv => WindowHoldsTwo
  BY DEF AdaptiveInv, Window
<1> QED
  BY <1>1, AdaptiveInvHolds, PTL

\* A cycle that was reported is kept until the next report of its kind, unless
\* has_sink was TRUE by chance.
THEOREM CyclesAreKept == Spec => []CyclesKept
<1>1. AdaptiveInv => CyclesKept
  BY DEF AdaptiveInv, Types, Cycles, Last, CyclesKept, Kinds
<1> QED
  BY <1>1, AdaptiveInvHolds, PTL

\* An evaluation weighs nothing stamped before the one before it ended, nothing
\* of a record older than the two newest it began with, and no cycle that is
\* more than one record older than its time, whatever is copied while it reads.
THEOREM EvaluationIsFresh == Spec => []EvaluationFresh
<1>1. AdaptiveInv => EvaluationFresh
  BY DEF AdaptiveInv, Evaluation
<1> QED
  BY <1>1, AdaptiveInvHolds, PTL
=============================================================================
