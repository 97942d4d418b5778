---------------------------- MODULE SessionProofs ----------------------------
(***************************************************************************)
(* What is proved of CaptureThread, for queues of every length, any number *)
(* of frames, new displays and events, and every environment; and of       *)
(* Session, which is one of those environments: with the results on        *)
(* CaptureThread, the order of what reaches the sink and the lifetime of   *)
(* the video thread's context.                                             *)
(***************************************************************************)
EXTENDS Session, SequenceTheorems, TLAPS

-----------------------------------------------------------------------------
(* CaptureThread.                                                          *)

Left == CaptureBuffers \cup {"device"}

\* What is left behind for a reason is recorded with it.
LEMMA LeakTypes ==
    ASSUME leaked \subseteq Reasons \X Left, NEW why \in Reasons, NEW left \in SUBSET Left
    PROVE  leaked \cup ({why} \X left) \subseteq Reasons \X Left
  OBVIOUS

\* A run that is given up keeps the types.
LEMMA AbandonTypes ==
    ASSUME CaptureTypeOK, NEW from, NEW why \in Reasons, NEW left \in SUBSET Left,
           Abandon(from, why, left)
    PROVE  /\ cpc' \in CapturePCs \ {"count"} /\ shutdown' \in BOOLEAN
           /\ count' \in [CaptureBuffers -> Nat]
           /\ leaked' \subseteq Reasons \X Left
<1>1. leaked' \subseteq Reasons \X Left
  BY LeakTypes DEF Abandon, CaptureTypeOK, Left
<1> QED
  BY <1>1 DEF Abandon, At, CapturePCs

\* A step of the thread keeps the types.
LEMMA CaptureStepTypes == CaptureTypeOK /\ CaptureStep => CaptureTypeOK'
<1> SUFFICES ASSUME CaptureTypeOK, CaptureStep PROVE CaptureTypeOK'
  OBVIOUS
<1> USE DEF CaptureTypeOK, CapturePCs, CaptureBuffers, Reasons, At, Use, history, queue
<1>1. CASE StartRun
  BY <1>1 DEF StartRun
<1>2. CASE DummyImage
  <2>1. misused' \subseteq CaptureBuffers
    BY <1>2 DEF DummyImage
  <2>2. CASE Abandon("dummy", "dummy_img", {"img"})
    <3>1. "dummy_img" \in Reasons /\ {"img"} \in SUBSET Left
      BY DEF Left
    <3>2. /\ cpc' \in CapturePCs \ {"count"} /\ shutdown' \in BOOLEAN
          /\ count' \in [CaptureBuffers -> Nat]
          /\ leaked' \subseteq Reasons \X Left
      BY <2>2, <3>1, AbandonTypes
    <3> QED
      BY <1>2, <2>1, <3>2 DEF DummyImage, Left
  <2>3. CASE At("dummy", "context") /\ UNCHANGED <<shutdown, leaked, count>>
    BY <1>2, <2>1, <2>3 DEF DummyImage
  <2> QED
    BY <1>2, <2>2, <2>3 DEF DummyImage
<1>3. CASE MakeContext
  <2>1. ASSUME NEW why \in {"make_hwdevice", "make_encode_context"}, NEW left \in SUBSET Left,
               Abandon("context", why, left)
        PROVE  CaptureTypeOK'
    <3>1. why \in Reasons
      OBVIOUS
    <3>2. /\ cpc' \in CapturePCs \ {"count"} /\ shutdown' \in BOOLEAN
          /\ count' \in [CaptureBuffers -> Nat]
          /\ leaked' \subseteq Reasons \X Left
      BY <2>1, <3>1, AbandonTypes
    <3> QED
      BY <1>3, <2>1, <3>2 DEF MakeContext, Left
  <2>2. {"img"} \in SUBSET Left /\ {"img", "device"} \in SUBSET Left
    BY DEF Left
  <2>3. CASE /\ At("context", "preset")
             /\ count' = [count EXCEPT !["ctx"] = 1]
             /\ UNCHANGED <<shutdown, leaked>>
    BY <1>3, <2>3 DEF MakeContext
  <2>4. CASE At("context", "crashed") /\ UNCHANGED <<count, shutdown, leaked>>
    BY <1>3, <2>4 DEF MakeContext
  <2> QED
    BY <1>3, <2>1, <2>2, <2>3, <2>4 DEF MakeContext
<1>4. CASE TestShutdown
  BY <1>4 DEF TestShutdown
<1>5. CASE HandleCommand
  <2>1. Head(commands) \in Commands /\ commands' \in Seq(Commands)
    BY <1>5 DEF HandleCommand
  <2>2. commanded' \in Seq(Commands)
    BY <1>5, <2>1 DEF HandleCommand
  <2>3. count' \in [CaptureBuffers -> Nat]
    BY <1>5 DEF HandleCommand
  <2> QED
    BY <1>5, <2>1, <2>2, <2>3 DEF HandleCommand
<1>6. CASE DrainEnd
  BY <1>6 DEF DrainEnd
<1>7. CASE Report
  BY <1>7, CaptureAssumption DEF Report
<1>8. CASE CaptureFrame
  <2>1. misused' \subseteq CaptureBuffers /\ cpc' \in CapturePCs \ {"count"}
    BY <1>8 DEF CaptureFrame
  <2>2. reinits' \in 0 .. MaxReinits /\ reinit' \in BOOLEAN
    <3>1. \/ UNCHANGED <<reinit, reinits>>
          \/ reinits < MaxReinits /\ reinits' = reinits + 1 /\ reinit' = TRUE
      BY <1>8 DEF CaptureFrame
    <3>2. reinits \in 0 .. MaxReinits /\ reinit \in BOOLEAN /\ MaxReinits \in Nat
      BY CaptureAssumption
    <3> HIDE DEF CaptureTypeOK, CapturePCs, CaptureBuffers, Reasons, At, Use, history, queue
    <3>3. reinits' \in 0 .. MaxReinits
      BY <3>1, <3>2
    <3>4. reinit' \in BOOLEAN
      BY <3>1, <3>2, Zenon
    <3> QED
      BY <3>3, <3>4
  <2> HIDE DEF CapturePCs, At, Use
  <2> QED
    BY <1>8, <2>1, <2>2 DEF CaptureFrame
<1>9. CASE Convert
  BY <1>9 DEF Convert
<1>10. CASE Encode
  <2>1. /\ misused' \subseteq CaptureBuffers /\ cpc' \in CapturePCs \ {"count"}
        /\ shutdown' \in BOOLEAN
    BY <1>10 DEF Encode
  <2>2. frameNr' \in Nat \ {0}
    BY <1>10 DEF Encode
  <2> HIDE DEF CapturePCs, At, Use
  <2> QED
    BY <1>10, <2>1, <2>2 DEF Encode
<1>11. CASE PushPacket
  BY <1>11, CaptureAssumption DEF PushPacket
<1>12. CASE Release
  <2>1. leaked' \subseteq Reasons \X Left
    <3>1. /\ "release" \in Reasons
          /\ {b \in CaptureBuffers : count[b] > 1} \in SUBSET Left
      BY DEF Left
    <3> QED
      BY <1>12, <3>1, LeakTypes DEF Release, Left
  <2>2. /\ count' \in [CaptureBuffers -> Nat] /\ cpc' \in CapturePCs
        /\ misused' \subseteq CaptureBuffers
    BY <1>12 DEF Release
  <2> QED
    BY <1>12, <2>1, <2>2 DEF Release, Left
<1>13. CASE ReplaceDisplay
  BY <1>13 DEF ReplaceDisplay
<1>14. CASE RaiseShutdown
  BY <1>14 DEF RaiseShutdown
<1>15. CASE Preset
  BY <1>15 DEF Preset
<1>16. CASE CountLoad
  BY <1>16, CaptureAssumption DEF CountLoad
<1>17. CASE CountStore
  BY <1>17, CaptureAssumption DEF CountStore
<1> QED
  BY <1>1, <1>2, <1>3, <1>4, <1>5, <1>6, <1>7, <1>8, <1>9, <1>10, <1>11, <1>12, <1>13, <1>14,
     <1>15, <1>16, <1>17 DEF CaptureStep

\* A step of the environment keeps the types.
LEMMA EnvironmentTypes == CaptureTypeOK /\ Environment => CaptureTypeOK'
<1> SUFFICES ASSUME CaptureTypeOK, Environment PROVE CaptureTypeOK'
  OBVIOUS
<1> USE DEF CaptureTypeOK, history, queue
<1>1. CASE TakePacket
  BY <1>1, CaptureAssumption DEF TakePacket
<1>2. CASE TakeReport
  BY <1>2, CaptureAssumption DEF TakeReport
<1>3. CASE RaisedElsewhere
  BY <1>3 DEF RaisedElsewhere
<1>4. ASSUME NEW code \in Commands, Command(code) PROVE CaptureTypeOK'
  BY <1>4 DEF Command
<1>5. CASE TakenStore
  BY <1>5, CaptureAssumption DEF TakenStore
<1> QED
  BY <1>1, <1>2, <1>3, <1>4, <1>5 DEF Environment

\* The types are an inductive invariant.
LEMMA CaptureTypes ==
    /\ CaptureInit => CaptureTypeOK
    /\ CaptureTypeOK /\ [CaptureStep \/ Environment]_captureVars => CaptureTypeOK'
<1>1. CaptureInit => CaptureTypeOK
  <2> SUFFICES ASSUME CaptureInit PROVE CaptureTypeOK
    OBVIOUS
  <2>1. packets \in Seq(Nat) /\ Len(packets) = 0
    BY DEF CaptureInit
  <2>2. commands \in Seq(Commands) /\ commanded \in Seq(Commands)
    BY DEF CaptureInit
  <2>3. count \in [CaptureBuffers -> Nat]
    BY DEF CaptureInit
  <2>4. reports \in 0 .. ReportQueueSize /\ reinits \in 0 .. MaxReinits
        /\ queued \in 0 .. PacketQueueSize /\ counted \in 0 .. PacketQueueSize - 1
    BY <2>1, CaptureAssumption DEF CaptureInit
  <2>5. cpc \in CapturePCs /\ cpc # "count" /\ frameNr \in Nat \ {0}
    BY DEF CaptureInit, CapturePCs
  <2> QED
    BY <2>1, <2>2, <2>3, <2>4, <2>5 DEF CaptureInit, CaptureTypeOK
<1>2. CaptureTypeOK /\ UNCHANGED captureVars => CaptureTypeOK'
  BY DEF CaptureTypeOK, captureVars
<1> QED
  BY <1>1, <1>2, CaptureStepTypes, EnvironmentTypes

\* The variables keep their types and the queues their bounds in every
\* environment (encoder_thread.cpp:117-324).
THEOREM CaptureTypeCorrect == CaptureSpec => []CaptureTypeOK
  BY CaptureTypes, PTL DEF CaptureSpec

-----------------------------------------------------------------------------
(* The order of the packets.                                               *)

OrderInv == CaptureTypeOK /\ PacketsInOrder

\* Only a push adds a packet, later than all in the queue; the number of the
\* next frame only grows.
LEMMA OrderStep == OrderInv /\ CaptureStep => PacketsInOrder'
<1> SUFFICES ASSUME OrderInv, CaptureStep PROVE PacketsInOrder'
  OBVIOUS
<1> USE DEF OrderInv, CaptureTypeOK, PacketsInOrder, At, queue
<1>1. CASE PushPacket
  <2>1. packets' = Append(packets, frameNr - 1) /\ frameNr' = frameNr /\ cpc' = "count"
    BY <1>1 DEF PushPacket
  <2>2. /\ DOMAIN packets' = 1 .. Len(packets) + 1 /\ DOMAIN packets = 1 .. Len(packets)
        /\ \A i \in DOMAIN packets : packets'[i] = packets[i]
        /\ packets'[Len(packets) + 1] = frameNr - 1
    BY <2>1
  <2>3. \A i \in DOMAIN packets : packets[i] \in Nat /\ packets[i] < frameNr - 1
    BY <1>1 DEF PushPacket
  <2>4. \A i \in DOMAIN packets' : packets'[i] < frameNr'
    BY <2>1, <2>2, <2>3
  <2>6. cpc' # "push"
    BY <2>1
  <2>7. /\ Len(packets) \in Nat /\ frameNr \in Nat
        /\ \A i, j \in DOMAIN packets : i < j => packets[i] < packets[j]
    OBVIOUS
  <2> HIDE DEF OrderInv, CaptureTypeOK, PacketsInOrder, At, queue
  <2>5. \A i, j \in DOMAIN packets' : i < j => packets'[i] < packets'[j]
    BY <2>2, <2>3, <2>7
  <2> QED
    BY <2>4, <2>5, <2>6 DEF PacketsInOrder
<1>2. CASE Encode
  BY <1>2 DEF Encode
<1>3. CASE ~PushPacket /\ ~Encode
  <2>1. packets' = packets /\ frameNr' = frameNr /\ cpc' # "push"
    BY <1>3 DEF CaptureStep, StartRun, DummyImage, MakeContext, Preset, Abandon, TestShutdown,
          HandleCommand, DrainEnd, Report, CaptureFrame, Convert, Release, ReplaceDisplay,
          RaiseShutdown, CountLoad, CountStore
  <2> QED
    BY <2>1
<1> QED
  BY <1>1, <1>2, <1>3

\* The environment only takes the oldest packet.
LEMMA OrderEnvironment == OrderInv /\ Environment => PacketsInOrder'
<1> SUFFICES ASSUME OrderInv, Environment PROVE PacketsInOrder'
  OBVIOUS
<1> USE DEF OrderInv, CaptureTypeOK, PacketsInOrder
<1>1. CASE TakePacket
  <2>1. packets # <<>> /\ packets' = Tail(packets) /\ UNCHANGED <<frameNr, cpc>>
    BY <1>1 DEF TakePacket
  <2>2. /\ DOMAIN packets' = 1 .. Len(packets) - 1 /\ DOMAIN packets = 1 .. Len(packets)
        /\ \A i \in 1 .. Len(packets) - 1 : packets'[i] = packets[i + 1]
    BY <2>1, HeadTailProperties DEF CaptureTypeOK
  <2>3. Len(packets) \in Nat /\ \A i \in DOMAIN packets' : i + 1 \in DOMAIN packets
    BY <2>2
  <2>4. \A i, j \in DOMAIN packets' : i < j => i + 1 < j + 1
    BY <2>2
  <2>5. \A i, j \in DOMAIN packets' : i < j => packets'[i] < packets'[j]
    BY <2>2, <2>3, <2>4
  <2> QED
    BY <2>1, <2>2, <2>3, <2>5
<1>2. CASE ~TakePacket
  BY <1>2 DEF Environment, TakenStore, TakeReport, RaisedElsewhere, Command, queue
<1> QED
  BY <1>1, <1>2

\* The packets in the queue are in the order of their frames, through any
\* number of new displays (encoder_thread.cpp:238 and :292).
THEOREM PacketsStayInOrder == CaptureSpec => []PacketsInOrder
<1>1. CaptureInit => OrderInv
  BY CaptureTypes DEF OrderInv, PacketsInOrder, CaptureInit
<1>2. OrderInv /\ [CaptureStep \/ Environment]_captureVars => OrderInv'
  <2>1. OrderInv /\ UNCHANGED captureVars => PacketsInOrder'
    BY DEF OrderInv, PacketsInOrder, captureVars
  <2> QED
    BY <2>1, CaptureTypes, OrderStep, OrderEnvironment DEF OrderInv
<1>3. OrderInv => PacketsInOrder
  BY DEF OrderInv
<1> QED
  BY <1>1, <1>2, <1>3, PTL DEF CaptureSpec

-----------------------------------------------------------------------------
(* The balance of the buffers.                                             *)

Clean(done) == \A i \in DOMAIN done : done[i] \notin Dropping

\* what each buffer's count is at a statement
Due(at) == [b \in CaptureBuffers |->
    IF at \in {"start", "cleanup", "raise", "done"} THEN 0
    ELSE IF at \in {"dummy", "context", "crashed"} THEN (IF b = "img" THEN 1 ELSE 0)
    ELSE IF at = "preset" THEN (IF b = "frame" THEN 0 ELSE 1) ELSE 1]

Balance ==
    /\ count = Due(cpc)
    /\ misused = {}
    /\ \A l \in leaked : l[1] # "release"

BalanceInv == CaptureTypeOK /\ (Clean(commanded) => Balance)

\* A step of the thread that handles no such event leaves every buffer with the
\* count that is due at its next statement.
LEMMA BalanceStep ==
    ASSUME CaptureTypeOK, Balance, CaptureStep, ~HandleCommand
    PROVE  Balance'
<1> USE DEF Balance, Due, CaptureBuffers, At, Use, history, queue
<1>1. CASE StartRun
  BY <1>1 DEF StartRun, CaptureTypeOK
<1>2. CASE DummyImage
  <2>1. misused' = {}
    BY <1>2 DEF DummyImage, Abandon
  <2>2. \A l \in leaked' : l[1] # "release"
    BY <1>2 DEF DummyImage, Abandon
  <2>3. count' = Due(cpc')
    BY <1>2 DEF DummyImage, Abandon
  <2> QED
    BY <2>1, <2>2, <2>3
<1>3. CASE MakeContext
  <2>1. misused' = {}
    BY <1>3 DEF MakeContext
  <2>2. \A l \in leaked' : l[1] # "release"
    BY <1>3 DEF MakeContext, Abandon
  <2>3. count' = Due(cpc')
    BY <1>3 DEF MakeContext, Abandon, CaptureTypeOK
  <2> QED
    BY <2>1, <2>2, <2>3
<1>4. CASE TestShutdown \/ DrainEnd \/ Report \/ PushPacket \/ CountLoad \/ CountStore
  BY <1>4 DEF TestShutdown, DrainEnd, Report, PushPacket, CountLoad, CountStore
<1>5. CASE CaptureFrame
  BY <1>5 DEF CaptureFrame
<1>6. CASE Convert
  BY <1>6 DEF Convert
<1>7. CASE Encode
  BY <1>7 DEF Encode
<1>8. CASE Release
  <2>1. {b \in CaptureBuffers : count[b] = 0} = {} /\ {b \in CaptureBuffers : count[b] > 1} = {}
    BY <1>8 DEF Release
  <2>2. misused' = {} /\ leaked' = leaked
    BY <1>8, <2>1 DEF Release
  <2>3. count' = Due(cpc')
    BY <1>8 DEF Release
  <2> QED
    BY <2>2, <2>3
<1>9. CASE ReplaceDisplay \/ RaiseShutdown
  BY <1>9 DEF ReplaceDisplay, RaiseShutdown
<1>10. CASE Preset
  BY <1>10 DEF Preset, CaptureTypeOK
<1> QED
  BY <1>1, <1>2, <1>3, <1>4, <1>5, <1>6, <1>7, <1>8, <1>9, <1>10 DEF CaptureStep

\* An event other than the two keeps the balance as well.
LEMMA BalanceCommand ==
    ASSUME CaptureTypeOK, Balance, HandleCommand, Head(commands) \notin Dropping
    PROVE  Balance'
<1>1. count' = count /\ count = Due("drain") /\ misused' = {} /\ leaked' = leaked
  <2>1. count = Due("drain") /\ misused = {} /\ leaked' = leaked
    BY DEF HandleCommand, Balance
  <2>2. count["ctx"] = 1 /\ count \in [CaptureBuffers -> Nat]
    BY <2>1 DEF Due, CaptureBuffers, CaptureTypeOK
  <2>3. count' = [count EXCEPT !["ctx"] = @] /\ misused' = {}
    BY <2>1, <2>2 DEF HandleCommand, Use, Dropping
  <2> QED
    BY <2>1, <2>2, <2>3
<1>2. cpc' \in {"drain", "report"}
  BY DEF HandleCommand
<1> QED
  BY <1>1, <1>2 DEF Balance, Due

\* What was handled stays handled.
LEMMA CleanBefore ==
    ASSUME CaptureTypeOK, CaptureStep, Clean(commanded')
    PROVE  Clean(commanded) /\ (HandleCommand => Head(commands) \notin Dropping)
<1>1. CASE HandleCommand
  <2>1. commanded' = Append(commanded, Head(commands)) /\ commanded \in Seq(Commands)
    BY <1>1 DEF HandleCommand, CaptureTypeOK
  <2>2. /\ DOMAIN commanded' = 1 .. Len(commanded) + 1 /\ DOMAIN commanded = 1 .. Len(commanded)
        /\ \A i \in DOMAIN commanded : commanded'[i] = commanded[i]
        /\ commanded'[Len(commanded) + 1] = Head(commands)
    BY <2>1
  <2> QED
    BY <2>1, <2>2 DEF Clean
<1>2. CASE ~HandleCommand
  BY <1>2 DEF CaptureStep, StartRun, DummyImage, MakeContext, Preset, Abandon, TestShutdown,
        DrainEnd, Report, CaptureFrame, Convert, Encode, PushPacket, CountLoad, CountStore, Release,
        ReplaceDisplay, RaiseShutdown, history, Clean
<1> QED
  BY <1>1, <1>2

\* On every path through any number of runs the three buffers are alive when
\* used and freed at the end, in every environment that sends none of the two
\* events that break it (encoder_thread.cpp:121-267).
THEOREM BuffersStayBalanced == CaptureSpec => []BuffersBalanced
<1>1. CaptureInit => BalanceInv
  <2> SUFFICES ASSUME CaptureInit PROVE Balance
    BY CaptureTypes DEF BalanceInv
  <2> QED
    BY DEF CaptureInit, Balance, Due, CaptureBuffers
<1>2. BalanceInv /\ [CaptureStep \/ Environment]_captureVars => BalanceInv'
  <2> SUFFICES ASSUME BalanceInv, [CaptureStep \/ Environment]_captureVars,
                      Clean(commanded')
               PROVE  Balance'
    BY CaptureTypes DEF BalanceInv
  <2>1. CASE CaptureStep
    BY <2>1, CleanBefore, BalanceStep, BalanceCommand DEF BalanceInv
  <2>2. CASE Environment
    <3>1. UNCHANGED <<commanded, count, cpc, misused, leaked>>
      BY <2>2 DEF Environment, TakePacket, TakenStore, TakeReport, RaisedElsewhere, Command, history
    <3> QED
      BY <3>1 DEF BalanceInv, Balance, Clean, Due
  <2>3. CASE UNCHANGED captureVars
    BY <2>3 DEF BalanceInv, Balance, Clean, Due, captureVars
  <2> QED
    BY <2>1, <2>2, <2>3
<1>3. BalanceInv => BuffersBalanced
  BY DEF BalanceInv, Balance, Clean, BuffersBalanced
<1> QED
  BY <1>1, <1>2, <1>3, PTL DEF CaptureSpec

-----------------------------------------------------------------------------
(* Session.                                                                *)

\* What the video thread has read of the counter is at least 1 and at most the
\* size of the queue.
TakenInv == video = "count" => taken \in 1 .. PacketQueueSize

\* Only a pop of the video thread reads the counter.
LEMMA TakenStep == CaptureTypeOK /\ TakenInv /\ [SessionNext]_sessionVars => TakenInv'
<1> SUFFICES ASSUME CaptureTypeOK, TakenInv, [SessionNext]_sessionVars PROVE TakenInv'
  OBVIOUS
<1>1. CASE VideoPop
  BY <1>1, CaptureAssumption DEF VideoPop, TakenInv, CaptureTypeOK
<1>2. CASE Video /\ ~VideoPop
  BY <1>2 DEF Video, VideoTest, VideoCountStore, VideoHandle, VideoRaise, VideoJoin, VGoto, TakenInv
<1>3. CASE StartSink
  BY <1>3 DEF StartSink, TakenInv
<1>4. CASE Capture \/ (Broadcast /\ ~StartSink) \/ ListenRound \/ MainReturns \/ Stop
           \/ UNCHANGED sessionVars
  <2>1. UNCHANGED <<video, taken>>
    BY <1>4 DEF Capture, PresetFlag, PresetStream, PresetParameters, CaptureOther, captureOthers,
          Broadcast, StartPoll, NoStream, BroadcastReturns, ListenRound, MainReturns, Stop,
          sessionVars, threads, rest
  <2> QED
    BY <2>1 DEF TakenInv
<1> QED
  BY <1>1, <1>2, <1>3, <1>4 DEF SessionNext

\* Every step of a session is a step of the capture thread, one its environment
\* is allowed, or invisible to it.
LEMMA SessionStepIsCaptureStep ==
    ASSUME CaptureTypeOK, TakenInv, [SessionNext]_sessionVars
    PROVE  [CaptureStep \/ Environment]_captureVars
<1>1. CASE Capture
  BY <1>1 DEF Capture, PresetFlag, PresetStream, PresetParameters, CaptureOther, CaptureStep
<1>2. CASE VideoPop
  BY <1>2 DEF VideoPop, TakePacket, Environment, captureRest, history
<1>3. CASE VideoRaise
  <2>1. CASE shutdown
    <3>1. shutdown' = shutdown
      BY <1>3, <2>1 DEF VideoRaise, CaptureTypeOK
    <3> QED
      BY <1>3, <3>1 DEF VideoRaise, captureRest, captureVars, queue
  <2>2. CASE ~shutdown
    BY <1>3, <2>2 DEF VideoRaise, RaisedElsewhere, Environment, captureRest, history
  <2> QED
    BY <2>1, <2>2
<1>4. CASE ListenRound
  <2>1. UNCHANGED <<captureRest, queue, shutdown>>
    BY <1>4 DEF ListenRound
  <2>2. \/ reports > 0 /\ reports' = reports - 1
        \/ reports' = reports
    BY <1>4 DEF ListenRound
  <2> QED
    BY <2>1, <2>2 DEF TakeReport, Environment, captureRest, history, captureVars, queue
<1>5. CASE Stop
  BY <1>5 DEF Stop, RaisedElsewhere, Environment, captureRest, history
<1>6. CASE \/ MainReturns \/ StartPoll \/ NoStream \/ StartSink \/ BroadcastReturns
           \/ VideoTest \/ VideoHandle \/ VideoJoin
  BY <1>6 DEF MainReturns, StartPoll, NoStream, StartSink, BroadcastReturns, VideoTest,
        VideoHandle, VideoJoin
<1>7. CASE UNCHANGED sessionVars
  BY <1>7 DEF sessionVars
<1>8. CASE VideoCountStore
  <2>1. queued' = taken - 1 /\ taken \in 1 .. PacketQueueSize
    BY <1>8 DEF VideoCountStore, VGoto, TakenInv
  <2>2. queued' \in 0 .. PacketQueueSize - 1
    BY <2>1, CaptureAssumption
  <2> QED
    BY <1>8, <2>2 DEF VideoCountStore, TakenStore, Environment, captureRest, history
<1> QED
  BY <1>1, <1>2, <1>3, <1>4, <1>5, <1>6, <1>7, <1>8 DEF SessionNext, Broadcast, Video

\* The other threads of a session do nothing the capture thread is not prepared
\* for: whatever holds of it in every environment holds in a session
\* (screencoder_session.cpp:76-101).
THEOREM SessionImplementsCapture == SessionSpec => SessionIsEnvironment
<1> DEFINE Inv == CaptureTypeOK /\ TakenInv
<1>1. SessionInit => CaptureInit /\ Inv
  BY CaptureTypes DEF SessionInit, TakenInv
<1>2. Inv /\ [SessionNext]_sessionVars => Inv'
  BY SessionStepIsCaptureStep, CaptureTypes, TakenStep
<1>3. Inv /\ [SessionNext]_sessionVars => [CaptureStep \/ Environment]_captureVars
  BY SessionStepIsCaptureStep
<1> QED
  BY <1>1, <1>2, <1>3, PTL DEF SessionSpec, SessionIsEnvironment, CaptureSpec

-----------------------------------------------------------------------------
(* The order of what the sink is given.                                    *)

\* What was handled is older than what is held, that older than what is
\* queued, and all of it older than the frame being encoded.
SinkInv ==
    /\ handled \in Nat /\ held \in Nat
    /\ handled < frameNr
    /\ cpc = "push" => handled < frameNr - 1
    /\ \A i \in DOMAIN packets : handled < packets[i]
    /\ video \in {"count", "handle"} =>
           /\ handled < held /\ held < frameNr
           /\ cpc = "push" => held < frameNr - 1
           /\ \A i \in DOMAIN packets : held < packets[i]

\* A step of the capture thread keeps what is queued newer than what was taken.
LEMMA SinkCapture ==
    ASSUME OrderInv, SinkInv, Capture
    PROVE  SinkInv'
<1> USE DEF OrderInv, SinkInv, CaptureTypeOK, PacketsInOrder, At, queue
<1>0. UNCHANGED <<video, held, handled>> /\ [CaptureStep]_captureVars
  BY DEF Capture, PresetFlag, PresetStream, PresetParameters, CaptureOther, CaptureStep,
     captureOthers, threads
<1>1. CASE PushPacket
  <2>1. packets' = Append(packets, frameNr - 1) /\ frameNr' = frameNr /\ cpc' = "count"
    BY <1>1 DEF PushPacket
  <2>2. /\ DOMAIN packets' = 1 .. Len(packets) + 1 /\ DOMAIN packets = 1 .. Len(packets)
        /\ \A i \in DOMAIN packets : packets'[i] = packets[i]
        /\ packets'[Len(packets) + 1] = frameNr - 1
    BY <2>1
  <2>3. /\ handled \in Nat /\ held \in Nat /\ frameNr \in Nat /\ Len(packets) \in Nat
        /\ handled < frameNr - 1 /\ \A i \in DOMAIN packets : handled < packets[i]
    BY <1>1 DEF PushPacket
  <2>4. video \in {"count", "handle"} =>
            held < frameNr - 1 /\ \A i \in DOMAIN packets : held < packets[i]
    BY <1>1 DEF PushPacket
  <2> HIDE DEF OrderInv, SinkInv, CaptureTypeOK, PacketsInOrder, At, queue
  <2>5. \A i \in DOMAIN packets' : handled < packets'[i]
    BY <2>2, <2>3
  <2>6. video \in {"count", "handle"} => \A i \in DOMAIN packets' : held < packets'[i]
    BY <2>2, <2>3, <2>4
  <2> QED
    BY <1>0, <2>1, <2>3, <2>4, <2>5, <2>6 DEF SinkInv
<1>2. CASE Encode
  BY <1>0, <1>2 DEF Encode
<1>3. CASE CaptureStep /\ ~PushPacket /\ ~Encode
  <2>1. packets' = packets /\ frameNr' = frameNr /\ cpc' # "push"
    BY <1>3 DEF CaptureStep, StartRun, DummyImage, MakeContext, Preset, Abandon, TestShutdown,
          HandleCommand, DrainEnd, Report, CaptureFrame, Convert, Release, ReplaceDisplay,
          RaiseShutdown, CountLoad, CountStore
  <2> QED
    BY <1>0, <2>1
<1>4. CASE UNCHANGED captureVars
  BY <1>0, <1>4 DEF captureVars
<1> QED
  BY <1>0, <1>1, <1>2, <1>3, <1>4

\* So does a pop of the video thread, which takes the oldest packet.
LEMMA SinkPop ==
    ASSUME OrderInv, SinkInv, VideoPop
    PROVE  SinkInv'
<1> USE DEF OrderInv, SinkInv, CaptureTypeOK, PacketsInOrder
<1>1. /\ packets # <<>> /\ packets' = Tail(packets) /\ held' = Head(packets)
      /\ UNCHANGED <<frameNr, cpc, handled>>
  BY DEF VideoPop, captureRest
<1>2. /\ DOMAIN packets' = 1 .. Len(packets) - 1 /\ DOMAIN packets = 1 .. Len(packets)
      /\ \A i \in 1 .. Len(packets) - 1 : packets'[i] = packets[i + 1]
      /\ held' = packets[1] /\ Len(packets) \in Nat \ {0}
  BY <1>1, HeadTailProperties
<1>3. \A i \in DOMAIN packets' : i + 1 \in DOMAIN packets /\ 1 < i + 1
  BY <1>2
<1>4. 1 \in DOMAIN packets /\ packets[1] \in Nat
  BY <1>2
<1>5. \A i \in DOMAIN packets' : held' < packets'[i] /\ handled < packets'[i]
  BY <1>2, <1>3, <1>4
<1> QED
  BY <1>1, <1>2, <1>4, <1>5

\* The invariant behind the order is kept by every step of the session.
LEMMA SinkStep ==
    ASSUME OrderInv, SinkInv, [SessionNext]_sessionVars
    PROVE  SinkInv'
<1>1. CASE Capture
  BY <1>1, SinkCapture
<1>2. CASE VideoPop
  BY <1>2, SinkPop
<1>3. CASE VideoHandle
  BY <1>3 DEF VideoHandle, VGoto, SinkInv, captureVars
<1>4. CASE StartPoll \/ NoStream \/ StartSink \/ VideoTest
  BY <1>4 DEF StartPoll, NoStream, StartSink, VideoTest, VGoto, SinkInv, captureVars, threads
<1>5. CASE VideoRaise \/ VideoJoin
  BY <1>5 DEF VideoRaise, VideoJoin, VGoto, SinkInv, captureVars, captureRest, queue
<1>6. CASE ListenRound \/ Stop \/ VideoCountStore
  BY <1>6 DEF ListenRound, Stop, VideoCountStore, VGoto, SinkInv, captureRest, threads, queue
<1>7. CASE MainReturns \/ BroadcastReturns \/ UNCHANGED sessionVars
  BY <1>7 DEF MainReturns, BroadcastReturns, SinkInv, captureVars, sessionVars, threads
<1> QED
  BY <1>1, <1>2, <1>3, <1>4, <1>5, <1>6, <1>7 DEF SessionNext, Broadcast, Video

NoVideoYet == broadcast \in {"start", "header"} => video = "none"

\* The video thread is started as the broadcast thread begins to wait.
LEMMA NoVideoStep == NoVideoYet /\ [SessionNext]_sessionVars => NoVideoYet'
<1> SUFFICES ASSUME NoVideoYet, [SessionNext]_sessionVars PROVE NoVideoYet'
  OBVIOUS
<1>1. CASE Broadcast
  BY <1>1 DEF Broadcast, StartPoll, NoStream, StartSink, BroadcastReturns, BGoto, NoVideoYet,
        threads
<1>2. CASE Video
  BY <1>2 DEF Video, VideoTest, VideoPop, VideoCountStore, VideoHandle, VideoRaise, VideoJoin,
        VGoto, NoVideoYet
<1>3. CASE Capture \/ ListenRound \/ MainReturns \/ Stop \/ UNCHANGED sessionVars
  <2>1. UNCHANGED <<video, broadcast>>
    BY <1>3 DEF Capture, PresetFlag, PresetStream, PresetParameters, CaptureOther, captureOthers,
          ListenRound, MainReturns, Stop, sessionVars, threads
  <2> QED
    BY <2>1 DEF NoVideoYet
<1> QED
  BY <1>1, <1>2, <1>3 DEF SessionNext

\* Only a packet newer than the last one is given to the sink.
LEMMA SinkGiven ==
    ASSUME SinkInv, NoVideoYet, [SessionNext]_sessionVars
    PROVE  video = "handle" /\ video' # video => handled' > handled
<1> SUFFICES ASSUME video = "handle", video' # video PROVE handled' > handled
  OBVIOUS
<1>1. VideoHandle
  <2>1. ~VideoHandle => video' = video \/ video # "handle"
    BY DEF NoVideoYet, BGoto, SessionNext, Broadcast, Video, Capture, PresetFlag, PresetStream, PresetParameters,
       CaptureOther, captureOthers, threads, StartPoll, NoStream, BroadcastReturns, StartSink,
       VideoTest, VideoPop, VideoCountStore, VideoRaise, VideoJoin, VGoto, ListenRound,
       MainReturns, Stop, sessionVars
  <2> QED
    BY <2>1
<1> QED
  BY <1>1 DEF VideoHandle, SinkInv

\* The types and the order of the packet queue are kept by a session's steps.
LEMMA OrderSession == OrderInv /\ TakenInv /\ [SessionNext]_sessionVars => OrderInv'
<1> SUFFICES ASSUME OrderInv, TakenInv, [SessionNext]_sessionVars PROVE OrderInv'
  OBVIOUS
<1>1. [CaptureStep \/ Environment]_captureVars
  BY SessionStepIsCaptureStep DEF OrderInv
<1>2. OrderInv /\ UNCHANGED captureVars => PacketsInOrder'
  BY DEF OrderInv, PacketsInOrder, captureVars
<1> QED
  BY <1>1, <1>2, CaptureTypes, OrderStep, OrderEnvironment DEF OrderInv

\* Each frame the sink is given is newer than the one before, so that none comes
\* twice or out of order, through new displays, at any speeds of the threads and
\* whatever updates of the queue's counter are lost (generic_sink.cpp:38,
\* encoder_thread.cpp:238, screencoder_queue.cpp:92 and :149).
THEOREM SinkGetsFramesInOrder == SessionSpec => SinkInOrder
<1> DEFINE Inv == OrderInv /\ TakenInv /\ SinkInv /\ NoVideoYet
<1>1. SessionInit => Inv
  <2>1. SessionInit => CaptureTypeOK
    BY CaptureTypes DEF SessionInit
  <2> QED
    BY <2>1 DEF SessionInit, CaptureInit, OrderInv, PacketsInOrder, TakenInv, SinkInv, NoVideoYet
<1>2. Inv /\ [SessionNext]_sessionVars => Inv'
  BY OrderSession, TakenStep, SinkStep, NoVideoStep DEF OrderInv
<1>3. Inv /\ [SessionNext]_sessionVars
        => [video = "handle" /\ video' # video => handled' > handled]_sessionVars
  BY SinkGiven
<1> QED
  BY <1>1, <1>2, <1>3, PTL DEF SessionSpec, SinkInOrder

-----------------------------------------------------------------------------
(* The lifetime of the video thread's context.                             *)

JoinInv ==
    /\ joined => video = "done"
    /\ broadcast \in {"start", "header"} => video = "none"
    /\ broadcast = "start" => ~overtook
    /\ broadcast = "returned" => joined
    /\ video \in {"join", "done"} => shutdown
    /\ broadcast = "header" /\ ~overtook => streams > 0
    /\ preseted /\ preset = "flag" => streams > 0
    /\ streams \in Nat
    /\ preset # "flag" => preseted /\ cpc = "preset"
    /\ preset = "parameters" => streams > 0
    /\ terminated => shutdown \/ overtook \/ cpc = "crashed"

\* The shutdown event stays raised.
LEMMA ShutdownStays == [SessionNext]_sessionVars /\ shutdown => shutdown'
<1> SUFFICES ASSUME [SessionNext]_sessionVars, shutdown PROVE shutdown'
  OBVIOUS
<1>1. CaptureStep => shutdown'
  BY DEF CaptureStep, StartRun, DummyImage, MakeContext, Preset, Abandon, TestShutdown,
     HandleCommand, DrainEnd, Report, CaptureFrame, Convert, Encode, PushPacket, CountLoad,
     CountStore, Release, ReplaceDisplay, RaiseShutdown
<1>2. CASE Capture
  BY <1>1, <1>2 DEF Capture, PresetFlag, PresetStream, PresetParameters, CaptureOther,
        CaptureStep, captureVars
<1>3. CASE Broadcast \/ Video \/ ListenRound \/ MainReturns \/ Stop
  BY <1>3 DEF Broadcast, Video, StartPoll, NoStream, StartSink, BroadcastReturns, VideoTest,
        VideoPop, VideoCountStore, VideoHandle, VideoRaise, VideoJoin, ListenRound, MainReturns,
        Stop, captureVars, captureRest
<1>4. CASE UNCHANGED sessionVars
  BY <1>4 DEF sessionVars, captureVars
<1> QED
  BY <1>2, <1>3, <1>4 DEF SessionNext

\* Where the capture thread stands, and what it has made of the sink's format,
\* changes in its own steps only.
LEMMA OthersKeepFormat ==
    ASSUME \/ Broadcast \/ Video \/ ListenRound \/ MainReturns \/ Stop
           \/ UNCHANGED sessionVars
    PROVE  UNCHANGED <<cpc, reinit, reinits, preset, preseted, streams, described, staleReads>>
<1>1. CASE Broadcast
  BY <1>1 DEF Broadcast, StartPoll, NoStream, StartSink, BroadcastReturns, captureVars, sink
<1>2. CASE Video
  BY <1>2 DEF Video, VideoTest, VideoPop, VideoCountStore, VideoHandle, VideoRaise, VideoJoin,
        captureVars, captureRest, rest, sink
<1>3. CASE ListenRound \/ MainReturns \/ Stop \/ UNCHANGED sessionVars
  BY <1>3 DEF ListenRound, MainReturns, Stop, sessionVars, captureVars, captureRest, rest, sink
<1> QED
  BY <1>1, <1>2, <1>3

\* A step of the capture thread keeps the invariant of the join.
LEMMA JoinCapture ==
    ASSUME JoinInv, Capture, shutdown => shutdown'
    PROVE  JoinInv'
<1> USE DEF JoinInv, captureOthers, threads, format
<1>1. CASE PresetFlag
  BY <1>1 DEF PresetFlag, captureVars
<1>2. CASE PresetStream
  BY <1>2 DEF PresetStream, captureVars
<1>3. CASE PresetParameters
  BY <1>3 DEF PresetParameters
<1>4. CASE CaptureOther
  BY <1>4 DEF CaptureOther, sink
<1> QED
  BY <1>1, <1>2, <1>3, <1>4 DEF Capture

\* Once the video thread has nothing left to do it does nothing any more, and
\* the event is raised before.
LEMMA JoinStep ==
    ASSUME JoinInv, [SessionNext]_sessionVars
    PROVE  JoinInv'
<1> USE DEF JoinInv
<1>0. shutdown => shutdown'
  BY ShutdownStays
<1>1. CASE Broadcast
  <2>1. UNCHANGED <<cpc, preset, preseted, streams>>
    BY <1>1, OthersKeepFormat
  <2>2. CASE StartPoll
    <3>1. overtook' <=> preset # "flag"
      BY <2>2 DEF StartPoll
    <3>2. /\ broadcast = "start" /\ broadcast' = "header" /\ preseted
          /\ UNCHANGED <<video, joined, terminated>>
      BY <2>2 DEF StartPoll, BGoto
    <3>3. terminated' => shutdown' \/ cpc' = "crashed"
      BY <1>0, <2>1, <3>2
    <3> QED
      <4>1. ~overtook' => streams' > 0
        BY <2>1, <3>1, <3>2
      <4> QED
        BY <1>0, <2>1, <3>2, <3>3, <4>1
  <2>3. CASE StartSink
    BY <1>0, <2>1, <2>3 DEF StartSink, BGoto, sink
  <2>4. CASE BroadcastReturns
    BY <1>0, <2>1, <2>4 DEF BroadcastReturns, BGoto, sink
  <2>5. CASE NoStream
    <3>1. UNCHANGED <<broadcast, video, joined, overtook>>
      BY <2>5 DEF NoStream, threads, sink
    <3> QED
      BY <1>0, <2>1, <2>5, <3>1 DEF NoStream
  <2> QED
    BY <1>1, <2>2, <2>3, <2>4, <2>5 DEF Broadcast
<1>2. CASE Video
  <2>1. UNCHANGED <<cpc, preset, preseted, streams>>
    BY <1>2, OthersKeepFormat
  <2>2. UNCHANGED <<broadcast, overtook, terminated>>
    BY <1>2 DEF Video, VideoTest, VideoPop, VideoCountStore, VideoHandle, VideoRaise, VideoJoin,
          rest, sink
  <2> QED
    BY <1>0, <1>2, <2>1, <2>2
       DEF Video, VideoTest, VideoPop, VideoCountStore, VideoHandle, VideoRaise, VideoJoin,
           VGoto
<1>3. CASE Capture
  BY <1>0, <1>3, JoinCapture
<1>4. CASE ListenRound \/ MainReturns \/ Stop \/ UNCHANGED sessionVars
  <2>1. UNCHANGED <<cpc, preset, preseted, streams>>
    BY <1>4, OthersKeepFormat
  <2>2. UNCHANGED <<broadcast, video, joined, overtook, terminated>>
    BY <1>4 DEF ListenRound, MainReturns, Stop, sessionVars, threads, rest, sink
  <2> QED
    BY <1>0, <2>1, <2>2
<1> QED
  BY <1>1, <1>2, <1>3, <1>4 DEF SessionNext

\* start_broadcast does not return before the video thread is through, whoever
\* raised the shutdown event, and its return, which ends the process, comes
\* after a stop (generic_sink.cpp:64-73).
THEOREM ContextLives == SessionSpec => []ContextOutlivesVideo
<1>1. SessionInit => JoinInv
  BY DEF SessionInit, CaptureInit, JoinInv
<1>2. JoinInv /\ [SessionNext]_sessionVars => JoinInv'
  BY JoinStep
<1>3. JoinInv => ContextOutlivesVideo
  BY DEF JoinInv, ContextOutlivesVideo
<1> QED
  BY <1>1, <1>2, <1>3, PTL DEF SessionSpec

-----------------------------------------------------------------------------
(* The configuration on the stack of start_session.                        *)

StaleInv ==
    /\ main = "returned" => shutdown
    /\ cpc \in {"dummy", "context"} => ~reinit
    /\ staleReads \in {0, 1}
    /\ staleReads = 1 => /\ shutdown /\ ~reinit
                         /\ cpc \in {"preset", "test", "release", "cleanup", "raise", "done",
                                    "crashed"}

\* A run that was started by a stale read is the last.
LEMMA StaleCapture ==
    ASSUME StaleInv, CaptureStep, shutdown => shutdown', main' = main,
           staleReads' = IF cpc = "context" /\ main = "returned" THEN staleReads + 1
                         ELSE staleReads
    PROVE  StaleInv'
<1> USE DEF StaleInv, At
<1>1. CASE StartRun \/ DummyImage
  BY <1>1 DEF StartRun, DummyImage, Abandon
<1>2. CASE MakeContext
  BY <1>2 DEF MakeContext, Abandon
<1>3. CASE Preset \/ TestShutdown \/ HandleCommand \/ DrainEnd \/ Report
  BY <1>3 DEF Preset, TestShutdown, HandleCommand, DrainEnd, Report
<1>4. CASE CaptureFrame \/ Convert \/ Encode \/ PushPacket \/ CountLoad \/ CountStore
  BY <1>4 DEF CaptureFrame, Convert, Encode, PushPacket, CountLoad, CountStore
<1>5. CASE Release \/ ReplaceDisplay \/ RaiseShutdown
  BY <1>5 DEF Release, ReplaceDisplay, RaiseShutdown
<1> QED
  BY <1>1, <1>2, <1>3, <1>4, <1>5 DEF CaptureStep

\* After start_session has returned the capture thread reads its configuration
\* once at most (screencoder_session.cpp:78 and :101).
THEOREM ConfigReadOnce == SessionSpec => []StaleConfigOnce
<1>1. SessionInit => StaleInv
  BY DEF SessionInit, CaptureInit, StaleInv
<1>2. ASSUME StaleInv, [SessionNext]_sessionVars PROVE StaleInv'
  <2>0. shutdown => shutdown'
    BY <1>2, ShutdownStays
  <2>1. CASE CaptureOther
    <3>1. main' = main
      BY <2>1 DEF CaptureOther, captureOthers, threads
    <3> QED
      BY <1>2, <2>0, <2>1, <3>1, StaleCapture DEF CaptureOther
  <2>2. CASE PresetFlag \/ PresetStream
    BY <1>2, <2>2 DEF PresetFlag, PresetStream, StaleInv, captureVars, captureOthers, format,
          threads
  <2>3. CASE PresetParameters
    BY <1>2, <2>0, <2>3
       DEF PresetParameters, Preset, history, At, StaleInv, captureOthers, format, threads
  <2>4. CASE Broadcast \/ Video \/ ListenRound \/ MainReturns \/ Stop \/ UNCHANGED sessionVars
    <3>1. UNCHANGED <<cpc, reinit, staleReads>>
      BY <2>4, OthersKeepFormat
    <3>2. main' = main \/ shutdown
      BY <2>4 DEF Broadcast, Video, StartPoll, NoStream, StartSink, BroadcastReturns, VideoTest,
            VideoPop, VideoCountStore, VideoHandle, VideoRaise, VideoJoin, ListenRound, MainReturns, Stop, sessionVars, threads
    <3> QED
      BY <1>2, <2>0, <3>1, <3>2 DEF StaleInv
  <2> QED
    BY <1>2, <2>1, <2>2, <2>3, <2>4 DEF SessionNext, Capture
<1>3. StaleInv => StaleConfigOnce
  BY DEF StaleInv, StaleConfigOnce
<1> QED
  BY <1>1, <1>2, <1>3, PTL DEF SessionSpec

-----------------------------------------------------------------------------
(* The sink's format, between two threads.                                 *)

\* before the sink is told the parameters of a run, or never to tell them
Beginning == {"start", "dummy", "context", "crashed"}

FormatInv ==
    /\ reinits \in Nat
    /\ reinits = 0 =>
          /\ reinit => cpc = "start"
          /\ cpc \in Beginning => ~preseted /\ preset = "flag" /\ streams = 0
          /\ cpc = "preset" =>
                /\ preset = "flag" => ~preseted /\ streams = 0
                /\ preset = "stream" => streams = 0
                /\ preset = "parameters" => streams = 1
          /\ cpc \notin Beginning \cup {"preset"} =>
                preset = "flag" /\ (preseted => streams = 1 /\ described = 1)
          /\ broadcast # "start" /\ ~overtook =>
                preseted /\ cpc \notin Beginning \cup {"preset"}

\* As long as no display was replaced the capture thread goes through its
\* beginning once.
LEMMA FormatCapture ==
    ASSUME FormatInv, CaptureStep, cpc # "preset",
           UNCHANGED <<broadcast, preset, preseted, streams, described, overtook>>
    PROVE  FormatInv'
<1> USE DEF FormatInv, At, Beginning
<1>1. CASE StartRun \/ DummyImage \/ MakeContext
  BY <1>1 DEF StartRun, DummyImage, MakeContext, Abandon, history
<1>2. CASE Preset \/ TestShutdown \/ HandleCommand \/ DrainEnd \/ Report
  BY <1>2 DEF Preset, TestShutdown, HandleCommand, DrainEnd, Report, history
<1>3. CASE CaptureFrame
  BY <1>3 DEF CaptureFrame
<1>4. CASE Convert \/ Encode \/ PushPacket \/ CountLoad \/ CountStore
  BY <1>4 DEF Convert, Encode, PushPacket, CountLoad, CountStore, history
<1>5. CASE Release \/ ReplaceDisplay \/ RaiseShutdown
  BY <1>5 DEF Release, ReplaceDisplay, RaiseShutdown, history
<1> QED
  BY <1>1, <1>2, <1>3, <1>4, <1>5 DEF CaptureStep

\* Nor do the steps of the broadcast thread, which look at the flag first,
\* break it.
LEMMA FormatBroadcast ==
    ASSUME FormatInv, Broadcast
    PROVE  FormatInv'
<1> USE DEF FormatInv, Beginning
<1>0. UNCHANGED <<cpc, reinit, reinits, preset, preseted, streams, described>>
  BY OthersKeepFormat
<1>1. CASE StartPoll
  <2>1. overtook' <=> preset # "flag"
    BY <1>1 DEF StartPoll
  <2>2. /\ broadcast = "start" /\ broadcast' = "header" /\ preseted
    BY <1>1 DEF StartPoll, BGoto
  <2> QED
    BY <1>0, <2>1, <2>2
<1>2. CASE NoStream \/ StartSink \/ BroadcastReturns
  <2>1. broadcast # "start" /\ overtook' = overtook
    BY <1>2 DEF NoStream, StartSink, BroadcastReturns, BGoto, sink
  <2> QED
    BY <1>0, <2>1
<1> QED
  BY <1>1, <1>2 DEF Broadcast

\* The two threads use the sink's format one after the other, and what the
\* header is written from is one complete stream, unless start overtakes preset or
\* the display is replaced (screencoder_rtp.cpp:36-40, :57-70).
THEOREM SinkIsReady == SessionSpec => []SinkReady
<1>1. SessionInit => FormatInv
  BY DEF SessionInit, CaptureInit, FormatInv, Beginning
<1>2. ASSUME FormatInv, [SessionNext]_sessionVars PROVE FormatInv'
  <2>1. CASE CaptureOther
    <3>1. UNCHANGED <<broadcast, preset, preseted, streams, described, overtook>>
      BY <2>1 DEF CaptureOther, captureOthers, threads, sink
    <3> QED
      BY <1>2, <2>1, <3>1, FormatCapture DEF CaptureOther
  <2>2. CASE PresetFlag
    BY <1>2, <2>2 DEF PresetFlag, FormatInv, Beginning, captureVars, captureOthers, format,
          threads
  <2>3. CASE PresetStream
    BY <1>2, <2>3 DEF PresetStream, FormatInv, Beginning, captureVars, captureOthers, format,
          threads
  <2>4. CASE PresetParameters
    BY <1>2, <2>4 DEF PresetParameters, Preset, history, At, FormatInv, Beginning,
          captureOthers, format, threads
  <2>5. CASE Broadcast
    BY <1>2, <2>5, FormatBroadcast
  <2>6. CASE Video \/ ListenRound \/ MainReturns \/ Stop \/ UNCHANGED sessionVars
    <3>1. UNCHANGED <<cpc, reinit, reinits, preset, preseted, streams, described>>
      BY <2>6, OthersKeepFormat
    <3>2. UNCHANGED <<broadcast, overtook>>
      BY <2>6 DEF Video, VideoTest, VideoPop, VideoCountStore, VideoHandle, VideoRaise, VideoJoin,
            ListenRound, MainReturns, Stop, sessionVars, threads, rest, sink
    <3> QED
      BY <1>2, <3>1, <3>2 DEF FormatInv
  <2> QED
    BY <1>2, <2>1, <2>2, <2>3, <2>4, <2>5, <2>6 DEF SessionNext, Capture
<1>3. FormatInv => SinkReady
  BY DEF FormatInv, SinkReady, Beginning
<1> QED
  BY <1>1, <1>2, <1>3, PTL DEF SessionSpec
=============================================================================
