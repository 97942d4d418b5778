-------------------------- MODULE ValidationProofs --------------------------
(***************************************************************************)
(* What is proved of Validation, for any calls and every driver.           *)
(***************************************************************************)
EXTENDS Validation, TLAPS

-----------------------------------------------------------------------------
(* What is found.                                                          *)

\* What the driver accepts of a display like the one judged last.
PlainFor(mode) == [mode |-> mode, cbr |-> FALSE, slices |-> 1] \in accepts
Plain == PlainFor(judged)
Cbr == [mode |-> judged, cbr |-> TRUE, slices |-> 1] \in accepts
Slices == [mode |-> judged, cbr |-> Cbr, slices |-> 2] \in accepts

\* The flags once the bit rate has been judged, and when all is done.
FoundCbr == {"PASSED"} \cup (IF Cbr THEN {"CBR"} ELSE {})
Found == IF ~Plain THEN {} ELSE FoundCbr \cup (IF Slices THEN {"SLICE"} ELSE {})

CaseSteps == Cases \X {"set"} \cup Cases \X {"test"}
Pauses == {<<"begin", "set">>, <<"done", "set">>, <<"yes", "set">>, <<"no", "set">>}

PcTypes ==
    /\ pc \in [Calls -> CaseSteps \cup Pauses]
    /\ DOMAIN disp = Calls /\ disp = [c \in Calls |-> disp[c]]

\* The flags while a call is at a step.
FlagsAt(at) ==
    /\ at = <<"passed", "set">>   => capabilities = {}
    /\ at = <<"passed", "test">>  => capabilities = {"PASSED"}
    /\ at = <<"cbr", "set">>      => Plain /\ capabilities = {"PASSED"}
    /\ at = <<"cbr", "test">>     => Plain /\ capabilities = {"PASSED", "CBR"}
    /\ at = <<"dynamic", "set">>  => Plain /\ capabilities = FoundCbr
    /\ at = <<"dynamic", "test">> => Plain /\ capabilities = FoundCbr \cup {"DYNAMIC_RANGE"}
    /\ at = <<"slice", "set">>    => Plain /\ capabilities = FoundCbr
    /\ at = <<"slice", "test">>   => Plain /\ capabilities = FoundCbr \cup {"SLICE"}

Quiet == \A c \in Calls : pc[c][1] \notin Cases

\* A call that sets the flags, or has yet to look at them.
Working == Cases \cup {"done"}

\* As long as no two calls overlap there is one of them at work, which knows
\* the flags and was the last to begin, or none, and they are what was found.
FoundInv ==
    /\ PcTypes
    /\ ~overlapped =>
         /\ \A c, d \in Calls : pc[c][1] \in Working /\ pc[d][1] \in Working => c = d
         /\ \A c \in Calls : pc[c][1] \in Working => disp[c] = judged
         /\ \A c \in Calls : FlagsAt(pc[c])
         /\ Quiet /\ (\E c \in Calls : pc[c][1] # "begin") => capabilities = Found
         /\ \A c \in Calls : pc[c][1] \in {"yes", "no"} => (pc[c][1] = "yes" <=> PlainFor(disp[c]))

\* What a test comes to.
LEMMA TestsWork ==
    /\ capabilities = {"PASSED"} => (Works(TestOf.passed, judged) <=> Plain)
    /\ capabilities = {"PASSED", "CBR"} => (Works(TestOf.cbr, judged) <=> Cbr)
    /\ ~Works(TestOf.dynamic, judged)
    /\ capabilities = FoundCbr \cup {"SLICE"} => (Works(TestOf.slice, judged) <=> Slices)
<1>1. ASSUME capabilities = {"PASSED"} PROVE Works(TestOf.passed, judged) <=> Plain
  <2>1. ("CBR" \in capabilities) = FALSE
    BY <1>1
  <2>2. Effective(TestOf.passed, judged) =
          [mode |-> judged, cbr |-> FALSE, slices |-> 1]
    BY <1>1, <2>1 DEF Effective, TestOf
  <2> QED
    BY <1>1, <2>2 DEF Works, TestOf, DeviceMade, Permitted, Plain, PlainFor
<1>2. ASSUME capabilities = {"PASSED", "CBR"} PROVE Works(TestOf.cbr, judged) <=> Cbr
  BY <1>2 DEF Works, TestOf, DeviceMade, Permitted, Effective, Cbr
<1>3. ~Works(TestOf.dynamic, judged)
  BY DEF Works, TestOf, DeviceMade
<1>4. ASSUME capabilities = FoundCbr \cup {"SLICE"} PROVE Works(TestOf.slice, judged) <=> Slices
  <2>1. "PASSED" \in capabilities /\ "SLICE" \in capabilities /\ ("CBR" \in capabilities <=> Cbr)
    BY <1>4 DEF FoundCbr
  <2>2. Effective(TestOf.slice, judged) =
          [mode |-> judged, cbr |-> Cbr, slices |-> 2]
    <3>1. ("CBR" \in capabilities) = Cbr
      BY <2>1 DEF Cbr
    <3> QED
      BY <2>1, <3>1 DEF Effective, TestOf
  <2> QED
    BY <2>1, <2>2 DEF Works, TestOf, DeviceMade, Permitted, Slices
<1> QED
  BY <1>1, <1>2, <1>3, <1>4

CasePCs == {"passed", "cbr", "dynamic", "slice"}

LEMMA CasesAre == Cases = CasePCs
BY DEF Cases, After, CasePCs

\* A call that is alone knows the flags: it moves on, or is done.
LEMMA AloneMoves ==
    ASSUME FoundInv, NEW c \in Calls, pc[c][1] \in Cases, NEW at \in CaseSteps \cup Pauses,
           pc' = [pc EXCEPT ![c] = at], UNCHANGED <<accepts, disp, judged, overlapped>>,
           at[1] \notin {"begin", "yes", "no"},
           ~overlapped => FlagsAt(at)' /\ (at[1] = "done" => capabilities' = Found)
    PROVE  FoundInv'
<1>1. PcTypes'
  BY DEF FoundInv, PcTypes
<1> SUFFICES ASSUME ~overlapped
             PROVE  /\ \A d, e \in Calls : pc'[d][1] \in Working /\ pc'[e][1] \in Working => d = e
                    /\ \A d \in Calls : pc'[d][1] \in Working => disp[d] = judged
                    /\ \A d \in Calls : FlagsAt(pc[d])'
                    /\ Quiet' /\ (\E d \in Calls : pc'[d][1] # "begin") => capabilities' = Found
                    /\ \A d \in Calls : pc'[d][1] \in {"yes", "no"} =>
                          (pc'[d][1] = "yes" <=> PlainFor(disp[d]))
  BY <1>1 DEF FoundInv, Plain, PlainFor, Found, FoundCbr, Slices, Cbr
<1>2. \A d \in Calls : pc'[d] = IF d = c THEN at ELSE pc[d]
  BY DEF FoundInv, PcTypes
<1>3. disp[c] = judged /\ \A d \in Calls \ {c} : pc[d][1] \notin Working
  BY DEF FoundInv, Working
<1>4. /\ \A d, e \in Calls : pc'[d][1] \in Working /\ pc'[e][1] \in Working => d = e
      /\ \A d \in Calls : pc'[d][1] \in Working => disp[d] = judged
  BY <1>2, <1>3
<1>5. \A d \in Calls : FlagsAt(pc[d])'
  <2>1. TAKE d \in Calls
  <2>2. CASE d = c
    BY <1>2, <2>2 DEF FlagsAt
  <2>3. CASE d # c
    BY <1>2, <1>3, <2>3, CasesAre DEF FlagsAt, CasePCs, Working
  <2> QED
    BY <2>2, <2>3
<1>6. Quiet' => capabilities' = Found
  <2> SUFFICES ASSUME Quiet' PROVE capabilities' = Found
    OBVIOUS
  <2>1. at[1] \notin Cases
    BY <1>2 DEF Quiet, Cases
  <2>2. at[1] = "done"
    BY <2>1, CasesAre DEF CaseSteps, Pauses, CasePCs
  <2> QED
    BY <2>2
<1>7. \A d \in Calls : pc'[d][1] \in {"yes", "no"} => (pc'[d][1] = "yes" <=> PlainFor(disp[d]))
  BY <1>2 DEF FoundInv
<1> QED
  BY <1>4, <1>5, <1>6, <1>7

\* Every step keeps what is known of the flags.
LEMMA FoundStep == FoundInv /\ [Next]_vvars => FoundInv'
<1> SUFFICES ASSUME FoundInv, [Next]_vvars PROVE FoundInv'
  OBVIOUS
<1>1. ASSUME UNCHANGED <<accepts, capabilities, pc, disp, judged>>, overlapped => overlapped'
      PROVE  FoundInv'
  BY <1>1 DEF FoundInv, PcTypes, FlagsAt, Quiet, Plain, PlainFor, Found, FoundCbr, Slices, Cbr
<1>2. ASSUME NEW c \in Calls, Reset(c) PROVE FoundInv'
  <2>0. PICK mode \in Modes : disp' = [disp EXCEPT ![c] = mode] /\ judged' = mode
    BY <1>2 DEF Reset
  <2>1. /\ pc' = [pc EXCEPT ![c] = <<"passed", "set">>]
        /\ capabilities' = {} /\ accepts' = accepts
        /\ ~overlapped' => ~overlapped /\ ~Busy(c) /\ ~Waiting(c)
    BY <1>2 DEF Reset
  <2>2. \A d \in Calls : /\ pc'[d] = IF d = c THEN <<"passed", "set">> ELSE pc[d]
                         /\ disp'[d] = IF d = c THEN mode ELSE disp[d]
    BY <2>0, <2>1 DEF FoundInv, PcTypes
  <2>3. PcTypes'
    <3>1. pc' \in [Calls -> CaseSteps \cup Pauses]
      BY <2>1, CasesAre DEF FoundInv, PcTypes, CaseSteps, CasePCs
    <3>2. DOMAIN disp' = Calls /\ disp' = [d \in Calls |-> disp'[d]]
      BY <2>0 DEF FoundInv, PcTypes
    <3> QED
      BY <3>1, <3>2 DEF PcTypes
  <2> SUFFICES ASSUME ~overlapped' PROVE FoundInv'
    BY <2>3 DEF FoundInv
  <2>4. ~overlapped /\ \A d \in Calls \ {c} : pc[d][1] \notin Working
    BY <2>1 DEF Busy, Waiting, Working
  <2>5. /\ \A d, e \in Calls : pc'[d][1] \in Working /\ pc'[e][1] \in Working => d = e
        /\ \A d \in Calls : pc'[d][1] \in Working => disp'[d] = judged'
    BY <2>0, <2>2, <2>4
  <2>6. \A d \in Calls : FlagsAt(pc[d])'
    BY <2>1, <2>2, <2>4, CasesAre DEF FlagsAt, CasePCs, Working
  <2>7. ~Quiet'
    BY <2>2, CasesAre DEF Quiet, CasePCs
  <2>8. \A d \in Calls : pc'[d][1] \in {"yes", "no"} =>
            (pc'[d][1] = "yes" <=> PlainFor(disp[d])')
    BY <2>1, <2>2, <2>4 DEF FoundInv, PlainFor
  <2> QED
    BY <2>3, <2>5, <2>6, <2>7, <2>8 DEF FoundInv
<1>3. ASSUME NEW c \in Calls, NEW case \in Cases, Assume(c, case) PROVE FoundInv'
  <2> DEFINE at == <<case, "test">>
  <2>1. /\ pc[c] = <<case, "set">> /\ pc' = [pc EXCEPT ![c] = at]
        /\ capabilities' = capabilities \cup {Flag[case]}
        /\ UNCHANGED <<accepts, disp, judged, overlapped>>
    BY <1>3 DEF Assume
  <2>2. at \in CaseSteps /\ at[1] \in Cases
    BY DEF CaseSteps
  <2>3. ASSUME ~overlapped PROVE FlagsAt(at)'
    <3>1. FlagsAt(<<case, "set">>)
      BY <2>1, <2>3 DEF FoundInv
    <3>2. Plain' = Plain /\ FoundCbr' = FoundCbr
      BY <2>1 DEF Plain, PlainFor, FoundCbr, Cbr
    <3>3. case \in CasePCs
      BY CasesAre
    <3> QED
      BY <2>1, <3>1, <3>2, <3>3 DEF FlagsAt, Flag, CasePCs
  <2>4. at[1] \notin {"begin", "yes", "no", "done"} /\ pc[c][1] \in Cases
    BY <2>1, <2>2, CasesAre DEF CasePCs
  <2> HIDE DEF at
  <2> QED
    BY <2>1, <2>2, <2>3, <2>4, AloneMoves
<1>4. ASSUME NEW c \in Calls, NEW case \in Cases, Judge(c, case) PROVE FoundInv'
  <2> DEFINE works == Works(TestOf[case], disp[c])
             next == IF ~works /\ case = "passed" THEN "done" ELSE After[case]
  <2>0. PICK at : at = <<next, "set">>
    OBVIOUS
  <2>1. /\ pc[c] = <<case, "test">> /\ pc' = [pc EXCEPT ![c] = at]
        /\ capabilities' = IF works THEN capabilities ELSE capabilities \ {Flag[case]}
        /\ UNCHANGED <<accepts, disp, judged, overlapped>>
    BY <1>4, <2>0 DEF Judge
  <2>2. case \in CasePCs
    BY CasesAre
  <2>3. next \in {"cbr", "dynamic", "slice", "done"}
    BY <2>2 DEF After, CasePCs
  <2>4. at \in CaseSteps \cup Pauses /\ at[1] \notin {"begin", "yes", "no"}
    BY <2>0, <2>3, CasesAre DEF CaseSteps, Pauses, CasePCs
  <2>5. Plain' = Plain /\ FoundCbr' = FoundCbr
    BY <2>1 DEF Plain, PlainFor, FoundCbr, Cbr
  <2>6. ASSUME ~overlapped PROVE FlagsAt(at)' /\ (at[1] = "done" => capabilities' = Found)
    <3>1. FlagsAt(<<case, "test">>) /\ disp[c] = judged
      BY <2>1, <2>6 DEF FoundInv, Working
    <3>2. CASE case = "passed"
      <4>1. capabilities = {"PASSED"} /\ (works <=> Plain)
        BY <3>1, <3>2, TestsWork DEF FlagsAt
      <4>2. CASE works
        BY <2>0, <2>1, <2>5, <3>2, <4>1, <4>2 DEF FlagsAt, After
      <4>3. CASE ~works
        <5>1. at = <<"done", "set">> /\ capabilities' = {}
          BY <2>0, <2>1, <3>2, <4>1, <4>3 DEF Flag
        <5> QED
          BY <4>1, <4>3, <5>1 DEF FlagsAt, Found
      <4> QED
        BY <4>2, <4>3
    <3>3. CASE case = "cbr"
      <4>1. Plain /\ capabilities = {"PASSED", "CBR"} /\ (works <=> Cbr)
        BY <3>1, <3>3, TestsWork DEF FlagsAt
      <4>2. capabilities' = FoundCbr
        BY <2>1, <3>3, <4>1 DEF FoundCbr, Flag
      <4> QED
        BY <2>0, <2>5, <3>3, <4>1, <4>2 DEF FlagsAt, After
    <3>4. CASE case = "dynamic"
      <4>1. Plain /\ capabilities = FoundCbr \cup {"DYNAMIC_RANGE"} /\ ~works
        BY <3>1, <3>4, TestsWork DEF FlagsAt
      <4>2. capabilities' = FoundCbr
        BY <2>1, <3>4, <4>1 DEF FoundCbr, Flag
      <4> QED
        BY <2>0, <2>5, <3>4, <4>1, <4>2 DEF FlagsAt, After
    <3>5. CASE case = "slice"
      <4>1. Plain /\ capabilities = FoundCbr \cup {"SLICE"} /\ (works <=> Slices)
        BY <3>1, <3>5, TestsWork DEF FlagsAt
      <4>2. capabilities' = Found
        BY <2>1, <3>5, <4>1 DEF Found, FoundCbr, Flag
      <4> QED
        BY <2>0, <3>5, <4>2 DEF FlagsAt, After
    <3> QED
      BY <2>2, <3>2, <3>3, <3>4, <3>5 DEF CasePCs
  <2>7. pc[c][1] \in Cases
    BY <2>1
  <2> HIDE DEF works, next
  <2> QED
    BY <2>1, <2>4, <2>6, <2>7, AloneMoves
<1>5. ASSUME NEW c \in Calls, Answer(c) PROVE FoundInv'
  <2> DEFINE answer == IF "PASSED" \in capabilities THEN "yes" ELSE "no"
             at == <<answer, "set">>
  <2>1. /\ pc[c] = <<"done", "set">> /\ pc' = [pc EXCEPT ![c] = at]
        /\ UNCHANGED <<accepts, capabilities, disp, judged>>
        /\ ~overlapped' => ~overlapped /\ ~Busy(c)
    BY <1>5 DEF Answer
  <2>2. answer \in {"yes", "no"}
    OBVIOUS
  <2>3. \A d \in Calls : pc'[d] = IF d = c THEN at ELSE pc[d]
    BY <2>1 DEF FoundInv, PcTypes
  <2>4. PcTypes'
    BY <2>1, <2>2 DEF FoundInv, PcTypes, Pauses
  <2> SUFFICES ASSUME ~overlapped' PROVE FoundInv'
    BY <2>4 DEF FoundInv
  <2>5. ~overlapped /\ \A d \in Calls : pc[d][1] \notin Cases
    BY <2>1, CasesAre DEF Busy, CasePCs
  <2>6. /\ capabilities = Found /\ disp[c] = judged
        /\ \A d \in Calls \ {c} : pc[d][1] \notin Working
    BY <2>1, <2>5 DEF FoundInv, Quiet, Working
  <2>7. "PASSED" \in capabilities <=> Plain
    BY <2>6 DEF Found, FoundCbr
  <2>8. Found' = Found
    BY <2>1 DEF Plain, PlainFor, Found, FoundCbr, Slices, Cbr
  <2>9. \A d \in Calls : pc'[d][1] \notin Cases
    BY <2>2, <2>3, <2>5, CasesAre DEF CasePCs
  <2>10. \A d \in Calls : FlagsAt(pc[d])'
    BY <2>9, CasesAre DEF FlagsAt, CasePCs
  <2>11. \A d \in Calls : pc'[d][1] \in {"yes", "no"} =>
             (pc'[d][1] = "yes" <=> PlainFor(disp[d])')
    <3> TAKE d \in Calls
    <3>1. PlainFor(disp[d])' <=> PlainFor(disp[d])
      BY <2>1 DEF PlainFor
    <3>2. CASE d = c
      <4>1. PlainFor(disp[d]) <=> "PASSED" \in capabilities
        BY <2>6, <2>7, <3>2 DEF Plain
      <4>2. pc'[d][1] = answer
        BY <2>3, <3>2
      <4> QED
        BY <3>1, <4>1, <4>2
    <3>3. CASE d # c
      <4>1. pc'[d] = pc[d]
        BY <2>3, <3>3
      <4> QED
        BY <2>5, <3>1, <4>1 DEF FoundInv
    <3> QED
      BY <3>2, <3>3
  <2>12. \A d \in Calls : pc'[d][1] \notin Working
    BY <2>2, <2>3, <2>6, <2>9 DEF Working
  <2> HIDE DEF answer, at
  <2> QED
    BY <2>1, <2>4, <2>6, <2>8, <2>10, <2>11, <2>12 DEF FoundInv
<1>6. ASSUME NEW c \in Calls, Open(c) PROVE FoundInv'
  BY <1>1, <1>6 DEF Open
<1>7. CASE UNCHANGED vvars
  BY <1>1, <1>7 DEF vvars
<1> QED
  BY <1>2, <1>3, <1>4, <1>5, <1>6, <1>7
     DEF Next, QueryEncoder, StartScreencodeThread, Validate

LEMMA FoundFirst == Init => FoundInv
<1> SUFFICES ASSUME Init PROVE FoundInv
  OBVIOUS
<1>1. \A c \in Calls : pc[c] = <<"begin", "set">>
  BY DEF Init
<1>2. PcTypes
  BY DEF Init, PcTypes, Pauses
<1>3. \A c \in Calls : pc[c][1] = "begin" /\ pc[c][1] \notin Working
  BY <1>1, CasesAre DEF Working, CasePCs
<1>4. \A c \in Calls : FlagsAt(pc[c])
  BY <1>1 DEF FlagsAt
<1> QED
  BY <1>2, <1>3, <1>4 DEF FoundInv, Quiet

-----------------------------------------------------------------------------
(* The theorems.                                                           *)

\* Unless calls overlap, what is found is the truth about the driver and the
\* first display (encoder_device.cpp:107-156).
THEOREM FindsTheTruth == Spec => []FoundRight
<1>1. FoundInv => FoundRight
  BY DEF FoundInv, FoundRight, Quiet, Found, FoundCbr, Plain, PlainFor, Cbr, Slices
<1> QED
  BY <1>1, FoundFirst, FoundStep, PTL DEF Spec

WorksInv == OpensWhatWorks /\ accepts \subseteq Params

\* A context of the display that was judged is opened with what one of the
\* cases was tried with.
LEMMA WorksStep == FoundInv /\ WorksInv /\ [Next]_vvars => WorksInv'
<1> SUFFICES ASSUME FoundInv, WorksInv, [Next]_vvars PROVE WorksInv'
  OBVIOUS
<1>1. ASSUME UNCHANGED <<accepts, opened>>, overlapped => overlapped' PROVE WorksInv'
  BY <1>1 DEF WorksInv, OpensWhatWorks
<1>2. ASSUME NEW c \in Calls, Open(c) PROVE WorksInv'
  <2>1. /\ c \in Starts /\ pc[c][1] = "yes" /\ UNCHANGED accepts
        /\ ~overlapped' => ~overlapped /\ ~Busy(c)
    BY <1>2 DEF Open
  <2>0. PICK mode \in Modes :
            opened' = IF Permitted(SessionConfig)
                      THEN opened \cup {<<Effective(SessionConfig, mode), judged>>} ELSE opened
    BY <1>2 DEF Open
  <2> SUFFICES ASSUME ~overlapped', Permitted(SessionConfig),
                      Effective(SessionConfig, mode).mode = judged
               PROVE  Effective(SessionConfig, mode) \in accepts
    <3> DEFINE new == <<Effective(SessionConfig, mode), judged>>
    <3>1. /\ opened' \subseteq opened \cup {new} /\ (overlapped => overlapped')
          /\ opened' \subseteq opened \/ Permitted(SessionConfig)
      BY <1>2, <2>0 DEF Open
    <3>2. new[1] = Effective(SessionConfig, mode) /\ new[2] = judged
      OBVIOUS
    <3> HIDE DEF new
    <3> QED
      BY <2>1, <3>1, <3>2 DEF WorksInv, OpensWhatWorks
  <2>2. Quiet /\ ~overlapped
    BY <2>1, CasesAre DEF Busy, Quiet, CasePCs
  <2>3. capabilities = Found /\ Plain
    <3>1. capabilities = Found
      BY <2>1, <2>2 DEF FoundInv
    <3> QED
      BY <3>1 DEF Permitted, Found
  <2>4. /\ "CBR" \in capabilities <=> Cbr
        /\ "SLICE" \in capabilities <=> Slices
    BY <2>3 DEF Found, FoundCbr
  <2>5. ("CBR" \in capabilities) = Cbr
    BY <2>4 DEF Cbr
  <2>6. Effective(SessionConfig, mode) =
          [mode |-> judged, cbr |-> Cbr, slices |-> IF Slices THEN 2 ELSE 1]
    BY <2>4, <2>5 DEF Effective, SessionConfig
  <2>7. CASE Slices
    BY <2>6, <2>7 DEF Slices
  <2>8. CASE ~Slices /\ Cbr
    <3>1. Cbr = TRUE
      BY <2>8 DEF Cbr
    <3> QED
      BY <2>6, <2>8, <3>1 DEF Cbr
  <2>9. CASE ~Slices /\ ~Cbr
    <3>1. Cbr = FALSE
      BY <2>9 DEF Cbr
    <3> QED
      BY <2>3, <2>6, <2>9, <3>1 DEF Plain, PlainFor
  <2> QED
    BY <2>7, <2>8, <2>9
<1>3. ASSUME NEW c \in Calls, Validate(c) \/ Answer(c) PROVE WorksInv'
  <2>1. CASE Reset(c) \/ Answer(c)
    BY <1>1, <2>1 DEF Reset, Answer
  <2>2. ASSUME NEW case \in Cases, Assume(c, case) \/ Judge(c, case) PROVE WorksInv'
    BY <1>1, <2>2 DEF Assume, Judge
  <2> QED
    BY <1>3, <2>1, <2>2 DEF Validate
<1>4. CASE UNCHANGED vvars
  BY <1>1, <1>4 DEF vvars
<1> QED
  BY <1>2, <1>3, <1>4 DEF Next, QueryEncoder, StartScreencodeThread

\* Unless calls overlap, a session whose display is as the one last judged never
\* opens its encoder with parameters the driver refuses
\* (encoder_device.cpp:107-156, encoder_session.cpp:136-139, :215-233).
THEOREM SessionsOpenWhatWorks == Spec => []OpensWhatWorks
<1>1. Init => WorksInv
  BY DEF Init, WorksInv, OpensWhatWorks
<1>2. WorksInv => OpensWhatWorks
  BY DEF WorksInv
<1> QED
  BY <1>1, <1>2, FoundFirst, FoundStep, WorksStep, PTL DEF Spec
=============================================================================
