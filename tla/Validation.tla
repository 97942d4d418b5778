----------------------------- MODULE Validation -----------------------------
(***************************************************************************)
(* Finding out what an encoder can do (validate_encoder and                *)
(* validate_config of src/encode/encoder/encoder_device.cpp), and the      *)
(* parameters a context is opened with given what was found                *)
(* (make_encode_context of src/encode/encoder_session.cpp).                *)
(*                                                                         *)
(* The capabilities live in the one static CodecConfig of a codec, and are *)
(* found anew by every NVENC(...) or AMD(...), which QueryEncoder and      *)
(* StartScreencodeThread of src/sink/appsink/app_sink.cpp call first.  A   *)
(* session opens a context again for every new display.                    *)
(*                                                                         *)
(* The cases are tried with the size and the frame rate the first display  *)
(* has at the time.  A session opens its contexts with those of its own    *)
(* display, which is made anew, and may have changed, every time.  A frame *)
(* encoded with ENCODER_NEED_MORE_FRAME is tried again until the encoder   *)
(* answers.                                                                *)
(***************************************************************************)
EXTENDS Integers

CONSTANTS Queries,      \* the calls of QueryEncoder
          Starts,       \* the calls of StartScreencodeThread
          Modes,        \* what a display can be: its width, height and frame rate
          MaxOpens      \* BOUND: contexts a session opens

ASSUME ValidationAssumption == Queries \cap Starts = {} /\ MaxOpens \in Nat

Calls == Queries \cup Starts

FrameFlags == {"PASSED", "SLICE", "CBR", "DYNAMIC_RANGE"}

\* What the driver sees: size and frame rate, constant bit rate or constant
\* quantizer, and the slices of a frame.
Params == [mode : Modes, cbr : BOOLEAN, slices : 1 .. 2]

\* encoder::Config, as far as it reaches the driver
Configs == [hdr : BOOLEAN, slices : 1 .. 2]
SessionConfig == [hdr |-> FALSE, slices |-> 2]

VARIABLES
    accepts,        \* the parameters the driver accepts
    capabilities,   \* codec_config->capabilities, a bitset
    pc,             \* the case each call is at, and its step
    disp,           \* the mode of the display each call validates with
    judged,         \* HISTORY: that of the call that last began to set the flags
    opened,         \* HISTORY: the parameters of the sessions' contexts, with judged
    opens,          \* HISTORY: how often each session tried
    overlapped      \* HISTORY: the flags were used by a call or a session while another
                    \* call was changing them

vvars == <<accepts, capabilities, pc, disp, judged, opened, opens, overlapped>>

-----------------------------------------------------------------------------
\* MUTANT of Effective: the slices of the config are used whatever was found
EffectiveAnySlices(config, mode) ==
    [mode |-> mode, cbr |-> "CBR" \in capabilities, slices |-> config.slices]

\* make_encode_context: what a config and a display's mode become under the
\* capabilities
Effective(config, mode) ==
    [mode |-> mode, cbr |-> "CBR" \in capabilities,
     slices |-> IF "SLICE" \in capabilities THEN config.slices ELSE 1]

\* the two tests at its head
Permitted(config) == "PASSED" \in capabilities /\ (config.hdr => "DYNAMIC_RANGE" \in capabilities)

\* map_pix_fmt and make_hwdevice: a high dynamic range asks for P010, and the
\* display makes a device for NV12 only
DeviceMade(config) == ~config.hdr

\* validate_config: a device is made, a context opened and a frame encoded
Works(config, mode) ==
    DeviceMade(config) /\ Permitted(config) /\ Effective(config, mode) \in accepts

Flag == [passed |-> "PASSED", cbr |-> "CBR", dynamic |-> "DYNAMIC_RANGE", slice |-> "SLICE"]
TestOf == [passed  |-> [hdr |-> FALSE, slices |-> 1],
           cbr     |-> [hdr |-> FALSE, slices |-> 1],
           dynamic |-> [hdr |-> TRUE,  slices |-> 1],
           slice   |-> [hdr |-> FALSE, slices |-> 2]]
After == [passed |-> "cbr", cbr |-> "dynamic", dynamic |-> "slice", slice |-> "done"]
Cases == DOMAIN After

\* another call is in validate_encoder
Busy(c) == \E d \in Calls \ {c} : pc[d][1] \in Cases

\* another call has yet to look at what it found
Waiting(c) == \E d \in Calls \ {c} : pc[d][1] = "done"

\* NVENC(...) or AMD(...) take the codec's configuration and validate it.
\* capabilities.set().flip(): no capability is met.  get_display_by_name(NULL)
\* makes the first display as it is now.
Reset(c) ==
    /\ pc[c] = <<"begin", "set">>
    /\ pc' = [pc EXCEPT ![c] = <<"passed", "set">>]
    /\ capabilities' = {}
    /\ \E mode \in Modes : disp' = [disp EXCEPT ![c] = mode] /\ judged' = mode
    /\ overlapped' = (overlapped \/ Busy(c) \/ Waiting(c))
    /\ UNCHANGED <<accepts, opened, opens>>

\* a case sets its flag ...
Assume(c, case) ==
    /\ pc[c] = <<case, "set">>
    /\ pc' = [pc EXCEPT ![c] = <<case, "test">>]
    /\ capabilities' = capabilities \cup {Flag[case]}
    /\ UNCHANGED <<accepts, disp, judged, opened, opens, overlapped>>

\* MUTANT of Judge: a flag stays set when its case fails
JudgeKeeps(c, case) ==
    /\ pc[c] = <<case, "test">>
    /\ LET stops == ~Works(TestOf[case], disp[c]) /\ case = "passed"
       IN  /\ pc' = [pc EXCEPT ![c] = <<IF stops THEN "done" ELSE After[case], "set">>]
           /\ capabilities' = IF stops THEN {} ELSE capabilities
    /\ UNCHANGED <<accepts, disp, judged, opened, opens, overlapped>>

\* ... and keeps it if the encoder works with it; without the first nothing
\* else is tried
Judge(c, case) ==
    /\ pc[c] = <<case, "test">>
    /\ LET works == Works(TestOf[case], disp[c])
           next == IF ~works /\ case = "passed" THEN "done" ELSE After[case]
       IN  /\ capabilities' = IF works THEN capabilities ELSE capabilities \ {Flag[case]}
           /\ pc' = [pc EXCEPT ![c] = <<next, "set">>]
    /\ UNCHANGED <<accepts, disp, judged, opened, opens, overlapped>>

Validate(c) == Reset(c) \/ \E case \in Cases : Assume(c, case) \/ Judge(c, case)

\* the call looks at PASSED
Answer(c) ==
    /\ pc[c] = <<"done", "set">>
    /\ pc' = [pc EXCEPT ![c] = <<IF "PASSED" \in capabilities THEN "yes" ELSE "no", "set">>]
    /\ overlapped' = (overlapped \/ Busy(c))
    /\ UNCHANGED <<accepts, capabilities, disp, judged, opened, opens>>

\* QueryEncoder returns it
QueryEncoder(c) == c \in Queries /\ (Validate(c) \/ Answer(c))

\* StartScreencodeThread returns without a session, or starts one
StartScreencodeThread(c) == c \in Starts /\ (Validate(c) \/ Answer(c))

\* the session makes its display, as it is now, and opens a context with its
\* mode and the session's config, or is refused
Open(c) ==
    /\ c \in Starts /\ pc[c][1] = "yes" /\ opens[c] < MaxOpens
    /\ opens' = [opens EXCEPT ![c] = @ + 1]
    /\ \E mode \in Modes :
           opened' = IF Permitted(SessionConfig)
                     THEN opened \cup {<<Effective(SessionConfig, mode), judged>>} ELSE opened
    /\ overlapped' = (overlapped \/ Busy(c))
    /\ UNCHANGED <<accepts, capabilities, pc, disp, judged>>

Init ==
    /\ accepts \in SUBSET Params
    /\ capabilities = {}
    /\ pc = [c \in Calls |-> <<"begin", "set">>]
    /\ disp = [c \in Calls |-> "none"] /\ judged = "none"
    /\ opened = {} /\ opens = [c \in Starts |-> 0] /\ overlapped = FALSE

Next == \E c \in Calls : QueryEncoder(c) \/ StartScreencodeThread(c) \/ Open(c)

Spec == Init /\ [][Next]_vvars

-----------------------------------------------------------------------------
(* Properties.                                                             *)

\* Unless threads validate the codec at the same time, a session never opens
\* its encoder with parameters the driver refuses as long as its display has
\* the size and the frame rate the codec was last validated with, whatever
\* combinations the driver accepts and however often the codec is validated
\* again: what its own config becomes under the capabilities finally found is
\* what one of the cases tried under the capabilities found until then
\* (encoder_device.cpp:122-156, encoder_session.cpp:136-139, :215-233,
\* screencoder_session.cpp:61).  A display of any other mode can have a context
\* opened that the driver refuses: the first display is asked about
\* (encoder_device.cpp:107), the session's own is used (app_sink.cpp:227).
OpensWhatWorks == ~overlapped =>
    \A context \in opened : context[1].mode = context[2] => context[1] \in accepts

\* Unless threads validate at the same time, what is found is the truth about
\* the driver and the mode the first display had: the encoder is rejected only
\* if the plainest parameters do not work, the slices are judged together with
\* the bit rate mode found before, and no driver makes the dynamic range pass,
\* as the display has no device for its pixel format (encoder_device.cpp:109-156,
\* display_vram.cpp:447).  Every call answers for the mode it saw, and the flags
\* left behind are those of the last, however the calls follow one another
\* (app_sink.cpp:198, :222).
FoundRight == ~overlapped =>
    LET plain(mode) == [mode |-> mode, cbr |-> FALSE, slices |-> 1] \in accepts
        cbr == [mode |-> judged, cbr |-> TRUE, slices |-> 1] \in accepts
        slices == [mode |-> judged, cbr |-> cbr, slices |-> 2] \in accepts
    IN  /\ \A c \in Calls : pc[c][1] \in {"yes", "no"} => (pc[c][1] = "yes" <=> plain(disp[c]))
        /\ (\E c \in Calls : pc[c][1] # "begin") /\ (\A c \in Calls : pc[c][1] \notin Cases) =>
               capabilities = IF ~plain(judged) THEN {}
                              ELSE {"PASSED"} \cup (IF cbr THEN {"CBR"} ELSE {})
                                              \cup (IF slices THEN {"SLICE"} ELSE {})
=============================================================================
