---------------------------- MODULE DisplayProofs ----------------------------
(***************************************************************************)
(* What is proved of Display, for any surfaces, any number of updates and  *)
(* displays, and every answer of the system.                               *)
(***************************************************************************)
EXTENDS Display, TLAPS

-----------------------------------------------------------------------------
(* The flag.                                                               *)

FlagTypes == hasFrame \in BOOLEAN /\ lost \in BOOLEAN /\ held \in Surfaces \cup {NoSurface}

FlagInv == FlagTypes /\ FrameFlagAgrees

\* A release, whatever the system answers, leaves flag and system in agreement.
LEMMA ReleaseAgrees ==
    ASSUME FlagInv, NEW result, ReleaseFrame(result), UNCHANGED lost
    PROVE  FlagInv'
<1>1. CASE ~hasFrame
  BY <1>1 DEF FlagInv, FlagTypes, FrameFlagAgrees, ReleaseFrame
<1>2. CASE hasFrame
  <2>1. PICK status \in ReleaseStatus : /\ hasFrame' = (status \notin {"OK", "LOST"})
                                        /\ held' = IF status = "OK" THEN NoSurface ELSE held
    BY <1>2 DEF ReleaseFrame
  <2>2. FlagTypes'
    BY <2>1 DEF FlagInv, FlagTypes
  <2>3. CASE status = "OK"
    BY <2>1, <2>2, <2>3 DEF FlagInv, FrameFlagAgrees
  <2>4. CASE status = "LOST"
    BY <2>1, <2>2, <2>4 DEF FlagInv, FrameFlagAgrees, ReleaseStatus
  <2>5. CASE status \notin {"OK", "LOST"}
    BY <1>2, <2>1, <2>2, <2>5 DEF FlagInv, FrameFlagAgrees
  <2> QED
    BY <2>3, <2>4, <2>5
<1> QED
  BY <1>1, <1>2 DEF FlagInv, FlagTypes

\* Every step keeps the agreement.
LEMMA FlagStep == FlagInv /\ [DisplayNext]_displayVars => FlagInv'
<1> SUFFICES ASSUME FlagInv, [DisplayNext]_displayVars PROVE FlagInv'
  OBVIOUS
<1>1. ASSUME UNCHANGED <<hasFrame, held, lost>> PROVE FlagInv'
  BY <1>1 DEF FlagInv, FlagTypes, FrameFlagAgrees
<1>2. CASE ReleaseLast
  BY <1>2, ReleaseAgrees DEF ReleaseLast
<1>3. CASE Settle
  BY <1>3, ReleaseAgrees DEF Settle
<1>4. CASE FreeResources
  BY <1>4, ReleaseAgrees DEF FreeResources
<1>5. CASE Acquire
  <2>1. PICK status \in AcquireStatus :
            /\ hasFrame' = (status = "OK" \/ (hasFrame /\ status # "LOST"))
            /\ IF status = "OK" THEN Acquired ELSE UNCHANGED <<update, res, texRefs, taken, held>>
            /\ UNCHANGED lost
    BY <1>5 DEF Acquire
  <2>2. CASE status = "OK"
    <3>1. held' \in Surfaces /\ hasFrame' = TRUE
      BY <2>1, <2>2 DEF Acquired
    <3> QED
      BY <2>1, <3>1, DisplayAssumption DEF FlagInv, FlagTypes, FrameFlagAgrees
  <2>3. CASE status = "LOST"
    <3>1. lost /\ hasFrame' = FALSE /\ held' = held
      BY <2>1, <2>3 DEF AcquireStatus
    <3> QED
      BY <2>1, <3>1 DEF FlagInv, FlagTypes, FrameFlagAgrees
  <2>4. CASE status \notin {"OK", "LOST"}
    <3>1. held' = held
      BY <2>1, <2>4
    <3>2. hasFrame \in BOOLEAN
      BY DEF FlagInv, FlagTypes
    <3>3. hasFrame' = hasFrame
      BY <2>1, <2>4, <3>2
    <3> QED
      BY <2>1, <3>1, <3>3, <1>1
  <2> QED
    BY <2>2, <2>3, <2>4
<1>6. CASE Replace
  BY <1>6 DEF Replace, FlagInv, FlagTypes, FrameFlagAgrees
<1>7. CASE LoseAccess
  BY <1>7 DEF LoseAccess, frameVars, FlagInv, FlagTypes, FrameFlagAgrees
<1>8. CASE \/ Query \/ Copy \/ Captured \/ Convert \/ Encode \/ AllocImage \/ MakeContext
           \/ ContextFails \/ Loop \/ Teardown \/ ReplaceFails \/ Present \/ Shutdown
  BY <1>8, <1>1 DEF Query, Copy, Captured, Convert, Encode, AllocImage, MakeContext,
     ContextFails, Loop, Teardown, ReplaceFails, Present, Shutdown, frameVars, driver
<1>9. CASE UNCHANGED displayVars
  BY <1>9, <1>1 DEF displayVars, frameVars, driver
<1> QED
  BY <1>2, <1>3, <1>4, <1>5, <1>6, <1>7, <1>8, <1>9 DEF DisplayNext, Capture, Life, Environment

\* has_frame agrees with the system as long as the access lasts, whatever it
\* answers (duplication.cpp:23-78).
THEOREM FlagStaysRight == DisplaySpec => []FrameFlagAgrees
<1>1. DisplayInit => FlagInv
  BY DEF DisplayInit, FlagInv, FlagTypes, FrameFlagAgrees
<1>2. FlagInv => FrameFlagAgrees
  BY DEF FlagInv
<1> QED
  BY <1>1, <1>2, FlagStep, PTL DEF DisplaySpec

-----------------------------------------------------------------------------
(* The texture that is copied from.                                        *)

SourceTypes == /\ {src, res} \subseteq Surfaces \cup {NoSurface}
               /\ texRefs \in [Surfaces -> Nat]

\* Between two displays the texture has been released and is still pointed to.
SourceInv == /\ SourceTypes
             /\ src # NoSurface /\ dpc \notin {"replace", "ended"} => texRefs[src] > 0

\* Every step keeps a reference to the texture.
LEMMA SourceStep == SourceInv /\ [DisplayNext]_displayVars => SourceInv'
<1> SUFFICES ASSUME SourceInv, [DisplayNext]_displayVars PROVE SourceInv'
  OBVIOUS
<1> USE DEF SourceInv, SourceTypes
<1>1. ASSUME UNCHANGED <<src, texRefs>>, res' \in {res, NoSurface},
             dpc \notin {"replace", "ended"} \/ dpc' = dpc
      PROVE  SourceInv'
  BY <1>1
<1>2. CASE Acquire
  <2>1. PICK status \in AcquireStatus :
            /\ dpc = "acquire"
            /\ IF status = "OK" THEN Acquired ELSE UNCHANGED <<update, res, texRefs, taken, held>>
            /\ UNCHANGED src
    BY <1>2 DEF Acquire, Step
  <2>2. CASE status = "OK"
    <3>1. PICK s \in Surfaces : res' = s /\ texRefs' = [texRefs EXCEPT ![s] = @ + 1]
      BY <2>1, <2>2 DEF Acquired
    <3> QED
      BY <2>1, <3>1
  <2>3. CASE status # "OK"
    BY <2>1, <2>3, <1>1
  <2> QED
    BY <2>2, <2>3
<1>3. CASE Query
  <2>1. CASE UNCHANGED <<src, texRefs>>
    BY <1>3, <2>1, <1>1 DEF Query
  <2>2. CASE src' = res /\ texRefs' = [texRefs EXCEPT ![res] = @ + 1]
    <3>1. CASE res \in Surfaces
      <4>1. texRefs' \in [Surfaces -> Nat] /\ texRefs'[res] > 0
        BY <2>2, <3>1
      <4> QED
        BY <1>3, <2>2, <3>1, <4>1 DEF Query
    <3>2. CASE res = NoSurface
      <4>1. src' = NoSurface /\ texRefs' = texRefs
        BY <2>2, <3>2, DisplayAssumption
      <4> QED
        BY <1>3, <4>1 DEF Query
    <3> QED
      BY <3>1, <3>2
  <2> QED
    BY <1>3, <2>1, <2>2 DEF Query
<1>4. CASE FreeResources
  <2>1. /\ texRefs' = [s \in Surfaces |-> IF s = src THEN texRefs[s] - 1 ELSE texRefs[s]]
        /\ src' = src /\ res' = res /\ dpc = "free" /\ dpc' = "replace"
    BY <1>4 DEF FreeResources, Step
  <2>2. ASSUME NEW s \in Surfaces
        PROVE  (IF s = src THEN texRefs[s] - 1 ELSE texRefs[s]) \in Nat
    <3>1. texRefs[s] \in Nat
      OBVIOUS
    <3>2. s = src => texRefs[s] > 0
      BY <2>1, DisplayAssumption
    <3> QED
      BY <3>1, <3>2
  <2>3. texRefs' \in [Surfaces -> Nat]
    BY <2>1, <2>2
  <2> QED
    BY <2>1, <2>3
<1>5. CASE Replace
  BY <1>5 DEF Replace
<1>6. CASE ReplaceFails
  BY <1>6 DEF ReplaceFails, Step, frameVars
<1>7. CASE \/ ReleaseLast \/ Settle \/ Copy \/ Captured \/ Convert \/ Encode
           \/ AllocImage \/ MakeContext \/ ContextFails \/ Loop \/ Teardown
  BY <1>7, <1>1 DEF ReleaseLast, Settle, Copy, Captured, Convert, Encode, AllocImage,
     MakeContext, ContextFails, Loop, Teardown, Step, frameVars
<1>8. CASE Environment
  BY <1>8, <1>1 DEF Environment, Present, LoseAccess, Shutdown, frameVars
<1>9. CASE UNCHANGED displayVars
  BY <1>9, <1>1 DEF displayVars, frameVars
<1> QED
  BY <1>2, <1>3, <1>4, <1>5, <1>6, <1>7, <1>8, <1>9 DEF DisplayNext, Capture, Life

\* The texture that capture copies from, and that free_resources releases, is
\* referenced by the program (display_vram.cpp:181-189, 276).
THEOREM SourceStaysAlive == DisplaySpec => []SourceAlive
<1>1. DisplayInit => SourceInv
  BY DEF DisplayInit, SourceInv, SourceTypes
<1>2. SourceInv => SourceAlive
  BY DEF SourceInv, SourceAlive
<1> QED
  BY <1>1, <1>2, SourceStep, PTL DEF DisplaySpec

-----------------------------------------------------------------------------
(* The picture that is encoded.                                            *)

Drawn == \A plane \in DOMAIN target : target[plane] \in Nat

PictureTypes == /\ {shown, taken} \subseteq Nat
                /\ Drawn
                /\ newest \in Nat
                /\ content \in [Surfaces -> Nat]
                /\ \A s \in Surfaces : content[s] <= newest

\* What may be copied is the last frame that was taken, or newer.
Covers(s) == \/ s = NoSurface /\ taken = 0
             \/ s \in Surfaces /\ taken <= content[s]

\* From where the frame is acquired to where its texture is asked for, the resource is what
\* covers it, the texture otherwise; when the capture fails nothing is encoded any more.
CoverInv ==
    /\ dpc \in {"start", "context", "loop", "release", "acquire", "copy", "convert", "encode"}
           => Covers(src)
    /\ dpc \in {"settle", "query"}
           => IF answer = "OK" /\ update = "frame" THEN Covers(res) ELSE Covers(src)
    /\ dpc = "query" => answer = "OK"
    /\ dpc = "captured" /\ answer \in {"OK", "TIMEOUT"} => Covers(src)

PassedInv ==
    /\ dpc = "captured" /\ answer = "OK" => taken <= shown
    /\ dpc = "convert" => taken <= shown
    /\ dpc = "encode" => \A plane \in DOMAIN target : taken <= target[plane]

TakenInv == PictureTypes /\ CoverInv /\ PassedInv

\* Surfaces are only ever overwritten with newer pictures.
LEMMA PictureStep ==
    SourceTypes /\ PictureTypes /\ [DisplayNext]_displayVars
        => /\ PictureTypes'
           /\ dpc # "replace" => \A s \in Surfaces : content'[s] >= content[s]
<1> SUFFICES ASSUME SourceTypes, PictureTypes, [DisplayNext]_displayVars
             PROVE  /\ PictureTypes'
                    /\ dpc # "replace" => \A s \in Surfaces : content'[s] >= content[s]
  OBVIOUS
<1> USE DEF PictureTypes
<1>1. ASSUME UNCHANGED <<newest, content>>, {shown', taken'} \subseteq Nat, Drawn'
      PROVE  /\ PictureTypes'
             /\ \A s \in Surfaces : content'[s] >= content[s]
  BY <1>1
<1>2. CASE Acquire
  <2>1. UNCHANGED <<newest, content, shown, target>>
    BY <1>2 DEF Acquire
  <2>2. taken' \in Nat
    BY <1>2 DEF Acquire, Acquired
  <2> QED
    BY <1>1, <2>1, <2>2 DEF Drawn
<1>3. CASE Copy
  <2>1. /\ shown' = IF src = NoSurface THEN shown ELSE content[src]
        /\ UNCHANGED <<newest, content, target, taken>>
    BY <1>3 DEF Copy, driver
  <2>2. shown' \in Nat
    BY <2>1 DEF SourceTypes
  <2> QED
    BY <1>1, <2>1, <2>2 DEF Drawn
<1>4. CASE Replace
  BY <1>4 DEF Replace, Step, Drawn
<1>5. CASE Present
  <2>1. PICK s \in Surfaces : /\ newest' = newest + 1
                              /\ content' = [content EXCEPT ![s] = newest + 1]
                              /\ UNCHANGED <<shown, target, taken>>
    BY <1>5 DEF Present, frameVars
  <2> QED
    BY <2>1 DEF Drawn
<1>6. CASE \/ ReleaseLast \/ Settle \/ Query \/ Captured \/ Encode \/ ContextFails \/ Loop
           \/ Teardown \/ FreeResources \/ ReplaceFails \/ LoseAccess \/ Shutdown
  <2>1. UNCHANGED <<newest, content, shown, target, taken>>
    BY <1>6 DEF ReleaseLast, Settle, Query, Captured, Encode, ContextFails, Loop, Teardown,
       FreeResources, ReplaceFails, LoseAccess, Shutdown, frameVars, driver
  <2> QED
    BY <1>1, <2>1 DEF Drawn
<1>8. CASE AllocImage \/ MakeContext \/ Convert
  <2>1. UNCHANGED <<newest, content, taken>> /\ shown' \in {shown, 0}
    BY <1>8 DEF AllocImage, MakeContext, Convert, driver
  <2>2. Drawn'
    BY <1>8 DEF AllocImage, MakeContext, Convert, SetFrame, Drawn
  <2> QED
    BY <1>1, <2>1, <2>2
<1>7. CASE UNCHANGED displayVars
  BY <1>7, <1>1 DEF displayVars, frameVars, driver, Drawn
<1> QED
  BY <1>2, <1>3, <1>4, <1>5, <1>6, <1>7, <1>8 DEF DisplayNext, Capture, Life, Environment

\* Every step keeps the picture.
LEMMA TakenStep == SourceInv /\ TakenInv /\ [DisplayNext]_displayVars => TakenInv'
<1> SUFFICES ASSUME SourceInv, TakenInv, [DisplayNext]_displayVars PROVE TakenInv'
  OBVIOUS
<1>1. /\ PictureTypes /\ PictureTypes' /\ SourceTypes
      /\ dpc # "replace" => \A s \in Surfaces : content'[s] >= content[s]
  BY PictureStep DEF TakenInv, SourceInv
\* what covers goes on covering, as long as neither it nor what was taken changes
<1>2. ASSUME dpc # "replace", UNCHANGED taken
      PROVE  /\ src' = src /\ Covers(src) => Covers(src)'
             /\ res' = res /\ Covers(res) => Covers(res)'
  BY <1>1, <1>2 DEF Covers, PictureTypes
<1>3. CASE ReleaseLast
  BY <1>1, <1>2, <1>3 DEF ReleaseLast, Step, TakenInv, CoverInv, PassedInv
<1>4. CASE Acquire
  <2>1. PICK status \in AcquireStatus :
            /\ Step("acquire", IF status = "LOST" THEN "captured" ELSE "settle")
            /\ answer' = AsCapture(status)
            /\ IF status = "OK" THEN Acquired ELSE UNCHANGED <<update, res, texRefs, taken, held>>
            /\ UNCHANGED <<src, content>>
    BY <1>4 DEF Acquire
  <2>2. CASE status = "OK"
    <3>1. PICK s \in Surfaces : /\ content[s] = newest
                                /\ res' = s
                                /\ taken' = IF update' = "frame" THEN newest ELSE taken
      BY <2>1, <2>2 DEF Acquired
    <3>2. CASE update' = "frame"
      <4>1. Covers(res)'
        BY <1>1, <2>1, <3>1, <3>2 DEF Covers, PictureTypes
      <4>2. answer' = "OK" /\ dpc' = "settle"
        BY <2>1, <2>2 DEF AsCapture, Step
      <4> QED
        BY <1>1, <3>2, <4>1, <4>2 DEF TakenInv, CoverInv, PassedInv
    <3>3. CASE update' # "frame"
      BY <1>1, <1>2, <2>1, <2>2, <3>1, <3>3 DEF Step, TakenInv, CoverInv, PassedInv
    <3> QED
      BY <3>2, <3>3
  <2>3. CASE status # "OK"
    <3>1. answer' # "OK" /\ (dpc' = "captured" => answer' = "REINIT")
      BY <2>1, <2>3 DEF AsCapture, Step
    <3> QED
      BY <1>1, <1>2, <2>1, <2>3, <3>1 DEF Step, TakenInv, CoverInv, PassedInv
  <2> QED
    BY <2>2, <2>3
<1>5. CASE Settle
  BY <1>1, <1>2, <1>5 DEF Settle, Step, TakenInv, CoverInv, PassedInv
<1>6. CASE Query
  <2>1. /\ dpc = "query" /\ answer = "OK"
        /\ UNCHANGED <<res, taken>>
    BY <1>6 DEF Query, TakenInv, CoverInv
  <2>2. CASE update = "frame"
    <3>1. Covers(res)'
      BY <1>2, <2>1, <2>2 DEF TakenInv, CoverInv
    <3>2. (dpc' = "captured" /\ answer' = "ERR") \/ (dpc' = "copy" /\ src' = res')
      BY <1>6, <2>1, <2>2 DEF Query
    <3> QED
      BY <1>1, <3>1, <3>2 DEF TakenInv, CoverInv, PassedInv, Covers
  <2>3. CASE update # "frame"
    <3>1. src' = src /\ ((dpc' = "captured" /\ answer' = "TIMEOUT") \/ dpc' = "copy")
      BY <1>6, <2>3 DEF Query
    <3> QED
      BY <1>1, <1>2, <2>1, <2>3, <3>1 DEF TakenInv, CoverInv, PassedInv
  <2> QED
    BY <2>2, <2>3
<1>7. CASE Copy
  <2>1. /\ dpc = "copy" /\ dpc' = "captured"
        /\ shown' = IF src = NoSurface THEN shown ELSE content[src]
        /\ UNCHANGED <<src, taken>>
    BY <1>7 DEF Copy, Step
  <2>2. taken' <= shown'
    BY <1>1, <2>1, DisplayAssumption DEF TakenInv, CoverInv, Covers, PictureTypes
  <2> QED
    BY <1>1, <1>2, <2>1, <2>2 DEF TakenInv, CoverInv, PassedInv
<1>8. CASE Captured
  BY <1>1, <1>2, <1>8 DEF Captured, Step, TakenInv, CoverInv, PassedInv
<1>9. CASE Convert
  <2>1. \A plane \in DOMAIN target' : target'[plane] = shown
    BY <1>9 DEF Convert
  <2> QED
    BY <1>1, <1>2, <1>9, <2>1 DEF Convert, Step, TakenInv, CoverInv, PassedInv
<1>10. CASE Encode \/ AllocImage \/ MakeContext \/ ContextFails \/ Loop
  <2>1. /\ UNCHANGED <<src, taken>>
        /\ dpc \in {"encode", "start", "context", "loop"}
        /\ dpc' \in {"loop", "release", "context", "teardown", "free"}
    BY <1>10 DEF Encode, AllocImage, MakeContext, ContextFails, Loop, Step, frameVars
  <2> QED
    BY <1>1, <1>2, <2>1 DEF TakenInv, CoverInv, PassedInv
<1>11. CASE Teardown \/ FreeResources \/ ReplaceFails
  <2>1. dpc' \in {"free", "replace", "ended"}
    BY <1>11 DEF Teardown, FreeResources, ReplaceFails, Step
  <2> QED
    BY <1>1, <2>1 DEF TakenInv, CoverInv, PassedInv
<1>12. CASE Replace
  BY <1>1, <1>12 DEF Replace, Step, TakenInv, CoverInv, PassedInv, Covers
<1>13. CASE Environment \/ UNCHANGED displayVars
  <2>1. UNCHANGED <<dpc, answer, update, res, src, taken, shown, target>>
    BY <1>13 DEF Environment, Present, LoseAccess, Shutdown, displayVars, frameVars
  <2>2. PassedInv'
    BY <2>1 DEF TakenInv, PassedInv
  <2>3. CASE dpc # "replace"
    BY <1>1, <1>2, <2>1, <2>2, <2>3 DEF TakenInv, CoverInv
  <2>4. CASE dpc = "replace"
    BY <1>1, <2>1, <2>2, <2>4 DEF TakenInv, CoverInv
  <2> QED
    BY <2>3, <2>4
<1> QED
  BY <1>3, <1>4, <1>5, <1>6, <1>7, <1>8, <1>9, <1>10, <1>11, <1>12, <1>13
     DEF DisplayNext, Capture, Life

\* In the planes the device can draw, the encoder is given nothing older than the
\* last frame that was taken
\* (display_vram.cpp:157-191, duplication.cpp:23-78, encoder_thread.cpp).
THEOREM NothingOlderIsEncoded == DisplaySpec => []EncodesWhatWasTaken
<1>1. DisplayInit => SourceInv /\ TakenInv
  BY DEF DisplayInit, SourceInv, SourceTypes, TakenInv, PictureTypes, Drawn, CoverInv, Covers,
     PassedInv
<1>2. TakenInv => EncodesWhatWasTaken
  BY DEF TakenInv, PassedInv, EncodesWhatWasTaken
<1> QED
  BY <1>1, <1>2, SourceStep, TakenStep, PTL DEF DisplaySpec

-----------------------------------------------------------------------------
(* The objects of a display.                                               *)

CountTypes == /\ refs \in [Objects -> Int]
              /\ left \in [Objects -> Int]
              /\ reinit \in BOOLEAN

Running == {"loop", "release", "acquire", "settle", "query", "copy", "captured", "convert",
            "encode"}

\* The reference counts by position: each made once, dropped once, and after a run that is
\* to be repeated nothing of the image or the hardware device is there.
LifeInv ==
    /\ CountTypes
    /\ dpc \in DisplayPCs
    /\ dpc # "ended" => /\ left["context"] <= 0
                        /\ \A o \in Objects \ {"context"} : left[o] = 0
    /\ dpc = "start" => \A o \in Objects : refs[o] = IF o \in {"image", "hw"} THEN 0 ELSE 1
    /\ dpc = "context" => ~reinit /\ \A o \in Objects : refs[o] = IF o = "hw" THEN 0 ELSE 1
    /\ dpc \in Running => ~reinit
    /\ dpc \in Running \cup {"teardown"} => \A o \in Objects : refs[o] = 1
    /\ dpc = "free" => refs["context"] <= 1 /\ \A o \in {"output", "dup", "shaders"} : refs[o] = 1
    /\ dpc = "replace" => refs["context"] <= 0 /\ \A o \in {"output", "dup", "shaders"} : refs[o] = 0
    /\ dpc \in {"free", "replace"}
           => \A o \in {"image", "hw"} : refs[o] \in 0 .. 1 /\ (reinit => refs[o] = 0)
    /\ dpc = "ended" => OneOfEach

\* What a replacement adds to, and what it leaves.
LEMMA ReplacedOnce ==
    ASSUME LifeInv, dpc = "replace", left' = LeftBehind, refs' \in [Objects -> 0 .. 1],
           refs'["image"] = 0, refs'["hw"] = 0
    PROVE  /\ left' \in [Objects -> Int]
           /\ left'["context"] <= 0
           /\ reinit => \A o \in Objects \ {"context"} : left'[o] = 0
           /\ OneOfEach'
<1>1. left' \in [Objects -> Int] /\ \A o \in Objects : left'[o] = left[o] + refs[o]
  BY DEF LifeInv, CountTypes, LeftBehind
<1>2. left["context"] <= 0 /\ \A o \in Objects \ {"context"} : left[o] = 0
  BY DEF LifeInv
<1>3. refs["context"] <= 0 /\ \A o \in {"output", "dup", "shaders"} : refs[o] = 0
  BY DEF LifeInv
<1>4. \A o \in {"image", "hw"} : refs[o] \in 0 .. 1 /\ (reinit => refs[o] = 0)
  BY DEF LifeInv
<1>5. /\ left'["context"] <= 0
      /\ \A o \in {"output", "dup", "shaders"} : left'[o] = 0
      /\ \A o \in {"image", "hw"} : left'[o] \in 0 .. 1 /\ (reinit => left'[o] = 0)
  <2>1. left["context"] \in Int /\ refs["context"] \in Int
    BY DEF LifeInv, CountTypes, Objects
  <2>2. left'["context"] = left["context"] + refs["context"]
    BY <1>1 DEF Objects
  <2>3. \A o \in Objects \ {"context"} : refs[o] \in Int /\ left'[o] = 0 + refs[o]
    BY <1>1, <1>2 DEF LifeInv, CountTypes
  <2>4. \A o \in Objects \ {"context"} : left'[o] = refs[o]
    BY <2>3
  <2> QED
    BY <1>2, <1>3, <1>4, <2>1, <2>2, <2>4 DEF Objects
<1>6. \A o \in Objects : refs'[o] \in 0 .. 1
  OBVIOUS
<1> QED
  BY <1>1, <1>5, <1>6 DEF OneOfEach, Objects

\* Every step keeps the counts.
LEMMA LifeStep == LifeInv /\ [DisplayNext]_displayVars => LifeInv'
<1> SUFFICES ASSUME LifeInv, [DisplayNext]_displayVars PROVE LifeInv'
  OBVIOUS
\* steps that touch no count stay in the loop, or leave it
<1>1. ASSUME UNCHANGED <<refs, left, reinit>>, dpc \in Running, dpc' \in Running \cup {"teardown"}
      PROVE  LifeInv'
  BY <1>1 DEF LifeInv, CountTypes, Running, DisplayPCs
<1>2. ASSUME UNCHANGED <<refs, left, reinit, dpc>> PROVE LifeInv'
  BY <1>2 DEF LifeInv, CountTypes, OneOfEach
<1>3. CASE \/ ReleaseLast \/ Acquire \/ Settle \/ Query \/ Copy \/ Convert \/ Encode \/ Loop
  BY <1>1, <1>3 DEF ReleaseLast, Acquire, Settle, Query, Copy, Convert, Encode, Loop, Step,
     lifeVars, Running
<1>4. CASE Captured
  <2>1. /\ UNCHANGED <<refs, left>> /\ reinit' = (reinit \/ answer = "REINIT")
        /\ dpc = "captured" /\ dpc' \in {"convert", "loop", "teardown"}
        /\ answer = "REINIT" => dpc' = "teardown"
    BY <1>4 DEF Captured, Step
  <2>2. reinit' \in BOOLEAN
    BY <2>1
  <2>3. ~reinit /\ (dpc' # "teardown" => ~reinit')
    BY <2>1 DEF LifeInv, Running
  <2> QED
    BY <2>1, <2>2, <2>3 DEF LifeInv, CountTypes, Running, DisplayPCs
<1>5. CASE AllocImage
  <2>1. /\ refs' = Count({"image"}, 1) /\ reinit' = FALSE /\ left' = left
        /\ dpc = "start" /\ dpc' = "context"
    BY <1>5 DEF AllocImage, Step
  <2>2. \A o \in Objects : refs[o] = IF o \in {"image", "hw"} THEN 0 ELSE 1
    BY <2>1 DEF LifeInv
  <2>3. /\ refs' \in [Objects -> Int]
        /\ \A o \in Objects : refs'[o] = IF o = "hw" THEN 0 ELSE 1
    BY <2>1, <2>2 DEF LifeInv, CountTypes, Count
  <2> QED
    BY <2>1, <2>3 DEF LifeInv, CountTypes, Count, Objects, Running, DisplayPCs
<1>6. CASE MakeContext
  <2>1. /\ refs' = Count({"hw"}, 1) /\ reinit' = reinit /\ left' = left
        /\ dpc = "context" /\ dpc' = "loop"
    BY <1>6 DEF MakeContext, Step
  <2> QED
    BY <2>1 DEF LifeInv, CountTypes, Count, Objects, Running, DisplayPCs
<1>7. CASE ContextFails
  <2>1. /\ refs' = Count({}, 1) \/ refs' = Count({"hw"}, 1)
        /\ reinit' = reinit /\ left' = left
        /\ dpc = "context" /\ dpc' = "free"
    BY <1>7 DEF ContextFails, Step
  <2>2. ~reinit /\ \A o \in Objects : refs[o] = IF o = "hw" THEN 0 ELSE 1
    BY <2>1 DEF LifeInv
  <2>3. /\ refs' \in [Objects -> Int]
        /\ \A o \in Objects : /\ o # "hw" => refs'[o] = 1
                              /\ o = "hw" => refs'[o] \in 0 .. 1
    BY <2>1, <2>2 DEF LifeInv, CountTypes, Count
  <2>4. ~reinit' /\ reinit' \in BOOLEAN
    BY <2>1, <2>2 DEF LifeInv, CountTypes
  <2> QED
    BY <2>1, <2>3, <2>4 DEF LifeInv, CountTypes, Objects, Running, DisplayPCs
<1>8. CASE Teardown
  <2>1. /\ refs' = Count({"image", "hw", "context"}, -1) /\ reinit' = reinit /\ left' = left
        /\ dpc = "teardown" /\ dpc' = "free"
    BY <1>8 DEF Teardown, Step
  <2> QED
    BY <2>1 DEF LifeInv, CountTypes, Count, Objects, Running, DisplayPCs
<1>9. CASE FreeResources
  <2>1. /\ refs' = Count({"output", "context", "shaders", "dup"}, -1)
        /\ reinit' = reinit /\ left' = left
        /\ dpc = "free" /\ dpc' = "replace"
    BY <1>9 DEF FreeResources, Step
  <2> QED
    BY <2>1 DEF LifeInv, CountTypes, Count, Objects, Running, DisplayPCs
<1>10. CASE Replace
  <2>1. /\ dpc = "replace" /\ dpc' = (IF reinit THEN "start" ELSE "ended")
        /\ left' = LeftBehind /\ refs' = Made /\ reinit' = reinit
    BY <1>10 DEF Replace, Step
  <2>2. /\ refs' \in [Objects -> 0 .. 1]
        /\ \A o \in Objects : refs'[o] = IF o \in {"image", "hw"} THEN 0 ELSE 1
    BY <2>1 DEF Made, MadeOf, BaseObjects, Objects
  <2>3. refs'["image"] = 0 /\ refs'["hw"] = 0
    BY <2>2 DEF Objects
  <2>4. /\ left' \in [Objects -> Int]
        /\ left'["context"] <= 0
        /\ reinit => \A o \in Objects \ {"context"} : left'[o] = 0
        /\ OneOfEach'
    BY <2>1, <2>2, <2>3, ReplacedOnce
  <2>5. reinit \in BOOLEAN
    BY DEF LifeInv, CountTypes
  <2>6. CASE reinit
    BY <2>1, <2>2, <2>4, <2>5, <2>6 DEF LifeInv, CountTypes, Running, DisplayPCs
  <2>7. CASE ~reinit
    BY <2>1, <2>2, <2>4, <2>5, <2>7 DEF LifeInv, CountTypes, Running, DisplayPCs
  <2> QED
    BY <2>6, <2>7
<1>11. CASE ReplaceFails
  <2>1. PICK made \in BaseFails \cup VramFails :
            /\ dpc = "replace" /\ dpc' = "ended"
            /\ left' = LeftBehind /\ refs' = made /\ reinit' = reinit
    BY <1>11 DEF ReplaceFails, Step
  <2>2. PICK objects \in SUBSET {"output", "context", "dup", "shaders"} : refs' = MadeOf(objects)
    BY <2>1 DEF BaseFails, VramFails, Made, BaseObjects
  <2>3. refs' \in [Objects -> 0 .. 1] /\ refs'["image"] = 0 /\ refs'["hw"] = 0
    BY <2>2 DEF MadeOf, Objects
  <2>4. left' \in [Objects -> Int] /\ OneOfEach'
    BY <2>1, <2>3, ReplacedOnce
  <2> QED
    BY <2>1, <2>3, <2>4 DEF LifeInv, CountTypes, Running, DisplayPCs
<1>12. CASE Environment \/ UNCHANGED displayVars
  BY <1>2, <1>12 DEF Environment, Present, LoseAccess, Shutdown, displayVars, lifeVars
<1> QED
  BY <1>3, <1>4, <1>5, <1>6, <1>7, <1>8, <1>9, <1>10, <1>11, <1>12 DEF DisplayNext, Capture, Life

\* A display goes completely before the next is made
\* (display_base.cpp, display_vram.cpp:267-281, gpu_hw_device.cpp, encoder_thread.cpp).
THEOREM OneDisplayAtATime == DisplaySpec => []OneOfEach
<1>1. DisplayInit => LifeInv
  BY DEF DisplayInit, LifeInv, CountTypes, DisplayPCs, Running, Made, MadeOf, BaseObjects, Objects
<1>2. LifeInv => OneOfEach
  BY DEF LifeInv, CountTypes, OneOfEach, DisplayPCs, Running, Objects
<1> QED
  BY <1>1, <1>2, LifeStep, PTL DEF DisplaySpec

-----------------------------------------------------------------------------
(* The types.                                                              *)

\* A resource that was acquired has a reference to spare for its texture.
SpareInv == /\ dpc \in {"settle", "query"} /\ answer = "OK"
                   => res \in Surfaces /\ texRefs[res] < MaxRefs
            /\ dpc = "query" => answer = "OK"

TypeInv == DisplayTypeOK /\ SpareInv /\ SourceInv

\* The statuses, as the code reads them.
LEMMA ReleaseTypes ==
    ASSUME DisplayTypeOK, NEW result \in Captures, ReleaseFrame(result)
    PROVE  hasFrame' \in BOOLEAN /\ held' \in Surfaces \cup {NoSurface}
<1>1. hasFrame \in BOOLEAN /\ held \in Surfaces \cup {NoSurface}
  BY DEF DisplayTypeOK
<1>2. CASE ~hasFrame
  BY <1>1, <1>2 DEF ReleaseFrame
<1>3. CASE hasFrame
  <2>1. PICK status \in ReleaseStatus : /\ hasFrame' = (status \notin {"OK", "LOST"})
                                        /\ held' = IF status = "OK" THEN NoSurface ELSE held
    BY <1>3 DEF ReleaseFrame
  <2> QED
    BY <1>1, <2>1
<1> QED
  BY <1>1, <1>2, <1>3

\* Every step keeps the types.
LEMMA TypeStep == TypeInv /\ [DisplayNext]_displayVars => TypeInv'
<1> SUFFICES ASSUME TypeInv, [DisplayNext]_displayVars PROVE TypeInv'
  OBVIOUS
<1>1. SourceInv'
  BY SourceStep DEF TypeInv
<1>2. DisplayTypeOK /\ SpareInv /\ SourceInv
  BY DEF TypeInv
<1>3. CASE ReleaseLast
  <2>1. PICK result \in Captures :
            /\ Step("release", IF result = "OK" THEN "acquire" ELSE "captured")
            /\ answer' = result
            /\ ReleaseFrame(result)
            /\ UNCHANGED <<update, res, src, texRefs, shown, target, taken, lifeVars, lost,
                           newest, content>>
    BY <1>3 DEF ReleaseLast
  <2>2. hasFrame' \in BOOLEAN /\ held' \in Surfaces \cup {NoSurface}
    BY <1>2, <2>1, ReleaseTypes
  <2>3. dpc' \in {"acquire", "captured"}
    BY <2>1 DEF Step
  <2> QED
    BY <1>1, <1>2, <2>1, <2>2, <2>3 DEF TypeInv, DisplayTypeOK, SpareInv, DisplayPCs, lifeVars
<1>4. CASE Acquire
  <2>1. PICK status \in AcquireStatus :
            /\ Step("acquire", IF status = "LOST" THEN "captured" ELSE "settle")
            /\ answer' = AsCapture(status)
            /\ hasFrame' = (status = "OK" \/ (hasFrame /\ status # "LOST"))
            /\ IF status = "OK" THEN Acquired ELSE UNCHANGED <<update, res, texRefs, taken, held>>
            /\ UNCHANGED <<src, shown, target, lifeVars, lost, newest, content>>
    BY <1>4 DEF Acquire
  <2>2. answer' \in Captures /\ (answer' = "OK" => status = "OK")
    BY <2>1 DEF AsCapture, Captures
  <2>3. dpc' \in {"captured", "settle"} /\ hasFrame' \in BOOLEAN
    BY <2>1 DEF Step
  <2>4. CASE status = "OK"
    <3>1. PICK s \in Surfaces : /\ texRefs[s] + 2 <= MaxRefs
                                /\ res' = s /\ held' = s
                                /\ texRefs' = [texRefs EXCEPT ![s] = @ + 1]
                                /\ update' \in {"frame", "mouse", "nothing"}
                                /\ taken' \in {newest, taken}
      BY <2>1, <2>4 DEF Acquired
    <3>2. texRefs' \in [Surfaces -> 0 .. MaxRefs] /\ texRefs'[s] < MaxRefs
      BY <1>2, <3>1, DisplayAssumption DEF DisplayTypeOK
    <3> QED
      BY <1>1, <1>2, <2>1, <2>2, <2>3, <3>1, <3>2
         DEF TypeInv, DisplayTypeOK, SpareInv, DisplayPCs, lifeVars
  <2>5. CASE status # "OK"
    BY <1>1, <1>2, <2>1, <2>2, <2>3, <2>5
       DEF TypeInv, DisplayTypeOK, SpareInv, DisplayPCs, lifeVars
  <2> QED
    BY <2>4, <2>5
<1>5. CASE Settle
  <2>1. PICK result \in Captures :
            /\ Step("settle", IF answer = "OK" THEN "query" ELSE "captured")
            /\ ReleaseFrame(result)
            /\ UNCHANGED <<answer, update, res, src, texRefs, shown, target, taken, lifeVars,
                           lost, newest, content>>
    BY <1>5 DEF Settle
  <2>2. hasFrame' \in BOOLEAN /\ held' \in Surfaces \cup {NoSurface}
    BY <1>2, <2>1, ReleaseTypes
  <2>3. dpc = "settle" /\ dpc' \in {"query", "captured"} /\ (dpc' = "query" => answer = "OK")
    BY <2>1 DEF Step
  <2> QED
    BY <1>1, <1>2, <2>1, <2>2, <2>3 DEF TypeInv, DisplayTypeOK, SpareInv, DisplayPCs, lifeVars
<1>6. CASE Query
  <2>1. /\ dpc = "query" /\ dpc' \in {"captured", "copy"}
        /\ answer' \in Captures
        /\ UNCHANGED <<hasFrame, update, res, shown, target, taken, lifeVars, driver>>
        /\ \/ src' \in {src, NoSurface} /\ UNCHANGED texRefs
           \/ src' = res /\ texRefs' = [texRefs EXCEPT ![res] = @ + 1]
    BY <1>2, <1>6 DEF Query, DisplayTypeOK, Captures
  <2>2. res \in Surfaces /\ texRefs[res] < MaxRefs
    BY <1>2, <2>1 DEF SpareInv
  <2>3. texRefs' \in [Surfaces -> 0 .. MaxRefs] /\ src' \in Surfaces \cup {NoSurface}
    BY <1>2, <2>1, <2>2, DisplayAssumption DEF DisplayTypeOK
  <2> QED
    BY <1>1, <1>2, <2>1, <2>3 DEF TypeInv, DisplayTypeOK, SpareInv, DisplayPCs, lifeVars, driver
<1>7. CASE Copy
  <2>1. /\ dpc' = "captured"
        /\ shown' = IF src = NoSurface THEN shown ELSE content[src]
        /\ UNCHANGED <<answer, hasFrame, update, res, src, texRefs, target, taken, lifeVars, driver>>
    BY <1>7 DEF Copy, Step
  <2>2. shown' \in 0 .. MaxUpdates
    BY <1>2, <2>1, DisplayAssumption DEF DisplayTypeOK
  <2> QED
    BY <1>1, <1>2, <2>1, <2>2 DEF TypeInv, DisplayTypeOK, SpareInv, DisplayPCs, lifeVars, driver
<1>8. CASE Captured
  <2>1. /\ dpc' \in {"convert", "loop", "teardown"}
        /\ reinit' = (reinit \/ answer = "REINIT")
        /\ answer' = "OK" /\ update' = "nothing" /\ res' = NoSurface
        /\ UNCHANGED <<hasFrame, src, texRefs, shown, target, taken, refs, left, shutdown,
                       replaced, driver>>
    BY <1>8 DEF Captured, Step
  <2>2. reinit' \in BOOLEAN
    BY <2>1
  <2> QED
    BY <1>1, <1>2, <2>1, <2>2 DEF TypeInv, DisplayTypeOK, SpareInv, DisplayPCs, Captures, driver
<1>9. CASE Convert \/ Loop
  <2>1. /\ dpc' \in {"encode", "teardown", "release"}
        /\ UNCHANGED <<answer, hasFrame, update, res, src, texRefs, shown, taken, lifeVars, driver>>
    BY <1>9 DEF Convert, Loop, Step, frameVars
  <2>2. \E views \in Views : target' \in [views -> 0 .. MaxUpdates]
    BY <1>2, <1>9 DEF Convert, Loop, frameVars, DisplayTypeOK
  <2> QED
    BY <1>1, <1>2, <2>1, <2>2 DEF TypeInv, DisplayTypeOK, SpareInv, DisplayPCs, lifeVars, driver
<1>10. CASE Encode
  BY <1>1, <1>2, <1>10 DEF Encode, Step, TypeInv, DisplayTypeOK, SpareInv, DisplayPCs, frameVars,
     driver
<1>11. ASSUME NEW objects, NEW n \in Int, refs' = Count(objects, n) PROVE refs' \in [Objects -> Int]
  BY <1>2, <1>11 DEF Count, DisplayTypeOK
<1>12. CASE AllocImage \/ MakeContext
  <2>1. /\ dpc' \in {"context", "loop"}
        /\ reinit' \in {FALSE, reinit}
        /\ shown' \in {0, shown}
        /\ UNCHANGED <<answer, hasFrame, update, res, src, texRefs, taken, left, shutdown,
                       replaced, driver>>
    BY <1>12 DEF AllocImage, MakeContext, Step
  <2>2. refs' \in [Objects -> Int]
    BY <1>11, <1>12 DEF AllocImage, MakeContext
  <2>3. reinit' \in BOOLEAN
    BY <1>2, <2>1 DEF DisplayTypeOK
  <2>4. {shown', taken'} \subseteq 0 .. MaxUpdates
    BY <1>2, <2>1, DisplayAssumption DEF DisplayTypeOK
  <2>5. \E views \in Views : target' \in [views -> 0 .. MaxUpdates]
    <3>1. CASE UNCHANGED target
      BY <1>2, <3>1 DEF DisplayTypeOK
    <3>2. CASE SetFrame
      <4>1. 0 \in 0 .. MaxUpdates
        BY DisplayAssumption
      <4> QED
        BY <3>2, <4>1 DEF SetFrame
    <3> QED
      BY <1>12, <3>1, <3>2 DEF AllocImage, MakeContext
  <2> QED
    BY <1>1, <1>2, <2>1, <2>2, <2>3, <2>4, <2>5
       DEF TypeInv, DisplayTypeOK, SpareInv, DisplayPCs, driver
<1>13. CASE ContextFails \/ Teardown
  <2>1. /\ dpc' = "free" /\ shutdown' \in {TRUE, shutdown}
        /\ UNCHANGED <<answer, frameVars, left, reinit, replaced, driver>>
    BY <1>13 DEF ContextFails, Teardown, Step
  <2>2. refs' \in [Objects -> Int]
    BY <1>11, <1>13 DEF ContextFails, Teardown
  <2> QED
    BY <1>1, <1>2, <2>1, <2>2 DEF TypeInv, DisplayTypeOK, SpareInv, DisplayPCs, frameVars, driver
<1>14. CASE FreeResources
  <2>1. PICK result \in Captures :
            /\ dpc = "free" /\ dpc' = "replace"
            /\ ReleaseFrame(result)
            /\ refs' = Count({"output", "context", "shaders", "dup"}, -1)
            /\ texRefs' = [s \in Surfaces |-> IF s = src THEN texRefs[s] - 1 ELSE texRefs[s]]
            /\ UNCHANGED <<answer, update, res, src, shown, target, taken, left, reinit, shutdown,
                           replaced, lost, newest, content>>
    BY <1>14 DEF FreeResources, Step
  <2>2. hasFrame' \in BOOLEAN /\ held' \in Surfaces \cup {NoSurface}
    BY <1>2, <2>1, ReleaseTypes
  <2>3. refs' \in [Objects -> Int]
    BY <1>11, <2>1
  <2>4. texRefs' \in [Surfaces -> Nat]
    BY <1>1 DEF SourceInv, SourceTypes
  <2>5. \A s \in Surfaces : texRefs'[s] \in 0 .. MaxRefs
    <3>1. TAKE s \in Surfaces
    <3>2. texRefs[s] \in 0 .. MaxRefs /\ texRefs'[s] \in {texRefs[s] - 1, texRefs[s]}
      BY <1>2, <2>1 DEF DisplayTypeOK
    <3> QED
      BY <2>4, <3>2, DisplayAssumption
  <2>6. texRefs' \in [Surfaces -> 0 .. MaxRefs]
    BY <2>1, <2>5
  <2> QED
    BY <1>1, <1>2, <2>1, <2>2, <2>3, <2>6 DEF TypeInv, DisplayTypeOK, SpareInv, DisplayPCs
<1>15. CASE Replace
  <2>1. /\ dpc' \in {"start", "ended"} /\ replaced' \in 0 .. MaxReinits
        /\ hasFrame' = FALSE /\ held' = NoSurface /\ lost' = FALSE
        /\ src' = NoSurface /\ taken' = 0
        /\ UNCHANGED <<answer, update, res, shown, target, reinit, newest>>
    BY <1>2, <1>15, DisplayAssumption DEF Replace, Step, DisplayTypeOK
  <2>2. refs' \in [Objects -> Int] /\ left' \in [Objects -> Int]
    BY <1>2, <1>15 DEF Replace, LeftBehind, Made, MadeOf, DisplayTypeOK
  <2>3. texRefs' \in [Surfaces -> 0 .. MaxRefs] /\ content' \in [Surfaces -> 0 .. newest']
    BY <1>2, <1>15, DisplayAssumption DEF Replace, DisplayTypeOK
  <2>4. shutdown' \in BOOLEAN
    BY <1>15 DEF Replace
  <2>5. {hasFrame', reinit', shutdown', lost'} \subseteq BOOLEAN
    BY <1>2, <2>1, <2>4 DEF DisplayTypeOK
  <2>6. {shown', taken'} \subseteq 0 .. MaxUpdates
    BY <1>2, <2>1, DisplayAssumption DEF DisplayTypeOK
  <2> QED
    BY <1>1, <1>2, <2>1, <2>2, <2>3, <2>5, <2>6
       DEF TypeInv, DisplayTypeOK, SpareInv, DisplayPCs
<1>16. CASE ReplaceFails
  <2>1. /\ dpc' = "ended" /\ shutdown' = TRUE
        /\ UNCHANGED <<answer, frameVars, reinit, replaced, driver>>
    BY <1>16 DEF ReplaceFails, Step
  <2>2. refs' \in [Objects -> Int] /\ left' \in [Objects -> Int]
    BY <1>2, <1>16 DEF ReplaceFails, LeftBehind, BaseFails, VramFails, Made, MadeOf, DisplayTypeOK
  <2> QED
    BY <1>1, <1>2, <2>1, <2>2 DEF TypeInv, DisplayTypeOK, SpareInv, DisplayPCs, frameVars, driver
<1>17. CASE Present
  <2>1. PICK s \in Surfaces : /\ newest < MaxUpdates /\ newest' = newest + 1
                              /\ content' = [content EXCEPT ![s] = newest + 1]
                              /\ UNCHANGED <<dpc, answer, frameVars, lifeVars, held, lost>>
    BY <1>17 DEF Present
  <2>2. newest' \in 0 .. MaxUpdates /\ content' \in [Surfaces -> 0 .. newest']
    BY <1>2, <2>1, DisplayAssumption DEF DisplayTypeOK
  <2> QED
    BY <1>1, <1>2, <2>1, <2>2 DEF TypeInv, DisplayTypeOK, SpareInv, frameVars, lifeVars
<1>18. CASE LoseAccess \/ Shutdown \/ UNCHANGED displayVars
  BY <1>1, <1>2, <1>18 DEF LoseAccess, Shutdown, displayVars, TypeInv, DisplayTypeOK, SpareInv,
     frameVars, lifeVars, driver
<1> QED
  BY <1>3, <1>4, <1>5, <1>6, <1>7, <1>8, <1>9, <1>10, <1>12, <1>13, <1>14, <1>15, <1>16, <1>17,
     <1>18 DEF DisplayNext, Capture, Life, Environment

\* The types of the display's state.
THEOREM DisplayTypeCorrect == DisplaySpec => []DisplayTypeOK
<1>1. DisplayInit => TypeInv
  <2> SUFFICES ASSUME DisplayInit PROVE TypeInv
    OBVIOUS
  <2>1. SpareInv /\ SourceInv
    BY DEF DisplayInit, SpareInv, SourceInv, SourceTypes
  <2>2. refs \in [Objects -> Int] /\ left \in [Objects -> Int]
    BY DEF DisplayInit, Made, MadeOf
  <2>3. {hasFrame, reinit, shutdown, lost} \subseteq BOOLEAN
    BY DEF DisplayInit
  <2>4. {shown, taken} \subseteq 0 .. MaxUpdates /\ newest \in 0 .. MaxUpdates
    BY DisplayAssumption DEF DisplayInit
  <2>7. \E views \in Views : target \in [views -> 0 .. MaxUpdates]
    BY DEF DisplayInit, Views
  <2>5. /\ texRefs \in [Surfaces -> 0 .. MaxRefs] /\ content \in [Surfaces -> 0 .. newest]
        /\ replaced \in 0 .. MaxReinits
    BY DisplayAssumption DEF DisplayInit
  <2>6. /\ dpc \in DisplayPCs /\ answer \in Captures /\ update \in {"frame", "mouse", "nothing"}
        /\ {res, src, held} \subseteq Surfaces \cup {NoSurface}
    BY DEF DisplayInit, DisplayPCs, Captures
  <2> QED
    BY <2>1, <2>2, <2>3, <2>4, <2>5, <2>6, <2>7 DEF TypeInv, DisplayTypeOK
<1>2. TypeInv => DisplayTypeOK
  BY DEF TypeInv
<1> QED
  BY <1>1, <1>2, TypeStep, PTL DEF DisplaySpec
=============================================================================
