------------------------------ MODULE Display ------------------------------
(***************************************************************************)
(* The display as the capture thread uses it: desktop duplication          *)
(* (src/capture/windows/duplication/duplication.cpp), the textures of      *)
(* display_vram.cpp, the device of gpu_hw_device.cpp, and the display's    *)
(* replacement in capture() (src/encode/encoder_thread.cpp).               *)
(*                                                                         *)
(* A picture is the number of the desktop update it shows, 0 for the dummy *)
(* one.  What the operating system answers is in the operators and actions *)
(* marked EXTERNAL: it may refuse a call, write into a surface nobody      *)
(* holds, and take the duplication away, at any time.  WAIT_ABANDONED,     *)
(* ACCESS_LOST and ACCESS_DENIED, which the code treats alike, are "LOST". *)
(***************************************************************************)
EXTENDS Integers

CONSTANTS Surfaces,    \* the surfaces the system shows the desktop with
          NoSurface,   \* the NULL pointer
          MaxUpdates,  \* BOUND: updates of the desktop
          MaxRefs,     \* BOUND: references taken to one surface
          MaxReinits   \* BOUND: displays that replace the first

ASSUME DisplayAssumption ==
    /\ NoSurface \notin Surfaces
    /\ Surfaces # {}
    /\ MaxUpdates \in Nat
    /\ MaxRefs \in Nat
    /\ MaxReinits \in Nat

\* platf::Capture
Captures == {"OK", "TIMEOUT", "REINIT", "ERR"}

\* What is reference counted.  "output" stands for the factory, the adapter and the
\* output; "shaders" for the sampler, the shaders and the blend states of the display;
\* "hw" for the shaders, the layout and the targets of the GpuDevice.  Not here: the device
\* and the colour matrices, of which every display leaves some behind.
Objects == {"output", "context", "dup", "shaders", "image", "hw"}

VARIABLES
    dpc,       \* the statement of the capture thread
    answer,    \* return_status of the call of capture under way
    hasFrame,  \* dup->has_frame
    update,    \* frame_update_flag or mouse_update_flag, of dup->frame_info
    res,       \* the resource AcquireNextFrame returned
    src,       \* DisplayVram.src, the surface to copy from
    texRefs,   \* the program's references to each surface
    shown,     \* the picture in the ImageGpu
    target,    \* the picture in each plane that the device has a view of, in the NV12
               \* texture given to the encoder
    refs,      \* references to the objects of this display
    left,      \* HISTORY: references to objects of earlier displays
    reinit,    \* ctx->reinit
    shutdown,  \* shutdown_event is raised
    replaced,  \* HISTORY: displays replaced
    taken,     \* HISTORY: the newest picture acquired as an update of the frame
    held,      \* EXTERNAL: the surface of the frame that is acquired and not released
    lost,      \* EXTERNAL: the duplication has lost its access
    newest,    \* EXTERNAL: updates of the desktop
    content    \* EXTERNAL: the picture in each surface

driver == <<held, lost, newest, content>>
frameVars == <<hasFrame, update, res, src, texRefs, shown, target, taken>>
lifeVars == <<refs, left, reinit, shutdown, replaced>>
displayVars == <<dpc, answer, frameVars, lifeVars, driver>>

-----------------------------------------------------------------------------
\* EXTERNAL: the statuses ReleaseFrame and AcquireNextFrame may return.  A frame must be
\* released before the next is acquired, and released once.
ReleaseStatus == IF lost THEN {"LOST", "FAILED"}
                 ELSE IF held # NoSurface THEN {"OK", "TIMEOUT", "FAILED"} ELSE {"FAILED"}
AcquireStatus == IF lost THEN {"LOST", "FAILED"}
                 ELSE IF held # NoSurface THEN {"FAILED"} ELSE {"OK", "TIMEOUT", "FAILED"}

\* a status as the code reads it
AsCapture(status) == IF status \in {"OK", "TIMEOUT"} THEN status
                     ELSE IF status = "LOST" THEN "REINIT" ELSE "ERR"

\* EXTERNAL: the desktop is updated, in a surface that is not held
Present == \E s \in Surfaces :
    /\ newest < MaxUpdates
    /\ s # held
    /\ newest' = newest + 1
    /\ content' = [content EXCEPT ![s] = newest + 1]
    /\ UNCHANGED <<dpc, answer, frameVars, lifeVars, held, lost>>

\* EXTERNAL: a change of mode, a full screen application or a locked desktop
LoseAccess ==
    /\ ~lost
    /\ lost' = TRUE
    /\ UNCHANGED <<dpc, answer, frameVars, lifeVars, held, newest, content>>

\* the event is raised by another thread
Shutdown ==
    /\ ~shutdown
    /\ shutdown' = TRUE
    /\ UNCHANGED <<dpc, answer, frameVars, refs, left, reinit, replaced, driver>>

-----------------------------------------------------------------------------
Step(from, to) == dpc = from /\ dpc' = to

\* o \in objects gets n more references
Count(objects, n) == [o \in Objects |-> IF o \in objects THEN refs[o] + n ELSE refs[o]]

\* captureThread: alloc_img.  Its texture is there, so that dummy_img returns at once.
AllocImage ==
    /\ Step("start", "context")
    /\ reinit' = FALSE
    /\ refs' = Count({"image"}, 1)
    /\ shown' = 0
    /\ UNCHANGED <<answer, hasFrame, update, res, src, texRefs, target, taken, left,
                   shutdown, replaced, driver>>

\* The planes of the NV12 texture with a view to draw through: both, those of the luma only,
\* or none, if there is no texture.
Views == {{}, {"Y"}, {"Y", "UV"}}

\* hw_device_set_frame: a new NV12 texture, of which nothing is drawn, and its views.  It may
\* fail at each, and hw_device_init ignores that.
SetFrame == \E views \in Views : target' = [plane \in views |-> 0]

\* hw_device_init, for the format NV12 of a session: it takes a reference to the device and
\* none to the context
MakeContext ==
    /\ Step("context", "loop")
    /\ refs' = Count({"hw"}, 1)
    /\ SetFrame
    /\ UNCHANGED <<answer, hasFrame, update, res, src, texRefs, shown, taken, left, reinit,
                   shutdown, replaced, driver>>

\* hw_device_init or make_encode_context fails: what was made of the device stays, and
\* captureThread returns without dropping the image
ContextFails == \E made \in SUBSET {"hw"} :
    /\ Step("context", "free")
    /\ refs' = Count(made, 1)
    /\ shutdown' = TRUE
    /\ UNCHANGED <<answer, frameVars, left, reinit, replaced, driver>>

\* while (!IS_INVOKED(ctx->shutdown_event))
Loop ==
    /\ Step("loop", IF shutdown THEN "teardown" ELSE "release")
    /\ UNCHANGED <<answer, frameVars, lifeVars, driver>>

-----------------------------------------------------------------------------
\* MUTANT of ReleaseFrame: a frame whose release timed out counts as released
ReleaseFrameTimedOut(result) ==
    IF ~hasFrame THEN result = "OK" /\ UNCHANGED <<hasFrame, held>>
    ELSE \E status \in ReleaseStatus :
            /\ result = AsCapture(status)
            /\ hasFrame' = (status = "FAILED")
            /\ held' = IF status = "OK" THEN NoSurface ELSE held

\* duplication_release_frame
ReleaseFrame(result) ==
    IF ~hasFrame THEN result = "OK" /\ UNCHANGED <<hasFrame, held>>
    ELSE \E status \in ReleaseStatus :
            /\ result = AsCapture(status)
            /\ hasFrame' = (status \notin {"OK", "LOST"})
            /\ held' = IF status = "OK" THEN NoSurface ELSE held

\* duplication_get_next_frame begins with a release, and returns if that fails
ReleaseLast == \E result \in Captures :
    /\ Step("release", IF result = "OK" THEN "acquire" ELSE "captured")
    /\ answer' = result
    /\ ReleaseFrame(result)
    /\ UNCHANGED <<update, res, src, texRefs, shown, target, taken, lifeVars, lost, newest,
                   content>>

\* EXTERNAL: AcquireNextFrame returns the surface with the newest picture, and says what
\* was updated
Acquired == \E s \in Surfaces, what \in {"frame", "mouse", "nothing"} :
    /\ content[s] = newest
    /\ texRefs[s] + 2 <= MaxRefs
    /\ res' = s
    /\ held' = s
    /\ texRefs' = [texRefs EXCEPT ![s] = @ + 1]
    /\ update' = what
    /\ taken' = IF what = "frame" THEN newest ELSE taken

\* MUTANT of Acquire: a lost access is taken for a timeout
AcquireLostIsTimeout == \E status \in AcquireStatus :
    /\ Step("acquire", "settle")
    /\ answer' = IF status = "LOST" THEN "TIMEOUT" ELSE AsCapture(status)
    /\ hasFrame' = (status = "OK" \/ (hasFrame /\ status # "LOST"))
    /\ IF status = "OK" THEN Acquired ELSE UNCHANGED <<update, res, texRefs, taken, held>>
    /\ UNCHANGED <<src, shown, target, lifeVars, lost, newest, content>>

\* AcquireNextFrame and what is noted of its status
Acquire == \E status \in AcquireStatus :
    /\ Step("acquire", IF status = "LOST" THEN "captured" ELSE "settle")
    /\ answer' = AsCapture(status)
    /\ hasFrame' = (status = "OK" \/ (hasFrame /\ status # "LOST"))
    /\ IF status = "OK" THEN Acquired ELSE UNCHANGED <<update, res, texRefs, taken, held>>
    /\ UNCHANGED <<src, shown, target, lifeVars, lost, newest, content>>

\* duplication_get_next_frame ends with a release, the frame just acquired included, and
\* ignores what it returns
Settle == \E result \in Captures :
    /\ Step("settle", IF answer = "OK" THEN "query" ELSE "captured")
    /\ ReleaseFrame(result)
    /\ UNCHANGED <<answer, update, res, src, texRefs, shown, target, taken, lifeVars, lost,
                   newest, content>>

\* MUTANT of Query: the surface is asked for once per display
QueryOnce ==
    /\ dpc = "query"
    /\ \/ update = "nothing" /\ dpc' = "captured" /\ answer' = "TIMEOUT"
                             /\ UNCHANGED <<src, texRefs>>
       \/ /\ update = "mouse" \/ (update = "frame" /\ src # NoSurface)
          /\ dpc' = "copy" /\ UNCHANGED <<answer, src, texRefs>>
       \/ /\ update = "frame" /\ src = NoSurface
          /\ dpc' = "copy"
          /\ src' = res
          /\ texRefs' = [texRefs EXCEPT ![res] = @ + 1]
          /\ UNCHANGED answer
    /\ UNCHANGED <<hasFrame, update, res, shown, target, taken, lifeVars, driver>>

\* display_vram_capture: nothing was updated, or the texture of an updated frame is taken
\* (an interface that is refused leaves a NULL pointer), or the texture there is will do
Query ==
    /\ dpc = "query"
    /\ \/ update = "nothing" /\ dpc' = "captured" /\ answer' = "TIMEOUT"
                             /\ UNCHANGED <<src, texRefs>>
       \/ update = "mouse" /\ dpc' = "copy" /\ UNCHANGED <<answer, src, texRefs>>
       \/ update = "frame" /\ dpc' = "captured" /\ answer' = "ERR"
                           /\ src' = NoSurface /\ UNCHANGED texRefs
       \/ /\ update = "frame"
          /\ dpc' = "copy"
          /\ src' = res
          /\ texRefs' = [texRefs EXCEPT ![res] = @ + 1]
          /\ UNCHANGED answer
    /\ UNCHANGED <<hasFrame, update, res, shown, target, taken, lifeVars, driver>>

\* MUTANT of Copy: the texture is released after every copy
CopyReleasesSource ==
    /\ Step("copy", "captured")
    /\ shown' = IF src = NoSurface THEN shown ELSE content[src]
    /\ texRefs' = [s \in Surfaces |-> IF s = src THEN texRefs[s] - 1 ELSE texRefs[s]]
    /\ UNCHANGED <<answer, hasFrame, update, res, src, target, taken, lifeVars, driver>>

\* MUTANT of Copy: both the resource and the texture are released after every copy
CopyReleasesBoth ==
    /\ Step("copy", "captured")
    /\ shown' = IF src = NoSurface THEN shown ELSE content[src]
    /\ texRefs' = [s \in Surfaces |-> texRefs[s] - (IF s = src THEN 1 ELSE 0)
                                                 - (IF s = res THEN 1 ELSE 0)]
    /\ UNCHANGED <<answer, hasFrame, update, res, src, target, taken, lifeVars, driver>>

\* CopyResource, from a surface that is released by now; without one it does nothing
Copy ==
    /\ Step("copy", "captured")
    /\ shown' = IF src = NoSurface THEN shown ELSE content[src]
    /\ UNCHANGED <<answer, hasFrame, update, res, src, texRefs, target, taken, lifeVars, driver>>

\* what captureThread makes of the result of capture
Captured ==
    /\ Step("captured", IF answer = "OK" THEN "convert"
                        ELSE IF answer = "TIMEOUT" THEN "loop" ELSE "teardown")
    /\ reinit' = (reinit \/ answer = "REINIT")
    /\ answer' = "OK" /\ update' = "nothing" /\ res' = NoSurface  \* of no use outside capture
    /\ UNCHANGED <<hasFrame, src, texRefs, shown, target, taken, refs, left, shutdown, replaced,
                   driver>>

\* hw_device_convert draws the picture into the NV12 texture, as far as there are views
Convert ==
    /\ Step("convert", "encode")
    /\ target' = [plane \in DOMAIN target |-> shown]
    /\ UNCHANGED <<answer, hasFrame, update, res, src, texRefs, shown, taken, lifeVars, driver>>

\* encode and push succeed, or end the loop through the event or at once
Encode ==
    /\ \/ Step("encode", "loop") /\ shutdown' \in {shutdown, TRUE}
       \/ Step("encode", "teardown") /\ shutdown' = TRUE
    /\ UNCHANGED <<answer, frameVars, refs, left, reinit, replaced, driver>>

-----------------------------------------------------------------------------
\* captureThread drops its buffers: hw_device_finalize (which releases the context, not the
\* device) and free_img_vram
Teardown ==
    /\ Step("teardown", "free")
    /\ refs' = Count({"image", "hw", "context"}, -1)
    /\ UNCHANGED <<answer, frameVars, left, reinit, shutdown, replaced, driver>>

\* MUTANT of FreeResources: finalize gives up when the last frame cannot be released
FreeResourcesUnlessHeld == \E result \in Captures :
    /\ Step("free", "replace")
    /\ ReleaseFrame(result)
    /\ refs' = Count({"output", "context", "shaders"}
                       \cup (IF result = "OK" THEN {"dup"} ELSE {}), -1)
    /\ texRefs' = [s \in Surfaces |-> IF s = src THEN texRefs[s] - 1 ELSE texRefs[s]]
    /\ UNCHANGED <<answer, update, res, src, shown, target, taken, left, reinit, shutdown,
                   replaced, lost, newest, content>>

\* display_vram_free_resources and duplication_finalize
FreeResources == \E result \in Captures :
    /\ Step("free", "replace")
    /\ ReleaseFrame(result)
    /\ refs' = Count({"output", "context", "shaders", "dup"}, -1)
    /\ texRefs' = [s \in Surfaces |-> IF s = src THEN texRefs[s] - 1 ELSE texRefs[s]]
    /\ UNCHANGED <<answer, update, res, src, shown, target, taken, left, reinit, shutdown,
                   replaced, lost, newest, content>>

MadeOf(objects) == [o \in Objects |-> IF o \in objects THEN 1 ELSE 0]

\* what a display has after display_base_init, and after display_vram_init
BaseObjects == {"output", "context", "dup"}
Made == MadeOf(BaseObjects \cup {"shaders"})

\* what there is when one of them returns an error: neither releases anything
BaseFails == {MadeOf({}), MadeOf({"output"}), MadeOf({"output", "context"})}
VramFails == {MadeOf(BaseObjects), Made}

LeftBehind == [o \in Objects |-> left[o] + refs[o]]

\* get_display_by_name makes a display, whether or not there is to be another run
Replace ==
    /\ Step("replace", IF reinit THEN "start" ELSE "ended")
    /\ replaced < MaxReinits
    /\ replaced' = replaced + 1
    /\ left' = LeftBehind
    /\ refs' = Made
    /\ hasFrame' = FALSE /\ held' = NoSurface /\ lost' = FALSE
    /\ src' = NoSurface
    /\ texRefs' = [s \in Surfaces |-> 0]
    /\ content' = [s \in Surfaces |-> newest]
    /\ shutdown' = (shutdown \/ ~reinit)
    /\ taken' = 0
    /\ UNCHANGED <<answer, update, res, shown, target, reinit, newest>>

\* it makes none: what was made so far stays, and the loop is left
ReplaceFails == \E made \in BaseFails \cup VramFails :
    /\ Step("replace", "ended")
    /\ left' = LeftBehind
    /\ refs' = made
    /\ shutdown' = TRUE
    /\ UNCHANGED <<answer, frameVars, reinit, replaced, driver>>

-----------------------------------------------------------------------------
DisplayInit ==
    /\ dpc = "start"
    /\ answer = "OK"
    /\ hasFrame = FALSE
    /\ update = "nothing"
    /\ res = NoSurface
    /\ src = NoSurface
    /\ texRefs = [s \in Surfaces |-> 0]
    /\ shown = 0
    /\ target = [plane \in {} |-> 0]
    /\ refs = Made
    /\ left = [o \in Objects |-> 0]
    /\ reinit = TRUE
    /\ shutdown = FALSE
    /\ replaced = 0
    /\ taken = 0
    /\ held = NoSurface
    /\ lost = FALSE
    /\ newest = 0
    /\ content = [s \in Surfaces |-> 0]

Capture == ReleaseLast \/ Acquire \/ Settle \/ Query \/ Copy \/ Captured \/ Convert \/ Encode

Life == AllocImage \/ MakeContext \/ ContextFails \/ Loop \/ Teardown \/ FreeResources
        \/ Replace \/ ReplaceFails

Environment == Present \/ LoseAccess \/ Shutdown

DisplayNext == Capture \/ Life \/ Environment

\* the capture thread keeps running; nothing is asked of the system or the application
DisplaySpec == DisplayInit /\ [][DisplayNext]_displayVars /\ WF_displayVars(Capture \/ Life)

-----------------------------------------------------------------------------
DisplayPCs == {"start", "context", "loop", "release", "acquire", "settle", "query", "copy",
               "captured", "convert", "encode", "teardown", "free", "replace", "ended"}

\* The types.  The references to a surface are never negative; those to a display's
\* objects may be, as hw_device_finalize releases the context once too often.
DisplayTypeOK ==
    /\ dpc \in DisplayPCs
    /\ answer \in Captures
    /\ update \in {"frame", "mouse", "nothing"}
    /\ {res, src, held} \subseteq Surfaces \cup {NoSurface}
    /\ texRefs \in [Surfaces -> 0 .. MaxRefs]
    /\ {shown, taken} \subseteq 0 .. MaxUpdates
    /\ \E views \in Views : target \in [views -> 0 .. MaxUpdates]
    /\ refs \in [Objects -> Int] /\ left \in [Objects -> Int]
    /\ {hasFrame, reinit, shutdown, lost} \subseteq BOOLEAN
    /\ replaced \in 0 .. MaxReinits
    /\ newest \in 0 .. MaxUpdates
    /\ content \in [Surfaces -> 0 .. newest]

\* has_frame agrees with the system: as long as the access lasts a frame is held exactly
\* when the flag says so, through every release that fails and is tried again.  So a frame
\* is never acquired while one is held, and none is released twice.
FrameFlagAgrees == ~lost => (hasFrame <=> held # NoSurface)

\* The texture that capture copies from, and that free_resources releases, is referenced
\* by the program, though its frame was released and updates of the mouse use it again.
SourceAlive == dpc \in {"copy", "free"} /\ src # NoSurface => texRefs[src] > 0

\* What the encoder is given, in each plane the device has a view of, is no older than the
\* last frame that was taken, whichever surface it came in and whatever was written there
\* since its release.  A plane without a view, after a failure of hw_device_set_frame that
\* nobody looks at (gpu_hw_device.cpp:235), is encoded as it was made.
EncodesWhatWasTaken == dpc = "encode" => \A plane \in DOMAIN target : taken <= target[plane]

\* A display goes completely before the next is made: no second one exists of anything,
\* above all no second duplication of the output, and nothing but the context is released
\* more often than it was taken.
OneOfEach == \A o \in Objects :
    /\ left[o] + refs[o] <= 1
    /\ o # "context" => left[o] >= 0 /\ refs[o] >= 0

\* A lost duplication is noticed: it is replaced, or the capture ends.
LossIsNoticed == lost ~> (~lost \/ dpc = "ended")
=============================================================================
