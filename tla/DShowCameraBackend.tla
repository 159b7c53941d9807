------------------------- MODULE DShowCameraBackend -------------------------
(***************************************************************************)
(* The DirectShow camera backend: one DShowCameraStreamBackend at a time,   *)
(* its filter graph, its no-frame timer and the callback object that the    *)
(* sample grabber calls.                                                    *)
(*                                                                          *)
(* Two threads run here.  The UI thread creates, starts, stops and destroys *)
(* the stream, runs the timer and the posted calls (uiPc tells where it is  *)
(* inside a call that takes several steps).  The streaming thread of the    *)
(* graph runs SampleCB (pc) whenever a sample comes.  Each step is one      *)
(* access to what the threads share: the frame count, the owner pointer,    *)
(* the error text - read by the streaming thread without a lock, so that it *)
(* sees the old or the new text - and the event queue.                      *)
(*                                                                          *)
(* DirectShow is external: a camera offers formats, the graph is built or   *)
(* fails to, Run() may fail, Stop() returns when no callback is running.    *)
(***************************************************************************)
EXTENDS Integers, SequencesExt

CONSTANTS
    MaxOffers,      \* bound: media types a camera offers
    Dimensions,     \* <<biWidth, biHeight>> a media type can have
    MaxPosted       \* bound: calls waiting in the event queue

ASSUME DShowAssumption ==
    /\ MaxOffers \in Nat /\ MaxPosted \in Nat
    /\ Dimensions \subseteq Nat \X Int

VARIABLES
    offers,         \* the media types of the camera; empty if it cannot be told which to use
    life,           \* "none", "open" (handed out), or "dying" (in the destructor)
    initOk,         \* m_initOk; m_control is set then
    format,         \* m_format
    active,         \* the client's last call was start()
    graph,          \* "stopped" or "running"
    timer,          \* m_noFrameTimer is active
    counted,        \* m_frameCount > 0
    errorText,      \* m_errorText
    posted,         \* calls queued to the UI thread
    owner,          \* the callback's m_owner is set
    refs,           \* the callback's m_ref; 0 if it does not exist
    grabberHolds,   \* the sample grabber holds a reference to the callback
    uiPc,           \* where the UI thread is
    pc,             \* where the streaming thread is
    sampleLen       \* length of the sample it works on

camVars == <<offers, life, initOk, format>>
callbackVars == <<owner, refs, grabberHolds>>
vars == <<camVars, active, graph, timer, counted, errorText, posted, callbackVars, uiPc, pc, sampleLen>>

Subtypes == {"YUY2", "UYVY", "RGB24", "RGB32", "NV12"}
NoVideo == "No video is coming from this camera right now."
NotStarted == "This camera could not be started."
BadFormat == "This camera is sending video in a format VCStream can't display yet."
ErrorTexts == {"", NoVideo, NotStarted, BadFormat}
Calls == {"frame", "clear", "badFormat"}

NoFormat == [subtype |-> "none", width |-> 0, height |-> 0, stride |-> 0, bitsPerPixel |-> 0,
             bottomUp |-> FALSE]

-----------------------------------------------------------------------------
(* The format of the stream *)

\* The first capability that can be read, until a UYVY or a YUY2 one comes.
Prefer(chosen, subtype) ==
    IF /\ subtype # "unreadable"
       /\ \/ chosen = "none"
          \/ subtype = "YUY2"
          \/ subtype = "UYVY" /\ chosen # "YUY2"
    THEN subtype ELSE chosen

Chosen(list) == FoldLeft(Prefer, "none", list)

\* Without IAMStreamConfig, or if it ignores SetFormat(), the camera sends what it likes.
Connectable(list) == IF Chosen(list) = "none" THEN Subtypes ELSE {Chosen(list)}

BitsOf == [YUY2 |-> 16, UYVY |-> 16, RGB24 |-> 24, RGB32 |-> 32, NV12 |-> 12]

\* Rows of a DIB are padded to four bytes.
Stride(width, bits) == ((width * bits + 31) \div 32) * 4

\* tryParseConnectedFormat(); the sign of biHeight means something for RGB only.
Parsed(subtype, width, rawHeight, bits) ==
    [subtype |-> subtype, width |-> width, height |-> IF rawHeight < 0 THEN -rawHeight ELSE rawHeight,
     stride |-> Stride(width, bits), bitsPerPixel |-> bits,
     bottomUp |-> subtype \in {"RGB24", "RGB32"} /\ rawHeight > 0]

ParsedOk(f) == f.width > 0 /\ f.height > 0 /\ f.stride > 0

Supported(f) == /\ f.subtype \in {"YUY2", "UYVY", "RGB24", "RGB32"}
                /\ f.bitsPerPixel = BitsOf[f.subtype]

-----------------------------------------------------------------------------
(* UI thread: creation *)

Closed == /\ offers = <<>> /\ life = "none" /\ initOk = FALSE /\ format = NoFormat
          /\ active = FALSE /\ graph = "stopped" /\ timer = FALSE /\ counted = FALSE
          /\ errorText = "" /\ posted = <<>>
          /\ owner = FALSE /\ refs = 0 /\ grabberHolds = FALSE

Init == Closed /\ uiPc = "loop" /\ pc = "idle" /\ sampleLen = 0

Offers == UNION {[1..n -> Subtypes \cup {"unreadable"}] : n \in 0..MaxOffers}

\* What initialise() has done when it succeeds or fails at a stage.
Stages == {"beforeCallback", "setCallback", "connect", "control", "done"}

\* The callback exists from SetCallback() on, and has a second holder if that succeeds.
initialiseCallback(stage) ==
    /\ owner' = (stage # "beforeCallback")
    /\ grabberHolds' = (stage \notin {"beforeCallback", "setCallback"})
    /\ refs' = CASE stage = "beforeCallback" -> 0
                 [] stage = "setCallback" -> 1
                 [] OTHER -> 2

\* A format that cannot be converted is an error text, not a failure.
initialiseFormat(stage) ==
    IF stage \in {"control", "done"}
    THEN \E subtype \in Connectable(offers'), d \in Dimensions, oddBits \in BOOLEAN :
            LET f == Parsed(subtype, d[1], d[2], IF oddBits THEN 8 ELSE BitsOf[subtype])
            IN /\ ParsedOk(f)
               /\ format' = f
               /\ errorText' = IF Supported(f) THEN "" ELSE BadFormat
    ELSE UNCHANGED <<format, errorText>>

\* The stream is handed out if it is initialised, and destroyed at once otherwise.
createStream ==
    /\ uiPc = "loop" /\ life = "none"
    /\ offers' \in Offers
    /\ \E stage \in Stages : /\ initialiseCallback(stage)
                             /\ initialiseFormat(stage)
                             /\ initOk' = (stage = "done")
    /\ life' = IF initOk' THEN "open" ELSE "dying"
    /\ uiPc' = IF initOk' THEN "loop" ELSE "detaching"
    /\ UNCHANGED <<active, graph, timer, counted, posted, pc, sampleLen>>

-----------------------------------------------------------------------------
(* UI thread: start, stop, the timer and the posted calls *)

\* Fault: the timer is left off.
start_NoTimer ==
    /\ uiPc = "loop" /\ life = "open" /\ ~active
    /\ active' = TRUE /\ counted' = FALSE
    /\ \/ graph' = "running" /\ UNCHANGED errorText
       \/ UNCHANGED graph /\ errorText' = NotStarted
    /\ UNCHANGED <<camVars, timer, posted, callbackVars, uiPc, pc, sampleLen>>

\* Fault: the result of Run() is not looked at.
start_Unchecked ==
    /\ uiPc = "loop" /\ life = "open" /\ ~active
    /\ active' = TRUE /\ counted' = FALSE /\ timer' = TRUE
    /\ graph' \in {"running", "stopped"}
    /\ UNCHANGED <<camVars, errorText, posted, callbackVars, uiPc, pc, sampleLen>>

\* setActive(true): the count and the timer first, then Run().
start ==
    /\ uiPc = "loop" /\ life = "open" /\ ~active
    /\ active' = TRUE /\ counted' = FALSE /\ timer' = TRUE
    /\ \/ graph' = "running" /\ UNCHANGED errorText
       \/ UNCHANGED graph /\ errorText' = NotStarted
    /\ UNCHANGED <<camVars, posted, callbackVars, uiPc, pc, sampleLen>>

\* setActive(false): the UI thread enters Stop() ...
stop ==
    /\ uiPc = "loop" /\ life = "open" /\ active
    /\ active' = FALSE /\ timer' = FALSE /\ uiPc' = "stopping"
    /\ UNCHANGED <<camVars, graph, counted, errorText, posted, callbackVars, pc, sampleLen>>

\* ... which returns when the streaming thread has left the callback.
StopReturns ==
    /\ uiPc = "stopping" /\ pc = "idle"
    /\ graph' = "stopped"
    /\ uiPc' = IF life = "dying" THEN "detaching" ELSE "loop"
    /\ UNCHANGED <<camVars, active, timer, counted, errorText, posted, callbackVars, pc, sampleLen>>

\* The timer fires, after the calls that were posted 700 ms before, and reads the frame count ...
onNoFrameTimeout ==
    /\ uiPc = "loop" /\ timer /\ posted = <<>>
    /\ timer' = FALSE
    /\ uiPc' = IF counted THEN "loop" ELSE "noFrames"
    /\ UNCHANGED <<camVars, active, graph, counted, errorText, posted, callbackVars, pc, sampleLen>>

\* ... and then the error text, which the first frame may have found empty in between.
setNoVideoError ==
    /\ uiPc = "noFrames" /\ uiPc' = "loop"
    /\ errorText' = IF errorText = "" THEN NoVideo ELSE errorText
    /\ UNCHANGED <<camVars, active, graph, timer, counted, posted, callbackVars, pc, sampleLen>>

\* The event loop runs the oldest posted call.
RunPosted ==
    /\ uiPc = "loop" /\ posted # <<>>
    /\ errorText' = CASE Head(posted) = "clear" -> ""
                      [] Head(posted) = "badFormat" -> BadFormat
                      [] OTHER -> errorText
    /\ posted' = Tail(posted)
    /\ UNCHANGED <<camVars, active, graph, timer, counted, callbackVars, uiPc, pc, sampleLen>>

-----------------------------------------------------------------------------
(* UI thread: destruction *)

\* Fault: the destructor does not stop the graph first.
destroy_NotStopped ==
    /\ uiPc = "loop" /\ life = "open"
    /\ life' = "dying" /\ active' = FALSE /\ timer' = FALSE /\ uiPc' = "detaching"
    /\ UNCHANGED <<offers, initOk, format, graph, counted, errorText, posted, callbackVars, pc, sampleLen>>

\* ~DShowCameraStreamBackend() begins with stop().
destroy ==
    /\ uiPc = "loop" /\ life = "open"
    /\ life' = "dying" /\ active' = FALSE /\ timer' = FALSE /\ uiPc' = "stopping"
    /\ UNCHANGED <<offers, initOk, format, graph, counted, errorText, posted, callbackVars, pc, sampleLen>>

\* Fault: the reference of the constructor is not given back.
detachOwner_Leaks ==
    /\ uiPc = "detaching" /\ uiPc' = "releasing"
    /\ owner' = FALSE
    /\ UNCHANGED <<camVars, active, graph, timer, counted, errorText, posted, refs, grabberHolds, pc,
                   sampleLen>>

\* detachOwner() and Release() of the callback, if initialise() got as far as making one.
detachOwner ==
    /\ uiPc = "detaching" /\ uiPc' = "releasing"
    /\ owner' = FALSE
    /\ refs' = IF refs = 0 THEN 0 ELSE refs - 1
    /\ UNCHANGED <<camVars, active, graph, timer, counted, errorText, posted, grabberHolds, pc, sampleLen>>

\* The members go: the graph with the grabber's reference, and with ~QObject the posted calls.
releaseMembers ==
    /\ uiPc = "releasing" /\ uiPc' = "loop"
    /\ life' = "none" /\ initOk' = FALSE /\ format' = NoFormat /\ offers' = <<>>
    /\ counted' = FALSE /\ errorText' = "" /\ posted' = <<>> /\ graph' = "stopped"
    /\ refs' = IF grabberHolds THEN refs - 1 ELSE refs
    /\ grabberHolds' = FALSE
    /\ UNCHANGED <<active, timer, owner, pc, sampleLen>>

-----------------------------------------------------------------------------
(* Streaming thread: SampleCB() and onSampleBuffer() *)

minBytes == format.stride * format.height

\* A sample comes; without an owner or without data it is ignored.
SampleCB ==
    /\ pc = "idle" /\ graph = "running"
    /\ Len(posted) + 2 <= MaxPosted
    /\ \E len \in {0, minBytes - 1, minBytes, minBytes + 1} :
          /\ sampleLen' = len
          /\ pc' = IF owner /\ len > 0 THEN "buffer" ELSE "idle"
    /\ UNCHANGED <<camVars, active, graph, timer, counted, errorText, posted, callbackVars, uiPc>>

\* Fault: the length is compared with the picture and not with the padded rows.
checkBuffer_Packed ==
    /\ pc = "buffer"
    /\ LET long == sampleLen >= format.width * format.height * (format.bitsPerPixel \div 8)
       IN /\ posted' = IF ~Supported(format) /\ long /\ errorText = ""
                       THEN Append(posted, "badFormat") ELSE posted
          /\ pc' \in IF Supported(format) /\ long THEN {"count", "idle"} ELSE {"idle"}
    /\ UNCHANGED <<camVars, active, graph, timer, counted, errorText, callbackVars, uiPc, sampleLen>>

\* A sample is dropped if it is shorter than the picture, or no image can be allocated; in a
\* format that cannot be converted, it is dropped with an error text.
checkBuffer ==
    /\ pc = "buffer"
    /\ LET long == sampleLen >= minBytes
       IN /\ posted' = IF ~Supported(format) /\ long /\ errorText = ""
                       THEN Append(posted, "badFormat") ELSE posted
          /\ pc' \in IF Supported(format) /\ long THEN {"count", "idle"} ELSE {"idle"}
    /\ UNCHANGED <<camVars, active, graph, timer, counted, errorText, callbackVars, uiPc, sampleLen>>

countFrame ==
    /\ pc = "count" /\ pc' = "error"
    /\ counted' = TRUE
    /\ UNCHANGED <<camVars, active, graph, timer, errorText, posted, callbackVars, uiPc, sampleLen>>

\* Fault: only the no-video error of this very run is taken back.
clearError_IfCounting ==
    /\ pc = "error" /\ pc' = "convert"
    /\ posted' = IF errorText # "" /\ timer THEN Append(posted, "clear") ELSE posted
    /\ UNCHANGED <<camVars, active, graph, timer, counted, errorText, callbackVars, uiPc, sampleLen>>

\* A frame takes back whatever error is shown.
clearError ==
    /\ pc = "error" /\ pc' = "convert"
    /\ posted' = IF errorText # "" THEN Append(posted, "clear") ELSE posted
    /\ UNCHANGED <<camVars, active, graph, timer, counted, errorText, callbackVars, uiPc, sampleLen>>

\* Fault: the streaming thread waits until the UI thread takes the frame.
postFrame_Blocking ==
    /\ pc = "convert" /\ uiPc = "loop" /\ pc' = "idle"
    /\ UNCHANGED <<camVars, active, graph, timer, counted, errorText, posted, callbackVars, uiPc, sampleLen>>

\* The picture is converted and posted to the UI thread.
postFrame ==
    /\ pc = "convert" /\ pc' = "idle"
    /\ posted' = Append(posted, "frame")
    /\ UNCHANGED <<camVars, active, graph, timer, counted, errorText, callbackVars, uiPc, sampleLen>>

\* The bytes from which the pixels of a row are made: the packed YUV formats take them by pairs.
RowBytes(f) == CASE f.subtype = "RGB32" -> 4 * f.width
                 [] f.subtype = "RGB24" -> 3 * f.width
                 [] OTHER -> 4 * ((f.width + 1) \div 2)

SourceRow(f, y) == IF f.bottomUp THEN f.height - 1 - y ELSE y

-----------------------------------------------------------------------------
UiThread == \/ createStream \/ start \/ stop \/ StopReturns \/ onNoFrameTimeout \/ setNoVideoError
            \/ RunPosted \/ destroy \/ detachOwner \/ releaseMembers

InCallback == checkBuffer \/ countFrame \/ clearError \/ postFrame

Next == UiThread \/ SampleCB \/ InCallback

Spec == Init /\ [][Next]_vars

\* The event loop runs timers and posted calls, calls that began go on, and so does a callback.
\* Stop() is DirectShow's, which lets no further sample in for good.  Clients and cameras owe nothing.
Fairness == /\ WF_vars(RunPosted) /\ WF_vars(onNoFrameTimeout) /\ WF_vars(setNoVideoError)
            /\ SF_vars(StopReturns) /\ WF_vars(detachOwner) /\ WF_vars(releaseMembers)
            /\ WF_vars(InCallback)

-----------------------------------------------------------------------------
(* Properties *)

\* The streaming thread works on a stream only while its members exist: the destructor has
\* stopped the graph before it lets anything go.
OwnerAliveInCallback == pc # "idle" => /\ life # "none" /\ uiPc \notin {"detaching", "releasing"}
                                       /\ refs > 0

\* The callback object lives exactly as long as the stream and the grabber need it: it is never
\* used after its last Release(), and no creation that fails half-way leaks it.
CallbackReleased == /\ refs = (IF grabberHolds THEN 1 ELSE 0) + (IF owner THEN 1 ELSE 0)
                    /\ life = "none" => refs = 0

\* Whatever the padding, the direction of the rows and the parity of the width, the conversion
\* reads no byte outside the sample.
ReadsInSample ==
    pc = "convert" => \A y \in 0..format.height - 1 :
        LET row == SourceRow(format, y) * format.stride
        IN row >= 0 /\ row + RowBytes(format) <= sampleLen

\* Pictures and an error text do not go together for good: while frames come, an error that is
\* shown is taken back, also one that the timer sets after it lost the race with the first frame.
ErrorsEndWithFrames ==
    []<>(pc = "convert") => []((life = "open" /\ errorText # "") => <>(errorText = ""))

\* "VCStream must not silently drop frames": a stream that is started and shows nothing says why.
SilentCameraTold ==
    (active /\ ~counted) ~> (counted \/ errorText # "" \/ ~active)

\* stop() and the destructor come back: the streaming thread never waits for the UI thread.
StopComesBack == (uiPc = "stopping") ~> (uiPc # "stopping")

\* What MediaCapture relies on.
Frames == Cardinality({i \in DOMAIN posted : posted[i] = "frame"})

Backend == INSTANCE CameraStreamBackend
           WITH Texts <- ErrorTexts, open <- life # "none" /\ initOk, asked <- active, running <- graph = "running",
                inFlight <- Frames, text <- IF initOk THEN errorText ELSE ""

\* The stream keeps the promises of the interface CameraStreamBackend: no frame is sent after
\* stop() returned, none arrives after the destruction, and a failed start is told.
KeepsBackendContract == Backend!Spec
=============================================================================
