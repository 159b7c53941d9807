---------------------------- MODULE MediaCapture ----------------------------
(***************************************************************************)
(* Local camera capture: MediaCapture, its inner CameraStream objects and  *)
(* the CameraPreviewHandle objects that clients hold.                      *)
(*                                                                         *)
(* Everything here runs on the UI thread, so one action is one call of a   *)
(* client, one delivered frame, one change of a backend's error text or    *)
(* one deferred deletion.  A call such as close() runs several members in  *)
(* sequence; each member is an operator from a World (the record of the    *)
(* objects' state) to a World, and an action ends in Become.               *)
(*                                                                         *)
(* The camera backend is external.  What matters of it is that a stream it *)
(* created delivers frames only between start() and stop() - except that a *)
(* backend which gets its frames on another thread posts them to the UI    *)
(* thread (QueuedDelivery), where they may wait until after stop().        *)
(***************************************************************************)
EXTENDS Naturals, FiniteSets

CONSTANTS
    Devices,         \* camera device ids
    Handles,         \* slots for CameraPreviewHandle objects
    Sinks,           \* QVideoSink objects of the views
    Streams,         \* slots for CameraStream objects
    None,            \* the null pointer
    MaxFrames,       \* bound: frames counted on one stream between start and stop
    MaxPending,      \* bound: frames of one stream waiting in the event queue
    QueuedDelivery,  \* does the backend post frames from another thread?
    SharedSinks,     \* may two handles be given the same sink?
    SinkDeaths       \* may a sink be destroyed while a handle still uses it?

ASSUME MediaCaptureAssumption ==
    /\ None \notin Devices \cup Handles \cup Sinks \cup Streams
    /\ IsFiniteSet(Handles)
    /\ MaxFrames \in Nat /\ MaxPending \in Nat
    /\ QueuedDelivery \in BOOLEAN /\ SharedSinks \in BOOLEAN /\ SinkDeaths \in BOOLEAN

VARIABLES
    plugged,        \* the devices the platform can open
    cameraStreams,  \* MediaCapture::m_cameraStreams
    stream,         \* the CameraStream objects
    handle,         \* the CameraPreviewHandle objects
    sinkShows,      \* the device whose frame a sink shows, or None when blank
    liveSinks       \* the sinks not destroyed yet

vars == <<plugged, cameraStreams, stream, handle, sinkShows, liveSinks>>

\* "Camera device is not available." and the message of a backend.
Unavailable == "unavailable"
BackendError == "backend"
BackendTexts == {"", BackendError}
Texts == BackendTexts \cup {Unavailable}

\* "doomed": out of the map, waiting for its deferred deletion.
StreamRecord == [state : {"free", "live", "doomed"}, dev : Devices \cup {None},
                 lastFrame : BOOLEAN, errorText : BackendTexts, framesReceived : Nat,
                 runningRefCount : Nat, active : BOOLEAN, viewSinks : SUBSET Sinks,
                 handles : SUBSET Handles, pending : Nat, lost : BOOLEAN]

\* "closing": close() was called, waiting for its deferred deletion.
HandleRecord == [state : {"free", "alive", "closing"}, dev : Devices \cup {None},
                 viewSink : Sinks \cup {None}, running : BOOLEAN, registered : BOOLEAN,
                 hasFrame : BOOLEAN, framesReceived : Nat, errorText : Texts]

TypeOK == /\ plugged \subseteq Devices
          /\ cameraStreams \in [Devices -> Streams \cup {None}]
          /\ stream \in [Streams -> StreamRecord]
          /\ handle \in [Handles -> HandleRecord]
          /\ sinkShows \in [Sinks -> Devices \cup {None}]
          /\ liveSinks \subseteq Sinks

-----------------------------------------------------------------------------
World == [cameraStreams |-> cameraStreams, stream |-> stream,
          handle |-> handle, sinkShows |-> sinkShows]

Become(w) == /\ cameraStreams' = w.cameraStreams
             /\ stream' = w.stream
             /\ handle' = w.handle
             /\ sinkShows' = w.sinkShows

NewStream(state, d, text) ==
    [state |-> state, dev |-> d, lastFrame |-> FALSE, errorText |-> text,
     framesReceived |-> 0, runningRefCount |-> 0, active |-> FALSE,
     viewSinks |-> {}, handles |-> {}, pending |-> 0, lost |-> FALSE]

NewHandle(state, d) ==
    [state |-> state, dev |-> d, viewSink |-> None, running |-> FALSE,
     registered |-> FALSE, hasFrame |-> FALSE, framesReceived |-> 0, errorText |-> ""]

Exists(w, h) == w.handle[h].state # "free"

\* A QPointer reads null once its sink is destroyed.
ViewSink(w, h) == IF w.handle[h].viewSink \in liveSinks THEN w.handle[h].viewSink ELSE None

\* sink->setVideoFrame() on every sink of S that still exists.
Show(w, S, d) == [w EXCEPT !.sinkShows = [s \in Sinks |->
                     IF s \in S \cap liveSinks THEN d ELSE w.sinkShows[s]]]

\* The frame state of a stream, copied to every handle it lists that still exists.
PublishFrames(w, c) ==
    [w EXCEPT !.handle = [h \in Handles |->
        IF h \in w.stream[c].handles /\ Exists(w, h)
        THEN [w.handle[h] EXCEPT !.hasFrame = w.stream[c].lastFrame,
                                 !.framesReceived = w.stream[c].framesReceived]
        ELSE w.handle[h]]]

-----------------------------------------------------------------------------
(* CameraStream *)

addHandle(w, c, h) ==
    [w EXCEPT !.stream[c].handles = @ \cup {h},
              !.handle[h].errorText = w.stream[c].errorText,
              !.handle[h].hasFrame = w.stream[c].lastFrame,
              !.handle[h].framesReceived = w.stream[c].framesReceived]

addViewSink(w, c, s) ==
    LET added == [w EXCEPT !.stream[c].viewSinks = @ \cup {s}]
    IN IF s \notin w.stream[c].viewSinks /\ w.stream[c].lastFrame
       THEN Show(added, {s}, w.stream[c].dev)
       ELSE added

\* Fault: the handles are not told that the frames are gone.
setActive_ForgetsHandles(w, c, active) ==
    LET switched == [w EXCEPT !.stream[c].active = active]
    IN IF w.stream[c].active = active THEN w
       ELSE IF active THEN switched
       ELSE Show([switched EXCEPT !.stream[c].lastFrame = FALSE,
                                  !.stream[c].framesReceived = 0], w.stream[c].viewSinks, None)

\* Fault: the views keep showing the last picture.
setActive_LeavesViews(w, c, active) ==
    LET switched == [w EXCEPT !.stream[c].active = active]
    IN IF w.stream[c].active = active THEN w
       ELSE IF active THEN switched
       ELSE PublishFrames([switched EXCEPT !.stream[c].lastFrame = FALSE,
                                           !.stream[c].framesReceived = 0], c)

setActive(w, c, active) ==
    LET switched == [w EXCEPT !.stream[c].active = active]
        emptied == [switched EXCEPT !.stream[c].lastFrame = FALSE,
                                    !.stream[c].framesReceived = 0]
    IN IF w.stream[c].active = active THEN w
       ELSE IF active THEN switched
       ELSE PublishFrames(Show(emptied, w.stream[c].viewSinks, None), c)

incrementRunningRefCount(w, c, running) ==
    [w EXCEPT !.stream[c].runningRefCount =
        IF running THEN @ + 1 ELSE IF @ > 0 THEN @ - 1 ELSE 0]

\* Fault: a stream without views counts as unused although a handle runs it.
isUnused_IgnoresRunning(w, c) == w.stream[c].viewSinks = {}

isUnused(w, c) == w.stream[c].viewSinks = {} /\ w.stream[c].runningRefCount = 0

\* Destroyed handles and sinks leave the lists when the next frame comes.
onVideoFrameChanged(w, c) ==
    LET counted == [w EXCEPT !.stream[c].lastFrame = TRUE,
                             !.stream[c].framesReceived = @ + 1,
                             !.stream[c].handles = {h \in @ : Exists(w, h)},
                             !.stream[c].viewSinks = @ \cap liveSinks]
    IN Show(PublishFrames(counted, c), w.stream[c].viewSinks, w.stream[c].dev)

onBackendErrorTextChanged(w, c, text) ==
    LET told == [w EXCEPT
            !.stream[c].errorText = text,
            !.stream[c].handles = {h \in @ : Exists(w, h)},
            !.handle = [h \in Handles |->
                IF h \in w.stream[c].handles /\ Exists(w, h)
                THEN [w.handle[h] EXCEPT !.errorText = text] ELSE w.handle[h]]]
    IN IF w.stream[c].errorText = text THEN w
       ELSE IF text = "" THEN told
       ELSE Show(told, w.stream[c].viewSinks, None)

-----------------------------------------------------------------------------
(* MediaCapture.  e is the error text a backend stream is created with. *)

FreeStreams(w) == {c \in Streams : w.stream[c].state = "free"}

\* Fault: the stream the map already holds is not reused.
ensureStreamForDeviceId_Always(w, d, e) ==
    IF d \notin plugged \/ FreeStreams(w) = {} THEN w
    ELSE LET c == CHOOSE f \in FreeStreams(w) : TRUE
         IN [w EXCEPT !.cameraStreams[d] = c, !.stream[c] = NewStream("live", d, e)]

ensureStreamForDeviceId(w, d, e) ==
    IF w.cameraStreams[d] # None \/ d \notin plugged THEN w
    ELSE LET c == CHOOSE f \in FreeStreams(w) : TRUE
         IN [w EXCEPT !.cameraStreams[d] = c, !.stream[c] = NewStream("live", d, e)]

\* The tail of unregisterViewSink() and of setHandleRunning().
DropIfUnused(w, d, c) ==
    IF isUnused(w, c)
    THEN [setActive([w EXCEPT !.cameraStreams[d] = None], c, FALSE)
             EXCEPT !.stream[c].state = "doomed"]
    ELSE w

registerViewSink(w, h, e) ==
    LET d == w.handle[h].dev
        v == ensureStreamForDeviceId(w, d, e)
        c == v.cameraStreams[d]
    IN IF c # None
       THEN [addViewSink(addHandle(v, c, h), c, v.handle[h].viewSink)
                EXCEPT !.handle[h].registered = TRUE]
       ELSE [v EXCEPT !.handle[h].errorText = Unavailable]

\* Fault: detaching the last view does not look whether the stream is still used.
unregisterViewSink_Keeps(w, h) ==
    LET c == w.cameraStreams[w.handle[h].dev]
    IN IF c = None THEN w
       ELSE [w EXCEPT !.stream[c].viewSinks = @ \ {ViewSink(w, h)},
                      !.stream[c].handles = @ \ {h},
                      !.handle[h].registered = FALSE]

\* Fault: the sink is taken off the stream, the handle is not.
unregisterViewSink_LeavesHandle(w, h) ==
    LET d == w.handle[h].dev
        c == w.cameraStreams[d]
        left == [w EXCEPT !.stream[c].viewSinks = @ \ {ViewSink(w, h)},
                          !.handle[h].registered = FALSE]
    IN IF c = None THEN w ELSE DropIfUnused(left, d, c)

unregisterViewSink(w, h) ==
    LET d == w.handle[h].dev
        c == w.cameraStreams[d]
        left == [w EXCEPT !.stream[c].viewSinks = @ \ {ViewSink(w, h)},
                          !.stream[c].handles = @ \ {h},
                          !.handle[h].registered = FALSE]
    IN IF c = None THEN w ELSE DropIfUnused(left, d, c)

\* Fault: the camera follows the last call instead of the count.
setHandleRunning_LastCall(w, h, running, e) ==
    LET d == w.handle[h].dev
        v == IF running THEN ensureStreamForDeviceId(w, d, e) ELSE w
        c == v.cameraStreams[d]
    IN IF c # None
       THEN DropIfUnused(setActive(incrementRunningRefCount(v, c, running), c, running), d, c)
       ELSE IF running THEN [v EXCEPT !.handle[h].errorText = Unavailable]
       ELSE v

setHandleRunning(w, h, running, e) ==
    LET d == w.handle[h].dev
        v == IF running THEN ensureStreamForDeviceId(w, d, e) ELSE w
        c == v.cameraStreams[d]
        counted == incrementRunningRefCount(v, c, running)
    IN IF c # None
       THEN DropIfUnused(setActive(counted, c, counted.stream[c].runningRefCount > 0), d, c)
       ELSE IF running THEN [v EXCEPT !.handle[h].errorText = Unavailable]
       ELSE v

-----------------------------------------------------------------------------
(* CameraPreviewHandle *)

setRunning(w, h, running, e) ==
    IF w.handle[h].running = running THEN w
    ELSE setHandleRunning([w EXCEPT !.handle[h].running = running], h, running, e)

\* unregisterViewSink() followed by m_registered = false.
Unregister(w, h) ==
    IF w.handle[h].registered
    THEN [unregisterViewSink(w, h) EXCEPT !.handle[h].registered = FALSE]
    ELSE w

setViewSink(w, h, s, e) ==
    LET v == [Unregister(w, h) EXCEPT !.handle[h].viewSink = s]
    IN IF ViewSink(w, h) = s THEN w
       ELSE IF s # None THEN registerViewSink(v, h, e)
       ELSE v

acquireCameraPreviewHandle(w, d, h) == [w EXCEPT !.handle[h] = NewHandle("alive", d)]

close(w, h) ==
    [setViewSink(setRunning(w, h, FALSE, ""), h, None, "") EXCEPT !.handle[h].state = "closing"]

\* Fault: the destructor detaches the view and forgets the running request.
destroyHandle_StillRunning(w, h) ==
    [Unregister(w, h) EXCEPT !.handle[h] = NewHandle("free", None)]

\* ~CameraPreviewHandle()
destroyHandle(w, h) ==
    [Unregister(setRunning(w, h, FALSE, ""), h) EXCEPT !.handle[h] = NewHandle("free", None)]

-----------------------------------------------------------------------------
Init == /\ plugged \in SUBSET Devices
        /\ cameraStreams = [d \in Devices |-> None]
        /\ stream = [c \in Streams |-> NewStream("free", None, "")]
        /\ handle = [h \in Handles |-> NewHandle("free", None)]
        /\ sinkShows = [s \in Sinks |-> None]
        /\ liveSinks = Sinks

\* A handle slot is taken again only when no stream lists it any more.
Acquire(h, d) ==
    /\ handle[h].state = "free"
    /\ \A c \in Streams : h \notin stream[c].handles
    /\ Become(acquireCameraPreviewHandle(World, d, h))
    /\ UNCHANGED <<plugged, liveSinks>>

MayUse(h, s) == SharedSinks \/ \A g \in Handles \ {h} : handle[g].viewSink # s

\* Bound: a call that may open the device finds a free slot for the stream, or the stream.
RoomForStream(h) == \/ FreeStreams(World) # {}
                    \/ cameraStreams[handle[h].dev] # None

SetViewSink(h, s) ==
    /\ handle[h].state = "alive"
    /\ s # None => /\ MayUse(h, s)
                   /\ RoomForStream(h)
                   /\ handle[h].registered => FreeStreams(World) # {}
    /\ \E e \in BackendTexts : Become(setViewSink(World, h, s, e))
    /\ UNCHANGED <<plugged, liveSinks>>

SetRunning(h, running) ==
    /\ handle[h].state = "alive"
    /\ running => RoomForStream(h)
    /\ \E e \in BackendTexts : Become(setRunning(World, h, running, e))
    /\ UNCHANGED <<plugged, liveSinks>>

Close(h) == /\ handle[h].state = "alive"
            /\ Become(close(World, h))
            /\ UNCHANGED <<plugged, liveSinks>>

\* The deferred deletion of a closed handle, or its owner's destruction.
DestroyHandle(h) == /\ handle[h].state # "free"
                    /\ Become(destroyHandle(World, h))
                    /\ UNCHANGED <<plugged, liveSinks>>

DestroyStream(c) ==
    /\ stream[c].state = "doomed"
    /\ stream' = [stream EXCEPT ![c] = NewStream("free", None, "")]
    /\ UNCHANGED <<plugged, cameraStreams, handle, sinkShows, liveSinks>>

\* "The caller must ensure it outlives this handle or detach it", unless SinkDeaths.
DestroySink(s) ==
    /\ s \in liveSinks
    /\ SinkDeaths \/ \A h \in Handles : handle[h].viewSink # s
    /\ liveSinks' = liveSinks \ {s}
    /\ sinkShows' = [sinkShows EXCEPT ![s] = None]
    /\ UNCHANGED <<plugged, cameraStreams, stream, handle>>

\* A started backend produces a frame: posted to the UI thread, or emitted there.
BackendFrame(c) ==
    /\ stream[c].active /\ ~stream[c].lost
    /\ stream[c].framesReceived + stream[c].pending < MaxFrames
    /\ IF QueuedDelivery
       THEN /\ stream[c].pending < MaxPending
            /\ stream' = [stream EXCEPT ![c].pending = @ + 1]
            /\ UNCHANGED <<cameraStreams, handle, sinkShows>>
       ELSE Become(onVideoFrameChanged(World, c))
    /\ UNCHANGED <<plugged, liveSinks>>

DeliverFrame(c) ==
    /\ stream[c].pending > 0
    /\ Become(onVideoFrameChanged([World EXCEPT !.stream[c].pending = @ - 1], c))
    /\ UNCHANGED <<plugged, liveSinks>>

BackendErrorText(c, text) ==
    /\ stream[c].state # "free"
    /\ text # stream[c].errorText
    /\ Become(onBackendErrorTextChanged(World, c, text))
    /\ UNCHANGED <<plugged, liveSinks>>

Plug(d) == /\ d \notin plugged
           /\ plugged' = plugged \cup {d}
           /\ UNCHANGED <<cameraStreams, stream, handle, sinkShows, liveSinks>>

\* The streams opened on the device get nothing from it again.
Unplug(d) ==
    /\ d \in plugged
    /\ plugged' = plugged \ {d}
    /\ stream' = [c \in Streams |->
                     IF stream[c].dev = d THEN [stream[c] EXCEPT !.lost = TRUE] ELSE stream[c]]
    /\ UNCHANGED <<cameraStreams, handle, sinkShows, liveSinks>>

Next == \/ \E h \in Handles : \/ \E d \in Devices : Acquire(h, d)
                              \/ \E s \in liveSinks \cup {None} : SetViewSink(h, s)
                              \/ \E r \in BOOLEAN : SetRunning(h, r)
                              \/ Close(h)
                              \/ DestroyHandle(h)
        \/ \E c \in Streams : \/ DestroyStream(c)
                              \/ BackendFrame(c)
                              \/ DeliverFrame(c)
                              \/ \E t \in BackendTexts : BackendErrorText(c, t)
        \/ \E s \in Sinks : DestroySink(s)
        \/ \E d \in Devices : Plug(d) \/ Unplug(d)

Spec == Init /\ [][Next]_vars

-----------------------------------------------------------------------------
(* Properties of every sequence of calls *)

Runners(d) == {h \in Handles : handle[h].state # "free" /\ handle[h].dev = d /\ handle[h].running}

\* "Capture stops immediately when no handles remain running for that device id": whatever
\* is closed, destroyed, unplugged or refused, a camera is on only while a handle runs it.
NoOrphanCapture == \A c \in Streams : stream[c].active => Runners(stream[c].dev) # {}

\* "Setting running on multiple handles for the same device id still results in one
\* opened device": a stream that is on is the one the map holds for its device.
OneCapturePerDevice ==
    \A c \in Streams : stream[c].active => cameraStreams[stream[c].dev] = c

\* The reference count of setHandleRunning() decides the camera, and never counts more
\* handles than run (it may count fewer: see CaptureOutlivesNoRunner).
CountedCapture ==
    \A d \in Devices : cameraStreams[d] # None =>
        LET s == stream[cameraStreams[d]]
        IN /\ s.state = "live" /\ s.dev = d
           /\ s.active = (s.runningRefCount > 0)
           /\ s.runningRefCount <= Cardinality(Runners(d))

\* No view that comes or goes, and no error, switches a camera off: some handle of the
\* device stopped running in the very step in which the capture stopped.
CaptureStopsByAStop ==
    [][\A c \in Streams : stream[c].active /\ ~stream'[c].active =>
          \E h \in Handles : h \in Runners(stream[c].dev) /\ h \notin Runners(stream[c].dev)']_vars

\* A camera that goes off leaves no picture in a view: every sink the stream lists when the
\* capture stops, or was listing when its last handle let go, is blank after the step.
StopBlanksViews ==
    [][\A c \in Streams : stream[c].active /\ ~stream'[c].active =>
          \A s \in stream[c].viewSinks \cap liveSinks : sinkShows'[s] = None]_vars

(* Properties that rest on the caller's part of the contract: sinks outlive the
   handles that use them, and no two handles share one. *)

\* activeCameraCount() leaks nothing: a stream stays in the map only for a handle that is
\* attached to it or runs it (the removal in unregisterViewSink and setHandleRunning).
StreamsAreUsed ==
    \A d \in Devices : cameraStreams[d] # None =>
        \E h \in Handles : /\ handle[h].state # "free" /\ handle[h].dev = d
                           /\ handle[h].registered \/ handle[h].running

\* A registered handle is listed by its device's stream and shows that stream's frame state
\* and error: no fan-out, stop, error, late frame or re-attachment to a new stream
\* leaves one behind.
AttachedMirrorsStream ==
    \A h \in Handles : handle[h].registered =>
        LET c == cameraStreams[handle[h].dev]
        IN /\ c # None /\ h \in stream[c].handles
           /\ handle[h].hasFrame = stream[c].lastFrame
           /\ handle[h].framesReceived = stream[c].framesReceived
           /\ handle[h].errorText = stream[c].errorText

\* A device's stream lists exactly the handles attached to it and their sinks, and a stream
\* out of the map lists nothing: no attached view misses its frames, and what is detached or
\* closed gets none, whichever of views and running requests goes first.
ListsExactlyAttached ==
    \A c \in Streams :
        LET attached == {h \in Handles : /\ handle[h].registered
                                         /\ cameraStreams[handle[h].dev] = c}
        IN /\ stream[c].handles = attached
           /\ stream[c].viewSinks = {handle[h].viewSink : h \in attached}

\* "Capture stops ... when no handles remain running": the capture of a device does not
\* stop under a handle that goes on running and was told of no error.
CaptureOutlivesNoRunner ==
    [][\A c \in Streams : stream[c].active /\ ~stream'[c].active =>
          \A h \in Runners(stream[c].dev)' : handle'[h].errorText # ""]_vars

=============================================================================
