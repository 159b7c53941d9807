------------------------ MODULE RoutingCameraBackend ------------------------
(***************************************************************************)
(* What MediaCapture has on Windows: a router that gives a device id to the *)
(* DirectShow backend or to the Qt Multimedia backend by its prefix, and    *)
(* the enumeration in which both look the id up.  An id is read as its      *)
(* prefix and the device behind it; the hexadecimal encoding of the device  *)
(* is one-to-one and left out.                                              *)
(*                                                                          *)
(* One stream at a time is open: DShowCameraBackend's, or one of Qt.        *)
(***************************************************************************)
EXTENDS DShowCameraBackend

CONSTANTS
    Cameras,        \* records [api, key, name]; name "" is a camera without a friendly name
    None            \* no camera

ASSUME RoutingAssumption ==
    /\ \A c \in Cameras : c.api \in {"qt", "dshow"}
    /\ \A c, d \in Cameras : c.api = d.api /\ c.key = d.key => c = d
    /\ None \notin Cameras

VARIABLES
    opened,         \* the camera whose stream was asked for last
    device,         \* the camera the backend found for it
    description,    \* what descriptionForId() said of it afterwards
    qt              \* the Qt stream: "none", "stopped" or "running"

routing == <<opened, device, description, qt>>
allVars == <<vars, routing>>

-----------------------------------------------------------------------------
(* Ids and enumeration *)

IdOf(c) == [prefix |-> IF c.api = "dshow" THEN "dshow:" ELSE "", key |-> c.key]

isDShowId(id) == id.prefix = "dshow:"

\* What DirectShow lists of the cameras that are there: a camera without a friendly name has
\* its moniker's name; nothing is listed if COM fails.
enumerateVideoInputs(present, comOk) ==
    IF comOk
    THEN {[key |-> c.key, stableId |-> IdOf(c), name |-> IF c.name = "" THEN c.key ELSE c.name] :
              c \in {d \in present : d.api = "dshow"}}
    ELSE {}

\* Fault: the first camera of the list is as good as any.
dshowDescription_First(id, present, comOk) ==
    LET list == enumerateVideoInputs(present, comOk)
    IN IF list = {} THEN "" ELSE (CHOOSE v \in list : TRUE).name

dshowDescription(id, present, comOk) ==
    LET found == {v \in enumerateVideoInputs(present, comOk) : v.stableId = id}
    IN IF found = {} THEN "" ELSE (CHOOSE v \in found : TRUE).name

\* Qt's own enumeration; its ids have no prefix.
findCameraDevice(id, present) == {c \in present : c.api = "qt" /\ c.key = id.key}

qtDescription(id, present) ==
    IF findCameraDevice(id, present) = {} THEN "" ELSE (CHOOSE c \in findCameraDevice(id, present) : TRUE).name

descriptionForId(id, present, comOk) ==
    IF isDShowId(id) THEN dshowDescription(id, present, comOk) ELSE qtDescription(id, present)

\* The moniker that a stable id names, if the camera is there.
MonikerOf(id, present) == {c \in present : c.api = "dshow" /\ c.key = id.key}

-----------------------------------------------------------------------------
NothingOpen == life = "none" /\ qt = "none" /\ uiPc = "loop"

RoutingInit == Init /\ opened = None /\ device = None /\ description = "" /\ qt = "none"

\* createStream() for the id of a camera.  DirectShow's is not looked up in a list: the id is decoded
\* to the moniker and the moniker bound.
createStreamFor(c, present, comOk) ==
    /\ NothingOpen
    /\ opened' = c
    /\ IF isDShowId(IdOf(c))
       THEN LET found == MonikerOf(IdOf(c), present)
            IN /\ createStream
               /\ found = {} \/ ~comOk => ~owner'
               /\ device' = IF found = {} THEN None ELSE CHOOSE d \in found : TRUE
               /\ UNCHANGED qt
       ELSE LET found == findCameraDevice(IdOf(c), present)
            IN /\ qt' = IF found = {} THEN "none" ELSE "stopped"
               /\ device' = IF found = {} THEN None ELSE CHOOSE d \in found : TRUE
               /\ UNCHANGED vars

\* What descriptionForId() may say of a camera's id, whichever cameras are there when it is asked.
DescriptionsOf(c) == {descriptionForId(IdOf(c), look[1], look[2]) : look \in (SUBSET Cameras) \X BOOLEAN}

CreateStream(c) == \E present \in SUBSET Cameras, comOk \in BOOLEAN : createStreamFor(c, present, comOk)

\* MediaCapture asks for the stream and, if there is one, for its description: two calls, of which
\* each sees the cameras that are there at its time, and COM as it answers then.
ensureStreamForDeviceId(c) ==
    /\ CreateStream(c)
    /\ IF life' = "open" \/ qt' # "none" THEN description' \in DescriptionsOf(c) ELSE description' = ""

\* QtCameraStreamBackend: start, stop and the destructor; its frames are the sink's.
qtStart == /\ qt = "stopped" /\ qt' = "running"
           /\ UNCHANGED <<vars, opened, device, description>>

qtStop == /\ qt = "running" /\ qt' = "stopped"
          /\ UNCHANGED <<vars, opened, device, description>>

qtDestroy == /\ qt # "none" /\ qt' = "none"
             /\ UNCHANGED <<vars, opened, device, description>>

DShowStep == /\ \/ start \/ stop \/ StopReturns \/ onNoFrameTimeout \/ setNoVideoError
                \/ RunPosted \/ destroy \/ detachOwner \/ releaseMembers
                \/ SampleCB \/ InCallback
             /\ UNCHANGED routing

RoutingNext == \/ \E c \in Cameras : ensureStreamForDeviceId(c)
               \/ DShowStep \/ qtStart \/ qtStop \/ qtDestroy

RoutingSpec == RoutingInit /\ [][RoutingNext]_allVars /\ Fairness

-----------------------------------------------------------------------------
\* "I choose an underlying camera backend based on the device id prefix": an open stream is one
\* of the camera whose id was asked for, of the right backend, and is described as that camera or
\* not at all, whichever cameras come and go, and whether or not COM fails, between the two
\* look-ups: a camera with the same key of the other backend, or one that took the place of the
\* opened one in the list, never gives it its name.
StreamOfItsCamera ==
    (life = "open" \/ qt # "none") =>
        /\ device = opened
        /\ (qt # "none") = (opened.api = "qt")
        /\ description \in {"", opened.name, opened.key}
=============================================================================
