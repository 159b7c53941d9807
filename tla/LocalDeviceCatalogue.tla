------------------------ MODULE LocalDeviceCatalogue ------------------------
(***************************************************************************)
(* The catalogue of local devices that QML shows: one refresh timer that   *)
(* collapses bursts of change signals, the refresh in its three modes, the *)
(* memory of missing devices, and the Linux rescan loop.  The window list  *)
(* is the business of WindowCaptureWatcher.                                *)
(*                                                                         *)
(* The platform is external: devices come and go, Qt Multimedia enumerates *)
(* what it has noticed and posts a signal when that changes.  A silent     *)
(* camera (v4l2loopback) is noticed only when a rescan asks for it.  What  *)
(* only DirectShow knows is enumerated in a refresh, and nothing announces *)
(* it: such a camera comes to the list, or goes, with the next refresh     *)
(* that something else causes.                                             *)
(***************************************************************************)
EXTENDS DeviceMemoryCache, FakeDeviceNameGenerator

CONSTANTS
    Devices,         \* records [id, name, kind, api, silent]: every device of the machine
    Screens,         \* QScreen objects
    Geometries,      \* what a screen's geometry, work area and pixel ratio can be
    Capacity,        \* entries a memory keeps (20 in the constructor)
    Environments,    \* records [mode, linux, rescan] a run can start in
    MaxChanges       \* bound: changes of the platform

Kinds == {"camera", "microphone", "output"}

\* How requestVideoInputsRescan() ends: checkCameras() was invoked; it cannot be, ever
\* ("unavailable on this platform", "private headers not available"); not yet, because the
\* integration is not initialised; or the backend has no such slot.
Rescan == {"invoked", "permanent", "notYet", "noSlot"}

ASSUME CatalogueAssumption ==
    /\ IsFiniteSet(Devices)
    /\ \A d \in Devices : /\ d.id \in Nat /\ d.name \in Nat /\ d.kind \in Kinds
                          /\ d.api \in {"qt", "dshow"} /\ d.silent \in BOOLEAN
    /\ \A c, d \in Devices : c.id = d.id => c = d
    /\ Capacity \in Nat /\ MaxChanges \in Nat
    /\ Environments \subseteq
          [mode : {"headless", "fake", "real"}, linux : BOOLEAN, rescan : Rescan]

VARIABLES
    env,            \* the mode of the run, and how requestVideoInputsRescan() ends
    present,        \* devices of the machine
    noticed,        \* those Qt Multimedia enumerates
    default,        \* the default device of each kind, a set of at most one
    screenGeometry, \* connected screens
    changes,        \* how often the platform changed
    signals,        \* kinds whose change signal is posted
    scheduled,      \* m_refreshTimer is active
    rescanning,     \* m_videoInputsRescanTimer is active
    memory,         \* m_cameraMemory, m_microphoneMemory, m_audioOutputMemory
    list,           \* m_cameras, m_microphones, m_audioOutputs
    screens,        \* m_screens
    status,         \* m_cameraDiscoveryStatus is not empty
    refreshes,      \* history: refreshes of the real lists
    seenAt          \* history: the last of them that enumerated a device

platform == <<env, present, noticed, default, screenGeometry, changes>>
catalogue == <<memory, list, screens, status>>
vars == <<platform, signals, scheduled, rescanning, catalogue, refreshes, seenAt>>

\* What can be the default device of a kind among those enumerated.
Defaults(k, seen) ==
    LET qt == {d \in seen : d.kind = k /\ d.api = "qt"}
    IN IF qt = {} THEN {{}} ELSE {{d} : d \in qt}

-----------------------------------------------------------------------------
(* The constructor *)

\* DirectShow exists on Windows, v4l2loopback on Linux.
Possible == {d \in Devices : /\ d.api = "dshow" => ~env.linux
                             /\ d.silent => env.linux}

PermanentlyUnsupported == env.linux /\ env.mode = "real" /\ env.rescan = "permanent"

Init == /\ env \in Environments
        /\ present \in SUBSET Possible
        /\ noticed = {d \in present : d.api = "qt" /\ (d.silent => env.rescan = "invoked")}
        /\ default = [k \in Kinds |-> CHOOSE D \in Defaults(k, noticed) : TRUE]
        /\ screenGeometry = [s \in Screens |-> CHOOSE g \in Geometries : TRUE]
        /\ changes = 0
        /\ signals = {}
        /\ scheduled = TRUE
        /\ rescanning = (env.linux /\ env.mode = "real" /\ env.rescan # "permanent")
        /\ memory = [k \in Kinds |-> DeviceMemoryCache(Capacity)]
        /\ list = [k \in Kinds |-> {}]
        /\ screens = {}
        /\ status = PermanentlyUnsupported
        /\ refreshes = 0
        /\ seenAt = [d \in Devices |-> 0]
-----------------------------------------------------------------------------
(* refresh(): what the platform enumerates now, sorted by name *)

\* Qt's list, and what DirectShow finds now.
EnumeratedIn(k) == {d \in noticed : d.kind = k} \cup {d \in present : d.kind = k /\ d.api = "dshow"}

Info(d) == [id |-> d.id, name |-> d.name, isDefault |-> d \in default[d.kind]]

\* Fault: a DirectShow camera is listed beside the Qt camera it is.
Snapshot_KeepsTwins(k) == {Info(d) : d \in EnumeratedIn(k)}

\* A DirectShow camera whose name Qt lists is the same camera.
Snapshot(k) ==
    LET qt == {d \in EnumeratedIn(k) : d.api = "qt"}
        dshow == {d \in EnumeratedIn(k) \ qt : \A c \in qt : c.name # d.name}
    IN {Info(d) : d \in qt \cup dshow}

Available(k) == {[id |-> i.id, name |-> i.name, isDefault |-> i.isDefault, available |-> TRUE] :
                    i \in Snapshot(k)}

refreshStatus == PermanentlyUnsupported

ScreenList == {[id |-> s, geometry |-> screenGeometry[s]] : s \in DOMAIN screenGeometry}

RefreshReal ==
    /\ env.mode = "real"
    /\ screens' = ScreenList
    /\ memory' = [k \in Kinds |-> updateFromSnapshot(memory[k], Snapshot(k))]
    /\ list' = [k \in Kinds |-> Available(k) \cup Missing(memory'[k], IdsOf(Snapshot(k)))]
    /\ status' = refreshStatus
    /\ refreshes' = refreshes + 1
    /\ seenAt' = [d \in Devices |->
                     IF d.id \in IdsOf(Snapshot(d.kind)) THEN refreshes' ELSE seenAt[d]]

\* Without a GUI application nothing is enumerated.
RefreshHeadless ==
    /\ env.mode = "headless"
    /\ memory' = [k \in Kinds |-> clear(memory[k])]
    /\ list' = [k \in Kinds |-> {}]
    /\ screens' = {}
    /\ status' = FALSE
    /\ UNCHANGED <<refreshes, seenAt>>

\* Invented devices, the first of each list the default, none of them remembered.  A list has
\* the names of the one before nine times in ten.
Invented(names) ==
    {[id |-> n, name |-> n, isDefault |-> \A o \in names : n <= o, available |-> TRUE] : n \in names}

NamesOf(entries) == {e.name : e \in entries}

RefreshFake ==
    /\ env.mode = "fake"
    /\ memory' = [k \in Kinds |-> clear(memory[k])]
    /\ \E names \in [Kinds -> generateSubset] :
         /\ \A k \in Kinds : names[k] \in maybeUpdateNames(NamesOf(list[k]), 90)
         /\ list' = [k \in Kinds |-> Invented(names[k])]
    /\ \E names \in maybeUpdateNames({s.id : s \in screens}, 90) :
         screens' = {[id |-> n, geometry |-> "fake"] : n \in names}
    /\ status' = FALSE
    /\ UNCHANGED <<refreshes, seenAt>>

\* The timer is single-shot, except in fake mode.
Refresh ==
    /\ scheduled
    /\ scheduled' = (env.mode = "fake")
    /\ RefreshReal \/ RefreshHeadless \/ RefreshFake
    /\ UNCHANGED <<platform, signals, rescanning>>

-----------------------------------------------------------------------------
(* What schedules a refresh *)

\* Fault: a signal that comes while a refresh is scheduled takes it off again.
onInputsChanged_Toggles(k) ==
    /\ k \in signals
    /\ signals' = signals \ {k}
    /\ scheduled' = ~scheduled
    /\ UNCHANGED <<platform, rescanning, catalogue, refreshes, seenAt>>

\* videoInputsChanged, audioInputsChanged or audioOutputsChanged: scheduleRefresh().
onInputsChanged(k) ==
    /\ k \in signals
    /\ signals' = signals \ {k}
    /\ scheduled' = TRUE
    /\ UNCHANGED <<platform, rescanning, catalogue, refreshes, seenAt>>

\* Qt Multimedia enumerates the devices of a kind anew, in a real run: if that changes
\* anything, it posts its signal.
Notice(kind, seen) ==
    /\ noticed' = {d \in noticed : d.kind # kind} \cup seen
    /\ IF noticed' = noticed
       THEN UNCHANGED <<default, signals>>
       ELSE /\ \E D \in Defaults(kind, noticed') : default' = [default EXCEPT ![kind] = D]
            /\ signals' = signals \cup {kind}

Cameras == {d \in present : d.kind = "camera"}

\* Fault: one failed rescan ends the loop.
onVideoInputsRescanTick_GivesUp ==
    /\ rescanning
    /\ rescanning' = (env.rescan = "invoked")
    /\ IF env.rescan = "invoked"
       THEN Notice("camera", Cameras) ELSE UNCHANGED <<noticed, default, signals>>
    /\ UNCHANGED <<env, present, screenGeometry, changes, scheduled, catalogue, refreshes, seenAt>>

\* Every 2 s; it stops for good only if the mechanism is permanently unsupported.
onVideoInputsRescanTick ==
    /\ rescanning
    /\ rescanning' = (env.rescan # "permanent")
    /\ status' = CASE env.rescan = "invoked" -> FALSE
                   [] env.rescan = "permanent" -> TRUE
                   [] OTHER -> status
    /\ IF env.rescan = "invoked"
       THEN Notice("camera", Cameras) ELSE UNCHANGED <<noticed, default, signals>>
    /\ UNCHANGED <<env, present, screenGeometry, changes, scheduled, memory, list, screens,
                   refreshes, seenAt>>

\* screenAdded or screenRemoved: scheduleRefresh().
onScreenAddedOrRemoved ==
    /\ scheduled' = (scheduled \/ env.mode = "real")
    /\ UNCHANGED <<signals, rescanning, catalogue, refreshes, seenAt>>

-----------------------------------------------------------------------------
(* The platform *)

Changes == changes < MaxChanges /\ changes' = changes + 1

\* A device is plugged in or out; Qt notices its own, unless it is a silent camera.
DeviceChanges(d) ==
    /\ env.mode = "real" /\ Changes
    /\ present' = IF d \in present THEN present \ {d} ELSE present \cup {d}
    /\ IF d.silent \/ d.api = "dshow"
       THEN UNCHANGED <<noticed, default, signals>>
       ELSE Notice(d.kind, {c \in noticed : c.kind = d.kind /\ c # d} \cup ({d} \cap present'))
    /\ UNCHANGED <<env, screenGeometry, scheduled, rescanning, catalogue, refreshes, seenAt>>

\* The user chooses another default device.
DefaultChanges(k) ==
    /\ env.mode = "real" /\ Changes
    /\ \E D \in Defaults(k, noticed) \ {default[k]} : default' = [default EXCEPT ![k] = D]
    /\ signals' = signals \cup {k}
    /\ UNCHANGED <<env, present, noticed, screenGeometry, scheduled, rescanning, catalogue,
                   refreshes, seenAt>>

\* The integration is initialised, and has the slot or has not.
IntegrationStarts ==
    /\ env.rescan = "notYet"
    /\ \E r \in {"invoked", "noSlot"} : env' = [env EXCEPT !.rescan = r]
    /\ UNCHANGED <<present, noticed, default, screenGeometry, changes, signals, scheduled,
                   rescanning, catalogue, refreshes, seenAt>>

ScreenComesOrGoes(s) ==
    /\ env.mode = "real" /\ Changes
    /\ \/ /\ s \in DOMAIN screenGeometry
          /\ screenGeometry' = Restrict(screenGeometry, DOMAIN screenGeometry \ {s})
       \/ /\ s \notin DOMAIN screenGeometry
          /\ \E g \in Geometries :
               screenGeometry' = [t \in DOMAIN screenGeometry \cup {s} |->
                                     IF t = s THEN g ELSE screenGeometry[t]]
    /\ onScreenAddedOrRemoved
    /\ UNCHANGED <<env, present, noticed, default>>

\* A screen is moved, resized or rescaled: no signal of QGuiApplication says so.
ScreenChangesGeometry(s) ==
    /\ env.mode = "real" /\ Changes
    /\ s \in DOMAIN screenGeometry
    /\ \E g \in Geometries \ {screenGeometry[s]} :
         screenGeometry' = [screenGeometry EXCEPT ![s] = g]
    /\ UNCHANGED <<env, present, noticed, default, signals, scheduled, rescanning, catalogue,
                   refreshes, seenAt>>

Next == \/ Refresh
        \/ \E k \in Kinds : onInputsChanged(k) \/ DefaultChanges(k)
        \/ onVideoInputsRescanTick
        \/ \E d \in Possible : DeviceChanges(d)
        \/ IntegrationStarts
        \/ \E s \in Screens : ScreenComesOrGoes(s) \/ ScreenChangesGeometry(s)

Spec == Init /\ [][Next]_vars

\* The event loop runs the timers that are active and delivers posted signals.
FairSpec == /\ Spec /\ WF_vars(Refresh) /\ WF_vars(onVideoInputsRescanTick)
            /\ \A k \in Kinds : WF_vars(onInputsChanged(k))

-----------------------------------------------------------------------------
ListedAvailable(k) == {e \in list[k] : e.available}
Known(k) == DOMAIN memory[k].known

\* A full memory forgets missing devices first: one that is listed as available is forgotten
\* only if every remembered one is available too.  Among the missing, those seen last stay:
\* no device is forgotten while one that disappeared in an earlier refresh is still listed.
ForgetsInOrder ==
    /\ \A k \in Kinds :
        /\ Cardinality(Known(k)) <= Capacity
        /\ env.mode = "real" /\ ~(IdsOf(ListedAvailable(k)) \subseteq Known(k))
             => list[k] = ListedAvailable(k)
    /\ \A c, d \in Devices :
        (/\ c.kind = d.kind
         /\ c.id \notin Known(c.kind) /\ d.id \in Known(d.kind)
         /\ seenAt[c] < refreshes /\ seenAt[d] < refreshes) => seenAt[c] <= seenAt[d]

\* No device is listed twice, and no two available cameras are one camera of two APIs.
ListedOnce ==
    /\ \A k \in Kinds : \A e, f \in list[k] : e.id = f.id => e = f
    /\ env.mode = "real" => \A c, d \in Devices :
          (/\ c.kind = "camera" /\ d.kind = "camera" /\ c.api # d.api
           /\ {c.id, d.id} \subseteq IdsOf(ListedAvailable("camera"))) => c.name # d.name

\* "This avoids UI dead-ends where a device vanishes from the list": what was listed stays
\* listed, available or not, until the memory is full.
ListedDevicesStay ==
    [][env.mode = "real" => \A k \in Kinds :
          IdsOf(list[k]) \subseteq IdsOf(list'[k]) \/ Cardinality(Known(k)') = Capacity]_vars

QtIds == {d.id : d \in {c \in Devices : c.api = "qt"}}
OfQt(entries) == {e \in entries : e.id \in QtIds}

\* Bursts and refreshes that race with new signals lose nothing: once the platform is quiet, the
\* lists say which devices Qt enumerates, with the right default.  Of the cameras that only
\* DirectShow lists nothing of the kind holds: no signal announces them, and the list has them as
\* the last refresh found them.
ListsCatchUp ==
    env.mode = "real" =>
        <>[](\A k \in Kinds : OfQt(ListedAvailable(k)) = OfQt(Available(k)))

\* The rescan loop finds the cameras that come without notice, also when the integration
\* starts after the catalogue.
SilentCamerasFound ==
    <>(env.mode = "real" /\ env.linux /\ env.rescan = "invoked") =>
        <>[](Cameras = EnumeratedIn("camera"))

=============================================================================
