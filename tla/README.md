# TLA+ models of vcstream

vcstream is a C++17/Qt 6 desktop application. At this commit the local half is
implemented: device discovery, camera preview, preferences, window placement and
the QML user interface. (Networking exists in the plans under `docs/` only.) This
directory holds TLA+ models of the parts whose correctness depends on the *order*
of events or on the limits of data, the TLC configurations that check them, and
machine-checked proofs of the results that should hold for every size of the system.

Run `tlc -config X.cfg M` for the pairs listed under [Runs](#runs), and `tlapm M.tla`
for the modules named `...Proofs`. `PROJECT.json` maps every definition to the lines
it models, and lists the hazards of the code with the properties that cover them.

## The system

Paths are relative to `src/`. Everything runs on the UI thread unless a line says
otherwise, so the unit of interleaving is one call, one delivered event or one timer.

| Component | State | Operations | Talks to |
|---|---|---|---|
| `MediaCapture`, `CameraStream` (`modules/devices/capture/mediacapture.cpp`) | map device id -> stream; per stream: backend, last frame, error text, frame count, running count, active flag, lists of sinks and handles | `acquireCameraPreviewHandle`, `registerViewSink`, `unregisterViewSink`, `setHandleRunning`, frame and error slots, `deleteLater` | calls handles and backends; signals from backends |
| `CameraPreviewHandle` | device id, sink, running, registered, hasFrame, framesReceived, errorText | `setRunning`, `setViewSink`, `close`, destructor | calls `MediaCapture`; held by QML |
| Camera backends (`qtcamerabackend`, `nullcamerabackend`, `routingcamerabackend`, `dshowcamerabackend-win32`) | the platform's camera; for DirectShow a filter graph, a timer, an error text and a reference-counted callback | `createStream`, `descriptionForId`, `start`, `stop`, destructor; `SampleCB` on the **streaming thread** | emit `videoFrameChanged`, `errorTextChanged` |
| `LocalDeviceCatalogue` | lists of screens, cameras, microphones, outputs, windows; two status texts; refresh and rescan timers; three memories | `refresh` (real, fake, headless), `scheduleRefresh`, `onVideoInputsRescanTick` | signals of `QMediaDevices` and `QGuiApplication`; the rescan shim; the DirectShow enumerator; `FakeDeviceNameGenerator` |
| `DeviceMemoryCache` | known devices with availability and last-seen serial, capacity | `updateFromSnapshot`, `evictIfNeeded`, `appendMissingToVariantList`, `clear` | owned by the catalogue |
| `WindowCaptureWatcher` | last list (windows, titles, ids), pending list, dirty flag, two timers | `refreshNow` (2 s), `refreshTitlesIfDirty` (30 s) | publishes lists to the catalogue |
| `FontPreviewSafetyCache` | status per (family, size), the set counted as stuck, the stuck counter, timers | `requestCheck`, `onCheckTimedOut`, `onCheckFinished` | `FontPreviewSafetyChecker`; font pickers |
| `FontPreviewSafetyCheckerDefault` | one `QThread` per check | `startCheck`, the slot of a worker's answer, destructor; `checkPreviewLooksSane` on **worker threads** | posts answers to the UI thread |
| Preview panels (`ShellPage.qml`, `PreferencesOverlay.qml`) | open, the device chosen, the handle held, a restart timer | start, stop, choose another camera, close | handles, catalogue, video items |
| `VcVideoPaintItem` | pending frame, image, throttle timer, update flag | frame slot, throttle timeout, `paint` | a sink given to a handle |
| `WindowRectFitter`, `WindowPlacement` | the stored rectangle | fit a rectangle into work areas; restore, repair and save | main window |
| `AppPreferences`, `AppSupervisor` | the preferences; the settings | setters, `reload`, `save`, `shutdown` | QML, `main()` |
| `main()`, `CrashGuard` | the objects, the environment of the process | start, load, end, or be killed | all of the above |
| Font probe (`apps/fontprobe`) | scenarios, worst exit code | orchestrator; one worker **process** per scenario | - |
| Colour, theme, start-up shims, other QML, camera probe, tests | - | - | - |

What is hard here, and hard to test: two clients of one camera whose running requests
and views come and go in any order, under hotplug; deletion that is deferred while a
successor already exists; samples on another thread while a stream is stopped or
destroyed; frames that were posted before a stop; timers that race with the answer they
wait for; threads and processes that never return; lists assembled from polls of a
desktop that keeps changing; a bounded memory over long histories; settings that a
killed run, another screen layout or an editor left behind.

## Modules

### Camera

**MediaCapture.tla** models `MediaCapture`, its streams and the handles. A `World`
record holds the objects; every C++ member function is an operator from a World to
a World (`addHandle`, `setActive`, `ensureStreamForDeviceId`, `unregisterViewSink`,
`setRunning`, `close`, ...), and an action composes them in the order of the calls
and assigns the result with `Become`. Handles and streams are slots: `free` is no
object, `closing` and `doomed` are objects with a pending `deleteLater()`. A
`QPointer` to a destroyed sink is a member of `viewSinks` that is not in
`liveSinks`; one to a destroyed handle is a listed handle that does not exist
(`Exists`). Pictures are abstracted to the device they come from. The backend is
external here: it may fail to open a device, report any error at any time, and deliver
frames while started - at once (`QueuedDelivery = FALSE`) or through the event queue
(`TRUE`), where they outlive `stop()`. `SharedSinks` and `SinkDeaths` let clients break
the documented contract of sinks. A device that is unplugged is lost to the streams
opened on it.

**CameraStreamBackend.tla** is what `MediaCapture` relies on, as an abstract
specification: a stream sends frames only between `start()` and the return of `stop()`;
what it sent may arrive later, but nothing arrives once the stream is gone; a `start()`
that fails leaves an error text.

**DShowCameraBackend.tla** is the DirectShow stream in two threads. `uiPc` is where the
UI thread is inside `stop()`, the timer's slot or the destructor; `pc` is where the
streaming thread is inside `SampleCB`. Each step is one access to what they share. The
error text is read by the streaming thread without a lock, so that each read is a step
of its own that may see the old or the new text. The callback object is a reference
count with its two holders. `initialise()` succeeds or fails at any of its stages;
the destructor then runs at once. The format is parsed as the code does, with the padded
stride, and the conversion is the set of bytes it reads of each row. `Backend` instantiates
`CameraStreamBackend` with a refinement mapping (the open flag, the graph's state, the
frames in the event queue, the error text), and `KeepsBackendContract` is its
specification.

**RoutingCameraBackend.tla** puts the router and the Qt backend in front of it, and the
look-ups of an id in the two enumerations: by prefix, then among the cameras that are
there at that moment. `ensureStreamForDeviceId` is what `MediaCapture` does with it: it
asks for the stream and, if there is one, for the description. Each of the two calls sees
a set of cameras, and COM working or not, of its own. Encoding a moniker in hexadecimal is
one-to-one and left out.

**VcVideoPaintItem.tla** is the item that paints in software: a record, changed by the frame slot,
the throttle and `paint()`. A frame and an image are the camera they are of. Serials are
only compared with each other, so one flag stands for "the pending frame was not painted".

**CameraPanels.tla** composes `MediaCapture` with the panels of the two QML pages and
with their items. Each QML function is one action with every call it makes; `Tell` gives the
items what the step showed on their sinks. Opening a panel for a camera makes that one
the panel's (`ShellPage.qml:142-171`, `PreferencesOverlay.qml:1206-1207`), whatever handle
it still has; what the catalogue lists may unset it or put another one in place of none.
The inspector of `ShellPage` starts
again from a timer of 0 ms when another camera is chosen, the page of the preferences
does not (`Restarting`). An item becomes visible once it has an image, which only
`paint()` makes (`ShellPage.qml:937-948`, `PreferencesOverlay.qml:1508-1519`): the
preview relies on the software scene graph painting an invisible item that asked for it,
which the constant `PaintsHidden` states. With `FALSE`, `PreviewIsPainted` fails.

### Devices

**WindowCaptureWatcher.tla** has a desktop that opens, closes and renames windows
between the two timers. A list is the set of its (id, name) entries; sorting by name
carries no further state. The slow tick cannot come twice without a fast poll in
between (`polled`), as the periods are 30 s and 2 s.

**DeviceMemoryCache.tla** is a record and operators, as in the code the cache is a
value of its owner. `evictIfNeeded` is a recursive function over the remaining ids.
**FakeDeviceNameGenerator.tla** gives the subsets and renamings of the debug mode.
**LocalDeviceCatalogue.tla** owns three memories. Of the platform, Qt enumerates what
it has noticed and posts a signal when that changes; a *silent* camera is noticed
only by the rescan. DirectShow announces nothing: its cameras are enumerated when a
refresh runs, and one that comes or goes is listed as the last refresh found it. Posted signals are a set: a second one of a kind before the first
is delivered has no effect of its own, as `scheduleRefresh` is idempotent. The window
list is left to the watcher, whose `refreshNow` also runs in `refresh()`: for the
watcher that is one more poll.

### Fonts

**FontPreviewSafetyCache.tla** is the policy of font checks, with the checker as its
contract: it answers once, late or never. The mutex of the code is not modelled
because all its users run on one thread. **FontPreviewSafetyCheckerDefault.tla**
extends it with the real checker: worker threads, the answers they post, the slot
that deletes the thread, and the destructor with its bounded wait. **FontSanity.tla** is
the verdict a worker reaches: the thresholds of `checkPreviewLooksSane()` over sets of
inked pixels, with pictures that may be missing or empty. **VcFontPicker.tla** is who asks:
a row of the picker when its delegate is created in an open popup, every row that exists
when the popup has opened, the sample of the preferences when it is created and when a
family is selected. A handler that asks for several keys runs to its end before the event
loop goes on (`asking`). Nothing asks because a status changes: a blocked row stays so
while the popup just stays open.

**FontProbe.tla** is the probe: an orchestrator, its worker processes, which may stop,
crash, fail, be ended by a library with a code of its own or never start, and the window of
families around the one that is probed. `drawn` says whether a worker saved its picture,
which is more than its code does: `runQtQuickScrollStress` ends with 0 also when there is no
image or it cannot be saved (`fontprobe/main.cpp:990-1002`).

### Session

**WindowRectFitter.tla** has `fit()` as operators: the edges of a region, the candidate
positions, the scores in the code's order, and the binary search for a size. `BestFits`
says what the fit promises without candidates, as a reference to compare with.
**WindowPlacement.tla** restores, repairs and saves; a save writes four keys one after
another. **AppPreferences.tla** has the setters with their clamps, `reload()` over
anything that is stored, and `save()`, which sets twelve settings one after another.
**AppSession.tla** is `main()`: runs that start,
load their window, are edited and dragged about, end in order or are killed at any
point, and leave their settings to the next run. A kill between two settings of a save
leaves the first of them new and the others as they were (`DieInSave`, `DieInPlacement`), as the
registry of Windows does; a save that is not cut off is one step, as no one else reads the
settings meanwhile.

Operators and actions whose comment begins with `Fault:` are deliberately wrong
variants of the definition next to them. No specification uses them: substituted for
that definition they show that a property would notice the mistake.

## Runs

| Run | Module | Checks |
|---|---|---|
| MediaCapture | MCMediaCapture | two clients that keep the sink contract, in any order of calls, with late frames: a camera is on only for a running handle, once per device, counted, stopped only by a stop that blanks its views; no leaked stream; lists, handles and streams agree after every call |
| CameraPanels | CameraPanels | two panels, one camera with failures and hotplug: a running preview comes to show the newest frame |
| CameraPanelsTwoCameras | MCCameraPanels | two panels, two cameras: no picture of a stopped camera, or of one that a panel was changed from, stays or comes back |
| CameraBackends | MCRoutingCameraBackend | two threads: callback and owner outlive each sample, no byte outside it, errors settle, `stop()` returns, a silent camera is told, the stream is the right camera's; refines `CameraStreamBackend` |
| FontPicker | MCVcFontPicker | timeouts, late answers, back-pressure, threads and their destruction; every row of an open popup and the selected family are asked for; a row at which the popup is opened again gets the verdict of its font |
| WindowWatcher | WindowCaptureWatcher | ids, pending titles, catching up with the desktop |
| DeviceCatalogue | MCLocalDeviceCatalogue | memory, deduplication, coalescing, rescan, in three modes and on two platforms |
| AppSession | MCAppSession | preferences, renderer and window across runs, kills (also inside a save) and screens; the fit against its reference |
| FontProbe | MCFontProbe | the probe ends, tells every failure but two that it names, and keeps the probed family in its list |
| MediaCaptureStolenCount | MCMediaCapture | **violated**: the capture stops under a running handle |
| CameraPanelsRelease | CameraPanels | **violated**: a closed inspector captures |
| WindowWatcherTitles | WindowCaptureWatcher | **violated**: a title is never shown |

### What the violated runs show

1. *MediaCaptureStolenCount.* h1 is set running while the camera is missing: no
   stream, no count. The camera is plugged in, h2 is set running: count 1. h1 is set
   not running: count 0, the camera goes off under h2, which stays `running` with no
   error. `CountedCapture` (count never above the number of runners) holds; equality
   does not.
2. *CameraPanelsRelease.* Another camera is chosen while the inspector's preview is on:
   the preview stops and a timer is set to start it again. The inspector is closed before
   the timer fires; the timer starts the capture all the same. The window is one round of the
   event loop wide; the panel of the preferences has no such timer. It goes on: opened for
   another camera, the inspector selects that one (`openSourceInspectorDevice` does not look
   at the preview) and still shows the first. The picture is not taken for the other
   camera's by any step after that: `NoOldPicture` compares with the camera of the handle,
   and holds.
3. *WindowWatcherTitles.* A title changes after the poll that made an earlier change
   pending: the slow tick publishes the old text and stores the new one as known.

Differences that were met while modelling and have no run of their own: a frame posted
before `stop()` is stored and shown by the stopped stream;
checks in flight together can all hang, more than the limit, which counts only those that
have timed out; a row of an open font picker that was blocked is not asked for again when a
place gets free; a DirectShow camera that comes or goes is announced by nothing, and neither is a
screen that is moved, resized or rescaled, as only `screenAdded` and `screenRemoved` are
connected (`localdevicecatalogue.cpp:146-148`); the exit
code of the font probe has neither a scroll scenario without a picture nor a negative code
of a worker, which `qMax` with 0 drops (`fontprobe/main.cpp:990-1002`, `1133`); a stored number that is garbled is read as 0 and clamped
instead of falling back to its default (`apppreferences.cpp:280-297`); `--stress-scan` is
not passed on to the workers of the font probe (`fontprobe/main.cpp:1065-1100`); the
DirectShow backend drops a sample without a word if no image can be allocated.

### Bounds, and why they are enough

- *Capture:* two handles are the smallest number of clients that can disagree, and one
  device suffices because no operation touches the streams of another device. Two
  stream slots allow the old stream to wait for its deletion beside its successor. Two
  sinks, which the handles do not share and which do not die in use: clients that share
  sinks or let them die are left to the theorems, which have them. Frames that come at
  once instead of through the queue are in `MediaCaptureStolenCount` and the theorems. `MaxFrames` (1 or 2) and
  `MaxPending` (1) bound counting and queueing; nothing compares a frame count with
  anything but another copy of it. Handles and sinks are symmetric; symmetry is not used
  with liveness. `RoomForStream` is the bound of the slots: a call that must open a
  device waits for a free one.
- *Panels:* two panels contend for one device in one stream slot; choosing "another"
  camera may choose the same one again, and runs the same code. The item of one panel is
  followed, as items do not interact. The frame count stops at `MaxFrames` while frames
  go on. Two panels over two cameras are out of reach of a run with liveness or with
  failures; `CameraPanelsTwoCameras` has them with cameras that stay plugged in and report no
  errors (`CamerasStay`), and the theorem `NothingOldShown` has every mixture.
- *Backends:* up to two offered formats of six kinds, an odd and an even width, both row directions,
  a header without a picture; three posted calls are one callback's two beside an older one.
  Three cameras: the same key in both APIs, and one without a friendly name; each look-up may
  see any of their subsets. The proofs below drop these bounds.
- *Fonts:* two rows and one sample contend for a limit of two, so that there are keys on
  both sides of it and a row is blocked by the others; three threads are as many as can
  run. Two systems give the three keys five fonts, one plain and four that take both sides
  of the decisions which can be told apart in twelve pixels.
- *Windows:* three windows, two titles, four desktop changes: two changes race with one
  poll, and two more follow.
- *Catalogue:* four cameras (two ordinary, a silent one, a DirectShow twin) with memory
  for two, three platform changes; microphones and outputs run the same code and stay
  empty.
- *Session:* a window of at least 3x2 pixels on screens of up to 4x3, in layouts without a
  screen, with one, with two of different height, with a gap, and with none that holds the
  window; stored placements with missing keys, negative sizes and positions off the
  screen. What the fit decides depends on the order of edges only, and these layouts have
  the orders that the code tells apart.
- *Font probe:* four installed families, the probed one first, last, or not installed;
  bounds from -1 to 3; a library may end a worker with -1 or with 3, the code of `abort()` on
  Windows, which the orchestrator takes for a missing Qt Quick.

### Fairness

The event loop runs active timers and delivers posted calls: weak fairness on timers,
posted frames, posted answers and signals. A function that began goes on: weak fairness
on the steps of the destructor and of the callback. `Stop()` of DirectShow lets no
further sample in for good, so its return has strong fairness: samples come and go while
it waits. A started, connected backend of a panel goes on producing frames, and the
scene graph paints what asked for it. The orchestrator of the font probe goes on and its
waits end; a worker owes nothing, not even to start. No user, device, camera, checker or
desktop owes anything. That the font stack returns (`FontStackReturns`) is an assumption in the
formula of `ReopenedRowsGetTheirVerdict`, and so is that the user opens the popup at a row
again and again: it is the only way in which a blocked row is sure to be asked for.
The timers and posted calls of `PickerSpec` have strong fairness, since handlers that ask for keys come in
between. `ErrorsEndWithFrames` and the catalogue's properties state their assumptions too. Runs that
set `CHECK_DEADLOCK FALSE` have states where the program really rests: every key settled,
the platform quiet, the application or the probe ended.

## Proofs

All proofs hold for every value of the constants that satisfies the named assumptions of
the modules; the ones that matter are finiteness (of the handles, keys, windows, devices: what is
counted must be countable), types of what the environment supplies, and `MaxFrames # 0`
(a stream may produce a frame at all). `PlacementAssumption` and `SessionAssumption` say
that every layout is a finite set of rectangles of whole pixels, as Qt's list of screens
is, and that a user cannot drag the window below its minimum size, which `main.qml`
enforces (`onWidthChanged`, `onHeightChanged`).

| Module | Proves of | Theorems for the properties |
|---|---|---|
| MediaCaptureProofs | `MediaCapture`, any client | `CountIsCovered`, `OneDevice`, `NoOrphan`, `StopsByAStop`, `StopBlanks` |
| | ... that keeps the sink contract | `StreamsUsed`, `MirrorsStream`, `ListsAttached` |
| CameraPanelsProofs | `CameraPanels` | `NothingOldShown`, `PanelsKeepContract` |
| CameraBackendProofs | `DShowCameraBackend` | `CallbackFindsItsOwner`, `CallbackIsReleased`, `RowsAreInSample`, `StreamKeepsContract` |
| | `RoutingCameraBackend` | `RoutedIsDShow`, `RoutedKeepsContract`, `StreamIsOfItsCamera` |
| LocalDeviceCatalogueProofs | `LocalDeviceCatalogue` with `DeviceMemoryCache` | `DevicesListedOnce`, `MemoriesForgetInOrder`, `ListedStay` |
| WindowCaptureWatcherProofs | `WindowCaptureWatcher` | `IdsKeepTheirWindow`, `PendingStaysWithItsList` |
| FontPreviewSafetyProofs | `FontPreviewSafetyCache` | `StuckChecksAreExact`, `VerdictsStayFinal`, `KeysAreStartedAtMostOnce` |
| | `FontPreviewSafetyCheckerDefault` | `ImplementsCache`, `NoThreadForgotten`, `ThreadsEndBeforeDeletion`, `SafePreviewsAlwaysShow` |
| | `VcFontPicker` | `PickerIsAClient`, `NoFontLeftOut` |
| FontProbeProofs | `FontProbe` | `RequestedAlwaysInModel`, `FailuresAlwaysTold` |
| AppSessionProofs | `WindowRectFitter` | `FitIsBest`, `FitStays` |
| | `AppSession` | `SavedPreferencesSurvive`, `RendererIsTheUsers`, `WindowGoesToBestPlace`, `WindowIsFoundWhereItWas` |

### MediaCapture, any client

The theorems hold for any devices, handles, sinks and streams, under every sequence of
calls. `NoOrphanCapture` needs to know that the count covers the switch; a count is
changed by a call on one handle, so it needs to know which stream that handle's device
leads to. The inductive invariant `CaptureInv` is `Linked` - map and streams point at each
other, and a stream that is not live is off - together with `Counted`: a live stream is on
exactly when its count is positive, and the count is at most the number of handles running
its device. It is `<=` and not `=` because a request made while the device was gone is
forgotten by the code and remembered by the handle. The proof follows the chain of calls:
each operator gets a lemma that it keeps the types, and one that it leaves the core alone
(`SameCore`) or says how it changes it; `StepInv` has one lemma per action.

`StopsByAStop` and `StopBlanks` are about steps: `Stops` follows a capture that is on
through the chains of calls, until it is off in the only operator that may switch it off,
with the handle that was running and the views that were listed before the call.

### MediaCapture under the contract of sinks

What a view shows depends on a promise of the client: no sink is given to two handles, and
no sink dies while a handle has it (`Contract`, the hypothesis of three theorems; without
it the code lets streams and handles disagree). The invariant `ViewsInv` says of each moment between two
calls: a handle is listed by a stream exactly when it is attached to it (`Lists`), an
attached handle shows what its stream shows and its sink no other camera's picture
(`Mirrors`), a sink has one handle that does not outlive it (`Owned`), and a stream in the
map is used (`InUse`). Inside a call it is broken: a fan-out informs one handle after
another, and a stream is unused just before it is erased. The lemmas
therefore say what each operator does to a world that is right but for one handle or
one stream, and the lemmas of the actions put the pieces together.

### The panels

`PanelsKeepContract` discharges that hypothesis for the application: the panels are clients
that share no sink and outlive their handles, so that all safety invariants of
`MediaCapture` hold of their runs with nothing assumed. The invariant `PanelsInv` adds to
those of `MediaCapture`: each open handle is its panel's own, on the panel's sink,
whichever camera it was opened for, and has frames only while attached (`Holds`), and each
item has pending or painted what its sink shows (`ItemsAgree`). The actions of the panels are chains of
up to four calls, with a stream opened in the middle; that there is room for it at that moment follows from the guard
through the calls before it. `NothingOldShown` is then a short
consequence.

### Backends

The inductive invariant `StreamInv` of the DirectShow stream, for any camera, any sizes
and any length of the queue, says what each place in the code means for the others:
nothing is left of a stream that is gone (`Gone`); one that was handed out is whole until
its destructor has stopped the graph (`Whole`); the count of the callback is that of its
holders (`HeldCallback`); a sample is on the streaming thread only while the graph runs,
and the graph runs only while it is to (`Streaming`); format and sample fit each other
(`Measured`). The rows rest on one arithmetic lemma: the padded stride is at least the
bytes the pixels of a row are made from, also when a packed YUV row of odd width is read
by pairs. The refinement of `CameraStreamBackend` is shown step by step: each action is an
action of the interface or leaves its variables alone; posting and delivering a frame
count one up and one down, which needs two lemmas about the queue.

Behind the router the backend does only what it does alone (`RoutedIsDShow`), so that the
results carry over (`RoutedKeepsContract`); `StreamIsOfItsCamera` comes from the uniqueness
of keys in each API, which makes every description an id can get its own camera's or empty,
whatever the look-up sees (`DescriptionIsOwn`).

### Catalogue and memories

`evictIfNeeded` is a loop over what is left, a recursive function of the model. What it
computes is not proved by induction but by a least counterexample: if the function failed
its specification anywhere, it would on some set of ids of the smallest cardinality, and there one
step of the loop leads to a smaller one. `EvictedBefore` is a strict order because serials
and ids decide it, so what is taken first is well defined (`Ranked`), and what the loop
keeps (`Keeps`) is all that fits, without a gap in that order. The invariant
`CatalogueInv` ties the memory to its history (`Memories`: of two known devices the one
seen later has the larger serial, and what was forgotten was not seen later than what is
known) and the lists to the memory (`Listed`). No twins of Qt and DirectShow is a
statement about real devices: the debug mode renames them as it likes, which is why
`ListedOnce` asks for it only there.

### Windows

The invariant adds to the two properties that every id in use or ever published is below
the counter; new ids are a bijection onto the numbers from the counter on.

### Fonts

For every set of keys and every limit, `StuckChecksAreExact` is inductive with the types
and the finiteness of the counted keys, so that neither the guard of the increment nor the
clamp of the decrement ever matters; `VerdictsStayFinal` goes step by step. In
`KeysAreStartedAtMostOnce` what is inductive is a statement about places instead of
cardinalities (`OnePlace`): a key is running at most once, queued at most at one index, not
both, and one of them exactly when its status waits.

`ImplementsCache` adds the threads: every run of cache and checker together is a run of
the cache alone, so the theorems above hold of the composition. It needs the invariant
`CheckerInv`: a thread that exists is held under the key it checks and the cache waits for
that key (`Linked`), and an answer in the queue is its idle thread's only one
(`AnswersOfIdle`). From it follow `NoThreadForgotten` and `ThreadsEndBeforeDeletion`; with
`VerdictInv` - every answer, result and status under way says what `checkPreviewLooksSane`
says of its font - `SafePreviewsAlwaysShow`. `NoThreadForgotten` says of the destructor that
what it leaves are threads it waited for in vain (`OnlyHungThreadsLeft`, which no run checks).

`PickerIsAClient` carries all this to the picker, whose steps are steps of that composition.
`NoFontLeftOut` is inductive with what the running handler has yet to ask for
(`AskedOrAsking`), and because a key never looks unasked again (`AskedStaysAsked`).

The font probe has two halves. A worker's list is made in three steps of index
arithmetic, and `RequestedAlwaysInModel` follows them for any position of the family and
any bound. `FailuresAlwaysTold` needs `Told`: every scenario that is through is in the
results with what became of it (`Accounted`), and while the worst code is zero each of them is
a picture, a skip that is counted, or one of the two failures the code does not tell
(`Judged`, `Untold`). That only a scroll scenario exits with zero without its picture is part of the
typing (`WorkerIs`).

### Session

`SavedPreferencesSurvive` and `RendererIsTheUsers` hold for any edits and any contents of
the settings, those of saves that were cut off included: the invariant is about each
setting by itself (`WrittenInv`). The key is `SetterKeeps`: what a setter has made of a value, clamped, wrapped
or chosen, its setter leaves alone, so what was saved is loaded unchanged; garbled settings
are converted to values of their type first.

`WindowGoesToBestPlace` rests on `FitIsBest`: for any finite layout, wanted rectangle and
minimum size, nothing in the plane is better than what `fit()` finds among its candidates.
Three arguments carry it. A contained place that is nearest is a candidate
(`NearestIsCandidate`): if it is not where it was wanted, the next place towards that is
not contained, so a pixel just outside gives an edge the code has. A place with most of its
top edge visible is a candidate too (`TopCandidate`): of all such places take the uppermost
and then the leftmost; one step further left shows less, so it begins or ends with a run of
its row (`Slide`). And the binary search finds the widest width at each height
(`SearchFinds`), because a width that fits leaves room for every smaller one. The search is
a recursive function, so that it exists at all is proved first, range by range
(`SearchExists`), with a least-element argument in place of induction.

`WindowIsFoundWhereItWas` rests on `FitStays`: a window that was fitted is fitted where it
is. When nothing fits, the second fit has fewer candidates than the first, scores the
region's part the same, and is nearest to itself. `WindowInv` carries this across runs: what
is stored are numbers, a window is never below its minimum, one that was placed is left
alone on the same screens, and after a complete save the four keys are those of the saved
window - until a killed save, after which nothing is claimed.

### Only model-checked

- Everything temporal under fairness (`ReopenedRowsGetTheirVerdict`, `PreviewIsPainted`,
  `ErrorsEndWithFrames`, `SilentCameraTold`, `StopComesBack`, `SetEventuallyListed`,
  `ListsCatchUp`, `SilentCamerasFound`, `ProbeEnds`): the prover's backends do not reach
  liveness.

## Not modelled

- The destruction of `MediaCapture`: the application destroys the QML engine, which owns
  all handles, before it.
- Rasterising of glyphs, the colour arithmetic of pixels, image providers, OKLCH colour:
  Qt's work or floating-point formulas without state.
- COM reference counts and monikers of the DirectShow enumeration, reflection on Qt's
  plugin in the rescan shim: calls into libraries in a fixed order.
- Start-up shims, bundled fonts, registrations of QML types, the messages of the crash
  guard: straight-line code that runs once. An exception the guard catches is one of the
  unclean ends of `AppSession`.
- The camera probe (one handle, one session in a straight line) and the unit tests.
- QML layout and navigation, descriptions and other texts that nothing depends on.

## Plan

Done: the camera from panel to streaming thread, the catalogue with its memories, the
window watcher, fonts from picker to verdict, the font probe, the session; the proofs
above, which state every invariant and every action property of the runs that pass.

Left, in this order:

1. The destruction of `MediaCapture` under handles that outlive it, and the camera probe
   as a client.
