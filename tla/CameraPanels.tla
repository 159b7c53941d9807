---------------------------- MODULE CameraPanels ----------------------------
(***************************************************************************)
(* The clients the application has for MediaCapture: the panels with a      *)
(* camera preview (the source inspector of ShellPage, the preview of        *)
(* PreferencesOverlay), each with its handle and, as the scene graph        *)
(* renders in software, a VcVideoPaintItem whose sink the handle is given.  *)
(* A panel's functions run on the UI thread, each in one step with all that *)
(* it calls.                                                                *)
(*                                                                         *)
(* The catalogue a panel looks at may lag behind the devices, so a start    *)
(* may be tried whether the camera is there or not.                         *)
(***************************************************************************)
EXTENDS MediaCapture

CONSTANTS Restarting,   \* the panels that start again when another camera is chosen
          Followed,     \* bound: the panels whose items are modelled; items do not interact
          PaintsHidden  \* does the scene graph paint items that are not visible?

Item == INSTANCE VcVideoPaintItem

\* Each panel has one sink, and is known by it.
Panels == Sinks

ASSUME PanelsAssumption == /\ Restarting \cup Followed \subseteq Panels
                           /\ PaintsHidden \in BOOLEAN /\ MaxFrames # 0

VARIABLES panel,  \* a PanelRecord for each panel
          item    \* the VcVideoPaintItem of each followed panel

\* Is the panel open, and for a camera or for a source of another kind; cameraPreviewDeviceId,
\* where None is the empty one; cameraPreviewHandle; the restart timer.
PanelRecord == [open : {"no", "camera", "other"}, dev : Devices \cup {None},
                handle : Handles \cup {None}, restart : BOOLEAN]

panelVars == <<vars, panel, item>>

PanelsInit ==
    /\ Init
    /\ panel = [p \in Panels |-> [open |-> "no", dev |-> None, handle |-> None, restart |-> FALSE]]
    /\ item = [p \in Followed |-> Item!NewItem]

-----------------------------------------------------------------------------
(* What a step of MediaCapture means to the items *)

\* The items of S get what their sinks show now.  due: those painted 33 ms ago or more.
Tell(S) ==
    \E due \in SUBSET (S \cap Followed) :
        item' = [p \in Followed |->
                    IF p \in S THEN Item!onVideoFrameChanged(item[p], sinkShows'[p], p \in due)
                    ELSE item[p]]

Changed == {p \in Panels : sinkShows'[p] # sinkShows[p]}

\* A sink that was attached is given the last frame again, if there is one.
Given(p) == {q \in {p} : \E c \in Streams : /\ cameraStreams'[panel'[p].dev] = c
                                           /\ stream'[c].lastFrame}

-----------------------------------------------------------------------------
(* The functions of a panel *)

FreeHandles == {h \in Handles : handle[h].state = "free" /\ \A c \in Streams : h \notin stream[c].handles}

active(p) == panel[p].handle # None

closeHandle(w, p) == IF active(p) THEN close(w, panel[p].handle) ELSE w

\* What the device id may be afterwards, whatever the catalogue lists: a chosen camera stays even
\* if it is not listed, an empty list unsets it, and where none is chosen an available one is.
ensureCameraPreviewDeviceSelected(d) == IF d = None THEN Devices \cup {None} ELSE {d, None}

\* The record of the panel p becomes q; nothing else changes.
Becomes(p, q) == /\ panel' = [panel EXCEPT ![p] = q]
                 /\ UNCHANGED <<cameraStreams, stream, handle, sinkShows, item>>

\* Bound: a start finds a free handle, and the stream of its device or a free one.
startCameraPreview(p, set) ==
    /\ FreeHandles # {}
    /\ FreeStreams(World) # {} \/ (cameraStreams[set.dev] # None /\ ~active(p))
    /\ LET h == CHOOSE f \in FreeHandles : TRUE
       IN /\ \E e \in BackendTexts :
                Become(setRunning(setViewSink(acquireCameraPreviewHandle(closeHandle(World, p),
                                                  set.dev, h), h, p, e), h, TRUE, e))
          /\ panel' = [panel EXCEPT ![p] = [set EXCEPT !.handle = h]]
    /\ Tell(Changed \cup Given(p))

stopCameraPreview(p, set) ==
    /\ Become(LET h == panel[p].handle
              IN IF h = None THEN World ELSE close(setRunning(World, h, FALSE, ""), h))
    /\ panel' = [panel EXCEPT ![p] = [set EXCEPT !.handle = None]]
    /\ Tell(Changed)

\* A click on a camera in the list, which an open panel covers.  Only the inspector opens without
\* a camera.  A preview that the restart timer has started meanwhile goes on as it was.
Open(p, d) ==
    /\ panel[p].open = "no"
    /\ \E e \in ensureCameraPreviewDeviceSelected(d) :
           LET opens == e # None \/ p \in Restarting
           IN Becomes(p, [panel[p] EXCEPT !.dev = e, !.open = IF opens THEN "camera" ELSE "no"])

\* The inspector opens for a source of another kind: no camera is shown, none is changed.
OpenOther(p) == /\ p \in Restarting /\ panel[p].open = "no"
                /\ Becomes(p, [panel[p] EXCEPT !.open = "other"])

Start(p) == /\ panel[p].open = "camera" /\ ~active(p) /\ panel[p].dev # None
            /\ startCameraPreview(p, panel[p])

Stop(p) == panel[p].open = "camera" /\ active(p) /\ stopCameraPreview(p, panel[p])

\* closeSourceInspector(), closeCameraPreview()
ClosePanel(p) == panel[p].open # "no" /\ stopCameraPreview(p, [panel[p] EXCEPT !.open = "no"])

\* Another camera, or the same one again, is chosen in the combo box.
Choose(p, d) ==
    /\ panel[p].open = "camera"
    /\ IF active(p)
       THEN stopCameraPreview(p, [panel[p] EXCEPT !.dev = d, !.restart = p \in Restarting])
       ELSE panel[p].dev # d /\ Becomes(p, [panel[p] EXCEPT !.dev = d])

\* The zero interval timer, whatever has happened to the panel since.
Restart(p) ==
    /\ panel[p].restart
    /\ \E d \in ensureCameraPreviewDeviceSelected(panel[p].dev) :
           LET set == [panel[p] EXCEPT !.dev = d, !.restart = FALSE]
           IN IF d = None THEN Becomes(p, set) ELSE startCameraPreview(p, set)

Panel(p) == /\ \/ \E d \in Devices : Open(p, d) \/ Choose(p, d)
               \/ OpenOther(p) \/ Start(p) \/ Stop(p) \/ ClosePanel(p) \/ Restart(p)
            /\ UNCHANGED <<plugged, liveSinks>>

-----------------------------------------------------------------------------
(* The scene graph, the event loop and the cameras *)

\* The condition of an item's visible property.
Visible(p) == /\ active(p)
              /\ LET h == handle[panel[p].handle] IN h.hasFrame /\ h.errorText = ""
              /\ ~item[p].errorText /\ item[p].hasFrame

Throttle(p) == /\ item[p].timer
               /\ item' = [item EXCEPT ![p] = Item!onThrottleTimeout(@)]
               /\ UNCHANGED <<vars, panel>>

\* One format of a camera converts or does not; which one it has is not known here.
Paint(p) == /\ item[p].dirty /\ (Visible(p) \/ PaintsHidden)
            /\ \E converts \in BOOLEAN : item' = [item EXCEPT ![p] = Item!paint(@, converts)]
            /\ UNCHANGED <<vars, panel>>

\* A frame is posted to the UI thread.
PostFrame(c) == /\ stream[c].active /\ ~stream[c].lost /\ stream[c].pending < MaxPending
                /\ stream' = [stream EXCEPT ![c].pending = @ + 1]
                /\ UNCHANGED <<plugged, cameraStreams, handle, sinkShows, liveSinks, panel, item>>

\* Bound: the count of the frames stops at MaxFrames; the frames go on.
Frame(c) == /\ stream[c].pending > 0
            /\ Become(onVideoFrameChanged(
                   [World EXCEPT !.stream[c].pending = @ - 1,
                                 !.stream[c].framesReceived = IF @ = MaxFrames THEN @ - 1 ELSE @], c))
            /\ Tell(stream[c].viewSinks)
            /\ UNCHANGED <<plugged, liveSinks, panel>>

Environment == \/ \E c \in Streams : \/ DestroyStream(c)
                                     \/ \E t \in BackendTexts : BackendErrorText(c, t)
               \/ \E h \in Handles : handle[h].state = "closing" /\ DestroyHandle(h)
               \/ \E d \in Devices : Plug(d) \/ Unplug(d)

PanelsNext == \/ \E p \in Panels : Panel(p)
              \/ \E p \in Followed : Throttle(p) \/ Paint(p)
              \/ \E c \in Streams : PostFrame(c) \/ Frame(c)
              \/ Environment /\ Tell(Changed) /\ UNCHANGED panel

\* A started backend keeps producing frames, the event loop delivers what is posted, fires the
\* throttle timers and lets the scene graph paint.  The user and the devices owe nothing.
PanelsSpec == /\ PanelsInit /\ [][PanelsNext]_panelVars
              /\ \A c \in Streams : WF_panelVars(PostFrame(c)) /\ WF_panelVars(Frame(c))
              /\ \A p \in Followed : WF_panelVars(Throttle(p)) /\ WF_panelVars(Paint(p))

-----------------------------------------------------------------------------
(* Properties *)

\* A panel whose camera is on and sends frames comes to show the newest one, or says that it
\* cannot, unless it is closed, the capture fails or the device goes: no handle is passed over,
\* no frame is left pending behind the throttle, and an item that waits for its first image to
\* become visible gets it.
PreviewIsPainted ==
    \A p \in Followed :
        LET Receiving == /\ active(p)
                         /\ LET h == handle[panel[p].handle]
                            IN /\ h.registered /\ h.errorText = ""
                               /\ \E c \in Streams : /\ cameraStreams[h.dev] = c
                                                      /\ stream[c].active /\ ~stream[c].lost
        IN Receiving ~> (~Receiving \/ item[p].errorText \/ (Visible(p) /\ ~item[p].unpainted))

\* A blanked sink leaves no image in its item; an image of another camera than the sink's now is
\* there only until the item's next painting, which is due; and a visible item has a frame of the
\* very camera its panel's handle is open for.  So what a stopped or changed camera left, which
\* detaching a sink does not blank, does not stay and does not come back: not by a repaint, not
\* by a late frame, not when the panel starts again with another camera.
NoOldPicture ==
    \A p \in Followed :
        LET i == item[p]
        IN /\ i.lastImage \notin {None, sinkShows[p]} =>
                  /\ sinkShows[p] # None /\ i.unpainted
                  /\ i.timer \/ i.dirty
           /\ Visible(p) => sinkShows[p] = handle[panel[p].handle].dev

\* "Ensured camera capture is released when the inspector closes (preview stops on close)."
CaptureReleasedOnClose ==
    \A p \in Panels : panel[p].open # "no" \/ \A h \in Handles : handle[h].running => panel[p].handle # h
=============================================================================
