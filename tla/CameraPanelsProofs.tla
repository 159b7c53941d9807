-------------------------- MODULE CameraPanelsProofs --------------------------
(***************************************************************************)
(* Proofs about the camera panels, for any number of panels, cameras,      *)
(* handles and streams: what a stopped or another camera left in an item   *)
(* does not outlast the item's next painting.                              *)
(*                                                                         *)
(* A panel's step is a chain of MediaCapture's operators, so it is no step *)
(* of MediaCapture's Next; what is proved there of the operators on Worlds *)
(* is used here again.  No panel shares its sink or destroys it, so the    *)
(* client's part of the contract is proved, not assumed.                   *)
(***************************************************************************)
EXTENDS CameraPanels, MediaCaptureProofs

-----------------------------------------------------------------------------
(* Room for a stream, from one call of a chain to the next *)

\* What is in the map is not free, and dropping it frees nothing and takes nothing.
LEMMA DropKeepsFree ==
  ASSUME NEW w \in Worlds, NEW d \in Devices, NEW c \in Streams, w.stream[c].state # "free"
  PROVE  FreeStreams(w) \subseteq FreeStreams(DropIfUnused(w, d, c))
  <1> DEFINE u == [w EXCEPT !.cameraStreams[d] = None]
             s == setActive(u, c, FALSE)
             r == [s.stream[c] EXCEPT !.state = "doomed"]
             t == [s EXCEPT !.stream[c] = r]
  <1>1. CASE ~isUnused(w, c)
    BY <1>1 DEF DropIfUnused
  <1>2. CASE isUnused(w, c)
    <2>1. u \in Worlds /\ u.stream = w.stream
      BY WithMapped DEF Worlds
    <2>2. DropIfUnused(w, d, c) = [s EXCEPT !.stream[c].state = "doomed"]
      BY <1>2 DEF DropIfUnused
    <2> HIDE DEF u
    <2>3. s \in Worlds /\ OnlyShown(s, u, c)
      BY <2>1, setActiveParts
    <2> HIDE DEF s
    <2>4. DropIfUnused(w, d, c) = t
      BY <2>2, <2>3 DEF Worlds
    <2>5. r \in StreamRecord
      BY <2>3, Parts DEF StreamRecord
    <2> HIDE DEF r
    <2>6. \A b \in Streams \ {c} : t.stream[b] = w.stream[b]
      BY <2>1, <2>3, <2>5, WithStreamParts DEF OnlyShown
    <2> HIDE DEF t
    <2> QED BY <2>4, <2>6 DEF FreeStreams
  <1> QED BY <1>1, <1>2

\* A handle that stops running takes no slot.
LEMMA StopKeepsFree ==
  ASSUME NEW w \in Worlds, Mapped(w), NEW h \in Handles, w.handle[h].state # "free", NEW e
  PROVE  FreeStreams(w) \subseteq FreeStreams(setRunning(w, h, FALSE, e))
  <1> DEFINE d == w.handle[h].dev
             g == [w.handle[h] EXCEPT !.running = FALSE]
             u == [w EXCEPT !.handle[h] = g]
             c == w.cameraStreams[d]
             x == incrementRunningRefCount(u, c, FALSE)
             a == x.stream[c].runningRefCount > 0
             y == setActive(x, c, a)
  <1>0. d \in Devices
    BY DEF Mapped
  <1>1. g \in HandleRecord /\ g.dev = d
    BY Parts DEF HandleRecord
  <1> HIDE DEF g
  <1>2. /\ u \in Worlds /\ u.cameraStreams = w.cameraStreams /\ u.stream = w.stream
        /\ u.handle[h].dev = d
    BY <1>1, WithHandleParts
  <1>3. setRunning(w, h, FALSE, e) = IF w.handle[h].running = FALSE THEN w
                                     ELSE setHandleRunning(u, h, FALSE, e)
    BY DEF setRunning, g
  <1> HIDE DEF u
  <1>4. setHandleRunning(u, h, FALSE, e) = IF c # None THEN DropIfUnused(y, d, c) ELSE u
    BY <1>2 DEF setHandleRunning
  <1>5. CASE c = None
    BY <1>2, <1>3, <1>4, <1>5 DEF FreeStreams
  <1>6. CASE c # None
    <2>1. c \in Streams /\ w.stream[c].state = "live"
      BY <1>0, <1>6, Parts DEF Mapped
    <2> HIDE DEF c, d
    <2>2. /\ x \in Worlds
          /\ \A b \in Streams : x.stream[b].state = w.stream[b].state
      <3>1. x \in Worlds
        BY <1>2, <2>1, incrementRunningRefCountTyped
      <3>2. /\ x.stream[c].state = u.stream[c].state
            /\ \A b \in Streams \ {c} : x.stream[b] = u.stream[b]
        BY <1>2, <2>1 DEF incrementRunningRefCount, Worlds, StreamRecord
      <3> QED BY <1>2, <3>1, <3>2
    <2> HIDE DEF x
    <2>3. a \in BOOLEAN
      OBVIOUS
    <2> HIDE DEF a
    <2>4. y \in Worlds /\ OnlyShown(y, x, c)
      BY <2>1, <2>2, <2>3, setActiveParts
    <2> HIDE DEF y
    <2>5. \A b \in Streams : y.stream[b].state = w.stream[b].state
      BY <2>2, <2>4 DEF OnlyShown, SameButFrames
    <2>6. FreeStreams(y) \subseteq FreeStreams(DropIfUnused(y, d, c))
      BY <1>0, <2>1, <2>4, <2>5, DropKeepsFree DEF d
    <2> QED BY <1>3, <1>4, <1>6, <2>5, <2>6 DEF FreeStreams
  <1> QED BY <1>5, <1>6

\* Nor does a handle that is closed.
LEMMA CloseKeepsFree ==
  ASSUME NEW w \in Worlds, CaptureInv(w), NEW h \in Handles, w.handle[h].state # "free"
  PROVE  FreeStreams(w) \subseteq FreeStreams(close(w, h))
  <1> DEFINE u == setRunning(w, h, FALSE, "")
             y == Unregister(u, h)
             z == [y EXCEPT !.handle[h].viewSink = None]
             v == setViewSink(u, h, None, "")
  <1>1. /\ u \in Worlds /\ CaptureInv(u) /\ OnlyRunning(u, w, h, FALSE)
        /\ FreeStreams(w) \subseteq FreeStreams(u)
    BY setRunningInv, StopKeepsFree, LinkedMapped DEF BackendTexts, CaptureInv
  <1>2. close(w, h) = [v EXCEPT !.handle[h].state = "closing"]
    BY DEF close
  <1> HIDE DEF u
  <1>3. y \in Worlds /\ FreeStreams(u) \subseteq FreeStreams(y)
    BY <1>1, UnregisterInv DEF OnlyRunning
  <1>4. v = u \/ v = z
    BY DEF setViewSink
  <1> HIDE DEF y, v
  <1>5. z.stream = y.stream
    BY <1>3 DEF Worlds
  <1> HIDE DEF z
  <1>6. v.stream = u.stream \/ v.stream = y.stream
    BY <1>4, <1>5
  <1>7. close(w, h).stream = v.stream
    <2>1. v \in Worlds \/ v = z
      BY <1>1, <1>4
    <2> QED BY <1>2, <1>3, <2>1 DEF Worlds, z
  <1> QED BY <1>1, <1>3, <1>6, <1>7 DEF FreeStreams

-----------------------------------------------------------------------------
(* Panels and their handles *)

\* The handle of the panel k, whose record is q, is open and has the panel's sink, and has frames
\* only while it is attached.
HasHandle(w, q, k) ==
    q.handle # None =>
        LET g == w.handle[q.handle]
        IN /\ g.state = "alive" /\ g.viewSink = k
           /\ g.hasFrame => g.registered

\* P: what panel is.  Every sink that is in use is in use by the handle of its own panel.
Holds(w, P) ==
    /\ \A k \in Panels : HasHandle(w, P[k], k)
    /\ \A h \in Handles : w.handle[h].viewSink # None => P[w.handle[h].viewSink].handle = h

\* Q is P but for the panel k.
SameBut(Q, P, k) == \A j \in Panels \ {k} : Q[j] = P[j]

\* What the panels ask of the handle g holds in v as in w.
Steady(v, w, g) ==
    /\ v.handle[g].state = w.handle[g].state /\ v.handle[g].dev = w.handle[g].dev
    /\ v.handle[g].viewSink = w.handle[g].viewSink
    /\ (w.handle[g].hasFrame => w.handle[g].registered) =>
          (v.handle[g].hasFrame => v.handle[g].registered)

LEMMA KeptSteady ==
  ASSUME NEW v, NEW w, NEW g, Kept(v, w, g)
  PROVE  Steady(v, w, g)
  BY DEF Kept, SameButShown, Steady

LEMMA SteadyHolds ==
  ASSUME NEW P \in [Panels -> PanelRecord], NEW w, NEW v, Holds(w, P),
         \A g \in Handles : Steady(v, w, g)
  PROVE  Holds(v, P)
  <1>1. ASSUME NEW k \in Panels PROVE HasHandle(v, P[k], k)
    <2>1. P[k].handle # None => P[k].handle \in Handles
      BY DEF PanelRecord
    <2> QED BY <2>1 DEF Holds, HasHandle, Steady
  <1> QED BY <1>1 DEF Holds, Steady

\* What the handles of a World are of the chain: typed, counted, listed.
Sound(w) == w \in Worlds /\ CaptureInv(w) /\ ViewsInv(w)

\* To run a panel's handle, or not any more.
LEMMA RunHolds ==
  ASSUME NEW w, Sound(w), NEW P \in [Panels -> PanelRecord], Holds(w, P),
         NEW h \in Handles, w.handle[h].state = "alive", NEW r \in BOOLEAN,
         NEW e \in BackendTexts, r => Room(w, w.handle[h].dev)
  PROVE  LET v == setRunning(w, h, r, e)
         IN Sound(v) /\ Holds(v, P) /\ v.handle[h].state = "alive"
  <1> DEFINE v == setRunning(w, h, r, e)
  <1>1. v \in Worlds /\ CaptureInv(v) /\ OnlyRunning(v, w, h, r)
    BY setRunningInv DEF Sound
  <1>2. /\ ViewsInv(v) /\ Beside(v, w, h)
        /\ v.handle[h].registered = w.handle[h].registered
        /\ v.handle[h].viewSink = w.handle[h].viewSink
        /\ ~w.handle[h].registered => v.handle[h].hasFrame = w.handle[h].hasFrame
    BY setRunningViews DEF Sound
  <1> HIDE DEF v
  <1>3. \A g \in Handles \ {h} : Steady(v, w, g)
    BY <1>2, KeptSteady DEF Beside
  <1>4. Steady(v, w, h)
    BY <1>1, <1>2 DEF OnlyRunning, Steady
  <1>5. Holds(v, P)
    BY <1>3, <1>4, SteadyHolds
  <1>6. v.handle[h].state = "alive"
    BY <1>1 DEF OnlyRunning
  <1> QED BY <1>1, <1>2, <1>5, <1>6 DEF Sound, v

\* To close a panel's handle: it gives its sink back.
LEMMA CloseHolds ==
  ASSUME NEW w, Sound(w), NEW P \in [Panels -> PanelRecord], Holds(w, P),
         NEW k \in Panels, P[k].handle # None,
         NEW Q \in [Panels -> PanelRecord], SameBut(Q, P, k), Q[k].handle = None
  PROVE  LET v == close(w, P[k].handle)
         IN /\ Sound(v) /\ Holds(v, Q) /\ FreeStreams(w) \subseteq FreeStreams(v)
            /\ \A g \in Handles : w.handle[g].state = "free" => v.handle[g].state = "free"
  <1> DEFINE h == P[k].handle
             v == close(w, h)
  <1>1. h \in Handles /\ w.handle[h].state = "alive" /\ w.handle[h].viewSink = k
    BY DEF PanelRecord, Holds, HasHandle
  <1> HIDE DEF h
  <1>2. v \in Worlds /\ CaptureInv(v) /\ FreeStreams(w) \subseteq FreeStreams(v)
    BY <1>1, closeInv, CloseKeepsFree DEF Sound
  <1>3. ViewsInv(v) /\ Beside(v, w, h) /\ v.handle[h].viewSink = None
    BY <1>1, closeViews DEF Sound
  <1> HIDE DEF v
  <1>4. \A g \in Handles \ {h} : Steady(v, w, g)
    BY <1>3, KeptSteady DEF Beside
  <1>5. ASSUME NEW j \in Panels \ {k} PROVE HasHandle(v, Q[j], j)
    <2>1. Q[j] = P[j] /\ (P[j].handle # None => P[j].handle \in Handles)
      BY DEF SameBut, PanelRecord
    <2>2. P[j].handle # h
      BY <1>1, MediaCaptureAssumption DEF Holds, HasHandle
    <2> QED BY <1>4, <2>1, <2>2 DEF Holds, HasHandle, Steady
  <1>6. ASSUME NEW g \in Handles, v.handle[g].viewSink # None
        PROVE  Q[v.handle[g].viewSink].handle = g
    <2>1. g # h
      BY <1>3, <1>6
    <2>2. v.handle[g].viewSink = w.handle[g].viewSink /\ w.handle[g].viewSink \in Sinks
      BY <1>2, <1>4, <1>6, <2>1, Parts DEF Steady, HandleRecord
    <2>3. P[w.handle[g].viewSink].handle = g
      BY <1>6, <2>2 DEF Holds
    <2> QED BY <2>1, <2>2, <2>3 DEF SameBut, Panels, h
  <1>7. Holds(v, Q)
    <2>1. HasHandle(v, Q[k], k)
      BY DEF HasHandle
    <2> QED BY <1>5, <1>6, <2>1 DEF Holds
  <1>8. \A g \in Handles : w.handle[g].state = "free" => v.handle[g].state = "free"
    BY <1>1, <1>4 DEF Steady
  <1> QED BY <1>2, <1>3, <1>7, <1>8 DEF Sound, h, v

\* To acquire a handle for a panel that has none, give it the panel's sink and run it.
LEMMA StartHolds ==
  ASSUME NEW w, Sound(w), NEW P \in [Panels -> PanelRecord], Holds(w, P),
         NEW k \in Panels, k \in liveSinks, P[k].handle = None,
         NEW h \in Handles, w.handle[h].state = "free", NEW d \in Devices, Room(w, d),
         NEW Q \in [Panels -> PanelRecord], SameBut(Q, P, k), Q[k].handle = h,
         NEW e \in BackendTexts
  PROVE  LET v == setRunning(setViewSink(acquireCameraPreviewHandle(w, d, h), h, k, e), h, TRUE, e)
         IN Sound(v) /\ Holds(v, Q)
  <1> DEFINE u == acquireCameraPreviewHandle(w, d, h)
             v == setViewSink(u, h, k, e)
             z == setRunning(v, h, TRUE, e)
  <1>1. /\ u \in Worlds /\ ViewsInv(u) /\ Beside(u, w, h)
        /\ u.handle[h] = NewHandle("alive", d)
        /\ u.stream = w.stream /\ u.cameraStreams = w.cameraStreams
    BY acquireViews DEF Sound
  <1>2. CaptureInv(u)
    <2> DEFINE g == NewHandle("alive", d)
    <2>1. g \in HandleRecord /\ ~g.running /\ g.dev \in Devices
      BY DEF NewHandle, HandleRecord, Texts, BackendTexts
    <2>2. u = [w EXCEPT !.handle[h] = g]
      BY DEF acquireCameraPreviewHandle
    <2> HIDE DEF g
    <2> QED BY <2>1, <2>2, IdleHandle DEF Sound
  <1> HIDE DEF u
  <1>3. /\ u.handle[h].state = "alive" /\ u.handle[h].dev = d /\ ~u.handle[h].registered
        /\ ~u.handle[h].hasFrame
    <2> DEFINE g == NewHandle("alive", d)
    <2>1. g.state = "alive" /\ g.dev = d /\ ~g.registered /\ ~g.hasFrame
      BY DEF NewHandle
    <2>2. u.handle[h] = g
      BY <1>1
    <2> HIDE DEF g
    <2> QED BY <2>1, <2>2
  <1>4. \A g \in Handles \ {h} : Steady(u, w, g)
    BY <1>1, KeptSteady DEF Beside
  <1>5. \A g \in Handles \ {h} : u.handle[g].viewSink # k
    BY <1>4, MediaCaptureAssumption DEF Steady, Holds, Panels
  <1>6. Room(u, d) /\ CanAttach(u, h, k)
    BY <1>1, <1>3 DEF Room, FreeStreams, CanAttach
  <1>7. k \in Sinks /\ k # None
    BY MediaCaptureAssumption DEF Panels
  <1>8. /\ v \in Worlds /\ CaptureInv(v) /\ SameHandles(v, u) /\ Room(v, d)
    BY <1>1, <1>2, <1>3, <1>6, <1>7, setViewSinkInv
  <1>9. /\ ViewsInv(v) /\ Beside(v, u, h) /\ v.handle[h].viewSink = k
        /\ v.handle[h].hasFrame => v.handle[h].registered
    <2>1. LET y == setViewSink(u, h, k, e)
          IN /\ ViewsInv(y) /\ Beside(y, u, h) /\ y.handle[h].viewSink = k
             /\ ~u.handle[h].registered =>
                   y.handle[h].registered \/ y.handle[h].hasFrame = u.handle[h].hasFrame
      BY <1>1, <1>2, <1>3, <1>5, <1>6, <1>7, setViewSinkViews
    <2> QED BY <1>3, <2>1
  <1> HIDE DEF v
  <1>10. v.handle[h].state = "alive" /\ v.handle[h].dev = d
    BY <1>3, <1>8 DEF SameHandles
  <1>11. \A g \in Handles \ {h} : Steady(v, w, g)
    BY <1>4, <1>9, KeptSteady DEF Beside, Steady
  <1>12. Holds(v, Q)
    <2>1. HasHandle(v, Q[k], k)
      BY <1>9, <1>10 DEF HasHandle
    <2>2. ASSUME NEW j \in Panels \ {k} PROVE HasHandle(v, Q[j], j)
      <3>1. Q[j] = P[j] /\ (P[j].handle # None => P[j].handle \in Handles)
        BY DEF SameBut, PanelRecord
      <3>2. P[j].handle # h
        BY MediaCaptureAssumption DEF Holds, HasHandle
      <3> QED BY <1>11, <3>1, <3>2 DEF Holds, HasHandle, Steady
    <2>3. ASSUME NEW g \in Handles, v.handle[g].viewSink # None
          PROVE  Q[v.handle[g].viewSink].handle = g
      <3>1. CASE g = h
        BY <1>9, <3>1
      <3>2. CASE g # h
        <4>1. v.handle[g].viewSink = w.handle[g].viewSink /\ w.handle[g].viewSink \in Sinks
          BY <1>11, <2>3, <3>2, Parts DEF Steady, HandleRecord, Sound
        <4>2. P[w.handle[g].viewSink].handle = g
          BY <2>3, <4>1 DEF Holds
        <4>3. w.handle[g].viewSink # k
          BY <4>2, MediaCaptureAssumption
        <4> QED BY <4>1, <4>2, <4>3 DEF SameBut, Panels
      <3> QED BY <3>1, <3>2
    <2> QED BY <2>1, <2>2, <2>3 DEF Holds
  <1>13. Sound(v) /\ Room(v, v.handle[h].dev)
    BY <1>8, <1>9, <1>10 DEF Sound
  <1>14. Sound(z) /\ Holds(z, Q)
    BY <1>10, <1>12, <1>13, RunHolds
  <1> QED BY <1>14 DEF z, v, u

-----------------------------------------------------------------------------
(* Items *)

Shows == Devices \cup {None}

ItemRecord == [pendingFrame : Shows, unpainted : BOOLEAN, lastImage : Shows, hasFrame : BOOLEAN,
               errorText : BOOLEAN, updateScheduled : BOOLEAN, timer : BOOLEAN, dirty : BOOLEAN]

\* A repaint that is scheduled comes.
Due(i) == i.timer \/ i.dirty

\* The item i has that frame pending which its sink shows, is empty when it shows none, and has an
\* image of another camera only until a painting that is due.
Agrees(i, shows) == /\ i.pendingFrame = shows
                    /\ shows = None => i.lastImage = None /\ ~i.hasFrame
                    /\ i.lastImage \notin {None, shows} => i.unpainted /\ Due(i)
                    /\ i.updateScheduled => Due(i)

LEMMA ItemRepaints ==
  ASSUME NEW i \in ItemRecord, NEW due \in BOOLEAN, i.updateScheduled => Due(i)
  PROVE  LET j == Item!requestRepaint(i, due)
         IN /\ j \in ItemRecord /\ j.pendingFrame = i.pendingFrame /\ j.unpainted = i.unpainted
            /\ j.lastImage = i.lastImage /\ j.hasFrame = i.hasFrame /\ Due(j)
  BY DEF Item!requestRepaint, Item!update, ItemRecord, Due

\* What an item is told makes it agree, whatever its sink showed before.
LEMMA ItemTold ==
  ASSUME NEW i \in ItemRecord, i.updateScheduled => Due(i), NEW frame \in Shows, NEW due \in BOOLEAN
  PROVE  LET j == Item!onVideoFrameChanged(i, frame, due) IN j \in ItemRecord /\ Agrees(j, frame)
  <1> DEFINE told == [i EXCEPT !.pendingFrame = frame, !.unpainted = TRUE]
             emptied == [told EXCEPT !.lastImage = None, !.hasFrame = FALSE, !.errorText = FALSE]
  <1>1. /\ told \in ItemRecord /\ told.pendingFrame = frame /\ told.unpainted
        /\ told.updateScheduled => Due(told)
    BY DEF ItemRecord, Due
  <1>2. /\ emptied \in ItemRecord /\ emptied.pendingFrame = frame
        /\ emptied.lastImage = None /\ ~emptied.hasFrame
        /\ emptied.updateScheduled => Due(emptied)
    BY DEF ItemRecord, Due, Shows
  <1>3. Item!onVideoFrameChanged(i, frame, due) =
           Item!requestRepaint(IF frame # None THEN told ELSE emptied, due)
    BY DEF Item!onVideoFrameChanged
  <1> HIDE DEF told, emptied
  <1>4. CASE frame # None
    <2> DEFINE j == Item!requestRepaint(told, due)
    <2>1. Item!onVideoFrameChanged(i, frame, due) = j
      BY <1>3, <1>4
    <2>2. j \in ItemRecord /\ j.pendingFrame = frame /\ j.unpainted /\ Due(j)
      BY <1>1, ItemRepaints
    <2> HIDE DEF j
    <2> QED BY <1>4, <2>1, <2>2 DEF Agrees
  <1>5. CASE frame = None
    <2> DEFINE j == Item!requestRepaint(emptied, due)
    <2>1. Item!onVideoFrameChanged(i, frame, due) = j
      BY <1>3, <1>5
    <2>2. /\ j \in ItemRecord /\ j.pendingFrame = emptied.pendingFrame
          /\ j.lastImage = emptied.lastImage /\ j.hasFrame = emptied.hasFrame /\ Due(j)
      BY <1>2, ItemRepaints
    <2> HIDE DEF j
    <2> QED BY <1>2, <1>5, <2>1, <2>2 DEF Agrees
  <1> QED BY <1>4, <1>5

\* Painting leaves an image of the pending frame only, or none.
LEMMA ItemPaints ==
  ASSUME NEW i \in ItemRecord, NEW shows \in Shows, Agrees(i, shows), NEW converts \in BOOLEAN
  PROVE  LET j == Item!paint(i, converts) IN j \in ItemRecord /\ Agrees(j, shows)
  <1> DEFINE painting == [i EXCEPT !.dirty = FALSE, !.updateScheduled = FALSE]
             j == Item!paint(i, converts)
  <1>1. /\ painting \in ItemRecord /\ painting.pendingFrame = shows /\ ~painting.updateScheduled
        /\ painting.lastImage = i.lastImage /\ painting.hasFrame = i.hasFrame
    BY DEF ItemRecord, Agrees
  <1> HIDE DEF painting
  <1>2. CASE i.pendingFrame # None /\ i.unpainted
    <2> DEFINE image == IF converts THEN i.pendingFrame ELSE None
    <2>1. j = [painting EXCEPT !.unpainted = FALSE, !.lastImage = image,
                               !.hasFrame = converts, !.errorText = ~converts]
      BY <1>2 DEF Item!paint, Item!Painted, painting
    <2>2. image \in {None, shows} /\ image \in Shows /\ shows # None
      BY <1>2 DEF Agrees, Shows
    <2> HIDE DEF image, j
    <2>3. j \in ItemRecord /\ Agrees(j, shows)
      BY <1>1, <2>1, <2>2 DEF ItemRecord, Agrees
    <2> QED BY <2>3 DEF j
  <1>3. CASE ~(i.pendingFrame # None /\ i.unpainted)
    <2>1. j = painting
      BY <1>3 DEF Item!paint, painting
    <2>2. i.lastImage \in {None, shows} /\ (shows = None => ~i.hasFrame)
      BY <1>3 DEF Agrees
    <2>3. shows = None => i.lastImage = None
      BY DEF Agrees
    <2> HIDE DEF j
    <2>4. j \in ItemRecord /\ Agrees(j, shows)
      BY <1>1, <2>1, <2>2, <2>3 DEF Agrees
    <2> QED BY <2>4 DEF j
  <1> QED BY <1>2, <1>3

LEMMA ItemThrottled ==
  ASSUME NEW i \in ItemRecord, NEW shows \in Shows, Agrees(i, shows)
  PROVE  LET j == Item!onThrottleTimeout(i) IN j \in ItemRecord /\ Agrees(j, shows)
  BY DEF Item!onThrottleTimeout, Item!update, ItemRecord, Agrees, Due

LEMMA NewItemAgrees == Item!NewItem \in ItemRecord /\ Agrees(Item!NewItem, None)
  BY DEF Item!NewItem, ItemRecord, Agrees, Shows

ItemsAgree == /\ item \in [Followed -> ItemRecord]
              /\ \A p \in Followed : Agrees(item[p], sinkShows[p])

\* When every item whose sink has changed is told, all items agree.
LEMMA TellAgrees ==
  ASSUME ItemsAgree, sinkShows' \in [Sinks -> Shows], NEW S, Changed \subseteq S, Tell(S)
  PROVE  ItemsAgree'
  <1>1. PICK due \in SUBSET (S \cap Followed) :
           item' = [p \in Followed |->
                      IF p \in S
                      THEN Item!onVideoFrameChanged(item[p], sinkShows'[p], p \in due)
                      ELSE item[p]]
    BY DEF Tell
  <1>2. ASSUME NEW p \in Followed
        PROVE  item'[p] \in ItemRecord /\ Agrees(item'[p], sinkShows'[p])
    <2>1. /\ p \in Panels /\ item[p] \in ItemRecord /\ sinkShows'[p] \in Shows
          /\ item[p].updateScheduled => Due(item[p])
      BY PanelsAssumption DEF ItemsAgree, Panels, Agrees
    <2>2. CASE p \in S
      <3> DEFINE now == p \in due
      <3>1. item'[p] = Item!onVideoFrameChanged(item[p], sinkShows'[p], now)
        BY <1>1, <2>2
      <3>2. now \in BOOLEAN
        OBVIOUS
      <3> HIDE DEF now
      <3> QED BY <2>1, <3>1, <3>2, ItemTold
    <2>3. CASE p \notin S
      <3>1. item'[p] = item[p] /\ sinkShows'[p] = sinkShows[p]
        BY <1>1, <2>1, <2>3 DEF Changed
      <3> QED BY <2>1, <3>1 DEF ItemsAgree
    <2> QED BY <2>2, <2>3
  <1> QED BY <1>1, <1>2 DEF ItemsAgree

-----------------------------------------------------------------------------
(* The invariant *)

PanelsInv == /\ TypeOK /\ CaptureInv(World) /\ ViewsInv(World) /\ liveSinks = Sinks
             /\ panel \in [Panels -> PanelRecord] /\ Holds(World, panel)
             /\ ItemsAgree

\* A step of the objects, and what it has to keep.
LEMMA BecomeSound ==
  ASSUME PanelsInv, NEW w, Sound(w), Become(w), UNCHANGED <<plugged, liveSinks>>,
         panel' \in [Panels -> PanelRecord], Holds(w, panel'),
         NEW S, Changed \subseteq S, Tell(S)
  PROVE  PanelsInv'
  <1>1. TypeOK' /\ World' = w
    BY BecomeTyped DEF PanelsInv, Sound
  <1>2. ViewsInv(World)'
    BY BecomeViews DEF Sound
  <1>3. ItemsAgree'
    BY <1>1, TellAgrees DEF PanelsInv, TypeOK, Shows
  <1>4. CaptureInv(World') /\ Holds(World', panel')
    BY <1>1 DEF Sound
  <1>5. liveSinks' = Sinks'
    BY DEF PanelsInv
  <1> QED BY <1>1, <1>2, <1>3, <1>4, <1>5 DEF PanelsInv

LEMMA InvSound == PanelsInv => Sound(World) /\ TypeOK /\ Holds(World, panel)
  BY WorldTyped DEF PanelsInv, Sound

LEMMA InitPanels == PanelsInit => PanelsInv
  <1> SUFFICES ASSUME PanelsInit PROVE PanelsInv
    OBVIOUS
  <1>1. TypeOK /\ CaptureInv(World) /\ ViewsInv(World)
    BY InitInv, InitViews DEF PanelsInit
  <1>2. liveSinks = Sinks /\ sinkShows = [s \in Sinks |-> None]
    BY DEF PanelsInit, Init
  <1>3. panel \in [Panels -> PanelRecord] /\ \A k \in Panels : panel[k].handle = None
    BY DEF PanelsInit, PanelRecord
  <1>4. Holds(World, panel)
    <2>1. \A h \in Handles : World.handle[h].viewSink = None
      BY DEF PanelsInit, Init, World, NewHandle
    <2> QED BY <1>3, <2>1 DEF Holds, HasHandle
  <1>5. ItemsAgree
    <2>1. \A p \in Followed : item[p] = Item!NewItem /\ sinkShows[p] = None
      BY <1>2, PanelsAssumption DEF PanelsInit, Panels
    <2>2. item \in [Followed -> ItemRecord]
      BY NewItemAgrees DEF PanelsInit
    <2> QED BY <2>1, <2>2, NewItemAgrees DEF ItemsAgree
  <1> QED BY <1>1, <1>2, <1>3, <1>4, <1>5 DEF PanelsInv

-----------------------------------------------------------------------------
(* The steps of a panel *)

LEMMA StartPanel ==
  ASSUME PanelsInv, NEW p \in Panels, NEW set \in PanelRecord, set.dev # None,
         startCameraPreview(p, set), UNCHANGED <<plugged, liveSinks>>
  PROVE  PanelsInv'
  <1> DEFINE h == CHOOSE f \in FreeHandles : TRUE
             w == closeHandle(World, p)
             d == set.dev
             q == [set EXCEPT !.handle = h]
  <1>1. h \in Handles /\ World.handle[h].state = "free"
    BY DEF startCameraPreview, FreeHandles, World
  <1>2. PICK e \in BackendTexts :
           Become(setRunning(setViewSink(acquireCameraPreviewHandle(w, d, h), h, p, e), h, TRUE, e))
    BY DEF startCameraPreview
  <1>3. panel' = [panel EXCEPT ![p] = q]
    BY DEF startCameraPreview
  <1>4. Tell(Changed \cup Given(p))
    BY DEF startCameraPreview
  <1> HIDE DEF h
  <1>5. q \in PanelRecord /\ q.handle = h /\ d \in Devices
    BY <1>1 DEF PanelRecord
  <1> HIDE DEF q
  <1>6. /\ panel \in [Panels -> PanelRecord] /\ p \in liveSinks
        /\ Sound(World) /\ Holds(World, panel)
    BY InvSound DEF PanelsInv, Panels
  <1>7. /\ panel' \in [Panels -> PanelRecord] /\ SameBut(panel', panel, p)
        /\ panel'[p].handle = h
    BY <1>3, <1>5, <1>6 DEF SameBut
  <1>8. \E P \in [Panels -> PanelRecord] :
           /\ Sound(w) /\ Holds(w, P) /\ SameBut(panel', P, p) /\ P[p].handle = None
           /\ w.handle[h].state = "free" /\ Room(w, d)
    <2>1. CASE active(p)
      <3> DEFINE P == [panel EXCEPT ![p] = [panel[p] EXCEPT !.handle = None]]
      <3>1. P \in [Panels -> PanelRecord] /\ SameBut(P, panel, p) /\ P[p].handle = None
        BY <1>6 DEF PanelRecord, SameBut
      <3> HIDE DEF P
      <3>2. w = close(World, panel[p].handle) /\ panel[p].handle # None
        BY <2>1 DEF closeHandle, active
      <3>3. /\ Sound(w) /\ Holds(w, P) /\ FreeStreams(World) \subseteq FreeStreams(w)
            /\ w.handle[h].state = "free"
        BY <1>1, <1>6, <3>1, <3>2, CloseHolds
      <3>4. FreeStreams(World) # {}
        BY <2>1 DEF startCameraPreview
      <3>5. SameBut(panel', P, p)
        BY <1>7, <3>1 DEF SameBut
      <3> QED BY <3>1, <3>3, <3>4, <3>5 DEF Room
    <2>2. CASE ~active(p)
      <3>1. w = World /\ panel[p].handle = None
        BY <2>2 DEF closeHandle, active
      <3>2. Room(World, d)
        BY DEF startCameraPreview, Room, World
      <3> QED BY <1>1, <1>6, <1>7, <3>1, <3>2
    <2> QED BY <2>1, <2>2
  <1> HIDE DEF w, d
  <1> DEFINE v == setRunning(setViewSink(acquireCameraPreviewHandle(w, d, h), h, p, e), h, TRUE, e)
  <1>9. Sound(v) /\ Holds(v, panel')
    BY <1>1, <1>5, <1>6, <1>7, <1>8, StartHolds
  <1> HIDE DEF v
  <1>10. Become(v)
    BY <1>2 DEF v
  <1> QED BY <1>4, <1>7, <1>9, <1>10, BecomeSound

LEMMA StopPanel ==
  ASSUME PanelsInv, NEW p \in Panels, NEW set \in PanelRecord, stopCameraPreview(p, set),
         UNCHANGED <<plugged, liveSinks>>
  PROVE  PanelsInv'
  <1> DEFINE h == panel[p].handle
             q == [set EXCEPT !.handle = None]
             u == setRunning(World, h, FALSE, "")
             w == IF h = None THEN World ELSE close(u, h)
  <1>1. Become(w) /\ panel' = [panel EXCEPT ![p] = q] /\ Tell(Changed)
    BY DEF stopCameraPreview
  <1>2. /\ panel \in [Panels -> PanelRecord] /\ Sound(World) /\ Holds(World, panel)
    BY InvSound DEF PanelsInv
  <1>3. q \in PanelRecord /\ q.handle = None
    BY DEF PanelRecord
  <1> HIDE DEF q
  <1>4. /\ panel' \in [Panels -> PanelRecord] /\ SameBut(panel', panel, p)
        /\ panel'[p].handle = None
    BY <1>1, <1>2, <1>3 DEF SameBut
  <1>5. Sound(w) /\ Holds(w, panel')
    <2>1. CASE h = None
      <3>1. \A k \in Panels : HasHandle(World, panel'[k], k)
        BY <1>2, <1>4 DEF Holds, HasHandle, SameBut
      <3>2. \A g \in Handles : World.handle[g].viewSink # None =>
               World.handle[g].viewSink \in Panels \ {p}
        BY <1>2, <2>1, Parts, MediaCaptureAssumption DEF Holds, Sound, HandleRecord, Panels
      <3>3. Holds(World, panel')
        BY <1>2, <1>4, <3>1, <3>2 DEF Holds, SameBut
      <3> QED BY <1>2, <2>1, <3>3
    <2>2. CASE h # None
      <3>1. h \in Handles /\ World.handle[h].state = "alive"
        BY <1>2, <2>2 DEF PanelRecord, Holds, HasHandle
      <3>2. Sound(u) /\ Holds(u, panel)
        BY <1>2, <3>1, RunHolds DEF BackendTexts
      <3> HIDE DEF u
      <3>3. Sound(close(u, h)) /\ Holds(close(u, h), panel')
        BY <1>2, <1>4, <2>2, <3>2, CloseHolds
      <3> QED BY <2>2, <3>3
    <2> QED BY <2>1, <2>2
  <1> HIDE DEF w
  <1> QED BY <1>1, <1>4, <1>5, BecomeSound

\* The rest of a panel's record is no concern of the objects.
LEMMA RecordChanges ==
  ASSUME PanelsInv, UNCHANGED <<vars, item>>, panel' \in [Panels -> PanelRecord],
         \A k \in Panels : panel'[k].handle = panel[k].handle
  PROVE  PanelsInv'
  <1>1. Holds(World, panel')
    <2>1. ASSUME NEW k \in Panels PROVE HasHandle(World, panel'[k], k)
      BY DEF PanelsInv, Holds, HasHandle
    <2>2. \A h \in Handles : World.handle[h].viewSink # None => World.handle[h].viewSink \in Panels
      BY Parts, InvSound DEF Sound, HandleRecord, Panels
    <2> QED BY <2>1, <2>2 DEF PanelsInv, Holds
  <1>2. World' = World /\ UNCHANGED <<liveSinks, sinkShows, item>>
    BY DEF vars, World
  <1>3. TypeOK'
    BY DEF vars, PanelsInv, TypeOK
  <1>4. ViewsInv(World)'
    <2>1. Owned(World)'
      BY <1>2 DEF PanelsInv, ViewsInv, Attached, Owned
    <2>2. ASSUME NEW c \in Streams PROVE Lists(World, c)'
      BY <1>2 DEF PanelsInv, ViewsInv, Attached, Lists, On
    <2>3. ASSUME NEW h \in Handles PROVE Mirrors(World, h)'
      BY <1>2 DEF PanelsInv, ViewsInv, Attached, Mirrors, Mirror, On
    <2>4. ASSUME NEW c \in Streams PROVE InUse(World, c)'
      BY <1>2 DEF PanelsInv, ViewsInv, InUse, isUnused
    <2> QED BY <2>1, <2>2, <2>3, <2>4 DEF ViewsInv, Attached
  <1> QED BY <1>1, <1>2, <1>3, <1>4 DEF PanelsInv, ItemsAgree

LEMMA PanelBecomes ==
  ASSUME PanelsInv, NEW p \in Panels, NEW q \in PanelRecord, q.handle = panel[p].handle,
         Becomes(p, q), UNCHANGED <<plugged, liveSinks>>
  PROVE  PanelsInv'
  <1>1. panel' = [panel EXCEPT ![p] = q] /\ UNCHANGED <<vars, item>>
    BY DEF Becomes, vars
  <1>2. panel' \in [Panels -> PanelRecord] /\ \A k \in Panels : panel'[k].handle = panel[k].handle
    BY <1>1 DEF PanelsInv
  <1> QED BY <1>1, <1>2, RecordChanges

LEMMA PanelStep ==
  ASSUME PanelsInv, NEW p \in Panels, Panel(p)
  PROVE  PanelsInv'
  <1>1. panel[p] \in PanelRecord /\ UNCHANGED <<plugged, liveSinks>>
    BY DEF Panel, PanelsInv
  <1>2. ASSUME NEW d \in Devices, Open(p, d) PROVE PanelsInv'
    <2>1. PICK e \in Shows :
             Becomes(p, [panel[p] EXCEPT !.dev = e, !.open =
                            IF e # None \/ p \in Restarting THEN "camera" ELSE "no"])
      BY <1>2 DEF Open, ensureCameraPreviewDeviceSelected, Shows
    <2> DEFINE opens == IF e # None \/ p \in Restarting THEN "camera" ELSE "no"
               q == [panel[p] EXCEPT !.dev = e, !.open = opens]
    <2>2. q \in PanelRecord /\ q.handle = panel[p].handle
      <3>1. opens \in {"no", "camera", "other"}
        OBVIOUS
      <3> HIDE DEF opens
      <3> QED BY <1>1, <3>1 DEF PanelRecord, Shows
    <2>3. Becomes(p, q)
      BY <2>1
    <2> HIDE DEF q
    <2> QED BY <1>1, <2>2, <2>3, PanelBecomes
  <1>3. CASE OpenOther(p)
    <2> DEFINE q == [panel[p] EXCEPT !.open = "other"]
    <2>1. q \in PanelRecord /\ q.handle = panel[p].handle
      BY <1>1 DEF PanelRecord
    <2>2. Becomes(p, q)
      BY <1>3 DEF OpenOther
    <2> HIDE DEF q
    <2> QED BY <1>1, <2>1, <2>2, PanelBecomes
  <1>4. CASE Start(p)
    BY <1>1, <1>4, StartPanel DEF Start
  <1>5. CASE Stop(p)
    BY <1>1, <1>5, StopPanel DEF Stop
  <1>6. CASE ClosePanel(p)
    <2>1. [panel[p] EXCEPT !.open = "no"] \in PanelRecord
      BY <1>1 DEF PanelRecord
    <2> QED BY <1>1, <1>6, <2>1, StopPanel DEF ClosePanel
  <1>7. CASE Restart(p)
    <2>0. ensureCameraPreviewDeviceSelected(panel[p].dev) \subseteq Shows
      BY <1>1 DEF PanelRecord, ensureCameraPreviewDeviceSelected, Shows
    <2>1. PICK d \in Shows :
             LET q == [panel[p] EXCEPT !.dev = d, !.restart = FALSE]
             IN IF d = None THEN Becomes(p, q) ELSE startCameraPreview(p, q)
      <3> HIDE DEF Shows
      <3> QED BY <1>7, <2>0 DEF Restart
    <2> DEFINE q == [panel[p] EXCEPT !.dev = d, !.restart = FALSE]
    <2>2. q \in PanelRecord /\ q.handle = panel[p].handle /\ q.dev = d
      BY <1>1 DEF PanelRecord, Shows
    <2>3. IF d = None THEN Becomes(p, q) ELSE startCameraPreview(p, q)
      BY <2>1
    <2> HIDE DEF q
    <2> QED BY <1>1, <2>2, <2>3, PanelBecomes, StartPanel
  <1>8. ASSUME NEW d \in Devices, Choose(p, d) PROVE PanelsInv'
    <2>1. CASE active(p)
      <3> DEFINE again == p \in Restarting
                 set == [panel[p] EXCEPT !.dev = d, !.restart = again]
      <3>1. set \in PanelRecord
        <4>1. again \in BOOLEAN
          OBVIOUS
        <4> HIDE DEF again
        <4> QED BY <1>1, <4>1 DEF PanelRecord
      <3>2. stopCameraPreview(p, set)
        BY <1>8, <2>1 DEF Choose
      <3> HIDE DEF set
      <3> QED BY <1>1, <3>1, <3>2, StopPanel
    <2>2. CASE ~active(p)
      <3> DEFINE q == [panel[p] EXCEPT !.dev = d]
      <3>1. q \in PanelRecord /\ q.handle = panel[p].handle
        BY <1>1 DEF PanelRecord
      <3>2. Becomes(p, q)
        BY <1>8, <2>2 DEF Choose
      <3> HIDE DEF q
      <3> QED BY <1>1, <3>1, <3>2, PanelBecomes
    <2> QED BY <2>1, <2>2
  <1> QED BY <1>2, <1>3, <1>4, <1>5, <1>6, <1>7, <1>8 DEF Panel

-----------------------------------------------------------------------------
(* The steps of the items, the frames and the surroundings *)

LEMMA ItemStep ==
  ASSUME PanelsInv, NEW p \in Followed, Throttle(p) \/ Paint(p)
  PROVE  PanelsInv'
  <1> DEFINE shows == sinkShows[p]
  <1>1. item[p] \in ItemRecord /\ Agrees(item[p], shows) /\ shows \in Shows
    BY PanelsAssumption DEF PanelsInv, ItemsAgree, TypeOK, Shows, Panels
  <1> HIDE DEF shows
  <1>2. \E j \in ItemRecord : item' = [item EXCEPT ![p] = j] /\ Agrees(j, shows)
    <2>1. CASE Throttle(p)
      BY <1>1, <2>1, ItemThrottled DEF Throttle
    <2>2. CASE Paint(p)
      BY <1>1, <2>2, ItemPaints DEF Paint
    <2> QED BY <2>1, <2>2
  <1>3. UNCHANGED <<vars, panel>>
    BY DEF Throttle, Paint
  <1>4. World' = World /\ UNCHANGED <<liveSinks, sinkShows, panel>>
    BY <1>3 DEF vars, World
  <1>5. ItemsAgree'
    BY <1>2, <1>4 DEF PanelsInv, ItemsAgree, shows
  <1>6. TypeOK'
    BY <1>3 DEF vars, PanelsInv, TypeOK
  <1>7. ViewsInv(World)'
    BY <1>4 DEF PanelsInv, ViewsInv, Attached, Owned, Lists, Mirrors, Mirror, InUse, isUnused, On
  <1> QED BY <1>4, <1>5, <1>6, <1>7 DEF PanelsInv

LEMMA StutterTells ==
  ASSUME PanelsInv, UNCHANGED <<sinkShows, item>>
  PROVE  ItemsAgree'
  BY DEF PanelsInv, ItemsAgree

LEMMA PostStep ==
  ASSUME PanelsInv, NEW c \in Streams, PostFrame(c)
  PROVE  PanelsInv'
  <1> DEFINE n == stream[c].pending + 1
             w == [World EXCEPT !.stream[c].pending = n]
  <1>1. Sound(World) /\ TypeOK /\ Holds(World, panel)
    BY InvSound
  <1>2. n \in Nat
    BY <1>1 DEF TypeOK, StreamRecord
  <1>3. Become(w)
    BY <1>1 DEF PostFrame, Become, World, TypeOK
  <1> HIDE DEF n
  <1>4. w.handle = World.handle
    BY DEF World
  <1>5. w \in Worlds /\ CaptureInv(w) /\ ViewsInv(w)
    <2>1. w \in Worlds /\ SameCore(w, World) /\ ViewsInv(w)
      BY <1>1, <1>2, PendingCore, PendingViews DEF Sound, CaptureInv
    <2> HIDE DEF w
    <2> QED BY <1>1, <2>1, SameCoreInv DEF Sound
  <1> HIDE DEF w
  <1>6. TypeOK' /\ World' = w /\ ViewsInv(World)'
    BY <1>1, <1>3, <1>5, BecomeTyped, BecomeViews DEF PostFrame
  <1>7. ItemsAgree' /\ UNCHANGED <<panel, liveSinks>>
    BY StutterTells DEF PostFrame
  <1>8. Holds(w, panel)
    BY <1>1, <1>4 DEF Holds, HasHandle
  <1> QED BY <1>5, <1>6, <1>7, <1>8 DEF PanelsInv

LEMMA FrameStep ==
  ASSUME PanelsInv, NEW c \in Streams, Frame(c)
  PROVE  PanelsInv'
  <1> DEFINE n == stream[c].pending - 1
             f == stream[c].framesReceived
             m == IF f = MaxFrames THEN f - 1 ELSE f
             x == [World EXCEPT !.stream[c].pending = n]
             y == [x EXCEPT !.stream[c].framesReceived = m]
             v == onVideoFrameChanged(y, c)
  <1>1. Sound(World) /\ TypeOK /\ Holds(World, panel) /\ stream[c] \in StreamRecord
    BY InvSound DEF TypeOK
  <1>2. n \in Nat /\ m \in Nat
    <2>1. f \in Nat /\ stream[c].pending \in Nat
      BY <1>1 DEF StreamRecord
    <2> QED BY <2>1, MediaCaptureAssumption, PanelsAssumption DEF Frame
  <1>3. Become(v) /\ Tell(stream[c].viewSinks) /\ UNCHANGED <<plugged, liveSinks, panel>>
    <2>1. y = [World EXCEPT !.stream[c].pending = @ - 1,
                            !.stream[c].framesReceived = IF @ = MaxFrames THEN @ - 1 ELSE @]
      BY <1>1 DEF World, TypeOK, StreamRecord
    <2> HIDE DEF y
    <2> QED BY <2>1 DEF Frame
  <1> HIDE DEF n, m
  <1>4. /\ x \in Worlds /\ Mapped(x) /\ ViewsInv(x) /\ SameCore(x, World)
        /\ x.handle = World.handle /\ x.sinkShows = World.sinkShows
        /\ x.stream[c].viewSinks = stream[c].viewSinks
    <2>1. x \in Worlds /\ Mapped(x) /\ ViewsInv(x) /\ SameCore(x, World)
      BY <1>1, <1>2, PendingCore, PendingViews DEF Sound, CaptureInv
    <2>2. x.handle = World.handle /\ x.sinkShows = World.sinkShows
      BY DEF World
    <2>3. x.stream[c].viewSinks = stream[c].viewSinks
      BY <1>1 DEF World, TypeOK, StreamRecord
    <2> QED BY <2>1, <2>2, <2>3
  <1> HIDE DEF x
  <1>5. y \in Worlds /\ SameCore(y, x)
    <2> DEFINE r == [x.stream[c] EXCEPT !.framesReceived = m]
    <2>1. /\ r \in StreamRecord
          /\ r.state = x.stream[c].state /\ r.dev = x.stream[c].dev
          /\ r.active = x.stream[c].active /\ r.runningRefCount = x.stream[c].runningRefCount
      BY <1>2, <1>4, Parts DEF StreamRecord
    <2>2. y = [x EXCEPT !.stream[c] = r]
      BY <1>4 DEF Worlds
    <2> HIDE DEF r, y
    <2> QED BY <1>4, <2>1, <2>2, SameStreamCore
  <1>6. /\ v \in Worlds /\ Attached(v)
        /\ \A g \in Handles : Kept(v, x, g)
        /\ \A b \in Streams : InUse(x, b) => InUse(v, b)
        /\ \A k \in Sinks : k \notin x.stream[c].viewSinks => v.sinkShows[k] = x.sinkShows[k]
    BY <1>2, <1>4, FrameViews DEF ViewsInv
  <1> HIDE DEF y
  <1>7. CaptureInv(v)
    <2>1. SameCore(v, y)
      BY <1>5, onVideoFrameChangedCore
    <2>2. SameCore(v, World)
      BY <1>4, <1>5, <2>1, SameCoreTrans
    <2> QED BY <1>1, <1>6, <2>2, SameCoreInv DEF Sound
  <1> HIDE DEF v
  <1>8. Sound(v)
    BY <1>4, <1>6, <1>7 DEF Sound, ViewsInv
  <1>9. Holds(v, panel)
    <2>1. \A g \in Handles : Steady(v, x, g)
      BY <1>6, KeptSteady
    <2>2. \A g \in Handles : Steady(v, World, g)
      BY <1>4, <2>1 DEF Steady
    <2> QED BY <1>1, <2>2, SteadyHolds DEF PanelsInv
  <1>10. Changed \subseteq stream[c].viewSinks
    <2>1. sinkShows' = v.sinkShows /\ sinkShows = World.sinkShows
      BY <1>3 DEF Become, World
    <2> QED BY <1>4, <1>6, <2>1 DEF Changed, Panels
  <1>11. panel' \in [Panels -> PanelRecord] /\ Holds(v, panel')
    BY <1>3, <1>9 DEF PanelsInv
  <1> QED BY <1>3, <1>8, <1>10, <1>11, BecomeSound

\* The surroundings take no handle from a panel: what is deleted was closed by it.
LEMMA EnvironmentStep ==
  ASSUME PanelsInv, Environment, Tell(Changed), UNCHANGED panel
  PROVE  PanelsInv'
  <1>1. Sound(World) /\ TypeOK /\ Holds(World, panel) /\ panel \in [Panels -> PanelRecord]
    BY InvSound DEF PanelsInv
  <1>2. TypeOK' /\ CaptureInv(World')
    <2>1. Next
      BY DEF Environment, Next
    <2> QED BY <1>1, <2>1, StepInv DEF PanelsInv
  <1>3. ItemsAgree'
    BY <1>2, TellAgrees DEF PanelsInv, TypeOK, Shows
  <1>4. ViewsInv(World)' /\ UNCHANGED liveSinks
    <2>1. UNCHANGED liveSinks
      BY DEF Environment, DestroyStream, BackendErrorText, DestroyHandle, Plug, Unplug
    <2>2. ViewsInv(World)'
      BY DestroyStreamViews, StreamViews, HandleViews, PlugViews DEF PanelsInv, Environment
    <2> QED BY <2>1, <2>2
  <1>5. Holds(World', panel)
    <2>1. ASSUME UNCHANGED handle PROVE Holds(World', panel)
      BY <1>1, <2>1 DEF Holds, HasHandle, World
    <2>2. ASSUME NEW c \in Streams, NEW t \in BackendTexts, BackendErrorText(c, t)
          PROVE  Holds(World', panel)
      <3> DEFINE v == onBackendErrorTextChanged(World, c, t)
      <3>1. v \in Worlds /\ \A g \in Handles : Kept(v, World, g)
        BY <1>1, LinkedMapped, onBackendErrorTextChangedViews DEF Sound, CaptureInv, ViewsInv
      <3>2. World' = v
        BY <2>2, <3>1, BecomeWorld DEF BackendErrorText
      <3> HIDE DEF v
      <3> QED BY <1>1, <3>1, <3>2, KeptSteady, SteadyHolds
    <2>3. ASSUME NEW h \in Handles, handle[h].state = "closing", DestroyHandle(h)
          PROVE  Holds(World', panel)
      <3> DEFINE v == destroyHandle(World, h)
      <3>1. World.handle[h].state = "closing"
        BY <2>3 DEF World
      <3>2. v \in Worlds /\ Beside(v, World, h) /\ v.handle[h] = NewHandle("free", None)
        BY <1>1, <3>1, destroyHandleInv, destroyHandleViews DEF Sound
      <3>3. World' = v
        BY <2>3, <3>2, BecomeWorld DEF DestroyHandle
      <3> HIDE DEF v
      <3>4. v.handle[h].viewSink = None
        <4> DEFINE g == NewHandle("free", None)
        <4>1. g.viewSink = None
          BY DEF NewHandle
        <4>2. v.handle[h] = g
          BY <3>2
        <4> HIDE DEF g
        <4> QED BY <4>1, <4>2
      <3>5. \A g \in Handles \ {h} : Steady(v, World, g)
        BY <3>2, KeptSteady DEF Beside
      <3>6. ASSUME NEW k \in Panels PROVE HasHandle(v, panel[k], k)
        <4>1. panel[k].handle # h /\ (panel[k].handle # None => panel[k].handle \in Handles)
          BY <1>1, <3>1, MediaCaptureAssumption DEF Holds, HasHandle, PanelRecord
        <4> QED BY <1>1, <3>5, <4>1 DEF Holds, HasHandle, Steady
      <3>7. \A g \in Handles : v.handle[g].viewSink # None => panel[v.handle[g].viewSink].handle = g
        BY <1>1, <3>4, <3>5 DEF Holds, Steady
      <3> QED BY <3>3, <3>6, <3>7 DEF Holds
    <2> QED BY <2>1, <2>2, <2>3 DEF Environment, DestroyStream, Plug, Unplug
  <1> QED BY <1>1, <1>2, <1>3, <1>4, <1>5 DEF PanelsInv

-----------------------------------------------------------------------------
(* Theorems *)

\* Whatever the panels do, and in whatever order they are opened, started, stopped, changed and
\* closed, they keep the client's part of the contract: each open handle is its panel's own and
\* has its panel's sink, whichever camera it was opened for, and each item has that frame pending
\* which its sink shows, with a painting due as long as its image is another camera's.
THEOREM PanelsInvariant == PanelsSpec => []PanelsInv
  <1>1. PanelsInv /\ [PanelsNext]_panelVars => PanelsInv'
    <2> SUFFICES ASSUME PanelsInv, [PanelsNext]_panelVars PROVE PanelsInv'
      OBVIOUS
    <2>1. CASE UNCHANGED panelVars
      <3>1. UNCHANGED <<vars, item>> /\ panel' = panel
        BY <2>1 DEF panelVars
      <3> QED BY <3>1, RecordChanges DEF PanelsInv
    <2>2. ASSUME NEW p \in Panels, Panel(p) PROVE PanelsInv'
      BY <2>2, PanelStep
    <2>3. ASSUME NEW p \in Followed, Throttle(p) \/ Paint(p) PROVE PanelsInv'
      BY <2>3, ItemStep
    <2>4. ASSUME NEW c \in Streams, PostFrame(c) \/ Frame(c) PROVE PanelsInv'
      BY <2>4, PostStep, FrameStep
    <2>5. CASE Environment /\ Tell(Changed) /\ UNCHANGED panel
      BY <2>5, EnvironmentStep
    <2> QED BY <2>1, <2>2, <2>3, <2>4, <2>5 DEF PanelsNext
  <1> QED BY <1>1, InitPanels, PTL DEF PanelsSpec

\* A blanked sink leaves no image in its item, an image of another camera than the sink's now goes
\* with a painting that is due, and a visible item has a frame of the camera of its own panel's
\* handle pending: no repaint, late frame or restart brings back what an earlier camera left.
THEOREM NothingOldShown == PanelsSpec => []NoOldPicture
  <1>1. PanelsInv => NoOldPicture
    <2> SUFFICES ASSUME PanelsInv, NEW p \in Followed
                 PROVE  /\ item[p].lastImage \notin {None, sinkShows[p]} =>
                              /\ sinkShows[p] # None /\ item[p].unpainted
                              /\ item[p].timer \/ item[p].dirty
                        /\ Visible(p) => sinkShows[p] = handle[panel[p].handle].dev
      BY DEF NoOldPicture
    <2>1. item[p] \in ItemRecord /\ Agrees(item[p], sinkShows[p]) /\ p \in Panels
      BY PanelsAssumption DEF PanelsInv, ItemsAgree
    <2>2. item[p].hasFrame => sinkShows[p] # None
      BY <2>1 DEF Agrees
    <2>3. ASSUME Visible(p) PROVE sinkShows[p] = handle[panel[p].handle].dev
      <3> DEFINE h == panel[p].handle
      <3>1. /\ h # None /\ h \in Handles /\ World.handle[h].hasFrame /\ item[p].hasFrame
        BY <2>1, <2>3 DEF Visible, active, PanelsInv, PanelRecord, World
      <3>2. World.handle[h].registered /\ World.handle[h].viewSink = p
        BY <2>1, <3>1 DEF PanelsInv, Holds, HasHandle
      <3> HIDE DEF h
      <3>3. Mirrors(World, h)
        BY <3>1 DEF PanelsInv, ViewsInv, Attached
      <3>4. World.sinkShows[p] \in {None, World.handle[h].dev}
        BY <3>1, <3>2, <3>3 DEF Mirrors, Mirror
      <3> QED BY <2>2, <3>1, <3>4 DEF World, h
    <2>4. ASSUME item[p].lastImage \notin {None, sinkShows[p]}
          PROVE  sinkShows[p] # None /\ item[p].unpainted /\ (item[p].timer \/ item[p].dirty)
      BY <2>1, <2>4 DEF Agrees, Due
    <2> QED BY <2>3, <2>4
  <1> QED BY <1>1, PanelsInvariant, PTL

\* The application is a client that keeps the contract: whatever its panels do, no camera is on
\* without a running handle, no device is opened twice, the count decides the camera, and the
\* streams list, serve and outlive exactly the handles that the panels have attached.
THEOREM PanelsKeepContract ==
  PanelsSpec => [](/\ NoOrphanCapture /\ OneCapturePerDevice /\ CountedCapture
                   /\ StreamsAreUsed /\ AttachedMirrorsStream /\ ListsExactlyAttached)
  <1>1. PanelsInv => Inv /\ Views
    BY DEF PanelsInv, Inv, Views
  <1>2. PanelsInv => /\ NoOrphanCapture /\ OneCapturePerDevice /\ CountedCapture
                     /\ StreamsAreUsed /\ AttachedMirrorsStream /\ ListsExactlyAttached
    BY <1>1, InvNoOrphan, InvOneDevice, InvCounts, ViewsUsed, ViewsMirror, ViewsList
  <1> QED BY <1>2, PanelsInvariant, PTL

=============================================================================
