-------------------------- MODULE MediaCaptureProofs --------------------------
(***************************************************************************)
(* Proofs about MediaCapture, for any number of devices, handles, sinks    *)
(* and streams.                                                            *)
(*                                                                         *)
(* An action is a chain of operators from a World to a World, so the       *)
(* argument follows the chain: each operator has a lemma that it stays in  *)
(* Worlds, and one that says what it does to a part of a World.            *)
(*                                                                         *)
(* First the core of a World - the map, the streams' states, counts and    *)
(* switches, the running handles - which most operators leave alone        *)
(* (SameCore): a camera is on only while it is counted.                    *)
(*                                                                         *)
(* Then what the views are told.  For every client: a capture that stops   *)
(* does so in a step in which a handle stops running, and leaves its       *)
(* views blank.  Under the client's side of the contract - no sink is      *)
(* shared, none dies in use: streams list exactly what is attached,        *)
(* attached handles mirror their stream, and no stream stays in the map    *)
(* unused.                                                                 *)
(***************************************************************************)
EXTENDS MediaCapture, FiniteSetTheorems, TLAPS

Worlds == [cameraStreams : [Devices -> Streams \cup {None}],
           stream : [Streams -> StreamRecord],
           handle : [Handles -> HandleRecord],
           sinkShows : [Sinks -> Devices \cup {None}]]

\* The type invariant says that the objects form a World.
LEMMA WorldTyped == TypeOK => World \in Worlds
  BY DEF TypeOK, World, Worlds

\* Become(w) makes w the next World.
LEMMA BecomeWorld == \A w \in Worlds : Become(w) => World' = w
  BY DEF Become, World, Worlds

LEMMA BecomeTyped ==
  ASSUME TypeOK, NEW w \in Worlds, Become(w), UNCHANGED <<plugged, liveSinks>>
  PROVE  TypeOK' /\ World' = w
  BY BecomeWorld DEF TypeOK, Become, World, Worlds

-----------------------------------------------------------------------------
(* Every operator stays in Worlds.  Parts of a World, and the World with a part replaced. *)

LEMMA Parts ==
  ASSUME NEW w \in Worlds
  PROVE  /\ \A c \in Streams : w.stream[c] \in StreamRecord
         /\ \A h \in Handles : w.handle[h] \in HandleRecord
         /\ \A d \in Devices : w.cameraStreams[d] \in Streams \cup {None}
  BY DEF Worlds

LEMMA WithStream ==
  ASSUME NEW w \in Worlds, NEW c \in Streams, NEW r \in StreamRecord
  PROVE  [w EXCEPT !.stream[c] = r] \in Worlds
  BY DEF Worlds

LEMMA WithHandle ==
  ASSUME NEW w \in Worlds, NEW h \in Handles, NEW r \in HandleRecord
  PROVE  [w EXCEPT !.handle[h] = r] \in Worlds
  BY DEF Worlds

LEMMA WithHandles ==
  ASSUME NEW w \in Worlds, NEW H \in [Handles -> HandleRecord]
  PROVE  [w EXCEPT !.handle = H] \in Worlds
  BY DEF Worlds

LEMMA WithMapped ==
  ASSUME NEW w \in Worlds, NEW d \in Devices, NEW c \in Streams \cup {None}
  PROVE  [w EXCEPT !.cameraStreams[d] = c] \in Worlds
  BY DEF Worlds

LEMMA ShowTyped ==
  ASSUME NEW w \in Worlds, NEW S, NEW d \in Devices \cup {None}
  PROVE  Show(w, S, d) \in Worlds
  BY DEF Show, Worlds

LEMMA PublishFramesTyped ==
  ASSUME NEW w \in Worlds, NEW c \in Streams
  PROVE  PublishFrames(w, c) \in Worlds
  <1> DEFINE told(h) == [w.handle[h] EXCEPT !.hasFrame = w.stream[c].lastFrame,
                                            !.framesReceived = w.stream[c].framesReceived]
             H == [h \in Handles |-> IF h \in w.stream[c].handles /\ Exists(w, h)
                                     THEN told(h) ELSE w.handle[h]]
  <1>1. w.stream[c].lastFrame \in BOOLEAN /\ w.stream[c].framesReceived \in Nat
    BY Parts DEF StreamRecord
  <1>2. ASSUME NEW h \in Handles PROVE w.handle[h] \in HandleRecord
    BY Parts
  <1>3. ASSUME NEW h \in Handles PROVE told(h) \in HandleRecord
    BY <1>1, <1>2 DEF HandleRecord
  <1> HIDE DEF told
  <1>4. H \in [Handles -> HandleRecord]
    BY <1>2, <1>3
  <1>5. PublishFrames(w, c) = [w EXCEPT !.handle = H]
    BY DEF PublishFrames, told
  <1> HIDE DEF H
  <1> QED BY <1>4, <1>5, WithHandles

LEMMA addHandleTyped ==
  ASSUME NEW w \in Worlds, NEW c \in Streams, NEW h \in Handles
  PROVE  addHandle(w, c, h) \in Worlds
  <1> DEFINE r == [w.stream[c] EXCEPT !.handles = @ \cup {h}]
             g == [w.handle[h] EXCEPT !.errorText = w.stream[c].errorText,
                                      !.hasFrame = w.stream[c].lastFrame,
                                      !.framesReceived = w.stream[c].framesReceived]
             v == [w EXCEPT !.stream[c] = r]
  <1>1. w.stream[c] \in StreamRecord /\ w.handle[h] \in HandleRecord
    BY Parts
  <1>2. r \in StreamRecord
    BY <1>1 DEF StreamRecord
  <1>3. g \in HandleRecord
    BY <1>1 DEF StreamRecord, HandleRecord, Texts
  <1>4. addHandle(w, c, h) = [v EXCEPT !.handle[h] = g]
    BY DEF addHandle, Worlds
  <1> HIDE DEF r, g
  <1>5. v \in Worlds
    BY <1>2, WithStream
  <1> HIDE DEF v
  <1> QED BY <1>3, <1>4, <1>5, WithHandle

LEMMA addViewSinkTyped ==
  ASSUME NEW w \in Worlds, NEW c \in Streams, NEW s \in Sinks
  PROVE  addViewSink(w, c, s) \in Worlds
  <1> DEFINE r == [w.stream[c] EXCEPT !.viewSinks = @ \cup {s}]
             added == [w EXCEPT !.stream[c] = r]
  <1>1. r \in StreamRecord /\ w.stream[c].dev \in Devices \cup {None}
    BY Parts DEF StreamRecord
  <1>2. added = [w EXCEPT !.stream[c].viewSinks = @ \cup {s}]
    BY DEF Worlds
  <1> HIDE DEF r
  <1>3. added \in Worlds
    BY <1>1, WithStream
  <1> HIDE DEF added
  <1> QED BY <1>1, <1>2, <1>3, ShowTyped DEF addViewSink

LEMMA setActiveTyped ==
  ASSUME NEW w \in Worlds, NEW c \in Streams, NEW a \in BOOLEAN
  PROVE  setActive(w, c, a) \in Worlds
  <1> DEFINE r == [w.stream[c] EXCEPT !.active = a]
             q == [r EXCEPT !.lastFrame = FALSE, !.framesReceived = 0]
             switched == [w EXCEPT !.stream[c] = r]
             emptied == [w EXCEPT !.stream[c] = q]
  <1>1. r \in StreamRecord /\ q \in StreamRecord
    BY Parts DEF StreamRecord
  <1>2. /\ switched = [w EXCEPT !.stream[c].active = a]
        /\ emptied = [switched EXCEPT !.stream[c].lastFrame = FALSE,
                                      !.stream[c].framesReceived = 0]
    BY DEF Worlds
  <1> HIDE DEF r, q
  <1>3. switched \in Worlds /\ emptied \in Worlds
    BY <1>1, WithStream
  <1> HIDE DEF switched, emptied
  <1>4. PublishFrames(Show(emptied, w.stream[c].viewSinks, None), c) \in Worlds
    BY <1>3, ShowTyped, PublishFramesTyped
  <1> QED BY <1>2, <1>3, <1>4 DEF setActive

LEMMA incrementRunningRefCountTyped ==
  ASSUME NEW w \in Worlds, NEW c \in Streams, NEW b \in BOOLEAN
  PROVE  incrementRunningRefCount(w, c, b) \in Worlds
  <1> DEFINE r == [w.stream[c] EXCEPT !.runningRefCount =
                      IF b THEN @ + 1 ELSE IF @ > 0 THEN @ - 1 ELSE 0]
  <1>1. r \in StreamRecord
    BY Parts DEF StreamRecord
  <1>2. incrementRunningRefCount(w, c, b) = [w EXCEPT !.stream[c] = r]
    BY DEF incrementRunningRefCount, Worlds
  <1> HIDE DEF r
  <1> QED BY <1>1, <1>2, WithStream

\* The stream after a frame has been counted, before it is shown.
LEMMA countedTyped ==
  ASSUME NEW w \in Worlds, NEW c \in Streams
  PROVE  [w EXCEPT !.stream[c].lastFrame = TRUE,
                   !.stream[c].framesReceived = @ + 1,
                   !.stream[c].handles = {h \in @ : Exists(w, h)},
                   !.stream[c].viewSinks = @ \cap liveSinks] \in Worlds
  <1> DEFINE kept == {h \in w.stream[c].handles : Exists(w, h)}
             r == [w.stream[c] EXCEPT !.lastFrame = TRUE, !.framesReceived = @ + 1,
                                      !.handles = kept, !.viewSinks = @ \cap liveSinks]
  <1>1. w.stream[c] \in StreamRecord
    BY Parts
  <1>2. /\ kept \in SUBSET Handles
        /\ w.stream[c].framesReceived + 1 \in Nat
        /\ w.stream[c].viewSinks \cap liveSinks \in SUBSET Sinks
    BY <1>1 DEF StreamRecord
  <1>3. r \in StreamRecord
    <2> HIDE DEF kept
    <2> QED BY <1>1, <1>2 DEF StreamRecord
  <1>4. [w EXCEPT !.stream[c].lastFrame = TRUE,
                  !.stream[c].framesReceived = @ + 1,
                  !.stream[c].handles = {h \in @ : Exists(w, h)},
                  !.stream[c].viewSinks = @ \cap liveSinks] = [w EXCEPT !.stream[c] = r]
    BY DEF Worlds, StreamRecord
  <1> HIDE DEF r
  <1> QED BY <1>3, <1>4, WithStream

LEMMA onVideoFrameChangedTyped ==
  ASSUME NEW w \in Worlds, NEW c \in Streams
  PROVE  onVideoFrameChanged(w, c) \in Worlds
  <1> DEFINE counted == [w EXCEPT !.stream[c].lastFrame = TRUE,
                                  !.stream[c].framesReceived = @ + 1,
                                  !.stream[c].handles = {h \in @ : Exists(w, h)},
                                  !.stream[c].viewSinks = @ \cap liveSinks]
  <1>1. counted \in Worlds /\ w.stream[c].dev \in Devices \cup {None}
    BY countedTyped, Parts DEF StreamRecord
  <1> HIDE DEF counted
  <1>2. Show(PublishFrames(counted, c), w.stream[c].viewSinks, w.stream[c].dev) \in Worlds
    BY <1>1, ShowTyped, PublishFramesTyped
  <1> QED BY <1>2 DEF onVideoFrameChanged, counted

\* The World after the handles have been told of an error.
LEMMA toldTyped ==
  ASSUME NEW w \in Worlds, NEW c \in Streams, NEW t \in BackendTexts
  PROVE  [w EXCEPT
            !.stream[c].errorText = t,
            !.stream[c].handles = {h \in @ : Exists(w, h)},
            !.handle = [h \in Handles |->
                IF h \in w.stream[c].handles /\ Exists(w, h)
                THEN [w.handle[h] EXCEPT !.errorText = t] ELSE w.handle[h]]] \in Worlds
  <1> DEFINE r == [w.stream[c] EXCEPT !.errorText = t, !.handles = {h \in @ : Exists(w, h)}]
             H == [h \in Handles |-> IF h \in w.stream[c].handles /\ Exists(w, h)
                                     THEN [w.handle[h] EXCEPT !.errorText = t] ELSE w.handle[h]]
             v == [w EXCEPT !.stream[c] = r]
             told == [v EXCEPT !.handle = H]
  <1>1. r \in StreamRecord
    BY Parts DEF StreamRecord
  <1>2. ASSUME NEW h \in Handles
        PROVE  w.handle[h] \in HandleRecord /\ [w.handle[h] EXCEPT !.errorText = t] \in HandleRecord
    BY Parts DEF HandleRecord, Texts
  <1>3. H \in [Handles -> HandleRecord]
    BY <1>2
  <1>4. told = [w EXCEPT !.stream[c].errorText = t,
                         !.stream[c].handles = {h \in @ : Exists(w, h)},
                         !.handle = H]
    BY DEF Worlds
  <1> HIDE DEF r
  <1>5. told \in Worlds
    BY <1>1, <1>3, WithStream, WithHandles
  <1> QED BY <1>4, <1>5

LEMMA onBackendErrorTextChangedTyped ==
  ASSUME NEW w \in Worlds, NEW c \in Streams, NEW t \in BackendTexts
  PROVE  onBackendErrorTextChanged(w, c, t) \in Worlds
  <1> DEFINE told == [w EXCEPT
            !.stream[c].errorText = t,
            !.stream[c].handles = {h \in @ : Exists(w, h)},
            !.handle = [h \in Handles |->
                IF h \in w.stream[c].handles /\ Exists(w, h)
                THEN [w.handle[h] EXCEPT !.errorText = t] ELSE w.handle[h]]]
  <1>1. told \in Worlds
    BY toldTyped
  <1> HIDE DEF told
  <1>2. Show(told, w.stream[c].viewSinks, None) \in Worlds
    BY <1>1, ShowTyped
  <1> QED BY <1>1, <1>2 DEF onBackendErrorTextChanged, told

-----------------------------------------------------------------------------
(* The core of a World, and the operators that leave it alone. *)

SameHandles(v, w) ==
    \A h \in Handles : /\ v.handle[h].state = w.handle[h].state
                       /\ v.handle[h].dev = w.handle[h].dev
                       /\ v.handle[h].running = w.handle[h].running

SameStream(v, w, c) == /\ v.stream[c].state = w.stream[c].state
                       /\ v.stream[c].dev = w.stream[c].dev
                       /\ v.stream[c].active = w.stream[c].active
                       /\ v.stream[c].runningRefCount = w.stream[c].runningRefCount

SameCore(v, w) == /\ v.cameraStreams = w.cameraStreams
                  /\ \A c \in Streams : SameStream(v, w, c)
                  /\ SameHandles(v, w)

LEMMA SameCoreTrans ==
  ASSUME NEW u, NEW v, NEW w, SameCore(u, v), SameCore(v, w)
  PROVE  SameCore(u, w)
  BY DEF SameCore, SameStream, SameHandles

LEMMA ShowCore ==
  ASSUME NEW w \in Worlds, NEW S, NEW d
  PROVE  SameCore(Show(w, S, d), w)
  BY DEF Show, Worlds, SameCore, SameStream, SameHandles

LEMMA PublishFramesCore ==
  ASSUME NEW w \in Worlds, NEW c \in Streams
  PROVE  SameCore(PublishFrames(w, c), w)
  <1>1. /\ PublishFrames(w, c).cameraStreams = w.cameraStreams
        /\ PublishFrames(w, c).stream = w.stream
    BY DEF PublishFrames, Worlds
  <1>2. ASSUME NEW h \in Handles
        PROVE  PublishFrames(w, c).handle[h] \in
                 {w.handle[h], [w.handle[h] EXCEPT !.hasFrame = w.stream[c].lastFrame,
                                                   !.framesReceived = w.stream[c].framesReceived]}
    BY DEF PublishFrames, Worlds
  <1>3. SameHandles(PublishFrames(w, c), w)
    BY <1>2, Parts DEF SameHandles, HandleRecord
  <1> QED BY <1>1, <1>3 DEF SameCore, SameStream

LEMMA addHandleCore ==
  ASSUME NEW w \in Worlds, NEW c \in Streams, NEW h \in Handles
  PROVE  SameCore(addHandle(w, c, h), w)
  <1>1. addHandle(w, c, h).cameraStreams = w.cameraStreams
    BY DEF addHandle, Worlds
  <1>2. \A b \in Streams : SameStream(addHandle(w, c, h), w, b)
    BY DEF addHandle, Worlds, StreamRecord, SameStream
  <1>3. SameHandles(addHandle(w, c, h), w)
    BY DEF addHandle, Worlds, HandleRecord, SameHandles
  <1> QED BY <1>1, <1>2, <1>3 DEF SameCore

LEMMA addViewSinkCore ==
  ASSUME NEW w \in Worlds, NEW c \in Streams, NEW s \in Sinks
  PROVE  SameCore(addViewSink(w, c, s), w)
  <1> DEFINE r == [w.stream[c] EXCEPT !.viewSinks = @ \cup {s}]
             added == [w EXCEPT !.stream[c] = r]
  <1>1. r \in StreamRecord
    BY Parts DEF StreamRecord
  <1>2. added = [w EXCEPT !.stream[c].viewSinks = @ \cup {s}] /\ SameCore(added, w)
    BY DEF Worlds, StreamRecord, SameCore, SameStream, SameHandles
  <1> HIDE DEF r
  <1>3. added \in Worlds
    BY <1>1, WithStream
  <1> HIDE DEF added
  <1> QED BY <1>2, <1>3, ShowCore, SameCoreTrans DEF addViewSink

LEMMA onVideoFrameChangedCore ==
  ASSUME NEW w \in Worlds, NEW c \in Streams
  PROVE  SameCore(onVideoFrameChanged(w, c), w)
  <1> DEFINE counted == [w EXCEPT !.stream[c].lastFrame = TRUE,
                                  !.stream[c].framesReceived = @ + 1,
                                  !.stream[c].handles = {h \in @ : Exists(w, h)},
                                  !.stream[c].viewSinks = @ \cap liveSinks]
  <1>1. SameCore(counted, w)
    BY DEF Worlds, StreamRecord, SameCore, SameStream, SameHandles
  <1>2. counted \in Worlds
    BY countedTyped
  <1> HIDE DEF counted
  <1>3. SameCore(PublishFrames(counted, c), counted)
    BY <1>2, PublishFramesCore
  <1>4. SameCore(onVideoFrameChanged(w, c), PublishFrames(counted, c))
    BY <1>2, PublishFramesTyped, ShowCore DEF onVideoFrameChanged, counted
  <1> QED BY <1>1, <1>3, <1>4, SameCoreTrans

LEMMA onBackendErrorTextChangedCore ==
  ASSUME NEW w \in Worlds, NEW c \in Streams, NEW t \in BackendTexts
  PROVE  SameCore(onBackendErrorTextChanged(w, c, t), w)
  <1> DEFINE told == [w EXCEPT
            !.stream[c].errorText = t,
            !.stream[c].handles = {h \in @ : Exists(w, h)},
            !.handle = [h \in Handles |->
                IF h \in w.stream[c].handles /\ Exists(w, h)
                THEN [w.handle[h] EXCEPT !.errorText = t] ELSE w.handle[h]]]
  <1>1. told \in Worlds
    BY toldTyped
  <1>2. told.cameraStreams = w.cameraStreams /\ \A b \in Streams : SameStream(told, w, b)
    BY DEF Worlds, StreamRecord, SameStream
  <1>3. \A h \in Handles : told.handle[h] \in {w.handle[h], [w.handle[h] EXCEPT !.errorText = t]}
    BY DEF Worlds
  <1>4. SameHandles(told, w)
    <2> HIDE DEF told
    <2> QED BY <1>3, Parts DEF SameHandles, HandleRecord
  <1>5. SameCore(told, w)
    BY <1>2, <1>4 DEF SameCore
  <1>6. SameCore(w, w)
    BY DEF SameCore, SameStream, SameHandles
  <1> HIDE DEF told
  <1>7. SameCore(Show(told, w.stream[c].viewSinks, None), told)
    BY <1>1, ShowCore
  <1> QED BY <1>5, <1>6, <1>7, SameCoreTrans DEF onBackendErrorTextChanged, told

-----------------------------------------------------------------------------
(* The inductive invariant, a statement about the core of a World. *)

RunnersIn(w, d) == {h \in Handles : /\ w.handle[h].state # "free"
                                    /\ w.handle[h].dev = d
                                    /\ w.handle[h].running}

\* Map and streams point at each other; what is out of the map is off.
Linked(w) ==
    /\ \A d \in Devices : w.cameraStreams[d] # None =>
          /\ w.stream[w.cameraStreams[d]].state = "live"
          /\ w.stream[w.cameraStreams[d]].dev = d
    /\ \A c \in Streams :
          IF w.stream[c].state = "live"
          THEN w.stream[c].dev \in Devices /\ w.cameraStreams[w.stream[c].dev] = c
          ELSE ~w.stream[c].active
    /\ \A h \in Handles : w.handle[h].state # "free" => w.handle[h].dev \in Devices

\* A stream's count decides its switch and is covered by running handles.
Counted(w, c) ==
    w.stream[c].state = "live" =>
        /\ w.stream[c].active = (w.stream[c].runningRefCount > 0)
        /\ w.stream[c].runningRefCount <= Cardinality(RunnersIn(w, w.stream[c].dev))

CaptureInv(w) == Linked(w) /\ \A c \in Streams : Counted(w, c)

LEMMA SameRunners ==
  ASSUME NEW v, NEW w, NEW d, SameHandles(v, w)
  PROVE  RunnersIn(v, d) = RunnersIn(w, d)
  BY DEF SameHandles, RunnersIn

\* How many handles run a device is a number.
LEMMA RunnersFinite ==
  ASSUME NEW w, NEW d
  PROVE  IsFiniteSet(RunnersIn(w, d)) /\ Cardinality(RunnersIn(w, d)) \in Nat
  <1>1. IsFiniteSet(RunnersIn(w, d))
    BY MediaCaptureAssumption, FS_Subset DEF RunnersIn
  <1> QED BY <1>1, FS_CardinalityType

LEMMA SameCoreLinked ==
  ASSUME NEW v \in Worlds, NEW w \in Worlds, SameCore(v, w), Linked(w)
  PROVE  Linked(v)
  <1>1. \A d \in Devices : w.cameraStreams[d] # None => w.cameraStreams[d] \in Streams
    BY DEF Worlds
  <1> QED BY <1>1 DEF SameCore, SameStream, SameHandles, Linked

LEMMA SameStreamCounted ==
  ASSUME NEW v, NEW w, NEW c, SameStream(v, w, c), SameHandles(v, w), Counted(w, c)
  PROVE  Counted(v, c)
  BY SameRunners DEF SameStream, Counted

LEMMA SameCoreInv ==
  ASSUME NEW v \in Worlds, NEW w \in Worlds, SameCore(v, w), CaptureInv(w)
  PROVE  CaptureInv(v)
  BY SameCoreLinked, SameStreamCounted DEF SameCore, CaptureInv

-----------------------------------------------------------------------------
(* The operators that change the core. *)

\* v is w with the stream c switched to a.
Switched(v, w, c, a) ==
    /\ v.cameraStreams = w.cameraStreams
    /\ \A b \in Streams \ {c} : SameStream(v, w, b)
    /\ v.stream[c].state = w.stream[c].state
    /\ v.stream[c].dev = w.stream[c].dev
    /\ v.stream[c].runningRefCount = w.stream[c].runningRefCount
    /\ v.stream[c].active = a
    /\ SameHandles(v, w)

LEMMA setActiveSwitches ==
  ASSUME NEW w \in Worlds, NEW c \in Streams, NEW a \in BOOLEAN
  PROVE  Switched(setActive(w, c, a), w, c, a)
  <1> DEFINE r == [w.stream[c] EXCEPT !.active = a]
             q == [r EXCEPT !.lastFrame = FALSE, !.framesReceived = 0]
             switched == [w EXCEPT !.stream[c] = r]
             emptied == [w EXCEPT !.stream[c] = q]
             shown == Show(emptied, w.stream[c].viewSinks, None)
  <1>1. r \in StreamRecord /\ q \in StreamRecord
    BY Parts DEF StreamRecord
  <1>2. /\ switched = [w EXCEPT !.stream[c].active = a]
        /\ emptied = [switched EXCEPT !.stream[c].lastFrame = FALSE,
                                      !.stream[c].framesReceived = 0]
    BY DEF Worlds
  <1>3. Switched(switched, w, c, a) /\ Switched(emptied, w, c, a)
    BY DEF Worlds, StreamRecord, Switched, SameStream, SameHandles
  <1>4. w.stream[c].active = a => Switched(w, w, c, a)
    BY DEF Switched, SameStream, SameHandles
  <1> HIDE DEF r, q
  <1>5. emptied \in Worlds
    BY <1>1, WithStream
  <1> HIDE DEF switched, emptied
  <1>6. shown \in Worlds /\ SameCore(shown, emptied)
    BY <1>5, ShowTyped, ShowCore
  <1> HIDE DEF shown
  <1>7. SameCore(PublishFrames(shown, c), emptied)
    BY <1>6, PublishFramesCore, SameCoreTrans
  <1>8. Switched(PublishFrames(shown, c), w, c, a)
    BY <1>3, <1>7 DEF Switched, SameCore, SameStream, SameHandles
  <1>9. setActive(w, c, a) \in {w, switched, PublishFrames(shown, c)}
        /\ (setActive(w, c, a) = w => w.stream[c].active = a \/ w = switched \/ w = PublishFrames(shown, c))
    BY <1>2 DEF setActive, shown
  <1> QED BY <1>3, <1>4, <1>8, <1>9

\* Switching a stream by its count, when running handles cover the count.
LEMMA SwitchByCount ==
  ASSUME NEW w \in Worlds, NEW d \in Devices, NEW c \in Streams, w.cameraStreams[d] = c,
         Linked(w), \A b \in Streams \ {c} : Counted(w, b),
         w.stream[c].runningRefCount <= Cardinality(RunnersIn(w, d))
  PROVE  CaptureInv(setActive(w, c, w.stream[c].runningRefCount > 0))
  <1> DEFINE a == w.stream[c].runningRefCount > 0
             v == setActive(w, c, a)
  <1>0. a \in BOOLEAN
    OBVIOUS
  <1> HIDE DEF a
  <1>1. Switched(v, w, c, a)
    BY <1>0, setActiveSwitches
  <1>2. c # None /\ w.stream[c].state = "live" /\ w.stream[c].dev = d
    BY MediaCaptureAssumption DEF Linked
  <1> HIDE DEF v
  <1>3. Linked(v)
    <2>1. \A e \in Devices : w.cameraStreams[e] # None => w.cameraStreams[e] \in Streams
      BY DEF Worlds
    <2> QED BY <1>1, <1>2, <2>1 DEF Linked, Switched, SameStream, SameHandles
  <1>4. ASSUME NEW b \in Streams \ {c} PROVE Counted(v, b)
    BY <1>1, SameStreamCounted DEF Switched
  <1>5. Counted(v, c)
    BY <1>1, <1>2, SameRunners DEF Switched, Counted, a
  <1>6. CaptureInv(v)
    BY <1>3, <1>4, <1>5 DEF CaptureInv
  <1> QED BY <1>6 DEF v, a

\* What unregisterViewSink() and setHandleRunning() end in.
LEMMA DropIfUnusedInv ==
  ASSUME NEW w \in Worlds, CaptureInv(w), NEW d \in Devices, NEW c \in Streams,
         w.cameraStreams[d] = c
  PROVE  LET v == DropIfUnused(w, d, c)
         IN /\ v \in Worlds /\ CaptureInv(v) /\ SameHandles(v, w)
            /\ FreeStreams(w) \subseteq FreeStreams(v)
  <1> DEFINE u == [w EXCEPT !.cameraStreams[d] = None]
             s == setActive(u, c, FALSE)
             t == [s EXCEPT !.stream[c].state = "doomed"]
             r == [s.stream[c] EXCEPT !.state = "doomed"]
  <1>1. CASE ~isUnused(w, c)
    BY <1>1 DEF DropIfUnused, SameHandles
  <1>2. CASE isUnused(w, c)
    <2>1. DropIfUnused(w, d, c) = t
      BY <1>2 DEF DropIfUnused
    <2>2. u \in Worlds
      BY WithMapped
    <2>3. s \in Worlds /\ Switched(s, u, c, FALSE)
      BY <2>2, setActiveTyped, setActiveSwitches
    <2>4. u.stream = w.stream /\ u.handle = w.handle
          /\ u.cameraStreams = [w.cameraStreams EXCEPT ![d] = None]
      BY DEF Worlds
    <2> HIDE DEF s, u
    <2>5. t = [s EXCEPT !.stream[c] = r]
      BY <2>3 DEF Worlds
    <2>6. r \in StreamRecord
      BY <2>3, Parts DEF StreamRecord
    <2>7. t \in Worlds
      <3> HIDE DEF r, t
      <3> QED BY <2>3, <2>5, <2>6, WithStream
    <2>8. /\ t.cameraStreams = [w.cameraStreams EXCEPT ![d] = None]
          /\ \A b \in Streams \ {c} : SameStream(t, w, b)
          /\ t.stream[c].state = "doomed" /\ ~t.stream[c].active
          /\ SameHandles(t, w)
      BY <2>3, <2>4 DEF Worlds, StreamRecord, Switched, SameStream, SameHandles
    <2> HIDE DEF t
    <2>9. c # None /\ w.stream[c].state = "live" /\ w.stream[c].dev = d
      BY MediaCaptureAssumption DEF CaptureInv, Linked
    <2>10. Linked(t)
      <3>1. \A e \in Devices : w.cameraStreams[e] # None => w.cameraStreams[e] \in Streams
        BY DEF Worlds
      <3>2. ASSUME NEW e \in Devices, t.cameraStreams[e] # None
            PROVE  t.stream[t.cameraStreams[e]].state = "live" /\ t.stream[t.cameraStreams[e]].dev = e
        BY <2>8, <2>9, <3>1, <3>2 DEF CaptureInv, Linked, SameStream, Worlds
      <3>3. ASSUME NEW b \in Streams
            PROVE  IF t.stream[b].state = "live"
                   THEN t.stream[b].dev \in Devices /\ t.cameraStreams[t.stream[b].dev] = b
                   ELSE ~t.stream[b].active
        BY <2>8, <2>9 DEF CaptureInv, Linked, SameStream, Worlds
      <3>4. \A h \in Handles : t.handle[h].state # "free" => t.handle[h].dev \in Devices
        BY <2>8 DEF CaptureInv, Linked, SameHandles
      <3> QED BY <3>2, <3>3, <3>4 DEF Linked
    <2>11. ASSUME NEW b \in Streams PROVE Counted(t, b)
      <3>1. CASE b = c
        BY <2>8, <3>1 DEF Counted
      <3>2. CASE b # c
        BY <2>8, <3>2, SameStreamCounted DEF CaptureInv
      <3> QED BY <3>1, <3>2
    <2>12. FreeStreams(w) \subseteq FreeStreams(t)
      BY <2>8, <2>9 DEF FreeStreams, SameStream
    <2> QED BY <2>1, <2>7, <2>8, <2>10, <2>11, <2>12 DEF CaptureInv
  <1> QED BY <1>1, <1>2

\* A stream can be opened for the device, or is open.
Room(w, d) == FreeStreams(w) # {} \/ w.cameraStreams[d] # None

LEMMA ensureStreamInv ==
  ASSUME NEW w \in Worlds, CaptureInv(w), NEW d \in Devices, NEW e \in BackendTexts, Room(w, d)
  PROVE  LET v == ensureStreamForDeviceId(w, d, e)
             c == v.cameraStreams[d]
         IN /\ v \in Worlds /\ CaptureInv(v) /\ v.handle = w.handle
            /\ v = w \/ (c # None /\ v.stream[c].runningRefCount = 0)
  <1> DEFINE c == CHOOSE f \in FreeStreams(w) : TRUE
             u == [w EXCEPT !.cameraStreams[d] = c]
             v == [u EXCEPT !.stream[c] = NewStream("live", d, e)]
  <1>1. CASE w.cameraStreams[d] # None \/ d \notin plugged
    BY <1>1 DEF ensureStreamForDeviceId
  <1>2. CASE ~(w.cameraStreams[d] # None \/ d \notin plugged)
    <2>1. c \in Streams /\ w.stream[c].state = "free"
      BY <1>2 DEF Room, FreeStreams
    <2> HIDE DEF c
    <2>2. NewStream("live", d, e) \in StreamRecord
      BY DEF NewStream, StreamRecord
    <2>3. u \in Worlds
      BY <2>1, WithMapped
    <2>4. u.stream = w.stream /\ u.handle = w.handle
          /\ u.cameraStreams = [w.cameraStreams EXCEPT ![d] = c]
      BY DEF Worlds
    <2>5. ensureStreamForDeviceId(w, d, e) = v
      BY <1>2 DEF ensureStreamForDeviceId, Worlds, c
    <2> HIDE DEF u
    <2>6. v \in Worlds
      BY <2>1, <2>2, <2>3, WithStream
    <2>7. /\ v.cameraStreams = [w.cameraStreams EXCEPT ![d] = c]
          /\ v.handle = w.handle
          /\ \A b \in Streams \ {c} : v.stream[b] = w.stream[b]
          /\ v.stream[c] = NewStream("live", d, e)
      BY <2>1, <2>3, <2>4 DEF Worlds
    <2> HIDE DEF v
    <2>8. /\ v.stream[c].state = "live" /\ v.stream[c].dev = d
          /\ v.stream[c].runningRefCount = 0 /\ v.stream[c].active = FALSE
      BY <2>7 DEF NewStream
    <2>9. c # None
      BY <2>1, MediaCaptureAssumption
    <2>10. Linked(v)
      <3>1. \A x \in Devices : w.cameraStreams[x] # None => w.cameraStreams[x] \in Streams
        BY DEF Worlds
      <3>2. ASSUME NEW x \in Devices, v.cameraStreams[x] # None
            PROVE  v.stream[v.cameraStreams[x]].state = "live" /\ v.stream[v.cameraStreams[x]].dev = x
        BY <2>1, <2>7, <2>8, <3>1, <3>2 DEF CaptureInv, Linked, Worlds
      <3>3. ASSUME NEW b \in Streams
            PROVE  IF v.stream[b].state = "live"
                   THEN v.stream[b].dev \in Devices /\ v.cameraStreams[v.stream[b].dev] = b
                   ELSE ~v.stream[b].active
        <4>1. CASE b = c
          BY <2>7, <2>8, <4>1 DEF Worlds
        <4>2. CASE b # c
          BY <1>2, <2>7, <4>2, MediaCaptureAssumption DEF CaptureInv, Linked, Worlds
        <4> QED BY <4>1, <4>2
      <3>4. \A h \in Handles : v.handle[h].state # "free" => v.handle[h].dev \in Devices
        BY <2>7 DEF CaptureInv, Linked
      <3> QED BY <3>2, <3>3, <3>4 DEF Linked
    <2>11. ASSUME NEW b \in Streams PROVE Counted(v, b)
      <3>1. CASE b = c
        <4>1. v.stream[c].active = FALSE /\ (v.stream[c].runningRefCount > 0) = FALSE
          BY <2>8
        <4>2. v.stream[c].runningRefCount <= Cardinality(RunnersIn(v, v.stream[c].dev))
          BY <2>8, RunnersFinite
        <4> QED BY <3>1, <4>1, <4>2 DEF Counted
      <3>2. CASE b # c
        <4>1. SameStream(v, w, b) /\ SameHandles(v, w) /\ Counted(w, b)
          BY <2>7, <3>2 DEF SameStream, SameHandles, CaptureInv
        <4> QED BY <4>1, SameStreamCounted
      <3> QED BY <3>1, <3>2
    <2>12. v.cameraStreams[d] = c
      BY <2>7 DEF Worlds
    <2> QED BY <2>5, <2>6, <2>7, <2>8, <2>9, <2>10, <2>11, <2>12 DEF CaptureInv
  <1> QED BY <1>1, <1>2

\* The count of a stream after one more request to run it, or one less.
NextCount(n, r) == IF r THEN n + 1 ELSE IF n > 0 THEN n - 1 ELSE 0

\* The end of setHandleRunning(): count, switch, drop.
LEMMA CountAndSwitch ==
  ASSUME NEW w \in Worlds, Linked(w), NEW d \in Devices, NEW c \in Streams,
         w.cameraStreams[d] = c, NEW r \in BOOLEAN,
         \A b \in Streams \ {c} : Counted(w, b),
         NextCount(w.stream[c].runningRefCount, r) <= Cardinality(RunnersIn(w, d))
  PROVE  LET u == incrementRunningRefCount(w, c, r)
             v == DropIfUnused(setActive(u, c, u.stream[c].runningRefCount > 0), d, c)
         IN v \in Worlds /\ CaptureInv(v) /\ SameHandles(v, w)
  <1> DEFINE u == incrementRunningRefCount(w, c, r)
             a == u.stream[c].runningRefCount > 0
             s == setActive(u, c, a)
  <1>1. u \in Worlds
    BY incrementRunningRefCountTyped
  <1>2. /\ u.cameraStreams = w.cameraStreams /\ u.handle = w.handle
        /\ \A b \in Streams \ {c} : u.stream[b] = w.stream[b]
        /\ u.stream[c].state = w.stream[c].state /\ u.stream[c].dev = w.stream[c].dev
        /\ u.stream[c].active = w.stream[c].active
        /\ u.stream[c].runningRefCount = NextCount(w.stream[c].runningRefCount, r)
    BY DEF incrementRunningRefCount, Worlds, StreamRecord, NextCount
  <1> HIDE DEF u
  <1>3. Linked(u)
    <2>1. \A e \in Devices : w.cameraStreams[e] # None => w.cameraStreams[e] \in Streams
      BY DEF Worlds
    <2> QED BY <1>2, <2>1 DEF Linked
  <1>4. \A b \in Streams \ {c} : Counted(u, b)
    BY <1>2 DEF Counted, RunnersIn
  <1>5. u.stream[c].runningRefCount <= Cardinality(RunnersIn(u, d))
    BY <1>2 DEF RunnersIn
  <1>6. CaptureInv(s)
    BY <1>1, <1>2, <1>3, <1>4, <1>5, SwitchByCount
  <1>7. a \in BOOLEAN
    OBVIOUS
  <1> HIDE DEF a
  <1>8. s \in Worlds /\ Switched(s, u, c, a)
    BY <1>1, <1>7, setActiveTyped, setActiveSwitches
  <1>9. s.cameraStreams[d] = c /\ SameHandles(s, w)
    BY <1>2, <1>8 DEF Switched, SameHandles
  <1> HIDE DEF s
  <1>10. LET v == DropIfUnused(s, d, c)
         IN v \in Worlds /\ CaptureInv(v) /\ SameHandles(v, s)
    BY <1>6, <1>8, <1>9, DropIfUnusedInv
  <1> QED BY <1>9, <1>10 DEF s, a, u, SameHandles

\* v has the handles of w, but h runs or not as r says.
OnlyRunning(v, w, h, r) ==
    \A g \in Handles : /\ v.handle[g].state = w.handle[g].state
                       /\ v.handle[g].dev = w.handle[g].dev
                       /\ v.handle[g].running = IF g = h THEN r ELSE w.handle[g].running

\* Only the running handles of its own device change, by h.
LEMMA RunnersChange ==
  ASSUME NEW v, NEW w, NEW h \in Handles, NEW r \in BOOLEAN, OnlyRunning(v, w, h, r),
         w.handle[h].state # "free", w.handle[h].running = ~r,
         NEW d, w.handle[h].dev = d
  PROVE  /\ \A x : x # d => RunnersIn(v, x) = RunnersIn(w, x)
         /\ Cardinality(RunnersIn(v, d)) =
              IF r THEN Cardinality(RunnersIn(w, d)) + 1 ELSE Cardinality(RunnersIn(w, d)) - 1
  <1>1. \A x : x # d => RunnersIn(v, x) = RunnersIn(w, x)
    BY DEF OnlyRunning, RunnersIn
  <1>2. CASE r
    <2>1. RunnersIn(v, d) = RunnersIn(w, d) \cup {h} /\ h \notin RunnersIn(w, d)
      BY <1>2 DEF OnlyRunning, RunnersIn
    <2> QED BY <1>1, <1>2, <2>1, RunnersFinite, FS_AddElement
  <1>3. CASE ~r
    <2>1. RunnersIn(v, d) = RunnersIn(w, d) \ {h} /\ h \in RunnersIn(w, d)
      BY <1>3 DEF OnlyRunning, RunnersIn
    <2>2. Cardinality(RunnersIn(w, d) \ {h}) = Cardinality(RunnersIn(w, d)) - 1
      <3>1. ASSUME NEW S, IsFiniteSet(S), h \in S
            PROVE  Cardinality(S \ {h}) = Cardinality(S) - 1
        BY <3>1, FS_RemoveElement
      <3> QED BY <2>1, <3>1, RunnersFinite
    <2>3. Cardinality(RunnersIn(v, d)) = Cardinality(RunnersIn(w, d)) - 1
      BY <2>1, <2>2
    <2> QED BY <1>1, <1>3, <2>3
  <1> QED BY <1>2, <1>3

LEMMA setRunningInv ==
  ASSUME NEW w \in Worlds, CaptureInv(w), NEW h \in Handles, NEW r \in BOOLEAN,
         NEW e \in BackendTexts, w.handle[h].state # "free",
         r => Room(w, w.handle[h].dev)
  PROVE  LET v == setRunning(w, h, r, e)
         IN v \in Worlds /\ CaptureInv(v) /\ OnlyRunning(v, w, h, r)
  <1> DEFINE d == w.handle[h].dev
             u == [w EXCEPT !.handle[h].running = r]
  <1>1. CASE w.handle[h].running = r
    BY <1>1 DEF setRunning, OnlyRunning
  <1>2. CASE w.handle[h].running # r
    <2>1. d \in Devices
      BY DEF CaptureInv, Linked
    <2>2. w.handle[h].running = ~r
      BY <1>2, Parts DEF HandleRecord
    <2>3. u \in Worlds
      <3> DEFINE rec == [w.handle[h] EXCEPT !.running = r]
      <3>1. rec \in HandleRecord
        BY Parts DEF HandleRecord
      <3>2. [w EXCEPT !.handle[h] = rec] \in Worlds
        BY <3>1, WithHandle
      <3>3. u = [w EXCEPT !.handle[h] = rec]
        OBVIOUS
      <3> QED BY <3>2, <3>3
    <2>4. u.stream = w.stream /\ u.cameraStreams = w.cameraStreams /\ OnlyRunning(u, w, h, r)
      BY DEF Worlds, HandleRecord, OnlyRunning
    <2>5. u.handle[h].dev = d
      BY <2>4 DEF OnlyRunning
    <2>6. setRunning(w, h, r, e) = setHandleRunning(u, h, r, e)
      BY <1>2 DEF setRunning
    <2> HIDE DEF u
    <2>7. Linked(u)
      BY <2>4 DEF CaptureInv, Linked, OnlyRunning
    <2>8. /\ \A x : x # d => RunnersIn(u, x) = RunnersIn(w, x)
          /\ Cardinality(RunnersIn(u, d)) =
               IF r THEN Cardinality(RunnersIn(w, d)) + 1 ELSE Cardinality(RunnersIn(w, d)) - 1
      BY <2>2, <2>4, RunnersChange
    <2>9. \A b \in Streams : w.stream[b].runningRefCount \in Nat
      BY Parts DEF StreamRecord
    <2>10. ASSUME NEW b \in Streams, w.stream[b].state = "live" => w.stream[b].dev # d
           PROVE  Counted(u, b)
      BY <2>4, <2>8, <2>10 DEF CaptureInv, Counted
    <2>11. ASSUME NEW v \in Worlds, SameHandles(v, u) PROVE OnlyRunning(v, w, h, r)
      BY <2>4, <2>11 DEF SameHandles, OnlyRunning
    <2>12. CASE r
      <3> DEFINE v == ensureStreamForDeviceId(u, d, e)
                 c == v.cameraStreams[d]
      <3>1. ASSUME NEW b \in Streams, w.stream[b].state = "live", w.stream[b].dev = d
            PROVE  Counted(u, b)
        BY <2>4, <2>8, <2>9, <2>12, <3>1, RunnersFinite DEF CaptureInv, Counted
      <3>2. CaptureInv(u)
        BY <2>7, <2>10, <3>1 DEF CaptureInv
      <3>3. Room(u, d)
        BY <2>4, <2>12 DEF Room, FreeStreams
      <3>4. /\ v \in Worlds /\ CaptureInv(v) /\ v.handle = u.handle
            /\ v = u \/ (c # None /\ v.stream[c].runningRefCount = 0)
        BY <2>1, <2>3, <3>2, <3>3, ensureStreamInv
      <3>5. setHandleRunning(u, h, r, e) =
              IF c # None
              THEN LET x == incrementRunningRefCount(v, c, r)
                   IN DropIfUnused(setActive(x, c, x.stream[c].runningRefCount > 0), d, c)
              ELSE [v EXCEPT !.handle[h].errorText = Unavailable]
        BY <2>5, <2>12 DEF setHandleRunning
      <3>6. RunnersIn(v, d) = RunnersIn(u, d) /\ SameHandles(v, u)
        BY <3>4 DEF RunnersIn, SameHandles
      <3>7. c \in Streams \cup {None}
        BY <2>1, <3>4, Parts
      <3> HIDE DEF v
      <3>8. CASE c # None
        <4>1. c \in Streams
          BY <3>7, <3>8
        <4>2. v.stream[c].runningRefCount + 1 <= Cardinality(RunnersIn(v, d))
          <5>1. CASE v = u
            <6>1. w.stream[c].state = "live" /\ w.stream[c].dev = d
              BY <2>1, <2>4, <3>8, <5>1 DEF CaptureInv, Linked
            <6>2. w.stream[c].runningRefCount <= Cardinality(RunnersIn(w, d))
              BY <4>1, <6>1 DEF CaptureInv, Counted
            <6> QED BY <2>4, <2>8, <2>9, <2>12, <3>6, <4>1, <5>1, <6>2, RunnersFinite
          <5>2. CASE v.stream[c].runningRefCount = 0
            BY <2>8, <2>12, <3>6, <5>2, RunnersFinite
          <5> QED BY <3>4, <3>8, <5>1, <5>2
        <4>3. NextCount(v.stream[c].runningRefCount, r) <= Cardinality(RunnersIn(v, d))
          BY <2>12, <4>2 DEF NextCount
        <4> DEFINE z == setHandleRunning(u, h, r, e)
        <4>4. z \in Worlds /\ CaptureInv(z) /\ SameHandles(z, v)
          BY <2>1, <3>4, <3>5, <3>8, <4>1, <4>3, CountAndSwitch DEF CaptureInv
        <4>5. SameHandles(z, u)
          BY <3>6, <4>4 DEF SameHandles
        <4> QED BY <2>6, <2>11, <4>4, <4>5
      <3>9. CASE c = None
        <4> DEFINE z == [v EXCEPT !.handle[h].errorText = Unavailable]
                   g == [v.handle[h] EXCEPT !.errorText = Unavailable]
        <4>1. g \in HandleRecord
          BY <3>4, Parts DEF HandleRecord, Texts
        <4>2. z = [v EXCEPT !.handle[h] = g] /\ SameCore(z, v)
          BY <3>4 DEF Worlds, HandleRecord, SameCore, SameStream, SameHandles
        <4> HIDE DEF z, g
        <4>3. z \in Worlds
          BY <3>4, <4>1, <4>2, WithHandle
        <4>4. CaptureInv(z)
          BY <3>4, <4>2, <4>3, SameCoreInv
        <4>5. SameHandles(z, u)
          BY <3>6, <4>2 DEF SameCore, SameHandles
        <4> QED BY <2>6, <2>11, <3>5, <3>9, <4>3, <4>4, <4>5 DEF z
      <3> QED BY <3>8, <3>9
    <2>13. CASE ~r
      <3> DEFINE c == u.cameraStreams[d]
                 z == setHandleRunning(u, h, r, e)
      <3>1. c \in Streams \cup {None}
        BY <2>1, <2>3, Parts
      <3>2. CASE c # None
        <4>1. c \in Streams
          BY <3>1, <3>2
        <4>2. w.stream[c].state = "live" /\ w.stream[c].dev = d
          BY <2>1, <2>4, <3>2 DEF CaptureInv, Linked
        <4>3. w.stream[c].runningRefCount <= Cardinality(RunnersIn(w, d))
          BY <4>1, <4>2 DEF CaptureInv, Counted
        <4>4. NextCount(u.stream[c].runningRefCount, r) <= Cardinality(RunnersIn(u, d))
          BY <2>4, <2>8, <2>9, <2>13, <4>1, <4>3, RunnersFinite DEF NextCount
        <4>5. \A b \in Streams \ {c} : Counted(u, b)
          <5> TAKE b \in Streams \ {c}
          <5>1. w.stream[b].state = "live" => w.stream[b].dev # d
            BY <2>4 DEF CaptureInv, Linked
          <5> QED BY <2>10, <5>1
        <4>6. z = LET x == incrementRunningRefCount(u, c, r)
                  IN DropIfUnused(setActive(x, c, x.stream[c].runningRefCount > 0), d, c)
          BY <2>5, <2>13, <3>2 DEF setHandleRunning
        <4>7. z \in Worlds /\ CaptureInv(z) /\ SameHandles(z, u)
          BY <2>1, <2>3, <2>7, <4>1, <4>4, <4>5, <4>6, CountAndSwitch
        <4> QED BY <2>6, <2>11, <4>7
      <3>3. CASE c = None
        <4>1. z = u
          BY <2>5, <2>13, <3>3 DEF setHandleRunning
        <4>2. ASSUME NEW b \in Streams PROVE Counted(u, b)
          <5>1. w.stream[b].state = "live" => w.stream[b].dev # d
            BY <2>4, <3>3, MediaCaptureAssumption DEF CaptureInv, Linked
          <5> QED BY <2>10, <5>1
        <4> QED BY <2>3, <2>4, <2>6, <2>7, <4>1, <4>2 DEF CaptureInv
      <3> QED BY <3>2, <3>3
    <2> QED BY <2>12, <2>13
  <1> QED BY <1>1, <1>2

-----------------------------------------------------------------------------
(* The operators on views and handles. *)

\* A handle or a stream replaced by one with the same core.
LEMMA SameHandle ==
  ASSUME NEW w \in Worlds, NEW h \in Handles, NEW g \in HandleRecord,
         g.state = w.handle[h].state, g.dev = w.handle[h].dev, g.running = w.handle[h].running
  PROVE  LET v == [w EXCEPT !.handle[h] = g]
         IN v \in Worlds /\ SameCore(v, w) /\ v.handle[h] = g /\ v.stream = w.stream
  BY DEF Worlds, SameCore, SameStream, SameHandles

LEMMA SameStreamCore ==
  ASSUME NEW w \in Worlds, NEW c \in Streams, NEW r \in StreamRecord,
         r.state = w.stream[c].state, r.dev = w.stream[c].dev, r.active = w.stream[c].active,
         r.runningRefCount = w.stream[c].runningRefCount
  PROVE  LET v == [w EXCEPT !.stream[c] = r]
         IN v \in Worlds /\ SameCore(v, w) /\ v.handle = w.handle
  BY DEF Worlds, SameCore, SameStream, SameHandles

\* A handle that does not run, before and after, weighs nothing.
LEMMA IdleHandle ==
  ASSUME NEW w \in Worlds, CaptureInv(w), NEW h \in Handles, NEW g \in HandleRecord,
         w.handle[h].state = "free" \/ ~w.handle[h].running, ~g.running,
         g.state # "free" => g.dev \in Devices
  PROVE  LET v == [w EXCEPT !.handle[h] = g]
         IN v \in Worlds /\ CaptureInv(v)
  <1> DEFINE v == [w EXCEPT !.handle[h] = g]
  <1>1. /\ v \in Worlds /\ v.stream = w.stream /\ v.cameraStreams = w.cameraStreams
        /\ v.handle[h] = g /\ \A f \in Handles \ {h} : v.handle[f] = w.handle[f]
    BY DEF Worlds
  <1> HIDE DEF v
  <1>2. \A d : RunnersIn(v, d) = RunnersIn(w, d)
    BY <1>1 DEF RunnersIn
  <1>3. Linked(v)
    BY <1>1 DEF CaptureInv, Linked
  <1>4. \A c \in Streams : Counted(v, c)
    BY <1>1, <1>2 DEF CaptureInv, Counted
  <1> QED BY <1>1, <1>3, <1>4 DEF CaptureInv, v

LEMMA unregisterViewSinkInv ==
  ASSUME NEW w \in Worlds, CaptureInv(w), NEW h \in Handles, w.handle[h].state # "free"
  PROVE  LET v == unregisterViewSink(w, h)
         IN /\ v \in Worlds /\ CaptureInv(v) /\ SameHandles(v, w)
            /\ FreeStreams(w) \subseteq FreeStreams(v)
  <1> DEFINE d == w.handle[h].dev
             c == w.cameraStreams[d]
  <1>1. d \in Devices
    BY DEF CaptureInv, Linked
  <1>2. c \in Streams \cup {None}
    BY <1>1, Parts
  <1>3. CASE c = None
    BY <1>3 DEF unregisterViewSink, SameHandles
  <1>4. CASE c # None
    <2> DEFINE r == [w.stream[c] EXCEPT !.viewSinks = @ \ {ViewSink(w, h)}, !.handles = @ \ {h}]
               g == [w.handle[h] EXCEPT !.registered = FALSE]
               u == [w EXCEPT !.stream[c] = r]
               left == [u EXCEPT !.handle[h] = g]
    <2>1. c \in Streams
      BY <1>2, <1>4
    <2>2. /\ r \in StreamRecord
          /\ r.state = w.stream[c].state /\ r.dev = w.stream[c].dev /\ r.active = w.stream[c].active
          /\ r.runningRefCount = w.stream[c].runningRefCount
      <3> HIDE DEF c
      <3> QED BY <2>1, Parts DEF StreamRecord
    <2>3. /\ g \in HandleRecord
          /\ g.state = w.handle[h].state /\ g.dev = w.handle[h].dev
          /\ g.running = w.handle[h].running
      BY Parts DEF HandleRecord
    <2>4. unregisterViewSink(w, h) = DropIfUnused(left, d, c)
      <3>1. left = [w EXCEPT !.stream[c].viewSinks = @ \ {ViewSink(w, h)},
                             !.stream[c].handles = @ \ {h},
                             !.handle[h].registered = FALSE]
        <4> HIDE DEF c
        <4> QED BY <2>1 DEF Worlds
      <3> HIDE DEF left
      <3> QED BY <1>4, <3>1 DEF unregisterViewSink
    <2> HIDE DEF r, g
    <2>5. u \in Worlds /\ SameCore(u, w) /\ u.handle = w.handle
      <3> HIDE DEF c
      <3> QED BY <2>1, <2>2, SameStreamCore
    <2> HIDE DEF u
    <2>6. left \in Worlds /\ SameCore(left, u)
      BY <2>3, <2>5, SameHandle
    <2> HIDE DEF left
    <2>7. SameCore(left, w)
      BY <2>5, <2>6, SameCoreTrans
    <2>8. CaptureInv(left)
      BY <2>6, <2>7, SameCoreInv
    <2>9. left.cameraStreams[d] = c /\ FreeStreams(left) = FreeStreams(w) /\ SameHandles(left, w)
      BY <2>7 DEF SameCore, SameStream, FreeStreams
    <2>10. LET v == DropIfUnused(left, d, c)
           IN /\ v \in Worlds /\ CaptureInv(v) /\ SameHandles(v, left)
              /\ FreeStreams(left) \subseteq FreeStreams(v)
      <3> HIDE DEF c, d
      <3> QED BY <1>1, <2>1, <2>6, <2>8, <2>9, DropIfUnusedInv
    <2> HIDE DEF c, d
    <2> QED BY <2>4, <2>9, <2>10 DEF SameHandles
  <1> QED BY <1>3, <1>4

LEMMA UnregisterInv ==
  ASSUME NEW w \in Worlds, CaptureInv(w), NEW h \in Handles, w.handle[h].state # "free"
  PROVE  LET v == Unregister(w, h)
         IN /\ v \in Worlds /\ CaptureInv(v) /\ SameHandles(v, w)
            /\ FreeStreams(w) \subseteq FreeStreams(v)
  <1>1. CASE ~w.handle[h].registered
    BY <1>1 DEF Unregister, SameHandles
  <1>2. CASE w.handle[h].registered
    <2> DEFINE u == unregisterViewSink(w, h)
               g == [u.handle[h] EXCEPT !.registered = FALSE]
               v == [u EXCEPT !.handle[h] = g]
    <2>1. /\ u \in Worlds /\ CaptureInv(u) /\ SameHandles(u, w)
          /\ FreeStreams(w) \subseteq FreeStreams(u)
      BY unregisterViewSinkInv
    <2> HIDE DEF u
    <2>2. /\ g \in HandleRecord
          /\ g.state = u.handle[h].state /\ g.dev = u.handle[h].dev
          /\ g.running = u.handle[h].running
      BY <2>1, Parts DEF HandleRecord
    <2>3. Unregister(w, h) = v
      BY <1>2, <2>1 DEF Unregister, Worlds, u
    <2> HIDE DEF g
    <2>4. v \in Worlds /\ SameCore(v, u) /\ v.stream = u.stream
      BY <2>1, <2>2, SameHandle
    <2> HIDE DEF v
    <2>5. CaptureInv(v)
      BY <2>1, <2>4, SameCoreInv
    <2> QED BY <2>1, <2>3, <2>4, <2>5 DEF SameCore, SameHandles, FreeStreams
  <1> QED BY <1>1, <1>2

LEMMA registerViewSinkInv ==
  ASSUME NEW w \in Worlds, CaptureInv(w), NEW h \in Handles, NEW e \in BackendTexts,
         w.handle[h].state # "free", w.handle[h].viewSink \in Sinks, Room(w, w.handle[h].dev)
  PROVE  LET v == registerViewSink(w, h, e)
         IN v \in Worlds /\ CaptureInv(v) /\ SameHandles(v, w) /\ Room(v, w.handle[h].dev)
  <1> DEFINE d == w.handle[h].dev
             v == ensureStreamForDeviceId(w, d, e)
             c == v.cameraStreams[d]
             s == v.handle[h].viewSink
  <1>1. d \in Devices
    BY DEF CaptureInv, Linked
  <1>2. v \in Worlds /\ CaptureInv(v) /\ v.handle = w.handle /\ (v = w \/ c # None)
    BY <1>1, ensureStreamInv
  <1>3. registerViewSink(w, h, e) =
           IF c # None
           THEN [addViewSink(addHandle(v, c, h), c, s) EXCEPT !.handle[h].registered = TRUE]
           ELSE [v EXCEPT !.handle[h].errorText = Unavailable]
    BY DEF registerViewSink
  <1>0. c = v.cameraStreams[d]
    OBVIOUS
  <1> HIDE DEF v, d
  <1>4. s \in Sinks /\ c \in Streams \cup {None}
    BY <1>1, <1>2, Parts
  <1> HIDE DEF s, c
  <1>5. CASE c # None
    <2> DEFINE a == addHandle(v, c, h)
               b == addViewSink(a, c, s)
               g == [b.handle[h] EXCEPT !.registered = TRUE]
               z == [b EXCEPT !.handle[h] = g]
    <2>1. c \in Streams
      BY <1>4, <1>5
    <2>2. a \in Worlds /\ SameCore(a, v)
      BY <1>2, <2>1, addHandleTyped, addHandleCore
    <2> HIDE DEF a
    <2>3. b \in Worlds /\ SameCore(b, a)
      BY <1>4, <2>1, <2>2, addViewSinkTyped, addViewSinkCore
    <2> HIDE DEF b
    <2>4. /\ g \in HandleRecord
          /\ g.state = b.handle[h].state /\ g.dev = b.handle[h].dev
          /\ g.running = b.handle[h].running
      BY <2>3, Parts DEF HandleRecord
    <2>5. registerViewSink(w, h, e) = z
      BY <1>3, <1>5, <2>3 DEF Worlds, a, b
    <2> HIDE DEF g
    <2>6. z \in Worlds /\ SameCore(z, b)
      BY <2>3, <2>4, SameHandle
    <2> HIDE DEF z
    <2>7. SameCore(z, v)
      BY <2>2, <2>3, <2>6, SameCoreTrans
    <2>8. CaptureInv(z)
      BY <1>2, <2>6, <2>7, SameCoreInv
    <2>9. Room(z, d)
      BY <1>0, <1>5, <2>7 DEF SameCore, Room
    <2> QED BY <1>2, <2>5, <2>6, <2>7, <2>8, <2>9 DEF SameCore, SameHandles, d
  <1>6. CASE c = None
    <2> DEFINE g == [v.handle[h] EXCEPT !.errorText = Unavailable]
               z == [v EXCEPT !.handle[h] = g]
    <2>1. /\ g \in HandleRecord
          /\ g.state = v.handle[h].state /\ g.dev = v.handle[h].dev
          /\ g.running = v.handle[h].running
      BY <1>2, Parts DEF HandleRecord, Texts
    <2>2. registerViewSink(w, h, e) = z
      BY <1>2, <1>3, <1>6 DEF Worlds
    <2> HIDE DEF g
    <2>3. z \in Worlds /\ SameCore(z, v)
      BY <1>2, <2>1, SameHandle
    <2> HIDE DEF z
    <2>4. CaptureInv(z)
      BY <1>2, <2>3, SameCoreInv
    <2>5. Room(w, d) /\ SameCore(z, w)
      BY <1>2, <1>6, <2>3 DEF d
    <2>6. Room(z, d)
      BY <2>5 DEF SameCore, SameStream, Room, FreeStreams
    <2> QED BY <1>2, <2>2, <2>3, <2>4, <2>6 DEF SameCore, SameHandles, d
  <1> QED BY <1>5, <1>6

\* What the guards of SetViewSink grant to setViewSink().
CanAttach(w, h, s) == s # None => /\ Room(w, w.handle[h].dev)
                                  /\ w.handle[h].registered => FreeStreams(w) # {}

LEMMA setViewSinkInv ==
  ASSUME NEW w \in Worlds, CaptureInv(w), NEW h \in Handles, NEW e \in BackendTexts,
         NEW s \in Sinks \cup {None}, w.handle[h].state # "free", CanAttach(w, h, s)
  PROVE  LET v == setViewSink(w, h, s, e)
         IN /\ v \in Worlds /\ CaptureInv(v) /\ SameHandles(v, w)
            /\ s # None => Room(v, w.handle[h].dev)
  <1> DEFINE u == Unregister(w, h)
             g == [u.handle[h] EXCEPT !.viewSink = s]
             v == [u EXCEPT !.handle[h] = g]
  <1>1. /\ u \in Worlds /\ CaptureInv(u) /\ SameHandles(u, w)
        /\ FreeStreams(w) \subseteq FreeStreams(u)
    BY UnregisterInv
  <1>2. ~w.handle[h].registered => u = w
    BY DEF Unregister
  <1> HIDE DEF u
  <1>3. /\ g \in HandleRecord
        /\ g.state = u.handle[h].state /\ g.dev = u.handle[h].dev
        /\ g.running = u.handle[h].running /\ g.viewSink = s
    BY <1>1, Parts DEF HandleRecord
  <1>4. v = [u EXCEPT !.handle[h].viewSink = s]
    BY <1>1 DEF Worlds
  <1> HIDE DEF g
  <1>5. v \in Worlds /\ SameCore(v, u) /\ v.handle[h] = g /\ v.stream = u.stream
    BY <1>1, <1>3, SameHandle
  <1> HIDE DEF v
  <1>6. CaptureInv(v) /\ SameHandles(v, w)
    BY <1>1, <1>5, SameCoreInv DEF SameCore, SameHandles
  <1>7. setViewSink(w, h, s, e) = IF ViewSink(w, h) = s THEN w
                                  ELSE IF s # None THEN registerViewSink(v, h, e) ELSE v
    BY <1>4 DEF setViewSink, u
  <1>8. CASE s # None
    <2>1. Room(v, v.handle[h].dev)
      BY <1>1, <1>2, <1>5, <1>6, <1>8 DEF CanAttach, Room, FreeStreams, SameCore, SameHandles
    <2>2. s \in Sinks /\ v.handle[h].state # "free" /\ v.handle[h].viewSink = s
      BY <1>3, <1>5, <1>6, <1>8 DEF SameHandles
    <2>3. LET z == registerViewSink(v, h, e)
          IN z \in Worlds /\ CaptureInv(z) /\ SameHandles(z, v) /\ Room(z, v.handle[h].dev)
      BY <1>5, <1>6, <2>1, <2>2, registerViewSinkInv
    <2> QED BY <1>6, <1>7, <1>8, <2>3 DEF SameHandles, CanAttach
  <1>9. CASE s = None
    BY <1>5, <1>6, <1>7, <1>9 DEF SameHandles
  <1> QED BY <1>8, <1>9

LEMMA closeInv ==
  ASSUME NEW w \in Worlds, CaptureInv(w), NEW h \in Handles, w.handle[h].state # "free"
  PROVE  close(w, h) \in Worlds /\ CaptureInv(close(w, h))
  <1> DEFINE u == setRunning(w, h, FALSE, "")
             v == setViewSink(u, h, None, "")
             g == [v.handle[h] EXCEPT !.state = "closing"]
  <1>1. "" \in BackendTexts
    BY DEF BackendTexts
  <1>2. u \in Worlds /\ CaptureInv(u) /\ OnlyRunning(u, w, h, FALSE)
    BY <1>1, setRunningInv
  <1> HIDE DEF u
  <1>3. u.handle[h].state # "free" /\ ~u.handle[h].running
    BY <1>2 DEF OnlyRunning
  <1>4. v \in Worlds /\ CaptureInv(v) /\ SameHandles(v, u)
    BY <1>1, <1>2, <1>3, setViewSinkInv DEF CanAttach
  <1> HIDE DEF v
  <1>5. v.handle[h].dev \in Devices /\ ~v.handle[h].running
    BY <1>3, <1>4 DEF SameHandles, CaptureInv, Linked
  <1>6. g \in HandleRecord /\ ~g.running /\ g.dev \in Devices
    BY <1>4, <1>5, Parts DEF HandleRecord
  <1>7. close(w, h) = [v EXCEPT !.handle[h] = g]
    BY <1>4 DEF close, Worlds, u, v
  <1> HIDE DEF g
  <1> QED BY <1>4, <1>5, <1>6, <1>7, IdleHandle

LEMMA destroyHandleInv ==
  ASSUME NEW w \in Worlds, CaptureInv(w), NEW h \in Handles, w.handle[h].state # "free"
  PROVE  destroyHandle(w, h) \in Worlds /\ CaptureInv(destroyHandle(w, h))
  <1> DEFINE u == setRunning(w, h, FALSE, "")
             v == Unregister(u, h)
             g == NewHandle("free", None)
  <1>1. u \in Worlds /\ CaptureInv(u) /\ OnlyRunning(u, w, h, FALSE)
    BY setRunningInv DEF BackendTexts
  <1> HIDE DEF u
  <1>2. u.handle[h].state # "free" /\ ~u.handle[h].running
    BY <1>1 DEF OnlyRunning
  <1>3. v \in Worlds /\ CaptureInv(v) /\ SameHandles(v, u)
    BY <1>1, <1>2, UnregisterInv
  <1> HIDE DEF v
  <1>4. ~v.handle[h].running
    BY <1>2, <1>3 DEF SameHandles
  <1>5. g \in HandleRecord /\ ~g.running /\ g.state = "free"
    BY DEF NewHandle, HandleRecord, Texts, BackendTexts
  <1>6. destroyHandle(w, h) = [v EXCEPT !.handle[h] = g]
    BY DEF destroyHandle, u, v
  <1> HIDE DEF g
  <1> QED BY <1>3, <1>4, <1>5, <1>6, IdleHandle


-----------------------------------------------------------------------------
(* One lemma per action: it keeps types and the invariant. *)

\* The guard of SetViewSink and SetRunning, about the World.
LEMMA RoomForStreamIsRoom ==
  \A h : RoomForStream(h) <=> Room(World, handle[h].dev)
  BY DEF RoomForStream, Room, World

\* An action that ends in Become(w), for a w that has what the invariant asks.
LEMMA BecomeInv ==
  ASSUME TypeOK, NEW w \in Worlds, CaptureInv(w), Become(w), UNCHANGED <<plugged, liveSinks>>
  PROVE  TypeOK' /\ CaptureInv(World')
  BY BecomeTyped

LEMMA AcquireInv ==
  ASSUME TypeOK, CaptureInv(World), NEW h \in Handles, NEW d \in Devices, Acquire(h, d)
  PROVE  TypeOK' /\ CaptureInv(World')
  <1> DEFINE w == acquireCameraPreviewHandle(World, d, h)
             g == NewHandle("alive", d)
  <1>1. World \in Worlds /\ World.handle[h].state = "free"
    BY WorldTyped DEF Acquire, World
  <1>2. g \in HandleRecord /\ ~g.running /\ g.dev \in Devices
    BY DEF NewHandle, HandleRecord, Texts, BackendTexts
  <1>3. w = [World EXCEPT !.handle[h] = g]
    BY DEF acquireCameraPreviewHandle
  <1> HIDE DEF g
  <1>4. w \in Worlds /\ CaptureInv(w)
    BY <1>1, <1>2, <1>3, IdleHandle
  <1> HIDE DEF w
  <1> QED BY <1>4, BecomeInv DEF Acquire, w

LEMMA SetViewSinkInv ==
  ASSUME TypeOK, CaptureInv(World), NEW h \in Handles, NEW s \in liveSinks \cup {None},
         SetViewSink(h, s)
  PROVE  TypeOK' /\ CaptureInv(World')
  <1>1. World \in Worlds /\ World.handle[h].state # "free" /\ s \in Sinks \cup {None}
    BY WorldTyped DEF SetViewSink, World, TypeOK
  <1>2. CanAttach(World, h, s)
    BY RoomForStreamIsRoom DEF SetViewSink, CanAttach, World
  <1>3. PICK e \in BackendTexts : Become(setViewSink(World, h, s, e))
    BY DEF SetViewSink
  <1>4. setViewSink(World, h, s, e) \in Worlds /\ CaptureInv(setViewSink(World, h, s, e))
    BY <1>1, <1>2, setViewSinkInv
  <1> QED BY <1>3, <1>4, BecomeInv DEF SetViewSink

LEMMA SetRunningInv ==
  ASSUME TypeOK, CaptureInv(World), NEW h \in Handles, NEW r \in BOOLEAN, SetRunning(h, r)
  PROVE  TypeOK' /\ CaptureInv(World')
  <1>1. World \in Worlds /\ World.handle[h].state # "free"
    BY WorldTyped DEF SetRunning, World
  <1>2. r => Room(World, World.handle[h].dev)
    BY RoomForStreamIsRoom DEF SetRunning, World
  <1>3. PICK e \in BackendTexts : Become(setRunning(World, h, r, e))
    BY DEF SetRunning
  <1>4. setRunning(World, h, r, e) \in Worlds /\ CaptureInv(setRunning(World, h, r, e))
    BY <1>1, <1>2, setRunningInv
  <1> QED BY <1>3, <1>4, BecomeInv DEF SetRunning

LEMMA CloseInv ==
  ASSUME TypeOK, CaptureInv(World), NEW h \in Handles, Close(h)
  PROVE  TypeOK' /\ CaptureInv(World')
  <1>1. World \in Worlds /\ World.handle[h].state # "free"
    BY WorldTyped DEF Close, World
  <1>2. close(World, h) \in Worlds /\ CaptureInv(close(World, h))
    BY <1>1, closeInv
  <1> QED BY <1>2, BecomeInv DEF Close

LEMMA DestroyHandleInv ==
  ASSUME TypeOK, CaptureInv(World), NEW h \in Handles, DestroyHandle(h)
  PROVE  TypeOK' /\ CaptureInv(World')
  <1>1. World \in Worlds /\ World.handle[h].state # "free"
    BY WorldTyped DEF DestroyHandle, World
  <1>2. destroyHandle(World, h) \in Worlds /\ CaptureInv(destroyHandle(World, h))
    BY <1>1, destroyHandleInv
  <1> QED BY <1>2, BecomeInv DEF DestroyHandle

\* What is destroyed is out of the map already, and off.
LEMMA DestroyStreamInv ==
  ASSUME TypeOK, CaptureInv(World), NEW c \in Streams, DestroyStream(c)
  PROVE  TypeOK' /\ CaptureInv(World')
  <1> DEFINE r == NewStream("free", None, "")
             v == [World EXCEPT !.stream[c] = r]
  <1>1. r \in StreamRecord /\ r.state = "free" /\ ~r.active
    BY DEF NewStream, StreamRecord, BackendTexts
  <1> HIDE DEF r
  <1>2. World \in Worlds /\ World.stream[c].state = "doomed"
    BY WorldTyped DEF DestroyStream, World
  <1>3. v \in Worlds /\ Become(v) /\ UNCHANGED <<plugged, liveSinks>>
    BY <1>1, <1>2, WithStream DEF DestroyStream, Become, World, r
  <1>4. /\ v.cameraStreams = World.cameraStreams /\ v.handle = World.handle
        /\ v.stream[c] = r /\ \A b \in Streams \ {c} : v.stream[b] = World.stream[b]
    BY <1>2 DEF Worlds
  <1> HIDE DEF v
  <1>5. Linked(v)
    <2>1. \A d \in Devices : World.cameraStreams[d] # None =>
             World.cameraStreams[d] \in Streams \ {c}
      BY <1>2, Parts DEF CaptureInv, Linked
    <2> QED BY <1>1, <1>4, <2>1 DEF CaptureInv, Linked
  <1>6. \A b \in Streams : Counted(v, b)
    BY <1>1, <1>4 DEF CaptureInv, Counted, RunnersIn
  <1> QED BY <1>3, <1>5, <1>6, BecomeInv DEF CaptureInv

\* An action that leaves the core alone.
LEMMA SameCoreAction ==
  ASSUME TypeOK, CaptureInv(World), NEW w \in Worlds, SameCore(w, World),
         Become(w), UNCHANGED <<plugged, liveSinks>>
  PROVE  TypeOK' /\ CaptureInv(World')
  BY WorldTyped, SameCoreInv, BecomeInv

\* A stream's queue of frames is not part of the core.
LEMMA PendingCore ==
  ASSUME NEW w \in Worlds, NEW c \in Streams, NEW n \in Nat
  PROVE  LET v == [w EXCEPT !.stream[c].pending = n] IN v \in Worlds /\ SameCore(v, w)
  <1> DEFINE r == [w.stream[c] EXCEPT !.pending = n]
  <1>1. /\ r \in StreamRecord
        /\ r.state = w.stream[c].state /\ r.dev = w.stream[c].dev /\ r.active = w.stream[c].active
        /\ r.runningRefCount = w.stream[c].runningRefCount
    BY Parts DEF StreamRecord
  <1>2. [w EXCEPT !.stream[c].pending = n] = [w EXCEPT !.stream[c] = r]
    BY DEF Worlds
  <1> HIDE DEF r
  <1> QED BY <1>1, <1>2, SameStreamCore

LEMMA BackendFrameInv ==
  ASSUME TypeOK, CaptureInv(World), NEW c \in Streams, BackendFrame(c)
  PROVE  TypeOK' /\ CaptureInv(World')
  <1>1. World \in Worlds /\ stream[c].pending \in Nat
    BY WorldTyped DEF TypeOK, StreamRecord
  <1>2. CASE QueuedDelivery
    <2> DEFINE w == [World EXCEPT !.stream[c].pending = stream[c].pending + 1]
    <2>1. w \in Worlds /\ SameCore(w, World)
      BY <1>1, PendingCore
    <2>2. Become(w)
      BY <1>2 DEF BackendFrame, Become, World
    <2> HIDE DEF w
    <2> QED BY <2>1, <2>2, SameCoreAction DEF BackendFrame
  <1>3. CASE ~QueuedDelivery
    <2>1. /\ onVideoFrameChanged(World, c) \in Worlds
          /\ SameCore(onVideoFrameChanged(World, c), World)
      BY <1>1, onVideoFrameChangedTyped, onVideoFrameChangedCore
    <2> QED BY <1>3, <2>1, SameCoreAction DEF BackendFrame
  <1> QED BY <1>2, <1>3

LEMMA DeliverFrameInv ==
  ASSUME TypeOK, CaptureInv(World), NEW c \in Streams, DeliverFrame(c)
  PROVE  TypeOK' /\ CaptureInv(World')
  <1> DEFINE w == [World EXCEPT !.stream[c].pending = stream[c].pending - 1]
             v == onVideoFrameChanged(w, c)
  <1>1. World \in Worlds /\ stream[c].pending - 1 \in Nat
    BY WorldTyped DEF TypeOK, StreamRecord, DeliverFrame
  <1>2. w \in Worlds /\ SameCore(w, World)
    BY <1>1, PendingCore
  <1>3. Become(v)
    BY DEF DeliverFrame, World
  <1> HIDE DEF w
  <1>4. v \in Worlds /\ SameCore(v, w)
    BY <1>2, onVideoFrameChangedTyped, onVideoFrameChangedCore
  <1> HIDE DEF v
  <1>5. SameCore(v, World)
    BY <1>2, <1>4, SameCoreTrans
  <1> QED BY <1>3, <1>4, <1>5, SameCoreAction DEF DeliverFrame

LEMMA BackendErrorTextInv ==
  ASSUME TypeOK, CaptureInv(World), NEW c \in Streams, NEW t \in BackendTexts,
         BackendErrorText(c, t)
  PROVE  TypeOK' /\ CaptureInv(World')
  <1>1. /\ onBackendErrorTextChanged(World, c, t) \in Worlds
        /\ SameCore(onBackendErrorTextChanged(World, c, t), World)
    BY WorldTyped, onBackendErrorTextChangedTyped, onBackendErrorTextChangedCore
  <1> QED BY <1>1, SameCoreAction DEF BackendErrorText

\* The sinks and the platform's devices are no part of the core.
LEMMA PlatformInv ==
  ASSUME TypeOK, CaptureInv(World),
         \/ \E s \in Sinks : DestroySink(s)
         \/ \E d \in Devices : Plug(d) \/ Unplug(d)
  PROVE  TypeOK' /\ CaptureInv(World')
  <1>1. World \in Worlds
    BY WorldTyped
  <1>2. TypeOK'
    <2>1. ASSUME NEW s \in Sinks, DestroySink(s) PROVE TypeOK'
      BY <2>1 DEF TypeOK, DestroySink
    <2>2. ASSUME NEW d \in Devices, Plug(d) PROVE TypeOK'
      BY <2>2 DEF TypeOK, Plug
    <2>3. ASSUME NEW d \in Devices, Unplug(d) PROVE TypeOK'
      <3>1. \A c \in Streams : [stream[c] EXCEPT !.lost = TRUE] \in StreamRecord
        BY DEF TypeOK, StreamRecord
      <3>2. stream' \in [Streams -> StreamRecord]
        BY <2>3, <3>1 DEF TypeOK, Unplug
      <3> QED BY <2>3, <3>2 DEF TypeOK, Unplug
    <2> QED BY <2>1, <2>2, <2>3
  <1>3. World' \in Worlds
    BY <1>2 DEF TypeOK, World, Worlds
  <1>4. SameCore(World', World)
    <2>1. cameraStreams' = cameraStreams /\ handle' = handle
      BY DEF DestroySink, Plug, Unplug
    <2>2. ASSUME NEW c \in Streams
          PROVE  stream'[c] \in {stream[c], [stream[c] EXCEPT !.lost = TRUE]}
      BY DEF DestroySink, Plug, Unplug
    <2>3. ASSUME NEW c \in Streams
          PROVE  SameStream(World', World, c)
      <3>1. stream[c] \in StreamRecord
        BY DEF TypeOK
      <3> QED BY <2>2, <3>1 DEF SameStream, World, StreamRecord
    <2> QED BY <2>1, <2>3 DEF SameCore, SameHandles, World
  <1> QED BY <1>1, <1>2, <1>3, <1>4, SameCoreInv

-----------------------------------------------------------------------------
(* The invariant of the specification, and what follows from it. *)

LEMMA InitInv == Init => TypeOK /\ CaptureInv(World)
  <1> SUFFICES ASSUME Init PROVE TypeOK /\ CaptureInv(World)
    OBVIOUS
  <1>1. NewStream("free", None, "") \in StreamRecord /\ NewHandle("free", None) \in HandleRecord
    BY DEF NewStream, StreamRecord, NewHandle, HandleRecord, Texts, BackendTexts
  <1>2. TypeOK
    BY <1>1 DEF Init, TypeOK
  <1>3. /\ \A d \in Devices : World.cameraStreams[d] = None
        /\ \A c \in Streams : World.stream[c].state = "free" /\ ~World.stream[c].active
        /\ \A h \in Handles : World.handle[h].state = "free"
    BY DEF Init, World, NewStream, NewHandle
  <1>4. Linked(World) /\ \A c \in Streams : Counted(World, c)
    BY <1>3 DEF Linked, Counted
  <1> QED BY <1>2, <1>4 DEF CaptureInv

LEMMA StepInv == TypeOK /\ CaptureInv(World) /\ [Next]_vars => TypeOK' /\ CaptureInv(World')
  <1> SUFFICES ASSUME TypeOK, CaptureInv(World), [Next]_vars PROVE TypeOK' /\ CaptureInv(World')
    OBVIOUS
  <1>1. CASE UNCHANGED vars
    <2>1. World' = World
      BY <1>1 DEF vars, World
    <2> QED BY <1>1, <2>1 DEF vars, TypeOK
  <1>2. ASSUME NEW h \in Handles, \E d \in Devices : Acquire(h, d)
        PROVE  TypeOK' /\ CaptureInv(World')
    BY <1>2, AcquireInv
  <1>3. ASSUME NEW h \in Handles, \E s \in liveSinks \cup {None} : SetViewSink(h, s)
        PROVE  TypeOK' /\ CaptureInv(World')
    BY <1>3, SetViewSinkInv
  <1>4. ASSUME NEW h \in Handles, \E r \in BOOLEAN : SetRunning(h, r)
        PROVE  TypeOK' /\ CaptureInv(World')
    BY <1>4, SetRunningInv
  <1>5. ASSUME NEW h \in Handles, Close(h) \/ DestroyHandle(h)
        PROVE  TypeOK' /\ CaptureInv(World')
    BY <1>5, CloseInv, DestroyHandleInv
  <1>6. ASSUME NEW c \in Streams, DestroyStream(c) \/ BackendFrame(c) \/ DeliverFrame(c)
        PROVE  TypeOK' /\ CaptureInv(World')
    BY <1>6, DestroyStreamInv, BackendFrameInv, DeliverFrameInv
  <1>7. ASSUME NEW c \in Streams, \E t \in BackendTexts : BackendErrorText(c, t)
        PROVE  TypeOK' /\ CaptureInv(World')
    BY <1>7, BackendErrorTextInv
  <1> QED BY <1>1, <1>2, <1>3, <1>4, <1>5, <1>6, <1>7, PlatformInv DEF Next

Inv == TypeOK /\ CaptureInv(World)

\* In every behaviour the objects have their types, and the invariant above holds.
THEOREM Invariant == Spec => []Inv
  <1>1. Init => Inv
    BY InitInv DEF Inv
  <1>2. Inv /\ [Next]_vars => Inv'
    BY StepInv DEF Inv
  <1> QED BY <1>1, <1>2, PTL DEF Spec

\* The objects of MediaCapture keep their types: among other things the running count of a
\* stream never goes below zero and no stream lists what is not a handle or a sink.
THEOREM TypeCorrect == Spec => []TypeOK
  <1>1. Inv => TypeOK
    BY DEF Inv
  <1> QED BY <1>1, Invariant, PTL

LEMMA InvCounts == Inv => CountedCapture
  <1> SUFFICES ASSUME TypeOK, CaptureInv(World), NEW d \in Devices, cameraStreams[d] # None
               PROVE  LET s == stream[cameraStreams[d]]
                      IN /\ s.state = "live" /\ s.dev = d
                         /\ s.active = (s.runningRefCount > 0)
                         /\ s.runningRefCount <= Cardinality(Runners(d))
    BY DEF CountedCapture, Inv
  <1>1. cameraStreams[d] \in Streams
    BY DEF TypeOK
  <1>2. stream[cameraStreams[d]].state = "live" /\ stream[cameraStreams[d]].dev = d
    BY DEF CaptureInv, Linked, World
  <1>3. Counted(World, cameraStreams[d])
    BY <1>1 DEF CaptureInv
  <1>4. RunnersIn(World, d) = Runners(d)
    BY DEF RunnersIn, Runners, World
  <1> QED BY <1>2, <1>3, <1>4 DEF Counted, World

\* The count of setHandleRunning() decides the camera and never exceeds the number of
\* handles that run it, for any number of devices, handles and streams.
THEOREM CountIsCovered == Spec => []CountedCapture
  BY InvCounts, Invariant, PTL

LEMMA InvOneDevice == Inv => OneCapturePerDevice
  BY DEF OneCapturePerDevice, Inv, CaptureInv, Linked, World

\* A camera that is on is the one the map holds for its device: no device is opened twice.
THEOREM OneDevice == Spec => []OneCapturePerDevice
  BY InvOneDevice, Invariant, PTL

LEMMA InvNoOrphan == Inv => NoOrphanCapture
  <1> SUFFICES ASSUME TypeOK, CaptureInv(World), NEW c \in Streams, stream[c].active
               PROVE  Runners(stream[c].dev) # {}
    BY DEF NoOrphanCapture, Inv
  <1> DEFINE d == stream[c].dev
  <1>1. stream[c].state = "live"
    BY DEF CaptureInv, Linked, World
  <1>2. stream[c].active = (stream[c].runningRefCount > 0)
        /\ stream[c].runningRefCount <= Cardinality(RunnersIn(World, d))
    BY <1>1 DEF CaptureInv, Counted, World
  <1>3. stream[c].runningRefCount > 0 /\ stream[c].runningRefCount \in Nat
    BY <1>2 DEF TypeOK, StreamRecord
  <1>4. RunnersIn(World, d) = Runners(d)
    BY DEF RunnersIn, Runners, World
  <1> HIDE DEF d
  <1>5. Cardinality(Runners(d)) # 0
    BY <1>2, <1>3, <1>4, RunnersFinite
  <1>6. Runners(d) # {}
    BY <1>5, FS_EmptySet
  <1> QED BY <1>6 DEF d

\* A camera is on only while some existing handle of its device runs it, whatever is
\* closed, destroyed, unplugged or refused.
THEOREM NoOrphan == Spec => []NoOrphanCapture
  BY InvNoOrphan, Invariant, PTL


-----------------------------------------------------------------------------
(* What the operators do to a World, field by field *)

\* All of a handle but what it shows of its stream.
SameButShown(g, f) ==
    /\ g.state = f.state /\ g.dev = f.dev /\ g.viewSink = f.viewSink
    /\ g.registered = f.registered /\ g.running = f.running

\* All of a stream but its frames, its error and its switch.
SameButFrames(r, q) ==
    /\ r.state = q.state /\ r.dev = q.dev /\ r.runningRefCount = q.runningRefCount
    /\ r.handles = q.handles /\ r.viewSinks = q.viewSinks

\* v is w but for what is shown: of the streams, c alone may have changed.
OnlyShown(v, w, c) ==
    /\ v.cameraStreams = w.cameraStreams
    /\ \A b \in Streams \ {c} : v.stream[b] = w.stream[b]
    /\ SameButFrames(v.stream[c], w.stream[c])
    /\ \A h \in Handles : SameButShown(v.handle[h], w.handle[h])

\* The handle h shows the frames and the error of the stream c.
Mirror(w, h, c) == /\ w.handle[h].hasFrame = w.stream[c].lastFrame
                   /\ w.handle[h].framesReceived = w.stream[c].framesReceived
                   /\ w.handle[h].errorText = w.stream[c].errorText

\* What the stream c lists goes on mirroring it, and the other handles are left alone.
Follows(v, w, c) ==
    \A h \in Handles :
        IF h \in w.stream[c].handles /\ Exists(w, h)
        THEN Mirror(w, h, c) => Mirror(v, h, c)
        ELSE v.handle[h] = w.handle[h]

LEMMA ShowParts ==
  ASSUME NEW w \in Worlds, NEW S, NEW d
  PROVE  LET v == Show(w, S, d)
         IN /\ v.cameraStreams = w.cameraStreams /\ v.stream = w.stream /\ v.handle = w.handle
            /\ \A s \in Sinks : v.sinkShows[s] = IF s \in S /\ s \in liveSinks THEN d
                                                 ELSE w.sinkShows[s]
  BY DEF Show, Worlds

LEMMA PublishFramesParts ==
  ASSUME NEW w \in Worlds, NEW c \in Streams
  PROVE  LET v == PublishFrames(w, c)
         IN /\ v.cameraStreams = w.cameraStreams /\ v.stream = w.stream
            /\ v.sinkShows = w.sinkShows
            /\ \A h \in Handles :
                  /\ SameButShown(v.handle[h], w.handle[h])
                  /\ v.handle[h].errorText = w.handle[h].errorText
                  /\ IF h \in w.stream[c].handles /\ Exists(w, h)
                     THEN /\ v.handle[h].hasFrame = w.stream[c].lastFrame
                          /\ v.handle[h].framesReceived = w.stream[c].framesReceived
                     ELSE v.handle[h] = w.handle[h]
  <1> DEFINE v == PublishFrames(w, c)
  <1>1. v.cameraStreams = w.cameraStreams /\ v.stream = w.stream /\ v.sinkShows = w.sinkShows
    BY DEF PublishFrames, Worlds
  <1>2. ASSUME NEW h \in Handles
        PROVE  v.handle[h] = IF h \in w.stream[c].handles /\ Exists(w, h)
                             THEN [w.handle[h] EXCEPT !.hasFrame = w.stream[c].lastFrame,
                                                      !.framesReceived = w.stream[c].framesReceived]
                             ELSE w.handle[h]
    BY DEF PublishFrames, Worlds
  <1>3. \A h \in Handles : w.handle[h] \in HandleRecord
    BY Parts
  <1> HIDE DEF v
  <1> QED BY <1>1, <1>2, <1>3 DEF SameButShown, HandleRecord, v

\* A stream that is switched off is emptied, and so are its views.
LEMMA setActiveParts ==
  ASSUME NEW w \in Worlds, NEW c \in Streams, NEW a \in BOOLEAN
  PROVE  LET v == setActive(w, c, a)
         IN /\ v \in Worlds /\ OnlyShown(v, w, c) /\ Follows(v, w, c)
            /\ v.stream[c].active = a
            /\ v.stream[c].errorText = w.stream[c].errorText
            /\ v.stream[c].lastFrame => w.stream[c].lastFrame
            /\ \A s \in Sinks : v.sinkShows[s] \in {w.sinkShows[s], None}
            /\ w.stream[c].active /\ ~a =>
                  \A s \in w.stream[c].viewSinks \cap liveSinks : v.sinkShows[s] = None
  <1> DEFINE v == setActive(w, c, a)
             r == [w.stream[c] EXCEPT !.active = a]
             q == [r EXCEPT !.lastFrame = FALSE, !.framesReceived = 0]
             switched == [w EXCEPT !.stream[c] = r]
             emptied == [w EXCEPT !.stream[c] = q]
             shown == Show(emptied, w.stream[c].viewSinks, None)
             told == PublishFrames(shown, c)
  <1>1. w.stream[c] \in StreamRecord /\ \A s \in Sinks : w.sinkShows[s] \in Devices \cup {None}
    BY Parts DEF Worlds
  <1>2. r \in StreamRecord /\ q \in StreamRecord
    BY <1>1 DEF StreamRecord
  <1>3. /\ switched = [w EXCEPT !.stream[c].active = a]
        /\ emptied = [switched EXCEPT !.stream[c].lastFrame = FALSE,
                                      !.stream[c].framesReceived = 0]
    BY DEF Worlds
  <1>4. /\ r.active = a /\ r.errorText = w.stream[c].errorText
        /\ r.lastFrame = w.stream[c].lastFrame /\ r.framesReceived = w.stream[c].framesReceived
        /\ SameButFrames(r, w.stream[c])
    BY <1>1 DEF StreamRecord, SameButFrames
  <1>5. /\ q.active = a /\ q.errorText = w.stream[c].errorText /\ q.lastFrame = FALSE
        /\ SameButFrames(q, w.stream[c])
    BY <1>1 DEF StreamRecord, SameButFrames
  <1> HIDE DEF r, q
  <1>6. /\ switched \in Worlds
        /\ switched.cameraStreams = w.cameraStreams /\ switched.handle = w.handle
        /\ switched.sinkShows = w.sinkShows
        /\ switched.stream[c] = r /\ \A b \in Streams \ {c} : switched.stream[b] = w.stream[b]
    <2>1. switched \in Worlds
      BY <1>2, WithStream
    <2> QED BY <2>1 DEF Worlds
  <1>7. /\ emptied \in Worlds
        /\ emptied.cameraStreams = w.cameraStreams /\ emptied.handle = w.handle
        /\ emptied.sinkShows = w.sinkShows
        /\ emptied.stream[c] = q /\ \A b \in Streams \ {c} : emptied.stream[b] = w.stream[b]
    <2>1. emptied \in Worlds
      BY <1>2, WithStream
    <2> QED BY <2>1 DEF Worlds
  <1> HIDE DEF switched, emptied
  <1>8. v = IF w.stream[c].active = a THEN w ELSE IF a THEN switched ELSE told
    BY <1>3 DEF setActive
  <1>9. v \in Worlds
    BY setActiveTyped
  <1> HIDE DEF v
  <1>10. CASE v = w /\ w.stream[c].active = a
    BY <1>9, <1>10 DEF OnlyShown, SameButFrames, SameButShown, Follows, v
  <1>11. CASE v = switched /\ a
    <2>1. OnlyShown(v, w, c) /\ Follows(v, w, c)
      BY <1>4, <1>6, <1>11 DEF OnlyShown, SameButShown, Follows, Mirror
    <2> QED BY <1>4, <1>6, <1>9, <1>11, <2>1 DEF v
  <1>12. CASE v = told /\ ~a
    <2>1. /\ shown \in Worlds
          /\ shown.cameraStreams = w.cameraStreams /\ shown.handle = w.handle
          /\ shown.stream = emptied.stream
          /\ \A s \in Sinks : shown.sinkShows[s] =
                IF s \in w.stream[c].viewSinks /\ s \in liveSinks THEN None ELSE w.sinkShows[s]
      BY <1>7, ShowTyped, ShowParts
    <2> HIDE DEF shown
    <2>2. /\ v.cameraStreams = w.cameraStreams /\ v.stream = emptied.stream
          /\ v.sinkShows = shown.sinkShows
          /\ \A h \in Handles :
                  /\ SameButShown(v.handle[h], w.handle[h])
                  /\ v.handle[h].errorText = w.handle[h].errorText
                  /\ IF h \in q.handles /\ Exists(w, h)
                     THEN /\ v.handle[h].hasFrame = q.lastFrame
                          /\ v.handle[h].framesReceived = q.framesReceived
                     ELSE v.handle[h] = w.handle[h]
      BY <1>7, <1>12, <2>1, PublishFramesParts DEF Exists
    <2>3. OnlyShown(v, w, c) /\ Follows(v, w, c)
      BY <1>5, <1>7, <2>2 DEF OnlyShown, Follows, Mirror, SameButFrames
    <2>4. /\ v.stream[c].active = a /\ v.stream[c].errorText = w.stream[c].errorText
          /\ ~v.stream[c].lastFrame
      BY <1>5, <1>7, <1>12, <2>2
    <2>5. \A s \in Sinks : v.sinkShows[s] \in {w.sinkShows[s], None}
      BY <2>1, <2>2
    <2>6. \A s \in w.stream[c].viewSinks \cap liveSinks : v.sinkShows[s] = None
      BY <1>1, <2>1, <2>2 DEF StreamRecord
    <2> QED BY <1>9, <2>3, <2>4, <2>5, <2>6 DEF v
  <1> QED BY <1>8, <1>10, <1>11, <1>12

-----------------------------------------------------------------------------
(* For every client: how a capture stops *)

\* No capture stops from w to v.
StaysOn(v, w) == \A c \in Streams : w.stream[c].active => v.stream[c].active

\* Moreover streams keep their devices, and views at most go blank.
Quiet(v, w) == /\ StaysOn(v, w)
               /\ \A c \in Streams : v.stream[c].dev = w.stream[c].dev
               /\ \A s \in Sinks : v.sinkShows[s] \in {w.sinkShows[s], None}

LEMMA QuietTrans ==
  ASSUME NEW u, NEW v, NEW w, Quiet(u, v), Quiet(v, w)
  PROVE  Quiet(u, w)
  BY DEF Quiet, StaysOn

LEMMA SameCoreStaysOn ==
  ASSUME NEW v, NEW w, SameCore(v, w)
  PROVE  StaysOn(v, w) /\ \A c \in Streams : v.stream[c].dev = w.stream[c].dev
  BY DEF SameCore, SameStream, StaysOn

\* Dropping an unused stream, which is off.
LEMMA DropIfUnusedQuiet ==
  ASSUME NEW w \in Worlds, NEW d \in Devices, NEW c \in Streams,
         isUnused(w, c) => ~w.stream[c].active
  PROVE  Quiet(DropIfUnused(w, d, c), w)
  <1> DEFINE u == [w EXCEPT !.cameraStreams[d] = None]
             s == setActive(u, c, FALSE)
             t == [s EXCEPT !.stream[c].state = "doomed"]
  <1>1. CASE ~isUnused(w, c)
    BY <1>1 DEF DropIfUnused, Quiet, StaysOn
  <1>2. CASE isUnused(w, c)
    <2>1. DropIfUnused(w, d, c) = t
      BY <1>2 DEF DropIfUnused
    <2>2. u \in Worlds
      BY WithMapped
    <2>3. u.stream = w.stream /\ u.sinkShows = w.sinkShows
      BY DEF Worlds
    <2> HIDE DEF u
    <2>4. /\ s \in Worlds /\ OnlyShown(s, u, c) /\ s.stream[c].active = FALSE
          /\ \A x \in Sinks : s.sinkShows[x] \in {u.sinkShows[x], None}
      BY <2>2, setActiveParts
    <2> HIDE DEF s
    <2>5. /\ t.sinkShows = s.sinkShows
          /\ \A b \in Streams \ {c} : t.stream[b] = s.stream[b]
          /\ t.stream[c].active = s.stream[c].active /\ t.stream[c].dev = s.stream[c].dev
      BY <2>4 DEF Worlds, StreamRecord
    <2> HIDE DEF t
    <2> QED BY <1>2, <2>1, <2>3, <2>4, <2>5 DEF OnlyShown, SameButFrames, Quiet, StaysOn
  <1> QED BY <1>1, <1>2

LEMMA UnregisterQuiet ==
  ASSUME NEW w \in Worlds, CaptureInv(w), NEW h \in Handles, w.handle[h].state # "free"
  PROVE  Quiet(Unregister(w, h), w)
  <1> DEFINE d == w.handle[h].dev
             c == w.cameraStreams[d]
  <1>1. d \in Devices
    BY DEF CaptureInv, Linked
  <1>2. c \in Streams \cup {None}
    BY <1>1, Parts
  <1>3. CASE ~w.handle[h].registered
    BY <1>3 DEF Unregister, Quiet, StaysOn
  <1>4. CASE w.handle[h].registered /\ c = None
    <2>1. Unregister(w, h) = [w EXCEPT !.handle[h].registered = FALSE]
      BY <1>4 DEF Unregister, unregisterViewSink
    <2> QED BY <2>1 DEF Worlds, Quiet, StaysOn
  <1>5. CASE w.handle[h].registered /\ c # None
    <2> DEFINE left == [w EXCEPT !.stream[c].viewSinks = @ \ {ViewSink(w, h)},
                                 !.stream[c].handles = @ \ {h},
                                 !.handle[h].registered = FALSE]
               r == [w.stream[c] EXCEPT !.viewSinks = @ \ {ViewSink(w, h)}, !.handles = @ \ {h}]
               g == [w.handle[h] EXCEPT !.registered = FALSE]
               first == [w EXCEPT !.stream[c] = r]
    <2>1. c \in Streams
      BY <1>2, <1>5
    <2>2. unregisterViewSink(w, h) = DropIfUnused(left, d, c)
      BY <1>5 DEF unregisterViewSink
    <2> HIDE DEF c
    <2>3. r \in StreamRecord /\ g \in HandleRecord
      <3>1. r \in StreamRecord
        BY <2>1, Parts DEF StreamRecord
      <3>2. g \in HandleRecord
        BY Parts DEF HandleRecord
      <3> QED BY <3>1, <3>2
    <2>4. left = [first EXCEPT !.handle[h] = g]
      BY <2>1 DEF Worlds
    <2>5. /\ r.active = w.stream[c].active /\ r.dev = w.stream[c].dev
          /\ r.runningRefCount = w.stream[c].runningRefCount
      BY <2>1, Parts DEF StreamRecord
    <2> HIDE DEF r, g
    <2>6. /\ first \in Worlds /\ first.sinkShows = w.sinkShows
          /\ first.stream = [w.stream EXCEPT ![c] = r]
      BY <2>1, <2>3, WithStream DEF Worlds
    <2> HIDE DEF first, left
    <2>7. left \in Worlds /\ left.stream = first.stream /\ left.sinkShows = w.sinkShows
      BY <2>3, <2>4, <2>6, WithHandle DEF Worlds
    <2>8. /\ left.stream[c] = r
          /\ \A b \in Streams : left.stream[b].active = w.stream[b].active
                                /\ left.stream[b].dev = w.stream[b].dev
      BY <2>1, <2>5, <2>6, <2>7 DEF Worlds
    <2>9. w.stream[c].runningRefCount = 0 => ~w.stream[c].active
      <3>1. w.stream[c].state = "live"
        BY <1>1, <1>5 DEF CaptureInv, Linked, c
      <3>2. w.stream[c].active = (w.stream[c].runningRefCount > 0)
        BY <2>1, <3>1 DEF CaptureInv, Counted
      <3>3. (w.stream[c].runningRefCount = 0) => (w.stream[c].runningRefCount > 0) = FALSE
        OBVIOUS
      <3> QED BY <3>2, <3>3
    <2>10. isUnused(left, c) => ~left.stream[c].active
      BY <2>1, <2>5, <2>8, <2>9 DEF isUnused
    <2> DEFINE u == DropIfUnused(left, d, c)
    <2> HIDE DEF d
    <2>11. Quiet(u, left)
      BY <1>1, <2>1, <2>7, <2>10, DropIfUnusedQuiet
    <2>12. Quiet(u, w)
      BY <2>7, <2>8, <2>11 DEF Quiet, StaysOn
    <2>13. u \in Worlds
      BY <2>2, unregisterViewSinkInv
    <2> HIDE DEF u
    <2>14. Unregister(w, h) = [u EXCEPT !.handle[h].registered = FALSE]
      BY <1>5, <2>2 DEF Unregister, u
    <2> QED BY <2>12, <2>13, <2>14 DEF Worlds, Quiet, StaysOn
  <1> QED BY <1>2, <1>3, <1>4, <1>5

\* A stream may have been opened for d, in a free slot.
Opened(v, w, d, e) ==
    \/ v = w
    \/ \E c \in Streams : /\ w.stream[c].state = "free" /\ w.cameraStreams[d] = None
                          /\ v.cameraStreams = [w.cameraStreams EXCEPT ![d] = c]
                          /\ v.stream = [w.stream EXCEPT ![c] = NewStream("live", d, e)]
                          /\ v.handle = w.handle /\ v.sinkShows = w.sinkShows

LEMMA ensureStreamParts ==
  ASSUME NEW w \in Worlds, NEW d \in Devices, NEW e \in BackendTexts, Room(w, d)
  PROVE  LET v == ensureStreamForDeviceId(w, d, e) IN v \in Worlds /\ Opened(v, w, d, e)
  <1> DEFINE c == CHOOSE f \in FreeStreams(w) : TRUE
             u == [w EXCEPT !.cameraStreams[d] = c]
             v == [u EXCEPT !.stream[c] = NewStream("live", d, e)]
  <1>1. CASE w.cameraStreams[d] # None \/ d \notin plugged
    BY <1>1 DEF ensureStreamForDeviceId, Opened
  <1>2. CASE ~(w.cameraStreams[d] # None \/ d \notin plugged)
    <2>1. c \in Streams /\ w.stream[c].state = "free"
      BY <1>2 DEF Room, FreeStreams
    <2> HIDE DEF c
    <2>2. NewStream("live", d, e) \in StreamRecord
      BY DEF NewStream, StreamRecord
    <2>3. u \in Worlds
      BY <2>1, WithMapped
    <2>4. /\ u.stream = w.stream /\ u.handle = w.handle /\ u.sinkShows = w.sinkShows
          /\ u.cameraStreams = [w.cameraStreams EXCEPT ![d] = c]
      BY DEF Worlds
    <2>5. ensureStreamForDeviceId(w, d, e) = v
      BY <1>2 DEF ensureStreamForDeviceId, Worlds, c
    <2> HIDE DEF u
    <2>6. v \in Worlds
      BY <2>1, <2>2, <2>3, WithStream
    <2>7. /\ v.cameraStreams = u.cameraStreams /\ v.handle = u.handle /\ v.sinkShows = u.sinkShows
          /\ v.stream = [u.stream EXCEPT ![c] = NewStream("live", d, e)]
      BY <2>3 DEF Worlds
    <2> HIDE DEF v
    <2> QED BY <1>2, <2>1, <2>4, <2>5, <2>6, <2>7 DEF Opened
  <1> QED BY <1>1, <1>2

LEMMA OpenedStaysOn ==
  ASSUME NEW w \in Worlds, Linked(w), NEW v, NEW d, NEW e, Opened(v, w, d, e)
  PROVE  StaysOn(v, w)
  <1>1. CASE v = w
    BY <1>1 DEF StaysOn
  <1>2. ASSUME NEW c \in Streams, w.stream[c].state = "free",
               v.stream = [w.stream EXCEPT ![c] = NewStream("live", d, e)]
        PROVE  StaysOn(v, w)
    <2>1. ~w.stream[c].active
      BY <1>2 DEF Linked
    <2>2. \A b \in Streams \ {c} : v.stream[b] = w.stream[b]
      BY <1>2 DEF Worlds
    <2> QED BY <2>1, <2>2 DEF StaysOn
  <1> QED BY <1>1, <1>2 DEF Opened

\* The end of setHandleRunning(): only c may go off, when the count goes down, and then its
\* views go blank.
LEMMA CountAndSwitchParts ==
  ASSUME NEW w \in Worlds, NEW d \in Devices, NEW c \in Streams, NEW r \in BOOLEAN
  PROVE  LET u == incrementRunningRefCount(w, c, r)
             z == DropIfUnused(setActive(u, c, u.stream[c].runningRefCount > 0), d, c)
         IN /\ \A b \in Streams : z.stream[b].dev = w.stream[b].dev
            /\ \A b \in Streams : w.stream[b].active /\ (b # c \/ r) => z.stream[b].active
            /\ \A s \in Sinks : z.sinkShows[s] \in {w.sinkShows[s], None}
            /\ w.stream[c].active /\ ~z.stream[c].active =>
                  \A s \in w.stream[c].viewSinks \cap liveSinks : z.sinkShows[s] = None
  <1> DEFINE u == incrementRunningRefCount(w, c, r)
             n == u.stream[c].runningRefCount
             a == n > 0
             y == setActive(u, c, a)
             z == DropIfUnused(y, d, c)
  <1>1. u \in Worlds
    BY incrementRunningRefCountTyped
  <1>2. /\ u.sinkShows = w.sinkShows
        /\ \A b \in Streams : /\ u.stream[b].dev = w.stream[b].dev
                              /\ u.stream[b].active = w.stream[b].active
                              /\ u.stream[b].viewSinks = w.stream[b].viewSinks
        /\ u.stream[c].runningRefCount = NextCount(w.stream[c].runningRefCount, r)
    BY DEF incrementRunningRefCount, Worlds, StreamRecord, NextCount
  <1>3. n \in Nat /\ w.stream[c].runningRefCount \in Nat
    BY <1>1, Parts DEF StreamRecord
  <1>4. r => a
    BY <1>2, <1>3 DEF NextCount
  <1> HIDE DEF u
  <1>5. a \in BOOLEAN /\ (n = 0 => a = FALSE)
    OBVIOUS
  <1> HIDE DEF a
  <1>6. /\ y \in Worlds /\ OnlyShown(y, u, c) /\ y.stream[c].active = a
        /\ \A s \in Sinks : y.sinkShows[s] \in {u.sinkShows[s], None}
        /\ u.stream[c].active /\ ~a =>
              \A s \in u.stream[c].viewSinks \cap liveSinks : y.sinkShows[s] = None
    BY <1>1, <1>5, setActiveParts
  <1> HIDE DEF y
  <1>7. isUnused(y, c) => ~y.stream[c].active
    <2>1. y.stream[c].runningRefCount = n
      BY <1>6 DEF OnlyShown, SameButFrames
    <2> QED BY <1>5, <1>6, <2>1 DEF isUnused
  <1>8. Quiet(z, y)
    BY <1>6, <1>7, DropIfUnusedQuiet
  <1> HIDE DEF z
  <1>9. \A b \in Streams : z.stream[b].dev = w.stream[b].dev
    BY <1>2, <1>6, <1>8 DEF Quiet, OnlyShown, SameButFrames
  <1>10. \A b \in Streams : w.stream[b].active /\ (b # c \/ r) => z.stream[b].active
    BY <1>2, <1>4, <1>6, <1>8 DEF Quiet, StaysOn, OnlyShown
  <1>11. \A s \in Sinks : z.sinkShows[s] \in {w.sinkShows[s], None}
    BY <1>2, <1>6, <1>8 DEF Quiet
  <1>12. ASSUME w.stream[c].active, ~z.stream[c].active, NEW s \in w.stream[c].viewSinks \cap liveSinks
         PROVE  z.sinkShows[s] = None
    <2>1. ~a /\ u.stream[c].active
      BY <1>2, <1>6, <1>8, <1>12 DEF Quiet, StaysOn
    <2>2. s \in Sinks /\ s \in u.stream[c].viewSinks
      BY <1>2, Parts DEF StreamRecord
    <2>3. y.sinkShows[s] = None
      BY <1>6, <2>1, <2>2
    <2> QED BY <1>8, <2>2, <2>3 DEF Quiet
  <1> QED BY <1>9, <1>10, <1>11, <1>12 DEF z, y, a, u

\* From w to v the capture of c stops, because h ran it and stops, and its views go blank.
StoppedBy(v, w, h, c) ==
    /\ w.handle[h].running /\ w.handle[h].dev = w.stream[c].dev
    /\ \A s \in w.stream[c].viewSinks \cap liveSinks : v.sinkShows[s] = None

LEMMA setRunningStops ==
  ASSUME NEW w \in Worlds, CaptureInv(w), NEW h \in Handles, NEW r \in BOOLEAN,
         NEW e \in BackendTexts, w.handle[h].state # "free",
         r => Room(w, w.handle[h].dev)
  PROVE  LET v == setRunning(w, h, r, e)
         IN /\ r => StaysOn(v, w)
            /\ ~r => /\ \A c \in Streams : v.stream[c].dev = w.stream[c].dev
                     /\ \A s \in Sinks : v.sinkShows[s] \in {w.sinkShows[s], None}
                     /\ \A c \in Streams : w.stream[c].active /\ ~v.stream[c].active =>
                                              StoppedBy(v, w, h, c)
  <1> DEFINE d == w.handle[h].dev
             u == [w EXCEPT !.handle[h].running = r]
             v == IF r THEN ensureStreamForDeviceId(u, d, e) ELSE u
             c == v.cameraStreams[d]
             x == incrementRunningRefCount(v, c, r)
             z == DropIfUnused(setActive(x, c, x.stream[c].runningRefCount > 0), d, c)
  <1>1. CASE w.handle[h].running = r
    BY <1>1 DEF setRunning, StaysOn
  <1>2. CASE w.handle[h].running # r
    <2>1. d \in Devices
      BY DEF CaptureInv, Linked
    <2>2. u \in Worlds
      <3> DEFINE g == [w.handle[h] EXCEPT !.running = r]
      <3>1. g \in HandleRecord
        BY Parts DEF HandleRecord
      <3>2. [w EXCEPT !.handle[h] = g] \in Worlds
        BY <3>1, WithHandle
      <3> QED BY <3>2
    <2>3. /\ u.stream = w.stream /\ u.cameraStreams = w.cameraStreams
          /\ u.sinkShows = w.sinkShows /\ u.handle[h].dev = d
      BY Parts DEF Worlds, HandleRecord
    <2>4. setRunning(w, h, r, e) = IF c # None THEN z
                                   ELSE IF r THEN [v EXCEPT !.handle[h].errorText = Unavailable]
                                   ELSE v
      <3>1. setRunning(w, h, r, e) = setHandleRunning(u, h, r, e)
        BY <1>2 DEF setRunning
      <3> HIDE DEF u
      <3> QED BY <2>3, <3>1 DEF setHandleRunning
    <2> HIDE DEF u
    <2>5. v \in Worlds /\ Opened(v, u, d, e)
      <3>1. CASE r
        <4>1. Room(u, d)
          BY <2>3, <3>1 DEF Room, FreeStreams
        <4> QED BY <2>1, <2>2, <3>1, <4>1, ensureStreamParts
      <3>2. CASE ~r
        BY <2>2, <3>2 DEF Opened
      <3> QED BY <3>1, <3>2
    <2>6. Linked(u)
      BY <2>2, <2>3 DEF CaptureInv, Linked, u, Worlds, HandleRecord
    <2>7. StaysOn(v, w)
      BY <2>2, <2>3, <2>5, <2>6, OpenedStaysOn DEF StaysOn
    <2>8. ~r => v = u
      OBVIOUS
    <2> HIDE DEF v
    <2>9. c \in Streams \cup {None}
      BY <2>1, <2>5, Parts
    <2>10. CASE c = None
      <3>1. setRunning(w, h, r, e) \in {v, [v EXCEPT !.handle[h].errorText = Unavailable]}
        BY <2>4, <2>10
      <3>2. /\ setRunning(w, h, r, e).stream = v.stream
            /\ setRunning(w, h, r, e).sinkShows = v.sinkShows
        BY <2>5, <3>1 DEF Worlds
      <3> QED BY <2>3, <2>7, <2>8, <3>2 DEF StaysOn
    <2>11. CASE c # None
      <3>1. c \in Streams
        BY <2>9, <2>11
      <3> DEFINE n == v.cameraStreams[d]
      <3>2. /\ \A b \in Streams : z.stream[b].dev = v.stream[b].dev
            /\ \A b \in Streams : v.stream[b].active /\ (b # c \/ r) => z.stream[b].active
            /\ \A s \in Sinks : z.sinkShows[s] \in {v.sinkShows[s], None}
            /\ v.stream[c].active /\ ~z.stream[c].active =>
                  \A s \in v.stream[c].viewSinks \cap liveSinks : z.sinkShows[s] = None
        <4> HIDE DEF c
        <4> QED BY <2>1, <2>5, <3>1, CountAndSwitchParts
      <3>3. setRunning(w, h, r, e) = z
        BY <2>4, <2>11
      <3> HIDE DEF z
      <3>4. CASE r
        BY <2>7, <3>2, <3>3, <3>4 DEF StaysOn
      <3>5. CASE ~r
        <4>1. w.handle[h].running
          BY <1>2, <3>5, Parts DEF HandleRecord
        <4>2. w.stream[c].dev = d
          BY <2>1, <2>3, <2>8, <2>11, <3>5 DEF CaptureInv, Linked
        <4> QED BY <2>3, <2>8, <3>2, <3>3, <3>5, <4>1, <4>2 DEF StoppedBy
      <3> QED BY <3>4, <3>5
    <2> QED BY <2>10, <2>11
  <1> QED BY <1>1, <1>2

\* Taking a view away is quiet; giving one stops nothing either.
LEMMA setViewSinkStaysOn ==
  ASSUME NEW w \in Worlds, CaptureInv(w), NEW h \in Handles, NEW e \in BackendTexts,
         NEW s \in Sinks \cup {None}, w.handle[h].state # "free", CanAttach(w, h, s)
  PROVE  LET v == setViewSink(w, h, s, e)
         IN StaysOn(v, w) /\ (s = None => Quiet(v, w))
  <1> DEFINE u == Unregister(w, h)
             v == [u EXCEPT !.handle[h].viewSink = s]
  <1>1. /\ u \in Worlds /\ CaptureInv(u) /\ SameHandles(u, w) /\ Quiet(u, w)
        /\ FreeStreams(w) \subseteq FreeStreams(u)
    BY UnregisterInv, UnregisterQuiet
  <1>2. ~w.handle[h].registered => u = w
    BY DEF Unregister
  <1>3. setViewSink(w, h, s, e) = IF ViewSink(w, h) = s THEN w
                                  ELSE IF s # None THEN registerViewSink(v, h, e) ELSE v
    BY DEF setViewSink
  <1> HIDE DEF u
  <1>4. /\ v \in Worlds /\ SameCore(v, u) /\ v.handle[h].viewSink = s
        /\ v.stream = u.stream /\ v.sinkShows = u.sinkShows
    <2> DEFINE g == [u.handle[h] EXCEPT !.viewSink = s]
    <2>1. /\ g \in HandleRecord
          /\ g.state = u.handle[h].state /\ g.dev = u.handle[h].dev
          /\ g.running = u.handle[h].running /\ g.viewSink = s
      BY <1>1, Parts DEF HandleRecord
    <2>2. v = [u EXCEPT !.handle[h] = g] /\ v.sinkShows = u.sinkShows
      BY <1>1 DEF Worlds
    <2> HIDE DEF g
    <2> QED BY <1>1, <2>1, <2>2, SameHandle
  <1> HIDE DEF v
  <1>5. Quiet(v, w) /\ CaptureInv(v) /\ SameHandles(v, w)
    BY <1>1, <1>4, SameCoreInv DEF Quiet, StaysOn, SameCore, SameHandles
  <1>6. CASE s = None \/ ViewSink(w, h) = s
    BY <1>3, <1>5, <1>6 DEF Quiet, StaysOn
  <1>7. CASE s # None /\ ViewSink(w, h) # s
    <2> DEFINE d == v.handle[h].dev
               o == ensureStreamForDeviceId(v, d, e)
               c == o.cameraStreams[d]
               k == o.handle[h].viewSink
               b == addViewSink(addHandle(o, c, h), c, k)
    <2>1. d \in Devices /\ v.handle[h].state # "free" /\ w.handle[h].dev = d
      BY <1>5 DEF CaptureInv, Linked, SameHandles
    <2>2. Room(v, d)
      BY <1>1, <1>2, <1>4, <1>7, <2>1 DEF CanAttach, Room, FreeStreams, SameCore
    <2>3. o \in Worlds /\ Opened(o, v, d, e)
      BY <1>4, <2>1, <2>2, ensureStreamParts
    <2>4. StaysOn(o, v)
      BY <1>4, <1>5, <2>3, OpenedStaysOn DEF CaptureInv
    <2>5. setViewSink(w, h, s, e) = IF c # None THEN [b EXCEPT !.handle[h].registered = TRUE]
                                    ELSE [o EXCEPT !.handle[h].errorText = Unavailable]
      BY <1>3, <1>7 DEF registerViewSink
    <2>6. o.handle = v.handle
      BY <2>3 DEF Opened
    <2> HIDE DEF o
    <2>7. CASE c = None
      <3>1. setViewSink(w, h, s, e).stream = o.stream
        BY <2>3, <2>5, <2>7 DEF Worlds
      <3> QED BY <1>5, <1>7, <2>4, <3>1 DEF Quiet, StaysOn
    <2>8. CASE c # None
      <3>1. c \in Streams /\ k \in Sinks
        BY <1>4, <1>7, <2>1, <2>3, <2>6, <2>8, Parts
      <3> HIDE DEF c, k, d
      <3>2. addHandle(o, c, h) \in Worlds /\ SameCore(addHandle(o, c, h), o)
        BY <2>3, <3>1, addHandleTyped, addHandleCore
      <3>3. b \in Worlds /\ SameCore(b, addHandle(o, c, h))
        BY <3>1, <3>2, addViewSinkTyped, addViewSinkCore
      <3>4. StaysOn(b, o)
        BY <3>2, <3>3, SameCoreStaysOn DEF StaysOn
      <3> HIDE DEF b
      <3>5. setViewSink(w, h, s, e).stream = b.stream
        BY <2>5, <2>8, <3>3 DEF Worlds
      <3> QED BY <1>5, <1>7, <2>4, <3>4, <3>5 DEF Quiet, StaysOn
    <2> QED BY <2>7, <2>8
  <1> QED BY <1>6, <1>7

\* What stops from w to v stops because of h, which does not run any more.
HandleStops(v, w, h) ==
    \A c \in Streams : w.stream[c].active /\ ~v.stream[c].active =>
        /\ h \in RunnersIn(w, w.stream[c].dev)
        /\ \A d : h \notin RunnersIn(v, d)
        /\ \A s \in w.stream[c].viewSinks \cap liveSinks : v.sinkShows[s] = None

\* h stops running, then what follows is quiet.
LEMMA StopsThenQuiet ==
  ASSUME NEW w \in Worlds, CaptureInv(w), NEW h \in Handles, w.handle[h].state # "free",
         NEW v, Quiet(v, setRunning(w, h, FALSE, "")),
         ~v.handle[h].running
  PROVE  HandleStops(v, w, h)
  <1> DEFINE u == setRunning(w, h, FALSE, "")
  <1>1. /\ \A s \in Sinks : u.sinkShows[s] \in {w.sinkShows[s], None}
        /\ \A c \in Streams : w.stream[c].active /\ ~u.stream[c].active => StoppedBy(u, w, h, c)
    BY setRunningStops DEF BackendTexts
  <1> HIDE DEF u
  <1>2. ASSUME NEW c \in Streams, w.stream[c].active, ~v.stream[c].active
        PROVE  StoppedBy(v, w, h, c)
    <2>1. StoppedBy(u, w, h, c)
      BY <1>1, <1>2 DEF Quiet, StaysOn, u
    <2>2. w.stream[c].viewSinks \subseteq Sinks
      BY Parts DEF StreamRecord
    <2> QED BY <2>1, <2>2 DEF StoppedBy, Quiet, u
  <1> QED BY <1>2 DEF StoppedBy, HandleStops, RunnersIn

LEMMA closeStops ==
  ASSUME NEW w \in Worlds, CaptureInv(w), NEW h \in Handles, w.handle[h].state # "free"
  PROVE  HandleStops(close(w, h), w, h)
  <1> DEFINE u == setRunning(w, h, FALSE, "")
             v == setViewSink(u, h, None, "")
  <1>1. u \in Worlds /\ CaptureInv(u) /\ OnlyRunning(u, w, h, FALSE)
    BY setRunningInv DEF BackendTexts
  <1> HIDE DEF u
  <1>2. u.handle[h].state # "free" /\ ~u.handle[h].running
    BY <1>1 DEF OnlyRunning
  <1>3. v \in Worlds /\ SameHandles(v, u) /\ Quiet(v, u)
    BY <1>1, <1>2, setViewSinkInv, setViewSinkStaysOn DEF CanAttach, BackendTexts
  <1> HIDE DEF v
  <1>4. /\ close(w, h).stream = v.stream /\ close(w, h).sinkShows = v.sinkShows
        /\ close(w, h).handle[h].running = v.handle[h].running
    <2> DEFINE g == [v.handle[h] EXCEPT !.state = "closing"]
               x == [v EXCEPT !.handle[h] = g]
    <2>1. g.running = v.handle[h].running
      BY <1>3, Parts DEF HandleRecord
    <2>2. close(w, h) = x
      BY DEF close, u, v
    <2> HIDE DEF g
    <2>3. x.stream = v.stream /\ x.sinkShows = v.sinkShows /\ x.handle[h] = g
      BY <1>3 DEF Worlds
    <2> QED BY <2>1, <2>2, <2>3
  <1>5. Quiet(close(w, h), u) /\ ~close(w, h).handle[h].running
    BY <1>2, <1>3, <1>4 DEF Quiet, StaysOn, SameHandles
  <1> QED BY <1>5, StopsThenQuiet DEF u

LEMMA destroyHandleStops ==
  ASSUME NEW w \in Worlds, CaptureInv(w), NEW h \in Handles, w.handle[h].state # "free"
  PROVE  HandleStops(destroyHandle(w, h), w, h)
  <1> DEFINE u == setRunning(w, h, FALSE, "")
             v == Unregister(u, h)
  <1>1. u \in Worlds /\ CaptureInv(u) /\ OnlyRunning(u, w, h, FALSE)
    BY setRunningInv DEF BackendTexts
  <1> HIDE DEF u
  <1>2. u.handle[h].state # "free"
    BY <1>1 DEF OnlyRunning
  <1>3. v \in Worlds /\ Quiet(v, u)
    BY <1>1, <1>2, UnregisterInv, UnregisterQuiet
  <1> HIDE DEF v
  <1>4. /\ destroyHandle(w, h).stream = v.stream /\ destroyHandle(w, h).sinkShows = v.sinkShows
        /\ ~destroyHandle(w, h).handle[h].running
    BY <1>3 DEF destroyHandle, Worlds, NewHandle, u, v
  <1>5. Quiet(destroyHandle(w, h), u) /\ ~destroyHandle(w, h).handle[h].running
    BY <1>3, <1>4 DEF Quiet, StaysOn
  <1> QED BY <1>5, StopsThenQuiet DEF u

\* The same of a step: what stops is stopped by a handle.
Stops == \A c \in Streams : stream[c].active /\ ~stream'[c].active =>
             /\ \E h \in Handles : h \in Runners(stream[c].dev) /\ h \notin Runners(stream[c].dev)'
             /\ \A s \in stream[c].viewSinks \cap liveSinks : sinkShows'[s] = None

LEMMA HandleStopsStep ==
  ASSUME NEW h \in Handles, HandleStops(World', World, h)
  PROVE  Stops
  <1>1. \A d : RunnersIn(World, d) = Runners(d) /\ RunnersIn(World', d) = Runners(d)'
    BY DEF RunnersIn, Runners, World
  <1>2. World.stream = stream /\ World'.stream = stream' /\ World'.sinkShows = sinkShows'
    BY DEF World
  <1> QED BY <1>1, <1>2 DEF HandleStops, Stops

LEMMA StaysOnStep ==
  ASSUME StaysOn(World', World)
  PROVE  Stops
  BY DEF StaysOn, Stops, World

\* A frame, posted or delivered, switches nothing.
LEMMA FrameSwitches ==
  ASSUME World \in Worlds, NEW c \in Streams, BackendFrame(c) \/ DeliverFrame(c)
  PROVE  \A b \in Streams : stream'[b].active = stream[b].active
  <1>1. ASSUME NEW w \in Worlds, SameCore(w, World), Become(onVideoFrameChanged(w, c))
        PROVE  \A b \in Streams : stream'[b].active = stream[b].active
    <2>1. onVideoFrameChanged(w, c) \in Worlds /\ SameCore(onVideoFrameChanged(w, c), w)
      BY <1>1, onVideoFrameChangedTyped, onVideoFrameChangedCore
    <2>2. SameCore(World', World)
      BY <1>1, <2>1, BecomeWorld, SameCoreTrans
    <2> QED BY <2>2 DEF SameCore, SameStream, World
  <1>2. World.stream[c].pending \in Nat
    BY Parts DEF StreamRecord
  <1>3. CASE BackendFrame(c) /\ QueuedDelivery
    <2>1. stream' = [World.stream EXCEPT ![c].pending = @ + 1]
      BY <1>3 DEF BackendFrame, World
    <2> QED BY <2>1 DEF Worlds, StreamRecord, World
  <1>4. CASE BackendFrame(c) /\ ~QueuedDelivery
    <2>1. SameCore(World, World)
      BY DEF SameCore, SameStream, SameHandles
    <2> QED BY <1>1, <1>4, <2>1 DEF BackendFrame
  <1>5. CASE DeliverFrame(c)
    <2> DEFINE w == [World EXCEPT !.stream[c].pending = World.stream[c].pending - 1]
    <2>1. World.stream[c].pending - 1 \in Nat /\ Become(onVideoFrameChanged(w, c))
      BY <1>2, <1>5 DEF DeliverFrame, World
    <2>2. w \in Worlds /\ SameCore(w, World)
      BY <2>1, PendingCore
    <2> QED BY <1>1, <2>1, <2>2
  <1> QED BY <1>3, <1>4, <1>5

\* The step of any action.
LEMMA StepStops == Inv /\ [Next]_vars => Stops
  <1> SUFFICES ASSUME Inv, [Next]_vars PROVE Stops
    OBVIOUS
  <1>1. World \in Worlds /\ CaptureInv(World)
    BY WorldTyped DEF Inv
  <1>2. World' \in Worlds /\ CaptureInv(World')
    BY StepInv, WorldTyped DEF Inv, TypeOK, World, Worlds
  <1>3. ASSUME stream' = stream PROVE Stops
    BY <1>3 DEF Stops
  <1>4. ASSUME NEW h \in Handles, NEW d \in Devices, Acquire(h, d) PROVE Stops
    <2>1. stream' = World.stream
      BY <1>1, <1>4 DEF Acquire, Become, acquireCameraPreviewHandle, Worlds
    <2> QED BY <1>3, <2>1 DEF World
  <1>5. ASSUME NEW h \in Handles, NEW s \in liveSinks \cup {None}, SetViewSink(h, s) PROVE Stops
    <2>1. World.handle[h].state # "free" /\ s \in Sinks \cup {None}
      BY <1>5 DEF SetViewSink, World, Inv, TypeOK
    <2>2. CanAttach(World, h, s)
      BY <1>5, RoomForStreamIsRoom DEF SetViewSink, CanAttach, World
    <2>3. PICK e \in BackendTexts : Become(setViewSink(World, h, s, e))
      BY <1>5 DEF SetViewSink
    <2>4. setViewSink(World, h, s, e) \in Worlds /\ StaysOn(setViewSink(World, h, s, e), World)
      BY <1>1, <2>1, <2>2, setViewSinkInv, setViewSinkStaysOn
    <2> QED BY <2>3, <2>4, BecomeWorld, StaysOnStep
  <1>6. ASSUME NEW h \in Handles, NEW r \in BOOLEAN, SetRunning(h, r) PROVE Stops
    <2>1. World.handle[h].state # "free"
      BY <1>6 DEF SetRunning, World
    <2>2. r => Room(World, World.handle[h].dev)
      BY <1>6, RoomForStreamIsRoom DEF SetRunning, World
    <2>3. PICK e \in BackendTexts : Become(setRunning(World, h, r, e))
      BY <1>6 DEF SetRunning
    <2> DEFINE v == setRunning(World, h, r, e)
    <2>4. /\ v \in Worlds /\ OnlyRunning(v, World, h, r)
          /\ r => StaysOn(v, World)
          /\ ~r => \A c \in Streams : World.stream[c].active /\ ~v.stream[c].active =>
                                         StoppedBy(v, World, h, c)
      BY <1>1, <2>1, <2>2, setRunningInv, setRunningStops
    <2>5. World' = v
      BY <2>3, <2>4, BecomeWorld
    <2> HIDE DEF v
    <2>6. ~r => HandleStops(v, World, h)
      BY <2>1, <2>4 DEF HandleStops, StoppedBy, OnlyRunning, RunnersIn
    <2> QED BY <2>4, <2>5, <2>6, StaysOnStep, HandleStopsStep
  <1>7. ASSUME NEW h \in Handles, Close(h) PROVE Stops
    <2>1. World.handle[h].state # "free" /\ Become(close(World, h))
      BY <1>7 DEF Close, World
    <2> QED BY <1>1, <2>1, closeInv, closeStops, BecomeWorld, HandleStopsStep
  <1>8. ASSUME NEW h \in Handles, DestroyHandle(h) PROVE Stops
    <2>1. World.handle[h].state # "free" /\ Become(destroyHandle(World, h))
      BY <1>8 DEF DestroyHandle, World
    <2> QED BY <1>1, <2>1, destroyHandleInv, destroyHandleStops, BecomeWorld, HandleStopsStep
  <1>9. ASSUME NEW c \in Streams, DestroyStream(c) PROVE Stops
    <2>1. ~stream[c].active
      BY <1>1, <1>9 DEF DestroyStream, CaptureInv, Linked, World
    <2>2. \A b \in Streams \ {c} : stream'[b] = stream[b]
      BY <1>9 DEF DestroyStream, Inv, TypeOK
    <2> QED BY <2>1, <2>2 DEF Stops
  <1>10. ASSUME NEW c \in Streams, BackendFrame(c) \/ DeliverFrame(c) PROVE Stops
    <2>1. \A b \in Streams : stream'[b].active = stream[b].active
      BY <1>1, <1>10, FrameSwitches
    <2> QED BY <2>1 DEF Stops
  <1>11. ASSUME NEW c \in Streams, NEW t \in BackendTexts, BackendErrorText(c, t) PROVE Stops
    <2>1. /\ onBackendErrorTextChanged(World, c, t) \in Worlds
          /\ SameCore(onBackendErrorTextChanged(World, c, t), World)
      BY <1>1, onBackendErrorTextChangedTyped, onBackendErrorTextChangedCore
    <2>2. World' = onBackendErrorTextChanged(World, c, t)
      BY <1>11, <2>1, BecomeWorld DEF BackendErrorText
    <2> QED BY <2>1, <2>2, SameCoreStaysOn, StaysOnStep
  <1>12. ASSUME NEW s \in Sinks, DestroySink(s) PROVE Stops
    BY <1>3, <1>12 DEF DestroySink
  <1>13. ASSUME NEW d \in Devices, Plug(d) \/ Unplug(d) PROVE Stops
    <2>1. \A c \in Streams : stream'[c] \in {stream[c], [stream[c] EXCEPT !.lost = TRUE]}
      BY <1>13 DEF Plug, Unplug
    <2>2. \A c \in Streams : stream'[c].active = stream[c].active
      BY <2>1 DEF Inv, TypeOK, StreamRecord
    <2> QED BY <2>2 DEF Stops
  <1>14. CASE UNCHANGED vars
    BY <1>3, <1>14 DEF vars
  <1> QED BY <1>4, <1>5, <1>6, <1>7, <1>8, <1>9, <1>10, <1>11, <1>12, <1>13, <1>14 DEF Next

\* A capture stops only in a step in which a handle of its device, that ran it, stops running:
\* no error, view, frame or device takes it away, for any client.
THEOREM StopsByAStop == Spec => CaptureStopsByAStop
  <1>1. Stops => \A c \in Streams : stream[c].active /\ ~stream'[c].active =>
                    \E h \in Handles : h \in Runners(stream[c].dev) /\ h \notin Runners(stream[c].dev)'
    BY DEF Stops
  <1>2. Inv /\ [Next]_vars =>
           [\A c \in Streams : stream[c].active /\ ~stream'[c].active =>
              \E h \in Handles : h \in Runners(stream[c].dev) /\ h \notin Runners(stream[c].dev)']_vars
    BY <1>1, StepStops
  <1> QED BY <1>2, Invariant, PTL DEF Spec, CaptureStopsByAStop

\* And it leaves no picture behind in the views its stream listed, for any client.
THEOREM StopBlanks == Spec => StopBlanksViews
  <1>1. Inv /\ [Next]_vars =>
           [\A c \in Streams : stream[c].active /\ ~stream'[c].active =>
              \A s \in stream[c].viewSinks \cap liveSinks : sinkShows'[s] = None]_vars
    BY StepStops DEF Stops
  <1> QED BY <1>1, Invariant, PTL DEF Spec, StopBlanksViews
-----------------------------------------------------------------------------
(* The invariant of the contract, a statement about a World.               *)

\* The handle h is attached to the stream c.
On(w, h, c) == w.handle[h].registered /\ w.cameraStreams[w.handle[h].dev] = c

\* Each sink has one handle at most, and outlives it; what is attached has a sink.
Owned(w) ==
    /\ \A h \in Handles :
          /\ w.handle[h].viewSink \in liveSinks \cup {None}
          /\ w.handle[h].state = "free" => ~w.handle[h].registered /\ w.handle[h].viewSink = None
          /\ w.handle[h].registered => w.handle[h].viewSink # None
    /\ \A g, h \in Handles : w.handle[g].viewSink = w.handle[h].viewSink =>
          g = h \/ w.handle[h].viewSink = None

\* The stream c lists the handles attached to it, and their sinks.
Lists(w, c) ==
    /\ \A h \in Handles : h \in w.stream[c].handles <=> On(w, h, c)
    /\ \A s \in Sinks : s \in w.stream[c].viewSinks <=>
                           \E h \in Handles : On(w, h, c) /\ w.handle[h].viewSink = s

\* An attached handle mirrors its stream, and its sink shows no other camera's picture.
Mirrors(w, h) ==
    w.handle[h].registered =>
        LET c == w.cameraStreams[w.handle[h].dev]
        IN /\ c # None /\ Mirror(w, h, c)
           /\ w.stream[c].lastFrame =>
                 w.sinkShows[w.handle[h].viewSink] \in {None, w.handle[h].dev}

Attached(w) == /\ Owned(w)
               /\ \A c \in Streams : Lists(w, c)
               /\ \A h \in Handles : Mirrors(w, h)

\* A stream in the map is used.
InUse(w, c) == w.stream[c].state = "live" => ~isUnused(w, c)

ViewsInv(w) == Attached(w) /\ \A c \in Streams : InUse(w, c)

\* The sinks from w to v: blank, or as before, or given a picture by c, which lists them.
Pictures(v, w, c) ==
    \A s \in Sinks :
        \/ v.sinkShows[s] = None
        \/ /\ v.sinkShows[s] = w.sinkShows[s]
           /\ s \in w.stream[c].viewSinks => (v.stream[c].lastFrame => w.stream[c].lastFrame)
        \/ v.sinkShows[s] = w.stream[c].dev /\ s \in w.stream[c].viewSinks

\* Handles other than h keep their use, and what is not attached is left alone.
Kept(v, w, g) == /\ SameButShown(v.handle[g], w.handle[g])
                 /\ ~w.handle[g].registered => v.handle[g] = w.handle[g]

Beside(v, w, h) == \A g \in Handles \ {h} : Kept(v, w, g)

LEMMA BesideTrans ==
  ASSUME NEW u, NEW v, NEW w, NEW h, Beside(u, v, h), Beside(v, w, h)
  PROVE  Beside(u, w, h)
  BY DEF Beside, Kept, SameButShown

\* A World with one stream, or one handle, replaced.
LEMMA WithStreamParts ==
  ASSUME NEW w \in Worlds, NEW c \in Streams, NEW r \in StreamRecord
  PROVE  LET v == [w EXCEPT !.stream[c] = r]
         IN /\ v \in Worlds /\ v.cameraStreams = w.cameraStreams
            /\ v.handle = w.handle /\ v.sinkShows = w.sinkShows
            /\ v.stream[c] = r /\ \A b \in Streams \ {c} : v.stream[b] = w.stream[b]
  <1>1. [w EXCEPT !.stream[c] = r] \in Worlds
    BY WithStream
  <1> QED BY <1>1 DEF Worlds

LEMMA WithHandleParts ==
  ASSUME NEW w \in Worlds, NEW h \in Handles, NEW r \in HandleRecord
  PROVE  LET v == [w EXCEPT !.handle[h] = r]
         IN /\ v \in Worlds /\ v.cameraStreams = w.cameraStreams
            /\ v.stream = w.stream /\ v.sinkShows = w.sinkShows
            /\ v.handle[h] = r /\ \A g \in Handles \ {h} : v.handle[g] = w.handle[g]
  <1>1. [w EXCEPT !.handle[h] = r] \in Worlds
    BY WithHandle
  <1> QED BY <1>1 DEF Worlds

\* Half of Linked, which holds also while a stream is being dropped.
Mapped(w) ==
    /\ \A d \in Devices : w.cameraStreams[d] # None =>
          /\ w.stream[w.cameraStreams[d]].state = "live"
          /\ w.stream[w.cameraStreams[d]].dev = d
    /\ \A h \in Handles : w.handle[h].state # "free" => w.handle[h].dev \in Devices

LEMMA LinkedMapped ==
  ASSUME NEW w, Linked(w)
  PROVE  Mapped(w)
  BY DEF Linked, Mapped

\* In a mapped stream, device and stream name each other.
LEMMA OnStream ==
  ASSUME NEW w \in Worlds, Mapped(w), Attached(w), NEW h \in Handles, w.handle[h].registered
  PROVE  LET c == w.cameraStreams[w.handle[h].dev]
         IN /\ w.handle[h].state # "free" /\ w.handle[h].dev \in Devices
            /\ c \in Streams /\ w.stream[c].state = "live" /\ w.stream[c].dev = w.handle[h].dev
            /\ h \in w.stream[c].handles
            /\ w.handle[h].viewSink \in Sinks /\ w.handle[h].viewSink \in w.stream[c].viewSinks
            /\ w.handle[h].viewSink \in liveSinks
            /\ \A b \in Streams \ {c} : h \notin w.stream[b].handles
  <1> DEFINE d == w.handle[h].dev
             c == w.cameraStreams[d]
  <1>1. w.handle[h].state # "free" /\ d \in Devices
    BY DEF Attached, Owned, Mapped
  <1>2. c \in Streams /\ c # None
    BY <1>1, Parts DEF Attached, Mirrors
  <1>3. w.stream[c].state = "live" /\ w.stream[c].dev = d
    BY <1>1, <1>2 DEF Mapped
  <1>4. w.handle[h].viewSink \in Sinks /\ w.handle[h].viewSink \in liveSinks
    BY Parts DEF HandleRecord, Attached, Owned
  <1>5. h \in w.stream[c].handles /\ \A b \in Streams \ {c} : h \notin w.stream[b].handles
    BY <1>2 DEF Attached, Lists, On
  <1>6. w.handle[h].viewSink \in w.stream[c].viewSinks
    BY <1>2, <1>4 DEF Attached, Lists, On
  <1> QED BY <1>1, <1>2, <1>3, <1>4, <1>5, <1>6

\* What is only shown disturbs no list, and keeps every mirror.
LEMMA ShownViews ==
  ASSUME NEW w \in Worlds, NEW v \in Worlds, Mapped(w), Attached(w), NEW c \in Streams,
         OnlyShown(v, w, c), Follows(v, w, c), Pictures(v, w, c)
  PROVE  /\ Attached(v) /\ \A g \in Handles : Kept(v, w, g)
         /\ \A b \in Streams : InUse(w, b) => InUse(v, b)
  <1>1. \A b \in Streams : SameButFrames(v.stream[b], w.stream[b])
    BY DEF OnlyShown, SameButFrames
  <1>2. \A b \in Streams : InUse(w, b) => InUse(v, b)
    BY <1>1 DEF InUse, isUnused, SameButFrames
  <1>3. ASSUME NEW g \in Handles PROVE Kept(v, w, g)
    <2>1. ~w.handle[g].registered => g \notin w.stream[c].handles
      BY DEF Attached, Lists, On
    <2> QED BY <2>1 DEF OnlyShown, Follows, Kept
  <1>4. Owned(v)
    BY <1>3 DEF Kept, SameButShown, Attached, Owned
  <1>5. \A h \in Handles, b \in Streams : On(v, h, b) <=> On(w, h, b)
    BY <1>3 DEF Kept, SameButShown, OnlyShown, On
  <1>6. ASSUME NEW b \in Streams PROVE Lists(v, b)
    BY <1>1, <1>3, <1>5 DEF Kept, SameButShown, SameButFrames, Attached, Lists
  <1>7. ASSUME NEW h \in Handles, v.handle[h].registered PROVE Mirrors(v, h)
    <2> DEFINE d == w.handle[h].dev
               b == w.cameraStreams[d]
               s == w.handle[h].viewSink
    <2>1. /\ w.handle[h].registered /\ v.handle[h].dev = d /\ v.handle[h].viewSink = s
          /\ v.cameraStreams[d] = b
      BY <1>3, <1>7 DEF Kept, SameButShown, OnlyShown
    <2>2. /\ w.handle[h].state # "free" /\ b \in Streams /\ w.stream[b].dev = d
          /\ h \in w.stream[b].handles /\ s \in Sinks /\ s \in w.stream[b].viewSinks
          /\ \A x \in Streams \ {b} : h \notin w.stream[x].handles
      BY <2>1, OnStream
    <2>3. b # None /\ Mirror(w, h, b) /\ (w.stream[b].lastFrame => w.sinkShows[s] \in {None, d})
      BY <2>1 DEF Attached, Mirrors
    <2> HIDE DEF b, d, s
    <2>4. Mirror(v, h, b)
      <3>1. CASE b = c
        BY <2>2, <2>3, <3>1 DEF Follows, Exists
      <3>2. CASE b # c
        BY <2>2, <2>3, <3>2 DEF Follows, OnlyShown, Mirror
      <3> QED BY <3>1, <3>2
    <2>5. v.stream[b].lastFrame => v.sinkShows[s] \in {None, d}
      <3>1. CASE b = c
        BY <2>2, <2>3, <3>1 DEF Pictures
      <3>2. CASE b # c
        <4>1. v.stream[b] = w.stream[b] /\ s \notin w.stream[c].viewSinks
          <5>1. ASSUME NEW g \in Handles, On(w, g, c), w.handle[g].viewSink = s PROVE FALSE
            <6>1. g = h
              BY <2>2, <5>1, MediaCaptureAssumption DEF Attached, Owned, s
            <6> QED BY <2>2, <3>2, <5>1, <6>1 DEF Attached, Lists
          <5> QED BY <2>2, <3>2, <5>1 DEF OnlyShown, Attached, Lists
        <4> QED BY <2>2, <2>3, <4>1 DEF Pictures
      <3> QED BY <3>1, <3>2
    <2> QED BY <2>1, <2>3, <2>4, <2>5 DEF Mirrors
  <1>8. \A h \in Handles : Mirrors(v, h)
    BY <1>7 DEF Mirrors
  <1> QED BY <1>2, <1>3, <1>4, <1>6, <1>8 DEF Attached
\* What is attached depends on the streams' lists and what they show alone.
LEMMA SameAttached ==
  ASSUME NEW w \in Worlds, Mapped(w), Attached(w), NEW v,
         v.cameraStreams = w.cameraStreams, v.handle = w.handle, v.sinkShows = w.sinkShows,
         \A b \in Streams : /\ v.stream[b].handles = w.stream[b].handles
                            /\ v.stream[b].viewSinks = w.stream[b].viewSinks
                            /\ v.stream[b].lastFrame = w.stream[b].lastFrame
                            /\ v.stream[b].framesReceived = w.stream[b].framesReceived
                            /\ v.stream[b].errorText = w.stream[b].errorText
  PROVE  Attached(v)
  <1>1. Owned(v) /\ \A b \in Streams : Lists(v, b)
    BY DEF Attached, Owned, Lists, On
  <1>2. ASSUME NEW h \in Handles PROVE Mirrors(v, h)
    <2> DEFINE c == w.cameraStreams[w.handle[h].dev]
    <2>1. w.handle[h].registered => c \in Streams
      BY OnStream
    <2>2. Mirrors(w, h)
      BY DEF Attached
    <2> QED BY <2>1, <2>2 DEF Mirrors, Mirror
  <1> QED BY <1>1, <1>2 DEF Attached

-----------------------------------------------------------------------------
(* What the streams do under the contract *)

LEMMA setActiveViews ==
  ASSUME NEW w \in Worlds, Mapped(w), Attached(w), NEW c \in Streams, NEW a \in BOOLEAN
  PROVE  LET v == setActive(w, c, a)
         IN /\ v \in Worlds /\ OnlyShown(v, w, c) /\ Attached(v)
            /\ \A g \in Handles : Kept(v, w, g)
            /\ \A b \in Streams : InUse(w, b) => InUse(v, b)
  <1> DEFINE v == setActive(w, c, a)
  <1>1. /\ v \in Worlds /\ OnlyShown(v, w, c) /\ Follows(v, w, c)
        /\ v.stream[c].lastFrame => w.stream[c].lastFrame
        /\ \A s \in Sinks : v.sinkShows[s] \in {w.sinkShows[s], None}
    BY setActiveParts
  <1> HIDE DEF v
  <1>2. Pictures(v, w, c)
    BY <1>1 DEF Pictures
  <1>3. /\ Attached(v) /\ \A g \in Handles : Kept(v, w, g)
        /\ \A b \in Streams : InUse(w, b) => InUse(v, b)
    BY <1>1, <1>2, ShownViews
  <1> QED BY <1>1, <1>3 DEF v

\* The count is none of what is attached.
LEMMA incrementRunningRefCountViews ==
  ASSUME NEW w \in Worlds, Mapped(w), Attached(w), NEW c \in Streams, NEW r \in BOOLEAN
  PROVE  LET v == incrementRunningRefCount(w, c, r)
         IN /\ v \in Worlds /\ Attached(v)
            /\ v.handle = w.handle /\ v.cameraStreams = w.cameraStreams
            /\ \A b \in Streams \ {c} : v.stream[b] = w.stream[b]
            /\ v.stream[c].state = w.stream[c].state /\ v.stream[c].dev = w.stream[c].dev
            /\ v.stream[c].viewSinks = w.stream[c].viewSinks
            /\ r => v.stream[c].runningRefCount # 0
  <1> DEFINE n == w.stream[c].runningRefCount
             m == IF r THEN n + 1 ELSE IF n > 0 THEN n - 1 ELSE 0
             q == [w.stream[c] EXCEPT !.runningRefCount = m]
             v == [w EXCEPT !.stream[c] = q]
  <1>1. incrementRunningRefCount(w, c, r) = v
    BY DEF incrementRunningRefCount, Worlds
  <1>2. n \in Nat /\ w.stream[c] \in StreamRecord
    BY Parts DEF StreamRecord
  <1>3. m \in Nat /\ (r => m # 0)
    BY <1>2
  <1> HIDE DEF n, m
  <1>4. /\ q \in StreamRecord /\ q.runningRefCount = m
        /\ q.state = w.stream[c].state /\ q.dev = w.stream[c].dev
        /\ q.viewSinks = w.stream[c].viewSinks /\ q.handles = w.stream[c].handles
        /\ q.lastFrame = w.stream[c].lastFrame /\ q.errorText = w.stream[c].errorText
        /\ q.framesReceived = w.stream[c].framesReceived
    BY <1>2, <1>3 DEF StreamRecord
  <1> HIDE DEF q
  <1>5. /\ v \in Worlds /\ v.handle = w.handle /\ v.cameraStreams = w.cameraStreams
        /\ v.sinkShows = w.sinkShows /\ v.stream[c] = q
        /\ \A b \in Streams \ {c} : v.stream[b] = w.stream[b]
    BY <1>4, WithStreamParts
  <1> HIDE DEF v
  <1>6. Attached(v)
    BY <1>4, <1>5, SameAttached
  <1> QED BY <1>1, <1>3, <1>4, <1>5, <1>6

\* A frame reaches the stream's handles and sinks, all of which exist, whatever number the
\* stream gives it.
LEMMA FrameViews ==
  ASSUME NEW w \in Worlds, Mapped(w), Attached(w), NEW c \in Streams, NEW n \in Nat
  PROVE  LET v == onVideoFrameChanged([w EXCEPT !.stream[c].framesReceived = n], c)
         IN /\ v \in Worlds /\ OnlyShown(v, w, c) /\ Attached(v)
            /\ \A g \in Handles : Kept(v, w, g)
            /\ \A b \in Streams : InUse(w, b) => InUse(v, b)
            /\ \A k \in Sinks : k \notin w.stream[c].viewSinks => v.sinkShows[k] = w.sinkShows[k]
  <1> DEFINE x == [w EXCEPT !.stream[c].framesReceived = n]
             q == w.stream[c]
             kept == {h \in q.handles : Exists(w, h)}
             left == q.viewSinks \cap liveSinks
             r == [q EXCEPT !.lastFrame = TRUE, !.framesReceived = n + 1,
                            !.handles = kept, !.viewSinks = left]
             counted == [w EXCEPT !.stream[c] = r]
             told == PublishFrames(counted, c)
             v == Show(told, q.viewSinks, q.dev)
  <1>1. onVideoFrameChanged(x, c) = v
    <2> DEFINE xq == [q EXCEPT !.framesReceived = n]
               xr == [xq EXCEPT !.lastFrame = TRUE, !.framesReceived = xq.framesReceived + 1,
                                !.handles = {h \in xq.handles : Exists(w, h)},
                                !.viewSinks = xq.viewSinks \cap liveSinks]
    <2>1. x = [w EXCEPT !.stream[c] = xq]
      BY DEF Worlds
    <2>2. q \in StreamRecord
      BY Parts
    <2>3. xq \in StreamRecord /\ xq.viewSinks = q.viewSinks /\ xq.dev = q.dev
      BY <2>2 DEF StreamRecord
    <2>4. xr = r
      BY <2>2 DEF StreamRecord
    <2> HIDE DEF xq, x
    <2>5. /\ x \in Worlds /\ x.stream[c] = xq /\ x.handle = w.handle
          /\ x.cameraStreams = w.cameraStreams /\ x.sinkShows = w.sinkShows
          /\ \A b \in Streams \ {c} : x.stream[b] = w.stream[b]
      BY <2>1, <2>3, WithStreamParts
    <2>6. counted = [x EXCEPT !.stream[c] =
                       [x.stream[c] EXCEPT !.lastFrame = TRUE,
                                           !.framesReceived = x.stream[c].framesReceived + 1,
                                           !.handles = {h \in x.stream[c].handles : Exists(x, h)},
                                           !.viewSinks = x.stream[c].viewSinks \cap liveSinks]]
      <3>1. counted = [x EXCEPT !.stream[c] = xr]
        <4> HIDE DEF xr, r
        <4> QED BY <2>1, <2>4 DEF Worlds
      <3>2. {h \in x.stream[c].handles : Exists(x, h)} = {h \in xq.handles : Exists(w, h)}
        BY <2>5 DEF Exists
      <3> QED BY <2>5, <3>1, <3>2
    <2>7. counted = [x EXCEPT !.stream[c].lastFrame = TRUE,
                              !.stream[c].framesReceived = @ + 1,
                              !.stream[c].handles = {h \in @ : Exists(x, h)},
                              !.stream[c].viewSinks = @ \cap liveSinks]
      <3> HIDE DEF counted
      <3> QED BY <2>5, <2>6 DEF Worlds, StreamRecord
    <2> HIDE DEF counted, q
    <2> QED BY <2>3, <2>5, <2>7 DEF onVideoFrameChanged
  <1>2. q \in StreamRecord /\ n + 1 \in Nat
    BY Parts DEF StreamRecord
  <1>3. kept = q.handles
    BY <1>2 DEF Attached, Lists, On, Owned, Exists, StreamRecord
  <1>4. left = q.viewSinks
    BY <1>2, MediaCaptureAssumption DEF Attached, Lists, On, Owned, StreamRecord
  <1> HIDE DEF kept, left
  <1>5. /\ r \in StreamRecord /\ SameButFrames(r, q) /\ r.lastFrame
        /\ r.errorText = q.errorText
    BY <1>2, <1>3, <1>4 DEF StreamRecord, SameButFrames
  <1> HIDE DEF r
  <1>6. /\ counted \in Worlds /\ counted.cameraStreams = w.cameraStreams
        /\ counted.handle = w.handle /\ counted.sinkShows = w.sinkShows
        /\ counted.stream[c] = r /\ \A b \in Streams \ {c} : counted.stream[b] = w.stream[b]
    BY <1>5, WithStreamParts
  <1> HIDE DEF counted
  <1>7. /\ told \in Worlds
        /\ told.cameraStreams = counted.cameraStreams /\ told.stream = counted.stream
        /\ told.sinkShows = counted.sinkShows
        /\ \A h \in Handles :
                  /\ SameButShown(told.handle[h], counted.handle[h])
                  /\ told.handle[h].errorText = counted.handle[h].errorText
                  /\ IF h \in counted.stream[c].handles /\ Exists(counted, h)
                     THEN /\ told.handle[h].hasFrame = counted.stream[c].lastFrame
                          /\ told.handle[h].framesReceived = counted.stream[c].framesReceived
                     ELSE told.handle[h] = counted.handle[h]
    BY <1>6, PublishFramesTyped, PublishFramesParts
  <1> HIDE DEF told
  <1>8. /\ v \in Worlds /\ v.cameraStreams = told.cameraStreams /\ v.stream = told.stream
        /\ v.handle = told.handle
        /\ \A s \in Sinks : v.sinkShows[s] = IF s \in q.viewSinks /\ s \in liveSinks THEN q.dev
                                             ELSE told.sinkShows[s]
    BY <1>2, <1>7, ShowTyped, ShowParts DEF StreamRecord
  <1> HIDE DEF v
  <1>9. OnlyShown(v, w, c)
    BY <1>5, <1>6, <1>7, <1>8 DEF OnlyShown
  <1>10. Follows(v, w, c)
    BY <1>3, <1>5, <1>6, <1>7, <1>8 DEF Follows, Mirror, SameButFrames, Exists
  <1>11. Pictures(v, w, c)
    BY <1>4, <1>6, <1>7, <1>8 DEF Pictures, left
  <1>12. \A k \in Sinks : k \notin q.viewSinks => v.sinkShows[k] = w.sinkShows[k]
    BY <1>6, <1>7, <1>8
  <1>13. q = w.stream[c]
    OBVIOUS
  <1> HIDE DEF q
  <1> QED BY <1>1, <1>8, <1>9, <1>10, <1>11, <1>12, <1>13, ShownViews

LEMMA onVideoFrameChangedViews ==
  ASSUME NEW w \in Worlds, Mapped(w), Attached(w), NEW c \in Streams
  PROVE  LET v == onVideoFrameChanged(w, c)
         IN /\ v \in Worlds /\ OnlyShown(v, w, c) /\ Attached(v)
            /\ \A g \in Handles : Kept(v, w, g)
            /\ \A b \in Streams : InUse(w, b) => InUse(v, b)
  <1> DEFINE n == w.stream[c].framesReceived
             x == [w EXCEPT !.stream[c].framesReceived = n]
  <1>1. n \in Nat
    BY Parts DEF StreamRecord
  <1>2. x = w
    BY DEF Worlds, StreamRecord
  <1> HIDE DEF n
  <1>3. LET v == onVideoFrameChanged(x, c)
        IN /\ v \in Worlds /\ OnlyShown(v, w, c) /\ Attached(v)
           /\ \A g \in Handles : Kept(v, w, g)
           /\ \A b \in Streams : InUse(w, b) => InUse(v, b)
    BY <1>1, FrameViews
  <1> HIDE DEF x
  <1> QED BY <1>2, <1>3

\* An error reaches the stream's handles and blanks its sinks.
LEMMA onBackendErrorTextChangedViews ==
  ASSUME NEW w \in Worlds, Mapped(w), Attached(w), NEW c \in Streams, NEW t \in BackendTexts
  PROVE  LET v == onBackendErrorTextChanged(w, c, t)
         IN /\ v \in Worlds /\ OnlyShown(v, w, c) /\ Attached(v)
            /\ \A g \in Handles : Kept(v, w, g)
            /\ \A b \in Streams : InUse(w, b) => InUse(v, b)
  <1> DEFINE q == w.stream[c]
             kept == {h \in q.handles : Exists(w, h)}
             r == [q EXCEPT !.errorText = t, !.handles = kept]
             H == [h \in Handles |-> IF h \in q.handles /\ Exists(w, h)
                                     THEN [w.handle[h] EXCEPT !.errorText = t] ELSE w.handle[h]]
             first == [w EXCEPT !.stream[c] = r]
             told == [first EXCEPT !.handle = H]
             v == onBackendErrorTextChanged(w, c, t)
  <1>1. v = IF q.errorText = t THEN w ELSE IF t = "" THEN told
            ELSE Show(told, q.viewSinks, None)
    <2>1. told = [w EXCEPT !.stream[c].errorText = t,
                           !.stream[c].handles = {h \in @ : Exists(w, h)},
                           !.handle = H]
      BY DEF Worlds
    <2> HIDE DEF told
    <2> QED BY <2>1 DEF onBackendErrorTextChanged
  <1>2. v \in Worlds
    BY onBackendErrorTextChangedTyped
  <1>3. q \in StreamRecord /\ \A h \in Handles : w.handle[h] \in HandleRecord
    BY Parts
  <1>4. kept = q.handles
    BY <1>3 DEF Attached, Lists, On, Owned, Exists, StreamRecord
  <1> HIDE DEF kept
  <1>5. /\ r \in StreamRecord /\ SameButFrames(r, q) /\ r.errorText = t
        /\ r.lastFrame = q.lastFrame /\ r.framesReceived = q.framesReceived
    BY <1>3, <1>4 DEF StreamRecord, SameButFrames
  <1>6. \A h \in Handles :
           /\ H[h] \in HandleRecord /\ SameButShown(H[h], w.handle[h])
           /\ IF h \in q.handles /\ Exists(w, h)
              THEN /\ H[h].errorText = t /\ H[h].hasFrame = w.handle[h].hasFrame
                   /\ H[h].framesReceived = w.handle[h].framesReceived
              ELSE H[h] = w.handle[h]
    BY <1>3 DEF HandleRecord, Texts, SameButShown
  <1>7. H \in [Handles -> HandleRecord]
    BY <1>6
  <1> HIDE DEF r, H
  <1>8. first \in Worlds
    BY <1>5, WithStream
  <1>9. /\ first.cameraStreams = w.cameraStreams /\ first.handle = w.handle
        /\ first.sinkShows = w.sinkShows
        /\ first.stream[c] = r /\ \A b \in Streams \ {c} : first.stream[b] = w.stream[b]
    BY DEF Worlds
  <1> HIDE DEF first
  <1>10. /\ told \in Worlds /\ told.cameraStreams = w.cameraStreams /\ told.handle = H
         /\ told.sinkShows = w.sinkShows
         /\ told.stream[c] = r /\ \A b \in Streams \ {c} : told.stream[b] = w.stream[b]
    <2>1. told \in Worlds
      BY <1>7, <1>8, WithHandles
    <2> QED BY <1>8, <1>9, <2>1 DEF Worlds
  <1> HIDE DEF told, v
  <1>11. CASE v = w
    BY <1>2, <1>11 DEF OnlyShown, SameButFrames, SameButShown, Kept, v
  <1>12. CASE v = told \/ v = Show(told, q.viewSinks, None)
    <2>1. /\ v.cameraStreams = told.cameraStreams /\ v.stream = told.stream
          /\ v.handle = told.handle
          /\ \A s \in Sinks : v.sinkShows[s] \in {told.sinkShows[s], None}
      BY <1>10, <1>12, ShowParts
    <2>2. OnlyShown(v, w, c)
      BY <1>5, <1>6, <1>10, <2>1 DEF OnlyShown
    <2>3. Follows(v, w, c)
      BY <1>5, <1>6, <1>10, <2>1 DEF Follows, Mirror
    <2>4. Pictures(v, w, c)
      BY <1>5, <1>10, <2>1 DEF Pictures
    <2> HIDE DEF q
    <2> QED BY <1>2, <2>2, <2>3, <2>4, ShownViews DEF v
  <1> QED BY <1>1, <1>11, <1>12
\* A stream that is dropped was attached to nothing.
LEMMA DropIfUnusedViews ==
  ASSUME NEW w \in Worlds, Mapped(w), Attached(w), NEW d \in Devices, NEW c \in Streams,
         w.cameraStreams[d] = c, \A b \in Streams \ {c} : InUse(w, b)
  PROVE  LET v == DropIfUnused(w, d, c)
         IN /\ v \in Worlds /\ ViewsInv(v) /\ \A g \in Handles : Kept(v, w, g)
  <1> DEFINE u == [w EXCEPT !.cameraStreams[d] = None]
             s == setActive(u, c, FALSE)
             r == [s.stream[c] EXCEPT !.state = "doomed"]
             t == [s EXCEPT !.stream[c] = r]
  <1>1. CASE ~isUnused(w, c)
    <2>1. DropIfUnused(w, d, c) = w /\ ViewsInv(w)
      BY <1>1 DEF DropIfUnused, InUse, ViewsInv
    <2> QED BY <2>1 DEF Kept, SameButShown
  <1>2. CASE isUnused(w, c)
    <2>1. u \in Worlds
      BY WithMapped
    <2>2. DropIfUnused(w, d, c) = t
      <3> HIDE DEF u
      <3>1. s \in Worlds
        BY <2>1, setActiveTyped
      <3>2. DropIfUnused(w, d, c) = [s EXCEPT !.stream[c].state = "doomed"]
        BY <1>2 DEF DropIfUnused, u
      <3> QED BY <3>1, <3>2 DEF Worlds
    <2>3. /\ u.stream = w.stream /\ u.handle = w.handle /\ u.sinkShows = w.sinkShows
          /\ u.cameraStreams = [w.cameraStreams EXCEPT ![d] = None]
      BY DEF Worlds
    <2> HIDE DEF u
    <2>4. w.stream[c].dev = d /\ w.stream[c].state = "live"
      BY MediaCaptureAssumption DEF Mapped
    <2>5. ASSUME NEW h \in Handles PROVE ~On(w, h, c)
      BY <1>2, Parts DEF Attached, Owned, Lists, isUnused, On, HandleRecord
    <2>6. ASSUME NEW h \in Handles, w.handle[h].registered
          PROVE  /\ w.handle[h].dev \in Devices \ {d}
                 /\ u.cameraStreams[w.handle[h].dev] = w.cameraStreams[w.handle[h].dev]
      <3>1. w.handle[h].dev \in Devices
        BY <2>6, OnStream
      <3>2. w.handle[h].dev # d
        BY <2>5, <2>6 DEF On
      <3> QED BY <2>3, <3>1, <3>2 DEF Worlds
    <2>7. Mapped(u)
      BY <2>3 DEF Mapped, Worlds
    <2>8. Attached(u)
      <3>1. \A h \in Handles, b \in Streams : On(u, h, b) <=> On(w, h, b)
        BY <2>3, <2>6 DEF On
      <3>2. Owned(u) /\ \A b \in Streams : Lists(u, b)
        BY <2>3, <3>1 DEF Attached, Owned, Lists
      <3>3. \A h \in Handles : Mirrors(u, h)
        BY <2>3, <2>6 DEF Attached, Mirrors, Mirror
      <3> QED BY <3>2, <3>3 DEF Attached
    <2>9. /\ s \in Worlds /\ OnlyShown(s, u, c) /\ Attached(s)
          /\ \A g \in Handles : Kept(s, u, g)
          /\ \A b \in Streams : InUse(u, b) => InUse(s, b)
      BY <2>1, <2>7, <2>8, setActiveViews
    <2> HIDE DEF s
    <2>10. /\ r \in StreamRecord /\ r.state = "doomed" /\ r.handles = s.stream[c].handles
           /\ r.viewSinks = s.stream[c].viewSinks /\ r.lastFrame = s.stream[c].lastFrame
           /\ r.framesReceived = s.stream[c].framesReceived
           /\ r.errorText = s.stream[c].errorText
      BY <2>9, Parts DEF StreamRecord
    <2> HIDE DEF r
    <2>11. /\ t \in Worlds /\ t.cameraStreams = s.cameraStreams
           /\ t.handle = s.handle /\ t.sinkShows = s.sinkShows
           /\ t.stream[c] = r /\ \A b \in Streams \ {c} : t.stream[b] = s.stream[b]
      BY <2>9, <2>10, WithStreamParts
    <2> HIDE DEF t
    <2>12. Mapped(s)
      BY <2>7, <2>9, Parts DEF OnlyShown, SameButFrames, SameButShown, Mapped
    <2>13. Attached(t)
      BY <2>9, <2>10, <2>11, <2>12, SameAttached
    <2>14. ASSUME NEW b \in Streams PROVE InUse(t, b)
      <3>1. CASE b = c
        BY <2>10, <2>11, <3>1 DEF InUse
      <3>2. CASE b # c
        BY <2>3, <2>9, <2>11, <3>2 DEF InUse, isUnused
      <3> QED BY <3>1, <3>2
    <2>15. \A g \in Handles : Kept(t, w, g)
      BY <2>3, <2>9, <2>11 DEF Kept, SameButShown
    <2> QED BY <2>2, <2>11, <2>13, <2>14, <2>15 DEF ViewsInv
  <1> QED BY <1>1, <1>2
-----------------------------------------------------------------------------
(* What the handles do under the contract *)

\* Of h, only the views' side changes: registered and viewSink are given.
Used(v, w, h, reg, s) ==
    /\ v.handle[h].state = w.handle[h].state /\ v.handle[h].dev = w.handle[h].dev
    /\ v.handle[h].running = w.handle[h].running
    /\ v.handle[h].registered = reg /\ v.handle[h].viewSink = s

LEMMA UnregisterViews ==
  ASSUME NEW w \in Worlds, CaptureInv(w), ViewsInv(w), NEW h \in Handles
  PROVE  LET v == Unregister(w, h)
         IN /\ ViewsInv(v) /\ Beside(v, w, h)
            /\ Used(v, w, h, FALSE, w.handle[h].viewSink)
  <1>1. CASE ~w.handle[h].registered
    <2>1. w.handle[h].registered = FALSE
      BY <1>1, Parts DEF HandleRecord
    <2> QED BY <1>1, <2>1 DEF Unregister, Beside, Kept, SameButShown, Used
  <1>2. CASE w.handle[h].registered
    <2> DEFINE d == w.handle[h].dev
               c == w.cameraStreams[d]
               k == w.handle[h].viewSink
               r == [w.stream[c] EXCEPT !.viewSinks = @ \ {k}, !.handles = @ \ {h}]
               g == [w.handle[h] EXCEPT !.registered = FALSE]
               u == [w EXCEPT !.stream[c] = r]
               left == [u EXCEPT !.handle[h] = g]
               v == DropIfUnused(left, d, c)
    <2>1. Mapped(w) /\ Attached(w)
      BY LinkedMapped DEF CaptureInv, ViewsInv
    <2>2. /\ w.handle[h].state # "free" /\ d \in Devices /\ c \in Streams /\ c # None
          /\ w.stream[c].state = "live" /\ w.stream[c].dev = d /\ ViewSink(w, h) = k
      BY <1>2, <2>1, OnStream, MediaCaptureAssumption DEF ViewSink
    <2>3. unregisterViewSink(w, h) = v
      <3> DEFINE x == [w EXCEPT !.stream[c].viewSinks = @ \ {ViewSink(w, h)},
                                !.stream[c].handles = @ \ {h},
                                !.handle[h].registered = FALSE]
      <3>1. left = x
        <4> HIDE DEF c
        <4> QED BY <2>2 DEF Worlds
      <3>2. unregisterViewSink(w, h) = DropIfUnused(x, d, c)
        BY <2>2 DEF unregisterViewSink
      <3> HIDE DEF left, x
      <3> QED BY <3>1, <3>2
    <2> HIDE DEF c
    <2>4. /\ r \in StreamRecord /\ r.state = w.stream[c].state /\ r.dev = w.stream[c].dev
          /\ r.active = w.stream[c].active /\ r.runningRefCount = w.stream[c].runningRefCount
          /\ r.viewSinks = w.stream[c].viewSinks \ {k} /\ r.handles = w.stream[c].handles \ {h}
          /\ r.lastFrame = w.stream[c].lastFrame /\ r.errorText = w.stream[c].errorText
          /\ r.framesReceived = w.stream[c].framesReceived
      BY <2>2, Parts DEF StreamRecord
    <2>5. g \in HandleRecord
      BY Parts DEF HandleRecord
    <2>6. /\ g.state = w.handle[h].state /\ g.dev = d /\ g.running = w.handle[h].running
          /\ g.registered = FALSE /\ g.viewSink = k
      BY Parts DEF HandleRecord
    <2> HIDE DEF r, g
    <2>7. /\ u \in Worlds /\ u.cameraStreams = w.cameraStreams
          /\ u.handle = w.handle /\ u.sinkShows = w.sinkShows
          /\ u.stream[c] = r /\ \A b \in Streams \ {c} : u.stream[b] = w.stream[b]
      BY <2>2, <2>4, WithStreamParts
    <2> HIDE DEF u
    <2>8. /\ left \in Worlds /\ left.cameraStreams = u.cameraStreams
          /\ left.stream = u.stream /\ left.sinkShows = u.sinkShows
          /\ left.handle[h] = g /\ \A f \in Handles \ {h} : left.handle[f] = u.handle[f]
      BY <2>5, <2>7, WithHandleParts
    <2> HIDE DEF left
    <2>9. SameCore(left, w)
      BY <2>4, <2>6, <2>7, <2>8 DEF SameCore, SameStream, SameHandles
    <2>10. Linked(left)
      BY <2>8, <2>9, SameCoreLinked DEF CaptureInv
    <2>11. \A f \in Handles, b \in Streams : On(left, f, b) <=> On(w, f, b) /\ f # h
      BY <2>6, <2>7, <2>8 DEF On
    <2>12. Owned(left)
      <3>1. \A f \in Handles : /\ left.handle[f].viewSink = w.handle[f].viewSink
                               /\ left.handle[f].state = w.handle[f].state
                               /\ left.handle[f].registered => w.handle[f].registered
        BY <2>6, <2>7, <2>8
      <3> QED BY <2>1, <3>1 DEF Attached, Owned
    <2>13. \A f \in Handles : left.handle[f].viewSink = w.handle[f].viewSink
      BY <2>6, <2>7, <2>8
    <2>14. ASSUME NEW b \in Streams PROVE Lists(left, b)
      <3>1. CASE b = c
        <4>1. \A f \in Handles : f \in left.stream[c].handles <=> On(left, f, c)
          BY <2>1, <2>2, <2>4, <2>7, <2>8, <2>11 DEF Attached, Lists
        <4>2. ASSUME NEW s \in Sinks
              PROVE  s \in left.stream[c].viewSinks <=>
                        \E f \in Handles : On(left, f, c) /\ left.handle[f].viewSink = s
          <5>1. s \in w.stream[c].viewSinks <=>
                   \E f \in Handles : On(w, f, c) /\ w.handle[f].viewSink = s
            BY <2>1, <2>2 DEF Attached, Lists
          <5>2. \A f \in Handles : w.handle[f].viewSink = s /\ f # h => s # k
            BY <1>2, <2>1 DEF Attached, Owned
          <5>3. s \in left.stream[c].viewSinks <=> s \in w.stream[c].viewSinks /\ s # k
            BY <2>2, <2>4, <2>7, <2>8
          <5>4. ASSUME NEW f \in Handles
                PROVE  On(left, f, c) /\ left.handle[f].viewSink = s <=>
                          On(w, f, c) /\ w.handle[f].viewSink = s /\ s # k
            BY <2>2, <2>11, <2>13, <5>2
          <5> HIDE DEF k
          <5> QED BY <5>1, <5>3, <5>4
        <4> QED BY <3>1, <4>1, <4>2 DEF Lists
      <3>2. CASE b # c
        <4>1. ~On(w, h, b)
          BY <3>2 DEF On, c
        <4>2. left.stream[b] = w.stream[b]
          BY <2>7, <2>8, <3>2
        <4>3. \A f \in Handles : On(left, f, b) <=> On(w, f, b)
          BY <2>11, <4>1
        <4> QED BY <2>1, <2>13, <4>2, <4>3 DEF Attached, Lists
      <3> QED BY <3>1, <3>2
    <2>15. ASSUME NEW f \in Handles, left.handle[f].registered PROVE Mirrors(left, f)
      <3>1. f # h /\ left.handle[f] = w.handle[f]
        BY <2>6, <2>7, <2>8, <2>15
      <3> DEFINE x == w.cameraStreams[w.handle[f].dev]
      <3>2. x \in Streams /\ Mirrors(w, f) /\ w.handle[f].registered
        BY <2>1, <2>15, <3>1, OnStream DEF Attached
      <3> HIDE DEF x
      <3>3. /\ left.stream[x].lastFrame = w.stream[x].lastFrame
            /\ left.stream[x].errorText = w.stream[x].errorText
            /\ left.stream[x].framesReceived = w.stream[x].framesReceived
        BY <2>4, <2>7, <2>8, <3>2
      <3>4. left.cameraStreams = w.cameraStreams /\ left.sinkShows = w.sinkShows
        BY <2>7, <2>8
      <3> HIDE DEF left
      <3> DEFINE o == w.handle[f]
      <3>5. left.handle[f] = o /\ x = w.cameraStreams[o.dev] /\ o.registered
        BY <3>1, <3>2 DEF x
      <3>6. /\ x # None /\ Mirror(w, f, x)
            /\ w.stream[x].lastFrame => w.sinkShows[o.viewSink] \in {None, o.dev}
        BY <3>2, <3>5 DEF Mirrors
      <3>7. Mirror(left, f, x)
        BY <3>1, <3>3, <3>6 DEF Mirror
      <3> HIDE DEF o
      <3> QED BY <3>3, <3>4, <3>5, <3>6, <3>7 DEF Mirrors
    <2>16. Attached(left)
      BY <2>12, <2>14, <2>15 DEF Attached, Mirrors
    <2>17. \A b \in Streams \ {c} : InUse(left, b)
      BY <2>7, <2>8 DEF InUse, isUnused, ViewsInv
    <2>18. left.cameraStreams[d] = c
      BY <2>7, <2>8 DEF c
    <2> HIDE DEF d
    <2>19. v \in Worlds /\ ViewsInv(v) /\ \A f \in Handles : Kept(v, left, f)
      BY <2>2, <2>8, <2>10, <2>16, <2>17, <2>18, LinkedMapped, DropIfUnusedViews
    <2> HIDE DEF v
    <2>20. Unregister(w, h) = v
      <3> DEFINE x == [v.handle[h] EXCEPT !.registered = FALSE]
      <3>1. v.handle[h] = g
        BY <2>6, <2>8, <2>19 DEF Kept
      <3>2. x = v.handle[h]
        BY <2>5, <2>6, <3>1 DEF HandleRecord
      <3>3. Unregister(w, h) = [v EXCEPT !.handle[h] = x]
        BY <1>2, <2>3, <2>19 DEF Unregister, Worlds
      <3> HIDE DEF x
      <3> QED BY <2>19, <3>2, <3>3 DEF Worlds
    <2>21. Beside(v, w, h)
      BY <2>7, <2>8, <2>19 DEF Beside, Kept, SameButShown
    <2>22. Used(v, w, h, FALSE, k)
      BY <2>6, <2>8, <2>19 DEF Kept, SameButShown, Used, d
    <2> QED BY <2>19, <2>20, <2>21, <2>22
  <1> QED BY <1>1, <1>2

\* A stream that is opened takes the place of one that lists nothing.
LEMMA ensureStreamViews ==
  ASSUME NEW w \in Worlds, Mapped(w), Attached(w), NEW d \in Devices, NEW e \in BackendTexts,
         Room(w, d)
  PROVE  LET v == ensureStreamForDeviceId(w, d, e)
         IN /\ v.handle = w.handle /\ Attached(v) /\ Mapped(v)
            /\ \A b \in Streams : b # v.cameraStreams[d] /\ InUse(w, b) => InUse(v, b)
  <1> DEFINE v == ensureStreamForDeviceId(w, d, e)
  <1>1. v \in Worlds /\ Opened(v, w, d, e)
    BY ensureStreamParts
  <1> HIDE DEF v
  <1> DEFINE Goal == /\ v.handle = w.handle /\ Attached(v) /\ Mapped(v)
                     /\ \A b \in Streams : b # v.cameraStreams[d] /\ InUse(w, b) => InUse(v, b)
  <1>2. ASSUME NEW c \in Streams,
               w.stream[c].state = "free", w.cameraStreams[d] = None,
               v.cameraStreams = [w.cameraStreams EXCEPT ![d] = c],
               v.stream = [w.stream EXCEPT ![c] = NewStream("live", d, e)],
               v.handle = w.handle, v.sinkShows = w.sinkShows
        PROVE  Goal
    <2>1. Mapped(v)
      <3>1. \A x \in Devices : w.cameraStreams[x] # None => w.cameraStreams[x] \in Streams \ {c}
        BY <1>2, Parts DEF Mapped
      <3>2. \A b \in Streams : v.stream[b] = IF b = c THEN NewStream("live", d, e) ELSE w.stream[b]
        BY <1>2 DEF Worlds
      <3>3. \A x \in Devices : v.cameraStreams[x] = IF x = d THEN c ELSE w.cameraStreams[x]
        BY <1>2 DEF Worlds
      <3> QED BY <1>2, <3>1, <3>2, <3>3 DEF Mapped, NewStream
    <2>2. ASSUME NEW h \in Handles, w.handle[h].registered
          PROVE  LET x == w.cameraStreams[w.handle[h].dev]
                 IN /\ x \in Streams /\ x # c /\ v.cameraStreams[v.handle[h].dev] = x
                    /\ v.stream[x] = w.stream[x]
      <3> DEFINE y == w.handle[h].dev
                 x == w.cameraStreams[y]
      <3>1. y \in Devices /\ x \in Streams /\ w.stream[x].state = "live"
        BY <2>2, OnStream
      <3>2. x # c /\ y # d
        BY <1>2, <3>1, MediaCaptureAssumption
      <3>3. v.cameraStreams[y] = x /\ v.handle[h].dev = y
        BY <1>2, <3>1, <3>2 DEF Worlds
      <3> HIDE DEF x
      <3>4. v.stream[x] = w.stream[x]
        BY <1>2, <3>1, <3>2 DEF Worlds
      <3> QED BY <3>1, <3>2, <3>3, <3>4 DEF x
    <2>3. \A h \in Handles, b \in Streams : On(v, h, b) <=> On(w, h, b)
      BY <1>2, <2>2 DEF On
    <2>4. \A h \in Handles : ~On(w, h, c)
      BY <2>2 DEF On
    <2>5. v.stream[c].handles = {} /\ v.stream[c].viewSinks = {}
      BY <1>2 DEF Worlds, NewStream
    <2>6. Owned(v)
      BY <1>2 DEF Attached, Owned
    <2>7. ASSUME NEW b \in Streams PROVE Lists(v, b)
      <3>1. CASE b = c
        BY <1>2, <2>3, <2>4, <2>5, <3>1 DEF Lists
      <3>2. CASE b # c
        <4>1. v.stream[b] = w.stream[b]
          BY <1>2, <3>2 DEF Worlds
        <4> QED BY <1>2, <2>3, <4>1 DEF Attached, Lists
      <3> QED BY <3>1, <3>2
    <2>8. \A h \in Handles : Mirrors(v, h)
      BY <1>2, <2>2 DEF Attached, Mirrors, Mirror
    <2>9. ASSUME NEW b \in Streams, b # v.cameraStreams[d], InUse(w, b) PROVE InUse(v, b)
      <3>1. v.stream[b] = w.stream[b]
        BY <1>2, <2>9 DEF Worlds
      <3> QED BY <2>9, <3>1 DEF InUse, isUnused
    <2> QED BY <1>2, <2>1, <2>6, <2>7, <2>8, <2>9 DEF Attached
  <1>3. v = w => Goal
    OBVIOUS
  <1> HIDE DEF Goal
  <1>5. Goal
    BY <1>1, <1>2, <1>3 DEF Opened
  <1> QED BY <1>5 DEF Goal, v

\* h is put on the lists of c: what registerViewSink() comes down to.
LEMMA Registers ==
  ASSUME NEW w \in Worlds, Linked(w), Attached(w), NEW v \in Worlds, NEW h \in Handles,
         NEW c \in Streams, w.cameraStreams[w.handle[h].dev] = c, w.handle[h].dev \in Devices,
         w.handle[h].state # "free", ~w.handle[h].registered,
         w.handle[h].viewSink \in Sinks, \A b \in Streams \ {c} : InUse(w, b),
         v.cameraStreams = w.cameraStreams,
         \A b \in Streams \ {c} : v.stream[b] = w.stream[b],
         \A g \in Handles \ {h} : v.handle[g] = w.handle[g],
         v.stream[c].state = w.stream[c].state, v.stream[c].dev = w.stream[c].dev,
         v.stream[c].lastFrame = w.stream[c].lastFrame,
         v.stream[c].framesReceived = w.stream[c].framesReceived,
         v.stream[c].errorText = w.stream[c].errorText,
         v.stream[c].handles = w.stream[c].handles \cup {h},
         v.stream[c].viewSinks = w.stream[c].viewSinks \cup {w.handle[h].viewSink},
         Used(v, w, h, TRUE, w.handle[h].viewSink), Mirror(v, h, c),
         \A s \in Sinks : v.sinkShows[s] = IF s = w.handle[h].viewSink /\ w.stream[c].lastFrame
                                           THEN w.stream[c].dev ELSE w.sinkShows[s]
  PROVE  ViewsInv(v)
  <1> DEFINE k == w.handle[h].viewSink
  <1>1. Mapped(w) /\ c # None
    BY LinkedMapped, MediaCaptureAssumption
  <1>2. w.stream[c].state = "live" /\ w.stream[c].dev = w.handle[h].dev
    BY <1>1 DEF Mapped
  <1>3. \A g \in Handles : v.handle[g].viewSink = w.handle[g].viewSink
    BY DEF Used
  <1>4. \A g \in Handles, b \in Streams : On(v, g, b) <=> On(w, g, b) \/ (g = h /\ b = c)
    BY DEF On, Used
  <1>5. k # None /\ k \in liveSinks
    BY MediaCaptureAssumption DEF Attached, Owned
  <1>6. \A g \in Handles : w.handle[g].viewSink = k => g = h
    BY <1>5 DEF Attached, Owned
  <1>7. Owned(v)
    <2>1. \A g \in Handles : /\ v.handle[g].state = w.handle[g].state
                             /\ v.handle[g].registered => w.handle[g].registered \/ g = h
      BY DEF Used
    <2> QED BY <1>3, <1>5, <2>1 DEF Attached, Owned
  <1>8. ASSUME NEW b \in Streams PROVE Lists(v, b)
    <2>1. CASE b = c
      <3>1. \A g \in Handles : g \in v.stream[c].handles <=> On(v, g, c)
        BY <1>4 DEF Attached, Lists
      <3>2. ASSUME NEW s \in Sinks
            PROVE  s \in v.stream[c].viewSinks <=>
                      \E g \in Handles : On(v, g, c) /\ v.handle[g].viewSink = s
        BY <1>3, <1>4 DEF Attached, Lists
      <3> QED BY <2>1, <3>1, <3>2 DEF Lists
    <2>2. CASE b # c
      <3>1. v.stream[b] = w.stream[b] /\ \A g \in Handles : On(v, g, b) <=> On(w, g, b)
        BY <1>4, <2>2
      <3> QED BY <1>3, <3>1 DEF Attached, Lists
    <2> QED BY <2>1, <2>2
  <1>9. ASSUME NEW g \in Handles, v.handle[g].registered PROVE Mirrors(v, g)
    <2>1. CASE g = h
      <3>1. v.handle[h].dev = w.handle[h].dev /\ v.handle[h].viewSink = k
        BY DEF Used
      <3>2. v.cameraStreams[v.handle[h].dev] = c
        BY <3>1
      <3>3. v.stream[c].lastFrame => v.sinkShows[k] = w.handle[h].dev
        BY <1>2
      <3> QED BY <1>1, <2>1, <3>1, <3>2, <3>3 DEF Mirrors
    <2>2. CASE g # h
      <3> DEFINE x == w.cameraStreams[w.handle[g].dev]
                 s == w.handle[g].viewSink
      <3>1. v.handle[g] = w.handle[g] /\ v.cameraStreams[w.handle[g].dev] = x
        BY <2>2
      <3>2. x \in Streams /\ s \in Sinks /\ s # k
        BY <1>1, <1>6, <1>9, <2>2, <3>1, OnStream
      <3>3. Mirrors(w, g)
        BY DEF Attached
      <3>4. x # None /\ Mirror(w, g, x) /\ (w.stream[x].lastFrame => w.sinkShows[s] \in {None, w.handle[g].dev})
        BY <1>9, <3>1, <3>3 DEF Mirrors
      <3> HIDE DEF x, s, k
      <3>5. /\ v.stream[x].lastFrame = w.stream[x].lastFrame
            /\ v.stream[x].framesReceived = w.stream[x].framesReceived
            /\ v.stream[x].errorText = w.stream[x].errorText
        BY <3>2
      <3>6. v.sinkShows[s] = w.sinkShows[s]
        BY <3>2 DEF k
      <3> QED BY <3>1, <3>4, <3>5, <3>6 DEF Mirrors, Mirror, s
    <2> QED BY <2>1, <2>2
  <1>10. ASSUME NEW b \in Streams PROVE InUse(v, b)
    BY DEF InUse, isUnused
  <1> QED BY <1>7, <1>8, <1>9, <1>10 DEF ViewsInv, Attached, Mirrors

\* A handle that is not attached, replaced by one that is not attached.
LEMMA IdleViews ==
  ASSUME NEW w \in Worlds, Attached(w), NEW h \in Handles, NEW g \in HandleRecord,
         ~w.handle[h].registered, ~g.registered,
         g.viewSink \in liveSinks \cup {None}, g.state = "free" => g.viewSink = None,
         g.viewSink # None => \A f \in Handles \ {h} : w.handle[f].viewSink # g.viewSink
  PROVE  LET v == [w EXCEPT !.handle[h] = g]
         IN /\ v \in Worlds /\ Attached(v) /\ v.handle[h] = g /\ Beside(v, w, h)
            /\ v.cameraStreams = w.cameraStreams /\ v.stream = w.stream
            /\ \A b \in Streams : InUse(w, b) => InUse(v, b)
  <1> DEFINE v == [w EXCEPT !.handle[h] = g]
  <1>1. /\ v \in Worlds /\ v.cameraStreams = w.cameraStreams
        /\ v.stream = w.stream /\ v.sinkShows = w.sinkShows
        /\ v.handle[h] = g /\ \A f \in Handles \ {h} : v.handle[f] = w.handle[f]
    BY WithHandleParts
  <1> HIDE DEF v
  <1>2. \A f \in Handles, b \in Streams : On(v, f, b) <=> On(w, f, b)
    BY <1>1 DEF On
  <1>3. Owned(v)
    BY <1>1 DEF Attached, Owned
  <1>4. \A f \in Handles : v.handle[f].registered => v.handle[f] = w.handle[f]
    BY <1>1
  <1>5. ASSUME NEW b \in Streams PROVE Lists(v, b)
    <2>1. \A f \in Handles : On(w, f, b) => v.handle[f] = w.handle[f]
      BY <1>1 DEF On
    <2> QED BY <1>1, <1>2, <2>1 DEF Attached, Lists
  <1>6. \A f \in Handles : Mirrors(v, f)
    BY <1>1, <1>4 DEF Attached, Mirrors, Mirror
  <1>7. \A b \in Streams : InUse(w, b) => InUse(v, b)
    BY <1>1 DEF InUse, isUnused
  <1>8. Beside(v, w, h)
    BY <1>1 DEF Beside, Kept, SameButShown
  <1> QED BY <1>1, <1>3, <1>5, <1>6, <1>7, <1>8 DEF Attached, v

\* Attaching h, which is not attached, to the stream of its device if there is one.
LEMMA registerViewSinkViews ==
  ASSUME NEW w \in Worlds, CaptureInv(w), ViewsInv(w), NEW h \in Handles,
         NEW e \in BackendTexts, w.handle[h].state # "free", ~w.handle[h].registered,
         w.handle[h].viewSink \in Sinks, Room(w, w.handle[h].dev)
  PROVE  LET v == registerViewSink(w, h, e)
         IN /\ ViewsInv(v) /\ Beside(v, w, h)
            /\ v.handle[h].viewSink = w.handle[h].viewSink
            /\ v.handle[h].registered \/ v.handle[h].hasFrame = w.handle[h].hasFrame
  <1> DEFINE d == w.handle[h].dev
             k == w.handle[h].viewSink
             o == ensureStreamForDeviceId(w, d, e)
             c == o.cameraStreams[d]
             z == registerViewSink(w, h, e)
  <1>1. d \in Devices
    BY DEF CaptureInv, Linked
  <1>2. /\ o \in Worlds /\ CaptureInv(o) /\ o.handle = w.handle /\ Attached(o)
        /\ \A b \in Streams : b # c => InUse(o, b)
    BY <1>1, ensureStreamInv, ensureStreamViews, LinkedMapped DEF CaptureInv, ViewsInv
  <1>3. z = IF c # None
            THEN [addViewSink(addHandle(o, c, h), c, k) EXCEPT !.handle[h].registered = TRUE]
            ELSE [o EXCEPT !.handle[h].errorText = Unavailable]
    BY <1>2 DEF registerViewSink
  <1> HIDE DEF o, z
  <1>4. c \in Streams \cup {None} /\ k \in Sinks
    BY <1>1, <1>2, Parts
  <1>5. w.handle[h] \in HandleRecord
    BY Parts
  <1>6. CASE c = None
    <2> DEFINE g == [w.handle[h] EXCEPT !.errorText = Unavailable]
    <2>1. /\ g \in HandleRecord /\ g.registered = w.handle[h].registered
          /\ g.viewSink = k /\ g.state = w.handle[h].state /\ g.hasFrame = w.handle[h].hasFrame
      BY <1>5 DEF HandleRecord, Texts
    <2>2. z = [o EXCEPT !.handle[h] = g]
      BY <1>2, <1>3, <1>6 DEF Worlds
    <2> HIDE DEF g
    <2>3. /\ g.viewSink \in liveSinks \cup {None}
          /\ g.viewSink # None => \A f \in Handles \ {h} : o.handle[f].viewSink # g.viewSink
      BY <1>2, <2>1 DEF Attached, Owned
    <2>4. /\ z \in Worlds /\ Attached(z) /\ z.handle[h] = g /\ Beside(z, o, h)
          /\ \A b \in Streams : InUse(o, b) => InUse(z, b)
      BY <1>2, <2>1, <2>2, <2>3, IdleViews
    <2>5. \A b \in Streams : InUse(z, b)
      BY <1>2, <1>6, <2>4, MediaCaptureAssumption
    <2>6. Beside(z, w, h)
      BY <1>2, <2>4 DEF Beside, Kept
    <2> QED BY <2>1, <2>4, <2>5, <2>6 DEF ViewsInv, z
  <1>7. CASE c # None
    <2> DEFINE q == o.stream[c]
               q1 == [q EXCEPT !.handles = @ \cup {h}]
               f1 == [w.handle[h] EXCEPT !.errorText = q.errorText, !.hasFrame = q.lastFrame,
                                         !.framesReceived = q.framesReceived]
               a0 == [o EXCEPT !.stream[c] = q1]
               a == [a0 EXCEPT !.handle[h] = f1]
               q2 == [q1 EXCEPT !.viewSinks = @ \cup {k}]
               b0 == [a EXCEPT !.stream[c] = q2]
               b1 == IF k \notin q.viewSinks /\ q.lastFrame THEN Show(b0, {k}, q.dev) ELSE b0
               f2 == [f1 EXCEPT !.registered = TRUE]
               y == [b1 EXCEPT !.handle[h] = f2]
    <2>1. c \in Streams
      BY <1>4, <1>7
    <2>2. k \in liveSinks /\ k # None /\ k \notin q.viewSinks
      <3>1. k \in liveSinks /\ k # None
        BY <1>4, MediaCaptureAssumption DEF ViewsInv, Attached, Owned
      <3>2. \A f \in Handles : On(o, f, c) => o.handle[f].viewSink # k
        BY <1>2, <3>1 DEF Attached, Owned, On
      <3>3. k \notin q.viewSinks
        BY <1>2, <1>4, <2>1, <3>2 DEF Attached, Lists
      <3> QED BY <3>1, <3>3
    <2> HIDE DEF c
    <2>3. q \in StreamRecord
      BY <1>2, <2>1, Parts
    <2>4. /\ q1 \in StreamRecord /\ q1.viewSinks = q.viewSinks /\ q1.lastFrame = q.lastFrame
          /\ q1.dev = q.dev
      BY <2>3 DEF StreamRecord
    <2>5. /\ q2 \in StreamRecord /\ q2.state = q.state /\ q2.dev = q.dev
          /\ q2.lastFrame = q.lastFrame /\ q2.framesReceived = q.framesReceived
          /\ q2.errorText = q.errorText /\ q2.handles = q.handles \cup {h}
          /\ q2.viewSinks = q.viewSinks \cup {k}
      BY <1>4, <2>3 DEF StreamRecord
    <2>6. f1 \in HandleRecord
      BY <1>5, <2>3 DEF HandleRecord, StreamRecord, Texts
    <2>7. /\ f2 \in HandleRecord /\ f2.state = w.handle[h].state /\ f2.dev = d
          /\ f2.running = w.handle[h].running /\ f2.registered = TRUE /\ f2.viewSink = k
          /\ f2.errorText = q.errorText /\ f2.hasFrame = q.lastFrame
          /\ f2.framesReceived = q.framesReceived
      BY <1>5, <2>3 DEF HandleRecord, StreamRecord, Texts
    <2>8. addHandle(o, c, h) = a
      BY <1>2, <2>1 DEF addHandle, Worlds
    <2>9. f2 = [f1 EXCEPT !.registered = TRUE]
      OBVIOUS
    <2> HIDE DEF f1, f2
    <2>10. q2 = [q1 EXCEPT !.viewSinks = @ \cup {k}]
      OBVIOUS
    <2> HIDE DEF q1, q2
    <2>11. /\ a0 \in Worlds /\ a0.cameraStreams = o.cameraStreams
           /\ a0.handle = o.handle /\ a0.sinkShows = o.sinkShows
           /\ a0.stream[c] = q1 /\ \A b \in Streams \ {c} : a0.stream[b] = o.stream[b]
      BY <1>2, <2>1, <2>4, WithStreamParts
    <2> HIDE DEF a0
    <2>12. /\ a \in Worlds /\ a.cameraStreams = a0.cameraStreams
           /\ a.stream = a0.stream /\ a.sinkShows = a0.sinkShows
           /\ a.handle[h] = f1 /\ \A f \in Handles \ {h} : a.handle[f] = a0.handle[f]
      BY <2>6, <2>11, WithHandleParts
    <2> HIDE DEF a
    <2>13. /\ b0 \in Worlds /\ b0.cameraStreams = a.cameraStreams
           /\ b0.handle = a.handle /\ b0.sinkShows = a.sinkShows
           /\ b0.stream[c] = q2 /\ \A b \in Streams \ {c} : b0.stream[b] = a.stream[b]
      BY <2>1, <2>5, <2>12, WithStreamParts
    <2>14. addViewSink(a, c, k) = b1
      <3>1. b0 = [a EXCEPT !.stream[c].viewSinks = @ \cup {k}]
        BY <2>1, <2>10, <2>11, <2>12 DEF Worlds
      <3> HIDE DEF b0
      <3> QED BY <2>4, <2>11, <2>12, <3>1 DEF addViewSink
    <2> HIDE DEF b0
    <2>15. /\ b1 \in Worlds /\ b1.cameraStreams = b0.cameraStreams /\ b1.stream = b0.stream
           /\ b1.handle = b0.handle
           /\ \A s \in Sinks : b1.sinkShows[s] = IF s = k /\ q.lastFrame THEN q.dev
                                                 ELSE b0.sinkShows[s]
      <3>1. /\ Show(b0, {k}, q.dev) \in Worlds
            /\ Show(b0, {k}, q.dev).cameraStreams = b0.cameraStreams
            /\ Show(b0, {k}, q.dev).stream = b0.stream
            /\ Show(b0, {k}, q.dev).handle = b0.handle
            /\ \A s \in Sinks : Show(b0, {k}, q.dev).sinkShows[s] =
                                  IF s \in {k} /\ s \in liveSinks THEN q.dev ELSE b0.sinkShows[s]
        BY <2>3, <2>13, ShowTyped, ShowParts DEF StreamRecord
      <3>2. CASE q.lastFrame
        BY <2>2, <3>1, <3>2
      <3>3. CASE ~q.lastFrame
        BY <2>13, <3>3
      <3> QED BY <3>2, <3>3
    <2> HIDE DEF b1
    <2>16. /\ y \in Worlds /\ y.cameraStreams = b1.cameraStreams
           /\ y.stream = b1.stream /\ y.sinkShows = b1.sinkShows
           /\ y.handle[h] = f2 /\ \A f \in Handles \ {h} : y.handle[f] = b1.handle[f]
      BY <2>7, <2>15, WithHandleParts
    <2>17. z = y
      <3>1. b1.handle[h] = f1
        BY <2>12, <2>13, <2>15
      <3>2. z = [b1 EXCEPT !.handle[h].registered = TRUE]
        BY <1>3, <1>7, <2>8, <2>14
      <3> QED BY <2>9, <2>15, <3>1, <3>2 DEF Worlds
    <2> HIDE DEF y, q
    <2>18. /\ y.cameraStreams = o.cameraStreams
           /\ \A b \in Streams \ {c} : y.stream[b] = o.stream[b]
           /\ y.stream[c] = q2
           /\ \A g \in Handles \ {h} : y.handle[g] = o.handle[g]
           /\ y.handle[h] = f2
           /\ \A s \in Sinks : y.sinkShows[s] = IF s = k /\ o.stream[c].lastFrame
                                                THEN o.stream[c].dev ELSE o.sinkShows[s]
      BY <2>11, <2>12, <2>13, <2>15, <2>16 DEF q
    <2>19. ViewsInv(y)
      <3>1. /\ o.cameraStreams[o.handle[h].dev] = c /\ Linked(o)
            /\ Used(y, o, h, TRUE, o.handle[h].viewSink) /\ Mirror(y, h, c)
        BY <1>2, <2>5, <2>7, <2>18 DEF Used, Mirror, CaptureInv, c
      <3>2. /\ o.handle[h].dev \in Devices /\ o.handle[h].state # "free"
            /\ ~o.handle[h].registered /\ o.handle[h].viewSink \in Sinks
            /\ \A b \in Streams \ {c} : InUse(o, b)
        BY <1>1, <1>2, <1>4 DEF c
      <3>3. /\ y.stream[c].state = o.stream[c].state /\ y.stream[c].dev = o.stream[c].dev
            /\ y.stream[c].lastFrame = o.stream[c].lastFrame
            /\ y.stream[c].framesReceived = o.stream[c].framesReceived
            /\ y.stream[c].errorText = o.stream[c].errorText
            /\ y.stream[c].handles = o.stream[c].handles \cup {h}
            /\ y.stream[c].viewSinks = o.stream[c].viewSinks \cup {o.handle[h].viewSink}
            /\ \A s \in Sinks :
                  y.sinkShows[s] = IF s = o.handle[h].viewSink /\ o.stream[c].lastFrame
                                   THEN o.stream[c].dev ELSE o.sinkShows[s]
        BY <1>2, <2>5, <2>18 DEF q
      <3>4. o \in Worlds /\ Attached(o) /\ y \in Worlds
        BY <1>2, <2>15, <2>16
      <3>5. /\ y.cameraStreams = o.cameraStreams
            /\ \A b \in Streams \ {c} : y.stream[b] = o.stream[b]
            /\ \A g \in Handles \ {h} : y.handle[g] = o.handle[g]
        BY <2>18
      <3> HIDE DEF k, d
      <3> QED BY <2>1, <3>1, <3>2, <3>3, <3>4, <3>5, Registers
    <2>20. Beside(y, w, h)
      BY <1>2, <2>18 DEF Beside, Kept, SameButShown
    <2> QED BY <2>7, <2>17, <2>18, <2>19, <2>20 DEF z
  <1> QED BY <1>4, <1>6, <1>7

\* Giving h the sink s, which no other handle has, or taking its sink away.
LEMMA setViewSinkViews ==
  ASSUME NEW w \in Worlds, CaptureInv(w), ViewsInv(w), NEW h \in Handles,
         NEW e \in BackendTexts, NEW s \in Sinks \cup {None}, w.handle[h].state # "free",
         CanAttach(w, h, s), s \in liveSinks \cup {None},
         s # None => \A g \in Handles \ {h} : w.handle[g].viewSink # s
  PROVE  LET v == setViewSink(w, h, s, e)
         IN /\ ViewsInv(v) /\ Beside(v, w, h) /\ v.handle[h].viewSink = s
            /\ ~w.handle[h].registered =>
                  v.handle[h].registered \/ v.handle[h].hasFrame = w.handle[h].hasFrame
  <1> DEFINE u == Unregister(w, h)
             g == [u.handle[h] EXCEPT !.viewSink = s]
             v == [u EXCEPT !.handle[h] = g]
             z == setViewSink(w, h, s, e)
  <1>1. /\ u \in Worlds /\ CaptureInv(u) /\ SameHandles(u, w)
        /\ FreeStreams(w) \subseteq FreeStreams(u)
        /\ ViewsInv(u) /\ Beside(u, w, h) /\ Used(u, w, h, FALSE, w.handle[h].viewSink)
    BY UnregisterInv, UnregisterViews
  <1>2. ~w.handle[h].registered => u = w
    BY DEF Unregister
  <1>3. z = IF ViewSink(w, h) = s THEN w ELSE IF s # None THEN registerViewSink(v, h, e) ELSE v
    <2>1. v = [u EXCEPT !.handle[h].viewSink = s]
      BY <1>1 DEF Worlds
    <2> HIDE DEF v
    <2> QED BY <2>1 DEF setViewSink
  <1> HIDE DEF u, z
  <1>4. /\ g \in HandleRecord /\ g.state = w.handle[h].state /\ g.dev = w.handle[h].dev
        /\ g.running = w.handle[h].running /\ g.registered = FALSE /\ g.viewSink = s
        /\ g.hasFrame = u.handle[h].hasFrame
    BY <1>1, Parts DEF HandleRecord, Used
  <1> HIDE DEF g
  <1>5. /\ v \in Worlds /\ ViewsInv(v) /\ v.handle[h] = g /\ Beside(v, u, h)
        /\ v.cameraStreams = u.cameraStreams /\ v.stream = u.stream
    <2>1. u.handle[h].registered = FALSE
      BY <1>1 DEF Used
    <2>2. s # None => \A f \in Handles \ {h} : u.handle[f].viewSink # s
      BY <1>1 DEF Beside, Kept, SameButShown
    <2>3. g.state = "free" => g.viewSink = None
      BY <1>4
    <2>4. g.viewSink # None => \A f \in Handles \ {h} : u.handle[f].viewSink # g.viewSink
      BY <1>4, <2>2
    <2> QED BY <1>1, <1>4, <2>1, <2>3, <2>4, IdleViews DEF ViewsInv
  <1> HIDE DEF v
  <1>6. CaptureInv(v) /\ SameHandles(v, w)
    <2>1. SameHandles(v, w)
      BY <1>1, <1>4, <1>5 DEF SameHandles, Beside, Kept, SameButShown
    <2>2. SameCore(v, u)
      BY <1>1, <1>5, <2>1 DEF SameCore, SameStream, SameHandles
    <2> QED BY <1>1, <1>5, <2>1, <2>2, SameCoreInv
  <1>7. Beside(v, w, h)
    BY <1>1, <1>5, BesideTrans
  <1>8. CASE ViewSink(w, h) = s
    <2>1. w.handle[h].viewSink = s
      BY <1>8 DEF ViewSink, ViewsInv, Attached, Owned
    <2> QED BY <1>3, <1>8, <2>1 DEF Beside, Kept, SameButShown, z
  <1>9. CASE ViewSink(w, h) # s /\ s = None
    BY <1>2, <1>3, <1>4, <1>5, <1>7, <1>9 DEF z
  <1>10. CASE ViewSink(w, h) # s /\ s # None
    <2>1. Room(v, v.handle[h].dev)
      BY <1>1, <1>2, <1>4, <1>5, <1>6, <1>10 DEF CanAttach, Room, FreeStreams
    <2>2. z = registerViewSink(v, h, e)
      BY <1>3, <1>10
    <2>3. /\ ViewsInv(z) /\ Beside(z, v, h) /\ z.handle[h].viewSink = s
          /\ z.handle[h].registered \/ z.handle[h].hasFrame = v.handle[h].hasFrame
      BY <1>4, <1>5, <1>6, <1>10, <2>1, <2>2, registerViewSinkViews
    <2>4. Beside(z, w, h)
      BY <1>7, <2>3, BesideTrans
    <2> QED BY <1>2, <1>4, <1>5, <2>3, <2>4 DEF z
  <1> QED BY <1>8, <1>9, <1>10

LEMMA OnlyShownMapped ==
  ASSUME NEW w \in Worlds, NEW v \in Worlds, NEW c \in Streams, Mapped(w), OnlyShown(v, w, c)
  PROVE  Mapped(v)
  BY Parts DEF OnlyShown, SameButFrames, SameButShown, Mapped

\* The end of setHandleRunning().
LEMMA CountAndSwitchViews ==
  ASSUME NEW w \in Worlds, Mapped(w), Attached(w), NEW d \in Devices, NEW c \in Streams,
         w.cameraStreams[d] = c, NEW r \in BOOLEAN, \A b \in Streams \ {c} : InUse(w, b)
  PROVE  LET u == incrementRunningRefCount(w, c, r)
             v == DropIfUnused(setActive(u, c, u.stream[c].runningRefCount > 0), d, c)
         IN ViewsInv(v) /\ \A g \in Handles : Kept(v, w, g)
  <1> DEFINE u == incrementRunningRefCount(w, c, r)
             a == u.stream[c].runningRefCount > 0
             y == setActive(u, c, a)
             v == DropIfUnused(y, d, c)
  <1>1. /\ u \in Worlds /\ Attached(u)
        /\ u.handle = w.handle /\ u.cameraStreams = w.cameraStreams
        /\ \A b \in Streams \ {c} : u.stream[b] = w.stream[b]
        /\ u.stream[c].state = w.stream[c].state /\ u.stream[c].dev = w.stream[c].dev
    BY incrementRunningRefCountViews
  <1> HIDE DEF u
  <1>2. Mapped(u)
    BY <1>1, Parts DEF Mapped
  <1>3. \A b \in Streams \ {c} : InUse(u, b)
    BY <1>1 DEF InUse, isUnused
  <1>4. a \in BOOLEAN
    OBVIOUS
  <1> HIDE DEF a
  <1>5. /\ y \in Worlds /\ OnlyShown(y, u, c) /\ Attached(y)
        /\ \A g \in Handles : Kept(y, u, g)
        /\ \A b \in Streams : InUse(u, b) => InUse(y, b)
    BY <1>1, <1>2, <1>4, setActiveViews
  <1> HIDE DEF y
  <1>6. Mapped(y) /\ y.cameraStreams[d] = c
    BY <1>1, <1>2, <1>5, OnlyShownMapped DEF OnlyShown
  <1>7. ViewsInv(v) /\ \A g \in Handles : Kept(v, y, g)
    BY <1>3, <1>5, <1>6, DropIfUnusedViews
  <1> HIDE DEF v
  <1>8. \A g \in Handles : Kept(v, w, g)
    BY <1>1, <1>5, <1>7 DEF Kept, SameButShown
  <1> QED BY <1>7, <1>8 DEF v, y, a, u

\* Running a handle, or not any more, leaves its views and the others alone.
LEMMA setRunningViews ==
  ASSUME NEW w \in Worlds, CaptureInv(w), ViewsInv(w), NEW h \in Handles, NEW r \in BOOLEAN,
         NEW e \in BackendTexts, w.handle[h].state # "free",
         r => Room(w, w.handle[h].dev)
  PROVE  LET v == setRunning(w, h, r, e)
         IN /\ ViewsInv(v) /\ Beside(v, w, h)
            /\ v.handle[h].registered = w.handle[h].registered
            /\ v.handle[h].viewSink = w.handle[h].viewSink
            /\ ~w.handle[h].registered => v.handle[h].hasFrame = w.handle[h].hasFrame
  <1> DEFINE d == w.handle[h].dev
             g == [w.handle[h] EXCEPT !.running = r]
             u == [w EXCEPT !.handle[h] = g]
             v == IF r THEN ensureStreamForDeviceId(u, d, e) ELSE u
             c == v.cameraStreams[d]
             x == incrementRunningRefCount(v, c, r)
             y == DropIfUnused(setActive(x, c, x.stream[c].runningRefCount > 0), d, c)
             z == setRunning(w, h, r, e)
  <1>1. CASE w.handle[h].running = r
    BY <1>1 DEF setRunning, Beside, Kept, SameButShown
  <1>2. CASE w.handle[h].running # r
    <2>1. d \in Devices
      BY DEF CaptureInv, Linked
    <2>2. /\ g \in HandleRecord /\ g.dev = d
          /\ g.state = w.handle[h].state /\ g.registered = w.handle[h].registered
          /\ g.viewSink = w.handle[h].viewSink /\ g.hasFrame = w.handle[h].hasFrame
          /\ g.framesReceived = w.handle[h].framesReceived /\ g.errorText = w.handle[h].errorText
      BY Parts DEF HandleRecord
    <2> HIDE DEF g
    <2>3. /\ u \in Worlds /\ u.cameraStreams = w.cameraStreams
          /\ u.stream = w.stream /\ u.sinkShows = w.sinkShows
          /\ u.handle[h] = g /\ \A f \in Handles \ {h} : u.handle[f] = w.handle[f]
      BY <2>2, WithHandleParts
    <2>4. z = IF c # None THEN y
              ELSE IF r THEN [v EXCEPT !.handle[h].errorText = Unavailable] ELSE v
      <3>1. setRunning(w, h, r, e) = setHandleRunning(u, h, r, e)
        BY <1>2 DEF setRunning, g
      <3> HIDE DEF u
      <3> QED BY <2>2, <2>3, <3>1 DEF setHandleRunning
    <2> HIDE DEF u, z
    <2>5. Mapped(u) /\ \A b \in Streams : InUse(u, b)
      BY <2>2, <2>3 DEF CaptureInv, Linked, Mapped, ViewsInv, InUse, isUnused
    <2>6. Attached(u)
      <3>1. \A f \in Handles : /\ u.handle[f].state = w.handle[f].state
                               /\ u.handle[f].viewSink = w.handle[f].viewSink
                               /\ u.handle[f].registered = w.handle[f].registered
                               /\ u.handle[f].dev = w.handle[f].dev
                               /\ u.handle[f].hasFrame = w.handle[f].hasFrame
                               /\ u.handle[f].framesReceived = w.handle[f].framesReceived
                               /\ u.handle[f].errorText = w.handle[f].errorText
        BY <2>2, <2>3
      <3>2. Owned(u)
        BY <3>1 DEF ViewsInv, Attached, Owned
      <3>3. \A b \in Streams : Lists(u, b)
        BY <2>3, <3>1 DEF ViewsInv, Attached, Lists, On
      <3>4. \A f \in Handles : Mirrors(u, f)
        BY <2>3, <3>1 DEF ViewsInv, Attached, Mirrors, Mirror
      <3> QED BY <3>2, <3>3, <3>4 DEF Attached
    <2>7. /\ v \in Worlds /\ v.handle = u.handle /\ Attached(v) /\ Mapped(v)
          /\ \A b \in Streams : b # c => InUse(v, b)
          /\ ~r => v = u
      <3>1. CASE r
        <4>1. Room(u, d)
          BY <2>3, <3>1 DEF Room, FreeStreams
        <4> QED BY <2>1, <2>3, <2>5, <2>6, <3>1, <4>1, ensureStreamParts, ensureStreamViews
      <3>2. CASE ~r
        BY <2>3, <2>5, <2>6, <3>2
      <3> QED BY <3>1, <3>2
    <2> HIDE DEF v
    <2>8. /\ v.handle[h] = g
          /\ \A f \in Handles \ {h} : v.handle[f] = w.handle[f]
      BY <2>3, <2>7
    <2>9. c \in Streams \cup {None}
      BY <2>1, <2>7, Parts
    <2>10. CASE c # None
      <3>1. ViewsInv(y) /\ \A f \in Handles : Kept(y, v, f)
        <4>1. c \in Streams
          BY <2>9, <2>10
        <4>2. v.cameraStreams[d] = c
          OBVIOUS
        <4> HIDE DEF c, d
        <4> QED BY <2>1, <2>7, <4>1, <4>2, CountAndSwitchViews
      <3>2. z = y
        BY <2>4, <2>10
      <3> HIDE DEF y
      <3>3. Beside(y, w, h)
        BY <2>8, <3>1 DEF Beside, Kept
      <3> QED BY <2>2, <2>8, <3>1, <3>2, <3>3 DEF Kept, SameButShown, z
    <2>11. CASE c = None /\ r
      <3> DEFINE f1 == [g EXCEPT !.errorText = Unavailable]
      <3>1. ~g.registered
        BY <2>2, <2>7, <2>8, <2>11 DEF Attached, Mirrors
      <3>2. /\ f1 \in HandleRecord /\ f1.registered = g.registered /\ f1.state = g.state
            /\ f1.viewSink = g.viewSink /\ f1.hasFrame = g.hasFrame
        BY <2>2 DEF HandleRecord, Texts
      <3>3. z = [v EXCEPT !.handle[h] = f1]
        BY <2>4, <2>7, <2>8, <2>11 DEF Worlds
      <3> HIDE DEF f1
      <3>4. /\ f1.viewSink \in liveSinks \cup {None} /\ (f1.state = "free" => f1.viewSink = None)
            /\ f1.viewSink # None => \A f \in Handles \ {h} : v.handle[f].viewSink # f1.viewSink
        BY <2>7, <2>8, <3>2 DEF Attached, Owned
      <3>5. /\ Attached(z) /\ z.handle[h] = f1 /\ Beside(z, v, h)
            /\ \A b \in Streams : InUse(v, b) => InUse(z, b)
        BY <2>7, <2>8, <3>1, <3>2, <3>3, <3>4, IdleViews
      <3>6. ViewsInv(z)
        BY <2>7, <2>11, <3>5, MediaCaptureAssumption DEF ViewsInv
      <3>7. Beside(z, w, h)
        BY <2>8, <3>5 DEF Beside, Kept
      <3> QED BY <2>2, <3>2, <3>5, <3>6, <3>7 DEF z
    <2>12. CASE c = None /\ ~r
      <3>1. z = v
        BY <2>4, <2>12
      <3>2. ViewsInv(v)
        BY <2>7, <2>12, MediaCaptureAssumption DEF ViewsInv
      <3>3. Beside(v, w, h)
        BY <2>8 DEF Beside, Kept, SameButShown
      <3> QED BY <2>2, <2>8, <3>1, <3>2, <3>3 DEF z
    <2> QED BY <2>10, <2>11, <2>12
  <1> QED BY <1>1, <1>2

LEMMA acquireViews ==
  ASSUME NEW w \in Worlds, ViewsInv(w), NEW h \in Handles, w.handle[h].state = "free",
         NEW d \in Devices
  PROVE  LET v == acquireCameraPreviewHandle(w, d, h)
         IN /\ v \in Worlds /\ ViewsInv(v) /\ Beside(v, w, h)
            /\ v.handle[h] = NewHandle("alive", d)
            /\ v.stream = w.stream /\ v.cameraStreams = w.cameraStreams
  <1> DEFINE g == NewHandle("alive", d)
  <1>1. /\ g \in HandleRecord /\ ~g.registered /\ g.viewSink = None
    BY DEF NewHandle, HandleRecord, Texts, BackendTexts
  <1>2. acquireCameraPreviewHandle(w, d, h) = [w EXCEPT !.handle[h] = g]
    BY DEF acquireCameraPreviewHandle
  <1> HIDE DEF g
  <1>3. ~w.handle[h].registered
    BY DEF ViewsInv, Attached, Owned
  <1> QED BY <1>1, <1>2, <1>3, IdleViews DEF ViewsInv, g

LEMMA closeViews ==
  ASSUME NEW w \in Worlds, CaptureInv(w), ViewsInv(w), NEW h \in Handles,
         w.handle[h].state # "free"
  PROVE  LET v == close(w, h)
         IN /\ ViewsInv(v) /\ Beside(v, w, h)
            /\ v.handle[h].viewSink = None /\ v.handle[h].state = "closing"
  <1> DEFINE u == setRunning(w, h, FALSE, "")
             v == setViewSink(u, h, None, "")
             g == [v.handle[h] EXCEPT !.state = "closing"]
             x == [v EXCEPT !.handle[h] = g]
  <1>1. "" \in BackendTexts
    BY DEF BackendTexts
  <1>2. /\ u \in Worlds /\ CaptureInv(u) /\ OnlyRunning(u, w, h, FALSE)
        /\ ViewsInv(u) /\ Beside(u, w, h)
    BY <1>1, setRunningInv, setRunningViews
  <1>3. close(w, h) = x
    BY DEF close
  <1> HIDE DEF u
  <1>4. u.handle[h].state # "free"
    BY <1>2 DEF OnlyRunning
  <1>5. v \in Worlds /\ ViewsInv(v) /\ Beside(v, u, h) /\ v.handle[h].viewSink = None
    <2>1. CanAttach(u, h, None)
      BY DEF CanAttach
    <2>2. v \in Worlds
      BY <1>1, <1>2, <1>4, <2>1, setViewSinkInv
    <2>3. ViewsInv(v) /\ Beside(v, u, h) /\ v.handle[h].viewSink = None
      <3>1. None \in Sinks \cup {None} /\ None \in liveSinks \cup {None}
        OBVIOUS
      <3> HIDE DEF v
      <3>2. \A s \in Sinks \cup {None} :
               s = None => /\ ViewsInv(setViewSink(u, h, s, ""))
                           /\ Beside(setViewSink(u, h, s, ""), u, h)
                           /\ setViewSink(u, h, s, "").handle[h].viewSink = s
        BY <1>1, <1>2, <1>4, <2>1, setViewSinkViews
      <3> QED BY <3>2 DEF v
    <2> QED BY <2>2, <2>3
  <1> HIDE DEF v
  <1>6. ~v.handle[h].registered
    BY <1>5 DEF ViewsInv, Attached, Owned
  <1>7. /\ g \in HandleRecord /\ g.state = "closing" /\ g.viewSink = None
        /\ g.registered = v.handle[h].registered
    BY <1>5, Parts DEF HandleRecord
  <1> HIDE DEF g
  <1>8. /\ Attached(x) /\ x.handle[h] = g /\ Beside(x, v, h)
        /\ \A b \in Streams : InUse(v, b) => InUse(x, b)
    BY <1>5, <1>6, <1>7, IdleViews DEF ViewsInv
  <1> HIDE DEF x
  <1>9. ViewsInv(x)
    BY <1>5, <1>8 DEF ViewsInv
  <1>10. Beside(x, w, h)
    BY <1>2, <1>5, <1>8, BesideTrans
  <1> QED BY <1>3, <1>7, <1>8, <1>9, <1>10

LEMMA destroyHandleViews ==
  ASSUME NEW w \in Worlds, CaptureInv(w), ViewsInv(w), NEW h \in Handles,
         w.handle[h].state # "free"
  PROVE  LET v == destroyHandle(w, h)
         IN /\ ViewsInv(v) /\ Beside(v, w, h)
            /\ v.handle[h] = NewHandle("free", None)
  <1> DEFINE u == setRunning(w, h, FALSE, "")
             v == Unregister(u, h)
             g == NewHandle("free", None)
             x == [v EXCEPT !.handle[h] = g]
  <1>1. /\ u \in Worlds /\ CaptureInv(u) /\ OnlyRunning(u, w, h, FALSE)
        /\ ViewsInv(u) /\ Beside(u, w, h)
    BY setRunningInv, setRunningViews DEF BackendTexts
  <1>2. destroyHandle(w, h) = x
    BY DEF destroyHandle
  <1> HIDE DEF u
  <1>3. u.handle[h].state # "free"
    BY <1>1 DEF OnlyRunning
  <1>4. v \in Worlds /\ ViewsInv(v) /\ Beside(v, u, h) /\ v.handle[h].registered = FALSE
    BY <1>1, <1>3, UnregisterInv, UnregisterViews DEF Used
  <1> HIDE DEF v
  <1>5. /\ g \in HandleRecord /\ ~g.registered /\ g.viewSink = None
    BY DEF NewHandle, HandleRecord, Texts, BackendTexts
  <1> HIDE DEF g
  <1>6. /\ Attached(x) /\ x.handle[h] = g /\ Beside(x, v, h)
        /\ \A b \in Streams : InUse(v, b) => InUse(x, b)
    BY <1>4, <1>5, IdleViews DEF ViewsInv
  <1> HIDE DEF x
  <1>7. ViewsInv(x)
    BY <1>4, <1>6 DEF ViewsInv
  <1>8. Beside(x, w, h)
    BY <1>1, <1>4, <1>6, BesideTrans
  <1> QED BY <1>2, <1>6, <1>7, <1>8 DEF g

-----------------------------------------------------------------------------
(* The contract: what the guards of the actions grant when it is kept.     *)

Contract == ~SharedSinks /\ ~SinkDeaths

\* The streams that are not in the map any more, or whose frames are counted otherwise.
LEMMA RenewedViews ==
  ASSUME NEW w \in Worlds, Mapped(w), ViewsInv(w), NEW v,
         v.cameraStreams = w.cameraStreams, v.handle = w.handle, v.sinkShows = w.sinkShows,
         \A b \in Streams : /\ v.stream[b].handles = w.stream[b].handles
                            /\ v.stream[b].viewSinks = w.stream[b].viewSinks
                            /\ IF v.stream[b].state = "live"
                               THEN /\ v.stream[b].lastFrame = w.stream[b].lastFrame
                                    /\ v.stream[b].framesReceived = w.stream[b].framesReceived
                                    /\ v.stream[b].errorText = w.stream[b].errorText
                                    /\ v.stream[b].runningRefCount = w.stream[b].runningRefCount
                                    /\ w.stream[b].state = "live"
                               ELSE w.stream[b].state # "live"
  PROVE  ViewsInv(v)
  <1>1. Owned(v) /\ \A b \in Streams : Lists(v, b)
    BY DEF ViewsInv, Attached, Owned, Lists, On
  <1>2. ASSUME NEW h \in Handles PROVE Mirrors(v, h)
    <2> DEFINE c == w.cameraStreams[w.handle[h].dev]
    <2>1. w.handle[h].registered => c \in Streams /\ w.stream[c].state = "live"
      BY OnStream DEF ViewsInv
    <2>2. Mirrors(w, h)
      BY DEF ViewsInv, Attached
    <2> QED BY <2>1, <2>2 DEF Mirrors, Mirror
  <1>3. \A b \in Streams : InUse(v, b)
    BY DEF ViewsInv, InUse, isUnused
  <1> QED BY <1>1, <1>2, <1>3 DEF ViewsInv, Attached

\* An action that ends in Become(w), for a w that has what the invariant asks.
LEMMA BecomeViews ==
  ASSUME NEW w \in Worlds, ViewsInv(w), Become(w), UNCHANGED liveSinks
  PROVE  ViewsInv(World)'
  <1>1. ViewsInv(World')
    BY BecomeWorld
  <1> QED BY <1>1 DEF ViewsInv, Attached, Owned, Lists, Mirrors, Mirror, InUse, isUnused, On

\* The guard of SetViewSink grants the sink to one handle.
LEMMA SetViewSinkViews ==
  ASSUME Contract, TypeOK, CaptureInv(World), ViewsInv(World),
         NEW h \in Handles, NEW s \in liveSinks \cup {None}, SetViewSink(h, s)
  PROVE  ViewsInv(World)'
  <1>1. World \in Worlds /\ World.handle[h].state # "free" /\ s \in Sinks \cup {None}
    BY WorldTyped DEF SetViewSink, World, TypeOK
  <1>2. CanAttach(World, h, s)
    BY RoomForStreamIsRoom DEF SetViewSink, CanAttach, World
  <1>3. s # None => \A g \in Handles \ {h} : World.handle[g].viewSink # s
    BY DEF SetViewSink, MayUse, Contract, World
  <1>4. PICK e \in BackendTexts : Become(setViewSink(World, h, s, e))
    BY DEF SetViewSink
  <1>5. setViewSink(World, h, s, e) \in Worlds /\ ViewsInv(setViewSink(World, h, s, e))
    BY <1>1, <1>2, <1>3, setViewSinkInv, setViewSinkViews
  <1> QED BY <1>4, <1>5, BecomeViews DEF SetViewSink

LEMMA HandleViews ==
  ASSUME TypeOK, CaptureInv(World), ViewsInv(World), NEW h \in Handles,
         \/ \E d \in Devices : Acquire(h, d)
         \/ \E r \in BOOLEAN : SetRunning(h, r)
         \/ Close(h)
         \/ DestroyHandle(h)
  PROVE  ViewsInv(World)'
  <1>1. World \in Worlds
    BY WorldTyped
  <1>2. ASSUME NEW d \in Devices, Acquire(h, d) PROVE ViewsInv(World)'
    <2>1. World.handle[h].state = "free"
      BY <1>2 DEF Acquire, World
    <2>2. /\ acquireCameraPreviewHandle(World, d, h) \in Worlds
          /\ ViewsInv(acquireCameraPreviewHandle(World, d, h))
      BY <1>1, <2>1, acquireViews
    <2> QED BY <1>2, <2>2, BecomeViews DEF Acquire
  <1>3. ASSUME NEW r \in BOOLEAN, SetRunning(h, r) PROVE ViewsInv(World)'
    <2>1. World.handle[h].state # "free" /\ (r => Room(World, World.handle[h].dev))
      BY <1>3, RoomForStreamIsRoom DEF SetRunning, World
    <2>2. PICK e \in BackendTexts : Become(setRunning(World, h, r, e))
      BY <1>3 DEF SetRunning
    <2>3. setRunning(World, h, r, e) \in Worlds /\ ViewsInv(setRunning(World, h, r, e))
      BY <1>1, <2>1, setRunningInv, setRunningViews
    <2> QED BY <1>3, <2>2, <2>3, BecomeViews DEF SetRunning
  <1>4. ASSUME Close(h) PROVE ViewsInv(World)'
    <2>1. World.handle[h].state # "free"
      BY <1>4 DEF Close, World
    <2>2. close(World, h) \in Worlds /\ ViewsInv(close(World, h))
      BY <1>1, <2>1, closeInv, closeViews
    <2> QED BY <1>4, <2>2, BecomeViews DEF Close
  <1>5. ASSUME DestroyHandle(h) PROVE ViewsInv(World)'
    <2>1. World.handle[h].state # "free"
      BY <1>5 DEF DestroyHandle, World
    <2>2. destroyHandle(World, h) \in Worlds /\ ViewsInv(destroyHandle(World, h))
      BY <1>1, <2>1, destroyHandleInv, destroyHandleViews
    <2> QED BY <1>5, <2>2, BecomeViews DEF DestroyHandle
  <1> QED BY <1>2, <1>3, <1>4, <1>5

\* A stream that is deleted lists nothing any more.
LEMMA DestroyStreamViews ==
  ASSUME TypeOK, CaptureInv(World), ViewsInv(World), NEW c \in Streams, DestroyStream(c)
  PROVE  ViewsInv(World)'
  <1>1. World \in Worlds /\ Mapped(World) /\ World.stream[c].state = "doomed"
    BY WorldTyped, LinkedMapped DEF CaptureInv, DestroyStream, World
  <1>2. \A h \in Handles : ~On(World, h, c)
    BY <1>1, OnStream DEF On, ViewsInv
  <1>3. World.stream[c].handles = {} /\ World.stream[c].viewSinks = {}
    <2>1. World.stream[c].handles \subseteq Handles /\ World.stream[c].viewSinks \subseteq Sinks
      BY <1>1, Parts DEF StreamRecord
    <2> QED BY <1>2, <2>1 DEF ViewsInv, Attached, Lists
  <1>4. /\ World'.cameraStreams = World.cameraStreams /\ World'.handle = World.handle
        /\ World'.sinkShows = World.sinkShows
        /\ World'.stream[c] = NewStream("free", None, "")
        /\ \A b \in Streams \ {c} : World'.stream[b] = World.stream[b]
    BY DEF DestroyStream, World, TypeOK
  <1>5. ViewsInv(World')
    <2>1. /\ World'.stream[c].state = "free"
          /\ World'.stream[c].handles = World.stream[c].handles
          /\ World'.stream[c].viewSinks = World.stream[c].viewSinks
      <3> DEFINE r == NewStream("free", None, "")
      <3>1. r.state = "free" /\ r.handles = {} /\ r.viewSinks = {}
        BY DEF NewStream
      <3> HIDE DEF r
      <3>2. World'.stream[c] = r
        BY <1>4 DEF r
      <3> QED BY <1>3, <3>1, <3>2
    <2>2. \A b \in Streams :
             /\ World'.stream[b].handles = World.stream[b].handles
             /\ World'.stream[b].viewSinks = World.stream[b].viewSinks
             /\ IF World'.stream[b].state = "live"
                THEN World'.stream[b] = World.stream[b]
                ELSE World.stream[b].state # "live"
      BY <1>1, <1>4, <2>1
    <2> QED BY <1>1, <1>4, <2>2, RenewedViews
  <1>6. World' \in Worlds /\ Become(World') /\ UNCHANGED liveSinks
    BY DestroyStreamInv, WorldTyped DEF DestroyStream, Become, World, TypeOK, Worlds
  <1> QED BY <1>5, <1>6 DEF ViewsInv, Attached, Owned, Lists, Mirrors, Mirror, InUse, isUnused, On

\* What a queue of frames holds is none of what is attached.
LEMMA PendingViews ==
  ASSUME NEW w \in Worlds, Linked(w), ViewsInv(w), NEW c \in Streams, NEW n \in Nat
  PROVE  LET v == [w EXCEPT !.stream[c].pending = n]
         IN v \in Worlds /\ Mapped(v) /\ ViewsInv(v)
  <1> DEFINE r == [w.stream[c] EXCEPT !.pending = n]
             v == [w EXCEPT !.stream[c] = r]
  <1>1. /\ r \in StreamRecord /\ r.state = w.stream[c].state /\ r.dev = w.stream[c].dev
        /\ r.handles = w.stream[c].handles /\ r.viewSinks = w.stream[c].viewSinks
        /\ r.lastFrame = w.stream[c].lastFrame /\ r.errorText = w.stream[c].errorText
        /\ r.framesReceived = w.stream[c].framesReceived
        /\ r.runningRefCount = w.stream[c].runningRefCount
    BY Parts DEF StreamRecord
  <1>2. [w EXCEPT !.stream[c].pending = n] = v
    BY DEF Worlds
  <1> HIDE DEF r
  <1>3. /\ v \in Worlds /\ v.cameraStreams = w.cameraStreams
        /\ v.handle = w.handle /\ v.sinkShows = w.sinkShows
        /\ v.stream[c] = r /\ \A b \in Streams \ {c} : v.stream[b] = w.stream[b]
    BY <1>1, WithStreamParts
  <1> HIDE DEF v
  <1>4. Mapped(w)
    BY LinkedMapped
  <1>5. Mapped(v)
    BY <1>1, <1>3, <1>4, Parts DEF Mapped
  <1>6. ViewsInv(v)
    BY <1>1, <1>3, <1>4, RenewedViews
  <1> QED BY <1>2, <1>3, <1>5, <1>6

LEMMA StreamViews ==
  ASSUME TypeOK, CaptureInv(World), ViewsInv(World), NEW c \in Streams,
         \/ BackendFrame(c)
         \/ DeliverFrame(c)
         \/ \E t \in BackendTexts : BackendErrorText(c, t)
  PROVE  ViewsInv(World)'
  <1>1. World \in Worlds /\ stream[c].pending \in Nat /\ Linked(World) /\ Mapped(World)
    BY WorldTyped, LinkedMapped DEF TypeOK, StreamRecord, CaptureInv
  <1>2. CASE BackendFrame(c) /\ QueuedDelivery
    <2> DEFINE w == [World EXCEPT !.stream[c].pending = stream[c].pending + 1]
    <2>1. w \in Worlds /\ ViewsInv(w)
      <3>1. stream[c].pending + 1 \in Nat /\ World.stream[c].pending = stream[c].pending
        BY <1>1 DEF World
      <3> QED BY <1>1, <3>1, PendingViews
    <2>2. Become(w)
      BY <1>2 DEF BackendFrame, Become, World
    <2> HIDE DEF w
    <2> QED BY <1>2, <2>1, <2>2, BecomeViews DEF BackendFrame
  <1>3. CASE BackendFrame(c) /\ ~QueuedDelivery
    <2>1. /\ onVideoFrameChanged(World, c) \in Worlds
          /\ ViewsInv(onVideoFrameChanged(World, c))
      BY <1>1, onVideoFrameChangedViews DEF ViewsInv
    <2> QED BY <1>3, <2>1, BecomeViews DEF BackendFrame
  <1>4. CASE DeliverFrame(c)
    <2> DEFINE w == [World EXCEPT !.stream[c].pending = stream[c].pending - 1]
               v == onVideoFrameChanged(w, c)
    <2>1. stream[c].pending - 1 \in Nat
      BY <1>1, <1>4 DEF DeliverFrame
    <2>2. w \in Worlds /\ Mapped(w) /\ ViewsInv(w)
      BY <1>1, <2>1, PendingViews
    <2>3. Become(v)
      BY <1>4 DEF DeliverFrame, World
    <2> HIDE DEF w
    <2>4. v \in Worlds /\ ViewsInv(v)
      BY <2>2, onVideoFrameChangedViews DEF ViewsInv
    <2> HIDE DEF v
    <2> QED BY <1>4, <2>3, <2>4, BecomeViews DEF DeliverFrame
  <1>5. ASSUME NEW t \in BackendTexts, BackendErrorText(c, t) PROVE ViewsInv(World)'
    <2>1. /\ onBackendErrorTextChanged(World, c, t) \in Worlds
          /\ ViewsInv(onBackendErrorTextChanged(World, c, t))
      BY <1>1, onBackendErrorTextChangedViews DEF ViewsInv
    <2> QED BY <1>5, <2>1, BecomeViews DEF BackendErrorText
  <1> QED BY <1>2, <1>3, <1>4, <1>5

\* A device that comes or goes takes no stream away.
LEMMA PlugViews ==
  ASSUME TypeOK, CaptureInv(World), ViewsInv(World), NEW d \in Devices, Plug(d) \/ Unplug(d)
  PROVE  ViewsInv(World)'
  <1>1. World \in Worlds /\ Mapped(World)
    BY WorldTyped, LinkedMapped DEF CaptureInv
  <1>2. /\ World'.cameraStreams = World.cameraStreams /\ World'.handle = World.handle
        /\ World'.sinkShows = World.sinkShows /\ UNCHANGED liveSinks
    BY DEF Plug, Unplug, World
  <1>3. ASSUME NEW b \in Streams
        PROVE  World'.stream[b] \in {World.stream[b], [World.stream[b] EXCEPT !.lost = TRUE]}
    BY DEF Plug, Unplug, World
  <1>4. \A b \in Streams : World.stream[b] \in StreamRecord
    BY <1>1, Parts
  <1>5. ViewsInv(World')
    <2>1. \A b \in Streams :
             /\ World'.stream[b].handles = World.stream[b].handles
             /\ World'.stream[b].viewSinks = World.stream[b].viewSinks
             /\ World'.stream[b].state = World.stream[b].state
             /\ World'.stream[b].lastFrame = World.stream[b].lastFrame
             /\ World'.stream[b].framesReceived = World.stream[b].framesReceived
             /\ World'.stream[b].errorText = World.stream[b].errorText
             /\ World'.stream[b].runningRefCount = World.stream[b].runningRefCount
      BY <1>3, <1>4 DEF StreamRecord
    <2> QED BY <1>1, <1>2, <2>1, RenewedViews
  <1> QED BY <1>2, <1>5
          DEF ViewsInv, Attached, Owned, Lists, Mirrors, Mirror, InUse, isUnused, On

\* A sink goes only when no handle has it.
LEMMA PlatformViews ==
  ASSUME Contract, TypeOK, CaptureInv(World), ViewsInv(World),
         \/ \E s \in Sinks : DestroySink(s)
         \/ \E d \in Devices : Plug(d) \/ Unplug(d)
  PROVE  ViewsInv(World)'
  <1>1. World \in Worlds /\ Mapped(World)
    BY WorldTyped, LinkedMapped DEF CaptureInv
  <1>2. ASSUME NEW d \in Devices, Plug(d) \/ Unplug(d) PROVE ViewsInv(World)'
    BY <1>2, PlugViews
  <1>3. ASSUME NEW x \in Sinks, DestroySink(x) PROVE ViewsInv(World)'
    <2>1. /\ World'.cameraStreams = World.cameraStreams /\ World'.handle = World.handle
          /\ World'.stream = World.stream /\ liveSinks' = liveSinks \ {x}
          /\ \A s \in Sinks : World'.sinkShows[s] \in {World.sinkShows[s], None}
          /\ \A h \in Handles : World.handle[h].viewSink # x
      BY <1>3 DEF DestroySink, World, TypeOK, Contract
    <2>2. Owned(World)'
      BY <2>1 DEF ViewsInv, Attached, Owned
    <2>3. \A c \in Streams : Lists(World', c) /\ InUse(World', c)
      BY <2>1 DEF ViewsInv, Attached, Lists, On, InUse, isUnused
    <2>4. ASSUME NEW h \in Handles PROVE Mirrors(World', h)
      <3>1. World.handle[h].registered => World.handle[h].viewSink \in Sinks
        BY <1>1, OnStream DEF ViewsInv
      <3>2. Mirrors(World, h)
        BY DEF ViewsInv, Attached
      <3> QED BY <2>1, <3>1, <3>2 DEF Mirrors, Mirror
    <2> QED BY <2>2, <2>3, <2>4 DEF ViewsInv, Attached, Lists, Mirrors, Mirror, InUse, isUnused, On
  <1> QED BY <1>2, <1>3

\* What the contract adds to the invariant of every client.
Views == Inv /\ ViewsInv(World)

LEMMA InitViews == Init => ViewsInv(World)
  <1> SUFFICES ASSUME Init PROVE ViewsInv(World)
    OBVIOUS
  <1>1. /\ \A c \in Streams : /\ World.stream[c].state = "free"
                              /\ World.stream[c].handles = {} /\ World.stream[c].viewSinks = {}
        /\ \A h \in Handles : ~World.handle[h].registered /\ World.handle[h].viewSink = None
    BY DEF Init, World, NewStream, NewHandle
  <1> QED BY <1>1 DEF ViewsInv, Attached, Owned, Lists, Mirrors, InUse, On

LEMMA StepViews ==
  ASSUME Contract, TypeOK, CaptureInv(World), ViewsInv(World), [Next]_vars
  PROVE  ViewsInv(World)'
  <1>1. CASE UNCHANGED vars
    <2>1. UNCHANGED <<World, liveSinks>>
      BY <1>1 DEF vars, World
    <2> QED BY <2>1 DEF ViewsInv, Attached, Owned, Lists, Mirrors, Mirror, InUse, isUnused, On
  <1>2. ASSUME NEW h \in Handles, \E s \in liveSinks \cup {None} : SetViewSink(h, s)
        PROVE  ViewsInv(World)'
    BY <1>2, SetViewSinkViews
  <1>3. ASSUME NEW h \in Handles,
               \/ \E d \in Devices : Acquire(h, d)
               \/ \E r \in BOOLEAN : SetRunning(h, r)
               \/ Close(h)
               \/ DestroyHandle(h)
        PROVE  ViewsInv(World)'
    BY <1>3, HandleViews
  <1>4. ASSUME NEW c \in Streams,
               \/ DestroyStream(c)
               \/ BackendFrame(c)
               \/ DeliverFrame(c)
               \/ \E t \in BackendTexts : BackendErrorText(c, t)
        PROVE  ViewsInv(World)'
    BY <1>4, DestroyStreamViews, StreamViews
  <1> QED BY <1>1, <1>2, <1>3, <1>4, PlatformViews DEF Next

\* Under the contract - no sink is shared, none dies while a handle uses it - lists, mirrors
\* and use of the streams stay right in every behaviour.
THEOREM ViewsInvariant ==
  ASSUME Contract
  PROVE  Spec => []Views
  <1>1. Init => ViewsInv(World)
    BY InitViews
  <1>2. Inv /\ ViewsInv(World) /\ [Next]_vars => ViewsInv(World)'
    BY StepViews DEF Inv
  <1>3. []Inv /\ Init /\ [][Next]_vars => []ViewsInv(World)
    BY <1>1, <1>2, PTL
  <1> QED BY <1>3, Invariant, PTL DEF Spec, Views

LEMMA ViewsUsed == Views => StreamsAreUsed
  <1> SUFFICES ASSUME TypeOK, CaptureInv(World), ViewsInv(World),
                      NEW d \in Devices, cameraStreams[d] # None
               PROVE  \E h \in Handles : /\ handle[h].state # "free" /\ handle[h].dev = d
                                         /\ handle[h].registered \/ handle[h].running
    BY DEF StreamsAreUsed, Views, Inv
  <1> DEFINE c == cameraStreams[d]
  <1>1. /\ c \in Streams /\ World \in Worlds /\ Mapped(World) /\ Attached(World)
        /\ World.stream[c].state = "live" /\ World.stream[c].dev = d
    BY WorldTyped, LinkedMapped DEF TypeOK, CaptureInv, Linked, ViewsInv, World
  <1> HIDE DEF c
  <1>2. CASE World.stream[c].viewSinks # {}
    <2>1. PICK h \in Handles : On(World, h, c)
      BY <1>1, <1>2, Parts DEF StreamRecord, Attached, Lists
    <2>2. World.handle[h].state # "free" /\ World.handle[h].dev = d
      BY <1>1, <2>1, OnStream DEF On
    <2> QED BY <2>1, <2>2 DEF On, World
  <1>3. CASE World.stream[c].viewSinks = {}
    <2> DEFINE n == World.stream[c].runningRefCount
    <2>1. n \in Nat /\ n # 0
      BY <1>1, <1>3, Parts DEF StreamRecord, ViewsInv, InUse, isUnused
    <2>2. n <= Cardinality(RunnersIn(World, d))
      BY <1>1 DEF CaptureInv, Counted
    <2>3. Cardinality(RunnersIn(World, d)) # 0
      BY <2>1, <2>2, RunnersFinite
    <2>4. RunnersIn(World, d) # {}
      BY <2>3, FS_EmptySet
    <2> QED BY <2>4 DEF RunnersIn, World
  <1> QED BY <1>2, <1>3

\* A stream stays in the map only for a handle that is attached to it or runs it: whatever
\* order views and running requests go in, activeCameraCount() leaks nothing.
THEOREM StreamsUsed ==
  ASSUME Contract
  PROVE  Spec => []StreamsAreUsed
  BY ViewsUsed, ViewsInvariant, PTL

LEMMA ViewsMirror == Views => AttachedMirrorsStream
  <1> SUFFICES ASSUME TypeOK, CaptureInv(World), ViewsInv(World),
                      NEW h \in Handles, handle[h].registered
               PROVE  LET c == cameraStreams[handle[h].dev]
                      IN /\ c # None /\ h \in stream[c].handles
                         /\ handle[h].hasFrame = stream[c].lastFrame
                         /\ handle[h].framesReceived = stream[c].framesReceived
                         /\ handle[h].errorText = stream[c].errorText
    BY DEF AttachedMirrorsStream, Views, Inv
  <1>1. World \in Worlds /\ Mapped(World) /\ World.handle[h].registered
    BY WorldTyped, LinkedMapped DEF CaptureInv, World
  <1>2. h \in World.stream[World.cameraStreams[World.handle[h].dev]].handles
    BY <1>1, OnStream DEF ViewsInv
  <1>3. Mirrors(World, h)
    BY DEF ViewsInv, Attached
  <1> QED BY <1>1, <1>2, <1>3 DEF Mirrors, Mirror, World

\* Every attached handle is listed by its device's stream and shows that stream's frame state
\* and error, through any order of fan-outs, stops, errors, late frames and re-attachments.
THEOREM MirrorsStream ==
  ASSUME Contract
  PROVE  Spec => []AttachedMirrorsStream
  BY ViewsMirror, ViewsInvariant, PTL

LEMMA ViewsList == Views => ListsExactlyAttached
  <1> SUFFICES ASSUME TypeOK, CaptureInv(World), ViewsInv(World), NEW c \in Streams
               PROVE  LET attached == {h \in Handles : /\ handle[h].registered
                                                       /\ cameraStreams[handle[h].dev] = c}
                      IN /\ stream[c].handles = attached
                         /\ stream[c].viewSinks = {handle[h].viewSink : h \in attached}
    BY DEF ListsExactlyAttached, Views, Inv
  <1> DEFINE attached == {h \in Handles : On(World, h, c)}
  <1>1. World \in Worlds /\ Mapped(World) /\ Attached(World) /\ Lists(World, c)
    BY WorldTyped, LinkedMapped DEF CaptureInv, ViewsInv, Attached
  <1>2. World.stream[c].handles \subseteq Handles /\ World.stream[c].viewSinks \subseteq Sinks
    BY <1>1, Parts DEF StreamRecord
  <1>3. World.stream[c].handles = attached
    BY <1>1, <1>2 DEF Lists
  <1>4. World.stream[c].viewSinks = {World.handle[h].viewSink : h \in attached}
    <2>1. \A h \in attached : World.handle[h].viewSink \in Sinks
      BY <1>1, OnStream DEF On
    <2> QED BY <1>1, <1>2, <2>1 DEF Lists
  <1> QED BY <1>3, <1>4 DEF On, World

\* A stream lists exactly the handles attached to it and their sinks, and a stream out of the
\* map lists nothing: no attached view misses its frames and no detached one gets any.
THEOREM ListsAttached ==
  ASSUME Contract
  PROVE  Spec => []ListsExactlyAttached
  BY ViewsList, ViewsInvariant, PTL

=============================================================================
