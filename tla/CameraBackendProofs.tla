------------------------ MODULE CameraBackendProofs -------------------------
(***************************************************************************)
(* Proofs about the DirectShow camera backend, for cameras with any number *)
(* of formats of any size, and any number of posted calls: the streaming   *)
(* thread finds stream and callback alive, reads inside its sample, and    *)
(* the stream keeps the promises of CameraStreamBackend.  Then about the   *)
(* router, for any cameras: what is proved of a DirectShow stream holds of *)
(* the one behind the router, and a stream is always one of the camera     *)
(* whose id was asked for.                                                 *)
(***************************************************************************)
EXTENDS RoutingCameraBackend, FiniteSetTheorems, SequenceTheorems, TLAPS

-----------------------------------------------------------------------------
(* Rows *)

\* The bytes of a row that are read are within its stride: padding makes an odd pair whole.
LEMMA RowFits ==
  ASSUME NEW f, f.width \in Nat, f.stride = Stride(f.width, f.bitsPerPixel), Supported(f)
  PROVE  f.stride \in Nat /\ RowBytes(f) \in Nat /\ RowBytes(f) <= f.stride
  <1>1. CASE f.subtype = "RGB32"
    BY <1>1 DEF Supported, Stride, RowBytes, BitsOf
  <1>2. CASE f.subtype = "RGB24"
    BY <1>2 DEF Supported, Stride, RowBytes, BitsOf
  <1>3. CASE f.subtype \in {"YUY2", "UYVY"}
    BY <1>3 DEF Supported, Stride, RowBytes, BitsOf
  <1> QED BY <1>1, <1>2, <1>3 DEF Supported

\* The end of a row is before the end of the last row.
LEMMA RowEnds ==
  ASSUME NEW r \in Nat, NEW h \in Nat, NEW s \in Nat, r < h
  PROVE  r * s \in Nat /\ r * s + s <= h * s
  <1>1. PICK d \in Nat : h = r + 1 + d
    <2>1. h - r - 1 \in Nat /\ h = r + 1 + (h - r - 1)
      OBVIOUS
    <2> QED BY <2>1
  <1>2. h * s = r * s + s + d * s
    BY <1>1
  <1>3. d * s \in Nat /\ r * s \in Nat
    OBVIOUS
  <1> QED BY <1>2, <1>3

-----------------------------------------------------------------------------
(* The invariant *)

\* What a stream that is not there has left behind: nothing.
Gone ==
    life = "none" =>
        /\ ~initOk /\ ~active /\ ~timer /\ graph = "stopped" /\ errorText = "" /\ posted = <<>>
        /\ ~owner /\ ~grabberHolds /\ refs = 0
        /\ uiPc = "loop" /\ pc = "idle"

\* A stream that was handed out is whole until its destructor has stopped the graph.
Whole ==
    /\ life = "open" => initOk /\ uiPc \in {"loop", "noFrames", "stopping"}
    /\ life = "dying" => ~active /\ ~timer /\ uiPc \in {"stopping", "detaching", "releasing"}
    /\ uiPc = "stopping" => ~active
    /\ initOk /\ uiPc # "releasing" => owner /\ grabberHolds
    /\ ~initOk => /\ life \in {"none", "dying"} /\ posted = <<>>
                  /\ life = "dying" => uiPc \in {"detaching", "releasing"}

\* The callback is held by its stream until it is detached, and by the grabber.
HeldCallback ==
    /\ owner /\ grabberHolds => refs = 2
    /\ owner /\ ~grabberHolds => refs = 1
    /\ ~owner /\ grabberHolds => refs = 1
    /\ ~owner /\ ~grabberHolds => refs = 0
    /\ uiPc = "releasing" => ~owner
    /\ uiPc # "releasing" /\ grabberHolds => owner

\* Samples come from a running graph, and the graph runs only while it is to.
Streaming ==
    /\ graph = "running" => /\ initOk /\ uiPc \notin {"detaching", "releasing"}
                            /\ active \/ uiPc = "stopping"
    /\ pc # "idle" => graph = "running"

\* The format is one that was parsed, and a sample that is used is long enough for it.
Measured ==
    /\ initOk => /\ format.width \in Nat /\ format.height \in Nat
                 /\ format.stride = Stride(format.width, format.bitsPerPixel)
    /\ pc = "buffer" => sampleLen \in {0, minBytes - 1, minBytes, minBytes + 1}
    /\ pc \in {"count", "error", "convert"} =>
          Supported(format) /\ sampleLen \in Nat /\ sampleLen >= minBytes

Places ==
    /\ life \in {"none", "open", "dying"} /\ graph \in {"stopped", "running"}
    /\ initOk \in BOOLEAN /\ active \in BOOLEAN /\ timer \in BOOLEAN /\ owner \in BOOLEAN
    /\ grabberHolds \in BOOLEAN /\ errorText \in ErrorTexts /\ posted \in Seq(Calls)
    /\ uiPc \in {"loop", "noFrames", "stopping", "detaching", "releasing"}
    /\ pc \in {"idle", "buffer", "count", "error", "convert"}

ThreadsInv == Gone /\ Whole /\ HeldCallback /\ Streaming

StreamInv == Places /\ ThreadsInv /\ Measured

\* At first there is no stream.
LEMMA InitStream == Init => StreamInv
  <1> SUFFICES ASSUME Init PROVE StreamInv
    OBVIOUS
  <1> USE DEF Init, Closed
  <1>1. Places
    BY EmptySeq DEF Places, ErrorTexts
  <1>2. Gone
    BY DEF Gone
  <1>3. Whole /\ Streaming
    BY DEF Whole, Streaming
  <1>4. HeldCallback
    <2>1. ~owner /\ ~grabberHolds /\ refs = 0 /\ uiPc = "loop"
      OBVIOUS
    <2> QED BY <2>1 DEF HeldCallback
  <1>5. Measured
    BY DEF Measured
  <1> QED BY <1>1, <1>2, <1>3, <1>4, <1>5 DEF StreamInv, ThreadsInv

-----------------------------------------------------------------------------
(* The invariant is kept: types *)

\* A call that is posted is one of Calls.
LEMMA PostedCall ==
  ASSUME Places, NEW c \in Calls
  PROVE  Append(posted, c) \in Seq(Calls)
  BY AppendProperties DEF Places

\* Every step keeps the variables in their ranges.
LEMMA NextPlaces == Places /\ [Next]_vars => Places'
  <1> SUFFICES ASSUME Places, [Next]_vars PROVE Places'
    OBVIOUS
  <1> USE DEF Places, ErrorTexts, camVars, callbackVars
  <1>1. CASE createStream
    <2>1. /\ errorText' \in ErrorTexts
          /\ owner' \in BOOLEAN /\ grabberHolds' \in BOOLEAN /\ initOk' \in BOOLEAN
      BY <1>1 DEF createStream, initialiseFormat, initialiseCallback
    <2> QED BY <1>1, <2>1 DEF createStream
  <1>2. CASE start
    BY <1>2 DEF start
  <1>3. CASE stop
    BY <1>3 DEF stop
  <1>4. CASE StopReturns
    BY <1>4 DEF StopReturns
  <1>5. CASE onNoFrameTimeout
    BY <1>5 DEF onNoFrameTimeout
  <1>6. CASE setNoVideoError
    BY <1>6 DEF setNoVideoError
  <1>7. CASE RunPosted
    <2>1. Tail(posted) \in Seq(Calls)
      BY <1>7, HeadTailProperties DEF RunPosted
    <2>2. errorText' \in ErrorTexts
      BY <1>7 DEF RunPosted
    <2> QED BY <1>7, <2>1, <2>2 DEF RunPosted
  <1>8. CASE destroy
    BY <1>8 DEF destroy
  <1>9. CASE detachOwner
    BY <1>9 DEF detachOwner
  <1>10. CASE releaseMembers
    BY <1>10, EmptySeq DEF releaseMembers
  <1>11. CASE SampleCB
    BY <1>11 DEF SampleCB
  <1>12. CASE checkBuffer
    BY <1>12, PostedCall DEF checkBuffer, Calls
  <1>13. CASE countFrame
    BY <1>13 DEF countFrame
  <1>14. CASE clearError
    BY <1>14, PostedCall DEF clearError, Calls
  <1>15. CASE postFrame
    BY <1>15, PostedCall DEF postFrame, Calls
  <1>16. CASE UNCHANGED vars
    <2>1. UNCHANGED <<life, graph, initOk, active, timer, owner, grabberHolds>>
      BY <1>16 DEF vars
    <2>2. UNCHANGED <<errorText, posted, uiPc, pc>>
      BY <1>16 DEF vars
    <2>3. /\ initOk' \in BOOLEAN /\ active' \in BOOLEAN /\ timer' \in BOOLEAN
          /\ owner' \in BOOLEAN /\ grabberHolds' \in BOOLEAN
      BY <2>1
    <2>4. /\ life' \in {"none", "open", "dying"} /\ graph' \in {"stopped", "running"}
          /\ errorText' \in ErrorTexts /\ posted' \in Seq(Calls)
          /\ uiPc' = uiPc /\ pc' = pc
      BY <2>1, <2>2
    <2> QED BY <2>3, <2>4
  <1> QED BY <1>1, <1>2, <1>3, <1>4, <1>5, <1>6, <1>7, <1>8, <1>9, <1>10, <1>11, <1>12, <1>13,
             <1>14, <1>15, <1>16 DEF Next, UiThread, InCallback

-----------------------------------------------------------------------------
(* The invariant is kept: threads *)

\* Every step keeps what the threads rely on.
LEMMA NextThreads == Places /\ ThreadsInv /\ [Next]_vars => ThreadsInv'
  <1> SUFFICES ASSUME Places, ThreadsInv, [Next]_vars PROVE ThreadsInv'
    OBVIOUS
  <1> USE DEF Places, ThreadsInv, camVars, callbackVars
  <1>1. CASE createStream
    <2>1. Gone'
      BY <1>1 DEF createStream, initialiseCallback, Stages, Gone, Whole, Streaming
    <2>2. Whole'
      BY <1>1 DEF createStream, initialiseCallback, Stages, Gone, Whole, Streaming
    <2>3. HeldCallback'
      <3>1. PICK stage \in Stages : initialiseCallback(stage)
        BY <1>1 DEF createStream
      <3>2. uiPc' \in {"loop", "detaching"}
        BY <1>1 DEF createStream
      <3>3. CASE stage = "beforeCallback"
        BY <3>1, <3>2, <3>3 DEF initialiseCallback, HeldCallback
      <3>4. CASE stage = "setCallback"
        BY <3>1, <3>2, <3>4 DEF initialiseCallback, HeldCallback
      <3>5. CASE stage \in {"connect", "control", "done"}
        BY <3>1, <3>2, <3>5 DEF initialiseCallback, HeldCallback
      <3> QED BY <3>3, <3>4, <3>5 DEF Stages
    <2>4. Streaming'
      BY <1>1 DEF createStream, initialiseCallback, Stages, Gone, Whole, Streaming
    <2> QED BY <2>1, <2>2, <2>3, <2>4
  <1>2. CASE start
    <2>1. Gone'
      BY <1>2 DEF start, Gone, Whole, Streaming
    <2>2. Whole'
      BY <1>2 DEF start, Gone, Whole, Streaming
    <2>3. HeldCallback'
      BY <1>2 DEF start, Gone, Whole, HeldCallback
    <2>4. Streaming'
      BY <1>2 DEF start, Gone, Whole, Streaming
    <2> QED BY <2>1, <2>2, <2>3, <2>4
  <1>3. CASE stop
    <2>1. Gone'
      BY <1>3 DEF stop, Gone, Whole, Streaming
    <2>2. Whole'
      BY <1>3 DEF stop, Gone, Whole, Streaming
    <2>3. HeldCallback'
      BY <1>3 DEF stop, Gone, Whole, HeldCallback
    <2>4. Streaming'
      BY <1>3 DEF stop, Gone, Whole, Streaming
    <2> QED BY <2>1, <2>2, <2>3, <2>4
  <1>4. CASE StopReturns
    <2>1. Gone'
      BY <1>4 DEF StopReturns, Gone, Whole, Streaming
    <2>2. Whole'
      BY <1>4 DEF StopReturns, Gone, Whole, Streaming
    <2>3. HeldCallback'
      BY <1>4 DEF StopReturns, Gone, Whole, HeldCallback
    <2>4. Streaming'
      BY <1>4 DEF StopReturns, Gone, Whole, Streaming
    <2> QED BY <2>1, <2>2, <2>3, <2>4
  <1>5. CASE onNoFrameTimeout
    <2>1. Gone'
      BY <1>5 DEF onNoFrameTimeout, Gone, Whole, Streaming
    <2>2. Whole'
      BY <1>5 DEF onNoFrameTimeout, Gone, Whole, Streaming
    <2>3. HeldCallback'
      BY <1>5 DEF onNoFrameTimeout, Gone, Whole, HeldCallback
    <2>4. Streaming'
      BY <1>5 DEF onNoFrameTimeout, Gone, Whole, Streaming
    <2> QED BY <2>1, <2>2, <2>3, <2>4
  <1>6. CASE setNoVideoError
    <2>1. Gone'
      BY <1>6 DEF setNoVideoError, Gone, Whole, Streaming
    <2>2. Whole'
      BY <1>6 DEF setNoVideoError, Gone, Whole, Streaming
    <2>3. HeldCallback'
      BY <1>6 DEF setNoVideoError, Gone, Whole, HeldCallback
    <2>4. Streaming'
      BY <1>6 DEF setNoVideoError, Gone, Whole, Streaming
    <2> QED BY <2>1, <2>2, <2>3, <2>4
  <1>7. CASE RunPosted
    <2>1. Gone'
      BY <1>7 DEF RunPosted, Gone, Whole, Streaming
    <2>2. Whole'
      BY <1>7 DEF RunPosted, Gone, Whole, Streaming
    <2>3. HeldCallback'
      BY <1>7 DEF RunPosted, Gone, Whole, HeldCallback
    <2>4. Streaming'
      BY <1>7 DEF RunPosted, Gone, Whole, Streaming
    <2> QED BY <2>1, <2>2, <2>3, <2>4
  <1>8. CASE destroy
    <2>1. Gone'
      BY <1>8 DEF destroy, Gone, Whole, Streaming
    <2>2. Whole'
      BY <1>8 DEF destroy, Gone, Whole, Streaming
    <2>3. HeldCallback'
      BY <1>8 DEF destroy, Gone, Whole, HeldCallback
    <2>4. Streaming'
      BY <1>8 DEF destroy, Gone, Whole, Streaming
    <2> QED BY <2>1, <2>2, <2>3, <2>4
  <1>9. CASE detachOwner
    <2>1. Gone'
      BY <1>9 DEF detachOwner, Gone, Whole, Streaming
    <2>2. Whole'
      BY <1>9 DEF detachOwner, Gone, Whole, Streaming
    <2>3. HeldCallback'
      BY <1>9 DEF detachOwner, Gone, Whole, HeldCallback
    <2>4. Streaming'
      BY <1>9 DEF detachOwner, Gone, Whole, Streaming
    <2> QED BY <2>1, <2>2, <2>3, <2>4
  <1>10. CASE releaseMembers
    <2>1. Gone'
      <3>1. ~owner /\ (grabberHolds => refs = 1) /\ (~grabberHolds => refs = 0)
        BY <1>10 DEF releaseMembers, HeldCallback
      <3>2. ~active /\ ~timer /\ pc = "idle"
        BY <1>10 DEF releaseMembers, Gone, Whole, Streaming
      <3>3. ~owner' /\ ~grabberHolds'
        BY <1>10, <3>1 DEF releaseMembers
      <3>4. refs' = 0
        <4>1. CASE grabberHolds
          <5>1. refs' = refs - 1 /\ refs = 1
            BY <1>10, <3>1, <4>1 DEF releaseMembers
          <5> QED BY <5>1
        <4>2. CASE ~grabberHolds
          BY <1>10, <3>1, <4>2 DEF releaseMembers
        <4> QED BY <4>1, <4>2
      <3> QED BY <1>10, <3>2, <3>3, <3>4 DEF releaseMembers, Gone
    <2>2. Whole'
      BY <1>10 DEF releaseMembers, Gone, Whole, Streaming
    <2>3. HeldCallback'
      <3>1. ~owner /\ (grabberHolds => refs = 1) /\ (~grabberHolds => refs = 0)
        BY <1>10 DEF releaseMembers, HeldCallback
      <3>2. ~owner' /\ ~grabberHolds'
        BY <1>10, <3>1 DEF releaseMembers
      <3>3. refs' = 0
        <4>1. CASE grabberHolds
          <5>1. refs' = refs - 1 /\ refs = 1
            BY <1>10, <3>1, <4>1 DEF releaseMembers
          <5> QED BY <5>1
        <4>2. CASE ~grabberHolds
          BY <1>10, <3>1, <4>2 DEF releaseMembers
        <4> QED BY <4>1, <4>2
      <3> QED BY <3>2, <3>3 DEF HeldCallback
    <2>4. Streaming'
      BY <1>10 DEF releaseMembers, Gone, Whole, Streaming
    <2> QED BY <2>1, <2>2, <2>3, <2>4
  <1>11. CASE SampleCB
    <2>1. Gone'
      BY <1>11 DEF SampleCB, Gone, Whole, Streaming
    <2>2. Whole'
      BY <1>11 DEF SampleCB, Gone, Whole, Streaming
    <2>3. HeldCallback'
      BY <1>11 DEF SampleCB, Gone, Whole, HeldCallback
    <2>4. Streaming'
      BY <1>11 DEF SampleCB, Gone, Whole, Streaming
    <2> QED BY <2>1, <2>2, <2>3, <2>4
  <1>12. CASE checkBuffer
    <2>1. Gone'
      BY <1>12 DEF checkBuffer, Gone, Whole, Streaming
    <2>2. Whole'
      BY <1>12 DEF checkBuffer, Gone, Whole, Streaming
    <2>3. HeldCallback'
      BY <1>12 DEF checkBuffer, Gone, Whole, HeldCallback
    <2>4. Streaming'
      BY <1>12 DEF checkBuffer, Gone, Whole, Streaming
    <2> QED BY <2>1, <2>2, <2>3, <2>4
  <1>13. CASE countFrame
    <2>1. Gone'
      BY <1>13 DEF countFrame, Gone, Whole, Streaming
    <2>2. Whole'
      BY <1>13 DEF countFrame, Gone, Whole, Streaming
    <2>3. HeldCallback'
      BY <1>13 DEF countFrame, Gone, Whole, HeldCallback
    <2>4. Streaming'
      BY <1>13 DEF countFrame, Gone, Whole, Streaming
    <2> QED BY <2>1, <2>2, <2>3, <2>4
  <1>14. CASE clearError
    <2>1. Gone'
      BY <1>14 DEF clearError, Gone, Whole, Streaming
    <2>2. Whole'
      BY <1>14 DEF clearError, Gone, Whole, Streaming
    <2>3. HeldCallback'
      BY <1>14 DEF clearError, Gone, Whole, HeldCallback
    <2>4. Streaming'
      BY <1>14 DEF clearError, Gone, Whole, Streaming
    <2> QED BY <2>1, <2>2, <2>3, <2>4
  <1>15. CASE postFrame
    <2>1. Gone'
      BY <1>15 DEF postFrame, Gone, Whole, Streaming
    <2>2. Whole'
      BY <1>15 DEF postFrame, Gone, Whole, Streaming
    <2>3. HeldCallback'
      BY <1>15 DEF postFrame, Gone, Whole, HeldCallback
    <2>4. Streaming'
      BY <1>15 DEF postFrame, Gone, Whole, Streaming
    <2> QED BY <2>1, <2>2, <2>3, <2>4
  <1>16. CASE UNCHANGED vars
    BY <1>16 DEF vars, Gone, Whole, HeldCallback, Streaming
  <1> QED BY <1>1, <1>2, <1>3, <1>4, <1>5, <1>6, <1>7, <1>8, <1>9, <1>10, <1>11, <1>12, <1>13, <1>14, <1>15, <1>16 DEF Next, UiThread, InCallback

-----------------------------------------------------------------------------
(* The invariant is kept: samples *)

\* A stream that is handed out has a format that was parsed from a media type.
LEMMA CreatedMeasured ==
  ASSUME Places, ThreadsInv, createStream
  PROVE  Measured'
  <1>1. life = "none" /\ UNCHANGED <<pc, sampleLen>>
    BY DEF createStream
  <1>2. pc' = "idle"
    BY <1>1 DEF ThreadsInv, Gone
  <1>3. ASSUME initOk'
        PROVE  /\ format'.width \in Nat /\ format'.height \in Nat
               /\ format'.stride = Stride(format'.width, format'.bitsPerPixel)
    <2>1. initialiseFormat("done")
      BY <1>3 DEF createStream
    <2>2. PICK subtype \in Connectable(offers'), d \in Dimensions, oddBits \in BOOLEAN :
             format' = Parsed(subtype, d[1], d[2], IF oddBits THEN 8 ELSE BitsOf[subtype])
      BY <2>1 DEF initialiseFormat
    <2> DEFINE bits == IF oddBits THEN 8 ELSE BitsOf[subtype]
    <2>3. d[1] \in Nat /\ d[2] \in Int
      BY DShowAssumption
    <2>4. /\ format'.width = d[1]
          /\ format'.height = IF d[2] < 0 THEN -d[2] ELSE d[2]
          /\ format'.bitsPerPixel = bits /\ format'.stride = Stride(d[1], bits)
      BY <2>2 DEF Parsed
    <2>5. format'.height \in Nat
      BY <2>3, <2>4
    <2> QED BY <2>3, <2>4, <2>5
  <1> QED BY <1>2, <1>3 DEF Measured

\* Every step keeps samples long enough for the format.
LEMMA NextMeasured == Places /\ ThreadsInv /\ Measured /\ [Next]_vars => Measured'
  <1> SUFFICES ASSUME Places, ThreadsInv, Measured, [Next]_vars PROVE Measured'
    OBVIOUS
  <1> USE DEF camVars, callbackVars
  <1>1. CASE createStream
    BY <1>1, CreatedMeasured
  <1>2. CASE \/ start \/ stop \/ StopReturns \/ onNoFrameTimeout \/ setNoVideoError
             \/ RunPosted \/ destroy \/ detachOwner \/ UNCHANGED vars
    <2>1. UNCHANGED <<initOk, format, pc, sampleLen>>
      BY <1>2 DEF start, stop, StopReturns, onNoFrameTimeout, setNoVideoError, RunPosted, destroy,
                  detachOwner, vars
    <2> QED BY <2>1 DEF Measured, minBytes, Supported
  <1>3. CASE releaseMembers
    <2>1. ~initOk' /\ pc' = "idle"
      BY <1>3 DEF releaseMembers, ThreadsInv, Streaming
    <2> QED BY <2>1 DEF Measured
  <1>4. CASE SampleCB
    <2>1. /\ UNCHANGED <<initOk, format>> /\ pc' \in {"buffer", "idle"}
          /\ sampleLen' \in {0, minBytes - 1, minBytes, minBytes + 1}
      BY <1>4 DEF SampleCB
    <2> QED BY <2>1 DEF Measured, minBytes
  <1>5. CASE checkBuffer
    <2>1. /\ UNCHANGED <<initOk, format, sampleLen>>
          /\ pc' \in IF Supported(format) /\ sampleLen >= minBytes THEN {"count", "idle"} ELSE {"idle"}
      BY <1>5 DEF checkBuffer
    <2>2. ASSUME Supported(format), sampleLen >= minBytes PROVE sampleLen \in Nat
      <3>1. initOk /\ pc = "buffer"
        BY <1>5 DEF checkBuffer, ThreadsInv, Streaming
      <3>2. format.stride \in Nat /\ format.height \in Nat
        BY <2>2, <3>1, RowFits DEF Measured
      <3>3. minBytes \in Nat /\ sampleLen \in {0, minBytes - 1, minBytes, minBytes + 1}
        BY <3>1, <3>2 DEF Measured, minBytes
      <3> QED BY <2>2, <3>3
    <2>3. CASE pc' = "idle"
      BY <2>1, <2>3 DEF Measured
    <2>4. CASE pc' = "count"
      <3>1. Supported(format) /\ sampleLen >= minBytes
        BY <2>1, <2>4
      <3>2. sampleLen \in Nat
        BY <2>2, <3>1
      <3>3. (Supported(format) /\ sampleLen \in Nat /\ sampleLen >= minBytes)'
        BY <2>1, <3>1, <3>2 DEF minBytes, Supported
      <3> QED BY <2>1, <2>4, <3>3 DEF Measured
    <2>5. pc' = "idle" \/ pc' = "count"
      BY <2>1
    <2> QED BY <2>3, <2>4, <2>5
  <1>6. CASE countFrame \/ clearError \/ postFrame
    <2>1. /\ UNCHANGED <<initOk, format, sampleLen>> /\ pc \in {"count", "error", "convert"}
          /\ pc' # "buffer"
      BY <1>6 DEF countFrame, clearError, postFrame
    <2> QED BY <2>1 DEF Measured, minBytes, Supported
  <1> QED BY <1>1, <1>2, <1>3, <1>4, <1>5, <1>6 DEF Next, UiThread, InCallback

\* The invariant holds in every run.
LEMMA StreamInvariant == Spec => []StreamInv
  <1>1. StreamInv /\ [Next]_vars => StreamInv'
    BY NextPlaces, NextThreads, NextMeasured DEF StreamInv
  <1> QED BY <1>1, InitStream, PTL DEF Spec

-----------------------------------------------------------------------------
(* What the streaming thread relies on *)

\* Whatever the UI thread does meanwhile, the callback and its owner outlive each sample.
THEOREM CallbackFindsItsOwner == Spec => []OwnerAliveInCallback
  <1>1. StreamInv => OwnerAliveInCallback
    <2> SUFFICES ASSUME StreamInv, pc # "idle"
                 PROVE  life # "none" /\ uiPc \notin {"detaching", "releasing"} /\ refs > 0
      BY DEF OwnerAliveInCallback
    <2> USE DEF StreamInv, ThreadsInv
    <2>1. initOk /\ uiPc \notin {"detaching", "releasing"}
      BY DEF Streaming
    <2>2. life # "none"
      BY <2>1 DEF Gone
    <2>3. refs = 2
      BY <2>1 DEF Whole, HeldCallback
    <2> QED BY <2>1, <2>2, <2>3
  <1> QED BY <1>1, StreamInvariant, PTL

\* The callback object is counted exactly, by both holders, and never leaked.
THEOREM CallbackIsReleased == Spec => []CallbackReleased
  <1>1. StreamInv => CallbackReleased
    <2> SUFFICES ASSUME StreamInv PROVE CallbackReleased
      OBVIOUS
    <2> USE DEF StreamInv, ThreadsInv
    <2>1. refs = (IF grabberHolds THEN 1 ELSE 0) + (IF owner THEN 1 ELSE 0)
      <3>1. CASE owner /\ grabberHolds
        BY <3>1 DEF HeldCallback
      <3>2. CASE owner /\ ~grabberHolds
        BY <3>2 DEF HeldCallback
      <3>3. CASE ~owner /\ grabberHolds
        BY <3>3 DEF HeldCallback
      <3>4. CASE ~owner /\ ~grabberHolds
        BY <3>4 DEF HeldCallback
      <3> QED BY <3>1, <3>2, <3>3, <3>4
    <2>2. life = "none" => refs = 0
      BY DEF Gone
    <2> QED BY <2>1, <2>2 DEF CallbackReleased
  <1> QED BY <1>1, StreamInvariant, PTL

\* No pixel is made from a byte outside the sample, for any size, direction and parity.
THEOREM RowsAreInSample == Spec => []ReadsInSample
  <1>1. StreamInv => ReadsInSample
    <2> SUFFICES ASSUME StreamInv, pc = "convert", NEW y \in 0..format.height - 1
                 PROVE  LET row == SourceRow(format, y) * format.stride
                        IN row >= 0 /\ row + RowBytes(format) <= sampleLen
      BY DEF ReadsInSample
    <2>1. /\ Supported(format) /\ sampleLen \in Nat /\ sampleLen >= format.stride * format.height
          /\ format.width \in Nat /\ format.height \in Nat
          /\ format.stride = Stride(format.width, format.bitsPerPixel)
      BY DEF StreamInv, Measured, minBytes, ThreadsInv, Streaming
    <2>2. /\ format.stride \in Nat /\ RowBytes(format) \in Nat
          /\ RowBytes(format) <= format.stride
      BY <2>1, RowFits
    <2>3. SourceRow(format, y) \in Nat /\ SourceRow(format, y) < format.height
      BY <2>1 DEF SourceRow
    <2>4. /\ SourceRow(format, y) * format.stride \in Nat
          /\ SourceRow(format, y) * format.stride + format.stride <= format.height * format.stride
      BY <2>1, <2>2, <2>3, RowEnds
    <2>5. format.stride * format.height = format.height * format.stride
      BY <2>1, <2>2
    <2> QED BY <2>1, <2>2, <2>4, <2>5
  <1> QED BY <1>1, StreamInvariant, PTL

-----------------------------------------------------------------------------
(* The stream keeps the contract of a backend *)

FramesAt(q) == {i \in DOMAIN q : q[i] = "frame"}

\* The queue is finite.
LEMMA FinitelyManyFrames ==
  ASSUME NEW q \in Seq(Calls)
  PROVE  IsFiniteSet(FramesAt(q)) /\ Cardinality(FramesAt(q)) \in Nat
  <1>1. DOMAIN q = 1..Len(q) /\ Len(q) \in Nat
    BY LenProperties
  <1>2. IsFiniteSet(1..Len(q))
    BY <1>1, FS_Interval
  <1>3. FramesAt(q) \subseteq 1..Len(q)
    BY <1>1 DEF FramesAt
  <1> QED BY <1>2, <1>3, FS_Subset, FS_CardinalityType

\* A posted frame is one more in flight, and any other call is none.
LEMMA PostedFrames ==
  ASSUME NEW q \in Seq(Calls), NEW c \in Calls
  PROVE  Cardinality(FramesAt(Append(q, c))) =
            IF c = "frame" THEN Cardinality(FramesAt(q)) + 1 ELSE Cardinality(FramesAt(q))
  <1> DEFINE n == Len(q) + 1
             r == Append(q, c)
  <1>1. /\ DOMAIN q = 1..Len(q) /\ Len(q) \in Nat
        /\ DOMAIN r = 1..n /\ r[n] = c /\ \A i \in 1..Len(q) : r[i] = q[i]
    BY AppendProperties, LenProperties
  <1>2. CASE c = "frame"
    <2>1. FramesAt(r) = FramesAt(q) \cup {n} /\ n \notin FramesAt(q)
      BY <1>1, <1>2 DEF FramesAt
    <2> QED BY <1>2, <2>1, FinitelyManyFrames, FS_AddElement
  <1>3. CASE c # "frame"
    <2>1. FramesAt(r) = FramesAt(q)
      BY <1>1, <1>3 DEF FramesAt
    <2> QED BY <1>3, <2>1
  <1> QED BY <1>2, <1>3

\* The oldest call leaves the queue, and with it a frame if it is one.
LEMMA TakenFrames ==
  ASSUME NEW q \in Seq(Calls), q # <<>>
  PROVE  /\ Cardinality(FramesAt(q)) =
               IF Head(q) = "frame" THEN Cardinality(FramesAt(Tail(q))) + 1
                                    ELSE Cardinality(FramesAt(Tail(q)))
  <1> DEFINE shifted == {i + 1 : i \in FramesAt(Tail(q))}
  <1>1. /\ Tail(q) \in Seq(Calls) /\ Head(q) = q[1]
        /\ Len(q) \in Nat \ {0} /\ DOMAIN q = 1..Len(q)
        /\ Len(Tail(q)) = Len(q) - 1
        /\ \A i \in 1..Len(Tail(q)) : Tail(q)[i] = q[i + 1]
    BY HeadTailProperties, EmptySeq, LenProperties
  <1>2. DOMAIN Tail(q) = 1..(Len(q) - 1)
    BY <1>1, LenProperties
  <1>3. \A i \in FramesAt(Tail(q)) : i \in 1..(Len(q) - 1)
    BY <1>2 DEF FramesAt
  <1>4. IsFiniteSet(shifted) /\ Cardinality(shifted) = Cardinality(FramesAt(Tail(q)))
    <2> DEFINE f == [i \in FramesAt(Tail(q)) |-> i + 1]
    <2>1. f \in Bijection(FramesAt(Tail(q)), shifted)
      BY <1>3 DEF Bijection, Injection, Surjection, IsInjective
    <2>2. ExistsBijection(FramesAt(Tail(q)), shifted)
      BY <2>1 DEF ExistsBijection
    <2>3. IsFiniteSet(FramesAt(Tail(q)))
      BY <1>1, FinitelyManyFrames
    <2> QED BY <2>2, <2>3, FS_Bijection
  <1>5. shifted = FramesAt(q) \ {1}
    <2>1. ASSUME NEW i \in FramesAt(Tail(q)) PROVE i + 1 \in FramesAt(q) \ {1}
      BY <1>1, <1>2, <1>3 DEF FramesAt
    <2>2. ASSUME NEW j \in FramesAt(q) \ {1} PROVE j \in shifted
      <3>1. j - 1 \in 1..(Len(q) - 1) /\ q[j] = "frame" /\ j = (j - 1) + 1
        BY <1>1 DEF FramesAt
      <3>2. j - 1 \in FramesAt(Tail(q))
        BY <1>1, <1>2, <3>1 DEF FramesAt
      <3> QED BY <3>1, <3>2
    <2> QED BY <2>1, <2>2
  <1>6. CASE Head(q) = "frame"
    <2>1. FramesAt(q) = shifted \cup {1} /\ 1 \notin shifted
      BY <1>1, <1>5, <1>6 DEF FramesAt
    <2> QED BY <1>4, <1>6, <2>1, FS_AddElement
  <1>7. CASE Head(q) # "frame"
    <2>1. FramesAt(q) = shifted
      BY <1>1, <1>5, <1>7 DEF FramesAt
    <2> QED BY <1>4, <1>7, <2>1
  <1> QED BY <1>6, <1>7

\* A stream that does not exist keeps no promise but silence.
LEMMA ContractInit == Init => Backend!Init
  <1> SUFFICES ASSUME Init PROVE Backend!Init
    OBVIOUS
  <1>1. life = "none" /\ ~initOk /\ ~active /\ graph = "stopped" /\ posted = <<>>
    BY DEF Init, Closed
  <1>2. Frames = 0
    <2>1. {i \in DOMAIN posted : posted[i] = "frame"} = {}
      BY <1>1
    <2> QED BY <2>1, FS_EmptySet DEF Frames
  <1> QED BY <1>1, <1>2 DEF Backend!Init

\* Every step is one the contract allows, or is none of its business.
LEMMA ContractStep ==
  ASSUME StreamInv, [Next]_vars
  PROVE  [Backend!Next]_(Backend!vars)
  <1> USE DEF camVars, callbackVars
  <1> DEFINE open == life # "none" /\ initOk
             running == graph = "running"
             text == IF initOk THEN errorText ELSE ""
             Same == UNCHANGED <<open, active, running, Frames, text>>
  <1>0. /\ Places /\ Gone /\ Whole /\ Streaming
        /\ Frames = Cardinality(FramesAt(posted)) /\ Frames' = Cardinality(FramesAt(posted'))
        /\ posted \in Seq(Calls)
    BY DEF StreamInv, ThreadsInv, Places, Frames, FramesAt
  <1>a. Same => [Backend!Next]_(Backend!vars)
    BY DEF Backend!vars
  <1>1. CASE createStream
    <2>1. /\ ~open /\ ~open' = ~initOk' /\ UNCHANGED <<active, graph, posted>>
      BY <1>1 DEF createStream
    <2>2. text' \in ErrorTexts /\ (~initOk' => text' = "") /\ text = ""
      BY <1>0, <1>1, NextPlaces DEF createStream, Gone, Places, ErrorTexts
    <2>3. UNCHANGED <<active, running, Frames>>
      BY <1>0, <2>1
    <2>4. CASE initOk'
      BY <2>1, <2>2, <2>3, <2>4 DEF Backend!Next, Backend!createStream
    <2>5. CASE ~initOk'
      BY <1>a, <2>1, <2>2, <2>3, <2>5
    <2> QED BY <2>4, <2>5
  <1>2. CASE start
    <2>1. /\ open /\ open' /\ initOk /\ ~active /\ active' /\ ~running
          /\ UNCHANGED <<life, initOk, posted>>
      BY <1>0, <1>2 DEF start, Whole, Streaming, Places
    <2>2. \/ running' /\ text' = text
          \/ ~running' /\ text' = NotStarted
      BY <1>2, <2>1 DEF start
    <2>3. Frames' = Frames
      BY <1>0, <2>1
    <2>4. NotStarted \in ErrorTexts \ {""}
      BY DEF ErrorTexts, NotStarted
    <2> QED BY <2>1, <2>2, <2>3, <2>4 DEF Backend!Next, Backend!start
  <1>3. CASE stop
    <2>1. open /\ active /\ ~active' /\ UNCHANGED <<life, initOk, graph, errorText, posted>>
      BY <1>0, <1>3 DEF stop, Whole
    <2> QED BY <1>0, <2>1 DEF Backend!Next, Backend!stop
  <1>4. CASE StopReturns
    <2>1. ~active /\ ~running' /\ UNCHANGED <<life, initOk, active, errorText, posted>>
      BY <1>0, <1>4 DEF StopReturns, Whole
    <2>2. CASE running
      BY <1>0, <2>1, <2>2 DEF Backend!Next, Backend!Halt
    <2>3. CASE ~running
      BY <1>0, <1>a, <2>1, <2>3
    <2> QED BY <2>2, <2>3
  <1>5. CASE onNoFrameTimeout
    BY <1>0, <1>5, <1>a DEF onNoFrameTimeout
  <1>6. CASE setNoVideoError
    <2>1. /\ open /\ initOk /\ UNCHANGED <<life, initOk, active, graph, posted>>
          /\ errorText' \in ErrorTexts
      BY <1>0, <1>6, NextPlaces DEF setNoVideoError, Gone, Whole, Places
    <2> QED BY <1>0, <2>1 DEF Backend!Next, Backend!setErrorText
  <1>7. CASE RunPosted
    <2>1. /\ open /\ initOk /\ UNCHANGED <<life, initOk, active, graph>>
          /\ posted # <<>> /\ posted' = Tail(posted)
      BY <1>0, <1>7 DEF RunPosted, Gone, Whole, Places
    <2>2. /\ Frames \in Nat /\ Frames' \in Nat
          /\ Frames = IF Head(posted) = "frame" THEN Frames' + 1 ELSE Frames'
      <3>1. Tail(posted) \in Seq(Calls)
        BY <1>0, <2>1, HeadTailProperties
      <3> QED BY <1>0, <2>1, <3>1, TakenFrames, FinitelyManyFrames
    <2>3. CASE Head(posted) = "frame"
      <3>1. errorText' = errorText
        BY <1>7, <2>3 DEF RunPosted
      <3>2. Frames > 0 /\ Frames' = Frames - 1
        <4>1. ASSUME NEW m \in Nat, NEW n \in Nat, n = m + 1
              PROVE  n > 0 /\ m = n - 1
          BY <4>1
        <4>2. Frames = Frames' + 1
          BY <2>2, <2>3
        <4> QED BY <2>2, <4>1, <4>2
      <3> QED BY <2>1, <3>1, <3>2 DEF Backend!Next, Backend!videoFrameChanged
    <2>4. CASE Head(posted) # "frame"
      <3>1. errorText' \in ErrorTexts
        BY <1>0, <1>7, NextPlaces DEF Places
      <3>2. Frames' = Frames
        BY <2>2, <2>4
      <3> QED BY <2>1, <3>1, <3>2 DEF Backend!Next, Backend!setErrorText
    <2> QED BY <2>3, <2>4
  <1>8. CASE destroy
    <2>1. open /\ open' /\ ~active' /\ UNCHANGED <<initOk, graph, errorText, posted>>
      BY <1>0, <1>8 DEF destroy, Whole
    <2>2. CASE active
      BY <1>0, <2>1, <2>2 DEF Backend!Next, Backend!stop
    <2>3. CASE ~active
      <3>1. active' = active
        BY <1>0, <1>8, <2>3 DEF destroy, Places
      <3> QED BY <1>0, <1>a, <2>1, <3>1
    <2> QED BY <2>2, <2>3
  <1>9. CASE detachOwner
    BY <1>0, <1>9, <1>a DEF detachOwner
  <1>10. CASE releaseMembers
    <2>1. /\ life' = "none" /\ ~initOk' /\ posted' = <<>> /\ ~running /\ ~running'
          /\ active' = active /\ ~active /\ life # "none"
      BY <1>0, <1>10 DEF releaseMembers, Gone, Whole, Streaming, Places
    <2>2. Frames' = 0
      <3>1. FramesAt(posted') = {}
        BY <2>1 DEF FramesAt
      <3> QED BY <1>0, <3>1, FS_EmptySet
    <2>3. CASE initOk
      BY <2>1, <2>2, <2>3 DEF Backend!Next, Backend!destroy
    <2>4. CASE ~initOk
      <3>1. posted' = posted
        BY <1>0, <2>1, <2>4 DEF Whole
      <3> QED BY <1>0, <1>a, <2>1, <2>4, <3>1
    <2> QED BY <2>3, <2>4
  <1>11. CASE SampleCB
    BY <1>0, <1>11, <1>a DEF SampleCB
  <1>12. CASE checkBuffer
    <2>1. /\ UNCHANGED <<life, initOk, active, graph, errorText>>
          /\ posted' = posted \/ posted' = Append(posted, "badFormat")
      BY <1>12 DEF checkBuffer
    <2>2. Frames' = Frames
      BY <1>0, <2>1, PostedFrames DEF Calls
    <2> QED BY <1>a, <2>1, <2>2
  <1>13. CASE countFrame
    BY <1>0, <1>13, <1>a DEF countFrame
  <1>14. CASE clearError
    <2>1. /\ UNCHANGED <<life, initOk, active, graph, errorText>>
          /\ posted' = posted \/ posted' = Append(posted, "clear")
      BY <1>14 DEF clearError
    <2>2. Frames' = Frames
      BY <1>0, <2>1, PostedFrames DEF Calls
    <2> QED BY <1>a, <2>1, <2>2
  <1>15. CASE postFrame
    <2>1. /\ UNCHANGED <<life, initOk, active, graph, errorText>>
          /\ posted' = Append(posted, "frame") /\ running /\ open
      BY <1>0, <1>15 DEF postFrame, Streaming, Gone
    <2>2. Frames' = Frames + 1
      BY <1>0, <2>1, PostedFrames DEF Calls
    <2> QED BY <2>1, <2>2 DEF Backend!Next, Backend!Send
  <1>16. CASE UNCHANGED vars
    <2>1. UNCHANGED <<life, initOk, active, graph, errorText, posted>>
      BY <1>16 DEF vars
    <2> QED BY <1>0, <1>a, <2>1
  <1> QED BY <1>1, <1>2, <1>3, <1>4, <1>5, <1>6, <1>7, <1>8, <1>9, <1>10, <1>11, <1>12, <1>13,
             <1>14, <1>15, <1>16 DEF Next, UiThread, InCallback

\* What MediaCapture relies on is what the DirectShow stream does: no frame is sent outside
\* start() and stop(), none arrives after the destructor, and a failed start is told.
THEOREM StreamKeepsContract == Spec => KeepsBackendContract
  <1>1. StreamInv /\ [Next]_vars => [Backend!Next]_(Backend!vars)
    BY ContractStep
  <1> QED BY <1>1, ContractInit, StreamInvariant, PTL DEF Spec, KeepsBackendContract, Backend!Spec


-----------------------------------------------------------------------------
(* The router *)

\* What the router does to the DirectShow stream is what a client does.
LEMMA RoutedStep == [RoutingNext]_allVars => [Next]_vars
  <1> SUFFICES ASSUME [RoutingNext]_allVars PROVE [Next]_vars
    OBVIOUS
  <1>1. ASSUME NEW c \in Cameras, NEW present \in SUBSET Cameras, NEW comOk \in BOOLEAN,
               createStreamFor(c, present, comOk)
        PROVE  [Next]_vars
    BY <1>1 DEF createStreamFor, Next, UiThread
  <1>2. CASE DShowStep
    BY <1>2 DEF DShowStep, Next, UiThread
  <1>3. CASE qtStart \/ qtStop \/ qtDestroy
    BY <1>3 DEF qtStart, qtStop, qtDestroy
  <1>4. CASE UNCHANGED allVars
    BY <1>4 DEF allVars
  <1>5. ASSUME NEW c \in Cameras, ensureStreamForDeviceId(c) PROVE [Next]_vars
    BY <1>1, <1>5 DEF ensureStreamForDeviceId, CreateStream
  <1> QED BY <1>2, <1>3, <1>4, <1>5 DEF RoutingNext

\* So every run of the router is one of the DirectShow backend.
THEOREM RoutedIsDShow == RoutingSpec => Spec
  <1>1. RoutingInit => Init
    BY DEF RoutingInit
  <1> QED BY <1>1, RoutedStep, PTL DEF RoutingSpec, Spec

\* The contract of a backend holds behind the router.
THEOREM RoutedKeepsContract == RoutingSpec => KeepsBackendContract
  <1> QED BY RoutedIsDShow, StreamKeepsContract, PTL

-----------------------------------------------------------------------------
(* The camera of a stream *)

\* One stream at a time, and of the camera that was asked for.
RoutingInv == StreamOfItsCamera /\ (qt # "none" => life = "none")

\* What either backend says of a camera's id is that camera's name, its key, or nothing, whichever
\* cameras it sees.
LEMMA DescriptionIsOwn ==
  ASSUME NEW c \in Cameras, NEW present \in SUBSET Cameras, NEW comOk \in BOOLEAN
  PROVE  descriptionForId(IdOf(c), present, comOk) \in {"", c.name, c.key}
  <1> DEFINE id == IdOf(c)
             listed == {d \in present : d.api = "dshow"}
             Entry(d) == [key |-> d.key, stableId |-> IdOf(d),
                          name |-> IF d.name = "" THEN d.key ELSE d.name]
             inList == {v \in enumerateVideoInputs(present, comOk) : v.stableId = id}
             found == findCameraDevice(id, present)
  <1>1. isDShowId(id) <=> c.api = "dshow"
    BY DEF IdOf, isDShowId
  <1>2. id.key = c.key
    BY DEF IdOf
  <1>3. CASE c.api = "dshow"
    <2>1. \A v \in inList : v.name \in {c.name, c.key}
      <3> SUFFICES ASSUME NEW v \in enumerateVideoInputs(present, comOk), v.stableId = id
                   PROVE  v.name \in {c.name, c.key}
        OBVIOUS
      <3>1. enumerateVideoInputs(present, comOk) \subseteq {Entry(d) : d \in listed}
        BY DEF enumerateVideoInputs
      <3>2. PICK d \in listed : v = Entry(d)
        BY <3>1
      <3>3. /\ d \in Cameras /\ d.api = "dshow" /\ v.stableId = IdOf(d)
            /\ v.name = IF d.name = "" THEN d.key ELSE d.name
        BY <3>2
      <3>4. IdOf(d) = IdOf(c)
        BY <3>3
      <3>5. IdOf(d).key = d.key /\ IdOf(c).key = c.key
        BY DEF IdOf
      <3>6. d = c
        BY <1>3, <3>3, <3>4, <3>5, RoutingAssumption
      <3> QED BY <3>3, <3>6
    <2>2. descriptionForId(id, present, comOk) =
              IF inList = {} THEN "" ELSE (CHOOSE v \in inList : TRUE).name
      BY <1>1, <1>3 DEF descriptionForId, dshowDescription
    <2> QED BY <2>1, <2>2
  <1>4. CASE c.api = "qt"
    <2>1. \A d \in found : d = c
      BY <1>2, <1>4, RoutingAssumption DEF findCameraDevice
    <2>2. descriptionForId(id, present, comOk) = qtDescription(id, present)
      BY <1>1, <1>4 DEF descriptionForId
    <2> QED BY <2>1, <2>2 DEF qtDescription
  <1> QED BY <1>3, <1>4, RoutingAssumption

\* A stream that DirectShow opens is of the one camera with that moniker.
LEMMA DShowFound ==
  ASSUME NEW c \in Cameras, NEW present \in SUBSET Cameras, NEW comOk \in BOOLEAN,
         createStreamFor(c, present, comOk), c.api = "dshow", life' = "open"
  PROVE  device' = c
  <1> DEFINE id == IdOf(c)
             found == MonikerOf(id, present)
  <1>1. isDShowId(id) /\ id.key = c.key
    BY DEF IdOf, isDShowId
  <1>2. /\ createStream
        /\ found = {} \/ ~comOk => ~owner'
        /\ device' = IF found = {} THEN None ELSE CHOOSE d \in found : TRUE
    BY <1>1 DEF createStreamFor
  <1>3. initOk'
    BY <1>2 DEF createStream
  <1>4. owner'
    BY <1>2, <1>3 DEF createStream, initialiseCallback
  <1>5. found # {}
    BY <1>2, <1>4
  <1>6. \A d \in found : d = c
    BY <1>1, RoutingAssumption DEF MonikerOf
  <1> QED BY <1>2, <1>5, <1>6

\* A stream that Qt opens is of the one camera with that id.
LEMMA QtFound ==
  ASSUME NEW c \in Cameras, NEW present \in SUBSET Cameras, NEW comOk \in BOOLEAN,
         createStreamFor(c, present, comOk), c.api = "qt", qt' # "none"
  PROVE  device' = c
  <1> DEFINE id == IdOf(c)
             found == findCameraDevice(id, present)
  <1>1. ~isDShowId(id) /\ id.key = c.key
    BY DEF IdOf, isDShowId
  <1>2. /\ qt' = IF found = {} THEN "none" ELSE "stopped"
        /\ device' = IF found = {} THEN None ELSE CHOOSE d \in found : TRUE
    BY <1>1 DEF createStreamFor
  <1>3. found # {}
    BY <1>2
  <1>4. \A d \in found : d = c
    BY <1>1, RoutingAssumption DEF findCameraDevice
  <1> QED BY <1>2, <1>3, <1>4

\* Every step keeps stream and camera together.
LEMMA RoutingStep == RoutingInv /\ [RoutingNext]_allVars => RoutingInv'
  <1> SUFFICES ASSUME RoutingInv, [RoutingNext]_allVars PROVE RoutingInv'
    OBVIOUS
  <1> USE DEF RoutingInv, StreamOfItsCamera, routing
  <1>1. ASSUME NEW c \in Cameras, ensureStreamForDeviceId(c)
        PROVE  RoutingInv'
    <2>0. PICK present \in SUBSET Cameras, comOk \in BOOLEAN : createStreamFor(c, present, comOk)
      BY <1>1 DEF ensureStreamForDeviceId, CreateStream
    <2>1. life = "none" /\ qt = "none" /\ opened' = c
      BY <2>0 DEF createStreamFor, NothingOpen
    <2>d. description' \in {"", c.name, c.key}
      <3>1. ASSUME NEW x \in DescriptionsOf(c) PROVE x \in {"", c.name, c.key}
        <4>1. PICK look \in (SUBSET Cameras) \X BOOLEAN : x = descriptionForId(IdOf(c), look[1], look[2])
          BY DEF DescriptionsOf
        <4> QED BY <4>1, DescriptionIsOwn
      <3> QED BY <1>1, <3>1 DEF ensureStreamForDeviceId
    <2>2. CASE c.api = "dshow"
      <3>1. qt' = "none"
        BY <2>0, <2>1, <2>2 DEF createStreamFor, isDShowId, IdOf
      <3>2. life' = "open" => device' = c
        BY <2>0, <2>2, DShowFound
      <3> QED BY <2>1, <2>2, <2>d, <3>1, <3>2
    <2>3. CASE c.api = "qt"
      <3>1. life' = "none"
        BY <2>0, <2>1, <2>3 DEF createStreamFor, isDShowId, IdOf, vars, camVars
      <3>2. qt' # "none" => device' = c
        BY <2>0, <2>3, QtFound
      <3> QED BY <2>1, <2>3, <2>d, <3>1, <3>2
    <2> QED BY <2>2, <2>3, RoutingAssumption
  <1>2. CASE DShowStep
    <2>1. UNCHANGED <<opened, device, description, qt>>
      BY <1>2 DEF DShowStep
    <2>2. life' = "open" => life = "open"
      BY <1>2 DEF DShowStep, start, stop, StopReturns, onNoFrameTimeout, setNoVideoError, RunPosted,
                  destroy, detachOwner, releaseMembers, SampleCB, InCallback, checkBuffer, countFrame,
                  clearError, postFrame, camVars
    <2>3. life = "none" => life' = "none"
      BY <1>2 DEF DShowStep, start, stop, StopReturns, onNoFrameTimeout, setNoVideoError, RunPosted,
                  destroy, detachOwner, releaseMembers, SampleCB, InCallback, checkBuffer, countFrame,
                  clearError, postFrame, camVars
    <2> QED BY <2>1, <2>2, <2>3
  <1>3. CASE qtStart \/ qtStop \/ qtDestroy
    <2>1. UNCHANGED <<opened, device, description, life>> /\ qt # "none"
      BY <1>3 DEF qtStart, qtStop, qtDestroy, vars, camVars
    <2> QED BY <2>1
  <1>4. CASE UNCHANGED allVars
    <2>1. UNCHANGED <<opened, device, description, qt, life>>
      BY <1>4 DEF allVars, vars, camVars
    <2> QED BY <2>1
  <1> QED BY <1>1, <1>2, <1>3, <1>4 DEF RoutingNext

\* Whatever cameras come and go, and however COM answers, between the look-up that creates a stream
\* and the one that describes it, the stream is the asked-for camera's and described as it or not
\* at all.
THEOREM StreamIsOfItsCamera == RoutingSpec => []StreamOfItsCamera
  <1>1. RoutingInit => RoutingInv
    BY DEF RoutingInit, Init, Closed, RoutingInv, StreamOfItsCamera
  <1>2. RoutingInv => StreamOfItsCamera
    BY DEF RoutingInv
  <1> QED BY <1>1, <1>2, RoutingStep, PTL DEF RoutingSpec

=============================================================================
