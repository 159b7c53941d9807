-------------------------- MODULE VcVideoPaintItem --------------------------
(***************************************************************************)
(* The item that paints a camera preview when the scene graph renders in    *)
(* software: frames come through its sink, the image is made in paint(),    *)
(* and repaints are at least 33 ms apart.  One item is a record that its    *)
(* members change.  A frame, and the image made of it, is known by the      *)
(* camera it came from; the serials of frames are only compared, so one     *)
(* flag says whether the pending frame has been painted.                    *)
(***************************************************************************)
CONSTANT None   \* no frame, no image

\* unpainted: m_paintedSerial # m_pendingSerial.   timer: m_throttleTimer runs.
\* dirty: update() was called and the scene graph has not painted the item yet.
NewItem ==
    [pendingFrame |-> None, unpainted |-> FALSE, lastImage |-> None, hasFrame |-> FALSE,
     errorText |-> FALSE, updateScheduled |-> FALSE, timer |-> FALSE, dirty |-> FALSE]

update(i) == [i EXCEPT !.dirty = TRUE]

\* due: the last painting is 33 ms ago.
requestRepaint(i, due) ==
    LET scheduled == [i EXCEPT !.updateScheduled = TRUE]
    IN IF i.updateScheduled THEN i
       ELSE IF due THEN update(scheduled)
       ELSE [scheduled EXCEPT !.timer = TRUE]

\* An invalid frame empties the item at once.
onVideoFrameChanged(i, frame, due) ==
    LET told == [i EXCEPT !.pendingFrame = frame, !.unpainted = TRUE]
        emptied == [told EXCEPT !.lastImage = None, !.hasFrame = FALSE, !.errorText = FALSE]
    IN requestRepaint(IF frame # None THEN told ELSE emptied, due)

onThrottleTimeout(i) == update([i EXCEPT !.timer = FALSE])

\* The image of the pending frame, if Qt can make one.
Painted(i, converts) ==
    [i EXCEPT !.unpainted = FALSE, !.lastImage = IF converts THEN i.pendingFrame ELSE None,
              !.hasFrame = converts, !.errorText = ~converts]

\* Fault: the item stays scheduled.
paint_StaysScheduled(i, converts) ==
    LET painting == [i EXCEPT !.dirty = FALSE]
    IN IF i.pendingFrame # None /\ i.unpainted THEN Painted(painting, converts) ELSE painting

\* Fault: an image that is there is not made anew.
paint_KeepsImage(i, converts) ==
    LET painting == [i EXCEPT !.dirty = FALSE, !.updateScheduled = FALSE]
    IN IF i.pendingFrame = None \/ ~i.unpainted THEN painting
       ELSE IF i.lastImage # None THEN [painting EXCEPT !.unpainted = FALSE]
       ELSE Painted(painting, converts)

\* converts: Qt can make an image of the frame.
paint(i, converts) ==
    LET painting == [i EXCEPT !.dirty = FALSE, !.updateScheduled = FALSE]
    IN IF i.pendingFrame # None /\ i.unpainted THEN Painted(painting, converts) ELSE painting
=============================================================================
