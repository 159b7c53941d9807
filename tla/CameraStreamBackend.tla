------------------------ MODULE CameraStreamBackend ------------------------
(***************************************************************************)
(* What every camera backend promises MediaCapture: the interface          *)
(* CameraStreamBackend, as MediaCapture relies on it.  A stream that is     *)
(* open sends frames to the UI thread only while it runs.  What it sent     *)
(* may arrive after stop(), but nothing arrives once the stream is gone,    *)
(* and only an open stream has an error text.                               *)
(***************************************************************************)
EXTENDS Naturals

CONSTANT Texts      \* the error texts of a backend; "" is no error

VARIABLES
    open,           \* createStream() handed the stream out
    asked,          \* the last call was start() and not stop()
    running,        \* the device may send frames
    inFlight,       \* frames sent and not emitted yet
    text            \* errorText()

vars == <<open, asked, running, inFlight, text>>

Init == ~open /\ ~asked /\ ~running /\ inFlight = 0 /\ text = ""

createStream == /\ ~open /\ open'
                /\ text' \in Texts
                /\ UNCHANGED <<asked, running, inFlight>>

\* start() may fail, and then says so.
start == /\ open /\ ~asked /\ asked'
         /\ \/ running' /\ UNCHANGED text
            \/ ~running' /\ text' \in Texts \ {""}
         /\ UNCHANGED <<open, inFlight>>

Send == /\ open /\ running
        /\ inFlight' = inFlight + 1
        /\ UNCHANGED <<open, asked, running, text>>

\* Q_EMIT videoFrameChanged( frame )
videoFrameChanged == /\ open /\ inFlight > 0
                     /\ inFlight' = inFlight - 1
                     /\ UNCHANGED <<open, asked, running, text>>

setErrorText == /\ open /\ text' \in Texts
                /\ UNCHANGED <<open, asked, running, inFlight>>

\* stop() is called, and has returned when the device is halted.
stop == /\ open /\ asked /\ ~asked'
        /\ UNCHANGED <<open, running, inFlight, text>>

Halt == /\ ~asked /\ running /\ ~running'
        /\ UNCHANGED <<open, asked, inFlight, text>>

\* A stream is destroyed halted, and what is on its way is dropped with it.
destroy == /\ open /\ ~asked /\ ~running
           /\ ~open' /\ inFlight' = 0 /\ text' = ""
           /\ UNCHANGED <<asked, running>>

Next == createStream \/ start \/ Send \/ videoFrameChanged \/ setErrorText \/ stop \/ Halt \/ destroy

Spec == Init /\ [][Next]_vars
=============================================================================
