--------------------------- MODULE MCMediaCapture ---------------------------
(* Model-checking instances of MediaCapture. *)
EXTENDS MediaCapture, TLC

\* Handles and sinks are interchangeable; stream slots are chosen by CHOOSE and are not.
Symmetry == Permutations(Handles) \cup Permutations(Sinks)
=============================================================================
