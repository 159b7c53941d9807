---------------------------- MODULE MCCameraPanels ----------------------------
(***************************************************************************)
(* Two cameras, for TLC.  Names do not matter: a free handle or stream is  *)
(* taken among equals, and only the panels differ from each other.         *)
(***************************************************************************)
EXTENDS CameraPanels, TLC

Symmetry == Permutations(Devices) \cup Permutations(Handles) \cup Permutations(Streams)

\* Bound: both cameras stay plugged in and fail at nothing.
CamerasStay == plugged = Devices /\ \A c \in Streams : stream[c].errorText = ""
=============================================================================
