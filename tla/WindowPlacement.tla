-------------------------- MODULE WindowPlacement --------------------------
(***************************************************************************)
(* Restoring and saving the placement of the main window.  The settings     *)
(* hold up to four numbers, each of which may be missing or - in a file     *)
(* that another layout, a killed run or an editor left behind - anything.   *)
(***************************************************************************)
EXTENDS WindowRectFitter

CONSTANTS
    Layouts,            \* the sets of available geometries the screens can have
    MinimumSize,        \* window->minimumSize(), a record [w, h]
    CreatedWindow,      \* the geometry of a window that was just created
    kTitleBarHeight, kTitleBarGripWidth

ASSUME PlacementAssumption ==
    /\ \A layout \in Layouts : IsFiniteSet(layout) /\ layout \subseteq [x : Int, y : Int, w : Nat, h : Nat]
    /\ MinimumSize.w \in Nat \ {0} /\ MinimumSize.h \in Nat \ {0}
    /\ CreatedWindow \in [x : Int, y : Int, w : Int, h : Int]
    /\ CreatedWindow.w >= MinimumSize.w /\ CreatedWindow.h >= MinimumSize.h

VARIABLES
    screens,            \* the available geometries of the screens there are
    window,             \* the geometry of the window
    placement           \* the keys ui/mainWindow/... that are stored

placementVars == <<screens, window, placement>>

PlacementKeys == <<"x", "y", "w", "h">>

Stored(keys) == keys \subseteq DOMAIN placement

HalfOf(n) == IF n < 0 THEN -((-n) \div 2) ELSE n \div 2     \* as C++ divides

centredPosition(avail, r) ==
    [r EXCEPT !.x = avail.x + HalfOf(avail.w - r.w), !.y = avail.y + HalfOf(avail.h - r.h)]

Resized == IF Stored({"w", "h"}) /\ placement["w"] > 0 /\ placement["h"] > 0
           THEN Rect(window.x, window.y, placement["w"], placement["h"])
           ELSE window

\* The screen the window is on, or the primary one.
Positioned(r) == IF Stored({"x", "y"}) THEN {Rect(placement["x"], placement["y"], r.w, r.h)}
                 ELSE IF screens = {} THEN {r}
                 ELSE {centredPosition(avail, r) : avail \in screens}

\* What the window is asked to be, before the repair.
Desired == Positioned(Enlarged(Resized, MinimumSize))

restoreAndRepairMainWindowPlacement ==
    /\ \E desired \in Desired :
          window' = fit(desired, screens, MinimumSize, kTitleBarHeight, kTitleBarGripWidth).rect
    /\ UNCHANGED <<screens, placement>>

FirstKeys(count) == {PlacementKeys[i] : i \in 1..count}

\* What is stored once these keys have been written.
Written(keys) ==
    [key \in DOMAIN placement \cup keys |-> IF key \in keys THEN window[key] ELSE placement[key]]

\* Fault: the size is not stored.
saveMainWindowPlacement_PositionOnly(count) ==
    placement' = Written(FirstKeys(count) \ {"w", "h"})

\* The first keys are written; all four, unless the process is killed.
saveMainWindowPlacement(count) ==
    placement' = Written(FirstKeys(count))
=============================================================================
