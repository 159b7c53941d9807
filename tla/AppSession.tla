----------------------------- MODULE AppSession -----------------------------
(***************************************************************************)
(* main(): runs of the application one after another, over the settings     *)
(* they leave behind.  A run starts, loads its window, may be killed or     *)
(* crash at any point, and at an orderly end runs the two handlers of       *)
(* aboutToQuit in the order of their connection.                            *)
(***************************************************************************)
EXTENDS WindowPlacement, AppPreferences

CONSTANTS
    Placements,     \* the placements that can be stored before the first run
    SettingsFiles,  \* the settings that can be stored before the first run
    UserWindows,    \* where the user can drag the window to, never below its minimum size
    Unset,          \* an environment variable that is not set
    None            \* nothing was saved yet

ASSUME SessionAssumption ==
    /\ \A stored \in Placements : \A key \in DOMAIN stored : stored[key] \in Int
    /\ \A w \in UserWindows : /\ w \in [x : Int, y : Int, w : Int, h : Int]
                              /\ w.w >= MinimumSize.w /\ w.h >= MinimumSize.h
    /\ \A file \in SettingsFiles : \A n \in Names \cap DOMAIN file : Typed(n, file[n]) \/ file[n] = Garbled

VARIABLES
    phase,          \* "down", "loading", "running", or "saving" (between the two handlers)
    mainWindow,     \* main's pointer to the window is set
    userBackend,    \* QT_QUICK_BACKEND in the environment the process was started in
    backend,        \* QT_QUICK_BACKEND now
    settled,        \* window and screens are as the last restore left them
    savedWindow,    \* the last complete save of the window, and whether it could stay there
    written         \* the last value the program stored for a preference, if any

session == <<phase, mainWindow, userBackend, backend, settled>>
history == <<savedWindow, written>>
vars == <<placementVars, prefVars, session, history>>

SessionInit ==
    /\ screens \in Layouts /\ window = CreatedWindow /\ placement \in Placements
    /\ settings \in SettingsFiles /\ preferences = Defaults
    /\ phase = "down" /\ mainWindow = FALSE /\ settled = FALSE
    /\ userBackend = Unset /\ backend = Unset
    /\ savedWindow = None /\ written = <<>>

-----------------------------------------------------------------------------
(* Start *)

storedSoftwareRendering ==
    IF "softwareRenderingEnabled" \in DOMAIN settings
    THEN Converted("softwareRenderingEnabled", settings["softwareRenderingEnabled"]) ELSE FALSE

\* Fault: the setting is applied whatever the user set.
QuickBackend_Overrides(own) == IF storedSoftwareRendering THEN "software" ELSE own

\* main() reads the setting by itself, before there is an AppPreferences.
QuickBackend(own) == IF storedSoftwareRendering /\ own = Unset THEN "software" ELSE own

\* main() up to engine.load(), on Windows: the environment, the supervisor with its preferences,
\* and a window that waits to be placed.
Launch ==
    /\ phase = "down" /\ phase' = "loading"
    /\ userBackend' \in {Unset, "own"}
    /\ backend' = QuickBackend(userBackend')
    /\ construct
    /\ window' = CreatedWindow /\ mainWindow' = FALSE /\ settled' = FALSE
    /\ UNCHANGED <<screens, placement, history>>

\* objectCreated, from the event loop.
objectCreated ==
    /\ phase = "loading" /\ phase' = "running"
    /\ mainWindow' = TRUE /\ settled' = TRUE
    /\ restoreAndRepairMainWindowPlacement
    /\ UNCHANGED <<prefVars, userBackend, backend, history>>

-----------------------------------------------------------------------------
(* While it runs *)

MoveWindow == /\ phase = "running" /\ window' \in UserWindows
              /\ settled' = FALSE
              /\ UNCHANGED <<screens, placement, prefVars, phase, mainWindow, userBackend, backend, history>>

ChangeScreens == /\ screens' \in Layouts
                 /\ settled' = FALSE
                 /\ UNCHANGED <<window, placement, prefVars, phase, mainWindow, userBackend, backend, history>>

EditPreference == /\ phase = "running" /\ edit
                  /\ UNCHANGED <<placementVars, session, history>>

\* Leaving the preferences saves them.
closePreferences == /\ phase = "running" /\ save
                    /\ written' = preferences
                    /\ UNCHANGED <<placementVars, session, savedWindow>>

-----------------------------------------------------------------------------
(* End *)

\* The application quits - or could not load its window - and the first handler runs.
shutdown == /\ phase \in {"loading", "running"} /\ phase' = "saving"
            /\ save
            /\ written' = preferences
            /\ UNCHANGED <<placementVars, mainWindow, userBackend, backend, settled, savedWindow>>

\* With the process go its objects and its environment.
ProcessEnds ==
    /\ phase' = "down" /\ mainWindow' = FALSE /\ settled' = FALSE
    /\ window' = CreatedWindow /\ preferences' = Defaults
    /\ userBackend' = Unset /\ backend' = Unset
    /\ UNCHANGED screens

CanStay == settled \/ fullyContainsRect(buildAllowedRegion(screens), window)

\* The second handler, if there ever was a window; the process ends.
SavePlacement ==
    /\ phase = "saving" /\ ProcessEnds /\ UNCHANGED <<settings, written>>
    /\ IF mainWindow
       THEN /\ saveMainWindowPlacement(4)
            /\ savedWindow' = [rect |-> window, screens |-> screens, canStay |-> CanStay]
       ELSE UNCHANGED <<placement, savedWindow>>

\* Killed, or ended by an exception: nothing more is stored.
Die == /\ phase # "down" /\ ProcessEnds
       /\ UNCHANGED <<settings, written, placement, savedWindow>>

\* Killed while the preferences are saved setting by setting, on leaving them or in the first handler.
DieInSave ==
    /\ phase \in {"loading", "running"} /\ ProcessEnds
    /\ \E count \in 1..11 : settings' = SavedOver(settings, count) /\ written' = SavedOver(written, count)
    /\ UNCHANGED <<placement, savedWindow>>

\* Killed while the placement is stored key by key, as the Windows registry does.
DieInPlacement ==
    /\ phase = "saving" /\ mainWindow /\ ProcessEnds /\ UNCHANGED <<settings, written>>
    /\ \E count \in 1..3 : saveMainWindowPlacement(count)
    /\ savedWindow' = None

SessionNext ==
    \/ Launch \/ objectCreated
    \/ MoveWindow \/ ChangeScreens \/ EditPreference \/ closePreferences
    \/ shutdown \/ SavePlacement \/ Die \/ DieInSave \/ DieInPlacement

SessionSpec == SessionInit /\ [][SessionNext]_vars

-----------------------------------------------------------------------------
(* Properties *)

Restores == phase = "loading" /\ phase' = "running"

\* Whatever was stored and whatever screens there are, no other place would have been better than
\* the one the window is restored to - found from the edges of the screens alone.
RestoredToBestPlace ==
    [][Restores => \E desired \in Desired : window' \in BestFits(desired, screens, MinimumSize)]_vars

\* A window that could stay where it was is found there by the next run, if the screens are the
\* same: neither the repair nor the order of saving makes it creep.
RestartKeepsWindow ==
    [][Restores /\ savedWindow # None /\ savedWindow.canStay /\ savedWindow.screens = screens
          => window' = savedWindow.rect]_vars

\* What was last stored of a preference is what a new run has, after clean and unclean ends; the
\* settings may be those of several saves, each cut off at another of them, over an older file.
PreferencesSurvive ==
    phase = "loading" => \A n \in DOMAIN written : preferences[n] = written[n]

\* The renderer is the user's choice: of the environment first, and of the saved preference
\* otherwise - which main() and AppPreferences read each on its own.
RendererIsChosen ==
    phase = "loading" =>
        backend = IF userBackend # Unset THEN userBackend
                  ELSE IF preferences.softwareRenderingEnabled THEN "software" ELSE Unset

=============================================================================
