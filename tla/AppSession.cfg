SPECIFICATION SessionSpec
CONSTANTS
    Layouts <- MCLayouts
    MinimumSize <- MCMinimum
    CreatedWindow <- MCCreated
    kTitleBarHeight = 1
    kTitleBarGripWidth = 2
    Garbled = Garbled
    Edits <- MCEdits
    Placements <- MCPlacements
    SettingsFiles <- MCSettings
    UserWindows <- MCUserWindows
    Unset = Unset
    None = None
INVARIANTS
    PreferencesSurvive
    RendererIsChosen
PROPERTIES
    RestoredToBestPlace
    RestartKeepsWindow
