SPECIFICATION PanelsSpec
CONSTANTS
    Devices = {d1, d2}
    Handles = {h1, h2}
    Sinks = {shell, preferences}
    Streams = {c1, c2}
    None = None
    MaxFrames = 1
    MaxPending = 1
    QueuedDelivery = TRUE
    SharedSinks = FALSE
    SinkDeaths = FALSE
    Restarting = {shell}
    Followed = {shell}
    PaintsHidden = TRUE
INVARIANTS
    NoOldPicture
SYMMETRY Symmetry
CONSTRAINT CamerasStay
