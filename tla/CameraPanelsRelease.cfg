SPECIFICATION PanelsSpec
CONSTANTS
    Devices = {d1}
    Handles = {h1, h2}
    Sinks = {shell, preferences}
    Streams = {c1}
    None = None
    MaxFrames = 1
    MaxPending = 1
    QueuedDelivery = TRUE
    SharedSinks = FALSE
    SinkDeaths = FALSE
    Restarting = {shell}
    Followed = {shell}
    PaintsHidden = TRUE
INVARIANTS
    CaptureReleasedOnClose
