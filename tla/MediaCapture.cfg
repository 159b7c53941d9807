SPECIFICATION Spec
CONSTANTS
    Devices = {d1}
    Handles = {h1, h2}
    Sinks = {s1, s2}
    Streams = {c1, c2}
    None = None
    MaxFrames = 1
    MaxPending = 1
    QueuedDelivery = TRUE
    SharedSinks = FALSE
    SinkDeaths = FALSE
SYMMETRY Symmetry
INVARIANTS
    NoOrphanCapture
    OneCapturePerDevice
    CountedCapture
    StreamsAreUsed
    AttachedMirrorsStream
    ListsExactlyAttached
PROPERTIES
    CaptureStopsByAStop
    StopBlanksViews
