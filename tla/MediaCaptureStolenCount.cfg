SPECIFICATION Spec
CONSTANTS
    Devices = {d1}
    Handles = {h1, h2}
    Sinks = {s1, s2}
    Streams = {c1, c2}
    None = None
    MaxFrames = 2
    MaxPending = 1
    QueuedDelivery = FALSE
    SharedSinks = FALSE
    SinkDeaths = FALSE
SYMMETRY Symmetry
PROPERTIES
    CaptureOutlivesNoRunner
