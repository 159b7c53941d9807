SPECIFICATION RoutingSpec
CONSTANTS
    MaxOffers = 2
    Dimensions <- MCDimensions
    MaxPosted = 3
    Cameras <- MCCameras
    None = None
INVARIANTS
    OwnerAliveInCallback
    CallbackReleased
    ReadsInSample
    StreamOfItsCamera
PROPERTIES
    ErrorsEndWithFrames
    SilentCameraTold
    StopComesBack
    KeepsBackendContract
