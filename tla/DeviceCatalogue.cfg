SPECIFICATION FairSpec
CONSTANTS
    Devices <- MCDevices
    Screens = {s1}
    Geometries = {g1, g2}
    Capacity = 2
    Environments <- MCEnvironments
    MaxChanges = 3
    FixedNames = 2
INVARIANTS
    ForgetsInOrder
    ListedOnce
PROPERTIES
    ListedDevicesStay
    ListsCatchUp
    SilentCamerasFound
CHECK_DEADLOCK FALSE
