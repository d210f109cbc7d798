SPECIFICATION LifeSpec
CONSTANTS
    Admins = {a1, a2}
    KeyIDs = {1, 2}
    Serials = {1, 2}
    Wrapped = {1}
    MaxStamp = 3
PROPERTY LifecycleOrder
