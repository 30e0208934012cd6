SPECIFICATION Spec
CONSTANTS
    STORE_TIERS = 3
    sd = sd
    disk = disk
    share = share
    Mounts = {sd}
    Storage = {sd}
    Interesting = {sd}
    Size <- MCSize
    Losses <- MCLosses
    None = None
    Dead = Dead
    MaxStarts = 1
    MaxMounts = 2
    MaxFailures = 0
PROPERTY
    KeepsLooking
CHECK_DEADLOCK FALSE
