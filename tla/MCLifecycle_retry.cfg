SPECIFICATION Spec
CONSTANTS
    STORE_TIERS = 3
    sd = sd
    disk = disk
    share = share
    Mounts = {sd, disk, share}
    Storage = {sd, disk}
    Interesting = {sd, share}
    Size <- MCSize
    Losses <- MCLosses
    None = None
    Dead = Dead
    MaxStarts = 2
    MaxMounts = 3
    MaxFailures = 1
INVARIANTS
    AllTiersOrNone
    OneRetryTimer
PROPERTIES
    StoreOnlyGrows
    
    StorageIsPickedUp
CHECK_DEADLOCK FALSE
