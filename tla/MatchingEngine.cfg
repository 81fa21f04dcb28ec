SPECIFICATION Spec
CONSTANTS
    Ids = {1, 2}
    FillSizes = {1}
    Symbols = {s}
    Listeners = {f}
    Nobody = Nobody
    Limit = 2
    MaxCount = 2
INVARIANTS ListenersEverywhere CancelPrevails
PROPERTIES StopHonoured FullInboxDrains
