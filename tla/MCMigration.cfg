SPECIFICATION Spec
CONSTANTS
    old = old
    new = new
    twin = twin
    note = note
    profile = profile
    NoAddress = NoAddress
    Event = {old, new, twin, note}
    Address <- MCAddress
    CreatedAt <- MCCreatedAt
    RowOrder <- MCRowOrder
    MaxFaults = 2
INVARIANTS
    TypeOK
    CurrentIsComplete
    TagsSurvive
    NothingShownLost
    ScriptsCanBeRepeated
CHECK_DEADLOCK FALSE
