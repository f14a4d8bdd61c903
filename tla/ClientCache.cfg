SPECIFICATION CacheSpec
CONSTANTS
    Pages = {s1}
    Resources = {mail, box, reset}
    Mail = mail
    NewBox = box
    Reset = reset
    Lists = {l1}
    Capacity = 1
    MaxEvents = 2
    MaxFaults = 0
    MaxInactive = 0
    MaxActs = 1
INVARIANTS
    CacheKnows
    NoBlankPage
CHECK_DEADLOCK FALSE
