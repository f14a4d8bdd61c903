SPECIFICATION FairSpec
CONSTANTS
    Pages = {s1}
    Resources = {mail, cal}
    Capacity = 2
    MaxEvents = 5
    MaxFaults = 2
INVARIANTS
    NoSilentGap
    OrderedDelivery
PROPERTIES
    ClosedStreamEnds
    EventuallyFresh
