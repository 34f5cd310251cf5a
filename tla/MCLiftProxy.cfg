\* The application may be cancelled at any await and then stops for good.
CONSTANTS
    m1 = m1
    Callers <- MCCallers
    MaxAttempts = 2
SPECIFICATION FairSpec
INVARIANTS
    NoHalfBoundProxy
    BusExclusive
    NoClosedPortInUse
    ColdStartNotLost
PROPERTIES
    ImplementsBinding
    TaggedUnlessClosing
    IdentifiedWhenUp
    AnnouncedAndReleased
    CallsReturn
CHECK_DEADLOCK FALSE
