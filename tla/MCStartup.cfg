\* main() ends for good after a fatal error or a cancellation.
SPECIFICATION Spec
CONSTANTS
    hubA = hubA
    hubB = hubB
    Hubs <- MCHubs
    BACKOFF_INITIAL = 1
    BACKOFF_MAX = 60
    ATTEMPTS = 3
    MaxFaults = 2
INVARIANTS
    OneSession
    ReleasedAtExit
    Paced
PROPERTIES
    NearerWhenUp
    CloudReached
CHECK_DEADLOCK FALSE
