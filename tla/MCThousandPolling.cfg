CONSTANTS
    op = op
    f1 = f1
    f2 = f2
    AlwaysPolled <- MCAlwaysPolled
    FilePackages <- MCFilePackages
    Slots = {1}
    Values = {0, 1}
    NotSet = NotSet
    NoStray = NoStray
    NoWrite = NoWrite
    Events = {"change", "silent", "late", "garbled", "short", "raise",
              "badResult"}
    MaxEvents = 2
SPECIFICATION MCFairSpec
INVARIANTS
    OnlyAbortsDrop
PROPERTIES
    NotesDrained
    Converges
