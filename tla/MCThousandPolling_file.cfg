CONSTANTS
    op = op
    f1 = f1
    f2 = f2
    AlwaysPolled <- MCAlwaysPolled
    FilePackages <- MCFilePackages
    Slots = {1, 2}
    Values = {0, 1}
    NotSet = NotSet
    NoStray = NoStray
    NoWrite = NoWrite
    Events = {"late"}
    MaxEvents = 2
SPECIFICATION Spec
PROPERTY WriteChangesOneParam
