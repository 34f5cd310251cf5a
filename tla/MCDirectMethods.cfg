CONSTANTS
    d1 = d1
    d2 = d2
    w1 = w1
    q1 = q1
    small = small
    large = large
    Downloads <- MCDownloads
    Writes <- MCWrites
    TwinWrites <- MCTwinWrites
    Others <- MCOthers
    Versions <- MCVersions
    Size <- MCSize
    Caps <- MCCaps
    MaxRestarts = 1
SPECIFICATION Spec
INVARIANTS
    InstalledWhole
    DownloadsTruthful
PROPERTIES
    ImplementsMethodService
    Answered
