\* Two device slots: the run's own device and one that comes and goes.
SPECIFICATION RunSpec
CONSTANTS
    WordSpan = 1000000
    d1 = d1
    d2 = d2
    Dev = {d1, d2}
    Images <- SomeImages
    Media <- SomeMedia
    Params <- SomeParams
    NoShell = NoShell
    None = None
CHECK_DEADLOCK FALSE
INVARIANTS RunInv
PROPERTIES NeverClobbered ReportedVolumesNamed MountDelivered OwnConnectSafe ReportIsDiff ExitStatus RunEnds
