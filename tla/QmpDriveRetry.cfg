\* A reply cut in the middle.
SPECIFICATION QmpSpec
CONSTANTS
    Script <- ShortScript
    Refusable = {1, 3, 4}
    MaxShots = 2
    MaxAttempts = 2
    MaxDrops = 1
    MaxEvents = 0
CHECK_DEADLOCK FALSE
INVARIANT RetriedFirst
