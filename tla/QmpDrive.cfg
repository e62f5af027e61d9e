\* Two lost connections around a script of three commands.
SPECIFICATION QmpSpec
CONSTANTS
    Script <- ShortScript
    Refusable = {1, 3, 4}
    MaxShots = 2
    MaxAttempts = 2
    MaxDrops = 2
    MaxEvents = 1
CHECK_DEADLOCK FALSE
INVARIANTS QmpInv LossBound FailsForCause
PROPERTIES LagIsOne DriverEnds
