\* The error of a run's last command.
SPECIFICATION QmpSpec
CONSTANTS
    Script <- ShortScript
    Refusable = {1, 3}
    MaxShots = 1
    MaxAttempts = 2
    MaxDrops = 0
    MaxEvents = 0
CHECK_DEADLOCK FALSE
PROPERTY CleanExit
