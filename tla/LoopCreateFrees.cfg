\* What the comment in front of LoopCreate says of a failure.
SPECIFICATION CreateSpec
CONSTANTS
    WordSpan = 1000000
    Images <- ManyImages
INVARIANTS FailureFreesAll
