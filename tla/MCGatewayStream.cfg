CONSTANTS
    Frames <- MCFrames
    NoFrame = NoFrame
    Capacity = 1
    MaxCommands = 1
    MaxErrors = 1
SPECIFICATION StreamSpec
INVARIANT GracefulEndDeliversAll
INVARIANT PendingStateHasWaker
PROPERTY ClientAppliesWhatIsSent
PROPERTY StreamEnds
CHECK_DEADLOCK FALSE
