SPECIFICATION Spec
CONSTANTS
    Messages = {m1}
    MaxChunks = 2
CHECK_DEADLOCK FALSE
INVARIANT UnmuteIsNotMute
