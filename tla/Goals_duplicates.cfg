SPECIFICATION Spec
CONSTANTS
    Objectives = {o1, o2}
    Evaluations = {e1}
    MaxLength = 4
CHECK_DEADLOCK FALSE
INVARIANT NoDuplicates
