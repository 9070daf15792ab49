SPECIFICATION Spec
CONSTANTS
    Users = {n1, n2}
    First = n1
    Tokens = {t1}
    MaxManagers = 1
    MaxRestarts = 0
CHECK_DEADLOCK FALSE
PROPERTY PairsAreAskedFor
