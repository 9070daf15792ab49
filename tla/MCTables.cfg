SPECIFICATION SysSpec
CONSTANTS
    Objectives = {o1, o2}
    Evaluations = {e1, e2}
    MaxLength = 4
    Users = {u1, u2}
    Rooms = {rm}
    Messages = {m1, m2, m3}
    Named = {m1}
    Vectored = {m1, m2}
    About <- Alike
    Plans = {g1}
    Aim <- OneAim
    MaxCopies = 1
    MaxLost = 1
    MaxRows = 3
    Agent = u1
    Own = rm
    u1 = u1
    u2 = u2
    rm = rm
    m1 = m1
    Callers = {c1, c2}
    Values = {v1, v2}
    Expiries = {0, 2}
    MaxTime = 3
    MaxStray = 1
    MaxCacheFaults = 1
    Queries = {q1, q2}
    MaxRetries = 3
    MaxErrors = 2
    MaxPoolFaults = 1
CHECK_DEADLOCK FALSE
INVARIANT TypesOK
INVARIANT DoneIsComplete
INVARIANT DatabasesAgree
INVARIANT StoresHold
PROPERTY ObjectivesKept
PROPERTY ProgressStays
PROPERTY StoresRecover
