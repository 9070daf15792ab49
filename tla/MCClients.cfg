SPECIFICATION SysSpec
CONSTANTS
    Messages = {m1, m2}
    MaxChunks = 2
    Chats = {ca, cb}
    Updates = {u1, u2}
    MaxNumber = 3
    MaxTelegramFaults = 3
    Requests = {r1, r2}
    Slots = {s1, s2}
    Attached = {j1, j2}
    Mp4s = {v1, v2}
    Videos = {v3}
    Others = {o1}
    j1 = j1
    j2 = j2
    v1 = v1
    Users = {p1}
    MaxEvents = 4
    Agents = 2
    Kinds <- ThreeKinds
    MaxLaunchFaults = 2
    Mentions = {q1, q2}
    Silent = {q2}
    MaxCasts = 2
    MaxFarcasterFaults = 2
    MaxTime = 1
    MaxFaults = 1
CHECK_DEADLOCK FALSE
INVARIANT TypesOK
INVARIANT RepliesResolve
INVARIANT SilentUnanswered
INVARIANT BoundedContinuation
INVARIANT Remembered
INVARIANT AgentsAreWhole
PROPERTY AllEnd
