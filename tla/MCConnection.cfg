SPECIFICATION SysSpec
CONSTANTS
    Agents = {a1}
    Users = {u1}
    ChatRooms = {r1}
    Calls = {c1, c2}
    Recommenders = {n1, n2}
    First = n1
    Tokens = {t1, t2}
    MaxManagers = 2
    MaxRestarts = 1
    Talkers = {ann, bob}
    Agent = me
    Halls = {hall, den}
    Bare = {den}
    Length = 2
    Interacted = 1
    MaxMessages = 3
    MaxFacts = 2
    MaxHours = 1
    MaxBoots = 1
    MaxFaults = 1
CHECK_DEADLOCK FALSE
SYMMETRY Symmetry
INVARIANT TypesOK
INVARIANT ConnectedMembers
INVARIANT ParticipantsResolve
INVARIANT PostgresRowsValid
PROPERTY WhatIsRecalled
