SPECIFICATION FairSpec
CONSTANTS
    p1 = p1
    p2 = p2
    a1 = a1
    a2 = a2
    a3 = a3
    a4 = a4
    i1 = i1
    i2 = i2
    i3 = i3
    Processes = {p1, p2}
    Agents = {a1, a2, a3, a4}
    Items = {i1, i2, i3}
    Characters <- SharedCharacters
    KnowledgeOf <- SharedKnowledge
    Fragments <- SharedFragments
    MaxBoots = 2
    MaxFaults = 2
    NoAgent = NoAgent
INVARIANT TypeOK
INVARIANT FragmentsFollowDocument
INVARIANT CompleteUnlessFaulty
INVARIANT EachFaultTearsOneItem
INVARIANT ReadableUnlessFaulty
PROPERTY RowsKeepOwner
PROPERTY LaunchEnds
CHECK_DEADLOCK FALSE
