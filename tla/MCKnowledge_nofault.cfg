SPECIFICATION Spec
CONSTANTS
    p1 = p1
    p2 = p2
    a1 = a1
    a2 = a2
    a3 = a3
    a4 = a4
    i1 = i1
    i2 = i2
    i3 = i3
    Processes = {p1}
    Agents = {a1, a2, a3, a4}
    Items = {i1, i2, i3}
    Characters <- SiblingCharacters
    KnowledgeOf <- SharedKnowledge
    Fragments <- SharedFragments
    MaxBoots = 1
    MaxFaults = 0
    NoAgent = NoAgent
INVARIANT KnowledgeComplete
CHECK_DEADLOCK FALSE
