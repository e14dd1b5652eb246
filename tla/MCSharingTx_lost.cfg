SPECIFICATION Spec
CONSTANTS
    g1 = g1
    g2 = g2
    Objects = {1, 2, 3}
    Groups = {g1, g2}
    Workers = {1, 2}
    Jobs <- AnyTwo
    InitRels <- Chain
    InitPerms <- NoPerms
    NoGroup = NoGroup
CHECK_DEADLOCK FALSE
INVARIANTS AnsweredIsDone
