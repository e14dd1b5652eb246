SPECIFICATION Spec
CONSTANTS
    g1 = g1
    g2 = g2
    Objects = {1, 2, 3, 4}
    Groups = {g1, g2}
    Workers = {1, 2, 3}
    Jobs <- ApartJobs
    InitRels <- Diamond
    InitPerms <- OneOnTwo
    NoGroup = NoGroup
CHECK_DEADLOCK FALSE
INVARIANTS SharedExactly
PROPERTIES AllFinish
