SPECIFICATION WalkSpec
ACTION_CONSTRAINT SmallOrAcyclic
CONSTANTS
    Users = {}
    Groups = {}
    Objects = {1, 2, 3, 4}
    Private <- Empty
    Members <- Empty
    Workspaces = {}
    FixedGroups = {}
    CapGroups <- MCCapGroups
    MaxRelations = 4
    Keys <- MCKeys
    NoObject = NoObject
    NoUser = NoUser
CHECK_DEADLOCK FALSE
INVARIANTS SameOutcomes RemovalEnds
