SPECIFICATION Spec
ACTION_CONSTRAINT StaysAcyclic
CONSTANTS
    ann = ann
    bob = bob
    pAnn = pAnn
    pBob = pBob
    ws = ws
    Users = {ann}
    Groups = {pAnn, ws}
    Objects = {1, 2, 3, 4}
    Private <- MCPrivate
    Members <- MCMembers
    Workspaces = {pAnn, ws}
    FixedGroups <- MCFixed
    CapGroups <- MCCapGroups
    MaxRelations = 6
    NoObject = NoObject
    NoUser = NoUser
CHECK_DEADLOCK FALSE
INVARIANTS InheritanceClosure
PROPERTIES RemovalsTakeTheirs
