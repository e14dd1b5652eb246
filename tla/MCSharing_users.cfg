SPECIFICATION Spec
CONSTANTS
    ann = ann
    bob = bob
    pAnn = pAnn
    pBob = pBob
    ws = ws
    Users = {ann, bob}
    Groups = {pAnn, pBob}
    Objects = {o1, o2}
    Private <- MCPrivate
    Members <- MCMembers
    Workspaces = {pAnn, pBob}
    FixedGroups <- MCFixed
    CapGroups <- MCCapGroups
    MaxRelations = 3
    NoObject = NoObject
    NoUser = NoUser
SYMMETRY MCSymmetry
CHECK_DEADLOCK FALSE
INVARIANTS TablesSound
PROPERTIES GrantsAreFinal
