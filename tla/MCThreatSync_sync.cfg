SPECIFICATION Spec
CONSTANTS
    A = A
    B = B
    c1 = c1
    c2 = c2
    Paths <- MCPaths
    Listing <- MCListing
    Names = {A, B}
    Categories = {"threats", "for-later-review", "webshells"}
    Rels = {"x", "README.md", "B.php"}
    Readme = "README.md"
    Contents = {c1, c2}
    Empty = Empty
    None = None
    Unfit <- MCUnfit
    InitTree <- MCInitTree
    Rewrites = FALSE
    MaxCommits = 1
    MaxRequests = 1
    MaxFaults = 1
CHECK_DEADLOCK FALSE
INVARIANTS MirrorSound NoResurrection
PROPERTIES FilesNeverVanish Settles
