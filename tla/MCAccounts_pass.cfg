SPECIFICATION Spec
CONSTANTS
    Logins = {a, b}
    Custom = {"team"}
    Public = "public"
    ProviderGroup = "OpenID"
    Subs = {s1}
    Workers = {w1}
    Modes = {"MIXED", "FULL"}
    MaxClock = 4
    MaxSessions = 1
    None = None
SYMMETRY Symmetry
INVARIANTS AccountsSound EndedStaysEnded
PROPERTIES SyncStaysInside
