SPECIFICATION Spec
CONSTANTS
    content = content
    config = config
    Objects = {content, config}
    NoObject = NoObject
    NoId = NoId
    Kinds <- MCKinds
    Embeds <- MCEmbeds
    Requests = {1, 2, 3}
    MaxRequests = 3
    MaxFaults = 1
INVARIANTS TablesSound NeverAnalysedWhy
PROPERTIES NewOnlyOnce AllAnswered
CHECK_DEADLOCK FALSE
ACTION_CONSTRAINT FirstIdleBegins
