SPECIFICATION Spec
CONSTANTS
    MaxRev = 3
    MaxDropped = 1
    MAX_ATTEMPTS = 4
    SHOW_FALLBACK_FROM = 3
    Request = {r1}
    Port = {p1, p2}
    BadPort = bad
    MaxChange = 3
    MaxServer = 3
    Name = {"na", "nb"}
    MaxId = 9
    MaxTick = 3
    TicksPerDay = 2
    DayStart = 1
    Horizon = 1
    MaxLimit = 2
    MaxOps = 2
INVARIANTS
    WindowTypeOK
    LoadedMeansVisible
    McpTypeOK
    
    AnswersFitTheirMessages
    DocumentSound
    PagesCoverTheViews
PROPERTIES
    WindowImplementsDisplay
    WaitingEnds
    WritesOnTheCurrentServer
    ServerFollowsSettings
    
CHECK_DEADLOCK FALSE
