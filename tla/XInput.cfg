CONSTANTS
    GrWins = {"a", "b"}
    GrTop = "r"
    GrParent <- MCGrParent
    GrMapped = {"a"}
    GrMaxEvents = 3
    GrQueue = 1
    GrPending = 2
    GrOthers = 1
    GrMaxPassive = 1
    GrPassives <- MCGrPassives
    PtWins = {"a", "b", "c"}
    PtRoot = "r"
    PtParent <- MCPtParent
    PtStack <- MCPtStack
    PtArea <- MCPtArea
    PtOffset <- MCPtOffset
    PtPoints <- MCPtPoints
    PtFar = 2
    PtKeyMoves <- MCPtKeyMoves
    PtSelects = {"a", "c"}
    PtStops = {"b"}
    PtHints = {"a"}
    PtModal <- MCPtModal
    PtBarriers <- MCPtBarriers
    PtGrabs <- MCPtGrabs
    FcClients = {"c1", "c2"}
    FcRoot = "r"
    FcParent <- MCFcParent
    FcOrder <- MCFcOrder
    FcOwner <- MCFcOwner
    FcSelects = {"a", "r"}
    FcStops = {"e"}
    FcNoInput = {"e"}
    FcReverts = {"Parent"}
    FcLookUps <- MCFcLookUps
    KbKeys = {"s", "l", "k"}
    KbMod <- MCKbMod
    KbLockKeys = {"l"}
    KbRepeats = {"k"}
    KbMoveKeys = {}
    KbClickKeys = {"k"}
    KbDflts = {1, 2}
    KbLatchReqs <- MCKbLatchReqs
    KbMaxBuf = 1
    KbMaxSteps = 6
    CnClients = {"c1", "c2"}
    CnMaxReqs = 2
    CnMaxTime = 1
    CnMaxEvents = 1
    SeClients = {"c1", "c2"}
    SeCodes = {10, 11}
    SeHosts = {"h", "i"}
    SeRows <- MCSeRows
    SeMaxSteps = 3
    RcClients = {"c", "d"}
    RcUntrusted = {"d"}
    RcRanges <- MCRcRanges
    RcSpecs = {{"all"}, {"c", "future"}}
    RcElements <- MCRcElements
    RcMaxSteps = 7
SPECIFICATION InSpec
INVARIANTS InputTypeOK EveryEventOnce InputRouting NothingForgotten
PROPERTIES ConnectionOrder
CHECK_DEADLOCK FALSE
