CONSTANTS
    DrGcs <- MCDrGcs
    DrXs <- MCDrXs
    DrFar = {3}
    DrWs = {0, 2}
    DrRegions <- MCDrRegions
    DrMaxSteps = 3
    GcIds = {"a", "b"}
    GcDashes <- MCGcDashes
    GcMaxSteps = 4
    RnIds = {"i", "j"}
    RnOps = {"Src", "Over", "In"}
    RnMaxSteps = 4
    GlClients = {"c1", "c2"}
    GlIds = {"k1", "k2"}
    GlThreads = {"t1", "t2"}
    GlMaxSteps = 5
    SyIds = {"a"}
    SyAlarms = {"al"}
    SyFences = {"f"}
    SyDeltas = {0, 3}
    SyMaxSteps = 4
    RgIds = {"a", "b"}
    RgMoves = {0, 1}
    RgRects <- MCRgRects
    RgMaxSteps = 3
    ClMaps = {"a", "b"}
    ClRoot = "root"
    ClClasses = {"pseudo_color", "true_color", "static_gray", "direct_color"}
    ClColours = {0, 3, 13}
    ClCounts <- MCClCounts
    ClMaxMaps = 2
    ClCursors = {"x", "y"}
    ClPixmaps = {"p"}
    ClMaxSteps = 4
SPECIFICATION MCSpec
INVARIANTS ResourcesTypeOK EveryChangeMarked DrawingAlgorithms ColourCells ResourceLifecycles
CHECK_DEADLOCK FALSE
