CONSTANTS
    GlClients = {"c1", "c2"}
    GlIds = {"k1", "k2"}
    GlThreads = {"t1"}
    GlMaxSteps = 5
INIT GlInit
NEXT GlNext
INVARIANT CommandsStayHome
CHECK_DEADLOCK FALSE
