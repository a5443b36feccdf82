CONSTANTS
    RegClients = {"c1", "c2"}
    RegWins = {"a", "b"}
    RegRoot = "r"
    RegOwner <- MCRegOwner
    RegMaxReqs = 5
    StWins = {"w1", "w2", "w3"}
    StLayerOf <- MCStLayerOf
    StTransient <- MCStTransient
    StXs = {1}
    StWidths = {0, 5}
    StHints <- MCStHints
    StPlace <- MCStPlace
    StManaged = {"w1"}
    StKidOf = "w1"
    StKidGravity = 3
    SlClients = {"c1", "c2", "c3"}
    SlLarge = {"c1"}
    SlMaxSteps = 4
    PrOwner = "o"
    PrReader = "r"
    PrAtoms = {"NAME", "STRUT"}
    PrChanges <- MCPrChanges
    PrMaxSteps = 4
    EwXs = {1}
    EwWidths = {2, 3}
    EwScreens = {4, 5}
    EwMaxSteps = 4
SPECIFICATION WinSpec
INVARIANTS WindowsTypeOK RegistryCoherent PasteDelivers WindowDataCoherent
PROPERTIES StackingKept
CHECK_DEADLOCK FALSE
