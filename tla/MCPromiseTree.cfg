SPECIFICATION Spec
CONSTANTS
    c1 = c1
    None = None
    Clients = {c1}
    Paths <- MCPaths
    Inputs <- MCInputs
    Before <- MCBefore
    MaxPromises = 2
    MaxId = 10
INVARIANTS
    TreesAreTrees
    RebuiltIsBuilt
    InodesUnique
    WalkFindsNodes
PROPERTY InodesKeepMeaning
