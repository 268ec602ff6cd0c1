CONSTANTS
    Half = 3
    Default = 2
    Wide = 3
    Trip = 1
    Loads <- OnLoads
    Values <- NoValue
    NvsFaults = TRUE
SPECIFICATION Spec
INVARIANTS TypeOK  OverloadGenuine UnpluggedGenuine PowerCutGenuine
