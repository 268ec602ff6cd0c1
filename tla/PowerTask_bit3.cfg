CONSTANTS
    Half = 3
    Default = 2
    Wide = 3
    Trip = 1
    Loads <- OnLoads
    Values <- NoValue
    NvsFaults = FALSE
SPECIFICATION Spec
INVARIANT PowerCutMeansCut
