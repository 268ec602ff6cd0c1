CONSTANTS
    Half = 3
    Default = 2
    Wide = 3
    Trip = 1
    Loads <- Overload
    Values <- SomeValues
    NvsFaults = TRUE
SPECIFICATION SteadySpec
INVARIANTS CheckedInTime ZeroPeriodTraced PeriodKept
PROPERTY SustainedOverloadTrips
