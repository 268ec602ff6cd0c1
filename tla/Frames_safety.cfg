SPECIFICATION Spec
CONSTANTS
    Pulses <- SomePulses
    Times <- SomeTimes
    DeviceNo <- Device
INVARIANTS TypeOK LengthCorrect ReportDecodes SwitchResponseValid
