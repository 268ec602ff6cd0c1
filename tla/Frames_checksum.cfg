SPECIFICATION Spec
CONSTANTS
    Pulses <- SomePulses
    Times <- SomeTimes
    DeviceNo <- Device
INVARIANT ChecksumAsDocumented
