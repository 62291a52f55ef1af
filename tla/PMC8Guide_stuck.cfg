CONSTANTS
    MaxOrphans <- MCMaxOrphans
    Serial <- MCSerial
SPECIFICATION Spec
INVARIANT PulseHasTimer
