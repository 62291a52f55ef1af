CONSTANTS
    MaxOrphans <- MCMaxOrphans
    Serial <- MCSerial
SPECIFICATION Spec
PROPERTY GuideBusyEnds
