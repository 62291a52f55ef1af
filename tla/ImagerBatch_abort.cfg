\* An abort while an exposure is still owed by the CCD.
CONSTANTS
    MaxGroups = 2
    Count <- TwoCounts
    Slot <- TwoSlots
    MaxPending = 2
    Formats = {fits, xisf}

SPECIFICATION Spec

PROPERTY AbortedStaysAborted

\* A call through the null group pointer ends the process.
CHECK_DEADLOCK FALSE
