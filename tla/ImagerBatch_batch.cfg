\* Any sequence of client requests and device reports for a two-group batch.
CONSTANTS
    MaxGroups = 2
    Count <- TwoCounts
    Slot <- TwoSlots
    MaxPending = 2
    Formats = {fits, xisf}

SPECIFICATION Spec

INVARIANT TypeOK
 

\* A call through the null group pointer ends the process.
CHECK_DEADLOCK FALSE
