\* The reader thread applying elements while an application thread reads.
CONSTANTS
    a = a
    b = b
    Idle = Idle
    Ok = Ok
    Busy = Busy
    Alert = Alert
    t0 = t0
    t1 = t1
    Widgets <- TwoWidgets
    IPStates <- States
    Timeouts <- TwoTimeouts
    Elements <- AnyWidgets

SPECIFICATION Spec

INVARIANT TypeOK
