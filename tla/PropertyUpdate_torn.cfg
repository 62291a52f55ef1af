\* An application thread reading both widgets while an element is applied.
CONSTANTS
    a = a
    b = b
    Idle = Idle
    Ok = Ok
    Busy = Busy
    Alert = Alert
    t0 = t0
    t1 = t1
    Widgets <- TwoWidgets
    IPStates <- States
    Timeouts <- TwoTimeouts
    Elements <- AllWidgets

SPECIFICATION Spec

INVARIANT ReaderSeesWholeUpdate
