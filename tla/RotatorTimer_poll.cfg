\* Moves of up to two degrees, at most three pending timers and four client
\* commands, over a serial line whose exchanges may fail.
CONSTANTS
    MaxSteps = 2
    MaxTimers = 3
    MaxCmds = 4
    Serial <- Unreliable

SPECIFICATION Spec

INVARIANT TypeOK
PROPERTY BusyEndsOrPollingStops

\* Once the client has issued its last command and every timer chain has
\* ended, the driver really does nothing more.
CHECK_DEADLOCK FALSE
