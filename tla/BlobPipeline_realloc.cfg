\* A direct attachment followed by a copied or base64 payload for the same widget.
CONSTANTS
    w1 = w1
    w2 = w2
    u = u
    null = null
    Widgets <- TwoWidgets
    Unknown = u
    BufIds <- Addresses
    Null = null

SPECIFICATION Spec

INVARIANT NoReallocOfShared

\* realloc() of a shared block and a call through nullptr abort the
\* process: those states really have no successor.
CHECK_DEADLOCK FALSE
