\* Two caller threads (network reader and driver thread), one property type.
CONSTANTS
    t1 = t1
    t2 = t2
    p1 = p1
    p2 = p2
    Threads <- TwoThreads
    Names <- TwoNames
    Kinds <- OneKind
    MaxProps = 3
    MaxMsgs = 0
    Skeletons <- NoSkeletons

SPECIFICATION Spec

INVARIANT UniqueRegisteredNames
