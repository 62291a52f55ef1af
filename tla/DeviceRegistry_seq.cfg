\* One caller thread (a driver loading its skeleton and registering properties), two property types.
CONSTANTS
    t1 = t1
    t2 = t2
    p1 = p1
    p2 = p2
    Threads <- OneThread
    Names <- TwoNames
    Kinds <- TwoKinds
    MaxProps = 3
    MaxMsgs = 2
    Skeletons <- TwoSkeletons

SPECIFICATION Spec

INVARIANT TypeOK
