\* Any sequence of Angle assignments and arithmetic on an Axis's position and target.
CONSTANTS
    Degs <- MCDegs
    Hrs <- MCHrs
    Factors <- MCFactors

SPECIFICATION Spec

INVARIANT TypeOK
INVARIANT Canonical
INVARIANT ViewsAgree
