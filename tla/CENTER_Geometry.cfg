\* Box sides 0 (not laid out), 10 and 30; image sides around the 30%
\* threshold; every fill mode, rotated or not, except AUTO rotated.
CONSTANTS
    BoxDims = {0, 10, 30}
    ImageDims = {7, 10, 13, 30}
    NonFinite = NonFinite
    Inputs <- MCInputsUpright
SPECIFICATION Spec
INVARIANTS
    TypeOK
    GeometryMatchesSpec
    CenteredPercentages
