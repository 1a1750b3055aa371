\* AUTO on rotated images.
CONSTANTS
    BoxDims = {0, 10, 30}
    ImageDims = {10, 30}
    NonFinite = NonFinite
    Inputs <- MCInputsAutoRotated
SPECIFICATION Spec
INVARIANT
    GeometryMatchesSpec
