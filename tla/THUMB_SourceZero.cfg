\* An image file whose filesystem size is 0.
CONSTANTS
    None = None
    Sizes = {0}
    Dims = {None}
    MaxApps = 0
    MaxLoads = 0
    Overlap = FALSE
SPECIFICATION Spec
INVARIANT SourceMatchesSpec
