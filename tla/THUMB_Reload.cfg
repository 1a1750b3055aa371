\* load called again while the first fetch is in flight.
CONSTANTS
    None = None
    Sizes = {None}
    Dims = {None, 1024}
    MaxApps = 1
    MaxLoads = 2
    Overlap = TRUE
SPECIFICATION Spec
PROPERTY SuccessWithLoadedImage
