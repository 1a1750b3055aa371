\* Every metadata value over sizes and dimensions at the caps and just above,
\* up to two Drive apps, and two loads one after the other for every
\* combination of URLs that load and fail.
CONSTANTS
    None = None
    Sizes = {None, 1048576, 1048577}
    Dims = {None, 1024, 2048}
    MaxApps = 2
    MaxLoads = 2
    Overlap = FALSE
SPECIFICATION Spec
INVARIANTS TypeOK SourceMatchesSpec SettledBoxShowsBest FetchesBounded CanvasShowsImage
PROPERTY SuccessWithLoadedImage
