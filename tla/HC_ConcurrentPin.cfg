\* updatePin() overlapping start(): nothing in the code serialises them.
CONSTANTS
    h1 = h1
    h2 = h2
    h3 = h3
    NoHost = NoHost
    Preset = Preset
    HostId <- MCHostId
    MaxCalls = 3
    Serial = FALSE
    LossyNetwork = FALSE
SYMMETRY MCSymmetry
SPECIFICATION Spec
INVARIANT PinHashMatchesHost
