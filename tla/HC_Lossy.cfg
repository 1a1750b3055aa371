\* Operations one at a time; a registration XHR may fail after the server applied it.
CONSTANTS
    h1 = h1
    h2 = h2
    h3 = h3
    NoHost = NoHost
    Preset = Preset
    HostId <- MCHostId
    MaxCalls = 3
    Serial = TRUE
    LossyNetwork = TRUE
SYMMETRY MCSymmetry
SPECIFICATION Spec
INVARIANT FailedStartUnregistered
