\* Operations overlapping in any order: nothing in the code serialises them.
CONSTANTS
    h1 = h1
    h2 = h2
    h3 = h3
    NoHost = NoHost
    Preset = Preset
    HostId <- MCHostId
    MaxCalls = 3
    Serial = FALSE
    LossyNetwork = FALSE
SPECIFICATION Spec
INVARIANT TypeOK
INVARIANT FailedStartUnregistered
INVARIANT RunningHostRegistered
INVARIANT LocalHostIdMatchesConfig
PROPERTY StartEventuallyEnds
