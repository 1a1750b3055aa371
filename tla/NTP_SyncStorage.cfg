\* localStorage throws in setSyncEnabled.
CONSTANTS
    MaxMsgs = 4
    StorageMayThrow = TRUE
SPECIFICATION Spec
INVARIANT LoadedDisplayMatchesData
