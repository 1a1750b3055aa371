\* Five browser callbacks: enough for the three pieces of data to arrive in
\* every order around both timers, and for sync to be toggled or the data
\* replaced once the section is loaded.
CONSTANTS
    MaxMsgs = 5
    StorageMayThrow = FALSE
SPECIFICATION Spec
INVARIANTS TypeOK TimerMatchesState LoadedDisplayMatchesData
PROPERTIES LoadingShownFullTimeout DataEventuallyLoaded
