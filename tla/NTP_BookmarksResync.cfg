\* The sync state arrives, then changes: setSyncEnabled re-renders the
\* data it kept from before the first call, or nothing.
CONSTANTS
    Folders = {"0", "5"}
    Root = "0"
    MaxNav = 1
    MaxChanges = 0
    MaxSyncCalls = 2
SPECIFICATION Spec
INVARIANT
    ShownIsLastRequested
