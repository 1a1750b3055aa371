\* The root and two folders; the sync state arrives and may change once,
\* with any navigation and change notifications around it.
CONSTANTS
    Folders = {"0", "5", "7"}
    Root = "0"
    MaxNav = 3
    MaxChanges = 1
    MaxSyncCalls = 2
SPECIFICATION Spec
INVARIANTS
    TypeOK
