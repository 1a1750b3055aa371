---------------------------- MODULE NtpSyncState ----------------------------
(***************************************************************************)
(* The sync section of the mobile New Tab Page (mobile_ntp.js): the state  *)
(* machine of updateSyncEmptyState (INITIAL, WAITING_FOR_DATA,             *)
(* DISPLAYING_LOADING, DISPLAYED_LOADING, LOADED), its two timers, and the *)
(* three browser callbacks that feed it: setSyncEnabled(enabled),          *)
(* snapshots(data) and foreignSessions(data).                              *)
(*                                                                         *)
(* The page is single threaded; a callback or a timer runs to completion.  *)
(* Data is abstracted to what updateSyncEmptyState tells apart: null, an   *)
(* empty list or a non-empty one.  The display is the set of the sync      *)
(* elements shown (sync_enable_sync, sync_loading, sync_promo) and the     *)
(* visibility of the open-tabs and snapshots lists.  A localStorage call   *)
(* of setSyncEnabled may throw (quota, storage disabled) when              *)
(* StorageMayThrow is TRUE; the function's try/catch swallows the         *)
(* exception.                                                              *)
(***************************************************************************)
EXTENDS Naturals

CONSTANTS
    MaxMsgs,          \* bound on the callbacks the browser makes
    StorageMayThrow   \* whether localStorage may throw in setSyncEnabled

ASSUME MaxMsgsAssumption == MaxMsgs \in Nat /\ StorageMayThrow \in BOOLEAN

VARIABLES
    inited,           \* init() has run
    syncState,
    syncEnabled,      \* "undefined", "true" or "false"
    currentSnapshots, \* "null", "empty" or "some"
    currentSessions,
    syncTimerId,      \* the timer the page holds: "none", "initial", "loading"
    timers,           \* the timer callbacks still to run
    shown,            \* the sync elements displayed
    openTabsShown,
    snapshotsShown,
    msgs              \* callbacks made by the browser so far

vars == <<inited, syncState, syncEnabled, currentSnapshots, currentSessions,
          syncTimerId, timers, shown, openTabsShown, snapshotsShown, msgs>>

(* SyncState, lines 297-303.                                               *)
SyncState == {"INITIAL", "WAITING_FOR_DATA", "DISPLAYING_LOADING",
              "DISPLAYED_LOADING", "LOADED"}

Timer == {"initial", "loading"}

Data == {"null", "empty", "some"}

Element == {"enableSync", "loading", "promo"}

TypeOK ==
    /\ inited \in BOOLEAN
    /\ syncState \in SyncState
    /\ syncEnabled \in {"undefined", "true", "false"}
    /\ currentSnapshots \in Data
    /\ currentSessions \in Data
    /\ syncTimerId \in Timer \cup {"none"}
    /\ timers \in SUBSET Timer
    /\ shown \in SUBSET Element
    /\ openTabsShown \in BOOLEAN
    /\ snapshotsShown \in BOOLEAN
    /\ msgs \in 0..MaxMsgs

(* The page as loaded: nothing known, the sync elements hidden, the lists  *)
(* as the style sheet leaves them.                                         *)
Init ==
    /\ inited = FALSE
    /\ syncState = "INITIAL"
    /\ syncEnabled = "undefined"
    /\ currentSnapshots = "null"
    /\ currentSessions = "null"
    /\ syncTimerId = "none"
    /\ timers = {}
    /\ shown = {}
    /\ openTabsShown \in BOOLEAN
    /\ snapshotsShown \in BOOLEAN
    /\ msgs = 0

-----------------------------------------------------------------------------
(* A variant without the early return.                                    *)
KeepsLoadingNever(timeout) == FALSE

(* The early return of updateSyncEmptyState: while 'Loading...' is being *)
(* displayed only the timer's call goes on.                                *)
KeepsLoading(timeout) == syncState = "DISPLAYING_LOADING" /\ ~timeout

DataMissing(en, snap, sess) ==
    en = "undefined" \/ snap = "null" \/ sess = "null"

(* A variant of the branch below that leaves DISPLAYING_LOADING on its    *)
(* timer without going to DISPLAYED_LOADING.                               *)
AwaitDataStuck(timeout, pend) ==
    /\ CASE syncState = "INITIAL" ->
             /\ syncState' = "WAITING_FOR_DATA"
             /\ syncTimerId' = "initial"
             /\ timers' = pend \cup {"initial"}
             /\ UNCHANGED shown
        [] syncState = "WAITING_FOR_DATA" /\ timeout ->
             /\ syncState' = "DISPLAYING_LOADING"
             /\ shown' = shown \cup {"loading"}
             /\ syncTimerId' = "loading"
             /\ timers' = pend \cup {"loading"}
        [] OTHER ->
             /\ timers' = pend
             /\ UNCHANGED <<syncState, syncTimerId, shown>>
    /\ UNCHANGED <<openTabsShown, snapshotsShown>>

(* The data is incomplete: the first call starts the initial timer, the   *)
(* initial timer shows 'Loading...' and starts the loading timer, and a   *)
(* call while it is displayed lets it go away once data comes in.         *)
AwaitData(timeout, pend) ==
    /\ CASE syncState = "INITIAL" ->
             /\ syncState' = "WAITING_FOR_DATA"
             /\ syncTimerId' = "initial"
             /\ timers' = pend \cup {"initial"}
             /\ UNCHANGED shown
        [] syncState = "WAITING_FOR_DATA" /\ timeout ->
             /\ syncState' = "DISPLAYING_LOADING"
             /\ shown' = shown \cup {"loading"}
             /\ syncTimerId' = "loading"
             /\ timers' = pend \cup {"loading"}
        [] syncState = "DISPLAYING_LOADING" ->
             /\ syncState' = "DISPLAYED_LOADING"
             /\ timers' = pend
             /\ UNCHANGED <<syncTimerId, shown>>
        [] OTHER ->
             /\ timers' = pend
             /\ UNCHANGED <<syncState, syncTimerId, shown>>
    /\ UNCHANGED <<openTabsShown, snapshotsShown>>

(* A variant of the branch below without the clearTimeout of syncTimerId. *)
ShowDataNoClear(en, snap, sess, pend) ==
    /\ syncTimerId' = "none"
    /\ timers' = pend
    /\ syncState' = "LOADED"
    /\ shown' = CASE en = "false" -> {"enableSync"}
                  [] snap = "empty" /\ sess = "empty" -> {"promo"}
                  [] OTHER -> {}
    /\ IF en = "true" /\ ~(snap = "empty" /\ sess = "empty")
         THEN /\ openTabsShown' = (sess = "some")
              /\ snapshotsShown' = (snap = "some")
         ELSE UNCHANGED <<openTabsShown, snapshotsShown>>

(* A variant that sets syncState to a misspelled member of SyncState      *)
(* (undefined in JavaScript).                                              *)
ShowDataMisspelled(en, snap, sess, pend) ==
    /\ syncTimerId' = "none"
    /\ timers' = pend \ {syncTimerId}
    /\ syncState' = "undefined"
    /\ shown' = CASE en = "false" -> {"enableSync"}
                  [] snap = "empty" /\ sess = "empty" -> {"promo"}
                  [] OTHER -> {}
    /\ IF en = "true" /\ ~(snap = "empty" /\ sess = "empty")
         THEN /\ openTabsShown' = (sess = "some")
              /\ snapshotsShown' = (snap = "some")
         ELSE UNCHANGED <<openTabsShown, snapshotsShown>>

(* The data is complete: the pending timer is cleared, the state becomes  *)
(* LOADED, and the sync elements are hidden but for the one the data      *)
(* calls for; the lists are shown by their contents when there are any.   *)
ShowData(en, snap, sess, pend) ==
    /\ syncTimerId' = "none"
    /\ timers' = pend \ {syncTimerId}
    /\ syncState' = "LOADED"
    /\ shown' = CASE en = "false" -> {"enableSync"}
                  [] snap = "empty" /\ sess = "empty" -> {"promo"}
                  [] OTHER -> {}
    /\ IF en = "true" /\ ~(snap = "empty" /\ sess = "empty")
         THEN /\ openTabsShown' = (sess = "some")
              /\ snapshotsShown' = (snap = "some")
         ELSE UNCHANGED <<openTabsShown, snapshotsShown>>

(* updateSyncEmptyState(timeout), given the values en, snap and sess of   *)
(* syncEnabled, currentSnapshots and currentSessions at the call and the  *)
(* set pend of the timers pending when it starts.                          *)
UpdateSyncEmptyState(timeout, en, snap, sess, pend) ==
    \/ /\ KeepsLoading(timeout)
       /\ timers' = pend
       /\ UNCHANGED <<syncState, syncTimerId, shown, openTabsShown,
                      snapshotsShown>>
    \/ /\ ~KeepsLoading(timeout)
       /\ DataMissing(en, snap, sess)
       /\ AwaitData(timeout, pend)
    \/ /\ ~KeepsLoading(timeout)
       /\ ~DataMissing(en, snap, sess)
       /\ ShowData(en, snap, sess, pend)

(* init(): the data is requested, then updateSyncEmptyState() runs.       *)
PageInit ==
    /\ ~inited
    /\ inited' = TRUE
    /\ UpdateSyncEmptyState(FALSE, syncEnabled, currentSnapshots,
                            currentSessions, timers)
    /\ UNCHANGED <<syncEnabled, currentSnapshots, currentSessions, msgs>>

(* A browser callback, after init() has requested the data.                *)
Callback ==
    /\ inited
    /\ msgs < MaxMsgs
    /\ msgs' = msgs + 1

(* setSyncEnabled(enabled): nothing when the value is unchanged; otherwise *)
(* the value is stored, localStorage is updated and the section refreshed. *)
(* A throw of localStorage skips the refresh.                              *)
SetSyncEnabled(enabled) ==
    /\ Callback
    /\ IF syncEnabled = enabled
         THEN UNCHANGED <<syncEnabled, syncState, syncTimerId, timers, shown,
                          openTabsShown, snapshotsShown>>
         ELSE /\ syncEnabled' = enabled
              /\ \E throws \in IF StorageMayThrow THEN BOOLEAN ELSE {FALSE} :
                   IF throws
                     THEN UNCHANGED <<syncState, syncTimerId, timers, shown,
                                      openTabsShown, snapshotsShown>>
                     ELSE UpdateSyncEmptyState(FALSE, enabled,
                                               currentSnapshots,
                                               currentSessions, timers)
    /\ UNCHANGED <<inited, currentSnapshots, currentSessions>>

(* A variant of snapshots that refreshes the section before storing the   *)
(* data.                                                                   *)
SnapshotsRefreshFirst(data) ==
    /\ Callback
    /\ currentSnapshots' = data
    /\ UpdateSyncEmptyState(FALSE, syncEnabled, currentSnapshots,
                            currentSessions, timers)
    /\ UNCHANGED <<inited, syncEnabled, currentSessions>>

(* snapshots(data): the data is stored and the section refreshed.          *)
Snapshots(data) ==
    /\ Callback
    /\ currentSnapshots' = data
    /\ UpdateSyncEmptyState(FALSE, syncEnabled, data, currentSessions, timers)
    /\ UNCHANGED <<inited, syncEnabled, currentSessions>>

(* foreignSessions(data): the data (never null: its forEach would throw) *)
(* is stored and the section refreshed.                                    *)
ForeignSessions(data) ==
    /\ Callback
    /\ currentSessions' = data
    /\ UpdateSyncEmptyState(FALSE, syncEnabled, currentSnapshots, data, timers)
    /\ UNCHANGED <<inited, syncEnabled, currentSnapshots>>

(* A timer of the sync section fires: updateSyncEmptyState(true).          *)
Timeout(t) ==
    /\ t \in timers
    /\ UpdateSyncEmptyState(TRUE, syncEnabled, currentSnapshots,
                            currentSessions, timers \ {t})
    /\ UNCHANGED <<inited, syncEnabled, currentSnapshots, currentSessions,
                   msgs>>

(* The browser has made its callbacks and no timer is left.                *)
Finished ==
    /\ inited
    /\ msgs = MaxMsgs
    /\ timers = {}
    /\ UNCHANGED vars

Next ==
    \/ PageInit
    \/ \E enabled \in {"true", "false"} : SetSyncEnabled(enabled)
    \/ \E data \in Data : Snapshots(data)
    \/ \E data \in Data \ {"null"} : ForeignSessions(data)
    \/ \E t \in Timer : Timeout(t)
    \/ Finished

(* The page loads, and the browser runs every timer callback that is due. *)
Fairness == WF_vars(PageInit) /\ \A t \in Timer : WF_vars(Timeout(t))

Spec == Init /\ [][Next]_vars /\ Fairness

-----------------------------------------------------------------------------
DataComplete == ~DataMissing(syncEnabled, currentSnapshots, currentSessions)

(* At most one sync timer is pending and it is the one syncTimerId holds,  *)
(* so clearTimeout(syncTimerId) reaches it; and none is pending once the  *)
(* section is LOADED, so no stale timer callback runs into a later state. *)
TimerMatchesState ==
    /\ timers \subseteq {syncTimerId}
    /\ syncState = "LOADED" => timers = {}

(* Once loaded with complete data, the sync section shows what the data  *)
(* calls for: the enable-sync promo when sync is off, the sync promo when *)
(* there are neither snapshots nor sessions, otherwise the lists that are *)
(* not empty; and 'Loading...' is gone.                                   *)
LoadedDisplayMatchesData ==
    syncState = "LOADED" /\ DataComplete =>
        /\ shown = CASE syncEnabled = "false" -> {"enableSync"}
                     [] currentSnapshots = "empty" /\ currentSessions = "empty"
                          -> {"promo"}
                     [] OTHER -> {}
        /\ shown = {} => /\ openTabsShown = (currentSessions = "some")
                         /\ snapshotsShown = (currentSnapshots = "some")

(* 'Loading...' is displayed for the whole SYNC_LOADING_TIMEOUT: the      *)
(* section leaves DISPLAYING_LOADING only in the call of the loading      *)
(* timer, however early the data comes in.                                *)
LoadingShownFullTimeout ==
    [][syncState = "DISPLAYING_LOADING" /\ syncState' # syncState =>
         "loading" \in timers /\ "loading" \notin timers']_vars

(* Complete sync data is eventually displayed: whatever state the section *)
(* is in when the last piece arrives, it reaches LOADED (unless the data  *)
(* becomes incomplete again).                                             *)
DataEventuallyLoaded ==
    DataComplete ~> (syncState = "LOADED" \/ ~DataComplete)

=============================================================================
