------------------------- MODULE NtpSyncState_proofs -------------------------
(***************************************************************************)
(* Proofs about the sync section of the mobile New Tab Page, for every    *)
(* bound on the browser's callbacks.                                       *)
(***************************************************************************)
EXTENDS NtpSyncState, TLAPS

-----------------------------------------------------------------------------
(* updateSyncEmptyState keeps the state of the section in its type,       *)
(* whatever data it is called with; so does every callback.               *)
-----------------------------------------------------------------------------

UpdateVars == <<syncState, syncTimerId, timers, shown, openTabsShown, snapshotsShown>>

UpdateTypeOK ==
    /\ syncState \in SyncState
    /\ syncTimerId \in Timer \cup {"none"}
    /\ timers \in SUBSET Timer
    /\ shown \in SUBSET Element
    /\ openTabsShown \in BOOLEAN
    /\ snapshotsShown \in BOOLEAN

LEMMA UpdateType ==
    ASSUME UpdateTypeOK
    PROVE  \A timeout, en, snap, sess : \A pend \in SUBSET Timer :
               UpdateSyncEmptyState(timeout, en, snap, sess, pend) => UpdateTypeOK'
<1> SUFFICES ASSUME NEW timeout, NEW en, NEW snap, NEW sess,
                    NEW pend \in SUBSET Timer,
                    UpdateSyncEmptyState(timeout, en, snap, sess, pend)
             PROVE  UpdateTypeOK'
  OBVIOUS
<1>1. CASE KeepsLoading(timeout)
  BY <1>1 DEF UpdateSyncEmptyState, UpdateTypeOK
<1>2. CASE ~KeepsLoading(timeout) /\ DataMissing(en, snap, sess)
  <2>1. AwaitData(timeout, pend)
    BY <1>2 DEF UpdateSyncEmptyState
  <2>2. CASE syncState = "INITIAL"
    BY <2>1, <2>2 DEF AwaitData, UpdateTypeOK, SyncState, Timer
  <2>3. CASE syncState = "WAITING_FOR_DATA" /\ timeout
    BY <2>1, <2>3 DEF AwaitData, UpdateTypeOK, SyncState, Timer, Element
  <2>4. CASE syncState = "DISPLAYING_LOADING"
    BY <2>1, <2>4 DEF AwaitData, UpdateTypeOK, SyncState, Timer
  <2>5. CASE ~(syncState = "INITIAL") /\ ~(syncState = "WAITING_FOR_DATA" /\ timeout)
             /\ ~(syncState = "DISPLAYING_LOADING")
    BY <2>1, <2>5 DEF AwaitData, UpdateTypeOK
  <2>6. QED
    BY <2>2, <2>3, <2>4, <2>5
<1>3. CASE ~KeepsLoading(timeout) /\ ~DataMissing(en, snap, sess)
  BY <1>3 DEF UpdateSyncEmptyState, ShowData, UpdateTypeOK, SyncState, Timer,
              Element
<1>4. QED
  BY <1>1, <1>2, <1>3

LEMMA InitTypeOK == Init => TypeOK
<1> SUFFICES ASSUME Init PROVE TypeOK
  OBVIOUS
<1>1. msgs \in 0..MaxMsgs
  BY MaxMsgsAssumption DEF Init
<1>2. UpdateTypeOK
  BY DEF Init, UpdateTypeOK, SyncState, Timer
<1>3. QED
  BY <1>1, <1>2 DEF Init, TypeOK, UpdateTypeOK, Data

LEMMA NextTypeOK == TypeOK /\ [Next]_vars => TypeOK'
<1> SUFFICES ASSUME TypeOK, [Next]_vars PROVE TypeOK'
  OBVIOUS
<1> USE MaxMsgsAssumption
<1>0. \A timeout, en, snap, sess : \A pend \in SUBSET Timer :
          UpdateSyncEmptyState(timeout, en, snap, sess, pend) => UpdateTypeOK'
  BY UpdateType DEF TypeOK, UpdateTypeOK
<1>1. CASE PageInit
  <2>1. UpdateTypeOK'
    BY <1>0, <1>1 DEF PageInit, TypeOK
  <2>2. QED
    BY <1>1, <2>1 DEF PageInit, TypeOK, UpdateTypeOK
<1>2. ASSUME NEW enabled \in {"true", "false"}, SetSyncEnabled(enabled)
      PROVE  TypeOK'
  <2>1. CASE syncEnabled = enabled
    BY <1>2, <2>1 DEF SetSyncEnabled, Callback, TypeOK
  <2>2. CASE syncEnabled # enabled /\ StorageMayThrow
    <3>1. PICK throws \in BOOLEAN :
            IF throws
              THEN UNCHANGED <<syncState, syncTimerId, timers, shown,
                               openTabsShown, snapshotsShown>>
              ELSE UpdateSyncEmptyState(FALSE, enabled, currentSnapshots,
                                        currentSessions, timers)
      BY <1>2, <2>2 DEF SetSyncEnabled
    <3>2. UpdateTypeOK'
      BY <1>0, <3>1 DEF TypeOK, UpdateTypeOK
    <3>3. QED
      BY <1>2, <2>2, <3>2 DEF SetSyncEnabled, Callback, TypeOK, UpdateTypeOK
  <2>3. CASE syncEnabled # enabled /\ ~StorageMayThrow
    <3>1. UpdateSyncEmptyState(FALSE, enabled, currentSnapshots,
                               currentSessions, timers)
      BY <1>2, <2>3 DEF SetSyncEnabled
    <3>2. UpdateTypeOK'
      BY <1>0, <3>1 DEF TypeOK
    <3>3. QED
      BY <1>2, <2>3, <3>2 DEF SetSyncEnabled, Callback, TypeOK, UpdateTypeOK
  <2>4. QED
    BY <2>1, <2>2, <2>3
<1>3. ASSUME NEW data \in Data, Snapshots(data) PROVE TypeOK'
  <2>1. UpdateTypeOK'
    BY <1>0, <1>3 DEF Snapshots, TypeOK
  <2>2. QED
    BY <1>3, <2>1 DEF Snapshots, Callback, TypeOK, UpdateTypeOK
<1>4. ASSUME NEW data \in Data \ {"null"}, ForeignSessions(data) PROVE TypeOK'
  <2>1. UpdateTypeOK'
    BY <1>0, <1>4 DEF ForeignSessions, TypeOK
  <2>2. QED
    BY <1>4, <2>1 DEF ForeignSessions, Callback, TypeOK, UpdateTypeOK, Data
<1>5. ASSUME NEW t \in Timer, Timeout(t) PROVE TypeOK'
  <2>1. timers \ {t} \in SUBSET Timer
    BY DEF TypeOK
  <2>2. UpdateSyncEmptyState(TRUE, syncEnabled, currentSnapshots,
                             currentSessions, timers \ {t})
    BY <1>5 DEF Timeout
  <2>3. UpdateTypeOK'
    BY <1>0, <2>1, <2>2
  <2>4. QED
    BY <1>5, <2>3 DEF Timeout, TypeOK, UpdateTypeOK
<1>6. CASE Finished \/ UNCHANGED vars
  BY <1>6 DEF Finished, vars, TypeOK
<1>7. QED
  BY <1>1, <1>2, <1>3, <1>4, <1>5, <1>6 DEF Next

(* Every variable of the sync section keeps its type.                     *)
THEOREM TypeCorrect == Spec => []TypeOK
BY InitTypeOK, NextTypeOK, PTL DEF Spec

-----------------------------------------------------------------------------
(* TimerMatchesState is not inductive by itself: the initial timer is     *)
(* started on top of the timers pending in INITIAL, and the loading timer *)
(* replaces the one that fired in WAITING_FOR_DATA, so both steps need    *)
(* that no other timer is pending then.  In INITIAL no timer has been     *)
(* started yet; in DISPLAYING_LOADING exactly the loading timer is         *)
(* pending (its callback is the only call that gets past the early        *)
(* return), and syncTimerId holds it.                                      *)
-----------------------------------------------------------------------------

TimerKept ==
    /\ TimerMatchesState
    /\ syncState = "INITIAL" => timers = {}
    /\ syncState = "DISPLAYING_LOADING" =>
           timers = {"loading"} /\ syncTimerId = "loading"

TimerInv == TypeOK /\ TimerKept


(* The timers a call of updateSyncEmptyState starts from: every pending   *)
(* one for a call of the page or of the browser, none but for the timer's *)
(* own for a timer's call.                                                 *)
PendOK(timeout, pend) ==
    /\ timeout \in BOOLEAN
    /\ ~timeout => pend = timers
    /\ timeout => pend = {} /\ timers # {}

LEMMA UpdateTimer ==
    ASSUME TypeOK, TimerKept
    PROVE  \A timeout, en, snap, sess, pend :
               PendOK(timeout, pend) /\
               UpdateSyncEmptyState(timeout, en, snap, sess, pend) => TimerKept'
<1> SUFFICES ASSUME NEW timeout, NEW en, NEW snap, NEW sess, NEW pend,
                    PendOK(timeout, pend),
                    UpdateSyncEmptyState(timeout, en, snap, sess, pend)
             PROVE  TimerKept'
  OBVIOUS
<1> USE DEF PendOK, TimerKept, TimerMatchesState
<1>1. CASE KeepsLoading(timeout)
  BY <1>1 DEF UpdateSyncEmptyState, KeepsLoading
<1>2. CASE ~KeepsLoading(timeout) /\ DataMissing(en, snap, sess)
  <2>1. AwaitData(timeout, pend)
    BY <1>2 DEF UpdateSyncEmptyState
  <2>2. CASE syncState = "INITIAL"
    BY <2>1, <2>2 DEF AwaitData
  <2>3. CASE syncState = "WAITING_FOR_DATA" /\ timeout
    BY <2>1, <2>3 DEF AwaitData
  <2>4. CASE syncState = "DISPLAYING_LOADING"
    BY <1>2, <2>1, <2>4 DEF AwaitData, KeepsLoading
  <2>5. CASE ~(syncState = "INITIAL") /\ ~(syncState = "WAITING_FOR_DATA" /\ timeout)
             /\ ~(syncState = "DISPLAYING_LOADING")
    <3>1. timers' = pend /\ UNCHANGED <<syncState, syncTimerId>>
      BY <2>1, <2>5 DEF AwaitData
    <3>2. QED
      BY <2>5, <3>1
  <2>6. QED
    BY <2>2, <2>3, <2>4, <2>5
<1>3. CASE ~KeepsLoading(timeout) /\ ~DataMissing(en, snap, sess)
  <2>1. pend \subseteq {syncTimerId}
    OBVIOUS
  <2>2. QED
    BY <1>3, <2>1 DEF UpdateSyncEmptyState, ShowData
<1>4. QED
  BY <1>1, <1>2, <1>3

LEMMA InitTimer == Init => TimerKept
BY DEF Init, TimerKept, TimerMatchesState

LEMMA NextTimer == TimerInv /\ [Next]_vars => TimerKept'
<1> SUFFICES ASSUME TypeOK, TimerKept, [Next]_vars PROVE TimerKept'
  BY DEF TimerInv
<1>0. \A timeout, en, snap, sess, pend :
          PendOK(timeout, pend) /\
          UpdateSyncEmptyState(timeout, en, snap, sess, pend) => TimerKept'
  BY UpdateTimer
<1>1. CASE PageInit
  BY <1>0, <1>1 DEF PageInit, PendOK
<1>2. ASSUME NEW enabled \in {"true", "false"}, SetSyncEnabled(enabled)
      PROVE  TimerKept'
  <2>1. CASE syncEnabled = enabled
    BY <1>2, <2>1 DEF SetSyncEnabled, TimerKept, TimerMatchesState
  <2>2. CASE syncEnabled # enabled
    <3>1. PICK throws \in BOOLEAN :
            IF throws
              THEN UNCHANGED <<syncState, syncTimerId, timers, shown,
                               openTabsShown, snapshotsShown>>
              ELSE UpdateSyncEmptyState(FALSE, enabled, currentSnapshots,
                                        currentSessions, timers)
      BY <1>2, <2>2 DEF SetSyncEnabled
    <3>2. QED
      BY <1>0, <3>1 DEF PendOK, TimerKept, TimerMatchesState
  <2>3. QED
    BY <2>1, <2>2
<1>3. ASSUME NEW data \in Data, Snapshots(data) PROVE TimerKept'
  BY <1>0, <1>3 DEF Snapshots, PendOK
<1>4. ASSUME NEW data \in Data \ {"null"}, ForeignSessions(data) PROVE TimerKept'
  BY <1>0, <1>4 DEF ForeignSessions, PendOK
<1>5. ASSUME NEW t \in Timer, Timeout(t) PROVE TimerKept'
  <2>1. t \in timers /\ timers \subseteq {syncTimerId}
    BY <1>5 DEF Timeout, TimerKept, TimerMatchesState
  <2>2. PendOK(TRUE, timers \ {t})
    BY <2>1 DEF PendOK
  <2>3. UpdateSyncEmptyState(TRUE, syncEnabled, currentSnapshots,
                             currentSessions, timers \ {t})
    BY <1>5 DEF Timeout
  <2>4. QED
    BY <1>0, <2>2, <2>3
<1>6. CASE Finished \/ UNCHANGED vars
  BY <1>6 DEF Finished, vars, TimerKept, TimerMatchesState
<1>7. QED
  BY <1>1, <1>2, <1>3, <1>4, <1>5, <1>6 DEF Next

(* At most one sync timer is pending, it is the one syncTimerId holds (so *)
(* the clearTimeout of updateSyncEmptyState reaches it), and none is      *)
(* pending once the section is LOADED, whatever order the browser's       *)
(* callbacks and the two timers run in, and even when localStorage throws.*)
THEOREM TimerMatchesStateHolds == Spec => []TimerMatchesState
<1>1. Init => TimerInv
  BY InitTypeOK, InitTimer DEF TimerInv
<1>2. TimerInv /\ [Next]_vars => TimerInv'
  BY NextTypeOK, NextTimer DEF TimerInv
<1>3. QED
  BY <1>1, <1>2, PTL DEF Spec, TimerInv, TimerKept

-----------------------------------------------------------------------------
(* Every callback that changes the data refreshes the section with the    *)
(* data it has just stored, and the refresh either keeps 'Loading...' (not *)
(* LOADED), or finds the data incomplete, or shows exactly what the data  *)
(* calls for.  So LoadedDisplayMatchesData needs no strengthening beyond  *)
(* the types; it fails only when setSyncEnabled skips the refresh after a *)
(* localStorage exception, which the theorem excludes.                      *)
-----------------------------------------------------------------------------

LEMMA UpdateDisplay ==
    ASSUME TypeOK'
    PROVE  \A timeout, pend :
               UpdateSyncEmptyState(timeout, syncEnabled', currentSnapshots',
                                    currentSessions', pend)
                   => LoadedDisplayMatchesData'
<1> SUFFICES ASSUME NEW timeout, NEW pend,
                    UpdateSyncEmptyState(timeout, syncEnabled', currentSnapshots',
                                         currentSessions', pend)
             PROVE  LoadedDisplayMatchesData'
  OBVIOUS
<1>1. CASE KeepsLoading(timeout)
  BY <1>1 DEF UpdateSyncEmptyState, KeepsLoading, LoadedDisplayMatchesData
<1>2. CASE ~KeepsLoading(timeout)
           /\ DataMissing(syncEnabled', currentSnapshots', currentSessions')
  BY <1>2 DEF LoadedDisplayMatchesData, DataComplete
<1>3. CASE ~KeepsLoading(timeout)
           /\ ~DataMissing(syncEnabled', currentSnapshots', currentSessions')
  <2>1. ShowData(syncEnabled', currentSnapshots', currentSessions', pend)
    BY <1>3 DEF UpdateSyncEmptyState
  <2>2. syncEnabled' \in {"true", "false"}
    BY <1>3 DEF DataMissing, TypeOK
  <2>3. QED
    BY <2>1, <2>2 DEF ShowData, LoadedDisplayMatchesData
<1>4. QED
  BY <1>1, <1>2, <1>3

LEMMA NextDisplay ==
    ASSUME ~StorageMayThrow
    PROVE  TypeOK /\ LoadedDisplayMatchesData /\ [Next]_vars
               => LoadedDisplayMatchesData'
<1> SUFFICES ASSUME TypeOK, LoadedDisplayMatchesData, [Next]_vars
             PROVE  LoadedDisplayMatchesData'
  OBVIOUS
<1>0. TypeOK'
  BY NextTypeOK
<1>1. \A timeout, pend :
          UpdateSyncEmptyState(timeout, syncEnabled', currentSnapshots',
                               currentSessions', pend)
              => LoadedDisplayMatchesData'
  BY <1>0, UpdateDisplay
<1>2. CASE PageInit
  BY <1>1, <1>2 DEF PageInit
<1>3. ASSUME NEW enabled \in {"true", "false"}, SetSyncEnabled(enabled)
      PROVE  LoadedDisplayMatchesData'
  <2>1. CASE syncEnabled = enabled
    BY <1>3, <2>1 DEF SetSyncEnabled, LoadedDisplayMatchesData, DataComplete
  <2>2. CASE syncEnabled # enabled
    <3>1. /\ syncEnabled' = enabled
          /\ UNCHANGED <<currentSnapshots, currentSessions>>
          /\ UpdateSyncEmptyState(FALSE, enabled, currentSnapshots,
                                  currentSessions, timers)
      BY <1>3, <2>2 DEF SetSyncEnabled
    <3>2. QED
      BY <1>1, <3>1
  <2>3. QED
    BY <2>1, <2>2
<1>4. ASSUME NEW data \in Data, Snapshots(data) PROVE LoadedDisplayMatchesData'
  BY <1>1, <1>4 DEF Snapshots
<1>5. ASSUME NEW data \in Data \ {"null"}, ForeignSessions(data)
      PROVE  LoadedDisplayMatchesData'
  BY <1>1, <1>5 DEF ForeignSessions
<1>6. ASSUME NEW t \in Timer, Timeout(t) PROVE LoadedDisplayMatchesData'
  BY <1>1, <1>6 DEF Timeout
<1>7. CASE Finished \/ UNCHANGED vars
  BY <1>7 DEF Finished, vars, LoadedDisplayMatchesData, DataComplete
<1>8. QED
  BY <1>2, <1>3, <1>4, <1>5, <1>6, <1>7 DEF Next

(* When localStorage does not throw, a LOADED section with complete data  *)
(* always shows what the data calls for: the enable-sync promo when sync  *)
(* is off, the sync promo when there is no data, otherwise the non-empty  *)
(* lists; whichever order setSyncEnabled, snapshots and foreignSessions    *)
(* arrive in, and however often they replace the data.                     *)
THEOREM LoadedDisplayCorrect ==
    ASSUME ~StorageMayThrow
    PROVE  Spec => []LoadedDisplayMatchesData
<1>1. Init => TypeOK /\ LoadedDisplayMatchesData
  BY InitTypeOK DEF Init, LoadedDisplayMatchesData
<1>2. TypeOK /\ LoadedDisplayMatchesData /\ [Next]_vars
          => (TypeOK /\ LoadedDisplayMatchesData)'
  BY NextTypeOK, NextDisplay
<1>3. QED
  BY <1>1, <1>2, PTL DEF Spec

-----------------------------------------------------------------------------
(* 'Loading...' stays for the whole loading timeout: a step that leaves    *)
(* DISPLAYING_LOADING is the loading timer's call, because every other    *)
(* call returns early there and the loading timer is the only one pending *)
(* (TimerKept).                                                              *)
-----------------------------------------------------------------------------

LEMMA LeaveDisplaying ==
    TimerInv /\ [Next]_vars =>
        (syncState = "DISPLAYING_LOADING" /\ syncState' # syncState =>
             "loading" \in timers /\ "loading" \notin timers')
<1> SUFFICES ASSUME TypeOK, TimerKept, [Next]_vars,
                    syncState = "DISPLAYING_LOADING", syncState' # syncState
             PROVE  "loading" \in timers /\ "loading" \notin timers'
  BY DEF TimerInv
<1>1. timers = {"loading"}
  BY DEF TimerKept
<1>2. ASSUME NEW timeout, NEW en, NEW snap, NEW sess, NEW pend,
             UpdateSyncEmptyState(timeout, en, snap, sess, pend),
             ~timeout
      PROVE  FALSE
  BY <1>2 DEF UpdateSyncEmptyState, KeepsLoading
<1>3. ASSUME NEW en, NEW snap, NEW sess,
             UpdateSyncEmptyState(TRUE, en, snap, sess, {})
      PROVE  "loading" \notin timers'
  <2>1. CASE DataMissing(en, snap, sess)
    BY <1>3, <2>1 DEF UpdateSyncEmptyState, KeepsLoading, AwaitData
  <2>2. CASE ~DataMissing(en, snap, sess)
    BY <1>3, <2>2 DEF UpdateSyncEmptyState, KeepsLoading, ShowData
  <2>3. QED
    BY <2>1, <2>2
<1>4. CASE PageInit
  BY <1>2, <1>4 DEF PageInit
<1>5. ASSUME NEW enabled \in {"true", "false"}, SetSyncEnabled(enabled)
      PROVE  FALSE
  <2>1. CASE syncEnabled # enabled
    <3>1. PICK throws \in BOOLEAN :
            IF throws
              THEN UNCHANGED <<syncState, syncTimerId, timers, shown,
                               openTabsShown, snapshotsShown>>
              ELSE UpdateSyncEmptyState(FALSE, enabled, currentSnapshots,
                                        currentSessions, timers)
      BY <1>5, <2>1 DEF SetSyncEnabled
    <3>2. QED
      BY <1>2, <3>1
  <2>2. QED
    BY <1>5, <2>1 DEF SetSyncEnabled
<1>6. ASSUME NEW data \in Data, Snapshots(data) PROVE FALSE
  BY <1>2, <1>6 DEF Snapshots
<1>7. ASSUME NEW data \in Data \ {"null"}, ForeignSessions(data) PROVE FALSE
  BY <1>2, <1>7 DEF ForeignSessions
<1>8. ASSUME NEW t \in Timer, Timeout(t)
      PROVE  "loading" \notin timers'
  <2>1. t = "loading" /\ timers \ {t} = {}
    BY <1>1, <1>8 DEF Timeout
  <2>2. QED
    BY <1>3, <1>8, <2>1 DEF Timeout
<1>9. CASE Finished \/ UNCHANGED vars
  BY <1>9 DEF Finished, vars
<1>10. QED
  BY <1>1, <1>4, <1>5, <1>6, <1>7, <1>8, <1>9 DEF Next

(* The section leaves DISPLAYING_LOADING only in the call of its loading  *)
(* timer, however early the data arrives: 'Loading...' is shown for the   *)
(* full SYNC_LOADING_TIMEOUT.                                               *)
THEOREM LoadingShownFullTimeoutHolds == Spec => LoadingShownFullTimeout
<1>1. Spec => []TimerInv
  <2>1. Init => TimerInv
    BY InitTypeOK, InitTimer DEF TimerInv
  <2>2. TimerInv /\ [Next]_vars => TimerInv'
    BY NextTypeOK, NextTimer DEF TimerInv
  <2>3. QED
    BY <2>1, <2>2, PTL DEF Spec
<1>2. TimerInv /\ [Next]_vars =>
          [syncState = "DISPLAYING_LOADING" /\ syncState' # syncState =>
               "loading" \in timers /\ "loading" \notin timers']_vars
  BY LeaveDisplaying
<1>3. QED
  BY <1>1, <1>2, PTL DEF Spec, LoadingShownFullTimeout

=============================================================================
