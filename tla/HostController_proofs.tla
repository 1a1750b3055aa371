------------------------ MODULE HostController_proofs ------------------------
(***************************************************************************)
(* Proofs about HostController for every value of the constants.           *)
(***************************************************************************)
EXTENDS HostController, TLAPS

-----------------------------------------------------------------------------
(* Every step of every callback keeps each variable in its type: the      *)
(* plugin queues hold well-formed calls and replies, and localHostId_,    *)
(* the config's host_id and the directory only ever hold host ids.        *)
(* Each action is a step of its own below.                                *)
-----------------------------------------------------------------------------

LEMMA InitTypeOK == Init => TypeOK
BY MaxCallsAssumption DEF Init, TypeOK, MaybeHost, Host, StartPhase, DaemonStates

LEMMA NextTypeOK == TypeOK /\ [Next]_vars => TypeOK'
<1> SUFFICES ASSUME TypeOK, [Next]_vars PROVE TypeOK'
  OBVIOUS
<1> USE MaxCallsAssumption DEF webVars, daemonVars, dirVars, MaybeHost, Host
<1>1. ASSUME NEW h \in HostId, Start(h) PROVE TypeOK'
  BY <1>1 DEF Start, MayCall, Call, TypeOK, StartPhase, InFlight
<1>2. ASSUME NEW h \in HostId, OnKeyGenerated(h) PROVE TypeOK'
  BY <1>2 DEF OnKeyGenerated, TypeOK, StartPhase, InFlight
<1>3. ASSUME NEW h \in HostId, DoRegisterHost(h) PROVE TypeOK'
  BY <1>3 DEF DoRegisterHost, TypeOK, StartPhase, InFlight
<1>4. ASSUME NEW h \in HostId, OnTokenError(h) PROVE TypeOK'
  BY <1>4 DEF OnTokenError, TypeOK, StartPhase, AsyncResult
<1>5. ASSUME NEW h \in HostId, OnRegistered(h) PROVE TypeOK'
  <2>1. directory' \in {directory, directory \cup {h}}
    BY <1>5 DEF OnRegistered
  <2>2. requests' \in {requests, Append(requests, [kind |-> "startDaemon", id |-> h])}
    BY <1>5 DEF OnRegistered
  <2>3. [kind |-> "startDaemon", id |-> h] \in Request
    BY DEF Request
  <2>4. startPc' \in {[startPc EXCEPT ![h] = "daemon"],
                      [startPc EXCEPT ![h] = "FAILED_DIRECTORY"]}
    BY <1>5 DEF OnRegistered
  <2>5. directory' \in SUBSET Host
    BY <2>1 DEF TypeOK
  <2>6. requests' \in Seq(Request)
    <3>1. Append(requests, [kind |-> "startDaemon", id |-> h]) \in Seq(Request)
      BY <2>3 DEF TypeOK
    <3>2. QED
      BY <2>2, <3>1 DEF TypeOK
  <2>7. startPc' \in [HostId -> StartPhase]
    BY <2>4 DEF TypeOK, StartPhase, InFlight, AsyncResult
  <2>8. QED
    BY <1>5, <2>5, <2>6, <2>7 DEF OnRegistered, TypeOK
<1>6. ASSUME NEW h \in Host, DirectoryDelete(h) PROVE TypeOK'
  BY <1>6 DEF DirectoryDelete, TypeOK
<1>7. CASE OnStarted
  <2>1. /\ Head(replies) \in [kind : {"startDaemon"}, id : HostId, result : AsyncResult]
        /\ Tail(replies) \in Seq(Reply)
    BY <1>7 DEF OnStarted, TypeOK, Reply
  <2>2. QED
    BY <1>7, <2>1, HostIdAssumption
    DEF OnStarted, TypeOK, StartPhase, MaybeHost
<1>8. CASE Stop
  BY <1>8 DEF Stop, MayCall, Call, TypeOK, Request
<1>9. CASE OnStopped
  BY <1>9 DEF OnStopped, TypeOK, MaybeHost
<1>10. CASE UpdatePin
  BY <1>10 DEF UpdatePin, MayCall, Call, TypeOK, Request, ConfigUser
<1>11. CASE OnConfigForPin
  <2>1. Head(replies) \in [kind : {"getDaemonConfig"}, by : ConfigUser, config : MaybeHost]
    BY <1>11 DEF OnConfigForPin, TypeOK, Reply
  <2>2. QED
    BY <1>11, <2>1 DEF OnConfigForPin, TypeOK, Request
<1>12. CASE OnPinUpdated
  BY <1>12 DEF OnPinUpdated, TypeOK
<1>13. CASE GetLocalHostStateAndId
  BY <1>13 DEF GetLocalHostStateAndId, MayCall, Call, TypeOK, Request, ConfigUser
<1>14. CASE OnConfigForState
  <2>1. Head(replies) \in [kind : {"getDaemonConfig"}, by : ConfigUser, config : MaybeHost]
    BY <1>14 DEF OnConfigForState, TypeOK, Reply
  <2>2. QED
    BY <1>14, <2>1 DEF OnConfigForState, TypeOK
<1>15. CASE DaemonStep
  <2> DEFINE r == Head(requests)
  <2>1. r \in Request /\ Tail(requests) \in Seq(Request)
    BY <1>15 DEF DaemonStep, TypeOK
  <2>2. /\ requests' \in Seq(Request)
        /\ UNCHANGED <<localHostId, pluginSupported, startPc, calls, directory, deletes>>
    BY <1>15, <2>1 DEF DaemonStep
  <2>3. CASE r.kind = "startDaemon"
    <3>1. r.id \in HostId
      BY <2>1, <2>3 DEF Request
    <3>2. PICK result \in {"OK", "FAILED", "CANCELLED"} :
            /\ replies' = Append(replies, [kind |-> "startDaemon", id |-> r.id,
                                           result |-> result])
            /\ configId' \in {configId, r.id}
            /\ hashSalt' \in {hashSalt, r.id}
            /\ daemonState' \in {daemonState, "STARTED"}
      BY <1>15, <2>3 DEF DaemonStep
    <3>3. [kind |-> "startDaemon", id |-> r.id, result |-> result] \in Reply
      BY <3>1 DEF Reply, AsyncResult
    <3>4. QED
      BY <2>2, <3>1, <3>2, <3>3 DEF TypeOK, MaybeHost, DaemonStates
  <2>4. CASE r.kind = "stopDaemon"
    <3>1. PICK result \in {"OK", "FAILED"} :
            /\ replies' = Append(replies, [kind |-> "stopDaemon", result |-> result])
            /\ daemonState' \in {daemonState, "STOPPED"}
            /\ UNCHANGED <<configId, hashSalt>>
      BY <1>15, <2>4 DEF DaemonStep
    <3>2. [kind |-> "stopDaemon", result |-> result] \in Reply
      BY DEF Reply, AsyncResult
    <3>3. QED
      BY <2>2, <3>1, <3>2 DEF TypeOK, DaemonStates
  <2>5. CASE r.kind = "getDaemonConfig"
    <3>1. r.by \in ConfigUser
      BY <2>1, <2>5 DEF Request
    <3>2. /\ replies' = Append(replies, [kind |-> "getDaemonConfig", by |-> r.by,
                                         config |-> configId])
          /\ UNCHANGED <<configId, hashSalt, daemonState>>
      BY <1>15, <2>5 DEF DaemonStep
    <3>3. [kind |-> "getDaemonConfig", by |-> r.by, config |-> configId] \in Reply
      BY <3>1 DEF Reply, TypeOK
    <3>4. QED
      BY <2>2, <3>2, <3>3 DEF TypeOK
  <2>6. CASE r.kind = "updateDaemonConfig"
    <3>1. r.salt \in MaybeHost
      BY <2>1, <2>6 DEF Request
    <3>2. PICK result \in {"OK", "FAILED"} :
            /\ replies' = Append(replies, [kind |-> "updateDaemonConfig",
                                           result |-> result])
            /\ hashSalt' \in {hashSalt, r.salt}
            /\ UNCHANGED <<configId, daemonState>>
      BY <1>15, <2>6 DEF DaemonStep
    <3>3. [kind |-> "updateDaemonConfig", result |-> result] \in Reply
      BY DEF Reply, AsyncResult
    <3>4. QED
      BY <2>2, <3>1, <3>2, <3>3 DEF TypeOK
  <2>7. QED
    BY <1>15, <2>3, <2>4, <2>5, <2>6 DEF DaemonStep
<1>16. CASE Finished
  BY <1>16 DEF Finished, TypeOK, vars, webVars, daemonVars, dirVars
<1>17. CASE UNCHANGED vars
  BY <1>17 DEF TypeOK, vars, webVars, daemonVars, dirVars
<1>18. QED
  BY <1>1, <1>2, <1>3, <1>4, <1>5, <1>6, <1>7, <1>8, <1>9, <1>10,
     <1>11, <1>12, <1>13, <1>14, <1>15, <1>16, <1>17 DEF Next

(* The type invariant holds in every reachable state.                     *)
THEOREM TypeCorrect == Spec => []TypeOK
BY InitTypeOK, NextTypeOK, PTL DEF Spec

-----------------------------------------------------------------------------
(* A start() that failed leaves no registration behind, on a network that *)
(* does not lose the answers of the directory.  The property is not       *)
(* inductive by itself: a start whose registration is in flight must not  *)
(* yet be registered, or the non-200 branch of onRegistered would report  *)
(* failure for a registered host.  That is the first conjunct; it holds   *)
(* because start() draws an id that is neither registered nor configured. *)
-----------------------------------------------------------------------------

NotYetRegistered ==
    \A h \in HostId :
        startPc[h] \in {"keygen", "token", "register"} => h \notin directory

FailedStartIInv == NotYetRegistered /\ FailedStartUnregistered

LEMMA InitFailedStart == Init => FailedStartIInv
BY DEF Init, FailedStartIInv, NotYetRegistered, FailedStartUnregistered, Failure,
       AsyncResult

LEMMA NextFailedStart ==
    ASSUME ~LossyNetwork
    PROVE  TypeOK /\ FailedStartIInv /\ [Next]_vars => FailedStartIInv'
<1> SUFFICES ASSUME TypeOK, FailedStartIInv, [Next]_vars PROVE FailedStartIInv'
  OBVIOUS
<1> USE DEF FailedStartIInv, NotYetRegistered, FailedStartUnregistered, Failure,
            AsyncResult, webVars, daemonVars, dirVars
<1>1. ASSUME NEW h \in HostId, Start(h) PROVE FailedStartIInv'
  BY <1>1 DEF Start, TypeOK
<1>2. ASSUME NEW h \in HostId, OnKeyGenerated(h) PROVE FailedStartIInv'
  BY <1>2 DEF OnKeyGenerated, TypeOK
<1>3. ASSUME NEW h \in HostId, DoRegisterHost(h) PROVE FailedStartIInv'
  BY <1>3 DEF DoRegisterHost, TypeOK
<1>4. ASSUME NEW h \in HostId, OnTokenError(h) PROVE FailedStartIInv'
  BY <1>4 DEF OnTokenError, TypeOK
<1>5. ASSUME NEW h \in HostId, OnRegistered(h) PROVE FailedStartIInv'
  <2>1. CASE directory' = directory \cup {h} /\ startPc' = [startPc EXCEPT ![h] = "daemon"]
    BY <1>5, <2>1 DEF OnRegistered, TypeOK
  <2>2. CASE directory' = directory /\ startPc' = [startPc EXCEPT ![h] = "FAILED_DIRECTORY"]
    BY <1>5, <2>2 DEF OnRegistered, TypeOK
  <2>3. QED
    BY <1>5, <2>1, <2>2 DEF OnRegistered
<1>6. ASSUME NEW h \in Host, DirectoryDelete(h) PROVE FailedStartIInv'
  BY <1>6 DEF DirectoryDelete, TypeOK
<1>7. CASE OnStarted
  <2> DEFINE m == Head(replies)
  <2>1. m \in [kind : {"startDaemon"}, id : HostId, result : AsyncResult]
    BY <1>7 DEF OnStarted, TypeOK, Reply
  <2>2. startPc' = [startPc EXCEPT ![m.id] = m.result]
    BY <1>7 DEF OnStarted
  <2>3. m.result # "OK" => deletes' = deletes \cup {m.id}
    BY <1>7 DEF OnStarted
  <2>4. deletes \subseteq deletes' /\ directory' = directory
    BY <1>7 DEF OnStarted
  <2>5. QED
    BY <2>1, <2>2, <2>3, <2>4 DEF TypeOK
<1>8. CASE Stop
  BY <1>8 DEF Stop
<1>9. CASE OnStopped
  BY <1>9 DEF OnStopped
<1>10. CASE UpdatePin
  BY <1>10 DEF UpdatePin
<1>11. CASE OnConfigForPin
  BY <1>11 DEF OnConfigForPin
<1>12. CASE OnPinUpdated
  BY <1>12 DEF OnPinUpdated
<1>13. CASE GetLocalHostStateAndId
  BY <1>13 DEF GetLocalHostStateAndId
<1>14. CASE OnConfigForState
  BY <1>14 DEF OnConfigForState
<1>15. CASE DaemonStep
  BY <1>15 DEF DaemonStep
<1>16. CASE Finished \/ UNCHANGED vars
  BY <1>16 DEF Finished, vars
<1>17. QED
  BY <1>1, <1>2, <1>3, <1>4, <1>5, <1>6, <1>7, <1>8, <1>9, <1>10,
     <1>11, <1>12, <1>13, <1>14, <1>15, <1>16 DEF Next

(* On a network that does not lose the directory's answers, a start()     *)
(* that reported failure (token error, FAILED_DIRECTORY, or a failed or   *)
(* cancelled startDaemon) never leaves its host id registered without an  *)
(* unregisterHostById() on its way: onStarted's cleanup is sufficient.    *)
THEOREM FailedStartNeverRegistered ==
    ASSUME ~LossyNetwork
    PROVE  Spec => []FailedStartUnregistered
<1>1. Spec => []FailedStartIInv
  BY InitFailedStart, NextFailedStart, TypeCorrect, PTL DEF Spec
<1>2. QED
  BY <1>1, PTL DEF FailedStartIInv


-----------------------------------------------------------------------------
(* localHostId_ is written by two callbacks only: onStarted (the host id  *)
(* on OK, null otherwise) and getLocalHostStateAndId's onConfig (the      *)
(* config's host_id as the daemon read it).  LocalHostIdMatchesConfig     *)
(* only speaks of the state where no reply is pending, so it is not        *)
(* inductive: the invariant follows the value each pending reply will     *)
(* write.  The last reply in the queue that writes localHostId_ carries    *)
(* null or the config's current host_id, and when no such reply is        *)
(* pending localHostId_ itself is null or that host_id.  This holds        *)
(* because the config's host_id changes only when the daemon starts, and   *)
(* that step queues a startDaemon reply carrying the new id.               *)
-----------------------------------------------------------------------------

(* A reply whose callback assigns localHostId_, and the value it assigns. *)
Resets(m) ==
    \/ m.kind = "startDaemon"
    \/ m.kind = "getDaemonConfig" /\ m.by = "getLocalHostStateAndId"

ResetValue(m) ==
    IF m.kind = "startDaemon"
      THEN IF m.result = "OK" THEN m.id ELSE NoHost
      ELSE m.config

LastReset(i) ==
    /\ Resets(replies[i])
    /\ \A j \in i+1..Len(replies) : ~Resets(replies[j])

LocalIdKept ==
    /\ (\A i \in 1..Len(replies) : ~Resets(replies[i])) =>
           localHostId \in {NoHost, configId}
    /\ \A i \in 1..Len(replies) :
           LastReset(i) => ResetValue(replies[i]) \in {NoHost, configId}

LocalIdInv == TypeOK /\ LocalIdKept

LEMMA InitLocalId == Init => LocalIdKept
BY DEF Init, LocalIdKept

(* A step that consumes the head reply and leaves localHostId_ alone      *)
(* unless the head resets it to its value.                                 *)
LEMMA PopReply ==
    ASSUME TypeOK, LocalIdKept, replies # << >>,
           replies' = Tail(replies), configId' = configId,
           localHostId' = IF Resets(Head(replies)) THEN ResetValue(Head(replies))
                                                   ELSE localHostId
    PROVE  LocalIdKept'
<1> DEFINE n == Len(replies)
<1>1. /\ n \in Nat \ {0}
      /\ Len(replies') = n - 1
      /\ \A i \in 1..n-1 : replies'[i] = replies[i+1]
  BY DEF TypeOK
<1>2. ASSUME NEW i \in 1..n-1
      PROVE  LastReset(i)' <=> LastReset(i+1)
  BY <1>1 DEF LastReset
<1>3. (\A i \in 1..Len(replies') : ~Resets(replies'[i])) =>
          localHostId' \in {NoHost, configId'}
  <2> SUFFICES ASSUME \A i \in 1..n-1 : ~Resets(replies[i+1])
               PROVE  localHostId' \in {NoHost, configId}
    BY <1>1
  <2>1. CASE Resets(Head(replies))
    <3>1. LastReset(1)
      <4>1. Resets(replies[1])
        BY <1>1, <2>1
      <4>2. ASSUME NEW j \in 2..n PROVE ~Resets(replies[j])
        <5>1. j - 1 \in 1..n-1 /\ j - 1 + 1 = j
          BY <1>1
        <5>2. QED
          BY <5>1
      <4>3. QED
        BY <4>1, <4>2 DEF LastReset
    <3>2. QED
      BY <1>1, <2>1, <3>1 DEF LocalIdKept
  <2>2. CASE ~Resets(Head(replies))
    BY <1>1, <2>2 DEF LocalIdKept
  <2>3. QED
    BY <2>1, <2>2
<1>4. \A i \in 1..Len(replies') :
          LastReset(i)' => ResetValue(replies'[i]) \in {NoHost, configId'}
  BY <1>1, <1>2 DEF LocalIdKept
<1>5. QED
  BY <1>3, <1>4 DEF LocalIdKept

(* A step that queues a reply m at the end of the queue and leaves         *)
(* localHostId_ alone, when m carries the new config's host_id or does    *)
(* not write localHostId_ and the config is unchanged.                    *)
LEMMA PushReply ==
    ASSUME TypeOK, LocalIdKept, NEW m,
           replies' = Append(replies, m), localHostId' = localHostId,
           \/ Resets(m) /\ ResetValue(m) \in {NoHost, configId'}
           \/ ~Resets(m) /\ configId' = configId
    PROVE  LocalIdKept'
<1> DEFINE n == Len(replies)
<1>1. /\ n \in Nat
      /\ Len(replies') = n + 1
      /\ replies'[n+1] = m
      /\ \A i \in 1..n : replies'[i] = replies[i]
  BY DEF TypeOK
<1>2. CASE Resets(m) /\ ResetValue(m) \in {NoHost, configId'}
  <2>1. \A i \in 1..n : ~LastReset(i)'
    <3> SUFFICES ASSUME NEW i \in 1..n PROVE ~LastReset(i)'
      OBVIOUS
    <3>1. n + 1 \in i+1..Len(replies') /\ Resets(replies'[n+1])
      BY <1>1, <1>2
    <3>2. QED
      BY <3>1 DEF LastReset
  <2>2. ~\A i \in 1..Len(replies') : ~Resets(replies'[i])
    <3>1. n + 1 \in 1..Len(replies')
      BY <1>1
    <3>2. QED
      BY <1>1, <1>2, <3>1
  <2>3. ASSUME NEW i \in 1..Len(replies'), LastReset(i)'
        PROVE  ResetValue(replies'[i]) \in {NoHost, configId'}
    <3>1. i = n + 1
      BY <1>1, <2>1, <2>3
    <3>2. QED
      BY <1>1, <1>2, <3>1
  <2>4. QED
    BY <2>2, <2>3 DEF LocalIdKept
<1>3. CASE ~Resets(m) /\ configId' = configId
  <2>1. \A i \in 1..n : LastReset(i)' <=> LastReset(i)
    BY <1>1, <1>3 DEF LastReset
  <2>2. (\A i \in 1..Len(replies') : ~Resets(replies'[i])) =>
            localHostId' \in {NoHost, configId'}
    <3> SUFFICES ASSUME \A i \in 1..Len(replies') : ~Resets(replies'[i])
                 PROVE  localHostId \in {NoHost, configId}
      BY <1>3
    <3>1. \A i \in 1..Len(replies) : ~Resets(replies[i])
      BY <1>1
    <3>2. QED
      BY <3>1 DEF LocalIdKept
  <2>3. ASSUME NEW i \in 1..Len(replies'), LastReset(i)'
        PROVE  ResetValue(replies'[i]) \in {NoHost, configId'}
    <3>1. i # n + 1
      BY <1>1, <1>3, <2>3 DEF LastReset
    <3>2. i \in 1..n /\ LastReset(i) /\ replies'[i] = replies[i]
      BY <1>1, <2>1, <2>3, <3>1
    <3>3. QED
      BY <1>3, <3>2 DEF LocalIdKept
  <2>4. QED
    BY <2>2, <2>3 DEF LocalIdKept
<1>4. QED
  BY <1>2, <1>3

LEMMA NextLocalId == LocalIdInv /\ [Next]_vars => LocalIdKept'
<1> SUFFICES ASSUME TypeOK, LocalIdKept, [Next]_vars PROVE LocalIdKept'
  BY DEF LocalIdInv
<1> USE DEF webVars, daemonVars, dirVars
<1>1. CASE UNCHANGED <<localHostId, replies, configId>>
  BY <1>1 DEF LocalIdKept, LastReset
<1>2. ASSUME NEW h \in HostId,
             \/ Start(h) \/ OnKeyGenerated(h) \/ DoRegisterHost(h)
             \/ OnTokenError(h) \/ OnRegistered(h)
      PROVE  LocalIdKept'
  BY <1>1, <1>2 DEF Start, OnKeyGenerated, DoRegisterHost, OnTokenError,
                    OnRegistered
<1>9. ASSUME NEW h \in Host, DirectoryDelete(h) PROVE LocalIdKept'
  BY <1>1, <1>9 DEF DirectoryDelete
<1>3. CASE Stop \/ UpdatePin \/ GetLocalHostStateAndId \/ Finished
  BY <1>1, <1>3 DEF Stop, UpdatePin, GetLocalHostStateAndId, Finished, vars
<1>4. CASE OnStarted
  <2>1. /\ Resets(Head(replies))
        /\ localHostId' = ResetValue(Head(replies))
    BY <1>4 DEF OnStarted, Resets, ResetValue
  <2>2. QED
    BY <1>4, <2>1, PopReply DEF OnStarted
<1>5. CASE OnConfigForState
  <2>1. /\ Resets(Head(replies))
        /\ localHostId' = ResetValue(Head(replies))
    BY <1>5 DEF OnConfigForState, Resets, ResetValue
  <2>2. QED
    BY <1>5, <2>1, PopReply DEF OnConfigForState
<1>6. CASE OnStopped \/ OnConfigForPin \/ OnPinUpdated
  <2>1. ~Resets(Head(replies))
    BY <1>6 DEF OnStopped, OnConfigForPin, OnPinUpdated, Resets
  <2>2. /\ replies # << >> /\ replies' = Tail(replies)
        /\ UNCHANGED <<localHostId, configId>>
    BY <1>6 DEF OnStopped, OnConfigForPin, OnPinUpdated
  <2>3. QED
    BY <2>1, <2>2, PopReply
<1>7. CASE DaemonStep
  <2> DEFINE r == Head(requests)
  <2>1. UNCHANGED localHostId
    BY <1>7 DEF DaemonStep
  <2>2. CASE r.kind = "startDaemon"
    <3>1. PICK result \in {"OK", "FAILED", "CANCELLED"} :
            /\ replies' = Append(replies, [kind |-> "startDaemon", id |-> r.id,
                                           result |-> result])
            /\ result = "OK" => configId' = r.id
      BY <1>7, <2>2 DEF DaemonStep
    <3>2. QED
      BY <2>1, <3>1, PushReply DEF Resets, ResetValue
  <2>3. CASE r.kind = "stopDaemon"
    <3>1. PICK result \in {"OK", "FAILED"} :
            /\ replies' = Append(replies, [kind |-> "stopDaemon", result |-> result])
            /\ UNCHANGED configId
      BY <1>7, <2>3 DEF DaemonStep
    <3>2. QED
      BY <2>1, <3>1, PushReply DEF Resets
  <2>4. CASE r.kind = "getDaemonConfig"
    <3>1. /\ replies' = Append(replies, [kind |-> "getDaemonConfig", by |-> r.by,
                                         config |-> configId])
          /\ UNCHANGED configId
      BY <1>7, <2>4 DEF DaemonStep
    <3>2. QED
      BY <2>1, <3>1, PushReply DEF Resets, ResetValue
  <2>5. CASE r.kind = "updateDaemonConfig"
    <3>1. PICK result \in {"OK", "FAILED"} :
            /\ replies' = Append(replies, [kind |-> "updateDaemonConfig",
                                           result |-> result])
            /\ UNCHANGED configId
      BY <1>7, <2>5 DEF DaemonStep
    <3>2. QED
      BY <2>1, <3>1, PushReply DEF Resets
  <2>6. QED
    BY <1>7, <2>2, <2>3, <2>4, <2>5 DEF DaemonStep
<1>8. QED
  BY <1>1, <1>2, <1>3, <1>4, <1>5, <1>6, <1>7, <1>9 DEF Next, vars

(* Once every daemon reply has run its callback, the web app's            *)
(* localHostId_ is null or the host_id in the daemon's config, whatever    *)
(* start(), stop(), updatePin() and getLocalHostStateAndId() calls         *)
(* overlap and whatever the network does.                                   *)
THEOREM LocalHostIdNotStale == Spec => []LocalHostIdMatchesConfig
<1>1. Spec => []LocalIdInv
  <2>1. Init => LocalIdInv
    BY InitTypeOK, InitLocalId DEF LocalIdInv
  <2>2. LocalIdInv /\ [Next]_vars => LocalIdInv'
    BY NextTypeOK, NextLocalId DEF LocalIdInv
  <2>3. QED
    BY <2>1, <2>2, PTL DEF Spec
<1>2. LocalIdInv => LocalHostIdMatchesConfig
  BY DEF LocalIdInv, LocalIdKept, LocalHostIdMatchesConfig
<1>3. QED
  BY <1>1, <1>2, PTL


-----------------------------------------------------------------------------
(* RunningHostRegistered is not inductive.  The host the daemon runs as   *)
(* can be unregistered by a reply already queued: onStopped unregisters   *)
(* whatever localHostId_ holds when it runs, and onStarted unregisters a  *)
(* host whose start failed.  The invariant keeps track of who knows which *)
(* host id:                                                                *)
(*   - StartOnce: the startDaemon call of a start() is queued once, as a  *)
(*     request or as a reply, and only while that start() waits for it;  *)
(*   - FreshKept: an id whose startDaemon has not run yet, or failed, is  *)
(*     known to nobody (not the config, not localHostId_, not a config    *)
(*     reply, not an unregister); one whose reply is queued is not yet    *)
(*     localHostId_ and is carried by no config reply ahead of it;        *)
(*   - StartedKept: while the daemon runs, a successful stop reply still  *)
(*     queued ran before the start of the current host, whose reply is    *)
(*     behind it, so onStopped cannot unregister that host.               *)
-----------------------------------------------------------------------------

IsStart(m, h) == m.kind = "startDaemon" /\ m.id = h

(* The sequence q holds the startDaemon call for h.                        *)
InSeq(q, h) == \E i \in 1..Len(q) : IsStart(q[i], h)

(* The startDaemon calls in q name distinct hosts.                         *)
StartsDistinct(q) ==
    \A i, k \in 1..Len(q) :
        q[i].kind = "startDaemon" /\ q[k].kind = "startDaemon" /\ q[i].id = q[k].id
            => i = k

(* No config reply among the first n of q carries the host id h.          *)
NoConfigUpTo(q, n, h) ==
    \A k \in 1..n : q[k].kind = "getDaemonConfig" => q[k].config # h

NoConfig(q, h) == NoConfigUpTo(q, Len(q), h)

StartOnce ==
    /\ \A h \in HostId :
           InSeq(requests, h) \/ InSeq(replies, h) => startPc[h] = "daemon"
    /\ StartsDistinct(requests) /\ StartsDistinct(replies)
    /\ \A h \in HostId : ~(InSeq(requests, h) /\ InSeq(replies, h))

(* No part of the state holds the host id h.                               *)
KnownNowhere(h) ==
    /\ h # configId /\ h # localHostId /\ h \notin deletes
    /\ NoConfig(replies, h)

(* The start reply at position j of the replies: its host is not yet       *)
(* localHostId_ nor unregistered, no config reply ahead of it names it,   *)
(* and if the start failed nobody knows the host at all.                   *)
ReplyFresh(j) ==
    LET h == replies[j].id IN
    /\ h # localHostId /\ h \notin deletes
    /\ NoConfigUpTo(replies, j - 1, h)
    /\ replies[j].result # "OK" => KnownNowhere(h)

FreshKept ==
    /\ \A h \in HostId :
           startPc[h] \in {"idle", "keygen", "token", "register"} => KnownNowhere(h)
    /\ \A h \in HostId : InSeq(requests, h) => KnownNowhere(h) /\ h \in directory
    /\ \A j \in 1..Len(replies) : replies[j].kind = "startDaemon" => ReplyFresh(j)

StartedKept ==
    daemonState = "STARTED" =>
        /\ configId \in directory /\ configId \notin deletes
        /\ \A i \in 1..Len(replies) :
               replies[i].kind = "stopDaemon" /\ replies[i].result = "OK" =>
                   \E j \in i+1..Len(replies) : IsStart(replies[j], configId)

RunInv == TypeOK /\ StartOnce /\ FreshKept /\ StartedKept


-----------------------------------------------------------------------------
(* What Tail and Append do to the predicates above.                        *)

LEMMA TailIndex ==
    ASSUME NEW S, NEW q \in Seq(S), q # << >>
    PROVE  /\ Len(q) \in Nat \ {0}
           /\ Len(Tail(q)) = Len(q) - 1
           /\ Head(q) = q[1]
           /\ \A i \in 1..Len(q) - 1 : Tail(q)[i] = q[i + 1]
OBVIOUS

LEMMA AppendIndex ==
    ASSUME NEW S, NEW q \in Seq(S), NEW m
    PROVE  /\ Len(q) \in Nat
           /\ Len(Append(q, m)) = Len(q) + 1
           /\ Append(q, m)[Len(q) + 1] = m
           /\ \A i \in 1..Len(q) : Append(q, m)[i] = q[i]
OBVIOUS

LEMMA TailStarts ==
    ASSUME NEW S, NEW q \in Seq(S), q # << >>, NEW h
    PROVE  /\ InSeq(Tail(q), h) => InSeq(q, h)
           /\ InSeq(q, h) /\ ~IsStart(Head(q), h) => InSeq(Tail(q), h)
           /\ StartsDistinct(q) /\ IsStart(Head(q), h) => ~InSeq(Tail(q), h)
           /\ StartsDistinct(q) => StartsDistinct(Tail(q))
           /\ NoConfig(q, h) => NoConfig(Tail(q), h)
<1>1. /\ Len(q) \in Nat \ {0}
      /\ Len(Tail(q)) = Len(q) - 1
      /\ Head(q) = q[1]
      /\ \A i \in 1..Len(q) - 1 : Tail(q)[i] = q[i + 1]
  BY TailIndex
<1>2. InSeq(Tail(q), h) => InSeq(q, h)
  BY <1>1 DEF InSeq
<1>3. InSeq(q, h) /\ ~IsStart(Head(q), h) => InSeq(Tail(q), h)
  <2> SUFFICES ASSUME NEW i \in 1..Len(q), IsStart(q[i], h), ~IsStart(q[1], h)
               PROVE  InSeq(Tail(q), h)
    BY <1>1 DEF InSeq
  <2>1. i - 1 \in 1..Len(Tail(q)) /\ Tail(q)[i - 1] = q[i]
    BY <1>1
  <2>2. QED
    BY <2>1 DEF InSeq
<1>4. StartsDistinct(q) /\ IsStart(Head(q), h) => ~InSeq(Tail(q), h)
  BY <1>1 DEF StartsDistinct, InSeq, IsStart
<1>5. StartsDistinct(q) => StartsDistinct(Tail(q))
  BY <1>1 DEF StartsDistinct
<1>6. NoConfig(q, h) => NoConfig(Tail(q), h)
  BY <1>1 DEF NoConfig, NoConfigUpTo
<1>7. QED
  BY <1>2, <1>3, <1>4, <1>5, <1>6

LEMMA AppendStarts ==
    ASSUME NEW S, NEW q \in Seq(S), NEW m, NEW h
    PROVE  /\ InSeq(Append(q, m), h) <=> InSeq(q, h) \/ IsStart(m, h)
           /\ StartsDistinct(q) /\ (m.kind = "startDaemon" => ~InSeq(q, m.id))
                  => StartsDistinct(Append(q, m))
           /\ NoConfig(Append(q, m), h) <=>
                  NoConfig(q, h) /\ (m.kind = "getDaemonConfig" => m.config # h)
           /\ \A n \in 0..Len(q) :
                  NoConfigUpTo(Append(q, m), n, h) <=> NoConfigUpTo(q, n, h)
<1>1. /\ Len(q) \in Nat
      /\ Len(Append(q, m)) = Len(q) + 1
      /\ Append(q, m)[Len(q) + 1] = m
      /\ \A i \in 1..Len(q) : Append(q, m)[i] = q[i]
  BY AppendIndex
<1>2. InSeq(Append(q, m), h) <=> InSeq(q, h) \/ IsStart(m, h)
  BY <1>1 DEF InSeq
<1>3. StartsDistinct(q) /\ (m.kind = "startDaemon" => ~InSeq(q, m.id))
          => StartsDistinct(Append(q, m))
  BY <1>1 DEF StartsDistinct, InSeq, IsStart
<1>4. NoConfig(Append(q, m), h) <=>
          NoConfig(q, h) /\ (m.kind = "getDaemonConfig" => m.config # h)
  BY <1>1 DEF NoConfig, NoConfigUpTo
<1>5. \A n \in 0..Len(q) :
          NoConfigUpTo(Append(q, m), n, h) <=> NoConfigUpTo(q, n, h)
  BY <1>1 DEF NoConfigUpTo
<1>6. QED
  BY <1>2, <1>3, <1>4, <1>5


-----------------------------------------------------------------------------
(* RunInv holds initially and is kept by every step.                       *)

RunParts == StartOnce /\ FreshKept /\ StartedKept

LEMMA InitRun == Init => RunParts
<1> SUFFICES ASSUME Init PROVE RunParts
  OBVIOUS
<1>1. requests = << >> /\ replies = << >>
  BY DEF Init
<1>2. \A h \in HostId : ~InSeq(requests, h) /\ ~InSeq(replies, h) /\ KnownNowhere(h)
  <2> SUFFICES ASSUME NEW h \in HostId
               PROVE  ~InSeq(requests, h) /\ ~InSeq(replies, h) /\ KnownNowhere(h)
    OBVIOUS
  <2>1. Len(requests) = 0 /\ Len(replies) = 0
    BY <1>1
  <2>2. ~InSeq(requests, h) /\ ~InSeq(replies, h) /\ NoConfig(replies, h)
    BY <2>1 DEF InSeq, NoConfig, NoConfigUpTo
  <2>3. h # configId /\ h # localHostId /\ h \notin deletes
    BY HostIdAssumption DEF Init
  <2>4. QED
    BY <2>2, <2>3 DEF KnownNowhere
<1>3. StartOnce /\ FreshKept
  BY <1>1, <1>2 DEF StartOnce, StartsDistinct, FreshKept
<1>4. StartedKept
  BY <1>1 DEF Init, StartedKept
<1>5. QED
  BY <1>3, <1>4 DEF RunParts

(* A step of a start() before its startDaemon call: only its phase        *)
(* changes, and not to or from "daemon".                                   *)
LEMMA PhaseStep ==
    ASSUME RunParts, NEW h \in HostId,
           startPc[h] \in {"idle", "keygen", "token"},
           NEW p, p # "daemon",
           startPc' = [startPc EXCEPT ![h] = p],
           UNCHANGED <<requests, replies, configId, localHostId, deletes,
                       directory, daemonState>>
    PROVE  RunParts'
<1>1. ~InSeq(requests, h) /\ ~InSeq(replies, h)
  BY DEF RunParts, StartOnce
<1>2. \A g \in HostId : KnownNowhere(g)' = KnownNowhere(g)
  BY DEF KnownNowhere, NoConfig, NoConfigUpTo
<1>3. \A g \in HostId : InSeq(requests, g)' = InSeq(requests, g)
                        /\ InSeq(replies, g)' = InSeq(replies, g)
  BY DEF InSeq
<1>4. StartOnce'
  BY <1>1, <1>3 DEF RunParts, StartOnce, StartsDistinct
<1>5. FreshKept'
  <2>1. KnownNowhere(h)
    BY DEF RunParts, FreshKept
  <2>2. \A j \in 1..Len(replies) : ReplyFresh(j)' <=> ReplyFresh(j)
    BY <1>2 DEF ReplyFresh, NoConfigUpTo, KnownNowhere, NoConfig
  <2>3. QED
    BY <1>2, <1>3, <2>1, <2>2 DEF RunParts, FreshKept
<1>6. StartedKept'
  BY DEF RunParts, StartedKept, IsStart
<1>7. QED
  BY <1>4, <1>5, <1>6 DEF RunParts

(* A call queued to the plugin that is not startDaemon.                    *)
LEMMA RequestStep ==
    ASSUME TypeOK, RunParts, NEW m, m.kind # "startDaemon",
           requests' = Append(requests, m),
           UNCHANGED <<startPc, replies, configId, localHostId, deletes,
                       directory, daemonState>>
    PROVE  RunParts'
<1>1. \A g \in HostId : InSeq(requests', g) <=> InSeq(requests, g)
  <2> SUFFICES ASSUME NEW g \in HostId PROVE InSeq(requests', g) <=> InSeq(requests, g)
    OBVIOUS
  <2>1. InSeq(Append(requests, m), g) <=> InSeq(requests, g) \/ IsStart(m, g)
    BY AppendStarts DEF TypeOK
  <2>2. ~IsStart(m, g)
    BY DEF IsStart
  <2>3. QED
    BY <2>1, <2>2
<1>2. StartsDistinct(requests')
  BY AppendStarts DEF TypeOK, RunParts, StartOnce
<1>3. \A g \in HostId : KnownNowhere(g)' = KnownNowhere(g)
  BY DEF KnownNowhere, NoConfig, NoConfigUpTo
<1>4. \A j \in 1..Len(replies) : ReplyFresh(j)' <=> ReplyFresh(j)
  BY DEF ReplyFresh, NoConfigUpTo, KnownNowhere, NoConfig
<1>5. StartOnce'
  BY <1>1, <1>2 DEF RunParts, StartOnce, StartsDistinct, InSeq
<1>6. FreshKept'
  BY <1>1, <1>3, <1>4 DEF RunParts, FreshKept
<1>7. StartedKept'
  BY DEF RunParts, StartedKept, IsStart
<1>8. QED
  BY <1>5, <1>6, <1>7 DEF RunParts


(* onRegistered: the startDaemon call of h is queued once h is registered, *)
(* or the start fails; the directory only grows.                           *)
LEMMA RegisterStep ==
    ASSUME TypeOK, RunParts, NEW h \in HostId, startPc[h] = "register",
           directory \subseteq directory',
           UNCHANGED <<replies, configId, localHostId, deletes, daemonState>>,
           \/ /\ startPc' = [startPc EXCEPT ![h] = "daemon"]
              /\ requests' = Append(requests, [kind |-> "startDaemon", id |-> h])
              /\ h \in directory'
           \/ /\ startPc' = [startPc EXCEPT ![h] = "FAILED_DIRECTORY"]
              /\ UNCHANGED requests
    PROVE  RunParts'
<1>1. ~InSeq(requests, h) /\ ~InSeq(replies, h) /\ KnownNowhere(h)
  BY DEF RunParts, StartOnce, FreshKept
<1>2. \A g \in HostId : KnownNowhere(g)' <=> KnownNowhere(g)
  BY DEF KnownNowhere, NoConfig, NoConfigUpTo
<1>3. \A j \in 1..Len(replies) : ReplyFresh(j)' <=> ReplyFresh(j)
  BY DEF ReplyFresh, NoConfigUpTo, KnownNowhere, NoConfig
<1>4. \A g \in HostId : InSeq(replies, g)' <=> InSeq(replies, g)
  BY DEF InSeq
<1>5. StartedKept'
  BY DEF RunParts, StartedKept, IsStart
<1>6. CASE /\ startPc' = [startPc EXCEPT ![h] = "daemon"]
           /\ requests' = Append(requests, [kind |-> "startDaemon", id |-> h])
           /\ h \in directory'
  <2> DEFINE m == [kind |-> "startDaemon", id |-> h]
  <2>1. \A g \in HostId : InSeq(requests', g) <=> InSeq(requests, g) \/ g = h
    <3> SUFFICES ASSUME NEW g \in HostId
                 PROVE  InSeq(requests', g) <=> InSeq(requests, g) \/ g = h
      OBVIOUS
    <3>1. InSeq(Append(requests, m), g) <=> InSeq(requests, g) \/ IsStart(m, g)
      BY AppendStarts DEF TypeOK
    <3>2. QED
      BY <1>6, <3>1 DEF IsStart
  <2>2. StartsDistinct(requests')
    BY <1>1, <1>6, AppendStarts DEF TypeOK, RunParts, StartOnce
  <2>3. StartOnce'
    BY <1>1, <1>4, <1>6, <2>1, <2>2 DEF RunParts, StartOnce, TypeOK
  <2>4. FreshKept'
    BY <1>1, <1>2, <1>3, <1>6, <2>1 DEF RunParts, FreshKept, TypeOK
  <2>5. QED
    BY <1>5, <2>3, <2>4 DEF RunParts
<1>7. CASE /\ startPc' = [startPc EXCEPT ![h] = "FAILED_DIRECTORY"]
           /\ UNCHANGED requests
  <2>1. \A g \in HostId : InSeq(requests, g)' <=> InSeq(requests, g)
    BY <1>7 DEF InSeq
  <2>2. StartOnce'
    BY <1>1, <1>4, <1>7, <2>1 DEF RunParts, StartOnce, StartsDistinct, TypeOK
  <2>3. FreshKept'
    BY <1>1, <1>2, <1>3, <1>7, <2>1 DEF RunParts, FreshKept, TypeOK
  <2>4. QED
    BY <1>5, <2>2, <2>3 DEF RunParts
<1>8. QED
  BY <1>6, <1>7

(* The directory applies, or loses, an unregisterHostById() request.       *)
LEMMA DeleteStep ==
    ASSUME RunParts, NEW h \in Host, DirectoryDelete(h)
    PROVE  RunParts'
<1>1. /\ h \in deletes /\ deletes' = deletes \ {h}
      /\ directory' \in {directory \ {h}, directory}
      /\ UNCHANGED <<startPc, requests, replies, configId, localHostId, daemonState>>
  BY DEF DirectoryDelete, webVars, daemonVars
<1>2. \A g : KnownNowhere(g) => KnownNowhere(g)'
  BY <1>1 DEF KnownNowhere, NoConfig, NoConfigUpTo
<1>3. \A j \in 1..Len(replies) : ReplyFresh(j) => ReplyFresh(j)'
  BY <1>1, <1>2 DEF ReplyFresh, NoConfigUpTo
<1>4. \A g \in HostId : /\ InSeq(requests, g)' <=> InSeq(requests, g)
                        /\ InSeq(replies, g)' <=> InSeq(replies, g)
  BY <1>1 DEF InSeq
<1>5. StartOnce'
  BY <1>1, <1>4 DEF RunParts, StartOnce, StartsDistinct
<1>6. FreshKept'
  <2>1. \A g \in HostId : InSeq(requests, g) => g \in directory'
    BY <1>1 DEF RunParts, FreshKept, KnownNowhere
  <2>2. QED
    BY <1>1, <1>2, <1>3, <1>4, <2>1 DEF RunParts, FreshKept
<1>7. StartedKept'
  BY <1>1 DEF RunParts, StartedKept, IsStart
<1>8. QED
  BY <1>5, <1>6, <1>7 DEF RunParts


(* Taking the head reply shifts every other reply one place forward.       *)
LEMMA ShiftFacts ==
    ASSUME TypeOK, RunParts, replies # << >>, replies' = Tail(replies)
    PROVE  /\ Len(replies) \in Nat \ {0}
           /\ Len(replies') = Len(replies) - 1
           /\ Head(replies) = replies[1]
           /\ \A i \in 1..Len(replies) - 1 : replies'[i] = replies[i + 1]
           /\ \A g : InSeq(replies', g) => InSeq(replies, g)
           /\ StartsDistinct(replies')
           /\ \A g : NoConfig(replies, g) => NoConfig(replies', g)
           /\ \A j \in 1..Len(replies) - 1 : \A g :
                  NoConfigUpTo(replies, j, g) => NoConfigUpTo(replies', j - 1, g)
<1>1. replies \in Seq(Reply)
  BY DEF TypeOK
<1>2. /\ Len(replies) \in Nat \ {0}
      /\ Len(replies') = Len(replies) - 1
      /\ Head(replies) = replies[1]
      /\ \A i \in 1..Len(replies) - 1 : replies'[i] = replies[i + 1]
  BY <1>1, TailIndex
<1>3. StartsDistinct(replies')
  BY <1>1, TailStarts DEF RunParts, StartOnce
<1>4. \A g : /\ InSeq(replies', g) => InSeq(replies, g)
             /\ NoConfig(replies, g) => NoConfig(replies', g)
  BY <1>1, TailStarts
<1>5. \A j \in 1..Len(replies) - 1 : \A g :
          NoConfigUpTo(replies, j, g) => NoConfigUpTo(replies', j - 1, g)
  BY <1>2 DEF NoConfigUpTo
<1>6. QED
  BY <1>2, <1>3, <1>4, <1>5

(* onStopped unregisters localHostId_ after a successful stop.  It is not  *)
(* the host the daemon runs as: that host was started after the stop, and  *)
(* its start reply, still queued behind, says localHostId_ is not it yet. *)
LEMMA StoppedStep ==
    ASSUME TypeOK, RunParts, OnStopped
    PROVE  RunParts'
<1>1. /\ replies # << >> /\ replies' = Tail(replies)
      /\ Head(replies).kind = "stopDaemon"
      /\ deletes' = IF Head(replies).result = "OK" /\ localHostId # NoHost
                      THEN deletes \cup {localHostId} ELSE deletes
      /\ UNCHANGED <<startPc, requests, configId, localHostId, directory, daemonState>>
  BY DEF OnStopped, webVars, daemonVars
<1>2. /\ Len(replies) \in Nat \ {0}
      /\ Len(replies') = Len(replies) - 1
      /\ Head(replies) = replies[1]
      /\ \A i \in 1..Len(replies) - 1 : replies'[i] = replies[i + 1]
      /\ \A g : InSeq(replies', g) => InSeq(replies, g)
      /\ StartsDistinct(replies')
      /\ \A g : NoConfig(replies, g) => NoConfig(replies', g)
      /\ \A j \in 1..Len(replies) - 1 : \A g :
             NoConfigUpTo(replies, j, g) => NoConfigUpTo(replies', j - 1, g)
  BY <1>1, ShiftFacts
<1>3. deletes' \subseteq deletes \cup {localHostId}
  BY <1>1
<1>4. \A g : KnownNowhere(g) => KnownNowhere(g)'
  BY <1>1, <1>2, <1>3 DEF KnownNowhere
<1>5. StartOnce'
  BY <1>1, <1>2 DEF RunParts, StartOnce, InSeq
<1>6. FreshKept'
  <2>1. ASSUME NEW j \in 1..Len(replies'), replies'[j].kind = "startDaemon"
        PROVE  ReplyFresh(j)'
    <3>1. replies'[j] = replies[j + 1] /\ j + 1 \in 1..Len(replies)
      BY <1>2
    <3>2. ReplyFresh(j + 1)
      BY <2>1, <3>1 DEF RunParts, FreshKept
    <3>3. QED
      BY <1>1, <1>2, <1>3, <1>4, <3>1, <3>2 DEF ReplyFresh
  <2>2. QED
    BY <1>1, <1>4, <2>1 DEF RunParts, FreshKept, InSeq
<1>7. StartedKept'
  <2> SUFFICES ASSUME daemonState = "STARTED"
               PROVE  StartedKept'
    BY <1>1 DEF StartedKept
  <2>1. configId \notin deletes'
    <3>1. CASE Head(replies).result = "OK"
      <4>1. PICK j \in 2..Len(replies) : IsStart(replies[j], configId)
        BY <1>2, <1>1, <3>1 DEF RunParts, StartedKept
      <4>2. ReplyFresh(j)
        BY <4>1 DEF RunParts, FreshKept, IsStart
      <4>3. configId # localHostId
        BY <4>1, <4>2 DEF ReplyFresh, IsStart
      <4>4. QED
        BY <1>3, <4>3 DEF RunParts, StartedKept
    <3>2. CASE Head(replies).result # "OK"
      BY <1>1, <3>2 DEF RunParts, StartedKept
    <3>3. QED
      BY <3>1, <3>2
  <2>2. \A i \in 1..Len(replies') :
            replies'[i].kind = "stopDaemon" /\ replies'[i].result = "OK" =>
                \E j \in i+1..Len(replies') : IsStart(replies'[j], configId')
    <3> SUFFICES ASSUME NEW i \in 1..Len(replies'),
                        replies'[i].kind = "stopDaemon", replies'[i].result = "OK"
                 PROVE  \E j \in i+1..Len(replies') : IsStart(replies'[j], configId')
      OBVIOUS
    <3>1. PICK j \in (i+1)+1..Len(replies) : IsStart(replies[j], configId)
      BY <1>2 DEF RunParts, StartedKept
    <3>2. j - 1 \in i+1..Len(replies') /\ replies'[j - 1] = replies[j]
      BY <1>2, <3>1
    <3>3. QED
      BY <1>1, <3>1, <3>2
  <2>3. QED
    BY <1>1, <2>1, <2>2 DEF RunParts, StartedKept
<1>8. QED
  BY <1>5, <1>6, <1>7 DEF RunParts


(* onStarted: the started host becomes localHostId_, or a host whose start *)
(* failed is unregistered.  Neither is a host anybody else waits on, and   *)
(* a failed host is not the one the daemon runs as.                        *)
LEMMA StartedStep ==
    ASSUME TypeOK, RunParts, OnStarted
    PROVE  RunParts'
<1> DEFINE m == Head(replies)
           h == m.id
<1>1. /\ replies # << >> /\ replies' = Tail(replies)
      /\ m.kind = "startDaemon"
      /\ startPc' = [startPc EXCEPT ![h] = m.result]
      /\ localHostId' \in {h, NoHost}
      /\ deletes' \subseteq deletes \cup {h}
      /\ m.result = "OK" => deletes' = deletes
      /\ UNCHANGED <<requests, configId, directory, daemonState>>
  BY DEF OnStarted, webVars, daemonVars
<1>2. /\ Len(replies) \in Nat \ {0}
      /\ Len(replies') = Len(replies) - 1
      /\ m = replies[1]
      /\ \A i \in 1..Len(replies) - 1 : replies'[i] = replies[i + 1]
      /\ \A g : InSeq(replies', g) => InSeq(replies, g)
      /\ StartsDistinct(replies')
      /\ \A g : NoConfig(replies, g) => NoConfig(replies', g)
      /\ \A j \in 1..Len(replies) - 1 : \A g :
             NoConfigUpTo(replies, j, g) => NoConfigUpTo(replies', j - 1, g)
  BY <1>1, ShiftFacts
<1>3. m \in [kind : {"startDaemon"}, id : HostId, result : AsyncResult]
  BY <1>1, <1>2 DEF TypeOK, Reply
<1>4. /\ InSeq(replies, h) /\ startPc[h] = "daemon" /\ ~InSeq(requests, h)
      /\ ~InSeq(replies', h)
  <2>1. InSeq(replies, h)
    BY <1>1, <1>2, <1>3 DEF InSeq, IsStart
  <2>2. ~InSeq(replies', h)
    BY <1>1, <1>3, TailStarts DEF TypeOK, RunParts, StartOnce, IsStart
  <2>3. QED
    BY <1>3, <2>1, <2>2 DEF RunParts, StartOnce
(* Any other host still waited on is not h.                                *)
<1>5. \A x \in HostId : KnownNowhere(x) /\ x # h => KnownNowhere(x)'
  BY <1>1, <1>2, HostIdAssumption DEF KnownNowhere
<1>6. \A j \in 2..Len(replies) : replies[j].kind = "startDaemon" => replies[j].id # h
  BY <1>2, <1>3 DEF RunParts, StartOnce, StartsDistinct
<1>7. StartOnce'
  <2>1. \A g \in HostId : InSeq(replies', g) \/ InSeq(requests, g) => g # h
    BY <1>4
  <2>2. QED
    BY <1>1, <1>2, <2>1 DEF RunParts, StartOnce, InSeq
<1>8. FreshKept'
  <2>1. ASSUME NEW g \in HostId, startPc'[g] \in {"idle", "keygen", "token", "register"}
        PROVE  KnownNowhere(g)'
    <3>1. g # h /\ startPc[g] = startPc'[g]
      BY <1>1, <1>3, <1>4, <2>1 DEF AsyncResult, TypeOK
    <3>2. QED
      BY <2>1, <3>1, <1>5 DEF RunParts, FreshKept
  <2>2. ASSUME NEW g \in HostId, InSeq(requests', g)
        PROVE  KnownNowhere(g)' /\ g \in directory'
    <3>1. g # h /\ InSeq(requests, g)
      BY <1>1, <1>4, <2>2 DEF InSeq
    <3>2. QED
      BY <1>1, <1>5, <3>1 DEF RunParts, FreshKept
  <2>3. ASSUME NEW j \in 1..Len(replies'), replies'[j].kind = "startDaemon"
        PROVE  ReplyFresh(j)'
    <3>0. replies'[j] = replies[j + 1] /\ j + 1 \in 2..Len(replies)
      BY <1>2
    <3>1. PICK g \in HostId : g = replies[j + 1].id
      BY <2>3, <3>0 DEF TypeOK, Reply
    <3>2. ReplyFresh(j + 1) /\ g # h /\ g \in HostId
      BY <2>3, <3>1, <3>0, <1>6 DEF RunParts, FreshKept
    <3>3. g # localHostId' /\ g \notin deletes'
      BY <1>1, <3>1, <3>2, HostIdAssumption DEF ReplyFresh
    <3>4. NoConfigUpTo(replies', j - 1, g)
      BY <1>2, <3>1, <3>0, <3>2 DEF ReplyFresh
    <3>5. replies[j + 1].result # "OK" => KnownNowhere(g)'
      <4> SUFFICES ASSUME replies[j + 1].result # "OK"
                   PROVE  KnownNowhere(g)'
        OBVIOUS
      <4>1. KnownNowhere(g)
        BY <3>1, <3>2 DEF ReplyFresh
      <4>2. QED
        BY <4>1, <3>2, <1>5
    <3>6. replies'[j].id = g /\ replies'[j].result = replies[j + 1].result
      BY <3>1, <3>0
    <3>7. QED
      BY <3>3, <3>4, <3>5, <3>6 DEF ReplyFresh
  <2>4. QED
    BY <2>1, <2>2, <2>3 DEF FreshKept
<1>9. StartedKept'
  <2> SUFFICES ASSUME daemonState = "STARTED"
               PROVE  StartedKept'
    BY <1>1 DEF StartedKept
  <2>1. configId \notin deletes'
    <3>1. m.result # "OK" => h # configId
      BY <1>1, <1>2 DEF RunParts, FreshKept, ReplyFresh, KnownNowhere
    <3>2. QED
      BY <1>1, <3>1 DEF RunParts, StartedKept
  <2>2. \A i \in 1..Len(replies') :
            replies'[i].kind = "stopDaemon" /\ replies'[i].result = "OK" =>
                \E j \in i+1..Len(replies') : IsStart(replies'[j], configId')
    <3> SUFFICES ASSUME NEW i \in 1..Len(replies'),
                        replies'[i].kind = "stopDaemon", replies'[i].result = "OK"
                 PROVE  \E j \in i+1..Len(replies') : IsStart(replies'[j], configId')
      OBVIOUS
    <3>1. PICK j \in (i+1)+1..Len(replies) : IsStart(replies[j], configId)
      BY <1>2 DEF RunParts, StartedKept
    <3>2. j - 1 \in i+1..Len(replies') /\ replies'[j - 1] = replies[j]
      BY <1>2, <3>1
    <3>3. QED
      BY <1>1, <3>1, <3>2
  <2>3. QED
    BY <1>1, <2>1, <2>2 DEF RunParts, StartedKept
<1>10. QED
  BY <1>7, <1>8, <1>9 DEF RunParts


(* onConfigForState, onConfigForPin and onPinUpdated take a config or pin *)
(* reply off the queue.  The config a reply carries is no host anybody    *)
(* waits on, so it may become localHostId_; a request they queue is no    *)
(* start.                                                                  *)
LEMMA PopStep ==
    ASSUME TypeOK, RunParts, replies # << >>, replies' = Tail(replies),
           Head(replies).kind \in {"getDaemonConfig", "updateDaemonConfig"},
           \/ requests' = requests
           \/ \E m : m.kind # "startDaemon" /\ requests' = Append(requests, m),
           \/ localHostId' = localHostId
           \/ /\ Head(replies).kind = "getDaemonConfig"
              /\ localHostId' = Head(replies).config,
           UNCHANGED <<startPc, configId, deletes, directory, daemonState>>
    PROVE  RunParts'
<1>1. /\ Len(replies) \in Nat \ {0}
      /\ Len(replies') = Len(replies) - 1
      /\ Head(replies) = replies[1]
      /\ \A i \in 1..Len(replies) - 1 : replies'[i] = replies[i + 1]
      /\ \A g : InSeq(replies', g) => InSeq(replies, g)
      /\ StartsDistinct(replies')
      /\ \A g : NoConfig(replies, g) => NoConfig(replies', g)
      /\ \A j \in 1..Len(replies) - 1 : \A g :
             NoConfigUpTo(replies, j, g) => NoConfigUpTo(replies', j - 1, g)
  BY ShiftFacts
<1>2. /\ \A g \in HostId : InSeq(requests', g) <=> InSeq(requests, g)
      /\ StartsDistinct(requests')
  <2>1. CASE requests' = requests
    BY <2>1 DEF RunParts, StartOnce
  <2>2. CASE \E m : m.kind # "startDaemon" /\ requests' = Append(requests, m)
    <3>1. PICK m : m.kind # "startDaemon" /\ requests' = Append(requests, m)
      BY <2>2
    <3>2. \A g \in HostId : InSeq(Append(requests, m), g) <=> InSeq(requests, g) \/ IsStart(m, g)
      BY AppendStarts DEF TypeOK
    <3>3. StartsDistinct(Append(requests, m))
      BY <3>1, AppendStarts DEF TypeOK, RunParts, StartOnce
    <3>4. QED
      BY <3>1, <3>2, <3>3 DEF IsStart
  <2>3. QED
    BY <2>1, <2>2
(* The config of the head reply is no host that no config reply names.    *)
<1>3. \A x \in HostId : NoConfigUpTo(replies, 1, x) => localHostId' # x \/ localHostId = x
  BY <1>1 DEF NoConfigUpTo
<1>4. \A x \in HostId : KnownNowhere(x) => KnownNowhere(x)'
  <2> SUFFICES ASSUME NEW x \in HostId, KnownNowhere(x) PROVE KnownNowhere(x)'
    OBVIOUS
  <2>1. NoConfigUpTo(replies, 1, x) /\ localHostId # x /\ NoConfig(replies, x)
    BY <1>1 DEF KnownNowhere, NoConfig, NoConfigUpTo
  <2>2. QED
    BY <1>1, <1>3, <2>1 DEF KnownNowhere
<1>5. StartOnce'
  BY <1>1, <1>2 DEF RunParts, StartOnce
<1>6. FreshKept'
  <2>1. ASSUME NEW g \in HostId, startPc'[g] \in {"idle", "keygen", "token", "register"}
        PROVE  KnownNowhere(g)'
    BY <2>1, <1>4 DEF RunParts, FreshKept
  <2>2. ASSUME NEW g \in HostId, InSeq(requests', g)
        PROVE  KnownNowhere(g)' /\ g \in directory'
    BY <2>2, <1>2, <1>4 DEF RunParts, FreshKept
  <2>3. ASSUME NEW j \in 1..Len(replies'), replies'[j].kind = "startDaemon"
        PROVE  ReplyFresh(j)'
    <3>1. replies'[j] = replies[j + 1] /\ j + 1 \in 2..Len(replies)
      BY <1>1
    <3>2. PICK g \in HostId : g = replies[j + 1].id
      BY <2>3, <3>1 DEF TypeOK, Reply
    <3>3. ReplyFresh(j + 1)
      BY <2>3, <3>1 DEF RunParts, FreshKept
    <3>4. NoConfigUpTo(replies, j, g) /\ g # localHostId /\ g \notin deletes
      BY <3>2, <3>3 DEF ReplyFresh
    <3>5. NoConfigUpTo(replies, 1, g)
      BY <3>1, <3>4 DEF NoConfigUpTo
    <3>6. g # localHostId' /\ g \notin deletes'
      BY <1>3, <3>4, <3>5
    <3>7. NoConfigUpTo(replies', j - 1, g)
      BY <1>1, <3>1, <3>4
    <3>8. replies[j + 1].result # "OK" => KnownNowhere(g)'
      <4> SUFFICES ASSUME replies[j + 1].result # "OK"
                   PROVE  KnownNowhere(g)'
        OBVIOUS
      <4>1. KnownNowhere(g)
        BY <3>2, <3>3 DEF ReplyFresh
      <4>2. QED
        BY <4>1, <1>4
    <3>9. replies'[j].id = g /\ replies'[j].result = replies[j + 1].result
      BY <3>1, <3>2
    <3>10. QED
      BY <3>6, <3>7, <3>8, <3>9 DEF ReplyFresh
  <2>4. QED
    BY <2>1, <2>2, <2>3 DEF FreshKept
<1>7. StartedKept'
  <2> SUFFICES ASSUME daemonState = "STARTED"
               PROVE  StartedKept'
    BY DEF StartedKept
  <2>1. ASSUME NEW i \in 1..Len(replies'),
               replies'[i].kind = "stopDaemon", replies'[i].result = "OK"
        PROVE  \E j \in i+1..Len(replies') : IsStart(replies'[j], configId')
    <3>1. PICK j \in (i+1)+1..Len(replies) : IsStart(replies[j], configId)
      BY <1>1, <2>1 DEF RunParts, StartedKept
    <3>2. j - 1 \in i+1..Len(replies') /\ replies'[j - 1] = replies[j]
      BY <1>1, <3>1
    <3>3. QED
      BY <3>1, <3>2
  <2>2. QED
    BY <2>1 DEF RunParts, StartedKept
<1>8. QED
  BY <1>5, <1>6, <1>7 DEF RunParts


(* The daemon serves a stop, config or update request: it queues a reply  *)
(* that is no start, a config reply names the host it runs as, and it     *)
(* stays STARTED only when the reply is no successful stop.               *)
LEMMA ServeStep ==
    ASSUME TypeOK, RunParts, requests # << >>, requests' = Tail(requests),
           Head(requests).kind # "startDaemon",
           NEW n, n.kind # "startDaemon", replies' = Append(replies, n),
           n.kind = "getDaemonConfig" => n.config = configId,
           daemonState' = "STARTED" =>
               daemonState = "STARTED" /\ ~(n.kind = "stopDaemon" /\ n.result = "OK"),
           UNCHANGED <<startPc, configId, localHostId, deletes, directory>>
    PROVE  RunParts'
<1>1. /\ Len(replies) \in Nat
      /\ Len(replies') = Len(replies) + 1
      /\ replies'[Len(replies) + 1] = n
      /\ \A i \in 1..Len(replies) : replies'[i] = replies[i]
  BY AppendIndex DEF TypeOK
<1>2. \A g : /\ InSeq(requests', g) => InSeq(requests, g)
             /\ InSeq(replies', g) <=> InSeq(replies, g)
             /\ NoConfig(replies', g) <=> NoConfig(replies, g) /\ (n.kind = "getDaemonConfig" => n.config # g)
             /\ \A k \in 0..Len(replies) : NoConfigUpTo(replies', k, g) <=> NoConfigUpTo(replies, k, g)
  BY TailStarts, AppendStarts DEF TypeOK, IsStart
<1>3. StartsDistinct(requests') /\ StartsDistinct(replies')
  BY TailStarts, AppendStarts DEF TypeOK, RunParts, StartOnce
<1>4. \A x \in HostId : KnownNowhere(x) => KnownNowhere(x)'
  BY <1>2 DEF KnownNowhere
<1>5. StartOnce'
  BY <1>2, <1>3 DEF RunParts, StartOnce
<1>6. FreshKept'
  <2>1. ASSUME NEW j \in 1..Len(replies'), replies'[j].kind = "startDaemon"
        PROVE  ReplyFresh(j)'
    <3>1. j \in 1..Len(replies) /\ replies'[j] = replies[j]
      BY <1>1, <2>1
    <3>2. PICK g \in HostId : g = replies[j].id
      BY <2>1, <3>1 DEF TypeOK, Reply
    <3>3. ReplyFresh(j)
      BY <2>1, <3>1 DEF RunParts, FreshKept
    <3>4. NoConfigUpTo(replies', j - 1, g)
      <4>1. NoConfigUpTo(replies, j - 1, g)
        BY <3>2, <3>3 DEF ReplyFresh
      <4>2. j - 1 \in 0..Len(replies)
        BY <1>1, <3>1
      <4>3. QED
        BY <1>2, <4>1, <4>2
    <3>5. replies[j].result # "OK" => KnownNowhere(g)'
      BY <1>4, <3>2, <3>3 DEF ReplyFresh
    <3>6. QED
      BY <3>1, <3>2, <3>3, <3>4, <3>5 DEF ReplyFresh
  <2>2. QED
    BY <1>2, <1>4, <2>1 DEF RunParts, FreshKept
<1>7. StartedKept'
  <2> SUFFICES ASSUME daemonState' = "STARTED"
               PROVE  StartedKept'
    BY DEF StartedKept
  <2>1. ASSUME NEW i \in 1..Len(replies'),
               replies'[i].kind = "stopDaemon", replies'[i].result = "OK"
        PROVE  \E j \in i+1..Len(replies') : IsStart(replies'[j], configId')
    <3>1. i \in 1..Len(replies) /\ replies'[i] = replies[i]
      BY <1>1, <2>1
    <3>2. PICK j \in i+1..Len(replies) : IsStart(replies[j], configId)
      BY <2>1, <3>1 DEF RunParts, StartedKept
    <3>3. QED
      BY <1>1, <3>2
  <2>2. QED
    BY <2>1 DEF RunParts, StartedKept
<1>8. QED
  BY <1>5, <1>6, <1>7 DEF RunParts


(* The daemon serves the startDaemon call of h.  h was registered and is  *)
(* known nowhere, so the daemon may run as h, and the start reply it      *)
(* queues is fresh; a failed start leaves h known nowhere.                *)
LEMMA StartServeStep ==
    ASSUME TypeOK, RunParts, requests # << >>, requests' = Tail(requests),
           Head(requests).kind = "startDaemon",
           NEW result,
           replies' = Append(replies, [kind |-> "startDaemon", id |-> Head(requests).id,
                                       result |-> result]),
           IF result = "OK"
             THEN configId' = Head(requests).id /\ daemonState' = "STARTED"
             ELSE UNCHANGED <<configId, daemonState>>,
           UNCHANGED <<startPc, localHostId, deletes, directory>>
    PROVE  RunParts'
<1> DEFINE n == [kind |-> "startDaemon", id |-> Head(requests).id, result |-> result]
<1>1. PICK h \in HostId : h = Head(requests).id
  BY DEF TypeOK, Request
<1>2. /\ Len(replies) \in Nat
      /\ Len(replies') = Len(replies) + 1
      /\ replies'[Len(replies) + 1] = n
      /\ \A i \in 1..Len(replies) : replies'[i] = replies[i]
  BY AppendIndex DEF TypeOK
<1>3. /\ IsStart(Head(requests), h) /\ InSeq(requests, h)
      /\ ~InSeq(requests', h) /\ ~InSeq(replies, h)
      /\ KnownNowhere(h) /\ h \in directory /\ startPc[h] = "daemon"
  <2>1. Head(requests) = requests[1] /\ Len(requests) \in Nat \ {0}
    BY TailIndex DEF TypeOK
  <2>2. IsStart(Head(requests), h) /\ InSeq(requests, h)
    BY <1>1, <2>1 DEF IsStart, InSeq
  <2>3. ~InSeq(requests', h)
    BY <2>2, TailStarts DEF TypeOK, RunParts, StartOnce
  <2>4. QED
    BY <2>2, <2>3 DEF RunParts, StartOnce, FreshKept
<1>4. \A g : /\ InSeq(requests', g) => InSeq(requests, g)
             /\ InSeq(replies', g) <=> InSeq(replies, g) \/ g = h
             /\ NoConfig(replies', g) <=> NoConfig(replies, g)
             /\ \A k \in 0..Len(replies) : NoConfigUpTo(replies', k, g) <=> NoConfigUpTo(replies, k, g)
  <2> SUFFICES ASSUME NEW g
               PROVE  /\ InSeq(requests', g) => InSeq(requests, g)
                      /\ InSeq(replies', g) <=> InSeq(replies, g) \/ g = h
                      /\ NoConfig(replies', g) <=> NoConfig(replies, g)
                      /\ \A k \in 0..Len(replies) :
                             NoConfigUpTo(replies', k, g) <=> NoConfigUpTo(replies, k, g)
    OBVIOUS
  <2>1. InSeq(requests', g) => InSeq(requests, g)
    BY TailStarts DEF TypeOK
  <2>2. /\ InSeq(replies', g) <=> InSeq(replies, g) \/ IsStart(n, g)
        /\ NoConfig(replies', g) <=> NoConfig(replies, g) /\ (n.kind = "getDaemonConfig" => n.config # g)
        /\ \A k \in 0..Len(replies) :
               NoConfigUpTo(replies', k, g) <=> NoConfigUpTo(replies, k, g)
    BY AppendStarts DEF TypeOK
  <2>3. IsStart(n, g) <=> g = h
    BY <1>1 DEF IsStart
  <2>4. QED
    BY <2>1, <2>2, <2>3
<1>5. StartsDistinct(requests') /\ StartsDistinct(replies')
  BY <1>1, <1>3, TailStarts, AppendStarts DEF TypeOK, RunParts, StartOnce
<1>6. configId' \in {configId, h} /\ (configId' = h => result = "OK")
      /\ (result # "OK" => configId' = configId)
  <2>1. CASE result = "OK"
    BY <1>1, <2>1
  <2>2. CASE result # "OK"
    BY <1>3, <2>2 DEF KnownNowhere
  <2>3. QED
    BY <2>1, <2>2
<1>7. \A x \in HostId : KnownNowhere(x) /\ x # h => KnownNowhere(x)'
  BY <1>4, <1>6 DEF KnownNowhere
<1>8. StartOnce'
  BY <1>3, <1>4, <1>5 DEF RunParts, StartOnce
<1>9. FreshKept'
  <2>1. ASSUME NEW g \in HostId, startPc'[g] \in {"idle", "keygen", "token", "register"}
        PROVE  KnownNowhere(g)'
    BY <2>1, <1>3, <1>7 DEF RunParts, FreshKept
  <2>2. ASSUME NEW g \in HostId, InSeq(requests', g)
        PROVE  KnownNowhere(g)' /\ g \in directory'
    BY <2>2, <1>3, <1>4, <1>7 DEF RunParts, FreshKept
  <2>3. ASSUME NEW j \in 1..Len(replies), replies'[j].kind = "startDaemon"
        PROVE  ReplyFresh(j)'
    <3>1. replies'[j] = replies[j]
      BY <1>2
    <3>2. PICK g \in HostId : g = replies[j].id
      BY <2>3, <3>1 DEF TypeOK, Reply
    <3>3. ReplyFresh(j) /\ g # h
      BY <2>3, <3>1, <3>2, <1>3 DEF RunParts, FreshKept, InSeq, IsStart
    <3>4. NoConfigUpTo(replies', j - 1, g)
      <4>1. NoConfigUpTo(replies, j - 1, g)
        BY <3>2, <3>3 DEF ReplyFresh
      <4>2. j - 1 \in 0..Len(replies)
        BY <2>3, <1>2
      <4>3. QED
        BY <1>4, <4>1, <4>2
    <3>5. replies[j].result # "OK" => KnownNowhere(g)'
      BY <1>7, <3>2, <3>3 DEF ReplyFresh
    <3>6. QED
      BY <3>1, <3>2, <3>3, <3>4, <3>5 DEF ReplyFresh
  <2>4. ASSUME NEW j \in 1..Len(replies'), j = Len(replies) + 1
        PROVE  ReplyFresh(j)'
    <3>1. h # localHostId' /\ h \notin deletes'
      BY <1>3 DEF KnownNowhere
    <3>2. NoConfigUpTo(replies', Len(replies), h)
      <4>1. NoConfigUpTo(replies, Len(replies), h)
        BY <1>3 DEF KnownNowhere, NoConfig
      <4>2. Len(replies) \in 0..Len(replies)
        BY <1>2
      <4>3. QED
        BY <1>4, <4>1, <4>2
    <3>3. result # "OK" => KnownNowhere(h)'
      BY <1>3, <1>4, <1>6 DEF KnownNowhere
    <3>4. replies'[j].id = h /\ replies'[j].result = result
      <4>1. replies'[j] = n
        BY <1>2, <2>4
      <4>2. QED
        BY <1>1, <4>1
    <3>5. QED
      BY <2>4, <3>1, <3>2, <3>3, <3>4 DEF ReplyFresh
  <2>5. \A j \in 1..Len(replies') : replies'[j].kind = "startDaemon" => ReplyFresh(j)'
    <3> SUFFICES ASSUME NEW j \in 1..Len(replies'), replies'[j].kind = "startDaemon"
                 PROVE  ReplyFresh(j)'
      OBVIOUS
    <3>1. j \in 1..Len(replies) \/ j = Len(replies) + 1
      BY <1>2
    <3>2. QED
      BY <3>1, <2>3, <2>4
  <2>6. QED
    BY <2>1, <2>2, <2>5 DEF FreshKept
<1>10. StartedKept'
  <2> SUFFICES ASSUME daemonState' = "STARTED"
               PROVE  StartedKept'
    BY DEF StartedKept
  <2>1. CASE result = "OK"
    <3>1. configId' = h /\ h \in directory' /\ h \notin deletes'
      BY <1>1, <1>3, <2>1 DEF KnownNowhere
    <3>2. \A i \in 1..Len(replies') : i < Len(replies) + 1 =>
              \E j \in i+1..Len(replies') : IsStart(replies'[j], configId')
      BY <1>1, <1>2, <3>1 DEF IsStart
    <3>3. replies'[Len(replies) + 1].kind # "stopDaemon"
      BY <1>2
    <3>4. QED
      BY <1>2, <3>1, <3>2, <3>3 DEF StartedKept
  <2>2. CASE result # "OK"
    <3>1. daemonState = "STARTED" /\ configId' = configId
      BY <2>2
    <3>2. ASSUME NEW i \in 1..Len(replies'),
                 replies'[i].kind = "stopDaemon", replies'[i].result = "OK"
          PROVE  \E j \in i+1..Len(replies') : IsStart(replies'[j], configId')
      <4>1. i \in 1..Len(replies) /\ replies'[i] = replies[i]
        BY <1>2, <3>2
      <4>2. PICK j \in i+1..Len(replies) : IsStart(replies[j], configId)
        BY <3>1, <3>2, <4>1 DEF RunParts, StartedKept
      <4>3. QED
        BY <1>2, <3>1, <4>2
    <3>3. QED
      BY <3>1, <3>2 DEF RunParts, StartedKept
  <2>3. QED
    BY <2>1, <2>2
<1>11. QED
  BY <1>8, <1>9, <1>10 DEF RunParts


LEMMA NextRun == RunInv /\ [Next]_vars => RunParts'
<1> SUFFICES ASSUME TypeOK, RunParts, [Next]_vars PROVE RunParts'
  BY DEF RunInv, RunParts
<1> USE DEF webVars, daemonVars, dirVars
(* A step that changes none of the variables RunParts reads keeps it.      *)
<1>0. ASSUME UNCHANGED <<startPc, requests, replies, configId, localHostId,
                         deletes, directory, daemonState>>
      PROVE  RunParts'
  <2>1. StartOnce'
    BY <1>0 DEF RunParts, StartOnce, InSeq, StartsDistinct, IsStart
  <2>2. \A x : KnownNowhere(x)' <=> KnownNowhere(x)
    BY <1>0 DEF KnownNowhere, NoConfig, NoConfigUpTo
  <2>3. \A j : ReplyFresh(j)' <=> ReplyFresh(j)
    BY <1>0, <2>2 DEF ReplyFresh, NoConfigUpTo
  <2>4. FreshKept'
    BY <1>0, <2>2, <2>3 DEF RunParts, FreshKept, InSeq, IsStart
  <2>5. StartedKept'
    BY <1>0 DEF RunParts, StartedKept, IsStart
  <2>6. QED
    BY <2>1, <2>4, <2>5 DEF RunParts
<1>1. CASE UNCHANGED vars
  BY <1>0, <1>1 DEF vars
<1>2. ASSUME NEW h \in HostId, Start(h) \/ OnKeyGenerated(h) \/ DoRegisterHost(h)
                                 \/ OnTokenError(h)
      PROVE  RunParts'
  <2>1. CASE Start(h)
    BY <2>1, PhaseStep DEF Start
  <2>2. CASE OnKeyGenerated(h)
    BY <2>2, PhaseStep DEF OnKeyGenerated
  <2>3. CASE DoRegisterHost(h)
    BY <2>3, PhaseStep DEF DoRegisterHost
  <2>4. CASE OnTokenError(h)
    BY <2>4, PhaseStep DEF OnTokenError
  <2>5. QED
    BY <1>2, <2>1, <2>2, <2>3, <2>4
<1>3. ASSUME NEW h \in HostId, OnRegistered(h) PROVE RunParts'
  <2>1. directory \subseteq directory'
    BY <1>3 DEF OnRegistered
  <2>2. QED
    BY <1>3, <2>1, RegisterStep DEF OnRegistered
<1>4. ASSUME NEW h \in Host, DirectoryDelete(h) PROVE RunParts'
  BY <1>4, DeleteStep
<1>5. CASE Stop
  BY <1>5, RequestStep DEF Stop
<1>6. CASE UpdatePin
  BY <1>6, RequestStep DEF UpdatePin
<1>7. CASE GetLocalHostStateAndId
  <2>1. CASE pluginSupported
    BY <1>7, <2>1, RequestStep DEF GetLocalHostStateAndId
  <2>2. CASE ~pluginSupported
    BY <1>0, <1>7, <2>2 DEF GetLocalHostStateAndId
  <2>3. QED
    BY <2>1, <2>2
<1>8. CASE Finished
  BY <1>8, <1>1 DEF Finished
<1>9. CASE OnStarted
  BY <1>9, StartedStep
<1>10. CASE OnStopped
  BY <1>10, StoppedStep
<1>11. CASE OnConfigForState
  BY <1>11, PopStep DEF OnConfigForState
<1>12. CASE OnConfigForPin
  <2>1. \/ requests' = requests
        \/ \E m : m.kind # "startDaemon" /\ requests' = Append(requests, m)
    BY <1>12 DEF OnConfigForPin
  <2>2. QED
    BY <1>12, <2>1, PopStep DEF OnConfigForPin
<1>13. CASE OnPinUpdated
  BY <1>13, PopStep DEF OnPinUpdated
<1>14. CASE DaemonStep
  <2> DEFINE r == Head(requests)
  <2>1. CASE r.kind = "startDaemon"
    <3>1. PICK result : /\ replies' = Append(replies, [kind |-> "startDaemon",
                                                        id |-> r.id, result |-> result])
                        /\ IF result = "OK"
                             THEN configId' = r.id /\ daemonState' = "STARTED"
                             ELSE UNCHANGED <<configId, daemonState>>
      BY <1>14, <2>1 DEF DaemonStep
    <3>2. QED
      BY <1>14, <2>1, <3>1, StartServeStep DEF DaemonStep
  <2>2. CASE r.kind = "stopDaemon"
    <3>1. PICK result \in {"OK", "FAILED"} :
              /\ replies' = Append(replies, [kind |-> "stopDaemon", result |-> result])
              /\ daemonState' = IF result = "OK" THEN "STOPPED" ELSE daemonState
      BY <1>14, <2>2 DEF DaemonStep
    <3>2. QED
      BY <1>14, <2>2, <3>1, ServeStep DEF DaemonStep
  <2>3. CASE r.kind = "getDaemonConfig"
    BY <1>14, <2>3, ServeStep DEF DaemonStep
  <2>4. CASE r.kind = "updateDaemonConfig"
    <3>1. PICK result : replies' = Append(replies, [kind |-> "updateDaemonConfig",
                                                     result |-> result])
      BY <1>14, <2>4 DEF DaemonStep
    <3>2. QED
      BY <1>14, <2>4, <3>1, ServeStep DEF DaemonStep
  <2>5. QED
    BY <1>14, <2>1, <2>2, <2>3, <2>4 DEF DaemonStep
<1>15. QED
  BY <1>1, <1>2, <1>3, <1>4, <1>5, <1>6, <1>7, <1>8, <1>9, <1>10, <1>11,
     <1>12, <1>13, <1>14 DEF Next

(* The daemon runs only as a host the directory lists and no deletion is  *)
(* pending for: the start flow registers a fresh id before startDaemon,   *)
(* and onStopped unregisters the local host only after the daemon has     *)
(* stopped.                                                                *)
THEOREM RunningHostRegisteredHolds == Spec => []RunningHostRegistered
<1>1. Spec => []RunInv
  <2>1. Init => RunInv
    BY InitTypeOK, InitRun DEF RunInv, RunParts
  <2>2. RunInv /\ [Next]_vars => RunInv'
    BY NextTypeOK, NextRun DEF RunInv, RunParts
  <2>3. QED
    BY <2>1, <2>2, PTL DEF Spec
<1>2. RunInv => RunningHostRegistered
  BY DEF RunInv, StartedKept, RunningHostRegistered
<1>3. QED
  BY <1>1, <1>2, PTL

=============================================================================
