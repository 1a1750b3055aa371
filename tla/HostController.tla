--------------------------- MODULE HostController ---------------------------
(***************************************************************************)
(* remoting.HostController (src/remoting/webapp/host_controller.js): the   *)
(* web-app side of the Chromoting host.  Its operations are chains of      *)
(* asynchronous callbacks that touch three pieces of state:                *)
(*   - this.localHostId_, kept by the web app;                             *)
(*   - the host daemon (config file host_id, PIN hash, running or not),    *)
(*     reached through the plugin, whose calls are executed in order by    *)
(*     the daemon controller and whose replies run back in the same order; *)
(*   - the host directory service, reached by XHR (register / unregister). *)
(* Each start() draws a fresh host id; its progress is startPc[id].        *)
(* The daemon and the directory are environment actions; every JS          *)
(* callback is one action.                                                 *)
(***************************************************************************)
EXTENDS Naturals, Sequences

CONSTANTS
    HostId,         \* ids generateUuid() may return (model values)
    Preset,         \* id of a host an earlier page configured, if any
    NoHost,         \* null: no localHostId_, no host_id in the config
    MaxCalls,       \* bound on the operations the web app calls
    Serial,         \* TRUE: the caller never overlaps two operations
    LossyNetwork    \* TRUE: an XHR may fail after the server applied it

ASSUME HostIdAssumption == NoHost \notin HostId /\ Preset \notin HostId \cup {NoHost}
ASSUME MaxCallsAssumption == MaxCalls \in Nat
ASSUME FlagsAssumption == Serial \in BOOLEAN /\ LossyNetwork \in BOOLEAN

VARIABLES
    localHostId,     \* this.localHostId_
    pluginSupported, \* this.pluginSupported_
    startPc,         \* startPc[h]: where the start() that drew id h is
    requests,        \* plugin calls queued to the daemon controller
    replies,         \* daemon replies whose JS callback has not run yet
    daemonState,     \* plugin_.daemonState
    configId,        \* host_id of the daemon config file
    hashSalt,        \* host id the config's host_secret_hash was made with
    directory,       \* host ids registered in the directory
    deletes,         \* unregisterHostById() requests in flight
    calls            \* operations called so far

webVars == <<localHostId, pluginSupported, startPc, calls>>
daemonVars == <<requests, replies, daemonState, configId, hashSalt>>
dirVars == <<directory, deletes>>
vars == <<webVars, daemonVars, dirVars>>

-----------------------------------------------------------------------------
(* remoting.HostController.AsyncResult *)
AsyncResult == {"OK", "FAILED", "CANCELLED", "FAILED_DIRECTORY"}

(* Phases of a start(): the callback it waits for, or the result passed  *)
(* to its callback once it has finished.                                  *)
InFlight == {"keygen", "token", "register", "daemon"}
StartPhase == {"idle"} \cup InFlight \cup AsyncResult
Failure == AsyncResult \ {"OK"}

DaemonStates == {"NOT_INSTALLED", "STOPPED", "STARTED"}
(* generateUuid() never returns an id it returned before, on this page or *)
(* on the earlier one that configured the daemon.                           *)
Host == HostId \cup {Preset}
MaybeHost == Host \cup {NoHost}

(* The two callers of getDaemonConfig: updatePin and getLocalHostStateAndId *)
ConfigUser == {"updatePin", "getLocalHostStateAndId"}

Request ==
         [kind : {"startDaemon"}, id : HostId]
    \cup [kind : {"stopDaemon"}]
    \cup [kind : {"getDaemonConfig"}, by : ConfigUser]
    \cup [kind : {"updateDaemonConfig"}, salt : MaybeHost]

Reply ==
         [kind : {"startDaemon"}, id : HostId, result : AsyncResult]
    \cup [kind : {"stopDaemon"}, result : AsyncResult]
    \cup [kind : {"getDaemonConfig"}, by : ConfigUser, config : MaybeHost]
    \cup [kind : {"updateDaemonConfig"}, result : AsyncResult]

TypeOK ==
    /\ localHostId \in MaybeHost
    /\ pluginSupported \in BOOLEAN
    /\ startPc \in [HostId -> StartPhase]
    /\ requests \in Seq(Request)
    /\ replies \in Seq(Reply)
    /\ daemonState \in DaemonStates
    /\ configId \in MaybeHost
    /\ hashSalt \in MaybeHost
    /\ directory \in SUBSET Host
    /\ deletes \in SUBSET Host
    /\ calls \in 0..MaxCalls

-----------------------------------------------------------------------------
(* Nothing of the web app is in progress.                                 *)
Quiet ==
    /\ \A h \in HostId : startPc[h] \notin InFlight
    /\ requests = << >>
    /\ replies = << >>

(* The web app may call an operation: within the bound and, when the      *)
(* caller serialises its operations, only when nothing is in progress.     *)
MayCall ==
    /\ calls < MaxCalls
    /\ Serial => Quiet

Call == calls' = calls + 1

(* The page has just constructed the HostController; the daemon may       *)
(* already be installed, configured with the host Preset and running.     *)
Init ==
    /\ localHostId = NoHost
    /\ pluginSupported \in BOOLEAN
    /\ startPc = [h \in HostId |-> "idle"]
    /\ requests = << >>
    /\ replies = << >>
    /\ configId \in {NoHost, Preset}
    /\ hashSalt = configId
    /\ daemonState \in IF configId = NoHost THEN {"NOT_INSTALLED", "STOPPED"}
                                            ELSE {"STOPPED", "STARTED"}
    /\ directory = IF configId = NoHost THEN {} ELSE {configId}
    /\ deletes = {}
    /\ calls = 0

-----------------------------------------------------------------------------
(* start(): draw a fresh id with generateUuid() and ask the plugin for a  *)
(* key pair.                                                              *)
Start(h) ==
    /\ MayCall
    /\ pluginSupported
    /\ startPc[h] = "idle"
    /\ h \notin directory \cup {configId}
    /\ startPc' = [startPc EXCEPT ![h] = "keygen"]
    /\ Call
    /\ UNCHANGED <<localHostId, pluginSupported, daemonVars, dirVars>>

(* onKeyGenerated: ask remoting.oauth2 for a token.                       *)
OnKeyGenerated(h) ==
    /\ startPc[h] = "keygen"
    /\ startPc' = [startPc EXCEPT ![h] = "token"]
    /\ UNCHANGED <<localHostId, pluginSupported, calls, daemonVars, dirVars>>

(* callWithToken success, doRegisterHost: post the registration.          *)
DoRegisterHost(h) ==
    /\ startPc[h] = "token"
    /\ startPc' = [startPc EXCEPT ![h] = "register"]
    /\ UNCHANGED <<localHostId, pluginSupported, calls, daemonVars, dirVars>>

(* callWithToken error: callback(FAILED).                                 *)
OnTokenError(h) ==
    /\ startPc[h] = "token"
    /\ startPc' = [startPc EXCEPT ![h] = "FAILED"]
    /\ UNCHANGED <<localHostId, pluginSupported, calls, daemonVars, dirVars>>

(* A variant of onRegistered whose success branch never calls            *)
(* startDaemon.                                                             *)
OnRegisteredNoStartDaemon(h) ==
    /\ startPc[h] = "register"
    /\ \/ /\ directory' = directory \cup {h}
          /\ startPc' = [startPc EXCEPT ![h] = "daemon"]
       \/ /\ directory' \in IF LossyNetwork THEN {directory, directory \cup {h}}
                                            ELSE {directory}
          /\ startPc' = [startPc EXCEPT ![h] = "FAILED_DIRECTORY"]
    /\ UNCHANGED <<localHostId, pluginSupported, calls, deletes>>
    /\ UNCHANGED <<requests, replies, daemonState, configId, hashSalt>>

(* onRegistered: on status 200 the directory holds h and the daemon is    *)
(* asked to start with h; otherwise callback(FAILED_DIRECTORY).  Over a   *)
(* lossy network the server may have registered h all the same.          *)
OnRegistered(h) ==
    /\ startPc[h] = "register"
    /\ \/ /\ directory' = directory \cup {h}
          /\ startPc' = [startPc EXCEPT ![h] = "daemon"]
          /\ requests' = Append(requests, [kind |-> "startDaemon", id |-> h])
       \/ /\ directory' \in IF LossyNetwork THEN {directory, directory \cup {h}}
                                            ELSE {directory}
          /\ startPc' = [startPc EXCEPT ![h] = "FAILED_DIRECTORY"]
          /\ UNCHANGED requests
    /\ UNCHANGED <<localHostId, pluginSupported, calls, deletes>>
    /\ UNCHANGED <<replies, daemonState, configId, hashSalt>>

(* Variants of onStarted: the failure branch without the                 *)
(* unregisterHostById() call, and the OK branch without the assignment    *)
(* to localHostId_.                                                        *)
OnStartedKeepsRegistration ==
    /\ replies # << >>
    /\ Head(replies).kind = "startDaemon"
    /\ LET h == Head(replies).id
           result == Head(replies).result
       IN /\ startPc' = [startPc EXCEPT ![h] = result]
          /\ localHostId' = IF result = "OK" THEN h ELSE NoHost
    /\ replies' = Tail(replies)
    /\ UNCHANGED <<pluginSupported, calls, dirVars>>
    /\ UNCHANGED <<requests, daemonState, configId, hashSalt>>

OnStartedKeepsLocalHost ==
    /\ replies # << >>
    /\ Head(replies).kind = "startDaemon"
    /\ LET h == Head(replies).id
           result == Head(replies).result
       IN /\ startPc' = [startPc EXCEPT ![h] = result]
          /\ IF result = "OK"
               THEN UNCHANGED <<localHostId, deletes>>
               ELSE /\ localHostId' = NoHost
                    /\ deletes' = deletes \cup {h}
    /\ replies' = Tail(replies)
    /\ UNCHANGED <<pluginSupported, calls, directory>>
    /\ UNCHANGED <<requests, daemonState, configId, hashSalt>>

(* onStarted: on OK remember h as the local host, otherwise forget the    *)
(* local host and unregister h; then callback(result).                    *)
OnStarted ==
    /\ replies # << >>
    /\ Head(replies).kind = "startDaemon"
    /\ LET h == Head(replies).id
           result == Head(replies).result
       IN /\ startPc' = [startPc EXCEPT ![h] = result]
          /\ IF result = "OK"
               THEN /\ localHostId' = h
                    /\ UNCHANGED deletes
               ELSE /\ localHostId' = NoHost
                    /\ deletes' = deletes \cup {h}
    /\ replies' = Tail(replies)
    /\ UNCHANGED <<pluginSupported, calls, directory>>
    /\ UNCHANGED <<requests, daemonState, configId, hashSalt>>

(* stop(): plugin_.stopDaemon(onStopped).                                 *)
Stop ==
    /\ MayCall
    /\ pluginSupported
    /\ requests' = Append(requests, [kind |-> "stopDaemon"])
    /\ Call
    /\ UNCHANGED <<localHostId, pluginSupported, startPc, dirVars>>
    /\ UNCHANGED <<replies, daemonState, configId, hashSalt>>

(* Variants of onStopped: without the test that localHostId_ is set, and  *)
(* without the test that the daemon reported OK.                           *)
OnStoppedNoNullCheck ==
    /\ replies # << >>
    /\ Head(replies).kind = "stopDaemon"
    /\ deletes' = IF Head(replies).result = "OK"
                    THEN deletes \cup {localHostId}
                    ELSE deletes
    /\ replies' = Tail(replies)
    /\ UNCHANGED <<webVars, directory>>
    /\ UNCHANGED <<requests, daemonState, configId, hashSalt>>

OnStoppedIgnoresResult ==
    /\ replies # << >>
    /\ Head(replies).kind = "stopDaemon"
    /\ deletes' = IF localHostId # NoHost
                    THEN deletes \cup {localHostId}
                    ELSE deletes
    /\ replies' = Tail(replies)
    /\ UNCHANGED <<webVars, directory>>
    /\ UNCHANGED <<requests, daemonState, configId, hashSalt>>

(* onStopped: on OK unregister localHostId_ if there is one.              *)
OnStopped ==
    /\ replies # << >>
    /\ Head(replies).kind = "stopDaemon"
    /\ deletes' = IF Head(replies).result = "OK" /\ localHostId # NoHost
                    THEN deletes \cup {localHostId}
                    ELSE deletes
    /\ replies' = Tail(replies)
    /\ UNCHANGED <<webVars, directory>>
    /\ UNCHANGED <<requests, daemonState, configId, hashSalt>>

(* updatePin(): plugin_.getDaemonConfig(onConfig).                        *)
UpdatePin ==
    /\ MayCall
    /\ pluginSupported
    /\ requests' = Append(requests, [kind |-> "getDaemonConfig", by |-> "updatePin"])
    /\ Call
    /\ UNCHANGED <<localHostId, pluginSupported, startPc, dirVars>>
    /\ UNCHANGED <<replies, daemonState, configId, hashSalt>>

(* Variant of updatePin's onConfig that salts the new hash with           *)
(* localHostId_ instead of the config's host_id.                           *)
OnConfigForPinUsesLocalHostId ==
    /\ replies # << >>
    /\ Head(replies).kind = "getDaemonConfig"
    /\ Head(replies).by = "updatePin"
    /\ requests' = IF Head(replies).config = NoHost
                     THEN requests
                     ELSE Append(requests, [kind |-> "updateDaemonConfig",
                                            salt |-> localHostId])
    /\ replies' = Tail(replies)
    /\ UNCHANGED <<webVars, dirVars, daemonState, configId, hashSalt>>

(* updatePin's onConfig: callback(FAILED) without a host_id, otherwise    *)
(* updateDaemonConfig with getPinHash(host_id, newPin).                   *)
OnConfigForPin ==
    /\ replies # << >>
    /\ Head(replies).kind = "getDaemonConfig"
    /\ Head(replies).by = "updatePin"
    /\ requests' = IF Head(replies).config = NoHost
                     THEN requests
                     ELSE Append(requests, [kind |-> "updateDaemonConfig",
                                            salt |-> Head(replies).config])
    /\ replies' = Tail(replies)
    /\ UNCHANGED <<webVars, dirVars, daemonState, configId, hashSalt>>

(* The callback of updateDaemonConfig: the caller's callback(result).     *)
OnPinUpdated ==
    /\ replies # << >>
    /\ Head(replies).kind = "updateDaemonConfig"
    /\ replies' = Tail(replies)
    /\ UNCHANGED <<webVars, dirVars, requests, daemonState, configId, hashSalt>>

(* getLocalHostStateAndId(): getDaemonConfig(onConfig); when the plugin   *)
(* call throws, onDone(NOT_IMPLEMENTED, null) at once.                    *)
GetLocalHostStateAndId ==
    /\ MayCall
    /\ requests' = IF pluginSupported
                     THEN Append(requests, [kind |-> "getDaemonConfig",
                                            by |-> "getLocalHostStateAndId"])
                     ELSE requests
    /\ Call
    /\ UNCHANGED <<localHostId, pluginSupported, startPc, dirVars>>
    /\ UNCHANGED <<replies, daemonState, configId, hashSalt>>

(* getLocalHostStateAndId's onConfig: localHostId_ = the config's host_id *)
(* or null, then onDone(state, localHostId_).                             *)
OnConfigForState ==
    /\ replies # << >>
    /\ Head(replies).kind = "getDaemonConfig"
    /\ Head(replies).by = "getLocalHostStateAndId"
    /\ localHostId' = Head(replies).config
    /\ replies' = Tail(replies)
    /\ UNCHANGED <<pluginSupported, startPc, calls, dirVars>>
    /\ UNCHANGED <<requests, daemonState, configId, hashSalt>>

-----------------------------------------------------------------------------
(* Environment: the daemon controller executes the oldest plugin call.    *)
DaemonStep ==
    /\ requests # << >>
    /\ LET r == Head(requests) IN
       \/ /\ r.kind = "startDaemon"
          /\ \E result \in {"OK", "FAILED", "CANCELLED"} :
                /\ replies' = Append(replies, [kind |-> "startDaemon", id |-> r.id,
                                               result |-> result])
                /\ IF result = "OK"
                     THEN /\ configId' = r.id
                          /\ hashSalt' = r.id
                          /\ daemonState' = "STARTED"
                     ELSE UNCHANGED <<configId, hashSalt, daemonState>>
       \/ /\ r.kind = "stopDaemon"
          /\ \E result \in {"OK", "FAILED"} :
                /\ result = "OK" => daemonState # "NOT_INSTALLED"
                /\ replies' = Append(replies, [kind |-> "stopDaemon", result |-> result])
                /\ daemonState' = IF result = "OK" THEN "STOPPED" ELSE daemonState
          /\ UNCHANGED <<configId, hashSalt>>
       \/ /\ r.kind = "getDaemonConfig"
          /\ replies' = Append(replies, [kind |-> "getDaemonConfig", by |-> r.by,
                                         config |-> configId])
          /\ UNCHANGED <<configId, hashSalt, daemonState>>
       \/ /\ r.kind = "updateDaemonConfig"
          /\ \E result \in {"OK", "FAILED"} :
                /\ result = "OK" => configId # NoHost
                /\ replies' = Append(replies, [kind |-> "updateDaemonConfig",
                                               result |-> result])
                /\ hashSalt' = IF result = "OK" THEN r.salt ELSE hashSalt
          /\ UNCHANGED <<configId, daemonState>>
    /\ requests' = Tail(requests)
    /\ UNCHANGED <<webVars, dirVars>>

(* Environment: the directory applies an unregisterHostById() request,    *)
(* or, over a lossy network, the request is lost.                         *)
DirectoryDelete(h) ==
    /\ h \in deletes
    /\ deletes' = deletes \ {h}
    /\ directory' \in IF LossyNetwork THEN {directory \ {h}, directory}
                                      ELSE {directory \ {h}}
    /\ UNCHANGED <<webVars, daemonVars>>

(* The web app has made its calls and every chain has run to its end.     *)
Finished ==
    /\ calls = MaxCalls
    /\ Quiet
    /\ deletes = {}
    /\ UNCHANGED vars

Next ==
    \/ \E h \in HostId :
          \/ Start(h) \/ OnKeyGenerated(h) \/ DoRegisterHost(h)
          \/ OnTokenError(h) \/ OnRegistered(h)
    \/ \E h \in Host : DirectoryDelete(h)
    \/ OnStarted \/ Stop \/ OnStopped
    \/ UpdatePin \/ OnConfigForPin \/ OnPinUpdated
    \/ GetLocalHostStateAndId \/ OnConfigForState
    \/ DaemonStep
    \/ Finished

(* Every asynchronous call is answered: generateKeyPair and callWithToken *)
(* call one of their callbacks, remoting.xhr calls back on every status   *)
(* (0 for a network error), the daemon controller executes every queued   *)
(* call and the page runs every reply's callback.  The user's calls get   *)
(* no fairness.                                                             *)
Fairness ==
    /\ \A h \in HostId :
          /\ WF_vars(OnKeyGenerated(h))
          /\ WF_vars(DoRegisterHost(h) \/ OnTokenError(h))
          /\ WF_vars(OnRegistered(h))
    /\ \A h \in Host : WF_vars(DirectoryDelete(h))
    /\ WF_vars(DaemonStep)
    /\ WF_vars(OnStarted \/ OnStopped \/ OnConfigForPin \/ OnPinUpdated
               \/ OnConfigForState)

Spec == Init /\ [][Next]_vars /\ Fairness

-----------------------------------------------------------------------------
(* A start() that reported failure to its caller leaves no registration   *)
(* of its host id behind: the directory no longer holds it, or an         *)
(* unregisterHostById() for it is on its way (onStarted, onRegistered).   *)
FailedStartUnregistered ==
    \A h \in HostId : startPc[h] \in Failure => h \notin directory \/ h \in deletes

(* While the daemon runs, the host it runs as is registered in the        *)
(* directory and nobody is unregistering it (start's onStarted, stop's    *)
(* onStopped, across any interleaving of the two).                        *)
RunningHostRegistered ==
    daemonState = "STARTED" => configId \in directory /\ configId \notin deletes

(* Once every daemon reply has run its callback, localHostId_ is null or  *)
(* the host_id of the daemon config (onStarted, getLocalHostStateAndId's  *)
(* onConfig): the web app's view of the local host is not stale.          *)
LocalHostIdMatchesConfig ==
    replies = << >> => localHostId \in {NoHost, configId}

(* Every start() eventually calls its callback with a result: no chain of *)
(* generateKeyPair, callWithToken, the registration XHR and startDaemon   *)
(* stops half-way, whatever the other operations do in between.           *)
StartEventuallyEnds ==
    \A h \in HostId : startPc[h] \in InFlight ~> startPc[h] \in AsyncResult

(* The PIN hash in the daemon config is salted with the config's own      *)
(* host_id, so that the PIN the user chose is accepted (updatePin,        *)
(* start's onRegistered).                                                  *)
PinHashMatchesHost ==
    configId # NoHost => hashSalt = configId

=============================================================================
