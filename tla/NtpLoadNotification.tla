------------------------- MODULE NtpLoadNotification -------------------------
(***************************************************************************)
(* The mobile New Tab Page's "loading complete" notification               *)
(* (mobile_ntp.js).  Every renderer of a section item calls                *)
(* trackImageLoad(url) for the item's icon; the page keeps the images      *)
(* still loading in imagesBeingLoaded, and when the load or error event    *)
(* of the last one empties that array, onInitialImageLoaded resets the     *)
(* flag finishedLoadingSendNotification to LOAD_DONE_NOTIFICATION_NOT_SENT *)
(* and calls sendNTPNotification(), which tells the browser process        *)
(* 'notifyNTPReady' (or 'NTPUnexpectedNavigation').                        *)
(*                                                                         *)
(* An image is identified by its URL; the Image objects alive are counted  *)
(* per URL in pendingEvents, one load-or-error event each.  The renderers  *)
(* run whenever the browser delivers section data, so trackImageLoad may   *)
(* interleave with any image event.  The wall clock of sendNTPNotification *)
(* is a nondeterministic "more than 100 ms since the last notification".   *)
(***************************************************************************)
EXTENDS Naturals, Sequences, SequencesExt

CONSTANTS
    Urls,       \* the icon URLs the renderers may track
    MaxTracks   \* bound on the calls of trackImageLoad

ASSUME MaxTracksAssumption == MaxTracks \in Nat

VARIABLES
    flag,              \* finishedLoadingSendNotification
    imagesBeingLoaded, \* the array, as the sequence of its images' URLs
    pendingEvents,     \* per URL, Image objects whose event has not fired
    notifyReady,       \* 'notifyNTPReady' messages sent so far
    unexpectedNav,     \* 'NTPUnexpectedNavigation' messages sent so far
    tracks             \* calls of trackImageLoad so far

vars == <<flag, imagesBeingLoaded, pendingEvents, notifyReady, unexpectedNav,
          tracks>>

(* SendNotificationType, lines 206-210.                                    *)
SendNotificationType == {"LOAD_NOT_DONE", "LOAD_DONE_NOTIFICATION_NOT_SENT",
                         "LOAD_DONE_NOTIFICATION_SENT"}

TypeOK ==
    /\ flag \in SendNotificationType
    /\ imagesBeingLoaded \in Seq(Urls)
    /\ pendingEvents \in [Urls -> 0..MaxTracks]
    /\ notifyReady \in Nat
    /\ unexpectedNav \in Nat
    /\ tracks \in 0..MaxTracks

Init ==
    /\ flag = "LOAD_NOT_DONE"
    /\ imagesBeingLoaded = << >>
    /\ pendingEvents = [u \in Urls |-> 0]
    /\ notifyReady = 0
    /\ unexpectedNav = 0
    /\ tracks = 0

-----------------------------------------------------------------------------
(* A variant of trackImageLoad without the early return once the load is *)
(* done.                                                                   *)
TrackImageLoadNoDoneGuard(u) ==
    /\ tracks < MaxTracks
    /\ tracks' = tracks + 1
    /\ IF u \in ToSet(imagesBeingLoaded)
         THEN UNCHANGED <<imagesBeingLoaded, pendingEvents>>
         ELSE /\ imagesBeingLoaded' = Append(imagesBeingLoaded, u)
              /\ pendingEvents' = [pendingEvents EXCEPT ![u] = @ + 1]
    /\ UNCHANGED <<flag, notifyReady, unexpectedNav>>

(* A variant of trackImageLoad without the loop that returns when an     *)
(* image of that URL is already loading.                                   *)
TrackImageLoadNoDedup(u) ==
    /\ tracks < MaxTracks
    /\ tracks' = tracks + 1
    /\ IF flag # "LOAD_NOT_DONE"
         THEN UNCHANGED <<imagesBeingLoaded, pendingEvents>>
         ELSE /\ imagesBeingLoaded' = Append(imagesBeingLoaded, u)
              /\ pendingEvents' = [pendingEvents EXCEPT ![u] = @ + 1]
    /\ UNCHANGED <<flag, notifyReady, unexpectedNav>>

(* trackImageLoad(url): nothing once the load is done or when an image of  *)
(* that URL is already loading; otherwise a new Image whose onload and     *)
(* onerror are onInitialImageLoaded is pushed on the array.                *)
TrackImageLoad(u) ==
    /\ tracks < MaxTracks
    /\ tracks' = tracks + 1
    /\ IF flag # "LOAD_NOT_DONE" \/ u \in ToSet(imagesBeingLoaded)
         THEN UNCHANGED <<imagesBeingLoaded, pendingEvents>>
         ELSE /\ imagesBeingLoaded' = Append(imagesBeingLoaded, u)
              /\ pendingEvents' = [pendingEvents EXCEPT ![u] = @ + 1]
    /\ UNCHANGED <<flag, notifyReady, unexpectedNav>>

(* The loop of onInitialImageLoaded from index i on: every element equal   *)
(* to url is spliced out, and i still advances past the element that the   *)
(* splice moved into position i.                                           *)
RECURSIVE SpliceLoop(_, _, _)
SpliceLoop(s, url, i) ==
    IF i > Len(s) THEN s
    ELSE IF s[i] = url THEN SpliceLoop(RemoveAt(s, i), url, i + 1)
    ELSE SpliceLoop(s, url, i + 1)

(* sendNTPNotification(), called with the flag f.  Line 452 compares the  *)
(* flag with LOAD_DONE_NOTIFICATION_SENT instead of assigning it, so the   *)
(* flag keeps the value it had.                                            *)
SendNTPNotification(f) ==
    /\ flag' = f
    /\ IF f = "LOAD_DONE_NOTIFICATION_NOT_SENT"
         THEN /\ notifyReady' = notifyReady + 1
              /\ UNCHANGED unexpectedNav
         ELSE /\ \E late \in BOOLEAN :
                   unexpectedNav' = IF f = "LOAD_DONE_NOTIFICATION_SENT" \/ late
                                      THEN unexpectedNav + 1
                                      ELSE unexpectedNav
              /\ UNCHANGED notifyReady

(* Variants of onInitialImageLoaded: one that calls sendNTPNotification   *)
(* without first resetting the flag, and one that resets it to a          *)
(* misspelled member of SendNotificationType (undefined in JavaScript).   *)
OnInitialImageLoadedNoReset(u) ==
    /\ pendingEvents[u] > 0
    /\ pendingEvents' = [pendingEvents EXCEPT ![u] = @ - 1]
    /\ imagesBeingLoaded' = SpliceLoop(imagesBeingLoaded, u, 1)
    /\ IF u \in ToSet(imagesBeingLoaded) /\ imagesBeingLoaded' = << >>
         THEN SendNTPNotification(flag)
         ELSE UNCHANGED <<flag, notifyReady, unexpectedNav>>
    /\ UNCHANGED tracks

OnInitialImageLoadedMisspelledReset(u) ==
    /\ pendingEvents[u] > 0
    /\ pendingEvents' = [pendingEvents EXCEPT ![u] = @ - 1]
    /\ imagesBeingLoaded' = SpliceLoop(imagesBeingLoaded, u, 1)
    /\ IF u \in ToSet(imagesBeingLoaded) /\ imagesBeingLoaded' = << >>
         THEN SendNTPNotification("undefined")
         ELSE UNCHANGED <<flag, notifyReady, unexpectedNav>>
    /\ UNCHANGED tracks

(* The load or error event of one Image of URL u: onInitialImageLoaded    *)
(* splices the URL out; when a splice leaves the array empty it resets the *)
(* flag to LOAD_DONE_NOTIFICATION_NOT_SENT and notifies.                   *)
OnInitialImageLoaded(u) ==
    /\ pendingEvents[u] > 0
    /\ pendingEvents' = [pendingEvents EXCEPT ![u] = @ - 1]
    /\ imagesBeingLoaded' = SpliceLoop(imagesBeingLoaded, u, 1)
    /\ IF u \in ToSet(imagesBeingLoaded) /\ imagesBeingLoaded' = << >>
         THEN SendNTPNotification("LOAD_DONE_NOTIFICATION_NOT_SENT")
         ELSE UNCHANGED <<flag, notifyReady, unexpectedNav>>
    /\ UNCHANGED tracks

(* Every image has fired its event and the renderers have made their      *)
(* calls: the page is idle.                                                *)
Finished ==
    /\ tracks = MaxTracks
    /\ \A u \in Urls : pendingEvents[u] = 0
    /\ UNCHANGED vars

Next ==
    \/ \E u \in Urls : TrackImageLoad(u) \/ OnInitialImageLoaded(u)
    \/ Finished

(* The browser fires the load or the error event of every Image whose src *)
(* has been set.                                                           *)
Fairness == \A u \in Urls : WF_vars(OnInitialImageLoaded(u))

Spec == Init /\ [][Next]_vars /\ Fairness

-----------------------------------------------------------------------------
(* The array and the live Image objects agree: each URL is in the array   *)
(* at most once, and exactly the URLs of the array have an Image whose     *)
(* load or error event is still to come.  trackImageLoad's search and the  *)
(* splice loop of onInitialImageLoaded maintain this together.             *)
ArrayMatchesLiveImages ==
    /\ IsInjective(imagesBeingLoaded)
    /\ \A u \in Urls :
          pendingEvents[u] = IF u \in ToSet(imagesBeingLoaded) THEN 1 ELSE 0

(* When 'notifyNTPReady' has been sent no tracked icon is loading, then or *)
(* ever after: the message is not sent while an image of the array still  *)
(* waits for its event, and no icon starts loading later.  The flag never *)
(* reaches LOAD_DONE_NOTIFICATION_SENT (line 452), so only the early      *)
(* return of trackImageLoad once the load is done keeps a later icon from *)
(* emptying the array a second time and re-sending 'notifyNTPReady'.      *)
ReadyMeansNothingLoading ==
    notifyReady > 0 =>
        /\ imagesBeingLoaded = << >>
        /\ \A u \in Urls : pendingEvents[u] = 0

(* Once an icon is being tracked, the page eventually tells the browser    *)
(* 'notifyNTPReady': the events of the tracked images empty the array and  *)
(* the last one sends the message.                                         *)
TrackedLoadEventuallyNotified ==
    (imagesBeingLoaded # << >>) ~> (notifyReady > 0)

=============================================================================
