# TLA+ models of the browser UI scripts in `src/`

This directory holds TLA+ specifications of the stateful parts of the scripts
under `src/`. It also holds the TLC configurations that model-check them, and
TLAPS proofs of the most important properties of every module without
recursion: the remoting host controller, the NTP sync, bookmarks and touch
code, the omnibox debug page, the thumbnail loader and its geometry.
The scripts do not form one system. They are separate, single-threaded pages
driven by callbacks. Where a script depends on another process (the remoting
plugin and daemon, the browser process, the network, image fetches), that
process is modelled as an environment whose events may interleave with the
page's own steps in any order.

## 1. Inventory

| Part (source) | State | Operations (actions) | Hard behaviour |
|---|---|---|---|
| **remoting.HostController** (`src/remoting/webapp/host_controller.js`) | `localHostId_`, the plugin's daemon config (host id, PIN hash), the daemon state, the host directory | `start` (`generateUuid`, `generateKeyPair`, `onKeyGenerated`, `doRegisterHost`, `onRegistered`, `onStarted`), `stop`/`onStopped`, `updatePin`/`onConfig`, `getLocalHostStateAndId`/`onConfig` | Callback chains of several operations interleave. A chain reads state before one callback and uses it after another. Directory calls can fail partway. |
| **ThumbnailLoader** (`.../file_manager/js/media/media_util.js`) | `thumbnailUrl_`, `fallbackUrl_`, `transform_`, `image_`, the box's child and attribute | constructor (source resolution), `load`, `onload`, `onerror`, the fallback loader, `attachImage`, `loadDetachedImage`, `centerImage_` | Image events arrive in any order. `onload` reads `image_` late. The fallback chain. The numeric caps. Rounding in the geometry. |
| **NTP load notification** (`mobile_ntp.js` 200-222, 356-463) | `finishedLoadingSendNotification`, `imagesBeingLoaded` | `trackImageLoad`, `onInitialImageLoaded`, `sendNTPNotification` | Renderers and image events interleave. A splice inside a loop. The flag never advances. |
| **NTP sync section** (`mobile_ntp.js` 284-328, 1191-1304, 1403-1413) | `syncState`, `syncEnabled`, `currentSnapshots`, `currentSessions`, `syncTimerId`, the displayed elements | `init`, `setSyncEnabled`, `snapshots`, `foreignSessions`, two `setTimeout` callbacks | Timers race data arrival. An exception can occur partway through a handler. |
| **NTP touch feedback and section bubbles** (`mobile_ntp.js` 181-199, 722-763, 1848-1948) | `activeItem`, `activeItemDelayTimerId`, the active classes, the footer buttons' `focused` class, the bubbles' hidden class and display, `footerBubbleAnimation_` | touchstart/touchend/touchcancel on items, touchstart/click on footer buttons, the body's touchend listeners, `showSectionBubble`, `triggerAutoHideSectionBubble` and its two timeouts | Page-wide timers shared by every element. A listener on the body runs for every touchend. A cancelled touch never reaches it. |
| **NTP bookmark folders and history** (`mobile_ntp.js` 170-174, 428-433, 882-930, 1130-1221, 2294-2312) | `bookmarkFolderId`, `bookmarkData`, `replacedInitialState`, the history entries, the stored default folder | `init`, `setCurrentBookmarkFolderData`, `bookmarks`, `bookmarkChanged`, `browseToBookmarkFolder`, `onpopstate`, `setSyncEnabled` | Answers arrive after later requests. The sync state becomes known before or after the data. |
| NTP panes and hash (`mobile_ntp.js` 1741-1846) | `currentPane*` | `scrollToPane`, `updatePaneOnHash` | Not modelled: depends on markup. |
| NTP context menu (`mobile_ntp.js` 935-1000, 2340-2420) | `contextMenuUrl`, `contextMenuItem` | contextmenu listener, `onCustomMenuSelected` | Not modelled: spec.md lists it as a non-goal. |
| **Omnibox debug page** (`omnibox/omnibox.js`) | `progressiveAutocompleteResults`, `cursorPositionUsed`, the checkboxes, the output | `startOmniboxQuery`, `handleNewAutocompleteResult`, `refresh`, the checkbox handlers | A result of an earlier query can arrive after a new query. |
| **ThumbnailLoader.centerImage_** (`media_util.js` 233-319) | the image's width, height, left, top | `centerImage_` from `attachImage` | Division by a box not laid out. Rounding to two decimals. Rotation. |
| ManagedUserSetPassphraseOverlay (`options/managed_user_set_passphrase.js`) | two input fields, the save button's `disabled` | input handlers, `updateDisplay_`, save click | Not modelled: the inputs' constraints live in markup outside the repository. |
| ProfilesIconGrid, SelectionOnly, jscompiler_hacks, mobile.css.js | none of their own | none | Not modelled (see section 7). |

PROJECT.json lists each part with its status. It also lists the hazards, each
at the source line where it bites, with the properties that catch it.

## 2. Modules

### HostController.tla
Models `host_controller.js` together with its environment.

**State:**
- `localHostId` is `localHostId_`.
- `startPc[h]` is the phase of the `start()` chain that drew host id `h`: `keygen`, `token`, `register`, `daemon` or its final `AsyncResult`.
- `requests` and `replies` are the FIFO queues between the web app and the daemon. The plugin's `DaemonController` serves its calls in order.
- `daemonState`, `configId` and `hashSalt` are the daemon, the config's `host_id`, and the host id the PIN hash was salted with.
- `directory` is the set of registered hosts. `deletes` holds the `unregisterHostById` calls in flight.
- `calls` counts the operations the web app has started.

**Actions:** there is one action per callback of each chain: `Start`, `OnKeyGenerated`, `OnTokenError`, `DoRegisterHost`, `OnRegistered`, `OnStarted`, `Stop`, `OnStopped`, `UpdatePin`, `OnConfigForPin`, `OnPinUpdated`, `GetLocalHostStateAndId` and `OnConfigForState`. The environment adds `DaemonStep`, which serves the head request, and `DirectoryDelete`.

**Fairness:** `Fairness` is weak fairness of each callback of the `start()`
chain for each host id, of `DaemonStep`, and of the web app's handlers of the
daemon's replies. The plugin answers every call it queued, the directory
server answers every request, and a callback that is due runs.

**Constants:**
- `Serial` restricts callers to one operation at a time.
- `LossyNetwork` lets a registration be applied although its response is lost, and lets a delete be lost.
- `Preset` is the id of a host an earlier page configured. `Init` starts with no config (`configId = NoHost`, daemon `NOT_INSTALLED` or `STOPPED`) or with `Preset` configured, registered in the directory, and its daemon `STOPPED` or `STARTED`. `localHostId_` starts null. `Preset` is not in `HostId`, the ids the page's `generateUuid` draws: a fresh UUID never equals an id handed out before. `DirectoryDelete` ranges over both, so that the preset host can be unregistered.

### NtpLoadNotification.tla
Models the "NTP ready" notification. `imagesBeingLoaded` is a sequence of
URLs. `pendingEvents` counts the Image objects whose load or error event is
still due. `TrackImageLoad(u)` can run at any time, because renderers run
whenever section data arrives. `OnInitialImageLoaded(u)` models the whole
event handler:
- the splice loop, as the recursive operator `SpliceLoop`, which keeps the skip after a splice;
- the reset of the flag;
- `SendNTPNotification`, which keeps the comparison at line 452 that assigns nothing.

### NtpSyncState.tla
Models `updateSyncEmptyState`. Its early return is `KeepsLoading`, and its
three branches are `AwaitData` and `ShowData`. It is called from the
following actions:
- `PageInit` (`init`);
- `SetSyncEnabled`, whose localStorage calls may throw when `StorageMayThrow` is TRUE;
- `Snapshots` and `ForeignSessions`;
- `Timeout(t)`, for the initial-load and the loading timers.

`timers` is the set of pending timer callbacks. `syncTimerId` is the one the
page holds. The display is abstracted to three things: the set of sync
elements shown, and the visibility of each of the two lists.

### ThumbnailLoader.tla
Models the constructor as `Resolve`, with `CanUseImageUrl` and
`DriveFallback`. `Init` chooses one of these metadata values:
- absent;
- a record of the fields the constructor reads, with sizes and dimensions from the constants `Sizes` and `Dims` and up to `MaxApps` Drive apps.

`Init` also chooses which URLs load. Every Image object created is an entry
of `images`. `Load` models `load()`. `ImageLoaded(i)` and `ImageFailed(i)` are
the `onload` and `onerror` callbacks of the loader or of its fallback loader,
with `AttachImage`. `Overlap` lets a caller call `load` again before the
fetch ends.

`loaderType` is the IMAGE or CANVAS loader type. For CANVAS, `AttachImage`
draws the image into the canvas only when `canvasUpToDate` is false, and
`canvasOf` is the image drawn last. `Load` resets `canvasUpToDate` when it
starts a fetch. `LoadDetachedImage` is `loadDetachedImage`: it creates an
image that is not attached on load (owner `detached`) and that has no fallback.
`AttachCall` is the caller's `attachImage()` after the detached load's
callback reported success. `lastCall` records which of the three calls ran
last, so that `SettledBoxShowsBest` speaks only of a box filled by `load`.

### CenterImage.tla
Models `centerImage_` as a pure function of one call: the box's client size
(0 when not laid out), the image's natural size, the fill mode and the
rotation. It computes exactly, in fractions, where the code uses doubles. A
percentage is an integer number of hundredths rounded the way `toFixed(2)`
rounds, and a division by zero gives the model value `NonFinite`. The parts are:
- `Fill`, the FILL/FIT/AUTO switch with `AUTO_FILL_THRESHOLD`;
- `KnownBoxFractions`, the scale to fill or fit, capped at 1;
- `UnknownBoxFractions`, the square-box branch;
- `StyleOf`, the four style properties.

`Attach` is `attachImage` calling it again with any input. `SpecDisplayed` is
the reference written from spec.md section 4.3.

### NtpBookmarks.tla
Models the bookmarks section as follows:
- `requests` is the FIFO of `getBookmarks` calls, answered in order by `ReplyBookmarks`.
- `Bookmarks(d, en)` is `bookmarks(data)`. It records the folder, gives the initial history entry its state once (`replacedInitialState`), and keeps the data while the sync state is unknown or renders it, filtered when sync is off.
- `SetSyncEnabled` adds the bookmark side of `setSyncEnabled`: the switch to the root folder on the first enable, and the re-render of `bookmarkData`.
- `BrowseToBookmarkFolder` and `OnPopState` move through `hist`/`pos`, the history entries and the current one.
- localStorage keeps its keys from earlier pages, so `Init` chooses them.
- `Folders` are folder ids, which are numbers in the code; `BookmarksAssumption` says that the model values `"undefined"` and `"none"` are not among them.

### NtpTouch.tla
Models the touch listeners of the page over one stream of touches. A finger
goes down on an item or on a footer button (`TouchStart`, `PressStart`), and
the page reacts as follows:
- `TouchEnd(x)` runs the item's own touchend listener (`ItemPressStop`), then the body's listeners of every footer button (`FooterPressStop`), which run for a touchend anywhere.
- `TouchCancel` is `window.touchCancelListener`. The footer buttons have no touchcancel listener.
- The page-wide timers are actions: `DelayTimerFires`, `ZeroTimeoutFires`, `HideTimerFires` and `DisplayTimerFires`.
- `ButtonCancels` says whether a touch on a footer button may be cancelled.

`TriggerAutoHide` models the calls of `triggerAutoHideSectionBubble` made
by the body's listeners of several buttons during one touchend (lines 1869
and 1879). Each call clears and re-arms the page-wide timer unless that
button's bubble is hidden, so the last such button is the one whose timer
remains. It is written
with an existential witness (the button no other shown one exceeds) rather
than a maximum, so that the proofs need no lemma about a maximum.

### FooterBubble.tla
An abstract specification of what the section bubbles promise, with no
timers and no listeners: each bubble is `hidden`, `shown` or `fading`.
`Show(b)` shows one bubble and hides every other at once, `Fade(b)` starts
to fade a shown bubble and `Remove(b)` removes a fading one. `NtpTouch`
instantiates it as `Abstract` with the refinement mapping `BubbleState(b)`:
- `hidden` when the bubble's element is not displayed;
- `fading` when its hidden class is on but it is still displayed (the display timer is pending);
- `shown` otherwise.

`FooterBubbleRefined == Abstract!Spec` is checked by the `ntp_touch` run and
proved in `NtpTouch_proofs.tla`.

### OmniboxDebug.tla
Models the page, the browser and their two channels:
- `StartOmniboxQuery` is the form submit and the two query checkboxes. It clears the results without repainting.
- `HandleNewAutocompleteResult` appends a result and calls `Refresh`.
- `ChangeDisplayOption` is the three display checkboxes, which repaint.
- `BrowserStart`/`BrowserResult` are the browser. It runs one query at a time and sends its results in order, the last one `done`.

A painted result is abstracted to its query, its `done` flag and the cursor
position printed above it.

Each MC_ module instantiates its module for TLC with model values. The
HostController configurations that check only safety use symmetry on host ids.

## 3. Runs (PROJECT.json "runs")

| Run | Checks | Bounds | Result |
|---|---|---|---|
| hc_concurrent | `TypeOK`, `FailedStartUnregistered`, `RunningHostRegistered`, `LocalHostIdMatchesConfig`, liveness `StartEventuallyEnds` | 3 host ids, 3 overlapping calls, no symmetry | pass, 51 290 states |
| ntp_notify | `TypeOK`, `ArrayMatchesLiveImages`, `ReadyMeansNothingLoading`, liveness `TrackedLoadEventuallyNotified` | 4 URLs, 6 `trackImageLoad` calls | pass, 259 states |
| ntp_sync | `TypeOK`, `TimerMatchesState`, `LoadedDisplayMatchesData`, action property `LoadingShownFullTimeout`, liveness `DataEventuallyLoaded` | 5 browser callbacks | pass, 1 229 states |
| thumb_all | `TypeOK`, `SourceMatchesSpec` (constructor vs. the priority order of spec.md section 4.1), `SettledBoxShowsBest`, `FetchesBounded`, `CanvasShowsImage`, action property `SuccessWithLoadedImage` | sizes {absent, 2^20, 2^20+1}, dims {absent, 1024, 2048}, 2 Drive apps, both loader types, 2 calls of `load`, `loadDetachedImage` or `attachImage` in sequence | pass, 917 472 states |
| thumb_reload | `SuccessWithLoadedImage` with overlapping loads | 2 loads | violation: the first onload reports the second, unloaded image |
| center_geometry | `TypeOK`, `GeometryMatchesSpec` (against spec.md section 4.3), `CenteredPercentages` | box sides {0, 10, 30}, image sides {7, 10, 13, 30}, every mode, upright images and FIT/FILL rotated | pass, 720 states |
| omni_results | `TypeOK`, `QuiescedShowsLatestFinal` | 3 queries, 2 results each | pass, 771 states |
| omni_stale | `QuiescedPaintsOnlyLatest` | 2 queries | violation: a late result of the previous query is painted under the new one |
| ntp_bookmarks | `TypeOK`; the run that fires every bookmarks action | folders {0, 5, 7}, 3 navigations, 1 change, 2 `setSyncEnabled` | pass, 71 565 states |
| ntp_bookmarks_resync | `ShownIsLastRequested` when the sync state changes | folders {0, 5}, 1 navigation, 2 `setSyncEnabled` | violation: the folder stays unfiltered after sync is turned off |
| ntp_touch | `ActiveItemShown`, liveness `BubbleEventuallyRemoved`, refinement `FooterBubbleRefined` | 2 items, 2 footer buttons, two fingers, 5 touches | pass, 2 388 states |
| ntp_touch_cancel | `SelectOnlyByOwnPress` when a touch on a footer button may be cancelled | 3 touches | violation: a tap on an item selects the cancelled button's section |

**Further configurations.** Other configurations reproduce counterexamples
that are described in section 4 but are not among the runs above:
- `HC_ConcurrentPin.cfg` (`PinHashMatchesHost` with overlapping calls);
- `HC_Lossy.cfg`;
- `NTP_SyncStorage.cfg`;
- `THUMB_SourceZero.cfg`;
- `CENTER_AutoRotated.cfg`.

**Why the bounds are enough.** Each bound is the smallest that lets every
branch of the modelled code run in every order:
- Three host ids give one start that succeeds, one that fails, and one left for a start racing either. Three calls let every operation overlap another. The run has no symmetry
  set, because symmetry is unsound for the liveness property.
- Four URLs and six tracking calls cover a duplicate URL, a call after the notification, and tracking between events.
- Five callbacks let the three pieces of sync data arrive in every order around both timers, with one update after loading.
- Two calls of the thumbnail loader cover a reload after a detached load and an attach after a reload, on either loader type.
- Sizes and dimensions sit at each cap and just above it: 1024 × 2048 = 2^21 is accepted and 2048 × 2048 is not.
- For the geometry, boxes of 10 × 30 and 30 × 10 against images of 7, 10, 13 and 30 put the AUTO ratio below, at and above both thresholds, and make images both smaller and larger than the box. Side 0 is the box not laid out.
- Three queries of two results let a result of each query be in flight when the next starts.
- Three folders and three navigations give a back and a forward over two pushed entries. Two `setSyncEnabled` calls let the sync state arrive before or after any answer and then change.
- Two items and two buttons let a touchend on one element meet the state of another. Two fingers let a second touch start while the first is down, which is what the page-wide `activeItem` and delay timer are shared by. Five touches cover a press, a cancel, a second touch and both timers.

**Mutants.** Every property of a passing run has a mutant in PROJECT.json: a
variant operator defined next to the code it mutates (a dropped guard, a
missing reset, a swapped order, a loop without its break). TLC finds the
property violated when the variant replaces the original.

**Fairness.** Each fairness assumption is one the code's environment guarantees:
- `HostController` assumes weak fairness of each callback, of the daemon and of the directory server. The plugin and the server answer every call, and a callback that is due runs. The web app's own calls (`start`, `stop`, `updatePin`) get none.
- `NtpLoadNotification` assumes weak fairness of each image's event. The browser fires `load` or `error` for every Image whose `src` is set.
- `NtpSyncState` assumes weak fairness of `init` and of each timer callback. The page's `DOMContentLoaded` handler runs, and a timer that has not been cleared fires.
- `NtpTouch` assumes weak fairness of every pending timeout, and that a finger on the screen is eventually lifted or cancelled.
- Browser callbacks (data arrival) and user input get no fairness: the safety properties hold whatever the browser and the user do.

**Deadlock.** Deadlock is checked in every run. Each module with bounded
input has a `Finished` step that stutters only in the legitimate end state:
all calls made, no callback or timer pending. In `CenterImage` and
`OmniboxDebug` a step is always enabled.

## 4. What the runs show (PROJECT.json "findings")

Findings with a run:
- **mobile_ntp.js:1214**: `setSyncEnabled` re-renders only `bookmarkData`, which `bookmarks()` keeps only while the sync state is unknown (line 893). The comment at line 1215 says the data "needs to be refiltered" on a change. A folder that arrived after the first sync report stays unfiltered when sync is later turned off. A folder that arrived before it is re-rendered, on every later change, over whatever the user has browsed to since (`ntp_bookmarks_resync`).
- **media_util.js:145**: the "already loaded" guard never fires, against spec.md section 4.2. A second `load` in flight makes the first `onload` attach and report an unloaded image.
- **omnibox.js:254**: `handleNewAutocompleteResult` carries no query id. A result of the previous query that arrives after `startOmniboxQuery` is appended to the new query's results and painted under the new cursor position.
- **mobile_ntp.js:1876**: a footer button is unfocused only by the body's touchend listener. A touch on it that the browser cancels leaves it focused, and lifting a finger from any item later selects that button's section.

Counterexamples found by the further configurations:
- `updatePin` salts the PIN hash with a host id read before a concurrent `start()` (host_controller.js:272).
- A registration applied by the server whose response was lost is reported as FAILED_DIRECTORY and never unregistered (host_controller.js:162).
- A localStorage exception in `setSyncEnabled` skips the refresh after `syncEnabled` has changed (mobile_ntp.js:1207).
- A known size of 0 counts as unknown (media_util.js:99, against spec.md 4.1).
- The AUTO fill choice uses the unrotated image ratio (media_util.js:274, against spec.md 4.3).

Observed with TLC but not asserted by any run:
- With two fingers, the page-wide `activeItem` and delay timer are shared (mobile_ntp.js:762). Suppose the delay timer marks item 1, then a second finger's timer marks item 2, and one touchcancel ends both fingers. Only `activeItem`'s class is removed, so item 1 keeps its active class with no finger down and no timer pending.
- `mobile_ntp.js:452`: `finishedLoadingSendNotification == ...SENT;` assigns nothing. The typo has no visible effect: `trackImageLoad`'s early return already keeps the notification from being sent twice, and `ReadyMeansNothingLoading` depends on that return, as its mutant shows.

## 5. Proofs

### HostController_proofs.tla

The following theorems are checked by `tlapm HostController_proofs.tla`:
- `LocalHostIdNotStale`: `Spec => []LocalHostIdMatchesConfig`, under no hypothesis. Its inductive invariant `LocalIdInv` adds `LocalIdKept`: with no reply that resets `localHostId_` queued, it is null or the config's host id; and the last such reply in the queue carries null or that host id. A reply is queued with the value the daemon has just set, and only a later reply can change the config, so the last one is never stale.
- `RunningHostRegisteredHolds`: `Spec => []RunningHostRegistered`, under no hypothesis. The property is not inductive: a start reply or a stop reply still queued can unregister a host. The inductive invariant `RunInv` adds three parts:
  - `StartOnce`: each drawn id has at most one `startDaemon` call or reply queued, in one of the two queues, and only once its chain is in the `daemon` phase.
  - `FreshKept`: an id whose chain has not reached `startDaemon`, or whose call is queued, is "known nowhere". It is not the config's host, not `localHostId_`, has no delete in flight and is named by no queued config reply. A queued call's id is also registered. A queued start reply's id is not `localHostId_`, has no delete in flight, and no config reply ahead of it names it. If the reply reports a failure, the id is known nowhere.
  - `StartedKept`: while the daemon is `STARTED`, its host is registered with no delete in flight. Every successful stop reply still queued is followed by the start reply of the running host. So when `onStopped` unregisters `localHostId_`, that id is not the running host: the start reply behind the stop has not yet set it.

  `RunInv` was checked by TLC as an invariant of a 5-call run, then proved action by action. There is one lemma per kind of step: a phase change of the start chain, a queued request, registration, a directory delete, each reply handler, and the daemon serving a start or any other request. The lemmas `TailStarts` and `AppendStarts` say how the queue predicates change when a queue is popped or pushed.
- `TypeCorrect`: `Spec => []TypeOK` for every set of host ids and every `MaxCalls`. It rests on the lemmas `InitTypeOK` and `NextTypeOK`. `NextTypeOK` has one step per action. The daemon step splits on the kind of the request at the head of the queue, and each case names the reply record it appends.
- `FailedStartNeverRegistered`: under `~LossyNetwork`, `Spec => []FailedStartUnregistered`, for any overlap of calls and any `MaxCalls`.

`FailedStartUnregistered` is not inductive by itself. A start whose
registration is in flight could be registered already, and then the non-200
branch of `onRegistered` would report failure for a registered host. The
inductive invariant therefore adds `NotYetRegistered`: while a start is in
`keygen`, `token` or `register`, its id is not in the directory. This holds
because `start()` draws an id that is neither registered nor configured.
`TypeOK` is the third conjunct, taken from `TypeCorrect`.

The assumptions used are the ones in the module:
- `HostIdAssumption` (NoHost is not a host id);
- `MaxCallsAssumption`;
- `FlagsAssumption`.

### NtpTouch_proofs.tla

The following theorems are checked by `tlapm NtpTouch_proofs.tla`. They hold for any finite set of items, any number of
footer buttons and any bounds, under `TouchAssumption` (`None` is not an
item, items are not button numbers, and the bounds are naturals).
- `TypeCorrect`: `Spec => []TypeOK`. `NextTypeOK` has one step per action. `TouchEnd` is split on whether the finger was on an item or on a button, and `DownFinite` gives the finiteness of the set of fingers down.
- `ActiveItemAlwaysShown`: `Spec => []ActiveItemShown`.
- `Refinement`: `Spec => FooterBubbleRefined`, that is, the touch listeners and timers implement the abstract `FooterBubble` under the mapping `BubbleState`.

Each theorem after `TypeCorrect` rests on a strengthened invariant:
- `ActiveInv` adds `ActiveKept`: the active item has its class, and no 0 ms timeout is pending. A 0 ms timeout removes the class of its item. It cannot hit `activeItem`, because the touchend that starts it also sets `activeItem` to null, and the delay timer that sets `activeItem` runs after the pending 0 ms timeouts.
- `BubbleInv` adds `BubbleKept`: a bubble without the hidden class is displayed, and the pending hide (or display) timer belongs to a bubble that is still shown (or still fading). That is what makes a timer's step a `Fade` or a `Remove` of the abstract spec. `NextRefines` maps `ShowSectionBubble` to `Show`, the hide timer to `Fade` of its button, the display timer to `Remove`, and every other step to a stutter of `bubbleBar`.

### NtpSyncState_proofs.tla

For every `MaxMessages` and whether or not `StorageMayThrow`:
- `TypeCorrect`: `Spec => []TypeOK`. The lemma `UpdateTypeOK` types `updateSyncEmptyState` for any data, and every handler that calls it cites it.
- `TimerMatchesStateHolds`: `Spec => []TimerMatchesState`. The invariant is not inductive by itself. The first message's step starts the waiting timer, and the waiting timer's step starts the loading timer, so both need to know that no other timer is pending then. `TimerInv` adds this through `TimerKept`: no timer in INITIAL, and exactly the loading timer, held by `syncTimerId`, in DISPLAYING_LOADING.
- `LoadingShownFullTimeoutHolds`: the action property `LoadingShownFullTimeout`, from `TimerInv`. In DISPLAYING_LOADING only the loading timer's callback gets past the early return of `updateSyncEmptyState`.
- `LoadedDisplayCorrect`: under `~StorageMayThrow`, `Spec => []LoadedDisplayMatchesData`. `TypeOK /\ LoadedDisplayMatchesData` is inductive. `NTP_SyncStorage.cfg` shows that the hypothesis is needed: an exception thrown by localStorage stops `setSyncEnabled` before it re-renders.

### OmniboxDebug_proofs.tla

For every `MaxQueries` and `ResultsPerQuery`:
- `TypeCorrect`: `Spec => []TypeOK`.
- `QuiescedShowsLatestFinalHolds`: `Spec => []QuiescedShowsLatestFinal`.

The inductive invariant `OmniInv` has three parts:
- `QueryKept`: the browser's queue holds query numbers up to `latest` and ends with `latest`, and `cursorPositionUsed` is the latest query's.
- `ResultKept`: the last result sent, on the page or in flight, is the latest query's, final exactly when all its results are sent.
- `PaintKept`: the painted output is `Painting` of the results kept, the reference rendering of `refresh`.

Together these say that at quiescence the last painted line is the latest query's final result.

### NtpBookmarks_proofs.tla

- `TypeCorrect`: `Spec => []TypeOK`, for every set of folders and all bounds. It uses the sequence lemmas of `SequenceTheorems` for the request queue and the history entries.

`ShownIsLastRequested` is not proved: it fails as soon as the sync state is reported twice (`ntp_bookmarks_resync`). A proof under a single report would exclude exactly that failure.

### ThumbnailLoader_proofs.tla

For every `Sizes`, `Dims`, `MaxApps` and `MaxLoads`:
- `TypeCorrect`: `Spec => []TypeOK`. `SetStatusType` and `AttachType` type the image updates. `TypeFrame` reduces `TypeOK'` to its variable part.
- `CanvasShowsImageHolds`: `Spec => []CanvasShowsImage`, overlapping calls included. The inductive invariant `ThumbInv` adds two parts:
  - `CanvasKept`: the canvas image is `image_` and has loaded;
  - `MainLoadingIsCurrent`: without overlap, every loading main image is `image_`.
  `ThumbInv` was checked by TLC on `THUMB_All.cfg` and on an instance with `Overlap = TRUE`.
- `SourceMatchesSpecHolds`: when 0 is in neither `Sizes` nor `Dims`, `Spec => []SourceMatchesSpec`. The constructor's `Resolve` agrees with the spec.md reference `SpecSource`, step by step through `FallbackMatchesSpec`, `SafeMatchesSpec` and `ResolveMatchesSpec`. `THUMB_SourceZero.cfg` shows the disagreement when a size is 0: the code's `if (metadata.size)` treats 0 as unknown.
- `FetchesBoundedHolds`: `Spec => []FetchesBounded`, for every overlap of calls with fetch events. `FetchesBounded` alone is not inductive: a failing main image adds a fallback image without a call. The inductive invariant `FetchInv` therefore also counts `LoadingMain(images)`, the indices of load's own images still loading: `Len(images) + Cardinality(LoadingMain(images)) <= 2 * loads`. A call adds at most one image and at most one loading main image, for 2 against its 2. The onerror that builds the fallback loader ends a loading main image, so the count falls by 1 while `Len` grows by 1. The lemmas `LoadingAppend` and `LoadingEndCard` give the cardinality after an append and after a status change; they rest on `FS_AddElement` and `FS_RemoveElement`. TLC checked `FetchInv` first, as an invariant: with `MaxLoads = 3` under `Overlap = FALSE` and the full metadata (2.17 million states), and under `Overlap = TRUE`.

`Resolve`, `ResolveMediaObject`, the inner choice of `SpecSource` and
`BestUrl` are written as IF/ELSE IF chains. These follow the code's
if/else chains in order; a TLA+ CASE with overlapping arms would not fix an
order. The runs give the same results as before.

### CenterImage_proofs.tla

- `CenteredPercentagesHold`: `Spec => []CenteredPercentages`, for every box and image size, fill mode and rotation. The lemma `PercentBounds` bounds the error of the `toFixed(2)` rounding in `Percent`. `CenteredRounding` adds the errors of the offset and the size, using the linear lemma `ErrorSum` with the products as atoms. `CenterFractions` shows that both offsets are (1 - size)/2 exactly.
- `TypeCorrect`: `Spec => []TypeOK`. No division by zero reaches `toFixed`, because `KnownBoxFractions` is only used when the box has been laid out.
- `GeometryMatchesSpecHolds` holds under the hypothesis that no input is an AUTO-mode rotated image (`UprightOrFixed`). Under that hypothesis it proves `Spec => []GeometryMatchesSpec`. The hypothesis is exactly the input set of the `center_geometry` run. The excluded inputs are the media_util.js:274 divergence, which `CENTER_AutoRotated.cfg` exhibits. The proof is equational reasoning about fractions:
  - `FEqMul`, `FLeqCong`, `FEqRefl` and `FMinMaxCong` make cross-multiplied equality (`FEq`) a congruence for the products, comparisons, min and max the code takes.
  - `SpecFill` shows that the spec's AUTO choice equals the code's `Fill` on the allowed inputs.
  - `KnownUpright`, `KnownRotated` and `UnknownBox` compare the two geometries for a laid-out box and for a box of size 0. Each case splits on the rotation and on the fill choice.
  - `CallGeometry` combines the three. The inductive invariant `GeoInv` says that the style is `CenterImage` of the current call.

### What stays with TLC

The following stay with TLC:
- Liveness (`TrackedLoadEventuallyNotified`, `DataEventuallyLoaded`, `StartEventuallyEnds`, `BubbleEventuallyRemoved`). TLAPS does not handle fairness or ENABLED here.
- `SuccessWithLoadedImage` of `ThumbnailLoader`, and `SelectOnlyByOwnPress` and `ShownIsLastRequested`. These fail in the code's own use: overlapping loads (`thumb_reload`), a cancelled touch on a footer button (`ntp_touch_cancel`) and a second sync report (`ntp_bookmarks_resync`). A theorem under hypotheses that exclude those cases would not say anything about the code, so no such theorem is kept.
- Everything about `NtpLoadNotification`. Its `SpliceLoop` is RECURSIVE, and a module that reaches a RECURSIVE operator cannot hold theorems. What a recursive definition computes would also need induction over data with an operator parameter.
- `SettledBoxShowsBest` of `ThumbnailLoader`. It is not yet proved. Its inductive invariant would have to say, for every image still loading, which attachment and which `generic` value its load or error event will leave, along the primary-then-fallback chain. No such strengthening has been found and checked yet.
- `GeometryMatchesSpec` of `CenterImage` for AUTO-mode rotated images. It is false there: `CENTER_AutoRotated.cfg` exhibits the counterexample (section 4).

## 6. Plan for the next sittings

1. A proof of `SettledBoxShowsBest`, from an invariant over the loading images' pending outcomes.
2. **ThumbnailLoader**: the box reused by two loaders, and the `generic-thumbnail` attribute that is never removed.
3. **NTP**: panes and hash, where the markup allows.
4. **PassphraseOverlay**, against stated assumptions on its markup.

## 7. Not modelled

- **ProfilesIconGrid**: DOM decoration only.
- **SelectionOnly**: constant overrides of a `TicketItem` whose state machine is not in this repository.
- **jscompiler_hacks.js**: compiler declarations, with no executable code.
- **mobile.css.js**: style data.
- **ManagedUserSetPassphraseOverlay**: its inputs' constraints are in markup outside this repository.
- **The NTP context menu**: spec.md lists it as a non-goal.
- **The `generic-thumbnail` attribute's styling**: `file_types.css` is not in the repository, so whether a stale attribute shows is not decidable from the code here.
- **The NTP renderers and layout** (`make*Item`, `centerGrid`, canvas drawing): no state a property could tell apart.
- **The host controller's own callers** (the web app UI), the plugin, and the directory server. They appear only as the environment.
