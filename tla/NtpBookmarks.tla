---------------------------- MODULE NtpBookmarks ----------------------------
(***************************************************************************)
(* The bookmarks section of the mobile New Tab Page (mobile_ntp.js): the   *)
(* page asks the browser for a folder with setCurrentBookmarkFolderData    *)
(* ('getBookmarks', remembered in localStorage), the browser answers with  *)
(* bookmarks(data) in the order asked, bookmarkChanged asks again for the  *)
(* folder shown, browseToBookmarkFolder and the back/forward buttons move *)
(* through history entries that carry a folder id, and setSyncEnabled     *)
(* decides whether desktop folders are filtered out and re-renders the    *)
(* data it kept while the sync state was unknown.                          *)
(*                                                                         *)
(* A folder's data is identified by its id; asking for null gets the root. *)
(* The pane index carried by history entries, the location hash and the   *)
(* rendering (title crumbs, populateData) are left out; localStorage does *)
(* not throw here (NtpSyncState covers that).                              *)
(***************************************************************************)
EXTENDS Naturals, Sequences

CONSTANTS
    Folders,       \* folder ids
    Root,          \* the folder the browser answers a request for null with
    MaxNav,        \* bound on browse, back and forward
    MaxChanges,    \* bound on bookmarkChanged notifications
    MaxSyncCalls   \* bound on setSyncEnabled calls

ASSUME BookmarksAssumption ==
    /\ Root \in Folders
    /\ "null" \notin Folders /\ "nostate" \notin Folders
    /\ "undefined" \notin Folders /\ "none" \notin Folders
    /\ MaxNav \in Nat /\ MaxChanges \in Nat /\ MaxSyncCalls \in Nat

FolderOrNull == Folders \cup {"null"}

VARIABLES
    inited,            \* init() has run
    syncEnabled,       \* "undefined", "true" or "false"
    syncKey,           \* localStorage SYNC_ENABLED_KEY is set
    stored,            \* localStorage DEFAULT_BOOKMARK_FOLDER_KEY
    bookmarkFolderId,  \* id of the last data received
    bookmarkData,      \* data kept while sync was unknown ("undefined")
    shownFolder,       \* the folder rendered ("none" before any)
    shownFiltered,     \* desktop folders were filtered out of it
    requests,          \* 'getBookmarks' calls not answered yet, in order
    lastRequested,     \* folder of the last 'getBookmarks' ("none" before)
    hist,              \* history entries: a folder id state or "nostate"
    pos,               \* the current history entry
    replaced,          \* replacedInitialState
    navs, changes, syncCalls

vars == <<inited, syncEnabled, syncKey, stored, bookmarkFolderId,
          bookmarkData, shownFolder, shownFiltered, requests, lastRequested,
          hist, pos, replaced, navs, changes, syncCalls>>

TypeOK ==
    /\ inited \in BOOLEAN
    /\ syncEnabled \in {"undefined", "true", "false"}
    /\ syncKey \in BOOLEAN
    /\ stored \in FolderOrNull
    /\ bookmarkFolderId \in FolderOrNull
    /\ bookmarkData \in Folders \cup {"undefined"}
    /\ shownFolder \in Folders \cup {"none"}
    /\ shownFiltered \in BOOLEAN
    /\ requests \in Seq(FolderOrNull)
    /\ lastRequested \in FolderOrNull \cup {"none"}
    /\ hist \in Seq(FolderOrNull \cup {"nostate"})
    /\ pos \in 1..Len(hist)
    /\ replaced \in BOOLEAN
    /\ navs \in 0..MaxNav /\ changes \in 0..MaxChanges
    /\ syncCalls \in 0..MaxSyncCalls

(* A page load: localStorage keeps its keys from earlier pages.            *)
Init ==
    /\ inited = FALSE
    /\ syncEnabled = "undefined"
    /\ syncKey \in BOOLEAN
    /\ stored \in FolderOrNull
    /\ bookmarkFolderId = "null"
    /\ bookmarkData = "undefined"
    /\ shownFolder = "none"
    /\ shownFiltered = FALSE
    /\ requests = << >>
    /\ lastRequested = "none"
    /\ hist = <<"nostate">>
    /\ pos = 1
    /\ replaced = FALSE
    /\ navs = 0 /\ changes = 0 /\ syncCalls = 0

-----------------------------------------------------------------------------
(* setCurrentBookmarkFolderData(f): ask for f, remember it as default.     *)
SetCurrentBookmarkFolderData(f) ==
    /\ requests' = Append(requests, f)
    /\ lastRequested' = f
    /\ stored' = f

(* bookmarks(data) for folder d with sync state en: record the folder,    *)
(* give the initial history entry its state once, then keep the data while *)
(* sync is unknown, or render it, filtered when sync is off.               *)
Bookmarks(d, en) ==
    /\ bookmarkFolderId' = d
    /\ IF replaced THEN UNCHANGED <<hist, replaced>>
                   ELSE /\ hist' = [hist EXCEPT ![pos] = d]
                        /\ replaced' = TRUE
    /\ IF en = "undefined"
         THEN /\ bookmarkData' = d
              /\ UNCHANGED <<shownFolder, shownFiltered>>
         ELSE /\ shownFolder' = d
              /\ shownFiltered' = (en = "false")
              /\ UNCHANGED bookmarkData

(* init(): ask for the stored default folder.                              *)
PageInit ==
    /\ ~inited
    /\ inited' = TRUE
    /\ requests' = Append(requests, stored)
    /\ lastRequested' = stored
    /\ UNCHANGED <<syncEnabled, syncKey, stored, bookmarkFolderId,
                   bookmarkData, shownFolder, shownFiltered, hist, pos,
                   replaced, navs, changes, syncCalls>>

(* The browser answers the oldest 'getBookmarks' with bookmarks(data).     *)
ReplyBookmarks ==
    /\ requests # << >>
    /\ requests' = Tail(requests)
    /\ Bookmarks(IF Head(requests) = "null" THEN Root ELSE Head(requests),
                 syncEnabled)
    /\ UNCHANGED <<inited, syncEnabled, syncKey, stored, lastRequested, pos,
                   navs, changes, syncCalls>>

(* setSyncEnabled(en): nothing when unchanged; on enabling for the first   *)
(* time switch to the root folder ("0"), on disabling drop the key; then   *)
(* render the data kept while sync was unknown, if any.                    *)
SetSyncEnabled(en) ==
    /\ inited /\ syncCalls < MaxSyncCalls
    /\ syncCalls' = syncCalls + 1
    /\ IF syncEnabled # "undefined" /\ syncEnabled = en
         THEN UNCHANGED <<syncEnabled, syncKey, stored, requests, lastRequested,
                          bookmarkFolderId, bookmarkData, shownFolder,
                          shownFiltered, hist, replaced>>
         ELSE /\ syncEnabled' = en
              /\ IF en = "true" /\ ~syncKey
                   THEN syncKey' = TRUE /\ SetCurrentBookmarkFolderData(Root)
                   ELSE /\ syncKey' = (en = "true" /\ syncKey)
                        /\ UNCHANGED <<stored, requests, lastRequested>>
              /\ IF bookmarkData # "undefined"
                   THEN Bookmarks(bookmarkData, en)
                   ELSE UNCHANGED <<bookmarkFolderId, bookmarkData,
                                    shownFolder, shownFiltered, hist, replaced>>
    /\ UNCHANGED <<inited, pos, navs, changes>>

(* bookmarkChanged(status): ask again for the current folder when the     *)
(* change is in it (parent_id p) or when status is null.                   *)
BookmarkChanged(p) ==
    /\ inited /\ changes < MaxChanges
    /\ changes' = changes + 1
    /\ IF p = "null" \/ p = bookmarkFolderId
         THEN SetCurrentBookmarkFolderData(bookmarkFolderId)
         ELSE UNCHANGED <<requests, lastRequested, stored>>
    /\ UNCHANGED <<inited, syncEnabled, syncKey, bookmarkFolderId,
                   bookmarkData, shownFolder, shownFiltered, hist, pos,
                   replaced, navs, syncCalls>>

(* A variant of browseToBookmarkFolder that stores the pane index         *)
(* ("pane") as the entry's folder id.                                       *)
BrowseToBookmarkFolderSwapped(f) ==
    /\ shownFolder # "none" /\ navs < MaxNav
    /\ navs' = navs + 1
    /\ hist' = Append(SubSeq(hist, 1, pos), "pane")
    /\ pos' = pos + 1
    /\ SetCurrentBookmarkFolderData(f)
    /\ UNCHANGED <<inited, syncEnabled, syncKey, bookmarkFolderId,
                   bookmarkData, shownFolder, shownFiltered, replaced,
                   changes, syncCalls>>

(* A click on a folder of the rendered section: browseToBookmarkFolder     *)
(* pushes an entry for f over the forward entries and asks for f.          *)
BrowseToBookmarkFolder(f) ==
    /\ shownFolder # "none" /\ navs < MaxNav
    /\ navs' = navs + 1
    /\ hist' = Append(SubSeq(hist, 1, pos), f)
    /\ pos' = pos + 1
    /\ SetCurrentBookmarkFolderData(f)
    /\ UNCHANGED <<inited, syncEnabled, syncKey, bookmarkFolderId,
                   bookmarkData, shownFolder, shownFiltered, replaced,
                   changes, syncCalls>>

(* Back or forward to entry to: window.onpopstate asks for the entry's     *)
(* folder, or gives an entry without state the current folder.             *)
OnPopState(to) ==
    /\ inited /\ navs < MaxNav /\ to \in {pos - 1, pos + 1} /\ to \in DOMAIN hist
    /\ navs' = navs + 1
    /\ pos' = to
    /\ IF hist[to] # "nostate"
         THEN /\ SetCurrentBookmarkFolderData(hist[to])
              /\ UNCHANGED hist
         ELSE /\ hist' = [hist EXCEPT ![to] = bookmarkFolderId]
              /\ UNCHANGED <<requests, lastRequested, stored>>
    /\ UNCHANGED <<inited, syncEnabled, syncKey, bookmarkFolderId,
                   bookmarkData, shownFolder, shownFiltered, replaced,
                   changes, syncCalls>>

(* Every bound is spent and every request answered.                        *)
Finished ==
    /\ inited /\ requests = << >>
    /\ navs = MaxNav /\ changes = MaxChanges /\ syncCalls = MaxSyncCalls
    /\ UNCHANGED vars

Next ==
    \/ PageInit
    \/ ReplyBookmarks
    \/ \E en \in {"true", "false"} : SetSyncEnabled(en)
    \/ \E p \in FolderOrNull : BookmarkChanged(p)
    \/ \E f \in Folders : BrowseToBookmarkFolder(f)
    \/ \E to \in 1..Len(hist) : OnPopState(to)
    \/ Finished

Spec == Init /\ [][Next]_vars

-----------------------------------------------------------------------------
(* Once the sync state is known and every request has been answered, the  *)
(* section shows the folder the page asked for last (null meaning the     *)
(* root), filtered exactly when sync is off: answers arrive in order, and *)
(* setSyncEnabled re-renders the data it kept.                             *)
ShownIsLastRequested ==
    inited /\ requests = << >> /\ syncEnabled # "undefined" =>
        /\ shownFolder = IF lastRequested = "null" THEN Root ELSE lastRequested
        /\ shownFiltered = (syncEnabled = "false")

=============================================================================
