------------------------- MODULE NtpBookmarks_proofs -------------------------
(***************************************************************************)
(* Proofs about the bookmarks section of the mobile New Tab Page, for any *)
(* folders and any number of navigations and change notifications.        *)
(***************************************************************************)
EXTENDS NtpBookmarks, SequenceTheorems, TLAPS

-----------------------------------------------------------------------------
(* Every step keeps the section, localStorage, the request queue and the  *)
(* history entries in their types.                                        *)
-----------------------------------------------------------------------------

LEMMA InitTypeOK == Init => TypeOK
<1> SUFFICES ASSUME Init PROVE TypeOK
  OBVIOUS
<1>1. hist \in Seq(FolderOrNull \cup {"nostate"}) /\ Len(hist) = 1
  BY DEF Init
<1>2. pos \in 1..Len(hist)
  BY <1>1 DEF Init
<1>3. /\ stored \in FolderOrNull /\ bookmarkFolderId \in FolderOrNull
      /\ requests \in Seq(FolderOrNull)
      /\ lastRequested \in FolderOrNull \cup {"none"}
  BY DEF Init, FolderOrNull
<1>4. /\ bookmarkData \in Folders \cup {"undefined"}
      /\ shownFolder \in Folders \cup {"none"}
      /\ navs \in 0..MaxNav /\ changes \in 0..MaxChanges
      /\ syncCalls \in 0..MaxSyncCalls
  BY BookmarksAssumption DEF Init
<1>5. QED
  BY <1>1, <1>2, <1>3, <1>4 DEF Init, TypeOK

(* bookmarks(data) for a folder keeps the types, the history entry it may *)
(* give a state included.                                                   *)
LEMMA BookmarksType ==
    ASSUME TypeOK, NEW d \in Folders, NEW en,
           Bookmarks(d, en)
    PROVE  /\ bookmarkFolderId' \in FolderOrNull
           /\ bookmarkData' \in Folders \cup {"undefined"}
           /\ shownFolder' \in Folders \cup {"none"}
           /\ shownFiltered' \in BOOLEAN
           /\ hist' \in Seq(FolderOrNull \cup {"nostate"})
           /\ Len(hist') = Len(hist)
           /\ replaced' \in BOOLEAN
<1>1. CASE replaced
  BY <1>1 DEF Bookmarks, TypeOK, FolderOrNull
<1>2. CASE ~replaced
  <2>1. hist' = [hist EXCEPT ![pos] = d]
    BY <1>2 DEF Bookmarks
  <2>2. hist' \in Seq(FolderOrNull \cup {"nostate"}) /\ Len(hist') = Len(hist)
    BY <2>1, ExceptSeq DEF TypeOK, FolderOrNull
  <2>3. QED
    BY <1>2, <2>2 DEF Bookmarks, TypeOK, FolderOrNull
<1>3. QED
  BY <1>1, <1>2

LEMMA NextTypeOK == TypeOK /\ [Next]_vars => TypeOK'
<1> SUFFICES ASSUME TypeOK, [Next]_vars PROVE TypeOK'
  OBVIOUS
<1> USE BookmarksAssumption
<1>1. CASE PageInit
  BY <1>1 DEF PageInit, TypeOK, FolderOrNull
<1>2. CASE ReplyBookmarks
  <2> DEFINE d == IF Head(requests) = "null" THEN Root ELSE Head(requests)
  <2>1. Head(requests) \in FolderOrNull /\ Tail(requests) \in Seq(FolderOrNull)
    BY <1>2, HeadTailProperties DEF ReplyBookmarks, TypeOK
  <2>2. d \in Folders
    BY <2>1 DEF FolderOrNull
  <2>3. Bookmarks(d, syncEnabled)
    BY <1>2 DEF ReplyBookmarks
  <2>4. QED
    BY <1>2, <2>1, <2>2, <2>3, BookmarksType DEF ReplyBookmarks, TypeOK
<1>3. ASSUME NEW en \in {"true", "false"}, SetSyncEnabled(en) PROVE TypeOK'
  <2>1. CASE syncEnabled # "undefined" /\ syncEnabled = en
    BY <1>3, <2>1 DEF SetSyncEnabled, TypeOK
  <2>2. CASE ~(syncEnabled # "undefined" /\ syncEnabled = en)
    <3>1. /\ syncEnabled' = en
          /\ syncKey' \in BOOLEAN
          /\ stored' \in FolderOrNull
          /\ requests' \in Seq(FolderOrNull)
          /\ lastRequested' \in FolderOrNull \cup {"none"}
      <4>1. CASE en = "true" /\ ~syncKey
        <5>1. /\ syncEnabled' = en /\ syncKey' = TRUE
              /\ SetCurrentBookmarkFolderData(Root)
          BY <1>3, <2>2, <4>1 DEF SetSyncEnabled
        <5>2. Root \in FolderOrNull
          BY BookmarksAssumption DEF FolderOrNull
        <5>3. QED
          BY <5>1, <5>2 DEF SetCurrentBookmarkFolderData, TypeOK
      <4>2. CASE ~(en = "true" /\ ~syncKey)
        BY <1>3, <2>2, <4>2 DEF SetSyncEnabled, TypeOK
      <4>3. QED
        BY <4>1, <4>2
    <3>2. CASE bookmarkData # "undefined"
      <4>1. bookmarkData \in Folders /\ Bookmarks(bookmarkData, en)
        BY <1>3, <2>2, <3>2 DEF SetSyncEnabled, TypeOK
      <4>2. QED
        BY <1>3, <3>1, <4>1, BookmarksType DEF SetSyncEnabled, TypeOK
    <3>3. CASE bookmarkData = "undefined"
      BY <1>3, <2>2, <3>1, <3>3 DEF SetSyncEnabled, TypeOK
    <3>4. QED
      BY <3>2, <3>3
  <2>3. QED
    BY <2>1, <2>2
<1>4. ASSUME NEW p \in FolderOrNull, BookmarkChanged(p) PROVE TypeOK'
  <2>1. changes' \in 0..MaxChanges
    BY <1>4 DEF BookmarkChanged, TypeOK
  <2>2. CASE p = "null" \/ p = bookmarkFolderId
    <3>1. requests' = Append(requests, bookmarkFolderId)
      BY <1>4, <2>2 DEF BookmarkChanged, SetCurrentBookmarkFolderData
    <3>2. requests' \in Seq(FolderOrNull)
      BY <3>1, AppendProperties DEF TypeOK
    <3>3. QED
      BY <1>4, <2>1, <2>2, <3>2 DEF BookmarkChanged,
                                    SetCurrentBookmarkFolderData, TypeOK
  <2>3. CASE ~(p = "null" \/ p = bookmarkFolderId)
    BY <1>4, <2>1, <2>3 DEF BookmarkChanged, TypeOK
  <2>4. QED
    BY <2>2, <2>3
<1>5. ASSUME NEW f \in Folders, BrowseToBookmarkFolder(f) PROVE TypeOK'
  <2>1. /\ SubSeq(hist, 1, pos) \in Seq(FolderOrNull \cup {"nostate"})
        /\ Len(SubSeq(hist, 1, pos)) = pos
    BY DEF TypeOK
  <2>2. /\ hist' \in Seq(FolderOrNull \cup {"nostate"})
        /\ Len(hist') = pos + 1
    BY <1>5, <2>1, AppendProperties DEF BrowseToBookmarkFolder, FolderOrNull
  <2>3. QED
    BY <1>5, <2>2 DEF BrowseToBookmarkFolder, SetCurrentBookmarkFolderData,
                      TypeOK, FolderOrNull
<1>6. ASSUME NEW to \in 1..Len(hist), OnPopState(to) PROVE TypeOK'
  <2>1. CASE hist[to] # "nostate"
    <3>1. hist[to] \in FolderOrNull
      BY <2>1 DEF TypeOK
    <3>2. requests' = Append(requests, hist[to])
      BY <1>6, <2>1 DEF OnPopState, SetCurrentBookmarkFolderData
    <3>4. requests' \in Seq(FolderOrNull)
      BY <3>1, <3>2, AppendProperties DEF TypeOK
    <3>6. /\ navs' = navs + 1 /\ navs < MaxNav /\ pos' = to /\ hist' = hist
          /\ lastRequested' = hist[to] /\ stored' = hist[to]
      BY <1>6, <2>1 DEF OnPopState, SetCurrentBookmarkFolderData
    <3>5. /\ navs' \in 0..MaxNav /\ pos' \in 1..Len(hist')
          /\ lastRequested' = hist[to] /\ stored' = hist[to]
      BY <1>6, <3>6 DEF TypeOK
    <3>3. QED
      BY <1>6, <2>1, <3>1, <3>4, <3>5 DEF OnPopState, TypeOK
  <2>2. CASE hist[to] = "nostate"
    <3>0. /\ hist \in Seq(FolderOrNull \cup {"nostate"})
          /\ bookmarkFolderId \in FolderOrNull \cup {"nostate"}
          /\ hist' = [hist EXCEPT ![to] = bookmarkFolderId]
      BY <1>6, <2>2 DEF OnPopState, TypeOK
    <3>1. hist' \in Seq(FolderOrNull \cup {"nostate"}) /\ Len(hist') = Len(hist)
      BY <3>0, ExceptSeq
    <3>2. QED
      BY <1>6, <2>2, <3>1 DEF OnPopState, TypeOK
  <2>3. QED
    BY <2>1, <2>2
<1>7. CASE Finished \/ UNCHANGED vars
  BY <1>7 DEF Finished, vars, TypeOK
<1>8. QED
  BY <1>1, <1>2, <1>3, <1>4, <1>5, <1>6, <1>7 DEF Next

(* Every variable keeps its type.                                           *)
THEOREM TypeCorrect == Spec => []TypeOK
BY InitTypeOK, NextTypeOK, PTL DEF Spec


=============================================================================
