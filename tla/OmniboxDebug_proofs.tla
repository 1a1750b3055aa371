------------------------- MODULE OmniboxDebug_proofs -------------------------
(***************************************************************************)
(* Proofs about the omnibox debug page and its browser, for every number  *)
(* of queries and of results per query.                                    *)
(***************************************************************************)
EXTENDS OmniboxDebug, SequenceTheorems, TLAPS

-----------------------------------------------------------------------------
(* QuiescedShowsLatestFinal speaks only of a settled state, so it is not  *)
(* inductive.  The invariant below follows a query through both channels: *)
(*  - the queries in flight to the browser are started ones, the last of  *)
(*    them the latest, and the browser runs the latest query once none is *)
(*    in flight;                                                           *)
(*  - the page's results followed by those in flight to it end with the   *)
(*    last result the browser sent for the query it runs, when that is    *)
(*    the latest (results of older queries were sent before it started);  *)
(*  - the page shows the painting of its results whenever it has any, and *)
(*    the cursor position used is the latest query's.                     *)
-----------------------------------------------------------------------------

(* What refresh paints for the results res, the show-incomplete option    *)
(* inc and the cursor position cur.                                         *)
Painting(res, inc, cur) ==
    LET start == IF inc THEN 1 ELSE Len(res)
    IN  [i \in 1..(Len(res) - start + 1) |->
           [q |-> res[start + i - 1].q, done |-> res[start + i - 1].done,
            cursor |-> cur]]

Seen == results \o toPage

QueryKept ==
    /\ cursorUsed = latest
    /\ running <= latest
    /\ \A i \in 1..Len(toBrowser) : toBrowser[i] \in 1..latest
    /\ toBrowser # << >> => toBrowser[Len(toBrowser)] = latest
    /\ toBrowser = << >> => running = latest

ResultKept ==
    running = latest /\ latest > 0 /\ sent > 0 =>
        /\ Seen # << >>
        /\ Seen[Len(Seen)] = [q |-> latest, done |-> sent = ResultsPerQuery]

PaintKept ==
    results # << >> => painted = Painting(results, showIncomplete, cursorUsed)

OmniInv == TypeOK /\ QueryKept /\ ResultKept /\ PaintKept


-----------------------------------------------------------------------------
(* What refresh paints: a non-empty table whose last row is the last      *)
(* result, under the cursor position used.                                  *)
-----------------------------------------------------------------------------

LEMMA PaintingLast ==
    ASSUME NEW res \in Seq(Result), res # << >>,
           NEW inc \in BOOLEAN, NEW cur \in 0..MaxQueries
    PROVE  LET p == Painting(res, inc, cur)
           IN  /\ p \in Seq(Painted)
               /\ p # << >>
               /\ p[Len(p)] = [q |-> res[Len(res)].q, done |-> res[Len(res)].done,
                               cursor |-> cur]
<1> DEFINE start == IF inc THEN 1 ELSE Len(res)
           n == Len(res) - start + 1
<1>1. Len(res) \in Nat \ {0} /\ start \in 1..Len(res) /\ n \in 1..Len(res)
  OBVIOUS
<1>2. \A i \in 1..n : start + i - 1 \in 1..Len(res)
  BY <1>1
<1>3. \A i \in 1..n : res[start + i - 1] \in Result
  BY <1>2
<1>4. Painting(res, inc, cur) \in Seq(Painted)
  BY <1>1, <1>3 DEF Painting, Painted, Result
<1>5. DOMAIN Painting(res, inc, cur) = 1..n
  BY DEF Painting
<1>6. Len(Painting(res, inc, cur)) = n
  <2> DEFINE p == Painting(res, inc, cur)
  <2>1. Len(p) \in Nat /\ DOMAIN p = 1..Len(p)
    BY <1>4, LenProperties
  <2>2. 1..Len(p) = 1..n
    BY <1>5, <2>1
  <2>3. n \in 1..n /\ (Len(p) # 0 => Len(p) \in 1..Len(p))
    BY <1>1, <2>1
  <2>4. n \in 1..Len(p) /\ (Len(p) # 0 => Len(p) \in 1..n)
    BY <2>2, <2>3, Zenon
  <2>5. QED
    BY <1>1, <2>1, <2>4
<1>7. Painting(res, inc, cur)[n] =
          [q |-> res[Len(res)].q, done |-> res[Len(res)].done, cursor |-> cur]
  <2>1. n \in 1..n /\ start + n - 1 = Len(res)
    BY <1>1
  <2>2. QED
    BY <2>1 DEF Painting
<1>8. QED
  BY <1>1, <1>4, <1>6, <1>7

(* refresh paints nothing without results, and their painting otherwise.  *)
LEMMA RefreshPaints ==
    ASSUME NEW res
    PROVE  Refresh(res) <=>
               painted' = IF res = << >> THEN << >>
                          ELSE Painting(res, showIncomplete', cursorUsed')
BY DEF Refresh, Painting

-----------------------------------------------------------------------------
(* Every step keeps the page, the browser and both channels in their type. *)
-----------------------------------------------------------------------------

LEMMA InitTypeOK == Init => TypeOK
BY OmniboxAssumption DEF Init, TypeOK

LEMMA NextTypeOK == TypeOK /\ [Next]_vars => TypeOK'
<1> SUFFICES ASSUME TypeOK, [Next]_vars PROVE TypeOK'
  OBVIOUS
<1> USE OmniboxAssumption
<1>1. CASE StartOmniboxQuery
  BY <1>1 DEF StartOmniboxQuery, TypeOK, Query
<1>2. CASE HandleNewAutocompleteResult
  <2>1. Head(toPage) \in Result /\ Tail(toPage) \in Seq(Result)
    BY <1>2 DEF HandleNewAutocompleteResult, TypeOK
  <2>2. results' \in Seq(Result) /\ results' # << >>
    <3>1. results' = Append(results, Head(toPage))
      BY <1>2 DEF HandleNewAutocompleteResult
    <3>2. QED
      BY <2>1, <3>1, AppendProperties DEF TypeOK
  <2>3. painted' = Painting(results', showIncomplete', cursorUsed')
    BY <1>2, <2>2, RefreshPaints DEF HandleNewAutocompleteResult
  <2>4. painted' \in Seq(Painted)
    BY <1>2, <2>2, <2>3, PaintingLast DEF HandleNewAutocompleteResult, TypeOK
  <2>5. QED
    BY <1>2, <2>1, <2>2, <2>4 DEF HandleNewAutocompleteResult, TypeOK
<1>3. CASE ChangeDisplayOption
  <2>1. PICK incomplete \in BOOLEAN :
          /\ showIncomplete' = incomplete
          /\ Refresh(results)
    BY <1>3 DEF ChangeDisplayOption
  <2>2. painted' \in Seq(Painted)
    <3>1. CASE results = << >>
      BY <2>1, <3>1 DEF Refresh
    <3>2. CASE results # << >>
      BY <1>3, <2>1, <3>2, RefreshPaints, PaintingLast
      DEF ChangeDisplayOption, TypeOK
    <3>3. QED
      BY <3>1, <3>2
  <2>3. QED
    BY <1>3, <2>1, <2>2 DEF ChangeDisplayOption, TypeOK
<1>4. CASE BrowserStart
  BY <1>4 DEF BrowserStart, TypeOK, Query
<1>5. CASE BrowserResult
  BY <1>5 DEF BrowserResult, TypeOK, Result, Query
<1>6. CASE UNCHANGED vars
  BY <1>6 DEF vars, TypeOK
<1>7. QED
  BY <1>1, <1>2, <1>3, <1>4, <1>5, <1>6 DEF Next

(* Every variable keeps its type.                                           *)
THEOREM TypeCorrect == Spec => []TypeOK
BY InitTypeOK, NextTypeOK, PTL DEF Spec

-----------------------------------------------------------------------------
(* The invariant QueryKept /\ ResultKept /\ PaintKept.                      *)
-----------------------------------------------------------------------------

(* handleNewAutocompleteResult moves a result from the channel to the     *)
(* page: the results seen so far, in order, are the same.                  *)
LEMMA MoveHead ==
    ASSUME NEW S, NEW s \in Seq(S), NEW t \in Seq(S), t # << >>
    PROVE  Append(s, Head(t)) \o Tail(t) = s \o t
<1>1. /\ Append(s, Head(t)) \o Tail(t) \in Seq(S)
      /\ s \o t \in Seq(S)
      /\ Len(Append(s, Head(t)) \o Tail(t)) = Len(s \o t)
  BY HeadTailProperties, AppendProperties, ConcatProperties
<1>2. \A i \in 1..Len(s \o t) : (Append(s, Head(t)) \o Tail(t))[i] = (s \o t)[i]
  BY HeadTailProperties, AppendProperties, ConcatProperties
<1>3. QED
  BY <1>1, <1>2, SeqEqual

(* The browser's result goes to the end of what the page will have seen. *)
LEMMA SendLast ==
    ASSUME NEW S, NEW s \in Seq(S), NEW t \in Seq(S), NEW x \in S
    PROVE  LET u == s \o Append(t, x)
           IN  u # << >> /\ u[Len(u)] = x
BY AppendProperties, ConcatProperties

LEMMA InitOmni == Init => QueryKept /\ ResultKept /\ PaintKept
BY DEF Init, QueryKept, ResultKept, PaintKept

LEMMA NextOmni == OmniInv /\ [Next]_vars => (QueryKept /\ ResultKept /\ PaintKept)'
<1> SUFFICES ASSUME TypeOK, QueryKept, ResultKept, PaintKept, [Next]_vars
             PROVE  (QueryKept /\ ResultKept /\ PaintKept)'
  BY DEF OmniInv
<1> USE OmniboxAssumption
<1>1. CASE StartOmniboxQuery
  <2>1. QueryKept'
    BY <1>1 DEF StartOmniboxQuery, QueryKept, TypeOK
  <2>2. ResultKept'
    BY <1>1 DEF StartOmniboxQuery, QueryKept, ResultKept, TypeOK
  <2>3. PaintKept'
    BY <1>1 DEF StartOmniboxQuery, PaintKept
  <2>4. QED
    BY <2>1, <2>2, <2>3
<1>2. CASE HandleNewAutocompleteResult
  <2>1. Seen' = Seen
    BY <1>2, MoveHead DEF HandleNewAutocompleteResult, Seen, TypeOK
  <2>2. results' # << >>
    BY <1>2 DEF HandleNewAutocompleteResult
  <2>3. PaintKept'
    BY <1>2, <2>2, RefreshPaints DEF HandleNewAutocompleteResult, PaintKept
  <2>4. QED
    BY <1>2, <2>1, <2>3 DEF HandleNewAutocompleteResult, QueryKept, ResultKept
<1>3. CASE ChangeDisplayOption
  <2>1. PaintKept'
    BY <1>3 DEF ChangeDisplayOption, PaintKept, Refresh, Painting
  <2>2. QED
    BY <1>3, <2>1 DEF ChangeDisplayOption, QueryKept, ResultKept, Seen
<1>4. CASE BrowserStart
  <2> DEFINE n == Len(toBrowser)
  <2>1. n \in Nat \ {0} /\ Len(toBrowser') = n - 1
        /\ \A i \in 1..n-1 : toBrowser'[i] = toBrowser[i+1]
    BY <1>4 DEF BrowserStart, TypeOK
  <2>2. running' \in 1..latest /\ (n = 1 => running' = latest)
    BY <1>4, <2>1 DEF BrowserStart, QueryKept
  <2>3. QueryKept'
    <3>1. cursorUsed' = latest' /\ running' <= latest'
      BY <1>4, <2>2 DEF BrowserStart, QueryKept
    <3>2. \A i \in 1..Len(toBrowser') : toBrowser'[i] \in 1..latest'
      BY <1>4, <2>1 DEF BrowserStart, QueryKept
    <3>3. toBrowser' # << >> => toBrowser'[Len(toBrowser')] = latest'
      <4> SUFFICES ASSUME toBrowser' # << >>
                   PROVE  toBrowser'[n - 1] = latest
        BY <1>4, <2>1 DEF BrowserStart
      <4>1. n - 1 \in 1..n-1 /\ n - 1 + 1 = n
        BY <2>1 DEF TypeOK
      <4>2. QED
        BY <2>1, <4>1 DEF QueryKept
    <3>4. toBrowser' = << >> => running' = latest'
      <4> SUFFICES ASSUME toBrowser' = << >> PROVE running' = latest
        BY <1>4 DEF BrowserStart
      <4>1. n = 1
        BY <2>1
      <4>2. QED
        BY <2>2, <4>1
    <3>5. QED
      BY <3>1, <3>2, <3>3, <3>4 DEF QueryKept
  <2>4. QED
    BY <1>4, <2>3 DEF BrowserStart, ResultKept, PaintKept
<1>5. CASE BrowserResult
  <2> DEFINE x == [q |-> running, done |-> sent + 1 = ResultsPerQuery]
  <2>1. x \in Result
    BY <1>5 DEF BrowserResult, TypeOK, Result, Query
  <2>2. Seen' # << >> /\ Seen'[Len(Seen')] = x
    BY <1>5, <2>1, SendLast DEF BrowserResult, Seen, TypeOK
  <2>3. ResultKept'
    BY <1>5, <2>2 DEF BrowserResult, ResultKept
  <2>4. QED
    BY <1>5, <2>3 DEF BrowserResult, QueryKept, PaintKept
<1>6. CASE UNCHANGED vars
  BY <1>6 DEF vars, QueryKept, ResultKept, PaintKept, Seen, Painting
<1>7. QED
  BY <1>1, <1>2, <1>3, <1>4, <1>5, <1>6 DEF Next

(* Once nothing is in flight and the browser has finished its query, the  *)
(* page's last painted row is the final result of the latest query under  *)
(* that query's cursor position, for any number of queries started while  *)
(* results of earlier ones were still arriving.                            *)
THEOREM QuiescedShowsLatestFinalHolds == Spec => []QuiescedShowsLatestFinal
<1>1. Init => OmniInv
  BY InitTypeOK, InitOmni DEF OmniInv
<1>2. OmniInv /\ [Next]_vars => OmniInv'
  BY NextTypeOK, NextOmni DEF OmniInv
<1>3. OmniInv => QuiescedShowsLatestFinal
  <2> SUFFICES ASSUME OmniInv, Quiesced, latest > 0
               PROVE  /\ painted # << >>
                      /\ painted[Len(painted)] = [q |-> latest, done |-> TRUE,
                                                  cursor |-> latest]
    BY DEF QuiescedShowsLatestFinal
  <2> USE OmniboxAssumption
  <2>1. running = latest /\ sent = ResultsPerQuery /\ sent > 0
    BY DEF OmniInv, QueryKept, Quiesced
  <2>2. Seen = results
    BY ConcatEmptySeq DEF Seen, Quiesced, OmniInv, TypeOK
  <2>3. results # << >> /\ results[Len(results)] = [q |-> latest, done |-> TRUE]
    BY <2>1, <2>2 DEF OmniInv, ResultKept
  <2>4. painted = Painting(results, showIncomplete, latest)
    BY <2>3 DEF OmniInv, PaintKept, QueryKept
  <2> DEFINE p == Painting(results, showIncomplete, latest)
  <2>5. /\ p # << >>
        /\ p[Len(p)] = [q |-> results[Len(results)].q,
                        done |-> results[Len(results)].done, cursor |-> latest]
    <3>1. results \in Seq(Result) /\ showIncomplete \in BOOLEAN
          /\ latest \in 0..MaxQueries
      BY DEF OmniInv, TypeOK
    <3>2. QED
      BY <2>3, <3>1, PaintingLast
  <2>6. QED
    BY <2>3, <2>4, <2>5
<1>4. QED
  BY <1>1, <1>2, <1>3, PTL DEF Spec

=============================================================================
