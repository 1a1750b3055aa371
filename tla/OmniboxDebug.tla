---------------------------- MODULE OmniboxDebug ----------------------------
(***************************************************************************)
(* The chrome://omnibox debug page (omnibox.js) and the browser side it    *)
(* talks to.  startOmniboxQuery clears progressiveAutocompleteResults,     *)
(* remembers the cursor position and sends 'startOmniboxQuery'; the        *)
(* browser runs one query at a time, abandons a query when the next one    *)
(* arrives, and calls handleNewAutocompleteResult with each intermediate   *)
(* result and a final one (done).  Both directions are in-order channels.  *)
(* handleNewAutocompleteResult appends and refresh repaints; refresh also  *)
(* runs when a display option changes.                                     *)
(*                                                                         *)
(* Query q is the page's q-th query; its cursor position is q.  A result  *)
(* is its query and its done flag; a painted result carries the cursor    *)
(* position printed above it.  Formatting of the tables is left out.      *)
(***************************************************************************)
EXTENDS Naturals, Sequences

CONSTANTS
    MaxQueries,      \* bound on the queries the user starts
    ResultsPerQuery  \* results the browser sends for a query run to the end

ASSUME OmniboxAssumption ==
    MaxQueries \in Nat /\ ResultsPerQuery \in Nat \ {0}

VARIABLES
    results,          \* progressiveAutocompleteResults
    cursorUsed,       \* cursorPositionUsed (0: -1, no query yet)
    showIncomplete,   \* the show-incomplete-results checkbox
    painted,          \* the results painted by the last refresh
    latest,           \* queries started by the page
    toBrowser,        \* 'startOmniboxQuery' messages in flight
    running,          \* the browser's current query (0: none)
    sent,             \* results the browser has sent for it
    toPage            \* results in flight to the page

vars == <<results, cursorUsed, showIncomplete, painted, latest, toBrowser,
          running, sent, toPage>>

Query == 1..MaxQueries

Result == [q : Query, done : BOOLEAN]

Painted == [q : Query, done : BOOLEAN, cursor : 0..MaxQueries]

TypeOK ==
    /\ results \in Seq(Result)
    /\ cursorUsed \in 0..MaxQueries
    /\ showIncomplete \in BOOLEAN
    /\ painted \in Seq(Painted)
    /\ latest \in 0..MaxQueries
    /\ toBrowser \in Seq(Query)
    /\ running \in 0..MaxQueries
    /\ sent \in 0..ResultsPerQuery
    /\ toPage \in Seq(Result)

Init ==
    /\ results = << >>
    /\ cursorUsed = 0
    /\ showIncomplete \in BOOLEAN
    /\ painted = << >>
    /\ latest = 0
    /\ toBrowser = << >>
    /\ running = 0
    /\ sent = 0
    /\ toPage = << >>

-----------------------------------------------------------------------------
(* A variant of refresh without the test that there are results: it paints *)
(* element -1, undefined (query 0), under the cursor position.            *)
RefreshNoEmptyCheck(res) ==
    IF res = << >>
      THEN painted' = <<[q |-> 0, done |-> FALSE, cursor |-> cursorUsed']>>
      ELSE LET start == IF showIncomplete' THEN 1 ELSE Len(res)
           IN  painted' = [i \in 1..(Len(res) - start + 1) |->
                             [q |-> res[start + i - 1].q,
                              done |-> res[start + i - 1].done,
                              cursor |-> cursorUsed']]

(* refresh(), painting the results res: nothing when there are none;      *)
(* otherwise every result, or only the last one when incomplete results   *)
(* are hidden, each under the cursor position used.                        *)
Refresh(res) ==
    IF res = << >>
      THEN painted' = << >>
      ELSE LET start == IF showIncomplete' THEN 1 ELSE Len(res)
           IN  painted' = [i \in 1..(Len(res) - start + 1) |->
                             [q |-> res[start + i - 1].q,
                              done |-> res[start + i - 1].done,
                              cursor |-> cursorUsed']]

(* startOmniboxQuery: on submit of the form or a change of the            *)
(* prevent-inline-autocomplete or prefer-keyword checkbox.  The results   *)
(* are cleared, the page is not repainted.                                 *)
StartOmniboxQuery ==
    /\ latest < MaxQueries
    /\ latest' = latest + 1
    /\ results' = << >>
    /\ cursorUsed' = latest + 1
    /\ toBrowser' = Append(toBrowser, latest + 1)
    /\ UNCHANGED <<showIncomplete, painted, running, sent, toPage>>

(* A variant of handleNewAutocompleteResult that does not repaint.        *)
HandleResultNoRefresh ==
    /\ toPage # << >>
    /\ toPage' = Tail(toPage)
    /\ results' = Append(results, Head(toPage))
    /\ UNCHANGED <<cursorUsed, showIncomplete, painted, latest, toBrowser,
                   running, sent>>

(* handleNewAutocompleteResult(result): append, then refresh.             *)
HandleNewAutocompleteResult ==
    /\ toPage # << >>
    /\ toPage' = Tail(toPage)
    /\ results' = Append(results, Head(toPage))
    /\ UNCHANGED <<cursorUsed, showIncomplete, latest, toBrowser, running,
                   sent>>
    /\ Refresh(results')

(* A change of show-details, show-all-providers or show-incomplete-results *)
(* (the last one flips showIncomplete): refresh.                           *)
ChangeDisplayOption ==
    /\ UNCHANGED <<results, cursorUsed, latest, toBrowser, running, sent,
                   toPage>>
    /\ \E incomplete \in BOOLEAN :
         /\ showIncomplete' = incomplete
         /\ Refresh(results)

-----------------------------------------------------------------------------
(* The browser: a new query replaces the running one.                      *)
BrowserStart ==
    /\ toBrowser # << >>
    /\ running' = Head(toBrowser)
    /\ sent' = 0
    /\ toBrowser' = Tail(toBrowser)
    /\ UNCHANGED <<results, cursorUsed, showIncomplete, painted, latest,
                   toPage>>

(* The browser sends the next result of the running query; the last one  *)
(* is done.                                                                *)
BrowserResult ==
    /\ running # 0
    /\ sent < ResultsPerQuery
    /\ sent' = sent + 1
    /\ toPage' = Append(toPage, [q |-> running,
                                 done |-> sent + 1 = ResultsPerQuery])
    /\ UNCHANGED <<results, cursorUsed, showIncomplete, painted, latest,
                   toBrowser, running>>

Next ==
    \/ StartOmniboxQuery
    \/ HandleNewAutocompleteResult
    \/ ChangeDisplayOption
    \/ BrowserStart
    \/ BrowserResult

Spec == Init /\ [][Next]_vars

-----------------------------------------------------------------------------
(* Nothing is in flight and the browser has finished the query it runs.   *)
Quiesced ==
    /\ toBrowser = << >>
    /\ toPage = << >>
    /\ running # 0 => sent = ResultsPerQuery

(* Once everything has settled after a query, the page shows the final    *)
(* result of the latest query last, under that query's cursor position:   *)
(* every result reaches the page and is repainted, in the browser's order. *)
QuiescedShowsLatestFinal ==
    Quiesced /\ latest > 0 =>
        /\ painted # << >>
        /\ painted[Len(painted)] = [q |-> latest, done |-> TRUE,
                                    cursor |-> latest]

(* What the page paints are results of the query it last started, as the  *)
(* comment on progressiveAutocompleteResults says ("all autocomplete      *)
(* results we've seen for this query"), once everything has settled.      *)
QuiescedPaintsOnlyLatest ==
    Quiesced => \A i \in DOMAIN painted : painted[i].q = latest

=============================================================================
