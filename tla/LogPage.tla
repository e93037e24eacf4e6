------------------------------- MODULE LogPage -------------------------------
(***************************************************************************)
(* The log page of the panel (components/LogViewer.tsx): a live tail that  *)
(* polls, and a search by pages, which share the lines on display and the  *)
(* mode.                                                                   *)
(*                                                                         *)
(* An answer of either kind replaces the lines and sets the mode to its    *)
(* own, whatever the mode has become.  A filter or a search term stands    *)
(* here for the term with its limit of lines.  What a search finds is left *)
(* open: any page below MaxPage may have another one behind it.            *)
(***************************************************************************)
EXTENDS FailingCalls

CONSTANTS
    Terms,      \* what is typed as a filter or as a search term
    Blank,      \* nothing typed
    MaxPage,    \* bound: the pages a search has
    LogSlots    \* bound: the calls of the page in flight

\* A search has a page, and the mount starts a call.
ASSUME PagesAssumption == MaxPage \in Nat \ {0} /\ 1 \in LogSlots

VARIABLES
    mode,       \* viewMode
    lines,      \* what the lines on display are
    query,      \* the filter of the tail
    sought,     \* searchQuery
    searchPage,
    hasMore,    \* searchHasMore
    searching,
    logCalls    \* the calls of the page

logVars == <<mode, lines, query, sought, searchPage, hasMore, searching, logCalls>>

NoAsk == [what |-> "idle"]

TailCall(q) == [what |-> "tail", term |-> q]

SearchCall(q, p) == [what |-> "search", term |-> q, page |-> p]

Silent(i) == logCalls[i] = NoAsk

\* The page before its mount.
LogsInit ==
    /\ mode = "tail" /\ lines = [what |-> "nothing"]
    /\ query = Blank /\ sought = Blank
    /\ searchPage = 1 /\ hasMore = FALSE /\ searching = FALSE
    /\ logCalls = [i \in LogSlots |-> NoAsk]

\* The initial state, with the calls given.
LogsAfresh(calls) ==
    /\ mode' = "tail" /\ lines' = [what |-> "nothing"]
    /\ query' = Blank /\ sought' = Blank
    /\ searchPage' = 1 /\ hasMore' = FALSE /\ searching' = FALSE
    /\ logCalls' = calls

\* The effect of the tail mode asks for the lines at once.
LogsMount == LogsAfresh([i \in LogSlots |-> IF i = 1 THEN TailCall(Blank) ELSE NoAsk])

\* Unmounted, the page has no state, and nobody hears its answers.
LogsUnmount == LogsAfresh([i \in LogSlots |-> NoAsk])

Ask(i, c) == logCalls' = [logCalls EXCEPT ![i] = c]

(* Mutant: the interval keeps the filter of the first render.              *)
PollTailUnfiltered(i) ==
    /\ mode = "tail" /\ Silent(i)
    /\ Ask(i, TailCall(Blank))
    /\ UNCHANGED <<mode, lines, query, sought, searchPage, hasMore, searching, fails>>

\* fetchLogs(true): the interval, the buttons Refresh Now and Apply Filter.
PollTail(i) ==
    /\ mode = "tail" /\ Silent(i)
    /\ Ask(i, TailCall(query))
    /\ UNCHANGED <<mode, lines, query, sought, searchPage, hasMore, searching, fails>>

\* Another filter or limit, which the effect of the tail depends on.
FilterTail(i, q) ==
    /\ mode = "tail" /\ Silent(i) /\ q # query
    /\ query' = q
    /\ Ask(i, TailCall(q))
    /\ UNCHANGED <<mode, lines, sought, searchPage, hasMore, searching, fails>>

\* The two buttons of the mode; the effect runs for the tail.
LiveTail(i) ==
    /\ mode = "search" /\ Silent(i)
    /\ mode' = "tail"
    /\ Ask(i, TailCall(query))
    /\ UNCHANGED <<lines, query, sought, searchPage, hasMore, searching, fails>>

SearchHistory ==
    /\ mode = "tail"
    /\ mode' = "search"
    /\ UNCHANGED <<lines, query, sought, searchPage, hasMore, searching, logCalls, fails>>

\* Another search term or limit: the page count starts again.
TypeSearch(q) ==
    /\ mode = "search" /\ q # sought
    /\ sought' = q
    /\ searchPage' = 1
    /\ UNCHANGED <<mode, lines, query, hasMore, searching, logCalls, fails>>

\* handleSearch of an empty term asks nobody.
BlankSearch ==
    /\ mode = "search" /\ sought = Blank
    /\ lines' = [what |-> "hint"]
    /\ searchPage' = 1
    /\ hasMore' = FALSE
    /\ UNCHANGED <<mode, query, sought, searching, logCalls, fails>>

\* handleSearch.  The Enter key asks for the first page at any time; the
\* buttons wait for the search before.
Search(i, p) ==
    /\ mode = "search" /\ sought # Blank /\ Silent(i)
    /\ \/ p = 1
       \/ ~searching /\ searchPage > 1 /\ p = searchPage - 1
       \/ ~searching /\ hasMore /\ p = searchPage + 1
    /\ searching' = TRUE
    /\ Ask(i, SearchCall(sought, p))
    /\ UNCHANGED <<mode, lines, query, sought, searchPage, hasMore, fails>>

\* An answer of the tail: the mode is the tail, and if it was not, the effect
\* runs and asks again.
TailShows(i, l) ==
    /\ lines' = l
    /\ mode' = "tail"
    /\ Ask(i, IF mode = "tail" THEN NoAsk ELSE TailCall(query))
    /\ UNCHANGED <<query, sought, searchPage, hasMore, searching>>

LandTail(i) ==
    /\ logCalls[i].what = "tail"
    /\ TailShows(i, logCalls[i])
    /\ UNCHANGED fails

(* Mutant: the page after the one that was asked for.                      *)
LandSearchNextPage(i) ==
    /\ logCalls[i].what = "search"
    /\ lines' = logCalls[i]
    /\ mode' = "search"
    /\ searchPage' = logCalls[i].page + 1
    /\ hasMore' \in BOOLEAN
    /\ searching' = FALSE
    /\ Ask(i, NoAsk)
    /\ UNCHANGED <<query, sought, fails>>

\* An answer of a search: lines, mode, page and the button of the next one.
LandSearch(i) ==
    /\ logCalls[i].what = "search"
    /\ lines' = logCalls[i]
    /\ mode' = "search"
    /\ searchPage' = logCalls[i].page
    /\ hasMore' \in IF searchPage' < MaxPage THEN BOOLEAN ELSE {FALSE}
    /\ searching' = FALSE
    /\ Ask(i, NoAsk)
    /\ UNCHANGED <<query, sought, fails>>

(* Mutant: setSearching(false) is not in the finally.                      *)
FailLogsStillSearching(i) ==
    /\ CallFails
    /\ \/ logCalls[i].what = "tail" /\ TailShows(i, [what |-> "error"])
       \/ /\ logCalls[i].what = "search"
          /\ lines' = [what |-> "error"]
          /\ mode' = "search"
          /\ Ask(i, NoAsk)
          /\ UNCHANGED <<query, sought, searchPage, hasMore, searching>>

FailLogs(i) ==
    /\ CallFails
    /\ \/ logCalls[i].what = "tail" /\ TailShows(i, [what |-> "error"])
       \/ /\ logCalls[i].what = "search"
          /\ lines' = [what |-> "error"]
          /\ mode' = "search"
          /\ searching' = FALSE
          /\ Ask(i, NoAsk)
          /\ UNCHANGED <<query, sought, searchPage, hasMore>>

AnswerLogs == \E i \in LogSlots : LandTail(i) \/ LandSearch(i)

PollsTail == \E i \in LogSlots : PollTail(i)

UseLogs ==
    \/ \E i \in LogSlots, q \in Terms \cup {Blank} : FilterTail(i, q)
    \/ \E i \in LogSlots : LiveTail(i) \/ FailLogs(i)
    \/ \E i \in LogSlots, p \in 1..MaxPage : Search(i, p)
    \/ \E q \in Terms \cup {Blank} : TypeSearch(q)
    \/ SearchHistory \/ BlankSearch

=============================================================================
