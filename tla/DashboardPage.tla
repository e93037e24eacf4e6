---------------------------- MODULE DashboardPage ----------------------------
(***************************************************************************)
(* The dashboard of the panel (components/Dashboard.tsx): the range that   *)
(* is selected, the data on display, the calls that fetch it, and the      *)
(* banner of changes that are pending.                                     *)
(*                                                                         *)
(* A fetch carries the range of the render it was started from, and its    *)
(* answer is put on display whatever is selected by then; nothing cancels  *)
(* a call, so answers land in any order.  The effect that fetches follows  *)
(* the commit of a new range at once, and is part of the same step here.   *)
(***************************************************************************)
EXTENDS FailingCalls

CONSTANTS
    Ranges,         \* what the range box offers; a pair of dates is one more
    DefaultRange,   \* the initial timeRange, "24h"
    DefaultRefresh, \* the initial refreshInterval
    NoPrefs,        \* localStorage has no dashboard_prefs
    DashSlots      \* bound: the calls of the page in flight, 1..n

\* The mount may start two calls.
ASSUME DashSlotsAssumption == {1, 2} \subseteq DashSlots

VARIABLES
    prefs,      \* localStorage 'dashboard_prefs'
    pending,    \* the server's SingboxPendingChanges
    range,      \* timeRange, with customStart and customEnd
    service,    \* chartMode
    refresh,    \* refreshInterval
    touched,    \* history: range or service have been chosen on the page
    domain,     \* chartDomain: the range of the fetch started last
    data,       \* the range of the data on display
    banner,     \* singboxPendingChanges
    dashLoading,    \* the spinner, which disables the refresh button
    dashCalls   \* the calls of the page

dashVars ==
    <<range, service, refresh, touched, domain, data, banner, dashLoading, dashCalls>>

NoData == "none"

NoCall == [at |-> "idle"]

FetchCall(r) == [at |-> "asked", what |-> "fetch", range |-> r]

\* The page before its mount.
DashboardInit ==
    /\ range = DefaultRange /\ service = "singbox" /\ refresh = DefaultRefresh
    /\ touched = FALSE /\ domain = NoData /\ data = NoData
    /\ banner = FALSE /\ dashLoading = FALSE
    /\ dashCalls = [i \in DashSlots |-> NoCall]

Defaults == [range |-> DefaultRange, service |-> "singbox", refresh |-> DefaultRefresh]

\* A state without data, of the preferences and with the calls given.
DashboardAfresh(p, calls, asked) ==
    /\ range' = p.range /\ service' = p.service /\ refresh' = p.refresh
    /\ touched' = FALSE /\ domain' = asked /\ data' = NoData
    /\ banner' = FALSE /\ dashLoading' = (asked # NoData)
    /\ dashCalls' = calls

PreferredInPart ==  \* Mutant: the mount forgets the service.
    IF prefs = NoPrefs THEN Defaults ELSE [prefs EXCEPT !.service = "singbox"]

\* What the mount effect makes of the preferences; what is missing stays.
Preferred == IF prefs = NoPrefs THEN Defaults ELSE prefs

\* The two effects of the mount: the preferences are set, and a fetch starts
\* with the range of the first render; the commit of other preferences starts
\* a second one.
DashboardMounts ==
    LET again == \/ Preferred.range # DefaultRange
                 \/ Preferred.refresh # DefaultRefresh
    IN  DashboardAfresh(Preferred,
                        [i \in DashSlots |->
                           CASE i = 1 -> FetchCall(DefaultRange)
                             [] i = 2 /\ again -> FetchCall(Preferred.range)
                             [] OTHER -> NoCall],
                        Preferred.range)

\* Unmounted, the page has no state, and nobody hears its answers.
DashboardUnmounts ==
    DashboardAfresh(Defaults, [i \in DashSlots |-> NoCall], NoData)

\* fetchData, of a render that shows range r.
Fetch(i, r) ==
    /\ dashCalls' = [dashCalls EXCEPT ![i] = FetchCall(r)]
    /\ dashLoading' = TRUE
    /\ domain' = r

Free(i) == dashCalls[i] = NoCall

\* Another range, or another date of a custom one.
SelectRange(i, r) ==
    /\ Free(i) /\ r # range
    /\ range' = r
    /\ touched' = TRUE
    /\ Fetch(i, r)
    /\ UNCHANGED <<prefs, pending, service, refresh, data, banner, fails>>

SelectService(s) ==
    /\ s # service
    /\ service' = s
    /\ touched' = TRUE
    /\ UNCHANGED <<prefs, pending, range, refresh, domain, data, banner, dashLoading,
                   dashCalls, fails>>

(* Mutant: the interval keeps the fetchData of the first render.           *)
PollOfFirstRender(i) ==
    /\ Free(i)
    /\ Fetch(i, DefaultRange)
    /\ UNCHANGED <<prefs, pending, range, service, refresh, touched, data, banner,
                   fails>>

\* The interval, and the refresh button while nothing is loading.
PollDashboard(i) ==
    /\ Free(i)
    /\ Fetch(i, range)
    /\ UNCHANGED <<prefs, pending, range, service, refresh, touched, data, banner,
                   fails>>

\* handleApplySingboxChanges, from the banner.
ApplyClick(i) ==
    /\ Free(i) /\ banner
    /\ dashCalls' = [dashCalls EXCEPT ![i] =
                       [at |-> "asked", what |-> "apply", range |-> range]]
    /\ UNCHANGED <<prefs, pending, range, service, refresh, touched, domain, data,
                   banner, dashLoading, fails>>

\* The server answers a fetch with its pending flag, an apply by clearing it.
\* Left out is the cache of 15 s in front of the fetch, of one window to the
\* second (handlers_dashboard.go:98), which may give a flag of that age.
ServeDashboard(i) ==
    LET c == dashCalls[i]
    IN  /\ c.at = "asked"
        /\ pending' = (pending /\ c.what = "fetch")
        /\ dashCalls' = [dashCalls EXCEPT ![i] =
                           [at |-> "answered", what |-> c.what, range |-> c.range,
                            pending |-> pending']]
        /\ UNCHANGED <<prefs, range, service, refresh, touched, domain, data,
                       banner, dashLoading, fails>>

\* The data, the status and the flag of the answer, and the spinner off.
LandFetch(i) ==
    LET c == dashCalls[i]
    IN  /\ c.at = "answered" /\ c.what = "fetch"
        /\ data' = c.range
        /\ banner' = c.pending
        /\ dashLoading' = FALSE
        /\ dashCalls' = [dashCalls EXCEPT ![i] = NoCall]
        /\ UNCHANGED <<prefs, pending, range, service, refresh, touched, domain, fails>>

\* The banner goes, and the fetch of the render of the click follows.
LandApply(i) ==
    LET c == dashCalls[i]
    IN  /\ c.at = "answered" /\ c.what = "apply"
        /\ banner' = FALSE
        /\ Fetch(i, c.range)
        /\ UNCHANGED <<prefs, pending, range, service, refresh, touched, data, fails>>

\* A call fails: the finally of a fetch, the alert of an apply, which may
\* have had its effect.
FailDashboard(i) ==
    LET c == dashCalls[i]
    IN  /\ c.at = "asked" /\ CallFails
        /\ dashCalls' = [dashCalls EXCEPT ![i] = NoCall]
        /\ dashLoading' = (dashLoading /\ c.what # "fetch")
        /\ pending' \in IF c.what = "apply" THEN {pending, FALSE} ELSE {pending}
        /\ UNCHANGED <<prefs, range, service, refresh, touched, domain, data, banner>>

\* An edit of the configuration, from another page or by somebody else.
EditServer ==
    /\ ~pending
    /\ pending' = TRUE
    /\ UNCHANGED <<prefs, dashVars, fails>>

AnswerDashboard ==
    \E i \in DashSlots : ServeDashboard(i) \/ LandFetch(i) \/ LandApply(i)

PollsDashboard == \E i \in DashSlots : PollDashboard(i)

UseDashboard ==
    \/ \E i \in DashSlots, r \in Ranges : SelectRange(i, r)
    \/ \E s \in {"singbox", "wireguard"} : SelectService(s)
    \/ \E i \in DashSlots : ApplyClick(i) \/ FailDashboard(i)

=============================================================================
