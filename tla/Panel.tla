-------------------------------- MODULE Panel --------------------------------
(***************************************************************************)
(* The pages of the panel that show what the server has, one at a time:    *)
(* the dashboard, the logs, the links of the user page, and the tab of the *)
(* settings with the preferences of the dashboard.                         *)
(*                                                                         *)
(* A page that is left is unmounted (App.tsx has one route on display):    *)
(* its state goes and answers that are under way find nobody.  What is     *)
(* left is the server, and the preferences in localStorage, which the      *)
(* settings write and the next mount of the dashboard reads.               *)
(***************************************************************************)
EXTENDS DashboardPage, LogPage, LinkModal

CONSTANTS Refreshes     \* values of the refresh interval

VARIABLES
    route,      \* the page on display
    form,       \* dashboardPrefs of the settings
    chosen      \* history: the preferences saved last, or the defaults

panelVars == <<route, form, chosen, prefs, pending, fails, dashVars, logVars, linkVars>>

PanelRoutes == {"dashboard", "logs", "users", "settings"}

Prefs == [range : Ranges \ {"custom"}, service : {"singbox", "wireguard"},
          refresh : Refreshes]

\* The pair of dates is chosen on the dashboard alone.
ASSUME DefaultAssumption == DefaultRange \in Ranges \ {"custom"} /\ DefaultRefresh \in Refreshes
ASSUME PrefsAssumption == NoPrefs \notin Prefs

\* The mount of the settings, and a change of the length of the sampler's
\* history: what localStorage has, or the state's initial values.
LoadPrefs == form' = IF prefs = NoPrefs THEN Defaults ELSE prefs

FormGone == form' = Defaults

\* A link of the menu.
Navigate(r) ==
    /\ r # route
    /\ route' = r
    /\ IF r = "dashboard" THEN DashboardMounts ELSE DashboardUnmounts
    /\ IF r = "logs" THEN LogsMount ELSE LogsUnmount
    /\ LinksUnmount
    /\ IF r = "settings" THEN LoadPrefs ELSE FormGone
    /\ UNCHANGED <<chosen, prefs, pending, fails>>

\* A change of the sampler's history length loads the preferences again, over
\* what has been chosen and not saved; without saved ones the form stays.
ChangeHistory ==
    /\ route = "settings"
    /\ form' = IF prefs = NoPrefs THEN form ELSE prefs
    /\ UNCHANGED <<route, chosen, prefs, pending, fails, dashVars, logVars, linkVars>>

EditPrefs(f) ==
    /\ route = "settings"
    /\ \/ f = [form EXCEPT !.range = f.range]
       \/ f = [form EXCEPT !.service = f.service]
       \/ f = [form EXCEPT !.refresh = f.refresh]
    /\ form' = f
    /\ UNCHANGED <<route, chosen, prefs, pending, fails, dashVars, logVars, linkVars>>

\* handleSave of DashboardTab.
SavePrefs ==
    /\ route = "settings"
    /\ prefs' = form
    /\ chosen' = form
    /\ UNCHANGED <<route, form, pending, fails, dashVars, logVars, linkVars>>

PanelInit ==
    /\ route = "settings"
    /\ prefs = NoPrefs /\ form = Defaults /\ chosen = Defaults
    /\ pending = FALSE /\ fails = 0
    /\ DashboardInit /\ LogsInit /\ LinksInit

OnDashboard(A) ==
    /\ route = "dashboard"
    /\ A
    /\ UNCHANGED <<route, form, chosen, logVars, linkVars>>

OnLogs(A) ==
    /\ route = "logs"
    /\ A
    /\ UNCHANGED <<route, form, chosen, prefs, pending, dashVars, linkVars>>

OnUsers(A) ==
    /\ route = "users"
    /\ A
    /\ UNCHANGED <<route, form, chosen, prefs, pending, dashVars, logVars>>

PanelNext ==
    \/ \E r \in PanelRoutes : Navigate(r)
    \/ EditServer /\ UNCHANGED <<route, form, chosen, logVars, linkVars>>
    \/ OnDashboard(AnswerDashboard) \/ OnDashboard(PollsDashboard)
    \/ OnDashboard(UseDashboard)
    \/ OnLogs(AnswerLogs) \/ OnLogs(PollsTail) \/ OnLogs(UseLogs)
    \/ OnUsers(AnswerLinks) \/ OnUsers(UseLinks)
    \/ \E f \in Prefs : EditPrefs(f)
    \/ SavePrefs \/ ChangeHistory

\* Calls are answered, some of them at least; and the two intervals tick,
\* which other calls of the page may precede each time.
PanelFairness ==
    /\ WF_panelVars(OnDashboard(AnswerDashboard))
    /\ SF_panelVars(OnDashboard(PollsDashboard))
    /\ WF_panelVars(OnLogs(AnswerLogs))
    /\ SF_panelVars(OnLogs(PollsTail))

PanelSpec == PanelInit /\ [][PanelNext]_panelVars /\ PanelFairness

-----------------------------------------------------------------------------
(* Properties.                                                             *)

DashCalls ==
    {NoCall} \cup [at : {"asked"}, what : {"fetch", "apply"}, range : Ranges]
      \cup [at : {"answered"}, what : {"fetch", "apply"}, range : Ranges,
            pending : BOOLEAN]

LogCalls ==
    {NoAsk} \cup [what : {"tail"}, term : Terms \cup {Blank}]
      \cup [what : {"search"}, term : Terms, page : 1..MaxPage]

Links == {Empty} \cup (People \X Inbounds)

PanelTypeOK ==
    /\ route \in PanelRoutes
    /\ prefs \in Prefs \cup {NoPrefs} /\ form \in Prefs /\ chosen \in Prefs
    /\ pending \in BOOLEAN /\ fails \in 0..MaxFails
    /\ range \in Ranges /\ {domain, data} \subseteq Ranges \cup {NoData}
    /\ service \in {"singbox", "wireguard"} /\ refresh \in Refreshes
    /\ {touched, banner, dashLoading} \subseteq BOOLEAN
    /\ dashCalls \in [DashSlots -> DashCalls]
    /\ mode \in {"tail", "search"}
    /\ lines \in (LogCalls \ {NoAsk}) \cup [what : {"nothing", "hint", "error"}]
    /\ {query, sought} \subseteq Terms \cup {Blank}
    /\ searchPage \in 1..MaxPage
    /\ {hasMore, searching} \subseteq BOOLEAN
    /\ logCalls \in [LogSlots -> LogCalls]
    /\ who \in People \cup {Nobody} /\ tag \in Inbounds \cup {Empty}
    /\ link \in Links /\ cache \in [Inbounds -> Links]
    /\ linkCalls \in [LinkSlots -> Links]
    /\ {qrError, qrLoading, stray, lost} \subseteq BOOLEAN

\* No page is left waiting for an answer that is not under way: a spinner
\* that stayed would disable the refresh button of the dashboard, or the
\* search buttons, for good.
SpinnersEnd ==
    /\ dashLoading => \E i \in DashSlots :
                    dashCalls[i].at # "idle" /\ dashCalls[i].what = "fetch"
    /\ searching => \E i \in LogSlots : logCalls[i].what = "search"
    /\ qrLoading => \E i \in LinkSlots : linkCalls[i] # NoLinkCall

\* With every answer in, the modal shows the link of its user and inbound,
\* in whatever order the answers for its inbounds came and whichever failed:
\* a failure can leave the modal empty, never with another inbound's link.
\* (An answer for the user of the modal before can: see the hazards.)
LinkSettles ==
    (who # Nobody /\ ~stray /\ \A i \in LinkSlots : FreeLink(i)) =>
      \/ link = <<who, tag>> /\ ~qrError
      \/ link = Empty /\ qrError /\ lost

\* The dashboard opens with the preferences that were saved last, through
\* the storage, its mount and the form of the settings, which reads them
\* again and may save what it read.
OpensAsSaved ==
    (route = "dashboard" /\ ~touched) =>
      [range |-> range, service |-> service, refresh |-> refresh] = chosen

\* A range that stays selected ends up on display and stays there: the data
\* of the ranges before, or of the default one the page opens with, can land
\* on top of it, but the next poll repairs that; and the axis is that of the
\* data.  The banner ends up telling what the server has, once that stays.
DashboardCatchesUp ==
    /\ \A r \in Ranges :
         <>[](route = "dashboard" /\ range = r) => <>[](data = r /\ domain = r)
    /\ \A p \in BOOLEAN :
         <>[](route = "dashboard" /\ pending = p) => <>[](banner = p)

\* A tail that is left on shows the lines of its filter: neither an answer
\* for the filter before nor that of a search stays in their place.
TailCatchesUp ==
    \A q \in Terms \cup {Blank} :
      <>[](route = "logs" /\ mode = "tail" /\ query = q)
        => <>[](lines = TailCall(q))

=============================================================================
