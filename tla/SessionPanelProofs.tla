------------------------- MODULE SessionPanelProofs -------------------------
(***************************************************************************)
(* The safety of Session, for any tabs, tokens and bounds, and of Panel,   *)
(* the pages behind the sign-in, for any ranges, terms, users and bounds.  *)
(*                                                                         *)
(* Session: StoredIsHeld needs to know that a tab that waits for a login   *)
(* has no token yet that the answer would replace (LoadingInv), and        *)
(* BareCallsFollowRemoval that a tab inside the panel with a token, or one *)
(* signed in whose effects have run, finds the store empty after a removal *)
(* only (PanelInv).                                                        *)
(*                                                                         *)
(* Panel: each page has an invariant of its own variables, which the other *)
(* pages leave alone.  LinkSettles speaks of a modal with every answer in, *)
(* so LinkDue says what one with calls under way shows, or has asked for,  *)
(* and whose links its cache holds; OpensAsSaved needs that what was saved *)
(* last is what the storage would give.                                    *)
(***************************************************************************)
EXTENDS Session, Panel, SequenceTheorems, TLAPS

-----------------------------------------------------------------------------
(* Session.                                                                *)

LoadingInv ==
    \A t \in Tabs : loading[t] => /\ page[t] = "login"
                                  /\ token[t] = None /\ shown[t] = None

PanelInv ==
    \A t \in Tabs :
       stored = None =>
         /\ page[t] # "login" /\ token[t] # None => removed
         /\ page[t] # "login" /\ shown[t] # None => removed
         /\ ~due[t] /\ shown[t] # None => removed

IInv ==
    /\ TypeOK
    /\ LoadingInv
    /\ StoredIsHeld
    /\ PanelInv
    /\ BareCallsFollowRemoval

(* All tabs start on the panel without a token.                            *)
LEMMA InitInv == Init => IInv
<1>1. ASSUME Init
      PROVE  TypeOK
  <2>1. token \in [Tabs -> Held] /\ shown \in [Tabs -> Held]
    BY <1>1 DEF Init, Held
  <2>2. /\ due \in [Tabs -> BOOLEAN] /\ loading \in [Tabs -> BOOLEAN]
        /\ page \in [Tabs -> Routes]
    BY <1>1 DEF Init, Routes
  <2>3. reloads \in 0..MaxReloads
    BY <1>1, BoundAssumption DEF Init
  <2>4. calls \subseteq Call /\ answers \subseteq Tabs /\ \A c \in calls : c.bearer \in Held
    BY <1>1 DEF Init
  <2> QED
    BY <1>1, <2>1, <2>2, <2>3, <2>4 DEF Init, TypeOK, Held
<1>2. Init => LoadingInv /\ PanelInv
  BY DEF Init, LoadingInv, PanelInv
<1>3. Init => StoredIsHeld /\ BareCallsFollowRemoval
  BY DEF Init, StoredIsHeld, BareCallsFollowRemoval
<1> QED
  BY <1>1, <1>2, <1>3 DEF IInv

(* The token of a tab is None or one that was issued, and is what its      *)
(* commits, its effects and its reload hand on.                            *)
LEMMA TypeStep ==
    ASSUME TypeOK, [Next]_vars
    PROVE  TypeOK'
<1> USE DEF TypeOK, Held, storeVars, tabVars, worldVars, callVars
<1>1. ASSUME NEW t \in Tabs, Commit(t)
      PROVE  TypeOK'
  BY <1>1 DEF Commit
<1>2. ASSUME NEW t \in Tabs, StoreEffect(t)
      PROVE  TypeOK'
  BY <1>2 DEF StoreEffect, Store
<1>3. ASSUME NEW t \in Tabs, LeavePanel(t) \/ EnterPanel(t) \/ Browse(t) \/ Submit(t)
      PROVE  TypeOK'
  BY <1>3 DEF LeavePanel, EnterPanel, Browse, Submit, Routes
<1>4. ASSUME NEW t \in Tabs, LoginAnswer(t)
      PROVE  TypeOK'
  <2>1. issued' \subseteq Tokens /\ issued \subseteq issued'
    BY <1>4 DEF LoginAnswer
  <2>2. token' \in [Tabs -> issued' \cup {None}]
    BY <1>4, <2>1 DEF LoginAnswer
  <2>3. loading' \in [Tabs -> BOOLEAN]
    BY <1>4 DEF LoginAnswer
  <2> QED
    BY <1>4, <2>1, <2>2, <2>3 DEF LoginAnswer
<1>5. ASSUME NEW t \in Tabs, SignOut(t)
      PROVE  TypeOK'
  BY <1>5 DEF SignOut, Logout, Store
<1>6. ASSUME NEW t \in Tabs, Reload(t)
      PROVE  TypeOK'
  <2>1. page' \in [Tabs -> Routes]
    BY <1>6 DEF Reload, Routes
  <2>2. reloads' \in 0..MaxReloads
    BY <1>6, BoundAssumption DEF Reload
  <2> QED
    BY <1>6, <2>1, <2>2 DEF Reload, CallsOf
<1>7. ASSUME NEW t \in Tabs, NEW kind \in Kinds, Send(t, kind)
      PROVE  TypeOK'
  <2>1. stored \in Bearers
    BY DEF Bearers
  <2> QED
    BY <1>7, <2>1 DEF Send, Call
<1>8. ASSUME NEW c \in calls, Serve(c)
      PROVE  TypeOK'
  <2>1. c.tab \in Tabs /\ MayEnd(c) \subseteq BOOLEAN
    BY DEF Call, MayEnd, AccountMayEnd
  <2> QED
    BY <1>8, <2>1 DEF Serve
<1>9. ASSUME NEW t \in Tabs, Receive(t)
      PROVE  TypeOK'
  BY <1>9 DEF Receive, Logout, Store
<1>10. ASSUME NEW k \in Tokens, Expire(k)
       PROVE  TypeOK'
  BY <1>10 DEF Expire
<1>11. CASE UNCHANGED vars
  BY <1>11 DEF vars
<1> QED
  BY <1>1, <1>2, <1>3, <1>4, <1>5, <1>6, <1>7, <1>8, <1>9, <1>10, <1>11 DEF Next, Tab, React

(* A sign-out empties the store, and says so if there was anything in it;  *)
(* what remains of the tab's token is on display until the next commit.    *)
LEMMA LogoutStep ==
    ASSUME IInv, NEW t \in Tabs, Logout(t),
           UNCHANGED <<shown, due, page, loading>>,
           \A c \in calls' : c.bearer = None => removed'
    PROVE  LoadingInv' /\ StoredIsHeld' /\ PanelInv' /\ BareCallsFollowRemoval'
<1>1. stored' = None /\ (stored # None => removed') /\ (removed => removed')
  BY DEF Logout, Store, IInv, TypeOK
<1>2. LoadingInv'
  BY DEF IInv, TypeOK, LoadingInv, Logout
<1>3. PanelInv'
  BY <1>1 DEF IInv, TypeOK, PanelInv, Logout
<1> QED
  BY <1>1, <1>2, <1>3 DEF StoredIsHeld, BareCallsFollowRemoval

(* No step breaks the invariant.                                           *)
LEMMA InvStep ==
    ASSUME IInv, [Next]_vars
    PROVE  IInv'
<1> USE DEF storeVars, tabVars, worldVars, callVars
<1>0. TypeOK /\ TypeOK'
  BY TypeStep DEF IInv
<1> DEFINE Goal == LoadingInv' /\ StoredIsHeld' /\ PanelInv' /\ BareCallsFollowRemoval'
<1>1. ASSUME NEW t \in Tabs, Commit(t)
      PROVE  Goal
  BY <1>0, <1>1 DEF IInv, TypeOK, Commit, LoadingInv, StoredIsHeld, PanelInv,
                    BareCallsFollowRemoval
<1>2. ASSUME NEW t \in Tabs, StoreEffect(t)
      PROVE  Goal
  <2>1. /\ stored' = shown[t]
        /\ removed' = (removed \/ (stored # None /\ shown[t] = None))
        /\ UNCHANGED <<token, shown, page, loading, calls>>
        /\ due' = [due EXCEPT ![t] = FALSE]
    BY <1>2 DEF StoreEffect, Store
  <2> QED
    BY <1>0, <2>1 DEF IInv, TypeOK, LoadingInv, StoredIsHeld, PanelInv,
                      BareCallsFollowRemoval
<1>3. ASSUME NEW t \in Tabs, LeavePanel(t)
      PROVE  Goal
  BY <1>0, <1>3 DEF IInv, TypeOK, LeavePanel, SignedIn, LoadingInv, StoredIsHeld,
                    PanelInv, BareCallsFollowRemoval
<1>4. ASSUME NEW t \in Tabs, EnterPanel(t)
      PROVE  Goal
  BY <1>0, <1>4 DEF IInv, TypeOK, EnterPanel, SignedIn, LoadingInv, StoredIsHeld,
                    PanelInv, BareCallsFollowRemoval
<1>5. ASSUME NEW t \in Tabs, Submit(t)
      PROVE  Goal
  BY <1>0, <1>5 DEF IInv, TypeOK, Submit, SignedIn, LoadingInv, StoredIsHeld, PanelInv,
                    BareCallsFollowRemoval
<1>6. ASSUME NEW t \in Tabs, LoginAnswer(t)
      PROVE  Goal
  <2>1. page[t] = "login" /\ token[t] = None /\ shown[t] = None
    BY <1>6 DEF LoginAnswer, IInv, LoadingInv
  <2>2. /\ UNCHANGED <<stored, removed, shown, due, page, calls>>
        /\ loading' = [loading EXCEPT ![t] = FALSE]
        /\ \A u \in Tabs \ {t} : token'[u] = token[u]
    BY <1>0, <1>6 DEF LoginAnswer, TypeOK
  <2>3. LoadingInv' /\ PanelInv' /\ BareCallsFollowRemoval'
    BY <1>0, <2>1, <2>2 DEF IInv, TypeOK, LoadingInv, PanelInv, BareCallsFollowRemoval
  <2>4. StoredIsHeld'
    BY <1>0, <2>1, <2>2 DEF IInv, TypeOK, StoredIsHeld
  <2> QED
    BY <2>3, <2>4
<1>7. ASSUME NEW t \in Tabs, SignOut(t)
      PROVE  Goal
  <2>1. \A c \in calls' : c.bearer = None => removed'
    BY <1>7 DEF SignOut, Logout, Store, IInv, BareCallsFollowRemoval
  <2> QED
    BY <1>7, <2>1, LogoutStep DEF SignOut
<1>8. ASSUME NEW t \in Tabs, Reload(t)
      PROVE  Goal
  BY <1>0, <1>8 DEF IInv, TypeOK, Reload, LoadingInv, StoredIsHeld, PanelInv,
                    BareCallsFollowRemoval
<1>9. ASSUME NEW t \in Tabs, NEW kind \in Kinds, Send(t, kind)
      PROVE  Goal
  <2>1. stored = None => removed
    BY <1>9 DEF Send, Mounted, SignedIn, IInv, PanelInv
  <2> QED
    BY <1>9, <2>1 DEF Send, IInv, LoadingInv, StoredIsHeld, PanelInv,
                      BareCallsFollowRemoval
<1>10. ASSUME NEW c \in calls, Serve(c)
       PROVE  Goal
  BY <1>10 DEF Serve, IInv, LoadingInv, StoredIsHeld, PanelInv, BareCallsFollowRemoval
<1>11. ASSUME NEW t \in Tabs, Receive(t)
       PROVE  Goal
  <2>1. \A c \in calls' : c.bearer = None => removed'
    BY <1>11 DEF Receive, Logout, Store, IInv, BareCallsFollowRemoval
  <2> QED
    BY <1>11, <2>1, LogoutStep DEF Receive
<1>12. ASSUME NEW k \in Tokens, Expire(k)
       PROVE  Goal
  BY <1>12 DEF Expire, IInv, LoadingInv, StoredIsHeld, PanelInv, BareCallsFollowRemoval
<1>13. ASSUME UNCHANGED vars
       PROVE  Goal
  BY <1>13 DEF vars, IInv, LoadingInv, StoredIsHeld, PanelInv, BareCallsFollowRemoval
<1>14. ASSUME NEW t \in Tabs, Browse(t)
       PROVE  Goal
  <2>1. /\ UNCHANGED <<stored, removed, token, shown, due, loading, calls>>
        /\ ~due[t] /\ shown[t] # None
        /\ \A u \in Tabs : page'[u] # "login" => page[u] # "login" \/ u = t
        /\ \A u \in Tabs : page[u] = "login" => page'[u] = "login"
    BY <1>0, <1>14 DEF Browse, Mounted, SignedIn, TypeOK
  <2>2. page[t] # "login"
    BY <1>14 DEF Browse, Mounted
  <2> QED
    BY <2>1, <2>2 DEF IInv, LoadingInv, StoredIsHeld, PanelInv, BareCallsFollowRemoval
<1> HIDE DEF Goal
<1>15. Goal
  BY <1>1, <1>2, <1>3, <1>4, <1>5, <1>6, <1>7, <1>8, <1>9, <1>10, <1>11, <1>12, <1>13, <1>14
     DEF Next, Tab, React
<1> QED
  BY <1>0, <1>15 DEF IInv, Goal

LEMMA Invariance == Spec => []IInv
<1>1. Init /\ [][Next]_vars => []IInv
  BY InitInv, InvStep, PTL
<1> QED
  BY <1>1, PTL DEF Spec

(* No tab and no call has a token the server did not issue.                *)
THEOREM TypeCorrect == Spec => []TypeOK
<1>1. IInv => TypeOK
  BY DEF IInv
<1> QED
  BY <1>1, Invariance, PTL

(* The stored token is one some tab has, or a tab's effects are about to   *)
(* replace it: when the last tab is signed out, no token is left behind.   *)
THEOREM StoredIsAlwaysHeld == Spec => []StoredIsHeld
<1>1. IInv => StoredIsHeld
  BY DEF IInv
<1> QED
  BY <1>1, Invariance, PTL

(* A call without a token follows a removal of the stored one: a sign-in   *)
(* stores its token before the pages of the panel ask for anything.        *)
THEOREM BareCallsAlwaysFollowRemoval == Spec => []BareCallsFollowRemoval
<1>1. IInv => BareCallsFollowRemoval
  BY DEF IInv
<1> QED
  BY <1>1, Invariance, PTL

-----------------------------------------------------------------------------
(* Panel: what it keeps, page by page.                                     *)

SettingsInv ==
    /\ route \in PanelRoutes
    /\ prefs \in Prefs \cup {NoPrefs} /\ form \in Prefs /\ chosen \in Prefs
    /\ pending \in BOOLEAN /\ fails \in 0..MaxFails
    /\ chosen = Preferred

DashboardType ==
    /\ range \in Ranges /\ {domain, data} \subseteq Ranges \cup {NoData}
    /\ service \in {"singbox", "wireguard"} /\ refresh \in Refreshes
    /\ {touched, banner, dashLoading} \subseteq BOOLEAN
    /\ dashCalls \in [DashSlots -> DashCalls]

DashboardEnds ==
    dashLoading => \E i \in DashSlots :
                     dashCalls[i].at # "idle" /\ dashCalls[i].what = "fetch"

LogsType ==
    /\ mode \in {"tail", "search"}
    /\ lines \in (LogCalls \ {NoAsk}) \cup [what : {"nothing", "hint", "error"}]
    /\ {query, sought} \subseteq Terms \cup {Blank}
    /\ searchPage \in 1..MaxPage
    /\ {hasMore, searching} \subseteq BOOLEAN
    /\ logCalls \in [LogSlots -> LogCalls]

LogsEnd == searching => \E i \in LogSlots : logCalls[i].what = "search"

LinksType ==
    /\ who \in People \cup {Nobody} /\ tag \in Inbounds \cup {Empty}
    /\ link \in Links /\ cache \in [Inbounds -> Links]
    /\ linkCalls \in [LinkSlots -> Links]
    /\ {qrError, qrLoading, stray, lost} \subseteq BOOLEAN

LinksEnd == qrLoading => \E i \in LinkSlots : linkCalls[i] # NoLinkCall

(* The link of the modal is on display, missing, or asked for; and what is *)
(* cached is of the user the modal is open for.                            *)
LinkDue ==
    who # Nobody =>
      /\ tag \in Inbounds
      /\ ~stray =>
           /\ \A t \in Inbounds : cache[t] \in {Empty, <<who, t>>}
           /\ \/ link = <<who, tag>> /\ ~qrError
              \/ link = Empty /\ qrError /\ lost
              \/ \E i \in LinkSlots : linkCalls[i] = <<who, tag>>

DashboardInv == DashboardType /\ DashboardEnds
LogsInv == LogsType /\ LogsEnd
LinksInv == LinksType /\ LinksEnd /\ LinkDue

PanelIInv == SettingsInv /\ DashboardInv /\ LogsInv /\ LinksInv /\ OpensAsSaved

-----------------------------------------------------------------------------
(* The dashboard.                                                          *)

LEMMA PreferredType ==
    ASSUME SettingsInv
    PROVE  Preferred \in Prefs /\ Defaults \in Prefs
  BY DefaultAssumption DEF SettingsInv, Preferred, Defaults, Prefs

LEMMA FetchKeeps ==
    ASSUME DashboardInv, NEW i \in DashSlots, NEW r \in Ranges, Fetch(i, r)
    PROVE  /\ dashCalls' \in [DashSlots -> DashCalls] /\ DashboardEnds'
           /\ dashLoading' = TRUE /\ domain' = r
<1>1. FetchCall(r) \in DashCalls /\ FetchCall(r).at = "asked" /\ FetchCall(r).what = "fetch"
  BY DEF FetchCall, DashCalls
<1>2. dashCalls \in [DashSlots -> DashCalls]
  BY DEF DashboardInv, DashboardType
<1>3. dashCalls' = [dashCalls EXCEPT ![i] = FetchCall(r)]
  BY DEF Fetch
<1>4. dashCalls' \in [DashSlots -> DashCalls] /\ dashCalls'[i] = FetchCall(r)
  BY <1>1, <1>2, <1>3
<1> QED
  BY <1>1, <1>4 DEF Fetch, DashboardEnds

LEMMA DashboardActs ==
    ASSUME DashboardInv, PollsDashboard \/ UseDashboard, fails \in 0..MaxFails
    PROVE  /\ DashboardInv' /\ prefs' = prefs /\ fails' \in 0..MaxFails
           /\ pending \in BOOLEAN => pending' \in BOOLEAN
           /\ ~touched' => UNCHANGED <<range, service, refresh, touched>>
<1>1. DashboardType /\ DashboardEnds
  BY DEF DashboardInv
<1>2. ASSUME NEW i \in DashSlots, PollDashboard(i)
      PROVE  /\ DashboardInv' /\ prefs' = prefs /\ pending' = pending /\ fails' = fails
             /\ UNCHANGED <<range, service, refresh, touched>>
  <2>1. /\ dashCalls' \in [DashSlots -> DashCalls] /\ DashboardEnds'
        /\ dashLoading' = TRUE /\ domain' = range
    BY <1>1, <1>2, FetchKeeps DEF PollDashboard, DashboardType
  <2> QED
    BY <1>1, <1>2, <2>1 DEF PollDashboard, DashboardInv, DashboardType
<1>3. ASSUME NEW i \in DashSlots, NEW r \in Ranges, SelectRange(i, r)
      PROVE  /\ DashboardInv' /\ prefs' = prefs /\ pending' = pending /\ fails' = fails
             /\ touched' = TRUE
  <2>1. /\ dashCalls' \in [DashSlots -> DashCalls] /\ DashboardEnds'
        /\ dashLoading' = TRUE /\ domain' = r
    BY <1>1, <1>3, FetchKeeps DEF SelectRange
  <2> QED
    BY <1>1, <1>3, <2>1 DEF SelectRange, DashboardInv, DashboardType
<1>4. ASSUME NEW s \in {"singbox", "wireguard"}, SelectService(s)
      PROVE  /\ DashboardInv' /\ prefs' = prefs /\ pending' = pending /\ fails' = fails
             /\ touched' = TRUE
  BY <1>1, <1>4 DEF SelectService, DashboardInv, DashboardType, DashboardEnds
<1>5. ASSUME NEW i \in DashSlots, ApplyClick(i)
      PROVE  /\ DashboardInv' /\ prefs' = prefs /\ pending' = pending /\ fails' = fails
             /\ UNCHANGED <<range, service, refresh, touched>>
  <2> DEFINE c == [at |-> "asked", what |-> "apply", range |-> range]
  <2>1. c \in DashCalls
    BY <1>1 DEF DashCalls, DashboardType
  <2>2. dashCalls' = [dashCalls EXCEPT ![i] = c] /\ dashCalls[i].at = "idle"
    BY <1>5 DEF ApplyClick, Free, NoCall
  <2> HIDE DEF c
  <2>3. dashCalls' \in [DashSlots -> DashCalls] /\ DashboardEnds'
    BY <1>1, <1>5, <2>1, <2>2 DEF ApplyClick, DashboardType, DashboardEnds
  <2> QED
    BY <1>1, <1>5, <2>3 DEF ApplyClick, DashboardInv, DashboardType
<1>6. ASSUME NEW i \in DashSlots, FailDashboard(i)
      PROVE  /\ DashboardInv' /\ prefs' = prefs /\ fails' \in 0..MaxFails
             /\ pending' \in {pending, FALSE}
             /\ UNCHANGED <<range, service, refresh, touched>>
  <2>1. dashCalls' = [dashCalls EXCEPT ![i] = NoCall] /\ NoCall \in DashCalls
    BY <1>6 DEF FailDashboard, DashCalls
  <2>2. dashLoading' = (dashLoading /\ dashCalls[i].what # "fetch")
    BY <1>6 DEF FailDashboard
  <2>3. dashCalls' \in [DashSlots -> DashCalls]
    BY <1>1, <2>1 DEF DashboardType
  <2>4. DashboardEnds'
    BY <1>1, <2>1, <2>2 DEF DashboardType, DashboardEnds
  <2>5. fails' \in 0..MaxFails
    BY <1>6, FailsAssumption DEF FailDashboard, CallFails
  <2> QED
    BY <1>1, <1>6, <2>2, <2>3, <2>4, <2>5 DEF FailDashboard, DashboardInv, DashboardType
<1> QED
  BY <1>2, <1>3, <1>4, <1>5, <1>6 DEF PollsDashboard, UseDashboard

LEMMA DashboardAnswers ==
    ASSUME DashboardInv, AnswerDashboard
    PROVE  /\ DashboardInv' /\ UNCHANGED <<prefs, fails, range, service, refresh, touched>>
           /\ pending \in BOOLEAN => pending' \in BOOLEAN
<1>1. DashboardType /\ DashboardEnds
  BY DEF DashboardInv
<1>2. PICK i \in DashSlots : ServeDashboard(i) \/ LandFetch(i) \/ LandApply(i)
  BY DEF AnswerDashboard
<1>3. dashCalls[i] \in DashCalls
  BY <1>1 DEF DashboardType
<1>4. /\ dashCalls[i].at \in {"asked", "answered"} =>
           dashCalls[i].what \in {"fetch", "apply"} /\ dashCalls[i].range \in Ranges
      /\ dashCalls[i].at = "answered" => dashCalls[i].pending \in BOOLEAN
  BY <1>3 DEF DashCalls, NoCall
<1>5. CASE ServeDashboard(i)
  <2> DEFINE c == [at |-> "answered", what |-> dashCalls[i].what,
                   range |-> dashCalls[i].range, pending |-> pending']
  <2>1. pending' \in BOOLEAN
    BY <1>5 DEF ServeDashboard
  <2>2. c \in DashCalls /\ c.at = "answered" /\ c.what = dashCalls[i].what
    BY <1>4, <1>5, <2>1 DEF DashCalls, ServeDashboard
  <2>3. dashCalls' = [dashCalls EXCEPT ![i] = c]
    BY <1>5 DEF ServeDashboard
  <2> HIDE DEF c
  <2>4. dashCalls' \in [DashSlots -> DashCalls] /\ DashboardEnds'
    BY <1>1, <1>5, <2>2, <2>3 DEF ServeDashboard, DashboardType, DashboardEnds
  <2> QED
    BY <1>1, <1>5, <2>1, <2>4 DEF ServeDashboard, DashboardInv, DashboardType
<1>6. CASE LandFetch(i)
  <2>1. dashCalls' \in [DashSlots -> DashCalls]
    BY <1>1, <1>6 DEF LandFetch, DashboardType, DashCalls
  <2> QED
    BY <1>1, <1>4, <1>6, <2>1 DEF LandFetch, DashboardInv, DashboardType, DashboardEnds
<1>7. CASE LandApply(i)
  <2>1. /\ dashCalls' \in [DashSlots -> DashCalls] /\ DashboardEnds'
        /\ dashLoading' = TRUE /\ domain' = dashCalls[i].range /\ dashCalls[i].range \in Ranges
    BY <1>4, <1>7, FetchKeeps DEF LandApply
  <2> QED
    BY <1>1, <1>7, <2>1 DEF LandApply, DashboardInv, DashboardType
<1> QED
  BY <1>2, <1>5, <1>6, <1>7

LEMMA DashboardOpens ==
    ASSUME SettingsInv, DashboardMounts
    PROVE  /\ DashboardInv'
           /\ range' = Preferred.range /\ service' = Preferred.service
           /\ refresh' = Preferred.refresh
<1> DEFINE again == \/ Preferred.range # DefaultRange
                    \/ Preferred.refresh # DefaultRefresh
           first == [i \in DashSlots |->
                       CASE i = 1 -> FetchCall(DefaultRange)
                         [] i = 2 /\ again -> FetchCall(Preferred.range)
                         [] OTHER -> NoCall]
<1>1. DashboardAfresh(Preferred, first, Preferred.range)
  BY DEF DashboardMounts
<1>2. /\ Preferred.range \in Ranges /\ Preferred.service \in {"singbox", "wireguard"}
      /\ Preferred.refresh \in Refreshes
  BY PreferredType DEF Prefs
<1>3. \A r \in Ranges :
        FetchCall(r) \in DashCalls /\ FetchCall(r).at = "asked" /\ FetchCall(r).what = "fetch"
  BY DEF FetchCall, DashCalls
<1>4. DefaultRange \in Ranges /\ 1 \in DashSlots /\ NoCall \in DashCalls
  BY DefaultAssumption, DashSlotsAssumption DEF DashCalls
<1>5. first \in [DashSlots -> DashCalls] /\ first[1] = FetchCall(DefaultRange)
  BY <1>2, <1>3, <1>4
<1> HIDE DEF first
<1>6. DashboardType'
  BY <1>1, <1>2, <1>5 DEF DashboardAfresh, DashboardType
<1>7. DashboardEnds'
  BY <1>1, <1>3, <1>4, <1>5 DEF DashboardAfresh, DashboardEnds
<1> QED
  BY <1>1, <1>6, <1>7 DEF DashboardAfresh, DashboardInv

LEMMA DashboardCloses ==
    ASSUME SettingsInv, DashboardUnmounts
    PROVE  DashboardInv'
<1>1. [i \in DashSlots |-> NoCall] \in [DashSlots -> DashCalls]
  BY DEF DashCalls
<1>2. Defaults.range \in Ranges /\ Defaults.service \in {"singbox", "wireguard"}
      /\ Defaults.refresh \in Refreshes
  BY PreferredType DEF Prefs
<1> QED
  BY <1>1, <1>2 DEF DashboardUnmounts, DashboardAfresh, DashboardInv, DashboardType, DashboardEnds

-----------------------------------------------------------------------------
(* The logs.                                                               *)

LEMMA LogCallParts ==
    ASSUME NEW c \in LogCalls
    PROVE  /\ c.what = "tail" => c \in LogCalls \ {NoAsk}
           /\ c.what = "search" => c \in LogCalls \ {NoAsk} /\ c.page \in 1..MaxPage
           /\ c.what \in {"idle", "tail", "search"}
  BY DEF LogCalls, NoAsk

(* A call in a slot that held no search leaves the searches alone.         *)
LEMMA AskKeeps ==
    ASSUME LogsInv, NEW i \in LogSlots, NEW c \in LogCalls, Ask(i, c)
    PROVE  /\ logCalls' \in [LogSlots -> LogCalls] /\ logCalls'[i] = c
           /\ logCalls[i].what # "search" /\ searching' = searching => LogsEnd'
  BY DEF LogsInv, LogsType, LogsEnd, Ask

LEMMA AskParts ==
    /\ NoAsk \in LogCalls
    /\ \A q \in Terms \cup {Blank} : TailCall(q) \in LogCalls
    /\ \A q \in Terms, p \in 1..MaxPage :
         SearchCall(q, p) \in LogCalls /\ SearchCall(q, p).what = "search"
  BY DEF LogCalls, NoAsk, TailCall, SearchCall

LEMMA TailShowsKeeps ==
    ASSUME LogsInv, NEW i \in LogSlots, logCalls[i].what = "tail",
           NEW l \in (LogCalls \ {NoAsk}) \cup [what : {"nothing", "hint", "error"}],
           TailShows(i, l)
    PROVE  LogsInv'
<1> DEFINE c == IF mode = "tail" THEN NoAsk ELSE TailCall(query)
<1>1. c \in LogCalls
  BY AskParts DEF LogsInv, LogsType
<1>2. Ask(i, c)
  BY DEF TailShows
<1> HIDE DEF c
<1>3. logCalls' \in [LogSlots -> LogCalls] /\ LogsEnd'
  BY <1>1, <1>2, AskKeeps DEF TailShows
<1> QED
  BY <1>3 DEF TailShows, LogsInv, LogsType

LEMMA LogsAnswers ==
    ASSUME LogsInv, AnswerLogs
    PROVE  LogsInv' /\ fails' = fails
<1>1. PICK i \in LogSlots : LandTail(i) \/ LandSearch(i)
  BY DEF AnswerLogs
<1>2. logCalls[i] \in LogCalls
  BY DEF LogsInv, LogsType
<1>3. CASE LandTail(i)
  BY <1>2, <1>3, LogCallParts, TailShowsKeeps DEF LandTail
<1>4. CASE LandSearch(i)
  <2>1. /\ logCalls[i] \in LogCalls \ {NoAsk} /\ logCalls[i].page \in 1..MaxPage
    BY <1>2, <1>4, LogCallParts DEF LandSearch
  <2>2. logCalls' \in [LogSlots -> LogCalls]
    BY <1>4, AskKeeps, AskParts DEF LandSearch
  <2>3. hasMore' \in BOOLEAN /\ searching' = FALSE
    BY <1>4 DEF LandSearch
  <2> QED
    BY <1>4, <2>1, <2>2, <2>3 DEF LandSearch, LogsInv, LogsType, LogsEnd
<1> QED
  BY <1>1, <1>3, <1>4

LEMMA LogsActs ==
    ASSUME LogsInv, PollsTail \/ UseLogs, fails \in 0..MaxFails
    PROVE  LogsInv' /\ fails' \in 0..MaxFails
<1>1. LogsType /\ LogsEnd
  BY DEF LogsInv
<1>2. \A i \in LogSlots : Silent(i) => logCalls[i].what = "idle"
  BY DEF Silent, NoAsk
<1>3. ASSUME NEW i \in LogSlots, PollTail(i) \/ LiveTail(i)
      PROVE  LogsInv' /\ fails' = fails
  <2>1. TailCall(query) \in LogCalls
    BY <1>1, AskParts DEF LogsType
  <2>2. logCalls' \in [LogSlots -> LogCalls] /\ LogsEnd'
    BY <1>2, <1>3, <2>1, AskKeeps DEF PollTail, LiveTail
  <2> QED
    BY <1>1, <1>3, <2>2 DEF PollTail, LiveTail, LogsInv, LogsType
<1>4. ASSUME NEW i \in LogSlots, NEW q \in Terms \cup {Blank}, FilterTail(i, q)
      PROVE  LogsInv' /\ fails' = fails
  <2>1. TailCall(q) \in LogCalls
    BY AskParts
  <2>2. logCalls' \in [LogSlots -> LogCalls] /\ LogsEnd'
    BY <1>2, <1>4, <2>1, AskKeeps DEF FilterTail
  <2> QED
    BY <1>1, <1>4, <2>2 DEF FilterTail, LogsInv, LogsType
<1>5. ASSUME NEW i \in LogSlots, NEW p \in 1..MaxPage, Search(i, p)
      PROVE  LogsInv' /\ fails' = fails
  <2>1. SearchCall(sought, p) \in LogCalls /\ SearchCall(sought, p).what = "search"
    BY <1>1, <1>5, AskParts DEF Search, LogsType
  <2>2. logCalls' \in [LogSlots -> LogCalls] /\ logCalls'[i] = SearchCall(sought, p)
    BY <1>5, <2>1, AskKeeps DEF Search
  <2> QED
    BY <1>1, <1>5, <2>1, <2>2 DEF Search, LogsInv, LogsType, LogsEnd
<1>6. ASSUME NEW q \in Terms \cup {Blank}, TypeSearch(q)
      PROVE  LogsInv' /\ fails' = fails
  BY <1>1, <1>6, PagesAssumption DEF TypeSearch, LogsInv, LogsType, LogsEnd
<1>7. ASSUME SearchHistory \/ BlankSearch
      PROVE  LogsInv' /\ fails' = fails
  <2>1. CASE SearchHistory
    BY <1>1, <2>1 DEF SearchHistory, LogsInv, LogsType, LogsEnd
  <2>2. CASE BlankSearch
    <3>1. lines' \in [what : {"nothing", "hint", "error"}] /\ searchPage' \in 1..MaxPage
      BY <2>2, PagesAssumption DEF BlankSearch
    <3> QED
      BY <1>1, <2>2, <3>1 DEF BlankSearch, LogsInv, LogsType, LogsEnd
  <2> QED
    BY <1>7, <2>1, <2>2
<1>8. ASSUME NEW i \in LogSlots, FailLogs(i)
      PROVE  LogsInv' /\ fails' \in 0..MaxFails
  <2>1. fails' \in 0..MaxFails
    BY <1>8, FailsAssumption DEF FailLogs, CallFails
  <2>2. [what |-> "error"] \in [what : {"nothing", "hint", "error"}]
    OBVIOUS
  <2>3. CASE logCalls[i].what = "tail" /\ TailShows(i, [what |-> "error"])
    BY <2>1, <2>2, <2>3, TailShowsKeeps
  <2>4. CASE /\ logCalls[i].what = "search"
             /\ lines' = [what |-> "error"]
             /\ mode' = "search"
             /\ searching' = FALSE
             /\ Ask(i, NoAsk)
             /\ UNCHANGED <<query, sought, searchPage, hasMore>>
    <3>1. logCalls' \in [LogSlots -> LogCalls]
      BY <2>4, AskKeeps, AskParts
    <3> QED
      BY <1>1, <2>1, <2>2, <2>4, <3>1 DEF LogsInv, LogsType, LogsEnd
  <2> QED
    BY <1>8, <2>3, <2>4 DEF FailLogs
<1> QED
  BY <1>3, <1>4, <1>5, <1>6, <1>7, <1>8 DEF PollsTail, UseLogs

LEMMA LogsOpen ==
    ASSUME NEW asked \in [LogSlots -> LogCalls], LogsAfresh(asked)
    PROVE  LogsInv'
<1>1. lines' \in [what : {"nothing", "hint", "error"}] /\ searchPage' \in 1..MaxPage
  BY PagesAssumption DEF LogsAfresh
<1> QED
  BY <1>1 DEF LogsAfresh, LogsInv, LogsType, LogsEnd

LEMMA LogsMounts ==
    ASSUME LogsMount \/ LogsUnmount
    PROVE  LogsInv'
<1>1. /\ [i \in LogSlots |-> IF i = 1 THEN TailCall(Blank) ELSE NoAsk] \in [LogSlots -> LogCalls]
      /\ [i \in LogSlots |-> NoAsk] \in [LogSlots -> LogCalls]
  BY AskParts
<1> QED
  BY <1>1, LogsOpen DEF LogsMount, LogsUnmount

-----------------------------------------------------------------------------
(* The links.                                                              *)

(* What the effect puts on display, and what it asks for.                  *)
LEMMA LinkEffectKeeps ==
    ASSUME LinksType, LinksEnd, NEW i \in LinkSlots, NEW u \in People, NEW t \in Inbounds,
           NEW c \in [Inbounds -> Links], NEW l \in Links, NEW busy \in BOOLEAN,
           LinkEffect(i, u, t, c, l, busy), busy => qrLoading /\ FreeLink(i)
    PROVE  /\ link' \in Links /\ linkCalls' \in [LinkSlots -> Links]
           /\ qrError' = FALSE /\ qrLoading' \in BOOLEAN /\ LinksEnd'
           /\ \/ c[t] # Empty /\ link' = c[t]
              \/ linkCalls'[i] = <<u, t>>
<1>1. <<u, t>> \in Links /\ <<u, t>> # Empty /\ Empty \in Links /\ c[t] \in Links
  BY EmptyAssumption DEF Links
<1>2. linkCalls \in [LinkSlots -> Links]
  BY DEF LinksType
<1>3. CASE c[t] # Empty
  <2>1. /\ link' = c[t] /\ qrError' = FALSE /\ qrLoading' = busy
        /\ linkCalls' = [linkCalls EXCEPT ![i] = Empty]
    BY <1>3 DEF LinkEffect, NoLinkCall
  <2>2. linkCalls' \in [LinkSlots -> Links]
    BY <1>1, <1>2, <2>1
  <2>3. LinksEnd'
    BY <1>2, <2>1 DEF LinksEnd, FreeLink, NoLinkCall
  <2> QED
    BY <1>1, <1>3, <2>1, <2>2, <2>3
<1>4. CASE c[t] = Empty
  <2>1. /\ link' = l /\ qrError' = FALSE /\ qrLoading' = TRUE
        /\ linkCalls' = [linkCalls EXCEPT ![i] = <<u, t>>]
    BY <1>4 DEF LinkEffect
  <2>2. linkCalls' \in [LinkSlots -> Links] /\ linkCalls'[i] = <<u, t>>
    BY <1>1, <1>2, <2>1
  <2> QED
    BY <1>1, <2>1, <2>2 DEF LinksEnd, NoLinkCall
<1> QED
  BY <1>3, <1>4

LEMMA NoCacheType == NoCache \in [Inbounds -> Links] /\ \A t \in Inbounds : NoCache[t] = Empty
  BY DEF NoCache, Links

LEMMA OpenLinkStep ==
    ASSUME LinksInv, NEW i \in LinkSlots, NEW u \in People, OpenLink(i, u)
    PROVE  LinksInv' /\ fails' = fails
<1>1. LinksType /\ LinksEnd
  BY DEF LinksInv
<1>2. who' = u /\ tag' = TagsOf[u][1] /\ cache' = NoCache /\ stray' = FALSE /\ lost' = FALSE
      /\ FreeLink(i) /\ fails' = fails
  BY DEF OpenLink
<1>3. tag' \in Inbounds
  <2>1. TagsOf[u] \in Seq(Inbounds) /\ TagsOf[u] # <<>>
    BY TagsAssumption
  <2> QED
    BY <1>2, <2>1, LenProperties, EmptySeq, ElementOfSeq
<1>4. LinkEffect(i, u, tag', NoCache, Empty, qrLoading)
  BY DEF OpenLink
<1>5. Empty \in Links /\ qrLoading \in BOOLEAN
  BY <1>1 DEF Links, LinksType
<1>6. /\ link' \in Links /\ linkCalls' \in [LinkSlots -> Links]
      /\ qrError' = FALSE /\ qrLoading' \in BOOLEAN /\ LinksEnd'
      /\ linkCalls'[i] = <<u, tag'>>
  <2> DEFINE t == tag'
  <2>1. t \in Inbounds /\ LinkEffect(i, u, t, NoCache, Empty, qrLoading)
    BY <1>3, <1>4
  <2> HIDE DEF t
  <2>2. /\ link' \in Links /\ linkCalls' \in [LinkSlots -> Links]
        /\ qrError' = FALSE /\ qrLoading' \in BOOLEAN /\ LinksEnd'
        /\ \/ NoCache[t] # Empty /\ link' = NoCache[t]
           \/ linkCalls'[i] = <<u, t>>
    BY <1>1, <1>2, <1>5, <2>1, NoCacheType, LinkEffectKeeps
  <2> QED
    BY <2>1, <2>2, NoCacheType DEF t
<1>7. LinksType'
  BY <1>1, <1>2, <1>3, <1>6, NoCacheType DEF LinksType
<1>8. LinkDue'
  BY <1>2, <1>3, <1>6, NoCacheType DEF LinkDue
<1> QED
  BY <1>2, <1>6, <1>7, <1>8 DEF LinksInv

LEMMA SelectInboundStep ==
    ASSUME LinksInv, NEW i \in LinkSlots, NEW t \in Inbounds, SelectInbound(i, t)
    PROVE  LinksInv' /\ fails' = fails
<1>1. LinksType /\ LinksEnd /\ LinkDue
  BY DEF LinksInv
<1>2. /\ who # Nobody /\ FreeLink(i) /\ tag' = t /\ UNCHANGED <<who, cache, stray, lost, fails>>
      /\ LinkEffect(i, who, t, cache, link, qrLoading)
  BY DEF SelectInbound
<1>3. who \in People /\ cache \in [Inbounds -> Links] /\ link \in Links /\ qrLoading \in BOOLEAN
  BY <1>1, <1>2 DEF LinksType
<1>4. /\ link' \in Links /\ linkCalls' \in [LinkSlots -> Links]
      /\ qrError' = FALSE /\ qrLoading' \in BOOLEAN /\ LinksEnd'
      /\ \/ cache[t] # Empty /\ link' = cache[t]
         \/ linkCalls'[i] = <<who, t>>
  BY <1>1, <1>2, <1>3, LinkEffectKeeps
<1>5. LinksType'
  BY <1>1, <1>2, <1>4 DEF LinksType
<1>6. LinkDue'
  BY <1>1, <1>2, <1>4 DEF LinkDue
<1> QED
  BY <1>2, <1>4, <1>5, <1>6 DEF LinksInv

LEMMA LandLinkStep ==
    ASSUME LinksInv, NEW i \in LinkSlots, LandLink(i)
    PROVE  LinksInv' /\ fails' = fails
<1> DEFINE c == linkCalls[i]
           filled == [cache EXCEPT ![c[2]] = c]
<1>1. LinksType /\ LinksEnd /\ LinkDue
  BY DEF LinksInv
<1>2. c \in Links /\ c # Empty
  BY <1>1 DEF LinksType, LandLink, FreeLink, NoLinkCall
<1>3. c[1] \in People /\ c[2] \in Inbounds /\ c = <<c[1], c[2]>>
  BY <1>2 DEF Links
<1>4. /\ cache' = filled /\ stray' = (stray \/ (who # Nobody /\ c[1] # who))
      /\ UNCHANGED <<who, tag, lost, fails>>
  BY DEF LandLink
<1>5. filled \in [Inbounds -> Links] /\ cache \in [Inbounds -> Links]
  BY <1>1, <1>2, <1>3 DEF LinksType
<1>6. \A t \in Inbounds : filled[t] = IF t = c[2] THEN c ELSE cache[t]
  BY <1>3, <1>5
<1>7. stray' \in BOOLEAN
  BY <1>4
<1>8. CASE who = Nobody
  <2>1. /\ link' = c /\ qrLoading' = FALSE
        /\ linkCalls' = [linkCalls EXCEPT ![i] = NoLinkCall] /\ qrError' = qrError
    BY <1>8 DEF LandLink
  <2>2. linkCalls' \in [LinkSlots -> Links]
    BY <1>1, <2>1 DEF LinksType, Links, NoLinkCall
  <2> HIDE DEF c, filled
  <2>3. LinksType'
    BY <1>1, <1>2, <1>4, <1>5, <1>7, <2>1, <2>2 DEF LinksType
  <2> QED
    BY <1>4, <1>8, <2>1, <2>3 DEF LinksInv, LinksEnd, LinkDue
<1>9. CASE who # Nobody
  <2>1. who \in People /\ tag \in Inbounds
    BY <1>1, <1>9 DEF LinksType, LinkDue
  <2>2. LinkEffect(i, who, tag, filled, c, FALSE)
    BY <1>9 DEF LandLink
  <2> HIDE DEF c, filled
  <2>3. /\ link' \in Links /\ linkCalls' \in [LinkSlots -> Links]
        /\ qrError' = FALSE /\ qrLoading' \in BOOLEAN /\ LinksEnd'
        /\ \/ filled[tag] # Empty /\ link' = filled[tag]
           \/ linkCalls'[i] = <<who, tag>>
    BY <1>1, <1>2, <1>5, <2>1, <2>2, LinkEffectKeeps
  <2>4. LinksType'
    BY <1>1, <1>4, <1>5, <1>7, <2>3 DEF LinksType
  <2>5. ~stray' => ~stray /\ c[1] = who
    BY <1>4, <1>9
  <2>6. ~stray' => \A t \in Inbounds : filled[t] \in {Empty, <<who, t>>}
    BY <1>1, <1>3, <1>6, <1>9, <2>5 DEF LinkDue
  <2>7. LinkDue'
    BY <1>4, <2>1, <2>3, <2>6 DEF LinkDue
  <2> QED
    BY <1>4, <2>3, <2>4, <2>7 DEF LinksInv
<1> QED
  BY <1>8, <1>9

LEMMA FailLinkStep ==
    ASSUME LinksInv, NEW i \in LinkSlots, FailLink(i), fails \in 0..MaxFails
    PROVE  LinksInv' /\ fails' \in 0..MaxFails
<1>1. LinksType /\ LinkDue
  BY DEF LinksInv
<1>2. /\ link' = Empty /\ qrError' = TRUE /\ qrLoading' = FALSE
      /\ linkCalls' = [linkCalls EXCEPT ![i] = NoLinkCall]
      /\ lost' = (who # Nobody) /\ UNCHANGED <<who, tag, cache, stray>>
  BY DEF FailLink
<1>3. fails' \in 0..MaxFails
  BY FailsAssumption DEF FailLink, CallFails
<1>4. linkCalls' \in [LinkSlots -> Links] /\ Empty \in Links
  BY <1>1, <1>2 DEF LinksType, Links, NoLinkCall
<1>5. lost' \in BOOLEAN
  BY <1>2
<1>6. LinksType'
  BY <1>1, <1>2, <1>4, <1>5 DEF LinksType
<1>7. LinkDue'
  BY <1>1, <1>2 DEF LinkDue
<1> QED
  BY <1>2, <1>3, <1>6, <1>7 DEF LinksInv, LinksEnd

LEMMA CloseLinkStep ==
    ASSUME LinksInv, CloseLink
    PROVE  LinksInv' /\ fails' = fails
<1>1. LinksType'
  BY NoCacheType DEF CloseLink, LinksInv, LinksType, Links
<1> QED
  BY <1>1 DEF CloseLink, LinksInv, LinksEnd, LinkDue

LEMMA LinksGone ==
    ASSUME LinksUnmount
    PROVE  LinksInv'
<1>1. [i \in LinkSlots |-> NoLinkCall] \in [LinkSlots -> Links]
  BY DEF Links, NoLinkCall
<1>2. LinksType'
  BY <1>1, NoCacheType DEF LinksUnmount, LinksType, Links
<1> QED
  BY <1>2 DEF LinksUnmount, LinksInv, LinksEnd, LinkDue

-----------------------------------------------------------------------------
(* The panel.                                                              *)

LEMMA PanelInitInv == PanelInit => PanelIInv
<1> SUFFICES ASSUME PanelInit
             PROVE  PanelIInv
  OBVIOUS
<1>1. SettingsInv
  <2>1. Defaults \in Prefs
    BY DefaultAssumption DEF Defaults, Prefs
  <2>2. fails \in 0..MaxFails
    BY FailsAssumption DEF PanelInit
  <2>3. chosen = Preferred
    BY DEF PanelInit, Preferred
  <2> QED
    BY <2>1, <2>2, <2>3 DEF PanelInit, SettingsInv, PanelRoutes
<1>2. DashboardInv
  <2>1. [i \in DashSlots |-> NoCall] \in [DashSlots -> DashCalls]
    BY DEF DashCalls
  <2> QED
    BY <2>1, DefaultAssumption
    DEF PanelInit, DashboardInit, DashboardInv, DashboardType, DashboardEnds
<1>3. LogsInv
  <2>1. [i \in LogSlots |-> NoAsk] \in [LogSlots -> LogCalls]
    BY AskParts
  <2>2. lines \in [what : {"nothing", "hint", "error"}] /\ searchPage \in 1..MaxPage
    BY PagesAssumption DEF PanelInit, LogsInit
  <2> QED
    BY <2>1, <2>2 DEF PanelInit, LogsInit, LogsInv, LogsType, LogsEnd
<1>4. LinksInv
  <2>1. [i \in LinkSlots |-> NoLinkCall] \in [LinkSlots -> Links]
    BY DEF Links, NoLinkCall
  <2> QED
    BY <2>1, NoCacheType
    DEF PanelInit, LinksInit, LinksInv, LinksType, Links, LinksEnd, LinkDue
<1>5. OpensAsSaved
  BY DEF PanelInit, OpensAsSaved
<1> QED
  BY <1>1, <1>2, <1>3, <1>4, <1>5 DEF PanelIInv

(* What a page leaves alone stays as it is.                                *)
LEMMA DashboardRest == DashboardInv /\ UNCHANGED dashVars => DashboardInv'
  BY DEF DashboardInv, DashboardType, DashboardEnds, dashVars

LEMMA LogsRest == LogsInv /\ UNCHANGED logVars => LogsInv'
  BY DEF LogsInv, LogsType, LogsEnd, logVars

LEMMA LinksRest == LinksInv /\ UNCHANGED linkVars => LinksInv'
  BY DEF LinksInv, LinksType, LinksEnd, LinkDue, linkVars

LEMMA OpensRest == OpensAsSaved /\ UNCHANGED <<route, chosen, dashVars>> => OpensAsSaved'
  BY DEF OpensAsSaved, dashVars

LEMMA NavigateStep ==
    ASSUME PanelIInv, NEW r \in PanelRoutes, Navigate(r)
    PROVE  PanelIInv'
<1>1. route' = r /\ UNCHANGED <<chosen, prefs, pending, fails>>
  BY DEF Navigate
<1>2. SettingsInv
  BY DEF PanelIInv
<1>3. form' \in Prefs
  <2>1. form' = Defaults \/ form' = Preferred
    BY DEF Navigate, LoadPrefs, FormGone, Preferred
  <2> QED
    BY <1>2, <2>1, PreferredType
<1>4. SettingsInv'
  BY <1>1, <1>2, <1>3 DEF SettingsInv, Preferred
<1>5. DashboardInv' /\ OpensAsSaved'
  <2>1. CASE r = "dashboard"
    <3>1. DashboardMounts
      BY <2>1 DEF Navigate
    <3>2. /\ DashboardInv'
          /\ range' = Preferred.range /\ service' = Preferred.service
          /\ refresh' = Preferred.refresh
      BY <1>2, <3>1, DashboardOpens
    <3>3. Preferred = [range |-> Preferred.range, service |-> Preferred.service,
                       refresh |-> Preferred.refresh]
      BY <1>2, PreferredType DEF Prefs
    <3> QED
      BY <1>1, <1>2, <3>2, <3>3 DEF OpensAsSaved, SettingsInv
  <2>2. CASE r # "dashboard"
    BY <1>1, <1>2, <2>2, DashboardCloses DEF Navigate, OpensAsSaved
  <2> QED
    BY <2>1, <2>2
<1>6. LogsInv' /\ LinksInv'
  BY LogsMounts, LinksGone DEF Navigate
<1> QED
  BY <1>4, <1>5, <1>6 DEF PanelIInv

LEMMA SettingsStep ==
    ASSUME PanelIInv, \/ \E f \in Prefs : EditPrefs(f)
                      \/ SavePrefs \/ ChangeHistory
                      \/ EditServer /\ UNCHANGED <<route, form, chosen, logVars, linkVars>>
    PROVE  PanelIInv'
<1>1. UNCHANGED <<route, fails, dashVars, logVars, linkVars>>
  BY DEF EditPrefs, SavePrefs, ChangeHistory, EditServer
<1>2. SettingsInv /\ OpensAsSaved
  BY DEF PanelIInv
<1>3. SettingsInv' /\ (chosen' = chosen \/ route = "settings")
  <2>1. ASSUME NEW f \in Prefs, EditPrefs(f)
        PROVE  SettingsInv' /\ chosen' = chosen
    BY <1>2, <2>1 DEF EditPrefs, SettingsInv, Preferred
  <2>2. CASE SavePrefs
    <3>1. prefs' = form /\ form \in Prefs /\ form # NoPrefs
      BY <1>2, <2>2, PrefsAssumption DEF SavePrefs, SettingsInv
    <3> QED
      BY <1>2, <2>2, <3>1 DEF SavePrefs, SettingsInv, Preferred
  <2>3. CASE ChangeHistory
    BY <1>2, <2>3 DEF ChangeHistory, SettingsInv, Preferred
  <2>4. CASE EditServer /\ UNCHANGED <<route, form, chosen, logVars, linkVars>>
    BY <1>2, <2>4 DEF EditServer, SettingsInv, Preferred
  <2> QED
    BY <2>1, <2>2, <2>3, <2>4
<1>4. OpensAsSaved'
  <2>1. CASE chosen' = chosen
    BY <1>1, <1>2, <2>1, OpensRest
  <2>2. CASE route = "settings"
    BY <1>1, <2>2 DEF OpensAsSaved
  <2> QED
    BY <1>3, <2>1, <2>2
<1> QED
  BY <1>1, <1>3, <1>4, DashboardRest, LogsRest, LinksRest DEF PanelIInv

LEMMA OnDashboardStep ==
    ASSUME PanelIInv, \/ OnDashboard(AnswerDashboard) \/ OnDashboard(PollsDashboard)
                      \/ OnDashboard(UseDashboard)
    PROVE  PanelIInv'
<1>1. /\ AnswerDashboard \/ PollsDashboard \/ UseDashboard
      /\ UNCHANGED <<route, form, chosen, logVars, linkVars>>
  BY DEF OnDashboard
<1>2. SettingsInv /\ DashboardInv /\ OpensAsSaved
  BY DEF PanelIInv
<1>3. /\ DashboardInv' /\ prefs' = prefs /\ fails' \in 0..MaxFails /\ pending' \in BOOLEAN
      /\ ~touched' => UNCHANGED <<range, service, refresh, touched>>
  BY <1>1, <1>2, DashboardActs, DashboardAnswers DEF SettingsInv
<1>4. SettingsInv'
  BY <1>1, <1>2, <1>3 DEF SettingsInv, Preferred
<1>5. OpensAsSaved'
  BY <1>1, <1>2, <1>3 DEF OpensAsSaved
<1> QED
  BY <1>1, <1>3, <1>4, <1>5, LogsRest, LinksRest DEF PanelIInv

LEMMA OnLogsStep ==
    ASSUME PanelIInv, OnLogs(AnswerLogs) \/ OnLogs(PollsTail) \/ OnLogs(UseLogs)
    PROVE  PanelIInv'
<1>1. /\ AnswerLogs \/ PollsTail \/ UseLogs
      /\ UNCHANGED <<route, form, chosen, prefs, pending, dashVars, linkVars>>
  BY DEF OnLogs
<1>2. LogsInv' /\ fails' \in 0..MaxFails
  BY <1>1, LogsAnswers, LogsActs DEF PanelIInv, SettingsInv
<1>3. SettingsInv'
  BY <1>1, <1>2 DEF PanelIInv, SettingsInv, Preferred
<1> QED
  BY <1>1, <1>2, <1>3, DashboardRest, LinksRest, OpensRest DEF PanelIInv

LEMMA OnUsersStep ==
    ASSUME PanelIInv, OnUsers(AnswerLinks) \/ OnUsers(UseLinks)
    PROVE  PanelIInv'
<1>1. /\ AnswerLinks \/ UseLinks
      /\ UNCHANGED <<route, form, chosen, prefs, pending, dashVars, logVars>>
  BY DEF OnUsers
<1>2. LinksInv /\ fails \in 0..MaxFails
  BY DEF PanelIInv, SettingsInv
<1>3. LinksInv' /\ fails' \in 0..MaxFails
  BY <1>1, <1>2, OpenLinkStep, SelectInboundStep, LandLinkStep, FailLinkStep, CloseLinkStep
  DEF AnswerLinks, UseLinks
<1>4. SettingsInv'
  BY <1>1, <1>3 DEF PanelIInv, SettingsInv, Preferred
<1> QED
  BY <1>1, <1>3, <1>4, DashboardRest, LogsRest, OpensRest DEF PanelIInv

LEMMA PanelNextInv == PanelIInv /\ [PanelNext]_panelVars => PanelIInv'
<1> SUFFICES ASSUME PanelIInv, [PanelNext]_panelVars
             PROVE  PanelIInv'
  OBVIOUS
<1>1. CASE UNCHANGED panelVars
  <2>1. UNCHANGED <<route, form, chosen, prefs, pending, fails, dashVars, logVars, linkVars>>
    BY <1>1 DEF panelVars
  <2>2. SettingsInv'
    BY <2>1 DEF PanelIInv, SettingsInv, Preferred
  <2> QED
    BY <2>1, <2>2, DashboardRest, LogsRest, LinksRest, OpensRest DEF PanelIInv
<1> QED
  BY <1>1, NavigateStep, SettingsStep, OnDashboardStep, OnLogsStep, OnUsersStep DEF PanelNext

(* Every page of the panel keeps its part of the invariant, and a page that *)
(* is left drops it.                                                        *)
THEOREM PanelInvariance == PanelSpec => []PanelIInv
<1>1. PanelInit => PanelIInv
  BY PanelInitInv
<1>2. PanelIInv /\ [PanelNext]_panelVars => PanelIInv'
  BY PanelNextInv
<1> QED
  BY <1>1, <1>2, PTL DEF PanelSpec

(* The pages hold ranges, terms and inbounds they offer, and what is stored *)
(* are preferences.                                                         *)
THEOREM PanelTypeCorrect == PanelSpec => []PanelTypeOK
<1>1. PanelIInv => PanelTypeOK
  <2>1. SettingsInv /\ DashboardType /\ LogsType /\ LinksType => PanelTypeOK
    BY DEF SettingsInv, DashboardType, LogsType, LinksType, PanelTypeOK
  <2> QED
    BY <2>1 DEF PanelIInv, DashboardInv, LogsInv, LinksInv
<1> QED
  BY <1>1, PanelInvariance, PTL

(* A spinner stays only as long as a call that ends it is under way: of the *)
(* dashboard a fetch, of the logs a search, of the modal a link.            *)
THEOREM SpinnersAlwaysEnd == PanelSpec => []SpinnersEnd
<1>1. PanelIInv => SpinnersEnd
  BY DEF PanelIInv, DashboardInv, DashboardEnds, LogsInv, LogsEnd, LinksInv, LinksEnd, SpinnersEnd
<1> QED
  BY <1>1, PanelInvariance, PTL

(* With every answer in, the modal shows the link of its user and inbound,  *)
(* or says that it has none.                                                *)
THEOREM LinksAlwaysSettle == PanelSpec => []LinkSettles
<1>1. PanelIInv => LinkSettles
  <2> SUFFICES ASSUME PanelIInv, who # Nobody, ~stray, \A i \in LinkSlots : FreeLink(i)
               PROVE  \/ link = <<who, tag>> /\ ~qrError
                      \/ link = Empty /\ qrError /\ lost
    BY DEF LinkSettles
  <2>1. <<who, tag>> # Empty
    BY EmptyAssumption DEF PanelIInv, LinksInv, LinksType, LinkDue
  <2> QED
    BY <2>1 DEF PanelIInv, LinksInv, LinkDue, FreeLink, NoLinkCall
<1> QED
  BY <1>1, PanelInvariance, PTL

(* The dashboard opens with the preferences saved last, through storage,    *)
(* mount and the form of the settings.                                      *)
THEOREM DashboardOpensAsSaved == PanelSpec => []OpensAsSaved
<1>1. PanelIInv => OpensAsSaved
  BY DEF PanelIInv
<1> QED
  BY <1>1, PanelInvariance, PTL

=============================================================================
