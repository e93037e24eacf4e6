------------------------------- MODULE Session -------------------------------
(***************************************************************************)
(* The sign-in of the panel's web frontend, in several tabs of one browser *)
(* (context/AuthContext.tsx, components/Login.tsx, ProtectedRoute.tsx, the *)
(* routes of App.tsx, and the part of api.ts every call goes through).     *)
(*                                                                         *)
(* A tab keeps the token in the state of its AuthProvider; the browser     *)
(* keeps one copy for all the tabs, in localStorage, and that copy is what *)
(* a call carries (buildHeaders).  React applies a setToken at the next    *)
(* commit and runs the effects of the commit later, with the values of     *)
(* that commit: between the two other tabs, and answers, may intervene.    *)
(* A call that is refused with 401 signs the tab out, whatever token it    *)
(* carried (handleResponse, handleUnauthorized) - except getUsers, which   *)
(* does not go through handleResponse.                                     *)
(***************************************************************************)
EXTENDS Naturals, FiniteSets

CONSTANTS
    Tabs,       \* the tabs of the browser
    Tokens,     \* the tokens the server can issue, each of them once
    None,       \* no token
    MaxCalls,   \* bound: calls of one tab in flight
    MaxReloads  \* bound: tabs loaded again

ASSUME NoneAssumption == None \notin Tokens
ASSUME BoundAssumption == MaxCalls \in Nat \ {0} /\ MaxReloads \in Nat

VARIABLES
    stored,     \* localStorage 'token', shared by the tabs
    removed,    \* history: a stored token has been removed
    token,      \* the state of the tab's AuthProvider, as last set
    shown,      \* the token of the tab's last commit
    due,        \* the effects of that commit have yet to run
    page,       \* the route displayed
    loading,    \* a login of the tab is in flight, its button disabled
    reloads,    \* how many times a tab has been loaded again
    calls,      \* the calls on their way to the server
    answers,    \* the tabs an answer is on its way to that ends their session
    issued,     \* the tokens the server issued
    expired     \* those among them it does not accept any more

tabVars == <<token, shown, due, page, loading>>
worldVars == <<issued, expired, reloads>>
callVars == <<calls, answers>>
storeVars == <<stored, removed>>
vars == <<storeVars, tabVars, callVars, worldVars>>

Bearers == Tokens \cup {None}

\* The calls by what their answers can do to the session: getUsers; the
\* changes of the user name and of the password; all the others.
Kinds == {"users", "account", "other"}

Call == [tab : Tabs, kind : Kinds, bearer : Bearers]

\* Of the answers only those count that end a session, and of those only
\* which tab they reach: they do not tell which token they are about.
CallsOf(t) == {c \in calls : c.tab = t}

Accepted(bearer) == bearer # None /\ bearer \notin expired

\* isAuthenticated, of the render on display.
SignedIn(t) == shown[t] # None

\* What is on display: "panel" for a page that polls (the dashboard, the
\* users, WireGuard, the tail of the log), "quiet" for one without an interval
\* (the settings, the raw configuration, the log in search mode).
Routes == {"login", "panel", "quiet"}

\* ProtectedRoute: the pages are mounted for a signed-in tab alone.
Mounted(t) == page[t] # "login" /\ SignedIn(t)

-----------------------------------------------------------------------------
(* A tab.                                                                  *)

\* The next commit of the tab: the state set meanwhile is on display.  The
\* effects of the commit before have run by then.
Commit(t) ==
    /\ ~due[t]
    /\ shown[t] # token[t]
    /\ shown' = [shown EXCEPT ![t] = token[t]]
    /\ due' = [due EXCEPT ![t] = TRUE]
    /\ UNCHANGED <<storeVars, token, page, loading, callVars, worldVars>>

Store(bearer) ==
    /\ stored' = bearer
    /\ removed' = (removed \/ (stored # None /\ bearer = None))

(* Mutant: the effect only stores; the removal is left to logout.          *)
StoreEffectOfTokens(t) ==
    /\ due[t]
    /\ IF shown[t] = None THEN UNCHANGED storeVars ELSE Store(shown[t])
    /\ due' = [due EXCEPT ![t] = FALSE]
    /\ UNCHANGED <<token, shown, page, loading, callVars, worldVars>>

\* The effect on [token]: it stores, or removes, the token of its commit.
StoreEffect(t) ==
    /\ due[t]
    /\ Store(shown[t])
    /\ due' = [due EXCEPT ![t] = FALSE]
    /\ UNCHANGED <<token, shown, page, loading, callVars, worldVars>>

\* ProtectedRoute's Navigate.
LeavePanel(t) ==
    /\ ~due[t]
    /\ page[t] # "login" /\ ~SignedIn(t)
    /\ page' = [page EXCEPT ![t] = "login"]
    /\ UNCHANGED <<storeVars, token, shown, due, loading, callVars, worldVars>>

(* Mutant: the panel is entered before the effects of the commit have run. *)
EnterPanelAtOnce(t) ==
    /\ page[t] = "login" /\ SignedIn(t)
    /\ page' = [page EXCEPT ![t] = "panel"]
    /\ UNCHANGED <<storeVars, token, shown, due, loading, callVars, worldVars>>

\* The effect of Login, and the navigate of its handleSubmit.
EnterPanel(t) ==
    /\ ~due[t]
    /\ page[t] = "login" /\ SignedIn(t)
    /\ page' = [page EXCEPT ![t] = "panel"]
    /\ UNCHANGED <<storeVars, token, shown, due, loading, callVars, worldVars>>

\* The menu, from one page of the panel to another; and the mode of the log
\* page.
Browse(t) ==
    /\ ~due[t]
    /\ Mounted(t)
    /\ \E p \in Routes \ {"login", page[t]} : page' = [page EXCEPT ![t] = p]
    /\ UNCHANGED <<storeVars, token, shown, due, loading, callVars, worldVars>>

\* handleSubmit, its button disabled until the commit that takes the end of
\* the loading together with the token.
Submit(t) ==
    /\ page[t] = "login" /\ ~SignedIn(t) /\ token[t] = None
    /\ ~loading[t]
    /\ loading' = [loading EXCEPT ![t] = TRUE]
    /\ UNCHANGED <<storeVars, token, shown, due, page, callVars, worldVars>>

(* Mutant: the status of the answer is not looked at.                      *)
LoginAnswerUnchecked(t) ==
    /\ loading[t]
    /\ loading' = [loading EXCEPT ![t] = FALSE]
    /\ \E k \in Tokens \ issued : token' = [token EXCEPT ![t] = k]
    /\ UNCHANGED <<storeVars, shown, due, page, callVars, worldVars>>

\* The server issued a token: setToken.  Or it refused the credentials.
LoginAnswer(t) ==
    /\ loading[t]
    /\ loading' = [loading EXCEPT ![t] = FALSE]
    /\ \/ \E k \in Tokens \ issued :
            /\ issued' = issued \cup {k}
            /\ token' = [token EXCEPT ![t] = k]
       \/ UNCHANGED <<issued, token>>
    /\ UNCHANGED <<storeVars, shown, due, page, callVars, expired, reloads>>

\* logout(): both copies are dropped at once, the state at the next commit.
Logout(t) ==
    /\ token' = [token EXCEPT ![t] = None]
    /\ Store(None)

SignOut(t) ==
    /\ Mounted(t)
    /\ Logout(t)
    /\ UNCHANGED <<shown, due, page, loading, callVars, worldVars>>

\* The tab is loaded again: its state starts from the stored token, the log
\* page as a tail, and the calls of the document before are gone.
Reload(t) ==
    /\ reloads < MaxReloads
    /\ reloads' = reloads + 1
    /\ token' = [token EXCEPT ![t] = stored]
    /\ shown' = [shown EXCEPT ![t] = stored]
    /\ due' = [due EXCEPT ![t] = TRUE]
    /\ loading' = [loading EXCEPT ![t] = FALSE]
    /\ calls' = calls \ CallsOf(t)
    /\ answers' = answers \ {t}
    /\ \/ UNCHANGED page
       \/ page[t] = "quiet" /\ page' = [page EXCEPT ![t] = "panel"]
    /\ UNCHANGED <<storeVars, issued, expired>>

-----------------------------------------------------------------------------
(* The calls.                                                              *)

\* What a page calls.  The other calls of the settings, and those of the raw
\* configuration and of a search, do not differ from a change of the account
\* that goes without a sign-out.
Calls(route) ==
    CASE route = "panel" -> {"users", "other"}
      [] route = "quiet" -> {"account"}
      [] OTHER -> {}

\* A page sends a call: buildHeaders takes the token from localStorage.
Send(t, kind) ==
    /\ Mounted(t) /\ kind \in Calls(page[t])
    /\ Cardinality(CallsOf(t)) < MaxCalls /\ t \notin answers
    /\ calls' = calls \cup {[tab |-> t, kind |-> kind, bearer |-> stored]}
    /\ UNCHANGED <<storeVars, tabVars, answers, worldVars>>

\* The interval of the page on display, which fires at its mount as well.
Poll(t) == page[t] = "panel" /\ Send(t, "other")

\* A change of the account ends the session where the panel accepts a new
\* name (handleChangeUsername signs out), and where it refuses the password
\* given, with the 401 of a missing token; an accepted new password does not.
AccountMayEnd(c) == IF c.kind = "account" THEN BOOLEAN ELSE {FALSE}

MayEndByAccount(c) == AccountMayEnd(c)  \* Mutant: nobody hears auth:unauthorized.

\* Whether the answer can end the session.  AuthMiddleware refuses a call
\* without a valid token, and handleResponse raises auth:unauthorized for
\* every refusal but one of getUsers, which does not use it.
MayEnd(c) ==
    IF Accepted(c.bearer) THEN AccountMayEnd(c) ELSE {c.kind # "users"}

Serve(c) ==
    /\ \E ends \in MayEnd(c) :
         answers' = IF ends THEN answers \cup {c.tab} ELSE answers
    /\ calls' = calls \ {c}
    /\ UNCHANGED <<storeVars, tabVars, worldVars>>

\* The refusal reaches the tab, whatever the tab has done since.
Receive(t) ==
    /\ t \in answers
    /\ answers' = answers \ {t}
    /\ Logout(t)
    /\ UNCHANGED <<shown, due, page, loading, calls, worldVars>>

\* 24 hours have passed, or the server runs with another secret.
Expire(k) ==
    /\ k \in issued \ expired
    /\ expired' = expired \cup {k}
    /\ UNCHANGED <<storeVars, tabVars, callVars, issued, reloads>>

-----------------------------------------------------------------------------

Init ==
    /\ stored = None
    /\ removed = FALSE
    /\ token = [t \in Tabs |-> None]
    /\ shown = [t \in Tabs |-> None]
    /\ due = [t \in Tabs |-> TRUE]
    /\ page = [t \in Tabs |-> "panel"]
    /\ loading = [t \in Tabs |-> FALSE]
    /\ reloads = 0
    /\ calls = {}
    /\ answers = {}
    /\ issued = {}
    /\ expired = {}

React(t) == Commit(t) \/ StoreEffect(t) \/ LeavePanel(t) \/ EnterPanel(t)

Tab(t) ==
    \/ React(t)
    \/ Browse(t) \/ Submit(t) \/ LoginAnswer(t) \/ SignOut(t) \/ Reload(t)
    \/ (\E kind \in Kinds : Send(t, kind)) \/ Receive(t)

Next ==
    \/ \E t \in Tabs : Tab(t)
    \/ \E c \in calls : Serve(c)
    \/ \E k \in Tokens : Expire(k)

\* React does its part, a call is answered, and a page that polls does: the
\* dashboard and the log in tail mode every refreshInterval, WireGuard every
\* 5 s, the users every 10 s (for the pending changes, not for the list).  The
\* poll is strongly fair, for other calls of the page take their turns with
\* it.  Nobody has to sign in, to sign out, to reload, or to leave a page that
\* does not poll.
Fairness ==
    \A t \in Tabs :
       /\ WF_vars(React(t))
       /\ SF_vars(Poll(t))
       /\ WF_vars(\E c \in CallsOf(t) : Serve(c))
       /\ WF_vars(Receive(t))

Spec == Init /\ [][Next]_vars /\ Fairness

-----------------------------------------------------------------------------
(* Properties.                                                             *)

Held == issued \cup {None}

\* No tab, and no call, has a token the server did not issue.
TypeOK ==
    /\ stored \in Held
    /\ removed \in BOOLEAN
    /\ token \in [Tabs -> Held]
    /\ shown \in [Tabs -> Held]
    /\ due \in [Tabs -> BOOLEAN]
    /\ page \in [Tabs -> Routes]
    /\ loading \in [Tabs -> BOOLEAN]
    /\ reloads \in 0..MaxReloads
    /\ calls \subseteq Call /\ \A c \in calls : c.bearer \in Held
    /\ answers \subseteq Tabs
    /\ issued \subseteq Tokens
    /\ expired \subseteq issued

\* The token in localStorage always is one some tab has, or the effects of a
\* tab are about to replace it: when the last tab is signed out nothing is
\* left behind that the next visit would sign in with, however the commits,
\* effects and refusals of the tabs interleave.
StoredIsHeld ==
    stored # None =>
      \E t \in Tabs : stored \in {token[t], shown[t]} \/ due[t]

\* A call goes without a token only after some tab removed the stored one:
\* the pages that mount at a sign-in find the token stored already, although
\* their effects run before the one that stores it, and are not refused.
BareCallsFollowRemoval ==
    (\E c \in calls : c.bearer = None) => removed

\* A tab whose calls carry no token the server accepts - it expired, or the
\* session was ended from another tab - does not stay on a page that polls: it
\* is signed out, or somebody signs in again, or it rests on a page without
\* an interval (the settings, the raw configuration, the log in search mode),
\* which notices at its next call.
DeadSessionEnds ==
    \A t \in Tabs :
       (SignedIn(t) /\ ~Accepted(stored)) ~>
          (~SignedIn(t) \/ Accepted(stored) \/ page[t] = "quiet")

=============================================================================
