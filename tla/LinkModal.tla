------------------------------ MODULE LinkModal ------------------------------
(***************************************************************************)
(* The modal of the user page that shows the link of a user and its QR     *)
(* code, for each inbound of the user (components/UserManagement.tsx).     *)
(*                                                                         *)
(* Two effects drive it.  One clears the modal when it opens and closes;   *)
(* the other asks for the link of the selected inbound, or takes it from a *)
(* cache - and runs again whenever the cache changes, which corrects what  *)
(* an answer for another inbound has put on display.  The cache is keyed   *)
(* by the inbound alone, and an answer for the user the modal showed       *)
(* before lands in it as well.                                             *)
(***************************************************************************)
EXTENDS FailingCalls, Sequences

CONSTANTS
    People,     \* users with a link
    Inbounds,
    TagsOf,     \* [People -> non-empty sequences of Inbounds]
    Nobody,     \* the modal is closed
    Empty,      \* no link
    LinkSlots  \* bound: calls of getUserLink in flight

ASSUME TagsAssumption == TagsOf \in [People -> Seq(Inbounds) \ {<<>>}]
ASSUME NobodyAssumption == Nobody \notin People
ASSUME EmptyAssumption == Empty \notin People \X Inbounds

VARIABLES
    who,        \* the user the modal is open for
    tag,        \* selectedQrInbound
    link,       \* qrLink: whose it is, and of which inbound
    qrError,
    cache,      \* qrLinkCache
    qrLoading,
    linkCalls,  \* the calls of getUserLink
    stray,      \* history: an answer for another user landed in this modal
    lost        \* history: a call failed while this modal was open

linkVars == <<who, tag, link, qrError, cache, qrLoading, linkCalls, stray, lost>>

NoLinkCall == Empty

NoCache == [t \in Inbounds |-> Empty]

LinksInit ==
    /\ who = Nobody /\ tag = Empty /\ link = Empty /\ qrError = FALSE
    /\ cache = NoCache /\ qrLoading = FALSE
    /\ linkCalls = [i \in LinkSlots |-> NoLinkCall]
    /\ stray = FALSE /\ lost = FALSE

\* Unmounted, the page has no state, and nobody hears its answers.
LinksUnmount ==
    /\ who' = Nobody /\ tag' = Empty /\ link' = Empty /\ qrError' = FALSE
    /\ cache' = NoCache /\ qrLoading' = FALSE
    /\ linkCalls' = [i \in LinkSlots |-> NoLinkCall]
    /\ stray' = FALSE /\ lost' = FALSE

\* The second effect, for inbound t of user u with cache c, at the commit of
\* a change of one of them: l is on display until then, busy whether it is
\* loading.  Slot i takes the call, if one is made.
LinkEffect(i, u, t, c, l, busy) ==
    IF c[t] # Empty
    THEN /\ link' = c[t] /\ qrError' = FALSE /\ qrLoading' = busy
         /\ linkCalls' = [linkCalls EXCEPT ![i] = NoLinkCall]
    ELSE /\ link' = l /\ qrError' = FALSE /\ qrLoading' = TRUE
         /\ linkCalls' = [linkCalls EXCEPT ![i] = <<u, t>>]

FreeLink(i) == linkCalls[i] = NoLinkCall

\* The QR button of a row: the first effect selects the first inbound.
OpenLink(i, u) ==
    /\ who = Nobody /\ FreeLink(i)
    /\ who' = u
    /\ tag' = TagsOf[u][1]
    /\ cache' = NoCache
    /\ LinkEffect(i, u, tag', NoCache, Empty, qrLoading)
    /\ stray' = FALSE /\ lost' = FALSE
    /\ UNCHANGED fails

CloseLink ==
    /\ who # Nobody
    /\ who' = Nobody /\ tag' = Empty
    /\ link' = Empty /\ qrError' = FALSE /\ cache' = NoCache
    /\ stray' = FALSE /\ lost' = FALSE
    /\ UNCHANGED <<qrLoading, linkCalls, fails>>

\* One of the buttons of the inbounds, shown for a user of several.
SelectInbound(i, t) ==
    /\ who # Nobody /\ FreeLink(i) /\ t # tag
    /\ \E k \in DOMAIN TagsOf[who] : TagsOf[who][k] = t
    /\ tag' = t
    /\ LinkEffect(i, who, t, cache, link, qrLoading)
    /\ UNCHANGED <<who, cache, stray, lost, fails>>

(* Mutant: the effect does not depend on the cache, and is not run again.  *)
LandLinkAsItComes(i) ==
    LET c == linkCalls[i]
    IN  /\ ~FreeLink(i)
        /\ cache' = [cache EXCEPT ![c[2]] = c]
        /\ stray' = (stray \/ (who # Nobody /\ c[1] # who))
        /\ link' = c /\ qrLoading' = FALSE
        /\ linkCalls' = [linkCalls EXCEPT ![i] = NoLinkCall]
        /\ UNCHANGED <<who, tag, qrError, lost, fails>>

\* An answer: the link is displayed and cached, and the spinner goes off;
\* the commit of the cache runs the effect, if the modal is open.
LandLink(i) ==
    LET c == linkCalls[i]
        filled == [cache EXCEPT ![c[2]] = c]
    IN  /\ ~FreeLink(i)
        /\ cache' = filled
        /\ stray' = (stray \/ (who # Nobody /\ c[1] # who))
        /\ IF who = Nobody
           THEN /\ link' = c /\ qrLoading' = FALSE
                /\ linkCalls' = [linkCalls EXCEPT ![i] = NoLinkCall]
                /\ UNCHANGED qrError
           ELSE LinkEffect(i, who, tag, filled, c, FALSE)
        /\ UNCHANGED <<who, tag, lost, fails>>

FailLink(i) ==
    /\ ~FreeLink(i) /\ CallFails
    /\ link' = Empty /\ qrError' = TRUE /\ qrLoading' = FALSE
    /\ linkCalls' = [linkCalls EXCEPT ![i] = NoLinkCall]
    /\ lost' = (who # Nobody)
    /\ UNCHANGED <<who, tag, cache, stray>>

AnswerLinks == \E i \in LinkSlots : LandLink(i)

UseLinks ==
    \/ \E i \in LinkSlots, u \in People : OpenLink(i, u)
    \/ \E i \in LinkSlots, t \in Inbounds : SelectInbound(i, t)
    \/ \E i \in LinkSlots : FailLink(i)
    \/ CloseLink

=============================================================================
