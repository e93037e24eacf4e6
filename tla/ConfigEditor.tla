---------------------------- MODULE ConfigEditor ----------------------------
(***************************************************************************)
(* The tab of the settings that edits the configuration of sing-box        *)
(* (components/SingboxConfigEditor.tsx, singbox/InboundList.tsx and        *)
(* InboundModal.tsx).  Three views write one file by calls of different    *)
(* grain: an inbound is replaced by the one of its form, the simple rules  *)
(* are merged into the file as it is read again at the save, and the text  *)
(* replaces the file.  What a view shows is as old as the answer that      *)
(* landed last.                                                            *)
(*                                                                         *)
(* Of an inbound the form has here its protocol, TLS with the certificate  *)
(* and Reality, the transport and the users; the fields no guard reads     *)
(* (addresses, ports, ALPN, paths) are left out, and so are the search and *)
(* the comparison of the text, and the date of the backup.                 *)
(***************************************************************************)
EXTENDS ConfigFiles

CONSTANTS
    People      \* users

VARIABLES
    tab,                        \* activeTab
    text, original, textAt,     \* config, originalConfig, and their version
    saving,                     \* of the text
    rules, choices,             \* the rules shown, and availableInbounds
    rulesLoading, rulesSaving,
    list, listAt, listLoading,  \* the inbounds shown, and their version
    modal                       \* the modal of an inbound

textVars == <<text, original, textAt, saving>>
ruleVars == <<rules, choices, rulesLoading, rulesSaving>>
listVars == <<list, listAt, listLoading, modal>>
editorVars == <<tab, textVars, ruleVars, listVars>>

Protocols == {"vless", "trojan"}    \* VMess is as Trojan here
Realities == {"off", "begun", "complete"}

Closed == [open |-> FALSE, certLoading |-> FALSE]

-----------------------------------------------------------------------------
(* The tabs.                                                               *)

LoadText == Read("singbox", "text")
LoadRules(last) == Read("singbox", IF last THEN "savedRules" ELSE "rules")
LoadList == Read("singbox", "list")

\* The list of inbounds that is unmounted hears no answer: its reads are
\* dropped here, its writes go on.
Hears(c) == c.for \notin {"list", "inbound", "cert"}
Unheard(cs) == {IF Hears(c) THEN c ELSE [c EXCEPT !.for = "nobody"] :
                  c \in {d \in cs : d.for \notin {"list", "cert"}}}

\* The effect on activeTab; the list of inbounds loads at its mount.
SelectTab(t) ==
    /\ Click /\ t # tab /\ ~modal.open
    /\ tab' = t
    /\ LET load == CASE t = "raw" -> LoadText
                     [] t = "rules" -> LoadRules(FALSE)
                     [] t = "inbounds" -> LoadList
       IN  calls' = Unheard(calls) \cup {load}
    /\ answers' = {a \in answers : Hears(a.call)}
    /\ rulesLoading' = (rulesLoading \/ t = "rules")
    /\ list' = Nothing /\ listAt' = 0 /\ listLoading' = (t = "inbounds")
    /\ modal' = Closed
    /\ UNCHANGED <<fileVars, textVars, rules, choices, rulesSaving>>

-----------------------------------------------------------------------------
(* The text.                                                               *)

EditText ==
    /\ Click /\ tab = "raw" /\ text # Nothing
    /\ text' \in Typed(text, People)
    /\ UNCHANGED <<fileVars, calls, answers, tab, original, textAt, saving, ruleVars, listVars>>

\* handleSave, its button disabled without changes and during a save.
SaveText ==
    /\ Click /\ tab = "raw" /\ text # original /\ ~saving
    /\ saving' = TRUE
    /\ Send(Write("singbox", "saveText", text))
    /\ UNCHANGED <<fileVars, tab, text, original, textAt, ruleVars, listVars>>

\* Refresh, handleBackup and handleRestore.
TextButton ==
    /\ Click /\ tab = "raw"
    /\ \E c \in {LoadText, Backup("singbox"), Restore("singbox", "text")} : Send(c)
    /\ UNCHANGED <<fileVars, editorVars>>

-----------------------------------------------------------------------------
(* The rules.                                                              *)

\* loadRules: of the simple rules, the first of the inbounds they name.
Row(g) == [simple |-> TRUE, tags |-> <<g>>]

SimpleRules(rs) ==
    LET simple == Chosen(rs, TRUE)
    IN  [i \in DOMAIN simple |-> Row(simple[i].tags[1])]

\* addRule with its inbound chosen, updateRule, removeRule.
EditRules ==
    /\ Click /\ tab = "rules"
    /\ \/ \E g \in choices : rules' = Append(rules, Row(g))
       \/ \E i \in DOMAIN rules : rules' = RemoveAt(rules, i)
       \/ \E i \in DOMAIN rules, g \in choices : rules' = [rules EXCEPT ![i] = Row(g)]
    /\ UNCHANGED <<fileVars, calls, answers, tab, textVars, choices,
                   rulesLoading, rulesSaving, listVars>>

\* saveRules, its button disabled during a save: the file is read first.
SaveRules ==
    /\ Click /\ tab = "rules" /\ ~rulesSaving
    /\ rulesSaving' = TRUE
    /\ Send([op |-> "read", on |-> "singbox", for |-> "merge",
             rows |-> rules])
    /\ UNCHANGED <<fileVars, tab, textVars, rules, choices, rulesLoading, listVars>>

RefreshRules ==
    /\ Click /\ tab = "rules" /\ ~rulesLoading
    /\ rulesLoading' = TRUE
    /\ Send(LoadRules(FALSE))
    /\ UNCHANGED <<fileVars, tab, textVars, rules, choices, rulesSaving, listVars>>

MergedRowsOnly(content, rows) ==  \* Mutant: the other rules are not kept.
    [content EXCEPT !.rules = rows]

\* What saveRules writes: the file it has read, the rules that are not
\* simple first, those of the form behind them.
Merged(content, rows) == [content EXCEPT !.rules = OtherRules(@) \o rows]

-----------------------------------------------------------------------------
(* The inbounds.                                                           *)

\* handleEdit, and the effect of the modal that copies the inbound.  What
\* keeps a transport is a field of the form no file has: it starts unset.
EditInbound(g) ==
    /\ Click /\ tab = "inbounds" /\ ~modal.open /\ ~listLoading
    /\ list # Nothing /\ list[g] # Nothing
    /\ modal' = [open |-> TRUE, certLoading |-> modal.certLoading, tag |-> g,
                 new |-> FALSE, reset |-> FALSE, at |-> listAt,
                 form |-> [list[g] EXCEPT !.transport = FALSE]]
    /\ UNCHANGED <<fileVars, calls, answers, tab, textVars, ruleVars, list, listAt, listLoading>>

\* DEFAULT_VLESS and its siblings, which have no Reality.
NewInbound(t) == [type |-> t, tls |-> FALSE, cert |-> Nothing, reality |-> "off",
                  transport |-> FALSE, users |-> {}]

\* handleAdd, and the tag typed.
AddInbound(g) ==
    /\ Click /\ tab = "inbounds" /\ ~modal.open
    /\ modal' = [open |-> TRUE, certLoading |-> modal.certLoading, tag |-> g,
                 new |-> TRUE, reset |-> FALSE, at |-> listAt, form |-> NewInbound("vless")]
    /\ UNCHANGED <<fileVars, calls, answers, tab, textVars, ruleVars, list, listAt, listLoading>>

\* Another protocol starts the form again from the defaults of that one, with
\* the tag and the ports alone.
SetProtocol(t) ==
    /\ t # modal.form.type
    /\ modal' = [modal EXCEPT !.form = NewInbound(t), !.reset = TRUE]

SetTls == modal' = [modal EXCEPT !.form.tls = ~@]

\* The box of Reality and its four fields, filled or not.
SetReality(r) ==
    /\ modal.form.tls /\ modal.form.type = "vless"
    /\ modal' = [modal EXCEPT !.form.reality = r]

\* The two paths of a certificate typed, or one of them made empty.
TypeCert(c) ==
    /\ modal.form.tls
    /\ modal' = [modal EXCEPT !.form.cert = c]

SetTransport == modal' = [modal EXCEPT !.form.transport = ~@]

EditForm ==
    /\ Click /\ modal.open
    /\ \/ SetTls \/ SetTransport
       \/ \E t \in Protocols : SetProtocol(t)
       \/ \E r \in Realities : SetReality(r)
       \/ \E c \in Tags \cup {Nothing} : TypeCert(c)
    /\ UNCHANGED <<fileVars, calls, answers, tab, textVars, ruleVars, list, listAt, listLoading>>

UsesReality(form) == form.type = "vless" /\ form.reality # "off"

\* handleGenerateCert, its button hidden by Reality.
GenerateCert ==
    /\ Click /\ modal.open /\ modal.form.tls /\ ~UsesReality(modal.form)
    /\ ~modal.certLoading
    /\ modal' = [modal EXCEPT !.certLoading = TRUE]
    /\ Send([op |-> "cert", on |-> "singbox", for |-> "cert", tag |-> modal.tag])
    /\ UNCHANGED <<fileVars, tab, textVars, ruleVars, list, listAt, listLoading>>

\* handleSubmit and handleSave; the modal stays until the answer.
SaveInbound ==
    /\ Click /\ modal.open
    /\ modal.form.tls /\ ~UsesReality(modal.form) => modal.form.cert # Nothing
    /\ UsesReality(modal.form) => modal.form.reality = "complete"
    /\ Send([op |-> IF modal.new THEN "addInbound" ELSE "putInbound",
             on |-> "singbox", for |-> "inbound", tag |-> modal.tag,
             value |-> modal.form, reset |-> modal.reset, at |-> modal.at])
    /\ UNCHANGED <<fileVars, editorVars>>

CloseModal ==
    /\ Click /\ modal.open
    /\ modal' = [Closed EXCEPT !.certLoading = modal.certLoading]
    /\ UNCHANGED <<fileVars, calls, answers, tab, textVars, ruleVars, list, listAt, listLoading>>

\* handleDelete.
DeleteInbound(g) ==
    /\ Click /\ tab = "inbounds" /\ ~modal.open /\ ~listLoading
    /\ list # Nothing /\ list[g] # Nothing
    /\ Send([op |-> "deleteInbound", on |-> "singbox", for |-> "inbound", tag |-> g])
    /\ UNCHANGED <<fileVars, editorVars>>

-----------------------------------------------------------------------------
(* The answers.                                                            *)

\* loadConfig and handleRestore: the text shown and the one compared with.
LandText(a) ==
    /\ a.call.for = "text"
    /\ Landed(a) /\ UNCHANGED calls
    /\ IF a.ok THEN text' = a.got /\ original' = a.got /\ textAt' = a.at
       ELSE UNCHANGED <<text, original, textAt>>
    /\ UNCHANGED <<fileVars, clicks, tab, saving, ruleVars, listVars>>

(* Mutant: the text of now is taken for the one that was saved.            *)
LandSaveTextOfNow(a) ==
    /\ a.call.for = "saveText"
    /\ Landed(a) /\ UNCHANGED calls
    /\ saving' = FALSE
    /\ IF a.ok THEN original' = text /\ textAt' = a.at
       ELSE UNCHANGED <<original, textAt>>
    /\ UNCHANGED <<fileVars, clicks, tab, text, ruleVars, listVars>>

\* handleSave compares with the text it sent, whatever has been typed since.
LandSaveText(a) ==
    /\ a.call.for = "saveText"
    /\ Landed(a) /\ UNCHANGED calls
    /\ saving' = FALSE
    /\ IF a.ok THEN original' = a.call.content /\ textAt' = a.at
       ELSE UNCHANGED <<original, textAt>>
    /\ UNCHANGED <<fileVars, clicks, tab, text, ruleVars, listVars>>

\* The load that follows a save ends the save as well.
LandRules(a) ==
    /\ a.call.for \in {"rules", "savedRules"}
    /\ Landed(a) /\ UNCHANGED calls
    /\ IF a.ok
       THEN /\ rules' = SimpleRules(a.got.rules)
              /\ choices' = {g \in Tags : a.got.inbounds[g] # Nothing}
       ELSE UNCHANGED <<rules, choices>>
    /\ rulesLoading' = FALSE
    /\ rulesSaving' = (rulesSaving /\ a.call.for = "rules")
    /\ UNCHANGED <<fileVars, clicks, tab, textVars, listVars>>

\* saveRules goes on: the file that was read is merged and written, then the
\* rules are loaded.
LandMerge(a) ==
    /\ a.call.for = "merge"
    /\ Landed(a)
    /\ \/ /\ a.ok
          /\ calls' = calls \cup
               {[op |-> "write", on |-> "singbox", for |-> "saveRules", at |-> a.at,
                 rows |-> a.call.rows, content |-> Merged(a.got, a.call.rows)]}
          /\ UNCHANGED rulesSaving
       \/ ~a.ok /\ rulesSaving' = FALSE /\ UNCHANGED calls
    /\ UNCHANGED <<fileVars, clicks, tab, textVars, rules, choices,
                   rulesLoading, listVars>>

LandSaveRules(a) ==
    /\ a.call.for = "saveRules"
    /\ Landed(a)
    /\ \/ /\ a.ok
          /\ calls' = calls \cup {LoadRules(TRUE)}
          /\ rulesLoading' = TRUE
          /\ UNCHANGED rulesSaving
       \/ ~a.ok /\ rulesSaving' = FALSE /\ UNCHANGED <<calls, rulesLoading>>
    /\ UNCHANGED <<fileVars, clicks, tab, textVars, rules, choices, listVars>>

\* loadInbounds.
LandList(a) ==
    /\ a.call.for = "list"
    /\ Landed(a) /\ UNCHANGED calls
    /\ IF a.ok THEN list' = a.got.inbounds /\ listAt' = a.at
       ELSE UNCHANGED <<list, listAt>>
    /\ listLoading' = FALSE
    /\ UNCHANGED <<fileVars, clicks, tab, textVars, ruleVars, modal>>

\* handleSave closes the modal, the one that is open now; it and handleDelete
\* load the list.
LandInbound(a) ==
    /\ a.call.for = "inbound"
    /\ Landed(a)
    /\ IF a.ok THEN calls' = calls \cup {LoadList} /\ listLoading' = TRUE
       ELSE UNCHANGED <<calls, listLoading>>
    /\ modal' = IF a.ok /\ a.call.op # "deleteInbound"
                THEN [Closed EXCEPT !.certLoading = modal.certLoading] ELSE modal
    /\ UNCHANGED <<fileVars, clicks, tab, textVars, ruleVars, list, listAt>>

\* The certificate lands in the form that is there now.
LandCert(a) ==
    /\ a.call.for = "cert"
    /\ Landed(a) /\ UNCHANGED calls
    /\ modal' = IF a.ok /\ modal.open
                THEN [modal EXCEPT !.certLoading = FALSE, !.form.cert = a.call.tag]
                ELSE [modal EXCEPT !.certLoading = FALSE]
    /\ UNCHANGED <<fileVars, clicks, tab, textVars, ruleVars, list, listAt, listLoading>>

\* An answer nobody listens to, or that only an alert tells of.
LandElsewhere(a) ==
    /\ a.call.for \in {"backup", "nobody"}
    /\ Landed(a)
    /\ UNCHANGED <<fileVars, calls, clicks, editorVars>>

-----------------------------------------------------------------------------

\* The editor is mounted with its list of inbounds.
EditorInit ==
    /\ tab = "inbounds"
    /\ text = Nothing /\ original = Nothing /\ textAt = 0 /\ saving = FALSE
    /\ rules = <<>> /\ choices = {}
    /\ rulesLoading = FALSE /\ rulesSaving = FALSE
    /\ list = Nothing /\ listAt = 0 /\ listLoading = TRUE /\ modal = Closed

UseEditor ==
    \/ \E t \in {"inbounds", "rules", "raw"} : SelectTab(t)
    \/ EditText \/ SaveText \/ TextButton
    \/ EditRules \/ SaveRules \/ RefreshRules
    \/ \E g \in Tags : EditInbound(g) \/ AddInbound(g) \/ DeleteInbound(g)
    \/ EditForm \/ GenerateCert \/ SaveInbound \/ CloseModal

AnswerEditor ==
    \E a \in answers :
        \/ LandText(a) \/ LandSaveText(a) \/ LandRules(a) \/ LandMerge(a)
        \/ LandSaveRules(a) \/ LandList(a) \/ LandInbound(a) \/ LandCert(a)
        \/ LandElsewhere(a)

=============================================================================
