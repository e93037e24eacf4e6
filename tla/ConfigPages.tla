----------------------------- MODULE ConfigPages -----------------------------
(***************************************************************************)
(* Two administrators: one in the editor of the settings (ConfigEditor),   *)
(* one on the page of the raw configurations (components/RawConfig.tsx),   *)
(* which shows the texts of sing-box and of WireGuard in two tabs.  The    *)
(* second one is also whoever else writes the file.                        *)
(*                                                                         *)
(* The raw page guards nothing: a save may be clicked again, before the    *)
(* page is loaded, or without a change, and what has not been loaded is    *)
(* the empty text, which sing-box cannot parse and WireGuard accepts.      *)
(***************************************************************************)
EXTENDS ConfigEditor

CONSTANTS
    WgTexts,    \* texts of WireGuard
    Blank       \* the empty one

Inbound == [type : Protocols, tls : BOOLEAN, cert : Tags \cup {Nothing},
            reality : Realities, transport : BOOLEAN, users : SUBSET People]

\* A rule names an inbound at least, and Reality has its keys.
Rule == [simple : BOOLEAN, tags : Seq(Tags) \ {<<>>}]

Sound(i) == UsesReality(i) => i.reality = "complete"

Config ==
    {t \in [inbounds : [Tags -> Inbound \cup {Nothing}], rules : Seq(Rule)] :
       \A g \in Tags : t.inbounds[g] # Nothing => Sound(t.inbounds[g])}

ASSUME BlankAssumption == Blank \in WgTexts /\ Blank \notin Config
ASSUME NothingAssumption == Nothing \notin Config
ASSUME FilesAssumption == InitialFiles \in [singbox : Config, wireguard : WgTexts]
ASSUME ClickAssumption == MaxClicks \in Nat

VARIABLES
    rawTab,             \* activeTab of the raw page
    raw, rawOriginal,   \* by file: the text, and the one compared with
    rawAt               \* by file: the version of that, 0 before the first

rawVars == <<rawTab, raw, rawOriginal, rawAt>>
vars == <<fileVars, calls, answers, clicks, editorVars, rawVars>>

-----------------------------------------------------------------------------
(* The raw page.                                                           *)

\* loadConfigs: sing-box, and WireGuard when that has been answered.
LoadConfigs == Read("singbox", "rawSingbox")
LoadWireGuard == Read("wireguard", "rawWireguard")

RawRefresh ==
    /\ Click
    /\ Send(LoadConfigs)
    /\ UNCHANGED <<fileVars, editorVars, rawVars>>

RawSelect(f) ==
    /\ Click /\ f # rawTab
    /\ rawTab' = f
    /\ UNCHANGED <<fileVars, calls, answers, editorVars, raw, rawOriginal, rawAt>>

\* Typing, in a text that is there.
RawEdit ==
    /\ Click
    /\ \E t \in IF rawTab = "wireguard" THEN WgTexts
                ELSE IF raw.singbox = Blank THEN {} ELSE Typed(raw.singbox, People) :
         raw' = [raw EXCEPT ![rawTab] = t]
    /\ UNCHANGED <<fileVars, calls, answers, editorVars, rawTab, rawOriginal, rawAt>>

RawSaveUnparsed ==  \* Mutant: the text is not parsed before it is sent.
    /\ Click
    /\ Send(Write(rawTab, "rawSave", raw[rawTab]))
    /\ UNCHANGED <<fileVars, editorVars, rawVars>>

\* handleSave, which parses the text of sing-box.
RawSave ==
    /\ Click
    /\ rawTab = "singbox" => raw.singbox # Blank
    /\ Send(Write(rawTab, "rawSave", raw[rawTab]))
    /\ UNCHANGED <<fileVars, editorVars, rawVars>>

\* handleBackup, handleRestore.
RawButton ==
    /\ Click
    /\ \E c \in {Backup(rawTab), Restore(rawTab, "rawRestore")} : Send(c)
    /\ UNCHANGED <<fileVars, editorVars, rawVars>>

Shown(f, a) ==
    /\ raw' = [raw EXCEPT ![f] = a.got]
    /\ rawOriginal' = [rawOriginal EXCEPT ![f] = a.got]
    /\ rawAt' = [rawAt EXCEPT ![f] = a.at]

\* The answers of the chain of loadConfigs, which an error ends.
LandConfigs(a) ==
    /\ a.call.for \in {"rawSingbox", "rawWireguard"}
    /\ Landed(a)
    /\ IF a.ok THEN Shown(a.call.on, a) ELSE UNCHANGED <<raw, rawOriginal, rawAt>>
    /\ calls' = IF a.ok /\ a.call = LoadConfigs THEN calls \cup {LoadWireGuard} ELSE calls
    /\ UNCHANGED <<fileVars, clicks, editorVars, rawTab>>

LandRawSave(a) ==
    /\ a.call.for = "rawSave"
    /\ Landed(a)
    /\ IF a.ok
       THEN /\ rawOriginal' = [rawOriginal EXCEPT ![a.call.on] = a.call.content]
            /\ rawAt' = [rawAt EXCEPT ![a.call.on] = a.at]
       ELSE UNCHANGED <<rawOriginal, rawAt>>
    /\ UNCHANGED <<fileVars, calls, clicks, editorVars, rawTab, raw>>

LandRawRestore(a) ==
    /\ a.call.for = "rawRestore"
    /\ Landed(a)
    /\ IF a.ok THEN Shown(a.call.on, a) ELSE UNCHANGED <<raw, rawOriginal, rawAt>>
    /\ UNCHANGED <<fileVars, calls, clicks, editorVars, rawTab>>

-----------------------------------------------------------------------------

Init ==
    /\ FilesInit
    /\ calls = {LoadList, LoadConfigs}
    /\ EditorInit
    /\ rawTab = "singbox"
    /\ raw = [f \in Files |-> Blank]
    /\ rawOriginal = raw
    /\ rawAt = [f \in Files |-> 0]

UseRaw ==
    \/ RawRefresh \/ RawEdit \/ RawSave \/ RawButton
    \/ \E f \in Files : RawSelect(f)

Next ==
    \/ UseEditor /\ UNCHANGED rawVars
    \/ UseRaw
    \/ (\E c \in calls : Serve(c) \/ Fail(c)) /\ UNCHANGED <<editorVars, rawVars>>
    \/ AnswerEditor /\ UNCHANGED rawVars
    \/ \E a \in answers : LandConfigs(a) \/ LandRawSave(a) \/ LandRawRestore(a)

Spec == Init /\ [][Next]_vars

-----------------------------------------------------------------------------
(* Properties.                                                             *)

\* The files hold configurations, and so does everything on its way to them:
\* no page sends an empty text for sing-box, and no rule names nothing.
TypeOK ==
    /\ file \in [singbox : Config, wireguard : WgTexts]
    /\ text \in Config \cup {Nothing}
    /\ rules \in Seq({Row(g) : g \in Tags})
    /\ \A c \in calls : c.op = "write" /\ c.on = "singbox" => c.content \in Config
    /\ modal.open => modal.form \in Inbound
    /\ rawTab \in Files /\ rawAt \in [Files -> Nat]

\* What a view compares with, or lists, is what the file holds, as long as the
\* file is of the version the view is of, whatever was typed, saved or restored
\* meanwhile: so what was typed while a save was under way, or into a text that
\* an answer replaced, is never taken for what the file was given.  A view may
\* be of an older version without anybody else having written: the answer to a
\* Refresh that was served before a save may land after it, and then the editor
\* has the old text, with Save disabled, over the file that was saved.
ShownIsServed ==
    /\ original # Nothing /\ textAt = writes.singbox => original = file.singbox
    /\ list # Nothing /\ listAt = writes.singbox => list = file.singbox.inbounds
    /\ \A f \in Files :
         rawOriginal[f] # Blank /\ rawAt[f] = writes[f] => rawOriginal[f] = file[f]

\* A save of the editor that the server has served in this step.
Saved(c) == c \in calls /\ c \notin calls' /\ writes' # writes

\* A save from a page that is up to date changes what the page is about and
\* no more: saved rules leave the inbounds and the other rules alone and are
\* the rows; a saved inbound leaves the rules, the other inbounds and, unless
\* another protocol was chosen, its own users alone.  What somebody else wrote
\* before the page was loaded is never undone by it.
SavesAreExact ==
    [][\A c \in calls :
         LET old == file.singbox  new == file.singbox'
         IN  /\ Saved(c) /\ c.for = "saveRules" /\ c.at = writes.singbox
                  => /\ new.inbounds = old.inbounds
                     /\ OtherRules(new.rules) = OtherRules(old.rules)
                     /\ SimpleRules(new.rules) = c.rows
             /\ Saved(c) /\ c.op = "putInbound" /\ c.at = writes.singbox
                  => /\ new.rules = old.rules
                     /\ \A g \in Tags \ {c.tag} : new.inbounds[g] = old.inbounds[g]
                     /\ ~c.reset => new.inbounds[c.tag].users = old.inbounds[c.tag].users
      ]_vars

\* "Simple rules only. Other rules remain unchanged." (the tab of the rules,
\* SingboxConfigEditor.tsx:496): saving the rows just as they were loaded
\* leaves the rules of the file as they are.
OtherRulesUnchanged ==
    [][\A c \in calls :
         Saved(c) /\ c.for = "saveRules" /\ c.at = writes.singbox
           /\ c.rows = SimpleRules(file.singbox.rules)
             => file.singbox.rules' = file.singbox.rules]_vars

=============================================================================
