----------------------------- MODULE ConfigFiles -----------------------------
(***************************************************************************)
(* The two configuration files as the pages of the panel see them: calls   *)
(* on their way to the server, what the server does with one, and answers  *)
(* on their way back (api.ts, and the handlers of api/handlers_extra.go    *)
(* and core/singbox_config.go behind them).                                *)
(*                                                                         *)
(* No call says which version of the file it was made from, and no answer  *)
(* does.  The model numbers the versions, `writes`, to say when a page is  *)
(* up to date; the code has no such number.  A call that is lost, refused  *)
(* for its content or answered with an error is a call that fails.         *)
(***************************************************************************)
EXTENDS Naturals, FiniteSets, Sequences, SequencesExt

CONSTANTS
    Tags,           \* inbounds
    InitialFiles,   \* what the files hold first
    Nothing,        \* not loaded, no backup, no inbound of the tag
    MaxClicks       \* bound: what is done on the pages, and calls that fail

VARIABLES
    file,       \* "singbox", "wireguard" -> the content of the file
    backup,     \* and of its copy (.bak), or Nothing
    writes,     \* history: how often the file has been written
    calls,      \* the calls on their way
    answers,    \* the answers on their way
    clicks      \* how much has been done

fileVars == <<file, backup, writes>>

Files == {"singbox", "wireguard"}

Click ==
    /\ clicks < MaxClicks
    /\ clicks' = clicks + 1

-----------------------------------------------------------------------------
(* The calls: what is asked of which file, and what the page asks it for.  *)

Read(f, for) == [op |-> "read", on |-> f, for |-> for]
Write(f, for, content) == [op |-> "write", on |-> f, for |-> for, content |-> content]
Backup(f) == [op |-> "backup", on |-> f, for |-> "backup"]
Restore(f, for) == [op |-> "restore", on |-> f, for |-> for]

\* A call the answer of which is not there yet.
Send(c) ==
    /\ c \notin calls
    /\ calls' = calls \cup {c}
    /\ UNCHANGED answers

InboundOps == {"putInbound", "addInbound", "deleteInbound"}

Refused(c) ==
    \/ c.op = "restore" /\ backup[c.on] = Nothing
    \/ c.op \in {"putInbound", "deleteInbound"} /\ file.singbox.inbounds[c.tag] = Nothing
    \/ c.op = "addInbound" /\ file.singbox.inbounds[c.tag] # Nothing

\* UpdateSingboxConfig and handleUpdateWireGuardConfig, handleRestoreConfig,
\* and the three of an inbound: the file after the call.
Content(c) ==
    CASE c.op = "write" -> c.content
      [] c.op = "restore" -> backup[c.on]
      [] c.op \in {"putInbound", "addInbound"} ->
           [file.singbox EXCEPT !.inbounds[c.tag] = c.value]
      [] c.op = "deleteInbound" -> [file.singbox EXCEPT !.inbounds[c.tag] = Nothing]

\* The server does what is asked, and answers with the file as it is then.
Serve(c) ==
    /\ c \in calls /\ ~Refused(c)
    /\ IF c.op \in {"write", "restore"} \cup InboundOps
       THEN /\ file' = [file EXCEPT ![c.on] = Content(c)]
            /\ writes' = [writes EXCEPT ![c.on] = @ + 1]
       ELSE UNCHANGED <<file, writes>>
    /\ backup' = IF c.op = "backup" THEN [backup EXCEPT ![c.on] = file[c.on]] ELSE backup
    /\ calls' = calls \ {c}
    /\ answers' = answers \cup
         {[call |-> c, ok |-> TRUE, got |-> file'[c.on], at |-> writes'[c.on]]}
    /\ UNCHANGED clicks

Fail(c) ==
    /\ c \in calls
    /\ \/ Refused(c) /\ UNCHANGED clicks
       \/ ~Refused(c) /\ Click
    /\ calls' = calls \ {c}
    /\ answers' = answers \cup {[call |-> c, ok |-> FALSE, got |-> Nothing, at |-> 0]}
    /\ UNCHANGED fileVars

Landed(a) == answers' = answers \ {a}

-----------------------------------------------------------------------------
(* The content.  Of config.json: the inbounds, each with its users, and    *)
(* the routing rules, of which the editor knows the simple ones.  A text   *)
(* of WireGuard is one of a few.                                           *)

\* The rules that are simple, or those that are not, in their order.
Chosen(rs, simple) ==
    LET f[i \in 0..Len(rs)] ==
          IF i = 0 THEN <<>>
          ELSE IF rs[i].simple = simple THEN Append(f[i - 1], rs[i]) ELSE f[i - 1]
    IN  f[Len(rs)]

OtherRules(rs) == Chosen(rs, FALSE)

\* What typing in a text may turn it into: a user less or more, a rule less.
Typed(t, People) ==
    {[t EXCEPT !.inbounds[g].users = (@ \ {u}) \cup ({u} \ @)] :
       g \in {h \in Tags : t.inbounds[h] # Nothing}, u \in People}
      \cup {[t EXCEPT !.rules = RemoveAt(@, i)] : i \in DOMAIN t.rules}

FilesInit ==
    /\ file = InitialFiles
    /\ backup = [f \in Files |-> Nothing]
    /\ writes = [f \in Files |-> 0]
    /\ answers = {}
    /\ clicks = 0

=============================================================================
