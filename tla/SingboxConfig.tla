---------------------------- MODULE SingboxConfig ----------------------------
(***************************************************************************)
(* The sing-box configuration file of the panel and its roll-out:          *)
(* core/singbox_config.go (read-modify-write under configMu),              *)
(* core/config.go (the runtime flag SingboxPendingChanges under c.mu),     *)
(* and the handlers of api/ that reach them: inbound and raw-config edits, *)
(* apply, backup, restore and the service buttons.                         *)
(*                                                                         *)
(* HTTP handlers run concurrently, one goroutine per request; an element   *)
(* of Handlers is a goroutine slot, which serves one request at a time.    *)
(* A file write is two steps, because os.WriteFile and os.Create truncate  *)
(* before they write: in between the file is Empty.  Every writer writes   *)
(* its text in one call, at its own offset 0, so that two writes that      *)
(* overlap leave the later text, with the rest of a longer earlier one     *)
(* behind it: Torn.  What a whole file says is the set of its inbounds;    *)
(* the settings of an inbound (port, users, TLS) are abstracted to its     *)
(* port, so that an edit of a user is an update of the inbound in place.   *)
(***************************************************************************)
CONSTANTS
    Handlers,    \* goroutine slots that serve requests
    NoHandler,   \* the owner of a free mutex
    Tags,        \* inbound tags
    Ports,       \* listen ports
    Requests,    \* the edits that clients ask for
    NoRequest,   \* the request of an idle slot
    Empty,       \* a file that is truncated and not yet written
    Torn,        \* a text cut short, or two texts over each other: not JSON
    Missing,     \* there is no .bak file
    Down,        \* sing-box is not running
    Starting     \* systemd started sing-box, it has not read its file yet

Inbound == [tag : Tags, port : Ports]

(* SUBSET Inbound, in a form that TLC enumerates and so compares with the  *)
(* sentinels.                                                              *)
Content == {c : c \in SUBSET Inbound}

FileText == Content \cup {Empty, Torn}

AddRequest == [kind : {"add"}, tag : Tags, port : Ports]
UpdateRequest == [kind : {"update"}, tag : Tags, newTag : Tags, port : Ports]
DeleteRequest == [kind : {"delete"}, tag : Tags]
ReplaceRequest == [kind : {"replace"}, body : Content]

EditRequest == AddRequest \cup UpdateRequest \cup DeleteRequest \cup ReplaceRequest

ASSUME HandlerAssumption == NoHandler \notin Handlers

ASSUME RequestAssumption == Requests \subseteq EditRequest

ASSUME SentinelAssumption == /\ {Empty, Torn, Missing} \cap Content = {}
                             /\ Empty # Torn
                             /\ Missing \notin {Empty, Torn}
                             /\ {Down, Starting} \cap Content = {}
                             /\ Down # Starting

-----------------------------------------------------------------------------
VARIABLES
    file,       \* the file at SingboxConfigPath
    backup,     \* the .bak file beside it
    origin,     \* history: who last touched the file, see Origin
    running,    \* what the sing-box process runs: a content, Down or Starting
    pending,    \* Config.SingboxPendingChanges
    configMu,   \* holder of the global mutex configMu
    cfgMu,      \* holder of the mutex Config.mu
    pc,         \* where each handler is
    req,        \* the edit a handler serves
    buf         \* the configuration a handler has marshalled and validated

vars == <<file, backup, origin, running, pending, configMu, cfgMu, pc, req, buf>>

(* "api": a writer that holds configMu, alone; "failed": such a writer,    *)
(* and its write failed; "copy": copyFile in a restore, which takes no     *)
(* lock, alone; "mixed": two of them at once; "boot": nobody since the     *)
(* panel process started.                                                  *)
Origin == {"boot", "api", "failed", "copy", "mixed"}

PC == {"idle", "wantConfig", "validated", "writing", "marking",
       "wantApply", "reloading", "backingUp", "restoring"}

NoPortCollision(c) == \A i, j \in c : i.port = j.port => i = j

(* The modifier of request r turns the parsed file f into c.  An update    *)
(* replaces the first inbound of its tag, whichever that is, and looks for *)
(* no other inbound that already has the new tag.                          *)
Edits(r, f, c) ==
    \/ /\ r.kind = "add"
       /\ \A i \in f : i.tag # r.tag
       /\ c = f \cup {[tag |-> r.tag, port |-> r.port]}
    \/ /\ r.kind = "update"
       /\ \E i \in f :
             /\ i.tag = r.tag
             /\ [tag |-> r.newTag, port |-> r.port] \notin f \ {i}
             /\ c = (f \ {i}) \cup {[tag |-> r.newTag, port |-> r.port]}
    \/ /\ r.kind = "delete"
       /\ \E i \in f : i.tag = r.tag
       /\ c = {i \in f : i.tag # r.tag}

(* Request r may leave c in the place of f: the file parses, the modifier  *)
(* agrees and no port is used twice.  A raw replacement reads no file.     *)
Outcome(r, f, c) ==
    /\ \/ r.kind = "replace" /\ c = r.body
       \/ f \in Content /\ Edits(r, f, c)
    /\ NoPortCollision(c)

TypeOK ==
    /\ file \in FileText
    /\ backup \in FileText \cup {Missing}
    /\ origin \in Origin
    /\ running \in Content \cup {Down, Starting}
    /\ pending \in BOOLEAN
    /\ configMu \in Handlers \cup {NoHandler}
    /\ cfgMu \in Handlers \cup {NoHandler}
    /\ pc \in [Handlers -> PC]
    /\ req \in [Handlers -> Requests \cup {NoRequest}]
    /\ buf \in [Handlers -> Content]

Init ==
    /\ file \in {c \in Content : NoPortCollision(c)}
    /\ backup = Missing
    /\ origin = "boot"
    /\ running \in {file, Down}
    /\ pending = FALSE
    /\ configMu = NoHandler
    /\ cfgMu = NoHandler
    /\ pc = [h \in Handlers |-> "idle"]
    /\ req = [h \in Handlers |-> NoRequest]
    /\ buf = [h \in Handlers |-> {}]

-----------------------------------------------------------------------------
Goto(h, label) == pc' = [pc EXCEPT ![h] = label]

(* The slot is free again and forgets what it worked on.                   *)
Finish(h) == /\ Goto(h, "idle")
             /\ req' = [req EXCEPT ![h] = NoRequest]
             /\ buf' = [buf EXCEPT ![h] = {}]

(* What is in a file once `new` is written from offset 0 over `old`.       *)
Over(new, old) == CASE old = Empty -> {new}
                    [] old # Empty /\ new = Empty -> {old}
                    [] old # Empty /\ new = Torn -> {old, Torn}
                    [] OTHER -> {new, Torn}

(* ... and when that write fails, before or after some of its bytes.       *)
CutShort(old) == {old, Torn}

(* Another handler has the configuration file open for writing.            *)
Overlaps(h) == \E g \in Handlers \ {h} : pc[g] \in {"writing", "restoring"}

(* An edit arrives: it will wait for configMu.                             *)
RequestEdit(h) ==
    /\ pc[h] = "idle"
    /\ \E r \in Requests : req' = [req EXCEPT ![h] = r]
    /\ Goto(h, "wantConfig")
    /\ UNCHANGED <<file, backup, origin, running, pending, configMu, cfgMu, buf>>

(* Mutant: the edit reads and modifies without taking configMu.            *)
ModifyWithoutLock(h) ==
    /\ pc[h] = "wantConfig"
    /\ configMu' = h
    /\ \E c \in Content : /\ Outcome(req[h], file, c)
                          /\ buf' = [buf EXCEPT ![h] = c]
    /\ Goto(h, "validated")
    /\ UNCHANGED <<file, backup, origin, running, pending, cfgMu, req>>

(* ModifySingboxConfig and UpdateSingboxConfig up to their write: take     *)
(* configMu, read, modify, marshal and validate.  Only the file is shared. *)
LockAndModify(h) ==
    /\ pc[h] = "wantConfig"
    /\ configMu = NoHandler
    /\ configMu' = h
    /\ \E c \in Content : /\ Outcome(req[h], file, c)
                          /\ buf' = [buf EXCEPT ![h] = c]
    /\ Goto(h, "validated")
    /\ UNCHANGED <<file, backup, origin, running, pending, cfgMu, req>>

(* The same critical section when it ends in an error before the write:    *)
(* the file does not parse, the modifier refuses, two inbounds share a     *)
(* port, or `sing-box check`, an external program, rejects the result.     *)
RejectEdit(h) ==
    /\ pc[h] = "wantConfig"
    /\ configMu = NoHandler
    /\ Finish(h)
    /\ UNCHANGED <<file, backup, origin, running, pending, configMu, cfgMu>>

(* os.WriteFile opens the file with O_TRUNC ...                            *)
TruncateFile(h) ==
    /\ pc[h] = "validated"
    /\ file' = Empty
    /\ origin' = IF Overlaps(h) THEN "mixed" ELSE "api"
    /\ Goto(h, "writing")
    /\ UNCHANGED <<backup, running, pending, configMu, cfgMu, req, buf>>

(* ... then writes the bytes.                                              *)
WriteFile(h) ==
    /\ pc[h] = "writing"
    /\ file' \in Over(buf[h], file)
    /\ Goto(h, "marking")
    /\ UNCHANGED <<backup, origin, running, pending, configMu, cfgMu, req, buf>>

(* Mutant: the error path of the write returns without Unlock.             *)
WriteFailsKeepsLock(h) ==
    /\ pc[h] = "writing"
    /\ file' \in CutShort(file)
    /\ origin' = IF origin = "mixed" THEN "mixed" ELSE "failed"
    /\ Finish(h)
    /\ UNCHANGED <<backup, running, pending, configMu, cfgMu>>

(* The write fails (no space left): the error path returns at once, which  *)
(* releases configMu and leaves the file as it is and the flag alone.      *)
WriteFails(h) ==
    /\ pc[h] = "writing"
    /\ file' \in CutShort(file)
    /\ origin' = IF origin = "mixed" THEN "mixed" ELSE "failed"
    /\ configMu' = NoHandler
    /\ Finish(h)
    /\ UNCHANGED <<backup, running, pending, cfgMu>>

(* Mutant: the flag is set without c.mu, also in the middle of an apply.   *)
MarkWithoutMutex(h) ==
    /\ pc[h] = "marking"
    /\ pending' = TRUE
    /\ configMu' = NoHandler
    /\ Finish(h)
    /\ UNCHANGED <<file, backup, origin, running, cfgMu>>

(* MarkSingboxPending, still inside configMu: waits for c.mu, sets the     *)
(* flag; the return releases configMu.                                     *)
MarkSingboxPending(h) ==
    /\ pc[h] = "marking"
    /\ cfgMu = NoHandler
    /\ pending' = TRUE
    /\ configMu' = NoHandler
    /\ Finish(h)
    /\ UNCHANGED <<file, backup, origin, running, cfgMu>>

-----------------------------------------------------------------------------
(* ApplySingboxChanges: c.mu is held while systemctl restarts the service. *)
RequestApply(h) ==
    /\ pc[h] = "idle"
    /\ Goto(h, "wantApply")
    /\ UNCHANGED <<file, backup, origin, running, pending, configMu, cfgMu, req, buf>>

ReloadSingbox(h) ==
    /\ pc[h] = "wantApply"
    /\ cfgMu = NoHandler
    /\ cfgMu' = h
    /\ running' = Starting
    /\ Goto(h, "reloading")
    /\ UNCHANGED <<file, backup, origin, pending, configMu, req, buf>>

(* systemctl fails: the old process may be gone; the flag stays.           *)
ReloadFails(h) ==
    /\ pc[h] = "wantApply"
    /\ cfgMu = NoHandler
    /\ running' \in {running, Down}
    /\ Finish(h)
    /\ UNCHANGED <<file, backup, origin, pending, configMu, cfgMu>>

(* systemctl has returned 0, which it does once the process is forked; the *)
(* process may or may not have read its file by now.                       *)
ClearPending(h) ==
    /\ pc[h] = "reloading"
    /\ pending' = FALSE
    /\ cfgMu' = NoHandler
    /\ Finish(h)
    /\ UNCHANGED <<file, backup, origin, running, configMu>>

-----------------------------------------------------------------------------
(* handleBackupConfig and handleRestoreConfig: copyFile opens the source,  *)
(* truncates the destination and copies at an offset of its own.  Neither  *)
(* handler takes a lock, so either may overlap another copy and an editor, *)
(* and the restore leaves the pending flag alone.                          *)
BeginBackup(h) ==
    /\ pc[h] = "idle"
    /\ backup' = Empty
    /\ Goto(h, "backingUp")
    /\ UNCHANGED <<file, origin, running, pending, configMu, cfgMu, req, buf>>

FinishBackup(h) ==
    /\ pc[h] = "backingUp"
    /\ backup' \in Over(file, backup)
    /\ Finish(h)
    /\ UNCHANGED <<file, origin, running, pending, configMu, cfgMu>>

BeginRestoreUnchecked(h) ==  \* Mutant: os.Stat of the backup is not asked.
    /\ pc[h] = "idle"
    /\ file' = Empty
    /\ origin' = IF Overlaps(h) THEN "mixed" ELSE "copy"
    /\ Goto(h, "restoring")
    /\ UNCHANGED <<backup, running, pending, configMu, cfgMu, req, buf>>

BeginRestore(h) ==
    /\ pc[h] = "idle"
    /\ backup # Missing
    /\ file' = Empty
    /\ origin' = IF Overlaps(h) THEN "mixed" ELSE "copy"
    /\ Goto(h, "restoring")
    /\ UNCHANGED <<backup, running, pending, configMu, cfgMu, req, buf>>

FinishRestore(h) ==
    /\ pc[h] = "restoring"
    /\ file' \in Over(backup, file)
    /\ Finish(h)
    /\ UNCHANGED <<backup, origin, running, pending, configMu, cfgMu>>

(* io.Copy fails: the destination stays cut short.                         *)
CopyFails(h) ==
    /\ \/ /\ pc[h] = "backingUp"
          /\ backup' \in CutShort(backup)
          /\ UNCHANGED file
       \/ /\ pc[h] = "restoring"
          /\ file' \in CutShort(file)
          /\ UNCHANGED backup
    /\ Finish(h)
    /\ UNCHANGED <<origin, running, pending, configMu, cfgMu>>

-----------------------------------------------------------------------------
(* The service buttons run systemctl and touch nothing of the panel's.     *)
StopService ==
    /\ running # Down
    /\ running' = Down
    /\ UNCHANGED <<file, backup, origin, pending, configMu, cfgMu, pc, req, buf>>

(* A start of a stopped service, or a restart of any.                      *)
StartService ==
    /\ running # Starting
    /\ running' = Starting
    /\ UNCHANGED <<file, backup, origin, pending, configMu, cfgMu, pc, req, buf>>

(* sing-box reads its file and comes up, or gives up on half a file or on  *)
(* anything else that keeps it from starting.                              *)
SingboxLoads ==
    /\ running = Starting
    /\ running' \in {file, Down} \ {Empty, Torn}
    /\ UNCHANGED <<file, backup, origin, pending, configMu, cfgMu, pc, req, buf>>

(* The panel dies at any point and is started again: the locks and the     *)
(* flag (json:"-") are gone, the files are as they were left.              *)
PanelRestart ==
    /\ origin' = "boot"
    /\ pending' = FALSE
    /\ configMu' = NoHandler
    /\ cfgMu' = NoHandler
    /\ pc' = [h \in Handlers |-> "idle"]
    /\ req' = [h \in Handlers |-> NoRequest]
    /\ buf' = [h \in Handlers |-> {}]
    /\ UNCHANGED <<file, backup, running>>

Arrive(h) == RequestEdit(h) \/ RequestApply(h) \/ BeginBackup(h) \/ BeginRestore(h)

EditStep(h) == \/ LockAndModify(h) \/ RejectEdit(h) \/ TruncateFile(h)
               \/ WriteFile(h) \/ WriteFails(h) \/ MarkSingboxPending(h)

ApplyStep(h) == ReloadSingbox(h) \/ ReloadFails(h) \/ ClearPending(h)

CopyStep(h) == FinishBackup(h) \/ FinishRestore(h) \/ CopyFails(h)

Serve(h) == EditStep(h) \/ ApplyStep(h) \/ CopyStep(h)

Service == StopService \/ StartService \/ SingboxLoads

Next == \/ \E h \in Handlers : Arrive(h) \/ Serve(h)
        \/ Service
        \/ PanelRestart

Spec == Init /\ [][Next]_vars

(* One life of the panel process: nothing but the handlers and sing-box.   *)
OneLife == Init /\ [][(\E h \in Handlers : Arrive(h) \/ Serve(h)) \/ Service]_vars

(* A handler that can go on does, and sync.Mutex hands a contended lock to *)
(* its oldest waiter (starvation mode): a waiter for whom the lock is free *)
(* again and again gets it.  Nothing obliges clients to ask, services to   *)
(* stop or the panel to die.                                               *)
FairSpec == Spec /\ \A h \in Handlers : SF_vars(Serve(h))

-----------------------------------------------------------------------------
Marking == \E h \in Handlers : pc[h] = "marking"

(* sing-box runs a configuration, and it is not the one on disk.           *)
Drift == /\ running \in Content
         /\ file \in Content
         /\ running # file

(* PENDING COVERS DRIFT.  Whenever the file was last written by one of the *)
(* API's editors in the life of this panel process, and by no restore      *)
(* meanwhile, and sing-box runs something else, SingboxPendingChanges is   *)
(* set or the editor that wrote is about to set it: however edits,         *)
(* applies, restarts of the service and lock waits interleave, an apply    *)
(* never clears the flag of an edit that sing-box has not read.            *)
PendingCoversDrift == Drift /\ origin = "api" => pending \/ Marking

(* TORN ONLY UNDER LOCK.  A reader that holds configMu (GetSingboxConfig,  *)
(* GetSingboxInbounds, the read of ModifySingboxConfig) does not meet the  *)
(* half-written file of an editor that wrote it alone.  It can meet what a *)
(* failed write left, a restore under way, which takes no lock, and the    *)
(* mixture that a restore beside a write leaves after configMu is free.    *)
TornOnlyUnderLock ==
    file \in {Empty, Torn} /\ origin = "api" =>
        configMu # NoHandler /\ pc[configMu] = "writing"

(* NO LOST EDIT.  What an editor is about to write is its request applied  *)
(* to what the file says at that moment, not to an older version, unless a *)
(* restore, which takes no lock, was the last to open the file or was at   *)
(* work beside the last editor.                                            *)
NoLostEdit ==
    \A h \in Handlers :
        pc[h] = "validated" /\ origin \notin {"copy", "mixed"} => Outcome(req[h], file, buf[h])

(* EVERY REQUEST IS ANSWERED.  Editors take c.mu while they hold configMu  *)
(* and an apply takes c.mu alone: no request waits for ever.               *)
RequestsAreAnswered ==
    \A h \in Handlers : pc[h] # "idle" ~> pc[h] = "idle"

=============================================================================
