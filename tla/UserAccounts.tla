---------------------------- MODULE UserAccounts ----------------------------
(***************************************************************************)
(* User accounts: the handlers of api/server.go that create, update,       *)
(* rename, disable and delete users, the edits of core/config.go they call *)
(* on the users of the managed inbounds, and the table `users` with what   *)
(* the panel knows of a user beside them.                                  *)
(*                                                                         *)
(* An edit of the file is one step, because it holds configMu (module      *)
(* SingboxConfig); so is a statement of the database.  A request is a      *)
(* sequence of both with no transaction around it: each may fail, others   *)
(* may go in between, and the panel may die after any of them.  A user's   *)
(* flow, password and id are its uuid; the metadata is reduced to whether  *)
(* it is there and says enabled.  Every inbound is of a type with users.   *)
(***************************************************************************)
EXTENDS Naturals, Sequences

CONSTANTS
    Handlers,    \* goroutine slots that serve requests
    Names,
    Uuids,
    Tags,        \* tags of the inbounds in the file
    NoTag,       \* the empty inbound_tag
    TypeOf,      \* the type of an inbound: vless, vmess or trojan
    Managed,     \* Config.ManagedInbounds
    Requests,    \* what clients ask for
    NoRequest,   \* the request of an idle slot
    ByHand       \* entries that an inbound may get in the inbound editor

Item == [name : Names, uuid : Uuids, tag : Tags \cup {NoTag}]

CreateRequest == [kind : {"create"}, name : Names, uuid : Uuids, tag : Tags,
                  enabled : {"yes", "no"}]
UpdateRequest == [kind : {"update"}, orig : Names, name : Names, uuid : Uuids,
                  tag : Tags \cup {NoTag}, enabled : {"yes", "no", "unset"}]
DeleteRequest == [kind : {"delete"}, name : Names]
LeaveRequest == [kind : {"leave"}, name : Names, tag : Tags]
EditRequest == [kind : {"edit"}, name : Names, uuid : Uuids, tag : Tags, vmess : BOOLEAN]
BulkRequest == [kind : {"bulk"}, items : Seq(Item)]

Request == CreateRequest \cup UpdateRequest \cup DeleteRequest
             \cup LeaveRequest \cup EditRequest \cup BulkRequest

ASSUME InboundAssumption == NoTag \notin Tags

User == [name : Names, tag : Tags, uuid : Uuids]

ASSUME RequestAssumption == /\ Requests \subseteq Request
                            /\ NoRequest \notin Requests
                            /\ ByHand \subseteq User

-----------------------------------------------------------------------------
VARIABLES
    users,     \* the user entries of the file
    stats,     \* experimental.v2ray_api.stats.users: whom sing-box counts
    meta,      \* the table users: "none", "enabled" or "disabled"
    pc,        \* where each handler is
    req,       \* its request
    on,        \* its local `enabled`, in an edit the metadata it has read
    at,        \* in a bulk creation, the item it is at
    alone,     \* history: nobody and no failure came between its steps
    byHand     \* history: the file was edited otherwise since stats was set

fileVars == <<users, stats, byHand>>
vars == <<users, stats, meta, pc, req, on, at, alone, byHand>>

PC == {"idle", "add", "lookup", "removeOld", "removeNew", "update", "fallback",
       "remove", "leave", "edit", "readMeta", "writeMeta",
       "bulkAdd", "bulkSave", "save", "forget", "ok"}

TypeOK ==
    /\ users \subseteq User
    /\ stats \subseteq Names
    /\ meta \in [Names -> {"none", "enabled", "disabled"}]
    /\ pc \in [Handlers -> PC]
    /\ req \in [Handlers -> Requests \cup {NoRequest}]
    /\ on \in [Handlers -> BOOLEAN]
    /\ at \in [Handlers -> Nat]
    /\ \A h \in Handlers :
          pc[h] \in {"bulkAdd", "bulkSave"} => at[h] \in 1..Len(req[h].items)
    /\ alone \in [Handlers -> BOOLEAN]
    /\ byHand \in BOOLEAN

-----------------------------------------------------------------------------
(* The modifiers of core/config.go, as operators on a set of entries.      *)

(* findManagedInbounds: an empty list of managed inbounds filters nothing. *)
Reach == IF Managed = {} THEN Tags ELSE Tags \cap Managed

Entries(us, n) == {x \in us : x.name = n /\ x.tag \in Reach}

EntriesIn(us, n, t) == {x \in Entries(us, n) : x.tag = t}

(* syncStatsUsers: the names in the managed inbounds.                      *)
StatsOf(us) == {x.name : x \in {y \in us : y.tag \in Reach}}

(* Mutant: AddUser without the test for the name.                         *)
CanAddAnyone(us, n, t) == t \in Reach

(* AddUser: refuses a tag that is not managed and a name that is there.    *)
CanAdd(us, n, t) == t \in Reach /\ EntriesIn(us, n, t) = {}

Added(us, n, u, t) == us \cup {[name |-> n, tag |-> t, uuid |-> u]}

(* UpdateUser: the entries of n in managed inbounds of the type of t, or   *)
(* in all of them if t is not a managed tag.                               *)
Targets(us, n, t) ==
    {x \in Entries(us, n) : t \in Reach => TypeOf[x.tag] = TypeOf[t]}

Rewritten(us, xs, u) == (us \ xs) \cup {[x EXCEPT !.uuid = u] : x \in xs}

-----------------------------------------------------------------------------
Init ==
    /\ users = {}
    /\ stats = {}
    /\ meta = [n \in Names |-> "none"]
    /\ pc = [h \in Handlers |-> "idle"]
    /\ req = [h \in Handlers |-> NoRequest]
    /\ on = [h \in Handlers |-> FALSE]
    /\ at = [h \in Handlers |-> 0]
    /\ alone = [h \in Handlers |-> FALSE]
    /\ byHand = FALSE

Goto(h, label) == pc' = [pc EXCEPT ![h] = label]

(* h makes a step, as meant or after a failure: the others are not alone.  *)
Step(h, asMeant) == alone' = [g \in Handlers |-> g = h /\ alone[h] /\ asMeant]

(* A modifier that ends with syncStatsUsers; it begins with os.ErrInvalid  *)
(* if no inbound of the file is managed.                                   *)
SaveFile(us) == /\ Reach # {}
                /\ users' = us
                /\ stats' = StatsOf(us)
                /\ byHand' = FALSE

(* The column users.enabled.                                               *)
Said(e) == IF e THEN "enabled" ELSE "disabled"

(* The request is over.                                                    *)
Finish(h) == /\ Goto(h, "idle")
             /\ req' = [req EXCEPT ![h] = NoRequest]
             /\ on' = [on EXCEPT ![h] = FALSE]
             /\ at' = [at EXCEPT ![h] = 0]

(* http.Error: nothing is undone.                                          *)
Error(h) == /\ Finish(h)
            /\ Step(h, FALSE)
            /\ UNCHANGED <<fileVars, meta>>

(* Where an update goes once it knows whether the user is to be enabled.   *)
UpdateEntry(r, enabled) ==
    IF enabled /\ r.orig = r.name THEN "update" ELSE "removeOld"

Entry(r) ==
    CASE r.kind = "create" -> IF r.enabled = "yes" THEN "add" ELSE "save"
      [] r.kind = "update" -> IF r.enabled = "unset" THEN "lookup"
                              ELSE UpdateEntry(r, r.enabled = "yes")
      [] r.kind = "delete" -> "remove"
      [] r.kind = "leave" -> "leave"
      [] r.kind = "edit" -> "edit"
      [] r.kind = "bulk" -> IF r.items = <<>> THEN "ok" ELSE "bulkAdd"

(* A request arrives and passes the checks of its fields.                  *)
Begin(h) ==
    /\ pc[h] = "idle"
    /\ \E r \in Requests :
          /\ req' = [req EXCEPT ![h] = r]
          /\ on' = [on EXCEPT ![h] =
                r.kind = "bulk" \/ (r.kind \in {"create", "update"} /\ r.enabled = "yes")]
          /\ Goto(h, Entry(r))
    /\ at' = [at EXCEPT ![h] = 1]
    /\ alone' = [alone EXCEPT ![h] = TRUE]
    /\ UNCHANGED <<fileVars, meta>>

(* AddUser, in a creation or as the last resort of an update.              *)
AddUser(h) ==
    LET r == req[h] IN
    /\ pc[h] \in {"add", "fallback"}
    /\ \/ /\ CanAdd(users, r.name, r.tag)
          /\ SaveFile(Added(users, r.name, r.uuid, r.tag))
          /\ Goto(h, "save")
          /\ Step(h, TRUE)
          /\ UNCHANGED <<meta, req, on, at>>
       \/ Error(h)

(* handleUpdateUser without `enabled`: what the metadata of the old name   *)
(* says, and yes if there is none or it cannot be read.                    *)
LookUp(h) ==
    LET r == req[h] IN
    /\ pc[h] = "lookup"
    /\ \E read \in BOOLEAN, e \in BOOLEAN :
          /\ e = (~read \/ meta[r.orig] # "disabled")
          /\ on' = [on EXCEPT ![h] = e]
          /\ Goto(h, UpdateEntry(r, e))
          /\ Step(h, read)
    /\ UNCHANGED <<fileVars, meta, req, at>>

(* RemoveUser, its error ignored: of the old name in a rename, ...         *)
RemoveOld(h) ==
    LET r == req[h] IN
    /\ pc[h] = "removeOld"
    /\ Goto(h, IF on[h] THEN "update"
               ELSE IF r.orig # r.name THEN "removeNew" ELSE "save")
    /\ \/ SaveFile(users \ Entries(users, r.orig)) /\ Step(h, TRUE)
       \/ UNCHANGED fileVars /\ Step(h, FALSE)
    /\ UNCHANGED <<meta, req, on, at>>

(* ... and of the new one too when the user is disabled.                   *)
RemoveNew(h) ==
    LET r == req[h] IN
    /\ pc[h] = "removeNew"
    /\ Goto(h, "save")
    /\ \/ SaveFile(users \ Entries(users, r.name)) /\ Step(h, TRUE)
       \/ UNCHANGED fileVars /\ Step(h, FALSE)
    /\ UNCHANGED <<meta, req, on, at>>

(* UpdateUser rewrites entries and adds none, so it does not sync stats;   *)
(* when it finds none, or fails, AddUser is tried.                         *)
UpdateUser(h) ==
    LET r == req[h]
        xs == Targets(users, r.name, r.tag) IN
    /\ pc[h] = "update"
    /\ \/ /\ xs # {}
          /\ users' = Rewritten(users, xs, r.uuid)
          /\ Goto(h, "save")
          /\ Step(h, TRUE)
       \/ /\ UNCHANGED users
          /\ Goto(h, "fallback")
          /\ Step(h, xs = {})
    /\ UNCHANGED <<stats, byHand, meta, req, on, at>>

(* SaveUserMetadata in a creation or an update.                            *)
SaveMeta(h) ==
    LET r == req[h] IN
    /\ pc[h] = "save"
    /\ \/ /\ meta' = [meta EXCEPT ![r.name] = Said(on[h])]
          /\ Goto(h, IF r.kind = "update" /\ r.orig # r.name THEN "forget" ELSE "ok")
          /\ Step(h, TRUE)
          /\ UNCHANGED <<fileVars, req, on, at>>
       \/ Error(h)

(* Mutant: a rename forgets the metadata it has just saved.                *)
ForgetNewName(h) ==
    LET r == req[h] IN
    /\ pc[h] = "forget"
    /\ meta' = [meta EXCEPT ![r.name] = "none"]
    /\ Goto(h, "ok")
    /\ Step(h, TRUE)
    /\ UNCHANGED <<fileVars, req, on, at>>

(* DeleteUserMetadata; an update ignores its error, a deletion does not.   *)
ForgetMeta(h) ==
    LET r == req[h] IN
    /\ pc[h] = "forget"
    /\ \/ /\ meta' = [meta EXCEPT ![IF r.kind = "update" THEN r.orig ELSE r.name] = "none"]
          /\ Goto(h, "ok")
          /\ Step(h, TRUE)
          /\ UNCHANGED <<fileVars, req, on, at>>
       \/ /\ r.kind = "update"
          /\ Goto(h, "ok")
          /\ Step(h, FALSE)
          /\ UNCHANGED <<fileVars, meta, req, on, at>>
       \/ r.kind = "delete" /\ Error(h)

(* RemoveUser in a deletion.                                               *)
RemoveUser(h) ==
    /\ pc[h] = "remove"
    /\ \/ /\ SaveFile(users \ Entries(users, req[h].name))
          /\ Goto(h, "forget")
          /\ Step(h, TRUE)
          /\ UNCHANGED <<meta, req, on, at>>
       \/ Error(h)

(* Mutant: the users whom sing-box counts are not brought up to date.      *)
LeaveKeepsStats(h) ==
    LET xs == EntriesIn(users, req[h].name, req[h].tag) IN
    /\ pc[h] = "leave"
    /\ xs # {}
    /\ users' = users \ xs
    /\ Goto(h, "ok")
    /\ Step(h, TRUE)
    /\ UNCHANGED <<stats, byHand, meta, req, on, at>>

(* RemoveUserFromInbound.                                                  *)
RemoveUserFromInbound(h) ==
    LET xs == EntriesIn(users, req[h].name, req[h].tag) IN
    /\ pc[h] = "leave"
    /\ \/ /\ xs # {}
          /\ SaveFile(users \ xs)
          /\ Goto(h, "ok")
          /\ Step(h, TRUE)
          /\ UNCHANGED <<meta, req, on, at>>
       \/ Error(h)

(* UpdateUserInInbound; with VMess fields the metadata follows.            *)
UpdateUserInInbound(h) ==
    LET r == req[h]
        xs == EntriesIn(users, r.name, r.tag) IN
    /\ pc[h] = "edit"
    /\ \/ /\ xs # {}
          /\ SaveFile(Rewritten(users, xs, r.uuid))
          /\ Goto(h, IF r.vmess THEN "readMeta" ELSE "ok")
          /\ Step(h, TRUE)
          /\ UNCHANGED <<meta, req, on, at>>
       \/ Error(h)

(* The metadata is read; nothing more happens if there is none, or if it   *)
(* cannot be read.                                                         *)
ReadMeta(h) ==
    LET m == meta[req[h].name] IN
    /\ pc[h] = "readMeta"
    /\ \/ /\ m # "none"
          /\ on' = [on EXCEPT ![h] = (m = "enabled")]
          /\ Goto(h, "writeMeta")
          /\ Step(h, TRUE)
       \/ /\ Goto(h, "ok")
          /\ Step(h, m = "none")
          /\ UNCHANGED on
    /\ UNCHANGED <<fileVars, meta, req, at>>

(* All its columns are written back; the error is ignored.                 *)
WriteMeta(h) ==
    /\ pc[h] = "writeMeta"
    /\ Goto(h, "ok")
    /\ \/ /\ meta' = [meta EXCEPT ![req[h].name] = Said(on[h])]
          /\ Step(h, TRUE)
       \/ UNCHANGED meta /\ Step(h, FALSE)
    /\ UNCHANGED <<fileVars, req, on, at>>

(* handleBulkCreateUsers: AddUser of an item, its error logged and ignored *)
(* ...                                                                     *)
BulkAdd(h) ==
    LET i == req[h].items[at[h]] IN
    /\ pc[h] = "bulkAdd"
    /\ Goto(h, "bulkSave")
    /\ \/ /\ CanAdd(users, i.name, i.tag)
          /\ SaveFile(Added(users, i.name, i.uuid, i.tag))
          /\ Step(h, TRUE)
       \/ UNCHANGED fileVars /\ Step(h, ~CanAdd(users, i.name, i.tag))
    /\ UNCHANGED <<meta, req, on, at>>

(* Mutant: one round too many.                                             *)
BulkSaveBeyond(h) ==
    LET r == req[h] IN
    /\ pc[h] = "bulkSave"
    /\ meta' = [meta EXCEPT ![r.items[at[h]].name] = "enabled"]
    /\ Step(h, TRUE)
    /\ at' = [at EXCEPT ![h] = @ + 1]
    /\ Goto(h, IF at[h] > Len(r.items) THEN "ok" ELSE "bulkAdd")
    /\ UNCHANGED <<fileVars, req, on>>

(* ... and the metadata says enabled in either case.                       *)
BulkSave(h) ==
    LET r == req[h]
        i == r.items[at[h]] IN
    /\ pc[h] = "bulkSave"
    /\ \/ meta' = [meta EXCEPT ![i.name] = "enabled"] /\ Step(h, TRUE)
       \/ UNCHANGED meta /\ Step(h, FALSE)
    /\ at' = [at EXCEPT ![h] = @ + 1]
    /\ Goto(h, IF at[h] = Len(r.items) THEN "ok" ELSE "bulkAdd")
    /\ UNCHANGED <<fileVars, req, on>>

(* 200 or 201 is on its way.                                               *)
Answer(h) ==
    /\ pc[h] = "ok"
    /\ Finish(h)
    /\ Step(h, TRUE)
    /\ UNCHANGED <<fileVars, meta>>

-----------------------------------------------------------------------------
(* The inbound editor, a raw replacement or a restore gives an inbound     *)
(* another list of users, each name once, and leaves stats alone.          *)
EditInbound(t) ==
    /\ \E us \in SUBSET {x \in ByHand : x.tag = t} :
          /\ \A x, y \in us : x.name = y.name => x = y
          /\ users' = {x \in users : x.tag # t} \cup us
    /\ byHand' = TRUE
    /\ alone' = [h \in Handlers |-> FALSE]
    /\ UNCHANGED <<stats, meta, pc, req, on, at>>

(* The panel process dies and is started again.                            *)
PanelRestart ==
    /\ pc' = [h \in Handlers |-> "idle"]
    /\ req' = [h \in Handlers |-> NoRequest]
    /\ on' = [h \in Handlers |-> FALSE]
    /\ at' = [h \in Handlers |-> 0]
    /\ alone' = [h \in Handlers |-> FALSE]
    /\ UNCHANGED <<fileVars, meta>>

Update(h) == LookUp(h) \/ RemoveOld(h) \/ RemoveNew(h) \/ UpdateUser(h)

InInbound(h) == \/ RemoveUserFromInbound(h) \/ UpdateUserInInbound(h)
                \/ ReadMeta(h) \/ WriteMeta(h)

Bulk(h) == BulkAdd(h) \/ BulkSave(h)

Serve(h) == \/ Begin(h) \/ AddUser(h) \/ Update(h) \/ SaveMeta(h) \/ ForgetMeta(h)
            \/ RemoveUser(h) \/ InInbound(h) \/ Bulk(h) \/ Answer(h)

Next == \/ \E h \in Handlers : Serve(h)
        \/ \E t \in Tags : EditInbound(t)
        \/ PanelRestart

Spec == Init /\ [][Next]_vars

(* Nobody edits the file but the handlers.                                 *)
HandlersOnly == Init /\ [][\E h \in Handlers : Serve(h)]_vars

-----------------------------------------------------------------------------
(* ONE ENTRY PER INBOUND.  However creations, renames, bulk creations and  *)
(* edits overlap, no inbound has two entries of one name: sing-box would   *)
(* take either, and UpdateUserInInbound changes only the first.            *)
OneEntryPerInbound ==
    \A x, y \in users : x.name = y.name /\ x.tag = y.tag => x = y

(* WHO CONNECTS IS COUNTED.  Unless the file has been edited by hand since *)
(* the last account request, sing-box counts exactly the users of the      *)
(* managed inbounds, failures and restarts between the steps included.     *)
ConnectedAreCounted == ~byHand => stats = StatsOf(users)

(* An update has made the file what it should be.                          *)
UpdateFiled(us, r, e) ==
    /\ e => LET xs == Targets(us, r.name, r.tag) IN xs # {} /\ \A x \in xs : x.uuid = r.uuid
    /\ ~e => Entries(us, r.name) = {}
    /\ r.orig # r.name => Entries(us, r.orig) = {}

(* So has a bulk creation for one of its items.                            *)
ItemFiled(us, i) == i.tag \in Reach => EntriesIn(us, i.name, i.tag) # {}

(* What a request that answers with success has brought about.             *)
Done(h) ==
    LET r == req[h] IN
    /\ r.kind = "create" =>
          /\ meta[r.name] = Said(on[h])
          /\ on[h] => [name |-> r.name, tag |-> r.tag, uuid |-> r.uuid] \in users
    /\ r.kind = "update" =>
          /\ meta[r.name] = Said(on[h])
          /\ UpdateFiled(users, r, on[h])
          /\ r.orig # r.name => meta[r.orig] = "none"
    /\ r.kind = "delete" => Entries(users, r.name) = {} /\ meta[r.name] = "none"
    /\ r.kind = "leave" => EntriesIn(users, r.name, r.tag) = {}
    /\ r.kind = "edit" => \E x \in EntriesIn(users, r.name, r.tag) : x.uuid = r.uuid
    /\ r.kind = "bulk" =>
          \A k \in 1..Len(r.items) :
              meta[r.items[k].name] = "enabled" /\ ItemFiled(users, r.items[k])

(* ALONE MEANS DONE.  A request that answers with success, that nobody     *)
(* came between and of which no step failed, has done all of what it was   *)
(* asked for in the file and in the metadata: whatever mixture of edits,   *)
(* crashes and failed requests it started from.                            *)
AloneMeansDone == \A h \in Handlers : pc[h] = "ok" /\ alone[h] => Done(h)

-----------------------------------------------------------------------------
(* "If strictly disabled in metadata, but active in config, we still show  *)
(* as enabled=false (logic in handleUpdateUser handles sync)"              *)
(* (api/server.go:692): an update that disables a user and answers with    *)
(* success leaves it in no managed inbound.                                *)
DisabledIsSynced ==
    \A h \in Handlers :
        pc[h] = "ok" /\ req[h].kind = "update" /\ ~on[h] => Entries(users, req[h].name) = {}
=============================================================================
