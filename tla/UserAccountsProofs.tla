-------------------------- MODULE UserAccountsProofs --------------------------
(* Proofs about UserAccounts, for every value of its constants.            *)
EXTENDS UserAccounts, TLAPS

(* A handler of a request of this kind may be there.                       *)
Fits(label, kind) ==
    /\ label = "add" => kind = "create"
    /\ label \in {"lookup", "removeOld", "removeNew", "update", "fallback"} => kind = "update"
    /\ label = "remove" => kind = "delete"
    /\ label = "leave" => kind = "leave"
    /\ label \in {"edit", "readMeta", "writeMeta"} => kind = "edit"
    /\ label \in {"bulkAdd", "bulkSave"} => kind = "bulk"
    /\ label = "save" => kind \in {"create", "update"}
    /\ label = "forget" => kind \in {"update", "delete"}

(* Which request has brought a handler where it is.                        *)
Kinds ==
    \A h \in Handlers : pc[h] # "idle" => /\ req[h] \in Requests
                                         /\ Fits(pc[h], req[h].kind)

-----------------------------------------------------------------------------
(* The fields of a request, by its kind.                                   *)
LEMMA FieldsOfRequest ==
    ASSUME NEW r \in Requests
    PROVE  /\ r.kind \in {"create", "update", "delete", "leave", "edit", "bulk"}
           /\ r.kind = "create" => /\ r.name \in Names /\ r.uuid \in Uuids
                                   /\ r.tag \in Tags
           /\ r.kind = "update" => /\ r.name \in Names /\ r.uuid \in Uuids
                                   /\ r.orig \in Names
           /\ r.kind = "delete" => r.name \in Names
           /\ r.kind = "leave" => r.name \in Names
           /\ r.kind = "edit" => r.name \in Names /\ r.uuid \in Uuids
           /\ r.kind = "bulk" => /\ Len(r.items) \in Nat
                                 /\ r.items # <<>> => Len(r.items) >= 1
                                 /\ \A k \in 1..Len(r.items) :
                                       /\ r.items[k].name \in Names
                                       /\ r.items[k].uuid \in Uuids
  <1>1. r \in Request
    BY RequestAssumption
  <1>2. CASE r \in CreateRequest
    BY <1>2 DEF CreateRequest
  <1>3. CASE r \in UpdateRequest
    BY <1>3 DEF UpdateRequest
  <1>4. CASE r \in DeleteRequest
    BY <1>4 DEF DeleteRequest
  <1>5. CASE r \in LeaveRequest
    BY <1>5 DEF LeaveRequest
  <1>6. CASE r \in EditRequest
    BY <1>6 DEF EditRequest
  <1>7. CASE r \in BulkRequest
    <2>1. r.kind = "bulk" /\ r.items \in Seq(Item)
      BY <1>7 DEF BulkRequest
    <2>2. /\ Len(r.items) \in Nat
          /\ r.items # <<>> => Len(r.items) >= 1
          /\ \A k \in 1..Len(r.items) : r.items[k] \in Item
      BY <2>1
    <2> QED
      BY <2>1, <2>2 DEF Item
  <1> QED
    BY <1>1, <1>2, <1>3, <1>4, <1>5, <1>6, <1>7 DEF Request

(* What the modifiers leave of the file is made of entries.                *)
LEMMA FileIsTyped ==
    ASSUME users \subseteq User, NEW n \in Names, NEW u \in Uuids
    PROVE  /\ \A t : CanAdd(users, n, t) => Added(users, n, u, t) \subseteq User
           /\ \A xs \in SUBSET users : Rewritten(users, xs, u) \subseteq User
           /\ \A us : us \subseteq User => StatsOf(us) \subseteq Names
  BY DEF User, CanAdd, Added, Rewritten, StatsOf, Reach

LEMMA RewrittenIsTyped ==
    ASSUME users \subseteq User, NEW u \in Uuids, NEW xs \in SUBSET users
    PROVE  Rewritten(users, xs, u) \subseteq User
  BY DEF User, Rewritten

-----------------------------------------------------------------------------
LEMMA InitIsTyped == Init => TypeOK /\ Kinds
  <1> SUFFICES ASSUME Init
               PROVE  TypeOK /\ Kinds
    OBVIOUS
  <1>1. \A h \in Handlers : pc[h] = "idle"
    BY DEF Init
  <1>2. TypeOK
    BY <1>1 DEF Init, TypeOK, PC
  <1>3. Kinds
    BY <1>1 DEF Kinds
  <1> QED
    BY <1>2, <1>3

LEMMA BeginIsTyped ==
    ASSUME TypeOK, Kinds, NEW h \in Handlers, Begin(h)
    PROVE  TypeOK' /\ Kinds'
  <1>1. PICK r \in Requests : /\ req' = [req EXCEPT ![h] = r]
                              /\ pc' = [pc EXCEPT ![h] = Entry(r)]
    BY DEF Begin, Goto
  <1>2. /\ Entry(r) \in PC
        /\ Entry(r) \notin {"idle", "bulkSave"}
        /\ Fits(Entry(r), r.kind)
        /\ Entry(r) = "bulkAdd" => r.kind = "bulk" /\ r.items # <<>>
    BY FieldsOfRequest DEF Entry, UpdateEntry, PC, Fits
  <1>3. on' \in [Handlers -> BOOLEAN]
    BY DEF Begin, TypeOK
  <1>4. /\ at' = [at EXCEPT ![h] = 1]
        /\ alone' \in [Handlers -> BOOLEAN]
        /\ UNCHANGED <<fileVars, meta>>
    BY DEF Begin, TypeOK
  <1>5. Entry(r) = "bulkAdd" => 1 \in 1..Len(r.items)
    BY <1>2, FieldsOfRequest
  <1> QED
    BY <1>1, <1>2, <1>3, <1>4, <1>5 DEF TypeOK, Kinds, fileVars

LEMMA StepIsTyped ==
    ASSUME NEW h \in Handlers, NEW b \in BOOLEAN, TypeOK, Step(h, b)
    PROVE  alone' \in [Handlers -> BOOLEAN]
  BY DEF Step, TypeOK

LEMMA FinishIsTyped ==
    ASSUME TypeOK, Kinds, NEW h \in Handlers, Finish(h), UNCHANGED <<fileVars, meta>>,
           alone' \in [Handlers -> BOOLEAN]
    PROVE  TypeOK' /\ Kinds'
  BY DEF Finish, Goto, TypeOK, Kinds, PC, fileVars

LEMMA ErrorIsTyped ==
    ASSUME TypeOK, Kinds, NEW h \in Handlers, Error(h)
    PROVE  TypeOK' /\ Kinds'
  BY FinishIsTyped, StepIsTyped DEF Error

LEMMA SavedFileIsTyped ==
    ASSUME NEW us, us \subseteq User, SaveFile(us)
    PROVE  /\ users' \subseteq User
           /\ stats' \subseteq Names
           /\ byHand' \in BOOLEAN
  BY DEF SaveFile, StatsOf, User

(* A step within a request that leaves the place in a bulk creation alone. *)
LEMMA MoveIsTyped ==
    ASSUME TypeOK, Kinds, NEW h \in Handlers, pc[h] # "idle",
           NEW label \in PC, Goto(h, label), label \notin {"idle", "bulkAdd"},
           label = "bulkSave" => pc[h] = "bulkAdd",
           Fits(label, req[h].kind),
           users' \subseteq User, stats' \subseteq Names, byHand' \in BOOLEAN,
           meta' \in [Names -> {"none", "enabled", "disabled"}],
           on' \in [Handlers -> BOOLEAN], alone' \in [Handlers -> BOOLEAN],
           UNCHANGED <<req, at>>
    PROVE  TypeOK' /\ Kinds'
  <1>1. pc' \in [Handlers -> PC] /\ pc'[h] = label
    BY DEF Goto, TypeOK
  <1>2. \A g \in Handlers \ {h} : pc'[g] = pc[g]
    BY DEF Goto, TypeOK
  <1>3. TypeOK'
    BY <1>1, <1>2 DEF TypeOK
  <1>4. Kinds'
    BY <1>1, <1>2 DEF Kinds
  <1> QED
    BY <1>3, <1>4

(* The file as a modifier leaves it, or as it is.                          *)
LEMMA RemovalIsTyped ==
    ASSUME TypeOK, NEW xs,
           SaveFile(users \ xs) \/ UNCHANGED fileVars
    PROVE  users' \subseteq User /\ stats' \subseteq Names /\ byHand' \in BOOLEAN
  <1>1. CASE SaveFile(users \ xs)
    BY <1>1, users \ xs \subseteq User, SavedFileIsTyped DEF TypeOK
  <1>2. CASE UNCHANGED fileVars
    BY <1>2 DEF fileVars, TypeOK
  <1> QED
    BY <1>1, <1>2

LEMMA AddUserIsTyped ==
    ASSUME TypeOK, Kinds, NEW h \in Handlers, AddUser(h)
    PROVE  TypeOK' /\ Kinds'
  <1> DEFINE r == req[h]
             us == Added(users, r.name, r.uuid, r.tag)
  <1>1. CASE Error(h)
    BY <1>1, ErrorIsTyped
  <1>2. CASE CanAdd(users, r.name, r.tag) /\ SaveFile(us) /\ Goto(h, "save")
             /\ Step(h, TRUE) /\ UNCHANGED <<meta, req, on, at>>
    <2>1. /\ r \in Requests /\ r.kind \in {"create", "update"} /\ pc[h] # "idle"
      BY DEF AddUser, Kinds, Fits
    <2>2. us \subseteq User
      BY <1>2, <2>1, FieldsOfRequest, FileIsTyped DEF TypeOK
    <2>3. users' \subseteq User /\ stats' \subseteq Names /\ byHand' \in BOOLEAN
      BY <1>2, <2>2, SavedFileIsTyped
    <2>4. alone' \in [Handlers -> BOOLEAN]
      BY <1>2, StepIsTyped
    <2>5. "save" \in PC /\ Fits("save", r.kind)
      BY <2>1 DEF PC, Fits
    <2> QED
      BY <1>2, <2>1, <2>3, <2>4, <2>5, MoveIsTyped DEF TypeOK
  <1> QED
    BY <1>1, <1>2 DEF AddUser

LEMMA UpdateIsTyped ==
    ASSUME TypeOK, Kinds, NEW h \in Handlers, Update(h)
    PROVE  TypeOK' /\ Kinds'
  <1> DEFINE r == req[h]
  <1>1. /\ r \in Requests /\ r.kind = "update" /\ pc[h] # "idle"
        /\ r.name \in Names /\ r.uuid \in Uuids
    BY FieldsOfRequest DEF Update, LookUp, RemoveOld, RemoveNew, UpdateUser, Kinds, Fits
  <1>2. \A label \in {"removeOld", "removeNew", "update", "fallback", "save"} :
           label \in PC /\ Fits(label, r.kind) /\ label \notin {"idle", "bulkAdd", "bulkSave"}
    BY <1>1 DEF PC, Fits
  <1>3. CASE LookUp(h)
    <2>1. PICK read \in BOOLEAN, e \in BOOLEAN : /\ on' = [on EXCEPT ![h] = e]
                                                 /\ Goto(h, UpdateEntry(r, e))
                                                 /\ Step(h, read)
      BY <1>3 DEF LookUp
    <2>2. UpdateEntry(r, e) \in {"update", "removeOld"}
      BY DEF UpdateEntry
    <2>3. on' \in [Handlers -> BOOLEAN] /\ alone' \in [Handlers -> BOOLEAN]
      BY <2>1, StepIsTyped DEF TypeOK
    <2>4. UNCHANGED <<users, stats, byHand, meta, req, at>>
      BY <1>3 DEF LookUp, fileVars
    <2> QED
      BY <1>1, <1>2, <2>1, <2>2, <2>3, <2>4, MoveIsTyped DEF TypeOK
  <1>4. CASE RemoveOld(h) \/ RemoveNew(h)
    <2>1. \E n \in Names : SaveFile(users \ Entries(users, n)) \/ UNCHANGED fileVars
      BY <1>4, <1>1, FieldsOfRequest DEF RemoveOld, RemoveNew
    <2>2. users' \subseteq User /\ stats' \subseteq Names /\ byHand' \in BOOLEAN
      BY <2>1, RemovalIsTyped
    <2>3. alone' \in [Handlers -> BOOLEAN] /\ UNCHANGED <<meta, req, on, at>>
      BY <1>4, StepIsTyped DEF RemoveOld, RemoveNew
    <2>4. \E label \in {"removeNew", "update", "save"} : Goto(h, label)
      BY <1>4 DEF RemoveOld, RemoveNew
    <2> QED
      BY <1>1, <1>2, <2>2, <2>3, <2>4, MoveIsTyped DEF TypeOK
  <1>5. CASE UpdateUser(h)
    <2>1. Targets(users, r.name, r.tag) \in SUBSET users
      BY DEF Targets, Entries
    <2>2. users' \subseteq User
      <3>1. users \subseteq User /\ r.uuid \in Uuids
        BY <1>1 DEF TypeOK
      <3>2. Rewritten(users, Targets(users, r.name, r.tag), r.uuid) \subseteq User
        BY <2>1, <3>1, RewrittenIsTyped
      <3>3. \/ users' = users
            \/ users' = Rewritten(users, Targets(users, r.name, r.tag), r.uuid)
        BY <1>5 DEF UpdateUser
      <3> QED
        BY <3>1, <3>2, <3>3
    <2>3. alone' \in [Handlers -> BOOLEAN] /\ UNCHANGED <<stats, byHand, meta, req, on, at>>
      BY <1>5, StepIsTyped DEF UpdateUser
    <2>4. \E label \in {"fallback", "save"} : Goto(h, label)
      BY <1>5 DEF UpdateUser
    <2> QED
      BY <1>1, <1>2, <2>2, <2>3, <2>4, MoveIsTyped DEF TypeOK
  <1> QED
    BY <1>3, <1>4, <1>5 DEF Update

LEMMA MetaIsTyped ==
    ASSUME TypeOK, Kinds, NEW h \in Handlers, SaveMeta(h) \/ ForgetMeta(h)
    PROVE  TypeOK' /\ Kinds'
  <1>1. CASE Error(h)
    BY <1>1, ErrorIsTyped
  <1>2. CASE ~Error(h)
    <2>1. req[h] \in Requests /\ pc[h] # "idle" /\ req[h].kind \in {"create", "update", "delete"}
      BY DEF SaveMeta, ForgetMeta, Kinds, Fits
    <2>2. meta' \in [Names -> {"none", "enabled", "disabled"}]
      BY <1>2 DEF SaveMeta, ForgetMeta, Said, TypeOK
    <2>3. alone' \in [Handlers -> BOOLEAN] /\ UNCHANGED <<users, stats, byHand, req, on, at>>
      BY <1>2, StepIsTyped DEF SaveMeta, ForgetMeta, fileVars
    <2>4. \E label \in {"ok", "forget"} :
             Goto(h, label) /\ (label = "forget" => req[h].kind = "update")
      BY <1>2 DEF SaveMeta, ForgetMeta
    <2>5. PICK label \in {"ok", "forget"} :
             Goto(h, label) /\ label \in PC /\ Fits(label, req[h].kind)
      BY <2>4 DEF PC, Fits
    <2> QED
      BY <2>1, <2>2, <2>3, <2>5, MoveIsTyped DEF TypeOK
  <1> QED
    BY <1>1, <1>2

LEMMA RemovalsAreTyped ==
    ASSUME TypeOK, Kinds, NEW h \in Handlers, RemoveUser(h) \/ RemoveUserFromInbound(h)
    PROVE  TypeOK' /\ Kinds'
  <1>1. CASE Error(h)
    BY <1>1, ErrorIsTyped
  <1>2. CASE ~Error(h)
    <2>1. pc[h] # "idle" /\ req[h].kind \in {"delete", "leave"}
      BY DEF RemoveUser, RemoveUserFromInbound, Kinds, Fits
    <2>2. \E xs : SaveFile(users \ xs)
      BY <1>2 DEF RemoveUser, RemoveUserFromInbound
    <2>3. users' \subseteq User /\ stats' \subseteq Names /\ byHand' \in BOOLEAN
      BY <2>2, RemovalIsTyped
    <2>4. alone' \in [Handlers -> BOOLEAN] /\ UNCHANGED <<meta, req, on, at>>
      BY <1>2, StepIsTyped DEF RemoveUser, RemoveUserFromInbound
    <2>5. PICK label \in {"ok", "forget"} :
             Goto(h, label) /\ (label = "forget" => req[h].kind = "delete")
      BY <1>2 DEF RemoveUser, RemoveUserFromInbound, Kinds, Fits
    <2>6. label \in PC /\ Fits(label, req[h].kind)
      BY <2>5 DEF PC, Fits
    <2> QED
      BY <2>1, <2>3, <2>4, <2>5, <2>6, MoveIsTyped DEF TypeOK
  <1> QED
    BY <1>1, <1>2

LEMMA EditIsTyped ==
    ASSUME TypeOK, Kinds, NEW h \in Handlers,
           UpdateUserInInbound(h) \/ ReadMeta(h) \/ WriteMeta(h)
    PROVE  TypeOK' /\ Kinds'
  <1> DEFINE r == req[h]
  <1>1. CASE Error(h)
    BY <1>1, ErrorIsTyped
  <1>2. CASE ~Error(h)
    <2>1. r \in Requests /\ r.name \in Names /\ r.uuid \in Uuids /\ pc[h] # "idle" /\ r.kind = "edit"
      BY FieldsOfRequest DEF UpdateUserInInbound, ReadMeta, WriteMeta, Kinds, Fits
    <2>2. users' \subseteq User /\ stats' \subseteq Names /\ byHand' \in BOOLEAN
      <3>1. CASE UpdateUserInInbound(h)
        <4> DEFINE xs == EntriesIn(users, r.name, r.tag)
        <4>1. xs \in SUBSET users
          BY DEF EntriesIn, Entries
        <4>2. Rewritten(users, xs, r.uuid) \subseteq User
          BY <2>1, <4>1, FileIsTyped DEF TypeOK
        <4>3. SaveFile(Rewritten(users, xs, r.uuid))
          BY <1>2, <3>1 DEF UpdateUserInInbound
        <4> QED
          BY <4>2, <4>3, SavedFileIsTyped
      <3>2. CASE ReadMeta(h) \/ WriteMeta(h)
        BY <3>2 DEF ReadMeta, WriteMeta, fileVars, TypeOK
      <3> QED
        BY <3>1, <3>2
    <2>3. /\ meta' \in [Names -> {"none", "enabled", "disabled"}]
          /\ on' \in [Handlers -> BOOLEAN]
          /\ UNCHANGED <<req, at>>
      BY <1>2 DEF UpdateUserInInbound, ReadMeta, WriteMeta, Said, TypeOK
    <2>4. alone' \in [Handlers -> BOOLEAN]
      BY <1>2, StepIsTyped DEF UpdateUserInInbound, ReadMeta, WriteMeta
    <2>5. PICK label \in {"ok", "readMeta", "writeMeta"} : Goto(h, label)
      BY <1>2 DEF UpdateUserInInbound, ReadMeta, WriteMeta
    <2>6. label \in PC /\ Fits(label, r.kind)
      BY <2>1, <2>5 DEF PC, Fits
    <2> QED
      BY <2>1, <2>2, <2>3, <2>4, <2>5, <2>6, MoveIsTyped
  <1> QED
    BY <1>1, <1>2

LEMMA BulkIsTyped ==
    ASSUME TypeOK, Kinds, NEW h \in Handlers, Bulk(h)
    PROVE  TypeOK' /\ Kinds'
  <1> DEFINE r == req[h]
             i == r.items[at[h]]
             us == Added(users, i.name, i.uuid, i.tag)
  <1>1. r \in Requests /\ r.kind = "bulk" /\ pc[h] # "idle"
    BY DEF Bulk, BulkAdd, BulkSave, Kinds, Fits
  <1>2. at[h] \in 1..Len(r.items) /\ Len(r.items) \in Nat
    BY <1>1, FieldsOfRequest DEF Bulk, BulkAdd, BulkSave, TypeOK
  <1>3. i.name \in Names /\ i.uuid \in Uuids
    BY <1>1, <1>2, FieldsOfRequest
  <1>4. alone' \in [Handlers -> BOOLEAN]
    BY StepIsTyped DEF Bulk, BulkAdd, BulkSave
  <1>5. CASE BulkAdd(h)
    <2>1. users' \subseteq User /\ stats' \subseteq Names /\ byHand' \in BOOLEAN
      <3>1. CASE UNCHANGED fileVars
        BY <3>1 DEF fileVars, TypeOK
      <3>2. CASE CanAdd(users, i.name, i.tag) /\ SaveFile(us)
        BY <3>2, <1>3, FileIsTyped, us \subseteq User, SavedFileIsTyped DEF TypeOK
      <3> QED
        BY <1>5, <3>1, <3>2 DEF BulkAdd
    <2>2. /\ "bulkSave" \in PC /\ Fits("bulkSave", r.kind)
          /\ Goto(h, "bulkSave") /\ pc[h] = "bulkAdd" /\ UNCHANGED <<meta, req, on, at>>
      BY <1>1, <1>5 DEF PC, Fits, BulkAdd
    <2> QED
      BY <1>1, <1>4, <2>1, <2>2, MoveIsTyped DEF TypeOK
  <1>6. CASE BulkSave(h)
    <2> DEFINE label == IF at[h] = Len(r.items) THEN "ok" ELSE "bulkAdd"
    <2>1. /\ pc' = [pc EXCEPT ![h] = label]
          /\ at' = [at EXCEPT ![h] = at[h] + 1]
          /\ UNCHANGED <<users, stats, byHand, req, on>>
      BY <1>6 DEF BulkSave, Goto, fileVars
    <2>2. meta' \in [Names -> {"none", "enabled", "disabled"}]
      BY <1>6 DEF BulkSave, TypeOK
    <2>3. pc' \in [Handlers -> PC] /\ at' \in [Handlers -> Nat]
      BY <2>1 DEF TypeOK, PC
    <2>4. \A g \in Handlers :
             pc'[g] \in {"bulkAdd", "bulkSave"} => at'[g] \in 1..Len(req'[g].items)
      BY <1>2, <2>1 DEF TypeOK
    <2>5. TypeOK'
      BY <1>4, <2>1, <2>2, <2>3, <2>4 DEF TypeOK
    <2>6. Kinds'
      BY <1>1, <2>1 DEF TypeOK, Kinds, Fits
    <2> QED
      BY <2>5, <2>6
  <1> QED
    BY <1>5, <1>6 DEF Bulk

LEMMA OthersAreTyped ==
    ASSUME TypeOK, Kinds, PanelRestart \/ \E t \in Tags : EditInbound(t)
    PROVE  TypeOK' /\ Kinds'
  <1>1. CASE PanelRestart
    BY <1>1 DEF PanelRestart, fileVars, TypeOK, Kinds, PC
  <1>2. ASSUME NEW t \in Tags, EditInbound(t)
        PROVE  TypeOK' /\ Kinds'
    <2>1. users' \subseteq User
      BY <1>2, RequestAssumption DEF EditInbound, TypeOK
    <2> QED
      BY <1>2, <2>1 DEF EditInbound, TypeOK, Kinds
  <1> QED
    BY <1>1, <1>2

(* Every step keeps the types, and the requests their handlers' places.    *)
LEMMA NextIsTyped == TypeOK /\ Kinds /\ [Next]_vars => TypeOK' /\ Kinds'
  <1> SUFFICES ASSUME TypeOK, Kinds, [Next]_vars
               PROVE  TypeOK' /\ Kinds'
    OBVIOUS
  <1>1. ASSUME NEW h \in Handlers, Serve(h)
        PROVE  TypeOK' /\ Kinds'
    <2>1. CASE Answer(h)
      BY <2>1, FinishIsTyped, StepIsTyped DEF Answer
    <2> QED
      BY <1>1, <2>1, BeginIsTyped, AddUserIsTyped, UpdateIsTyped, MetaIsTyped,
         RemovalsAreTyped, EditIsTyped, BulkIsTyped DEF Serve, InInbound
  <1>2. CASE UNCHANGED vars
    BY <1>2 DEF vars, fileVars, TypeOK, Kinds
  <1> QED
    BY <1>1, <1>2, OthersAreTyped DEF Next

(* TYPE CORRECTNESS of the file's users, the metadata and the handlers of  *)
(* api/server.go; the loop of a bulk creation stays within its request.    *)
THEOREM TypeCorrect == Spec => []TypeOK
  BY InitIsTyped, NextIsTyped, PTL DEF Spec

-----------------------------------------------------------------------------
(* One entry per name and inbound.                                         *)
Single(us) == \A x, y \in us : x.name = y.name /\ x.tag = y.tag => x = y

LEMMA RemovalKeepsSingle ==
    ASSUME NEW us, NEW vs, Single(us), vs \subseteq us
    PROVE  Single(vs)
  BY DEF Single

LEMMA AddedKeepsSingle ==
    ASSUME NEW n, NEW u, NEW t, Single(users), CanAdd(users, n, t)
    PROVE  Single(Added(users, n, u, t))
  BY DEF Single, Added, CanAdd, EntriesIn, Entries

LEMMA RewrittenKeepsSingle ==
    ASSUME users \subseteq User, NEW xs \in SUBSET users, NEW u, Single(users)
    PROVE  Single(Rewritten(users, xs, u))
  <1> SUFFICES ASSUME NEW x \in Rewritten(users, xs, u), NEW y \in Rewritten(users, xs, u),
                      x.name = y.name, x.tag = y.tag
               PROVE  x = y
    BY DEF Single
  <1>1. ASSUME NEW z \in Rewritten(users, xs, u)
        PROVE  \E o \in users : /\ o.name = z.name /\ o.tag = z.tag
                                /\ z = IF o \in xs THEN [o EXCEPT !.uuid = u] ELSE o
    BY <1>1 DEF Rewritten, User
  <1>2. PICK o \in users : /\ o.name = x.name /\ o.tag = x.tag
                           /\ x = IF o \in xs THEN [o EXCEPT !.uuid = u] ELSE o
    BY <1>1
  <1>3. PICK p \in users : /\ p.name = y.name /\ p.tag = y.tag
                           /\ y = IF p \in xs THEN [p EXCEPT !.uuid = u] ELSE p
    BY <1>1
  <1>4. o = p
    BY <1>2, <1>3 DEF Single
  <1> QED
    BY <1>2, <1>3, <1>4

(* What a handler's step makes of the entries: it leaves them, removes     *)
(* some, adds one that was not there, or rewrites some.                    *)
FileStep ==
    \/ users' \subseteq users
    \/ \E n \in Names, u \in Uuids, t \in Tags :
          CanAdd(users, n, t) /\ users' = Added(users, n, u, t)
    \/ \E xs \in SUBSET users, u \in Uuids : users' = Rewritten(users, xs, u)

LEMMA ServeIsFileStep ==
    ASSUME TypeOK, Kinds, NEW h \in Handlers, Serve(h)
    PROVE  FileStep
  <1> DEFINE r == req[h]
  <1>1. CASE UNCHANGED users
    BY <1>1 DEF FileStep
  <1>2. CASE AddUser(h) /\ ~UNCHANGED users
    <2>1. CanAdd(users, r.name, r.tag) /\ users' = Added(users, r.name, r.uuid, r.tag)
      BY <1>2 DEF AddUser, Error, SaveFile, fileVars
    <2>2. r \in Requests /\ r.kind \in {"create", "update"}
      BY <1>2 DEF AddUser, Kinds, Fits
    <2>3. r.name \in Names /\ r.uuid \in Uuids /\ r.tag \in Tags
      BY <2>1, <2>2, FieldsOfRequest DEF CanAdd, Reach
    <2> QED
      BY <2>1, <2>3 DEF FileStep
  <1>3. CASE BulkAdd(h) /\ ~UNCHANGED users
    <2> DEFINE i == r.items[at[h]]
    <2>1. CanAdd(users, i.name, i.tag) /\ users' = Added(users, i.name, i.uuid, i.tag)
      BY <1>3 DEF BulkAdd, SaveFile, fileVars
    <2>2. r \in Requests /\ r.kind = "bulk" /\ at[h] \in 1..Len(r.items)
      BY <1>3 DEF BulkAdd, Kinds, Fits, TypeOK
    <2>3. i.name \in Names /\ i.uuid \in Uuids /\ i.tag \in Tags
      BY <2>1, <2>2, FieldsOfRequest DEF CanAdd, Reach
    <2> QED
      BY <2>1, <2>3 DEF FileStep
  <1>4. CASE UpdateUser(h) /\ ~UNCHANGED users
    <2>1. users' = Rewritten(users, Targets(users, r.name, r.tag), r.uuid)
      BY <1>4 DEF UpdateUser
    <2>2. Targets(users, r.name, r.tag) \in SUBSET users
      BY DEF Targets, Entries
    <2>3. r.uuid \in Uuids
      BY <1>4, FieldsOfRequest DEF UpdateUser, Kinds, Fits
    <2> QED
      BY <2>1, <2>2, <2>3 DEF FileStep
  <1>5. CASE UpdateUserInInbound(h) /\ ~UNCHANGED users
    <2>1. users' = Rewritten(users, EntriesIn(users, r.name, r.tag), r.uuid)
      BY <1>5 DEF UpdateUserInInbound, Error, SaveFile, fileVars
    <2>2. EntriesIn(users, r.name, r.tag) \in SUBSET users
      BY DEF EntriesIn, Entries
    <2>3. r.uuid \in Uuids
      BY <1>5, FieldsOfRequest DEF UpdateUserInInbound, Kinds, Fits
    <2> QED
      BY <2>1, <2>2, <2>3 DEF FileStep
  <1>6. CASE RemoveOld(h) \/ RemoveNew(h) \/ RemoveUser(h) \/ RemoveUserFromInbound(h)
    <2>1. users' \subseteq users
      BY <1>6 DEF RemoveOld, RemoveNew, RemoveUser, RemoveUserFromInbound, Error, SaveFile, fileVars
    <2> QED
      BY <2>1 DEF FileStep
  <1>7. CASE \/ Begin(h) \/ LookUp(h) \/ SaveMeta(h) \/ ForgetMeta(h)
             \/ ReadMeta(h) \/ WriteMeta(h) \/ BulkSave(h) \/ Answer(h)
    <2>1. UNCHANGED users
      BY <1>7 DEF Begin, LookUp, SaveMeta, ForgetMeta, ReadMeta, WriteMeta, BulkSave, Answer,
                  Error, fileVars
    <2> QED
      BY <2>1, <1>1
  <1> QED
    BY <1>1, <1>2, <1>3, <1>4, <1>5, <1>6, <1>7 DEF Serve, Update, InInbound, Bulk

LEMMA NextKeepsSingle ==
    TypeOK /\ Kinds /\ OneEntryPerInbound /\ [Next]_vars => OneEntryPerInbound'
  <1> SUFFICES ASSUME TypeOK, Kinds, OneEntryPerInbound, [Next]_vars
               PROVE  Single(users')
    BY DEF OneEntryPerInbound, Single
  <1>1. Single(users) /\ users \subseteq User
    BY DEF OneEntryPerInbound, Single, TypeOK
  <1>2. ASSUME NEW h \in Handlers, Serve(h)
        PROVE  Single(users')
    BY <1>1, <1>2, ServeIsFileStep, RemovalKeepsSingle, AddedKeepsSingle, RewrittenKeepsSingle
       DEF FileStep
  <1>3. ASSUME NEW t \in Tags, EditInbound(t)
        PROVE  Single(users')
    <2>1. PICK us \in SUBSET {x \in ByHand : x.tag = t} :
             /\ \A x, y \in us : x.name = y.name => x = y
             /\ users' = {x \in users : x.tag # t} \cup us
      BY <1>3 DEF EditInbound
    <2> QED
      BY <1>1, <2>1 DEF Single
  <1>4. CASE PanelRestart \/ UNCHANGED vars
    BY <1>1, <1>4 DEF PanelRestart, vars, fileVars
  <1> QED
    BY <1>2, <1>3, <1>4 DEF Next

(* ONE ENTRY PER INBOUND.  However the requests of api/server.go overlap   *)
(* and fail, no inbound of the file has two entries of one name.           *)
THEOREM EntriesAreUnique == Spec => []OneEntryPerInbound
  <1>1. Init => OneEntryPerInbound
    BY DEF Init, OneEntryPerInbound
  <1> QED
    BY <1>1, InitIsTyped, NextIsTyped, NextKeepsSingle, PTL DEF Spec

-----------------------------------------------------------------------------
(* UpdateUser changes nobody's name.                                       *)
LEMMA RewrittenKeepsNames ==
    ASSUME users \subseteq User, NEW xs \in SUBSET users, NEW u
    PROVE  StatsOf(Rewritten(users, xs, u)) = StatsOf(users)
  <1>1. ASSUME NEW n \in StatsOf(users)
        PROVE  n \in StatsOf(Rewritten(users, xs, u))
    <2>1. PICK x \in users : x.tag \in Reach /\ x.name = n
      BY <1>1 DEF StatsOf
    <2> DEFINE y == IF x \in xs THEN [x EXCEPT !.uuid = u] ELSE x
    <2>2. y \in Rewritten(users, xs, u)
      BY <2>1 DEF Rewritten
    <2>3. y.tag = x.tag /\ y.name = x.name
      BY <2>1 DEF User
    <2> QED
      BY <2>1, <2>2, <2>3 DEF StatsOf
  <1>2. ASSUME NEW n \in StatsOf(Rewritten(users, xs, u))
        PROVE  n \in StatsOf(users)
    <2>1. PICK y \in Rewritten(users, xs, u) : y.tag \in Reach /\ y.name = n
      BY <1>2 DEF StatsOf
    <2>2. \E x \in users : y.tag = x.tag /\ y.name = x.name
      BY <2>1 DEF Rewritten, User
    <2> QED
      BY <2>1, <2>2 DEF StatsOf
  <1> QED
    BY <1>1, <1>2

LEMMA NextKeepsCounted ==
    TypeOK /\ Kinds /\ ConnectedAreCounted /\ [Next]_vars => ConnectedAreCounted'
  <1> SUFFICES ASSUME TypeOK, Kinds, ConnectedAreCounted, [Next]_vars
               PROVE  ~byHand' => stats' = StatsOf(users')
    BY DEF ConnectedAreCounted, StatsOf, Reach
  <1>1. CASE UNCHANGED fileVars
    BY <1>1 DEF ConnectedAreCounted, fileVars
  <1>2. CASE \E us : SaveFile(us)
    BY <1>2 DEF SaveFile
  <1>3. ASSUME NEW h \in Handlers, UpdateUser(h)
        PROVE  ~byHand' => stats' = StatsOf(users')
    <2> DEFINE xs == Targets(users, req[h].name, req[h].tag)
    <2>1. xs \in SUBSET users
      BY DEF Targets, Entries
    <2>2. StatsOf(Rewritten(users, xs, req[h].uuid)) = StatsOf(users)
      BY <2>1, RewrittenKeepsNames DEF TypeOK
    <2>3. /\ users' \in {users, Rewritten(users, xs, req[h].uuid)}
          /\ stats' = stats /\ byHand' = byHand
      BY <1>3 DEF UpdateUser
    <2> QED
      BY <2>2, <2>3 DEF ConnectedAreCounted
  <1>4. ASSUME NEW h \in Handlers, Serve(h), ~UpdateUser(h)
        PROVE  UNCHANGED fileVars \/ \E us : SaveFile(us)
    BY <1>4 DEF Serve, Begin, AddUser, Update, LookUp, RemoveOld, RemoveNew, SaveMeta,
                ForgetMeta, RemoveUser, InInbound, RemoveUserFromInbound, UpdateUserInInbound,
                ReadMeta, WriteMeta, Bulk, BulkAdd, BulkSave, Answer, Error
  <1>5. CASE \E t \in Tags : EditInbound(t)
    BY <1>5 DEF EditInbound
  <1>6. CASE PanelRestart \/ UNCHANGED vars
    BY <1>1, <1>6 DEF PanelRestart, vars, fileVars
  <1> QED
    BY <1>1, <1>2, <1>3, <1>4, <1>5, <1>6 DEF Next

(* WHO CONNECTS IS COUNTED.  Unless the file has been edited by hand, the  *)
(* list of syncStatsUsers in core/config.go is that of the managed inbounds*)
(* at every moment: UpdateUser may leave it alone.                         *)
THEOREM CountsAreCurrent == Spec => []ConnectedAreCounted
  <1>1. Init => ConnectedAreCounted
    BY DEF Init, ConnectedAreCounted, StatsOf
  <1> QED
    BY <1>1, InitIsTyped, NextIsTyped, NextKeepsCounted, PTL DEF Spec

-----------------------------------------------------------------------------
(* How far a handler has come that nobody came between.                    *)
Progress(h) ==
    LET r == req[h] IN
    /\ pc[h] = "save" /\ r.kind = "create" /\ on[h] =>
          [name |-> r.name, tag |-> r.tag, uuid |-> r.uuid] \in users
    /\ pc[h] \in {"save", "forget"} /\ r.kind = "update" => UpdateFiled(users, r, on[h])
    /\ pc[h] = "forget" /\ r.kind = "update" =>
          r.orig # r.name /\ meta[r.name] = Said(on[h])
    /\ pc[h] \in {"update", "fallback", "removeNew"} =>
          /\ on[h] <=> pc[h] # "removeNew"
          /\ r.orig # r.name => Entries(users, r.orig) = {}
    /\ pc[h] = "fallback" => Targets(users, r.name, r.tag) = {}
    /\ pc[h] = "forget" /\ r.kind = "delete" => Entries(users, r.name) = {}
    /\ pc[h] \in {"readMeta", "writeMeta"} =>
          \E x \in EntriesIn(users, r.name, r.tag) : x.uuid = r.uuid
    /\ pc[h] \in {"bulkAdd", "bulkSave"} =>
          \A k \in 1..(at[h] - 1) :
              meta[r.items[k].name] = "enabled" /\ ItemFiled(users, r.items[k])
    /\ pc[h] = "bulkSave" => ItemFiled(users, r.items[at[h]])
    /\ pc[h] = "ok" => Done(h)

AloneMakesProgress == \A h \in Handlers : alone[h] => Progress(h)

(* What the modifiers do for the user they are asked for, and leave of the *)
(* others.                                                                 *)
LEMMA RemovalRemoves ==
    ASSUME NEW us, NEW n
    PROVE  /\ Entries(us \ Entries(us, n), n) = {}
           /\ \A m : Entries(us, m) = {} => Entries(us \ Entries(us, n), m) = {}
           /\ \A t : EntriesIn(us \ EntriesIn(us, n, t), n, t) = {}
  BY DEF Entries, EntriesIn

LEMMA AdditionAdds ==
    ASSUME NEW us, NEW n, NEW u, NEW t, CanAdd(us, n, t)
    PROVE  /\ [name |-> n, tag |-> t, uuid |-> u] \in Added(us, n, u, t)
           /\ EntriesIn(Added(us, n, u, t), n, t) # {}
           /\ \A m : m # n /\ Entries(us, m) = {} => Entries(Added(us, n, u, t), m) = {}
           /\ \A i : ItemFiled(us, i) => ItemFiled(Added(us, n, u, t), i)
           /\ Targets(us, n, t) = {} =>
                 /\ Targets(Added(us, n, u, t), n, t) # {}
                 /\ \A x \in Targets(Added(us, n, u, t), n, t) : x.uuid = u
  <1> DEFINE e == [name |-> n, tag |-> t, uuid |-> u]
             vs == Added(us, n, u, t)
  <1>1. e \in vs /\ e.name = n /\ e.tag = t /\ e.uuid = u /\ t \in Reach /\ vs = us \cup {e}
    BY DEF Added, CanAdd
  <1>2. e \in EntriesIn(vs, n, t) /\ e \in Targets(vs, n, t)
    BY <1>1 DEF EntriesIn, Entries, Targets
  <1>3. \A m : m # n /\ Entries(us, m) = {} => Entries(vs, m) = {}
    BY <1>1 DEF Entries
  <1>4. \A i : ItemFiled(us, i) => ItemFiled(vs, i)
    BY <1>1 DEF ItemFiled, EntriesIn, Entries
  <1>5. Targets(us, n, t) = {} => \A x \in Targets(vs, n, t) : x = e
    BY <1>1 DEF Targets, Entries
  <1> QED
    BY <1>1, <1>2, <1>3, <1>4, <1>5

LEMMA RewrittenHaveOrigins ==
    ASSUME NEW us \in SUBSET User, NEW xs \in SUBSET us, NEW u,
           NEW z \in Rewritten(us, xs, u)
    PROVE  \E o \in us : /\ o.name = z.name /\ o.tag = z.tag
                         /\ IF o \in xs THEN z.uuid = u ELSE z = o
  <1>1. CASE z \in us \ xs
    BY <1>1
  <1>2. CASE \E x \in xs : z = [x EXCEPT !.uuid = u]
    BY <1>2 DEF User
  <1> QED
    BY <1>1, <1>2 DEF Rewritten

LEMMA RewritingRewrites ==
    ASSUME NEW us \in SUBSET User, NEW xs \in SUBSET us, NEW u
    PROVE  /\ \A m : Entries(us, m) = {} => Entries(Rewritten(us, xs, u), m) = {}
           /\ \A x \in xs : [x EXCEPT !.uuid = u] \in Rewritten(us, xs, u)
  <1>1. \A x \in xs : [x EXCEPT !.uuid = u] \in Rewritten(us, xs, u)
    BY DEF Rewritten
  <1>2. ASSUME NEW m, Entries(us, m) = {}, NEW z \in Entries(Rewritten(us, xs, u), m)
        PROVE  FALSE
    <2>1. z \in Rewritten(us, xs, u) /\ z.name = m /\ z.tag \in Reach
      BY <1>2 DEF Entries
    <2>2. PICK o \in us : o.name = z.name /\ o.tag = z.tag
      BY <2>1, RewrittenHaveOrigins
    <2> QED
      BY <1>2, <2>1, <2>2 DEF Entries
  <1> QED
    BY <1>1, <1>2

(* UpdateUser gives its uuid to all entries it is asked for.               *)
LEMMA UpdateUpdates ==
    ASSUME NEW us \in SUBSET User, NEW n, NEW t, NEW u, Targets(us, n, t) # {}
    PROVE  LET vs == Rewritten(us, Targets(us, n, t), u) IN
           Targets(vs, n, t) # {} /\ \A z \in Targets(vs, n, t) : z.uuid = u
  <1> DEFINE xs == Targets(us, n, t)
             vs == Rewritten(us, xs, u)
  <1>1. xs \in SUBSET us
    BY DEF Targets, Entries
  <1>2. PICK x \in xs : TRUE
    OBVIOUS
  <1>3. [x EXCEPT !.uuid = u] \in vs
    BY <1>1, <1>2, RewritingRewrites
  <1>4. LET z == [x EXCEPT !.uuid = u] IN z.name = x.name /\ z.tag = x.tag
    BY <1>1, <1>2 DEF User
  <1>5. [x EXCEPT !.uuid = u] \in Targets(vs, n, t)
    BY <1>2, <1>3, <1>4 DEF Targets, Entries
  <1>6. ASSUME NEW z \in Targets(vs, n, t)
        PROVE  z.uuid = u
    <2>1. z \in vs /\ z.name = n /\ z.tag \in Reach /\ (t \in Reach => TypeOf[z.tag] = TypeOf[t])
      BY DEF Targets, Entries
    <2>2. PICK o \in us : /\ o.name = z.name /\ o.tag = z.tag
                          /\ IF o \in xs THEN z.uuid = u ELSE z = o
      <3> HIDE DEF xs
      <3> QED
        BY <1>1, <2>1, RewrittenHaveOrigins
    <2>3. o \in xs
      BY <2>1, <2>2 DEF Targets, Entries
    <2> QED
      BY <2>2, <2>3
  <1> QED
    BY <1>5, <1>6

-----------------------------------------------------------------------------
(* Whoever is alone after a step has made it, as meant.                    *)
LEMMA OnlyOneIsAlone ==
    ASSUME TypeOK, NEW h \in Handlers, NEW b \in BOOLEAN, Step(h, b), NEW g \in Handlers,
           alone'[g]
    PROVE  g = h /\ b /\ alone[h]
  BY DEF Step

LEMMA LabelAfter ==
    ASSUME TypeOK, NEW h \in Handlers, NEW label, Goto(h, label)
    PROVE  pc'[h] = label
  BY DEF Goto, TypeOK

LEMMA BeginMakesProgress ==
    ASSUME TypeOK, Kinds, NEW h \in Handlers, Begin(h)
    PROVE  Progress(h)'
  <1>1. PICK r \in Requests :
           /\ req' = [req EXCEPT ![h] = r]
           /\ on' = [on EXCEPT ![h] =
                 r.kind = "bulk" \/ (r.kind \in {"create", "update"} /\ r.enabled = "yes")]
           /\ Goto(h, Entry(r))
    BY DEF Begin
  <1>2. req'[h] = r /\ pc'[h] = Entry(r) /\ at'[h] = 1
    BY <1>1, LabelAfter DEF Begin, TypeOK
  <1>3. on'[h] <=> (r.kind = "bulk" \/ (r.kind \in {"create", "update"} /\ r.enabled = "yes"))
    BY <1>1 DEF TypeOK
  <1>4. /\ Entry(r) \notin {"fallback", "removeNew", "forget", "readMeta", "writeMeta", "bulkSave"}
        /\ Entry(r) = "save" => r.kind = "create" /\ r.enabled # "yes"
        /\ Entry(r) = "update" => r.kind = "update" /\ r.orig = r.name /\ r.enabled = "yes"
        /\ Entry(r) = "ok" => r.kind = "bulk" /\ r.items = <<>>
    BY FieldsOfRequest DEF Entry, UpdateEntry
  <1>5. \A k \in 1..(at'[h] - 1) : FALSE
    BY <1>2
  <1>6. Entry(r) = "ok" => \A k \in 1..Len(r.items) : FALSE
    BY <1>4
  <1>7. Entry(r) = "ok" => Done(h)'
    BY <1>2, <1>4, <1>6 DEF Done
  <1> QED
    BY <1>2, <1>3, <1>4, <1>5, <1>7 DEF Progress

(* Creations and AddUser as an update's last resort.                       *)
LEMMA AddUserMakesProgress ==
    ASSUME TypeOK, Kinds, NEW h \in Handlers, AddUser(h), Progress(h), alone'[h]
    PROVE  Progress(h)'
  <1> DEFINE r == req[h]
             us == Added(users, r.name, r.uuid, r.tag)
  <1>1. ~Error(h)
    BY OnlyOneIsAlone DEF Error
  <1>2. /\ pc[h] \in {"add", "fallback"} /\ CanAdd(users, r.name, r.tag) /\ users' = us
        /\ Goto(h, "save") /\ UNCHANGED <<meta, req, on, at>>
    BY <1>1 DEF AddUser, SaveFile
  <1>3. pc'[h] = "save"
    BY <1>2, LabelAfter
  <1>4. CASE pc[h] = "add"
    <2>1. r.kind = "create"
      BY <1>4 DEF Kinds, Fits
    <2>2. [name |-> r.name, tag |-> r.tag, uuid |-> r.uuid] \in us
      BY <1>2, AdditionAdds
    <2> QED
      BY <1>2, <1>3, <2>1, <2>2 DEF Progress
  <1>5. CASE pc[h] = "fallback"
    <2>1. r.kind = "update"
      BY <1>5 DEF Kinds, Fits
    <2>2. /\ on[h] /\ Targets(users, r.name, r.tag) = {}
          /\ r.orig # r.name => Entries(users, r.orig) = {}
      BY <1>5 DEF Progress
    <2>3. UpdateFiled(us, r, on[h])
      BY <1>2, <2>2, AdditionAdds DEF UpdateFiled
    <2> QED
      BY <1>2, <1>3, <2>1, <2>3 DEF Progress
  <1> QED
    BY <1>2, <1>4, <1>5

LEMMA UpdateMakesProgress ==
    ASSUME TypeOK, Kinds, NEW h \in Handlers, Update(h), Progress(h), alone'[h]
    PROVE  Progress(h)'
  <1> DEFINE r == req[h]
  <1>1. r.kind = "update" /\ users \in SUBSET User
    BY DEF Update, LookUp, RemoveOld, RemoveNew, UpdateUser, Kinds, Fits, TypeOK
  <1>2. CASE LookUp(h)
    <2>1. PICK e \in BOOLEAN : on' = [on EXCEPT ![h] = e] /\ Goto(h, UpdateEntry(r, e))
      BY <1>2 DEF LookUp
    <2>2. on'[h] = e /\ pc'[h] = UpdateEntry(r, e) /\ req' = req
      BY <1>2, <2>1, LabelAfter DEF LookUp, TypeOK
    <2>3. /\ UpdateEntry(r, e) \in {"update", "removeOld"}
          /\ UpdateEntry(r, e) = "update" => e /\ r.orig = r.name
      BY DEF UpdateEntry
    <2> QED
      BY <2>2, <2>3 DEF Progress
  <1>3. CASE RemoveOld(h)
    <2>1. /\ users' = users \ Entries(users, r.orig)
          /\ UNCHANGED <<req, on>>
      BY <1>3, OnlyOneIsAlone DEF RemoveOld, SaveFile
    <2>2. pc'[h] = IF on[h] THEN "update" ELSE IF r.orig # r.name THEN "removeNew" ELSE "save"
      BY <1>3, LabelAfter DEF RemoveOld
    <2>3. Entries(users', r.orig) = {}
      BY <2>1, RemovalRemoves
    <2>4. on[h] \in BOOLEAN
      BY DEF TypeOK
    <2>5. CASE pc'[h] = "save"
      <3>1. ~on[h] /\ r.orig = r.name
        BY <2>2, <2>4, <2>5
      <3>2. UpdateFiled(users', r, on[h])
        BY <2>3, <3>1 DEF UpdateFiled
      <3> QED
        BY <1>1, <2>1, <2>5, <3>2 DEF Progress
    <2>6. CASE pc'[h] \in {"update", "removeNew"}
      <3>1. on'[h] <=> pc'[h] # "removeNew"
        <4>1. CASE on[h]
          BY <2>1, <2>2, <4>1
        <4>2. CASE ~on[h]
          BY <2>1, <2>2, <2>6, <4>2
        <4> QED
          BY <4>1, <4>2
      <3> QED
        BY <2>1, <2>3, <2>6, <3>1 DEF Progress
    <2> QED
      BY <2>2, <2>5, <2>6
  <1>4. CASE RemoveNew(h)
    <2>1. /\ users' = users \ Entries(users, r.name)
          /\ UNCHANGED <<req, on>> /\ pc[h] = "removeNew"
      BY <1>4, OnlyOneIsAlone DEF RemoveNew, SaveFile
    <2>2. pc'[h] = "save"
      BY <1>4, LabelAfter DEF RemoveNew
    <2>3. ~on[h] /\ (r.orig # r.name => Entries(users, r.orig) = {})
      BY <2>1 DEF Progress
    <2>4. UpdateFiled(users', r, on[h])
      BY <2>1, <2>3, RemovalRemoves DEF UpdateFiled
    <2> QED
      BY <1>1, <2>1, <2>2, <2>4 DEF Progress
  <1>5. CASE UpdateUser(h)
    <2> DEFINE xs == Targets(users, r.name, r.tag)
    <2>1. /\ on[h] /\ (r.orig # r.name => Entries(users, r.orig) = {})
          /\ UNCHANGED <<req, on>>
      BY <1>5 DEF UpdateUser, Progress
    <2>2. CASE xs # {} /\ users' = Rewritten(users, xs, r.uuid) /\ Goto(h, "save")
      <3>1. xs \in SUBSET users
        BY DEF Targets, Entries
      <3>2. r.orig # r.name => Entries(users', r.orig) = {}
        BY <1>1, <2>1, <2>2, <3>1, RewritingRewrites
      <3>3. Targets(users', r.name, r.tag) # {} /\ \A z \in Targets(users', r.name, r.tag) : z.uuid = r.uuid
        BY <1>1, <2>2, UpdateUpdates
      <3>4. UpdateFiled(users', r, on[h])
        BY <2>1, <3>2, <3>3 DEF UpdateFiled
      <3>5. pc'[h] = "save"
        BY <2>2, LabelAfter
      <3> QED
        BY <1>1, <2>1, <3>4, <3>5 DEF Progress
    <2>3. CASE UNCHANGED users /\ Goto(h, "fallback") /\ Step(h, xs = {})
      <3>1. xs = {} /\ pc'[h] = "fallback"
        BY <2>3, OnlyOneIsAlone, LabelAfter
      <3> QED
        BY <2>1, <2>3, <3>1 DEF Progress, Targets, Entries
    <2> QED
      BY <1>5, <2>2, <2>3 DEF UpdateUser
  <1> QED
    BY <1>2, <1>3, <1>4, <1>5 DEF Update

LEMMA MetaMakesProgress ==
    ASSUME TypeOK, Kinds, NEW h \in Handlers, SaveMeta(h) \/ ForgetMeta(h), Progress(h), alone'[h]
    PROVE  Progress(h)'
  <1> DEFINE r == req[h]
  <1>1. ~Error(h)
    BY OnlyOneIsAlone DEF Error
  <1>2. UNCHANGED <<fileVars, req, on>> /\ users' = users
    BY <1>1 DEF SaveMeta, ForgetMeta, fileVars
  <1>3. r \in Requests /\ r.kind \in {"create", "update", "delete"} /\ r.name \in Names
    BY FieldsOfRequest DEF SaveMeta, ForgetMeta, Kinds, Fits
  <1>4. CASE SaveMeta(h)
    <2>1. meta'[r.name] = Said(on[h]) /\ pc[h] = "save" /\ r.kind \in {"create", "update"}
      BY <1>1, <1>3, <1>4 DEF SaveMeta, TypeOK, Kinds, Fits
    <2>2. pc'[h] = IF r.kind = "update" /\ r.orig # r.name THEN "forget" ELSE "ok"
      BY <1>1, <1>4, LabelAfter DEF SaveMeta
    <2>3. CASE pc'[h] = "forget"
      BY <1>2, <2>1, <2>2, <2>3 DEF Progress, UpdateFiled
    <2>4. CASE pc'[h] = "ok"
      <3>1. Done(h)'
        BY <1>2, <2>1, <2>2, <2>4 DEF Progress, Done
      <3> QED
        BY <2>4, <3>1 DEF Progress
    <2> QED
      BY <2>2, <2>3, <2>4
  <1>5. CASE ForgetMeta(h)
    <2>1. pc'[h] = "ok" /\ pc[h] = "forget" /\ r.kind \in {"update", "delete"}
      BY <1>1, <1>5, LabelAfter DEF ForgetMeta, Kinds, Fits
    <2>2. meta' = [meta EXCEPT ![IF r.kind = "update" THEN r.orig ELSE r.name] = "none"]
      BY <1>1, <1>5, OnlyOneIsAlone DEF ForgetMeta
    <2>3. Done(h)'
      <3>1. CASE r.kind = "update"
        <4>1. r.orig \in Names /\ r.orig # r.name /\ meta[r.name] = Said(on[h])
              /\ UpdateFiled(users, r, on[h])
          BY <1>3, <2>1, <3>1, FieldsOfRequest DEF Progress
        <4>2. meta'[r.orig] = "none" /\ meta'[r.name] = Said(on[h])
          BY <1>3, <2>2, <3>1, <4>1 DEF TypeOK
        <4> QED
          BY <1>2, <3>1, <4>1, <4>2 DEF Done
      <3>2. CASE r.kind = "delete"
        BY <1>2, <1>3, <2>1, <2>2, <3>2 DEF Progress, Done, TypeOK
      <3> QED
        BY <2>1, <3>1, <3>2
    <2> QED
      BY <2>1, <2>3 DEF Progress
  <1> QED
    BY <1>4, <1>5

LEMMA RemovalsMakeProgress ==
    ASSUME TypeOK, Kinds, NEW h \in Handlers, RemoveUser(h) \/ RemoveUserFromInbound(h), alone'[h]
    PROVE  Progress(h)'
  <1> DEFINE r == req[h]
  <1>1. ~Error(h)
    BY OnlyOneIsAlone DEF Error
  <1>2. CASE RemoveUser(h)
    <2>1. /\ users' = users \ Entries(users, r.name) /\ pc'[h] = "forget" /\ req' = req
          /\ r.kind = "delete"
      BY <1>1, <1>2, LabelAfter DEF RemoveUser, SaveFile, Kinds, Fits
    <2>2. Entries(users', r.name) = {}
      BY <2>1, RemovalRemoves
    <2> QED
      BY <2>1, <2>2 DEF Progress
  <1>3. CASE RemoveUserFromInbound(h)
    <2>1. /\ users' = users \ EntriesIn(users, r.name, r.tag) /\ pc'[h] = "ok" /\ req' = req
          /\ r.kind = "leave"
      BY <1>1, <1>3, LabelAfter DEF RemoveUserFromInbound, SaveFile, Kinds, Fits
    <2>2. EntriesIn(users', r.name, r.tag) = {}
      BY <2>1, RemovalRemoves
    <2>3. Done(h)'
      BY <2>1, <2>2 DEF Done
    <2> QED
      BY <2>1, <2>3 DEF Progress
  <1> QED
    BY <1>2, <1>3

LEMMA EditMakesProgress ==
    ASSUME TypeOK, Kinds, NEW h \in Handlers, Progress(h), alone'[h],
           UpdateUserInInbound(h) \/ ReadMeta(h) \/ WriteMeta(h)
    PROVE  Progress(h)'
  <1> DEFINE r == req[h]
             Edited(us) == \E x \in EntriesIn(us, r.name, r.tag) : x.uuid = r.uuid
  <1>1. ~Error(h)
    BY OnlyOneIsAlone DEF Error
  <1>2. r.kind = "edit" /\ req' = req
    BY <1>1 DEF UpdateUserInInbound, ReadMeta, WriteMeta, Kinds, Fits
  <1>3. Edited(users')
    <2>1. CASE UpdateUserInInbound(h)
      <3> DEFINE xs == EntriesIn(users, r.name, r.tag)
      <3>1. xs # {} /\ users' = Rewritten(users, xs, r.uuid)
        BY <1>1, <2>1 DEF UpdateUserInInbound, SaveFile
      <3>2. PICK x \in xs : TRUE
        BY <3>1
      <3> DEFINE y == [x EXCEPT !.uuid = r.uuid]
      <3>3. y \in users'
        BY <3>1, <3>2 DEF Rewritten
      <3>4. x \in User /\ x.name = r.name /\ x.tag = r.tag /\ x.tag \in Reach
        BY <3>2 DEF EntriesIn, Entries, TypeOK
      <3>5. y.name = r.name /\ y.tag = r.tag /\ y.uuid = r.uuid
        BY <3>4 DEF User
      <3>6. y \in EntriesIn(users', r.name, r.tag)
        BY <3>3, <3>4, <3>5 DEF EntriesIn, Entries
      <3> QED
        BY <3>5, <3>6
    <2>2. CASE ReadMeta(h) \/ WriteMeta(h)
      BY <2>2 DEF ReadMeta, WriteMeta, Progress, fileVars
    <2> QED
      BY <2>1, <2>2
  <1>4. PICK label \in {"ok", "readMeta", "writeMeta"} : Goto(h, label)
    BY <1>1 DEF UpdateUserInInbound, ReadMeta, WriteMeta
  <1>5. pc'[h] \in {"ok", "readMeta", "writeMeta"}
    BY <1>4, LabelAfter
  <1>6. Done(h)'
    BY <1>2, <1>3 DEF Done
  <1> QED
    BY <1>2, <1>3, <1>5, <1>6 DEF Progress

LEMMA BulkAddMakesProgress ==
    ASSUME TypeOK, Kinds, NEW h \in Handlers, BulkAdd(h), Progress(h), alone'[h]
    PROVE  Progress(h)'
  <1> DEFINE r == req[h]
             i == r.items[at[h]]
             us == Added(users, i.name, i.uuid, i.tag)
  <1>1. /\ pc'[h] = "bulkSave" /\ pc[h] = "bulkAdd" /\ UNCHANGED <<meta, req, at>>
    BY LabelAfter DEF BulkAdd
  <1>2. \A k \in 1..(at[h] - 1) : meta[r.items[k].name] = "enabled" /\ ItemFiled(users, r.items[k])
    BY <1>1 DEF Progress
  <1>3. CASE CanAdd(users, i.name, i.tag) /\ users' = us
    <2>1. \A j : ItemFiled(users, j) => ItemFiled(users', j)
      BY <1>3, AdditionAdds
    <2>2. EntriesIn(us, i.name, i.tag) # {}
      <3>1. \A n, u, t : CanAdd(users, n, t) => EntriesIn(Added(users, n, u, t), n, t) # {}
        BY AdditionAdds
      <3> QED
        BY <1>3, <3>1
    <2>3. ItemFiled(users', i)
      BY <1>3, <2>2 DEF ItemFiled
    <2> QED
      BY <1>1, <1>2, <2>1, <2>3 DEF Progress
  <1>4. CASE UNCHANGED fileVars /\ Step(h, ~CanAdd(users, i.name, i.tag))
    <2>1. ~CanAdd(users, i.name, i.tag) /\ users' = users
      BY <1>4, OnlyOneIsAlone DEF fileVars
    <2>2. ItemFiled(users', i)
      BY <2>1 DEF ItemFiled, CanAdd
    <2> QED
      BY <1>1, <1>2, <2>1, <2>2 DEF Progress
  <1> QED
    BY <1>3, <1>4 DEF BulkAdd, SaveFile

LEMMA BulkSaveMakesProgress ==
    ASSUME TypeOK, Kinds, NEW h \in Handlers, BulkSave(h), Progress(h), alone'[h]
    PROVE  Progress(h)'
  <1> DEFINE r == req[h]
             i == r.items[at[h]]
  <1>1. /\ pc'[h] = IF at[h] = Len(r.items) THEN "ok" ELSE "bulkAdd"
        /\ pc[h] = "bulkSave" /\ req' = req /\ users' = users
    BY LabelAfter DEF BulkSave, fileVars
  <1>2. r \in Requests /\ r.kind = "bulk" /\ at[h] \in 1..Len(r.items) /\ Len(r.items) \in Nat
    BY <1>1, FieldsOfRequest DEF Kinds, Fits, TypeOK
  <1>3. at'[h] = at[h] + 1
    BY DEF BulkSave, TypeOK
  <1>4. meta' = [meta EXCEPT ![i.name] = "enabled"]
    BY OnlyOneIsAlone DEF BulkSave
  <1>5. \A k \in 1..at[h] : r.items[k].name \in Names
    BY <1>2, FieldsOfRequest
  <1>6. \A k \in 1..(at[h] - 1) : meta[r.items[k].name] = "enabled" /\ ItemFiled(users, r.items[k])
    BY <1>1 DEF Progress
  <1>7. ItemFiled(users, i)
    BY <1>1 DEF Progress
  <1>8. \A k \in 1..at[h] : meta'[r.items[k].name] = "enabled" /\ ItemFiled(users', r.items[k])
    <2> SUFFICES ASSUME NEW k \in 1..at[h]
                 PROVE  meta'[r.items[k].name] = "enabled" /\ ItemFiled(users', r.items[k])
      OBVIOUS
    <2>1. r.items[k].name \in Names
      BY <1>5
    <2>2. CASE k = at[h]
      BY <1>1, <1>4, <1>7, <2>1, <2>2 DEF TypeOK
    <2>3. CASE k # at[h]
      <3>1. k \in 1..(at[h] - 1)
        BY <1>2, <2>3
      <3> QED
        BY <1>1, <1>4, <1>6, <2>1, <3>1 DEF TypeOK
    <2> QED
      BY <2>2, <2>3
  <1>9. 1..(at'[h] - 1) = 1..at[h]
    BY <1>2, <1>3
  <1>10. pc'[h] = "ok" => Done(h)'
    BY <1>1, <1>2, <1>8 DEF Done
  <1> QED
    BY <1>1, <1>8, <1>9, <1>10 DEF Progress

LEMMA ProgressIsOwn ==
    ASSUME NEW h \in Handlers, Progress(h), UNCHANGED <<users, meta>>,
           pc'[h] = pc[h], req'[h] = req[h], on'[h] = on[h], at'[h] = at[h]
    PROVE  Progress(h)'
  <1>1. Done(h) => Done(h)'
    BY DEF Done
  <1> QED
    BY <1>1 DEF Progress

(* Every step of a handler that stays alone is progress.                   *)
LEMMA NextMakesProgress ==
    TypeOK /\ Kinds /\ AloneMakesProgress /\ [Next]_vars => AloneMakesProgress'
  <1> SUFFICES ASSUME TypeOK, Kinds, AloneMakesProgress, [Next]_vars,
                      NEW h \in Handlers, alone'[h]
               PROVE  Progress(h)'
    BY DEF AloneMakesProgress
  <1>1. CASE Begin(h)
    BY <1>1, BeginMakesProgress
  <1>2. CASE Serve(h) /\ ~Begin(h)
    <2>1. \E b \in BOOLEAN : Step(h, b)
      BY <1>2 DEF Serve, AddUser, Update, LookUp, RemoveOld, RemoveNew, UpdateUser, SaveMeta,
                  ForgetMeta, RemoveUser, InInbound, RemoveUserFromInbound, UpdateUserInInbound,
                  ReadMeta, WriteMeta, Bulk, BulkAdd, BulkSave, Answer, Error
    <2>2. Progress(h)
      BY <2>1, OnlyOneIsAlone DEF AloneMakesProgress
    <2>3. CASE Answer(h)
      <3>1. pc'[h] = "idle"
        BY <2>3, LabelAfter DEF Answer, Finish
      <3> QED
        BY <3>1 DEF Progress
    <2> QED
      BY <1>2, <2>2, <2>3, AddUserMakesProgress, UpdateMakesProgress, MetaMakesProgress,
         RemovalsMakeProgress, EditMakesProgress, BulkAddMakesProgress, BulkSaveMakesProgress
         DEF Serve, InInbound, Bulk
  <1>3. ASSUME NEW g \in Handlers, Serve(g), g # h
        PROVE  Progress(h)'
    <2>1. CASE Begin(g)
      <3>1. alone[h] /\ UNCHANGED <<users, meta>>
        BY <1>3, <2>1 DEF Begin, fileVars, TypeOK
      <3>2. pc'[h] = pc[h] /\ req'[h] = req[h] /\ on'[h] = on[h] /\ at'[h] = at[h]
        BY <1>3, <2>1 DEF Begin, Goto, TypeOK
      <3> QED
        BY <3>1, <3>2, ProgressIsOwn DEF AloneMakesProgress
    <2>2. CASE ~Begin(g)
      <3>1. \E b \in BOOLEAN : Step(g, b)
        BY <1>3, <2>2 DEF Serve, AddUser, Update, LookUp, RemoveOld, RemoveNew, UpdateUser, SaveMeta,
                    ForgetMeta, RemoveUser, InInbound, RemoveUserFromInbound, UpdateUserInInbound,
                    ReadMeta, WriteMeta, Bulk, BulkAdd, BulkSave, Answer, Error
      <3> QED
        BY <1>3, <3>1, OnlyOneIsAlone
    <2> QED
      BY <2>1, <2>2
  <1>4. CASE PanelRestart \/ \E t \in Tags : EditInbound(t)
    BY <1>4 DEF PanelRestart, EditInbound
  <1>5. CASE UNCHANGED vars
    BY <1>5, ProgressIsOwn DEF vars, fileVars, AloneMakesProgress
  <1> QED
    BY <1>1, <1>2, <1>3, <1>4, <1>5 DEF Next

(* ALONE MEANS DONE.  A user request that answers with success, that nobody*)
(* came between and of which no step failed has done what it was asked for,*)
(* whatever crashes and failures before it left behind.                    *)
THEOREM SuccessMeansDone == Spec => []AloneMeansDone
  <1>1. Init => AloneMakesProgress
    BY DEF Init, AloneMakesProgress
  <1>2. AloneMakesProgress => AloneMeansDone
    BY DEF AloneMakesProgress, AloneMeansDone, Progress
  <1> QED
    BY <1>1, <1>2, InitIsTyped, NextIsTyped, NextMakesProgress, PTL DEF Spec
=============================================================================
