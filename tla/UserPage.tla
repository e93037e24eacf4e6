------------------------------ MODULE UserPage ------------------------------
(***************************************************************************)
(* The user page of the panel (components/UserManagement.tsx): the list,   *)
(* the selection, the form that creates and edits a user, the bulk form,   *)
(* the removal of a user from some of its inbounds, and the deletions.     *)
(*                                                                         *)
(* A handler of the page is a sequence of calls, each awaited, with the    *)
(* state it read at the click; meanwhile the page can be used, answers to  *)
(* other calls land in whatever is on display, and other administrators    *)
(* work on the same file.  A call is one step here, its server's part and  *)
(* its answer together: what the server does within one is the subject of  *)
(* module UserAccounts.  All the inbounds are vless inbounds; of a user's  *)
(* entry the flow is kept, which the form edits for each inbound.          *)
(***************************************************************************)
EXTENDS Naturals, FiniteSets, Sequences, SequencesExt

CONSTANTS
    Names,       \* names of users
    NoName,      \* originalName of a form that creates
    Tags,        \* the inbounds
    Initial,     \* the entries of the file at the start
    Disabled,    \* the users that may be disabled at the start, also such
                 \* that an update failed to remove from the file
    BulkNames,   \* the names the bulk form makes from its prefix and start
    Slots,       \* handlers of the page that can run at once
    MaxTrouble,  \* bound: edits by other administrators, and calls that fail
                 \* for another reason than a refusal
    MaxLists,    \* bound: calls of getUsers in flight
    MaxClicks    \* bound: what is done on the page

Absent == "absent"
Flows == {"vision", "none"}
Rows == [Tags -> Flows \cup {Absent}]
NoRows == [t \in Tags |-> Absent]

ASSUME InitialAssumption == Initial \in [Names -> Rows]
ASSUME NameAssumption ==
    NoName \notin Names /\ BulkNames \subseteq Names /\ Disabled \subseteq Names
ASSUME FiniteAssumption ==
    /\ IsFiniteSet(Names) /\ Names # {}
    /\ IsFiniteSet(Tags) /\ Tags # {}
ASSUME BoundAssumption ==
    /\ MaxTrouble \in Nat
    /\ MaxLists \in Nat \ {0} /\ MaxClicks \in Nat

VARIABLES
    file,       \* the entries of the users in the file, by name and inbound
    meta,       \* the names the table `users` has a row of
    off,        \* those of them that are disabled
    users,      \* the list displayed: the inbounds of each user, or Unlisted
    disabled,   \* the users the list displayed shows as disabled
    selected,   \* selectedUsers
    modal,      \* modalState: what is open, and for which row of the list
    form,       \* newUser, isEditing, originalName, inboundRows and its tags
    job,        \* the handlers running: the calls they have yet to make
    asked,      \* calls of getUsers on their way
    lists,      \* their answers, in the order they were served
    opening,    \* the users whose inbounds a form has asked for
    inbounds,   \* the answers: a user and its entries
    trouble,    \* how many of the edits and failures there have been
    clicks,     \* how much has been done on the page
    spoiled     \* history: a call failed, lists crossed, or others edited

serverVars == <<file, meta, off>>
listVars == <<users, disabled, selected, asked, lists>>
formVars == <<modal, form, opening, inbounds>>
countVars == <<trouble, clicks>>
vars == <<serverVars, listVars, formVars, job, countVars, spoiled>>

-----------------------------------------------------------------------------
(* What the calls of api.ts do to the file and to the table.               *)

TagsOf(rows) == {t \in Tags : rows[t] # Absent}

Unlisted == {NoName}

\* handleGetUsers: the names of the file and of the table, with the inbounds,
\* and with `enabled` as the table has it, whatever the file says.
Listing ==
    [n \in Names |-> IF n \in meta \/ TagsOf(file[n]) # {}
                     THEN TagsOf(file[n]) ELSE Unlisted]

Listed == {n \in Names : users[n] # Unlisted}

Call == [op : {"update", "disable", "leave", "edit", "create", "delete", "bulk"},
         orig : Names, name : Names, tag : Tags, flow : Flows]

\* removeUserFromInbound and updateUserInbound need the entry, createUser
\* needs it not to be there; the others find something to do or do nothing.
Refused(c) ==
    \/ c.op \in {"leave", "edit"} /\ file[c.name][c.tag] = Absent
    \/ c.op = "create" /\ file[c.name][c.tag] # Absent

\* updateUser: the old name is removed, every entry of the new name gets the
\* flow of the request, and without any a new one is made.
Updated(c) ==
    LET kept == IF c.orig = c.name THEN file
                ELSE [file EXCEPT ![c.orig] = NoRows]
    IN  [kept EXCEPT ![c.name] =
           IF TagsOf(@) = {} THEN [NoRows EXCEPT ![c.tag] = c.flow]
           ELSE [t \in Tags |-> IF @[t] = Absent THEN Absent ELSE c.flow]]

FileAfter(c) ==
    CASE c.op = "update" -> Updated(c)
      [] c.op = "disable" ->
           [n \in Names |-> IF n \in {c.orig, c.name} THEN NoRows ELSE file[n]]
      [] c.op = "leave" -> [file EXCEPT ![c.name][c.tag] = Absent]
      [] c.op \in {"edit", "create"} -> [file EXCEPT ![c.name][c.tag] = c.flow]
      [] c.op = "delete" -> [file EXCEPT ![c.name] = NoRows]
      [] c.op = "bulk" ->
           [n \in Names |-> IF n \in BulkNames /\ file[n][c.tag] = Absent
                            THEN [file[n] EXCEPT ![c.tag] = c.flow]
                            ELSE file[n]]

MetaAfter(c) ==
    CASE c.op \in {"update", "disable"} -> (meta \ {c.orig}) \cup {c.name}
      [] c.op = "create" -> meta \cup {c.name}
      [] c.op = "delete" -> meta \ {c.name}
      [] c.op = "bulk" -> meta \cup BulkNames
      [] OTHER -> meta

OffAfter(c) ==
    CASE c.op = "disable" -> (off \ {c.orig}) \cup {c.name}
      [] c.op \in {"update", "create", "delete"} -> off \ {c.orig, c.name}
      [] c.op = "bulk" -> off \ BulkNames
      [] OTHER -> off

-----------------------------------------------------------------------------
(* The list.                                                               *)

\* fetchUsers.
Fetch ==
    /\ asked + Len(lists) < MaxLists
    /\ asked' = asked + 1

ServeList ==
    /\ asked > 0
    /\ asked' = asked - 1
    /\ lists' = Append(lists, [users |-> Listing, disabled |-> off])
    /\ UNCHANGED <<serverVars, users, disabled, selected, formVars, job, countVars, spoiled>>

\* An answer, in any order, replaces the list and prunes the selection to it.
LandList(i) ==
    /\ lists' = RemoveAt(lists, i)
    /\ users' = lists[i].users
    /\ disabled' = lists[i].disabled
    /\ selected' = {n \in selected : lists[i].users[n] # Unlisted}
    /\ spoiled' = (spoiled \/ i > 1)
    /\ UNCHANGED <<serverVars, asked, formVars, job, countVars>>

Trouble ==
    /\ trouble < MaxTrouble
    /\ trouble' = trouble + 1

\* getUsers fails: a toast, and the list stays as it is.
LoseList ==
    /\ asked > 0 /\ Trouble
    /\ asked' = asked - 1
    /\ spoiled' = TRUE
    /\ UNCHANGED <<serverVars, users, disabled, selected, lists, formVars, job, clicks>>

Click ==
    /\ clicks < MaxClicks
    /\ clicks' = clicks + 1

SelectUser(n) ==
    /\ Click
    /\ modal.type = "closed" /\ n \in Listed
    /\ selected' = IF n \in selected THEN selected \ {n} ELSE selected \cup {n}
    /\ UNCHANGED <<serverVars, users, disabled, asked, lists, formVars, job, trouble, spoiled>>

SelectAll(checked) ==
    /\ Click
    /\ modal.type = "closed"
    /\ selected' = IF checked THEN Listed ELSE {}
    /\ UNCHANGED <<serverVars, users, disabled, asked, lists, formVars, job, trouble, spoiled>>

-----------------------------------------------------------------------------
(* The modals and the form.                                                *)

Closed == [type |-> "closed"]

\* The form as it is before its first use, and after a save.
BlankForm == [editing |-> FALSE, orig |-> NoName, name |-> NoName,
              rows |-> NoRows, tags |-> {}, enabled |-> TRUE, loaded |-> FALSE]

OpenModal(m) ==
    /\ Click
    /\ modal.type = "closed"
    /\ modal' = m

Cancel ==
    /\ Click
    /\ modal.type # "closed"
    /\ modal' = Closed
    /\ UNCHANGED <<serverVars, listVars, form, opening, inbounds, job, trouble, spoiled>>

\* "Create User": one row, the first inbound of the default type.  The name
\* the form ends up with is typed; originalName keeps its old value.
CreateClick(n, t) ==
    /\ OpenModal([type |-> "form"])
    /\ form' = [BlankForm EXCEPT !.name = n, !.orig = form.orig,
                                 !.rows = [NoRows EXCEPT ![t] = "vision"]]
    /\ UNCHANGED <<serverVars, listVars, opening, inbounds, job, trouble, spoiled>>

\* handleEditClick: the rows and the box Enabled come from the list, the rows
\* without flows, and those are asked for; a user in no inbound gets the row of
\* a new one.
EditClick(n, t) ==
    /\ n \in Listed
    /\ OpenModal([type |-> "form"])
    /\ form' = [editing |-> TRUE, orig |-> n, name |-> n, enabled |-> n \notin disabled,
                tags |-> users[n], loaded |-> FALSE,
                rows |-> IF users[n] = {} THEN [NoRows EXCEPT ![t] = "vision"]
                         ELSE [u \in Tags |-> IF u \in users[n] THEN "none"
                                              ELSE Absent]]
    /\ opening' = opening \cup {n}
    /\ UNCHANGED <<serverVars, listVars, inbounds, job, trouble, spoiled>>

ServeInbounds(n) ==
    /\ n \in opening
    /\ opening' = opening \ {n}
    /\ inbounds' = inbounds \cup {[name |-> n, rows |-> file[n]]}
    /\ UNCHANGED <<serverVars, listVars, modal, form, job, countVars, spoiled>>

(* Mutant: the rows of the form win.                                       *)
MergedRowsKept(rows, answer) ==
    [t \in Tags |-> IF rows[t] = Absent THEN answer[t] ELSE rows[t]]

\* The flows of a row that has an entry of the same inbound in the answer.
MergedRows(rows, answer) ==
    [t \in Tags |-> IF rows[t] # Absent /\ answer[t] # Absent
                    THEN answer[t] ELSE rows[t]]

\* The answer lands in the form as it is now, whoever it is open for, and over
\* the flows that have been chosen meanwhile.  `loaded` is history: the form
\* shows the entries of its user, of which nobody has edited any since.
LandInbounds(a) ==
    /\ inbounds' = inbounds \ {a}
    /\ form' = [form EXCEPT !.rows = MergedRows(@, a.rows),
                            !.loaded = /\ form.editing /\ form.orig = a.name
                                       /\ form.name = a.name
                                       /\ a.rows = file[a.name]
                                       /\ TagsOf(form.rows) = TagsOf(a.rows)]
    /\ UNCHANGED <<serverVars, listVars, modal, opening, job, countVars, spoiled>>

\* A field of the form: a row added, changed or removed, the name, the box
\* Enabled.  A row always is left, and rows have distinct inbounds: others
\* disable the Save button (inboundValid).
EditForm ==
    /\ Click
    /\ modal.type = "form"
    /\ \E rows \in Rows, n \in Names, e \in BOOLEAN :
         /\ TagsOf(rows) # {}
         /\ e \/ form.editing
         /\ \/ \E t \in Tags : rows = [form.rows EXCEPT ![t] = rows[t]]
               /\ n = form.name /\ e = form.enabled
            \/ rows = form.rows /\ (n = form.name \/ e = form.enabled)
         /\ form' = [form EXCEPT !.rows = rows, !.name = n, !.enabled = e,
                                 !.loaded = FALSE]
    /\ UNCHANGED <<serverVars, listVars, modal, opening, inbounds, job, trouble, spoiled>>

-----------------------------------------------------------------------------
(* The handlers.                                                           *)

Idle == [kind |-> "idle"]

Want(n, rows) == {[name |-> n, tag |-> t, value |-> rows[t]] : t \in Tags}

Running(s) == job[s].kind # "idle"

\* A handler starts.  `want` is what it is to leave in the file, and `clean`
\* that nobody else works on the users meanwhile: both are history.
Start(s, kind, todo, want, clean) ==
    /\ Click
    /\ ~Running(s)
    /\ job' = [job EXCEPT ![s] =
                 [kind |-> kind, todo |-> todo, failed |-> FALSE, want |-> want,
                  clean |-> clean /\ \A o \in Slots : ~Running(o)]]

MakeCall(op, orig, n, t, flow) ==
    [op |-> op, orig |-> orig, name |-> n, tag |-> t, flow |-> flow]

\* The order in which the loops visit the inbounds.
InOrder(tags) == SetToSeq(tags)

FirstTag(rows) == InOrder(TagsOf(rows))[1]

(* Mutant: the rows that were there before are left to updateUser.         *)
RowCallsForNewOnes(f) ==
    LET gone == InOrder(f.tags \ TagsOf(f.rows))
        new == InOrder(TagsOf(f.rows) \ f.tags)
    IN  [i \in DOMAIN gone |-> MakeCall("leave", f.name, f.name, gone[i], "none")]
        \o [i \in DOMAIN new |-> MakeCall("create", f.name, f.name, new[i],
                                           f.rows[new[i]])]

\* The calls that bring the inbounds of a user to the rows of the form: first
\* the removals, then the rows, changed or created.
RowCalls(f) ==
    LET gone == InOrder(f.tags \ TagsOf(f.rows))
        kept == InOrder(TagsOf(f.rows))
    IN  [i \in DOMAIN gone |-> MakeCall("leave", f.name, f.name, gone[i], "none")]
        \o [i \in DOMAIN kept |->
              MakeCall(IF kept[i] \in f.tags THEN "edit" ELSE "create",
                       f.name, f.name, kept[i], f.rows[kept[i]])]

\* handleSaveUser for a user that exists.  updateUser goes first, with a flow
\* for a rename only; a disabled or renamed user needs nothing else.
SaveCalls(f) ==
    LET t == FirstTag(f.rows)
        renamed == f.orig # f.name
    IN  IF ~f.enabled THEN <<MakeCall("disable", f.orig, f.name, t, "none")>>
        ELSE IF renamed
             THEN <<MakeCall("update", f.orig, f.name, t, f.rows[t])>>
             ELSE <<MakeCall("update", f.orig, f.name, t, "none")>> \o RowCalls(f)

SaveWant(f) ==
    (IF f.enabled THEN Want(f.name, f.rows) ELSE Want(f.name, NoRows))
      \cup (IF f.orig = f.name THEN {} ELSE Want(f.orig, NoRows))

SaveEdit(s) ==
    /\ modal.type = "form" /\ form.editing
    /\ form.orig # form.name => Cardinality(TagsOf(form.rows)) = 1
    /\ Start(s, "save", SaveCalls(form), SaveWant(form),
             /\ form.tags = TagsOf(file[form.orig])
             /\ form.orig # form.name => TagsOf(file[form.name]) = {})
    /\ UNCHANGED <<serverVars, listVars, formVars, trouble, spoiled>>

\* handleSaveUser for a new user: one createUser for each row.
SaveNew(s) ==
    /\ modal.type = "form" /\ ~form.editing
    /\ LET tags == InOrder(TagsOf(form.rows))
       IN  Start(s, "save",
                 [i \in DOMAIN tags |-> MakeCall("create", form.name, form.name,
                                                 tags[i], form.rows[tags[i]])],
                 {w \in Want(form.name, form.rows) : w.value # Absent}, TRUE)
    /\ UNCHANGED <<serverVars, listVars, formVars, trouble, spoiled>>

\* handleBulkCreate: the names in one call; the server leaves out those that
\* are in the inbound already.
BulkCreate(s, t, flow) ==
    /\ modal.type = "bulk"
    /\ LET n == CHOOSE b \in Names : TRUE
       IN  Start(s, "bulk", <<MakeCall("bulk", n, n, t, flow)>>,
                 {[name |-> b, tag |-> t, value |-> flow] :
                    b \in {c \in BulkNames : file[c][t] = Absent}}, TRUE)
    /\ UNCHANGED <<serverVars, listVars, formVars, trouble, spoiled>>

DeleteCall(n) == MakeCall("delete", n, n, CHOOSE t \in Tags : TRUE, "none")

\* The button of a row: a user of one inbound is deleted at once; on a narrow
\* screen every user is.
DeleteRow(s, n) ==
    /\ modal.type = "closed" /\ n \in Listed
    /\ Start(s, "row", <<DeleteCall(n)>>, Want(n, NoRows), TRUE)
    /\ UNCHANGED <<serverVars, listVars, formVars, trouble, spoiled>>

\* A user of several: the modal with its inbounds, of which some are chosen.
PickInbounds(n, chosen) ==
    /\ n \in Listed /\ Cardinality(users[n]) > 1
    /\ chosen # {} /\ chosen \subseteq users[n]
    /\ OpenModal([type |-> "pick", name |-> n, tags |-> users[n],
                  chosen |-> chosen])
    /\ UNCHANGED <<serverVars, listVars, form, opening, inbounds, job, trouble, spoiled>>

\* handleRemoveFromSelectedInbounds: all of the inbounds of the row mean the
\* user, fewer mean one call each.
RemoveFromInbounds(s) ==
    /\ modal.type = "pick"
    /\ modal' = Closed
    /\ LET n == modal.name
           tags == InOrder(modal.chosen)
       IN  Start(s, "pick",
                 IF modal.chosen = modal.tags THEN <<DeleteCall(n)>>
                 ELSE [i \in DOMAIN tags |->
                         MakeCall("leave", n, n, tags[i], "none")],
                 Want(n, [t \in Tags |-> IF t \in modal.chosen THEN Absent
                                         ELSE file[n][t]]),
                 modal.tags = TagsOf(file[n]))
    /\ UNCHANGED <<serverVars, listVars, form, opening, inbounds, trouble, spoiled>>

OpenBulk ==
    /\ OpenModal([type |-> "bulk"])
    /\ UNCHANGED <<serverVars, listVars, form, opening, inbounds, job, trouble, spoiled>>

\* handleDeleteSelected.
OpenDelete ==
    /\ selected # {}
    /\ OpenModal([type |-> "delete"])
    /\ UNCHANGED <<serverVars, listVars, form, opening, inbounds, job, trouble, spoiled>>

SeveralInboundsOfMore ==  \* Mutant: off by one.
    {n \in selected : Cardinality(users[n]) > 2}

\* Selected users the list shows in several inbounds.
SeveralInbounds == {n \in selected : Cardinality(users[n]) > 1}

\* confirmDeleteSelected refuses as a whole where there is one of them.
RefuseDelete ==
    /\ Click
    /\ modal.type = "delete" /\ SeveralInbounds # {}
    /\ modal' = Closed
    /\ UNCHANGED <<serverVars, listVars, form, opening, inbounds, job, trouble, spoiled>>

ConfirmDelete(s) ==
    /\ modal.type = "delete" /\ SeveralInbounds = {}
    /\ modal' = Closed
    /\ LET names == SetToSeq(selected)
       IN  Start(s, "selected", [i \in DOMAIN names |-> DeleteCall(names[i])],
                 UNION {Want(n, NoRows) : n \in selected},
                 ~spoiled /\ asked = 0 /\ lists = <<>>)
    /\ UNCHANGED <<serverVars, listVars, form, opening, inbounds, trouble, spoiled>>

-----------------------------------------------------------------------------
(* A handler goes on.                                                      *)

\* The other handlers do not have the users for themselves any more.
Disturbed(s) ==
    [o \in Slots |-> IF o # s /\ Running(o) THEN [job[o] EXCEPT !.clean = FALSE]
                     ELSE job[o]]

\* The next call is served and its answer is in.
Serve(s) ==
    /\ Running(s) /\ job[s].todo # <<>>
    /\ ~Refused(Head(job[s].todo))
    /\ file' = FileAfter(Head(job[s].todo))
    /\ meta' = MetaAfter(Head(job[s].todo))
    /\ off' = OffAfter(Head(job[s].todo))
    /\ job' = [Disturbed(s) EXCEPT ![s].todo = Tail(@)]
    /\ form' = [form EXCEPT !.loaded = FALSE]
    /\ UNCHANGED <<listVars, modal, opening, inbounds, countVars, spoiled>>

\* After a failed call the loop over the selection goes on, the other
\* handlers leave for their catch.
AfterFailure(s) ==
    job' = [job EXCEPT ![s].failed = TRUE,
                       ![s].todo = IF job[s].kind = "selected" THEN Tail(@)
                                   ELSE <<>>]

\* The server refuses the call, or the call is lost before it has an effect.
Fail(s) ==
    /\ Running(s) /\ job[s].todo # <<>>
    /\ \/ Refused(Head(job[s].todo)) /\ UNCHANGED trouble
       \/ Trouble
    /\ AfterFailure(s)
    /\ spoiled' = TRUE
    /\ UNCHANGED <<serverVars, listVars, formVars, clicks>>

(* Mutant: the form is cleared, isEditing is not.                          *)
FinishStillEditing(s) ==
    /\ Running(s) /\ job[s].todo = <<>>
    /\ job' = [job EXCEPT ![s] = Idle]
    /\ modal' = Closed
    /\ form' = [BlankForm EXCEPT !.editing = form.editing]
    /\ Fetch
    /\ UNCHANGED <<serverVars, users, disabled, selected, lists, opening, inbounds, countVars,
                   spoiled>>

(* Mutant: the list is not asked for after a save.                         *)
FinishWithoutFetch(s) ==
    /\ Running(s) /\ job[s].todo = <<>>
    /\ job' = [job EXCEPT ![s] = Idle]
    /\ modal' = IF job[s].kind \in {"save", "bulk"} THEN Closed ELSE modal
    /\ form' = IF job[s].kind = "save" THEN BlankForm ELSE form
    /\ selected' = IF job[s].kind = "selected" THEN {} ELSE selected
    /\ IF job[s].kind \in {"save", "bulk"} THEN UNCHANGED asked ELSE Fetch
    /\ UNCHANGED <<serverVars, users, disabled, lists, opening, inbounds, countVars, spoiled>>

\* The end of handleSaveUser, handleBulkCreate, and of the deletions: the
\* modal that is open now is closed, the form cleared, the list asked for.
Finish(s) ==
    /\ Running(s) /\ job[s].todo = <<>>
    /\ job' = [job EXCEPT ![s] = Idle]
    /\ LET ok == ~job[s].failed
           kind == job[s].kind
       IN  /\ modal' = IF ok /\ kind \in {"save", "bulk"} THEN Closed ELSE modal
           /\ form' = IF ok /\ kind = "save" THEN BlankForm ELSE form
           /\ selected' = IF kind = "selected" THEN {} ELSE selected
           /\ IF ok \/ kind = "selected" THEN Fetch ELSE UNCHANGED asked
    /\ UNCHANGED <<serverVars, users, disabled, lists, opening, inbounds, countVars, spoiled>>

\* Another administrator changes an entry of a user.
Other(n, t, v) ==
    /\ Trouble
    /\ file' = [file EXCEPT ![n][t] = v]
    /\ job' = [o \in Slots |-> IF Running(o) THEN [job[o] EXCEPT !.clean = FALSE]
                               ELSE job[o]]
    /\ form' = [form EXCEPT !.loaded = FALSE]
    /\ spoiled' = TRUE
    /\ UNCHANGED <<meta, off, listVars, modal, opening, inbounds, clicks>>

-----------------------------------------------------------------------------

\* The page has been mounted: it asked for the list.
Init ==
    /\ file = Initial
    /\ off \in SUBSET Disabled
    /\ meta = {n \in Names : TagsOf(Initial[n]) # {}} \cup off
    /\ users = [n \in Names |-> Unlisted]
    /\ disabled = {}
    /\ selected = {}
    /\ modal = Closed
    /\ form = BlankForm
    /\ job = [s \in Slots |-> Idle]
    /\ asked = 1
    /\ lists = <<>>
    /\ opening = {}
    /\ inbounds = {}
    /\ trouble = 0 /\ clicks = 0
    /\ spoiled = FALSE

Answers ==
    \/ ServeList
    \/ \E i \in DOMAIN lists : LandList(i)
    \/ \E n \in opening : ServeInbounds(n)
    \/ \E a \in inbounds : LandInbounds(a)

Clicks ==
    \/ \E n \in Names : SelectUser(n) \/ \E t \in Tags : CreateClick(n, t) \/ EditClick(n, t)
    \/ \E checked \in BOOLEAN : SelectAll(checked)
    \/ \E n \in Names, chosen \in SUBSET Tags : PickInbounds(n, chosen)
    \/ Cancel \/ EditForm \/ OpenBulk \/ OpenDelete \/ RefuseDelete

Handler(s) ==
    \/ SaveEdit(s) \/ SaveNew(s)
    \/ \E t \in Tags, flow \in Flows : BulkCreate(s, t, flow)
    \/ \E n \in Names : DeleteRow(s, n)
    \/ RemoveFromInbounds(s) \/ ConfirmDelete(s)
    \/ Serve(s) \/ Fail(s) \/ Finish(s)

Next ==
    \/ Answers \/ LoseList \/ Clicks
    \/ \E s \in Slots : Handler(s)
    \/ \E n \in Names, t \in Tags, v \in Flows \cup {Absent} : Other(n, t, v)

Spec == Init /\ [][Next]_vars

-----------------------------------------------------------------------------
(* Properties.                                                             *)

Modals ==
    [type : {"closed", "form", "bulk", "delete"}]
      \cup [type : {"pick"}, name : Names, tags : SUBSET Tags, chosen : SUBSET Tags]

TypeOK ==
    /\ file \in [Names -> Rows] /\ meta \subseteq Names /\ off \subseteq meta
    /\ \A n \in Names : users[n] = Unlisted \/ users[n] \subseteq Tags
    /\ disabled \subseteq Names /\ selected \subseteq Names
    /\ modal \in Modals
    /\ form.rows \in Rows /\ form.tags \subseteq Tags
    /\ form.editing => form.orig \in Names
    /\ \A s \in Slots, i \in 1..4 :
         Running(s) /\ i \in DOMAIN job[s].todo => job[s].todo[i] \in Call
    /\ asked + Len(lists) <= MaxLists

\* A handler that succeeded, from a page that showed the inbounds of its user
\* as they were and with nobody else at work, has left in the file exactly
\* what was asked: the flows that updateUser took from the entries are back,
\* the entries removed are gone, the new ones are there.
JobIsExact ==
    \A s \in Slots :
       Running(s) =>
         (job[s].todo = <<>> /\ ~job[s].failed /\ job[s].clean =>
            \A w \in job[s].want : file[w.name][w.tag] = w.value)

\* A save of a form that is enabled, has its user's entries and has not been
\* edited since asks for what is in the file.  With the box off the save
\* removes the entries, also where the box is off because the table says so of
\* a user still in the file.  Left out, too, is a form that the answer for
\* another user has reached; and an edit made before the answer is no edit,
\* for the answer overwrites it.
SaveKeepsEntries ==
    form.loaded /\ form.enabled =>
       \A w \in SaveWant(form) : file[w.name][w.tag] = w.value

\* Once handlers and answers are in, the list is that of the server; unless a
\* call failed (a handler that fails half-way does not ask for the list), a
\* list arrived after a later one, or somebody else edited.
ListIsRight ==
    (~spoiled /\ asked = 0 /\ lists = <<>> /\ \A s \in Slots : ~Running(s))
      => users = Listing /\ disabled = off

\* The deletion of the selection, which asks once for all of it, takes one
\* entry of a user at most: users of several inbounds are left to the modal
\* that shows them.
SelectionTakesOneEntry ==
    \A s \in Slots :
       Running(s) =>
         (job[s].kind = "selected" /\ job[s].clean /\ job[s].todo # <<>> =>
            Cardinality(TagsOf(file[Head(job[s].todo).name])) <= 1)

=============================================================================
