---------------------------- MODULE UserPageProofs ----------------------------
(***************************************************************************)
(* The safety of UserPage, for any names, inbounds, handlers and bounds.   *)
(*                                                                         *)
(* What a handler is to leave in the file is said at its end only, so the  *)
(* strengthening says at every call of a handler how the file gets there   *)
(* (OnTrack): an entry that is asked for is there, or a call to come makes *)
(* it so and none makes it otherwise.  The list is right at the end        *)
(* because the answer that lands last is that of the list served last      *)
(* (LastIsRight), and what the deletion of the selection will do was read  *)
(* from a list that was right (SmallUsers).                                *)
(***************************************************************************)
EXTENDS UserPage, SequenceTheorems, FiniteSetTheorems, TLAPS

Lists == [Names -> (SUBSET Tags) \cup {Unlisted}]

Answer == [users : Lists, disabled : SUBSET Names]

ListingAnswer == [users |-> Listing, disabled |-> off]

Wish == [name : Names, tag : Tags, value : Flows \cup {Absent}]

Job == [kind : {"save", "bulk", "row", "pick", "selected"}, todo : Seq(Call),
        failed : BOOLEAN, want : SUBSET Wish, clean : BOOLEAN]

Form == [editing : BOOLEAN, orig : Names \cup {NoName}, name : Names \cup {NoName},
         rows : Rows, tags : SUBSET Tags, enabled : BOOLEAN, loaded : BOOLEAN]

ServerType == file \in [Names -> Rows] /\ meta \subseteq Names /\ off \subseteq meta

ListType ==
    /\ users \in Lists /\ disabled \subseteq Names /\ selected \subseteq Names
    /\ asked \in Nat /\ lists \in Seq(Answer) /\ asked + Len(lists) <= MaxLists

\* A form that is open has a name and a row; it may be saved as it is.
FormType ==
    /\ modal \in Modals
    /\ form \in Form
    /\ form.editing => form.orig \in Names
    /\ modal.type = "form" => form.name \in Names /\ TagsOf(form.rows) # {}
    /\ opening \subseteq Names
    /\ inbounds \subseteq [name : Names, rows : Rows]

JobType == job \in [Slots -> {Idle} \cup Job]

Types ==
    /\ ServerType /\ ListType /\ FormType /\ JobType
    /\ spoiled \in BOOLEAN

\* What a call does to an entry, whatever the entry is: not so the calls of
\* updateUser and of the bulk form, which look at what is there.
Looks(c) == c.op \in {"update", "bulk"}

Touches(c, w) ==
    CASE c.op \in {"leave", "edit", "create"} -> w.name = c.name /\ w.tag = c.tag
      [] c.op = "delete" -> w.name = c.name
      [] c.op = "disable" -> w.name \in {c.orig, c.name}
      [] OTHER -> FALSE

Value(c) == IF c.op \in {"edit", "create"} THEN c.flow ELSE Absent

Fits(c, want) == ~Looks(c) /\ \A w \in want : Touches(c, w) => w.value = Value(c)

Sure(todo, want, f) ==
    /\ \A i \in DOMAIN todo : Fits(todo[i], want)
    /\ \A w \in want : \/ f[w.name][w.tag] = w.value
                       \/ \E i \in DOMAIN todo : Touches(todo[i], w)

LeadTo(todo, want) ==
    \/ Sure(todo, want, file)
    \/ /\ todo # <<>> /\ Looks(Head(todo))
       /\ Sure(Tail(todo), want, FileAfter(Head(todo)))

OnTrack(j) == LeadTo(j.todo, j.want)

JobsOnTrack ==
    \A s \in Slots : Running(s) /\ ~job[s].failed /\ job[s].clean => OnTrack(job[s])

\* The failures show.
FailuresShow == \A s \in Slots : Running(s) /\ job[s].failed => spoiled

\* The list displayed, when no answer is due, or the answer that lands last.
LastIsRight ==
    (~spoiled /\ asked = 0 /\ \A s \in Slots : ~Running(s)) =>
      IF lists = <<>> THEN users = Listing /\ disabled = off
      ELSE lists[Len(lists)] = ListingAnswer

SmallUsers ==
    \A s \in Slots :
       Running(s) /\ job[s].kind = "selected" =>
         \A i \in DOMAIN job[s].todo :
            /\ job[s].todo[i].op = "delete"
            /\ job[s].clean => Cardinality(TagsOf(file[job[s].todo[i].name])) <= 1

\* The entries of a form that has its user's are those of the file.
FormShowsUser ==
    form.loaded => /\ form.name = form.orig /\ form.orig \in Names
                   /\ form.rows = file[form.orig]

IInv ==
    /\ Types
    /\ JobsOnTrack
    /\ FailuresShow
    /\ LastIsRight
    /\ SmallUsers
    /\ FormShowsUser

-----------------------------------------------------------------------------
(* Sets as sequences, and the calls made of them.                          *)

(* InOrder lists every element of a finite set.                            *)
LEMMA OrderOfSet ==
    ASSUME NEW S, IsFiniteSet(S)
    PROVE  /\ InOrder(S) \in Seq(S)
           /\ \A x \in S : \E i \in DOMAIN InOrder(S) : InOrder(S)[i] = x
<1> DEFINE n == Cardinality(S)
<1>1. n \in Nat /\ ExistsBijection(1..n, S)
  BY FS_CardinalityType
<1>2. PICK g \in Bijection(1..n, S) : TRUE
  BY <1>1 DEF ExistsBijection
<1>3. g \in [1..n -> S] /\ IsInjective(g)
  BY <1>2 DEF Bijection, Injection
<1>4. InOrder(S) \in [1..n -> S] /\ IsInjective(InOrder(S))
  BY <1>3 DEF InOrder, SetToSeq
<1>5. InOrder(S) \in Injection(1..n, S)
  BY <1>4 DEF Injection
<1>6. IsFiniteSet(1..n) /\ Cardinality(1..n) = n
  BY <1>1, FS_Interval
<1>7. InOrder(S) \in Surjection(1..n, S)
  BY <1>5, <1>6, FS_Injection
<1> QED
  BY <1>1, <1>4, <1>7 DEF Surjection

(* The elements of a concatenation are those of its parts.                 *)
LEMMA ConcatParts ==
    ASSUME NEW S, NEW a \in Seq(S), NEW b \in Seq(S)
    PROVE  /\ a \o b \in Seq(S)
           /\ \A i \in DOMAIN a : \E j \in DOMAIN (a \o b) : (a \o b)[j] = a[i]
           /\ \A i \in DOMAIN b : \E j \in DOMAIN (a \o b) : (a \o b)[j] = b[i]
           /\ \A j \in DOMAIN (a \o b) :
                  (\E i \in DOMAIN a : (a \o b)[j] = a[i]) \/ (\E i \in DOMAIN b : (a \o b)[j] = b[i])
<1>1. /\ a \o b \in Seq(S) /\ Len(a \o b) = Len(a) + Len(b)
      /\ Len(a) \in Nat /\ Len(b) \in Nat
      /\ DOMAIN a = 1..Len(a) /\ DOMAIN b = 1..Len(b)
      /\ DOMAIN (a \o b) = 1..(Len(a) + Len(b))
      /\ \A i \in 1..(Len(a) + Len(b)) :
            (a \o b)[i] = IF i <= Len(a) THEN a[i] ELSE b[i - Len(a)]
  BY ConcatProperties, LenProperties
<1>2. \A i \in DOMAIN a : i \in DOMAIN (a \o b) /\ (a \o b)[i] = a[i]
  BY <1>1
<1>3. ASSUME NEW i \in DOMAIN b
      PROVE  Len(a) + i \in DOMAIN (a \o b) /\ (a \o b)[Len(a) + i] = b[i]
  BY <1>1
<1>4. ASSUME NEW j \in DOMAIN (a \o b), ~(j <= Len(a))
      PROVE  j - Len(a) \in DOMAIN b /\ (a \o b)[j] = b[j - Len(a)]
  BY <1>1, <1>4
<1>5. ASSUME NEW j \in DOMAIN (a \o b), j <= Len(a)
      PROVE  j \in DOMAIN a /\ (a \o b)[j] = a[j]
  BY <1>1, <1>5
<1>6. \A j \in DOMAIN (a \o b) :
                  (\E i \in DOMAIN a : (a \o b)[j] = a[i]) \/ (\E i \in DOMAIN b : (a \o b)[j] = b[i])
  BY <1>4, <1>5
<1>7. \A i \in DOMAIN b : \E j \in DOMAIN (a \o b) : (a \o b)[j] = b[i]
  BY <1>3
<1>8. \A i \in DOMAIN a : \E j \in DOMAIN (a \o b) : (a \o b)[j] = a[i]
  BY <1>2
<1>9. a \o b \in Seq(S)
  BY <1>1
<1> QED
  BY <1>6, <1>7, <1>8, <1>9

(* The rest of a sequence, and what it begins with.                        *)
LEMMA TailParts ==
    ASSUME NEW S, NEW a \in Seq(S), a # <<>>
    PROVE  /\ Tail(a) \in Seq(S) /\ Head(a) \in S
           /\ 1 \in DOMAIN a /\ a[1] = Head(a)
           /\ \A i \in DOMAIN Tail(a) : i + 1 \in DOMAIN a /\ Tail(a)[i] = a[i + 1]
           /\ \A i \in DOMAIN a : i = 1 \/ (i - 1 \in DOMAIN Tail(a) /\ Tail(a)[i - 1] = a[i])
  BY HeadTailProperties, LenProperties, ElementOfSeq

-----------------------------------------------------------------------------
(* The calls.                                                              *)

(* A call leaves rows in the file, and names in the table.                 *)
LEMMA CallTypes ==
    ASSUME ServerType, NEW c \in Call
    PROVE  /\ FileAfter(c) \in [Names -> Rows] /\ MetaAfter(c) \subseteq Names
           /\ OffAfter(c) \subseteq MetaAfter(c)
<1> USE DEF ServerType, Rows, Flows
<1>1. /\ c.orig \in Names /\ c.name \in Names /\ c.tag \in Tags /\ c.flow \in Flows
      /\ c.op \in {"update", "disable", "leave", "edit", "create", "delete", "bulk"}
  BY DEF Call
<1>2. NoRows \in Rows
  BY DEF NoRows
<1>3. Updated(c) \in [Names -> Rows]
  <2> DEFINE kept == IF c.orig = c.name THEN file ELSE [file EXCEPT ![c.orig] = NoRows]
             new == IF TagsOf(kept[c.name]) = {} THEN [NoRows EXCEPT ![c.tag] = c.flow]
                    ELSE [t \in Tags |-> IF kept[c.name][t] = Absent THEN Absent ELSE c.flow]
  <2>1. kept \in [Names -> Rows]
    BY <1>1, <1>2
  <2>2. new \in Rows
    BY <1>1, <1>2, <2>1
  <2>3. Updated(c) = [kept EXCEPT ![c.name] = new]
    BY DEF Updated
  <2> QED
    BY <1>1, <2>1, <2>2, <2>3
<1>4. FileAfter(c) \in [Names -> Rows]
  <2>1. CASE c.op = "update"
    BY <1>3, <2>1 DEF FileAfter
  <2>2. CASE c.op = "disable"
    BY <1>2, <2>2 DEF FileAfter
  <2>3. CASE c.op = "leave"
    BY <1>1, <2>3 DEF FileAfter
  <2>4. CASE c.op \in {"edit", "create"}
    BY <1>1, <2>4 DEF FileAfter
  <2>5. CASE c.op = "delete"
    BY <1>1, <1>2, <2>5 DEF FileAfter
  <2>6. CASE c.op = "bulk"
    BY <1>1, <2>6 DEF FileAfter
  <2> QED
    BY <1>1, <2>1, <2>2, <2>3, <2>4, <2>5, <2>6
<1>5. MetaAfter(c) \subseteq Names
  BY <1>1, NameAssumption DEF MetaAfter
<1>6. OffAfter(c) \subseteq MetaAfter(c)
  BY <1>1 DEF MetaAfter, OffAfter
<1> QED
  BY <1>4, <1>5, <1>6

(* What a call does that does not look: the entries it touches have its    *)
(* value, the others are as they were.                                     *)
LEMMA CallEffect ==
    ASSUME ServerType, NEW c \in Call, ~Looks(c), NEW w \in Wish
    PROVE  FileAfter(c)[w.name][w.tag] =
             IF Touches(c, w) THEN Value(c) ELSE file[w.name][w.tag]
<1> USE DEF ServerType, Rows, Looks, Touches, Value
<1>1. /\ c.orig \in Names /\ c.name \in Names /\ c.tag \in Tags
      /\ c.op \in {"disable", "leave", "edit", "create", "delete"}
      /\ w.name \in Names /\ w.tag \in Tags
  BY DEF Call, Wish
<1>2. CASE c.op = "disable"
  BY <1>1, <1>2 DEF FileAfter, NoRows
<1>3. CASE c.op = "leave"
  BY <1>1, <1>3 DEF FileAfter
<1>4. CASE c.op \in {"edit", "create"}
  BY <1>1, <1>4 DEF FileAfter
<1>5. CASE c.op = "delete"
  BY <1>1, <1>5 DEF FileAfter, NoRows
<1> QED
  BY <1>1, <1>2, <1>3, <1>4, <1>5

(* The next call of a handler that is on track keeps it there.             *)
LEMMA CallKeepsTrack ==
    ASSUME ServerType, NEW j \in Job, j.todo # <<>>, OnTrack(j)
    PROVE  Sure(Tail(j.todo), j.want, FileAfter(Head(j.todo)))
<1> DEFINE c == Head(j.todo)
<1>1. /\ c \in Call /\ j.want \subseteq Wish
      /\ 1 \in DOMAIN j.todo /\ j.todo[1] = c
      /\ \A i \in DOMAIN Tail(j.todo) :
            i + 1 \in DOMAIN j.todo /\ Tail(j.todo)[i] = j.todo[i + 1]
      /\ \A i \in DOMAIN j.todo :
            i = 1 \/ (i - 1 \in DOMAIN Tail(j.todo) /\ Tail(j.todo)[i - 1] = j.todo[i])
  BY TailParts DEF Job
<1>2. ASSUME Sure(j.todo, j.want, file)
      PROVE  Sure(Tail(j.todo), j.want, FileAfter(c))
  <2>1. ~Looks(c) /\ \A w \in j.want : Touches(c, w) => w.value = Value(c)
    BY <1>1, <1>2 DEF Sure, Fits
  <2>2. \A i \in DOMAIN Tail(j.todo) : Fits(Tail(j.todo)[i], j.want)
    BY <1>1, <1>2 DEF Sure
  <2>3. ASSUME NEW w \in j.want
        PROVE  \/ FileAfter(c)[w.name][w.tag] = w.value
               \/ \E i \in DOMAIN Tail(j.todo) : Touches(Tail(j.todo)[i], w)
    <3>1. FileAfter(c)[w.name][w.tag] =
             IF Touches(c, w) THEN Value(c) ELSE file[w.name][w.tag]
      BY <1>1, <2>1, CallEffect
    <3>2. CASE Touches(c, w)
      BY <2>1, <3>1, <3>2
    <3>3. CASE ~Touches(c, w) /\ file[w.name][w.tag] = w.value
      BY <3>1, <3>3
    <3>4. CASE ~Touches(c, w) /\ \E i \in DOMAIN j.todo : Touches(j.todo[i], w)
      BY <1>1, <3>4
    <3> QED
      BY <1>2, <3>2, <3>3, <3>4 DEF Sure
  <2> QED
    BY <2>2, <2>3 DEF Sure
<1> QED
  BY <1>2 DEF OnTrack, LeadTo

-----------------------------------------------------------------------------
(* Types.                                                                  *)

LEMMA ListingType == ServerType => Listing \in Lists /\ ListingAnswer \in Answer
<1> SUFFICES ASSUME ServerType
             PROVE  Listing \in Lists /\ ListingAnswer \in Answer
  OBVIOUS
<1>1. Listing \in Lists
  BY DEF ServerType, Listing, Lists, TagsOf
<1>2. off \subseteq Names
  BY DEF ServerType
<1> QED
  BY <1>1, <1>2 DEF ListingAnswer, Answer

LEMMA InitTypes == Init => Types
<1> SUFFICES ASSUME Init
             PROVE  Types
  OBVIOUS
<1> USE DEF Init
<1>1. ServerType
  BY InitialAssumption, NameAssumption DEF ServerType
<1>2. ListType
  <2>1. lists \in Seq(Answer) /\ Len(lists) = 0
    BY EmptySeq
  <2> QED
    BY <2>1, BoundAssumption DEF ListType, Lists
<1>3. FormType
  <2>1. modal \in Modals /\ modal.type = "closed"
    BY DEF Closed, Modals
  <2>2. form \in Form /\ ~form.editing
    BY DEF BlankForm, Form, NoRows, Rows
  <2> QED
    BY <2>1, <2>2 DEF FormType
<1>4. JobType
  BY DEF JobType
<1> QED
  BY <1>1, <1>2, <1>3, <1>4 DEF Types

(* The calls that are made of a form are calls.                            *)
LEMMA OrderOfTags ==
    ASSUME NEW S \in SUBSET Tags
    PROVE  /\ InOrder(S) \in Seq(S) /\ InOrder(S) \in Seq(Tags)
           /\ DOMAIN InOrder(S) = 1..Len(InOrder(S)) /\ Len(InOrder(S)) \in Nat
           /\ \A i \in DOMAIN InOrder(S) : InOrder(S)[i] \in S
           /\ \A t \in S : \E i \in DOMAIN InOrder(S) : InOrder(S)[i] = t
<1>1. IsFiniteSet(S)
  BY FiniteAssumption, FS_Subset
<1>2. /\ InOrder(S) \in Seq(S)
      /\ \A t \in S : \E i \in DOMAIN InOrder(S) : InOrder(S)[i] = t
  BY <1>1, OrderOfSet
<1>3. InOrder(S) \in Seq(Tags)
  BY <1>2, SeqMonotonic
<1> QED
  BY <1>2, <1>3, LenProperties, ElementOfSeq

LEMMA FirstOfTags ==
    ASSUME NEW rows \in Rows, TagsOf(rows) # {}
    PROVE  FirstTag(rows) \in TagsOf(rows)
<1>1. TagsOf(rows) \in SUBSET Tags
  BY DEF TagsOf
<1>2. PICK t \in TagsOf(rows) : TRUE
  OBVIOUS
<1>3. PICK i \in DOMAIN InOrder(TagsOf(rows)) : InOrder(TagsOf(rows))[i] = t
  BY <1>1, <1>2, OrderOfTags
<1>4. 1 \in DOMAIN InOrder(TagsOf(rows))
  BY <1>1, <1>3, OrderOfTags
<1> QED
  BY <1>1, <1>4, OrderOfTags DEF FirstTag

-----------------------------------------------------------------------------
(* The calls of the form.                                                  *)

(* A call of one entry, of the form's user.                                *)
RowCall(f, c) ==
    /\ c \in Call /\ c.name = f.name
    /\ \/ c.op = "leave" /\ c.tag \in f.tags \ TagsOf(f.rows)
       \/ c.op \in {"edit", "create"} /\ c.tag \in TagsOf(f.rows) /\ c.flow = f.rows[c.tag]

LEMMA FormRows ==
    ASSUME NEW f \in Form
    PROVE  /\ f.tags \subseteq Tags /\ TagsOf(f.rows) \subseteq Tags
           /\ \A t \in Tags : f.rows[t] \in Flows \cup {Absent}
           /\ \A t \in Tags : t \notin TagsOf(f.rows) => f.rows[t] = Absent
           /\ \A t \in TagsOf(f.rows) : f.rows[t] \in Flows
  BY DEF Form, TagsOf, Rows

(* RowCalls has a call for every inbound of the user and of the form.      *)
LEMMA RowCallsParts ==
    ASSUME NEW f \in Form, f.name \in Names
    PROVE  /\ RowCalls(f) \in Seq(Call)
           /\ \A i \in DOMAIN RowCalls(f) : RowCall(f, RowCalls(f)[i])
           /\ \A t \in f.tags \cup TagsOf(f.rows) :
                \E i \in DOMAIN RowCalls(f) : RowCalls(f)[i].tag = t
<1> DEFINE gone == InOrder(f.tags \ TagsOf(f.rows))
           kept == InOrder(TagsOf(f.rows))
           leave == [i \in DOMAIN gone |-> MakeCall("leave", f.name, f.name, gone[i], "none")]
           set == [i \in DOMAIN kept |->
                     MakeCall(IF kept[i] \in f.tags THEN "edit" ELSE "create",
                              f.name, f.name, kept[i], f.rows[kept[i]])]
<1>1. /\ gone \in Seq(Tags) /\ DOMAIN gone = 1..Len(gone) /\ Len(gone) \in Nat
      /\ \A i \in DOMAIN gone : gone[i] \in f.tags \ TagsOf(f.rows)
      /\ \A t \in f.tags \ TagsOf(f.rows) : \E i \in DOMAIN gone : gone[i] = t
  <2>1. f.tags \ TagsOf(f.rows) \in SUBSET Tags
    BY FormRows
  <2> QED
    BY <2>1, OrderOfTags
<1>2. /\ kept \in Seq(Tags) /\ DOMAIN kept = 1..Len(kept) /\ Len(kept) \in Nat
      /\ \A i \in DOMAIN kept : kept[i] \in TagsOf(f.rows)
      /\ \A t \in TagsOf(f.rows) : \E i \in DOMAIN kept : kept[i] = t
  <2>1. TagsOf(f.rows) \in SUBSET Tags
    BY FormRows
  <2> QED
    BY <2>1, OrderOfTags
<1> HIDE DEF gone, kept
<1>3. \A i \in DOMAIN gone : RowCall(f, leave[i]) /\ leave[i].tag = gone[i]
  BY <1>1, FormRows DEF RowCall, MakeCall, Call, Flows
<1>4. \A i \in DOMAIN kept : RowCall(f, set[i]) /\ set[i].tag = kept[i]
  BY <1>2, FormRows DEF RowCall, MakeCall, Call
<1>5. leave \in Seq(Call) /\ DOMAIN leave = DOMAIN gone
  <2>1. \A i \in 1..Len(gone) : leave[i] \in Call
    BY <1>1, <1>3 DEF RowCall
  <2> QED
    BY <1>1, <2>1, IsASeq
<1>6. set \in Seq(Call) /\ DOMAIN set = DOMAIN kept
  <2>1. \A i \in 1..Len(kept) : set[i] \in Call
    BY <1>2, <1>4 DEF RowCall
  <2> QED
    BY <1>2, <2>1, IsASeq
<1>7. RowCalls(f) = leave \o set
  BY DEF RowCalls, gone, kept
<1> HIDE DEF leave, set
<1>8. /\ RowCalls(f) \in Seq(Call)
      /\ \A i \in DOMAIN leave : \E j \in DOMAIN RowCalls(f) : RowCalls(f)[j] = leave[i]
      /\ \A i \in DOMAIN set : \E j \in DOMAIN RowCalls(f) : RowCalls(f)[j] = set[i]
      /\ \A j \in DOMAIN RowCalls(f) :
            (\E i \in DOMAIN leave : RowCalls(f)[j] = leave[i])
              \/ (\E i \in DOMAIN set : RowCalls(f)[j] = set[i])
  <2>0. leave \in Seq(Call) /\ set \in Seq(Call)
    BY <1>5, <1>6
  <2>1. leave \o set \in Seq(Call)
    BY <2>0, ConcatParts
  <2>2. \A i \in DOMAIN leave : \E j \in DOMAIN (leave \o set) : (leave \o set)[j] = leave[i]
    BY <2>0, ConcatParts
  <2>3. \A i \in DOMAIN set : \E j \in DOMAIN (leave \o set) : (leave \o set)[j] = set[i]
    BY <2>0, ConcatParts
  <2>4. \A j \in DOMAIN (leave \o set) :
            (\E i \in DOMAIN leave : (leave \o set)[j] = leave[i])
              \/ (\E i \in DOMAIN set : (leave \o set)[j] = set[i])
    BY <2>0, ConcatParts
  <2> QED
    BY <1>7, <2>1, <2>2, <2>3, <2>4, Zenon
<1>9. \A i \in DOMAIN RowCalls(f) : RowCall(f, RowCalls(f)[i])
  BY <1>3, <1>4, <1>5, <1>6, <1>8
<1>10. ASSUME NEW t \in f.tags \cup TagsOf(f.rows)
       PROVE  \E i \in DOMAIN RowCalls(f) : RowCalls(f)[i].tag = t
  <2>1. CASE t \in TagsOf(f.rows)
    BY <1>2, <1>4, <1>6, <1>8, <2>1
  <2>2. CASE t \in f.tags \ TagsOf(f.rows)
    BY <1>1, <1>3, <1>5, <1>8, <2>2
  <2> QED
    BY <2>1, <2>2
<1> QED
  BY <1>8, <1>9, <1>10

LEMMA WantTypes ==
    ASSUME NEW n \in Names, NEW rows \in Rows
    PROVE  /\ Want(n, rows) \subseteq Wish
           /\ \A w \in Want(n, rows) : w.name = n /\ w.tag \in Tags /\ w.value = rows[w.tag]
  BY DEF Want, Wish, Rows

LEMMA NoRowsType == NoRows \in Rows /\ \A t \in Tags : NoRows[t] = Absent
  BY DEF NoRows, Rows

(* One call is a sequence, and the rest of a sequence behind it is that.   *)
LEMMA OneCall ==
    ASSUME NEW c \in Call
    PROVE  /\ <<c>> \in Seq(Call) /\ <<c>> # <<>> /\ Head(<<c>>) = c /\ Tail(<<c>>) = <<>>
           /\ DOMAIN <<c>> = {1} /\ <<c>>[1] = c
  OBVIOUS

LEMMA CallAndRest ==
    ASSUME NEW c \in Call, NEW rest \in Seq(Call)
    PROVE  /\ <<c>> \o rest \in Seq(Call) /\ <<c>> \o rest # <<>>
           /\ Head(<<c>> \o rest) = c /\ Tail(<<c>> \o rest) = rest
  OBVIOUS

(* What updateUser makes of the entries of a user that keeps its name.     *)
LEMMA UpdateEffect ==
    ASSUME ServerType, NEW n \in Names, NEW t \in Tags, NEW v \in Flows, NEW u \in Tags
    PROVE  file[n][u] = Absent /\ u # t
             => FileAfter(MakeCall("update", n, n, t, v))[n][u] = Absent
  BY DEF ServerType, FileAfter, MakeCall, Updated, TagsOf, Rows, NoRows

(* A save leads to the rows of the form, from a form that has the inbounds *)
(* of its user.                                                            *)
LEMMA SaveLeads ==
    ASSUME ServerType, NEW f \in Form, f.orig \in Names, f.name \in Names,
           TagsOf(f.rows) # {}
    PROVE  /\ SaveCalls(f) \in Seq(Call) /\ SaveWant(f) \subseteq Wish
           /\ /\ f.orig # f.name => Cardinality(TagsOf(f.rows)) = 1
              /\ f.tags = TagsOf(file[f.orig])
              /\ f.orig # f.name => TagsOf(file[f.name]) = {}
              => LeadTo(SaveCalls(f), SaveWant(f))
<1> DEFINE t == FirstTag(f.rows)
           Ready == /\ f.orig # f.name => Cardinality(TagsOf(f.rows)) = 1
                    /\ f.tags = TagsOf(file[f.orig])
                    /\ f.orig # f.name => TagsOf(file[f.name]) = {}
<1>1. f.rows \in Rows /\ f.enabled \in BOOLEAN
  BY DEF Form
<1>2. t \in TagsOf(f.rows) /\ t \in Tags /\ f.rows[t] \in Flows
  BY <1>1, FirstOfTags, FormRows
<1> HIDE DEF t
<1>3. SaveWant(f) \subseteq Wish
  BY <1>1, WantTypes, NoRowsType DEF SaveWant
<1>4. CASE ~f.enabled
  <2> DEFINE c == MakeCall("disable", f.orig, f.name, t, "none")
  <2>1. c \in Call /\ ~Looks(c)
    BY <1>2 DEF MakeCall, Call, Flows, Looks
  <2>2. SaveCalls(f) = <<c>>
    BY <1>4 DEF SaveCalls, t
  <2>3. \A w \in SaveWant(f) : Touches(c, w) /\ w.value = Value(c)
    <3>1. \A w \in SaveWant(f) : w.name \in {f.orig, f.name} /\ w.value = Absent
      BY <1>4, WantTypes, NoRowsType DEF SaveWant
    <3> QED
      BY <3>1 DEF Touches, Value, MakeCall
  <2> HIDE DEF c
  <2>4. LeadTo(SaveCalls(f), SaveWant(f))
    BY <2>1, <2>2, <2>3, OneCall DEF LeadTo, Sure, Fits
  <2> QED
    BY <1>3, <2>1, <2>2, <2>4, OneCall
<1>5. CASE f.enabled /\ f.orig # f.name
  <2> DEFINE c == MakeCall("update", f.orig, f.name, t, f.rows[t])
  <2>1. /\ c \in Call /\ Looks(c) /\ c.op = "update" /\ c.orig = f.orig
        /\ c.name = f.name /\ c.tag = t /\ c.flow = f.rows[t]
    BY <1>2 DEF MakeCall, Call, Looks
  <2>2. SaveCalls(f) = <<c>>
    BY <1>5 DEF SaveCalls, t
  <2> HIDE DEF c
  <2>3. ASSUME Ready
        PROVE  Sure(<<>>, SaveWant(f), FileAfter(c))
    <3>1. TagsOf(f.rows) = {t}
      <4>1. IsFiniteSet(TagsOf(f.rows))
        BY FiniteAssumption, FormRows, FS_Subset
      <4> QED
        BY <1>2, <1>5, <2>3, <4>1, FS_Singleton
    <3>2. \A u \in Tags : f.rows[u] = IF u = t THEN f.rows[t] ELSE Absent
      BY <3>1, FormRows
    <3>3. FileAfter(c)[f.name] = [NoRows EXCEPT ![t] = f.rows[t]]
      BY <1>5, <2>1, <2>3 DEF FileAfter, Updated, ServerType
    <3>4. FileAfter(c)[f.orig] = NoRows
      BY <1>5, <2>1 DEF FileAfter, Updated, ServerType
    <3>5. \A w \in SaveWant(f) : \/ w.name = f.name /\ w.tag \in Tags /\ w.value = f.rows[w.tag]
                                 \/ w.name = f.orig /\ w.tag \in Tags /\ w.value = Absent
      BY <1>1, <1>5, WantTypes, NoRowsType DEF SaveWant
    <3>6. \A u \in Tags : /\ FileAfter(c)[f.name][u] = f.rows[u]
                          /\ FileAfter(c)[f.orig][u] = Absent
      BY <1>2, <3>2, <3>3, <3>4, NoRowsType DEF NoRows
    <3> QED
      BY <3>5, <3>6 DEF Sure
  <2>4. Ready => LeadTo(SaveCalls(f), SaveWant(f))
    BY <2>1, <2>2, <2>3, OneCall DEF LeadTo
  <2> HIDE DEF Ready
  <2>5. SaveCalls(f) \in Seq(Call)
    BY <2>1, <2>2, OneCall
  <2> QED
    BY <1>3, <2>4, <2>5 DEF Ready
<1>6. CASE f.enabled /\ f.orig = f.name
  <2> DEFINE c == MakeCall("update", f.orig, f.name, t, "none")
             rest == RowCalls(f)
  <2>1. c \in Call /\ Looks(c)
    BY <1>2 DEF MakeCall, Call, Flows, Looks
  <2>2. SaveCalls(f) = <<c>> \o rest
    BY <1>6 DEF SaveCalls, t
  <2>3. /\ rest \in Seq(Call)
        /\ \A i \in DOMAIN rest : RowCall(f, rest[i])
        /\ \A u \in f.tags \cup TagsOf(f.rows) : \E i \in DOMAIN rest : rest[i].tag = u
    BY RowCallsParts
  <2> HIDE DEF rest
  <2>4. \A w \in SaveWant(f) : w.name = f.name /\ w.tag \in Tags /\ w.value = f.rows[w.tag]
    BY <1>1, <1>6, WantTypes DEF SaveWant
  <2>5. \A i \in DOMAIN rest : Fits(rest[i], SaveWant(f))
    BY <2>3, <2>4, FormRows DEF RowCall, Fits, Looks, Touches, Value
  <2>6. ASSUME Ready, NEW w \in SaveWant(f)
        PROVE  \/ FileAfter(c)[w.name][w.tag] = w.value
               \/ \E i \in DOMAIN rest : Touches(rest[i], w)
    <3>1. CASE w.tag \in f.tags \cup TagsOf(f.rows)
      BY <2>3, <2>4, <3>1 DEF RowCall, Touches
    <3>2. CASE w.tag \notin f.tags \cup TagsOf(f.rows)
      <4>1. file[f.name][w.tag] = Absent /\ w.tag # t /\ w.value = Absent
        BY <1>2, <1>6, <2>4, <2>6, <3>2, FormRows DEF TagsOf
      <4> QED
        BY <1>2, <1>6, <2>4, <4>1, UpdateEffect DEF Flows
    <3> QED
      BY <3>1, <3>2
  <2> HIDE DEF c, Ready
  <2>7. Ready => Sure(rest, SaveWant(f), FileAfter(c))
    BY <2>5, <2>6 DEF Sure
  <2>8. Ready => LeadTo(SaveCalls(f), SaveWant(f))
    BY <2>1, <2>2, <2>3, <2>7, CallAndRest DEF LeadTo
  <2>9. SaveCalls(f) \in Seq(Call)
    BY <2>1, <2>2, <2>3, CallAndRest
  <2> QED
    BY <1>3, <2>8, <2>9 DEF Ready
<1> QED
  BY <1>1, <1>4, <1>5, <1>6

-----------------------------------------------------------------------------
(* The steps that concern no handler.                                      *)

LEMMA ListSteps ==
    ASSUME Types,
           \/ ServeList \/ LoseList \/ SelectAll(TRUE) \/ SelectAll(FALSE)
           \/ \E i \in DOMAIN lists : LandList(i)
           \/ \E n \in Names : SelectUser(n)
    PROVE  Types'
<1> USE DEF Types, serverVars, formVars, countVars
<1>1. ServerType' /\ FormType' /\ JobType' /\ spoiled' \in BOOLEAN
  BY DEF ServerType, FormType, JobType, ServeList, LoseList, SelectAll, LandList, SelectUser
<1>2. ASSUME ServeList
      PROVE  ListType'
  BY <1>2, ListingType, AppendProperties DEF ListType, ServeList, ListingAnswer
<1>3. ASSUME LoseList
      PROVE  ListType'
  <2>1. Len(lists) \in Nat /\ lists' = lists /\ asked' = asked - 1 /\ asked > 0
    BY <1>3, LenProperties DEF ListType, LoseList
  <2>2. /\ users' \in Lists /\ disabled' \subseteq Names /\ selected' \subseteq Names
        /\ lists' \in Seq(Answer)
    BY <1>3 DEF ListType, LoseList
  <2>3. asked' \in Nat /\ asked' + Len(lists') <= MaxLists
    BY <2>1, BoundAssumption DEF ListType
  <2> QED
    BY <2>2, <2>3 DEF ListType
<1>4. ASSUME SelectAll(TRUE) \/ SelectAll(FALSE) \/ \E n \in Names : SelectUser(n)
      PROVE  ListType'
  BY <1>4 DEF ListType, SelectAll, SelectUser, Listed
<1>5. ASSUME NEW i \in DOMAIN lists, LandList(i)
      PROVE  ListType'
  <2>1. lists[i] \in Answer /\ Len(lists) \in Nat /\ DOMAIN lists = 1..Len(lists)
    BY ElementOfSeq, LenProperties DEF ListType
  <2>2. /\ RemoveAt(lists, i) \in Seq(Answer)
        /\ Len(RemoveAt(lists, i)) = Len(lists) - 1
    <3>1. /\ SubSeq(lists, 1, i - 1) \in Seq(Answer) /\ Len(SubSeq(lists, 1, i - 1)) = i - 1
          /\ SubSeq(lists, i + 1, Len(lists)) \in Seq(Answer)
          /\ Len(SubSeq(lists, i + 1, Len(lists))) = Len(lists) - i
      BY <2>1, SubSeqProperties DEF ListType
    <3> QED
      BY <2>1, <3>1, ConcatProperties DEF RemoveAt
  <2>3. users' \in Lists /\ disabled' \subseteq Names /\ selected' \subseteq Names
    BY <1>5, <2>1 DEF ListType, LandList, Answer
  <2>4. lists' \in Seq(Answer) /\ Len(lists') = Len(lists) - 1 /\ asked' = asked
    BY <1>5, <2>2 DEF LandList
  <2>5. asked' \in Nat /\ asked' + Len(lists') <= MaxLists
    BY <2>1, <2>4, BoundAssumption DEF ListType
  <2> QED
    BY <2>3, <2>4, <2>5 DEF ListType
<1> QED
  BY <1>1, <1>2, <1>3, <1>4, <1>5

LEMMA FormSteps ==
    ASSUME Types,
           \/ \E n \in opening : ServeInbounds(n)
           \/ \E a \in inbounds : LandInbounds(a)
           \/ \E n \in Names, t \in Tags : CreateClick(n, t) \/ EditClick(n, t)
           \/ \E n \in Names, chosen \in SUBSET Tags : PickInbounds(n, chosen)
           \/ Cancel \/ EditForm \/ OpenBulk \/ OpenDelete \/ RefuseDelete
    PROVE  Types'
<1> USE DEF Types, serverVars, listVars
<1>1. ServerType' /\ ListType' /\ JobType' /\ spoiled' \in BOOLEAN
  BY DEF ServerType, ListType, JobType, ServeInbounds, LandInbounds, CreateClick, EditClick,
         PickInbounds, Cancel, EditForm, OpenBulk, OpenDelete, RefuseDelete
<1>2. ASSUME NEW n \in opening, ServeInbounds(n)
      PROVE  FormType'
  BY <1>2 DEF FormType, ServerType, ServeInbounds
<1>3. ASSUME NEW a \in inbounds, LandInbounds(a)
      PROVE  FormType'
  <2> DEFINE rows == MergedRows(form.rows, a.rows)
  <2>1. form \in Form /\ a.rows \in Rows
    BY DEF FormType
  <2>2. rows \in Rows /\ TagsOf(rows) = TagsOf(form.rows)
    BY <2>1 DEF Form, Rows, MergedRows, TagsOf
  <2>3. /\ form' \in Form /\ form'.rows = rows /\ form'.editing = form.editing
        /\ form'.orig = form.orig /\ form'.name = form.name
    BY <1>3, <2>1, <2>2 DEF LandInbounds, Form
  <2> HIDE DEF rows
  <2> QED
    BY <1>3, <2>2, <2>3 DEF FormType, LandInbounds
<1>4. ASSUME NEW n \in Names, NEW t \in Tags, CreateClick(n, t)
      PROVE  FormType'
  <2> DEFINE rows == [NoRows EXCEPT ![t] = "vision"]
  <2>1. rows \in Rows /\ t \in TagsOf(rows)
    BY DEF NoRows, Rows, TagsOf, Flows, Absent
  <2>2. /\ form' \in Form /\ form'.rows = rows /\ form'.name = n /\ ~form'.editing
        /\ modal' \in Modals
    BY <1>4, <2>1 DEF CreateClick, OpenModal, FormType, Form, BlankForm, Modals
  <2> QED
    BY <1>4, <2>1, <2>2 DEF CreateClick, FormType
<1>5. ASSUME NEW n \in Names, NEW t \in Tags, EditClick(n, t)
      PROVE  FormType'
  <2>1. users[n] \subseteq Tags
    BY <1>5 DEF EditClick, Listed, ListType, Lists
  <2> DEFINE rows == IF users[n] = {} THEN [NoRows EXCEPT ![t] = "vision"]
                     ELSE [u \in Tags |-> IF u \in users[n] THEN "none" ELSE Absent]
  <2>2. rows \in Rows
    BY DEF NoRows, Rows, Flows
  <2>3. TagsOf(rows) # {}
    <3>1. CASE users[n] = {}
      BY <3>1 DEF NoRows, TagsOf, Absent
    <3>2. CASE users[n] # {}
      BY <2>1, <3>2 DEF TagsOf, Absent
    <3> QED
      BY <3>1, <3>2
  <2>4. /\ form' = [editing |-> TRUE, orig |-> n, name |-> n, enabled |-> n \notin disabled,
                    tags |-> users[n], loaded |-> FALSE, rows |-> rows]
        /\ modal' = [type |-> "form"]
        /\ opening' = opening \cup {n} /\ inbounds' = inbounds
    BY <1>5 DEF EditClick, OpenModal
  <2> HIDE DEF rows
  <2>5. form' \in Form /\ form'.rows = rows /\ form'.name = n /\ form'.orig = n
    BY <2>1, <2>2, <2>4 DEF Form
  <2>6. modal' \in Modals
    BY <2>4 DEF Modals
  <2> QED
    BY <2>3, <2>4, <2>5, <2>6 DEF FormType
<1>6. ASSUME NEW n \in Names, NEW chosen \in SUBSET Tags, PickInbounds(n, chosen)
      PROVE  FormType'
  <2>1. users[n] \subseteq Tags
    BY <1>6 DEF PickInbounds, Listed, ListType, Lists
  <2>2. modal' \in Modals /\ modal'.type = "pick"
    BY <1>6, <2>1 DEF PickInbounds, OpenModal, Modals
  <2> QED
    BY <1>6, <2>2 DEF PickInbounds, FormType
<1>7. ASSUME Cancel \/ RefuseDelete
      PROVE  FormType'
  BY <1>7 DEF Cancel, RefuseDelete, Closed, Modals, FormType
<1>8. ASSUME OpenBulk \/ OpenDelete
      PROVE  FormType'
  BY <1>8 DEF OpenBulk, OpenDelete, OpenModal, Modals, FormType
<1>9. ASSUME EditForm
      PROVE  FormType'
  <2>1. PICK rows \in Rows, n \in Names, e \in BOOLEAN :
          /\ TagsOf(rows) # {}
          /\ form' = [form EXCEPT !.rows = rows, !.name = n, !.enabled = e, !.loaded = FALSE]
    BY <1>9 DEF EditForm
  <2>2. /\ form' \in Form /\ form'.rows = rows /\ form'.name = n
        /\ form'.editing = form.editing /\ form'.orig = form.orig
    BY <2>1 DEF FormType, Form
  <2> QED
    BY <1>9, <2>1, <2>2 DEF EditForm, FormType
<1> QED
  BY <1>1, <1>2, <1>3, <1>4, <1>5, <1>6, <1>7, <1>8, <1>9

-----------------------------------------------------------------------------
(* What a step that leaves the file alone keeps.                           *)

LEMMA CallSame ==
    ASSUME UNCHANGED file, NEW c
    PROVE  FileAfter(c)' = FileAfter(c)
  BY DEF FileAfter, Updated, TagsOf

LEMMA TrackSame ==
    ASSUME UNCHANGED file, NEW todo, NEW want
    PROVE  LeadTo(todo, want)' <=> LeadTo(todo, want)
  BY CallSame DEF LeadTo

LEMMA ListingSame ==
    UNCHANGED serverVars => Listing' = Listing /\ ListingAnswer' = ListingAnswer
  BY DEF serverVars, Listing, ListingAnswer, TagsOf

(* The handlers rest.                                                      *)
LEMMA HandlersRest ==
    ASSUME IInv, UNCHANGED <<file, job>>, spoiled => spoiled'
    PROVE  JobsOnTrack' /\ FailuresShow' /\ SmallUsers'
<1>1. JobsOnTrack'
  BY TrackSame DEF IInv, JobsOnTrack, OnTrack, Running
<1>2. FailuresShow'
  BY DEF IInv, FailuresShow, Running
<1>3. SmallUsers'
  BY DEF IInv, SmallUsers, Running, TagsOf
<1> QED
  BY <1>1, <1>2, <1>3

-----------------------------------------------------------------------------
(* A handler starts.                                                       *)

(* The handler s starts as j: j is on track and, for the deletion of the   *)
(* selection, takes small users.                                           *)
Starts(s, j) ==
    /\ ~Running(s) /\ job' = [job EXCEPT ![s] = j]
    /\ ~j.failed
    /\ j.clean => LeadTo(j.todo, j.want)
    /\ j.kind = "selected" =>
         \A i \in DOMAIN j.todo :
            /\ j.todo[i].op = "delete"
            /\ j.clean => Cardinality(TagsOf(file[j.todo[i].name])) <= 1

LEMMA StartStep ==
    ASSUME IInv, NEW s \in Slots, NEW j \in Job, Starts(s, j),
           UNCHANGED <<serverVars, listVars, spoiled>>
    PROVE  JobType' /\ JobsOnTrack' /\ FailuresShow' /\ LastIsRight' /\ SmallUsers'
<1>1. JobType'
  BY DEF IInv, Types, JobType, Starts
<1>2. job'[s] = j /\ \A o \in Slots : o # s => job'[o] = job[o]
  BY DEF IInv, Types, JobType, Starts
<1>3. j.kind # "idle" /\ Running(s)'
  BY <1>2 DEF Job, Running
<1>4. JobsOnTrack'
  <2> SUFFICES ASSUME NEW o \in Slots, job'[o].kind # "idle", ~job'[o].failed, job'[o].clean
               PROVE  LeadTo(job'[o].todo, job'[o].want)
    BY TrackSame DEF JobsOnTrack, OnTrack, Running, serverVars
  <2> QED
    BY <1>2 DEF IInv, JobsOnTrack, OnTrack, Running, Starts
<1>5. FailuresShow'
  BY <1>2 DEF IInv, FailuresShow, Running, Starts
<1>6. LastIsRight'
  BY <1>3 DEF LastIsRight
<1>7. SmallUsers'
  <2> SUFFICES ASSUME NEW o \in Slots, job'[o].kind = "selected", NEW i \in DOMAIN job'[o].todo
               PROVE  /\ job'[o].todo[i].op = "delete"
                      /\ job'[o].clean => Cardinality(TagsOf(file[job'[o].todo[i].name])) <= 1
    BY DEF SmallUsers, TagsOf, serverVars
  <2>1. CASE o = s
    BY <1>2, <2>1 DEF Starts
  <2>2. CASE o # s
    BY <1>2, <2>2 DEF IInv, SmallUsers, Running
  <2> QED
    BY <2>1, <2>2
<1> QED
  BY <1>1, <1>4, <1>5, <1>6, <1>7

LEMMA HandlerStarts ==
    ASSUME IInv, NEW s \in Slots, NEW j \in Job, Starts(s, j),
           UNCHANGED <<serverVars, listVars, form, opening, inbounds, spoiled>>,
           modal' = modal \/ modal' = Closed
    PROVE  IInv'
<1> USE DEF serverVars, listVars
<1>1. JobType' /\ JobsOnTrack' /\ FailuresShow' /\ LastIsRight' /\ SmallUsers'
  BY StartStep
<1>2. ServerType' /\ ListType' /\ spoiled' \in BOOLEAN
  BY DEF IInv, Types, ServerType, ListType
<1>3. FormType'
  <2>1. modal' \in Modals /\ (modal'.type = "form" => modal' = modal)
    BY DEF IInv, Types, FormType, Closed, Modals
  <2> QED
    BY <2>1 DEF IInv, Types, FormType, TagsOf
<1>4. FormShowsUser'
  BY DEF IInv, FormShowsUser
<1> QED
  BY <1>1, <1>2, <1>3, <1>4 DEF IInv, Types

(* The handler that Start starts.                                          *)
LEMMA StartMakes ==
    ASSUME NEW s \in Slots, NEW kind \in {"save", "bulk", "row", "pick", "selected"},
           NEW todo \in Seq(Call), NEW want \in SUBSET Wish, NEW clean \in BOOLEAN,
           Start(s, kind, todo, want, clean),
           clean /\ (\A o \in Slots : ~Running(o)) => LeadTo(todo, want),
           kind = "selected" =>
             \A i \in DOMAIN todo :
                /\ todo[i].op = "delete"
                /\ clean /\ (\A o \in Slots : ~Running(o))
                     => Cardinality(TagsOf(file[todo[i].name])) <= 1
    PROVE  \E j \in Job : Starts(s, j)
<1> DEFINE alone == clean /\ \A o \in Slots : ~Running(o)
           j == [kind |-> kind, todo |-> todo, failed |-> FALSE, want |-> want,
                 clean |-> alone]
<1>1. alone \in BOOLEAN /\ ~Running(s) /\ job' = [job EXCEPT ![s] = j]
  BY DEF Start
<1>2. j \in Job
  BY <1>1 DEF Job
<1>3. /\ j.kind = kind /\ j.todo = todo /\ j.want = want
      /\ ~j.failed /\ j.clean = alone
  OBVIOUS
<1>4. Starts(s, j)
  <2> HIDE DEF j
  <2>1. j.clean => LeadTo(j.todo, j.want)
    BY <1>3
  <2>2. j.kind = "selected" =>
         \A i \in DOMAIN j.todo :
            /\ j.todo[i].op = "delete"
            /\ j.clean => Cardinality(TagsOf(file[j.todo[i].name])) <= 1
    BY <1>3
  <2> QED
    BY <1>1, <1>3, <2>1, <2>2 DEF Starts
<1> QED
  BY <1>2, <1>4

LEMMA SaveEditStep ==
    ASSUME IInv, NEW s \in Slots, SaveEdit(s)
    PROVE  IInv'
<1> DEFINE clean == /\ form.tags = TagsOf(file[form.orig])
                    /\ form.orig # form.name => TagsOf(file[form.name]) = {}
<1>1. /\ ServerType /\ form \in Form /\ form.orig \in Names /\ form.name \in Names
      /\ TagsOf(form.rows) # {}
      /\ form.orig # form.name => Cardinality(TagsOf(form.rows)) = 1
  BY DEF IInv, Types, FormType, SaveEdit
<1>2. /\ SaveCalls(form) \in Seq(Call) /\ SaveWant(form) \subseteq Wish
      /\ clean => LeadTo(SaveCalls(form), SaveWant(form))
  BY <1>1, SaveLeads
<1>3. Start(s, "save", SaveCalls(form), SaveWant(form), clean) /\ clean \in BOOLEAN
  BY DEF SaveEdit
<1> HIDE DEF clean
<1>4. \E j \in Job : Starts(s, j)
  BY <1>2, <1>3, StartMakes
<1>5. /\ UNCHANGED <<serverVars, listVars, form, opening, inbounds, spoiled>>
      /\ modal' = modal
  BY DEF SaveEdit, formVars
<1> QED
  BY <1>4, <1>5, HandlerStarts

LEMMA SaveNewStep ==
    ASSUME IInv, NEW s \in Slots, SaveNew(s)
    PROVE  IInv'
<1> DEFINE tags == InOrder(TagsOf(form.rows))
           todo == [i \in DOMAIN tags |-> MakeCall("create", form.name, form.name,
                                                   tags[i], form.rows[tags[i]])]
           want == {w \in Want(form.name, form.rows) : w.value # Absent}
<1>1. /\ ServerType /\ form \in Form /\ form.name \in Names /\ form.rows \in Rows
      /\ TagsOf(form.rows) \in SUBSET Tags
      /\ \A t \in TagsOf(form.rows) : form.rows[t] \in Flows
  BY FormRows DEF IInv, Types, FormType, SaveNew, Form
<1>2. /\ tags \in Seq(Tags) /\ DOMAIN tags = 1..Len(tags) /\ Len(tags) \in Nat
      /\ \A i \in DOMAIN tags : tags[i] \in TagsOf(form.rows)
      /\ \A t \in TagsOf(form.rows) : \E i \in DOMAIN tags : tags[i] = t
  BY <1>1, OrderOfTags
<1>3. Start(s, "save", todo, want, TRUE)
  BY DEF SaveNew
<1> HIDE DEF tags
<1>4. \A i \in 1..Len(tags) :
         /\ todo[i] \in Call /\ todo[i].op = "create" /\ todo[i].name = form.name
         /\ todo[i].tag = tags[i] /\ todo[i].flow = form.rows[tags[i]]
  BY <1>1, <1>2 DEF MakeCall, Call
<1>5. todo \in Seq(Call) /\ DOMAIN todo = 1..Len(tags)
  BY <1>2, <1>4, IsASeq
<1>6. \A w \in want : /\ w \in Wish /\ w.name = form.name /\ w.value = form.rows[w.tag]
                      /\ w.tag \in TagsOf(form.rows)
  BY <1>1, WantTypes DEF TagsOf
<1> HIDE DEF todo, want
<1>7. LeadTo(todo, want)
  <2>1. \A i \in DOMAIN todo : Fits(todo[i], want)
    BY <1>4, <1>5, <1>6 DEF Fits, Looks, Touches, Value
  <2>2. \A w \in want : \E i \in DOMAIN todo : Touches(todo[i], w)
    BY <1>2, <1>4, <1>5, <1>6 DEF Touches
  <2> QED
    BY <2>1, <2>2 DEF LeadTo, Sure
<1>8. \E j \in Job : Starts(s, j)
  BY <1>3, <1>5, <1>6, <1>7, StartMakes
<1>9. /\ UNCHANGED <<serverVars, listVars, form, opening, inbounds, spoiled>>
      /\ modal' = modal
  BY DEF SaveNew, formVars
<1> QED
  BY <1>8, <1>9, HandlerStarts

(* The bulk form: what it wants is what its one call makes of the entries  *)
(* that are not there.                                                     *)
LEMMA BulkCreateStep ==
    ASSUME IInv, NEW s \in Slots, NEW t \in Tags, NEW flow \in Flows, BulkCreate(s, t, flow)
    PROVE  IInv'
<1> DEFINE n == CHOOSE b \in Names : TRUE
           c == MakeCall("bulk", n, n, t, flow)
           want == {[name |-> b, tag |-> t, value |-> flow] :
                      b \in {d \in BulkNames : file[d][t] = Absent}}
<1>1. n \in Names
  BY FiniteAssumption
<1>2. c \in Call /\ Looks(c) /\ c.op = "bulk" /\ c.tag = t /\ c.flow = flow
  BY <1>1 DEF MakeCall, Call, Looks
<1>3. Start(s, "bulk", <<c>>, want, TRUE)
  BY DEF BulkCreate
<1> HIDE DEF c
<1>4. /\ want \subseteq Wish
      /\ \A w \in want : /\ w.name \in BulkNames /\ w.name \in Names /\ w.tag = t
                         /\ w.value = flow /\ file[w.name][t] = Absent
  BY NameAssumption DEF Wish
<1> HIDE DEF want
<1>5. \A w \in want : FileAfter(c)[w.name][w.tag] = w.value
  BY <1>2, <1>4 DEF FileAfter, IInv, Types, ServerType, Rows
<1>6. LeadTo(<<c>>, want)
  BY <1>2, <1>5, OneCall DEF LeadTo, Sure
<1>7. \E j \in Job : Starts(s, j)
  BY <1>2, <1>3, <1>4, <1>6, OneCall, StartMakes
<1>8. /\ UNCHANGED <<serverVars, listVars, form, opening, inbounds, spoiled>>
      /\ modal' = modal
  BY DEF BulkCreate, formVars
<1> QED
  BY <1>7, <1>8, HandlerStarts

LEMMA DeleteCallType ==
    ASSUME NEW n \in Names
    PROVE  /\ DeleteCall(n) \in Call /\ ~Looks(DeleteCall(n))
           /\ DeleteCall(n).op = "delete" /\ DeleteCall(n).name = n
  BY FiniteAssumption DEF DeleteCall, MakeCall, Call, Looks, Flows

LEMMA DeleteRowStep ==
    ASSUME IInv, NEW s \in Slots, NEW n \in Names, DeleteRow(s, n)
    PROVE  IInv'
<1> DEFINE c == DeleteCall(n)
           want == Want(n, NoRows)
<1>1. c \in Call /\ ~Looks(c) /\ c.op = "delete" /\ c.name = n
  BY DeleteCallType
<1>2. Start(s, "row", <<c>>, want, TRUE)
  BY DEF DeleteRow
<1> HIDE DEF c
<1>3. want \subseteq Wish /\ \A w \in want : w.name = n /\ w.value = Absent
  BY WantTypes, NoRowsType
<1> HIDE DEF want
<1>4. \A w \in want : Touches(c, w) /\ w.value = Value(c)
  BY <1>1, <1>3 DEF Touches, Value
<1>5. LeadTo(<<c>>, want)
  BY <1>1, <1>4, OneCall DEF LeadTo, Sure, Fits
<1>6. \E j \in Job : Starts(s, j)
  BY <1>1, <1>2, <1>3, <1>5, OneCall, StartMakes
<1>7. /\ UNCHANGED <<serverVars, listVars, form, opening, inbounds, spoiled>>
      /\ modal' = modal
  BY DEF DeleteRow, formVars
<1> QED
  BY <1>6, <1>7, HandlerStarts

LEMMA RemoveFromInboundsStep ==
    ASSUME IInv, NEW s \in Slots, RemoveFromInbounds(s)
    PROVE  IInv'
<1> DEFINE n == modal.name
           chosen == modal.chosen
           tags == InOrder(chosen)
           calls == [i \in DOMAIN tags |-> MakeCall("leave", n, n, tags[i], "none")]
           todo == IF chosen = modal.tags THEN <<DeleteCall(n)>> ELSE calls
           left == [t \in Tags |-> IF t \in chosen THEN Absent ELSE file[n][t]]
           want == Want(n, left)
           clean == modal.tags = TagsOf(file[n])
<1>1. n \in Names /\ chosen \in SUBSET Tags /\ modal.tags \in SUBSET Tags
  BY DEF IInv, Types, FormType, RemoveFromInbounds, Modals
<1>2. file[n] \in Rows
  BY <1>1 DEF IInv, Types, ServerType
<1>3. left \in Rows
  BY <1>2 DEF Rows
<1>4. Start(s, "pick", todo, want, clean) /\ clean \in BOOLEAN
  BY DEF RemoveFromInbounds
<1>5. /\ UNCHANGED <<serverVars, listVars, form, opening, inbounds, spoiled>>
      /\ modal' = Closed
  BY DEF RemoveFromInbounds
<1> HIDE DEF n, chosen
<1>6. /\ tags \in Seq(Tags) /\ DOMAIN tags = 1..Len(tags) /\ Len(tags) \in Nat
      /\ \A i \in DOMAIN tags : tags[i] \in chosen
      /\ \A t \in chosen : \E i \in DOMAIN tags : tags[i] = t
  BY <1>1, OrderOfTags
<1> HIDE DEF tags
<1>7. \A i \in 1..Len(tags) :
         /\ calls[i] \in Call /\ calls[i].op = "leave" /\ calls[i].name = n
         /\ calls[i].tag = tags[i]
  BY <1>1, <1>6 DEF MakeCall, Call, Flows
<1>8. calls \in Seq(Call) /\ DOMAIN calls = 1..Len(tags)
  BY <1>6, <1>7, IsASeq
<1> HIDE DEF calls
<1>9. DeleteCall(n) \in Call /\ ~Looks(DeleteCall(n))
      /\ DeleteCall(n).op = "delete" /\ DeleteCall(n).name = n
  BY <1>1, DeleteCallType
<1>10. todo \in Seq(Call)
  BY <1>8, <1>9, OneCall
<1>11. /\ want \subseteq Wish
       /\ \A w \in want : w.name = n /\ w.tag \in Tags /\ w.value = left[w.tag]
  BY <1>1, <1>3, WantTypes
<1>12. \A w \in want : w.value = IF w.tag \in chosen THEN Absent ELSE file[n][w.tag]
  BY <1>11
<1>13. \A i \in DOMAIN calls : calls[i].op = "leave" /\ calls[i].name = n /\ calls[i].tag \in chosen
  BY <1>6, <1>7, <1>8
<1>14. \A t \in chosen : \E i \in DOMAIN calls : calls[i].tag = t
  BY <1>6, <1>7, <1>8
<1> HIDE DEF want, left
<1>15. ASSUME clean
       PROVE  LeadTo(todo, want)
  <2>1. CASE chosen = modal.tags
    <3>1. \A w \in want : w.value = Absent
      BY <1>1, <1>11, <1>12, <1>15, <2>1 DEF TagsOf
    <3>2. \A w \in want : Touches(DeleteCall(n), w) /\ w.value = Value(DeleteCall(n))
      BY <1>9, <1>11, <3>1 DEF Touches, Value
    <3> QED
      BY <1>9, <2>1, <3>2, OneCall DEF LeadTo, Sure, Fits
  <2>2. CASE chosen # modal.tags
    <3>1. todo = calls
      BY <2>2
    <3> HIDE DEF todo
    <3>2. \A i \in DOMAIN calls : Fits(calls[i], want)
      BY <1>12, <1>13 DEF Fits, Looks, Touches, Value
    <3>3. ASSUME NEW w \in want
          PROVE  \/ file[w.name][w.tag] = w.value
                 \/ \E i \in DOMAIN calls : Touches(calls[i], w)
      <4>1. CASE w.tag \in chosen
        BY <1>11, <1>13, <1>14, <4>1 DEF Touches
      <4>2. CASE w.tag \notin chosen
        BY <1>11, <1>12, <4>2
      <4> QED
        BY <4>1, <4>2
    <3>4. Sure(calls, want, file)
      BY <3>2, <3>3 DEF Sure
    <3> QED
      BY <3>1, <3>4 DEF LeadTo
  <2> QED
    BY <2>1, <2>2
<1> HIDE DEF todo, clean
<1>16. \E j \in Job : Starts(s, j)
  BY <1>4, <1>10, <1>11, <1>15, StartMakes
<1> QED
  BY <1>5, <1>16, HandlerStarts

(* The deletion of the selection, from a list that is right.               *)
LEMMA ConfirmDeleteStep ==
    ASSUME IInv, NEW s \in Slots, ConfirmDelete(s)
    PROVE  IInv'
<1> DEFINE names == SetToSeq(selected)
           todo == [i \in DOMAIN names |-> DeleteCall(names[i])]
           want == UNION {Want(n, NoRows) : n \in selected}
           clean == ~spoiled /\ asked = 0 /\ lists = <<>>
<1>1. Start(s, "selected", todo, want, clean) /\ clean \in BOOLEAN
  BY DEF ConfirmDelete
<1>2. /\ UNCHANGED <<serverVars, listVars, form, opening, inbounds, spoiled>>
      /\ modal' = Closed
  BY DEF ConfirmDelete
<1>3. selected \subseteq Names /\ IsFiniteSet(selected)
  BY FiniteAssumption, FS_Subset DEF IInv, Types, ListType
<1>4. /\ names \in Seq(selected)
      /\ \A n \in selected : \E i \in DOMAIN names : names[i] = n
  BY <1>3, OrderOfSet DEF InOrder
<1>5. /\ DOMAIN names = 1..Len(names) /\ Len(names) \in Nat
      /\ \A i \in DOMAIN names : names[i] \in selected
  BY <1>4, LenProperties, ElementOfSeq
<1> HIDE DEF names
<1>6. \A i \in 1..Len(names) :
         /\ todo[i] \in Call /\ ~Looks(todo[i]) /\ todo[i].op = "delete"
         /\ todo[i].name = names[i]
  BY <1>3, <1>5, DeleteCallType
<1>7. todo \in Seq(Call) /\ DOMAIN todo = 1..Len(names)
  BY <1>5, <1>6, IsASeq
<1> HIDE DEF todo
<1>8. \A w \in want : w \in Wish /\ w.name \in selected /\ w.value = Absent
  BY <1>3, WantTypes, NoRowsType
<1> HIDE DEF want
<1>9. LeadTo(todo, want)
  <2>1. \A i \in DOMAIN todo : Fits(todo[i], want)
    BY <1>6, <1>7, <1>8 DEF Fits, Touches, Value
  <2>2. \A w \in want : \E i \in DOMAIN todo : Touches(todo[i], w)
    BY <1>4, <1>5, <1>6, <1>7, <1>8 DEF Touches
  <2> QED
    BY <2>1, <2>2 DEF LeadTo, Sure
<1>10. ASSUME clean, \A o \in Slots : ~Running(o), NEW n \in selected
       PROVE  Cardinality(TagsOf(file[n])) <= 1
  <2>1. users = Listing /\ n \in Names
    BY <1>3, <1>10 DEF IInv, LastIsRight
  <2>2. IsFiniteSet(TagsOf(file[n]))
    BY FiniteAssumption, FS_Subset DEF TagsOf
  <2>3. Cardinality(TagsOf(file[n])) \in Nat
    BY <2>2, FS_CardinalityType
  <2>4. CASE TagsOf(file[n]) = {}
    BY <2>4, FS_EmptySet
  <2>5. CASE users[n] = TagsOf(file[n])
    BY <2>3, <2>5 DEF ConfirmDelete, SeveralInbounds
  <2> QED
    BY <2>1, <2>4, <2>5 DEF Listing
<1> HIDE DEF clean
<1>11. \A i \in DOMAIN todo :
         /\ todo[i].op = "delete"
         /\ clean /\ (\A o \in Slots : ~Running(o))
              => Cardinality(TagsOf(file[todo[i].name])) <= 1
  BY <1>5, <1>6, <1>7, <1>10
<1>12. \E j \in Job : Starts(s, j)
  BY <1>1, <1>7, <1>8, <1>9, <1>11, StartMakes
<1> QED
  BY <1>2, <1>12, HandlerStarts

-----------------------------------------------------------------------------
(* A handler goes on.                                                      *)

LEMMA JobFields ==
    ASSUME NEW j \in Job
    PROVE  /\ [j EXCEPT !.clean = FALSE] \in Job
           /\ \A todo \in Seq(Call) : [j EXCEPT !.todo = todo] \in Job
           /\ \A todo \in Seq(Call) : [j EXCEPT !.failed = TRUE, !.todo = todo] \in Job
  BY DEF Job

LEMMA RunningJob ==
    ASSUME JobType, NEW s \in Slots
    PROVE  Running(s) <=> job[s] \in Job
  BY DEF JobType, Running, Idle, Job

LEMMA LoadedIsLost ==
    ASSUME FormType, ServerType, ServerType',
           form' = [form EXCEPT !.loaded = FALSE], UNCHANGED <<modal, opening, inbounds>>
    PROVE  FormType' /\ FormShowsUser'
<1>1. /\ form' \in Form /\ form'.editing = form.editing /\ form'.orig = form.orig
      /\ form'.name = form.name /\ form'.rows = form.rows /\ ~form'.loaded
  BY DEF FormType, Form
<1> QED
  BY <1>1 DEF FormType, FormShowsUser, TagsOf

LEMMA ServeStep ==
    ASSUME IInv, NEW s \in Slots, Serve(s)
    PROVE  IInv'
<1> DEFINE c == Head(job[s].todo)
<1>1. /\ ServerType /\ ListType /\ FormType /\ JobType
      /\ job[s] \in Job /\ job[s].todo # <<>>
  BY RunningJob DEF IInv, Types, Serve
<1>2. /\ c \in Call /\ Tail(job[s].todo) \in Seq(Call)
      /\ 1 \in DOMAIN job[s].todo /\ job[s].todo[1] = c
      /\ \A i \in DOMAIN Tail(job[s].todo) :
            i + 1 \in DOMAIN job[s].todo /\ Tail(job[s].todo)[i] = job[s].todo[i + 1]
  BY <1>1, TailParts DEF Job
<1>3. file' = FileAfter(c) /\ meta' = MetaAfter(c) /\ off' = OffAfter(c)
  BY DEF Serve
<1> HIDE DEF c
<1>4. ServerType'
  BY <1>1, <1>2, <1>3, CallTypes DEF ServerType
<1>5. FormType' /\ FormShowsUser'
  BY <1>1, <1>4, LoadedIsLost DEF Serve
<1>6. /\ job' \in [Slots -> {Idle} \cup Job]
      /\ job'[s] = [job[s] EXCEPT !.todo = Tail(job[s].todo)]
      /\ \A o \in Slots : o # s /\ job[o].kind # "idle" =>
            job'[o] = [job[o] EXCEPT !.clean = FALSE] /\ job'[o] \in Job
      /\ \A o \in Slots : o # s /\ job[o].kind = "idle" => job'[o] = job[o]
  <2>1. Disturbed(s) \in [Slots -> {Idle} \cup Job] /\ Disturbed(s)[s] = job[s]
    BY <1>1, JobFields, RunningJob DEF JobType, Disturbed
  <2>2. job' = [Disturbed(s) EXCEPT ![s] = [job[s] EXCEPT !.todo = Tail(job[s].todo)]]
    BY <2>1 DEF Serve
  <2>3. [job[s] EXCEPT !.todo = Tail(job[s].todo)] \in Job
    BY <1>1, <1>2, JobFields
  <2>4. job' \in [Slots -> {Idle} \cup Job]
    BY <2>1, <2>2, <2>3
  <2>5. \A o \in Slots : o # s => job'[o] = Disturbed(s)[o]
    BY <2>1, <2>2
  <2>6. ASSUME NEW o \in Slots, o # s, job[o].kind # "idle"
        PROVE  job'[o] = [job[o] EXCEPT !.clean = FALSE] /\ job'[o] \in Job
    <3>1. job[o] \in Job
      BY <1>1, <2>6, RunningJob DEF Running
    <3> QED
      BY <2>5, <2>6, <3>1, JobFields DEF Disturbed, Running
  <2>7. job'[s] = [job[s] EXCEPT !.todo = Tail(job[s].todo)]
    BY <2>1, <2>2
  <2>8. \A o \in Slots : o # s /\ job[o].kind = "idle" => job'[o] = job[o]
    BY <2>5 DEF Disturbed, Running
  <2> QED
    BY <2>4, <2>6, <2>7, <2>8
<1>7. /\ job'[s].kind = job[s].kind /\ job'[s].kind # "idle" /\ job'[s].todo = Tail(job[s].todo)
      /\ job'[s].want = job[s].want /\ job'[s].failed = job[s].failed
      /\ job'[s].clean = job[s].clean
  BY <1>1, <1>6 DEF Job
<1>8. ASSUME NEW o \in Slots, o # s, job'[o].kind # "idle"
      PROVE  /\ job[o].kind # "idle" /\ job'[o].kind = job[o].kind
             /\ job'[o].todo = job[o].todo /\ job'[o].failed = job[o].failed
             /\ ~job'[o].clean
  <2>1. job[o].kind # "idle"
    BY <1>6, <1>8
  <2>2. job[o] \in Job /\ job'[o] = [job[o] EXCEPT !.clean = FALSE]
    BY <1>1, <1>6, <1>8, <2>1, RunningJob DEF Running
  <2> QED
    BY <2>1, <2>2 DEF Job
<1>9. JobType' /\ ListType' /\ spoiled' \in BOOLEAN
  BY <1>6 DEF Serve, JobType, ListType, listVars, IInv, Types
<1>10. JobsOnTrack'
  <2>1. ASSUME ~job[s].failed, job[s].clean
        PROVE  Sure(Tail(job[s].todo), job[s].want, FileAfter(c))
    BY <1>1, <2>1, CallKeepsTrack DEF IInv, JobsOnTrack, Running, Serve, c
  <2>2. ASSUME ~job[s].failed, job[s].clean
        PROVE  OnTrack(job[s])'
    BY <1>3, <1>7, <2>1, <2>2 DEF OnTrack, LeadTo
  <2> SUFFICES ASSUME NEW o \in Slots, Running(o)', ~job'[o].failed, job'[o].clean
               PROVE  OnTrack(job[o])'
    BY DEF JobsOnTrack
  <2>3. o = s
    BY <1>8 DEF Running
  <2> QED
    BY <1>7, <2>2, <2>3
<1>11. FailuresShow'
  <2> SUFFICES ASSUME NEW o \in Slots, job'[o].kind # "idle", job'[o].failed
               PROVE  spoiled'
    BY DEF FailuresShow, Running
  <2>1. job[o].kind # "idle" /\ job[o].failed
    BY <1>7, <1>8
  <2> QED
    BY <2>1 DEF IInv, FailuresShow, Running, Serve
<1>12. LastIsRight'
  BY <1>7 DEF LastIsRight, Running
<1>13. SmallUsers'
  <2> SUFFICES ASSUME NEW o \in Slots, job'[o].kind = "selected", NEW i \in DOMAIN job'[o].todo
               PROVE  /\ job'[o].todo[i].op = "delete"
                      /\ job'[o].clean => Cardinality(TagsOf(file'[job'[o].todo[i].name])) <= 1
    BY DEF SmallUsers, Running, TagsOf
  <2>1. CASE o # s
    BY <1>8, <2>1 DEF IInv, SmallUsers, Running
  <2>2. CASE o = s
    <3>1. job[s].kind = "selected" /\ Running(s) /\ i \in DOMAIN Tail(job[s].todo)
      BY <1>7, <2>2 DEF Running
    <3>2. /\ i + 1 \in DOMAIN job[s].todo /\ job'[s].todo[i] = job[s].todo[i + 1]
      BY <1>2, <1>7, <3>1
    <3> DEFINE d == job[s].todo[i + 1]
    <3>3. /\ d.op = "delete" /\ c.op = "delete"
          /\ job[s].clean => Cardinality(TagsOf(file[d.name])) <= 1
      BY <1>2, <3>1, <3>2 DEF IInv, SmallUsers
    <3>4. d \in Call /\ d.name \in Names /\ c.name \in Names
      <4>1. job[s].todo \in Seq(Call) /\ DOMAIN job[s].todo = 1..Len(job[s].todo)
        BY <1>1, LenProperties DEF Job
      <4>2. d \in Call
        BY <3>2, <4>1, ElementOfSeq
      <4> QED
        BY <1>2, <4>2 DEF Call
    <3> HIDE DEF d
    <3>5. TagsOf(file'[d.name]) = {} \/ TagsOf(file'[d.name]) = TagsOf(file[d.name])
      BY <1>1, <1>3, <3>3, <3>4, NoRowsType DEF FileAfter, TagsOf, ServerType
    <3>6. job[s].clean => Cardinality(TagsOf(file'[d.name])) <= 1
      BY <3>3, <3>5, FS_EmptySet
    <3> QED
      BY <1>7, <2>2, <3>2, <3>3, <3>6 DEF d
  <2> QED
    BY <2>1, <2>2
<1> QED
  BY <1>4, <1>5, <1>9, <1>10, <1>11, <1>12, <1>13 DEF IInv, Types

LEMMA FailStep ==
    ASSUME IInv, NEW s \in Slots, Fail(s)
    PROVE  IInv'
<1> USE DEF serverVars, listVars, formVars
<1>1. /\ JobType /\ job[s] \in Job /\ job[s].todo # <<>> /\ job[s].todo \in Seq(Call)
  BY RunningJob DEF IInv, Types, Fail, Job
<1> DEFINE rest == IF job[s].kind = "selected" THEN Tail(job[s].todo) ELSE <<>>
           j == [job[s] EXCEPT !.failed = TRUE, !.todo = rest]
<1>2. job' = [job EXCEPT ![s] = j]
  BY <1>1 DEF Fail, AfterFailure, JobType
<1>3. rest \in Seq(Call)
  BY <1>1, TailParts, EmptySeq
<1>4. j \in Job /\ j.kind = job[s].kind /\ j.failed /\ j.todo = rest /\ j.clean = job[s].clean
  BY <1>1, <1>3, JobFields DEF Job
<1>5. job'[s] = j /\ \A o \in Slots : o # s => job'[o] = job[o]
  BY <1>1, <1>2 DEF JobType
<1> HIDE DEF j
<1>6. JobType'
  BY <1>1, <1>2, <1>4 DEF JobType
<1>7. ServerType' /\ ListType' /\ FormType' /\ FormShowsUser' /\ spoiled'
  BY DEF IInv, Types, ServerType, ListType, FormType, TagsOf, FormShowsUser, Fail
<1>8. JobsOnTrack'
  <2> SUFFICES ASSUME NEW o \in Slots, Running(o)', ~job'[o].failed, job'[o].clean
               PROVE  OnTrack(job[o])'
    BY DEF JobsOnTrack
  <2>1. job'[o] = job[o]
    BY <1>4, <1>5
  <2> QED
    BY <2>1, TrackSame DEF IInv, JobsOnTrack, OnTrack, Running, Fail
<1>9. FailuresShow' /\ LastIsRight'
  BY <1>7 DEF FailuresShow, LastIsRight
<1>10. SmallUsers'
  <2> SUFFICES ASSUME NEW o \in Slots, job'[o].kind = "selected", NEW i \in DOMAIN job'[o].todo
               PROVE  /\ job'[o].todo[i].op = "delete"
                      /\ job'[o].clean => Cardinality(TagsOf(file[job'[o].todo[i].name])) <= 1
    BY DEF SmallUsers, Running, TagsOf, Fail
  <2>1. CASE o # s
    BY <1>5, <2>1 DEF IInv, SmallUsers, Running
  <2>2. CASE o = s
    <3>1. job[s].kind = "selected" /\ i \in DOMAIN Tail(job[s].todo)
      BY <1>4, <1>5, <2>2
    <3>2. i + 1 \in DOMAIN job[s].todo /\ job'[s].todo[i] = job[s].todo[i + 1]
      <4>1. \A k \in DOMAIN Tail(job[s].todo) :
               k + 1 \in DOMAIN job[s].todo /\ Tail(job[s].todo)[k] = job[s].todo[k + 1]
        BY <1>1, TailParts
      <4> QED
        BY <1>4, <1>5, <2>2, <3>1, <4>1
    <3> QED
      BY <1>4, <1>5, <2>2, <3>1, <3>2 DEF IInv, SmallUsers, Running
  <2> QED
    BY <2>1, <2>2
<1> QED
  BY <1>6, <1>7, <1>8, <1>9, <1>10 DEF IInv, Types

LEMMA FinishStep ==
    ASSUME IInv, NEW s \in Slots, Finish(s)
    PROVE  IInv'
<1> USE DEF serverVars
<1>1. /\ ServerType /\ ListType /\ FormType /\ JobType /\ job[s] \in Job
  BY RunningJob DEF IInv, Types, Finish
<1>2. job'[s] = Idle /\ \A o \in Slots : o # s => job'[o] = job[o]
  BY <1>1 DEF Finish, JobType
<1>3. JobType' /\ ServerType'
  BY <1>1 DEF Finish, JobType, ServerType
<1>4. \A o \in Slots : job'[o].kind # "idle" => o # s /\ job'[o] = job[o]
  BY <1>2 DEF Idle
<1>5. FormType' /\ FormShowsUser'
  <2>1. /\ modal' \in Modals /\ (modal'.type = "form" => modal' = modal)
    BY <1>1 DEF Finish, FormType, Modals, Closed
  <2>2. CASE form' = form
    BY <1>1, <2>1, <2>2 DEF Finish, FormType, FormShowsUser, TagsOf, IInv
  <2>3. CASE form' = BlankForm /\ modal' = Closed
    <3>1. form' \in Form /\ ~form'.editing /\ ~form'.loaded
      BY <2>3, NoRowsType DEF BlankForm, Form
    <3> QED
      BY <1>1, <2>1, <2>3, <3>1 DEF Finish, FormType, FormShowsUser, Closed
  <2> QED
    BY <2>2, <2>3 DEF Finish
<1>6. ListType' /\ spoiled' \in BOOLEAN
  <2>1. asked' = asked \/ (asked' = asked + 1 /\ asked + Len(lists) < MaxLists)
    BY DEF Finish, Fetch
  <2>2. asked \in Nat /\ Len(lists) \in Nat /\ asked + Len(lists) <= MaxLists /\ lists' = lists
    BY <1>1, LenProperties DEF ListType, Finish
  <2>3. asked' \in Nat /\ asked' + Len(lists') <= MaxLists
    BY <2>1, <2>2, BoundAssumption
  <2>4. selected' \subseteq Names /\ users' = users
    BY <1>1 DEF ListType, Finish
  <2> QED
    BY <1>1, <2>2, <2>3, <2>4 DEF ListType, Finish, IInv, Types
<1>7. JobsOnTrack'
  BY <1>4, TrackSame DEF IInv, JobsOnTrack, OnTrack, Running, Finish
<1>8. FailuresShow'
  BY <1>4 DEF IInv, FailuresShow, Running, Finish
<1>9. SmallUsers'
  <2> SUFFICES ASSUME NEW o \in Slots, job'[o].kind = "selected", NEW i \in DOMAIN job'[o].todo
               PROVE  /\ job'[o].todo[i].op = "delete"
                      /\ job'[o].clean => Cardinality(TagsOf(file[job'[o].todo[i].name])) <= 1
    BY DEF SmallUsers, Running, TagsOf, Finish
  <2> QED
    BY <1>4 DEF IInv, SmallUsers, Running
<1>10. LastIsRight'
  <2>1. CASE job[s].failed
    BY <2>1 DEF IInv, FailuresShow, LastIsRight, Finish
  <2>2. CASE ~job[s].failed
    BY <1>1, <2>2 DEF Finish, Fetch, ListType, LastIsRight
  <2> QED
    BY <2>1, <2>2
<1> QED
  BY <1>3, <1>5, <1>6, <1>7, <1>8, <1>9, <1>10 DEF IInv, Types

LEMMA OtherStep ==
    ASSUME IInv, NEW n \in Names, NEW t \in Tags, NEW v \in Flows \cup {Absent}, Other(n, t, v)
    PROVE  IInv'
<1>1. /\ ServerType /\ ListType /\ FormType /\ JobType
  BY DEF IInv, Types
<1>2. ServerType'
  BY <1>1 DEF Other, ServerType, Rows
<1>3. FormType' /\ FormShowsUser'
  BY <1>1, <1>2, LoadedIsLost DEF Other
<1>4. ASSUME NEW o \in Slots
      PROVE  /\ job'[o] \in {Idle} \cup Job /\ job'[o].kind = job[o].kind
             /\ job[o].kind # "idle" =>
                  job'[o].todo = job[o].todo /\ ~job'[o].clean
  <2>1. CASE Running(o)
    <3>1. job[o] \in Job /\ job'[o] = [job[o] EXCEPT !.clean = FALSE]
      BY <1>1, <2>1, RunningJob DEF Other
    <3>2. [job[o] EXCEPT !.clean = FALSE] \in Job
      BY <3>1, JobFields
    <3>3. /\ job'[o].kind = job[o].kind /\ job'[o].todo = job[o].todo
          /\ ~job'[o].clean
      BY <3>1 DEF Job
    <3> QED
      BY <3>1, <3>2, <3>3
  <2>2. CASE ~Running(o)
    BY <1>1, <2>2 DEF Other, JobType, Running
  <2> QED
    BY <2>1, <2>2
<1>5. JobType' /\ ListType' /\ spoiled'
  <2>1. DOMAIN job' = Slots /\ job' = [o \in Slots |-> job'[o]]
    BY DEF Other
  <2> QED
    BY <1>1, <1>4, <2>1 DEF Other, JobType, ListType, listVars
<1>6. JobsOnTrack'
  BY <1>4 DEF JobsOnTrack, Running
<1>7. FailuresShow' /\ LastIsRight'
  BY <1>5 DEF FailuresShow, LastIsRight
<1>8. SmallUsers'
  BY <1>4 DEF IInv, SmallUsers, Running
<1> QED
  BY <1>2, <1>3, <1>5, <1>6, <1>7, <1>8 DEF IInv, Types

-----------------------------------------------------------------------------
(* The list and the form.                                                  *)

LEMMA ListStep ==
    ASSUME IInv,
           \/ ServeList \/ LoseList \/ SelectAll(TRUE) \/ SelectAll(FALSE)
           \/ \E i \in DOMAIN lists : LandList(i)
           \/ \E n \in Names : SelectUser(n)
    PROVE  IInv'
<1> USE DEF serverVars, formVars, countVars
<1>1. Types'
  BY ListSteps DEF IInv
<1>2. /\ UNCHANGED <<file, meta, off, job, form>> /\ (spoiled => spoiled')
  <2>1. ASSUME ServeList
        PROVE  UNCHANGED <<file, meta, off, job, form>> /\ (spoiled => spoiled')
    BY <2>1 DEF ServeList
  <2>2. ASSUME LoseList
        PROVE  UNCHANGED <<file, meta, off, job, form>> /\ (spoiled => spoiled')
    BY <2>2 DEF LoseList
  <2>3. ASSUME SelectAll(TRUE) \/ SelectAll(FALSE) \/ \E n \in Names : SelectUser(n)
        PROVE  UNCHANGED <<file, meta, off, job, form>> /\ (spoiled => spoiled')
    BY <2>3 DEF SelectAll, SelectUser
  <2>4. ASSUME NEW i \in DOMAIN lists, LandList(i)
        PROVE  UNCHANGED <<file, meta, off, job, form>> /\ (spoiled => spoiled')
    BY <2>4 DEF LandList
  <2> QED
    BY <2>1, <2>2, <2>3, <2>4
<1>3. JobsOnTrack' /\ FailuresShow' /\ SmallUsers' /\ FormShowsUser'
  BY <1>2, HandlersRest DEF IInv, FormShowsUser
<1>4. Listing' = Listing /\ ListingAnswer' = ListingAnswer
  BY <1>2, ListingSame
<1>5. /\ asked \in Nat /\ lists \in Seq(Answer)
      /\ Len(lists) \in Nat /\ DOMAIN lists = 1..Len(lists)
  BY LenProperties DEF IInv, Types, ListType
<1>6. LastIsRight'
  <2> SUFFICES ASSUME ~spoiled', asked' = 0, \A s \in Slots : ~Running(s)
               PROVE  IF lists' = <<>> THEN users' = Listing /\ disabled' = off
                      ELSE lists'[Len(lists')] = ListingAnswer
    BY <1>2, <1>4 DEF LastIsRight, Running
  <2>1. CASE ServeList
    <3>1. ListingAnswer \in Answer
      BY ListingType DEF IInv, Types
    <3> QED
      BY <1>5, <2>1, <3>1, AppendProperties DEF ServeList, ListingAnswer
  <2>2. CASE LoseList
    BY <2>2 DEF LoseList
  <2>3. CASE SelectAll(TRUE) \/ SelectAll(FALSE) \/ \E n \in Names : SelectUser(n)
    BY <2>3 DEF SelectAll, SelectUser, IInv, LastIsRight
  <2>4. ASSUME NEW i \in DOMAIN lists, LandList(i)
        PROVE  IF lists' = <<>> THEN users' = Listing /\ disabled' = off
               ELSE lists'[Len(lists')] = ListingAnswer
    <3>1. i = 1 /\ asked = 0 /\ ~spoiled
      <4>1. ~spoiled /\ ~(i > 1) /\ asked' = asked
        BY <2>4 DEF LandList
      <4> QED
        BY <1>5, <2>4, <4>1
    <3>2. lists[Len(lists)] = ListingAnswer /\ Len(lists) >= 1
      BY <1>5, <2>4, <3>1 DEF IInv, LastIsRight
    <3>3. /\ users' = lists[1].users /\ disabled' = lists[1].disabled
          /\ lists' = RemoveAt(lists, 1)
      BY <2>4, <3>1 DEF LandList
    <3>4. /\ RemoveAt(lists, 1) \in Seq(Answer) /\ Len(RemoveAt(lists, 1)) = Len(lists) - 1
          /\ \A k \in 1..(Len(lists) - 1) : RemoveAt(lists, 1)[k] = lists[k + 1]
      <4> DEFINE a == SubSeq(lists, 1, 0)
                 b == SubSeq(lists, 2, Len(lists))
      <4>1. a = <<>> /\ a \in Seq(Answer)
        BY <1>5, SubSeqProperties
      <4>2. /\ b \in Seq(Answer) /\ Len(b) = Len(lists) - 1
            /\ \A k \in 1..(Len(lists) - 1) : b[k] = lists[k + 1]
        BY <1>5, <3>2, SubSeqProperties
      <4>3. RemoveAt(lists, 1) = a \o b
        BY DEF RemoveAt
      <4> HIDE DEF a, b
      <4>4. a \o b = b
        BY <4>1, <4>2, ConcatEmptySeq
      <4> QED
        BY <4>2, <4>3, <4>4
    <3>5. CASE Len(lists) = 1
      BY <3>2, <3>3, <3>4, <3>5, EmptySeq DEF ListingAnswer
    <3>6. CASE Len(lists) > 1
      <4>1. lists'[Len(lists) - 1] = lists[Len(lists)] /\ Len(lists') = Len(lists) - 1
        <5>1. Len(lists) - 1 \in 1..(Len(lists) - 1) /\ (Len(lists) - 1) + 1 = Len(lists)
          BY <1>5, <3>6
        <5> QED
          BY <3>3, <3>4, <5>1
      <4>2. lists' # <<>>
        <5>1. Len(lists') # 0
          BY <1>5, <3>6, <4>1
        <5> QED
          BY <5>1, EmptySeq
      <4> QED
        BY <3>2, <4>1, <4>2
    <3> QED
      BY <1>5, <3>2, <3>5, <3>6
  <2> QED
    BY <2>1, <2>2, <2>3, <2>4
<1> QED
  BY <1>1, <1>3, <1>6 DEF IInv

LEMMA FormStep ==
    ASSUME IInv,
           \/ \E n \in opening : ServeInbounds(n)
           \/ \E a \in inbounds : LandInbounds(a)
           \/ \E n \in Names, t \in Tags : CreateClick(n, t) \/ EditClick(n, t)
           \/ \E n \in Names, chosen \in SUBSET Tags : PickInbounds(n, chosen)
           \/ Cancel \/ EditForm \/ OpenBulk \/ OpenDelete \/ RefuseDelete
    PROVE  IInv'
<1> USE DEF serverVars, listVars
<1>1. Types'
  BY FormSteps DEF IInv
<1>2. UNCHANGED <<serverVars, listVars, job, spoiled>>
  BY DEF ServeInbounds, LandInbounds, CreateClick, EditClick, PickInbounds, Cancel, EditForm,
         OpenBulk, OpenDelete, RefuseDelete
<1>3. JobsOnTrack' /\ FailuresShow' /\ SmallUsers'
  BY <1>2, HandlersRest
<1>4. LastIsRight'
  BY <1>2, ListingSame DEF IInv, LastIsRight, Running
<1>5. FormShowsUser'
  <2>1. form \in Form
    BY DEF IInv, Types, FormType
  <2>2. ASSUME NEW a \in inbounds, LandInbounds(a)
        PROVE  FormShowsUser'
    <3> SUFFICES ASSUME form'.loaded
                 PROVE  /\ form'.name = form'.orig /\ form'.orig \in Names
                        /\ form'.rows = file[form'.orig]
      BY <1>2 DEF FormShowsUser
    <3>1. /\ form'.rows = MergedRows(form.rows, a.rows) /\ form'.orig = form.orig
          /\ form.orig = a.name /\ form.name = a.name /\ form'.name = form.name
          /\ a.rows = file[a.name]
          /\ TagsOf(form.rows) = TagsOf(a.rows)
      BY <2>1, <2>2 DEF LandInbounds, Form
    <3>2. a.name \in Names /\ a.rows \in Rows /\ form.rows \in Rows
      BY <2>1 DEF IInv, Types, FormType, Form
    <3>3. \A t \in Tags : MergedRows(form.rows, a.rows)[t] = a.rows[t]
      BY <3>1, <3>2 DEF MergedRows, TagsOf
    <3>4. MergedRows(form.rows, a.rows) = a.rows
      BY <3>2, <3>3 DEF MergedRows, Rows
    <3> QED
      BY <3>1, <3>2, <3>4
  <2>3. ASSUME \/ \E n \in Names, t \in Tags : CreateClick(n, t) \/ EditClick(n, t)
               \/ EditForm
        PROVE  ~form'.loaded
    <3>1. ASSUME NEW n \in Names, NEW t \in Tags, CreateClick(n, t)
          PROVE  ~form'.loaded
      BY <3>1 DEF CreateClick, BlankForm
    <3>2. ASSUME NEW n \in Names, NEW t \in Tags, EditClick(n, t)
          PROVE  ~form'.loaded
      BY <3>2 DEF EditClick
    <3>3. ASSUME EditForm
          PROVE  ~form'.loaded
      BY <2>1, <3>3 DEF EditForm, Form
    <3> QED
      BY <2>3, <3>1, <3>2, <3>3
  <2>4. ASSUME \/ \E n \in opening : ServeInbounds(n)
               \/ \E n \in Names, chosen \in SUBSET Tags : PickInbounds(n, chosen)
               \/ Cancel \/ OpenBulk \/ OpenDelete \/ RefuseDelete
        PROVE  form' = form
    BY <2>4 DEF ServeInbounds, PickInbounds, Cancel, OpenBulk, OpenDelete, RefuseDelete
  <2> QED
    BY <1>2, <2>2, <2>3, <2>4 DEF IInv, FormShowsUser
<1> QED
  BY <1>1, <1>3, <1>4, <1>5 DEF IInv

-----------------------------------------------------------------------------
(* The invariant.                                                          *)

LEMMA InitInvariant == Init => IInv
<1> SUFFICES ASSUME Init
             PROVE  IInv
  OBVIOUS
<1>1. Types
  BY InitTypes
<1>2. \A s \in Slots : ~Running(s)
  BY DEF Init, Running, Idle
<1>3. asked = 1 /\ ~form.loaded
  BY DEF Init, BlankForm
<1>4. JobsOnTrack /\ FailuresShow
  BY <1>2 DEF JobsOnTrack, FailuresShow
<1>5. SmallUsers
  BY <1>2 DEF SmallUsers
<1> QED
  BY <1>1, <1>3, <1>4, <1>5 DEF IInv, LastIsRight, FormShowsUser

LEMMA StutterInvariant ==
    ASSUME IInv, UNCHANGED vars
    PROVE  IInv'
<1> USE DEF vars, serverVars, listVars, formVars, countVars
<1>1. Types'
  BY DEF IInv, Types, ServerType, ListType, FormType, JobType, TagsOf
<1>2. JobsOnTrack' /\ FailuresShow' /\ SmallUsers'
  BY HandlersRest
<1>3. LastIsRight' /\ FormShowsUser'
  BY ListingSame DEF IInv, LastIsRight, FormShowsUser, Running
<1> QED
  BY <1>1, <1>2, <1>3 DEF IInv

LEMMA NextInvariant == IInv /\ [Next]_vars => IInv'
<1> SUFFICES ASSUME IInv, [Next]_vars
             PROVE  IInv'
  OBVIOUS
<1>1. ASSUME Answers \/ LoseList \/ Clicks
      PROVE  IInv'
  <2>1. ASSUME \/ ServeList \/ LoseList \/ \E checked \in BOOLEAN : SelectAll(checked)
               \/ \E i \in DOMAIN lists : LandList(i)
               \/ \E n \in Names : SelectUser(n)
        PROVE  IInv'
    BY <2>1, ListStep
  <2>2. ASSUME \/ \E n \in opening : ServeInbounds(n)
               \/ \E a \in inbounds : LandInbounds(a)
               \/ \E n \in Names, t \in Tags : CreateClick(n, t) \/ EditClick(n, t)
               \/ \E n \in Names, chosen \in SUBSET Tags : PickInbounds(n, chosen)
               \/ Cancel \/ EditForm \/ OpenBulk \/ OpenDelete \/ RefuseDelete
        PROVE  IInv'
    BY <2>2, FormStep
  <2> QED
    BY <1>1, <2>1, <2>2 DEF Answers, Clicks
<1>2. ASSUME NEW s \in Slots, Handler(s)
      PROVE  IInv'
  BY <1>2, SaveEditStep, SaveNewStep, BulkCreateStep, DeleteRowStep, RemoveFromInboundsStep,
     ConfirmDeleteStep, ServeStep, FailStep, FinishStep DEF Handler
<1>3. ASSUME NEW n \in Names, NEW t \in Tags, NEW v \in Flows \cup {Absent}, Other(n, t, v)
      PROVE  IInv'
  BY <1>3, OtherStep
<1>4. ASSUME UNCHANGED vars
      PROVE  IInv'
  BY <1>4, StutterInvariant
<1> QED
  BY <1>1, <1>2, <1>3, <1>4 DEF Next

(* Every handler is on its way, in every state.                            *)
THEOREM Invariance == Spec => []IInv
<1>1. Init => IInv
  BY InitInvariant
<1>2. IInv /\ [Next]_vars => IInv'
  BY NextInvariant
<1> QED
  BY <1>1, <1>2, PTL DEF Spec

-----------------------------------------------------------------------------
(* What it says.                                                           *)

(* Every entry of the file is a flow or none, the list and the selection   *)
(* name users, and no more lists are on their way than can be.             *)
THEOREM TypeCorrect == Spec => []TypeOK
<1>1. IInv => TypeOK
  <2> SUFFICES ASSUME IInv
               PROVE  TypeOK
    OBVIOUS
  <2>1. ServerType /\ ListType /\ FormType /\ JobType
    BY DEF IInv, Types
  <2>2. \A n \in Names : users[n] = Unlisted \/ users[n] \subseteq Tags
    BY <2>1 DEF ListType, Lists
  <2>3. form.rows \in Rows /\ form.tags \subseteq Tags
    BY <2>1 DEF FormType, Form
  <2>4. ASSUME NEW s \in Slots, NEW i \in 1..4, Running(s), i \in DOMAIN job[s].todo
        PROVE  job[s].todo[i] \in Call
    <3>1. job[s].todo \in Seq(Call)
      BY <2>1, <2>4, RunningJob DEF Job
    <3> QED
      BY <2>4, <3>1, LenProperties, ElementOfSeq
  <2> QED
    BY <2>1, <2>2, <2>3, <2>4 DEF TypeOK, ServerType, ListType, FormType
<1> QED
  BY <1>1, Invariance, PTL

(* A handler that succeeded, alone and from a page that showed its user as *)
(* it was, has left in the file exactly what was asked, after whatever     *)
(* updateUser did to the flows (JobIsExact).                               *)
THEOREM JobsAreExact == Spec => []JobIsExact
<1>1. IInv => JobIsExact
  <2> SUFFICES ASSUME IInv, NEW s \in Slots, Running(s), job[s].todo = <<>>,
                      ~job[s].failed, job[s].clean, NEW w \in job[s].want
               PROVE  file[w.name][w.tag] = w.value
    BY DEF JobIsExact
  <2>1. Sure(<<>>, job[s].want, file)
    BY DEF IInv, JobsOnTrack, OnTrack, LeadTo
  <2> QED
    BY <2>1 DEF Sure
<1> QED
  BY <1>1, Invariance, PTL

(* A save of a form that is enabled, has its user's entries and has not    *)
(* been edited since asks for what is in the file (SaveKeepsEntries).      *)
THEOREM SavesKeepEntries == Spec => []SaveKeepsEntries
<1>1. IInv => SaveKeepsEntries
  <2> SUFFICES ASSUME IInv, form.loaded, form.enabled, NEW w \in SaveWant(form)
               PROVE  file[w.name][w.tag] = w.value
    BY DEF SaveKeepsEntries
  <2>1. /\ form.name = form.orig /\ form.orig \in Names
        /\ form.rows = file[form.orig] /\ form.rows \in Rows
    BY DEF IInv, FormShowsUser, Types, FormType, Form
  <2>2. w.name = form.orig /\ w.value = form.rows[w.tag]
    BY <2>1, WantTypes DEF SaveWant
  <2> QED
    BY <2>1, <2>2
<1> QED
  BY <1>1, Invariance, PTL

(* Once handlers and answers are in, the list is that of the server,       *)
(* unless something went wrong on the way (ListIsRight).                   *)
THEOREM ListsAreRight == Spec => []ListIsRight
<1>1. IInv => ListIsRight
  BY DEF IInv, LastIsRight, ListIsRight
<1> QED
  BY <1>1, Invariance, PTL

(* The deletion of the selection takes one entry of a user at most         *)
(* (SelectionTakesOneEntry).                                               *)
THEOREM SelectionsTakeOneEntry == Spec => []SelectionTakesOneEntry
<1>1. IInv => SelectionTakesOneEntry
  <2> SUFFICES ASSUME IInv, NEW s \in Slots, Running(s), job[s].kind = "selected",
                      job[s].clean, job[s].todo # <<>>
               PROVE  Cardinality(TagsOf(file[Head(job[s].todo).name])) <= 1
    BY DEF SelectionTakesOneEntry
  <2>1. job[s].todo \in Seq(Call)
    BY RunningJob DEF IInv, Types, Job
  <2>2. 1 \in DOMAIN job[s].todo /\ job[s].todo[1] = Head(job[s].todo)
    BY <2>1, TailParts
  <2> QED
    BY <2>2 DEF IInv, SmallUsers
<1> QED
  BY <1>1, Invariance, PTL

=============================================================================
