--------------------------- MODULE ConfigPagesProofs ---------------------------
(***************************************************************************)
(* The safety of ConfigPages, for any inbounds, users, texts and contents  *)
(* of the files.                                                           *)
(*                                                                         *)
(* A view is as old as the answer that landed last, so that what is said   *)
(* of a view has to be said of everything that can still become one: of    *)
(* the answers on their way, of the form of an inbound, and of the calls   *)
(* that were made of them.  Each is of a version of the file, `at`, that   *)
(* the file has had; as long as the file has it, it is what the file holds *)
(* (Served).                                                               *)
(***************************************************************************)
EXTENDS ConfigPages, SequenceTheorems, WellFoundedInduction, NaturalsInduction, TLAPS

-----------------------------------------------------------------------------
(* The invariant.                                                          *)

RuleRows == {Row(g) : g \in Tags}

SoundInbound == {i \in Inbound : Sound(i)}

Call ==
    [op : {"read"}, on : {"singbox"},
     for : {"text", "rules", "savedRules", "list", "rawSingbox"}]
      \cup [op : {"read"}, on : {"wireguard"}, for : {"rawWireguard"}]
      \cup [op : {"read"}, on : {"singbox"}, for : {"merge"}, rows : Seq(RuleRows)]
      \cup [op : {"write"}, on : {"singbox"}, for : {"saveText", "rawSave"}, content : Config]
      \cup [op : {"write"}, on : {"wireguard"}, for : {"rawSave"}, content : WgTexts]
      \cup [op : {"write"}, on : {"singbox"}, for : {"saveRules"}, at : Nat,
            rows : Seq(RuleRows), content : Config]
      \cup [op : {"backup"}, on : Files, for : {"backup"}]
      \cup [op : {"restore"}, on : {"singbox"}, for : {"text"}]
      \cup [op : {"restore"}, on : Files, for : {"rawRestore"}]
      \cup [op : {"addInbound", "putInbound"}, on : {"singbox"}, for : {"inbound", "nobody"},
            tag : Tags, value : SoundInbound, reset : BOOLEAN, at : Nat]
      \cup [op : {"deleteInbound"}, on : {"singbox"}, for : {"inbound", "nobody"}, tag : Tags]
      \cup [op : {"cert"}, on : {"singbox"}, for : {"cert"}, tag : Tags]

Texts(f) == IF f = "singbox" THEN Config ELSE WgTexts

Answer == [call : Call, ok : BOOLEAN, got : Config \cup WgTexts \cup {Nothing}, at : Nat]

Modal ==
    [open : {FALSE}, certLoading : BOOLEAN]
      \cup [open : {TRUE}, certLoading : BOOLEAN, tag : Tags, new : BOOLEAN,
            reset : BOOLEAN, at : Nat, form : Inbound]

FileType ==
    /\ file \in [singbox : Config, wireguard : WgTexts]
    /\ backup \in [singbox : Config \cup {Nothing}, wireguard : WgTexts \cup {Nothing}]
    /\ writes \in [Files -> Nat]

CallType == calls \subseteq Call /\ answers \subseteq Answer

EditorType ==
    /\ text \in Config \cup {Nothing} /\ original \in Config \cup {Nothing} /\ textAt \in Nat
    /\ rules \in Seq(RuleRows) /\ choices \subseteq Tags
    /\ list \in [Tags -> Inbound \cup {Nothing}] \cup {Nothing} /\ listAt \in Nat
    /\ modal \in Modal

RawType ==
    /\ rawTab \in Files
    /\ raw \in [singbox : Config \cup {Blank}, wireguard : WgTexts]
    /\ rawOriginal \in [singbox : Config \cup {Blank}, wireguard : WgTexts]
    /\ rawAt \in [Files -> Nat]

(* What is of the version `at` of a file is what the file held then.       *)
Served(content, at, f) ==
    /\ at <= writes[f]
    /\ at = writes[f] => content = file[f]

AnswersAreServed ==
    \A a \in answers :
       a.ok => /\ a.got \in Texts(a.call.on)
               /\ Served(a.got, a.at, a.call.on)
               /\ a.call.op = "write" => a.got = a.call.content

ListServed(inbounds, at) ==
    /\ at <= writes.singbox
    /\ at = writes.singbox => inbounds = file.singbox.inbounds

UsersServed(tag, form, at) ==
    /\ at <= writes.singbox
    /\ at = writes.singbox => form.users = file.singbox.inbounds[tag].users

FormIsServed ==
    modal.open =>
      (~modal.new /\ ~modal.reset => UsersServed(modal.tag, modal.form, modal.at))

CallsAreServed ==
    \A c \in calls :
       /\ c.for = "saveRules" =>
            /\ c.at <= writes.singbox
            /\ c.at = writes.singbox => c.content = Merged(file.singbox, c.rows)
       /\ c.op = "putInbound" => (~c.reset => UsersServed(c.tag, c.value, c.at))

FilesInv == FileType /\ CallType /\ AnswersAreServed /\ CallsAreServed

EditorInv ==
    /\ EditorType
    /\ original # Nothing => Served(original, textAt, "singbox")
    /\ list # Nothing => ListServed(list, listAt)
    /\ FormIsServed

RawInv ==
    /\ RawType
    /\ \A f \in Files : rawOriginal[f] # Blank => Served(rawOriginal[f], rawAt[f], f)

(* Without a text nothing has been saved of it.                            *)
TextIsLoaded ==
    text = Nothing =>
      /\ original = Nothing
      /\ \A c \in calls : c.for # "saveText"
      /\ \A a \in answers : a.call.for # "saveText"

IInv == FilesInv /\ EditorInv /\ RawInv /\ TextIsLoaded

-----------------------------------------------------------------------------
(* Numbers, sequences, and the rules that are chosen from them.            *)

(* Induction, for a set of numbers and for a set of sequences.             *)
LEMMA SetInduction ==
    ASSUME NEW T, 0 \in T, \A n \in Nat \cap T : n + 1 \in T
    PROVE  Nat \subseteq T
<1> DEFINE R == {ss \in Nat \X Nat : ss[1] < ss[2]}
<1>1. IsWellFoundedOn(R, Nat)
  BY NatLessThanWellFounded DEF OpToRel
<1>2. \A x, y \in Nat : y < x => <<y, x>> \in R
  OBVIOUS
<1> HIDE DEF R
<1> DEFINE B == Nat \ T
<1>3. SUFFICES ASSUME B # {}
               PROVE  FALSE
  OBVIOUS
<1>4. B \subseteq Nat
  OBVIOUS
<1> HIDE DEF B
<1>5. PICK x \in B : \A y \in B : ~ (<<y, x>> \in R)
  BY <1>1, <1>3, <1>4, WFMin
<1>6. x \in Nat /\ x \notin T
  BY <1>5 DEF B
<1>7. x - 1 \in Nat /\ x - 1 < x /\ (x - 1) + 1 = x
  BY <1>6
<1>8. x - 1 \in T
  BY <1>2, <1>5, <1>6, <1>7 DEF B
<1> QED
  BY <1>6, <1>7, <1>8

LEMMA AppendInduction ==
    ASSUME NEW S, NEW T, <<>> \in T, \A s \in Seq(S) \cap T, e \in S : Append(s, e) \in T
    PROVE  Seq(S) \subseteq T
<1> DEFINE N == {n \in Nat : \A s \in Seq(S) : Len(s) = n => s \in T}
<1>1. 0 \in N
  <2>1. \A s \in Seq(S) : Len(s) = 0 => s = <<>>
    BY EmptySeq
  <2> QED
    BY <2>1
<1>2. ASSUME NEW n \in Nat \cap N
      PROVE  n + 1 \in N
  <2> SUFFICES ASSUME NEW s \in Seq(S), Len(s) = n + 1
               PROVE  s \in T
    OBVIOUS
  <2> DEFINE front == SubSeq(s, 1, n)
  <2>1. /\ front \in Seq(S) /\ Len(front) = n
        /\ \A i \in 1..n : front[i] = s[i]
    BY SubSeqProperties
  <2>2. s[n + 1] \in S
    BY ElementOfSeq
  <2>3. front \in T
    BY <2>1
  <2> HIDE DEF front
  <2>4. s = Append(front, s[n + 1])
    <3>1. /\ Append(front, s[n + 1]) \in Seq(S) /\ Len(Append(front, s[n + 1])) = n + 1
          /\ \A i \in 1..n : Append(front, s[n + 1])[i] = s[i]
          /\ Append(front, s[n + 1])[n + 1] = s[n + 1]
      BY <2>1, <2>2, AppendProperties
    <3>2. \A i \in 1..(n + 1) : i \in 1..n \/ i = n + 1
      OBVIOUS
    <3>3. \A i \in 1..(n + 1) : Append(front, s[n + 1])[i] = s[i]
      BY <3>1, <3>2
    <3> QED
      BY <3>1, <3>3, SeqEqual
  <2> QED
    BY <2>1, <2>2, <2>3, <2>4
<1> HIDE DEF N
<1>3. Nat \subseteq N
  BY <1>1, <1>2, SetInduction
<1>4. ASSUME NEW s \in Seq(S)
      PROVE  s \in T
  <2>1. Len(s) \in N
    BY <1>3, LenProperties
  <2> QED
    BY <2>1 DEF N
<1> QED
  BY <1>4

(* How Chosen is computed.                                                 *)
LEMMA ChosenComputed ==
    ASSUME NEW S, NEW rs \in Seq(S), NEW b
    PROVE  \E f : /\ f[0] = <<>>
                  /\ \A i \in 1..Len(rs) :
                       f[i] = IF rs[i].simple = b THEN Append(f[i - 1], rs[i]) ELSE f[i - 1]
                  /\ Chosen(rs, b) = f[Len(rs)]
<1> DEFINE Def(f, n) ==
             f = [i \in 0..n |->
                    IF i = 0 THEN <<>>
                    ELSE IF rs[i].simple = b THEN Append(f[i - 1], rs[i]) ELSE f[i - 1]]
           T == {n \in Nat : \E f : Def(f, n)}
<1>1. 0 \in T
  <2>1. Def([i \in 0..0 |-> <<>>], 0)
    OBVIOUS
  <2> QED
    BY <2>1
<1>2. ASSUME NEW n \in Nat \cap T
      PROVE  n + 1 \in T
  <2>1. PICK g : Def(g, n)
    OBVIOUS
  <2> DEFINE last == IF rs[n + 1].simple = b THEN Append(g[n], rs[n + 1]) ELSE g[n]
             h == [i \in 0..(n + 1) |-> IF i = n + 1 THEN last ELSE g[i]]
  <2>2. \A i \in 0..n : g[i] = IF i = 0 THEN <<>>
                    ELSE IF rs[i].simple = b THEN Append(g[i - 1], rs[i]) ELSE g[i - 1]
    BY <2>1
  <2>3. \A i \in 0..n : h[i] = g[i]
    OBVIOUS
  <2>4. h[n + 1] = last
    OBVIOUS
  <2>5. \A i \in 0..(n + 1) : h[i] = IF i = 0 THEN <<>>
                    ELSE IF rs[i].simple = b THEN Append(h[i - 1], rs[i]) ELSE h[i - 1]
    <3> HIDE DEF h
    <3> TAKE i \in 0..(n + 1)
    <3>1. CASE i = n + 1
      <4>1. h[n] = g[n] /\ (n + 1) - 1 = n /\ i # 0
        BY <2>3, <3>1
      <4> QED
        BY <2>4, <3>1, <4>1
    <3>2. CASE i # n + 1
      <4>1. i \in 0..n
        BY <3>2
      <4>2. CASE i = 0
        BY <2>2, <2>3, <4>1, <4>2
      <4>3. CASE i # 0
        <5>1. i - 1 \in 0..n
          BY <4>1, <4>3
        <5> QED
          BY <2>2, <2>3, <4>1, <4>3, <5>1
      <4> QED
        BY <4>2, <4>3
    <3> QED
      BY <3>1, <3>2
  <2>6. Def(h, n + 1)
    BY <2>5
  <2> HIDE DEF h
  <2>7. n + 1 \in Nat
    OBVIOUS
  <2> QED
    BY <2>6, <2>7, Zenon
<1>3. Len(rs) \in T
  <2> HIDE DEF T
  <2>1. Nat \subseteq T
    BY <1>1, <1>2, SetInduction
  <2> QED
    BY <2>1, LenProperties
<1> DEFINE f == CHOOSE g : Def(g, Len(rs))
<1>4. Def(f, Len(rs))
  BY <1>3
<1>5. Chosen(rs, b) = f[Len(rs)]
  BY DEF Chosen
<1> HIDE DEF f
<1>6. f[0] = <<>> /\ \A i \in 1..Len(rs) :
        f[i] = IF rs[i].simple = b THEN Append(f[i - 1], rs[i]) ELSE f[i - 1]
  <2>1. \A i \in 0..Len(rs) :
          f[i] = IF i = 0 THEN <<>>
                 ELSE IF rs[i].simple = b THEN Append(f[i - 1], rs[i]) ELSE f[i - 1]
    BY <1>4
  <2>2. Len(rs) \in Nat
    BY LenProperties
  <2> QED
    BY <2>1, <2>2
<1> QED
  BY <1>5, <1>6

LEMMA ChosenEmpty ==
    ASSUME NEW b
    PROVE  Chosen(<<>>, b) = <<>>
<1> DEFINE rs == <<>>
<1>1. rs \in Seq({}) /\ Len(rs) = 0
  BY EmptySeq
<1> HIDE DEF rs
<1>2. PICK f : /\ f[0] = <<>>
               /\ \A i \in 1..Len(rs) :
                    f[i] = IF rs[i].simple = b THEN Append(f[i - 1], rs[i]) ELSE f[i - 1]
               /\ Chosen(rs, b) = f[Len(rs)]
  BY <1>1, ChosenComputed
<1> QED
  BY <1>1, <1>2 DEF rs

LEMMA ChosenAppend ==
    ASSUME NEW S, NEW rs \in Seq(S), NEW r \in S, NEW b
    PROVE  Chosen(Append(rs, r), b) = IF r.simple = b THEN Append(Chosen(rs, b), r)
                                      ELSE Chosen(rs, b)
<1> DEFINE qs == Append(rs, r)
           k == Len(rs)
<1>1. /\ qs \in Seq(S) /\ Len(qs) = k + 1 /\ k \in Nat
      /\ \A i \in 1..k : qs[i] = rs[i]
      /\ qs[k + 1] = r
  BY AppendProperties, LenProperties
<1>2. PICK f : /\ f[0] = <<>>
               /\ \A i \in 1..k :
                    f[i] = IF rs[i].simple = b THEN Append(f[i - 1], rs[i]) ELSE f[i - 1]
               /\ Chosen(rs, b) = f[k]
  BY ChosenComputed
<1>3. PICK g : /\ g[0] = <<>>
               /\ \A i \in 1..Len(qs) :
                    g[i] = IF qs[i].simple = b THEN Append(g[i - 1], qs[i]) ELSE g[i - 1]
               /\ Chosen(qs, b) = g[Len(qs)]
  BY <1>1, ChosenComputed
<1> HIDE DEF qs, k
<1> DEFINE T == {n \in Nat : n <= k => f[n] = g[n]}
<1>4. 0 \in T
  BY <1>2, <1>3
<1>5. ASSUME NEW n \in Nat \cap T
      PROVE  n + 1 \in T
  <2> SUFFICES ASSUME n + 1 <= k
               PROVE  f[n + 1] = g[n + 1]
    OBVIOUS
  <2>1. n + 1 \in 1..k /\ n + 1 \in 1..Len(qs) /\ (n + 1) - 1 = n /\ f[n] = g[n]
    BY <1>1
  <2> HIDE DEF T
  <2> QED
    BY <1>1, <1>2, <1>3, <2>1
<1> HIDE DEF T
<1>6. Nat \subseteq T
  BY <1>4, <1>5, SetInduction
<1>7. f[k] = g[k]
  BY <1>1, <1>6 DEF T
<1>8. g[k + 1] = IF r.simple = b THEN Append(g[k], r) ELSE g[k]
  <2>1. k + 1 \in 1..Len(qs) /\ (k + 1) - 1 = k
    BY <1>1
  <2> QED
    BY <1>1, <1>3, <2>1
<1> QED
  BY <1>1, <1>2, <1>3, <1>7, <1>8 DEF qs

(* What it chooses.                                                        *)
LEMMA ChosenType ==
    ASSUME NEW S, NEW b, NEW rs \in Seq(S)
    PROVE  Chosen(rs, b) \in Seq({r \in S : r.simple = b})
<1> DEFINE C == {r \in S : r.simple = b}
           T == {s \in Seq(S) : Chosen(s, b) \in Seq(C)}
<1>1. <<>> \in T
  BY ChosenEmpty, EmptySeq
<1>2. ASSUME NEW s \in Seq(S) \cap T, NEW e \in S
      PROVE  Append(s, e) \in T
  <2>1. Append(s, e) \in Seq(S)
    BY AppendProperties
  <2>2. CASE e.simple = b
    <3>1. e \in C /\ Chosen(s, b) \in Seq(C)
      BY <2>2
    <3>2. Append(Chosen(s, b), e) \in Seq(C)
      BY <3>1, AppendProperties
    <3> QED
      BY <2>1, <2>2, <3>2, ChosenAppend
  <2>3. CASE e.simple # b
    BY <2>1, <2>3, ChosenAppend
  <2> QED
    BY <2>2, <2>3
<1> HIDE DEF T
<1>3. Seq(S) \subseteq T
  BY <1>1, <1>2, AppendInduction
<1> QED
  BY <1>3 DEF T

LEMMA ChosenAll ==
    ASSUME NEW S, NEW b, \A r \in S : r.simple = b, NEW rs \in Seq(S)
    PROVE  Chosen(rs, b) = rs
<1> DEFINE T == {s \in Seq(S) : Chosen(s, b) = s}
<1>1. <<>> \in T
  BY ChosenEmpty, EmptySeq
<1>2. \A s \in Seq(S) \cap T, e \in S : Append(s, e) \in T
  BY ChosenAppend, AppendProperties
<1> HIDE DEF T
<1>3. Seq(S) \subseteq T
  BY <1>1, <1>2, AppendInduction
<1> QED
  BY <1>3 DEF T

LEMMA ChosenNone ==
    ASSUME NEW S, NEW b, \A r \in S : r.simple # b, NEW rs \in Seq(S)
    PROVE  Chosen(rs, b) = <<>>
<1> DEFINE T == {s \in Seq(S) : Chosen(s, b) = <<>>}
<1>1. <<>> \in T
  BY ChosenEmpty, EmptySeq
<1>2. \A s \in Seq(S) \cap T, e \in S : Append(s, e) \in T
  BY ChosenAppend, AppendProperties
<1> HIDE DEF T
<1>3. Seq(S) \subseteq T
  BY <1>1, <1>2, AppendInduction
<1> QED
  BY <1>3 DEF T

LEMMA ChosenConcat ==
    ASSUME NEW S, NEW b, NEW qs \in Seq(S), NEW rs \in Seq(S)
    PROVE  Chosen(qs \o rs, b) = Chosen(qs, b) \o Chosen(rs, b)
<1> DEFINE T == {s \in Seq(S) : Chosen(qs \o s, b) = Chosen(qs, b) \o Chosen(s, b)}
<1>1. \A s \in Seq(S) : Chosen(s, b) \in Seq(S)
  <2>1. \A s \in Seq(S) : Chosen(s, b) \in Seq({r \in S : r.simple = b})
    BY ChosenType
  <2>2. Seq({r \in S : r.simple = b}) \subseteq Seq(S)
    BY SeqMonotonic
  <2> QED
    BY <2>1, <2>2
<1>2. <<>> \in T
  BY <1>1, ChosenEmpty, EmptySeq, ConcatEmptySeq
<1>3. ASSUME NEW s \in Seq(S) \cap T, NEW e \in S
      PROVE  Append(s, e) \in T
  <2>1. Append(s, e) \in Seq(S) /\ qs \o s \in Seq(S)
    BY AppendProperties, ConcatProperties
  <2>2. qs \o Append(s, e) = Append(qs \o s, e)
    BY <2>1
  <2>3. CASE e.simple = b
    <3>1. Chosen(Append(s, e), b) = Append(Chosen(s, b), e)
      BY <2>3, ChosenAppend
    <3>2. Chosen(Append(qs \o s, e), b) = Append(Chosen(qs \o s, b), e)
      BY <2>1, <2>3, ChosenAppend
    <3>3. Chosen(qs, b) \o Append(Chosen(s, b), e) = Append(Chosen(qs, b) \o Chosen(s, b), e)
      BY <1>1
    <3> QED
      BY <2>1, <2>2, <3>1, <3>2, <3>3
  <2>4. CASE e.simple # b
    <3>1. Chosen(Append(s, e), b) = Chosen(s, b)
      BY <2>4, ChosenAppend
    <3>2. Chosen(Append(qs \o s, e), b) = Chosen(qs \o s, b)
      BY <2>1, <2>4, ChosenAppend
    <3> QED
      BY <2>1, <2>2, <3>1, <3>2
  <2> QED
    BY <2>3, <2>4
<1> HIDE DEF T
<1>4. Seq(S) \subseteq T
  BY <1>2, <1>3, AppendInduction
<1> QED
  BY <1>4 DEF T
-----------------------------------------------------------------------------
(* What is known of a call.                                                *)

LEMMA CallShape ==
    ASSUME NEW c \in Call
    PROVE  /\ c.on \in Files
           /\ c.op \in {"read", "write", "backup", "restore", "addInbound", "putInbound",
                        "deleteInbound", "cert"}
           /\ c.op = "write" => c.content \in Texts(c.on)
           /\ c.op \in InboundOps => c.on = "singbox" /\ c.tag \in Tags
           /\ c.op \in {"addInbound", "putInbound"} =>
                c.value \in SoundInbound /\ c.at \in Nat /\ c.reset \in BOOLEAN
  BY DEF Call, Texts, InboundOps, Files

LEMMA CallFor ==
    ASSUME NEW c \in Call
    PROVE  /\ c.for \in {"text", "saveText", "rules", "savedRules", "merge", "saveRules",
                         "list", "inbound", "cert", "rawSingbox"} => c.on = "singbox"
           /\ c.for = "rawWireguard" => c.on = "wireguard"
           /\ c.for \in {"saveText", "saveRules", "rawSave"} => c.op = "write"
           /\ c.for = "merge" => c.op = "read" /\ c.rows \in Seq(RuleRows)
           /\ c.for = "saveRules" =>
                c.at \in Nat /\ c.rows \in Seq(RuleRows) /\ c.content \in Config
           /\ c.for = "cert" => c.tag \in Tags
           /\ c.for = "inbound" => c.op \in InboundOps
  BY DEF Call, InboundOps

LEMMA UnheardCall ==
    ASSUME NEW c \in Call, c.for = "inbound"
    PROVE  /\ [c EXCEPT !.for = "nobody"] \in Call
           /\ [c EXCEPT !.for = "nobody"].for = "nobody"
           /\ [c EXCEPT !.for = "nobody"].op = c.op
           /\ c.op = "putInbound" =>
                /\ [c EXCEPT !.for = "nobody"].tag = c.tag
                /\ [c EXCEPT !.for = "nobody"].value = c.value
                /\ [c EXCEPT !.for = "nobody"].at = c.at
                /\ [c EXCEPT !.for = "nobody"].reset = c.reset
  BY DEF Call

(* The calls of the buttons.                                               *)
LEMMA PlainCalls ==
    /\ LoadText \in Call /\ LoadList \in Call /\ LoadConfigs \in Call /\ LoadWireGuard \in Call
    /\ \A last \in BOOLEAN : LoadRules(last) \in Call
    /\ \A f \in Files : Backup(f) \in Call /\ Restore(f, "rawRestore") \in Call
    /\ Restore("singbox", "text") \in Call
    /\ \A t \in Config : Write("singbox", "saveText", t) \in Call
    /\ \A f \in Files : \A t \in Texts(f) : Write(f, "rawSave", t) \in Call
  BY DEF Call, LoadText, LoadList, LoadConfigs, LoadWireGuard, LoadRules, Backup, Restore,
         Read, Write, Files, Texts

Plain(c) ==
    /\ c \in Call /\ c.for # "saveRules" /\ c.op # "putInbound"
    /\ c.for = "saveText" => text # Nothing

LEMMA PlainButtons ==
    /\ Plain(LoadText) /\ Plain(LoadList) /\ Plain(LoadConfigs) /\ Plain(LoadWireGuard)
    /\ \A last \in BOOLEAN : Plain(LoadRules(last))
    /\ \A f \in Files : Plain(Backup(f)) /\ Plain(Restore(f, "rawRestore"))
    /\ Plain(Restore("singbox", "text"))
    /\ \A t \in Config : text # Nothing => Plain(Write("singbox", "saveText", t))
    /\ \A f \in Files : \A t \in Texts(f) : Plain(Write(f, "rawSave", t))
  BY PlainCalls DEF Plain, LoadText, LoadList, LoadConfigs, LoadWireGuard, LoadRules, Backup,
         Restore, Read, Write

-----------------------------------------------------------------------------
(* What the steps leave alone.                                             *)

(* Nothing is written; answers have landed, and calls were made that say   *)
(* nothing of a version.                                                   *)
LEMMA FilesRest ==
    ASSUME FilesInv, UNCHANGED fileVars, answers' \subseteq answers,
           \A c \in calls' : c \in calls \/ Plain(c)
    PROVE  FilesInv'
<1> USE DEF FilesInv, fileVars
<1>1. FileType'
  BY DEF FileType
<1>2. CallType'
  BY DEF CallType, Plain
<1>3. AnswersAreServed'
  BY DEF AnswersAreServed, Served
<1>4. CallsAreServed'
  BY DEF CallsAreServed, UsersServed, Plain
<1> QED
  BY <1>1, <1>2, <1>3, <1>4

(* The files move on: what is of an older version stays of an older one.   *)
Moved == \A f \in Files : \/ writes'[f] = writes[f] /\ file'[f] = file[f]
                          \/ writes'[f] > writes[f]

LEMMA StillServed ==
    ASSUME FileType, FileType', Moved, NEW f \in Files, NEW at \in Nat, NEW content,
           Served(content, at, f)
    PROVE  at <= writes'[f] /\ (at = writes'[f] => content = file'[f])
  BY DEF FileType, Moved, Served

LEMMA MovedSingbox ==
    ASSUME FileType, FileType', Moved
    PROVE  /\ writes.singbox \in Nat /\ writes'.singbox \in Nat
           /\ \/ writes'.singbox = writes.singbox /\ file'.singbox = file.singbox
              \/ writes'.singbox > writes.singbox
  BY DEF FileType, Moved, Files

LEMMA NotMoved == UNCHANGED fileVars => Moved
  BY DEF fileVars, Moved

LEMMA EditorRest ==
    ASSUME EditorInv, FileType, FileType', Moved, UNCHANGED editorVars
    PROVE  EditorInv'
<1> USE DEF editorVars, textVars, ruleVars, listVars
<1>1. EditorType'
  BY DEF EditorInv, EditorType
<1>2. (original # Nothing => Served(original, textAt, "singbox"))'
  <2>1. "singbox" \in Files /\ textAt \in Nat
    BY DEF Files, EditorInv, EditorType
  <2> QED
    BY <2>1, StillServed DEF EditorInv, Served
<1>3. (list # Nothing => ListServed(list, listAt))'
  BY MovedSingbox DEF EditorInv, EditorType, ListServed
<1>4. FormIsServed'
  <2>1. modal.open => modal.at \in Nat
    BY DEF EditorInv, EditorType, Modal
  <2> SUFFICES ASSUME modal.open, ~modal.new, ~modal.reset
               PROVE  UsersServed(modal.tag, modal.form, modal.at)'
    BY DEF FormIsServed
  <2>2. UsersServed(modal.tag, modal.form, modal.at)
    BY DEF EditorInv, FormIsServed
  <2> QED
    BY <2>1, <2>2, MovedSingbox DEF UsersServed
<1> QED
  BY <1>1, <1>2, <1>3, <1>4 DEF EditorInv

LEMMA RawRest ==
    ASSUME RawInv, FileType, FileType', Moved, UNCHANGED rawVars
    PROVE  RawInv'
<1> USE DEF rawVars
<1>1. RawType'
  BY DEF RawInv, RawType
<1>2. ASSUME NEW f \in Files, rawOriginal[f] # Blank
      PROVE  Served(rawOriginal[f], rawAt[f], f)'
  <2>1. rawAt[f] \in Nat
    BY DEF RawInv, RawType
  <2> QED
    BY <1>2, <2>1, StillServed DEF RawInv, Served
<1> QED
  BY <1>1, <1>2 DEF RawInv

-----------------------------------------------------------------------------
(* The content of the files.                                               *)

LEMMA ConfigParts ==
    ASSUME NEW t \in Config
    PROVE  /\ t.inbounds \in [Tags -> Inbound \cup {Nothing}] /\ t.rules \in Seq(Rule)
           /\ \A g \in Tags : t.inbounds[g] # Nothing => t.inbounds[g] \in SoundInbound
  BY DEF Config, SoundInbound

(* An inbound is put in its place, or taken out.                           *)
LEMMA WithInbound ==
    ASSUME NEW t \in Config, NEW g \in Tags, NEW i \in SoundInbound \cup {Nothing}
    PROVE  /\ [t EXCEPT !.inbounds[g] = i] \in Config
           /\ [t EXCEPT !.inbounds[g] = i].rules = t.rules
           /\ [t EXCEPT !.inbounds[g] = i].inbounds = [t.inbounds EXCEPT ![g] = i]
<1> DEFINE u == [t EXCEPT !.inbounds[g] = i]
<1>1. t \in [inbounds : [Tags -> Inbound \cup {Nothing}], rules : Seq(Rule)]
  BY DEF Config
<1>2. i \in Inbound \cup {Nothing}
  BY DEF SoundInbound
<1>3. /\ u.rules = t.rules /\ u.inbounds = [t.inbounds EXCEPT ![g] = i]
      /\ u \in [inbounds : [Tags -> Inbound \cup {Nothing}], rules : Seq(Rule)]
  BY <1>1, <1>2
<1> HIDE DEF u
<1>4. \A h \in Tags : u.inbounds[h] # Nothing => Sound(u.inbounds[h])
  BY <1>1, <1>3 DEF SoundInbound, Config
<1> QED
  BY <1>3, <1>4 DEF Config, u

LEMMA WithRules ==
    ASSUME NEW t \in Config, NEW rs \in Seq(Rule)
    PROVE  /\ [t EXCEPT !.rules = rs] \in Config
           /\ [t EXCEPT !.rules = rs].inbounds = t.inbounds
           /\ [t EXCEPT !.rules = rs].rules = rs
<1> DEFINE u == [t EXCEPT !.rules = rs]
<1>1. t \in [inbounds : [Tags -> Inbound \cup {Nothing}], rules : Seq(Rule)]
  BY DEF Config
<1>2. /\ u.rules = rs /\ u.inbounds = t.inbounds
      /\ u \in [inbounds : [Tags -> Inbound \cup {Nothing}], rules : Seq(Rule)]
  BY <1>1
<1> HIDE DEF u
<1> QED
  BY <1>2 DEF Config, u

(* The rules of the form are simple, each is its row.                      *)
LEMMA RowType ==
    /\ RuleRows \subseteq Rule /\ \A r \in RuleRows : r.simple = TRUE
    /\ \A r \in RuleRows : Row(r.tags[1]) = r
<1>1. ASSUME NEW g \in Tags
      PROVE  Row(g) \in Rule /\ Row(g).simple = TRUE /\ Row(g).tags[1] = g
  <2>1. <<g>> \in Seq(Tags) /\ <<g>> # <<>> /\ <<g>>[1] = g
    OBVIOUS
  <2> QED
    BY <2>1 DEF Row, Rule
<1> QED
  BY <1>1 DEF RuleRows

LEMMA SimpleRulesType ==
    ASSUME NEW rs \in Seq(Rule)
    PROVE  SimpleRules(rs) \in Seq(RuleRows) /\ OtherRules(rs) \in Seq(Rule)
<1> DEFINE simple == Chosen(rs, TRUE)
<1>1. \A b : Chosen(rs, b) \in Seq(Rule)
  <2>1. \A b : Chosen(rs, b) \in Seq({r \in Rule : r.simple = b})
    BY ChosenType
  <2>2. \A b : Seq({r \in Rule : r.simple = b}) \subseteq Seq(Rule)
    BY SeqMonotonic
  <2> QED
    BY <2>1, <2>2
<1>2. simple \in Seq(Rule) /\ DOMAIN simple = 1..Len(simple) /\ Len(simple) \in Nat
  BY <1>1, LenProperties
<1> HIDE DEF simple
<1>3. ASSUME NEW i \in 1..Len(simple)
      PROVE  Row(simple[i].tags[1]) \in RuleRows
  <2>1. simple[i] \in Rule
    BY <1>2, ElementOfSeq
  <2>2. simple[i].tags \in Seq(Tags) /\ simple[i].tags # <<>>
    BY <2>1 DEF Rule
  <2>3. simple[i].tags[1] \in Tags
    BY <2>2, LenProperties, EmptySeq, ElementOfSeq
  <2> QED
    BY <2>3 DEF RuleRows
<1>4. SimpleRules(rs) = [i \in 1..Len(simple) |-> Row(simple[i].tags[1])]
  BY <1>2 DEF SimpleRules, simple
<1>5. SimpleRules(rs) \in Seq(RuleRows)
  BY <1>2, <1>3, <1>4, IsASeq
<1> QED
  BY <1>1, <1>5 DEF OtherRules

LEMMA MergedParts ==
    ASSUME NEW t \in Config, NEW rows \in Seq(RuleRows)
    PROVE  /\ Merged(t, rows) \in Config
           /\ Merged(t, rows).inbounds = t.inbounds
           /\ Merged(t, rows).rules = OtherRules(t.rules) \o rows
<1>1. rows \in Seq(Rule) /\ OtherRules(t.rules) \in Seq(Rule)
  BY RowType, SeqMonotonic, SimpleRulesType, ConfigParts
<1>2. OtherRules(t.rules) \o rows \in Seq(Rule)
  BY <1>1, ConcatProperties
<1> QED
  BY <1>2, WithRules DEF Merged

(* Merging keeps the rules that are not simple, and its rows are what is   *)
(* loaded again.                                                           *)
THEOREM MergedRules ==
    ASSUME NEW rs \in Seq(Rule), NEW rows \in Seq(RuleRows)
    PROVE  /\ OtherRules(OtherRules(rs) \o rows) = OtherRules(rs)
           /\ SimpleRules(OtherRules(rs) \o rows) = rows
<1> DEFINE others == OtherRules(rs)
           Others == {r \in Rule : r.simple = FALSE}
<1>1. others \in Seq(Others)
  BY ChosenType DEF OtherRules
<1>2. others \in Seq(Rule) /\ rows \in Seq(Rule)
  BY <1>1, RowType, SeqMonotonic
<1> HIDE DEF others
<1>3. \A b : Chosen(others \o rows, b) = Chosen(others, b) \o Chosen(rows, b)
  BY <1>2, ChosenConcat
<1>4. Chosen(others, FALSE) = others /\ Chosen(others, TRUE) = <<>>
  <2>1. \A r \in Others : r.simple = FALSE /\ r.simple # TRUE
    OBVIOUS
  <2> HIDE DEF Others
  <2> QED
    BY <1>1, <2>1, ChosenAll, ChosenNone
<1>5. Chosen(rows, TRUE) = rows /\ Chosen(rows, FALSE) = <<>>
  <2>1. \A r \in RuleRows : r.simple = TRUE /\ r.simple # FALSE
    BY RowType
  <2> QED
    BY <2>1, ChosenAll, ChosenNone
<1>6. Chosen(others \o rows, FALSE) = others
  BY <1>2, <1>3, <1>4, <1>5, ConcatEmptySeq
<1>7. Chosen(others \o rows, TRUE) = rows
  BY <1>2, <1>3, <1>4, <1>5, ConcatEmptySeq
<1>8. [i \in DOMAIN rows |-> Row(rows[i].tags[1])] = rows
  <2>1. DOMAIN rows = 1..Len(rows) /\ \A i \in DOMAIN rows : rows[i] \in RuleRows
    BY LenProperties, ElementOfSeq
  <2>2. \A i \in DOMAIN rows : Row(rows[i].tags[1]) = rows[i]
    BY <2>1, RowType
  <2>3. rows = [i \in DOMAIN rows |-> rows[i]]
    BY LenProperties
  <2> QED
    BY <2>2, <2>3
<1> QED
  BY <1>6, <1>7, <1>8 DEF OtherRules, SimpleRules, others

-----------------------------------------------------------------------------
(* The server.                                                             *)

LEMMA ContentType ==
    ASSUME FileType, NEW c \in Call, ~Refused(c),
           c.op \in {"write", "restore"} \cup InboundOps
    PROVE  /\ Content(c) \in Texts(c.on)
           /\ c.op = "write" => Content(c) = c.content
<1>1. /\ c.on \in Files /\ (c.op = "write" => c.content \in Texts(c.on))
      /\ c.op \in InboundOps => c.on = "singbox" /\ c.tag \in Tags
      /\ c.op \in {"addInbound", "putInbound"} => c.value \in SoundInbound
  BY CallShape
<1>2. file.singbox \in Config
  BY DEF FileType
<1>3. CASE c.op = "write"
  BY <1>1, <1>3 DEF Content
<1>4. CASE c.op = "restore"
  BY <1>1, <1>4 DEF Content, Refused, FileType, Texts, Files
<1>5. CASE c.op \in {"addInbound", "putInbound"}
  BY <1>1, <1>2, <1>5, WithInbound DEF Content, InboundOps, Texts
<1>6. CASE c.op = "deleteInbound"
  BY <1>1, <1>2, <1>6, WithInbound DEF Content, InboundOps, Texts
<1> QED
  BY <1>3, <1>4, <1>5, <1>6 DEF InboundOps

(* What Serve does to the files, to the answers, and to the calls.         *)
LEMMA ServeEffect ==
    ASSUME FilesInv, NEW c \in calls, Serve(c)
    PROVE  /\ FileType' /\ Moved /\ c \in Call
           /\ calls' = calls \ {c}
           /\ file'[c.on] \in Texts(c.on) /\ writes'[c.on] \in Nat
           /\ c.op = "write" => file'[c.on] = c.content
           /\ answers' = answers \cup
                {[call |-> c, ok |-> TRUE, got |-> file'[c.on], at |-> writes'[c.on]]}
<1>1. FileType /\ c \in Call /\ c.on \in Files /\ ~Refused(c)
  BY CallShape DEF FilesInv, CallType, Serve
<1>2. calls' = calls \ {c} /\ answers' = answers \cup
                {[call |-> c, ok |-> TRUE, got |-> file'[c.on], at |-> writes'[c.on]]}
  BY DEF Serve
<1>3. /\ file \in [Files -> Config \cup WgTexts]
      /\ \A f \in Files : file[f] \in Texts(f)
      /\ writes \in [Files -> Nat]
  BY <1>1 DEF FileType, Files, Texts
<1>4. CASE c.op \in {"write", "restore"} \cup InboundOps
  <2>1. Content(c) \in Texts(c.on) /\ (c.op = "write" => Content(c) = c.content)
    BY <1>1, <1>4, ContentType
  <2>2. /\ file' = [file EXCEPT ![c.on] = Content(c)]
        /\ writes' = [writes EXCEPT ![c.on] = writes[c.on] + 1]
        /\ backup' = backup
    BY <1>4 DEF Serve, InboundOps
  <2> HIDE DEF Content
  <2>3. file' \in [singbox : Config, wireguard : WgTexts]
    BY <1>1, <2>1, <2>2 DEF FileType, Texts, Files
  <2>4. writes' \in [Files -> Nat] /\ backup' = backup
    BY <1>1, <1>3, <2>2
  <2>5. file'[c.on] = Content(c) /\ writes'[c.on] = writes[c.on] + 1
    BY <1>1, <1>3, <2>2
  <2>6. \A f \in Files : f # c.on => file'[f] = file[f] /\ writes'[f] = writes[f]
    BY <1>1, <1>3, <2>2
  <2>7. Moved
    BY <1>1, <1>3, <2>5, <2>6 DEF Moved
  <2>8. FileType'
    BY <1>1, <2>3, <2>4 DEF FileType
  <2> QED
    BY <1>1, <1>2, <1>3, <2>1, <2>4, <2>5, <2>7, <2>8
<1>5. CASE c.op \notin {"write", "restore"} \cup InboundOps
  <2>1. file' = file /\ writes' = writes
    BY <1>5 DEF Serve
  <2>2. Moved
    BY <2>1 DEF Moved
  <2>3. backup' \in [singbox : Config \cup {Nothing}, wireguard : WgTexts \cup {Nothing}]
    BY <1>1, <1>3 DEF Serve, FileType, Texts, Files
  <2>4. FileType'
    BY <1>1, <2>1, <2>3 DEF FileType
  <2> QED
    BY <1>1, <1>2, <1>3, <1>5, <2>1, <2>2, <2>4
<1> QED
  BY <1>4, <1>5

LEMMA ServeStep ==
    ASSUME IInv, NEW c \in calls, Serve(c), UNCHANGED <<editorVars, rawVars>>
    PROVE  IInv'
<1> DEFINE new == [call |-> c, ok |-> TRUE, got |-> file'[c.on], at |-> writes'[c.on]]
<1>1. /\ FileType /\ FileType' /\ Moved /\ c \in Call /\ c.on \in Files
      /\ calls' = calls \ {c} /\ answers' = answers \cup {new}
      /\ file'[c.on] \in Texts(c.on) /\ writes'[c.on] \in Nat
      /\ c.op = "write" => file'[c.on] = c.content
  BY ServeEffect, CallShape DEF IInv, FilesInv
<1>2. EditorInv' /\ RawInv'
  BY <1>1, EditorRest, RawRest DEF IInv
<1>3. CallType'
  <2>1. new \in Answer
    BY <1>1 DEF Answer, Texts
  <2> QED
    BY <1>1, <2>1 DEF IInv, FilesInv, CallType
<1>4. AnswersAreServed'
  <2> SUFFICES ASSUME NEW a \in answers', a.ok
               PROVE  /\ a.got \in Texts(a.call.on)
                      /\ Served(a.got, a.at, a.call.on)'
                      /\ a.call.op = "write" => a.got = a.call.content
    BY DEF AnswersAreServed
  <2>1. CASE a = new
    BY <1>1, <2>1 DEF Served
  <2>2. CASE a \in answers
    <3>1. a.call \in Call /\ a.at \in Nat /\ a.call.on \in Files
      BY <2>2, CallShape DEF IInv, FilesInv, CallType, Answer
    <3> QED
      BY <1>1, <2>2, <3>1, StillServed DEF IInv, FilesInv, AnswersAreServed, Served
  <2> QED
    BY <1>1, <2>1, <2>2
<1>5. CallsAreServed'
  <2> SUFFICES ASSUME NEW d \in calls
               PROVE  /\ d.for = "saveRules" =>
                           /\ d.at <= writes'.singbox
                           /\ d.at = writes'.singbox => d.content = Merged(file'.singbox, d.rows)
                      /\ d.op = "putInbound" =>
                           (~d.reset => UsersServed(d.tag, d.value, d.at)')
    BY <1>1 DEF CallsAreServed, Merged
  <2>1. d \in Call
    BY DEF IInv, FilesInv, CallType
  <2>2. (d.for = "saveRules" \/ d.op = "putInbound") => d.at \in Nat
    BY <2>1, CallShape, CallFor
  <2> QED
    BY <1>1, <2>2, MovedSingbox DEF IInv, FilesInv, CallsAreServed, UsersServed
<1>6. TextIsLoaded'
  BY <1>1 DEF IInv, TextIsLoaded, editorVars, textVars
<1> QED
  BY <1>1, <1>2, <1>3, <1>4, <1>5, <1>6 DEF IInv, FilesInv

LEMMA FailStep ==
    ASSUME IInv, NEW c \in calls, Fail(c), UNCHANGED <<editorVars, rawVars>>
    PROVE  IInv'
<1> DEFINE new == [call |-> c, ok |-> FALSE, got |-> Nothing, at |-> 0]
<1>1. /\ UNCHANGED fileVars /\ calls' = calls \ {c} /\ answers' = answers \cup {new}
  BY DEF Fail
<1>2. FileType /\ FileType' /\ Moved
  BY <1>1, NotMoved DEF IInv, FilesInv, FileType, fileVars
<1>3. EditorInv' /\ RawInv'
  BY <1>2, EditorRest, RawRest DEF IInv
<1>4. CallType'
  <2>1. new \in Answer
    BY DEF IInv, FilesInv, CallType, Answer
  <2> QED
    BY <1>1, <2>1 DEF IInv, FilesInv, CallType
<1>5. AnswersAreServed'
  BY <1>1 DEF IInv, FilesInv, AnswersAreServed, Served, fileVars
<1>6. CallsAreServed'
  BY <1>1 DEF IInv, FilesInv, CallsAreServed, UsersServed, fileVars
<1>7. TextIsLoaded'
  BY <1>1 DEF IInv, TextIsLoaded, editorVars, textVars
<1> QED
  BY <1>2, <1>3, <1>4, <1>5, <1>6, <1>7 DEF IInv, FilesInv

-----------------------------------------------------------------------------
(* The editor is used.                                                     *)

(* A step of the editor that writes nothing has to say what it does to the *)
(* views alone.                                                            *)
LEMMA EditorStep ==
    ASSUME IInv, UNCHANGED <<fileVars, rawVars>>, answers' \subseteq answers,
           \A c \in calls' : c \in calls \/ Plain(c), EditorInv',
           text' # Nothing \/ UNCHANGED <<text, original>>
    PROVE  IInv'
<1>1. FilesInv'
  BY FilesRest DEF IInv
<1>2. FileType /\ FileType' /\ Moved
  BY <1>1, NotMoved DEF IInv, FilesInv
<1>3. TextIsLoaded'
  BY DEF IInv, TextIsLoaded, Plain
<1> QED
  BY <1>1, <1>2, <1>3, RawRest DEF IInv

LEMMA SelectTabStep ==
    ASSUME IInv, NEW t \in {"inbounds", "rules", "raw"}, SelectTab(t), UNCHANGED rawVars
    PROVE  IInv'
<1> DEFINE load == CASE t = "raw" -> LoadText
                     [] t = "rules" -> LoadRules(FALSE)
                     [] t = "inbounds" -> LoadList
<1>1. Plain(load)
  BY PlainButtons
<1>2. /\ UNCHANGED <<fileVars, textVars, rules, choices>>
      /\ calls' = Unheard(calls) \cup {load} /\ answers' \subseteq answers
      /\ list' = Nothing /\ listAt' = 0 /\ modal' = Closed
  BY DEF SelectTab
<1> HIDE DEF load
<1>3. EditorInv'
  <2> USE DEF fileVars, textVars
  <2>1. EditorType'
    BY <1>2 DEF IInv, EditorInv, EditorType, Closed, Modal
  <2>2. (original # Nothing => Served(original, textAt, "singbox"))'
    BY <1>2 DEF IInv, EditorInv, Served
  <2>3. ~modal'.open
    BY <1>2 DEF Closed
  <2> QED
    BY <1>2, <2>1, <2>2, <2>3 DEF EditorInv, FormIsServed
<1>4. ASSUME NEW c \in Unheard(calls)
      PROVE  \/ c \in calls
             \/ /\ c \in Call /\ c.for # "saveRules"
                /\ c.op = "putInbound" => (~c.reset => UsersServed(c.tag, c.value, c.at))
  <2>1. PICK d \in calls : /\ d.for \notin {"list", "cert"}
                           /\ c = IF Hears(d) THEN d ELSE [d EXCEPT !.for = "nobody"]
    BY DEF Unheard
  <2>2. CASE Hears(d)
    BY <2>1, <2>2
  <2>3. CASE ~Hears(d)
    <3>1. d \in Call /\ d.for = "inbound" /\ c = [d EXCEPT !.for = "nobody"]
      BY <2>1, <2>3 DEF Hears, IInv, FilesInv, CallType
    <3>2. /\ c \in Call /\ c.for = "nobody" /\ c.op = d.op
          /\ c.op = "putInbound" =>
               c.tag = d.tag /\ c.value = d.value /\ c.at = d.at /\ c.reset = d.reset
      BY <3>1, UnheardCall
    <3> QED
      BY <3>2 DEF IInv, FilesInv, CallsAreServed
  <2> QED
    BY <2>2, <2>3
<1>5. FilesInv'
  <2> USE DEF fileVars
  <2>1. FileType' /\ AnswersAreServed'
    BY <1>2 DEF IInv, FilesInv, FileType, AnswersAreServed, Served
  <2>2. CallType'
    BY <1>1, <1>2, <1>4 DEF IInv, FilesInv, CallType, Plain
  <2>3. CallsAreServed'
    <3> SUFFICES ASSUME NEW c \in calls'
                 PROVE  /\ c.for = "saveRules" =>
                             /\ c.at <= writes.singbox
                             /\ c.at = writes.singbox => c.content = Merged(file.singbox, c.rows)
                        /\ c.op = "putInbound" =>
                             (~c.reset => UsersServed(c.tag, c.value, c.at))
      BY <1>2 DEF CallsAreServed, UsersServed
    <3>1. CASE c \in calls
      BY <3>1 DEF IInv, FilesInv, CallsAreServed
    <3> QED
      BY <1>1, <1>2, <1>4, <3>1 DEF Plain
  <2> QED
    BY <2>1, <2>2, <2>3 DEF FilesInv
<1>6. FileType /\ FileType' /\ Moved
  BY <1>2, <1>5, NotMoved DEF IInv, FilesInv
<1>7. TextIsLoaded'
  <2>1. text' = text /\ original' = original
    BY <1>2 DEF textVars
  <2>2. \A c \in Unheard(calls) : c \in calls \/ c.for = "nobody"
    BY <1>4, UnheardCall DEF Unheard, Hears, IInv, FilesInv, CallType
  <2>3. load.for # "saveText"
    BY DEF load, LoadText, LoadRules, LoadList, Read
  <2> QED
    BY <1>2, <2>1, <2>2, <2>3 DEF IInv, TextIsLoaded
<1> QED
  BY <1>3, <1>5, <1>6, <1>7, RawRest DEF IInv

(* Typing leaves a configuration.                                          *)
LEMMA TypedType ==
    ASSUME NEW t \in Config, NEW u \in Typed(t, People)
    PROVE  u \in Config
<1>1. ASSUME NEW g \in Tags, t.inbounds[g] # Nothing, NEW v \in People,
             u = [t EXCEPT !.inbounds[g].users = (@ \ {v}) \cup ({v} \ @)]
      PROVE  u \in Config
  <2> DEFINE i == t.inbounds[g]
             j == [i EXCEPT !.users = (@ \ {v}) \cup ({v} \ @)]
  <2>1. i \in SoundInbound /\ i \in Inbound
    BY <1>1, ConfigParts DEF SoundInbound
  <2>2. j \in Inbound /\ j.type = i.type /\ j.reality = i.reality
    BY <2>1 DEF Inbound
  <2>3. j \in SoundInbound
    BY <2>1, <2>2 DEF SoundInbound, Sound, UsesReality
  <2>4. u = [t EXCEPT !.inbounds[g] = j]
    BY <1>1, ConfigParts
  <2> HIDE DEF j
  <2> QED
    BY <2>3, <2>4, WithInbound
<1>2. ASSUME NEW i \in DOMAIN t.rules, u = [t EXCEPT !.rules = RemoveAt(@, i)]
      PROVE  u \in Config
  <2>1. t.rules \in Seq(Rule) /\ i \in 1..Len(t.rules) /\ Len(t.rules) \in Nat
    BY ConfigParts, LenProperties
  <2>2. RemoveAt(t.rules, i) \in Seq(Rule)
    BY <2>1, SubSeqProperties, ConcatProperties DEF RemoveAt
  <2> QED
    BY <1>2, <2>2, WithRules
<1> QED
  BY <1>1, <1>2 DEF Typed

LEMMA TextSteps ==
    ASSUME IInv, EditText \/ SaveText \/ TextButton, UNCHANGED rawVars
    PROVE  IInv'
<1> USE DEF fileVars, ruleVars, listVars
<1>1. /\ UNCHANGED <<fileVars, original, textAt, rules, choices, list, listAt, modal>>
      /\ answers' = answers /\ text' \in Config \cup {Nothing}
  <2>1. CASE EditText
    BY <2>1, TypedType DEF EditText, IInv, EditorInv, EditorType
  <2>2. CASE SaveText
    BY <2>2 DEF SaveText, Send, IInv, EditorInv, EditorType
  <2>3. CASE TextButton
    BY <2>3 DEF TextButton, Send, editorVars, textVars, IInv, EditorInv, EditorType
  <2> QED
    BY <2>1, <2>2, <2>3
<1>2. EditorInv'
  BY <1>1 DEF IInv, EditorInv, EditorType, FormIsServed, Served, ListServed, UsersServed
<1>3. \A c \in calls' : c \in calls \/ Plain(c)
  <2>1. CASE EditText
    BY <2>1 DEF EditText
  <2>2. CASE SaveText
    <3>1. calls' = calls \cup {Write("singbox", "saveText", text)}
      BY <2>2 DEF SaveText, Send
    <3>2. text # Nothing /\ text \in Config
      BY <2>2 DEF SaveText, IInv, TextIsLoaded, EditorInv, EditorType
    <3> QED
      BY <3>1, <3>2, PlainButtons
  <2>3. CASE TextButton
    <3>1. PICK c \in {LoadText, Backup("singbox"), Restore("singbox", "text")} :
             calls' = calls \cup {c}
      BY <2>3 DEF TextButton, Send
    <3> QED
      BY <3>1, PlainButtons DEF Files
  <2> QED
    BY <2>1, <2>2, <2>3
<1>4. text' # Nothing \/ UNCHANGED <<text, original>>
  <2>1. CASE EditText
    BY <1>1, <2>1, TypedType, NothingAssumption DEF EditText, IInv, EditorInv, EditorType
  <2>2. CASE SaveText \/ TextButton
    BY <2>2 DEF SaveText, TextButton, editorVars, textVars
  <2> QED
    BY <2>1, <2>2
<1> QED
  BY <1>1, <1>2, <1>3, <1>4, EditorStep

LEMMA RuleSteps ==
    ASSUME IInv, EditRules \/ SaveRules \/ RefreshRules, UNCHANGED rawVars
    PROVE  IInv'
<1> USE DEF fileVars, textVars, listVars
<1>1. /\ rules \in Seq(RuleRows) /\ DOMAIN rules = 1..Len(rules) /\ Len(rules) \in Nat
      /\ \A g \in choices : Row(g) \in RuleRows
  BY LenProperties DEF IInv, EditorInv, EditorType, RuleRows
<1>2. ASSUME EditRules
      PROVE  rules' \in Seq(RuleRows)
  <2>1. ASSUME NEW g \in choices
        PROVE  Append(rules, Row(g)) \in Seq(RuleRows)
    BY <1>1, AppendProperties
  <2>2. ASSUME NEW k \in DOMAIN rules
        PROVE  RemoveAt(rules, k) \in Seq(RuleRows)
    BY <1>1, SubSeqProperties, ConcatProperties DEF RemoveAt
  <2>3. ASSUME NEW k \in DOMAIN rules, NEW g \in choices
        PROVE  [rules EXCEPT ![k] = Row(g)] \in Seq(RuleRows)
    BY <1>1, ExceptSeq
  <2> QED
    BY <1>2, <2>1, <2>2, <2>3 DEF EditRules
<1>3. /\ UNCHANGED <<fileVars, textVars, choices, list, listAt, modal>>
      /\ answers' = answers /\ rules' \in Seq(RuleRows)
  BY <1>1, <1>2 DEF EditRules, SaveRules, RefreshRules, Send
<1>4. EditorInv'
  BY <1>3 DEF IInv, EditorInv, EditorType, FormIsServed, Served, ListServed, UsersServed
<1>5. \A c \in calls' : c \in calls \/ Plain(c)
  <2>1. CASE EditRules
    BY <2>1 DEF EditRules
  <2>2. CASE SaveRules
    <3> DEFINE c == [op |-> "read", on |-> "singbox", for |-> "merge", rows |-> rules]
    <3>1. calls' = calls \cup {c}
      BY <2>2 DEF SaveRules, Send
    <3>2. Plain(c)
      BY <1>1 DEF Plain, Call
    <3> QED
      BY <3>1, <3>2
  <2>3. CASE RefreshRules
    <3>1. calls' = calls \cup {LoadRules(FALSE)}
      BY <2>3 DEF RefreshRules, Send
    <3> QED
      BY <3>1, PlainButtons
  <2> QED
    BY <2>1, <2>2, <2>3
<1> QED
  BY <1>3, <1>4, <1>5, EditorStep

(* A step that changes the modal alone, of the editor.                     *)
LEMMA ModalStep ==
    ASSUME IInv, UNCHANGED <<fileVars, rawVars, textVars, rules, choices, list, listAt>>,
           answers' \subseteq answers, \A c \in calls' : c \in calls \/ Plain(c),
           modal' \in Modal, FormIsServed'
    PROVE  IInv'
<1> USE DEF fileVars, textVars
<1>1. EditorInv'
  BY DEF IInv, EditorInv, EditorType, Served, ListServed
<1> QED
  BY <1>1, EditorStep

LEMMA ModalParts ==
    ASSUME NEW m \in Modal, m.open
    PROVE  /\ m.tag \in Tags /\ m.new \in BOOLEAN /\ m.reset \in BOOLEAN /\ m.at \in Nat
           /\ m.form \in Inbound /\ m.certLoading \in BOOLEAN
           /\ m \in [open : {TRUE}, certLoading : BOOLEAN, tag : Tags, new : BOOLEAN,
                     reset : BOOLEAN, at : Nat, form : Inbound]
  BY DEF Modal

LEMMA ModalLoading == \A m \in Modal : m.certLoading \in BOOLEAN
  BY DEF Modal

LEMMA ClosedType ==
    ASSUME NEW b \in BOOLEAN
    PROVE  [Closed EXCEPT !.certLoading = b] \in Modal /\ ~[Closed EXCEPT !.certLoading = b].open
  BY DEF Closed, Modal

(* The form of an inbound that is in the list, and a new one.              *)
LEMMA OpenFormSteps ==
    ASSUME IInv, NEW g \in Tags, EditInbound(g) \/ AddInbound(g), UNCHANGED rawVars
    PROVE  IInv'
<1> USE DEF fileVars, textVars, ruleVars, listVars
<1>1. /\ UNCHANGED <<fileVars, textVars, rules, choices, list, listAt>>
      /\ answers' = answers /\ calls' = calls
  BY DEF EditInbound, AddInbound
<1>2. modal \in Modal /\ listAt \in Nat /\ modal.certLoading \in BOOLEAN
  BY ModalLoading DEF IInv, EditorInv, EditorType
<1>3. ASSUME EditInbound(g)
      PROVE  modal' \in Modal /\ FormIsServed'
  <2> DEFINE form == [list[g] EXCEPT !.transport = FALSE]
  <2>1. list # Nothing /\ list[g] \in Inbound
    BY <1>3 DEF EditInbound, IInv, EditorInv, EditorType
  <2>2. form \in Inbound /\ form.users = list[g].users
    BY <2>1 DEF Inbound
  <2>3. modal' = [open |-> TRUE, certLoading |-> modal.certLoading, tag |-> g,
                 new |-> FALSE, reset |-> FALSE, at |-> listAt, form |-> form]
    BY <1>3 DEF EditInbound
  <2> HIDE DEF form
  <2>4. modal' \in Modal
    BY <1>2, <2>2, <2>3 DEF Modal
  <2>5. ListServed(list, listAt)
    BY <2>1 DEF IInv, EditorInv
  <2>6. UsersServed(g, form, listAt)'
    BY <1>1, <2>2, <2>5 DEF UsersServed, ListServed, form
  <2>7. modal'.tag = g /\ modal'.form = form /\ modal'.at = listAt
    BY <2>3
  <2> QED
    BY <1>1, <2>2, <2>4, <2>5, <2>7 DEF FormIsServed, UsersServed, ListServed
<1>4. ASSUME AddInbound(g)
      PROVE  modal' \in Modal /\ FormIsServed'
  <2>1. NewInbound("vless") \in Inbound
    BY DEF NewInbound, Inbound, Protocols, Realities
  <2>2. modal' \in Modal /\ modal'.new
    BY <1>2, <1>4, <2>1 DEF AddInbound, Modal
  <2> QED
    BY <2>2 DEF FormIsServed
<1> QED
  BY <1>1, <1>3, <1>4, ModalStep

LEMMA EditFormStep ==
    ASSUME IInv, EditForm, UNCHANGED rawVars
    PROVE  IInv'
<1> USE DEF fileVars, textVars, ruleVars, listVars
<1>1. /\ UNCHANGED <<fileVars, textVars, rules, choices, list, listAt>>
      /\ answers' = answers /\ calls' = calls
  BY DEF EditForm
<1>2. modal \in Modal /\ modal.open
  BY DEF EditForm, IInv, EditorInv, EditorType
<1>3. /\ modal.tag \in Tags /\ modal.new \in BOOLEAN /\ modal.reset \in BOOLEAN
      /\ modal.at \in Nat /\ modal.form \in Inbound /\ modal.certLoading \in BOOLEAN
      /\ modal \in [open : {TRUE}, certLoading : BOOLEAN, tag : Tags, new : BOOLEAN,
                    reset : BOOLEAN, at : Nat, form : Inbound]
  BY <1>2, ModalParts
<1>4. ASSUME NEW form \in Inbound, form.users = modal.form.users,
             modal' = [modal EXCEPT !.form = form]
      PROVE  modal' \in Modal /\ FormIsServed'
  <2>1. modal' \in Modal
    BY <1>3, <1>4 DEF Modal
  <2>2. /\ modal'.form = form /\ modal'.tag = modal.tag /\ modal'.at = modal.at
        /\ modal'.new = modal.new /\ modal'.reset = modal.reset
    BY <1>3, <1>4
  <2> QED
    BY <1>1, <1>2, <1>4, <2>1, <2>2 DEF FormIsServed, UsersServed, IInv, EditorInv
<1>5. CASE SetTls
  <2> DEFINE form == [modal.form EXCEPT !.tls = ~@]
  <2>1. form \in Inbound /\ form.users = modal.form.users
    BY <1>3 DEF Inbound
  <2>2. modal' = [modal EXCEPT !.form = form]
    BY <1>3, <1>5 DEF SetTls
  <2> QED
    BY <1>1, <1>4, <2>1, <2>2, ModalStep
<1>6. CASE SetTransport
  <2> DEFINE form == [modal.form EXCEPT !.transport = ~@]
  <2>1. form \in Inbound /\ form.users = modal.form.users
    BY <1>3 DEF Inbound
  <2>2. modal' = [modal EXCEPT !.form = form]
    BY <1>3, <1>6 DEF SetTransport
  <2> QED
    BY <1>1, <1>4, <2>1, <2>2, ModalStep
<1>7. ASSUME NEW r \in Realities, SetReality(r)
      PROVE  IInv'
  <2> DEFINE form == [modal.form EXCEPT !.reality = r]
  <2>1. form \in Inbound /\ form.users = modal.form.users
    BY <1>3 DEF Inbound
  <2>2. modal' = [modal EXCEPT !.form = form]
    BY <1>3, <1>7 DEF SetReality
  <2> QED
    BY <1>1, <1>4, <2>1, <2>2, ModalStep
<1>8. ASSUME NEW c \in Tags \cup {Nothing}, TypeCert(c)
      PROVE  IInv'
  <2> DEFINE form == [modal.form EXCEPT !.cert = c]
  <2>1. form \in Inbound /\ form.users = modal.form.users
    BY <1>3 DEF Inbound
  <2>2. modal' = [modal EXCEPT !.form = form]
    BY <1>3, <1>8 DEF TypeCert
  <2> QED
    BY <1>1, <1>4, <2>1, <2>2, ModalStep
<1>9. ASSUME NEW t \in Protocols, SetProtocol(t)
      PROVE  IInv'
  <2>1. NewInbound(t) \in Inbound
    BY DEF NewInbound, Inbound, Realities
  <2>2. modal' = [modal EXCEPT !.form = NewInbound(t), !.reset = TRUE]
    BY <1>9 DEF SetProtocol
  <2>3. modal' \in Modal /\ modal'.reset
    BY <1>3, <2>1, <2>2 DEF Modal
  <2>4. FormIsServed'
    BY <2>3 DEF FormIsServed
  <2> QED
    BY <1>1, <2>3, <2>4, ModalStep
<1> QED
  BY <1>5, <1>6, <1>7, <1>8, <1>9 DEF EditForm

LEMMA OtherModalSteps ==
    ASSUME IInv, GenerateCert \/ CloseModal \/ (\E g \in Tags : DeleteInbound(g)),
           UNCHANGED rawVars
    PROVE  IInv'
<1> USE DEF fileVars, textVars, ruleVars, listVars
<1>1. modal \in Modal /\ modal.certLoading \in BOOLEAN
  BY ModalLoading DEF IInv, EditorInv, EditorType
<1>2. ASSUME GenerateCert
      PROVE  IInv'
  <2> DEFINE c == [op |-> "cert", on |-> "singbox", for |-> "cert", tag |-> modal.tag]
  <2>1. modal.open /\ modal' = [modal EXCEPT !.certLoading = TRUE]
    BY <1>2 DEF GenerateCert
  <2>2. /\ modal' \in Modal /\ modal'.open /\ modal'.tag = modal.tag
        /\ modal'.form = modal.form /\ modal'.at = modal.at
        /\ modal'.new = modal.new /\ modal'.reset = modal.reset
    BY <1>1, <2>1, ModalParts DEF Modal
  <2>3. /\ UNCHANGED <<fileVars, textVars, rules, choices, list, listAt>>
        /\ answers' = answers /\ calls' = calls \cup {c}
    BY <1>2 DEF GenerateCert, Send
  <2>4. Plain(c)
    BY <1>1, <2>1, ModalParts DEF Plain, Call
  <2>5. FormIsServed'
    BY <2>1, <2>2, <2>3 DEF FormIsServed, UsersServed, IInv, EditorInv
  <2> QED
    BY <2>2, <2>3, <2>4, <2>5, ModalStep
<1>3. ASSUME CloseModal
      PROVE  IInv'
  <2>1. /\ UNCHANGED <<fileVars, textVars, rules, choices, list, listAt>>
        /\ answers' = answers /\ calls' = calls
        /\ modal' = [Closed EXCEPT !.certLoading = modal.certLoading]
    BY <1>3 DEF CloseModal
  <2>2. modal' \in Modal /\ FormIsServed'
    BY <1>1, <2>1, ClosedType DEF FormIsServed
  <2> QED
    BY <2>1, <2>2, ModalStep
<1>4. ASSUME NEW g \in Tags, DeleteInbound(g)
      PROVE  IInv'
  <2> DEFINE c == [op |-> "deleteInbound", on |-> "singbox", for |-> "inbound", tag |-> g]
  <2>1. /\ UNCHANGED <<fileVars, textVars, rules, choices, list, listAt, modal>>
        /\ answers' = answers /\ calls' = calls \cup {c}
    BY <1>4 DEF DeleteInbound, Send, editorVars
  <2>2. Plain(c)
    BY DEF Plain, Call
  <2>3. FormIsServed'
    BY <2>1 DEF FormIsServed, UsersServed, IInv, EditorInv
  <2> QED
    BY <1>1, <2>1, <2>2, <2>3, ModalStep
<1> QED
  BY <1>2, <1>3, <1>4

(* The call that saves a form has its users and its version.               *)
LEMMA SaveInboundStep ==
    ASSUME IInv, SaveInbound, UNCHANGED rawVars
    PROVE  IInv'
<1> DEFINE c == [op |-> IF modal.new THEN "addInbound" ELSE "putInbound",
                 on |-> "singbox", for |-> "inbound", tag |-> modal.tag,
                 value |-> modal.form, reset |-> modal.reset, at |-> modal.at]
<1>1. /\ UNCHANGED <<fileVars, editorVars>> /\ answers' = answers
      /\ calls' = calls \cup {c} /\ modal.open
      /\ UsesReality(modal.form) => modal.form.reality = "complete"
  BY DEF SaveInbound, Send
<1>2. /\ modal.tag \in Tags /\ modal.new \in BOOLEAN /\ modal.reset \in BOOLEAN
      /\ modal.at \in Nat /\ modal.form \in Inbound
  BY <1>1, ModalParts DEF IInv, EditorInv, EditorType
<1>3. modal.form \in SoundInbound
  BY <1>1, <1>2 DEF SoundInbound, Sound
<1>4. c \in Call
  BY <1>2, <1>3 DEF Call
<1>5. /\ c.for = "inbound" /\ (c.op = "putInbound" => ~modal.new)
      /\ c.reset = modal.reset /\ c.tag = modal.tag /\ c.value = modal.form /\ c.at = modal.at
  OBVIOUS
<1> HIDE DEF c
<1>6. c.op = "putInbound" => (~c.reset => UsersServed(c.tag, c.value, c.at))
  BY <1>1, <1>5 DEF IInv, EditorInv, FormIsServed
<1>7. FilesInv'
  <2> USE DEF fileVars
  <2>1. FileType' /\ AnswersAreServed'
    BY <1>1 DEF IInv, FilesInv, FileType, AnswersAreServed, Served
  <2>2. CallType'
    BY <1>1, <1>4 DEF IInv, FilesInv, CallType
  <2>3. CallsAreServed'
    BY <1>1, <1>5, <1>6 DEF IInv, FilesInv, CallsAreServed, UsersServed
  <2> QED
    BY <2>1, <2>2, <2>3 DEF FilesInv
<1>8. FileType /\ FileType' /\ Moved
  BY <1>1, <1>7, NotMoved DEF IInv, FilesInv
<1>9. TextIsLoaded'
  BY <1>1, <1>5 DEF IInv, TextIsLoaded, editorVars, textVars
<1> QED
  BY <1>1, <1>7, <1>8, <1>9, EditorRest, RawRest DEF IInv

LEMMA UseEditorStep ==
    ASSUME IInv, UseEditor, UNCHANGED rawVars
    PROVE  IInv'
<1>1. ASSUME NEW t \in {"inbounds", "rules", "raw"}, SelectTab(t)
      PROVE  IInv'
  BY <1>1, SelectTabStep
<1>2. ASSUME NEW g \in Tags, EditInbound(g) \/ AddInbound(g)
      PROVE  IInv'
  BY <1>2, OpenFormSteps
<1>3. ASSUME GenerateCert \/ CloseModal \/ \E g \in Tags : DeleteInbound(g)
      PROVE  IInv'
  BY <1>3, OtherModalSteps
<1> QED
  BY <1>1, <1>2, <1>3, TextSteps, RuleSteps, EditFormStep, SaveInboundStep DEF UseEditor

-----------------------------------------------------------------------------
(* The answers land.                                                       *)

LEMMA AnswerParts ==
    ASSUME IInv, NEW a \in answers
    PROVE  /\ a.call \in Call /\ a.at \in Nat /\ a.call.on \in Files
           /\ a.ok => /\ a.got \in Texts(a.call.on)
                      /\ Served(a.got, a.at, a.call.on)
                      /\ a.call.op = "write" => a.got = a.call.content
  BY CallShape DEF IInv, FilesInv, CallType, Answer, AnswersAreServed

LEMMA LandTextSteps ==
    ASSUME IInv, NEW a \in answers, LandText(a) \/ LandSaveText(a), UNCHANGED rawVars
    PROVE  IInv'
<1> USE DEF fileVars, ruleVars, listVars
<1>1. /\ UNCHANGED <<fileVars, rules, choices, list, listAt, modal>>
      /\ answers' \subseteq answers /\ calls' = calls
  BY DEF LandText, LandSaveText, Landed
<1>2. /\ a.call \in Call /\ a.at \in Nat /\ a.call.on = "singbox"
      /\ a.ok => /\ a.got \in Config
                 /\ Served(a.got, a.at, "singbox")
                 /\ a.call.op = "write" => a.got = a.call.content
      /\ a.call.for = "saveText" => a.call.op = "write"
  <2>1. a.call.for \in {"text", "saveText"}
    BY DEF LandText, LandSaveText
  <2> QED
    BY <2>1, AnswerParts, CallFor DEF Texts
<1>3. /\ text' \in Config \cup {Nothing}
      /\ text' # Nothing \/ UNCHANGED <<text, original>>
      /\ \/ UNCHANGED <<original, textAt>>
         \/ original' = a.got /\ textAt' = a.at /\ a.ok
  <2>1. ASSUME LandText(a)
        PROVE  /\ text' \in Config \cup {Nothing}
               /\ text' # Nothing \/ UNCHANGED <<text, original>>
               /\ \/ UNCHANGED <<original, textAt>>
                  \/ original' = a.got /\ textAt' = a.at /\ a.ok
    BY <1>2, <2>1, NothingAssumption DEF LandText, IInv, EditorInv, EditorType
  <2>2. ASSUME LandSaveText(a)
        PROVE  /\ text' \in Config \cup {Nothing}
               /\ text' # Nothing \/ UNCHANGED <<text, original>>
               /\ \/ UNCHANGED <<original, textAt>>
                  \/ original' = a.got /\ textAt' = a.at /\ a.ok
    <3>1. text # Nothing /\ text' = text /\ text \in Config \cup {Nothing}
      BY <2>2 DEF LandSaveText, IInv, TextIsLoaded, EditorInv, EditorType
    <3> QED
      BY <1>2, <2>2, <3>1 DEF LandSaveText
  <2> QED
    BY <2>1, <2>2
<1>4. EditorInv'
  <2>1. EditorType'
    BY <1>1, <1>2, <1>3 DEF IInv, EditorInv, EditorType
  <2>2. (original # Nothing => Served(original, textAt, "singbox"))'
    BY <1>1, <1>2, <1>3 DEF IInv, EditorInv, Served
  <2> QED
    BY <1>1, <2>1, <2>2 DEF IInv, EditorInv, FormIsServed, ListServed, UsersServed
<1> QED
  BY <1>1, <1>3, <1>4, EditorStep

LEMMA LandRulesStep ==
    ASSUME IInv, NEW a \in answers, LandRules(a), UNCHANGED rawVars
    PROVE  IInv'
<1> USE DEF fileVars, textVars, listVars
<1>1. /\ UNCHANGED <<fileVars, textVars, list, listAt, modal>>
      /\ answers' \subseteq answers /\ calls' = calls
  BY DEF LandRules, Landed
<1>2. a.ok => a.got \in Config
  BY AnswerParts, CallFor DEF LandRules, Texts
<1>3. rules' \in Seq(RuleRows) /\ choices' \subseteq Tags
  BY <1>2, SimpleRulesType, ConfigParts DEF LandRules, IInv, EditorInv, EditorType
<1>4. EditorInv'
  BY <1>1, <1>3 DEF IInv, EditorInv, EditorType, FormIsServed, Served, ListServed, UsersServed
<1> QED
  BY <1>1, <1>4, EditorStep

(* The call that saves the rules has them merged into the file it has the  *)
(* version of.                                                             *)
LEMMA LandMergeStep ==
    ASSUME IInv, NEW a \in answers, LandMerge(a), UNCHANGED rawVars
    PROVE  IInv'
<1> USE DEF fileVars, textVars, listVars
<1> DEFINE c == [op |-> "write", on |-> "singbox", for |-> "saveRules", at |-> a.at,
                 rows |-> a.call.rows, content |-> Merged(a.got, a.call.rows)]
<1>1. /\ UNCHANGED <<fileVars, textVars, rules, choices, list, listAt, modal>>
      /\ answers' \subseteq answers
      /\ calls' = calls \/ (a.ok /\ calls' = calls \cup {c})
  BY DEF LandMerge, Landed
<1>2. EditorInv'
  BY <1>1 DEF IInv, EditorInv, EditorType, FormIsServed, Served, ListServed, UsersServed
<1>3. CASE calls' = calls
  BY <1>1, <1>2, <1>3, EditorStep
<1>4. CASE a.ok /\ calls' = calls \cup {c}
  <2>1. /\ a.call.rows \in Seq(RuleRows) /\ a.at \in Nat /\ a.got \in Config
        /\ Served(a.got, a.at, "singbox")
    BY <1>4, AnswerParts, CallFor DEF LandMerge, Texts
  <2>2. c \in Call
    BY <2>1, MergedParts DEF Call
  <2>3. /\ c.for = "saveRules" /\ c.op = "write" /\ c.at = a.at
        /\ c.rows = a.call.rows /\ c.content = Merged(a.got, a.call.rows)
    OBVIOUS
  <2> HIDE DEF c
  <2>4. /\ c.at <= writes.singbox
        /\ c.at = writes.singbox => c.content = Merged(file.singbox, c.rows)
    BY <2>1, <2>3 DEF Served
  <2>5. FilesInv'
    <3>1. FileType' /\ AnswersAreServed'
      BY <1>1 DEF IInv, FilesInv, FileType, AnswersAreServed, Served
    <3>2. CallType'
      BY <1>1, <1>4, <2>2 DEF IInv, FilesInv, CallType
    <3>3. CallsAreServed'
      <4> SUFFICES ASSUME NEW d \in calls'
                   PROVE  /\ d.for = "saveRules" =>
                               /\ d.at <= writes.singbox
                               /\ d.at = writes.singbox => d.content = Merged(file.singbox, d.rows)
                          /\ d.op = "putInbound" =>
                               (~d.reset => UsersServed(d.tag, d.value, d.at))
        BY <1>1 DEF CallsAreServed, UsersServed, Merged
      <4> QED
        BY <1>4, <2>3, <2>4 DEF IInv, FilesInv, CallsAreServed
    <3> QED
      BY <3>1, <3>2, <3>3 DEF FilesInv
  <2>6. FileType /\ FileType' /\ Moved
    BY <1>1, <2>5, NotMoved DEF IInv, FilesInv
  <2>7. TextIsLoaded'
    BY <1>1, <1>4, <2>3 DEF IInv, TextIsLoaded
  <2> QED
    BY <1>2, <2>5, <2>6, <2>7, RawRest DEF IInv
<1> QED
  BY <1>1, <1>3, <1>4

LEMMA LandListSteps ==
    ASSUME IInv, NEW a \in answers,
           LandSaveRules(a) \/ LandList(a) \/ LandElsewhere(a), UNCHANGED rawVars
    PROVE  IInv'
<1> USE DEF fileVars, textVars, ruleVars
<1>1. /\ UNCHANGED <<fileVars, textVars, rules, choices, modal>>
      /\ answers' \subseteq answers
      /\ calls' = calls \/ calls' = calls \cup {LoadRules(TRUE)}
  BY DEF LandSaveRules, LandList, LandElsewhere, Landed, listVars, editorVars
<1>2. \/ UNCHANGED <<list, listAt>>
      \/ /\ a.ok /\ list' = a.got.inbounds /\ listAt' = a.at
         /\ a.got \in Config /\ a.at \in Nat /\ Served(a.got, a.at, "singbox")
  <2>1. CASE LandList(a)
    <3>1. a.call.for = "list" /\ (UNCHANGED <<list, listAt>>
             \/ (a.ok /\ list' = a.got.inbounds /\ listAt' = a.at))
      BY <2>1 DEF LandList
    <3>2. a.ok => a.got \in Config /\ a.at \in Nat /\ Served(a.got, a.at, "singbox")
      BY <3>1, AnswerParts, CallFor DEF Texts
    <3> QED
      BY <3>1, <3>2
  <2>2. CASE LandSaveRules(a) \/ LandElsewhere(a)
    BY <2>2 DEF LandSaveRules, LandElsewhere, listVars, editorVars
  <2> QED
    BY <2>1, <2>2
<1>3. EditorInv'
  <2>1. EditorType'
    BY <1>1, <1>2, ConfigParts DEF IInv, EditorInv, EditorType
  <2>2. (list # Nothing => ListServed(list, listAt))'
    BY <1>1, <1>2 DEF IInv, EditorInv, Served, ListServed
  <2> QED
    BY <1>1, <2>1, <2>2 DEF IInv, EditorInv, FormIsServed, Served, UsersServed
<1>4. \A c \in calls' : c \in calls \/ Plain(c)
  <2>1. Plain(LoadRules(TRUE))
    BY PlainButtons
  <2> QED
    BY <1>1, <2>1
<1> QED
  BY <1>1, <1>3, <1>4, EditorStep

LEMMA LandInboundStep ==
    ASSUME IInv, NEW a \in answers, LandInbound(a), UNCHANGED rawVars
    PROVE  IInv'
<1> USE DEF fileVars, textVars, ruleVars
<1>1. /\ UNCHANGED <<fileVars, textVars, rules, choices, list, listAt>>
      /\ answers' \subseteq answers
      /\ calls' = calls \/ calls' = calls \cup {LoadList}
      /\ modal' = modal \/ modal' = [Closed EXCEPT !.certLoading = modal.certLoading]
  BY DEF LandInbound, Landed
<1>2. modal \in Modal /\ modal.certLoading \in BOOLEAN
  BY ModalLoading DEF IInv, EditorInv, EditorType
<1>3. modal' \in Modal /\ FormIsServed'
  <2>1. CASE modal' = modal
    BY <1>1, <1>2, <2>1 DEF FormIsServed, UsersServed, IInv, EditorInv
  <2>2. CASE modal' = [Closed EXCEPT !.certLoading = modal.certLoading]
    BY <1>2, <2>2, ClosedType DEF FormIsServed
  <2> QED
    BY <1>1, <2>1, <2>2
<1>4. \A c \in calls' : c \in calls \/ Plain(c)
  <2>1. Plain(LoadList)
    BY PlainButtons
  <2> QED
    BY <1>1, <2>1
<1> QED
  BY <1>1, <1>3, <1>4, ModalStep

LEMMA LandCertStep ==
    ASSUME IInv, NEW a \in answers, LandCert(a), UNCHANGED rawVars
    PROVE  IInv'
<1> USE DEF fileVars, textVars, ruleVars
<1>1. /\ UNCHANGED <<fileVars, textVars, rules, choices, list, listAt>>
      /\ answers' \subseteq answers /\ calls' = calls
  BY DEF LandCert, Landed
<1>2. modal \in Modal /\ a.call.tag \in Tags
  BY AnswerParts, CallFor DEF LandCert, IInv, EditorInv, EditorType
<1>3. CASE modal' = [modal EXCEPT !.certLoading = FALSE, !.form.cert = a.call.tag] /\ modal.open
  <2>1. /\ modal.form \in Inbound
        /\ modal \in [open : {TRUE}, certLoading : BOOLEAN, tag : Tags, new : BOOLEAN,
                      reset : BOOLEAN, at : Nat, form : Inbound]
    BY <1>2, <1>3, ModalParts
  <2> DEFINE form == [modal.form EXCEPT !.cert = a.call.tag]
  <2>2. form \in Inbound /\ form.users = modal.form.users
    BY <1>2, <2>1 DEF Inbound
  <2>3. modal' = [modal EXCEPT !.certLoading = FALSE, !.form = form]
    BY <1>3, <2>1
  <2> HIDE DEF form
  <2>4. /\ modal' \in Modal /\ modal'.form = form /\ modal'.tag = modal.tag
        /\ modal'.at = modal.at /\ modal'.new = modal.new /\ modal'.reset = modal.reset
    BY <2>1, <2>2, <2>3 DEF Modal
  <2>5. FormIsServed'
    BY <1>1, <1>3, <2>2, <2>4 DEF FormIsServed, UsersServed, IInv, EditorInv
  <2> QED
    BY <1>1, <2>4, <2>5, ModalStep
<1>4. CASE modal' = [modal EXCEPT !.certLoading = FALSE]
  <2>1. /\ modal' \in Modal /\ modal'.open = modal.open
        /\ modal.open =>
             /\ modal'.form = modal.form /\ modal'.tag = modal.tag
             /\ modal'.at = modal.at /\ modal'.new = modal.new /\ modal'.reset = modal.reset
    BY <1>2, <1>4 DEF Modal
  <2>2. FormIsServed'
    BY <1>1, <2>1 DEF FormIsServed, UsersServed, IInv, EditorInv
  <2> QED
    BY <1>1, <2>1, <2>2, ModalStep
<1> QED
  BY <1>3, <1>4 DEF LandCert

LEMMA AnswerEditorStep ==
    ASSUME IInv, AnswerEditor, UNCHANGED rawVars
    PROVE  IInv'
<1>1. PICK a \in answers :
        \/ LandText(a) \/ LandSaveText(a) \/ LandRules(a) \/ LandMerge(a)
        \/ LandSaveRules(a) \/ LandList(a) \/ LandInbound(a) \/ LandCert(a)
        \/ LandElsewhere(a)
  BY DEF AnswerEditor
<1> QED
  BY <1>1, LandTextSteps, LandRulesStep, LandMergeStep, LandListSteps, LandInboundStep,
     LandCertStep

-----------------------------------------------------------------------------
(* The raw page.                                                           *)

(* A step of the raw page that leaves the views of the editor alone.       *)
LEMMA RawStep ==
    ASSUME IInv, UNCHANGED <<fileVars, editorVars>>, answers' \subseteq answers,
           \A c \in calls' : c \in calls \/ Plain(c), RawInv'
    PROVE  IInv'
<1>1. UNCHANGED <<text, original>>
  BY DEF editorVars, textVars
<1>2. FilesInv'
  BY FilesRest DEF IInv
<1>3. FileType /\ FileType' /\ Moved
  BY <1>2, NotMoved DEF IInv, FilesInv
<1>4. TextIsLoaded'
  BY <1>1 DEF IInv, TextIsLoaded, Plain
<1> QED
  BY <1>2, <1>3, <1>4, EditorRest DEF IInv

LEMMA UseRawStep ==
    ASSUME IInv, UseRaw
    PROVE  IInv'
<1> USE DEF fileVars, rawVars
<1>1. /\ UNCHANGED <<fileVars, editorVars, rawOriginal, rawAt>> /\ answers' = answers
  BY DEF UseRaw, RawRefresh, RawEdit, RawSave, RawButton, RawSelect, Send
<1>2. rawTab \in Files /\ raw \in [singbox : Config \cup {Blank}, wireguard : WgTexts]
  BY DEF IInv, RawInv, RawType
<1>3. rawTab' \in Files /\ raw' \in [singbox : Config \cup {Blank}, wireguard : WgTexts]
  <2>1. CASE RawEdit
    <3>1. PICK t \in IF rawTab = "wireguard" THEN WgTexts
                     ELSE IF raw.singbox = Blank THEN {} ELSE Typed(raw.singbox, People) :
            raw' = [raw EXCEPT ![rawTab] = t]
      BY <2>1 DEF RawEdit
    <3>2. CASE rawTab = "wireguard"
      BY <1>2, <2>1, <3>1, <3>2 DEF RawEdit
    <3>3. CASE rawTab = "singbox"
      <4>1. raw.singbox \in Config /\ t \in Typed(raw.singbox, People)
        BY <1>2, <3>1, <3>3
      <4>2. t \in Config
        BY <4>1, TypedType
      <4> QED
        BY <1>2, <2>1, <3>1, <3>3, <4>2 DEF RawEdit
    <3> QED
      BY <1>2, <3>2, <3>3 DEF Files
  <2>2. CASE RawRefresh \/ RawSave \/ RawButton \/ \E f \in Files : RawSelect(f)
    BY <1>2, <2>2 DEF RawRefresh, RawSave, RawButton, RawSelect
  <2> QED
    BY <2>1, <2>2 DEF UseRaw
<1>4. RawInv'
  BY <1>1, <1>3 DEF IInv, RawInv, RawType, Served
<1>5. \A c \in calls' : c \in calls \/ Plain(c)
  <2>1. CASE RawRefresh
    <3>1. calls' = calls \cup {LoadConfigs}
      BY <2>1 DEF RawRefresh, Send
    <3> QED
      BY <3>1, PlainButtons
  <2>2. CASE RawEdit \/ \E f \in Files : RawSelect(f)
    BY <2>2 DEF RawEdit, RawSelect
  <2>3. CASE RawSave
    <3>1. calls' = calls \cup {Write(rawTab, "rawSave", raw[rawTab])}
      BY <2>3 DEF RawSave, Send
    <3>2. raw[rawTab] \in Texts(rawTab)
      BY <1>2, <2>3 DEF RawSave, Texts, Files
    <3> QED
      BY <1>2, <3>1, <3>2, PlainButtons
  <2>4. CASE RawButton
    <3>1. PICK c \in {Backup(rawTab), Restore(rawTab, "rawRestore")} : calls' = calls \cup {c}
      BY <2>4 DEF RawButton, Send
    <3> QED
      BY <1>2, <3>1, PlainButtons
  <2> QED
    BY <2>1, <2>2, <2>3, <2>4 DEF UseRaw
<1> QED
  BY <1>1, <1>4, <1>5, RawStep

LEMMA AnswerRawStep ==
    ASSUME IInv, NEW a \in answers, LandConfigs(a) \/ LandRawSave(a) \/ LandRawRestore(a)
    PROVE  IInv'
<1> USE DEF fileVars
<1>1. /\ UNCHANGED <<fileVars, editorVars, rawTab>> /\ answers' \subseteq answers
      /\ calls' = calls \/ calls' = calls \cup {LoadWireGuard}
  BY DEF LandConfigs, LandRawSave, LandRawRestore, Landed
<1>2. /\ a.call \in Call /\ a.at \in Nat /\ a.call.on \in Files
      /\ a.ok => /\ a.got \in Texts(a.call.on)
                 /\ Served(a.got, a.at, a.call.on)
                 /\ a.call.op = "write" => a.got = a.call.content
      /\ a.call.for = "rawSave" => a.call.op = "write"
  BY AnswerParts, CallFor
<1>3. \/ UNCHANGED <<raw, rawOriginal, rawAt>>
      \/ /\ a.ok /\ rawOriginal' = [rawOriginal EXCEPT ![a.call.on] = a.got]
         /\ rawAt' = [rawAt EXCEPT ![a.call.on] = a.at]
         /\ raw' = raw \/ raw' = [raw EXCEPT ![a.call.on] = a.got]
  BY <1>2 DEF LandConfigs, LandRawSave, LandRawRestore, Shown
<1>4. /\ RawType /\ \A f \in Files : rawOriginal[f] # Blank => Served(rawOriginal[f], rawAt[f], f)
  BY DEF IInv, RawInv
<1>5. RawInv'
  <2>1. CASE UNCHANGED <<raw, rawOriginal, rawAt>>
    BY <1>1, <1>4, <2>1 DEF RawInv, RawType, Served
  <2>2. CASE /\ a.ok /\ rawOriginal' = [rawOriginal EXCEPT ![a.call.on] = a.got]
             /\ rawAt' = [rawAt EXCEPT ![a.call.on] = a.at]
             /\ raw' = raw \/ raw' = [raw EXCEPT ![a.call.on] = a.got]
    <3>1. rawOriginal' \in [singbox : Config \cup {Blank}, wireguard : WgTexts]
      BY <1>2, <1>4, <2>2 DEF RawType, Texts, Files
    <3>2. raw' \in [singbox : Config \cup {Blank}, wireguard : WgTexts]
      BY <1>2, <1>4, <2>2 DEF RawType, Texts, Files
    <3>3. rawAt' \in [Files -> Nat] /\ rawTab' \in Files
      BY <1>1, <1>2, <1>4, <2>2 DEF RawType
    <3>4. ASSUME NEW f \in Files, rawOriginal'[f] # Blank
          PROVE  Served(rawOriginal[f], rawAt[f], f)'
      <4>1. rawOriginal'[f] = IF f = a.call.on THEN a.got ELSE rawOriginal[f]
        BY <1>2, <1>4, <2>2 DEF RawType, Files
      <4>2. rawAt'[f] = IF f = a.call.on THEN a.at ELSE rawAt[f]
        BY <1>2, <1>4, <2>2 DEF RawType
      <4> QED
        BY <1>1, <1>2, <1>4, <2>2, <3>4, <4>1, <4>2 DEF Served
    <3> QED
      BY <3>1, <3>2, <3>3, <3>4 DEF RawInv, RawType
  <2> QED
    BY <1>3, <2>1, <2>2
<1>6. \A c \in calls' : c \in calls \/ Plain(c)
  BY <1>1, PlainButtons
<1> QED
  BY <1>1, <1>5, <1>6, RawStep

-----------------------------------------------------------------------------
(* The invariant of the behaviours.                                        *)

LEMMA InitInvariant == Init => IInv
<1> SUFFICES ASSUME Init
             PROVE  IInv
  OBVIOUS
<1> USE DEF Init, FilesInit, EditorInit
<1>1. FileType
  <2>1. file \in [singbox : Config, wireguard : WgTexts]
    BY FilesAssumption
  <2>2. backup \in [singbox : Config \cup {Nothing}, wireguard : WgTexts \cup {Nothing}]
    BY DEF Files
  <2> QED
    BY <2>1, <2>2 DEF FileType
<1>2. CallType
  BY PlainCalls DEF CallType
<1>3. \A c \in calls : c.for \in {"list", "rawSingbox"} /\ c.op = "read"
  BY DEF LoadList, LoadConfigs, Read
<1>4. AnswersAreServed /\ CallsAreServed
  BY <1>3 DEF AnswersAreServed, CallsAreServed
<1>5. EditorInv
  <2>1. rules \in Seq(RuleRows)
    BY EmptySeq
  <2>2. modal \in Modal
    BY DEF Closed, Modal
  <2>3. ~modal.open
    BY DEF Closed
  <2> QED
    BY <2>1, <2>2, <2>3 DEF EditorInv, EditorType, FormIsServed
<1>6. RawInv
  <2>1. raw \in [singbox : Config \cup {Blank}, wireguard : WgTexts]
    BY BlankAssumption DEF Files
  <2>2. \A f \in Files : rawOriginal[f] = Blank
    OBVIOUS
  <2> QED
    BY <2>1, <2>2 DEF RawInv, RawType, Files
<1>7. TextIsLoaded
  BY <1>3 DEF TextIsLoaded
<1> QED
  BY <1>1, <1>2, <1>4, <1>5, <1>6, <1>7 DEF IInv, FilesInv

LEMMA NextInvariant == IInv /\ [Next]_vars => IInv'
<1> SUFFICES ASSUME IInv, [Next]_vars
             PROVE  IInv'
  OBVIOUS
<1>1. CASE UseEditor /\ UNCHANGED rawVars
  BY <1>1, UseEditorStep
<1>2. CASE UseRaw
  BY <1>2, UseRawStep
<1>3. CASE (\E c \in calls : Serve(c) \/ Fail(c)) /\ UNCHANGED <<editorVars, rawVars>>
  BY <1>3, ServeStep, FailStep
<1>4. CASE AnswerEditor /\ UNCHANGED rawVars
  BY <1>4, AnswerEditorStep
<1>5. CASE \E a \in answers : LandConfigs(a) \/ LandRawSave(a) \/ LandRawRestore(a)
  BY <1>5, AnswerRawStep
<1>6. CASE UNCHANGED vars
  <2>1. UNCHANGED <<fileVars, editorVars, rawVars>> /\ calls' = calls /\ answers' = answers
    BY <1>6 DEF vars
  <2>2. RawInv'
    BY <2>1 DEF IInv, RawInv, RawType, Served, rawVars, fileVars
  <2> QED
    BY <2>1, <2>2, RawStep
<1> QED
  BY <1>1, <1>2, <1>3, <1>4, <1>5, <1>6 DEF Next

(* Every view, every answer and every call of a behaviour is served: IInv  *)
(* holds in every state.                                                   *)
THEOREM Invariance == Spec => []IInv
<1>1. Init => IInv
  BY InitInvariant
<1>2. IInv /\ [Next]_vars => IInv'
  BY NextInvariant
<1> QED
  BY <1>1, <1>2, PTL DEF Spec

(* The files hold configurations whatever the pages send: no page sends an *)
(* empty text for sing-box, no merge and no form makes a rule that names   *)
(* nothing or a Reality without its keys.                                  *)
THEOREM TypeCorrect == Spec => []TypeOK
<1>1. IInv => TypeOK
  <2> SUFFICES ASSUME IInv
               PROVE  TypeOK
    OBVIOUS
  <2>1. /\ file \in [singbox : Config, wireguard : WgTexts]
        /\ text \in Config \cup {Nothing}
        /\ rawTab \in Files /\ rawAt \in [Files -> Nat]
    BY DEF IInv, FilesInv, FileType, EditorInv, EditorType, RawInv, RawType
  <2>2. rules \in Seq({Row(g) : g \in Tags})
    BY DEF IInv, EditorInv, EditorType, RuleRows
  <2>3. \A c \in calls : c.op = "write" /\ c.on = "singbox" => c.content \in Config
    BY CallShape DEF IInv, FilesInv, CallType, Texts
  <2>4. modal.open => modal.form \in Inbound
    BY ModalParts DEF IInv, EditorInv, EditorType
  <2> QED
    BY <2>1, <2>2, <2>3, <2>4 DEF TypeOK
<1> QED
  BY <1>1, Invariance, PTL

(* What a view compares with, or lists, is what the file holds as long as  *)
(* the file is of the version the view is of: the two text editors and the *)
(* list after any order of saves, restores, answers and typing.            *)
THEOREM ViewsAreServed == Spec => []ShownIsServed
<1>1. IInv => ShownIsServed
  BY DEF IInv, EditorInv, RawInv, Served, ListServed, ShownIsServed
<1> QED
  BY <1>1, Invariance, PTL

(* The pages write no file: the server does.                               *)
LEMMA EditorWritesNothing == UseEditor => UNCHANGED fileVars
  BY DEF UseEditor, SelectTab, EditText, SaveText, TextButton, EditRules, SaveRules,
         RefreshRules, EditInbound, AddInbound, DeleteInbound, EditForm, GenerateCert,
         SaveInbound, CloseModal

(* A call that the server serves in a step: it is the one that is saved.   *)
LEMMA SavedIsServed ==
    ASSUME IInv, [Next]_vars, NEW c \in calls, Saved(c)
    PROVE  Serve(c)
<1>1. PICK d \in calls : Serve(d)
  <2>1. CASE UseEditor
    BY <2>1, EditorWritesNothing DEF fileVars, Saved
  <2>2. CASE UseRaw
    BY <2>2 DEF UseRaw, RawRefresh, RawEdit, RawSave, RawButton, RawSelect, fileVars, Saved
  <2>3. CASE AnswerEditor
    BY <2>3 DEF AnswerEditor, LandText, LandSaveText, LandRules, LandMerge, LandSaveRules,
                LandList, LandInbound, LandCert, LandElsewhere, fileVars, Saved
  <2>4. CASE \E a \in answers : LandConfigs(a) \/ LandRawSave(a) \/ LandRawRestore(a)
    BY <2>4 DEF LandConfigs, LandRawSave, LandRawRestore, fileVars, Saved
  <2>5. CASE \E e \in calls : Fail(e)
    BY <2>5 DEF Fail, fileVars, Saved
  <2>6. CASE UNCHANGED vars
    BY <2>6 DEF vars, fileVars, Saved
  <2> QED
    BY <2>1, <2>2, <2>3, <2>4, <2>5, <2>6 DEF Next
<1>2. calls' = calls \ {d}
  BY <1>1 DEF Serve
<1> QED
  BY <1>1, <1>2 DEF Saved

(* A save from a page that is up to date changes what the page is about    *)
(* and no more: the rules by a merge with the file as it was read again,   *)
(* an inbound by its tag.                                                  *)
THEOREM SavesChangeNoMore == Spec => SavesAreExact
<1> DEFINE Exact(c) ==
             LET old == file.singbox  new == file.singbox'
             IN  /\ Saved(c) /\ c.for = "saveRules" /\ c.at = writes.singbox
                      => /\ new.inbounds = old.inbounds
                         /\ OtherRules(new.rules) = OtherRules(old.rules)
                         /\ SimpleRules(new.rules) = c.rows
                 /\ Saved(c) /\ c.op = "putInbound" /\ c.at = writes.singbox
                      => /\ new.rules = old.rules
                         /\ \A g \in Tags \ {c.tag} : new.inbounds[g] = old.inbounds[g]
                         /\ ~c.reset => new.inbounds[c.tag].users = old.inbounds[c.tag].users
<1>1. ASSUME IInv, [Next]_vars, NEW c \in calls
      PROVE  Exact(c)
  <2>1. c \in Call /\ file.singbox \in Config
    BY <1>1 DEF IInv, FilesInv, CallType, FileType
  <2>2. ASSUME Saved(c), c.op \in {"write"} \cup InboundOps, c.on = "singbox"
        PROVE  file'.singbox = Content(c)
    <3>1. Serve(c)
      BY <1>1, <2>2, SavedIsServed
    <3>2. file' = [file EXCEPT !["singbox"] = Content(c)]
      BY <2>2, <3>1 DEF Serve
    <3>3. file \in [singbox : Config, wireguard : WgTexts]
      BY <1>1 DEF IInv, FilesInv, FileType
    <3> HIDE DEF Content
    <3> QED
      BY <3>2, <3>3
  <2>3. ASSUME Saved(c), c.for = "saveRules", c.at = writes.singbox
        PROVE  /\ file'.singbox.inbounds = file.singbox.inbounds
               /\ OtherRules(file'.singbox.rules) = OtherRules(file.singbox.rules)
               /\ SimpleRules(file'.singbox.rules) = c.rows
    <3>1. c.op = "write" /\ c.on = "singbox" /\ c.rows \in Seq(RuleRows)
      BY <2>1, <2>3, CallFor
    <3>2. c.content = Merged(file.singbox, c.rows)
      BY <1>1, <2>3 DEF IInv, FilesInv, CallsAreServed
    <3>3. file'.singbox = Merged(file.singbox, c.rows)
      BY <2>2, <2>3, <3>1, <3>2 DEF Content
    <3>4. file.singbox.rules \in Seq(Rule)
      BY <2>1, ConfigParts
    <3>5. /\ file'.singbox.inbounds = file.singbox.inbounds
          /\ file'.singbox.rules = OtherRules(file.singbox.rules) \o c.rows
      BY <2>1, <3>1, <3>3, MergedParts
    <3> QED
      BY <3>1, <3>4, <3>5, MergedRules
  <2>4. ASSUME Saved(c), c.op = "putInbound", c.at = writes.singbox
        PROVE  /\ file'.singbox.rules = file.singbox.rules
               /\ \A g \in Tags \ {c.tag} :
                    file'.singbox.inbounds[g] = file.singbox.inbounds[g]
               /\ ~c.reset => file'.singbox.inbounds[c.tag].users
                                = file.singbox.inbounds[c.tag].users
    <3>1. c.on = "singbox" /\ c.tag \in Tags /\ c.value \in SoundInbound
      BY <2>1, <2>4, CallShape DEF InboundOps
    <3>2. file'.singbox = [file.singbox EXCEPT !.inbounds[c.tag] = c.value]
      BY <2>2, <2>4, <3>1 DEF Content, InboundOps
    <3>3. /\ file'.singbox.rules = file.singbox.rules
          /\ file'.singbox.inbounds = [file.singbox.inbounds EXCEPT ![c.tag] = c.value]
      BY <2>1, <3>1, <3>2, WithInbound
    <3>4. file.singbox.inbounds \in [Tags -> Inbound \cup {Nothing}]
      BY <2>1, ConfigParts
    <3>5. ~c.reset => c.value.users = file.singbox.inbounds[c.tag].users
      BY <1>1, <2>4 DEF IInv, FilesInv, CallsAreServed, UsersServed
    <3> QED
      BY <3>1, <3>3, <3>4, <3>5
  <2> QED
    BY <2>3, <2>4
<1>2. IInv /\ [Next]_vars => [\A c \in calls : Exact(c)]_vars
  BY <1>1
<1>3. Spec => [][\A c \in calls : Exact(c)]_vars
  <2> HIDE DEF Exact
  <2> QED
    BY <1>2, Invariance, PTL DEF Spec
<1> QED
  BY <1>3 DEF SavesAreExact

=============================================================================
