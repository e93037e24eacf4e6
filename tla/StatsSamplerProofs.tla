-------------------------- MODULE StatsSamplerProofs --------------------------
(***************************************************************************)
(* Proofs about StatsSampler, for any users, tags, runners and bounds.     *)
(* That rows are disjoint is not inductive: it rests on where the map last *)
(* and a reply in flight stand relative to the rows already stored, which  *)
(* in turn rests on the mutex and on the order of sing-box processes.      *)
(***************************************************************************)
EXTENDS StatsSampler, TLAPS

(* A run under way holds the mutex, and a paused sampler has none.         *)
MutexInv ==
    /\ \A r \in Runners : pc[r] # "idle" => mu = r
    /\ paused => mu = NoRunner

(* Rows come from sing-box processes whose counters were stored, and the   *)
(* rows of the newest of these end where `last` stands or before.          *)
LastInv ==
    /\ seenEpoch <= epoch
    /\ \A s \in samples :
          /\ s.epoch <= seenEpoch
          /\ s.epoch = seenEpoch /\ s.user \in known => s.to <= last[s.user]

(* A reply in flight is no older than what was stored.                     *)
ReplyInv ==
    \A r \in Runners : pc[r] = "store" =>
        /\ seenEpoch <= replyEpoch[r]
        /\ replyEpoch[r] <= epoch
        /\ \A u \in Users : reply[r][u] <= moved[u][replyEpoch[r]]
        /\ \A s \in samples : s.epoch = replyEpoch[r] => s.to <= reply[r][s.user]

RowInv == LastInv /\ ReplyInv /\ CountedBytesWereMoved /\ NoByteCountedTwice

(* A run that is about to read the file has looked at it before.           *)
CacheInv ==
    /\ cachedMtime <= mtime
    /\ \A r \in Runners : pc[r] = "load" => stat[r] <= mtime
    /\ CacheFollowsFile

IInv == TypeOK /\ MutexInv /\ RowInv /\ CacheInv

-----------------------------------------------------------------------------
(* The map of a sampler that has seen nobody.                              *)
LEMMA ZeroType == Zero \in [Users -> Nat]
BY DEF Zero

(* The initial states satisfy the inductive invariant.                     *)
LEMMA InitEstablishesIInv == Init => IInv
<1> SUFFICES ASSUME Init PROVE IInv
  OBVIOUS
<1>1. TypeOK
  <2>1. moved \in [Users -> [Epochs -> Nat]]
    <3>1. [e \in Epochs |-> 0] \in [Epochs -> Nat]
      OBVIOUS
    <3>2. QED
      BY <3>1 DEF Init
  <2>2. last \in [Users -> Nat] /\ reply \in [Runners -> [Users -> Nat]]
    BY ZeroType DEF Init
  <2>3. 0 \in 0..MaxClock /\ 0 \in Epochs
    BY BoundAssumption DEF Epochs
  <2>4. pc \in [Runners -> {"idle", "load", "query", "store"}] /\ now \in [Runners -> 0..MaxClock]
        /\ stat \in [Runners -> Nat] /\ replyEpoch \in [Runners -> Epochs]
    BY <2>3 DEF Init
  <2>5. members \subseteq Users \X Tags /\ managed \subseteq Tags
    BY DEF Init, TagsIn
  <2>6. /\ clock \in 0..MaxClock /\ epoch \in Epochs /\ seenEpoch \in Epochs
        /\ mtime \in Nat \ {0} /\ cachedMtime \in Nat
        /\ renaming = {} /\ known = {} /\ cachedUsers = {} /\ cachedFor = {}
        /\ mu \in Runners \cup {NoRunner} /\ samples = {}
    BY <2>3 DEF Init
  <2>7. paused \in BOOLEAN
    BY DEF Init
  <2>8. QED
    BY <2>1, <2>2, <2>4, <2>5, <2>6, <2>7 DEF TypeOK
<1>2. QED
  BY <1>1
  DEF Init, IInv, MutexInv, RowInv, LastInv, ReplyInv, CountedBytesWereMoved,
      NoByteCountedTwice, CacheInv, CacheFollowsFile

(* No step leaves the types.                                               *)
LEMMA TypeStep == TypeOK /\ [Next]_vars => TypeOK'
<1> SUFFICES ASSUME TypeOK, [Next]_vars PROVE TypeOK'
  OBVIOUS
<1>0. 0 \in 0..MaxClock /\ 0 \in Epochs
  BY BoundAssumption DEF Epochs
<1> USE DEF TypeOK, sbVars, configVars, cacheVars, runVars, storeVars, Goto, Return
<1>1. CASE Tick
  BY <1>1, <1>0, ZeroType DEF Tick
<1>2. ASSUME NEW u \in Users, Traffic(u)
      PROVE  TypeOK'
  <2>1. [moved[u] EXCEPT ![epoch] = @ + 1] \in [Epochs -> Nat]
    OBVIOUS
  <2>2. moved' = [moved EXCEPT ![u] = [moved[u] EXCEPT ![epoch] = @ + 1]]
    BY <1>2 DEF Traffic
  <2>3. moved' \in [Users -> [Epochs -> Nat]]
    BY <2>1, <2>2
  <2>4. QED
    BY <1>2, <2>3 DEF Traffic
<1>3. CASE SingboxRestart
  <2>1. epoch' \in Epochs
    BY <1>3, BoundAssumption DEF SingboxRestart, Epochs
  <2>2. QED
    BY <1>3, <2>1 DEF SingboxRestart
<1>4. CASE EditUsers
  <2>0. Reachable \subseteq Tags
    BY DEF Reachable
  <2>1. ASSUME NEW u \in Users, NEW t \in Reachable, members' = members \cup {<<u, t>>}
        PROVE  members' \subseteq Users \X Tags
    BY <2>0, <2>1
  <2>2. ASSUME NEW u \in Users,
               members' = {m \in members : m[1] # u \/ m[2] \notin Reachable}
        PROVE  members' \subseteq Users \X Tags
    BY <2>2
  <2>3. QED
    BY <1>4, <2>1, <2>2 DEF EditUsers
<1>5. ASSUME NEW old \in Tags, NEW new \in Tags, RenameInFile(old, new)
      PROVE  TypeOK'
  BY <1>5, <1>0, ZeroType DEF RenameInFile
<1>6. ASSUME NEW old \in Tags, NEW new \in Tags, RenameInLists(old, new)
      PROVE  TypeOK'
  BY <1>6 DEF RenameInLists, TagsIn
<1>7. ASSUME NEW r \in Runners, StartRun(r)
      PROVE  TypeOK'
  BY <1>7, <1>0, ZeroType DEF StartRun
<1>8. ASSUME NEW r \in Runners, LoadUsers(r)
      PROVE  TypeOK'
  BY <1>8 DEF LoadUsers, ActiveUsers
<1>9. ASSUME NEW r \in Runners, QueryUserStats(r)
      PROVE  TypeOK'
  <2>1. [v \in Users |-> moved[v][epoch]] \in [Users -> Nat]
    OBVIOUS
  <2>2. QED
    BY <1>9, <2>1 DEF QueryUserStats
<1>10. ASSUME NEW r \in Runners, GiveUp(r)
      PROVE  TypeOK'
  BY <1>10, <1>0, ZeroType DEF GiveUp
<1>11. ASSUME NEW r \in Runners, StoreDeltas(r)
      PROVE  TypeOK'
  <2>1. Batch(r) \subseteq Row
    BY DEF Batch, Delta, Row, TypeOK
  <2>2. samples' \subseteq Row
    BY <1>11, <2>1 DEF StoreDeltas, Inserted
  <2>3. last' \in [Users -> Nat] /\ reply' \in [Runners -> [Users -> Nat]]
    BY <1>11, ZeroType DEF StoreDeltas
  <2>4. QED
    BY <1>11, <1>0, <2>2, <2>3 DEF StoreDeltas
<1>12. ASSUME NEW p \in BOOLEAN, SetPaused(p)
      PROVE  TypeOK'
  BY <1>12, <1>0, ZeroType DEF SetPaused
<1>13. CASE PanelRestart
  <2>1. TagsIn(members) \subseteq Tags
    BY DEF TagsIn
  <2>2. reply' \in [Runners -> [Users -> Nat]] /\ last' \in [Users -> Nat]
    BY <1>13, ZeroType DEF PanelRestart
  <2>3. QED
    BY <1>13, <1>0, <2>1, <2>2 DEF PanelRestart
<1>14. CASE UNCHANGED vars
  BY <1>14, <1>0, ZeroType DEF vars
<1>15. QED
  BY <1>1, <1>2, <1>3, <1>4, <1>5, <1>6, <1>7, <1>8, <1>9, <1>10, <1>11, <1>12, <1>13, <1>14
  DEF Next, Environment, Run

(* The mutex serialises the runs; pause waits for it.                      *)
LEMMA MutexStep == TypeOK /\ MutexInv /\ [Next]_vars => MutexInv'
<1> SUFFICES ASSUME TypeOK, MutexInv, [Next]_vars PROVE MutexInv'
  OBVIOUS
<1> USE RunnerAssumption DEF TypeOK, MutexInv, runVars, Goto, Return
<1>1. CASE Tick
  BY <1>1 DEF Tick
<1>2. ASSUME NEW u \in Users, Traffic(u)
      PROVE  MutexInv'
  BY <1>2 DEF Traffic
<1>3. CASE SingboxRestart
  BY <1>3 DEF SingboxRestart
<1>4. CASE EditUsers
  BY <1>4 DEF EditUsers
<1>5. ASSUME NEW old \in Tags, NEW new \in Tags, RenameInFile(old, new)
      PROVE  MutexInv'
  BY <1>5 DEF RenameInFile
<1>6. ASSUME NEW old \in Tags, NEW new \in Tags, RenameInLists(old, new)
      PROVE  MutexInv'
  BY <1>6 DEF RenameInLists
<1>7. ASSUME NEW r \in Runners, StartRun(r)
      PROVE  MutexInv'
  BY <1>7 DEF StartRun
<1>8. ASSUME NEW r \in Runners, LoadUsers(r)
      PROVE  MutexInv'
  BY <1>8 DEF LoadUsers
<1>9. ASSUME NEW r \in Runners, QueryUserStats(r)
      PROVE  MutexInv'
  BY <1>9 DEF QueryUserStats
<1>10. ASSUME NEW r \in Runners, GiveUp(r)
      PROVE  MutexInv'
  BY <1>10 DEF GiveUp
<1>11. ASSUME NEW r \in Runners, StoreDeltas(r)
      PROVE  MutexInv'
  BY <1>11 DEF StoreDeltas
<1>12. ASSUME NEW p \in BOOLEAN, SetPaused(p)
      PROVE  MutexInv'
  BY <1>12 DEF SetPaused
<1>13. CASE PanelRestart
  BY <1>13 DEF PanelRestart
<1>14. CASE UNCHANGED vars
  BY <1>14 DEF vars
<1>15. QED
  BY <1>1, <1>2, <1>3, <1>4, <1>5, <1>6, <1>7, <1>8, <1>9, <1>10, <1>11, <1>12, <1>13, <1>14
  DEF Next, Environment, Run

(* The cache is as good as its modification time says.                     *)
LEMMA CacheStep == TypeOK /\ CacheInv /\ [Next]_vars => CacheInv'
<1> SUFFICES ASSUME TypeOK, CacheInv, [Next]_vars PROVE CacheInv'
  OBVIOUS
<1> USE DEF TypeOK, CacheInv, CacheFollowsFile, configVars, cacheVars, runVars, Goto, Return
<1>1. CASE Tick
  BY <1>1 DEF Tick
<1>2. ASSUME NEW u \in Users, Traffic(u)
      PROVE  CacheInv'
  BY <1>2 DEF Traffic
<1>3. CASE SingboxRestart
  BY <1>3 DEF SingboxRestart
<1>4. CASE EditUsers
  BY <1>4 DEF EditUsers
<1>5. ASSUME NEW old \in Tags, NEW new \in Tags, RenameInFile(old, new)
      PROVE  CacheInv'
  BY <1>5 DEF RenameInFile
<1>6. ASSUME NEW old \in Tags, NEW new \in Tags, RenameInLists(old, new)
      PROVE  CacheInv'
  BY <1>6 DEF RenameInLists
<1>7. ASSUME NEW r \in Runners, StartRun(r)
      PROVE  CacheInv'
  BY <1>7 DEF StartRun
<1>8. ASSUME NEW r \in Runners, LoadUsers(r)
      PROVE  CacheInv'
  BY <1>8 DEF LoadUsers
<1>9. ASSUME NEW r \in Runners, QueryUserStats(r)
      PROVE  CacheInv'
  BY <1>9 DEF QueryUserStats
<1>10. ASSUME NEW r \in Runners, GiveUp(r)
      PROVE  CacheInv'
  BY <1>10 DEF GiveUp
<1>11. ASSUME NEW r \in Runners, StoreDeltas(r)
      PROVE  CacheInv'
  BY <1>11 DEF StoreDeltas
<1>12. ASSUME NEW p \in BOOLEAN, SetPaused(p)
      PROVE  CacheInv'
  BY <1>12 DEF SetPaused
<1>13. CASE PanelRestart
  BY <1>13 DEF PanelRestart
<1>14. CASE UNCHANGED vars
  BY <1>14 DEF vars
<1>15. QED
  BY <1>1, <1>2, <1>3, <1>4, <1>5, <1>6, <1>7, <1>8, <1>9, <1>10, <1>11, <1>12, <1>13, <1>14
  DEF Next, Environment, Run


(* Rows stay disjoint, and inside what was moved.                          *)
LEMMA RowStep == TypeOK /\ TypeOK' /\ MutexInv /\ RowInv /\ [Next]_vars => RowInv'
<1> SUFFICES ASSUME TypeOK, TypeOK', MutexInv, RowInv, [Next]_vars PROVE RowInv'
  OBVIOUS
<1>1. CASE Tick
  BY <1>1 DEF Tick, RowInv, LastInv, ReplyInv, CountedBytesWereMoved, NoByteCountedTwice, sbVars, runVars, storeVars, Goto, Return
<1>2. ASSUME NEW u \in Users, Traffic(u)
      PROVE  RowInv'
  <2>1. ASSUME NEW v \in Users, NEW e \in Epochs
        PROVE  moved[v][e] <= moved'[v][e]
    BY <1>2 DEF Traffic, TypeOK
  <2>2. UNCHANGED <<epoch, runVars, storeVars>>
    BY <1>2 DEF Traffic
  <2>3. CountedBytesWereMoved'
    <3>1. ASSUME NEW s \in samples
          PROVE  s.from < s.to /\ s.to <= moved'[s.user][s.epoch]
      <4>1. s.user \in Users /\ s.epoch \in Epochs /\ s.to \in Nat
        BY DEF TypeOK, Row
      <4>2. moved[s.user][s.epoch] \in Nat /\ moved'[s.user][s.epoch] \in Nat
        BY <4>1 DEF TypeOK
      <4>3. QED
        BY <2>1, <4>1, <4>2 DEF RowInv, CountedBytesWereMoved
    <3>2. QED
      BY <2>2, <3>1 DEF CountedBytesWereMoved, storeVars
  <2>4. ReplyInv'
    <3>1. ASSUME NEW q \in Runners, NEW v \in Users, pc[q] = "store"
          PROVE  reply[q][v] <= moved'[v][replyEpoch[q]]
      <4>1. replyEpoch[q] \in Epochs /\ reply[q][v] \in Nat
        BY DEF TypeOK
      <4>2. moved[v][replyEpoch[q]] \in Nat /\ moved'[v][replyEpoch[q]] \in Nat
        BY <4>1 DEF TypeOK
      <4>3. QED
        BY <2>1, <3>1, <4>1, <4>2 DEF RowInv, ReplyInv
    <3>2. QED
      BY <2>2, <3>1 DEF RowInv, ReplyInv, runVars, storeVars
  <2>5. LastInv' /\ NoByteCountedTwice'
    BY <2>2 DEF RowInv, LastInv, NoByteCountedTwice, storeVars
  <2>6. QED
    BY <2>3, <2>4, <2>5 DEF RowInv
<1>3. CASE SingboxRestart
  BY <1>3, BoundAssumption DEF SingboxRestart, TypeOK, Epochs, RowInv, LastInv, ReplyInv, CountedBytesWereMoved, NoByteCountedTwice, sbVars, runVars, storeVars, Goto, Return
<1>4. CASE EditUsers
  BY <1>4 DEF EditUsers, RowInv, LastInv, ReplyInv, CountedBytesWereMoved, NoByteCountedTwice, sbVars, runVars, storeVars, Goto, Return
<1>5. ASSUME NEW old \in Tags, NEW new \in Tags, RenameInFile(old, new)
      PROVE  RowInv'
  BY <1>5 DEF RenameInFile, RowInv, LastInv, ReplyInv, CountedBytesWereMoved, NoByteCountedTwice, sbVars, runVars, storeVars, Goto, Return
<1>6. ASSUME NEW old \in Tags, NEW new \in Tags, RenameInLists(old, new)
      PROVE  RowInv'
  BY <1>6 DEF RenameInLists, RowInv, LastInv, ReplyInv, CountedBytesWereMoved, NoByteCountedTwice, sbVars, runVars, storeVars, Goto, Return
<1>7. ASSUME NEW r \in Runners, StartRun(r)
      PROVE  RowInv'
  BY <1>7 DEF StartRun, RowInv, LastInv, ReplyInv, CountedBytesWereMoved, NoByteCountedTwice, sbVars, runVars, storeVars, Goto, Return
<1>8. ASSUME NEW r \in Runners, LoadUsers(r)
      PROVE  RowInv'
  BY <1>8 DEF LoadUsers, RowInv, LastInv, ReplyInv, CountedBytesWereMoved, NoByteCountedTwice, sbVars, runVars, storeVars, Goto, Return
<1>9. ASSUME NEW r \in Runners, QueryUserStats(r)
      PROVE  RowInv'
  <2>1. ReplyInv'
    <3>1. ASSUME NEW q \in Runners, pc'[q] = "store"
          PROVE  q = r
      BY <1>9, <3>1 DEF QueryUserStats, MutexInv, Goto, TypeOK
    <3>2. /\ replyEpoch'[r] = epoch /\ \A u \in Users : reply'[r][u] = moved[u][epoch]
          /\ UNCHANGED <<epoch, moved, samples, seenEpoch>>
      BY <1>9 DEF QueryUserStats, sbVars, storeVars, TypeOK
    <3>3. \A s \in samples : s.epoch = epoch => s.to <= moved[s.user][epoch]
      BY DEF RowInv, CountedBytesWereMoved
    <3>4. \A s \in samples : s.user \in Users
      BY DEF TypeOK, Row
    <3>5. seenEpoch <= epoch /\ epoch <= epoch
      BY DEF RowInv, LastInv, TypeOK, Epochs
    <3>6. \A u \in Users : moved[u][epoch] \in Nat
      BY DEF TypeOK
    <3>7. QED
      BY <3>1, <3>2, <3>3, <3>4, <3>5, <3>6 DEF ReplyInv
  <2>2. LastInv' /\ CountedBytesWereMoved' /\ NoByteCountedTwice'
    BY <1>9 DEF QueryUserStats, RowInv, LastInv, CountedBytesWereMoved, NoByteCountedTwice,
                sbVars, storeVars
  <2>3. QED
    BY <2>1, <2>2 DEF RowInv
<1>10. ASSUME NEW r \in Runners, GiveUp(r)
      PROVE  RowInv'
  BY <1>10 DEF GiveUp, RowInv, LastInv, ReplyInv, CountedBytesWereMoved, NoByteCountedTwice, sbVars, runVars, storeVars, Goto, Return
<1>11. ASSUME NEW r \in Runners, StoreDeltas(r)
      PROVE  RowInv'
  <2> DEFINE e == replyEpoch[r]
  <2>1. /\ pc[r] = "store" /\ mu = r
        /\ seenEpoch <= e /\ e <= epoch
        /\ \A u \in Users : reply[r][u] <= moved[u][e]
        /\ \A s \in samples : s.epoch = e => s.to <= reply[r][s.user]
    BY <1>11 DEF StoreDeltas, MutexInv, RowInv, ReplyInv
  <2>2. ASSUME NEW s \in Batch(r)
        PROVE  /\ s \in Row /\ s.epoch = e
               /\ s.user \in cachedUsers \cap known
               /\ s.from = last[s.user] /\ s.to = reply[r][s.user]
               /\ s.from < s.to
    BY DEF Batch, Delta, Row, TypeOK
  <2>3. \A s \in samples' : s \in samples \/ s \in Batch(r)
    BY <1>11 DEF StoreDeltas, Inserted
  <2>4. UNCHANGED <<epoch, moved>> /\ known' = cachedUsers /\ seenEpoch' = e
        /\ \A u \in cachedUsers : last'[u] = reply[r][u]
    BY <1>11 DEF StoreDeltas, sbVars, TypeOK
  <2> DEFINE Typed(s) == s.epoch \in Int /\ s.to \in Int /\ s.user \in Users
  <2>a. seenEpoch \in Int /\ e \in Int /\ \A s \in samples : Typed(s)
    <3>1. seenEpoch \in Epochs /\ e \in Epochs
      BY DEF TypeOK
    <3>2. \A s \in samples : s \in Row
      BY DEF TypeOK
    <3>3. QED
      BY <3>1, <3>2, BoundAssumption DEF Row, Epochs
  <2>b. \A s \in Batch(r) : Typed(s)
    BY <2>2 DEF Row, Epochs
  <2>c. /\ \A s \in samples : s.epoch <= seenEpoch
        /\ \A s \in samples : s.epoch = seenEpoch /\ s.user \in known => s.to <= last[s.user]
    BY DEF RowInv, LastInv
  <2>5. LastInv'
    <3>1. ASSUME NEW s \in samples'
          PROVE  s.epoch <= e /\ (s.epoch = e /\ s.user \in known' => s.to <= last'[s.user])
      <4>1. CASE s \in samples
        BY <2>1, <2>4, <2>a, <2>c, <4>1
      <4>2. CASE s \in Batch(r)
        BY <2>2, <2>4, <2>b, <4>2
      <4>3. QED
        BY <2>3, <4>1, <4>2
    <3>2. QED
      BY <2>1, <2>4, <3>1 DEF LastInv
  <2>6. ReplyInv'
    BY <1>11, <2>1 DEF StoreDeltas, Return, Goto, ReplyInv, MutexInv, TypeOK
  <2>7. CountedBytesWereMoved'
    <3>1. ASSUME NEW s \in samples'
          PROVE  s.from < s.to /\ s.to <= moved[s.user][s.epoch]
      <4>1. CASE s \in samples
        BY <4>1 DEF RowInv, CountedBytesWereMoved
      <4>2. CASE s \in Batch(r)
        BY <2>1, <2>2, <4>2 DEF Row
      <4>3. QED
        BY <2>3, <4>1, <4>2
    <3>2. QED
      BY <2>4, <3>1 DEF CountedBytesWereMoved
  <2>8. NoByteCountedTwice'
    <3>1. ASSUME NEW a \in samples, NEW b \in Batch(r), a.user = b.user, a.epoch = b.epoch
          PROVE  a.to <= b.from
      BY <2>1, <2>2, <2>a, <2>c, <3>1
    <3>2. ASSUME NEW a \in Batch(r), NEW b \in Batch(r), a.user = b.user
          PROVE  a = b
      BY <3>2 DEF Batch, Delta
    <3>3. QED
      BY <2>2, <2>3, <3>1, <3>2 DEF RowInv, NoByteCountedTwice
  <2>9. QED
    BY <2>5, <2>6, <2>7, <2>8 DEF RowInv
<1>12. ASSUME NEW p \in BOOLEAN, SetPaused(p)
      PROVE  RowInv'
  BY <1>12 DEF SetPaused, RowInv, LastInv, ReplyInv, CountedBytesWereMoved, NoByteCountedTwice, sbVars, runVars, storeVars, Goto, Return
<1>13. CASE PanelRestart
  BY <1>13 DEF PanelRestart, RowInv, LastInv, ReplyInv, CountedBytesWereMoved, NoByteCountedTwice, sbVars, runVars, storeVars, Goto, Return
<1>14. CASE UNCHANGED vars
  BY <1>14 DEF vars, RowInv, LastInv, ReplyInv, CountedBytesWereMoved, NoByteCountedTwice, sbVars, runVars, storeVars, Goto, Return
<1>15. QED
  BY <1>1, <1>2, <1>3, <1>4, <1>5, <1>6, <1>7, <1>8, <1>9, <1>10, <1>11, <1>12, <1>13, <1>14
  DEF Next, Environment, Run

-----------------------------------------------------------------------------
(* The inductive invariant holds in every state.                           *)
THEOREM InductiveInvariant == Spec => []IInv
<1>1. Init => IInv
  BY InitEstablishesIInv
<1>2. IInv /\ [Next]_vars => IInv'
  BY TypeStep, MutexStep, RowStep, CacheStep DEF IInv
<1>3. QED
  BY <1>1, <1>2, PTL DEF Spec

(* Every variable keeps its type.                                          *)
THEOREM TypeCorrect == Spec => []TypeOK
<1>1. IInv => TypeOK
  BY DEF IInv
<1>2. QED
  BY <1>1, InductiveInvariant, PTL

(* The rows of a user never stand for the same bytes.                      *)
THEOREM RowsAreDisjoint == Spec => []NoByteCountedTwice
<1>1. IInv => NoByteCountedTwice
  BY DEF IInv, RowInv
<1>2. QED
  BY <1>1, InductiveInvariant, PTL

(* The rows of a user never stand for bytes that were not moved.           *)
THEOREM RowsAreReal == Spec => []CountedBytesWereMoved
<1>1. IInv => CountedBytesWereMoved
  BY DEF IInv, RowInv
<1>2. QED
  BY <1>1, InductiveInvariant, PTL

(* The cache of users is never older than its modification time says.      *)
THEOREM CacheIsCurrent == Spec => []CacheFollowsFile
<1>1. IInv => CacheFollowsFile
  BY DEF IInv, CacheInv
<1>2. QED
  BY <1>1, InductiveInvariant, PTL

(* A paused sampler stores nothing.                                        *)
THEOREM PauseHolds == Spec => PauseIsPrompt
<1>1. IInv /\ [Next]_vars => [paused => samples' = samples]_vars
  <2> SUFFICES ASSUME IInv, Next, paused PROVE samples' = samples
    OBVIOUS
  <2>1. ASSUME NEW r \in Runners
        PROVE  pc[r] = "idle" /\ mu = NoRunner
    BY RunnerAssumption DEF IInv, MutexInv
  <2>2. ASSUME NEW r \in Runners, Run(r)
        PROVE  samples' = samples
    BY <2>1, <2>2 DEF Run, StartRun, LoadUsers, QueryUserStats, GiveUp, StoreDeltas
  <2>3. CASE Environment
    BY <2>3 DEF Environment, Tick, Traffic, SingboxRestart, EditUsers, RenameInFile,
                RenameInLists, storeVars
  <2>4. CASE \E p \in BOOLEAN : SetPaused(p)
    BY <2>4 DEF SetPaused, storeVars
  <2>5. CASE PanelRestart
    BY <2>5 DEF PanelRestart
  <2>6. QED
    BY <2>2, <2>3, <2>4, <2>5 DEF Next
<1>2. QED
  BY <1>1, InductiveInvariant, PTL DEF Spec, PauseIsPrompt
=============================================================================
