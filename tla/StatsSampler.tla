----------------------------- MODULE StatsSampler -----------------------------
(***************************************************************************)
(* The traffic sampler of core/stats_sampler.go: it reads the users of the *)
(* sing-box file (GetActiveUsers), asks sing-box for its cumulative        *)
(* counters (QueryUserStats) and inserts what each user moved since the    *)
(* previous run (BulkInsert).  The ticker goroutine and the handler of     *)
(* "run now" are the Runners; the mutex StatsSampler.mu orders them.       *)
(*                                                                         *)
(* The two directions of a counter are treated alike; one is modelled.     *)
(* A stored row has its user, its second and the bytes moved, a difference *)
(* of two counter values.  As history the model keeps with it the values   *)
(* (from, to) and the sing-box process (epoch) they come from, so that the *)
(* properties can say which bytes a row stands for.                        *)
(***************************************************************************)
EXTENDS Integers

CONSTANTS
    Users,
    Tags,          \* tags of user inbounds
    Runners,       \* goroutines that call sampleOnce
    NoRunner,      \* owner of the free mutex
    MaxClock,      \* bound on the wall clock, in seconds
    MaxBytes,      \* bound on a counter of sing-box
    MaxEpoch,      \* bound on the restarts of sing-box
    MaxEdits       \* bound on the writes of the sing-box file

ASSUME RunnerAssumption == NoRunner \notin Runners

ASSUME BoundAssumption ==
    /\ MaxClock \in Nat
    /\ MaxBytes \in Nat
    /\ MaxEpoch \in Nat
    /\ MaxEdits \in Nat

Epochs == 0..MaxEpoch

VARIABLES
    clock,         \* wall clock; time.Now().Unix() may also step back
    epoch,         \* which sing-box process runs, counted from 0
    moved,         \* moved[u][e]: the counter of u in sing-box process e
    members,       \* the user entries of the sing-box file: user and tag
    mtime,         \* its modification time, 1 at first
    managed,       \* Config.ManagedInbounds
    renaming,      \* renames whose second step, the lists, is still due
    paused, mu,    \* fields of StatsSampler ...
    known, last,   \*   the map last: its domain and its values
    cachedUsers, cachedMtime,
    pc, now, stat, reply, replyEpoch,  \* locals of the runs of sampleOnce
    samples,       \* the table samples
    seenEpoch,     \* history: the newest epoch whose counters were stored
    cachedFor      \* history: the managed list the cache was built with

sbVars == <<epoch, moved>>
configVars == <<members, mtime, managed, renaming>>
cacheVars == <<cachedUsers, cachedMtime, cachedFor>>
runVars == <<pc, now, stat, reply, replyEpoch>>
storeVars == <<known, last, samples, seenEpoch>>
vars == <<clock, sbVars, configVars, paused, mu, cacheVars, runVars, storeVars>>

Row == [user : Users, ts : 0..MaxClock, bytes : Nat,
        from : Nat, to : Nat, epoch : Epochs]

TypeOK ==
    /\ clock \in 0..MaxClock
    /\ epoch \in Epochs
    /\ moved \in [Users -> [Epochs -> Nat]]
    /\ members \subseteq Users \X Tags
    /\ mtime \in Nat \ {0}
    /\ managed \subseteq Tags
    /\ renaming \subseteq Tags \X Tags
    /\ paused \in BOOLEAN
    /\ mu \in Runners \cup {NoRunner}
    /\ known \subseteq Users
    /\ last \in [Users -> Nat]
    /\ cachedUsers \subseteq Users
    /\ cachedMtime \in Nat
    /\ cachedFor \subseteq Tags
    /\ pc \in [Runners -> {"idle", "load", "query", "store"}]
    /\ now \in [Runners -> 0..MaxClock]
    /\ stat \in [Runners -> Nat]
    /\ reply \in [Runners -> [Users -> Nat]]
    /\ replyEpoch \in [Runners -> Epochs]
    /\ samples \subseteq Row
    /\ seenEpoch \in Epochs

(* GetActiveUsers: the users of the managed inbounds; an empty list of     *)
(* managed inbounds filters nothing.                                       *)
ActiveUsers(m, tags) ==
    {u \in Users : \E t \in Tags : <<u, t>> \in m /\ (tags = {} \/ t \in tags)}

(* The tags of the user inbounds that the file has.                        *)
TagsIn(m) == {t \in Tags : \E u \in Users : <<u, t>> \in m}

Zero == [u \in Users |-> 0]

(* A panel that starts with some configuration and an empty database.      *)
Init ==
    /\ clock = 0
    /\ epoch = 0
    /\ moved = [u \in Users |-> [e \in Epochs |-> 0]]
    /\ members \in SUBSET (Users \X Tags)
    /\ mtime = 1
    /\ managed = TagsIn(members)
    /\ renaming = {}
    /\ paused = FALSE
    /\ mu = NoRunner
    /\ known = {}
    /\ last = Zero
    /\ cachedUsers = {}
    /\ cachedMtime = 0
    /\ cachedFor = {}
    /\ pc = [r \in Runners |-> "idle"]
    /\ now = [r \in Runners |-> 0]
    /\ stat = [r \in Runners |-> 0]
    /\ reply = [r \in Runners |-> Zero]
    /\ replyEpoch = [r \in Runners |-> 0]
    /\ samples = {}
    /\ seenEpoch = 0

-----------------------------------------------------------------------------
(* The world around the sampler.                                           *)

Tick ==
    /\ clock' \in 0..MaxClock
    /\ UNCHANGED <<sbVars, configVars, paused, mu, cacheVars, runVars, storeVars>>

(* sing-box moves a byte of u.                                             *)
Traffic(u) ==
    /\ moved[u][epoch] < MaxBytes
    /\ moved' = [moved EXCEPT ![u][epoch] = @ + 1]
    /\ UNCHANGED <<clock, epoch, configVars, paused, mu, cacheVars, runVars, storeVars>>

(* sing-box is restarted: its counters start from zero.                    *)
SingboxRestart ==
    /\ epoch < MaxEpoch
    /\ epoch' = epoch + 1
    /\ UNCHANGED <<clock, moved, configVars, paused, mu, cacheVars, runVars, storeVars>>

(* findManagedInbounds: what AddUser and RemoveUser may touch.             *)
Reachable == IF managed = {} THEN Tags ELSE managed

(* AddUser and RemoveUser of core/config.go: one write of the file.        *)
EditUsers ==
    /\ mtime <= MaxEdits
    /\ mtime' = mtime + 1
    /\ \/ \E u \in Users, t \in Reachable : members' = members \cup {<<u, t>>}
       \/ \E u \in Users :
             members' = {m \in members : m[1] # u \/ m[2] \notin Reachable}
    /\ UNCHANGED <<clock, sbVars, managed, renaming, paused, mu, cacheVars, runVars, storeVars>>

(* UpdateSingboxInbound with a new tag: first the file ...                 *)
RenameInFile(old, new) ==
    /\ mtime <= MaxEdits
    /\ old # new
    /\ \A m \in members : m[2] # new
    /\ mtime' = mtime + 1
    /\ members' = {<<m[1], IF m[2] = old THEN new ELSE m[2]>> : m \in members}
    /\ renaming' = renaming \cup {<<old, new>>}
    /\ UNCHANGED <<clock, sbVars, managed, paused, mu, cacheVars, runVars, storeVars>>

(* ... then RenameInboundInLists and SyncInboundsFromSingbox, which change *)
(* the managed list and not the file.                                      *)
RenameInLists(old, new) ==
    /\ <<old, new>> \in renaming
    /\ renaming' = renaming \ {<<old, new>>}
    /\ managed' = {IF t = old THEN new ELSE t : t \in managed} \cup TagsIn(members)
    /\ UNCHANGED <<clock, sbVars, members, mtime, paused, mu, cacheVars, runVars, storeVars>>

-----------------------------------------------------------------------------
Goto(r, label) == pc' = [pc EXCEPT ![r] = label]

(* The deferred Unlock; the locals of the run are gone.                    *)
Return(r) == /\ mu' = NoRunner
             /\ Goto(r, "idle")
             /\ now' = [now EXCEPT ![r] = 0]
             /\ stat' = [stat EXCEPT ![r] = 0]
             /\ reply' = [reply EXCEPT ![r] = Zero]
             /\ replyEpoch' = [replyEpoch EXCEPT ![r] = 0]

(* Mutant: sampleOnce does not wait for the mutex.                         *)
StartRunUnlocked(r) ==
    /\ pc[r] = "idle"
    /\ ~paused
    /\ mu' = r
    /\ now' = [now EXCEPT ![r] = clock]
    /\ stat' = [stat EXCEPT ![r] = mtime]
    /\ Goto(r, IF mtime = cachedMtime THEN "query" ELSE "load")
    /\ UNCHANGED <<clock, sbVars, configVars, paused, cacheVars, reply, replyEpoch, storeVars>>

(* Lock, the test of paused, the clock, and the Stat of loadUsersIfNeeded. *)
(* A run that finds the sampler paused returns and changes nothing.        *)
StartRun(r) ==
    /\ pc[r] = "idle"
    /\ mu = NoRunner
    /\ ~paused
    /\ mu' = r
    /\ now' = [now EXCEPT ![r] = clock]
    /\ stat' = [stat EXCEPT ![r] = mtime]
    /\ Goto(r, IF mtime = cachedMtime THEN "query" ELSE "load")
    /\ UNCHANGED <<clock, sbVars, configVars, paused, cacheVars, reply, replyEpoch, storeVars>>

(* GetActiveUsers, and the cache takes the modification time seen before.  *)
LoadUsers(r) ==
    /\ pc[r] = "load"
    /\ cachedUsers' = ActiveUsers(members, managed)
    /\ cachedMtime' = stat[r]
    /\ cachedFor' = managed
    /\ Goto(r, "query")
    /\ UNCHANGED <<clock, sbVars, configVars, paused, mu, now, stat, reply, replyEpoch, storeVars>>

(* QueryUserStats; a user that sing-box does not list counts as zero.      *)
QueryUserStats(r) ==
    /\ pc[r] = "query"
    /\ cachedUsers # {}
    /\ reply' = [reply EXCEPT ![r] = [u \in Users |-> moved[u][epoch]]]
    /\ replyEpoch' = [replyEpoch EXCEPT ![r] = epoch]
    /\ Goto(r, "store")
    /\ UNCHANGED <<clock, sbVars, configVars, paused, mu, cacheVars, now, stat, storeVars>>

(* Mutant: the modification time is recorded before the read succeeds.     *)
GiveUpRemembersStat(r) ==
    /\ pc[r] \in {"load", "query"}
    /\ cachedMtime' = stat[r]
    /\ Return(r)
    /\ UNCHANGED <<clock, sbVars, configVars, paused, cachedUsers, cachedFor, storeVars>>

(* The file cannot be read, there are no users, or the query fails.        *)
GiveUp(r) ==
    /\ pc[r] \in {"load", "query"}
    /\ Return(r)
    /\ UNCHANGED <<clock, sbVars, configVars, paused, cacheVars, storeVars>>

(* The row of u in a run.                                                  *)
Delta(r, u) ==
    [user |-> u, ts |-> now[r], bytes |-> reply[r][u] - last[u],
     from |-> last[u], to |-> reply[r][u], epoch |-> replyEpoch[r]]

(* Mutant: the difference is not clamped after a restart of sing-box.      *)
BatchUnclamped(r) ==
    {Delta(r, u) : u \in {v \in cachedUsers \cap known : reply[r][v] # last[v]}}

(* The rows of a run: users seen before whose counter has grown.  A        *)
(* counter that went back, because sing-box was restarted, yields none.    *)
Batch(r) ==
    {Delta(r, u) : u \in {v \in cachedUsers \cap known : reply[r][v] > last[v]}}

(* INSERT OR IGNORE under the unique index on user and ts.                 *)
Inserted(batch) ==
    {b \in batch : \A s \in samples : s.user # b.user \/ s.ts # b.ts}

(* The deltas move `last` on and prune it to the active users; then the    *)
(* batch is inserted in one transaction, or the transaction fails.         *)
StoreDeltas(r) ==
    /\ pc[r] = "store"
    /\ known' = cachedUsers
    /\ last' = [u \in Users |-> IF u \in cachedUsers THEN reply[r][u] ELSE 0]
    /\ samples' \in {samples \cup Inserted(Batch(r)), samples}
    /\ seenEpoch' = replyEpoch[r]
    /\ Return(r)
    /\ UNCHANGED <<clock, sbVars, configVars, paused, cacheVars>>

Run(r) == \/ StartRun(r) \/ LoadUsers(r) \/ QueryUserStats(r)
          \/ GiveUp(r) \/ StoreDeltas(r)

(* Mutant: the flag is set without waiting for a run under way.            *)
SetPausedAtOnce(p) ==
    /\ paused' = p
    /\ UNCHANGED <<clock, sbVars, configVars, mu, cacheVars, runVars, storeVars>>

(* SetPaused, from the pause and resume buttons: waits for the mutex.      *)
SetPaused(p) ==
    /\ mu = NoRunner
    /\ paused' = p
    /\ UNCHANGED <<clock, sbVars, configVars, mu, cacheVars, runVars, storeVars>>

(* The panel process dies and is started again: what it held in memory is  *)
(* gone, a rename stays half done, and StartServer syncs the managed list  *)
(* with the file before it starts the sampler.                             *)
PanelRestart ==
    /\ renaming' = {}
    /\ managed' = managed \cup TagsIn(members)
    /\ paused' = FALSE
    /\ mu' = NoRunner
    /\ known' = {}
    /\ last' = Zero
    /\ cachedUsers' = {}
    /\ cachedMtime' = 0
    /\ cachedFor' = {}
    /\ pc' = [r \in Runners |-> "idle"]
    /\ now' = [r \in Runners |-> 0]
    /\ stat' = [r \in Runners |-> 0]
    /\ reply' = [r \in Runners |-> Zero]
    /\ replyEpoch' = [r \in Runners |-> 0]
    /\ UNCHANGED <<clock, sbVars, members, mtime, samples, seenEpoch>>

Environment ==
    \/ Tick
    \/ \E u \in Users : Traffic(u)
    \/ SingboxRestart
    \/ EditUsers
    \/ \E old, new \in Tags : RenameInFile(old, new) \/ RenameInLists(old, new)

Next ==
    \/ Environment
    \/ \E r \in Runners : Run(r)
    \/ \E p \in BOOLEAN : SetPaused(p)
    \/ PanelRestart

Spec == Init /\ [][Next]_vars

-----------------------------------------------------------------------------
(* NO BYTE IS COUNTED TWICE.  Two rows of a user stand for disjoint        *)
(* stretches of the counter of a sing-box process, whatever the order of   *)
(* ticks, "run now", failures, edits and restarts of either process: the   *)
(* traffic a quota or a report adds up is never more than what was moved.  *)
NoByteCountedTwice ==
    \A a, b \in samples :
        a # b /\ a.user = b.user /\ a.epoch = b.epoch => a.to <= b.from \/ b.to <= a.from

(* COUNTED BYTES WERE MOVED.  A row ends where the counter of its sing-box *)
(* process has been: after a restart of sing-box nothing of the old        *)
(* process is attributed to the new one beyond what the new one moved.     *)
CountedBytesWereMoved ==
    \A s \in samples : s.from < s.to /\ s.to <= moved[s.user][s.epoch]

(* PAUSE IS PROMPT.  Once the pause button has returned, no row appears    *)
(* until resume, not even from a run that was under way.                   *)
PauseIsPrompt == [][paused => samples' = samples]_vars

(* THE CACHE FOLLOWS THE FILE.  A cache that loadUsersIfNeeded would reuse *)
(* holds the active users of the file as it is now, however writes of the  *)
(* file fall between a run's Stat and its read, under the managed list of  *)
(* the time it was built.                                                  *)
CacheFollowsFile ==
    cachedMtime = mtime => cachedUsers = ActiveUsers(members, cachedFor)

=============================================================================
