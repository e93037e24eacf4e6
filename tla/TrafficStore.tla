----------------------------- MODULE TrafficStore -----------------------------
(***************************************************************************)
(* The two tables of sing-box traffic in core/store.go: samples, the raw   *)
(* rows of the sampler, and daily_usage, their sums per user and bucket of *)
(* eight hours; the maintenance goroutine of api/server.go that prunes and *)
(* compresses them; "prune now"; and GetCombinedReport, which reads both   *)
(* tables in two queries.                                                  *)
(*                                                                         *)
(* A statement or a transaction of SQLite is one step.  Bytes are          *)
(* abstracted to the rows that carry them: a sum in daily_usage is the set *)
(* of the rows it adds up, so that a byte lost or counted twice is a row   *)
(* in no place or in two.  The same maintenance goroutine has steps for    *)
(* the WireGuard tables and a VACUUM, which leave these two tables alone.  *)
(***************************************************************************)
EXTENDS Integers

CONSTANTS
    Users,
    Readers,       \* goroutines that build a report
    Windows,       \* what reports are asked for: a user, a start and an end
    NoWindow,      \* the window of an idle reader
    BucketSize,    \* 8 h, in clock units
    DaySize,       \* 24 h
    Limit,         \* what a time.Duration holds: 2^63 ns, in clock units
    MaxClock,      \* bound on the wall clock
    MaxRows,       \* bound on the rows ever recorded
    MaxDays        \* bound on the ages in days that are configured

ASSUME SizeAssumption == {BucketSize, DaySize, Limit} \subseteq Nat \ {0}

ASSUME BoundAssumption == MaxClock \in Nat /\ MaxRows \in Nat /\ MaxDays \in Nat

Times == 0..MaxClock

BucketRoundedUp(ts) ==  \* Mutant: the next bucket boundary.
    ((ts + BucketSize - 1) \div BucketSize) * BucketSize

(* The start of the bucket of ts: (ts / bucketSize) * bucketSize.          *)
Bucket(ts) == (ts \div BucketSize) * BucketSize

(* No two rows have the same id; the table knows only user and ts.         *)
Row == [id : 1..MaxRows, user : Users, ts : Times]

Window == [user : Users, start : Times, end : Times]

ASSUME WindowAssumption == Windows \subseteq Window

-----------------------------------------------------------------------------
VARIABLES
    clock,           \* time.Now().Unix(); it may also step back
    retentionDays,   \* Config.RetentionDays, 0 while RetentionEnabled is off
    aggregationDays, \* Config.AggregationDays, 0 while AggregationEnabled is off
    samples,         \* the table samples
    daily,           \* the table daily_usage: the rows summed per user and bucket
    maint,           \* where the maintenance goroutine is
    pc, window,      \* where each report is, and its user, start and end
    summed, raw,     \* the rows a report has found in daily_usage, in samples
    recorded,        \* history: the number of rows ever recorded
    forgotten,       \* history: the rows that retention deleted
    age              \* history: the days the last deletion was asked for, or 0

tables == <<samples, daily, recorded, forgotten, age>>
configVars == <<retentionDays, aggregationDays>>
reportVars == <<pc, window, summed, raw>>
vars == <<clock, configVars, tables, maint, reportVars>>

Keys == Users \X {Bucket(t) : t \in Times}

Aggregated == UNION {daily[k] : k \in Keys}

Kept == samples \cup Aggregated

TypeOK ==
    /\ clock \in Times
    /\ retentionDays \in 0..MaxDays
    /\ aggregationDays \in 0..MaxDays
    /\ samples \subseteq Row
    /\ daily \in [Keys -> SUBSET Row]
    /\ maint \in {"sleep", "prune", "compress"}
    /\ pc \in [Readers -> {"idle", "daily", "raw", "done"}]
    /\ window \in [Readers -> Windows \cup {NoWindow}]
    /\ summed \in [Readers -> SUBSET Row]
    /\ raw \in [Readers -> SUBSET Row]
    /\ recorded \in 0..MaxRows
    /\ forgotten \subseteq Row
    /\ age \in 0..MaxDays

Init ==
    /\ clock = 0
    /\ retentionDays \in 0..MaxDays
    /\ aggregationDays \in 0..MaxDays
    /\ samples = {}
    /\ daily = [k \in Keys |-> {}]
    /\ maint = "sleep"
    /\ pc = [q \in Readers |-> "idle"]
    /\ window = [q \in Readers |-> NoWindow]
    /\ summed = [q \in Readers |-> {}]
    /\ raw = [q \in Readers |-> {}]
    /\ recorded = 0
    /\ forgotten = {}
    /\ age = 0

-----------------------------------------------------------------------------
Tick == /\ clock' \in Times
        /\ UNCHANGED <<configVars, tables, maint, reportVars>>

(* Mutant: the settings are not clamped to one day.                        *)
UpdateFeaturesUnclamped ==
    /\ retentionDays' \in -1..MaxDays
    /\ aggregationDays' \in -1..MaxDays
    /\ UNCHANGED <<clock, tables, maint, reportVars>>

(* handleUpdateFeatures, as far as these tables are concerned; the         *)
(* goroutine reads the settings anew before each of its steps.             *)
UpdateFeatures ==
    /\ retentionDays' \in 0..MaxDays
    /\ aggregationDays' \in 0..MaxDays
    /\ UNCHANGED <<clock, tables, maint, reportVars>>

(* A row of BulkInsert: INSERT OR IGNORE under the index on user and ts.   *)
BulkInsert(u) ==
    /\ recorded < MaxRows
    /\ \A s \in samples : s.user # u \/ s.ts # clock
    /\ samples' = samples \cup {[id |-> recorded + 1, user |-> u, ts |-> clock]}
    /\ recorded' = recorded + 1
    /\ UNCHANGED <<clock, configVars, daily, forgotten, age, maint, reportVars>>

-----------------------------------------------------------------------------
OlderThan(cutoff) == {s \in samples : s.ts < cutoff}

(* DELETE FROM samples WHERE ts < cutoff.                                  *)
PruneOlderThan(cutoff) ==
    /\ samples' = samples \ OlderThan(cutoff)
    /\ forgotten' = forgotten \cup OlderThan(cutoff)
    /\ UNCHANGED <<daily, recorded>>

(* Mutant: the deletion takes the cutoff in, the sums leave it out.        *)
CompressDeletesOneMore(cutoff) ==
    /\ daily' = [k \in Keys |->
          daily[k] \cup {s \in OlderThan(cutoff) : <<s.user, Bucket(s.ts)>> = k}]
    /\ samples' = samples \ OlderThan(cutoff + 1)
    /\ UNCHANGED <<recorded, forgotten, age>>

(* The transaction: sum per user and bucket, upsert, delete, commit.       *)
CompressOldSamples(cutoff) ==
    /\ daily' = [k \in Keys |->
          daily[k] \cup {s \in OlderThan(cutoff) : <<s.user, Bucket(s.ts)>> = k}]
    /\ samples' = samples \ OlderThan(cutoff)
    /\ UNCHANGED <<recorded, forgotten, age>>

(* An int64 wraps around.                                                  *)
Wrap(x) == ((x + Limit) % (2 * Limit)) - Limit

(* time.Now().Add(-time.Duration(days) * 24 * time.Hour): the product is   *)
(* an int64 of nanoseconds, and days is only known to be positive.  From   *)
(* 106752 days on it wraps, and the cutoff may lie in the future.          *)
Cutoff(days) == clock + Wrap(-(days * DaySize))

(* A deletion of what is older than that many days.                        *)
PruneDays(days) == PruneOlderThan(Cutoff(days)) /\ age' = days

(* The ticker of 24 hours, or the first minute of the process.             *)
MaintenanceWakes ==
    /\ maint = "sleep"
    /\ maint' = "prune"
    /\ UNCHANGED <<clock, configVars, tables, reportVars>>

(* Retention, when it is on; its error is logged and ends nothing.         *)
MaintenancePrunes ==
    /\ maint = "prune"
    /\ maint' = "compress"
    /\ \/ retentionDays > 0 /\ PruneDays(retentionDays)
       \/ UNCHANGED tables
    /\ UNCHANGED <<clock, configVars, reportVars>>

(* Aggregation, when it is on; an error rolls the transaction back.        *)
MaintenanceCompresses ==
    /\ maint = "compress"
    /\ maint' = "sleep"
    /\ \/ aggregationDays > 0 /\ CompressOldSamples(Cutoff(aggregationDays))
       \/ UNCHANGED tables
    /\ UNCHANGED <<clock, configVars, reportVars>>

PruneNowUnchecked(days) ==  \* Mutant: zero days are not replaced.
    /\ PruneDays(days)
    /\ UNCHANGED <<clock, configVars, maint, reportVars>>

(* handlePruneNow: the days of the request, else the configured ones, else *)
(* 90; they are positive, whether or not retention is enabled.             *)
PruneNow(days) ==
    /\ days > 0
    /\ PruneDays(days)
    /\ UNCHANGED <<clock, configVars, maint, reportVars>>

-----------------------------------------------------------------------------
(* The rows that the query of window w selects.  A sum is selected by the  *)
(* start of its bucket.                                                    *)
InWindow(ts, w) == w.start <= ts /\ ts <= w.end

RawIn(w) == {s \in samples : s.user = w.user /\ InWindow(s.ts, w)}

SummedIn(w) == UNION {daily[k] : k \in {j \in Keys : j[1] = w.user /\ InWindow(j[2], w)}}

(* A report is asked for: handleGetReport loops over the users and calls   *)
(* GetCombinedReport for each.                                             *)
BeginReport(q) ==
    /\ pc[q] = "idle"
    /\ \E w \in Windows : window' = [window EXCEPT ![q] = w]
    /\ pc' = [pc EXCEPT ![q] = "daily"]
    /\ UNCHANGED <<clock, configVars, tables, maint, summed, raw>>

QueryDaily(q) ==
    /\ pc[q] = "daily"
    /\ summed' = [summed EXCEPT ![q] = SummedIn(window[q])]
    /\ pc' = [pc EXCEPT ![q] = "raw"]
    /\ UNCHANGED <<clock, configVars, tables, maint, window, raw>>

QueryRaw(q) ==
    /\ pc[q] = "raw"
    /\ raw' = [raw EXCEPT ![q] = RawIn(window[q])]
    /\ pc' = [pc EXCEPT ![q] = "done"]
    /\ UNCHANGED <<clock, configVars, tables, maint, window, summed>>

(* The sums are sent and the slot is free.                                 *)
EndReport(q) ==
    /\ pc[q] = "done"
    /\ pc' = [pc EXCEPT ![q] = "idle"]
    /\ summed' = [summed EXCEPT ![q] = {}]
    /\ raw' = [raw EXCEPT ![q] = {}]
    /\ window' = [window EXCEPT ![q] = NoWindow]
    /\ UNCHANGED <<clock, configVars, tables, maint>>

(* The panel dies between two statements and is started again.             *)
PanelRestart ==
    /\ maint' = "sleep"
    /\ pc' = [q \in Readers |-> "idle"]
    /\ summed' = [q \in Readers |-> {}]
    /\ raw' = [q \in Readers |-> {}]
    /\ window' = [q \in Readers |-> NoWindow]
    /\ UNCHANGED <<clock, configVars, tables>>

Maintenance == MaintenanceWakes \/ MaintenancePrunes \/ MaintenanceCompresses

(* Mutant: samples is queried before daily_usage.                          *)
QueryRawFirst(q) ==
    /\ pc[q] = "daily"
    /\ raw' = [raw EXCEPT ![q] = RawIn(window[q])]
    /\ pc' = [pc EXCEPT ![q] = "raw"]
    /\ UNCHANGED <<clock, configVars, tables, maint, window, summed>>

QueryDailySecond(q) ==
    /\ pc[q] = "raw"
    /\ summed' = [summed EXCEPT ![q] = SummedIn(window[q])]
    /\ pc' = [pc EXCEPT ![q] = "done"]
    /\ UNCHANGED <<clock, configVars, tables, maint, window, raw>>

ReportRawFirst(q) ==
    BeginReport(q) \/ QueryRawFirst(q) \/ QueryDailySecond(q) \/ EndReport(q)

Report(q) == BeginReport(q) \/ QueryDaily(q) \/ QueryRaw(q) \/ EndReport(q)

Next ==
    \/ Tick
    \/ UpdateFeatures
    \/ \E u \in Users : BulkInsert(u)
    \/ Maintenance
    \/ \E d \in 0..MaxDays : PruneNow(d)
    \/ \E q \in Readers : Report(q)
    \/ PanelRestart

Spec == Init /\ [][Next]_vars

-----------------------------------------------------------------------------
(* EVERY ROW HAS ONE PLACE.  A recorded row is raw, or summed in one bucket *)
(* of its user, or forgotten by retention, and never two of these: neither *)
(* the order of prune and compress, nor a clock that steps back into a     *)
(* bucket already compressed, nor a crash loses traffic or adds it twice.  *)
EveryRowHasOnePlace ==
    /\ {r.id : r \in Kept \cup forgotten} = 1..recorded
    /\ \A r, s \in Kept \cup forgotten : r.id = s.id => r = s
    /\ samples \cap Aggregated = {}
    /\ forgotten \cap Kept = {}
    /\ \A j, k \in Keys : j # k => daily[j] \cap daily[k] = {}

(* A REPORT COUNTS ONCE.  GetCombinedReport queries daily_usage first and  *)
(* samples second; a row that a compression moves in between is missed,    *)
(* but no row is ever counted by both queries.                             *)
ReportCountsOnce == \A q \in Readers : summed[q] \cap raw[q] = {}

(* A REPORT STAYS NEAR ITS WINDOW.  What a report counts is the traffic of *)
(* its user and, buckets being whole, ends less than one bucket after its  *)
(* end: rows moved between the tables are never attributed elsewhere.      *)
ReportStaysInWindow ==
    \A q \in Readers : \A r \in summed[q] \cup raw[q] :
        /\ r.user = window[q].user
        /\ window[q].start <= r.ts
        /\ r.ts < window[q].end + BucketSize

(* THE TABLES ARE A LEDGER.  Compression does not show; and a deletion     *)
(* forgets no row younger than the days it was asked for, provided that    *)
(* so many days fit a time.Duration: days that do not may forget any row.  *)
Ledger == INSTANCE TrafficLedger
             WITH today <- clock, kept <- Kept,
                  Fits <- {d \in Nat : d * DaySize <= Limit}

LedgerSpec == Ledger!LSpec

=============================================================================
