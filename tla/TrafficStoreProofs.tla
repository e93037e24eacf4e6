-------------------------- MODULE TrafficStoreProofs --------------------------
(* Proofs about TrafficStore, for every value of its constants.            *)
EXTENDS TrafficStore, TLAPS

(* What a report has found in daily_usage, when it turns to samples, is    *)
(* summed there for good; and a report knows its window until it ends.     *)
ReportInv ==
    \A q \in Readers :
        /\ pc[q] # "idle" => window[q] \in Windows
        /\ pc[q] \in {"idle", "daily"} => summed[q] = {}
        /\ pc[q] # "done" => raw[q] = {}
        /\ pc[q] = "raw" => summed[q] \subseteq Aggregated

(* The inductive invariant.                                                *)
IInv == TypeOK /\ EveryRowHasOnePlace /\ ReportCountsOnce /\ ReportInv

-----------------------------------------------------------------------------
(* The key under which a raw row is summed.                                *)
LEMMA KeyOfRow ==
    ASSUME NEW r \in Row
    PROVE  <<r.user, Bucket(r.ts)>> \in Keys
  BY DEF Row, Keys

LEMMA AggregatedIsTyped ==
    ASSUME TypeOK
    PROVE  Aggregated \subseteq Row /\ Kept \subseteq Row
  BY DEF TypeOK, Aggregated, Kept

(* A prune moves rows from samples to forgotten and nothing else.          *)
LEMMA PruneMovesRows ==
    ASSUME TypeOK, NEW cutoff \in Int, PruneOlderThan(cutoff)
    PROVE  /\ Aggregated' = Aggregated
           /\ samples' = samples \ OlderThan(cutoff)
           /\ forgotten' = forgotten \cup OlderThan(cutoff)
           /\ recorded' = recorded
           /\ daily' = daily
           /\ OlderThan(cutoff) \subseteq samples
           /\ \A r \in OlderThan(cutoff) : r.ts < cutoff
  BY DEF PruneOlderThan, Aggregated, OlderThan

(* A compression moves rows from samples to one bucket each.               *)
LEMMA CompressMovesRows ==
    ASSUME TypeOK, EveryRowHasOnePlace, NEW cutoff \in Int, CompressOldSamples(cutoff)
    PROVE  /\ Aggregated' = Aggregated \cup OlderThan(cutoff)
           /\ samples' = samples \ OlderThan(cutoff)
           /\ forgotten' = forgotten
           /\ age' = age
           /\ recorded' = recorded
           /\ daily' \in [Keys -> SUBSET Row]
           /\ OlderThan(cutoff) \subseteq samples
           /\ \A j, k \in Keys : j # k => daily'[j] \cap daily'[k] = {}
  <1> DEFINE moved(k) == {s \in OlderThan(cutoff) : <<s.user, Bucket(s.ts)>> = k}
  <1>1. OlderThan(cutoff) \subseteq samples /\ samples \subseteq Row
    BY DEF OlderThan, TypeOK
  <1>2. \A k \in Keys : moved(k) \subseteq OlderThan(cutoff)
    OBVIOUS
  <1>3. daily' = [k \in Keys |-> daily[k] \cup moved(k)]
    BY DEF CompressOldSamples
  <1>4. \A r \in OlderThan(cutoff) : \E k \in Keys : r \in moved(k)
    BY <1>1, KeyOfRow
  <1>5. \A j, k \in Keys : j # k => moved(j) \cap moved(k) = {}
    OBVIOUS
  <1> HIDE DEF moved
  <1>6. Aggregated' = Aggregated \cup OlderThan(cutoff)
    BY <1>2, <1>3, <1>4 DEF Aggregated
  <1>7. daily' \in [Keys -> SUBSET Row]
    BY <1>1, <1>2, <1>3 DEF TypeOK
  <1>8. ASSUME NEW j \in Keys, NEW k \in Keys, j # k
        PROVE  daily'[j] \cap daily'[k] = {}
    <2>1. /\ daily'[j] = daily[j] \cup moved(j)
          /\ daily'[k] = daily[k] \cup moved(k)
      BY <1>3
    <2>2. /\ daily[j] \subseteq Aggregated
          /\ daily[k] \subseteq Aggregated
          /\ daily[j] \cap daily[k] = {}
      BY <1>8 DEF Aggregated, EveryRowHasOnePlace
    <2>3. Aggregated \cap samples = {}
      BY DEF EveryRowHasOnePlace
    <2> QED
      BY <1>1, <1>2, <1>5, <1>8, <2>1, <2>2, <2>3
  <1> QED
    BY <1>1, <1>6, <1>7, <1>8 DEF CompressOldSamples

(* A new row has a new id.                                                 *)
LEMMA InsertAddsRow ==
    ASSUME TypeOK, EveryRowHasOnePlace, NEW u \in Users, BulkInsert(u)
    PROVE  \E r \in Row :
              /\ r \notin Kept \cup forgotten
              /\ r.id = recorded + 1
              /\ samples' = samples \cup {r}
              /\ recorded' = recorded + 1
              /\ recorded' \in 0..MaxRows
              /\ daily' = daily
              /\ forgotten' = forgotten
              /\ age' = age
              /\ Aggregated' = Aggregated
  <1> DEFINE r == [id |-> recorded + 1, user |-> u, ts |-> clock]
  <1>1. r \in Row /\ recorded + 1 \in 0..MaxRows
    BY BoundAssumption DEF TypeOK, BulkInsert, Row
  <1>2. \A s \in Kept \cup forgotten : s.id \in 1..recorded
    BY DEF EveryRowHasOnePlace
  <1>3. recorded + 1 \notin 1..recorded
    BY DEF TypeOK
  <1>4. r \notin Kept \cup forgotten
    BY <1>2, <1>3
  <1> QED
    BY <1>1, <1>4 DEF BulkInsert, Aggregated

-----------------------------------------------------------------------------
LEMMA InitEstablishesIInv ==
    ASSUME Init
    PROVE  IInv
  <1>1. TypeOK
    BY BoundAssumption DEF Init, TypeOK, Times
  <1>2. Aggregated = {} /\ Kept = {}
    BY DEF Init, Aggregated, Kept
  <1>3. EveryRowHasOnePlace
    BY <1>2 DEF Init, EveryRowHasOnePlace
  <1>4. ReportCountsOnce /\ ReportInv
    BY DEF Init, ReportCountsOnce, ReportInv
  <1> QED
    BY <1>1, <1>3, <1>4 DEF IInv

(* A number of days that fits counts back so many days.                    *)
LEMMA CutoffOfDays ==
    ASSUME TypeOK, NEW d \in Nat \ {0}
    PROVE  /\ Cutoff(d) \in Int
           /\ d * DaySize <= Limit => Cutoff(d) = clock - d * DaySize
  <1>1. d * DaySize \in Nat \ {0} /\ clock \in Int /\ Limit \in Nat \ {0}
    BY SizeAssumption DEF TypeOK, Times
  <1> DEFINE x == d * DaySize
  <1> HIDE DEF x
  <1>2. x \in Nat \ {0}
    BY <1>1 DEF x
  <1>3. (-x + Limit) % (2 * Limit) \in Int
    BY <1>1, <1>2
  <1>4. ASSUME x <= Limit
        PROVE  (-x + Limit) % (2 * Limit) = -x + Limit
    BY <1>1, <1>2, <1>4
  <1>5. Cutoff(d) = clock + (((-x + Limit) % (2 * Limit)) - Limit)
    BY DEF x, Cutoff, Wrap
  <1>6. Cutoff(d) \in Int
    BY <1>1, <1>3, <1>5
  <1>7. x <= Limit => Cutoff(d) = clock - x
    BY <1>1, <1>2, <1>4, <1>5
  <1> QED
    BY <1>6, <1>7 DEF x

(* What each kind of step does to the tables.                              *)
LEMMA TableStep ==
    ASSUME TypeOK, EveryRowHasOnePlace, Next
    PROVE  \/ UNCHANGED tables
           \/ \E u \in Users : BulkInsert(u)
           \/ \E d \in 1..MaxDays : /\ PruneDays(d)
                                    /\ Cutoff(d) \in Int
                                    /\ PruneOlderThan(Cutoff(d))
                                    /\ UNCHANGED <<clock, reportVars>>
           \/ \E cutoff \in Int : /\ CompressOldSamples(cutoff)
                                  /\ UNCHANGED <<clock, reportVars>>
  <1>0. ASSUME NEW d \in 0..MaxDays, d > 0
        PROVE  d \in 1..MaxDays /\ Cutoff(d) \in Int
    BY <1>0, BoundAssumption, CutoffOfDays
  <1>1. CASE Tick \/ UpdateFeatures \/ MaintenanceWakes \/ PanelRestart
    BY <1>1 DEF Tick, UpdateFeatures, MaintenanceWakes, PanelRestart, tables
  <1>2. CASE \E u \in Users : BulkInsert(u)
    BY <1>2
  <1>3. CASE MaintenancePrunes
    <2>1. CASE retentionDays > 0 /\ PruneDays(retentionDays)
      BY <1>0, <1>3, <2>1 DEF MaintenancePrunes, PruneDays, TypeOK
    <2> QED
      BY <1>3, <2>1 DEF MaintenancePrunes
  <1>4. CASE MaintenanceCompresses
    <2>1. CASE aggregationDays > 0 /\ CompressOldSamples(Cutoff(aggregationDays))
      BY <1>0, <1>4, <2>1 DEF MaintenanceCompresses, TypeOK
    <2> QED
      BY <1>4, <2>1 DEF MaintenanceCompresses
  <1>5. CASE \E d \in 0..MaxDays : PruneNow(d)
    BY <1>0, <1>5 DEF PruneNow, PruneDays
  <1>6. CASE \E q \in Readers : Report(q)
    BY <1>6 DEF Report, BeginReport, QueryDaily, QueryRaw, EndReport, tables
  <1> QED
    BY <1>1, <1>2, <1>3, <1>4, <1>5, <1>6 DEF Next, Maintenance

LEMMA PlacesStep ==
    ASSUME TypeOK, EveryRowHasOnePlace, Next
    PROVE  EveryRowHasOnePlace'
  <1>1. CASE UNCHANGED tables
    BY <1>1 DEF tables, EveryRowHasOnePlace, Kept, Aggregated
  <1>2. ASSUME NEW u \in Users, BulkInsert(u)
        PROVE  EveryRowHasOnePlace'
    <2>1. PICK r \in Row :
              /\ r \notin Kept \cup forgotten
              /\ r.id = recorded + 1
              /\ samples' = samples \cup {r}
              /\ recorded' = recorded + 1
              /\ recorded' \in 0..MaxRows
              /\ daily' = daily
              /\ forgotten' = forgotten
              /\ Aggregated' = Aggregated
      BY <1>2, InsertAddsRow
    <2>2. (Kept \cup forgotten)' = (Kept \cup forgotten) \cup {r}
      BY <2>1 DEF Kept
    <2>3. {x.id : x \in (Kept \cup forgotten)'} = 1..recorded'
      <3>1. {x.id : x \in (Kept \cup forgotten)'}
               = {x.id : x \in Kept \cup forgotten} \cup {recorded + 1}
        BY <2>1, <2>2
      <3>2. (1..recorded) \cup {recorded + 1} = 1..(recorded + 1)
        BY DEF TypeOK
      <3> QED
        BY <2>1, <3>1, <3>2 DEF EveryRowHasOnePlace
    <2>4. \A x \in Kept \cup forgotten : x.id # r.id
      <3>1. \A x \in Kept \cup forgotten : x.id \in 1..recorded
        BY DEF EveryRowHasOnePlace
      <3> QED
        BY <2>1, <3>1 DEF TypeOK
    <2>5. \A x, y \in (Kept \cup forgotten)' : x.id = y.id => x = y
      BY <2>2, <2>4 DEF EveryRowHasOnePlace
    <2>6. /\ samples' \cap Aggregated' = {}
          /\ forgotten' \cap Kept' = {}
      BY <2>1 DEF EveryRowHasOnePlace, Kept
    <2> QED
      BY <2>1, <2>3, <2>5, <2>6 DEF EveryRowHasOnePlace
  <1>3. ASSUME NEW cutoff \in Int, PruneOlderThan(cutoff)
        PROVE  EveryRowHasOnePlace'
    <2>1. /\ Aggregated' = Aggregated
          /\ samples' = samples \ OlderThan(cutoff)
          /\ forgotten' = forgotten \cup OlderThan(cutoff)
          /\ recorded' = recorded
          /\ daily' = daily
          /\ OlderThan(cutoff) \subseteq samples
      BY <1>3, PruneMovesRows
    <2>2. (Kept \cup forgotten)' = Kept \cup forgotten
      BY <2>1 DEF Kept
    <2>3. /\ samples' \cap Aggregated' = {}
          /\ forgotten' \cap Kept' = {}
      BY <2>1 DEF EveryRowHasOnePlace, Kept
    <2> QED
      BY <2>1, <2>2, <2>3 DEF EveryRowHasOnePlace
  <1>4. ASSUME NEW cutoff \in Int, CompressOldSamples(cutoff)
        PROVE  EveryRowHasOnePlace'
    <2>1. /\ Aggregated' = Aggregated \cup OlderThan(cutoff)
          /\ samples' = samples \ OlderThan(cutoff)
          /\ forgotten' = forgotten
          /\ recorded' = recorded
          /\ OlderThan(cutoff) \subseteq samples
          /\ \A j, k \in Keys : j # k => daily'[j] \cap daily'[k] = {}
      BY <1>4, CompressMovesRows
    <2>2. Kept' = Kept
      BY <2>1 DEF Kept
    <2>3. (Kept \cup forgotten)' = Kept \cup forgotten
      BY <2>1, <2>2
    <2>4. samples' \cap Aggregated' = {}
      BY <2>1 DEF EveryRowHasOnePlace
    <2> QED
      BY <2>1, <2>2, <2>3, <2>4 DEF EveryRowHasOnePlace
  <1> QED
    BY <1>1, <1>2, <1>3, <1>4, TableStep

LEMMA TypeStep ==
    ASSUME TypeOK, EveryRowHasOnePlace, Next
    PROVE  TypeOK'
  <1>1. /\ samples' \subseteq Row
        /\ daily' \in [Keys -> SUBSET Row]
        /\ recorded' \in 0..MaxRows
        /\ forgotten' \subseteq Row
        /\ age' \in 0..MaxDays
    <2>1. CASE UNCHANGED tables
      BY <2>1 DEF TypeOK, tables
    <2>2. CASE \E u \in Users : BulkInsert(u)
      BY <2>2, InsertAddsRow DEF TypeOK
    <2>3. CASE \E d \in 1..MaxDays : /\ PruneDays(d)
                                     /\ Cutoff(d) \in Int
                                     /\ PruneOlderThan(Cutoff(d))
      BY <2>3, PruneMovesRows, BoundAssumption DEF TypeOK, PruneDays
    <2>4. CASE \E cutoff \in Int : CompressOldSamples(cutoff)
      BY <2>4, CompressMovesRows DEF TypeOK
    <2> QED
      BY <2>1, <2>2, <2>3, <2>4, TableStep
  <1>2. /\ clock' \in Times
        /\ retentionDays' \in 0..MaxDays
        /\ aggregationDays' \in 0..MaxDays
        /\ maint' \in {"sleep", "prune", "compress"}
    BY DEF TypeOK, Next, Tick, UpdateFeatures, BulkInsert, Maintenance, MaintenanceWakes,
           MaintenancePrunes, MaintenanceCompresses, PruneNow, Report, BeginReport,
           QueryDaily, QueryRaw, EndReport, PanelRestart, configVars
  <1>3. /\ pc' \in [Readers -> {"idle", "daily", "raw", "done"}]
        /\ window' \in [Readers -> Windows \cup {NoWindow}]
        /\ summed' \in [Readers -> SUBSET Row]
        /\ raw' \in [Readers -> SUBSET Row]
    <2>1. CASE UNCHANGED reportVars
      BY <2>1 DEF TypeOK, reportVars
    <2>2. ASSUME NEW w
          PROVE  RawIn(w) \in SUBSET Row /\ SummedIn(w) \in SUBSET Row
      BY DEF TypeOK, RawIn, SummedIn
    <2>3. CASE \E q \in Readers : Report(q)
      <3>0. PICK q \in Readers : Report(q)
        BY <2>3
      <3>1. CASE BeginReport(q)
        BY <3>1 DEF BeginReport, TypeOK
      <3>2. CASE QueryDaily(q)
        BY <2>2, <3>2 DEF QueryDaily, TypeOK
      <3>3. CASE QueryRaw(q)
        BY <2>2, <3>3 DEF QueryRaw, TypeOK
      <3>4. CASE EndReport(q)
        BY <3>4 DEF EndReport, TypeOK
      <3> QED
        BY <3>0, <3>1, <3>2, <3>3, <3>4 DEF Report
    <2>4. CASE PanelRestart
      BY <2>4 DEF PanelRestart, TypeOK
    <2> QED
      BY <2>1, <2>3, <2>4
         DEF Next, Tick, UpdateFeatures, BulkInsert, Maintenance, MaintenanceWakes,
             MaintenancePrunes, MaintenanceCompresses, PruneNow
  <1> QED
    BY <1>1, <1>2, <1>3 DEF TypeOK

(* What is summed stays summed.                                            *)
LEMMA AggregatedGrows ==
    ASSUME TypeOK, EveryRowHasOnePlace, Next
    PROVE  Aggregated \subseteq Aggregated'
  <1>1. CASE UNCHANGED tables
    BY <1>1 DEF tables, Aggregated
  <1> QED
    BY <1>1, TableStep, InsertAddsRow, PruneMovesRows, CompressMovesRows

LEMMA ReportStep ==
    ASSUME IInv, Next
    PROVE  ReportCountsOnce' /\ ReportInv'
  <1> USE DEF IInv
  <1>1. Aggregated \subseteq Aggregated'
    BY AggregatedGrows
  <1>2. CASE UNCHANGED reportVars
    BY <1>1, <1>2 DEF reportVars, ReportCountsOnce, ReportInv
  <1>3. ASSUME NEW q \in Readers, Report(q)
        PROVE  ReportCountsOnce' /\ ReportInv'
    <2>1. UNCHANGED tables /\ Aggregated' = Aggregated
      BY <1>3 DEF Report, BeginReport, QueryDaily, QueryRaw, EndReport, tables, Aggregated
    <2>2. CASE BeginReport(q)
      BY <2>1, <2>2 DEF BeginReport, TypeOK, ReportCountsOnce, ReportInv
    <2>3. CASE QueryDaily(q)
      <3>1. SummedIn(window[q]) \subseteq Aggregated
        BY DEF SummedIn, Aggregated
      <3> HIDE DEF SummedIn
      <3> QED
        BY <2>1, <2>3, <3>1 DEF QueryDaily, TypeOK, ReportCountsOnce, ReportInv
    <2>4. CASE QueryRaw(q)
      <3>1. RawIn(window[q]) \cap Aggregated = {}
        BY DEF RawIn, EveryRowHasOnePlace
      <3>2. summed[q] \subseteq Aggregated
        BY <2>4 DEF QueryRaw, ReportInv
      <3> HIDE DEF RawIn
      <3> QED
        BY <2>1, <2>4, <3>1, <3>2 DEF QueryRaw, TypeOK, ReportCountsOnce, ReportInv
    <2>5. CASE EndReport(q)
      BY <2>1, <2>5 DEF EndReport, TypeOK, ReportCountsOnce, ReportInv
    <2> QED
      BY <1>3, <2>2, <2>3, <2>4, <2>5 DEF Report
  <1>4. CASE PanelRestart
    BY <1>4 DEF PanelRestart, ReportCountsOnce, ReportInv
  <1> QED
    BY <1>2, <1>3, <1>4
       DEF Next, Tick, UpdateFeatures, BulkInsert, Maintenance, MaintenanceWakes,
           MaintenancePrunes, MaintenanceCompresses, PruneNow

-----------------------------------------------------------------------------
THEOREM InductiveInvariant == Spec => []IInv
  <1>1. ASSUME IInv, UNCHANGED vars
        PROVE  IInv'
    BY <1>1 DEF IInv, vars, tables, configVars, reportVars, TypeOK, EveryRowHasOnePlace,
                ReportCountsOnce, ReportInv, Kept, Aggregated
  <1>2. IInv /\ [Next]_vars => IInv'
    BY <1>1, TypeStep, PlacesStep, ReportStep DEF IInv
  <1> QED
    BY <1>2, InitEstablishesIInv, PTL DEF Spec

(* Types, for every number of users, readers, rows and sizes of a bucket.  *)
THEOREM TypeCorrect == Spec => []TypeOK
  BY InductiveInvariant, PTL DEF IInv

(* No compression, prune, crash or clock step loses or doubles a row.      *)
THEOREM RowsHaveOnePlace == Spec => []EveryRowHasOnePlace
  BY InductiveInvariant, PTL DEF IInv

(* The order of the two queries keeps a report from counting a row twice.  *)
THEOREM ReportsCountOnce == Spec => []ReportCountsOnce
  BY InductiveInvariant, PTL DEF IInv

-----------------------------------------------------------------------------
LEMMA LedgerStep ==
    ASSUME IInv, Next
    PROVE  [Ledger!LNext]_<<clock, Kept, forgotten, age>>
  <1> USE DEF IInv
  <1>1. CASE UNCHANGED tables
    <2>1. UNCHANGED <<Kept, forgotten, age>>
      BY <1>1 DEF tables, Kept, Aggregated
    <2>2. clock' \in Times
      BY TypeStep DEF TypeOK
    <2> QED
      BY <2>1, <2>2 DEF Ledger!LNext, Ledger!Pass
  <1>2. ASSUME NEW u \in Users, BulkInsert(u)
        PROVE  Ledger!Record
    <2>1. PICK r \in Row : /\ r \notin Kept \cup forgotten
                           /\ samples' = samples \cup {r}
                           /\ forgotten' = forgotten
                           /\ age' = age
                           /\ Aggregated' = Aggregated
      BY <1>2, InsertAddsRow
    <2>2. Kept' = Kept \cup {r}
      BY <2>1 DEF Kept
    <2>3. clock' = clock
      BY <1>2 DEF BulkInsert
    <2> QED
      BY <2>1, <2>2, <2>3 DEF Ledger!Record
  <1>3. ASSUME NEW d \in 1..MaxDays, PruneDays(d), Cutoff(d) \in Int,
               PruneOlderThan(Cutoff(d)), UNCHANGED clock
        PROVE  Ledger!Forget
    <2>1. /\ Aggregated' = Aggregated
          /\ samples' = samples \ OlderThan(Cutoff(d))
          /\ forgotten' = forgotten \cup OlderThan(Cutoff(d))
          /\ OlderThan(Cutoff(d)) \subseteq samples
          /\ \A r \in OlderThan(Cutoff(d)) : r.ts < Cutoff(d)
      BY <1>3, PruneMovesRows
    <2>2. Kept' \subseteq Kept /\ Kept \ Kept' = OlderThan(Cutoff(d))
      BY <2>1 DEF Kept, EveryRowHasOnePlace
    <2>3. d \in Nat \ {0} /\ age' = d
      BY <1>3, BoundAssumption DEF PruneDays
    <2>4. d * DaySize <= Limit =>
            \A r \in Kept \ Kept' : r.ts < clock - d * DaySize
      BY <2>1, <2>2, <2>3, CutoffOfDays
    <2> HIDE DEF Cutoff
    <2> QED
      BY <1>3, <2>1, <2>2, <2>3, <2>4 DEF Ledger!Forget
  <1>4. ASSUME NEW cutoff \in Int, CompressOldSamples(cutoff), UNCHANGED clock
        PROVE  UNCHANGED <<clock, Kept, forgotten, age>>
    BY <1>4, CompressMovesRows DEF Kept
  <1> QED
    BY <1>1, <1>2, <1>3, <1>4, TableStep DEF Ledger!LNext, reportVars

(* The two tables implement the ledger: compression is invisible, and a    *)
(* deletion of so many days forgets only rows that are older, for every    *)
(* number of days that fits a time.Duration.                               *)
THEOREM ImplementsLedger == Spec => LedgerSpec
  <1>1. Init => Ledger!LInit
    BY DEF Init, Ledger!LInit, Kept, Aggregated
  <1>2. IInv /\ [Next]_vars => [Ledger!LNext]_<<clock, Kept, forgotten, age>>
    <2>1. ASSUME UNCHANGED vars
          PROVE  UNCHANGED <<clock, Kept, forgotten, age>>
      BY <2>1 DEF vars, tables, Kept, Aggregated
    <2> QED
      BY <2>1, LedgerStep
  <1> QED
    BY <1>1, <1>2, InductiveInvariant, PTL DEF Spec, LedgerSpec, Ledger!LSpec

-----------------------------------------------------------------------------
(* A row is summed under its own user and in its own bucket.               *)
RowsAreInTheirBuckets ==
    \A k \in Keys : \A r \in daily[k] : k = <<r.user, Bucket(r.ts)>>

LEMMA BucketIsNear ==
    ASSUME NEW ts \in Nat
    PROVE  Bucket(ts) <= ts /\ ts < Bucket(ts) + BucketSize /\ Bucket(ts) \in Int
  <1>1. /\ (ts \div BucketSize) * BucketSize <= ts
        /\ ts < (ts \div BucketSize) * BucketSize + BucketSize
    BY SizeAssumption
  <1>2. (ts \div BucketSize) * BucketSize \in Int
    BY SizeAssumption
  <1> QED
    BY <1>1, <1>2 DEF Bucket

LEMMA BucketStep ==
    ASSUME IInv, RowsAreInTheirBuckets, Next
    PROVE  RowsAreInTheirBuckets'
  <1> USE DEF IInv
  <1>1. CASE UNCHANGED daily
    BY <1>1 DEF RowsAreInTheirBuckets
  <1>2. ASSUME NEW cutoff \in Int, CompressOldSamples(cutoff)
        PROVE  RowsAreInTheirBuckets'
    <2> DEFINE moved(k) == {s \in OlderThan(cutoff) : <<s.user, Bucket(s.ts)>> = k}
    <2>1. \A k \in Keys : daily'[k] = daily[k] \cup moved(k)
      BY <1>2 DEF CompressOldSamples
    <2>2. \A k \in Keys : \A r \in moved(k) : k = <<r.user, Bucket(r.ts)>>
      OBVIOUS
    <2> HIDE DEF moved
    <2> QED
      BY <2>1, <2>2 DEF RowsAreInTheirBuckets
  <1>3. \A u \in Users : BulkInsert(u) => UNCHANGED daily
    BY DEF BulkInsert
  <1>4. \A cutoff \in Int : PruneOlderThan(cutoff) => UNCHANGED daily
    BY DEF PruneOlderThan
  <1> QED
    BY <1>1, <1>2, <1>3, <1>4, TableStep DEF tables

LEMMA WindowStep ==
    ASSUME IInv, RowsAreInTheirBuckets, ReportStaysInWindow, Next
    PROVE  ReportStaysInWindow'
  <1> USE DEF IInv
  <1> DEFINE Near(r, w) == /\ r.user = w.user
                           /\ w.start <= r.ts
                           /\ r.ts < w.end + BucketSize
  <1>1. CASE UNCHANGED reportVars
    BY <1>1 DEF reportVars, ReportStaysInWindow
  <1>2. ASSUME NEW q \in Readers, Report(q)
        PROVE  ReportStaysInWindow'
    <2>1. CASE BeginReport(q)
      <3>1. summed[q] = {} /\ raw[q] = {}
        BY <2>1 DEF BeginReport, ReportInv
      <3> QED
        BY <2>1, <3>1 DEF BeginReport, TypeOK, ReportStaysInWindow
    <2>2. CASE QueryDaily(q)
      <3>1. window[q] \in Window
        BY <2>2, WindowAssumption DEF QueryDaily, ReportInv
      <3>2. ASSUME NEW r \in SummedIn(window[q])
            PROVE  Near(r, window[q])
        <4>1. PICK k \in Keys : /\ k[1] = window[q].user
                               /\ window[q].start <= k[2]
                               /\ k[2] <= window[q].end
                               /\ r \in daily[k]
          BY DEF SummedIn, InWindow
        <4>2. k[1] = r.user /\ k[2] = Bucket(r.ts)
          BY <4>1 DEF RowsAreInTheirBuckets
        <4>3. r.ts \in Nat
          BY <4>1 DEF TypeOK, Row, Times
        <4>4. /\ Bucket(r.ts) <= r.ts
              /\ r.ts < Bucket(r.ts) + BucketSize
              /\ Bucket(r.ts) \in Int
          BY <4>3, BucketIsNear
        <4> HIDE DEF Bucket
        <4>5. window[q].start \in Int /\ window[q].end \in Int
          BY <3>1 DEF Window, Times
        <4> QED
          BY <4>1, <4>2, <4>3, <4>4, <4>5, SizeAssumption
      <3> HIDE DEF SummedIn
      <3> QED
        BY <2>2, <3>2 DEF QueryDaily, TypeOK, ReportStaysInWindow
    <2>3. CASE QueryRaw(q)
      <3>1. window[q] \in Window
        BY <2>3, WindowAssumption DEF QueryRaw, ReportInv
      <3>2. ASSUME NEW r \in RawIn(window[q])
            PROVE  Near(r, window[q])
        <4>1. r.ts \in Int /\ window[q].start \in Int /\ window[q].end \in Int
          BY <3>1 DEF RawIn, TypeOK, Row, Window, Times
        <4> QED
          BY <4>1, SizeAssumption DEF RawIn, InWindow
      <3> HIDE DEF RawIn
      <3> QED
        BY <2>3, <3>2 DEF QueryRaw, TypeOK, ReportStaysInWindow
    <2>4. CASE EndReport(q)
      BY <2>4 DEF EndReport, TypeOK, ReportStaysInWindow
    <2> QED
      BY <1>2, <2>1, <2>2, <2>3, <2>4 DEF Report
  <1>3. CASE PanelRestart
    BY <1>3 DEF PanelRestart, ReportStaysInWindow
  <1> QED
    BY <1>1, <1>2, <1>3
       DEF Next, Tick, UpdateFeatures, BulkInsert, Maintenance, MaintenanceWakes,
           MaintenancePrunes, MaintenanceCompresses, PruneNow

(* For every bucket size, a report attributes traffic to its user and to   *)
(* its window, give or take less than a bucket at the end.                 *)
THEOREM ReportsStayInWindow == Spec => []ReportStaysInWindow
  <1> DEFINE Inv == RowsAreInTheirBuckets /\ ReportStaysInWindow
  <1>1. Init => Inv
    BY DEF Init, RowsAreInTheirBuckets, ReportStaysInWindow
  <1>2. IInv /\ Inv /\ [Next]_vars => Inv'
    <2>1. ASSUME Inv, UNCHANGED vars
          PROVE  Inv'
      BY <2>1 DEF vars, tables, reportVars, RowsAreInTheirBuckets, ReportStaysInWindow
    <2> QED
      BY <2>1, BucketStep, WindowStep
  <1> QED
    BY <1>1, <1>2, InductiveInvariant, PTL DEF Spec
=============================================================================
