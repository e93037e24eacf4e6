------------------------- MODULE SingboxConfigProofs -------------------------
(***************************************************************************)
(* Proofs about SingboxConfig, for any number of handlers, tags, ports and *)
(* requests.  The inductive invariant adds to the checked invariants which *)
(* program counters imply which lock, and that an apply in progress, which *)
(* will clear the flag, leaves no drift uncovered meanwhile.               *)
(***************************************************************************)
EXTENDS SingboxConfig, TLAPS

(* A restore in progress has found a .bak file.                            *)
RestoreHasSource == \A h \in Handlers : pc[h] = "restoring" => backup # Missing

(* A handler between its read and its mark holds configMu.                 *)
EditorHoldsConfigMu ==
    \A h \in Handlers : pc[h] \in {"validated", "writing", "marking"} => configMu = h

(* An apply holds c.mu while systemctl runs.                               *)
ApplyHoldsCfgMu == \A h \in Handlers : pc[h] = "reloading" => cfgMu = h

(* The flag may be cleared at the end of an apply: no drift relies on it.  *)
ApplyLeavesNoDrift ==
    \A h \in Handlers :
        pc[h] = "reloading" /\ Drift /\ origin = "api" => Marking

(* The editor that left the file half-written is still there to write it.  *)
TornIsBeingWritten ==
    file \in {Empty, Torn} /\ origin = "api" => \E h \in Handlers : pc[h] = "writing"

(* Who has the file open shows in its history; and the text of an editor   *)
(* that is the only writer will go into an empty file.                     *)
WritersAreSeen ==
    \A h \in Handlers :
        /\ pc[h] = "restoring" => origin \in {"copy", "mixed"}
        /\ pc[h] = "writing" => origin \in {"api", "mixed"}
        /\ pc[h] = "writing" /\ origin = "api" => file = Empty

LockInv == EditorHoldsConfigMu /\ ApplyHoldsCfgMu

CoverInv == /\ ApplyLeavesNoDrift
            /\ PendingCoversDrift
            /\ TornIsBeingWritten
            /\ WritersAreSeen
            /\ NoLostEdit

IInv == TypeOK /\ RestoreHasSource /\ LockInv /\ CoverInv

-----------------------------------------------------------------------------
(* The initial states of the panel satisfy the inductive invariant.        *)
LEMMA InitEstablishesIInv == Init => IInv
<1> SUFFICES ASSUME Init PROVE IInv
  OBVIOUS
<1>1. {} \in Content
  BY DEF Content
<1>2. TypeOK
  BY <1>1 DEF Init, TypeOK, FileText, Origin, PC
<1>3. ~Drift
  BY SentinelAssumption DEF Init, Drift
<1>4. QED
  BY <1>2, <1>3, SentinelAssumption
  DEF Init, IInv, LockInv, CoverInv, RestoreHasSource, EditorHoldsConfigMu,
      ApplyHoldsCfgMu, ApplyLeavesNoDrift, PendingCoversDrift,
      TornIsBeingWritten, WritersAreSeen, NoLostEdit
(* No step leaves the types, and a restore in progress keeps its source.   *)
LEMMA TypeStep == TypeOK /\ RestoreHasSource /\ [Next]_vars => TypeOK' /\ RestoreHasSource'
<1> SUFFICES ASSUME TypeOK, RestoreHasSource, [Next]_vars
             PROVE  TypeOK' /\ RestoreHasSource'
  OBVIOUS
<1>0. {} \in Content
  BY DEF Content
<1> USE SentinelAssumption DEF TypeOK, RestoreHasSource, FileText, Over, CutShort, PC, Origin, Goto, Finish
<1>1. ASSUME NEW h \in Handlers, RequestEdit(h)
      PROVE  TypeOK' /\ RestoreHasSource'
  BY <1>1, <1>0 DEF RequestEdit
<1>2. ASSUME NEW h \in Handlers, LockAndModify(h)
      PROVE  TypeOK' /\ RestoreHasSource'
  BY <1>2, <1>0 DEF LockAndModify
<1>3. ASSUME NEW h \in Handlers, RejectEdit(h)
      PROVE  TypeOK' /\ RestoreHasSource'
  BY <1>3, <1>0 DEF RejectEdit
<1>4. ASSUME NEW h \in Handlers, TruncateFile(h)
      PROVE  TypeOK' /\ RestoreHasSource'
  BY <1>4, <1>0 DEF TruncateFile
<1>5. ASSUME NEW h \in Handlers, WriteFile(h)
      PROVE  TypeOK' /\ RestoreHasSource'
  BY <1>5, <1>0 DEF WriteFile
<1>6. ASSUME NEW h \in Handlers, WriteFails(h)
      PROVE  TypeOK' /\ RestoreHasSource'
  BY <1>6, <1>0 DEF WriteFails
<1>7. ASSUME NEW h \in Handlers, MarkSingboxPending(h)
      PROVE  TypeOK' /\ RestoreHasSource'
  BY <1>7, <1>0 DEF MarkSingboxPending
<1>8. ASSUME NEW h \in Handlers, RequestApply(h)
      PROVE  TypeOK' /\ RestoreHasSource'
  BY <1>8, <1>0 DEF RequestApply
<1>9. ASSUME NEW h \in Handlers, ReloadSingbox(h)
      PROVE  TypeOK' /\ RestoreHasSource'
  BY <1>9, <1>0 DEF ReloadSingbox
<1>10. ASSUME NEW h \in Handlers, ReloadFails(h)
      PROVE  TypeOK' /\ RestoreHasSource'
  BY <1>10, <1>0 DEF ReloadFails
<1>11. ASSUME NEW h \in Handlers, ClearPending(h)
      PROVE  TypeOK' /\ RestoreHasSource'
  BY <1>11, <1>0 DEF ClearPending
<1>12. ASSUME NEW h \in Handlers, BeginBackup(h)
      PROVE  TypeOK' /\ RestoreHasSource'
  BY <1>12, <1>0 DEF BeginBackup
<1>13. ASSUME NEW h \in Handlers, FinishBackup(h)
      PROVE  TypeOK' /\ RestoreHasSource'
  BY <1>13, <1>0 DEF FinishBackup
<1>14. ASSUME NEW h \in Handlers, BeginRestore(h)
      PROVE  TypeOK' /\ RestoreHasSource'
  BY <1>14, <1>0 DEF BeginRestore
<1>15. ASSUME NEW h \in Handlers, FinishRestore(h)
      PROVE  TypeOK' /\ RestoreHasSource'
  BY <1>15, <1>0 DEF FinishRestore
<1>16. ASSUME NEW h \in Handlers, CopyFails(h)
      PROVE  TypeOK' /\ RestoreHasSource'
  BY <1>16, <1>0 DEF CopyFails
<1>17. CASE StopService
  BY <1>17, <1>0 DEF StopService
<1>18. CASE StartService
  BY <1>18, <1>0 DEF StartService
<1>19. CASE SingboxLoads
  BY <1>19, <1>0 DEF SingboxLoads
<1>20. CASE PanelRestart
  BY <1>20, <1>0 DEF PanelRestart
<1>21. CASE UNCHANGED vars
  BY <1>21, <1>0 DEF vars
<1>22. QED
  BY <1>1, <1>2, <1>3, <1>4, <1>5, <1>6, <1>7, <1>8, <1>9, <1>10, <1>11, <1>12, <1>13, <1>14, <1>15, <1>16, <1>17, <1>18, <1>19, <1>20, <1>21
  DEF Next, Arrive, Serve, EditStep, ApplyStep, CopyStep, Service

(* The program counters tell who holds configMu and c.mu.                  *)
LEMMA LockStep == TypeOK /\ LockInv /\ [Next]_vars => LockInv'
<1> SUFFICES ASSUME TypeOK, LockInv, [Next]_vars
             PROVE  LockInv'
  OBVIOUS
<1> USE HandlerAssumption DEF TypeOK, LockInv, EditorHoldsConfigMu, ApplyHoldsCfgMu, Goto, Finish
<1>1. ASSUME NEW h \in Handlers, RequestEdit(h)
      PROVE  LockInv'
  BY <1>1 DEF RequestEdit
<1>2. ASSUME NEW h \in Handlers, LockAndModify(h)
      PROVE  LockInv'
  BY <1>2 DEF LockAndModify
<1>3. ASSUME NEW h \in Handlers, RejectEdit(h)
      PROVE  LockInv'
  BY <1>3 DEF RejectEdit
<1>4. ASSUME NEW h \in Handlers, TruncateFile(h)
      PROVE  LockInv'
  BY <1>4 DEF TruncateFile
<1>5. ASSUME NEW h \in Handlers, WriteFile(h)
      PROVE  LockInv'
  BY <1>5 DEF WriteFile
<1>6. ASSUME NEW h \in Handlers, WriteFails(h)
      PROVE  LockInv'
  BY <1>6 DEF WriteFails
<1>7. ASSUME NEW h \in Handlers, MarkSingboxPending(h)
      PROVE  LockInv'
  BY <1>7 DEF MarkSingboxPending
<1>8. ASSUME NEW h \in Handlers, RequestApply(h)
      PROVE  LockInv'
  BY <1>8 DEF RequestApply
<1>9. ASSUME NEW h \in Handlers, ReloadSingbox(h)
      PROVE  LockInv'
  BY <1>9 DEF ReloadSingbox
<1>10. ASSUME NEW h \in Handlers, ReloadFails(h)
      PROVE  LockInv'
  BY <1>10 DEF ReloadFails
<1>11. ASSUME NEW h \in Handlers, ClearPending(h)
      PROVE  LockInv'
  BY <1>11 DEF ClearPending
<1>12. ASSUME NEW h \in Handlers, BeginBackup(h)
      PROVE  LockInv'
  BY <1>12 DEF BeginBackup
<1>13. ASSUME NEW h \in Handlers, FinishBackup(h)
      PROVE  LockInv'
  BY <1>13 DEF FinishBackup
<1>14. ASSUME NEW h \in Handlers, BeginRestore(h)
      PROVE  LockInv'
  BY <1>14 DEF BeginRestore
<1>15. ASSUME NEW h \in Handlers, FinishRestore(h)
      PROVE  LockInv'
  BY <1>15 DEF FinishRestore
<1>16. ASSUME NEW h \in Handlers, CopyFails(h)
      PROVE  LockInv'
  BY <1>16 DEF CopyFails
<1>17. CASE StopService
  BY <1>17 DEF StopService
<1>18. CASE StartService
  BY <1>18 DEF StartService
<1>19. CASE SingboxLoads
  BY <1>19 DEF SingboxLoads
<1>20. CASE PanelRestart
  BY <1>20 DEF PanelRestart
<1>21. CASE UNCHANGED vars
  BY <1>21 DEF vars
<1>22. QED
  BY <1>1, <1>2, <1>3, <1>4, <1>5, <1>6, <1>7, <1>8, <1>9, <1>10, <1>11, <1>12, <1>13, <1>14, <1>15, <1>16, <1>17, <1>18, <1>19, <1>20, <1>21
  DEF Next, Arrive, Serve, EditStep, ApplyStep, CopyStep, Service

(* Drift stays covered, a torn file stays in the hands of its writer and a *)
(* validated edit stays an edit of what is on disk.                        *)
LEMMA CoverStep == TypeOK /\ LockInv /\ CoverInv /\ [Next]_vars => CoverInv'
<1> SUFFICES ASSUME TypeOK, LockInv, CoverInv, [Next]_vars
             PROVE  CoverInv'
  OBVIOUS
<1> USE HandlerAssumption, SentinelAssumption
    DEF TypeOK, LockInv, EditorHoldsConfigMu, ApplyHoldsCfgMu, CoverInv,
        ApplyLeavesNoDrift, PendingCoversDrift, TornIsBeingWritten, WritersAreSeen,
        NoLostEdit, Overlaps, Over, CutShort, FileText, Drift, Marking, Goto, Finish
<1>1. ASSUME NEW h \in Handlers, RequestEdit(h)
      PROVE  CoverInv'
  BY <1>1 DEF RequestEdit
<1>2. ASSUME NEW h \in Handlers, LockAndModify(h)
      PROVE  CoverInv'
  BY <1>2 DEF LockAndModify
<1>3. ASSUME NEW h \in Handlers, RejectEdit(h)
      PROVE  CoverInv'
  BY <1>3 DEF RejectEdit
<1>4. ASSUME NEW h \in Handlers, TruncateFile(h)
      PROVE  CoverInv'
  BY <1>4 DEF TruncateFile
<1>5. ASSUME NEW h \in Handlers, WriteFile(h)
      PROVE  CoverInv'
  BY <1>5 DEF WriteFile
<1>6. ASSUME NEW h \in Handlers, WriteFails(h)
      PROVE  CoverInv'
  BY <1>6 DEF WriteFails
<1>7. ASSUME NEW h \in Handlers, MarkSingboxPending(h)
      PROVE  CoverInv'
  BY <1>7 DEF MarkSingboxPending
<1>8. ASSUME NEW h \in Handlers, RequestApply(h)
      PROVE  CoverInv'
  BY <1>8 DEF RequestApply
<1>9. ASSUME NEW h \in Handlers, ReloadSingbox(h)
      PROVE  CoverInv'
  BY <1>9 DEF ReloadSingbox
<1>10. ASSUME NEW h \in Handlers, ReloadFails(h)
      PROVE  CoverInv'
  BY <1>10 DEF ReloadFails
<1>11. ASSUME NEW h \in Handlers, ClearPending(h)
      PROVE  CoverInv'
  BY <1>11 DEF ClearPending
<1>12. ASSUME NEW h \in Handlers, BeginBackup(h)
      PROVE  CoverInv'
  BY <1>12 DEF BeginBackup
<1>13. ASSUME NEW h \in Handlers, FinishBackup(h)
      PROVE  CoverInv'
  BY <1>13 DEF FinishBackup
<1>14. ASSUME NEW h \in Handlers, BeginRestore(h)
      PROVE  CoverInv'
  BY <1>14 DEF BeginRestore
<1>15. ASSUME NEW h \in Handlers, FinishRestore(h)
      PROVE  CoverInv'
  BY <1>15 DEF FinishRestore
<1>16. ASSUME NEW h \in Handlers, CopyFails(h)
      PROVE  CoverInv'
  BY <1>16 DEF CopyFails
<1>17. CASE StopService
  BY <1>17 DEF StopService
<1>18. CASE StartService
  BY <1>18 DEF StartService
<1>19. CASE SingboxLoads
  BY <1>19 DEF SingboxLoads
<1>20. CASE PanelRestart
  BY <1>20 DEF PanelRestart
<1>21. CASE UNCHANGED vars
  BY <1>21 DEF vars
<1>22. QED
  BY <1>1, <1>2, <1>3, <1>4, <1>5, <1>6, <1>7, <1>8, <1>9, <1>10, <1>11, <1>12, <1>13, <1>14, <1>15, <1>16, <1>17, <1>18, <1>19, <1>20, <1>21
  DEF Next, Arrive, Serve, EditStep, ApplyStep, CopyStep, Service

-----------------------------------------------------------------------------
(* The inductive invariant holds in every state of the panel.              *)
THEOREM InductiveInvariant == Spec => []IInv
<1>1. Init => IInv
  BY InitEstablishesIInv
<1>2. IInv /\ [Next]_vars => IInv'
  BY TypeStep, LockStep, CoverStep DEF IInv
<1>3. QED
  BY <1>1, <1>2, PTL DEF Spec

(* Every variable keeps its type.                                          *)
THEOREM TypeCorrect == Spec => []TypeOK
<1>1. IInv => TypeOK
  BY DEF IInv
<1>2. QED
  BY <1>1, InductiveInvariant, PTL

(* The flag SingboxPendingChanges covers every difference that the API's   *)
(* editors make between the file and the running service.                  *)
THEOREM PendingCovers == Spec => []PendingCoversDrift
<1>1. IInv => PendingCoversDrift
  BY DEF IInv, CoverInv
<1>2. QED
  BY <1>1, InductiveInvariant, PTL

(* Readers under configMu never meet the half-written file of an editor    *)
(* that wrote it alone: no restore and no failed write touched it.         *)
THEOREM EditorsLeaveWholeFiles == Spec => []TornOnlyUnderLock
<1>1. IInv => TornOnlyUnderLock
  BY HandlerAssumption
  DEF IInv, LockInv, CoverInv, TornIsBeingWritten, EditorHoldsConfigMu, TornOnlyUnderLock
<1>2. QED
  BY <1>1, InductiveInvariant, PTL

(* Read-modify-write under configMu loses no edit of another editor.       *)
THEOREM EditsAreNotLost == Spec => []NoLostEdit
<1>1. IInv => NoLostEdit
  BY DEF IInv, CoverInv
<1>2. QED
  BY <1>1, InductiveInvariant, PTL
=============================================================================
