------------------------- MODULE DownloadJobProofs -------------------------
(***************************************************************************)
(* The target of a download only ever shows the whole verified resource:   *)
(* proved for every number of concurrent attempts, every layout a holder   *)
(* may lie about, every window and every crash point; and a resume fetches *)
(* only what is missing.                                                   *)
(***************************************************************************)
EXTENDS DownloadJob, TLAPS

(* What the StateStore can hold.                                           *)
LEMMA CheckpointTypes ==
  /\ NoCheckpoint \in Checkpoints
  /\ TornCheckpoint \in Checkpoints
  /\ \A l \in 0..MaxCells, d \in SUBSET Cell : Saved(l, d) \in Checkpoints
BY ContentAssumption DEF NoCheckpoint, TornCheckpoint, Saved, Checkpoints

(* Type correctness of the job's memory and of the disk.                   *)
THEOREM TypeCorrect == Spec => []TypeOK
<1> USE ContentAssumption DEF Cell
<1>1. Init => TypeOK
  <2> SUFFICES ASSUME Init PROVE TypeOK
    OBVIOUS
  <2>1. EmptyFile \in [Cell -> Value]
    BY DEF EmptyFile, Value
  <2>2. /\ claims \in SUBSET Job
        /\ pc \in [Job -> Labels]
        /\ layout \in [Job -> 0..MaxCells]
        /\ resumeLayout \in [Job -> 0..MaxCells]
    BY DEF Init, Labels
  <2>3. resumeDone \in [Job -> SUBSET Cell] /\ fed \in [Job -> [Cell -> Value]]
    BY <2>1 DEF Init
  <2> QED BY <2>1, <2>2, <2>3, CheckpointTypes DEF Init, TypeOK
<1>2. TypeOK /\ [Next]_vars => TypeOK'
  <2> SUFFICES ASSUME TypeOK, [Next]_vars PROVE TypeOK'
    OBVIOUS
  <2> USE DEF TypeOK, diskVars, memVars, Goto, End, Labels
  <2>1. ASSUME NEW j \in Job, JobStep(j) PROVE TypeOK'
    <3>1. CASE Load(j)
      BY <3>1 DEF Load, Rebuilt, Checkpoints, EmptyFile, Value
    <3>2. CASE LoadFails(j)
      BY <3>2 DEF LoadFails, vars
    <3>3. CASE Claim(j)
      BY <3>3 DEF Claim
    <3>4. CASE ClaimRefused(j)
      BY <3>4 DEF ClaimRefused
    <3>5. CASE Locate(j)
      BY <3>5 DEF Locate
    <3>6. CASE LocateFails(j)
      BY <3>6 DEF LocateFails
    <3>7. CASE \E l \in Cell : Probe(j, l)
      BY <3>7 DEF Probe
    <3>8. CASE ProbeFails(j)
      BY <3>8 DEF ProbeFails
    <3>9. CASE KeepPlan(j)
      BY <3>9 DEF KeepPlan
    <3>10. CASE ResetPlan(j)
      BY <3>10, CheckpointTypes DEF ResetPlan
    <3>11. CASE ResetTruncate(j)
      BY <3>11 DEF ResetTruncate, Truncate, Value
    <3>12. CASE Persist(j)
      <4>1. Saved(layout[j], resumeDone[j]) \in Checkpoints
        BY CheckpointTypes
      <4>2. ckpt' \in Checkpoints
        BY <3>12, <4>1 DEF Persist
      <4> QED BY <3>12, <4>2 DEF Persist
    <3>13. CASE Rehydrate(j)
      <4>1. Rehydrated(j) \subseteq Cell
        BY DEF Rehydrated
      <4>2. fed' \in [Job -> [Cell -> Value]]
        BY <3>13 DEF Rehydrate, Value
      <4> QED BY <3>13, <4>1, <4>2 DEF Rehydrate
    <3>14. CASE \E i \in Cell, v \in Value : FetchRange(j, i, v)
      <4> PICK i \in Cell, v \in Value : FetchRange(j, i, v)
        BY <3>14
      <4>1. cell' \in [Cell -> Value]
        BY DEF FetchRange, WriteAt, Value
      <4>2. fed' \in [Job -> [Cell -> Value]]
        BY DEF FetchRange
      <4> QED BY <4>1, <4>2 DEF FetchRange
    <3>15. CASE Checkpoint(j)
      <4>1. Saved(resumeLayout[j], resumeDone[j]) \in Checkpoints
        BY CheckpointTypes
      <4>2. ckpt' \in Checkpoints
        BY <3>15, <4>1 DEF Checkpoint
      <4> QED BY <3>15, <4>2 DEF Checkpoint
    <3>16. CASE GiveUp(j)
      <4>1. Saved(resumeLayout[j], resumeDone[j]) \in Checkpoints
        BY CheckpointTypes
      <4>2. ckpt' \in Checkpoints
        BY <3>16, <4>1 DEF GiveUp, TryCheckpoint
      <4> QED BY <3>16, <4>2 DEF GiveUp
    <3>17. CASE VerifyLeaf(j)
      BY <3>17 DEF VerifyLeaf
    <3>18. CASE DiscardCheckpoint(j)
      BY <3>18, CheckpointTypes DEF DiscardCheckpoint
    <3>19. CASE DiscardBytes(j)
      BY <3>19 DEF DiscardBytes, Truncate, Value
    <3>20. CASE PromoteTruncate(j)
      BY <3>20 DEF PromoteTruncate, Truncate, Value
    <3>21. CASE PromoteProve(j)
      BY <3>21 DEF PromoteProve
    <3>22. CASE Finalize(j)
      BY <3>22 DEF Finalize, EmptyFile, Value
    <3>23. CASE ClearCheckpoint(j)
      BY <3>23, CheckpointTypes DEF ClearCheckpoint
    <3> QED
      BY <2>1, <3>1, <3>2, <3>3, <3>4, <3>5, <3>6, <3>7, <3>8, <3>9, <3>10,
         <3>11, <3>12, <3>13, <3>14, <3>15, <3>16, <3>17, <3>18, <3>19,
         <3>20, <3>21, <3>22, <3>23 DEF JobStep
  <2>2. ASSUME NEW j \in Job, Crash(j) \/ CrashInSave(j) PROVE TypeOK'
    BY <2>2, CheckpointTypes DEF Crash, CrashInSave
  <2>3. ASSUME NEW j \in Job, Pause(j) PROVE TypeOK'
    <3>1. Saved(resumeLayout[j], resumeDone[j]) \in Checkpoints
      BY CheckpointTypes
    <3>2. ckpt' \in Checkpoints
      BY <2>3, <3>1 DEF Pause, TryCheckpoint
    <3> QED BY <2>3, <3>2 DEF Pause
  <2>4. CASE Reap
    BY <2>4 DEF Reap, EmptyFile, Value
  <2>5. CASE BecomeCalm
    BY <2>5 DEF BecomeCalm
  <2>6. CASE UNCHANGED vars
    BY <2>6 DEF vars
  <2>7. ASSUME NEW j \in Job, NEW i \in Cell, NEW n \in Cell, NEW v \in Value,
               WriteInterrupted(j, i, v, n)
        PROVE  TypeOK'
    <3>1. cell' \in [Cell -> Value]
      BY <2>7 DEF WriteInterrupted, WriteAt, Value
    <3> QED BY <2>7, <3>1 DEF WriteInterrupted
  <2> QED BY <2>1, <2>2, <2>3, <2>4, <2>5, <2>6, <2>7 DEF Next
<1> QED BY <1>1, <1>2, PTL DEF Spec

(* While one registry is shared, only the job that holds the claim is past *)
(* it: no other job can touch the staging file.                            *)
LEMMA OnlyOwnerWorks ==
  ASSUME SharedRegistry, OwnsClaim, ExclusiveClaim,
         NEW j \in Job, pc[j] \notin {"idle", "claim"}
  PROVE  \A k \in Job : k # j => pc[k] \in {"idle", "claim"}
BY DEF OwnsClaim, ExclusiveClaim

(* What the promotion invariant says of the data, apart from the claims.   *)
DataInv == FedIsStaged /\ LeafBound /\ TailTrimmed /\ ArtifactVerified

(* A step that leaves the two files alone and moves no job forward keeps   *)
(* the data part.                                                          *)
LEMMA QuietStep ==
  ASSUME DataInv, UNCHANGED <<cell, target>>,
         \A k \in Job :
           /\ pc'[k] \in Holding =>
                pc[k] \in Holding /\ fed'[k] = fed[k] /\ layout'[k] = layout[k]
           /\ pc'[k] \in Promoting => pc[k] \in Promoting
           /\ pc'[k] \in {"promoteProve", "finalize"} =>
                pc[k] \in {"promoteProve", "finalize"}
  PROVE  DataInv'
<1>1. FedIsStaged'
  BY DEF DataInv, FedIsStaged
<1>2. LeafBound'
  BY DEF DataInv, LeafBound, Holding, Promoting
<1>3. TailTrimmed'
  BY DEF DataInv, TailTrimmed, Holding
<1>4. ArtifactVerified'
  BY DEF DataInv, ArtifactVerified, Truth, EmptyFile
<1> QED BY <1>1, <1>2, <1>3, <1>4 DEF DataInv

(* A step after which no job relies on the staging file keeps it too.      *)
LEMMA IdleStep ==
  ASSUME ArtifactVerified', \A k \in Job : pc'[k] \notin Holding
  PROVE  DataInv'
BY DEF DataInv, FedIsStaged, LeafBound, TailTrimmed, Holding, Promoting

(* The claim is taken before the work starts, given back when it ends, and *)
(* by nobody else.                                                         *)
LEMMA ClaimsKept ==
  ASSUME TypeOK, OwnsClaim, ExclusiveClaim, [Next]_vars
  PROVE  OwnsClaim' /\ ExclusiveClaim'
<1> USE DEF TypeOK, OwnsClaim, ExclusiveClaim, Goto, End
<1>1. ASSUME NEW j \in Job, JobStep(j) PROVE OwnsClaim' /\ ExclusiveClaim'
  <2>1. CASE Load(j) \/ LoadFails(j) \/ Claim(j) \/ ClaimRefused(j)
    BY <2>1 DEF Load, LoadFails, Claim, ClaimRefused, vars
  <2>2. CASE Locate(j) \/ LocateFails(j) \/ (\E l \in Cell : Probe(j, l)) \/ ProbeFails(j)
    BY <2>2 DEF Locate, LocateFails, Probe, ProbeFails
  <2>3. CASE KeepPlan(j) \/ ResetPlan(j) \/ ResetTruncate(j) \/ Persist(j)
    BY <2>3 DEF KeepPlan, ResetPlan, ResetTruncate, Persist
  <2>4. CASE \/ Rehydrate(j) \/ Checkpoint(j) \/ GiveUp(j) \/ VerifyLeaf(j)
             \/ \E i \in Cell, v \in Value : FetchRange(j, i, v)
    BY <2>4 DEF Rehydrate, FetchRange, Checkpoint, GiveUp, VerifyLeaf
  <2>5. CASE DiscardCheckpoint(j) \/ DiscardBytes(j) \/ PromoteTruncate(j)
    BY <2>5 DEF DiscardCheckpoint, DiscardBytes, PromoteTruncate
  <2>6. CASE PromoteProve(j) \/ Finalize(j) \/ ClearCheckpoint(j)
    BY <2>6 DEF PromoteProve, Finalize, ClearCheckpoint
  <2> QED BY <1>1, <2>1, <2>2, <2>3, <2>4, <2>5, <2>6 DEF JobStep
<1>2. ASSUME NEW j \in Job, Pause(j) \/ Crash(j) \/ CrashInSave(j)
      PROVE  OwnsClaim' /\ ExclusiveClaim'
  BY <1>2 DEF Pause, Crash, CrashInSave
<1>3. ASSUME NEW j \in Job, NEW i \in Cell, NEW n \in Cell, NEW v \in Value,
             WriteInterrupted(j, i, v, n)
      PROVE  OwnsClaim' /\ ExclusiveClaim'
  BY <1>3 DEF WriteInterrupted
<1>4. CASE Reap \/ BecomeCalm \/ UNCHANGED vars
  BY <1>4 DEF Reap, BecomeCalm, vars
<1> QED BY <1>1, <1>2, <1>3, <1>4 DEF Next

(* A step of one job keeps the data part: its own files are touched only   *)
(* by the claim holder.                                                    *)
LEMMA JobStepKeepsData ==
  ASSUME SharedRegistry, VerifyWhole, TypeOK, OwnsClaim, ExclusiveClaim,
         DataInv, NEW j \in Job, JobStep(j)
  PROVE  DataInv'
<1> USE ContentAssumption DEF Goto, End, diskVars, memVars
<1>1. CASE Load(j) \/ LoadFails(j) \/ Claim(j) \/ ClaimRefused(j)
  BY <1>1, QuietStep
  DEF Load, LoadFails, Claim, ClaimRefused, vars, TypeOK, Holding, Promoting
<1>2. CASE Locate(j) \/ LocateFails(j) \/ (\E l \in Cell : Probe(j, l)) \/ ProbeFails(j)
  BY <1>2, QuietStep
  DEF Locate, LocateFails, Probe, ProbeFails, TypeOK, Holding, Promoting
<1>3. CASE KeepPlan(j) \/ ResetPlan(j) \/ Persist(j)
  BY <1>3, QuietStep DEF KeepPlan, ResetPlan, Persist, TypeOK, Holding, Promoting
<1>4. CASE Checkpoint(j) \/ GiveUp(j) \/ DiscardCheckpoint(j)
  BY <1>4, QuietStep
  DEF Checkpoint, GiveUp, DiscardCheckpoint, TypeOK, Holding, Promoting
<1>5. CASE PromoteProve(j) \/ ClearCheckpoint(j)
  BY <1>5, QuietStep DEF PromoteProve, ClearCheckpoint, TypeOK, Holding, Promoting
<1>6. CASE ResetTruncate(j) \/ DiscardBytes(j)
  <2>1. \A k \in Job : pc'[k] \notin Holding
    BY <1>6, OnlyOwnerWorks DEF ResetTruncate, DiscardBytes, TypeOK, Holding
  <2>2. ArtifactVerified'
    BY <1>6 DEF ResetTruncate, DiscardBytes, DataInv, ArtifactVerified, Truth, EmptyFile
  <2> QED BY <2>1, <2>2, IdleStep
<1>7. CASE Rehydrate(j)
  <2>1. \A k \in Job : k # j => pc'[k] \in {"idle", "claim"}
    BY <1>7, OnlyOwnerWorks DEF Rehydrate, TypeOK
  <2>2. pc'[j] = "fetch"
    BY <1>7 DEF Rehydrate, TypeOK
  <2>3. \A c \in Cell : fed'[j][c] # "none" =>
                          c <= layout'[j] /\ cell'[c] = fed'[j][c]
    BY <1>7 DEF Rehydrate, TypeOK, CellsOf, RangeCells, Cell
  <2>4. FedIsStaged'
    BY <2>1, <2>2, <2>3 DEF FedIsStaged, Holding
  <2> QED
    BY <1>7, <2>1, <2>2, <2>4
    DEF Rehydrate, DataInv, LeafBound, TailTrimmed, Promoting,
        ArtifactVerified, Truth, EmptyFile
<1>8. CASE \E i \in Cell, v \in Value : FetchRange(j, i, v)
  <2> PICK i \in Cell, v \in Value : FetchRange(j, i, v)
    BY <1>8
  <2>1. \A k \in Job : k # j => pc'[k] \in {"idle", "claim"}
    BY OnlyOwnerWorks DEF FetchRange, TypeOK
  <2>2. pc'[j] = "checkpoint" /\ pc[j] = "fetch"
    BY DEF FetchRange, TypeOK
  <2>3. \A c \in CellsOf(j, i) : c <= layout[j]
    BY DEF TypeOK, CellsOf, RangeCells
  <2>4. ASSUME NEW c \in Cell, fed'[j][c] # "none"
        PROVE  c <= layout'[j] /\ cell'[c] = fed'[j][c]
    <3>1. fed'[j][c] = IF c \in CellsOf(j, i) THEN v ELSE fed[j][c]
      BY DEF FetchRange, TypeOK
    <3>2. cell'[c] = IF c \in CellsOf(j, i) THEN v
                     ELSE IF cell[c] = "none" /\ \E d \in CellsOf(j, i) : c < d
                          THEN "hole" ELSE cell[c]
      BY DEF FetchRange, WriteAt
    <3>3. fed[j][c] # "none" => c <= layout[j] /\ cell[c] = fed[j][c]
      BY <2>2 DEF DataInv, FedIsStaged, Holding
    <3> QED BY <2>3, <2>4, <3>1, <3>2, <3>3 DEF FetchRange
  <2>5. FedIsStaged'
    BY <2>1, <2>2, <2>4 DEF FedIsStaged, Holding
  <2> QED
    BY <2>1, <2>2, <2>5
    DEF FetchRange, DataInv, LeafBound, TailTrimmed, Promoting,
        ArtifactVerified, Truth, EmptyFile
<1>9. CASE VerifyLeaf(j)
  <2>1. \A k \in Job : k # j => pc'[k] \in {"idle", "claim"}
    BY <1>9, OnlyOwnerWorks DEF VerifyLeaf, TypeOK
  <2>2. /\ pc[j] = "fetch"
        /\ pc'[j] = IF LeafVerifies(j) THEN "promoteTruncate" ELSE "discard"
    BY <1>9 DEF VerifyLeaf, TypeOK
  <2>3. FedIsStaged'
    BY <1>9, <2>1, <2>2 DEF VerifyLeaf, DataInv, FedIsStaged, Holding
  <2>4. LeafBound'
    BY <1>9, <2>1, <2>2 DEF VerifyLeaf, LeafVerifies, LeafBound, Promoting
  <2>5. TailTrimmed' /\ ArtifactVerified'
    BY <1>9, <2>1, <2>2 DEF VerifyLeaf, DataInv, TailTrimmed, ArtifactVerified, Truth, EmptyFile
  <2> QED BY <2>3, <2>4, <2>5 DEF DataInv
<1>10. CASE PromoteTruncate(j)
  <2>1. \A k \in Job : k # j => pc'[k] \in {"idle", "claim"}
    BY <1>10, OnlyOwnerWorks DEF PromoteTruncate, TypeOK
  <2>2. CASE cell' = Truncate(cell, layout[j]) /\ Goto(j, "promoteProve")
    <3>1. pc[j] = "promoteTruncate" /\ pc'[j] = "promoteProve"
      BY <1>10, <2>2 DEF PromoteTruncate, TypeOK
    <3>2. \A c \in Cell : cell'[c] = IF c <= layout[j] THEN cell[c] ELSE "none"
      BY <2>2 DEF Truncate
    <3>3. UNCHANGED <<layout, fed, target>>
      BY <1>10 DEF PromoteTruncate
    <3>4. FedIsStaged'
      BY <2>1, <3>1, <3>2, <3>3 DEF DataInv, FedIsStaged, Holding
    <3>5. LeafBound'
      BY <2>1, <3>1, <3>3 DEF DataInv, LeafBound, Promoting
    <3>6. \A c \in Cell : c > layout[j] => ~(c <= layout[j])
      BY DEF TypeOK, Cell
    <3>7. TailTrimmed'
      BY <2>1, <3>1, <3>2, <3>3, <3>6 DEF TailTrimmed
    <3> QED BY <3>3, <3>4, <3>5, <3>7 DEF DataInv, ArtifactVerified, Truth, EmptyFile
  <2>3. CASE UNCHANGED cell /\ Goto(j, "discard")
    BY <1>10, <2>3, QuietStep DEF PromoteTruncate, TypeOK, Holding, Promoting
  <2> QED BY <1>10, <2>2, <2>3 DEF PromoteTruncate
<1>11. CASE Finalize(j)
  <2>1. \A k \in Job : pc'[k] \notin Holding
    BY <1>11, OnlyOwnerWorks DEF Finalize, TypeOK, Holding
  <2>2. cell = Truth
    <3>1. pc[j] = "finalize"
      BY <1>11 DEF Finalize
    <3>2. layout[j] = TrueLen /\ \A c \in 1..TrueLen : fed[j][c] = "good"
      BY <3>1 DEF DataInv, LeafBound, Promoting
    <3>3. \A c \in Cell : c <= TrueLen => cell[c] = "good"
      BY <3>1, <3>2 DEF DataInv, FedIsStaged, Holding, Cell
    <3>4. \A c \in Cell : ~(c <= TrueLen) => cell[c] = "none"
      BY <3>1, <3>2 DEF DataInv, TailTrimmed, Cell
    <3> QED BY <3>3, <3>4 DEF Truth, TypeOK
  <2>3. ArtifactVerified'
    BY <1>11, <2>2 DEF Finalize, DataInv, ArtifactVerified, Truth, EmptyFile
  <2> QED BY <2>1, <2>3, IdleStep
<1> QED
  BY <1>1, <1>2, <1>3, <1>4, <1>5, <1>6, <1>7, <1>8, <1>9, <1>10, <1>11
  DEF JobStep

(* The promotion invariant is inductive.                                   *)
LEMMA PromotionInvInductive ==
  ASSUME SharedRegistry, VerifyWhole, TypeOK, PromotionInv, [Next]_vars
  PROVE  PromotionInv'
<1> USE DEF PromotionInv
<1>1. DataInv
  BY DEF DataInv
<1>2. OwnsClaim' /\ ExclusiveClaim'
  BY ClaimsKept
<1>3. ASSUME NEW j \in Job, JobStep(j) PROVE DataInv'
  BY <1>1, <1>3, JobStepKeepsData
<1>4. ASSUME NEW j \in Job, Pause(j) \/ Crash(j) \/ CrashInSave(j) PROVE DataInv'
  BY <1>1, <1>4, QuietStep
  DEF Pause, Crash, CrashInSave, End, diskVars, memVars, TypeOK, Holding, Promoting
<1>5. ASSUME Reap PROVE DataInv'
  <2>1. \A k \in Job : pc'[k] \notin Holding
    BY <1>5 DEF Reap, OwnsClaim, Holding
  <2>2. ArtifactVerified'
    BY <1>1, <1>5 DEF Reap, DataInv, ArtifactVerified, Truth, EmptyFile
  <2> QED BY <2>1, <2>2, IdleStep
<1>6. ASSUME BecomeCalm \/ UNCHANGED vars PROVE DataInv'
  BY <1>1, <1>6, QuietStep DEF BecomeCalm, vars, diskVars, memVars
<1>7. ASSUME NEW j \in Job, NEW i \in Cell, NEW n \in Cell, NEW v \in Value,
             WriteInterrupted(j, i, v, n)
      PROVE  DataInv'
  <2>1. \A k \in Job : pc'[k] \notin Holding
    BY <1>7, OnlyOwnerWorks DEF WriteInterrupted, End, TypeOK, Holding
  <2>2. ArtifactVerified'
    BY <1>1, <1>7 DEF WriteInterrupted, DataInv, ArtifactVerified, Truth, EmptyFile
  <2> QED BY <2>1, <2>2, IdleStep
<1>8. DataInv'
  BY <1>3, <1>4, <1>5, <1>6, <1>7 DEF Next
<1> QED BY <1>2, <1>8 DEF DataInv

(* Whatever holders serve and wherever attempts crash, the target path     *)
(* shows nothing or the whole verified resource (promote_verified behind   *)
(* verify_resource_leaf), for any number of concurrent attempts of one     *)
(* Downloader with the whole-resource check on.                            *)
THEOREM PromotionSafety ==
  ASSUME SharedRegistry, VerifyWhole
  PROVE  Spec => []ArtifactVerified
<1>1. Init => PromotionInv
  BY DEF Init, PromotionInv, OwnsClaim, ExclusiveClaim, FedIsStaged,
         LeafBound, TailTrimmed, ArtifactVerified, Holding, Promoting
<1>2. TypeOK /\ PromotionInv /\ [Next]_vars => PromotionInv'
  BY PromotionInvInductive
<1>3. PromotionInv => ArtifactVerified
  BY DEF PromotionInv
<1> QED BY <1>1, <1>2, <1>3, TypeCorrect, PTL DEF Spec

(* A download implements VerifiedArtifact: seen through its target path it *)
(* does nothing but promote the verified resource.                         *)
THEOREM Refinement ==
  ASSUME SharedRegistry, VerifyWhole
  PROVE  Spec => ArtifactSpec
<1>1. Init => Artifact!Init
  BY DEF Init, Artifact!Init
<1>2. TypeOK /\ ArtifactVerified /\ ArtifactVerified' /\ [Next]_vars
        => [Artifact!Next]_(IF target = EmptyFile THEN "absent"
                            ELSE IF target = Truth THEN "verified" ELSE "corrupt")
  <2> SUFFICES ASSUME ArtifactVerified, ArtifactVerified', [Next]_vars,
                      target' # target
               PROVE  Artifact!Next
    BY DEF EmptyFile, Truth
  <2>1. PICK j \in Job : Finalize(j)
    BY ZenonT(40) DEF Next, JobStep, vars, diskVars, Load, LoadFails, Claim, ClaimRefused,
       Locate, LocateFails, Probe, ProbeFails, KeepPlan, ResetPlan,
       ResetTruncate, Persist, Rehydrate, FetchRange, Checkpoint, GiveUp,
       VerifyLeaf, DiscardCheckpoint, DiscardBytes, PromoteTruncate,
       PromoteProve, ClearCheckpoint, Pause, WriteInterrupted, Crash,
       CrashInSave, Reap, BecomeCalm
  <2>2. cell # EmptyFile /\ target' = cell
    BY <2>1 DEF Finalize
  <2>3. target' = Truth /\ target' # EmptyFile
    BY <2>2 DEF ArtifactVerified, Truth, EmptyFile
  <2> QED BY <2>3 DEF Artifact!Next, Artifact!Promote, Truth, EmptyFile
<1> QED
  BY <1>1, <1>2, TypeCorrect, PromotionSafety, PTL
  DEF Spec, ArtifactSpec, Artifact!Spec

-----------------------------------------------------------------------------
(* What is promoted is what the attempt itself fetched or read back,       *)
(* whether the leaf is checked or not: a range counted as done has been    *)
(* fed to the hasher, and past the leaf check nothing is missing from it.  *)
DoneIsFed ==
  \A j \in Job : pc[j] \in {"fetch", "checkpoint"} =>
    \A i \in Planned(j) \cap resumeDone[j] :
      \A c \in CellsOf(j, i) : fed[j][c] # "none"

AllFed ==
  \A j \in Job : pc[j] \in Promoting =>
    \A c \in 1..layout[j] : fed[j][c] # "none"

FedInv == FedIsStaged /\ TailTrimmed /\ DoneIsFed /\ AllFed

(* The ranges of a plan cover its layout.                                  *)
LEMMA RangesCover ==
  ASSUME NEW l \in Nat, NEW w \in Nat \ {0}, NEW c \in 1..l
  PROVE  \E i \in Ranges(l, w) : c \in RangeCells(l, w, i)
<1> DEFINE q == (c - 1) \div w
<1>1. q \in Nat /\ q <= c - 1
  OBVIOUS
<1>2. q + 1 \in 1..l /\ q = (q + 1) - 1
  BY <1>1
<1>3. c \in RangeCells(l, w, q + 1)
  BY <1>2 DEF RangeCells
<1> QED BY <1>2, <1>3 DEF Ranges

(* A step that leaves the staging file alone and moves no job forward      *)
(* keeps it.                                                               *)
LEMMA QuietFed ==
  ASSUME FedInv, UNCHANGED cell,
         \A k \in Job :
           /\ pc'[k] \in Holding =>
                /\ pc[k] \in Holding
                /\ fed'[k] = fed[k] /\ layout'[k] = layout[k]
           /\ pc'[k] \in {"fetch", "checkpoint"} =>
                /\ pc[k] \in {"fetch", "checkpoint"}
                /\ resumeDone'[k] = resumeDone[k] /\ window'[k] = window[k]
           /\ pc'[k] \in Promoting => pc[k] \in Promoting
           /\ pc'[k] \in {"promoteProve", "finalize"} =>
                pc[k] \in {"promoteProve", "finalize"}
  PROVE  FedInv'
<1>1. FedIsStaged'
  BY DEF FedInv, FedIsStaged
<1>2. TailTrimmed'
  BY DEF FedInv, TailTrimmed, Holding
<1>3. DoneIsFed'
  BY DEF FedInv, DoneIsFed, Holding, Planned, CellsOf
<1>4. AllFed'
  BY DEF FedInv, AllFed, Holding, Promoting
<1> QED BY <1>1, <1>2, <1>3, <1>4 DEF FedInv

(* A step after which no job relies on the staging file keeps it.          *)
LEMMA IdleFed ==
  ASSUME \A k \in Job : pc'[k] \notin Holding
  PROVE  FedInv'
BY DEF FedInv, FedIsStaged, TailTrimmed, DoneIsFed, AllFed, Holding, Promoting

(* A step of one job keeps it.                                             *)
LEMMA JobStepKeepsFed ==
  ASSUME SharedRegistry, TypeOK, OwnsClaim, ExclusiveClaim, FedInv,
         NEW j \in Job, JobStep(j)
  PROVE  FedInv'
<1> USE ContentAssumption DEF Goto, End, diskVars, memVars
<1>1. CASE Load(j) \/ LoadFails(j) \/ Claim(j) \/ ClaimRefused(j)
  BY <1>1, QuietFed
  DEF Load, LoadFails, Claim, ClaimRefused, vars, TypeOK, Holding, Promoting
<1>2. CASE Locate(j) \/ LocateFails(j) \/ (\E l \in Cell : Probe(j, l)) \/ ProbeFails(j)
  BY <1>2, QuietFed
  DEF Locate, LocateFails, Probe, ProbeFails, TypeOK, Holding, Promoting
<1>3. CASE KeepPlan(j) \/ ResetPlan(j) \/ Persist(j)
  BY <1>3, QuietFed DEF KeepPlan, ResetPlan, Persist, TypeOK, Holding, Promoting
<1>4. CASE Checkpoint(j) \/ GiveUp(j) \/ DiscardCheckpoint(j)
  BY <1>4, QuietFed
  DEF Checkpoint, GiveUp, DiscardCheckpoint, TypeOK, Holding, Promoting
<1>5. CASE PromoteProve(j) \/ ClearCheckpoint(j)
  BY <1>5, QuietFed DEF PromoteProve, ClearCheckpoint, TypeOK, Holding, Promoting
<1>6. CASE ResetTruncate(j) \/ DiscardBytes(j)
  <2>1. \A k \in Job : pc'[k] \notin Holding
    BY <1>6, OnlyOwnerWorks DEF ResetTruncate, DiscardBytes, TypeOK, Holding
  <2> QED BY <2>1, IdleFed
<1>7. CASE Rehydrate(j)
  <2>1. \A k \in Job : k # j => pc'[k] \in {"idle", "claim"}
    BY <1>7, OnlyOwnerWorks DEF Rehydrate, TypeOK
  <2>2. pc'[j] = "fetch"
    BY <1>7 DEF Rehydrate, TypeOK
  <2>3. \A c \in Cell : fed'[j][c] # "none" =>
                          c <= layout'[j] /\ cell'[c] = fed'[j][c]
    BY <1>7 DEF Rehydrate, TypeOK, CellsOf, RangeCells, Cell
  <2>4. ASSUME NEW i \in Planned(j)' \cap resumeDone'[j], NEW c \in CellsOf(j, i)'
        PROVE  fed'[j][c] # "none"
    <3>1. i \in Rehydrated(j)
      BY <1>7 DEF Rehydrate, TypeOK, Planned
    <3>2. c \in CellsOf(j, i) /\ c \in Cell
      BY <1>7 DEF Rehydrate, TypeOK, CellsOf, RangeCells, Cell
    <3>3. cell[c] # "none"
      BY <3>1, <3>2 DEF Rehydrated, Readable
    <3>4. fed'[j][c] = cell[c]
      BY <1>7, <3>1, <3>2 DEF Rehydrate, TypeOK
    <3> QED BY <3>3, <3>4
  <2>5. FedIsStaged'
    BY <2>1, <2>2, <2>3 DEF FedIsStaged, Holding
  <2>6. DoneIsFed'
    BY <2>1, <2>2, <2>4 DEF DoneIsFed
  <2>7. TailTrimmed' /\ AllFed'
    BY <2>1, <2>2 DEF TailTrimmed, AllFed, Promoting
  <2> QED BY <2>5, <2>6, <2>7 DEF FedInv
<1>8. CASE \E i \in Cell, v \in Value : FetchRange(j, i, v)
  <2> PICK i \in Cell, v \in Value : FetchRange(j, i, v)
    BY <1>8
  <2>1. \A k \in Job : k # j => pc'[k] \in {"idle", "claim"}
    BY OnlyOwnerWorks DEF FetchRange, TypeOK
  <2>2. pc'[j] = "checkpoint" /\ pc[j] = "fetch" /\ v # "none"
    BY DEF FetchRange, TypeOK, RangeVerifies
  <2>3. \A c \in CellsOf(j, i) : c <= layout[j]
    BY DEF TypeOK, CellsOf, RangeCells
  <2>4. \A c \in Cell : fed'[j][c] = IF c \in CellsOf(j, i) THEN v ELSE fed[j][c]
    BY DEF FetchRange, TypeOK
  <2>5. \A c \in Cell : cell'[c] = IF c \in CellsOf(j, i) THEN v
                     ELSE IF cell[c] = "none" /\ \E d \in CellsOf(j, i) : c < d
                          THEN "hole" ELSE cell[c]
    BY DEF FetchRange, WriteAt
  <2>6. UNCHANGED <<layout, window>> /\ resumeDone'[j] = resumeDone[j] \cup {i}
    BY DEF FetchRange, TypeOK
  <2>7. ASSUME NEW c \in Cell, fed'[j][c] # "none"
        PROVE  c <= layout'[j] /\ cell'[c] = fed'[j][c]
    <3>1. fed[j][c] # "none" => c <= layout[j] /\ cell[c] = fed[j][c]
      BY <2>2 DEF FedInv, FedIsStaged, Holding
    <3> QED BY <2>3, <2>4, <2>5, <2>6, <2>7, <3>1
  <2>8. ASSUME NEW n \in Planned(j)' \cap resumeDone'[j], NEW c \in CellsOf(j, n)'
        PROVE  fed'[j][c] # "none"
    <3>1. n \in Planned(j) /\ c \in CellsOf(j, n)
      BY <2>6 DEF Planned, CellsOf
    <3>2. c \in Cell
      BY <3>1 DEF TypeOK, CellsOf, RangeCells, Cell
    <3>3. CASE n = i
      BY <2>2, <2>4, <3>1, <3>2, <3>3
    <3>4. CASE n # i
      <4>1. fed[j][c] # "none"
        BY <2>2, <2>6, <3>1, <3>4 DEF FedInv, DoneIsFed
      <4> QED BY <2>2, <2>4, <3>2, <4>1
    <3> QED BY <3>3, <3>4
  <2>9. FedIsStaged'
    BY <2>1, <2>2, <2>7 DEF FedIsStaged, Holding
  <2>10. DoneIsFed'
    BY <2>1, <2>2, <2>8 DEF DoneIsFed
  <2>11. TailTrimmed' /\ AllFed'
    BY <2>1, <2>2 DEF TailTrimmed, AllFed, Promoting
  <2> QED BY <2>9, <2>10, <2>11 DEF FedInv
<1>9. CASE VerifyLeaf(j)
  <2>1. \A k \in Job : k # j => pc'[k] \in {"idle", "claim"}
    BY <1>9, OnlyOwnerWorks DEF VerifyLeaf, TypeOK
  <2>2. /\ pc[j] = "fetch" /\ pc'[j] \in {"promoteTruncate", "discard"}
        /\ UNCHANGED <<cell, fed, layout, resumeDone, window>>
    BY <1>9 DEF VerifyLeaf, TypeOK
  <2>3. ASSUME NEW c \in 1..layout[j] PROVE fed[j][c] # "none"
    <3>1. layout[j] \in Nat /\ window[j] \in Nat \ {0}
      <4>1. layout[j] \in 0..MaxCells /\ window[j] \in Windows
        BY DEF TypeOK
      <4>2. window[j] \in Nat \ {0}
        BY <4>1
      <4>3. layout[j] \in Nat
        BY <4>1
      <4> QED BY <4>2, <4>3
    <3>2. PICK i \in Planned(j) : c \in CellsOf(j, i)
      BY <3>1, RangesCover DEF Planned, CellsOf
    <3>3. i \in resumeDone[j]
      BY <1>9, <3>2 DEF VerifyLeaf, PendingRanges
    <3> QED BY <2>2, <3>2, <3>3 DEF FedInv, DoneIsFed
  <2>4. FedIsStaged'
    BY <2>1, <2>2 DEF FedInv, FedIsStaged, Holding
  <2>5. TailTrimmed' /\ DoneIsFed'
    BY <2>1, <2>2 DEF TailTrimmed, DoneIsFed
  <2>6. AllFed'
    BY <2>1, <2>2, <2>3 DEF AllFed, Promoting
  <2> QED BY <2>4, <2>5, <2>6 DEF FedInv
<1>10. CASE PromoteTruncate(j)
  <2>1. \A k \in Job : k # j => pc'[k] \in {"idle", "claim"}
    BY <1>10, OnlyOwnerWorks DEF PromoteTruncate, TypeOK
  <2>2. CASE cell' = Truncate(cell, layout[j]) /\ Goto(j, "promoteProve")
    <3>1. pc[j] = "promoteTruncate" /\ pc'[j] = "promoteProve"
      BY <1>10, <2>2 DEF PromoteTruncate, TypeOK
    <3>2. \A c \in Cell : cell'[c] = IF c <= layout[j] THEN cell[c] ELSE "none"
      BY <2>2 DEF Truncate
    <3>3. UNCHANGED <<layout, fed>>
      BY <1>10 DEF PromoteTruncate
    <3>4. FedIsStaged'
      BY <2>1, <3>1, <3>2, <3>3 DEF FedInv, FedIsStaged, Holding
    <3>5. \A c \in Cell : c > layout[j] => ~(c <= layout[j])
      BY DEF TypeOK, Cell
    <3>6. TailTrimmed'
      BY <2>1, <3>1, <3>2, <3>3, <3>5 DEF TailTrimmed
    <3>7. DoneIsFed' /\ AllFed'
      BY <2>1, <3>1, <3>3 DEF FedInv, DoneIsFed, AllFed, Promoting
    <3> QED BY <3>4, <3>6, <3>7 DEF FedInv
  <2>3. CASE UNCHANGED cell /\ Goto(j, "discard")
    BY <1>10, <2>3, QuietFed DEF PromoteTruncate, TypeOK, Holding, Promoting
  <2> QED BY <1>10, <2>2, <2>3 DEF PromoteTruncate
<1>11. CASE Finalize(j)
  <2>1. \A k \in Job : pc'[k] \notin Holding
    BY <1>11, OnlyOwnerWorks DEF Finalize, TypeOK, Holding
  <2> QED BY <2>1, IdleFed
<1> QED
  BY <1>1, <1>2, <1>3, <1>4, <1>5, <1>6, <1>7, <1>8, <1>9, <1>10, <1>11
  DEF JobStep

(* It is inductive, with the claims.                                       *)
LEMMA FedInvInductive ==
  ASSUME SharedRegistry, TypeOK, OwnsClaim, ExclusiveClaim, FedInv, [Next]_vars
  PROVE  FedInv'
<1>1. ASSUME NEW j \in Job, JobStep(j) PROVE FedInv'
  BY <1>1, JobStepKeepsFed
<1>2. ASSUME NEW j \in Job, Pause(j) \/ Crash(j) \/ CrashInSave(j) PROVE FedInv'
  BY <1>2, QuietFed
  DEF Pause, Crash, CrashInSave, End, diskVars, memVars, TypeOK, Holding, Promoting
<1>3. ASSUME Reap PROVE FedInv'
  <2>1. \A k \in Job : pc'[k] \notin Holding
    BY <1>3 DEF Reap, OwnsClaim, Holding
  <2> QED BY <2>1, IdleFed
<1>4. ASSUME BecomeCalm \/ UNCHANGED vars PROVE FedInv'
  BY <1>4, QuietFed DEF BecomeCalm, vars, diskVars, memVars
<1>5. ASSUME NEW j \in Job, NEW i \in Cell, NEW n \in Cell, NEW v \in Value,
             WriteInterrupted(j, i, v, n)
      PROVE  FedInv'
  <2>1. \A k \in Job : pc'[k] \notin Holding
    BY <1>5, OnlyOwnerWorks DEF WriteInterrupted, End, TypeOK, Holding
  <2> QED BY <2>1, IdleFed
<1> QED BY <1>1, <1>2, <1>3, <1>4, <1>5 DEF Next

(* promote_verified renames exactly what this attempt fetched or read      *)
(* back, no byte more or less, with the leaf check on or off.              *)
THEOREM PromotionExact ==
  ASSUME SharedRegistry
  PROVE  Spec => PromotesWhatItChecked
<1>1. Init => OwnsClaim /\ ExclusiveClaim /\ FedInv
  BY DEF Init, OwnsClaim, ExclusiveClaim, FedInv, FedIsStaged, TailTrimmed,
         DoneIsFed, AllFed, Holding, Promoting
<1>2. TypeOK /\ OwnsClaim /\ ExclusiveClaim /\ FedInv /\ [Next]_vars
        => (OwnsClaim /\ ExclusiveClaim /\ FedInv)'
  BY ClaimsKept, FedInvInductive
<1>3. TypeOK /\ OwnsClaim /\ ExclusiveClaim /\ FedInv /\ [Next]_vars
        => [\A j \in Job : pc[j] = "finalize" /\ pc'[j] = "clear" =>
             target' = [c \in Cell |->
                          IF c <= layout[j] THEN fed[j][c] ELSE "none"]]_vars
  <2> SUFFICES ASSUME TypeOK, OwnsClaim, ExclusiveClaim, FedInv, [Next]_vars,
                      NEW j \in Job, pc[j] = "finalize", pc'[j] = "clear"
               PROVE  target' = [c \in Cell |->
                                   IF c <= layout[j] THEN fed[j][c] ELSE "none"]
    OBVIOUS
  <2>1. Finalize(j)
    <3>1. \A k \in Job : k # j => pc[k] \in {"idle", "claim"}
      BY OnlyOwnerWorks
    <3>2. ASSUME NEW k \in Job, k # j,
                 JobStep(k) \/ Pause(k) \/ Crash(k) \/ CrashInSave(k)
          PROVE  FALSE
      <4>1. pc'[j] = pc[j]
        BY <3>1, <3>2 DEF JobStep, Load, LoadFails, Claim, ClaimRefused, Locate,
           LocateFails, Probe, ProbeFails, KeepPlan, ResetPlan, ResetTruncate,
           Persist, Rehydrate, FetchRange, Checkpoint, GiveUp, VerifyLeaf,
           DiscardCheckpoint, DiscardBytes, PromoteTruncate, PromoteProve,
           Finalize, ClearCheckpoint, Pause, Crash, CrashInSave, vars, Goto,
           End, TypeOK
      <4> QED BY <4>1
    <3>3. JobStep(j) => Finalize(j)
      BY DEF JobStep, Load, LoadFails, Claim, ClaimRefused, Locate,
         LocateFails, Probe, ProbeFails, KeepPlan, ResetPlan, ResetTruncate,
         Persist, Rehydrate, FetchRange, Checkpoint, GiveUp, VerifyLeaf,
         DiscardCheckpoint, DiscardBytes, PromoteTruncate, PromoteProve,
         ClearCheckpoint, vars
    <3>4. ~(Pause(j) \/ Crash(j) \/ CrashInSave(j))
      BY DEF Pause, Crash, CrashInSave, End, TypeOK
    <3>5. ASSUME NEW k \in Job, NEW i \in Cell, NEW n \in Cell, NEW v \in Value
          PROVE  ~WriteInterrupted(k, i, v, n)
      BY <3>1 DEF WriteInterrupted
    <3>6. ~(Reap \/ BecomeCalm \/ UNCHANGED vars)
      BY DEF Reap, BecomeCalm, vars
    <3> QED BY <3>2, <3>3, <3>4, <3>5, <3>6 DEF Next
  <2>2. target' = cell
    BY <2>1 DEF Finalize, Goto, TypeOK
  <2>3. ASSUME NEW c \in Cell
        PROVE  cell[c] = IF c <= layout[j] THEN fed[j][c] ELSE "none"
    <3>1. CASE c <= layout[j]
      <4>1. fed[j][c] # "none"
        BY <3>1 DEF FedInv, AllFed, Promoting, TypeOK, Cell
      <4> QED BY <3>1, <4>1 DEF FedInv, FedIsStaged, Holding
    <3>2. CASE ~(c <= layout[j])
      <4>1. c > layout[j]
        BY <3>2, ContentAssumption DEF TypeOK, Cell
      <4> QED BY <3>2, <4>1 DEF FedInv, TailTrimmed
    <3> QED BY <3>1, <3>2
  <2> QED BY <2>2, <2>3 DEF TypeOK
<1> QED
  BY <1>1, <1>2, <1>3, TypeCorrect, PTL DEF Spec, PromotesWhatItChecked

-----------------------------------------------------------------------------
(* A resume fetches only what is missing.  While an attempt fetches, the   *)
(* checkpoint is its own, and a range recorded there that the attempt does *)
(* not count as done is not staged: rehydration found a byte of it missing *)
(* and nothing but fetching it again brings that back.                     *)
RecordKept ==
  \A j \in Job :
    /\ pc[j] = "plan" => /\ ckpt.layout = layout[j] /\ ckpt.done = resumeDone[j]
                         /\ resumeLayout[j] = layout[j]
    /\ pc[j] \in {"fetch", "checkpoint"} =>
         /\ ckpt.layout = layout[j] /\ resumeLayout[j] = layout[j]
         /\ \A i \in ckpt.done \ resumeDone[j] :
              ~StagedAsWritten(layout[j], window[j], i)

(* Up to its first save, what an attempt resumes from is the checkpoint as *)
(* it stands, or a checkpoint of another plan.  True of one job at a time: *)
(* the load comes before the claim.                                        *)
LoadIsFresh ==
  \A j \in Job :
    /\ pc[j] \in {"claim", "locate", "probe", "reset"} =>
         resumeDone[j] = ckpt.done /\ resumeLayout[j] = ckpt.layout
    /\ pc[j] = "resetTruncate" => ckpt.kind # "ok" \/ ckpt.layout # layout[j]
    /\ pc[j] = "persist" =>
         ckpt.kind # "ok" \/ ckpt.layout # layout[j] \/ resumeDone[j] = ckpt.done

(* The jobs of one registry, or a single one.                              *)
Alone == SharedRegistry \/ \A j, k \in Job : j = k

(* Either way only one job is past the claim.                              *)
LEMMA OnlyOneWorks ==
  ASSUME Alone, OwnsClaim, ExclusiveClaim,
         NEW j \in Job, pc[j] \notin {"idle", "claim"}
  PROVE  \A k \in Job : k # j => pc[k] \in {"idle", "claim"}
<1>1. CASE SharedRegistry
  BY <1>1, OnlyOwnerWorks
<1>2. CASE \A a, b \in Job : a = b
  BY <1>2
<1> QED BY <1>1, <1>2 DEF Alone

Fetching == {"plan", "fetch", "checkpoint"}

(* A step that leaves the checkpoint and the staging file alone and moves  *)
(* no job forward keeps RecordKept.                                        *)
LEMMA QuietRecord ==
  ASSUME RecordKept, UNCHANGED <<cell, ckpt>>,
         \A k \in Job : pc'[k] \in Fetching =>
           /\ pc'[k] = pc[k]
           /\ layout'[k] = layout[k] /\ resumeLayout'[k] = resumeLayout[k]
           /\ resumeDone'[k] = resumeDone[k] /\ window'[k] = window[k]
  PROVE  RecordKept'
<1> SUFFICES ASSUME NEW k \in Job, pc'[k] \in Fetching
             PROVE  /\ pc'[k] = "plan" =>
                         /\ ckpt'.layout = layout'[k] /\ ckpt'.done = resumeDone'[k]
                         /\ resumeLayout'[k] = layout'[k]
                    /\ pc'[k] \in {"fetch", "checkpoint"} =>
                         /\ ckpt'.layout = layout'[k] /\ resumeLayout'[k] = layout'[k]
                         /\ \A i \in ckpt'.done \ resumeDone'[k] :
                              ~StagedAsWritten(layout[k], window[k], i)'
  BY DEF RecordKept, Fetching, StagedAsWritten
<1>1. /\ pc'[k] = pc[k] /\ layout'[k] = layout[k] /\ resumeLayout'[k] = resumeLayout[k]
      /\ resumeDone'[k] = resumeDone[k] /\ window'[k] = window[k]
  OBVIOUS
<1>2. \A i : StagedAsWritten(layout[k], window[k], i)'
               = StagedAsWritten(layout[k], window[k], i)
  BY <1>1 DEF StagedAsWritten
<1> QED BY <1>1, <1>2 DEF RecordKept

(* So does one after which no job is between its plan and its leaf check.  *)
LEMMA IdleRecord ==
  ASSUME \A k \in Job : pc'[k] \notin Fetching
  PROVE  RecordKept'
BY DEF RecordKept, Fetching

(* Saving what the attempt counts as done makes the record exact.          *)
LEMMA SavedRecord ==
  ASSUME NEW j \in Job, pc'[j] \in Fetching,
         \A k \in Job : k # j => pc'[k] \notin Fetching,
         ckpt' = Saved(layout'[j], resumeDone'[j]), resumeLayout'[j] = layout'[j]
  PROVE  RecordKept'
<1>1. ckpt'.layout = layout'[j] /\ ckpt'.done = resumeDone'[j]
  BY DEF Saved
<1>2. ckpt'.done \ resumeDone'[j] = {}
  BY <1>1
<1> QED BY <1>1, <1>2 DEF RecordKept, Fetching

(* A range fetched makes no other range whole: what it adds to the file    *)
(* outside its own cells is a hole.                                        *)
LEMMA OthersStayUnstaged ==
  ASSUME NEW j \in Job, NEW i \in Cell, NEW v \in Value,
         cell' = WriteAt(cell, CellsOf(j, i), v),
         NEW n \in Cell, n # i, layout[j] \in 0..MaxCells,
         ~StagedAsWritten(layout[j], window[j], n)
  PROVE  \E c \in RangeCells(layout[j], window[j], n) : cell'[c] \notin {"good", "bad"}
<1>1. PICK c \in RangeCells(layout[j], window[j], n) : cell[c] \notin {"good", "bad"}
  BY DEF StagedAsWritten
<1>2. c \in Cell
  BY ContentAssumption DEF RangeCells, Cell
<1>3. c \notin CellsOf(j, i)
  <2> DEFINE q == (c - 1) \div window[j]
  <2>1. q = n - 1
    BY DEF RangeCells
  <2> HIDE DEF q
  <2>2. q # i - 1
    BY <2>1, ContentAssumption DEF Cell
  <2> QED BY <2>2 DEF CellsOf, RangeCells, q
<1>4. cell'[c] = IF cell[c] = "none" /\ \E d \in CellsOf(j, i) : c < d
                 THEN "hole" ELSE cell[c]
  BY <1>2, <1>3 DEF WriteAt
<1> QED BY <1>1, <1>4

(* A step of one job keeps RecordKept.                                     *)
LEMMA JobStepKeepsRecord ==
  ASSUME Alone, VerifyWhole, TypeOK, OwnsClaim, ExclusiveClaim, RecordKept,
         NEW j \in Job, JobStep(j)
  PROVE  RecordKept'
<1> USE DEF Goto, End, diskVars, memVars
<1>1. CASE Load(j) \/ LoadFails(j) \/ Claim(j) \/ ClaimRefused(j)
  BY <1>1, QuietRecord
  DEF Load, LoadFails, Claim, ClaimRefused, vars, TypeOK, Fetching
<1>2. CASE Locate(j) \/ LocateFails(j) \/ (\E l \in Cell : Probe(j, l)) \/ ProbeFails(j)
  BY <1>2, QuietRecord DEF Locate, LocateFails, Probe, ProbeFails, TypeOK, Fetching
<1>3. CASE KeepPlan(j) \/ VerifyLeaf(j) \/ PromoteProve(j)
  BY <1>3, QuietRecord DEF KeepPlan, VerifyLeaf, PromoteProve, TypeOK, Fetching
<1>4. CASE \/ ResetPlan(j) \/ ResetTruncate(j) \/ GiveUp(j)
           \/ DiscardCheckpoint(j) \/ DiscardBytes(j)
  <2>1. \A k \in Job : pc'[k] \notin Fetching
    BY <1>4, OnlyOneWorks
    DEF ResetPlan, ResetTruncate, GiveUp, DiscardCheckpoint, DiscardBytes, TypeOK, Fetching
  <2> QED BY <2>1, IdleRecord
<1>5. CASE PromoteTruncate(j) \/ Finalize(j) \/ ClearCheckpoint(j)
  <2>1. \A k \in Job : pc'[k] \notin Fetching
    BY <1>5, OnlyOneWorks DEF PromoteTruncate, Finalize, ClearCheckpoint, TypeOK, Fetching
  <2> QED BY <2>1, IdleRecord
<1>6. CASE Persist(j)
  <2>1. \A k \in Job : k # j => pc'[k] \notin Fetching
    BY <1>6, OnlyOneWorks DEF Persist, TypeOK, Fetching
  <2>2. CASE pc'[j] \in Fetching
    <3>1. /\ ckpt' = Saved(layout[j], resumeDone[j])
          /\ layout'[j] = layout[j] /\ resumeDone'[j] = resumeDone[j]
          /\ resumeLayout'[j] = layout[j]
      BY <1>6, <2>2 DEF Persist, TypeOK, Fetching
    <3> QED BY <2>1, <2>2, <3>1, SavedRecord
  <2>3. CASE pc'[j] \notin Fetching
    BY <2>1, <2>3, IdleRecord
  <2> QED BY <2>2, <2>3
<1>7. CASE Rehydrate(j)
  <2>1. \A k \in Job : k # j => pc'[k] \notin Fetching
    BY <1>7, OnlyOneWorks DEF Rehydrate, TypeOK, Fetching
  <2>2. /\ pc[j] = "plan" /\ pc'[j] = "fetch"
        /\ UNCHANGED <<cell, ckpt, layout, resumeLayout, window>>
        /\ resumeDone'[j] = (resumeDone[j] \ Planned(j)) \cup Rehydrated(j)
    BY <1>7 DEF Rehydrate, TypeOK
  <2>3. /\ ckpt.layout = layout[j] /\ ckpt.done = resumeDone[j]
        /\ resumeLayout[j] = layout[j]
    BY <2>2 DEF RecordKept
  <2>4. ASSUME NEW i \in ckpt.done \ resumeDone'[j]
        PROVE  ~StagedAsWritten(layout[j], window[j], i)'
    <3>1. i \in Planned(j) \cap resumeDone[j] /\ i \notin Rehydrated(j)
      BY <2>2, <2>3
    <3>2. ~Readable(cell, CellsOf(j, i))
      BY <3>1 DEF Rehydrated
    <3> QED BY <2>2, <3>2 DEF Readable, CellsOf, StagedAsWritten
  <2> QED BY <2>1, <2>2, <2>3, <2>4 DEF RecordKept, Fetching
<1>8. CASE \E i \in Cell, v \in Value : FetchRange(j, i, v)
  <2> PICK i \in Cell, v \in Value : FetchRange(j, i, v)
    BY <1>8
  <2>1. \A k \in Job : k # j => pc'[k] \notin Fetching
    BY OnlyOneWorks DEF FetchRange, TypeOK, Fetching
  <2>2. /\ pc[j] = "fetch" /\ pc'[j] = "checkpoint"
        /\ UNCHANGED <<ckpt, layout, resumeLayout, window>>
        /\ resumeDone'[j] = resumeDone[j] \cup {i}
        /\ cell' = WriteAt(cell, CellsOf(j, i), v)
    BY DEF FetchRange, TypeOK
  <2>3. ckpt.done \subseteq Cell /\ layout[j] \in 0..MaxCells
    BY DEF TypeOK, Checkpoints
  <2>4. ASSUME NEW n \in ckpt.done \ resumeDone'[j]
        PROVE  ~StagedAsWritten(layout[j], window[j], n)'
    <3>1. n \in Cell /\ n # i /\ ~StagedAsWritten(layout[j], window[j], n)
      BY <2>2, <2>3 DEF RecordKept
    <3>2. \E c \in RangeCells(layout[j], window[j], n) : cell'[c] \notin {"good", "bad"}
      BY <2>2, <2>3, <3>1, OthersStayUnstaged
    <3> QED BY <2>2, <3>2 DEF StagedAsWritten
  <2> QED BY <2>1, <2>2, <2>4 DEF RecordKept, Fetching
<1>9. CASE Checkpoint(j)
  <2>1. \A k \in Job : k # j => pc'[k] \notin Fetching
    BY <1>9, OnlyOneWorks DEF Checkpoint, TypeOK, Fetching
  <2>2. CASE pc'[j] \in Fetching
    <3>1. /\ ckpt' = Saved(resumeLayout[j], resumeDone[j])
          /\ UNCHANGED <<layout, resumeDone, resumeLayout>>
          /\ resumeLayout[j] = layout[j]
      BY <1>9, <2>2 DEF Checkpoint, TypeOK, Fetching, RecordKept
    <3> QED BY <2>1, <2>2, <3>1, SavedRecord
  <2>3. CASE pc'[j] \notin Fetching
    BY <2>1, <2>3, IdleRecord
  <2> QED BY <2>2, <2>3
<1> QED
  BY <1>1, <1>2, <1>3, <1>4, <1>5, <1>6, <1>7, <1>8, <1>9 DEF JobStep

(* It is inductive, with the claims.                                       *)
LEMMA RecordInductive ==
  ASSUME Alone, VerifyWhole, TypeOK, OwnsClaim, ExclusiveClaim, RecordKept,
         [Next]_vars
  PROVE  RecordKept'
<1> USE DEF End, diskVars, memVars
<1>1. ASSUME NEW j \in Job, JobStep(j) PROVE RecordKept'
  BY <1>1, JobStepKeepsRecord
<1>2. ASSUME NEW j \in Job, Pause(j) PROVE RecordKept'
  <2>1. \A k \in Job : k # j => pc'[k] \notin Fetching
    BY <1>2, OnlyOneWorks DEF Pause, TypeOK, Fetching
  <2>2. /\ pc[j] = "fetch" /\ pc'[j] \in Fetching /\ resumeLayout[j] = layout[j]
        /\ UNCHANGED <<cell, pc, layout, resumeDone, resumeLayout, window>>
    BY <1>2 DEF Pause, Fetching, RecordKept
  <2>3. CASE ckpt' = Saved(resumeLayout[j], resumeDone[j])
    BY <2>1, <2>2, <2>3, SavedRecord
  <2>4. CASE UNCHANGED ckpt
    BY <2>2, <2>4, QuietRecord
  <2> QED BY <1>2, <2>3, <2>4 DEF Pause, TryCheckpoint
<1>3. ASSUME NEW j \in Job, Crash(j) PROVE RecordKept'
  BY <1>3, QuietRecord DEF Crash, TypeOK, Fetching
<1>4. ASSUME NEW j \in Job, CrashInSave(j) PROVE RecordKept'
  <2>1. \A k \in Job : pc'[k] \notin Fetching
    BY <1>4, OnlyOneWorks DEF CrashInSave, TypeOK, Fetching
  <2> QED BY <2>1, IdleRecord
<1>5. ASSUME NEW j \in Job, NEW i \in Cell, NEW n \in Cell, NEW v \in Value,
             WriteInterrupted(j, i, v, n)
      PROVE  RecordKept'
  <2>1. \A k \in Job : pc'[k] \notin Fetching
    BY <1>5, OnlyOneWorks DEF WriteInterrupted, TypeOK, Fetching
  <2> QED BY <2>1, IdleRecord
<1>6. ASSUME Reap PROVE RecordKept'
  <2>1. \A k \in Job : pc'[k] \notin Fetching
    BY <1>6 DEF Reap, OwnsClaim, Fetching
  <2> QED BY <2>1, IdleRecord
<1>7. ASSUME BecomeCalm \/ UNCHANGED vars PROVE RecordKept'
  BY <1>7, QuietRecord DEF BecomeCalm, vars
<1> QED BY <1>1, <1>2, <1>3, <1>4, <1>5, <1>6, <1>7 DEF Next

(* One job at a time resumes from a fresh checkpoint.                      *)
LEMMA FreshInductive ==
  ASSUME \A a, b \in Job : a = b, TypeOK, LoadIsFresh, [Next]_vars
  PROVE  LoadIsFresh'
<1> USE DEF Goto, End, diskVars, memVars
<1>1. ASSUME NEW j \in Job, JobStep(j) PROVE LoadIsFresh'
  <2>1. CASE Load(j) \/ LoadFails(j) \/ Claim(j) \/ ClaimRefused(j)
    BY <2>1 DEF Load, LoadFails, Claim, ClaimRefused, vars, TypeOK, LoadIsFresh
  <2>2. CASE Locate(j) \/ LocateFails(j) \/ (\E l \in Cell : Probe(j, l)) \/ ProbeFails(j)
    BY <2>2 DEF Locate, LocateFails, Probe, ProbeFails, TypeOK, LoadIsFresh
  <2>3. CASE KeepPlan(j) \/ ResetTruncate(j)
    BY <2>3 DEF KeepPlan, ResetTruncate, TypeOK, LoadIsFresh
  <2>4. CASE ResetPlan(j)
    <3>1. pc[j] = "reset" /\ pc'[j] = "resetTruncate" /\ UNCHANGED layout
      BY <2>4 DEF ResetPlan, TypeOK
    <3>2. resumeLayout[j] # layout[j] /\ resumeLayout[j] = ckpt.layout
      BY <2>4, <3>1 DEF ResetPlan, SamePlan, LoadIsFresh
    <3>3. ckpt'.kind # "ok" \/ ckpt'.layout # layout'[j]
      BY <2>4, <3>1, <3>2 DEF ResetPlan, NoCheckpoint
    <3> QED BY <3>1, <3>3 DEF LoadIsFresh
  <2>5. CASE Persist(j) \/ Rehydrate(j) \/ Checkpoint(j) \/ GiveUp(j) \/ VerifyLeaf(j)
    <3>1. pc'[j] \in {"idle", "plan", "fetch", "promoteTruncate", "discard"}
      BY <2>5 DEF Persist, Rehydrate, Checkpoint, GiveUp, VerifyLeaf, TypeOK
    <3> QED BY <3>1 DEF LoadIsFresh
  <2>6. CASE \E i \in Cell, v \in Value : FetchRange(j, i, v)
    <3>1. pc'[j] = "checkpoint"
      BY <2>6 DEF FetchRange, TypeOK
    <3> QED BY <3>1 DEF LoadIsFresh
  <2>7. CASE \/ DiscardCheckpoint(j) \/ DiscardBytes(j) \/ PromoteTruncate(j)
             \/ PromoteProve(j) \/ Finalize(j) \/ ClearCheckpoint(j)
    <3>1. pc'[j] \in {"idle", "discard", "discardTruncate", "promoteProve",
                      "finalize", "clear"}
      BY <2>7 DEF DiscardCheckpoint, DiscardBytes, PromoteTruncate, PromoteProve,
                  Finalize, ClearCheckpoint, TypeOK
    <3> QED BY <3>1 DEF LoadIsFresh
  <2> QED BY <1>1, <2>1, <2>2, <2>3, <2>4, <2>5, <2>6, <2>7 DEF JobStep
<1>2. ASSUME NEW j \in Job, Pause(j) \/ Crash(j) \/ CrashInSave(j) PROVE LoadIsFresh'
  <2>1. pc'[j] \in {"idle", "fetch"}
    BY <1>2 DEF Pause, Crash, CrashInSave, TypeOK
  <2> QED BY <2>1 DEF LoadIsFresh
<1>3. ASSUME NEW j \in Job, NEW i \in Cell, NEW n \in Cell, NEW v \in Value,
             WriteInterrupted(j, i, v, n)
      PROVE  LoadIsFresh'
  <2>1. pc'[j] = "idle"
    BY <1>3 DEF WriteInterrupted, TypeOK
  <2> QED BY <2>1 DEF LoadIsFresh
<1>4. ASSUME Reap \/ BecomeCalm \/ UNCHANGED vars PROVE LoadIsFresh'
  BY <1>4 DEF Reap, BecomeCalm, vars, LoadIsFresh
<1> QED BY <1>1, <1>2, <1>3, <1>4 DEF Next

(* A save that keeps the plan drops only ranges the attempt found missing. *)
LEMMA SavesKeepStaged ==
  ASSUME TypeOK, RecordKept, LoadIsFresh, [Next]_vars
  PROVE  SaveDropsNothingStaged
<1> SUFFICES ASSUME ckpt.kind = "ok", ckpt'.kind = "ok", ckpt'.layout = ckpt.layout,
                    NEW i \in ckpt.done \ ckpt'.done
             PROVE  \E w \in Windows : ~StagedAsWritten(ckpt.layout, w, i)
  BY DEF SaveDropsNothingStaged
<1> USE DEF diskVars, memVars
<1>1. ASSUME NEW j \in Job, pc[j] \in {"fetch", "checkpoint"},
             ckpt' = Saved(resumeLayout[j], resumeDone[j])
      PROVE  \E w \in Windows : ~StagedAsWritten(ckpt.layout, w, i)
  <2>1. i \in ckpt.done \ resumeDone[j]
    BY <1>1 DEF Saved
  <2>2. ~StagedAsWritten(layout[j], window[j], i) /\ ckpt.layout = layout[j]
    BY <1>1, <2>1 DEF RecordKept
  <2>3. window[j] \in Windows
    BY DEF TypeOK
  <2> QED BY <2>2, <2>3
<1>2. ckpt' # ckpt
  OBVIOUS
<1>3. ASSUME NEW j \in Job, Checkpoint(j) \/ GiveUp(j) \/ Pause(j)
      PROVE  \E w \in Windows : ~StagedAsWritten(ckpt.layout, w, i)
  <2>1. /\ pc[j] \in {"fetch", "checkpoint"}
        /\ ckpt' = Saved(resumeLayout[j], resumeDone[j])
    BY <1>2, <1>3 DEF Checkpoint, GiveUp, Pause, TryCheckpoint
  <2> QED BY <1>1, <2>1
<1>4. ASSUME NEW j \in Job PROVE ~Persist(j)
  <2> SUFFICES ASSUME Persist(j) PROVE FALSE
    OBVIOUS
  <2>1. pc[j] = "persist" /\ ckpt' = Saved(layout[j], resumeDone[j])
    BY <1>2 DEF Persist
  <2>2. resumeDone[j] = ckpt.done
    BY <2>1 DEF LoadIsFresh, Saved
  <2> QED BY <2>1, <2>2 DEF Saved
<1>5. ASSUME NEW j \in Job
      PROVE  ~(ResetPlan(j) \/ DiscardCheckpoint(j) \/ ClearCheckpoint(j) \/ CrashInSave(j))
  BY <1>2 DEF ResetPlan, DiscardCheckpoint, ClearCheckpoint, CrashInSave,
              NoCheckpoint, TornCheckpoint
<1>6. ASSUME NEW j \in Job
      PROVE  ~(\/ Load(j) \/ LoadFails(j) \/ Claim(j) \/ ClaimRefused(j) \/ Locate(j)
               \/ LocateFails(j) \/ (\E l \in Cell : Probe(j, l)) \/ ProbeFails(j)
               \/ KeepPlan(j) \/ ResetTruncate(j) \/ Rehydrate(j) \/ Crash(j))
  BY <1>2 DEF Load, LoadFails, Claim, ClaimRefused, Locate, LocateFails, Probe,
              ProbeFails, KeepPlan, ResetTruncate, Rehydrate, Crash, vars
<1>7. ASSUME NEW j \in Job
      PROVE  ~(\/ (\E n \in Cell, v \in Value : FetchRange(j, n, v))
               \/ (\E n, m \in Cell, v \in Value : WriteInterrupted(j, n, v, m))
               \/ VerifyLeaf(j) \/ DiscardBytes(j) \/ PromoteTruncate(j)
               \/ PromoteProve(j) \/ Finalize(j))
  BY <1>2 DEF FetchRange, WriteInterrupted, VerifyLeaf, DiscardBytes,
              PromoteTruncate, PromoteProve, Finalize
<1>8. ~(Reap \/ BecomeCalm \/ UNCHANGED vars)
  BY <1>2 DEF Reap, BecomeCalm, vars
<1> QED BY <1>3, <1>4, <1>5, <1>6, <1>7, <1>8 DEF Next, JobStep

(* The claims and the record hold from the start.                          *)
LEMMA RecordHolds ==
  ASSUME Alone, VerifyWhole
  PROVE  Spec => [](TypeOK /\ OwnsClaim /\ ExclusiveClaim /\ RecordKept)
<1>1. Init => OwnsClaim /\ ExclusiveClaim /\ RecordKept
  BY DEF Init, OwnsClaim, ExclusiveClaim, RecordKept
<1>2. TypeOK /\ OwnsClaim /\ ExclusiveClaim /\ RecordKept /\ [Next]_vars
        => (OwnsClaim /\ ExclusiveClaim /\ RecordKept)'
  BY ClaimsKept, RecordInductive
<1> QED BY <1>1, <1>2, TypeCorrect, PTL DEF Spec

(* With one registry, or one job, an attempt never fetches a range that    *)
(* the checkpoint records for its plan while the bytes are staged: what    *)
(* rehydrate_resumed_ranges reads back is not scheduled again.             *)
THEOREM RecordedSpared ==
  ASSUME Alone, VerifyWhole
  PROVE  Spec => [][RecordedNotFetched]_vars
<1>1. RecordKept => RecordedNotFetched
  BY DEF RecordKept, RecordedNotFetched
<1>2. TypeOK /\ OwnsClaim /\ ExclusiveClaim /\ RecordKept /\ [Next]_vars
        => [RecordedNotFetched]_vars
  BY <1>1
<1> QED BY <1>2, RecordHolds, PTL DEF Spec

(* For one job at a time no save forgets such a range either, through any  *)
(* number of crashes, lies, windows and torn saves, so that no later       *)
(* attempt fetches it again.  (Two jobs may: the load precedes the claim.) *)
THEOREM ResumeFetchesMissing ==
  ASSUME \A a, b \in Job : a = b, VerifyWhole
  PROVE  Spec => VerifiedRangeNeverRefetched
<1> Alone
  BY DEF Alone
<1>1. Init => LoadIsFresh
  BY DEF Init, LoadIsFresh
<1>2. TypeOK /\ LoadIsFresh /\ [Next]_vars => LoadIsFresh'
  BY FreshInductive
<1>3. TypeOK /\ RecordKept /\ LoadIsFresh /\ [Next]_vars
        => [RecordedNotFetched /\ SaveDropsNothingStaged]_vars
  BY SavesKeepStaged DEF RecordKept, RecordedNotFetched
<1> QED
  BY <1>1, <1>2, <1>3, RecordHolds, PTL DEF Spec, VerifiedRangeNeverRefetched

=============================================================================
