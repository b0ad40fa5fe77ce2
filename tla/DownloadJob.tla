---------------------------- MODULE DownloadJob ----------------------------
(***************************************************************************)
(* The life of a download across attempts: Job::run and Job::run_inner of  *)
(* orchestrator.rs with the durable state they share, the staging file     *)
(* (FileSink), the resume checkpoint (FileStateStore), the claim registry  *)
(* (ActiveDownloads) and the promoted target file.                         *)
(*                                                                         *)
(* The jobs are attempts at ONE target: they name the same staging path    *)
(* and resume key.  A job is an attempt, then a later one, and so on; a    *)
(* crash or an unwinding panic ends an attempt at any await.  Jobs of one  *)
(* Downloader share its registry; jobs of two Downloaders or processes     *)
(* share nothing but the disk.                                             *)
(*                                                                         *)
(* Data abstracted: bytes are cells, one per chunk.  A cell is "good" (the *)
(* true content), "bad" (right-length wrong bytes), "hole" (zeros of a     *)
(* sparse write) or "none" (past the end of the file).  A layout is the    *)
(* number of its chunks; 0 is the empty chunk_lens of a fresh checkpoint.  *)
(* How ranges are scheduled over holders is module Scheduler; here a       *)
(* pending range is simply served, or the scheduler gives up.              *)
(***************************************************************************)
EXTENDS Naturals, FiniteSets

CONSTANTS
  Job,             \* attempts that may run at the same time
  MaxCells,        \* bound of the model: chunks of the longest layout
  TrueLen,         \* chunks of the resource the content id names
  Lies,            \* layouts a lying holder may declare in the probe
  Windows,         \* window sizes an attempt may be configured with
  SharedRegistry,  \* do all jobs belong to one Downloader?
  VerifyWhole,     \* config.verify_whole_resource
  TornSaves        \* may a crash leave a half-written checkpoint file?

Cell == 1..MaxCells
Value == {"none", "hole", "good", "bad"}

ASSUME ContentAssumption ==
  /\ MaxCells \in Nat
  /\ TrueLen \in Cell
  /\ Lies \subseteq Cell \ {TrueLen}
  /\ Windows \subseteq Nat \ {0}
  /\ SharedRegistry \in BOOLEAN
  /\ VerifyWhole \in BOOLEAN
  /\ TornSaves \in BOOLEAN

VARIABLES
  cell,          \* the staging file
  ckpt,          \* the checkpoint in the StateStore
  target,        \* the file at the final path; EmptyFile while there is none
  claims,        \* jobs holding a StagingClaim
  pc,            \* where each job is in run / run_inner
  layout,        \* commitment of each job, 0 for None
  resumeLayout,  \* resume.chunk_lens
  resumeDone,    \* resume.done_ranges
  window,        \* config.window of the attempt
  fed,           \* what the attempt's whole-resource hasher was fed
  calm           \* the environment has stopped lying and failing

vars == <<cell, ckpt, target, claims, pc, layout, resumeLayout, resumeDone,
          window, fed, calm>>

diskVars == <<cell, ckpt, target>>
memVars == <<layout, resumeLayout, resumeDone, window, fed>>

-----------------------------------------------------------------------------
EmptyFile == [c \in Cell |-> "none"]

(* The content the chain-anchored root commits to.                         *)
Truth == [c \in Cell |-> IF c <= TrueLen THEN "good" ELSE "none"]

Checkpoints == [kind : {"none", "torn", "ok"}, layout : 0..MaxCells,
                done : SUBSET Cell]
NoCheckpoint == [kind |-> "none", layout |-> 0, done |-> {}]
TornCheckpoint == [kind |-> "torn", layout |-> 0, done |-> {}]
Saved(l, d) == [kind |-> "ok", layout |-> l, done |-> d]

(* plan_ranges: whole chunks packed greedily up to the window.             *)
RangeCells(l, w, i) == {c \in 1..l : (c - 1) \div w = i - 1}
Ranges(l, w) == {i \in 1..l : RangeCells(l, w, i) # {}}

Planned(j) == Ranges(layout[j], window[j])
CellsOf(j, i) == RangeCells(layout[j], window[j], i)
PendingRanges(j) == Planned(j) \ resumeDone[j]

(* Mutant: the gap before a sparse write is not zeroed.                    *)
WriteAtUninitialised(file, S, v) ==
  [c \in Cell |->
     IF c \in S THEN v
     ELSE IF file[c] = "none" /\ \E d \in S : c < d THEN "uninitialised"
     ELSE file[c]]

(* FileSink: write_at extends with a hole and never shortens, truncate     *)
(* never extends, read_at fails past the end.                              *)
WriteAt(file, S, v) ==
  [c \in Cell |->
     IF c \in S THEN v
     ELSE IF file[c] = "none" /\ \E d \in S : c < d THEN "hole"
     ELSE file[c]]
Truncate(file, n) == [c \in Cell |-> IF c <= n THEN file[c] ELSE "none"]
Readable(file, S) == \A c \in S : file[c] # "none"

(* The attempt of j returns: the RAII claim is dropped with it.            *)
End(j) ==
  /\ pc' = [pc EXCEPT ![j] = "idle"]
  /\ claims' = claims \ {j}

Goto(j, label) ==
  /\ pc' = [pc EXCEPT ![j] = label]
  /\ UNCHANGED claims

(* StateStore::save writes the resume state; it fails only while the       *)
(* environment is not calm.                                                *)
SaveFails == ~calm

-----------------------------------------------------------------------------
Init ==
  /\ cell = EmptyFile
  /\ ckpt = NoCheckpoint
  /\ target = EmptyFile
  /\ claims = {}
  /\ pc = [j \in Job |-> "idle"]
  /\ layout = [j \in Job |-> 0]
  /\ resumeLayout = [j \in Job |-> 0]
  /\ resumeDone = [j \in Job |-> {}]
  /\ window \in [Job -> Windows]
  /\ fed = [j \in Job |-> EmptyFile]
  /\ calm = FALSE

-----------------------------------------------------------------------------
(* from_first_frame_bounded: a layout of the checkpoint is taken over, or  *)
(* refused (the ceiling was lowered since) and to be established anew.     *)
Rebuilt(l) == {l} \cup (IF calm THEN {} ELSE {0})

(* run: load the checkpoint.  One that does not parse is a terminal State  *)
(* error.                                                                  *)
Load(j) ==
  /\ pc[j] = "idle"
  /\ ckpt.kind # "torn"
  /\ Goto(j, "claim")
  /\ resumeLayout' = [resumeLayout EXCEPT ![j] = ckpt.layout]
  /\ resumeDone' = [resumeDone EXCEPT ![j] = ckpt.done]
  /\ \E l \in Rebuilt(ckpt.layout) : layout' = [layout EXCEPT ![j] = l]
  /\ \E w \in Windows : window' = [window EXCEPT ![j] = w]
  /\ fed' = [fed EXCEPT ![j] = EmptyFile]
  /\ UNCHANGED <<diskVars, calm>>

LoadFails(j) ==
  /\ pc[j] = "idle"
  /\ ckpt.kind = "torn"
  /\ UNCHANGED vars

(* Mutant: the claim does not exclude another job.                         *)
ClaimShared(j) ==
  /\ pc[j] = "claim"
  /\ claims' = claims \cup {j}
  /\ pc' = [pc EXCEPT ![j] = "locate"]
  /\ UNCHANGED <<diskVars, memVars, calm>>

(* registry.claim: refused when a job of the same registry holds the path. *)
Claim(j) ==
  /\ pc[j] = "claim"
  /\ SharedRegistry => claims = {}
  /\ claims' = claims \cup {j}
  /\ pc' = [pc EXCEPT ![j] = "locate"]
  /\ UNCHANGED <<diskVars, memVars, calm>>

ClaimRefused(j) ==
  /\ pc[j] = "claim"
  /\ SharedRegistry
  /\ claims # {}
  /\ End(j)
  /\ UNCHANGED <<diskVars, memVars, calm>>

(* locate_and_confirm; no provider, or a locator error, ends the attempt.  *)
Locate(j) ==
  /\ pc[j] = "locate"
  /\ Goto(j, IF layout[j] = 0 THEN "probe" ELSE "reset")
  /\ UNCHANGED <<diskVars, memVars, calm>>

LocateFails(j) ==
  /\ pc[j] = "locate"
  /\ ~calm
  /\ End(j)
  /\ UNCHANGED <<diskVars, memVars, calm>>

(* establish_commitment: the first holder whose declaration is internally  *)
(* consistent seeds the layout; it need not be truthful.                   *)
Probe(j, l) ==
  /\ pc[j] = "probe"
  /\ l = TrueLen \/ (l \in Lies /\ ~calm)
  /\ layout' = [layout EXCEPT ![j] = l]
  /\ Goto(j, "reset")
  /\ UNCHANGED <<diskVars, resumeLayout, resumeDone, window, fed, calm>>

ProbeFails(j) ==
  /\ pc[j] = "probe"
  /\ ~calm
  /\ End(j)
  /\ UNCHANGED <<diskVars, memVars, calm>>

(* discard_bytes_staged_for_another_plan: clear the checkpoint, then       *)
(* truncate the staging file, both best-effort.                            *)
SamePlan(j) == resumeLayout[j] \in {0, layout[j]}

KeepPlan(j) ==
  /\ pc[j] = "reset"
  /\ SamePlan(j)
  /\ Goto(j, "persist")
  /\ UNCHANGED <<diskVars, memVars, calm>>

ResetPlan(j) ==
  /\ pc[j] = "reset"
  /\ ~SamePlan(j)
  /\ resumeDone' = [resumeDone EXCEPT ![j] = {}]
  /\ \/ ckpt' = NoCheckpoint
     \/ ~calm /\ UNCHANGED ckpt
  /\ Goto(j, "resetTruncate")
  /\ UNCHANGED <<cell, target, layout, resumeLayout, window, fed, calm>>

ResetTruncate(j) ==
  /\ pc[j] = "resetTruncate"
  /\ \/ cell' = Truncate(cell, 0)
     \/ ~calm /\ UNCHANGED cell
  /\ Goto(j, "persist")
  /\ UNCHANGED <<ckpt, target, memVars, calm>>

(* persist_commitment: the adopted layout goes into the checkpoint before  *)
(* any byte is fetched under it.                                           *)
Persist(j) ==
  /\ pc[j] = "persist"
  /\ resumeLayout' = [resumeLayout EXCEPT ![j] = layout[j]]
  /\ \/ /\ ckpt' = Saved(layout[j], resumeDone[j])
        /\ Goto(j, "plan")
     \/ SaveFails /\ UNCHANGED ckpt /\ End(j)
  /\ UNCHANGED <<cell, target, layout, resumeDone, window, fed, calm>>

(* Mutant: nothing is read back on resume.                                 *)
RehydratedNothing(j) == {i \in Planned(j) : FALSE}

(* plan_ranges and rehydrate_resumed_ranges: a range recorded as done is   *)
(* read back and fed to the hasher; one that cannot be read back, or that  *)
(* no hasher will bind, goes back to pending.                              *)
Rehydrated(j) ==
  {i \in Planned(j) \cap resumeDone[j] :
     VerifyWhole /\ Readable(cell, CellsOf(j, i))}

Rehydrate(j) ==
  /\ pc[j] = "plan"
  /\ resumeDone' = [resumeDone EXCEPT
                      ![j] = (@ \ Planned(j)) \cup Rehydrated(j)]
  /\ fed' = [fed EXCEPT ![j] =
               [c \in Cell |-> IF \E i \in Rehydrated(j) : c \in CellsOf(j, i)
                               THEN cell[c] ELSE "none"]]
  /\ Goto(j, "fetch")
  /\ UNCHANGED <<diskVars, layout, resumeLayout, window, calm>>

(* check_consistent: an honest holder declares the true layout, so it is   *)
(* rejected under a lying one.                                             *)
Consistent(j) == layout[j] = TrueLen

(* verify_fetched: both checks are structural, so the bytes that pass are  *)
(* an honest holder's, or what a lying one serves at the right length.     *)
RangeVerifies(j, v) ==
  \/ v = "good" /\ Consistent(j)
  \/ v \in {"good", "bad"} /\ ~calm

(* handle_result of a range that verifies.                                 *)
FetchRange(j, i, v) ==
  /\ pc[j] = "fetch"
  /\ i \in PendingRanges(j)
  /\ RangeVerifies(j, v)
  /\ cell' = WriteAt(cell, CellsOf(j, i), v)
  /\ fed' = [fed EXCEPT ![j] =
               [c \in Cell |-> IF c \in CellsOf(j, i) THEN v ELSE @[c]]]
  /\ resumeDone' = [resumeDone EXCEPT ![j] = @ \cup {i}]
  /\ Goto(j, "checkpoint")
  /\ UNCHANGED <<ckpt, target, layout, resumeLayout, window, calm>>

(* write_at fails, or the process dies in it, after the first n chunks are *)
(* in the file: the attempt ends with nothing recorded.                    *)
WriteInterrupted(j, i, v, n) ==
  /\ ~calm
  /\ pc[j] = "fetch"
  /\ i \in PendingRanges(j)
  /\ RangeVerifies(j, v)
  /\ cell' = WriteAt(cell, {c \in CellsOf(j, i) : c <= n}, v)
  /\ End(j)
  /\ UNCHANGED <<ckpt, target, memVars, calm>>

Checkpoint(j) ==
  /\ pc[j] = "checkpoint"
  /\ \/ /\ ckpt' = Saved(resumeLayout[j], resumeDone[j])
        /\ Goto(j, "fetch")
     \/ SaveFails /\ UNCHANGED ckpt /\ End(j)
  /\ UNCHANGED <<cell, target, memVars, calm>>

(* The best-effort checkpoint of a pause or a cancel.                      *)
TryCheckpoint(j) ==
  \/ ckpt' = Saved(resumeLayout[j], resumeDone[j])
  \/ SaveFails /\ UNCHANGED ckpt

Pause(j) ==
  /\ pc[j] = "fetch"
  /\ TryCheckpoint(j)
  /\ UNCHANGED <<cell, target, claims, pc, memVars, calm>>

(* The scheduler ends without every range: NoProviders, a sink error, or   *)
(* Cancelled, which checkpoints first.  The checkpoint and the staged      *)
(* bytes stay for a resume.                                                *)
GiveUp(j) ==
  /\ pc[j] = "fetch"
  /\ PendingRanges(j) # {}
  /\ ~calm \/ layout[j] # TrueLen
  /\ UNCHANGED ckpt \/ TryCheckpoint(j)
  /\ End(j)
  /\ UNCHANGED <<cell, target, memVars, calm>>

(* Mutants: the length is bound but not the hash; the hash but not the     *)
(* length.                                                                 *)
LeafLengthOnly(j) == ~VerifyWhole \/ layout[j] = TrueLen
LeafPrefixOnly(j) ==
  ~VerifyWhole \/ \A c \in 1..TrueLen : fed[j][c] = "good"

(* verify_resource_leaf: the hash of everything fed, and its length, bind  *)
(* to the root.  A collision-free hash accepts the true content only.      *)
LeafVerifies(j) ==
  \/ ~VerifyWhole
  \/ layout[j] = TrueLen /\ \A c \in 1..TrueLen : fed[j][c] = "good"

(* Mutant: a refuted assembly is kept for the next attempt.                *)
VerifyLeafKeepsPoison(j) ==
  /\ pc[j] = "fetch"
  /\ PendingRanges(j) = {}
  /\ \/ LeafVerifies(j) /\ Goto(j, "promoteTruncate")
     \/ ~LeafVerifies(j) /\ End(j)
  /\ UNCHANGED <<diskVars, memVars, calm>>

VerifyLeaf(j) ==
  /\ pc[j] = "fetch"
  /\ PendingRanges(j) = {}
  /\ Goto(j, IF LeafVerifies(j) THEN "promoteTruncate" ELSE "discard")
  /\ UNCHANGED <<diskVars, memVars, calm>>

(* discard_unverifiable_assembly: clear, then truncate, both best-effort.  *)
DiscardCheckpoint(j) ==
  /\ pc[j] = "discard"
  /\ \/ ckpt' = NoCheckpoint
     \/ ~calm /\ UNCHANGED ckpt
  /\ Goto(j, "discardTruncate")
  /\ UNCHANGED <<cell, target, memVars, calm>>

DiscardBytes(j) ==
  /\ pc[j] = "discardTruncate"
  /\ \/ cell' = Truncate(cell, 0)
     \/ ~calm /\ UNCHANGED cell
  /\ End(j)
  /\ UNCHANGED <<ckpt, target, memVars, calm>>

(* Mutant: the staging file is promoted as it is.                          *)
PromoteUntrimmed(j) ==
  /\ pc[j] = "promoteTruncate"
  /\ Goto(j, "finalize")
  /\ UNCHANGED <<diskVars, memVars, calm>>

(* promote_verified: truncate to the verified length, prove the length by  *)
(* reading its last byte and failing to read one past it, then rename.     *)
PromoteTruncate(j) ==
  /\ pc[j] = "promoteTruncate"
  /\ \/ cell' = Truncate(cell, layout[j]) /\ Goto(j, "promoteProve")
     \/ ~calm /\ UNCHANGED cell /\ Goto(j, "discard")
  /\ UNCHANGED <<ckpt, target, memVars, calm>>

LengthProven(j) ==
  /\ cell[layout[j]] # "none"
  /\ \A c \in Cell : c = layout[j] + 1 => cell[c] = "none"

PromoteProve(j) ==
  /\ pc[j] = "promoteProve"
  /\ Goto(j, IF LengthProven(j) THEN "finalize" ELSE "discard")
  /\ UNCHANGED <<diskVars, memVars, calm>>

Finalize(j) ==
  /\ pc[j] = "finalize"
  /\ \/ /\ cell # EmptyFile
        /\ target' = cell
        /\ cell' = EmptyFile
        /\ Goto(j, "clear")
     \/ /\ ~calm \/ cell = EmptyFile
        /\ UNCHANGED <<cell, target>>
        /\ Goto(j, "discard")
  /\ UNCHANGED <<ckpt, memVars, calm>>

(* Completed: drop the checkpoint, ignoring an error.                      *)
ClearCheckpoint(j) ==
  /\ pc[j] = "clear"
  /\ \/ ckpt' = NoCheckpoint
     \/ ~calm /\ UNCHANGED ckpt
  /\ End(j)
  /\ UNCHANGED <<cell, target, memVars, calm>>

-----------------------------------------------------------------------------
(* The process dies, or the task unwinds, at any await.                    *)
Crash(j) ==
  /\ ~calm
  /\ pc[j] # "idle"
  /\ End(j)
  /\ UNCHANGED <<diskVars, memVars, calm>>

(* FileStateStore::save is a plain write: a crash inside it leaves a       *)
(* prefix of the file.                                                     *)
CrashInSave(j) ==
  /\ ~calm
  /\ TornSaves
  /\ pc[j] \in {"persist", "checkpoint"}
  /\ ckpt' = TornCheckpoint
  /\ End(j)
  /\ UNCHANGED <<cell, target, memVars, calm>>

(* A sweep reaps the staging file of a path nobody claims; the checkpoint, *)
(* kept elsewhere, survives.                                               *)
Reap ==
  /\ claims = {}
  /\ cell # EmptyFile
  /\ cell' = EmptyFile
  /\ UNCHANGED <<ckpt, target, claims, pc, memVars, calm>>

(* From here on every holder is honest, nothing crashes and no I/O fails.  *)
BecomeCalm ==
  /\ ~calm
  /\ calm' = TRUE
  /\ UNCHANGED <<diskVars, claims, pc, memVars>>

JobStep(j) ==
  \/ Load(j)
  \/ LoadFails(j)
  \/ Claim(j)
  \/ ClaimRefused(j)
  \/ Locate(j)
  \/ LocateFails(j)
  \/ \E l \in Cell : Probe(j, l)
  \/ ProbeFails(j)
  \/ KeepPlan(j)
  \/ ResetPlan(j)
  \/ ResetTruncate(j)
  \/ Persist(j)
  \/ Rehydrate(j)
  \/ \E i \in Cell, v \in Value : FetchRange(j, i, v)
  \/ Checkpoint(j)
  \/ GiveUp(j)
  \/ VerifyLeaf(j)
  \/ DiscardCheckpoint(j)
  \/ DiscardBytes(j)
  \/ PromoteTruncate(j)
  \/ PromoteProve(j)
  \/ Finalize(j)
  \/ ClearCheckpoint(j)

Next ==
  \/ \E j \in Job : JobStep(j) \/ Pause(j) \/ Crash(j) \/ CrashInSave(j)
  \/ \E j \in Job, i, n \in Cell, v \in Value : WriteInterrupted(j, i, v, n)
  \/ Reap
  \/ BecomeCalm

Spec == Init /\ [][Next]_vars

(* A caller retries a failed download, and a running task is polled.       *)
FairSpec == Spec /\ \A j \in Job : WF_vars(JobStep(j))

-----------------------------------------------------------------------------
Labels == {"idle", "claim", "locate", "probe", "reset", "resetTruncate",
           "persist", "plan", "fetch", "checkpoint", "discard",
           "discardTruncate", "promoteTruncate", "promoteProve", "finalize",
           "clear"}

TypeOK ==
  /\ cell \in [Cell -> Value]
  /\ ckpt \in Checkpoints
  /\ target \in [Cell -> Value]
  /\ claims \in SUBSET Job
  /\ pc \in [Job -> Labels]
  /\ layout \in [Job -> 0..MaxCells]
  /\ resumeLayout \in [Job -> 0..MaxCells]
  /\ resumeDone \in [Job -> SUBSET Cell]
  /\ window \in [Job -> Windows]
  /\ fed \in [Job -> [Cell -> Value]]
  /\ calm \in BOOLEAN

(* The target path never shows anything but the whole verified resource,   *)
(* whatever the holders serve, wherever an attempt crashes, whatever an    *)
(* earlier attempt left in the staging file or the checkpoint.             *)
ArtifactVerified == target \in {EmptyFile, Truth}

(* The inductive invariant behind it.  A job past the claim holds it, and  *)
(* alone; what the hasher was fed is what the staging file holds; after    *)
(* the leaf check that is the true content; after the truncate nothing     *)
(* follows it.                                                             *)
Holding == {"fetch", "checkpoint", "promoteTruncate", "promoteProve",
            "finalize"}
Promoting == {"promoteTruncate", "promoteProve", "finalize"}

OwnsClaim ==
  \A j \in Job : pc[j] \notin {"idle", "claim"} => j \in claims

ExclusiveClaim == SharedRegistry => \A j, k \in claims : j = k

FedIsStaged ==
  \A j \in Job : pc[j] \in Holding =>
    \A c \in Cell : fed[j][c] # "none" => c <= layout[j] /\ cell[c] = fed[j][c]

LeafBound ==
  \A j \in Job : pc[j] \in Promoting =>
    layout[j] = TrueLen /\ \A c \in 1..TrueLen : fed[j][c] = "good"

TailTrimmed ==
  \A j \in Job : pc[j] \in {"promoteProve", "finalize"} =>
    \A c \in Cell : c > layout[j] => cell[c] = "none"

PromotionInv ==
  /\ OwnsClaim
  /\ ExclusiveClaim
  /\ FedIsStaged
  /\ LeafBound
  /\ TailTrimmed
  /\ ArtifactVerified

(* The abstract promise, as seen through the target file.                  *)
Artifact == INSTANCE VerifiedArtifact WITH
  target <- IF target = EmptyFile THEN "absent"
            ELSE IF target = Truth THEN "verified" ELSE "corrupt"

ArtifactSpec == Artifact!Spec

(* promote_verified renames exactly the bytes this attempt checked: never  *)
(* a longer or shorter file, and no cell an earlier attempt staged that    *)
(* this one did not read back or fetch.  Holds with the whole-resource     *)
(* check disabled too.                                                     *)
PromotesWhatItChecked ==
  [][\A j \in Job : pc[j] = "finalize" /\ pc'[j] = "clear" =>
       target' = [c \in Cell |->
                    IF c <= layout[j] THEN fed[j][c] ELSE "none"]]_vars

(* SPEC 10, Resume: a later attempt fetches only what is missing.  A range *)
(* the checkpoint records for the same plan, with its bytes still staged,  *)
(* is not fetched again, and no save drops such a range from the           *)
(* checkpoint (which would have it fetched again by the next attempt).     *)
(* An attempt with another window reads the recorded index as another      *)
(* span, so the bytes count as staged when they are under every window.    *)
StagedAsWritten(l, w, i) ==
  \A c \in RangeCells(l, w, i) : cell[c] \in {"good", "bad"}

RecordedNotFetched ==
  \A j \in Job : pc[j] = "fetch" /\ pc'[j] = "checkpoint" =>
    \A i \in resumeDone'[j] \ resumeDone[j] :
      ~( /\ ckpt.layout = layout[j]
         /\ i \in ckpt.done
         /\ StagedAsWritten(layout[j], window[j], i) )

SaveDropsNothingStaged ==
  ckpt.kind = "ok" /\ ckpt'.kind = "ok" /\ ckpt'.layout = ckpt.layout =>
    \A i \in ckpt.done \ ckpt'.done : \E w \in Windows :
      ~StagedAsWritten(ckpt.layout, w, i)

VerifiedRangeNeverRefetched ==
  [][RecordedNotFetched /\ SaveDropsNothingStaged]_vars

(* Fail-closed is never permanently denied: once holders are honest and    *)
(* nothing fails, retries end with the resource at its target, whatever    *)
(* staged bytes and checkpoint the bad times left behind.                  *)
Recovers == calm ~> target = Truth

=============================================================================
