------------------------------ MODULE StagingGc ------------------------------
(***************************************************************************)
(* The sweeper of staging files (gc.rs) beside the downloads whose files   *)
(* it must leave alone (FileSink, sink.rs).  A sweep looks at the claims,  *)
(* at the age and at the directory one after the other, with nothing held  *)
(* in between; a download keeps the file it opened even when its name is   *)
(* gone.                                                                   *)
(***************************************************************************)
EXTENDS Naturals, FiniteSets

CONSTANTS
    Paths,      \* staging paths of one directory
    Files,      \* names for the files themselves (inodes)
    Absent,     \* no file of that name
    Jobs,       \* downloads
    Sweeps,     \* sweeps that may run at once
    MaxClaims,  \* bound on the claims that are made
    MaxTrouble  \* bound on I/O errors of sweeps and on crashes

NoPath == "none"

ASSUME StagingAssumption ==
    /\ NoPath \notin Paths
    /\ Absent \notin Files
    /\ Cardinality(Files) >= Cardinality(Paths) + Cardinality(Jobs)
    /\ MaxClaims \in Nat /\ MaxTrouble \in Nat

VARIABLES
    claimed,    \* ActiveDownloads: which paths are protected
    fileAt,     \* the file each staging path names
    old,        \* the files older than the ttl
    target,     \* what was promoted: "nothing", the download's "own" file, or
                \* a "foreign" one
    jobPath,    \* the path a download claimed
    handle,     \* the file it has open
    todo,       \* the entries a sweep has still to look at
    at,         \* the entry it is looking at
    stage,      \* and how far it is with it
    claims,
    trouble

stagingVars == <<claimed, fileAt, old, target, jobPath, handle, todo,
                 at, stage, claims, trouble>>

StagingInit ==
    /\ claimed = {}
    /\ fileAt = [p \in Paths |-> Absent]
    /\ old = {}
    /\ target = [p \in Paths |-> "nothing"]
    /\ jobPath = [j \in Jobs |-> NoPath]
    /\ handle = [j \in Jobs |-> Absent]
    /\ todo = [w \in Sweeps |-> {}]
    /\ at = [w \in Sweeps |-> NoPath]
    /\ stage = [w \in Sweeps |-> "resting"]
    /\ claims = 0
    /\ trouble = 0

InDirectory == {fileAt[p] : p \in Paths} \ {Absent}
Opened == {handle[j] : j \in Jobs} \ {Absent}

Orphan(p) == fileAt[p] # Absent /\ \A j \in Jobs : jobPath[j] # p

-----------------------------------------------------------------------------
(***************************************************************************)
(* A download: it claims its staging path or is refused, opens the file or *)
(* makes it at its first write.                                            *)
(***************************************************************************)
ProtectsNothing(p) == FALSE         \* two downloads share a staging file

Protects(p) == p \in claimed

ClaimPath(j, p) ==
    /\ jobPath[j] = NoPath
    /\ claims < MaxClaims
    /\ ~Protects(p)
    /\ claimed' = claimed \cup {p}
    /\ jobPath' = [jobPath EXCEPT ![j] = p]
    /\ claims' = claims + 1
    /\ UNCHANGED <<fileAt, old, target, handle, todo, at, stage, trouble>>

WriteRange(j) ==
    LET p == jobPath[j]
    IN /\ p # NoPath
       /\ IF handle[j] # Absent
          THEN /\ old' = old \ {handle[j]}
               /\ UNCHANGED <<fileAt, handle>>
          ELSE \E f \in IF fileAt[p] # Absent THEN {fileAt[p]}
                        ELSE Files \ (InDirectory \cup Opened) :
                  /\ fileAt' = [fileAt EXCEPT ![p] = f]
                  /\ handle' = [handle EXCEPT ![j] = f]
                  /\ old' = old \ {f}
    /\ UNCHANGED <<claimed, target, jobPath, todo, at, stage, claims, trouble>>

(***************************************************************************)
(* finalize closes the file and renames by path.  The claim is dropped     *)
(* with the job, whether the rename worked or not.                         *)
(***************************************************************************)
EndJobLeaks(j) ==                   \* the path is never given free again
    /\ jobPath' = [jobPath EXCEPT ![j] = NoPath]
    /\ handle' = [handle EXCEPT ![j] = Absent]
    /\ UNCHANGED claimed

EndJob(j) ==
    /\ claimed' = claimed \ {jobPath[j]}
    /\ jobPath' = [jobPath EXCEPT ![j] = NoPath]
    /\ handle' = [handle EXCEPT ![j] = Absent]

Finalize(j) ==
    LET p == jobPath[j]
    IN /\ p # NoPath
       /\ handle[j] # Absent
       /\ IF fileAt[p] = Absent
          THEN UNCHANGED <<fileAt, target>>
          ELSE /\ target' = [target EXCEPT
                                ![p] = IF fileAt[p] = handle[j] THEN "own" ELSE "foreign"]
               /\ fileAt' = [fileAt EXCEPT ![p] = Absent]
       /\ old' = old \cap {fileAt'[q] : q \in Paths}
       /\ EndJob(j)
    /\ UNCHANGED <<todo, at, stage, claims, trouble>>

GiveUp(j) ==
    /\ jobPath[j] # NoPath
    /\ EndJob(j)
    /\ old' = old \cap InDirectory
    /\ UNCHANGED <<fileAt, target, todo, at, stage, claims, trouble>>

(***************************************************************************)
(* The process dies: the registry and every open file go with it.          *)
(***************************************************************************)
Restart ==
    /\ trouble < MaxTrouble
    /\ trouble' = trouble + 1
    /\ claimed' = {}
    /\ jobPath' = [j \in Jobs |-> NoPath]
    /\ handle' = [j \in Jobs |-> Absent]
    /\ todo' = [w \in Sweeps |-> {}]
    /\ at' = [w \in Sweeps |-> NoPath]
    /\ stage' = [w \in Sweeps |-> "resting"]
    /\ old' = old \cap InDirectory
    /\ UNCHANGED <<fileAt, target, claims>>

-----------------------------------------------------------------------------
(***************************************************************************)
(* A sweep reads the directory, and takes its entries one by one in any    *)
(* order.  Each look is a step of its own.                                 *)
(***************************************************************************)
BeginSweep(w) ==
    /\ stage[w] = "resting"
    /\ todo' = [todo EXCEPT ![w] = {p \in Paths : fileAt[p] # Absent}]
    /\ stage' = [stage EXCEPT ![w] = "sweeping"]
    /\ UNCHANGED <<claimed, fileAt, old, target, jobPath, handle, at,
                   claims, trouble>>

CheckClaim(w, p) ==
    /\ stage[w] = "sweeping"
    /\ p \in todo[w]
    /\ todo' = [todo EXCEPT ![w] = @ \ {p}]
    /\ IF Protects(p) THEN UNCHANGED <<at, stage>>
       ELSE /\ at' = [at EXCEPT ![w] = p]
            /\ stage' = [stage EXCEPT ![w] = "aging"]
    /\ UNCHANGED <<claimed, fileAt, old, target, jobPath, handle, claims, trouble>>

(***************************************************************************)
(* is_stale: a file that is not there any more counts as stale.            *)
(***************************************************************************)
CheckAge(w) ==
    /\ stage[w] = "aging"
    /\ stage' = [stage EXCEPT ![w] =
                    IF fileAt[at[w]] = Absent \/ fileAt[at[w]] \in old
                    THEN "removing" ELSE "sweeping"]
    /\ UNCHANGED <<claimed, fileAt, old, target, jobPath, handle, todo,
                   at, claims, trouble>>

EndSweep(w) ==
    /\ stage' = [stage EXCEPT ![w] = "resting"]
    /\ todo' = [todo EXCEPT ![w] = {}]
    /\ at' = [at EXCEPT ![w] = NoPath]

(***************************************************************************)
(* remove_file: a file that is not there ends the whole sweep in an error. *)
(* The resume state beside it is removed too; nothing in this crate writes *)
(* one there, and one that is missing is no error.                         *)
(***************************************************************************)
RemoveFile(w) ==
    /\ stage[w] = "removing"
    /\ IF fileAt[at[w]] = Absent
       THEN EndSweep(w) /\ UNCHANGED <<fileAt, old>>
       ELSE /\ fileAt' = [fileAt EXCEPT ![at[w]] = Absent]
            /\ old' = old \cap ({fileAt'[q] : q \in Paths} \cup Opened)
            /\ stage' = [stage EXCEPT ![w] = "sidecar"]
            /\ UNCHANGED <<todo, at>>
    /\ UNCHANGED <<claimed, target, jobPath, handle, claims, trouble>>

RemoveSidecar(w) ==
    /\ stage[w] = "sidecar"
    /\ stage' = [stage EXCEPT ![w] = "sweeping"]
    /\ UNCHANGED <<claimed, fileAt, old, target, jobPath, handle, todo, at, claims, trouble>>

SweepErrs(w) ==
    /\ stage[w] \in {"sweeping", "removing", "sidecar"}
    /\ trouble < MaxTrouble
    /\ trouble' = trouble + 1
    /\ EndSweep(w)
    /\ UNCHANGED <<claimed, fileAt, old, target, jobPath, handle, claims>>

SweepDone(w) ==
    /\ stage[w] = "sweeping"
    /\ todo[w] = {}
    /\ EndSweep(w)
    /\ UNCHANGED <<claimed, fileAt, old, target, jobPath, handle, claims, trouble>>

(***************************************************************************)
(* The ttl passes for a file.                                              *)
(***************************************************************************)
Age(f) ==
    /\ f \in (InDirectory \cup Opened) \ old
    /\ old' = old \cup {f}
    /\ UNCHANGED <<claimed, fileAt, target, jobPath, handle, todo, at,
                   stage, claims, trouble>>

JobStep(j) ==
    \/ \E p \in Paths : ClaimPath(j, p)
    \/ WriteRange(j)
    \/ Finalize(j)
    \/ GiveUp(j)

SweepStep(w) ==
    \/ BeginSweep(w)
    \/ \E p \in Paths : CheckClaim(w, p)
    \/ CheckAge(w)
    \/ RemoveFile(w)
    \/ RemoveSidecar(w)
    \/ SweepDone(w)

StagingNext ==
    \/ \E j \in Jobs : JobStep(j)
    \/ \E w \in Sweeps : SweepStep(w) \/ SweepErrs(w)
    \/ \E f \in Files : Age(f)
    \/ Restart

(***************************************************************************)
(* The sweep runs on an interval (GcConfig), and files grow old.           *)
(***************************************************************************)
StagingFairness ==
    /\ \A w \in Sweeps : WF_stagingVars(SweepStep(w))
    /\ \A f \in Files : WF_stagingVars(Age(f))

StagingSpec == StagingInit /\ [][StagingNext]_stagingVars /\ StagingFairness

-----------------------------------------------------------------------------
(***************************************************************************)
(* A sweep may take a live download's staging file away, when the path is  *)
(* claimed after the sweep has looked at the claims.  It can only cost the *)
(* attempt: what is renamed onto a target is the file that this download   *)
(* wrote and verified, never one that another has put in its place.        *)
(***************************************************************************)
PromotesOwnFile == \A p \in Paths : target[p] # "foreign"

(***************************************************************************)
(* An orphan does not stay: as long as sweeps recur, its file is reaped or *)
(* claimed again, although a sweep that meets a file that has just gone,   *)
(* or any other error, is abandoned with the rest of its entries.          *)
(***************************************************************************)
OrphansReaped == \A p \in Paths : Orphan(p) ~> ~Orphan(p)

=============================================================================
