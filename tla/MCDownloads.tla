---------------------------- MODULE MCDownloads ----------------------------
(***************************************************************************)
(* The queue that admits downloads and the job each of them is, in one     *)
(* run.  They meet only in the events a job emits and in its end, which    *)
(* DownloadQueue takes to be free, so a behaviour is about one of them and *)
(* the state space is the sum of theirs.                                   *)
(***************************************************************************)
EXTENDS DownloadJob, DownloadQueue

CONSTANT Parts   \* the parts a run is about, of "job" and "queue"

VARIABLE focus

downloadsVars == <<focus, vars, queueVars>>

DownloadsInit ==
  /\ focus \in Parts
  /\ Init
  /\ focus = "queue" => window = [j \in Job |-> CHOOSE w \in Windows : TRUE]
  /\ QueueInit

DownloadsNext ==
  \/ focus = "job" /\ Next /\ UNCHANGED <<focus, queueVars>>
  \/ focus = "queue" /\ QueueNext /\ UNCHANGED <<focus, vars>>

(* Jobs under no fairness: what is asked of them is safety.                *)
DownloadsSpec ==
  /\ DownloadsInit /\ [][DownloadsNext]_downloadsVars
  /\ focus = "job" \/ QueueFairness

(* Jobs alone, each retried and polled.                                    *)
RetriedJobsSpec ==
  /\ DownloadsInit /\ [][DownloadsNext]_downloadsVars
  /\ \A j \in Job : WF_vars(JobStep(j))

=============================================================================
