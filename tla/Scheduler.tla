----------------------------- MODULE Scheduler -----------------------------
(***************************************************************************)
(* The concurrent range scheduler of one download: Job::schedule_loop of   *)
(* orchestrator.rs and everything it calls (fill, pick_from_plan,          *)
(* handle_result, relocate, discover_more, earliest_backoff), together     *)
(* with the SourceTracker it consults and the control channel the handle   *)
(* writes to.                                                              *)
(*                                                                         *)
(* The task runs alone between two awaits, so a step of the model is the   *)
(* code between two points where another actor can act.  The other actors  *)
(* are the clock (a backoff window ends), the remote holders (a fetch      *)
(* resolves), discovery (a locate returns) and the caller (pause, resume,  *)
(* cancel, drop of the handle).                                            *)
(*                                                                         *)
(* Data abstracted: a range is its index and has length one (so bytes_done *)
(* counts ranges), time is the set of peers inside a backoff window, and   *)
(* the injected SourceSelector is a nondeterministic choice.               *)
(***************************************************************************)
EXTENDS Naturals, Sequences, FiniteSets

CONSTANTS
  Peer,                  \* every holder discovery may ever report
  RangeCount,            \* ranges.len(): the ranges are 1..RangeCount
  MaxConcurrency,        \* config.max_concurrency
  MaxInflightPerSource,  \* config.max_inflight_per_source
  MaxRelocateAttempts,   \* config.max_relocate_attempts
  MaxRangeAttempts,      \* config.max_range_attempts
  RefreshEnabled,        \* config.refresh_interval.is_some()
  SelectorMayDecline,    \* may the plan leave live candidates out, or pin them?
  ControlCap,            \* capacity of the control channel (16 in the code)
  MaxCommands            \* bound of the model: commands the caller sends

ASSUME ConfigAssumption ==
  /\ RangeCount \in Nat
  /\ MaxConcurrency \in Nat \ {0}
  /\ MaxInflightPerSource \in Nat \ {0}
  /\ MaxRelocateAttempts \in Nat
  /\ MaxRangeAttempts \in Nat
  /\ RefreshEnabled \in BOOLEAN
  /\ SelectorMayDecline \in BOOLEAN
  /\ ControlCap \in Nat \ {0}
  /\ MaxCommands \in Nat

ASSUME PeerAssumption ==
  /\ IsFiniteSet(Peer)
  /\ "Pending" \notin Peer
  /\ "Done" \notin Peer

RangeIndex == 1..RangeCount

(* The indices a checkpoint may hold.  The window is not persisted, so it  *)
(* may also record an index of an earlier, finer plan: one past this plan. *)
RecordedIndex == 1..(RangeCount + 1)

(* RangeState: Pending, InFlight(peer) or Done; InFlight(p) is written p.  *)
RangeState == {"Pending", "Done"} \cup Peer

Control == {"Pause", "Resume", "Cancel"}

(* How the task ends: Ok, or the variant of DownloadError it returns.      *)
Outcome == {"None", "Ok", "NoProviders", "Cancelled", "Locate", "Sink",
            "State", "Fetch"}

VARIABLES
  pc,              \* where the task is in the body of the loop
  rangeState,      \* range_state
  inflight,        \* the (index, peer) pairs in the FuturesUnordered
  inflightPerSource,
  doneRanges,      \* resume.done_ranges
  saved,           \* the done_ranges of the last successful checkpoint
  staged,          \* ranges whose bytes write_at has accepted
  bytesDone,
  providers,
  backedOff,       \* peers the tracker reports unavailable now
  offered,         \* the peers of the SelectPlan of the current fill
  wakeup,          \* the backed-off peers whose earliest expiry is slept for
  paused,
  totalFailures,
  relocateAttempts,
  relocatedSinceProgress,
  control,         \* the control channel
  sent,            \* commands the caller has issued
  handleDropped,   \* the caller has dropped the DownloadHandle
  result

vars == <<pc, rangeState, inflight, inflightPerSource, doneRanges, saved,
          staged, bytesDone, providers, backedOff, offered, wakeup, paused,
          totalFailures, relocateAttempts, relocatedSinceProgress, control,
          sent, handleDropped, result>>

(* Groups used in UNCHANGED clauses.                                       *)
transferVars == <<rangeState, inflight, inflightPerSource, doneRanges, saved,
                  staged, bytesDone, totalFailures>>
discoveryVars == <<providers, relocateAttempts, relocatedSinceProgress>>
callerVars == <<control, sent, handleDropped>>
planVars == <<offered, wakeup>>

-----------------------------------------------------------------------------
(* Mutant: next_pending takes any range that is not in flight.             *)
PendingNotInFlight == {i \in RangeIndex : rangeState[i] \notin Peer}

Pending == {i \in RangeIndex : rangeState[i] = "Pending"}
Done == {i \in RangeIndex : rangeState[i] = "Done"}

(* all_done() is false for an empty plan.                                  *)
AllDone == RangeCount > 0 /\ Done = RangeIndex

Budget ==
  IF RangeCount = 0 THEN MaxRangeAttempts ELSE RangeCount * MaxRangeAttempts

Available == providers \ backedOff

(* Mutant: the per-source cap is off by one.                               *)
UnderCapOffByOne(p) == inflightPerSource[p] <= MaxInflightPerSource

UnderCap(p) == inflightPerSource[p] < MaxInflightPerSource

(* The scheduler can make no progress on its own: nothing is in flight,    *)
(* something is missing and it is not paused.                              *)
Stuck == ~paused /\ inflight = {} /\ ~AllDone

(* The task returns.                                                       *)
Return(outcome) ==
  /\ pc' = "ended"
  /\ result' = outcome

(* The caller of locate_and_confirm gets the holders that confirmed: any   *)
(* set; merging keeps the new ones.                                        *)
Merge(found) == providers' = providers \cup found

-----------------------------------------------------------------------------
(* run_inner hands over a plan, at least one confirmed holder, and the     *)
(* paused flag of the options.  persist_commitment saved what the loaded   *)
(* checkpoint recorded; rehydrate_resumed_ranges then dropped the ranges   *)
(* of the plan it could not read back, and did not save again.             *)
Init ==
  /\ pc = "top"
  /\ rangeState \in [RangeIndex -> {"Pending", "Done"}]
  /\ saved \in SUBSET RecordedIndex
  /\ Done \subseteq saved
  /\ doneRanges = Done \cup (saved \ RangeIndex)
  /\ staged = Done
  /\ bytesDone = Cardinality(Done)
  /\ inflight = {}
  /\ inflightPerSource = [p \in Peer |-> 0]
  /\ providers \in SUBSET Peer \ {{}}
  /\ backedOff = {}
  /\ offered = {}
  /\ wakeup = {}
  /\ paused \in BOOLEAN
  /\ totalFailures = 0
  /\ relocateAttempts = 0
  /\ relocatedSinceProgress = FALSE
  /\ control = <<>>
  /\ sent = 0
  /\ handleDropped = FALSE
  /\ result = "None"

-----------------------------------------------------------------------------
(* fill: select_plan fixes the candidates once per pass, then the loop     *)
(* assigns the lowest pending range until a cap, the plan or the pending   *)
(* ranges run out.  A plan may also pin its peers to certain ranges; then  *)
(* the loop stops at the first range nobody is offered for.  A pass is     *)
(* skipped while paused.                                                   *)
SkipFill ==
  /\ pc = "top"
  /\ paused
  /\ pc' = "check"
  /\ UNCHANGED <<transferVars, discoveryVars, callerVars, planVars, result,
                 backedOff, paused>>

(* Mutant: fill runs while paused.                                         *)
SelectPlanPaused ==
  /\ pc = "top"
  /\ \E plan \in SUBSET Available :
       /\ SelectorMayDecline \/ plan = Available
       /\ offered' = plan
  /\ pc' = "fill"
  /\ UNCHANGED <<transferVars, discoveryVars, callerVars, result, wakeup,
                 backedOff, paused>>

SelectPlan ==
  /\ pc = "top"
  /\ ~paused
  /\ \E plan \in SUBSET Available :
       /\ SelectorMayDecline \/ plan = Available
       /\ offered' = plan
  /\ pc' = "fill"
  /\ UNCHANGED <<transferVars, discoveryVars, callerVars, result, wakeup,
                 backedOff, paused>>

Assign(i, p) ==
  /\ pc = "fill"
  /\ Cardinality(inflight) < MaxConcurrency
  /\ i \in Pending
  /\ \A j \in Pending : i <= j
  /\ p \in offered
  /\ UnderCap(p)
  /\ rangeState' = [rangeState EXCEPT ![i] = p]
  /\ inflightPerSource' = [inflightPerSource EXCEPT ![p] = @ + 1]
  /\ inflight' = inflight \cup {<<i, p>>}
  /\ UNCHANGED <<pc, doneRanges, saved, staged, bytesDone, totalFailures,
                 discoveryVars, callerVars, planVars, result, backedOff,
                 paused>>

EndFill ==
  /\ pc = "fill"
  /\ \/ Cardinality(inflight) >= MaxConcurrency
     \/ Pending = {}
     \/ \A p \in offered : ~UnderCap(p)
     \/ SelectorMayDecline
  /\ pc' = "check"
  /\ offered' = {}
  /\ UNCHANGED <<transferVars, discoveryVars, callerVars, result, wakeup,
                 backedOff, paused>>

-----------------------------------------------------------------------------
(* The checks between fill and select!.                                    *)
FinishOk ==
  /\ pc = "check"
  /\ AllDone
  /\ inflight = {}
  /\ Return("Ok")
  /\ UNCHANGED <<transferVars, discoveryVars, callerVars, planVars, backedOff,
                 paused>>

ExhaustBudget ==
  /\ pc = "check"
  /\ ~(AllDone /\ inflight = {})
  /\ totalFailures > Budget
  /\ Return("NoProviders")
  /\ UNCHANGED <<transferVars, discoveryVars, callerVars, planVars, backedOff,
                 paused>>

MayRelocate ==
  ~relocatedSinceProgress /\ relocateAttempts < MaxRelocateAttempts

(* match self.earliest_backoff(): sleep until the first backed-off holder  *)
(* is due, or give up when no holder is backed off.  known is the provider *)
(* list at that moment.                                                    *)
WaitOrGiveUp(known) ==
  \/ /\ known \cap backedOff # {}
     /\ wakeup' = known \cap backedOff
     /\ pc' = "select"
     /\ UNCHANGED result
  \/ /\ known \cap backedOff = {}
     /\ Return("NoProviders")
     /\ UNCHANGED wakeup

(* Mutant: the retry budget is not checked.                                *)
WithinNoBudget ==
  /\ pc = "check"
  /\ ~(AllDone /\ inflight = {})

WithinBudget ==
  /\ pc = "check"
  /\ ~(AllDone /\ inflight = {})
  /\ totalFailures <= Budget

ToSelect ==
  /\ WithinBudget
  /\ ~Stuck
  /\ pc' = "select"
  /\ wakeup' = {}
  /\ UNCHANGED <<transferVars, discoveryVars, callerVars, result, offered,
                 backedOff, paused>>

StartRelocate ==
  /\ WithinBudget
  /\ Stuck
  /\ MayRelocate
  /\ relocateAttempts' = relocateAttempts + 1
  /\ pc' = "relocating"
  /\ UNCHANGED <<transferVars, callerVars, planVars, result, providers,
                 relocatedSinceProgress, backedOff, paused>>

WaitBackoff ==
  /\ WithinBudget
  /\ Stuck
  /\ ~MayRelocate
  /\ WaitOrGiveUp(providers)
  /\ UNCHANGED <<transferVars, discoveryVars, callerVars, offered, backedOff,
                 paused>>

(* relocate().await? returns: an error of the locator ends the task; new   *)
(* holders restart the loop; otherwise the backoffs are consulted, as they *)
(* stand after the await.                                                  *)
RelocateFails ==
  /\ pc = "relocating"
  /\ Return("Locate")
  /\ UNCHANGED <<transferVars, discoveryVars, callerVars, planVars, backedOff,
                 paused>>

RelocateReturns(found) ==
  /\ pc = "relocating"
  /\ Merge(found)
  /\ relocatedSinceProgress' = TRUE
  /\ \/ /\ ~(found \subseteq providers)
        /\ pc' = "top"
        /\ UNCHANGED <<wakeup, result>>
     \/ /\ found \subseteq providers
        /\ WaitOrGiveUp(providers)
  /\ UNCHANGED <<transferVars, callerVars, relocateAttempts, offered,
                 backedOff, paused>>

-----------------------------------------------------------------------------
(* The branches of select!.                                                *)

(* Pause and Cancel checkpoint best-effort: the save may fail silently.    *)
Checkpoint == saved' \in {saved, doneRanges}

OnPause ==
  /\ pc = "select"
  /\ control # <<>>
  /\ Head(control) = "Pause"
  /\ control' = Tail(control)
  /\ IF paused THEN UNCHANGED saved ELSE Checkpoint
  /\ paused' = TRUE
  /\ pc' = "top"
  /\ UNCHANGED <<rangeState, inflight, inflightPerSource, doneRanges, staged,
                 bytesDone, totalFailures, discoveryVars, sent, handleDropped,
                 planVars, result, backedOff>>

OnResume ==
  /\ pc = "select"
  /\ control # <<>>
  /\ Head(control) = "Resume"
  /\ control' = Tail(control)
  /\ paused' = FALSE
  /\ pc' = "top"
  /\ UNCHANGED <<transferVars, discoveryVars, sent, handleDropped, planVars,
                 result, backedOff>>

(* Mutant: a closed control channel is not a cancel.                       *)
OnCancelMessageOnly ==
  /\ pc = "select"
  /\ control # <<>>
  /\ Head(control) = "Cancel"
  /\ control' = Tail(control)
  /\ Checkpoint
  /\ Return("Cancelled")
  /\ UNCHANGED <<rangeState, inflight, inflightPerSource, doneRanges, staged,
                 bytesDone, totalFailures, discoveryVars, sent, handleDropped,
                 planVars, backedOff, paused>>

(* Cancel, or the closed channel of a dropped handle once it is drained.   *)
OnCancel ==
  /\ pc = "select"
  /\ \/ /\ control # <<>>
        /\ Head(control) = "Cancel"
        /\ control' = Tail(control)
     \/ /\ control = <<>>
        /\ handleDropped
        /\ UNCHANGED control
  /\ Checkpoint
  /\ Return("Cancelled")
  /\ UNCHANGED <<rangeState, inflight, inflightPerSource, doneRanges, staged,
                 bytesDone, totalFailures, discoveryVars, sent, handleDropped,
                 planVars, backedOff, paused>>

(* Mutants: the slot is never freed; the slot is freed twice, unsaturated. *)
FreeSlotLeaks(i, p) ==
  /\ pc = "select"
  /\ <<i, p>> \in inflight
  /\ inflight' = inflight \ {<<i, p>>}
  /\ UNCHANGED inflightPerSource

FreeSlotTwice(i, p) ==
  /\ pc = "select"
  /\ <<i, p>> \in inflight
  /\ inflight' = inflight \ {<<i, p>>}
  /\ inflightPerSource' = [inflightPerSource EXCEPT ![p] = @ - 2]

(* handle_result: every outcome first frees the source's slot.             *)
FreeSlot(i, p) ==
  /\ pc = "select"
  /\ <<i, p>> \in inflight
  /\ inflight' = inflight \ {<<i, p>>}
  /\ inflightPerSource' = [inflightPerSource EXCEPT
                             ![p] = IF @ > 0 THEN @ - 1 ELSE 0]

RangeVerified(i, p) ==
  /\ FreeSlot(i, p)
  /\ staged' = staged \cup {i}
  /\ rangeState' = [rangeState EXCEPT ![i] = "Done"]
  /\ doneRanges' = doneRanges \cup {i}
  /\ bytesDone' = bytesDone + 1
  /\ backedOff' = backedOff \ {p}
  /\ relocatedSinceProgress' = FALSE
  /\ \/ saved' = doneRanges' /\ pc' = "top" /\ UNCHANGED result
     \/ saved' = saved /\ Return("State")
  /\ UNCHANGED <<totalFailures, providers, relocateAttempts, callerVars,
                 planVars, paused>>

(* Mutant: the range is recorded and checkpointed before it is written.    *)
WriteFailsRecorded(i, p) ==
  /\ FreeSlot(i, p)
  /\ doneRanges' = doneRanges \cup {i}
  /\ saved' = doneRanges'
  /\ Return("Sink")
  /\ UNCHANGED <<rangeState, staged, bytesDone, totalFailures, discoveryVars,
                 callerVars, planVars, backedOff, paused>>

(* write_at fails: the task returns before anything is recorded.           *)
WriteFails(i, p) ==
  /\ FreeSlot(i, p)
  /\ Return("Sink")
  /\ UNCHANGED <<rangeState, doneRanges, saved, staged, bytesDone,
                 totalFailures, discoveryVars, callerVars, planVars,
                 backedOff, paused>>

(* Mutant: a failure is not counted against the budget.                    *)
RangeFailedUncounted(i, p) ==
  /\ FreeSlot(i, p)
  /\ rangeState' = [rangeState EXCEPT ![i] = "Pending"]
  /\ backedOff' = backedOff \cup {p}
  /\ pc' = "top"
  /\ UNCHANGED <<totalFailures, doneRanges, saved, staged, bytesDone,
                 discoveryVars, callerVars, planVars, result, paused>>

(* A transport, timeout or verification failure: re-queue, back off.       *)
RangeFailed(i, p) ==
  /\ FreeSlot(i, p)
  /\ rangeState' = [rangeState EXCEPT ![i] = "Pending"]
  /\ backedOff' = backedOff \cup {p}
  /\ totalFailures' = totalFailures + 1
  /\ pc' = "top"
  /\ UNCHANGED <<doneRanges, saved, staged, bytesDone, discoveryVars,
                 callerVars, planVars, result, paused>>

(* An error that is not recoverable ends the download.                     *)
FetchTerminal(i, p) ==
  /\ FreeSlot(i, p)
  /\ Return("Fetch")
  /\ UNCHANGED <<rangeState, doneRanges, saved, staged, bytesDone,
                 totalFailures, discoveryVars, callerVars, planVars,
                 backedOff, paused>>

BackoffElapsed ==
  /\ pc = "select"
  /\ wakeup # {}
  /\ ~(wakeup \subseteq backedOff)
  /\ pc' = "top"
  /\ UNCHANGED <<transferVars, discoveryVars, callerVars, planVars, result,
                 backedOff, paused>>

(* The periodic live upgrade awaits discover_more inside its branch: until *)
(* every located holder has answered, neither control nor a fetch is       *)
(* polled.                                                                 *)
StartRefresh ==
  /\ pc = "select"
  /\ RefreshEnabled
  /\ ~paused
  /\ pc' = "refreshing"
  /\ UNCHANGED <<transferVars, discoveryVars, callerVars, planVars, result,
                 backedOff, paused>>

(* An error of discover_more is ignored, which is the case found = {}.     *)
RefreshReturns(found) ==
  /\ pc = "refreshing"
  /\ Merge(found)
  /\ pc' = "top"
  /\ UNCHANGED <<transferVars, relocateAttempts, relocatedSinceProgress,
                 callerVars, planVars, result, backedOff, paused>>

-----------------------------------------------------------------------------
(* The other actors.                                                       *)

(* The clock passes backoff_until of p.                                    *)
BackoffExpires(p) ==
  /\ pc # "ended"
  /\ p \in backedOff
  /\ backedOff' = backedOff \ {p}
  /\ UNCHANGED <<pc, transferVars, discoveryVars, callerVars, planVars,
                 result, paused>>

(* pause(), resume(), cancel(): try_send drops the command when the        *)
(* channel is full.                                                        *)
Send(c) ==
  /\ pc # "ended"
  /\ ~handleDropped
  /\ sent < MaxCommands
  /\ sent' = sent + 1
  /\ control' = IF Len(control) < ControlCap THEN Append(control, c)
                                             ELSE control
  /\ UNCHANGED <<pc, transferVars, discoveryVars, handleDropped, planVars,
                 result, backedOff, paused>>

DropHandle ==
  /\ pc # "ended"
  /\ ~handleDropped
  /\ handleDropped' = TRUE
  /\ UNCHANGED <<pc, transferVars, discoveryVars, control, sent, planVars,
                 result, backedOff, paused>>

(* The task has returned; nothing moves any more.                          *)
Terminated == pc = "ended" /\ UNCHANGED vars

-----------------------------------------------------------------------------
LoopStep ==
  \/ SkipFill
  \/ SelectPlan
  \/ \E i \in RangeIndex, p \in Peer : Assign(i, p)
  \/ EndFill
  \/ FinishOk
  \/ ExhaustBudget
  \/ ToSelect
  \/ StartRelocate
  \/ WaitBackoff

(* Discovery answers: locate_and_confirm asks one holder after the other,  *)
(* and no timeout bounds an ask.                                           *)
Discovered ==
  \/ RelocateFails
  \/ \E found \in SUBSET Peer : RelocateReturns(found) \/ RefreshReturns(found)

OnControl == OnPause \/ OnResume \/ OnCancel

HandleResult(i, p) ==
  \/ RangeVerified(i, p)
  \/ WriteFails(i, p)
  \/ RangeFailed(i, p)
  \/ FetchTerminal(i, p)

Next ==
  \/ LoopStep
  \/ Discovered
  \/ OnControl
  \/ \E i \in RangeIndex, p \in Peer : HandleResult(i, p)
  \/ BackoffElapsed
  \/ StartRefresh
  \/ \E p \in Peer : BackoffExpires(p)
  \/ \E c \in Control : Send(c)
  \/ DropHandle
  \/ Terminated

(* The task is polled (weak fairness of its own steps), a fetch resolves   *)
(* because range_timeout bounds it, the clock advances, and select! polls  *)
(* its branches in random order, so a branch that stays ready over the     *)
(* passes of the loop is taken (strong fairness).  Discovery gets none:    *)
(* nothing in the code makes an availability query return.                 *)
Fairness ==
  /\ WF_vars(LoopStep)
  /\ SF_vars(OnControl)
  /\ SF_vars(\E i \in RangeIndex, p \in Peer : HandleResult(i, p))
  /\ SF_vars(BackoffElapsed)
  /\ \A p \in Peer : WF_vars(BackoffExpires(p))

Spec == Init /\ [][Next]_vars

FairSpec == Spec /\ Fairness

-----------------------------------------------------------------------------
TypeOK ==
  /\ pc \in {"top", "fill", "check", "relocating", "select", "refreshing",
             "ended"}
  /\ rangeState \in [RangeIndex -> RangeState]
  /\ inflight \in SUBSET (RangeIndex \X Peer)
  /\ inflightPerSource \in [Peer -> Nat]
  /\ doneRanges \in SUBSET RecordedIndex
  /\ saved \in SUBSET RecordedIndex
  /\ staged \in SUBSET RangeIndex
  /\ bytesDone \in Nat
  /\ providers \in SUBSET Peer
  /\ backedOff \in SUBSET Peer
  /\ offered \in SUBSET Peer
  /\ wakeup \in SUBSET Peer
  /\ paused \in BOOLEAN
  /\ totalFailures \in Nat
  /\ relocateAttempts \in Nat
  /\ relocatedSinceProgress \in BOOLEAN
  /\ control \in Seq(Control)
  /\ sent \in Nat
  /\ handleDropped \in BOOLEAN
  /\ result \in Outcome

(* While the task runs, the three records of what is being fetched agree:  *)
(* the futures in the FuturesUnordered are exactly the ranges marked       *)
(* InFlight, and the per-source counter of handle_result and fill counts   *)
(* them.  A leaked slot would starve a holder for the rest of the          *)
(* download, a range stuck InFlight would never be fetched again.          *)
InFlightAccounting ==
  pc # "ended" =>
    /\ inflight = {ip \in RangeIndex \X Peer : rangeState[ip[1]] = ip[2]}
    /\ \A p \in Peer :
         inflightPerSource[p] =
           Cardinality({i \in RangeIndex : rangeState[i] = p})

(* The caps fill enforces hold at every moment, however completions,       *)
(* failures, pauses and refreshes interleave.                              *)
CapsRespected ==
  /\ Cardinality(inflight) <= MaxConcurrency
  /\ \A p \in Peer : inflightPerSource[p] <= MaxInflightPerSource

(* Write before record: what the resume state claims of this plan is what  *)
(* is marked Done, its bytes were accepted by the sink or read back from   *)
(* it, and the progress counter counts each such range exactly once.       *)
ProgressIsReal ==
  /\ doneRanges \cap RangeIndex = Done
  /\ Done \subseteq staged
  /\ bytesDone = Cardinality(Done)

(* Write before checkpoint: the durable checkpoint may start out claiming  *)
(* ranges whose bytes could not be read back, but no step adds a claim     *)
(* without bytes, for a crash at any await must not lose a range for good. *)
CheckpointGainsOnlyStaged ==
  [][saved' \ staged' \subseteq saved \ staged]_vars

(* The retry budget is overdrawn by at most the one failure that trips it, *)
(* and relocations stay within their budget: the bound that makes the loop *)
(* terminate against an all-bad provider set.                              *)
RetryBounded ==
  /\ totalFailures <= Budget + 1
  /\ relocateAttempts <= MaxRelocateAttempts

(* A verified range is never re-queued or fetched again: once Done, a      *)
(* range stays Done and is in flight to nobody.                            *)
DoneNeverRefetched ==
  [][\A i \in Done :
       i \in Done' /\ \A p \in Peer : <<i, p>> \notin inflight']_vars

(* A fetch is only started while not paused, towards a known holder that   *)
(* is not inside a backoff window.                                         *)
FetchesAreScheduled ==
  [][\A ip \in inflight' \ inflight : ~paused /\ ip[2] \in Available]_vars

(* Whatever is asked of discovery is answered again and again: the         *)
(* assumption the liveness of the loop rests on, since the queries it      *)
(* awaits are not bounded by range_timeout.                                *)
DiscoveryAnswers == []<>(pc \notin {"relocating", "refreshing"})

(* The download terminates unless it stays paused or a discovery query     *)
(* hangs: against any holders, any discovery answers and any selector.     *)
Termination ==
  []<>(~paused) /\ DiscoveryAnswers => <>(pc = "ended")

(* A cancel that reached the channel, or a dropped handle, ends the task,  *)
(* even if it is paused or its fetches keep failing; only a discovery      *)
(* query that hangs keeps it from being seen.                              *)
CallerCanEnd ==
  DiscoveryAnswers =>
    /\ (\E k \in DOMAIN control : control[k] = "Cancel") ~> pc = "ended"
    /\ handleDropped ~> pc = "ended"

(* SPEC 6: NoProviders means the provider set is exhausted, either no live *)
(* holder is left for a range still missing or the retry budget is spent.  *)
NoProvidersMeansExhausted ==
  [][result' = "NoProviders" /\ result = "None" =>
       \/ totalFailures > Budget
       \/ Done # RangeIndex /\ Available = {}]_vars

=============================================================================
