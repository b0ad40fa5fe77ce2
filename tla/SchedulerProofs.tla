-------------------------- MODULE SchedulerProofs --------------------------
(***************************************************************************)
(* The accounting of the range scheduler, for any number of ranges and     *)
(* holders, any caps and any budgets.                                      *)
(***************************************************************************)
EXTENDS Scheduler, FiniteSetTheorems, TLAPS

(* The ranges and the fetches are finitely many, so they can be counted.   *)
LEMMA Finiteness ==
  /\ IsFiniteSet(RangeIndex)
  /\ \A S \in SUBSET RangeIndex : IsFiniteSet(S) /\ Cardinality(S) \in Nat
<1>1. 1 \in Int /\ RangeCount \in Int
  BY ConfigAssumption
<1>2. IsFiniteSet(1..RangeCount)
  BY <1>1, FS_Interval
<1>3. IsFiniteSet(RangeIndex)
  BY <1>2 DEF RangeIndex
<1> QED BY <1>3, FS_Subset, FS_CardinalityType

(* Every range of the plan has an index a checkpoint may hold.             *)
LEMMA PlanIsRecordable == RangeIndex \subseteq RecordedIndex
BY ConfigAssumption DEF RangeIndex, RecordedIndex

(* Type correctness of the scheduler's state.                              *)
THEOREM TypeCorrect == Spec => []TypeOK
<1>1. Init => TypeOK
  <2> SUFFICES ASSUME Init PROVE TypeOK
    OBVIOUS
  <2>1. Done \in SUBSET RangeIndex
    BY DEF Done
  <2>2. bytesDone \in Nat /\ doneRanges \in SUBSET RecordedIndex
        /\ saved \in SUBSET RecordedIndex /\ staged \in SUBSET RangeIndex
    BY <2>1, Finiteness DEF Init
  <2>3. rangeState \in [RangeIndex -> RangeState]
    BY DEF Init, RangeState
  <2>4. control \in Seq(Control)
    BY DEF Init
  <2> QED BY <2>2, <2>3, <2>4 DEF Init, TypeOK, Outcome
<1>2. TypeOK /\ [Next]_vars => TypeOK'
  <2> SUFFICES ASSUME TypeOK, [Next]_vars PROVE TypeOK'
    OBVIOUS
  <2> USE DEF TypeOK, transferVars, discoveryVars, callerVars, planVars, Return, Outcome
  <2>1. CASE SkipFill
    BY <2>1 DEF SkipFill
  <2>2. CASE SelectPlan
    BY <2>2 DEF SelectPlan, Available
  <2>3. ASSUME NEW i \in RangeIndex, NEW p \in Peer, Assign(i, p) PROVE TypeOK'
    <3>1. rangeState' \in [RangeIndex -> RangeState]
      BY <2>3 DEF Assign, RangeState
    <3>2. inflightPerSource' \in [Peer -> Nat]
      BY <2>3 DEF Assign
    <3>3. inflight' \in SUBSET (RangeIndex \X Peer)
      BY <2>3 DEF Assign
    <3> QED BY <2>3, <3>1, <3>2, <3>3 DEF Assign
  <2>4. CASE EndFill
    BY <2>4 DEF EndFill
  <2>5. CASE FinishOk
    BY <2>5 DEF FinishOk
  <2>6. CASE ExhaustBudget
    BY <2>6 DEF ExhaustBudget
  <2>7. CASE ToSelect
    BY <2>7 DEF ToSelect
  <2>8. CASE StartRelocate
    BY <2>8 DEF StartRelocate
  <2>9. CASE WaitBackoff
    BY <2>9 DEF WaitBackoff, WaitOrGiveUp
  <2>10. CASE RelocateFails
    BY <2>10 DEF RelocateFails
  <2>11. ASSUME NEW found \in SUBSET Peer,
                RelocateReturns(found) \/ RefreshReturns(found)
         PROVE  TypeOK'
    <3>1. CASE RelocateReturns(found)
      BY <3>1 DEF RelocateReturns, Merge, WaitOrGiveUp
    <3>2. CASE RefreshReturns(found)
      BY <3>2 DEF RefreshReturns, Merge
    <3> QED BY <2>11, <3>1, <3>2
  <2>0. control # <<>> => Tail(control) \in Seq(Control)
    BY DEF TypeOK
  <2>12. CASE OnPause
    BY <2>0, <2>12 DEF OnPause, Checkpoint
  <2>13. CASE OnResume
    BY <2>0, <2>13 DEF OnResume
  <2>14. CASE OnCancel
    <3>1. control' \in Seq(Control) /\ saved' \in SUBSET RecordedIndex
      BY <2>0, <2>14 DEF OnCancel, Checkpoint
    <3> QED BY <2>14, <3>1 DEF OnCancel
  <2>15. ASSUME NEW i \in RangeIndex, NEW p \in Peer, FreeSlot(i, p)
         PROVE  /\ inflight' \in SUBSET (RangeIndex \X Peer)
                /\ inflightPerSource' \in [Peer -> Nat]
    BY <2>15 DEF FreeSlot
  <2>16. ASSUME NEW i \in RangeIndex, NEW p \in Peer, RangeVerified(i, p) PROVE TypeOK'
    <3>1. rangeState' \in [RangeIndex -> RangeState]
      BY <2>16 DEF RangeVerified, RangeState
    <3>2. saved' \in SUBSET RecordedIndex /\ doneRanges' \in SUBSET RecordedIndex
      BY <2>16, PlanIsRecordable DEF RangeVerified
    <3>3. pc' \in {"top", "ended"} /\ result' \in Outcome
      BY <2>16 DEF RangeVerified
    <3>4. inflight' \in SUBSET (RangeIndex \X Peer) /\ inflightPerSource' \in [Peer -> Nat]
      BY <2>15, <2>16 DEF RangeVerified
    <3>5. staged' \in SUBSET RangeIndex /\ bytesDone' \in Nat /\ backedOff' \in SUBSET Peer
      BY <2>16 DEF RangeVerified
    <3>6. /\ relocatedSinceProgress' \in BOOLEAN
          /\ UNCHANGED <<totalFailures, providers, relocateAttempts, callerVars,
                         planVars, paused>>
      BY <2>16 DEF RangeVerified
    <3> QED BY <3>1, <3>2, <3>3, <3>4, <3>5, <3>6
  <2>17. ASSUME NEW i \in RangeIndex, NEW p \in Peer, WriteFails(i, p) PROVE TypeOK'
    BY <2>15, <2>17 DEF WriteFails
  <2>18. ASSUME NEW i \in RangeIndex, NEW p \in Peer, RangeFailed(i, p) PROVE TypeOK'
    <3>1. rangeState' \in [RangeIndex -> RangeState]
      BY <2>18 DEF RangeFailed, RangeState
    <3> QED BY <2>15, <2>18, <3>1 DEF RangeFailed
  <2>19. ASSUME NEW i \in RangeIndex, NEW p \in Peer, FetchTerminal(i, p) PROVE TypeOK'
    BY <2>15, <2>19 DEF FetchTerminal
  <2>20. CASE BackoffElapsed
    BY <2>20 DEF BackoffElapsed
  <2>21. CASE StartRefresh
    BY <2>21 DEF StartRefresh
  <2>22. ASSUME NEW p \in Peer, BackoffExpires(p) PROVE TypeOK'
    BY <2>22 DEF BackoffExpires
  <2>23. ASSUME NEW c \in Control, Send(c) PROVE TypeOK'
    BY <2>23 DEF Send
  <2>24. CASE DropHandle
    BY <2>24 DEF DropHandle
  <2>25. CASE Terminated \/ UNCHANGED vars
    BY <2>25 DEF Terminated, vars
  <2> QED
    BY <2>1, <2>2, <2>3, <2>4, <2>5, <2>6, <2>7, <2>8, <2>9, <2>10, <2>11,
       <2>12, <2>13, <2>14, <2>16, <2>17, <2>18, <2>19, <2>20, <2>21, <2>22,
       <2>23, <2>24, <2>25
    DEF Next, LoopStep, Discovered, OnControl, HandleResult
<1> QED BY <1>1, <1>2, PTL DEF Spec

-----------------------------------------------------------------------------
(* What a step does to the transfer: it assigns a range, handles a fetch,  *)
(* or leaves ranges, fetches and counters alone (it may save).             *)
LEMMA StepKinds ==
  ASSUME [Next]_vars
  PROVE  \/ \E i \in RangeIndex, p \in Peer : Assign(i, p) \/ HandleResult(i, p)
         \/ /\ UNCHANGED <<rangeState, inflight, inflightPerSource, doneRanges,
                           staged, bytesDone, totalFailures>>
            /\ saved' \in {saved, doneRanges}
            /\ pc = "ended" => pc' = "ended"
<1> USE DEF transferVars
<1>1. CASE SkipFill \/ SelectPlan \/ EndFill \/ FinishOk \/ ExhaustBudget
  BY <1>1 DEF SkipFill, SelectPlan, EndFill, FinishOk, ExhaustBudget, Return
<1>2. CASE ToSelect \/ StartRelocate \/ WaitBackoff
  BY <1>2 DEF ToSelect, StartRelocate, WaitBackoff, WithinBudget
<1>3. CASE Discovered
  BY <1>3 DEF Discovered, RelocateFails, RelocateReturns, RefreshReturns
<1>4. CASE OnControl
  BY <1>4 DEF OnControl, OnPause, OnResume, OnCancel, Checkpoint
<1>5. CASE BackoffElapsed \/ StartRefresh
  BY <1>5 DEF BackoffElapsed, StartRefresh
<1>6. CASE (\E p \in Peer : BackoffExpires(p)) \/ (\E c \in Control : Send(c)) \/ DropHandle
  BY <1>6 DEF BackoffExpires, Send, DropHandle
<1>7. CASE Terminated \/ UNCHANGED vars
  BY <1>7 DEF Terminated, vars
<1> QED
  BY <1>1, <1>2, <1>3, <1>4, <1>5, <1>6, <1>7 DEF Next, LoopStep

(* The ranges in flight to p.                                              *)
FlyingTo(p) == {i \in RangeIndex : rangeState[i] = p}

(* Fetches are only started by Assign and only end in handle_result, so    *)
(* the futures, the InFlight marks and the per-source counters keep        *)
(* counting the same fetches.                                              *)
LEMMA AccountingKept ==
  ASSUME TypeOK, InFlightAccounting, [Next]_vars
  PROVE  InFlightAccounting'
<1> USE DEF InFlightAccounting
<1>1. ASSUME NEW i \in RangeIndex, NEW p \in Peer, Assign(i, p)
      PROVE  InFlightAccounting'
  <2>1. /\ pc # "ended"
        /\ rangeState[i] = "Pending"
        /\ rangeState' = [rangeState EXCEPT ![i] = p]
        /\ inflight' = inflight \cup {<<i, p>>}
        /\ inflightPerSource' = [inflightPerSource EXCEPT ![p] = @ + 1]
    BY <1>1 DEF Assign, Pending
  <2>2. \A k \in RangeIndex : rangeState'[k] = IF k = i THEN p ELSE rangeState[k]
    BY <2>1 DEF TypeOK
  <2>3. inflight' = {ip \in RangeIndex \X Peer : rangeState'[ip[1]] = ip[2]}
    BY <2>1, <2>2, PeerAssumption DEF TypeOK
  <2>4. ASSUME NEW q \in Peer
        PROVE  inflightPerSource'[q] = Cardinality({k \in RangeIndex : rangeState'[k] = q})
    <3>1. CASE q = p
      <4>1. {k \in RangeIndex : rangeState'[k] = q} = FlyingTo(p) \cup {i}
        BY <2>2, <3>1 DEF FlyingTo
      <4>2. i \notin FlyingTo(p) /\ IsFiniteSet(FlyingTo(p))
        BY <2>1, Finiteness, PeerAssumption DEF FlyingTo
      <4>3. Cardinality(FlyingTo(p) \cup {i}) = Cardinality(FlyingTo(p)) + 1
        BY <4>2, FS_AddElement
      <4>4. inflightPerSource[p] = Cardinality(FlyingTo(p))
        BY <2>1 DEF FlyingTo
      <4> QED BY <2>1, <3>1, <4>1, <4>3, <4>4 DEF TypeOK
    <3>2. CASE q # p
      <4>1. {k \in RangeIndex : rangeState'[k] = q} = {k \in RangeIndex : rangeState[k] = q}
        BY <2>1, <2>2, <3>2, PeerAssumption
      <4> QED BY <2>1, <3>2, <4>1 DEF TypeOK
    <3> QED BY <3>1, <3>2
  <2> QED BY <2>3, <2>4
<1>2. ASSUME NEW i \in RangeIndex, NEW p \in Peer, FreeSlot(i, p),
             NEW s \in {"Pending", "Done"},
             rangeState' = [rangeState EXCEPT ![i] = s]
      PROVE  InFlightAccounting'
  <2>1. /\ pc # "ended"
        /\ <<i, p>> \in inflight
        /\ inflight' = inflight \ {<<i, p>>}
        /\ inflightPerSource' = [inflightPerSource EXCEPT
                                   ![p] = IF @ > 0 THEN @ - 1 ELSE 0]
    BY <1>2 DEF FreeSlot
  <2>2. rangeState[i] = p
    BY <2>1
  <2>3. \A k \in RangeIndex : rangeState'[k] = IF k = i THEN s ELSE rangeState[k]
    BY <1>2 DEF TypeOK
  <2>4. inflight' = {ip \in RangeIndex \X Peer : rangeState'[ip[1]] = ip[2]}
    BY <2>1, <2>2, <2>3, PeerAssumption DEF TypeOK
  <2>5. ASSUME NEW q \in Peer
        PROVE  inflightPerSource'[q] = Cardinality({k \in RangeIndex : rangeState'[k] = q})
    <3>1. CASE q = p
      <4>1. {k \in RangeIndex : rangeState'[k] = q} = FlyingTo(p) \ {i}
        BY <2>3, <3>1, PeerAssumption DEF FlyingTo
      <4>2. i \in FlyingTo(p) /\ IsFiniteSet(FlyingTo(p)) /\ Cardinality(FlyingTo(p)) \in Nat
        BY <2>2, Finiteness DEF FlyingTo
      <4>3. Cardinality(FlyingTo(p) \ {i}) = Cardinality(FlyingTo(p)) - 1
            /\ Cardinality(FlyingTo(p) \ {i}) \in Nat
        BY <4>2, FS_RemoveElement, FS_CardinalityType
      <4>4. inflightPerSource[p] = Cardinality(FlyingTo(p))
        BY <2>1 DEF FlyingTo
      <4>5. inflightPerSource[p] > 0
        BY <4>2, <4>3, <4>4
      <4> QED BY <2>1, <3>1, <4>1, <4>3, <4>4, <4>5 DEF TypeOK
    <3>2. CASE q # p
      <4>1. {k \in RangeIndex : rangeState'[k] = q} = {k \in RangeIndex : rangeState[k] = q}
        BY <2>2, <2>3, <3>2, PeerAssumption
      <4> QED BY <2>1, <3>2, <4>1 DEF TypeOK
    <3> QED BY <3>1, <3>2
  <2> QED BY <2>4, <2>5
<1>3. ASSUME NEW i \in RangeIndex, NEW p \in Peer, HandleResult(i, p)
      PROVE  InFlightAccounting'
  <2>1. CASE RangeVerified(i, p)
    BY <1>2, <2>1 DEF RangeVerified
  <2>2. CASE RangeFailed(i, p)
    BY <1>2, <2>2 DEF RangeFailed
  <2>3. CASE WriteFails(i, p) \/ FetchTerminal(i, p)
    BY <2>3 DEF WriteFails, FetchTerminal, Return
  <2> QED BY <1>3, <2>1, <2>2, <2>3 DEF HandleResult
<1> QED BY <1>1, <1>3, StepKinds

(* fill checks both caps before it assigns, and nothing else adds to what  *)
(* is in flight.                                                           *)
LEMMA CapsKept ==
  ASSUME TypeOK, CapsRespected, [Next]_vars
  PROVE  CapsRespected'
<1> USE DEF CapsRespected
<1>1. IsFiniteSet(inflight) /\ Cardinality(inflight) \in Nat
  <2>1. IsFiniteSet(RangeIndex \X Peer)
    BY Finiteness, PeerAssumption, FS_Product
  <2> QED BY <2>1, FS_Subset, FS_CardinalityType DEF TypeOK
<1>2. ASSUME NEW i \in RangeIndex, NEW p \in Peer, Assign(i, p)
      PROVE  CapsRespected'
  <2>1. Cardinality(inflight') <= MaxConcurrency
    <3>1. /\ Cardinality(inflight) < MaxConcurrency
          /\ inflight' = inflight \cup {<<i, p>>}
      BY <1>2 DEF Assign
    <3>2. Cardinality(inflight \cup {<<i, p>>}) =
            IF <<i, p>> \in inflight THEN Cardinality(inflight)
                                     ELSE Cardinality(inflight) + 1
      BY <1>1, FS_AddElement
    <3>3. Cardinality(inflight') \in {Cardinality(inflight), Cardinality(inflight) + 1}
      BY <3>1, <3>2
    <3> QED BY <1>1, <3>1, <3>3, ConfigAssumption
  <2>2. \A q \in Peer : inflightPerSource'[q] <= MaxInflightPerSource
    BY <1>2, ConfigAssumption DEF Assign, UnderCap, TypeOK
  <2> QED BY <2>1, <2>2
<1>3. ASSUME NEW i \in RangeIndex, NEW p \in Peer, HandleResult(i, p)
      PROVE  CapsRespected'
  <2>1. /\ inflight' = inflight \ {<<i, p>>}
        /\ inflightPerSource' = [inflightPerSource EXCEPT
                                   ![p] = IF @ > 0 THEN @ - 1 ELSE 0]
    BY <1>3 DEF HandleResult, RangeVerified, WriteFails, RangeFailed,
                FetchTerminal, FreeSlot
  <2>2. inflight' \in SUBSET inflight
    BY <2>1
  <2>3. Cardinality(inflight') <= Cardinality(inflight) /\ Cardinality(inflight') \in Nat
    BY <1>1, <2>2, FS_Subset, FS_CardinalityType
  <2>4. Cardinality(inflight') <= MaxConcurrency
    BY <1>1, <2>3, ConfigAssumption
  <2>5. \A q \in Peer : inflightPerSource'[q] <= MaxInflightPerSource
    BY <2>1, ConfigAssumption DEF TypeOK
  <2> QED BY <2>4, <2>5
<1> QED BY <1>2, <1>3, StepKinds

(* write_at, mark_done and checkpoint happen in that order, and only a     *)
(* range that was in flight becomes Done.                                  *)
LEMMA ProgressKept ==
  ASSUME TypeOK, InFlightAccounting, ProgressIsReal, [Next]_vars
  PROVE  ProgressIsReal'
<1> USE DEF ProgressIsReal
<1>1. ASSUME NEW i \in RangeIndex, NEW p \in Peer, Assign(i, p)
      PROVE  ProgressIsReal'
  <2>1. Done' = Done
    BY <1>1, PeerAssumption DEF Assign, Pending, Done, TypeOK
  <2> QED BY <1>1, <2>1 DEF Assign
<1>2. ASSUME NEW i \in RangeIndex, NEW p \in Peer, FreeSlot(i, p)
      PROVE  rangeState[i] = p /\ i \notin Done
  BY <1>2, PeerAssumption DEF FreeSlot, InFlightAccounting, Done
<1>3. ASSUME NEW i \in RangeIndex, NEW p \in Peer, RangeVerified(i, p)
      PROVE  ProgressIsReal'
  <2>1. i \notin Done
    BY <1>2, <1>3 DEF RangeVerified
  <2>2. Done' = Done \cup {i}
    BY <1>3 DEF RangeVerified, Done, TypeOK
  <2>3. doneRanges' = doneRanges \cup {i} /\ staged' = staged \cup {i}
        /\ bytesDone' = bytesDone + 1
    BY <1>3 DEF RangeVerified
  <2>4. Cardinality(Done \cup {i}) = Cardinality(Done) + 1
    <3>1. IsFiniteSet(Done)
      BY Finiteness DEF Done
    <3> QED BY <2>1, <3>1, FS_AddElement
  <2>5. doneRanges' \cap RangeIndex = Done' /\ Done' \subseteq staged'
    BY <2>2, <2>3
  <2>6. bytesDone' = Cardinality(Done')
    BY <2>2, <2>3, <2>4
  <2> QED BY <2>5, <2>6
<1>4. ASSUME NEW i \in RangeIndex, NEW p \in Peer, RangeFailed(i, p)
      PROVE  ProgressIsReal'
  <2>1. rangeState[i] = p
    BY <1>2, <1>4 DEF RangeFailed
  <2>2. Done' = Done
    BY <1>4, <2>1, PeerAssumption DEF RangeFailed, Done, TypeOK
  <2> QED BY <1>4, <2>2 DEF RangeFailed
<1>5. ASSUME NEW i \in RangeIndex, NEW p \in Peer, WriteFails(i, p) \/ FetchTerminal(i, p)
      PROVE  ProgressIsReal'
  BY <1>5 DEF WriteFails, FetchTerminal, Done
<1>6. CASE UNCHANGED <<rangeState, doneRanges, staged, bytesDone>>
  BY <1>6 DEF Done
<1> QED BY <1>1, <1>3, <1>4, <1>5, <1>6, StepKinds DEF HandleResult

(* What the checkpoint claims of this plan without bytes behind it, only   *)
(* the checkpoint it was resumed from can have claimed: a save records the *)
(* resume state, which claims staged ranges and indices of other plans     *)
(* that the checkpoint already held.                                       *)
ClaimsInherited == doneRanges \ saved \subseteq staged

(* Bytes are written before a claim, and no save forgets a stale index.    *)
LEMMA ClaimsKept ==
  ASSUME TypeOK, ProgressIsReal, ClaimsInherited, [Next]_vars
  PROVE  ClaimsInherited' /\ saved' \ staged' \subseteq saved \ staged
<1> USE DEF ClaimsInherited
<1>1. ASSUME NEW i \in RangeIndex, NEW p \in Peer, RangeVerified(i, p)
      PROVE  ClaimsInherited' /\ saved' \ staged' \subseteq saved \ staged
  <2>1. /\ staged' = staged \cup {i}
        /\ doneRanges' = doneRanges \cup {i}
        /\ saved' \in {saved, doneRanges'}
    BY <1>1 DEF RangeVerified
  <2> QED BY <2>1
<1>2. ASSUME NEW i \in RangeIndex, NEW p \in Peer,
             Assign(i, p) \/ WriteFails(i, p) \/ RangeFailed(i, p) \/ FetchTerminal(i, p)
      PROVE  ClaimsInherited' /\ saved' \ staged' \subseteq saved \ staged
  BY <1>2 DEF Assign, WriteFails, RangeFailed, FetchTerminal
<1>3. CASE UNCHANGED <<doneRanges, staged>> /\ saved' \in {saved, doneRanges}
  BY <1>3
<1> QED BY <1>1, <1>2, <1>3, StepKinds DEF HandleResult

(* The scheduler only waits for a fetch while the retry budget is not      *)
(* overdrawn: the check precedes select! and a locate.                     *)
BudgetOpen ==
  pc \in {"select", "relocating", "refreshing"} => totalFailures <= Budget

(* A failure is counted before the budget is looked at again.              *)
LEMMA RetriesKept ==
  ASSUME TypeOK, RetryBounded, BudgetOpen, [Next]_vars
  PROVE  RetryBounded' /\ BudgetOpen'
<1> USE DEF RetryBounded, BudgetOpen
<1>1. Budget \in Nat /\ Budget' = Budget
  BY ConfigAssumption DEF Budget
<1>2. ASSUME NEW i \in RangeIndex, NEW p \in Peer, HandleResult(i, p)
      PROVE  RetryBounded' /\ BudgetOpen'
  <2>1. pc = "select" /\ pc' \notin {"select", "relocating", "refreshing"}
    BY <1>2 DEF HandleResult, RangeVerified, WriteFails, RangeFailed,
                FetchTerminal, FreeSlot, Return
  <2>2. totalFailures' \in {totalFailures, totalFailures + 1}
        /\ relocateAttempts' = relocateAttempts
    BY <1>2 DEF HandleResult, RangeVerified, WriteFails, RangeFailed,
                FetchTerminal, discoveryVars
  <2> QED BY <1>1, <2>1, <2>2 DEF TypeOK
<1>3. ASSUME NEW i \in RangeIndex, NEW p \in Peer, Assign(i, p)
      PROVE  RetryBounded' /\ BudgetOpen'
  BY <1>1, <1>3 DEF Assign, discoveryVars
<1> USE DEF transferVars, discoveryVars
<1>4. CASE SkipFill \/ SelectPlan \/ EndFill \/ FinishOk \/ ExhaustBudget
  BY <1>1, <1>4 DEF SkipFill, SelectPlan, EndFill, FinishOk, ExhaustBudget, Return
<1>5. CASE ToSelect \/ StartRelocate \/ WaitBackoff
  BY <1>1, <1>5, ConfigAssumption
  DEF ToSelect, StartRelocate, WaitBackoff, WithinBudget, MayRelocate, TypeOK
<1>6. CASE Discovered
  BY <1>1, <1>6 DEF Discovered, RelocateFails, RelocateReturns, RefreshReturns, Return
<1>7. CASE OnControl
  BY <1>1, <1>7 DEF OnControl, OnPause, OnResume, OnCancel, Return
<1>8. CASE BackoffElapsed \/ StartRefresh
  BY <1>1, <1>8 DEF BackoffElapsed, StartRefresh
<1>9. CASE (\E p \in Peer : BackoffExpires(p)) \/ (\E c \in Control : Send(c)) \/ DropHandle
  BY <1>1, <1>9 DEF BackoffExpires, Send, DropHandle
<1>10. CASE Terminated \/ UNCHANGED vars
  BY <1>1, <1>10 DEF Terminated, vars
<1> QED
  BY <1>2, <1>3, <1>4, <1>5, <1>6, <1>7, <1>8, <1>9, <1>10
  DEF Next, LoopStep

(* A fill pass only runs while not paused, and the plan it works from      *)
(* stays valid: only handle_result starts a backoff, and it runs later.    *)
FillInv == pc = "fill" => ~paused /\ offered \subseteq Available

(* The fill pass is one turn of the task: nothing pauses it half way.      *)
LEMMA FillKept ==
  ASSUME TypeOK, FillInv, [Next]_vars
  PROVE  FillInv'
<1> USE DEF FillInv, Available, discoveryVars, planVars
<1>1. ASSUME NEW i \in RangeIndex, NEW p \in Peer, Assign(i, p) PROVE FillInv'
  BY <1>1 DEF Assign
<1>2. CASE SkipFill \/ SelectPlan \/ EndFill \/ FinishOk \/ ExhaustBudget
  BY <1>2 DEF SkipFill, SelectPlan, EndFill, FinishOk, ExhaustBudget, Return
<1>3. CASE ToSelect \/ StartRelocate \/ WaitBackoff
  BY <1>3 DEF ToSelect, StartRelocate, WaitBackoff, WaitOrGiveUp, Return
<1>4. CASE Discovered
  BY <1>4 DEF Discovered, RelocateFails, RelocateReturns, RefreshReturns,
              WaitOrGiveUp, Return
<1>5. CASE OnControl
  BY <1>5 DEF OnControl, OnPause, OnResume, OnCancel, Return
<1>6. ASSUME NEW i \in RangeIndex, NEW p \in Peer, HandleResult(i, p) PROVE FillInv'
  BY <1>6 DEF HandleResult, RangeVerified, WriteFails, RangeFailed, FetchTerminal, Return
<1>7. CASE BackoffElapsed \/ StartRefresh
  BY <1>7 DEF BackoffElapsed, StartRefresh
<1>8. CASE (\E p \in Peer : BackoffExpires(p)) \/ (\E c \in Control : Send(c)) \/ DropHandle
  BY <1>8 DEF BackoffExpires, Send, DropHandle
<1>9. CASE Terminated \/ UNCHANGED vars
  BY <1>9 DEF Terminated, vars
<1> QED
  BY <1>1, <1>2, <1>3, <1>4, <1>5, <1>6, <1>7, <1>8, <1>9 DEF Next, LoopStep

-----------------------------------------------------------------------------
(* The inductive invariant of the scheduler: its four safety invariants,   *)
(* what the checkpoint claims, and two facts about where the loop stands.  *)
SchedulerInv ==
  /\ InFlightAccounting
  /\ CapsRespected
  /\ ProgressIsReal
  /\ ClaimsInherited
  /\ RetryBounded
  /\ BudgetOpen
  /\ FillInv

(* A resumed task starts with its done ranges and nothing in flight.       *)
LEMMA InitEstablishes == Init => SchedulerInv
<1> SUFFICES ASSUME Init PROVE SchedulerInv
  OBVIOUS
<1>1. InFlightAccounting
  <2>1. \A i \in RangeIndex : rangeState[i] \in {"Pending", "Done"}
    BY DEF Init
  <2>2. \A p \in Peer : {i \in RangeIndex : rangeState[i] = p} = {}
    BY <2>1, PeerAssumption
  <2>3. {ip \in RangeIndex \X Peer : rangeState[ip[1]] = ip[2]} = {}
    BY <2>1, PeerAssumption
  <2> QED BY <2>2, <2>3, FS_EmptySet DEF Init, InFlightAccounting
<1>2. CapsRespected
  BY FS_EmptySet, ConfigAssumption DEF Init, CapsRespected
<1>3. ProgressIsReal /\ ClaimsInherited
  <2>1. Done \subseteq RangeIndex
    BY DEF Done
  <2> QED BY <2>1 DEF Init, ProgressIsReal, ClaimsInherited
<1>4. Budget \in Nat
  BY ConfigAssumption DEF Budget
<1>5. RetryBounded /\ BudgetOpen /\ FillInv
  BY <1>4, ConfigAssumption DEF Init, RetryBounded, BudgetOpen, FillInv
<1> QED BY <1>1, <1>2, <1>3, <1>5 DEF SchedulerInv

(* The invariant holds throughout, for any plan, any holders, any caps and *)
(* any interleaving of completions, failures, pauses and refreshes.        *)
THEOREM SchedulerInvariant == Spec => []SchedulerInv
<1>1. TypeOK /\ SchedulerInv /\ [Next]_vars => SchedulerInv'
  BY AccountingKept, CapsKept, ProgressKept, ClaimsKept, RetriesKept, FillKept DEF SchedulerInv
<1> QED BY <1>1, InitEstablishes, TypeCorrect, PTL DEF Spec

(* The futures, the InFlight marks and the per-source counters always      *)
(* agree: no slot is leaked and no range is stuck (fill, handle_result).   *)
THEOREM AccountingSafe == Spec => []InFlightAccounting
<1>1. SchedulerInv => InFlightAccounting
  BY DEF SchedulerInv
<1> QED BY <1>1, SchedulerInvariant, PTL

(* Neither cap of fill is ever exceeded.                                   *)
THEOREM CapsSafe == Spec => []CapsRespected
<1>1. SchedulerInv => CapsRespected
  BY DEF SchedulerInv
<1> QED BY <1>1, SchedulerInvariant, PTL

(* The resume state and the progress counter never run ahead of the sink   *)
(* (handle_result), whatever rehydration dropped from the checkpoint.      *)
THEOREM ProgressSafe == Spec => []ProgressIsReal
<1>1. SchedulerInv => ProgressIsReal
  BY DEF SchedulerInv
<1> QED BY <1>1, SchedulerInvariant, PTL

(* No save, of a result, a pause or a cancel, makes the durable checkpoint *)
(* claim a range whose bytes are not staged, from any checkpoint resumed.  *)
THEOREM CheckpointSafe == Spec => CheckpointGainsOnlyStaged
<1>1. TypeOK /\ SchedulerInv /\ [Next]_vars
        => [saved' \ staged' \subseteq saved \ staged]_vars
  BY ClaimsKept DEF SchedulerInv
<1> QED BY <1>1, TypeCorrect, SchedulerInvariant, PTL DEF Spec, CheckpointGainsOnlyStaged

(* Failures and relocations stay within their budgets (schedule_loop).     *)
THEOREM RetriesSafe == Spec => []RetryBounded
<1>1. SchedulerInv => RetryBounded
  BY DEF SchedulerInv
<1> QED BY <1>1, SchedulerInvariant, PTL

(* A verified range is never re-queued or fetched again by the scheduler.  *)
THEOREM DoneIsFinal == Spec => DoneNeverRefetched
<1>1. TypeOK /\ SchedulerInv /\ [Next]_vars
        => [\A i \in Done : i \in Done' /\ \A p \in Peer : <<i, p>> \notin inflight']_vars
  <2> SUFFICES ASSUME TypeOK, SchedulerInv, Next, vars' # vars, NEW k \in Done
               PROVE  k \in Done' /\ \A p \in Peer : <<k, p>> \notin inflight'
    OBVIOUS
  <2>1. pc # "ended"
    BY DEF Next, LoopStep, Discovered, OnControl, HandleResult, SkipFill,
       SelectPlan, Assign, EndFill, FinishOk, ExhaustBudget, ToSelect,
       StartRelocate, WaitBackoff, WithinBudget, RelocateFails,
       RelocateReturns, RefreshReturns, OnPause, OnResume, OnCancel, RangeVerified,
       WriteFails, RangeFailed, FetchTerminal, FreeSlot, BackoffElapsed,
       StartRefresh, BackoffExpires, Send, DropHandle, Terminated
  <2>2. inflight = {ip \in RangeIndex \X Peer : rangeState[ip[1]] = ip[2]}
    BY <2>1 DEF SchedulerInv, InFlightAccounting
  <2>3. k \in RangeIndex /\ rangeState[k] = "Done"
        /\ \A p \in Peer : <<k, p>> \notin inflight
    BY <2>2, PeerAssumption DEF Done
  <2>4. ASSUME NEW i \in RangeIndex, NEW p \in Peer, Assign(i, p)
        PROVE  k \in Done' /\ \A q \in Peer : <<k, q>> \notin inflight'
    BY <2>3, <2>4 DEF Assign, Pending, Done, TypeOK
  <2>5. ASSUME NEW i \in RangeIndex, NEW p \in Peer, HandleResult(i, p)
        PROVE  k \in Done' /\ \A q \in Peer : <<k, q>> \notin inflight'
    <3>1. i # k /\ inflight' = inflight \ {<<i, p>>}
      BY <2>3, <2>5 DEF HandleResult, RangeVerified, WriteFails, RangeFailed,
                        FetchTerminal, FreeSlot
    <3>2. rangeState'[k] = rangeState[k]
      BY <2>3, <2>5, <3>1 DEF HandleResult, RangeVerified, WriteFails,
                              RangeFailed, FetchTerminal, TypeOK
    <3> QED BY <2>3, <3>1, <3>2 DEF Done
  <2>6. CASE UNCHANGED <<rangeState, inflight>>
    BY <2>3, <2>6 DEF Done
  <2> QED BY <2>4, <2>5, <2>6, StepKinds
<1> QED BY <1>1, TypeCorrect, SchedulerInvariant, PTL DEF Spec, DoneNeverRefetched

(* A fetch starts only while not paused, towards a known holder outside    *)
(* its backoff window (fill, select_plan).                                 *)
THEOREM FetchesScheduled == Spec => FetchesAreScheduled
<1>1. SchedulerInv /\ [Next]_vars
        => [\A ip \in inflight' \ inflight : ~paused /\ ip[2] \in Available]_vars
  <2> SUFFICES ASSUME SchedulerInv, [Next]_vars, NEW ip \in inflight' \ inflight
               PROVE  ~paused /\ ip[2] \in Available
    OBVIOUS
  <2>1. ASSUME NEW i \in RangeIndex, NEW p \in Peer, Assign(i, p)
        PROVE  ~paused /\ ip[2] \in Available
    BY <2>1 DEF Assign, SchedulerInv, FillInv
  <2>2. ASSUME NEW i \in RangeIndex, NEW p \in Peer, HandleResult(i, p) PROVE FALSE
    BY <2>2 DEF HandleResult, RangeVerified, WriteFails, RangeFailed,
                FetchTerminal, FreeSlot
  <2> QED BY <2>1, <2>2, StepKinds
<1> QED BY <1>1, SchedulerInvariant, PTL DEF Spec, FetchesAreScheduled

=============================================================================
