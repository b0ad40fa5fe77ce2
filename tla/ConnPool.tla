------------------------------- MODULE ConnPool -------------------------------
(***************************************************************************)
(* NatRangeTransport (source.rs, addr.rs): requests to one provider share  *)
(* a pooled session.  A request that finds none dials outside the pool     *)
(* lock, address by address, and inserts what it got unless another came   *)
(* first; it opens its stream under the session's lock, evicts the pooled  *)
(* session when that fails, and reads its answer with no lock held.        *)
(***************************************************************************)
EXTENDS Integers, Sequences, FiniteSets, VecRetain

CONSTANTS
    Requests,        \* concurrent calls of query_availability and fetch_range
    Sessions,        \* names for the live sessions, enough for every request
    NoSession,
    Addresses,       \* the provider's dialable candidates, as they were recorded
    HostOf,          \* for each: "v6", "v4", or "name" when it is no literal
    MaxCandidates,   \* MAX_DIAL_CANDIDATES
    MaxFaults        \* bound on cancellations and on sessions that break

ASSUME PoolAssumption ==
    /\ NoSession \notin Sessions
    /\ Cardinality(Sessions) > Cardinality(Requests)
    /\ Addresses \in Seq(DOMAIN HostOf)
    /\ HostOf \in [DOMAIN HostOf -> {"v6", "v4", "name"}]
    /\ MaxCandidates \in Nat /\ MaxFaults \in Nat

VARIABLES
    pool,       \* the pooled session of the provider
    step,       \* where each request is
    next,       \* which dial target a request tries next
    session,    \* the session a request dialed or shares
    holder,     \* which request holds each session's lock, if any
    broken,     \* the sessions whose connection is gone
    reachable,  \* the dial targets that answer at present
    missed,     \* for a dialing request, the targets it found unreachable
    faults

poolVars == <<pool, step, next, session, holder, broken, reachable, missed, faults>>

(***************************************************************************)
(* dial_candidates: IPv6 before IPv4 before what is no literal, in a       *)
(* stable order and cut to the cap.  provider_dial_targets: those that     *)
(* make a socket address, and the relay after them.                        *)
(***************************************************************************)
WithHost(hosts) == {a \in DOMAIN HostOf : HostOf[a] \in hosts}

Ranked(host) == Retain(Addresses, WithHost({host}))

DialCandidates ==
    LET sorted == Ranked("v6") \o Ranked("v4") \o Ranked("name")
    IN SubSeq(sorted, 1, IF Len(sorted) <= MaxCandidates THEN Len(sorted)
                                                         ELSE MaxCandidates)

DialTargets ==
    Retain(DialCandidates, WithHost({"v6", "v4"})) \o <<"relay-only">>

Targets == {DialTargets[i] : i \in 1 .. Len(DialTargets)}

NoRequester == "none"

PoolInit ==
    /\ pool = NoSession
    /\ step = [r \in Requests |-> "idle"]
    /\ next = [r \in Requests |-> 1]
    /\ session = [r \in Requests |-> NoSession]
    /\ holder = [s \in Sessions |-> NoRequester]
    /\ broken = {}
    /\ reachable = Targets
    /\ missed = [r \in Requests |-> {}]
    /\ faults = 0

InUse == {pool} \cup {session[r] : r \in Requests}

(***************************************************************************)
(* A request ends: its future is gone, and with it its lock and its share  *)
(* of the session.  The name of a session nobody refers to is free again.  *)
(***************************************************************************)
Leave(r, pool2) ==
    LET session2 == [session EXCEPT ![r] = NoSession]
    IN /\ step' = [step EXCEPT ![r] = "idle"]
       /\ next' = [next EXCEPT ![r] = 1]
       /\ missed' = [missed EXCEPT ![r] = {}]
       /\ session' = session2
       /\ pool' = pool2
       /\ holder' = [s \in Sessions |->
                        IF holder[s] = r THEN NoRequester ELSE holder[s]]
       /\ broken' = broken \cap ({pool2} \cup {session2[q] : q \in Requests})

(***************************************************************************)
(* pooled_conn: share the pooled session, or dial.                         *)
(***************************************************************************)
LookUp(r) ==
    /\ step[r] = "idle"
    /\ IF pool # NoSession
       THEN /\ step' = [step EXCEPT ![r] = "opening"]
            /\ session' = [session EXCEPT ![r] = pool]
       ELSE /\ step' = [step EXCEPT ![r] = "dialing"]
            /\ UNCHANGED session
    /\ UNCHANGED <<pool, next, holder, broken, reachable, missed, faults>>

(***************************************************************************)
(* connect: the targets in their order, each a dial of its own, until one  *)
(* answers; the request fails when the last one did not.                   *)
(***************************************************************************)
DialAnswers(r) ==
    /\ step[r] = "dialing"
    /\ next[r] <= Len(DialTargets)
    /\ DialTargets[next[r]] \in reachable
    /\ \E s \in Sessions \ InUse :
          session' = [session EXCEPT ![r] = s]
    /\ step' = [step EXCEPT ![r] = "inserting"]
    /\ UNCHANGED <<pool, next, holder, broken, reachable, missed, faults>>

DialMisses(r) ==
    /\ step[r] = "dialing"
    /\ next[r] <= Len(DialTargets)
    /\ DialTargets[next[r]] \notin reachable
    /\ next' = [next EXCEPT ![r] = @ + 1]
    /\ missed' = [missed EXCEPT ![r] = @ \cup {DialTargets[next[r]]}]
    /\ UNCHANGED <<pool, step, session, holder, broken, reachable, faults>>

ConnectFailsEarly(r) ==             \* the first target that is dead ends it
    /\ step[r] = "dialing"
    /\ next[r] > 1
    /\ step' = [step EXCEPT ![r] = "unreachable"]
    /\ UNCHANGED <<pool, next, session, holder, broken, reachable, missed, faults>>

ConnectFails(r) ==
    /\ step[r] = "dialing"
    /\ next[r] > Len(DialTargets)
    /\ step' = [step EXCEPT ![r] = "unreachable"]
    /\ UNCHANGED <<pool, next, session, holder, broken, reachable, missed, faults>>

ReportUnreachable(r) ==
    /\ step[r] = "unreachable"
    /\ Leave(r, pool)
    /\ UNCHANGED <<reachable, faults>>

(***************************************************************************)
(* The race insert: a session another request pooled meanwhile is shared,  *)
(* and the fresh one dropped.                                              *)
(***************************************************************************)
Insert(r) ==
    /\ step[r] = "inserting"
    /\ IF pool = NoSession
       THEN /\ pool' = session[r]
            /\ UNCHANGED session
       ELSE /\ session' = [session EXCEPT ![r] = pool]
            /\ UNCHANGED pool
    /\ step' = [step EXCEPT ![r] = "opening"]
    /\ broken' = broken \cap ({pool'} \cup {session'[q] : q \in Requests})
    /\ UNCHANGED <<next, holder, reachable, missed, faults>>

Lock(r) ==
    /\ step[r] = "opening"
    /\ holder[session[r]] = NoRequester
    /\ holder' = [holder EXCEPT ![session[r]] = r]
    /\ step' = [step EXCEPT ![r] = "locked"]
    /\ UNCHANGED <<pool, next, session, broken, reachable, missed, faults>>

(***************************************************************************)
(* The call under the lock: it opens the range stream, or asks for         *)
(* availability and has its answer.  The lock is released before the error *)
(* is looked at, and evict drops whatever is pooled by then.               *)
(***************************************************************************)
Opens(r) ==
    /\ step[r] = "locked"
    /\ session[r] \notin broken
    /\ holder' = [holder EXCEPT ![session[r]] = NoRequester]
    /\ step' = [step EXCEPT ![r] = "reading"]
    /\ UNCHANGED <<pool, next, session, broken, reachable, missed, faults>>

OpenFails(r) ==
    /\ step[r] = "locked"
    /\ session[r] \in broken
    /\ holder' = [holder EXCEPT ![session[r]] = NoRequester]
    /\ step' = [step EXCEPT ![r] = "failed"]
    /\ UNCHANGED <<pool, next, session, broken, reachable, missed, faults>>

EvictNothing(r) ==                  \* the error is returned, the pool is kept
    /\ step[r] = "failed"
    /\ Leave(r, pool)
    /\ UNCHANGED <<reachable, faults>>

Evict(r) ==
    /\ step[r] = "failed"
    /\ Leave(r, NoSession)
    /\ UNCHANGED <<reachable, faults>>

(***************************************************************************)
(* The answer is read, or its assembly fails: the pool is not touched.     *)
(***************************************************************************)
Finish(r) ==
    /\ step[r] = "reading"
    /\ Leave(r, pool)
    /\ UNCHANGED <<reachable, faults>>

(***************************************************************************)
(* The caller's timeout drops the future at any await; a connection goes;  *)
(* the provider's addresses come and go.                                   *)
(***************************************************************************)
Cancel(r) ==
    /\ step[r] \notin {"idle", "unreachable"}
    /\ faults < MaxFaults
    /\ faults' = faults + 1
    /\ Leave(r, pool)
    /\ UNCHANGED reachable

Break(s) ==
    /\ s \in InUse \ broken
    /\ faults < MaxFaults
    /\ faults' = faults + 1
    /\ broken' = broken \cup {s}
    /\ UNCHANGED <<pool, step, next, session, holder, reachable, missed>>

Move ==
    /\ \E R \in SUBSET Targets : reachable' = R /\ R # reachable
    /\ faults < MaxFaults
    /\ faults' = faults + 1
    /\ UNCHANGED <<pool, step, next, session, holder, broken, missed>>

Serve(r) ==
    \/ LookUp(r)
    \/ DialAnswers(r)
    \/ DialMisses(r)
    \/ ConnectFails(r)
    \/ ReportUnreachable(r)
    \/ Insert(r)
    \/ Lock(r)
    \/ Opens(r)
    \/ OpenFails(r)
    \/ Evict(r)
    \/ Finish(r)

PoolNext ==
    \/ \E r \in Requests : Serve(r) \/ Cancel(r)
    \/ \E s \in Sessions : Break(s)
    \/ Move

(***************************************************************************)
(* The downloads keep sending requests, and the runtime polls each of      *)
(* them.                                                                   *)
(***************************************************************************)
PoolFairness == \A r \in Requests : WF_poolVars(Serve(r))

PoolSpec == PoolInit /\ [][PoolNext]_poolVars /\ PoolFairness

-----------------------------------------------------------------------------
(***************************************************************************)
(* A session whose connection is gone does not stay in the pool, whatever  *)
(* requests are cancelled while they hold its lock or race to evict it.    *)
(***************************************************************************)
BrokenSessionLeaves == pool \in broken ~> pool \notin broken

(***************************************************************************)
(* A request gives a provider up only after the relay and each of its      *)
(* addresses within the cap was tried: a dead IPv6 or a malformed address  *)
(* never hides a working one.                                              *)
(***************************************************************************)
ConnectTriesAll ==
    \A r \in Requests :
        step[r] = "unreachable" =>
            /\ "relay-only" \in missed[r]
            /\ \A i \in 1 .. Len(Addresses) :
                  HostOf[Addresses[i]] # "name" /\ Len(Addresses) <= MaxCandidates
                      => Addresses[i] \in missed[r]

=============================================================================
