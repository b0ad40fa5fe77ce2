----------------------------- MODULE MCComponents -----------------------------
(***************************************************************************)
(* The parts of the crate that keep no state in common, in one run.  A     *)
(* behaviour is about the one part that has the focus, the others stay     *)
(* where they began, so the state space is the sum of theirs.              *)
(***************************************************************************)
EXTENDS RangeStream, ConnPool, StagingGc, RateLimiter, ReadLadder, ResourceAssembly,
        OnionRelay

VARIABLE focus

allVars == <<focus, streamVars, poolVars, stagingVars, limiterVars, ladderVars,
             assemblyVars, onionVars>>

MCAddresses == <<"b4", "bad", "a6">>
MCHostOf == [a \in {"b4", "bad", "a6"} |->
                CASE a = "b4" -> "v4" [] a = "a6" -> "v6" [] OTHER -> "name"]

MCLayouts == UNION {[1 .. n -> 0 .. 3] : n \in 0 .. 4}

MCConfigs == [enabled : BOOLEAN, relays_asks_only : BOOLEAN,
              max_bytes_per_stream : {1, 2}]

Components ==
    {"stream", "pool", "staging", "limiter", "ladder", "assembly", "onion"}

(***************************************************************************)
(* What a part that is not in focus starts with does not matter.           *)
(***************************************************************************)
Init ==
    /\ focus \in Components
    /\ StreamInit
    /\ focus # "stream" => window = 0 /\ sender = "conforming"
    /\ PoolInit
    /\ StagingInit
    /\ LimiterInit
    /\ LadderInit
    /\ AssemblyInit
    /\ OnionInit
    /\ focus # "onion" => \A n \in Nodes : config[n] = CHOOSE c \in MCConfigs : TRUE

Others(vars) == UNCHANGED <<focus, vars>>

Next ==
    \/ /\ focus = "stream" /\ StreamNext
       /\ Others(<<poolVars, stagingVars, limiterVars, ladderVars, assemblyVars, onionVars>>)
    \/ /\ focus = "pool" /\ PoolNext
       /\ Others(<<streamVars, stagingVars, limiterVars, ladderVars, assemblyVars, onionVars>>)
    \/ /\ focus = "staging" /\ StagingNext
       /\ Others(<<streamVars, poolVars, limiterVars, ladderVars, assemblyVars, onionVars>>)
    \/ /\ focus = "limiter" /\ LimiterNext
       /\ Others(<<streamVars, poolVars, stagingVars, ladderVars, assemblyVars, onionVars>>)
    \/ /\ focus = "ladder" /\ LadderNext
       /\ Others(<<streamVars, poolVars, stagingVars, limiterVars, assemblyVars, onionVars>>)
    \/ /\ focus = "assembly" /\ AssemblyNext
       /\ Others(<<streamVars, poolVars, stagingVars, limiterVars, ladderVars, onionVars>>)
    \/ /\ focus = "onion" /\ OnionNext
       /\ Others(<<streamVars, poolVars, stagingVars, limiterVars, ladderVars, assemblyVars>>)

(***************************************************************************)
(* The part in focus runs under the fairness its own module states.        *)
(***************************************************************************)
Fairness ==
    \/ focus = "pool" /\ PoolFairness
    \/ focus = "staging" /\ StagingFairness
    \/ focus = "limiter" /\ LimiterFairness
    \/ focus \notin {"pool", "staging", "limiter"}

Spec == Init /\ [][Next]_allVars /\ Fairness

=============================================================================
