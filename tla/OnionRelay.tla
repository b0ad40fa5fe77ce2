------------------------------ MODULE OnionRelay ------------------------------
(***************************************************************************)
(* Onion mode (onion.rs): an originator sends a range request along a hop  *)
(* path, and every hop decides for itself whether it carries the stream.   *)
(* The circuit and the clock of a relay's allowance are outside this crate *)
(* (dig-onion, dig-node): here the layers bring a stream from one hop to   *)
(* the next, and a relay charges its window with what it admits.           *)
(***************************************************************************)
EXTENDS Naturals, Sequences

CONSTANTS
    Nodes,          \* the peers, originator and hops alike
    Configs,        \* the policies a node may have
    Window,         \* a relay's byte allowance, DEFAULT_RELAY_BYTES_PER_WINDOW
    MaxHopPath,     \* MAX_HOP_PATH
    Lengths,        \* the lengths asked for
    MaxStreams,     \* bound on the requests
    Unreadable      \* a field of the request that cannot be read

StreamRelayConfig ==
    [enabled : BOOLEAN, relays_asks_only : BOOLEAN, max_bytes_per_stream : Nat]

ASSUME OnionAssumption ==
    /\ Window \in Nat /\ MaxHopPath \in Nat /\ MaxStreams \in Nat
    /\ Lengths \subseteq Nat /\ Unreadable \notin Nat
    /\ Configs \subseteq StreamRelayConfig

VARIABLES
    config,       \* each node's StreamRelayConfig
    available,    \* what is left of each relay's window
    path,         \* the hops of the stream under way, <<>> when there is none
    passed,       \* how many of them carry it
    inbound,      \* what the next hop reads in the request
    outcome,      \* how the last request ended
    carriedFor,   \* the bytes each relay carries for this stream
    streams

onionVars == <<config, available, path, passed, inbound, outcome, carriedFor, streams>>

NoInbound == [hops_remaining |-> Unreadable, declared_len |-> Unreadable]

(***************************************************************************)
(* HopPath::try_new: at least one hop, not too many, none of them twice.   *)
(***************************************************************************)
TryNewAnyPeers(hops) ==         \* as if the same peer could be two hops
    Len(hops) \in 1 .. MaxHopPath

TryNew(hops) ==
    /\ Len(hops) \in 1 .. MaxHopPath
    /\ \A i, j \in 1 .. Len(hops) : hops[i] = hops[j] => i = j

(***************************************************************************)
(* decide_relay_stream: the refusal it gives, the first that applies, or   *)
(* "carry".                                                                *)
(***************************************************************************)
DecideRelayStream(c, in, left) ==
    CASE ~c.enabled                            -> "Disabled"
      [] c.enabled /\ c.relays_asks_only       -> "AsksOnly"
      [] OTHER ->
         CASE in.hops_remaining = Unreadable   -> "UnreadableHopBudget"
           [] in.hops_remaining = 0            -> "HopBudgetSpent"
           [] OTHER ->
              CASE in.declared_len = Unreadable -> "UnreadableLength"
                [] OTHER ->
                   IF in.declared_len > c.max_bytes_per_stream THEN "StreamTooLarge"
                   ELSE IF in.declared_len > left THEN "RelayByteBudgetSpent"
                   ELSE "carry"

OnionInit ==
    /\ config \in [Nodes -> Configs]
    /\ available = [n \in Nodes |-> Window]
    /\ path = <<>>
    /\ passed = 0
    /\ inbound = NoInbound
    /\ outcome = "none"
    /\ carriedFor = [n \in Nodes |-> 0]
    /\ streams = 0

(***************************************************************************)
(* OnionRangeTransport::fetch_range: it refuses to originate while onion   *)
(* mode is off, and a length that the hops would refuse.                   *)
(***************************************************************************)
Originates(n, length) ==
    config[n].enabled /\ length <= config[n].max_bytes_per_stream

RefuseToOriginate(n, length) ==
    /\ path = <<>>
    /\ streams < MaxStreams
    /\ ~Originates(n, length)
    /\ streams' = streams + 1
    /\ outcome' = IF ~config[n].enabled THEN "Disabled" ELSE "StreamTooLarge"
    /\ UNCHANGED <<config, available, path, passed, inbound, carriedFor>>

Originate(n, hops, budget, length) ==
    /\ path = <<>>
    /\ streams < MaxStreams
    /\ TryNew(hops)
    /\ Originates(n, length)
    /\ streams' = streams + 1
    /\ path' = hops
    /\ passed' = 0
    /\ inbound' = [hops_remaining |-> budget, declared_len |-> length]
    /\ outcome' = "under way"
    /\ carriedFor' = [m \in Nodes |-> 0]
    /\ UNCHANGED <<config, available>>

(***************************************************************************)
(* A request that cannot be read any more when it reaches the next hop.    *)
(***************************************************************************)
Garble(field) ==
    /\ path # <<>>
    /\ inbound' = [inbound EXCEPT ![field] = Unreadable]
    /\ UNCHANGED <<config, available, path, passed, outcome, carriedFor, streams>>

Decision == DecideRelayStream(config[path[passed + 1]], inbound,
                              available[path[passed + 1]])

EndStream(why) ==
    /\ path' = <<>>
    /\ passed' = 0
    /\ inbound' = NoInbound
    /\ outcome' = why

Carry ==
    /\ path # <<>>
    /\ Decision = "carry"
    /\ LET hop == path[passed + 1]
       IN /\ available' = [available EXCEPT ![hop] = @ - inbound.declared_len]
          /\ carriedFor' = [carriedFor EXCEPT ![hop] = @ + inbound.declared_len]
    /\ IF passed + 1 = Len(path) THEN EndStream("delivered")
       ELSE /\ passed' = passed + 1
            /\ inbound' = [inbound EXCEPT !.hops_remaining = @ - 1]
            /\ UNCHANGED <<path, outcome>>
    /\ UNCHANGED <<config, streams>>

Refuse ==
    /\ path # <<>>
    /\ Decision # "carry"
    /\ EndStream(Decision)
    /\ UNCHANGED <<config, available, carriedFor, streams>>

OnionNext ==
    \/ \E n \in Nodes, length \in Lengths :
          \/ RefuseToOriginate(n, length)
          \/ \E k \in 1 .. MaxHopPath + 1 : \E hops \in [1 .. k -> Nodes],
                budget \in 0 .. MaxHopPath : Originate(n, hops, budget, length)
    \/ \E field \in {"hops_remaining", "declared_len"} : Garble(field)
    \/ Carry
    \/ Refuse

OnionSpec == OnionInit /\ [][OnionNext]_onionVars

-----------------------------------------------------------------------------
(***************************************************************************)
(* A stream costs each node it names at most the ceiling that node set,    *)
(* and costs nothing to a node that switched relaying off; together the    *)
(* streams cost a relay no more than its window.  A peer that was put in a *)
(* path twice would pay, and see, twice (try_new, decide_relay_stream).    *)
(***************************************************************************)
RelaySpendBounded ==
    \A n \in Nodes :
        /\ carriedFor[n] <= config[n].max_bytes_per_stream
        /\ available[n] \in 0 .. Window
        /\ ~config[n].enabled \/ config[n].relays_asks_only
              => carriedFor[n] = 0 /\ available[n] = Window

=============================================================================
