------------------------------ MODULE ReadLadder ------------------------------
(***************************************************************************)
(* resolve_node behind CachedResolver (read_ladder.rs): which node a       *)
(* client talks to.  Callers share one cell.  One of them at a time        *)
(* resolves, an override first, then the local rungs in their order, then  *)
(* the public gateway; the others wait for the cell, and when the one that *)
(* resolves is dropped the next of them starts over with its own inputs.   *)
(***************************************************************************)
EXTENDS Naturals, Sequences

CONSTANTS
    Clients,    \* concurrent calls of get_or_resolve
    Urls,       \* what an override may name
    NoUrl       \* an override source that is not set

ASSUME LadderAssumption == NoUrl \notin Urls

VARIABLES
    cell,       \* the OnceCell
    wanted,     \* the OverrideInputs of each client
    progress,   \* "idle", "waiting" for the cell, "resolving" or "answered"
    rung,       \* the rung the client that resolves looks at
    answer,     \* the node each client was given last
    silent      \* the rungs that client has found silent

ladderVars == <<cell, wanted, progress, rung, answer, silent>>

OverrideInputs == [flag : Urls \cup {NoUrl}, env : Urls \cup {NoUrl},
                   config : Urls \cup {NoUrl}]
NoOverride == [flag |-> NoUrl, env |-> NoUrl, config |-> NoUrl]

ResolvedNode(url, tier) == [url |-> url, tier |-> tier]
NoNode == ResolvedNode(NoUrl, "none")

LocalUrls == << ResolvedNode("https://dig.local", "DigLocal"),
                ResolvedNode("http://dig.local", "DigLocal"),
                ResolvedNode("http://localhost", "Localhost") >>
Gateway == ResolvedNode("https://rpc.dig.net", "PublicGateway")

(***************************************************************************)
(* OverrideInputs::resolve: the flag, the environment, the config.         *)
(***************************************************************************)
OverrideUrl(o) ==
    IF o.flag # NoUrl THEN o.flag ELSE IF o.env # NoUrl THEN o.env ELSE o.config

LadderInit ==
    /\ cell = NoNode
    /\ wanted = [c \in Clients |-> NoOverride]
    /\ progress = [c \in Clients |-> "idle"]
    /\ rung = 1
    /\ answer = [c \in Clients |-> NoNode]
    /\ silent = {}

GetOrResolve(c, o) ==
    /\ progress[c] \in {"idle", "answered"}
    /\ wanted' = [wanted EXCEPT ![c] = o]
    /\ progress' = [progress EXCEPT ![c] = "waiting"]
    /\ UNCHANGED <<cell, rung, answer, silent>>

(***************************************************************************)
(* get_or_init: the cell's value, or the right to compute it.              *)
(***************************************************************************)
ReadCell(c) ==
    /\ progress[c] = "waiting"
    /\ cell # NoNode
    /\ answer' = [answer EXCEPT ![c] = cell]
    /\ progress' = [progress EXCEPT ![c] = "answered"]
    /\ UNCHANGED <<cell, wanted, rung, silent>>

StartPassWhereItStopped == UNCHANGED rung

StartPass == rung' = 1

BeginResolving(c) ==
    /\ progress[c] = "waiting"
    /\ cell = NoNode
    /\ \A d \in Clients : progress[d] # "resolving"
    /\ progress' = [progress EXCEPT ![c] = "resolving"]
    /\ StartPass
    /\ silent' = {}
    /\ UNCHANGED <<cell, wanted, answer>>

Settle(c, node) ==
    /\ cell' = node
    /\ answer' = [answer EXCEPT ![c] = node]
    /\ progress' = [progress EXCEPT ![c] = "answered"]
    /\ UNCHANGED <<wanted, rung, silent>>

TakeOverride(c) ==
    /\ progress[c] = "resolving"
    /\ OverrideUrl(wanted[c]) # NoUrl
    /\ Settle(c, ResolvedNode(OverrideUrl(wanted[c]), "Override"))

Probing(c) == progress[c] = "resolving" /\ OverrideUrl(wanted[c]) = NoUrl

RungAnswers(c) ==
    /\ Probing(c)
    /\ rung <= Len(LocalUrls)
    /\ Settle(c, LocalUrls[rung])

RungSilent(c) ==
    /\ Probing(c)
    /\ rung <= Len(LocalUrls)
    /\ silent' = silent \cup {rung}
    /\ rung' = rung + 1
    /\ UNCHANGED <<cell, wanted, progress, answer>>

FallToGateway(c) ==
    /\ Probing(c)
    /\ rung > Len(LocalUrls)
    /\ Settle(c, Gateway)

(***************************************************************************)
(* A client's future is dropped while it waits or resolves.                *)
(***************************************************************************)
DropClient(c) ==
    /\ progress[c] \in {"waiting", "resolving"}
    /\ progress' = [progress EXCEPT ![c] = "idle"]
    /\ UNCHANGED <<cell, wanted, rung, answer, silent>>

LadderNext ==
    \E c \in Clients :
        \/ \E o \in OverrideInputs : GetOrResolve(c, o)
        \/ ReadCell(c)
        \/ BeginResolving(c)
        \/ TakeOverride(c)
        \/ RungAnswers(c)
        \/ RungSilent(c)
        \/ FallToGateway(c)
        \/ DropClient(c)

LadderSpec == LadderInit /\ [][LadderNext]_ladderVars

-----------------------------------------------------------------------------
(***************************************************************************)
(* All clients of a resolver are given the same node, and that node is     *)
(* justified by one client's pass alone: a local rung only after it found  *)
(* each rung before it silent, the gateway only after all of them.  What a *)
(* dropped client had probed counts for nothing.                           *)
(***************************************************************************)
AnswerJustified ==
    /\ \A c \in Clients : answer[c] # NoNode => answer[c] = cell
    /\ cell.tier = "PublicGateway" => silent = 1 .. Len(LocalUrls)
    /\ \A i \in 1 .. Len(LocalUrls) :
          cell = LocalUrls[i] => silent = 1 .. i - 1

=============================================================================
