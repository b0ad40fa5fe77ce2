----------------------------- MODULE RateLimiter -----------------------------
(***************************************************************************)
(* FcfsRateLimiter (throttle.rs): callers pass a fair gate one at a time,  *)
(* and the one inside waits until a global bucket and the bucket of its    *)
(* connection both hold what it needs, then takes it from both.            *)
(*                                                                         *)
(* Time is a clock of ticks, TicksPerSecond to the second, and a rate is   *)
(* in tokens per tick.  The code refills a bucket when it is next looked   *)
(* at; here it is refilled at every tick, which leaves the same balance    *)
(* whenever the code looks.                                                *)
(***************************************************************************)
EXTENDS Integers, Sequences

CONSTANTS
    Callers,         \* tasks that call acquire
    Conns,           \* connection keys
    GlobalRate,      \* global_bps, per tick; 0 is unlimited
    ConnRate,        \* per_conn_bps, per tick
    TicksPerSecond,
    Sizes,           \* the byte counts that are asked for
    MaxSize          \* the largest of them

Buckets == Conns \cup {"global"}

ASSUME LimiterAssumption ==
    /\ "global" \notin Conns
    /\ GlobalRate \in Nat /\ ConnRate \in Nat /\ TicksPerSecond \in Nat \ {0}
    /\ MaxSize \in Nat /\ Sizes \subseteq 0 .. MaxSize

VARIABLES
    line,       \* the callers at the gate, the first of them inside
    request,    \* what each caller asked for
    sleeping,   \* ticks until the one inside looks again; -1 when it is awake
    tokens,     \* the balance of each bucket
    seen,       \* the connections that have a bucket
    meter       \* for each bucket, the worst excess of bytes over its rate in
                \* any stretch of time that ends now

limiterVars == <<line, request, sleeping, tokens, seen, meter>>

Rate(b) == IF b = "global" THEN GlobalRate ELSE ConnRate
Capacity(b) == Rate(b) * TicksPerSecond

NoRequest == [conn |-> CHOOSE k \in Conns : TRUE, bytes |-> 0]

AtMost(a, b) == IF a <= b THEN a ELSE b
AtLeast(a, b) == IF a <= b THEN b ELSE a

LimiterInit ==
    /\ line = <<>>
    /\ request = [c \in Callers |-> NoRequest]
    /\ sleeping = -1
    /\ tokens = [b \in Buckets |-> Capacity(b)]
    /\ seen = {}
    /\ meter = [b \in Buckets |-> 0]

Waiting(c) == \E i \in 1 .. Len(line) : line[i] = c

(***************************************************************************)
(* wait_for: what a full bucket could never hold is not waited for.        *)
(***************************************************************************)
EnoughUncapped(b, need) == Rate(b) = 0 \/ tokens[b] >= need

Enough(b, need) == Rate(b) = 0 \/ tokens[b] >= AtMost(need, Capacity(b))

TicksUntil(b, need) ==
    IF Enough(b, need) THEN 0
    ELSE (AtMost(need, Capacity(b)) - tokens[b] + Rate(b) - 1) \div Rate(b)

(***************************************************************************)
(* acquire: a call for no bytes returns at once, any other joins the line. *)
(***************************************************************************)
Acquire(c, k, n) ==
    /\ ~Waiting(c)
    /\ n # 0
    /\ line' = Append(line, c)
    /\ request' = [request EXCEPT ![c] = [conn |-> k, bytes |-> n]]
    /\ UNCHANGED <<sleeping, tokens, seen, meter>>

Involved(c) == {"global", request[c].conn}

(***************************************************************************)
(* The one inside looks at both buckets, of which the connection's may be  *)
(* made now: it sleeps for the longer wait, or takes its bytes and leaves. *)
(***************************************************************************)
Sleep ==
    /\ line # <<>> /\ sleeping = -1
    /\ LET c == Head(line)
           need == request[c].bytes
       IN /\ \E b \in Involved(c) : ~Enough(b, need)
          /\ sleeping' = AtLeast(TicksUntil("global", need),
                                 TicksUntil(request[c].conn, need))
          /\ seen' = seen \cup {request[c].conn}
    /\ UNCHANGED <<line, request, tokens, meter>>

Wake ==
    /\ sleeping = 0
    /\ sleeping' = -1
    /\ UNCHANGED <<line, request, tokens, seen, meter>>

ConsumeGlobalOnly(c) ==
    tokens' = [tokens EXCEPT !["global"] = @ - request[c].bytes]

Consume(c) ==
    tokens' = [b \in Buckets |->
                  IF b \in Involved(c) /\ Rate(b) > 0
                  THEN tokens[b] - request[c].bytes ELSE tokens[b]]

Grant ==
    /\ line # <<>> /\ sleeping = -1
    /\ LET c == Head(line)
       IN /\ \A b \in Involved(c) : Enough(b, request[c].bytes)
          /\ Consume(c)
          /\ seen' = seen \cup {request[c].conn}
          /\ meter' = [b \in Buckets |->
                          IF b \in Involved(c) THEN meter[b] + request[c].bytes
                          ELSE meter[b]]
          /\ request' = [request EXCEPT ![c] = NoRequest]
    /\ line' = Tail(line)
    /\ UNCHANGED sleeping

(***************************************************************************)
(* A caller's future is dropped at the gate or inside it.                  *)
(***************************************************************************)
Abandon(c) ==
    /\ \E i \in 1 .. Len(line) :
          /\ line[i] = c
          /\ line' = SubSeq(line, 1, i - 1) \o SubSeq(line, i + 1, Len(line))
    /\ request' = [request EXCEPT ![c] = NoRequest]
    /\ sleeping' = IF Head(line) = c THEN -1 ELSE sleeping
    /\ UNCHANGED <<tokens, seen, meter>>

Refill(b) == AtMost(tokens[b] + Rate(b), Capacity(b))

Tick ==
    /\ tokens' = [b \in Buckets |-> Refill(b)]
    /\ meter' = [b \in Buckets |-> AtLeast(meter[b] - Rate(b), 0)]
    /\ sleeping' = IF sleeping > 0 THEN sleeping - 1 ELSE sleeping
    /\ UNCHANGED <<line, request, seen>>

LimiterNext ==
    \/ \E c \in Callers :
          \/ \E k \in Conns, n \in Sizes : Acquire(c, k, n)
          \/ Abandon(c)
    \/ Sleep
    \/ Wake
    \/ Grant
    \/ Tick

(***************************************************************************)
(* Time passes, and the task inside the gate is polled when its sleep is   *)
(* over.  Nobody has to call or to give up.                                *)
(***************************************************************************)
LimiterFairness ==
    /\ WF_limiterVars(Sleep)
    /\ WF_limiterVars(Wake)
    /\ WF_limiterVars(Grant)
    /\ WF_limiterVars(Tick)

LimiterSpec == LimiterInit /\ [][LimiterNext]_limiterVars /\ LimiterFairness

-----------------------------------------------------------------------------
(***************************************************************************)
(* In every stretch of time a bucket lets through at most its rate times   *)
(* the length of the stretch, and one second's worth or one frame more,    *)
(* whichever is larger: an oversized frame is admitted on credit, and the  *)
(* callers after it pay the debt.  It holds for the uplink and for every   *)
(* connection at once.                                                     *)
(***************************************************************************)
RateKept ==
    \A b \in Buckets :
        Rate(b) > 0 => meter[b] <= AtLeast(Capacity(b), MaxSize)

(***************************************************************************)
(* Every acquire returns, or its caller gives up: neither a frame larger   *)
(* than a bucket nor the debt of those before it, nor a caller that is     *)
(* dropped inside the gate, blocks the line.                               *)
(***************************************************************************)
AcquireReturns == \A c \in Callers : Waiting(c) ~> ~Waiting(c)

=============================================================================
