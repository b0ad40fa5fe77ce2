--------------------------- MODULE ComponentProofs ---------------------------
(***************************************************************************)
(* The components of one small module each: which file a download promotes *)
(* (StagingGc), the rate of the uplink and of every connection             *)
(* (RateLimiter), the node a client is sent to (ReadLadder), what a relay  *)
(* spends (OnionRelay) and which addresses are dialed (ConnPool), for any  *)
(* number of downloads, sweeps, callers, connections, clients, nodes,      *)
(* paths, streams, addresses and requests.                                 *)
(***************************************************************************)
EXTENDS StagingGc, RateLimiter, ReadLadder, OnionRelay, ConnPool, DataLemmas, TLAPS

-----------------------------------------------------------------------------
(***************************************************************************)
(* StagingGc: what a download promotes is its own file.                    *)
(***************************************************************************)

StagingTypeOK ==
    /\ claimed \subseteq Paths
    /\ fileAt \in [Paths -> Files \cup {Absent}]
    /\ target \in [Paths -> {"nothing", "own", "foreign"}]
    /\ jobPath \in [Jobs -> Paths \cup {NoPath}]
    /\ handle \in [Jobs -> Files \cup {Absent}]

(* A path is claimed as long as a download works on it, by it alone.       *)
ClaimsExclusive ==
    /\ \A j \in Jobs : jobPath[j] # NoPath => jobPath[j] \in claimed
    /\ \A i, j \in Jobs : jobPath[i] # NoPath /\ jobPath[i] = jobPath[j] => i = j

(* The name of an open staging file leads to it or, once a sweep was       *)
(* there, to nothing: nobody else makes a file of that name.               *)
NameOrNothing ==
    \A j \in Jobs :
        handle[j] # Absent =>
            jobPath[j] # NoPath /\ fileAt[jobPath[j]] \in {Absent, handle[j]}

StagingInv ==
    /\ StagingTypeOK
    /\ ClaimsExclusive
    /\ NameOrNothing
    /\ PromotesOwnFile

(* An empty directory satisfies it.                                        *)
LEMMA StagingStart == StagingInit => StagingInv
BY StagingAssumption
   DEF StagingInit, StagingInv, StagingTypeOK, ClaimsExclusive, NameOrNothing,
       PromotesOwnFile

(* A download that ends gives up what only it had.                         *)
LEMMA EndedJob ==
    ASSUME StagingInv, NEW j \in Jobs, jobPath[j] # NoPath, EndJob(j),
           fileAt' \in [Paths -> Files \cup {Absent}],
           \A p \in Paths : p # jobPath[j] => fileAt'[p] = fileAt[p]
    PROVE  /\ claimed' \subseteq Paths
           /\ jobPath' \in [Jobs -> Paths \cup {NoPath}]
           /\ handle' \in [Jobs -> Files \cup {Absent}]
           /\ ClaimsExclusive' /\ NameOrNothing'
<1>1. /\ claimed' = claimed \ {jobPath[j]}
      /\ jobPath'[j] = NoPath /\ handle'[j] = Absent
      /\ \A i \in Jobs : i # j => jobPath'[i] = jobPath[i] /\ handle'[i] = handle[i]
    BY DEF EndJob, StagingInv, StagingTypeOK
<1>2. \A i \in Jobs : i # j /\ jobPath[i] # NoPath => jobPath[i] # jobPath[j]
    BY DEF StagingInv, ClaimsExclusive
<1>3. ClaimsExclusive'
    BY <1>1, <1>2 DEF StagingInv, ClaimsExclusive
<1>4. NameOrNothing'
    <2> SUFFICES ASSUME NEW i \in Jobs, handle'[i] # Absent
                 PROVE  /\ jobPath'[i] # NoPath
                        /\ fileAt'[jobPath'[i]] \in {Absent, handle'[i]}
        BY DEF NameOrNothing
    <2>1. i # j /\ jobPath'[i] = jobPath[i] /\ handle'[i] = handle[i]
        BY <1>1
    <2>2. jobPath[i] \in Paths /\ fileAt[jobPath[i]] \in {Absent, handle[i]}
        BY <2>1 DEF StagingInv, StagingTypeOK, NameOrNothing
    <2> QED
        BY <2>1, <2>2, <1>2, StagingAssumption
<1> QED
    BY <1>1, <1>3, <1>4 DEF EndJob, StagingInv, StagingTypeOK

(* The steps of a download.                                                *)
LEMMA JobKeeps ==
    ASSUME StagingInv, NEW j \in Jobs, JobStep(j)
    PROVE  StagingInv'
<1>1. ASSUME NEW p \in Paths, ClaimPath(j, p) PROVE StagingInv'
    <2>1. /\ jobPath[j] = NoPath /\ p \notin claimed /\ p # NoPath
          /\ claimed' = claimed \cup {p}
          /\ jobPath'[j] = p
          /\ \A i \in Jobs : i # j => jobPath'[i] = jobPath[i]
          /\ UNCHANGED <<fileAt, handle, target>>
        BY <1>1, StagingAssumption DEF ClaimPath, Protects, StagingInv, StagingTypeOK
    <2>2. StagingTypeOK'
        BY <1>1 DEF ClaimPath, StagingInv, StagingTypeOK
    <2>3. ClaimsExclusive'
        BY <2>1 DEF StagingInv, ClaimsExclusive
    <2>4. NameOrNothing' /\ PromotesOwnFile'
        BY <2>1 DEF StagingInv, NameOrNothing, PromotesOwnFile
    <2> QED
        BY <2>2, <2>3, <2>4 DEF StagingInv
<1>2. CASE WriteRange(j)
    <2>1. jobPath[j] \in Paths /\ jobPath[j] # NoPath
        BY <1>2 DEF WriteRange, StagingInv, StagingTypeOK
    <2>2. UNCHANGED <<claimed, jobPath, target>>
        BY <1>2 DEF WriteRange
    <2>3. CASE handle[j] # Absent
        BY <1>2, <2>2, <2>3 DEF WriteRange, StagingInv, StagingTypeOK,
           ClaimsExclusive, NameOrNothing, PromotesOwnFile
    <2>4. CASE handle[j] = Absent
        <3>1. PICK f \in Files : /\ fileAt' = [fileAt EXCEPT ![jobPath[j]] = f]
                                 /\ handle' = [handle EXCEPT ![j] = f]
            BY <1>2, <2>1, <2>4 DEF WriteRange, StagingInv, StagingTypeOK
        <3>2. StagingTypeOK'
            BY <2>2, <3>1 DEF StagingInv, StagingTypeOK
        <3>3. NameOrNothing'
            <4> SUFFICES ASSUME NEW i \in Jobs, handle'[i] # Absent
                         PROVE  /\ jobPath'[i] # NoPath
                                /\ fileAt'[jobPath'[i]] \in {Absent, handle'[i]}
                BY DEF NameOrNothing
            <4>1. CASE i = j
                BY <2>1, <2>2, <3>1, <4>1 DEF StagingInv, StagingTypeOK
            <4>2. CASE i # j
                <5>1. /\ handle[i] # Absent /\ handle'[i] = handle[i]
                      /\ jobPath[i] # NoPath /\ jobPath[i] # jobPath[j]
                      /\ fileAt[jobPath[i]] \in {Absent, handle[i]}
                    BY <2>1, <3>1, <4>2
                       DEF StagingInv, StagingTypeOK, NameOrNothing, ClaimsExclusive
                <5>2. jobPath[i] \in Paths /\ fileAt'[jobPath[i]] = fileAt[jobPath[i]]
                    BY <3>1, <5>1 DEF StagingInv, StagingTypeOK
                <5> QED
                    BY <2>2, <5>1, <5>2
            <4> QED
                BY <4>1, <4>2
        <3> QED
            BY <2>2, <3>2, <3>3 DEF StagingInv, ClaimsExclusive, PromotesOwnFile
    <2> QED
        BY <2>3, <2>4
<1>3. CASE Finalize(j)
    <2>1. /\ jobPath[j] \in Paths /\ jobPath[j] # NoPath /\ handle[j] # Absent
          /\ EndJob(j)
        BY <1>3 DEF Finalize, StagingInv, StagingTypeOK
    <2>2. /\ fileAt' \in [Paths -> Files \cup {Absent}]
          /\ \A p \in Paths : p # jobPath[j] => fileAt'[p] = fileAt[p]
        BY <1>3, <2>1 DEF Finalize, StagingInv, StagingTypeOK
    <2>3. target' \in {target, [target EXCEPT ![jobPath[j]] = "own"]}
        BY <1>3, <2>1 DEF Finalize, StagingInv, NameOrNothing
    <2>4. target' \in [Paths -> {"nothing", "own", "foreign"}] /\ PromotesOwnFile'
        BY <2>1, <2>3 DEF StagingInv, StagingTypeOK, PromotesOwnFile
    <2> QED
        BY <2>1, <2>2, <2>4, EndedJob DEF StagingInv, StagingTypeOK
<1>4. CASE GiveUp(j)
    <2>1. jobPath[j] # NoPath /\ EndJob(j) /\ UNCHANGED <<fileAt, target>>
        BY <1>4 DEF GiveUp
    <2> QED
        BY <2>1, EndedJob DEF StagingInv, StagingTypeOK, PromotesOwnFile
<1> QED
    BY <1>1, <1>2, <1>3, <1>4 DEF JobStep

(* A sweep, whatever it believes, can only take names away.                *)
LEMMA SweepKeeps ==
    ASSUME StagingInv, NEW w \in Sweeps, SweepStep(w) \/ SweepErrs(w)
    PROVE  StagingInv'
<1>1. /\ UNCHANGED <<claimed, target, jobPath, handle>>
      /\ fileAt' \in [Paths -> Files \cup {Absent}]
      /\ \A p \in Paths : fileAt'[p] \in {Absent, fileAt[p]}
    BY DEF SweepStep, SweepErrs, BeginSweep, CheckClaim, CheckAge, RemoveFile,
       RemoveSidecar, SweepDone, EndSweep, StagingInv, StagingTypeOK
<1>2. \A j \in Jobs : jobPath[j] # NoPath => jobPath[j] \in Paths
    BY DEF StagingInv, StagingTypeOK
<1> QED
    BY <1>1, <1>2 DEF StagingInv, StagingTypeOK, ClaimsExclusive, NameOrNothing,
       PromotesOwnFile

(* Every step of a job or of a sweep keeps it.                             *)
LEMMA StagingKept == StagingInv /\ [StagingNext]_stagingVars => StagingInv'
<1> SUFFICES ASSUME StagingInv, [StagingNext]_stagingVars PROVE StagingInv'
    OBVIOUS
<1>1. CASE Restart
    BY <1>1 DEF Restart, StagingInv, StagingTypeOK, ClaimsExclusive, NameOrNothing,
       PromotesOwnFile
<1>2. CASE UNCHANGED <<claimed, fileAt, target, jobPath, handle>>
    BY <1>2 DEF StagingInv, StagingTypeOK, ClaimsExclusive, NameOrNothing,
       PromotesOwnFile
<1> QED
    BY <1>1, <1>2, JobKeeps, SweepKeeps DEF StagingNext, Age, stagingVars

(* Sweeps and downloads do not have to agree on anything for this: a sweep *)
(* that removes the staging file of a live download costs the attempt, and *)
(* never puts another file at its target.                                  *)
THEOREM PromotionIsOwn == StagingSpec => []PromotesOwnFile
<1>1. StagingInv => PromotesOwnFile
    BY DEF StagingInv
<1> QED
    BY StagingStart, StagingKept, <1>1, PTL DEF StagingSpec

-----------------------------------------------------------------------------
(***************************************************************************)
(* RateLimiter: the uplink and every connection keep their rate.           *)
(***************************************************************************)

LimiterTypeOK ==
    /\ line \in Seq(Callers)
    /\ request \in [Callers -> [conn : Conns \cup {NoRequest.conn},
                                bytes : 0 .. MaxSize]]
    /\ tokens \in [Buckets -> Int]
    /\ meter \in [Buckets -> Nat]

(* What went through in excess is missing from the bucket: the worst       *)
(* excess and the balance together never exceed one second's worth.        *)
ExcessIsOwed ==
    \A b \in Buckets :
        Rate(b) > 0 =>
            tokens[b] <= Capacity(b) /\ meter[b] + tokens[b] <= Capacity(b)

LimiterInv == LimiterTypeOK /\ ExcessIsOwed /\ RateKept

(* A bucket has a rate, and holds one second of it.                        *)
LEMMA RatesTyped ==
    ASSUME NEW b \in Buckets
    PROVE  Rate(b) \in Nat /\ Capacity(b) \in Nat
BY LimiterAssumption DEF Rate, Capacity

(* The buckets start full and nothing has gone through.                    *)
LEMMA LimiterStart == LimiterInit => LimiterInv
<1> SUFFICES ASSUME LimiterInit PROVE LimiterInv
    OBVIOUS
<1>1. LimiterTypeOK
    <2>1. request \in [Callers -> [conn : Conns \cup {NoRequest.conn},
                                   bytes : 0 .. MaxSize]]
        BY LimiterAssumption DEF LimiterInit, NoRequest
    <2>2. tokens \in [Buckets -> Int]
        BY RatesTyped DEF LimiterInit
    <2> QED
        BY <2>1, <2>2 DEF LimiterInit, LimiterTypeOK
<1>2. ExcessIsOwed /\ RateKept
    <2> SUFFICES ASSUME NEW b \in Buckets
                 PROVE  /\ tokens[b] <= Capacity(b)
                        /\ meter[b] + tokens[b] <= Capacity(b)
                        /\ meter[b] <= AtLeast(Capacity(b), MaxSize)
        BY DEF ExcessIsOwed, RateKept
    <2>1. tokens[b] = Capacity(b) /\ meter[b] = 0
        BY DEF LimiterInit
    <2> QED
        BY <2>1, RatesTyped, LimiterAssumption DEF AtLeast
<1> QED
    BY <1>1, <1>2 DEF LimiterInv

(* A bucket that lets a frame through either held all of it, or was full.  *)
LEMMA GrantKeeps == LimiterInv /\ Grant => LimiterInv'
<1> SUFFICES ASSUME LimiterInv, Grant PROVE LimiterInv'
    OBVIOUS
<1> DEFINE c == Head(line)
           n == request[c].bytes
<1>1. c \in Callers /\ n \in 0 .. MaxSize /\ n \in Nat /\ Tail(line) \in Seq(Callers)
    <2>1. c \in Callers /\ Tail(line) \in Seq(Callers)
        BY DEF Grant, LimiterInv, LimiterTypeOK
    <2>2. n \in 0 .. MaxSize
        BY <2>1 DEF LimiterInv, LimiterTypeOK
    <2> QED
        BY <2>1, <2>2, LimiterAssumption
<1>2. \A b \in Involved(c) : Enough(b, n)
    BY DEF Grant
<1> HIDE DEF c
<1>3. \A b \in Buckets :
        /\ tokens'[b] = IF b \in Involved(c) /\ Rate(b) > 0 THEN tokens[b] - n
                        ELSE tokens[b]
        /\ meter'[b] = IF b \in Involved(c) THEN meter[b] + n ELSE meter[b]
    BY DEF Grant, Consume, c
<1> HIDE DEF n
<1>4. /\ \A b \in Buckets : tokens'[b] \in Int /\ meter'[b] \in Nat
      /\ LimiterTypeOK'
    <2>1. \A b \in Buckets : tokens[b] \in Int /\ meter[b] \in Nat
        BY DEF LimiterInv, LimiterTypeOK
    <2>2. \A b \in Buckets : tokens'[b] \in Int /\ meter'[b] \in Nat
        BY <1>1, <1>3, <2>1
    <2>3. /\ tokens' = [b \in Buckets |-> tokens'[b]]
          /\ meter' = [b \in Buckets |-> meter'[b]]
        BY DEF Grant, Consume
    <2>4. NoRequest \in [conn : Conns \cup {NoRequest.conn}, bytes : 0 .. MaxSize]
        BY LimiterAssumption DEF NoRequest
    <2>5. request' \in [Callers -> [conn : Conns \cup {NoRequest.conn},
                                    bytes : 0 .. MaxSize]]
        BY <2>4 DEF Grant, LimiterInv, LimiterTypeOK
    <2>6. line' \in Seq(Callers)
        BY <1>1 DEF Grant
    <2>7. tokens' \in [Buckets -> Int] /\ meter' \in [Buckets -> Nat]
        BY <2>2, <2>3
    <2> QED
        BY <2>2, <2>5, <2>6, <2>7 DEF LimiterTypeOK
<1>5. ASSUME NEW b \in Buckets, Rate(b) > 0
      PROVE  /\ tokens'[b] <= Capacity(b)
             /\ meter'[b] + tokens'[b] <= Capacity(b)
             /\ meter'[b] <= AtLeast(Capacity(b), MaxSize)
    <2>1. /\ tokens[b] \in Int /\ meter[b] \in Nat /\ MaxSize \in Nat
          /\ Capacity(b) \in Nat /\ Rate(b) \in Nat
          /\ tokens[b] <= Capacity(b) /\ meter[b] + tokens[b] <= Capacity(b)
          /\ meter[b] <= AtLeast(Capacity(b), MaxSize)
        BY <1>5, RatesTyped, LimiterAssumption
           DEF LimiterInv, LimiterTypeOK, ExcessIsOwed, RateKept
    <2>2. CASE b \notin Involved(c)
        BY <1>3, <2>1, <2>2
    <2>3. CASE b \in Involved(c)
        <3>1. tokens'[b] = tokens[b] - n /\ meter'[b] = meter[b] + n
            BY <1>3, <1>5, <2>3
        <3>2. tokens[b] >= AtMost(n, Capacity(b))
            BY <1>2, <1>5, <2>1, <2>3 DEF Enough
        <3>3. n \in Nat /\ n <= MaxSize
            BY <1>1
        <3>4. CASE n <= Capacity(b)
            <4>1. tokens[b] >= n
                BY <3>2, <3>4 DEF AtMost
            <4>2. meter'[b] <= Capacity(b)
                BY <2>1, <3>1, <3>3, <4>1
            <4>3. tokens'[b] <= Capacity(b) /\ meter'[b] + tokens'[b] <= Capacity(b)
                BY <2>1, <3>1, <3>3
            <4> QED
                BY <1>1, <1>3, <2>1, <3>1, <3>3, <4>2, <4>3 DEF AtLeast
        <3>5. CASE n > Capacity(b)
            <4>1. tokens[b] >= Capacity(b)
                BY <2>1, <3>2, <3>3, <3>5 DEF AtMost
            <4>2. meter[b] = 0 /\ meter'[b] <= MaxSize
                BY <2>1, <3>1, <3>3, <4>1
            <4>3. tokens'[b] <= Capacity(b) /\ meter'[b] + tokens'[b] <= Capacity(b)
                BY <2>1, <3>1, <3>3
            <4> QED
                BY <1>1, <2>1, <3>1, <3>3, <4>2, <4>3 DEF AtLeast
        <3> QED
            BY <2>1, <3>3, <3>4, <3>5
    <2> QED
        BY <2>2, <2>3
<1> QED
    BY <1>4, <1>5 DEF LimiterInv, ExcessIsOwed, RateKept, Rate, Capacity

(* A tick pays off what it refills.                                        *)
LEMMA TickKeeps == LimiterInv /\ Tick => LimiterInv'
<1> SUFFICES ASSUME LimiterInv, Tick PROVE LimiterInv'
    OBVIOUS
<1>1. ASSUME NEW b \in Buckets
      PROVE  /\ tokens[b] \in Int /\ meter[b] \in Nat /\ MaxSize \in Nat
             /\ Capacity(b) \in Nat /\ Rate(b) \in Nat
             /\ tokens'[b] = Refill(b)
             /\ meter'[b] = AtLeast(meter[b] - Rate(b), 0)
    BY <1>1, RatesTyped, LimiterAssumption DEF LimiterInv, LimiterTypeOK, Tick
<1>2. \A b \in Buckets : tokens'[b] \in Int /\ meter'[b] \in Nat
    BY <1>1 DEF Refill, AtMost, AtLeast
<1>3. LimiterTypeOK'
    <2>1. /\ tokens' = [b \in Buckets |-> tokens'[b]]
          /\ meter' = [b \in Buckets |-> meter'[b]]
        BY DEF Tick
    <2>2. tokens' \in [Buckets -> Int] /\ meter' \in [Buckets -> Nat]
        BY <1>2, <2>1
    <2> QED
        BY <2>2 DEF Tick, LimiterInv, LimiterTypeOK
<1>4. ASSUME NEW b \in Buckets, Rate(b) > 0
      PROVE  /\ tokens'[b] <= Capacity(b)
             /\ meter'[b] + tokens'[b] <= Capacity(b)
             /\ meter'[b] <= AtLeast(Capacity(b), MaxSize)
    <2>1. /\ tokens[b] <= Capacity(b) /\ meter[b] + tokens[b] <= Capacity(b)
          /\ meter[b] <= AtLeast(Capacity(b), MaxSize)
        BY <1>4 DEF LimiterInv, ExcessIsOwed, RateKept
    <2> QED
        BY <1>1, <1>4, <2>1 DEF Refill, AtMost, AtLeast
<1> QED
    BY <1>3, <1>4 DEF LimiterInv, ExcessIsOwed, RateKept, Rate, Capacity

(* The other steps move callers, not bytes.                                *)
LEMMA LimiterKept == LimiterInv /\ [LimiterNext]_limiterVars => LimiterInv'
<1> SUFFICES ASSUME LimiterInv, [LimiterNext]_limiterVars PROVE LimiterInv'
    OBVIOUS
<1>0. ASSUME line' \in Seq(Callers), UNCHANGED <<tokens, meter>>,
             request' \in [Callers -> [conn : Conns \cup {NoRequest.conn},
                                       bytes : 0 .. MaxSize]]
      PROVE  LimiterInv'
    BY <1>0 DEF LimiterInv, LimiterTypeOK, ExcessIsOwed, RateKept, Rate, Capacity
<1>1. ASSUME NEW c \in Callers, NEW k \in Conns, NEW n \in Sizes, Acquire(c, k, n)
      PROVE  LimiterInv'
    <2>1. [conn |-> k, bytes |-> n] \in [conn : Conns \cup {NoRequest.conn},
                                         bytes : 0 .. MaxSize]
        BY LimiterAssumption
    <2>2. line' \in Seq(Callers)
        BY <1>1 DEF Acquire, LimiterInv, LimiterTypeOK
    <2> QED
        BY <1>0, <1>1, <2>1, <2>2 DEF Acquire, LimiterInv, LimiterTypeOK
<1>2. ASSUME NEW c \in Callers, Abandon(c) PROVE LimiterInv'
    <2>1. PICK i \in 1 .. Len(line) :
            line' = SubSeq(line, 1, i - 1) \o SubSeq(line, i + 1, Len(line))
        BY <1>2 DEF Abandon
    <2>2. line \in Seq(Callers) /\ Len(line) \in Nat
        BY DEF LimiterInv, LimiterTypeOK
    <2>3. /\ SubSeq(line, 1, i - 1) \in Seq(Callers)
          /\ SubSeq(line, i + 1, Len(line)) \in Seq(Callers)
        BY <2>2
    <2>4. line' \in Seq(Callers)
        BY <2>1, <2>3
    <2>5. NoRequest \in [conn : Conns \cup {NoRequest.conn}, bytes : 0 .. MaxSize]
        BY LimiterAssumption DEF NoRequest
    <2> QED
        BY <1>0, <1>2, <2>4, <2>5 DEF Abandon, LimiterInv, LimiterTypeOK
<1>3. CASE Sleep \/ Wake \/ UNCHANGED limiterVars
    BY <1>0, <1>3 DEF Sleep, Wake, limiterVars, LimiterInv, LimiterTypeOK
<1> QED
    BY <1>1, <1>2, <1>3, GrantKeeps, TickKeeps DEF LimiterNext

(* Whatever is asked for, in whatever order and abandoned wherever, no     *)
(* stretch of time lets more than its rate and one burst through, where    *)
(* the burst is a second's worth or one frame.                             *)
THEOREM RatesKept == LimiterSpec => []RateKept
<1>1. LimiterInv => RateKept
    BY DEF LimiterInv
<1> QED
    BY LimiterStart, LimiterKept, <1>1, PTL DEF LimiterSpec

-----------------------------------------------------------------------------
(***************************************************************************)
(* ReadLadder.                                                             *)
(***************************************************************************)

(* The client that resolves is alone, before anything is settled, and has  *)
(* found silent what it has passed.                                        *)
OneResolves ==
    /\ \A c, d \in Clients :
          progress[c] = "resolving" /\ progress[d] = "resolving" => c = d
    /\ \A c \in Clients :
          progress[c] = "resolving" =>
              /\ cell = NoNode
              /\ rung \in 1 .. Len(LocalUrls) + 1
              /\ silent = 1 .. rung - 1

LadderInv ==
    /\ progress \in [Clients -> {"idle", "waiting", "resolving", "answered"}]
    /\ answer = [c \in Clients |-> answer[c]]
    /\ OneResolves
    /\ AnswerJustified

(* The rungs are three different nodes, none of them the gateway.          *)
LEMMA Rungs ==
    /\ Len(LocalUrls) = 3
    /\ \A i \in 1 .. 3 : /\ LocalUrls[i] # NoNode
                         /\ LocalUrls[i].tier \notin {"PublicGateway", "Override"}
                         /\ \A k \in 1 .. 3 : LocalUrls[i] = LocalUrls[k] => i = k
    /\ Gateway # NoNode /\ Gateway.tier = "PublicGateway"
    /\ NoNode.tier = "none"
BY DEF LocalUrls, Gateway, NoNode, ResolvedNode

(* Nobody has asked, nothing is settled.                                   *)
LEMMA LadderStart == LadderInit => LadderInv
<1> SUFFICES ASSUME LadderInit PROVE LadderInv
    OBVIOUS
<1>1. AnswerJustified
    BY Rungs DEF LadderInit, AnswerJustified
<1>2. answer = [c \in Clients |-> answer[c]]
    BY DEF LadderInit
<1> QED
    BY <1>1, <1>2 DEF LadderInit, LadderInv, OneResolves

(* Settling the cell gives every later client the node that was found.     *)
LEMMA SettleKeeps ==
    ASSUME LadderInv, NEW c \in Clients, progress[c] = "resolving",
           NEW node, Settle(c, node), node # NoNode,
           node.tier = "PublicGateway" => silent = 1 .. Len(LocalUrls),
           \A i \in 1 .. Len(LocalUrls) : node = LocalUrls[i] => silent = 1 .. i - 1
    PROVE  LadderInv'
<1>1. cell = NoNode /\ \A d \in Clients : answer[d] = NoNode
    BY DEF LadderInv, OneResolves, AnswerJustified
<1>2. /\ cell' = node /\ silent' = silent
      /\ \A d \in Clients : answer'[d] # NoNode => answer'[d] = cell'
    BY <1>1 DEF Settle, LadderInv
<1>3. AnswerJustified'
    BY <1>2 DEF AnswerJustified, LocalUrls, NoNode, ResolvedNode
<1>4. \A d \in Clients : progress'[d] # "resolving"
    BY DEF Settle, LadderInv, OneResolves
<1>5. /\ progress' \in [Clients -> {"idle", "waiting", "resolving", "answered"}]
      /\ answer' = [d \in Clients |-> answer'[d]]
    BY DEF Settle, LadderInv
<1> QED
    BY <1>3, <1>4, <1>5 DEF LadderInv, OneResolves

(* Every step of a client, the ones of a resolution above all, keeps it.   *)
LEMMA LadderKept == LadderInv /\ [LadderNext]_ladderVars => LadderInv'
<1> SUFFICES ASSUME LadderInv, [LadderNext]_ladderVars PROVE LadderInv'
    OBVIOUS
<1>1. ASSUME NEW c \in Clients, NEW o \in OverrideInputs, GetOrResolve(c, o)
      PROVE  LadderInv'
    BY <1>1 DEF GetOrResolve, LadderInv, OneResolves, AnswerJustified
<1>2. ASSUME NEW c \in Clients, ReadCell(c) PROVE LadderInv'
    <2>1. /\ \A d \in Clients : progress[d] # "resolving"
          /\ \A d \in Clients : progress'[d] # "resolving"
        BY <1>2 DEF ReadCell, LadderInv, OneResolves
    <2>2. AnswerJustified'
        BY <1>2 DEF ReadCell, LadderInv, AnswerJustified
    <2> QED
        <3>1. answer' = [d \in Clients |-> answer'[d]]
            BY <1>2 DEF ReadCell, LadderInv
        <3>2. progress' \in [Clients -> {"idle", "waiting", "resolving", "answered"}]
            BY <1>2 DEF ReadCell, LadderInv
        <3> QED BY <2>1, <2>2, <3>1, <3>2 DEF LadderInv, OneResolves
<1>3. ASSUME NEW c \in Clients, BeginResolving(c) PROVE LadderInv'
    BY <1>3, Rungs DEF BeginResolving, StartPass, LadderInv, OneResolves, AnswerJustified
<1>4. ASSUME NEW c \in Clients, TakeOverride(c) PROVE LadderInv'
    <2> DEFINE node == ResolvedNode(OverrideUrl(wanted[c]), "Override")
    <2>1. progress[c] = "resolving" /\ Settle(c, node)
        BY <1>4 DEF TakeOverride
    <2>2. node.tier = "Override"
        BY DEF ResolvedNode
    <2> HIDE DEF node
    <2> QED
        BY <2>1, <2>2, Rungs, SettleKeeps
<1>5. ASSUME NEW c \in Clients, RungAnswers(c) PROVE LadderInv'
    <2>1. /\ progress[c] = "resolving" /\ Settle(c, LocalUrls[rung])
          /\ rung \in 1 .. 3 /\ silent = 1 .. rung - 1
        BY <1>5, Rungs DEF RungAnswers, Probing, LadderInv, OneResolves
    <2>2. /\ LocalUrls[rung] # NoNode /\ LocalUrls[rung].tier # "PublicGateway"
          /\ \A i \in 1 .. Len(LocalUrls) : LocalUrls[rung] = LocalUrls[i] => i = rung
        BY <2>1, Rungs
    <2> QED
        BY <2>1, <2>2, SettleKeeps
<1>6. ASSUME NEW c \in Clients, RungSilent(c) PROVE LadderInv'
    BY <1>6, Rungs DEF RungSilent, Probing, LadderInv, OneResolves, AnswerJustified
<1>7. ASSUME NEW c \in Clients, FallToGateway(c) PROVE LadderInv'
    <2>1. /\ progress[c] = "resolving" /\ Settle(c, Gateway)
          /\ silent = 1 .. Len(LocalUrls)
        BY <1>7, Rungs DEF FallToGateway, Probing, LadderInv, OneResolves
    <2> QED
        BY <2>1, Rungs, SettleKeeps
<1>8. ASSUME NEW c \in Clients, DropClient(c) PROVE LadderInv'
    BY <1>8 DEF DropClient, LadderInv, OneResolves, AnswerJustified
<1>9. CASE UNCHANGED ladderVars
    BY <1>9 DEF ladderVars, LadderInv, OneResolves, AnswerJustified
<1> QED
    BY <1>1, <1>2, <1>3, <1>4, <1>5, <1>6, <1>7, <1>8, <1>9 DEF LadderNext

(* One answer for all, and one pass that stands behind it, however many    *)
(* clients are dropped while they resolve.                                 *)
THEOREM LadderJustified == LadderSpec => []AnswerJustified
<1>1. LadderInv => AnswerJustified
    BY DEF LadderInv
<1> QED
    BY LadderStart, LadderKept, <1>1, PTL DEF LadderSpec

-----------------------------------------------------------------------------
(***************************************************************************)
(* OnionRelay.                                                             *)
(***************************************************************************)

(* A hop that has not been reached has paid nothing for this stream: the   *)
(* path names it once.                                                     *)
PaysOnce ==
    path # <<>> =>
        /\ passed < Len(path)
        /\ TryNew(path)
        /\ \A i \in passed + 1 .. Len(path) : carriedFor[path[i]] = 0

OnionTypeOK ==
    /\ config \in [Nodes -> StreamRelayConfig]
    /\ available \in [Nodes -> Nat]
    /\ path \in Seq(Nodes)
    /\ passed \in Nat
    /\ inbound \in [hops_remaining : Nat \cup {Unreadable},
                    declared_len : Nat \cup {Unreadable}]
    /\ carriedFor \in [Nodes -> Nat]

OnionInv == OnionTypeOK /\ PaysOnce /\ RelaySpendBounded

(* No stream has cost anybody anything yet.                                *)
LEMMA OnionStart == OnionInit => OnionInv
<1> SUFFICES ASSUME OnionInit PROVE OnionInv
    OBVIOUS
<1>1. config \in [Nodes -> StreamRelayConfig]
    BY OnionAssumption DEF OnionInit
<1>2. OnionTypeOK
    BY <1>1, OnionAssumption DEF OnionInit, OnionTypeOK, NoInbound
<1>3. RelaySpendBounded
    BY <1>1, OnionAssumption DEF OnionInit, RelaySpendBounded, StreamRelayConfig
<1> QED
    BY <1>2, <1>3 DEF OnionInit, OnionInv, PaysOnce

(* A relay that carries a stream allows it: it relays, and the length is a *)
(* number within its ceiling and what is left of its window.               *)
LEMMA CarryIsAllowed ==
    ASSUME NEW c \in StreamRelayConfig, NEW left \in Nat,
           NEW in \in [hops_remaining : Nat \cup {Unreadable},
                       declared_len : Nat \cup {Unreadable}],
           DecideRelayStream(c, in, left) = "carry"
    PROVE  /\ c.enabled /\ ~c.relays_asks_only
           /\ in.declared_len \in Nat
           /\ in.declared_len <= c.max_bytes_per_stream
           /\ in.declared_len <= left
           /\ in.hops_remaining \in Nat \ {0}
BY DEF DecideRelayStream, StreamRelayConfig

(* A hop that carries pays once, and the hops after it have paid nothing.  *)
LEMMA CarryKeeps == OnionInv /\ Carry => OnionInv'
<1> SUFFICES ASSUME OnionInv, Carry PROVE OnionInv'
    OBVIOUS
<1> DEFINE hop == path[passed + 1]
           cost == inbound.declared_len
<1>1. /\ path # <<>> /\ path \in Seq(Nodes) /\ passed \in Nat
      /\ passed + 1 \in 1 .. Len(path) /\ Len(path) \in Nat
      /\ hop \in Nodes /\ carriedFor[hop] = 0
    BY DEF Carry, OnionInv, OnionTypeOK, PaysOnce
<1>2. /\ config[hop].enabled /\ ~config[hop].relays_asks_only
      /\ cost \in Nat /\ cost <= config[hop].max_bytes_per_stream
      /\ cost <= available[hop] /\ inbound.hops_remaining \in Nat \ {0}
    <2>1. /\ config[hop] \in StreamRelayConfig /\ available[hop] \in Nat
          /\ inbound \in [hops_remaining : Nat \cup {Unreadable},
                          declared_len : Nat \cup {Unreadable}]
        BY <1>1 DEF OnionInv, OnionTypeOK
    <2>2. DecideRelayStream(config[hop], inbound, available[hop]) = "carry"
        BY DEF Carry, Decision
    <2> HIDE DEF hop, cost
    <2> QED
        BY <2>1, <2>2, CarryIsAllowed DEF cost
<1>3. /\ available' = [available EXCEPT ![hop] = @ - cost]
      /\ carriedFor' = [carriedFor EXCEPT ![hop] = @ + cost]
      /\ config' = config
    BY DEF Carry
<1> HIDE DEF hop, cost
<1>4. /\ available' \in [Nodes -> Nat] /\ carriedFor' \in [Nodes -> Nat]
      /\ carriedFor'[hop] = cost
      /\ \A n \in Nodes : n # hop => /\ carriedFor'[n] = carriedFor[n]
                                     /\ available'[n] = available[n]
    BY <1>1, <1>2, <1>3 DEF OnionInv, OnionTypeOK
<1>5. RelaySpendBounded'
    <2>1. ASSUME NEW n \in Nodes PROVE available'[n] \in 0 .. Window
        <3>1. available[n] \in 0 .. Window /\ available[hop] \in 0 .. Window
            BY <1>1 DEF OnionInv, RelaySpendBounded
        <3>2. n = hop => available'[n] = available[hop] - cost
            BY <1>1, <1>3 DEF OnionInv, OnionTypeOK
        <3> QED
            BY <1>2, <1>4, <3>1, <3>2, OnionAssumption
    <2> QED
        BY <1>1, <1>2, <1>3, <1>4, <2>1 DEF OnionInv, RelaySpendBounded
<1>6. CASE path' = <<>>
    <2>1. passed' = 0 /\ inbound' = NoInbound
        BY <1>6, <1>1 DEF Carry, EndStream
    <2>2. NoInbound \in [hops_remaining : Nat \cup {Unreadable},
                         declared_len : Nat \cup {Unreadable}]
        BY DEF NoInbound
    <2> QED
        BY <1>3, <1>4, <1>5, <1>6, <2>1, <2>2 DEF OnionInv, OnionTypeOK, PaysOnce
<1>7. CASE path' # <<>>
    <2>1. /\ passed + 1 # Len(path) /\ passed' = passed + 1 /\ path' = path
          /\ inbound' = [inbound EXCEPT !.hops_remaining = @ - 1]
        BY <1>7 DEF Carry, EndStream
    <2>3. inbound' \in [hops_remaining : Nat \cup {Unreadable},
                        declared_len : Nat \cup {Unreadable}]
        BY <1>2, <2>1 DEF OnionInv, OnionTypeOK
    <2>4. PaysOnce'
        <3>1. TryNew(path) /\ passed' < Len(path)
            BY <1>1, <2>1 DEF OnionInv, PaysOnce
        <3>2. \A i \in passed' + 1 .. Len(path) :
                path[i] \in Nodes /\ path[i] # hop /\ carriedFor[path[i]] = 0
            <4> SUFFICES ASSUME NEW i \in passed' + 1 .. Len(path)
                         PROVE  path[i] \in Nodes /\ path[i] # hop
                                /\ carriedFor[path[i]] = 0
                OBVIOUS
            <4>1. /\ i \in passed + 1 .. Len(path) /\ i \in 1 .. Len(path)
                  /\ i # passed + 1
                BY <1>1, <2>1
            <4> QED
                BY <1>1, <3>1, <4>1 DEF hop, TryNew, OnionInv, OnionTypeOK, PaysOnce
        <3> QED
            BY <1>4, <2>1, <3>1, <3>2 DEF PaysOnce, TryNew
    <2> QED
        BY <1>1, <1>3, <1>4, <1>5, <2>1, <2>3, <2>4 DEF OnionInv, OnionTypeOK
<1> QED
    BY <1>6, <1>7

(* No other step makes anybody pay.                                        *)
LEMMA OnionKept == OnionInv /\ [OnionNext]_onionVars => OnionInv'
<1> SUFFICES ASSUME OnionInv, [OnionNext]_onionVars PROVE OnionInv'
    OBVIOUS
<1> USE DEF OnionInv, OnionTypeOK
<1>1. ASSUME NEW n \in Nodes, NEW length \in Lengths, RefuseToOriginate(n, length)
      PROVE  OnionInv'
    BY <1>1 DEF RefuseToOriginate, PaysOnce, RelaySpendBounded
<1>2. ASSUME NEW n \in Nodes, NEW length \in Lengths, NEW k \in 1 .. MaxHopPath + 1,
             NEW hops \in [1 .. k -> Nodes], NEW budget \in 0 .. MaxHopPath,
             Originate(n, hops, budget, length)
      PROVE  OnionInv'
    <2>1. hops \in Seq(Nodes) /\ k \in Nat /\ Len(hops) = k /\ k > 0
        BY OnionAssumption
    <2>2. /\ path' = hops /\ passed' = 0 /\ TryNew(hops)
          /\ inbound' = [hops_remaining |-> budget, declared_len |-> length]
          /\ carriedFor' = [m \in Nodes |-> 0]
          /\ UNCHANGED <<config, available>>
        BY <1>2 DEF Originate
    <2>3. inbound' \in [hops_remaining : Nat \cup {Unreadable},
                        declared_len : Nat \cup {Unreadable}]
        BY <2>2, OnionAssumption
    <2>4. PaysOnce'
        BY <2>1, <2>2 DEF PaysOnce, TryNew
    <2>5. RelaySpendBounded'
        BY <2>2 DEF RelaySpendBounded, StreamRelayConfig
    <2> QED
        BY <2>1, <2>2, <2>3, <2>4, <2>5
<1>3. ASSUME NEW field \in {"hops_remaining", "declared_len"}, Garble(field)
      PROVE  OnionInv'
    BY <1>3 DEF Garble, PaysOnce, TryNew, RelaySpendBounded
<1>4. CASE Refuse
    <2>1. path' = <<>> /\ passed' = 0 /\ inbound' = NoInbound
          /\ UNCHANGED <<config, available, carriedFor>>
        BY <1>4 DEF Refuse, EndStream
    <2> QED
        BY <2>1 DEF NoInbound, PaysOnce, RelaySpendBounded
<1>5. CASE UNCHANGED onionVars
    BY <1>5 DEF onionVars, PaysOnce, TryNew, RelaySpendBounded
<1> QED
    BY <1>1, <1>2, <1>3, <1>4, <1>5, CarryKeeps DEF OnionNext

(* No path, however it is chosen, makes a node carry more of a stream than *)
(* it agreed to, nor anything at all when it does not relay.               *)
THEOREM RelaySpendSafe == OnionSpec => []RelaySpendBounded
<1>1. OnionInv => RelaySpendBounded
    BY DEF OnionInv
<1> QED
    BY OnionStart, OnionKept, <1>1, PTL DEF OnionSpec

-----------------------------------------------------------------------------
(***************************************************************************)
(* ConnPool: connect gives a provider up only after it tried everything.   *)
(***************************************************************************)

(* The addresses of any one set that retain() keeps: none is lost.         *)
LEMMA AddressesRetained ==
    ASSUME NEW W
    PROVE  /\ Retain(Addresses, W) \in Seq(DOMAIN HostOf \cap W)
           /\ \A i \in 1 .. Len(Addresses) :
                 Addresses[i] \in W => Has(Retain(Addresses, W), Addresses[i])
<1>1. Addresses \in Seq(DOMAIN HostOf)
    BY PoolAssumption
<1> QED
    BY <1>1, RetainKeeps

(* What is dialed: the relay last, and before it each address that makes a *)
(* socket, unless the cap cut it off.                                      *)
LEMMA TargetsListed ==
    /\ DialTargets \in Seq(DOMAIN HostOf \cup {"relay-only"})
    /\ Len(DialTargets) >= 1
    /\ Has(DialTargets, "relay-only")
    /\ Len(Addresses) <= MaxCandidates =>
          \A i \in 1 .. Len(Addresses) :
             HostOf[Addresses[i]] # "name" => Has(DialTargets, Addresses[i])
<1> DEFINE D == DOMAIN HostOf
           six == Ranked("v6")
           four == Ranked("v4")
           others == Ranked("name")
           sorted == six \o four \o others
           dialed == Retain(DialCandidates, WithHost({"v6", "v4"}))
<1>1. Addresses \in Seq(D) /\ Len(Addresses) \in Nat /\ MaxCandidates \in Nat
    BY PoolAssumption
<1>2. ASSUME NEW host
      PROVE  /\ Ranked(host) \in Seq(D)
             /\ \A i \in 1 .. Len(Addresses) :
                   HostOf[Addresses[i]] = host => Has(Ranked(host), Addresses[i])
    <2>1. /\ Ranked(host) \in Seq(D \cap WithHost({host}))
          /\ \A i \in 1 .. Len(Addresses) :
                Addresses[i] \in WithHost({host}) => Has(Ranked(host), Addresses[i])
        BY AddressesRetained, Zenon DEF Ranked
    <2>2. Ranked(host) \in Seq(D)
        BY <2>1
    <2>3. \A i \in 1 .. Len(Addresses) : Addresses[i] \in D
        BY <1>1
    <2> QED
        BY <2>1, <2>2, <2>3 DEF WithHost
<1>3. six \in Seq(D) /\ four \in Seq(D) /\ others \in Seq(D)
    BY <1>2
<1>4. Len(six) + Len(four) + Len(others) <= Len(Addresses)
    <2>1. /\ WithHost({"v6"}) \cap WithHost({"v4"}) = {}
          /\ WithHost({"v6"}) \cap WithHost({"name"}) = {}
          /\ WithHost({"v4"}) \cap WithHost({"name"}) = {}
        BY DEF WithHost
    <2> QED
        BY <1>1, <2>1, RetainLengths DEF Ranked
<1> HIDE DEF six, four, others, D
<1>5. six \o four \in Seq(D) /\ Len(six \o four) = Len(six) + Len(four)
    BY <1>3, ConcatFacts
<1>6. sorted \in Seq(D) /\ Len(sorted) = Len(six) + Len(four) + Len(others)
    <2>1. sorted \in Seq(D) /\ Len(sorted) = Len(six \o four) + Len(others)
        BY <1>3, <1>5, ConcatFacts
    <2> QED
        BY <1>5, <2>1
<1>7. ASSUME NEW x, Has(six, x) \/ Has(four, x) PROVE Has(sorted, x)
    <2>1. Has(six \o four, x)
        BY <1>3, <1>7, ConcatHas
    <2> QED
        BY <1>3, <1>5, <2>1, ConcatHas
<1> HIDE DEF sorted
<1>8. /\ DialCandidates \in Seq(D)
      /\ Len(sorted) <= MaxCandidates => DialCandidates = sorted
    <2>1. DialCandidates = SubSeq(sorted, 1, IF Len(sorted) <= MaxCandidates
                                             THEN Len(sorted) ELSE MaxCandidates)
        BY DEF DialCandidates, sorted, six, four, others
    <2>2. CASE Len(sorted) <= MaxCandidates
        BY <1>6, <2>1, <2>2
    <2>3. CASE ~(Len(sorted) <= MaxCandidates)
        BY <1>1, <1>6, <2>1, <2>3
    <2> QED
        BY <2>2, <2>3
<1>9. /\ dialed \in Seq(D \cap WithHost({"v6", "v4"}))
      /\ \A i \in 1 .. Len(DialCandidates) :
            DialCandidates[i] \in WithHost({"v6", "v4"}) => Has(dialed, DialCandidates[i])
    BY <1>8, RetainKeeps
<1> DEFINE V == D \cup {"relay-only"}
           relay == <<"relay-only">>
<1>10. dialed \in Seq(V) /\ relay \in Seq(V) /\ Has(relay, "relay-only") /\ Len(relay) = 1
    BY <1>9 DEF Has
<1>11. DialTargets = dialed \o relay
    BY DEF DialTargets
<1> HIDE DEF dialed, relay, V
<1>12. /\ DialTargets \in Seq(V) /\ Len(DialTargets) = Len(dialed) + 1
       /\ Has(DialTargets, "relay-only")
       /\ \A x : Has(dialed, x) => Has(DialTargets, x)
    BY <1>10, <1>11, ConcatFacts, ConcatHas
<1>13. Len(DialTargets) >= 1
    BY <1>10, <1>12
<1>14. ASSUME Len(Addresses) <= MaxCandidates,
              NEW i \in 1 .. Len(Addresses), HostOf[Addresses[i]] # "name"
       PROVE  Has(DialTargets, Addresses[i])
    <2> DEFINE a == Addresses[i]
    <2>1. a \in D /\ HostOf[a] \in {"v6", "v4"}
        BY <1>1, <1>14, PoolAssumption DEF D
    <2>2. Has(sorted, a)
        BY <1>2, <1>7, <2>1 DEF six, four
    <2>3. DialCandidates = sorted
        BY <1>1, <1>3, <1>4, <1>6, <1>8, <1>14
    <2>4. a \in WithHost({"v6", "v4"})
        BY <2>1 DEF WithHost, D
    <2> HIDE DEF a
    <2>5. Has(dialed, a)
        BY <1>9, <2>2, <2>3, <2>4 DEF Has
    <2> QED
        BY <1>12, <2>5 DEF a
<1> QED
    BY <1>12, <1>13, <1>14 DEF V, D

(* Where a request can be.                                                 *)
PoolSteps == {"idle", "dialing", "unreachable", "inserting", "opening", "locked",
              "reading", "failed"}

(* A dialing request has missed every target it passed.                    *)
PoolInv ==
    /\ step \in [Requests -> PoolSteps]
    /\ next \in [Requests -> 1 .. Len(DialTargets) + 1]
    /\ missed \in [Requests -> SUBSET Targets]
    /\ \A r \in Requests : \A i \in 1 .. next[r] - 1 : DialTargets[i] \in missed[r]
    /\ \A r \in Requests : step[r] = "unreachable" => next[r] = Len(DialTargets) + 1

(* A request that leaves begins its next one with the first target.        *)
LEMMA LeaveKeeps ==
    ASSUME PoolInv, NEW r \in Requests, NEW pool2, Leave(r, pool2)
    PROVE  PoolInv'
<1>1. /\ step' = [step EXCEPT ![r] = "idle"]
      /\ next' = [next EXCEPT ![r] = 1]
      /\ missed' = [missed EXCEPT ![r] = {}]
    BY DEF Leave
<1>2. 1 \in 1 .. Len(DialTargets) + 1 /\ 1 .. 1 - 1 = {}
    BY TargetsListed
<1>3. ASSUME NEW q \in Requests, NEW i \in 1 .. next'[q] - 1
      PROVE  DialTargets[i] \in missed'[q]
    BY <1>1, <1>2, <1>3 DEF PoolInv
<1>4. \A q \in Requests : step'[q] = "unreachable" => q # r
    BY <1>1 DEF PoolInv
<1>5. \A q \in Requests : step'[q] = "unreachable" => next'[q] = Len(DialTargets) + 1
    BY <1>1, <1>4 DEF PoolInv
<1>6. step' \in [Requests -> PoolSteps] /\ missed' \in [Requests -> SUBSET Targets]
    BY <1>1 DEF PoolInv, PoolSteps
<1>7. next' \in [Requests -> 1 .. Len(DialTargets) + 1]
    BY <1>1, <1>2 DEF PoolInv
<1> QED
    BY <1>3, <1>5, <1>6, <1>7 DEF PoolInv

(* So does every other step; only a miss moves on, and records it.         *)
LEMMA PoolKept == PoolInv /\ [PoolNext]_poolVars => PoolInv'
<1> SUFFICES ASSUME PoolInv, [PoolNext]_poolVars PROVE PoolInv'
    OBVIOUS
<1> DEFINE n == Len(DialTargets)
<1>1. n \in Nat
    BY TargetsListed
<1>2. ASSUME NEW r \in Requests, NEW s \in PoolSteps, s # "unreachable",
             step' = [step EXCEPT ![r] = s], UNCHANGED <<next, missed>>
      PROVE  PoolInv'
    BY <1>2 DEF PoolInv
<1>3. ASSUME NEW r \in Requests, DialMisses(r) PROVE PoolInv'
    <2>1. /\ next[r] \in 1 .. n /\ step[r] = "dialing" /\ step' = step
          /\ next' = [next EXCEPT ![r] = next[r] + 1]
          /\ missed' = [missed EXCEPT ![r] = missed[r] \cup {DialTargets[next[r]]}]
        BY <1>1, <1>3 DEF DialMisses, PoolInv
    <2>2. next[r] + 1 \in 1 .. n + 1 /\ DialTargets[next[r]] \in Targets
        BY <1>1, <2>1 DEF Targets
    <2>3. \A i \in 1 .. (next[r] + 1) - 1 : i = next[r] \/ i \in 1 .. next[r] - 1
        BY <2>1
    <2>4. next' \in [Requests -> 1 .. n + 1] /\ missed' \in [Requests -> SUBSET Targets]
        BY <2>1, <2>2 DEF PoolInv
    <2>5. ASSUME NEW q \in Requests, NEW i \in 1 .. next'[q] - 1
          PROVE  DialTargets[i] \in missed'[q]
        <3>1. CASE q = r
            BY <2>1, <2>3, <2>5, <3>1 DEF PoolInv
        <3>2. CASE q # r
            BY <2>1, <2>5, <3>2 DEF PoolInv
        <3> QED
            BY <3>1, <3>2
    <2>6. ASSUME NEW q \in Requests, step'[q] = "unreachable" PROVE next'[q] = n + 1
        <3>1. q # r
            BY <2>1, <2>6
        <3> QED
            BY <2>1, <2>6, <3>1 DEF PoolInv
    <2> QED
        BY <2>1, <2>4, <2>5, <2>6 DEF PoolInv
<1>4. ASSUME NEW r \in Requests, ConnectFails(r) PROVE PoolInv'
    <2>1. /\ next[r] \in 1 .. n + 1 /\ next[r] > n
          /\ step' = [step EXCEPT ![r] = "unreachable"] /\ UNCHANGED <<next, missed>>
        BY <1>4 DEF ConnectFails, PoolInv
    <2>2. next[r] = n + 1
        BY <1>1, <2>1
    <2>3. \A q \in Requests : step'[q] = "unreachable" => next'[q] = n + 1
        BY <2>1, <2>2 DEF PoolInv
    <2>4. step' \in [Requests -> PoolSteps]
        BY <2>1 DEF PoolInv, PoolSteps
    <2> QED
        BY <2>1, <2>3, <2>4 DEF PoolInv
<1>5. ASSUME UNCHANGED <<step, next, missed>> PROVE PoolInv'
    BY <1>5 DEF PoolInv
<1>6. ASSUME NEW r \in Requests, Serve(r) \/ Cancel(r) PROVE PoolInv'
    <2>1. CASE LookUp(r)
        <3>1. /\ \/ step' = [step EXCEPT ![r] = "opening"]
                 \/ step' = [step EXCEPT ![r] = "dialing"]
              /\ UNCHANGED <<next, missed>>
            BY <2>1 DEF LookUp
        <3> QED
            BY <1>2, <3>1 DEF PoolSteps
    <2>2. CASE DialAnswers(r)
        <3>1. step' = [step EXCEPT ![r] = "inserting"] /\ UNCHANGED <<next, missed>>
            BY <2>2 DEF DialAnswers
        <3> QED
            BY <1>2, <3>1 DEF PoolSteps
    <2>3. CASE ReportUnreachable(r) \/ Evict(r) \/ Finish(r) \/ Cancel(r)
        BY <2>3, LeaveKeeps DEF ReportUnreachable, Evict, Finish, Cancel
    <2>4. CASE Insert(r)
        <3>1. step' = [step EXCEPT ![r] = "opening"] /\ UNCHANGED <<next, missed>>
            BY <2>4 DEF Insert
        <3> QED
            BY <1>2, <3>1 DEF PoolSteps
    <2>5. CASE Lock(r) \/ Opens(r) \/ OpenFails(r)
        <3>1. /\ \/ step' = [step EXCEPT ![r] = "locked"]
                 \/ step' = [step EXCEPT ![r] = "reading"]
                 \/ step' = [step EXCEPT ![r] = "failed"]
              /\ UNCHANGED <<next, missed>>
            BY <2>5 DEF Lock, Opens, OpenFails
        <3> QED
            BY <1>2, <3>1 DEF PoolSteps
    <2> QED
        BY <1>3, <1>4, <1>6, <2>1, <2>2, <2>3, <2>4, <2>5 DEF Serve
<1>7. ASSUME NEW s \in Sessions, Break(s) PROVE PoolInv'
    BY <1>5, <1>7 DEF Break
<1>8. CASE Move
    BY <1>5, <1>8 DEF Move
<1>9. CASE UNCHANGED poolVars
    BY <1>5, <1>9 DEF poolVars
<1> QED
    BY <1>6, <1>7, <1>8, <1>9 DEF PoolNext

(* connect: a request gives a provider up only after the relay and each of *)
(* its addresses within the cap was tried, whatever the addresses, their   *)
(* hosts and the order in which they come and go.                          *)
THEOREM ConnectTriesEach == PoolSpec => []ConnectTriesAll
<1>1. PoolInit => PoolInv
    <2> SUFFICES ASSUME PoolInit PROVE PoolInv
        OBVIOUS
    <2>1. 1 \in 1 .. Len(DialTargets) + 1 /\ 1 .. 1 - 1 = {}
        BY TargetsListed
    <2>2. \A r \in Requests : next[r] = 1 /\ step[r] = "idle"
        BY DEF PoolInit
    <2>3. \A r \in Requests : \A i \in 1 .. next[r] - 1 : DialTargets[i] \in missed[r]
        BY <2>1, <2>2
    <2>4. /\ step \in [Requests -> PoolSteps]
          /\ missed \in [Requests -> SUBSET Targets]
        BY DEF PoolInit, PoolSteps
    <2>5. next \in [Requests -> 1 .. Len(DialTargets) + 1]
        BY <2>1 DEF PoolInit
    <2> QED
        BY <2>2, <2>3, <2>4, <2>5 DEF PoolInv
<1>2. PoolInv => ConnectTriesAll
    <2> SUFFICES ASSUME PoolInv, NEW r \in Requests, step[r] = "unreachable"
                 PROVE  \A x : Has(DialTargets, x) => x \in missed[r]
        BY TargetsListed DEF ConnectTriesAll
    <2>1. next[r] - 1 = Len(DialTargets)
        BY TargetsListed DEF PoolInv
    <2> QED
        BY <2>1 DEF PoolInv, Has
<1> QED
    BY <1>1, <1>2, PoolKept, PTL DEF PoolSpec

=============================================================================
