-------------------------- MODULE ModulePullProofs --------------------------
(* Proofs about ModulePull for every set of holders, every descriptor a    *)
(* liar may invent, every module and every budget.                         *)
EXTENDS ModulePull, DataLemmas, FiniteSetTheorems

-----------------------------------------------------------------------------
(* Lemmas about descriptors, bytes and verdict lists.                      *)

(* chunk_span: offsets are natural, and each chunk ends where the next one *)
(* begins, within the whole.                                               *)
LEMMA Spans ==
  ASSUME NEW lens \in Seq(Nat)
  PROVE  /\ SumTo(lens, 0) = 0
         /\ \A i \in 0..Len(lens) : SumTo(lens, i) \in Nat
         /\ \A i \in 1..Len(lens) :
              /\ lens[i] \in Nat
              /\ SumTo(lens, i - 1) \in Nat
              /\ SumTo(lens, i) = SumTo(lens, i - 1) + lens[i]
              /\ SumTo(lens, i) <= SumTo(lens, Len(lens))
<1>1. \A i : SumTo(lens, i) = Sums(lens)[i]
  BY DEF SumTo, Sums
<1>2. ASSUME NEW i \in 1..Len(lens)
      PROVE  /\ lens[i] \in Nat
             /\ Sums(lens)[i - 1] \in Nat
             /\ Sums(lens)[i] = Sums(lens)[i - 1] + lens[i]
             /\ Sums(lens)[i] <= Sums(lens)[Len(lens)]
  <2>1. i \in 0..Len(lens) /\ Len(lens) \in i..Len(lens) /\ i - 1 \in 0..Len(lens)
    OBVIOUS
  <2>2. Sums(lens)[i] <= Sums(lens)[Len(lens)]
    BY <2>1, SumsGrow
  <2>3. Sums(lens)[i - 1] \in Nat
    BY <2>1, SumsDefined
  <2> QED
    BY <2>2, <2>3, SumsDefined
<1>3. Sums(lens)[0] = 0 /\ \A i \in 0..Len(lens) : Sums(lens)[i] \in Nat
  BY SumsDefined
<1>4. \A i \in 0..Len(lens) : SumTo(lens, i) \in Nat
  BY <1>1, <1>3
<1>5. ASSUME NEW i \in 1..Len(lens)
      PROVE  /\ lens[i] \in Nat
             /\ SumTo(lens, i - 1) \in Nat
             /\ SumTo(lens, i) = SumTo(lens, i - 1) + lens[i]
             /\ SumTo(lens, i) <= SumTo(lens, Len(lens))
  BY <1>1, <1>2
<1> QED
  BY <1>1, <1>3, <1>4, <1>5

(* A part of a content that lies in it is a content of its own.            *)
LEMMA SliceTyped ==
  ASSUME NEW c \in Contents, NEW off \in Nat, NEW len \in Nat, off + len <= Len(c)
  PROVE  /\ Slice(c, off, len) \in Contents
         /\ Len(Slice(c, off, len)) = len
         /\ \A k \in 1..len : Slice(c, off, len)[k] = c[off + k]
<1>1. Len(c) \in Nat /\ \A k \in 1..Len(c) : c[k] \in Nat
  BY DEF Contents
<1>2. Slice(c, off, len) = [k \in 1..len |-> c[off + k]]
  <2>1. /\ SubSeq(c, off + 1, off + len)
             = [k \in 1..(off + len) - (off + 1) + 1 |-> c[k + (off + 1) - 1]]
    OBVIOUS
  <2>2. (off + len) - (off + 1) + 1 = len
    OBVIOUS
  <2>3. \A k \in 1..len : k + (off + 1) - 1 = off + k
    OBVIOUS
  <2> QED
    BY <2>1, <2>2, <2>3 DEF Slice
<1>3. \A k \in 1..len : off + k \in 1..Len(c)
  BY <1>1
<1>4. [k \in 1..len |-> c[off + k]] \in Seq(Nat)
  BY <1>1, <1>3
<1>5. Len([k \in 1..len |-> c[off + k]]) = len
  OBVIOUS
<1> QED
  BY <1>2, <1>4, <1>5 DEF Contents

(* Two neighbouring parts put together.                                    *)
LEMMA SliceJoin ==
  ASSUME NEW c \in Contents, NEW off \in Nat, NEW len \in Nat, off + len <= Len(c)
  PROVE  Slice(c, 0, off) \o Slice(c, off, len) = Slice(c, 0, off + len)
<1>1. 0 + 1 = 1 /\ 0 + off = off /\ 0 + (off + len) = off + len
  OBVIOUS
<1> QED
  BY <1>1, PartsJoin DEF Slice, Contents

(* A write leaves a content.                                               *)
LEMMA WriteAtTyped ==
  ASSUME NEW file \in Contents, NEW off \in Nat, NEW b \in Contents
  PROVE  WriteAt(file, off, b) \in Contents
<1> DEFINE n == IF Len(file) > off + Len(b) THEN Len(file) ELSE off + Len(b)
<1>1. n \in Nat
  BY DEF Contents
<1>2. ASSUME NEW k \in 1..n
      PROVE  (IF k > off /\ k <= off + Len(b) THEN b[k - off]
              ELSE IF k <= Len(file) THEN file[k] ELSE Rot) \in Nat
  <2>1. CASE k > off /\ k <= off + Len(b)
    <3>1. k - off \in 1..Len(b)
      BY <2>1 DEF Contents
    <3> QED
      BY <2>1, <3>1 DEF Contents
  <2>2. CASE ~(k > off /\ k <= off + Len(b)) /\ k <= Len(file)
    <3>1. k \in 1..Len(file)
      BY <1>1, <2>2 DEF Contents
    <3> QED
      BY <2>2, <3>1 DEF Contents
  <2>3. CASE ~(k > off /\ k <= off + Len(b)) /\ ~(k <= Len(file))
    BY <2>3, PullAssumption
  <2> QED
    BY <2>1, <2>2, <2>3
<1>3. WriteAt(file, off, b) =
        [k \in 1..n |-> IF k > off /\ k <= off + Len(b) THEN b[k - off]
                        ELSE IF k <= Len(file) THEN file[k] ELSE Rot]
  BY DEF WriteAt
<1> HIDE DEF n
<1> QED
  BY <1>1, <1>2, <1>3 DEF Contents

(* retain keeps verdicts only, in a list.                                  *)
LEMMA RetainedTyped ==
  ASSUME NEW P, NEW vs \in Seq(P), NEW p
  PROVE  Retained(vs, p) \in Seq(P)
<1> DEFINE W == LivePeers(vs) \ {p}
<1>1. Retain(vs, W) \in Seq(P \cap W)
  <2> HIDE DEF W
  <2> QED
    BY RetainKeeps
<1> HIDE DEF W
<1>2. Retain(vs, W) \in Seq(P)
  BY <1>1
<1> QED
  BY <1>2 DEF Retained, W

(* record_verdict neither invents a holder nor brings one back: what is    *)
(* remembered afterwards was remembered before, or is the one recorded.    *)
LEMMA RecordVerdictTyped ==
  ASSUME NEW P, NEW vs \in Seq(P), NEW p \in P
  PROVE  RecordVerdict(vs, p) \in Seq(P)
<1> DEFINE kept == Append(Retained(vs, p), p)
           excess == IF Len(kept) > MaxVerdicts THEN Len(kept) - MaxVerdicts ELSE 0
<1>1. kept \in Seq(P)
  <2>1. Retained(vs, p) \in Seq(P)
    BY RetainedTyped
  <2> QED
    BY <2>1
<1>2. MaxVerdicts \in Nat
  BY PullAssumption
<1> HIDE DEF kept
<1>3. Len(kept) \in Nat
  BY <1>1
<1>4. excess \in Nat /\ excess <= Len(kept)
  BY <1>2, <1>3
<1> HIDE DEF excess
<1>5. SubSeq(kept, excess + 1, Len(kept)) \in Seq(P)
  BY <1>1, <1>3, <1>4
<1> QED
  BY <1>5 DEF RecordVerdict, kept, excess

(* An honest holder's descriptor is a descriptor, of the true module cut   *)
(* into consecutive parts.                                                 *)
LEMMA HonestDescribes ==
  ASSUME NEW d \in HonestInfos
  PROVE  /\ d \in Infos
         /\ WithinLimits(d) => WellFormed(d)
         /\ d.module = Truth /\ d.total = Len(Truth)
         /\ SumTo(d.lens, Len(d.lens)) = Len(Truth)
         /\ \A i \in 1..Len(d.lens) :
              /\ d.hashes[i] = Slice(Truth, Offset(d, i), d.lens[i])
              /\ Offset(d, i) + d.lens[i] <= Len(Truth)
<1>1. PICK lens \in HonestLens : d = HonestInfo(lens)
  BY DEF HonestInfos
<1>2. /\ lens \in Seq(Nat) /\ lens # <<>>
      /\ SumTo(lens, Len(lens)) = Len(Truth)
  BY <1>1, HonestAssumption, PullAssumption
<1>3. /\ d.lens = lens /\ d.module = Truth /\ d.total = Len(Truth)
      /\ d.hashes = [i \in DOMAIN lens |-> Slice(Truth, SumTo(lens, i - 1), lens[i])]
  BY <1>1 DEF HonestInfo
<1>4. DOMAIN lens = 1..Len(lens) /\ Len(lens) \in Nat
  BY <1>2
<1>5. Len(d.lens) = Len(d.hashes)
  BY <1>3, <1>4
<1>6. ASSUME NEW i \in 1..Len(lens)
      PROVE  /\ SumTo(lens, i - 1) \in Nat /\ lens[i] \in Nat
             /\ SumTo(lens, i - 1) + lens[i] <= Len(Truth)
  BY <1>2, Spans
<1>7. Truth \in Contents /\ Len(Truth) \in Nat
  BY PullAssumption DEF Contents
<1>8. \A i \in 1..Len(lens) : Slice(Truth, SumTo(lens, i - 1), lens[i]) \in Contents
  BY <1>6, <1>7, SliceTyped
<1>9. d.hashes \in Seq(Contents)
  BY <1>3, <1>4, <1>8
<1>10. d \in Infos
  BY <1>1, <1>2, <1>3, <1>7, <1>9 DEF Infos, HonestInfo
<1>11. WithinLimits(d) => WellFormed(d)
  BY <1>2, <1>3, <1>5 DEF WellFormed
<1> QED
  BY <1>2, <1>3, <1>4, <1>6, <1>10, <1>11 DEF Offset

(* Whatever a holder answers is a descriptor.                              *)
LEMMA AnswersAreInfos ==
  ASSUME NEW p, NEW d \in Answers(p)
  PROVE  d \in Infos
BY HonestDescribes, PullAssumption DEF Answers

(* Each chunk of a descriptor that from_info accepts has a place, a length *)
(* and a hash.                                                             *)
LEMMA ChunkTyped ==
  ASSUME NEW d \in Infos, WellFormed(d), NEW i \in 1..Len(d.lens)
  PROVE  /\ d.lens[i] \in Nat /\ Offset(d, i) \in Nat
         /\ d.hashes[i] \in Contents
         /\ SumTo(d.lens, i) = Offset(d, i) + d.lens[i]
         /\ Offset(d, i) + d.lens[i] <= d.total
<1>1. d.lens \in Seq(Nat) /\ d.hashes \in Seq(Contents)
  BY DEF Infos
<1>2. Len(d.lens) = Len(d.hashes) /\ SumTo(d.lens, Len(d.lens)) = d.total
  BY DEF WellFormed
<1>3. d.hashes[i] \in Contents
  BY <1>1, <1>2
<1> QED
  BY <1>1, <1>2, <1>3, Spans DEF Offset

-----------------------------------------------------------------------------
(* Type correctness.  The budget is what bounds attempts; a holder is      *)
(* known, and what it answered accepted by from_info, before any chunk of  *)
(* it is read.                                                             *)
Working == {"plan", "chunk", "save", "anchor", "promote", "clear"}

Checkpoints == [lens : Seq(Nat), done : SUBSET Nat, torn : BOOLEAN]

DiskOK ==
  /\ artifact \in Contents /\ staged \in Contents
  /\ handle \in {"closed", "open", "orphan"}
  /\ ckpt \in Checkpoints

CallOK ==
  /\ verdicts \in Seq(Peer)
  /\ pc \in {"idle", "ask"} \cup Working
  /\ result \in {"none", "ok", "failed", "fault", "crashed"}
  /\ providers \subseteq Peer /\ demoted \subseteq Peer
  /\ remembered \subseteq Peer /\ trusts \in BOOLEAN
  /\ attempts \in 0..MaxAttempts /\ refused \in 0..attempts
  /\ pc = "ask" => attempts < MaxAttempts
  /\ faulted \in BOOLEAN

AttemptOK ==
  /\ source \in Peer \cup {"none"}
  /\ info \in Infos
  /\ index \in Nat \ {0}
  /\ checkpointed \subseteq Nat /\ done \subseteq Nat
  /\ fed \in Contents /\ relocated \in BOOLEAN
  /\ pc \in Working => source \in providers /\ info \in Answers(source)
  /\ pc \in Working \ {"plan"} => WellFormed(info)
  /\ pc = "save" => /\ index <= Len(info.lens)
                    /\ Len(info.hashes[index]) = info.lens[index]

TypedInv == DiskOK /\ CallOK /\ AttemptOK

(* Outside a descriptor attempt nothing of one is left.                    *)
LEMMA EndedTyped ==
  ASSUME EndAttempt, pc' \notin Working
  PROVE  AttemptOK'
<1>1. NoInfo \in Infos
  <2>1. <<>> \in Seq(Nat) /\ <<>> \in Seq(Contents)
    OBVIOUS
  <2> QED
    BY <2>1 DEF NoInfo, Infos, Contents
<1>2. <<>> \in Contents
  BY DEF Contents
<1>3. index' \in Nat \ {0}
  BY DEF EndAttempt
<1>4. pc' \notin Working \ {"plan"} /\ pc' # "save"
  BY DEF Working
<1> QED
  BY <1>1, <1>2, <1>3, <1>4 DEF EndAttempt, AttemptOK

(* A call that returns.                                                    *)
LEMMA ReturnTyped ==
  ASSUME TypedInv, NEW r \in {"ok", "failed", "fault", "crashed"}, Return(r),
         artifact' \in Contents, staged' \in Contents,
         ckpt' \in Checkpoints,
         verdicts' \in Seq(Peer), faulted' \in BOOLEAN,
         UNCHANGED <<providers, remembered, trusts>>,
         demoted' \subseteq Peer, attempts' \in 0..MaxAttempts,
         refused' \in 0..attempts'
  PROVE  TypedInv'
<1>1. EndAttempt /\ pc' = "idle" /\ result' = r /\ handle' = "closed"
  BY DEF Return
<1>2. AttemptOK'
  BY <1>1, EndedTyped DEF Working
<1>3. DiskOK' /\ CallOK'
  BY <1>1 DEF TypedInv, DiskOK, CallOK
<1> QED
  BY <1>2, <1>3 DEF TypedInv

(* An absent checkpoint reads as an empty one; a torn one is typed as well.*)
LEMMA NoCheckpointTyped == NoCheckpoint \in Checkpoints /\ Torn \in Checkpoints
<1>1. <<>> \in Seq(Nat) /\ {} \in SUBSET Nat
  OBVIOUS
<1> QED
  BY <1>1 DEF NoCheckpoint, Torn, Checkpoints

(* What the sink leaves is a content.                                      *)
LEMMA LeftTyped ==
  ASSUME NEW file \in Contents
  PROVE  LeftOnDisk(file) \in Contents
BY DEF LeftOnDisk, Contents

(* A local failure.                                                        *)
LEMMA TerminalTyped ==
  ASSUME TypedInv, Terminal
  PROVE  TypedInv'
<1>1. /\ artifact \in Contents /\ LeftOnDisk(staged) \in Contents
      /\ ckpt \in Checkpoints
      /\ verdicts \in Seq(Peer) /\ demoted \subseteq Peer
      /\ attempts \in 0..MaxAttempts /\ refused \in 0..attempts
  BY LeftTyped DEF TypedInv, DiskOK, CallOK
<1>2. /\ Return("fault") /\ faulted' = TRUE /\ staged' = LeftOnDisk(staged)
      /\ UNCHANGED <<artifact, ckpt, verdicts, providers, demoted, remembered,
                     trusts, attempts, refused>>
  BY DEF Terminal, callVars
<1> QED
  BY <1>1, <1>2, ReturnTyped

(* A demotion, recorded or not.                                            *)
LEMMA DemoteTyped ==
  ASSUME TypedInv, NEW proven, Demote(proven), pc \in Working, faulted' \in BOOLEAN
  PROVE  TypedInv'
<1>1. source \in Peer
  BY DEF TypedInv, AttemptOK, CallOK
<1>2. verdicts' \in Seq(Peer)
  <2>1. verdicts \in Seq(Peer) /\ <<>> \in Seq(Peer)
    BY DEF TypedInv, CallOK
  <2>2. /\ RecordVerdict(verdicts, source) \in Seq(Peer)
        /\ RecordVerdict(<<>>, source) \in Seq(Peer)
    BY <1>1, <2>1, RecordVerdictTyped
  <2> QED
    BY <2>1, <2>2 DEF Demote, Remembers
<1>3. /\ artifact' = artifact /\ ckpt' = ckpt
      /\ UNCHANGED <<providers, remembered, trusts, attempts, refused>>
      /\ demoted' = demoted \cup {source}
  BY DEF Demote
<1>4. demoted' \subseteq Peer
  BY <1>1, <1>3 DEF TypedInv, CallOK
<1>5. /\ artifact \in Contents /\ LeftOnDisk(staged) \in Contents
      /\ ckpt \in Checkpoints
      /\ attempts \in 0..MaxAttempts /\ refused \in 0..attempts
  BY LeftTyped DEF TypedInv, DiskOK, CallOK
<1>6. CASE GivesUp
  <2>1. Return("failed") /\ staged' = LeftOnDisk(staged)
    BY <1>6 DEF Demote
  <2> QED
    BY <1>2, <1>3, <1>4, <1>5, <2>1, ReturnTyped
<1>7. CASE ~GivesUp
  <2>1. EndAttempt /\ pc' = "ask" /\ UNCHANGED <<result, handle, staged>>
    BY <1>7 DEF Demote
  <2>2. AttemptOK'
    BY <2>1, EndedTyped DEF Working
  <2>3. attempts < MaxAttempts
    BY <1>5, <1>7, PullAssumption DEF GivesUp
  <2> QED
    BY <1>2, <1>3, <1>4, <2>1, <2>2, <2>3 DEF TypedInv, DiskOK, CallOK
<1> QED
  BY <1>6, <1>7

(* A round without a descriptor.                                           *)
LEMMA LostTyped ==
  ASSUME TypedInv, pc = "ask", LoseRound, faulted' \in BOOLEAN,
         refused' \in 0..attempts + 1
  PROVE  TypedInv'
<1>0. MaxAttempts \in Nat /\ MaxAttempts # 0
  BY PullAssumption
<1>1. /\ attempts' = attempts + 1 /\ attempts < MaxAttempts
      /\ UNCHANGED <<artifact, ckpt, verdicts, providers, demoted, remembered, trusts>>
  BY DEF LoseRound, TypedInv, CallOK
<1>2. attempts' \in 0..MaxAttempts /\ refused' \in 0..attempts'
  BY <1>0, <1>1 DEF TypedInv, CallOK
<1>3. CASE attempts' >= MaxAttempts
  <2>1. Return("failed") /\ staged' = LeftOnDisk(staged)
    BY <1>3 DEF LoseRound
  <2>2. /\ artifact \in Contents /\ LeftOnDisk(staged) \in Contents
        /\ ckpt \in Checkpoints
        /\ verdicts \in Seq(Peer) /\ demoted \subseteq Peer
    BY LeftTyped DEF TypedInv, DiskOK, CallOK
  <2> QED
    BY <1>1, <1>2, <2>1, <2>2, ReturnTyped
<1>4. CASE ~(attempts' >= MaxAttempts)
  <2>1. UNCHANGED <<pc, result, handle, staged, attemptVars>>
    BY <1>4 DEF LoseRound
  <2>2. attempts' < MaxAttempts
    BY <1>0, <1>2, <1>4
  <2> QED
    BY <1>1, <1>2, <2>1, <2>2 DEF TypedInv, DiskOK, CallOK, AttemptOK, attemptVars
<1> QED
  BY <1>3, <1>4

(* A step of the chunk loop: the disk and the call stay typed and the      *)
(* attempt keeps its source and descriptor.                                *)
LEMMA LoopTyped ==
  ASSUME TypedInv, DiskOK', pc' \in Working, pc \in Working \ {"plan"},
         UNCHANGED <<verdicts, result, demoted, remembered, trusts, attempts,
                     refused>>,
         faulted' \in BOOLEAN, providers \subseteq providers', providers' \subseteq Peer,
         UNCHANGED <<source, info>>,
         checkpointed' \subseteq Nat, done' \subseteq Nat,
         index' \in Nat \ {0}, fed' \in Contents, relocated' \in BOOLEAN,
         pc' = "save" => /\ index' <= Len(info.lens)
                         /\ Len(info.hashes[index']) = info.lens[index']
  PROVE  TypedInv'
<1>1. CallOK'
  <2>1. pc' # "ask" /\ pc' \in {"idle", "ask"} \cup Working
    BY DEF Working
  <2> QED
    BY <2>1 DEF TypedInv, CallOK
<1>2. AttemptOK'
  <2>1. source \in providers /\ info \in Answers(source) /\ WellFormed(info)
    BY DEF TypedInv, AttemptOK
  <2>2. source \in Peer \cup {"none"} /\ info \in Infos
    BY DEF TypedInv, AttemptOK
  <2> QED
    BY <2>1, <2>2 DEF AttemptOK
<1> QED
  BY <1>1, <1>2 DEF TypedInv

(* One case per action of the puller and of its environment.               *)
LEMMA TypedNext == TypedInv /\ [Next]_vars => TypedInv'
<1> SUFFICES ASSUME TypedInv, [Next]_vars PROVE TypedInv'
  OBVIOUS
<1> USE DEF disk, callVars, attemptVars
<1>0. MaxAttempts \in Nat /\ MaxAttempts # 0
  BY PullAssumption
<1>1. CASE Start
  <2>1. UNCHANGED <<disk, verdicts, attemptVars>> /\ pc' \in {"idle", "ask"}
        /\ providers' \subseteq Peer /\ result' \in {"failed", "none"}
        /\ faulted' \in BOOLEAN
    BY <1>1 DEF Start
  <2>2. LivePeers(verdicts) \subseteq Peer
    BY DEF TypedInv, CallOK, LivePeers
  <2>3. /\ remembered' \subseteq Peer /\ trusts' \in BOOLEAN /\ demoted' = {}
        /\ attempts' = 0 /\ refused' = 0
    BY <1>1, <2>2 DEF Start
  <2>4. CallOK'
    <3>1. 0 \in 0..MaxAttempts /\ 0 \in 0..0 /\ 0 < MaxAttempts
      BY <1>0
    <3> QED
      BY <2>1, <2>3, <3>1 DEF TypedInv, CallOK
  <2>5. pc' \notin Working
    BY <2>1 DEF Working
  <2>6. AttemptOK'
    BY <2>1, <2>5 DEF TypedInv, AttemptOK, Working
  <2> QED
    BY <2>1, <2>4, <2>6 DEF TypedInv, DiskOK
<1>2. CASE StopTrustingMemory
  BY <1>2 DEF StopTrustingMemory, TypedInv, DiskOK, CallOK, AttemptOK
<1>3. CASE Ask
  <2>1. PICK p \in UsableHolders(Excluded) : source' = p /\ info' \in Answers(p)
    BY <1>3 DEF Ask
  <2>2. p \in providers /\ p \in Peer
    BY DEF UsableHolders, TypedInv, CallOK
  <2>3. info' \in Infos
    BY <2>1, AnswersAreInfos
  <2>4. attempts' \in 0..MaxAttempts /\ refused' \in 0..attempts'
    BY <1>0, <1>3 DEF Ask, TypedInv, CallOK
  <2>5. DiskOK' /\ CallOK'
    BY <1>3, <2>4 DEF Ask, TypedInv, DiskOK, CallOK, Working
  <2>6. AttemptOK'
    <3>1. pc' = "plan" /\ UNCHANGED <<providers, index, checkpointed, done, fed, relocated>>
      BY <1>3 DEF Ask
    <3> QED
      BY <2>1, <2>2, <2>3, <3>1 DEF TypedInv, AttemptOK
  <2> QED
    BY <2>5, <2>6 DEF TypedInv
<1>4. CASE AskFails \/ AskRefused
  <2>1. pc = "ask" /\ LoseRound /\ refused' \in {refused, refused + 1}
    BY <1>4 DEF AskFails, AskRefused
  <2>2. faulted' \in BOOLEAN
    BY <1>4 DEF AskFails, AskRefused, TypedInv, CallOK
  <2>3. refused' \in 0..attempts + 1
    BY <2>1 DEF TypedInv, CallOK
  <2> QED
    BY <2>1, <2>2, <2>3, LostTyped
<1>5. CASE Malformed \/ PlanTooLarge
  BY <1>5, DemoteTyped DEF Malformed, PlanTooLarge, Working, TypedInv, CallOK
<1>6. CASE Plan
  <2>1. /\ pc = "plan" /\ pc' = "chunk" /\ WellFormed(info)
        /\ index' = 1 /\ done' = {} /\ fed' = <<>> /\ relocated' = FALSE
        /\ UNCHANGED <<artifact, ckpt, verdicts, result, callVars, source, info, faulted>>
    BY <1>6 DEF Plan
  <2>2. checkpointed' \in {ckpt.done, {}} /\ staged' \in {staged, <<>>}
        /\ handle' \in {handle, Opened}
    BY <1>6 DEF Plan
  <2>3. DiskOK'
    <3>1. staged' \in Contents
      <4>1. <<>> \in Contents /\ staged \in Contents
        BY DEF TypedInv, DiskOK, Contents
      <4> QED
        BY <2>2, <4>1
    <3>2. handle' \in {"closed", "open", "orphan"}
      BY <2>2 DEF TypedInv, DiskOK, Opened
    <3> QED
      BY <2>1, <3>1, <3>2 DEF TypedInv, DiskOK
  <2>4. CallOK'
    BY <2>1 DEF TypedInv, CallOK, Working
  <2>5. AttemptOK'
    <3>1. checkpointed' \subseteq Nat
      BY <2>2 DEF TypedInv, DiskOK, Checkpoints
    <3>2. index' \in Nat \ {0} /\ fed' \in Contents
      BY <2>1 DEF Contents
    <3>3. source \in providers /\ info \in Answers(source) /\ source \in Peer /\ info \in Infos
      BY <2>1 DEF TypedInv, AttemptOK, CallOK, Working
    <3> QED
      BY <2>1, <3>1, <3>2, <3>3 DEF AttemptOK
  <2> QED
    BY <2>3, <2>4, <2>5 DEF TypedInv
<1>7. ASSUME InLoop
      PROVE  /\ index \in 1..Len(info.lens) /\ info \in Infos /\ WellFormed(info)
             /\ pc \in Working \ {"plan"} /\ index + 1 \in Nat \ {0}
  <2>1. pc = "chunk" /\ index <= Len(info.lens)
    BY <1>7 DEF InLoop
  <2>2. info \in Infos /\ WellFormed(info) /\ index \in Nat /\ index # 0
    BY <2>1 DEF TypedInv, AttemptOK, Working
  <2>3. Len(info.lens) \in Nat
    BY <2>2 DEF Infos
  <2>4. index \in 1..Len(info.lens) /\ index + 1 \in Nat \ {0}
    BY <2>1, <2>2, <2>3
  <2> QED
    BY <2>1, <2>2, <2>4 DEF Working
<1>8. CASE ResumeChunk
  <2>1. /\ InLoop /\ ReadBack(index)
        /\ fed' = fed \o ReadAt(staged, Offset(info, index), info.lens[index])
        /\ handle' = Opened
        /\ index' = index + 1 /\ done' = done \cup {index} /\ relocated' = FALSE
        /\ UNCHANGED <<artifact, staged, ckpt, verdicts, pc, result, callVars,
                       source, info, checkpointed, faulted>>
    BY <1>8 DEF ResumeChunk, NextChunk
  <2>2. /\ ReadAt(staged, Offset(info, index), info.lens[index]) = info.hashes[index]
        /\ info.hashes[index] \in Contents
    BY <1>7, <2>1, ChunkTyped DEF ReadBack, ChunkStaged
  <2>3. fed' \in Contents /\ done' \subseteq Nat
    <3>1. fed \in Contents /\ done \subseteq Nat /\ index \in Nat
      BY DEF TypedInv, AttemptOK
    <3>2. fed' = fed \o info.hashes[index]
      BY <2>1, <2>2
    <3>3. fed' \in Contents
      BY <2>2, <3>1, <3>2 DEF Contents
    <3> QED
      BY <2>1, <3>1, <3>3
  <2>4. DiskOK'
    BY <2>1 DEF TypedInv, DiskOK, Opened
  <2>5. providers \subseteq Peer /\ checkpointed \subseteq Nat /\ faulted \in BOOLEAN
    BY DEF TypedInv, CallOK, AttemptOK
  <2>6. pc' # "save" /\ pc' \in Working
    BY <1>7, <2>1 DEF InLoop
  <2> QED
    BY <1>7, <2>1, <2>3, <2>4, <2>5, <2>6, LoopTyped
<1>9. CASE FetchChunk
  <2>1. /\ InLoop /\ Servable(index) /\ pc' = "save"
        /\ staged' = WriteAt(staged, Offset(info, index), info.hashes[index])
        /\ handle' = (IF handle = "closed" THEN "open" ELSE handle)
        /\ UNCHANGED <<artifact, ckpt, verdicts, result, callVars, attemptVars, faulted>>
    BY <1>9 DEF FetchChunk
  <2>2. staged' \in Contents
    <3>1. Offset(info, index) \in Nat /\ info.hashes[index] \in Contents
      BY <1>7, <2>1, ChunkTyped
    <3> QED
      BY <2>1, <3>1, WriteAtTyped DEF TypedInv, DiskOK
  <2>3. DiskOK'
    BY <2>1, <2>2 DEF TypedInv, DiskOK
  <2>4. /\ providers \subseteq Peer /\ checkpointed \subseteq Nat /\ faulted \in BOOLEAN
        /\ done \subseteq Nat /\ fed \in Contents /\ relocated \in BOOLEAN
        /\ index \in Nat \ {0}
    BY DEF TypedInv, CallOK, AttemptOK
  <2>5. /\ index <= Len(info.lens) /\ Len(info.hashes[index]) = info.lens[index]
        /\ pc' \in Working
    BY <2>1 DEF InLoop, Servable, Working
  <2> QED
    BY <1>7, <2>1, <2>3, <2>4, <2>5, LoopTyped
<1>10. CASE SaveChunk
  <2>1. /\ pc = "save" /\ pc' = "chunk"
        /\ ckpt' = [lens |-> info.lens, done |-> done \cup {index}, torn |-> FALSE]
        /\ fed' = fed \o info.hashes[index]
        /\ index' = index + 1 /\ done' = done \cup {index} /\ relocated' = FALSE
        /\ UNCHANGED <<artifact, staged, handle, verdicts, result, callVars, source,
                       info, checkpointed, faulted>>
    BY <1>10 DEF SaveChunk, NextChunk
  <2>2. /\ info \in Infos /\ WellFormed(info) /\ index \in Nat /\ index # 0
        /\ index <= Len(info.lens) /\ fed \in Contents /\ done \subseteq Nat
    BY <2>1 DEF TypedInv, AttemptOK, Working
  <2>3. index \in 1..Len(info.lens) /\ index + 1 \in Nat \ {0} /\ info.lens \in Seq(Nat)
    BY <2>2 DEF Infos
  <2>4. info.hashes[index] \in Contents
    BY <2>2, <2>3, ChunkTyped
  <2>5. fed' \in Contents /\ done' \subseteq Nat
    BY <2>1, <2>2, <2>4 DEF Contents
  <2>6. DiskOK'
    BY <2>1, <2>2, <2>3 DEF TypedInv, DiskOK, Checkpoints
  <2>7. providers \subseteq Peer /\ checkpointed \subseteq Nat /\ faulted \in BOOLEAN
    BY DEF TypedInv, CallOK, AttemptOK
  <2>8. pc' # "save" /\ pc' \in Working /\ pc \in Working \ {"plan"}
    BY <2>1 DEF Working
  <2> QED
    BY <2>1, <2>3, <2>5, <2>6, <2>7, <2>8, LoopTyped
<1>11. CASE Relocate
  <2>1. /\ InLoop /\ relocated' = TRUE
        /\ faulted' = (faulted \/ HonestlyServable(index))
        /\ UNCHANGED <<disk, verdicts, pc, result, demoted, remembered, trusts,
                       attempts, refused, source, info, index, checkpointed,
                       done, fed>>
    BY <1>11 DEF Relocate
  <2>2. PICK fresh \in SUBSET Peer : providers' = providers \cup fresh
    BY <1>11 DEF Relocate
  <2>3. /\ providers \subseteq providers' /\ providers' \subseteq Peer
        /\ faulted' \in BOOLEAN
    BY <2>1, <2>2 DEF TypedInv, CallOK
  <2>4. DiskOK'
    BY <2>1 DEF TypedInv, DiskOK
  <2>5. /\ checkpointed \subseteq Nat /\ done \subseteq Nat /\ fed \in Contents
        /\ index \in Nat \ {0}
    BY DEF TypedInv, AttemptOK
  <2>6. pc' # "save" /\ pc' \in Working
    BY <1>7, <2>1 DEF InLoop
  <2> QED
    BY <1>7, <2>1, <2>3, <2>4, <2>5, <2>6, LoopTyped
<1>12. CASE ChunkExhausted
  <2>1. faulted' \in BOOLEAN /\ Demote(FALSE)
    BY <1>12 DEF ChunkExhausted, TypedInv, CallOK
  <2>2. pc \in Working
    BY <1>12 DEF ChunkExhausted, InLoop, Working
  <2> QED
    BY <2>1, <2>2, DemoteTyped
<1>13. CASE HashGate \/ AnchorGate
  <2>1. pc \in {"chunk", "anchor"} /\ faulted' = faulted /\ faulted \in BOOLEAN
        /\ pc \in Working /\ pc # "plan"
    BY <1>13 DEF HashGate, AnchorGate, TypedInv, CallOK, Working
  <2>2. CASE Demote(TRUE)
    BY <2>1, <2>2, DemoteTyped
  <2>3. CASE /\ pc' \in {"anchor", "promote"}
             /\ UNCHANGED <<disk, verdicts, result, callVars, attemptVars>>
    BY <2>1, <2>3 DEF TypedInv, DiskOK, CallOK, AttemptOK, Working
  <2> QED
    BY <1>13, <2>2, <2>3 DEF HashGate, AnchorGate
<1>14. CASE AnchorUnavailable \/ LocalFault
  BY <1>14, TerminalTyped DEF AnchorUnavailable, LocalFault
<1>15. CASE Promote
  <2>1. /\ pc = "promote" /\ Len(staged) >= info.total
        /\ artifact' = Slice(staged, 0, info.total) /\ staged' = <<>>
        /\ handle' = "closed" /\ pc' = "clear"
        /\ UNCHANGED <<ckpt, verdicts, result, callVars, attemptVars, faulted>>
    BY <1>15 DEF Promote
  <2>2. info.total \in Nat /\ staged \in Contents
    BY DEF TypedInv, DiskOK, AttemptOK, Infos
  <2>3. artifact' \in Contents
    <3>1. 0 + info.total <= Len(staged)
      BY <2>1, <2>2 DEF Contents
    <3> QED
      BY <2>1, <2>2, <3>1, SliceTyped
  <2>4. DiskOK'
    BY <2>1, <2>3 DEF TypedInv, DiskOK, Contents
  <2>5. CallOK' /\ AttemptOK'
    BY <2>1 DEF TypedInv, CallOK, AttemptOK, Working
  <2> QED
    BY <2>4, <2>5 DEF TypedInv
<1>16. CASE PromotionRefused
  <2>1. /\ ckpt' \in {ckpt, NoCheckpoint}
        /\ staged' \in {<<>>, LeftOnDisk(Truncated(staged, info.total))}
        /\ Return("fault")
        /\ faulted' = (faulted \/ (handle # "orphan" /\ Len(staged) >= info.total))
        /\ UNCHANGED <<artifact, verdicts, callVars>>
    BY <1>16 DEF PromotionRefused
  <2>2. Truncated(staged, info.total) \in Contents
    <3>1. info.total \in Nat /\ staged \in Seq(Nat)
      BY DEF TypedInv, DiskOK, AttemptOK, Infos, Contents
    <3> QED
      BY <3>1 DEF Truncated, Contents
  <2>3. staged' \in Contents
    <3>1. <<>> \in Contents
      BY DEF Contents
    <3> QED
      BY <2>1, <2>2, <3>1, LeftTyped
  <2>4. ckpt' \in Checkpoints
    BY <2>1, NoCheckpointTyped DEF TypedInv, DiskOK
  <2>5. /\ artifact' \in Contents /\ verdicts' \in Seq(Peer) /\ faulted' \in BOOLEAN
        /\ demoted' \subseteq Peer /\ attempts' \in 0..MaxAttempts
        /\ refused' \in 0..attempts'
        /\ UNCHANGED <<providers, remembered, trusts>>
    BY <2>1 DEF TypedInv, DiskOK, CallOK
  <2> QED
    BY <2>1, <2>3, <2>4, <2>5, ReturnTyped
<1>17. CASE Clear \/ Crash \/ SaveTorn \/ LoadFails
  <2>1. /\ ckpt' \in {ckpt, NoCheckpoint, Torn}
        /\ staged' \in {staged, LeftOnDisk(staged)}
        /\ \E r \in {"ok", "fault", "crashed"} : Return(r)
        /\ faulted' \in {faulted, TRUE}
        /\ UNCHANGED <<artifact, verdicts, callVars>>
    BY <1>17 DEF Clear, Crash, SaveTorn, LoadFails
  <2>2. staged' \in Contents
    BY <2>1, LeftTyped DEF TypedInv, DiskOK
  <2>3. ckpt' \in Checkpoints
    BY <2>1, NoCheckpointTyped DEF TypedInv, DiskOK
  <2>4. /\ artifact' \in Contents /\ verdicts' \in Seq(Peer) /\ faulted' \in BOOLEAN
        /\ demoted' \subseteq Peer /\ attempts' \in 0..MaxAttempts
        /\ refused' \in 0..attempts'
        /\ UNCHANGED <<providers, remembered, trusts>>
    BY <2>1 DEF TypedInv, DiskOK, CallOK
  <2> QED
    BY <2>1, <2>2, <2>3, <2>4, ReturnTyped
<1>18. CASE Reap
  <2>1. /\ handle' \in {handle, "orphan"} /\ staged' \in {staged, <<>>}
        /\ faulted' = (pc # "idle" \/ faulted)
        /\ UNCHANGED <<artifact, ckpt, verdicts, pc, result, callVars, attemptVars>>
    BY <1>18 DEF Reap
  <2>2. faulted' \in BOOLEAN /\ <<>> \in Contents
    BY <2>1 DEF TypedInv, CallOK, Contents
  <2> QED
    BY <2>1, <2>2 DEF TypedInv, DiskOK, CallOK, AttemptOK
<1>19. CASE BitRot
  <2>1. PICK k \in DOMAIN staged : staged' = [staged EXCEPT ![k] = Rot]
    BY <1>19 DEF BitRot
  <2>2. staged' \in Contents
    BY <2>1, PullAssumption DEF TypedInv, DiskOK, Contents
  <2> QED
    BY <1>19, <2>2 DEF BitRot, TypedInv, DiskOK, CallOK, AttemptOK
<1>20. CASE VerdictExpires
  <2>1. verdicts' \in Seq(Peer)
    BY <1>20 DEF VerdictExpires, TypedInv, CallOK
  <2> QED
    BY <1>20, <2>1 DEF VerdictExpires, TypedInv, DiskOK, CallOK, AttemptOK
<1>21. CASE UNCHANGED vars
  BY <1>21 DEF vars, TypedInv, DiskOK, CallOK, AttemptOK
<1> QED
  BY <1>1, <1>2, <1>3, <1>4, <1>5, <1>6, <1>8, <1>9, <1>10, <1>11, <1>12, <1>13,
     <1>14, <1>15, <1>16, <1>17, <1>18, <1>19, <1>20, <1>21 DEF Next, PullStep

(* An idle downloader is typed.                                            *)
LEMMA TypedInit == Init => TypedInv
<1> SUFFICES ASSUME Init PROVE TypedInv
  OBVIOUS
<1>1. <<>> \in Contents /\ <<>> \in Seq(Nat) /\ <<>> \in Seq(Contents) /\ <<>> \in Seq(Peer)
  BY DEF Contents
<1>2. NoInfo \in Infos
  BY <1>1 DEF NoInfo, Infos
<1>3. DiskOK
  BY <1>1, NoCheckpointTyped DEF Init, DiskOK
<1>4. CallOK
  <2>1. 0 \in 0..MaxAttempts /\ 0 \in 0..0
    BY PullAssumption
  <2> QED
    BY <1>1, <2>1 DEF Init, CallOK
<1>5. AttemptOK
  <2>1. index \in Nat \ {0} /\ pc = "idle" /\ "idle" \notin Working
    BY DEF Init, Working
  <2> QED
    BY <1>1, <1>2, <2>1 DEF Init, AttemptOK, Working
<1> QED
  BY <1>3, <1>4, <1>5 DEF TypedInv

(* So the invariant holds of every behaviour.                              *)
LEMMA PullTyped == Spec => []TypedInv
BY TypedInit, TypedNext, PTL DEF Spec

(* The state of ModuleDownloader::download keeps its type, whatever a      *)
(* descriptor declares: no offset of an accepted one leaves the natural    *)
(* numbers, no read-back reaches past the staging file, and no round goes  *)
(* beyond MAX_DESCRIPTOR_ATTEMPTS.                                         *)
THEOREM PullTypeOK == Spec => []TypeOK
<1>1. TypedInv => TypeOK
  <2> SUFFICES ASSUME TypedInv PROVE TypeOK
    OBVIOUS
  <2>2. refused \in 0..MaxAttempts
    BY PullAssumption DEF TypedInv, CallOK
  <2> QED
    BY <2>2 DEF TypedInv, DiskOK, CallOK, AttemptOK, TypeOK, Working, Checkpoints
<1> QED
  BY PullTyped, <1>1, PTL

-----------------------------------------------------------------------------
(* Who is branded.  The hasher of an attempt on an honest descriptor has   *)
(* absorbed exactly the part of the module before the next chunk, whatever *)
(* was staged, checkpointed or read back on the way.                       *)
FedInv ==
  pc \in {"chunk", "save"} /\ source \in Honest =>
    /\ index <= Len(info.lens) + 1
    /\ fed = Slice(Truth, 0, Offset(info, index))

(* An attempt on an honest source has an honest descriptor.                *)
LEMMA HonestSource ==
  ASSUME TypedInv, pc \in Working, source \in Honest
  PROVE  /\ info \in HonestInfos /\ info \in Infos
         /\ WithinLimits(info) \/ pc # "plan" => WellFormed(info)
         /\ Len(info.lens) \in Nat /\ info.lens \in Seq(Nat)
         /\ Truth \in Contents /\ Len(Truth) \in Nat
         /\ SumTo(info.lens, Len(info.lens)) = Len(Truth)
<1>1. info \in HonestInfos
  BY DEF TypedInv, AttemptOK, Answers
<1>2. /\ info \in Infos /\ info.total = Len(Truth)
      /\ SumTo(info.lens, Len(info.lens)) = Len(Truth)
  BY <1>1, HonestDescribes
<1>3. info.lens \in Seq(Nat) /\ Truth \in Contents
  BY <1>2, PullAssumption DEF Infos
<1>4. Len(info.lens) \in Nat /\ Len(Truth) \in Nat
  BY <1>3 DEF Contents
<1>5. WithinLimits(info) \/ pc # "plan" => WellFormed(info)
  BY <1>1, HonestDescribes DEF TypedInv, AttemptOK
<1> QED
  BY <1>1, <1>2, <1>3, <1>4, <1>5

(* The chunk that is absorbed is the next part of the module.              *)
LEMMA HonestFeeds ==
  ASSUME TypedInv, FedInv, pc \in {"chunk", "save"}, source \in Honest,
         index <= Len(info.lens)
  PROVE  /\ index + 1 <= Len(info.lens) + 1
         /\ fed \o info.hashes[index] = Slice(Truth, 0, Offset(info, index + 1))
<1>1. /\ info \in HonestInfos /\ info \in Infos /\ WellFormed(info)
      /\ Len(info.lens) \in Nat /\ Truth \in Contents
  BY HonestSource DEF Working
<1>2. index \in Nat /\ index # 0
  BY DEF TypedInv, AttemptOK
<1>3. index \in 1..Len(info.lens)
  BY <1>1, <1>2
<1>4. /\ info.hashes[index] = Slice(Truth, Offset(info, index), info.lens[index])
      /\ Offset(info, index) + info.lens[index] <= Len(Truth)
  BY <1>1, <1>3, HonestDescribes
<1>5. /\ Offset(info, index) \in Nat /\ info.lens[index] \in Nat
      /\ SumTo(info.lens, index) = Offset(info, index) + info.lens[index]
  BY <1>1, <1>3, ChunkTyped
<1>6. Offset(info, index + 1) = Offset(info, index) + info.lens[index]
  <2>1. (index + 1) - 1 = index
    BY <1>2
  <2> QED
    BY <1>5, <2>1 DEF Offset
<1>7. fed = Slice(Truth, 0, Offset(info, index))
  BY DEF FedInv
<1>8. index + 1 <= Len(info.lens) + 1
  BY <1>1, <1>2
<1> QED
  BY <1>1, <1>4, <1>5, <1>6, <1>7, <1>8, SliceJoin

(* So the module hash of an honest descriptor is met at the end.           *)
LEMMA HonestHashes ==
  ASSUME TypedInv, FedInv, pc = "chunk", source \in Honest, index > Len(info.lens)
  PROVE  fed = info.module
<1>1. /\ info \in HonestInfos /\ Len(info.lens) \in Nat /\ Truth \in Contents
      /\ Len(Truth) \in Nat /\ SumTo(info.lens, Len(info.lens)) = Len(Truth)
  BY HonestSource DEF Working
<1>2. index \in Nat /\ index <= Len(info.lens) + 1
  BY DEF TypedInv, AttemptOK, FedInv
<1>3. index - 1 = Len(info.lens)
  BY <1>1, <1>2
<1>4. fed = Slice(Truth, 0, Len(Truth))
  BY <1>1, <1>3 DEF FedInv, Offset
<1>5. Slice(Truth, 0, Len(Truth)) = Truth
  <2>1. SubSeq(Truth, 1, Len(Truth)) = Truth
    BY <1>1 DEF Contents
  <2>2. 0 + 1 = 1 /\ 0 + Len(Truth) = Len(Truth)
    BY <1>1
  <2> QED
    BY <2>1, <2>2 DEF Slice
<1> QED
  BY <1>1, <1>4, <1>5, HonestDescribes

(* What the anchor verifier reads through an honest descriptor is the      *)
(* module: each byte lies in a chunk, and each chunk was hashed again.     *)
LEMMA HonestAnchored ==
  ASSUME TypedInv, pc = "anchor", source \in Honest, ReaderSees
  PROVE  Anchored
<1> DEFINE n == Len(info.lens)
<1>1. /\ info \in HonestInfos /\ info \in Infos /\ WellFormed(info)
      /\ n \in Nat /\ info.lens \in Seq(Nat)
      /\ Truth \in Contents /\ Len(Truth) \in Nat /\ SumTo(info.lens, n) = Len(Truth)
  BY HonestSource DEF Working
<1>2. info.total = Len(Truth)
  BY <1>1, HonestDescribes
<1>3. ASSUME NEW k \in 1..Len(Truth)
      PROVE  staged[k] = Truth[k]
  <2>1. \A i : SumTo(info.lens, i) = Sums(info.lens)[i]
    BY DEF SumTo, Sums
  <2>2. PICK i \in 1..n : Sums(info.lens)[i - 1] < k /\ k <= Sums(info.lens)[i]
    <3>1. n \in 0..Len(info.lens) /\ k \in 1..Sums(info.lens)[n]
      BY <1>1, <2>1
    <3> QED
      BY <1>1, <3>1, ByteInChunk
  <2> DEFINE off == Offset(info, i)
             len == info.lens[i]
  <2>3. /\ off \in Nat /\ len \in Nat
        /\ SumTo(info.lens, i) = off + len
        /\ info.hashes[i] = Slice(Truth, off, len)
        /\ off + len <= Len(Truth)
    BY <1>1, HonestDescribes, ChunkTyped
  <2>4. off < k /\ k <= off + len
    BY <2>1, <2>2, <2>3 DEF Offset
  <2>5. i \in DOMAIN info.lens
    BY <1>1
  <2>6. /\ off + len <= Len(staged)
        /\ Slice(staged, off, len) = info.hashes[i]
    BY <2>5 DEF ReaderSees, ChunkStaged, Readable, ReadAt
  <2>7. staged \in Contents
    BY DEF TypedInv, DiskOK
  <2> HIDE DEF off, len
  <2>8. k - off \in 1..len /\ off + (k - off) = k
    BY <2>3, <2>4
  <2>9. /\ Slice(staged, off, len)[k - off] = staged[off + (k - off)]
        /\ Slice(Truth, off, len)[k - off] = Truth[off + (k - off)]
    BY <1>1, <2>3, <2>6, <2>7, <2>8, SliceTyped
  <2> QED
    BY <2>3, <2>6, <2>8, <2>9
<1>4. Slice(staged, 0, Len(Truth)) = [k \in 1..Len(Truth) |-> staged[k]]
  <2>1. SubSeq(staged, 0 + 1, 0 + Len(Truth))
          = [k \in 1..(0 + Len(Truth)) - (0 + 1) + 1 |-> staged[k + (0 + 1) - 1]]
    BY <1>1
  <2>2. (0 + Len(Truth)) - (0 + 1) + 1 = Len(Truth)
    BY <1>1
  <2>3. \A k \in 1..Len(Truth) : k + (0 + 1) - 1 = k
    OBVIOUS
  <2> QED
    BY <2>1, <2>2, <2>3 DEF Slice
<1>5. Truth = [k \in 1..Len(Truth) |-> Truth[k]]
  BY <1>1 DEF Contents
<1> QED
  BY <1>2, <1>3, <1>4, <1>5 DEF Anchored

(* A step that leaves the loop, or does not feed.                          *)
LEMMA FedKept ==
  ASSUME FedInv,
         \/ pc' \notin {"chunk", "save"}
         \/ pc \in {"chunk", "save"} /\ UNCHANGED <<source, info, index, fed>>
  PROVE  FedInv'
BY ZenonT(40) DEF FedInv, Offset, SumTo, Slice

(* One case per action of the puller and of its environment.               *)
LEMMA FedNext == TypedInv /\ FedInv /\ [Next]_vars => FedInv'
<1> SUFFICES ASSUME TypedInv, FedInv, [Next]_vars PROVE FedInv'
  OBVIOUS
<1> USE DEF disk, callVars, attemptVars
<1>1. CASE Start \/ StopTrustingMemory \/ Ask \/ Promote
  BY <1>1, FedKept DEF Start, StopTrustingMemory, Ask, Promote
<1>2. CASE AskFails \/ AskRefused
  <2>1. pc' \in {"ask", "idle"}
    BY <1>2 DEF AskFails, AskRefused, LoseRound, Return
  <2> QED
    BY <2>1, FedKept
<1>3. CASE Malformed \/ PlanTooLarge \/ ChunkExhausted
  BY <1>3, FedKept DEF Malformed, PlanTooLarge, ChunkExhausted, Demote, Return
<1>4. CASE Plan
  <2>1. /\ pc = "plan" /\ index' = 1 /\ fed' = <<>>
        /\ UNCHANGED <<source, info>>
    BY <1>4 DEF Plan
  <2>2. ASSUME source \in Honest
        PROVE  1 <= Len(info.lens) + 1 /\ <<>> = Slice(Truth, 0, Offset(info, 1))
    <3>1. Len(info.lens) \in Nat /\ info.lens \in Seq(Nat) /\ Truth \in Seq(Nat)
      BY <2>1, <2>2, HonestSource DEF Working, Contents
    <3>2. Offset(info, 1) = 0
      BY <3>1, Spans DEF Offset
    <3>3. SubSeq(Truth, 1, 0) = <<>>
      BY <3>1
    <3> QED
      BY <3>1, <3>2, <3>3 DEF Slice
  <2> QED
    BY <2>1, <2>2 DEF FedInv, Offset
<1>5. CASE ResumeChunk \/ SaveChunk
  <2>1. /\ pc \in {"chunk", "save"} /\ pc' = "chunk"
        /\ index' = index + 1
        /\ UNCHANGED <<source, info>>
    BY <1>5 DEF ResumeChunk, SaveChunk, InLoop, NextChunk
  <2>2. index <= Len(info.lens)
    BY <1>5 DEF ResumeChunk, InLoop, SaveChunk, TypedInv, AttemptOK
  <2>3. fed' = fed \o info.hashes[index]
    BY <1>5 DEF ResumeChunk, ReadBack, ChunkStaged, SaveChunk
  <2> QED
    BY <2>1, <2>2, <2>3, HonestFeeds DEF FedInv, Offset
<1>6. CASE FetchChunk \/ Relocate
  BY <1>6, FedKept DEF FetchChunk, Relocate, InLoop
<1>7. CASE HashGate \/ AnchorGate
  BY <1>7, FedKept DEF HashGate, AnchorGate, Demote, Return
<1>8. CASE PromotionRefused \/ Clear \/ Crash \/ LoadFails \/ SaveTorn
  BY <1>8, FedKept
     DEF PromotionRefused, Clear, Crash, LoadFails, SaveTorn, Return
<1>9. CASE AnchorUnavailable \/ LocalFault
  BY <1>9, FedKept DEF AnchorUnavailable, LocalFault, Terminal, Return
<1>10. CASE Reap
  BY <1>10 DEF Reap, FedInv, Offset
<1>11. CASE BitRot \/ VerdictExpires
  BY <1>11, FedKept DEF BitRot, VerdictExpires
<1>12. CASE UNCHANGED vars
  BY <1>12 DEF vars, FedInv, Offset
<1> QED
  BY <1>1, <1>2, <1>3, <1>4, <1>5, <1>6, <1>7, <1>8, <1>9, <1>10, <1>11,
     <1>12 DEF Next, PullStep

(* Nothing is fed at first.                                                *)
LEMMA FedInit == Init => FedInv
BY DEF Init, FedInv

(* So the hasher is right in every behaviour.                              *)
LEMMA PullFed == Spec => []FedInv
BY FedInit, FedNext, PullTyped, PTL DEF Spec

(* record_verdict remembers nobody but the holder recorded and some of     *)
(* those remembered before.                                                *)
LEMMA OneVerdict ==
  ASSUME NEW vs \in Seq(Peer), NEW p \in Peer
  PROVE  LivePeers(RecordVerdict(vs, p)) \subseteq LivePeers(vs) \cup {p}
<1> DEFINE P == LivePeers(vs) \cup {p}
<1>1. vs \in Seq(P)
  <2>1. \A i \in 1..Len(vs) : vs[i] \in P
    BY DEF LivePeers
  <2> QED
    BY <2>1
<1>2. p \in P
  OBVIOUS
<1> HIDE DEF P
<1>3. RecordVerdict(vs, p) \in Seq(P)
  BY <1>1, <1>2, RecordVerdictTyped
<1> QED
  BY <1>3 DEF P, LivePeers

(* Whom a step brands.                                                     *)
BrandsFairly ==
  \A p \in Honest :
    p \in LivePeers(verdicts') \ LivePeers(verdicts)
      => source = p /\ ~WithinLimits(info)

(* A demotion brands at most the source of the descriptor, and nobody      *)
(* unless the descriptor was proven false.                                 *)
LEMMA DemoteBrands ==
  ASSUME TypedInv, pc \in Working, NEW proven \in BOOLEAN, Demote(proven),
         proven => source \notin Honest \/ ~WithinLimits(info)
  PROVE  BrandsFairly
<1>1. verdicts \in Seq(Peer) /\ source \in Peer
  BY DEF TypedInv, CallOK, AttemptOK
<1>2. CASE ~proven
  BY <1>2 DEF Demote, Remembers, BrandsFairly
<1>3. CASE proven
  <2>1. LivePeers(<<>>) = {} /\ <<>> \in Seq(Peer)
    BY DEF LivePeers
  <2>2. LivePeers(verdicts') \subseteq LivePeers(verdicts) \cup {source}
    BY <1>1, <2>1, OneVerdict DEF Demote, Remembers
  <2> QED
    BY <1>3, <2>2 DEF BrandsFairly
<1> QED
  BY <1>2, <1>3

(* Each gate that brands, on an honest descriptor and on a liar's.         *)
LEMMA BrandNext == TypedInv /\ FedInv /\ [Next]_vars => BrandsFairly
<1> SUFFICES ASSUME TypedInv, FedInv, [Next]_vars PROVE BrandsFairly
  OBVIOUS
<1> USE DEF disk, callVars, attemptVars
<1>1. CASE verdicts' = verdicts
  BY <1>1 DEF BrandsFairly
<1>2. CASE Malformed
  <2>1. pc \in Working /\ ~WellFormed(info) /\ Demote(TRUE)
    BY <1>2 DEF Malformed, Working
  <2>2. source \notin Honest \/ ~WithinLimits(info)
    BY <2>1, HonestSource
  <2> QED
    BY <2>1, <2>2, DemoteBrands
<1>3. CASE PlanTooLarge \/ ChunkExhausted
  <2>1. pc \in Working /\ Demote(FALSE)
    BY <1>3 DEF PlanTooLarge, ChunkExhausted, InLoop, Working
  <2> QED
    BY <2>1, DemoteBrands
<1>4. CASE HashGate /\ verdicts' # verdicts
  <2>1. /\ pc \in Working /\ pc = "chunk" /\ index > Len(info.lens)
        /\ fed # info.module /\ Demote(TRUE)
    BY <1>4 DEF HashGate, Working
  <2>2. source \notin Honest
    BY <2>1, HonestHashes
  <2> QED
    BY <2>1, <2>2, DemoteBrands
<1>5. CASE AnchorGate /\ verdicts' # verdicts
  <2>1. pc \in Working /\ pc = "anchor" /\ ReaderSees /\ ~Anchored /\ Demote(TRUE)
    BY <1>5 DEF AnchorGate, Working
  <2>2. source \notin Honest
    BY <2>1, HonestAnchored
  <2> QED
    BY <2>1, <2>2, DemoteBrands
<1>6. CASE VerdictExpires
  <2>1. verdicts \in Seq(Peer) /\ verdicts # <<>> /\ verdicts' = Tail(verdicts)
    BY <1>6 DEF VerdictExpires, TypedInv, CallOK
  <2>2. LivePeers(verdicts') \subseteq LivePeers(verdicts)
    BY <2>1 DEF LivePeers
  <2> QED
    BY <2>2 DEF BrandsFairly
<1>7. CASE \/ Start \/ StopTrustingMemory \/ Ask \/ AskFails \/ AskRefused
           \/ LoadFails \/ Plan \/ ResumeChunk \/ FetchChunk \/ SaveChunk
           \/ SaveTorn \/ Relocate \/ AnchorUnavailable \/ Promote
           \/ PromotionRefused \/ Clear \/ LocalFault \/ Crash \/ Reap \/ BitRot
           \/ UNCHANGED vars
  <2>1. verdicts' = verdicts
    BY <1>7
       DEF Start, StopTrustingMemory, Ask, AskFails, AskRefused, LoseRound,
           LoadFails, Plan, ResumeChunk, FetchChunk, SaveChunk, SaveTorn,
           Relocate, AnchorUnavailable, Terminal, Promote, PromotionRefused,
           Clear, LocalFault, Crash, Reap, BitRot, vars
  <2> QED
    BY <1>1, <2>1
<1> QED
  BY <1>1, <1>2, <1>3, <1>4, <1>5, <1>6, <1>7 DEF Next, PullStep

(* #1611: whatever liars staged before, wherever a crash or a sweep hit    *)
(* and whatever rotted, record_bad_descriptor names an honest holder only  *)
(* when from_info finds its descriptor beyond the limits, because no later *)
(* gate of pull_with_descriptor fails on it.                               *)
THEOREM HonestSpared == Spec => HonestNeverBranded
<1>1. TypedInv /\ FedInv /\ [Next]_vars
        => [\A p \in Honest :
              p \in LivePeers(verdicts') \ LivePeers(verdicts)
                => source = p /\ ~WithinLimits(info)]_vars
  BY BrandNext DEF BrandsFairly
<1> QED
  BY <1>1, PullTyped, PullFed, PTL DEF Spec, HonestNeverBranded

-----------------------------------------------------------------------------
(* What a call without a fault spends.  Every round so far was lost to a   *)
(* liar of its own or to a refusal, and some honest holder has not been    *)
(* asked: it is known, it was never demoted and memory does not exclude it.*)
Unfaulted ==
  /\ (providers \cap Honest) \ remembered # {}
  /\ demoted \subseteq providers \ Honest
  /\ attempts = Cardinality(demoted) + refused + (IF pc = "ask" THEN 0 ELSE 1)
  /\ pc # "ask" => source \notin demoted
  /\ handle # "orphan"
  /\ pc = "promote" => Len(staged) >= info.total

AccountInv ==
  /\ pc = "idle" => handle = "closed"
  /\ pc # "idle" /\ ~faulted => Unfaulted
  /\ LiarsCannotDeny

(* A fault is charged to nobody.                                           *)
LEMMA FaultAccounted ==
  ASSUME AccountInv, faulted',
         pc' = "idle" => handle' = "closed"
  PROVE  AccountInv'
BY DEF AccountInv, LiarsCannotDeny, Denied, LiarsSpendBudget

(* A step within a round.                                                  *)
LEMMA RoundAccounted ==
  ASSUME AccountInv, pc # "idle", pc' # "idle", pc = "ask" <=> pc' = "ask",
         faulted => faulted', providers \subseteq providers',
         UNCHANGED <<demoted, remembered, attempts, refused, source>>,
         handle' = "orphan" => handle = "orphan",
         pc' = "promote" => Len(staged') >= info'.total
  PROVE  AccountInv'
<1>1. ASSUME Unfaulted PROVE Unfaulted'
  BY <1>1 DEF Unfaulted
<1> QED
  BY <1>1 DEF AccountInv, LiarsCannotDeny, Denied, LiarsSpendBudget

(* A set of holders has a size, and one more holder makes one more.        *)
LEMMA HoldersCount ==
  ASSUME NEW S, S \subseteq Peer
  PROVE  /\ IsFiniteSet(S) /\ Cardinality(S) \in Nat
         /\ \A T \in SUBSET S : Cardinality(T) <= Cardinality(S)
         /\ \A p : p \notin S => Cardinality(S \cup {p}) = Cardinality(S) + 1
<1>1. IsFiniteSet(S)
  BY PullAssumption, FS_Subset
<1> QED
  BY <1>1, FS_Subset, FS_CardinalityType, FS_AddElement

(* A demotion: an honest source is demoted in a faulted call only.         *)
LEMMA DemoteAccounted ==
  ASSUME TypedInv, AccountInv, pc \in Working, NEW proven, Demote(proven),
         faulted => faulted', source \in Honest => faulted'
  PROVE  AccountInv'
<1>1. /\ demoted' = demoted \cup {source}
      /\ UNCHANGED <<providers, remembered, trusts, attempts, refused>>
      /\ pc' = "idle" => handle' = "closed"
      /\ pc' \in {"idle", "ask"}
  BY DEF Demote, Return
<1>2. CASE faulted'
  BY <1>1, <1>2, FaultAccounted
<1>3. CASE ~faulted'
  <2>1. Unfaulted /\ pc # "ask"
    BY <1>3 DEF AccountInv, Working
  <2>2. source \in providers \ Honest /\ source \notin demoted
    BY <1>3, <2>1 DEF Unfaulted, TypedInv, AttemptOK
  <2>3. providers \subseteq Peer /\ demoted \subseteq Peer
    BY DEF TypedInv, CallOK
  <2>4. demoted' \subseteq providers \ Honest
    BY <1>1, <2>1, <2>2 DEF Unfaulted
  <2>5. Cardinality(demoted') + refused = attempts
    <3>1. Cardinality(demoted \cup {source}) = Cardinality(demoted) + 1
      BY <2>2, <2>3, HoldersCount
    <3>2. Cardinality(demoted) \in Nat /\ refused \in Nat
      BY <2>3, HoldersCount, PullAssumption DEF TypedInv, CallOK
    <3> QED
      BY <1>1, <2>1, <3>1, <3>2 DEF Unfaulted
  <2>6. CASE GivesUp
    <3>1. pc' = "idle" /\ handle' = "closed"
      BY <1>1, <2>6 DEF Demote, Return
    <3>2. attempts >= MaxAttempts
      <4>1. PICK h \in providers : h \in Honest /\ h \notin demoted /\ h # source
        BY <2>1, <2>2 DEF Unfaulted
      <4>2. ~trusts => h \in UsableHolders(Excluded \cup {source})
        BY <4>1 DEF UsableHolders, Excluded
      <4> QED
        BY <2>6, <4>2 DEF GivesUp
    <3>3. Cardinality(demoted') <= Cardinality(providers \ Honest)
      BY <2>3, <2>4, HoldersCount
    <3>4. Cardinality(providers \ Honest) \in Nat /\ Cardinality(demoted') \in Nat
      BY <2>3, <2>4, HoldersCount
    <3>5. attempts \in Nat /\ MaxAttempts \in Nat /\ refused \in Nat
      BY PullAssumption DEF TypedInv, CallOK
    <3>6. Cardinality(providers' \ Honest) + refused' >= MaxAttempts
      BY <1>1, <2>5, <3>2, <3>3, <3>4, <3>5
    <3> QED
      BY <1>1, <3>1, <3>6 DEF AccountInv, LiarsCannotDeny, Denied, LiarsSpendBudget
  <2>7. CASE ~GivesUp
    <3>1. pc' = "ask" /\ handle' = handle
      BY <2>7 DEF Demote
    <3>2. attempts' = Cardinality(demoted') + refused' + 0
      BY <1>1, <2>5 DEF TypedInv, CallOK
    <3>3. Unfaulted'
      BY <1>1, <2>1, <2>4, <3>1, <3>2 DEF Unfaulted
    <3> QED
      BY <1>1, <3>1, <3>3 DEF AccountInv, LiarsCannotDeny, Denied, LiarsSpendBudget
  <2> QED
    BY <2>6, <2>7
<1> QED
  BY <1>2, <1>3

(* One case per action again; the gates spare the honest source.           *)
LEMMA AccountNext ==
  TypedInv /\ FedInv /\ AccountInv /\ [Next]_vars => AccountInv'
<1> SUFFICES ASSUME TypedInv, FedInv, AccountInv, [Next]_vars PROVE AccountInv'
  OBVIOUS
<1> USE DEF disk, callVars, attemptVars
<1>1. CASE Start
  <2>1. handle' = "closed"
    BY <1>1 DEF Start, AccountInv
  <2>2. /\ faulted' = ((providers' \cap Honest) \ remembered' = {})
        /\ demoted' = {} /\ attempts' = 0 /\ refused' = 0
        /\ \/ providers' = {} /\ pc' = "idle"
           \/ pc' = "ask"
    BY <1>1 DEF Start
  <2>3. ASSUME ~faulted' PROVE pc' = "ask" /\ Unfaulted'
    <3>1. Cardinality({}) = 0
      BY FS_EmptySet
    <3>2. (providers' \cap Honest) \ remembered' # {} /\ pc' = "ask"
      BY <2>2, <2>3
    <3>3. attempts' = Cardinality(demoted') + refused' + 0
      BY <2>2, <3>1
    <3>4. demoted' \subseteq providers' \ Honest
      BY <2>2
    <3> QED
      BY <2>1, <3>2, <3>3, <3>4 DEF Unfaulted
  <2> QED
    BY <2>1, <2>3 DEF AccountInv, LiarsCannotDeny, Denied, LiarsSpendBudget
<1>2. CASE StopTrustingMemory
  BY <1>2, RoundAccounted DEF StopTrustingMemory
<1>3. CASE Ask
  <2>1. /\ pc = "ask" /\ pc' = "plan" /\ attempts' = attempts + 1
        /\ source' \in UsableHolders(Excluded)
        /\ UNCHANGED <<disk, providers, demoted, remembered, refused, faulted>>
    BY <1>3 DEF Ask
  <2>2. source' \notin demoted
    BY <2>1 DEF UsableHolders, Excluded
  <2>3. ASSUME Unfaulted PROVE Unfaulted'
    <3>1. /\ attempts = Cardinality(demoted) + refused
          /\ Cardinality(demoted) \in Nat /\ refused \in Nat
      BY <2>1, <2>3, HoldersCount, PullAssumption DEF Unfaulted, TypedInv, CallOK
    <3> QED
      BY <2>1, <2>2, <2>3, <3>1 DEF Unfaulted
  <2> QED
    BY <2>1, <2>3 DEF AccountInv, LiarsCannotDeny, Denied, LiarsSpendBudget
<1>4. CASE AskFails
  <2>1. /\ pc = "ask" /\ remembered' = remembered
        /\ faulted' = (faulted \/ UsableHolders(Excluded) \cap Honest # {})
        /\ pc' = "idle" => handle' = "closed"
    BY <1>4 DEF AskFails, LoseRound, Return
  <2>2. ASSUME ~faulted PROVE UsableHolders(Excluded) \cap Honest # {}
    <3>1. Unfaulted
      BY <2>1, <2>2 DEF AccountInv
    <3>2. PICK h \in providers : h \in Honest /\ h \notin demoted /\ h \notin remembered
      BY <3>1 DEF Unfaulted
    <3> QED
      BY <3>2 DEF UsableHolders, Excluded
  <2>3. faulted'
    BY <2>1, <2>2
  <2> QED
    BY <2>1, <2>3, FaultAccounted
<1>5. CASE Malformed
  <2>1. /\ pc \in Working /\ Demote(TRUE)
        /\ faulted' = (faulted \/ source \in Honest)
    BY <1>5 DEF Malformed, Working
  <2> QED
    BY <2>1, DemoteAccounted
<1>6. CASE PlanTooLarge
  <2>1. pc \in Working /\ Demote(FALSE) /\ faulted'
    BY <1>6 DEF PlanTooLarge, Working
  <2> QED
    BY <2>1, DemoteAccounted
<1>7. CASE Plan \/ ResumeChunk \/ FetchChunk \/ SaveChunk
  <2>1. /\ pc \in {"plan", "chunk", "save"} /\ pc' \in {"chunk", "save"}
        /\ UNCHANGED <<providers, demoted, remembered, attempts, refused, source,
                       faulted>>
    BY <1>7 DEF Plan, ResumeChunk, FetchChunk, SaveChunk, InLoop
  <2>2. handle' = "orphan" => handle = "orphan"
    BY <1>7 DEF Plan, ResumeChunk, FetchChunk, SaveChunk, Opened
  <2> QED
    BY <2>1, <2>2, RoundAccounted
<1>8. CASE Relocate
  <2>1. /\ pc = "chunk" /\ pc' = "chunk" /\ providers \subseteq providers'
        /\ faulted => faulted'
        /\ UNCHANGED <<disk, demoted, remembered, attempts, refused, source>>
    BY <1>8 DEF Relocate, InLoop
  <2> QED
    BY <2>1, RoundAccounted
<1>9. CASE ChunkExhausted
  <2>1. /\ InLoop /\ pc \in Working /\ Demote(FALSE)
        /\ faulted' = (faulted \/ HonestlyServable(index))
    BY <1>9 DEF ChunkExhausted, InLoop, Working
  <2>2. ASSUME source \in Honest PROVE HonestlyServable(index)
    <3>1. info \in HonestInfos /\ Len(info.lens) \in Nat
      BY <2>1, <2>2, HonestSource
    <3>2. index \in Nat /\ index # 0 /\ index <= Len(info.lens)
      BY <2>1 DEF InLoop, TypedInv, AttemptOK
    <3>3. index \in 1..Len(info.lens)
      BY <3>1, <3>2
    <3>4. source \in providers
      BY <2>1 DEF TypedInv, AttemptOK
    <3> QED
      BY <2>2, <3>1, <3>3, <3>4, HonestDescribes DEF HonestlyServable
  <2> QED
    BY <2>1, <2>2, DemoteAccounted
<1>10. CASE HashGate
  <2>1. CASE fed = info.module
    BY <1>10, <2>1, RoundAccounted DEF HashGate
  <2>2. CASE fed # info.module
    <3>1. /\ pc \in Working /\ pc = "chunk" /\ index > Len(info.lens)
          /\ Demote(TRUE) /\ faulted' = faulted
      BY <1>10, <2>2 DEF HashGate, Working
    <3>2. source \notin Honest
      BY <2>2, <3>1, HonestHashes
    <3> QED
      BY <3>1, <3>2, DemoteAccounted
  <2> QED
    BY <2>1, <2>2
<1>11. CASE AnchorGate
  <2>1. pc = "anchor" /\ pc \in Working /\ ReaderSees /\ faulted' = faulted
    BY <1>11 DEF AnchorGate, Working
  <2>2. CASE Anchored
    <3>1. /\ pc' = "promote"
          /\ UNCHANGED <<disk, callVars, attemptVars>>
      BY <1>11, <2>2 DEF AnchorGate
    <3>2. Len(staged) >= info.total
      <4> DEFINE n == Len(info.lens)
      <4>1. info \in Infos /\ WellFormed(info)
        BY <2>1 DEF TypedInv, AttemptOK, Working
      <4>2. info.lens \in Seq(Nat) /\ info.lens # <<>> /\ SumTo(info.lens, n) = info.total
        BY <4>1 DEF Infos, WellFormed
      <4>3. n \in 1..Len(info.lens) /\ n \in DOMAIN info.lens
        BY <4>2
      <4>4. Offset(info, n) + info.lens[n] <= Len(staged)
        BY <2>1, <4>3 DEF ReaderSees, ChunkStaged, Readable
      <4>5. Offset(info, n) + info.lens[n] = info.total
        BY <4>1, <4>2, <4>3, ChunkTyped
      <4>6. info.total \in Nat /\ Len(staged) \in Nat
        BY <4>1 DEF Infos, TypedInv, DiskOK, Contents
      <4> QED
        BY <4>4, <4>5, <4>6
    <3> QED
      BY <2>1, <3>1, <3>2, RoundAccounted
  <2>3. CASE ~Anchored
    <3>1. Demote(TRUE)
      BY <1>11, <2>3 DEF AnchorGate
    <3>2. source \notin Honest
      BY <2>1, <2>3, HonestAnchored
    <3> QED
      BY <2>1, <3>1, <3>2, DemoteAccounted
  <2> QED
    BY <2>2, <2>3
<1>12. CASE AnchorUnavailable \/ LocalFault
  BY <1>12, FaultAccounted DEF AnchorUnavailable, LocalFault, Terminal, Return
<1>13. CASE Promote
  BY <1>13, RoundAccounted DEF Promote
<1>14. CASE PromotionRefused
  <2>1. /\ pc = "promote" /\ remembered' = remembered /\ handle' = "closed"
        /\ faulted' = (faulted \/ (handle # "orphan" /\ Len(staged) >= info.total))
    BY <1>14 DEF PromotionRefused, Return
  <2>2. faulted'
    BY <2>1 DEF AccountInv, Unfaulted
  <2> QED
    BY <2>1, <2>2, FaultAccounted
<1>15. CASE Clear
  <2>1. pc' = "idle" /\ handle' = "closed" /\ result' = "ok" /\ remembered' = remembered
    BY <1>15 DEF Clear, Return
  <2> QED
    BY <2>1 DEF AccountInv, LiarsCannotDeny, Denied, LiarsSpendBudget
<1>16. CASE Crash \/ SaveTorn
  BY <1>16, FaultAccounted DEF Crash, SaveTorn, Return
<1>17. CASE Reap
  <2>1. /\ handle # "orphan" /\ faulted' = (pc # "idle" \/ faulted)
        /\ handle = "open" \/ handle' = handle
        /\ UNCHANGED <<ckpt, pc, result, callVars>>
    BY <1>17 DEF Reap
  <2>2. CASE pc # "idle"
    BY <2>1, <2>2, FaultAccounted
  <2>3. CASE pc = "idle"
    BY <2>1, <2>3 DEF AccountInv, LiarsCannotDeny, Denied, LiarsSpendBudget
  <2> QED
    BY <2>2, <2>3
<1>18. CASE BitRot \/ VerdictExpires
  BY <1>18
     DEF BitRot, VerdictExpires, AccountInv, LiarsCannotDeny, Denied,
         LiarsSpendBudget
<1>19. CASE UNCHANGED vars
  BY <1>19 DEF vars, AccountInv, Unfaulted, LiarsCannotDeny, Denied, LiarsSpendBudget
<1>20. CASE LoadFails
  <2>1. ckpt.torn /\ ckpt' = ckpt /\ pc' = "idle" /\ handle' = "closed"
    BY <1>20 DEF LoadFails, Return
  <2> QED
    BY <2>1 DEF AccountInv, LiarsCannotDeny
<1>21. CASE AskRefused
  <2>1. PICK p \in UsableHolders(Excluded) :
          IF p \in Honest THEN faulted' = TRUE /\ UNCHANGED refused
                          ELSE refused' = refused + 1 /\ UNCHANGED faulted
    BY <1>21 DEF AskRefused
  <2>2. /\ pc = "ask" /\ attempts' = attempts + 1 /\ ckpt' = ckpt
        /\ UNCHANGED <<providers, demoted, remembered>>
        /\ \/ pc' = "idle" /\ handle' = "closed" /\ attempts' >= MaxAttempts
           \/ pc' = "ask" /\ handle' = handle
    BY <1>21 DEF AskRefused, LoseRound, Return
  <2>3. CASE faulted'
    BY <2>2, <2>3, FaultAccounted
  <2>4. CASE ~faulted'
    <3>1. ~faulted /\ refused' = refused + 1 /\ Unfaulted
      BY <2>1, <2>2, <2>4 DEF AccountInv
    <3>2. /\ Cardinality(demoted) \in Nat /\ Cardinality(providers \ Honest) \in Nat
          /\ Cardinality(demoted) <= Cardinality(providers \ Honest)
      BY <3>1, HoldersCount DEF Unfaulted, TypedInv, CallOK
    <3>3. refused \in Nat /\ attempts \in Nat /\ MaxAttempts \in Nat
      BY PullAssumption DEF TypedInv, CallOK
    <3>4. attempts' = Cardinality(demoted') + refused'
      BY <2>2, <3>1, <3>2, <3>3 DEF Unfaulted
    <3>5. CASE pc' = "ask"
      <4>1. Unfaulted'
        BY <2>2, <3>1, <3>2, <3>3, <3>4, <3>5 DEF Unfaulted
      <4> QED
        BY <3>5, <4>1 DEF AccountInv, LiarsCannotDeny, Denied
    <3>6. CASE pc' = "idle"
      <4>1. Cardinality(providers' \ Honest) + refused' >= MaxAttempts
        BY <2>2, <3>1, <3>2, <3>3, <3>4, <3>6
      <4> QED
        BY <2>2, <3>6, <4>1 DEF AccountInv, LiarsCannotDeny, LiarsSpendBudget
    <3> QED
      BY <2>2, <3>5, <3>6
  <2> QED
    BY <2>3, <2>4
<1> QED
  BY <1>1, <1>2, <1>3, <1>4, <1>5, <1>6, <1>7, <1>8, <1>9, <1>10, <1>11, <1>12,
     <1>13, <1>14, <1>15, <1>16, <1>17, <1>18, <1>19, <1>20, <1>21
     DEF Next, PullStep

(* A call of download that fails on a checkpoint that can be read, with no *)
(* fault of this node, of discovery or of an honest holder, has spent its  *)
(* rounds on liars: a false descriptor costs one round, and its source     *)
(* never a second one; a refusal costs the round it ends.                  *)
THEOREM DenialNeedsLiars == Spec => []LiarsCannotDeny
<1>1. Init => AccountInv
  BY DEF Init, AccountInv, LiarsCannotDeny, Denied, LiarsSpendBudget
<1>2. AccountInv => LiarsCannotDeny
  BY DEF AccountInv
<1> QED
  BY AccountNext, PullTyped, PullFed, <1>1, <1>2, PTL DEF Spec

-----------------------------------------------------------------------------
(* What the gates leave behind until the rename: the window about to be    *)
(* promoted is the anchored module, unless a sweep has emptied the path.   *)
GatedInv ==
  /\ ArtifactAnchored
  /\ info.total \in Nat
  /\ pc = "promote" => (Anchored \/ staged = <<>>)

(* Nothing is promoted when the downloader starts.                         *)
LEMMA GatedInit == Init => GatedInv
BY DEF Init, GatedInv, ArtifactAnchored, NoInfo

(* A step that leaves the artifact alone and does not enter the promotion  *)
(* keeps the invariant.                                                    *)
LEMMA GatedKept ==
  ASSUME GatedInv, artifact' = artifact, info'.total \in Nat,
         pc' # "promote"
  PROVE  GatedInv'
BY DEF GatedInv, ArtifactAnchored

(* So does a demotion.                                                     *)
LEMMA GatedDemote ==
  ASSUME GatedInv, NEW proven, Demote(proven)
  PROVE  GatedInv'
<1>1. artifact' = artifact /\ pc' # "promote" /\ info' = NoInfo
  BY DEF Demote, Return, EndAttempt
<1> QED
  BY <1>1, GatedKept DEF NoInfo

(* One case per action of the puller and of its environment.               *)
LEMMA GatedNext == GatedInv /\ [Next]_vars => GatedInv'
<1> SUFFICES ASSUME GatedInv, [Next]_vars PROVE GatedInv'
  OBVIOUS
<1> USE DEF disk, callVars, attemptVars
<1>1. CASE Start
  BY <1>1, GatedKept DEF Start, GatedInv
<1>2. CASE StopTrustingMemory
  BY <1>2, GatedKept DEF StopTrustingMemory, GatedInv
<1>3. CASE Ask
  <2>1. artifact' = artifact /\ pc' # "promote"
    BY <1>3 DEF Ask
  <2>2. info'.total \in Nat
    BY <1>3, AnswersAreInfos DEF Ask, Infos
  <2> QED
    BY <2>1, <2>2, GatedKept
<1>4. CASE AskFails \/ AskRefused
  <2>1. artifact' = artifact /\ pc' # "promote" /\ info' \in {info, NoInfo}
    BY <1>4 DEF AskFails, AskRefused, LoseRound, Return, EndAttempt
  <2> QED
    BY <2>1, GatedKept DEF NoInfo, GatedInv
<1>5. CASE Malformed \/ PlanTooLarge \/ ChunkExhausted
  BY <1>5, GatedDemote DEF Malformed, PlanTooLarge, ChunkExhausted
<1>6. CASE Plan \/ ResumeChunk \/ FetchChunk \/ SaveChunk \/ Relocate
  BY <1>6, GatedKept
     DEF Plan, ResumeChunk, FetchChunk, SaveChunk, Relocate, InLoop,
         NextChunk, GatedInv
<1>7. CASE HashGate
  <2>1. CASE fed = info.module
    BY <1>7, <2>1, GatedKept DEF HashGate, GatedInv
  <2>2. CASE fed # info.module
    BY <1>7, <2>2, GatedDemote DEF HashGate
  <2> QED
    BY <2>1, <2>2
<1>8. CASE AnchorGate
  <2>1. CASE Anchored
    BY <1>8, <2>1 DEF AnchorGate, GatedInv, ArtifactAnchored, Anchored
  <2>2. CASE ~Anchored
    BY <1>8, <2>2, GatedDemote DEF AnchorGate
  <2> QED
    BY <2>1, <2>2
<1>9. CASE Promote
  <2>1. artifact' \in {<<>>, Truth}
    <3>1. CASE Anchored
      BY <1>9, <3>1 DEF Promote, Anchored
    <3>2. CASE staged = <<>>
      <4>1. info.total = 0
        BY <1>9, <3>2 DEF Promote, GatedInv
      <4>2. Slice(staged, 0, info.total) = <<>>
        BY <3>2, <4>1 DEF Slice
      <4> QED
        BY <1>9, <4>2 DEF Promote
    <3> QED
      BY <1>9, <3>1, <3>2 DEF Promote, GatedInv
  <2> QED
    BY <1>9, <2>1 DEF Promote, GatedInv, ArtifactAnchored
<1>10. CASE PromotionRefused \/ Clear \/ Crash \/ LoadFails \/ SaveTorn
  <2>1. artifact' = artifact /\ pc' # "promote" /\ info' = NoInfo
    BY <1>10 DEF PromotionRefused, Clear, Crash, LoadFails, SaveTorn, Return,
                 EndAttempt
  <2> QED
    BY <2>1, GatedKept DEF NoInfo
<1>11. CASE AnchorUnavailable \/ LocalFault
  <2>1. artifact' = artifact /\ pc' # "promote" /\ info' = NoInfo
    BY <1>11 DEF AnchorUnavailable, LocalFault, Terminal, Return, EndAttempt
  <2> QED
    BY <2>1, GatedKept DEF NoInfo
<1>12. CASE Reap
  BY <1>12 DEF Reap, GatedInv, ArtifactAnchored, Anchored
<1>13. CASE BitRot
  BY <1>13, GatedKept DEF BitRot, GatedInv
<1>14. CASE VerdictExpires
  BY <1>14, GatedKept DEF VerdictExpires, GatedInv
<1>15. CASE UNCHANGED vars
  BY <1>15 DEF vars, GatedInv, ArtifactAnchored, Anchored
<1> QED
  BY <1>1, <1>2, <1>3, <1>4, <1>5, <1>6, <1>7, <1>8, <1>9, <1>10, <1>11,
     <1>12, <1>13, <1>14, <1>15 DEF Next, PullStep

(* Whatever descriptors are invented and whoever crashes, sweeps or rots   *)
(* the staging file, only the chain-anchored module reaches the final path *)
(* (the two gates and promote_verified of pull_with_descriptor).           *)
THEOREM OnlyAnchoredPromoted == Spec => []ArtifactAnchored
<1>1. GatedInv => ArtifactAnchored
  BY DEF GatedInv
<1> QED
  BY GatedInit, GatedNext, <1>1, PTL DEF Spec

-----------------------------------------------------------------------------
(* The budget counts rounds of this call only.                             *)
BudgetInv ==
  /\ attempts \in Nat
  /\ MemoryNeverDenies

(* A demotion ends the call early only when every known holder has had its *)
(* turn and the memory was dropped.                                        *)
LEMMA BudgetDemote ==
  ASSUME BudgetInv, NEW proven, Demote(proven)
  PROVE  BudgetInv'
<1>1. attempts' = attempts /\ providers' = providers
      /\ demoted' = demoted \cup {source}
  BY DEF Demote
<1>2. CASE GivesUp /\ attempts < MaxAttempts
  <2>1. providers \ (demoted \cup {source}) = {}
    BY <1>2, PullAssumption DEF GivesUp, UsableHolders, Excluded, BudgetInv
  <2> QED
    BY <1>1, <2>1 DEF BudgetInv, MemoryNeverDenies
<1>3. CASE ~(attempts < MaxAttempts)
  BY <1>1, <1>3 DEF BudgetInv, MemoryNeverDenies
<1>4. CASE ~GivesUp
  BY <1>1, <1>4 DEF Demote, BudgetInv, MemoryNeverDenies
<1> QED
  BY <1>2, <1>3, <1>4

(* A step that neither asks nor fails the call keeps the invariant.        *)
LEMMA BudgetKept ==
  ASSUME BudgetInv, attempts' = attempts,
         pc' # "idle" \/ result' # "failed"
  PROVE  BudgetInv'
BY DEF BudgetInv, MemoryNeverDenies

(* The steps that can end a call, one by one, and the rest.                *)
LEMMA BudgetNext == BudgetInv /\ [Next]_vars => BudgetInv'
<1> SUFFICES ASSUME BudgetInv, [Next]_vars PROVE BudgetInv'
  OBVIOUS
<1> USE DEF disk, callVars, attemptVars
<1>1. CASE Start
  <2>1. attempts' = 0
    BY <1>1 DEF Start
  <2>2. (pc' = "idle" /\ result' = "failed") => providers' = {}
    BY <1>1 DEF Start
  <2> QED
    BY <2>1, <2>2 DEF BudgetInv, MemoryNeverDenies
<1>2. CASE Ask
  BY <1>2 DEF Ask, BudgetInv, MemoryNeverDenies
<1>3. CASE AskFails \/ AskRefused
  <2>1. attempts' = attempts + 1
    BY <1>3 DEF AskFails, AskRefused, LoseRound
  <2>2. CASE attempts' >= MaxAttempts
    BY <2>1, <2>2, PullAssumption DEF BudgetInv, MemoryNeverDenies
  <2>3. CASE ~(attempts' >= MaxAttempts)
    BY <1>3, <2>1, <2>3
       DEF AskFails, AskRefused, LoseRound, BudgetInv, MemoryNeverDenies
  <2> QED
    BY <2>2, <2>3
<1>4. CASE Malformed \/ PlanTooLarge \/ ChunkExhausted
  BY <1>4, BudgetDemote DEF Malformed, PlanTooLarge, ChunkExhausted
<1>5. CASE Plan \/ ResumeChunk \/ FetchChunk \/ SaveChunk \/ Relocate
           \/ StopTrustingMemory \/ Promote
  BY <1>5, BudgetKept
     DEF Plan, ResumeChunk, FetchChunk, SaveChunk, Relocate, InLoop,
         NextChunk, StopTrustingMemory, Promote
<1>6. CASE HashGate
  <2>1. CASE fed = info.module
    BY <1>6, <2>1, BudgetKept DEF HashGate
  <2>2. CASE fed # info.module
    BY <1>6, <2>2, BudgetDemote DEF HashGate
  <2> QED
    BY <2>1, <2>2
<1>7. CASE AnchorGate
  <2>1. CASE Anchored
    BY <1>7, <2>1, BudgetKept DEF AnchorGate
  <2>2. CASE ~Anchored
    BY <1>7, <2>2, BudgetDemote DEF AnchorGate
  <2> QED
    BY <2>1, <2>2
<1>8. CASE PromotionRefused \/ Clear \/ Crash \/ LoadFails \/ SaveTorn
  BY <1>8, BudgetKept
     DEF PromotionRefused, Clear, Crash, LoadFails, SaveTorn, Return
<1>9. CASE AnchorUnavailable \/ LocalFault
  BY <1>9, BudgetKept DEF AnchorUnavailable, LocalFault, Terminal, Return
<1>10. CASE Reap
  BY <1>10 DEF Reap, BudgetInv, MemoryNeverDenies
<1>11. CASE BitRot
  BY <1>11 DEF BitRot, BudgetInv, MemoryNeverDenies
<1>12. CASE VerdictExpires
  BY <1>12 DEF VerdictExpires, BudgetInv, MemoryNeverDenies
<1>13. CASE UNCHANGED vars
  BY <1>13 DEF vars, BudgetInv, MemoryNeverDenies
<1> QED
  BY <1>1, <1>2, <1>3, <1>4, <1>5, <1>6, <1>7, <1>8, <1>9, <1>10, <1>11,
     <1>12, <1>13 DEF Next, PullStep

(* Remembered verdicts alone never deny a pull: a call of download that    *)
(* gives up with rounds left has tried every holder it knows.              *)
THEOREM ReputationNeverDenies == Spec => []MemoryNeverDenies
<1>1. Init => BudgetInv
  BY DEF Init, BudgetInv, MemoryNeverDenies
<1>2. BudgetInv => MemoryNeverDenies
  BY DEF BudgetInv
<1> QED
  BY <1>1, <1>2, BudgetNext, PTL DEF Spec

-----------------------------------------------------------------------------
(* Whom a step may ask.                                                    *)
AsksOnce ==
  /\ pc # "idle" => demoted \subseteq demoted'
  /\ source' \notin {source, "none"} => source' \notin demoted

(* Only fetch_module_info chooses a source, and only the next call forgets *)
(* a demotion.                                                             *)
LEMMA AskNext == [Next]_vars => AsksOnce
<1> SUFFICES ASSUME [Next]_vars PROVE AsksOnce
  OBVIOUS
<1> USE DEF disk, callVars, attemptVars
<1>1. ASSUME source' \in {source, "none"}, demoted \subseteq demoted'
      PROVE  AsksOnce
  BY <1>1 DEF AsksOnce
<1>2. ASSUME NEW proven, Demote(proven)
      PROVE  source' \in {source, "none"} /\ demoted \subseteq demoted'
  BY <1>2 DEF Demote, Return, EndAttempt
<1>3. CASE Start
  BY <1>3 DEF Start, AsksOnce
<1>4. CASE Ask
  BY <1>4 DEF Ask, UsableHolders, Excluded, AsksOnce
<1>5. CASE AskFails \/ AskRefused
  BY <1>1, <1>5 DEF AskFails, AskRefused, LoseRound, Return, EndAttempt
<1>6. CASE Malformed \/ PlanTooLarge \/ ChunkExhausted
  BY <1>1, <1>2, <1>6 DEF Malformed, PlanTooLarge, ChunkExhausted
<1>7. CASE HashGate \/ AnchorGate
  BY <1>1, <1>2, <1>7 DEF HashGate, AnchorGate
<1>8. CASE StopTrustingMemory \/ Plan \/ ResumeChunk \/ FetchChunk \/ SaveChunk
           \/ Relocate \/ Promote
  BY <1>1, <1>8
     DEF StopTrustingMemory, Plan, ResumeChunk, FetchChunk, SaveChunk, Relocate,
         Promote
<1>9. CASE LoadFails \/ SaveTorn \/ PromotionRefused \/ Clear \/ Crash
  BY <1>1, <1>9
     DEF LoadFails, SaveTorn, PromotionRefused, Clear, Crash, Return, EndAttempt
<1>10. CASE AnchorUnavailable \/ LocalFault
  BY <1>1, <1>10 DEF AnchorUnavailable, LocalFault, Terminal, Return, EndAttempt
<1>11. CASE Reap \/ BitRot \/ VerdictExpires \/ UNCHANGED vars
  BY <1>1, <1>11 DEF Reap, BitRot, VerdictExpires, vars
<1> QED
  BY <1>3, <1>4, <1>5, <1>6, <1>7, <1>8, <1>9, <1>10, <1>11 DEF Next, PullStep

(* DescriptorExclusions: a holder demoted in a call is not asked for a     *)
(* descriptor again in that call, whatever memory is dropped meanwhile.    *)
THEOREM DemotedOnce == Spec => DemotedNotReasked
<1>1. [Next]_vars
        => [/\ pc # "idle" => demoted \subseteq demoted'
            /\ source' \notin {source, "none"} => source' \notin demoted]_vars
  BY AskNext DEF AsksOnce
<1> QED
  BY <1>1, PTL DEF Spec, DemotedNotReasked

(* Remembered verdicts reorder the holders of a call and exclude none:     *)
(* nobody is given up for them, nobody demoted comes back without them.    *)
THEOREM MemoryHarmless == Spec => MemoryOnlyReorders
<1> QED
  BY ReputationNeverDenies, DemotedOnce, PTL DEF MemoryOnlyReorders

=============================================================================
