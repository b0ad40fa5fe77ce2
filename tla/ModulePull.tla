----------------------------- MODULE ModulePull -----------------------------
(***************************************************************************)
(* ModuleDownloader::download of module.rs: a whole .dig module is pulled  *)
(* against ONE holder's descriptor at a time, chunk by chunk into the      *)
(* staging file, through the module-hash gate, the chain-anchor gate and   *)
(* the promotion.  A holder whose descriptor fails is demoted for the      *)
(* call; one whose descriptor is proven false is remembered in the         *)
(* StateStore's reputation (progress.rs) for later calls.                  *)
(*                                                                         *)
(* One puller works on one (store_id, root).  It holds no claim, so a      *)
(* sweep may remove its staging file at any moment; a crash may end a call *)
(* at any await; while no call runs the staging bytes may rot.             *)
(*                                                                         *)
(* Data abstracted: a byte is a small number, a content a sequence of      *)
(* them, and a hash is the content it is the hash of.  A holder's          *)
(* descriptor is a ModuleInfo record [lens, hashes, module, total].        *)
(***************************************************************************)
EXTENDS Naturals, Sequences, FiniteSets, VecRetain

CONSTANTS
  Peer,            \* holders the DHT may name
  Honest,          \* those that describe and serve only the true module
  Truth,           \* the content anchored on chain under (store_id, root)
  Rot,             \* a byte the true module does not contain
  Descriptors,     \* the descriptors a lying holder may answer with
  HonestLens,      \* the layouts an honest holder may chunk the module by
  MaxModuleSize,   \* config.max_module_size
  MaxModuleChunkCount, \* MAX_MODULE_CHUNK_COUNT
  MaxAttempts,     \* MAX_DESCRIPTOR_ATTEMPTS
  MaxVerdicts      \* MAX_BAD_DESCRIPTOR_PEERS

Contents == Seq(Nat)
Infos == [lens : Seq(Nat), hashes : Seq(Contents), module : Contents,
          total : Nat]

ASSUME PullAssumption ==
  /\ IsFiniteSet(Peer)
  /\ Honest \subseteq Peer
  /\ Truth \in Contents
  /\ Rot \in Nat
  /\ Descriptors \subseteq Infos
  /\ HonestLens \subseteq Seq(Nat)
  /\ MaxModuleChunkCount \in Nat
  /\ MaxAttempts \in Nat \ {0}
  /\ MaxVerdicts \in Nat \ {0}

VARIABLES
  artifact,      \* the file at the final path, <<>> while there is none
  staged,        \* the staging file as the sink reads it
  handle,        \* FileSink.file: closed, open, or open on a removed file
  ckpt,          \* the checkpoint: chunk_lens, done_ranges, is it torn?
  verdicts,      \* the reputation sidecar, oldest verdict first
  pc,            \* where the call is
  result,        \* how the last call ended
  providers,     \* the located holders
  demoted,       \* DescriptorExclusions.demoted_here
  remembered,    \* DescriptorExclusions.remembered
  trusts,        \* DescriptorExclusions.trusts_memory
  attempts,      \* descriptor rounds spent by the call
  refused,       \* those a liar ended with an error that is not recoverable
  source,        \* holder whose descriptor is tried, "none" at first
  info,          \* its descriptor
  index,         \* next chunk of the loop
  checkpointed,  \* done_ranges taken from the loaded checkpoint
  done,          \* state.done_ranges of the running attempt
  fed,           \* what the module hasher has absorbed
  relocated,     \* has this chunk's fetch asked the DHT again?
  faulted        \* this node, discovery or the honest holders failed the call

disk == <<artifact, staged, handle, ckpt>>
callVars == <<providers, demoted, remembered, trusts, attempts, refused>>
attemptVars == <<source, info, index, checkpointed, done, fed, relocated>>
vars == <<disk, verdicts, pc, result, callVars, attemptVars, faulted>>

-----------------------------------------------------------------------------
(* Descriptors.                                                            *)

NoInfo == [lens |-> <<>>, hashes |-> <<>>, module |-> <<>>, total |-> 0]
NoCheckpoint == [lens |-> <<>>, done |-> {}, torn |-> FALSE]

(* A checkpoint file that serde_json cannot parse.                         *)
Torn == [lens |-> <<>>, done |-> {}, torn |-> TRUE]

(* The lengths of the first i chunks added up.                             *)
SumTo(lens, i) ==
  LET sum[k \in 0..Len(lens)] == IF k = 0 THEN 0 ELSE sum[k - 1] + lens[k]
  IN  sum[i]

(* ChunkPlan::chunk_span: the bytes before chunk i, and those of chunk i.  *)
Offset(d, i) == SumTo(d.lens, i - 1)
Slice(content, off, len) == SubSeq(content, off + 1, off + len)

HonestInfo(lens) ==
  [lens |-> lens,
   hashes |-> [i \in DOMAIN lens |-> Slice(Truth, SumTo(lens, i - 1), lens[i])],
   module |-> Truth,
   total |-> Len(Truth)]

HonestInfos == {HonestInfo(lens) : lens \in HonestLens}

(* What holder p may answer to getModuleInfo.                              *)
Answers(p) == IF p \in Honest THEN HonestInfos ELSE HonestInfos \cup Descriptors

(* The bounds ChunkPlan::from_info puts on a descriptor, true or not.      *)
WithinLimits(d) ==
  d.total <= MaxModuleSize /\ Len(d.lens) <= MaxModuleChunkCount

(* ChunkPlan::from_info accepts the descriptor.                            *)
WellFormed(d) ==
  /\ WithinLimits(d)
  /\ d.lens # <<>>
  /\ Len(d.lens) = Len(d.hashes)
  /\ SumTo(d.lens, Len(d.lens)) = d.total

(* The layout of an honest holder adds up to the module.  It need not be   *)
(* within the limits: from_info then rejects the true descriptor as well.  *)
ASSUME HonestAssumption ==
  \A lens \in HonestLens :
    lens # <<>> /\ SumTo(lens, Len(lens)) = Len(Truth)

-----------------------------------------------------------------------------
(* The staging file.                                                       *)

Readable(file, off, len) == off + len <= Len(file)
ReadAt(file, off, len) == Slice(file, off, len)
Truncated(file, n) == IF Len(file) > n THEN SubSeq(file, 1, n) ELSE file
WriteAt(file, off, b) ==
  [k \in 1..(IF Len(file) > off + Len(b) THEN Len(file) ELSE off + Len(b)) |->
     IF k > off /\ k <= off + Len(b) THEN b[k - off]
     ELSE IF k <= Len(file) THEN file[k] ELSE Rot]

(* read_at and truncate open an existing staging file, never create one.   *)
Opened == IF handle = "closed" /\ staged # <<>> THEN "open" ELSE handle

(* The staging file after the call's sink is gone.                         *)
LeftOnDisk(file) == IF handle = "orphan" THEN <<>> ELSE file

(* staged chunk i of descriptor d still carries its hash.                  *)
ChunkStaged(d, i) ==
  /\ Readable(staged, Offset(d, i), d.lens[i])
  /\ ReadAt(staged, Offset(d, i), d.lens[i]) = d.hashes[i]

-----------------------------------------------------------------------------
(* Holders: DescriptorExclusions and the reputation sidecar.               *)

LivePeers(vs) == {vs[i] : i \in DOMAIN vs}

Excluded == demoted \cup (IF trusts THEN remembered ELSE {})
UsableHolders(excluded) == providers \ excluded

(* The verdicts that retain leaves: those of other holders, in order.      *)
Retained(vs, p) == Retain(vs, LivePeers(vs) \ {p})

(* record_verdict: a repeated verdict moves to the end, the oldest ones    *)
(* are evicted over the cap.                                               *)
RecordVerdict(vs, p) ==
  LET kept == Append(Retained(vs, p), p)
      excess == IF Len(kept) > MaxVerdicts THEN Len(kept) - MaxVerdicts ELSE 0
  IN  SubSeq(kept, excess + 1, Len(kept))

-----------------------------------------------------------------------------
(* The locals of pull_with_descriptor go out of scope.                     *)
EndAttempt ==
  /\ source' = "none" /\ info' = NoInfo /\ index' = 1
  /\ checkpointed' = {} /\ done' = {} /\ fed' = <<>> /\ relocated' = FALSE

Init ==
  /\ artifact = <<>> /\ staged = <<>> /\ handle = "closed"
  /\ ckpt = NoCheckpoint
  /\ verdicts = <<>>
  /\ pc = "idle" /\ result = "none"
  /\ providers = {} /\ demoted = {} /\ remembered = {}
  /\ trusts = FALSE /\ attempts = 0 /\ refused = 0
  /\ source = "none" /\ info = NoInfo /\ index = 1
  /\ checkpointed = {} /\ done = {} /\ fed = <<>> /\ relocated = FALSE
  /\ faulted = FALSE

(* The call returns: its sink goes with it.                                *)
Return(r) ==
  /\ EndAttempt
  /\ pc' = "idle"
  /\ result' = r
  /\ handle' = "closed"

(* A local failure ends the call and blames nobody.                        *)
Terminal ==
  /\ Return("fault")
  /\ faulted' = TRUE
  /\ staged' = LeftOnDisk(staged)
  /\ UNCHANGED <<artifact, ckpt, verdicts, callVars>>

(* Only a proven-false descriptor earns a verdict.  Persisting it is best  *)
(* effort: the sidecar may stay, be torn, which reads as empty, or be      *)
(* replaced after an earlier one could not be read.                        *)
Remembers(proven) ==
  verdicts' \in {verdicts} \cup
                (IF proven THEN {<<>>, RecordVerdict(verdicts, source),
                                 RecordVerdict(<<>>, source)} ELSE {})

(* The budget is spent, or nobody is left although memory was dropped.     *)
GivesUp ==
  \/ attempts >= MaxAttempts
  \/ UsableHolders(Excluded \cup {source}) = {} /\ ~trusts

(* The descriptor attempt failed: its source is demoted for the call and   *)
(* another holder asked, or the call gives up.  Checkpoint and staged      *)
(* bytes are kept.                                                         *)
Demote(proven) ==
  /\ Remembers(proven)
  /\ demoted' = demoted \cup {source}
  /\ UNCHANGED <<artifact, ckpt, providers, remembered, trusts, attempts,
                 refused>>
  /\ IF GivesUp
     THEN Return("failed") /\ staged' = LeftOnDisk(staged)
     ELSE EndAttempt /\ pc' = "ask" /\ UNCHANGED <<result, handle, staged>>

-----------------------------------------------------------------------------
(* find_providers, then the verdicts remembered for this module (an        *)
(* unreadable sidecar reads as none).  Every honest holder located may be  *)
(* remembered for a descriptor beyond the limits.                          *)
Start ==
  /\ pc = "idle"
  /\ remembered' \in {LivePeers(verdicts), {}}
  /\ \E found \in SUBSET Peer :
       /\ providers' = found
       /\ faulted' = ((found \cap Honest) \ remembered' = {})
       /\ IF found = {}
          THEN pc' = "idle" /\ result' = "failed"
          ELSE pc' = "ask" /\ result' = "none"
  /\ trusts' = (remembered' # {})
  /\ demoted' = {}
  /\ attempts' = 0 /\ refused' = 0
  /\ UNCHANGED <<disk, verdicts, attemptVars>>

(* Mutant: memory is believed even when it leaves nobody to ask.           *)
StopTrustingNever ==
  /\ pc = "ask" /\ UsableHolders(Excluded) = {} /\ trusts
  /\ UNCHANGED vars

(* Mutant: dropping the memory forgets who was demoted in this call.       *)
StopTrustingAnything ==
  /\ pc = "ask" /\ UsableHolders(Excluded) = {} /\ trusts
  /\ trusts' = FALSE /\ demoted' = {}
  /\ UNCHANGED <<disk, verdicts, pc, result, providers, remembered, attempts,
                 refused, attemptVars, faulted>>

(* stop_trusting_memory: reputation alone never leaves nobody to ask.      *)
StopTrustingMemory ==
  /\ pc = "ask" /\ UsableHolders(Excluded) = {} /\ trusts
  /\ trusts' = FALSE
  /\ UNCHANGED <<disk, verdicts, pc, result, providers, demoted, remembered,
                 attempts, refused, attemptVars, faulted>>

(* fetch_module_info: some holder that is not excluded answers.            *)
Ask ==
  /\ pc = "ask"
  /\ \E p \in UsableHolders(Excluded) :
       /\ source' = p
       /\ info' \in Answers(p)
  /\ attempts' = attempts + 1
  /\ pc' = "plan"
  /\ UNCHANGED <<disk, verdicts, result, providers, demoted, remembered,
                 trusts, refused, index, checkpointed, done, fed, relocated,
                 faulted>>

(* A round that obtained no descriptor is spent; the last one ends the     *)
(* call.                                                                   *)
LoseRound ==
  /\ attempts' = attempts + 1
  /\ IF attempts' >= MaxAttempts
     THEN Return("failed") /\ staged' = LeftOnDisk(staged)
     ELSE UNCHANGED <<pc, result, handle, staged, attemptVars>>
  /\ UNCHANGED <<artifact, ckpt, verdicts, providers, demoted, remembered,
                 trusts>>

(* Mutant: a round that obtained no descriptor is always retried.          *)
AskFailsForever ==
  /\ pc = "ask"
  /\ UsableHolders(Excluded) # {} \/ ~trusts
  /\ attempts' = attempts + 1
  /\ faulted' = (faulted \/ UsableHolders(Excluded) \cap Honest # {})
  /\ UNCHANGED <<disk, pc, result, verdicts, providers, demoted, remembered,
                 trusts, refused, attemptVars>>

(* Every holder asked failed recoverably or timed out.                     *)
AskFails ==
  /\ pc = "ask"
  /\ UsableHolders(Excluded) # {} \/ ~trusts
  /\ faulted' = (faulted \/ UsableHolders(Excluded) \cap Honest # {})
  /\ LoseRound
  /\ UNCHANGED refused

(* One holder's error is not recoverable: the round ends there, before the *)
(* holders after it are asked.                                             *)
AskRefused ==
  /\ pc = "ask"
  /\ \E p \in UsableHolders(Excluded) :
       IF p \in Honest THEN faulted' = TRUE /\ UNCHANGED refused
                       ELSE refused' = refused + 1 /\ UNCHANGED faulted
  /\ LoseRound

(* from_info rejects the descriptor.                                       *)
Malformed ==
  /\ pc = "plan" /\ ~WellFormed(info)
  /\ Demote(TRUE)
  /\ faulted' = (faulted \/ source \in Honest)

(* The host cannot allocate the chunk plan: nobody is branded.             *)
PlanTooLarge ==
  /\ pc = "plan" /\ WellFormed(info)
  /\ Demote(FALSE)
  /\ faulted' = TRUE

(* load_or_fresh_state cannot parse the checkpoint: the call ends, and the *)
(* file is left as it is.                                                  *)
LoadFails ==
  /\ pc = "plan" /\ WellFormed(info) /\ ckpt.torn
  /\ Return("fault")
  /\ staged' = LeftOnDisk(staged)
  /\ UNCHANGED <<artifact, ckpt, verdicts, callVars, faulted>>

(* load_or_fresh_state: a checkpoint of the same chunk_lens is resumed,    *)
(* any other is left to be overwritten and what it staged is discarded.    *)
Plan ==
  /\ pc = "plan" /\ WellFormed(info) /\ ~ckpt.torn
  /\ IF ckpt.lens = info.lens
     THEN checkpointed' = ckpt.done /\ UNCHANGED <<staged, handle>>
     ELSE /\ checkpointed' = {}
          /\ staged' = <<>>
          /\ handle' = Opened
  /\ pc' = "chunk" /\ index' = 1 /\ done' = {} /\ fed' = <<>>
  /\ relocated' = FALSE
  /\ UNCHANGED <<artifact, ckpt, verdicts, result, callVars, source, info,
                 faulted>>

(* Mutant: a checkpointed chunk is trusted without hashing it again.       *)
ReadBackTrusted(i) ==
  /\ i \in checkpointed
  /\ Readable(staged, Offset(info, i), info.lens[i])

(* read_back_verified_chunk: readable and still carrying its hash.         *)
ReadBack(i) == i \in checkpointed /\ ChunkStaged(info, i)

NextChunk ==
  /\ index' = index + 1
  /\ done' = done \cup {index}
  /\ relocated' = FALSE

InLoop == pc = "chunk" /\ index <= Len(info.lens)

(* A checkpointed chunk is taken from the staging file.                    *)
ResumeChunk ==
  /\ InLoop /\ ReadBack(index)
  /\ fed' = fed \o ReadAt(staged, Offset(info, index), info.lens[index])
  /\ handle' = Opened
  /\ NextChunk
  /\ UNCHANGED <<artifact, staged, ckpt, verdicts, pc, result, callVars,
                 source, info, checkpointed, faulted>>

(* Some known holder can serve bytes that hash to chunk i of the           *)
(* descriptor: an honest one serves the true module only.                  *)
Servable(i) ==
  /\ Len(info.hashes[i]) = info.lens[i]
  /\ \/ providers \ Honest # {}
     \/ /\ Offset(info, i) + info.lens[i] <= Len(Truth)
        /\ info.hashes[i] = Slice(Truth, Offset(info, i), info.lens[i])

(* An honest holder is known that has the bytes chunk i asks for.          *)
HonestlyServable(i) ==
  /\ providers \cap Honest # {}
  /\ Offset(info, i) + info.lens[i] <= Len(Truth)
  /\ info.hashes[i] = Slice(Truth, Offset(info, i), info.lens[i])

(* fetch_verified_chunk and write_at.                                      *)
FetchChunk ==
  /\ InLoop /\ ~ReadBack(index)
  /\ Servable(index)
  /\ staged' = WriteAt(staged, Offset(info, index), info.hashes[index])
  /\ handle' = IF handle = "closed" THEN "open" ELSE handle
  /\ pc' = "save"
  /\ UNCHANGED <<artifact, ckpt, verdicts, result, callVars, attemptVars,
                 faulted>>

(* The checkpoint is saved with the chunks of THIS attempt so far, then    *)
(* the hasher absorbs the chunk.                                           *)
SaveChunk ==
  /\ pc = "save"
  /\ ckpt' = [lens |-> info.lens, done |-> done \cup {index}, torn |-> FALSE]
  /\ fed' = fed \o info.hashes[index]
  /\ pc' = "chunk"
  /\ NextChunk
  /\ UNCHANGED <<artifact, staged, handle, verdicts, result, callVars, source,
                 info, checkpointed, faulted>>

(* FileStateStore::save writes in place: the process dies, or the disk     *)
(* fills, between its truncation and its last byte.                        *)
SaveTorn ==
  /\ pc = "save"
  /\ ckpt' = Torn
  /\ \E r \in {"fault", "crashed"} : Return(r)
  /\ faulted' = TRUE
  /\ staged' = LeftOnDisk(staged)
  /\ UNCHANGED <<artifact, verdicts, callVars>>

(* Every known holder failed the chunk: the DHT is asked once more.        *)
Relocate ==
  /\ InLoop /\ ~ReadBack(index) /\ ~relocated
  /\ relocated' = TRUE
  /\ \E fresh \in SUBSET Peer : providers' = providers \cup fresh
  /\ faulted' = (faulted \/ HonestlyServable(index))
  /\ UNCHANGED <<disk, verdicts, pc, result, demoted, remembered, trusts,
                 attempts, refused, source, info, index, checkpointed, done,
                 fed>>

(* And they failed it again.                                               *)
ChunkExhausted ==
  /\ InLoop /\ ~ReadBack(index) /\ relocated
  /\ Demote(FALSE)
  /\ faulted' = (faulted \/ HonestlyServable(index))

(* The whole-module hash gate.                                             *)
HashGate ==
  /\ pc = "chunk" /\ index > Len(info.lens)
  /\ IF fed = info.module
     THEN /\ pc' = "anchor"
          /\ UNCHANGED <<disk, verdicts, result, callVars, attemptVars>>
     ELSE Demote(TRUE)
  /\ UNCHANGED faulted

(* StagedModuleReader: what the anchor verifier can read, every chunk      *)
(* hashed again; a chunk that cannot be is a read error.                   *)
ReaderSees == \A i \in DOMAIN info.lens : ChunkStaged(info, i)
Anchored == Slice(staged, 0, info.total) = Truth

(* Mutant: an unreachable chain is reported as NotAnchored.                *)
AnchorUnavailableBlames ==
  /\ pc = "anchor"
  /\ Demote(TRUE)
  /\ faulted' = TRUE

(* ModuleAnchor::Unavailable, or a read error: this node's own failure.    *)
AnchorUnavailable ==
  /\ pc = "anchor"
  /\ Terminal

(* Mutant: the anchor is not asked (AcceptAnyModuleAnchor).                *)
AnchorAcceptsAny ==
  /\ pc = "anchor" /\ ReaderSees
  /\ pc' = "promote"
  /\ UNCHANGED <<disk, verdicts, result, callVars, attemptVars, faulted>>

(* The chain-anchor gate.                                                  *)
AnchorGate ==
  /\ pc = "anchor" /\ ReaderSees
  /\ IF Anchored
     THEN /\ pc' = "promote"
          /\ UNCHANGED <<disk, verdicts, result, callVars, attemptVars>>
     ELSE Demote(TRUE)
  /\ UNCHANGED faulted

(* promote_verified: trim to the verified length, prove it, rename.        *)
Promote ==
  /\ pc = "promote"
  /\ handle # "orphan" /\ Len(staged) >= info.total
  /\ artifact' = Slice(staged, 0, info.total) /\ staged' = <<>>
  /\ handle' = "closed" /\ pc' = "clear"
  /\ UNCHANGED <<ckpt, verdicts, result, callVars, attemptVars, faulted>>

(* The promotion is refused or the rename fails (always, when the staging  *)
(* file was removed): checkpoint and bytes are dropped, best effort.       *)
PromotionRefused ==
  /\ pc = "promote"
  /\ ckpt' \in {ckpt, NoCheckpoint}
  /\ staged' \in {<<>>, LeftOnDisk(Truncated(staged, info.total))}
  /\ Return("fault")
  /\ faulted' = (faulted \/ (handle # "orphan" /\ Len(staged) >= info.total))
  /\ UNCHANGED <<artifact, verdicts, callVars>>

(* The checkpoint is cleared after the promotion; failing to is an error   *)
(* of the call although the artifact is in place.                          *)
Clear ==
  /\ pc = "clear"
  /\ ckpt' = NoCheckpoint
  /\ Return("ok")
  /\ UNCHANGED <<artifact, staged, verdicts, callVars, faulted>>

(* A store or sink operation of the attempt fails.                         *)
LocalFault ==
  /\ pc \in {"plan", "chunk", "save", "clear"}
  /\ Terminal

-----------------------------------------------------------------------------
(* The environment.                                                        *)

(* The process dies; the disk stays.                                       *)
Crash ==
  /\ pc # "idle"
  /\ Return("crashed")
  /\ faulted' = TRUE
  /\ staged' = LeftOnDisk(staged)
  /\ UNCHANGED <<artifact, ckpt, verdicts, callVars>>

(* A sweep removes the staging file: no claim protects it.  An open handle *)
(* keeps reading and writing the removed file.                             *)
Reap ==
  /\ handle # "orphan" /\ staged # <<>>
  /\ IF handle = "open"
     THEN handle' = "orphan" /\ UNCHANGED staged
     ELSE staged' = <<>> /\ UNCHANGED handle
  /\ faulted' = (pc # "idle" \/ faulted)
  /\ UNCHANGED <<artifact, ckpt, verdicts, pc, result, callVars, attemptVars>>

(* Between calls a staged byte rots.                                       *)
BitRot ==
  /\ pc = "idle" /\ staged # <<>>
  /\ \E k \in DOMAIN staged : staged' = [staged EXCEPT ![k] = Rot]
  /\ UNCHANGED <<artifact, handle, ckpt, verdicts, pc, result, callVars,
                 attemptVars, faulted>>

(* BAD_DESCRIPTOR_TTL passes for the oldest verdict.                       *)
VerdictExpires ==
  /\ pc = "idle" /\ verdicts # <<>>
  /\ verdicts' = Tail(verdicts)
  /\ UNCHANGED <<disk, pc, result, callVars, attemptVars, faulted>>

PullStep ==
  \/ StopTrustingMemory \/ Ask \/ AskFails \/ AskRefused
  \/ Malformed \/ PlanTooLarge \/ LoadFails \/ Plan
  \/ ResumeChunk \/ FetchChunk \/ SaveChunk \/ SaveTorn
  \/ Relocate \/ ChunkExhausted
  \/ HashGate \/ AnchorGate \/ AnchorUnavailable
  \/ Promote \/ PromotionRefused \/ Clear \/ LocalFault

Next == Start \/ PullStep \/ Crash \/ Reap \/ BitRot \/ VerdictExpires

Spec == Init /\ [][Next]_vars

(* The task that runs the call is scheduled; every ask and fetch inside a  *)
(* step is bounded by range_timeout, and find_providers and the anchor     *)
(* verifier are taken to return.                                           *)
FairSpec == Spec /\ WF_vars(PullStep)

-----------------------------------------------------------------------------
TypeOK ==
  /\ artifact \in Contents /\ staged \in Contents
  /\ handle \in {"closed", "open", "orphan"}
  /\ ckpt \in [lens : Seq(Nat), done : SUBSET Nat, torn : BOOLEAN]
  /\ verdicts \in Seq(Peer)
  /\ pc \in {"idle", "ask", "plan", "chunk", "save", "anchor", "promote",
             "clear"}
  /\ result \in {"none", "ok", "failed", "fault", "crashed"}
  /\ providers \subseteq Peer /\ demoted \subseteq Peer
  /\ remembered \subseteq Peer /\ trusts \in BOOLEAN
  /\ attempts \in 0..MaxAttempts /\ refused \in 0..MaxAttempts
  /\ source \in Peer \cup {"none"}
  /\ info \in Infos
  /\ index \in Nat \ {0}
  /\ checkpointed \subseteq Nat /\ done \subseteq Nat
  /\ fed \in Contents /\ relocated \in BOOLEAN /\ faulted \in BOOLEAN

(* Fail closed (module.rs:511-520, 565-600): whatever holders, crashes,    *)
(* sweeps and rotten bytes do, the final path never holds anything but the *)
(* chain-anchored module.                                                  *)
ArtifactAnchored == artifact \in {<<>>, Truth}

(* #1611 (module.rs:403-409): the only verdict an honest holder can earn   *)
(* is for a descriptor beyond the limits of from_info; never for bytes a   *)
(* liar staged before, nor for an outage of the chain, nor because its     *)
(* chunks could not be fetched.                                            *)
HonestNeverBranded ==
  [][\A p \in Honest :
       p \in LivePeers(verdicts') \ LivePeers(verdicts)
         => source = p /\ ~WithinLimits(info)]_vars

(* module.rs:351-356 and 419-424: a call that gives up before its budget   *)
(* is spent has tried a descriptor of every holder it knows; remembered    *)
(* verdicts alone never deny a pull.                                       *)
MemoryNeverDenies ==
  (pc = "idle" /\ result = "failed" /\ attempts < MaxAttempts)
     => providers \subseteq demoted

(* module.rs:1023 "never droppable": a holder demoted in a call is not asked*)
(* for a descriptor again before the call ends, also when the memory of    *)
(* earlier calls is dropped on the way.                                    *)
DemotedNotReasked ==
  [][/\ pc # "idle" => demoted \subseteq demoted'
     /\ source' \notin {source, "none"} => source' \notin demoted]_vars

(* What bad_descriptor_peers remembers (module.rs:351-357) reorders the    *)
(* holders of a call: believing it never ends the call before every holder *)
(* was asked, and dropping it never forgets who was demoted in the call.   *)
MemoryOnlyReorders == []MemoryNeverDenies /\ DemotedNotReasked

(* The last call failed, and this node, discovery and the honest holders   *)
(* worked all along.                                                       *)
Denied == pc = "idle" /\ result \in {"failed", "fault"} /\ ~faulted

(* Every round was lost to a liar of its own or to a refusal.              *)
LiarsSpendBudget == Cardinality(providers \ Honest) + refused >= MaxAttempts

(* A call in which this node, discovery and the honest holders worked      *)
(* succeeds unless the liars known, each of them once, and their refusals  *)
(* use up the budget, whatever an earlier call left staged, recorded or    *)
(* remembered (module.rs:343-347: one holder must not deny a capsule's     *)
(* reshare).  After a save of the checkpoint that was torn every later call*)
(* ends in LoadFails: the one exception, though resume is documented never *)
(* to be a correctness dependency (module.rs:823).                         *)
LiarsCannotDeny == Denied /\ ~ckpt.torn => LiarsSpendBudget

(* module.rs:370-374: an unanswerable holder set cannot hold the pull open *)
(* indefinitely.                                                           *)
CallEnds == pc # "idle" ~> pc = "idle"

=============================================================================
