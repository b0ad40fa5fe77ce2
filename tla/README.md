# A TLA+ model of dig-download

dig-download fetches a content-addressed resource from several holders at once,
verifies it against the chain-anchored root its content id names, and puts it at a
target path. This directory holds TLA+ modules translated from the Rust source
(`src/src/*.rs`), TLC configurations that check them on small instances, and
TLAPS proofs of their main safety properties for every value of the constants.
`PROJECT.json` lists the runs, the theorems, the hazards, and for each definition
the lines it models.

## The system

| component | state | operations | interacts with |
|---|---|---|---|
| range scheduler (`orchestrator.rs`, `schedule_loop`) | range states, futures in flight, per-source counters, retry and relocation budgets, provider list, paused flag | fill, result, relocate, refresh, wait out a backoff, pause, resume, cancel | selector and tracker (calls), transport (futures), locator (await), sink and state store (await), caller (control and event channels) |
| job lifecycle (`orchestrator.rs`, `run`, `run_inner`) | commitment, resume state, hasher | load, claim, locate, probe, reset, persist, rehydrate, schedule, leaf check, promote, discard | state store, registry, sink, other attempts through the disk |
| sink (`sink.rs`) | staging file, target file | write_at, read_at, truncate, finalize, promote_verified | job, GC |
| checkpoint store (`progress.rs`) | one checkpoint file per key; reputation records | load, save, clear, record_bad_descriptor | job, module puller |
| claim registry and staging GC (`gc.rs`) | set of protected paths | claim, release on drop, sweep | jobs of one `Downloader` |
| queue (`queue.rs`) | submission channel, mutex, workers, two event channels per job | submit, recv, run_job, forward, join | downloader, callers |
| source tracker (`source.rs`) | per peer: failures, backoff deadline | record_success, record_failure, is_available | scheduler |
| selection (`select.rs`) | rotation counter | select, record | scheduler |
| planner (`plan.rs`), verifier and hasher (`verify.rs`) | frontier and out-of-order buffer | plan_ranges, check_consistent, verify_range, feed, verify_resource_leaf | job |
| stream assembly (`source.rs`) | one stream's identity, byte frontier, layout assembler | assemble_range_stream | transport of a fetch |
| NAT transport and pool (`source.rs`, `addr.rs`) | pooled sessions, one lock per session | provider_dial_targets, connect, open_stream, evict | concurrent fetches and availability queries |
| module puller (`module.rs`) | checkpoint per chunk, exclusions, reputation | descriptor rounds, chunk fetch, hash gate, anchor gate, promotion | sink, state store, locator, chain anchor, sweeps |
| rate limiter (`throttle.rs`) | token buckets behind a fair gate | acquire | serving side of the transport |
| read ladder (`read_ladder.rs`) | resolved-node cell | resolve_node, get_or_resolve | concurrent clients, health probe |
| onion (`onion.rs`) | a node's relay policy and window | HopPath::try_new, decide_relay_stream | hops of a path |

What is hard here: one task multiplexes fetch results, a control channel, sleeps and
awaited discovery in a `select!`; attempts crash at any await and leave a checkpoint
and a staging file that need not agree; holders lie, and the per-range checks are
structural only; two jobs may name the same staging path; bounded channels block
their senders. The hazards in `PROJECT.json` name the lines.

What makes it correct: nothing but the whole verified resource ever appears at the
target; progress never claims bytes that are not staged; a verified range is not
fetched again; a download terminates, and can be retried after any failure; caps and
queue order are respected; liars, a wrong memory of liars, sweeps and crashes cannot
deny what an honest holder serves; no holder can keep a reader busy without end.

## Modules

- `Scheduler` is one run of `schedule_loop`. Between two awaits the task runs alone, so
  an action is the code between two points where another actor can act: the body of
  the loop (`SkipFill` .. `WaitBackoff`, with `pc` naming the place), one action per
  `select!` branch and per outcome of `handle_result`, and actions for the clock
  (`BackoffExpires`) and the caller (`Send`, `DropHandle`). Awaited discovery is a place of
  its own, `relocating` or `refreshing`, at which only the clock and the caller act: the
  code polls nothing else until every located holder has answered. A run starts from any
  checkpoint: `saved` may claim ranges that rehydration then dropped, and indices of
  an earlier plan. A range has length one,
  time is the set of peers inside a backoff window, the selector is a free choice of
  live candidates. A selector that offers a peer that was not a candidate is outside
  its contract (`select.rs`) and not modelled. `emit` is not modelled here: the caller
  is taken to drain the events (module `DownloadQueue` shows what happens if it does not).
- `DownloadJob` is `run`/`run_inner` for a set of jobs at one target, over many attempts,
  with the disk they share. Bytes are cells: `good`, `bad` (right length, wrong
  content), `hole` (zeros of a sparse write) or `none` (past the end). A layout is its
  number of chunks. Every await is a point where another job may step or the attempt
  may crash. `calm` says the environment has stopped lying and failing.
- `VerifiedArtifact` is the promise seen from the target path; `DownloadJob` implements it
  (`ArtifactSpec`, the target file mapped to absent, verified or corrupt).
- `DownloadQueue` is `queue.rs`: workers, the mutex held across `recv`, and the two
  event channels between a download and the caller, as counters.
- `ModulePull` is `ModuleDownloader::download`, call after call against the disk the last
  one left. A descriptor attempt is `Plan`, then per chunk `ResumeChunk` or `FetchChunk`
  and `SaveChunk`, then `HashGate`, `AnchorGate`, `Promote`, `Clear`; `Demote` is what a
  failed attempt does. Contents are sequences of small numbers and a hash is the content
  it is the hash of. `handle` keeps the open file apart from its path: the puller holds no
  claim, so `Reap` may unlink the file it is writing. `verdicts` is the reputation
  sidecar; `Remembers` lists what a best-effort save of it can leave. `SaveTorn` is a
  checkpoint write that did not finish and `LoadFails` what a later call makes of it.
  `WithinLimits` are the limits of `from_info` on the size and on the number of chunks; an
  honest descriptor may be beyond them. `faulted` records that this node or discovery
  failed the running call, or its honest holders did (did not answer, gave a descriptor beyond
  the limits, or were all remembered for one); `refused` counts the rounds that a liar ended with a
  non-recoverable error.
- `RangeStream` is `assemble_range_stream`: one frame per step from a sender that keeps the
  wire contract (`conforming`, or `skipping` for a `skip_layout` request) or sends
  anything (`arbitrary`). An optional field is a set of at most one value. The four exits
  of the loop body, the page assembler and the trailer drain are actions or operators.
- `VecRetain` is `Vec::retain` and `Iterator::filter`, written as a recursive function the
  proofs can expand; `ConnPool` and `ModulePull` use it.
- `ConnPool` is `NatRangeTransport`: requests to one provider that look up, dial
  address by address, insert, lock the session, open a stream, evict, and may be
  cancelled at any await; sessions break under them.
- `StagingGc` is `TmpGc::sweep_at` beside `FileSink` and the claim registry: listing, age,
  protection and removal are separate steps, and a file (an inode) outlives its name
  while a sink has it open.
- `RateLimiter` is `FcfsRateLimiter` in ticks, with a meter per bucket that records the
  largest excess of what was let through over what the rate allows.
- `ReadLadder` is `resolve_node` behind the cached cell; `ResourceAssembly` is layout
  adoption, `plan_ranges`, `verify_range` and `ResourceHasher` for layouts of uneven
  chunks, zero lengths included (`DebugAssertions` says whether the build has the
  assertion of `verify_range`); `OnionRelay` is `HopPath::try_new` and
  `decide_relay_stream` along a path of nodes with their own policies and windows.
- `MCScheduler`, `MCDownloadJob`, `MCDownloadQueue`, `MCModulePull` and `MCRangeStream`
  instantiate one module each. `MCDownloads` puts the job lifecycle and the queue, and
  `MCComponents` puts the seven small components, each into one
  specification: the parts share no state, `focus` chooses at the start which of them moves
  for the whole behaviour, and the state space is the sum of theirs. `job_recovery` is `MCDownloads`
  with the jobs alone (`Parts`).

The proofs are in a module per component (`SchedulerProofs`, `DownloadJobProofs`,
`DownloadQueueProofs`, `ModulePullProofs`, `RangeStreamProofs`, `ResourceAssemblyProofs`), those of
the smaller components together in `ComponentProofs`, and the lemmas about sequences and
recursive functions that several of them cite in `DataLemmas`.

Definitions that `PROJECT.json` lists as mutants (`FreeSlotLeaks`, `ClaimShared`,
`EvictNothing`, ...) are plausible wrong versions of the definition that follows them,
with a comment that says so; they take part in no specification and show that a property
can fail.

## Runs

| run | result | what it shows |
|---|---|---|
| `scheduler_safety` | holds, 4 317 508 states | types, accounting of what is in flight, caps, budgets, progress, no save that claims what is not staged, no re-fetch, no fetch while paused or to a holder in backoff |
| `scheduler_liveness` | holds, 404 118 states | while discovery answers, the download ends unless it stays paused; a delivered cancel or a dropped handle ends it |
| `scheduler_no_providers` | violated | finding 1 |
| `downloads` | holds, 437 077 states | job lifecycle (88 070 of them): the target is absent or verified, through lies, crashes, torn checkpoints, GC; resume fetches nothing twice. Queue: active bound, order up to the workers' race, every reader is served |
| `job_recovery` | holds, 719 884 states | two jobs under one registry: exclusive claim, and recovery once the environment is calm |
| `job_lie`, `job_torn` | violated | findings 2 and 3 |
| `module_pull` | holds, 949 535 states | one honest holder among two liars: only the anchored module is promoted, the honest holder is branded for nothing but a descriptor beyond the limits, memory never denies and a demoted holder is not asked again, liars within the budget cannot deny, a call ends |
| `components` | holds, 103 014 states | the properties of the seven components of `MCComponents`, listed below |
| `stream_skip` | violated | finding 5 |
| `queue_starvation` | violated | finding 4 |
| `queue_documented` | violated | findings 6 and 7, both in one trace |

What `components` checks:

| module | property | meaning |
|---|---|---|
| `RangeStream` | `StreamBounded` | reads, buffer and drain are bounded whatever is sent |
| | `NeverPartialLayout` | a layout is adopted whole or not at all |
| | `NoRevisionBelieved` | a believed range never had two identities |
| | `ConformingAssembled` | a conforming answer is never refused |
| `ConnPool` | `BrokenSessionLeaves` | a broken session does not stay pooled |
| | `ConnectTriesAll` | a provider is given up only after every address |
| `StagingGc` | `PromotesOwnFile` | a job renames only the file it wrote |
| | `OrphansReaped` | an orphan is reaped or claimed although sweeps fail midway |
| `RateLimiter` | `RateKept` | rate over every stretch of time, plus one burst or frame |
| | `AcquireReturns` | oversized frames, debts and dropped callers block nobody |
| `ReadLadder` | `AnswerJustified` | the cached node is what one client's complete pass found |
| `ResourceAssembly` | `LeafOfWholeResource` | each byte hashed once, in order, in any feed order |
| | `PlanIsVerifiable` | every planned range passes the verifier, and a debug build panics exactly after an empty chunk |
| `OnionRelay` | `RelaySpendBounded` | no node pays more than its ceiling or its window |

**Bounds.** Three ranges and holders with a concurrency of two and one fetch per
source make every cap bind while ranges wait; one attempt per range and one relocation
let the budgets run out in few steps; two commands suffice for pause then cancel, or a
full channel (`ControlCap` 1 in the liveness run). Three cells with a true length of two
give a shorter and a longer lie, a hole and a tail; windows of one and two cells
re-interpret checkpointed indices. `job_recovery` has no lies and no torn saves because
those two are findings 2 and 3. Event channels of one place (256 in the code) block
after one event. Symmetry is used over holders in the safety run only. The resumed checkpoint
may hold one index past the plan. Two ranges and holders are enough for
the run of finding 1.
`module_pull` has an honest holder and two liars, two rounds (the code has 3) so that the
budget and the set of holders can each run out first, and a memory of one verdict (32
in the code) so that eviction happens with two liars; the lying descriptors fabricate a
whole module, a longer one, the hash of one chunk under the true module hash, and one
whose lengths do not add up. The true module comes in one chunk, in two or, one past
`MaxModuleChunkCount`, in three of which one is empty, so an honest holder has a layout within the limit
and one beyond it. In `components` a window of two bytes, pages of two
entries and counts up to three give a layout of two pages, the second of them short;
two requests and two faults let a session break while one holds it and the other dials;
two jobs, two paths and one sweep with two claims and one error reach a claim inside the
sweep's window; two callers, rates of one and two and a frame of five tokens overdraw
both buckets; layouts of up to four chunks of length 0 to 3 meet windows of 0 to 3 and
exceed both caps; two nodes with every policy let a path name a node twice. One value
past each limit is in the inputs, so every refusal fires.

**Fairness.** The task is polled (weak fairness of its own steps). A fetch resolves:
`range_timeout` bounds it (30 s by default; with `None` this is an assumption on the
transport). Nothing bounds discovery: `locate_and_confirm` awaits `query_availability`
without a timeout, so its return has no fairness and `Termination` and `CallerCanEnd` assume
`DiscoveryAnswers`, that the task is not held by it for ever (the known divergences below say
what happens otherwise). `select!` picks a ready branch at random, so a branch that is ready again
and again is taken (strong fairness of control, results and the backoff sleep). The
clock advances. In `DownloadJob` a caller retries a failed download; in `DownloadQueue`
spawned tasks are polled and a caller that holds its handle reads it. In `ModulePull` the
task that runs the call is polled, each ask and each chunk ends by `range_timeout`, and
`find_providers` (`module.rs:742`) and the anchor verifier (`module.rs:578`), which have no
timeout in this crate, are assumed to return; nothing obliges a caller to call or the disk to rot.
In `ConnPool` downloads keep sending requests and each is polled, for a broken session is
only noticed by the next request that uses it. In `StagingGc` the sweep recurs on its
interval and files age; claims come to an end (`MaxClaims`). In `RateLimiter` time
passes and the caller inside the gate is polled when its sleep is over.
`CHECK_DEADLOCK FALSE` in the queue runs, in `downloads`, `components` and `stream_skip`: when
all submissions are served, the queue is dropped, or a component's inputs are used up,
nothing more happens. `job_recovery` checks jobs for deadlock.

## Findings

1. `NoProviders` with a live holder: a backoff that ends while `relocate` is awaited
   makes `earliest_backoff` return `None` (`orchestrator.rs:746`), against SPEC 298-299.
2. A lying layout, once persisted (`orchestrator.rs:1302`), denies the content for good:
   a `NoProviders` exit keeps it, and later attempts skip the probe.
3. A crash inside `FileStateStore::save` (`progress.rs:418`) leaves a checkpoint every
   later attempt fails on.
4. A dropped `QueuedHandle` can cost the queue a worker for good (`queue.rs:133`).
5. A data range with `skip_layout` from a holder that keeps the wire contract is refused:
   `chunk_count` without entries is taken for a paged layout that never came
   (`source.rs:431`, `566`), against SPEC 105-116 and 144-146.
6. Downloads can start out of submission order (`queue.rs:74`), against `queue.rs:15-16`
   and SPEC 557-558; what is kept of the order is `BoundedOvertaking`.
7. A download that waits when the queue is dropped still runs and delivers its result
   (`queue.rs:72`), against SPEC 561 and `queue.rs:144-145`, `150-151`, which promise
   `TaskEnded`; what the code does is `ReadersAreServed`.

The trace of `queue_documented` shows both: `OrderOrEndAsDocumented` fails only in a behaviour
that breaks the documented order and the documented end.

**Known divergences without a run.**

- A holder that never answers an availability query holds the task inside `relocate` or the
  refresh branch (`orchestrator.rs:1062`), where neither a cancel nor a dropped handle is polled,
  against SPEC 298-300. `Termination` and `CallerCanEnd` are violated without their premise
  `DiscoveryAnswers`.
- `debug_assert_eq!(cs, start)` (`verify.rs:439`) fails on honest bytes: with chunk lengths
  1, 0, 1 and a window of 1 the second planned range starts at chunk 2 and
  `chunks_for_range` finds chunk 1, which is empty and has the same offset. A build with debug
  assertions panics, a release build verifies the range. `PlanIsVerifiable` says which ranges.
- A torn save of a module checkpoint ends every later pull of the module in
  `load_or_fresh_state` (`module.rs:808`). It is finding 3 in the other client of the
  store; `LiarsCannotDeny` excludes it.
- Any holder can end a round with a `getModuleInfo` error that is not recoverable
  (`module.rs:677`; the trait asks for a recoverable one, `module.rs:93-95`), so that one liar can
  spend every round, which `LiarsSpendBudget` counts in `refused`.
- A holder of a module beyond the limits of `from_info` is remembered as a liar
  (`module.rs:1149`, `1162`), which `HonestNeverBranded` names as its one exception.
- Two `Downloader`s over one directory (`SharedRegistry = FALSE`, two jobs) can promote a
  wrong artifact of the right length, for the length proof SPEC 481-483 relies on does not
  see it (`sink.rs:209`).
- A job that loads the checkpoint before another one ends and claims after it
  (`orchestrator.rs:395`, `432`; two jobs, one registry) saves a stale copy and fetches verified
  ranges again.

## Proofs

All theorems hold for every value of the constants that the named assumptions of each
module admit (`ConfigAssumption`, `PeerAssumption`, `ContentAssumption`,
`QueueAssumption`, `PullAssumption`, `HonestAssumption`, `StreamAssumption`,
`PoolAssumption`, `StagingAssumption`, `LimiterAssumption`, `LadderAssumption`,
`AssemblyAssumption`, `OnionAssumption`). What they ask beyond types: holders are
finitely many (`PullAssumption`); the layout of an honest holder is not empty and adds up to the
module (`HonestAssumption`).
A theorem that needs more says so in its own ASSUME. Every invariant and every
action property that a passing run checks is stated by a theorem.

**Induction** (`DataLemmas`). The library's induction theorems take a predicate, which the
provers cannot instantiate; a set they can. `NatSetInduction` says that a set with zero and
every successor holds all of Nat (its complement would have a least element), and
`RecursionExists` that a function given by a base and a step for each number exists. From the
two follow what the recursive functions of the models compute: the sums of chunk
lengths (`SumsDefined`, `SumsGrow`, `ByteInChunk`) and what `Vec::retain` keeps
(`RetainKeeps`, `RetainLengths`).

**Scheduler** (`SchedulerProofs`). `TypeCorrect` first. The invariants are proved together as `SchedulerInv`
(`SchedulerInvariant`), because they lean on each other: a result may free its slot only
if the accounting says the pair was counted; the caps follow from the accounting and the
guards of `Assign`; `ProgressIsReal` needs the accounting to know that a completing
range was not Done before; and the fill pass needs its own part, that the peers on offer
are still outside their backoff while the pass runs. A resumed checkpoint may claim what is not
staged; that a save adds only what is (`ClaimsKept`, `CheckpointSafe`) needs another part,
that what the resume state records and no checkpoint claims yet is staged (`ClaimsInherited`). `StepKinds` groups the actions by
what they touch, one lemma per part shows it is kept, and `AccountingSafe`, `CapsSafe`,
`ProgressSafe`, `CheckpointSafe`, `RetriesSafe`, `DoneIsFinal` and `FetchesScheduled` are the properties of
`scheduler_safety`.

**DownloadJob** (`DownloadJobProofs`). `ArtifactVerified` is not inductive. `PromotionInv` adds what carries it:
a job past the claim holds it, and alone (`OwnsClaim`, `ExclusiveClaim`); whatever the
hasher was fed is what the staging file holds (`FedIsStaged`); after the leaf check that is
the true content (`LeafBound`); after the truncate nothing follows it (`TailTrimmed`).
`PromotionSafety` and `Refinement` assume `SharedRegistry` and `VerifyWhole`: two
registries over one directory are what fails without the first. `PromotionExact`
(`PromotesWhatItChecked`) needs only `SharedRegistry`: `FedInv` adds to `FedIsStaged` and
`TailTrimmed` that a range counted as done was fed to the hasher (`DoneIsFed`), so that,
the planned ranges covering the layout (`RangesCover`), nothing is missing past the leaf
check (`AllFed`). Any number of jobs, cells, lies and windows is covered.
Resume: `RecordKept` says that while an attempt fetches, the checkpoint is its own and what it
records beyond what the attempt counts as done has a byte missing, which only fetching it
brings back, for a write elsewhere leaves a hole there. Hence `RecordedSpared`, for any
number of jobs of one registry. That no save drops such a range needs `LoadIsFresh`, that
the checkpoint did not change between an attempt's load and its first save; it is true of one
job at a time, so `ResumeFetchesMissing` (`VerifiedRangeNeverRefetched`) assumes one. Both
need `VerifyWhole`: without it nothing is rehydrated.

**DownloadQueue** (`DownloadQueueProofs`). `QueueInv` says that the channel is the tail of
the submissions in order (`Fifo`), that a worker past `Recv` has a job that was taken
(`WorkerHasJob`), that a running download has a worker that will join it
(`Watched`), that what left the channel was started or is in the hands of a worker about
to start it (`TakenOrStarted`), and that once a download has started some worker holds no
earlier one that has not (`OneMovedOn`). `ActiveSafe` and `OvertakingBounded` count over it: jobs that
workers hold are no more than the workers (`HeldByWorkers`), and one worker less
bounds the overtaken.

**ModulePull** (`ModulePullProofs`). `TypedInv` carries `PullTypeOK`: the source of an attempt
is a holder the call knows, and its descriptor passed `from_info` before any chunk is read.
`GatedInv` carries `ArtifactAnchored`: between the anchor
gate and the rename the staging file is the one that was judged or is gone.
`FedInv` carries `HonestSpared`: what an attempt on an honest descriptor has fed to its hasher
is exactly the part of the module before the next chunk, wherever each chunk came from
(staged, rotten and fetched again, or of a liar's layout), so the hash gate cannot fail for
it, and a step can brand an honest holder only where `from_info` finds its descriptor beyond
the limits (`BrandNext`). `DemotedOnce` needs no invariant: a step that demotes adds, and an
ask takes from those not excluded, whether the memory is believed or not; `BudgetInv` carries
`ReputationNeverDenies`; the two are `MemoryHarmless`. `AccountInv` carries `DenialNeedsLiars`: in a call
without a fault every round so far was lost to a liar of its own or to a refusal (`Unfaulted`),
and an honest holder that was neither remembered nor demoted is still to be asked.

**RangeStream** (`RangeStreamProofs`). `StreamInv` is an account: each frame read is paid by a
byte of the window or an entry of the layout that no other frame paid, so
`HolderCannotStall` follows from their number. `BelievedInv` says of a stream not refused
so far that every identity stated is the first frame's and that only an assembler still
open lacks entries; `NoRevisionSafe` and `LayoutWhole` read it at the end.
`ConformingInv` follows a stream that keeps the contract: the pages that came are the first
entries of the layout, up to a page boundary or to the end, the bytes that came are the first
of the window, and something is still due. So no exit that refuses is ever reached
(`ConformingIsAssembled`), for any way of cutting pages and bytes into frames.

**ResourceAssembly** (`ResourceAssemblyProofs`). First the plan, by induction over the turns of
`plan_ranges` (`StartsRun`): it tiles the resource (`PlanTiles`), and each range of it ends on
a boundary that `verify_range` finds whatever empty chunks share it (`PlannedVerifies`). The
first boundary at an offset is the range's own exactly if no empty chunk ends there, because
offsets grow with every chunk that is not empty (`StartsAsserted`), hence `PlanVerifies`, for
debug and release builds. Then the hasher: it is in place (`InPlace`) when what is hashed follows on
without a gap up to a frontier where a range begins or the resource ends, what was fed and is
not buffered lies behind it, and what is buffered does not. A turn of the drain keeps that
(`DrainsOne`), as many turns as there are buffered ranges leave nothing at the frontier
(`DrainedSettles`), and a plan that was fed whole has nowhere else to stop than the end
(`LeafIsWhole`).

**The others** (`ComponentProofs`). `StagingInv`: claims are exclusive (`ClaimsExclusive`) and the path of an open
staging file names that file or nothing (`NameOrNothing`), which is what the sweep's late removal can leave (`PromotionIsOwn`).
`LimiterInv`: what a bucket let through in excess is at most what it still owes
(`ExcessIsOwed`), hence `RatesKept`. `LadderInv`: one client resolves at a time
(`OneResolves`), hence `LadderJustified`. `OnionInv`: a hop not reached yet has paid nothing
for the stream (`PaysOnce`), which needs `try_new` to refuse a repeated hop,
hence `RelaySpendSafe`. `PoolInv`: a dialing request has missed every target it passed, and the
target list loses no literal address to the sort by family (`TargetsListed`), hence
`ConnectTriesEach`.

**Only model-checked.** Liveness (`Termination`, `CallerCanEnd`, `Recovers`,
`ReadersAreServed`, `CallEnds`, `BrokenSessionLeaves`, `OrphansReaped`, `AcquireReturns`) is
out of the prover's reach: it needs ENABLED of the fair actions.

## Not modelled

SHA-256 and merkle proofs (a collision-free check that accepts the true content only),
wording and sanitising of errors, NAT traversal and the dial itself, the DHT adapter
(`locate.rs`, stateless), the onion circuit, events other than as items in a channel,
`InMemorySink`, `InMemoryStateStore` and the test kit (test doubles), the doubling of
backoff windows and the `served` counter, and `NullSelector`'s rotation, which the free
choice of the scheduler's selector covers. `Scheduler` and `DownloadJob` keep ranges of
one unit; uneven chunks are `ResourceAssembly`'s. `DownloadJob` does not keep a handle
apart from its path (`StagingGc` and `ModulePull` do), so a second `Downloader` can do
more than the divergence above says. The stream reader is checked apart from the
scheduler that calls it, and the module puller with one call at a time, so that nothing but a sweep, a crash
or rot changes its staging file between the gates and the rename.

## Plan

What would add most from here: compose `StagingGc`'s open handles into `DownloadJob`;
two module pulls of one module at once; as theorems, the safety steps the liveness
properties rest on (what each fair step brings closer to its end).
