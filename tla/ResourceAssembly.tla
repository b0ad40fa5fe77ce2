--------------------------- MODULE ResourceAssembly ---------------------------
(***************************************************************************)
(* From a declared layout to the resource leaf (verify.rs, plan.rs): a     *)
(* commitment is adopted from the first frame, cut into chunk-aligned      *)
(* ranges, every range is checked on arrival, and the streaming hasher is  *)
(* fed the ranges in whatever order they were fetched.  Bytes are kept as  *)
(* the spans they come from, so the digest is the sequence of spans that   *)
(* was hashed.                                                             *)
(***************************************************************************)
EXTENDS Integers, Sequences, FiniteSets

CONSTANTS
    Layouts,           \* the chunk_lens arrays a first frame may declare
    MaxRangeWindow,    \* the largest window given to plan_ranges
    MaxResourceSize,   \* max_resource_size
    MaxChunkCount,     \* MAX_RESOURCE_CHUNK_COUNT
    MaxLength,         \* the largest u64
    DebugAssertions    \* is the crate built with debug assertions?

ASSUME AssemblyAssumption ==
    /\ MaxRangeWindow \in Nat /\ MaxResourceSize \in Nat
    /\ MaxChunkCount \in Nat /\ MaxLength \in Nat
    /\ Layouts \subseteq Seq(Nat)
    /\ DebugAssertions \in BOOLEAN

VARIABLES
    adoption,      \* whether a layout was "adopted", "refused" or not yet seen
    chunkLens,     \* the adopted commitment's chunk_lens
    rangeWindow,   \* the window it is planned with
    fed,           \* the ranges that were verified and fed
    hashed,        \* the spans hashed, in order
    nextOffset,    \* next_offset
    ahead          \* pending: the ranges buffered past a gap

assemblyVars == <<adoption, chunkLens, rangeWindow, fed, hashed, nextOffset, ahead>>

(***************************************************************************)
(* ChunkLayout: the cumulative offsets, one more than there are chunks.    *)
(***************************************************************************)
Offsets(lens) ==
    LET sum[i \in 0 .. Len(lens)] == IF i = 0 THEN 0 ELSE sum[i - 1] + lens[i]
    IN sum

TotalLength(lens) == Offsets(lens)[Len(lens)]

(***************************************************************************)
(* from_first_frame_bounded with try_new: too long, too many chunks, an    *)
(* overflowing sum, or a sum that is not the declared total is refused.    *)
(***************************************************************************)
Adoptable(lens, declared) ==
    /\ declared <= MaxResourceSize
    /\ Len(lens) <= MaxChunkCount
    /\ TotalLength(lens) <= MaxLength
    /\ TotalLength(lens) = declared

(***************************************************************************)
(* plan_ranges: chunks are packed in order, a chunk joins its range unless *)
(* the range has bytes already and would outgrow the window.  RangeEnd is  *)
(* one past the last chunk of the range that begins with chunk i.          *)
(***************************************************************************)
JoinsWhileBelow(lens, window, i, j) ==      \* looks at the length before the chunk
    j < Len(lens) /\ Offsets(lens)[j] - Offsets(lens)[i] < window

JoinsRange(lens, window, i, j) ==
    LET length == Offsets(lens)[j] - Offsets(lens)[i]
    IN j < Len(lens) /\ (length > 0 => length + lens[j + 1] <= window)

RangeEnd(lens, window, i) ==
    CHOOSE e \in i + 1 .. Len(lens) :
        /\ \A j \in i + 1 .. e - 1 : JoinsRange(lens, window, i, j)
        /\ ~JoinsRange(lens, window, i, e)

RangeFrom(lens, window, i) ==
    LET e == RangeEnd(lens, window, i)
    IN [offset |-> Offsets(lens)[i], length |-> Offsets(lens)[e] - Offsets(lens)[i],
        chunkStart |-> i, chunkEnd |-> e]

StartOf(lens, window) ==       \* where the range number n begins, if there is one
    LET starts[n \in 0 .. Len(lens)] ==
            IF n = 0 THEN {0} \cap 0 .. Len(lens) - 1
            ELSE {RangeEnd(lens, window, i) : i \in starts[n - 1]}
                    \cap 0 .. Len(lens) - 1
    IN starts

RangeStarts(lens, window) == UNION {StartOf(lens, window)[n] : n \in 0 .. Len(lens)}

PlanRanges(lens, window) ==
    {RangeFrom(lens, IF window = 0 THEN 1 ELSE window, i) :
        i \in RangeStarts(lens, IF window = 0 THEN 1 ELSE window)}

(***************************************************************************)
(* chunks_for_range gives the first chunk boundary at an offset, and       *)
(* verify_range accepts bytes of the planned length that begin at a known  *)
(* chunk and end on a boundary.  It asserts that the chunk is the first    *)
(* one at its offset: a build that asserts panics if it is not.            *)
(***************************************************************************)
BoundariesAt(lens, offset) == {i \in 0 .. Len(lens) : Offsets(lens)[i] = offset}

FirstBoundary(lens, offset) ==
    CHOOSE i \in BoundariesAt(lens, offset) :
        \A j \in BoundariesAt(lens, offset) : i <= j

StartAsserted(lens, chunk) == FirstBoundary(lens, Offsets(lens)[chunk]) = chunk

VerifiesRange(asserts, lens, chunk, expected, length) ==
    /\ length = expected
    /\ chunk < Len(lens)
    /\ BoundariesAt(lens, Offsets(lens)[chunk] + length) # {}
    /\ FirstBoundary(lens, Offsets(lens)[chunk])
         <= FirstBoundary(lens, Offsets(lens)[chunk] + length)
    /\ asserts => StartAsserted(lens, chunk)

AssemblyInit ==
    /\ adoption = "none"
    /\ chunkLens = <<>>
    /\ rangeWindow = 0
    /\ fed = {}
    /\ hashed = <<>>
    /\ nextOffset = 0
    /\ ahead = {}

(***************************************************************************)
(* A holder's first frame declares a layout and a total of its own choice. *)
(***************************************************************************)
Adopt(lens, declared, window) ==
    /\ adoption = "none"
    /\ IF Adoptable(lens, declared)
       THEN /\ adoption' = "adopted"
            /\ chunkLens' = lens
            /\ rangeWindow' = window
       ELSE /\ adoption' = "refused"
            /\ UNCHANGED <<chunkLens, rangeWindow>>
    /\ UNCHANGED <<fed, hashed, nextOffset, ahead>>

(***************************************************************************)
(* Draining the buffer: every range that the frontier has reached.  An     *)
(* empty one adds nothing to the digest.                                   *)
(***************************************************************************)
DrainOne(r) ==
    LET due == {p \in r.pending : p.offset = r.offset}
        p == CHOOSE q \in due : TRUE
    IN IF due = {} THEN r
       ELSE [pending |-> r.pending \ due,
             done |-> IF p.length = 0 THEN r.done
                                      ELSE Append(r.done, <<p.offset, p.length>>),
             offset |-> r.offset + p.length]

Drained(from, times) ==
    LET run[n \in 0 .. times] == IF n = 0 THEN from ELSE DrainOne(run[n - 1])
    IN run

Advance(pending, done, offset) ==
    Drained([pending |-> pending, done |-> done, offset |-> offset],
            Cardinality(pending))[Cardinality(pending)]

(***************************************************************************)
(* ResourceHasher::feed, with a verified range.  A range already hashed is *)
(* ignored; one that is fed again replaces its buffered self.              *)
(***************************************************************************)
BehindOrAt(r) == r.offset <= nextOffset     \* takes the frontier for consumed

AlreadyHashed(r) == r.offset < nextOffset

Feed(r) ==
    /\ adoption = "adopted"
    /\ VerifiesRange(DebugAssertions, chunkLens, r.chunkStart, r.length, r.length)
    /\ fed' = fed \cup {r}
    /\ IF AlreadyHashed(r)
       THEN UNCHANGED <<hashed, nextOffset, ahead>>
       ELSE LET a == Advance({p \in ahead : p.offset # r.offset} \cup {r},
                             hashed, nextOffset)
            IN /\ hashed' = a.done
               /\ nextOffset' = a.offset
               /\ ahead' = a.pending
    /\ UNCHANGED <<adoption, chunkLens, rangeWindow>>

AssemblyNext ==
    \/ \E lens \in Layouts, declared \in 0 .. MaxResourceSize + 1,
          window \in 0 .. MaxRangeWindow : Adopt(lens, declared, window)
    \/ \E r \in PlanRanges(chunkLens, rangeWindow) : Feed(r)

AssemblySpec == AssemblyInit /\ [][AssemblyNext]_assemblyVars

-----------------------------------------------------------------------------
(***************************************************************************)
(* Once every planned range was fed, in any order and any of them twice,   *)
(* nothing is left in the buffer and the leaf is that of the whole         *)
(* resource, each byte hashed once and in its place: the plan tiles the    *)
(* layout, and no order of completion loses, repeats or swaps a span.      *)
(***************************************************************************)
LeafOfWholeResource ==
    adoption = "adopted" /\ fed = PlanRanges(chunkLens, rangeWindow) =>
        /\ ahead = {}
        /\ nextOffset = TotalLength(chunkLens)
        /\ \A i \in 1 .. Len(hashed) :
              hashed[i][1] = IF i = 1 THEN 0 ELSE hashed[i - 1][1] + hashed[i - 1][2]
        /\ nextOffset = IF hashed = <<>> THEN 0
                        ELSE hashed[Len(hashed)][1] + hashed[Len(hashed)][2]

(***************************************************************************)
(* Every range of every plan is a verifiable unit: honest bytes of it pass *)
(* verify_range, so a plan can always be finished, and it outgrows the     *)
(* window only where a single chunk does.  The one exception is a build    *)
(* with debug assertions: there debug_assert_eq!(cs, start) (verify.rs:439)*)
(* panics on the ranges that begin after an empty chunk, and on no other.  *)
(***************************************************************************)
FollowsEmpty(lens, chunk) == chunk > 0 /\ lens[chunk] = 0

PlanIsVerifiable ==
    \A r \in PlanRanges(chunkLens, rangeWindow) :
        /\ \A asserts \in BOOLEAN :
              VerifiesRange(asserts, chunkLens, r.chunkStart, r.length, r.length)
                <=> ~(asserts /\ FollowsEmpty(chunkLens, r.chunkStart))
        /\ r.length > rangeWindow /\ r.length > 1 =>
              \E i \in r.chunkStart + 1 .. r.chunkEnd : chunkLens[i] = r.length

=============================================================================
