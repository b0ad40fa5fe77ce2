----------------------------- MODULE RangeStream -----------------------------
(***************************************************************************)
(* The reader of one dig.fetchRange stream (source.rs): it takes frames    *)
(* from a holder one at a time, checks each against the identity that the  *)
(* first one declared, puts together the pages of the chunk_lens prologue, *)
(* places the bytes in the requested window and then drains what follows   *)
(* the last frame.                                                         *)
(*                                                                         *)
(* An optional field of a frame is a set of at most one value: {} is a     *)
(* field that the frame leaves unstated.  Root and total_length are one    *)
(* field, ident; of a page only the entry it begins at and its number of   *)
(* entries are kept, of the bytes only where they lie.                     *)
(***************************************************************************)
EXTENDS Integers, FiniteSets

CONSTANTS
    MaxWindow,     \* the largest requested length, max_len
    PageSize,      \* MAX_CHUNK_LENS_PER_FRAME of dig-nat
    MaxCount,      \* MAX_RESOURCE_CHUNK_COUNT
    TrailerCap,    \* MAX_TRAILER_DRAIN
    ScratchSize,   \* the scratch buffer of the drain
    Senders        \* which kinds of holder serve the stream

ASSUME StreamAssumption ==
    /\ MaxWindow \in Nat
    /\ PageSize \in Nat \ {0}
    /\ MaxCount \in Nat
    /\ TrailerCap \in Nat
    /\ ScratchSize \in Nat \ {0}
    /\ Senders \subseteq {"conforming", "skipping", "arbitrary"}

VARIABLES
    sender,        \* the kind of holder at the other end
    window,        \* max_len
    phase,         \* where the call is; see StreamPhases
    identity,      \* StreamIdentity, once a frame has been read
    paged,         \* whether a ChunkLensAssembler was begun
    filled,        \* the entries it holds
    layout,        \* meta.chunk_lens: how many entries
    buffered,      \* buf.len()
    byteFrontier,  \* byte_frontier
    reads,         \* how many frames were read
    said,          \* every identity and count that any frame stated
    trailer        \* how many trailer bytes were drained

streamVars == <<sender, window, phase, identity, paged, filled, layout,
                buffered, byteFrontier, reads, said, trailer>>

(***************************************************************************)
(* "refused" is a Transport error, "short" PagedPrologueUnsupported, "oom" *)
(* the failed reservation; "ok" drains the trailer and "done" has returned *)
(* the range.                                                              *)
(***************************************************************************)
StreamPhases == {"read", "ok", "done", "refused", "short", "oom"}

Maybe(S) == {{}} \cup {{x} : x \in S}

Smaller(a, b) == IF a <= b THEN a ELSE b
Larger(a, b) == IF a <= b THEN b ELSE a

(***************************************************************************)
(* The parts of a RangeFrame.  One value past each limit is there, so that *)
(* every refusal can happen.                                               *)
(***************************************************************************)
FrameHead == [ident : Maybe({"a", "b"}), count : Maybe(0 .. MaxCount + 1),
         index : Maybe(0 .. 1), proof : BOOLEAN]
FramePage == [off : 0 .. MaxCount, n : 0 .. PageSize]
FrameData == [offset : 0 .. MaxWindow, len : 0 .. MaxWindow + 1,
              complete : BOOLEAN]

TheOne(S) == CHOOSE x \in S : TRUE

PageLen(page) == IF page = {} THEN 0 ELSE TheOne(page).n
PageEnd(page) == IF page = {} THEN 0 ELSE TheOne(page).off + TheOne(page).n

PageEntries(page) == UNION {p.off .. p.off + p.n - 1 : p \in page}

(***************************************************************************)
(* ChunkLensAssembler::accept_page: a page begins on a page boundary below *)
(* the declared count, has exactly the entries that are due there, and     *)
(* covers nothing a second time.                                           *)
(***************************************************************************)
PageFits(p, count, have) ==
    /\ p.off % PageSize = 0
    /\ p.off < count
    /\ p.n = Smaller(PageSize, count - p.off)
    /\ PageEntries({p}) \cap have = {}

StreamInit ==
    /\ sender \in Senders
    /\ window \in 0 .. MaxWindow
    /\ sender = "skipping" => window > 0
    /\ phase = "read"
    /\ identity = [ident |-> {}, count |-> {}, index |-> {}, frontier |-> 0]
    /\ paged = FALSE
    /\ filled = {}
    /\ layout = {}
    /\ buffered = 0
    /\ byteFrontier = 0
    /\ reads = 0
    /\ said = [ident |-> {}, count |-> {}]
    /\ trailer = 0

-----------------------------------------------------------------------------
(***************************************************************************)
(* What a holder that keeps the wire contract sends (SPEC.md section 2):   *)
(* its identity on every frame, the proof on the first, the pages of the   *)
(* prologue in order on the first and the following frames, its bytes in   *)
(* ascending order and possibly more of them than were asked for, and the  *)
(* last frame marked.  Only a page of a layout too large for one frame may *)
(* come without bytes.  A request with skip_layout gets neither the proof  *)
(* nor the pages.                                                          *)
(***************************************************************************)
ConformingHead(h) ==
    /\ h.ident = {"a"}
    /\ IF reads = 0 THEN \E c \in 1 .. MaxCount : h.count = {c}
                    ELSE h.count = identity.count
    /\ h.proof = (reads = 0 /\ sender = "conforming")
    /\ \A i \in h.index, j \in identity.index : i >= j

ConformingPage(h, page) ==
    LET off == identity.frontier
        due == {c \in h.count : sender = "conforming" /\ off < c}
    IN page = {[off |-> off, n |-> Smaller(PageSize, c - off)] : c \in due}

ConformingData(h, page, d) ==
    /\ IF byteFrontier < window
       THEN /\ d.offset = byteFrontier
            /\ d.len = 0 => page # {} /\ \A c \in h.count : c > PageSize
       ELSE d.offset = 0 /\ d.len = 0
    /\ d.complete = ( /\ sender = "conforming" => h.count = {PageEnd(page)}
                      /\ Larger(byteFrontier, d.offset + d.len) >= window )

(***************************************************************************)
(* The end of the loop: a layout that was begun in pages is adopted only   *)
(* when every one of its entries is there; otherwise the first frame's     *)
(* chunk_lens, meta, stands.                                               *)
(***************************************************************************)
PrologueDrained == paged' => \A c \in identity'.count : filled' = 0 .. c - 1

FinishPartialRange(meta) ==      \* adopts the pages that came
    /\ phase' = "ok"
    /\ layout' = IF paged' THEN {Cardinality(filled')} ELSE meta

FinishRange(meta) ==
    IF PrologueDrained
    THEN /\ phase' = "ok"
         /\ layout' = IF paged' THEN identity'.count ELSE meta
    ELSE /\ phase' = "short"
         /\ layout' = meta

(***************************************************************************)
(* A zero-length request wants metadata only: it places no bytes and looks *)
(* at nothing but the prologue.                                            *)
(***************************************************************************)
TakeMetadata(meta, accepted) ==
    /\ window = 0
    /\ UNCHANGED <<buffered, byteFrontier>>
    /\ \/ /\ PrologueDrained
          /\ FinishRange(meta)
       \/ /\ ~PrologueDrained
          /\ phase' = IF accepted THEN "read" ELSE "refused"
          /\ layout' = meta

BeyondWindow(meta, d) ==
    /\ window > 0
    /\ d.offset >= window
    /\ phase' = "refused"
    /\ layout' = meta
    /\ UNCHANGED <<buffered, byteFrontier>>

PlaceBytesResent(meta, d, accepted) ==   \* only an empty frame is a stall
    LET end == d.offset + Smaller(d.len, window - d.offset)
    IN /\ window > 0
       /\ d.offset < window
       /\ buffered' = Larger(buffered, end)
       /\ IF d.complete \/ (PrologueDrained /\ buffered' >= window)
          THEN FinishRange(meta) /\ UNCHANGED byteFrontier
          ELSE /\ layout' = meta
               /\ phase' = IF d.len = 0 /\ ~accepted THEN "refused" ELSE "read"
               /\ byteFrontier' = Larger(byteFrontier, end)

(***************************************************************************)
(* The bytes of a frame are clipped to the window.  The loop stops at the  *)
(* last frame, or at a full window whose prologue is drained; a frame that *)
(* stops nothing must bring bytes past the frontier or a page.             *)
(***************************************************************************)
PlaceBytes(meta, d, accepted) ==
    LET end == d.offset + Smaller(d.len, window - d.offset)
    IN /\ window > 0
       /\ d.offset < window
       /\ \/ /\ buffered' = Larger(buffered, end)
             /\ \/ /\ d.complete \/ (PrologueDrained /\ buffered' >= window)
                   /\ FinishRange(meta)
                   /\ UNCHANGED byteFrontier
                \/ /\ ~d.complete
                   /\ ~(PrologueDrained /\ buffered' >= window)
                   /\ layout' = meta
                   /\ IF end <= byteFrontier /\ ~accepted
                      THEN phase' = "refused" /\ UNCHANGED byteFrontier
                      ELSE phase' = "read" /\ byteFrontier' = Larger(byteFrontier, end)
          \/ /\ buffered < end          \* try_reserve fails
             /\ phase' = "oom"
             /\ layout' = meta
             /\ UNCHANGED <<buffered, byteFrontier>>

TakeFrame(meta, d, accepted) ==
    \/ TakeMetadata(meta, accepted)
    \/ BeyondWindow(meta, d)
    \/ PlaceBytes(meta, d, accepted)

-----------------------------------------------------------------------------
(***************************************************************************)
(* A frame has been decoded; what it states is remembered only for the     *)
(* properties.                                                             *)
(***************************************************************************)
Decoded(h) ==
    /\ phase = "read"
    /\ sender # "arbitrary" => ConformingHead(h)
    /\ reads' = reads + 1
    /\ said' = [ident |-> said.ident \cup h.ident, count |-> said.count \cup h.count]
    /\ UNCHANGED <<sender, window, trailer>>

RefuseStream(as) ==
    /\ phase' = as
    /\ UNCHANGED <<identity, paged, filled, layout, buffered, byteFrontier>>

(***************************************************************************)
(* RangeMeta::from_frame, StreamIdentity::from_first_frame, and the        *)
(* assembler that a count above the delivered entries begins.              *)
(***************************************************************************)
BeginsPaging(h, page) == \E c \in h.count : c > PageLen(page)

FirstPageFits(h, page) ==
    BeginsPaging(h, page) =>
        \A c \in h.count : c <= MaxCount /\ \A p \in page : PageFits(p, c, {})

FirstFrame(h, page, d) ==
    /\ reads = 0
    /\ Decoded(h)
    /\ FirstPageFits(h, page)
    /\ identity' = [ident |-> h.ident, count |-> h.count, index |-> h.index,
                    frontier |-> PageEnd(page)]
    /\ paged' = BeginsPaging(h, page)
    /\ filled' = IF paged' THEN PageEntries(page) ELSE {}
    /\ TakeFrame({PageLen({p}) : p \in page}, d, paged' /\ page # {})

FirstPageRefused(h, page) ==
    /\ reads = 0
    /\ Decoded(h)
    /\ ~FirstPageFits(h, page)
    /\ RefuseStream("refused")

(***************************************************************************)
(* check_later_frame.  check_unrevised refuses a changed value and a value *)
(* that the first frame left unstated, and lets an omission pass; the      *)
(* proof is never repeated; the chunk index never goes back.               *)
(***************************************************************************)
UnrevisedIfCommitted(h) ==  \* lets in what the first frame left unstated
    /\ \A x \in h.ident, y \in identity.ident : x = y
    /\ \A x \in h.count, y \in identity.count : x = y
    /\ ~h.proof
    /\ \A i \in h.index, j \in identity.index : i >= j

Unrevised(h) ==
    /\ h.ident \subseteq identity.ident
    /\ h.count \subseteq identity.count
    /\ ~h.proof
    /\ \A i \in h.index, j \in identity.index : i >= j

PageOnlyFirst(page) == page = {}    \* only the first frame may carry chunk_lens

PageAdvances(page) == \A p \in page : p.off >= identity.frontier

LaterPageFits(page) ==
    \A p \in page, c \in identity.count : PageFits(p, c, filled)

LaterFrame(h, page, d) ==
    /\ reads > 0
    /\ Decoded(h)
    /\ Unrevised(h)
    /\ PageAdvances(page)
    /\ page # {} => paged
    /\ LaterPageFits(page)
    /\ identity' = [identity EXCEPT
                       !.index = IF h.index = {} THEN @ ELSE h.index,
                       !.frontier = IF page = {} THEN @ ELSE PageEnd(page)]
    /\ filled' = filled \cup PageEntries(page)
    /\ UNCHANGED paged
    /\ TakeFrame(layout, d, page # {})

LaterFrameRevises(h) ==
    /\ reads > 0
    /\ Decoded(h)
    /\ ~Unrevised(h)
    /\ RefuseStream("refused")

LaterPageRefused(h, page) ==
    /\ reads > 0
    /\ Decoded(h)
    /\ Unrevised(h)
    /\ \/ ~PageAdvances(page) /\ RefuseStream("refused")
       \/ PageAdvances(page) /\ page # {} /\ ~paged /\ RefuseStream("short")
       \/ PageAdvances(page) /\ paged /\ ~LaterPageFits(page) /\ RefuseStream("refused")

(***************************************************************************)
(* A clean end of the stream leaves the loop wherever it comes; a frame    *)
(* that does not decode ends the call.                                     *)
(***************************************************************************)
EndOfStream ==
    /\ phase = "read"
    /\ sender = "arbitrary"
    /\ UNCHANGED <<sender, window, identity, paged, filled, buffered,
                   byteFrontier, reads, said, trailer>>
    /\ FinishRange(layout)

DecodeFails ==
    /\ phase = "read"
    /\ sender = "arbitrary"
    /\ RefuseStream("refused")
    /\ UNCHANGED <<sender, window, reads, said, trailer>>

(***************************************************************************)
(* drain_trailer_bounded, before the range is returned.                    *)
(***************************************************************************)
DrainTrailer ==
    /\ phase = "ok"
    /\ trailer < TrailerCap
    /\ \E n \in 1 .. Smaller(TrailerCap - trailer, ScratchSize) :
           trailer' = trailer + n
    /\ UNCHANGED <<sender, window, phase, identity, paged, filled, layout,
                   buffered, byteFrontier, reads, said>>

ReturnRange ==
    /\ phase = "ok"
    /\ phase' = "done"
    /\ UNCHANGED <<sender, window, identity, paged, filled, layout, buffered,
                   byteFrontier, reads, said, trailer>>

ReadFrame ==
    /\ phase = "read"
    /\ \E h \in FrameHead :
          \/ LaterFrameRevises(h)
          \/ /\ reads > 0 => Unrevised(h)
             /\ \E page \in Maybe(FramePage) :
                   /\ sender # "arbitrary" => ConformingPage(h, page)
                   /\ \/ FirstPageRefused(h, page)
                      \/ LaterPageRefused(h, page)
                      \/ \E d \in FrameData :
                            /\ sender # "arbitrary" => ConformingData(h, page, d)
                            /\ FirstFrame(h, page, d) \/ LaterFrame(h, page, d)

StreamNext ==
    \/ ReadFrame
    \/ EndOfStream
    \/ DecodeFails
    \/ DrainTrailer
    \/ ReturnRange

StreamSpec == StreamInit /\ [][StreamNext]_streamVars

-----------------------------------------------------------------------------
(***************************************************************************)
(* A holder cannot keep the reader busy or make it hold memory: whatever   *)
(* it sends, one call reads at most one frame per byte of the window, one  *)
(* per entry of a layout the client would accept, and the one that ends    *)
(* it; the buffer stays within the window and the drain within its cap.    *)
(* This is what the termination guard, the clipping and the bounded drain  *)
(* are for together.                                                       *)
(***************************************************************************)
StreamBounded ==
    /\ reads <= window + MaxCount + 1
    /\ buffered <= window
    /\ trailer <= TrailerCap

(***************************************************************************)
(* The layout is adopted whole or not at all: a stream that declared a     *)
(* count and was believed has delivered at least that many entries,        *)
(* whichever of the exits of the loop it took.                             *)
(***************************************************************************)
NeverPartialLayout ==
    phase \in {"ok", "done"} /\ layout # {} =>
        \A c \in identity.count : \E n \in layout : n >= c

(***************************************************************************)
(* A range is believed only if no frame of its stream, not even the last,  *)
(* stated an identity or a count other than the first frame's.             *)
(***************************************************************************)
NoRevisionBelieved ==
    phase \in {"ok", "done"} =>
        said.ident \subseteq identity.ident /\ said.count \subseteq identity.count

(***************************************************************************)
(* A holder that keeps the wire contract is never refused: a request for   *)
(* the layout ends, short of memory, with the whole layout and the whole   *)
(* window, however the holder groups pages and bytes into frames.          *)
(***************************************************************************)
ConformingAssembled ==
    sender = "conforming" /\ phase \notin {"read", "oom"} =>
        phase \in {"ok", "done"} /\ layout = identity.count /\ buffered = window

(***************************************************************************)
(* The same for a request that set skip_layout: the comment on range_req   *)
(* (orchestrator.rs) has every scheduled data range set it, because the    *)
(* client already holds the layout, and SPEC.md section 2 has the holder   *)
(* still state chunk_count on every frame.                                 *)
(***************************************************************************)
SkippedLayoutAssembled ==
    sender = "skipping" /\ phase \notin {"read", "oom"} =>
        phase \in {"ok", "done"} /\ buffered = window

=============================================================================
