-------------------------- MODULE RangeStreamProofs --------------------------
(***************************************************************************)
(* What a holder can cost one fetch, what the client believes of its       *)
(* stream, and that a holder which keeps the contract is served by it, for *)
(* every window, page size, count limit and drain cap.                     *)
(***************************************************************************)
EXTENDS RangeStream, TLAPS

(***************************************************************************)
(* The progress account behind the termination guard: while the loop goes  *)
(* on, every frame read is paid for by a byte of the window or by an entry *)
(* of the layout.  A layout that is not assembled from pages pays for      *)
(* nothing.                                                                *)
(***************************************************************************)
Paid == byteFrontier + (IF paged THEN identity.frontier ELSE 0)

StreamInv ==
    /\ window \in Nat /\ buffered \in Nat /\ byteFrontier \in Nat
    /\ reads \in Nat /\ trailer \in Nat
    /\ identity \in [ident : SUBSET {"a", "b"}, count : SUBSET Nat, index : SUBSET Nat,
                     frontier : Nat]
    /\ paged \in BOOLEAN
    /\ paged => \E c \in Nat : /\ identity.count = {c} /\ c <= MaxCount
                               /\ identity.frontier <= c
    /\ buffered <= window /\ byteFrontier <= window /\ trailer <= TrailerCap
    /\ reads <= window + MaxCount + 1
    /\ phase = "read" => reads <= Paid

(***************************************************************************)
(* A field that is stated is a set of one value, which TheOne returns.     *)
(***************************************************************************)
LEMMA OneOfOne == \A x : TheOne({x}) = x
  BY DEF TheOne

(***************************************************************************)
(* A page the assembler accepts has an entry, and ends within the count.   *)
(***************************************************************************)
LEMMA AcceptedPage ==
    ASSUME NEW p \in FramePage, NEW c \in Nat, NEW have, PageFits(p, c, have)
    PROVE  /\ p.off \in Nat /\ p.n \in Nat /\ p.n >= 1 /\ p.off + p.n <= c
           /\ PageEnd({p}) = p.off + p.n /\ PageLen({p}) = p.n
  <1>1. p.off \in Nat /\ p.n \in Nat
    BY StreamAssumption DEF FramePage
  <1>2. p.off < c /\ p.n = Smaller(PageSize, c - p.off)
    BY DEF PageFits
  <1>3. p.n >= 1 /\ p.off + p.n <= c
    BY <1>1, <1>2, StreamAssumption DEF Smaller
  <1>4. PageEnd({p}) = p.off + p.n /\ PageLen({p}) = p.n
    BY OneOfOne DEF PageEnd, PageLen
  <1> QED BY <1>1, <1>3, <1>4

(***************************************************************************)
(* The end of the loop body keeps the account: it goes on only after a     *)
(* frame that added a byte or a page.                                      *)
(***************************************************************************)
LEMMA TakeFramePays ==
    ASSUME window \in Nat, buffered \in Nat, byteFrontier \in Nat, reads \in Nat,
           buffered <= window, byteFrontier <= window,
           NEW d \in FrameData, NEW meta, NEW accepted \in BOOLEAN,
           NEW P \in Nat, NEW Q \in Nat,
           reads <= byteFrontier + P, P <= Q, accepted => P < Q,
           TakeFrame(meta, d, accepted)
    PROVE  /\ buffered' \in Nat /\ byteFrontier' \in Nat
           /\ buffered' <= window /\ byteFrontier' <= window
           /\ phase' = "read" => reads + 1 <= byteFrontier' + Q
  <1>1. CASE TakeMetadata(meta, accepted)
    BY <1>1 DEF TakeMetadata, FinishRange
  <1>2. CASE BeyondWindow(meta, d)
    BY <1>2 DEF BeyondWindow
  <1>3. CASE PlaceBytes(meta, d, accepted)
    <2> DEFINE end == d.offset + Smaller(d.len, window - d.offset)
    <2>1. d.offset \in Nat /\ d.len \in Nat /\ d.offset < window
      BY <1>3, StreamAssumption DEF FrameData, PlaceBytes
    <2>2. end \in Nat /\ end <= window
      BY <2>1 DEF Smaller
    <2> HIDE DEF end
    <2>3. \/ buffered' = Larger(buffered, end)
          \/ buffered' = buffered
      BY <1>3 DEF PlaceBytes, end
    <2>4. \/ phase' # "read" /\ byteFrontier' = byteFrontier
          \/ /\ ~(end <= byteFrontier /\ ~accepted)
             /\ byteFrontier' = Larger(byteFrontier, end)
      BY <1>3 DEF PlaceBytes, FinishRange, end
    <2>5. buffered' \in Nat /\ buffered' <= window
      BY <2>2, <2>3 DEF Larger
    <2>6. byteFrontier' \in Nat /\ byteFrontier' <= window
      BY <2>2, <2>4 DEF Larger
    <2>7. ASSUME phase' = "read" PROVE reads + 1 <= byteFrontier' + Q
      BY <2>2, <2>4, <2>7 DEF Larger
    <2> QED BY <2>5, <2>6, <2>7
  <1> QED BY <1>1, <1>2, <1>3 DEF TakeFrame

(***************************************************************************)
(* The first frame opens the account.                                      *)
(***************************************************************************)
LEMMA FirstFramePays ==
    ASSUME StreamInv, NEW h \in FrameHead, NEW page \in Maybe(FramePage),
           NEW d \in FrameData, FirstFrame(h, page, d)
    PROVE  StreamInv'
  <1> USE StreamAssumption
  <1> DEFINE Q == IF paged' THEN identity'.frontier ELSE 0
  <1>1. /\ phase = "read" /\ reads = 0 /\ reads' = 1
        /\ window' = window /\ trailer' = trailer
    BY DEF FirstFrame, Decoded, StreamInv
  <1>2. /\ identity' = [ident |-> h.ident, count |-> h.count, index |-> h.index,
                        frontier |-> PageEnd(page)]
        /\ paged' = BeginsPaging(h, page)
        /\ FirstPageFits(h, page)
        /\ TakeFrame({PageLen({p}) : p \in page}, d, paged' /\ page # {})
    BY DEF FirstFrame
  <1>3. page = {} \/ \E p \in FramePage : page = {p}
    BY DEF Maybe
  <1>4. PageEnd(page) \in Nat
    <2>1. CASE page = {}
      BY <2>1 DEF PageEnd
    <2>2. CASE \E p \in FramePage : page = {p}
      <3>1. PICK p \in FramePage : page = {p}
        BY <2>2
      <3>2. TheOne(page) = p
        BY <3>1, OneOfOne
      <3>3. p.off \in Nat /\ p.n \in Nat
        BY DEF FramePage
      <3> QED BY <3>1, <3>2, <3>3 DEF PageEnd
    <2> QED BY <1>3, <2>1, <2>2
  <1>5. h.count \subseteq Nat /\ h.index \subseteq Nat /\ h.ident \subseteq {"a", "b"}
    <2>1. /\ h.count \in Maybe(0 .. MaxCount + 1) /\ h.index \in Maybe(0 .. 1)
          /\ h.ident \in Maybe({"a", "b"})
      BY DEF FrameHead
    <2> QED BY <2>1 DEF Maybe
  <1>6. ASSUME paged'
        PROVE  \E c \in Nat : /\ h.count = {c} /\ c <= MaxCount
                              /\ PageEnd(page) <= c
                              /\ page # {} => PageEnd(page) >= 1
    <2>1. PICK c \in h.count : c > PageLen(page)
      BY <1>2, <1>6 DEF BeginsPaging
    <2>2. h.count = {c}
      BY <2>1 DEF FrameHead, Maybe
    <2>3. c \in Nat /\ c <= MaxCount /\ \A p \in page : PageFits(p, c, {})
      BY <1>2, <1>5, <1>6, <2>1 DEF FirstPageFits
    <2>4. CASE page = {}
      BY <2>2, <2>3, <2>4 DEF PageEnd
    <2>5. CASE \E p \in FramePage : page = {p}
      <3>1. PICK p \in FramePage : page = {p}
        BY <2>5
      <3>2. PageFits(p, c, {})
        BY <2>3, <3>1
      <3>3. p.n >= 1 /\ p.off + p.n <= c /\ PageEnd(page) = p.off + p.n /\ p.off \in Nat /\ p.n \in Nat
        BY <2>3, <3>1, <3>2, AcceptedPage
      <3> QED BY <2>2, <2>3, <3>3
    <2> QED BY <1>3, <2>4, <2>5
  <1>7. paged' \in BOOLEAN
    BY <1>2 DEF BeginsPaging
  <1>8. identity'.frontier = PageEnd(page) /\ identity'.count = h.count
    BY <1>2
  <1>9. Q \in Nat /\ (paged' /\ page # {} => 0 < Q)
    BY <1>4, <1>6, <1>8
  <1>10. /\ buffered' \in Nat /\ byteFrontier' \in Nat
         /\ buffered' <= window /\ byteFrontier' <= window
         /\ phase' = "read" => reads + 1 <= byteFrontier' + Q
    <2>1. /\ window \in Nat /\ buffered \in Nat /\ byteFrontier \in Nat /\ reads \in Nat
          /\ buffered <= window /\ byteFrontier <= window
          /\ reads <= byteFrontier + 0
      BY <1>1 DEF StreamInv
    <2>2. PICK accepted \in BOOLEAN : accepted = (paged' /\ page # {})
      OBVIOUS
    <2>3. PICK meta : meta = {PageLen({p}) : p \in page}
      OBVIOUS
    <2>4. TakeFrame(meta, d, accepted)
      BY <1>2, <2>2, <2>3
    <2> HIDE DEF Q
    <2>5. Q \in Nat /\ 0 <= Q /\ (accepted => 0 < Q)
      <3>1. accepted => (paged' /\ page # {})
        BY <2>2, Zenon
      <3> QED BY <1>9, <3>1
    <2> QED BY <2>1, <2>4, <2>5, TakeFramePays
  <1>11. identity' \in [ident : SUBSET {"a", "b"}, count : SUBSET Nat, index : SUBSET Nat,
                        frontier : Nat]
    BY <1>2, <1>4, <1>5
  <1>12. paged' => \E c \in Nat : /\ identity'.count = {c} /\ c <= MaxCount
                                  /\ identity'.frontier <= c
    BY <1>6, <1>8
  <1>13. /\ window' \in Nat /\ reads' \in Nat /\ trailer' \in Nat
         /\ trailer' <= TrailerCap
         /\ reads' <= window' + MaxCount + 1
    BY <1>1 DEF StreamInv
  <1>14. phase' = "read" => reads' <= Paid'
    <2>1. Paid' = byteFrontier' + Q
      BY DEF Paid
    <2> HIDE DEF Q
    <2> QED BY <1>1, <1>10, <2>1
  <1> QED
    BY <1>1, <1>7, <1>10, <1>11, <1>12, <1>13, <1>14 DEF StreamInv

(***************************************************************************)
(* Every later frame adds a byte past the frontier or a page past it.      *)
(***************************************************************************)
LEMMA LaterFramePays ==
    ASSUME StreamInv, NEW h \in FrameHead, NEW page \in Maybe(FramePage),
           NEW d \in FrameData, LaterFrame(h, page, d)
    PROVE  StreamInv'
  <1> USE StreamAssumption
  <1> DEFINE P == IF paged THEN identity.frontier ELSE 0
             Q == IF paged' THEN identity'.frontier ELSE 0
  <1>1. /\ phase = "read" /\ reads' = reads + 1
        /\ window' = window /\ trailer' = trailer /\ paged' = paged
    BY DEF LaterFrame, Decoded
  <1>2. /\ identity' = [identity EXCEPT
                          !.index = IF h.index = {} THEN @ ELSE h.index,
                          !.frontier = IF page = {} THEN @ ELSE PageEnd(page)]
        /\ page # {} => paged
        /\ PageAdvances(page) /\ LaterPageFits(page)
        /\ TakeFrame(layout, d, page # {})
    BY DEF LaterFrame
  <1>3. page = {} \/ \E p \in FramePage : page = {p}
    BY DEF Maybe
  <1>4. ASSUME page # {}
        PROVE  \E c \in Nat : /\ identity.count = {c} /\ c <= MaxCount
                              /\ PageEnd(page) \in Nat /\ PageEnd(page) <= c
                              /\ identity.frontier < PageEnd(page)
    <2>1. PICK p \in FramePage : page = {p}
      BY <1>3, <1>4
    <2>2. PICK c \in Nat : identity.count = {c} /\ c <= MaxCount
      BY <1>2, <1>4 DEF StreamInv
    <2>3. PageFits(p, c, filled) /\ p.off >= identity.frontier
      BY <1>2, <2>1, <2>2 DEF LaterPageFits, PageAdvances
    <2>4. /\ p.off \in Nat /\ p.n \in Nat /\ p.n >= 1 /\ p.off + p.n <= c
          /\ PageEnd(page) = p.off + p.n
      BY <2>1, <2>3, AcceptedPage
    <2>5. identity.frontier \in Nat
      BY DEF StreamInv
    <2> QED BY <2>2, <2>3, <2>4, <2>5
  <1>5. h.index \subseteq Nat
    <2>1. h.index \in Maybe(0 .. 1)
      BY DEF FrameHead
    <2> QED BY <2>1 DEF Maybe
  <1>6. /\ identity'.frontier = (IF page = {} THEN identity.frontier ELSE PageEnd(page))
        /\ identity'.count = identity.count
    BY <1>2 DEF StreamInv
  <1>7. identity' \in [ident : SUBSET {"a", "b"}, count : SUBSET Nat, index : SUBSET Nat,
                       frontier : Nat]
    <2>1. identity \in [ident : SUBSET {"a", "b"}, count : SUBSET Nat, index : SUBSET Nat,
                        frontier : Nat]
      BY DEF StreamInv
    <2> QED BY <1>2, <1>4, <1>5, <2>1
  <1>8. P \in Nat /\ Q \in Nat /\ P <= Q /\ (page # {} => P < Q)
    BY <1>1, <1>2, <1>4, <1>6 DEF StreamInv
  <1>9. /\ buffered' \in Nat /\ byteFrontier' \in Nat
        /\ buffered' <= window /\ byteFrontier' <= window
        /\ phase' = "read" => reads + 1 <= byteFrontier' + Q
    <2>1. /\ window \in Nat /\ buffered \in Nat /\ byteFrontier \in Nat /\ reads \in Nat
          /\ buffered <= window /\ byteFrontier <= window
          /\ reads <= byteFrontier + P
      BY <1>1 DEF StreamInv, Paid
    <2>2. (page # {}) \in BOOLEAN
      OBVIOUS
    <2> HIDE DEF P, Q
    <2> QED BY <1>2, <1>8, <2>1, <2>2, TakeFramePays
  <1>10. paged' => \E c \in Nat : /\ identity'.count = {c} /\ c <= MaxCount
                                  /\ identity'.frontier <= c
    BY <1>1, <1>4, <1>6 DEF StreamInv
  <1>11. reads <= window + MaxCount
    <2>1. P <= MaxCount
      BY DEF StreamInv
    <2> QED BY <1>1, <1>8, <2>1 DEF StreamInv, Paid
  <1>12. reads' \in Nat /\ reads' <= window' + MaxCount + 1
    BY <1>1, <1>11 DEF StreamInv
  <1> QED
    BY <1>1, <1>7, <1>9, <1>10, <1>12 DEF StreamInv, Paid

(***************************************************************************)
(* The account holds in every reachable state.                             *)
(***************************************************************************)
THEOREM StreamAccount == StreamSpec => []StreamInv
  <1>1. StreamInit => StreamInv
    <2> SUFFICES ASSUME StreamInit PROVE StreamInv
      OBVIOUS
    <2>1. window \in Nat
      BY StreamAssumption DEF StreamInit
    <2>2. identity \in [ident : SUBSET {"a", "b"}, count : SUBSET Nat,
                        index : SUBSET Nat, frontier : Nat]
      BY DEF StreamInit
    <2>3. reads = 0 /\ byteFrontier = 0 /\ buffered = 0 /\ trailer = 0 /\ paged = FALSE
      BY DEF StreamInit
    <2>4. reads <= Paid
      BY <2>2, <2>3 DEF Paid
    <2>5. paged \in BOOLEAN /\ ~paged
      BY <2>3
    <2>6. reads <= window + MaxCount + 1 /\ 0 <= TrailerCap
      BY <2>1, <2>3, StreamAssumption
    <2> QED BY <2>1, <2>2, <2>3, <2>4, <2>5, <2>6 DEF StreamInv
  <1>2. StreamInv /\ [StreamNext]_streamVars => StreamInv'
    <2> SUFFICES ASSUME StreamInv, [StreamNext]_streamVars PROVE StreamInv'
      OBVIOUS
    <2> USE StreamAssumption
    <2>1. ASSUME NEW h \in FrameHead, Decoded(h),
                 NEW as \in {"refused", "short"}, RefuseStream(as)
          PROVE  StreamInv'
      <3>1. reads <= window + MaxCount
        BY <2>1 DEF StreamInv, Paid, Decoded
      <3>2. reads' \in Nat /\ reads' <= window' + MaxCount + 1 /\ phase' # "read"
        <4>1. reads' = reads + 1 /\ window' = window
          BY <2>1 DEF Decoded
        <4>2. phase' = as
          BY <2>1 DEF RefuseStream
        <4>3. phase' # "read"
          BY <2>1, <4>2
        <4>4. reads \in Nat /\ window \in Nat
          BY DEF StreamInv
        <4> QED BY <3>1, <4>1, <4>3, <4>4
      <3> QED BY <2>1, <3>2 DEF StreamInv, Decoded, RefuseStream
    <2>2. CASE ReadFrame
      <3>1. PICK h \in FrameHead :
               \/ LaterFrameRevises(h)
               \/ \E page \in Maybe(FramePage) :
                     \/ FirstPageRefused(h, page)
                     \/ LaterPageRefused(h, page)
                     \/ \E d \in FrameData :
                           FirstFrame(h, page, d) \/ LaterFrame(h, page, d)
        BY <2>2 DEF ReadFrame
      <3>2. CASE LaterFrameRevises(h)
        BY <2>1, <3>2 DEF LaterFrameRevises
      <3>3. ASSUME NEW page, FirstPageRefused(h, page) PROVE StreamInv'
        BY <2>1, <3>3 DEF FirstPageRefused
      <3>4. ASSUME NEW page, LaterPageRefused(h, page) PROVE StreamInv'
        BY <2>1, <3>4 DEF LaterPageRefused
      <3> QED BY <3>1, <3>2, <3>3, <3>4, FirstFramePays, LaterFramePays
    <2>3. CASE EndOfStream
      BY <2>3 DEF EndOfStream, FinishRange, StreamInv, Paid
    <2>4. CASE DecodeFails
      BY <2>4 DEF DecodeFails, RefuseStream, StreamInv, Paid
    <2>5. CASE DrainTrailer
      <3>1. PICK n \in 1 .. Smaller(TrailerCap - trailer, ScratchSize) :
               trailer' = trailer + n
        BY <2>5 DEF DrainTrailer
      <3>2. trailer' \in Nat /\ trailer' <= TrailerCap
        BY <3>1 DEF StreamInv, Smaller
      <3> QED BY <2>5, <3>2 DEF DrainTrailer, StreamInv, Paid
    <2>6. CASE ReturnRange
      BY <2>6 DEF ReturnRange, StreamInv, Paid
    <2>7. CASE UNCHANGED streamVars
      BY <2>7 DEF streamVars, StreamInv, Paid
    <2> QED BY <2>2, <2>3, <2>4, <2>5, <2>6, <2>7 DEF StreamNext
  <1> QED BY <1>1, <1>2, PTL DEF StreamSpec

(***************************************************************************)
(* Whatever a holder sends, assemble_range_stream reads a bounded number   *)
(* of frames into a buffer no larger than the request, and drain_trailer   *)
(* stops at its cap.                                                       *)
(***************************************************************************)
THEOREM HolderCannotStall == StreamSpec => []StreamBounded
  <1>1. StreamInv => StreamBounded
    BY DEF StreamInv, StreamBounded
  <1> QED BY <1>1, StreamAccount, PTL

-----------------------------------------------------------------------------
(***************************************************************************)
(* What is believed.  Nothing a frame stated goes beyond the first one's   *)
(* identity, and a layout that is not still being assembled from pages has *)
(* the entries that were declared; a call that was refused claims nothing. *)
(***************************************************************************)
Whole == layout # {} => \A c \in identity.count : \E n \in layout : n >= c

BelievedInv ==
    phase \in {"read", "ok", "done"} =>
        /\ reads = 0 => said = [ident |-> {}, count |-> {}]
        /\ said.ident \subseteq identity.ident /\ said.count \subseteq identity.count
        /\ ~(phase = "read" /\ paged) => Whole

(***************************************************************************)
(* The three ends of the loop body: fail, go on with what the first frame  *)
(* brought, or stop with the prologue drained.                             *)
(***************************************************************************)
LEMMA TakeFrameEnds ==
    ASSUME NEW meta, NEW d, NEW accepted, TakeFrame(meta, d, accepted)
    PROVE  \/ phase' \notin {"read", "ok", "done"}
           \/ phase' = "read" /\ layout' = meta
           \/ phase' = "ok" /\ layout' = (IF paged' THEN identity'.count ELSE meta)
  <1>1. CASE TakeMetadata(meta, accepted)
    BY <1>1 DEF TakeMetadata, FinishRange
  <1>2. CASE BeyondWindow(meta, d)
    BY <1>2 DEF BeyondWindow
  <1>3. CASE PlaceBytes(meta, d, accepted)
    BY <1>3 DEF PlaceBytes, FinishRange
  <1> QED BY <1>1, <1>2, <1>3 DEF TakeFrame

(***************************************************************************)
(* The first frame: its own statements are the identity, and chunk_lens    *)
(* that come whole in it need no paging.                                   *)
(***************************************************************************)
LEMMA FirstFrameBelieved ==
    ASSUME StreamInv, BelievedInv, StreamInv', NEW h \in FrameHead,
           NEW page \in Maybe(FramePage), NEW d \in FrameData, FirstFrame(h, page, d)
    PROVE  BelievedInv'
  <1> DEFINE meta == {PageLen({p}) : p \in page}
  <1>1. /\ reads' # 0
        /\ said' = [ident |-> h.ident, count |-> h.count]
        /\ identity' = [ident |-> h.ident, count |-> h.count, index |-> h.index,
                        frontier |-> PageEnd(page)]
        /\ paged' = BeginsPaging(h, page)
    <2>1. /\ phase = "read" /\ reads = 0 /\ reads' = reads + 1
          /\ said' = [ident |-> said.ident \cup h.ident, count |-> said.count \cup h.count]
      BY DEF FirstFrame, Decoded
    <2>2. said = [ident |-> {}, count |-> {}]
      BY <2>1 DEF BelievedInv
    <2>3. said.ident \cup h.ident = h.ident /\ said.count \cup h.count = h.count
      BY <2>2
    <2>4. reads' # 0
      BY <2>1
    <2> QED BY <2>1, <2>3, <2>4 DEF FirstFrame
  <1>2. h.count \subseteq Nat
    BY StreamAssumption DEF FrameHead, Maybe
  <1>3. ASSUME ~paged', layout' = meta PROVE Whole'
    <2>1. CASE page = {}
      BY <1>3, <2>1 DEF Whole
    <2>2. ASSUME NEW p \in FramePage, page = {p} PROVE Whole'
      <3>1. PageLen(page) = p.n /\ p.n \in Nat /\ meta = {p.n}
        <4>1. \A q \in page : PageLen({q}) = q.n
          BY OneOfOne DEF PageLen
        <4>2. p.n \in Nat
          BY StreamAssumption DEF FramePage
        <4> QED BY <2>2, <4>1, <4>2
      <3>2. \A c \in h.count : p.n >= c
        BY <1>1, <1>2, <1>3, <3>1 DEF BeginsPaging
      <3> QED BY <1>1, <1>3, <3>1, <3>2 DEF Whole
    <2> QED BY <2>1, <2>2 DEF Maybe
  <1>4. ASSUME layout' = identity'.count PROVE Whole'
    BY <1>1, <1>2, <1>4 DEF Whole
  <1>5. \/ phase' \notin {"read", "ok", "done"}
        \/ phase' = "read" /\ layout' = meta
        \/ phase' = "ok" /\ layout' = (IF paged' THEN identity'.count ELSE meta)
    BY TakeFrameEnds DEF FirstFrame
  <1> HIDE DEF meta
  <1> QED BY <1>1, <1>3, <1>4, <1>5 DEF BelievedInv

(***************************************************************************)
(* A later frame states nothing new, and moves neither the identity nor a  *)
(* layout that came whole.                                                 *)
(***************************************************************************)
LEMMA LaterFrameBelieved ==
    ASSUME StreamInv, BelievedInv, StreamInv', NEW h \in FrameHead,
           NEW page \in Maybe(FramePage), NEW d \in FrameData, LaterFrame(h, page, d)
    PROVE  BelievedInv'
  <1>1. /\ phase = "read" /\ paged' = paged
        /\ reads' # 0
        /\ said' = [ident |-> said.ident \cup h.ident, count |-> said.count \cup h.count]
        /\ h.ident \subseteq identity.ident /\ h.count \subseteq identity.count
    <2>1. reads \in Nat /\ reads' = reads + 1
      BY DEF LaterFrame, Decoded, StreamInv
    <2>2. reads' # 0
      BY <2>1
    <2> QED BY <2>2 DEF LaterFrame, Decoded, Unrevised
  <1>2. identity'.ident = identity.ident /\ identity'.count = identity.count
    BY DEF LaterFrame, StreamInv
  <1>3. ASSUME ~paged', layout' = layout PROVE Whole'
    BY <1>1, <1>2, <1>3 DEF Whole, BelievedInv
  <1>4. ASSUME layout' = identity'.count PROVE Whole'
    <2>1. identity.count \subseteq Nat
      BY DEF StreamInv
    <2> QED BY <1>2, <1>4, <2>1 DEF Whole
  <1>5. \/ phase' \notin {"read", "ok", "done"}
        \/ phase' = "read" /\ layout' = layout
        \/ phase' = "ok" /\ layout' = (IF paged' THEN identity'.count ELSE layout)
    BY TakeFrameEnds DEF LaterFrame
  <1> QED BY <1>1, <1>2, <1>3, <1>4, <1>5 DEF BelievedInv

(***************************************************************************)
(* A stream that was refused stays refused; the rest of a good one changes *)
(* nothing that was believed.                                              *)
(***************************************************************************)
THEOREM StreamBelieved == StreamSpec => []BelievedInv
  <1>1. StreamInit => BelievedInv
    BY DEF StreamInit, BelievedInv, Whole
  <1>2. StreamInv /\ StreamInv' /\ BelievedInv /\ [StreamNext]_streamVars => BelievedInv'
    <2> SUFFICES ASSUME StreamInv, StreamInv', BelievedInv, [StreamNext]_streamVars
                 PROVE  BelievedInv'
      OBVIOUS
    <2>1. CASE ReadFrame
      <3>1. ASSUME NEW as \in {"refused", "short"}, RefuseStream(as) PROVE BelievedInv'
        BY <3>1 DEF RefuseStream, BelievedInv
      <3>2. PICK h \in FrameHead :
               \/ LaterFrameRevises(h)
               \/ \E page \in Maybe(FramePage) :
                     \/ FirstPageRefused(h, page)
                     \/ LaterPageRefused(h, page)
                     \/ \E d \in FrameData :
                           FirstFrame(h, page, d) \/ LaterFrame(h, page, d)
        BY <2>1 DEF ReadFrame
      <3>3. CASE LaterFrameRevises(h)
        BY <3>1, <3>3 DEF LaterFrameRevises
      <3>4. ASSUME NEW page, FirstPageRefused(h, page) PROVE BelievedInv'
        BY <3>1, <3>4 DEF FirstPageRefused
      <3>5. ASSUME NEW page, LaterPageRefused(h, page) PROVE BelievedInv'
        BY <3>1, <3>5 DEF LaterPageRefused
      <3> QED BY <3>2, <3>3, <3>4, <3>5, FirstFrameBelieved, LaterFrameBelieved
    <2>2. CASE EndOfStream
      <3>1. /\ UNCHANGED <<identity, reads, said, paged>>
            /\ phase = "read"
            /\ \/ phase' = "ok" /\ layout' = (IF paged THEN identity.count ELSE layout)
               \/ phase' = "short"
        BY <2>2 DEF EndOfStream, FinishRange
      <3>2. identity.count \subseteq Nat
        BY DEF StreamInv
      <3> QED BY <3>1, <3>2 DEF BelievedInv, Whole
    <2>3. CASE DecodeFails
      BY <2>3 DEF DecodeFails, RefuseStream, BelievedInv
    <2>4. CASE DrainTrailer
      BY <2>4 DEF DrainTrailer, BelievedInv, Whole
    <2>5. CASE ReturnRange
      BY <2>5 DEF ReturnRange, BelievedInv, Whole
    <2>6. CASE UNCHANGED streamVars
      BY <2>6 DEF streamVars, BelievedInv, Whole
    <2> QED BY <2>1, <2>2, <2>3, <2>4, <2>5, <2>6 DEF StreamNext
  <1> QED BY <1>1, <1>2, StreamAccount, PTL DEF StreamSpec

(***************************************************************************)
(* check_later_frame runs on every frame, the last one too: no stream is   *)
(* believed that stated two identities or two counts.                      *)
(***************************************************************************)
THEOREM NoRevisionSafe == StreamSpec => []NoRevisionBelieved
  <1>1. BelievedInv => NoRevisionBelieved
    BY DEF BelievedInv, NoRevisionBelieved
  <1> QED BY <1>1, StreamBelieved, PTL

(***************************************************************************)
(* Whichever exit of the loop was taken, a layout that is handed on has    *)
(* every entry that was declared.                                          *)
(***************************************************************************)
THEOREM LayoutWhole == StreamSpec => []NeverPartialLayout
  <1>1. BelievedInv => NeverPartialLayout
    BY DEF BelievedInv, NeverPartialLayout, Whole
  <1> QED BY <1>1, StreamBelieved, PTL

-----------------------------------------------------------------------------
(***************************************************************************)
(* A holder that keeps the contract.  While its stream goes on, the pages  *)
(* that came are the first entries of the layout, without a gap, up to a   *)
(* page boundary or to the end; the bytes that came are the first of the   *)
(* window; and something is still due, so that the next frame is not a     *)
(* stall.                                                                  *)
(***************************************************************************)
UnderWay(c) ==
    /\ identity.ident = {"a"} /\ identity.count = {c}
    /\ identity.frontier <= c
    /\ identity.frontier % PageSize = 0 \/ identity.frontier = c
    /\ paged => filled = 0 .. identity.frontier - 1
    /\ ~paged => layout = {c} /\ identity.frontier = c
    /\ buffered = byteFrontier
    /\ identity.frontier < c \/ byteFrontier < window

ConformingInv ==
    sender = "conforming" =>
        /\ phase \in {"read", "ok", "done", "oom"}
        /\ phase = "read" /\ reads = 0 =>
              identity.frontier = 0 /\ buffered = 0 /\ byteFrontier = 0
        /\ phase = "read" /\ reads > 0 => \E c \in 1 .. MaxCount : UnderWay(c)
        /\ phase \in {"ok", "done"} => layout = identity.count /\ buffered = window

(***************************************************************************)
(* A full page that begins on a page boundary ends on one.                 *)
(***************************************************************************)
LEMMA NextBoundary ==
    ASSUME NEW P \in Nat \ {0}, NEW a \in Nat, a % P = 0
    PROVE  (a + P) % P = 0
  <1> DEFINE q == a \div P
  <1>1. q \in Int
    OBVIOUS
  <1>2. a = P * q + (a % P)
    OBVIOUS
  <1>3. a = P * q
    BY <1>1, <1>2
  <1>4. a + P = P * (q + 1)
    BY <1>1, <1>3
  <1>5. (P * (q + 1)) % P = 0
    BY <1>1
  <1> QED BY <1>4, <1>5

(***************************************************************************)
(* The page that is due at the frontier: it begins on a page boundary, so  *)
(* the assembler takes it, and ends on one or at the count.                *)
(***************************************************************************)
LEMMA DuePage ==
    ASSUME NEW off \in Nat, NEW c \in Nat, off < c, off % PageSize = 0,
           NEW p, p = [off |-> off, n |-> Smaller(PageSize, c - off)]
    PROVE  /\ PageFits(p, c, 0 .. off - 1)
           /\ p.n \in Nat /\ p.n >= 1 /\ off + p.n <= c
           /\ (off + p.n) % PageSize = 0 \/ off + p.n = c
           /\ (0 .. off - 1) \cup PageEntries({p}) = 0 .. off + p.n - 1
           /\ PageEnd({p}) = off + p.n /\ PageLen({p}) = p.n
  <1>1. p.off = off /\ p.n = Smaller(PageSize, c - off)
    OBVIOUS
  <1>2. p.n \in Nat /\ p.n >= 1 /\ off + p.n <= c
    BY <1>1, StreamAssumption DEF Smaller
  <1>3. (off + p.n) % PageSize = 0 \/ off + p.n = c
    <2>1. CASE p.n = PageSize
      BY <2>1, NextBoundary, StreamAssumption
    <2>2. CASE p.n = c - off
      BY <2>2
    <2> QED BY <1>1, <2>1, <2>2 DEF Smaller
  <1>4. PageEntries({p}) = off .. off + p.n - 1
    BY <1>1 DEF PageEntries
  <1>5. PageEntries({p}) \cap (0 .. off - 1) = {}
    BY <1>2, <1>4
  <1>6. (0 .. off - 1) \cup PageEntries({p}) = 0 .. off + p.n - 1
    BY <1>2, <1>4
  <1>7. PageEnd({p}) = off + p.n /\ PageLen({p}) = p.n
    BY <1>1, OneOfOne DEF PageEnd, PageLen
  <1>8. PageFits(p, c, 0 .. off - 1)
    BY <1>1, <1>5 DEF PageFits
  <1> QED BY <1>2, <1>3, <1>6, <1>7, <1>8

(***************************************************************************)
(* The end of the loop body on a frame that keeps the contract: it brings  *)
(* the bytes that are due at the frontier, or a page; the last one brings  *)
(* the rest of both.                                                       *)
(***************************************************************************)
LEMMA ConformingTake ==
    ASSUME window \in Nat, byteFrontier \in Nat, buffered = byteFrontier,
           byteFrontier <= window, window' = window,
           NEW d \in FrameData, NEW meta, NEW accepted \in BOOLEAN, NEW c \in Nat,
           identity'.count = {c}, identity'.frontier \in Nat,
           identity'.frontier <= c,
           paged' => filled' = 0 .. identity'.frontier - 1,
           ~paged' => meta = {c} /\ identity'.frontier = c,
           byteFrontier < window => d.offset = byteFrontier /\ (d.len = 0 => accepted),
           byteFrontier >= window => d.offset = 0 /\ d.len = 0,
           byteFrontier >= window => accepted \/ (window = 0 /\ ~paged'),
           d.complete => /\ identity'.frontier = c
                         /\ Larger(byteFrontier, d.offset + d.len) >= window,
           TakeFrame(meta, d, accepted)
    PROVE  \/ phase' = "oom"
           \/ phase' = "ok" /\ layout' = identity'.count /\ buffered' = window'
           \/ /\ phase' = "read" /\ layout' = meta /\ buffered' = byteFrontier'
              /\ identity'.frontier < c \/ byteFrontier' < window'
  <1>1. identity'.frontier = c => PrologueDrained
    BY DEF PrologueDrained
  <1>2. PrologueDrained /\ FinishRange(meta) => phase' = "ok" /\ layout' = {c}
    BY DEF FinishRange
  <1>3. CASE TakeMetadata(meta, accepted)
    <2>1. window = 0 /\ buffered' = buffered /\ byteFrontier' = byteFrontier
      BY <1>3 DEF TakeMetadata
    <2>2. ~paged' => PrologueDrained
      BY DEF PrologueDrained
    <2>3. CASE PrologueDrained
      <3>1. FinishRange(meta)
        BY <1>3, <2>3 DEF TakeMetadata
      <3> QED BY <1>2, <2>1, <2>3, <3>1
    <2>4. CASE ~PrologueDrained
      <3>1. accepted /\ identity'.frontier < c
        BY <1>1, <2>1, <2>2, <2>4
      <3> QED BY <1>3, <2>1, <2>4, <3>1 DEF TakeMetadata
    <2> QED BY <2>3, <2>4
  <1>4. CASE BeyondWindow(meta, d)
    BY <1>4 DEF BeyondWindow
  <1>5. CASE PlaceBytes(meta, d, accepted)
    <2> DEFINE end == d.offset + Smaller(d.len, window - d.offset)
    <2>1. d.offset \in Nat /\ d.len \in Nat /\ window > 0 /\ d.offset < window
      BY <1>5, StreamAssumption DEF FrameData, PlaceBytes
    <2>2. /\ end \in Nat /\ end <= window
          /\ byteFrontier < window => end >= byteFrontier
          /\ byteFrontier < window /\ end <= byteFrontier => accepted
          /\ byteFrontier >= window => end <= byteFrontier /\ accepted
      <3> DEFINE m == Smaller(d.len, window - d.offset)
      <3>1. /\ m \in Nat /\ m <= window - d.offset /\ m <= d.len
            /\ m = 0 => d.len = 0
        BY <2>1 DEF Smaller
      <3>2. end = d.offset + m
        OBVIOUS
      <3> HIDE DEF m, end
      <3>3. end \in Nat /\ end <= window
        BY <2>1, <3>1, <3>2
      <3>4. ASSUME byteFrontier < window
            PROVE  end >= byteFrontier /\ (end <= byteFrontier => accepted)
        BY <2>1, <3>1, <3>2, <3>4
      <3>5. ASSUME byteFrontier >= window PROVE end <= byteFrontier /\ accepted
        <4>1. accepted
          BY <2>1, <3>5
        <4>2. end <= byteFrontier
          BY <3>3, <3>5
        <4> QED BY <4>1, <4>2
      <3> QED BY <3>3, <3>4, <3>5
    <2>3. d.complete => Larger(byteFrontier, end) = window
      <3>1. CASE byteFrontier < window
        BY <2>1, <3>1 DEF Smaller, Larger
      <3>2. CASE byteFrontier >= window
        BY <2>1, <2>2, <3>2 DEF Larger
      <3> QED BY <3>1, <3>2
    <2> HIDE DEF end
    <2>4. Larger(byteFrontier, end) \in Nat /\ Larger(byteFrontier, end) <= window
      BY <2>2 DEF Larger
    <2>5. CASE phase' = "oom"
      BY <2>5
    <2>6. ASSUME buffered' = Larger(buffered, end), FinishRange(meta),
                 d.complete \/ (PrologueDrained /\ buffered' >= window)
          PROVE  phase' = "ok" /\ layout' = identity'.count /\ buffered' = window'
      <3>1. PrologueDrained
        BY <1>1, <2>6
      <3>2. buffered' = window
        BY <2>3, <2>4, <2>6
      <3> QED BY <1>2, <2>6, <3>1, <3>2
    <2>7. ASSUME buffered' = Larger(buffered, end), layout' = meta,
                 ~(PrologueDrained /\ buffered' >= window),
                 IF end <= byteFrontier /\ ~accepted
                    THEN phase' = "refused" /\ UNCHANGED byteFrontier
                    ELSE phase' = "read" /\ byteFrontier' = Larger(byteFrontier, end)
          PROVE  /\ phase' = "read" /\ layout' = meta /\ buffered' = byteFrontier'
                 /\ identity'.frontier < c \/ byteFrontier' < window'
      <3>1. ~(end <= byteFrontier /\ ~accepted)
        BY <2>2
      <3>2. phase' = "read" /\ byteFrontier' = Larger(byteFrontier, end)
        BY <2>7, <3>1
      <3>3. identity'.frontier = c => byteFrontier' < window
        BY <1>1, <2>4, <2>7, <3>2
      <3> QED BY <2>7, <3>2, <3>3
    <2> QED BY <1>5, <2>5, <2>6, <2>7 DEF PlaceBytes, end
  <1> QED BY <1>3, <1>4, <1>5 DEF TakeFrame

(***************************************************************************)
(* The first frame: the layout comes whole in it, or its first page does.  *)
(***************************************************************************)
LEMMA FirstFrameConforms ==
    ASSUME StreamInv, ConformingInv, sender = "conforming",
           NEW h \in FrameHead, NEW page \in Maybe(FramePage), NEW d \in FrameData,
           ConformingPage(h, page), ConformingData(h, page, d), FirstFrame(h, page, d)
    PROVE  ConformingInv'
  <1> DEFINE meta == {PageLen({p}) : p \in page}
  <1>1. /\ phase = "read" /\ reads = 0 /\ reads' = 1
        /\ window' = window /\ sender' = sender
        /\ identity.frontier = 0 /\ byteFrontier = 0 /\ buffered = 0
        /\ window \in Nat
    BY DEF FirstFrame, Decoded, ConformingInv, StreamInv
  <1>2. ConformingHead(h)
    BY DEF FirstFrame, Decoded
  <1>3. PICK c \in 1 .. MaxCount : h.count = {c}
    BY <1>1, <1>2 DEF ConformingHead
  <1>4. c \in Nat /\ 0 < c
    BY StreamAssumption
  <1> DEFINE p == [off |-> 0, n |-> Smaller(PageSize, c - 0)]
  <1>5. page = {p}
    <2>1. page = {[off |-> 0, n |-> Smaller(PageSize, b - 0)] : b \in {b \in h.count : 0 < b}}
      BY <1>1 DEF ConformingPage
    <2>2. {b \in h.count : 0 < b} = {c}
      BY <1>3, <1>4
    <2> QED BY <2>1, <2>2
  <1>6. 0 % PageSize = 0
    BY StreamAssumption
  <1>7. /\ p.n \in Nat /\ p.n >= 1 /\ 0 + p.n <= c
        /\ (0 + p.n) % PageSize = 0 \/ 0 + p.n = c
        /\ (0 .. 0 - 1) \cup PageEntries({p}) = 0 .. 0 + p.n - 1
        /\ PageEnd({p}) = 0 + p.n /\ PageLen({p}) = p.n
    <2>1. 0 \in Nat
      OBVIOUS
    <2> HIDE DEF p
    <2>2. p = [off |-> 0, n |-> Smaller(PageSize, c - 0)]
      BY DEF p
    <2> QED BY <1>4, <1>6, <2>1, <2>2, DuePage
  <1>8. p.n <= PageSize /\ (p.n = c \/ p.n < c)
    BY <1>4, StreamAssumption DEF Smaller
  <1> HIDE DEF p
  <1>9. 0 + p.n = p.n /\ (0 .. 0 - 1) \cup PageEntries({p}) = PageEntries({p})
    BY <1>7
  <1>10. /\ identity'.ident = {"a"} /\ identity'.count = {c}
         /\ identity'.frontier = p.n
    BY <1>2, <1>3, <1>5, <1>7, <1>9 DEF FirstFrame, ConformingHead
  <1>11. paged' <=> p.n < c
    <2>1. paged' = BeginsPaging(h, page)
      BY DEF FirstFrame
    <2>2. BeginsPaging(h, page) <=> c > p.n
      BY <1>3, <1>5, <1>7 DEF BeginsPaging
    <2> QED BY <1>4, <1>7, <2>1, <2>2
  <1>12. paged' => filled' = 0 .. p.n - 1
    BY <1>5, <1>7, <1>9 DEF FirstFrame
  <1>13. meta = {p.n}
    <2>1. meta = {PageLen({p})}
      BY <1>5
    <2> QED BY <1>7, <2>1
  <1> HIDE DEF meta
  <1> DEFINE accepted == paged' /\ page # {}
  <1>14. TakeFrame(meta, d, accepted)
    BY DEF FirstFrame, meta
  <1>15. accepted \in BOOLEAN /\ (accepted <=> p.n < c)
    BY <1>5, <1>11
  <1> HIDE DEF accepted
  <1>16. byteFrontier < window => d.offset = byteFrontier /\ (d.len = 0 => accepted)
    <2> SUFFICES ASSUME byteFrontier < window
                 PROVE  d.offset = byteFrontier /\ (d.len = 0 => accepted)
      OBVIOUS
    <2>1. d.offset = byteFrontier /\ (d.len = 0 => c > PageSize)
      BY <1>3 DEF ConformingData
    <2>2. c > PageSize => p.n < c
      BY <1>4, <1>8, StreamAssumption
    <2> QED BY <1>15, <2>1, <2>2
  <1>17. byteFrontier >= window =>
            /\ d.offset = 0 /\ d.len = 0
            /\ accepted \/ (window = 0 /\ ~paged')
    BY <1>1, <1>11, <1>15 DEF ConformingData
  <1>18. d.complete => /\ identity'.frontier = c
                       /\ Larger(byteFrontier, d.offset + d.len) >= window
    <2> SUFFICES ASSUME d.complete
                 PROVE  /\ p.n = c
                        /\ Larger(byteFrontier, d.offset + d.len) >= window
      BY <1>10
    <2>1. /\ h.count = {PageEnd(page)}
          /\ Larger(byteFrontier, d.offset + d.len) >= window
      BY DEF ConformingData
    <2> QED BY <1>3, <1>5, <1>7, <1>9, <2>1
  <1>19. \/ phase' = "oom"
         \/ phase' = "ok" /\ layout' = identity'.count /\ buffered' = window'
         \/ /\ phase' = "read" /\ layout' = meta /\ buffered' = byteFrontier'
            /\ identity'.frontier < c \/ byteFrontier' < window'
    <2>1. /\ buffered = byteFrontier /\ byteFrontier <= window
          /\ byteFrontier \in Nat
      BY <1>1
    <2>2. identity'.frontier \in Nat /\ identity'.frontier <= c
      BY <1>7, <1>9, <1>10
    <2>3. paged' => filled' = 0 .. identity'.frontier - 1
      BY <1>10, <1>12
    <2>4. ~paged' => meta = {c} /\ identity'.frontier = c
      BY <1>4, <1>7, <1>8, <1>10, <1>11, <1>13
    <2> QED BY <1>1, <1>4, <1>10, <1>14, <1>15, <1>16, <1>17, <1>18,
               <2>1, <2>2, <2>3, <2>4, ConformingTake
  <1>20. ASSUME phase' = "read", layout' = meta, buffered' = byteFrontier',
                identity'.frontier < c \/ byteFrontier' < window'
         PROVE  UnderWay(c)'
    <2>1. p.n <= c /\ (p.n % PageSize = 0 \/ p.n = c)
      BY <1>7, <1>9
    <2>2. ~paged' => layout' = {c} /\ p.n = c
      BY <1>4, <1>7, <1>8, <1>11, <1>13, <1>20
    <2> QED BY <1>10, <1>12, <1>20, <2>1, <2>2 DEF UnderWay
  <1> QED BY <1>1, <1>19, <1>20 DEF ConformingInv

(***************************************************************************)
(* A later frame: the page that is due, or none once all have come.        *)
(***************************************************************************)
LEMMA LaterFrameConforms ==
    ASSUME StreamInv, ConformingInv, sender = "conforming",
           NEW h \in FrameHead, NEW page \in Maybe(FramePage), NEW d \in FrameData,
           ConformingPage(h, page), ConformingData(h, page, d), LaterFrame(h, page, d)
    PROVE  ConformingInv'
  <1>1. /\ phase = "read" /\ reads > 0 /\ reads' = reads + 1
        /\ window' = window /\ sender' = sender /\ paged' = paged
        /\ window \in Nat /\ byteFrontier \in Nat /\ reads \in Nat
        /\ byteFrontier <= window /\ paged \in BOOLEAN
        /\ identity.frontier \in Nat
    BY DEF LaterFrame, Decoded, StreamInv
  <1>2. PICK c \in 1 .. MaxCount : UnderWay(c)
    BY <1>1 DEF ConformingInv
  <1>3. c \in Nat /\ 0 < c
    BY StreamAssumption
  <1>4. h.count = {c}
    BY <1>1, <1>2 DEF LaterFrame, Decoded, ConformingHead, UnderWay
  <1> DEFINE off == identity.frontier
             accepted == page # {}
             p == [off |-> off, n |-> Smaller(PageSize, c - off)]
  <1>5. page = {p} \/ (page = {} /\ off = c)
    <2>1. page = {[off |-> off, n |-> Smaller(PageSize, b - off)] : b \in {b \in h.count : off < b}}
      BY DEF ConformingPage
    <2>2. CASE off < c
      <3>1. {b \in h.count : off < b} = {c}
        BY <1>4, <2>2
      <3> QED BY <2>1, <3>1
    <2>3. CASE off = c
      <3>1. {b \in h.count : off < b} = {}
        BY <1>3, <1>4, <2>3
      <3> QED BY <2>1, <2>3, <3>1
    <2> QED BY <1>1, <1>2, <1>3, <2>2, <2>3 DEF UnderWay
  <1>6. page = {p} => off < c
    <2> SUFFICES ASSUME page = {p} PROVE off < c
      OBVIOUS
    <2>1. {b \in h.count : off < b} # {}
      BY DEF ConformingPage
    <2> QED BY <1>4, <2>1
  <1>7. /\ identity'.ident = {"a"} /\ identity'.count = {c}
        /\ identity'.frontier = (IF page = {} THEN off ELSE PageEnd(page))
        /\ filled' = filled \cup PageEntries(page)
    BY <1>2 DEF LaterFrame, UnderWay, StreamInv
  <1>8. page = {p} =>
            /\ p.n \in Nat /\ p.n >= 1 /\ off + p.n <= c
            /\ (off + p.n) % PageSize = 0 \/ off + p.n = c
            /\ (0 .. off - 1) \cup PageEntries({p}) = 0 .. off + p.n - 1
            /\ PageEnd({p}) = off + p.n
    <2> SUFFICES ASSUME page = {p}
                 PROVE  /\ p.n \in Nat /\ p.n >= 1 /\ off + p.n <= c
                        /\ (off + p.n) % PageSize = 0 \/ off + p.n = c
                        /\ (0 .. off - 1) \cup PageEntries({p}) = 0 .. off + p.n - 1
                        /\ PageEnd({p}) = off + p.n
      OBVIOUS
    <2>1. off \in Nat /\ off < c /\ off % PageSize = 0
      BY <1>1, <1>2, <1>3, <1>6 DEF UnderWay
    <2>2. p = [off |-> off, n |-> Smaller(PageSize, c - off)]
      OBVIOUS
    <2> HIDE DEF p, off
    <2> QED BY <1>3, <2>1, <2>2, DuePage
  <1> HIDE DEF p
  <1>9. /\ identity'.frontier \in Nat /\ identity'.frontier <= c
        /\ identity'.frontier % PageSize = 0 \/ identity'.frontier = c
        /\ paged' => filled' = 0 .. identity'.frontier - 1
        /\ ~paged' => identity'.frontier = c /\ layout = {c}
        /\ page # {} => paged
    <2>1. CASE page = {}
      <3>1. identity'.frontier = off /\ filled' = filled
        BY <1>7, <2>1 DEF PageEntries
      <3> QED BY <1>1, <1>2, <2>1, <3>1 DEF UnderWay
    <2>2. CASE page = {p}
      <3>1. paged
        BY <1>2, <1>6, <1>3, <2>2 DEF UnderWay
      <3>2. identity'.frontier = off + p.n /\ filled' = (0 .. off - 1) \cup PageEntries({p})
        BY <1>2, <1>7, <1>8, <2>2, <3>1 DEF UnderWay
      <3>3. filled' = 0 .. identity'.frontier - 1
        <4>1. (0 .. off - 1) \cup PageEntries({p}) = 0 .. off + p.n - 1
          BY <1>8, <2>2
        <4>2. identity'.frontier - 1 = off + p.n - 1
          BY <1>1, <1>8, <2>2, <3>2
        <4>3. filled' = 0 .. off + p.n - 1
          BY <3>2, <4>1, Zenon
        <4> QED BY <4>2, <4>3, Zenon
      <3>4. identity'.frontier \in Nat /\ identity'.frontier <= c
        BY <1>1, <1>8, <2>2, <3>2
      <3>5. identity'.frontier % PageSize = 0 \/ identity'.frontier = c
        BY <1>8, <2>2, <3>2
      <3> QED BY <1>1, <3>1, <3>3, <3>4, <3>5
    <2> QED BY <1>5, <2>1, <2>2
  <1>10. byteFrontier >= window => accepted
    <2>1. byteFrontier >= window => off < c
      BY <1>1, <1>2 DEF UnderWay
    <2>2. off < c => page = {p}
      BY <1>3, <1>5
    <2> QED BY <2>1, <2>2
  <1>11. byteFrontier < window => d.offset = byteFrontier /\ (d.len = 0 => accepted)
    BY DEF ConformingData
  <1>12. byteFrontier >= window => d.offset = 0 /\ d.len = 0
    BY <1>1 DEF ConformingData
  <1>13. d.complete => /\ identity'.frontier = c
                       /\ Larger(byteFrontier, d.offset + d.len) >= window
    <2> SUFFICES ASSUME d.complete
                 PROVE  /\ identity'.frontier = c
                        /\ Larger(byteFrontier, d.offset + d.len) >= window
      OBVIOUS
    <2>1. /\ h.count = {PageEnd(page)}
          /\ Larger(byteFrontier, d.offset + d.len) >= window
      BY DEF ConformingData
    <2>2. page # {} \/ off = c
      BY <1>5
    <2> QED BY <1>4, <1>7, <2>1, <2>2
  <1>14. TakeFrame(layout, d, accepted) /\ accepted \in BOOLEAN
    BY DEF LaterFrame
  <1> HIDE DEF accepted, off
  <1>15. \/ phase' = "oom"
         \/ phase' = "ok" /\ layout' = identity'.count /\ buffered' = window'
         \/ /\ phase' = "read" /\ layout' = layout /\ buffered' = byteFrontier'
            /\ identity'.frontier < c \/ byteFrontier' < window'
    <2>1. buffered = byteFrontier
      BY <1>2 DEF UnderWay
    <2> QED BY <1>1, <1>3, <1>7, <1>9, <1>10, <1>11, <1>12, <1>13, <1>14, <2>1,
               ConformingTake
  <1>16. ASSUME phase' = "read", layout' = layout, buffered' = byteFrontier',
                identity'.frontier < c \/ byteFrontier' < window'
         PROVE  UnderWay(c)'
    BY <1>7, <1>9, <1>16 DEF UnderWay
  <1>17. reads' # 0 /\ reads' > 0
    BY <1>1
  <1> QED BY <1>1, <1>15, <1>16, <1>17 DEF ConformingInv

(***************************************************************************)
(* The pages of such a holder are the ones that are due.                   *)
(***************************************************************************)
LEMMA DuePages ==
    ASSUME NEW h, NEW page, NEW c \in Nat, h.count = {c}, sender = "conforming",
           ConformingPage(h, page), NEW p \in page
    PROVE  /\ identity.frontier < c
           /\ p = [off |-> identity.frontier,
                   n |-> Smaller(PageSize, c - identity.frontier)]
  <1>1. PICK b \in {b \in h.count : sender = "conforming" /\ identity.frontier < b} :
           p = [off |-> identity.frontier,
                n |-> Smaller(PageSize, b - identity.frontier)]
    BY DEF ConformingPage
  <1> QED BY <1>1

(***************************************************************************)
(* So the assembler takes the first one.                                   *)
(***************************************************************************)
LEMMA FirstPageTaken ==
    ASSUME StreamInv, ConformingInv, sender = "conforming", phase = "read", reads = 0,
           NEW h, ConformingHead(h), NEW page, ConformingPage(h, page)
    PROVE  FirstPageFits(h, page)
  <1>1. PICK c \in 1 .. MaxCount : h.count = {c}
    BY DEF ConformingHead
  <1>2. c \in Nat /\ 0 < c /\ c <= MaxCount
    BY StreamAssumption
  <1>3. identity.frontier = 0
    BY DEF ConformingInv
  <1>4. ASSUME NEW p \in page PROVE PageFits(p, c, {})
    <2>1. p = [off |-> 0, n |-> Smaller(PageSize, c - 0)]
      BY <1>1, <1>2, <1>3, <1>4, DuePages
    <2>2. 0 % PageSize = 0 /\ 0 \in Nat
      BY StreamAssumption
    <2>3. PageFits(p, c, 0 .. 0 - 1)
      BY <1>2, <2>1, <2>2, DuePage
    <2>4. 0 .. 0 - 1 = {}
      OBVIOUS
    <2> QED BY <2>3, <2>4
  <1> QED BY <1>1, <1>2, <1>4 DEF FirstPageFits

(***************************************************************************)
(* And each later one, which only an assembly from pages still expects.    *)
(***************************************************************************)
LEMMA LaterPageTaken ==
    ASSUME StreamInv, ConformingInv, sender = "conforming", phase = "read", reads > 0,
           NEW h, ConformingHead(h), NEW page, ConformingPage(h, page)
    PROVE  /\ PageAdvances(page) /\ LaterPageFits(page)
           /\ page # {} => paged
  <1>1. PICK c \in 1 .. MaxCount : UnderWay(c)
    BY DEF ConformingInv
  <1>2. c \in Nat /\ reads # 0 /\ identity.frontier \in Nat
    BY StreamAssumption DEF StreamInv
  <1>3. h.count = {c}
    BY <1>1, <1>2 DEF ConformingHead, UnderWay
  <1>4. ASSUME NEW p \in page
        PROVE  p.off >= identity.frontier /\ paged /\ PageFits(p, c, filled)
    <2>1. /\ identity.frontier < c
          /\ p = [off |-> identity.frontier,
                  n |-> Smaller(PageSize, c - identity.frontier)]
      BY <1>2, <1>3, <1>4, DuePages
    <2>2. identity.frontier % PageSize = 0
      BY <1>1, <1>2, <2>1 DEF UnderWay
    <2>3. paged /\ filled = 0 .. identity.frontier - 1
      BY <1>1, <1>2, <2>1 DEF UnderWay
    <2>4. PageFits(p, c, 0 .. identity.frontier - 1)
      BY <1>2, <2>1, <2>2, DuePage
    <2> QED BY <1>2, <2>1, <2>3, <2>4
  <1> QED BY <1>1, <1>4 DEF PageAdvances, LaterPageFits, UnderWay

(***************************************************************************)
(* Such a holder is never refused: its frames revise nothing, its pages    *)
(* are the ones the assembler expects, and it does not end early.          *)
(***************************************************************************)
THEOREM StreamConforms == StreamSpec => []ConformingInv
  <1>1. StreamInit => ConformingInv
    BY DEF StreamInit, ConformingInv
  <1>2. StreamInv /\ ConformingInv /\ [StreamNext]_streamVars => ConformingInv'
    <2> SUFFICES ASSUME StreamInv, ConformingInv, [StreamNext]_streamVars,
                        sender' = "conforming"
                 PROVE  ConformingInv'
      BY DEF ConformingInv
    <2>1. CASE ReadFrame
      <3>1. PICK h \in FrameHead :
               \/ LaterFrameRevises(h)
               \/ /\ reads > 0 => Unrevised(h)
                  /\ \E page \in Maybe(FramePage) :
                        /\ sender # "arbitrary" => ConformingPage(h, page)
                        /\ \/ FirstPageRefused(h, page)
                           \/ LaterPageRefused(h, page)
                           \/ \E d \in FrameData :
                                 /\ sender # "arbitrary" => ConformingData(h, page, d)
                                 /\ FirstFrame(h, page, d) \/ LaterFrame(h, page, d)
        BY <2>1 DEF ReadFrame
      <3>2. Decoded(h) /\ sender = "conforming" /\ phase = "read" /\ ConformingHead(h)
        BY <3>1 DEF LaterFrameRevises, FirstPageRefused, LaterPageRefused, FirstFrame,
                    LaterFrame, Decoded
      <3>3. ASSUME reads > 0 PROVE Unrevised(h)
        <4>1. PICK c \in 1 .. MaxCount : UnderWay(c)
          BY <3>2, <3>3 DEF ConformingInv
        <4>2. reads # 0
          BY <3>3 DEF StreamInv
        <4>3. ~h.proof
          BY <3>2, <4>2 DEF ConformingHead
        <4>4. h.ident = identity.ident /\ h.count = identity.count
          BY <3>2, <4>1, <4>2 DEF ConformingHead, UnderWay
        <4> QED BY <3>2, <4>3, <4>4 DEF ConformingHead, Unrevised
      <3>4. ~LaterFrameRevises(h)
        BY <3>3 DEF LaterFrameRevises
      <3>5. PICK page \in Maybe(FramePage) :
               /\ ConformingPage(h, page)
               /\ \/ FirstPageRefused(h, page)
                  \/ LaterPageRefused(h, page)
                  \/ \E d \in FrameData :
                        /\ ConformingData(h, page, d)
                        /\ FirstFrame(h, page, d) \/ LaterFrame(h, page, d)
        BY <3>1, <3>2, <3>4
      <3>6. ~FirstPageRefused(h, page)
        BY <3>2, <3>5, FirstPageTaken DEF FirstPageRefused
      <3>7. ~LaterPageRefused(h, page)
        BY <3>2, <3>5, LaterPageTaken DEF LaterPageRefused
      <3> QED BY <3>2, <3>5, <3>6, <3>7, FirstFrameConforms, LaterFrameConforms
    <2>2. CASE EndOfStream
      BY <2>2 DEF EndOfStream
    <2>3. CASE DecodeFails
      BY <2>3 DEF DecodeFails
    <2>4. CASE DrainTrailer
      BY <2>4 DEF DrainTrailer, ConformingInv
    <2>5. CASE ReturnRange
      BY <2>5 DEF ReturnRange, ConformingInv
    <2>6. CASE UNCHANGED streamVars
      BY <2>6 DEF streamVars, ConformingInv, UnderWay
    <2> QED BY <2>1, <2>2, <2>3, <2>4, <2>5, <2>6 DEF StreamNext
  <1> QED BY <1>1, <1>2, StreamAccount, PTL DEF StreamSpec

(***************************************************************************)
(* A request for the layout to a holder that keeps the wire contract ends, *)
(* short of memory, with the whole layout and the whole window, however    *)
(* the holder groups pages and bytes into frames.                          *)
(***************************************************************************)
THEOREM ConformingIsAssembled == StreamSpec => []ConformingAssembled
  <1>1. ConformingInv => ConformingAssembled
    BY DEF ConformingInv, ConformingAssembled
  <1> QED BY <1>1, StreamConforms, PTL

=============================================================================
