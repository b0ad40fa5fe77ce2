----------------------- MODULE ResourceAssemblyProofs -----------------------
(***************************************************************************)
(* A plan tiles its layout and every range of it can be verified, for any  *)
(* layout and any window; and however the ranges are fed, the digest is    *)
(* that of the whole resource.                                             *)
(***************************************************************************)
EXTENDS ResourceAssembly, DataLemmas, FiniteSetTheorems

(***************************************************************************)
(* The offsets of a layout are its running sums.                           *)
(***************************************************************************)
LEMMA OffsetsRun ==
    ASSUME NEW lens \in Seq(Nat)
    PROVE  /\ Len(lens) \in Nat
           /\ \A k \in 0 .. Len(lens) : Offsets(lens)[k] \in Nat
           /\ Offsets(lens)[0] = 0
           /\ \A k \in 1 .. Len(lens) :
                 lens[k] \in Nat /\ Offsets(lens)[k] = Offsets(lens)[k - 1] + lens[k]
           /\ \A i, j \in 0 .. Len(lens) : i <= j => Offsets(lens)[i] <= Offsets(lens)[j]
<1>1. Offsets(lens) = Sums(lens)
    BY Zenon DEF Offsets, Sums
<1>2. Len(lens) \in Nat /\ \A k \in 1 .. Len(lens) : lens[k] \in Nat
    OBVIOUS
<1>3. ASSUME NEW i \in 0 .. Len(lens), NEW j \in 0 .. Len(lens), i <= j
      PROVE  Sums(lens)[i] <= Sums(lens)[j]
    <2>1. j \in i .. Len(lens)
        BY <1>3
    <2> QED
        BY <2>1, SumsGrow
<1> QED
    BY <1>1, <1>2, <1>3, SumsDefined

(***************************************************************************)
(* The inner loop of plan_ranges ends: it stops at the first chunk that    *)
(* does not join, at the latest after the last one.                        *)
(***************************************************************************)
LEMMA RangeEndIs ==
    ASSUME NEW lens \in Seq(Nat), NEW w, NEW i \in 0 .. Len(lens) - 1
    PROVE  /\ RangeEnd(lens, w, i) \in i + 1 .. Len(lens)
           /\ \A j \in i + 1 .. RangeEnd(lens, w, i) - 1 : JoinsRange(lens, w, i, j)
           /\ ~JoinsRange(lens, w, i, RangeEnd(lens, w, i))
<1> DEFINE n == Len(lens)
           S == {e \in i + 1 .. n : ~JoinsRange(lens, w, i, e)}
           P(e) == /\ \A j \in i + 1 .. e - 1 : JoinsRange(lens, w, i, j)
                   /\ ~JoinsRange(lens, w, i, e)
<1>1. n \in Nat /\ i \in Nat /\ n \in i + 1 .. n
    OBVIOUS
<1>2. n \in S
    <2>1. ~JoinsRange(lens, w, i, n)
        BY <1>1 DEF JoinsRange
    <2> QED
        BY <1>1, <2>1
<1>3. S \subseteq Nat
    BY <1>1
<1>4. PICK m \in S : \A k \in S : m <= k
    <2> HIDE DEF S
    <2> QED
        BY <1>2, <1>3, LeastOf
<1>5. \E e \in i + 1 .. n : P(e)
    <2>1. ASSUME NEW j \in i + 1 .. m - 1 PROVE JoinsRange(lens, w, i, j)
        <3>1. j \in i + 1 .. n /\ ~(m <= j)
            BY <1>1
        <3> QED
            BY <1>4, <3>1
    <2> QED
        BY <2>1
<1>6. RangeEnd(lens, w, i) = CHOOSE e \in i + 1 .. n : P(e)
    BY DEF RangeEnd
<1> HIDE DEF P
<1>7. RangeEnd(lens, w, i) \in i + 1 .. n /\ P(RangeEnd(lens, w, i))
    BY <1>5, <1>6
<1> QED
    BY <1>7 DEF P

(***************************************************************************)
(* The outer loop, range by range.                                         *)
(***************************************************************************)
LEMMA StartsRun ==
    ASSUME NEW lens \in Seq(Nat), NEW w
    PROVE  /\ \A k \in 0 .. Len(lens) : StartOf(lens, w)[k] \subseteq 0 .. Len(lens) - 1
           /\ StartOf(lens, w)[0] = {0} \cap 0 .. Len(lens) - 1
           /\ \A k \in 1 .. Len(lens) :
                 StartOf(lens, w)[k] =
                     {RangeEnd(lens, w, i) : i \in StartOf(lens, w)[k - 1]}
                         \cap 0 .. Len(lens) - 1
<1> DEFINE n == Len(lens)
           N == 0 .. n - 1
           V == SUBSET N
           base == {0} \cap N
           Ends(v) == {RangeEnd(lens, w, i) : i \in v} \cap N
           step == [k \in 1 .. n |-> [v \in V |-> Ends(v)]]
<1>1. n \in Nat /\ base \in V /\ \A v : Ends(v) \in V
    OBVIOUS
<1>2. step \in [1 .. n -> [V -> V]]
    <2> HIDE DEF V, n, Ends
    <2> QED
        BY <1>1
<1>3. PICK f \in [0 .. n -> V] : Follows(f, n, base, step)
    <2> HIDE DEF V, n, step, base
    <2> QED
        BY <1>1, <1>2, RecursionExists
<1>4. ASSUME NEW k \in 0 .. n
      PROVE  f[k] = IF k = 0 THEN base ELSE Ends(f[k - 1])
    <2>1. CASE k = 0
        <3> HIDE DEF step, V, n, base
        <3> QED
            BY <1>3, <2>1 DEF Follows
    <2>2. CASE k # 0
        <3>1. k \in 1 .. n /\ k - 1 \in 0 .. n
            BY <1>1, <2>2
        <3>2. f[k - 1] \in V
            <4> HIDE DEF V
            <4> QED
                BY <3>1
        <3>3. f[k] = step[k][f[k - 1]]
            <4> HIDE DEF step, V, n, base
            <4> QED
                BY <1>3, <2>2 DEF Follows
        <3> HIDE DEF V, n, base, Ends
        <3> QED
            BY <2>2, <3>1, <3>2, <3>3
    <2> QED
        BY <2>1, <2>2
<1>5. f = [k \in 0 .. n |-> IF k = 0 THEN base ELSE Ends(f[k - 1])]
    <2> HIDE DEF step, V, n, base, Ends
    <2> QED
        BY <1>4
<1> DEFINE g == StartOf(lens, w)
<1>6. g = [k \in 0 .. n |-> IF k = 0 THEN base ELSE Ends(g[k - 1])]
    BY <1>5, Zenon DEF StartOf
<1> HIDE DEF g
<1>7. g[0] = base /\ \A k \in 1 .. n : g[k] = Ends(g[k - 1])
    <2>1. 0 \in 0 .. n /\ \A k \in 1 .. n : k \in 0 .. n /\ k # 0
        BY <1>1
    <2> HIDE DEF n, base, Ends
    <2> QED
        BY <1>6, <2>1
<1>8. \A k \in 0 .. n : g[k] \in V
    <2>1. \A k \in 0 .. n : k = 0 \/ k \in 1 .. n
        BY <1>1
    <2> HIDE DEF V, n, base, Ends
    <2> QED
        BY <1>1, <1>7, <2>1
<1> QED
    BY <1>7, <1>8 DEF g

(***************************************************************************)
(* Each turn of the loop begins one range at most, with a chunk no earlier *)
(* than its number.                                                        *)
(***************************************************************************)
LEMMA OneStart ==
    ASSUME NEW lens \in Seq(Nat), NEW w, NEW m \in 0 .. Len(lens)
    PROVE  /\ \A i \in StartOf(lens, w)[m] : i >= m
           /\ \A i, j \in StartOf(lens, w)[m] : i = j
<1> DEFINE n == Len(lens)
           g == StartOf(lens, w)
           T == {k \in 0 .. n : /\ \A i \in g[k] : i >= k
                                /\ \A i, j \in g[k] : i = j}
<1>1. n \in Nat
    OBVIOUS
<1>2. /\ g[0] = {0} \cap 0 .. n - 1
      /\ \A k \in 0 .. n : g[k] \subseteq 0 .. n - 1
      /\ \A k \in 1 .. n : g[k] = {RangeEnd(lens, w, i) : i \in g[k - 1]} \cap 0 .. n - 1
    BY StartsRun
<1> HIDE DEF g
<1>3. 0 \in T
    BY <1>1, <1>2
<1>4. ASSUME NEW k \in 1 .. n, k - 1 \in T PROVE k \in T
    <2>1. k \in 0 .. n /\ k - 1 \in 0 .. n
        BY <1>1
    <2>2. ASSUME NEW i \in g[k]
          PROVE  /\ i >= k
                 /\ \E a \in g[k - 1] : i = RangeEnd(lens, w, a)
        <3>1. PICK a \in g[k - 1] : i = RangeEnd(lens, w, a)
            BY <1>2, <2>2
        <3>2. a \in 0 .. n - 1 /\ a >= k - 1
            BY <1>2, <1>4, <2>1
        <3>3. i \in a + 1 .. n
            BY <3>1, <3>2, RangeEndIs
        <3>4. i >= k
            BY <3>2, <3>3
        <3> QED
            BY <3>1, <3>4
    <2>3. ASSUME NEW i \in g[k], NEW j \in g[k] PROVE i = j
        <3>1. PICK a \in g[k - 1] : i = RangeEnd(lens, w, a)
            BY <2>2
        <3>2. PICK b \in g[k - 1] : j = RangeEnd(lens, w, b)
            BY <2>2
        <3>3. a = b
            BY <1>4
        <3> QED
            BY <3>1, <3>2, <3>3
    <2> QED
        BY <2>1, <2>2, <2>3
<1>5. m \in T
    <2> HIDE DEF T
    <2>1. 0 .. n \subseteq T
        BY <1>1, <1>3, <1>4, UpToInduction
    <2> QED
        BY <2>1
<1> QED
    BY <1>5 DEF g

(***************************************************************************)
(* A later range begins no earlier than an earlier one ends.               *)
(***************************************************************************)
LEMMA LaterStart ==
    ASSUME NEW lens \in Seq(Nat), NEW w, NEW m \in 0 .. Len(lens),
           NEW l \in 0 .. Len(lens), m < l,
           NEW i \in StartOf(lens, w)[m], NEW j \in StartOf(lens, w)[l]
    PROVE  RangeEnd(lens, w, i) <= j
<1> DEFINE n == Len(lens)
           g == StartOf(lens, w)
           e == RangeEnd(lens, w, i)
           T == {k \in 0 .. n : m < k => \A x \in g[k] : e <= x}
<1>1. n \in Nat
    OBVIOUS
<1>2. /\ \A k \in 0 .. n : g[k] \subseteq 0 .. n - 1
      /\ \A k \in 1 .. n : g[k] = {RangeEnd(lens, w, x) : x \in g[k - 1]} \cap 0 .. n - 1
    BY StartsRun
<1>3. \A a, b \in g[m] : a = b
    BY OneStart
<1>4. i \in 0 .. n - 1 /\ e \in i + 1 .. n
    BY <1>2, RangeEndIs
<1> HIDE DEF g, e
<1>5. 0 \in T
    BY <1>1
<1>6. ASSUME NEW k \in 1 .. n, k - 1 \in T PROVE k \in T
    <2> SUFFICES ASSUME m < k, NEW x \in g[k] PROVE e <= x
        BY <1>1
    <2>1. PICK a \in g[k - 1] : x = RangeEnd(lens, w, a)
        BY <1>2
    <2>2. k - 1 \in 0 .. n
        BY <1>1
    <2>3. a \in 0 .. n - 1
        BY <1>2, <2>2
    <2>4. x \in a + 1 .. n
        BY <2>1, <2>3, RangeEndIs
    <2>5. CASE m = k - 1
        <3>1. a = i
            BY <1>3, <2>5 DEF g
        <3>2. x = e
            BY <2>1, <3>1 DEF e
        <3> QED
            BY <1>4, <3>2
    <2>6. CASE m # k - 1
        <3>1. m < k - 1
            BY <2>6
        <3>2. e <= a
            BY <1>6, <3>1
        <3> QED
            BY <1>4, <2>3, <2>4, <3>2
    <2> QED
        BY <2>5, <2>6
<1>7. l \in T
    <2> HIDE DEF T
    <2>1. 0 .. n \subseteq T
        BY <1>1, <1>5, <1>6, UpToInduction
    <2> QED
        BY <2>1
<1> QED
    BY <1>7 DEF g, e

-----------------------------------------------------------------------------
(***************************************************************************)
(* The ranges of a plan whose window is w, and what each is made of: the   *)
(* chunks from i to e, and what stands between their offsets.              *)
(***************************************************************************)
Ranges(lens, w) == {RangeFrom(lens, w, i) : i \in RangeStarts(lens, w)}

AtLeastOne(window) == IF window = 0 THEN 1 ELSE window

Spans(lens, w, r, i, e) ==
    /\ i \in 0 .. Len(lens) - 1 /\ e \in i + 1 .. Len(lens)
    /\ e = RangeEnd(lens, w, i)
    /\ r.chunkStart = i /\ r.chunkEnd = e
    /\ r.offset = Offsets(lens)[i] /\ r.offset \in Nat
    /\ r.length \in Nat /\ r.offset + r.length = Offsets(lens)[e]

(***************************************************************************)
(* The range that begins with a chunk spans the chunks up to its end.      *)
(***************************************************************************)
LEMMA StartSpans ==
    ASSUME NEW lens \in Seq(Nat), NEW w, NEW i \in 0 .. Len(lens) - 1
    PROVE  Spans(lens, w, RangeFrom(lens, w, i), i, RangeEnd(lens, w, i))
<1> DEFINE e == RangeEnd(lens, w, i)
           r == RangeFrom(lens, w, i)
<1>1. e \in i + 1 .. Len(lens)
    BY RangeEndIs
<1>2. r = [offset |-> Offsets(lens)[i], length |-> Offsets(lens)[e] - Offsets(lens)[i],
           chunkStart |-> i, chunkEnd |-> e]
    BY DEF RangeFrom
<1> HIDE DEF e, r
<1>3. i \in 0 .. Len(lens) /\ e \in 0 .. Len(lens) /\ i <= e
    BY <1>1
<1>4. /\ Offsets(lens)[i] \in Nat /\ Offsets(lens)[e] \in Nat
      /\ Offsets(lens)[i] <= Offsets(lens)[e]
    BY <1>3, OffsetsRun
<1>5. /\ r.offset = Offsets(lens)[i] /\ r.offset \in Nat
      /\ r.chunkStart = i /\ r.chunkEnd = e
      /\ r.length = Offsets(lens)[e] - Offsets(lens)[i]
    BY <1>2, <1>4
<1>6. r.length \in Nat /\ r.offset + r.length = Offsets(lens)[e]
    BY <1>4, <1>5
<1> QED
    BY <1>1, <1>5, <1>6 DEF Spans, e, r

(***************************************************************************)
(* Every planned range is made so, by some turn of the loop.               *)
(***************************************************************************)
LEMMA RangeSpans ==
    ASSUME NEW lens \in Seq(Nat), NEW w, NEW r \in Ranges(lens, w)
    PROVE  \E m \in 0 .. Len(lens), i \in 0 .. Len(lens) - 1 :
              /\ i \in StartOf(lens, w)[m]
              /\ r = RangeFrom(lens, w, i)
              /\ Spans(lens, w, r, i, RangeEnd(lens, w, i))
<1>1. PICK i \in RangeStarts(lens, w) : r = RangeFrom(lens, w, i)
    BY DEF Ranges
<1>2. PICK m \in 0 .. Len(lens) : i \in StartOf(lens, w)[m]
    BY DEF RangeStarts
<1>3. i \in 0 .. Len(lens) - 1
    BY <1>2, StartsRun
<1> QED
    BY <1>1, <1>2, <1>3, StartSpans

(***************************************************************************)
(* A range that is not the last one has bytes, and ends before the later   *)
(* ones: an empty range would have taken the next chunk.                   *)
(***************************************************************************)
LEMMA LaterRange ==
    ASSUME NEW lens \in Seq(Nat), NEW w \in Nat, NEW m \in 0 .. Len(lens),
           NEW l \in 0 .. Len(lens), m < l,
           NEW i \in StartOf(lens, w)[m], NEW j \in StartOf(lens, w)[l],
           NEW r, NEW q, NEW e, Spans(lens, w, r, i, e), NEW f, Spans(lens, w, q, j, f)
    PROVE  r.length > 0 /\ r.offset + r.length <= q.offset
<1>1. /\ e <= j /\ Len(lens) \in Nat
      /\ j \in 0 .. Len(lens) - 1 /\ i \in 0 .. Len(lens) - 1
      /\ e \in i + 1 .. Len(lens)
    <2>1. e = RangeEnd(lens, w, i) /\ i \in 0 .. Len(lens) - 1 /\ e \in i + 1 .. Len(lens)
        BY DEF Spans
    <2>2. j \in 0 .. Len(lens) - 1 /\ Len(lens) \in Nat
        BY DEF Spans
    <2>3. RangeEnd(lens, w, i) <= j
        BY LaterStart
    <2> QED
        BY <2>1, <2>2, <2>3
<1>2. /\ e \in 0 .. Len(lens) /\ j \in 0 .. Len(lens) /\ i \in 0 .. Len(lens)
      /\ e < Len(lens)
    BY <1>1
<1>3. Offsets(lens)[e] <= Offsets(lens)[j]
    BY <1>1, <1>2, OffsetsRun
<1>4. r.offset + r.length <= q.offset
    BY <1>3 DEF Spans
<1>5. ~JoinsRange(lens, w, i, e)
    BY <1>1, RangeEndIs DEF Spans
<1>6. Offsets(lens)[e] - Offsets(lens)[i] > 0
    BY <1>2, <1>5 DEF JoinsRange
<1>7. /\ Offsets(lens)[e] \in Nat /\ Offsets(lens)[i] \in Nat
      /\ r.offset + r.length = Offsets(lens)[e] /\ r.offset = Offsets(lens)[i]
      /\ r.length \in Nat
    BY <1>2, OffsetsRun DEF Spans
<1>8. r.length > 0
    BY <1>6, <1>7
<1> QED
    BY <1>4, <1>8

(***************************************************************************)
(* The plan tiles the resource: ranges do not overlap, the first begins at *)
(* zero, where one ends another begins unless it is the end, and only the  *)
(* last may be empty.                                                      *)
(***************************************************************************)
Tiled(plan, total) ==
    /\ total \in Nat
    /\ \A r \in plan : /\ r.offset \in Nat /\ r.length \in Nat
                       /\ r.offset + r.length <= total
                       /\ r.length = 0 => r.offset = total
    /\ \A r \in plan : \/ r.offset + r.length = total
                       \/ \E q \in plan : q.offset = r.offset + r.length
    /\ \A r, q \in plan : /\ r.offset = q.offset => r = q
                          /\ r.offset < q.offset => r.offset + r.length <= q.offset
    /\ 0 = total \/ \E r \in plan : r.offset = 0

(***************************************************************************)
(* The plan of any layout and window does.                                 *)
(***************************************************************************)
LEMMA PlanTiles ==
    ASSUME NEW lens \in Seq(Nat), NEW w \in Nat
    PROVE  Tiled(Ranges(lens, w), TotalLength(lens))
<1> DEFINE n == Len(lens)
           total == TotalLength(lens)
<1>1. n \in Nat /\ n \in 0 .. n /\ total = Offsets(lens)[n] /\ total \in Nat
    BY OffsetsRun DEF TotalLength
<1>2. ASSUME NEW m \in 0 .. n, NEW i \in StartOf(lens, w)[m]
      PROVE  RangeFrom(lens, w, i) \in Ranges(lens, w)
    BY DEF Ranges, RangeStarts
<1>3. ASSUME NEW r \in Ranges(lens, w)
      PROVE  /\ r.offset \in Nat /\ r.length \in Nat
             /\ r.offset + r.length <= total
             /\ r.length = 0 => r.offset = total
             /\ \/ r.offset + r.length = total
                \/ \E q \in Ranges(lens, w) : q.offset = r.offset + r.length
    <2>1. PICK m \in 0 .. n, i \in 0 .. n - 1 :
             /\ i \in StartOf(lens, w)[m] /\ r = RangeFrom(lens, w, i)
             /\ Spans(lens, w, r, i, RangeEnd(lens, w, i))
        BY <1>3, RangeSpans
    <2> DEFINE e == RangeEnd(lens, w, i)
    <2>2. /\ e \in i + 1 .. n /\ r.offset + r.length = Offsets(lens)[e]
          /\ r.offset \in Nat /\ r.length \in Nat
        BY <2>1 DEF Spans
    <2>3. i >= m
        BY <2>1, OneStart
    <2>4. e \in 0 .. n /\ e >= m + 1
        BY <2>1, <2>2, <2>3, <1>1
    <2>5. Offsets(lens)[e] <= total
        BY <1>1, <2>4, OffsetsRun
    <2>6. CASE e = n
        BY <1>1, <2>2, <2>5, <2>6
    <2>7. CASE e # n
        <3>1. e \in 0 .. n - 1 /\ m + 1 \in 1 .. n /\ (m + 1) - 1 = m /\ m + 1 \in 0 .. n
            BY <1>1, <2>4, <2>7
        <3>2. StartOf(lens, w)[m + 1] =
                 {RangeEnd(lens, w, a) : a \in StartOf(lens, w)[m]} \cap 0 .. n - 1
            <4>1. \A k \in 1 .. n :
                     StartOf(lens, w)[k] =
                         {RangeEnd(lens, w, a) : a \in StartOf(lens, w)[k - 1]} \cap 0 .. n - 1
                BY StartsRun
            <4> HIDE DEF n
            <4> QED
                BY <3>1, <4>1
        <3>3. e \in StartOf(lens, w)[m + 1]
            BY <2>1, <3>1, <3>2
        <3> DEFINE q == RangeFrom(lens, w, e)
        <3>4. q \in Ranges(lens, w)
            BY <1>2, <3>1, <3>3
        <3>5. q.offset = Offsets(lens)[e]
            BY DEF RangeFrom
        <3>6. q = RangeFrom(lens, w, e) /\ Spans(lens, w, q, e, RangeEnd(lens, w, e))
            BY <3>1, <3>3, StartSpans
        <3>7. r.length > 0
            <4>1. /\ Spans(lens, w, r, i, e) /\ m < m + 1 /\ m + 1 \in 0 .. n
                  /\ i \in StartOf(lens, w)[m]
                BY <2>1, <3>1
            <4> HIDE DEF e, q
            <4> QED
                BY <3>3, <3>6, <4>1, LaterRange
        <3> QED
            BY <2>2, <2>5, <3>4, <3>5, <3>7
    <2> QED
        BY <2>6, <2>7
<1>4. ASSUME NEW r \in Ranges(lens, w), NEW q \in Ranges(lens, w)
      PROVE  /\ r.offset = q.offset => r = q
             /\ r.offset < q.offset => r.offset + r.length <= q.offset
    <2>1. PICK m \in 0 .. n, i \in 0 .. n - 1 :
             /\ i \in StartOf(lens, w)[m] /\ r = RangeFrom(lens, w, i)
             /\ Spans(lens, w, r, i, RangeEnd(lens, w, i))
        BY <1>4, RangeSpans
    <2>2. PICK l \in 0 .. n, j \in 0 .. n - 1 :
             /\ j \in StartOf(lens, w)[l] /\ q = RangeFrom(lens, w, j)
             /\ Spans(lens, w, q, j, RangeEnd(lens, w, j))
        BY <1>4, RangeSpans
    <2>3. r.offset \in Nat /\ q.offset \in Nat /\ r.length \in Nat /\ q.length \in Nat
        BY <1>3, <1>4
    <2>4. CASE m = l
        <3>1. r = q
            BY <2>1, <2>2, <2>4, OneStart
        <3> QED
            BY <2>3, <3>1
    <2>5. CASE m < l
        <3>1. r.length > 0 /\ r.offset + r.length <= q.offset
            BY <2>1, <2>2, <2>5, LaterRange
        <3> QED
            BY <2>3, <3>1
    <2>6. CASE l < m
        <3>1. q.length > 0 /\ q.offset + q.length <= r.offset
            BY <2>1, <2>2, <2>6, LaterRange
        <3> QED
            BY <2>3, <3>1
    <2> QED
        BY <2>4, <2>5, <2>6
<1>5. 0 = total \/ \E r \in Ranges(lens, w) : r.offset = 0
    <2>1. CASE n = 0
        BY <1>1, <2>1, OffsetsRun
    <2>2. CASE n # 0
        <3>1. 0 \in 0 .. n - 1 /\ 0 \in 0 .. n
            BY <1>1, <2>2
        <3>2. 0 \in StartOf(lens, w)[0]
            BY <3>1, StartsRun
        <3>3. RangeFrom(lens, w, 0) \in Ranges(lens, w)
            BY <1>2, <3>1, <3>2
        <3>4. RangeFrom(lens, w, 0).offset = 0
            BY OffsetsRun DEF RangeFrom
        <3> QED
            BY <3>3, <3>4
    <2> QED
        BY <2>1, <2>2
<1> QED
    BY <1>1, <1>3, <1>4, <1>5 DEF Tiled

(***************************************************************************)
(* The first boundary at an offset that is one is the least.               *)
(***************************************************************************)
LEMMA FirstBoundaryIs ==
    ASSUME NEW lens, NEW offset, BoundariesAt(lens, offset) # {}, Len(lens) \in Nat
    PROVE  /\ FirstBoundary(lens, offset) \in BoundariesAt(lens, offset)
           /\ \A j \in BoundariesAt(lens, offset) : FirstBoundary(lens, offset) <= j
<1> DEFINE S == BoundariesAt(lens, offset)
<1>1. S \subseteq Nat
    BY DEF BoundariesAt
<1>2. FirstBoundary(lens, offset) = CHOOSE i \in S : \A j \in S : i <= j
    BY DEF FirstBoundary
<1> HIDE DEF S
<1>3. \E i \in S : \A j \in S : i <= j
    BY <1>1, LeastOf DEF S
<1> QED
    BY <1>2, <1>3 DEF S

(***************************************************************************)
(* A boundary is the first at its offset unless an empty chunk ends there. *)
(***************************************************************************)
LEMMA StartsAsserted ==
    ASSUME NEW lens \in Seq(Nat), NEW i \in 0 .. Len(lens)
    PROVE  StartAsserted(lens, i) <=> ~FollowsEmpty(lens, i)
<1> DEFINE off == Offsets(lens)
           a == FirstBoundary(lens, off[i])
<1>1. Len(lens) \in Nat /\ i \in BoundariesAt(lens, off[i])
    BY DEF BoundariesAt
<1>2. a \in BoundariesAt(lens, off[i]) /\ a <= i
    BY <1>1, FirstBoundaryIs
<1>3. a \in 0 .. Len(lens) /\ off[a] = off[i]
    BY <1>2 DEF BoundariesAt
<1> HIDE DEF a
<1>4. ASSUME ~FollowsEmpty(lens, i)
      PROVE  a = i
    <2> SUFFICES ASSUME a < i PROVE FALSE
        BY <1>2, <1>3
    <2>1. /\ i - 1 \in 0 .. Len(lens) /\ i \in 1 .. Len(lens) /\ a <= i - 1
          /\ i > 0
        BY <1>1, <1>3
    <2>2. off[i] = off[i - 1] + lens[i] /\ off[a] <= off[i - 1]
        BY <1>3, <2>1, OffsetsRun
    <2>3. off[i - 1] \in Nat /\ lens[i] \in Nat /\ lens[i] # 0
        BY <1>4, <2>1, OffsetsRun DEF FollowsEmpty
    <2> QED
        BY <1>3, <2>2, <2>3
<1>5. ASSUME FollowsEmpty(lens, i)
      PROVE  a # i
    <2>1. i - 1 \in 0 .. Len(lens) /\ i \in 1 .. Len(lens) /\ lens[i] = 0
        BY <1>1, <1>5 DEF FollowsEmpty
    <2>2. off[i] = off[i - 1] + lens[i] /\ off[i - 1] \in Nat
        BY <2>1, OffsetsRun
    <2>3. i - 1 \in BoundariesAt(lens, off[i])
        BY <2>1, <2>2 DEF BoundariesAt
    <2>4. a <= i - 1
        BY <1>1, <2>3, FirstBoundaryIs DEF a
    <2> QED
        BY <2>1, <2>4, <1>3
<1> QED
    BY <1>4, <1>5 DEF StartAsserted, a

(***************************************************************************)
(* Honest bytes of a planned range pass verify_range, whatever empty       *)
(* chunks share its boundaries, unless the assertion is compiled in and an *)
(* empty chunk ends where the range begins.                                *)
(***************************************************************************)
LEMMA PlannedVerifies ==
    ASSUME NEW lens \in Seq(Nat), NEW w, NEW r \in Ranges(lens, w),
           NEW asserts \in BOOLEAN
    PROVE  VerifiesRange(asserts, lens, r.chunkStart, r.length, r.length)
             <=> ~(asserts /\ FollowsEmpty(lens, r.chunkStart))
<1>1. PICK i \in 0 .. Len(lens) - 1 : Spans(lens, w, r, i, RangeEnd(lens, w, i))
    BY RangeSpans
<1> DEFINE e == RangeEnd(lens, w, i)
           off == Offsets(lens)
<1>2. /\ i \in 0 .. Len(lens) /\ e \in 0 .. Len(lens) /\ i < e /\ i < Len(lens)
      /\ r.chunkStart = i /\ r.offset = off[i] /\ r.offset + r.length = off[e]
      /\ Len(lens) \in Nat
    BY <1>1 DEF Spans
<1> HIDE DEF e
<1>3. i \in BoundariesAt(lens, off[i]) /\ e \in BoundariesAt(lens, off[e])
    BY <1>2 DEF BoundariesAt
<1> DEFINE a == FirstBoundary(lens, off[i])
           b == FirstBoundary(lens, off[e])
<1>4. /\ a \in BoundariesAt(lens, off[i]) /\ b \in BoundariesAt(lens, off[e])
      /\ \A j \in BoundariesAt(lens, off[i]) : a <= j
    BY <1>2, <1>3, FirstBoundaryIs
<1>5. a \in 0 .. Len(lens) /\ off[a] = off[i] /\ b \in 0 .. Len(lens) /\ off[b] = off[e]
    BY <1>4 DEF BoundariesAt
<1>6. a <= b
    <2> SUFFICES ASSUME b <= a PROVE a <= b
        BY <1>5
    <2>1. off[b] <= off[a] /\ off[i] <= off[e]
        BY <1>2, <1>5, OffsetsRun
    <2>2. off[b] \in Nat /\ off[i] \in Nat
        BY <1>2, <1>5, OffsetsRun
    <2>3. off[b] = off[i]
        BY <1>5, <2>1, <2>2
    <2>4. b \in BoundariesAt(lens, off[i])
        BY <1>5, <2>3 DEF BoundariesAt
    <2> QED
        BY <1>4, <2>4
<1> HIDE DEF a, b
<1>7. off[r.chunkStart] + r.length = off[e]
    BY <1>2
<1>8. StartAsserted(lens, r.chunkStart) <=> ~FollowsEmpty(lens, r.chunkStart)
    BY <1>2, StartsAsserted
<1> QED
    BY <1>2, <1>3, <1>6, <1>7, <1>8 DEF VerifiesRange, a, b

(***************************************************************************)
(* A range outgrows the window only by one chunk that does so itself.      *)
(***************************************************************************)
LEMMA PlannedFits ==
    ASSUME NEW lens \in Seq(Nat), NEW w \in Nat, NEW r \in Ranges(lens, w), r.length > w
    PROVE  \E k \in r.chunkStart + 1 .. r.chunkEnd : lens[k] = r.length
<1>1. PICK i \in 0 .. Len(lens) - 1 : Spans(lens, w, r, i, RangeEnd(lens, w, i))
    BY RangeSpans
<1> DEFINE e == RangeEnd(lens, w, i)
           off == Offsets(lens)
<1>2. /\ i \in 0 .. Len(lens) /\ e \in i + 1 .. Len(lens)
      /\ r.chunkStart = i /\ r.chunkEnd = e
      /\ r.offset = off[i] /\ r.offset + r.length = off[e] /\ r.length \in Nat
      /\ Len(lens) \in Nat
    BY <1>1 DEF Spans
<1>3. \A j \in i + 1 .. e - 1 : JoinsRange(lens, w, i, j)
    BY RangeEndIs
<1> HIDE DEF e, off
<1>4. PICK d \in 0 .. Len(lens) : d = e - 1
    BY <1>2
<1>5. e \in 1 .. Len(lens) /\ e \in i + 1 .. e /\ i <= d /\ d + 1 = e
    BY <1>2, <1>4
<1>6. /\ off[e] = off[d] + lens[e] /\ lens[e] \in Nat
      /\ off[d] \in Nat /\ off[i] \in Nat /\ off[i] <= off[d]
    BY <1>2, <1>4, <1>5, OffsetsRun DEF off
<1>7. off[i] + r.length = off[d] + lens[e] /\ r.length \in Nat
    BY <1>2, <1>6
<1>8. off[d] = off[i]
    <2>1. CASE d = i
        BY <2>1
    <2>2. CASE d # i
        <3>1. JoinsRange(lens, w, i, d)
            BY <1>2, <1>3, <1>4, <2>2
        <3>2. off[d] - off[i] > 0 => (off[d] - off[i]) + lens[e] <= w
            BY <1>5, <3>1 DEF JoinsRange, off
        <3> QED
            BY <1>6, <1>7, <3>2, SMTT(30)
    <2> QED
        BY <2>1, <2>2
<1>9. lens[e] = r.length
    BY <1>6, <1>7, <1>8
<1> QED
    BY <1>2, <1>5, <1>9

(***************************************************************************)
(* A plan has finitely many ranges.                                        *)
(***************************************************************************)
LEMMA PlanFinite ==
    ASSUME NEW lens \in Seq(Nat), NEW w
    PROVE  IsFiniteSet(Ranges(lens, w))
<1> DEFINE S == RangeStarts(lens, w)
           f == [i \in S |-> RangeFrom(lens, w, i)]
<1>1. Len(lens) - 1 \in Int /\ 0 \in Int
    OBVIOUS
<1>2. IsFiniteSet(0 .. Len(lens) - 1)
    BY <1>1, FS_Interval
<1>3. S \subseteq 0 .. Len(lens) - 1
    BY StartsRun DEF RangeStarts
<1>4. IsFiniteSet(S)
    BY <1>2, <1>3, FS_Subset
<1>5. f \in Surjection(S, Ranges(lens, w))
    BY DEF Surjection, Ranges
<1> QED
    BY <1>4, <1>5, FS_Surjection DEF ExistsSurjection

-----------------------------------------------------------------------------
(***************************************************************************)
(* The hasher: what is hashed follows on without a gap up to the frontier, *)
(* which is where a range begins or the end; what was fed lies behind it   *)
(* or is buffered.                                                         *)
(***************************************************************************)
Contiguous(done, offset) ==
    /\ \A i \in 1 .. Len(done) :
          done[i][1] = IF i = 1 THEN 0 ELSE done[i - 1][1] + done[i - 1][2]
    /\ offset = IF done = <<>> THEN 0 ELSE done[Len(done)][1] + done[Len(done)][2]

InPlace(plan, total, given, s) ==
    /\ s.pending \subseteq given /\ given \subseteq plan
    /\ s.offset \in Nat
    /\ s.offset = total \/ \E q \in plan : q.offset = s.offset
    /\ s.done \in Seq(Nat \X Nat) /\ Contiguous(s.done, s.offset)
    /\ \A p \in s.pending : p.offset >= s.offset
    /\ \A p \in given \ s.pending : p.offset + p.length <= s.offset

Settled(s) == \A p \in s.pending : p.offset # s.offset

(***************************************************************************)
(* Hashing the span that begins at the frontier moves the frontier to its  *)
(* end.                                                                    *)
(***************************************************************************)
LEMMA AppendSpan ==
    ASSUME NEW done \in Seq(Nat \X Nat), NEW offset \in Nat, Contiguous(done, offset),
           NEW length \in Nat
    PROVE  /\ Append(done, <<offset, length>>) \in Seq(Nat \X Nat)
           /\ Contiguous(Append(done, <<offset, length>>), offset + length)
<1> DEFINE x == <<offset, length>>
           d == Append(done, x)
           n == Len(done)
<1>1. x \in Nat \X Nat /\ x[1] = offset /\ x[2] = length /\ n \in Nat
    OBVIOUS
<1> HIDE DEF x
<1>2. d \in Seq(Nat \X Nat) /\ Len(d) = n + 1 /\ d[n + 1] = x
    BY <1>1
<1>3. \A i \in 1 .. n : d[i] = done[i]
    BY <1>1
<1>4. d # <<>>
    BY <1>1, <1>2
<1> HIDE DEF d
<1>5. n = 0 => done = <<>>
    OBVIOUS
<1>6. ASSUME NEW i \in 1 .. n + 1
      PROVE  d[i][1] = IF i = 1 THEN 0 ELSE d[i - 1][1] + d[i - 1][2]
    <2>1. CASE i \in 1 .. n
        <3>1. i # 1 => i - 1 \in 1 .. n
            BY <1>1, <2>1
        <3> QED
            BY <1>3, <2>1, <3>1 DEF Contiguous
    <2>2. CASE i = n + 1
        <3>1. d[i][1] = offset
            BY <1>1, <1>2, <2>2
        <3>2. CASE n = 0
            BY <1>5, <2>2, <3>1, <3>2 DEF Contiguous
        <3>3. CASE n # 0
            <4>1. done # <<>> /\ n \in 1 .. n /\ i - 1 = n /\ i # 1
                BY <1>1, <2>2, <3>3
            <4>2. offset = done[n][1] + done[n][2] /\ d[n] = done[n]
                BY <1>3, <4>1 DEF Contiguous
            <4> QED
                BY <3>1, <4>1, <4>2
        <3> QED
            BY <3>2, <3>3
    <2>3. i \in 1 .. n \/ i = n + 1
        BY <1>1
    <2> QED
        BY <2>1, <2>2, <2>3, Zenon
<1>7. offset + length = d[Len(d)][1] + d[Len(d)][2]
    BY <1>1, <1>2
<1>8. Contiguous(d, offset + length)
    BY <1>2, <1>4, <1>6, <1>7 DEF Contiguous
<1> QED
    BY <1>2, <1>8 DEF d, x

(***************************************************************************)
(* One turn of drain_pending: the range at the frontier leaves the buffer, *)
(* and no other is there or overlaps it.                                   *)
(***************************************************************************)
LEMMA DrainsOne ==
    ASSUME NEW plan, NEW total, Tiled(plan, total), NEW given,
           NEW s, InPlace(plan, total, given, s), ~Settled(s)
    PROVE  /\ InPlace(plan, total, given, DrainOne(s))
           /\ \E p \in s.pending : DrainOne(s).pending = s.pending \ {p}
<1> DEFINE due == {p \in s.pending : p.offset = s.offset}
           p == CHOOSE q \in due : TRUE
           t == DrainOne(s)
<1>1. due # {}
    BY DEF Settled
<1>2. p \in due
    BY <1>1
<1>3. t = [pending |-> s.pending \ due,
           done |-> IF p.length = 0 THEN s.done ELSE Append(s.done, <<p.offset, p.length>>),
           offset |-> s.offset + p.length]
    BY <1>1 DEF DrainOne
<1>4. s.pending \subseteq plan
    BY DEF InPlace
<1>5. p \in plan /\ p \in s.pending /\ p.offset = s.offset
    BY <1>2, <1>4
<1> HIDE DEF p
<1>6. due = {p}
    BY <1>2, <1>4, <1>5 DEF Tiled
<1>7. /\ s.offset \in Nat /\ p.length \in Nat /\ s.done \in Seq(Nat \X Nat)
      /\ Contiguous(s.done, s.offset)
    BY <1>5 DEF InPlace, Tiled
<1> HIDE DEF due, t
<1>8. t.pending = s.pending \ {p} /\ t.offset = s.offset + p.length /\ t.offset \in Nat
    BY <1>3, <1>6, <1>7
<1>9. t.done \in Seq(Nat \X Nat) /\ Contiguous(t.done, t.offset)
    <2>1. CASE p.length = 0
        <3>1. t.done = s.done /\ t.offset = s.offset
            BY <1>3, <1>7, <2>1
        <3> QED
            BY <1>7, <3>1
    <2>2. CASE p.length # 0
        <3>1. t.done = Append(s.done, <<s.offset, p.length>>) /\ t.offset = s.offset + p.length
            BY <1>3, <1>5, <2>2
        <3> QED
            BY <1>7, <3>1, AppendSpan
    <2> QED
        BY <2>1, <2>2
<1>10. t.offset = total \/ \E q \in plan : q.offset = t.offset
    BY <1>5, <1>8 DEF Tiled
<1>11. ASSUME NEW q \in t.pending PROVE q.offset >= t.offset
    <2>1. q \in s.pending /\ q # p /\ q \in plan
        BY <1>4, <1>8
    <2>2. q.offset >= s.offset /\ q.offset # s.offset /\ q.offset \in Nat
        BY <1>5, <2>1 DEF InPlace, Tiled
    <2>3. p.offset < q.offset
        BY <1>5, <1>7, <2>2
    <2>4. p.offset + p.length <= q.offset
        BY <1>5, <2>1, <2>3 DEF Tiled
    <2> QED
        BY <1>5, <1>7, <1>8, <2>2, <2>4
<1>12. ASSUME NEW q \in given \ t.pending PROVE q.offset + q.length <= t.offset
    <2>1. CASE q = p
        BY <1>5, <1>7, <1>8, <2>1
    <2>2. CASE q # p
        <3>1. q \in given \ s.pending /\ q \in plan
            BY <1>8, <2>2 DEF InPlace
        <3>2. q.offset + q.length <= s.offset
            BY <3>1 DEF InPlace
        <3>3. q.offset \in Nat /\ q.length \in Nat
            BY <3>1 DEF Tiled
        <3> QED
            BY <1>7, <1>8, <3>2, <3>3
    <2> QED
        BY <2>1, <2>2
<1>13. t.pending \subseteq given /\ given \subseteq plan
    BY <1>8 DEF InPlace
<1>14. InPlace(plan, total, given, t)
    BY <1>8, <1>9, <1>10, <1>11, <1>12, <1>13 DEF InPlace
<1> QED
    BY <1>5, <1>8, <1>14 DEF t

(***************************************************************************)
(* What a hasher that was given those ranges can be.                       *)
(***************************************************************************)
Hashers(given) == [pending : SUBSET given, done : Seq(Nat \X Nat), offset : Nat]

(***************************************************************************)
(* With nothing at the frontier a turn changes nothing.                    *)
(***************************************************************************)
LEMMA DrainStays ==
    ASSUME NEW s, Settled(s)
    PROVE  DrainOne(s) = s
<1>1. {p \in s.pending : p.offset = s.offset} = {}
    BY DEF Settled
<1> QED
    BY <1>1 DEF DrainOne

(***************************************************************************)
(* Either way the hasher keeps its shape and its place.                    *)
(***************************************************************************)
LEMMA DrainKeeps ==
    ASSUME NEW plan, NEW total, Tiled(plan, total), NEW given,
           NEW s \in Hashers(given), InPlace(plan, total, given, s)
    PROVE  DrainOne(s) \in Hashers(given) /\ InPlace(plan, total, given, DrainOne(s))
<1>1. CASE Settled(s)
    BY <1>1, DrainStays
<1>2. CASE ~Settled(s)
    <2> DEFINE due == {p \in s.pending : p.offset = s.offset}
               p == CHOOSE q \in due : TRUE
               A == s.pending \ due
               B == IF p.length = 0 THEN s.done ELSE Append(s.done, <<p.offset, p.length>>)
               C == s.offset + p.length
    <2>1. due # {}
        BY <1>2 DEF Settled
    <2>2. DrainOne(s) = [pending |-> A, done |-> B, offset |-> C]
        BY <2>1 DEF DrainOne
    <2>3. InPlace(plan, total, given, DrainOne(s))
        BY <1>2, DrainsOne
    <2> HIDE DEF A, B, C
    <2>4. A \subseteq given /\ B \in Seq(Nat \X Nat) /\ C \in Nat
        BY <2>2, <2>3 DEF InPlace
    <2> QED
        BY <2>2, <2>3, <2>4 DEF Hashers
<1> QED
    BY <1>1, <1>2

(***************************************************************************)
(* drain_pending as a whole: as many turns as there are buffered ranges    *)
(* leave nothing at the frontier.                                          *)
(***************************************************************************)
LEMMA DrainedSettles ==
    ASSUME NEW plan, NEW total, Tiled(plan, total), NEW given, IsFiniteSet(given),
           NEW from \in Hashers(given), InPlace(plan, total, given, from),
           NEW n, n = Cardinality(from.pending)
    PROVE  /\ InPlace(plan, total, given, Drained(from, n)[n])
           /\ Settled(Drained(from, n)[n])
<1> DEFINE V == {s \in Hashers(given) : InPlace(plan, total, given, s)}
           step == [k \in 1 .. n |-> [v \in V |-> DrainOne(v)]]
           run == Drained(from, n)
<1>1. ASSUME NEW s \in V PROVE IsFiniteSet(s.pending)
    <2>1. s.pending \in SUBSET given
        BY DEF Hashers
    <2> QED
        BY <2>1, FS_Subset
<1>2. from \in V /\ n \in Nat
    BY <1>1, FS_CardinalityType
<1>3. ASSUME NEW s \in V PROVE DrainOne(s) \in V
    BY DrainKeeps
<1>4. ASSUME NEW s \in V, ~Settled(s)
      PROVE  Cardinality(DrainOne(s).pending) = Cardinality(s.pending) - 1
    <2>1. PICK p \in s.pending : DrainOne(s).pending = s.pending \ {p}
        BY <1>4, DrainsOne
    <2> QED
        BY <1>1, <2>1, FS_RemoveElement
<1> HIDE DEF V
<1>5. step \in [1 .. n -> [V -> V]]
    BY <1>3
<1>6. PICK f \in [0 .. n -> V] : Follows(f, n, from, step)
    <2> HIDE DEF step
    <2> QED
        BY <1>2, <1>5, RecursionExists
<1>7. ASSUME NEW k \in 0 .. n
      PROVE  f[k] = IF k = 0 THEN from ELSE DrainOne(f[k - 1])
    <2>1. CASE k = 0
        <3> HIDE DEF step
        <3> QED
            BY <1>6, <2>1 DEF Follows
    <2>2. CASE k # 0
        <3>1. k \in 1 .. n /\ k - 1 \in 0 .. n
            BY <1>2, <2>2
        <3>2. f[k - 1] \in V
            BY <3>1
        <3>3. f[k] = step[k][f[k - 1]]
            <4> HIDE DEF step
            <4> QED
                BY <1>6, <2>2 DEF Follows
        <3> QED
            BY <2>2, <3>1, <3>2, <3>3
    <2> QED
        BY <2>1, <2>2
<1>8. f = [k \in 0 .. n |-> IF k = 0 THEN from ELSE DrainOne(f[k - 1])]
    <2> HIDE DEF step
    <2> QED
        BY <1>7
<1>9. run = [k \in 0 .. n |-> IF k = 0 THEN from ELSE DrainOne(run[k - 1])]
    BY <1>8, Zenon DEF Drained
<1> HIDE DEF run, step
<1>10. /\ run[0] = from
       /\ \A k \in 1 .. n : run[k] = DrainOne(run[k - 1])
    <2>1. 0 \in 0 .. n /\ \A k \in 1 .. n : k \in 0 .. n /\ k # 0
        BY <1>2
    <2> QED
        BY <1>9, <2>1
<1> DEFINE T == {k \in 0 .. n : /\ run[k] \in V
                                /\ \/ Settled(run[k])
                                   \/ Cardinality(run[k].pending) = n - k}
<1>11. 0 \in T
    BY <1>2, <1>10
<1>12. ASSUME NEW k \in 1 .. n, k - 1 \in T PROVE k \in T
    <2>1. /\ k \in 0 .. n /\ run[k] = DrainOne(run[k - 1]) /\ run[k - 1] \in V
          /\ n - k = (n - (k - 1)) - 1
        BY <1>2, <1>10, <1>12
    <2>2. run[k] \in V
        BY <1>3, <2>1
    <2>3. CASE Settled(run[k - 1])
        <3>1. run[k] = run[k - 1]
            BY <2>1, <2>3, DrainStays
        <3> QED
            BY <2>1, <2>2, <2>3, <3>1
    <2>4. CASE ~Settled(run[k - 1])
        <3>1. Cardinality(run[k - 1].pending) = n - (k - 1)
            BY <1>12, <2>4
        <3>2. Cardinality(run[k].pending) = Cardinality(run[k - 1].pending) - 1
            BY <1>4, <2>1, <2>4
        <3>3. Cardinality(run[k].pending) = n - k
            BY <2>1, <3>1, <3>2
        <3> QED
            BY <2>1, <2>2, <3>3
    <2> QED
        BY <2>3, <2>4
<1>13. n \in T
    <2> HIDE DEF T
    <2>1. 0 .. n \subseteq T
        BY <1>2, <1>11, <1>12, UpToInduction
    <2> QED
        BY <1>2, <2>1
<1>14. Settled(run[n])
    <2>1. CASE Cardinality(run[n].pending) = n - n
        <3>1. IsFiniteSet(run[n].pending) /\ Cardinality(run[n].pending) = 0
            BY <1>1, <1>2, <1>13, <2>1
        <3>2. run[n].pending = {}
            BY <3>1, FS_EmptySet
        <3> QED
            BY <3>2 DEF Settled
    <2> QED
        BY <1>13, <2>1
<1>15. InPlace(plan, total, given, run[n])
    BY <1>13 DEF V
<1> QED
    BY <1>14, <1>15 DEF run

-----------------------------------------------------------------------------
(***************************************************************************)
(* The inductive invariant: the leaf's property speaks of the last range   *)
(* only, and holds because after every range the hasher stands in place    *)
(* with nothing left to drain.                                             *)
(***************************************************************************)
Plan == PlanRanges(chunkLens, rangeWindow)

Hasher == [pending |-> ahead, done |-> hashed, offset |-> nextOffset]

AssemblyInv ==
    /\ adoption \in {"none", "refused", "adopted"}
    /\ chunkLens \in Seq(Nat) /\ rangeWindow \in Nat
    /\ adoption # "adopted" =>
          /\ chunkLens = <<>> /\ fed = {}
          /\ hashed = <<>> /\ nextOffset = 0 /\ ahead = {}
    /\ adoption = "adopted" =>
          InPlace(Plan, TotalLength(chunkLens), fed, Hasher) /\ Settled(Hasher)

(***************************************************************************)
(* plan_ranges takes a window of zero for one, and its plan is the tiling  *)
(* that window makes.                                                      *)
(***************************************************************************)
LEMMA PlanIs ==
    ASSUME NEW lens \in Seq(Nat), NEW window \in Nat
    PROVE  /\ PlanRanges(lens, window) = Ranges(lens, AtLeastOne(window))
           /\ AtLeastOne(window) \in Nat
           /\ Tiled(PlanRanges(lens, window), TotalLength(lens))
           /\ IsFiniteSet(PlanRanges(lens, window))
<1>1. PlanRanges(lens, window) = Ranges(lens, AtLeastOne(window))
    BY DEF PlanRanges, Ranges, AtLeastOne
<1>2. AtLeastOne(window) \in Nat
    BY DEF AtLeastOne
<1> QED
    BY <1>1, <1>2, PlanTiles, PlanFinite

(***************************************************************************)
(* A hasher that has seen nothing is in place.                             *)
(***************************************************************************)
LEMMA FreshInPlace ==
    ASSUME NEW plan, NEW total, Tiled(plan, total)
    PROVE  LET s == [pending |-> {}, done |-> <<>>, offset |-> 0]
           IN  InPlace(plan, total, {}, s) /\ Settled(s)
<1> DEFINE s == [pending |-> {}, done |-> <<>>, offset |-> 0]
<1>1. s.pending = {} /\ s.done = <<>> /\ s.offset = 0
    OBVIOUS
<1> HIDE DEF s
<1>2. Contiguous(s.done, s.offset)
    BY <1>1 DEF Contiguous
<1>3. s.offset = total \/ \E q \in plan : q.offset = s.offset
    BY <1>1 DEF Tiled
<1>4. s.done \in Seq(Nat \X Nat)
    BY <1>1
<1>5. InPlace(plan, total, {}, s) /\ Settled(s)
    BY <1>1, <1>2, <1>3, <1>4 DEF InPlace, Settled
<1> QED
    BY <1>5 DEF s

(***************************************************************************)
(* A range that begins behind the frontier was hashed to its end.          *)
(***************************************************************************)
LEMMA FeedBehind ==
    ASSUME NEW plan, NEW total, Tiled(plan, total), NEW given, NEW r \in plan,
           NEW s, InPlace(plan, total, given, s), r.offset < s.offset
    PROVE  InPlace(plan, total, given \cup {r}, s)
<1>1. r.offset + r.length <= s.offset
    <2>1. CASE s.offset = total
        BY <2>1 DEF Tiled
    <2>2. CASE \E q \in plan : q.offset = s.offset
        BY <2>2 DEF Tiled
    <2> QED
        BY <2>1, <2>2 DEF InPlace
<1> QED
    BY <1>1 DEF InPlace

(***************************************************************************)
(* A range at the frontier or past it is buffered, in place of itself.     *)
(***************************************************************************)
LEMMA FeedAhead ==
    ASSUME NEW plan, NEW total, Tiled(plan, total), NEW given, NEW r \in plan,
           NEW s, InPlace(plan, total, given, s), ~(r.offset < s.offset),
           NEW t, t = [pending |-> {p \in s.pending : p.offset # r.offset} \cup {r},
                       done |-> s.done, offset |-> s.offset]
    PROVE  InPlace(plan, total, given \cup {r}, t) /\ t \in Hashers(given \cup {r})
<1>1. /\ t.pending = {p \in s.pending : p.offset # r.offset} \cup {r}
      /\ t.done = s.done /\ t.offset = s.offset
    OBVIOUS
<1>2. s.offset \in Nat /\ r.offset \in Nat /\ r.offset >= s.offset
    BY DEF InPlace, Tiled
<1>3. t.pending \subseteq given \cup {r} /\ given \cup {r} \subseteq plan
    BY <1>1 DEF InPlace
<1>4. ASSUME NEW p \in t.pending PROVE p.offset >= t.offset
    BY <1>1, <1>2 DEF InPlace
<1>5. ASSUME NEW p \in (given \cup {r}) \ t.pending
      PROVE  p.offset + p.length <= t.offset
    <2>1. p \in given /\ p \in plan /\ p # r
        BY <1>1 DEF InPlace
    <2>2. p.offset # r.offset
        BY <2>1 DEF Tiled
    <2>3. p \in given \ s.pending
        BY <1>1, <2>1, <2>2
    <2> QED
        BY <1>1, <2>3 DEF InPlace
<1>6. InPlace(plan, total, given \cup {r}, t)
    BY <1>1, <1>3, <1>4, <1>5 DEF InPlace
<1>7. t \in Hashers(given \cup {r})
    <2>1. t.done \in Seq(Nat \X Nat) /\ t.offset \in Nat
        BY <1>6 DEF InPlace
    <2> QED
        BY <1>1, <1>3, <2>1 DEF Hashers
<1> QED
    BY <1>6, <1>7

(***************************************************************************)
(* Feeding a verified range keeps the hasher in place.                     *)
(***************************************************************************)
LEMMA FeedKeeps ==
    ASSUME AssemblyInv, NEW r \in Plan, Feed(r)
    PROVE  AssemblyInv'
<1>1. /\ adoption = "adopted" /\ fed' = fed \cup {r}
      /\ UNCHANGED <<adoption, chunkLens, rangeWindow>>
    BY DEF Feed
<1>2. /\ Tiled(Plan, TotalLength(chunkLens)) /\ IsFiniteSet(Plan)
      /\ InPlace(Plan, TotalLength(chunkLens), fed, Hasher) /\ Settled(Hasher)
    BY <1>1, PlanIs DEF AssemblyInv, Plan
<1>3. Plan' = Plan /\ TotalLength(chunkLens)' = TotalLength(chunkLens)
    BY <1>1 DEF Plan
<1>4. Hasher.pending = ahead /\ Hasher.done = hashed /\ Hasher.offset = nextOffset
    BY DEF Hasher
<1>5. InPlace(Plan, TotalLength(chunkLens), fed', Hasher') /\ Settled(Hasher')
    <2>1. CASE AlreadyHashed(r)
        <3>1. Hasher' = Hasher
            BY <2>1 DEF Feed, Hasher
        <3>2. r.offset < Hasher.offset
            BY <1>4, <2>1 DEF AlreadyHashed
        <3> QED
            BY <1>1, <1>2, <3>1, <3>2, FeedBehind
    <2>2. CASE ~AlreadyHashed(r)
        <3> DEFINE t == [pending |-> {p \in ahead : p.offset # r.offset} \cup {r},
                         done |-> hashed, offset |-> nextOffset]
                   a == Advance(t.pending, hashed, nextOffset)
                   n == Cardinality(t.pending)
        <3>1. ahead' = a.pending /\ hashed' = a.done /\ nextOffset' = a.offset
            BY <2>2 DEF Feed
        <3>2. a = Drained(t, n)[n]
            BY DEF Advance
        <3>3. Hasher'.pending = a.pending /\ Hasher'.done = a.done /\ Hasher'.offset = a.offset
            BY <3>1 DEF Hasher
        <3> HIDE DEF a
        <3>4. t = [pending |-> {p \in Hasher.pending : p.offset # r.offset} \cup {r},
                   done |-> Hasher.done, offset |-> Hasher.offset]
            BY <1>4
        <3> HIDE DEF t
        <3>5. ~(r.offset < Hasher.offset)
            BY <1>4, <2>2 DEF AlreadyHashed
        <3>6. /\ InPlace(Plan, TotalLength(chunkLens), fed', t)
              /\ t \in Hashers(fed')
            BY <1>1, <1>2, <3>4, <3>5, FeedAhead
        <3>7. IsFiniteSet(fed')
            <4>1. fed' \in SUBSET Plan
                BY <3>6 DEF InPlace
            <4> QED
                BY <1>2, <4>1, FS_Subset
        <3>8. InPlace(Plan, TotalLength(chunkLens), fed', a) /\ Settled(a)
            BY <1>2, <3>2, <3>6, <3>7, DrainedSettles
        <3> QED
            BY <3>3, <3>8 DEF InPlace, Settled
    <2> QED
        BY <2>1, <2>2
<1> QED
    BY <1>1, <1>3, <1>5 DEF AssemblyInv

(***************************************************************************)
(* Adopting a layout starts a hasher that is in place; a refusal changes   *)
(* nothing else.                                                           *)
(***************************************************************************)
LEMMA AdoptKeeps ==
    ASSUME AssemblyInv, NEW lens \in Layouts, NEW declared,
           NEW window \in 0 .. MaxRangeWindow, Adopt(lens, declared, window)
    PROVE  AssemblyInv'
<1>1. /\ adoption = "none" /\ UNCHANGED <<fed, hashed, nextOffset, ahead>>
      /\ chunkLens = <<>> /\ fed = {} /\ hashed = <<>> /\ nextOffset = 0 /\ ahead = {}
    BY DEF Adopt, AssemblyInv
<1>2. lens \in Seq(Nat) /\ window \in Nat
    BY AssemblyAssumption
<1>3. CASE Adoptable(lens, declared)
    <2>1. adoption' = "adopted" /\ chunkLens' = lens /\ rangeWindow' = window
        BY <1>3 DEF Adopt
    <2>2. Tiled(Plan', TotalLength(chunkLens'))
        BY <1>2, <2>1, PlanIs DEF Plan
    <2>3. Hasher' = [pending |-> {}, done |-> <<>>, offset |-> 0] /\ fed' = {}
        BY <1>1 DEF Hasher
    <2>4. InPlace(Plan', TotalLength(chunkLens'), fed', Hasher') /\ Settled(Hasher')
        BY <2>2, <2>3, FreshInPlace
    <2> QED
        BY <1>1, <1>2, <2>1, <2>4 DEF AssemblyInv
<1>4. CASE ~Adoptable(lens, declared)
    <2>1. adoption' = "refused" /\ UNCHANGED <<chunkLens, rangeWindow>>
        BY <1>4 DEF Adopt
    <2> QED
        BY <1>1, <2>1 DEF AssemblyInv
<1> QED
    BY <1>3, <1>4

(***************************************************************************)
(* The hasher is in place in every reachable state of the assembly.        *)
(***************************************************************************)
THEOREM AssemblyInvHolds == AssemblySpec => []AssemblyInv
<1>1. AssemblyInit => AssemblyInv
    BY DEF AssemblyInit, AssemblyInv
<1>2. AssemblyInv /\ [AssemblyNext]_assemblyVars => AssemblyInv'
    <2> SUFFICES ASSUME AssemblyInv, [AssemblyNext]_assemblyVars PROVE AssemblyInv'
        OBVIOUS
    <2>1. CASE \E lens \in Layouts, declared \in 0 .. MaxResourceSize + 1,
                  window \in 0 .. MaxRangeWindow : Adopt(lens, declared, window)
        BY <2>1, AdoptKeeps
    <2>2. CASE \E r \in PlanRanges(chunkLens, rangeWindow) : Feed(r)
        BY <2>2, FeedKeeps DEF Plan
    <2>3. CASE UNCHANGED assemblyVars
        BY <2>3 DEF assemblyVars, AssemblyInv, Plan, Hasher, TotalLength
    <2> QED
        BY <2>1, <2>2, <2>3 DEF AssemblyNext
<1> QED
    BY <1>1, <1>2, PTL DEF AssemblySpec

(***************************************************************************)
(* LeafOfWholeResource, for every layout and window: when the whole plan   *)
(* was fed, in whatever order and however often, the hasher has drained    *)
(* its buffer and stands at the end, each span hashed once and in place.   *)
(***************************************************************************)
THEOREM LeafIsWhole == AssemblySpec => []LeafOfWholeResource
<1>1. AssemblyInv => LeafOfWholeResource
    <2> SUFFICES ASSUME AssemblyInv, adoption = "adopted", fed = Plan
                 PROVE  /\ ahead = {} /\ nextOffset = TotalLength(chunkLens)
                        /\ Contiguous(hashed, nextOffset)
        BY DEF LeafOfWholeResource, Contiguous, Plan
    <2> DEFINE total == TotalLength(chunkLens)
    <2>1. /\ Tiled(Plan, total)
          /\ InPlace(Plan, total, Plan, Hasher) /\ Settled(Hasher)
        BY PlanIs DEF AssemblyInv, Plan
    <2>2. Hasher.pending = ahead /\ Hasher.done = hashed /\ Hasher.offset = nextOffset
        BY DEF Hasher
    <2> HIDE DEF total
    <2>3. nextOffset \in Nat /\ total \in Nat /\ ahead \subseteq Plan
        BY <2>1, <2>2 DEF InPlace, Tiled
    <2>4. nextOffset = total
        <3> SUFFICES ASSUME nextOffset # total PROVE FALSE
            OBVIOUS
        <3>1. PICK q \in Plan : q.offset = nextOffset
            BY <2>1, <2>2 DEF InPlace
        <3>2. q \notin ahead
            BY <2>1, <2>2, <3>1 DEF Settled
        <3>3. q.offset + q.length <= nextOffset
            BY <2>1, <2>2, <3>2 DEF InPlace
        <3>4. q.length \in Nat
            BY <2>1 DEF Tiled
        <3>5. q.length = 0
            BY <2>3, <3>1, <3>3, <3>4
        <3> QED
            BY <2>1, <3>1, <3>5 DEF Tiled
    <2>5. ahead = {}
        <3> SUFFICES ASSUME NEW p \in ahead PROVE FALSE
            OBVIOUS
        <3>1. p.offset >= nextOffset /\ p.offset # nextOffset /\ p \in Plan
            BY <2>1, <2>2, <2>3 DEF InPlace, Settled
        <3>2. p.offset \in Nat /\ p.length \in Nat /\ p.offset + p.length <= total
            BY <2>1, <3>1 DEF Tiled
        <3> QED
            BY <2>3, <2>4, <3>1, <3>2
    <2> QED
        BY <2>1, <2>2, <2>4, <2>5 DEF InPlace, total
<1> QED
    BY <1>1, AssemblyInvHolds, PTL

(***************************************************************************)
(* PlanIsVerifiable, for every layout and every window: honest bytes of    *)
(* every planned range pass verify_range, save where a build that asserts  *)
(* panics, and a range outgrows the window only by a chunk that does.      *)
(***************************************************************************)
THEOREM PlanVerifies == AssemblySpec => []PlanIsVerifiable
<1>1. AssemblyInv => PlanIsVerifiable
    <2> SUFFICES ASSUME AssemblyInv,
                        NEW r \in PlanRanges(chunkLens, rangeWindow)
                 PROVE  /\ \A asserts \in BOOLEAN :
                              VerifiesRange(asserts, chunkLens, r.chunkStart, r.length,
                                            r.length)
                                <=> ~(asserts /\ FollowsEmpty(chunkLens, r.chunkStart))
                        /\ r.length > rangeWindow /\ r.length > 1 =>
                              \E i \in r.chunkStart + 1 .. r.chunkEnd :
                                  chunkLens[i] = r.length
        BY DEF PlanIsVerifiable
    <2> DEFINE w == AtLeastOne(rangeWindow)
    <2>1. /\ chunkLens \in Seq(Nat) /\ rangeWindow \in Nat
          /\ r \in Ranges(chunkLens, w) /\ w \in Nat
        BY PlanIs DEF AssemblyInv
    <2>2. r.length > rangeWindow /\ r.length > 1 => r.length > w
        BY <2>1 DEF AtLeastOne
    <2> HIDE DEF w
    <2> QED
        BY <2>1, <2>2, PlannedVerifies, PlannedFits
<1> QED
    BY <1>1, AssemblyInvHolds, PTL

=============================================================================
