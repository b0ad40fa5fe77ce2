---------------------------- MODULE DataLemmas ----------------------------
(***************************************************************************)
(* Induction over the naturals for a SET of numbers, and what follows from *)
(* it about functions defined by recursion: the chunk offsets of module.rs *)
(* and verify.rs, the range starts of plan.rs, the verdict lists of        *)
(* progress.rs.  A set is a value, so unlike a predicate it can be a       *)
(* parameter of a lemma that is used by name.                              *)
(***************************************************************************)
EXTENDS VecRetain, WellFoundedInduction, TLAPS

(***************************************************************************)
(* The least element of a set of numbers.                                  *)
(***************************************************************************)
LEMMA LeastOf ==
    ASSUME NEW S, S \subseteq Nat, S # {}
    PROVE  \E m \in S : \A k \in S : m <= k
<1>1. PICK m \in S : \A k \in S : ~(<<k, m>> \in OpToRel(<, Nat))
    BY NatLessThanWellFounded, WFMin
<1>2. ASSUME NEW k \in S PROVE m <= k
    <2>1. m \in Nat /\ k \in Nat
        OBVIOUS
    <2>2. ~(k < m)
        BY <1>1, <2>1 DEF OpToRel
    <2> QED
        BY <2>1, <2>2
<1> QED
    BY <1>2

(***************************************************************************)
(* A set with zero and every successor holds every natural number: its     *)
(* complement would have a least element.                                  *)
(***************************************************************************)
LEMMA NatSetInduction ==
    ASSUME NEW S, 0 \in S, \A n \in Nat : n \in S => n + 1 \in S
    PROVE  Nat \subseteq S
<1> SUFFICES ASSUME Nat \ S # {} PROVE FALSE
    OBVIOUS
<1>1. PICK x \in Nat \ S : \A y \in Nat \ S : x <= y
    <2>1. Nat \ S \subseteq Nat
        OBVIOUS
    <2> QED
        BY <2>1, LeastOf
<1>2. x \in Nat /\ x # 0
    OBVIOUS
<1>3. x - 1 \in Nat /\ ~(x <= x - 1)
    BY <1>2
<1> QED
    BY <1>1, <1>2, <1>3

(***************************************************************************)
(* The same up to a bound.                                                 *)
(***************************************************************************)
LEMMA UpToInduction ==
    ASSUME NEW n \in Nat, NEW S, 0 \in S,
           \A k \in 1 .. n : k - 1 \in S => k \in S
    PROVE  0 .. n \subseteq S
<1> DEFINE T == {k \in Nat : k <= n => k \in S}
<1>1. 0 \in T
    OBVIOUS
<1>2. ASSUME NEW k \in Nat, k \in T PROVE k + 1 \in T
    <2> SUFFICES ASSUME k + 1 <= n PROVE k + 1 \in S
        OBVIOUS
    <2>1. k \in S /\ k + 1 \in 1 .. n /\ (k + 1) - 1 = k
        BY <1>2
    <2> QED
        BY <2>1
<1> HIDE DEF T
<1>3. Nat \subseteq T
    BY <1>1, <1>2, NatSetInduction
<1> QED
    BY <1>3 DEF T

(***************************************************************************)
(* A function defined by recursion exists: step[k] computes the k-th value *)
(* from the one before it.                                                 *)
(***************************************************************************)
Follows(f, n, base, step) ==
    f = [k \in 0 .. n |-> IF k = 0 THEN base ELSE step[k][f[k - 1]]]

(***************************************************************************)
(* There is one for every base and all steps.                              *)
(***************************************************************************)
LEMMA RecursionExists ==
    ASSUME NEW n \in Nat, NEW V, NEW base \in V, NEW step \in [1 .. n -> [V -> V]]
    PROVE  \E f \in [0 .. n -> V] : Follows(f, n, base, step)
<1> DEFINE Built(m, f) ==
              /\ f[0] = base
              /\ \A k \in 1 .. m : f[k] = step[k][f[k - 1]]
           S == {m \in 0 .. n : \E f \in [0 .. m -> V] : Built(m, f)}
<1>1. 0 \in S
    <2> DEFINE g == [k \in 0 .. 0 |-> base]
    <2>1. g \in [0 .. 0 -> V] /\ g[0] = base /\ 1 .. 0 = {}
        OBVIOUS
    <2> HIDE DEF g
    <2> QED
        BY <2>1
<1>2. ASSUME NEW m \in 1 .. n, m - 1 \in S PROVE m \in S
    <2>1. PICK f \in [0 .. m - 1 -> V] : Built(m - 1, f)
        BY <1>2
    <2> DEFINE g == [k \in 0 .. m |-> IF k = m THEN step[m][f[m - 1]] ELSE f[k]]
    <2>2. m - 1 \in 0 .. m - 1 /\ m # 0
        OBVIOUS
    <2>3. step[m][f[m - 1]] \in V
        BY <2>2
    <2>4. g \in [0 .. m -> V]
        <3>1. \A k \in 0 .. m : k # m => k \in 0 .. m - 1
            OBVIOUS
        <3> QED
            BY <2>3, <3>1
    <2>5. \A k \in 0 .. m - 1 : g[k] = f[k]
        OBVIOUS
    <2>6. g[m] = step[m][f[m - 1]]
        OBVIOUS
    <2> HIDE DEF g
    <2>7. g[0] = base
        BY <2>1, <2>2, <2>5
    <2>8. ASSUME NEW k \in 1 .. m PROVE g[k] = step[k][g[k - 1]]
        <3>1. k - 1 \in 0 .. m - 1
            OBVIOUS
        <3>2. g[k - 1] = f[k - 1]
            BY <2>5, <3>1
        <3>3. CASE k = m
            BY <2>6, <3>2, <3>3
        <3>4. CASE k # m
            <4>1. k \in 1 .. m - 1 /\ k \in 0 .. m - 1
                BY <3>4
            <4> QED
                BY <2>1, <2>5, <3>2, <4>1
        <3> QED
            BY <3>3, <3>4
    <2>9. m \in 0 .. n
        OBVIOUS
    <2> QED
        BY <2>4, <2>7, <2>8, <2>9
<1>3. n \in S
    <2> HIDE DEF S
    <2>1. 0 .. n \subseteq S
        BY <1>1, <1>2, UpToInduction
    <2> QED
        BY <2>1
<1>4. PICK f \in [0 .. n -> V] : Built(n, f)
    BY <1>3
<1>5. \A k \in 0 .. n : f[k] = IF k = 0 THEN base ELSE step[k][f[k - 1]]
    BY <1>4
<1>6. f = [k \in 0 .. n |-> f[k]]
    OBVIOUS
<1> QED
    BY <1>5, <1>6 DEF Follows

-----------------------------------------------------------------------------
(***************************************************************************)
(* The running sums of a chunk_lens array: what lies before each chunk.    *)
(***************************************************************************)
Sums(lens) ==
    LET sum[k \in 0 .. Len(lens)] == IF k = 0 THEN 0 ELSE sum[k - 1] + lens[k]
    IN  sum

(***************************************************************************)
(* They begin with zero, and each chunk adds its length.                   *)
(***************************************************************************)
LEMMA SumsDefined ==
    ASSUME NEW lens \in Seq(Nat)
    PROVE  /\ Sums(lens) \in [0 .. Len(lens) -> Nat]
           /\ Sums(lens)[0] = 0
           /\ \A k \in 1 .. Len(lens) : Sums(lens)[k] = Sums(lens)[k - 1] + lens[k]
<1> DEFINE n == Len(lens)
           step == [k \in 1 .. n |-> [v \in Nat |-> v + lens[k]]]
<1>1. n \in Nat /\ \A k \in 1 .. n : lens[k] \in Nat
    OBVIOUS
<1>2. step \in [1 .. n -> [Nat -> Nat]]
    <2>1. \A k \in 1 .. n, v \in Nat : v + lens[k] \in Nat
        BY <1>1
    <2> HIDE DEF n
    <2> QED
        BY <2>1
<1>3. PICK f \in [0 .. n -> Nat] : Follows(f, n, 0, step)
    <2> HIDE DEF step, n
    <2>1. 0 \in Nat
        OBVIOUS
    <2> QED
        BY <1>1, <1>2, <2>1, RecursionExists
<1>4. f = [k \in 0 .. n |-> IF k = 0 THEN 0 ELSE f[k - 1] + lens[k]]
    <2>1. ASSUME NEW k \in 0 .. n
          PROVE  f[k] = IF k = 0 THEN 0 ELSE f[k - 1] + lens[k]
        <3>1. CASE k = 0
            BY <1>3, <3>1 DEF Follows
        <3>2. CASE k # 0
            <4>1. k \in 1 .. n /\ k - 1 \in 0 .. n
                BY <1>1, <3>2
            <4>2. f[k - 1] \in Nat
                BY <4>1
            <4>3. step[k][f[k - 1]] = f[k - 1] + lens[k]
                BY <4>1, <4>2
            <4>4. f[k] = step[k][f[k - 1]]
                <5> HIDE DEF step
                <5> QED
                    BY <1>3, <3>2 DEF Follows
            <4> QED
                BY <3>2, <4>3, <4>4
        <3> QED
            BY <3>1, <3>2
    <2> HIDE DEF n, step
    <2> QED
        BY <2>1
<1> DEFINE g == Sums(lens)
<1>5. g = [k \in 0 .. n |-> IF k = 0 THEN 0 ELSE g[k - 1] + lens[k]]
    BY <1>4 DEF Sums
<1>6. ASSUME NEW k \in 0 .. n
      PROVE  /\ k = 0 => g[k] = 0
             /\ k # 0 => g[k] = g[k - 1] + lens[k]
    <2> HIDE DEF g
    <2> QED
        BY <1>5
<1>7. \A k \in 1 .. n : k # 0 /\ k \in 0 .. n
    OBVIOUS
<1> DEFINE T == {k \in 0 .. n : g[k] \in Nat}
<1>8. 0 .. n \subseteq T
    <2>1. 0 \in T
        BY <1>1, <1>6
    <2>2. \A k \in 1 .. n : k - 1 \in T => k \in T
        <3> HIDE DEF g
        <3> QED
            BY <1>1, <1>6, <1>7
    <2> HIDE DEF T, n
    <2> QED
        BY <1>1, <2>1, <2>2, UpToInduction
<1>9. g \in [0 .. n -> Nat]
    <2>1. \A k \in 0 .. n : g[k] \in Nat
        BY <1>8
    <2>2. g = [k \in 0 .. n |-> g[k]]
        <3> HIDE DEF g
        <3>1. DOMAIN g = 0 .. n /\ g = [k \in DOMAIN g |-> g[k]]
            BY <1>5
        <3> QED
            BY <3>1
    <2> HIDE DEF g
    <2> QED
        BY <2>1, <2>2
<1> QED
    BY <1>1, <1>6, <1>7, <1>9

(***************************************************************************)
(* The sums grow.                                                          *)
(***************************************************************************)
LEMMA SumsGrow ==
    ASSUME NEW lens \in Seq(Nat), NEW i \in 0 .. Len(lens), NEW j \in i .. Len(lens)
    PROVE  Sums(lens)[i] <= Sums(lens)[j]
<1> DEFINE T == {m \in 0 .. Len(lens) - i : Sums(lens)[i] <= Sums(lens)[i + m]}
           n == Len(lens) - i
<1>1. Len(lens) \in Nat /\ \A k \in 1 .. Len(lens) : lens[k] \in Nat
    OBVIOUS
<1>2. n \in Nat /\ j - i \in 0 .. n
    BY <1>1
<1>3. 0 \in T
    <2>1. Sums(lens)[i] \in Nat
        BY SumsDefined
    <2>2. i + 0 = i /\ 0 \in 0 .. Len(lens) - i
        BY <1>1
    <2> QED
        BY <2>1, <2>2
<1>4. ASSUME NEW k \in 1 .. n, k - 1 \in T PROVE k \in T
    <2>1. i + k \in 1 .. Len(lens) /\ (i + k) - 1 = i + (k - 1)
          /\ i + k \in 0 .. Len(lens) /\ i + (k - 1) \in 0 .. Len(lens)
        BY <1>1, <1>2
    <2>2. Sums(lens)[i + k] = Sums(lens)[i + (k - 1)] + lens[i + k]
        BY <2>1, SumsDefined
    <2>3. /\ Sums(lens)[i] \in Nat /\ Sums(lens)[i + (k - 1)] \in Nat
          /\ lens[i + k] \in Nat
        BY <1>1, <2>1, SumsDefined
    <2>4. Sums(lens)[i] <= Sums(lens)[i + (k - 1)]
        BY <1>4
    <2>5. Sums(lens)[i] <= Sums(lens)[i + k]
        BY <2>2, <2>3, <2>4
    <2> QED
        BY <2>5
<1>5. 0 .. n \subseteq T
    <2> HIDE DEF T, n
    <2> QED
        BY <1>2, <1>3, <1>4, UpToInduction
<1>6. Sums(lens)[i] <= Sums(lens)[i + (j - i)]
    BY <1>2, <1>5
<1>7. i + (j - i) = j
    BY <1>1
<1> QED
    BY <1>6, <1>7

(***************************************************************************)
(* Every byte lies in a chunk.                                             *)
(***************************************************************************)
LEMMA ByteInChunk ==
    ASSUME NEW lens \in Seq(Nat), NEW m \in 0 .. Len(lens), NEW b \in 1 .. Sums(lens)[m]
    PROVE  \E i \in 1 .. m : Sums(lens)[i - 1] < b /\ b <= Sums(lens)[i]
<1> DEFINE In(k) == \E i \in 1 .. k : Sums(lens)[i - 1] < b /\ b <= Sums(lens)[i]
           T == {k \in 0 .. Len(lens) : b <= Sums(lens)[k] => In(k)}
<1>1. Len(lens) \in Nat /\ b \in Nat /\ b >= 1
    BY SumsDefined
<1>2. 0 \in T
    BY <1>1, SumsDefined
<1>3. ASSUME NEW k \in 1 .. Len(lens), k - 1 \in T PROVE k \in T
    <2> SUFFICES ASSUME b <= Sums(lens)[k] PROVE In(k)
        OBVIOUS
    <2>1. k - 1 \in 0 .. Len(lens)
        BY <1>1
    <2>4. Sums(lens)[k - 1] \in Nat
        BY <2>1, SumsDefined
    <2>2. CASE b <= Sums(lens)[k - 1]
        <3>1. In(k - 1) /\ 1 .. k - 1 \subseteq 1 .. k
            BY <1>3, <2>2
        <3> QED
            BY <3>1
    <2>3. CASE Sums(lens)[k - 1] < b
        BY <2>3
    <2> QED
        BY <1>1, <2>2, <2>3, <2>4
<1>4. 0 .. Len(lens) \subseteq T
    <2> HIDE DEF T
    <2> QED
        BY <1>1, <1>2, <1>3, UpToInduction
<1>5. m \in T
    BY <1>4
<1>6. b <= Sums(lens)[m]
    BY SumsDefined
<1> QED
    BY <1>5, <1>6

-----------------------------------------------------------------------------
(***************************************************************************)
(* One sequence after another.                                             *)
(***************************************************************************)
LEMMA ConcatFacts ==
    ASSUME NEW V, NEW s \in Seq(V), NEW t \in Seq(V)
    PROVE  /\ s \o t \in Seq(V)
           /\ Len(s \o t) = Len(s) + Len(t)
           /\ \A k \in 1 .. Len(s) : (s \o t)[k] = s[k]
           /\ \A k \in 1 .. Len(t) : (s \o t)[Len(s) + k] = t[k]
<1>1. s \o t \in Seq(V) /\ Len(s \o t) = Len(s) + Len(t)
    OBVIOUS
<1>2. \A k \in 1 .. Len(s) : (s \o t)[k] = s[k]
    OBVIOUS
<1>3. \A k \in 1 .. Len(t) : (s \o t)[Len(s) + k] = t[k]
    OBVIOUS
<1> QED
    BY <1>1, <1>2, <1>3

(***************************************************************************)
(* What either has, both together have.                                    *)
(***************************************************************************)
Has(s, x) == \E i \in 1 .. Len(s) : s[i] = x

(***************************************************************************)
(* Whichever of the two it is in.                                          *)
(***************************************************************************)
LEMMA ConcatHas ==
    ASSUME NEW V, NEW s \in Seq(V), NEW t \in Seq(V), NEW x, Has(s, x) \/ Has(t, x)
    PROVE  Has(s \o t, x)
<1> DEFINE st == s \o t
<1>1. /\ Len(st) = Len(s) + Len(t)
      /\ \A k \in 1 .. Len(s) : st[k] = s[k]
      /\ \A k \in 1 .. Len(t) : st[Len(s) + k] = t[k]
    BY ConcatFacts
<1> HIDE DEF st
<1>2. CASE Has(s, x)
    <2>1. PICK i \in 1 .. Len(s) : s[i] = x
        BY <1>2 DEF Has
    <2>2. i \in 1 .. Len(st)
        BY <1>1
    <2> QED
        BY <1>1, <2>1, <2>2 DEF Has, st
<1>3. CASE Has(t, x)
    <2>1. PICK i \in 1 .. Len(t) : t[i] = x
        BY <1>3 DEF Has
    <2>2. Len(s) + i \in 1 .. Len(st)
        BY <1>1
    <2>3. st[Len(s) + i] = x
        BY <1>1, <2>1
    <2> QED
        BY <2>2, <2>3 DEF Has, st
<1> QED
    BY <1>2, <1>3

(***************************************************************************)
(* A sequence is its length and its elements.                              *)
(***************************************************************************)
LEMMA SameSequence ==
    ASSUME NEW V, NEW s \in Seq(V), NEW t \in Seq(V), Len(s) = Len(t),
           \A k \in 1 .. Len(s) : s[k] = t[k]
    PROVE  s = t
OBVIOUS

(***************************************************************************)
(* So a sequence with the elements of two others is their concatenation.   *)
(***************************************************************************)
LEMMA ConcatIs ==
    ASSUME NEW V, NEW s \in Seq(V), NEW t \in Seq(V), NEW st \in Seq(V),
           Len(st) = Len(s) + Len(t),
           \A k \in 1 .. Len(s) : st[k] = s[k],
           \A k \in 1 .. Len(t) : st[Len(s) + k] = t[k]
    PROVE  s \o t = st
<1>1. s \o t \in Seq(V)
    OBVIOUS
<1>2. Len(s \o t) = Len(st)
    OBVIOUS
<1>3. \A k \in 1 .. Len(s) : (s \o t)[k] = st[k]
    OBVIOUS
<1>4. \A k \in 1 .. Len(t) : (s \o t)[Len(s) + k] = st[Len(s) + k]
    OBVIOUS
<1>5. ASSUME NEW k \in 1 .. Len(st) PROVE (s \o t)[k] = st[k]
    <2>1. k \in 1 .. Len(s) \/ (k - Len(s) \in 1 .. Len(t) /\ Len(s) + (k - Len(s)) = k)
        OBVIOUS
    <2> QED
        BY <1>3, <1>4, <2>1, Zenon
<1> QED
    BY <1>1, <1>2, <1>5, SameSequence

(***************************************************************************)
(* Two neighbouring parts of a sequence make the part that spans both.     *)
(***************************************************************************)
LEMMA PartsJoin ==
    ASSUME NEW V, NEW c \in Seq(V), NEW off \in Nat, NEW len \in Nat,
           off + len <= Len(c)
    PROVE  SubSeq(c, 1, off) \o SubSeq(c, off + 1, off + len) = SubSeq(c, 1, off + len)
<1>1. /\ SubSeq(c, 1, off) \in Seq(V) /\ Len(SubSeq(c, 1, off)) = off
      /\ \A k \in 1 .. off : SubSeq(c, 1, off)[k] = c[k]
    OBVIOUS
<1>2. /\ SubSeq(c, off + 1, off + len) \in Seq(V)
      /\ Len(SubSeq(c, off + 1, off + len)) = len
      /\ \A k \in 1 .. len : SubSeq(c, off + 1, off + len)[k] = c[off + k]
    OBVIOUS
<1>3. /\ SubSeq(c, 1, off + len) \in Seq(V)
      /\ Len(SubSeq(c, 1, off + len)) = off + len
      /\ \A k \in 1 .. off + len : SubSeq(c, 1, off + len)[k] = c[k]
    OBVIOUS
<1>4. \A k \in 1 .. off : SubSeq(c, 1, off + len)[k] = SubSeq(c, 1, off)[k]
    <2>1. 1 .. off \subseteq 1 .. off + len
        OBVIOUS
    <2> QED
        BY <1>1, <1>3, <2>1, Zenon
<1>5. \A k \in 1 .. len :
         SubSeq(c, 1, off + len)[off + k] = SubSeq(c, off + 1, off + len)[k]
    <2>1. \A k \in 1 .. len : off + k \in 1 .. off + len
        OBVIOUS
    <2> QED
        BY <1>2, <1>3, <2>1, Zenon
<1> DEFINE s == SubSeq(c, 1, off)
           t == SubSeq(c, off + 1, off + len)
           st == SubSeq(c, 1, off + len)
<1>6. /\ s \in Seq(V) /\ t \in Seq(V) /\ st \in Seq(V)
      /\ Len(st) = Len(s) + Len(t)
      /\ \A k \in 1 .. Len(s) : st[k] = s[k]
      /\ \A k \in 1 .. Len(t) : st[Len(s) + k] = t[k]
    BY <1>1, <1>2, <1>3, <1>4, <1>5, Zenon
<1> HIDE DEF s, t, st
<1>7. s \o t = st
    BY <1>6, ConcatIs, Zenon
<1> QED
    BY <1>7 DEF s, t, st

-----------------------------------------------------------------------------
(***************************************************************************)
(* What is retained of a list, element by element.                         *)
(***************************************************************************)
LEMMA RetainsDefined ==
    ASSUME NEW P, NEW s \in Seq(P), NEW W
    PROVE  /\ Retains(s, W) \in [0 .. Len(s) -> Seq(P \cap W)]
           /\ Retains(s, W)[0] = <<>>
           /\ \A k \in 1 .. Len(s) :
                 Retains(s, W)[k] = IF s[k] \in W THEN Append(Retains(s, W)[k - 1], s[k])
                                                  ELSE Retains(s, W)[k - 1]
<1> DEFINE n == Len(s)
           V == Seq(P \cap W)
           step == [k \in 1 .. n |-> [v \in V |-> IF s[k] \in W THEN Append(v, s[k]) ELSE v]]
<1>1. n \in Nat /\ <<>> \in V /\ \A k \in 1 .. n : s[k] \in P
    OBVIOUS
<1>2. ASSUME NEW k \in 1 .. n, NEW v \in V
      PROVE  (IF s[k] \in W THEN Append(v, s[k]) ELSE v) \in V
    <2>1. CASE s[k] \in W
        <3>1. s[k] \in P \cap W
            BY <1>1, <2>1
        <3> QED
            BY <2>1, <3>1
    <2>2. CASE s[k] \notin W
        BY <2>2
    <2> QED
        BY <2>1, <2>2
<1>3. step \in [1 .. n -> [V -> V]]
    <2> HIDE DEF V, n
    <2> QED
        BY <1>2
<1>4. PICK f \in [0 .. n -> V] : Follows(f, n, <<>>, step)
    <2> HIDE DEF V, n, step
    <2> QED
        BY <1>1, <1>3, RecursionExists
<1>5. ASSUME NEW k \in 0 .. n
      PROVE  f[k] = IF k = 0 THEN <<>>
                    ELSE IF s[k] \in W THEN Append(f[k - 1], s[k]) ELSE f[k - 1]
    <2>1. CASE k = 0
        <3> HIDE DEF step, V, n
        <3> QED
            BY <1>4, <2>1 DEF Follows
    <2>2. CASE k # 0
        <3>1. k \in 1 .. n /\ k - 1 \in 0 .. n
            BY <1>1, <2>2
        <3>2. f[k - 1] \in V
            BY <3>1
        <3>3. f[k] = step[k][f[k - 1]]
            <4> HIDE DEF step, V, n
            <4> QED
                BY <1>4, <2>2 DEF Follows
        <3> HIDE DEF V, n
        <3> QED
            BY <2>2, <3>1, <3>2, <3>3
    <2> QED
        BY <2>1, <2>2
<1>6. f = [k \in 0 .. n |-> IF k = 0 THEN <<>>
                            ELSE IF s[k] \in W THEN Append(f[k - 1], s[k])
                                 ELSE f[k - 1]]
    <2> HIDE DEF step, V, n
    <2> QED
        BY <1>5
<1> DEFINE g == Retains(s, W)
<1>7. g = [k \in 0 .. n |-> IF k = 0 THEN <<>>
                            ELSE IF s[k] \in W THEN Append(g[k - 1], s[k])
                                 ELSE g[k - 1]]
    BY <1>6, Zenon DEF Retains
<1> HIDE DEF g
<1>8. /\ g[0] = <<>>
      /\ \A k \in 1 .. n : g[k] = IF s[k] \in W THEN Append(g[k - 1], s[k]) ELSE g[k - 1]
    <2>1. 0 \in 0 .. n /\ \A k \in 1 .. n : k \in 0 .. n /\ k # 0
        BY <1>1
    <2> HIDE DEF n
    <2> QED
        BY <1>7, <2>1
<1> DEFINE T == {k \in 0 .. n : g[k] \in V}
<1>9. 0 .. n \subseteq T
    <2>1. 0 \in T
        <3>1. 0 \in 0 .. n
            BY <1>1
        <3> HIDE DEF V
        <3> QED
            BY <1>1, <1>8, <3>1
    <2>2. ASSUME NEW k \in 1 .. n, k - 1 \in T PROVE k \in T
        <3>1. g[k - 1] \in V /\ k \in 0 .. n
            BY <1>1, <2>2
        <3>2. (IF s[k] \in W THEN Append(g[k - 1], s[k]) ELSE g[k - 1]) \in V
            BY <1>2, <3>1
        <3>3. g[k] \in V
            <4> HIDE DEF V
            <4> QED
                BY <1>8, <3>2
        <3> QED
            BY <3>1, <3>3
    <2> HIDE DEF T, n
    <2> QED
        BY <1>1, <2>1, <2>2, UpToInduction
<1>10. g \in [0 .. n -> V]
    <2>1. \A k \in 0 .. n : g[k] \in V
        BY <1>9
    <2>2. DOMAIN g = 0 .. n /\ g = [k \in DOMAIN g |-> g[k]]
        BY <1>7
    <2> HIDE DEF V, n
    <2> QED
        BY <2>1, <2>2
<1> QED
    BY <1>8, <1>10 DEF g

(***************************************************************************)
(* All of it is wanted, and nothing that is wanted is lost.                *)
(***************************************************************************)
LEMMA RetainKeeps ==
    ASSUME NEW P, NEW s \in Seq(P), NEW W
    PROVE  /\ Retain(s, W) \in Seq(P \cap W)
           /\ \A i \in 1 .. Len(s) : s[i] \in W => Has(Retain(s, W), s[i])
<1> DEFINE n == Len(s)
           R == Retains(s, W)
           Found(i, k) == \E j \in 1 .. Len(R[k]) : R[k][j] = s[i]
           T == {k \in 0 .. n : \A i \in 1 .. k : s[i] \in W => Found(i, k)}
<1>1. n \in Nat /\ n \in 0 .. n
    OBVIOUS
<1>2. /\ \A k \in 0 .. n : R[k] \in Seq(P \cap W)
      /\ \A k \in 1 .. n : R[k] = IF s[k] \in W THEN Append(R[k - 1], s[k]) ELSE R[k - 1]
    BY RetainsDefined, SMTT(30)
<1>3. ASSUME NEW k \in 1 .. n, k - 1 \in T PROVE k \in T
    <2>1. k \in 0 .. n /\ k - 1 \in 0 .. n
        BY <1>1
    <2>2. R[k] = IF s[k] \in W THEN Append(R[k - 1], s[k]) ELSE R[k - 1]
        BY <1>2
    <2>3. R[k - 1] \in Seq(P \cap W)
        BY <1>2, <2>1
    <2>4. \A i \in 1 .. k : i = k \/ i \in 1 .. k - 1
        OBVIOUS
    <2>5. ASSUME NEW i \in 1 .. k, s[i] \in W PROVE Found(i, k)
        <3>1. CASE i = k
            <4>1. R[k] = Append(R[k - 1], s[k])
                BY <2>2, <2>5, <3>1
            <4> HIDE DEF R
            <4>2. Len(R[k]) \in 1 .. Len(R[k]) /\ R[k][Len(R[k])] = s[k]
                BY <2>3, <4>1
            <4> QED
                BY <3>1, <4>2
        <3>2. CASE i # k
            <4>1. Found(i, k - 1)
                BY <1>3, <2>4, <2>5, <3>2
            <4> HIDE DEF R
            <4>2. PICK j \in 1 .. Len(R[k - 1]) : R[k - 1][j] = s[i]
                BY <4>1
            <4>3. j \in 1 .. Len(R[k]) /\ R[k][j] = R[k - 1][j]
                BY <2>2, <2>3
            <4> QED
                BY <4>2, <4>3
        <3> QED
            BY <3>1, <3>2
    <2> QED
        BY <2>1, <2>5
<1>4. 0 \in T
    BY <1>1
<1>5. n \in T
    <2> HIDE DEF T, n
    <2>1. 0 .. n \subseteq T
        BY <1>1, <1>3, <1>4, UpToInduction
    <2> QED
        BY <1>1, <2>1
<1> QED
    BY <1>1, <1>2, <1>5 DEF Retain, Has

(***************************************************************************)
(* Three lists that want different elements are together no longer than    *)
(* the list they were taken from.                                          *)
(***************************************************************************)
LEMMA RetainLengths ==
    ASSUME NEW P, NEW s \in Seq(P), NEW A, NEW B, NEW C,
           A \cap B = {}, A \cap C = {}, B \cap C = {}
    PROVE  Len(Retain(s, A)) + Len(Retain(s, B)) + Len(Retain(s, C)) <= Len(s)
<1> DEFINE n == Len(s)
           L(W, k) == Len(Retains(s, W)[k])
           T == {k \in 0 .. n : L(A, k) + L(B, k) + L(C, k) <= k}
<1>1. n \in Nat /\ n \in 0 .. n
    OBVIOUS
<1>2. ASSUME NEW W
      PROVE  /\ \A k \in 0 .. n : L(W, k) \in Nat
             /\ L(W, 0) = 0
             /\ \A k \in 1 .. n : L(W, k) = IF s[k] \in W THEN L(W, k - 1) + 1 ELSE L(W, k - 1)
    <2> DEFINE R == Retains(s, W)
    <2>1. /\ \A k \in 0 .. n : R[k] \in Seq(P \cap W)
          /\ R[0] = <<>>
          /\ \A k \in 1 .. n : R[k] = IF s[k] \in W THEN Append(R[k - 1], s[k]) ELSE R[k - 1]
        BY RetainsDefined
    <2>2. \A k \in 1 .. n : k - 1 \in 0 .. n
        BY <1>1
    <2> HIDE DEF R
    <2>3. \A k \in 0 .. n : Len(R[k]) \in Nat
        BY <2>1
    <2>4. Len(R[0]) = 0
        BY <2>1
    <2>5. ASSUME NEW k \in 1 .. n
          PROVE  Len(R[k]) = IF s[k] \in W THEN Len(R[k - 1]) + 1 ELSE Len(R[k - 1])
        <3>1. R[k - 1] \in Seq(P \cap W)
            BY <2>1, <2>2
        <3>2. CASE s[k] \in W
            <4>1. R[k] = Append(R[k - 1], s[k])
                BY <2>1, <3>2
            <4>2. s[k] \in P \cap W
                BY <3>2
            <4> QED
                BY <3>1, <3>2, <4>1, <4>2
        <3>3. CASE s[k] \notin W
            BY <2>1, <3>3
        <3> QED
            BY <3>2, <3>3
    <2> QED
        BY <2>3, <2>4, <2>5 DEF R
<1> HIDE DEF L, n
<1>3. 0 \in T
    BY <1>1, <1>2
<1>4. ASSUME NEW k \in 1 .. n, k - 1 \in T PROVE k \in T
    <2>1. /\ k \in 0 .. n /\ k - 1 \in 0 .. n
          /\ L(A, k - 1) + L(B, k - 1) + L(C, k - 1) <= k - 1
        BY <1>1, <1>4
    <2>2. /\ L(A, k - 1) \in Nat /\ L(B, k - 1) \in Nat /\ L(C, k - 1) \in Nat
          /\ L(A, k) = IF s[k] \in A THEN L(A, k - 1) + 1 ELSE L(A, k - 1)
          /\ L(B, k) = IF s[k] \in B THEN L(B, k - 1) + 1 ELSE L(B, k - 1)
          /\ L(C, k) = IF s[k] \in C THEN L(C, k - 1) + 1 ELSE L(C, k - 1)
        BY <1>2, <2>1
    <2>3. /\ ~(s[k] \in A /\ s[k] \in B) /\ ~(s[k] \in A /\ s[k] \in C)
          /\ ~(s[k] \in B /\ s[k] \in C)
        OBVIOUS
    <2>4. L(A, k) + L(B, k) + L(C, k) <= k
        BY <2>1, <2>2, <2>3
    <2> QED
        BY <2>1, <2>4
<1>5. n \in T
    <2> HIDE DEF T
    <2>1. 0 .. n \subseteq T
        BY <1>1, <1>3, <1>4, UpToInduction
    <2> QED
        BY <1>1, <2>1
<1> QED
    BY <1>5 DEF Retain, L, n

=============================================================================
