------------------------- MODULE ChannelListProofs -------------------------
(***************************************************************************)
(* ChannelList for responses, segmentations and captures of any size.      *)
(* What the loop of TcpStream.assemble computes is found by induction over *)
(* its rounds: the induction is a lemma about a set of numbers (UpTo).     *)
(***************************************************************************)
EXTENDS ChannelList, FiniteSetTheorems, TLAPS

(* The strict subsets of a finite set are well founded.                    *)
LEMMA SubsetsWellFounded ==
    ASSUME NEW S, IsFiniteSet(S)
    PROVE  IsWellFoundedOn(StrictSubsetOrdering(S), SUBSET S)
BY FS_StrictSubsetOrderingWellFounded, FS_FiniteSubsetsOfFinite

(* A family of subsets that holds the empty one, and each one whose        *)
(* reductions by an element it holds.                                      *)
Grows(S, G) ==
    /\ {} \in G
    /\ \A T \in SUBSET S : T # {} /\ (\A x \in T : T \ {x} \in G) => T \in G

(* Induction, as a fact about sets: it holds the set itself, if finite.    *)
LEMMA BySubsets ==
    ASSUME NEW S, NEW G, IsFiniteSet(S), Grows(S, G)
    PROVE  S \in G
<1> SUFFICES ASSUME S \notin G PROVE FALSE
  OBVIOUS
<1> DEFINE R == StrictSubsetOrdering(S)
           B == {T \in SUBSET S : T \notin G}
<1>1. IsWellFoundedOn(R, SUBSET S)
  BY SubsetsWellFounded
<1>2. B # {} /\ B \subseteq SUBSET S
  OBVIOUS
<1> HIDE DEF R
<1>3. PICK T \in B : \A W \in B : <<W, T>> \notin R
  BY <1>1, <1>2, WFMin
<1>4. \A x \in T : T \ {x} \in G
  <2> SUFFICES ASSUME NEW x \in T, T \ {x} \notin G PROVE FALSE
    OBVIOUS
  <2>1. <<T \ {x}, T>> \in R
    BY DEF R, StrictSubsetOrdering
  <2> QED
    BY <1>3, <2>1
<1> QED
  BY <1>3, <1>4 DEF Grows

(* The same for the numbers up to n.                                       *)
LEMMA UpTo ==
    ASSUME NEW n \in Nat, NEW B, 0 \in B, \A i \in 1..n : i - 1 \in B => i \in B
    PROVE  \A i \in 0..n : i \in B
<1> SUFFICES ASSUME NEW k \in 0..n, k \notin B PROVE FALSE
  OBVIOUS
<1> DEFINE S == 0..n
           R == StrictSubsetOrdering(S)
           T == {0..i : i \in {j \in 0..n : j \notin B}}
<1>1. IsFiniteSet(S)
  BY FS_Interval
<1>2. T # {} /\ T \subseteq SUBSET S
  OBVIOUS
<1>3. IsWellFoundedOn(R, SUBSET S)
  BY <1>1, SubsetsWellFounded
<1> HIDE DEF R
<1>4. PICK X \in T : \A Y \in T : <<Y, X>> \notin R
  <2> HIDE DEF T, S
  <2> QED
    BY <1>2, <1>3, WFMin
<1>5. PICK i \in 0..n : i \notin B /\ X = 0..i
  BY <1>4
<1>6. i # 0
  BY <1>5
<1>7. i - 1 \notin B /\ i - 1 \in 0..n
  BY <1>5, <1>6
<1>8. <<0..(i - 1), X>> \in R
  <2>1. i \in 0..i /\ i \notin 0..(i - 1) /\ 0..(i - 1) \subseteq 0..i
    BY <1>5, <1>6
  <2>2. 0..(i - 1) \in SUBSET S /\ X \in SUBSET S
    BY <1>4, <1>7
  <2> QED
    BY <1>5, <2>1, <2>2 DEF R, StrictSubsetOrdering
<1>9. 0..(i - 1) \in T
  BY <1>7
<1> QED
  BY <1>4, <1>8, <1>9

(* A recursion over 1..n has a value at each step.                         *)
LEMMA Recursion ==
    ASSUME NEW X, NEW base \in X, NEW n \in Nat, NEW G \in [1..n -> [X -> X]]
    PROVE  \E g \in [0..n -> X] : g[0] = base /\ \A i \in 1..n : g[i] = G[i][g[i - 1]]
<1> DEFINE Upto(k) == {g \in [0..k -> X] : g[0] = base /\ \A i \in 1..k : g[i] = G[i][g[i - 1]]}
           B == {k \in 0..n : Upto(k) # {}}
<1>1. 0 \in B
  <2>1. [i \in 0..0 |-> base] \in Upto(0)
    OBVIOUS
  <2> QED
    BY <2>1
<1>2. ASSUME NEW k \in 1..n, k - 1 \in B PROVE k \in B
  <2>1. PICK g \in [0..(k - 1) -> X] : g[0] = base /\ \A i \in 1..(k - 1) : g[i] = G[i][g[i - 1]]
    BY <1>2
  <2> DEFINE h == [i \in 0..k |-> IF i = k THEN G[k][g[k - 1]] ELSE g[i]]
  <2>2. g[k - 1] \in X /\ G[k] \in [X -> X]
    OBVIOUS
  <2>3. h \in [0..k -> X] /\ h[0] = base
    BY <2>1, <2>2
  <2>4. ASSUME NEW i \in 1..k PROVE h[i] = G[i][h[i - 1]]
    <3>1. h[i - 1] = g[i - 1]
      BY <2>4
    <3>2. CASE i = k
      BY <3>1, <3>2
    <3>3. CASE i # k
      <4>1. i \in 1..(k - 1) /\ h[i] = g[i]
        BY <3>3
      <4> QED
        BY <2>1, <3>1, <4>1
    <3> QED
      BY <3>2, <3>3
  <2>5. h \in Upto(k)
    BY <2>3, <2>4
  <2>6. k \in 0..n
    OBVIOUS
  <2> HIDE DEF Upto, h
  <2> QED
    BY <2>5, <2>6
<1>3. \A i \in 1..n : i - 1 \in B => i \in B
  BY <1>2
<1> HIDE DEF B
<1>4. \A i \in 0..n : i \in B
  BY <1>1, <1>3, UpTo
<1>5. n \in B
  BY <1>4
<1> QED
  BY <1>5 DEF B

-----------------------------------------------------------------------------
(* Segments, as TcpStream holds them: they agree where they overlap.       *)
Bytes == 0..Length
SegmentType == [seq : Nat, data : Seq(Bytes) \ {<<>>}]
Agreeing(S) == S \subseteq SegmentType /\ IsFiniteSet(S) /\ \A s, t \in S : ~Conflict(s, t)

(* The parts of a segment: it covers one place for each byte of its data.  *)
LEMMA SegmentIs ==
    ASSUME NEW s \in SegmentType
    PROVE  /\ s.seq \in Nat /\ s.data \in Seq(Bytes) /\ Len(s.data) \in Nat \ {0}
           /\ Covers(s) = s.seq..(s.seq + Len(s.data) - 1) /\ s.seq \in Covers(s)
           /\ Covers(s) \subseteq Nat
           /\ \A n \in Covers(s) : n - s.seq + 1 \in DOMAIN s.data /\ Byte(s, n) \in Bytes
<1>1. s.seq \in Nat /\ s.data \in Seq(Bytes) /\ s.data # <<>>
  BY DEF SegmentType
<1>2. Len(s.data) \in Nat \ {0} /\ DOMAIN s.data = 1..Len(s.data)
  BY <1>1
<1>3. Covers(s) = s.seq..(s.seq + Len(s.data) - 1)
  BY DEF Covers
<1>4. ASSUME NEW n \in Covers(s) PROVE n - s.seq + 1 \in DOMAIN s.data /\ n \in Nat
  BY <1>1, <1>2, <1>3
<1>5. \A n \in Covers(s) : Byte(s, n) \in Bytes
  BY <1>1, <1>4 DEF Byte
<1> QED
  BY <1>1, <1>2, <1>3, <1>4, <1>5

(* They are sorted by where they begin, and no two are alike.              *)
LEMMA BeforeTotal ==
    ASSUME NEW S, Agreeing(S), NEW s \in S, NEW t \in S, s # t
    PROVE  Before(s, t) \/ Before(t, s)
<1> SUFFICES ASSUME ~Before(s, t), ~Before(t, s) PROVE FALSE
  OBVIOUS
<1>1. s \in SegmentType /\ t \in SegmentType
  BY DEF Agreeing
<1>2. s.seq = t.seq /\ Len(s.data) = Len(t.data)
  <2>1. /\ s.seq \in Nat /\ Len(s.data) \in Nat
        /\ t.seq \in Nat /\ Len(t.data) \in Nat
    BY <1>1, SegmentIs
  <2> QED
    BY <2>1 DEF Before
<1>3. \A k \in DOMAIN s.data : s.data[k] = t.data[k]
  <2> SUFFICES ASSUME NEW k \in DOMAIN s.data PROVE s.data[k] = t.data[k]
    OBVIOUS
  <2>1. k \in 1..Len(s.data)
    BY <1>1, SegmentIs
  <2> DEFINE n == s.seq + k - 1
  <2>2. n \in Covers(s) /\ n \in Covers(t) /\ n - s.seq + 1 = k /\ n - t.seq + 1 = k
    <3>1. s.seq \in Nat /\ Len(s.data) \in Nat \ {0} /\ t.seq = s.seq
      BY <1>1, <1>2, SegmentIs
    <3> QED
      BY <1>2, <2>1, <3>1 DEF Covers
  <2>3. Byte(s, n) = Byte(t, n)
    BY <2>2 DEF Agreeing, Conflict
  <2> QED
    BY <2>2, <2>3 DEF Byte
<1>4. s.data = t.data
  <2>1. s.data \in Seq(Bytes) /\ t.data \in Seq(Bytes)
    BY <1>1, SegmentIs
  <2> QED
    BY <1>2, <1>3, <2>1
<1> QED
  BY <1>1, <1>2, <1>4 DEF SegmentType

(* Before is an order.                                                     *)
LEMMA BeforeTransitive ==
    ASSUME NEW s \in SegmentType, NEW t \in SegmentType, NEW u \in SegmentType,
           Before(s, t), Before(t, u)
    PROVE  Before(s, u)
<1>1. /\ s.seq \in Nat /\ Len(s.data) \in Nat
      /\ t.seq \in Nat /\ Len(t.data) \in Nat
      /\ u.seq \in Nat /\ Len(u.data) \in Nat
  BY SegmentIs
<1> QED
  BY <1>1 DEF Before

(* Some segment comes last.                                                *)
LEMMA SomeLast ==
    ASSUME NEW S, Agreeing(S), S # {}
    PROVE  \E m \in S : \A t \in S \ {m} : Before(t, m)
<1> DEFINE Top(T) == \E m \in T : \A t \in T \ {m} : Before(t, m)
           G == {T \in SUBSET S : T = {} \/ Top(T)}
<1>1. \A T \in SUBSET S : T # {} /\ (\A x \in T : T \ {x} \in G) => T \in G
  <2> SUFFICES ASSUME NEW T \in SUBSET S, T # {}, \A x \in T : T \ {x} \in G
               PROVE  \E m \in T : \A t \in T \ {m} : Before(t, m)
    OBVIOUS
  <2>1. PICK x \in T : TRUE
    OBVIOUS
  <2>2. CASE T \ {x} = {}
    BY <2>1, <2>2
  <2>3. CASE T \ {x} # {}
    <3>1. PICK m \in T \ {x} : \A t \in (T \ {x}) \ {m} : Before(t, m)
      BY <2>1, <2>3
    <3>2. S \subseteq SegmentType
      BY DEF Agreeing
    <3>3. CASE Before(x, m)
      BY <2>1, <3>1, <3>3
    <3>4. CASE Before(m, x)
      <4>1. \A t \in T \ {x} : Before(t, x)
        BY <2>1, <3>1, <3>2, <3>4, BeforeTransitive
      <4> QED
        BY <2>1, <4>1
    <3> QED
      BY <2>1, <3>1, <3>3, <3>4, BeforeTotal
  <2> QED
    BY <2>2, <2>3
<1>2. {} \in G /\ IsFiniteSet(S)
  BY DEF Agreeing
<1> HIDE DEF G
<1>3. S \in G
  <2>1. Grows(S, G)
    BY <1>1, <1>2 DEF Grows
  <2> QED
    BY <1>2, <2>1, BySubsets
<1>4. Top(S)
  <2> HIDE DEF Top
  <2> QED
    BY <1>3 DEF G
<1> QED
  BY <1>4

(* A function that has as many values as S, each before the next.          *)
Sorted(S, q) ==
    /\ q \in [1..Cardinality(S) -> S]
    /\ \A i, j \in DOMAIN q : i < j => Before(q[i], q[j])

(* They can be sorted, ...                                                 *)
LEMMA Sortable ==
    ASSUME NEW S, Agreeing(S)
    PROVE  \E q \in [1..Cardinality(S) -> S] : Sorted(S, q)
<1> DEFINE G == {T \in SUBSET S : \E q : Sorted(T, q)}
<1>1. \A T \in SUBSET S : T # {} /\ (\A x \in T : T \ {x} \in G) => T \in G
  <2> SUFFICES ASSUME NEW T \in SUBSET S, T # {}, \A x \in T : T \ {x} \in G
               PROVE  \E q : Sorted(T, q)
    OBVIOUS
  <2>1. Agreeing(T)
    BY FS_Subset DEF Agreeing
  <2>0. \E m \in T : \A t \in T \ {m} : Before(t, m)
    <3> HIDE DEF G
    <3> QED
      BY <2>1, SomeLast
  <2>2. PICK m \in T : \A t \in T \ {m} : Before(t, m)
    BY <2>0
  <2> DEFINE U == T \ {m}
             n == Cardinality(U)
  <2>3. PICK q : Sorted(U, q)
    BY <2>2
  <2>4. n \in Nat /\ Cardinality(T) = n + 1
    <3>1. IsFiniteSet(U) /\ m \notin U /\ T = U \cup {m}
      BY <2>1, FS_Subset DEF Agreeing
    <3> HIDE DEF U
    <3> QED
      BY <3>1, FS_CardinalityType, FS_AddElement
  <2>5. q \in [1..n -> U] /\ \A i, j \in 1..n : i < j => Before(q[i], q[j])
    BY <2>3 DEF Sorted
  <2> DEFINE r == [i \in 1..(n + 1) |-> IF i = n + 1 THEN m ELSE q[i]]
  <2> HIDE DEF n
  <2>6. r \in [1..(n + 1) -> T]
    BY <2>4, <2>5
  <2>7. ASSUME NEW i \in 1..(n + 1), NEW j \in 1..(n + 1), i < j
        PROVE  Before(r[i], r[j])
    <3>1. i \in 1..n /\ r[i] = q[i]
      BY <2>4, <2>7
    <3>2. CASE j = n + 1
      BY <2>2, <2>5, <3>1, <3>2
    <3>3. CASE j # n + 1
      BY <2>4, <2>5, <2>7, <3>1, <3>3
    <3> QED
      BY <3>2, <3>3
  <2>8. DOMAIN r = 1..(n + 1)
    OBVIOUS
  <2> HIDE DEF r
  <2>9. Sorted(T, r)
    BY <2>4, <2>6, <2>7, <2>8 DEF Sorted
  <2> QED
    BY <2>9
<1>2. {} \in G
  <2> DEFINE e == [i \in 1..0 |-> 0]
  <2>1. Cardinality({}) = 0 /\ e \in [1..0 -> {}] /\ DOMAIN e = {}
    BY FS_EmptySet
  <2>2. Sorted({}, e)
    BY <2>1 DEF Sorted
  <2> QED
    BY <2>2
<1>3. IsFiniteSet(S)
  BY DEF Agreeing
<1> HIDE DEF G
<1>4. S \in G
  <2>1. Grows(S, G)
    BY <1>1, <1>2 DEF Grows
  <2> QED
    BY <1>3, <2>1, BySubsets
<1> QED
  BY <1>4 DEF G, Sorted

(* ... and Ordered sorts them all.                                         *)
LEMMA OrderedIs ==
    ASSUME NEW S, Agreeing(S)
    PROVE  LET q == Ordered(S) n == Cardinality(S) IN
           /\ n \in Nat /\ q \in [1..n -> S] /\ Len(q) = n
           /\ \A i, j \in 1..n : i < j => q[i].seq <= q[j].seq /\ q[i] # q[j]
           /\ \A s \in S : \E i \in 1..n : q[i] = s
<1> DEFINE q == Ordered(S)
           n == Cardinality(S)
<1>1. n \in Nat /\ IsFiniteSet(S) /\ S \subseteq SegmentType
  BY FS_CardinalityType DEF Agreeing
<1>2. \E r \in [1..n -> S] : \A i, j \in DOMAIN r : i < j => Before(r[i], r[j])
  BY Sortable DEF Sorted
<1>3. q \in [1..n -> S] /\ \A i, j \in DOMAIN q : i < j => Before(q[i], q[j])
  BY <1>2 DEF Ordered
<1> HIDE DEF q, n
<1>4. Len(q) = n /\ DOMAIN q = 1..n
  BY <1>1, <1>3
<1>5. \A i \in 1..n : q[i] \in SegmentType
  BY <1>1, <1>3
<1>6. ASSUME NEW i \in 1..n, NEW j \in 1..n, i < j
      PROVE  q[i].seq <= q[j].seq /\ q[i] # q[j]
  <2>1. Before(q[i], q[j])
    BY <1>3, <1>4, <1>6
  <2>2. /\ q[i].seq \in Nat /\ Len(q[i].data) \in Nat
        /\ q[j].seq \in Nat /\ Len(q[j].data) \in Nat
    BY <1>5, SegmentIs
  <2> QED
    BY <2>1, <2>2 DEF Before
<1>7. \A s \in S : \E i \in 1..n : q[i] = s
  <2>1. q \in Injection(1..n, S)
    <3>1. \A i, j \in 1..n : q[i] = q[j] => i = j
      <4> SUFFICES ASSUME NEW i \in 1..n, NEW j \in 1..n, q[i] = q[j], i # j PROVE FALSE
        OBVIOUS
      <4>1. i < j \/ j < i
        BY <1>1
      <4> QED
        BY <1>6, <4>1
    <3> QED
      BY <1>3, <3>1 DEF Injection, IsInjective
  <2>2. IsFiniteSet(1..n) /\ Cardinality(1..n) = n
    BY <1>1, FS_Interval
  <2>3. q \in Surjection(1..n, S)
    BY <1>1, <2>1, <2>2, FS_Injection DEF n
  <2> QED
    BY <2>3 DEF Surjection
<1> QED
  BY <1>1, <1>3, <1>4, <1>6, <1>7 DEF q, n

-----------------------------------------------------------------------------
(* The loop of assemble. Extend keeps the kind of what it extends, ...     *)
StreamType == [out : Seq(Bytes), end : Nat, gap : BOOLEAN]

(* Extend has three cases: the segment adds nothing, its rest, or begins   *)
(* later.                                                                  *)
LEMMA ExtendIs ==
    ASSUME NEW x \in StreamType, NEW s \in SegmentType
    PROVE  /\ Extend(x, s) \in StreamType
           /\ s.seq + Len(s.data) <= x.end => Extend(x, s) = x
           /\ s.seq + Len(s.data) > x.end /\ s.seq <= x.end =>
                /\ Extend(x, s).out =
                       x.out \o SubSeq(s.data, x.end - s.seq + 1, Len(s.data))
                /\ Extend(x, s).end = s.seq + Len(s.data)
                /\ Extend(x, s).gap = x.gap
           /\ s.seq > x.end =>
                /\ Extend(x, s).end = x.end + Len(s.data)
                /\ Extend(x, s).gap = TRUE
<1> DEFINE k == IF x.end > s.seq THEN x.end - s.seq ELSE 0
           L == Len(s.data)
           y == [ out |-> x.out \o SubSeq(s.data, k + 1, L), end |-> x.end + L - k,
                  gap |-> x.gap \/ s.seq > x.end ]
<1>1. /\ x.out \in Seq(Bytes) /\ x.end \in Nat /\ x.gap \in BOOLEAN
      /\ s.seq \in Nat /\ s.data \in Seq(Bytes) /\ L \in Nat \ {0}
  BY SegmentIs DEF StreamType
<1>2. Extend(x, s) = IF k >= L THEN x ELSE y
  BY DEF Extend
<1>3. k \in Nat
  BY <1>1
<1>4. k < L => SubSeq(s.data, k + 1, L) \in Seq(Bytes) /\ x.end + L - k \in Nat
  BY <1>1, <1>3
<1>5. k < L => y \in StreamType
  <2> SUFFICES ASSUME k < L PROVE y \in StreamType
    OBVIOUS
  <2>1. x.out \o SubSeq(s.data, k + 1, L) \in Seq(Bytes)
    BY <1>1, <1>4
  <2>2. (x.gap \/ s.seq > x.end) \in BOOLEAN
    OBVIOUS
  <2> HIDE DEF k, L
  <2> QED
    BY <1>4, <2>1, <2>2 DEF StreamType
<1>6. Extend(x, s) \in StreamType
  <2> HIDE DEF k, L, y
  <2> QED
    BY <1>1, <1>2, <1>3, <1>5
<1>7. ASSUME s.seq + L <= x.end PROVE Extend(x, s) = x
  <2>1. k >= L
    BY <1>1, <1>7
  <2> QED
    BY <1>2, <2>1
<1>8. ASSUME s.seq + L > x.end, s.seq <= x.end
      PROVE  /\ Extend(x, s).out = x.out \o SubSeq(s.data, x.end - s.seq + 1, L)
             /\ Extend(x, s).end = s.seq + L
             /\ Extend(x, s).gap = x.gap
  <2>1. k = x.end - s.seq /\ ~(k >= L) /\ x.end + L - k = s.seq + L
    BY <1>1, <1>8
  <2>2. Extend(x, s) = y
    BY <1>2, <2>1
  <2>3. y.gap = x.gap
    BY <1>1, <1>8
  <2> HIDE DEF k
  <2>4. y.out = x.out \o SubSeq(s.data, k + 1, L) /\ y.end = x.end + L - k
    OBVIOUS
  <2> QED
    BY <2>1, <2>2, <2>3, <2>4
<1>9. ASSUME s.seq > x.end
      PROVE  Extend(x, s).end = x.end + L /\ Extend(x, s).gap = TRUE
  <2>1. k = 0 /\ ~(k >= L) /\ x.end + L - k = x.end + L
    BY <1>1, <1>9
  <2>2. Extend(x, s) = y
    BY <1>2, <2>1
  <2>3. y.end = x.end + L /\ y.gap = TRUE
    BY <1>9, <2>1
  <2> QED
    BY <2>2, <2>3
<1> HIDE DEF k, L, y
<1> QED
  BY <1>6, <1>7, <1>8, <1>9 DEF L

(* ... so the loop has a value after each of its rounds.                   *)
AtFirst(q) == [out |-> <<>>, end |-> q[1].seq, gap |-> FALSE]
Rounds(q, n) ==
    CHOOSE sofar : sofar =
        [i \in 0..n |-> IF i = 0 THEN AtFirst(q) ELSE Extend(sofar[i - 1], q[i])]

(* Recursion, for what assemble keeps between two rounds.                  *)
LEMMA StreamRecursion ==
    ASSUME NEW n \in Nat, NEW b \in StreamType,
           NEW H \in [1..n -> [StreamType -> StreamType]]
    PROVE  \E g \in [0..n -> StreamType] :
                g[0] = b /\ \A i \in 1..n : g[i] = H[i][g[i - 1]]
BY Recursion, SMT

(* The table of the loop exists, and each of its values follows from the   *)
(* last.                                                                   *)
LEMMA RoundsAre ==
    ASSUME NEW n \in Nat \ {0}, NEW q \in [1..n -> SegmentType]
    PROVE  /\ Rounds(q, n) \in [0..n -> StreamType]
           /\ Rounds(q, n)[0] = AtFirst(q)
           /\ \A i \in 1..n : Rounds(q, n)[i] = Extend(Rounds(q, n)[i - 1], q[i])
<1> DEFINE G == [i \in 1..n |-> [x \in StreamType |-> Extend(x, q[i])]]
           base == AtFirst(q)
<1>1. base \in StreamType
  <2>1. q[1].seq \in Nat /\ <<>> \in Seq(Bytes)
    BY SegmentIs
  <2> QED
    BY <2>1 DEF AtFirst, StreamType
<1>2. G \in [1..n -> [StreamType -> StreamType]]
  BY ExtendIs
<1>3. \E g \in [0..n -> StreamType] : g[0] = base /\ \A i \in 1..n : g[i] = G[i][g[i - 1]]
  <2> HIDE DEF G, base
  <2>1. n \in Nat
    OBVIOUS
  <2> QED
    BY <1>1, <1>2, <2>1, StreamRecursion
<1>4. PICK g \in [0..n -> StreamType] : g[0] = base /\ \A i \in 1..n : g[i] = G[i][g[i - 1]]
  BY <1>3
<1>5. \A i \in 1..n : g[i] = Extend(g[i - 1], q[i])
  <2>1. \A i \in 1..n : i - 1 \in 0..n
    OBVIOUS
  <2> QED
    BY <1>4, <2>1
<1> HIDE DEF G, base
<1>6. g = [i \in 0..n |-> IF i = 0 THEN AtFirst(q) ELSE Extend(g[i - 1], q[i])]
  <2>1. \A i \in 0..n : g[i] = IF i = 0 THEN AtFirst(q) ELSE Extend(g[i - 1], q[i])
    BY <1>4, <1>5 DEF base
  <2> QED
    BY <2>1
<1> DEFINE f == Rounds(q, n)
<1>7. f = [i \in 0..n |-> IF i = 0 THEN AtFirst(q) ELSE Extend(f[i - 1], q[i])]
  BY <1>6 DEF Rounds
<1> HIDE DEF f
<1>8. f[0] = AtFirst(q) /\ \A i \in 1..n : f[i] = Extend(f[i - 1], q[i])
  <2>1. 0 \in 0..n /\ \A i \in 1..n : i \in 0..n /\ i # 0
    OBVIOUS
  <2> QED
    BY <1>7, <2>1, Zenon
<1>9. \A i \in 0..n : f[i] \in StreamType
  <2> DEFINE B == {i \in 0..n : f[i] \in StreamType}
  <2>1. 0 \in B
    BY <1>1, <1>8 DEF base
  <2>2. ASSUME NEW i \in 1..n, i - 1 \in B PROVE i \in B
    <3>1. f[i - 1] \in StreamType /\ q[i] \in SegmentType /\ i \in 0..n
      BY <2>2
    <3>2. Extend(f[i - 1], q[i]) \in StreamType
      BY <3>1, ExtendIs
    <3> QED
      BY <1>8, <3>1, <3>2
  <2> HIDE DEF B
  <2>3. \A i \in 0..n : i \in B
    BY <2>1, <2>2, UpTo
  <2> QED
    BY <2>3 DEF B
<1>10. f \in [0..n -> StreamType]
  <2>1. f = [i \in 0..n |-> f[i]]
    BY <1>7, Zenon
  <2> QED
    BY <1>9, <2>1
<1> QED
  BY <1>8, <1>10 DEF f

(* Positions in a concatenation.                                           *)
LEMMA ConcatIs ==
    ASSUME NEW u \in Seq(Bytes), NEW v \in Seq(Bytes)
    PROVE  /\ u \o v \in Seq(Bytes) /\ Len(u \o v) = Len(u) + Len(v)
           /\ \A k \in 1..Len(u) : (u \o v)[k] = u[k]
           /\ \A k \in 1..Len(v) : (u \o v)[Len(u) + k] = v[k]
OBVIOUS

(* The end of a sequence, from position k on.                              *)
LEMMA TailIs ==
    ASSUME NEW T, NEW d \in Seq(T), NEW k \in 1..Len(d)
    PROVE  /\ SubSeq(d, k, Len(d)) \in Seq(T) /\ Len(SubSeq(d, k, Len(d))) = Len(d) - k + 1
           /\ \A j \in 1..(Len(d) - k + 1) : SubSeq(d, k, Len(d))[j] = d[k + j - 1]
<1>1. \A j \in 1..Len(d) : d[j] \in T
  OBVIOUS
<1>2. k \in Nat /\ Len(d) \in Nat /\ k <= Len(d)
  OBVIOUS
<1>3. Len(SubSeq(d, k, Len(d))) = Len(d) - k + 1
  BY <1>2
<1>4. \A j \in 1..(Len(d) - k + 1) : SubSeq(d, k, Len(d))[j] = d[k + j - 1]
  BY <1>2
<1>5. SubSeq(d, k, Len(d)) \in Seq(T)
  BY <1>2
<1> QED
  BY <1>3, <1>4, <1>5

(* Places counted from f, from a and from e.                               *)
LEMMA Shifted ==
    ASSUME NEW f \in Nat, NEW e \in Nat, NEW a \in Nat, NEW b \in Nat,
           f <= a, a <= e, e < b
    PROVE  /\ e - f + (b - e) = b - f
           /\ \A m \in f..(e - 1) : m - f + 1 \in 1..(e - f)
           /\ \A m \in e..(b - 1) : /\ m - e + 1 \in 1..(b - e)
                                    /\ e - f + (m - e + 1) = m - f + 1
                                    /\ e - a + (m - e + 1) = m - a + 1
OBVIOUS

(* What Extend appends: positions f..e-1 are there, d begins at a.         *)
Appends(out, d, f, a, e, b, new) ==
    /\ out \in Seq(Bytes) /\ d \in Seq(Bytes) /\ {f, a, e, b} \subseteq Nat
    /\ f <= a /\ a <= e /\ e < b /\ b = a + Len(d) /\ Len(out) = e - f
    /\ new = out \o SubSeq(d, e - a + 1, Len(d))

(* Then every place from f to b - 1 holds its byte.                        *)
LEMMA Appended ==
    ASSUME NEW out, NEW d, NEW f, NEW a, NEW e, NEW b, NEW new,
           Appends(out, d, f, a, e, b, new)
    PROVE  /\ Len(new) = b - f
           /\ \A m \in f..(e - 1) : new[m - f + 1] = out[m - f + 1]
           /\ \A m \in e..(b - 1) : new[m - f + 1] = d[m - a + 1]
<1> DEFINE L == Len(d)
           tail == SubSeq(d, e - a + 1, L)
<1>0. /\ out \in Seq(Bytes) /\ d \in Seq(Bytes)
      /\ f \in Nat /\ a \in Nat /\ e \in Nat /\ b \in Nat
      /\ f <= a /\ a <= e /\ e < b /\ b = a + Len(d) /\ Len(out) = e - f
      /\ new = out \o SubSeq(d, e - a + 1, Len(d))
  BY DEF Appends
<1>1. L \in Nat /\ e - a + 1 \in 1..L /\ L - (e - a + 1) + 1 = b - e
  BY <1>0
<1>3. \A k \in 1..(b - e) : e - a + 1 + k - 1 = e - a + k
  BY <1>0
<1>4. tail \in Seq(Bytes) /\ Len(tail) = b - e
      /\ \A k \in 1..(b - e) : tail[k] = d[e - a + k]
  <2> DEFINE c == e - a + 1
  <2> HIDE DEF c
  <2>1. SubSeq(d, c, Len(d)) \in Seq(Bytes) /\ Len(SubSeq(d, c, Len(d))) = Len(d) - c + 1
        /\ \A j \in 1..(Len(d) - c + 1) : SubSeq(d, c, Len(d))[j] = d[c + j - 1]
    BY <1>0, <1>1, TailIs DEF c
  <2>2. Len(d) - c + 1 = b - e /\ \A k \in 1..(b - e) : c + k - 1 = e - a + k
    BY <1>0, <1>1, <1>3 DEF c
  <2> QED
    BY <2>1, <2>2 DEF c
<1> HIDE DEF tail, L
<1>5. new = out \o tail
  BY <1>0 DEF tail, L
<1>6. /\ Len(new) = e - f + (b - e)
      /\ \A k \in 1..(e - f) : new[k] = out[k]
      /\ \A k \in 1..(b - e) : new[e - f + k] = tail[k]
  <2>1. /\ Len(out \o tail) = Len(out) + Len(tail)
        /\ \A k \in 1..Len(out) : (out \o tail)[k] = out[k]
        /\ \A k \in 1..Len(tail) : (out \o tail)[Len(out) + k] = tail[k]
    BY <1>0, <1>4, ConcatIs
  <2> QED
    BY <1>0, <1>4, <1>5, <2>1
<1>7. /\ e - f + (b - e) = b - f
      /\ \A m \in f..(e - 1) : m - f + 1 \in 1..(e - f)
      /\ \A m \in e..(b - 1) : /\ m - e + 1 \in 1..(b - e)
                               /\ e - f + (m - e + 1) = m - f + 1
                               /\ e - a + (m - e + 1) = m - a + 1
  BY <1>0, Shifted
<1>8. \A m \in f..(e - 1) : new[m - f + 1] = out[m - f + 1]
  BY <1>6, <1>7
<1>9. ASSUME NEW m \in e..(b - 1) PROVE new[m - f + 1] = d[m - a + 1]
  <2>1. new[e - f + (m - e + 1)] = tail[m - e + 1]
    BY <1>6, <1>7
  <2>2. tail[m - e + 1] = d[e - a + (m - e + 1)]
    BY <1>4, <1>7
  <2> QED
    BY <1>7, <2>1, <2>2
<1> QED
  BY <1>6, <1>7, <1>8, <1>9

(* What has been put together after i rounds, as long as there is no gap.  *)
Filled(q, i, first, x) ==
    /\ first <= x.end /\ Len(x.out) = x.end - first
    /\ \A j \in 1..i : Covers(q[j]) \subseteq first..(x.end - 1)
    /\ \A m \in first..(x.end - 1) : \E j \in 1..i : m \in Covers(q[j])
    /\ \A j \in 1..i : \A m \in Covers(q[j]) : x.out[m - first + 1] = Byte(q[j], m)

(* A place nothing covers, before one of the segments.                     *)
HoleAt(h, S) == (\A s \in S : h \notin Covers(s)) /\ \E s \in S : h < s.seq

Ascending(q, n) ==
    /\ q \in [1..n -> SegmentType]
    /\ \A i, j \in 1..n : i < j => q[i].seq <= q[j].seq
    /\ \A i, j \in 1..n : ~Conflict(q[i], q[j])

(* A segment that adds nothing agrees with what is there, ...              *)
LEMMA FillOld ==
    ASSUME NEW n \in Nat, NEW q, Ascending(q, n), NEW i \in 1..n, NEW x \in StreamType,
           NEW first, first = q[1].seq,
           Filled(q, i - 1, first, x), q[i].seq + Len(q[i].data) <= x.end
    PROVE  Filled(q, i, first, x)
<1>1. /\ q[i] \in SegmentType /\ q[1] \in SegmentType
      /\ q[1].seq <= q[i].seq
  <2>1. 1 \in 1..n /\ (1 < i \/ i = 1)
    OBVIOUS
  <2>2. q[i] \in SegmentType /\ q[1] \in SegmentType
    BY <2>1 DEF Ascending
  <2>3. q[i].seq \in Nat
    BY <2>2, SegmentIs
  <2> QED
    BY <2>1, <2>2, <2>3 DEF Ascending
<1>2. /\ q[i].seq \in Nat /\ Len(q[i].data) \in Nat \ {0} /\ first \in Nat
      /\ Covers(q[i]) = q[i].seq..(q[i].seq + Len(q[i].data) - 1)
      /\ x.end \in Nat
  BY <1>1, SegmentIs DEF StreamType
<1>3. Covers(q[i]) \subseteq first..(x.end - 1)
  <2> DEFINE a == q[i].seq
             L == Len(q[i].data)
             e == x.end
  <2>1. /\ a \in Nat /\ L \in Nat /\ first \in Nat /\ e \in Nat
        /\ first <= a /\ a + L <= e /\ Covers(q[i]) = a..(a + L - 1)
    BY <1>1, <1>2
  <2> HIDE DEF a, L, e
  <2>2. Covers(q[i]) \subseteq first..(e - 1)
    BY <2>1
  <2> QED
    BY <2>2 DEF e
<1>4. ASSUME NEW m \in Covers(q[i]) PROVE x.out[m - first + 1] = Byte(q[i], m)
  <2>1. PICK j \in 1..(i - 1) : m \in Covers(q[j])
    BY <1>3, <1>4 DEF Filled
  <2>2. x.out[m - first + 1] = Byte(q[j], m)
    BY <2>1 DEF Filled
  <2>3. ~Conflict(q[j], q[i])
    BY DEF Ascending
  <2>4. Byte(q[j], m) = Byte(q[i], m)
    BY <1>4, <2>1, <2>3 DEF Conflict
  <2> QED
    BY <2>2, <2>4
<1>5. \A j \in 1..i : j \in 1..(i - 1) \/ j = i
  OBVIOUS
<1>6. 1..(i - 1) \subseteq 1..i
  OBVIOUS
<1> QED
  BY <1>3, <1>4, <1>5, <1>6 DEF Filled

(* ... one that follows or overlaps adds its rest, ...                     *)
LEMMA FillNew ==
    ASSUME NEW n \in Nat, NEW q, Ascending(q, n), NEW i \in 1..n, NEW x \in StreamType,
           NEW first, first = q[1].seq, Filled(q, i - 1, first, x),
           q[i].seq + Len(q[i].data) > x.end, q[i].seq <= x.end
    PROVE  Filled(q, i, first, Extend(x, q[i]))
<1> DEFINE s == q[i]
           a == s.seq
           d == s.data
           b == a + Len(d)
           e == x.end
           out == x.out
           y == Extend(x, s)
           new == y.out
<1>1. s \in SegmentType /\ q[1] \in SegmentType /\ first <= a
  <2>1. 1 \in 1..n /\ (1 < i \/ i = 1)
    OBVIOUS
  <2>2. q[i] \in SegmentType /\ q[1] \in SegmentType
    BY <2>1 DEF Ascending
  <2>3. q[i].seq \in Nat
    BY <2>2, SegmentIs
  <2> QED
    BY <2>1, <2>2, <2>3 DEF Ascending
<1>2. /\ a \in Nat /\ d \in Seq(Bytes) /\ Len(d) \in Nat /\ first \in Nat
      /\ e \in Nat /\ out \in Seq(Bytes)
  BY <1>1, SegmentIs DEF StreamType
<1>3. e < b /\ a <= e /\ Covers(s) = a..(b - 1) /\ b \in Nat
  <2>1. Covers(s) = a..(b - 1)
    BY <1>1, SegmentIs
  <2>2. e < b /\ a <= e
    BY <1>2
  <2>3. b \in Nat
    BY <1>2
  <2> HIDE DEF s, a, b, d, e
  <2> QED
    BY <2>1, <2>2, <2>3
<1>4. new = out \o SubSeq(d, e - a + 1, Len(d)) /\ y.end = b
  BY <1>1, <1>3, ExtendIs
<1>5. first <= e /\ Len(out) = e - first
  BY DEF Filled
<1>6. /\ \A m : Byte(s, m) = d[m - a + 1]
      /\ b = a + Len(d)
  BY DEF Byte
<1>7. /\ \A j \in 1..(i - 1) : Covers(q[j]) \subseteq first..(e - 1)
      /\ \A m \in first..(e - 1) : \E j \in 1..(i - 1) : m \in Covers(q[j])
      /\ \A j \in 1..(i - 1) : \A m \in Covers(q[j]) : out[m - first + 1] = Byte(q[j], m)
  BY DEF Filled
<1> HIDE DEF s, a, b, d, e, out, y, new
<1>8. /\ Len(new) = b - first
      /\ \A m \in first..(e - 1) : new[m - first + 1] = out[m - first + 1]
      /\ \A m \in e..(b - 1) : new[m - first + 1] = d[m - a + 1]
  <2>1. Appends(out, d, first, a, e, b, new)
    BY <1>1, <1>2, <1>3, <1>4, <1>5, <1>6 DEF Appends
  <2> QED
    BY <2>1, Appended
<1>9. /\ \A j \in 1..i : j \in 1..(i - 1) \/ j = i
      /\ 1..(i - 1) \subseteq 1..i /\ i \in 1..i
  OBVIOUS
<1>10. /\ first..(e - 1) \subseteq first..(b - 1) /\ a..(b - 1) \subseteq first..(b - 1)
       /\ \A m \in first..(b - 1) : m \in first..(e - 1) \/ m \in e..(b - 1)
       /\ \A m \in e..(b - 1) : m \in a..(b - 1) /\ m \notin first..(e - 1)
       /\ first <= b
  <2>1. \A f, g, h, c \in Nat : f <= g /\ g <= h /\ h < c =>
            /\ f..(h - 1) \subseteq f..(c - 1) /\ g..(c - 1) \subseteq f..(c - 1)
            /\ \A m \in f..(c - 1) : m \in f..(h - 1) \/ m \in h..(c - 1)
            /\ \A m \in h..(c - 1) : m \in g..(c - 1) /\ m \notin f..(h - 1)
            /\ f <= c
    OBVIOUS
  <2> QED
    BY <1>1, <1>2, <1>3, <2>1
<1>11. ASSUME NEW j \in 1..i PROVE Covers(q[j]) \subseteq first..(b - 1)
  <2>1. CASE j \in 1..(i - 1)
    BY <1>7, <1>10, <2>1
  <2>2. CASE j = i
    BY <1>3, <1>10, <2>2 DEF s
  <2> QED
    BY <1>9, <2>1, <2>2
<1>12. ASSUME NEW m \in first..(b - 1) PROVE \E j \in 1..i : m \in Covers(q[j])
  <2>1. CASE m \in first..(e - 1)
    BY <1>7, <1>9, <2>1
  <2>2. CASE m \in e..(b - 1)
    BY <1>3, <1>9, <1>10, <2>2 DEF s
  <2> QED
    BY <1>10, <2>1, <2>2
<1>13. ASSUME NEW j \in 1..i, NEW m \in Covers(q[j])
       PROVE  new[m - first + 1] = Byte(q[j], m)
  <2>1. m \in first..(e - 1) \/ m \in e..(b - 1)
    BY <1>10, <1>11
  <2>2. CASE m \in first..(e - 1)
    <3>1. PICK k \in 1..(i - 1) : m \in Covers(q[k])
      BY <1>7, <2>2
    <3>2. out[m - first + 1] = Byte(q[k], m)
      BY <1>7, <3>1
    <3>3. ~Conflict(q[k], q[j])
      BY DEF Ascending
    <3>4. Byte(q[k], m) = Byte(q[j], m)
      BY <3>1, <3>3 DEF Conflict
    <3> QED
      BY <1>8, <2>2, <3>2, <3>4
  <2>3. CASE m \in e..(b - 1)
    <3>1. j = i
      BY <1>7, <1>9, <1>10, <2>3
    <3> QED
      BY <1>6, <1>8, <2>3, <3>1 DEF s
  <2> QED
    BY <2>1, <2>2, <2>3
<1>14. Filled(q, i, first, y)
  BY <1>4, <1>8, <1>10, <1>11, <1>12, <1>13 DEF Filled, new
<1> QED
  BY <1>14 DEF y, s

(* ... and one that begins later leaves a hole for good.                   *)
LEMMA FillGap ==
    ASSUME NEW n \in Nat, NEW q, Ascending(q, n), NEW i \in 1..n, NEW x \in StreamType,
           NEW first, first = q[1].seq, Filled(q, i - 1, first, x),
           q[i].seq > x.end, NEW S, \A s \in S : \E j \in 1..n : q[j] = s, q[i] \in S
    PROVE  \E h \in Nat : first <= h /\ HoleAt(h, S)
<1>1. x.end \in Nat
  BY DEF StreamType
<1>2. ASSUME NEW s \in S PROVE x.end \notin Covers(s)
  <2>1. PICK j \in 1..n : q[j] = s
    BY <1>2
  <2>2. CASE j < i
    <3>1. Covers(q[j]) \subseteq first..(x.end - 1)
      BY <2>2 DEF Filled
    <3> QED
      BY <1>1, <2>1, <3>1
  <2>3. CASE j >= i
    <3>1. j = i \/ i < j
      BY <2>3
    <3>2. q[i] \in SegmentType /\ q[j] \in SegmentType
      BY DEF Ascending
    <3>3. q[i].seq \in Nat /\ q[j].seq \in Nat /\ Len(q[j].data) \in Nat
      BY <3>2, SegmentIs
    <3>4. x.end < q[j].seq
      BY <1>1, <3>1, <3>3 DEF Ascending
    <3> QED
      BY <1>1, <2>1, <3>3, <3>4 DEF Covers
  <2> QED
    BY <2>2, <2>3
<1>3. first <= x.end
  BY DEF Filled
<1> QED
  BY <1>1, <1>2, <1>3 DEF HoleAt

(* What assemble returns: without a gap, every byte that a segment holds,  *)
(* at its place, and no other; with one, there is a hole.                  *)
Together(S, first, x) ==
    /\ first <= x.end /\ Len(x.out) = x.end - first
    /\ \A s \in S : Covers(s) \subseteq first..(x.end - 1)
    /\ \A m \in first..(x.end - 1) : \E s \in S : m \in Covers(s)
    /\ \A s \in S : \A m \in Covers(s) : x.out[m - first + 1] = Byte(s, m)

(* The loop run to its end, for every set of segments that agree.          *)
LEMMA AssembledIs ==
    ASSUME Agreeing(segments), segments # {}
    PROVE  \E first \in Nat :
              /\ \A s \in segments : first <= s.seq
              /\ \E s \in segments : first = s.seq
              /\ Assembled \in StreamType
              /\ Assembled.gap => \E h \in Nat : first <= h /\ HoleAt(h, segments)
              /\ ~Assembled.gap => Together(segments, first, Assembled)
<1> DEFINE S == segments
           q == Ordered(segments)
           n == Cardinality(segments)
           g == Rounds(q, n)
           first == q[1].seq
<1>1. /\ n \in Nat /\ q \in [1..n -> S] /\ Len(q) = n
      /\ \A i, j \in 1..n : i < j => q[i].seq <= q[j].seq /\ q[i] # q[j]
      /\ \A s \in S : \E i \in 1..n : q[i] = s
  BY OrderedIs
<1>2. Assembled = g[n]
  <2>1. Assembled = Rounds(q, Len(q))[Len(q)]
    BY DEF Assembled, Rounds, AtFirst
  <2> QED
    BY <1>1, <2>1
<1>3. n \in Nat \ {0}
  BY <1>1
<1>4. S \subseteq SegmentType /\ \A s, t \in S : ~Conflict(s, t)
  BY DEF Agreeing
<1> HIDE DEF S, q, n, g
<1>5. Ascending(q, n)
  <2>1. \A i \in 1..n : q[i] \in S
    BY <1>1
  <2>2. q \in [1..n -> SegmentType]
    BY <1>1, <1>4
  <2> QED
    BY <1>1, <1>4, <2>1, <2>2 DEF Ascending
<1>6. /\ g \in [0..n -> StreamType] /\ g[0] = AtFirst(q)
      /\ \A i \in 1..n : g[i] = Extend(g[i - 1], q[i])
  BY <1>3, <1>5, RoundsAre DEF Ascending, g
<1>7. 1 \in 1..n /\ q[1] \in SegmentType /\ first \in Nat
  BY <1>3, <1>5, SegmentIs DEF Ascending
<1> DEFINE Hole == \E h \in Nat : first <= h /\ HoleAt(h, S)
           B == {i \in 0..n : IF g[i].gap THEN Hole ELSE Filled(q, i, first, g[i])}
<1>8. 0 \in B
  <2>1. AtFirst(q) = [out |-> <<>>, end |-> first, gap |-> FALSE]
    BY DEF AtFirst
  <2>2. Filled(q, 0, first, AtFirst(q))
    BY <1>7, <2>1 DEF Filled
  <2>3. ~g[0].gap /\ Filled(q, 0, first, g[0])
    BY <1>6, <2>1, <2>2
  <2> HIDE DEF first
  <2> QED
    BY <1>1, <2>3
<1>9. ASSUME NEW i \in 1..n, i - 1 \in B PROVE i \in B
  <2> DEFINE x == g[i - 1]
             s == q[i]
  <2>1. /\ x \in StreamType /\ s \in SegmentType /\ s \in S /\ i \in 0..n
        /\ g[i] = Extend(x, s)
    BY <1>1, <1>5, <1>6, <1>9 DEF Ascending
  <2>2. x.end \in Nat /\ x.gap \in BOOLEAN /\ s.seq \in Nat /\ Len(s.data) \in Nat
    BY <2>1, SegmentIs DEF StreamType
  <2> HIDE DEF first
  <2>3. IF x.gap THEN Hole ELSE Filled(q, i - 1, first, x)
    BY <1>9
  <2>4. first = q[1].seq
    BY DEF first
  <2> SUFFICES IF g[i].gap THEN Hole ELSE Filled(q, i, first, g[i])
    BY <2>1
  <2> HIDE DEF Hole, B
  <2>5. CASE s.seq + Len(s.data) <= x.end
    <3>1. g[i] = x
      BY <2>1, <2>5, ExtendIs
    <3>2. CASE x.gap
      BY <2>3, <3>1, <3>2
    <3>3. CASE ~x.gap
      <4>1. Filled(q, i, first, x)
        BY <1>1, <1>5, <2>1, <2>3, <2>4, <2>5, <3>3, FillOld
      <4> QED
        BY <3>1, <3>3, <4>1
    <3> QED
      BY <3>2, <3>3
  <2>6. CASE s.seq + Len(s.data) > x.end /\ s.seq <= x.end
    <3>1. g[i].gap = x.gap
      <4> HIDE DEF x, s
      <4>1. Extend(x, s).gap = x.gap
        BY <2>1, <2>2, <2>6, ExtendIs
      <4> QED
        BY <2>1, <4>1
    <3>2. CASE x.gap
      BY <2>3, <3>1, <3>2
    <3>3. CASE ~x.gap
      <4>1. Filled(q, i - 1, first, x)
        BY <2>3, <3>3
      <4>2. Filled(q, i, first, Extend(x, q[i]))
        BY <1>1, <1>5, <2>1, <2>4, <2>6, <4>1, FillNew
      <4>3. Filled(q, i, first, g[i])
        BY <2>1, <4>2
      <4> QED
        BY <3>1, <3>3, <4>3
    <3> QED
      BY <3>2, <3>3
  <2>7. CASE s.seq > x.end
    <3>1. g[i].gap = TRUE
      <4> HIDE DEF x, s
      <4>1. Extend(x, s).gap = TRUE
        BY <2>1, <2>2, <2>7, ExtendIs
      <4> QED
        BY <2>1, <4>1
    <3>2. CASE x.gap
      BY <2>3, <3>1, <3>2
    <3>3. CASE ~x.gap
      <4>1. Hole
        BY <1>1, <1>5, <2>1, <2>3, <2>4, <2>7, <3>3, FillGap DEF Hole
      <4> QED
        BY <3>1, <4>1
    <3> QED
      BY <3>2, <3>3
  <2> QED
    BY <2>2, <2>5, <2>6, <2>7
<1>10. n \in B
  <2>1. \A i \in 1..n : i - 1 \in B => i \in B
    BY <1>9
  <2> HIDE DEF B
  <2>2. \A i \in 0..n : i \in B
    BY <1>1, <1>8, <2>1, UpTo
  <2> QED
    BY <1>1, <2>2
<1>11. Assembled \in StreamType
  BY <1>1, <1>2, <1>6
<1>12. Assembled.gap => Hole
  <2> HIDE DEF Hole
  <2> QED
    BY <1>2, <1>10
<1>13. ASSUME ~Assembled.gap PROVE Together(S, first, Assembled)
  <2> HIDE DEF first, Hole
  <2>1. Filled(q, n, first, g[n])
    BY <1>2, <1>10, <1>13
  <2>2. \A i \in 1..n : q[i] \in S
    BY <1>1
  <2> HIDE DEF B
  <2> QED
    BY <1>1, <1>2, <2>1, <2>2 DEF Filled, Together
<1>14. \A s \in S : first <= s.seq
  <2> TAKE s \in S
  <2>1. PICK i \in 1..n : q[i] = s
    BY <1>1
  <2>2. i = 1 \/ 1 < i
    OBVIOUS
  <2> QED
    BY <1>1, <1>7, <2>1, <2>2
<1>15. \E s \in S : first = s.seq
  BY <1>1, <1>7
<1> HIDE DEF first, Hole, B
<1> QED
  BY <1>7, <1>11, <1>12, <1>13, <1>14, <1>15 DEF S, Hole

-----------------------------------------------------------------------------
(* Sequence numbers that do not come back to 0 within the response: the    *)
(* code compares them as they are.                                         *)
NoWrap == \A s \in Starts : s + Length <= Modulus

IsPacket(p) == p[1] \in Positions /\ p[2] \in p[1]..(Length - 1)

(* The segment of a packet lies where the packet does in the response.     *)
LEMMA SegmentOf ==
    ASSUME NoWrap, start \in Starts, NEW p, IsPacket(p), NEW whole \in BOOLEAN
    PROVE  LET s == Segment(p, whole) IN
           /\ s \in SegmentType /\ s.seq = start + p[1] /\ Len(s.data) = p[2] - p[1] + 1
           /\ Covers(s) = (start + p[1])..(start + p[2])
           /\ \A n \in Covers(s) : Byte(s, n) = IF whole THEN n - start ELSE Damage
           /\ \A k \in DOMAIN s.data :
                  s.data[k] = IF whole THEN s.seq + k - 1 - start ELSE Damage
<1> DEFINE s == Segment(p, whole)
           L == p[2] - p[1] + 1
           d == [k \in 1..L |-> IF whole THEN p[1] + k - 1 ELSE Damage]
<1>1. /\ Length \in Nat /\ p[1] \in Nat /\ p[2] \in Nat /\ p[1] <= p[2] /\ p[2] < Length
      /\ start \in Nat /\ Modulus \in Nat /\ start + Length <= Modulus
  BY ChannelAssumption DEF NoWrap, IsPacket, Positions
<1>2. (start + p[1]) % Modulus = start + p[1]
  <2>1. \A a \in Nat, m \in Nat : a < m => a % m = a
    OBVIOUS
  <2>2. start + p[1] \in Nat /\ start + p[1] < Modulus
    BY <1>1
  <2> QED
    BY <1>1, <2>1, <2>2
<1>3. s.seq = start + p[1] /\ s.data = d /\ s = [seq |-> start + p[1], data |-> d]
  BY <1>2 DEF Segment
<1>4. L \in Nat \ {0}
  BY <1>1
<1>5. \A k \in 1..L : (IF whole THEN p[1] + k - 1 ELSE Damage) \in Bytes
  BY <1>1 DEF Bytes, Damage
<1> HIDE DEF L
<1>6. d \in Seq(Bytes) /\ Len(d) = L /\ DOMAIN d = 1..L /\ d # <<>>
      /\ \A k \in 1..L : d[k] = IF whole THEN p[1] + k - 1 ELSE Damage
  <2>1. d \in [1..L -> Bytes]
    BY <1>5
  <2>2. DOMAIN d = 1..L /\ \A k \in 1..L : d[k] = IF whole THEN p[1] + k - 1 ELSE Damage
    OBVIOUS
  <2> HIDE DEF d
  <2>3. d \in Seq(Bytes) /\ Len(d) = L
    BY <1>4, <2>1
  <2> QED
    BY <1>4, <2>2, <2>3
<1> HIDE DEF d
<1>7. s \in SegmentType
  <2>1. start + p[1] \in Nat
    BY <1>1
  <2> HIDE DEF s
  <2> QED
    BY <1>3, <1>6, <2>1 DEF SegmentType
<1> HIDE DEF s
<1>8. Covers(s) = (start + p[1])..(start + p[2])
  <2>1. (start + p[1]) + L - 1 = start + p[2]
    BY <1>1 DEF L
  <2> QED
    BY <1>3, <1>6, <2>1 DEF Covers
<1>9. ASSUME NEW n \in Covers(s)
      PROVE  Byte(s, n) = IF whole THEN n - start ELSE Damage
  <2>1. n \in Int /\ start + p[1] <= n /\ n <= start + p[2]
    BY <1>1, <1>8
  <2>2. n - (start + p[1]) + 1 \in 1..L /\ p[1] + (n - (start + p[1]) + 1) - 1 = n - start
    BY <1>1, <2>1 DEF L
  <2>3. Byte(s, n) = d[n - (start + p[1]) + 1]
    BY <1>3 DEF Byte
  <2> QED
    BY <1>6, <2>2, <2>3
<1>10. ASSUME NEW k \in DOMAIN s.data
       PROVE  s.data[k] = IF whole THEN s.seq + k - 1 - start ELSE Damage
  <2>1. k \in 1..L /\ k \in Int
    BY <1>3, <1>6
  <2>2. p[1] + k - 1 = s.seq + k - 1 - start
    BY <1>1, <1>3, <2>1
  <2> QED
    BY <1>3, <1>6, <2>1, <2>2
<1> QED
  BY <1>3, <1>6, <1>7, <1>8, <1>9, <1>10 DEF s, L

-----------------------------------------------------------------------------
(* The invariant. Nothing is held but what has been captured, every byte   *)
(* of it agrees, and only damage makes a conflict.                         *)
Taken == {Segment(p, TRUE) : p \in captured} \cup {Segment(p, FALSE) : p \in damaged}

CTypes ==
    /\ start \in Starts /\ packets \in Segmentations
    /\ framing \in Framings /\ encoding \in Encodings
    /\ captured \subseteq packets /\ damaged \subseteq packets
    /\ outcome \in {"capturing", "parsed", "kept", "failed"}

Holds == outcome # "failed" => segments = Taken /\ Agreeing(segments)
Reasons ==
    /\ outcome = "capturing" => reason = "none"
    /\ damaged = {} => reason # "conflict"

Promises == WholeParsed /\ ParsedWhole /\ DamageSeen /\ NeverSilent /\ GapHonest

CInv == CTypes /\ Holds /\ Reasons /\ Promises

(* Every packet is a stretch of the response.                              *)
LEMMA PacketIs ==
    ASSUME CTypes
    PROVE  /\ \A p \in packets : IsPacket(p)
           /\ \A p \in captured \cup damaged : IsPacket(p)
BY ChannelAssumption DEF CTypes, IsPacket

(* A damaged packet and one captured whole never overlap.                  *)
LEMMA HeldApart ==
    ASSUME NoWrap, CTypes, Holds, outcome # "failed", NEW p \in damaged
    PROVE  p[1]..p[2] \cap At(captured) = {}
<1> SUFFICES ASSUME NEW m \in p[1]..p[2], m \in At(captured) PROVE FALSE
  OBVIOUS
<1>1. PICK r \in captured : m \in r[1]..r[2]
  BY DEF At
<1> DEFINE s == Segment(p, FALSE)
           t == Segment(r, TRUE)
<1>2. IsPacket(p) /\ IsPacket(r) /\ start \in Starts
  BY PacketIs DEF CTypes
<1>3. /\ Covers(s) = (start + p[1])..(start + p[2])
      /\ \A n \in Covers(s) : Byte(s, n) = Damage
  BY <1>2, SegmentOf
<1>4. /\ Covers(t) = (start + r[1])..(start + r[2])
      /\ \A n \in Covers(t) : Byte(t, n) = n - start
  BY <1>2, SegmentOf
<1>5. /\ start \in Nat /\ Length \in Nat /\ p[1] \in Nat /\ p[2] \in Nat
      /\ r[1] \in Nat /\ r[2] \in Nat /\ r[2] < Length /\ m \in Nat /\ m <= r[2]
  BY <1>1, <1>2, ChannelAssumption DEF IsPacket, Positions
<1>6. s \in Taken /\ t \in Taken
  BY DEF Taken
<1>7. ~Conflict(s, t)
  BY <1>6 DEF Holds, Agreeing
<1> HIDE DEF s, t
<1> DEFINE n == start + m
<1>8. n \in Covers(s) /\ n \in Covers(t)
  <2>1. m \in p[1]..p[2] /\ m \in r[1]..r[2]
    BY <1>1
  <2>2. /\ n \in (start + p[1])..(start + p[2])
        /\ n \in (start + r[1])..(start + r[2])
    BY <1>5, <2>1
  <2> QED
    BY <1>3, <1>4, <2>2
<1>9. n - start = m
  BY <1>5
<1> HIDE DEF n
<1>11. Byte(s, n) = Length /\ Byte(t, n) = m
  BY <1>3, <1>4, <1>8, <1>9 DEF Damage
<1>10. m # Length
  BY <1>5
<1> QED
  BY <1>7, <1>8, <1>10, <1>11 DEF Conflict

-----------------------------------------------------------------------------
(* Sequences of bytes are equal that have the same bytes.                  *)
LEMMA SameBytes ==
    ASSUME NEW u \in Seq(Bytes), NEW v \in Seq(Bytes), Len(u) = Len(v),
           \A j \in 1..Len(v) : u[j] = v[j]
    PROVE  u = v
OBVIOUS

(* What is found in a sequence of bytes.                                   *)
IsAt(d, w, k) ==
    /\ d \in Seq(Bytes) /\ w \in Seq(Bytes) /\ k \in 1..(Len(d) - Len(w) + 1)
    /\ \A j \in 1..Len(w) : d[k + j - 1] = w[j]

(* A word that stands at k is found.                                       *)
LEMMA HasAt ==
    ASSUME NEW d, NEW w, NEW k, IsAt(d, w, k)
    PROVE  Has(d, w)
<1> DEFINE L == Len(w)
           c == SubSeq(d, k, k + L - 1)
<1>0. /\ d \in Seq(Bytes) /\ w \in Seq(Bytes) /\ k \in 1..(Len(d) - Len(w) + 1)
      /\ \A j \in 1..Len(w) : d[k + j - 1] = w[j]
  BY DEF IsAt
<1>1. L \in Nat /\ k \in Nat /\ 1 <= k /\ k + L - 1 <= Len(d) /\ Len(d) \in Nat
      /\ (k + L - 1) - k + 1 = L
  BY <1>0
<1>2. Len(c) = L /\ DOMAIN c = 1..L
  BY <1>1
<1>3. \A j \in 1..L : c[j] = d[k + j - 1]
  BY <1>1
<1>4. c = w
  <2>1. c \in Seq(Bytes)
    <3>1. \A j \in 1..Len(d) : d[j] \in Bytes
      BY <1>0
    <3> QED
      BY <1>0, <1>1, <3>1
  <2>2. DOMAIN w = 1..L /\ Len(w) = L
    BY <1>0
  <2>3. \A j \in 1..L : c[j] = w[j]
    BY <1>0, <1>3
  <2> HIDE DEF c, L
  <2>4. w \in Seq(Bytes) /\ Len(c) = Len(w) /\ \A j \in 1..Len(w) : c[j] = w[j]
    BY <1>0, <1>2, <2>2, <2>3
  <2> QED
    BY <2>1, <2>4, SameBytes
<1> QED
  BY <1>0, <1>4 DEF Has

(* The marker, and the marker with its argument.                           *)
LEMMA WordsAre ==
    /\ Marker \in Seq(Bytes) /\ Len(Marker) = 3
    /\ \A j \in 1..3 : Marker[j] = MarkerAt + j - 1
    /\ Marker \o <<Argument>> \in Seq(Bytes) /\ Len(Marker \o <<Argument>>) = 4
    /\ \A j \in 1..4 : (Marker \o <<Argument>>)[j] = MarkerAt + j - 1
    /\ MarkerAt \in Nat \ {0} /\ Length \in Nat /\ MarkerAt + 3 < Length
<1>1. MarkerAt \in Nat \ {0} /\ Length \in Nat /\ MarkerAt + 3 < Length
  BY ChannelAssumption DEF Argument, Positions
<1>2. {MarkerAt, MarkerAt + 1, MarkerAt + 2, MarkerAt + 3} \subseteq Bytes
  BY <1>1 DEF Bytes
<1>3. Marker \in Seq(Bytes) /\ Len(Marker) = 3 /\ \A j \in 1..3 : Marker[j] = MarkerAt + j - 1
  BY <1>1, <1>2 DEF Marker
<1>4. <<Argument>> \in Seq(Bytes) /\ Len(<<Argument>>) = 1 /\ <<Argument>>[1] = MarkerAt + 3
  BY <1>1, <1>2 DEF Argument
<1> DEFINE a == <<Argument>>
           w == Marker \o a
<1> HIDE DEF a
<1>5. a \in Seq(Bytes) /\ Len(a) = 1 /\ a[1] = MarkerAt + 3
  BY <1>4 DEF a
<1>6. /\ w \in Seq(Bytes) /\ Len(w) = 3 + 1
      /\ \A j \in 1..3 : w[j] = Marker[j]
      /\ \A j \in 1..1 : w[3 + j] = a[j]
  <2> DEFINE u == Marker
  <2>1. u \in Seq(Bytes) /\ Len(u) = 3 /\ w = u \o a
    BY <1>3
  <2> HIDE DEF u, w
  <2>2. /\ u \o a \in Seq(Bytes) /\ Len(u \o a) = Len(u) + Len(a)
        /\ \A k \in 1..Len(u) : (u \o a)[k] = u[k]
        /\ \A k \in 1..Len(a) : (u \o a)[Len(u) + k] = a[k]
    BY <1>5, <2>1, ConcatIs
  <2> QED
    BY <1>5, <2>1, <2>2 DEF u
<1> HIDE DEF w
<1>7. \A j \in 1..4 : w[j] = MarkerAt + j - 1
  <2> TAKE j \in 1..4
  <2>1. CASE j \in 1..3
    BY <1>3, <1>6, <2>1
  <2>2. CASE j = 4
    <3>1. w[3 + 1] = a[1]
      BY <1>6
    <3> QED
      BY <1>1, <1>5, <2>2, <3>1
  <2> QED
    BY <2>1, <2>2
<1> QED
  BY <1>1, <1>3, <1>6, <1>7 DEF w, a

(* A run of the positions from f on.                                       *)
IsRun(d, f, e) ==
    /\ d \in Seq(Bytes) /\ f \in Nat /\ e \in Nat /\ f <= e /\ Len(d) = e - f
    /\ \A m \in f..(e - 1) : d[m - f + 1] = m

(* A run that goes from before the marker to behind it has it.             *)
LEMMA RunHas ==
    ASSUME NEW d, NEW f, NEW e, IsRun(d, f, e), f <= MarkerAt
    PROVE  /\ MarkerAt + 2 < e => Has(d, Marker)
           /\ MarkerAt + 3 < e => Has(d, Marker \o <<Argument>>)
<1>1. /\ d \in Seq(Bytes) /\ f \in Nat /\ e \in Nat /\ Len(d) = e - f
      /\ \A m \in f..(e - 1) : d[m - f + 1] = m
  BY DEF IsRun
<1> DEFINE k == MarkerAt - f + 1
<1>2. ASSUME NEW n \in Nat, MarkerAt + n - 1 < e, n > 0
      PROVE  k \in 1..(Len(d) - n + 1) /\ \A j \in 1..n : d[k + j - 1] = MarkerAt + j - 1
  <2>1. k \in 1..(Len(d) - n + 1)
    BY <1>1, <1>2, WordsAre
  <2>2. ASSUME NEW j \in 1..n PROVE d[k + j - 1] = MarkerAt + j - 1
    <3>1. MarkerAt + j - 1 \in f..(e - 1) /\ k + j - 1 = (MarkerAt + j - 1) - f + 1
      BY <1>1, <1>2, WordsAre
    <3> QED
      BY <1>1, <3>1
  <2> QED
    BY <2>1, <2>2
<1>3. MarkerAt + 3 - 1 = MarkerAt + 2 /\ MarkerAt + 4 - 1 = MarkerAt + 3
  BY WordsAre
<1>4. ASSUME MarkerAt + 2 < e PROVE Has(d, Marker)
  <2>1. 3 \in Nat /\ 3 > 0 /\ MarkerAt + 3 - 1 < e
    BY <1>3, <1>4
  <2>2. k \in 1..(Len(d) - 3 + 1) /\ \A j \in 1..3 : d[k + j - 1] = MarkerAt + j - 1
    BY <1>2, <2>1
  <2> HIDE DEF k
  <2>3. IsAt(d, Marker, k)
    BY <1>1, <2>2, WordsAre DEF IsAt
  <2> QED
    BY <2>3, HasAt
<1>5. ASSUME MarkerAt + 3 < e PROVE Has(d, Marker \o <<Argument>>)
  <2> DEFINE w == Marker \o <<Argument>>
  <2>1. 4 \in Nat /\ 4 > 0 /\ MarkerAt + 4 - 1 < e
    BY <1>3, <1>5
  <2>2. k \in 1..(Len(d) - 4 + 1) /\ \A j \in 1..4 : d[k + j - 1] = MarkerAt + j - 1
    BY <1>2, <2>1
  <2>3. w \in Seq(Bytes) /\ Len(w) = 4 /\ \A j \in 1..4 : w[j] = MarkerAt + j - 1
    BY WordsAre
  <2> HIDE DEF k, w
  <2>4. IsAt(d, w, k)
    BY <1>1, <2>2, <2>3 DEF IsAt
  <2>5. Has(d, w)
    BY <2>4, HasAt
  <2> QED
    BY <2>5 DEF w
<1> QED
  BY <1>4, <1>5

(* Where the header is, and what follows it.                               *)
LEMMA RunFound ==
    ASSUME NEW d, NEW f, NEW e, IsRun(d, f, e), f <= MarkerAt, MarkerAt + 2 < e
    PROVE  /\ encoding = "identity" => Found(d) # "kept"
           /\ f = 0 /\ e = Length => Found(d) = "parsed"
<1>1. /\ d \in Seq(Bytes) /\ f \in Nat /\ e \in Nat /\ Len(d) = e - f /\ DOMAIN d = 1..(e - f)
      /\ \A m \in f..(e - 1) : d[m - f + 1] = m
  BY DEF IsRun
<1>2. \A k \in DOMAIN d : d[k] = k - 1 + f
  <2> TAKE k \in DOMAIN d
  <2>1. k - 1 + f \in f..(e - 1) /\ (k - 1 + f) - f + 1 = k
    BY <1>1
  <2> QED
    BY <1>1, <2>1
<1>3. Has(d, Marker)
  BY RunHas
<1>4. CASE f # 0
  <2>1. ~\E k \in DOMAIN d : d[k] = 0
    BY <1>1, <1>2, <1>4
  <2> QED
    BY <1>3, <1>4, <2>1 DEF Found, Shows
<1>5. CASE f = 0
  <2> DEFINE b == SubSeq(d, 2, Len(d))
  <2>1. 1 \in DOMAIN d /\ \A k \in DOMAIN d : d[k] = 0 <=> k = 1
    BY <1>1, <1>2, <1>5, WordsAre
  <2>2. (CHOOSE k \in DOMAIN d : d[k] = 0) = 1
    BY <2>1
  <2>3. Found(d) = Parse(b)
    BY <2>1, <2>2 DEF Found
  <2>4. IsRun(b, 1, e)
    <3>1. 2 \in 1..Len(d)
      BY <1>1, <1>5, WordsAre
    <3>2. /\ b \in Seq(Bytes) /\ Len(b) = Len(d) - 2 + 1
          /\ \A j \in 1..(Len(d) - 2 + 1) : b[j] = d[2 + j - 1]
      BY <1>1, <3>1, TailIs
    <3> HIDE DEF b
    <3>3. Len(b) = e - 1 /\ 1 <= e
      BY <1>1, <1>5, <3>1, <3>2
    <3>4. ASSUME NEW m \in 1..(e - 1) PROVE b[m - 1 + 1] = m
      <4>1. m \in 1..(Len(d) - 2 + 1) /\ m - 1 + 1 = m /\ 2 + m - 1 = m + 1 /\ m + 1 \in DOMAIN d
        BY <1>1, <1>5
      <4>2. d[m + 1] = m
        BY <1>2, <1>5, <4>1
      <4> QED
        BY <3>2, <4>1, <4>2
    <3> QED
      BY <1>1, <3>2, <3>3, <3>4 DEF IsRun
  <2> HIDE DEF b
  <2>5. Has(b, Marker) /\ (e = Length => Has(b, Marker \o <<Argument>>))
    BY <2>4, RunHas, WordsAre
  <2>6. Len(b) \in Nat /\ Len(b) = e - 1
    BY <2>4 DEF IsRun
  <2>7. encoding = "identity" => Parse(b) # "kept"
    BY <2>5 DEF Parse, Shows
  <2>8. e = Length => Parse(b) = "parsed"
    <3> SUFFICES ASSUME e = Length PROVE Parse(b) = "parsed"
      OBVIOUS
    <3>1. Len(b) >= Length - 1
      BY <2>6, WordsAre
    <3>2. b = Compressed
      <4>1. /\ Length \in Nat /\ b \in Seq(Bytes) /\ Len(b) = Length - 1
            /\ \A m \in 1..(Length - 1) : b[m - 1 + 1] = m
        BY <2>4, <2>6, WordsAre DEF IsRun
      <4>2. DOMAIN b = 1..(Length - 1) /\ \A m \in 1..(Length - 1) : b[m] = m
        BY <4>1
      <4>3. b = [m \in DOMAIN b |-> b[m]]
        BY <4>1
      <4> QED
        BY <4>2, <4>3 DEF Compressed
    <3> HIDE DEF Compressed
    <3> QED
      BY <2>5, <3>1, <3>2 DEF Parse
  <2> QED
    BY <2>3, <2>7, <2>8
<1> QED
  BY <1>4, <1>5

(* A body is only parsed when it is whole, if it says how long it is.      *)
LEMMA FoundWhole ==
    ASSUME NEW d \in Seq(Bytes), Found(d) = "parsed", framing \in Framings, framing # "close"
    PROVE  Len(d) >= Length
<1>1. Length \in Nat /\ framing \in {"length", "chunked"}
  BY ChannelAssumption
<1>2. \E k \in DOMAIN d : d[k] = 0
  BY DEF Found
<1> DEFINE k == CHOOSE k \in DOMAIN d : d[k] = 0
           b == SubSeq(d, k + 1, Len(d))
<1>3. k \in DOMAIN d /\ Parse(b) = "parsed"
  BY <1>2 DEF Found
<1> HIDE DEF k
<1>4. Len(b) >= Length - 1
  <2> HIDE DEF b
  <2> QED
    BY <1>1, <1>3 DEF Parse
<1>5. k \in 1..Len(d) /\ Len(d) \in Nat
  BY <1>3
<1>6. Len(b) = Len(d) - k
  <2>1. CASE k = Len(d)
    BY <1>5, <2>1
  <2>2. CASE k # Len(d)
    <3>1. k + 1 \in 1..Len(d) /\ Len(d) - (k + 1) + 1 = Len(d) - k
      BY <1>5, <2>2
    <3> QED
      BY <3>1, TailIs
  <2> QED
    BY <2>1, <2>2
<1> QED
  BY <1>1, <1>4, <1>5, <1>6

-----------------------------------------------------------------------------
(* What is held, by packet.                                                *)
LEMMA HeldIs ==
    ASSUME NoWrap, CTypes, Holds, outcome # "failed"
    PROVE  /\ start \in Nat /\ Length \in Nat
           /\ \A s \in segments : \E p \in captured \cup damaged :
                  s.seq = start + p[1] /\ Covers(s) = (start + p[1])..(start + p[2])
           /\ \A p \in captured \cup damaged : \E s \in segments :
                  s.seq = start + p[1] /\ Covers(s) = (start + p[1])..(start + p[2])
           /\ \A p \in captured : \E s \in segments :
                  /\ s.seq = start + p[1] /\ Covers(s) = (start + p[1])..(start + p[2])
                  /\ \A n \in Covers(s) : Byte(s, n) = n - start
           /\ \A p \in captured \cup damaged :
                  p[1] \in Nat /\ p[2] \in Nat /\ p[1] <= p[2] /\ p[2] < Length
<1>1. start \in Starts /\ segments = Taken
  BY DEF CTypes, Holds
<1>2. start \in Nat /\ Length \in Nat
  BY <1>1, ChannelAssumption
<1>3. \A p \in captured \cup damaged : IsPacket(p)
  BY PacketIs
<1>4. \A p \in captured \cup damaged :
          p[1] \in Nat /\ p[2] \in Nat /\ p[1] <= p[2] /\ p[2] < Length
  BY <1>2, <1>3 DEF IsPacket, Positions
<1>5. \A p \in captured : LET s == Segment(p, TRUE) IN
          /\ s \in segments /\ s.seq = start + p[1] /\ Covers(s) = (start + p[1])..(start + p[2])
          /\ \A n \in Covers(s) : Byte(s, n) = n - start
  BY <1>1, <1>3, SegmentOf DEF Taken
<1>6. \A p \in damaged : LET s == Segment(p, FALSE) IN
          s \in segments /\ s.seq = start + p[1] /\ Covers(s) = (start + p[1])..(start + p[2])
  BY <1>1, <1>3, SegmentOf DEF Taken
<1>7. \A s \in segments :
          (\E p \in captured : s = Segment(p, TRUE)) \/ (\E p \in damaged : s = Segment(p, FALSE))
  BY <1>1 DEF Taken
<1>8. \A s \in segments : \E p \in captured \cup damaged :
          s.seq = start + p[1] /\ Covers(s) = (start + p[1])..(start + p[2])
  BY <1>5, <1>6, <1>7
<1> QED
  BY <1>2, <1>4, <1>5, <1>6, <1>8

(* A gap is a position no packet covers.                                   *)
LEMMA GapIsReal ==
    ASSUME NoWrap, CTypes, Holds, outcome # "failed", segments # {}, Assembled.gap
    PROVE  At(captured \cup damaged) # Positions /\ At(captured) # Positions
<1>1. Agreeing(segments)
  BY DEF Holds
<1>2. PICK first \in Nat : /\ \E s \in segments : first = s.seq
                           /\ \E h \in Nat : first <= h /\ HoleAt(h, segments)
  BY <1>1, AssembledIs
<1>3. PICK h \in Nat : first <= h /\ HoleAt(h, segments)
  BY <1>2
<1>4. PICK p \in captured \cup damaged : first = start + p[1]
  BY <1>2, HeldIs
<1>5. PICK s \in segments : h < s.seq
  BY <1>3 DEF HoleAt
<1>6. PICK r \in captured \cup damaged : s.seq = start + r[1]
  BY HeldIs
<1>7. h - start \in Positions
  <2>1. /\ start \in Nat /\ Length \in Nat /\ p[1] \in Nat
        /\ r[1] \in Nat /\ r[2] \in Nat /\ r[1] <= r[2] /\ r[2] < Length
    BY HeldIs
  <2>2. start + p[1] <= h /\ h < start + r[1]
    BY <1>3, <1>4, <1>5, <1>6
  <2> QED
    BY <2>1, <2>2 DEF Positions
<1>8. h - start \notin At(captured \cup damaged)
  <2> SUFFICES ASSUME NEW t \in captured \cup damaged, h - start \in t[1]..t[2] PROVE FALSE
    BY DEF At
  <2>1. PICK u \in segments : Covers(u) = (start + t[1])..(start + t[2])
    BY HeldIs
  <2>2. h \in Covers(u)
    BY <2>1, HeldIs
  <2> QED
    BY <1>3, <2>2 DEF HoleAt
<1>9. At(captured) \subseteq At(captured \cup damaged)
  BY DEF At
<1> QED
  BY <1>7, <1>8, <1>9

(* Without one, the positions captured are a run, each at its place.       *)
LEMMA OutIs ==
    ASSUME NoWrap, CTypes, Holds, outcome # "failed", segments # {}, ~Assembled.gap
    PROVE  \E f, e \in Nat :
              /\ f <= e /\ e <= Length
              /\ Assembled.out \in Seq(Bytes) /\ Len(Assembled.out) = e - f
              /\ At(captured \cup damaged) = f..(e - 1)
              /\ \A m \in At(captured) : Assembled.out[m - f + 1] = m
<1>1. Agreeing(segments)
  BY DEF Holds
<1> DEFINE x == Assembled
<1>2. PICK first \in Nat : /\ \E s \in segments : first = s.seq
                           /\ x \in StreamType
                           /\ Together(segments, first, x)
  BY <1>1, AssembledIs
<1> HIDE DEF x
<1>3. x.out \in Seq(Bytes) /\ x.end \in Nat
  BY <1>2 DEF StreamType
<1>4. /\ first <= x.end /\ Len(x.out) = x.end - first
      /\ \A s \in segments : Covers(s) \subseteq first..(x.end - 1)
      /\ \A m \in first..(x.end - 1) : \E s \in segments : m \in Covers(s)
      /\ \A s \in segments : \A m \in Covers(s) : x.out[m - first + 1] = Byte(s, m)
  BY <1>2 DEF Together
<1>5. PICK p \in captured \cup damaged : first = start + p[1]
  BY <1>2, HeldIs
<1> DEFINE f == first - start
           end == x.end
           e == end - start
<1>6. f \in Nat /\ f < Length /\ end \in Nat /\ e \in Nat /\ f <= e /\ e - f = end - first
      /\ first = start + f /\ end = start + e
  <2>1. /\ start \in Nat /\ Length \in Nat /\ p[1] \in Nat /\ p[1] < Length
    <3>1. p[1] \in Nat /\ p[2] \in Nat /\ p[1] <= p[2] /\ p[2] < Length /\ Length \in Nat
      BY HeldIs
    <3> QED
      BY <3>1, HeldIs
  <2>2. end \in Nat /\ first <= end
    BY <1>3, <1>4
  <2> HIDE DEF end
  <2> QED
    BY <1>5, <2>1, <2>2
<1> HIDE DEF f, e
<1>7. \A r \in captured \cup damaged : \A m \in r[1]..r[2] : m \in f..(e - 1)
  <2> TAKE r \in captured \cup damaged
  <2> TAKE m \in r[1]..r[2]
  <2>1. PICK u \in segments : Covers(u) = (start + r[1])..(start + r[2])
    BY HeldIs
  <2>2. m \in Nat /\ start + m \in Covers(u)
    BY <2>1, HeldIs
  <2>3. start + m \in first..(end - 1)
    BY <1>4, <2>2
  <2>4. start \in Nat
    BY HeldIs
  <2> HIDE DEF end
  <2> QED
    BY <1>6, <2>2, <2>3, <2>4
<1>8. ASSUME NEW m \in f..(e - 1)
      PROVE  \E r \in captured \cup damaged : m \in r[1]..r[2]
  <2>1. start + m \in first..(end - 1) /\ m \in Nat
    <3>1. start \in Nat
      BY HeldIs
    <3> HIDE DEF end
    <3> QED
      BY <1>6, <3>1
  <2>2. PICK u \in segments : start + m \in Covers(u)
    BY <1>4, <2>1
  <2>3. PICK r \in captured \cup damaged : Covers(u) = (start + r[1])..(start + r[2])
    BY HeldIs
  <2>4. m \in r[1]..r[2]
    BY <2>1, <2>2, <2>3, HeldIs
  <2> QED
    BY <2>4
<1>9. e <= Length
  <2> SUFFICES ASSUME e > Length PROVE FALSE
    BY <1>6, HeldIs
  <2>1. e - 1 \in f..(e - 1)
    BY <1>6, HeldIs
  <2>2. PICK r \in captured \cup damaged : e - 1 \in r[1]..r[2]
    BY <1>8, <2>1
  <2>3. r[1] \in Nat /\ r[2] \in Nat /\ r[2] < Length /\ Length \in Nat
    BY HeldIs
  <2> QED
    BY <1>6, <2>2, <2>3
<1>10. At(captured \cup damaged) = f..(e - 1)
  BY <1>7, <1>8 DEF At
<1>11. ASSUME NEW m \in At(captured) PROVE x.out[m - f + 1] = m
  <2>1. PICK r \in captured : m \in r[1]..r[2]
    BY DEF At
  <2>2. PICK u \in segments : /\ Covers(u) = (start + r[1])..(start + r[2])
                              /\ \A n \in Covers(u) : Byte(u, n) = n - start
    BY HeldIs
  <2>3. start \in Nat /\ r[1] \in Nat /\ r[2] \in Nat
    BY HeldIs
  <2>4. m \in Nat /\ start + m \in (start + r[1])..(start + r[2]) /\ (start + m) - start = m
    BY <2>1, <2>3
  <2>5. (start + m) - first + 1 = m - f + 1
    <3> HIDE DEF end
    <3> QED
      BY <1>6, <2>3, <2>4
  <2>6. start + m \in Covers(u)
    BY <2>2, <2>4
  <2>7. x.out[(start + m) - first + 1] = Byte(u, start + m)
    BY <1>4, <2>6
  <2>8. Byte(u, start + m) = (start + m) - start
    <3> DEFINE n == start + m
    <3>1. n \in Covers(u)
      BY <2>6
    <3> HIDE DEF n
    <3>2. Byte(u, n) = n - start
      BY <2>2, <3>1
    <3> QED
      BY <3>2 DEF n
  <2> QED
    BY <2>4, <2>5, <2>7, <2>8
<1>12. Len(x.out) = e - f
  BY <1>4, <1>6
<1> QED
  BY <1>3, <1>6, <1>9, <1>10, <1>11, <1>12 DEF x

-----------------------------------------------------------------------------
(* The segments end to end, as they are searched when there is a gap.      *)
JoinedRounds(q, n) ==
    CHOOSE joined : joined =
        [i \in 0..n |-> IF i = 0 THEN <<>> ELSE joined[i - 1] \o q[i].data]

Strings == Seq(Bytes)
IsRecursion(n, b, H) == n \in Nat /\ b \in Strings /\ H \in [1..n -> [Strings -> Strings]]
IsTable(n, b, H, g) ==
    g \in [0..n -> Strings] /\ g[0] = b /\ \A i \in 1..n : g[i] = H[i][g[i - 1]]

(* Recursion, for strings of bytes.                                        *)
LEMMA StringsRecursion ==
    ASSUME NEW n, NEW b, NEW H, IsRecursion(n, b, H)
    PROVE  \E g : IsTable(n, b, H, g)
<1>1. n \in Nat /\ b \in Strings /\ H \in [1..n -> [Strings -> Strings]]
  BY DEF IsRecursion
<1>2. \E g \in [0..n -> Strings] : g[0] = b /\ \A i \in 1..n : g[i] = H[i][g[i - 1]]
  BY <1>1, Recursion, SMT
<1> QED
  BY <1>2 DEF IsTable

(* The table of the concatenation exists, too.                             *)
LEMMA JoinedRoundsAre ==
    ASSUME NEW n \in Nat \ {0}, NEW q \in [1..n -> SegmentType]
    PROVE  /\ JoinedRounds(q, n)[0] = <<>>
           /\ \A i \in 1..n : JoinedRounds(q, n)[i] = JoinedRounds(q, n)[i - 1] \o q[i].data
<1> DEFINE G == [i \in 1..n |-> [x \in Seq(Bytes) |-> x \o q[i].data]]
<1>1. \A i \in 1..n : q[i].data \in Seq(Bytes)
  BY SegmentIs
<1>2. G \in [1..n -> [Seq(Bytes) -> Seq(Bytes)]]
  BY <1>1, ConcatIs
<1>3. PICK g \in [0..n -> Seq(Bytes)] : g[0] = <<>> /\ \A i \in 1..n : g[i] = G[i][g[i - 1]]
  <2> DEFINE b == <<>>
  <2>1. n \in Nat /\ b \in Strings
    BY DEF Strings
  <2>2. G \in [1..n -> [Strings -> Strings]]
    BY <1>2 DEF Strings
  <2> HIDE DEF G, b
  <2>3. IsRecursion(n, b, G)
    BY <2>1, <2>2 DEF IsRecursion
  <2>4. \E g : IsTable(n, b, G, g)
    BY <2>3, StringsRecursion
  <2> QED
    BY <2>4 DEF IsTable, Strings, b
<1>4. \A i \in 1..n : g[i] = g[i - 1] \o q[i].data
  <2>1. \A i \in 1..n : i - 1 \in 0..n
    OBVIOUS
  <2> QED
    BY <1>3, <2>1
<1>5. g = [i \in 0..n |-> IF i = 0 THEN <<>> ELSE g[i - 1] \o q[i].data]
  <2>1. \A i \in 0..n : g[i] = IF i = 0 THEN <<>> ELSE g[i - 1] \o q[i].data
    <3> TAKE i \in 0..n
    <3>1. CASE i = 0
      BY <1>3, <3>1
    <3>2. CASE i # 0
      <4>1. i \in 1..n
        BY <3>2
      <4> QED
        BY <1>4, <3>2, <4>1
    <3> QED
      BY <3>1, <3>2
  <2> QED
    BY <2>1
<1> DEFINE f == JoinedRounds(q, n)
<1>6. f = [i \in 0..n |-> IF i = 0 THEN <<>> ELSE f[i - 1] \o q[i].data]
  BY <1>5 DEF JoinedRounds
<1> HIDE DEF f
<1>7. 0 \in 0..n /\ \A i \in 1..n : i \in 0..n /\ i # 0
  OBVIOUS
<1>8. f[0] = <<>> /\ \A i \in 1..n : f[i] = f[i - 1] \o q[i].data
  BY <1>6, <1>7, Zenon
<1> QED
  BY <1>8 DEF f

(* Undamaged packets that do not overlap, in order: bytes ascend.          *)
Rising(d) == \A a, b \in 1..Len(d) : a < b => d[a] < d[b]

Apart(q, n, o) ==
    /\ o \in Nat /\ q \in [1..n -> SegmentType]
    /\ \A i, j \in 1..n : i < j => q[i].seq + Len(q[i].data) <= q[j].seq
    /\ \A i \in 1..n : \A k \in 1..Len(q[i].data) : q[i].data[k] = q[i].seq + k - 1 - o

JoinedSoFar(q, i, o, d) ==
    /\ d \in Seq(Bytes) /\ Rising(d)
    /\ \A k \in 1..Len(d) : i > 0 /\ d[k] + o < q[i].seq + Len(q[i].data)
    /\ \A j \in 1..i : \A k \in 1..Len(q[j].data) : \E a \in 1..Len(d) : d[a] = q[j].data[k]

(* Two rising strings make one, if the second begins above the first.      *)
LEMMA RisingAppend ==
    ASSUME NEW d \in Seq(Bytes), NEW t \in Seq(Bytes), Rising(d), Rising(t),
           \A a \in 1..Len(d) : \A b \in 1..Len(t) : d[a] < t[b]
    PROVE  Rising(d \o t)
<1> DEFINE r == d \o t
<1>1. /\ r \in Seq(Bytes) /\ Len(r) = Len(d) + Len(t)
      /\ \A k \in 1..Len(d) : r[k] = d[k]
      /\ \A k \in 1..Len(t) : r[Len(d) + k] = t[k]
  BY ConcatIs
<1> HIDE DEF r
<1>2. Len(d) \in Nat /\ Len(t) \in Nat
  OBVIOUS
<1>3. \A k \in 1..Len(r) : k \in 1..Len(d) \/ k - Len(d) \in 1..Len(t)
  BY <1>1, <1>2
<1>4. \A k \in 1..Len(r) : k - Len(d) \in 1..Len(t) => r[k] = t[k - Len(d)]
  <2> TAKE k \in 1..Len(r)
  <2> HAVE k - Len(d) \in 1..Len(t)
  <2>1. Len(d) + (k - Len(d)) = k
    BY <1>2
  <2> QED
    BY <1>1, <2>1
<1>5. ASSUME NEW a \in 1..Len(r), NEW b \in 1..Len(r), a < b PROVE r[a] < r[b]
  <2>1. CASE b \in 1..Len(d)
    <3>1. a \in 1..Len(d)
      BY <1>2, <1>5, <2>1
    <3> QED
      BY <1>1, <1>5, <2>1, <3>1 DEF Rising
  <2>2. CASE a \in 1..Len(d) /\ b - Len(d) \in 1..Len(t)
    BY <1>1, <1>4, <2>2
  <2>3. CASE a - Len(d) \in 1..Len(t) /\ b - Len(d) \in 1..Len(t)
    <3>1. a - Len(d) < b - Len(d)
      BY <1>2, <1>5
    <3> QED
      BY <1>4, <2>3, <3>1 DEF Rising
  <2> QED
    BY <1>3, <1>2, <1>5, <2>1, <2>2, <2>3
<1>6. Rising(r)
  BY <1>5 DEF Rising
<1> QED
  BY <1>6 DEF r

(* Each round appends bytes above those before.                            *)
LEMMA JoinedStep ==
    ASSUME NEW n \in Nat, NEW q, NEW o, Apart(q, n, o), NEW i \in 1..n, NEW d,
           JoinedSoFar(q, i - 1, o, d)
    PROVE  JoinedSoFar(q, i, o, d \o q[i].data)
<1> DEFINE s == q[i]
           t == s.data
           r == d \o t
<1>1. s \in SegmentType /\ o \in Nat
  BY DEF Apart
<1>2. s.seq \in Nat /\ t \in Seq(Bytes) /\ Len(t) \in Nat \ {0}
  BY <1>1, SegmentIs
<1>3. \A k \in 1..Len(t) : t[k] = s.seq + k - 1 - o
  BY DEF Apart
<1>4. /\ d \in Seq(Bytes) /\ Rising(d) /\ Len(d) \in Nat
      /\ \A k \in 1..Len(d) : i - 1 > 0 /\ d[k] + o < q[i - 1].seq + Len(q[i - 1].data)
      /\ \A j \in 1..(i - 1) : \A k \in 1..Len(q[j].data) : \E a \in 1..Len(d) : d[a] = q[j].data[k]
  BY DEF JoinedSoFar
<1>5. \A k \in 1..Len(d) : d[k] \in Int /\ d[k] + o < s.seq
  <2> TAKE k \in 1..Len(d)
  <2>1. d[k] \in Bytes
    BY <1>4
  <2>2. d[k] \in Nat
    BY <2>1, ChannelAssumption DEF Bytes
  <2>3. i - 1 > 0 /\ d[k] + o < q[i - 1].seq + Len(q[i - 1].data)
    BY <1>4
  <2>4. i - 1 \in 1..n /\ i - 1 < i
    BY <2>3
  <2>5. q[i - 1] \in SegmentType /\ q[i - 1].seq + Len(q[i - 1].data) <= q[i].seq
    BY <2>4 DEF Apart
  <2>6. q[i - 1].seq \in Nat /\ Len(q[i - 1].data) \in Nat
    BY <2>5, SegmentIs
  <2>7. d[k] + o < s.seq
    <3> DEFINE u == q[i - 1].seq
               L == Len(q[i - 1].data)
               v == s.seq
               w == d[k]
    <3>1. /\ u \in Nat /\ L \in Nat /\ v \in Nat /\ w \in Nat /\ o \in Nat
          /\ w + o < u + L /\ u + L <= v
      BY <1>1, <1>2, <2>2, <2>3, <2>5, <2>6
    <3> HIDE DEF u, L, v, w
    <3>2. w + o < v
      BY <3>1
    <3> QED
      BY <3>2 DEF v, w
  <2> QED
    BY <2>2, <2>7
<1> HIDE DEF t, s
<1>6. Rising(t)
  BY <1>1, <1>2, <1>3 DEF Rising
<1>7. ASSUME NEW a \in 1..Len(d), NEW b \in 1..Len(t) PROVE d[a] < t[b]
  <2>1. d[a] \in Int /\ d[a] + o < s.seq /\ t[b] = s.seq + b - 1 - o /\ b \in Nat /\ b >= 1
    BY <1>2, <1>3, <1>5
  <2> QED
    BY <1>1, <1>2, <2>1
<1>8. Rising(r)
  BY <1>2, <1>4, <1>6, <1>7, RisingAppend
<1>9. /\ r \in Seq(Bytes) /\ Len(r) = Len(d) + Len(t)
      /\ \A k \in 1..Len(d) : r[k] = d[k]
      /\ \A k \in 1..Len(t) : r[Len(d) + k] = t[k]
  BY <1>2, <1>4, ConcatIs
<1> HIDE DEF r
<1>10. ASSUME NEW k \in 1..Len(r) PROVE r[k] + o < s.seq + Len(t)
  <2>1. CASE k \in 1..Len(d)
    BY <1>1, <1>2, <1>5, <1>9, <2>1
  <2>2. CASE k \notin 1..Len(d)
    <3>1. k - Len(d) \in 1..Len(t) /\ Len(d) + (k - Len(d)) = k
      BY <1>2, <1>4, <1>9, <2>2
    <3>2. r[k] = t[k - Len(d)]
      BY <1>9, <3>1
    <3>3. r[k] = s.seq + (k - Len(d)) - 1 - o
      BY <1>3, <3>1, <3>2
    <3> QED
      BY <1>1, <1>2, <3>1, <3>3
  <2> QED
    BY <2>1, <2>2
<1>11. ASSUME NEW j \in 1..i, NEW k \in 1..Len(q[j].data)
       PROVE  \E a \in 1..Len(r) : r[a] = q[j].data[k]
  <2>1. CASE j = i
    <3>1. k \in 1..Len(t) /\ q[j].data[k] = t[k]
      BY <1>11, <2>1 DEF s, t
    <3>2. Len(d) + k \in 1..Len(r)
      BY <1>2, <1>4, <1>9, <3>1
    <3> QED
      BY <1>9, <3>1, <3>2
  <2>2. CASE j # i
    <3>1. j \in 1..(i - 1)
      BY <2>2
    <3>2. PICK a \in 1..Len(d) : d[a] = q[j].data[k]
      BY <1>4, <1>11, <3>1
    <3>3. a \in 1..Len(r) /\ r[a] = d[a]
      BY <1>2, <1>4, <1>9
    <3> QED
      BY <3>2, <3>3
  <2> QED
    BY <2>1, <2>2
<1>12. JoinedSoFar(q, i, o, r)
  <2>1. \A k \in 1..Len(r) : i > 0 /\ r[k] + o < q[i].seq + Len(q[i].data)
    BY <1>10 DEF s, t
  <2> QED
    BY <1>8, <1>9, <1>11, <2>1 DEF JoinedSoFar
<1> QED
  BY <1>12 DEF r, t, s

(* So a marker that has been captured is found in it.                      *)
LEMMA RisingNext ==
    ASSUME NEW d \in Seq(Bytes), Rising(d), NEW a \in 1..Len(d), NEW b \in 1..Len(d),
           d[b] = d[a] + 1
    PROVE  b = a + 1
<1>1. \A k \in 1..Len(d) : d[k] \in Int
  <2>1. \A k \in 1..Len(d) : d[k] \in Bytes
    OBVIOUS
  <2>2. Bytes \subseteq Int
    BY ChannelAssumption DEF Bytes
  <2> QED
    BY <2>1, <2>2
<1>2. a < b
  <2>1. b < a => d[b] < d[a]
    BY DEF Rising
  <2>2. b # a
    BY <1>1
  <2> QED
    BY <1>1, <2>1, <2>2
<1>3. CASE a + 1 < b
  <2>1. a + 1 \in 1..Len(d)
    BY <1>3
  <2>2. d[a] < d[a + 1] /\ d[a + 1] < d[b]
    BY <1>3, <2>1 DEF Rising
  <2> QED
    BY <1>1, <2>1, <2>2
<1> QED
  BY <1>2, <1>3

(* In a rising string three numbers that follow each other stand side by   *)
(* side.                                                                   *)
LEMMA RisingHas ==
    ASSUME NEW d \in Seq(Bytes), Rising(d),
           \A i \in 1..3 : \E a \in 1..Len(d) : d[a] = Marker[i]
    PROVE  Has(d, Marker)
<1>1. PICK a \in 1..Len(d) : d[a] = MarkerAt
  BY WordsAre
<1>2. PICK b \in 1..Len(d) : d[b] = MarkerAt + 1
  BY WordsAre
<1>3. PICK c \in 1..Len(d) : d[c] = MarkerAt + 2
  BY WordsAre
<1>4. MarkerAt \in Nat
  BY WordsAre
<1>5. b = a + 1
  BY <1>1, <1>2, RisingNext
<1>6. c = b + 1
  BY <1>2, <1>3, <1>4, RisingNext
<1>7. a \in 1..(Len(d) - 3 + 1)
  BY <1>3, <1>5, <1>6
<1>8. ASSUME NEW j \in 1..3 PROVE d[a + j - 1] = Marker[j]
  <2>1. Marker[j] = MarkerAt + j - 1
    BY WordsAre
  <2>2. d[a + 1] = MarkerAt + 1 /\ d[a + 2] = MarkerAt + 2
    BY <1>2, <1>3, <1>5, <1>6
  <2>3. CASE j = 1
    BY <1>1, <1>4, <2>1, <2>3
  <2>4. CASE j = 2
    <3>1. a + j - 1 = a + 1 /\ MarkerAt + j - 1 = MarkerAt + 1
      BY <1>4, <2>4
    <3> QED
      BY <2>1, <2>2, <3>1
  <2>5. CASE j = 3
    <3>1. a + j - 1 = a + 2 /\ MarkerAt + j - 1 = MarkerAt + 2
      BY <1>4, <2>5
    <3> QED
      BY <2>1, <2>2, <3>1
  <2> QED
    BY <2>3, <2>4, <2>5
<1>9. IsAt(d, Marker, a)
  BY <1>7, <1>8, WordsAre DEF IsAt
<1> QED
  BY <1>9, HasAt

(* The marker of a response without overlaps is found beyond a gap.        *)
LEMMA JoinedHas ==
    ASSUME NoWrap, CTypes, Holds, outcome # "failed", segments # {},
           Aligned, damaged = {}, {Marker[i] : i \in 1..3} \subseteq At(captured)
    PROVE  Has(Joined(segments), Marker)
<1> DEFINE q == Ordered(segments)
           n == Cardinality(segments)
           g == JoinedRounds(q, n)
<1>1. /\ n \in Nat /\ q \in [1..n -> segments] /\ Len(q) = n
      /\ \A i, j \in 1..n : i < j => q[i].seq <= q[j].seq /\ q[i] # q[j]
      /\ \A s \in segments : \E i \in 1..n : q[i] = s
  BY OrderedIs DEF Holds
<1>2. Joined(segments) = g[n]
  <2>1. Joined(segments) = JoinedRounds(q, Len(q))[Len(q)]
    BY DEF Joined, JoinedRounds
  <2> QED
    BY <1>1, <2>1
<1>3. segments = {Segment(p, TRUE) : p \in captured} /\ segments \subseteq SegmentType
  BY DEF Holds, Taken, Agreeing
<1>4. n \in Nat \ {0}
  BY <1>1
<1> HIDE DEF q, n, g
<1>5. \A p \in captured : LET s == Segment(p, TRUE) IN
          /\ s.seq = start + p[1] /\ Len(s.data) = p[2] - p[1] + 1
          /\ \A k \in DOMAIN s.data : s.data[k] = s.seq + k - 1 - start
          /\ s.data \in Seq(Bytes)
  <2> TAKE p \in captured
  <2>1. IsPacket(p) /\ start \in Starts
    BY PacketIs DEF CTypes
  <2>2. Segment(p, TRUE) \in SegmentType
    BY <2>1, SegmentOf
  <2> QED
    BY <2>1, <2>2, SegmentOf, SegmentIs
<1>6. \A p \in captured :
          p[1] \in Nat /\ p[2] \in Nat /\ p[1] <= p[2] /\ p[2] < Length
  BY HeldIs
<1>7. start \in Nat
  BY HeldIs
<1>8. Apart(q, n, start)
  <2>1. ASSUME NEW i \in 1..n
        PROVE  \E p \in captured : q[i] = Segment(p, TRUE)
    <3>1. q[i] \in segments
      BY <1>1
    <3> QED
      BY <1>3, <3>1
  <2>2. ASSUME NEW i \in 1..n, NEW j \in 1..n, i < j
        PROVE  q[i].seq + Len(q[i].data) <= q[j].seq
    <3>1. PICK p \in captured : q[i] = Segment(p, TRUE)
      BY <2>1
    <3>2. PICK r \in captured : q[j] = Segment(r, TRUE)
      BY <2>1
    <3>3. q[i].seq <= q[j].seq /\ p # r
      BY <1>1, <2>2, <3>1, <3>2
    <3>4. p[2] < r[1] \/ r[2] < p[1]
      BY <3>3 DEF Aligned, CTypes
    <3>5. /\ q[i].seq = start + p[1] /\ Len(q[i].data) = p[2] - p[1] + 1
          /\ q[j].seq = start + r[1]
      BY <1>5, <3>1, <3>2
    <3>6. /\ p[1] \in Nat /\ p[2] \in Nat /\ p[1] <= p[2]
          /\ r[1] \in Nat /\ r[2] \in Nat /\ r[1] <= r[2]
      BY <1>6
    <3> DEFINE u == q[i].seq
               L == Len(q[i].data)
               v == q[j].seq
    <3>7. u = start + p[1] /\ L = p[2] - p[1] + 1 /\ v = start + r[1] /\ u <= v
      BY <3>3, <3>5
    <3> HIDE DEF u, L, v
    <3>8. p[2] < r[1]
      BY <1>7, <3>4, <3>6, <3>7
    <3>9. u + L <= v
      BY <1>7, <3>6, <3>7, <3>8
    <3> QED
      BY <3>9 DEF u, L, v
  <2>3. ASSUME NEW i \in 1..n, NEW k \in 1..Len(q[i].data)
        PROVE  q[i].data[k] = q[i].seq + k - 1 - start
    <3>1. PICK p \in captured : q[i] = Segment(p, TRUE)
      BY <2>1
    <3>2. q[i].data \in Seq(Bytes)
      BY <1>5, <3>1
    <3>3. k \in DOMAIN q[i].data
      BY <2>3, <3>2
    <3> QED
      BY <1>5, <3>1, <3>3
  <2>4. q \in [1..n -> SegmentType]
    BY <1>1, <1>3
  <2> QED
    BY <1>7, <2>2, <2>3, <2>4 DEF Apart
<1>9. g[0] = <<>> /\ \A i \in 1..n : g[i] = g[i - 1] \o q[i].data
  BY <1>4, <1>8, JoinedRoundsAre DEF g, Apart
<1>10. JoinedSoFar(q, n, start, g[n])
  <2> DEFINE B == {i \in 0..n : JoinedSoFar(q, i, start, g[i])}
  <2>1. 0 \in B
    <3>1. 0 \in 0..n
      BY <1>1
    <3>2. JoinedSoFar(q, 0, start, <<>>)
      BY DEF JoinedSoFar, Rising
    <3> QED
      BY <1>9, <3>1, <3>2
  <2>2. ASSUME NEW i \in 1..n, i - 1 \in B PROVE i \in B
    <3>1. JoinedSoFar(q, i - 1, start, g[i - 1])
      BY <2>2
    <3>2. JoinedSoFar(q, i, start, g[i - 1] \o q[i].data)
      BY <1>1, <1>8, <3>1, JoinedStep
    <3>3. g[i] = g[i - 1] \o q[i].data
      BY <1>9
    <3>4. i \in 0..n
      BY <1>1
    <3> QED
      BY <3>2, <3>3, <3>4
  <2>3. \A i \in 1..n : i - 1 \in B => i \in B
    BY <2>2
  <2> HIDE DEF B
  <2>4. \A i \in 0..n : i \in B
    BY <1>1, <2>1, <2>3, UpTo
  <2>5. n \in B
    BY <1>1, <2>4
  <2> QED
    BY <2>5 DEF B
<1> DEFINE d == g[n]
<1>11. /\ d \in Seq(Bytes) /\ Rising(d)
       /\ \A j \in 1..n : \A k \in 1..Len(q[j].data) : \E a \in 1..Len(d) : d[a] = q[j].data[k]
  BY <1>10 DEF JoinedSoFar
<1> HIDE DEF d
<1>12. ASSUME NEW m \in At(captured) PROVE \E a \in 1..Len(d) : d[a] = m
  <2>1. PICK p \in captured : m \in p[1]..p[2]
    BY DEF At
  <2> DEFINE s == Segment(p, TRUE)
             k == m - p[1] + 1
  <2>2. PICK j \in 1..n : q[j] = s
    BY <1>1, <1>3
  <2>3. /\ s.seq = start + p[1] /\ Len(s.data) = p[2] - p[1] + 1 /\ s.data \in Seq(Bytes)
        /\ \A h \in DOMAIN s.data : s.data[h] = s.seq + h - 1 - start
    BY <1>5
  <2>4. p[1] \in Nat /\ p[2] \in Nat
    BY <1>6
  <2> HIDE DEF s
  <2>5. /\ m \in Nat /\ k \in Nat /\ k \in 1..(p[2] - p[1] + 1)
        /\ start + p[1] + k - 1 - start = m
    BY <1>7, <2>1, <2>4
  <2> HIDE DEF k
  <2>6. k \in 1..Len(s.data) /\ s.data[k] = m
    <3>1. k \in 1..Len(s.data) /\ k \in DOMAIN s.data
      BY <2>3, <2>5
    <3>2. s.data[k] = s.seq + k - 1 - start
      BY <2>3, <3>1
    <3> QED
      BY <2>3, <2>5, <3>1, <3>2
  <2> QED
    BY <1>11, <2>2, <2>6
<1>13. Has(d, Marker)
  <2>1. \A i \in 1..3 : \E a \in 1..Len(d) : d[a] = Marker[i]
    BY <1>12
  <2> QED
    BY <1>11, <2>1, RisingHas
<1> QED
  BY <1>2, <1>13 DEF d

-----------------------------------------------------------------------------
(* What extract_profile concludes from what is held.                       *)
Working == NoWrap /\ CTypes /\ Holds /\ outcome # "failed"

(* Something captured is something held.                                   *)
LEMMA NonEmpty ==
    ASSUME Working, At(captured) # {}
    PROVE  segments # {}
BY DEF Working, Holds, Taken, At

(* A whole response is parsed.                                             *)
LEMMA VerdictWhole ==
    ASSUME Working, At(captured) = Positions, damaged = {}
    PROVE  Verdict = "parsed"
<1>1. MarkerAt \in Nat \ {0} /\ Length \in Nat /\ MarkerAt + 3 < Length
  BY WordsAre
<1>2. 0 \in Positions /\ Length - 1 \in Positions
  BY <1>1 DEF Positions
<1>3. segments # {}
  BY <1>2, NonEmpty
<1>4. ~Assembled.gap
  BY <1>3, GapIsReal DEF Working
<1>5. PICK f, e \in Nat :
          /\ f <= e /\ e <= Length
          /\ Assembled.out \in Seq(Bytes) /\ Len(Assembled.out) = e - f
          /\ At(captured \cup damaged) = f..(e - 1)
          /\ \A m \in At(captured) : Assembled.out[m - f + 1] = m
  BY <1>3, <1>4, OutIs DEF Working
<1>6. At(captured) = f..(e - 1)
  <2>1. captured \cup damaged = captured
    OBVIOUS
  <2> QED
    BY <1>5, <2>1
<1>7. f = 0 /\ e = Length
  BY <1>1, <1>2, <1>5, <1>6
<1>8. IsRun(Assembled.out, f, e)
  BY <1>5, <1>6 DEF IsRun
<1>9. Found(Assembled.out) = "parsed"
  BY <1>1, <1>7, <1>8, RunFound
<1> QED
  BY <1>3, <1>4, <1>9 DEF Verdict

(* What is parsed was whole, unless its end is that of the connection.     *)
LEMMA VerdictParsed ==
    ASSUME Working, Verdict = "parsed", framing # "close"
    PROVE  At(captured \cup damaged) = Positions
<1>1. segments # {} /\ ~Assembled.gap /\ Found(Assembled.out) = "parsed"
  BY DEF Verdict
<1>2. PICK f, e \in Nat :
          /\ f <= e /\ e <= Length
          /\ Assembled.out \in Seq(Bytes) /\ Len(Assembled.out) = e - f
          /\ At(captured \cup damaged) = f..(e - 1)
  BY <1>1, OutIs DEF Working
<1>3. Len(Assembled.out) >= Length
  BY <1>1, <1>2, FoundWhole DEF Working, CTypes
<1>4. f = 0 /\ e = Length
  BY <1>2, <1>3, ChannelAssumption
<1> QED
  BY <1>2, <1>4 DEF Positions

(* A marker is not passed over.                                            *)
LEMMA VerdictKept ==
    ASSUME Working, Verdict = "kept", encoding = "identity", Aligned, damaged = {},
           {Marker[i] : i \in 1..3} \subseteq At(captured)
    PROVE  FALSE
<1>1. MarkerAt \in Nat \ {0} /\ \A j \in 1..3 : Marker[j] = MarkerAt + j - 1
  BY WordsAre
<1>2. MarkerAt \in At(captured) /\ MarkerAt + 2 \in At(captured)
  <2>1. Marker[1] = MarkerAt /\ Marker[3] = MarkerAt + 2
    BY <1>1
  <2> QED
    BY <2>1
<1>3. segments # {}
  BY <1>2, NonEmpty
<1>4. CASE Assembled.gap
  <2>1. Has(Joined(segments), Marker)
    BY <1>3, JoinedHas DEF Working
  <2> QED
    BY <1>3, <1>4, <2>1 DEF Verdict, Shows
<1>5. CASE ~Assembled.gap
  <2>1. PICK f, e \in Nat :
            /\ f <= e /\ e <= Length
            /\ Assembled.out \in Seq(Bytes) /\ Len(Assembled.out) = e - f
            /\ At(captured \cup damaged) = f..(e - 1)
            /\ \A m \in At(captured) : Assembled.out[m - f + 1] = m
    BY <1>3, <1>5, OutIs DEF Working
  <2>2. At(captured) = f..(e - 1)
    <3>1. captured \cup damaged = captured
      OBVIOUS
    <3> QED
      BY <2>1, <3>1
  <2>3. IsRun(Assembled.out, f, e)
    BY <2>1, <2>2 DEF IsRun
  <2>4. f <= MarkerAt /\ MarkerAt + 2 < e
    BY <1>1, <1>2, <2>1, <2>2
  <2>5. Found(Assembled.out) # "kept"
    BY <2>3, <2>4, RunFound
  <2> QED
    BY <1>3, <1>5, <2>5 DEF Verdict
<1> QED
  BY <1>4, <1>5

(* Only a gap is called one.                                               *)
LEMMA VerdictMissing ==
    ASSUME Working, Verdict = "missing"
    PROVE  At(captured) # Positions
<1>1. \A b : Parse(b) # "missing"
  BY DEF Parse
<1>2. segments # {} /\ Assembled.gap
  BY <1>1 DEF Verdict, Found
<1> QED
  BY <1>2, GapIsReal DEF Working

(* The reasons add fails for are no verdicts.                              *)
LEMMA VerdictNotConflict == Verdict \notin {"conflict", "limit", "capturing"}
<1>1. \A b : Parse(b) \notin {"conflict", "limit", "capturing"}
  BY DEF Parse
<1> QED
  BY <1>1 DEF Verdict, Found

-----------------------------------------------------------------------------
(* Undamaged segments never conflict.                                      *)
LEMMA WholeAgree ==
    ASSUME NoWrap, start \in Starts, NEW p, IsPacket(p), NEW r, IsPacket(r)
    PROVE  ~Conflict(Segment(p, TRUE), Segment(r, TRUE))
<1>1. \A n \in Covers(Segment(p, TRUE)) : Byte(Segment(p, TRUE), n) = n - start
  BY SegmentOf
<1>2. \A n \in Covers(Segment(r, TRUE)) : Byte(Segment(r, TRUE), n) = n - start
  BY SegmentOf
<1> QED
  BY <1>1, <1>2 DEF Conflict

(* The invariant holds before anything is captured.                        *)
LEMMA CInvInit ==
    ASSUME Init
    PROVE  CInv
<1>1. CTypes /\ Reasons /\ Promises
  BY DEF Init, CTypes, Reasons, Promises, WholeParsed, ParsedWhole, DamageSeen, NeverSilent,
      MarkerSeen, GapHonest
<1>2. Taken = {} /\ segments = {} /\ Agreeing({})
  BY FS_EmptySet DEF Init, Taken, Agreeing
<1> QED
  BY <1>1, <1>2 DEF CInv, Holds

(* A segment added, refused or in conflict keeps the invariant.            *)
LEMMA CInvAdd ==
    ASSUME NoWrap, CInv, Add
    PROVE  CInv'
<1>1. PICK p \in packets, whole \in BOOLEAN :
          LET s == Segment(p, whole) IN
          /\ captured' = IF whole THEN captured \cup {p} ELSE captured
          /\ damaged' = IF whole THEN damaged ELSE damaged \cup {p}
          /\ IF Limited(s) THEN outcome' = "failed" /\ reason' = "limit" /\ UNCHANGED segments
             ELSE IF \E t \in segments : Conflict(s, t)
             THEN outcome' = "failed" /\ reason' = "conflict" /\ UNCHANGED segments
             ELSE segments' = segments \cup {s} /\ UNCHANGED <<outcome, reason>>
  BY DEF Add
<1> DEFINE s == Segment(p, whole)
<1>2. /\ outcome = "capturing" /\ reason = "none"
      /\ UNCHANGED <<start, packets, framing, encoding>>
  BY DEF Add, CInv, Reasons
<1>3. start \in Starts /\ segments = Taken /\ Agreeing(segments) /\ CTypes
  BY <1>2 DEF CInv, CTypes, Holds
<1>4. CTypes'
  BY <1>1, <1>2, <1>3 DEF CTypes
<1>5. IsPacket(p) /\ \A r \in captured \cup damaged : IsPacket(r)
  BY <1>3, PacketIs
<1>6. s \in SegmentType
  BY <1>3, <1>5, SegmentOf
<1>7. ASSUME ~Limited(s), \A t \in segments : ~Conflict(s, t)
      PROVE  Holds' /\ outcome' = "capturing" /\ reason' = "none"
  <2>1. segments' = segments \cup {s} /\ outcome' = "capturing" /\ reason' = "none"
    BY <1>1, <1>2, <1>7
  <2>2. Taken' = Taken \cup {s}
    <3>1. CASE whole = TRUE
      <4>1. captured' = captured \cup {p} /\ damaged' = damaged /\ start' = start
        BY <1>1, <1>2, <3>1
      <4> QED
        BY <3>1, <4>1 DEF Taken, Segment
    <3>2. CASE whole = FALSE
      <4>1. captured' = captured /\ damaged' = damaged \cup {p} /\ start' = start
        BY <1>1, <1>2, <3>2
      <4> QED
        BY <3>2, <4>1 DEF Taken, Segment
    <3> QED
      BY <3>1, <3>2
  <2> HIDE DEF s
  <2>3. \A t \in segments : ~Conflict(t, s)
    BY <1>7 DEF Conflict
  <2>4. ~Conflict(s, s)
    BY DEF Conflict
  <2>5. Agreeing(segments \cup {s})
    <3>1. IsFiniteSet(segments \cup {s})
      BY <1>3, FS_AddElement DEF Agreeing
    <3> QED
      BY <1>3, <1>6, <1>7, <2>3, <2>4, <3>1 DEF Agreeing
  <2>6. Agreeing(segments')
    BY <2>1, <2>5
  <2>7. Agreeing(segments)'
    BY <2>6 DEF Agreeing, Conflict, Covers, Byte, SegmentType, Bytes
  <2> QED
    BY <1>3, <2>1, <2>2, <2>7 DEF Holds
<1>8. CASE Limited(s)
  <2>1. outcome' = "failed" /\ reason' = "limit"
    BY <1>1, <1>8
  <2> QED
    BY <1>4, <2>1 DEF CInv, Holds, Reasons, Promises, WholeParsed, ParsedWhole,
        DamageSeen, NeverSilent, MarkerSeen, GapHonest
<1>9. CASE ~Limited(s) /\ \E t \in segments : Conflict(s, t)
  <2>1. outcome' = "failed" /\ reason' = "conflict"
    BY <1>1, <1>9
  <2>2. damaged' # {}
    <3> SUFFICES ASSUME damaged' = {} PROVE FALSE
      OBVIOUS
    <3>1. whole = TRUE /\ damaged = {}
      BY <1>1
    <3>2. PICK t \in segments : Conflict(s, t)
      BY <1>9
    <3>3. PICK r \in captured : t = Segment(r, TRUE)
      BY <1>3, <3>1 DEF Taken
    <3> QED
      BY <1>3, <1>5, <3>1, <3>2, <3>3, WholeAgree
  <2> QED
    BY <1>4, <2>1, <2>2 DEF CInv, Holds, Reasons, Promises, WholeParsed, ParsedWhole,
        DamageSeen, NeverSilent, MarkerSeen, GapHonest
<1>10. CASE ~Limited(s) /\ ~\E t \in segments : Conflict(s, t)
  <2>1. Holds' /\ outcome' = "capturing" /\ reason' = "none"
    <3> HIDE DEF s
    <3> QED
      BY <1>7, <1>10
  <2> QED
    BY <1>4, <2>1 DEF CInv, Reasons, Promises, WholeParsed, ParsedWhole,
        DamageSeen, NeverSilent, MarkerSeen, GapHonest
<1> QED
  BY <1>8, <1>9, <1>10

(* The end of the capture keeps it: the verdict is the promised one.       *)
LEMMA CInvExtract ==
    ASSUME NoWrap, CInv, Extract
    PROVE  CInv'
<1>1. /\ outcome = "capturing"
      /\ outcome' = IF Verdict \in {"parsed", "kept"} THEN Verdict ELSE "failed"
      /\ reason' = IF Verdict \in {"parsed", "kept"} THEN "none" ELSE Verdict
      /\ start' = start /\ packets' = packets /\ framing' = framing /\ encoding' = encoding
      /\ segments' = segments
      /\ captured' = captured /\ damaged' = damaged
  BY DEF Extract
<1>2. Working /\ segments = Taken /\ Agreeing(segments)
  BY <1>1 DEF Working, CInv, Holds
<1>3. outcome' \in {"parsed", "kept", "failed"} /\ reason' \notin {"conflict", "limit"}
  BY <1>1, VerdictNotConflict
<1>4. CTypes'
  BY <1>1, <1>3 DEF CInv, CTypes
<1>5. Holds'
  <2>1. segments' = Taken'
    BY <1>1, <1>2 DEF Taken, Segment
  <2>2. Agreeing(segments)'
    BY <1>1, <1>2 DEF Agreeing, Conflict, Covers, Byte, SegmentType, Bytes
  <2> QED
    BY <2>1, <2>2 DEF Holds
<1>6. Reasons'
  BY <1>1, <1>3 DEF Reasons
<1>7. WholeParsed'
  <2> SUFFICES ASSUME At(captured') = Positions, damaged' = {}, outcome' # "parsed" PROVE FALSE
    BY DEF WholeParsed, At
  <2>1. Verdict = "parsed"
    BY <1>1, <1>2, VerdictWhole
  <2> QED
    BY <1>1, <2>1
<1>8. ParsedWhole'
  <2> SUFFICES ASSUME outcome' = "parsed", framing' # "close"
               PROVE  At(captured \cup damaged) = Positions
    BY <1>1 DEF ParsedWhole, At
  <2> QED
    BY <1>1, <1>2, VerdictParsed
<1>9. DamageSeen'
  <2>1. \A p \in damaged : p[1]..p[2] \cap At(captured) = {}
    BY <1>2, HeldApart DEF Working
  <2> QED
    BY <1>1, <2>1 DEF DamageSeen, At
<1>10. NeverSilent'
  <2> SUFFICES ASSUME encoding = "identity", Aligned, damaged = {},
                      {Marker[i] : i \in 1..3} \subseteq At(captured), outcome' = "kept"
               PROVE  FALSE
    BY <1>1 DEF NeverSilent, MarkerSeen, Aligned, At
  <2>1. Verdict = "kept"
    BY <1>1
  <2> QED
    BY <1>2, <2>1, VerdictKept
<1>11. GapHonest'
  <2> SUFFICES ASSUME reason' = "missing" PROVE At(captured) # Positions
    BY <1>1 DEF GapHonest, At
  <2>1. Verdict = "missing"
    BY <1>1
  <2> QED
    BY <1>2, <2>1, VerdictMissing
<1> QED
  BY <1>4, <1>5, <1>6, <1>7, <1>8, <1>9, <1>10, <1>11 DEF CInv, Promises

(* The invariant holds, ...                                                *)
THEOREM ChannelInvariant ==
    ASSUME NoWrap
    PROVE  Spec => []CInv
<1>1. Init => CInv
  BY CInvInit
<1>2. CInv /\ [Next]_vars => CInv'
  <2> SUFFICES ASSUME CInv, [Next]_vars PROVE CInv'
    OBVIOUS
  <2>1. CASE Next
    BY <2>1, CInvAdd, CInvExtract DEF Next
  <2>2. CASE UNCHANGED vars
    BY <2>2 DEF vars, CInv, CTypes, Holds, Agreeing, Conflict, Covers, Byte, SegmentType, Bytes,
        Taken, Segment, Reasons, Promises, WholeParsed, ParsedWhole, DamageSeen, NeverSilent,
        MarkerSeen, Aligned, At, GapHonest
  <2> QED
    BY <2>1, <2>2
<1> QED
  BY <1>1, <1>2, PTL DEF Spec

(* ... so a response captured whole is parsed: TcpStream and the parser    *)
(* lose nothing, in whatever order and pieces the packets were captured.   *)
THEOREM WholeIsParsed ==
    ASSUME NoWrap
    PROVE  Spec => []WholeParsed
<1>1. CInv => WholeParsed
  BY DEF CInv, Promises
<1> QED
  BY <1>1, ChannelInvariant, PTL

(* The routes are only replaced from a body that has been captured to its  *)
(* end, if the server said where that is.                                  *)
THEOREM ParsedIsWhole ==
    ASSUME NoWrap
    PROVE  Spec => []ParsedWhole
<1>1. CInv => ParsedWhole
  BY DEF CInv, Promises
<1> QED
  BY <1>1, ChannelInvariant, PTL

(* A damaged copy of what has been captured whole does not get in.         *)
THEOREM DamageIsSeen ==
    ASSUME NoWrap
    PROVE  Spec => []DamageSeen
<1>1. CInv => DamageSeen
  BY DEF CInv, Promises
<1> QED
  BY <1>1, ChannelInvariant, PTL

(* Of a response that is not compressed, and of which no byte is sent      *)
(* again in other pieces or damaged, a list whose marker has been captured *)
(* is not passed over. No condition can be dropped: the marker is searched *)
(* for before the body is decompressed (extractor.py:87, 156, 517).        *)
THEOREM ListIsNotPassedOver ==
    ASSUME NoWrap
    PROVE  Spec => []NeverSilent
<1>1. CInv => NeverSilent
  BY DEF CInv, Promises
<1> QED
  BY <1>1, ChannelInvariant, PTL

(* Segments are only said to be missing if a byte of the response is.      *)
THEOREM GapIsHonest ==
    ASSUME NoWrap
    PROVE  Spec => []GapHonest
<1>1. CInv => GapHonest
  BY DEF CInv, Promises
<1> QED
  BY <1>1, ChannelInvariant, PTL
=============================================================================
