-------------------------- MODULE DevParamProofs ---------------------------
(***************************************************************************)
(* Proofs about DevParam for any size of a byte, any tag and any longest   *)
(* text: a record that got into the file is read back, and what a short    *)
(* write left is taken for another text only if two bytes differ.  The     *)
(* latter rests on what sums of bytes are, which is proved first, by       *)
(* taking a smallest counterexample.                                       *)
(***************************************************************************)
EXTENDS DevParam, FiniteSetTheorems, SequenceTheorems, WellFoundedInduction, TLAPS

-----------------------------------------------------------------------------
(***************************************************************************)
(* The inductive invariant.                                                *)
(***************************************************************************)

\* The checksum in the file is the last record's; there is none in a file
\* that was erased.
ChecksumInv ==
    \/ flash[2] = Sum(sealed)
    \/ \A i \in 2..Size : flash[i] = Byte - 1

\* A whole text is in the file with its tag and its terminator.
WholeInv ==
    whole => /\ flash[1] = Tag /\ flash[2] = Sum(sealed)
             /\ Len(sealed) < Limit
             /\ \A i \in 1..Len(sealed) : flash[i + 2] = sealed[i]
             /\ flash[Len(sealed) + 3] = 0

IInv == TypeOK /\ ChecksumInv /\ WholeInv

-----------------------------------------------------------------------------
(***************************************************************************)
(* Induction over the numbers, for a set that is given.                    *)
(***************************************************************************)

\* A nonempty set of numbers has a least one.
LEMMA Least ==
  ASSUME NEW S, S \subseteq Nat, S # {}
  PROVE  \E x \in S : \A y \in S : x <= y
<1>1. PICK x \in S : \A y \in S : ~ (<<y, x>> \in OpToRel(<, Nat))
  BY NatLessThanWellFounded, WFMin
<1>2. ASSUME NEW y \in S
      PROVE  x <= y
  <2>1. x \in Nat /\ y \in Nat
    OBVIOUS
  <2>2. ~ (y < x)
    BY <1>1, <2>1 DEF OpToRel
  <2> QED
    BY <2>1, <2>2
<1> QED
  BY <1>2

\* What holds of 0 and of the successor of each number it holds of holds of
\* all.
LEMMA Steps ==
  ASSUME NEW T, 0 \in T, \A k \in Nat : k \in T => k + 1 \in T
  PROVE  Nat \subseteq T
<1> SUFFICES ASSUME Nat \ T # {}
             PROVE  FALSE
  OBVIOUS
<1>1. PICK x \in Nat \ T : \A y \in Nat \ T : x <= y
  BY Least
<1>2. x # 0 /\ x - 1 \in Nat
  <2>1. x # 0
    OBVIOUS
  <2> QED
    BY <2>1
<1>3. x - 1 \in T
  BY <1>1, <1>2
<1>4. (x - 1) + 1 \in T
  BY <1>2, <1>3
<1> QED
  BY <1>4

-----------------------------------------------------------------------------
(***************************************************************************)
(* The sum over a text.  FoldSeq adds the places of a text in an order     *)
(* that CHOOSE picks; what is added up over a set of places obeys a        *)
(* recursion, and taking any place out of the set takes its byte out of    *)
(* the sum.                                                                *)
(***************************************************************************)

Pick(s) == CHOOSE x \in s : TRUE

\* One step of the recursion.
Added(it, t, s) == IF s = {} THEN 0 ELSE t[Pick(s)] + it[s \ {Pick(s)}]

\* The sum over each set of places of a text.
Sums(t) == CHOOSE it : it = [s \in SUBSET DOMAIN t |-> Added(it, t, s)]

\* Sets of at most k places of a text of n.
Level(n, k) == {s \in SUBSET (1..n) : Cardinality(s) <= k}

\* FoldSeq is the sum over all places.
LEMMA FoldIsSum ==
  ASSUME NEW t
  PROVE  FoldSeq(+, 0, t) = Sums(t)[DOMAIN t]
  BY DEF FoldSeq, FoldFunction, FoldFunctionOnSet, MapThenFoldSet, Pick, Added, Sums

\* Sets of places are finite, and have one less when one is taken out.
LEMMA PlaceSets ==
  ASSUME NEW n \in Nat, NEW s \in SUBSET (1..n)
  PROVE  /\ IsFiniteSet(s) /\ Cardinality(s) \in 0..n
         /\ Cardinality(s) = 0 <=> s = {}
         /\ \A x \in s : Cardinality(s \ {x}) = Cardinality(s) - 1
<1>1. IsFiniteSet(1..n) /\ Cardinality(1..n) = n
  <2>1. Cardinality(1..n) = IF 1 > n THEN 0 ELSE (n - 1) + 1
    BY FS_Interval
  <2> QED
    BY <2>1, FS_Interval
<1>2. IsFiniteSet(s) /\ Cardinality(s) <= n
  BY <1>1, FS_Subset
<1>3. Cardinality(s) \in Nat
  BY <1>2, FS_CardinalityType
<1>4. Cardinality(s) = 0 <=> s = {}
  BY <1>2, FS_EmptySet
<1>5. \A x \in s : Cardinality(s \ {x}) = Cardinality(s) - 1
  BY <1>2, FS_RemoveElement
<1> QED
  BY <1>2, <1>3, <1>4, <1>5

\* The place that is picked is one of the set.
LEMMA PickIsIn ==
  ASSUME NEW s, s # {}
  PROVE  Pick(s) \in s
  BY DEF Pick

\* There are sums over all sets of at most k places.
LEMMA LevelSums ==
  ASSUME NEW n \in Nat, NEW t \in [1..n -> Nat]
  PROVE  \A k \in Nat : \E it \in [Level(n, k) -> Nat] :
            \A s \in Level(n, k) : it[s] = Added(it, t, s)
<1> DEFINE T == {k \in Nat : \E it \in [Level(n, k) -> Nat] :
                   \A s \in Level(n, k) : it[s] = Added(it, t, s)}
<1>1. 0 \in T
  <2>1. \A s \in Level(n, 0) : s = {}
    BY PlaceSets DEF Level
  <2>2. [s \in Level(n, 0) |-> 0] \in [Level(n, 0) -> Nat]
    OBVIOUS
  <2>3. \A s \in Level(n, 0) :
          [r \in Level(n, 0) |-> 0][s] = Added([r \in Level(n, 0) |-> 0], t, s)
    BY <2>1 DEF Added
  <2> QED
    BY <2>2, <2>3
<1>2. ASSUME NEW k \in Nat, k \in T
      PROVE  k + 1 \in T
  <2>1. PICK f \in [Level(n, k) -> Nat] : \A s \in Level(n, k) : f[s] = Added(f, t, s)
    BY <1>2
  <2> DEFINE g == [s \in Level(n, k + 1) |-> Added(f, t, s)]
  <2>2. ASSUME NEW s \in Level(n, k + 1), s # {}
        PROVE  /\ s \ {Pick(s)} \in Level(n, k) /\ s \ {Pick(s)} \in Level(n, k + 1)
               /\ Pick(s) \in 1..n
    <3>1. Pick(s) \in s /\ s \in SUBSET (1..n) /\ Cardinality(s) <= k + 1
      BY <2>2, PickIsIn DEF Level
    <3>2. s \ {Pick(s)} \in SUBSET (1..n)
      BY <3>1
    <3>a. /\ Cardinality(s) \in 0..n
          /\ \A x \in s : Cardinality(s \ {x}) = Cardinality(s) - 1
      BY <3>1, PlaceSets
    <3>b. Cardinality(s \ {Pick(s)}) = Cardinality(s) - 1
      BY <3>1, <3>a, Zenon
    <3>3. Cardinality(s \ {Pick(s)}) = Cardinality(s) - 1 /\ Cardinality(s) \in Nat
      BY <3>a, <3>b
    <3>4. Cardinality(s \ {Pick(s)}) <= k
      BY <3>1, <3>3
    <3>5. Cardinality(s \ {Pick(s)}) <= k + 1
      BY <3>1, <3>3
    <3> QED
      BY <3>1, <3>2, <3>4, <3>5 DEF Level
  <2>3. ASSUME NEW s \in Level(n, k + 1)
        PROVE  Added(f, t, s) \in Nat
    <3>1. CASE s = {}
      BY <3>1 DEF Added
    <3>2. CASE s # {}
      <4>1. t[Pick(s)] \in Nat /\ f[s \ {Pick(s)}] \in Nat
        BY <2>2, <3>2
      <4> QED
        BY <3>2, <4>1 DEF Added
    <3> QED
      BY <3>1, <3>2
  <2>4. g \in [Level(n, k + 1) -> Nat]
    BY <2>3
  <2>5. ASSUME NEW s \in Level(n, k + 1)
        PROVE  g[s] = Added(g, t, s)
    <3>1. CASE s = {}
      BY <3>1 DEF Added
    <3>2. CASE s # {}
      <4>1. f[s \ {Pick(s)}] = Added(f, t, s \ {Pick(s)})
        BY <2>1, <2>2, <3>2
      <4>2. g[s \ {Pick(s)}] = f[s \ {Pick(s)}]
        BY <2>2, <3>2, <4>1
      <4>3. Added(f, t, s) = Added(g, t, s)
        BY <3>2, <4>2 DEF Added
      <4> QED
        BY <4>3
    <3> QED
      BY <3>1, <3>2
  <2> HIDE DEF g
  <2>6. \E it \in [Level(n, k + 1) -> Nat] :
           \A s \in Level(n, k + 1) : it[s] = Added(it, t, s)
    BY <2>4, <2>5
  <2> QED
    BY <2>6
<1> HIDE DEF T
<1>3. Nat \subseteq T
  BY <1>1, <1>2, Steps
<1> QED
  BY <1>3 DEF T

\* The sums exist, so that the recursion holds of what CHOOSE takes.
LEMMA SumsRecursion ==
  ASSUME NEW n \in Nat, NEW t \in [1..n -> Nat]
  PROVE  \A s \in SUBSET (1..n) : Sums(t)[s] = Added(Sums(t), t, s)
<1>1. PICK it \in [Level(n, n) -> Nat] : \A s \in Level(n, n) : it[s] = Added(it, t, s)
  BY LevelSums
<1>2. Level(n, n) = SUBSET (1..n)
  <2>1. \A s \in SUBSET (1..n) : Cardinality(s) <= n
    BY PlaceSets
  <2> QED
    BY <2>1 DEF Level
<1>3. DOMAIN t = 1..n
  OBVIOUS
<1>4. it = [s \in SUBSET DOMAIN t |-> Added(it, t, s)]
  BY <1>1, <1>2, <1>3
<1>5. Sums(t) = [s \in SUBSET DOMAIN t |-> Added(Sums(t), t, s)]
  BY <1>4 DEF Sums
<1> QED
  BY <1>3, <1>5

\* One place at a time: what holds of the empty set of places, and of a set
\* when it holds of all sets that lack one place of it, holds of every set.
LEMMA PlaceInduction ==
  ASSUME NEW n \in Nat, NEW G,
         {} \in G,
         \A s \in SUBSET (1..n) : s # {} /\ (\A x \in s : s \ {x} \in G) => s \in G
  PROVE  SUBSET (1..n) \subseteq G
<1> DEFINE T == {k \in Nat : \A s \in SUBSET (1..n) : Cardinality(s) = k => s \in G}
<1>1. 0 \in T
  BY PlaceSets
<1>2. ASSUME NEW k \in Nat, k \in T
      PROVE  k + 1 \in T
  <2>1. ASSUME NEW s \in SUBSET (1..n), Cardinality(s) = k + 1
        PROVE  s \in G
    <3>1. s # {}
      BY <2>1, PlaceSets
    <3>2. ASSUME NEW x \in s
          PROVE  s \ {x} \in G
      <4>1. Cardinality(s \ {x}) = Cardinality(s) - 1
        BY PlaceSets
      <4>2. Cardinality(s \ {x}) = k
        BY <2>1, <4>1
      <4>3. s \ {x} \in SUBSET (1..n)
        OBVIOUS
      <4> QED
        BY <1>2, <4>2, <4>3
    <3> QED
      BY <3>1, <3>2
  <2> QED
    BY <2>1
<1> HIDE DEF T
<1>3. Nat \subseteq T
  BY <1>1, <1>2, Steps
<1>4. ASSUME NEW s \in SUBSET (1..n)
      PROVE  s \in G
  <2>1. Cardinality(s) \in Nat
    BY PlaceSets
  <2>2. Cardinality(s) \in T
    BY <1>3, <2>1
  <2> QED
    BY <2>2 DEF T
<1> QED
  BY <1>4

\* Sums are numbers.
LEMMA SumsNat ==
  ASSUME NEW n \in Nat, NEW t \in [1..n -> Nat]
  PROVE  \A s \in SUBSET (1..n) : Sums(t)[s] \in Nat
<1> DEFINE G == {s \in SUBSET (1..n) : Sums(t)[s] \in Nat}
<1>1. {} \in G
  <2>1. Sums(t)[{}] = 0
    BY SumsRecursion DEF Added
  <2> QED
    BY <2>1
<1>2. ASSUME NEW s \in SUBSET (1..n), s # {}, \A x \in s : s \ {x} \in G
      PROVE  s \in G
  <2>1. Pick(s) \in s
    BY <1>2, PickIsIn
  <2>2. Sums(t)[s \ {Pick(s)}] \in Nat
    BY <1>2, <2>1
  <2>3. t[Pick(s)] \in Nat
    BY <2>1
  <2>4. Sums(t)[s] = t[Pick(s)] + Sums(t)[s \ {Pick(s)}]
    BY <1>2, SumsRecursion DEF Added
  <2> QED
    BY <2>2, <2>3, <2>4
<1> HIDE DEF G
<1>3. SUBSET (1..n) \subseteq G
  BY <1>1, <1>2, PlaceInduction
<1> QED
  BY <1>3 DEF G

\* Any place may be taken out of a sum, not only the one that is picked.
LEMMA TakeOut ==
  ASSUME NEW n \in Nat, NEW t \in [1..n -> Nat]
  PROVE  \A s \in SUBSET (1..n) : \A x \in s : Sums(t)[s] = t[x] + Sums(t)[s \ {x}]
<1> DEFINE G == {s \in SUBSET (1..n) : \A x \in s : Sums(t)[s] = t[x] + Sums(t)[s \ {x}]}
<1>1. {} \in G
  OBVIOUS
<1>2. ASSUME NEW s \in SUBSET (1..n), s # {}, \A x \in s : s \ {x} \in G
      PROVE  s \in G
  <2> DEFINE p == Pick(s)
  <2>1. p \in s
    BY <1>2, PickIsIn
  <2>2. Sums(t)[s] = t[p] + Sums(t)[s \ {p}]
    BY <1>2, SumsRecursion DEF Added
  <2> HIDE DEF p
  <2>3. ASSUME NEW x \in s, x # p
        PROVE  Sums(t)[s] = t[x] + Sums(t)[s \ {x}]
    <3>1. s \ {p} \in G /\ s \ {x} \in G
      BY <1>2, <2>1
    <3>2. x \in s \ {p} /\ p \in s \ {x}
      BY <2>1, <2>3
    <3>3. Sums(t)[s \ {p}] = t[x] + Sums(t)[(s \ {p}) \ {x}]
      BY <3>1, <3>2
    <3>4. Sums(t)[s \ {x}] = t[p] + Sums(t)[(s \ {x}) \ {p}]
      BY <3>1, <3>2
    <3>5. (s \ {p}) \ {x} = (s \ {x}) \ {p}
      OBVIOUS
    <3>6. t[x] \in Nat /\ t[p] \in Nat
      BY <2>1
    <3>7. Sums(t)[(s \ {x}) \ {p}] \in Nat
      <4>1. (s \ {x}) \ {p} \in SUBSET (1..n)
        OBVIOUS
      <4> QED
        BY <4>1, SumsNat
    <3> DEFINE c == Sums(t)[(s \ {x}) \ {p}]
    <3>8. /\ Sums(t)[s \ {p}] = t[x] + c /\ Sums(t)[s \ {x}] = t[p] + c
          /\ c \in Nat
      BY <3>3, <3>4, <3>5, <3>7
    <3> HIDE DEF c
    <3>9. t[p] + (t[x] + c) = t[x] + (t[p] + c)
      BY <3>6, <3>8
    <3> QED
      BY <2>2, <3>8, <3>9
  <2> QED
    BY <2>2, <2>3
<1> HIDE DEF G
<1>3. SUBSET (1..n) \subseteq G
  BY <1>1, <1>2, PlaceInduction
<1> QED
  BY <1>3 DEF G

\* Two texts, of whatever lengths, have the same sum over places where they
\* agree.
LEMMA SameOn ==
  ASSUME NEW n \in Nat, NEW t \in [1..n -> Nat],
         NEW m \in Nat, NEW u \in [1..m -> Nat], n <= m
  PROVE  \A s \in SUBSET (1..n) : (\A x \in s : t[x] = u[x]) => Sums(t)[s] = Sums(u)[s]
<1> DEFINE G == {s \in SUBSET (1..n) : (\A x \in s : t[x] = u[x]) => Sums(t)[s] = Sums(u)[s]}
<1>0. SUBSET (1..n) \subseteq SUBSET (1..m)
  OBVIOUS
<1>1. {} \in G
  <2>1. Sums(t)[{}] = 0
    BY SumsRecursion DEF Added
  <2>2. Sums(u)[{}] = 0
    BY SumsRecursion DEF Added
  <2> QED
    BY <2>1, <2>2
<1>2. ASSUME NEW s \in SUBSET (1..n), s # {}, \A x \in s : s \ {x} \in G
      PROVE  s \in G
  <2> SUFFICES ASSUME \A x \in s : t[x] = u[x]
               PROVE  Sums(t)[s] = Sums(u)[s]
    OBVIOUS
  <2>1. Pick(s) \in s
    BY <1>2, PickIsIn
  <2>2. Sums(t)[s] = t[Pick(s)] + Sums(t)[s \ {Pick(s)}]
    BY <1>2, SumsRecursion DEF Added
  <2>3. Sums(u)[s] = u[Pick(s)] + Sums(u)[s \ {Pick(s)}]
    BY <1>0, <1>2, SumsRecursion DEF Added
  <2>4. Sums(t)[s \ {Pick(s)}] = Sums(u)[s \ {Pick(s)}]
    BY <1>2, <2>1
  <2> QED
    BY <2>1, <2>2, <2>3, <2>4
<1> HIDE DEF G
<1>3. SUBSET (1..n) \subseteq G
  BY <1>1, <1>2, PlaceInduction
<1> QED
  BY <1>3 DEF G

-----------------------------------------------------------------------------
(***************************************************************************)
(* Texts and their checksums.                                              *)
(***************************************************************************)

\* A text is a sequence of bytes other than 0.
LEMMA TextType ==
  ASSUME NEW n \in Nat, NEW t \in Texts(n)
  PROVE  /\ Len(t) \in 0..n /\ t \in [1..Len(t) -> Bytes \ {0}]
         /\ t \in Seq(Bytes \ {0}) /\ t \in [1..Len(t) -> Nat]
<1>1. PICK l \in 0..n : t \in [1..l -> Bytes \ {0}]
  BY DEF Texts
<1>2. t \in Seq(Bytes \ {0})
  BY <1>1
<1>3. Len(t) = l
  BY <1>1
<1>4. Bytes \ {0} \subseteq Nat
  BY DEF Bytes
<1>5. t \in [1..Len(t) -> Nat]
  BY <1>1, <1>3, <1>4
<1> QED
  BY <1>1, <1>2, <1>3, <1>5

\* The checksum is the sum over all places, in a byte.
LEMMA SumIs ==
  ASSUME NEW n \in Nat, NEW t \in Texts(n)
  PROVE  /\ Sum(t) = Sums(t)[1..Len(t)] % Byte
         /\ Sums(t)[1..Len(t)] \in Nat /\ Sum(t) \in Bytes
<1>1. Len(t) \in Nat /\ t \in [1..Len(t) -> Nat] /\ DOMAIN t = 1..Len(t)
  BY TextType
<1>2. Sums(t)[1..Len(t)] \in Nat
  <2>1. 1..Len(t) \in SUBSET (1..Len(t))
    OBVIOUS
  <2> QED
    BY <1>1, <2>1, SumsNat
<1>3. Sum(t) = Sums(t)[1..Len(t)] % Byte
  BY <1>1, FoldIsSum DEF Sum
<1>4. Byte \in Nat \ {0}
  BY DevParamAssumption
<1>5. \A a \in Nat : a % Byte \in 0..(Byte - 1)
  BY <1>4
<1> QED
  BY <1>2, <1>3, <1>5 DEF Bytes

\* Numbers that differ by less than a byte's values differ in a byte.
LEMMA BytesDiffer ==
  ASSUME NEW a \in Nat, NEW d \in 1..(Byte - 1)
  PROVE  (a + d) % Byte # a % Byte
<1> SUFFICES ASSUME (a + d) % Byte = a % Byte
             PROVE  FALSE
  OBVIOUS
<1> DEFINE p == a \div Byte
           q == (a + d) \div Byte
           r == a % Byte
<1>1. Byte \in Nat \ {0}
  BY DevParamAssumption
<1>2. p \in Nat /\ q \in Nat /\ r \in 0..(Byte - 1)
      /\ a = Byte * p + r /\ a + d = Byte * q + r
  BY <1>1, SMT
<1> HIDE DEF p, q, r
<1>3. d = Byte * q - Byte * p
  BY <1>1, <1>2
<1>4. Byte * (q - p) = Byte * q - Byte * p
  BY <1>1, <1>2
<1>5. q - p \in Int /\ d = Byte * (q - p)
  BY <1>2, <1>3, <1>4
<1>6. CASE q - p <= 0
  <2>1. Byte * (q - p) <= 0
    BY <1>1, <1>5, <1>6, SMT
  <2> QED
    BY <1>5, <2>1
<1>7. CASE q - p >= 1
  <2>1. Byte * (q - p) >= Byte
    BY <1>1, <1>5, <1>7, SMT
  <2> QED
    BY <1>1, <1>5, <2>1
<1> QED
  BY <1>5, <1>6, <1>7

\* The same without saying which of them is the greater.
LEMMA SumsDiffer ==
  ASSUME NEW c \in Nat, NEW x \in Bytes, NEW y \in Bytes, x # y
  PROVE  (x + c) % Byte # (y + c) % Byte
<1>1. Byte \in Nat /\ x \in Nat /\ y \in Nat /\ x < Byte /\ y < Byte
  BY DevParamAssumption DEF Bytes
<1>2. CASE x < y
  <2>1. x + c \in Nat /\ y - x \in 1..(Byte - 1) /\ (x + c) + (y - x) = y + c
    BY <1>1, <1>2
  <2> QED
    BY <2>1, BytesDiffer
<1>3. CASE y < x
  <2>1. y + c \in Nat /\ x - y \in 1..(Byte - 1) /\ (y + c) + (x - y) = x + c
    BY <1>1, <1>3
  <2> QED
    BY <2>1, BytesDiffer
<1> QED
  BY <1>1, <1>2, <1>3

\* Two texts that differ in one byte only have different checksums, be it a
\* byte in both texts or one by which the second is longer.
LEMMA OneByte ==
  ASSUME NEW t \in Texts(Limit), NEW u \in Texts(Limit), t # u, Len(t) <= Len(u),
         NEW k, \A j \in 1..Limit : j # k => At(t, j) = At(u, j)
  PROVE  Sum(t) # Sum(u)
<1> DEFINE n == Len(t)
           m == Len(u)
<1>0. Limit \in Nat
  BY DevParamAssumption
<1>1. /\ n \in Nat /\ n <= Limit /\ m \in Nat /\ m <= Limit /\ n <= m
      /\ t \in [1..n -> Bytes \ {0}] /\ u \in [1..m -> Bytes \ {0}]
      /\ t \in [1..n -> Nat] /\ u \in [1..m -> Nat]
  BY <1>0, TextType
<1>2. /\ Sum(t) = Sums(t)[1..n] % Byte /\ Sum(u) = Sums(u)[1..m] % Byte
      /\ Sums(t)[1..n] \in Nat
  BY <1>0, SumIs
<1>3. \A j : (j \in 1..n => At(t, j) = t[j]) /\ (j \in 1..m => At(u, j) = u[j])
             /\ (j \in (n + 1)..m => At(t, j) = 0)
  BY <1>1 DEF At
<1> HIDE DEF n, m
<1>4. ASSUME NEW j \in 1..n, j # k
      PROVE  t[j] = u[j]
  <2>1. j \in 1..Limit /\ j \in 1..m
    BY <1>0, <1>1
  <2> QED
    BY <1>3, <1>4, <2>1
<1>t. \A s \in SUBSET (1..n) : \A x \in s : Sums(t)[s] = t[x] + Sums(t)[s \ {x}]
  BY <1>1, TakeOut
<1>u. \A s \in SUBSET (1..m) : \A x \in s : Sums(u)[s] = u[x] + Sums(u)[s \ {x}]
  BY <1>1, TakeOut
<1>s. \A s \in SUBSET (1..n) : (\A x \in s : t[x] = u[x]) => Sums(t)[s] = Sums(u)[s]
  BY <1>1, SameOn, ZenonT(60)
<1>5. \A j \in (n + 1)..m : j = k
  <2> SUFFICES ASSUME NEW j \in (n + 1)..m, j # k
               PROVE  FALSE
    OBVIOUS
  <2>1. j \in 1..Limit /\ j \in 1..m
    BY <1>0, <1>1
  <2>2. At(t, j) = 0 /\ At(u, j) = u[j] /\ u[j] # 0
    BY <1>1, <1>3, <2>1
  <2> QED
    BY <2>1, <2>2
<1>6. CASE n = m
  <2>1. PICK i \in 1..n : t[i] # u[i]
    BY <1>1, <1>6
  <2>2. i = k
    BY <1>4, <2>1
  <2> DEFINE s == (1..n) \ {k}
             c == Sums(t)[s]
  <2>3. s \in SUBSET (1..n) /\ 1..n \in SUBSET (1..n) /\ k \in 1..n
    BY <2>1, <2>2
  <2>4. Sums(t)[1..n] = t[k] + Sums(t)[s] /\ Sums(u)[1..n] = u[k] + Sums(u)[s]
    BY <1>6, <1>t, <1>u, <2>3
  <2>5. Sums(t)[s] = Sums(u)[s]
    <3>1. \A x \in s : t[x] = u[x]
      BY <1>4
    <3> QED
      BY <1>s, <2>3, <3>1
  <2>6. c \in Nat
    BY <1>1, <2>3, SumsNat
  <2>7. t[k] \in Bytes /\ u[k] \in Bytes /\ t[k] # u[k]
    BY <1>1, <1>6, <2>1, <2>2
  <2> HIDE DEF s
  <2>8. Sums(t)[1..n] = t[k] + c /\ Sums(u)[1..m] = u[k] + c
    BY <1>6, <2>4, <2>5
  <2> HIDE DEF c
  <2> QED
    BY <1>2, <2>6, <2>7, <2>8, SumsDiffer
<1>7. CASE n < m
  <2>1. m = n + 1
    <3>1. n + 1 \in (n + 1)..m /\ m \in (n + 1)..m
      BY <1>1, <1>7
    <3> QED
      BY <1>5, <3>1
  <2>2. m = k
    BY <1>1, <1>5, <1>7
  <2>3. (1..m) \ {m} = 1..n
    BY <1>1, <2>1
  <2>4. 1..m \in SUBSET (1..m) /\ m \in 1..m /\ 1..n \in SUBSET (1..n)
    BY <1>1, <2>1
  <2>5. Sums(u)[1..m] = u[m] + Sums(u)[1..n]
    BY <1>u, <2>3, <2>4
  <2>6. Sums(t)[1..n] = Sums(u)[1..n]
    <3>1. \A x \in 1..n : t[x] = u[x]
      BY <1>1, <1>4, <2>1, <2>2
    <3> QED
      BY <1>s, <2>4, <3>1
  <2>7. u[m] \in 1..(Byte - 1)
    <3>1. u[m] \in Bytes \ {0}
      BY <1>1, <2>4
    <3>2. Byte \in Nat
      BY DevParamAssumption
    <3> QED
      BY <3>1, <3>2 DEF Bytes
  <2>8. Sums(u)[1..m] = Sums(t)[1..n] + u[m]
    <3>1. u[m] \in Nat
      BY <1>1, <2>4
    <3> QED
      BY <1>2, <2>5, <2>6, <3>1
  <2>9. (Sums(t)[1..n] + u[m]) % Byte # Sums(t)[1..n] % Byte
    BY <1>2, <2>7, BytesDiffer
  <2> QED
    BY <1>2, <2>8, <2>9
<1> QED
  BY <1>1, <1>6, <1>7

\* Two texts with the same checksum differ in two bytes at least.
LEMMA TwoBytes ==
  ASSUME NEW t \in Texts(Limit), NEW u \in Texts(Limit), t # u, Sum(t) = Sum(u)
  PROVE  Cardinality({k \in 1..Limit : At(t, k) # At(u, k)}) >= 2
<1> DEFINE D == {k \in 1..Limit : At(t, k) # At(u, k)}
<1>0. Limit \in Nat
  BY DevParamAssumption
<1>1. IsFiniteSet(D) /\ Cardinality(D) \in Nat
  <2>1. D \in SUBSET (1..Limit)
    OBVIOUS
  <2>2. IsFiniteSet(D) /\ Cardinality(D) \in 0..Limit
    BY <1>0, <2>1, PlaceSets
  <2> QED
    BY <2>2
<1>2. ASSUME NEW k, D \subseteq {k}
      PROVE  FALSE
  <2>1. \A j \in 1..Limit : j # k => At(t, j) = At(u, j)
    BY <1>2
  <2>2. \A j \in 1..Limit : j # k => At(u, j) = At(t, j)
    BY <2>1
  <2>3. Len(t) \in Nat /\ Len(u) \in Nat
    BY <1>0, TextType
  <2>4. CASE Len(t) <= Len(u)
    BY <2>1, <2>4, OneByte
  <2>5. CASE Len(u) <= Len(t)
    BY <2>2, <2>5, OneByte
  <2> QED
    BY <2>3, <2>4, <2>5
<1> HIDE DEF D
<1>3. Cardinality(D) # 0
  <2>1. Cardinality(D) = 0 => D = {}
    BY <1>1, FS_EmptySet
  <2>2. D # {}
    BY <1>2
  <2> QED
    BY <2>1, <2>2
<1>4. Cardinality(D) # 1
  <2>1. Cardinality(D) = 1 => \E x : D = {x}
    BY <1>1, FS_Singleton
  <2>2. ASSUME NEW x, D = {x}
        PROVE  FALSE
    BY <1>2, <2>2
  <2> QED
    BY <2>1, <2>2
<1>5. Cardinality(D) >= 2
  BY <1>1, <1>3, <1>4
<1> QED
  BY <1>5 DEF D

-----------------------------------------------------------------------------
(***************************************************************************)
(* What dev_param_read finds.                                              *)
(***************************************************************************)

\* Sizes.
LEMMA Sizes ==
  /\ Limit \in Nat \ {0} /\ Size \in Nat /\ Size = Limit + 3
  /\ Byte \in Nat /\ 0 \in Bytes /\ Byte - 1 \in Bytes /\ Tag \in Bytes /\ Byte - 1 # 0
  /\ Bytes \subseteq Nat
<1>1. Byte \in Nat \ {0, 1} /\ Tag \in 1..(Byte - 2) /\ Limit \in Nat \ {0}
  BY DevParamAssumption
<1> QED
  BY <1>1 DEF Size, Bytes

\* A text that is short enough ends in the record, before its first zero.
LEMMA TextEnds ==
  ASSUME NEW f \in [1..Size -> Bytes], Length(f) <= Limit
  PROVE  /\ Zeros(f) # {}
         /\ Length(f) \in 0..Limit /\ f[Length(f) + 3] = 0
         /\ \A i \in 3..(Length(f) + 2) : f[i] # 0
<1>1. Zeros(f) # {}
  BY Sizes DEF Length
<1>2. PICK e \in Zeros(f) : \A k \in Zeros(f) : e <= k
  <2>1. Zeros(f) \subseteq Nat
    BY Sizes DEF Zeros
  <2> QED
    BY <1>1, <2>1, Least
<1> DEFINE d == CHOOSE i \in Zeros(f) : \A k \in Zeros(f) : i <= k
<1>3. d \in Zeros(f) /\ \A k \in Zeros(f) : d <= k
  BY <1>2
<1>4. Length(f) = d - 3
  BY <1>1 DEF Length
<1> HIDE DEF d
<1>5. d \in 3..Size /\ f[d] = 0
  BY <1>3 DEF Zeros
<1>6. ASSUME NEW i \in 3..(d - 1)
      PROVE  f[i] # 0
  <2>1. i \in 3..Size /\ ~ (d <= i)
    BY <1>5, <1>6, Sizes
  <2> QED
    BY <1>3, <2>1 DEF Zeros
<1>7. /\ d - 3 \in 0..Limit /\ (d - 3) + 3 = d /\ (d - 3) + 2 = d - 1
  BY <1>5, Sizes
<1> QED
  BY <1>1, <1>4, <1>5, <1>6, <1>7

\* Such a text is one, place by place.
LEMMA TextRead ==
  ASSUME NEW f \in [1..Size -> Bytes], Length(f) <= Limit
  PROVE  /\ Text(f) \in Texts(Limit) /\ Len(Text(f)) = Length(f)
         /\ \A i \in 1..Length(f) : Text(f)[i] = f[i + 2]
<1> DEFINE l == Length(f)
<1>1. l \in 0..Limit /\ \A i \in 3..(l + 2) : f[i] # 0
  BY TextEnds
<1> HIDE DEF l
<1>2. \A i \in 3..(2 + l) : f[i] \in Bytes \ {0}
  <2> SUFFICES ASSUME NEW i \in 3..(2 + l)
               PROVE  f[i] \in Bytes \ {0}
    OBVIOUS
  <2>1. i \in 1..Size /\ i \in 3..(l + 2)
    BY <1>1, Sizes
  <2> QED
    BY <1>1, <2>1
<1>3. 3 \in Int /\ 2 + l \in Int /\ (3 <= 2 + l <=> l # 0) /\ ((2 + l) - 3) + 1 = l
  BY <1>1
<1> DEFINE t == SubSeq(f, 3, 2 + l)
<1>4. /\ t \in Seq(Bytes \ {0})
      /\ Len(t) = IF 3 <= 2 + l THEN ((2 + l) - 3) + 1 ELSE 0
      /\ \A i \in 1..(((2 + l) - 3) + 1) : t[i] = f[(3 + i) - 1]
  BY <1>2, <1>3, SubSeqProperties
<1>5. Text(f) = t
  BY DEF Text, l
<1> HIDE DEF t
<1>6. Len(t) = l
  BY <1>1, <1>3, <1>4
<1>7. \A i \in 1..l : t[i] = f[i + 2]
  <2>1. \A i \in 1..l : (3 + i) - 1 = i + 2
    BY <1>1
  <2> QED
    BY <1>3, <1>4, <2>1
<1>8. t \in [1..l -> Bytes \ {0}]
  BY <1>4, <1>6, LenProperties
<1>9. t \in Texts(Limit)
  BY <1>1, <1>8 DEF Texts
<1> QED
  BY <1>5, <1>6, <1>7, <1>9 DEF l

\* The reader takes a text or nothing.
LEMMA ReadType ==
  ASSUME NEW f \in [1..Size -> Bytes]
  PROVE  Read(f) \in Texts(Limit) \cup {None}
  BY TextRead DEF Read

\* A text that stands in the record with its terminator is found.
LEMMA TextFound ==
  ASSUME NEW f \in [1..Size -> Bytes], NEW u \in Texts(Limit),
         \A i \in 1..Len(u) : f[i + 2] = u[i], f[Len(u) + 3] = 0
  PROVE  Length(f) <= Limit /\ Text(f) = u
<1> DEFINE m == Len(u)
<1>1. m \in 0..Limit /\ u \in [1..m -> Bytes \ {0}] /\ u \in Seq(Bytes \ {0})
  BY Sizes, TextType
<1> HIDE DEF m
<1>2. \A i \in 1..m : f[i + 2] # 0
  BY <1>1 DEF m
<1>3. m + 3 \in Zeros(f)
  BY <1>1, Sizes DEF Zeros, m
<1>4. ASSUME NEW k \in Zeros(f)
      PROVE  m + 3 <= k
  <2>1. k \in 3..Size /\ f[k] = 0
    BY DEF Zeros
  <2> SUFFICES ASSUME k < m + 3
               PROVE  FALSE
    BY <1>1, <2>1, Sizes
  <2>2. k - 2 \in 1..m /\ (k - 2) + 2 = k
    BY <1>1, <2>1, Sizes
  <2>3. f[(k - 2) + 2] # 0
    BY <1>2, <2>2
  <2> QED
    BY <2>1, <2>2, <2>3
<1> DEFINE d == CHOOSE i \in Zeros(f) : \A k \in Zeros(f) : i <= k
<1>5. d \in Zeros(f) /\ \A k \in Zeros(f) : d <= k
  BY <1>3, <1>4
<1>6. Length(f) = d - 3
  BY <1>3 DEF Length
<1> HIDE DEF d
<1>7. d = m + 3
  <2>1. d <= m + 3 /\ m + 3 <= d /\ d \in 3..Size
    BY <1>3, <1>4, <1>5 DEF Zeros
  <2> QED
    BY <1>1, <2>1, Sizes
<1>8. Length(f) = m /\ Length(f) <= Limit
  BY <1>1, <1>6, <1>7, Sizes
<1>9. /\ Text(f) \in Texts(Limit) /\ Len(Text(f)) = m
      /\ \A i \in 1..m : Text(f)[i] = f[i + 2]
  BY <1>8, TextRead
<1>10. Text(f) \in Seq(Bytes \ {0})
  BY <1>9, Sizes, TextType
<1>11. Text(f) = u
  <2>1. \A i \in 1..m : Text(f)[i] = u[i]
    BY <1>9 DEF m
  <2> QED
    BY <1>1, <1>9, <1>10, <2>1, SeqEqual DEF m
<1> QED
  BY <1>8, <1>11

-----------------------------------------------------------------------------
(***************************************************************************)
(* The steps.                                                              *)
(***************************************************************************)

\* The empty text's checksum is 0.
LEMMA EmptyText == <<>> \in Texts(Limit) /\ Len(<<>>) = 0 /\ Sum(<<>>) = 0
<1>1. <<>> \in [1..0 -> Bytes \ {0}] /\ Len(<<>>) = 0 /\ 0 \in 0..Limit
  BY Sizes
<1>2. <<>> \in Texts(Limit)
  BY <1>1 DEF Texts
<1>3. Sums(<<>>)[1..0] = 0
  <2>1. <<>> \in [1..0 -> Nat] /\ 0 \in Nat /\ 1..0 \in SUBSET (1..0) /\ 1..0 = {}
    OBVIOUS
  <2>2. Sums(<<>>)[1..0] = Added(Sums(<<>>), <<>>, 1..0)
    BY <2>1, SumsRecursion
  <2> QED
    BY <2>1, <2>2 DEF Added
<1>4. Sum(<<>>) = Sums(<<>>)[1..0] % Byte
  BY <1>1, <1>2, Sizes, SumIs
<1>5. 0 % Byte = 0
  <2>1. Byte \in Nat \ {0}
    BY DevParamAssumption
  <2> QED
    BY <2>1
<1> QED
  BY <1>1, <1>2, <1>3, <1>4, <1>5

\* A new device satisfies the invariant.
LEMMA InitInv == Init => IInv
<1> SUFFICES ASSUME Init
             PROVE  IInv
  OBVIOUS
<1>1. PICK b \in {0, Byte - 1} : flash = [i \in 1..Size |-> b]
  BY DEF Init
<1>2. b \in Bytes /\ 2 \in 1..Size /\ \A i \in 2..Size : i \in 1..Size
  BY Sizes
<1>3. TypeOK
  BY <1>1, <1>2, EmptyText DEF Init, TypeOK
<1>4. ChecksumInv
  <2>1. CASE b = 0
    BY <1>1, <1>2, <2>1, EmptyText DEF Init, ChecksumInv
  <2>2. CASE b = Byte - 1
    BY <1>1, <1>2, <2>2 DEF ChecksumInv
  <2> QED
    BY <2>1, <2>2
<1>5. WholeInv
  BY DEF Init, WholeInv
<1> QED
  BY <1>3, <1>4, <1>5 DEF IInv

\* What dev_param_write puts together.
LEMMA RecordType ==
  ASSUME NEW text \in Texts(Limit), Len(text) < Limit,
         NEW stack \in [(Len(text) + 3)..Size -> Bytes]
  PROVE  /\ RecordOf(text, stack) \in [1..Size -> Bytes]
         /\ RecordOf(text, stack)[1] = Tag /\ RecordOf(text, stack)[2] = Sum(text)
         /\ \A i \in 1..Len(text) : RecordOf(text, stack)[i + 2] = text[i]
         /\ RecordOf(text, stack)[Len(text) + 3] = 0
<1> DEFINE m == Len(text)
<1>1. /\ m \in 0..Limit /\ m < Limit /\ text \in [1..m -> Bytes \ {0}]
      /\ stack \in [(m + 3)..Size -> Bytes] /\ Sum(text) \in Bytes
  BY Sizes, TextType, SumIs
<1> HIDE DEF m
<1> DEFINE Cell(i) == CASE i = 1 -> Tag
                        [] i = 2 -> Sum(text)
                        [] i \in 3..(2 + m) -> text[i - 2]
                        [] i = 3 + m -> 0
                        [] OTHER -> stack[i]
<1>2. RecordOf(text, stack) = [i \in 1..Size |-> Cell(i)]
  BY DEF RecordOf, m
<1>3. Cell(1) = Tag
  BY <1>1
<1>4. Cell(2) = Sum(text)
  BY <1>1
<1>5. \A i \in 1..m : Cell(i + 2) = text[i]
  <2> SUFFICES ASSUME NEW i \in 1..m
               PROVE  Cell(i + 2) = text[i]
    OBVIOUS
  <2>1. i + 2 \in 3..(2 + m) /\ (i + 2) - 2 = i /\ i + 2 # 1 /\ i + 2 # 2 /\ i + 2 # 3 + m
    BY <1>1
  <2> QED
    BY <2>1
<1>6. Cell(m + 3) = 0
  <2>1. m + 3 \notin 3..(2 + m) /\ m + 3 # 1 /\ m + 3 # 2 /\ m + 3 = 3 + m
    BY <1>1
  <2> QED
    BY <2>1
<1>7. ASSUME NEW i \in 1..Size, i > m + 3
      PROVE  Cell(i) = stack[i] /\ stack[i] \in Bytes
  <2>1. i # 1 /\ i # 2 /\ i \notin 3..(2 + m) /\ i # 3 + m /\ i \in (m + 3)..Size
    BY <1>1, <1>7, Sizes
  <2> QED
    BY <1>1, <2>1
<1> HIDE DEF Cell
<1>8. ASSUME NEW i \in 1..Size
      PROVE  Cell(i) \in Bytes
  <2>1. CASE i = 1 \/ i = 2
    BY <1>1, <1>3, <1>4, <2>1, Sizes
  <2>2. CASE i \in 3..(m + 2)
    <3>1. i - 2 \in 1..m /\ (i - 2) + 2 = i
      BY <1>1, <2>2
    <3>2. text[i - 2] \in Bytes
      BY <1>1, <3>1
    <3>3. Cell((i - 2) + 2) = text[i - 2]
      BY <1>5, <3>1
    <3> QED
      BY <3>1, <3>2, <3>3
  <2>3. CASE i = m + 3
    BY <1>6, <2>3, Sizes
  <2>4. CASE i > m + 3
    BY <1>7, <2>4
  <2> QED
    BY <1>1, <2>1, <2>2, <2>3, <2>4, Sizes
<1>9. /\ 1 \in 1..Size /\ 2 \in 1..Size /\ m + 3 \in 1..Size
      /\ \A i \in 1..m : i + 2 \in 1..Size
  BY <1>1, Sizes
<1> QED
  BY <1>2, <1>3, <1>4, <1>5, <1>6, <1>8, <1>9 DEF m

\* A record is stored in part or whole.
LEMMA SetTypeInv ==
  ASSUME IInv, NEW text \in Texts(Limit), NEW n \in 0..Size,
         NEW stack \in [(Len(text) + 3)..Size -> Bytes], SetType(text, stack, n)
  PROVE  IInv'
<1> DEFINE r == RecordOf(text, stack)
           m == Len(text)
<1>1. /\ Len(text) < Limit /\ airlink' = airlink
      /\ flash' = [i \in 1..Size |-> IF i <= n THEN r[i] ELSE flash[i]]
      /\ n >= 2 => sealed' = text /\ whole' = (n >= 3 + m)
      /\ ~ (n >= 2) => sealed' = sealed /\ whole' = whole
  BY DEF SetType
<1>2. /\ r \in [1..Size -> Bytes] /\ r[1] = Tag /\ r[2] = Sum(text)
      /\ \A i \in 1..m : r[i + 2] = text[i]
      /\ r[m + 3] = 0
  BY <1>1, RecordType
<1>3. m \in Nat /\ m < Limit
  BY <1>1, Sizes, TextType
<1> HIDE DEF r, m
<1>4. n \in Nat
  BY Sizes
<1>5. TypeOK'
  <2>1. flash' \in [1..Size -> Bytes]
    BY <1>1, <1>2 DEF IInv, TypeOK
  <2>2. sealed' \in Texts(Limit)
    BY <1>1 DEF IInv, TypeOK
  <2>3. whole \in BOOLEAN
    BY DEF IInv, TypeOK
  <2>4. whole' \in BOOLEAN
    <3>1. CASE n >= 2
      <4>1. (n >= 3 + m) \in BOOLEAN
        OBVIOUS
      <4>2. whole' = (n >= 3 + m)
        BY <1>1, <3>1, Zenon
      <4> QED
        BY <4>1, <4>2, Zenon
    <3>2. CASE ~ (n >= 2)
      BY <1>1, <2>3, <3>2, Zenon
    <3> QED
      BY <3>1, <3>2
  <2> QED
    BY <1>1, <2>1, <2>2, <2>4 DEF IInv, TypeOK
<1>6. ChecksumInv'
  <2>1. CASE n >= 2
    <3>1. flash'[2] = r[2]
      BY <1>1, <1>4, <2>1, Sizes
    <3>2. flash'[2] = Sum(sealed')
      BY <1>1, <1>2, <2>1, <3>1
    <3> QED
      BY <3>2 DEF ChecksumInv
  <2>2. CASE ~ (n >= 2)
    <3>1. \A i \in 2..Size : flash'[i] = flash[i]
      BY <1>1, <1>4, <2>2, Sizes
    <3>2. 2 \in 2..Size
      BY Sizes
    <3>3. sealed' = sealed
      BY <1>1, <2>2
    <3>4. \/ flash'[2] = Sum(sealed')
          \/ \A i \in 2..Size : flash'[i] = Byte - 1
      BY <3>1, <3>2, <3>3 DEF IInv, ChecksumInv
    <3> QED
      BY <3>4 DEF ChecksumInv, Size
  <2> QED
    BY <2>1, <2>2
<1>7. WholeInv'
  <2> SUFFICES ASSUME whole'
               PROVE  /\ flash'[1] = Tag /\ flash'[2] = Sum(sealed')
                      /\ Len(sealed') < Limit
                      /\ \A i \in 1..Len(sealed') : flash'[i + 2] = sealed'[i]
                      /\ flash'[Len(sealed') + 3] = 0
    BY DEF WholeInv
  <2>1. CASE n >= 2
    <3>1. sealed' = text /\ Len(sealed') = m /\ n >= 3 + m
      BY <1>1, <2>1 DEF m
    <3>2. \A i \in 1..(m + 3) : flash'[i] = r[i]
      BY <1>1, <1>3, <1>4, <3>1, Sizes
    <3>3. 1 \in 1..(m + 3) /\ 2 \in 1..(m + 3) /\ m + 3 \in 1..(m + 3)
      BY <1>3
    <3>4. \A i \in 1..m : i + 2 \in 1..(m + 3)
      BY <1>3
    <3>5. \A i \in 1..m : flash'[i + 2] = text[i]
      BY <1>2, <3>2, <3>4
    <3>6. flash'[1] = Tag /\ flash'[2] = Sum(text) /\ flash'[m + 3] = 0
      BY <1>2, <3>2, <3>3
    <3> QED
      BY <1>3, <3>1, <3>5, <3>6
  <2>2. CASE ~ (n >= 2)
    <3>1. \A i \in 2..Size : flash'[i] = flash[i]
      BY <1>1, <1>4, <2>2, Sizes
    <3>2. sealed' = sealed /\ whole' = whole
      BY <1>1, <2>2
    <3>3. /\ flash[1] = Tag /\ flash[2] = Sum(sealed) /\ Len(sealed) < Limit
          /\ \A i \in 1..Len(sealed) : flash[i + 2] = sealed[i]
          /\ flash[Len(sealed) + 3] = 0
      BY <3>2 DEF IInv, WholeInv
    <3>4. flash'[1] = Tag
      <4>1. flash'[1] = r[1] \/ flash'[1] = flash[1]
        BY <1>1, Sizes
      <4> QED
        BY <1>2, <3>3, <4>1
    <3>5. Len(sealed) \in Nat
      BY Sizes, TextType DEF IInv, TypeOK
    <3>6. /\ 2 \in 2..Size /\ Len(sealed) + 3 \in 2..Size
          /\ \A i \in 1..Len(sealed) : i + 2 \in 2..Size
      BY <3>3, <3>5, Sizes
    <3>7. \A i \in 1..Len(sealed) : flash'[i + 2] = sealed[i]
      BY <3>1, <3>3, <3>6
    <3>8. flash'[2] = Sum(sealed) /\ flash'[Len(sealed) + 3] = 0
      BY <3>1, <3>3, <3>6
    <3> QED
      BY <3>2, <3>3, <3>4, <3>7, <3>8
  <2> QED
    BY <2>1, <2>2
<1> QED
  BY <1>5, <1>6, <1>7 DEF IInv

\* Reading at a reset changes nothing but what airlink gets.
LEMMA PowerOnInv ==
  ASSUME IInv, PowerOn
  PROVE  IInv'
<1>1. flash' = flash /\ sealed' = sealed /\ whole' = whole /\ airlink' = Read(flash)
  BY DEF PowerOn
<1>2. TypeOK'
  BY <1>1, ReadType DEF IInv, TypeOK
<1>3. ChecksumInv'
  BY <1>1 DEF IInv, ChecksumInv, Size
<1>4. WholeInv'
  BY <1>1 DEF IInv, WholeInv
<1> QED
  BY <1>2, <1>3, <1>4 DEF IInv

-----------------------------------------------------------------------------
(***************************************************************************)
(* Theorems.                                                               *)
(***************************************************************************)

\* The strengthened invariant holds in every reachable state.
THEOREM Inductive == Spec => []IInv
<1>1. IInv /\ [Next]_vars => IInv'
  <2> SUFFICES ASSUME IInv, [Next]_vars
               PROVE  IInv'
    OBVIOUS
  <2>1. CASE \E text \in Texts(Limit), n \in 0..Size :
               \E stack \in [(Len(text) + 3)..Size -> Bytes] : SetType(text, stack, n)
    BY <2>1, SetTypeInv
  <2>2. CASE PowerOn
    BY <2>2, PowerOnInv
  <2>3. CASE UNCHANGED vars
    BY <2>3 DEF vars, IInv, TypeOK, ChecksumInv, WholeInv, Size
  <2> QED
    BY <2>1, <2>2, <2>3 DEF Next
<1> QED
  BY <1>1, InitInv, PTL DEF Spec

\* The record stays a record of bytes and airlink is started with nothing or
\* with a text that fits the Size bytes it is copied into, whatever the file
\* held (app_main.c:121-122, 132).
THEOREM TypeCorrect == Spec => []TypeOK
<1>1. IInv => TypeOK
  BY DEF IInv
<1> QED
  BY <1>1, Inductive, PTL

\* A text that was stored is read, whatever the stack held behind it and
\* however long it is (app_main.c:142-153, 116-132).
THEOREM Stored == Spec => []StoredIsRead
<1>1. IInv => StoredIsRead
  <2> SUFFICES ASSUME IInv, whole
               PROVE  Read(flash) = sealed
    BY DEF StoredIsRead
  <2>1. /\ flash[1] = Tag /\ flash[2] = Sum(sealed)
        /\ \A i \in 1..Len(sealed) : flash[i + 2] = sealed[i]
        /\ flash[Len(sealed) + 3] = 0
    BY DEF IInv, WholeInv
  <2>2. flash \in [1..Size -> Bytes] /\ sealed \in Texts(Limit)
    BY DEF IInv, TypeOK
  <2>3. Length(flash) <= Limit /\ Text(flash) = sealed
    BY <2>1, <2>2, TextFound
  <2> QED
    BY <2>1, <2>3 DEF Read
<1> QED
  BY <1>1, Inductive, PTL

\* What a short write left is taken for a type only if it is the text that the
\* checksum was made of, or differs from it in two bytes at least
\* (app_main.c:125-133).
THEOREM Noticed == Spec => []MixIsNoticed
<1>1. IInv => MixIsNoticed
  <2> SUFFICES ASSUME IInv, Read(flash) # None, Read(flash) # sealed
               PROVE  Cardinality({k \in 1..Limit :
                                     At(Read(flash), k) # At(sealed, k)}) >= 2
    BY DEF MixIsNoticed
  <2>1. flash \in [1..Size -> Bytes] /\ sealed \in Texts(Limit)
    BY DEF IInv, TypeOK
  <2>2. /\ Length(flash) <= Limit /\ flash[2] = Sum(Text(flash))
        /\ Read(flash) = Text(flash)
    BY DEF Read
  <2>3. Text(flash) \in Texts(Limit)
    BY <2>1, <2>2, TextRead
  <2>4. flash[2] = Sum(sealed)
    <3>1. /\ Length(flash) \in 0..Limit /\ flash[Length(flash) + 3] = 0
      BY <2>1, <2>2, TextEnds
    <3>2. Length(flash) + 3 \in 2..Size
      BY <3>1, Sizes
    <3> QED
      BY <3>1, <3>2, Sizes DEF IInv, ChecksumInv
  <2> QED
    BY <2>1, <2>2, <2>3, <2>4, TwoBytes
<1> QED
  BY <1>1, Inductive, PTL
=============================================================================
