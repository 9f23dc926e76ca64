---------------------------- MODULE RelayProofs ----------------------------
(***************************************************************************)
(* Proofs about Relay: for every payload that is well-formed (NodeTypes),  *)
(* every number of sources and every number of hops, a relay keeps the     *)
(* nodes, their TLS and their credentials, and an export's names are       *)
(* distinct and its groups resolve. What an exported node is read back as  *)
(* is a lemma about every builder and parser (RoundTrip); what aggregation *)
(* does to nodes and names are lemmas about its folds, which FoldLeft      *)
(* makes by the greatest element of a set of places.                       *)
(***************************************************************************)
EXTENDS Relay, FiniteSetTheorems, WellFoundedInduction, TLAPS

-----------------------------------------------------------------------------
(***************************************************************************)
(* Induction over the natural numbers, for a set rather than a predicate.  *)
(***************************************************************************)
LEMMA Induction ==
  ASSUME NEW S, 0 \in S, \A n \in Nat : n \in S => n + 1 \in S
  PROVE  \A n \in Nat : n \in S
<1>1. SUFFICES ASSUME Nat \ S # {} PROVE FALSE
  OBVIOUS
<1> DEFINE R == OpToRel(<, Nat)
<1>2. \A n, m \in Nat : n < m => <<n, m>> \in R
  <2>1. ASSUME NEW n \in Nat, NEW m \in Nat, n < m PROVE <<n, m>> \in R
    <3>1. <<n, m>> \in Nat \X Nat /\ <<n, m>>[1] = n /\ <<n, m>>[2] = m
      OBVIOUS
    <3>2. QED
      BY <3>1, <2>1, Zenon DEF OpToRel
  <2>2. QED
    BY <2>1
<1> HIDE DEF R
<1>3. PICK m \in Nat \ S : \A n \in Nat \ S : <<n, m>> \notin R
  <2>1. IsWellFoundedOn(R, Nat)
    BY NatLessThanWellFounded, Zenon DEF R
  <2>2. Nat \ S \subseteq Nat
    OBVIOUS
  <2>3. QED
    BY <1>1, <2>1, <2>2, WFMin
<1>4. m # 0 /\ m - 1 \in Nat /\ m - 1 < m /\ m = (m - 1) + 1
  BY <1>3
<1>5. m - 1 \in S
  BY <1>2, <1>3, <1>4
<1>6. QED
  BY <1>3, <1>4, <1>5

(***************************************************************************)
(* A set of numbers up to n that has an element has a greatest one.        *)
(***************************************************************************)
LEMMA MaxOf ==
  ASSUME NEW n \in Nat, NEW s \in SUBSET (1..n), s # {}
  PROVE  Max(s) \in s /\ \A i \in s : i <= Max(s)
<1> DEFINE P == {k \in Nat : \A t \in SUBSET (1..k) :
                    t # {} => \E x \in t : \A y \in t : x >= y}
<1>1. 0 \in P
  <2>1. 1..0 = {}
    OBVIOUS
  <2>2. QED
    BY <2>1
<1>2. ASSUME NEW k \in Nat, k \in P PROVE k + 1 \in P
  <2>1. SUFFICES ASSUME NEW t \in SUBSET (1..(k + 1)), t # {}
                 PROVE  \E x \in t : \A y \in t : x >= y
    OBVIOUS
  <2>2. CASE k + 1 \in t
    BY <2>2
  <2>3. CASE k + 1 \notin t
    <3>1. t \in SUBSET (1..k)
      BY <2>3
    <3>2. QED
      BY <3>1, <2>1, <1>2
  <2>4. QED
    BY <2>2, <2>3
<1>3. n \in P
  <2> HIDE DEF P
  <2>1. QED
    BY <1>1, <1>2, Induction
<1>4. \E x \in s : \A y \in s : x >= y
  BY <1>3
<1>5. Max(s) \in s /\ \A y \in s : Max(s) >= y
  BY <1>4, Zenon DEF Max
<1>6. QED
  BY <1>5

(***************************************************************************)
(* And a least one.                                                        *)
(***************************************************************************)
LEMMA MinOf ==
  ASSUME NEW n \in Nat, NEW s \in SUBSET (1..n), s # {}
  PROVE  Min(s) \in s /\ \A i \in s : Min(s) <= i
<1> DEFINE r == {n + 1 - i : i \in s}
<1>1. r \in SUBSET (1..n) /\ r # {}
  <2>1. \A i \in s : n + 1 - i \in 1..n
    OBVIOUS
  <2>2. PICK i \in s : TRUE
    OBVIOUS
  <2>3. n + 1 - i \in r
    OBVIOUS
  <2>4. QED
    BY <2>1, <2>3
<1>2. Max(r) \in r /\ \A i \in r : i <= Max(r)
  <2> HIDE DEF r
  <2>1. QED
    BY <1>1, MaxOf
<1>3. PICK m \in s : Max(r) = n + 1 - m
  BY <1>2
<1>4. \A i \in s : m <= i
  <2>1. ASSUME NEW i \in s PROVE m <= i
    <3>1. n + 1 - i \in r
      OBVIOUS
    <3>2. n + 1 - i <= n + 1 - m
      BY <3>1, <1>2, <1>3
    <3>3. i \in Nat /\ m \in Nat
      OBVIOUS
    <3>4. QED
      BY <3>2, <3>3
  <2>2. QED
    BY <2>1
<1>5. QED
  BY <1>4, Zenon DEF Min

(***************************************************************************)
(* A fold over the places 1..n, as FoldLeft defines it by the greatest     *)
(* element of a set of places: b at the start, and step h[i] at place i.   *)
(* FoldOn is what the recursive function of the library satisfies, FoldsIn *)
(* what is known of it before its values are known to lie in T, FromLeft   *)
(* the fold from left to right, and RunsOn says that j makes it.           *)
(***************************************************************************)
FoldOn(it, n, b, h) ==
  \A s \in SUBSET (1..n) :
    it[s] = IF s = {} THEN b ELSE h[Max(s)][it[s \ {Max(s)}]]
FoldsIn(j, T, n, b, h) ==
  \A s \in SUBSET (1..n) :
    IF s = {} THEN j[s] = b
    ELSE j[s \ {Max(s)}] \in T => j[s] = h[Max(s)][j[s \ {Max(s)}]]
FromLeft(p, n, b, h) == p[0] = b /\ \A i \in 1..n : p[i] = h[i][p[i - 1]]
RunsOn(j, T, n, b, h) ==
  \E p \in [0..n -> T] : FromLeft(p, n, b, h) /\ j[1..n] = p[n]

(***************************************************************************)
(* A fold whose steps are functions on T exists, with values in T.         *)
(***************************************************************************)
LEMMA FoldExists ==
  ASSUME NEW T, NEW b \in T, NEW n \in Nat, NEW h \in [1..n -> [T -> T]]
  PROVE  \E it \in [SUBSET (1..n) -> T] : FoldOn(it, n, b, h)
<1> DEFINE Good(k, it) == FoldOn(it, k, b, h)
           Some(k) == k <= n => \E it \in [SUBSET (1..k) -> T] : Good(k, it)
           P == {k \in Nat : Some(k)}
<1> USE DEF FoldOn
<1>1. Some(0)
  <2> DEFINE it == [s \in SUBSET (1..0) |-> b]
  <2>1. it \in [SUBSET (1..0) -> T]
    OBVIOUS
  <2>2. Good(0, it)
    <3>1. 1..0 = {}
      OBVIOUS
    <3>2. \A s \in SUBSET (1..0) : s = {}
      BY <3>1
    <3>3. QED
      BY <3>2
  <2>3. QED
    BY <2>1, <2>2
<1>2. ASSUME NEW k \in Nat, Some(k) PROVE Some(k + 1)
  <2>1. SUFFICES ASSUME k + 1 <= n
                 PROVE  \E it \in [SUBSET (1..(k + 1)) -> T] : Good(k + 1, it)
    OBVIOUS
  <2>2. PICK it \in [SUBSET (1..k) -> T] : Good(k, it)
    <3>1. k <= n
      BY <2>1
    <3>2. QED
      BY <3>1, <1>2, Zenon
  <2>3. k + 1 \in 1..n /\ h[k + 1] \in [T -> T]
    BY <2>1
  <2> DEFINE jt == [s \in SUBSET (1..(k + 1)) |->
                      IF k + 1 \in s THEN h[k + 1][it[s \ {k + 1}]] ELSE it[s]]
  <2>4. \A s \in SUBSET (1..(k + 1)) : s \ {k + 1} \in SUBSET (1..k)
    OBVIOUS
  <2>5. \A s \in SUBSET (1..(k + 1)) : k + 1 \notin s => s \in SUBSET (1..k)
    OBVIOUS
  <2>6. jt \in [SUBSET (1..(k + 1)) -> T]
    BY <2>3, <2>4, <2>5
  <2>7. Good(k + 1, jt)
    <3>1. SUFFICES ASSUME NEW s \in SUBSET (1..(k + 1))
                   PROVE  jt[s] = IF s = {} THEN b
                                  ELSE h[Max(s)][jt[s \ {Max(s)}]]
      OBVIOUS
    <3>2. CASE k + 1 \in s
      <4>1. Max(s) = k + 1
        <5>1. k + 1 \in Nat /\ s # {}
          BY <3>2
        <5>2. Max(s) \in s /\ k + 1 <= Max(s)
          BY <5>1, <3>2, MaxOf
        <5>3. \A m \in 1..(k + 1) : k + 1 <= m => m = k + 1
          OBVIOUS
        <5>4. Max(s) \in 1..(k + 1)
          BY <5>2, <3>1
        <5>5. QED
          BY <5>2, <5>3, <5>4
      <4>2. jt[s \ {k + 1}] = it[s \ {k + 1}]
        BY <2>4
      <4>3. QED
        BY <3>2, <4>1, <4>2
    <3>3. CASE k + 1 \notin s
      <4>1. s \in SUBSET (1..k)
        BY <3>3
      <4>2. jt[s] = it[s]
        BY <3>3
      <4>3. CASE s = {}
        BY <4>1, <4>2, <4>3, <2>2
      <4>4. CASE s # {}
        <5>1. s \ {Max(s)} \in SUBSET (1..k) /\ k + 1 \notin s \ {Max(s)}
          BY <4>1, <3>3
        <5>2. jt[s \ {Max(s)}] = it[s \ {Max(s)}]
          BY <5>1
        <5>3. QED
          BY <4>1, <4>2, <4>4, <5>2, <2>2
      <4>5. QED
        BY <4>3, <4>4
    <3>4. QED
      BY <3>2, <3>3
  <2>8. QED
    BY <2>6, <2>7
<1>3. n \in P
  <2> HIDE DEF Some
  <2>1. 0 \in P /\ \A k \in Nat : k \in P => k + 1 \in P
    BY <1>1, <1>2
  <2> HIDE DEF P
  <2>2. QED
    BY <2>1, Induction
<1>4. Some(n)
  <2> HIDE DEF Some
  <2>1. QED
    BY <1>3
<1>5. n <= n
  OBVIOUS
<1>6. QED
  BY <1>4, <1>5, Zenon

(***************************************************************************)
(* A fold runs through its prefixes from the left.                         *)
(***************************************************************************)
LEMMA FoldRun ==
  ASSUME NEW T, NEW b \in T, NEW n \in Nat, NEW h \in [1..n -> [T -> T]], NEW j,
         FoldsIn(j, T, n, b, h)
  PROVE  RunsOn(j, T, n, b, h)
<1> DEFINE Step(i) == j[1..i] \in T /\ (i # 0 => j[1..i] = h[i][j[1..(i - 1)]])
           P == {i \in Nat : i <= n => Step(i)}
<1>1. j[1..0] = b /\ b \in T
  <2>1. 1..0 = {} /\ {} \in SUBSET (1..n)
    OBVIOUS
  <2>2. QED
    BY <2>1 DEF FoldsIn
<1>2. ASSUME NEW i \in Nat, i + 1 <= n, Step(i) PROVE Step(i + 1)
  <2> DEFINE s == 1..(i + 1)
  <2>1. s \in SUBSET (1..n) /\ s # {} /\ i + 1 \in s /\ i + 1 \in Nat
    <3>1. \A x \in s : x \in 1..n
      BY <1>2
    <3>2. i + 1 \in s /\ i + 1 \in Nat
      OBVIOUS
    <3> HIDE DEF s
    <3>3. QED
      BY <3>1, <3>2
  <2>2. Max(s) = i + 1
    <3>1. Max(s) \in s /\ i + 1 <= Max(s)
      BY <2>1, MaxOf
    <3>2. \A m \in s : i + 1 <= m => m = i + 1
      OBVIOUS
    <3>3. QED
      BY <3>1, <3>2
  <2>3. s \ {i + 1} = 1..i /\ i + 1 \in 1..n /\ (i + 1) - 1 = i
    BY <1>2
  <2> HIDE DEF s
  <2>4. j[1..i] \in T
    BY <1>2
  <2>5. j[s] = h[i + 1][j[1..i]]
    BY <2>1, <2>2, <2>3, <2>4 DEF FoldsIn
  <2>6. h[i + 1][j[1..i]] \in T
    BY <2>3, <2>4
  <2>7. QED
    BY <2>3, <2>5, <2>6 DEF s
<1>3. \A i \in 0..n : Step(i)
  <2> HIDE DEF Step
  <2>1. 0 \in P
    BY <1>1 DEF Step
  <2>2. \A i \in Nat : i \in P => i + 1 \in P
    BY <1>2
  <2> HIDE DEF P
  <2>3. \A i \in Nat : i \in P
    BY <2>1, <2>2, Induction
  <2>4. QED
    BY <2>3 DEF P
<1> DEFINE p == [i \in 0..n |-> j[1..i]]
<1>4. p \in [0..n -> T]
  BY <1>3
<1>5. p[0] = b /\ j[1..n] = p[n]
  BY <1>1
<1>6. \A i \in 1..n : p[i] = h[i][p[i - 1]]
  BY <1>3
<1> HIDE DEF p
<1>7. QED
  BY <1>4, <1>5, <1>6 DEF FromLeft, RunsOn

(***************************************************************************)
(* And ends in T.                                                          *)
(***************************************************************************)
LEMMA FoldIn ==
  ASSUME NEW T, NEW b \in T, NEW n \in Nat, NEW h \in [1..n -> [T -> T]], NEW j,
         FoldsIn(j, T, n, b, h)
  PROVE  j[1..n] \in T
<1>1. PICK p \in [0..n -> T] : j[1..n] = p[n]
  BY FoldRun DEF RunsOn
<1>2. QED
  BY <1>1

(***************************************************************************)
(* A function on 1..n is a sequence of its own values.                     *)
(***************************************************************************)
LEMMA SeqOver ==
  ASSUME NEW n \in Nat, NEW s, s = [k \in 1..n |-> s[k]]
  PROVE  IsSeq(s) /\ DOMAIN s = 1..n /\ Len(s) = n
<1>1. s \in [1..n -> ToSet(s)]
  BY DEF ToSet
<1>2. s \in Seq(ToSet(s))
  BY <1>1
<1>3. QED
  BY <1>2 DEF IsSeq

(***************************************************************************)
(* What IsSeq says of length and domain.                                   *)
(***************************************************************************)
LEMMA IsSeqIn ==
  ASSUME NEW s, IsSeq(s)
  PROVE  Len(s) \in Nat /\ DOMAIN s = 1..Len(s) /\ s = [k \in 1..Len(s) |-> s[k]]
<1>1. s \in Seq(ToSet(s))
  BY DEF IsSeq
<1>2. QED
  BY <1>1

(***************************************************************************)
(* A sequence over a set is one over its own values.                       *)
(***************************************************************************)
LEMMA IsSeqOf ==
  ASSUME NEW T, NEW s \in Seq(T)
  PROVE  IsSeq(s) /\ ToSet(s) \subseteq T
<1>1. s \in [1..Len(s) -> T] /\ Len(s) \in Nat
  OBVIOUS
<1>2. s = [k \in 1..Len(s) |-> s[k]]
  OBVIOUS
<1>3. QED
  BY <1>1, <1>2, SeqOver DEF ToSet

(***************************************************************************)
(* A sequence over its own values is one over any set that has them.       *)
(***************************************************************************)
LEMMA SeqWithin ==
  ASSUME NEW s, IsSeq(s), NEW T, \A k \in DOMAIN s : s[k] \in T
  PROVE  s \in Seq(T)
<1>1. Len(s) \in Nat /\ DOMAIN s = 1..Len(s) /\ s = [k \in 1..Len(s) |-> s[k]]
  BY IsSeqIn
<1>2. s \in [1..Len(s) -> T]
  BY <1>1
<1>3. QED
  BY <1>1, <1>2

(***************************************************************************)
(* Sequences are equal when they are as long and equal at every place.     *)
(***************************************************************************)
LEMMA SameSeq ==
  ASSUME NEW S, NEW a \in Seq(S), NEW b \in Seq(S), Len(a) = Len(b),
         \A i \in 1..Len(a) : a[i] = b[i]
  PROVE  a = b
<1>1. a \in [1..Len(a) -> S] /\ b \in [1..Len(a) -> S]
  OBVIOUS
<1>2. QED
  BY <1>1

(***************************************************************************)
(* A function on 1..n has finitely many values.                            *)
(***************************************************************************)
LEMMA RangeFinite ==
  ASSUME NEW n \in Nat, NEW f
  PROVE  IsFiniteSet({f[i] : i \in 1..n})
<1> DEFINE T == {f[i] : i \in 1..n}
           g == [i \in 1..n |-> f[i]]
<1>1. g \in Surjection(1..n, T)
  BY DEF Surjection
<1>2. IsFiniteSet(1..n)
  BY FS_Interval
<1> HIDE DEF T, g
<1>3. IsFiniteSet(T)
  BY <1>1, <1>2, FS_Surjection
<1>4. QED
  BY <1>3 DEF T

(***************************************************************************)
(* The steps of the fold that collects the places in S.                    *)
(***************************************************************************)
PlaceSteps(n, S) ==
  [i \in 1..n |-> [t \in Seq(S \cap (1..n)) |-> IF i \in S THEN Append(t, i) ELSE t]]

(***************************************************************************)
(* Places is that fold.                                                    *)
(***************************************************************************)
LEMMA PlacesFold ==
  ASSUME NEW n \in Nat, NEW S
  PROVE  \E p \in [0..n -> Seq(S \cap (1..n))] :
           FromLeft(p, n, <<>>, PlaceSteps(n, S)) /\ Places(n, S) = p[n]
<1> DEFINE T == Seq(S \cap (1..n))
           seq == [i \in 1..n |-> i]
           h == PlaceSteps(n, S)
           E(g) == g = [s \in SUBSET DOMAIN seq |->
                     IF s = {} THEN <<>>
                     ELSE LET x == Max(s) IN
                       IF seq[x] \in S THEN Append(g[s \ {x}], seq[x]) ELSE g[s \ {x}]]
           j == CHOOSE g : E(g)
<1>1. <<>> \in T /\ h \in [1..n -> [T -> T]]
      /\ \A i \in 1..n, t \in T : h[i][t] = IF i \in S THEN Append(t, i) ELSE t
  BY DEF PlaceSteps
<1> HIDE DEF h
<1>2. PICK it \in [SUBSET (1..n) -> T] : FoldOn(it, n, <<>>, h)
  <2> HIDE DEF T
  <2>1. QED
    BY <1>1, FoldExists
<1>3. \A s \in SUBSET (1..n) : s # {} => Max(s) \in 1..n /\ s \ {Max(s)} \in SUBSET (1..n)
  BY MaxOf
<1>4. E(it)
  <2> HIDE DEF T
  <2>1. ASSUME NEW s \in SUBSET (1..n), s # {}
        PROVE  it[s] = IF Max(s) \in S THEN Append(it[s \ {Max(s)}], Max(s))
                       ELSE it[s \ {Max(s)}]
    <3>1. Max(s) \in 1..n /\ it[s \ {Max(s)}] \in T
      BY <2>1, <1>2, <1>3
    <3>2. it[s] = h[Max(s)][it[s \ {Max(s)}]]
      BY <2>1, <1>2 DEF FoldOn
    <3>3. QED
      BY <3>1, <3>2, <1>1
  <2>2. QED
    BY <2>1, <1>2, <1>3 DEF FoldOn
<1>5. E(j)
  <2> HIDE DEF E
  <2>1. QED
    BY <1>4, Zenon
<1>6. Places(n, S) = j[1..n]
  <2>1. DOMAIN seq = 1..n
    OBVIOUS
  <2>2. Places(n, S) = j[DOMAIN seq]
    BY DEF Places, FoldLeft, MapThenFoldSet
  <2>3. QED
    BY <2>1, <2>2
<1>7. FoldsIn(j, T, n, <<>>, h)
  <2> HIDE DEF T, j
  <2>1. \A s \in SUBSET (1..n) : s # {} =>
          j[s] = IF Max(s) \in S THEN Append(j[s \ {Max(s)}], Max(s)) ELSE j[s \ {Max(s)}]
    BY <1>5, <1>3
  <2>2. QED
    BY <2>1, <1>1, <1>5, <1>3 DEF FoldsIn
<1> HIDE DEF T, j
<1>8. RunsOn(j, T, n, <<>>, h)
  BY <1>1, <1>7, FoldRun
<1>9. QED
  BY <1>6, <1>8 DEF T, h, RunsOn

(***************************************************************************)
(* It collects only places in S ...                                        *)
(***************************************************************************)
LEMMA PlacesRun ==
  ASSUME NEW n \in Nat, NEW S
  PROVE  Places(n, S) \in Seq(S \cap (1..n))
<1>1. PICK p \in [0..n -> Seq(S \cap (1..n))] : Places(n, S) = p[n]
  BY PlacesFold
<1>2. QED
  BY <1>1

(***************************************************************************)
(* ... and every one of them.                                              *)
(***************************************************************************)
LEMMA PlacesAll ==
  ASSUME NEW n \in Nat, NEW S
  PROVE  \A i \in S \cap (1..n) : i \in ToSet(Places(n, S))
<1> DEFINE B == S \cap (1..n)
           T == Seq(B)
           h == PlaceSteps(n, S)
<1>1. \A i \in 1..n, t \in T : h[i][t] = IF i \in S THEN Append(t, i) ELSE t
  BY DEF PlaceSteps
<1> HIDE DEF h
<1>2. PICK p \in [0..n -> T] : FromLeft(p, n, <<>>, h) /\ Places(n, S) = p[n]
  BY PlacesFold DEF h
<1> DEFINE Covers(k) == \A i \in S \cap (1..k) : i \in ToSet(p[k])
           P == {k \in Nat : k <= n => Covers(k)}
<1>3. Covers(0)
  OBVIOUS
<1>4. ASSUME NEW k \in Nat, k + 1 <= n, Covers(k) PROVE Covers(k + 1)
  <2>1. k + 1 \in 1..n /\ k \in 0..n /\ (k + 1) - 1 = k
    BY <1>4
  <2>2. p[k + 1] = IF k + 1 \in S THEN Append(p[k], k + 1) ELSE p[k]
    <3>1. p[k + 1] = h[k + 1][p[k]] /\ p[k] \in T
      BY <2>1, <1>2 DEF FromLeft
    <3>2. QED
      BY <2>1, <3>1, <1>1
  <2>3. p[k] \in T
    BY <2>1, <1>2
  <2> DEFINE a == p[k]
  <2>4. a \in T /\ \A i \in S \cap (1..k) : i \in ToSet(a)
    BY <2>3, <1>4
  <2> HIDE DEF a, T
  <2>5. CASE k + 1 \in S
    <3>1. k + 1 \in B
      BY <2>1, <2>5
    <3> HIDE DEF B
    <3>2. /\ DOMAIN Append(a, k + 1) = 1..(Len(a) + 1) /\ Len(a) \in Nat
          /\ DOMAIN a = 1..Len(a)
          /\ Append(a, k + 1)[Len(a) + 1] = k + 1
          /\ \A i \in 1..Len(a) : Append(a, k + 1)[i] = a[i]
      BY <2>4, <3>1 DEF T
    <3>3. ToSet(a) \subseteq ToSet(Append(a, k + 1)) /\ k + 1 \in ToSet(Append(a, k + 1))
      <4>1. ASSUME NEW i \in DOMAIN a PROVE a[i] \in ToSet(Append(a, k + 1))
        <5>1. i \in DOMAIN Append(a, k + 1) /\ Append(a, k + 1)[i] = a[i]
          BY <3>2
        <5>2. QED
          BY <5>1 DEF ToSet
      <4>2. Len(a) + 1 \in DOMAIN Append(a, k + 1)
        BY <3>2
      <4>3. k + 1 \in ToSet(Append(a, k + 1))
        BY <4>2, <3>2 DEF ToSet
      <4>4. QED
        BY <4>1, <4>3 DEF ToSet
    <3>4. p[k + 1] = Append(a, k + 1)
      BY <2>2, <2>5 DEF a
    <3>5. \A i \in S \cap (1..(k + 1)) : i = k + 1 \/ i \in S \cap (1..k)
      OBVIOUS
    <3>6. QED
      BY <2>4, <3>3, <3>4, <3>5
  <2>6. CASE k + 1 \notin S
    <3>1. p[k + 1] = a
      BY <2>2, <2>6 DEF a
    <3>2. \A i \in S \cap (1..(k + 1)) : i \in S \cap (1..k)
      BY <2>6
    <3>3. QED
      BY <2>4, <3>1, <3>2
  <2>7. QED
    BY <2>5, <2>6
<1>5. n \in P
  <2> HIDE DEF Covers
  <2>1. 0 \in P /\ \A k \in Nat : k \in P => k + 1 \in P
    BY <1>3, <1>4
  <2> HIDE DEF P
  <2>2. QED
    BY <2>1, Induction
<1>6. Covers(n)
  <2> HIDE DEF Covers
  <2>1. QED
    BY <1>5
<1>7. QED
  BY <1>2, <1>6

(***************************************************************************)
(* Picked takes the elements at those places.                              *)
(***************************************************************************)
LEMMA PickedAt ==
  ASSUME NEW s, IsSeq(s), NEW S
  PROVE  LET at == Places(Len(s), S) IN
           /\ at \in Seq(S \cap DOMAIN s)
           /\ Picked(s, S) = [k \in 1..Len(at) |-> s[at[k]]]
           /\ Len(at) \in Nat
<1> DEFINE at == Places(Len(s), S)
<1>1. Len(s) \in Nat /\ DOMAIN s = 1..Len(s)
  BY IsSeqIn
<1>2. at \in Seq(S \cap DOMAIN s)
  BY <1>1, PlacesRun
<1>3. Picked(s, S) = [k \in DOMAIN at |-> s[at[k]]]
  BY DEF Picked
<1> HIDE DEF at
<1>4. DOMAIN at = 1..Len(at) /\ Len(at) \in Nat
  BY <1>2
<1>5. QED
  BY <1>2, <1>3, <1>4 DEF at

(***************************************************************************)
(* Every element picked is an element at a place of S.                     *)
(***************************************************************************)
LEMMA PickedIn ==
  ASSUME NEW s, IsSeq(s), NEW S
  PROVE  /\ IsSeq(Picked(s, S))
         /\ \A k \in DOMAIN Picked(s, S) : \E i \in S \cap DOMAIN s : Picked(s, S)[k] = s[i]
<1> DEFINE at == Places(Len(s), S)
           p == Picked(s, S)
<1>1. at \in Seq(S \cap DOMAIN s) /\ p = [k \in 1..Len(at) |-> s[at[k]]] /\ Len(at) \in Nat
  BY PickedAt
<1> HIDE DEF at, p
<1>2. p = [k \in 1..Len(at) |-> p[k]]
  BY <1>1
<1>3. IsSeq(p) /\ DOMAIN p = 1..Len(at)
  BY <1>1, <1>2, SeqOver
<1>4. \A k \in 1..Len(at) : at[k] \in S \cap DOMAIN s
  BY <1>1
<1>5. QED
  BY <1>1, <1>3, <1>4 DEF p

(***************************************************************************)
(* What is picked from a sequence over T is a sequence over T.             *)
(***************************************************************************)
LEMMA PickedOf ==
  ASSUME NEW T, NEW s \in Seq(T), NEW S
  PROVE  Picked(s, S) \in Seq(T)
<1>1. IsSeq(s) /\ \A i \in DOMAIN s : s[i] \in T
  BY IsSeqOf
<1>2. /\ IsSeq(Picked(s, S))
      /\ \A k \in DOMAIN Picked(s, S) : \E i \in S \cap DOMAIN s : Picked(s, S)[k] = s[i]
  BY <1>1, PickedIn
<1> DEFINE p == Picked(s, S)
<1> HIDE DEF p
<1>3. \A k \in DOMAIN p : p[k] \in T
  BY <1>1, <1>2 DEF p
<1>4. QED
  BY <1>2, <1>3, SeqWithin DEF p

-----------------------------------------------------------------------------
(***************************************************************************)
(* The fields of merged records.                                           *)
(***************************************************************************)
LEMMA MergeIn ==
  \A f, g, k : k \in DOMAIN (f ?? g) <=> k \in DOMAIN f \/ k \in DOMAIN g
  BY DEF ??

(***************************************************************************)
(* A field of the first record wins.                                       *)
(***************************************************************************)
LEMMA MergeLeft == \A f, g, k : k \in DOMAIN f => (f ?? g)[k] = f[k]
  BY DEF ??

(***************************************************************************)
(* A field that only the second record has stays.                          *)
(***************************************************************************)
LEMMA MergeRight ==
  \A f, g, k : k \in DOMAIN g /\ k \notin DOMAIN f => (f ?? g)[k] = g[k]
  BY DEF ??

(***************************************************************************)
(* A field looked up in a record, or in one of two that are merged.        *)
(***************************************************************************)
LEMMA GetIn ==
  /\ \A f, k : k \in DOMAIN f => Get(f, k) = f[k]
  /\ \A f, g, k : k \notin DOMAIN g => Get(f ?? g, k) = Get(f, k)
  /\ \A f, g, k : k \notin DOMAIN f => Get(f ?? g, k) = Get(g, k)
<1>1. \A f, k : k \in DOMAIN f => Get(f, k) = f[k]
  BY DEF Get
<1>2. \A f, g, k : k \notin DOMAIN f /\ k \notin DOMAIN g => Get(f, k) = Get(g, k)
  BY DEF Get
<1>3. QED
  BY <1>1, <1>2, MergeIn, MergeLeft, MergeRight

(***************************************************************************)
(* The record of one field, and the one of none.                           *)
(***************************************************************************)
LEMMA OneIn ==
  /\ \A k, v, x : x \in DOMAIN One(k, v) <=> x = k
  /\ \A k, v : One(k, v)[k] = v
  /\ \A x : x \notin DOMAIN Empty
  BY DEF One, Empty

(***************************************************************************)
(* A field that is left out when its value is empty.                       *)
(***************************************************************************)
LEMMA OptIn ==
  /\ \A k, v, x : x \in DOMAIN Opt(k, v) => x = k
  /\ \A k, v : Get(Opt(k, v), k) = v
  BY OneIn DEF Opt, Get

(***************************************************************************)
(* A text that is left out when there is none.                             *)
(***************************************************************************)
LEMMA OptTextIn ==
  /\ \A k, t, x : x \in DOMAIN OptText(k, t) => x = k /\ OptText(k, t)[k] = t
  /\ \A k, t : t # None => k \in DOMAIN OptText(k, t)
  BY OneIn DEF OptText

(***************************************************************************)
(* The fields picked from a record.                                        *)
(***************************************************************************)
LEMMA PickIn ==
  /\ \A f, S, k : k \in DOMAIN Pick(f, S) <=> k \in DOMAIN f /\ k \in S
  /\ \A f, S, k : k \in DOMAIN f /\ k \in S => Pick(f, S)[k] = f[k]
  BY DEF Pick

(***************************************************************************)
(* The fields of a record under other names.                               *)
(***************************************************************************)
LEMMA RekeyIn ==
  /\ \A f, r, k : k \in DOMAIN Rekey(f, r) <=> k \in DOMAIN r /\ r[k] \in DOMAIN f
  /\ \A f, r, k : k \in DOMAIN r /\ r[k] \in DOMAIN f => Rekey(f, r)[k] = f[r[k]]
  BY DEF Rekey

(***************************************************************************)
(* append_transport_params writes only a transport's own parameters.       *)
(***************************************************************************)
LEMMA TransportParams ==
  ASSUME NEW n, n.transport \in Transports
  PROVE  \A k \in DOMAIN append_transport_params(n) : k \in {"type", "host", "path", "serviceName"}
<1>1. CASE n.transport = "tcp"
  BY <1>1, OneIn DEF append_transport_params
<1>2. CASE n.transport = "ws"
  BY <1>2, MergeIn, PickIn DEF append_transport_params
<1>3. CASE n.transport = "grpc"
  BY <1>3, MergeIn, OptIn DEF append_transport_params, ServiceName
<1>4. CASE n.transport = "h2"
  BY <1>4, MergeIn, OptIn, PickIn DEF append_transport_params
<1>5. CASE n.transport = "quic"
  BY <1>5 DEF append_transport_params
<1>6. QED
  BY <1>1, <1>2, <1>3, <1>4, <1>5 DEF Transports

-----------------------------------------------------------------------------
(***************************************************************************)
(* What has to be true of a node w that is exported in a format and read   *)
(* back as n: the same protocol and endpoint, TLS when w has TLS, and w's  *)
(* credentials as far as the format carries them.                          *)
(***************************************************************************)
Kept(f, w, n) ==
  SameNode(w, n) /\ (w.tls => n.tls) /\ Credible(f, w, n)

(***************************************************************************)
(* Brackets are put around an IPv6 address and taken off, and change no    *)
(* other host.                                                             *)
(***************************************************************************)
LEMMA Hosts ==
  \A h : /\ Unbracketed(format_host(h)) = Unbracketed(h)
         /\ Unbracketed(parse_host_port(h)) = Unbracketed(h)
  BY DEF Unbracketed, format_host, parse_host_port

(***************************************************************************)
(* Equal servers and ports are one endpoint.                               *)
(***************************************************************************)
LEMMA SameEndpoint ==
  ASSUME NEW w, NEW n, w.proto = n.proto, w.port = n.port,
         Unbracketed(w.server) = Unbracketed(n.server)
  PROVE  SameNode(w, n)
  BY DEF SameNode, Endpoints

(***************************************************************************)
(* A secret is one word and its level of encoding.                         *)
(***************************************************************************)
LEMMA SecretShape ==
  ASSUME NEW t \in Secrets
  PROVE  /\ t = <<t[1], t[2]>> /\ t[1] \in Seq(Words) /\ t[2] \in Nat
         /\ Len(t[1]) = 1 /\ t \in Texts /\ t # None
  BY DEF Secrets, Texts, None

(***************************************************************************)
(* A text is words and their level of encoding.                            *)
(***************************************************************************)
LEMMA TextShape ==
  ASSUME NEW t \in Texts
  PROVE  /\ t = <<t[1], t[2]>> /\ t[1] \in Seq(Words) /\ t[2] \in Nat
         /\ t[1] # <<>> /\ t # None
  BY DEF Texts, None

(***************************************************************************)
(* Percent-encoding and decoding give texts again; encoding changes only a *)
(* secret that has a special character.                                    *)
(***************************************************************************)
LEMMA Encoding ==
  /\ \A t \in Texts : percent_encode_component(t) \in Texts
  /\ \A t \in Texts : decode_percent_encoded(t) \in Texts
  /\ \A t \in Secrets : percent_encode_component(t) \in Secrets
  /\ \A t \in Secrets : percent_encode_component(t) = t \/ t[1][1] \in Special
<1>1. ASSUME NEW t \in Texts
      PROVE  percent_encode_component(t) \in Texts /\ decode_percent_encoded(t) \in Texts
  <2>1. \A k \in Nat : <<t[1], k>> \in Texts
    BY TextShape DEF Texts
  <2>2. t[2] \in Nat /\ t[2] + 1 \in Nat /\ (t[2] > 0 => t[2] - 1 \in Nat)
    BY TextShape
  <2>3. QED
    BY <2>1, <2>2 DEF percent_encode_component, decode_percent_encoded
<1>2. ASSUME NEW t \in Secrets
      PROVE  /\ percent_encode_component(t) \in Secrets
             /\ percent_encode_component(t) = t \/ t[1][1] \in Special
  <2>1. <<t[1], t[2] + 1>> \in Secrets
    BY SecretShape DEF Secrets, Texts
  <2>2. QED
    BY <2>1, SecretShape DEF percent_encode_component
<1>3. QED
  BY <1>1, <1>2

(***************************************************************************)
(* Credentials that come back as they were, or encoded once, satisfy what  *)
(* is promised for URIs.                                                   *)
(***************************************************************************)
LEMMA CredibleUri ==
  ASSUME NEW w, NEW n, SecretsOK(w.proto, w.extra),
         \A k \in DOMAIN w.extra \cap KeysOf(w.proto) :
           /\ k \in DOMAIN n.extra
           /\ n.extra[k] = w.extra[k] \/ n.extra[k] = percent_encode_component(w.extra[k])
  PROVE  Credible("uri", w, n)
<1>1. SUFFICES ASSUME NEW k \in DOMAIN Secret(w)
               PROVE  \/ k \in DOMAIN n.extra /\ n.extra[k] = w.extra[k]
                      \/ /\ w.extra[k][1][1] \in Special /\ k \in DOMAIN n.extra
                         /\ n.extra[k] = percent_encode_component(w.extra[k])
  BY DEF Credible
<1>2. k \in DOMAIN w.extra /\ k \in Keys
  BY PickIn DEF Secret
<1>3. k \in KeysOf(w.proto) /\ w.extra[k] \in Secrets
  BY <1>2 DEF SecretsOK
<1>4. QED
  BY <1>2, <1>3, Encoding

(***************************************************************************)
(* A sequence of one word.                                                 *)
(***************************************************************************)
LEMMA Singleton ==
  ASSUME NEW S, NEW b \in S
  PROVE  <<b>> \in Seq(S) /\ Len(<<b>>) = 1 /\ <<b>> # <<>>
  OBVIOUS

(***************************************************************************)
(* A plain word is a text and a secret.                                    *)
(***************************************************************************)
LEMMA TextOf == \A b \in Words : Text(b) \in Texts /\ Text(b) \in Secrets
<1>1. SUFFICES ASSUME NEW b \in Words PROVE Text(b) \in Secrets
  BY DEF Secrets
<1>2. <<b>> \in Seq(Words) /\ Len(<<b>>) = 1 /\ <<b>> # <<>>
  BY Singleton
<1>3. QED
  BY <1>2 DEF Text, Secrets, Texts

(***************************************************************************)
(* The part of a URI that carries a credential.                            *)
(***************************************************************************)
Part(u, k) ==
  IF k = "password" /\ u.scheme \in {"tuic", "socks5", "http"} THEN u.pass
  ELSE u.user

(***************************************************************************)
(* The TLS that a URI stands for, by its scheme and query.                 *)
(***************************************************************************)
UriTls(u) ==
  CASE u.scheme \in WithoutTls -> FALSE
    [] u.scheme = "vmess" -> Get(u.q, "tls") \in {"tls", "reality"}
    [] u.scheme = "vless" -> Get(u.q, "security") \in {"tls", "reality", "xtls"}
    [] u.scheme = "trojan" -> Get(u.q, "security") # "none"
    [] u.scheme \in {"socks5", "http"} -> Get(u.q, "tls") = "tls"
    [] OTHER -> TRUE

(***************************************************************************)
(* The fields that a parser may make of a URI: its scheme's credentials    *)
(* from the URI's parts, Hysteria2's auth from the user, WireGuard's peer  *)
(* from the query or with the port of the URI, and the security that the   *)
(* query names.                                                            *)
(***************************************************************************)
Carried(u, extra) ==
  /\ \A k \in DOMAIN extra \cap Keys :
       k \in KeysOf(u.scheme) /\ extra[k] = Part(u, k) /\ Part(u, k) # None
  /\ \A k \in KeysOf(u.scheme) : Part(u, k) # None => k \in DOMAIN extra
  /\ "auth" \in DOMAIN extra => extra["auth"] = u.user /\ u.user # None
  /\ "peers" \in DOMAIN extra =>
       \/ "peer" \in DOMAIN u.q /\ extra["peers"] = u.q["peer"]
       \/ extra["peers"][2] = port_or_known_default(u)
  /\ u.scheme = "vless" /\ "security" \in DOMAIN extra
       => extra["security"] = Get(u.q, "security")

(***************************************************************************)
(* What every URI parser does: it builds a node of the URI's scheme, host  *)
(* and TLS, with the fields that the URI carries.                          *)
(***************************************************************************)
UriRead(u, n) ==
  \E host, tr, sni, extra :
    /\ n = build_proxy_node(u.scheme, u, host, tr, UriTls(u), sni, extra)
    /\ tr \in Transports
    /\ Unbracketed(host) = Unbracketed(u.host)
    /\ Carried(u, extra)

(***************************************************************************)
(* parse_ss_uri reads what the URI carries.                                *)
(***************************************************************************)
LEMMA ReadSs ==
  ASSUME NEW u, UriOK(u), u.scheme = "ss"
  PROVE  UriRead(u, parse_proxy_uri_line(u))
<1> DEFINE extra == Pick(u.q, {"cipher"}) ?? [password |-> u.user]
<1>1. parse_proxy_uri_line(u)
        = build_proxy_node(u.scheme, u, parse_host_port(u.host), "tcp", UriTls(u), "", extra)
  BY DEF parse_proxy_uri_line, parse_ss_uri, UriTls, WithoutTls
<1>2. \A k : k \in DOMAIN extra <=> k = "password" \/ (k = "cipher" /\ "cipher" \in DOMAIN u.q)
  BY MergeIn, PickIn
<1>3. extra["password"] = u.user
  BY MergeRight, PickIn
<1> HIDE DEF extra
<1>4. Carried(u, extra)
  BY <1>2, <1>3 DEF Carried, KeysOf, Keys, Part, UriOK
<1>5. QED
  BY <1>1, <1>4, Hosts, Zenon DEF UriRead, Transports

(***************************************************************************)
(* Fields beside the credentials.                                          *)
(***************************************************************************)
Others(u, rest) ==
  /\ \A k \in DOMAIN rest : k \notin Keys /\ k # "auth"
  /\ "peers" \in DOMAIN rest =>
       \/ "peer" \in DOMAIN u.q /\ rest["peers"] = u.q["peer"]
       \/ rest["peers"][2] = port_or_known_default(u)
  /\ "security" \in DOMAIN rest => rest["security"] = Get(u.q, "security")

(***************************************************************************)
(* A parser that takes the user for the scheme's one credential.           *)
(***************************************************************************)
LEMMA CarriedUser ==
  ASSUME NEW u, NEW key \in Keys, NEW rest, KeysOf(u.scheme) = {key},
         Part(u, key) = u.user, Others(u, rest)
  PROVE  Carried(u, OptText(key, u.user) ?? rest)
<1> DEFINE e == OptText(key, u.user) ?? rest
<1>1. \A k : k \in DOMAIN e <=> (k = key /\ u.user # None) \/ k \in DOMAIN rest
  BY MergeIn, OptTextIn, OneIn DEF OptText
<1>2. key \in DOMAIN e => e[key] = u.user
  BY <1>1, MergeLeft, OptTextIn DEF Others
<1>3. \A k \in DOMAIN rest : e[k] = rest[k]
  BY MergeRight, OptTextIn DEF Others
<1> HIDE DEF e
<1>4. \A k \in DOMAIN e \cap Keys : k = key /\ u.user # None
  BY <1>1 DEF Others
<1>5. "auth" \notin DOMAIN e /\ ("peers" \in DOMAIN e => "peers" \in DOMAIN rest)
      /\ ("security" \in DOMAIN e => "security" \in DOMAIN rest)
  BY <1>1 DEF Others, Keys
<1>6. QED
  BY <1>1, <1>2, <1>3, <1>4, <1>5 DEF Carried, Others, e

(***************************************************************************)
(* Renaming gives only the new names.                                      *)
(***************************************************************************)
LEMMA RekeyNames ==
  \A f, r, S : DOMAIN r \subseteq S => \A k \in DOMAIN Rekey(f, r) : k \in S
  BY RekeyIn

(***************************************************************************)
(* map_transport knows five transports.                                    *)
(***************************************************************************)
LEMMA MapTransport == \A t : map_transport(t) \in Transports
  BY DEF map_transport, Transports

(***************************************************************************)
(* insert_transport_host adds a host or a list of hosts.                   *)
(***************************************************************************)
LEMMA TransportHost ==
  \A tr, q : \A k \in DOMAIN insert_transport_host(tr, q) : k \in {"host", "hosts"}
  BY OptIn DEF insert_transport_host

(***************************************************************************)
(* So does parse_ssr_uri.                                                  *)
(***************************************************************************)
LEMMA ReadSsr ==
  ASSUME NEW u, UriOK(u), u.scheme = "ssr"
  PROVE  UriRead(u, parse_proxy_uri_line(u))
<1> DEFINE r == [cipher |-> "cipher", protocol |-> "protocol", obfs |-> "obfs",
                obfs_param |-> "obfsparam", protocol_param |-> "protoparam"]
           extra == Rekey(u.q, r) ?? [password |-> u.user]
<1>1. parse_proxy_uri_line(u)
        = build_proxy_node(u.scheme, u, u.host, "tcp", UriTls(u), "", extra)
  BY DEF parse_proxy_uri_line, parse_ssr_uri, UriTls, WithoutTls
<1>2. \A k \in DOMAIN Rekey(u.q, r) :
        k \in {"cipher", "protocol", "obfs", "obfs_param", "protocol_param"}
  BY RekeyNames
<1>3. /\ "password" \in DOMAIN extra /\ extra["password"] = u.user
      /\ \A k \in DOMAIN extra : k = "password" \/ k \in DOMAIN Rekey(u.q, r)
  BY <1>2, MergeIn, MergeRight
<1> HIDE DEF extra, r
<1>4. Carried(u, extra)
  BY <1>2, <1>3 DEF Carried, KeysOf, Keys, Part, UriOK
<1>5. QED
  BY <1>1, <1>4, Zenon DEF UriRead, Transports

(***************************************************************************)
(* So does parse_vmess_uri, whose TLS is a field of its object.            *)
(***************************************************************************)
LEMMA ReadVmess ==
  ASSUME NEW u, UriOK(u), u.scheme = "vmess"
  PROVE  UriRead(u, parse_proxy_uri_line(u))
<1> DEFINE tr == map_transport(Get(u.q, "net"))
           sni == IF "sni" \notin DOMAIN u.q /\ tr # "h2" THEN Get(u.q, "host")
                  ELSE Get(u.q, "sni")
           r == [path |-> "path", flow |-> "flow",
                     service_name |-> "serviceName", cipher |-> "scy",
                     grpc_service_name |-> "grpc_service_name",
                     client_fingerprint |-> "fp", security |-> "security",
                     alter_id |-> "aid", skip_cert_verify |-> "allowInsecure",
                     alpn |-> "alpn"]
           a == Rekey(u.q, r)
           b == insert_transport_host(tr, u.q)
           extra == OptText("uuid", u.user) ?? (a ?? b)
<1>1. parse_proxy_uri_line(u)
        = build_proxy_node(u.scheme, u, u.host, tr, UriTls(u), sni,
                            (OptText("uuid", u.user) ?? a) ?? b)
  BY DEF parse_proxy_uri_line, parse_vmess_uri, UriTls, WithoutTls
<1>2. (OptText("uuid", u.user) ?? a) ?? b = extra
  BY DEF ??
<1>3. \A k \in DOMAIN a :
        k \in {"path", "flow", "service_name", "cipher", "grpc_service_name",
               "client_fingerprint", "security", "alter_id", "skip_cert_verify", "alpn"}
  BY RekeyNames
<1>4. "security" \in DOMAIN a => a["security"] = Get(u.q, "security")
  BY RekeyIn, GetIn
<1>5. \A k \in DOMAIN b : k \in {"host", "hosts"}
  BY TransportHost
<1> HIDE DEF a, b
<1>6. Others(u, a ?? b)
  BY <1>3, <1>4, <1>5, MergeIn, MergeLeft DEF Others, Keys
<1>7. Carried(u, extra)
  BY <1>6, CarriedUser DEF KeysOf, Keys, Part
<1>8. tr \in Transports
  BY MapTransport
<1> HIDE DEF extra, tr, sni
<1>9. QED
  BY <1>1, <1>2, <1>7, <1>8, Zenon DEF UriRead

(***************************************************************************)
(* So does parse_vless_uri, whose TLS is the security it names.            *)
(***************************************************************************)
LEMMA ReadVless ==
  ASSUME NEW u, UriOK(u), u.scheme = "vless"
  PROVE  UriRead(u, parse_proxy_uri_line(u))
<1> DEFINE tr == map_transport(Get(u.q, "type"))
           r == UrlTransportKeys ?? [flow |-> "flow",
                     reality_public_key |-> "pbk", reality_short_id |-> "sid",
                     reality_spider_x |-> "spx"]
           a == Rekey(u.q, r)
           b == insert_transport_host(tr, u.q)
           extra == OptText("uuid", u.user) ?? (a ?? b)
<1>1. parse_proxy_uri_line(u)
        = build_proxy_node(u.scheme, u, format_host(u.host), tr, UriTls(u), Get(u.q, "sni"),
                           (OptText("uuid", u.user) ?? a) ?? b)
  BY DEF parse_proxy_uri_line, parse_vless_uri, UriTls, WithoutTls
<1>2. (OptText("uuid", u.user) ?? a) ?? b = extra
  BY DEF ??
<1>3. DOMAIN r \subseteq {"security", "service_name", "grpc_service_name", "client_fingerprint",
               "skip_cert_verify", "alpn", "path",
               "flow", "reality_public_key", "reality_short_id", "reality_spider_x"}
  BY MergeIn DEF UrlTransportKeys
<1>4. r["security"] = "security"
  BY MergeLeft DEF UrlTransportKeys
<1> HIDE DEF r
<1>5. \A k \in DOMAIN a :
        k \in {"security", "service_name", "grpc_service_name", "client_fingerprint",
               "skip_cert_verify", "alpn", "path",
               "flow", "reality_public_key", "reality_short_id", "reality_spider_x"}
  BY <1>3, RekeyNames
<1>6. "security" \in DOMAIN a => a["security"] = Get(u.q, "security")
  BY <1>4, RekeyIn, GetIn
<1>7. \A k \in DOMAIN b : k \in {"host", "hosts"}
  BY TransportHost
<1> HIDE DEF a, b
<1>8. Others(u, a ?? b)
  BY <1>5, <1>6, <1>7, MergeIn, MergeLeft DEF Others, Keys
<1>9. Carried(u, extra)
  BY <1>8, CarriedUser DEF KeysOf, Keys, Part
<1>10. tr \in Transports /\ Unbracketed(format_host(u.host)) = Unbracketed(u.host)
  BY MapTransport, Hosts
<1> HIDE DEF extra, tr
<1>11. QED
  BY <1>1, <1>2, <1>9, <1>10, Zenon DEF UriRead

(***************************************************************************)
(* So does parse_trojan_uri, which assumes TLS unless it is turned off.    *)
(***************************************************************************)
LEMMA ReadTrojan ==
  ASSUME NEW u, UriOK(u), u.scheme = "trojan"
  PROVE  UriRead(u, parse_proxy_uri_line(u))
<1> DEFINE tr == map_transport(Get(u.q, "type"))
           r == UrlTransportKeys
           a == Rekey(u.q, r)
           b == insert_transport_host(tr, u.q)
           extra == OptText("password", u.user) ?? (a ?? b)
<1>1. parse_proxy_uri_line(u)
        = build_proxy_node(u.scheme, u, format_host(u.host), tr, UriTls(u), Get(u.q, "sni"),
                           (OptText("password", u.user) ?? a) ?? b)
  BY DEF parse_proxy_uri_line, parse_trojan_uri, UriTls, WithoutTls
<1>2. (OptText("password", u.user) ?? a) ?? b = extra
  BY DEF ??
<1>3. DOMAIN r \subseteq {"security", "service_name", "grpc_service_name", "client_fingerprint",
               "skip_cert_verify", "alpn", "path"}
  BY MergeIn DEF UrlTransportKeys
<1>4. r["security"] = "security"
  BY MergeLeft DEF UrlTransportKeys
<1> HIDE DEF r
<1>5. \A k \in DOMAIN a :
        k \in {"security", "service_name", "grpc_service_name", "client_fingerprint",
               "skip_cert_verify", "alpn", "path"}
  BY <1>3, RekeyNames
<1>6. "security" \in DOMAIN a => a["security"] = Get(u.q, "security")
  BY <1>4, RekeyIn, GetIn
<1>7. \A k \in DOMAIN b : k \in {"host", "hosts"}
  BY TransportHost
<1> HIDE DEF a, b
<1>8. Others(u, a ?? b)
  BY <1>5, <1>6, <1>7, MergeIn, MergeLeft DEF Others, Keys
<1>9. Carried(u, extra)
  BY <1>8, CarriedUser DEF KeysOf, Keys, Part
<1>10. tr \in Transports /\ Unbracketed(format_host(u.host)) = Unbracketed(u.host)
  BY MapTransport, Hosts
<1> HIDE DEF extra, tr
<1>11. QED
  BY <1>1, <1>2, <1>9, <1>10, Zenon DEF UriRead

(***************************************************************************)
(* So does parse_anytls_uri.                                               *)
(***************************************************************************)
LEMMA ReadAnytls ==
  ASSUME NEW u, UriOK(u), u.scheme = "anytls"
  PROVE  UriRead(u, parse_proxy_uri_line(u))
<1> DEFINE r == [client_fingerprint |-> "fp", alpn |-> "alpn",
                   skip_cert_verify |-> "allowInsecure"]
           a == Rekey(u.q, r)
           extra == OptText("password", u.user) ?? a
<1>1. parse_proxy_uri_line(u)
        = build_proxy_node(u.scheme, u, format_host(u.host), "tcp", UriTls(u), Get(u.q, "sni"),
                           extra)
  BY DEF parse_proxy_uri_line, parse_anytls_uri, UriTls, WithoutTls
<1>2. \A k \in DOMAIN a : k \in {"client_fingerprint", "alpn", "skip_cert_verify"}
  BY RekeyNames
<1> HIDE DEF a
<1>3. Others(u, a)
  BY <1>2 DEF Others, Keys
<1>4. Carried(u, extra)
  BY <1>3, CarriedUser DEF KeysOf, Keys, Part
<1> HIDE DEF extra
<1>5. QED
  BY <1>1, <1>4, Hosts, Zenon DEF UriRead, Transports

(***************************************************************************)
(* So does parse_wireguard_uri, with the peer it names.                    *)
(***************************************************************************)
LEMMA ReadWireguard ==
  ASSUME NEW u, UriOK(u), u.scheme = "wireguard"
  PROVE  UriRead(u, parse_proxy_uri_line(u))
<1> DEFINE host == format_host(u.host)
           r == [public_key |-> "publickey", reserved |-> "reserved",
                     preshared_key |-> "presharedkey", mtu |-> "mtu",
                     local_address |-> "address", peers |-> "peer"]
           a == Rekey(u.q, r)
           b == [local_address |-> "172.16.0.2/32", peers |-> <<host, port_or_known_default(u)>>]
           extra == OptText("private_key", u.user) ?? (a ?? b)
<1>1. parse_proxy_uri_line(u)
        = build_proxy_node(u.scheme, u, host, "quic", UriTls(u), "",
                           (OptText("private_key", u.user) ?? a) ?? b)
  BY DEF parse_proxy_uri_line, parse_wireguard_uri, UriTls, WithoutTls
<1>2. (OptText("private_key", u.user) ?? a) ?? b = extra
  BY DEF ??
<1>3. \A k \in DOMAIN a :
        k \in {"public_key", "reserved", "preshared_key", "mtu", "local_address", "peers"}
  BY RekeyNames
<1>4. "peers" \in DOMAIN a => "peer" \in DOMAIN u.q /\ a["peers"] = u.q["peer"]
  BY RekeyIn
<1>5. /\ \A k \in DOMAIN b : k \in {"local_address", "peers"}
      /\ b["peers"][2] = port_or_known_default(u)
  OBVIOUS
<1> HIDE DEF a, b
<1>6. Others(u, a ?? b)
  <2>1. \A k \in DOMAIN (a ?? b) : k \in DOMAIN a \/ k \in DOMAIN b
    BY MergeIn
  <2>2. "peers" \in DOMAIN (a ?? b) =>
          \/ "peer" \in DOMAIN u.q /\ (a ?? b)["peers"] = u.q["peer"]
          \/ (a ?? b)["peers"][2] = port_or_known_default(u)
    BY <1>4, <1>5, MergeIn, MergeLeft, MergeRight
  <2>3. QED
    BY <1>3, <1>5, <2>1, <2>2 DEF Others, Keys
<1>7. Carried(u, extra)
  BY <1>6, CarriedUser DEF KeysOf, Keys, Part
<1> HIDE DEF extra, host
<1>8. QED
  BY <1>1, <1>2, <1>7, Hosts, Zenon DEF UriRead, Transports, host

(***************************************************************************)
(* So does parse_hysteria2_uri, with its auth.                             *)
(***************************************************************************)
LEMMA ReadHysteria2 ==
  ASSUME NEW u, UriOK(u), u.scheme = "hysteria2"
  PROVE  UriRead(u, parse_proxy_uri_line(u))
<1> DEFINE r == [obfs |-> "obfs", obfs_password |-> "obfs-password",
                   skip_cert_verify |-> "allowInsecure", alpn |-> "alpn"]
           a == Rekey(u.q, r)
           p == OptText("password", u.user)
           b == OptText("auth", u.user)
           extra == (p ?? b) ?? a
<1>1. parse_proxy_uri_line(u)
        = build_proxy_node(u.scheme, u, format_host(u.host), "quic", UriTls(u), Get(u.q, "sni"),
                           extra)
  BY DEF parse_proxy_uri_line, parse_hysteria2_uri, UriTls, WithoutTls
<1>2. \A k \in DOMAIN a : k \in {"obfs", "obfs_password", "skip_cert_verify", "alpn"}
  BY RekeyNames
<1>3. \A k \in DOMAIN p : k = "password" /\ p[k] = u.user /\ u.user # None
  BY OptTextIn, OneIn DEF OptText
<1>4. \A k \in DOMAIN b : k = "auth" /\ b[k] = u.user /\ u.user # None
  BY OptTextIn, OneIn DEF OptText
<1>5. u.user # None => "password" \in DOMAIN p
  BY OptTextIn
<1> HIDE DEF a, b, p
<1>6. \A k : k \in DOMAIN extra <=> k \in DOMAIN p \/ k \in DOMAIN b \/ k \in DOMAIN a
  BY MergeIn
<1>7. /\ \A k \in DOMAIN p : extra[k] = p[k]
      /\ \A k \in DOMAIN b : extra[k] = b[k]
  BY <1>3, <1>4, MergeIn, MergeLeft, MergeRight
<1> HIDE DEF extra
<1>8. Carried(u, extra)
  BY <1>2, <1>3, <1>4, <1>5, <1>6, <1>7 DEF Carried, KeysOf, Keys, Part
<1>9. QED
  BY <1>1, <1>8, Hosts, Zenon DEF UriRead, Transports

(***************************************************************************)
(* So does parse_tuic_uri, with a user and a password.                     *)
(***************************************************************************)
LEMMA ReadTuic ==
  ASSUME NEW u, UriOK(u), u.scheme = "tuic"
  PROVE  UriRead(u, parse_proxy_uri_line(u))
<1> DEFINE r == [congestion_control |-> "congestion_control",
                   udp_relay_mode |-> "udp_relay_mode",
                   skip_cert_verify |-> "allowInsecure", alpn |-> "alpn"]
           a == Rekey(u.q, r)
           p == OptText("uuid", u.user)
           b == OptText("password", u.pass)
           extra == (p ?? b) ?? a
<1>1. parse_proxy_uri_line(u)
        = build_proxy_node(u.scheme, u, format_host(u.host), "quic", UriTls(u), Get(u.q, "sni"),
                           extra)
  BY DEF parse_proxy_uri_line, parse_tuic_uri, UriTls, WithoutTls
<1>2. \A k \in DOMAIN a : k \in {"congestion_control", "udp_relay_mode", "skip_cert_verify", "alpn"}
  BY RekeyNames
<1>3. \A k \in DOMAIN p : k = "uuid" /\ p[k] = u.user /\ u.user # None
  BY OptTextIn, OneIn DEF OptText
<1>4. \A k \in DOMAIN b : k = "password" /\ b[k] = u.pass /\ u.pass # None
  BY OptTextIn, OneIn DEF OptText
<1>5. (u.user # None => "uuid" \in DOMAIN p) /\ (u.pass # None => "password" \in DOMAIN b)
  BY OptTextIn
<1> HIDE DEF a, b, p
<1>6. \A k : k \in DOMAIN extra <=> k \in DOMAIN p \/ k \in DOMAIN b \/ k \in DOMAIN a
  BY MergeIn
<1>7. /\ \A k \in DOMAIN p : extra[k] = p[k]
      /\ \A k \in DOMAIN b : extra[k] = b[k]
  BY <1>3, <1>4, MergeIn, MergeLeft, MergeRight
<1> HIDE DEF extra
<1>8. Carried(u, extra)
  BY <1>2, <1>3, <1>4, <1>5, <1>6, <1>7 DEF Carried, KeysOf, Keys, Part
<1>9. QED
  BY <1>1, <1>8, Hosts, Zenon DEF UriRead, Transports

(***************************************************************************)
(* So do the parsers of Socks5 and HTTP proxies.                           *)
(***************************************************************************)
LEMMA ReadLocal ==
  ASSUME NEW u, UriOK(u), u.scheme \in {"socks5", "http"}
  PROVE  UriRead(u, parse_proxy_uri_line(u))
<1> DEFINE p == OptText("username", u.user)
           b == OptText("password", u.pass)
           extra == p ?? b
<1>1. parse_proxy_uri_line(u)
        = build_proxy_node(u.scheme, u, format_host(u.host), "tcp", UriTls(u), "", extra)
  BY DEF parse_proxy_uri_line, parse_socks5_uri, parse_http_proxy_uri, UriTls, WithoutTls
<1>2. \A k \in DOMAIN p : k = "username"
  BY OptTextIn
<1>3. \A k \in DOMAIN b : k = "password" /\ b[k] = u.pass /\ u.pass # None
  BY OptTextIn, OneIn DEF OptText
<1>4. u.pass # None => "password" \in DOMAIN b
  BY OptTextIn
<1> HIDE DEF b, p
<1>5. \A k : k \in DOMAIN extra <=> k \in DOMAIN p \/ k \in DOMAIN b
  BY MergeIn
<1>6. \A k \in DOMAIN b : extra[k] = b[k]
  BY <1>2, <1>3, MergeRight
<1> HIDE DEF extra
<1>7. Carried(u, extra)
  BY <1>2, <1>3, <1>4, <1>5, <1>6 DEF Carried, KeysOf, Keys, Part
<1>8. QED
  BY <1>1, <1>7, Hosts, Zenon DEF UriRead, Transports

(***************************************************************************)
(* So does every URI parser.                                               *)
(***************************************************************************)
LEMMA ReadUri ==
  ASSUME NEW u, UriOK(u)
  PROVE  UriRead(u, parse_proxy_uri_line(u))
  BY ReadSs, ReadSsr, ReadVmess, ReadVless, ReadTrojan, ReadHysteria2, ReadTuic,
     ReadAnytls, ReadWireguard, ReadLocal DEF UriOK, Protocols

(***************************************************************************)
(* The fields of a node that build_proxy_node makes.                       *)
(***************************************************************************)
LEMMA NodeBuilt ==
  ASSUME NEW proto, NEW u, NEW host, NEW tr, NEW tls, NEW sni, NEW extra, NEW n,
         n = build_proxy_node(proto, u, host, tr, tls, sni, extra)
  PROVE  /\ DOMAIN n = NodeFields
         /\ n.proto = proto /\ n.server = host /\ n.port = port_or_known_default(u)
         /\ n.transport = tr /\ n.tls = tls /\ n.sni = sni /\ n.extra = extra
         /\ n.name = IF u.frag = None THEN Text(proto) ELSE decode_percent_encoded(u.frag)
  BY DEF build_proxy_node, NodeFields

(***************************************************************************)
(* A URI of a protocol without TLS stands for none.                        *)
(***************************************************************************)
LEMMA TlsOfUri ==
  ASSUME NEW u, u.scheme \in Protocols
  PROVE  UriTls(u) \in BOOLEAN /\ (UriTls(u) => u.scheme \notin WithoutTls)
<1>1. UriTls(u) = TRUE \/ UriTls(u) = FALSE
  BY DEF UriTls, WithoutTls, Protocols
<1>2. u.scheme \in WithoutTls => ~UriTls(u)
  BY DEF UriTls, WithoutTls
<1>3. QED
  BY <1>1, <1>2

(***************************************************************************)
(* A URI that parses gives a well-formed node.                             *)
(***************************************************************************)
LEMMA UriNodeOK ==
  ASSUME NEW u, UriOK(u), UriParses(u)
  PROVE  NodeOK(parse_proxy_uri_line(u))
<1> DEFINE n == parse_proxy_uri_line(u)
<1>1. PICK host, tr, sni, extra :
        /\ n = build_proxy_node(u.scheme, u, host, tr, UriTls(u), sni, extra)
        /\ tr \in Transports
        /\ Carried(u, extra)
  <2>1. UriRead(u, n)
    BY ReadUri
  <2> HIDE DEF n
  <2>2. QED
    BY <2>1, Zenon DEF UriRead
<1> HIDE DEF n
<1>2. /\ DOMAIN n = NodeFields
      /\ n.proto = u.scheme /\ n.port = port_or_known_default(u)
      /\ n.transport = tr /\ n.tls = UriTls(u) /\ n.extra = extra
      /\ n.name = IF u.frag = None THEN Text(u.scheme) ELSE decode_percent_encoded(u.frag)
  BY <1>1, NodeBuilt
<1>3. n.port # 0
  BY <1>2 DEF port_or_known_default, UriParses
<1>4. n.name \in Texts
  <2>1. u.scheme \in Words
    BY DEF UriOK, Words
  <2>2. QED
    BY <1>2, <2>1, TextOf, Encoding DEF UriOK
<1>5. n.tls \in BOOLEAN /\ (n.tls => n.proto \notin WithoutTls)
  BY <1>2, TlsOfUri DEF UriOK
<1>6. SecretsOK(n.proto, n.extra)
  BY <1>1, <1>2 DEF SecretsOK, Carried, UriOK, Part
<1>7. PeersOK(n.extra, "peers")
  BY <1>1, <1>2, <1>3 DEF PeersOK, Carried, UriOK
<1>8. "auth" \in DOMAIN n.extra => n.extra["auth"] \in Secrets
  BY <1>1, <1>2 DEF Carried, UriOK
<1>9. n.proto = "vless" /\ n.tls /\ "security" \in DOMAIN n.extra
       => n.extra["security"] \in {"tls", "reality", "xtls"}
  BY <1>1, <1>2 DEF Carried, UriTls, WithoutTls
<1>10. n.proto \in Protocols
  BY <1>2 DEF UriOK
<1>11. QED
  BY <1>1, <1>2, <1>3, <1>4, <1>5, <1>6, <1>7, <1>8, <1>9, <1>10 DEF NodeOK, n

-----------------------------------------------------------------------------
(***************************************************************************)
(* What every URI builder does: a URI of the node's protocol, endpoint and *)
(* TLS, with its credentials as they are or encoded once.                  *)
(***************************************************************************)
Written(w, u) ==
  /\ u.scheme = w.proto /\ u.port = w.port /\ u.frag \in Texts
  /\ Unbracketed(u.host) = Unbracketed(w.server)
  /\ u.user \in Secrets /\ u.pass \in Secrets \cup {None}
  /\ \A k \in KeysOf(w.proto) \cap DOMAIN w.extra :
       Part(u, k) = w.extra[k] \/ Part(u, k) = percent_encode_component(w.extra[k])
  /\ w.tls => UriTls(u)
  /\ PeersOK(u.q, "peer")

(***************************************************************************)
(* A URI written so is well-formed, is skipped by the parsers only for an  *)
(* SSR node with an IPv6 address, and is read back as the node.            *)
(***************************************************************************)
LEMMA KeptUri ==
  ASSUME NEW w, NodeOK(w), NEW u, Written(w, u)
  PROVE  /\ UriOK(u)
         /\ UriParses(u) <=> ~Skipped("uri", w)
         /\ UriParses(u) => Kept("uri", w, parse_proxy_uri_line(u))
<1> DEFINE n == parse_proxy_uri_line(u)
<1>1. UriOK(u)
  BY SecretShape DEF Written, UriOK, NodeOK
<1>2. UriParses(u) <=> ~Skipped("uri", w)
  BY DEF Written, UriParses, Skipped, NodeOK, Unbracketed
<1>3. PICK host, tr, sni, extra :
        /\ n = build_proxy_node(u.scheme, u, host, tr, UriTls(u), sni, extra)
        /\ Unbracketed(host) = Unbracketed(u.host)
        /\ Carried(u, extra)
  <2>1. UriRead(u, n)
    BY <1>1, ReadUri
  <2> HIDE DEF n
  <2>2. QED
    BY <2>1, Zenon DEF UriRead
<1> HIDE DEF n
<1>4. /\ n.proto = u.scheme /\ n.port = port_or_known_default(u)
      /\ n.server = host /\ n.tls = UriTls(u) /\ n.extra = extra
  BY <1>3, NodeBuilt
<1>5. n.port = w.port
  BY <1>4 DEF port_or_known_default, Written, NodeOK
<1>6. SameNode(w, n)
  BY <1>3, <1>4, <1>5, SameEndpoint DEF Written
<1>7. Credible("uri", w, n)
  <2>1. ASSUME NEW k \in DOMAIN w.extra \cap KeysOf(w.proto)
        PROVE  /\ k \in DOMAIN n.extra
               /\ n.extra[k] = w.extra[k] \/ n.extra[k] = percent_encode_component(w.extra[k])
    <3>1. k \in Keys
      BY <2>1 DEF KeysOf, Keys
    <3>2. Part(u, k) # None
      <4>1. w.extra[k] \in Secrets
        BY <2>1, <3>1 DEF NodeOK, SecretsOK
      <4>2. Part(u, k) \in Secrets
        BY <4>1, <2>1, Encoding DEF Written
      <4>3. QED
        BY <4>2, SecretShape
    <3>3. QED
      BY <1>3, <1>4, <2>1, <3>1, <3>2 DEF Carried, Written
  <2>2. QED
    BY <2>1, CredibleUri DEF NodeOK
<1>8. QED
  BY <1>1, <1>2, <1>4, <1>6, <1>7 DEF Kept, Written, n

(***************************************************************************)
(* The parts of a URI that build_uri_with_query writes.                    *)
(***************************************************************************)
LEMMA WithQuery ==
  ASSUME NEW w, NodeOK(w), NEW user \in Secrets, NEW q, NEW u,
         u = build_uri_with_query(w, user, q)
  PROVE  /\ u.scheme = w.proto /\ u.port = w.port /\ u.frag \in Texts
         /\ Unbracketed(u.host) = Unbracketed(w.server)
         /\ u.user = percent_encode_component(user) /\ u.user \in Secrets
         /\ u.pass = None /\ u.q = q
<1>1. /\ u.scheme = w.proto /\ u.port = w.port
      /\ u.frag = percent_encode_component(w.name) /\ u.host = format_host(w.server)
      /\ u.user = percent_encode_component(user) /\ u.pass = None /\ u.q = q
  BY DEF build_uri_with_query, Uri
<1>2. QED
  BY <1>1, Hosts, Encoding DEF NodeOK

(***************************************************************************)
(* A builder's optional parameter has one name.                            *)
(***************************************************************************)
LEMMA InsecureIn == \A w : \A k \in DOMAIN Insecure(w) : k = "allowInsecure"
  BY OneIn DEF Insecure

(***************************************************************************)
(* A builder's optional parameter has one name.                            *)
(***************************************************************************)
LEMMA ServiceNameIn == \A w : \A k \in DOMAIN ServiceName(w) : k = "serviceName"
  BY OptIn DEF ServiceName

(***************************************************************************)
(* A credential that a node has is a secret.                               *)
(***************************************************************************)
LEMMA Required ==
  ASSUME NEW w, NodeOK(w), NEW k \in KeysOf(w.proto) \cap DOMAIN w.extra
  PROVE  w.extra[k] \in Secrets
  BY DEF NodeOK, SecretsOK, KeysOf, Keys

(***************************************************************************)
(* A builder that writes the one credential of a protocol as the user.     *)
(***************************************************************************)
LEMMA WrittenBy ==
  ASSUME NEW w, NodeOK(w), NEW key \in DOMAIN w.extra, KeysOf(w.proto) = {key},
         key = "password" => w.proto \notin {"tuic", "socks5", "http"},
         NEW q, NEW u, u = build_uri_with_query(w, w.extra[key], q),
         w.tls => UriTls(u), PeersOK(q, "peer")
  PROVE  Written(w, u)
<1>1. w.extra[key] \in Secrets
  BY Required
<1>2. /\ u.scheme = w.proto /\ u.port = w.port /\ u.frag \in Texts
      /\ Unbracketed(u.host) = Unbracketed(w.server)
      /\ u.user = percent_encode_component(w.extra[key]) /\ u.user \in Secrets
      /\ u.pass = None /\ u.q = q
  BY <1>1, WithQuery
<1>3. Part(u, key) = u.user
  BY <1>2 DEF Part
<1>4. QED
  BY <1>2, <1>3 DEF Written

(***************************************************************************)
(* The builders of Shadowsocks and SSR URIs write the node.                *)
(***************************************************************************)
LEMMA WriteSs ==
  ASSUME NEW w, NodeOK(w), UriBuilds(w), w.proto \in {"ss", "ssr"}
  PROVE  Written(w, build_share_uri(w))
<1> DEFINE u == build_share_uri(w)
           a == Rekey(w.extra,
                    [cipher |-> "cipher", protocol |-> "protocol", obfs |-> "obfs",
                     obfsparam |-> "obfs_param", protoparam |-> "protocol_param"])
           b == [protocol |-> "origin", obfs |-> "plain"]
<1>1. "password" \in DOMAIN w.extra /\ KeysOf(w.proto) = {"password"} /\ ~w.tls
  BY DEF UriBuilds, required_string, Has, KeysOf, NodeOK, WithoutTls
<1>2. w.extra["password"] \in Secrets
  BY <1>1, Required
<1>3. /\ u.scheme = w.proto /\ u.port = w.port /\ u.host = format_host(w.server)
      /\ u.user = w.extra["password"] /\ u.pass = None
      /\ u.frag = w.name \/ u.frag = percent_encode_component(w.name)
      /\ u.q = Pick(w.extra, {"cipher"}) \/ u.q = a ?? b
  BY DEF build_share_uri, build_ss_uri, build_ssr_uri, Uri
<1>4. "peer" \notin DOMAIN u.q
  <2>1. "peer" \notin DOMAIN Pick(w.extra, {"cipher"})
    BY PickIn
  <2>2. "peer" \notin DOMAIN a /\ "peer" \notin DOMAIN b
    BY RekeyIn
  <2> HIDE DEF a, b, u
  <2>3. QED
    BY <1>3, <2>1, <2>2, MergeIn
<1> HIDE DEF u, a, b
<1>5. u.frag \in Texts
  BY <1>3, Encoding DEF NodeOK
<1>6. Part(u, "password") = u.user
  BY <1>3 DEF Part
<1>7. Written(w, u)
  BY <1>1, <1>2, <1>3, <1>4, <1>5, <1>6, Hosts DEF Written, PeersOK
<1>8. QED
  BY <1>7 DEF u

(***************************************************************************)
(* So does the builder of VMess URIs, whose TLS is a field of its object.  *)
(***************************************************************************)
LEMMA WriteVmess ==
  ASSUME NEW w, NodeOK(w), UriBuilds(w), w.proto = "vmess"
  PROVE  Written(w, build_share_uri(w))
<1> DEFINE u == build_share_uri(w)
           r == Rekey(w.extra, [aid |-> "alter_id", host |-> "host", path |-> "path",
                    alpn |-> "alpn", fp |-> "client_fingerprint"])
           a == ((r ?? Opt("scy", FirstOf(w.extra, "security", "cipher"))) ?? ServiceName(w))
                ?? [aid |-> "0", scy |-> "auto", net |-> w.transport]
           t == Opt("tls", IF w.tls THEN "tls" ELSE "")
           s == Opt("sni", w.sni)
<1>1. "uuid" \in DOMAIN w.extra /\ KeysOf(w.proto) = {"uuid"}
  BY DEF UriBuilds, required_string, Has, KeysOf
<1>2. w.extra["uuid"] \in Secrets
  BY <1>1, Required
<1>3. u.scheme = w.proto /\ u.port = w.port /\ u.host = w.server
      /\ u.user = w.extra["uuid"] /\ u.pass = None /\ u.frag = w.name /\ u.q = (a ?? t) ?? s
  BY DEF build_share_uri, build_vmess_uri, Uri
<1>4. \A k \in DOMAIN r : k \in {"aid", "host", "path", "alpn", "fp"}
  BY RekeyNames
<1> HIDE DEF u, r
<1>5. "peer" \notin DOMAIN a /\ "tls" \notin DOMAIN a
  BY <1>4, MergeIn, OptIn, ServiceNameIn
<1>6. "peer" \notin DOMAIN t /\ "peer" \notin DOMAIN s /\ "tls" \notin DOMAIN s
  BY OptIn
<1>7. w.tls => Get(t, "tls") = "tls"
  BY OptIn
<1> HIDE DEF a, t, s
<1>8. "peer" \notin DOMAIN u.q
  BY <1>3, <1>5, <1>6, MergeIn
<1>9. w.tls => Get(u.q, "tls") = "tls"
  BY <1>3, <1>5, <1>6, <1>7, GetIn
<1>10. w.tls => UriTls(u)
  BY <1>3, <1>9 DEF UriTls, WithoutTls
<1>11. Part(u, "uuid") = u.user
  BY DEF Part
<1>12. Written(w, u)
  BY <1>1, <1>2, <1>3, <1>8, <1>10, <1>11 DEF Written, PeersOK, NodeOK
<1>13. QED
  BY <1>12 DEF u

(***************************************************************************)
(* So does the builder of VLESS URIs: it names a security for TLS.         *)
(***************************************************************************)
LEMMA WriteVless ==
  ASSUME NEW w, NodeOK(w), UriBuilds(w), w.proto = "vless"
  PROVE  Written(w, build_share_uri(w))
<1> DEFINE u == build_share_uri(w)
           security == IF "security" \in DOMAIN w.extra THEN w.extra["security"]
                       ELSE IF w.tls THEN "tls" ELSE ""
           p == IF w.transport = "tcp" /\ security = "reality" THEN [type |-> "tcp"]
                ELSE append_transport_params(w)
           m == Opt("security", security)
           s == Opt("sni", w.sni)
           r == Rekey(w.extra, [flow |-> "flow", alpn |-> "alpn",
                         fp |-> "client_fingerprint", spx |-> "reality_spider_x",
                         pbk |-> "reality_public_key", sid |-> "reality_short_id"])
           q == (((p ?? m) ?? s) ?? Insecure(w)) ?? r
<1>1. "uuid" \in DOMAIN w.extra /\ KeysOf(w.proto) = {"uuid"}
  BY DEF UriBuilds, required_string, Has, KeysOf
<1>2. u = build_uri_with_query(w, w.extra["uuid"], q)
  BY DEF build_share_uri, build_vless_uri
<1>3. \A k \in DOMAIN p : k \in {"type", "host", "path", "serviceName"}
  BY TransportParams DEF NodeOK
<1>4. w.tls => security \in {"tls", "reality", "xtls"}
  BY DEF NodeOK
<1>5. \A k \in DOMAIN r : k \in {"flow", "alpn", "fp", "spx", "pbk", "sid"}
  BY RekeyNames
<1> HIDE DEF u, p, r, security
<1>6. /\ "peer" \notin DOMAIN m /\ "peer" \notin DOMAIN s /\ "security" \notin DOMAIN s
      /\ Get(m, "security") = security
  BY OptIn
<1>7. "peer" \notin DOMAIN Insecure(w) /\ "security" \notin DOMAIN Insecure(w)
  BY InsecureIn
<1> HIDE DEF m, s
<1>8. "peer" \notin DOMAIN q
  BY <1>3, <1>5, <1>6, <1>7, MergeIn
<1>9. Get(q, "security") = security
  BY <1>3, <1>5, <1>6, <1>7, MergeIn, GetIn
<1> HIDE DEF q
<1>10. w.tls => UriTls(u)
  <2>1. u.scheme = "vless" /\ u.q = q
    BY <1>1, <1>2, Required, WithQuery
  <2>2. QED
    BY <1>4, <1>9, <2>1 DEF UriTls, WithoutTls
<1>11. Written(w, u)
  BY <1>1, <1>2, <1>8, <1>10, WrittenBy DEF PeersOK
<1>12. QED
  BY <1>11 DEF u

(***************************************************************************)
(* So does the builder of Trojan URIs: it turns TLS off only without it.   *)
(***************************************************************************)
LEMMA WriteTrojan ==
  ASSUME NEW w, NodeOK(w), UriBuilds(w), w.proto = "trojan"
  PROVE  Written(w, build_share_uri(w))
<1> DEFINE u == build_share_uri(w)
           p == append_transport_params(w)
           m == Opt("security", IF w.tls THEN "tls" ELSE "")
           s == Opt("sni", w.sni)
           q == ((p ?? m) ?? s) ?? Insecure(w)
<1>1. "password" \in DOMAIN w.extra /\ KeysOf(w.proto) = {"password"}
  BY DEF UriBuilds, required_string, Has, KeysOf
<1>2. u = build_uri_with_query(w, w.extra["password"], q)
  BY DEF build_share_uri, build_trojan_uri
<1>3. \A k \in DOMAIN p : k \in {"type", "host", "path", "serviceName"}
  BY TransportParams DEF NodeOK
<1> HIDE DEF u, p
<1>4. /\ "peer" \notin DOMAIN m /\ "peer" \notin DOMAIN s /\ "security" \notin DOMAIN s
      /\ (w.tls => Get(m, "security") = "tls")
  BY OptIn
<1>5. "peer" \notin DOMAIN Insecure(w) /\ "security" \notin DOMAIN Insecure(w)
  BY InsecureIn
<1> HIDE DEF m, s
<1>6. "peer" \notin DOMAIN q
  BY <1>3, <1>4, <1>5, MergeIn
<1>7. w.tls => Get(q, "security") = "tls"
  BY <1>3, <1>4, <1>5, MergeIn, GetIn
<1> HIDE DEF q
<1>8. w.tls => UriTls(u)
  <2>1. u.scheme = "trojan" /\ u.q = q
    BY <1>1, <1>2, Required, WithQuery
  <2>2. QED
    BY <1>7, <2>1 DEF UriTls, WithoutTls
<1>9. Written(w, u)
  BY <1>1, <1>2, <1>6, <1>8, WrittenBy DEF PeersOK
<1>10. QED
  BY <1>9 DEF u

(***************************************************************************)
(* So does the builder of AnyTLS URIs.                                     *)
(***************************************************************************)
LEMMA WriteAnytls ==
  ASSUME NEW w, NodeOK(w), UriBuilds(w), w.proto = "anytls"
  PROVE  Written(w, build_share_uri(w))
<1> DEFINE u == build_share_uri(w)
           s == Opt("sni", w.sni)
           r == Rekey(w.extra, [alpn |-> "alpn", fp |-> "client_fingerprint"])
           q == (s ?? Insecure(w)) ?? r
<1>1. "password" \in DOMAIN w.extra /\ KeysOf(w.proto) = {"password"}
  BY DEF UriBuilds, required_string, Has, KeysOf
<1>2. u = build_uri_with_query(w, w.extra["password"], q)
  BY DEF build_share_uri, build_anytls_uri
<1>3. "peer" \notin DOMAIN r
  BY RekeyIn
<1> HIDE DEF u, r
<1>4. "peer" \notin DOMAIN q
  BY <1>3, OptIn, InsecureIn, MergeIn
<1> HIDE DEF q
<1>5. UriTls(u)
  <2>1. u.scheme = "anytls"
    BY <1>1, <1>2, Required, WithQuery
  <2>2. QED
    BY <2>1 DEF UriTls, WithoutTls
<1>6. Written(w, u)
  BY <1>1, <1>2, <1>4, <1>5, WrittenBy DEF PeersOK
<1>7. QED
  BY <1>6 DEF u

(***************************************************************************)
(* So does the builder of Hysteria2 URIs, which may take auth for the      *)
(* password.                                                               *)
(***************************************************************************)
LEMMA WriteHysteria2 ==
  ASSUME NEW w, NodeOK(w), UriBuilds(w), w.proto = "hysteria2"
  PROVE  Written(w, build_share_uri(w))
<1> DEFINE u == build_share_uri(w)
           s == Opt("sni", w.sni)
           r == Rekey(w.extra, [obfs |-> "obfs", alpn |-> "alpn"]
                      ?? One("obfs-password", "obfs_password"))
           q == (s ?? Insecure(w)) ?? r
           user == IF Has(w, {"password"}) THEN w.extra["password"] ELSE w.extra["auth"]
<1>1. user \in Secrets /\ KeysOf(w.proto) = {"password"}
  BY Required DEF UriBuilds, required_string, Has, KeysOf, NodeOK
<1>2. u = build_uri_with_query(w, user, q)
  BY DEF build_share_uri, build_hysteria2_uri
<1>3. \A k \in DOMAIN r : k \in {"obfs", "alpn", "obfs-password"}
  <2> DEFINE names == [obfs |-> "obfs", alpn |-> "alpn"] ?? One("obfs-password", "obfs_password")
  <2>1. DOMAIN names \subseteq {"obfs", "alpn", "obfs-password"}
    BY MergeIn, OneIn
  <2> HIDE DEF names
  <2>2. \A k \in DOMAIN Rekey(w.extra, names) : k \in {"obfs", "alpn", "obfs-password"}
    BY <2>1, RekeyNames
  <2>3. QED
    BY <2>2 DEF names
<1>4. "password" \in DOMAIN w.extra => user = w.extra["password"]
  BY DEF Has
<1> HIDE DEF u, r, user
<1>5. "peer" \notin DOMAIN q
  BY <1>3, OptIn, InsecureIn, MergeIn
<1> HIDE DEF q
<1>6. /\ u.scheme = w.proto /\ u.port = w.port /\ u.frag \in Texts
      /\ Unbracketed(u.host) = Unbracketed(w.server)
      /\ u.user = percent_encode_component(user) /\ u.user \in Secrets
      /\ u.pass = None /\ u.q = q
  BY <1>1, <1>2, WithQuery
<1>7. UriTls(u) /\ Part(u, "password") = u.user
  BY <1>6 DEF UriTls, WithoutTls, Part
<1>8. Written(w, u)
  BY <1>1, <1>4, <1>5, <1>6, <1>7 DEF Written, PeersOK
<1>9. QED
  BY <1>8 DEF u

(***************************************************************************)
(* So does the builder of TUIC URIs, with a user and a password.           *)
(***************************************************************************)
LEMMA WriteTuic ==
  ASSUME NEW w, NodeOK(w), UriBuilds(w), w.proto = "tuic"
  PROVE  Written(w, build_share_uri(w))
<1> DEFINE u == build_share_uri(w)
           q == (Opt("sni", w.sni) ?? Insecure(w))
                ?? Pick(w.extra, {"congestion_control", "udp_relay_mode", "alpn"})
           v == build_uri_with_query(w, w.extra["uuid"], q)
<1>1. {"uuid", "password"} \subseteq DOMAIN w.extra /\ KeysOf(w.proto) = {"uuid", "password"}
  BY DEF UriBuilds, required_string, Has, KeysOf
<1>2. w.extra["uuid"] \in Secrets /\ w.extra["password"] \in Secrets
  BY <1>1, Required
<1>3. u = [v EXCEPT !.pass = percent_encode_component(w.extra["password"])]
  BY DEF build_share_uri, build_tuic_uri
<1>4. DOMAIN v = {"scheme", "user", "pass", "host", "port", "q", "frag"}
  BY DEF build_uri_with_query, Uri
<1>5. "peer" \notin DOMAIN q
  BY OptIn, InsecureIn, MergeIn, PickIn
<1>6. /\ v.scheme = w.proto /\ v.port = w.port /\ v.frag \in Texts
      /\ Unbracketed(v.host) = Unbracketed(w.server)
      /\ v.user = percent_encode_component(w.extra["uuid"]) /\ v.user \in Secrets
      /\ v.q = q
  BY <1>2, WithQuery
<1> HIDE DEF u, q, v
<1>7. /\ u.scheme = w.proto /\ u.port = w.port /\ u.frag \in Texts
      /\ Unbracketed(u.host) = Unbracketed(w.server)
      /\ u.user = percent_encode_component(w.extra["uuid"]) /\ u.user \in Secrets
      /\ u.pass = percent_encode_component(w.extra["password"]) /\ u.pass \in Secrets
      /\ u.q = q
  BY <1>2, <1>3, <1>4, <1>6, Encoding
<1>8. UriTls(u) /\ Part(u, "uuid") = u.user /\ Part(u, "password") = u.pass
  BY <1>7 DEF UriTls, WithoutTls, Part
<1>9. Written(w, u)
  BY <1>1, <1>5, <1>7, <1>8 DEF Written, PeersOK
<1>10. QED
  BY <1>9 DEF u

(***************************************************************************)
(* So does the builder of WireGuard URIs.                                  *)
(***************************************************************************)
LEMMA WriteWireguard ==
  ASSUME NEW w, NodeOK(w), UriBuilds(w), w.proto = "wireguard"
  PROVE  Written(w, build_share_uri(w))
<1> DEFINE u == build_share_uri(w)
           q == Rekey(w.extra,
                  [publickey |-> "public_key", presharedkey |-> "preshared_key",
                    reserved |-> "reserved", mtu |-> "mtu",
                    address |-> "local_address", peer |-> "peers"])
<1>1. "private_key" \in DOMAIN w.extra /\ KeysOf(w.proto) = {"private_key"} /\ ~w.tls
  BY DEF UriBuilds, required_string, Has, KeysOf, NodeOK, WithoutTls
<1>2. u = build_uri_with_query(w, w.extra["private_key"], q)
  BY DEF build_share_uri, build_wireguard_uri
<1>3. "peer" \in DOMAIN q => "peers" \in DOMAIN w.extra /\ q["peer"] = w.extra["peers"]
  BY RekeyIn
<1> HIDE DEF u, q
<1>4. PeersOK(q, "peer")
  BY <1>3 DEF PeersOK, NodeOK
<1>5. Written(w, u)
  BY <1>1, <1>2, <1>4, WrittenBy
<1>6. QED
  BY <1>5 DEF u

(***************************************************************************)
(* So does every URI builder.                                              *)
(***************************************************************************)
LEMMA WriteUri ==
  ASSUME NEW w, NodeOK(w), UriBuilds(w)
  PROVE  Written(w, build_share_uri(w))
<1>1. w.proto \in Protocols /\ w.proto \notin {"socks5", "http"}
  BY DEF NodeOK, UriBuilds
<1>2. QED
  BY <1>1, WriteSs, WriteVmess, WriteVless, WriteTrojan, WriteAnytls, WriteHysteria2,
     WriteTuic, WriteWireguard DEF Protocols

-----------------------------------------------------------------------------
(***************************************************************************)
(* The fields of an item that the parsers and the properties look at.      *)
(***************************************************************************)
Noted == Keys \cup {"auth", "peers", "tls", "transport", "security"}

(***************************************************************************)
(* Two records have the fields of S in common, or a record has none of     *)
(* them.                                                                   *)
(***************************************************************************)
Quiet(S, g) == \A k \in DOMAIN g : k \notin S
Agree(S, f, g) ==
  \A k \in S : (k \in DOMAIN f <=> k \in DOMAIN g) /\ (k \in DOMAIN g => f[k] = g[k])

(***************************************************************************)
(* A record without fields of S can be merged without changing them.       *)
(***************************************************************************)
LEMMA QuietMerge ==
  /\ \A S, f, g : Quiet(S, g) => Agree(S, f ?? g, f)
  /\ \A S, f, g : Quiet(S, f) => Agree(S, f ?? g, g)
  /\ \A S, f, g, h : Agree(S, f, g) /\ Agree(S, g, h) => Agree(S, f, h)
<1>1. ASSUME NEW S, NEW f, NEW g, Quiet(S, g) PROVE Agree(S, f ?? g, f)
  BY <1>1, MergeIn, MergeLeft DEF Quiet, Agree
<1>2. ASSUME NEW S, NEW f, NEW g, Quiet(S, f) PROVE Agree(S, f ?? g, g)
  BY <1>2, MergeIn, MergeRight DEF Quiet, Agree
<1>3. QED
  BY <1>1, <1>2 DEF Agree

(***************************************************************************)
(* Two records without fields of S have none together.                     *)
(***************************************************************************)
LEMMA QuietBoth == \A S, f, g : Quiet(S, f) /\ Quiet(S, g) => Quiet(S, f ?? g)
  BY MergeIn DEF Quiet

(***************************************************************************)
(* The fields of a Clash proxy, by protocol.                               *)
(***************************************************************************)
LEMMA ClashStream ==
  /\ ClashFields["ss"] = {"cipher", "password"}
  /\ ClashFields["vmess"] = {"uuid", "alter_id", "cipher", "username"} \cup Tuning \cup TlsHints
  /\ ClashFields["vless"] = {"uuid", "flow", "username"} \cup Tuning \cup TlsHints
  /\ ClashFields["trojan"] = {"password"} \cup Tuning \cup TlsHints
<1>1. \A p \in {"ss", "vmess", "vless", "trojan"} :
        p \in DOMAIN ClashStreamFields /\ p \in DOMAIN (ClashStreamFields ?? ClashQuicFields)
  BY MergeIn DEF ClashStreamFields
<1>2. \A p \in {"ss", "vmess", "vless", "trojan"} : ClashFields[p] = ClashStreamFields[p]
  BY <1>1, MergeLeft DEF ClashFields
<1>3. QED
  BY <1>2 DEF ClashStreamFields

(***************************************************************************)
(* The fields of a Clash proxy, by protocol.                               *)
(***************************************************************************)
LEMMA ClashQuic ==
  /\ ClashFields["hysteria2"] = {"password", "obfs"} \cup Tuning \cup TlsHints
  /\ ClashFields["tuic"] = {"uuid", "password", "obfs"} \cup Tuning \cup TlsHints
  /\ ClashFields["anytls"] = {"password"} \cup Tuning \cup TlsHints
<1>1. \A p \in {"hysteria2", "tuic", "anytls"} :
        /\ p \in DOMAIN ClashQuicFields /\ p \in DOMAIN (ClashStreamFields ?? ClashQuicFields)
        /\ p \notin DOMAIN ClashStreamFields
  BY MergeIn DEF ClashQuicFields, ClashStreamFields
<1>2. \A p \in {"hysteria2", "tuic", "anytls"} : ClashFields[p] = ClashQuicFields[p]
  BY <1>1, MergeLeft, MergeRight DEF ClashFields
<1>3. QED
  BY <1>2 DEF ClashQuicFields

(***************************************************************************)
(* The fields of a Clash proxy, by protocol.                               *)
(***************************************************************************)
LEMMA ClashOther ==
  /\ ClashFields["ssr"] = {"cipher", "password"} \cup Obfuscation
  /\ ClashFields["wireguard"] =
       {"private_key", "public_key", "preshared_key", "reserved", "mtu"}
  /\ ClashFields["socks5"] = {"username"} \cup TlsHints
  /\ ClashFields["http"] = {"username"} \cup TlsHints
<1>1. \A p \in {"ssr", "wireguard", "socks5", "http"} :
        p \in DOMAIN ClashOtherFields /\ p \notin DOMAIN (ClashStreamFields ?? ClashQuicFields)
  BY MergeIn DEF ClashQuicFields, ClashStreamFields, ClashOtherFields
<1>2. \A p \in {"ssr", "wireguard", "socks5", "http"} : ClashFields[p] = ClashOtherFields[p]
  BY <1>1, MergeRight DEF ClashFields
<1>3. QED
  BY <1>2 DEF ClashOtherFields

(***************************************************************************)
(* Of the noted fields the builder copies the protocol's credentials and   *)
(* no other ones; Socks5 and HTTP proxies lose their password.             *)
(***************************************************************************)
LEMMA ClashFieldsOf ==
  ASSUME NEW p \in Protocols
  PROVE  /\ \A k \in ClashFields[p] \cap Noted : k \in KeysOf(p) \cap Keys
         /\ p \notin {"socks5", "http"} => KeysOf(p) \subseteq ClashFields[p]
<1> USE DEF KeysOf, Noted, Keys, Tuning, TlsHints, Obfuscation
<1>1. CASE p \in {"ss", "vmess", "vless", "trojan"}
  BY <1>1, ClashStream
<1>2. CASE p \in {"hysteria2", "tuic", "anytls"}
  BY <1>2, ClashQuic
<1>3. CASE p \in {"ssr", "wireguard", "socks5", "http"}
  BY <1>3, ClashOther
<1>4. QED
  BY <1>1, <1>2, <1>3 DEF Protocols

(***************************************************************************)
(* The parts of an item.                                                   *)
(***************************************************************************)
LEMMA ItemFields ==
  ASSUME NEW w, NEW server, NEW f, NEW i, i = Item(w, server, f)
  PROVE  /\ i.type = w.proto /\ i.name = w.name /\ i.server = server
         /\ i.port = w.port /\ i.f = f
  BY DEF Item

(***************************************************************************)
(* A truth value is written as it is read.                                 *)
(***************************************************************************)
LEMMA BoolValue == \A b \in BOOLEAN : (Bool(b) = "true" <=> b)
  BY DEF Bool

(***************************************************************************)
(* build_clash_proxy writes a node's protocol, name, endpoint, TLS and     *)
(* credentials; Hysteria2's auth stands in for a password it does not      *)
(* have.                                                                   *)
(***************************************************************************)
LEMMA ClashItem ==
  ASSUME NEW w, NodeOK(w), NEW i, i = build_clash_proxy(w)
  PROVE  /\ i.type = w.proto /\ i.name = w.name /\ i.server = w.server /\ i.port = w.port
         /\ "peers" \notin DOMAIN i.f /\ "transport" \notin DOMAIN i.f
         /\ "tls" \in DOMAIN i.f <=> w.proto \notin WithoutTls
         /\ "tls" \in DOMAIN i.f => i.f["tls"] = Bool(w.tls)
         /\ \A k \in ClashFields[w.proto] \cap DOMAIN w.extra : k \in DOMAIN i.f
         /\ \A k \in ClashFields[w.proto] \cap DOMAIN w.extra \cap Keys :
              k \in DOMAIN i.f /\ i.f[k] = w.extra[k]
         /\ w.proto = "hysteria2" /\ "auth" \in DOMAIN w.extra => "password" \in DOMAIN i.f
         /\ \A k \in DOMAIN i.f \cap Keys :
              \/ k \in ClashFields[w.proto] \cap DOMAIN w.extra
              \/ /\ w.proto = "hysteria2" /\ k = "password" /\ "auth" \in DOMAIN w.extra
                 /\ i.f[k] = w.extra["auth"]
<1> DEFINE streamed == {"vmess", "vless", "trojan"}
           a == Pick(w.extra, ClashFields[w.proto])
           b == IF w.proto = "hysteria2" THEN Rekey(w.extra, [password |-> "auth"]) ELSE Empty
           c == IF w.proto = "vmess" THEN [alter_id |-> "0", cipher |-> "auto"] ELSE Empty
           d == IF w.proto \in {"ss", "ssr", "wireguard"} THEN Empty
                ELSE [tls |-> Bool(w.tls)] ?? Opt("servername", w.sni) ?? Opt("sni", w.sni)
           e == IF w.proto \in streamed
                THEN build_ws_options(w) ?? build_grpc_options(w) ?? build_h2_options(w)
                ELSE Empty
           g == IF w.proto = "vless" THEN build_reality_options(w) ELSE Empty
           h == IF w.proto \in {"ss", "ssr", "anytls", "socks5", "http"} THEN [network |-> "tcp"]
                ELSE IF w.proto \in streamed THEN [network |-> w.transport] ELSE Empty
           l == IF w.proto = "wireguard" THEN Rekey(w.extra, [ip |-> "local_address"])
                ELSE Empty
           m == [udp |-> "true"]
           f == ((((((((a ?? b) ?? c) ?? d) ?? e) ?? g) ?? h) ?? l) ?? m)
<1>1. i = Item(w, w.server, f)
  BY DEF build_clash_proxy
<1>2. \A k : k \in DOMAIN a <=> k \in DOMAIN w.extra /\ k \in ClashFields[w.proto]
  BY PickIn
<1>3. \A k \in DOMAIN a : a[k] = w.extra[k]
  BY PickIn
<1>4. \A k : k \in DOMAIN b <=> k = "password" /\ w.proto = "hysteria2" /\ "auth" \in DOMAIN w.extra
  BY RekeyIn, OneIn
<1>5. \A k \in DOMAIN b : b[k] = w.extra["auth"]
  BY RekeyIn, OneIn
<1>6. Quiet(Noted, c) /\ Quiet(Noted, m)
  BY OneIn DEF Quiet, Noted, Keys
<1>7. /\ \A k \in Noted : k \in DOMAIN d <=> k = "tls" /\ w.proto \notin WithoutTls
      /\ "tls" \in DOMAIN d => d["tls"] = Bool(w.tls)
  <2> DEFINE t == [tls |-> Bool(w.tls)]
             s1 == Opt("servername", w.sni)
             s2 == Opt("sni", w.sni)
  <2>1. Quiet(Noted, s1) /\ Quiet(Noted, s2)
    BY OptIn DEF Quiet, Noted, Keys
  <2>2. DOMAIN t = {"tls"} /\ t["tls"] = Bool(w.tls)
    OBVIOUS
  <2>3. d = IF w.proto \in {"ss", "ssr", "wireguard"} THEN Empty ELSE (t ?? s1) ?? s2
    OBVIOUS
  <2> HIDE DEF t, s1, s2, d
  <2>4. Agree(Noted, (t ?? s1) ?? s2, t)
    BY <2>1, QuietMerge
  <2>5. QED
    BY <2>2, <2>3, <2>4, OneIn DEF Agree, Noted, WithoutTls
<1>8. Quiet(Noted, e)
  <2>1. Quiet(Noted, build_ws_options(w))
    <3>1. \A k \in DOMAIN Rekey(w.extra, One("ws-path", "path") ?? One("ws-host", "host")) :
            k = "ws-path" \/ k = "ws-host"
      BY RekeyIn, MergeIn, OneIn
    <3>2. QED
      BY <3>1, MergeIn, OneIn DEF build_ws_options, Quiet, Noted, Keys
  <2>2. Quiet(Noted, build_grpc_options(w))
    BY MergeIn, OneIn, OptIn DEF build_grpc_options, Quiet, Noted, Keys
  <2>3. Quiet(Noted, build_h2_options(w))
    BY MergeIn, OneIn, OptIn DEF build_h2_options, Quiet, Noted, Keys
  <2>4. Quiet(Noted, Empty)
    BY OneIn DEF Quiet
  <2>5. QED
    BY <2>1, <2>2, <2>3, <2>4, QuietBoth
<1>9. Quiet(Noted, g)
  BY PickIn, OneIn DEF build_reality_options, Quiet, Noted, Keys
<1>10. Quiet(Noted, h)
  BY OneIn DEF Quiet, Noted, Keys
<1>11. Quiet(Noted, l)
  BY RekeyIn, OneIn DEF Quiet, Noted, Keys
<1> HIDE DEF a, b, c, d, e, g, h, l, m
<1>12. Agree(Noted, f, ((a ?? b) ?? c) ?? d)
  <2> DEFINE f4 == ((a ?? b) ?? c) ?? d
             f5 == f4 ?? e
             f6 == f5 ?? g
             f7 == f6 ?? h
             f8 == f7 ?? l
  <2> HIDE DEF f4
  <2>1. Agree(Noted, f5, f4)
    BY <1>8, QuietMerge
  <2> HIDE DEF f5
  <2>2. Agree(Noted, f6, f5)
    BY <1>9, QuietMerge
  <2> HIDE DEF f6
  <2>3. Agree(Noted, f7, f6)
    BY <1>10, QuietMerge
  <2> HIDE DEF f7
  <2>4. Agree(Noted, f8, f7)
    BY <1>11, QuietMerge
  <2>5. f = f8 ?? m
    BY DEF f4, f5, f6, f7
  <2> HIDE DEF f8, f
  <2>6. Agree(Noted, f, f8)
    BY <1>6, <2>5, QuietMerge
  <2>7. Agree(Noted, f, f4)
    BY <2>1, <2>2, <2>3, <2>4, <2>6, QuietMerge
  <2>8. QED
    BY <2>7 DEF f4
<1>13. Agree(Noted, (a ?? b) ?? c, a ?? b)
  BY <1>6, QuietMerge
<1>18. \A k \in ClashFields[w.proto] \cap DOMAIN w.extra : k \in DOMAIN f
  BY <1>2, MergeIn
<1> HIDE DEF f
<1>14. /\ i.type = w.proto /\ i.name = w.name /\ i.server = w.server /\ i.port = w.port
       /\ i.f = f
  BY <1>1, ItemFields
<1>15. \A k \in Keys : (k \in DOMAIN f <=> k \in DOMAIN a \/ k \in DOMAIN b)
                       /\ (k \in DOMAIN a => f[k] = a[k])
                       /\ (k \in DOMAIN b /\ k \notin DOMAIN a => f[k] = b[k])
  <2>1. SUFFICES ASSUME NEW k \in Keys
                 PROVE  (k \in DOMAIN f <=> k \in DOMAIN a \/ k \in DOMAIN b)
                       /\ (k \in DOMAIN a => f[k] = a[k])
                       /\ (k \in DOMAIN b /\ k \notin DOMAIN a => f[k] = b[k])
    OBVIOUS
  <2>2. k \in Noted /\ k \notin DOMAIN d
    BY <1>7 DEF Noted, Keys
  <2>3. QED
    BY <2>2, <1>12, <1>13, MergeIn, MergeLeft, MergeRight DEF Agree
<1>16. /\ "tls" \in DOMAIN f <=> w.proto \notin WithoutTls
       /\ "tls" \in DOMAIN f => f["tls"] = Bool(w.tls)
       /\ "peers" \notin DOMAIN f /\ "transport" \notin DOMAIN f
  <2>1. \A k \in {"tls", "peers", "transport"} :
          k \in Noted /\ k \notin DOMAIN a /\ k \notin DOMAIN b
    <3>1. \A k \in {"tls", "peers", "transport"} : k \in Noted /\ k \notin Keys /\ k # "password"
      BY DEF Noted, Keys
    <3>2. QED
      BY <3>1, <1>2, <1>4, ClashFieldsOf DEF NodeOK
  <2>2. \A k \in {"tls", "peers", "transport"} : k \in DOMAIN f <=> k \in DOMAIN d
    BY <2>1, <1>12, <1>13, MergeIn DEF Agree
  <2>3. "tls" \in DOMAIN f => f["tls"] = d["tls"]
    BY <2>1, <2>2, <1>12, <1>13, MergeIn, MergeRight DEF Agree
  <2>4. QED
    BY <2>1, <2>2, <2>3, <1>7
<1>17. QED
  BY <1>2, <1>3, <1>4, <1>5, <1>14, <1>15, <1>16, <1>18 DEF Keys

(***************************************************************************)
(* parse_clash_proxy reads them back into a well-formed node.              *)
(***************************************************************************)
LEMMA ClashNode ==
  ASSUME NEW i, ItemOK(i), NEW n, n = parse_clash_proxy(i)
  PROVE  /\ NodeOK(n)
         /\ n.proto = i.type /\ n.name = i.name /\ n.server = i.server /\ n.port = i.port
         /\ n.tls = IF "tls" \in DOMAIN i.f THEN i.f["tls"] = "true" ELSE i.type \in Encrypted
         /\ \A k \in Keys : (k \in DOMAIN n.extra <=> k \in DOMAIN i.f)
                            /\ (k \in DOMAIN i.f => n.extra[k] = i.f[k])
<1> DEFINE S == {"cipher", "password", "uuid", "alter_id", "flow", "udp",
                "private_key", "peers", "local_address", "reserved", "mtu"}
               \cup Obfuscation \cup Tuning \cup TlsHints
           a == Pick(i.f, S)
           b == Rekey(i.f, [grpc_service_name |-> "grpc-service-name", path |-> "h2-path",
                    hosts |-> "h2-host", host |-> "ws-host"])
           c == Rekey(i.f, [path |-> "ws-path"])
           tls == IF "tls" \in DOMAIN i.f THEN i.f["tls"] = "true" ELSE i.type \in Encrypted
<1>1. /\ DOMAIN n = NodeFields
      /\ n.proto = i.type /\ n.name = i.name /\ n.server = i.server /\ n.port = i.port
      /\ n.transport = resolve_transport(i) /\ n.extra = (a ?? b) ?? c
  BY DEF parse_clash_proxy, NodeFields
<1>2. n.tls = tls
  BY DEF parse_clash_proxy
<1>3. resolve_transport(i) \in Transports
  BY MapTransport DEF resolve_transport, Transports
<1>4. \A k \in Noted : k \in S <=> k \in Keys \/ k = "peers"
  BY DEF Noted, Keys, Obfuscation, Tuning, TlsHints
<1>5. Quiet(Noted, b) /\ Quiet(Noted, c)
  <2>1. \A k \in DOMAIN b : k \in {"grpc_service_name", "path", "hosts", "host"}
    BY RekeyNames
  <2>2. \A k \in DOMAIN c : k \in {"path"}
    BY RekeyNames
  <2> HIDE DEF b, c
  <2>3. QED
    BY <2>1, <2>2 DEF Quiet, Noted, Keys
<1> HIDE DEF S
<1>6. \A k \in Noted : /\ k \in DOMAIN a <=> k \in DOMAIN i.f /\ (k \in Keys \/ k = "peers")
                       /\ k \in DOMAIN a => a[k] = i.f[k]
  BY <1>4, PickIn
<1> HIDE DEF a, b, c
<1>7. Agree(Noted, n.extra, a)
  <2>1. Agree(Noted, (a ?? b) ?? c, a ?? b) /\ Agree(Noted, a ?? b, a)
    BY <1>5, QuietMerge
  <2>2. Agree(Noted, (a ?? b) ?? c, a)
    BY <2>1, QuietMerge
  <2>3. QED
    BY <1>1, <2>2
<1>8. \A k \in Noted : /\ k \in DOMAIN n.extra <=> k \in DOMAIN i.f /\ (k \in Keys \/ k = "peers")
                       /\ k \in DOMAIN n.extra => n.extra[k] = i.f[k]
  BY <1>6, <1>7 DEF Agree
<1>9. tls \in BOOLEAN /\ (tls => i.type \notin WithoutTls)
  <2>1. tls = TRUE \/ tls = FALSE
    OBVIOUS
  <2>2. tls => i.type \notin WithoutTls
    BY DEF ItemOK, Encrypted, WithoutTls
  <2>3. QED
    BY <2>1, <2>2
<1> HIDE DEF tls
<1>10. \A k \in Keys : (k \in DOMAIN n.extra <=> k \in DOMAIN i.f)
                            /\ (k \in DOMAIN i.f => n.extra[k] = i.f[k])
  BY <1>8 DEF Noted
<1>11. SecretsOK(n.proto, n.extra)
  BY <1>1, <1>10 DEF SecretsOK, ItemOK
<1>12. PeersOK(n.extra, "peers") /\ "auth" \notin DOMAIN n.extra /\ "security" \notin DOMAIN n.extra
  BY <1>8 DEF Noted, Keys, PeersOK, ItemOK
<1>13. NodeOK(n)
  BY <1>1, <1>2, <1>3, <1>9, <1>11, <1>12 DEF NodeOK, ItemOK
<1>14. QED
  BY <1>1, <1>2, <1>10, <1>13 DEF tls

(***************************************************************************)
(* So does the parser of older versions' documents.                        *)
(***************************************************************************)
LEMMA OldClashNode ==
  ASSUME NEW i, ItemOK(i), OldClashParses(i)
  PROVE  NodeOK(parse_clash_map_to_proxy_node(i))
<1> DEFINE p == parse_clash_proxy(i)
           n == parse_clash_map_to_proxy_node(i)
           S == CASE i.type \in {"ss", "ssr"} -> {"cipher", "password"}
                         [] i.type \in {"vmess", "vless"} -> {"uuid", "flow"}
                         [] OTHER -> {"password"}
           a == Pick(p.extra, S)
           b == Rekey(i.f, [path |-> "ws-path", host |-> "ws-host"])
<1>1. NodeOK(p)
  BY ClashNode
<1>2. DOMAIN p = NodeFields
  BY DEF parse_clash_proxy, NodeFields
<1>3. n = [p EXCEPT !.transport = map_transport(Get(i.f, "network")),
     !.sni = FirstOf(i.f, "sni", "servername"), !.extra = a ?? b]
  BY DEF parse_clash_map_to_proxy_node
<1>4. Quiet(Noted, b)
  <2>1. \A k \in DOMAIN b : k \in {"path", "host"}
    BY RekeyNames
  <2> HIDE DEF b
  <2>2. QED
    BY <2>1 DEF Quiet, Noted, Keys
<1>5. \A k \in Noted : k \in S => k \in Keys
  BY DEF Noted, Keys
<1>6. Agree(Noted, a ?? b, a)
  BY <1>4, QuietMerge
<1> HIDE DEF p, n, S, b
<1>7. \A k \in Noted : k \in DOMAIN (a ?? b) =>
          k \in DOMAIN p.extra /\ (a ?? b)[k] = p.extra[k] /\ k \in Keys
  BY <1>5, <1>6, PickIn DEF Agree
<1> DEFINE x == a ?? b
<1> HIDE DEF a, x
<1>8. SecretsOK(p.proto, x)
  BY <1>1, <1>7 DEF SecretsOK, NodeOK, Noted, x
<1>9. PeersOK(x, "peers") /\ "auth" \notin DOMAIN x /\ "security" \notin DOMAIN x
  BY <1>7 DEF Noted, Keys, PeersOK, x
<1>10. /\ DOMAIN n = NodeFields /\ n.proto = p.proto /\ n.name = p.name /\ n.port = p.port
       /\ n.transport = map_transport(Get(i.f, "network")) /\ n.tls = p.tls /\ n.extra = x
  BY <1>2, <1>3 DEF NodeFields, x
<1>11. NodeOK(n)
  BY <1>1, <1>8, <1>9, <1>10, MapTransport DEF NodeOK
<1>12. QED
  BY <1>11 DEF n

(***************************************************************************)
(* A node with the same protocol, endpoint and TLS, and every credential   *)
(* that the format carries, is kept.                                       *)
(***************************************************************************)
LEMMA KeptItem ==
  ASSUME NEW w, NEW n, NEW f, NodeOK(w), n.proto = w.proto, n.server = w.server, n.port = w.port,
         w.tls => n.tls,
         \A k \in KeysOf(w.proto) \cap DOMAIN w.extra :
           \/ k \in DOMAIN n.extra /\ n.extra[k] = w.extra[k]
           \/ f = "ini" /\ Raw(w.extra[k])
           \/ w.proto \in {"socks5", "http"}
  PROVE  Kept(f, w, n)
<1>1. SameNode(w, n)
  BY SameEndpoint
<1>2. \A k \in DOMAIN Secret(w) : k \in KeysOf(w.proto) \cap DOMAIN w.extra
  BY PickIn DEF Secret, NodeOK, SecretsOK
<1>3. Credible(f, w, n)
  BY <1>2 DEF Credible
<1>4. QED
  BY <1>1, <1>3 DEF Kept

(***************************************************************************)
(* A Clash proxy that is written is well-formed, is never skipped, and is  *)
(* read back as the node.                                                  *)
(***************************************************************************)
LEMMA KeptClash ==
  ASSUME NEW w, NodeOK(w), required_string(w)
  PROVE  LET i == build_clash_proxy(w) IN
           /\ ItemOK(i) /\ validate_required_fields(i)
           /\ Kept("clash", w, parse_clash_proxy(i))
<1> DEFINE i == build_clash_proxy(w)
           n == parse_clash_proxy(i)
<1>1.    /\ i.type = w.proto /\ i.name = w.name /\ i.server = w.server /\ i.port = w.port
         /\ "peers" \notin DOMAIN i.f /\ "transport" \notin DOMAIN i.f
         /\ "tls" \in DOMAIN i.f <=> w.proto \notin WithoutTls
         /\ "tls" \in DOMAIN i.f => i.f["tls"] = Bool(w.tls)
         /\ \A k \in ClashFields[w.proto] \cap DOMAIN w.extra : k \in DOMAIN i.f
         /\ \A k \in ClashFields[w.proto] \cap DOMAIN w.extra \cap Keys :
              k \in DOMAIN i.f /\ i.f[k] = w.extra[k]
         /\ w.proto = "hysteria2" /\ "auth" \in DOMAIN w.extra => "password" \in DOMAIN i.f
         /\ \A k \in DOMAIN i.f \cap Keys :
              \/ k \in ClashFields[w.proto] \cap DOMAIN w.extra
              \/ /\ w.proto = "hysteria2" /\ k = "password" /\ "auth" \in DOMAIN w.extra
                 /\ i.f[k] = w.extra["auth"]
  BY ClashItem
<1> HIDE DEF i
<1>2. SecretsOK(i.type, i.f)
  <2>1. ASSUME NEW k \in DOMAIN i.f \cap Keys
        PROVE  k \in KeysOf(w.proto) /\ i.f[k] \in Secrets
    <3>1. CASE k \in ClashFields[w.proto] \cap DOMAIN w.extra
      <4>1. i.f[k] = w.extra[k]
        BY <1>1, <3>1
      <4>2. QED
        BY <3>1, <4>1 DEF NodeOK, SecretsOK
    <3>2. CASE w.proto = "hysteria2" /\ k = "password" /\ "auth" \in DOMAIN w.extra
                 /\ i.f[k] = w.extra["auth"]
      BY <3>2 DEF NodeOK, KeysOf
    <3>3. QED
      BY <1>1, <3>1, <3>2
  <2>2. QED
    BY <1>1, <2>1 DEF SecretsOK
<1>3. ItemOK(i)
  BY <1>1, <1>2 DEF ItemOK, NodeOK, PeersOK
<1>4. ASSUME NEW k \in KeysOf(w.proto) \cap DOMAIN w.extra, w.proto \notin {"socks5", "http"}
      PROVE  k \in Keys /\ k \in DOMAIN i.f /\ i.f[k] = w.extra[k]
  <2>1. k \in Keys
    BY <1>4 DEF KeysOf, Keys
  <2>2. k \in ClashFields[w.proto]
    BY <1>4, ClashFieldsOf DEF NodeOK
  <2>3. QED
    BY <1>1, <1>4, <2>1, <2>2
<1>5.    /\ n.proto = i.type /\ n.server = i.server /\ n.port = i.port
         /\ n.tls = IF "tls" \in DOMAIN i.f THEN i.f["tls"] = "true" ELSE i.type \in Encrypted
         /\ \A k \in Keys : (k \in DOMAIN n.extra <=> k \in DOMAIN i.f)
                            /\ (k \in DOMAIN i.f => n.extra[k] = i.f[k])
  BY <1>3, ClashNode
<1> HIDE DEF n
<1>6. w.tls => n.tls
  BY <1>1, <1>5, BoolValue DEF NodeOK
<1>7. Kept("clash", w, n)
  BY <1>1, <1>4, <1>5, <1>6, KeptItem
<1>8. validate_required_fields(i)
  <2>1. CASE w.proto \in {"ss", "ssr"}
    <3>1. {"cipher", "password"} \subseteq ClashFields[w.proto] \cap DOMAIN w.extra
      BY <2>1, ClashStream, ClashOther DEF required_string, Has
    <3>2. QED
      BY <1>1, <2>1, <3>1 DEF validate_required_fields
  <2>2. CASE w.proto = "hysteria2"
    BY <1>1, <1>4, <2>2 DEF validate_required_fields, required_string, Has, KeysOf
  <2>3. CASE w.proto \in {"socks5", "http"}
    BY <1>1, <2>3 DEF validate_required_fields
  <2>4. CASE w.proto \in {"vmess", "vless", "trojan", "anytls", "tuic", "wireguard"}
    BY <1>1, <1>4, <2>4 DEF validate_required_fields, required_string, Has, KeysOf
  <2>5. QED
    BY <2>1, <2>2, <2>3, <2>4 DEF NodeOK, Protocols
<1>9. QED
  BY <1>3, <1>7, <1>8 DEF i, n

-----------------------------------------------------------------------------
(***************************************************************************)
(* What an INI value's separator leaves of a secret is a secret.           *)
(***************************************************************************)
LEMMA CutSecret == \A t \in Secrets : Cut(t) \in Secrets
<1>1. Text("cut") \in Secrets
  BY TextOf DEF Words
<1>2. QED
  BY <1>1 DEF Cut

(***************************************************************************)
(* parse_ini_proxy_line gives a well-formed node; a value ends at a        *)
(* separator.                                                              *)
(***************************************************************************)
LEMMA IniNode ==
  ASSUME NEW i, ItemOK(i), NEW n, n = parse_ini_proxy_line(i)
  PROVE  /\ NodeOK(n)
         /\ n.proto = i.type /\ n.name = i.name /\ n.server = i.server /\ n.port = i.port
         /\ "tls" \in DOMAIN i.f => n.tls = (i.f["tls"] = "true")
         /\ \A k \in {"password", "uuid"} \cap DOMAIN i.f :
              k \in DOMAIN n.extra /\ n.extra[k] = Cut(i.f[k])
<1> DEFINE a == Pick(i.f, {"cipher", "flow", "path", "host"})
           b == [k \in DOMAIN i.f \cap {"password", "uuid"} |-> Cut(i.f[k])]
           tls == IF "tls" \in DOMAIN i.f THEN i.f["tls"] = "true"
                  ELSE i.type \in {"vmess", "vless", "trojan"}
<1>1. /\ DOMAIN n = NodeFields
      /\ n.proto = i.type /\ n.name = i.name /\ n.server = i.server /\ n.port = i.port
      /\ n.transport = map_transport(Get(i.f, "network")) /\ n.extra = a ?? b
  BY DEF parse_ini_proxy_line, NodeFields
<1>2. n.tls = tls
  BY DEF parse_ini_proxy_line
<1>3. Quiet(Noted, a)
  BY PickIn DEF Quiet, Noted, Keys
<1>4. /\ \A k : k \in DOMAIN b <=> k \in DOMAIN i.f /\ k \in {"password", "uuid"}
      /\ \A k \in DOMAIN b : b[k] = Cut(i.f[k])
  OBVIOUS
<1> HIDE DEF a, b
<1>5. Agree(Noted, n.extra, b)
  BY <1>1, <1>3, QuietMerge
<1>6. tls \in BOOLEAN /\ (tls => i.type \notin WithoutTls)
  <2>1. tls = TRUE \/ tls = FALSE
    OBVIOUS
  <2>2. tls => i.type \notin WithoutTls
    BY DEF ItemOK, WithoutTls
  <2>3. QED
    BY <2>1, <2>2
<1> HIDE DEF tls
<1>7. \A k \in DOMAIN n.extra \cap Noted :
        k \in DOMAIN i.f /\ k \in {"password", "uuid"} /\ n.extra[k] = Cut(i.f[k])
  BY <1>4, <1>5 DEF Agree
<1>8. SecretsOK(n.proto, n.extra)
  BY <1>1, <1>7, CutSecret DEF SecretsOK, ItemOK, Noted
<1>9. PeersOK(n.extra, "peers") /\ "auth" \notin DOMAIN n.extra /\ "security" \notin DOMAIN n.extra
  BY <1>7 DEF Noted, PeersOK
<1>10. NodeOK(n)
  BY <1>1, <1>2, <1>6, <1>8, <1>9, MapTransport DEF NodeOK, ItemOK
<1>11. \A k \in {"password", "uuid"} \cap DOMAIN i.f :
              k \in DOMAIN n.extra /\ n.extra[k] = Cut(i.f[k])
  BY <1>4, <1>5 DEF Agree, Noted, Keys
<1>12. QED
  BY <1>1, <1>2, <1>10, <1>11 DEF tls

(***************************************************************************)
(* An INI line that is written is skipped only for a separator in its      *)
(* name, and is read back as the node.                                     *)
(***************************************************************************)
LEMMA KeptIni ==
  ASSUME NEW w, NodeOK(w), IniBuilds(w)
  PROVE  LET i == node_to_ini_line(w) IN
           /\ ItemOK(i) /\ (IniParses(i) <=> ~Skipped("ini", w))
           /\ Kept("ini", w, parse_ini_proxy_line(i))
<1> DEFINE i == node_to_ini_line(w)
           n == parse_ini_proxy_line(i)
           S == CASE w.proto \in {"ss", "ssr"} -> {"cipher", "password"}
                    [] w.proto \in {"vmess", "vless"} -> {"uuid", "flow"}
                    [] w.proto = "trojan" -> {"password"}
           a == Pick(w.extra, S)
           t == IF w.tls THEN [tls |-> "true"] ELSE Empty
           s == Opt("sni", w.sni)
           f == (a ?? t) ?? s
<1>1. w.proto \in IniProtocols /\ required_string(w)
  BY DEF IniBuilds
<1>2. i = Item(w, w.server, f)
  BY DEF node_to_ini_line
<1>3. /\ \A k \in Noted : k \in S => k \in KeysOf(w.proto)
      /\ KeysOf(w.proto) \subseteq S
      /\ "cipher" \in S <=> w.proto \in {"ss", "ssr"}
  BY <1>1 DEF IniProtocols, KeysOf, Noted, Keys
<1> HIDE DEF S
<1>4. /\ \A k : k \in DOMAIN a <=> k \in DOMAIN w.extra /\ k \in S
      /\ \A k \in DOMAIN a : a[k] = w.extra[k]
  BY PickIn
<1>5. Quiet(Noted, s)
  BY OptIn DEF Quiet, Noted, Keys
<1>6. \A k \in DOMAIN t : k = "tls" /\ w.tls /\ t[k] = "true"
  BY OneIn
<1>7. w.tls => "tls" \in DOMAIN t
  OBVIOUS
<1> HIDE DEF a, t, s
<1>8. Agree(Noted, f, a ?? t)
  BY <1>5, QuietMerge
<1>9. DOMAIN a \subseteq DOMAIN f
  BY MergeIn
<1> HIDE DEF f
<1>10. /\ i.type = w.proto /\ i.name = w.name /\ i.server = w.server /\ i.port = w.port
       /\ i.f = f
  BY <1>2, ItemFields
<1> HIDE DEF i
<1>11. \A k \in KeysOf(w.proto) \cap DOMAIN w.extra :
          k \in Keys /\ k \in DOMAIN f /\ f[k] = w.extra[k]
  <2>1. KeysOf(w.proto) \subseteq Keys
    BY DEF KeysOf, Keys
  <2>2. QED
    BY <2>1, <1>3, <1>4, <1>8, MergeIn, MergeLeft DEF Agree, Noted
<1>12. \A k \in Noted \cap DOMAIN f : \/ k = "tls" /\ w.tls /\ f[k] = "true"
                                      \/ k \in KeysOf(w.proto) \cap DOMAIN w.extra
  <2>1. "tls" \notin KeysOf(w.proto) /\ "tls" \in Noted
    BY DEF KeysOf, Noted
  <2>2. "tls" \notin DOMAIN a
    BY <1>3, <1>4, <2>1
  <2>3. QED
    BY <2>2, <1>3, <1>4, <1>6, <1>8, MergeIn, MergeRight DEF Agree
<1>13. w.tls => "tls" \in DOMAIN f /\ f["tls"] = "true"
  <2>1. "tls" \notin KeysOf(w.proto) /\ "tls" \in Noted
    BY DEF KeysOf, Noted
  <2>2. "tls" \notin DOMAIN a
    BY <1>3, <1>4, <2>1
  <2>3. QED
    BY <2>1, <2>2, <1>6, <1>7, <1>8, MergeIn, MergeRight DEF Agree
<1>14. SecretsOK(i.type, i.f)
  BY <1>10, <1>11, <1>12 DEF SecretsOK, NodeOK, Noted, Keys
<1>15. "peers" \notin DOMAIN f /\ "transport" \notin DOMAIN f
       /\ ("tls" \in DOMAIN f => w.tls)
  <2>1. \A k \in {"peers", "transport", "tls"} : k \in Noted /\ k \notin KeysOf(w.proto)
    BY DEF KeysOf, Noted
  <2>2. QED
    BY <2>1, <1>12
<1>16. ItemOK(i)
  BY <1>10, <1>14, <1>15 DEF ItemOK, NodeOK, PeersOK
<1>17. IniParses(i) <=> ~Skipped("ini", w)
  <2>1. validate_required_fields(i)
    <3>1. CASE w.proto \in {"ss", "ssr"}
      <4>1. {"cipher", "password"} \subseteq DOMAIN f
        BY <1>1, <1>3, <1>4, <1>9, <3>1 DEF required_string, Has, KeysOf
      <4>2. QED
        BY <1>10, <3>1, <4>1 DEF validate_required_fields
    <3>2. CASE w.proto \in {"vmess", "vless", "trojan"}
      BY <1>1, <1>10, <1>11, <3>2 DEF validate_required_fields, required_string, Has, KeysOf
    <3>3. QED
      BY <1>1, <3>1, <3>2 DEF IniProtocols
  <2>2. QED
    BY <1>10, <2>1 DEF IniParses, Skipped
<1>18.   /\ n.proto = i.type /\ n.server = i.server /\ n.port = i.port
         /\ "tls" \in DOMAIN i.f => n.tls = (i.f["tls"] = "true")
         /\ \A k \in {"password", "uuid"} \cap DOMAIN i.f :
              k \in DOMAIN n.extra /\ n.extra[k] = Cut(i.f[k])
  BY <1>16, IniNode
<1> HIDE DEF n
<1>19. w.tls => n.tls
  BY <1>10, <1>13, <1>18
<1>20. KeysOf(w.proto) \subseteq {"password", "uuid"}
  BY <1>1 DEF KeysOf, IniProtocols
<1>21. Kept("ini", w, n)
  BY <1>10, <1>11, <1>18, <1>19, <1>20, KeptItem DEF Cut
<1>22. QED
  BY <1>16, <1>17, <1>21 DEF i, n

-----------------------------------------------------------------------------
(***************************************************************************)
(* The fields that a sing-box outbound may get from more than one place,   *)
(* and the renamings that leave them alone.                                *)
(***************************************************************************)
Marks == Keys \cup {"auth", "peers", "tls", "transport"}
Straight(p, r) ==
  \A k \in DOMAIN r \cap Marks :
    r[k] = k /\ (k \in KeysOf(p) \cap Keys \/ (k = "peers" /\ p = "wireguard"))

(***************************************************************************)
(* The fields of a sing-box outbound, by protocol.                         *)
(***************************************************************************)
LEMMA SingboxStream ==
  /\ SingboxFields["ss"] = [method |-> "cipher", password |-> "password"]
  /\ SingboxFields["ssr"] =
       [method |-> "cipher", password |-> "password", protocol |-> "protocol",
            protocol_param |-> "protocol_param", obfs |-> "obfs",
            obfs_param |-> "obfs_param"]
  /\ SingboxFields["vmess"] = [uuid |-> "uuid", alter_id |-> "alter_id", security |-> "security"]
  /\ SingboxFields["vless"] = [uuid |-> "uuid", flow |-> "flow"]
  /\ SingboxFields["trojan"] = [password |-> "password"]
<1>1. \A p \in {"ss", "ssr", "vmess", "vless", "trojan"} : p \in DOMAIN SingboxStreamFields
  BY DEF SingboxStreamFields
<1>2. \A p \in {"ss", "ssr", "vmess", "vless", "trojan"} : SingboxFields[p] = SingboxStreamFields[p]
  BY <1>1, MergeLeft DEF SingboxFields
<1>3. QED
  BY <1>2 DEF SingboxStreamFields

(***************************************************************************)
(* The fields of a sing-box outbound, by protocol.                         *)
(***************************************************************************)
LEMMA SingboxOther ==
  /\ SingboxFields["hysteria2"] = [password |-> "password", obfs |-> "obfs"]
  /\ SingboxFields["tuic"] =
       [uuid |-> "uuid", password |-> "password",
             congestion_control |-> "congestion_control",
             udp_relay_mode |-> "udp_relay_mode"]
  /\ SingboxFields["anytls"] = [password |-> "password"]
  /\ SingboxFields["wireguard"] =
       [private_key |-> "private_key", peers |-> "peers",
                  local_address |-> "local_address", reserved |-> "reserved",
                  mtu |-> "mtu"]
  /\ SingboxFields["socks5"] = Empty /\ SingboxFields["http"] = Empty
<1> DEFINE S == {"hysteria2", "tuic", "anytls", "wireguard", "socks5", "http"}
<1>1. \A p \in S : p \in DOMAIN SingboxOtherFields /\ p \notin DOMAIN SingboxStreamFields
  BY DEF SingboxStreamFields, SingboxOtherFields
<1>2. \A p \in S : SingboxFields[p] = SingboxOtherFields[p]
  BY <1>1, MergeRight DEF SingboxFields
<1>3. QED
  BY <1>2 DEF SingboxOtherFields

(***************************************************************************)
(* Credentials keep their names in an outbound; only Socks5 and HTTP       *)
(* proxies lose their password.                                            *)
(***************************************************************************)
LEMMA SingboxFieldsOf ==
  ASSUME NEW p \in Protocols
  PROVE  /\ Straight(p, SingboxFields[p])
         /\ p \notin {"socks5", "http"} => KeysOf(p) \subseteq DOMAIN SingboxFields[p]
<1> USE DEF Straight, KeysOf, Marks, Keys
<1>1. CASE p \in {"ss", "ssr", "vmess", "vless", "trojan"}
  BY <1>1, SingboxStream
<1>2. CASE p \in {"hysteria2", "tuic", "anytls", "wireguard"}
  BY <1>2, SingboxOther
<1>3. CASE p \in {"socks5", "http"}
  BY <1>3, SingboxOther, OneIn
<1>4. QED
  BY <1>1, <1>2, <1>3 DEF Protocols

(***************************************************************************)
(* The fields that parse_singbox_node reads, by protocol.                  *)
(***************************************************************************)
Own(p) ==
  CASE p \in {"ss", "ssr"} -> [cipher |-> "method", password |-> "password"]
    [] p = "vmess" -> [uuid |-> "uuid", cipher |-> "security", alter_id |-> "alter_id"]
    [] p \in {"socks5", "http"} -> [username |-> "username", password |-> "password"]
    [] p = "hysteria2" -> [password |-> "password", obfs |-> "obfs",
                           obfs_password |-> "obfs_password"]
    [] OTHER -> SingboxFields[p]

(***************************************************************************)
(* It reads the protocol's credentials, under their names.                 *)
(***************************************************************************)
LEMMA OwnFields ==
  ASSUME NEW p \in Protocols
  PROVE  /\ Straight(p, Own(p)) /\ "security" \notin DOMAIN Own(p)
         /\ KeysOf(p) \subseteq DOMAIN Own(p)
<1> USE DEF Straight, KeysOf, Marks, Keys, Own
<1>1. CASE p \in {"ss", "ssr", "vmess", "hysteria2", "socks5", "http"}
  BY <1>1
<1>2. CASE p \in {"vless", "trojan"}
  BY <1>2, SingboxStream
<1>3. CASE p \in {"tuic", "anytls", "wireguard"}
  BY <1>3, SingboxOther
<1>4. QED
  BY <1>1, <1>2, <1>3 DEF Protocols

(***************************************************************************)
(* parse_singbox_node gives a well-formed node with the outbound's         *)
(* endpoint, TLS and credentials.                                          *)
(***************************************************************************)
LEMMA SingboxNode ==
  ASSUME NEW i, ItemOK(i), SingboxParses(i), NEW n, n = parse_singbox_node(i)
  PROVE  /\ NodeOK(n)
         /\ n.proto = i.type /\ n.tls = parse_singbox_tls(i)
         /\ n.server = resolve_endpoint(i)[1] /\ n.port = resolve_endpoint(i)[2]
         /\ \A k \in KeysOf(i.type) \cap DOMAIN i.f : k \in DOMAIN n.extra /\ n.extra[k] = i.f[k]
<1> DEFINE tr == IF i.type \in {"hysteria2", "tuic"} THEN "quic"
            ELSE IF "transport" \in DOMAIN i.f THEN SingboxTransports[i.f["transport"]]
            ELSE "tcp"
           a == Rekey(i.f, Own(i.type))
           b == IF i.type = "ssr" THEN Pick(i.f, Obfuscation) ELSE Empty
           c == Rekey(i.f, [path |-> "path", service_name |-> "service_name",
                      host |-> "Host", hosts |-> "hosts"])
           d == Rekey(i.f, [skip_cert_verify |-> "insecure", alpn |-> "alpn"])
           extra == ((a ?? b) ?? c) ?? d
<1>1. /\ DOMAIN n = NodeFields
      /\ n.proto = i.type /\ n.name = i.name /\ n.server = resolve_endpoint(i)[1]
      /\ n.port = resolve_endpoint(i)[2] /\ n.tls = parse_singbox_tls(i)
      /\ n.transport = tr
  BY DEF parse_singbox_node, NodeFields
<1>2. n.extra = extra
  BY DEF parse_singbox_node, Own
<1>3. tr \in Transports
  BY DEF ItemOK, SingboxTransports, Transports
<1>4. \A k \in Noted : /\ k \in DOMAIN a <=> k \in DOMAIN Own(i.type) /\ k \in DOMAIN i.f
                       /\ k \in DOMAIN a => a[k] = i.f[k]
  BY OwnFields, RekeyIn DEF Straight, Noted, Marks, ItemOK
<1>5. Quiet(Noted, b)
  BY PickIn, OneIn DEF Quiet, Noted, Keys, Obfuscation
<1>6. Quiet(Noted, c)
  <2>1. \A k \in DOMAIN c : k \in {"path", "service_name", "host", "hosts"}
    BY RekeyNames
  <2> HIDE DEF c
  <2>2. QED
    BY <2>1 DEF Quiet, Noted, Keys
<1>7. Quiet(Noted, d)
  <2>1. \A k \in DOMAIN d : k \in {"skip_cert_verify", "alpn"}
    BY RekeyNames
  <2> HIDE DEF d
  <2>2. QED
    BY <2>1 DEF Quiet, Noted, Keys
<1> HIDE DEF a, b, c, d, tr
<1>8. Agree(Noted, extra, a)
  <2>1. Agree(Noted, a ?? b, a)
    BY <1>5, QuietMerge
  <2>2. Agree(Noted, (a ?? b) ?? c, a ?? b)
    BY <1>6, QuietMerge
  <2>3. Agree(Noted, ((a ?? b) ?? c) ?? d, (a ?? b) ?? c)
    BY <1>7, QuietMerge
  <2>4. QED
    BY <2>1, <2>2, <2>3, QuietMerge
<1> HIDE DEF extra
<1>9. \A k \in Noted : /\ k \in DOMAIN n.extra <=> k \in DOMAIN Own(i.type) /\ k \in DOMAIN i.f
                       /\ k \in DOMAIN n.extra => n.extra[k] = i.f[k]
  BY <1>2, <1>4, <1>8 DEF Agree
<1>10. n.port # 0
  BY <1>1 DEF resolve_endpoint, SingboxParses, ItemOK, PeersOK
<1>11. n.tls \in BOOLEAN /\ (n.tls => i.type \notin WithoutTls)
  BY <1>1 DEF parse_singbox_tls, ItemOK
<1>12. SecretsOK(n.proto, n.extra)
  BY <1>1, <1>9, OwnFields DEF SecretsOK, ItemOK, Noted, Straight, Marks
<1>13. /\ PeersOK(n.extra, "peers")
       /\ "auth" \notin DOMAIN n.extra /\ "security" \notin DOMAIN n.extra
  <2>1. "auth" \notin DOMAIN Own(i.type) /\ "security" \notin DOMAIN Own(i.type)
    BY OwnFields DEF Straight, Marks, ItemOK, Keys
  <2>2. QED
    BY <2>1, <1>9 DEF PeersOK, ItemOK, Noted
<1>14. NodeOK(n)
  BY <1>1, <1>3, <1>10, <1>11, <1>12, <1>13 DEF NodeOK, ItemOK
<1>15. \A k \in KeysOf(i.type) : k \in Noted /\ k \in DOMAIN Own(i.type)
  BY OwnFields DEF KeysOf, Noted, Keys, ItemOK
<1>16. QED
  BY <1>1, <1>9, <1>14, <1>15

(***************************************************************************)
(* build_singbox_tls writes TLS for a node that has it, and nothing in     *)
(* place of another field.                                                 *)
(***************************************************************************)
LEMMA SingboxTls ==
  ASSUME NEW w, NodeOK(w)
  PROVE  /\ \A k \in DOMAIN build_singbox_tls(w) : k \in Marks => k = "tls"
         /\ w.tls => /\ "tls" \in DOMAIN build_singbox_tls(w)
                     /\ build_singbox_tls(w)["tls"] = "true"
<1> DEFINE enabled == w.tls \/ IsReality(w)
           a == Rekey(w.extra, [insecure |-> "skip_cert_verify", alpn |-> "alpn",
                                utls |-> "client_fingerprint"])
           b == Opt("server_name", w.sni)
           c == IF IsReality(w)
                THEN Pick(w.extra, {"reality_public_key", "reality_short_id"}) ELSE Empty
           fields == (a ?? b) ?? c
           t == [tls |-> Bool(enabled)]
<1>1. build_singbox_tls(w) = IF fields = Empty /\ ~enabled THEN Empty ELSE fields ?? t
  BY DEF build_singbox_tls
<1>2. \A k \in DOMAIN a : k \in {"insecure", "alpn", "utls"}
  BY RekeyNames
<1>3. \A k \in DOMAIN b : k = "server_name"
  BY OptIn
<1>4. \A k \in DOMAIN c : k \in {"reality_public_key", "reality_short_id"}
  BY PickIn, OneIn
<1>5. DOMAIN t = {"tls"} /\ t["tls"] = Bool(enabled)
  OBVIOUS
<1> HIDE DEF a, b, c, t
<1>6. \A k \in DOMAIN fields : k \notin Marks
  BY <1>2, <1>3, <1>4, MergeIn DEF Marks, Keys
<1> HIDE DEF fields
<1>7. w.tls => Bool(enabled) = "true"
  BY DEF Bool
<1>8. "tls" \in Marks
  BY DEF Marks
<1> HIDE DEF enabled
<1>9. \A k \in DOMAIN build_singbox_tls(w) : k \in Marks => k = "tls"
  BY <1>1, <1>5, <1>6, MergeIn, OneIn
<1>10. w.tls => build_singbox_tls(w) = fields ?? t
  BY <1>1 DEF enabled
<1>11. QED
  BY <1>5, <1>6, <1>7, <1>8, <1>9, <1>10, MergeIn, MergeRight

(***************************************************************************)
(* build_singbox_transport writes a transport that the parser knows, and   *)
(* nothing in place of another field.                                      *)
(***************************************************************************)
LEMMA SingboxTransport ==
  ASSUME NEW w, NodeOK(w)
  PROVE  \A k \in DOMAIN build_singbox_transport(w) \cap Marks :
           k = "transport" /\ build_singbox_transport(w)[k] \in DOMAIN SingboxTransports
<1> DEFINE b == build_singbox_transport(w)
<1>1. DOMAIN SingboxTransports = {"ws", "grpc", "http", "quic"}
  BY DEF SingboxTransports
<1>2. ASSUME NEW t \in DOMAIN SingboxTransports, NEW g, \A k \in DOMAIN g : k \notin Marks,
             b = [transport |-> t] ?? g
      PROVE  \A k \in DOMAIN b \cap Marks : k = "transport" /\ b[k] \in DOMAIN SingboxTransports
  <2> DEFINE f == [transport |-> t]
  <2>1. DOMAIN f = {"transport"} /\ f["transport"] = t
    OBVIOUS
  <2>2. b = f ?? g
    BY <1>2
  <2> HIDE DEF f, b
  <2>3. QED
    BY <1>2, <2>1, <2>2, MergeIn, MergeLeft
<1>3. CASE w.transport = "tcp"
  BY <1>3, OneIn DEF build_singbox_transport
<1>4. CASE w.transport = "ws"
  <2> DEFINE g == Rekey(w.extra, [path |-> "path", Host |-> "host"])
  <2>1. \A k \in DOMAIN g : k \in {"path", "Host"}
    BY RekeyNames
  <2>2. b = [transport |-> "ws"] ?? g
    BY <1>4 DEF build_singbox_transport
  <2> HIDE DEF b, g
  <2>3. \A k \in DOMAIN g : k \notin Marks
    BY <2>1 DEF Marks, Keys
  <2>4. QED
    BY <1>1, <1>2, <2>2, <2>3 DEF b
<1>5. CASE w.transport = "grpc"
  <2> DEFINE g == Opt("service_name", FirstOf(w.extra, "grpc_service_name", "service_name"))
  <2>1. \A k \in DOMAIN g : k \in {"service_name"}
    BY OptIn
  <2>2. b = [transport |-> "grpc"] ?? g
    BY <1>5 DEF build_singbox_transport
  <2> HIDE DEF b, g
  <2>3. \A k \in DOMAIN g : k \notin Marks
    BY <2>1 DEF Marks, Keys
  <2>4. QED
    BY <1>1, <1>2, <2>2, <2>3 DEF b
<1>6. CASE w.transport = "h2"
  <2> DEFINE p == Pick(w.extra, {"path"})
             o == Opt("hosts", FirstOf(w.extra, "hosts", "host"))
             g == p ?? o
  <2>1. \A k \in DOMAIN g : k \in {"path", "hosts"}
    BY OptIn, PickIn, MergeIn
  <2>2. b = [transport |-> "http"] ?? g
    <3>1. b = ([transport |-> "http"] ?? p) ?? o
      BY <1>6 DEF build_singbox_transport
    <3> DEFINE h == [transport |-> "http"]
    <3> HIDE DEF h, b, p, o
    <3>2. (h ?? p) ?? o = h ?? (p ?? o)
      BY DEF ??
    <3>3. QED
      BY <3>1, <3>2 DEF h
  <2> HIDE DEF b, g
  <2>3. \A k \in DOMAIN g : k \notin Marks
    BY <2>1 DEF Marks, Keys
  <2>4. QED
    BY <1>1, <1>2, <2>2, <2>3 DEF b
<1>7. CASE w.transport = "quic"
  BY <1>1, <1>7 DEF build_singbox_transport
<1>8. QED
  BY <1>3, <1>4, <1>5, <1>6, <1>7 DEF NodeOK, Transports

(***************************************************************************)
(* build_singbox_node_outbound writes a node's protocol, name, endpoint,   *)
(* TLS and credentials.                                                    *)
(***************************************************************************)
LEMMA SingboxItem ==
  ASSUME NEW w, NodeOK(w), NEW i, i = build_singbox_node_outbound(w)
  PROVE  /\ i.type = w.proto /\ i.name = w.name /\ i.port = w.port
         /\ i.server = IF w.proto = "wireguard" THEN "" ELSE w.server
         /\ \A k \in DOMAIN SingboxFields[w.proto] \cap DOMAIN w.extra \cap (Keys \cup {"peers"}) :
              k \in DOMAIN i.f /\ i.f[k] = w.extra[k]
         /\ \A k \in DOMAIN i.f \cap (Keys \cup {"peers"}) :
              \/ k \in DOMAIN SingboxFields[w.proto] \cap DOMAIN w.extra
              \/ /\ w.proto = "hysteria2" /\ k = "password" /\ "auth" \in DOMAIN w.extra
                 /\ i.f[k] = w.extra["auth"]
         /\ "transport" \in DOMAIN i.f => i.f["transport"] \in DOMAIN SingboxTransports
         /\ "tls" \in DOMAIN i.f => w.proto \notin WithoutTls
         /\ w.tls => "tls" \in DOMAIN i.f /\ i.f["tls"] = "true"
<1> DEFINE r == SingboxFields[w.proto]
           a == Rekey(w.extra, r)
           b == Rekey(w.extra, [username |-> "username"])
           c1 == Rekey(w.extra, [password |-> "auth"])
           c2 == IF Has(w, {"obfs"}) THEN Pick(w.extra, {"obfs_password"}) ELSE Empty
           c == IF w.proto = "hysteria2" THEN c1 ?? c2 ELSE Empty
           d == IF w.proto = "vmess"
                THEN Rekey(w.extra, [security |-> "cipher"])
                     ?? [security |-> "auto", alter_id |-> "0"]
                ELSE Empty
           e == IF w.proto \in {"ss", "ssr", "wireguard"} THEN Empty ELSE build_singbox_tls(w)
           g == IF w.proto \in {"vmess", "vless", "trojan"} THEN build_singbox_transport(w)
                ELSE Empty
           f == ((((a ?? b) ?? c) ?? d) ?? e) ?? g
           server == IF w.proto = "wireguard" THEN "" ELSE w.server
<1>1. i = Item(w, server, f)
  BY DEF build_singbox_node_outbound
<1>2. \A k \in Marks : /\ k \in DOMAIN a <=> k \in DOMAIN r /\ k \in DOMAIN w.extra
                       /\ k \in DOMAIN a => a[k] = w.extra[k]
  BY RekeyIn, SingboxFieldsOf DEF Straight, NodeOK
<1>3. Quiet(Marks, b)
  <2>1. \A k \in DOMAIN b : k \in {"username"}
    BY RekeyNames
  <2> HIDE DEF b
  <2>2. QED
    BY <2>1 DEF Quiet, Marks, Keys
<1>4. \A k \in Marks : /\ k \in DOMAIN c <=> /\ k = "password" /\ w.proto = "hysteria2"
                                             /\ "auth" \in DOMAIN w.extra
                       /\ k \in DOMAIN c => c[k] = w.extra["auth"]
  <2>1. \A k : /\ k \in DOMAIN c1 <=> k = "password" /\ "auth" \in DOMAIN w.extra
               /\ k \in DOMAIN c1 => c1[k] = w.extra["auth"]
    BY RekeyIn
  <2>2. Quiet(Marks, c2)
    BY PickIn, OneIn DEF Quiet, Marks, Keys
  <2> HIDE DEF c1, c2
  <2>3. Agree(Marks, c1 ?? c2, c1)
    BY <2>2, QuietMerge
  <2>4. QED
    BY <2>1, <2>3, OneIn DEF Agree
<1>5. Quiet(Marks, d)
  <2> DEFINE d1 == Rekey(w.extra, [security |-> "cipher"])
             d2 == [security |-> "auto", alter_id |-> "0"]
  <2>1. \A k \in DOMAIN d1 : k \in {"security"}
    BY RekeyNames
  <2>2. \A k \in DOMAIN d2 : k \in {"security", "alter_id"}
    OBVIOUS
  <2> HIDE DEF d1, d2
  <2>3. \A k \in DOMAIN d : k \in {"security", "alter_id"}
    BY <2>1, <2>2, MergeIn, OneIn DEF d1, d2
  <2> HIDE DEF d
  <2>4. QED
    BY <2>3 DEF Quiet, Marks, Keys
<1>6. /\ \A k \in DOMAIN e \cap Marks : k = "tls" /\ w.proto \notin WithoutTls
      /\ w.tls => "tls" \in DOMAIN e /\ e["tls"] = "true"
  BY SingboxTls, OneIn DEF WithoutTls, NodeOK
<1>7. \A k \in DOMAIN g \cap Marks : k = "transport" /\ g[k] \in DOMAIN SingboxTransports
  BY SingboxTransport, OneIn
<1> HIDE DEF a, b, c, d, e, g
<1> DEFINE h == ((a ?? b) ?? c) ?? d
<1>8. Agree(Marks, h, (a ?? b) ?? c) /\ Agree(Marks, a ?? b, a)
  BY <1>3, <1>5, QuietMerge
<1>9. f = (h ?? e) ?? g
  OBVIOUS
<1> HIDE DEF h
<1>10. \A k \in Marks : /\ k \in DOMAIN h <=> k \in DOMAIN a \/ k \in DOMAIN c
                        /\ k \in DOMAIN a => h[k] = a[k]
                        /\ k \in DOMAIN c /\ k \notin DOMAIN a => h[k] = c[k]
  <2> DEFINE h0 == (a ?? b) ?? c
  <2>1. \A k \in Marks : /\ k \in DOMAIN h0 <=> k \in DOMAIN a \/ k \in DOMAIN c
                         /\ k \in DOMAIN a => h0[k] = a[k]
                         /\ k \in DOMAIN c /\ k \notin DOMAIN a => h0[k] = c[k]
    BY <1>8, MergeIn, MergeLeft, MergeRight DEF Agree
  <2>2. Agree(Marks, h, h0)
    BY <1>8
  <2> HIDE DEF h0
  <2>3. QED
    BY <2>1, <2>2 DEF Agree
<1> HIDE DEF f
<1>11. \A k \in Keys \cup {"peers"} : /\ k \in DOMAIN f <=> k \in DOMAIN h
                                      /\ k \in DOMAIN h => f[k] = h[k]
  <2>1. ASSUME NEW k \in Keys \cup {"peers"} PROVE k \notin DOMAIN e /\ k \notin DOMAIN g
    BY <1>6, <1>7 DEF Marks, Keys
  <2>2. QED
    BY <1>9, <2>1, MergeIn, MergeLeft
<1>12. "tls" \notin DOMAIN h /\ "transport" \notin DOMAIN h
  <2>1. \A k \in {"tls", "transport"} : k \in Marks /\ k \notin DOMAIN r /\ k \notin DOMAIN c
    BY SingboxFieldsOf, <1>4 DEF Straight, NodeOK, Marks, Keys
  <2>2. QED
    BY <2>1, <1>2, <1>10
<1>13. /\ "tls" \in DOMAIN f <=> "tls" \in DOMAIN e
       /\ "tls" \in DOMAIN e => f["tls"] = e["tls"]
  <2>1. "tls" \notin DOMAIN g
    BY <1>7 DEF Marks
  <2>2. QED
    BY <2>1, <1>9, <1>12, MergeIn, MergeLeft, MergeRight
<1>14. "transport" \in DOMAIN f => f["transport"] \in DOMAIN SingboxTransports
  <2>1. "transport" \notin DOMAIN e /\ "transport" \in Marks
    BY <1>6 DEF Marks
  <2>2. QED
    BY <2>1, <1>7, <1>9, <1>12, MergeIn, MergeLeft, MergeRight
<1>15. /\ i.type = w.proto /\ i.name = w.name /\ i.port = w.port /\ i.f = f
       /\ i.server = server
  <2> HIDE DEF server
  <2>1. QED
    BY <1>1, ItemFields
<1>16. \A k \in Keys \cup {"peers"} : k \in Marks
  BY DEF Marks
<1>17. \A k \in DOMAIN r \cap DOMAIN w.extra \cap (Keys \cup {"peers"}) :
              k \in DOMAIN f /\ f[k] = w.extra[k]
  BY <1>2, <1>10, <1>11, <1>16
<1>18. \A k \in DOMAIN f \cap (Keys \cup {"peers"}) :
              \/ k \in DOMAIN r \cap DOMAIN w.extra
              \/ /\ w.proto = "hysteria2" /\ k = "password" /\ "auth" \in DOMAIN w.extra
                 /\ f[k] = w.extra["auth"]
  BY <1>2, <1>4, <1>10, <1>11, <1>16
<1>19. "tls" \in DOMAIN f => w.proto \notin WithoutTls
  BY <1>6, <1>13 DEF Marks
<1>20. w.tls => "tls" \in DOMAIN f /\ f["tls"] = "true"
  BY <1>6, <1>13
<1>21. QED
  BY <1>14, <1>15, <1>17, <1>18, <1>19, <1>20

(***************************************************************************)
(* A sing-box outbound that is written is well-formed and is read back as  *)
(* the node.                                                               *)
(***************************************************************************)
LEMMA KeptSingbox ==
  ASSUME NEW w, NodeOK(w), required_string(w)
  PROVE  LET i == build_singbox_node_outbound(w) IN
           /\ ItemOK(i)
           /\ SingboxParses(i) => Kept("singbox", w, parse_singbox_node(i))
<1> DEFINE i == build_singbox_node_outbound(w)
           n == parse_singbox_node(i)
           r == SingboxFields[w.proto]
<1>1.    /\ i.type = w.proto /\ i.name = w.name /\ i.port = w.port
         /\ i.server = IF w.proto = "wireguard" THEN "" ELSE w.server
         /\ \A k \in DOMAIN r \cap DOMAIN w.extra \cap (Keys \cup {"peers"}) :
              k \in DOMAIN i.f /\ i.f[k] = w.extra[k]
         /\ \A k \in DOMAIN i.f \cap (Keys \cup {"peers"}) :
              \/ k \in DOMAIN r \cap DOMAIN w.extra
              \/ /\ w.proto = "hysteria2" /\ k = "password" /\ "auth" \in DOMAIN w.extra
                 /\ i.f[k] = w.extra["auth"]
         /\ "transport" \in DOMAIN i.f => i.f["transport"] \in DOMAIN SingboxTransports
         /\ "tls" \in DOMAIN i.f => w.proto \notin WithoutTls
         /\ w.tls => "tls" \in DOMAIN i.f /\ i.f["tls"] = "true"
  BY SingboxItem
<1> HIDE DEF i
<1>2. SecretsOK(i.type, i.f)
  <2>1. ASSUME NEW k \in DOMAIN i.f \cap Keys
        PROVE  k \in KeysOf(w.proto) /\ i.f[k] \in Secrets
    <3>1. CASE k \in DOMAIN r \cap DOMAIN w.extra
      <4>1. i.f[k] = w.extra[k]
        BY <1>1, <3>1
      <4>2. QED
        BY <3>1, <4>1 DEF NodeOK, SecretsOK
    <3>2. CASE w.proto = "hysteria2" /\ k = "password" /\ "auth" \in DOMAIN w.extra
                 /\ i.f[k] = w.extra["auth"]
      BY <3>2 DEF NodeOK, KeysOf
    <3>3. QED
      BY <1>1, <3>1, <3>2
  <2>2. i.type = w.proto
    BY <1>1
  <2>3. QED
    BY <2>1, <2>2 DEF SecretsOK
<1>3. /\ "peers" \in DOMAIN i.f => /\ w.proto = "wireguard" /\ "peers" \in DOMAIN w.extra
                                   /\ i.f["peers"] = w.extra["peers"]
      /\ PeersOK(i.f, "peers")
  <2>1. "peers" \in DOMAIN i.f => "peers" \in DOMAIN r \cap DOMAIN w.extra
    <3>1. "peers" \in Keys \cup {"peers"} /\ "peers" # "password"
      OBVIOUS
    <3>2. QED
      BY <1>1, <3>1
  <2>2. "peers" \in DOMAIN r => w.proto = "wireguard"
    BY SingboxFieldsOf DEF Straight, Marks, Keys, NodeOK
  <2>3. "peers" \in DOMAIN i.f => i.f["peers"] = w.extra["peers"]
    BY <1>1, <2>1
  <2>4. QED
    BY <2>1, <2>2, <2>3 DEF PeersOK, NodeOK
<1>4. ItemOK(i)
  BY <1>1, <1>2, <1>3 DEF ItemOK, NodeOK
<1>5. ASSUME SingboxParses(i) PROVE Kept("singbox", w, n)
  <2>1. /\ n.proto = i.type /\ n.tls = parse_singbox_tls(i)
        /\ n.server = resolve_endpoint(i)[1] /\ n.port = resolve_endpoint(i)[2]
        /\ \A k \in KeysOf(i.type) \cap DOMAIN i.f : k \in DOMAIN n.extra /\ n.extra[k] = i.f[k]
    BY <1>4, <1>5, SingboxNode
  <2> HIDE DEF n
  <2>2. w.tls => n.tls
    BY <1>1, <2>1 DEF parse_singbox_tls
  <2>3. ASSUME NEW k \in KeysOf(w.proto) \cap DOMAIN w.extra, w.proto \notin {"socks5", "http"}
        PROVE  k \in Keys /\ k \in DOMAIN n.extra /\ n.extra[k] = w.extra[k]
    <3>1. k \in Keys /\ k \in DOMAIN r
      BY <2>3, SingboxFieldsOf DEF KeysOf, Keys, NodeOK
    <3>2. k \in DOMAIN i.f /\ i.f[k] = w.extra[k]
      BY <3>1, <2>3, <1>1
    <3>3. QED
      BY <3>1, <3>2, <2>1, <2>3, <1>1
  <2>4. CASE w.proto # "wireguard"
    <3>1. "peers" \notin DOMAIN i.f /\ i.server = w.server
      BY <1>1, <1>3, <2>4
    <3>2. resolve_endpoint(i) = <<i.server, i.port>>
      BY <3>1, <1>5 DEF resolve_endpoint, SingboxParses
    <3>3. n.server = w.server /\ n.port = w.port
      <4>1. resolve_endpoint(i)[1] = i.server /\ resolve_endpoint(i)[2] = i.port
        BY <3>2
      <4>2. i.port = w.port
        BY <1>1
      <4>3. QED
        BY <2>1, <3>1, <4>1, <4>2
    <3>4. QED
      BY <1>1, <2>1, <2>2, <2>3, <3>3, KeptItem
  <2>5. CASE w.proto = "wireguard"
    <3>1. i.server = ""
      BY <1>1, <2>5
    <3>2. "peers" \in DOMAIN i.f
      BY <3>1, <1>5 DEF SingboxParses
    <3>3. resolve_endpoint(i) = <<parse_host_port(i.f["peers"][1]), i.f["peers"][2]>>
      BY <3>1 DEF resolve_endpoint
    <3>4. "peers" \in DOMAIN w.extra /\ i.f["peers"] = w.extra["peers"]
      BY <1>3, <3>2
    <3>5. Unbracketed(n.server) = Unbracketed(w.extra["peers"][1]) /\ n.port = w.extra["peers"][2]
      BY <2>1, <3>3, <3>4, Hosts
    <3>6. SameNode(w, n)
      <4>1. <<Unbracketed(n.server), n.port>> \in Endpoints(n)
        BY DEF Endpoints
      <4>2. <<Unbracketed(w.extra["peers"][1]), w.extra["peers"][2]>> \in Endpoints(w)
        BY <2>5, <3>4 DEF Endpoints
      <4>3. QED
        BY <1>1, <2>1, <3>5, <4>1, <4>2 DEF SameNode
    <3>7. \A k \in DOMAIN Secret(w) : k \in KeysOf(w.proto) \cap DOMAIN w.extra
      BY PickIn DEF Secret, NodeOK, SecretsOK
    <3>8. Credible("singbox", w, n)
      BY <2>3, <2>5, <3>7 DEF Credible
    <3>9. QED
      BY <2>2, <3>6, <3>8 DEF Kept
  <2>6. QED
    BY <2>4, <2>5
<1>6. QED
  BY <1>4, <1>5 DEF i, n

-----------------------------------------------------------------------------
(***************************************************************************)
(* An item that is well-formed in its format.                              *)
(***************************************************************************)
ItemsOK(fmt, i) == IF fmt = "uri" THEN UriOK(i) ELSE ItemOK(i)

(***************************************************************************)
(* Every parser makes a well-formed node of a well-formed item it accepts. *)
(***************************************************************************)
LEMMA ParsedOK ==
  ASSUME NEW fmt \in PayloadFormats, NEW i, ItemsOK(fmt, i), ItemParses(fmt, i)
  PROVE  NodeOK(ItemNode(fmt, i))
<1>1. CASE fmt = "uri"
  BY <1>1, UriNodeOK DEF ItemsOK, ItemParses, ItemNode
<1>2. CASE fmt = "clash"
  BY <1>2, ClashNode DEF ItemsOK, ItemNode
<1>3. CASE fmt = "singbox"
  BY <1>3, SingboxNode DEF ItemsOK, ItemParses, ItemNode
<1>4. CASE fmt = "ini"
  BY <1>4, IniNode DEF ItemsOK, ItemNode
<1>5. CASE fmt = "oldclash"
  BY <1>5, OldClashNode DEF ItemsOK, ItemParses, ItemNode
<1>6. QED
  BY <1>1, <1>2, <1>3, <1>4, <1>5 DEF PayloadFormats

(***************************************************************************)
(* The heart of the relay, for every node and format: what the builder     *)
(* writes is well-formed, the parser skips it exactly where a format       *)
(* cannot carry the node, and what it reads is the node that was written.  *)
(***************************************************************************)
LEMMA RoundTrip ==
  ASSUME NEW f \in Formats, NEW w, NodeOK(w), Builds(f, w)
  PROVE  /\ ItemsOK(f, Built(f, w))
         /\ f # "singbox" => (ItemParses(f, Built(f, w)) <=> ~Skipped(f, w))
         /\ f = "singbox" => ~Skipped(f, w)
         /\ ItemParses(f, Built(f, w)) => Kept(f, w, ItemNode(f, Built(f, w)))
<1>1. CASE f = "uri"
  <2>1. Written(w, build_share_uri(w))
    BY <1>1, WriteUri DEF Builds
  <2>2. QED
    BY <1>1, <2>1, KeptUri DEF ItemsOK, Built, ItemParses, ItemNode
<1>2. CASE f = "clash"
  BY <1>2, KeptClash DEF Builds, ItemsOK, Built, ItemParses, ItemNode, Skipped
<1>3. CASE f = "singbox"
  BY <1>3, KeptSingbox DEF Builds, ItemsOK, Built, ItemParses, ItemNode, Skipped
<1>4. CASE f = "ini"
  BY <1>4, KeptIni DEF Builds, ItemsOK, Built, ItemParses, ItemNode
<1>5. QED
  BY <1>1, <1>2, <1>3, <1>4 DEF Formats

(***************************************************************************)
(* parse_nodes reads each item that parses.                                *)
(***************************************************************************)
LEMMA ReadItems ==
  ASSUME NEW p, PayloadOK(p)
  PROVE  LET good == Picked(p.items, {k \in DOMAIN p.items : ItemParses(p.fmt, p.items[k])}) IN
           parse_nodes(p) = [k \in DOMAIN good |-> ItemNode(p.fmt, good[k])]
<1> DEFINE S == {k \in DOMAIN p.items : ItemParses(p.fmt, p.items[k])}
           good == Picked(p.items, S)
           node == [i \in ToSet(p.items) |-> ItemNode(p.fmt, i)]
<1>1. parse_nodes(p) = [k \in DOMAIN good |-> node[good[k]]]
  BY DEF parse_nodes
<1>2. \A k \in DOMAIN good : good[k] \in ToSet(p.items)
  <2> HIDE DEF S
  <2>1. \A k \in DOMAIN good : \E i \in S \cap DOMAIN p.items : good[k] = p.items[i]
    BY PickedIn DEF PayloadOK
  <2> HIDE DEF good
  <2>2. QED
    BY <2>1 DEF ToSet
<1> HIDE DEF S
<1>3. \A k \in DOMAIN good : node[good[k]] = ItemNode(p.fmt, good[k])
  BY <1>2
<1> HIDE DEF good, node
<1>4. QED
  BY <1>1, <1>3 DEF good, S

(***************************************************************************)
(* A payload gives well-formed nodes.                                      *)
(***************************************************************************)
LEMMA ParsedNodes ==
  ASSUME NEW p, PayloadOK(p)
  PROVE  NodesOK(parse_nodes(p))
<1> DEFINE S == {k \in DOMAIN p.items : ItemParses(p.fmt, p.items[k])}
           good == Picked(p.items, S)
           ns == parse_nodes(p)
<1>1. IsSeq(good) /\ \A k \in DOMAIN good : \E i \in S \cap DOMAIN p.items : good[k] = p.items[i]
  <2> HIDE DEF S
  <2>1. QED
    BY PickedIn DEF PayloadOK
<1>2. ns = [k \in DOMAIN good |-> ItemNode(p.fmt, good[k])]
  BY ReadItems
<1>3. \A i \in S : ItemParses(p.fmt, p.items[i]) /\ ItemsOK(p.fmt, p.items[i])
  BY DEF PayloadOK, ItemsOK
<1> HIDE DEF good, ns, S
<1>4. \A k \in DOMAIN good : NodeOK(ns[k])
  BY <1>1, <1>2, <1>3, ParsedOK DEF PayloadOK
<1>5. Len(good) \in Nat /\ DOMAIN good = 1..Len(good)
  BY <1>1, IsSeqIn
<1>6. ns = [k \in 1..Len(good) |-> ns[k]]
  BY <1>2, <1>5
<1>7. IsSeq(ns) /\ DOMAIN ns = 1..Len(good)
  BY <1>5, <1>6, SeqOver
<1>8. QED
  BY <1>4, <1>5, <1>7 DEF NodesOK, ns

-----------------------------------------------------------------------------
(***************************************************************************)
(* Nodes under other names; nodes with their source, and sources of nodes. *)
(***************************************************************************)
Renamings(N) == N \cup {[n EXCEPT !.name = t] : n \in N, t \in Texts}
OwnedSet(N) == [node : N, at : Nat, id : Words]
SourceSet(N) == [id : Words, at : Nat, nodes : Seq(N)]

(***************************************************************************)
(* Renamed again they are still renamed nodes.                             *)
(***************************************************************************)
LEMMA Renaming ==
  ASSUME NEW N, NEW n \in Renamings(N), NEW t \in Texts
  PROVE  [n EXCEPT !.name = t] \in Renamings(N)
<1>1. CASE n \in N
  BY <1>1 DEF Renamings
<1>2. CASE n \notin N
  <2>1. PICK m \in N, r \in Texts : n = [m EXCEPT !.name = r]
    BY <1>2 DEF Renamings
  <2>2. [n EXCEPT !.name = t] = [m EXCEPT !.name = t]
    BY <2>1
  <2>3. QED
    BY <2>1, <2>2 DEF Renamings
<1>3. QED
  BY <1>1, <1>2

(***************************************************************************)
(* A new name leaves a node well-formed.                                   *)
(***************************************************************************)
LEMMA RenamedOK ==
  ASSUME NEW N, \A n \in N : NodeOK(n), NEW n \in Renamings(N)
  PROVE  NodeOK(n)
<1>1. ASSUME NEW m \in N, NEW t \in Texts, n = [m EXCEPT !.name = t] PROVE NodeOK(n)
  <2>1. NodeOK(m)
    OBVIOUS
  <2>2. /\ DOMAIN n = DOMAIN m /\ n.proto = m.proto /\ n.transport = m.transport
        /\ n.port = m.port /\ n.tls = m.tls /\ n.extra = m.extra /\ n.name = t
    BY <1>1, <2>1 DEF NodeOK, NodeFields
  <2>3. QED
    BY <2>1, <2>2 DEF NodeOK
<1>2. QED
  BY <1>1 DEF Renamings

(***************************************************************************)
(* The nodes of a source with their source.                                *)
(***************************************************************************)
LEMMA OwnedIn ==
  ASSUME NEW N, NEW s \in SourceSet(N)
  PROVE  Owned(s) \in Seq(OwnedSet(N))
<1>1. s.nodes \in Seq(N) /\ s.at \in Nat /\ s.id \in Words
  BY DEF SourceSet
<1>2. Len(s.nodes) \in Nat /\ DOMAIN s.nodes = 1..Len(s.nodes)
      /\ \A i \in 1..Len(s.nodes) : s.nodes[i] \in N
  BY <1>1
<1>3. Owned(s) = [i \in 1..Len(s.nodes) |-> [node |-> s.nodes[i], at |-> s.at, id |-> s.id]]
  BY <1>2 DEF Owned
<1>4. \A i \in 1..Len(s.nodes) :
        [node |-> s.nodes[i], at |-> s.at, id |-> s.id] \in OwnedSet(N)
  BY <1>1, <1>2 DEF OwnedSet
<1> DEFINE O == OwnedSet(N)
<1> HIDE DEF O
<1>5. Owned(s) \in [1..Len(s.nodes) -> O]
  BY <1>3, <1>4 DEF O
<1>6. Owned(s) \in Seq(O)
  BY <1>2, <1>5
<1>7. QED
  BY <1>6 DEF O

(***************************************************************************)
(* The nodes of all sources.                                               *)
(***************************************************************************)
LEMMA AllOwnedIn ==
  ASSUME NEW N, NEW ss \in Seq(SourceSet(N))
  PROVE  AllOwned(ss) \in Seq(OwnedSet(N))
<1> DEFINE n == Len(ss)
           T == Seq(OwnedSet(N))
           h == [i \in 1..n |-> [t \in T |-> t \o Owned(ss[i])]]
           E(g) == g = [s \in SUBSET DOMAIN ss |->
                     IF s = {} THEN <<>>
                     ELSE LET x == Max(s) IN g[s \ {x}] \o Owned(ss[x])]
           j == CHOOSE g : E(g)
<1>1. n \in Nat /\ DOMAIN ss = 1..n /\ \A i \in 1..n : Owned(ss[i]) \in T
  BY OwnedIn
<1>2. <<>> \in T /\ h \in [1..n -> [T -> T]]
  <2>1. \A t \in T, i \in 1..n : t \o Owned(ss[i]) \in T
    BY <1>1
  <2> HIDE DEF n
  <2>2. <<>> \in T
    OBVIOUS
  <2> HIDE DEF T
  <2>3. QED
    BY <2>1, <2>2
<1> HIDE DEF T, n
<1>3. PICK it \in [SUBSET (1..n) -> T] : FoldOn(it, n, <<>>, h)
  <2> HIDE DEF h
  <2>1. QED
    BY <1>1, <1>2, FoldExists
<1>4. \A s \in SUBSET (1..n) : s # {} => Max(s) \in 1..n /\ s \ {Max(s)} \in SUBSET (1..n)
  BY <1>1, MaxOf
<1>5. E(it)
  <2>1. \A s \in SUBSET (1..n) : s # {} =>
          it[s] = it[s \ {Max(s)}] \o Owned(ss[Max(s)])
    BY <1>3, <1>4 DEF FoldOn
  <2>2. QED
    BY <2>1, <1>1, <1>3, <1>4 DEF FoldOn
<1>6. E(j)
  <2> HIDE DEF E
  <2>1. QED
    BY <1>5, Zenon
<1>7. AllOwned(ss) = j[1..n]
  <2>1. AllOwned(ss) = j[DOMAIN ss]
    BY DEF AllOwned, FoldLeft, MapThenFoldSet
  <2>2. QED
    BY <2>1, <1>1
<1>8. FoldsIn(j, T, n, <<>>, h)
  <2> HIDE DEF j
  <2>1. \A s \in SUBSET (1..n) : s # {} =>
          j[s] = j[s \ {Max(s)}] \o Owned(ss[Max(s)])
    BY <1>1, <1>6, <1>4
  <2>2. QED
    BY <2>1, <1>1, <1>6, <1>4 DEF FoldsIn
<1> HIDE DEF h, j
<1>9. j[1..n] \in T
  BY <1>1, <1>2, <1>8, FoldIn
<1>10. QED
  BY <1>1, <1>7, <1>9 DEF T

(***************************************************************************)
(* One step of dedupe_nodes.                                               *)
(***************************************************************************)
Joined(acc, c) ==
  LET same == {i \in DOMAIN acc : build_dedupe_key(acc[i].node) = build_dedupe_key(c.node)} IN
    IF same = {} THEN Append(acc, c)
    ELSE [i \in DOMAIN acc |-> IF i \in same /\ c.at >= acc[i].at THEN c ELSE acc[i]]

(***************************************************************************)
(* It adds a node or puts it in place of equal ones.                       *)
(***************************************************************************)
LEMMA JoinedIn ==
  ASSUME NEW O, NEW acc \in Seq(O), NEW c \in O
  PROVE  Joined(acc, c) \in Seq(O)
<1> DEFINE same == {i \in DOMAIN acc : build_dedupe_key(acc[i].node) = build_dedupe_key(c.node)}
           new == [i \in DOMAIN acc |-> IF i \in same /\ c.at >= acc[i].at THEN c ELSE acc[i]]
<1>1. Joined(acc, c) = IF same = {} THEN Append(acc, c) ELSE new
  BY DEF Joined
<1>2. Append(acc, c) \in Seq(O)
  OBVIOUS
<1>3. new \in Seq(O)
  <2> HIDE DEF same
  <2>1. DOMAIN acc = 1..Len(acc) /\ Len(acc) \in Nat /\ \A i \in 1..Len(acc) : acc[i] \in O
    OBVIOUS
  <2>2. new \in [1..Len(acc) -> O]
    BY <2>1
  <2> HIDE DEF new
  <2>3. QED
    BY <2>1, <2>2
<1> HIDE DEF same, new
<1>4. QED
  BY <1>1, <1>2, <1>3

(***************************************************************************)
(* dedupe_nodes keeps nodes of the sources, unchanged.                     *)
(***************************************************************************)
LEMMA DedupedIn ==
  ASSUME NEW N, NEW ss \in Seq(SourceSet(N))
  PROVE  dedupe_nodes(ss) \in Seq(OwnedSet(N))
<1> DEFINE O == OwnedSet(N)
           T == Seq(O)
           os == AllOwned(ss)
           n == Len(os)
           h == [i \in 1..n |-> [t \in T |-> Joined(t, os[i])]]
           E(g) == g = [s \in SUBSET DOMAIN os |->
                     IF s = {} THEN <<>>
                     ELSE LET x == Max(s) IN Joined(g[s \ {x}], os[x])]
           j == CHOOSE g : E(g)
<1>1. os \in Seq(O)
  BY AllOwnedIn
<1>2. dedupe_nodes(ss) = j[DOMAIN os]
  BY DEF dedupe_nodes, FoldLeft, MapThenFoldSet, Joined
<1> HIDE DEF os, O
<1>3. n \in Nat /\ DOMAIN os = 1..n /\ \A i \in 1..n : os[i] \in O
  BY <1>1
<1>4. <<>> \in T /\ h \in [1..n -> [T -> T]]
  <2>1. \A t \in T, i \in 1..n : Joined(t, os[i]) \in T
    BY <1>3, JoinedIn
  <2> HIDE DEF n
  <2>2. <<>> \in T
    OBVIOUS
  <2> HIDE DEF T
  <2>3. QED
    BY <2>1, <2>2
<1> HIDE DEF T, n
<1>5. PICK it \in [SUBSET (1..n) -> T] : FoldOn(it, n, <<>>, h)
  <2> HIDE DEF h
  <2>1. QED
    BY <1>3, <1>4, FoldExists
<1>6. \A s \in SUBSET (1..n) : s # {} => Max(s) \in 1..n /\ s \ {Max(s)} \in SUBSET (1..n)
  BY <1>3, MaxOf
<1>7. E(it)
  <2>1. \A s \in SUBSET (1..n) : s # {} =>
          it[s] = Joined(it[s \ {Max(s)}], os[Max(s)])
    BY <1>5, <1>6 DEF FoldOn
  <2>2. QED
    BY <2>1, <1>3, <1>5, <1>6 DEF FoldOn
<1>8. E(j)
  <2> HIDE DEF E
  <2>1. QED
    BY <1>7, Zenon
<1>9. FoldsIn(j, T, n, <<>>, h)
  <2> HIDE DEF j
  <2>1. \A s \in SUBSET (1..n) : s # {} =>
          j[s] = Joined(j[s \ {Max(s)}], os[Max(s)])
    BY <1>3, <1>8, <1>6
  <2>2. QED
    BY <2>1, <1>3, <1>8, <1>6 DEF FoldsIn
<1> HIDE DEF h, j
<1>10. j[1..n] \in T
  BY <1>3, <1>4, <1>9, FoldIn
<1>11. QED
  BY <1>2, <1>3, <1>10 DEF T, O

(***************************************************************************)
(* The places of two sequences in their concatenation.                     *)
(***************************************************************************)
LEMMA Concatenation ==
  ASSUME NEW S, NEW a \in Seq(S), NEW b \in Seq(S)
  PROVE  /\ a \o b \in Seq(S) /\ Len(a \o b) = Len(a) + Len(b)
         /\ Len(a) \in Nat /\ Len(b) \in Nat
         /\ Len(b) # 0 => (a \o b)[Len(a \o b)] = b[Len(b)]
         /\ a # <<>> => a \o b # <<>>
  OBVIOUS

(***************************************************************************)
(* A label ends a name in a bracket, so never in a tally.                  *)
(***************************************************************************)
LEMMA LabelledText ==
  ASSUME NEW t \in Texts, NEW id \in Words
  PROVE  Labelled(t, id) \in Texts /\ Last(Labelled(t, id)[1]) # "I"
<1>1. t[1] \in Seq(Words) /\ t[1] # <<>> /\ t[2] \in Nat
  BY TextShape
<1> DEFINE l == <<"(", id, ")">>
           s == t[1] \o l
<1>2. l \in Seq(Words) /\ Len(l) = 3 /\ l[3] = ")"
  <2>1. "(" \in Words /\ ")" \in Words
    BY DEF Words
  <2>2. QED
    BY <2>1
<1> HIDE DEF l
<1>3. s \in Seq(Words) /\ s[Len(s)] = ")" /\ s # <<>>
  <2>1. s \in Seq(Words) /\ s # <<>>
    BY <1>1, <1>2, Concatenation
  <2>2. s[Len(s)] = l[Len(l)]
    <3> DEFINE a == t[1]
    <3>1. a \in Seq(Words) /\ Len(l) # 0
      BY <1>1, <1>2
    <3> HIDE DEF a
    <3>2. (a \o l)[Len(a \o l)] = l[Len(l)]
      BY <1>2, <3>1, Concatenation, Zenon
    <3>3. QED
      BY <3>2 DEF a
  <2>3. QED
    BY <1>2, <2>1, <2>2
<1>4. Labelled(t, id) = <<s, t[2]>>
  BY DEF Labelled, l
<1> HIDE DEF s
<1>5. <<s, t[2]>> \in Texts
  BY <1>1, <1>3 DEF Texts
<1>6. QED
  BY <1>3, <1>4, <1>5 DEF Last

(***************************************************************************)
(* A number above 1 ends a name in a tally.                                *)
(***************************************************************************)
LEMMA NumberedText ==
  ASSUME NEW t \in Texts, NEW k \in Nat
  PROVE  /\ Numbered(t, k) \in Texts
         /\ Len(Numbered(t, k)[1]) = Len(t[1]) + k /\ Len(t[1]) \in Nat
         /\ k >= 2 => Last(Numbered(t, k)[1]) = "I"
<1>1. t[1] \in Seq(Words) /\ t[1] # <<>> /\ t[2] \in Nat
  BY TextShape
<1> DEFINE l == [i \in 1..k |-> IF i = 1 THEN "#" ELSE "I"]
           s == t[1] \o l
<1>2. l \in Seq(Words) /\ Len(l) = k /\ (k >= 2 => l[k] = "I")
  <2>1. "#" \in Words /\ "I" \in Words
    BY DEF Words
  <2>2. l \in [1..k -> Words]
    BY <2>1
  <2>3. k >= 2 => l[k] = "I"
    OBVIOUS
  <2> HIDE DEF l
  <2>4. QED
    BY <2>2, <2>3
<1>3. Numbered(t, k) = <<s, t[2]>>
  BY DEF Numbered
<1> HIDE DEF l
<1>4. s \in Seq(Words) /\ Len(s) = Len(t[1]) + k /\ Len(t[1]) \in Nat /\ s # <<>>
      /\ (k >= 2 => s[Len(s)] = "I")
  BY <1>1, <1>2
<1> HIDE DEF s
<1>5. <<s, t[2]>> \in Texts
  BY <1>1, <1>4 DEF Texts
<1>6. QED
  BY <1>3, <1>4, <1>5 DEF Last

(***************************************************************************)
(* The words of a number.                                                  *)
(***************************************************************************)
LEMMA Tally ==
  ASSUME NEW k \in Nat
  PROVE  LET l == [i \in 1..k |-> IF i = 1 THEN "#" ELSE "I"] IN
           /\ l \in Seq(Words) /\ Len(l) = k
           /\ k >= 1 => l[1] = "#"
           /\ \A i \in 2..k : l[i] = "I"
<1> DEFINE l == [i \in 1..k |-> IF i = 1 THEN "#" ELSE "I"]
<1>1. "#" \in Words /\ "I" \in Words
  BY DEF Words
<1>2. l \in [1..k -> Words]
  BY <1>1
<1>3. /\ k >= 1 => l[1] = "#"
      /\ \A i \in 2..k : l[i] = "I"
  OBVIOUS
<1> HIDE DEF l
<1>4. l \in Seq(Words) /\ Len(l) = k
  BY <1>2
<1>5. QED
  BY <1>3, <1>4 DEF l

(***************************************************************************)
(* The words of a numbered name.                                           *)
(***************************************************************************)
LEMMA NumberedParts ==
  ASSUME NEW t \in Texts, NEW k \in Nat, k >= 1
  PROVE  LET p == Numbered(t, k)[1] IN
           /\ p \in Seq(Words) /\ Len(p) = Len(t[1]) + k
           /\ t[1] \in Seq(Words) /\ Len(t[1]) \in Nat
           /\ p[Len(t[1]) + 1] = "#"
           /\ \A i \in (Len(t[1]) + 2)..Len(p) : p[i] = "I"
           /\ \A i \in 1..Len(t[1]) : p[i] = t[1][i]
           /\ Numbered(t, k)[2] = t[2]
<1> DEFINE l == [i \in 1..k |-> IF i = 1 THEN "#" ELSE "I"]
           a == t[1]
           s == a \o l
<1>1. l \in Seq(Words) /\ Len(l) = k /\ l[1] = "#" /\ \A i \in 2..k : l[i] = "I"
  BY Tally
<1>2. a \in Seq(Words)
  BY TextShape
<1>3. Numbered(t, k) = <<s, t[2]>>
  BY DEF Numbered
<1> HIDE DEF l, a
<1>4. /\ s \in Seq(Words) /\ Len(s) = Len(a) + k /\ Len(a) \in Nat
      /\ \A i \in 1..Len(a) : s[i] = a[i]
      /\ \A i \in 1..k : s[Len(a) + i] = l[i]
  BY <1>1, <1>2
<1> HIDE DEF s
<1>5. s[Len(a) + 1] = "#"
  BY <1>1, <1>4
<1>6. ASSUME NEW i \in (Len(a) + 2)..Len(s) PROVE s[i] = "I"
  <2>1. i - Len(a) \in 2..k /\ i = Len(a) + (i - Len(a))
    BY <1>4
  <2>2. QED
    BY <2>1, <1>1, <1>4
<1>7. QED
  BY <1>2, <1>3, <1>4, <1>5, <1>6 DEF a

(***************************************************************************)
(* Names and numbers can be told from the numbered name.                   *)
(***************************************************************************)
LEMMA NumberedOnce ==
  ASSUME NEW t \in Texts, NEW r \in Texts, NEW j \in Nat, NEW k \in Nat, j >= 1, k >= 1,
         Numbered(t, j) = Numbered(r, k)
  PROVE  t = r /\ j = k
<1> DEFINE p == Numbered(t, j)[1]
           q == Numbered(r, k)[1]
<1>1. /\ p \in Seq(Words) /\ Len(p) = Len(t[1]) + j
      /\ t[1] \in Seq(Words) /\ Len(t[1]) \in Nat
      /\ p[Len(t[1]) + 1] = "#"
      /\ \A i \in (Len(t[1]) + 2)..Len(p) : p[i] = "I"
      /\ \A i \in 1..Len(t[1]) : p[i] = t[1][i]
      /\ Numbered(t, j)[2] = t[2]
  BY NumberedParts
<1>2. /\ q \in Seq(Words) /\ Len(q) = Len(r[1]) + k
      /\ r[1] \in Seq(Words) /\ Len(r[1]) \in Nat
      /\ q[Len(r[1]) + 1] = "#"
      /\ \A i \in (Len(r[1]) + 2)..Len(q) : q[i] = "I"
      /\ \A i \in 1..Len(r[1]) : q[i] = r[1][i]
      /\ Numbered(r, k)[2] = r[2]
  BY NumberedParts
<1>3. p = q /\ t[2] = r[2]
  BY <1>1, <1>2
<1> HIDE DEF p, q
<1>4. Len(t[1]) = Len(r[1])
  <2>1. CASE Len(t[1]) < Len(r[1])
    <3>1. Len(r[1]) + 1 \in (Len(t[1]) + 2)..Len(p)
      BY <1>1, <1>2, <1>3, <2>1
    <3>2. p[Len(r[1]) + 1] = "I" /\ p[Len(r[1]) + 1] = "#"
      BY <1>1, <1>2, <1>3, <3>1
    <3>3. QED
      BY <3>2
  <2>2. CASE Len(r[1]) < Len(t[1])
    <3>1. Len(t[1]) + 1 \in (Len(r[1]) + 2)..Len(q)
      BY <1>1, <1>2, <1>3, <2>2
    <3>2. p[Len(t[1]) + 1] = "I" /\ p[Len(t[1]) + 1] = "#"
      BY <1>1, <1>2, <1>3, <3>1
    <3>3. QED
      BY <3>2
  <2>3. QED
    BY <1>1, <1>2, <2>1, <2>2
<1>5. t[1] = r[1]
  <2>1. \A i \in 1..Len(t[1]) : t[1][i] = r[1][i]
    BY <1>1, <1>2, <1>3, <1>4
  <2>2. QED
    BY <2>1, <1>1, <1>2, <1>4, SameSeq
<1>6. j = k
  BY <1>1, <1>2, <1>3, <1>4
<1>7. QED
  BY <1>3, <1>5, <1>6, TextShape, Zenon

(***************************************************************************)
(* A node of a source under another name.                                  *)
(***************************************************************************)
LEMMA Relabelled ==
  ASSUME NEW N, \A n \in N : NodeOK(n), NEW o \in OwnedSet(Renamings(N))
  PROVE  /\ o.node.name \in Texts /\ o.id \in Words
         /\ \A t \in Texts : /\ [o EXCEPT !.node.name = t] \in OwnedSet(Renamings(N))
                             /\ [o EXCEPT !.node.name = t].node.name = t
<1> DEFINE O == OwnedSet(Renamings(N))
<1>1. o.node \in Renamings(N) /\ o.at \in Nat /\ o.id \in Words
      /\ o = [node |-> o.node, at |-> o.at, id |-> o.id]
  BY DEF OwnedSet
<1>2. NodeOK(o.node)
  BY <1>1, RenamedOK
<1>3. "name" \in DOMAIN o.node
  BY <1>2 DEF NodeOK, NodeFields
<1>4. ASSUME NEW t \in Texts
      PROVE  /\ [o EXCEPT !.node.name = t] \in O
             /\ [o EXCEPT !.node.name = t].node.name = t
  <2> DEFINE m == [o.node EXCEPT !.name = t]
  <2>1. m \in Renamings(N) /\ m.name = t
    BY <1>1, <1>3, Renaming
  <2>2. [o EXCEPT !.node.name = t] = [node |-> m, at |-> o.at, id |-> o.id]
    BY <1>1
  <2> HIDE DEF m
  <2>3. QED
    BY <1>1, <2>1, <2>2 DEF OwnedSet
<1>5. QED
  BY <1>1, <1>2, <1>4 DEF NodeOK

(***************************************************************************)
(* resolve_name_conflicts leaves names distinct, except where a number it  *)
(* gave makes a name that a node had before: it does not look for one that *)
(* is free (region.rs).                                                    *)
(***************************************************************************)
LEMMA Resolved ==
  ASSUME NEW N, \A n \in N : NodeOK(n), NEW os \in Seq(OwnedSet(Renamings(N)))
  PROVE  LET res == resolve_name_conflicts(os) IN
           /\ res \in Seq(OwnedSet(Renamings(N)))
           /\ \A i, j \in DOMAIN res :
                i < j /\ res[i].node.name = res[j].node.name =>
                  /\ Last(res[i].node.name[1]) = "I"
                  /\ \E k \in DOMAIN os : res[i].node.name = os[k].node.name
<1> DEFINE O == OwnedSet(Renamings(N))
           D == 1..Len(os)
           labelled == [i \in DOMAIN os |->
             IF \E j \in DOMAIN os \ {i} : os[j].node.name = os[i].node.name
             THEN [os[i] EXCEPT !.node.name = Labelled(@, os[i].id)] ELSE os[i]]
           S(i) == {j \in 1..i : labelled[j].node.name = labelled[i].node.name}
           rank(i) == Cardinality(S(i))
           res == resolve_name_conflicts(os)
<1>1. res = [i \in DOMAIN os |->
       IF rank(i) = 1 THEN labelled[i]
       ELSE [labelled[i] EXCEPT !.node.name = Numbered(@, rank(i))]]
  BY DEF resolve_name_conflicts
<1>2. DOMAIN os = D /\ Len(os) \in Nat
  OBVIOUS
<1>3. ASSUME NEW o \in O
      PROVE  /\ o.node.name \in Texts /\ o.id \in Words
             /\ \A t \in Texts : /\ [o EXCEPT !.node.name = t] \in O
                                 /\ [o EXCEPT !.node.name = t].node.name = t
  BY Relabelled
<1>4. \A i \in D : os[i] \in O
  OBVIOUS
<1>5. ASSUME NEW i \in D
      PROVE  /\ labelled[i] \in O
             /\ labelled[i].node.name = os[i].node.name
                  \/ Last(labelled[i].node.name[1]) # "I"
  <2>1. CASE \E j \in DOMAIN os \ {i} : os[j].node.name = os[i].node.name
    <3> DEFINE t == Labelled(os[i].node.name, os[i].id)
    <3>1. labelled[i] = [os[i] EXCEPT !.node.name = t]
      BY <1>2, <2>1
    <3>2. t \in Texts /\ Last(t[1]) # "I"
      BY <1>3, <1>4, LabelledText
    <3>3. os[i] \in O
      BY <1>4
    <3> HIDE DEF t, O
    <3>4. /\ [os[i] EXCEPT !.node.name = t] \in O
          /\ [os[i] EXCEPT !.node.name = t].node.name = t
      BY <1>3, <3>2, <3>3
    <3> HIDE DEF labelled
    <3>5. QED
      BY <3>1, <3>2, <3>4
  <2>2. CASE ~ \E j \in DOMAIN os \ {i} : os[j].node.name = os[i].node.name
    BY <1>2, <1>4, <2>2
  <2>3. QED
    BY <2>1, <2>2
<1> HIDE DEF labelled, O
<1>6. ASSUME NEW i \in D
      PROVE  rank(i) \in Nat /\ rank(i) >= 1 /\ IsFiniteSet(S(i)) /\ i \in S(i)
  <2>1. IsFiniteSet(1..i)
    BY FS_Interval
  <2>2. IsFiniteSet(S(i)) /\ S(i) # {} /\ i \in S(i)
    BY <2>1, FS_Subset
  <2> HIDE DEF S
  <2>3. QED
    BY <2>2, FS_CardinalityType, FS_EmptySet
<1> DEFINE name(i) == labelled[i].node.name
<1>7. ASSUME NEW i \in D
      PROVE  /\ name(i) \in Texts
             /\ res[i] \in O
             /\ rank(i) = 1 => res[i].node.name = name(i)
             /\ rank(i) # 1 => res[i].node.name = Numbered(name(i), rank(i))
  <2>1. labelled[i] \in O /\ name(i) \in Texts
    BY <1>3, <1>5
  <2>2. Numbered(name(i), rank(i)) \in Texts
    BY <2>1, <1>6, NumberedText
  <2>3. res[i] = IF rank(i) = 1 THEN labelled[i]
                 ELSE [labelled[i] EXCEPT !.node.name = Numbered(name(i), rank(i))]
    BY <1>1, <1>2
  <2> HIDE DEF rank, res
  <2>4. CASE rank(i) = 1
    BY <2>1, <2>3, <2>4
  <2>5. CASE rank(i) # 1
    <3>1. res[i] = [labelled[i] EXCEPT !.node.name = Numbered(name(i), rank(i))]
      BY <2>3, <2>5
    <3>2. res[i] \in O /\ res[i].node.name = Numbered(name(i), rank(i))
      BY <2>1, <2>2, <3>1, <1>3
    <3>3. QED
      BY <2>1, <2>5, <3>2
  <2>6. QED
    BY <2>4, <2>5
<1>8. res \in Seq(O)
  <2>1. DOMAIN res = D /\ res = [i \in D |-> res[i]]
    BY <1>1, <1>2
  <2> HIDE DEF res
  <2>2. res \in [D -> O]
    BY <2>1, <1>7
  <2>3. QED
    BY <1>2, <2>2
<1>9. ASSUME NEW i \in D, NEW j \in D, i < j, name(i) = name(j)
      PROVE  rank(i) < rank(j)
  <2>1. S(i) \subseteq S(j) /\ j \in S(j) /\ j \notin S(i)
    BY <1>9
  <2> HIDE DEF S
  <2>2. rank(i) <= rank(j) /\ rank(i) # rank(j)
    BY <2>1, <1>6, FS_Subset
  <2>3. QED
    BY <2>2, <1>6
<1>11. ASSUME NEW i \in D PROVE rank(i) \in Nat /\ rank(i) >= 1
  BY <1>6
<1> HIDE DEF S, rank, name
<1>10. ASSUME NEW i \in D, NEW j \in D, i < j, res[i].node.name = res[j].node.name
       PROVE  /\ Last(res[i].node.name[1]) = "I"
              /\ \E k \in DOMAIN os : res[i].node.name = os[k].node.name
  <2>1. ASSUME NEW k \in D, rank(k) # 1 PROVE Last(res[k].node.name[1]) = "I"
    <3>1. rank(k) \in Nat /\ rank(k) >= 2 /\ name(k) \in Texts
      BY <2>1, <1>11, <1>7
    <3>2. Last(Numbered(name(k), rank(k))[1]) = "I"
      BY <3>1, NumberedText
    <3>3. QED
      BY <2>1, <3>2, <1>7
  <2>2. ASSUME NEW k \in D, rank(k) = 1, Last(res[k].node.name[1]) = "I"
        PROVE  \E l \in DOMAIN os : res[k].node.name = os[l].node.name
    BY <2>2, <1>2, <1>5, <1>7 DEF name
  <2>3. ~(rank(i) = 1 /\ rank(j) = 1)
    BY <1>7, <1>9, <1>10
  <2>4. ~(rank(i) # 1 /\ rank(j) # 1)
    <3>1. SUFFICES ASSUME rank(i) # 1, rank(j) # 1 PROVE FALSE
      OBVIOUS
    <3>2. Numbered(name(i), rank(i)) = Numbered(name(j), rank(j))
      BY <3>1, <1>7, <1>10
    <3>3. name(i) = name(j) /\ rank(i) = rank(j)
      BY <3>2, <1>6, <1>7, NumberedOnce
    <3>4. rank(i) < rank(j)
      BY <3>3, <1>9, <1>10
    <3>5. QED
      BY <3>3, <3>4, <1>11
  <2>5. QED
    BY <2>1, <2>2, <2>3, <2>4, <1>10
<1>12. DOMAIN res = D
  BY <1>1, <1>2
<1> HIDE DEF res
<1>13. QED
  BY <1>8, <1>10, <1>12 DEF res, O

-----------------------------------------------------------------------------
(***************************************************************************)
(* The number k that rename_appended_conflicts looks for.                  *)
(***************************************************************************)
Free(used, t, k) ==
  /\ Numbered(t, k) \notin used
  /\ \A l \in 2..(k - 1) : Numbered(t, l) \in used

(***************************************************************************)
(* Among one number more than there are names in use, one gives a name     *)
(* that is not: the search ends.                                           *)
(***************************************************************************)
LEMMA FreeNumber ==
  ASSUME NEW used, IsFiniteSet(used), NEW t \in Texts
  PROVE  \E k \in 2..(Cardinality(used) + 2) : Free(used, t, k)
<1> DEFINE c == Cardinality(used)
           K == 2..(c + 2)
           f == [k \in K |-> Numbered(t, k)]
           F == {k \in K : Numbered(t, k) \notin used}
<1>1. c \in Nat
  BY FS_CardinalityType
<1> HIDE DEF c
<1>2. IsFiniteSet(K) /\ Cardinality(K) = c + 1
  BY <1>1, FS_Interval
<1>3. \A j, k \in K : f[j] = f[k] => j = k
  <2>1. ASSUME NEW j \in K, NEW k \in K, f[j] = f[k] PROVE j = k
    <3>1. j \in Nat /\ k \in Nat /\ j >= 1 /\ k >= 1
      BY <1>1
    <3>2. Numbered(t, j) = Numbered(t, k)
      BY <2>1
    <3>3. QED
      BY <3>1, <3>2, NumberedOnce
  <2>2. QED
    BY <2>1
<1>4. F # {}
  <2>1. SUFFICES ASSUME F = {} PROVE FALSE
    OBVIOUS
  <2>2. f \in [K -> used]
    BY <2>1
  <2>3. c < Cardinality(K)
    BY <1>1, <1>2
  <2> HIDE DEF f, K
  <2>4. \E j, k \in K : j # k /\ f[j] = f[k]
    BY <1>2, <2>2, <2>3, FS_PigeonHole DEF c
  <2>5. QED
    BY <2>4, <1>3
<1>5. F \in SUBSET (1..(c + 2)) /\ c + 2 \in Nat
  BY <1>1
<1>6. Min(F) \in F /\ \A i \in F : Min(F) <= i
  <2> HIDE DEF F
  <2>1. QED
    BY <1>4, <1>5, MinOf
<1>7. PICK m \in F : \A i \in F : m <= i
  BY <1>6, Zenon
<1>8. m \in K /\ Numbered(t, m) \notin used
  OBVIOUS
<1>9. ASSUME NEW l \in 2..(m - 1) PROVE Numbered(t, l) \in used
  <2>1. l \in K /\ ~(m <= l)
    BY <1>1, <1>8
  <2>2. QED
    BY <2>1, <1>7
<1>10. QED
  BY <1>8, <1>9 DEF Free, c

(***************************************************************************)
(* The name an appended node gets.                                         *)
(***************************************************************************)
NameFor(used, t, id) ==
  LET label == Labelled(t, id)
      k == CHOOSE k \in 2..(Cardinality(used) + 2) : Free(used, label, k) IN
    IF t \notin used THEN t ELSE IF label \notin used THEN label ELSE Numbered(label, k)

(***************************************************************************)
(* It is not in use.                                                       *)
(***************************************************************************)
LEMMA NewName ==
  ASSUME NEW used, IsFiniteSet(used), NEW t \in Texts, NEW id \in Words
  PROVE  NameFor(used, t, id) \in Texts \ used
<1> DEFINE label == Labelled(t, id)
           K == 2..(Cardinality(used) + 2)
           k == CHOOSE k \in K : Free(used, label, k)
<1>1. label \in Texts
  BY LabelledText
<1> HIDE DEF label
<1>2. \E i \in K : Free(used, label, i)
  BY <1>1, FreeNumber
<1>3. k \in K /\ Free(used, label, k)
  <2> HIDE DEF K
  <2>1. QED
    BY <1>2, Zenon
<1>4. k \in Nat
  BY <1>3, FS_CardinalityType
<1>5. NameFor(used, t, id) =
        IF t \notin used THEN t ELSE IF label \notin used THEN label ELSE Numbered(label, k)
  BY Zenon DEF NameFor, label
<1> HIDE DEF k
<1>6. Numbered(label, k) \in Texts /\ Numbered(label, k) \notin used
  BY <1>1, <1>3, <1>4, NumberedText DEF Free
<1>7. QED
  BY <1>1, <1>5, <1>6

(***************************************************************************)
(* Appended nodes whose names are distinct and none of U, and one step of  *)
(* rename_appended_conflicts.                                              *)
(***************************************************************************)
NamedIn(U, O) ==
  {a \in Seq(O) : /\ \A i \in DOMAIN a : a[i].node.name \notin U
                  /\ \A i, j \in DOMAIN a : i < j => a[i].node.name # a[j].node.name}
NamesIn(a) == {a[i].node.name : i \in DOMAIN a}
Renamed(U, a, c) ==
  Append(a, [c EXCEPT !.node.name = NameFor(U \cup NamesIn(a), c.node.name, c.id)])

(***************************************************************************)
(* The step keeps the names distinct.                                      *)
(***************************************************************************)
LEMMA RenamedIn ==
  ASSUME NEW N, \A n \in N : NodeOK(n), NEW U, IsFiniteSet(U),
         NEW a \in NamedIn(U, OwnedSet(Renamings(N))), NEW c \in OwnedSet(Renamings(N))
  PROVE  Renamed(U, a, c) \in NamedIn(U, OwnedSet(Renamings(N)))
<1> DEFINE O == OwnedSet(Renamings(N))
           used == U \cup NamesIn(a)
           t == NameFor(used, c.node.name, c.id)
           d == [c EXCEPT !.node.name = t]
<1>1. a \in Seq(O) /\ Len(a) \in Nat /\ DOMAIN a = 1..Len(a)
  BY DEF NamedIn
<1>2. IsFiniteSet(used)
  <2> DEFINE f == [i \in 1..Len(a) |-> a[i].node.name]
  <2>1. NamesIn(a) = {f[i] : i \in 1..Len(a)}
    BY <1>1 DEF NamesIn
  <2> HIDE DEF f
  <2>2. QED
    BY <1>1, <2>1, RangeFinite, FS_Union
<1>3. /\ c.node.name \in Texts /\ c.id \in Words
      /\ \A r \in Texts : /\ [c EXCEPT !.node.name = r] \in O
                          /\ [c EXCEPT !.node.name = r].node.name = r
  BY Relabelled
<1>4. t \in Texts \ used
  <2> HIDE DEF used
  <2>1. QED
    BY <1>2, <1>3, NewName
<1> HIDE DEF t, O
<1>5. d \in O /\ d.node.name = t
  BY <1>3, <1>4
<1>6. Renamed(U, a, c) = Append(a, d)
  BY DEF Renamed, t
<1> HIDE DEF d
<1>7. /\ Append(a, d) \in Seq(O) /\ DOMAIN Append(a, d) = 1..(Len(a) + 1)
      /\ Append(a, d)[Len(a) + 1] = d
      /\ \A i \in 1..Len(a) : Append(a, d)[i] = a[i]
  BY <1>1, <1>5
<1> DEFINE b == Append(a, d)
<1>8. \A i \in DOMAIN a : a[i].node.name \notin U /\ a[i].node.name \in used
  BY DEF NamedIn, NamesIn
<1>9. \A i, j \in DOMAIN a : i < j => a[i].node.name # a[j].node.name
  BY DEF NamedIn
<1> HIDE DEF b, used
<1>10. \A i \in DOMAIN b : b[i].node.name \notin U
  BY <1>1, <1>4, <1>5, <1>7, <1>8 DEF b, used
<1>11. \A i, j \in DOMAIN b : i < j => b[i].node.name # b[j].node.name
  <2>1. ASSUME NEW i \in DOMAIN b, NEW j \in DOMAIN b, i < j
        PROVE  b[i].node.name # b[j].node.name
    <3>1. i \in 1..Len(a) /\ b[i] = a[i]
      BY <1>1, <1>7, <2>1 DEF b
    <3>2. CASE j = Len(a) + 1
      BY <3>1, <3>2, <1>1, <1>4, <1>5, <1>7, <1>8 DEF b
    <3>3. CASE j # Len(a) + 1
      BY <3>1, <3>3, <1>1, <1>7, <1>9, <2>1 DEF b
    <3>4. QED
      BY <3>2, <3>3
  <2>2. QED
    BY <2>1
<1>12. QED
  <2>1. Renamed(U, a, c) = b
    BY <1>6 DEF b
  <2>2. b \in Seq(O)
    BY <1>7 DEF b
  <2>3. b \in NamedIn(U, O)
    BY <2>2, <1>10, <1>11, Zenon DEF NamedIn
  <2>4. QED
    BY <2>1, <2>3, Zenon DEF O

(***************************************************************************)
(* rename_appended_conflicts gives every appended node a name that neither *)
(* the template nor another appended node has.                             *)
(***************************************************************************)
LEMMA RenamedConflicts ==
  ASSUME NEW N, \A n \in N : NodeOK(n), NEW M, NEW stored \in Seq(M),
         NEW appended \in Seq(OwnedSet(Renamings(N)))
  PROVE  rename_appended_conflicts(stored, appended)
           \in NamedIn(ToSet(NamesOf(stored)), OwnedSet(Renamings(N)))
<1> DEFINE O == OwnedSet(Renamings(N))
           U == ToSet(NamesOf(stored))
           T == NamedIn(U, O)
           n == Len(appended)
           h == [i \in 1..n |-> [t \in T |-> Renamed(U, t, appended[i])]]
           E(g) == g = [s \in SUBSET DOMAIN appended |->
                     IF s = {} THEN <<>>
                     ELSE LET x == Max(s) IN Renamed(U, g[s \ {x}], appended[x])]
           j == CHOOSE g : E(g)
<1>1. n \in Nat /\ DOMAIN appended = 1..n /\ \A i \in 1..n : appended[i] \in O
  OBVIOUS
<1>2. rename_appended_conflicts(stored, appended) = j[DOMAIN appended]
  BY DEF rename_appended_conflicts, FoldLeft, MapThenFoldSet, Renamed, NamesIn, NameFor, Free
<1>3. IsFiniteSet(U)
  <2> DEFINE f == [i \in 1..Len(stored) |-> stored[i].name]
  <2>1. DOMAIN stored = 1..Len(stored) /\ Len(stored) \in Nat
    OBVIOUS
  <2>2. U = {f[i] : i \in 1..Len(stored)}
    BY <2>1 DEF NamesOf, ToSet
  <2> HIDE DEF f, U
  <2>3. QED
    BY <2>1, <2>2, RangeFinite
<1> HIDE DEF O, U, n
<1>4. <<>> \in T /\ h \in [1..n -> [T -> T]]
  <2>1. \A t \in T, i \in 1..n : Renamed(U, t, appended[i]) \in T
    BY <1>1, <1>3, RenamedIn DEF O
  <2>2. <<>> \in T
    BY DEF NamedIn
  <2> HIDE DEF T
  <2>3. QED
    BY <2>1, <2>2
<1> HIDE DEF T
<1>5. PICK it \in [SUBSET (1..n) -> T] : FoldOn(it, n, <<>>, h)
  <2> HIDE DEF h
  <2>1. QED
    BY <1>1, <1>4, FoldExists
<1>6. \A s \in SUBSET (1..n) : s # {} => Max(s) \in 1..n /\ s \ {Max(s)} \in SUBSET (1..n)
  BY <1>1, MaxOf
<1>7. E(it)
  <2>1. \A s \in SUBSET (1..n) : s # {} =>
          it[s] = Renamed(U, it[s \ {Max(s)}], appended[Max(s)])
    BY <1>5, <1>6 DEF FoldOn
  <2>2. QED
    BY <2>1, <1>1, <1>5, <1>6 DEF FoldOn
<1>8. E(j)
  <2> HIDE DEF E
  <2>1. QED
    BY <1>7, Zenon
<1>9. FoldsIn(j, T, n, <<>>, h)
  <2> HIDE DEF j
  <2>1. \A s \in SUBSET (1..n) : s # {} =>
          j[s] = Renamed(U, j[s \ {Max(s)}], appended[Max(s)])
    BY <1>1, <1>8, <1>6
  <2>2. QED
    BY <2>1, <1>1, <1>8, <1>6 DEF FoldsIn
<1> HIDE DEF h, j
<1>10. j[1..n] \in T
  BY <1>1, <1>4, <1>9, FoldIn
<1>11. QED
  BY <1>1, <1>2, <1>10 DEF T, O, U

(***************************************************************************)
(* The nodes without their source.                                         *)
(***************************************************************************)
LEMMA PlainIn ==
  ASSUME NEW M, NEW os \in Seq(OwnedSet(M))
  PROVE  /\ Plain(os) \in Seq(M) /\ DOMAIN Plain(os) = DOMAIN os /\ Len(Plain(os)) = Len(os)
         /\ \A i \in DOMAIN os : Plain(os)[i] = os[i].node
<1>1. Len(os) \in Nat /\ DOMAIN os = 1..Len(os) /\ \A i \in DOMAIN os : os[i].node \in M
  <2>1. \A i \in DOMAIN os : os[i] \in OwnedSet(M)
    OBVIOUS
  <2>2. QED
    BY <2>1 DEF OwnedSet
<1>2. Plain(os) = [i \in 1..Len(os) |-> os[i].node]
  BY <1>1 DEF Plain
<1>3. Plain(os) \in [1..Len(os) -> M]
  BY <1>1, <1>2
<1>4. Plain(os) \in Seq(M) /\ Len(Plain(os)) = Len(os)
  BY <1>1, <1>3
<1>5. QED
  BY <1>1, <1>2, <1>4

(***************************************************************************)
(* A name that a number may have made twice: it ends in a tally, and a     *)
(* node of a source has it.                                                *)
(***************************************************************************)
Numbers(N, name) == Last(name[1]) = "I" /\ \E n \in N : name = n.name

(***************************************************************************)
(* aggregate gives nodes of the sources, under names that are distinct     *)
(* except for such a number.                                               *)
(***************************************************************************)
LEMMA Aggregated ==
  ASSUME NEW N, \A n \in N : NodeOK(n), NEW ss \in Seq(SourceSet(N))
  PROVE  /\ aggregate(ss) \in Seq(OwnedSet(Renamings(N)))
         /\ Plain(aggregate(ss)) \in Seq(Renamings(N))
         /\ \A i, j \in DOMAIN Plain(aggregate(ss)) :
              i < j /\ Plain(aggregate(ss))[i].name = Plain(aggregate(ss))[j].name
                => Numbers(N, Plain(aggregate(ss))[i].name)
<1> DEFINE os == dedupe_nodes(ss)
           res == resolve_name_conflicts(os)
           O == OwnedSet(Renamings(N))
<1>1. os \in Seq(OwnedSet(N))
  BY DedupedIn
<1> HIDE DEF os
<1>2. os \in Seq(O) /\ \A k \in DOMAIN os : os[k].node \in N
  <2>1. OwnedSet(N) \subseteq O
    BY DEF OwnedSet, Renamings
  <2>2. \A k \in DOMAIN os : os[k] \in OwnedSet(N)
    BY <1>1
  <2>3. \A k \in DOMAIN os : os[k].node \in N
    BY <2>2 DEF OwnedSet
  <2>4. os \in Seq(O)
    <3>1. \A k \in DOMAIN os : os[k] \in O
      BY <2>1, <2>2
    <3> HIDE DEF O
    <3>2. QED
      BY <1>1, <3>1, IsSeqOf, SeqWithin
  <2>5. QED
    BY <2>3, <2>4
<1>3. /\ res \in Seq(O)
      /\ \A i, j \in DOMAIN res :
           i < j /\ res[i].node.name = res[j].node.name =>
             /\ Last(res[i].node.name[1]) = "I"
             /\ \E k \in DOMAIN os : res[i].node.name = os[k].node.name
  BY <1>2, Resolved
<1> HIDE DEF res
<1>4. /\ Plain(res) \in Seq(Renamings(N)) /\ DOMAIN Plain(res) = DOMAIN res
      /\ \A i \in DOMAIN res : Plain(res)[i] = res[i].node
  BY <1>3, PlainIn
<1>5. \A i, j \in DOMAIN Plain(res) :
        i < j /\ Plain(res)[i].name = Plain(res)[j].name => Numbers(N, Plain(res)[i].name)
  <2>1. ASSUME NEW i \in DOMAIN res, NEW j \in DOMAIN res, i < j,
               res[i].node.name = res[j].node.name
        PROVE  Numbers(N, res[i].node.name)
    <3>1. Last(res[i].node.name[1]) = "I"
      BY <2>1, <1>3
    <3>2. PICK k \in DOMAIN os : res[i].node.name = os[k].node.name
      BY <2>1, <1>3
    <3>3. QED
      BY <3>1, <3>2, <1>2 DEF Numbers
  <2>2. QED
    BY <1>4, <2>1
<1>6. aggregate(ss) = res
  BY DEF aggregate, res, os
<1>7. QED
  BY <1>3, <1>4, <1>5, <1>6

(***************************************************************************)
(* The nodes of the source of the template.                                *)
(***************************************************************************)
LEMMA FromSource ==
  ASSUME NEW N, NEW ss \in Seq(SourceSet(N)), NEW tid
  PROVE  /\ NodesFrom(ss, tid) \in Seq(N)
         /\ NodesFrom(ss, tid) = <<>> \/
            \E i \in DOMAIN ss : ss[i].id = tid /\ NodesFrom(ss, tid) = ss[i].nodes
         /\ (\E i \in DOMAIN ss : ss[i].id = tid) =>
            \E i \in DOMAIN ss : ss[i].id = tid /\ NodesFrom(ss, tid) = ss[i].nodes
<1> DEFINE found == {i \in DOMAIN ss : ss[i].id = tid}
<1>1. Len(ss) \in Nat /\ DOMAIN ss = 1..Len(ss)
  OBVIOUS
<1>2. \A i \in DOMAIN ss : ss[i].nodes \in Seq(N)
  <2>1. \A i \in DOMAIN ss : ss[i] \in SourceSet(N)
    OBVIOUS
  <2>2. QED
    BY <2>1 DEF SourceSet
<1>3. CASE found = {}
  <2>1. NodesFrom(ss, tid) = <<>>
    BY <1>3 DEF NodesFrom
  <2>2. QED
    BY <1>3, <2>1
<1>4. CASE found # {}
  <2>1. found \in SUBSET (1..Len(ss))
    BY <1>1
  <2> HIDE DEF found
  <2>2. Min(found) \in found
    BY <1>1, <1>4, <2>1, MinOf
  <2>3. NodesFrom(ss, tid) = ss[Min(found)].nodes
    BY <1>4 DEF NodesFrom, found
  <2>4. QED
    BY <1>2, <2>2, <2>3 DEF found
<1>5. QED
  BY <1>3, <1>4

(***************************************************************************)
(* The places of two sequences in their concatenation.                     *)
(***************************************************************************)
LEMMA Concatenated ==
  ASSUME NEW S, NEW a \in Seq(S), NEW b \in Seq(S)
  PROVE  /\ a \o b \in Seq(S)
         /\ DOMAIN a = 1..Len(a) /\ DOMAIN b = 1..Len(b)
         /\ DOMAIN (a \o b) = 1..(Len(a) + Len(b)) /\ Len(a) \in Nat /\ Len(b) \in Nat
         /\ \A i \in 1..Len(a) : (a \o b)[i] = a[i]
         /\ \A i \in 1..Len(b) : (a \o b)[Len(a) + i] = b[i]
  OBVIOUS

(***************************************************************************)
(* With a template its source's nodes come first and unchanged, the        *)
(* appended nodes are among the exported ones, and no name is there twice  *)
(* that the template's source does not have twice.                         *)
(***************************************************************************)
LEMMA Templated ==
  ASSUME NEW N, \A n \in N : NodeOK(n), NEW ss \in Seq(SourceSet(N)), NEW tid
  PROVE  LET x == build_template_export_nodes(ss, tid)
             t == NodesFrom(ss, tid) IN
           /\ x.nodes \in Seq(Renamings(N)) /\ x.appended \in Seq(Renamings(N))
           /\ ToSet(x.appended) \subseteq ToSet(x.nodes)
           /\ ToSet(t) \subseteq ToSet(x.nodes)
           /\ \A i, j \in DOMAIN x.nodes :
                i < j /\ x.nodes[i].name = x.nodes[j].name
                  => Numbers(N, x.nodes[i].name) \/ Twice(t, x.nodes[i].name)
<1> DEFINE t == NodesFrom(ss, tid)
           x == build_template_export_nodes(ss, tid)
           R == Renamings(N)
           keys == {build_dedupe_key(t[i]) : i \in DOMAIN t}
           picked == Picked(ss, {i \in DOMAIN ss : ss[i].id # tid})
           others == aggregate(picked)
           fresh == Picked(others,
                      {i \in DOMAIN others : build_dedupe_key(others[i].node) \notin keys})
           ren == rename_appended_conflicts(t, fresh)
           appended == Plain(ren)
           all == Plain(aggregate(ss))
<1>1. t \in Seq(N)
  BY FromSource
<1>2. t \in Seq(R)
  <2>1. \A i \in DOMAIN t : t[i] \in R
    BY <1>1 DEF Renamings
  <2> HIDE DEF t, R
  <2>2. QED
    BY <1>1, <2>1, IsSeqOf, SeqWithin
<1>3. x = IF t = <<>> THEN [nodes |-> all, appended |-> all]
          ELSE [nodes |-> t \o appended, appended |-> appended]
  BY DEF build_template_export_nodes
<1>4. /\ all \in Seq(R)
      /\ \A i, j \in DOMAIN all : i < j /\ all[i].name = all[j].name => Numbers(N, all[i].name)
  BY Aggregated
<1>5. picked \in Seq(SourceSet(N))
  BY PickedOf
<1> HIDE DEF t, x, all, picked
<1>6. others \in Seq(OwnedSet(R))
  BY <1>5, Aggregated
<1> HIDE DEF others
<1>7. fresh \in Seq(OwnedSet(R))
  BY <1>6, PickedOf
<1> HIDE DEF fresh
<1>8. ren \in NamedIn(ToSet(NamesOf(t)), OwnedSet(R))
  BY <1>1, <1>7, RenamedConflicts
<1> HIDE DEF ren
<1>9. ren \in Seq(OwnedSet(R))
  BY <1>8 DEF NamedIn
<1>10. /\ appended \in Seq(R) /\ DOMAIN appended = DOMAIN ren
       /\ \A i \in DOMAIN ren : appended[i] = ren[i].node
  BY <1>9, PlainIn
<1> HIDE DEF appended
<1>11. CASE t = <<>>
  <2>1. x.nodes = all /\ x.appended = all
    BY <1>3, <1>11
  <2>2. ToSet(t) = {}
    BY <1>11 DEF ToSet
  <2> HIDE DEF R
  <2>3. QED
    BY <1>4, <2>1, <2>2 DEF t, x, R
<1>12. CASE t # <<>>
  <2>1. x.nodes = t \o appended /\ x.appended = appended
    BY <1>3, <1>12
  <2> DEFINE b == t \o appended
  <2>2. /\ b \in Seq(R)
        /\ DOMAIN t = 1..Len(t) /\ DOMAIN appended = 1..Len(appended)
        /\ DOMAIN b = 1..(Len(t) + Len(appended)) /\ Len(t) \in Nat /\ Len(appended) \in Nat
        /\ \A i \in 1..Len(t) : b[i] = t[i]
        /\ \A i \in 1..Len(appended) : b[Len(t) + i] = appended[i]
    <3> HIDE DEF R
    <3>1. QED
      BY <1>2, <1>10, Concatenated
  <2> HIDE DEF b, R
  <2>3. ToSet(t) \subseteq ToSet(b)
    BY <2>2 DEF ToSet
  <2>4. ToSet(appended) \subseteq ToSet(b)
    <3>1. ASSUME NEW i \in DOMAIN appended PROVE \E k \in DOMAIN b : b[k] = appended[i]
      <4>1. Len(t) + i \in DOMAIN b
        BY <2>2
      <4>2. QED
        BY <2>2, <4>1
    <3>2. QED
      BY <3>1 DEF ToSet
  <2>5. /\ \A i \in DOMAIN appended : \A k \in DOMAIN t : appended[i].name # t[k].name
        /\ \A i, j \in DOMAIN appended : i < j => appended[i].name # appended[j].name
    <3>1. \A k \in DOMAIN t : t[k].name \in ToSet(NamesOf(t))
      BY DEF ToSet, NamesOf
    <3>2. QED
      BY <1>8, <1>10, <3>1 DEF NamedIn
  <2>6. ASSUME NEW i \in DOMAIN b, NEW j \in DOMAIN b, i < j, b[i].name = b[j].name
        PROVE  Twice(t, b[i].name)
    <3>1. CASE j \in 1..Len(t)
      <4>1. i \in 1..Len(t)
        BY <2>2, <2>6, <3>1
      <4>2. QED
        BY <2>2, <2>6, <3>1, <4>1 DEF Twice
    <3>2. CASE j \notin 1..Len(t)
      <4>1. j - Len(t) \in 1..Len(appended) /\ j = Len(t) + (j - Len(t))
        BY <2>2, <3>2
      <4>2. b[j] = appended[j - Len(t)]
        BY <2>2, <4>1
      <4>3. CASE i \in 1..Len(t)
        BY <2>2, <2>5, <2>6, <4>1, <4>2, <4>3
      <4>4. CASE i \notin 1..Len(t)
        <5>1. i - Len(t) \in 1..Len(appended) /\ i = Len(t) + (i - Len(t))
              /\ i - Len(t) < j - Len(t)
          BY <2>2, <2>6, <4>1, <4>4
        <5>2. b[i] = appended[i - Len(t)]
          BY <2>2, <5>1
        <5>3. QED
          BY <2>2, <2>5, <2>6, <4>1, <4>2, <5>1, <5>2
      <4>5. QED
        BY <4>3, <4>4
    <3>3. QED
      BY <3>1, <3>2
  <2>7. /\ x.nodes = b /\ x.appended = appended
    BY <2>1 DEF b
  <2>8. QED
    BY <1>10, <2>2, <2>3, <2>4, <2>6, <2>7 DEF t, x, R
<1>13. QED
  BY <1>11, <1>12

-----------------------------------------------------------------------------
(***************************************************************************)
(* push_unique_proxy_name adds at most the one member.                     *)
(***************************************************************************)
LEMMA Pushed ==
  ASSUME NEW T, NEW a \in Seq(T), NEW m \in T
  PROVE  push_unique_proxy_name(a, m) \in Seq(T)
  BY DEF push_unique_proxy_name

(***************************************************************************)
(* Nor does it add others for a sequence of members.                       *)
(***************************************************************************)
LEMMA PushedAll ==
  ASSUME NEW S, NEW seq \in Seq(S), NEW ms \in Seq(S)
  PROVE  PushAll(seq, ms) \in Seq(S)
<1> DEFINE T == Seq(S)
           n == Len(ms)
           h == [i \in 1..n |-> [t \in T |-> push_unique_proxy_name(t, ms[i])]]
           E(g) == g = [s \in SUBSET DOMAIN ms |->
                     IF s = {} THEN seq
                     ELSE LET x == Max(s) IN push_unique_proxy_name(g[s \ {x}], ms[x])]
           j == CHOOSE g : E(g)
<1>1. n \in Nat /\ DOMAIN ms = 1..n /\ \A i \in 1..n : ms[i] \in S
  OBVIOUS
<1>2. PushAll(seq, ms) = j[DOMAIN ms]
  BY DEF PushAll, FoldLeft, MapThenFoldSet
<1> HIDE DEF n
<1>3. seq \in T /\ h \in [1..n -> [T -> T]]
  <2>1. \A t \in T, i \in 1..n : push_unique_proxy_name(t, ms[i]) \in T
    BY <1>1, Pushed
  <2> HIDE DEF T
  <2>2. QED
    BY <2>1 DEF T
<1> HIDE DEF T
<1>4. PICK it \in [SUBSET (1..n) -> T] : FoldOn(it, n, seq, h)
  <2> HIDE DEF h
  <2>1. QED
    BY <1>1, <1>3, FoldExists
<1>5. \A s \in SUBSET (1..n) : s # {} => Max(s) \in 1..n /\ s \ {Max(s)} \in SUBSET (1..n)
  BY <1>1, MaxOf
<1>6. E(it)
  <2>1. \A s \in SUBSET (1..n) : s # {} =>
          it[s] = push_unique_proxy_name(it[s \ {Max(s)}], ms[Max(s)])
    BY <1>4, <1>5 DEF FoldOn
  <2>2. QED
    BY <2>1, <1>1, <1>4, <1>5 DEF FoldOn
<1>7. E(j)
  <2> HIDE DEF E
  <2>1. QED
    BY <1>6, Zenon
<1>8. FoldsIn(j, T, n, seq, h)
  <2> HIDE DEF j
  <2>1. \A s \in SUBSET (1..n) : s # {} =>
          j[s] = push_unique_proxy_name(j[s \ {Max(s)}], ms[Max(s)])
    BY <1>1, <1>7, <1>5
  <2>2. QED
    BY <2>1, <1>1, <1>7, <1>5 DEF FoldsIn
<1> HIDE DEF h, j
<1>9. j[1..n] \in T
  BY <1>1, <1>3, <1>8, FoldIn
<1>10. QED
  BY <1>1, <1>2, <1>9 DEF T

(***************************************************************************)
(* The parts of TemplateGroup, named: the policy a member stands for, the  *)
(* members that are nodes, and one step of the fold that fills the places  *)
(* of nodes that are gone.                                                 *)
(***************************************************************************)
Policy(singbox, m) == IF singbox THEN normalize_policy_reference(m) ELSE m
GroupNames(t) == {t.groups[i].name : i \in DOMAIN t.groups}
Lists(t, m) == m \notin GroupNames(t) /\ ~is_builtin_policy(m)
Filled(t, singbox, cs, a, m) ==
  IF Lists(t, m) THEN PushAll(a, cs) ELSE push_unique_proxy_name(a, Policy(singbox, m))
Fill(t, singbox, cs, ms) ==
  FoldLeft(LAMBDA acc, m : Filled(t, singbox, cs, acc, m), <<>>, ms)

(***************************************************************************)
(* It leaves only candidates and members that are no nodes.                *)
(***************************************************************************)
LEMMA FilledIn ==
  ASSUME NEW S, NEW t, NEW singbox, NEW cs \in Seq(S), NEW L, NEW ms \in Seq(L),
         \A m \in ToSet(ms) : Lists(t, m) \/ Policy(singbox, m) \in S
  PROVE  Fill(t, singbox, cs, ms) \in Seq(S)
<1> DEFINE T == Seq(S)
           n == Len(ms)
           h == [i \in 1..n |-> [a \in T |-> Filled(t, singbox, cs, a, ms[i])]]
           E(g) == g = [s \in SUBSET DOMAIN ms |->
                     IF s = {} THEN <<>>
                     ELSE LET x == Max(s) IN Filled(t, singbox, cs, g[s \ {x}], ms[x])]
           j == CHOOSE g : E(g)
<1>1. n \in Nat /\ DOMAIN ms = 1..n
      /\ \A i \in 1..n : Lists(t, ms[i]) \/ Policy(singbox, ms[i]) \in S
  <2>1. n \in Nat /\ DOMAIN ms = 1..n
    OBVIOUS
  <2>2. \A i \in DOMAIN ms : ms[i] \in ToSet(ms)
    BY DEF ToSet
  <2>3. QED
    BY <2>1, <2>2
<1>2. Fill(t, singbox, cs, ms) = j[DOMAIN ms]
  BY DEF Fill, FoldLeft, MapThenFoldSet
<1> HIDE DEF n
<1>3. <<>> \in T /\ h \in [1..n -> [T -> T]]
  <2>1. ASSUME NEW a \in T, NEW i \in 1..n PROVE Filled(t, singbox, cs, a, ms[i]) \in T
    <3>1. PushAll(a, cs) \in T
      BY PushedAll
    <3>2. Lists(t, ms[i]) \/ push_unique_proxy_name(a, Policy(singbox, ms[i])) \in T
      BY <1>1, Pushed
    <3>3. QED
      BY <3>1, <3>2 DEF Filled
  <2>2. <<>> \in T
    OBVIOUS
  <2> HIDE DEF T
  <2>3. QED
    BY <2>1, <2>2
<1> HIDE DEF T
<1>4. PICK it \in [SUBSET (1..n) -> T] : FoldOn(it, n, <<>>, h)
  <2> HIDE DEF h
  <2>1. QED
    BY <1>1, <1>3, FoldExists
<1>5. \A s \in SUBSET (1..n) : s # {} => Max(s) \in 1..n /\ s \ {Max(s)} \in SUBSET (1..n)
  BY <1>1, MaxOf
<1>6. E(it)
  <2>1. \A s \in SUBSET (1..n) : s # {} =>
          it[s] = Filled(t, singbox, cs, it[s \ {Max(s)}], ms[Max(s)])
    BY <1>4, <1>5 DEF FoldOn
  <2>2. QED
    BY <2>1, <1>1, <1>4, <1>5 DEF FoldOn
<1>7. E(j)
  <2> HIDE DEF E
  <2>1. QED
    BY <1>6, Zenon
<1>8. FoldsIn(j, T, n, <<>>, h)
  <2> HIDE DEF j
  <2>1. \A s \in SUBSET (1..n) : s # {} =>
          j[s] = Filled(t, singbox, cs, j[s \ {Max(s)}], ms[Max(s)])
    BY <1>1, <1>7, <1>5
  <2>2. QED
    BY <2>1, <1>1, <1>7, <1>5 DEF FoldsIn
<1> HIDE DEF h, j
<1>9. j[1..n] \in T
  BY <1>1, <1>3, <1>8, FoldIn
<1>10. QED
  BY <1>1, <1>2, <1>9 DEF T

(***************************************************************************)
(* The nodes a group takes up, and all that may be in it afterwards.       *)
(***************************************************************************)
Candidates(t, g, x) ==
  IF \E i \in DOMAIN g.proxies : Lists(t, g.proxies[i])
  THEN filter_group_candidate_nodes(NamesOf(x.appended), g.filter)
  ELSE IF g.proxies = <<>> /\ g.include_all
       THEN filter_group_candidate_nodes(NamesOf(x.nodes), g.filter) ELSE <<>>
Members(t, g, x, singbox) ==
  ToSet(NamesOf(x.nodes))
  \cup {Policy(singbox, m) : m \in {p \in ToSet(g.proxies) : t.preserve \/ ~Lists(t, p)}}

(***************************************************************************)
(* The names of nodes are texts.                                           *)
(***************************************************************************)
LEMMA NamesSeq ==
  ASSUME NEW N, \A n \in N : NodeOK(n), NEW s \in Seq(Renamings(N))
  PROVE  /\ NamesOf(s) \in Seq(Texts) /\ DOMAIN NamesOf(s) = DOMAIN s
         /\ \A i \in DOMAIN s : NamesOf(s)[i] = s[i].name
         /\ ToSet(NamesOf(s)) \subseteq Texts
         /\ NamesOf(s) \in Seq(ToSet(NamesOf(s)))
<1> DEFINE R == Renamings(N)
<1>1. \A n \in R : n.name \in Texts
  BY RenamedOK DEF NodeOK
<1> HIDE DEF R
<1>2. Len(s) \in Nat /\ DOMAIN s = 1..Len(s) /\ \A i \in DOMAIN s : s[i] \in R
  <2>1. s \in Seq(R)
    BY DEF R
  <2>2. QED
    BY <2>1
<1> DEFINE a == NamesOf(s)
<1>3. a = [i \in 1..Len(s) |-> s[i].name]
  BY <1>2 DEF NamesOf
<1> HIDE DEF a
<1>4. a = [i \in 1..Len(s) |-> a[i]] /\ \A i \in 1..Len(s) : a[i] = s[i].name /\ a[i] \in Texts
  BY <1>1, <1>2, <1>3
<1>5. IsSeq(a) /\ DOMAIN a = 1..Len(s)
  BY <1>2, <1>4, SeqOver
<1>6. a \in Seq(Texts) /\ ToSet(a) \subseteq Texts
  BY <1>4, <1>5, SeqWithin, IsSeqOf
<1>7. a \in Seq(ToSet(a))
  BY <1>5 DEF IsSeq
<1>8. QED
  BY <1>2, <1>4, <1>5, <1>6, <1>7 DEF a

(***************************************************************************)
(* So is the policy a member stands for.                                   *)
(***************************************************************************)
LEMMA PolicyText ==
  ASSUME NEW singbox, NEW m \in Texts
  PROVE  Policy(singbox, m) \in Texts
<1>1. Text("direct") \in Texts /\ Text("block") \in Texts
  <2>1. "direct" \in Words /\ "block" \in Words
    BY DEF Words
  <2>2. QED
    BY <2>1, TextOf
<1>2. QED
  BY <1>1 DEF Policy, normalize_policy_reference

(***************************************************************************)
(* A group takes up exported nodes only, filtered or not.                  *)
(***************************************************************************)
LEMMA CandidateNames ==
  ASSUME NEW N, \A n \in N : NodeOK(n), NEW t, NEW g, NEW x,
         x.nodes \in Seq(Renamings(N)), x.appended \in Seq(Renamings(N)),
         ToSet(x.appended) \subseteq ToSet(x.nodes)
  PROVE  Candidates(t, g, x) \in Seq(ToSet(NamesOf(x.nodes)))
<1> DEFINE S == ToSet(NamesOf(x.nodes))
           a == NamesOf(x.appended)
           b == NamesOf(x.nodes)
<1>1. b \in Seq(S)
  BY NamesSeq
<1>2. a \in Seq(S)
  <2>1. a \in Seq(ToSet(a))
    BY NamesSeq
  <2>2. \A i \in DOMAIN a : a[i] \in S
    <3>1. \A i \in DOMAIN x.appended : \E k \in DOMAIN x.nodes : x.appended[i] = x.nodes[k]
      BY DEF ToSet
    <3>2. QED
      BY <3>1 DEF ToSet, NamesOf
  <2> HIDE DEF a, S
  <2>3. QED
    BY <2>1, <2>2, IsSeqOf, SeqWithin
<1> HIDE DEF S, a, b
<1>3. /\ filter_group_candidate_nodes(a, g.filter) \in Seq(S)
      /\ filter_group_candidate_nodes(b, g.filter) \in Seq(S)
  BY <1>1, <1>2, PickedOf DEF filter_group_candidate_nodes
<1>4. <<>> \in Seq(S)
  OBVIOUS
<1>5. QED
  BY <1>3, <1>4, Zenon DEF Candidates, S, a, b

(***************************************************************************)
(* TemplateGroup keeps a group's name, and leaves in it what it had and    *)
(* the exported nodes; without preserved names only the members that are   *)
(* no nodes.                                                               *)
(***************************************************************************)
LEMMA GroupFilled ==
  ASSUME NEW N, \A n \in N : NodeOK(n), NEW t, NEW g \in GroupType, NEW x,
         x.nodes \in Seq(Renamings(N)), x.appended \in Seq(Renamings(N)),
         ToSet(x.appended) \subseteq ToSet(x.nodes), NEW singbox
  PROVE  LET h == TemplateGroup(t, g, x, singbox) IN
           /\ h \in GroupType /\ h.name = g.name
           /\ ToSet(h.proxies) \subseteq Members(t, g, x, singbox)
<1> DEFINE h == TemplateGroup(t, g, x, singbox)
           cs == Candidates(t, g, x)
           ps == g.proxies
           kept == PushAll(<<>>, [i \in DOMAIN ps |-> Policy(singbox, ps[i])])
           filled == Fill(t, singbox, cs, ps)
           S == Members(t, g, x, singbox)
           V == ToSet(NamesOf(x.nodes))
           result == IF t.preserve THEN PushAll(kept, cs) ELSE PushAll(filled, cs)
<1>1. h = Group(g.name, result)
  BY DEF TemplateGroup, Candidates, Fill, Filled, Lists, GroupNames, Policy
<1>2. g.name \in Texts /\ ps \in Seq(Texts)
  BY DEF GroupType
<1>3. cs \in Seq(S)
  <2>1. cs \in Seq(V)
    BY CandidateNames
  <2>2. V \subseteq S
    BY DEF Members
  <2> HIDE DEF cs, V, S
  <2>3. \A i \in DOMAIN cs : cs[i] \in S
    BY <2>1, <2>2
  <2>4. QED
    BY <2>1, <2>3, IsSeqOf, SeqWithin
<1>4. S \subseteq Texts
  <2>1. V \subseteq Texts
    BY NamesSeq
  <2>2. ToSet(ps) \subseteq Texts
    BY <1>2, IsSeqOf
  <2>3. \A m \in ToSet(ps) : Policy(singbox, m) \in Texts
    BY <2>2, PolicyText
  <2>4. QED
    BY <2>1, <2>3 DEF Members
<1>5. DOMAIN ps = 1..Len(ps) /\ Len(ps) \in Nat
      /\ \A i \in DOMAIN ps : ps[i] \in ToSet(ps)
  <2>1. DOMAIN ps = 1..Len(ps) /\ Len(ps) \in Nat
    BY <1>2
  <2>2. QED
    BY <2>1 DEF ToSet
<1>6. result \in Seq(S)
  <2>1. CASE t.preserve
    <3> DEFINE k == [i \in DOMAIN ps |-> Policy(singbox, ps[i])]
    <3>1. \A i \in 1..Len(ps) : Policy(singbox, ps[i]) \in S
      BY <1>5, <2>1 DEF Members
    <3> HIDE DEF S, ps
    <3>2. k \in [1..Len(ps) -> S]
      BY <1>5, <3>1
    <3>3. k \in Seq(S) /\ <<>> \in Seq(S)
      <4> HIDE DEF k
      <4>1. QED
        BY <1>5, <3>2
    <3> HIDE DEF k, cs
    <3>4. PushAll(<<>>, k) \in Seq(S)
      BY <3>3, PushedAll
    <3>5. PushAll(PushAll(<<>>, k), cs) \in Seq(S)
      BY <1>3, <3>4, PushedAll
    <3>6. QED
      BY <2>1, <3>5 DEF k
  <2>2. CASE ~t.preserve
    <3>1. \A m \in ToSet(ps) : Lists(t, m) \/ Policy(singbox, m) \in S
      BY DEF Members
    <3> HIDE DEF S, ps, cs
    <3>2. filled \in Seq(S)
      BY <1>2, <1>3, <3>1, FilledIn
    <3> HIDE DEF filled
    <3>3. PushAll(filled, cs) \in Seq(S)
      BY <1>3, <3>2, PushedAll
    <3>4. QED
      BY <2>2, <3>3
  <2>3. QED
    BY <2>1, <2>2
<1> HIDE DEF result, S
<1>7. result \in Seq(Texts) /\ ToSet(result) \subseteq S
  <2>1. IsSeq(result) /\ ToSet(result) \subseteq S
    BY <1>6, IsSeqOf
  <2>2. \A i \in DOMAIN result : result[i] \in Texts
    BY <1>4, <2>1 DEF ToSet
  <2>3. QED
    BY <2>1, <2>2, SeqWithin
<1>8. "" \in Words
  BY DEF Words
<1> HIDE DEF h
<1>9. h \in GroupType /\ h.name = g.name /\ h.proxies = result
  BY <1>1, <1>2, <1>7, <1>8 DEF Group, GroupType
<1>10. QED
  BY <1>7, <1>9 DEF h, S

(***************************************************************************)
(* The names of groups.                                                    *)
(***************************************************************************)
GroupNamesOf(gs) == {h.name : h \in ToSet(gs)}

(***************************************************************************)
(* The two groups of a configuration without a template list the exported  *)
(* nodes and each other.                                                   *)
(***************************************************************************)
LEMMA TwoGroups ==
  ASSUME NEW a \in Words, NEW b \in Words, NEW ns \in Seq(Texts)
  PROVE  LET gs == <<Group(Text(a), PushAll(<<Text(b)>>, ns)), Group(Text(b), ns)>> IN
           /\ gs \in Seq(GroupType)
           /\ \A h \in ToSet(gs) : ToSet(h.proxies) \subseteq ToSet(ns) \cup GroupNamesOf(gs)
<1> DEFINE S == ToSet(ns) \cup {Text(b)}
           ms == PushAll(<<Text(b)>>, ns)
           p == Group(Text(a), ms)
           q == Group(Text(b), ns)
           gs == <<p, q>>
<1>1. Text(a) \in Texts /\ Text(b) \in Texts
  BY TextOf
<1>2. IsSeq(ns) /\ ToSet(ns) \subseteq Texts
  BY IsSeqOf
<1>3. ns \in Seq(S)
  <2>1. \A i \in DOMAIN ns : ns[i] \in S
    BY DEF ToSet
  <2> HIDE DEF S
  <2>2. QED
    BY <1>2, <2>1, SeqWithin
<1>4. <<Text(b)>> \in Seq(S)
  OBVIOUS
<1>5. S \subseteq Texts
  BY <1>1, <1>2
<1> HIDE DEF S
<1>6. ms \in Seq(S)
  BY <1>3, <1>4, PushedAll
<1> HIDE DEF ms
<1>7. IsSeq(ms) /\ ToSet(ms) \subseteq S
  BY <1>6, IsSeqOf
<1>8. ms \in Seq(Texts)
  <2>1. \A i \in DOMAIN ms : ms[i] \in Texts
    BY <1>5, <1>7 DEF ToSet
  <2>2. QED
    BY <1>7, <2>1, SeqWithin
<1>9. "" \in Words
  BY DEF Words
<1>10. /\ p \in GroupType /\ p.proxies = ms
       /\ q \in GroupType /\ q.proxies = ns /\ q.name = Text(b)
  BY <1>1, <1>8, <1>9 DEF Group, GroupType
<1> HIDE DEF p, q
<1>11. gs \in Seq(GroupType) /\ ToSet(gs) = {p, q}
  <2>1. gs \in Seq(GroupType) /\ DOMAIN gs = {1, 2}
    BY <1>10
  <2>2. QED
    BY <2>1 DEF ToSet
<1> HIDE DEF gs
<1>12. Text(b) \in GroupNamesOf(gs)
  BY <1>10, <1>11 DEF GroupNamesOf
<1>13. \A h \in ToSet(gs) : ToSet(h.proxies) \subseteq ToSet(ns) \cup GroupNamesOf(gs)
  BY <1>7, <1>10, <1>11, <1>12 DEF S
<1>14. QED
  BY <1>11, <1>13 DEF gs, p, q, ms

(***************************************************************************)
(* The groups of a template keep their names.                              *)
(***************************************************************************)
LEMMA TemplateGroups ==
  ASSUME NEW N, \A n \in N : NodeOK(n), NEW t \in TemplateType, NEW x,
         x.nodes \in Seq(Renamings(N)), x.appended \in Seq(Renamings(N)),
         ToSet(x.appended) \subseteq ToSet(x.nodes), NEW singbox
  PROVE  LET gs == [i \in DOMAIN t.groups |-> TemplateGroup(t, t.groups[i], x, singbox)] IN
           /\ gs \in Seq(GroupType)
           /\ GroupNames(t) \subseteq GroupNamesOf(gs)
           /\ \A h \in ToSet(gs) : \E g \in ToSet(t.groups) :
                ToSet(h.proxies) \subseteq Members(t, g, x, singbox)
<1> DEFINE ts == t.groups
           gs == [i \in DOMAIN ts |-> TemplateGroup(t, ts[i], x, singbox)]
<1>1. ts \in Seq(GroupType)
  BY DEF TemplateType
<1>2. Len(ts) \in Nat /\ DOMAIN ts = 1..Len(ts) /\ \A i \in DOMAIN ts : ts[i] \in GroupType
  BY <1>1
<1>3. ASSUME NEW i \in DOMAIN ts
      PROVE  /\ gs[i] \in GroupType /\ gs[i].name = ts[i].name
             /\ ToSet(gs[i].proxies) \subseteq Members(t, ts[i], x, singbox)
  <2>1. ts[i] \in GroupType
    BY <1>2
  <2>2. gs[i] = TemplateGroup(t, ts[i], x, singbox)
    OBVIOUS
  <2> DEFINE g == ts[i]
  <2> HIDE DEF gs, ts, g
  <2>3. g \in GroupType
    BY <2>1 DEF g
  <2>4. /\ TemplateGroup(t, g, x, singbox) \in GroupType
        /\ TemplateGroup(t, g, x, singbox).name = g.name
        /\ ToSet(TemplateGroup(t, g, x, singbox).proxies) \subseteq Members(t, g, x, singbox)
    <3> DEFINE good(r) == LET h == TemplateGroup(t, r, x, singbox) IN
           /\ h \in GroupType /\ h.name = r.name
           /\ ToSet(h.proxies) \subseteq Members(t, r, x, singbox)
    <3>1. \A r \in GroupType : good(r)
      BY GroupFilled
    <3>2. good(g)
      BY <2>3, <3>1
    <3>3. QED
      BY <3>2
  <2>5. QED
    BY <2>2, <2>4 DEF g
<1>4. DOMAIN gs = DOMAIN ts /\ gs = [i \in DOMAIN ts |-> gs[i]]
  OBVIOUS
<1> HIDE DEF gs
<1>5. gs \in [1..Len(ts) -> GroupType]
  BY <1>2, <1>3, <1>4
<1>6. gs \in Seq(GroupType)
  BY <1>2, <1>5
<1>7. GroupNames(t) \subseteq GroupNamesOf(gs)
  BY <1>3, <1>4 DEF GroupNames, GroupNamesOf, ToSet
<1>8. \A h \in ToSet(gs) : \E g \in ToSet(ts) :
        ToSet(h.proxies) \subseteq Members(t, g, x, singbox)
  <2>1. \A i \in DOMAIN ts : ts[i] \in ToSet(ts)
    BY DEF ToSet
  <2>2. \A h \in ToSet(gs) : \E i \in DOMAIN ts : h = gs[i]
    BY <1>4 DEF ToSet
  <2>3. QED
    BY <1>3, <2>1, <2>2
<1>9. QED
  BY <1>6, <1>7, <1>8 DEF gs

(***************************************************************************)
(* The groups of an export, with a template or without one.                *)
(***************************************************************************)
LEMMA GroupsOf ==
  ASSUME NEW N, \A n \in N : NodeOK(n), NEW t \in TemplateType, NEW x,
         x.nodes \in Seq(Renamings(N)), x.appended \in Seq(Renamings(N)),
         ToSet(x.appended) \subseteq ToSet(x.nodes), NEW f \in Formats
  PROVE  LET gs == Groups(f, t, x) IN
           /\ gs \in Seq(GroupType)
           /\ \A h \in ToSet(gs) :
                \/ ToSet(h.proxies) \subseteq ToSet(NamesOf(x.nodes)) \cup GroupNamesOf(gs)
                \/ /\ t.present /\ f \in {"clash", "singbox"}
                   /\ GroupNames(t) \subseteq GroupNamesOf(gs)
                   /\ \E g \in ToSet(t.groups) :
                        ToSet(h.proxies) \subseteq Members(t, g, x, f = "singbox")
<1> DEFINE gs == Groups(f, t, x)
           ns == NamesOf(x.nodes)
           templated(singbox) ==
             [i \in DOMAIN t.groups |-> TemplateGroup(t, t.groups[i], x, singbox)]
           Good == /\ gs \in Seq(GroupType)
                   /\ \A h \in ToSet(gs) :
                        ToSet(h.proxies) \subseteq ToSet(ns) \cup GroupNamesOf(gs)
<1>1. ns \in Seq(Texts)
  BY NamesSeq
<1> HIDE DEF ns
<1>2. {"Select", "Auto", "select", "auto"} \subseteq Words
  BY DEF Words
<1>3. CASE gs = build_proxy_groups(x.nodes)
  <2>1. gs = <<Group(Text("Select"), PushAll(<<Text("Auto")>>, ns)), Group(Text("Auto"), ns)>>
    BY <1>3 DEF build_proxy_groups, ns
  <2> HIDE DEF gs
  <2>2. Good
    BY <1>1, <1>2, <2>1, TwoGroups
  <2>3. QED
    BY <2>2 DEF gs, ns
<1>4. CASE gs = build_default_groups(x.nodes)
  <2>1. gs = <<Group(Text("select"), PushAll(<<Text("auto")>>, ns)), Group(Text("auto"), ns)>>
    BY <1>4 DEF build_default_groups, ns
  <2> HIDE DEF gs
  <2>2. Good
    BY <1>1, <1>2, <2>1, TwoGroups
  <2>3. QED
    BY <2>2 DEF gs, ns
<1>5. CASE gs = <<>>
  <2>1. ToSet(gs) = {} /\ gs \in Seq(GroupType)
    BY <1>5 DEF ToSet
  <2>2. QED
    BY <2>1
<1>6. CASE t.present /\ f = "clash" /\ gs = templated(FALSE)
  <2>1. /\ gs \in Seq(GroupType) /\ GroupNames(t) \subseteq GroupNamesOf(gs)
        /\ \A h \in ToSet(gs) : \E g \in ToSet(t.groups) :
             ToSet(h.proxies) \subseteq Members(t, g, x, FALSE)
    <3> HIDE DEF gs
    <3>1. QED
      BY <1>6, TemplateGroups
  <2>2. (f = "singbox") = FALSE
    BY <1>6
  <2>3. QED
    BY <1>6, <2>1, <2>2
<1>7. CASE t.present /\ f = "singbox" /\ gs = templated(TRUE)
  <2>1. /\ gs \in Seq(GroupType) /\ GroupNames(t) \subseteq GroupNamesOf(gs)
        /\ \A h \in ToSet(gs) : \E g \in ToSet(t.groups) :
             ToSet(h.proxies) \subseteq Members(t, g, x, TRUE)
    <3> HIDE DEF gs
    <3>1. QED
      BY <1>7, TemplateGroups
  <2>2. (f = "singbox") = TRUE
    BY <1>7
  <2>3. QED
    BY <1>7, <2>1, <2>2
<1>8. \/ gs = build_proxy_groups(x.nodes) \/ gs = build_default_groups(x.nodes) \/ gs = <<>>
      \/ t.present /\ f = "clash" /\ gs = templated(FALSE)
      \/ t.present /\ f = "singbox" /\ gs = templated(TRUE)
  <2>1. t.present \in BOOLEAN
    BY DEF TemplateType
  <2> HIDE DEF templated
  <2>2. CASE f = "clash" /\ t.present
    BY <2>2 DEF Groups, build_proxy_groups_from_template, templated
  <2>3. CASE f = "clash" /\ ~t.present
    BY <2>3 DEF Groups
  <2>4. CASE f = "singbox" /\ t.present
    BY <2>4 DEF Groups, build_template_groups, templated
  <2>5. CASE f = "singbox" /\ ~t.present
    BY <2>5 DEF Groups
  <2>6. CASE f \in {"uri", "ini"}
    BY <2>6 DEF Groups
  <2>7. QED
    BY <2>2, <2>3, <2>4, <2>5, <2>6 DEF Formats
<1>9. QED
  BY <1>3, <1>4, <1>5, <1>6, <1>7, <1>8

-----------------------------------------------------------------------------
(***************************************************************************)
(* The inductive invariant. Every source serves a well-formed payload.     *)
(***************************************************************************)
NetOK == Sources \subseteq Source /\ \A s \in Sources : PayloadOK(net[s])

(***************************************************************************)
(* A source's fetch, cache and template belong together: the cached nodes  *)
(* are well-formed, after the fetch they are the nodes of the body it got, *)
(* junk comes only from a server that misbehaves, and a template is that   *)
(* of the payload or an old one.                                           *)
(***************************************************************************)
FetchFields == {"st", "tries", "answer", "at"}
TemplateOK(p, t) ==
  /\ t \in TemplateType
  /\ t.present => IF t.preserve THEN t.groups = p.groups ELSE t \in OldTemplates
Content(p, f) == IF f.answer.junk THEN Junk ELSE p
SourceOK(p, f, c, t) ==
  /\ DOMAIN f = FetchFields /\ f.at \in Nat
  /\ f.answer.junk => p.flaky
  /\ NodesOK(c)
  /\ f.st = "done" => c = parse_nodes(Content(p, f)) /\ PayloadParses(Content(p, f))
  /\ TemplateOK(p, t)

(***************************************************************************)
(* Every source's are.                                                     *)
(***************************************************************************)
FetchOK ==
  /\ DOMAIN fetch = Sources /\ DOMAIN cache = Sources /\ DOMAIN template = Sources
  /\ \A s \in Sources : SourceOK(net[s], fetch[s], cache[s], template[s])

(***************************************************************************)
(* An instance's first source serves the export that the instance before   *)
(* it made of the nodes in was, in the format that path ends in.           *)
(***************************************************************************)
RelayOK ==
  path # <<>> =>
    /\ "s1" \in Sources /\ Via \in Formats
    /\ net["s1"].fmt = Via /\ net["s1"].flaky = FALSE
    /\ net["s1"].items = [k \in DOMAIN was |-> Built(Via, was[k])]
    /\ NodesOK(was) /\ \A k \in DOMAIN was : Builds(Via, was[k])

(***************************************************************************)
(* The template and the nodes of an export.                                *)
(***************************************************************************)
Chosen(tid) == IF tid \in Sources THEN template[tid] ELSE NoTemplate
Exported(tid) ==
  LET all == Plain(aggregate(SourceNodes)) IN
    IF Chosen(tid).present THEN build_template_export_nodes(SourceNodes, tid)
    ELSE [nodes |-> all, appended |-> all]

(***************************************************************************)
(* An export is made of the present caches and templates: none is fetched  *)
(* again after it.                                                         *)
(***************************************************************************)
OutOK ==
  out.st # "none" =>
    /\ Settled
    /\ \E f \in Formats, tid \in Source \cup {"none"} :
         out = Rendered(f, Chosen(tid), Exported(tid))

(***************************************************************************)
(* Together they are inductive. The promises follow from the state alone:  *)
(* from RelayOK and FetchOK what becomes of the exported nodes, from OutOK *)
(* what an export has in it.                                               *)
(***************************************************************************)
RelayInv == NetOK /\ FetchOK /\ path \in Seq(Formats) /\ RelayOK /\ OutOK

-----------------------------------------------------------------------------
(***************************************************************************)
(* The nodes of an instance.                                               *)
(***************************************************************************)
CachedNodes == UNION {ToSet(cache[s]) : s \in Sources}

(***************************************************************************)
(* They are well-formed.                                                   *)
(***************************************************************************)
LEMMA CachedOK ==
  ASSUME FetchOK
  PROVE  /\ \A n \in CachedNodes : NodeOK(n)
         /\ \A s \in Sources : cache[s] \in Seq(CachedNodes)
<1>1. ASSUME NEW s \in Sources
      PROVE  IsSeq(cache[s]) /\ \A n \in ToSet(cache[s]) : NodeOK(n)
  <2>1. NodesOK(cache[s])
    BY DEF FetchOK, SourceOK
  <2>2. QED
    BY <2>1 DEF NodesOK, ToSet
<1>2. ASSUME NEW s \in Sources PROVE cache[s] \in Seq(CachedNodes)
  <2>1. \A k \in DOMAIN cache[s] : cache[s][k] \in CachedNodes
    BY DEF CachedNodes, ToSet
  <2>2. QED
    BY <1>1, <2>1, SeqWithin
<1>3. QED
  BY <1>1, <1>2 DEF CachedNodes

(***************************************************************************)
(* The sources of an aggregation are the instance's sources, each with its *)
(* cached nodes.                                                           *)
(***************************************************************************)
LEMMA SourcesIn ==
  ASSUME NetOK, FetchOK
  PROVE  /\ SourceNodes \in Seq(SourceSet(CachedNodes))
         /\ \A i \in DOMAIN SourceNodes :
              /\ SourceNodes[i].id \in Sources
              /\ SourceNodes[i].nodes = cache[SourceNodes[i].id]
         /\ \A s \in Sources : \E i \in DOMAIN SourceNodes : SourceNodes[i].id = s
<1> DEFINE S == {k \in DOMAIN Order : Order[k] \in Sources}
           at == Places(Len(Order), S)
           C == CachedNodes
           T == SourceSet(C)
           ss == SourceNodes
<1>1. Order \in Seq(Words) /\ IsSeq(Order)
  BY RelayAssumption, IsSeqOf
<1>2. Len(Order) \in Nat /\ DOMAIN Order = 1..Len(Order)
  BY <1>1
<1>3. /\ at \in Seq(S \cap DOMAIN Order) /\ Len(at) \in Nat
      /\ Listed = [k \in 1..Len(at) |-> Order[at[k]]]
  <2>1. Listed = Picked(Order, S)
    BY DEF Listed
  <2> HIDE DEF S
  <2>2. /\ at \in Seq(S \cap DOMAIN Order)
        /\ Picked(Order, S) = [k \in 1..Len(at) |-> Order[at[k]]]
        /\ Len(at) \in Nat
    <3>1. IsSeq(Order)
      BY <1>1
    <3>2. QED
      BY <3>1, PickedAt, Zenon
  <2>3. QED
    BY <2>1, <2>2
<1>4. \A i \in S \cap (1..Len(Order)) : i \in ToSet(at)
  <2> HIDE DEF S
  <2>1. QED
    BY <1>2, PlacesAll
<1> HIDE DEF at
<1>5. DOMAIN at = 1..Len(at) /\ \A k \in 1..Len(at) : at[k] \in S
  BY <1>3
<1>6. /\ DOMAIN Listed = 1..Len(at)
      /\ \A k \in 1..Len(at) : Listed[k] = Order[at[k]] /\ Listed[k] \in Sources \cap Words
  BY <1>1, <1>3, <1>5
<1>7. ss = [k \in 1..Len(at) |-> [id |-> Listed[k], at |-> fetch[Listed[k]].at,
                                  nodes |-> cache[Listed[k]]]]
  BY <1>6 DEF SourceNodes
<1> HIDE DEF ss
<1>8. ASSUME NEW k \in 1..Len(at)
      PROVE  /\ ss[k] \in T
             /\ ss[k].id = Listed[k] /\ ss[k].id \in Sources /\ ss[k].nodes = cache[ss[k].id]
  <2>1. Listed[k] \in Sources \cap Words
    BY <1>6
  <2>2. fetch[Listed[k]].at \in Nat
    BY <2>1 DEF FetchOK, SourceOK
  <2>3. cache[Listed[k]] \in Seq(C)
    BY <2>1, CachedOK
  <2>4. ss[k] = [id |-> Listed[k], at |-> fetch[Listed[k]].at, nodes |-> cache[Listed[k]]]
    BY <1>7
  <2> HIDE DEF C
  <2>5. QED
    BY <2>1, <2>2, <2>3, <2>4 DEF SourceSet
<1> HIDE DEF T
<1>9. ss = [k \in 1..Len(at) |-> ss[k]]
  BY <1>7
<1>10. IsSeq(ss) /\ DOMAIN ss = 1..Len(at)
  BY <1>3, <1>9, SeqOver
<1>11. ss \in Seq(T)
  BY <1>8, <1>10, SeqWithin
<1>12. ASSUME NEW s \in Sources PROVE \E i \in DOMAIN ss : ss[i].id = s
  <2>1. PICK i \in DOMAIN Order : Order[i] = s
    BY DEF NetOK, Source, ToSet
  <2>2. i \in ToSet(at)
    BY <1>2, <1>4, <2>1
  <2>3. PICK k \in 1..Len(at) : at[k] = i
    BY <1>5, <2>2 DEF ToSet
  <2>4. QED
    BY <1>6, <1>8, <1>10, <2>1, <2>3
<1>13. QED
  BY <1>8, <1>10, <1>11, <1>12 DEF ss, T

(***************************************************************************)
(* A template is the one of a source of the instance.                      *)
(***************************************************************************)
LEMMA ChosenOK ==
  ASSUME FetchOK, NEW tid
  PROVE  /\ Chosen(tid) \in TemplateType
         /\ Chosen(tid).present =>
              /\ tid \in Sources
              /\ IF Chosen(tid).preserve THEN Chosen(tid).groups = net[tid].groups
                 ELSE Chosen(tid) \in OldTemplates
<1>1. NoTemplate \in TemplateType /\ ~NoTemplate.present
  BY DEF NoTemplate, TemplateType
<1>2. CASE tid \in Sources
  BY <1>2 DEF Chosen, FetchOK, SourceOK, TemplateOK
<1>3. CASE tid \notin Sources
  BY <1>1, <1>3 DEF Chosen
<1>4. QED
  BY <1>2, <1>3

(***************************************************************************)
(* The nodes of an export are cached nodes, under names that are distinct  *)
(* where NamesDistinct says so; a template's nodes are all among them.     *)
(***************************************************************************)
LEMMA ExportedOK ==
  ASSUME NetOK, FetchOK, NEW tid
  PROVE  LET x == Exported(tid) IN
           /\ x.nodes \in Seq(Renamings(CachedNodes))
           /\ x.appended \in Seq(Renamings(CachedNodes))
           /\ ToSet(x.appended) \subseteq ToSet(x.nodes)
           /\ Chosen(tid).present => ToSet(cache[tid]) \subseteq ToSet(x.nodes)
           /\ \A i, j \in DOMAIN x.nodes :
                i < j /\ x.nodes[i].name = x.nodes[j].name =>
                  \/ Numbers(CachedNodes, x.nodes[i].name)
                  \/ Chosen(tid).present /\ Twice(cache[tid], x.nodes[i].name)
<1> DEFINE C == CachedNodes
           x == Exported(tid)
           all == Plain(aggregate(SourceNodes))
           y == build_template_export_nodes(SourceNodes, tid)
<1>1. \A n \in C : NodeOK(n)
  BY CachedOK
<1>2. SourceNodes \in Seq(SourceSet(C))
  BY SourcesIn
<1>3. x = IF Chosen(tid).present THEN y ELSE [nodes |-> all, appended |-> all]
  BY DEF Exported
<1>4. CASE ~Chosen(tid).present
  <2>1. x.nodes = all /\ x.appended = all
    BY <1>3, <1>4
  <2> HIDE DEF C, x
  <2>2. /\ all \in Seq(Renamings(C))
        /\ \A i, j \in DOMAIN all : i < j /\ all[i].name = all[j].name => Numbers(C, all[i].name)
    BY <1>1, <1>2, Aggregated
  <2> HIDE DEF all
  <2>3. QED
    BY <1>4, <2>1, <2>2 DEF C, x
<1>5. CASE Chosen(tid).present
  <2>1. x = y
    BY <1>3, <1>5
  <2>2. tid \in Sources
    BY <1>5, ChosenOK
  <2>3. NodesFrom(SourceNodes, tid) = cache[tid]
    <3>1. \E i \in DOMAIN SourceNodes : SourceNodes[i].id = tid
      BY <2>2, SourcesIn
    <3>2. PICK i \in DOMAIN SourceNodes :
            SourceNodes[i].id = tid /\ NodesFrom(SourceNodes, tid) = SourceNodes[i].nodes
      <4> HIDE DEF C
      <4>1. QED
        BY <1>2, <3>1, FromSource
    <3>3. QED
      BY <3>2, SourcesIn
  <2> HIDE DEF C, y
  <2>4. LET t == NodesFrom(SourceNodes, tid) IN
          /\ y.nodes \in Seq(Renamings(C)) /\ y.appended \in Seq(Renamings(C))
          /\ ToSet(y.appended) \subseteq ToSet(y.nodes)
          /\ ToSet(t) \subseteq ToSet(y.nodes)
          /\ \A i, j \in DOMAIN y.nodes :
               i < j /\ y.nodes[i].name = y.nodes[j].name
                 => Numbers(C, y.nodes[i].name) \/ Twice(t, y.nodes[i].name)
    BY <1>1, <1>2, Templated, Zenon DEF y
  <2> HIDE DEF x
  <2>5. QED
    BY <1>5, <2>1, <2>3, <2>4 DEF C, x
<1>6. QED
  BY <1>4, <1>5

(***************************************************************************)
(* So the names in an export are distinct.                                 *)
(***************************************************************************)
LEMMA DistinctNames ==
  ASSUME NetOK, FetchOK, OutOK
  PROVE  NamesDistinct
<1> SUFFICES ASSUME out.st = "ok", NEW n \in ToSet(out.nodes), Twice(out.nodes, n.name)
             PROVE  \/ \E s \in Sources : template[s].present /\ Twice(cache[s], n.name)
                    \/ /\ Last(n.name[1]) = "I"
                       /\ \E s \in Sources : n.name \in ToSet(NamesOf(cache[s]))
  BY DEF NamesDistinct
<1>1. PICK f \in Formats, tid \in Source \cup {"none"} :
        out = Rendered(f, Chosen(tid), Exported(tid))
  BY DEF OutOK
<1> DEFINE x == Exported(tid)
<1>2. out.nodes = x.nodes
  BY <1>1 DEF Rendered, NoOut
<1>3. PICK i \in DOMAIN x.nodes : \E j \in DOMAIN x.nodes :
        i < j /\ x.nodes[i].name = n.name /\ x.nodes[j].name = n.name
  BY <1>2 DEF Twice
<1>4. \/ Numbers(CachedNodes, n.name)
      \/ Chosen(tid).present /\ Twice(cache[tid], n.name)
  BY <1>3, ExportedOK
<1>5. CASE Chosen(tid).present /\ Twice(cache[tid], n.name)
  <2>1. tid \in Sources
    BY <1>5, ChosenOK
  <2>2. QED
    BY <1>5, <2>1 DEF Chosen
<1>6. CASE Numbers(CachedNodes, n.name)
  <2>1. PICK s \in Sources : \E c \in ToSet(cache[s]) : n.name = c.name
    BY <1>6 DEF Numbers, CachedNodes
  <2>2. n.name \in ToSet(NamesOf(cache[s]))
    BY <2>1 DEF ToSet, NamesOf
  <2>3. QED
    BY <1>6, <2>2 DEF Numbers
<1>7. QED
  BY <1>4, <1>5, <1>6

(***************************************************************************)
(* The parts of an export that did not fail.                               *)
(***************************************************************************)
LEMMA Rendering ==
  ASSUME out.st = "ok", NEW f, NEW t, NEW x, out = Rendered(f, t, x)
  PROVE  /\ out.fmt = f /\ out.nodes = x.nodes /\ out.groups = Groups(f, t, x)
         /\ \A k \in DOMAIN x.nodes : Builds(f, x.nodes[k])
         /\ out.items = [k \in DOMAIN x.nodes |-> Built(f, x.nodes[k])]
         /\ f = "singbox" => out.builtins = build_builtin_outbounds(Groups(f, t, x))
<1>1. CASE \E k \in DOMAIN x.nodes : ~Builds(f, x.nodes[k])
  BY <1>1 DEF Rendered, NoOut
<1>2. CASE ~\E k \in DOMAIN x.nodes : ~Builds(f, x.nodes[k])
  <2>1. out = [st |-> "ok", fmt |-> f, nodes |-> x.nodes,
               items |-> [k \in DOMAIN x.nodes |-> Built(f, x.nodes[k])],
               groups |-> Groups(f, t, x),
               builtins |-> IF f = "singbox" THEN build_builtin_outbounds(Groups(f, t, x))
                            ELSE {}]
    BY <1>2 DEF Rendered
  <2>2. QED
    BY <1>2, <2>1
<1>3. QED
  BY <1>1, <1>2

(***************************************************************************)
(* normalize_policy_reference turns a policy into direct or block and      *)
(* leaves other members alone.                                             *)
(***************************************************************************)
LEMMA Normalised ==
  ASSUME NEW p
  PROVE  /\ is_builtin_policy(p) =>
               normalize_policy_reference(p) \in {Text("direct"), Text("block")}
         /\ ~is_builtin_policy(p) => normalize_policy_reference(p) = p
<1> DEFINE d == Text("DIRECT")
           r == Text("REJECT")
           e == Text("direct")
           b == Text("block")
<1>1. normalize_policy_reference(p) =
        CASE p \in {d, e} -> e [] p = r -> b [] OTHER -> p
  BY DEF normalize_policy_reference
<1>2. is_builtin_policy(p) <=> p \in {d, r, e}
  BY DEF is_builtin_policy
<1> HIDE DEF d, r, e, b
<1>3. CASE p \in {d, e}
  <2>1. normalize_policy_reference(p) \in {e, b}
    BY <1>1, <1>3
  <2>2. QED
    BY <1>2, <1>3, <2>1 DEF e, b
<1>4. CASE p = r /\ p \notin {d, e}
  <2>1. normalize_policy_reference(p) = b
    BY <1>1, <1>4
  <2>2. QED
    BY <1>2, <1>4, <2>1 DEF b
<1>5. CASE p \notin {d, r, e}
  <2>1. normalize_policy_reference(p) = p
    BY <1>1, <1>5
  <2>2. QED
    BY <1>2, <1>5, <2>1
<1>6. QED
  BY <1>3, <1>4, <1>5

(***************************************************************************)
(* Every member of an exported group is in the same configuration.         *)
(***************************************************************************)
LEMMA ResolvedGroups ==
  ASSUME NetOK, FetchOK, OutOK
  PROVE  GroupsResolve
<1> SUFFICES ASSUME out.st = "ok", NEW h \in ToSet(out.groups), NEW m \in ToSet(h.proxies)
             PROVE  \/ m \in ToSet(NamesOf(out.nodes)) \cup {k.name : k \in ToSet(out.groups)}
                    \/ m \in IF out.fmt = "clash" THEN {Text("DIRECT"), Text("REJECT")}
                             ELSE out.builtins
                    \/ \E s \in Sources : Dangles(s, m)
  BY DEF GroupsResolve
<1>1. PICK f \in Formats, tid \in Source \cup {"none"} :
        out = Rendered(f, Chosen(tid), Exported(tid))
  BY DEF OutOK
<1> DEFINE x == Exported(tid)
           t == Chosen(tid)
           gs == Groups(f, t, x)
           C == CachedNodes
<1>2. /\ out.fmt = f /\ out.nodes = x.nodes /\ out.groups = gs
      /\ f = "singbox" => out.builtins = build_builtin_outbounds(gs)
  <2>1. out = Rendered(f, t, x)
    BY <1>1
  <2> HIDE DEF t, x
  <2>2. /\ out.fmt = f /\ out.nodes = x.nodes /\ out.groups = Groups(f, t, x)
        /\ \A k \in DOMAIN x.nodes : Builds(f, x.nodes[k])
        /\ out.items = [k \in DOMAIN x.nodes |-> Built(f, x.nodes[k])]
        /\ f = "singbox" => out.builtins = build_builtin_outbounds(Groups(f, t, x))
    BY <2>1, Rendering, Zenon
  <2>3. QED
    BY <2>2
<1>3. /\ t \in TemplateType
      /\ t.present => /\ tid \in Sources
                      /\ IF t.preserve THEN t.groups = net[tid].groups ELSE t \in OldTemplates
  BY ChosenOK
<1>4. /\ x.nodes \in Seq(Renamings(C))
      /\ x.appended \in Seq(Renamings(C))
      /\ ToSet(x.appended) \subseteq ToSet(x.nodes)
      /\ t.present => ToSet(cache[tid]) \subseteq ToSet(x.nodes)
  BY ExportedOK
<1>5. \A n \in C : NodeOK(n)
  BY CachedOK
<1> HIDE DEF x, t, C
<1>6. \/ ToSet(h.proxies) \subseteq ToSet(NamesOf(x.nodes)) \cup GroupNamesOf(gs)
      \/ /\ t.present /\ f \in {"clash", "singbox"}
         /\ GroupNames(t) \subseteq GroupNamesOf(gs)
         /\ \E g \in ToSet(t.groups) :
              ToSet(h.proxies) \subseteq Members(t, g, x, f = "singbox")
  <2> DEFINE good(k) ==
               \/ ToSet(k.proxies) \subseteq ToSet(NamesOf(x.nodes)) \cup GroupNamesOf(gs)
               \/ /\ t.present /\ f \in {"clash", "singbox"}
                  /\ GroupNames(t) \subseteq GroupNamesOf(gs)
                  /\ \E g \in ToSet(t.groups) :
                       ToSet(k.proxies) \subseteq Members(t, g, x, f = "singbox")
  <2>1. \A k \in ToSet(gs) : good(k)
    BY <1>3, <1>4, <1>5, GroupsOf
  <2>2. good(h)
    BY <1>2, <2>1
  <2>3. QED
    BY <2>2
<1> HIDE DEF gs
<1>7. CASE ToSet(h.proxies) \subseteq ToSet(NamesOf(x.nodes)) \cup GroupNamesOf(gs)
  BY <1>2, <1>7 DEF GroupNamesOf
<1>8. ASSUME t.present, f \in {"clash", "singbox"}, GroupNames(t) \subseteq GroupNamesOf(gs),
             NEW g \in ToSet(t.groups), NEW p \in ToSet(g.proxies),
             m = Policy(f = "singbox", p), t.preserve \/ ~Lists(t, p)
      PROVE  \/ m \in ToSet(NamesOf(x.nodes)) \cup GroupNamesOf(gs)
             \/ m \in IF f = "clash" THEN {Text("DIRECT"), Text("REJECT")} ELSE out.builtins
             \/ \E s \in Sources : Dangles(s, m)
  <2>1. CASE m = p /\ t.preserve
    <3>1. tid \in Sources /\ t.groups = net[tid].groups
      BY <1>3, <1>8, <2>1
    <3>2. CASE m \in ToSet(NamesOf(cache[tid]))
      <4>1. PICK i \in DOMAIN cache[tid] : m = cache[tid][i].name
        BY <3>2 DEF ToSet, NamesOf
      <4>2. cache[tid][i] \in ToSet(x.nodes)
        BY <1>4, <1>8 DEF ToSet
      <4>3. QED
        BY <4>1, <4>2 DEF ToSet, NamesOf
    <3>3. CASE m \notin ToSet(NamesOf(cache[tid]))
      BY <1>8, <2>1, <3>1, <3>3 DEF Dangles
    <3>4. QED
      BY <3>2, <3>3
  <2>2. CASE m = p /\ ~t.preserve /\ p \in GroupNames(t)
    BY <1>8, <2>2
  <2>3. CASE f = "clash" /\ m = p /\ ~t.preserve /\ is_builtin_policy(p)
    <3>1. t \in OldTemplates
      BY <1>3, <1>8, <2>3
    <3>2. p # Text("direct")
      BY <1>8, <3>1, TemplateAssumption
    <3>3. p \in {Text("DIRECT"), Text("REJECT")}
      BY <2>3, <3>2 DEF is_builtin_policy
    <3>4. QED
      BY <2>3, <3>3
  <2>4. CASE f = "singbox" /\ m \in {Text("direct"), Text("block")}
    <3>1. \E i \in DOMAIN gs : m \in ToSet(gs[i].proxies)
      BY <1>2 DEF ToSet
    <3>2. m \in out.builtins
      BY <1>2, <2>4, <3>1 DEF build_builtin_outbounds
    <3>3. f # "clash"
      BY <2>4
    <3>4. QED
      BY <3>2, <3>3
  <2>5. CASE f = "clash"
    <3>1. m = p
      BY <1>8, <2>5 DEF Policy
    <3>2. t.preserve \/ p \in GroupNames(t) \/ is_builtin_policy(p)
      BY <1>8 DEF Lists
    <3>3. QED
      BY <2>1, <2>2, <2>3, <2>5, <3>1, <3>2
  <2>6. CASE f = "singbox"
    <3>1. m = normalize_policy_reference(p)
      BY <1>8, <2>6 DEF Policy
    <3>2. CASE is_builtin_policy(p)
      BY <2>4, <2>6, <3>1, <3>2, Normalised
    <3>3. CASE ~is_builtin_policy(p)
      <4>1. m = p
        BY <3>1, <3>3, Normalised
      <4>2. t.preserve \/ p \in GroupNames(t)
        BY <1>8, <3>3 DEF Lists
      <4>3. QED
        BY <2>1, <2>2, <4>1, <4>2
    <3>4. QED
      BY <3>2, <3>3
  <2>7. QED
    BY <1>8, <2>5, <2>6
<1>9. CASE /\ t.present /\ f \in {"clash", "singbox"}
           /\ GroupNames(t) \subseteq GroupNamesOf(gs)
           /\ \E g \in ToSet(t.groups) :
                ToSet(h.proxies) \subseteq Members(t, g, x, f = "singbox")
  <2>1. PICK g \in ToSet(t.groups) : m \in Members(t, g, x, f = "singbox")
    BY <1>9
  <2>2. \/ m \in ToSet(NamesOf(x.nodes))
        \/ \E p \in ToSet(g.proxies) :
             m = Policy(f = "singbox", p) /\ (t.preserve \/ ~Lists(t, p))
    BY <2>1 DEF Members
  <2>3. QED
    BY <1>2, <1>8, <1>9, <2>2 DEF GroupNamesOf
<1>10. QED
  BY <1>6, <1>7, <1>9

(***************************************************************************)
(* The exported nodes that the next instance's parsers do not skip.        *)
(***************************************************************************)
Sent == Picked(was, {k \in DOMAIN was : ~Skipped(Via, was[k])})

(***************************************************************************)
(* They are what it has, in order, each one kept.                          *)
(***************************************************************************)
LEMMA Arrived ==
  ASSUME NetOK, FetchOK, RelayOK, Relayed
  PROVE  /\ Len(Got) = Len(Sent)
         /\ \A k \in DOMAIN Got : /\ Kept(Via, Sent[k], Got[k])
                                  /\ \E j \in DOMAIN was : Sent[k] = was[j]
<1> DEFINE S == {k \in DOMAIN was : ~Skipped(Via, was[k])}
           p == net["s1"]
           items == p.items
           Q == {k \in DOMAIN items : ItemParses(p.fmt, items[k])}
           at == Places(Len(was), S)
           good == Picked(items, Q)
           f == Via
           got == Got
<1>1. /\ path # <<>> /\ fetch["s1"].st = "done" /\ "s1" \in Sources /\ f \in Formats
      /\ p.fmt = f /\ p.flaky = FALSE
      /\ items = [k \in DOMAIN was |-> Built(f, was[k])]
      /\ IsSeq(was) /\ \A k \in DOMAIN was : NodeOK(was[k]) /\ Builds(f, was[k])
  BY DEF RelayOK, Relayed, NodesOK
<1>2. got = parse_nodes(p) /\ PayloadParses(p)
  <2>1. Content(p, fetch["s1"]) = p
    BY <1>1 DEF FetchOK, SourceOK, Content
  <2>2. QED
    BY <1>1, <2>1 DEF FetchOK, SourceOK, Got
<1>3. got = [k \in DOMAIN good |-> ItemNode(f, good[k])]
  <2>1. PayloadOK(p)
    BY <1>1 DEF NetOK
  <2>2. parse_nodes(p) = [k \in DOMAIN good |-> ItemNode(p.fmt, good[k])]
    <3> HIDE DEF p
    <3>1. QED
      BY <2>1, ReadItems
  <2> HIDE DEF p, f, got, good
  <2>3. p.fmt = f
    BY <1>1
  <2>4. QED
    BY <1>2, <2>2, <2>3
<1>4. f = "singbox" => \A k \in DOMAIN items : SingboxParses(items[k])
  BY <1>1, <1>2 DEF PayloadParses
<1> HIDE DEF p, f, got
<1>5. ASSUME NEW k \in DOMAIN was
      PROVE  /\ items[k] = Built(f, was[k])
             /\ k \in Q <=> k \in S
             /\ k \in Q => Kept(f, was[k], ItemNode(f, items[k]))
  <2>1. items[k] = Built(f, was[k]) /\ k \in DOMAIN items
    BY <1>1
  <2> DEFINE w == was[k]
  <2>2. NodeOK(w) /\ Builds(f, w)
    BY <1>1
  <2> HIDE DEF items, w
  <2>3. /\ f # "singbox" => (ItemParses(f, Built(f, w)) <=> ~Skipped(f, w))
        /\ f = "singbox" => ~Skipped(f, w)
        /\ ItemParses(f, Built(f, w)) => Kept(f, w, ItemNode(f, Built(f, w)))
    BY <1>1, <2>2, RoundTrip
  <2>4. f = "singbox" => ItemParses(f, items[k])
    BY <1>4, <2>1 DEF ItemParses
  <2>5. k \in Q <=> ItemParses(f, Built(f, w))
    BY <1>1, <2>1 DEF w
  <2>6. k \in S <=> ~Skipped(f, w)
    BY DEF f, w
  <2> HIDE DEF Q, S
  <2>7. QED
    BY <2>1, <2>3, <2>4, <2>5, <2>6 DEF w
<1>6. DOMAIN items = DOMAIN was
  BY <1>1
<1>7. Q = S
  BY <1>5, <1>6
<1>8. Len(was) \in Nat /\ DOMAIN was = 1..Len(was)
  BY <1>1, IsSeqIn
<1>9. IsSeq(items) /\ Len(items) = Len(was)
  <2>1. items = [k \in 1..Len(was) |-> items[k]]
    BY <1>1, <1>8
  <2> HIDE DEF items
  <2>2. QED
    BY <1>8, <2>1, SeqOver
<1> HIDE DEF items, Q, S
<1>10. /\ at \in Seq(S \cap DOMAIN was)
       /\ Picked(was, S) = [k \in 1..Len(at) |-> was[at[k]]]
       /\ Len(at) \in Nat
  <2>1. IsSeq(was)
    BY <1>1
  <2>2. QED
    BY <2>1, PickedAt, Zenon
<1>11. good = [k \in 1..Len(at) |-> items[at[k]]]
  <2>1. LET a == Places(Len(items), Q) IN
          /\ a \in Seq(Q \cap DOMAIN items)
          /\ Picked(items, Q) = [k \in 1..Len(a) |-> items[a[k]]]
          /\ Len(a) \in Nat
    BY <1>9, PickedAt, Zenon
  <2>2. QED
    BY <1>7, <1>9, <2>1
<1> HIDE DEF good, at
<1>12. \A k \in 1..Len(at) : at[k] \in S \cap DOMAIN was
  BY <1>10
<1>13. Picked(was, S) = Sent
  BY DEF Sent, S
<1>14. /\ DOMAIN got = 1..Len(at) /\ got = [k \in 1..Len(at) |-> ItemNode(f, items[at[k]])]
       /\ DOMAIN Sent = 1..Len(at) /\ Sent = [k \in 1..Len(at) |-> was[at[k]]]
  BY <1>3, <1>10, <1>11, <1>13
<1>15. Len(got) = Len(at) /\ Len(Sent) = Len(at)
  <2>1. got = [k \in 1..Len(at) |-> got[k]] /\ Sent = [k \in 1..Len(at) |-> Sent[k]]
    BY <1>14
  <2>2. QED
    BY <1>10, <2>1, SeqOver
<1>16. ASSUME NEW k \in 1..Len(at)
       PROVE  Kept(f, Sent[k], got[k]) /\ \E j \in DOMAIN was : Sent[k] = was[j]
  <2>1. at[k] \in S /\ at[k] \in DOMAIN was
    BY <1>12
  <2>2. Sent[k] = was[at[k]] /\ got[k] = ItemNode(f, items[at[k]])
    BY <1>14
  <2>3. Kept(f, was[at[k]], ItemNode(f, items[at[k]]))
    BY <1>5, <1>7, <2>1
  <2>4. QED
    BY <2>1, <2>2, <2>3
<1>17. QED
  BY <1>14, <1>15, <1>16 DEF f, got

(***************************************************************************)
(* So none is lost or added, no TLS is dropped, and the credentials are    *)
(* kept.                                                                   *)
(***************************************************************************)
LEMMA KeptNodes ==
  ASSUME NetOK, FetchOK, RelayOK
  PROVE  NodesKept /\ TlsNeverDropped /\ CredentialsKept
<1>1. NodesKept
  BY Arrived DEF NodesKept, Sent, Kept
<1>2. TlsNeverDropped
  <2>1. SUFFICES ASSUME Relayed, NEW k \in DOMAIN Got
                 PROVE  \E j \in DOMAIN was : SameNode(was[j], Got[k]) /\ (was[j].tls => Got[k].tls)
    BY DEF TlsNeverDropped
  <2>2. QED
    BY <2>1, Arrived DEF Kept
<1>3. CredentialsKept
  <2>1. SUFFICES ASSUME Relayed, NEW k \in DOMAIN Got
                 PROVE  \E j \in DOMAIN was :
                           SameNode(was[j], Got[k]) /\ Credible(Via, was[j], Got[k])
    BY DEF CredentialsKept
  <2>2. QED
    BY <2>1, Arrived DEF Kept
<1>4. QED
  BY <1>1, <1>2, <1>3

-----------------------------------------------------------------------------
(***************************************************************************)
(* No template is a template of any payload.                               *)
(***************************************************************************)
LEMMA NoTemplateOK ==
  ASSUME NEW p
  PROVE  NoTemplate \in TemplateType /\ TemplateOK(p, NoTemplate)
  BY DEF NoTemplate, TemplateType, TemplateOK

(***************************************************************************)
(* A source before its fetch.                                              *)
(***************************************************************************)
LEMMA Fresh ==
  ASSUME NEW p, NEW t \in {NoTemplate} \cup OldTemplates
  PROVE  SourceOK(p, Todo, <<>>, t)
<1>1. TemplateOK(p, t)
  BY NoTemplateOK, TemplateAssumption DEF TemplateOK
<1>2. NodesOK(<<>>)
  <2>1. <<>> = [k \in 1..0 |-> <<>>[k]] /\ DOMAIN <<>> = {}
    OBVIOUS
  <2>2. IsSeq(<<>>)
    BY DEF IsSeq
  <2>3. QED
    BY <2>1, <2>2 DEF NodesOK
<1>3. DOMAIN Todo = FetchFields /\ Todo.at = 0 /\ Todo.st = "todo" /\ Todo.answer = NoAnswer
  BY DEF Todo, FetchFields
<1>4. NoAnswer.junk = FALSE
  BY DEF NoAnswer
<1>5. QED
  BY <1>1, <1>2, <1>3, <1>4 DEF SourceOK

(***************************************************************************)
(* Only a server that misbehaves sends junk.                               *)
(***************************************************************************)
LEMMA Requested ==
  ASSUME NEW s \in Sources, NEW a \in Answers(s)
  PROVE  a.junk => net[s].flaky
<1>1. CASE net[s].flaky
  BY <1>1
<1>2. CASE ~net[s].flaky
  <2>1. a = GoodAnswer
    BY <1>2 DEF Answers
  <2>2. a.junk = FALSE
    BY <2>1 DEF GoodAnswer, NoAnswer
  <2>3. QED
    BY <2>2
<1>3. QED
  BY <1>1, <1>2

(***************************************************************************)
(* The nodes and the template of a body.                                   *)
(***************************************************************************)
LEMMA ContentOK ==
  ASSUME NEW p, PayloadOK(p), NEW f
  PROVE  /\ NodesOK(parse_nodes(Content(p, f)))
         /\ TemplateOK(p, parse_routing_payload(Content(p, f)))
<1>1. PayloadOK(Junk)
  <2>1. Junk.fmt = "ini" /\ Junk.items = <<>> /\ Junk.groups = <<>> /\ Junk.flaky = FALSE
    BY DEF Junk
  <2>2. IsSeq(<<>>) /\ DOMAIN <<>> = {} /\ <<>> \in Seq(GroupType)
    BY DEF IsSeq
  <2>3. QED
    BY <2>1, <2>2 DEF PayloadOK, PayloadFormats
<1>2. PayloadOK(Content(p, f))
  BY <1>1 DEF Content
<1>3. NodesOK(parse_nodes(Content(p, f)))
  BY <1>2, ParsedNodes
<1>4. CASE f.answer.junk
  <2>1. parse_routing_payload(Content(p, f)) = NoTemplate
    BY <1>4 DEF Content, parse_routing_payload, Junk
  <2>2. QED
    BY <1>3, <2>1, NoTemplateOK
<1>5. CASE ~f.answer.junk
  <2>1. Content(p, f) = p
    BY <1>5 DEF Content
  <2>2. p.groups \in Seq(GroupType)
    BY DEF PayloadOK
  <2>3. TemplateOK(p, into_clash_template(p.groups))
    BY <2>2 DEF TemplateOK, TemplateType, into_clash_template
  <2>4. TemplateOK(p, parse_routing_payload(p))
    BY <2>3, NoTemplateOK, Zenon DEF parse_routing_payload
  <2>5. QED
    BY <1>3, <2>1, <2>4
<1>6. QED
  BY <1>4, <1>5

(***************************************************************************)
(* A fetch that goes on, and one whose body is stored.                     *)
(***************************************************************************)
LEMMA Changed ==
  ASSUME NEW p, PayloadOK(p), NEW f, NEW c, NEW t, SourceOK(p, f, c, t), NEW g,
         DOMAIN g = FetchFields, g.at \in Nat
  PROVE  /\ (g.answer.junk => p.flaky) /\ g.st # "done" => SourceOK(p, g, c, t)
         /\ g.answer = f.answer /\ PayloadParses(Content(p, f)) =>
              SourceOK(p, g, parse_nodes(Content(p, f)), parse_routing_payload(Content(p, f)))
<1>1. (g.answer.junk => p.flaky) /\ g.st # "done" => SourceOK(p, g, c, t)
  BY DEF SourceOK
<1>2. ASSUME g.answer = f.answer, PayloadParses(Content(p, f))
      PROVE  SourceOK(p, g, parse_nodes(Content(p, f)), parse_routing_payload(Content(p, f)))
  <2>1. Content(p, g) = Content(p, f)
    BY <1>2 DEF Content
  <2>2. g.answer.junk => p.flaky
    BY <1>2 DEF SourceOK
  <2>3. QED
    BY <1>2, <2>1, <2>2, ContentOK DEF SourceOK
<1>3. QED
  BY <1>1, <1>2

(***************************************************************************)
(* An export stays what it is while the caches and templates do.           *)
(***************************************************************************)
LEMMA OutStays ==
  ASSUME OutOK, UNCHANGED <<net, fetch, cache, template, out>>
  PROVE  OutOK'
<1>1. out'.st # "none" => out.st # "none"
  OBVIOUS
<1>2. Settled' <=> Settled
  BY DEF Settled, Sources
<1>3. SourceNodes' = SourceNodes
  BY DEF SourceNodes, Listed, Sources
<1>4. \A tid : Chosen(tid)' = Chosen(tid)
  BY DEF Chosen, Sources
<1>5. \A tid : Exported(tid)' = Exported(tid)
  BY <1>3, <1>4 DEF Exported
<1>6. QED
  BY <1>1, <1>2, <1>4, <1>5 DEF OutOK

(***************************************************************************)
(* What the sources serve does not change under an instance.               *)
(***************************************************************************)
LEMMA RelayStays ==
  ASSUME RelayOK, NetOK, path \in Seq(Formats), UNCHANGED <<net, was, path>>
  PROVE  RelayOK' /\ NetOK' /\ path' \in Seq(Formats)
  BY DEF RelayOK, NetOK, Sources, Via

(***************************************************************************)
(* A step of one source's fetch leaves the other sources alone.            *)
(***************************************************************************)
LEMMA Fetched ==
  ASSUME NetOK, FetchOK, NEW s \in Sources, UNCHANGED net, NEW g,
         fetch' = [fetch EXCEPT ![s] = g],
         \A r \in Sources \ {s} : cache'[r] = cache[r] /\ template'[r] = template[r],
         DOMAIN cache' = DOMAIN cache, DOMAIN template' = DOMAIN template,
         SourceOK(net[s], g, cache'[s], template'[s])
  PROVE  FetchOK'
<1>1. Sources' = Sources /\ DOMAIN fetch' = Sources
  BY DEF FetchOK, Sources
<1>2. fetch'[s] = g /\ \A r \in Sources \ {s} : fetch'[r] = fetch[r]
  BY DEF FetchOK
<1>3. ASSUME NEW r \in Sources PROVE SourceOK(net[r], fetch'[r], cache'[r], template'[r])
  <2>1. CASE r = s
    BY <1>2, <2>1
  <2>2. CASE r # s
    <3>1. /\ fetch'[r] = fetch[r] /\ cache'[r] = cache[r] /\ template'[r] = template[r]
          /\ SourceOK(net[r], fetch[r], cache[r], template[r])
      BY <1>2, <2>2 DEF FetchOK
    <3>2. QED
      BY <3>1
  <2>3. QED
    BY <2>1, <2>2
<1>4. QED
  BY <1>1, <1>3 DEF FetchOK

(***************************************************************************)
(* A request keeps the invariant; it comes before the export.              *)
(***************************************************************************)
LEMMA RequestStep ==
  ASSUME RelayInv, NEW s \in Sources, Request(s)
  PROVE  RelayInv'
<1>1. UNCHANGED <<net, profile, cache, template, out, was, path>>
      /\ fetch[s].st \in {"todo", "backoff"}
  BY DEF Request
<1>2. PICK a \in Answers(s) :
        fetch' = [fetch EXCEPT ![s] = [fetch[s] EXCEPT
          !.answer = a,
          !.st = CASE a.status = 200 -> "answered"
                   [] a.status # 200 /\ is_retryable_status(a.status)
                        /\ fetch[s].tries < max_retries -> "backoff"
                   [] OTHER -> "failed",
          !.tries = IF a.status # 200 /\ is_retryable_status(a.status)
                         /\ @ < max_retries THEN @ + 1 ELSE @]]
  BY Zenon DEF Request, Set
<1>3. SourceOK(net[s], fetch[s], cache[s], template[s]) /\ PayloadOK(net[s])
  BY DEF RelayInv, FetchOK, NetOK
<1>4. PICK st \in {"answered", "backoff", "failed"} : \E k :
        fetch' = [fetch EXCEPT ![s] = [fetch[s] EXCEPT !.answer = a, !.st = st, !.tries = k]]
  <2> DEFINE st == CASE a.status = 200 -> "answered"
                     [] a.status # 200 /\ is_retryable_status(a.status)
                          /\ fetch[s].tries < max_retries -> "backoff"
                     [] OTHER -> "failed"
             k == IF a.status # 200 /\ is_retryable_status(a.status)
                         /\ fetch[s].tries < max_retries THEN fetch[s].tries + 1
                  ELSE fetch[s].tries
  <2>1. st \in {"answered", "backoff", "failed"}
    OBVIOUS
  <2>2. fetch' = [fetch EXCEPT ![s] = [fetch[s] EXCEPT !.answer = a, !.st = st, !.tries = k]]
    BY <1>2
  <2> HIDE DEF st, k
  <2>3. QED
    BY <2>1, <2>2
<1>5. PICK k :
        fetch' = [fetch EXCEPT ![s] = [fetch[s] EXCEPT !.answer = a, !.st = st, !.tries = k]]
  BY <1>4
<1> DEFINE g == [fetch[s] EXCEPT !.answer = a, !.st = st, !.tries = k]
<1>6. DOMAIN g = FetchFields /\ g.at \in Nat /\ g.answer = a /\ g.st = st
  BY <1>3 DEF SourceOK, FetchFields
<1>7. fetch' = [fetch EXCEPT ![s] = g]
  BY <1>5
<1> HIDE DEF g
<1>8. SourceOK(net[s], g, cache[s], template[s])
  <2>1. a.junk => net[s].flaky
    BY Requested
  <2>2. g.st # "done" /\ (g.answer.junk => net[s].flaky)
    BY <1>6, <2>1
  <2>3. QED
    BY <1>3, <1>6, <2>2, Changed
<1>9. FetchOK'
  BY <1>1, <1>7, <1>8, Fetched DEF RelayInv
<1>10. OutOK'
  <2>1. ~Settled
    BY <1>1 DEF Settled
  <2>2. out.st = "none"
    BY <2>1 DEF RelayInv, OutOK
  <2>3. QED
    BY <1>1, <2>2 DEF OutOK
<1>11. QED
  BY <1>1, <1>9, <1>10, RelayStays DEF RelayInv

(***************************************************************************)
(* So does storing a body, which replaces the cache and the template.      *)
(***************************************************************************)
LEMMA StoreStep ==
  ASSUME RelayInv, NEW s \in Sources, Store(s)
  PROVE  RelayInv'
<1> DEFINE d == Cardinality({r \in Sources : fetch[r].st = "done"})
           g == [fetch[s] EXCEPT !.st = "done", !.at = d]
<1>1. /\ UNCHANGED <<net, profile, out, was, path>> /\ fetch[s].st = "answered"
      /\ PayloadParses(Body(s))
      /\ template' = [template EXCEPT ![s] = parse_routing_payload(Body(s))]
      /\ cache' = [cache EXCEPT ![s] = parse_nodes(Body(s))]
      /\ fetch' = [fetch EXCEPT ![s] = g]
  BY DEF Store, Set
<1>2. SourceOK(net[s], fetch[s], cache[s], template[s]) /\ PayloadOK(net[s])
  BY DEF RelayInv, FetchOK, NetOK
<1>3. Body(s) = Content(net[s], fetch[s])
  BY DEF Body, Content
<1>4. d \in Nat
  <2>1. Order \in Seq(Words)
    BY RelayAssumption
  <2>2. Len(Order) \in Nat /\ Source = {Order[i] : i \in 1..Len(Order)}
    BY <2>1 DEF Source, ToSet
  <2>3. IsFiniteSet(Source)
    BY <2>2, RangeFinite
  <2>4. {r \in Sources : fetch[r].st = "done"} \subseteq Source
    BY DEF RelayInv, NetOK
  <2>5. QED
    BY <2>3, <2>4, FS_Subset, FS_CardinalityType
<1> HIDE DEF d
<1>5. DOMAIN g = FetchFields /\ g.at \in Nat /\ g.answer = fetch[s].answer
  BY <1>2, <1>4 DEF SourceOK, FetchFields
<1> HIDE DEF g
<1>6. SourceOK(net[s], g, parse_nodes(Body(s)), parse_routing_payload(Body(s)))
  BY <1>1, <1>2, <1>3, <1>5, Changed
<1>7. /\ DOMAIN cache' = DOMAIN cache /\ DOMAIN template' = DOMAIN template
      /\ cache'[s] = parse_nodes(Body(s)) /\ template'[s] = parse_routing_payload(Body(s))
      /\ \A r \in Sources \ {s} : cache'[r] = cache[r] /\ template'[r] = template[r]
  BY <1>1 DEF RelayInv, FetchOK
<1>8. FetchOK'
  BY <1>1, <1>6, <1>7, Fetched DEF RelayInv
<1>9. OutOK'
  <2>1. ~Settled
    BY <1>1 DEF Settled
  <2>2. out.st = "none"
    BY <2>1 DEF RelayInv, OutOK
  <2>3. QED
    BY <1>1, <2>2 DEF OutOK
<1>10. QED
  BY <1>1, <1>8, <1>9, RelayStays DEF RelayInv

(***************************************************************************)
(* So does rejecting one, which replaces neither.                          *)
(***************************************************************************)
LEMMA RejectStep ==
  ASSUME RelayInv, NEW s \in Sources, Reject(s)
  PROVE  RelayInv'
<1> DEFINE g == [fetch[s] EXCEPT !.st = "failed"]
<1>1. /\ UNCHANGED <<net, profile, cache, template, out, was, path>>
      /\ fetch[s].st = "answered" /\ fetch' = [fetch EXCEPT ![s] = g]
  BY DEF Reject, Set
<1>2. SourceOK(net[s], fetch[s], cache[s], template[s]) /\ PayloadOK(net[s])
  BY DEF RelayInv, FetchOK, NetOK
<1>3. /\ DOMAIN g = FetchFields /\ g.at \in Nat /\ g.answer = fetch[s].answer
      /\ g.st = "failed"
  BY <1>2 DEF SourceOK, FetchFields
<1> HIDE DEF g
<1>4. SourceOK(net[s], g, cache[s], template[s])
  <2>1. g.answer.junk => net[s].flaky
    BY <1>2, <1>3 DEF SourceOK
  <2>2. QED
    BY <1>2, <1>3, <2>1, Changed
<1>5. FetchOK'
  BY <1>1, <1>4, Fetched DEF RelayInv
<1>6. OutOK'
  <2>1. ~Settled
    BY <1>1 DEF Settled
  <2>2. out.st = "none"
    BY <2>1 DEF RelayInv, OutOK
  <2>3. QED
    BY <1>1, <2>2 DEF OutOK
<1>7. QED
  BY <1>1, <1>5, <1>6, RelayStays DEF RelayInv

(***************************************************************************)
(* So does an export.                                                      *)
(***************************************************************************)
LEMMA ExportStep ==
  ASSUME RelayInv, NEW f \in Formats, NEW tid \in Source \cup {"none"}, Export(f, tid)
  PROVE  RelayInv'
<1>1. /\ UNCHANGED <<net, profile, fetch, cache, template, was, path>> /\ Settled
      /\ out' = Rendered(f, Chosen(tid), Exported(tid))
  BY Zenon DEF Export, Chosen, Exported
<1>2. FetchOK'
  BY <1>1 DEF RelayInv, FetchOK, Sources
<1>3. OutOK'
  <2>1. Settled'
    BY <1>1 DEF Settled, Sources
  <2>2. SourceNodes' = SourceNodes
    BY <1>1 DEF SourceNodes, Listed, Sources
  <2>3. Chosen(tid)' = Chosen(tid)
    BY <1>1 DEF Chosen, Sources
  <2>4. Exported(tid)' = Exported(tid)
    BY <2>2, <2>3 DEF Exported
  <2>5. QED
    BY <1>1, <2>1, <2>3, <2>4 DEF OutOK
<1>4. QED
  BY <1>1, <1>2, <1>3, RelayStays DEF RelayInv

(***************************************************************************)
(* What an export serves is a well-formed payload of well-formed nodes.    *)
(***************************************************************************)
LEMMA Served ==
  ASSUME RelayInv, out.st = "ok", NEW q,
         q = [fmt |-> out.fmt, items |-> out.items, groups |-> out.groups, flaky |-> FALSE]
  PROVE  /\ out.fmt \in Formats /\ PayloadOK(q)
         /\ NodesOK(out.nodes) /\ \A k \in DOMAIN out.nodes : Builds(out.fmt, out.nodes[k])
         /\ out.items = [k \in DOMAIN out.nodes |-> Built(out.fmt, out.nodes[k])]
<1>1. PICK f \in Formats, tid \in Source \cup {"none"} :
        out = Rendered(f, Chosen(tid), Exported(tid))
  BY DEF RelayInv, OutOK
<1> DEFINE x == Exported(tid)
           t == Chosen(tid)
           C == CachedNodes
           ns == out.nodes
           items == out.items
<1>2. out = Rendered(f, t, x)
  BY <1>1
<1>3. /\ t \in TemplateType
      /\ x.nodes \in Seq(Renamings(C)) /\ x.appended \in Seq(Renamings(C))
      /\ ToSet(x.appended) \subseteq ToSet(x.nodes)
      /\ \A n \in C : NodeOK(n)
  BY ChosenOK, ExportedOK, CachedOK DEF RelayInv
<1> HIDE DEF x, t, C
<1>4. /\ out.fmt = f /\ out.nodes = x.nodes /\ out.groups = Groups(f, t, x)
      /\ \A k \in DOMAIN x.nodes : Builds(f, x.nodes[k])
      /\ out.items = [k \in DOMAIN x.nodes |-> Built(f, x.nodes[k])]
      /\ f = "singbox" => out.builtins = build_builtin_outbounds(Groups(f, t, x))
  BY <1>2, Rendering, Zenon
<1>5. out.groups \in Seq(GroupType)
  <2>1. Groups(f, t, x) \in Seq(GroupType)
    BY <1>3, GroupsOf
  <2>2. QED
    BY <1>4, <2>1
<1>6. IsSeq(ns) /\ \A k \in DOMAIN ns : NodeOK(ns[k])
  <2>1. IsSeq(x.nodes) /\ ToSet(x.nodes) \subseteq Renamings(C)
    BY <1>3, IsSeqOf
  <2>2. \A k \in DOMAIN x.nodes : x.nodes[k] \in Renamings(C)
    BY <2>1 DEF ToSet
  <2>3. QED
    BY <1>3, <1>4, <2>1, <2>2, RenamedOK
<1>7. /\ \A k \in DOMAIN ns : Builds(f, ns[k])
      /\ items = [k \in DOMAIN ns |-> Built(f, ns[k])]
  BY <1>4
<1> HIDE DEF ns, items
<1>8. Len(ns) \in Nat /\ DOMAIN ns = 1..Len(ns)
  BY <1>6, IsSeqIn
<1>9. IsSeq(items) /\ DOMAIN items = DOMAIN ns
  <2>1. items = [k \in 1..Len(ns) |-> items[k]]
    BY <1>7, <1>8
  <2>2. QED
    BY <1>8, <2>1, SeqOver
<1>10. \A k \in DOMAIN items : ItemsOK(f, items[k])
  BY <1>6, <1>7, <1>9, RoundTrip
<1>11. f \in PayloadFormats
  BY DEF Formats, PayloadFormats
<1>12. /\ q.fmt = f /\ q.items = items /\ q.groups = out.groups /\ q.flaky = FALSE
  BY <1>4 DEF items
<1>13. PayloadOK(q)
  BY <1>5, <1>9, <1>10, <1>11, <1>12 DEF PayloadOK, ItemsOK
<1>14. QED
  BY <1>4, <1>6, <1>7, <1>13 DEF NodesOK, ns, items

(***************************************************************************)
(* So the next instance starts with the invariant again.                   *)
(***************************************************************************)
LEMMA SubscribeStep ==
  ASSUME RelayInv, Subscribe
  PROVE  RelayInv'
<1> DEFINE q == [fmt |-> out.fmt, items |-> out.items, groups |-> out.groups, flaky |-> FALSE]
<1>1. /\ out.st = "ok"
      /\ fetch' = [s \in DOMAIN net' |-> Todo] /\ cache' = [s \in DOMAIN net' |-> <<>>]
      /\ template' = [s \in DOMAIN net' |-> NoTemplate]
      /\ out' = NoOut /\ was' = out.nodes /\ path' = Append(path, out.fmt)
  BY DEF Subscribe
<1>2. PICK own \in Joining : net' = own ?? [s1 |-> q]
  BY DEF Subscribe
<1>3. /\ out.fmt \in Formats /\ PayloadOK(q)
      /\ NodesOK(out.nodes) /\ \A k \in DOMAIN out.nodes : Builds(out.fmt, out.nodes[k])
      /\ out.items = [k \in DOMAIN out.nodes |-> Built(out.fmt, out.nodes[k])]
  BY <1>1, Served
<1>4. /\ q.fmt = out.fmt /\ q.items = out.items /\ q.flaky = FALSE
  OBVIOUS
<1> HIDE DEF q
<1>5. /\ DOMAIN net' = DOMAIN own \cup {"s1"}
      /\ net'["s1"] = q /\ \A s \in DOMAIN own : net'[s] = own[s]
  <2>1. "s1" \notin DOMAIN own
    BY JoiningAssumption
  <2>2. QED
    BY <1>2, <2>1 DEF ??
<1>6. NetOK'
  BY <1>3, <1>5, PayloadAssumption, RelayAssumption DEF NetOK, Sources
<1>7. FetchOK'
  BY <1>1, Fresh DEF FetchOK, Sources
<1>8. path' \in Seq(Formats) /\ path' # <<>> /\ Last(path') = out.fmt
  BY <1>1, <1>3 DEF RelayInv, Last
<1>9. RelayOK'
  BY <1>1, <1>3, <1>4, <1>5, <1>8 DEF RelayOK, Sources, Via
<1>10. OutOK'
  BY <1>1 DEF OutOK, NoOut
<1>11. QED
  BY <1>6, <1>7, <1>8, <1>9, <1>10 DEF RelayInv

(***************************************************************************)
(* The invariant holds at the start.                                       *)
(***************************************************************************)
LEMMA RelayInit == Init => RelayInv
<1> SUFFICES ASSUME Init PROVE RelayInv
  OBVIOUS
<1>1. NetOK
  BY PayloadAssumption DEF Init, NetOK, Sources
<1>2. FetchOK
  BY Fresh DEF Init, FetchOK, Sources
<1>3. path \in Seq(Formats) /\ RelayOK /\ OutOK
  BY DEF Init, RelayOK, OutOK, NoOut
<1>4. QED
  BY <1>1, <1>2, <1>3 DEF RelayInv

(***************************************************************************)
(* Every step keeps it.                                                    *)
(***************************************************************************)
LEMMA RelayStep == RelayInv /\ [Next]_vars => RelayInv'
<1> SUFFICES ASSUME RelayInv, [Next]_vars PROVE RelayInv'
  OBVIOUS
<1>1. CASE Fetch
  <2>1. PICK s \in Sources : Request(s) \/ Store(s) \/ Reject(s)
    BY <1>1 DEF Fetch
  <2>2. QED
    BY <2>1, RequestStep, StoreStep, RejectStep
<1>2. CASE \E f \in Formats, tid \in Source \cup {"none"} : Export(f, tid)
  BY <1>2, ExportStep
<1>3. CASE Subscribe
  BY <1>3, SubscribeStep
<1>4. CASE UNCHANGED vars
  <2>1. UNCHANGED <<net, fetch, cache, template, out, was, path>>
    BY <1>4 DEF vars
  <2>2. FetchOK'
    BY <2>1 DEF RelayInv, FetchOK, Sources
  <2>3. QED
    BY <2>1, <2>2, OutStays, RelayStays DEF RelayInv
<1>5. QED
  BY <1>1, <1>2, <1>3, <1>4 DEF Next

-----------------------------------------------------------------------------
(***************************************************************************)
(* RelayInv holds in every reachable state, whatever the payloads, the     *)
(* number of sources and the number of hops.                               *)
(***************************************************************************)
THEOREM RelayInvariant == Spec => []RelayInv
<1>1. QED
  BY RelayInit, RelayStep, PTL DEF Spec

(***************************************************************************)
(* No hop loses, adds or redirects a node, for every payload: parsing      *)
(* (app-core), aggregation and rendering (app-aggregator, app-transform)   *)
(* in any of the formats, and parsing again give exactly the exported      *)
(* nodes that the format can carry, in order, under the same protocol and  *)
(* endpoint.                                                               *)
(***************************************************************************)
THEOREM RelayNodesKept == Spec => []NodesKept
<1>1. RelayInv => NodesKept
  BY KeptNodes DEF RelayInv
<1>2. QED
  BY <1>1, RelayInvariant, PTL

(***************************************************************************)
(* A node with TLS has TLS after every hop, whatever the parsers of its    *)
(* format assume when a document does not say so.                          *)
(***************************************************************************)
THEOREM RelayTlsNeverDropped == Spec => []TlsNeverDropped
<1>1. RelayInv => TlsNeverDropped
  BY KeptNodes DEF RelayInv
<1>2. QED
  BY <1>1, RelayInvariant, PTL

(***************************************************************************)
(* A node's credentials are unchanged after every hop, except where        *)
(* Credible says how a format changes them.                                *)
(***************************************************************************)
THEOREM RelayCredentialsKept == Spec => []CredentialsKept
<1>1. RelayInv => CredentialsKept
  BY KeptNodes DEF RelayInv
<1>2. QED
  BY <1>1, RelayInvariant, PTL

(***************************************************************************)
(* The names in an export are distinct, with the two exceptions that the   *)
(* code leaves: a template's source that has a name twice, and a number    *)
(* that makes a name which a node already has (region.rs).                 *)
(***************************************************************************)
THEOREM RelayNamesDistinct == Spec => []NamesDistinct
<1>1. RelayInv => NamesDistinct
  BY DistinctNames DEF RelayInv
<1>2. QED
  BY <1>1, RelayInvariant, PTL

(***************************************************************************)
(* Every member of an exported group is a node, a group or a policy of the *)
(* same configuration, unless it already named no node in the template's   *)
(* source.                                                                 *)
(***************************************************************************)
THEOREM RelayGroupsResolve == Spec => []GroupsResolve
<1>1. RelayInv => GroupsResolve
  BY ResolvedGroups DEF RelayInv
<1>2. QED
  BY <1>1, RelayInvariant, PTL
=============================================================================
