------------------------- MODULE RenderGraphProofs --------------------------
(***************************************************************************)
(* What compile() makes of any recording: passes of which one writes what  *)
(* the other uses keep the order of their declaration, a pass that has an  *)
(* effect runs once unless its bake is skipped, and resources that share   *)
(* an object are never in use at the same time.  First come the facts      *)
(* about lists that these need, in which a recursive function is reasoned  *)
(* about by the least argument for which something is false of it.         *)
(***************************************************************************)
EXTENDS RenderGraph, FiniteSetTheorems, SequenceTheorems, WellFoundedInduction, TLAPS

(* A set of natural numbers has a least element.                           *)
LEMMA Least ==
  ASSUME NEW S, S \subseteq Nat, S # {}
  PROVE  \E m \in S : \A k \in S : m <= k
<1>1. PICK below : IsWellFoundedOn(below, Nat) /\ \A k, m \in Nat : k < m => <<k, m>> \in below
  <2>1. IsWellFoundedOn(OpToRel(<, Nat), Nat)
    BY NatLessThanWellFounded
  <2>2. \A k, m \in Nat : k < m => <<k, m>> \in OpToRel(<, Nat)
    BY DEF OpToRel
  <2>3. QED BY <2>1, <2>2, Zenon
<1>2. PICK m \in S : \A k \in S : <<k, m>> \notin below
  <2>1. IsWellFoundedOn(below, Nat)
    BY <1>1, Zenon
  <2>2. QED BY <2>1, WFMin, Zenon
<1>3. ASSUME NEW k \in S PROVE m <= k
  <2>1. k \in Nat /\ m \in Nat
    OBVIOUS
  <2>2. ~(k < m)
    BY <1>1, <1>2, <2>1, Zenon
  <2>3. QED BY <2>1, <2>2
<1>4. QED BY <1>2, <1>3

(* How many elements of a set of indices come up to the k-th.              *)
LEMMA UpTo ==
  ASSUME NEW n \in Nat, NEW kept, kept \subseteq 1..n
  PROVE  /\ IsFiniteSet(kept) /\ Cardinality(kept) \in Nat
         /\ Cardinality(kept \cap 1..0) = 0 /\ Cardinality(kept \cap 1..n) = Cardinality(kept)
         /\ \A k \in Nat : Cardinality(kept \cap 1..k) \in 0..Cardinality(kept)
         /\ \A k \in 1..n :
              Cardinality(kept \cap 1..k)
                = Cardinality(kept \cap 1..k - 1) + IF k \in kept THEN 1 ELSE 0
         /\ \A k, l \in Nat : k <= l => Cardinality(kept \cap 1..k) <= Cardinality(kept \cap 1..l)
<1>1. IsFiniteSet(1..n)
  BY FS_Interval
<1>2. IsFiniteSet(kept)
  BY <1>1, FS_Subset
<1>3. \A k \in Nat : IsFiniteSet(kept \cap 1..k)
  BY <1>2, FS_Subset, Zenon
<1>4. kept \cap 1..0 = {} /\ kept \cap 1..n = kept
  <2>1. 1..0 = {}
    OBVIOUS
  <2>2. QED BY <2>1, Zenon
<1>5. ASSUME NEW k \in Nat PROVE Cardinality(kept \cap 1..k) \in 0..Cardinality(kept)
  <2>1. kept \cap 1..k \subseteq kept
    OBVIOUS
  <2>2. Cardinality(kept \cap 1..k) <= Cardinality(kept)
    BY <1>2, <2>1, FS_Subset
  <2>3. QED BY <1>2, <1>3, <2>2, FS_CardinalityType
<1>6. ASSUME NEW k \in 1..n
      PROVE  Cardinality(kept \cap 1..k)
               = Cardinality(kept \cap 1..k - 1) + IF k \in kept THEN 1 ELSE 0
  <2>1. k \in Nat /\ k - 1 \in Nat
    OBVIOUS
  <2>2. CASE k \in kept
    <3>1. kept \cap 1..k = (kept \cap 1..k - 1) \cup {k} /\ k \notin kept \cap 1..k - 1
      BY <2>2
    <3>2. QED BY <2>1, <2>2, <3>1, <1>3, FS_AddElement
  <2>3. CASE k \notin kept
    <3>1. kept \cap 1..k = kept \cap 1..k - 1
      BY <2>3
    <3>2. QED BY <1>5, <2>1, <2>3, <3>1
  <2>4. QED BY <2>2, <2>3
<1>7. ASSUME NEW k \in Nat, NEW l \in Nat, k <= l
      PROVE  Cardinality(kept \cap 1..k) <= Cardinality(kept \cap 1..l)
  <2>1. kept \cap 1..k \subseteq kept \cap 1..l
    BY <1>7
  <2>2. QED BY <1>3, <2>1, FS_Subset
<1>8. QED BY <1>2, <1>4, <1>5, <1>6, <1>7, FS_EmptySet, FS_CardinalityType

-----------------------------------------------------------------------------
(* A function that goes on from its last value.                            *)
Iterates(f, L, V, b, step) ==
  f \in [0..L -> V] /\ f[0] = b /\ \A i \in 1..L : f[i] = step[i][f[i - 1]]

LEMMA Iteration ==
  ASSUME NEW L \in Nat, NEW V, NEW b \in V, NEW step,
         \A i \in 1..L : \A v \in V : step[i][v] \in V
  PROVE  \E f : Iterates(f, L, V, b, step)
<1> DEFINE Up(l, f) == f[0] = b /\ \A i \in 1..l : f[i] = step[i][f[i - 1]]
           Q(l) == \E f \in [0..l -> V] : Up(l, f)
           T == {l \in 0..L : ~Q(l)}
<1>1. Q(0)
  <2> DEFINE f == [i \in 0..0 |-> b]
  <2>1. f \in [0..0 -> V] /\ Up(0, f)
    OBVIOUS
  <2>2. QED BY <2>1
<1>2. ASSUME NEW l \in 1..L, Q(l - 1) PROVE Q(l)
  <2>1. PICK f \in [0..(l - 1) -> V] : Up(l - 1, f)
    BY <1>2
  <2> DEFINE g == [i \in 0..l |-> IF i = l THEN step[l][f[l - 1]] ELSE f[i]]
  <2>2. l - 1 \in 0..(l - 1) /\ \A i \in 0..l : i # l => i \in 0..(l - 1)
    OBVIOUS
  <2>3. g \in [0..l -> V]
    BY <2>1, <2>2
  <2>4. g[0] = b
    BY <2>1
  <2>5. ASSUME NEW i \in 1..l PROVE g[i] = step[i][g[i - 1]]
    <3>1. i - 1 \in 0..l /\ i - 1 # l /\ i \in 0..l
      OBVIOUS
    <3>2. g[i - 1] = f[i - 1]
      BY <3>1
    <3>3. CASE i = l
      BY <3>1, <3>2, <3>3
    <3>4. CASE i # l
      <4>1. i \in 1..(l - 1) /\ g[i] = f[i]
        BY <3>1, <3>4
      <4>2. QED BY <2>1, <3>2, <4>1
    <3>5. QED BY <3>3, <3>4
  <2>6. Up(l, g)
    BY <2>4, <2>5
  <2>7. QED BY <2>3, <2>6
<1> HIDE DEF Q
<1>3. T = {}
  <2>1. SUFFICES ASSUME T # {} PROVE FALSE
    OBVIOUS
  <2>2. PICK m \in T : \A k \in T : m <= k
    <3>1. T \subseteq Nat
      OBVIOUS
    <3> HIDE DEF T
    <3>2. QED BY <2>1, <3>1, Least
  <2>3. m \in 1..L /\ m - 1 \notin T /\ m - 1 \in 0..L
    BY <1>1, <2>2
  <2>4. QED BY <1>2, <2>2, <2>3
<1>4. Q(L)
  BY <1>3
<1>5. QED BY <1>4 DEF Q, Iterates

(* A function that goes on from all of its values so far.                  *)
Unfolds(f, L, V, G) ==
  f \in [1..L -> V] /\ \A k \in 1..L : f[k] = G[[j \in 1..(k - 1) |-> f[j]]]

LEMMA CourseOfValues ==
  ASSUME NEW L \in Nat, NEW V, NEW G, \A s \in Seq(V) : Len(s) < L => G[s] \in V
  PROVE  \E f : Unfolds(f, L, V, G)
<1> DEFINE Up(l, f) == \A k \in 1..l : f[k] = G[[j \in 1..(k - 1) |-> f[j]]]
           Q(l) == \E f \in [1..l -> V] : Up(l, f)
           T == {l \in 0..L : ~Q(l)}
<1>1. Q(0)
  <2> DEFINE f == [i \in 1..0 |-> 0]
  <2>1. f \in [1..0 -> V] /\ Up(0, f)
    OBVIOUS
  <2>2. QED BY <2>1
<1>2. ASSUME NEW l \in 1..L, Q(l - 1) PROVE Q(l)
  <2>1. PICK f \in [1..(l - 1) -> V] : Up(l - 1, f)
    BY <1>2
  <2>2. f \in Seq(V) /\ Len(f) = l - 1
    BY <2>1
  <2> DEFINE g == [i \in 1..l |-> IF i = l THEN G[f] ELSE f[i]]
  <2>3. \A i \in 1..l : i # l => i \in 1..(l - 1)
    OBVIOUS
  <2>4. g \in [1..l -> V]
    BY <2>1, <2>2, <2>3
  <2>5. ASSUME NEW k \in 1..l PROVE g[k] = G[[j \in 1..(k - 1) |-> g[j]]]
    <3>1. \A j \in 1..(k - 1) : g[j] = f[j]
      OBVIOUS
    <3>2. [j \in 1..(k - 1) |-> g[j]] = [j \in 1..(k - 1) |-> f[j]]
      BY <3>1
    <3>3. CASE k = l
      <4>1. [j \in 1..(k - 1) |-> f[j]] = f
        BY <2>1, <3>3
      <4>2. QED BY <3>2, <3>3, <4>1
    <3>4. CASE k # l
      <4>1. k \in 1..(l - 1) /\ g[k] = f[k]
        BY <3>4
      <4>2. QED BY <2>1, <3>2, <4>1
    <3>5. QED BY <3>3, <3>4
  <2>6. Up(l, g)
    BY <2>5
  <2>7. QED BY <2>4, <2>6
<1> HIDE DEF Q
<1>3. T = {}
  <2>1. SUFFICES ASSUME T # {} PROVE FALSE
    OBVIOUS
  <2>2. PICK m \in T : \A k \in T : m <= k
    <3>1. T \subseteq Nat
      OBVIOUS
    <3> HIDE DEF T
    <3>2. QED BY <2>1, <3>1, Least
  <2>3. m \in 1..L /\ m - 1 \notin T /\ m - 1 \in 0..L
    BY <1>1, <2>2
  <2>4. QED BY <1>2, <2>2, <2>3
<1>4. Q(L)
  BY <1>3
<1>5. QED BY <1>4 DEF Q, Unfolds

-----------------------------------------------------------------------------
(* The elements of a set of positions, in ascending order.                 *)
LEMMA NthInOrder ==
  ASSUME NEW n \in Nat, NEW S, S \subseteq 1..n
  PROVE  /\ Cardinality(S) \in Nat
         /\ \A i \in 1..Cardinality(S) : Nth(S, i) \in S
         /\ \A i, j \in 1..Cardinality(S) : i < j => Nth(S, i) < Nth(S, j)
         /\ \A k \in S : \E i \in 1..Cardinality(S) : Nth(S, i) = k
<1> DEFINE count(k) == Cardinality(S \cap 1..k)
           last == Cardinality(S)
<1>1. /\ last \in Nat
      /\ count(0) = 0 /\ count(n) = last
      /\ \A k \in Nat : count(k) \in 0..last
      /\ \A k \in 1..n : count(k) = count(k - 1) + IF k \in S THEN 1 ELSE 0
      /\ \A k, l \in Nat : k <= l => count(k) <= count(l)
  BY UpTo, Zenon
<1>i. S \subseteq Int /\ 1..last \subseteq Int /\ 1..last \subseteq Nat
  BY <1>1
<1> HIDE DEF count
<1>2. \A i : Nth(S, i) = CHOOSE k \in S : count(k) = i
  BY DEF Nth, count
<1>3. ASSUME NEW i \in 1..last PROVE Nth(S, i) \in S /\ count(Nth(S, i)) = i
  <2> DEFINE T == {k \in 0..n : count(k) >= i}
  <2>1. T \subseteq Nat /\ n \in T
    BY <1>1
  <2>2. PICK m \in T : \A k \in T : m <= k
    BY <2>1, Least
  <2>3. m # 0 /\ m \in 1..n
    BY <1>1, <2>2
  <2>4. m - 1 \in 0..n /\ m - 1 \notin T
    BY <2>2, <2>3
  <2>5. count(m - 1) < i /\ count(m) >= i /\ count(m - 1) \in 0..last
    BY <1>1, <2>2, <2>4
  <2>6. m \in S /\ count(m) = i
    <3>1. count(m) = count(m - 1) + IF m \in S THEN 1 ELSE 0
      BY <1>1, <2>3
    <3>2. i \in Nat /\ count(m - 1) \in Nat
      BY <1>1, <2>5
    <3> HIDE DEF last
    <3>3. CASE m \in S
      BY <2>5, <3>1, <3>2, <3>3
    <3>4. CASE m \notin S
      BY <2>5, <3>1, <3>2, <3>4
    <3>5. QED BY <3>3, <3>4
  <2>7. QED BY <1>2, <2>6
<1>4. ASSUME NEW k \in S, NEW l \in S, k < l PROVE count(k) < count(l)
  <2>1. k \in Nat /\ l - 1 \in Nat /\ l \in 1..n /\ k <= l - 1
    BY <1>4
  <2>2. count(k) <= count(l - 1) /\ count(l) = count(l - 1) + 1
    BY <1>1, <2>1
  <2>3. QED BY <1>1, <2>1, <2>2
<1>5. ASSUME NEW k \in S PROVE \E i \in 1..last : Nth(S, i) = k
  <2>1. k \in 1..n /\ k \in Nat /\ k - 1 \in Nat
    OBVIOUS
  <2>2. count(k) \in 1..last
    BY <1>1, <2>1
  <2>3. Nth(S, count(k)) \in S /\ count(Nth(S, count(k))) = count(k)
    BY <1>3, <2>2
  <2>4. Nth(S, count(k)) = k
    <3>1. Nth(S, count(k)) \in Int /\ k \in Int /\ count(k) \in Int
      BY <1>1, <1>i, <2>2, <2>3
    <3>2. ~(Nth(S, count(k)) < k) /\ ~(k < Nth(S, count(k)))
      BY <1>4, <2>3, <3>1
    <3>3. QED BY <3>1, <3>2
  <2>5. QED BY <2>2, <2>4
<1>6. ASSUME NEW i \in 1..last, NEW j \in 1..last, i < j PROVE Nth(S, i) < Nth(S, j)
  <2>1. /\ Nth(S, i) \in S /\ Nth(S, j) \in S
        /\ count(Nth(S, i)) = i /\ count(Nth(S, j)) = j
    BY <1>3
  <2>2. Nth(S, i) \in Int /\ Nth(S, j) \in Int /\ i \in Int /\ j \in Int
    BY <1>i, <2>1
  <2>3. Nth(S, i) # Nth(S, j) /\ ~(Nth(S, j) < Nth(S, i))
    BY <1>4, <1>6, <2>1, <2>2
  <2>4. QED BY <2>2, <2>3
<1>7. QED BY <1>1, <1>3, <1>5, <1>6

LEMMA AscendingType ==
  ASSUME NEW n \in Nat, NEW S, S \subseteq 1..n
  PROVE  /\ Ascending(S) \in Seq(S) /\ Len(Ascending(S)) = Cardinality(S)
         /\ \A i, j \in DOMAIN Ascending(S) : i < j => Ascending(S)[i] < Ascending(S)[j]
         /\ \A k \in S : \E i \in DOMAIN Ascending(S) : Ascending(S)[i] = k
<1> DEFINE s == Ascending(S)
           c == Cardinality(S)
<1>1. s = [i \in 1..c |-> Nth(S, i)]
  BY DEF Ascending
<1>2. /\ c \in Nat
      /\ \A i \in 1..c : Nth(S, i) \in S
      /\ \A i, j \in 1..c : i < j => Nth(S, i) < Nth(S, j)
      /\ \A k \in S : \E i \in 1..c : Nth(S, i) = k
  BY NthInOrder
<1> HIDE DEF s, c
<1>3. s \in Seq(S) /\ Len(s) = c /\ DOMAIN s = 1..c
  <2>1. s \in [1..c -> S]
    BY <1>1, <1>2
  <2>2. QED BY <1>2, <2>1
<1>4. QED BY <1>1, <1>2, <1>3 DEF s, c

HasAll(s, S) == s \in Seq(S) /\ \A k \in S : \E i \in DOMAIN s : s[i] = k

LEMMA AscendingHas ==
  ASSUME NEW n \in Nat, NEW S, S \subseteq 1..n
  PROVE  HasAll(Ascending(S), S)
BY AscendingType DEF HasAll

(* What is picked: from where, in which order, and that all of it is.      *)
PickedAt(e, p, s, S) ==
  /\ e \in [DOMAIN p -> S]
  /\ \A i \in DOMAIN e : p[i] = s[e[i]]
  /\ \A i, j \in DOMAIN e : i < j => e[i] < e[j]
  /\ \A k \in S : \E i \in DOMAIN e : e[i] = k

LEMMA PickedType ==
  ASSUME NEW T, NEW s \in Seq(T), NEW S, S \subseteq DOMAIN s
  PROVE  Picked(s, S) \in Seq(T) /\ \E e : PickedAt(e, Picked(s, S), s, S)
<1> DEFINE p == Picked(s, S)
           c == Cardinality(S)
           e == [i \in 1..c |-> Nth(S, i)]
<1>1. p = [i \in 1..c |-> s[Nth(S, i)]]
  BY DEF Picked
<1>2. Len(s) \in Nat /\ DOMAIN s = 1..Len(s) /\ S \subseteq 1..Len(s)
  OBVIOUS
<1>3. /\ c \in Nat
      /\ \A i \in 1..c : Nth(S, i) \in S
      /\ \A i, j \in 1..c : i < j => Nth(S, i) < Nth(S, j)
      /\ \A k \in S : \E i \in 1..c : Nth(S, i) = k
  BY <1>2, NthInOrder
<1> HIDE DEF p, c
<1>4. p \in Seq(T) /\ DOMAIN p = 1..c
  <2>1. p \in [1..c -> T]
    BY <1>1, <1>3
  <2>2. QED BY <1>3, <2>1
<1>5. e \in [DOMAIN p -> S]
  BY <1>3, <1>4
<1>6. /\ \A i \in DOMAIN e : p[i] = s[e[i]]
      /\ \A i, j \in DOMAIN e : i < j => e[i] < e[j]
      /\ \A k \in S : \E i \in DOMAIN e : e[i] = k
  BY <1>1, <1>3
<1> HIDE DEF e
<1>7. PickedAt(e, p, s, S)
  BY <1>5, <1>6 DEF PickedAt
<1>8. QED BY <1>4, <1>7 DEF p

(* x is an element of s.                                                   *)
Occurs(x, s) == \E i \in DOMAIN s : s[i] = x

LEMMA SeqFacts ==
  ASSUME NEW T, NEW s \in Seq(T)
  PROVE  /\ Len(s) \in Nat /\ DOMAIN s = 1..Len(s)
         /\ \A i \in DOMAIN s : s[i] \in T
         /\ s = <<>> <=> DOMAIN s = {}
<1>1. Len(s) \in Nat /\ DOMAIN s = 1..Len(s) /\ \A i \in DOMAIN s : s[i] \in T
  OBVIOUS
<1>2. s = <<>> <=> Len(s) = 0
  BY EmptySeq
<1>3. Len(s) = 0 <=> DOMAIN s = {}
  <2>1. Len(s) # 0 => 1 \in 1..Len(s)
    BY <1>1
  <2>2. Len(s) = 0 => 1..Len(s) = {}
    OBVIOUS
  <2>3. QED BY <1>1, <2>1, <2>2
<1>4. QED BY <1>1, <1>2, <1>3, Zenon

LEMMA NotEmpty ==
  ASSUME NEW T, NEW s \in Seq(T)
  PROVE  s # <<>> <=> DOMAIN s # {}
<1>1. s = <<>> <=> DOMAIN s = {}
  BY SeqFacts
<1>2. QED BY <1>1

LEMMA AsSeq ==
  ASSUME NEW T, NEW L \in Nat, NEW f \in [1..L -> T]
  PROVE  f \in Seq(T) /\ Len(f) = L
OBVIOUS

LEMMA SeqSubset ==
  ASSUME NEW S, NEW T, S \subseteq T, NEW s \in Seq(S)
  PROVE  s \in Seq(T)
<1>1. Len(s) \in Nat /\ DOMAIN s = 1..Len(s) /\ s \in [1..Len(s) -> S]
  OBVIOUS
<1>2. s \in [1..Len(s) -> T]
  BY <1>1
<1>3. QED BY <1>1, <1>2

LEMMA BackwardsType ==
  ASSUME NEW T, NEW s \in Seq(T)
  PROVE  /\ Backwards(s) \in Seq(T) /\ Len(Backwards(s)) = Len(s)
         /\ \A i \in DOMAIN s : Backwards(s)[i] = s[Len(s) + 1 - i]
         /\ \A i \in DOMAIN s : Backwards(s)[Len(s) + 1 - i] = s[i]
<1> DEFINE b == Backwards(s)
<1>1. b = [i \in 1..Len(s) |-> s[Len(s) + 1 - i]]
  BY DEF Backwards
<1>2. Len(s) \in Nat /\ DOMAIN s = 1..Len(s) /\ \A i \in DOMAIN s : Len(s) + 1 - i \in DOMAIN s
  OBVIOUS
<1> HIDE DEF b
<1>3. b \in Seq(T) /\ Len(b) = Len(s)
  <2>1. b \in [1..Len(s) -> T]
    BY <1>1, <1>2
  <2>2. QED BY <1>2, <2>1
<1>4. \A i \in DOMAIN s : b[i] = s[Len(s) + 1 - i]
  BY <1>1, <1>2
<1>5. \A i \in DOMAIN s : b[Len(s) + 1 - i] = s[i]
  <2>1. \A i \in DOMAIN s : Len(s) + 1 - (Len(s) + 1 - i) = i
    BY <1>2
  <2>2. QED BY <1>2, <1>4, <2>1
<1>6. QED BY <1>3, <1>4, <1>5 DEF b

LEMMA BackwardsElements ==
  ASSUME NEW T, NEW s \in Seq(T), NEW x
  PROVE  Occurs(x, Backwards(s)) <=> Occurs(x, s)
<1>1. /\ Len(s) \in Nat /\ DOMAIN s = 1..Len(s) /\ \A i \in DOMAIN s : Len(s) + 1 - i \in DOMAIN s
      /\ DOMAIN Backwards(s) = DOMAIN s
  BY BackwardsType
<1>2. /\ \A i \in DOMAIN s : Backwards(s)[i] = s[Len(s) + 1 - i]
      /\ \A i \in DOMAIN s : Backwards(s)[Len(s) + 1 - i] = s[i]
  BY BackwardsType
<1>3. QED BY <1>1, <1>2 DEF Occurs

(* Each element once, where it comes first.                                *)
FirstAt(e, d, s) ==
  /\ e \in [DOMAIN d -> DOMAIN s]
  /\ \A i \in DOMAIN e : d[i] = s[e[i]]
  /\ \A i, j \in DOMAIN e : i < j <=> e[i] < e[j]
  /\ \A k \in DOMAIN s : \E i \in DOMAIN e : e[i] <= k /\ s[e[i]] = s[k]

LEMMA DistinctType ==
  ASSUME NEW T, NEW s \in Seq(T)
  PROVE  /\ Distinct(s) \in Seq(T)
         /\ \A i, j \in DOMAIN Distinct(s) : Distinct(s)[i] = Distinct(s)[j] => i = j
         /\ \E e : FirstAt(e, Distinct(s), s)
<1> DEFINE d == Distinct(s)
           S == {i \in DOMAIN s : \A j \in 1..(i - 1) : s[j] # s[i]}
<1>1. d = Picked(s, S) /\ S \subseteq DOMAIN s
  BY DEF Distinct
<1>2. Len(s) \in Nat /\ DOMAIN s = 1..Len(s)
  OBVIOUS
<1>S. \A i \in S : i \in DOMAIN s /\ \A j \in 1..(i - 1) : s[j] # s[i]
  OBVIOUS
<1>3. ASSUME NEW k \in DOMAIN s PROVE \E f \in S : f <= k /\ s[f] = s[k]
  <2> DEFINE F == {j \in DOMAIN s : s[j] = s[k]}
  <2>1. F \subseteq Nat /\ k \in F
    BY <1>2
  <2> HIDE DEF F
  <2>2. PICK f \in F : \A j \in F : f <= j
    BY <2>1, Least
  <2>3. f \in DOMAIN s /\ s[f] = s[k] /\ f <= k
    BY <2>1, <2>2 DEF F
  <2>4. ASSUME NEW j \in 1..(f - 1) PROVE s[j] # s[f]
    <3>1. j \in DOMAIN s /\ ~(f <= j)
      BY <1>2, <2>3
    <3>2. QED BY <2>2, <2>3, <3>1 DEF F
  <2>5. QED BY <2>3, <2>4
<1> HIDE DEF d, S
<1>4. d \in Seq(T)
  BY <1>1, PickedType
<1>p. PICK e : PickedAt(e, d, s, S)
  BY <1>1, PickedType
<1>5. /\ e \in [DOMAIN d -> S]
      /\ \A i \in DOMAIN e : d[i] = s[e[i]]
      /\ \A i, j \in DOMAIN e : i < j => e[i] < e[j]
      /\ \A k \in S : \E i \in DOMAIN e : e[i] = k
  BY <1>p DEF PickedAt
<1>6. /\ DOMAIN e = DOMAIN d /\ DOMAIN d \subseteq Int /\ S \subseteq Int
      /\ \A i \in DOMAIN e : e[i] \in S /\ e[i] \in DOMAIN s /\ e[i] \in Int
  BY <1>1, <1>2, <1>4, <1>5
<1>7. ASSUME NEW i \in DOMAIN d, NEW j \in DOMAIN d, i < j PROVE d[i] # d[j]
  <2>1. e[i] < e[j] /\ e[i] \in 1..(e[j] - 1)
    BY <1>2, <1>5, <1>6, <1>7
  <2>2. QED BY <1>5, <1>6, <1>S, <2>1
<1>8. \A i, j \in DOMAIN d : d[i] = d[j] => i = j
  BY <1>6, <1>7
<1>9. ASSUME NEW i \in DOMAIN e, NEW j \in DOMAIN e, e[i] < e[j] PROVE i < j
  <2>1. i \in Int /\ j \in Int /\ e[i] \in Int /\ e[j] \in Int
    BY <1>6
  <2>2. i # j /\ ~(j < i)
    BY <1>5, <1>9, <2>1
  <2>3. QED BY <2>1, <2>2
<1>10. \A k \in DOMAIN s : \E i \in DOMAIN e : e[i] <= k /\ s[e[i]] = s[k]
  BY <1>3, <1>5
<1>11. e \in [DOMAIN d -> DOMAIN s]
  BY <1>1, <1>5
<1>12. FirstAt(e, d, s)
  BY <1>5, <1>9, <1>10, <1>11 DEF FirstAt
<1>13. QED BY <1>4, <1>8, <1>12 DEF d

LEMMA DistinctElements ==
  ASSUME NEW T, NEW s \in Seq(T), NEW x
  PROVE  Occurs(x, Distinct(s)) <=> Occurs(x, s)
<1>1. PICK e : FirstAt(e, Distinct(s), s)
  BY DistinctType
<1>2. QED BY <1>1 DEF Occurs, FirstAt

(* One after the other.                                                    *)
LEMMA ConcatSteps ==
  ASSUME NEW T, NEW ss \in Seq(Seq(T))
  PROVE  \E f \in [0..Len(ss) -> Seq(T)] :
           /\ f[0] = <<>>
           /\ \A i \in 1..Len(ss) : f[i] = f[i - 1] \o ss[i]
           /\ Concat(ss) = f[Len(ss)]
<1> DEFINE V == Seq(T)
           L == Len(ss)
           none == <<>>
           step == [i \in 1..L |-> [v \in V |-> v \o ss[i]]]
           Joins(f) == f = [i \in 0..L |-> IF i = 0 THEN none ELSE f[i - 1] \o ss[i]]
<1>1. L \in Nat /\ \A i \in 1..L : ss[i] \in V
  OBVIOUS
<1>2. \A i \in 1..L : \A v \in V : v \o ss[i] \in V
  BY <1>1
<1>3. none \in V
  OBVIOUS
<1> DEFINE h == CHOOSE g : Joins(g)
<1>10. Concat(ss) = h[L]
  BY DEF Concat
<1> HIDE DEF V, L, none
<1>4. PICK f : Iterates(f, L, V, none, step)
  <2>1. \A i \in 1..L : \A v \in V : step[i][v] = v \o ss[i] /\ step[i][v] \in V
    BY <1>2
  <2> HIDE DEF step
  <2>2. QED BY <1>1, <1>3, <2>1, Iteration
<1>5. \A i \in 1..L : i - 1 \in 0..L /\ f[i] = f[i - 1] \o ss[i]
  <2>1. \A i \in 1..L : i - 1 \in 0..L /\ f[i - 1] \in V
    BY <1>1, <1>4 DEF Iterates
  <2>2. QED BY <1>2, <1>4, <2>1 DEF Iterates
<1>6. Joins(f)
  <2> HIDE DEF h, step
  <2>1. \A i \in 0..L : f[i] = IF i = 0 THEN none ELSE f[i - 1] \o ss[i]
    <3>1. f[0] = none
      BY <1>4 DEF Iterates
    <3>2. \A i \in 0..L : i = 0 \/ i \in 1..L
      BY <1>1
    <3>3. \A i \in 1..L : i # 0
      BY <1>1
    <3>4. QED BY <1>5, <3>1, <3>2, <3>3
  <2>2. f = [i \in 0..L |-> f[i]]
    BY <1>4 DEF Iterates
  <2>3. QED BY <2>1, <2>2
<1>7. \A g : Joins(g) => g[0] = none /\ \A i \in 1..L : g[i] = g[i - 1] \o ss[i]
  <2>1. ASSUME NEW g, Joins(g), NEW i \in 0..L
        PROVE  g[i] = IF i = 0 THEN none ELSE g[i - 1] \o ss[i]
    BY <2>1
  <2>2. QED BY <1>1, <2>1
<1>8. \A g : Joins(g) => g = [i \in 0..L |-> IF i = 0 THEN none ELSE g[i - 1] \o ss[i]]
  OBVIOUS
<1>9. Joins(h)
  BY <1>6
<1> HIDE DEF h, Joins
<1>11. \A i \in 0..L : h[i] \in V
  <2> DEFINE B == {i \in 0..L : h[i] \notin V}
  <2>1. SUFFICES ASSUME B # {} PROVE FALSE
    OBVIOUS
  <2>2. B \subseteq Nat
    OBVIOUS
  <2>3. PICK m \in B : \A k \in B : m <= k
    <3> HIDE DEF B
    <3>1. QED BY <2>1, <2>2, Least
  <2>4. m # 0 /\ m \in 1..L
    <3>1. m \in 0..L /\ h[m] \notin V
      BY <2>3
    <3>2. h[0] \in V
      BY <1>3, <1>7, <1>9
    <3>3. QED BY <1>1, <3>1, <3>2
  <2>5. m - 1 \in 0..L /\ m - 1 \notin B
    BY <1>1, <2>3, <2>4
  <2>6. h[m - 1] \in V /\ ss[m] \in V /\ h[m] = h[m - 1] \o ss[m]
    BY <1>1, <1>7, <1>9, <2>4, <2>5
  <2>7. h[m] \in V
    BY <1>2, <2>4, <2>6
  <2>8. QED BY <2>3, <2>7
<1>12. h \in [0..L -> V]
  BY <1>8, <1>9, <1>11
<1>13. QED BY <1>7, <1>9, <1>10, <1>12 DEF V, L, none

(* What is known of u = s \o t.                                            *)
Joined2(s, t, u) ==
  /\ Len(s) \in Nat /\ Len(t) \in Nat /\ Len(u) = Len(s) + Len(t)
  /\ DOMAIN s = 1..Len(s) /\ DOMAIN t = 1..Len(t) /\ DOMAIN u = 1..(Len(s) + Len(t))
  /\ \A k \in 1..Len(s) : u[k] = s[k]
  /\ \A k \in 1..Len(t) : u[Len(s) + k] = t[k]
  /\ \A k \in 1..(Len(s) + Len(t)) : k > Len(s) => k - Len(s) \in 1..Len(t) /\ u[k] = t[k - Len(s)]

LEMMA Concatenation ==
  ASSUME NEW T, NEW s \in Seq(T), NEW t \in Seq(T)
  PROVE  Joined2(s, t, s \o t) /\ s \o t \in Seq(T)
<1>1. /\ s \o t \in Seq(T) /\ Len(s) \in Nat /\ Len(t) \in Nat
      /\ DOMAIN s = 1..Len(s) /\ DOMAIN t = 1..Len(t)
      /\ Len(s \o t) = Len(s) + Len(t)
  OBVIOUS
<1>2. DOMAIN (s \o t) = 1..(Len(s) + Len(t))
  BY <1>1
<1>3. \A k \in 1..Len(s) : (s \o t)[k] = s[k]
  OBVIOUS
<1>4. ASSUME NEW k \in 1..(Len(s) + Len(t)), k > Len(s)
      PROVE  k - Len(s) \in 1..Len(t) /\ (s \o t)[k] = t[k - Len(s)]
  BY <1>1, <1>4
<1>5. ASSUME NEW k \in 1..Len(t) PROVE (s \o t)[Len(s) + k] = t[k]
  BY <1>1
<1>6. QED BY <1>1, <1>2, <1>3, <1>4, <1>5 DEF Joined2

(* What comes before k-th element of s.                                    *)
Before(x, s, k) == \E i \in DOMAIN s : i < k /\ s[i] = x

(* What an element needs comes before it.                                  *)
Closed(s, need) == \A k \in DOMAIN s : \A x \in need[s[k]] : Before(x, s, k)

LEMMA JoinedElements ==
  ASSUME NEW s, NEW t, NEW u, Joined2(s, t, u), NEW x
  PROVE  Occurs(x, u) <=> Occurs(x, s) \/ Occurs(x, t)
<1>1. ASSUME Occurs(x, u) PROVE Occurs(x, s) \/ Occurs(x, t)
  <2>1. PICK k \in DOMAIN u : u[k] = x
    BY <1>1 DEF Occurs
  <2>2. CASE k <= Len(s)
    <3>1. k \in DOMAIN s /\ s[k] = x
      BY <2>1, <2>2 DEF Joined2
    <3>2. QED BY <3>1 DEF Occurs
  <2>3. CASE k > Len(s)
    <3>1. k - Len(s) \in DOMAIN t /\ t[k - Len(s)] = x
      BY <2>1, <2>3 DEF Joined2
    <3>2. QED BY <3>1 DEF Occurs
  <2>4. k \in Int /\ Len(s) \in Int
    BY DEF Joined2
  <2>5. QED BY <2>2, <2>3, <2>4
<1>2. ASSUME Occurs(x, s) PROVE Occurs(x, u)
  <2>1. PICK k \in DOMAIN s : s[k] = x
    BY <1>2 DEF Occurs
  <2>2. k \in DOMAIN u /\ u[k] = x
    BY <2>1 DEF Joined2
  <2>3. QED BY <2>2 DEF Occurs
<1>3. ASSUME Occurs(x, t) PROVE Occurs(x, u)
  <2>1. PICK k \in DOMAIN t : t[k] = x
    BY <1>3 DEF Occurs
  <2>2. Len(s) + k \in DOMAIN u /\ u[Len(s) + k] = x
    BY <2>1 DEF Joined2
  <2>3. QED BY <2>2 DEF Occurs
<1>4. QED BY <1>1, <1>2, <1>3

LEMMA JoinedClosed ==
  ASSUME NEW s, NEW t, NEW u, Joined2(s, t, u), NEW need, Closed(s, need),
         \A k \in DOMAIN t : \A x \in need[t[k]] : Before(x, t, k) \/ Occurs(x, s)
  PROVE  Closed(u, need)
<1>1. SUFFICES ASSUME NEW k \in DOMAIN u, NEW x \in need[u[k]] PROVE Before(x, u, k)
  BY DEF Closed
<1>2. k \in Int /\ Len(s) \in Nat /\ k \in 1..(Len(s) + Len(t))
  BY DEF Joined2
<1>3. CASE k <= Len(s)
  <2>1. k \in DOMAIN s /\ u[k] = s[k]
    BY <1>2, <1>3 DEF Joined2
  <2>2. PICK i \in DOMAIN s : i < k /\ s[i] = x
    BY <2>1 DEF Closed, Before
  <2>3. i \in DOMAIN u /\ u[i] = x
    BY <2>2 DEF Joined2
  <2>4. QED BY <2>2, <2>3 DEF Before
<1>4. CASE k > Len(s)
  <2>1. k - Len(s) \in DOMAIN t /\ u[k] = t[k - Len(s)]
    BY <1>2, <1>4 DEF Joined2
  <2>2. CASE Before(x, t, k - Len(s))
    <3>1. PICK i \in DOMAIN t : i < k - Len(s) /\ t[i] = x
      BY <2>2 DEF Before
    <3>2. Len(s) + i \in DOMAIN u /\ u[Len(s) + i] = x /\ Len(s) + i < k
      BY <1>2, <3>1 DEF Joined2
    <3>3. QED BY <3>2 DEF Before
  <2>3. CASE Occurs(x, s)
    <3>1. PICK i \in DOMAIN s : s[i] = x
      BY <2>3 DEF Occurs
    <3>2. i \in DOMAIN u /\ u[i] = x /\ i < k
      BY <1>2, <1>4, <3>1 DEF Joined2
    <3>3. QED BY <3>2 DEF Before
  <2>4. QED BY <2>1, <2>2, <2>3
<1>5. QED BY <1>2, <1>3, <1>4

LEMMA AppendClosed ==
  ASSUME NEW T, NEW s \in Seq(T), NEW y \in T, NEW need, Closed(s, need),
         \A x \in need[y] : Occurs(x, s)
  PROVE  /\ Append(s, y) \in Seq(T) /\ Closed(Append(s, y), need)
         /\ \A x : Occurs(x, Append(s, y)) <=> Occurs(x, s) \/ x = y
<1> DEFINE t == <<y>>
<1>1. t \in Seq(T) /\ DOMAIN t = {1} /\ t[1] = y
  OBVIOUS
<1>2. Append(s, y) = s \o t
  BY AppendIsConcat
<1> HIDE DEF t
<1>3. Joined2(s, t, s \o t) /\ s \o t \in Seq(T)
  BY <1>1, Concatenation
<1>4. Closed(s \o t, need)
  BY <1>1, <1>3, JoinedClosed
<1>5. \A x : Occurs(x, t) <=> x = y
  BY <1>1 DEF Occurs
<1>6. \A x : Occurs(x, s \o t) <=> Occurs(x, s) \/ Occurs(x, t)
  BY <1>3, JoinedElements
<1>7. QED BY <1>2, <1>3, <1>4, <1>5, <1>6

LEMMA DistinctClosed ==
  ASSUME NEW T, NEW s \in Seq(T), NEW need, Closed(s, need)
  PROVE  Closed(Distinct(s), need)
<1> DEFINE d == Distinct(s)
<1>1. d \in Seq(T)
  BY DistinctType
<1>e. PICK e : FirstAt(e, d, s)
  BY DistinctType
<1> HIDE DEF d
<1>2. /\ e \in [DOMAIN d -> DOMAIN s]
      /\ \A i \in DOMAIN e : d[i] = s[e[i]]
      /\ \A i, j \in DOMAIN e : i < j <=> e[i] < e[j]
      /\ \A k \in DOMAIN s : \E i \in DOMAIN e : e[i] <= k /\ s[e[i]] = s[k]
  BY <1>e DEF FirstAt
<1>3. DOMAIN e = DOMAIN d /\ DOMAIN s \subseteq Int /\ DOMAIN d \subseteq Int
  <2>1. DOMAIN s \subseteq Int /\ DOMAIN d \subseteq Int
    BY <1>1, SeqFacts
  <2>2. QED BY <1>2, <2>1
<1>4. SUFFICES ASSUME NEW k \in DOMAIN d, NEW x \in need[d[k]] PROVE Before(x, d, k)
  BY DEF Closed, d
<1>5. e[k] \in DOMAIN s /\ d[k] = s[e[k]]
  BY <1>2, <1>3
<1>6. PICK i \in DOMAIN s : i < e[k] /\ s[i] = x
  BY <1>5 DEF Closed, Before
<1>7. PICK j \in DOMAIN e : e[j] <= i /\ s[e[j]] = s[i]
  BY <1>2
<1>8. e[j] \in Int /\ e[k] \in Int /\ i \in Int /\ e[j] < e[k] /\ d[j] = x
  BY <1>2, <1>3, <1>5, <1>6, <1>7
<1>9. j < k
  BY <1>2, <1>3, <1>8
<1>10. QED BY <1>3, <1>8, <1>9 DEF Before

LEMMA ConcatClosed ==
  ASSUME NEW T, NEW ss \in Seq(Seq(T)), NEW need, \A i \in 1..Len(ss) : Closed(ss[i], need)
  PROVE  /\ Concat(ss) \in Seq(T) /\ Closed(Concat(ss), need)
         /\ \A x : Occurs(x, Concat(ss)) <=> \E i \in 1..Len(ss) : Occurs(x, ss[i])
<1> DEFINE L == Len(ss)
<1>1. PICK f \in [0..L -> Seq(T)] :
           /\ f[0] = <<>>
           /\ \A i \in 1..L : f[i] = f[i - 1] \o ss[i]
           /\ Concat(ss) = f[L]
  BY ConcatSteps
<1>2. L \in Nat /\ \A i \in 1..L : ss[i] \in Seq(T)
  OBVIOUS
<1> HIDE DEF L
<1> DEFINE Good(l) == /\ Closed(f[l], need)
                      /\ \A x : Occurs(x, f[l]) <=> \E i \in 1..l : Occurs(x, ss[i])
           B == {l \in 0..L : ~Good(l)}
<1>3. Good(0)
  <2>1. DOMAIN f[0] = {}
    BY <1>1
  <2>2. QED BY <2>1 DEF Closed, Occurs
<1>4. ASSUME NEW l \in 1..L, Good(l - 1) PROVE Good(l)
  <2> HIDE DEF Good, B
  <2>1. l - 1 \in 0..L /\ l \in 1..L /\ f[l] = f[l - 1] \o ss[l]
    <3>1. f[l] = f[l - 1] \o ss[l]
      BY <1>1, Zenon
    <3>2. QED BY <1>2, <3>1
  <2>2. f[l - 1] \in Seq(T) /\ ss[l] \in Seq(T) /\ Closed(ss[l], need)
    BY <1>1, <1>2, <2>1 DEF L
  <2>3. Joined2(f[l - 1], ss[l], f[l])
    BY <2>1, <2>2, Concatenation
  <2>4. Closed(f[l], need)
    <3>1. Closed(f[l - 1], need)
      BY <1>4 DEF Good
    <3>2. \A k \in DOMAIN ss[l] : \A x \in need[ss[l][k]] : Before(x, ss[l], k)
      BY <2>2 DEF Closed
    <3>3. QED BY <2>3, <3>1, <3>2, JoinedClosed
  <2>5. \A x : Occurs(x, f[l]) <=> Occurs(x, f[l - 1]) \/ Occurs(x, ss[l])
    BY <2>3, JoinedElements
  <2>6. \A i \in 1..l : i = l \/ i \in 1..(l - 1)
    BY <1>2
  <2>7. \A i \in 1..(l - 1) : i \in 1..l
    BY <1>2
  <2>8. l \in 1..l
    BY <1>2
  <2>9. \A x : Occurs(x, f[l - 1]) <=> \E i \in 1..(l - 1) : Occurs(x, ss[i])
    BY <1>4 DEF Good
  <2>10. QED BY <2>4, <2>5, <2>6, <2>7, <2>8, <2>9 DEF Good
<1> HIDE DEF Good
<1>5. Good(L)
  <2>0. L \in 0..L
    BY <1>2
  <2>1. SUFFICES ASSUME B # {} PROVE FALSE
    BY <2>0
  <2>2. B \subseteq Nat
    BY <1>2
  <2>3. PICK m \in B : \A k \in B : m <= k
    <3> HIDE DEF B
    <3>1. QED BY <2>1, <2>2, Least
  <2>4. m # 0 /\ m \in 1..L
    BY <1>2, <1>3, <2>3
  <2>5. m - 1 \in 0..L /\ m - 1 \notin B
    BY <1>2, <2>3, <2>4
  <2>6. QED BY <1>4, <2>3, <2>4, <2>5
<1>6. f[L] \in Seq(T)
  BY <1>1, <1>2
<1>7. QED BY <1>1, <1>5, <1>6 DEF Good, L

(* The first element of a concatenation is that of the first list which    *)
(* has one.                                                                *)
LEMMA ConcatHead ==
  ASSUME NEW T, NEW ss \in Seq(Seq(T)), NEW m \in DOMAIN ss, ss[m] # <<>>,
         \A i \in 1..(m - 1) : ss[i] = <<>>
  PROVE  Concat(ss) # <<>> /\ Head(Concat(ss)) = Head(ss[m])
<1> DEFINE L == Len(ss)
           x == ss[m][1]
<1>1. PICK f \in [0..L -> Seq(T)] :
           /\ f[0] = <<>>
           /\ \A i \in 1..L : f[i] = f[i - 1] \o ss[i]
           /\ Concat(ss) = f[L]
  BY ConcatSteps
<1>2. L \in Nat /\ DOMAIN ss = 1..L /\ \A i \in 1..L : ss[i] \in Seq(T)
  BY SeqFacts
<1>3. Len(ss[m]) \in Nat \ {0} /\ DOMAIN ss[m] = 1..Len(ss[m])
  <2>1. ss[m] \in Seq(T)
    BY <1>2
  <2>2. DOMAIN ss[m] = 1..Len(ss[m]) /\ Len(ss[m]) \in Nat /\ Len(ss[m]) # 0
    BY <2>1, SeqFacts, EmptySeq
  <2>3. QED BY <2>2
<1>4. m \in 1..L /\ m \in Nat
  BY <1>2
<1> HIDE DEF L, x
<1> DEFINE Good(l) == /\ l < m => Len(f[l]) = 0
                      /\ l >= m => Len(f[l]) # 0 /\ f[l][1] = x
           B == {l \in 0..L : ~Good(l)}
<1>5. Good(0)
  <2>1. Len(f[0]) = 0
    BY <1>1
  <2>2. QED BY <1>4, <2>1
<1>6. ASSUME NEW l \in 1..L, Good(l - 1) PROVE Good(l)
  <2>0. l \in Int /\ l - 1 \in 0..L /\ (l - 1 < m => Len(f[l - 1]) = 0)
        /\ (l - 1 >= m => Len(f[l - 1]) # 0 /\ f[l - 1][1] = x)
    BY <1>2, <1>6
  <2> HIDE DEF Good, B
  <2>1. f[l] = f[l - 1] \o ss[l]
    BY <1>1, Zenon
  <2>2. f[l - 1] \in Seq(T) /\ ss[l] \in Seq(T)
    BY <1>1, <1>2, <2>0
  <2>3. Joined2(f[l - 1], ss[l], f[l])
    BY <2>1, <2>2, Concatenation
  <2>4. CASE l < m
    <3>1. Len(f[l - 1]) = 0 /\ ss[l] = <<>>
      <4>1. l - 1 < m /\ l \in 1..(m - 1)
        BY <1>4, <2>0, <2>4
      <4>2. Len(f[l - 1]) = 0
        BY <2>0, <4>1
      <4>3. QED BY <4>1, <4>2
    <3>2. Len(f[l]) = 0
      BY <2>3, <3>1 DEF Joined2
    <3>3. QED BY <1>4, <2>0, <2>4, <3>2 DEF Good
  <2>5. CASE l = m
    <3>1. Len(f[l - 1]) = 0
      BY <1>4, <2>0, <2>5
    <3>2. Len(f[l]) = Len(ss[m]) /\ f[l][1] = ss[m][1]
      BY <1>3, <2>3, <2>5, <3>1 DEF Joined2
    <3>3. QED BY <1>3, <1>4, <2>5, <3>2 DEF Good, x
  <2>6. CASE l > m
    <3>1. Len(f[l - 1]) # 0 /\ f[l - 1][1] = x
      BY <1>4, <2>0, <2>6
    <3>2. Len(f[l - 1]) \in Nat /\ Len(ss[l]) \in Nat
      BY <2>2, SeqFacts
    <3>3. Len(f[l]) = Len(f[l - 1]) + Len(ss[l])
      BY <2>3 DEF Joined2
    <3>4. Len(f[l]) # 0
      <4> DEFINE a == Len(f[l - 1])
                 b == Len(ss[l])
                 c == Len(f[l])
      <4>1. a \in Nat /\ b \in Nat /\ a # 0 /\ c = a + b
        BY <3>1, <3>2, <3>3
      <4> HIDE DEF a, b, c
      <4>2. c # 0
        BY <4>1
      <4>3. QED BY <4>2 DEF c
    <3>5. 1 \in 1..Len(f[l - 1])
      BY <3>1, <3>2
    <3>6. f[l][1] = x
      BY <2>3, <3>1, <3>5 DEF Joined2
    <3>7. QED BY <1>4, <2>0, <2>6, <3>4, <3>6 DEF Good
  <2>7. QED BY <1>4, <2>0, <2>4, <2>5, <2>6
<1> HIDE DEF Good
<1>7. Good(L)
  <2>0. L \in 0..L
    BY <1>2
  <2>1. SUFFICES ASSUME B # {} PROVE FALSE
    BY <2>0
  <2>2. B \subseteq Nat
    BY <1>2
  <2>3. PICK k \in B : \A l \in B : k <= l
    <3> HIDE DEF B
    <3>1. QED BY <2>1, <2>2, Least
  <2>4. k # 0 /\ k \in 1..L
    BY <1>2, <1>5, <2>3
  <2>5. k - 1 \in 0..L /\ k - 1 \notin B
    BY <1>2, <2>3, <2>4
  <2>6. QED BY <1>6, <2>3, <2>4, <2>5
<1>8. Len(f[L]) # 0 /\ f[L][1] = x /\ f[L] \in Seq(T)
  BY <1>1, <1>2, <1>4, <1>7 DEF Good
<1>9. Concat(ss) # <<>> /\ Concat(ss)[1] = x
  BY <1>1, <1>8, EmptySeq
<1>10. Head(Concat(ss)) = Concat(ss)[1] /\ Head(ss[m]) = ss[m][1]
  BY <1>2, <1>9
<1>11. QED BY <1>9, <1>10 DEF x

-----------------------------------------------------------------------------
LEMMA MinIs ==
  ASSUME NEW S, S \subseteq Nat, S # {}
  PROVE  Min(S) \in S /\ \A k \in S : Min(S) <= k
<1>1. \E m \in S : \A k \in S : m <= k
  BY Least
<1>2. QED BY <1>1 DEF Min

LEMMA MaxIs ==
  ASSUME NEW n \in Nat, NEW S, S \subseteq 0..n, S # {}
  PROVE  Max(S) \in S /\ \A k \in S : k <= Max(S)
<1> DEFINE U == {n - k : k \in S}
<1>1. U \subseteq Nat /\ U # {}
  <2>1. \A k \in S : k \in 0..n /\ n - k \in Nat
    OBVIOUS
  <2>2. QED BY <2>1
<1> HIDE DEF U
<1>2. PICK m \in U : \A k \in U : m <= k
  BY <1>1, Least
<1>3. PICK x \in S : m = n - x
  BY <1>2 DEF U
<1>4. ASSUME NEW k \in S PROVE k <= x
  <2>1. n - k \in U
    BY DEF U
  <2>2. m <= n - k /\ k \in Int /\ x \in Int
    BY <1>2, <1>3, <2>1
  <2>3. QED BY <1>3, <2>2
<1>5. \E y \in S : \A k \in S : y >= k
  <2>1. \A k \in S : k \in Int /\ x >= k
    BY <1>4
  <2>2. QED BY <2>1
<1> DEFINE Top(y) == y \in S /\ \A k \in S : y >= k
<1>6. Max(S) = CHOOSE y \in S : \A k \in S : y >= k
  BY DEF Max
<1>7. Max(S) \in S /\ \A k \in S : Max(S) >= k
  BY <1>5, <1>6
<1>8. QED BY <1>7

-----------------------------------------------------------------------------
(* What a recording is made of.                                            *)
LEMMA RecordingShape ==
  ASSUME NEW r \in Recordings
  PROVE  /\ Len(r.passes) \in Nat /\ DOMAIN r.passes = 1..Len(r.passes)
         /\ Len(r.nodes) \in Nat /\ DOMAIN r.nodes = 1..Len(r.nodes)
         /\ \A n \in DOMAIN r.nodes : r.nodes[n] \in NodeType
         /\ \A p \in DOMAIN r.passes : r.passes[p] \in PassType /\ r.passes[p].acc \in Seq(AccessType)
<1>1. r.passes \in Seq(PassType) /\ r.nodes \in Seq(NodeType)
  BY DEF Recordings
<1>2. \A x \in PassType : x.acc \in Seq(AccessType)
  BY DEF PassType
<1>3. QED BY <1>1, <1>2

(* The accesses of a pass to a node: those that Uses, Writes and Reads     *)
(* speak of.                                                               *)
LEMMA AccessesType ==
  ASSUME NEW r \in Recordings, NEW p \in DOMAIN r.passes, NEW n
  PROVE  /\ AccessesOf(r, p, n) \in Seq(AccessType)
         /\ \A a : a \in ToSet(AccessesOf(r, p, n)) <=> a \in ToSet(r.passes[p].acc) /\ a.n = n
         /\ AccessesOf(r, p, n) # <<>> <=> \E a \in ToSet(r.passes[p].acc) : a.n = n
<1> DEFINE acc == r.passes[p].acc
           S == {i \in DOMAIN acc : acc[i].n = n}
           s == AccessesOf(r, p, n)
<1>1. acc \in Seq(AccessType)
  BY RecordingShape
<1>2. s = Picked(acc, S)
  BY DEF AccessesOf
<1>3. S \subseteq DOMAIN acc
  OBVIOUS
<1>S. \A i \in S : i \in DOMAIN acc /\ acc[i].n = n
  OBVIOUS
<1>T. \A i \in DOMAIN acc : acc[i].n = n => i \in S
  OBVIOUS
<1> HIDE DEF acc, S, s
<1>4. s \in Seq(AccessType)
  BY <1>1, <1>2, <1>3, PickedType
<1>5. PICK e : PickedAt(e, s, acc, S)
  BY <1>1, <1>2, <1>3, PickedType
<1>6. \A a : a \in ToSet(s) <=> a \in ToSet(acc) /\ a.n = n
  BY <1>5, <1>S, <1>T DEF ToSet, PickedAt
<1>7. s # <<>> <=> \E a \in ToSet(s) : TRUE
  <2>1. s # <<>> <=> DOMAIN s # {}
    BY <1>4, NotEmpty
  <2>2. QED BY <2>1 DEF ToSet
<1>8. QED BY <1>4, <1>6, <1>7 DEF acc, s

LEMMA UsesAre ==
  ASSUME NEW r \in Recordings, NEW p \in DOMAIN r.passes, NEW n
  PROVE  /\ Uses(r, p, n) <=> \E a \in ToSet(r.passes[p].acc) : a.n = n
         /\ Writes(r, p, n) <=> \E a \in ToSet(r.passes[p].acc) : a.n = n /\ IsWrite(a)
         /\ Reads(r, p, n) <=> \E a \in ToSet(r.passes[p].acc) : a.n = n /\ ~IsWrite(a)
<1>1. \A a : a \in ToSet(AccessesOf(r, p, n)) <=> a \in ToSet(r.passes[p].acc) /\ a.n = n
  BY AccessesType
<1>2. Uses(r, p, n) <=> \E a \in ToSet(r.passes[p].acc) : a.n = n
  BY AccessesType DEF Uses
<1>3. QED BY <1>1, <1>2 DEF Writes, Reads

-----------------------------------------------------------------------------
(* Phase 1 and 2 of compile().                                             *)
LEMMA ProducerIs ==
  ASSUME NEW r \in Recordings, NEW skip, NEW p \in DOMAIN r.passes, NEW n
  PROVE  LET q == Producer(r, skip, p, n) IN
         /\ q \in 0..(p - 1)
         /\ q # 0 => q \in 1..(p - 1) /\ q \notin skip /\ Writes(r, q, n)
         /\ \A x \in 1..(p - 1) \ skip : Writes(r, x, n) => x <= q
<1> DEFINE S == {0} \cup {q \in 1..(p - 1) \ skip : Writes(r, q, n)}
<1>1. p - 1 \in Nat /\ S \subseteq 0..(p - 1) /\ S # {}
  BY RecordingShape
<1>2. Max(S) \in S /\ \A k \in S : k <= Max(S)
  <2> HIDE DEF S
  <2>1. QED BY <1>1, MaxIs
<1>3. QED BY <1>1, <1>2 DEF Producer

(* What must come before pass p.                                           *)
Needs(r, skip, p) ==
  {q \in 1..(p - 1) :
     \E a \in ToSet(r.passes[p].acc) :
       q = Producer(r, skip, p, a.n) \/ (IsWrite(a) /\ q \in Readers(r, skip, p, a.n))}

LEMMA EdgesAre ==
  ASSUME NEW r \in Recordings, NEW skip, NEW p \in DOMAIN r.passes, NEW a
  PROVE  /\ Edges(r, skip, p, a) \in Seq(1..(p - 1))
         /\ \A q : Occurs(q, Edges(r, skip, p, a)) <=>
              /\ q \in 1..(p - 1)
              /\ q = Producer(r, skip, p, a.n) \/ (IsWrite(a) /\ q \in Readers(r, skip, p, a.n))
<1> DEFINE T == 1..(p - 1)
           x == Producer(r, skip, p, a.n)
           R == Readers(r, skip, p, a.n)
           s == ProducerEdge(r, skip, p, a.n)
           t == IF IsWrite(a) THEN Backwards(Ascending(R)) ELSE <<>>
<1>1. p - 1 \in Nat /\ p \in Nat
  BY RecordingShape
<1>2. x \in 0..(p - 1)
  BY ProducerIs
<1>3. R \subseteq 1..(p - 1)
  BY DEF Readers
<1>4. Edges(r, skip, p, a) = s \o t
  BY DEF Edges
<1> HIDE DEF T, x, R, s, t
<1>5. s \in Seq(T) /\ \A q : Occurs(q, s) <=> q \in T /\ q = x
  <2>1. CASE x = 0
    <3>1. s = <<>>
      BY <2>1 DEF s, x, ProducerEdge
    <3>2. QED BY <1>1, <2>1, <3>1 DEF Occurs, T
  <2>2. CASE x # 0
    <3>1. s = <<x>> /\ x \in T
      BY <1>1, <1>2, <2>2 DEF s, x, ProducerEdge, T
    <3>2. s \in Seq(T) /\ DOMAIN s = {1} /\ s[1] = x
      BY <3>1
    <3>3. QED BY <3>1, <3>2 DEF Occurs
  <2>3. QED BY <2>1, <2>2
<1>6. t \in Seq(T) /\ \A q : Occurs(q, t) <=> IsWrite(a) /\ q \in R
  <2>1. CASE ~IsWrite(a)
    <3>1. t = <<>>
      BY <2>1 DEF t
    <3>2. QED BY <2>1, <3>1 DEF Occurs
  <2>2. CASE IsWrite(a)
    <3> DEFINE u == Ascending(R)
    <3>1. t = Backwards(u)
      BY <2>2 DEF t
    <3>2. u \in Seq(R) /\ \A k \in R : \E i \in DOMAIN u : u[i] = k
      BY <1>1, <1>3, AscendingType
    <3> HIDE DEF u
    <3>3. u \in Seq(T)
      BY <1>3, <3>2, SeqSubset DEF T
    <3>4. t \in Seq(T)
      BY <3>1, <3>3, BackwardsType
    <3>5. \A q : Occurs(q, t) <=> Occurs(q, u)
      BY <3>1, <3>3, BackwardsElements
    <3>6. \A q : Occurs(q, u) <=> q \in R
      BY <3>2 DEF Occurs
    <3>7. QED BY <2>2, <3>4, <3>5, <3>6
  <2>3. QED BY <2>1, <2>2
<1>7. s \o t \in Seq(T) /\ Joined2(s, t, s \o t)
  BY <1>5, <1>6, Concatenation
<1>8. \A q : Occurs(q, s \o t) <=> Occurs(q, s) \/ Occurs(q, t)
  BY <1>7, JoinedElements
<1>9. \A q : q \in R => q \in T
  BY <1>3 DEF T
<1>10. QED BY <1>4, <1>5, <1>6, <1>7, <1>8, <1>9 DEF T, x, R

LEMMA AdjacencyIs ==
  ASSUME NEW r \in Recordings, NEW skip, NEW p \in DOMAIN r.passes
  PROVE  /\ Adjacency(r, skip, p) \in Seq(1..(p - 1))
         /\ \A q : Occurs(q, Adjacency(r, skip, p)) <=> q \in Needs(r, skip, p)
<1> DEFINE T == 1..(p - 1)
           acc == r.passes[p].acc
           ss == [i \in DOMAIN acc |-> Edges(r, skip, p, acc[i])]
<1>1. acc \in Seq(AccessType)
  BY RecordingShape
<1>2. Adjacency(r, skip, p) = Backwards(Distinct(Concat(ss)))
  BY DEF Adjacency
<1> HIDE DEF T
<1>3. \A i \in DOMAIN acc : Edges(r, skip, p, acc[i]) \in Seq(T)
  BY EdgesAre DEF T
<1>4. ss \in Seq(Seq(T)) /\ Len(ss) = Len(acc) /\ Len(acc) \in Nat /\ DOMAIN acc = 1..Len(acc)
  <2>1. Len(acc) \in Nat /\ DOMAIN acc = 1..Len(acc)
    BY <1>1
  <2> HIDE DEF acc
  <2>2. ss \in [1..Len(acc) -> Seq(T)]
    BY <1>3, <2>1
  <2> HIDE DEF ss
  <2>3. QED BY <2>1, <2>2
<1>5. \A i \in DOMAIN acc : ss[i] = Edges(r, skip, p, acc[i])
  OBVIOUS
<1> HIDE DEF acc, ss
<1> DEFINE c == Concat(ss)
           none == [x \in T |-> {}]
<1>6. c \in Seq(T) /\ \A q : Occurs(q, c) <=> \E i \in 1..Len(ss) : Occurs(q, ss[i])
  <2>1. \A i \in 1..Len(ss) : Closed(ss[i], none)
    <3>1. ASSUME NEW i \in 1..Len(ss) PROVE Closed(ss[i], none)
      <4>1. ss[i] \in Seq(T)
        BY <1>4
      <4>2. \A k \in DOMAIN ss[i] : ss[i][k] \in T
        BY <4>1
      <4>3. QED BY <4>2 DEF Closed
    <3>2. QED BY <3>1
  <2> HIDE DEF none
  <2>2. QED BY <1>4, <2>1, ConcatClosed
<1> HIDE DEF c
<1>7. Distinct(c) \in Seq(T) /\ \A q : Occurs(q, Distinct(c)) <=> Occurs(q, c)
  <2>1. Distinct(c) \in Seq(T)
    BY <1>6, DistinctType
  <2>2. QED BY <1>6, <2>1, DistinctElements
<1>8. Backwards(Distinct(c)) \in Seq(T) /\ \A q : Occurs(q, Backwards(Distinct(c))) <=> Occurs(q, Distinct(c))
  <2>1. Backwards(Distinct(c)) \in Seq(T)
    BY <1>7, BackwardsType
  <2>2. QED BY <1>7, <2>1, BackwardsElements
<1>9. \A q : (\E i \in 1..Len(ss) : Occurs(q, ss[i])) <=> q \in Needs(r, skip, p)
  <2>1. \A q : Occurs(q, c) <=> \E i \in DOMAIN acc : Occurs(q, Edges(r, skip, p, acc[i]))
    BY <1>4, <1>5, <1>6
  <2>2. \A q : \A i \in DOMAIN acc : Occurs(q, Edges(r, skip, p, acc[i])) <=>
              /\ q \in 1..(p - 1)
              /\ \/ q = Producer(r, skip, p, acc[i].n)
                 \/ IsWrite(acc[i]) /\ q \in Readers(r, skip, p, acc[i].n)
    BY EdgesAre
  <2>3. QED BY <1>6, <2>1, <2>2 DEF Needs, ToSet, acc
<1>10. QED BY <1>2, <1>6, <1>7, <1>8, <1>9 DEF T, c

-----------------------------------------------------------------------------
NeedOf(r, skip) == [p \in DOMAIN r.passes |-> Needs(r, skip, p)]

(* What the post-order of a pass goes on from: s is that of the passes     *)
(* before it.                                                              *)
PostStep(r, skip, s) ==
  LET p == Len(s) + 1
      needs == Adjacency(r, skip, p)
  IN  Distinct(Append(Concat([i \in DOMAIN needs |-> s[needs[i]]]), p))

(* The post-orders of the passes, in terms of each other.                  *)
IsPostOrder(r, skip, f) ==
  f = [p \in DOMAIN r.passes |->
         LET needs == Adjacency(r, skip, p) IN
         Distinct(Append(Concat([i \in DOMAIN needs |-> f[needs[i]]]), p))]

LEMMA ConcatType ==
  ASSUME NEW T, NEW ss \in Seq(Seq(T))
  PROVE  Concat(ss) \in Seq(T)
<1>1. PICK f \in [0..Len(ss) -> Seq(T)] :
           /\ f[0] = <<>>
           /\ \A i \in 1..Len(ss) : f[i] = f[i - 1] \o ss[i]
           /\ Concat(ss) = f[Len(ss)]
  BY ConcatSteps
<1>2. Len(ss) \in 0..Len(ss)
  OBVIOUS
<1>3. QED BY <1>1, <1>2

(* What is looked up in a list is a list of the same kind.                 *)
LEMMA LookedUp ==
  ASSUME NEW T, NEW n, NEW s \in Seq(n), NEW f, \A q \in n : f[q] \in T
  PROVE  [i \in DOMAIN s |-> f[s[i]]] \in Seq(T) /\ Len([i \in DOMAIN s |-> f[s[i]]]) = Len(s)
<1>1. Len(s) \in Nat /\ DOMAIN s = 1..Len(s) /\ \A i \in DOMAIN s : s[i] \in n
  OBVIOUS
<1>2. [i \in DOMAIN s |-> f[s[i]]] \in [1..Len(s) -> T]
  BY <1>1
<1>3. QED BY <1>1, <1>2

LEMMA PostStepType ==
  ASSUME NEW r \in Recordings, NEW skip, NEW s \in Seq(Seq(DOMAIN r.passes)), Len(s) < Len(r.passes)
  PROVE  PostStep(r, skip, s) \in Seq(DOMAIN r.passes)
<1> DEFINE P == DOMAIN r.passes
           p == Len(s) + 1
           needs == Adjacency(r, skip, p)
           ss == [i \in DOMAIN needs |-> s[needs[i]]]
<1>1. Len(r.passes) \in Nat /\ P = 1..Len(r.passes)
  BY RecordingShape
<1> HIDE DEF P
<1>2. s \in Seq(Seq(P)) /\ Len(s) \in Nat /\ \A q \in 1..Len(s) : s[q] \in Seq(P)
  BY DEF P
<1>3. p \in P /\ p - 1 = Len(s)
  BY <1>1, <1>2
<1> HIDE DEF p
<1>4. needs \in Seq(1..(p - 1))
  BY <1>3, AdjacencyIs DEF P
<1> HIDE DEF needs
<1>5. ss \in Seq(Seq(P))
  BY <1>2, <1>3, <1>4, LookedUp
<1> HIDE DEF ss
<1>6. Concat(ss) \in Seq(P)
  BY <1>5, ConcatType
<1>7. Append(Concat(ss), p) \in Seq(P)
  BY <1>3, <1>6
<1>8. Distinct(Append(Concat(ss), p)) \in Seq(P)
  BY <1>7, DistinctType
<1>9. QED BY <1>8 DEF PostStep, P, p, needs, ss

LEMMA PostOrderIs ==
  ASSUME NEW r \in Recordings, NEW skip
  PROVE  IsPostOrder(r, skip, PostOrder(r, skip))
<1> DEFINE P == DOMAIN r.passes
           L == Len(r.passes)
           V == Seq(P)
           G == [s \in Seq(V) |-> PostStep(r, skip, s)]
<1>1. L \in Nat /\ P = 1..L
  BY RecordingShape
<1>2. \A s \in Seq(V) : Len(s) < L => G[s] \in V
  BY PostStepType
<1> HIDE DEF V, G, L, P
<1>3. PICK f : Unfolds(f, L, V, G)
  BY <1>1, <1>2, CourseOfValues
<1>4. f \in [P -> V] /\ \A p \in P : f[p] = G[[j \in 1..(p - 1) |-> f[j]]]
  BY <1>1, <1>3 DEF Unfolds
<1>5. ASSUME NEW p \in P
      PROVE  LET needs == Adjacency(r, skip, p) IN
             f[p] = Distinct(Append(Concat([i \in DOMAIN needs |-> f[needs[i]]]), p))
  <2> DEFINE s == [j \in 1..(p - 1) |-> f[j]]
             needs == Adjacency(r, skip, p)
  <2>1. p \in Nat /\ p - 1 \in Nat /\ \A j \in 1..(p - 1) : j \in P
    BY <1>1
  <2>2. s \in Seq(V) /\ Len(s) = p - 1
    <3>1. s \in [1..(p - 1) -> V]
      BY <1>4, <2>1
    <3> HIDE DEF s
    <3>2. QED BY <2>1, <3>1
  <2>3. f[p] = PostStep(r, skip, s)
    BY <1>4, <2>2 DEF G
  <2>4. needs \in Seq(1..(p - 1))
    BY AdjacencyIs DEF P
  <2>5. \A j \in 1..(p - 1) : s[j] = f[j]
    OBVIOUS
  <2>6. Len(s) + 1 = p
    BY <2>1, <2>2
  <2> HIDE DEF s, needs
  <2>7. [i \in DOMAIN needs |-> s[needs[i]]] = [i \in DOMAIN needs |-> f[needs[i]]]
    <3>1. \A i \in DOMAIN needs : needs[i] \in 1..(p - 1)
      BY <2>4, SeqFacts, Zenon
    <3>2. \A i \in DOMAIN needs : s[needs[i]] = f[needs[i]]
      BY <2>5, <3>1
    <3>3. QED BY <3>2
  <2>8. PostStep(r, skip, s) = Distinct(Append(Concat([i \in DOMAIN needs |-> s[needs[i]]]), p))
    BY <2>6 DEF PostStep, needs
  <2>9. QED BY <2>3, <2>7, <2>8 DEF needs
<1>6. IsPostOrder(r, skip, f)
  <2>1. f = [p \in P |-> f[p]]
    BY <1>4
  <2>2. QED BY <1>5, <2>1 DEF IsPostOrder, P
<1>7. PostOrder(r, skip) = CHOOSE g : IsPostOrder(r, skip, g)
  BY DEF PostOrder, IsPostOrder
<1>8. QED BY <1>6, <1>7

LEMMA NeedsType ==
  ASSUME NEW r \in Recordings, NEW skip, NEW p \in DOMAIN r.passes
  PROVE  Needs(r, skip, p) \subseteq 1..(p - 1) \ skip
<1>1. ASSUME NEW q \in Needs(r, skip, p) PROVE q \in 1..(p - 1) /\ q \notin skip
  <2>1. q \in 1..(p - 1) /\ q # 0
    BY RecordingShape DEF Needs
  <2>2. PICK a : q = Producer(r, skip, p, a.n) \/ q \in Readers(r, skip, p, a.n)
    BY DEF Needs
  <2>3. CASE q = Producer(r, skip, p, a.n)
    BY <2>1, <2>3, ProducerIs
  <2>4. CASE q \in Readers(r, skip, p, a.n)
    BY <2>1, <2>4 DEF Readers
  <2>5. QED BY <2>1, <2>2, <2>3, <2>4
<1>2. QED BY <1>1

(* What the post-order of a pass is: what it needs comes before it.        *)
PostSound(r, skip, p, s) ==
  /\ s \in Seq(DOMAIN r.passes)
  /\ Closed(s, NeedOf(r, skip))
  /\ Occurs(p, s)
  /\ p \notin skip => \A q \in DOMAIN r.passes : Occurs(q, s) => q \notin skip

LEMMA PostOrderSound ==
  ASSUME NEW r \in Recordings, NEW skip, NEW p \in DOMAIN r.passes
  PROVE  PostSound(r, skip, p, PostOrder(r, skip)[p])
<1> DEFINE P == DOMAIN r.passes
           f == PostOrder(r, skip)
           B == {q \in P : ~PostSound(r, skip, q, f[q])}
<1>1. Len(r.passes) \in Nat /\ P = 1..Len(r.passes)
  BY RecordingShape
<1>2. IsPostOrder(r, skip, f)
  BY PostOrderIs
<1> HIDE DEF f, P
<1>3. ASSUME NEW q \in P, \A x \in 1..(q - 1) : PostSound(r, skip, x, f[x])
      PROVE  PostSound(r, skip, q, f[q])
  <2> DEFINE needs == Adjacency(r, skip, q)
             ss == [i \in DOMAIN needs |-> f[needs[i]]]
             need == NeedOf(r, skip)
             c == Concat(ss)
  <2>1. f[q] = Distinct(Append(Concat(ss), q))
    BY <1>2 DEF IsPostOrder, P
  <2>2. needs \in Seq(1..(q - 1)) /\ \A x : Occurs(x, needs) <=> x \in Needs(r, skip, q)
    BY AdjacencyIs DEF P
  <2>n. need[q] = Needs(r, skip, q)
    BY DEF NeedOf, P
  <2> HIDE DEF needs, need
  <2>3. \A x \in 1..(q - 1) : f[x] \in Seq(P) /\ Closed(f[x], need) /\ Occurs(x, f[x])
    BY <1>3 DEF PostSound, P, need
  <2>4. ss \in Seq(Seq(P)) /\ Len(ss) = Len(needs)
    <3> DEFINE K == 1..(q - 1)
               W == Seq(P)
    <3>1. (\A x \in K : f[x] \in W) /\ needs \in Seq(K)
      BY <2>2, <2>3
    <3> HIDE DEF K, W
    <3>2. ss \in Seq(W) /\ Len(ss) = Len(needs)
      BY <3>1, LookedUp
    <3>3. QED BY <3>2 DEF W
  <2>5. /\ Len(needs) \in Nat /\ DOMAIN needs = 1..Len(needs)
        /\ \A i \in DOMAIN needs : needs[i] \in 1..(q - 1)
    BY <2>2, SeqFacts, Zenon
  <2>6. \A i \in DOMAIN needs : ss[i] = f[needs[i]]
    OBVIOUS
  <2> HIDE DEF ss
  <2>7. \A i \in 1..Len(ss) : Closed(ss[i], need)
    BY <2>3, <2>4, <2>5, <2>6
  <2>8. /\ c \in Seq(P) /\ Closed(c, need)
        /\ \A x : Occurs(x, c) <=> \E i \in 1..Len(ss) : Occurs(x, ss[i])
    BY <2>4, <2>7, ConcatClosed
  <2> HIDE DEF c
  <2>9. \A x \in need[q] : Occurs(x, c)
    <3>1. ASSUME NEW x \in need[q] PROVE Occurs(x, c)
      <4>1. Occurs(x, needs)
        BY <2>2, <2>n
      <4>2. PICK i \in DOMAIN needs : needs[i] = x
        BY <4>1 DEF Occurs
      <4>3. Occurs(x, ss[i]) /\ i \in 1..Len(ss)
        BY <2>3, <2>4, <2>5, <2>6, <4>2
      <4>4. QED BY <2>8, <4>3
    <3>2. QED BY <3>1
  <2>10. /\ Append(c, q) \in Seq(P) /\ Closed(Append(c, q), need)
         /\ \A x : Occurs(x, Append(c, q)) <=> Occurs(x, c) \/ x = q
    BY <2>8, <2>9, AppendClosed
  <2>11. /\ f[q] \in Seq(P) /\ Closed(f[q], need)
         /\ \A x : Occurs(x, f[q]) <=> Occurs(x, Append(c, q))
    <3> DEFINE t == Append(c, q)
    <3>1. f[q] = Distinct(t) /\ t \in Seq(P) /\ Closed(t, need)
      BY <2>1, <2>10 DEF c
    <3> HIDE DEF t
    <3>2. Distinct(t) \in Seq(P) /\ Closed(Distinct(t), need)
      BY <3>1, DistinctType, DistinctClosed
    <3>3. \A x : Occurs(x, Distinct(t)) <=> Occurs(x, t)
      BY <3>1, DistinctElements
    <3>4. QED BY <3>1, <3>2, <3>3 DEF t
  <2>12. Occurs(q, f[q])
    BY <2>10, <2>11
  <2>13. ASSUME q \notin skip, NEW x \in P, Occurs(x, f[q]) PROVE x \notin skip
    <3>1. x = q \/ Occurs(x, c)
      BY <2>10, <2>11, <2>13
    <3>2. CASE Occurs(x, c)
      <4>1. PICK i \in 1..Len(ss) : Occurs(x, ss[i])
        BY <2>8, <3>2
      <4>2. needs[i] \in 1..(q - 1) /\ ss[i] = f[needs[i]]
        BY <2>4, <2>5, <2>6
      <4>3. needs[i] \in Needs(r, skip, q)
        BY <2>2, <2>4, <2>5 DEF Occurs
      <4>4. needs[i] \notin skip
        BY <4>3, NeedsType DEF P
      <4>5. QED BY <1>3, <4>1, <4>2, <4>4 DEF PostSound, P
    <3>3. QED BY <2>13, <3>1, <3>2
  <2>14. QED BY <2>11, <2>12, <2>13 DEF PostSound, P, need
<1>4. B = {}
  <2>1. SUFFICES ASSUME B # {} PROVE FALSE
    OBVIOUS
  <2>2. B \subseteq Nat
    BY <1>1
  <2>3. PICK m \in B : \A k \in B : m <= k
    <3> HIDE DEF B
    <3>1. QED BY <2>1, <2>2, Least
  <2>4. \A x \in 1..(m - 1) : x \in P /\ x \notin B
    BY <1>1, <2>3
  <2>5. QED BY <1>3, <2>3, <2>4
<1>5. QED BY <1>4 DEF P, f

(* What compile() makes of the passes.                                     *)
OrderSound(r, skip, order) ==
  /\ order \in Seq(DOMAIN r.passes)
  /\ \A i \in DOMAIN order : order[i] \notin skip
  /\ \A i, j \in DOMAIN order : order[i] = order[j] => i = j
  /\ Closed(order, NeedOf(r, skip))
  /\ \A p \in DOMAIN r.passes : p \notin skip /\ IsSink(r, p) => Occurs(p, order)

LEMMA OrderIsSound ==
  ASSUME NEW r \in Recordings, NEW skip
  PROVE  OrderSound(r, skip, OrderOf(r, skip))
<1> DEFINE P == DOMAIN r.passes
           f == PostOrder(r, skip)
           S == {p \in P \ skip : IsSink(r, p)}
           sinks == Ascending(S)
           need == NeedOf(r, skip)
           ss == [i \in DOMAIN sinks |-> f[sinks[i]]]
           c == Concat(ss)
<1>1. OrderOf(r, skip) = Distinct(c)
  BY DEF OrderOf
<1>2. Len(r.passes) \in Nat /\ P = 1..Len(r.passes) /\ S \subseteq P
  BY RecordingShape
<1>S. \A p : p \in S <=> p \in P /\ p \notin skip /\ IsSink(r, p)
  OBVIOUS
<1> HIDE DEF P, S
<1>3. sinks \in Seq(S) /\ \A k \in S : \E i \in DOMAIN sinks : sinks[i] = k
  BY <1>2, AscendingType
<1> HIDE DEF sinks
<1>4. ASSUME NEW p \in S
      PROVE  /\ f[p] \in Seq(P) /\ Closed(f[p], need) /\ Occurs(p, f[p])
             /\ \A q \in P : Occurs(q, f[p]) => q \notin skip
  <2>1. p \in DOMAIN r.passes /\ p \notin skip
    BY <1>S DEF P
  <2>2. PostSound(r, skip, p, f[p])
    BY <2>1, PostOrderSound
  <2>3. QED BY <2>1, <2>2 DEF PostSound, P
<1> HIDE DEF f, need
<1>5. ss \in Seq(Seq(P)) /\ Len(ss) = Len(sinks)
  BY <1>3, <1>4, LookedUp
<1>6. /\ Len(sinks) \in Nat /\ DOMAIN sinks = 1..Len(sinks)
      /\ \A i \in DOMAIN sinks : sinks[i] \in S
  BY <1>3, SeqFacts, Zenon
<1>7. \A i \in DOMAIN sinks : ss[i] = f[sinks[i]]
  OBVIOUS
<1> HIDE DEF ss
<1>8. \A i \in 1..Len(ss) : Closed(ss[i], need)
  BY <1>4, <1>5, <1>6, <1>7
<1>9. /\ c \in Seq(P) /\ Closed(c, need)
      /\ \A x : Occurs(x, c) <=> \E i \in 1..Len(ss) : Occurs(x, ss[i])
  BY <1>5, <1>8, ConcatClosed
<1> HIDE DEF c
<1> DEFINE d == Distinct(c)
<1>10. /\ d \in Seq(P) /\ Closed(d, need)
       /\ \A i, j \in DOMAIN d : d[i] = d[j] => i = j
       /\ \A x : Occurs(x, d) <=> Occurs(x, c)
  BY <1>9, DistinctType, DistinctClosed, DistinctElements
<1> HIDE DEF d
<1>11. ASSUME NEW i \in DOMAIN d PROVE d[i] \notin skip
  <2>1. d[i] \in P /\ Occurs(d[i], d)
    BY <1>10, SeqFacts DEF Occurs
  <2>2. PICK j \in 1..Len(ss) : Occurs(d[i], ss[j])
    BY <1>9, <1>10, <2>1
  <2>3. QED BY <1>4, <1>5, <1>6, <1>7, <2>1, <2>2
<1>12. ASSUME NEW p \in S PROVE Occurs(p, d)
  <2>1. PICK i \in DOMAIN sinks : sinks[i] = p
    BY <1>3
  <2>2. i \in 1..Len(ss) /\ Occurs(p, ss[i])
    BY <1>4, <1>5, <1>6, <1>7, <2>1
  <2>3. QED BY <1>9, <1>10, <2>2
<1>13. QED BY <1>1, <1>10, <1>11, <1>12, <1>S DEF OrderSound, P, d, need

(* A pass runs after all that wrote what it uses, and after all that read  *)
(* what it writes, if they were declared before it.                        *)
LEMMA NeededBefore ==
  ASSUME NEW r \in Recordings, NEW skip, NEW order, OrderSound(r, skip, order),
         NEW i \in DOMAIN order, NEW n, Uses(r, order[i], n),
         NEW q \in 1..(order[i] - 1) \ skip,
         Writes(r, q, n) \/ (Reads(r, q, n) /\ Writes(r, order[i], n))
  PROVE  Before(q, order, i)
<1> DEFINE Missed(j) == /\ Uses(r, order[j], n) /\ q \in 1..(order[j] - 1)
                        /\ Writes(r, q, n) \/ (Reads(r, q, n) /\ Writes(r, order[j], n))
                        /\ ~Before(q, order, j)
           B == {p \in DOMAIN r.passes : \E j \in DOMAIN order : order[j] = p /\ Missed(j)}
<1>1. Len(r.passes) \in Nat /\ DOMAIN r.passes = 1..Len(r.passes)
  BY RecordingShape
<1>2. /\ DOMAIN order \subseteq Int
      /\ \A j \in DOMAIN order : order[j] \in DOMAIN r.passes
  <2>1. order \in Seq(DOMAIN r.passes)
    BY DEF OrderSound
  <2>2. QED BY <2>1, SeqFacts
<1>3. SUFFICES ASSUME ~Before(q, order, i) PROVE FALSE
  OBVIOUS
<1>4. B # {}
  <2>1. Missed(i)
    BY <1>3
  <2>2. QED BY <1>2, <2>1
<1>5. B \subseteq Nat
  BY <1>1
<1>6. PICK m \in B : \A k \in B : m <= k
  <2> HIDE DEF B
  <2>1. QED BY <1>4, <1>5, Least
<1>7. PICK j \in DOMAIN order : order[j] = m /\ Missed(j)
  BY <1>6
<1>8. m \in DOMAIN r.passes /\ m \in Nat /\ q \in 1..(m - 1) /\ q \notin skip
  BY <1>1, <1>2, <1>7
<1>9. PICK a \in ToSet(r.passes[m].acc) : a.n = n /\ (Writes(r, m, n) => IsWrite(a))
  BY <1>7, <1>8, UsesAre
<1> DEFINE x == Producer(r, skip, m, n)
<1>10. /\ x \in 0..(m - 1)
       /\ x # 0 => x \in 1..(m - 1) /\ x \notin skip /\ Writes(r, x, n)
       /\ Writes(r, q, n) => q <= x
  BY <1>8, ProducerIs
<1>11. q = x \/ (q > x /\ q \in Readers(r, skip, m, n) /\ Writes(r, m, n)) => q \in Needs(r, skip, m)
  BY <1>8, <1>9 DEF Needs
<1>12. \A y \in Needs(r, skip, m) : Before(y, order, j)
  BY <1>7, <1>8 DEF OrderSound, Closed, NeedOf
<1>13. q \notin Needs(r, skip, m)
  BY <1>7, <1>12
<1>14. q < x
  <2>1. CASE Writes(r, q, n)
    BY <1>8, <1>10, <1>11, <1>13, <2>1
  <2>2. CASE Reads(r, q, n) /\ Writes(r, m, n)
    <3>1. q >= x => q \in Readers(r, skip, m, n)
      BY <1>8, <2>2 DEF Readers
    <3>2. QED BY <1>8, <1>10, <1>11, <1>13, <2>2, <3>1
  <2>3. QED BY <1>7, <2>1, <2>2
<1>15. x \in 1..(m - 1) /\ x \in Needs(r, skip, m) /\ Writes(r, x, n)
  BY <1>8, <1>9, <1>10, <1>14 DEF Needs
<1>16. PICK k \in DOMAIN order : k < j /\ order[k] = x
  BY <1>12, <1>15 DEF Before
<1>17. x \in DOMAIN r.passes /\ q \in 1..(x - 1)
  BY <1>1, <1>8, <1>14, <1>15
<1>18. Uses(r, x, n)
  BY <1>15, <1>17, UsesAre
<1>19. x \notin B
  BY <1>6, <1>8, <1>15
<1>20. Before(q, order, k)
  BY <1>7, <1>15, <1>16, <1>17, <1>18, <1>19
<1>21. Before(q, order, j)
  BY <1>2, <1>16, <1>20 DEF Before
<1>22. QED BY <1>7, <1>21

(* Passes of which one writes what the other uses run in the order in      *)
(* which they were declared.                                               *)
THEOREM ConflictsKeepTheirOrder ==
  ASSUME NEW r \in Recordings, NEW skip,
         NEW i \in DOMAIN OrderOf(r, skip), NEW j \in DOMAIN OrderOf(r, skip), NEW n,
         LET p == OrderOf(r, skip)[i]
             q == OrderOf(r, skip)[j]
         IN  /\ p < q /\ Uses(r, p, n) /\ Uses(r, q, n)
             /\ Writes(r, p, n) \/ Writes(r, q, n)
  PROVE  i < j
<1> DEFINE order == OrderOf(r, skip)
<1>1. OrderSound(r, skip, order)
  BY OrderIsSound
<1> HIDE DEF order
<1>2. /\ order \in Seq(DOMAIN r.passes)
      /\ \A k \in DOMAIN order : order[k] \notin skip
      /\ \A k, l \in DOMAIN order : order[k] = order[l] => k = l
  BY <1>1 DEF OrderSound
<1>3. order[i] \in DOMAIN r.passes /\ order[j] \in DOMAIN r.passes /\ i \in DOMAIN order /\ j \in DOMAIN order
  BY <1>2, SeqFacts DEF order
<1>4. order[i] \in 1..(order[j] - 1) \ skip
  BY <1>2, <1>3, RecordingShape DEF order
<1>5. Writes(r, order[i], n) \/ Reads(r, order[i], n)
  BY <1>3, UsesAre DEF order
<1>6. Before(order[i], order, j)
  BY <1>1, <1>3, <1>4, <1>5, NeededBefore DEF order
<1>7. QED BY <1>2, <1>3, <1>6 DEF Before

(* A pass that has an effect runs unless it is skipped, none runs twice,   *)
(* and none of the skipped ones runs.                                      *)
THEOREM EffectsRunOnce ==
  ASSUME NEW r \in Recordings, NEW skip
  PROVE  /\ \A p \in DOMAIN r.passes \ skip : IsSink(r, p) => p \in ToSet(OrderOf(r, skip))
         /\ \A i, j \in DOMAIN OrderOf(r, skip) : OrderOf(r, skip)[i] = OrderOf(r, skip)[j] => i = j
         /\ ToSet(OrderOf(r, skip)) \cap skip = {}
<1> DEFINE order == OrderOf(r, skip)
<1>1. OrderSound(r, skip, order)
  BY OrderIsSound
<1> HIDE DEF order
<1>2. /\ \A p \in DOMAIN r.passes \ skip : IsSink(r, p) => p \in ToSet(order)
      /\ \A i, j \in DOMAIN order : order[i] = order[j] => i = j
      /\ ToSet(order) \cap skip = {}
  BY <1>1 DEF OrderSound, Occurs, ToSet
<1>3. QED BY <1>2 DEF order

-----------------------------------------------------------------------------
(* Where a resource is used, and how.                                      *)
LEMMA UsedWithin ==
  ASSUME NEW r, NEW order, NEW T, order \in Seq(T), NEW n, UsedAt(r, order, n) # {}
  PROVE  /\ FirstUse(r, order, n) \in UsedAt(r, order, n)
         /\ LastUse(r, order, n) \in UsedAt(r, order, n)
         /\ UsedAt(r, order, n) \subseteq 1..Len(order) /\ Len(order) \in Nat
         /\ \A k \in UsedAt(r, order, n) : FirstUse(r, order, n) <= k /\ k <= LastUse(r, order, n)
<1> DEFINE S == UsedAt(r, order, n)
<1>1. Len(order) \in Nat /\ DOMAIN order = 1..Len(order)
  BY SeqFacts
<1>2. S \subseteq 1..Len(order)
  BY <1>1 DEF UsedAt
<1> HIDE DEF S
<1>3. S \subseteq Nat /\ S \subseteq 0..Len(order) /\ S # {}
  BY <1>1, <1>2 DEF S
<1>4. Min(S) \in S /\ \A k \in S : Min(S) <= k
  BY <1>3, MinIs
<1>5. Max(S) \in S /\ \A k \in S : k <= Max(S)
  BY <1>1, <1>3, MaxIs
<1>6. QED BY <1>1, <1>2, <1>4, <1>5 DEF S, FirstUse, LastUse

LEMMA UsageType ==
  ASSUME NEW r \in Recordings, Known(r), NEW passes, passes \subseteq DOMAIN r.passes, NEW n
  PROVE  UsageBy(r, passes, n) \subseteq Bits
<1>1. ASSUME NEW p \in passes, NEW a \in ToSet(AccessesOf(r, p, n)) PROVE UsageOf(a) \subseteq Bits
  <2>1. a \in ToSet(r.passes[p].acc) /\ p \in DOMAIN r.passes
    BY AccessesType
  <2>2. QED BY <2>1 DEF Known
<1>2. QED BY <1>1 DEF UsageBy

LEMMA ToSetType ==
  ASSUME NEW T, NEW s \in Seq(T)
  PROVE  ToSet(s) \subseteq T
BY SeqFacts DEF ToSet

-----------------------------------------------------------------------------
(* Phase 4.                                                                *)
AliasSlot(r) ==
  [kind : Kinds, sig : Sigs, usage : SUBSET Bits, identity : Names, freeFrom : Nat,
   members : SUBSET DOMAIN r.nodes]

Apart(r, order, m, n) ==
  LastUse(r, order, m) < FirstUse(r, order, n) \/ LastUse(r, order, n) < FirstUse(r, order, m)

Suits(r, slot, n) == slot.kind = r.nodes[n].kind /\ slot.sig = SigOf(r, n)

(* Who shares an object can, and does not use it at the same time.         *)
SlotsSound(r, order, slots, done) ==
  /\ slots \in Seq(AliasSlot(r))
  /\ \A i \in DOMAIN slots : slots[i].members \subseteq done
  /\ \A i \in DOMAIN slots : \A m \in slots[i].members : LastUse(r, order, m) <= slots[i].freeFrom
  /\ \A i \in DOMAIN slots : \A m, n \in slots[i].members : m # n => Apart(r, order, m, n)
  /\ \A i \in DOMAIN slots : \A m \in slots[i].members : Suits(r, slots[i], m)
  /\ \A i, j \in DOMAIN slots : i # j => slots[i].members \cap slots[j].members = {}

LEMMA AliasableUsed ==
  ASSUME NEW r \in Recordings, NEW order \in Seq(DOMAIN r.passes), NEW n \in Aliasable(r, order)
  PROVE  /\ n \in DOMAIN r.nodes /\ UsedAt(r, order, n) # {}
         /\ FirstUse(r, order, n) \in Nat /\ LastUse(r, order, n) \in Nat
         /\ FirstUse(r, order, n) <= LastUse(r, order, n)
<1>1. n \in DOMAIN r.nodes /\ UsedAt(r, order, n) # {}
  BY DEF Aliasable
<1>2. QED BY <1>1, UsedWithin

LEMMA JoinedType ==
  ASSUME NEW r \in Recordings, Known(r), NEW order \in Seq(DOMAIN r.passes),
         NEW slot \in AliasSlot(r), NEW n \in Aliasable(r, order)
  PROVE  LET joined == Joined(r, order, slot, n) IN
         /\ joined \in AliasSlot(r)
         /\ joined.members = slot.members \cup {n}
         /\ joined.freeFrom = LastUse(r, order, n)
         /\ joined.kind = slot.kind /\ joined.sig = slot.sig
<1>1. n \in DOMAIN r.nodes /\ LastUse(r, order, n) \in Nat
  BY AliasableUsed
<1>2. NodeUsage(r, order, n) \subseteq Bits
  BY UsageType, ToSetType DEF NodeUsage
<1>3. QED BY <1>1, <1>2 DEF Joined, AliasSlot

LEMMA AddToSlotsType ==
  ASSUME NEW r \in Recordings, Known(r), NEW order \in Seq(DOMAIN r.passes),
         NEW slots \in Seq(AliasSlot(r)), NEW n \in Aliasable(r, order)
  PROVE  \/ \E i \in DOMAIN slots :
              /\ slots[i].freeFrom < FirstUse(r, order, n) /\ Suits(r, slots[i], n)
              /\ AddToSlots(r, order, slots, n) = [slots EXCEPT ![i] = Joined(r, order, slots[i], n)]
         \/ \E opened \in AliasSlot(r) :
              /\ opened.members = {} /\ Suits(r, opened, n)
              /\ AddToSlots(r, order, slots, n) = Append(slots, Joined(r, order, opened, n))
<1> DEFINE fits == {i \in DOMAIN slots : Fits(r, order, slots[i], n)}
           opened == [kind |-> r.nodes[n].kind, sig |-> SigOf(r, n), usage |-> {},
                      identity |-> r.nodes[n].name, freeFrom |-> 0, members |-> {}]
<1>1. n \in DOMAIN r.nodes
  BY AliasableUsed
<1>2. opened \in AliasSlot(r)
  <2>1. r.nodes[n] \in NodeType /\ SigOf(r, n) \in Sigs
    BY <1>1, RecordingShape DEF Known
  <2>2. r.nodes[n].kind \in Kinds /\ r.nodes[n].name \in Names
    BY <2>1 DEF NodeType
  <2>3. QED BY <2>1, <2>2 DEF AliasSlot
<1>3. DOMAIN slots \subseteq Nat
  BY SeqFacts
<1>4. fits \subseteq Nat
  BY <1>3
<1>5. AddToSlots(r, order, slots, n) =
        IF fits # {} THEN [slots EXCEPT ![Min(fits)] = Joined(r, order, slots[Min(fits)], n)]
        ELSE Append(slots, Joined(r, order, opened, n))
  BY DEF AddToSlots
<1>6. opened.members = {} /\ Suits(r, opened, n)
  BY DEF Suits
<1>7. \A i \in fits : i \in DOMAIN slots /\ Fits(r, order, slots[i], n)
  OBVIOUS
<1> HIDE DEF fits, opened
<1>8. CASE fits # {}
  <2>1. Min(fits) \in fits
    BY <1>4, <1>8, MinIs
  <2>2. QED BY <1>5, <1>7, <1>8, <2>1 DEF Fits, Suits
<1>9. CASE fits = {}
  BY <1>2, <1>5, <1>6, <1>9
<1>10. QED BY <1>8, <1>9

LEMMA AddToSlotsSound ==
  ASSUME NEW r \in Recordings, Known(r), NEW order \in Seq(DOMAIN r.passes),
         NEW done, done \subseteq Aliasable(r, order), NEW slots, SlotsSound(r, order, slots, done),
         NEW n \in Aliasable(r, order) \ done
  PROVE  SlotsSound(r, order, AddToSlots(r, order, slots, n), done \cup {n})
<1> DEFINE new == AddToSlots(r, order, slots, n)
<1>1. slots \in Seq(AliasSlot(r)) /\ \A i \in DOMAIN slots : slots[i] \in AliasSlot(r)
  BY SeqFacts DEF SlotsSound
<1>2. /\ \A i \in DOMAIN slots : slots[i].members \subseteq done /\ slots[i].freeFrom \in Nat
      /\ \A i \in DOMAIN slots : \A m \in slots[i].members : LastUse(r, order, m) <= slots[i].freeFrom
      /\ \A i \in DOMAIN slots : \A m, x \in slots[i].members : m # x => Apart(r, order, m, x)
      /\ \A i \in DOMAIN slots : \A m \in slots[i].members : Suits(r, slots[i], m)
      /\ \A i, j \in DOMAIN slots : i # j => slots[i].members \cap slots[j].members = {}
  BY <1>1 DEF SlotsSound, AliasSlot
<1>3. /\ FirstUse(r, order, n) \in Nat /\ LastUse(r, order, n) \in Nat
      /\ \A m \in done : LastUse(r, order, m) \in Nat
  BY AliasableUsed
<1>f. FirstUse(r, order, n) <= LastUse(r, order, n)
  BY AliasableUsed
<1>4. ASSUME NEW i \in DOMAIN slots, slots[i].freeFrom < FirstUse(r, order, n),
             Suits(r, slots[i], n),
             new = [slots EXCEPT ![i] = Joined(r, order, slots[i], n)]
      PROVE  SlotsSound(r, order, new, done \cup {n})
  <2> DEFINE joined == Joined(r, order, slots[i], n)
  <2>1. /\ joined \in AliasSlot(r) /\ joined.members = slots[i].members \cup {n}
        /\ joined.freeFrom = LastUse(r, order, n)
        /\ joined.kind = slots[i].kind /\ joined.sig = slots[i].sig
    BY <1>1, JoinedType
  <2> HIDE DEF joined
  <2>2. new = [slots EXCEPT ![i] = joined]
    BY <1>4 DEF joined
  <2> HIDE DEF new
  <2>3. /\ DOMAIN new = DOMAIN slots /\ new[i] = joined
        /\ \A j \in DOMAIN slots : j # i => new[j] = slots[j]
    BY <2>2
  <2>4. new \in Seq(AliasSlot(r))
    <3>1. slots \in Seq(AliasSlot(r)) /\ i \in DOMAIN slots /\ joined \in AliasSlot(r)
      BY <1>1, <2>1
    <3> DEFINE Y == AliasSlot(r)
    <3> HIDE DEF Y
    <3>2. new \in Seq(Y)
      BY <2>2, <3>1 DEF Y
    <3>3. QED BY <3>2 DEF Y
  <2>5. \A m \in slots[i].members : /\ LastUse(r, order, m) < FirstUse(r, order, n)
                                    /\ LastUse(r, order, m) <= LastUse(r, order, n)
    BY <1>2, <1>3, <1>4, <1>f
  <2>6. \A j \in DOMAIN new : new[j].members \subseteq done \cup {n}
    BY <1>2, <2>1, <2>3
  <2>7. \A j \in DOMAIN new : \A m \in new[j].members : LastUse(r, order, m) <= new[j].freeFrom
    BY <1>2, <1>3, <2>1, <2>3, <2>5
  <2>8. \A j \in DOMAIN new : \A m, x \in new[j].members : m # x => Apart(r, order, m, x)
    BY <1>2, <2>1, <2>3, <2>5 DEF Apart
  <2>9. \A j, k \in DOMAIN new : j # k => new[j].members \cap new[k].members = {}
    BY <1>2, <2>1, <2>3
  <2>10. \A j \in DOMAIN new : \A m \in new[j].members : Suits(r, new[j], m)
    BY <1>2, <1>4, <2>1, <2>3 DEF Suits
  <2>11. QED BY <2>4, <2>6, <2>7, <2>8, <2>9, <2>10 DEF SlotsSound
<1>5. ASSUME NEW opened \in AliasSlot(r), opened.members = {}, Suits(r, opened, n),
             new = Append(slots, Joined(r, order, opened, n))
      PROVE  SlotsSound(r, order, new, done \cup {n})
  <2> DEFINE joined == Joined(r, order, opened, n)
             last == Len(slots) + 1
  <2>1. /\ joined \in AliasSlot(r) /\ joined.members = {n}
        /\ joined.freeFrom = LastUse(r, order, n)
        /\ joined.kind = opened.kind /\ joined.sig = opened.sig
    <3>1. /\ joined \in AliasSlot(r) /\ joined.members = opened.members \cup {n}
          /\ joined.freeFrom = LastUse(r, order, n)
          /\ joined.kind = opened.kind /\ joined.sig = opened.sig
      BY <1>5, JoinedType
    <3>2. QED BY <1>5, <3>1
  <2> HIDE DEF joined
  <2>2. new = Append(slots, joined)
    BY <1>5 DEF joined
  <2> HIDE DEF new
  <2>3. /\ new \in Seq(AliasSlot(r)) /\ DOMAIN new = DOMAIN slots \cup {last}
        /\ \A j \in DOMAIN slots : j # last /\ new[j] = slots[j]
        /\ new[last] = joined
    <3> DEFINE Y == AliasSlot(r)
    <3>1. slots \in Seq(Y) /\ joined \in Y
      BY <1>1, <2>1
    <3> HIDE DEF Y
    <3>2. /\ new \in Seq(Y) /\ DOMAIN new = DOMAIN slots \cup {last}
          /\ \A j \in DOMAIN slots : j # last /\ new[j] = slots[j]
          /\ new[last] = joined
      BY <2>2, <3>1
    <3>3. QED BY <3>2 DEF Y
  <2> HIDE DEF last
  <2>6. \A j \in DOMAIN new : new[j].members \subseteq done \cup {n}
    BY <1>2, <2>1, <2>3
  <2>7. \A j \in DOMAIN new : \A m \in new[j].members : LastUse(r, order, m) <= new[j].freeFrom
    BY <1>2, <1>3, <2>1, <2>3
  <2>8. \A j \in DOMAIN new : \A m, x \in new[j].members : m # x => Apart(r, order, m, x)
    BY <1>2, <2>1, <2>3
  <2>9. \A j, k \in DOMAIN new : j # k => new[j].members \cap new[k].members = {}
    BY <1>2, <2>1, <2>3
  <2>10. \A j \in DOMAIN new : \A m \in new[j].members : Suits(r, new[j], m)
    BY <1>2, <1>5, <2>1, <2>3 DEF Suits
  <2>11. QED BY <2>3, <2>6, <2>7, <2>8, <2>9, <2>10 DEF SlotsSound
<1>6. QED BY <1>1, <1>4, <1>5, AddToSlotsType

LEMMA EarliestIs ==
  ASSUME NEW r \in Recordings, NEW order \in Seq(DOMAIN r.passes),
         NEW todo, todo \subseteq Aliasable(r, order), todo # {}
  PROVE  Earliest(r, order, todo) \in todo
<1> DEFINE F(n) == FirstUse(r, order, n)
           firsts == {F(n) : n \in todo}
           E(n) == \A m \in todo : F(n) < F(m) \/ (F(n) = F(m) /\ n <= m)
<1>1. \A n \in todo : F(n) \in Nat /\ n \in Nat
  BY AliasableUsed, RecordingShape
<1>2. firsts \subseteq Nat /\ firsts # {}
  BY <1>1
<1>3. PICK t \in firsts : \A k \in firsts : t <= k
  <2> HIDE DEF firsts
  <2>1. QED BY <1>2, Least
<1> DEFINE same == {n \in todo : F(n) = t}
<1>4. same \subseteq Nat /\ same # {}
  BY <1>1, <1>3
<1>5. PICK n \in same : \A m \in same : n <= m
  <2> HIDE DEF same
  <2>1. QED BY <1>4, Least
<1>6. n \in todo /\ F(n) = t
  BY <1>5
<1>7. ASSUME NEW m \in todo PROVE F(n) < F(m) \/ (F(n) = F(m) /\ n <= m)
  <2>1. t <= F(m) /\ F(m) \in Nat /\ t \in Nat
    BY <1>1, <1>2, <1>3
  <2>2. CASE F(m) = t
    BY <1>5, <1>6, <2>2
  <2>3. CASE F(m) # t
    BY <1>6, <2>1, <2>3
  <2>4. QED BY <2>2, <2>3
<1>8. E(n)
  BY <1>7
<1>9. Earliest(r, order, todo) = CHOOSE x \in todo : E(x)
  BY DEF Earliest
<1> HIDE DEF E
<1>10. QED BY <1>6, <1>8, <1>9

(* The slots when all are placed.                                          *)
LEMMA AliasSlotsSound ==
  ASSUME NEW r \in Recordings, Known(r), NEW order \in Seq(DOMAIN r.passes)
  PROVE  SlotsSound(r, order, AliasSlots(r, order), Aliasable(r, order))
<1> DEFINE all == Aliasable(r, order)
           C == Cardinality(all)
           Nxt(v) == [slots |-> AddToSlots(r, order, v.slots, Earliest(r, order, v.todo)),
                      todo |-> v.todo \ {Earliest(r, order, v.todo)}]
           start == [slots |-> <<>>, todo |-> all]
           Places(g) == g = [k \in 0..C |-> IF k = 0 THEN start ELSE Nxt(g[k - 1])]
           h == CHOOSE g : Places(g)
           V == [slots : Seq(AliasSlot(r)), todo : SUBSET all]
           step == [k \in 1..C |-> [v \in V |-> IF v.todo = {} THEN v ELSE Nxt(v)]]
           Good(k, v) == /\ v.todo \subseteq all /\ Cardinality(v.todo) = C - k
                         /\ SlotsSound(r, order, v.slots, all \ v.todo)
<1>1. AliasSlots(r, order) = h[C].slots
  BY DEF AliasSlots
<1>2. all \subseteq DOMAIN r.nodes /\ IsFiniteSet(all) /\ C \in Nat
  <2>1. all \subseteq DOMAIN r.nodes
    BY DEF Aliasable
  <2>2. IsFiniteSet(1..Len(r.nodes)) /\ DOMAIN r.nodes = 1..Len(r.nodes)
    <3>1. Len(r.nodes) \in Int /\ DOMAIN r.nodes = 1..Len(r.nodes)
      BY RecordingShape
    <3> DEFINE L == Len(r.nodes)
    <3>2. L \in Int
      BY <3>1
    <3> HIDE DEF L
    <3>3. IsFiniteSet(1..L)
      BY <3>2, FS_Interval
    <3>4. QED BY <3>1, <3>3 DEF L
  <2> HIDE DEF all
  <2>3. IsFiniteSet(all)
    BY <2>1, <2>2, FS_Subset
  <2>4. QED BY <2>1, <2>3, FS_CardinalityType
<1>3. ASSUME NEW v \in V, v.todo # {} PROVE Nxt(v) \in V
  <2> DEFINE n == Earliest(r, order, v.todo)
  <2>1. v.todo \subseteq all /\ v.slots \in Seq(AliasSlot(r))
    OBVIOUS
  <2>2. n \in v.todo /\ n \in all
    BY <1>3, <2>1, EarliestIs
  <2> HIDE DEF n
  <2>3. AddToSlots(r, order, v.slots, n) \in Seq(AliasSlot(r))
    <3>1. CASE \E i \in DOMAIN v.slots :
                 AddToSlots(r, order, v.slots, n)
                   = [v.slots EXCEPT ![i] = Joined(r, order, v.slots[i], n)]
      <4>1. PICK i \in DOMAIN v.slots :
                 AddToSlots(r, order, v.slots, n)
                   = [v.slots EXCEPT ![i] = Joined(r, order, v.slots[i], n)]
        BY <3>1
      <4>2. v.slots[i] \in AliasSlot(r)
        BY <2>1, SeqFacts
      <4>3. Joined(r, order, v.slots[i], n) \in AliasSlot(r)
        BY <2>2, <4>2, JoinedType
      <4> DEFINE Y == AliasSlot(r)
                 s == v.slots
                 y == Joined(r, order, v.slots[i], n)
      <4>4. s \in Seq(Y) /\ y \in Y /\ i \in DOMAIN s
        BY <2>1, <4>3
      <4> HIDE DEF Y, s, y
      <4>5. [s EXCEPT ![i] = y] \in Seq(Y)
        BY <4>4
      <4>6. QED BY <4>1, <4>5 DEF Y, s, y
    <3>2. CASE \E opened \in AliasSlot(r) :
                 AddToSlots(r, order, v.slots, n) = Append(v.slots, Joined(r, order, opened, n))
      <4>1. PICK opened \in AliasSlot(r) :
                 AddToSlots(r, order, v.slots, n) = Append(v.slots, Joined(r, order, opened, n))
        BY <3>2
      <4>2. Joined(r, order, opened, n) \in AliasSlot(r)
        BY <2>2, JoinedType
      <4>3. QED BY <2>1, <4>1, <4>2, AppendProperties
    <3>3. QED BY <2>1, <2>2, <3>1, <3>2, AddToSlotsType
  <2>4. v.todo \ {n} \subseteq all
    BY <2>1
  <2>5. QED BY <2>3, <2>4 DEF n
<1>4. start \in V
  <2>1. <<>> \in Seq(AliasSlot(r))
    BY EmptySeq
  <2>2. QED BY <2>1
<1>5. \A k \in 1..C : \A v \in V : step[k][v] \in V /\ (v.todo # {} => step[k][v] = Nxt(v))
  BY <1>3
<1>g. ASSUME NEW k \in Nat, k < C, NEW v, Good(k, v) PROVE v.todo # {} /\ Good(k + 1, Nxt(v))
  <2> DEFINE n == Earliest(r, order, v.todo)
  <2>0. v.todo \subseteq all /\ Cardinality(v.todo) = C - k /\ C - k # 0 /\ C - (k + 1) = (C - k) - 1
    BY <1>2, <1>g
  <2>1. v.todo # {}
    BY <2>0, FS_EmptySet
  <2>2. n \in v.todo
    BY <1>g, <2>1, EarliestIs
  <2> HIDE DEF n
  <2>3. IsFiniteSet(v.todo)
    BY <1>2, <1>g, FS_Subset
  <2>4. Cardinality(v.todo \ {n}) = C - (k + 1)
    <3> DEFINE t == v.todo
    <3>1. IsFiniteSet(t) /\ n \in t /\ Cardinality(t) = C - k /\ C - (k + 1) = (C - k) - 1
      BY <2>0, <2>2, <2>3
    <3> HIDE DEF t
    <3>2. Cardinality(t \ {n}) = Cardinality(t) - 1
      BY <3>1, FS_RemoveElement
    <3>3. QED BY <3>1, <3>2 DEF t
  <2>5. SlotsSound(r, order, AddToSlots(r, order, v.slots, n), (all \ v.todo) \cup {n})
    BY <1>g, <2>2, AddToSlotsSound
  <2>6. all \ (v.todo \ {n}) = (all \ v.todo) \cup {n}
    BY <1>g, <2>2
  <2>7. Nxt(v).slots = AddToSlots(r, order, v.slots, n) /\ Nxt(v).todo = v.todo \ {n}
    BY DEF n
  <2>8. QED BY <1>g, <2>1, <2>4, <2>5, <2>6, <2>7
<1>s. Good(0, start)
  <2>1. <<>> \in Seq(AliasSlot(r)) /\ DOMAIN <<>> = {}
    BY EmptySeq
  <2>2. QED BY <1>2, <2>1 DEF SlotsSound
<1>h. \A k, v : Good(k, v) => v.todo \subseteq all /\ Cardinality(v.todo) = C - k
  OBVIOUS
<1>i. \A v : Good(C, v) => SlotsSound(r, order, v.slots, all)
  <2>1. ASSUME NEW v, Good(C, v) PROVE SlotsSound(r, order, v.slots, all)
    <3>1. IsFiniteSet(v.todo) /\ Cardinality(v.todo) = 0
      BY <1>2, <2>1, FS_Subset
    <3>2. v.todo = {}
      BY <3>1, FS_EmptySet
    <3>3. all \ v.todo = all
      BY <3>2
    <3>4. QED BY <2>1, <3>3
  <2>2. QED BY <2>1
<1> HIDE DEF all, C, start, step, V, Nxt, Good, Places, h
<1>6. PICK f : Iterates(f, C, V, start, step)
  BY <1>2, <1>4, <1>5, Iteration
<1>7. \A k \in 0..C : Good(k, f[k])
  <2> DEFINE B == {k \in 0..C : ~Good(k, f[k])}
  <2>1. SUFFICES ASSUME B # {} PROVE FALSE
    OBVIOUS
  <2>2. B \subseteq Nat
    BY <1>2
  <2>3. PICK m \in B : \A k \in B : m <= k
    <3> HIDE DEF B
    <3>1. QED BY <2>1, <2>2, Least
  <2>4. m # 0 /\ m \in 1..C
    <3>1. f[0] = start
      BY <1>6 DEF Iterates
    <3>2. QED BY <1>2, <1>s, <2>3, <3>1
  <2>5. m - 1 \in 0..C /\ m - 1 \notin B
    BY <1>2, <2>3, <2>4
  <2>6. f[m] = step[m][f[m - 1]] /\ f[m - 1] \in V
    BY <1>6, <2>4, <2>5 DEF Iterates
  <2>7. m - 1 \in Nat /\ m - 1 < C /\ (m - 1) + 1 = m /\ Good(m - 1, f[m - 1])
    BY <1>2, <2>4, <2>5
  <2>8. f[m - 1].todo # {} /\ Good(m, Nxt(f[m - 1]))
    BY <1>g, <2>7
  <2>9. f[m] = Nxt(f[m - 1])
    BY <1>5, <2>4, <2>6, <2>8
  <2>10. QED BY <2>3, <2>8, <2>9
<1>8. Places(f)
  <2>1. ASSUME NEW k \in 0..C PROVE f[k] = IF k = 0 THEN start ELSE Nxt(f[k - 1])
    <3>1. CASE k = 0
      BY <1>6, <3>1 DEF Iterates
    <3>2. CASE k # 0
      <4>1. k \in 1..C /\ k - 1 \in 0..C /\ k - 1 \in Nat /\ k - 1 < C
        BY <1>2, <3>2
      <4>2. f[k] = step[k][f[k - 1]] /\ f[k - 1] \in V
        BY <1>6, <4>1 DEF Iterates
      <4>3. f[k - 1].todo # {}
        BY <1>7, <1>g, <4>1
      <4>4. QED BY <1>5, <3>2, <4>1, <4>2, <4>3
    <3>3. QED BY <3>1, <3>2
  <2>2. f = [k \in 0..C |-> f[k]]
    BY <1>6 DEF Iterates
  <2>3. QED BY <2>1, <2>2 DEF Places
<1>9. Places(h)
  BY <1>8 DEF h
<1>10. /\ h[0] = start
       /\ \A k \in 1..C : h[k] = Nxt(h[k - 1])
  <2>1. \A k \in 0..C : h[k] = IF k = 0 THEN start ELSE Nxt(h[k - 1])
    BY <1>9 DEF Places
  <2>2. 0 \in 0..C /\ \A k \in 1..C : k \in 0..C /\ k # 0
    BY <1>2
  <2>3. QED BY <2>1, <2>2
<1>11. \A k \in 0..C : Good(k, h[k])
  <2> DEFINE B == {k \in 0..C : ~Good(k, h[k])}
  <2>1. SUFFICES ASSUME B # {} PROVE FALSE
    OBVIOUS
  <2>2. B \subseteq Nat
    BY <1>2
  <2>3. PICK m \in B : \A k \in B : m <= k
    <3> HIDE DEF B
    <3>1. QED BY <2>1, <2>2, Least
  <2>4. m # 0 /\ m \in 1..C
    BY <1>2, <1>s, <1>10, <2>3
  <2>5. m - 1 \in 0..C /\ m - 1 \notin B
    BY <1>2, <2>3, <2>4
  <2>6. m - 1 \in Nat /\ m - 1 < C /\ (m - 1) + 1 = m /\ Good(m - 1, h[m - 1])
    BY <1>2, <2>4, <2>5
  <2>7. Good(m, h[m])
    BY <1>10, <1>g, <2>4, <2>6
  <2>8. QED BY <2>3, <2>7
<1>12. C \in 0..C
  BY <1>2
<1>13. QED BY <1>1, <1>11, <1>12, <1>i DEF all

(* Resources that share an object are of one kind and signature, and never *)
(* in use at the same time: all passes that use one of them run before the *)
(* first that uses the other.                                              *)
THEOREM SharersTakeTurns ==
  ASSUME NEW r \in Recordings, Known(r), NEW skip,
         NEW i \in DOMAIN AliasSlots(r, OrderOf(r, skip)),
         NEW m \in AliasSlots(r, OrderOf(r, skip))[i].members,
         NEW n \in AliasSlots(r, OrderOf(r, skip))[i].members, m # n
  PROVE  /\ r.nodes[m].kind = r.nodes[n].kind /\ SigOf(r, m) = SigOf(r, n)
         /\ \/ \A k \in UsedAt(r, OrderOf(r, skip), m), l \in UsedAt(r, OrderOf(r, skip), n) : k < l
            \/ \A k \in UsedAt(r, OrderOf(r, skip), m), l \in UsedAt(r, OrderOf(r, skip), n) : l < k
<1> DEFINE order == OrderOf(r, skip)
<1>1. OrderSound(r, skip, order)
  BY OrderIsSound
<1>2. order \in Seq(DOMAIN r.passes)
  BY <1>1 DEF OrderSound
<1> HIDE DEF order
<1>3. SlotsSound(r, order, AliasSlots(r, order), Aliasable(r, order))
  BY <1>2, AliasSlotsSound
<1>4. Apart(r, order, m, n) /\ m \in Aliasable(r, order) /\ n \in Aliasable(r, order)
  BY <1>3 DEF SlotsSound, order
<1>s. r.nodes[m].kind = r.nodes[n].kind /\ SigOf(r, m) = SigOf(r, n)
  BY <1>3 DEF SlotsSound, Suits, order
<1>5. ASSUME NEW x \in {m, n}
      PROVE  /\ FirstUse(r, order, x) \in Nat /\ LastUse(r, order, x) \in Nat
             /\ UsedAt(r, order, x) \subseteq Nat
             /\ \A k \in UsedAt(r, order, x) : FirstUse(r, order, x) <= k /\ k <= LastUse(r, order, x)
  <2>1. UsedAt(r, order, x) # {}
    BY <1>4 DEF Aliasable
  <2>2. DOMAIN order \subseteq Nat
    BY <1>2, SeqFacts
  <2>3. UsedAt(r, order, x) \subseteq Nat
    BY <2>2 DEF UsedAt
  <2>4. QED BY <1>2, <2>1, <2>3, UsedWithin
<1>6. CASE LastUse(r, order, m) < FirstUse(r, order, n)
  <2>1. \A k \in UsedAt(r, order, m), l \in UsedAt(r, order, n) : k < l
    BY <1>5, <1>6
  <2>2. QED BY <1>s, <2>1 DEF order
<1>7. CASE LastUse(r, order, n) < FirstUse(r, order, m)
  <2>1. \A k \in UsedAt(r, order, m), l \in UsedAt(r, order, n) : l < k
    BY <1>5, <1>7
  <2>2. QED BY <1>s, <2>1 DEF order
<1>8. QED BY <1>4, <1>6, <1>7 DEF Apart

-----------------------------------------------------------------------------
(* The first access to a node, of a pass and of all that run.              *)
FirstOf(acc, n, i) ==
  i \in DOMAIN acc /\ acc[i].n = n /\ \A j \in 1..(i - 1) : acc[j].n # n

LEMMA FirstAccess ==
  ASSUME NEW r \in Recordings, NEW p \in DOMAIN r.passes, NEW n, Uses(r, p, n)
  PROVE  \E i : /\ FirstOf(r.passes[p].acc, n, i)
                /\ Head(AccessesOf(r, p, n)) = r.passes[p].acc[i]
<1> DEFINE acc == r.passes[p].acc
           S == {i \in DOMAIN acc : acc[i].n = n}
           s == AccessesOf(r, p, n)
<1>1. acc \in Seq(AccessType)
  BY RecordingShape
<1>2. s = Picked(acc, S)
  BY DEF AccessesOf
<1>3. S \subseteq DOMAIN acc
  OBVIOUS
<1>S. \A i \in S : i \in DOMAIN acc /\ acc[i].n = n
  OBVIOUS
<1>T. \A i \in DOMAIN acc : acc[i].n = n => i \in S
  OBVIOUS
<1>d. Len(acc) \in Nat /\ DOMAIN acc = 1..Len(acc)
  BY <1>1, SeqFacts
<1>u. s # <<>>
  BY DEF Uses
<1> HIDE DEF acc, S, s
<1>4. s \in Seq(AccessType)
  BY <1>1, <1>2, <1>3, PickedType
<1>5. PICK e : PickedAt(e, s, acc, S)
  BY <1>1, <1>2, <1>3, PickedType
<1>6. 1 \in DOMAIN s /\ DOMAIN s \subseteq Nat /\ \A j \in DOMAIN s : 1 <= j
  <2>1. DOMAIN s # {} /\ DOMAIN s = 1..Len(s) /\ Len(s) \in Nat
    <3> DEFINE T == AccessType
    <3>1. s \in Seq(T)
      BY <1>4
    <3> HIDE DEF T
    <3>2. DOMAIN s # {}
      BY <1>u, <3>1, NotEmpty
    <3>3. QED BY <3>1, <3>2, SeqFacts
  <2>2. QED BY <2>1
<1>7. DOMAIN e = DOMAIN s /\ e[1] \in S /\ s[1] = acc[e[1]]
  BY <1>5, <1>6 DEF PickedAt
<1>8. ASSUME NEW j \in 1..(e[1] - 1) PROVE acc[j].n # n
  <2>1. e[1] \in 1..Len(acc) /\ j \in DOMAIN acc /\ j < e[1]
    BY <1>3, <1>7, <1>d
  <2>2. SUFFICES ASSUME j \in S PROVE FALSE
    BY <1>T, <2>1
  <2>3. PICK k \in DOMAIN e : e[k] = j
    BY <1>5, <2>2 DEF PickedAt
  <2>4. k # 1 /\ k \in Nat /\ 1 <= k
    BY <1>6, <1>7, <2>1, <2>3
  <2>5. e[1] < e[k]
    BY <1>5, <1>6, <1>7, <2>4 DEF PickedAt
  <2>6. QED BY <2>1, <2>3, <2>5
<1>9. FirstOf(acc, n, e[1])
  BY <1>7, <1>8, <1>S DEF FirstOf
<1>10. Head(s) = s[1]
  OBVIOUS
<1>11. QED BY <1>7, <1>9, <1>10 DEF acc, s

LEMMA FirstLiveAccess ==
  ASSUME NEW r \in Recordings, NEW order \in Seq(DOMAIN r.passes), NEW n, UsedAt(r, order, n) # {}
  PROVE  /\ LiveAccesses(r, order, n) # <<>>
         /\ Head(LiveAccesses(r, order, n))
              = Head(AccessesOf(r, order[FirstUse(r, order, n)], n))
<1> DEFINE m == FirstUse(r, order, n)
           ss == [k \in DOMAIN order |-> AccessesOf(r, order[k], n)]
           Y == Seq(AccessType)
<1>1. /\ Len(order) \in Nat /\ DOMAIN order = 1..Len(order)
      /\ \A k \in DOMAIN order : order[k] \in DOMAIN r.passes
  BY SeqFacts
<1>2. m \in UsedAt(r, order, n) /\ \A k \in UsedAt(r, order, n) : m <= k
  BY UsedWithin
<1>3. m \in DOMAIN order /\ Uses(r, order[m], n) /\ \A k \in 1..(m - 1) : k \in DOMAIN order /\ ~Uses(r, order[k], n)
  <2>1. m \in DOMAIN order /\ Uses(r, order[m], n)
    BY <1>2 DEF UsedAt
  <2>2. ASSUME NEW k \in 1..(m - 1) PROVE k \in DOMAIN order /\ ~Uses(r, order[k], n)
    <3>1. k \in DOMAIN order /\ k < m /\ k \in Int /\ m \in Int
      BY <1>1, <2>1
    <3>2. k \notin UsedAt(r, order, n)
      BY <1>2, <3>1
    <3>3. QED BY <3>1, <3>2 DEF UsedAt
  <2>3. QED BY <2>1, <2>2
<1> HIDE DEF m
<1>4. ss \in Seq(Y)
  <2>1. \A k \in DOMAIN order : ss[k] \in Y
    BY <1>1, AccessesType
  <2> HIDE DEF Y
  <2>2. ss \in [1..Len(order) -> Y]
    BY <1>1, <2>1
  <2> HIDE DEF ss
  <2>3. QED BY <1>1, <2>2
<1>5. /\ DOMAIN ss = DOMAIN order /\ ss[m] = AccessesOf(r, order[m], n) /\ ss[m] # <<>>
      /\ \A k \in 1..(m - 1) : ss[k] = <<>>
  BY <1>3 DEF Uses
<1>6. LiveAccesses(r, order, n) = Concat(ss)
  BY DEF LiveAccesses
<1> HIDE DEF ss
<1>7. QED BY <1>3, <1>4, <1>5, <1>6, ConcatHead DEF Y, m
=============================================================================
