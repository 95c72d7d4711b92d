-------------------------- MODULE TilePipelineProofs --------------------------
(***************************************************************************)
(* The loader keeps what QuadService says of its steps, for any finite set *)
(* of quads, any number of slots and any rate; no slot and no tile is lost *)
(* on the way.                                                             *)
(***************************************************************************)
EXTENDS TilePipeline, FiniteSetTheorems, SequenceTheorems, TLAPS

-----------------------------------------------------------------------------
(* Each instance brings its own Cardinality, which is the same.            *)
LEMMA SameCardinality ==
  \A S : /\ Slots!Cardinality(S) = Cardinality(S)
         /\ Rate!Cardinality(S) = Cardinality(S)
         /\ Assembler!Cardinality(S) = Cardinality(S)
         /\ Service!Cardinality(S) = Cardinality(S)
BY DEF Slots!Cardinality, Rate!Cardinality, Assembler!Cardinality, Service!Cardinality, Cardinality

(* How many quads of S come before q tells the quads of S apart.           *)
LEMMA PositionType ==
  ASSUME NEW S \in SUBSET Quads
  PROVE  /\ IsFiniteSet(S) /\ Cardinality(S) \in Nat
         /\ [q \in S |-> Cardinality(Slots!Before(q, S))] \in Injection(S, 0..Cardinality(S) - 1)
<1> DEFINE at == [q \in S |-> Cardinality(Slots!Before(q, S))]
<1>1. IsFiniteSet(S) /\ Cardinality(S) \in Nat
  BY QuadsFinite, FS_Subset, FS_CardinalityType
<1>2. ASSUME NEW q \in S
      PROVE  at[q] \in 0..Cardinality(S) - 1
  <2>1. Slots!Before(q, S) \in SUBSET (S \ {q})
    BY RankType DEF Slots!Before
  <2>2. IsFiniteSet(S \ {q}) /\ Cardinality(S \ {q}) = Cardinality(S) - 1
    BY <1>1, FS_RemoveElement
  <2>3. /\ IsFiniteSet(Slots!Before(q, S))
        /\ Cardinality(Slots!Before(q, S)) <= Cardinality(S) - 1
    BY <2>1, <2>2, FS_Subset
  <2>4. Cardinality(Slots!Before(q, S)) \in Nat
    BY <2>3, FS_CardinalityType
  <2>5. QED BY <1>1, <2>3, <2>4
<1>3. ASSUME NEW p \in S, NEW q \in S, Rank[p] < Rank[q]
      PROVE  at[p] # at[q]
  <2>1. Slots!Before(p, S) \in SUBSET (Slots!Before(q, S) \ {p})
    BY <1>3, RankType DEF Slots!Before
  <2>2. p \in Slots!Before(q, S)
    BY <1>3 DEF Slots!Before
  <2>3. Slots!Before(q, S) \in SUBSET S
    BY DEF Slots!Before
  <2>4. IsFiniteSet(Slots!Before(q, S))
    BY <1>1, <2>3, FS_Subset
  <2>5. /\ IsFiniteSet(Slots!Before(q, S) \ {p})
        /\ Cardinality(Slots!Before(q, S) \ {p}) = Cardinality(Slots!Before(q, S)) - 1
    BY <2>2, <2>4, FS_RemoveElement
  <2>6. Cardinality(Slots!Before(p, S)) <= Cardinality(Slots!Before(q, S)) - 1
    BY <2>1, <2>5, FS_Subset
  <2>7. Cardinality(Slots!Before(q, S)) \in Nat
    BY <2>4, FS_CardinalityType
  <2>8. at[p] \in Nat
    BY <1>1, <1>2
  <2>9. QED BY <2>6, <2>7, <2>8
<1>4. \A p, q \in S : p # q => Rank[p] < Rank[q] \/ Rank[q] < Rank[p]
  BY RankType
<1>5. \A p, q \in S : p # q => at[p] # at[q]
  BY <1>3, <1>4
<1> HIDE DEF at
<1>6. at \in [S -> 0..Cardinality(S) - 1]
  BY <1>2 DEF at
<1>7. at \in Injection(S, 0..Cardinality(S) - 1)
  BY <1>5, <1>6 DEF Injection, IsInjective
<1>8. QED BY <1>1, <1>7 DEF at

(* Each position is that of one quad.                                      *)
LEMMA PositionTaken ==
  ASSUME NEW S \in SUBSET Quads, NEW k \in 0..Cardinality(S) - 1
  PROVE  \E q \in S : Cardinality(Slots!Before(q, S)) = k
<1> DEFINE at == [q \in S |-> Cardinality(Slots!Before(q, S))]
<1>1. /\ Cardinality(S) \in Nat
      /\ at \in Injection(S, 0..Cardinality(S) - 1)
  BY PositionType
<1>2. /\ IsFiniteSet(0..Cardinality(S) - 1)
      /\ Cardinality(0..Cardinality(S) - 1) = Cardinality(S)
  BY <1>1, FS_Interval
<1> HIDE DEF at
<1>3. at \in Surjection(S, 0..Cardinality(S) - 1)
  BY <1>1, <1>2, FS_Injection
<1>4. \E q \in S : at[q] = k
  BY <1>3 DEF Surjection
<1>5. QED BY <1>4 DEF at

(* The elements of a sequence are all different.                           *)
NoRepeats(seq) == \A i, j \in DOMAIN seq : seq[i] = seq[j] => i = j

(* InOrder lists each element of a set once.                               *)
LEMMA InOrderLists ==
  ASSUME NEW S \in SUBSET Quads
  PROVE  /\ Slots!InOrder(S) \in Seq(Quads)
         /\ Elements(Slots!InOrder(S)) = S
         /\ NoRepeats(Slots!InOrder(S))
         /\ Slots!InOrder(S) = <<>> <=> S = {}
<1> DEFINE s == Slots!InOrder(S)
           n == Cardinality(S)
<1>1. n \in Nat
  BY PositionType
<1>2. ASSUME NEW i \in 1..n
      PROVE  s[i] \in S /\ Cardinality(Slots!Before(s[i], S)) = i - 1
  <2>1. i - 1 \in 0..n - 1
    BY <1>1
  <2>2. \E q \in S : Cardinality(Slots!Before(q, S)) = i - 1
    BY <2>1, PositionTaken
  <2>3. s[i] = CHOOSE q \in S : Cardinality(Slots!Before(q, S)) = i - 1
    BY SameCardinality DEF Slots!InOrder
  <2>4. QED BY <2>2, <2>3
<1>3. DOMAIN s = 1..n
  BY SameCardinality DEF Slots!InOrder
<1>4. s \in [1..n -> S]
  BY <1>2, SameCardinality DEF Slots!InOrder
<1>5. s \in Seq(Quads)
  <2>1. s \in [1..n -> Quads]
    BY <1>4
  <2>2. QED BY <1>1, <2>1, SeqDef
<1>6. \A q \in S : \E i \in 1..n : s[i] = q
  <2>1. TAKE q \in S
  <2>2. /\ [p \in S |-> Cardinality(Slots!Before(p, S))] \in Injection(S, 0..n - 1)
    BY PositionType
  <2>3. /\ Cardinality(Slots!Before(q, S)) \in 0..n - 1
        /\ \A p \in S : Cardinality(Slots!Before(p, S)) = Cardinality(Slots!Before(q, S)) => p = q
    BY <2>2 DEF Injection, IsInjective
  <2>4. PICK i \in 1..n : i - 1 = Cardinality(Slots!Before(q, S))
    <3>1. Cardinality(Slots!Before(q, S)) + 1 \in 1..n
      BY <1>1, <2>3
    <3>2. (Cardinality(Slots!Before(q, S)) + 1) - 1 = Cardinality(Slots!Before(q, S))
      BY <2>3
    <3>3. QED BY <3>1, <3>2
  <2>5. s[i] = q
    BY <1>2, <2>3, <2>4
  <2>6. QED BY <2>5
<1>7. NoRepeats(s)
  <2>1. ASSUME NEW i \in 1..n, NEW j \in 1..n, s[i] = s[j]
        PROVE  i = j
    <3>1. i - 1 = j - 1
      BY <1>2, <2>1
    <3>2. QED BY <3>1
  <2>2. QED BY <1>3, <2>1 DEF NoRepeats
<1> HIDE DEF s
<1>8. Elements(s) = S
  BY <1>2, <1>3, <1>6 DEF Elements
<1>9. s = <<>> <=> S = {}
  <2>1. S = {} => s = <<>>
    <3>1. ASSUME S = {} PROVE s = <<>>
      <4>1. n = 0
        BY <3>1, FS_EmptySet
      <4>2. Len(s) \in Nat /\ DOMAIN s = 1..Len(s)
        BY <1>5, LenProperties
      <4>3. Len(s) = 0
        BY <1>3, <4>1, <4>2
      <4>4. QED BY <1>5, <4>3, EmptySeq
    <3>2. QED BY <3>1
  <2>2. s = <<>> => S = {}
    BY <1>8 DEF Elements
  <2>3. QED BY <2>1, <2>2
<1>10. QED BY <1>5, <1>7, <1>8, <1>9 DEF s

(* A slot that becomes free goes to one quad, if any waits.                *)
LEMMA FirstIsOne ==
  ASSUME NEW S \in SUBSET Quads
  PROVE  /\ Slots!FirstOf(S) \in SUBSET S
         /\ IsFiniteSet(Slots!FirstOf(S))
         /\ Cardinality(Slots!FirstOf(S)) <= 1
<1>1. Slots!FirstOf(S) \in SUBSET S
  BY DEF Slots!FirstOf
<1>2. \A p, q \in Slots!FirstOf(S) : p = q
  BY <1>1, RankType DEF Slots!FirstOf, Slots!Before
<1>3. Slots!FirstOf(S) = {} \/ \E q \in S : Slots!FirstOf(S) = {q}
  BY <1>1, <1>2
<1>4. IsFiniteSet(Slots!FirstOf(S)) /\ Cardinality(Slots!FirstOf(S)) \in 0..1
  <2>1. CASE Slots!FirstOf(S) = {}
    BY <2>1, FS_EmptySet
  <2>2. CASE \E q \in S : Slots!FirstOf(S) = {q}
    BY <2>2, FS_Singleton
  <2>3. QED BY <1>3, <2>1, <2>2
<1>5. QED BY <1>1, <1>4

(* What a list lets in fits into the free slots.                           *)
LEMMA AdmittedFit ==
  ASSUME NEW ids \in SUBSET Quads, slot_in_flight \in SUBSET Quads, slot_limit = Limit,
         Slots!Admitted(ids) # {}
  PROVE  /\ Slots!Admitted(ids) \cap slot_in_flight = {}
         /\ Slots!Admitted(ids) \in SUBSET Quads
         /\ Cardinality(slot_in_flight \cup Slots!Admitted(ids)) <= Limit
<1> DEFINE A == Slots!Admitted(ids)
           F == Slots!Fresh(ids)
           at == [q \in F |-> Cardinality(Slots!Before(q, F))]
           room == Limit - Cardinality(slot_in_flight)
<1>1. F \in SUBSET Quads /\ F \cap slot_in_flight = {} /\ A \in SUBSET F
  BY DEF Slots!Fresh, Slots!Admitted
<1>2. IsFiniteSet(A) /\ Cardinality(A) \in Nat
  BY <1>1, PositionType
<1>3. IsFiniteSet(slot_in_flight) /\ Cardinality(slot_in_flight) \in Nat
  BY PositionType
<1>4. at \in Injection(F, 0..Cardinality(F) - 1) /\ Cardinality(F) \in Nat
  BY <1>1, PositionType
<1>5. \A q \in A : q \in F /\ at[q] < room
  BY SameCardinality DEF Slots!Admitted
<1>6. room \in Nat /\ room > 0
  <2>1. PICK q \in A : TRUE
    OBVIOUS
  <2>2. at[q] \in Nat /\ at[q] < room
    BY <1>4, <1>5, <2>1 DEF Injection
  <2>3. room \in Int
    BY <1>3, LimitType
  <2>4. QED BY <2>2, <2>3
<1> HIDE DEF at, A, F
<1> DEFINE among == [q \in A |-> at[q]]
<1>7. among \in Injection(A, 0..room - 1)
  <2>1. \A q \in A : at[q] \in 0..room - 1
    BY <1>1, <1>4, <1>5, <1>6 DEF Injection
  <2>2. \A p, q \in A : at[p] = at[q] => p = q
    BY <1>1, <1>4 DEF Injection, IsInjective
  <2>3. QED BY <2>1, <2>2 DEF Injection, IsInjective
<1>8. Cardinality(A) <= room
  <2>1. IsFiniteSet(0..room - 1) /\ Cardinality(0..room - 1) = room
    BY <1>6, FS_Interval, SMTT(30)
  <2> HIDE DEF among, room
  <2>2. QED BY <1>7, <2>1, FS_Injection
<1>9. slot_in_flight \cap A = {}
  BY <1>1
<1>10. Cardinality(slot_in_flight \cup A) = Cardinality(slot_in_flight) + Cardinality(A)
  <2>1. Cardinality(slot_in_flight \cup A)
          = Cardinality(slot_in_flight) + Cardinality(A) - Cardinality(slot_in_flight \cap A)
    BY <1>2, <1>3, FS_Union
  <2>2. Cardinality(slot_in_flight \cap A) = 0
    BY <1>9, FS_EmptySet
  <2>3. QED BY <1>2, <1>3, <2>1, <2>2
<1>11. QED BY <1>1, <1>2, <1>3, <1>8, <1>10, LimitType DEF A

-----------------------------------------------------------------------------
(* A sequence of different quads, cut in two.                              *)
LEMMA CutInTwo ==
  ASSUME NEW seq \in Seq(Quads), NoRepeats(seq), NEW n \in 0..Len(seq)
  PROVE  LET a == SubSeq(seq, 1, n)
             b == SubSeq(seq, n + 1, Len(seq))
         IN  /\ b \in Seq(Quads) /\ NoRepeats(b)
             /\ Elements(a) \cup Elements(b) = Elements(seq)
             /\ Elements(a) \cap Elements(b) = {}
<1> DEFINE a == SubSeq(seq, 1, n)
           b == SubSeq(seq, n + 1, Len(seq))
<1>1. /\ Len(seq) \in Nat /\ DOMAIN seq = 1..Len(seq)
      /\ \A i \in 1..Len(seq) : seq[i] \in Quads
  BY LenProperties, ElementOfSeq
<1>2. /\ a \in Seq(Quads) /\ Len(a) = n /\ DOMAIN a = 1..n
      /\ \A i \in 1..n : a[i] = seq[i]
  <2>1. /\ a \in Seq(Quads) /\ Len(a) = IF 1 <= n THEN n - 1 + 1 ELSE 0
        /\ \A i \in 1..n - 1 + 1 : a[i] = seq[1 + i - 1]
    BY <1>1, SubSeqProperties
  <2>2. n - 1 + 1 = n /\ \A i \in 1..n : 1 + i - 1 = i
    BY <1>1
  <2>3. QED BY <1>1, <2>1, <2>2, LenProperties
<1>3. /\ b \in Seq(Quads) /\ Len(b) = Len(seq) - n /\ DOMAIN b = 1..Len(seq) - n
      /\ \A i \in 1..Len(seq) - n : b[i] = seq[n + i]
  <2>1. \A i \in n + 1..Len(seq) : seq[i] \in Quads
    BY <1>1
  <2>2. /\ b \in Seq(Quads)
        /\ Len(b) = IF n + 1 <= Len(seq) THEN Len(seq) - (n + 1) + 1 ELSE 0
        /\ \A i \in 1..Len(seq) - (n + 1) + 1 : b[i] = seq[(n + 1) + i - 1]
    BY <1>1, <2>1, SubSeqProperties
  <2>3. /\ Len(seq) - (n + 1) + 1 = Len(seq) - n
        /\ \A i \in 1..Len(seq) - n : (n + 1) + i - 1 = n + i
        /\ ~ (n + 1 <= Len(seq)) => Len(seq) - n = 0
    <3>1. Len(seq) \in Nat /\ n \in Nat /\ n <= Len(seq)
      BY <1>1
    <3>2. Len(seq) - (n + 1) + 1 = Len(seq) - n
      BY <3>1
    <3>3. \A i \in 1..Len(seq) - n : (n + 1) + i - 1 = n + i
      BY <3>1
    <3>4. ~ (n + 1 <= Len(seq)) => Len(seq) - n = 0
      BY <3>1
    <3>5. QED BY <3>2, <3>3, <3>4
  <2> HIDE DEF b
  <2>4. Len(b) = Len(seq) - n
    BY <2>2, <2>3
  <2>5. \A i \in 1..Len(seq) - n : b[i] = seq[n + i]
    BY <2>2, <2>3
  <2>6. DOMAIN b = 1..Len(seq) - n
    BY <2>2, <2>4, LenProperties
  <2>7. QED BY <2>2, <2>4, <2>5, <2>6
<1> HIDE DEF a, b
<1>4. \A i \in 1..Len(seq) : \/ i \in 1..n
                           \/ (i - n \in 1..Len(seq) - n /\ n + (i - n) = i)
  BY <1>1
<1>5. \A i \in 1..Len(seq) - n : n + i \in 1..Len(seq) /\ n + i \notin 1..n
  BY <1>1
<1>6. Elements(a) \cup Elements(b) = Elements(seq)
  <2>1. Elements(seq) \subseteq Elements(a) \cup Elements(b)
    <3>1. ASSUME NEW i \in 1..Len(seq)
          PROVE  seq[i] \in Elements(a) \cup Elements(b)
      <4>1. CASE i \in 1..n
        BY <1>2, <4>1 DEF Elements
      <4>2. CASE i - n \in 1..Len(seq) - n /\ n + (i - n) = i
        <5>1. b[i - n] = seq[i]
          BY <1>3, <4>2
        <5>2. QED BY <1>3, <4>2, <5>1 DEF Elements
      <4>3. QED BY <1>4, <4>1, <4>2
    <3>2. QED BY <1>1, <3>1 DEF Elements
  <2>2. Elements(a) \subseteq Elements(seq)
    BY <1>1, <1>2 DEF Elements
  <2>3. Elements(b) \subseteq Elements(seq)
    BY <1>1, <1>3, <1>5 DEF Elements
  <2>4. QED BY <2>1, <2>2, <2>3
<1>7. Elements(a) \cap Elements(b) = {}
  <2>1. ASSUME NEW i \in 1..n, NEW j \in 1..Len(seq) - n
        PROVE  a[i] # b[j]
    <3>1. i \in 1..Len(seq) /\ n + j \in 1..Len(seq) /\ i # n + j
      BY <1>1
    <3>2. seq[i] # seq[n + j]
      BY <1>1, <3>1 DEF NoRepeats
    <3>3. QED BY <1>2, <1>3, <3>2
  <2>2. QED BY <1>2, <1>3, <2>1 DEF Elements
<1>8. NoRepeats(b)
  <2>1. ASSUME NEW i \in 1..Len(seq) - n, NEW j \in 1..Len(seq) - n, b[i] = b[j]
        PROVE  i = j
    <3>1. n + i = n + j
      BY <1>1, <1>3, <1>5, <2>1 DEF NoRepeats
    <3>2. QED BY <1>1, <3>1
  <2>2. QED BY <1>3, <2>1 DEF NoRepeats
<1>9. QED BY <1>3, <1>6, <1>7, <1>8 DEF a, b

(* Two of them, one after the other.                                       *)
LEMMA PutTogether ==
  ASSUME NEW s \in Seq(Quads), NEW t \in Seq(Quads), NoRepeats(s), NoRepeats(t),
         Elements(s) \cap Elements(t) = {}
  PROVE  /\ s \o t \in Seq(Quads)
         /\ NoRepeats(s \o t)
         /\ Elements(s \o t) = Elements(s) \cup Elements(t)
<1> DEFINE c == s \o t
<1>1. /\ Len(s) \in Nat /\ DOMAIN s = 1..Len(s)
      /\ Len(t) \in Nat /\ DOMAIN t = 1..Len(t)
  BY LenProperties
<1>2. /\ c \in Seq(Quads) /\ Len(c) = Len(s) + Len(t)
      /\ \A i \in 1..Len(s) + Len(t) : c[i] = IF i <= Len(s) THEN s[i] ELSE t[i - Len(s)]
  BY ConcatProperties
<1>3. DOMAIN c = 1..Len(s) + Len(t)
  BY <1>2, LenProperties
<1> HIDE DEF c
<1>4. \A i \in 1..Len(s) : i \in 1..Len(s) + Len(t) /\ c[i] = s[i]
  BY <1>1, <1>2
<1>5. \A i \in 1..Len(t) : Len(s) + i \in 1..Len(s) + Len(t) /\ c[Len(s) + i] = t[i]
  <2>1. \A i \in 1..Len(t) : /\ Len(s) + i \in 1..Len(s) + Len(t)
                             /\ ~(Len(s) + i <= Len(s)) /\ (Len(s) + i) - Len(s) = i
    BY <1>1
  <2>2. QED BY <1>2, <2>1
<1>6. \A i \in 1..Len(s) + Len(t) :
        \/ i \in 1..Len(s)
        \/ \E k \in 1..Len(t) : i = Len(s) + k
  <2>1. \A i \in 1..Len(s) + Len(t) :
          i \in 1..Len(s) \/ (i - Len(s) \in 1..Len(t) /\ i = Len(s) + (i - Len(s)))
    BY <1>1
  <2>2. QED BY <2>1
<1>7. Elements(c) = Elements(s) \cup Elements(t)
  <2>1. Elements(c) \subseteq Elements(s) \cup Elements(t)
    <3>1. ASSUME NEW i \in 1..Len(s) + Len(t)
          PROVE  c[i] \in Elements(s) \cup Elements(t)
      <4>1. CASE i \in 1..Len(s)
        BY <1>1, <1>4, <4>1 DEF Elements
      <4>2. ASSUME NEW k \in 1..Len(t), i = Len(s) + k
            PROVE  c[i] \in Elements(t)
        BY <1>1, <1>5, <4>2 DEF Elements
      <4>3. QED BY <1>6, <4>1, <4>2
    <3>2. QED BY <1>3, <3>1 DEF Elements
  <2>2. Elements(s) \cup Elements(t) \subseteq Elements(c)
    BY <1>1, <1>3, <1>4, <1>5, SMTT(30) DEF Elements
  <2>3. QED BY <2>1, <2>2
<1>8. NoRepeats(c)
  <2>1. ASSUME NEW i \in 1..Len(s) + Len(t), NEW j \in 1..Len(s) + Len(t), c[i] = c[j]
        PROVE  i = j
    <3>1. CASE i \in 1..Len(s) /\ j \in 1..Len(s)
      BY <1>1, <1>4, <2>1, <3>1 DEF NoRepeats
    <3>2. ASSUME NEW k \in 1..Len(t), NEW l \in 1..Len(t), i = Len(s) + k, j = Len(s) + l
          PROVE  i = j
      BY <1>1, <1>5, <2>1, <3>2 DEF NoRepeats
    <3>3. ASSUME NEW k \in 1..Len(t), i = Len(s) + k, j \in 1..Len(s)
          PROVE  FALSE
      <4>1. c[i] = t[k] /\ c[j] = s[j]
        BY <1>4, <1>5, <3>3, Zenon
      <4>2. t[k] = s[j]
        BY <2>1, <4>1, Zenon
      <4>3. QED BY <1>1, <3>3, <4>2 DEF Elements
    <3>4. ASSUME NEW k \in 1..Len(t), j = Len(s) + k, i \in 1..Len(s)
          PROVE  FALSE
      <4>1. c[j] = t[k] /\ c[i] = s[i]
        BY <1>4, <1>5, <3>4, Zenon
      <4>2. t[k] = s[i]
        BY <2>1, <4>1, Zenon
      <4>3. QED BY <1>1, <3>4, <4>2 DEF Elements
    <3>5. QED BY <1>6, <3>1, <3>2, <3>3, <3>4
  <2>2. QED BY <1>3, <2>1 DEF NoRepeats
<1>9. QED BY <1>2, <1>7, <1>8 DEF c

-----------------------------------------------------------------------------
(* The rate limiter sends a prefix of what waits.                          *)
RateOK ==
  /\ rate_setting = Setting
  /\ rate_queue \in Seq(Quads)
  /\ rate_in_flight \in Seq(Nat)

LEMMA MaxAgeType == Rate!MaxAge \in Nat
<1>1. {s.period : s \in {Setting}} = {Setting.period}
  OBVIOUS
<1>2. (CHOOSE m \in {Setting.period} : \A s \in {Setting} : s.period <= m) \in {Setting.period}
  <2>1. \E m \in {Setting.period} : \A s \in {Setting} : s.period <= m
    BY SettingType
  <2>2. QED BY <2>1
<1>3. QED BY <1>1, <1>2, SettingType DEF Rate!MaxAge

LEMMA InPeriodType ==
  ASSUME RateOK
  PROVE  /\ Rate!InPeriod(rate_in_flight) \in Seq(Nat)
         /\ Len(Rate!InPeriod(rate_in_flight)) \in Nat
<1> DEFINE late == {i \in DOMAIN rate_in_flight : rate_in_flight[i] > rate_setting.period}
           k == Cardinality(late)
<1>1. /\ Len(rate_in_flight) \in Nat /\ DOMAIN rate_in_flight = 1..Len(rate_in_flight)
      /\ \A i \in 1..Len(rate_in_flight) : rate_in_flight[i] \in Nat
  BY LenProperties, ElementOfSeq DEF RateOK
<1>2. late \in SUBSET (1..Len(rate_in_flight))
  BY <1>1
<1>3. IsFiniteSet(1..Len(rate_in_flight))
  BY <1>1, FS_Interval
<1>4. k \in Nat
  <2> HIDE DEF late
  <2>1. IsFiniteSet(late)
    BY <1>2, <1>3, FS_Subset
  <2>2. QED BY <2>1, FS_CardinalityType
<1>5. Rate!InPeriod(rate_in_flight) = SubSeq(rate_in_flight, 1 + k, Len(rate_in_flight))
  BY SameCardinality DEF Rate!InPeriod
<1> HIDE DEF k
<1>6. \A i \in 1 + k..Len(rate_in_flight) : rate_in_flight[i] \in Nat
  BY <1>1, <1>4
<1>7. SubSeq(rate_in_flight, 1 + k, Len(rate_in_flight)) \in Seq(Nat)
  BY <1>1, <1>4, <1>6, SubSeqProperties
<1>8. QED BY <1>5, <1>7, LenProperties

LEMMA SendsSome ==
  ASSUME RateOK, NEW n \in Nat
  PROVE  Rate!SendNow(n) \in 0..n
<1>1. Len(Rate!InPeriod(rate_in_flight)) \in Nat
  BY InPeriodType
<1>2. rate_setting.rate \in Nat
  BY SettingType DEF RateOK
<1>3. QED BY <1>1, <1>2 DEF Rate!SendNow

LEMMA SendsType ==
  ASSUME NEW n \in Nat
  PROVE  Rate!Sends(n) \in Seq(Nat)
<1>1. Rate!Sends(n) \in [1..n -> Nat]
  BY DEF Rate!Sends
<1>2. QED BY <1>1, SeqDef

LEMMA ProcessSplits ==
  ASSUME RateOK, NEW q \in Seq(Quads), NoRepeats(q), NEW idle_timer,
         Rate!Process(q, idle_timer)
  PROVE  /\ RateOK' /\ NoRepeats(rate_queue')
         /\ Elements(Rate!Sent(q)) \cup Elements(rate_queue') = Elements(q)
         /\ Elements(Rate!Sent(q)) \cap Elements(rate_queue') = {}
<1> DEFINE n == Rate!SendNow(Len(q))
<1>1. Len(q) \in Nat
  BY LenProperties
<1>2. n \in 0..Len(q)
  BY <1>1, SendsSome
<1>3. /\ Rate!Sent(q) = SubSeq(q, 1, n)
      /\ rate_queue' = SubSeq(q, n + 1, Len(q))
      /\ rate_in_flight' = Rate!InPeriod(rate_in_flight) \o Rate!Sends(n)
      /\ rate_setting' = rate_setting
  BY DEF Rate!Process, Rate!Sent
<1> HIDE DEF n
<1>4. rate_in_flight' \in Seq(Nat)
  BY <1>1, <1>2, <1>3, InPeriodType, SendsType, ConcatProperties
<1>5. QED BY <1>2, <1>3, <1>4, CutInTwo DEF RateOK

(* What the slot limiter emits is waiting or sent afterwards.              *)
LEMMA RequestsSplit ==
  ASSUME RateOK, NoRepeats(rate_queue), NEW ids \in Seq(Quads), NoRepeats(ids),
         Elements(rate_queue) \cap Elements(ids) = {},
         Rate!RateRequests(ids)
  PROVE  LET sent == IF ids = <<>> THEN {} ELSE Elements(Rate!Sent(rate_queue \o ids))
         IN  /\ RateOK' /\ NoRepeats(rate_queue')
             /\ sent \cup Elements(rate_queue') = Elements(rate_queue) \cup Elements(ids)
             /\ sent \cap Elements(rate_queue') = {}
<1>1. CASE ids = <<>>
  <2>1. Elements(ids) = {}
    BY <1>1 DEF Elements
  <2>2. UNCHANGED <<rate_setting, rate_queue, rate_in_flight>>
    BY <1>1 DEF Rate!RateRequests, Rate!rate_vars
  <2>3. QED BY <1>1, <2>1, <2>2 DEF RateOK, NoRepeats, Elements
<1>2. CASE ids # <<>>
  <2> DEFINE q == rate_queue \o ids
  <2>1. q \in Seq(Quads) /\ NoRepeats(q) /\ Elements(q) = Elements(rate_queue) \cup Elements(ids)
    BY PutTogether DEF RateOK
  <2>2. Rate!Process(q, rate_timer)
    BY <1>2 DEF Rate!RateRequests
  <2> HIDE DEF q
  <2>3. /\ RateOK' /\ NoRepeats(rate_queue')
        /\ Elements(Rate!Sent(q)) \cup Elements(rate_queue') = Elements(q)
        /\ Elements(Rate!Sent(q)) \cap Elements(rate_queue') = {}
    BY <2>1, <2>2, ProcessSplits
  <2>4. QED BY <1>2, <2>1, <2>3 DEF q
<1>3. QED BY <1>1, <1>2

LEMMA TickKeeps ==
  ASSUME RateOK, Rate!Tick
  PROVE  RateOK' /\ rate_queue' = rate_queue
<1>1. /\ Len(rate_in_flight) \in Nat /\ DOMAIN rate_in_flight = 1..Len(rate_in_flight)
      /\ \A i \in 1..Len(rate_in_flight) : rate_in_flight[i] \in Nat
  BY LenProperties, ElementOfSeq DEF RateOK
<1>2. Rate!Older(rate_in_flight) \in [1..Len(rate_in_flight) -> Nat]
  BY <1>1, MaxAgeType DEF Rate!Older
<1>3. Rate!Older(rate_in_flight) \in Seq(Nat)
  BY <1>1, <1>2, SeqDef
<1>4. QED BY <1>3 DEF RateOK, Rate!Tick

-----------------------------------------------------------------------------
(* The assembler, as long as it is asked only for quads it does not have.  *)
EntryType == [id : Quads, n_tiles : 0..3, tiles : SUBSET (1..4), status : 0..2]

AssemblerOK ==
  /\ DOMAIN quads \in SUBSET Quads
  /\ \A q \in DOMAIN quads : quads[q] \in EntryType
  /\ loading \in [Quads \X (1..4) -> Nat]
  /\ TilesAccountedFor
  /\ EntriesConsistent

LEMMA AssemblerTypes == AssemblerOK => Assembler!TypeOK
<1>1. EntryType \subseteq [id : Quads \cup {NoId}, n_tiles : 0..4,
                          tiles : SUBSET (1..4), status : 0..2]
  BY DEF EntryType
<1>2. Assembler!Status = 0..2
  BY DEF Assembler!Status, Assembler!Good, Assembler!NotFound, Assembler!NetworkError
<1>3. QED BY <1>1, <1>2 DEF AssemblerOK, Assembler!TypeOK, Assembler!Tiles, Assembler!Children

LEMMA LoadKeeps ==
  ASSUME AssemblerOK, NEW ids \in SUBSET Quads, ids \cap DOMAIN quads = {},
         Assembler!Load(ids)
  PROVE  AssemblerOK' /\ DOMAIN quads' = DOMAIN quads \cup ids
<1> DEFINE New(q) == [id |-> q, n_tiles |-> 0, tiles |-> {}, status |-> 0]
<1>1. quads' = [q \in DOMAIN quads \cup ids |-> IF q \in ids THEN New(q) ELSE quads[q]]
  BY DEF Assembler!Load, Assembler!Loaded, Assembler!NewEntry, Assembler!Good
<1>2. loading' = [t \in Quads \X (1..4) |-> IF t[1] \in ids THEN loading[t] + 1 ELSE loading[t]]
  BY DEF Assembler!Load, Assembler!Requested, Assembler!Tiles, Assembler!Children, Assembler!Parent
<1>3. DOMAIN quads' = DOMAIN quads \cup ids
  BY <1>1
<1>4. \A q \in ids : New(q) \in EntryType
  BY DEF EntryType
<1>5. \A q \in DOMAIN quads' : quads'[q] \in EntryType
  BY <1>1, <1>4 DEF AssemblerOK
<1>6. loading' \in [Quads \X (1..4) -> Nat]
  BY <1>2 DEF AssemblerOK
<1>7. EntriesConsistent'
  <2>1. Cardinality({}) = 0
    BY FS_EmptySet
  <2>2. QED BY <1>1, <2>1, SameCardinality
     DEF AssemblerOK, EntriesConsistent, Assembler!EntriesConsistent
<1>8. TilesAccountedFor'
  <2>1. ASSUME NEW t \in Quads \X (1..4)
        PROVE  loading'[t] = IF t[1] \in DOMAIN quads' /\ t[2] \notin quads'[t[1]].tiles
                             THEN 1 ELSE 0
    <3>1. loading[t] = IF t[1] \in DOMAIN quads /\ t[2] \notin quads[t[1]].tiles THEN 1 ELSE 0
      BY DEF AssemblerOK, TilesAccountedFor, Assembler!TilesAccountedFor,
             Assembler!Tiles, Assembler!Children, Assembler!Parent
    <3>2. CASE t[1] \in ids
      <4>1. loading[t] = 0
        BY <3>1, <3>2
      <4>2. loading'[t] = 1
        BY <1>2, <3>2, <4>1
      <4>3. t[1] \in DOMAIN quads' /\ t[2] \notin quads'[t[1]].tiles
        BY <1>1, <3>2
      <4>4. QED BY <4>2, <4>3
    <3>3. CASE t[1] \notin ids
      <4>1. loading'[t] = loading[t]
        BY <1>2, <3>3
      <4>2. t[1] \in DOMAIN quads' => t[1] \in DOMAIN quads /\ quads'[t[1]] = quads[t[1]]
        BY <1>1, <3>3
      <4>3. t[1] \in DOMAIN quads => t[1] \in DOMAIN quads'
        BY <1>3
      <4>4. QED BY <3>1, <4>1, <4>2, <4>3
    <3>4. QED BY <3>2, <3>3
  <2>2. QED BY <2>1 DEF TilesAccountedFor, Assembler!TilesAccountedFor,
                        Assembler!Tiles, Assembler!Children, Assembler!Parent
<1>9. QED BY <1>3, <1>5, <1>6, <1>7, <1>8 DEF AssemblerOK

LEMMA FourChildren == IsFiniteSet(1..4) /\ Cardinality(1..4) = 4
<1>1. \A n \in Nat : IsFiniteSet(1..n) /\ Cardinality(1..n) = n
  BY FS_Interval
<1>2. QED BY <1>1

(* An answer is one more tile of its quad.                                 *)
LEMMA NextTile ==
  ASSUME AssemblerOK, NEW t \in Assembler!Tiles, NEW status \in Answers, loading[t] > 0
  PROVE  LET p == t[1]
             e == quads[p]
             w == Assembler!WithTile(t, status)
         IN  /\ p \in DOMAIN quads /\ t[2] \in 1..4 /\ t[2] \notin e.tiles
             /\ w.id = p /\ w.n_tiles = e.n_tiles + 1 /\ w.tiles = e.tiles \cup {t[2]}
             /\ w.status \in 0..2
             /\ w.n_tiles = Cardinality(w.tiles) /\ w.n_tiles \in 1..4
             /\ w = [id |-> p, n_tiles |-> w.n_tiles, tiles |-> w.tiles, status |-> w.status]
<1> DEFINE p == t[1]
           e == quads[p]
           w == Assembler!WithTile(t, status)
<1>1. t \in Quads \X (1..4)
  BY DEF Assembler!Tiles, Assembler!Children
<1>2. p \in DOMAIN quads /\ t[2] \notin e.tiles
  BY DEF AssemblerOK, TilesAccountedFor, Assembler!TilesAccountedFor, Assembler!Parent
<1>3. /\ e \in EntryType /\ e.id = p
      /\ e.n_tiles = Cardinality(e.tiles)
  BY <1>2, SameCardinality
     DEF AssemblerOK, EntriesConsistent, Assembler!EntriesConsistent
<1>4. status \in 0..2
  BY AnswersType DEF Assembler!Status, Assembler!Good, Assembler!NotFound, Assembler!NetworkError
<1>5. w = [e EXCEPT !.n_tiles = @ + 1, !.tiles = @ \cup {t[2]},
                    !.status = IF @ > status THEN @ ELSE status]
  BY <1>2 DEF Assembler!WithTile, Assembler!Entry, Assembler!Parent, Assembler!Worse
<1> HIDE DEF p, e, w
<1>6. w = [id |-> p, n_tiles |-> e.n_tiles + 1, tiles |-> e.tiles \cup {t[2]},
           status |-> IF e.status > status THEN e.status ELSE status]
  BY <1>3, <1>5 DEF EntryType
<1>7. w.status \in 0..2
  BY <1>3, <1>4, <1>6 DEF EntryType
<1>8. Cardinality(e.tiles \cup {t[2]}) = e.n_tiles + 1
  <2>1. e.tiles \in SUBSET (1..4)
    BY <1>3 DEF EntryType
  <2>2. IsFiniteSet(e.tiles)
    BY <2>1, FourChildren, FS_Subset
  <2>3. QED BY <1>2, <1>3, <2>2, FS_AddElement
<1>9. e.n_tiles + 1 \in 1..4
  BY <1>3 DEF EntryType
<1>10. w.id = p /\ w.n_tiles = e.n_tiles + 1 /\ w.tiles = e.tiles \cup {t[2]}
  BY <1>6
<1>11. w = [id |-> p, n_tiles |-> w.n_tiles, tiles |-> w.tiles, status |-> w.status]
  BY <1>6
<1>12. t[2] \in 1..4
  BY <1>1
<1>13. QED BY <1>2, <1>7, <1>8, <1>9, <1>10, <1>11, <1>12 DEF p, e, w

(* A tile that does not complete its quad.                                 *)
LEMMA TileKeeps ==
  ASSUME AssemblerOK, NEW t \in Assembler!Tiles, NEW status \in Answers,
         TileArrives(t, status)
  PROVE  AssemblerOK' /\ DOMAIN quads' = DOMAIN quads
<1> DEFINE p == t[1]
           w == Assembler!WithTile(t, status)
<1>1. /\ loading[t] > 0 /\ w.n_tiles # 4
      /\ quads' = Assembler!Loaded(Assembler!Put(quads, p, w), {})
      /\ loading' = Assembler!Requested(Assembler!Answered(t), {})
  BY DEF TileArrives, Assembler!DeliverTile, Assembler!Completed, Assembler!Parent
<1>2. /\ p \in DOMAIN quads /\ t[2] \notin quads[p].tiles
      /\ w.id = p /\ w.tiles = quads[p].tiles \cup {t[2]}
      /\ w.n_tiles = Cardinality(w.tiles) /\ w.n_tiles \in 1..4
      /\ w \in EntryType
  <2>1. /\ p \in DOMAIN quads /\ t[2] \in 1..4 /\ t[2] \notin quads[p].tiles
        /\ w.id = p /\ w.tiles = quads[p].tiles \cup {t[2]} /\ w.status \in 0..2
        /\ w.n_tiles = Cardinality(w.tiles) /\ w.n_tiles \in 1..4
        /\ w = [id |-> p, n_tiles |-> w.n_tiles, tiles |-> w.tiles, status |-> w.status]
    BY <1>1, NextTile
  <2> HIDE DEF w
  <2>2. p \in Quads /\ w.tiles \in SUBSET (1..4) /\ w.n_tiles \in 0..3
    BY <1>1, <2>1 DEF AssemblerOK, EntryType
  <2>3. w \in EntryType
    BY <2>1, <2>2 DEF EntryType
  <2>4. QED BY <2>1, <2>3
<1> HIDE DEF w
<1>3. quads' = [q \in DOMAIN quads |-> IF q = p THEN w ELSE quads[q]]
  BY <1>1, <1>2 DEF Assembler!Loaded, Assembler!Put
<1>4. loading' = [loading EXCEPT ![t] = @ - 1]
  BY <1>1 DEF AssemblerOK, Assembler!Requested, Assembler!Answered,
              Assembler!Tiles, Assembler!Children
<1>5. t \in Quads \X (1..4) /\ loading[t] = 1
  BY <1>2 DEF AssemblerOK, TilesAccountedFor, Assembler!TilesAccountedFor, Assembler!Tiles,
              Assembler!Children, Assembler!Parent
<1>6. loading' \in [Quads \X (1..4) -> Nat]
  BY <1>4, <1>5 DEF AssemblerOK
<1>7. \A q \in DOMAIN quads' : quads'[q] \in EntryType
  BY <1>2, <1>3 DEF AssemblerOK
<1>8. EntriesConsistent'
  <2>1. w.n_tiles < 4
    BY <1>1, <1>2
  <2>2. QED BY <1>2, <1>3, <2>1, SameCardinality
     DEF AssemblerOK, EntriesConsistent, Assembler!EntriesConsistent
<1>9. TilesAccountedFor'
  <2>1. ASSUME NEW u \in Quads \X (1..4)
        PROVE  loading'[u] = IF u[1] \in DOMAIN quads' /\ u[2] \notin quads'[u[1]].tiles
                             THEN 1 ELSE 0
    <3>1. loading[u] = IF u[1] \in DOMAIN quads /\ u[2] \notin quads[u[1]].tiles THEN 1 ELSE 0
      BY DEF AssemblerOK, TilesAccountedFor, Assembler!TilesAccountedFor,
             Assembler!Tiles, Assembler!Children, Assembler!Parent
    <3>2. CASE u = t
      <4>1. loading'[u] = 0
        BY <1>4, <1>5, <3>2 DEF AssemblerOK
      <4>2. u[2] \in quads'[u[1]].tiles
        BY <1>2, <1>3, <3>2
      <4>3. QED BY <4>1, <4>2
    <3>3. CASE u # t
      <4>1. loading'[u] = loading[u]
        BY <1>4, <3>3 DEF AssemblerOK
      <4>2. u[1] = p => u[2] # t[2]
        BY <1>5, <3>3
      <4>3. u[1] \in DOMAIN quads => (u[2] \in quads'[u[1]].tiles <=> u[2] \in quads[u[1]].tiles)
        BY <1>2, <1>3, <4>2
      <4>4. DOMAIN quads' = DOMAIN quads
        BY <1>3
      <4>5. QED BY <3>1, <4>1, <4>3, <4>4
    <3>4. QED BY <3>2, <3>3
  <2>2. QED BY <2>1 DEF TilesAccountedFor, Assembler!TilesAccountedFor,
                        Assembler!Tiles, Assembler!Children, Assembler!Parent
<1>10. QED BY <1>3, <1>6, <1>7, <1>8, <1>9 DEF AssemblerOK

(* The fourth one: the quad is complete and leaves, others may come in.    *)
LEMMA QuadLeaves ==
  ASSUME AssemblerOK, NEW t \in Assembler!Tiles, NEW status \in Answers,
         NEW ids \in SUBSET Quads, ids \cap DOMAIN quads = {},
         NEW quad \in Assembler!Completed(t, status),
         Assembler!DeliverTile(t, status, ids)
  PROVE  /\ AssemblerOK' /\ DOMAIN quads' = (DOMAIN quads \ {t[1]}) \cup ids
         /\ t[1] \in DOMAIN quads
         /\ quad.id = t[1] /\ quad \in [id : {t[1]}, n_tiles : {4}, tiles : {1..4}, status : 0..2]
<1> DEFINE p == t[1]
           w == Assembler!WithTile(t, status)
           New(q) == [id |-> q, n_tiles |-> 0, tiles |-> {}, status |-> 0]
<1>1. /\ loading[t] > 0 /\ w.n_tiles = 4 /\ quad = w
      /\ quads' = Assembler!Erased(Assembler!Loaded(Assembler!Put(quads, p, w), ids), w.id)
      /\ loading' = Assembler!Requested(Assembler!Answered(t), ids)
  BY DEF Assembler!DeliverTile, Assembler!Completed, Assembler!Parent
<1>2. /\ p \in DOMAIN quads /\ t[2] \in 1..4 /\ t[2] \notin quads[p].tiles
      /\ w.id = p /\ w.tiles = quads[p].tiles \cup {t[2]} /\ w.status \in 0..2
      /\ w.n_tiles = Cardinality(w.tiles)
      /\ w = [id |-> p, n_tiles |-> w.n_tiles, tiles |-> w.tiles, status |-> w.status]
  BY <1>1, NextTile
<1> HIDE DEF w
<1>3. w.tiles = 1..4
  <2>1. w.tiles \in SUBSET (1..4)
    BY <1>2 DEF AssemblerOK, EntryType
  <2>2. QED BY <1>1, <1>2, <2>1, FourChildren, FS_Subset
<1>4. quad.id = p /\ quad \in [id : {p}, n_tiles : {4}, tiles : {1..4}, status : 0..2]
  BY <1>1, <1>2, <1>3
<1>5. quads' = [q \in (DOMAIN quads \ {p}) \cup ids |-> IF q \in ids THEN New(q) ELSE quads[q]]
  <2>1. Assembler!Put(quads, p, w) = [q \in DOMAIN quads |-> IF q = p THEN w ELSE quads[q]]
    BY <1>2 DEF Assembler!Put
  <2>2. p \notin ids
    BY <1>2
  <2>3. Assembler!Loaded(Assembler!Put(quads, p, w), ids)
          = [q \in DOMAIN quads \cup ids |->
               IF q \in ids THEN New(q) ELSE IF q = p THEN w ELSE quads[q]]
    BY <2>1 DEF Assembler!Loaded, Assembler!NewEntry, Assembler!Good
  <2>4. (DOMAIN quads \cup ids) \ {p} = (DOMAIN quads \ {p}) \cup ids
    BY <2>2
  <2> HIDE DEF New
  <2>5. QED BY <1>1, <1>2, <2>3, <2>4 DEF Assembler!Erased
<1>6. loading' = [u \in Quads \X (1..4) |->
                    IF u[1] \in ids THEN (IF u = t THEN loading[u] - 1 ELSE loading[u]) + 1
                    ELSE IF u = t THEN loading[u] - 1 ELSE loading[u]]
  BY <1>1 DEF AssemblerOK, Assembler!Requested, Assembler!Answered, Assembler!Tiles,
              Assembler!Children, Assembler!Parent
<1>7. \A u \in Quads \X (1..4) :
        loading[u] = IF u[1] \in DOMAIN quads /\ u[2] \notin quads[u[1]].tiles THEN 1 ELSE 0
  BY DEF AssemblerOK, TilesAccountedFor, Assembler!TilesAccountedFor,
         Assembler!Tiles, Assembler!Children, Assembler!Parent
<1>8. t \in Quads \X (1..4) /\ loading[t] = 1 /\ p \notin ids
  BY <1>2, <1>7 DEF Assembler!Tiles, Assembler!Children
<1>9. \A u \in Quads \X (1..4) :
        loading'[u] = IF u[1] \in (DOMAIN quads \ {p}) \cup ids
                         /\ u[2] \notin quads'[u[1]].tiles
                      THEN 1 ELSE 0
  <2>1. ASSUME NEW u \in Quads \X (1..4)
        PROVE  loading'[u] = IF u[1] \in (DOMAIN quads \ {p}) \cup ids
                                /\ u[2] \notin quads'[u[1]].tiles
                             THEN 1 ELSE 0
    <3>1. CASE u[1] \in ids
      <4>1. u # t /\ loading[u] = 0
        BY <1>7, <1>8, <3>1
      <4>2. loading'[u] = 1
        BY <1>6, <3>1, <4>1
      <4>3. quads'[u[1]].tiles = {}
        BY <1>5, <3>1
      <4>4. QED BY <3>1, <4>2, <4>3
    <3>2. CASE u = t
      <4>1. loading'[u] = 0
        BY <1>6, <1>8, <3>2
      <4>2. QED BY <1>8, <3>2, <4>1
    <3>3. CASE u # t /\ u[1] = p
      <4>1. u[2] # t[2] /\ u[2] \in 1..4
        BY <1>8, <3>3
      <4>2. u[2] \in quads[p].tiles
        BY <1>2, <1>3, <4>1
      <4>3. loading[u] = 0
        BY <1>7, <3>3, <4>2
      <4>4. loading'[u] = 0
        BY <1>6, <1>8, <3>3, <4>3
      <4>5. QED BY <1>8, <3>3, <4>4
    <3>4. CASE u[1] \notin ids /\ u[1] # p
      <4>1. loading'[u] = loading[u]
        BY <1>6, <3>4
      <4>2. u[1] \in DOMAIN quads => quads'[u[1]] = quads[u[1]]
        BY <1>5, <3>4
      <4>3. QED BY <1>7, <3>4, <4>1, <4>2
    <3>5. QED BY <3>1, <3>2, <3>3, <3>4
  <2>2. QED BY <2>1
<1>10. DOMAIN quads' = (DOMAIN quads \ {p}) \cup ids
  BY <1>5
<1>11. TilesAccountedFor'
  BY <1>9, <1>10 DEF TilesAccountedFor, Assembler!TilesAccountedFor,
                     Assembler!Tiles, Assembler!Children, Assembler!Parent
<1>12. EntriesConsistent'
  <2>1. Cardinality({}) = 0
    BY FS_EmptySet
  <2>2. QED BY <1>5, <2>1, SameCardinality
     DEF AssemblerOK, EntriesConsistent, Assembler!EntriesConsistent
<1>13. \A q \in DOMAIN quads' : quads'[q] \in EntryType
  <2>1. \A q \in ids : New(q) \in EntryType
    BY DEF EntryType
  <2>2. QED BY <1>5, <2>1 DEF AssemblerOK
<1>14. loading' \in [Quads \X (1..4) -> Nat]
  <2>1. \A u \in Quads \X (1..4) : loading'[u] \in Nat
    BY <1>9
  <2>2. QED BY <1>6, <2>1
<1>15. DOMAIN quads' \in SUBSET Quads
  BY <1>10 DEF AssemblerOK
<1>16. QED BY <1>2, <1>4, <1>10, <1>11, <1>12, <1>13, <1>14, <1>15 DEF AssemblerOK

-----------------------------------------------------------------------------
(* A slot is given only to a quad that holds none, so that nothing that is *)
(* sent to the assembler is already there.                                 *)
PipelineInv ==
  /\ slot_limit = Limit
  /\ slot_in_flight \in SUBSET Quads /\ slot_queue \in SUBSET Quads
  /\ slot_in_flight \cap slot_queue = {}
  /\ RateOK
  /\ AssemblerOK
  /\ SlotsAccountedFor
  /\ delivered.id \in Quads \cup {NoId} /\ delivered.status \in 0..2

LEMMA InitInv == Init => PipelineInv
<1> SUFFICES ASSUME Init PROVE PipelineInv
  OBVIOUS
<1>1. /\ slot_limit = Limit /\ slot_in_flight = {} /\ slot_queue = {}
      /\ rate_setting = Setting /\ rate_queue = <<>> /\ rate_in_flight = <<>>
      /\ DOMAIN quads = {} /\ loading = [t \in Quads \X (1..4) |-> 0]
      /\ delivered.id = NoId /\ delivered.status = 0
  BY DEF Init, Slots!Init, Rate!RateInit, Assembler!Init, Assembler!NewEntry, Assembler!Good,
         Assembler!Tiles, Assembler!Children
<1>2. RateOK
  BY <1>1 DEF RateOK
<1>3. AssemblerOK
  BY <1>1 DEF AssemblerOK, TilesAccountedFor, EntriesConsistent, Assembler!TilesAccountedFor,
              Assembler!EntriesConsistent, Assembler!Tiles, Assembler!Children, Assembler!Parent
<1>4. SlotsAccountedFor
  BY <1>1 DEF SlotsAccountedFor, Elements
<1>5. QED BY <1>1, <1>2, <1>3, <1>4 DEF PipelineInv

(* A list of quads: what gets a slot is sent or waits for the rate.        *)
LEMMA RequestStep ==
  ASSUME PipelineInv, NEW ids \in SUBSET Quads, RequestQuads(ids)
  PROVE  PipelineInv' /\ [Service!Next]_(Service!vars)
<1> DEFINE A == Slots!Admitted(ids)
           list == Slots!InOrder(A)
           sent == IF list = <<>> THEN {} ELSE Elements(Rate!Sent(rate_queue \o list))
<1>1. /\ slot_limit' = slot_limit
      /\ slot_in_flight' = slot_in_flight \cup A
      /\ slot_queue' = Slots!Fresh(ids) \ A
      /\ Rate!RateRequests(list)
      /\ Assembler!Load(sent)
      /\ delivered' = delivered
  BY DEF RequestQuads, Slots!RequestQuads
<1>2. /\ A \in SUBSET Slots!Fresh(ids) /\ Slots!Fresh(ids) \in SUBSET Quads
      /\ Slots!Fresh(ids) \cap slot_in_flight = {}
  BY DEF Slots!Admitted, Slots!Fresh
<1> HIDE DEF A
<1>3. list \in Seq(Quads) /\ Elements(list) = A /\ NoRepeats(list)
  BY <1>2, InOrderLists
<1> HIDE DEF list
<1>4. /\ RateOK' /\ NoRepeats(rate_queue')
      /\ sent \cup Elements(rate_queue') = Elements(rate_queue) \cup A
      /\ sent \cap Elements(rate_queue') = {}
  BY <1>1, <1>2, <1>3, RequestsSplit DEF PipelineInv, SlotsAccountedFor, NoRepeats
<1> HIDE DEF sent
<1>5. sent \in SUBSET Quads /\ sent \cap DOMAIN quads = {}
  BY <1>2, <1>4 DEF PipelineInv, SlotsAccountedFor
<1>6. AssemblerOK' /\ DOMAIN quads' = DOMAIN quads \cup sent
  BY <1>1, <1>5, LoadKeeps DEF PipelineInv
<1>7. SlotsAccountedFor'
  <2>1. slot_in_flight' = Elements(rate_queue)' \cup DOMAIN quads'
    BY <1>1, <1>4, <1>6 DEF PipelineInv, SlotsAccountedFor, Elements
  <2>2. Elements(rate_queue)' \cap DOMAIN quads' = {}
    BY <1>2, <1>4, <1>6 DEF PipelineInv, SlotsAccountedFor, Elements
  <2>3. QED BY <1>4, <2>1, <2>2 DEF SlotsAccountedFor, NoRepeats
<1>8. PipelineInv'
  BY <1>1, <1>2, <1>4, <1>6, <1>7 DEF PipelineInv
<1>9. CASE A = {}
  BY <1>1, <1>8, <1>9 DEF Service!vars
<1>10. CASE A # {}
  <2>1. /\ A \cap slot_in_flight = {} /\ A \in SUBSET Quads
        /\ Cardinality(slot_in_flight \cup A) <= Limit
    BY <1>10, AdmittedFit DEF PipelineInv, A
  <2>2. Service!TakeUp(A)
    BY <1>1, <1>10, <2>1, SameCardinality DEF Service!TakeUp
  <2>3. QED BY <1>8, <2>1, <2>2 DEF Service!Next
<1>11. QED BY <1>8, <1>9, <1>10

(* A tile that does not complete its quad changes nothing for others.      *)
LEMMA TileStep ==
  ASSUME PipelineInv, NEW t \in Assembler!Tiles, NEW status \in Answers, TileArrives(t, status)
  PROVE  PipelineInv' /\ UNCHANGED Service!vars
<1>1. AssemblerOK' /\ DOMAIN quads' = DOMAIN quads
  BY TileKeeps DEF PipelineInv
<1>2. UNCHANGED <<slot_vars, rate_vars, delivered>>
  BY DEF TileArrives
<1>3. RateOK'
  BY <1>2 DEF PipelineInv, RateOK, rate_vars
<1>4. SlotsAccountedFor'
  BY <1>1, <1>2 DEF PipelineInv, SlotsAccountedFor, Elements, slot_vars, rate_vars
<1>5. QED BY <1>1, <1>2, <1>3, <1>4 DEF PipelineInv, slot_vars, Service!vars

(* A complete quad is one that was taken up, and frees its slot for one    *)
(* that holds none.                                                        *)
LEMMA QuadStep ==
  ASSUME PipelineInv, NEW t \in Assembler!Tiles, NEW status \in Answers, QuadArrives(t, status)
  PROVE  PipelineInv' /\ \E q \in Quads : Service!Deliver(q)
<1>1. PICK quad \in Assembler!Completed(t, status) :
        LET next == Slots!InOrder(Slots!FirstOf(slot_queue)) IN
        /\ Slots!DeliverQuad(quad.id)
        /\ delivered' = quad
        /\ Rate!RateRequests(next)
        /\ Assembler!DeliverTile(t, status,
             IF next = <<>> THEN {} ELSE Elements(Rate!Sent(rate_queue \o next)))
  BY DEF QuadArrives
<1> DEFINE F == Slots!FirstOf(slot_queue)
           list == Slots!InOrder(F)
           sent == IF list = <<>> THEN {} ELSE Elements(Rate!Sent(rate_queue \o list))
           p == t[1]
<1>2. /\ slot_limit' = slot_limit
      /\ quad.id \in slot_in_flight
      /\ slot_in_flight' = (slot_in_flight \ {quad.id}) \cup F
      /\ slot_queue' = slot_queue \ F
      /\ delivered' = quad
      /\ Rate!RateRequests(list)
      /\ Assembler!DeliverTile(t, status, sent)
  BY <1>1 DEF Slots!DeliverQuad
<1>3. F \in SUBSET slot_queue /\ F \in SUBSET Quads /\ IsFiniteSet(F) /\ Cardinality(F) <= 1
  BY FirstIsOne DEF PipelineInv
<1> HIDE DEF F
<1>4. list \in Seq(Quads) /\ Elements(list) = F /\ NoRepeats(list)
  BY <1>3, InOrderLists
<1> HIDE DEF list
<1>5. /\ RateOK' /\ NoRepeats(rate_queue')
      /\ sent \cup Elements(rate_queue') = Elements(rate_queue) \cup F
      /\ sent \cap Elements(rate_queue') = {}
  <2>1. Elements(rate_queue) \cap F = {} /\ NoRepeats(rate_queue)
    BY <1>3 DEF PipelineInv, SlotsAccountedFor, NoRepeats
  <2>2. QED BY <1>2, <1>4, <2>1, RequestsSplit DEF PipelineInv
<1> HIDE DEF sent
<1>6. sent \in SUBSET Quads /\ sent \cap DOMAIN quads = {}
  BY <1>3, <1>5 DEF PipelineInv, SlotsAccountedFor
<1>7. /\ AssemblerOK' /\ DOMAIN quads' = (DOMAIN quads \ {p}) \cup sent
      /\ p \in DOMAIN quads /\ quad.id = p
      /\ quad \in [id : {p}, n_tiles : {4}, tiles : {1..4}, status : 0..2]
  BY <1>2, <1>6, QuadLeaves DEF PipelineInv
<1>8. p \in Quads /\ p \in slot_in_flight /\ p \notin Elements(rate_queue)
  BY <1>7 DEF PipelineInv, SlotsAccountedFor, AssemblerOK
<1>9. SlotsAccountedFor'
  <2>1. slot_in_flight' = Elements(rate_queue') \cup DOMAIN quads'
    BY <1>2, <1>5, <1>7, <1>8 DEF PipelineInv, SlotsAccountedFor
  <2>2. Elements(rate_queue') \cap DOMAIN quads' = {}
    BY <1>3, <1>5, <1>7, <1>8 DEF PipelineInv, SlotsAccountedFor
  <2>3. QED BY <1>5, <2>1, <2>2 DEF SlotsAccountedFor, NoRepeats, Elements
<1>10. PipelineInv'
  <2>1. slot_in_flight' \in SUBSET Quads /\ slot_queue' \in SUBSET Quads /\ slot_in_flight' \cap slot_queue' = {}
    BY <1>2, <1>3 DEF PipelineInv
  <2>2. delivered'.id \in Quads /\ delivered'.status \in 0..2
    BY <1>2, <1>7, <1>8
  <2>3. QED BY <1>2, <1>5, <1>7, <1>9, <2>1, <2>2 DEF PipelineInv
<1>11. Service!Deliver(p)
  <2>1. delivered' \in Service!Quad(p)
    BY <1>2, <1>7 DEF Service!Quad
  <2>2. F \in SUBSET (Quads \ slot_in_flight) /\ Service!Cardinality(F) <= 1
    BY <1>3, SameCardinality DEF PipelineInv
  <2>3. slot_in_flight' = (slot_in_flight \ {p}) \cup F
    BY <1>2, <1>7
  <2>4. QED BY <1>8, <2>1, <2>2, <2>3 DEF Service!Deliver
<1>12. QED BY <1>8, <1>10, <1>11

(* The timer: quads that waited for the rate are sent.                     *)
LEMMA TimerStep ==
  ASSUME PipelineInv, RateTimerFires
  PROVE  PipelineInv' /\ UNCHANGED Service!vars
<1> DEFINE sent == Elements(Rate!Sent(rate_queue))
<1>1. /\ Rate!Process(rate_queue, Rate!NoTimer)
      /\ Assembler!Load(sent)
      /\ UNCHANGED <<slot_vars, delivered>>
  BY DEF RateTimerFires, Rate!TimerFires
<1>2. /\ RateOK' /\ NoRepeats(rate_queue')
      /\ sent \cup Elements(rate_queue') = Elements(rate_queue)
      /\ sent \cap Elements(rate_queue') = {}
  <2>1. RateOK /\ rate_queue \in Seq(Quads) /\ NoRepeats(rate_queue)
    BY DEF PipelineInv, SlotsAccountedFor, RateOK, NoRepeats
  <2>2. QED BY <1>1, <2>1, ProcessSplits
<1> HIDE DEF sent
<1>3. sent \in SUBSET Quads /\ sent \cap DOMAIN quads = {}
  BY <1>2 DEF PipelineInv, SlotsAccountedFor
<1>4. AssemblerOK' /\ DOMAIN quads' = DOMAIN quads \cup sent
  BY <1>1, <1>3, LoadKeeps DEF PipelineInv
<1>5. SlotsAccountedFor'
  <2>1. slot_in_flight' = Elements(rate_queue') \cup DOMAIN quads'
    BY <1>1, <1>2, <1>4 DEF PipelineInv, SlotsAccountedFor, slot_vars
  <2>2. Elements(rate_queue') \cap DOMAIN quads' = {}
    BY <1>2, <1>4 DEF PipelineInv, SlotsAccountedFor
  <2>3. QED BY <1>2, <2>1, <2>2 DEF SlotsAccountedFor, NoRepeats, Elements
<1>6. QED BY <1>1, <1>2, <1>4, <1>5 DEF PipelineInv, slot_vars, Service!vars

LEMMA TickStep ==
  ASSUME PipelineInv, Tick
  PROVE  PipelineInv' /\ UNCHANGED Service!vars
<1>1. UNCHANGED <<slot_vars, assembler_vars, delivered>> /\ Rate!Tick
  BY DEF Tick
<1>2. RateOK' /\ rate_queue' = rate_queue
  BY <1>1, TickKeeps DEF PipelineInv
<1>3. AssemblerOK'
  BY <1>1 DEF PipelineInv, AssemblerOK, TilesAccountedFor, EntriesConsistent,
              Assembler!TilesAccountedFor, Assembler!EntriesConsistent, assembler_vars
<1>4. SlotsAccountedFor'
  BY <1>1, <1>2 DEF PipelineInv, SlotsAccountedFor, Elements, slot_vars, assembler_vars
<1>5. QED BY <1>1, <1>2, <1>3, <1>4 DEF PipelineInv, slot_vars, Service!vars

LEMMA StutterKeeps ==
  ASSUME PipelineInv, UNCHANGED vars
  PROVE  PipelineInv' /\ UNCHANGED Service!vars
<1>1. UNCHANGED <<slot_vars, rate_vars, assembler_vars, delivered>>
  BY DEF vars
<1>2. RateOK'
  BY <1>1 DEF PipelineInv, RateOK, rate_vars
<1>3. AssemblerOK'
  BY <1>1 DEF PipelineInv, AssemblerOK, TilesAccountedFor, EntriesConsistent,
              Assembler!TilesAccountedFor, Assembler!EntriesConsistent, assembler_vars
<1>4. SlotsAccountedFor'
  BY <1>1 DEF PipelineInv, SlotsAccountedFor, Elements, slot_vars, rate_vars, assembler_vars
<1>5. QED BY <1>1, <1>2, <1>3, <1>4 DEF PipelineInv, slot_vars, Service!vars

(* Every step keeps the invariant and is one of QuadService's, or none.    *)
LEMMA StepSimulation ==
  PipelineInv /\ [Next]_vars => PipelineInv' /\ [Service!Next]_(Service!vars)
<1> SUFFICES ASSUME PipelineInv, [Next]_vars
             PROVE  PipelineInv' /\ [Service!Next]_(Service!vars)
  OBVIOUS
<1>1. CASE \E ids \in SUBSET Quads : RequestQuads(ids)
  BY <1>1, RequestStep
<1>2. CASE \E t \in Assembler!Tiles, s \in Answers : TileArrives(t, s)
  BY <1>2, TileStep
<1>3. CASE \E t \in Assembler!Tiles, s \in Answers : QuadArrives(t, s)
  BY <1>3, QuadStep DEF Service!Next
<1>4. CASE RateTimerFires
  BY <1>4, TimerStep
<1>5. CASE Tick
  BY <1>5, TickStep
<1>6. CASE UNCHANGED vars
  BY <1>6, StutterKeeps
<1>7. QED BY <1>1, <1>2, <1>3, <1>4, <1>5, <1>6 DEF Next

LEMMA InvHolds == Spec => []PipelineInv
<1>1. PipelineInv /\ [Next]_vars => PipelineInv'
  BY StepSimulation
<1>2. QED BY <1>1, InitInv, PTL DEF Spec

-----------------------------------------------------------------------------
(* Type correctness of the assembler and of what the scheduler receives:   *)
(* no entry outside the quads that were asked for, no count past four.     *)
THEOREM PipelineTypeCorrect == Spec => []TypeOK
<1>1. PipelineInv => TypeOK
  BY AssemblerTypes DEF PipelineInv, TypeOK, Assembler!Status, Assembler!Good,
     Assembler!NotFound, Assembler!NetworkError
<1>2. QED BY <1>1, InvHolds, PTL

(* No slot leaks and none is used twice: a quad that holds one waits for   *)
(* the rate once, or is being assembled.                                   *)
THEOREM NoSlotLeaks == Spec => []SlotsAccountedFor
<1>1. PipelineInv => SlotsAccountedFor
  BY DEF PipelineInv
<1>2. QED BY <1>1, InvHolds, PTL

(* Each child of a quad that is being assembled is there or is asked for   *)
(* exactly once: deliver_tile counts to four exactly when the quad is whole. *)
THEOREM NoTileLost == Spec => []TilesAccountedFor
<1>1. PipelineInv => TilesAccountedFor
  BY DEF PipelineInv, AssemblerOK
<1>2. QED BY <1>1, InvHolds, PTL

(* An entry of m_quads is removed through the id it is found by.           *)
THEOREM EntriesAreTheirOwn == Spec => []EntriesConsistent
<1>1. PipelineInv => EntriesConsistent
  BY DEF PipelineInv, AssemblerOK
<1>2. QED BY <1>1, InvHolds, PTL

(* The loader implements the steps of QuadService: a quad is taken up only *)
(* while it is not outstanding and at most Limit are, and each that comes  *)
(* back was taken up and is complete.                                      *)
THEOREM LoaderImplementsService ==
  Spec => Service!Init /\ [][Service!Next]_(Service!vars)
<1>1. Init => Service!Init
  BY DEF Init, Slots!Init, Service!Init, Assembler!NewEntry, Assembler!Good
<1>2. QED BY <1>1, StepSimulation, InvHolds, PTL DEF Spec
=============================================================================
