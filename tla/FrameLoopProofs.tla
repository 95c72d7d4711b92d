-------------------------- MODULE FrameLoopProofs ---------------------------
(***************************************************************************)
(* What the render graph keeps from frame to frame, and what the passes    *)
(* find when they run, for any sessions, graphs, pools and rings.  What an *)
(* entry of the persistent pool says of itself is true, and a history that *)
(* is declared valid carries what the last frame left in it.  No timings   *)
(* are lost or overwritten.  A pass finds in what it reads what the passes *)
(* before it wrote, although passes are dropped and moved and resources    *)
(* are put on shared objects; it never finds two resources on one object;  *)
(* and a bake that is skipped is there.                                    *)
(***************************************************************************)
EXTENDS FrameLoop, RenderGraphProofs

(* The persistent pool.  PoolSane, of one entry.                           *)
Sane(e) ==
  /\ e.baked => \E layer \in 0..(e.layers - 1) : e.content[layer].bake = e.initHash
  /\ ~e.created => e.content = [s \in 0..1 |-> Blank]
  /\ e.fresh => e.idle = 0 /\ e.created
  /\ \A k \in Kinds : e.atCreate[k] \subseteq e.usage[k]

(* What is inductive about histories.  An entry that was used by the last  *)
(* frame and not yet by this one still has in .curr what was shown; once   *)
(* this frame has touched it, the same object is .prev.  was is shown.     *)
Carried(n, e, was) ==
  /\ e.idle >= 1 => (n \in DOMAIN was <=> e.idle = 1)
  /\ e.idle = 1 => e.content[Slot(e, 0)] = was[n]
  /\ e.idle = 0 => (e.recent <=> n \in DOMAIN was)
  /\ e.idle = 0 /\ e.layers = 2 /\ e.created /\ ~e.fresh /\ e.recent =>
       e.content[Slot(e, 1)] = was[n]

Sound(n, e, was) == e \in Entry /\ Sane(e) /\ Carried(n, e, was)

PoolInv ==
  /\ DOMAIN pool \subseteq Names
  /\ DOMAIN shown \subseteq DOMAIN pool
  /\ \A n \in DOMAIN shown : shown[n] \in Content
  /\ \A n \in DOMAIN pool : Sound(n, pool[n], shown)

-----------------------------------------------------------------------------
LEMMA BlankType == Blank \in Content /\ Blank.bake \notin Hashes
BY HashesType DEF Blank, Content, NoBake, Never

LEMMA AgedType ==
  ASSUME NEW c \in Content
  PROVE  Aged(c) \in Content /\ Aged(c).bake = c.bake
BY DEF Aged, Content, Never

LEMMA SlotType ==
  ASSUME NEW e \in Entry
  PROVE  /\ Slot(e, 0) \in 0..(e.layers - 1)
         /\ Slot(e, 1) \in 0..1
         /\ e.layers = 2 => Slot(e, 1) # Slot(e, 0)
<1>1. e.layers \in 1..2 /\ e.turn \in 0..1
  BY DEF Entry
<1>2. CASE e.layers = 1
  BY <1>1, <1>2 DEF Slot
<1>3. CASE e.layers = 2
  <2>1. CASE e.turn = 0
    BY <1>3, <2>1 DEF Slot
  <2>2. CASE e.turn = 1
    BY <1>3, <2>2 DEF Slot
  <2>3. QED BY <1>1, <2>1, <2>2
<1>4. QED BY <1>1, <1>2, <1>3

(* Destroying an entry's objects leaves a sane one.                        *)
LEMMA DestroyedSound ==
  ASSUME NEW e \in Entry, \A k \in Kinds : e.atCreate[k] \subseteq e.usage[k], ~e.fresh
  PROVE  /\ Destroyed(e) \in Entry /\ Sane(Destroyed(e))
         /\ ~Destroyed(e).created
BY BlankType DEF Destroyed, Entry, Sane

(* A new entry.                                                            *)
LEMMA NewSound ==
  ASSUME NEW n, n \notin DOMAIN shown, NEW use \in Use
  PROVE  Sound(n, NewEntry(use), shown) /\ NewEntry(use).idle = 0
<1>1. NewEntry(use) \in Entry
  BY BlankType, HashesType, RetainType DEF NewEntry, Entry, Use
<1>2. Sane(NewEntry(use)) /\ Carried(n, NewEntry(use), shown)
  BY DEF NewEntry, Sane, Carried, Use
<1>3. QED BY <1>1, <1>2 DEF Sound, NewEntry

(* What touch does to an entry that no graph of this frame has touched: it *)
(* is turned, and loses its objects if it is another kind of resource, or  *)
(* has another hash.                                                       *)
LEMMA KeptSound ==
  ASSUME NEW e \in Entry, NEW use \in Use, Sane(e), ~e.fresh
  PROVE  /\ Kept(e, use) \in Entry /\ Sane(Kept(e, use))
         /\ Kept(e, use).idle = e.idle /\ Kept(e, use).turn = e.turn /\ ~Kept(e, use).fresh
         /\ Kept(e, use).created => Kept(e, use) = e /\ e.layers = use.layers
<1>1. CASE e.kind # use.kind \/ e.layers # use.layers
  BY <1>1, DestroyedSound DEF Kept, Destroyed, Sane, Entry
<1>2. CASE ~(e.kind # use.kind \/ e.layers # use.layers)
  BY <1>2 DEF Kept
<1>3. QED BY <1>1, <1>2

LEMMA TurnedSound ==
  ASSUME NEW e \in Entry, NEW use \in Use, Sane(e), ~e.fresh,
         ~e.created \/ e.layers = use.layers
  PROVE  /\ Turned(e, use) \in Entry /\ Sane(Turned(e, use))
         /\ Turned(e, use).idle = 0 /\ (Turned(e, use).recent <=> e.idle = 1)
         /\ ~Turned(e, use).fresh /\ Turned(e, use).created = e.created
         /\ e.created => Turned(e, use).layers = e.layers
         /\ Turned(e, use).content = e.content
         /\ e.created /\ e.layers = 2 => Slot(Turned(e, use), 1) = Slot(e, 0)
<1>1. /\ e.turn \in 0..1 /\ use.layers \in 1..2 /\ use.kind \in Kinds
      /\ \A s \in 0..1 : Blank.bake \notin Hashes
  BY BlankType DEF Entry, Use
<1>2. Turned(e, use) \in Entry
  <2> DEFINE now == (e.idle = 1)
  <2>1. now \in BOOLEAN /\ 1 - e.turn \in 0..1 /\ 0 \in 0..Retain
    BY <1>1, RetainType
  <2>2. Turned(e, use) = [e EXCEPT !.recent = now, !.turn = 1 - e.turn, !.idle = 0,
                                   !.layers = use.layers, !.kind = use.kind]
    BY DEF Turned
  <2> HIDE DEF now
  <2>3. QED BY <1>1, <2>1, <2>2, Zenon DEF Entry
<1>3. Sane(Turned(e, use))
  <2>1. CASE e.created
    BY <2>1 DEF Turned, Sane, Entry
  <2>2. CASE ~e.created
    <3>1. e.layers \in 1..2 /\ e.initHash \in Hashes
      BY DEF Entry
    <3>2. \A layer \in 0..(e.layers - 1) : layer \in 0..1
      BY <3>1
    <3>3. ~e.baked
      BY <2>2, <3>1, <3>2, BlankType DEF Sane
    <3>4. QED BY <2>2, <3>3 DEF Turned, Sane, Entry
  <2>3. QED BY <2>1, <2>2
<1>4. e.created /\ e.layers = 2 => Slot(Turned(e, use), 1) = Slot(e, 0)
  <2>1. SUFFICES ASSUME e.created, e.layers = 2 PROVE Slot(Turned(e, use), 1) = Slot(e, 0)
    OBVIOUS
  <2>2. Turned(e, use).layers = 2 /\ Turned(e, use).turn = 1 - e.turn
    BY <2>1 DEF Turned, Entry
  <2>3. CASE e.turn = 0
    BY <2>1, <2>2, <2>3 DEF Slot
  <2>4. CASE e.turn = 1
    BY <2>1, <2>2, <2>4 DEF Slot
  <2>5. QED BY <1>1, <2>3, <2>4
<1>5. QED BY <1>2, <1>3, <1>4 DEF Turned, Entry

LEMMA TouchedSound ==
  ASSUME NEW n, NEW e, NEW use \in Use, Sound(n, e, shown)
  PROVE  Sound(n, Touched(e, use), shown) /\ Touched(e, use).idle = 0
<1>1. CASE e.idle = 0
  BY <1>1 DEF Touched
<1>2. CASE e.idle # 0
  <2> DEFINE k == Kept(e, use)
             t == Turned(k, use)
             r == Rehashed(t, use)
  <2>1. e \in Entry /\ Sane(e) /\ Carried(n, e, shown) /\ ~e.fresh /\ e.idle \in Nat
    BY <1>2, RetainType DEF Sound, Sane, Entry
  <2>2. /\ k \in Entry /\ Sane(k) /\ k.idle = e.idle /\ ~k.fresh
        /\ k.created => k = e /\ e.layers = use.layers
    BY <2>1, KeptSound
  <2>3. /\ t \in Entry /\ Sane(t) /\ t.idle = 0 /\ (t.recent <=> e.idle = 1)
        /\ ~t.fresh /\ t.created = k.created
        /\ k.created => t.layers = k.layers
        /\ t.content = k.content
        /\ k.created /\ k.layers = 2 => Slot(t, 1) = Slot(k, 0)
    BY <2>2, TurnedSound
  <2>4. Carried(n, t, shown)
    BY <1>2, <2>1, <2>2, <2>3 DEF Carried
  <2>5. Sound(n, r, shown) /\ r.idle = 0
    <3>1. CASE HashForcesDestroy(t, use.hash)
      <4> DEFINE d == Destroyed(t)
      <4>1. d \in Entry /\ Sane(d) /\ ~d.created
        BY <2>3, DestroyedSound DEF Sane
      <4>2. r = [d EXCEPT !.historyHash = use.hash]
        BY <3>1 DEF Rehashed
      <4>3. r \in Entry /\ Sane(r) /\ ~r.created /\ r.idle = d.idle /\ r.recent = d.recent
        BY <4>1, <4>2 DEF Entry, Sane, Use
      <4>4. d.idle = t.idle /\ d.recent = t.recent
        BY <2>3 DEF Destroyed, Entry
      <4>5. QED BY <2>3, <2>4, <4>3, <4>4 DEF Sound, Carried
    <3>2. CASE ~HashForcesDestroy(t, use.hash)
      BY <3>2, <2>3, <2>4 DEF Rehashed, Sound
    <3>3. QED BY <3>1, <3>2
  <2>6. QED BY <1>2, <2>5 DEF Touched
<1>3. QED BY <1>1, <1>2

LEMMA WidenedSound ==
  ASSUME NEW n, NEW e, NEW use \in Use, Sound(n, e, shown)
  PROVE  Sound(n, Widened(e, use), shown) /\ Widened(e, use).idle = e.idle
<1>1. Widened(e, use) \in Entry
  BY DEF Sound, Widened, Entry, Use
<1>2. Sane(Widened(e, use)) /\ Carried(n, Widened(e, use), shown) /\ Widened(e, use).idle = e.idle
  BY DEF Sound, Widened, Entry, Use, Sane, Carried, Slot
<1>3. QED BY <1>1, <1>2 DEF Sound

(* An entry that is realized has its objects, which may be new ones.       *)
LEMMA RealizedSound ==
  ASSUME NEW n, NEW e, NEW use \in Use, Sound(n, e, shown), e.idle = 0
  PROVE  Sound(n, Realized(e, use), shown) /\ Realized(e, use).idle = 0 /\ Realized(e, use).created
<1>1. CASE ~WouldRecreate(e, use.kind, use.sig, e.usage[use.kind])
  BY <1>1 DEF Realized, WouldRecreate
<1>2. CASE WouldRecreate(e, use.kind, use.sig, e.usage[use.kind])
  <2> DEFINE r == Realized(e, use)
  <2>1. r = [Destroyed(e) EXCEPT !.sig[use.kind] = use.sig,
                                 !.atCreate[use.kind] = e.usage[use.kind],
                                 !.created = TRUE, !.fresh = TRUE]
    BY <1>2 DEF Realized
  <2>2. r \in Entry
    <3> DEFINE d == Destroyed(e)
    <3>1. d \in Entry
      BY BlankType, Zenon DEF Destroyed, Entry, Sound
    <3>2. /\ use.kind \in Kinds /\ use.sig \in Sigs
          /\ e.usage[use.kind] \in SUBSET Bits
      BY DEF Sound, Entry, Use
    <3>3. /\ [d.sig EXCEPT ![use.kind] = use.sig] \in [Kinds -> Sigs \cup {NoSig}]
          /\ [d.atCreate EXCEPT ![use.kind] = e.usage[use.kind]] \in [Kinds -> SUBSET Bits]
      BY <3>1, <3>2 DEF Entry
    <3>4. r = [d EXCEPT !.sig = [d.sig EXCEPT ![use.kind] = use.sig],
                        !.atCreate = [d.atCreate EXCEPT ![use.kind] = e.usage[use.kind]],
                        !.created = TRUE, !.fresh = TRUE]
      BY <2>1, <3>1 DEF Entry
    <3> HIDE DEF d, r
    <3>5. QED BY <3>1, <3>3, <3>4 DEF Entry
  <2>3. ~r.baked /\ r.created /\ r.fresh /\ r.idle = 0 /\ r.recent = e.recent
    BY <2>1 DEF Destroyed, Entry, Sound
  <2>4. \A k \in Kinds : r.atCreate[k] \subseteq r.usage[k]
    BY <2>1 DEF Destroyed, Entry, Sound, Sane, Use
  <2>5. QED BY <2>2, <2>3, <2>4 DEF Sound, Sane, Carried
<1>3. QED BY <1>1, <1>2

(* What the passes leave behind is in the layer they may write.            *)
LEMMA WrittenSound ==
  ASSUME NEW n, NEW e \in Entry, Carried(n, e, shown), e.created, e.idle = 0,
         \A k \in Kinds : e.atCreate[k] \subseteq e.usage[k],
         NEW c \in Content,
         \/ c.bake = e.initHash
         \/ c.bake = e.content[Slot(e, 0)].bake /\ Sane(e)
  PROVE  Sound(n, WithContent(e, c), shown)
<1> DEFINE r == WithContent(e, c)
<1>1. e.layers \in 1..2 /\ e.content \in [0..1 -> Content]
  BY DEF Entry
<1>2. /\ Slot(e, 0) \in 0..(e.layers - 1) /\ Slot(e, 0) \in 0..1 /\ Slot(e, 1) \in 0..1
      /\ e.layers = 2 => Slot(e, 1) # Slot(e, 0)
  BY <1>1, SlotType
<1>3. r = [e EXCEPT !.content = [e.content EXCEPT ![Slot(e, 0)] = c]]
  BY DEF WithContent
<1>4. [e.content EXCEPT ![Slot(e, 0)] = c] \in [0..1 -> Content]
  BY <1>1, <1>2
<1> HIDE DEF r
<1>5. r \in Entry /\ r.content = [e.content EXCEPT ![Slot(e, 0)] = c]
  BY <1>1, <1>3, <1>4 DEF Entry
<1>6. /\ r.created /\ r.idle = 0 /\ r.layers = e.layers /\ r.turn = e.turn /\ r.fresh = e.fresh
      /\ r.baked = e.baked /\ r.initHash = e.initHash /\ r.recent = e.recent
      /\ r.atCreate = e.atCreate /\ r.usage = e.usage
  BY <1>1, <1>3 DEF Entry
<1>7. e.baked => \E layer \in 0..(e.layers - 1) : r.content[layer].bake = e.initHash
  <2>1. CASE c.bake = e.initHash
    BY <1>1, <1>2, <1>5, <2>1
  <2>2. CASE c.bake = e.content[Slot(e, 0)].bake /\ Sane(e) /\ e.baked
    <3>1. PICK layer \in 0..(e.layers - 1) : e.content[layer].bake = e.initHash
      BY <1>1, <2>2 DEF Sane
    <3>2. layer \in 0..1
      BY <1>1, <3>1
    <3>3. CASE layer = Slot(e, 0)
      BY <1>1, <1>2, <1>5, <2>2, <3>1, <3>3
    <3>4. CASE layer # Slot(e, 0)
      BY <1>1, <1>2, <1>5, <3>1, <3>2, <3>4
    <3>5. QED BY <3>3, <3>4
  <2>3. QED BY <2>1, <2>2
<1>8. Sane(r)
  BY <1>1, <1>6, <1>7 DEF Sane
<1>9. Carried(n, r, shown)
  <2>1. Slot(r, 0) = Slot(e, 0) /\ Slot(r, 1) = Slot(e, 1)
    BY <1>6 DEF Slot
  <2>2. e.layers = 2 => r.content[Slot(r, 1)] = e.content[Slot(e, 1)]
    BY <1>1, <1>2, <1>5, <2>1
  <2>3. QED BY <1>1, <1>6, <2>2 DEF Carried
<1>10. QED BY <1>5, <1>8, <1>9 DEF Sound, r

LEMMA EncodedSound ==
  ASSUME NEW n, NEW e, Sound(n, e, shown), NEW bakes, NEW written,
         n \in DOMAIN bakes => bakes[n] \in Hashes,
         n \in DOMAIN bakes \cup written => e.created /\ e.idle = 0
  PROVE  Sound(n, Encoded(e, n, bakes, written), shown)
<1>1. e \in Entry /\ Sane(e) /\ Carried(n, e, shown) /\ Slot(e, 0) \in 0..1
  BY SlotType DEF Sound, Entry
<1>2. CASE n \in DOMAIN bakes
  <2> DEFINE s == Stamped(e, bakes[n])
             c == [bake |-> bakes[n], age |-> 0]
  <2>1. c \in Content
    BY <1>2 DEF Content, Never
  <2>2. s \in Entry
    BY <1>1, <1>2 DEF Stamped, Entry
  <2>3. /\ s.created = e.created /\ s.idle = e.idle /\ s.layers = e.layers /\ s.turn = e.turn
        /\ s.fresh = e.fresh /\ s.recent = e.recent /\ s.content = e.content
        /\ s.atCreate = e.atCreate /\ s.usage = e.usage
        /\ s.baked /\ s.initHash = bakes[n]
    BY <1>1 DEF Stamped, Entry
  <2> HIDE DEF s
  <2>4. Slot(s, 0) = Slot(e, 0) /\ Slot(s, 1) = Slot(e, 1)
    BY <2>3 DEF Slot
  <2>5. Carried(n, s, shown) /\ \A k \in Kinds : s.atCreate[k] \subseteq s.usage[k]
    BY <1>1, <2>3, <2>4 DEF Carried, Sane
  <2>6. Sound(n, WithContent(s, c), shown)
    BY <1>2, <2>1, <2>2, <2>3, <2>5, WrittenSound
  <2>7. Encoded(e, n, bakes, written) = WithContent(s, c)
    BY <1>2 DEF Encoded, s
  <2>8. QED BY <2>6, <2>7
<1>3. CASE n \notin DOMAIN bakes /\ n \in written
  <2> DEFINE c == [e.content[Slot(e, 0)] EXCEPT !.age = 0]
  <2>1. e.content[Slot(e, 0)] \in Content
    BY <1>1 DEF Entry
  <2>2. c \in Content /\ c.bake = e.content[Slot(e, 0)].bake
    BY <2>1 DEF Content, Never
  <2>3. \A k \in Kinds : e.atCreate[k] \subseteq e.usage[k]
    BY <1>1 DEF Sane
  <2>4. Sound(n, WithContent(e, c), shown)
    BY <1>1, <1>3, <2>2, <2>3, WrittenSound
  <2>5. QED BY <1>3, <2>4 DEF Encoded
<1>4. CASE n \notin DOMAIN bakes \cup written
  BY <1>4 DEF Encoded
<1>5. QED BY <1>2, <1>3, <1>4

-----------------------------------------------------------------------------
(* One frame more.                                                         *)
LEMMA ExecuteSound ==
  ASSUME PoolInv, NEW N \in SUBSET Names, NEW uses \in [N -> Use],
         NEW reached, NEW written, NEW bakes, NEW B, bakes \in [B -> Hashes],
         PoolExecute(uses, reached, bakes, written)
  PROVE  PoolInv'
<1> DEFINE T == TouchedAll(uses)
           R == RealizedAll(uses, reached)
<1>1. /\ DOMAIN uses = N /\ \A n \in N : uses[n] \in Use
      /\ DOMAIN bakes = B /\ \A n \in B : bakes[n] \in Hashes
  OBVIOUS
<1>a. \A n \in DOMAIN pool \cup N :
        T[n] = IF n \notin N THEN pool[n]
               ELSE Widened(IF n \in DOMAIN pool THEN Touched(pool[n], uses[n])
                            ELSE NewEntry(uses[n]), uses[n])
  BY <1>1 DEF TouchedAll
<1>b. \A n \in DOMAIN pool \cup N :
        R[n] = IF n \in reached THEN Realized(T[n], uses[n]) ELSE T[n]
  BY <1>1 DEF RealizedAll
<1>c. /\ pool' = [n \in DOMAIN pool \cup N |-> Encoded(R[n], n, bakes, written)]
      /\ shown' = shown
      /\ reached \subseteq N /\ DOMAIN bakes \cup written \subseteq reached
  BY <1>1 DEF PoolExecute
<1> HIDE DEF T, R
<1>2. ASSUME NEW n \in DOMAIN pool \cup N
      PROVE  Sound(n, T[n], shown) /\ (n \in N => T[n].idle = 0)
  <2>1. CASE n \notin N
    BY <1>a, <2>1 DEF PoolInv
  <2>2. CASE n \in N /\ n \in DOMAIN pool
    <3>1. Sound(n, pool[n], shown)
      BY <2>2 DEF PoolInv
    <3>2. Sound(n, Touched(pool[n], uses[n]), shown) /\ Touched(pool[n], uses[n]).idle = 0
      BY <1>1, <2>2, <3>1, TouchedSound
    <3>3. T[n] = Widened(Touched(pool[n], uses[n]), uses[n])
      BY <1>a, <2>2
    <3> DEFINE t == Touched(pool[n], uses[n])
    <3>4. uses[n] \in Use /\ Sound(n, t, shown) /\ t.idle = 0
      BY <1>1, <2>2, <3>2
    <3> HIDE DEF t
    <3>5. Sound(n, Widened(t, uses[n]), shown) /\ Widened(t, uses[n]).idle = 0
      BY <3>4, WidenedSound
    <3>6. QED BY <3>3, <3>5 DEF t
  <2>3. CASE n \in N /\ n \notin DOMAIN pool
    <3>1. Sound(n, NewEntry(uses[n]), shown) /\ NewEntry(uses[n]).idle = 0
      BY <1>1, <2>3, NewSound DEF PoolInv
    <3>2. T[n] = Widened(NewEntry(uses[n]), uses[n])
      BY <1>a, <2>3
    <3> DEFINE t == NewEntry(uses[n])
    <3>3. uses[n] \in Use /\ Sound(n, t, shown) /\ t.idle = 0
      BY <1>1, <2>3, <3>1
    <3> HIDE DEF t
    <3>4. Sound(n, Widened(t, uses[n]), shown) /\ Widened(t, uses[n]).idle = 0
      BY <3>3, WidenedSound
    <3>5. QED BY <3>2, <3>4 DEF t
  <2>4. QED BY <2>1, <2>2, <2>3
<1>3. ASSUME NEW n \in DOMAIN pool \cup N
      PROVE  /\ Sound(n, R[n], shown)
             /\ n \in reached => R[n].created /\ R[n].idle = 0
  <2>2. CASE n \in reached
    <3>1. R[n] = Realized(T[n], uses[n]) /\ n \in N
      BY <1>b, <1>c, <2>2
    <3>2. QED BY <1>1, <1>2, <3>1, RealizedSound
  <2>3. CASE n \notin reached
    BY <1>b, <1>2, <2>3
  <2>4. QED BY <2>2, <2>3
<1>6. \A n \in DOMAIN pool \cup N : Sound(n, Encoded(R[n], n, bakes, written), shown)
  BY <1>1, <1>3, <1>c, EncodedSound
<1>7. \A n \in DOMAIN pool' : Sound(n, pool'[n], shown')
  BY <1>c, <1>6
<1>8. DOMAIN pool' = DOMAIN pool \cup N
  BY <1>c
<1>9. QED BY <1>c, <1>7, <1>8 DEF PoolInv

LEMMA EndFrameSound ==
  ASSUME PoolInv, PoolEndFrame
  PROVE  PoolInv'
<1> DEFINE kept == {n \in DOMAIN pool : pool[n].idle < Retain}
<1>1. /\ pool' = [n \in kept |-> OneFrameOlder(pool[n])]
      /\ shown' = [n \in {m \in kept : pool[m].idle = 0} |->
                     Aged(pool[n].content[Slot(pool[n], 0)])]
  BY DEF PoolEndFrame
<1>2. ASSUME NEW n \in kept
      PROVE  Sound(n, pool'[n], shown') /\ (pool[n].idle = 0 => shown'[n] \in Content)
  <2> DEFINE e == pool[n]
             r == OneFrameOlder(e)
             aged == [s \in 0..1 |-> Aged(e.content[s])]
  <2>1. /\ e \in Entry /\ Sane(e) /\ e.idle < Retain /\ e.layers \in 1..2
        /\ e.idle \in Nat /\ e.content \in [0..1 -> Content]
        /\ Slot(e, 0) \in 0..1
    <3>1. e \in Entry /\ Sane(e) /\ e.idle < Retain
      BY DEF PoolInv, Sound
    <3>2. e.layers \in 1..2 /\ e.idle \in Nat /\ e.content \in [0..1 -> Content]
      BY <3>1, RetainType DEF Entry
    <3>3. Slot(e, 0) \in 0..(e.layers - 1)
      BY <3>1, SlotType
    <3>4. QED BY <3>1, <3>2, <3>3
  <2>2. aged \in [0..1 -> Content] /\ \A s \in 0..1 : aged[s].bake = e.content[s].bake
    BY <2>1, AgedType
  <2>3. e.idle + 1 \in 0..Retain
    BY <2>1, RetainType
  <2>4. r = [e EXCEPT !.idle = e.idle + 1, !.recent = FALSE, !.fresh = FALSE, !.content = aged]
    BY DEF OneFrameOlder
  <2> HIDE DEF aged, r
  <2>5. r \in Entry
    BY <2>1, <2>2, <2>3, <2>4 DEF Entry
  <2>6. /\ r.idle = e.idle + 1 /\ ~r.recent /\ ~r.fresh /\ r.content = aged
        /\ r.created = e.created /\ r.baked = e.baked /\ r.initHash = e.initHash
        /\ r.layers = e.layers /\ r.turn = e.turn /\ r.atCreate = e.atCreate /\ r.usage = e.usage
    BY <2>1, <2>4 DEF Entry
  <2>7. Sane(r)
    <3>1. \A layer \in 0..(e.layers - 1) : layer \in 0..1
      BY <2>1
    <3>2. ~e.created => aged = [s \in 0..1 |-> Blank]
      BY <2>1 DEF Sane, aged, Aged, Blank, Never
    <3>3. QED BY <2>1, <2>2, <2>6, <3>1, <3>2 DEF Sane
  <2>8. pool'[n] = r
    BY <1>1 DEF r
  <2>9. n \in DOMAIN shown' <=> e.idle = 0
    BY <1>1
  <2>10. e.idle = 0 => shown'[n] = aged[Slot(e, 0)]
    BY <1>1, <2>1 DEF aged
  <2>11. Slot(r, 0) = Slot(e, 0)
    BY <2>6 DEF Slot
  <2>12. Carried(n, r, shown')
    BY <2>1, <2>6, <2>9, <2>10, <2>11 DEF Carried
  <2>13. QED BY <2>1, <2>2, <2>5, <2>7, <2>8, <2>10, <2>12 DEF Sound
<1>3. QED BY <1>1, <1>2 DEF PoolInv

-----------------------------------------------------------------------------
(* The invariant, in every state of the pool.                              *)
LEMMA PoolInvariant == PoolSpec => []PoolInv
<1>1. PoolInit => PoolInv
  BY DEF PoolInit, PoolInv
<1>2. PoolInv /\ [PoolNext]_pool_vars => PoolInv'
  <2>1. SUFFICES ASSUME PoolInv, [PoolNext]_pool_vars PROVE PoolInv'
    OBVIOUS
  <2>2. CASE PoolEndFrame
    BY <2>1, <2>2, EndFrameSound
  <2>3. CASE UNCHANGED pool_vars
    BY <2>1, <2>3 DEF pool_vars, PoolInv, Sound, Sane, Carried
  <2>4. CASE \E N \in SUBSET Names : \E uses \in [N -> Use], reached, written \in SUBSET N :
               \E B \in SUBSET N : \E bakes \in [B -> Hashes] :
                 PoolExecute(uses, reached, bakes, written)
    BY <2>1, <2>4, ExecuteSound
  <2>5. QED BY <2>1, <2>2, <2>3, <2>4 DEF PoolNext
<1>3. QED BY <1>1, <1>2, PTL DEF PoolSpec

(* What compile() and realize_graph read off an entry is true.             *)
THEOREM EntriesTrustworthy == PoolSpec => [](PoolTypeOK /\ PoolSane)
<1>1. PoolInv => PoolTypeOK /\ PoolSane
  BY DEF PoolInv, Sound, Sane, PoolTypeOK, PoolSane, Shrank
<1>2. QED BY <1>1, PoolInvariant, PTL

(* A history that is declared valid carries what the last frame left.      *)
THEOREM HistoriesCarry == PoolSpec => []HistoryCarries
<1>1. PoolInv => HistoryCarries
  BY DEF PoolInv, Sound, Sane, Carried, HistoryCarries, HistoryValid
<1>2. QED BY <1>1, PoolInvariant, PTL

-----------------------------------------------------------------------------
(* What is inductive: the property, with the types it needs.               *)
ProfilerInv ==
  /\ pending \subseteq Slots
  /\ pendingSlot \in Slots \cup {NoSlot}
  /\ unread \in [Slots -> Nat]
  /\ FillsAccountedFor

LEMMA NoSlotType == NoSlot \notin Slots
BY RingType DEF NoSlot, Slots

LEMMA ProfilerStep ==
  ASSUME ProfilerInv, [ProfilerNext]_profiler_vars
  PROVE  ProfilerInv'
<1> USE NoSlotType
<1>1. CASE Stage
  <2>1. CASE CanProfile
    <3>1. PICK slot \in Slots : /\ FirstFree(slot)
                                /\ pendingSlot' = slot
                                /\ unread' = [unread EXCEPT ![slot] = @ + 1]
                                /\ UNCHANGED pending
      BY <1>1, <2>1 DEF Stage
    <3>2. slot \notin pending /\ slot # pendingSlot
      BY <2>1, <3>1 DEF FirstFree, FreeSlots, CanProfile
    <3>3. unread[slot] = 0
      BY <3>1, <3>2 DEF ProfilerInv, FillsAccountedFor
    <3>4. QED BY <2>1, <3>1, <3>2, <3>3 DEF ProfilerInv, FillsAccountedFor, CanProfile
  <2>2. CASE ~CanProfile
    BY <1>1, <2>2 DEF Stage, profiler_vars, ProfilerInv, FillsAccountedFor
  <2>3. QED BY <2>1, <2>2
<1>2. CASE CollectGpuTimings
  BY <1>2 DEF CollectGpuTimings, ProfilerInv, FillsAccountedFor
<1>3. ASSUME NEW slot \in Slots, MapCallback(slot)
      PROVE  ProfilerInv'
  BY <1>3 DEF MapCallback, ProfilerInv, FillsAccountedFor
<1>4. CASE UNCHANGED profiler_vars
  BY <1>4 DEF profiler_vars, ProfilerInv, FillsAccountedFor
<1>5. QED BY <1>1, <1>2, <1>3, <1>4 DEF ProfilerNext

(* Each staged fill of a buffer is read exactly once before the next.      *)
THEOREM NoFillIsLost == ProfilerSpec => []FillsAccountedFor
<1>1. ProfilerInit => ProfilerInv
  BY NoSlotType DEF ProfilerInit, ProfilerInv, FillsAccountedFor
<1>2. ProfilerInv /\ [ProfilerNext]_profiler_vars => ProfilerInv'
  BY ProfilerStep
<1>3. ProfilerInv => FillsAccountedFor
  BY DEF ProfilerInv
<1>4. QED BY <1>1, <1>2, <1>3, PTL DEF ProfilerSpec

-----------------------------------------------------------------------------
(* What one pass makes of some nodes, access by access.                    *)
RunsTo(f, was, p, nodes) ==
  LET acc == Rec.passes[p].acc IN
  /\ f \in [0..Len(acc) -> Seq(Nat)]
  /\ f[0] = was
  /\ \A i \in 1..Len(acc) :
       f[i] = IF acc[i].n \in nodes /\ IsWrite(acc[i])
              THEN Overwritten(f[i - 1], p, acc[i]) ELSE f[i - 1]
  /\ RunPass(was, p, nodes) = f[Len(acc)]

LEMMA RunSteps ==
  ASSUME Rec \in Recordings, NEW p \in DOMAIN Rec.passes, NEW was \in Seq(Nat), NEW nodes
  PROVE  \E f : RunsTo(f, was, p, nodes)
<1> DEFINE acc == Rec.passes[p].acc
           L == Len(acc)
           V == Seq(Nat)
           none == was
           step == [i \in 1..L |-> [v \in V |->
                      IF acc[i].n \in nodes /\ IsWrite(acc[i]) THEN Overwritten(v, p, acc[i]) ELSE v]]
           FitsRun(f) ==
             f = [i \in 0..L |->
                    IF i = 0 THEN none
                    ELSE IF acc[i].n \in nodes /\ IsWrite(acc[i]) THEN Overwritten(f[i - 1], p, acc[i])
                    ELSE f[i - 1]]
<1>1. L \in Nat /\ p \in Nat
  BY RecordingShape
<1>2. \A i \in 1..L : \A v \in V :
        (IF acc[i].n \in nodes /\ IsWrite(acc[i]) THEN Overwritten(v, p, acc[i]) ELSE v) \in V
  <2>1. \A v \in V : Append(v, p) \in V /\ <<p>> \in V
    BY <1>1
  <2>2. QED BY <2>1 DEF Overwritten
<1>3. none \in V
  OBVIOUS
<1> DEFINE h == CHOOSE g : FitsRun(g)
<1>10. RunPass(was, p, nodes) = h[L]
  BY DEF RunPass
<1> HIDE DEF V, L, none, acc
<1>4. PICK f : Iterates(f, L, V, none, step)
  <2>1. \A i \in 1..L : \A v \in V : step[i][v] = (IF acc[i].n \in nodes /\ IsWrite(acc[i]) THEN Overwritten(v, p, acc[i]) ELSE v) /\ step[i][v] \in V
    BY <1>2
  <2> HIDE DEF step
  <2>2. QED BY <1>1, <1>3, <2>1, Iteration
<1>5. \A i \in 1..L : i - 1 \in 0..L /\ f[i] = (IF acc[i].n \in nodes /\ IsWrite(acc[i]) THEN Overwritten(f[i - 1], p, acc[i]) ELSE f[i - 1])
  <2>1. \A i \in 1..L : i - 1 \in 0..L /\ f[i - 1] \in V
    BY <1>1, <1>4 DEF Iterates
  <2>2. QED BY <1>2, <1>4, <2>1 DEF Iterates
<1>6. FitsRun(f)
  <2> HIDE DEF h, step
  <2>1. \A i \in 0..L : f[i] = IF i = 0 THEN none ELSE (IF acc[i].n \in nodes /\ IsWrite(acc[i]) THEN Overwritten(f[i - 1], p, acc[i]) ELSE f[i - 1])
    <3>1. f[0] = none
      BY <1>4 DEF Iterates
    <3>2. \A i \in 0..L : i = 0 \/ i \in 1..L
      BY <1>1
    <3>3. \A i \in 1..L : i # 0
      BY <1>1
    <3>4. QED BY <1>5, <3>1, <3>2, <3>3
  <2>2. f = [i \in 0..L |-> f[i]]
    BY <1>4 DEF Iterates
  <2>3. QED BY <2>1, <2>2
<1>7. \A g : FitsRun(g) => g[0] = none /\ \A i \in 1..L : g[i] = (IF acc[i].n \in nodes /\ IsWrite(acc[i]) THEN Overwritten(g[i - 1], p, acc[i]) ELSE g[i - 1])
  <2>1. ASSUME NEW g, FitsRun(g), NEW i \in 0..L
        PROVE  g[i] = IF i = 0 THEN none ELSE (IF acc[i].n \in nodes /\ IsWrite(acc[i]) THEN Overwritten(g[i - 1], p, acc[i]) ELSE g[i - 1])
    BY <2>1
  <2>2. QED BY <1>1, <2>1
<1>8. \A g : FitsRun(g) => DOMAIN g = 0..L /\ g = [i \in 0..L |-> g[i]]
  OBVIOUS
<1>9. FitsRun(h)
  BY <1>6
<1> HIDE DEF h, FitsRun
<1>11. \A i \in 0..L : h[i] \in V
  <2> DEFINE B == {i \in 0..L : h[i] \notin V}
  <2>1. SUFFICES ASSUME B # {} PROVE FALSE
    OBVIOUS
  <2>2. B \subseteq Nat
    OBVIOUS
  <2>3. PICK m \in B : \A i \in B : m <= i
    <3> HIDE DEF B
    <3>1. QED BY <2>1, <2>2, Least
  <2>4. m \in 1..L
    <3>1. m \in 0..L /\ h[m] \notin V
      BY <2>3
    <3>2. h[0] \in V
      BY <1>3, <1>7, <1>9
    <3>3. QED BY <1>1, <3>1, <3>2
  <2>5. m - 1 \in 0..L /\ m - 1 \notin B
    BY <1>1, <2>3, <2>4
  <2>6. h[m - 1] \in V
    BY <2>5
  <2>7. h[m] = (IF acc[m].n \in nodes /\ IsWrite(acc[m]) THEN Overwritten(h[m - 1], p, acc[m]) ELSE h[m - 1])
    BY <1>7, <1>9, <2>4
  <2>8. h[m] \in V
    BY <1>2, <2>4, <2>6, <2>7
  <2>9. QED BY <2>3, <2>8
<1>12. h \in [0..L -> V]
  BY <1>8, <1>9, <1>11
<1>13. QED BY <1>7, <1>9, <1>10, <1>12 DEF RunsTo, V, L, none, acc

LEMMA RunType ==
  ASSUME Rec \in Recordings, NEW p \in DOMAIN Rec.passes, NEW was \in Seq(Nat), NEW nodes
  PROVE  RunPass(was, p, nodes) \in Seq(Nat)
<1>1. PICK f : RunsTo(f, was, p, nodes)
  BY RunSteps
<1>2. Len(Rec.passes[p].acc) \in Nat
  BY RecordingShape
<1>3. QED BY <1>1, <1>2 DEF RunsTo

(* What the passes up to the k-th make of some nodes, in order.            *)
Memory(f, k, nodes) ==
  /\ f \in [0..(k - 1) -> Seq(Nat)]
  /\ f[0] = <<>>
  /\ \A j \in 1..(k - 1) : f[j] = RunPass(f[j - 1], graph.order[j], nodes)

LEMMA MemoryExists ==
  ASSUME Rec \in Recordings, graph.order \in Seq(DOMAIN Rec.passes),
         NEW k \in DOMAIN graph.order, NEW nodes
  PROVE  \E f : Memory(f, k, nodes)
<1> DEFINE L == k - 1
           V == Seq(Nat)
           none == <<>>
           step == [i \in 1..L |-> [v \in V |-> RunPass(v, graph.order[i], nodes)]]
<1>1. L \in Nat /\ \A i \in 1..L : graph.order[i] \in DOMAIN Rec.passes
  BY SeqFacts
<1>2. \A i \in 1..L : \A v \in V : RunPass(v, graph.order[i], nodes) \in V
  BY <1>1, RunType
<1>3. none \in V
  OBVIOUS
<1> HIDE DEF V, L, none
<1>4. PICK f : Iterates(f, L, V, none, step)
  <2>1. \A i \in 1..L : \A v \in V : step[i][v] = RunPass(v, graph.order[i], nodes) /\ step[i][v] \in V
    BY <1>2
  <2> HIDE DEF step
  <2>2. QED BY <1>1, <1>3, <2>1, Iteration
<1>5. \A i \in 1..L : f[i] = RunPass(f[i - 1], graph.order[i], nodes)
  <2>1. \A i \in 1..L : i - 1 \in 0..L /\ f[i - 1] \in V
    BY <1>1, <1>4 DEF Iterates
  <2>2. QED BY <1>2, <1>4, <2>1 DEF Iterates
<1>6. QED BY <1>4, <1>5 DEF Memory, Iterates, V, L, none

LEMMA FoundSteps ==
  ASSUME Rec \in Recordings, graph.order \in Seq(DOMAIN Rec.passes),
         NEW k \in DOMAIN graph.order, NEW bound, NEW n
  PROVE  \E f : /\ Memory(f, k, {m \in DOMAIN bound : bound[m] = bound[n]})
                /\ FoundIn(bound, n, k) = f[k - 1]
<1> DEFINE nodes == {m \in DOMAIN bound : bound[m] = bound[n]}
           L == k - 1
           V == Seq(Nat)
           none == <<>>
           step == [i \in 1..L |-> [v \in V |-> RunPass(v, graph.order[i], nodes)]]
           FitsFound(f) ==
             f = [i \in 0..L |-> IF i = 0 THEN none ELSE RunPass(f[i - 1], graph.order[i], nodes)]
<1>1. L \in Nat /\ \A i \in 1..L : graph.order[i] \in DOMAIN Rec.passes
  BY SeqFacts
<1>2. \A i \in 1..L : \A v \in V : RunPass(v, graph.order[i], nodes) \in V
  BY <1>1, RunType
<1>3. none \in V
  OBVIOUS
<1> DEFINE h == CHOOSE g : FitsFound(g)
<1>10. FoundIn(bound, n, k) = h[L]
  BY DEF FoundIn
<1> HIDE DEF V, L, none, nodes
<1>4. PICK f : Iterates(f, L, V, none, step)
  <2>1. \A i \in 1..L : \A v \in V : step[i][v] = RunPass(v, graph.order[i], nodes) /\ step[i][v] \in V
    BY <1>2
  <2> HIDE DEF step
  <2>2. QED BY <1>1, <1>3, <2>1, Iteration
<1>5. \A i \in 1..L : i - 1 \in 0..L /\ f[i] = RunPass(f[i - 1], graph.order[i], nodes)
  <2>1. \A i \in 1..L : i - 1 \in 0..L /\ f[i - 1] \in V
    BY <1>1, <1>4 DEF Iterates
  <2>2. QED BY <1>2, <1>4, <2>1 DEF Iterates
<1>6. FitsFound(f)
  <2> HIDE DEF h, step
  <2>1. \A i \in 0..L : f[i] = IF i = 0 THEN none ELSE RunPass(f[i - 1], graph.order[i], nodes)
    <3>1. f[0] = none
      BY <1>4 DEF Iterates
    <3>2. \A i \in 0..L : i = 0 \/ i \in 1..L
      BY <1>1
    <3>3. \A i \in 1..L : i # 0
      BY <1>1
    <3>4. QED BY <1>5, <3>1, <3>2, <3>3
  <2>2. f = [i \in 0..L |-> f[i]]
    BY <1>4 DEF Iterates
  <2>3. QED BY <2>1, <2>2
<1>7. \A g : FitsFound(g) => g[0] = none /\ \A i \in 1..L : g[i] = RunPass(g[i - 1], graph.order[i], nodes)
  <2>1. ASSUME NEW g, FitsFound(g), NEW i \in 0..L
        PROVE  g[i] = IF i = 0 THEN none ELSE RunPass(g[i - 1], graph.order[i], nodes)
    BY <2>1
  <2>2. QED BY <1>1, <2>1
<1>8. \A g : FitsFound(g) => DOMAIN g = 0..L /\ g = [i \in 0..L |-> g[i]]
  OBVIOUS
<1>9. FitsFound(h)
  BY <1>6
<1> HIDE DEF h, FitsFound
<1>11. \A i \in 0..L : h[i] \in V
  <2> DEFINE B == {i \in 0..L : h[i] \notin V}
  <2>1. SUFFICES ASSUME B # {} PROVE FALSE
    OBVIOUS
  <2>2. B \subseteq Nat
    OBVIOUS
  <2>3. PICK m \in B : \A i \in B : m <= i
    <3> HIDE DEF B
    <3>1. QED BY <2>1, <2>2, Least
  <2>4. m \in 1..L
    <3>1. m \in 0..L /\ h[m] \notin V
      BY <2>3
    <3>2. h[0] \in V
      BY <1>3, <1>7, <1>9
    <3>3. QED BY <1>1, <3>1, <3>2
  <2>5. m - 1 \in 0..L /\ m - 1 \notin B
    BY <1>1, <2>3, <2>4
  <2>6. h[m - 1] \in V
    BY <2>5
  <2>7. h[m] = RunPass(h[m - 1], graph.order[m], nodes)
    BY <1>7, <1>9, <2>4
  <2>8. h[m] \in V
    BY <1>2, <2>4, <2>6, <2>7
  <2>9. QED BY <2>3, <2>8
<1>12. h \in [0..L -> V]
  BY <1>8, <1>9, <1>11
<1>13. Memory(h, k, nodes)
  BY <1>7, <1>9, <1>12 DEF Memory, V, L, none
<1>14. QED BY <1>10, <1>13 DEF L, nodes

(* What the passes declared before p make of n, but for those skipped.     *)
Past(f, n, p) ==
  /\ f \in [0..(p - 1) -> Seq(Nat)]
  /\ f[0] = <<>>
  /\ \A q \in 1..(p - 1) :
       f[q] = IF q \in graph.skip THEN f[q - 1] ELSE RunPass(f[q - 1], q, {n})

LEMMA WrittenSteps ==
  ASSUME Rec \in Recordings, NEW p \in DOMAIN Rec.passes, NEW n
  PROVE  \E f : Past(f, n, p) /\ Written(n, p) = f[p - 1]
<1> DEFINE L == p - 1
           V == Seq(Nat)
           none == <<>>
           step == [i \in 1..L |-> [v \in V |-> IF i \in graph.skip THEN v ELSE RunPass(v, i, {n})]]
           FitsPast(f) ==
             f = [i \in 0..L |-> IF i = 0 THEN none
                                 ELSE IF i \in graph.skip THEN f[i - 1] ELSE RunPass(f[i - 1], i, {n})]
<1>1. L \in Nat /\ \A i \in 1..L : i \in DOMAIN Rec.passes
  BY RecordingShape
<1>2. \A i \in 1..L : \A v \in V : (IF i \in graph.skip THEN v ELSE RunPass(v, i, {n})) \in V
  BY <1>1, RunType
<1>3. none \in V
  OBVIOUS
<1> DEFINE h == CHOOSE g : FitsPast(g)
<1>10. Written(n, p) = h[L]
  BY DEF Written
<1> HIDE DEF V, L, none
<1>4. PICK f : Iterates(f, L, V, none, step)
  <2>1. \A i \in 1..L : \A v \in V : step[i][v] = (IF i \in graph.skip THEN v ELSE RunPass(v, i, {n})) /\ step[i][v] \in V
    BY <1>2
  <2> HIDE DEF step
  <2>2. QED BY <1>1, <1>3, <2>1, Iteration
<1>5. \A i \in 1..L : i - 1 \in 0..L /\ f[i] = IF i \in graph.skip THEN f[i - 1] ELSE RunPass(f[i - 1], i, {n})
  <2>1. \A i \in 1..L : i - 1 \in 0..L /\ f[i - 1] \in V
    BY <1>1, <1>4 DEF Iterates
  <2>2. QED BY <1>2, <1>4, <2>1 DEF Iterates
<1>6. FitsPast(f)
  <2> HIDE DEF h, step
  <2>1. \A i \in 0..L : f[i] = IF i = 0 THEN none ELSE IF i \in graph.skip THEN f[i - 1] ELSE RunPass(f[i - 1], i, {n})
    <3>1. f[0] = none
      BY <1>4 DEF Iterates
    <3>2. \A i \in 0..L : i = 0 \/ i \in 1..L
      BY <1>1
    <3>3. \A i \in 1..L : i # 0
      BY <1>1
    <3>4. QED BY <1>5, <3>1, <3>2, <3>3
  <2>2. f = [i \in 0..L |-> f[i]]
    BY <1>4 DEF Iterates
  <2>3. QED BY <2>1, <2>2
<1>7. \A g : FitsPast(g) => g[0] = none /\ \A i \in 1..L : g[i] = IF i \in graph.skip THEN g[i - 1] ELSE RunPass(g[i - 1], i, {n})
  <2>1. ASSUME NEW g, FitsPast(g), NEW i \in 0..L
        PROVE  g[i] = IF i = 0 THEN none ELSE IF i \in graph.skip THEN g[i - 1] ELSE RunPass(g[i - 1], i, {n})
    BY <2>1
  <2>2. 0 \in 0..L /\ \A i \in 1..L : i \in 0..L /\ i # 0
    BY <1>1
  <2>3. QED BY <2>1, <2>2
<1>8. \A g : FitsPast(g) => DOMAIN g = 0..L /\ g = [i \in 0..L |-> g[i]]
  OBVIOUS
<1>9. FitsPast(h)
  BY <1>6
<1> HIDE DEF h, FitsPast
<1>11. \A i \in 0..L : h[i] \in V
  <2> DEFINE B == {i \in 0..L : h[i] \notin V}
  <2>1. SUFFICES ASSUME B # {} PROVE FALSE
    OBVIOUS
  <2>2. B \subseteq Nat
    OBVIOUS
  <2>3. PICK m \in B : \A i \in B : m <= i
    <3> HIDE DEF B
    <3>1. QED BY <2>1, <2>2, Least
  <2>4. m \in 1..L
    <3>1. m \in 0..L /\ h[m] \notin V
      BY <2>3
    <3>2. h[0] \in V
      BY <1>3, <1>7, <1>9
    <3>3. QED BY <1>1, <3>1, <3>2
  <2>5. m - 1 \in 0..L /\ m - 1 \notin B
    BY <1>1, <2>3, <2>4
  <2>6. h[m - 1] \in V
    BY <2>5
  <2>7. h[m] = IF m \in graph.skip THEN h[m - 1] ELSE RunPass(h[m - 1], m, {n})
    BY <1>7, <1>9, <2>4
  <2>8. h[m] \in V
    BY <1>2, <2>4, <2>6, <2>7
  <2>9. QED BY <2>3, <2>8
<1>12. h \in [0..L -> V]
  BY <1>8, <1>9, <1>11
<1>13. Past(h, n, p)
  BY <1>7, <1>9, <1>12 DEF Past, V, L, none
<1>14. QED BY <1>10, <1>13 DEF L

LEMMA RunKeeps ==
  ASSUME Rec \in Recordings, NEW p \in DOMAIN Rec.passes, NEW was \in Seq(Nat), NEW nodes,
         \A n \in nodes : ~Writes(Rec, p, n)
  PROVE  RunPass(was, p, nodes) = was
<1> DEFINE acc == Rec.passes[p].acc
           L == Len(acc)
<1>1. PICK f : RunsTo(f, was, p, nodes)
  BY RunSteps
<1>2. L \in Nat /\ DOMAIN acc = 1..L
  BY RecordingShape, SeqFacts
<1>3. \A i \in 1..L : ~(acc[i].n \in nodes /\ IsWrite(acc[i]))
  <2>1. SUFFICES ASSUME NEW i \in 1..L, acc[i].n \in nodes, IsWrite(acc[i]) PROVE FALSE
    OBVIOUS
  <2>2. acc[i] \in ToSet(acc)
    BY <1>2 DEF ToSet
  <2>3. QED BY <2>1, <2>2, UsesAre
<1>4. \A i \in 1..L : f[i] = f[i - 1]
  BY <1>1, <1>3 DEF RunsTo
<1>5. f[0] = was /\ RunPass(was, p, nodes) = f[L]
  BY <1>1 DEF RunsTo
<1> HIDE DEF L
<1> DEFINE B == {i \in 0..L : f[i] # was}
<1>6. SUFFICES ASSUME B # {} PROVE FALSE
  BY <1>2, <1>5
<1>7. PICK m \in B : \A i \in B : m <= i
  <2>1. B \subseteq Nat
    OBVIOUS
  <2> HIDE DEF B
  <2>2. QED BY <1>6, <2>1, Least
<1>8. m \in 1..L
  BY <1>2, <1>5, <1>7
<1>9. m - 1 \in 0..L /\ m - 1 \notin B
  BY <1>2, <1>7, <1>8
<1>10. QED BY <1>4, <1>7, <1>8, <1>9

(* Pass p leaves nothing of what was in these nodes.                       *)
Erases(p, nodes) ==
  \E i \in DOMAIN Rec.passes[p].acc :
    Rec.passes[p].acc[i].n \in nodes /\ Defines(Rec, Rec.passes[p].acc[i])

(* Pass p uses the same of these nodes and of those.                       *)
UsesSame(p, nodes, those) ==
  \A n : Uses(Rec, p, n) => (n \in nodes <=> n \in those)

(* What a pass makes of an object does not depend on what was there, once  *)
(* it has overwritten it; nor on nodes it does not use.                    *)
LEMMA RunAgrees ==
  ASSUME Rec \in Recordings, NEW p \in DOMAIN Rec.passes,
         NEW was \in Seq(Nat), NEW other \in Seq(Nat), NEW nodes, NEW those,
         UsesSame(p, nodes, those), was = other \/ Erases(p, nodes)
  PROVE  RunPass(was, p, nodes) = RunPass(other, p, those)
<1> DEFINE acc == Rec.passes[p].acc
           L == Len(acc)
<1>1. PICK f : RunsTo(f, was, p, nodes)
  BY RunSteps
<1>2. PICK g : RunsTo(g, other, p, those)
  BY RunSteps
<1>3. L \in Nat /\ DOMAIN acc = 1..L
  BY RecordingShape, SeqFacts
<1>4. \A i \in 1..L : acc[i].n \in nodes <=> acc[i].n \in those
  <2>1. ASSUME NEW i \in 1..L PROVE Uses(Rec, p, acc[i].n)
    <3>1. acc[i] \in ToSet(acc)
      BY <1>3 DEF ToSet
    <3>2. QED BY <3>1, UsesAre
  <2>2. QED BY <2>1 DEF UsesSame
<1>5. \A i \in 1..L :
        /\ f[i] = IF acc[i].n \in nodes /\ IsWrite(acc[i])
                  THEN Overwritten(f[i - 1], p, acc[i]) ELSE f[i - 1]
        /\ g[i] = IF acc[i].n \in nodes /\ IsWrite(acc[i])
                  THEN Overwritten(g[i - 1], p, acc[i]) ELSE g[i - 1]
  BY <1>1, <1>2, <1>4 DEF RunsTo
<1>6. \A i \in 1..L : f[i - 1] = g[i - 1] => f[i] = g[i]
  BY <1>5
<1>7. f[0] = was /\ g[0] = other /\ RunPass(was, p, nodes) = f[L] /\ RunPass(other, p, those) = g[L]
  BY <1>1, <1>2 DEF RunsTo
<1>8. PICK s \in 0..L : f[s] = g[s]
  <2>1. CASE was = other
    BY <1>3, <1>7, <2>1
  <2>2. CASE Erases(p, nodes)
    <3>1. PICK i \in 1..L : acc[i].n \in nodes /\ Defines(Rec, acc[i])
      BY <1>3, <2>2 DEF Erases
    <3>2. IsWrite(acc[i])
      BY <3>1 DEF Defines, IsWrite
    <3>3. f[i] = <<p>> /\ g[i] = <<p>>
      BY <1>5, <3>1, <3>2 DEF Overwritten
    <3>4. QED BY <3>3
  <2>3. QED BY <2>1, <2>2
<1> HIDE DEF L
<1> DEFINE B == {i \in s..L : f[i] # g[i]}
<1>9. SUFFICES ASSUME B # {} PROVE FALSE
  BY <1>3, <1>7, <1>8
<1>10. PICK m \in B : \A i \in B : m <= i
  <2>1. B \subseteq Nat
    BY <1>8
  <2> HIDE DEF B
  <2>2. QED BY <1>9, <2>1, Least
<1>11. m \in 1..L /\ m # s
  BY <1>3, <1>8, <1>10
<1>12. m - 1 \in s..L /\ m - 1 \notin B
  BY <1>3, <1>8, <1>10, <1>11
<1>13. QED BY <1>6, <1>10, <1>11, <1>12

(* A pass that reads n before it writes it.                                *)
LEMMA ReadsFirstReads ==
  ASSUME Rec \in Recordings, NEW p \in DOMAIN Rec.passes, NEW n, ReadsFirst(Rec, p, n)
  PROVE  Uses(Rec, p, n) /\ Reads(Rec, p, n)
<1>1. PICK i : /\ FirstOf(Rec.passes[p].acc, n, i)
               /\ Head(AccessesOf(Rec, p, n)) = Rec.passes[p].acc[i]
  BY FirstAccess DEF ReadsFirst
<1>2. /\ Rec.passes[p].acc[i] \in ToSet(Rec.passes[p].acc)
      /\ Rec.passes[p].acc[i].n = n /\ ~IsWrite(Rec.passes[p].acc[i])
  BY <1>1 DEF FirstOf, ReadsFirst, ToSet
<1>3. QED BY <1>2, UsesAre DEF ReadsFirst

-----------------------------------------------------------------------------
(* Those that wrote n among the first j passes to run, and among the first *)
(* q that were declared.                                                   *)
WritersRun(n, j) == {x \in Nat : \E i \in 1..j : graph.order[i] = x /\ Writes(Rec, x, n)}
WritersDeclared(n, q) == {x \in 1..q : x \notin graph.skip /\ Writes(Rec, x, n)}

(* The same passes write n in the same order, so they make the same of it. *)
LEMMA SameWriters ==
  ASSUME Rec \in Recordings, OrderSound(Rec, graph.skip, graph.order),
         NEW k \in DOMAIN graph.order, NEW p \in DOMAIN Rec.passes, NEW n,
         NEW f, Memory(f, k, {n}), NEW g, Past(g, n, p),
         NEW j \in 0..(k - 1), NEW q \in 0..(p - 1), WritersRun(n, j) = WritersDeclared(n, q)
  PROVE  f[j] = g[q]
<1> DEFINE Differ(s) == \E x \in 0..(k - 1), y \in 0..(p - 1) :
                          /\ s = x + y /\ WritersRun(n, x) = WritersDeclared(n, y) /\ f[x] # g[y]
           B == {s \in Nat : Differ(s)}
<1>1. /\ k \in Nat /\ p \in Nat /\ DOMAIN graph.order \subseteq Nat /\ DOMAIN Rec.passes \subseteq Nat
      /\ \A i \in 1..(k - 1) : i \in DOMAIN graph.order /\ graph.order[i] \in DOMAIN Rec.passes
      /\ \A x \in 1..(p - 1) : x \in DOMAIN Rec.passes
  <2>1. graph.order \in Seq(DOMAIN Rec.passes)
    BY DEF OrderSound
  <2>2. /\ DOMAIN graph.order = 1..Len(graph.order) /\ Len(graph.order) \in Nat
        /\ \A i \in DOMAIN graph.order : graph.order[i] \in DOMAIN Rec.passes
    BY <2>1, SeqFacts
  <2>3. DOMAIN Rec.passes = 1..Len(Rec.passes) /\ Len(Rec.passes) \in Nat
    BY RecordingShape
  <2>4. k \in Nat /\ k <= Len(graph.order) /\ p \in Nat /\ p <= Len(Rec.passes)
    BY <2>2, <2>3
  <2>5. \A i \in 1..(k - 1) : i \in DOMAIN graph.order
    BY <2>2, <2>4
  <2>6. \A x \in 1..(p - 1) : x \in DOMAIN Rec.passes
    BY <2>3, <2>4
  <2>7. DOMAIN graph.order \subseteq Nat /\ DOMAIN Rec.passes \subseteq Nat
    BY <2>2, <2>3
  <2>8. QED BY <2>2, <2>4, <2>5, <2>6, <2>7
<1>2. SUFFICES ASSUME B # {} PROVE FALSE
  <2>1. j + q \in Nat
    BY <1>1
  <2>2. QED BY <2>1
<1>3. PICK s \in B : \A t \in B : s <= t
  <2>1. B \subseteq Nat
    OBVIOUS
  <2> HIDE DEF B
  <2>2. QED BY <1>2, <2>1, Least
<1>4. PICK x \in 0..(k - 1), y \in 0..(p - 1) :
        s = x + y /\ WritersRun(n, x) = WritersDeclared(n, y) /\ f[x] # g[y]
  BY <1>3
<1>5. \A u \in 0..(k - 1), v \in 0..(p - 1) :
        u + v < x + y /\ WritersRun(n, u) = WritersDeclared(n, v) => f[u] = g[v]
  <2>1. SUFFICES ASSUME NEW u \in 0..(k - 1), NEW v \in 0..(p - 1), u + v < x + y,
                        WritersRun(n, u) = WritersDeclared(n, v), f[u] # g[v]
                 PROVE  FALSE
    OBVIOUS
  <2>2. u + v \in B /\ u + v \in Nat /\ x + y \in Nat
    BY <1>1, <2>1
  <2>3. s <= u + v /\ s = x + y
    BY <1>3, <1>4, <2>2
  <2>4. QED BY <2>1, <2>2, <2>3
<1> HIDE DEF B, Differ
<1>6. /\ f[0] = <<>> /\ g[0] = <<>>
      /\ x # 0 => f[x] = RunPass(f[x - 1], graph.order[x], {n})
      /\ y # 0 => g[y] = IF y \in graph.skip THEN g[y - 1] ELSE RunPass(g[y - 1], y, {n})
      /\ x # 0 => f[x - 1] \in Seq(Nat)
      /\ y # 0 => g[y - 1] \in Seq(Nat)
  <2>1. x # 0 => x \in 1..(k - 1) /\ x - 1 \in 0..(k - 1)
    BY <1>1
  <2>2. y # 0 => y \in 1..(p - 1) /\ y - 1 \in 0..(p - 1)
    BY <1>1
  <2>3. f[0] = <<>> /\ (x # 0 => f[x] = RunPass(f[x - 1], graph.order[x], {n}) /\ f[x - 1] \in Seq(Nat))
    BY <2>1 DEF Memory
  <2>4. /\ g[0] = <<>>
        /\ y # 0 => /\ g[y] = IF y \in graph.skip THEN g[y - 1] ELSE RunPass(g[y - 1], y, {n})
                    /\ g[y - 1] \in Seq(Nat)
    BY <2>2 DEF Past
  <2>5. QED BY <2>3, <2>4
<1>7. CASE x # 0 /\ ~Writes(Rec, graph.order[x], n)
  <2>1. x - 1 \in 0..(k - 1) /\ x - 1 + y < x + y /\ graph.order[x] \in DOMAIN Rec.passes
    BY <1>1, <1>7
  <2>2. WritersRun(n, x - 1) = WritersRun(n, x)
    <3>1. \A i \in 1..x : i \in 1..(x - 1) \/ i = x
      BY <1>1
    <3>2. \A i \in 1..(x - 1) : i \in 1..x
      BY <1>1
    <3>3. QED BY <1>7, <3>1, <3>2 DEF WritersRun
  <2>3. f[x] = f[x - 1]
    BY <1>6, <1>7, <2>1, RunKeeps
  <2>4. QED BY <1>4, <1>5, <2>1, <2>2, <2>3
<1>8. CASE y # 0 /\ (y \in graph.skip \/ ~Writes(Rec, y, n))
  <2>1. y - 1 \in 0..(p - 1) /\ x + (y - 1) < x + y /\ y \in DOMAIN Rec.passes
    BY <1>1, <1>8
  <2>2. WritersDeclared(n, y - 1) = WritersDeclared(n, y)
    <3>1. \A i \in 1..y : i \in 1..(y - 1) \/ i = y
      BY <1>1
    <3>2. \A i \in 1..(y - 1) : i \in 1..y
      BY <1>1
    <3>3. QED BY <1>8, <3>1, <3>2 DEF WritersDeclared
  <2>3. g[y] = g[y - 1]
    BY <1>6, <1>8, <2>1, RunKeeps
  <2>4. QED BY <1>4, <1>5, <2>1, <2>2, <2>3
<1>9. CASE x # 0 /\ y # 0 /\ Writes(Rec, graph.order[x], n) /\ y \notin graph.skip /\ Writes(Rec, y, n)
  <2>1. /\ x - 1 \in 0..(k - 1) /\ y - 1 \in 0..(p - 1) /\ x - 1 + (y - 1) < x + y
        /\ x \in 1..(k - 1) /\ y \in 1..(p - 1) /\ x \in 1..x /\ y \in 1..y
    BY <1>1, <1>9
  <2>2. graph.order[x] \in WritersRun(n, x) /\ y \in WritersDeclared(n, y)
    BY <1>1, <1>9, <2>1 DEF WritersRun, WritersDeclared
  <2>3. PICK i \in 1..x : graph.order[i] = y
    BY <1>4, <2>2 DEF WritersRun
  <2>4. graph.order[x] \in 1..y
    BY <1>4, <2>2 DEF WritersDeclared
  <2>5. i = x
    <3>1. SUFFICES ASSUME i # x PROVE FALSE
      OBVIOUS
    <3>2. /\ i < x /\ i \in DOMAIN graph.order /\ x \in DOMAIN graph.order
          /\ i \in Nat /\ x \in Nat /\ y \in Nat
      BY <1>1, <2>1, <3>1
    <3>3. graph.order[x] # y /\ graph.order[x] \notin graph.skip
      BY <2>3, <3>1, <3>2 DEF OrderSound
    <3>4. graph.order[x] \in 1..(graph.order[i] - 1) \ graph.skip
      BY <2>3, <2>4, <3>2, <3>3
    <3>5. Uses(Rec, graph.order[i], n)
      BY <1>9, <2>1, <2>3, <1>1, UsesAre
    <3>6. Before(graph.order[x], graph.order, i)
      BY <1>9, <3>2, <3>4, <3>5, NeededBefore
    <3>7. PICK l \in DOMAIN graph.order : l < i /\ graph.order[l] = graph.order[x]
      BY <3>6 DEF Before
    <3>8. l = x
      BY <3>2, <3>7 DEF OrderSound
    <3>9. QED BY <3>2, <3>7, <3>8
  <2>6. WritersRun(n, x - 1) = WritersDeclared(n, y - 1)
    <3>1. WritersRun(n, x - 1) = WritersRun(n, x) \ {y}
      <4>1. \A l \in 1..x : l \in 1..(x - 1) \/ l = x
        BY <1>1
      <4>2. \A l \in 1..(x - 1) : l \in 1..x /\ l # x /\ l \in DOMAIN graph.order /\ x \in DOMAIN graph.order
        BY <1>1, <2>1
      <4>3. \A l \in 1..(x - 1) : graph.order[l] # y
        BY <2>3, <2>5, <4>2 DEF OrderSound
      <4>4. QED BY <2>3, <2>5, <4>1, <4>2, <4>3 DEF WritersRun
    <3>2. WritersDeclared(n, y - 1) = WritersDeclared(n, y) \ {y}
      <4>1. \A l \in 1..y : l \in 1..(y - 1) \/ l = y
        BY <1>1
      <4>2. \A l \in 1..(y - 1) : l \in 1..y /\ l # y
        BY <1>1
      <4>3. QED BY <4>1, <4>2 DEF WritersDeclared
    <3>3. QED BY <1>4, <3>1, <3>2
  <2>7. f[x - 1] = g[y - 1]
    BY <1>5, <2>1, <2>6
  <2>8. f[x] = g[y]
    BY <1>6, <1>9, <2>3, <2>5, <2>7
  <2>9. QED BY <1>4, <2>8
<1>10. CASE x = 0 /\ y # 0 /\ y \notin graph.skip /\ Writes(Rec, y, n)
  <2>1. y \in WritersDeclared(n, y)
    BY <1>1, <1>10 DEF WritersDeclared
  <2>2. \A l \in 1..x : FALSE
    BY <1>10
  <2>3. QED BY <1>4, <2>1, <2>2 DEF WritersRun
<1>11. CASE y = 0 /\ x # 0 /\ Writes(Rec, graph.order[x], n)
  <2>1. graph.order[x] \in Nat /\ x \in 1..x
    BY <1>1, <1>11
  <2>2. graph.order[x] \in WritersRun(n, x)
    BY <1>11, <2>1 DEF WritersRun
  <2>3. \A l \in 1..y : FALSE
    BY <1>11
  <2>4. QED BY <1>4, <2>2, <2>3 DEF WritersDeclared
<1>12. CASE x = 0 /\ y = 0
  BY <1>4, <1>6, <1>12
<1>13. QED BY <1>7, <1>8, <1>9, <1>10, <1>11, <1>12

(* What the k-th pass finds is what was written before its declaration.    *)
FoundIs(f, g, k) == f[k - 1] = g[graph.order[k] - 1]

(* In an object of its own, a node holds what the passes declared before   *)
(* its reader have written.                                                *)
LEMMA OwnObject ==
  ASSUME Rec \in Recordings, OrderSound(Rec, graph.skip, graph.order),
         NEW k \in DOMAIN graph.order, NEW n, ReadsFirst(Rec, graph.order[k], n),
         NEW f, Memory(f, k, {n}), NEW g, Past(g, n, graph.order[k])
  PROVE  FoundIs(f, g, k)
<1> DEFINE p == graph.order[k]
<1>1. /\ k \in Nat /\ k # 0 /\ p \in Nat /\ p # 0 /\ DOMAIN graph.order \subseteq Nat
      /\ p \in DOMAIN Rec.passes /\ DOMAIN Rec.passes \subseteq Nat
      /\ \A i \in 1..(k - 1) : i \in DOMAIN graph.order /\ graph.order[i] \in DOMAIN Rec.passes
      /\ \A x \in 1..(p - 1) : x \in DOMAIN Rec.passes
  <2>1. graph.order \in Seq(DOMAIN Rec.passes)
    BY DEF OrderSound
  <2>2. /\ DOMAIN graph.order = 1..Len(graph.order) /\ Len(graph.order) \in Nat
        /\ \A i \in DOMAIN graph.order : graph.order[i] \in DOMAIN Rec.passes
    BY <2>1, SeqFacts
  <2>3. DOMAIN Rec.passes = 1..Len(Rec.passes) /\ Len(Rec.passes) \in Nat
    BY RecordingShape
  <2>4. p \in DOMAIN Rec.passes
    BY <2>2
  <2>5. k \in Nat /\ k # 0 /\ k <= Len(graph.order) /\ p \in Nat /\ p # 0 /\ p <= Len(Rec.passes)
    BY <2>2, <2>3, <2>4
  <2> HIDE DEF p
  <2>6. \A i \in 1..(k - 1) : i \in DOMAIN graph.order
    BY <2>2, <2>5
  <2>7. \A x \in 1..(p - 1) : x \in DOMAIN Rec.passes
    BY <2>3, <2>5
  <2>8. DOMAIN graph.order \subseteq Nat /\ DOMAIN Rec.passes \subseteq Nat
    BY <2>2, <2>3
  <2>9. QED BY <2>2, <2>4, <2>5, <2>6, <2>7, <2>8
<1>2. Uses(Rec, p, n) /\ Reads(Rec, p, n)
  BY <1>1, ReadsFirstReads
<1>3. ASSUME NEW x \in WritersDeclared(n, p - 1) PROVE x \in WritersRun(n, k - 1)
  <2>1. x \in 1..(p - 1) \ graph.skip /\ Writes(Rec, x, n)
    BY DEF WritersDeclared
  <2>2. Before(x, graph.order, k)
    BY <1>2, <2>1, NeededBefore
  <2>3. PICK i \in DOMAIN graph.order : i < k /\ graph.order[i] = x
    BY <2>2 DEF Before
  <2>4. i \in 1..(k - 1) /\ x \in Nat
    <3>1. DOMAIN graph.order = 1..Len(graph.order) /\ Len(graph.order) \in Nat
      BY SeqFacts DEF OrderSound
    <3>2. QED BY <1>1, <2>1, <2>3, <3>1
  <2>5. QED BY <2>1, <2>3, <2>4 DEF WritersRun
<1>4. ASSUME NEW x \in WritersRun(n, k - 1) PROVE x \in WritersDeclared(n, p - 1)
  <2>1. PICK i \in 1..(k - 1) : graph.order[i] = x /\ Writes(Rec, x, n)
    BY DEF WritersRun
  <2>2. /\ i \in DOMAIN graph.order /\ x \in DOMAIN Rec.passes /\ x \in Nat /\ i < k /\ i \in Nat
        /\ x \notin graph.skip /\ x # p /\ p \notin graph.skip /\ x # 0
    <3>1. i \in DOMAIN graph.order /\ x \in DOMAIN Rec.passes /\ x \in Nat /\ i < k /\ i \in Nat
      BY <1>1, <2>1
    <3>2. x \notin graph.skip /\ x # p /\ p \notin graph.skip
      BY <1>1, <2>1, <3>1 DEF OrderSound
    <3>3. x # 0
      BY <3>1, RecordingShape
    <3>4. QED BY <3>1, <3>2, <3>3
  <2>3. CASE x < p
    BY <1>1, <2>1, <2>2, <2>3 DEF WritersDeclared
  <2>4. CASE x > p
    <3>1. p \in 1..(graph.order[i] - 1) \ graph.skip
      BY <1>1, <2>1, <2>2, <2>4
    <3>2. Uses(Rec, graph.order[i], n) /\ Writes(Rec, graph.order[i], n)
      BY <2>1, <2>2, UsesAre
    <3>3. Before(p, graph.order, i)
      BY <1>2, <2>2, <3>1, <3>2, NeededBefore
    <3>4. PICK l \in DOMAIN graph.order : l < i /\ graph.order[l] = p
      BY <3>3 DEF Before
    <3>5. l = k
      BY <3>4 DEF OrderSound
    <3>6. QED BY <1>1, <2>2, <3>4, <3>5
  <2>5. QED BY <1>1, <2>2, <2>3, <2>4
<1>5. WritersRun(n, k - 1) = WritersDeclared(n, p - 1)
  BY <1>3, <1>4
<1>6. k - 1 \in 0..(k - 1) /\ p - 1 \in 0..(p - 1)
  BY <1>1
<1>7. p \in DOMAIN Rec.passes /\ Past(g, n, p)
  BY <1>1
<1> HIDE DEF p
<1> DEFINE j == k - 1
           q == p - 1
<1>8. j \in 0..(k - 1) /\ q \in 0..(p - 1) /\ WritersRun(n, j) = WritersDeclared(n, q)
  BY <1>5, <1>6
<1> HIDE DEF j, q
<1>9. f[j] = g[q]
  BY <1>7, <1>8, SameWriters
<1>10. QED BY <1>9 DEF FoundIs, j, q, p

(* An object that is shared holds the same, although others have used it   *)
(* before: the first access to a node leaves nothing of what was there,    *)
(* and until it is no longer used no other node is.                        *)
LEMMA SharedObject ==
  ASSUME Rec \in Recordings, graph.order \in Seq(DOMAIN Rec.passes),
         NEW k \in DOMAIN graph.order, NEW nodes, NEW n \in nodes,
         ReadsFirst(Rec, graph.order[k], n),
         Defines(Rec, Head(LiveAccesses(Rec, graph.order, n))),
         \A m \in nodes : UsedAt(Rec, graph.order, m) # {} /\ (m # n => Apart(Rec, graph.order, m, n)),
         NEW f, Memory(f, k, {n}), NEW g, Memory(g, k, nodes)
  PROVE  f[k - 1] = g[k - 1]
<1> DEFINE first == FirstUse(Rec, graph.order, n)
           B == {j \in first..(k - 1) : f[j] # g[j]}
<1>1. /\ k \in Nat /\ DOMAIN graph.order \subseteq Nat /\ DOMAIN graph.order = 1..Len(graph.order)
      /\ Len(graph.order) \in Nat
      /\ \A i \in DOMAIN graph.order : graph.order[i] \in DOMAIN Rec.passes
  BY SeqFacts
<1>2. Uses(Rec, graph.order[k], n)
  BY DEF ReadsFirst
<1>3. k \in UsedAt(Rec, graph.order, n)
  BY <1>2 DEF UsedAt
<1>4. /\ first \in UsedAt(Rec, graph.order, n) /\ first <= k
      /\ k <= LastUse(Rec, graph.order, n) /\ LastUse(Rec, graph.order, n) \in Nat
  BY <1>1, <1>3, UsedWithin DEF UsedAt
<1>5. first \in DOMAIN graph.order /\ Uses(Rec, graph.order[first], n)
  BY <1>4 DEF UsedAt
<1>6. PICK a : /\ FirstOf(Rec.passes[graph.order[first]].acc, n, a)
               /\ Head(AccessesOf(Rec, graph.order[first], n)) = Rec.passes[graph.order[first]].acc[a]
  BY <1>1, <1>5, FirstAccess
<1>7. Defines(Rec, Head(AccessesOf(Rec, graph.order[first], n)))
  BY <1>3, FirstLiveAccess
<1>8. first < k
  <2>1. IsWrite(Head(AccessesOf(Rec, graph.order[first], n)))
    BY <1>7 DEF Defines, IsWrite
  <2>2. first # k
    BY <2>1 DEF ReadsFirst
  <2>3. QED BY <1>1, <1>4, <1>5, <2>2
<1> HIDE DEF first
<1>9. ASSUME NEW j \in first..(k - 1)
      PROVE  j \in DOMAIN graph.order /\ \A m \in nodes \ {n} : ~Uses(Rec, graph.order[j], m)
  <2>1. j \in DOMAIN graph.order /\ j \in Nat /\ first <= j /\ j < k
    BY <1>1, <1>5
  <2>2. SUFFICES ASSUME NEW m \in nodes \ {n}, Uses(Rec, graph.order[j], m) PROVE FALSE
    BY <2>1
  <2>3. j \in UsedAt(Rec, graph.order, m)
    BY <2>1, <2>2 DEF UsedAt
  <2>4. /\ FirstUse(Rec, graph.order, m) <= j /\ j <= LastUse(Rec, graph.order, m)
        /\ FirstUse(Rec, graph.order, m) \in Nat /\ LastUse(Rec, graph.order, m) \in Nat
    BY <1>1, <2>3, UsedWithin DEF UsedAt
  <2>5. LastUse(Rec, graph.order, m) < first \/ LastUse(Rec, graph.order, n) < FirstUse(Rec, graph.order, m)
    BY <2>2 DEF Apart, first
  <2>6. first \in Nat
    BY <1>1, <1>5
  <2>7. QED BY <1>1, <1>4, <2>1, <2>4, <2>5, <2>6
<1>10. \A j \in 1..(k - 1) : /\ f[j] = RunPass(f[j - 1], graph.order[j], {n}) /\ f[j - 1] \in Seq(Nat)
                             /\ g[j] = RunPass(g[j - 1], graph.order[j], nodes) /\ g[j - 1] \in Seq(Nat)
  <2>1. \A j \in 1..(k - 1) : j - 1 \in 0..(k - 1)
    BY <1>1
  <2>2. QED BY <2>1 DEF Memory
<1>11. f[first] = g[first]
  <2>1. first \in 1..(k - 1) /\ first \in first..(k - 1) /\ graph.order[first] \in DOMAIN Rec.passes
    BY <1>1, <1>5, <1>8
  <2>2. UsesSame(graph.order[first], {n}, nodes)
    BY <1>9, <2>1 DEF UsesSame
  <2>3. Erases(graph.order[first], {n})
    BY <1>6, <1>7 DEF FirstOf, Erases
  <2>4. RunPass(f[first - 1], graph.order[first], {n}) = RunPass(g[first - 1], graph.order[first], nodes)
    BY <1>10, <2>1, <2>2, <2>3, RunAgrees
  <2>5. QED BY <1>10, <2>1, <2>4
<1>12. SUFFICES ASSUME B # {} PROVE FALSE
  BY <1>1, <1>5, <1>8
<1>13. PICK j \in B : \A i \in B : j <= i
  <2>1. B \subseteq Nat
    BY <1>1, <1>5
  <2> HIDE DEF B
  <2>2. QED BY <1>12, <2>1, Least
<1>14. /\ j \in 1..(k - 1) /\ j \in first..(k - 1) /\ j - 1 \in first..(k - 1) /\ j - 1 \notin B
       /\ graph.order[j] \in DOMAIN Rec.passes
  <2>1. j \in first..(k - 1) /\ j # first /\ first \in Nat /\ first # 0
    BY <1>1, <1>5, <1>11, <1>13
  <2>2. QED BY <1>1, <1>9, <1>13, <2>1
<1>15. f[j - 1] = g[j - 1] /\ UsesSame(graph.order[j], {n}, nodes)
  BY <1>9, <1>14 DEF UsesSame
<1>16. RunPass(f[j - 1], graph.order[j], {n}) = RunPass(g[j - 1], graph.order[j], nodes)
  BY <1>10, <1>14, <1>15, RunAgrees
<1>17. QED BY <1>10, <1>13, <1>14, <1>16

-----------------------------------------------------------------------------
(* The transient pool: what acquire claims for the k-th request.           *)
ClaimStep(requests, s) ==
  LET k == Len(s) + 1
      claimed == {s[j] : j \in 1..(k - 1)}
      fits == {i \in DOMAIN transient : i \notin claimed /\ Serves(transient[i], requests[k])}
  IN  IF fits = {} THEN 0 ELSE Min(fits)

AreClaims(requests, f) ==
  f = [k \in DOMAIN requests |->
         LET claimed == {f[j] : j \in 1..(k - 1)}
             fits == {i \in DOMAIN transient :
                        i \notin claimed /\ Serves(transient[i], requests[k])}
         IN  IF fits = {} THEN 0 ELSE Min(fits)]

LEMMA ClaimsAre ==
  ASSUME NEW E, transient \in Seq(E), NEW R, NEW requests \in Seq(R)
  PROVE  /\ Claims(requests) \in [DOMAIN requests -> 0..Len(transient)]
         /\ AreClaims(requests, Claims(requests))
<1> DEFINE L == Len(requests)
           V == 0..Len(transient)
           G == [s \in Seq(V) |-> ClaimStep(requests, s)]
<1>1. /\ L \in Nat /\ DOMAIN requests = 1..L
      /\ Len(transient) \in Nat /\ DOMAIN transient = 1..Len(transient)
  BY SeqFacts
<1>2. \A s \in Seq(V) : G[s] \in V
  <2>1. ASSUME NEW s, NEW fits, fits \subseteq DOMAIN transient PROVE (IF fits = {} THEN 0 ELSE Min(fits)) \in V
    <3>1. fits \subseteq Nat
      BY <1>1, <2>1
    <3>2. fits # {} => Min(fits) \in DOMAIN transient
      BY <2>1, <3>1, MinIs
    <3>3. QED BY <1>1, <3>2
  <2>2. \A s \in Seq(V) : ClaimStep(requests, s) \in V
    BY <2>1 DEF ClaimStep
  <2>3. QED BY <2>2
<1>3. \A s \in Seq(V) : G[s] = ClaimStep(requests, s)
  OBVIOUS
<1> HIDE DEF V, G, L
<1>4. PICK f : Unfolds(f, L, V, G)
  BY <1>1, <1>2, CourseOfValues
<1>5. f \in [1..L -> V] /\ \A k \in 1..L : f[k] = G[[j \in 1..(k - 1) |-> f[j]]]
  BY <1>4 DEF Unfolds
<1>6. ASSUME NEW k \in 1..L
      PROVE  f[k] = LET claimed == {f[j] : j \in 1..(k - 1)}
                        fits == {i \in DOMAIN transient :
                                   i \notin claimed /\ Serves(transient[i], requests[k])}
                    IN  IF fits = {} THEN 0 ELSE Min(fits)
  <2> DEFINE s == [j \in 1..(k - 1) |-> f[j]]
  <2>1. k \in Nat /\ k - 1 \in Nat /\ \A j \in 1..(k - 1) : j \in 1..L
    BY <1>1
  <2>2. s \in Seq(V) /\ Len(s) = k - 1
    <3>1. s \in [1..(k - 1) -> V]
      BY <1>5, <2>1
    <3> HIDE DEF s
    <3>2. QED BY <2>1, <3>1
  <2>3. f[k] = ClaimStep(requests, s)
    BY <1>3, <1>5, <2>2
  <2>4. \A j \in 1..(k - 1) : s[j] = f[j]
    OBVIOUS
  <2>5. Len(s) + 1 = k
    BY <2>1, <2>2
  <2> HIDE DEF s
  <2>6. {s[j] : j \in 1..(k - 1)} = {f[j] : j \in 1..(k - 1)}
    BY <2>4
  <2>7. QED BY <2>3, <2>5, <2>6 DEF ClaimStep
<1>7. AreClaims(requests, f)
  <2>1. f = [k \in 1..L |-> f[k]]
    BY <1>5
  <2>2. QED BY <1>1, <1>6, <2>1 DEF AreClaims
<1> DEFINE h == CHOOSE g : AreClaims(requests, g)
<1>8. Claims(requests) = h
  BY DEF Claims, AreClaims
<1>9. AreClaims(requests, h)
  BY <1>7
<1> HIDE DEF h
<1>10. h \in [1..L -> V]
  <2>1. DOMAIN h = 1..L /\ h = [k \in 1..L |-> h[k]]
    BY <1>1, <1>9 DEF AreClaims
  <2>2. ASSUME NEW k \in 1..L PROVE h[k] \in V
    <3> DEFINE fits == {i \in DOMAIN transient :
                          i \notin {h[j] : j \in 1..(k - 1)} /\ Serves(transient[i], requests[k])}
    <3>1. h[k] = IF fits = {} THEN 0 ELSE Min(fits)
      BY <1>1, <1>9 DEF AreClaims
    <3>2. fits \subseteq DOMAIN transient /\ fits \subseteq Nat
      BY <1>1
    <3> HIDE DEF fits
    <3>3. fits # {} => Min(fits) \in DOMAIN transient
      BY <3>2, MinIs
    <3>4. QED BY <1>1, <3>1, <3>3 DEF V
  <2>3. QED BY <2>1, <2>2
<1>11. QED BY <1>1, <1>8, <1>9, <1>10 DEF V

(* No two requests of a list get the same object.                          *)
LEMMA ClaimsDiffer ==
  ASSUME NEW E, transient \in Seq(E), NEW R, NEW requests \in Seq(R),
         NEW j \in DOMAIN requests, NEW k \in DOMAIN requests, j < k,
         Claims(requests)[j] = Claims(requests)[k]
  PROVE  Claims(requests)[k] = 0
<1> DEFINE c == Claims(requests)
           claimed == {c[i] : i \in 1..(k - 1)}
           fits == {i \in DOMAIN transient : i \notin claimed /\ Serves(transient[i], requests[k])}
<1>1. /\ DOMAIN requests = 1..Len(requests) /\ Len(requests) \in Nat
      /\ Len(transient) \in Nat /\ DOMAIN transient = 1..Len(transient)
  BY SeqFacts
<1>2. AreClaims(requests, c)
  BY ClaimsAre
<1>3. c[k] = IF fits = {} THEN 0 ELSE Min(fits)
  BY <1>2 DEF AreClaims
<1>4. j \in 1..(k - 1)
  BY <1>1
<1>5. c[j] \in claimed
  BY <1>4
<1>6. fits \subseteq Nat
  BY <1>1
<1>7. \A i \in fits : i \notin claimed
  OBVIOUS
<1> HIDE DEF c, fits, claimed
<1>8. fits # {} => Min(fits) \in fits
  BY <1>6, MinIs
<1>9. QED BY <1>3, <1>5, <1>7, <1>8 DEF c

LEMMA ObjectsDiffer ==
  ASSUME NEW E, transient \in Seq(E), NEW R, NEW requests \in Seq(R),
         NEW j \in DOMAIN requests, NEW k \in DOMAIN requests, j < k
  PROVE  ObjectClaimed(Claims(requests), j) # ObjectClaimed(Claims(requests), k)
<1> DEFINE c == Claims(requests)
           L == Len(requests)
           new == {i \in 1..L : c[i] = 0}
           N == Len(transient)
           before(i) == Cardinality({x \in 1..(i - 1) : c[x] = 0})
<1>1. DOMAIN requests = 1..L /\ L \in Nat /\ N \in Nat
  BY SeqFacts
<1>2. c[j] \in 0..N /\ c[k] \in 0..N /\ (c[j] = c[k] => c[k] = 0)
  BY ClaimsAre, ClaimsDiffer
<1>3. ObjectClaimed(c, j) = (IF c[j] # 0 THEN N - c[j] ELSE N + before(j))
  BY DEF ObjectClaimed
<1>4. ObjectClaimed(c, k) = (IF c[k] # 0 THEN N - c[k] ELSE N + before(k))
  BY DEF ObjectClaimed
<1>5. ASSUME NEW i \in 1..L PROVE i \in Nat /\ before(i) = Cardinality(new \cap 1..(i - 1))
  <2>1. {x \in 1..(i - 1) : c[x] = 0} = new \cap 1..(i - 1)
    BY <1>1
  <2>2. i \in Nat
    BY <1>1
  <2>3. QED BY <2>1, <2>2
<1>6. j \in 1..L /\ k \in 1..L /\ j \in Nat /\ j - 1 \in Nat /\ k - 1 \in Nat /\ j <= k - 1
  BY <1>1
<1> HIDE DEF before
<1>7. new \subseteq 1..L
  OBVIOUS
<1>8. c[j] = 0 => j \in new
  BY <1>6
<1> HIDE DEF c, new, L, N
<1>9. before(j) \in Nat /\ before(k) \in Nat
  <2>1. \A i \in Nat : Cardinality(new \cap 1..i) \in 0..Cardinality(new) /\ Cardinality(new) \in Nat
    BY <1>1, <1>7, UpTo
  <2>2. \A i \in Nat : Cardinality(new \cap 1..i) \in Nat
    BY <2>1
  <2>3. Cardinality(new \cap 1..(j - 1)) \in Nat /\ Cardinality(new \cap 1..(k - 1)) \in Nat
    BY <1>6, <2>2
  <2>4. QED BY <1>5, <1>6, <2>3
<1>10. c[j] = 0 => before(j) < before(k)
  <2>1. SUFFICES ASSUME c[j] = 0 PROVE before(j) < before(k)
    OBVIOUS
  <2>2. Cardinality(new \cap 1..j) = Cardinality(new \cap 1..(j - 1)) + 1
    <3>1. \A i \in 1..L : Cardinality(new \cap 1..i)
                           = Cardinality(new \cap 1..(i - 1)) + IF i \in new THEN 1 ELSE 0
      BY <1>1, <1>7, UpTo
    <3>2. QED BY <1>6, <1>8, <2>1, <3>1
  <2>3. Cardinality(new \cap 1..j) <= Cardinality(new \cap 1..(k - 1))
    <3>1. \A x, y \in Nat : x <= y => Cardinality(new \cap 1..x) <= Cardinality(new \cap 1..y)
      BY <1>1, <1>7, UpTo
    <3> DEFINE m == k - 1
    <3>2. m \in Nat /\ j <= m
      BY <1>6
    <3> HIDE DEF m
    <3>3. Cardinality(new \cap 1..j) <= Cardinality(new \cap 1..m)
      BY <1>6, <3>1, <3>2
    <3>4. QED BY <3>3 DEF m
  <2>4. before(j) = Cardinality(new \cap 1..(j - 1)) /\ before(k) = Cardinality(new \cap 1..(k - 1))
    BY <1>5, <1>6
  <2>5. QED BY <1>9, <2>2, <2>3, <2>4
<1>11. (IF c[j] # 0 THEN N - c[j] ELSE N + before(j)) # (IF c[k] # 0 THEN N - c[k] ELSE N + before(k))
  BY <1>1, <1>2, <1>9, <1>10
<1>12. QED BY <1>3, <1>4, <1>11 DEF c

(* The entries of the pool, and that a frame leaves them such.             *)
Requested(nodes) ==
  [kind : Kinds, sig : Sigs, usage : SUBSET (Bits \cup {Memoryless}), identity : Names,
   members : SUBSET nodes]
TransientEntry ==
  [kind : Kinds, sig : Sigs, usage : SUBSET (Bits \cup {Memoryless}), identity : Names,
   idle : 0..IdleFrames, fresh : BOOLEAN]

LEMMA ServedType ==
  ASSUME transient \in Seq(TransientEntry), NEW nodes, NEW requests \in Seq(Requested(nodes)),
         NEW claims, claims \in [DOMAIN requests -> 0..Len(transient)]
  PROVE  Served(requests, claims) \in Seq(TransientEntry)
<1> DEFINE E == TransientEntry
           Q == Requested(nodes)
           L == Len(requests)
           new == {k \in DOMAIN requests : claims[k] = 0}
           created == Picked(requests, new)
           made == [j \in DOMAIN created |-> Created(created[j])]
           Claimants(i) == {k \in DOMAIN requests : claims[k] = i}
           kept == [i \in DOMAIN transient |->
                      IF Claimants(i) = {} THEN transient[i]
                      ELSE [transient[i] EXCEPT !.idle = 0, !.identity = requests[Max(Claimants(i))].identity]]
<1>1. /\ L \in Nat /\ DOMAIN requests = 1..L /\ \A k \in DOMAIN requests : requests[k] \in Q
      /\ Len(transient) \in Nat /\ DOMAIN transient = 1..Len(transient)
      /\ \A i \in DOMAIN transient : transient[i] \in E
  BY SeqFacts
<1>2. created \in Seq(Q)
  <2>1. new \subseteq DOMAIN requests
    OBVIOUS
  <2> HIDE DEF new, Q
  <2>2. QED BY <2>1, PickedType DEF Q
<1> HIDE DEF created
<1>3. Len(created) \in Nat /\ DOMAIN created = 1..Len(created) /\ \A j \in DOMAIN created : created[j] \in Q
  BY <1>2, SeqFacts
<1>4. made \in Seq(E)
  <2>1. \A j \in DOMAIN created : Created(created[j]) \in E
    BY <1>3, IdleFramesType DEF Created, Requested, TransientEntry
  <2>2. DOMAIN made = 1..Len(created) /\ made = [j \in DOMAIN created |-> made[j]]
    BY <1>3
  <2>3. \A j \in DOMAIN created : made[j] \in E
    BY <2>1
  <2> HIDE DEF E, made
  <2>4. made \in [1..Len(created) -> E]
    BY <1>3, <2>2, <2>3
  <2>5. QED BY <1>3, <2>4, AsSeq
<1>5. kept \in Seq(E)
  <2>1. ASSUME NEW i \in DOMAIN transient PROVE kept[i] \in E
    <3>1. transient[i] \in E
      BY <1>1
    <3>2. CASE Claimants(i) = {}
      BY <3>1, <3>2
    <3>3. CASE Claimants(i) # {}
      <4> DEFINE S == Claimants(i)
      <4>1. S \subseteq 0..L
        BY <1>1
      <4>2. Max(S) \in S
        <5> HIDE DEF S
        <5>1. S # {}
          BY <3>3 DEF S
        <5>2. QED BY <1>1, <4>1, <5>1, MaxIs
      <4>3. requests[Max(S)].identity \in Names
        BY <1>1, <4>2 DEF Requested
      <4> DEFINE id == requests[Max(S)].identity
      <4>4. kept[i] = [transient[i] EXCEPT !.idle = 0, !.identity = id]
        BY <3>3
      <4>5. id \in Names /\ 0 \in 0..IdleFrames
        BY <4>3, IdleFramesType
      <4> HIDE DEF id, kept
      <4>6. QED BY <3>1, <4>4, <4>5 DEF TransientEntry
    <3>4. QED BY <3>2, <3>3
  <2>2. DOMAIN kept = 1..Len(transient) /\ kept = [i \in DOMAIN transient |-> kept[i]]
    BY <1>1
  <2> HIDE DEF kept, E
  <2>3. kept \in [1..Len(transient) -> E]
    BY <1>1, <2>1, <2>2
  <2>4. QED BY <1>1, <2>3
<1>6. Served(requests, claims) = Backwards(made) \o kept
  BY DEF Served, created
<1> HIDE DEF made, kept, E
<1>7. Backwards(made) \in Seq(E)
  BY <1>4, BackwardsType
<1>8. QED BY <1>5, <1>6, <1>7, Concatenation DEF E

LEMMA TransientKept ==
  ASSUME transient \in Seq(TransientEntry), TransientEndFrame
  PROVE  transient' \in Seq(TransientEntry)
<1> DEFINE E == TransientEntry
           Stays(e) == e.idle < IdleFrames /\ \A s \in ToSet(transient) : ~SupersededBy(e, s)
           S == {i \in DOMAIN transient : Stays(transient[i])}
           kept == Picked(transient, S)
           older == [i \in DOMAIN kept |-> [kept[i] EXCEPT !.idle = @ + 1, !.fresh = FALSE]]
<1>1. transient' = older
  BY DEF TransientEndFrame
<1>2. \A i \in S : transient[i].idle < IdleFrames
  OBVIOUS
<1>3. S \subseteq DOMAIN transient
  OBVIOUS
<1> HIDE DEF S, Stays
<1>4. PICK e : kept \in Seq(E) /\ PickedAt(e, kept, transient, S)
  <2> HIDE DEF E
  <2>1. QED BY <1>3, PickedType DEF E
<1> HIDE DEF kept
<1>5. Len(kept) \in Nat /\ DOMAIN kept = 1..Len(kept)
  BY <1>4, SeqFacts
<1>6. ASSUME NEW i \in DOMAIN kept PROVE older[i] \in E
  <2>1. kept[i] \in E /\ kept[i].idle < IdleFrames
    BY <1>2, <1>3, <1>4, <1>5, SeqFacts DEF PickedAt
  <2>2. kept[i].idle + 1 \in 0..IdleFrames
    BY <2>1, IdleFramesType DEF TransientEntry
  <2>3. older[i] = [kept[i] EXCEPT !.idle = kept[i].idle + 1, !.fresh = FALSE]
    OBVIOUS
  <2> HIDE DEF older
  <2>4. QED BY <2>1, <2>2, <2>3 DEF TransientEntry
<1>7. older = [i \in DOMAIN kept |-> older[i]]
  OBVIOUS
<1> HIDE DEF older, E
<1>8. older \in [1..Len(kept) -> E]
  BY <1>5, <1>6, <1>7
<1>9. QED BY <1>1, <1>5, <1>8 DEF E

-----------------------------------------------------------------------------
(* What compile() hands to execute().                                      *)
GraphOf(r, g) ==
  \/ g = Failed
  \/ /\ g.ok
     /\ g.skip \subseteq DOMAIN r.passes
     /\ OrderSound(r, g.skip, g.order)
     /\ SlotsSound(r, g.order, g.slots, Aliasable(r, g.order))

LEMMA RecordedLegally ==
  ASSUME NEW s \in Sessions, NEW i \in DOMAIN s.recs
  PROVE  s.recs[i] \in Recordings /\ Legal(s.recs[i]) /\ Known(s.recs[i])
<1>1. s.recs \in Seq(Recordings) /\ \A r \in ToSet(s.recs) : Legal(r) /\ Known(r)
  BY SessionsAreLegal
<1>2. s.recs[i] \in Recordings
  BY <1>1, SeqFacts
<1>3. s.recs[i] \in ToSet(s.recs)
  BY DEF ToSet
<1>4. QED BY <1>1, <1>2, <1>3

LEMMA CompiledSound ==
  ASSUME NEW r \in Recordings, Known(r), NEW alias
  PROVE  /\ GraphOf(r, Compiled(r, alias))
         /\ Compiled(r, alias).ok => Compiled(r, alias).skip = Skipped(r)
<1> DEFINE skip == Skipped(r)
           order == OrderOf(r, skip)
           slots == IF alias THEN AliasSlots(r, order) ELSE <<>>
           made == [ok |-> TRUE, skip |-> skip, order |-> order, slots |-> slots]
<1>1. skip \subseteq DOMAIN r.passes
  BY DEF Skipped
<1>2. OrderSound(r, skip, order)
  BY OrderIsSound
<1> HIDE DEF order
<1>3. order \in Seq(DOMAIN r.passes)
  BY <1>2 DEF OrderSound
<1>4. SlotsSound(r, order, slots, Aliasable(r, order))
  <2>1. CASE alias
    BY <1>3, <2>1, AliasSlotsSound
  <2>2. CASE ~alias
    <3>1. slots = <<>>
      BY <2>2
    <3> DEFINE T == AliasSlot(r)
    <3> HIDE DEF T, slots
    <3>2. slots \in Seq(T) /\ DOMAIN slots = {}
      BY <3>1
    <3>3. QED BY <3>2 DEF SlotsSound, T
  <2>3. QED BY <2>1, <2>2
<1> HIDE DEF slots
<1>5. GraphOf(r, made) /\ made.ok /\ made.skip = skip
  BY <1>1, <1>2, <1>4 DEF GraphOf
<1>6. Compiled(r, alias) = Failed \/ Compiled(r, alias) = made
  BY DEF Compiled, order, slots
<1>7. GraphOf(r, Failed) /\ ~Failed.ok
  BY DEF GraphOf, Failed
<1> HIDE DEF made, skip
<1>8. CASE Compiled(r, alias) = Failed
  BY <1>7, <1>8
<1>9. CASE Compiled(r, alias) = made
  BY <1>5, <1>9 DEF skip
<1>10. QED BY <1>6, <1>8, <1>9

LEMMA SlotsAreSeq ==
  ASSUME Rec \in Recordings, GraphOf(Rec, graph), graph.ok
  PROVE  /\ OrderSound(Rec, graph.skip, graph.order) /\ graph.order \in Seq(DOMAIN Rec.passes)
         /\ SlotsSound(Rec, graph.order, graph.slots, Aliasable(Rec, graph.order))
         /\ graph.skip \subseteq DOMAIN Rec.passes
BY DEF GraphOf, Failed, OrderSound

-----------------------------------------------------------------------------
(* What the requests to the transient pool are for.                        *)
SlotMates(m, n) ==
  \E i \in DOMAIN graph.slots : m \in graph.slots[i].members /\ n \in graph.slots[i].members

Proper ==
  {q \in Requested(DOMAIN Rec.nodes) : \A m, n \in q.members : m = n \/ SlotMates(m, n)}

LEMMA SlotProper ==
  ASSUME Rec \in Recordings, GraphOf(Rec, graph), graph.ok, NEW i \in DOMAIN graph.slots
  PROVE  Request(graph.slots[i].kind, graph.slots[i].sig, graph.slots[i].usage,
                 graph.slots[i].identity, graph.slots[i].members) \in Proper
<1>1. graph.slots[i] \in AliasSlot(Rec)
  <2> DEFINE T == AliasSlot(Rec)
  <2>1. graph.slots \in Seq(T)
    BY SlotsAreSeq DEF SlotsSound
  <2> HIDE DEF T
  <2>2. graph.slots[i] \in T
    BY <2>1, SeqFacts
  <2>3. QED BY <2>2 DEF T
<1>2. QED BY <1>1 DEF Proper, Requested, Request, AliasSlot, SlotMates

LEMMA SingleProper ==
  ASSUME Rec \in Recordings, Known(Rec), GraphOf(Rec, graph), graph.ok, NEW n \in DOMAIN Rec.nodes
  PROVE  RequestOf(n) \in Proper
<1>1. Rec.nodes[n] \in NodeType /\ SigOf(Rec, n) \in Sigs
  BY RecordingShape DEF Known
<1>2. NodeUsage(Rec, graph.order, n) \subseteq Bits
  BY SlotsAreSeq, UsageType, ToSetType DEF NodeUsage
<1>3. QED BY <1>1, <1>2 DEF Proper, Requested, Request, RequestOf, NodeType

LEMMA RequestsAre ==
  ASSUME Rec \in Recordings, Known(Rec), GraphOf(Rec, graph), graph.ok
  PROVE  /\ Requests \in Seq(Proper)
         /\ \A n \in LiveNodes : ~External(Rec.nodes[n]) =>
              \E k \in DOMAIN Requests : n \in Requests[k].members
<1> DEFINE T == Proper
           slotted == [i \in DOMAIN graph.slots |->
                         Request(graph.slots[i].kind, graph.slots[i].sig, graph.slots[i].usage,
                                 graph.slots[i].identity, graph.slots[i].members)]
           asc(kind) == Ascending(Single(kind))
           singles(kind) == [i \in DOMAIN asc(kind) |-> RequestOf(asc(kind)[i])]
           both == slotted \o singles("texture")
<1>1. slotted \in Seq(T) /\ DOMAIN slotted = DOMAIN graph.slots
  <2> DEFINE Y == AliasSlot(Rec)
  <2>1. graph.slots \in Seq(Y)
    BY SlotsAreSeq DEF SlotsSound
  <2>2. \A i \in DOMAIN graph.slots : slotted[i] \in T
    BY SlotProper
  <2>3. DOMAIN slotted = DOMAIN graph.slots /\ slotted = [i \in DOMAIN graph.slots |-> slotted[i]]
    OBVIOUS
  <2> HIDE DEF Y, T, slotted
  <2>4. Len(graph.slots) \in Nat /\ DOMAIN graph.slots = 1..Len(graph.slots)
    BY <2>1, SeqFacts
  <2>5. slotted \in [1..Len(graph.slots) -> T]
    BY <2>2, <2>3, <2>4
  <2>6. QED BY <2>3, <2>4, <2>5, AsSeq
<1>2. ASSUME NEW kind
      PROVE  /\ singles(kind) \in Seq(T)
             /\ \A n \in Single(kind) : Occurs(RequestOf(n), singles(kind))
  <2>1. Single(kind) \subseteq DOMAIN Rec.nodes /\ Len(Rec.nodes) \in Nat /\ DOMAIN Rec.nodes = 1..Len(Rec.nodes)
    BY RecordingShape DEF Single, LiveNodes
  <2> DEFINE S == Single(kind)
             s == asc(kind)
             t == singles(kind)
  <2>2. /\ s \in Seq(S)
        /\ \A k \in S : \E i \in DOMAIN s : s[i] = k
    <3> DEFINE L == Len(Rec.nodes)
    <3>1. L \in Nat /\ S \subseteq 1..L
      BY <2>1
    <3>2. s = Ascending(S)
      OBVIOUS
    <3> HIDE DEF L, S, s
    <3>3. HasAll(Ascending(S), S)
      BY <3>1, AscendingHas
    <3>4. QED BY <3>2, <3>3 DEF HasAll
  <2>3. DOMAIN t = DOMAIN s /\ t = [i \in DOMAIN s |-> t[i]] /\ \A i \in DOMAIN s : t[i] = RequestOf(s[i])
    OBVIOUS
  <2> HIDE DEF S, s, t, T
  <2>4. Len(s) \in Nat /\ DOMAIN s = 1..Len(s) /\ \A i \in DOMAIN s : s[i] \in S
    BY <2>2, SeqFacts
  <2>5. \A i \in DOMAIN s : t[i] \in T
    BY <2>1, <2>3, <2>4, SingleProper DEF S, T
  <2>6. t \in [1..Len(s) -> T]
    BY <2>3, <2>4, <2>5
  <2>7. t \in Seq(T)
    BY <2>4, <2>6, AsSeq
  <2>8. \A n \in S : Occurs(RequestOf(n), t)
    BY <2>2, <2>3 DEF Occurs
  <2>9. QED BY <2>7, <2>8 DEF t, S
<1>3. Requests = both \o singles("buffer")
  BY DEF Requests
<1> HIDE DEF T, singles, slotted, asc
<1>4. Joined2(slotted, singles("texture"), both) /\ both \in Seq(T)
  BY <1>1, <1>2, Concatenation
<1> HIDE DEF both
<1>5. Joined2(both, singles("buffer"), Requests) /\ Requests \in Seq(T)
  BY <1>2, <1>3, <1>4, Concatenation
<1>6. \A q : Occurs(q, slotted) \/ Occurs(q, singles("texture")) \/ Occurs(q, singles("buffer"))
               => Occurs(q, Requests)
  BY <1>4, <1>5, JoinedElements
<1>7. ASSUME NEW n \in LiveNodes, ~External(Rec.nodes[n])
      PROVE  \E k \in DOMAIN Requests : n \in Requests[k].members
  <2>1. SUFFICES \E q : Occurs(q, Requests) /\ n \in q.members
    BY DEF Occurs
  <2>2. CASE InSlot(n)
    <3>1. PICK i \in DOMAIN graph.slots : n \in graph.slots[i].members
      BY <2>2 DEF InSlot
    <3>2. Occurs(slotted[i], slotted) /\ n \in slotted[i].members
      BY <1>1, <3>1 DEF Occurs, slotted, Request
    <3>3. QED BY <1>6, <3>2
  <2>3. CASE ~InSlot(n)
    <3>1. n \in DOMAIN Rec.nodes /\ Rec.nodes[n].kind \in {"texture", "buffer"}
      BY RecordingShape DEF LiveNodes, NodeType, Kinds
    <3>2. n \in Single(Rec.nodes[n].kind)
      BY <1>7, <2>3, <3>1 DEF Single
    <3>3. Occurs(RequestOf(n), singles("texture")) \/ Occurs(RequestOf(n), singles("buffer"))
      BY <1>2, <3>1, <3>2
    <3>4. n \in RequestOf(n).members
      BY DEF RequestOf, Request
    <3>5. QED BY <1>6, <3>3, <3>4
  <2>4. QED BY <2>2, <2>3
<1>8. QED BY <1>5, <1>7 DEF T

-----------------------------------------------------------------------------
(* Two nodes of one name are the layers of a history.                      *)
LEMMA SameName ==
  ASSUME NEW r \in Recordings, Legal(r), NEW m \in DOMAIN r.nodes, NEW n \in DOMAIN r.nodes,
         r.nodes[m].name = r.nodes[n].name, m # n
  PROVE  /\ r.nodes[m].life = "history" /\ r.nodes[n].life = "history"
         /\ {r.nodes[m].layer, r.nodes[n].layer} = {0, 1}
<1>1. DOMAIN r.nodes = 1..Len(r.nodes) /\ Len(r.nodes) \in Nat
      /\ \A k \in DOMAIN r.nodes : r.nodes[k] \in NodeType
  BY RecordingShape
<1>2. ASSUME NEW x \in DOMAIN r.nodes, NEW y \in DOMAIN r.nodes, x < y, r.nodes[x].name = r.nodes[y].name
      PROVE  /\ r.nodes[x].life = "history" /\ r.nodes[y].life = "history"
             /\ r.nodes[x].layer = 0 /\ r.nodes[y].layer = 1
  <2>1. x \in 1..(y - 1) /\ LegalNode(r, y) /\ LayersPaired(r, y)
    BY <1>1, <1>2 DEF Legal
  <2>2. x = y - 1 /\ r.nodes[y].layer = 1
    BY <1>2, <2>1 DEF LegalNode
  <2>3. r.nodes[y].life = "history" /\ r.nodes[x] = [r.nodes[y] EXCEPT !.layer = 0]
    BY <2>1, <2>2 DEF LayersPaired
  <2>4. QED BY <1>1, <2>2, <2>3 DEF NodeType
<1>3. m < n \/ n < m
  BY <1>1
<1>4. QED BY <1>2, <1>3

(* Two nodes are on one object only if they share an alias slot, or are    *)
(* the two layers of a history that has one.                               *)
LEMMA ObjectsApart ==
  ASSUME Rec \in Recordings, Known(Rec), Legal(Rec), GraphOf(Rec, graph), graph.ok,
         NEW E, transient \in Seq(E), NEW entries,
         \A x \in LivePooled : entries[Rec.nodes[x].name] \in Entry,
         NEW m \in LiveNodes, NEW n \in LiveNodes,
         ObjectOf(m, Requests, Claims(Requests), entries) = ObjectOf(n, Requests, Claims(Requests), entries)
  PROVE  \/ m = n
         \/ SlotMates(m, n)
         \/ /\ Rec.nodes[m].life = "history" /\ entries[Rec.nodes[m].name].layers = 1
            /\ Rec.nodes[n].life = "history" /\ entries[Rec.nodes[n].name].layers = 1
<1> DEFINE At(x) == CHOOSE k \in DOMAIN Requests : x \in Requests[k].members
<1>1. m \in DOMAIN Rec.nodes /\ n \in DOMAIN Rec.nodes
      /\ Rec.nodes[m] \in NodeType /\ Rec.nodes[n] \in NodeType
  BY RecordingShape DEF LiveNodes
<1> DEFINE o(x) == ObjectOf(x, Requests, Claims(Requests), entries)
<1>2. ASSUME NEW x \in DOMAIN Rec.nodes
      PROVE  /\ Rec.nodes[x].life = "imported" => o(x)[1] = "imported" /\ o(x)[3] = x
             /\ Rec.nodes[x].life # "imported" /\ Pooled(Rec.nodes[x]) =>
                  /\ o(x)[1] = "pooled" /\ o(x)[2] = Rec.nodes[x].name
                  /\ o(x)[3] = Slot(entries[Rec.nodes[x].name], Rec.nodes[x].layer)
             /\ Rec.nodes[x].life # "imported" /\ ~Pooled(Rec.nodes[x]) =>
                  o(x)[1] = "transient" /\ o(x)[3] = ObjectClaimed(Claims(Requests), At(x))
  BY DEF ObjectOf
<1>o. o(m) = o(n)
  OBVIOUS
<1> HIDE DEF o
<1>3. CASE Rec.nodes[m].life = "imported"
  <2>1. o(m)[1] = "imported" /\ o(m)[3] = m
    BY <1>1, <1>2, <1>3
  <2>2. Rec.nodes[n].life = "imported"
    BY <1>1, <1>2, <1>o, <2>1
  <2>3. o(n)[3] = n
    BY <1>1, <1>2, <2>2
  <2>4. QED BY <1>o, <2>1, <2>3
<1>4. CASE Rec.nodes[m].life # "imported" /\ Pooled(Rec.nodes[m])
  <2>1. /\ Rec.nodes[n].life # "imported" /\ Pooled(Rec.nodes[n])
        /\ Rec.nodes[m].name = Rec.nodes[n].name
        /\ Slot(entries[Rec.nodes[m].name], Rec.nodes[m].layer)
             = Slot(entries[Rec.nodes[n].name], Rec.nodes[n].layer)
    <3>1. /\ o(m)[1] = "pooled" /\ o(m)[2] = Rec.nodes[m].name
          /\ o(m)[3] = Slot(entries[Rec.nodes[m].name], Rec.nodes[m].layer)
      BY <1>1, <1>2, <1>4
    <3>2. Rec.nodes[n].life # "imported" /\ Pooled(Rec.nodes[n])
      BY <1>1, <1>2, <1>o, <3>1
    <3>3. /\ o(n)[2] = Rec.nodes[n].name
          /\ o(n)[3] = Slot(entries[Rec.nodes[n].name], Rec.nodes[n].layer)
      BY <1>1, <1>2, <3>2
    <3>4. QED BY <1>o, <3>1, <3>2, <3>3
  <2>2. SUFFICES ASSUME m # n
                 PROVE  /\ Rec.nodes[m].life = "history" /\ entries[Rec.nodes[m].name].layers = 1
                        /\ Rec.nodes[n].life = "history" /\ entries[Rec.nodes[n].name].layers = 1
    OBVIOUS
  <2>3. /\ Rec.nodes[m].life = "history" /\ Rec.nodes[n].life = "history"
        /\ {Rec.nodes[m].layer, Rec.nodes[n].layer} = {0, 1}
    BY <1>1, <2>1, <2>2, SameName
  <2> DEFINE e == entries[Rec.nodes[m].name]
  <2>4. e \in Entry
    BY <1>4 DEF LivePooled
  <2> HIDE DEF e
  <2>5. Slot(e, 0) = Slot(e, 1)
    BY <2>1, <2>3 DEF e
  <2>6. e.layers = 1
    BY <2>4, <2>5, SlotType DEF Entry
  <2>7. QED BY <2>1, <2>3, <2>6 DEF e
<1>5. CASE Rec.nodes[m].life # "imported" /\ ~Pooled(Rec.nodes[m])
  <2>1. /\ Rec.nodes[n].life # "imported" /\ ~Pooled(Rec.nodes[n])
        /\ ObjectClaimed(Claims(Requests), At(m)) = ObjectClaimed(Claims(Requests), At(n))
    <3>1. o(m)[1] = "transient" /\ o(m)[3] = ObjectClaimed(Claims(Requests), At(m))
      BY <1>1, <1>2, <1>5
    <3>2. Rec.nodes[n].life # "imported" /\ ~Pooled(Rec.nodes[n])
      BY <1>1, <1>2, <1>o, <3>1
    <3>3. o(n)[3] = ObjectClaimed(Claims(Requests), At(n))
      BY <1>1, <1>2, <3>2
    <3>4. QED BY <1>o, <3>1, <3>2, <3>3
  <2>2. ASSUME NEW x \in LiveNodes, ~External(Rec.nodes[x])
        PROVE  At(x) \in DOMAIN Requests /\ x \in Requests[At(x)].members
    <3>1. \E k \in DOMAIN Requests : x \in Requests[k].members
      BY <2>2, RequestsAre
    <3>2. QED BY <3>1 DEF At
  <2>3. ~External(Rec.nodes[m]) /\ ~External(Rec.nodes[n])
    BY <1>5, <2>1 DEF External
  <2> DEFINE i == At(m)
             j == At(n)
             T == Proper
  <2>4. /\ i \in DOMAIN Requests /\ m \in Requests[i].members
        /\ j \in DOMAIN Requests /\ n \in Requests[j].members
    BY <2>2, <2>3
  <2>5. ObjectClaimed(Claims(Requests), i) = ObjectClaimed(Claims(Requests), j)
    BY <2>1
  <2>6. Requests \in Seq(T)
    BY RequestsAre
  <2> HIDE DEF i, j, T
  <2>7. /\ DOMAIN Requests = 1..Len(Requests) /\ Len(Requests) \in Nat
        /\ \A k \in DOMAIN Requests : Requests[k] \in T
    BY <2>6, SeqFacts
  <2>8. i = j
    <3>1. ~(i < j) /\ ~(j < i)
      BY <2>4, <2>5, <2>6, ObjectsDiffer
    <3>2. QED BY <2>4, <2>7, <3>1
  <2>9. Requests[i] \in Proper /\ m \in Requests[i].members /\ n \in Requests[i].members
    BY <2>4, <2>7, <2>8 DEF T
  <2>10. QED BY <2>9 DEF Proper
<1>6. QED BY <1>3, <1>4, <1>5

-----------------------------------------------------------------------------
(* What execute() leaves in run, once the passes have run.                 *)
BoundApart ==
  \A m, n \in DOMAIN run.bound :
    run.bound[m] = run.bound[n] => m = n \/ SlotMates(m, n) \/ (OneObject(m) /\ OneObject(n))

RunInv ==
  \/ run = NoRun
  \/ graph.ok /\ DOMAIN run.bound = LiveNodes /\ BoundApart

LEMMA MatesApart ==
  ASSUME Rec \in Recordings, GraphOf(Rec, graph), graph.ok, NEW m, NEW n, SlotMates(m, n)
  PROVE  /\ m \in Aliasable(Rec, graph.order) /\ n \in Aliasable(Rec, graph.order)
         /\ m # n => Apart(Rec, graph.order, m, n)
<1>1. SlotsSound(Rec, graph.order, graph.slots, Aliasable(Rec, graph.order))
  BY SlotsAreSeq
<1>2. PICK i \in DOMAIN graph.slots : m \in graph.slots[i].members /\ n \in graph.slots[i].members
  BY DEF SlotMates
<1>3. QED BY <1>1, <1>2 DEF SlotsSound

LEMMA NotTwice ==
  ASSUME Rec \in Recordings, GraphOf(Rec, graph), RunInv
  PROVE  NoObjectTwiceInAPass
<1>1. SUFFICES ASSUME NEW p \in ToSet(graph.order), NEW m \in DOMAIN run.bound, NEW n \in DOMAIN run.bound,
                      Uses(Rec, p, m), Uses(Rec, p, n), run.bound[m] = run.bound[n],
                      m # n, ~OneObject(m)
               PROVE  FALSE
  BY DEF NoObjectTwiceInAPass
<1>2. graph.ok /\ BoundApart
  BY <1>1 DEF RunInv, NoRun
<1>3. SlotMates(m, n)
  BY <1>1, <1>2 DEF BoundApart
<1>4. m \in Aliasable(Rec, graph.order) /\ n \in Aliasable(Rec, graph.order) /\ Apart(Rec, graph.order, m, n)
  BY <1>1, <1>2, <1>3, MatesApart
<1>5. PICK k \in DOMAIN graph.order : graph.order[k] = p
  BY DEF ToSet
<1>6. k \in UsedAt(Rec, graph.order, m) /\ k \in UsedAt(Rec, graph.order, n)
  BY <1>1, <1>5 DEF UsedAt
<1>7. graph.order \in Seq(DOMAIN Rec.passes)
  BY <1>2, SlotsAreSeq
<1>8. DOMAIN graph.order \subseteq Nat
  BY <1>7, SeqFacts
<1>9. ASSUME NEW x, k \in UsedAt(Rec, graph.order, x)
      PROVE  /\ FirstUse(Rec, graph.order, x) <= k /\ k <= LastUse(Rec, graph.order, x)
             /\ FirstUse(Rec, graph.order, x) \in Nat /\ LastUse(Rec, graph.order, x) \in Nat
  BY <1>7, <1>8, <1>9, UsedWithin DEF UsedAt
<1>10. QED BY <1>4, <1>6, <1>8, <1>9 DEF Apart

LEMMA ReadsSee ==
  ASSUME Rec \in Recordings, GraphOf(Rec, graph), RunInv
  PROVE  ReadsSeeTheirWriters
<1>1. SUFFICES ASSUME NEW k \in DOMAIN graph.order, NEW n \in DOMAIN run.bound,
                      ReadsFirst(Rec, graph.order[k], n), ~OneObject(n)
               PROVE  FoundIn(run.bound, n, k) = Written(n, graph.order[k])
  BY DEF ReadsSeeTheirWriters
<1>2. graph.ok /\ BoundApart
  BY <1>1 DEF RunInv, NoRun
<1>3. OrderSound(Rec, graph.skip, graph.order) /\ graph.order \in Seq(DOMAIN Rec.passes)
  BY <1>2, SlotsAreSeq
<1>4. graph.order[k] \in DOMAIN Rec.passes
  BY <1>3, SeqFacts
<1> DEFINE nodes == {m \in DOMAIN run.bound : run.bound[m] = run.bound[n]}
<1>5. PICK f : Memory(f, k, nodes) /\ FoundIn(run.bound, n, k) = f[k - 1]
  BY <1>3, FoundSteps
<1>6. PICK own : Memory(own, k, {n})
  BY <1>3, MemoryExists
<1>7. PICK past : Past(past, n, graph.order[k]) /\ Written(n, graph.order[k]) = past[graph.order[k] - 1]
  BY <1>4, WrittenSteps
<1>v. ReadsFirst(Rec, graph.order[k], n) /\ OrderSound(Rec, graph.skip, graph.order)
  BY <1>1, <1>3
<1>8. FoundIs(own, past, k)
  BY <1>v, <1>6, <1>7, OwnObject
<1>9. n \in nodes /\ \A m \in nodes : m = n \/ SlotMates(m, n)
  BY <1>1, <1>2 DEF BoundApart
<1> HIDE DEF nodes
<1>10. f[k - 1] = own[k - 1]
  <2>1. CASE nodes = {n}
    <3>1. \A m \in {n} : UsedAt(Rec, graph.order, m) # {}
      BY <1>1 DEF ReadsFirst, UsedAt
    <3>2. Memory(f, k, {n})
      BY <1>5, <2>1
    <3>3. FoundIs(f, past, k)
      BY <1>v, <1>7, <3>2, OwnObject
    <3>4. QED BY <1>8, <3>3 DEF FoundIs
  <2>2. CASE nodes # {n}
    <3>1. PICK x \in nodes : SlotMates(x, n)
      BY <1>9, <2>2
    <3>2. n \in Aliasable(Rec, graph.order)
      BY <1>2, <3>1, MatesApart
    <3>3. Defines(Rec, Head(LiveAccesses(Rec, graph.order, n)))
      BY <3>2 DEF Aliasable
    <3>4. \A m \in nodes : /\ UsedAt(Rec, graph.order, m) # {}
                           /\ m # n => Apart(Rec, graph.order, m, n)
      <4>1. \A m \in nodes : m \in Aliasable(Rec, graph.order) /\ (m # n => Apart(Rec, graph.order, m, n))
        BY <1>2, <1>9, <3>2, MatesApart
      <4>2. QED BY <4>1 DEF Aliasable
    <3>5. QED BY <1>1, <1>3, <1>5, <1>6, <1>9, <3>3, <3>4, SharedObject
  <2>3. QED BY <2>1, <2>2
<1>11. QED BY <1>5, <1>7, <1>8, <1>10 DEF FoundIs

-----------------------------------------------------------------------------
(* What realize_graph passes to the persistent pool.                       *)
LEMMA UsesType ==
  ASSUME Rec \in Recordings, Known(Rec), graph.order \in Seq(DOMAIN Rec.passes)
  PROVE  DOMAIN PoolUses \subseteq Names /\ PoolUses \in [DOMAIN PoolUses -> Use]
<1>1. /\ Len(Rec.nodes) \in Nat /\ DOMAIN Rec.nodes = 1..Len(Rec.nodes)
      /\ \A n \in DOMAIN Rec.nodes : Rec.nodes[n] \in NodeType
  BY RecordingShape
<1>2. LivePooled \subseteq DOMAIN Rec.nodes
  BY DEF LivePooled, LiveNodes
<1>3. ASSUME NEW n \in LivePooled PROVE UseOf(Rec.nodes[n].name) \in Use
  <2> DEFINE S == NodesOf(Rec.nodes[n].name)
             m == Min(S)
  <2>1. n \in S /\ S \subseteq DOMAIN Rec.nodes
    BY <1>2 DEF NodesOf
  <2>2. S \subseteq Nat
    BY <1>1, <2>1
  <2> HIDE DEF S
  <2>3. m \in S
    BY <2>1, <2>2, MinIs
  <2>4. Rec.nodes[m] \in NodeType /\ m \in DOMAIN Rec.nodes
    BY <1>1, <2>1, <2>3
  <2>5. SigOf(Rec, m) \in Sigs
    BY <2>4 DEF Known
  <2>6. \A x \in S : NodeUsage(Rec, graph.order, x) \subseteq Bits
    BY UsageType, ToSetType DEF NodeUsage
  <2> HIDE DEF m
  <2>7. UNION {NodeUsage(Rec, graph.order, x) : x \in S} \in SUBSET Bits
    BY <2>6
  <2>8. UseOf(Rec.nodes[n].name) =
          [kind |-> Rec.nodes[m].kind,
           layers |-> IF Rec.nodes[m].life = "history" THEN 2 ELSE 1,
           hash |-> Rec.nodes[m].hash,
           sig |-> SigOf(Rec, m),
           usage |-> UNION {NodeUsage(Rec, graph.order, x) : x \in S}]
    BY DEF UseOf, m, S
  <2>9. QED BY <2>4, <2>5, <2>7, <2>8 DEF Use, NodeType
<1>4. \A n \in LivePooled : Rec.nodes[n].name \in Names
  BY <1>1, <1>2 DEF NodeType
<1>5. PoolUses = [name \in {Rec.nodes[n].name : n \in LivePooled} |-> UseOf(name)]
  BY DEF PoolUses
<1>6. QED BY <1>3, <1>4, <1>5

(* The use of a resource with one layer is that of its node.               *)
LEMMA PersistentUse ==
  ASSUME Rec \in Recordings, Legal(Rec), graph.order \in Seq(DOMAIN Rec.passes),
         NEW n \in LiveNodes, Rec.nodes[n].life = "persistent"
  PROVE  /\ Rec.nodes[n].name \in DOMAIN PoolUses
         /\ PoolUses[Rec.nodes[n].name] =
              [kind |-> Rec.nodes[n].kind, layers |-> 1, hash |-> Rec.nodes[n].hash,
               sig |-> SigOf(Rec, n), usage |-> NodeUsage(Rec, graph.order, n)]
<1>1. n \in LivePooled /\ n \in DOMAIN Rec.nodes /\ LivePooled \subseteq DOMAIN Rec.nodes
  BY DEF LivePooled, LiveNodes, Pooled
<1>2. NodesOf(Rec.nodes[n].name) = {n}
  <2>1. ASSUME NEW m \in LivePooled, Rec.nodes[m].name = Rec.nodes[n].name PROVE m = n
    BY <1>1, <2>1, SameName
  <2>2. QED BY <1>1, <2>1 DEF NodesOf
<1>3. Min({n}) = n
  <2> DEFINE S == {n}
  <2>1. S \subseteq Nat /\ S # {} /\ \A k \in S : k = n
    BY <1>1, RecordingShape
  <2> HIDE DEF S
  <2>2. Min(S) \in S
    BY <2>1, MinIs
  <2>3. QED BY <2>1, <2>2 DEF S
<1>4. UNION {NodeUsage(Rec, graph.order, m) : m \in {n}} = NodeUsage(Rec, graph.order, n)
  OBVIOUS
<1>5. UseOf(Rec.nodes[n].name) =
        [kind |-> Rec.nodes[n].kind, layers |-> 1, hash |-> Rec.nodes[n].hash,
         sig |-> SigOf(Rec, n), usage |-> NodeUsage(Rec, graph.order, n)]
  BY <1>2, <1>3, <1>4 DEF UseOf
<1>6. QED BY <1>1, <1>5 DEF PoolUses

LEMMA BakesType ==
  ASSUME Rec \in Recordings, graph.order \in Seq(DOMAIN Rec.passes)
  PROVE  [n \in BakedNames |-> LastBake(n)] \in [BakedNames -> Hashes]
<1>1. SUFFICES ASSUME NEW name \in BakedNames PROVE LastBake(name) \in Hashes
  OBVIOUS
<1> DEFINE at == {k \in DOMAIN graph.order :
                    \E t \in Rec.passes[graph.order[k]].init : Rec.nodes[t.n].name = name}
           p == graph.order[Max(at)]
<1>2. /\ Len(graph.order) \in Nat /\ DOMAIN graph.order = 1..Len(graph.order)
      /\ \A k \in DOMAIN graph.order : graph.order[k] \in DOMAIN Rec.passes
  BY SeqFacts
<1>3. at # {}
  <2>1. PICK q \in ToSet(graph.order) : \E t \in Rec.passes[q].init : Rec.nodes[t.n].name = name
    BY DEF BakedNames
  <2>2. PICK k \in DOMAIN graph.order : graph.order[k] = q
    BY DEF ToSet
  <2>3. QED BY <2>1, <2>2
<1>4. at \subseteq 0..Len(graph.order)
  BY <1>2
<1>5. Max(at) \in at
  <2> HIDE DEF at
  <2>1. QED BY <1>2, <1>3, <1>4, MaxIs
<1>6. p \in DOMAIN Rec.passes /\ \E t \in Rec.passes[p].init : Rec.nodes[t.n].name = name
  BY <1>2, <1>5
<1>7. LastBake(name) = (CHOOSE t \in Rec.passes[p].init : Rec.nodes[t.n].name = name).hash
  BY DEF LastBake
<1> HIDE DEF p, at
<1>8. (CHOOSE t \in Rec.passes[p].init : Rec.nodes[t.n].name = name) \in Rec.passes[p].init
  BY <1>6
<1>9. Rec.passes[p].init \subseteq [n : Nat, hash : Hashes]
  BY <1>6, RecordingShape DEF PassType
<1>10. QED BY <1>7, <1>8, <1>9

-----------------------------------------------------------------------------
(* An entry for which the last realize succeeded has objects made for all  *)
(* that it is used for.                                                    *)
Made(e) == e.usage[e.kind] \subseteq e.atCreate[e.kind]

UsageMade == \A n \in DOMAIN pool \ refused : Made(pool[n])

LEMMA RealizedMade ==
  ASSUME NEW e \in Entry, NEW use \in Use
  PROVE  LET r == Realized(e, use) IN
         /\ r.kind = e.kind
         /\ r.usage[use.kind] \subseteq r.atCreate[use.kind]
         /\ Made(e) /\ use.kind # e.kind => Made(r)
<1>1. use.kind \in Kinds /\ e.kind \in Kinds /\ DOMAIN e.usage = Kinds /\ DOMAIN e.atCreate = Kinds
  BY DEF Use, Entry
<1>2. CASE ~WouldRecreate(e, use.kind, use.sig, e.usage[use.kind])
  BY <1>2 DEF Realized, WouldRecreate
<1>3. CASE WouldRecreate(e, use.kind, use.sig, e.usage[use.kind])
  <2> DEFINE r == Realized(e, use)
  <2>1. /\ r.kind = e.kind /\ r.usage = e.usage
        /\ r.atCreate = [e.atCreate EXCEPT ![use.kind] = e.usage[use.kind]]
    BY <1>3 DEF Realized, Destroyed, Entry
  <2> HIDE DEF r
  <2>2. QED BY <1>1, <2>1 DEF Made, r
<1>4. QED BY <1>2, <1>3

LEMMA EncodedKeeps ==
  ASSUME NEW e \in Entry, NEW n, NEW bakes, NEW written
  PROVE  LET r == Encoded(e, n, bakes, written) IN
         r.kind = e.kind /\ r.usage = e.usage /\ r.atCreate = e.atCreate
BY DEF Encoded, WithContent, Stamped, Entry

LEMMA TouchedKind ==
  ASSUME NEW e \in Entry, NEW use \in Use, Touched(e, use).kind # use.kind
  PROVE  Touched(e, use) = e
BY DEF Touched, Rehashed, Turned, Kept, Destroyed, Entry

LEMMA WidenedKeeps ==
  ASSUME NEW e \in Entry, NEW use \in Use
  PROVE  LET w == Widened(e, use) IN
         /\ w.kind = e.kind
         /\ Made(e) /\ use.kind # e.kind => Made(w)
<1>1. use.kind \in Kinds /\ e.kind \in Kinds /\ DOMAIN e.usage = Kinds
  BY DEF Use, Entry
<1>2. LET w == Widened(e, use) IN
      /\ w.kind = e.kind /\ w.atCreate = e.atCreate
      /\ w.usage = [e.usage EXCEPT ![use.kind] = @ \cup use.usage]
  BY DEF Widened, Entry
<1>3. QED BY <1>1, <1>2 DEF Made

(* A graph that runs to its end has realized all that it uses.             *)
Opened(uses, n) == IF n \in DOMAIN pool THEN Touched(pool[n], uses[n]) ELSE NewEntry(uses[n])

EntryRealized(uses, n, bakes, written) ==
  LET w == Widened(Opened(uses, n), uses[n]) IN
  /\ Opened(uses, n) \in Entry /\ w \in Entry /\ Realized(w, uses[n]) \in Entry
  /\ pool'[n] = Encoded(Realized(w, uses[n]), n, bakes, written)

LEMMA ExecutedEntry ==
  ASSUME PoolInv, NEW N, NEW uses \in [N -> Use], NEW bakes, NEW written,
         PoolExecute(uses, N, bakes, written)
  PROVE  /\ DOMAIN pool' = DOMAIN pool \cup N
         /\ \A n \in N : EntryRealized(uses, n, bakes, written)
         /\ \A n \in DOMAIN pool \ N : pool'[n] = pool[n]
<1>1. /\ DOMAIN uses = N /\ \A n \in N : uses[n] \in Use
      /\ DOMAIN bakes \cup written \subseteq N
      /\ pool' = [n \in DOMAIN pool \cup N |-> Encoded(RealizedAll(uses, N)[n], n, bakes, written)]
  BY DEF PoolExecute
<1>2. \A n \in DOMAIN pool \cup N :
        TouchedAll(uses)[n] = IF n \notin N THEN pool[n] ELSE Widened(Opened(uses, n), uses[n])
  BY <1>1 DEF TouchedAll, Opened
<1>3. \A n \in DOMAIN pool \cup N :
        RealizedAll(uses, N)[n] = IF n \in N THEN Realized(TouchedAll(uses)[n], uses[n]) ELSE TouchedAll(uses)[n]
  BY <1>1 DEF RealizedAll
<1>4. ASSUME NEW n \in N
      PROVE  /\ Opened(uses, n) \in Entry
             /\ Widened(Opened(uses, n), uses[n]) \in Entry
             /\ Realized(Widened(Opened(uses, n), uses[n]), uses[n]) \in Entry
  <2> DEFINE x == Opened(uses, n)
             w == Widened(x, uses[n])
  <2>1. Sound(n, x, shown) /\ x.idle = 0
    <3>1. CASE n \in DOMAIN pool
      <4>1. Sound(n, pool[n], shown)
        BY <3>1 DEF PoolInv
      <4>2. QED BY <1>1, <3>1, <4>1, TouchedSound DEF Opened
    <3>2. CASE n \notin DOMAIN pool
      <4>1. n \notin DOMAIN shown
        BY <3>2 DEF PoolInv
      <4>2. QED BY <1>1, <3>2, <4>1, NewSound DEF Opened
    <3>3. QED BY <3>1, <3>2
  <2> HIDE DEF x
  <2>2. Sound(n, w, shown) /\ w.idle = 0
    BY <1>1, <2>1, WidenedSound
  <2> HIDE DEF w
  <2>3. Sound(n, Realized(w, uses[n]), shown)
    BY <1>1, <2>2, RealizedSound
  <2>4. QED BY <2>1, <2>2, <2>3 DEF Sound, x, w
<1>5. \A n \in DOMAIN pool \ N : pool'[n] = pool[n]
  <2>1. SUFFICES ASSUME NEW n \in DOMAIN pool \ N PROVE pool'[n] = pool[n]
    OBVIOUS
  <2>2. RealizedAll(uses, N)[n] = pool[n]
    BY <1>2, <1>3
  <2>3. pool'[n] = Encoded(pool[n], n, bakes, written)
    BY <1>1, <2>2
  <2>4. n \notin DOMAIN bakes \cup written
    BY <1>1
  <2>5. QED BY <2>3, <2>4 DEF Encoded
<1>6. \A n \in N : pool'[n] = Encoded(Realized(Widened(Opened(uses, n), uses[n]), uses[n]), n, bakes, written)
  <2>1. SUFFICES ASSUME NEW n \in N
                 PROVE  pool'[n] = Encoded(Realized(Widened(Opened(uses, n), uses[n]), uses[n]), n, bakes, written)
    OBVIOUS
  <2>2. RealizedAll(uses, N)[n] = Realized(Widened(Opened(uses, n), uses[n]), uses[n])
    BY <1>2, <1>3
  <2>3. QED BY <1>1, <2>2
<1>7. QED BY <1>1, <1>4, <1>5, <1>6 DEF EntryRealized

LEMMA ExecutedMade ==
  ASSUME PoolInv, UsageMade, NEW N, NEW uses \in [N -> Use], NEW bakes, NEW written,
         PoolExecute(uses, N, bakes, written),
         refused' = refused \ {n \in N : pool'[n].kind = uses[n].kind}
  PROVE  UsageMade'
<1>1. SUFFICES ASSUME NEW n \in DOMAIN pool', n \notin refused' PROVE Made(pool'[n])
  BY DEF UsageMade, Made
<1>2. CASE n \in N
  <2> DEFINE x == Opened(uses, n)
             w == Widened(x, uses[n])
             r == Realized(w, uses[n])
  <2>1. x \in Entry /\ w \in Entry /\ r \in Entry /\ pool'[n] = Encoded(r, n, bakes, written)
    <3>1. EntryRealized(uses, n, bakes, written)
      BY <1>2, ExecutedEntry
    <3>2. QED BY <3>1 DEF EntryRealized
  <2>2. uses[n] \in Use
    BY <1>2
  <2>3. w.kind = x.kind /\ (Made(x) /\ uses[n].kind # x.kind => Made(w))
    BY <2>1, <2>2, WidenedKeeps
  <2>4. x.kind # uses[n].kind => n \in DOMAIN pool /\ x = pool[n]
    <3>1. CASE n \in DOMAIN pool
      <4>1. pool[n] \in Entry
        BY <3>1 DEF PoolInv, Sound
      <4>2. QED BY <2>2, <3>1, <4>1, TouchedKind DEF Opened
    <3>2. CASE n \notin DOMAIN pool
      BY <3>2 DEF Opened, NewEntry
    <3>3. QED BY <3>1, <3>2
  <2> HIDE DEF x, w
  <2>5. /\ r.kind = w.kind /\ r.usage[uses[n].kind] \subseteq r.atCreate[uses[n].kind]
        /\ Made(w) /\ uses[n].kind # w.kind => Made(r)
    BY <2>1, <2>2, RealizedMade
  <2> HIDE DEF r
  <2>6. pool'[n].kind = r.kind /\ pool'[n].usage = r.usage /\ pool'[n].atCreate = r.atCreate
    BY <2>1, EncodedKeeps
  <2>7. Made(r)
    <3>1. CASE r.kind = uses[n].kind
      BY <2>5, <3>1 DEF Made
    <3>2. CASE r.kind # uses[n].kind
      <4>1. x.kind # uses[n].kind
        BY <2>3, <2>5, <3>2
      <4>2. n \in DOMAIN pool /\ x = pool[n] /\ n \notin refused
        BY <1>1, <2>4, <2>6, <3>2, <4>1
      <4>3. Made(x)
        BY <4>2 DEF UsageMade
      <4>4. QED BY <2>3, <2>5, <4>1, <4>3
    <3>3. QED BY <3>1, <3>2
  <2>8. QED BY <2>6, <2>7 DEF Made
<1>3. CASE n \notin N
  <2>1. n \in DOMAIN pool /\ pool'[n] = pool[n]
    BY <1>1, <1>3, ExecutedEntry
  <2>2. n \notin refused
    BY <1>1, <1>3
  <2>3. QED BY <2>1, <2>2 DEF UsageMade
<1>4. QED BY <1>2, <1>3

(* An entry that keeps its kind and layers, and that realize would not     *)
(* create anew, keeps its bake unless another is made.                     *)
LEMMA BakeKept ==
  ASSUME NEW e \in Entry, NEW use \in Use, e.created, Made(e), e.kind = use.kind,
         e.layers = 1, use.layers = 1, e.sig[use.kind] = use.sig,
         use.usage \subseteq e.atCreate[use.kind], ~HashForcesDestroy(e, use.hash),
         Touched(e, use) \in Entry, Widened(Touched(e, use), use) \in Entry,
         NEW n, NEW bakes, n \notin DOMAIN bakes, NEW written
  PROVE  Encoded(Realized(Widened(Touched(e, use), use), use), n, bakes, written).content[0].bake
           = e.content[0].bake
<1> DEFINE t == Touched(e, use)
           w == Widened(t, use)
<1>1. /\ use.kind \in Kinds /\ e.content \in [0..1 -> Content] /\ DOMAIN e.usage = Kinds
  BY DEF Use, Entry
<1>2. /\ t.created /\ t.content = e.content /\ t.usage = e.usage /\ t.atCreate = e.atCreate
      /\ t.sig = e.sig /\ t.layers = 1
  <2>1. CASE e.idle = 0
    BY <2>1 DEF Touched, Entry
  <2>2. CASE e.idle # 0
    <3>1. Kept(e, use) = e
      BY DEF Kept
    <3> DEFINE u == Turned(e, use)
    <3>2. u = [e EXCEPT !.recent = (e.idle = 1), !.turn = 1 - @, !.idle = 0,
                        !.layers = use.layers, !.kind = use.kind]
      BY DEF Turned
    <3>3. u.historyHash = e.historyHash
      BY <3>2 DEF Entry
    <3>4. t = u
      BY <2>2, <3>1, <3>3 DEF Touched, Rehashed, HashForcesDestroy
    <3>5. QED BY <3>2, <3>4 DEF Entry
  <2>3. QED BY <2>1, <2>2
<1>3. t \in Entry /\ w \in Entry
  OBVIOUS
<1> HIDE DEF t
<1>4. /\ w.created /\ w.content = e.content /\ w.atCreate = e.atCreate /\ w.sig = e.sig /\ w.layers = 1
      /\ w.usage = [e.usage EXCEPT ![use.kind] = @ \cup use.usage] /\ w \in Entry
  BY <1>2, <1>3 DEF Widened, Entry
<1> HIDE DEF w
<1>5. w.usage[use.kind] \subseteq w.atCreate[use.kind]
  BY <1>1, <1>4 DEF Made
<1>6. Realized(w, use) = w
  BY <1>4, <1>5 DEF Realized, WouldRecreate
<1>7. Slot(w, 0) = 0
  BY <1>4 DEF Slot
<1>8. CASE n \in written
  <2>1. Encoded(w, n, bakes, written) = WithContent(w, [w.content[0] EXCEPT !.age = 0])
    BY <1>7, <1>8 DEF Encoded
  <2>2. [w.content[0] EXCEPT !.age = 0].bake = e.content[0].bake
    BY <1>1, <1>4 DEF Content
  <2>3. WithContent(w, [w.content[0] EXCEPT !.age = 0]).content[0] = [w.content[0] EXCEPT !.age = 0]
    BY <1>1, <1>4, <1>7 DEF WithContent, Entry
  <2>4. QED BY <1>6, <2>1, <2>2, <2>3 DEF w, t
<1>9. CASE n \notin written
  BY <1>4, <1>6, <1>9 DEF Encoded, w, t
<1>10. QED BY <1>8, <1>9

-----------------------------------------------------------------------------
(* What is inductive about the loop.                                       *)
LoopInv ==
  /\ session \in Sessions /\ playing \in DOMAIN session.recs
  /\ phase \in {"frame", "compiled", "executed"}
  /\ graphs \in 0..session.graphs
  /\ refused \subseteq Names
  /\ GraphOf(Rec, graph)
  /\ phase = "compiled" /\ graph.ok => graph.skip = Skipped(Rec)
  /\ phase # "executed" => run = NoRun
  /\ RunInv
  /\ BakeIsThere
  /\ PoolInv /\ UsageMade
  /\ transient \in Seq(TransientEntry)
  /\ ProfilerInv

LEMMA NoRunHolds ==
  ASSUME run = NoRun
  PROVE  RunInv /\ BakeIsThere
BY DEF RunInv, BakeIsThere, NoRun

LEMMA RunGone ==
  ASSUME run' = NoRun
  PROVE  RunInv' /\ BakeIsThere'
<1>1. RunInv'
  BY DEF RunInv, NoRun
<1>2. DOMAIN run'.bound = {}
  BY DEF NoRun
<1>3. BakeIsThere'
  BY <1>2 DEF BakeIsThere
<1>4. QED BY <1>1, <1>3

LEMMA LoopInit == Init => LoopInv
<1>1. SUFFICES ASSUME Init PROVE LoopInv
  OBVIOUS
<1>2. session \in Sessions /\ session.graphs \in Nat /\ 1 \in DOMAIN session.recs
  <2>1. session \in Sessions
    BY <1>1 DEF Init
  <2>2. session.recs \in Seq(Recordings) /\ session.graphs \in Nat /\ session.recs # <<>>
    BY <2>1, SessionsAreLegal
  <2>3. 1 \in DOMAIN session.recs
    BY <2>2
  <2>4. QED BY <2>1, <2>2, <2>3
<1>3. PoolInv /\ UsageMade
  BY <1>1 DEF Init, PoolInit, PoolInv, UsageMade
<1>4. transient \in Seq(TransientEntry)
  BY <1>1 DEF Init, TransientInit
<1>5. ProfilerInv
  BY <1>1, NoSlotType DEF Init, ProfilerInit, ProfilerInv, FillsAccountedFor
<1>6. RunInv /\ BakeIsThere
  BY <1>1, NoRunHolds DEF Init
<1>7. GraphOf(Rec, graph)
  BY <1>1 DEF Init, GraphOf
<1>8. QED BY <1>1, <1>2, <1>3, <1>4, <1>5, <1>6, <1>7 DEF Init, LoopInv

(* What a step that leaves the pools alone leaves true of them.            *)
LEMMA PoolsKept ==
  ASSUME LoopInv, UNCHANGED <<pool_vars, refused>>
  PROVE  PoolInv' /\ UsageMade'
BY DEF LoopInv, pool_vars, PoolInv, Sound, Sane, Carried, UsageMade, Made

LEMMA ProfilerKept ==
  ASSUME LoopInv, [ProfilerNext]_profiler_vars
  PROVE  ProfilerInv'
BY ProfilerStep DEF LoopInv

(* What depends on the graph and its run.                                  *)
LEMMA GraphKept ==
  ASSUME GraphOf(Rec, graph), UNCHANGED <<session, playing, graph>>
  PROVE  GraphOf(Rec, graph)' /\ Rec' = Rec
<1>1. Rec' = Rec
  BY DEF Rec
<1>2. QED BY <1>1

LEMMA RunKept ==
  ASSUME RunInv, BakeIsThere, UNCHANGED <<session, playing, graph, run, pool>>
  PROVE  RunInv' /\ BakeIsThere'
<1>1. Rec' = Rec
  BY DEF Rec
<1>2. RunInv'
  <2>1. LiveNodes' = LiveNodes
    BY <1>1 DEF LiveNodes, Live
  <2>2. BoundApart => BoundApart'
    BY <1>1 DEF BoundApart, SlotMates, OneObject
  <2>3. QED BY <2>1, <2>2 DEF RunInv
<1>3. BakedNames' = BakedNames
  BY <1>1 DEF BakedNames
<1>4. BakeIsThere'
  BY <1>1, <1>3 DEF BakeIsThere
<1>5. QED BY <1>2, <1>4

LEMMA CompileStep ==
  ASSUME LoopInv, NEW i \in DOMAIN session.recs, Compile(i)
  PROVE  LoopInv'
<1>1. /\ session' = session /\ session \in Sessions /\ Rec' = session.recs[i] /\ playing' = i
      /\ pool' = pool /\ shown' = shown /\ refused' = refused
      /\ graph' = Compiled(session.recs[i], session.alias)
      /\ phase' = "compiled" /\ run' = NoRun /\ transient' = transient
  BY DEF Compile, LoopInv, Rec, pool_vars
<1>2. session.recs[i] \in Recordings /\ Known(session.recs[i])
  BY <1>1, RecordedLegally
<1>3. GraphOf(session.recs[i], graph') /\ (graph'.ok => graph'.skip = Skipped(session.recs[i]))
  BY <1>1, <1>2, CompiledSound
<1>4. GraphOf(Rec, graph)'
  BY <1>1, <1>3
<1>5. Skipped(Rec)' = Skipped(session.recs[i])
  BY <1>1 DEF Skipped, BakeHolds
<1>6. RunInv' /\ BakeIsThere'
  BY <1>1, RunGone
<1>7. graphs' \in 0..session.graphs
  <2>1. session.graphs \in Nat
    BY <1>1, SessionsAreLegal
  <2>2. QED BY <2>1 DEF LoopInv, Compile
<1>8. PoolInv' /\ UsageMade'
  BY <1>1, PoolsKept DEF pool_vars
<1>9. ProfilerInv'
  BY ProfilerKept DEF Compile
<1>10. QED BY <1>1, <1>3, <1>4, <1>5, <1>6, <1>7, <1>8, <1>9 DEF LoopInv

LEMMA FailedStep ==
  ASSUME LoopInv, ExecuteFailed
  PROVE  LoopInv'
<1>1. /\ UNCHANGED <<session, playing, graphs, graph, refused, run, pool_vars, pool, transient, profiler_vars>>
      /\ phase' = "executed"
  BY DEF ExecuteFailed, pool_vars
<1>2. GraphOf(Rec, graph)' /\ RunInv' /\ BakeIsThere'
  BY <1>1, GraphKept, RunKept DEF LoopInv
<1>3. PoolInv' /\ UsageMade' /\ ProfilerInv'
  BY <1>1, PoolsKept, ProfilerKept
<1>4. QED BY <1>1, <1>2, <1>3 DEF LoopInv

LEMMA RefusedStep ==
  ASSUME LoopInv, ExecuteRefused
  PROVE  LoopInv'
<1> DEFINE uses == PoolUses
           N == DOMAIN PoolUses
           none == <<>>
<1>1. /\ UNCHANGED <<session, playing, graphs, graph, run, transient, profiler_vars>>
      /\ phase' = "executed" /\ phase = "compiled" /\ graph.ok
      /\ refused' = refused \cup N
      /\ PoolExecute(uses, Reached, none, {})
  BY DEF ExecuteRefused
<1>2. Rec \in Recordings /\ Known(Rec) /\ graph.order \in Seq(DOMAIN Rec.passes)
  BY <1>1, RecordedLegally, SlotsAreSeq DEF LoopInv, Rec
<1>3. N \in SUBSET Names /\ uses \in [N -> Use]
  BY <1>2, UsesType
<1>4. none \in [{} -> Hashes]
  OBVIOUS
<1> HIDE DEF uses, N
<1>5. PoolInv'
  BY <1>1, <1>3, <1>4, ExecuteSound DEF LoopInv
<1>6. UsageMade'
  <2>1. SUFFICES ASSUME NEW n \in DOMAIN pool', n \notin refused' PROVE Made(pool'[n])
    BY DEF UsageMade, Made
  <2>2. n \notin N /\ n \notin refused
    BY <1>1, <2>1
  <2>3. n \in DOMAIN pool /\ pool'[n] = Encoded(RealizedAll(uses, Reached)[n], n, none, {}) /\ n \notin Reached
    BY <1>1, <1>3, <2>1, <2>2 DEF PoolExecute
  <2>4. RealizedAll(uses, Reached)[n] = pool[n]
    BY <1>3, <2>2, <2>3 DEF RealizedAll, TouchedAll
  <2>5. pool'[n] = pool[n]
    BY <2>3, <2>4 DEF Encoded
  <2>6. QED BY <2>2, <2>3, <2>5 DEF LoopInv, UsageMade
<1>7. run' = NoRun
  BY <1>1 DEF LoopInv
<1>8. RunInv' /\ BakeIsThere'
  BY <1>7, RunGone
<1>9. GraphOf(Rec, graph)'
  BY <1>1, GraphKept DEF LoopInv
<1>10. ProfilerInv'
  BY <1>1, ProfilerKept
<1>11. QED BY <1>1, <1>3, <1>5, <1>6, <1>7, <1>8, <1>9, <1>10 DEF LoopInv

LEMMA EndFrameStep ==
  ASSUME LoopInv, EndFrame
  PROVE  LoopInv'
<1>1. /\ UNCHANGED <<session, playing, refused, profiler_vars>>
      /\ phase' = "frame" /\ graphs' = 0 /\ graph' = Failed /\ run' = NoRun
      /\ PoolEndFrame /\ TransientEndFrame
  BY DEF EndFrame
<1>2. PoolInv'
  BY <1>1, EndFrameSound DEF LoopInv
<1>3. UsageMade'
  <2>1. SUFFICES ASSUME NEW n \in DOMAIN pool', n \notin refused' PROVE Made(pool'[n])
    BY DEF UsageMade, Made
  <2>2. n \in DOMAIN pool /\ pool'[n] = OneFrameOlder(pool[n]) /\ n \notin refused
    BY <1>1, <2>1 DEF PoolEndFrame
  <2>3. Made(pool[n]) /\ pool[n] \in Entry
    BY <2>2 DEF LoopInv, UsageMade, PoolInv, Sound
  <2>4. QED BY <2>2, <2>3 DEF Made, OneFrameOlder, Entry
<1>4. transient' \in Seq(TransientEntry)
  BY <1>1, TransientKept DEF LoopInv
<1>5. RunInv' /\ BakeIsThere'
  BY <1>1, RunGone
<1>6. GraphOf(Rec, graph)' /\ ~(graph'.ok)
  BY <1>1 DEF GraphOf, Failed
<1>7. ProfilerInv'
  BY <1>1, ProfilerKept
<1>8. graphs' \in 0..session.graphs
  BY <1>1, SessionsAreLegal DEF LoopInv
<1>9. QED BY <1>1, <1>2, <1>3, <1>4, <1>5, <1>6, <1>7, <1>8 DEF LoopInv

LEMMA TimingStep ==
  ASSUME LoopInv, UNCHANGED <<loop_vars, pool_vars, transient>>, [ProfilerNext]_profiler_vars
  PROVE  LoopInv'
<1>1. UNCHANGED <<session, playing, phase, graphs, graph, refused, run, pool, pool_vars, transient>>
  BY DEF loop_vars, pool_vars
<1>2. GraphOf(Rec, graph)' /\ Rec' = Rec /\ RunInv' /\ BakeIsThere'
  BY <1>1, GraphKept, RunKept DEF LoopInv
<1>3. PoolInv' /\ UsageMade' /\ ProfilerInv'
  BY <1>1, PoolsKept, ProfilerKept
<1>4. Skipped(Rec)' = Skipped(Rec)
  BY <1>1, <1>2 DEF Skipped, BakeHolds
<1>5. QED BY <1>1, <1>2, <1>3, <1>4 DEF LoopInv

-----------------------------------------------------------------------------
(* execute() that comes to its end.                                        *)
LEMMA PassesSetting ==
  ASSUME LoopInv, ExecutePasses
  PROVE  /\ graph.ok /\ Rec \in Recordings /\ Legal(Rec) /\ Known(Rec) /\ GraphOf(Rec, graph)
         /\ graph.order \in Seq(DOMAIN Rec.passes) /\ graph.skip = Skipped(Rec)
         /\ DOMAIN PoolUses \in SUBSET Names /\ PoolUses \in [DOMAIN PoolUses -> Use]
         /\ UNCHANGED <<session, playing, graphs, graph, Rec>>
         /\ PoolExecute(PoolUses, DOMAIN PoolUses, [n \in BakedNames |-> LastBake(n)], WrittenNames)
         /\ refused' = refused \ {n \in DOMAIN PoolUses : pool'[n].kind = PoolUses[n].kind}
<1>1. /\ graph.ok /\ GraphOf(Rec, graph) /\ phase = "compiled"
      /\ session' = session /\ playing' = playing /\ graphs' = graphs /\ graph' = graph
      /\ PoolExecute(PoolUses, DOMAIN PoolUses, [n \in BakedNames |-> LastBake(n)], WrittenNames)
      /\ refused' = refused \ {n \in DOMAIN PoolUses : pool'[n].kind = PoolUses[n].kind}
  BY DEF ExecutePasses, LoopInv
<1>2. Rec \in Recordings /\ Legal(Rec) /\ Known(Rec)
  BY RecordedLegally DEF LoopInv, Rec
<1>3. graph.order \in Seq(DOMAIN Rec.passes)
  BY <1>1, <1>2, SlotsAreSeq
<1>4. graph.skip = Skipped(Rec)
  BY <1>1 DEF LoopInv
<1>5. Rec' = Rec
  BY <1>1 DEF Rec
<1>6. DOMAIN PoolUses \subseteq Names /\ PoolUses \in [DOMAIN PoolUses -> Use]
  BY <1>2, <1>3, UsesType
<1>7. QED BY <1>1, <1>2, <1>3, <1>4, <1>5, <1>6

LEMMA PassesPool ==
  ASSUME LoopInv, ExecutePasses
  PROVE  PoolInv' /\ UsageMade' /\ refused' \subseteq Names
<1> DEFINE uses == PoolUses
           N == DOMAIN PoolUses
           B == BakedNames
           bakes == [n \in BakedNames |-> LastBake(n)]
           written == WrittenNames
<1>1. /\ N \in SUBSET Names /\ uses \in [N -> Use] /\ PoolExecute(uses, N, bakes, written)
      /\ refused' = refused \ {n \in N : pool'[n].kind = uses[n].kind}
  BY PassesSetting
<1>2. bakes \in [B -> Hashes]
  BY PassesSetting, BakesType
<1>3. PoolInv /\ UsageMade /\ refused \subseteq Names
  BY DEF LoopInv
<1> HIDE DEF uses, N, B, bakes, written
<1>4. PoolInv'
  BY <1>1, <1>2, <1>3, ExecuteSound
<1>5. UsageMade'
  BY <1>1, <1>3, ExecutedMade
<1>6. QED BY <1>1, <1>3, <1>4, <1>5

LEMMA PassesTransient ==
  ASSUME LoopInv, ExecutePasses
  PROVE  transient' \in Seq(TransientEntry)
<1> DEFINE T == TransientEntry
           V == Proper
           Y == Requested(DOMAIN Rec.nodes)
<1>1. transient \in Seq(T) /\ transient' = Served(Requests, Claims(Requests))
  BY DEF LoopInv, ExecutePasses
<1>2. Requests \in Seq(V)
  BY PassesSetting, RequestsAre
<1>3. V \subseteq Y
  BY DEF Proper
<1> HIDE DEF T, V, Y
<1>4. Requests \in Seq(Y)
  BY <1>2, <1>3, SeqSubset
<1>5. Claims(Requests) \in [DOMAIN Requests -> 0..Len(transient)]
  BY <1>1, <1>4, ClaimsAre
<1>6. Served(Requests, Claims(Requests)) \in Seq(T)
  BY <1>1, <1>4, <1>5, ServedType DEF T, Y
<1>7. QED BY <1>1, <1>6 DEF T

LEMMA PassesRun ==
  ASSUME LoopInv, ExecutePasses
  PROVE  RunInv'
<1>1. /\ run'.bound = [n \in LiveNodes |-> ObjectOf(n, Requests, Claims(Requests), pool')]
      /\ run'.exempt = refused \cup Recast
  BY DEF ExecutePasses
<1>2. graph' = graph /\ Rec' = Rec /\ graph.ok
  BY PassesSetting
<1>3. LiveNodes' = LiveNodes
  BY <1>2 DEF LiveNodes, Live
<1>4. \A x \in LivePooled : pool'[Rec.nodes[x].name] \in Entry
  <2>1. ASSUME NEW x \in LivePooled PROVE Rec.nodes[x].name \in DOMAIN PoolUses
    BY DEF PoolUses
  <2>2. DOMAIN pool' = DOMAIN pool \cup DOMAIN PoolUses
    BY PassesSetting DEF PoolExecute
  <2>3. \A n \in DOMAIN pool' : pool'[n] \in Entry
    BY PassesPool DEF PoolInv, Sound
  <2>4. QED BY <2>1, <2>2, <2>3
<1>5. ASSUME NEW m \in LiveNodes, NEW n \in LiveNodes, run'.bound[m] = run'.bound[n]
      PROVE  m = n \/ SlotMates(m, n) \/ (OneObject(m)' /\ OneObject(n)')
  <2>1. ObjectOf(m, Requests, Claims(Requests), pool') = ObjectOf(n, Requests, Claims(Requests), pool')
    BY <1>1, <1>5
  <2> DEFINE T == TransientEntry
  <2>2. transient \in Seq(T)
    BY DEF LoopInv
  <2> HIDE DEF T
  <2>3. \/ m = n
        \/ SlotMates(m, n)
        \/ /\ Rec.nodes[m].life = "history" /\ pool'[Rec.nodes[m].name].layers = 1
           /\ Rec.nodes[n].life = "history" /\ pool'[Rec.nodes[n].name].layers = 1
    BY <1>4, <2>1, <2>2, PassesSetting, ObjectsApart
  <2>4. QED BY <1>2, <2>3 DEF OneObject
<1>6. SlotMates(1, 1)' = SlotMates(1, 1) /\ \A m, n : (SlotMates(m, n))' <=> SlotMates(m, n)
  BY <1>2 DEF SlotMates
<1>7. DOMAIN run'.bound = LiveNodes
  BY <1>1
<1>8. BoundApart'
  BY <1>5, <1>6, <1>7 DEF BoundApart
<1>9. QED BY <1>2, <1>3, <1>7, <1>8 DEF RunInv

LEMMA PassesBake ==
  ASSUME LoopInv, ExecutePasses
  PROVE  BakeIsThere'
<1>1. /\ graph' = graph /\ Rec' = Rec /\ graph.skip = Skipped(Rec)
      /\ DOMAIN run'.bound = LiveNodes /\ run'.exempt = refused \cup Recast
  BY PassesSetting DEF ExecutePasses
<1>2. BakedNames' = BakedNames
  BY <1>1 DEF BakedNames
<1> DEFINE bakes == [n \in BakedNames |-> LastBake(n)]
<1>3. ASSUME NEW p \in graph.skip, NEW t \in Rec.passes[p].init,
             t.n \in LiveNodes, Rec.nodes[t.n].life = "persistent",
             Rec.nodes[t.n].name \notin refused \cup Recast \cup BakedNames
      PROVE  pool'[Rec.nodes[t.n].name].content[0].bake = t.hash
  <2> DEFINE node == Rec.nodes[t.n]
             name == node.name
             e == pool[name]
             use == PoolUses[name]
             sig == SigOf(Rec, t.n)
  <2>1. BakeHolds(Rec, t)
    BY <1>1, <1>3 DEF Skipped
  <2>2. /\ name \in DOMAIN pool /\ e.created /\ e.baked /\ e.initHash = t.hash
        /\ ~WouldRecreate(e, node.kind, sig, UsageBy(Rec, DOMAIN Rec.passes, t.n))
        /\ ~HashForcesDestroy(e, node.hash)
    BY <2>1 DEF BakeHolds
  <2>3. /\ name \in DOMAIN PoolUses
        /\ use = [kind |-> node.kind, layers |-> 1, hash |-> node.hash,
                  sig |-> sig, usage |-> NodeUsage(Rec, graph.order, t.n)]
    BY <1>3, PassesSetting, PersistentUse
  <2>4. use \in Use /\ e \in Entry /\ Sane(e)
    BY <2>2, <2>3, PassesSetting DEF LoopInv, PoolInv, Sound
  <2>5. e.kind = node.kind /\ e.layers = 1 /\ Made(e)
    <3>1. name \notin Recast /\ name \notin refused
      BY <1>3
    <3>2. e.kind = use.kind /\ e.layers = use.layers
      BY <2>2, <2>3, <3>1 DEF Recast
    <3>3. QED BY <2>2, <2>3, <3>1, <3>2 DEF LoopInv, UsageMade
  <2>6. e.content[0].bake = t.hash
    <3>1. \E layer \in 0..(e.layers - 1) : e.content[layer].bake = e.initHash
      BY <2>2, <2>4 DEF Sane
    <3>2. \A layer \in 0..(e.layers - 1) : layer = 0
      BY <2>5
    <3>3. QED BY <2>2, <3>1, <3>2
  <2>7. e.sig[node.kind] = sig /\ UsageBy(Rec, DOMAIN Rec.passes, t.n) \subseteq e.atCreate[node.kind]
    BY <2>2 DEF WouldRecreate
  <2>8. NodeUsage(Rec, graph.order, t.n) \subseteq UsageBy(Rec, DOMAIN Rec.passes, t.n)
    <3>1. ToSet(graph.order) \subseteq DOMAIN Rec.passes
      BY PassesSetting, ToSetType
    <3>2. QED BY <3>1 DEF NodeUsage, UsageBy
  <2>9. EntryRealized(PoolUses, name, bakes, WrittenNames)
    <3> DEFINE N == DOMAIN PoolUses
               uses == PoolUses
    <3>1. PoolExecute(uses, N, bakes, WrittenNames) /\ uses \in [N -> Use] /\ name \in N /\ PoolInv
      BY <2>3, PassesSetting DEF LoopInv
    <3> HIDE DEF N, uses, bakes, name
    <3>2. EntryRealized(uses, name, bakes, WrittenNames)
      BY <3>1, ExecutedEntry
    <3>3. QED BY <3>2 DEF uses
  <2>10. name \notin DOMAIN bakes
    BY <1>3
  <2>11. Opened(PoolUses, name) = Touched(e, use)
    BY <2>2 DEF Opened
  <2>12. /\ use.kind = node.kind /\ use.layers = 1 /\ use.hash = node.hash /\ use.sig = sig
         /\ use.usage \subseteq e.atCreate[node.kind]
    <3> DEFINE all == UsageBy(Rec, DOMAIN Rec.passes, t.n)
               some == NodeUsage(Rec, graph.order, t.n)
               made == e.atCreate[node.kind]
    <3>1. some \subseteq all /\ all \subseteq made
      BY <2>7, <2>8
    <3>2. use = [kind |-> node.kind, layers |-> 1, hash |-> node.hash, sig |-> sig, usage |-> some]
      BY <2>3
    <3> HIDE DEF all, some, made, use, sig, node
    <3>3. /\ use.kind = node.kind /\ use.layers = 1 /\ use.hash = node.hash /\ use.sig = sig
          /\ use.usage = some
      BY <3>2
    <3>4. use.usage \subseteq made
      BY <3>1, <3>3
    <3>5. QED BY <3>3, <3>4 DEF made
  <2>13. /\ Touched(e, use) \in Entry /\ Widened(Touched(e, use), use) \in Entry
         /\ pool'[name] = Encoded(Realized(Widened(Touched(e, use), use), use), name, bakes, WrittenNames)
    BY <2>9, <2>11 DEF EntryRealized
  <2> HIDE DEF e, use, sig, bakes, name, node
  <2>14. Encoded(Realized(Widened(Touched(e, use), use), use), name, bakes, WrittenNames).content[0].bake
           = e.content[0].bake
    BY <2>2, <2>4, <2>5, <2>7, <2>10, <2>12, <2>13, BakeKept
  <2>15. QED BY <2>6, <2>13, <2>14 DEF name, node
<1>4. QED BY <1>1, <1>2, <1>3 DEF BakeIsThere

LEMMA PassesStep ==
  ASSUME LoopInv, ExecutePasses
  PROVE  LoopInv'
<1>1. /\ phase' = "executed" /\ UNCHANGED <<session, playing, graphs, graph, Rec>>
      /\ Stage \/ UNCHANGED profiler_vars
  BY PassesSetting DEF ExecutePasses
<1>2. GraphOf(Rec, graph)'
  BY <1>1, PassesSetting
<1>3. ProfilerInv'
  BY <1>1, ProfilerKept DEF ProfilerNext
<1>4. QED BY <1>1, <1>2, <1>3, PassesPool, PassesTransient, PassesRun, PassesBake DEF LoopInv

-----------------------------------------------------------------------------
(* The invariant, in every state of the loop.                              *)
LEMMA LoopStep == LoopInv /\ [Next]_vars => LoopInv'
<1>1. SUFFICES ASSUME LoopInv, [Next]_vars PROVE LoopInv'
  OBVIOUS
<1>2. ASSUME NEW i \in DOMAIN session.recs, Compile(i) PROVE LoopInv'
  BY <1>1, <1>2, CompileStep
<1>3. CASE ExecuteFailed
  BY <1>1, <1>3, FailedStep
<1>4. CASE ExecuteRefused
  BY <1>1, <1>4, RefusedStep
<1>5. CASE ExecutePasses
  BY <1>1, <1>5, PassesStep
<1>6. CASE EndFrame
  BY <1>1, <1>6, EndFrameStep
<1>7. CASE Collect
  BY <1>1, <1>7, TimingStep DEF Collect, ProfilerNext
<1>8. ASSUME NEW slot \in Slots, Callback(slot) PROVE LoopInv'
  BY <1>1, <1>8, TimingStep DEF Callback, ProfilerNext
<1>9. CASE UNCHANGED vars
  BY <1>1, <1>9, TimingStep DEF vars
<1>10. QED BY <1>1, <1>2, <1>3, <1>4, <1>5, <1>6, <1>7, <1>8, <1>9 DEF Next

LEMMA LoopInvariant == Spec => []LoopInv
BY LoopInit, LoopStep, PTL DEF Spec

(* The order and the skipped passes that compile() hands to execute() are  *)
(* passes of the graph that is being recorded, in every state of the loop. *)
THEOREM LoopTypes == Spec => []TypeOK
<1>1. LoopInv => TypeOK
  <2>1. SUFFICES ASSUME LoopInv PROVE TypeOK
    OBVIOUS
  <2>2. ToSet(graph.order) \cup graph.skip \subseteq DOMAIN Rec.passes
    <3>1. Rec \in Recordings
      BY <2>1, RecordedLegally DEF LoopInv, Rec
    <3>2. CASE graph.ok
      <4>1. graph.order \in Seq(DOMAIN Rec.passes) /\ graph.skip \subseteq DOMAIN Rec.passes
        BY <2>1, <3>1, <3>2, SlotsAreSeq DEF LoopInv
      <4>2. QED BY <4>1, ToSetType
    <3>3. CASE ~graph.ok
      BY <2>1, <3>3 DEF LoopInv, GraphOf, Failed, ToSet
    <3>4. QED BY <3>2, <3>3
  <2>3. PoolTypeOK
    BY <2>1 DEF LoopInv, PoolInv, Sound, PoolTypeOK
  <2>4. \A i \in DOMAIN transient :
          transient[i] \in [kind : Kinds, sig : Sigs, usage : SUBSET (Bits \cup {Memoryless}),
                            identity : Names, idle : 0..IdleFrames, fresh : BOOLEAN]
    <3> DEFINE T == TransientEntry
    <3>1. transient \in Seq(T)
      BY <2>1 DEF LoopInv
    <3> HIDE DEF T
    <3>2. \A i \in DOMAIN transient : transient[i] \in T
      BY <3>1, SeqFacts
    <3>3. QED BY <3>2 DEF T, TransientEntry
  <2>5. QED BY <2>1, <2>2, <2>3, <2>4 DEF LoopInv, ProfilerInv, TypeOK
<1>2. QED BY <1>1, LoopInvariant, PTL

(* What a pass finds in a resource that it reads is what the passes        *)
(* declared before it have left there: for any graphs, whatever compile()  *)
(* drops, moves and puts on one object, and whichever object of the pool   *)
(* that turns out to be.                                                   *)
THEOREM ReadersSeeWriters == Spec => []ReadsSeeTheirWriters
<1>1. LoopInv => ReadsSeeTheirWriters
  BY ReadsSee, RecordedLegally DEF LoopInv, Rec
<1>2. QED BY <1>1, LoopInvariant, PTL

(* No pass finds two of its resources on one object: neither alias slots   *)
(* nor the claims in the transient pool nor the layers of a history bring  *)
(* that about.                                                             *)
THEOREM ObjectsOnceInAPass == Spec => []NoObjectTwiceInAPass
<1>1. LoopInv => NoObjectTwiceInAPass
  BY NotTwice, RecordedLegally DEF LoopInv, Rec
<1>2. QED BY <1>1, LoopInvariant, PTL

(* A bake that phase 0 of compile() skips is there when the other passes   *)
(* run: touch and realize have left it alone.                              *)
THEOREM SkippedBakesAreThere == Spec => []BakeIsThere
<1>1. LoopInv => BakeIsThere
  BY DEF LoopInv
<1>2. QED BY <1>1, LoopInvariant, PTL

(* The pool and the profiler, as the loop uses them.                       *)
THEOREM LoopStateTrustworthy == Spec => [](PoolSane /\ HistoryCarries /\ FillsAccountedFor)
<1>1. LoopInv => PoolSane
  BY DEF LoopInv, PoolInv, Sound, Sane, PoolSane, Shrank
<1>2. LoopInv => HistoryCarries
  BY DEF LoopInv, PoolInv, Sound, Sane, Carried, HistoryCarries, HistoryValid
<1>3. LoopInv => FillsAccountedFor
  BY DEF LoopInv, ProfilerInv
<1>4. QED BY <1>1, <1>2, <1>3, LoopInvariant, PTL
=============================================================================
