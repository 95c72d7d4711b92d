-------------------------- MODULE SchedulerProofs ---------------------------
(***************************************************************************)
(* The quads on the GPU have no gaps, for every quad tree, all limits and  *)
(* any sequence of events.  The purge compares nothing but time stamps, so *)
(* the proof is about these: an ancestor always has a later one.  And what *)
(* the texture array shows, for every size of it and every order in which  *)
(* the updates the scheduler emits are applied: the layers stay            *)
(* partitioned, every update that waits fits, and a tile always has its    *)
(* ancestors beside it.                                                    *)
(***************************************************************************)
EXTENDS SchedulerView, FiniteSetTheorems, TLAPS

(* What is inductive.  A quad that is on the GPU has its ancestors there,  *)
(* they were visited after it, and no visit lies in the future.            *)
AncestorsAfter(cache) ==
  \A q \in DOMAIN cache : \A p \in Ancestors[q] :
    p \in DOMAIN cache /\ cache[q].visited < cache[p].visited

NoneInFuture(cache, time) ==
  \A q \in DOMAIN cache :
    cache[q].visited \in Int /\ cache[q].visited <= VisitStamp(q, time)

GpuInv ==
  /\ now \in Nat
  /\ DOMAIN gpu \subseteq Quads
  /\ \A q \in DOMAIN gpu : gpu[q] \in [visited : Int]
  /\ AncestorsAfter(gpu)
  /\ NoneInFuture(gpu, now)

-----------------------------------------------------------------------------
(* An ancestor is nearer to the root.                                      *)
LEMMA ZoomGrows ==
  ASSUME NEW q \in Quads, NEW p \in Ancestors[q]
  PROVE  p \in Quads /\ Zoom(p) \in Nat /\ Zoom(q) \in Nat /\ Zoom(p) < Zoom(q)
<1>1. p \in Quads /\ p \notin Ancestors[p] /\ Ancestors[p] \subseteq Ancestors[q]
  BY TreeType
<1>2. IsFiniteSet(Ancestors[q]) /\ IsFiniteSet(Ancestors[p])
  BY <1>1, TreeType, FS_Subset
<1>3. Cardinality(Ancestors[p]) < Cardinality(Ancestors[q])
  <2>1. Ancestors[p] # Ancestors[q]
    BY <1>1
  <2>2. /\ Cardinality(Ancestors[p]) <= Cardinality(Ancestors[q])
        /\ Cardinality(Ancestors[p]) = Cardinality(Ancestors[q]) => Ancestors[p] = Ancestors[q]
    BY <1>1, <1>2, FS_Subset
  <2>3. Cardinality(Ancestors[p]) \in Nat /\ Cardinality(Ancestors[q]) \in Nat
    BY <1>2, FS_CardinalityType
  <2>4. QED BY <2>1, <2>2, <2>3
<1>4. QED BY <1>1, <1>2, <1>3, FS_CardinalityType DEF Zoom

LEMMA ZoomType ==
  ASSUME NEW q \in Quads
  PROVE  Zoom(q) \in Nat
BY TreeType, FS_Subset, FS_CardinalityType DEF Zoom

(* What a traversal reaches contains the ancestors of all it contains.     *)
LEMMA ReachedTopDown ==
  ASSUME NEW S, S \subseteq Quads
  PROVE  \A q \in Reached(S) : Ancestors[q] \subseteq Reached(S)
BY TreeType DEF Reached

(* A visit keeps the order of the time stamps, and restores it where only  *)
(* quads it reaches are out of order: these get the latest time stamps,    *)
(* and none of them is reached without its ancestors.                      *)
LEMMA VisitKeepsOrder ==
  ASSUME NEW cache, NEW S, NEW time \in Nat,
         DOMAIN cache \subseteq Quads,
         \A q \in DOMAIN cache : cache[q] \in [visited : Int] /\ Ancestors[q] \subseteq DOMAIN cache,
         \A q \in DOMAIN cache \ Reached(DOMAIN cache \cap S) : \A p \in Ancestors[q] :
           cache[q].visited < cache[p].visited,
         NoneInFuture(cache, time)
  PROVE  /\ DOMAIN Visited(cache, S, time) = DOMAIN cache
         /\ \A q \in DOMAIN cache : Visited(cache, S, time)[q] \in [visited : Int]
         /\ AncestorsAfter(Visited(cache, S, time))
         /\ NoneInFuture(Visited(cache, S, time), time)
<1> DEFINE hit == Reached(DOMAIN cache \cap S)
           after == Visited(cache, S, time)
<1>1. hit \subseteq DOMAIN cache /\ \A q \in hit : Ancestors[q] \subseteq hit
  BY ReachedTopDown DEF Reached
<1>2. DOMAIN after = DOMAIN cache
  BY DEF Visited
<1>3. \A q \in DOMAIN cache : VisitStamp(q, time) \in Int
  BY ZoomType DEF VisitStamp
<1>4. \A q \in DOMAIN cache :
        after[q] = IF q \in hit THEN [cache[q] EXCEPT !.visited = VisitStamp(q, time)] ELSE cache[q]
  BY DEF Visited
<1> HIDE DEF hit, after
<1>5. ASSUME NEW q \in hit
      PROVE  after[q] \in [visited : Int] /\ after[q].visited = VisitStamp(q, time)
  <2>1. cache[q] \in [visited : Int] /\ VisitStamp(q, time) \in Int
    BY <1>1, <1>3
  <2>2. after[q] = [cache[q] EXCEPT !.visited = VisitStamp(q, time)]
    BY <1>1, <1>4
  <2>3. QED BY <2>1, <2>2
<1>6. \A q \in DOMAIN cache \ hit : after[q] = cache[q]
  BY <1>4
<1>7. \A q \in DOMAIN cache :
        after[q] \in [visited : Int] /\ after[q].visited <= VisitStamp(q, time)
  BY <1>3, <1>5, <1>6 DEF NoneInFuture
<1>8. ASSUME NEW q \in DOMAIN cache, NEW p \in Ancestors[q]
      PROVE  p \in DOMAIN cache /\ after[q].visited < after[p].visited
  <2>1. p \in DOMAIN cache
    OBVIOUS
  <2>2. VisitStamp(q, time) < VisitStamp(p, time)
    BY ZoomGrows DEF VisitStamp
  <2>3. CASE p \in hit
    <3>1. after[p].visited = VisitStamp(p, time)
      BY <1>5, <2>3
    <3>2. after[q].visited \in Int /\ after[q].visited <= VisitStamp(q, time)
      BY <1>7
    <3>3. VisitStamp(q, time) \in Int /\ VisitStamp(p, time) \in Int
      BY <1>3, <2>1
    <3>4. QED BY <2>1, <2>2, <3>1, <3>2, <3>3
  <2>4. CASE p \notin hit
    <3>1. q \notin hit
      BY <1>1, <2>4
    <3>2. cache[q].visited < cache[p].visited
      BY <3>1 DEF hit
    <3>3. QED BY <1>6, <2>1, <2>4, <3>1, <3>2
  <2>5. QED BY <2>3, <2>4
<1>9. AncestorsAfter(after)
  BY <1>2, <1>8 DEF AncestorsAfter
<1>10. NoneInFuture(after, time)
  BY <1>2, <1>7 DEF NoneInFuture
<1>11. QED
  BY <1>2, <1>7, <1>9, <1>10 DEF after

-----------------------------------------------------------------------------
(* Filling the GPU cache keeps the order: the candidates come with all the *)
(* ancestors that are not there yet, and the visit reaches all of them.    *)
LEMMA FilledInOrder ==
  ASSUME GpuInv, DOMAIN ram \subseteq Quads
  PROVE  /\ DOMAIN GpuFilled \subseteq Quads
         /\ \A q \in DOMAIN GpuFilled : GpuFilled[q] \in [visited : Int]
         /\ AncestorsAfter(GpuFilled)
         /\ NoneInFuture(GpuFilled, now)
<1> DEFINE data == [q \in Quads |-> [visited |-> VisitStamp(q, now)]]
           filled == Inserted(gpu, Candidates, data)
<1>1. Showable \subseteq DOMAIN ram \cap camera /\ \A q \in Showable : Ancestors[q] \subseteq Showable
  BY ReachedTopDown DEF Showable, Presentable, Reached
<1>2. Candidates \subseteq Quads /\ Candidates \subseteq Showable /\ Candidates \cap DOMAIN gpu = {}
  BY <1>1 DEF Candidates
<1>3. now \in Nat /\ DOMAIN gpu \subseteq Quads
  BY DEF GpuInv
<1>4. \A q \in Quads : data[q] \in [visited : Int] /\ data[q].visited = VisitStamp(q, now)
  BY <1>3, ZoomType DEF VisitStamp
<1>5. /\ DOMAIN filled = DOMAIN gpu \cup Candidates
      /\ \A q \in DOMAIN gpu : filled[q] = gpu[q]
      /\ \A q \in Candidates : filled[q] = data[q]
  BY <1>2 DEF Inserted
<1>6. GpuFilled = Visited(filled, camera, now)
  BY DEF GpuFilled
<1> HIDE DEF data, filled
<1>7. DOMAIN filled \subseteq Quads
  BY <1>2, <1>3, <1>5
<1>8. \A q \in DOMAIN filled : filled[q] \in [visited : Int]
  BY <1>2, <1>4, <1>5 DEF GpuInv
<1>9. NoneInFuture(filled, now)
  <2>1. \A q \in DOMAIN gpu : filled[q].visited \in Int /\ filled[q].visited <= VisitStamp(q, now)
    BY <1>5 DEF GpuInv, NoneInFuture
  <2>2. \A q \in Candidates : filled[q].visited \in Int /\ filled[q].visited <= VisitStamp(q, now)
    BY <1>2, <1>4, <1>5
  <2>3. QED BY <1>5, <2>1, <2>2 DEF NoneInFuture
<1>10. \A q \in DOMAIN filled : Ancestors[q] \subseteq DOMAIN filled
  <2>1. \A q \in Candidates : Ancestors[q] \subseteq DOMAIN gpu \cup Candidates
    BY <1>1, <1>2 DEF Candidates
  <2>2. \A q \in DOMAIN gpu : Ancestors[q] \subseteq DOMAIN gpu
    BY DEF GpuInv, AncestorsAfter
  <2>3. QED BY <1>5, <2>1, <2>2
<1>11. Candidates \subseteq Reached(DOMAIN filled \cap camera)
  BY <1>1, <1>2, <1>5, <1>10 DEF Reached
<1>12. \A q \in DOMAIN filled \ Reached(DOMAIN filled \cap camera) : \A p \in Ancestors[q] :
         filled[q].visited < filled[p].visited
  BY <1>5, <1>11 DEF GpuInv, AncestorsAfter
<1>13. QED
  BY <1>3, <1>6, <1>7, <1>8, <1>9, <1>10, <1>12, VisitKeepsOrder

(* A purge never removes a quad and keeps one that is below it.            *)
LEMMA PurgeKeepsOrder ==
  ASSUME NEW cache, NEW n, NEW P \in Purges(cache, n), NEW time,
         DOMAIN cache \subseteq Quads,
         \A q \in DOMAIN cache : cache[q] \in [visited : Int],
         AncestorsAfter(cache), NoneInFuture(cache, time)
  PROVE  /\ DOMAIN Without(cache, P) \subseteq Quads
         /\ \A q \in DOMAIN Without(cache, P) : Without(cache, P)[q] \in [visited : Int]
         /\ AncestorsAfter(Without(cache, P))
         /\ NoneInFuture(Without(cache, P), time)
<1> DEFINE left == Without(cache, P)
<1>1. DOMAIN left = DOMAIN cache \ P /\ \A q \in DOMAIN cache \ P : left[q] = cache[q]
  BY DEF Without
<1>2. \A p \in P, q \in DOMAIN cache \ P : p \in DOMAIN cache => cache[p].visited <= cache[q].visited
  BY DEF Purges
<1> HIDE DEF left
<1>3. ASSUME NEW q \in DOMAIN left, NEW p \in Ancestors[q]
      PROVE  p \in DOMAIN left /\ left[q].visited < left[p].visited
  <2>1. p \in DOMAIN cache /\ cache[q].visited < cache[p].visited
    BY <1>1 DEF AncestorsAfter
  <2>2. cache[p].visited \in Int /\ cache[q].visited \in Int
    BY <1>1, <2>1
  <2>3. p \notin P
    BY <1>1, <1>2, <2>1, <2>2
  <2>4. QED BY <1>1, <2>1, <2>3
<1>4. AncestorsAfter(left)
  BY <1>3 DEF AncestorsAfter
<1>5. NoneInFuture(left, time)
  BY <1>1 DEF NoneInFuture
<1>6. QED BY <1>1, <1>4, <1>5 DEF left

-----------------------------------------------------------------------------
(* The memory cache only ever holds quads.                                 *)
RamInv == DOMAIN ram \subseteq Quads

LEMMA RamInvHolds ==
  ASSUME RamInv, [Next]_vars
  PROVE  RamInv'
<1>1. CASE UNCHANGED vars
  BY <1>1 DEF vars, RamInv
<1>2. CASE \E q \in Quads, s \in Status : ReceiveQuad(q, s)
  BY <1>2 DEF ReceiveQuad, Inserted, RamInv
<1>3. CASE \E P \in SUBSET Quads : UpdateTimeout(P)
  BY <1>3 DEF UpdateTimeout, Visited, RamInv
<1>4. CASE PurgeTimeout
  <2>1. CASE UNCHANGED ram
    BY <2>1 DEF RamInv
  <2>2. CASE \E P \in Purges(Visited(ram, camera, now), ram_quad_limit) :
               ram' = Without(Visited(ram, camera, now), P)
    BY <2>2 DEF Without, Visited, RamInv
  <2>3. QED BY <1>4, <2>1, <2>2 DEF PurgeTimeout
<1>5. CASE ClearFullCache
  BY <1>5 DEF ClearFullCache, Empty, RamInv
<1>6. CASE \E q \in Quads : Retire(q)
  BY <1>6 DEF Retire, RamInv
<1>7. CASE ReadDiskCache
  BY <1>7 DEF ReadDiskCache, Remembered, RamInv
<1>8. CASE UNCHANGED ram
  BY <1>8 DEF RamInv
<1>9. QED
  BY <1>1, <1>2, <1>3, <1>4, <1>5, <1>6, <1>7, <1>8
  DEF Next, UpdateCamera, SetNetworkReachability, SetEnabled, PersistTimeout,
      SetGpuQuadLimit, SetRamQuadLimit, Tick

(* Only four handlers change the GPU cache or the time it is compared to.  *)
LEMMA GpuInvHolds ==
  ASSUME GpuInv, RamInv, [Next]_vars
  PROVE  GpuInv'
<1>1. CASE UNCHANGED <<gpu, now>>
  BY <1>1 DEF GpuInv, AncestorsAfter, NoneInFuture, VisitStamp, Zoom
<1>2. CASE \E P \in SUBSET Quads : UpdateTimeout(P)
  <2>1. PICK P \in Purges(GpuFilled, gpu_quad_limit) : gpu' = Without(GpuFilled, P)
    BY <1>2 DEF UpdateTimeout
  <2>2. now' = now
    BY <1>2 DEF UpdateTimeout
  <2>3. /\ DOMAIN Without(GpuFilled, P) \subseteq Quads
        /\ \A q \in DOMAIN Without(GpuFilled, P) : Without(GpuFilled, P)[q] \in [visited : Int]
        /\ AncestorsAfter(Without(GpuFilled, P))
        /\ NoneInFuture(Without(GpuFilled, P), now)
    BY FilledInOrder, PurgeKeepsOrder DEF RamInv
  <2>4. AncestorsAfter(gpu)' /\ NoneInFuture(gpu, now)'
    BY <2>1, <2>2, <2>3 DEF AncestorsAfter, NoneInFuture, VisitStamp, Zoom
  <2>5. QED BY <2>1, <2>2, <2>3, <2>4 DEF GpuInv
<1>3. CASE ClearFullCache
  BY <1>3 DEF ClearFullCache, Empty, GpuInv, AncestorsAfter, NoneInFuture
<1>4. CASE Tick
  <2>1. gpu' = gpu /\ now' = now + 1
    BY <1>4 DEF Tick
  <2>2. \A q \in DOMAIN gpu : q \in Quads /\ Zoom(q) \in Nat
    BY ZoomType DEF GpuInv
  <2>3. NoneInFuture(gpu', now + 1)
    BY <2>1, <2>2 DEF GpuInv, NoneInFuture, VisitStamp
  <2>4. AncestorsAfter(gpu')
    BY <2>1 DEF GpuInv
  <2>5. QED BY <2>1, <2>3, <2>4 DEF GpuInv, AncestorsAfter, NoneInFuture, VisitStamp, Zoom
<1>5. QED
  BY <1>1, <1>2, <1>3, <1>4
  DEF Next, vars, UpdateCamera, ReceiveQuad, SetNetworkReachability, SetEnabled, PurgeTimeout,
      PersistTimeout, SetGpuQuadLimit, SetRamQuadLimit, Retire, ReadDiskCache

(* Every quad on the GPU is reachable from the root, whatever the camera,  *)
(* the network and the purges do.                                          *)
THEOREM GpuStaysTopDown == Spec => []GpuTopDown
<1>1. Init => GpuInv /\ RamInv
  BY SchedulerType DEF Init, Empty, GpuInv, RamInv, AncestorsAfter, NoneInFuture
<1>2. GpuInv /\ RamInv /\ [Next]_vars => (GpuInv /\ RamInv)'
  BY RamInvHolds, GpuInvHolds
<1>3. GpuInv => GpuTopDown
  BY DEF GpuInv, AncestorsAfter, GpuTopDown, TopDown, Reached
<1>4. QED BY <1>1, <1>2, <1>3, PTL DEF Spec

-----------------------------------------------------------------------------
(* A time stamp tells the millisecond it was made in.                      *)
Stamped(cache, time) ==
  \A q \in DOMAIN cache : \E t \in 0..time : cache[q].visited = VisitStamp(q, t)

LEMMA StampFits ==
  ASSUME NEW q \in Quads, NEW time \in 0..MaxTime
  PROVE  VisitStamp(q, time) \in Stamps
<1>1. IsFiniteSet(Quads) /\ Ancestors[q] \in SUBSET Quads
  BY TreeType
<1>2. /\ Cardinality(Ancestors[q]) \in Nat /\ Cardinality(Quads) \in Nat
      /\ Cardinality(Ancestors[q]) <= Cardinality(Quads)
  BY <1>1, FS_Subset, FS_CardinalityType
<1>3. MaxTime \in Nat
  BY SchedulerType
<1>4. time * 100 \in Nat /\ time * 100 <= MaxTime * 100
  BY <1>3
<1>5. MaxTime * 100 \in Nat
  BY <1>3
<1>6. QED BY <1>2, <1>4, <1>5 DEF VisitStamp, Stamps, Zoom

(* A quad with a stamp not older than that of a quad that was visited just *)
(* now was visited in this millisecond, too.                               *)
LEMMA StampNotOlder ==
  ASSUME NEW cache, NEW time \in Nat, Stamped(cache, time),
         NEW q \in DOMAIN cache, q \in Quads, NEW v \in Quads,
         VisitStamp(v, time) <= cache[q].visited
  PROVE  VisitedAt(cache, q) = time
<1>1. PICK t \in 0..time : cache[q].visited = VisitStamp(q, t)
  BY DEF Stamped
<1>2. Zoom(q) \in Nat /\ Zoom(v) \in Nat /\ Zoom(v) < 100
  BY ZoomType, ZoomFits
<1>3. t = time
  BY <1>1, <1>2 DEF VisitStamp
<1>4. cache[q].visited + Zoom(q) = time * 100
  BY <1>1, <1>2, <1>3 DEF VisitStamp
<1>5. (time * 100) \div 100 = time
  OBVIOUS
<1>6. QED BY <1>4, <1>5 DEF VisitedAt

(* A visit leaves stamps that tell the time, and marks all it reaches.     *)
LEMMA VisitStamps ==
  ASSUME NEW cache, NEW S, NEW time \in Nat,
         \A q \in DOMAIN cache : "visited" \in DOMAIN cache[q],
         Stamped(cache, time)
  PROVE  /\ DOMAIN Visited(cache, S, time) = DOMAIN cache
         /\ Stamped(Visited(cache, S, time), time)
         /\ \A q \in Reached(DOMAIN cache \cap S) :
              q \in DOMAIN cache /\ Visited(cache, S, time)[q].visited = VisitStamp(q, time)
<1> DEFINE after == Visited(cache, S, time)
           hit == Reached(DOMAIN cache \cap S)
<1>1. /\ DOMAIN after = DOMAIN cache
      /\ hit \subseteq DOMAIN cache
      /\ \A q \in hit : after[q] = [cache[q] EXCEPT !.visited = VisitStamp(q, time)]
      /\ \A q \in DOMAIN cache \ hit : after[q] = cache[q]
  BY DEF Visited, Reached
<1> HIDE DEF after, hit
<1>2. \A q \in hit : after[q].visited = VisitStamp(q, time)
  BY <1>1
<1>3. Stamped(after, time)
  <2> SUFFICES ASSUME NEW q \in DOMAIN cache
               PROVE  \E t \in 0..time : after[q].visited = VisitStamp(q, t)
    BY <1>1 DEF Stamped
  <2>1. CASE q \in hit
    BY <1>2, <2>1
  <2>2. CASE q \notin hit
    BY <1>1, <2>2 DEF Stamped
  <2>3. QED BY <2>1, <2>2
<1>4. QED BY <1>1, <1>2, <1>3 DEF after, hit

(* Of two quads in a cache of which one is purged and the other stays, the *)
(* latter was visited in this millisecond if the former was.               *)
LEMMA PurgeSpares ==
  ASSUME NEW cache, NEW n, NEW P \in Purges(cache, n), NEW time \in Nat,
         DOMAIN cache \subseteq Quads, Stamped(cache, time),
         NEW v \in P, v \in DOMAIN cache, cache[v].visited = VisitStamp(v, time)
  PROVE  /\ Cardinality(DOMAIN Without(cache, P)) = n
         /\ \A q \in DOMAIN Without(cache, P) : VisitedAt(Without(cache, P), q) = time
<1>1. /\ Cardinality(DOMAIN cache \ P) = n
      /\ \A p \in P, q \in DOMAIN cache \ P : cache[p].visited <= cache[q].visited
  BY DEF Purges
<1>2. /\ DOMAIN Without(cache, P) = DOMAIN cache \ P
      /\ \A q \in DOMAIN cache \ P : Without(cache, P)[q] = cache[q]
  BY DEF Without
<1>3. ASSUME NEW q \in DOMAIN cache \ P
      PROVE  VisitedAt(cache, q) = time
  BY <1>1, StampNotOlder
<1>4. QED BY <1>1, <1>2, <1>3 DEF VisitedAt

-----------------------------------------------------------------------------
(* What is inductive of the types: every stamp was made by a visit at some *)
(* time that has been.                                                     *)
StampInv == TypeOK /\ Stamped(ram, now) /\ Stamped(gpu, now)

Entry == [visited : Stamps, status : {Good, NotFound}, retired : BOOLEAN]

LEMMA StampsAreIntegers ==
  /\ Stamps \subseteq Int
  /\ \A s \in Stamps : s \in Int
<1>1. Cardinality(Quads) \in Nat /\ MaxTime \in Nat
  BY TreeType, FS_CardinalityType, SchedulerType
<1>2. MaxTime * 100 \in Nat
  BY <1>1
<1>3. QED BY <1>1, <1>2 DEF Stamps

(* The stamps of a cache fit if they were made in time.                    *)
LEMMA StampsFit ==
  ASSUME NEW cache, NEW time \in 0..MaxTime, DOMAIN cache \subseteq Quads, Stamped(cache, time)
  PROVE  \A q \in DOMAIN cache : cache[q].visited \in Stamps
<1> SUFFICES ASSUME NEW q \in DOMAIN cache PROVE cache[q].visited \in Stamps
  OBVIOUS
<1>1. MaxTime \in Nat
  BY SchedulerType
<1>2. PICK t \in 0..time : cache[q].visited = VisitStamp(q, t)
  BY DEF Stamped
<1>3. t \in 0..MaxTime
  BY <1>1
<1>4. QED BY <1>2, <1>3, StampFits

(* What a visit does to the entries of the memory cache.                   *)
LEMMA VisitKeepsEntries ==
  ASSUME NEW S, StampInv
  PROVE  LET after == Visited(ram, S, now) IN
         /\ DOMAIN after = DOMAIN ram
         /\ Stamped(after, now)
         /\ \A q \in DOMAIN ram : after[q] \in Entry /\ after[q].status = ram[q].status
<1> DEFINE after == Visited(ram, S, now)
           hit == Reached(DOMAIN ram \cap S)
<1>1. \A q \in DOMAIN ram : q \in Quads /\ ram[q] \in Entry
  BY DEF StampInv, TypeOK, Entry
<1>2. now \in 0..MaxTime /\ now \in Nat
  BY SchedulerType DEF StampInv, TypeOK
<1>3. \A q \in DOMAIN ram : "visited" \in DOMAIN ram[q]
  BY <1>1 DEF Entry
<1>4. DOMAIN after = DOMAIN ram /\ Stamped(after, now)
  BY <1>2, <1>3, VisitStamps DEF StampInv
<1>5. \A q \in DOMAIN ram : VisitStamp(q, now) \in Stamps
  BY <1>1, <1>2, StampFits
<1>6. /\ \A q \in hit : q \in DOMAIN ram /\ after[q] = [ram[q] EXCEPT !.visited = VisitStamp(q, now)]
      /\ \A q \in DOMAIN ram \ hit : after[q] = ram[q]
  BY DEF Visited, Reached
<1> HIDE DEF after, hit
<1>7. ASSUME NEW q \in DOMAIN ram
      PROVE  after[q] \in Entry /\ after[q].status = ram[q].status
  <2>1. CASE q \in hit
    <3>1. after[q] = [ram[q] EXCEPT !.visited = VisitStamp(q, now)]
      BY <1>6, <2>1, Zenon
    <3>2. ram[q] \in Entry /\ VisitStamp(q, now) \in Stamps
      BY <1>1, <1>5, Zenon
    <3>3. QED BY <3>1, <3>2 DEF Entry
  <2>2. CASE q \notin hit
    <3>1. after[q] = ram[q]
      BY <1>6, <2>2
    <3>2. QED BY <1>1, <3>1, Zenon
  <2>3. QED BY <2>1, <2>2
<1>8. QED BY <1>4, <1>7 DEF after

(* What filling the GPU cache does: all that can be shown is there, with   *)
(* a stamp of this millisecond.                                            *)
LEMMA FilledStamps ==
  ASSUME StampInv, GpuInv
  PROVE  /\ DOMAIN GpuFilled = DOMAIN gpu \cup Showable
         /\ DOMAIN GpuFilled \subseteq Quads
         /\ Stamped(GpuFilled, now)
         /\ \A q \in DOMAIN GpuFilled : GpuFilled[q] \in [visited : Stamps]
         /\ \A q \in Showable : GpuFilled[q].visited = VisitStamp(q, now)
<1> DEFINE data == [q \in Quads |-> [visited |-> VisitStamp(q, now)]]
           filled == Inserted(gpu, Candidates, data)
<1>1. now \in 0..MaxTime /\ now \in Nat /\ DOMAIN ram \subseteq Quads /\ DOMAIN gpu \subseteq Quads
  BY SchedulerType DEF StampInv, TypeOK
<1>2. Showable \subseteq DOMAIN ram \cap camera /\ \A q \in Showable : Ancestors[q] \subseteq Showable
  BY <1>1, ReachedTopDown DEF Showable, Presentable, Reached
<1>3. Candidates \subseteq Quads /\ DOMAIN gpu \cup Candidates = DOMAIN gpu \cup Showable
  BY <1>1, <1>2 DEF Candidates
<1>4. \A q \in Quads : data[q].visited = VisitStamp(q, now) /\ "visited" \in DOMAIN data[q]
  OBVIOUS
<1>5. /\ DOMAIN filled = DOMAIN gpu \cup Showable
      /\ \A q \in DOMAIN gpu : filled[q] = gpu[q]
      /\ \A q \in Candidates : filled[q] = data[q]
  BY <1>3 DEF Inserted, Candidates
<1>6. GpuFilled = Visited(filled, camera, now)
  BY DEF GpuFilled
<1> HIDE DEF data, filled
<1>7. \A q \in DOMAIN gpu : gpu[q] \in [visited : Stamps]
  BY DEF StampInv, TypeOK
<1>8. \A q \in DOMAIN filled : "visited" \in DOMAIN filled[q]
  BY <1>3, <1>4, <1>5, <1>7
<1>9. Stamped(filled, now)
  <2>1. \A q \in DOMAIN gpu : \E t \in 0..now : filled[q].visited = VisitStamp(q, t)
    BY <1>5 DEF StampInv, Stamped
  <2>2. \A q \in Candidates : filled[q].visited = VisitStamp(q, now)
    BY <1>3, <1>4, <1>5
  <2>3. \A q \in Candidates : \E t \in 0..now : filled[q].visited = VisitStamp(q, t)
    BY <1>1, <2>2
  <2>4. QED BY <1>3, <1>5, <2>1, <2>3 DEF Stamped
<1>10. /\ DOMAIN GpuFilled = DOMAIN filled
       /\ Stamped(GpuFilled, now)
       /\ \A q \in Reached(DOMAIN filled \cap camera) : GpuFilled[q].visited = VisitStamp(q, now)
  BY <1>1, <1>6, <1>8, <1>9, VisitStamps
<1>11. \A q \in DOMAIN gpu : Ancestors[q] \subseteq DOMAIN gpu
  BY DEF GpuInv, AncestorsAfter
<1>12. Showable \subseteq Reached(DOMAIN filled \cap camera)
  BY <1>2, <1>5 DEF Reached
<1>13. \A q \in DOMAIN GpuFilled : GpuFilled[q] \in [visited : Stamps]
  <2>1. \A q \in DOMAIN GpuFilled : GpuFilled[q] \in [visited : Int]
    BY <1>1, FilledInOrder
  <2>2. \A q \in DOMAIN GpuFilled : GpuFilled[q].visited \in Stamps
    BY <1>1, <1>2, <1>5, <1>10, StampsFit
  <2>3. QED BY <2>1, <2>2
<1>14. QED
  BY <1>1, <1>2, <1>5, <1>10, <1>12, <1>13

-----------------------------------------------------------------------------
(* The parts of the memory cache that a handler leaves or puts there.      *)
RamTyped(cache) ==
  /\ DOMAIN cache \subseteq Quads
  /\ \A q \in DOMAIN cache : cache[q] \in Entry
  /\ Stamped(cache, now)

LEMMA RamTypedNow == ASSUME StampInv PROVE RamTyped(ram)
BY DEF StampInv, TypeOK, RamTyped, Entry

LEMMA RamVisited == ASSUME StampInv, NEW S PROVE RamTyped(Visited(ram, S, now))
BY VisitKeepsEntries DEF RamTyped, StampInv, TypeOK

LEMMA RamPurged ==
  ASSUME NEW cache, RamTyped(cache), NEW P
  PROVE  RamTyped(Without(cache, P))
BY DEF RamTyped, Without, Stamped

LEMMA RamReceived ==
  ASSUME StampInv, NEW q \in Quads, NEW s \in Status, ReceiveQuad(q, s)
  PROVE  RamTyped(ram')
<1>1. CASE s = NetworkError
  BY <1>1, RamTypedNow DEF ReceiveQuad
<1>2. CASE s # NetworkError
  <2> DEFINE e == [visited |-> VisitStamp(q, now), status |-> KeptStatus(q, s), retired |-> FALSE]
  <2>1. ram' = Inserted(ram, {q}, [p \in {q} |-> e])
    BY <1>2 DEF ReceiveQuad
  <2>2. now \in 0..MaxTime /\ now \in 0..now
    BY SchedulerType DEF StampInv, TypeOK
  <2>3. VisitStamp(q, now) \in Stamps
    BY <2>2, StampFits
  <2>4. KeptStatus(q, s) \in {Good, NotFound}
    BY <1>2 DEF KeptStatus, Status
  <2>5. e \in Entry /\ e.visited = VisitStamp(q, now)
    BY <2>3, <2>4 DEF Entry
  <2>6. DOMAIN ram' = DOMAIN ram \cup {q} /\ ram'[q] = e /\ \A p \in DOMAIN ram \ {q} : ram'[p] = ram[p]
    BY <2>1 DEF Inserted
  <2> HIDE DEF e
  <2>7. \E t \in 0..now : ram'[q].visited = VisitStamp(q, t)
    BY <2>2, <2>5, <2>6
  <2>8. QED BY <2>5, <2>6, <2>7, RamTypedNow DEF RamTyped, Stamped
<1>3. QED BY <1>1, <1>2

LEMMA RamRead ==
  ASSUME StampInv, ReadDiskCache
  PROVE  RamTyped(ram')
<1>0. PICK S \in SUBSET Quads :
        \E at \in [S -> 0..now], absent \in SUBSET (S \cap Deep), old \in SUBSET (S \cap Retiring) :
          ram' = Remembered(S, at, absent, old)
  BY DEF ReadDiskCache
<1>1. PICK at \in [S -> 0..now], absent \in SUBSET (S \cap Deep), old \in SUBSET (S \cap Retiring) :
        ram' = [q \in S |-> [visited |-> VisitStamp(q, at[q]),
                             status |-> IF q \in absent THEN NotFound ELSE Good,
                             retired |-> q \in old]]
  BY <1>0 DEF Remembered
<1>2. DOMAIN ram' = S /\ now \in 0..MaxTime /\ MaxTime \in Nat
  BY <1>1, SchedulerType DEF StampInv, TypeOK
<1>3. ASSUME NEW q \in S
      PROVE  ram'[q] \in Entry /\ at[q] \in 0..now /\ ram'[q].visited = VisitStamp(q, at[q])
  <2>1. q \in Quads /\ at[q] \in 0..now /\ at[q] \in 0..MaxTime
    BY <1>1, <1>2
  <2>2. VisitStamp(q, at[q]) \in Stamps
    BY <2>1, StampFits
  <2>3. ram'[q] = [visited |-> VisitStamp(q, at[q]),
                   status |-> IF q \in absent THEN NotFound ELSE Good, retired |-> q \in old]
    BY <1>1
  <2>4. (q \in old) \in BOOLEAN
    OBVIOUS
  <2>5. QED BY <2>1, <2>2, <2>3, <2>4 DEF Entry
<1>4. Stamped(ram', now)
  BY <1>2, <1>3 DEF Stamped
<1>5. QED BY <1>2, <1>3, <1>4 DEF RamTyped

LEMMA RamTypedHolds ==
  ASSUME StampInv, [Next]_vars
  PROVE  RamTyped(ram')
<1>1. CASE \E q \in Quads, s \in Status : ReceiveQuad(q, s)
  BY <1>1, RamReceived
<1>2. CASE \E P \in SUBSET Quads : UpdateTimeout(P)
  BY <1>2, RamVisited DEF UpdateTimeout
<1>3. CASE PurgeTimeout
  BY <1>3, RamTypedNow, RamVisited, RamPurged DEF PurgeTimeout
<1>4. CASE ClearFullCache
  BY <1>4 DEF ClearFullCache, Empty, RamTyped, Stamped
<1>5. CASE \E q \in Quads : Retire(q)
  <2>1. PICK q \in Quads : Retire(q)
    BY <1>5
  <2>2. q \in DOMAIN ram /\ ram' = [ram EXCEPT ![q].retired = TRUE]
    BY <2>1 DEF Retire
  <2>3. /\ DOMAIN ram' = DOMAIN ram
        /\ ram'[q] = [ram[q] EXCEPT !.retired = TRUE]
        /\ \A p \in DOMAIN ram \ {q} : ram'[p] = ram[p]
    BY <2>2
  <2>4. ram'[q] \in Entry /\ ram'[q].visited = ram[q].visited
    BY <2>2, <2>3, RamTypedNow DEF RamTyped, Entry
  <2>5. QED BY <2>2, <2>3, <2>4, RamTypedNow DEF RamTyped, Stamped
<1>6. CASE ReadDiskCache
  BY <1>6, RamRead
<1>7. CASE ram' = ram
  BY <1>7, RamTypedNow
<1>8. QED
  BY <1>1, <1>2, <1>3, <1>4, <1>5, <1>6, <1>7
  DEF Next, vars, UpdateCamera, SetNetworkReachability, SetEnabled, PersistTimeout,
      SetGpuQuadLimit, SetRamQuadLimit, Tick

LEMMA GpuStampsHold ==
  ASSUME StampInv, GpuInv, [Next]_vars
  PROVE  /\ DOMAIN gpu' \subseteq Quads
         /\ \A q \in DOMAIN gpu' : gpu'[q] \in [visited : Stamps]
         /\ Stamped(gpu', now)
<1>1. CASE gpu' = gpu
  BY <1>1 DEF StampInv, TypeOK
<1>2. CASE \E P \in SUBSET Quads : UpdateTimeout(P)
  BY <1>2, FilledStamps DEF UpdateTimeout, Without, Stamped
<1>3. CASE ClearFullCache
  BY <1>3 DEF ClearFullCache, Empty, Stamped
<1>4. QED
  BY <1>1, <1>2, <1>3
  DEF Next, vars, UpdateCamera, ReceiveQuad, SetNetworkReachability, SetEnabled, PurgeTimeout,
      PersistTimeout, SetGpuQuadLimit, SetRamQuadLimit, Tick, Retire, ReadDiskCache

LEMMA LaterStamped ==
  ASSUME NEW cache, NEW s \in Nat, NEW t \in Nat, s <= t, Stamped(cache, s)
  PROVE  Stamped(cache, t)
<1>1. 0..s \subseteq 0..t
  OBVIOUS
<1>2. QED BY <1>1 DEF Stamped

(* The switches, the timers, the limits and the clock.                     *)
LEMMA RestTyped ==
  ASSUME StampInv, [Next]_vars
  PROVE  /\ camera' \in Cameras
         /\ ram_quad_limit' \in RamLimits /\ gpu_quad_limit' \in GpuLimits
         /\ enabled' \in BOOLEAN /\ network' \in BOOLEAN
         /\ update_timer' \in BOOLEAN /\ purge_timer' \in BOOLEAN /\ persist_timer' \in BOOLEAN
         /\ now' \in 0..MaxTime /\ now' \in Nat /\ now \in Nat /\ now <= now'
<1> USE DEF limits, switches, timers
<1>1. /\ MaxTime \in Nat /\ now \in 0..MaxTime /\ now \in Nat
      /\ camera \in Cameras /\ ram_quad_limit \in RamLimits /\ gpu_quad_limit \in GpuLimits
      /\ enabled \in BOOLEAN /\ network \in BOOLEAN
      /\ update_timer \in BOOLEAN /\ purge_timer \in BOOLEAN /\ persist_timer \in BOOLEAN
  BY SchedulerType DEF StampInv, TypeOK
<1>2. CASE UNCHANGED vars
  BY <1>1, <1>2 DEF vars
<1>3. CASE \E view \in Cameras : UpdateCamera(view)
  BY <1>1, <1>3 DEF UpdateCamera, ScheduleUpdate
<1>4. CASE \E q \in Quads, s \in Status : ReceiveQuad(q, s)
  <2>1. /\ UNCHANGED <<camera, ram_quad_limit, gpu_quad_limit, enabled, network, now>>
        /\ update_timer' \in BOOLEAN /\ purge_timer' \in BOOLEAN /\ persist_timer' \in BOOLEAN
    BY <1>1, <1>4 DEF ReceiveQuad, ScheduleUpdate, SchedulePurge, SchedulePersist
  <2>2. QED BY <1>1, <2>1
<1>5. CASE \E b \in BOOLEAN : SetNetworkReachability(b)
  BY <1>1, <1>5 DEF SetNetworkReachability, ScheduleUpdate
<1>6. CASE \E b \in BOOLEAN : SetEnabled(b)
  BY <1>1, <1>6 DEF SetEnabled
<1>7. CASE \E P \in SUBSET Quads : UpdateTimeout(P)
  <2>1. /\ UNCHANGED <<camera, ram_quad_limit, gpu_quad_limit, enabled, network, now, purge_timer,
                       persist_timer>>
        /\ update_timer' \in BOOLEAN
    BY <1>1, <1>7 DEF UpdateTimeout
  <2>2. QED BY <1>1, <2>1
<1>8. CASE PurgeTimeout \/ PersistTimeout \/ ClearFullCache
  <2>1. /\ UNCHANGED <<camera, ram_quad_limit, gpu_quad_limit, enabled, network, now, update_timer>>
        /\ purge_timer' \in BOOLEAN /\ persist_timer' \in BOOLEAN
    BY <1>1, <1>8 DEF PurgeTimeout, PersistTimeout, ClearFullCache
  <2>2. QED BY <1>1, <2>1
<1>9. CASE \E n \in GpuLimits : SetGpuQuadLimit(n)
  BY <1>1, <1>9 DEF SetGpuQuadLimit
<1>10. CASE \E n \in RamLimits : SetRamQuadLimit(n)
  BY <1>1, <1>10 DEF SetRamQuadLimit
<1>11. CASE Tick
  BY <1>1, <1>11 DEF Tick
<1>12. CASE \E q \in Quads : Retire(q)
  BY <1>1, <1>12 DEF Retire
<1>13. CASE ReadDiskCache
  BY <1>1, <1>13 DEF ReadDiskCache
<1>14. QED
  BY <1>2, <1>3, <1>4, <1>5, <1>6, <1>7, <1>8, <1>9, <1>10, <1>11, <1>12, <1>13 DEF Next

LEMMA StampInvHolds ==
  ASSUME StampInv, GpuInv, [Next]_vars
  PROVE  StampInv'
<1>1. RamTyped(ram')
  BY RamTypedHolds
<1>2. Stamped(ram', now') /\ Stamped(gpu', now')
  BY <1>1, GpuStampsHold, RestTyped, LaterStamped DEF RamTyped
<1>3. Stamped(ram, now)' /\ Stamped(gpu, now)'
  BY <1>2 DEF Stamped, VisitStamp, Zoom
<1>4. TypeOK'
  <2>1. Cameras' = Cameras /\ Stamps' = Stamps
    BY DEF Cameras, TopDown, Reached, Stamps
  <2>2. \A q \in DOMAIN ram' :
          ram'[q] \in [visited : Stamps, status : {Good, NotFound}, retired : BOOLEAN]
    BY <1>1 DEF RamTyped, Entry
  <2>3. DOMAIN ram' \subseteq Quads
    BY <1>1 DEF RamTyped
  <2>4. QED
    BY <2>1, <2>2, <2>3, GpuStampsHold, RestTyped DEF TypeOK, Good, NotFound
<1>5. QED BY <1>3, <1>4 DEF StampInv

SchedulerInv == GpuInv /\ RamInv /\ StampInv

LEMMA InvInit == Init => SchedulerInv
<1> SUFFICES ASSUME Init PROVE SchedulerInv
  OBVIOUS
<1>1. GpuInv /\ RamInv
  BY SchedulerType DEF Init, Empty, GpuInv, RamInv, AncestorsAfter, NoneInFuture
<1>2. Stamped(ram, now) /\ Stamped(gpu, now)
  BY DEF Init, Empty, Stamped
<1>3. TypeOK
  BY DEF Init, Empty, TypeOK
<1>4. QED BY <1>1, <1>2, <1>3 DEF SchedulerInv, StampInv

LEMMA InvHolds == SchedulerInv /\ [Next]_vars => SchedulerInv'
BY RamInvHolds, GpuInvHolds, StampInvHolds DEF SchedulerInv

(* The caches and timers of a scheduler stay what their types say, and a   *)
(* time stamp always fits.                                                 *)
THEOREM TypeCorrect == Spec => []TypeOK
<1>1. SchedulerInv => TypeOK
  BY DEF SchedulerInv, StampInv
<1>2. QED BY InvInit, InvHolds, <1>1, PTL DEF Spec

-----------------------------------------------------------------------------
(* What can be shown only gets less when the memory cache does.            *)
LEMMA ShowableShrinks ==
  ASSUME camera' = camera, DOMAIN ram' \subseteq DOMAIN ram,
         \A q \in DOMAIN ram' : ram'[q].status = ram[q].status
  PROVE  Showable' \subseteq Showable
<1>1. Presentable' \subseteq Presentable
  BY DEF Presentable
<1>2. QED BY <1>1 DEF Showable, Reached

(* After an update what is not shown was purged, and the purge takes       *)
(* nothing of the view before all that is not of this millisecond.         *)
LEMMA UpdateShowsView ==
  ASSUME SchedulerInv, NEW P \in SUBSET Quads, UpdateTimeout(P)
  PROVE  ViewIsShown'
<1>1. /\ P \in Purges(GpuFilled, gpu_quad_limit)
      /\ gpu' = Without(GpuFilled, P)
      /\ ram' = Visited(ram, Presentable, now)
      /\ camera' = camera /\ gpu_quad_limit' = gpu_quad_limit
  BY DEF UpdateTimeout, limits
<1>2. Showable' \subseteq Showable
  BY <1>1, VisitKeepsEntries, ShowableShrinks DEF SchedulerInv
<1>3. /\ DOMAIN GpuFilled = DOMAIN gpu \cup Showable
      /\ DOMAIN GpuFilled \subseteq Quads
      /\ Stamped(GpuFilled, now)
      /\ \A q \in Showable : GpuFilled[q].visited = VisitStamp(q, now)
  BY FilledStamps DEF SchedulerInv
<1>4. now \in Nat
  BY DEF SchedulerInv, GpuInv
<1>5. ASSUME ~(Showable' \subseteq DOMAIN gpu')
      PROVE  /\ Cardinality(DOMAIN gpu') = gpu_quad_limit
             /\ \A q \in DOMAIN gpu' : VisitedAt(gpu', q) = now
  <2>1. PICK v \in Showable : v \notin DOMAIN gpu'
    BY <1>2, <1>5
  <2>2. v \in P /\ v \in DOMAIN GpuFilled
    BY <1>1, <1>3, <2>1 DEF Without
  <2>3. GpuFilled[v].visited = VisitStamp(v, now)
    BY <1>3
  <2>4. QED BY <1>1, <1>3, <1>4, <2>2, <2>3, PurgeSpares
<1>6. \A q \in DOMAIN gpu' : VisitedAt(gpu, q)' = VisitedAt(gpu', q)
  BY DEF VisitedAt, Zoom
<1>7. QED BY <1>1, <1>5, <1>6 DEF ViewIsShown

(* The other handlers ask for an update, or neither bring what could be    *)
(* shown nor change the GPU.                                               *)
LEMMA OthersKeepView ==
  ASSUME ViewIsShown, UNCHANGED <<camera, gpu, gpu_quad_limit, enabled, update_timer>>,
         Showable' \subseteq Showable
  PROVE  ViewIsShown'
BY DEF ViewIsShown, VisitedAt, Zoom

LEMMA ViewIsShownHolds ==
  ASSUME SchedulerInv, ViewIsShown, [Next]_vars
  PROVE  ViewIsShown'
<1>1. enabled \in BOOLEAN /\ update_timer \in BOOLEAN
  BY DEF SchedulerInv, StampInv, TypeOK
<1>2. CASE \E view \in Cameras : UpdateCamera(view)
  <2>1. enabled' = enabled /\ update_timer' = (update_timer \/ enabled)
    BY <1>2 DEF UpdateCamera, ScheduleUpdate, switches
  <2>2. QED BY <1>1, <2>1 DEF ViewIsShown
<1>3. CASE \E q \in Quads, s \in Status : ReceiveQuad(q, s)
  <2>1. CASE UNCHANGED <<ram, timers>>
    <3>1. UNCHANGED <<camera, gpu, gpu_quad_limit, enabled, update_timer, ram>>
      BY <1>3, <2>1 DEF ReceiveQuad, switches, limits, timers
    <3>2. QED BY <3>1, OthersKeepView, ShowableShrinks
  <2>2. CASE ScheduleUpdate
    <3>1. enabled' = enabled /\ update_timer' = (update_timer \/ enabled)
      BY <1>3, <2>2 DEF ReceiveQuad, ScheduleUpdate, switches
    <3>2. QED BY <1>1, <3>1 DEF ViewIsShown
  <2>3. QED BY <1>3, <2>1, <2>2 DEF ReceiveQuad
<1>4. CASE \E b \in BOOLEAN : SetNetworkReachability(b)
  <2>1. UNCHANGED <<camera, gpu, gpu_quad_limit, enabled, ram>>
        /\ (update_timer' = update_timer \/ update_timer' = (update_timer \/ enabled))
    BY <1>4 DEF SetNetworkReachability, ScheduleUpdate, limits
  <2>2. QED BY <1>1, <2>1, OthersKeepView, ShowableShrinks DEF ViewIsShown
<1>5. CASE \E b \in BOOLEAN : SetEnabled(b)
  <2>1. PICK b \in BOOLEAN : enabled' = b /\ update_timer' = (update_timer \/ b)
    BY <1>5 DEF SetEnabled
  <2>2. QED BY <1>1, <2>1 DEF ViewIsShown
<1>6. CASE \E P \in SUBSET Quads : UpdateTimeout(P)
  BY <1>6, UpdateShowsView
<1>7. CASE PurgeTimeout
  <2>1. UNCHANGED <<camera, gpu, gpu_quad_limit, enabled, update_timer>>
    BY <1>7 DEF PurgeTimeout, limits, switches
  <2>2. CASE ram' = ram
    BY <2>1, <2>2, OthersKeepView, ShowableShrinks
  <2>3. CASE \E P \in Purges(Visited(ram, camera, now), ram_quad_limit) :
               ram' = Without(Visited(ram, camera, now), P)
    <3>1. DOMAIN ram' \subseteq DOMAIN ram /\ \A q \in DOMAIN ram' : ram'[q].status = ram[q].status
      BY <2>3, VisitKeepsEntries DEF Without, SchedulerInv
    <3>2. QED BY <2>1, <3>1, OthersKeepView, ShowableShrinks
  <2>4. QED BY <1>7, <2>2, <2>3 DEF PurgeTimeout
<1>8. CASE ClearFullCache
  <2>1. Showable' = {}
    BY <1>8 DEF ClearFullCache, Empty, Showable, Presentable, Reached
  <2>2. QED BY <2>1 DEF ViewIsShown
<1>9. CASE \E n \in GpuLimits : SetGpuQuadLimit(n)
  BY <1>9 DEF SetGpuQuadLimit, switches, ViewIsShown
<1>10. CASE \E q \in Quads : Retire(q)
  <2>1. PICK q \in Quads : Retire(q)
    BY <1>10
  <2>2. /\ UNCHANGED <<camera, gpu, gpu_quad_limit, enabled, update_timer>>
        /\ q \in DOMAIN ram /\ ram' = [ram EXCEPT ![q].retired = TRUE]
    BY <2>1 DEF Retire, limits, switches, timers
  <2>3. \A p \in DOMAIN ram : ram[p] \in Entry
    BY DEF SchedulerInv, StampInv, TypeOK, Entry
  <2>4. /\ ram'[q] = [ram[q] EXCEPT !.retired = TRUE]
        /\ DOMAIN ram' = DOMAIN ram /\ \A p \in DOMAIN ram \ {q} : ram'[p] = ram[p]
    BY <2>2
  <2>5. \A p \in DOMAIN ram' : ram'[p].status = ram[p].status
    BY <2>2, <2>3, <2>4 DEF Entry
  <2>6. QED BY <2>2, <2>4, <2>5, OthersKeepView, ShowableShrinks
<1>11. CASE UNCHANGED <<camera, gpu, gpu_quad_limit, enabled, update_timer, ram>>
  BY <1>11, OthersKeepView, ShowableShrinks
<1>12. CASE ReadDiskCache
  BY <1>1, <1>12 DEF ReadDiskCache, switches, ViewIsShown
<1>13. QED
  BY <1>2, <1>3, <1>4, <1>5, <1>6, <1>7, <1>8, <1>9, <1>10, <1>11, <1>12
  DEF Next, vars, PersistTimeout, SetRamQuadLimit, Tick, limits, switches, timers

(* Nothing that could be shown is forgotten between two updates: what is   *)
(* missing on the GPU was purged from it while it was full of the view and *)
(* of quads that were shown in the same millisecond.                       *)
THEOREM ViewStaysShown == Spec => []ViewIsShown
<1>1. Init => ViewIsShown
  BY DEF Init, ViewIsShown
<1>2. SchedulerInv /\ ViewIsShown /\ [Next]_vars => ViewIsShown'
  BY ViewIsShownHolds
<1>3. QED BY InvInit, InvHolds, <1>1, <1>2, PTL DEF Spec

-----------------------------------------------------------------------------
ViewKept ==
  LET view == Reached(DOMAIN ram \cap camera) IN
  ~(view \subseteq DOMAIN ram') =>
    /\ \A q \in DOMAIN ram' \ view : VisitedAt(ram', q) = now
    /\ DOMAIN ram' \subseteq view => DOMAIN ram' = {} \/ Cardinality(view) > ram_quad_limit

(* Only a purge takes quads from memory while others stay, and it visits   *)
(* the view before it looks at the time stamps.                            *)
LEMMA StepKeepsView ==
  ASSUME SchedulerInv, [Next]_vars
  PROVE  ViewKept
<1> DEFINE view == Reached(DOMAIN ram \cap camera)
<1>1. view \subseteq DOMAIN ram
  BY DEF Reached
<1>2. CASE DOMAIN ram \subseteq DOMAIN ram'
  BY <1>1, <1>2 DEF ViewKept
<1>3. CASE PurgeTimeout
  <2> DEFINE cache == Visited(ram, camera, now)
  <2>1. CASE ram' = ram
    BY <1>1, <2>1 DEF ViewKept
  <2>2. CASE \E P \in Purges(cache, ram_quad_limit) : ram' = Without(cache, P)
    <3>1. PICK P \in Purges(cache, ram_quad_limit) : ram' = Without(cache, P)
      BY <2>2
    <3>2. now \in Nat /\ DOMAIN ram \subseteq Quads
      BY DEF SchedulerInv, GpuInv, RamInv
    <3>3. \A q \in DOMAIN ram : "visited" \in DOMAIN ram[q]
      BY DEF SchedulerInv, StampInv, TypeOK
    <3>4. /\ DOMAIN cache = DOMAIN ram /\ Stamped(cache, now)
          /\ \A q \in view : q \in DOMAIN ram /\ cache[q].visited = VisitStamp(q, now)
      BY <3>2, <3>3, VisitStamps DEF SchedulerInv, StampInv
    <3> HIDE DEF cache, view
    <3>5. ASSUME NEW v \in view, v \notin DOMAIN ram'
          PROVE  /\ \A q \in DOMAIN ram' : VisitedAt(ram', q) = now
                 /\ DOMAIN ram' \subseteq view => Cardinality(view) > ram_quad_limit
      <4>1. v \in P /\ v \in DOMAIN cache
        BY <3>1, <3>4, <3>5 DEF Without
      <4>2. /\ Cardinality(DOMAIN ram') = ram_quad_limit
            /\ \A q \in DOMAIN ram' : VisitedAt(ram', q) = now
        BY <3>1, <3>2, <3>4, <4>1, PurgeSpares
      <4>3. ASSUME DOMAIN ram' \subseteq view
            PROVE  Cardinality(view) > ram_quad_limit
        <5>1. DOMAIN ram' \cup {v} \subseteq view /\ view \subseteq Quads
          BY <3>2, <3>4, <4>3
        <5>2. IsFiniteSet(view) /\ IsFiniteSet(DOMAIN ram')
          BY <4>3, <5>1, TreeType, FS_Subset
        <5>3. /\ Cardinality(DOMAIN ram' \cup {v}) = Cardinality(DOMAIN ram') + 1
              /\ Cardinality(DOMAIN ram') \in Nat /\ Cardinality(view) \in Nat
          BY <3>5, <5>2, FS_AddElement, FS_CardinalityType
        <5>4. Cardinality(DOMAIN ram' \cup {v}) <= Cardinality(view)
          BY <5>1, <5>2, FS_Subset
        <5>5. QED BY <4>2, <5>3, <5>4
      <4>4. QED BY <4>2, <4>3
    <3>6. QED BY <3>5 DEF ViewKept, view
  <2>3. QED BY <1>3, <2>1, <2>2 DEF PurgeTimeout
<1>4. CASE ClearFullCache
  BY <1>4 DEF ClearFullCache, Empty, ViewKept
<1>5. CASE \E q \in Quads, s \in Status : ReceiveQuad(q, s)
  BY <1>2, <1>5 DEF ReceiveQuad, Inserted
<1>6. CASE \E P \in SUBSET Quads : UpdateTimeout(P)
  BY <1>2, <1>6 DEF UpdateTimeout, Visited
<1>7. CASE \E q \in Quads : Retire(q)
  BY <1>2, <1>7 DEF Retire
<1>8. CASE ReadDiskCache
  BY <1>2, <1>8 DEF ReadDiskCache, Empty
<1>9. QED
  BY <1>2, <1>3, <1>4, <1>5, <1>6, <1>7, <1>8
  DEF Next, vars, UpdateCamera, SetNetworkReachability, SetEnabled, PersistTimeout,
      SetGpuQuadLimit, SetRamQuadLimit, Tick

(* Memory is not purged of a view it reaches while it keeps anything that  *)
(* was not used in this very millisecond, nor, while that view fits, for   *)
(* the sake of itself.                                                     *)
THEOREM PurgeSparesView == Spec => ViewStaysInMemory
<1>1. SchedulerInv /\ [Next]_vars => [ViewKept]_vars
  BY StepKeepsView
<1>2. ViewKept <=>
        (LET view == Reached(DOMAIN ram \cap camera) IN
         ~(view \subseteq DOMAIN ram') =>
           /\ \A q \in DOMAIN ram' \ view : VisitedAt(ram', q) = now
           /\ DOMAIN ram' \subseteq view => DOMAIN ram' = {} \/ Cardinality(view) > ram_quad_limit)
  BY DEF ViewKept
<1>3. QED BY InvInit, InvHolds, <1>1, <1>2, PTL DEF Spec, ViewStaysInMemory

-----------------------------------------------------------------------------
(* The invariant that is inductive: the layers are only partitioned by an  *)
(* update if they were before and every layer in use exists.               *)
ArrayInv == ArrayTypeOK /\ LayersPartitioned

(* A new array has no tiles and all of its layers are free.                *)
LEMMA ArrayInvInit == ArrayInit => ArrayInv
BY DEF ArrayInit, ArrayInv, ArrayTypeOK, LayersPartitioned, Layers

(* Removing the deleted tiles leaves a partition.                          *)
LEMMA KeptPartitioned ==
  ASSUME ArrayInv, NEW deleted
  PROVE  /\ DOMAIN Kept(deleted) = DOMAIN id_to_layer \ deleted
         /\ \A t \in DOMAIN Kept(deleted) : Kept(deleted)[t] = id_to_layer[t]
         /\ FreeAfter(deleted) \subseteq Layers
         /\ FreeAfter(deleted) = Layers \ {Kept(deleted)[t] : t \in DOMAIN Kept(deleted)}
BY DEF ArrayInv, ArrayTypeOK, LayersPartitioned, Kept, FreeAfter

(* Giving distinct free layers to the new tiles leaves one, too.           *)
LEMMA UpdatePartitions ==
  ASSUME ArrayInv, NEW deleted \in SUBSET Tiles, NEW new \in SUBSET Tiles,
         UpdateTiles(deleted, new)
  PROVE  ArrayInv'
<1> DEFINE kept == Kept(deleted)
           free == FreeAfter(deleted)
<1>1. PICK added \in AddedSets(deleted, new) :
        \E place \in [added -> free] :
          /\ \A s, t \in added : place[s] = place[t] => s = t
          /\ id_to_layer' = [t \in DOMAIN kept \cup added |->
                               IF t \in added THEN place[t] ELSE kept[t]]
          /\ free_layers' = free \ {place[t] : t \in added}
  BY DEF UpdateTiles
<1>2. PICK place \in [added -> free] :
          /\ \A s, t \in added : place[s] = place[t] => s = t
          /\ id_to_layer' = [t \in DOMAIN kept \cup added |->
                               IF t \in added THEN place[t] ELSE kept[t]]
          /\ free_layers' = free \ {place[t] : t \in added}
  BY <1>1
<1>3. added \subseteq Tiles \ DOMAIN kept
  BY DEF AddedSets
<1>4. /\ DOMAIN kept = DOMAIN id_to_layer \ deleted
      /\ \A t \in DOMAIN kept : kept[t] = id_to_layer[t]
      /\ free \subseteq Layers
      /\ free = Layers \ {kept[t] : t \in DOMAIN kept}
  <2>1. /\ DOMAIN kept = DOMAIN id_to_layer \ deleted
        /\ \A t \in DOMAIN kept : kept[t] = id_to_layer[t]
        /\ free \subseteq Layers
    BY KeptPartitioned, Zenon
  <2>2. free = Layers \ {kept[t] : t \in DOMAIN kept}
    BY KeptPartitioned, Zenon
  <2>3. QED BY <2>1, <2>2, Zenon
<1>5. \A s, t \in DOMAIN kept : kept[s] = kept[t] => s = t
  BY <1>4 DEF ArrayInv, LayersPartitioned
<1>6. \A t \in DOMAIN kept : t \in Tiles /\ kept[t] \in Layers
  BY <1>4 DEF ArrayInv, ArrayTypeOK
<1> HIDE DEF kept, free
<1>7. /\ DOMAIN id_to_layer' = DOMAIN kept \cup added
      /\ \A t \in added : id_to_layer'[t] = place[t] /\ place[t] \in free
      /\ \A t \in DOMAIN kept : id_to_layer'[t] = kept[t]
  BY <1>2, <1>3
<1>8. ArrayTypeOK'
  BY <1>2, <1>3, <1>4, <1>6, <1>7 DEF ArrayTypeOK, Layers
<1>9. \A s, t \in DOMAIN id_to_layer' : id_to_layer'[s] = id_to_layer'[t] => s = t
  BY <1>2, <1>4, <1>5, <1>7
<1>10. free_layers' = Layers' \ {id_to_layer'[t] : t \in DOMAIN id_to_layer'}
  <2>1. {id_to_layer'[t] : t \in DOMAIN id_to_layer'}
          = {kept[t] : t \in DOMAIN kept} \cup {place[t] : t \in added}
    BY <1>7, <1>3
  <2>2. Layers' = Layers
    BY DEF Layers
  <2>3. free_layers' = free \ {place[t] : t \in added}
    BY <1>2
  <2>4. free = Layers \ {kept[t] : t \in DOMAIN kept}
    BY <1>4
  <2>5. QED BY <2>1, <2>2, <2>3, <2>4
<1>11. QED
  BY <1>8, <1>9, <1>10 DEF ArrayInv, LayersPartitioned

(* No layer is shared by two tiles, given out while it is free, or lost,   *)
(* through any sequence of updates.                                        *)
THEOREM LayersStayPartitioned == ArraySpec => [](ArrayTypeOK /\ LayersPartitioned)
<1>1. ArrayInv /\ [ArrayNext]_array_vars => ArrayInv'
  <2> SUFFICES ASSUME ArrayInv, [ArrayNext]_array_vars PROVE ArrayInv'
    OBVIOUS
  <2>1. CASE ArrayNext
    BY <2>1, UpdatePartitions DEF ArrayNext
  <2>2. CASE UNCHANGED array_vars
    BY <2>2 DEF array_vars, ArrayInv, ArrayTypeOK, LayersPartitioned, Layers
  <2>3. QED BY <2>1, <2>2
<1>2. QED BY ArrayInvInit, <1>1, PTL DEF ArraySpec, ArrayInv

-----------------------------------------------------------------------------
(* With what is free, there is room for ArraySize tiles: an update that    *)
(* fits is applied whole.                                                  *)
LEMMA UpdateFits ==
  ASSUME ArrayInv, NEW deleted \in SUBSET Tiles, NEW new \in SUBSET Tiles,
         new \cap (DOMAIN id_to_layer \ deleted) = {}, IsFiniteSet(new),
         Cardinality((DOMAIN id_to_layer \ deleted) \cup new) <= ArraySize,
         UpdateTiles(deleted, new)
  PROVE  DOMAIN id_to_layer' = (DOMAIN id_to_layer \ deleted) \cup new
<1> DEFINE kept == Kept(deleted)
           used == {kept[t] : t \in DOMAIN kept}
<1>1. /\ DOMAIN kept = DOMAIN id_to_layer \ deleted
      /\ \A t \in DOMAIN kept : kept[t] = id_to_layer[t]
      /\ FreeAfter(deleted) = Layers \ used
  BY KeptPartitioned
<1>2. /\ IsFiniteSet(Layers) /\ Cardinality(Layers) = ArraySize
  BY FS_Interval, ArraySizeType DEF Layers
<1>3. used \in SUBSET Layers
  BY <1>1 DEF ArrayInv, ArrayTypeOK
<1>4. IsFiniteSet(used) /\ Cardinality(used) \in Nat
  BY <1>2, <1>3, FS_Subset, FS_CardinalityType
<1>5. kept \in [DOMAIN kept -> used]
  BY DEF Kept
<1>6. \A s, t \in DOMAIN kept : kept[s] = kept[t] => s = t
  BY <1>1 DEF ArrayInv, LayersPartitioned
<1>7. kept \in Injection(DOMAIN kept, used)
  BY <1>5, <1>6 DEF Injection, IsInjective
<1>8. kept \in Surjection(DOMAIN kept, used)
  BY <1>5 DEF Surjection
<1>9. IsFiniteSet(DOMAIN kept) /\ Cardinality(DOMAIN kept) = Cardinality(used)
  BY <1>4, <1>7, <1>8, FS_Injection
<1>10. Cardinality(FreeAfter(deleted)) = ArraySize - Cardinality(used)
  <2>1. Cardinality(Layers \ used) = Cardinality(Layers) - Cardinality(Layers \cap used)
    BY <1>2, FS_Difference
  <2>2. Layers \cap used = used
    BY <1>3
  <2>3. QED BY <2>1, <2>2, <1>1, <1>2
<1> HIDE DEF kept, used
<1>11. DOMAIN kept \cap new = {}
  BY <1>1
<1>12. Cardinality(DOMAIN kept \cup new)
         = Cardinality(DOMAIN kept) + Cardinality(new)
  <2>1. Cardinality(DOMAIN kept \cup new)
          = Cardinality(DOMAIN kept) + Cardinality(new) - Cardinality({})
    BY <1>9, <1>11, FS_Union
  <2>2. Cardinality(DOMAIN kept) \in Nat /\ Cardinality(new) \in Nat /\ Cardinality({}) = 0
    BY <1>9, FS_CardinalityType, FS_EmptySet
  <2>3. QED BY <2>1, <2>2
<1>13. Cardinality(new) <= Cardinality(FreeAfter(deleted))
  <2>1. Cardinality(new) \in Nat
    BY FS_CardinalityType
  <2>2. Cardinality(DOMAIN kept \cup new) <= ArraySize
    BY <1>1
  <2>3. QED BY <2>1, <2>2, <1>4, <1>9, <1>10, <1>12, ArraySizeType
<1>14. PICK added \in AddedSets(deleted, new) : DOMAIN id_to_layer' = DOMAIN kept \cup added
  BY DEF UpdateTiles, kept
<1>15. new \ DOMAIN kept = new
  BY <1>11
<1>16. added \in SUBSET new /\ Cardinality(added) = Cardinality(new)
  BY <1>13, <1>15 DEF AddedSets, kept
<1>17. added = new
  BY <1>16, FS_Subset
<1>18. QED BY <1>1, <1>14, <1>17

-----------------------------------------------------------------------------
(* A list of updates, one after the other.                                 *)
LEMMA OutcomeOfNone == ASSUME NEW tiles, NEW us PROVE Outcome(tiles, us, 0) = tiles
<1>1. 1..0 = {}
  OBVIOUS
<1>2. QED BY <1>1 DEF Outcome, Stays

LEMMA StaysNext ==
  ASSUME NEW us, NEW n \in Nat, NEW m \in Nat, m <= n + 1, NEW t
  PROVE  Stays(t, us, m, n + 1) <=> Stays(t, us, m, n) /\ t \notin us[n + 1].deleted
<1>1. m..n + 1 = (m..n) \cup {n + 1}
  OBVIOUS
<1>2. QED BY <1>1 DEF Stays

LEMMA OutcomeOfNext ==
  ASSUME NEW tiles, NEW us, NEW n \in Nat, us[n + 1].new \subseteq Quads
  PROVE  Outcome(tiles, us, n + 1)
           = (Outcome(tiles, us, n) \ us[n + 1].deleted) \cup us[n + 1].new
<1> DEFINE last == us[n + 1]
           old == {t \in tiles : Stays(t, us, 1, n)}
           brought == {t \in Quads : \E i \in 1..n : t \in us[i].new /\ Stays(t, us, i + 1, n)}
<1>1. {t \in tiles : Stays(t, us, 1, n + 1)} = old \ last.deleted
  BY StaysNext
<1>2. 1..n + 1 = (1..n) \cup {n + 1}
  OBVIOUS
<1>3. \A t : Stays(t, us, n + 1 + 1, n + 1)
  BY DEF Stays
<1>4. \A t, i : i \in 1..n =>
        (Stays(t, us, i + 1, n + 1) <=> Stays(t, us, i + 1, n) /\ t \notin last.deleted)
  <2> SUFFICES ASSUME NEW t, NEW i \in 1..n
               PROVE Stays(t, us, i + 1, n + 1) <=> Stays(t, us, i + 1, n) /\ t \notin last.deleted
    OBVIOUS
  <2>1. i + 1 \in Nat /\ i + 1 <= n + 1
    OBVIOUS
  <2>2. QED BY <2>1, StaysNext
<1>5. {t \in Quads : \E i \in 1..n + 1 : t \in us[i].new /\ Stays(t, us, i + 1, n + 1)}
        = (brought \ last.deleted) \cup last.new
  <2> SUFFICES ASSUME NEW t \in Quads
               PROVE  (\E i \in 1..n + 1 : t \in us[i].new /\ Stays(t, us, i + 1, n + 1))
                        <=> t \in (brought \ last.deleted) \cup last.new
    OBVIOUS
  <2>1. (\E i \in 1..n + 1 : t \in us[i].new /\ Stays(t, us, i + 1, n + 1))
          <=> \/ \E i \in 1..n : t \in us[i].new /\ Stays(t, us, i + 1, n + 1)
              \/ t \in last.new /\ Stays(t, us, n + 1 + 1, n + 1)
    BY <1>2
  <2>2. (\E i \in 1..n : t \in us[i].new /\ Stays(t, us, i + 1, n + 1))
          <=> t \in brought /\ t \notin last.deleted
    BY <1>4
  <2>3. QED BY <2>1, <2>2, <1>3
<1>6. QED BY <1>1, <1>5 DEF Outcome

LEMMA OutcomeOfPrefix ==
  ASSUME NEW tiles, NEW us, NEW vs, NEW n \in Nat, \A i \in 1..n : us[i] = vs[i]
  PROVE  Outcome(tiles, us, n) = Outcome(tiles, vs, n)
<1>1. \A t, m : m \in Nat \ {0} => (Stays(t, us, m, n) <=> Stays(t, vs, m, n))
  BY DEF Stays
<1>2. \A t : Stays(t, us, 1, n) <=> Stays(t, vs, 1, n)
  BY <1>1
<1>3. \A t, i : i \in 1..n => (Stays(t, us, i + 1, n) <=> Stays(t, vs, i + 1, n))
  BY <1>1
<1>4. QED BY <1>2, <1>3 DEF Outcome

(* Applying the first update leaves the outcome of all.                    *)
LEMMA OutcomeOfTail ==
  ASSUME NEW tiles, NEW us, NEW vs, NEW n \in Nat, us[1].new \subseteq Quads,
         \A i \in 1..n : vs[i] = us[i + 1]
  PROVE  Outcome((tiles \ us[1].deleted) \cup us[1].new, vs, n) = Outcome(tiles, us, n + 1)
<1> DEFINE first == us[1]
<1>1. \A t, m : m \in Nat \ {0} => (Stays(t, vs, m, n) <=> Stays(t, us, m + 1, n + 1))
  <2> SUFFICES ASSUME NEW t, NEW m \in Nat \ {0}
               PROVE  Stays(t, vs, m, n) <=> Stays(t, us, m + 1, n + 1)
    OBVIOUS
  <2>1. ASSUME Stays(t, us, m + 1, n + 1), NEW i \in m..n PROVE t \notin vs[i].deleted
    <3>1. i + 1 \in m + 1..n + 1 /\ i \in 1..n
      OBVIOUS
    <3>2. QED BY <2>1, <3>1 DEF Stays
  <2>2. ASSUME Stays(t, vs, m, n), NEW i \in m + 1..n + 1 PROVE t \notin us[i].deleted
    <3>1. i - 1 \in m..n /\ i - 1 \in 1..n /\ i - 1 + 1 = i
      OBVIOUS
    <3>2. vs[i - 1] = us[i]
      BY <3>1
    <3>3. QED BY <2>2, <3>1, <3>2 DEF Stays
  <2>3. QED BY <2>1, <2>2 DEF Stays
<1>2. \A t : Stays(t, us, 1, n + 1) <=> t \notin first.deleted /\ Stays(t, us, 2, n + 1)
  <2>1. 1..n + 1 = {1} \cup (2..n + 1)
    OBVIOUS
  <2>2. QED BY <2>1 DEF Stays
<1>3. \A t : Stays(t, vs, 1, n) <=> Stays(t, us, 2, n + 1)
  BY <1>1
<1>4. ASSUME NEW t \in Quads
      PROVE  (\E i \in 1..n + 1 : t \in us[i].new /\ Stays(t, us, i + 1, n + 1))
               <=> \/ t \in first.new /\ Stays(t, us, 2, n + 1)
                   \/ \E i \in 1..n : t \in vs[i].new /\ Stays(t, vs, i + 1, n)
  <2>1. ASSUME NEW i \in 1..n
        PROVE  /\ i + 1 \in 1..n + 1 /\ vs[i] = us[i + 1]
               /\ Stays(t, vs, i + 1, n) <=> Stays(t, us, i + 1 + 1, n + 1)
    <3>1. i + 1 \in Nat \ {0} /\ i + 1 \in 1..n + 1
      OBVIOUS
    <3>2. QED BY <3>1, <1>1
  <2>2. ASSUME NEW i \in 1..n + 1, t \in us[i].new, Stays(t, us, i + 1, n + 1), i # 1
        PROVE  \E j \in 1..n : t \in vs[j].new /\ Stays(t, vs, j + 1, n)
    <3>1. i - 1 \in 1..n /\ i - 1 + 1 = i
      BY <2>2
    <3>2. /\ vs[i - 1] = us[i]
          /\ Stays(t, vs, i - 1 + 1, n) <=> Stays(t, us, i + 1, n + 1)
      BY <3>1, <2>1
    <3>3. QED BY <2>2, <3>1, <3>2
  <2>3. ASSUME t \in first.new, Stays(t, us, 2, n + 1)
        PROVE  \E i \in 1..n + 1 : t \in us[i].new /\ Stays(t, us, i + 1, n + 1)
    <3>1. 1 \in 1..n + 1 /\ 1 + 1 = 2
      OBVIOUS
    <3>2. QED BY <2>3, <3>1
  <2>4. ASSUME NEW i \in 1..n + 1, t \in us[i].new, Stays(t, us, i + 1, n + 1), i = 1
        PROVE  t \in first.new /\ Stays(t, us, 2, n + 1)
    <3>1. 1 + 1 = 2
      OBVIOUS
    <3>2. QED BY <2>4, <3>1
  <2>5. QED BY <2>1, <2>2, <2>3, <2>4
<1>5. QED
  <2>1. ASSUME NEW t
        PROVE  t \in Outcome((tiles \ first.deleted) \cup first.new, vs, n)
                 <=> t \in Outcome(tiles, us, n + 1)
    <3>1. t \in Outcome((tiles \ first.deleted) \cup first.new, vs, n)
            <=> \/ /\ (t \in tiles /\ t \notin first.deleted) \/ t \in first.new
                   /\ Stays(t, us, 2, n + 1)
                \/ /\ t \in Quads
                   /\ \E i \in 1..n : t \in vs[i].new /\ Stays(t, vs, i + 1, n)
      BY <1>3 DEF Outcome
    <3>2. t \in Outcome(tiles, us, n + 1)
            <=> \/ t \in tiles /\ t \notin first.deleted /\ Stays(t, us, 2, n + 1)
                \/ /\ t \in Quads
                   /\ \E i \in 1..n + 1 : t \in us[i].new /\ Stays(t, us, i + 1, n + 1)
      BY <1>2 DEF Outcome
    <3>3. QED BY <3>1, <3>2, <1>4
  <2>2. QED BY <2>1

-----------------------------------------------------------------------------
Update == [deleted : SUBSET Quads, new : SUBSET Quads]

(* What is inductive about the array and the updates that wait: the first  *)
(* n of them leave a set of tiles without gaps that fits, for every n.     *)
ViewInv ==
  /\ ArrayInv
  /\ DOMAIN id_to_layer \subseteq Quads
  /\ updates \in Seq(Update)
  /\ ArrayMirrorsGpu
  /\ \A i \in 1..Len(updates) :
       updates[i].deleted \subseteq After(i - 1) /\ updates[i].new \cap After(i - 1) = {}
  /\ \A i \in 0..Len(updates) : Cardinality(After(i)) <= ArraySize /\ TopDown(After(i))

LEMMA AfterNone == After(0) = DOMAIN id_to_layer
BY OutcomeOfNone DEF After

(* A new update is the last to be applied.                                 *)
LEMMA PostKeepsView ==
  ASSUME ViewInv, NEW deleted, NEW new, Post(deleted, new),
         deleted \subseteq DOMAIN gpu, new \subseteq Quads, new \cap DOMAIN gpu = {},
         DOMAIN gpu \subseteq Quads, DOMAIN gpu' = (DOMAIN gpu \ deleted) \cup new,
         Cardinality(DOMAIN gpu') <= ArraySize, TopDown(DOMAIN gpu')
  PROVE  ViewInv'
<1> DEFINE last == [deleted |-> deleted, new |-> new]
<1>0. PICK n \in Nat : n = Len(updates)
  BY DEF ViewInv
<1>1. updates \in Seq(Update) /\ n = Len(updates) /\ last \in Update
  BY <1>0 DEF ViewInv, Update
<1>2. /\ updates' = Append(updates, last)
      /\ id_to_layer' = id_to_layer /\ free_layers' = free_layers
  BY DEF Post, array_vars
<1>3. /\ updates' \in Seq(Update) /\ Len(updates') = n + 1
      /\ \A i \in 1..n : updates'[i] = updates[i]
      /\ updates'[n + 1] = last
  BY <1>1, <1>2
<1>4. \A i \in 0..n : After(i)' = After(i)
  <2> SUFFICES ASSUME NEW i \in 0..n PROVE After(i)' = After(i)
    OBVIOUS
  <2>1. \A j \in 1..i : updates'[j] = updates[j]
    BY <1>3, <1>1
  <2>2. Outcome(DOMAIN id_to_layer, updates', i) = Outcome(DOMAIN id_to_layer, updates, i)
    BY <2>1, OutcomeOfPrefix
  <2>3. QED BY <2>2, <1>2 DEF After, Outcome, Stays
<1>5. After(n + 1)' = DOMAIN gpu'
  <2>1. After(n) = DOMAIN gpu
    BY <1>1 DEF ViewInv, ArrayMirrorsGpu
  <2>2. Outcome(DOMAIN id_to_layer, updates', n) = DOMAIN gpu
    <3>1. Outcome(DOMAIN id_to_layer, updates', n) = Outcome(DOMAIN id_to_layer, updates, n)
      BY <1>1, <1>3, OutcomeOfPrefix
    <3>2. QED BY <2>1, <3>1 DEF After
  <2>3. Outcome(DOMAIN id_to_layer, updates', n + 1)
          = (Outcome(DOMAIN id_to_layer, updates', n) \ last.deleted) \cup last.new
    <3>1. updates'[n + 1] = last /\ last.new \subseteq Quads
      BY <1>3
    <3>2. QED BY <3>1, OutcomeOfNext
  <2>4. Outcome(DOMAIN id_to_layer, updates', n + 1) = (DOMAIN gpu \ deleted) \cup new
    BY <2>2, <2>3
  <2>5. QED BY <2>4, <1>2 DEF After, Outcome, Stays
<1>6. ArrayInv' /\ (DOMAIN id_to_layer \subseteq Quads)'
  BY <1>2 DEF ViewInv, ArrayInv, ArrayTypeOK, LayersPartitioned, Layers
<1>7. ArrayMirrorsGpu'
  BY <1>3, <1>5 DEF ArrayMirrorsGpu
<1>8. ASSUME NEW i \in 1..n + 1
      PROVE  /\ updates'[i].deleted \subseteq After(i - 1)'
             /\ updates'[i].new \cap After(i - 1)' = {}
  <2>1. i - 1 \in 0..n /\ After(i - 1)' = After(i - 1)
    BY <1>1, <1>4
  <2>2. CASE i = n + 1
    <3>1. After(i - 1)' = DOMAIN gpu
      BY <2>1, <2>2, <1>1 DEF ViewInv, ArrayMirrorsGpu
    <3>2. updates'[i] = last
      BY <1>3, <2>2
    <3>3. QED BY <3>1, <3>2
  <2>3. CASE i \in 1..n
    <3>1. updates'[i] = updates[i]
      BY <1>3, <2>3
    <3>2. updates[i].deleted \subseteq After(i - 1) /\ updates[i].new \cap After(i - 1) = {}
      BY <2>3, <1>1 DEF ViewInv
    <3>3. QED BY <2>1, <3>1, <3>2
  <2>4. QED BY <2>2, <2>3, <1>1
<1>9. ASSUME NEW i \in 0..n + 1
      PROVE  Cardinality(After(i)') <= ArraySize /\ TopDown(After(i)')
  <2>1. CASE i = n + 1
    BY <2>1, <1>5
  <2>2. CASE i \in 0..n
    <3>1. Cardinality(After(i)) <= ArraySize /\ TopDown(After(i))
      BY <2>2, <1>1 DEF ViewInv
    <3>2. QED BY <3>1, <2>2, <1>4
  <2>3. QED BY <2>1, <2>2, <1>1
<1>10. QED
  <2>1. \A i \in 0..Len(updates') : (Cardinality(After(i)) <= ArraySize)' /\ TopDown(After(i))'
    BY <1>9, <1>3 DEF TopDown, Reached
  <2>2. QED BY <1>3, <1>6, <1>7, <1>8, <2>1 DEF ViewInv

(* The first update that waits is applied whole.                           *)
LEMMA ApplyKeepsView ==
  ASSUME ViewInv, ApplyUpdate
  PROVE  ViewInv'
<1> DEFINE first == updates[1]
<1>0. PICK n \in Nat : n = Len(updates)
  BY DEF ViewInv
<1>1. /\ updates \in Seq(Update) /\ updates # <<>> /\ n \in Nat \ {0} /\ n = Len(updates)
      /\ first \in Update /\ Head(updates) = first
  BY <1>0 DEF ViewInv, ApplyUpdate
<1>2. /\ updates' = Tail(updates) /\ UpdateTiles(first.deleted, first.new) /\ gpu' = gpu
  BY <1>1 DEF ApplyUpdate, vars
<1>3. /\ updates' \in Seq(Update) /\ Len(updates') = n - 1
      /\ \A i \in 1..n - 1 : updates'[i] = updates[i + 1]
  BY <1>1, <1>2
<1>4. first.deleted \in SUBSET Tiles /\ first.new \in SUBSET Tiles /\ first.new \subseteq Quads
  BY <1>1, ArrayFits DEF Update
<1>5. ArrayInv'
  BY <1>2, <1>4, UpdatePartitions DEF ViewInv
<1>6. After(1) = (DOMAIN id_to_layer \ first.deleted) \cup first.new
  <2>1. Outcome(DOMAIN id_to_layer, updates, 0 + 1)
          = (Outcome(DOMAIN id_to_layer, updates, 0) \ updates[0 + 1].deleted) \cup updates[0 + 1].new
    BY <1>4, OutcomeOfNext
  <2>2. 0 + 1 = 1
    OBVIOUS
  <2>3. QED BY <2>1, <2>2, OutcomeOfNone DEF After
<1>7. DOMAIN id_to_layer' = After(1)
  <2>1. /\ first.new \cap After(0) = {}
        /\ Cardinality(After(1)) <= ArraySize
    <3>1. 1 \in 1..n /\ 1 \in 0..n /\ 1 - 1 = 0
      BY <1>1
    <3>2. QED BY <3>1, <1>1 DEF ViewInv
  <2>2. IsFiniteSet(first.new)
    BY <1>4, TreeType, FS_Subset
  <2>3. QED BY <2>1, <2>2, <1>2, <1>4, <1>6, AfterNone, UpdateFits DEF ViewInv
<1>8. \A i \in 0..n - 1 : After(i)' = After(i + 1)
  <2> SUFFICES ASSUME NEW i \in 0..n - 1 PROVE After(i)' = After(i + 1)
    OBVIOUS
  <2>1. i \in Nat /\ \A j \in 1..i : updates'[j] = updates[j + 1]
    BY <1>1, <1>3
  <2>2. Outcome((DOMAIN id_to_layer \ updates[1].deleted) \cup updates[1].new, updates', i)
          = Outcome(DOMAIN id_to_layer, updates, i + 1)
    BY <2>1, <1>4, OutcomeOfTail
  <2>3. Outcome(DOMAIN id_to_layer', updates', i) = Outcome(DOMAIN id_to_layer, updates, i + 1)
    BY <2>2, <1>6, <1>7
  <2>4. QED BY <2>3 DEF After, Outcome, Stays
<1>9. (DOMAIN id_to_layer \subseteq Quads)'
  BY <1>1, <1>4, <1>6, <1>7 DEF ViewInv
<1>10. ArrayMirrorsGpu'
  <2>1. After(n - 1)' = After(n)
    BY <1>1, <1>8
  <2>2. QED BY <2>1, <1>2, <1>3 DEF ViewInv, ArrayMirrorsGpu
<1>11. ASSUME NEW i \in 1..n - 1
       PROVE  /\ updates'[i].deleted \subseteq After(i - 1)'
              /\ updates'[i].new \cap After(i - 1)' = {}
  <2>1. i - 1 \in 0..n - 1 /\ i + 1 \in 1..n /\ i - 1 + 1 = i /\ i + 1 - 1 = i
    BY <1>1
  <2>2. After(i - 1)' = After(i) /\ updates'[i] = updates[i + 1]
    BY <2>1, <1>3, <1>8
  <2>3. updates[i + 1].deleted \subseteq After(i) /\ updates[i + 1].new \cap After(i) = {}
    BY <2>1, <1>1 DEF ViewInv
  <2>4. QED BY <2>2, <2>3
<1>12. ASSUME NEW i \in 0..n - 1
       PROVE  Cardinality(After(i)') <= ArraySize /\ TopDown(After(i)')
  <2>1. i + 1 \in 0..n /\ After(i)' = After(i + 1)
    BY <1>1, <1>8
  <2>2. QED BY <2>1, <1>1 DEF ViewInv
<1>13. QED
  <2>1. \A i \in 0..Len(updates') : (Cardinality(After(i)) <= ArraySize)' /\ TopDown(After(i))'
    BY <1>12, <1>3 DEF TopDown, Reached
  <2>2. QED BY <1>3, <1>5, <1>9, <1>10, <1>11, <2>1 DEF ViewInv

-----------------------------------------------------------------------------
(* Every step of the composition is a step of the scheduler, or none.      *)
LEMMA StepsOfScheduler == [ViewNext]_view_vars => [Next]_vars
BY DEF ViewNext, view_vars, Silent, PostUpdate, PostClear, ApplyUpdate, Next

(* What an update of the GPU emits is what it does, and it fits.           *)
LEMMA UpdateEmits ==
  ASSUME SchedulerInv, SchedulerInv', NEW P \in SUBSET Quads, UpdateTimeout(P)
  PROVE  /\ DeletedTiles(P) \subseteq DOMAIN gpu
         /\ NewTiles(P) \subseteq Quads /\ NewTiles(P) \cap DOMAIN gpu = {}
         /\ DOMAIN gpu' = (DOMAIN gpu \ DeletedTiles(P)) \cup NewTiles(P)
         /\ Cardinality(DOMAIN gpu') <= ArraySize
<1>1. /\ P \in Purges(GpuFilled, gpu_quad_limit) /\ gpu' = Without(GpuFilled, P)
  BY DEF UpdateTimeout
<1>2. /\ DOMAIN GpuFilled = DOMAIN gpu \cup Showable
      /\ DOMAIN GpuFilled \subseteq Quads
  BY FilledStamps DEF SchedulerInv
<1>3. P \subseteq DOMAIN GpuFilled /\ DOMAIN gpu' = DOMAIN GpuFilled \ P
  BY <1>1 DEF Purges, Without
<1>4. Candidates = Showable \ DOMAIN gpu
  BY DEF Candidates
<1>5. Cardinality(DOMAIN gpu') <= gpu_quad_limit
  <2>1. Cardinality(DOMAIN GpuFilled) \in Nat
    BY <1>2, TreeType, FS_Subset, FS_CardinalityType
  <2>2. gpu_quad_limit \in Nat
    BY SchedulerType DEF SchedulerInv, StampInv, TypeOK
  <2>3. CASE gpu_quad_limit >= Cardinality(DOMAIN GpuFilled)
    <3>1. P = {}
      BY <1>1, <2>3 DEF Purges
    <3>2. QED BY <3>1, <1>3, <2>1, <2>2, <2>3
  <2>4. CASE ~(gpu_quad_limit >= Cardinality(DOMAIN GpuFilled))
    <3>1. Cardinality(DOMAIN GpuFilled \ P) = gpu_quad_limit
      BY <1>1, <2>4 DEF Purges
    <3>2. QED BY <3>1, <1>3, <2>2
  <2>5. QED BY <2>3, <2>4
<1>6. Cardinality(DOMAIN gpu') <= ArraySize
  <2>1. gpu_quad_limit \in GpuLimits
    BY DEF SchedulerInv, StampInv, TypeOK
  <2>2. gpu_quad_limit \in Nat /\ gpu_quad_limit <= ArraySize
    BY <2>1, ArrayFits, SchedulerType
  <2>3. Cardinality(DOMAIN gpu') \in Nat
    BY <1>2, <1>3, TreeType, FS_Subset, FS_CardinalityType
  <2>4. QED BY <1>5, <2>2, <2>3, ArraySizeType
<1>7. QED BY <1>2, <1>3, <1>4, <1>6 DEF DeletedTiles, NewTiles

(* The scheduler's invariant and the array's are inductive together.       *)
LEMMA ViewInvInit == ViewInit => SchedulerInv /\ ViewInv
<1> SUFFICES ASSUME ViewInit PROVE SchedulerInv /\ ViewInv
  OBVIOUS
<1>1. /\ Init /\ ArrayInit /\ updates = <<>> /\ Len(updates) = 0
      /\ DOMAIN id_to_layer = {} /\ DOMAIN gpu = {}
  BY DEF ViewInit, ArrayInit, Init, Empty
<1>2. After(0) = {}
  BY <1>1, AfterNone
<1>3. Cardinality({}) <= ArraySize /\ TopDown({})
  BY FS_EmptySet, ArraySizeType DEF TopDown, Reached
<1>4. \A i \in 0..0 : i = 0
  OBVIOUS
<1>5. QED BY <1>1, <1>2, <1>3, <1>4, InvInit, ArrayInvInit DEF ViewInv, ArrayMirrorsGpu

LEMMA UnseenKeepsView ==
  ASSUME ViewInv, UNCHANGED <<updates, array_vars>>, DOMAIN gpu' = DOMAIN gpu
  PROVE  ViewInv'
<1>1. updates' = updates /\ id_to_layer' = id_to_layer /\ free_layers' = free_layers
  BY DEF array_vars
<1>2. \A i : After(i)' = After(i)
  BY <1>1 DEF After, Outcome, Stays
<1>3. ArrayInv' /\ (DOMAIN id_to_layer \subseteq Quads)' /\ ArrayMirrorsGpu'
  BY <1>1, <1>2 DEF ViewInv, ArrayInv, ArrayTypeOK, LayersPartitioned, Layers, ArrayMirrorsGpu
<1>4. \A i \in 0..Len(updates') : (Cardinality(After(i)) <= ArraySize)' /\ TopDown(After(i))'
  <2>1. \A i \in 0..Len(updates) : Cardinality(After(i)) <= ArraySize /\ TopDown(After(i))
    BY DEF ViewInv
  <2>2. QED BY <2>1, <1>1, <1>2 DEF TopDown, Reached
<1>5. QED BY <1>1, <1>2, <1>3, <1>4 DEF ViewInv

LEMMA ViewInvHolds == SchedulerInv /\ ViewInv /\ [ViewNext]_view_vars => (SchedulerInv /\ ViewInv)'
<1> SUFFICES ASSUME SchedulerInv, ViewInv, [ViewNext]_view_vars PROVE SchedulerInv' /\ ViewInv'
  OBVIOUS
<1>1. SchedulerInv'
  BY StepsOfScheduler, InvHolds
<1>2. DOMAIN gpu \subseteq Quads /\ TopDown(DOMAIN gpu')
  BY <1>1 DEF SchedulerInv, GpuInv, AncestorsAfter, TopDown, Reached
<1>3. CASE UNCHANGED view_vars
  <2>1. UNCHANGED <<updates, array_vars>> /\ gpu' = gpu
    BY <1>3 DEF view_vars, vars
  <2>2. QED BY <1>1, <2>1, UnseenKeepsView
<1>4. CASE Silent
  <2>1. UNCHANGED <<updates, array_vars>> /\ gpu' = gpu
    BY <1>4 DEF Silent, UpdateCamera, ReceiveQuad, SetNetworkReachability, SetEnabled,
                PurgeTimeout, PersistTimeout, SetGpuQuadLimit, SetRamQuadLimit, Tick, Retire,
                ReadDiskCache
  <2>2. QED BY <1>1, <2>1, UnseenKeepsView
<1>5. ASSUME NEW P \in SUBSET Quads, PostUpdate(P) PROVE ViewInv'
  <2>1. UpdateTimeout(P) /\ Post(DeletedTiles(P), NewTiles(P))
    BY <1>5 DEF PostUpdate
  <2>2. QED BY <2>1, <1>1, <1>2, UpdateEmits, PostKeepsView
<1>6. CASE PostClear
  <2>1. Post(DOMAIN gpu, {}) /\ DOMAIN gpu' = {}
    BY <1>6 DEF PostClear, ClearFullCache, Empty
  <2>2. Cardinality({}) <= ArraySize
    BY FS_EmptySet, ArraySizeType
  <2>3. /\ DOMAIN gpu' = (DOMAIN gpu \ DOMAIN gpu) \cup {}
        /\ Cardinality(DOMAIN gpu') <= ArraySize
        /\ {} \subseteq Quads /\ {} \cap DOMAIN gpu = {} /\ DOMAIN gpu \subseteq DOMAIN gpu
    BY <2>1, <2>2
  <2>4. ViewInv'
    BY <2>1, <2>3, <1>2, PostKeepsView
  <2>5. QED BY <2>4, <1>1
<1>7. CASE ApplyUpdate
  BY <1>7, <1>1, ApplyKeepsView
<1>8. CASE \E P \in SUBSET Quads : PostUpdate(P)
  BY <1>8, <1>1, <1>5
<1>9. ViewNext \/ UNCHANGED view_vars
  OBVIOUS
<1>10. ViewInv'
  BY <1>3, <1>4, <1>6, <1>7, <1>8, <1>9 DEF ViewNext
<1>11. QED BY <1>1, <1>10

(* The array shows what the scheduler believes to be on the GPU, once the  *)
(* updates that wait are applied.                                          *)
THEOREM ArrayFollowsScheduler == ViewSpec => []ArrayMirrorsGpu
<1>1. ViewInv => ArrayMirrorsGpu
  BY DEF ViewInv
<1>2. QED BY ViewInvInit, ViewInvHolds, <1>1, PTL DEF ViewSpec

(* The assertions of GpuArrayHelper hold for every update that waits: none *)
(* removes what is not there, adds what is there, or finds no free layer.  *)
THEOREM UpdatesFit == ViewSpec => []UpdatesApply
<1>1. ViewInv => UpdatesApply
  BY DEF ViewInv, UpdatesApply
<1>2. QED BY ViewInvInit, ViewInvHolds, <1>1, PTL DEF ViewSpec

(* Whatever part of the updates was applied, no tile is on the array       *)
(* without its ancestors.                                                  *)
THEOREM ArrayStaysTopDown == ViewSpec => []ArrayTopDown
<1>1. ViewInv => ArrayTopDown
  <2>1. ASSUME ViewInv PROVE TopDown(After(0))
    <3>1. Len(updates) \in Nat
      BY <2>1 DEF ViewInv
    <3>2. QED BY <2>1, <3>1 DEF ViewInv
  <2>2. QED BY <2>1, AfterNone DEF ArrayTopDown
<1>2. QED BY ViewInvInit, ViewInvHolds, <1>1, PTL DEF ViewSpec

(* The layers of the array that the scheduler's updates are applied to are *)
(* partitioned among its tiles and what is free.                           *)
THEOREM ViewLayersPartitioned == ViewSpec => []LayersPartitioned
<1>1. ViewInv => LayersPartitioned
  BY DEF ViewInv, ArrayInv
<1>2. QED BY ViewInvInit, ViewInvHolds, <1>1, PTL DEF ViewSpec
=============================================================================
