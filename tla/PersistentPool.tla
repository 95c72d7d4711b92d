--------------------------- MODULE PersistentPool ---------------------------
(***************************************************************************)
(* webgpu::rg::PersistentResourcePool: the GPU objects that outlive a      *)
(* frame of the render graph.  An entry belongs to a name; it has one      *)
(* layer, or two that change places in each frame that uses the entry.     *)
(* Only differences of the pool's clock matter, so a stored clock reading  *)
(* is kept as an age or as the comparison it is used for.                  *)
(***************************************************************************)
EXTENDS Integers, FiniteSets

CONSTANTS
  Names,   \* the names resources are declared with
  Bits,    \* the usage flags
  Sigs,    \* the signatures (TexSignature, or the size of a buffer)
  Hashes,  \* the hashes given to initialize() and create_history_*()
  NoSig,   \* the signature of an entry that was never realized
  Retain   \* kRetain

ASSUME RetainType == Retain \in Nat \ {0}
ASSUME HashesType == Hashes \subseteq Nat /\ 0 \in Hashes
ASSUME NoSigType == NoSig \notin Sigs

VARIABLES
  pool,   \* entries, as a partial function on names
  shown   \* history: what layer 0 held when the last frame ended, if that frame used it

pool_vars == <<pool, shown>>

-----------------------------------------------------------------------------
Kinds == {"texture", "buffer"}

(* History: what a layer holds, as the hash that was baked into it and the *)
(* frames since it was written; Never if it was not since it was created.  *)
NoBake == -1
Never == 3
Content == [bake : Hashes \cup {NoBake}, age : 0..Never]
Blank == [bake |-> NoBake, age |-> Never]
Aged(c) == IF c.age < 2 THEN [c EXCEPT !.age = @ + 1] ELSE c

(* A graph's use of a name: what its nodes pass to touch and realize.      *)
Use == [kind : Kinds, layers : 1..2, hash : Hashes, sig : Sigs, usage : SUBSET Bits]

NewEntry(use) ==
  [kind |-> use.kind, layers |-> use.layers, turn |-> 0,
   idle |-> 0,           \* evictClock - lastTouched
   recent |-> FALSE,     \* prevTouched = evictClock - 1, while idle = 0
   fresh |-> FALSE,      \* createdClock = evictClock
   created |-> FALSE,
   sig |-> [k \in Kinds |-> NoSig],
   usage |-> [k \in Kinds |-> {}], atCreate |-> [k \in Kinds |-> {}],
   baked |-> FALSE, initHash |-> 0, historyHash |-> use.hash,
   content |-> [s \in 0..1 |-> Blank]]

(* The object behind a layer: the two of a history change places.          *)
Slot(e, layer) == IF e.layers = 2 THEN (e.turn + layer) % 2 ELSE 0

(* Mutant of Destroyed: the entry still counts as baked.                   *)
DestroyedBaked(e) ==
  [e EXCEPT !.created = FALSE, !.content = [s \in 0..1 |-> Blank]]

Destroyed(e) ==
  [e EXCEPT !.created = FALSE, !.baked = FALSE, !.content = [s \in 0..1 |-> Blank]]

(* tex_entry_would_recreate and buf_entry_would_recreate                   *)
WouldRecreate(e, kind, sig, usage) ==
  \/ ~e.created
  \/ e.sig[kind] # sig
  \/ ~(usage \subseteq e.atCreate[kind])

HashForcesDestroy(e, hash) == hash # 0 /\ e.historyHash # hash

Kept(e, use) ==
  IF e.kind # use.kind \/ e.layers # use.layers THEN Destroyed(e) ELSE e

Turned(e, use) ==
  [e EXCEPT !.recent = (e.idle = 1), !.turn = 1 - @, !.idle = 0,
            !.layers = use.layers, !.kind = use.kind]

Rehashed(e, use) ==
  IF HashForcesDestroy(e, use.hash)
  THEN [Destroyed(e) EXCEPT !.historyHash = use.hash] ELSE e

(* Mutant of Touched: every graph of a frame turns the layers.             *)
TouchedEachTime(e, use) == Rehashed(Turned(Kept(e, use), use), use)

(* touch, of an entry that exists.                                         *)
Touched(e, use) ==
  IF e.idle = 0 THEN e ELSE Rehashed(Turned(Kept(e, use), use), use)

Widened(e, use) == [e EXCEPT !.usage[use.kind] = @ \cup use.usage]

(* The first loop of realize_graph.                                        *)
TouchedAll(uses) ==
  [n \in DOMAIN pool \cup DOMAIN uses |->
     IF n \notin DOMAIN uses THEN pool[n]
     ELSE Widened(IF n \in DOMAIN pool THEN Touched(pool[n], uses[n]) ELSE NewEntry(uses[n]),
                  uses[n])]

(* The internal errors that end realize_graph.                             *)
Shrank(e, kind) == ~(e.atCreate[kind] \subseteq e.usage[kind])
Refused(e, use) ==
  \/ Shrank(e, use.kind)
  \/ WouldRecreate(e, use.kind, use.sig, e.usage[use.kind]) /\ e.fresh

(* realize_texture_entry and realize_buffer_entry                          *)
Realized(e, use) ==
  IF ~WouldRecreate(e, use.kind, use.sig, e.usage[use.kind]) THEN e
  ELSE [Destroyed(e) EXCEPT !.sig[use.kind] = use.sig,
                            !.atCreate[use.kind] = e.usage[use.kind],
                            !.created = TRUE, !.fresh = TRUE]

RealizedAll(uses, reached) ==
  [n \in DOMAIN pool \cup DOMAIN uses |->
     IF n \in reached THEN Realized(TouchedAll(uses)[n], uses[n]) ELSE TouchedAll(uses)[n]]

(* What the passes leave behind: initialize() stamps its targets, and      *)
(* layer 0 is the only one that is written.                                *)
Stamped(e, hash) == [e EXCEPT !.baked = TRUE, !.initHash = hash]
WithContent(e, c) == [e EXCEPT !.content[Slot(e, 0)] = c]
Encoded(e, n, bakes, written) ==
  IF n \in DOMAIN bakes THEN WithContent(Stamped(e, bakes[n]), [bake |-> bakes[n], age |-> 0])
  ELSE IF n \in written THEN WithContent(e, [e.content[Slot(e, 0)] EXCEPT !.age = 0])
  ELSE e

-----------------------------------------------------------------------------
PoolInit ==
  /\ pool = [n \in {} |-> Blank]
  /\ shown = [n \in {} |-> Blank]

(* execute() of a graph: all it uses is touched, what is reached is        *)
(* realized, and unless an entry was refused the passes run.               *)
PoolExecute(uses, reached, bakes, written) ==
  /\ reached \subseteq DOMAIN uses
  /\ \A n \in reached : ~Refused(TouchedAll(uses)[n], uses[n])
  /\ DOMAIN bakes \cup written \subseteq DOMAIN uses
  /\ reached # DOMAIN uses =>
       /\ DOMAIN bakes \cup written = {}
       /\ \E n \in DOMAIN uses \ reached : Refused(TouchedAll(uses)[n], uses[n])
  /\ pool' = [n \in DOMAIN pool \cup DOMAIN uses |->
                Encoded(RealizedAll(uses, reached)[n], n, bakes, written)]
  /\ UNCHANGED shown

OneFrameOlder(e) ==
  [e EXCEPT !.idle = @ + 1, !.recent = FALSE, !.fresh = FALSE,
            !.content = [s \in 0..1 |-> Aged(e.content[s])]]

(* end_frame                                                               *)
PoolEndFrame ==
  LET kept == {n \in DOMAIN pool : pool[n].idle < Retain} IN
  /\ pool' = [n \in kept |-> OneFrameOlder(pool[n])]
  /\ shown' = [n \in {m \in kept : pool[m].idle = 0} |->
                 Aged(pool[n].content[Slot(pool[n], 0)])]

PoolNext ==
  \/ \E N \in SUBSET Names : \E uses \in [N -> Use], reached, written \in SUBSET N :
       \E B \in SUBSET N : \E bakes \in [B -> Hashes] :
         PoolExecute(uses, reached, bakes, written)
  \/ PoolEndFrame

PoolSpec == PoolInit /\ [][PoolNext]_pool_vars

-----------------------------------------------------------------------------
Entry ==
  [kind : Kinds, layers : 1..2, turn : 0..1, idle : 0..Retain, recent : BOOLEAN,
   fresh : BOOLEAN, created : BOOLEAN, sig : [Kinds -> Sigs \cup {NoSig}],
   usage : [Kinds -> SUBSET Bits], atCreate : [Kinds -> SUBSET Bits],
   baked : BOOLEAN, initHash : Hashes, historyHash : Hashes, content : [0..1 -> Content]]

(* Entries of the pool, and what was shown of them, belong to names of     *)
(* resources.                                                              *)
PoolTypeOK ==
  /\ DOMAIN pool \subseteq Names
  /\ \A n \in DOMAIN pool : pool[n] \in Entry
  /\ DOMAIN shown \subseteq Names
  /\ \A n \in DOMAIN shown : shown[n] \in Content

(* What compile() and realize_graph read off an entry can be trusted: an   *)
(* entry that is baked holds that bake, one without objects holds nothing, *)
(* and only an entry of this frame is fresh.  Usage only grows, so the     *)
(* internal error "its pooled usage shrank" is never reported.             *)
PoolSane ==
  \A n \in DOMAIN pool :
    LET e == pool[n] IN
    /\ e.baked => \E layer \in 0..(e.layers - 1) : e.content[layer].bake = e.initHash
    /\ ~e.created => e.content = [s \in 0..1 |-> Blank]
    /\ e.fresh => e.idle = 0 /\ e.created
    /\ \A k \in Kinds : ~Shrank(e, k)

(* history_valid, as realize_graph computes it.                            *)
HistoryValid(e) == e.created /\ ~e.fresh /\ e.recent

(* A history is declared valid exactly if the last frame used it and its   *)
(* objects are the same since; .prev is then what .curr held at the end of *)
(* that frame, however many graphs ran in the two frames and whether or    *)
(* not they succeeded.                                                     *)
HistoryCarries ==
  \A n \in DOMAIN pool :
    LET e == pool[n] IN
    e.idle = 0 /\ e.layers = 2 =>
      /\ HistoryValid(e) => n \in DOMAIN shown /\ e.content[Slot(e, 1)] = shown[n]
      /\ e.created /\ ~e.fresh /\ n \in DOMAIN shown => HistoryValid(e)
=============================================================================
