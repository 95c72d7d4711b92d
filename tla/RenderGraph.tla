----------------------------- MODULE RenderGraph -----------------------------
(***************************************************************************)
(* webgpu::rg::RenderGraph::compile(): from the passes and resources that  *)
(* were recorded to the passes that run, in which order, and on which      *)
(* objects.                                                                *)
(*                                                                         *)
(* The validators of cube views and access ranges are left out: they only  *)
(* reject, and look at what a recording leaves out.                        *)
(***************************************************************************)
EXTENDS PersistentPool, Recording, Lists

-----------------------------------------------------------------------------
(* What may be recorded, of the names, hashes, signatures and usages there *)
(* are.                                                                    *)
Desc ==
  [size : Nat, rel : BOOLEAN, base : Nat, num : Nat, form : STRING, samples : Nat, plain : BOOLEAN]
NodeType ==
  [name : Names, kind : Kinds, life : {"transient", "imported", "persistent", "history"},
   layer : 0..1, hash : Hashes, desc : Desc]
AccessType ==
  [n : Nat, type : STRING, clear : BOOLEAN, discard : BOOLEAN, full : BOOLEAN, of : Nat]
PassType ==
  [kind : STRING, acc : Seq(AccessType), init : SUBSET [n : Nat, hash : Hashes], keep : BOOLEAN]
Recordings == [nodes : Seq(NodeType), passes : Seq(PassType)]

(* access_semantics                                                        *)
UsageOf(a) ==
  CASE a.type \in Attachments -> {"RenderAttachment"}
    [] a.type \in {"StorageRead", "StorageWrite"} -> {"Storage"}
    [] a.type = "Uniform" -> {"Uniform", "CopyDst"}
    [] OTHER -> {a.type}

(* access_defines: the access leaves nothing of what was there.            *)
Defines(r, a) ==
  \/ a.type \in {"ColorAttachment", "DepthStencilAttachment"} /\ a.clear
  \/ a.type = "StorageWrite"
  \/ a.type = "CopyDst" /\ r.nodes[a.n].kind = "buffer" /\ a.full

AccessesOf(r, p, n) ==
  LET acc == r.passes[p].acc IN Picked(acc, {i \in DOMAIN acc : acc[i].n = n})
Uses(r, p, n) == AccessesOf(r, p, n) # <<>>
Writes(r, p, n) == \E a \in ToSet(AccessesOf(r, p, n)) : IsWrite(a)
Reads(r, p, n) == \E a \in ToSet(AccessesOf(r, p, n)) : ~IsWrite(a)

Pooled(node) == node.life \in {"persistent", "history"}
External(node) == node.life = "imported" \/ Pooled(node)

(* resolve_size: an extent of zero cannot be the result of scaling.  What  *)
(* a texture is relative to was declared before it, so there are no cycles.*)
SizeOf(r, n) ==
  LET size[k \in DOMAIN r.nodes] ==
        LET desc == r.nodes[k].desc IN
        IF r.nodes[k].life = "imported" \/ ~desc.rel THEN desc.size
        ELSE Max({1, (size[desc.base] * desc.num + 1) \div 2})
  IN  size[n]

(* tex_signature                                                           *)
SigOf(r, n) ==
  [size |-> SizeOf(r, n), form |-> r.nodes[n].desc.form, samples |-> r.nodes[n].desc.samples]

UsageBy(r, passes, n) ==
  UNION {UsageOf(a) : a \in UNION {ToSet(AccessesOf(r, p, n)) : p \in passes}}

Known(r) ==
  /\ \A n \in DOMAIN r.nodes : SigOf(r, n) \in Sigs
  /\ \A p \in DOMAIN r.passes : \A a \in ToSet(r.passes[p].acc) : UsageOf(a) \subseteq Bits

-----------------------------------------------------------------------------
(* Mutant of BakeHolds: that realize would create it anew is not foreseen. *)
BakeHoldsBlindly(r, target) ==
  LET node == r.nodes[target.n] IN
  node.name \in DOMAIN pool /\ pool[node.name].baked /\ pool[node.name].initHash = target.hash

(* Phase 0: the target still holds the bake, and will when it is realized. *)
BakeHolds(r, target) ==
  LET node == r.nodes[target.n] IN
  node.name \in DOMAIN pool /\
    LET e == pool[node.name] IN
    /\ e.created /\ e.baked /\ e.initHash = target.hash
    /\ ~WouldRecreate(e, node.kind, SigOf(r, target.n),
                      UsageBy(r, DOMAIN r.passes, target.n))
    /\ ~HashForcesDestroy(e, node.hash)

Skipped(r) ==
  {p \in DOMAIN r.passes :
     r.passes[p].init # {} /\ \A target \in r.passes[p].init : BakeHolds(r, target)}

-----------------------------------------------------------------------------
(* Phase 1: sweep_resource_versions.  What pass p finds when the sweep     *)
(* comes to it: the pass that wrote n last, and those that have read it    *)
(* since.                                                                  *)
Producer(r, skip, p, n) == Max({0} \cup {q \in 1..(p - 1) \ skip : Writes(r, q, n)})

Readers(r, skip, p, n) ==
  {q \in 1..(p - 1) \ skip : Reads(r, q, n) /\ q >= Producer(r, skip, p, n)}

ProducerEdge(r, skip, p, n) ==
  IF Producer(r, skip, p, n) = 0 THEN <<>> ELSE <<Producer(r, skip, p, n)>>

(* Mutant of Edges: a write does not wait for those who read before it.    *)
EdgesWithoutWar(r, skip, p, a) == ProducerEdge(r, skip, p, a.n)

(* RAW or WAW, then WAR from the last reader to the first.                 *)
Edges(r, skip, p, a) ==
  ProducerEdge(r, skip, p, a.n)
    \o (IF IsWrite(a) THEN Backwards(Ascending(Readers(r, skip, p, a.n))) ELSE <<>>)

(* The adjacency list of p: an edge is emitted once, and prepended.        *)
Adjacency(r, skip, p) ==
  Backwards(Distinct(Concat(
    [i \in DOMAIN r.passes[p].acc |-> Edges(r, skip, p, r.passes[p].acc[i])])))

(* Phase 2: what each pass needs, and the pass, in post-order; all edges   *)
(* lead to earlier passes.  What was visited before is not visited again.  *)
PostOrder(r, skip) ==
  LET post[p \in DOMAIN r.passes] ==
        LET needs == Adjacency(r, skip, p) IN
        Distinct(Append(Concat([i \in DOMAIN needs |-> post[needs[i]]]), p))
  IN  post

IsSink(r, p) ==
  \/ r.passes[p].keep
  \/ \E a \in ToSet(r.passes[p].acc) :
       IsWrite(a) /\ r.nodes[a.n].life \in {"imported", "history"}

(* The passes that a sink needs, in the order in which they run.           *)
OrderOf(r, skip) ==
  LET sinks == Ascending({p \in DOMAIN r.passes \ skip : IsSink(r, p)})
  IN  Distinct(Concat([i \in DOMAIN sinks |-> PostOrder(r, skip)[sinks[i]]]))

-----------------------------------------------------------------------------
(* What is known of a node when the surviving passes are walked in order.  *)
UsedAt(r, order, n) == {k \in DOMAIN order : Uses(r, order[k], n)}
FirstUse(r, order, n) == Min(UsedAt(r, order, n))
LastUse(r, order, n) == Max(UsedAt(r, order, n))
NodeUsage(r, order, n) == UsageBy(r, ToSet(order), n)
LiveAccesses(r, order, n) ==
  Concat([k \in DOMAIN order |-> AccessesOf(r, order[k], n)])

(* Post-cull validation.                                                   *)
WritesOlderLayer(r, order) ==
  \E p \in ToSet(order), n \in DOMAIN r.nodes :
    Pooled(r.nodes[n]) /\ r.nodes[n].layer # 0 /\ Writes(r, p, n)

ReadsUnproduced(r, order) ==
  \E n \in DOMAIN r.nodes :
    /\ ~External(r.nodes[n])
    /\ LiveAccesses(r, order, n) # <<>>
    /\ ~IsWrite(Head(LiveAccesses(r, order, n)))

(* validate_history_layers: both layers are used, or neither.              *)
HalfUsedHistory(r, order) ==
  \E n \in DOMAIN r.nodes :
    /\ r.nodes[n].life = "history" /\ r.nodes[n].layer = 0
    /\ (UsedAt(r, order, n) = {}) # (UsedAt(r, order, n + 1) = {})

ZeroExtent(r, order) ==
  \E n \in DOMAIN r.nodes :
    r.nodes[n].kind = "texture" /\ UsedAt(r, order, n) # {} /\ SizeOf(r, n) = 0

(* validate_render_passes: a pass that draws has an attachment; colors and *)
(* depth agree in size and samples; and a color that is resolved has       *)
(* several samples, of which the target holds one.                         *)
Alike(r, m, n) ==
  SizeOf(r, m) = SizeOf(r, n) /\ r.nodes[m].desc.samples = r.nodes[n].desc.samples

Resolvable(r, src, target) ==
  /\ SizeOf(r, src) = SizeOf(r, target)
  /\ r.nodes[src].desc.samples > 1
  /\ r.nodes[target].desc.samples = 1
  /\ r.nodes[src].desc.form = r.nodes[target].desc.form

DrawsNowhere(r, order) ==
  \E pass \in {r.passes[p] : p \in ToSet(order)} :
    LET drawn == OfType(pass, DepthAttachments \cup {"ColorAttachment"}) IN
    /\ pass.kind = "Graphics"
    /\ \/ drawn = <<>>
       \/ \E a, b \in ToSet(drawn) : ~Alike(r, a.n, b.n)
       \/ \E a \in ToSet(drawn) :
            a.type \in DepthAttachments /\ r.nodes[a.n].desc.form # "depth"
       \/ \E a \in ToSet(pass.acc) : a.of # 0 /\ ~Resolvable(r, a.of, a.n)

(* initialize() is for persistent and history resources.                   *)
BakesPooled(r) ==
  \A p \in DOMAIN r.passes : \A target \in r.passes[p].init : Pooled(r.nodes[target.n])

Rejects(r, order) ==
  \/ WritesOlderLayer(r, order)
  \/ ReadsUnproduced(r, order)
  \/ ZeroExtent(r, order)
  \/ HalfUsedHistory(r, order)
  \/ DrawsNowhere(r, order)

-----------------------------------------------------------------------------
(* detect_transient_attachments                                            *)
MemorylessNodes(r, order) ==
  {n \in DOMAIN r.nodes :
     /\ ~External(r.nodes[n]) /\ r.nodes[n].kind = "texture" /\ r.nodes[n].desc.plain
     /\ NodeUsage(r, order, n) = {"RenderAttachment"}
     /\ Len(LiveAccesses(r, order, n)) = 1
     /\ LET a == Head(LiveAccesses(r, order, n))
        IN  a.type \in {"ColorAttachment", "DepthStencilAttachment"} /\ a.clear /\ a.discard}

(* Phase 4: the transients that may share an object with others.           *)
Aliasable(r, order) ==
  {n \in DOMAIN r.nodes \ MemorylessNodes(r, order) :
     /\ ~External(r.nodes[n])
     /\ r.nodes[n].kind = "texture" => r.nodes[n].desc.plain /\ r.nodes[n].desc.samples = 1
     /\ UsedAt(r, order, n) # {}
     /\ \E k \in UsedAt(r, order, n) : Writes(r, order[k], n)
     /\ Defines(r, Head(LiveAccesses(r, order, n)))}

(* Mutant of Fits: the last pass of one may be the first of the other.     *)
FitsClosely(r, order, slot, n) ==
  /\ slot.kind = r.nodes[n].kind
  /\ slot.sig = SigOf(r, n)
  /\ slot.freeFrom <= FirstUse(r, order, n)

Fits(r, order, slot, n) ==
  /\ slot.kind = r.nodes[n].kind
  /\ slot.sig = SigOf(r, n)
  /\ slot.freeFrom < FirstUse(r, order, n)

Joined(r, order, slot, n) ==
  [slot EXCEPT !.usage = @ \cup NodeUsage(r, order, n),
               !.freeFrom = LastUse(r, order, n), !.members = @ \cup {n}]

AddToSlots(r, order, slots, n) ==
  LET fits == {i \in DOMAIN slots : Fits(r, order, slots[i], n)}
      opened == [kind |-> r.nodes[n].kind, sig |-> SigOf(r, n), usage |-> {},
                 identity |-> r.nodes[n].name, freeFrom |-> 0, members |-> {}]
  IN  IF fits # {} THEN [slots EXCEPT ![Min(fits)] = Joined(r, order, @, n)]
      ELSE Append(slots, Joined(r, order, opened, n))

Earliest(r, order, todo) ==
  CHOOSE n \in todo : \A m \in todo :
    \/ FirstUse(r, order, n) < FirstUse(r, order, m)
    \/ FirstUse(r, order, n) = FirstUse(r, order, m) /\ n <= m

AliasSlots(r, order) ==
  LET all == Aliasable(r, order)
      after[k \in 0..Cardinality(all)] ==
        IF k = 0 THEN [slots |-> <<>>, todo |-> all]
        ELSE LET was == after[k - 1]
                 n == Earliest(r, order, was.todo)
             IN  [slots |-> AddToSlots(r, order, was.slots, n), todo |-> was.todo \ {n}]
  IN  after[Cardinality(all)].slots

(* compile(): a graph that is compiled, or NoGraph with the error state.   *)
Failed == [ok |-> FALSE, skip |-> {}, order |-> <<>>, slots |-> <<>>]

Compiled(r, alias) ==
  IF ~BakesPooled(r) THEN Failed
  ELSE LET skip == Skipped(r)
           order == OrderOf(r, skip)
       IN  IF Rejects(r, order) THEN Failed
           ELSE [ok |-> TRUE, skip |-> skip, order |-> order,
                 slots |-> IF alias THEN AliasSlots(r, order) ELSE <<>>]
=============================================================================
