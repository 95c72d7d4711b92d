------------------------------ MODULE Recording ------------------------------
(***************************************************************************)
(* Recording a webgpu::rg::RenderGraph: declaring resources, and passes    *)
(* with what they access.  A recording r has                               *)
(*   r.nodes   the resource nodes in the order of their declaration; the   *)
(*             position of a node is its handle;                           *)
(*   r.passes  the passes in the order of their declaration.               *)
(* What declares a resource is the sequence of nodes it appends, what      *)
(* declares an access the sequence of accesses it appends to its pass.     *)
(* Legal says what the assertions of all of these ask for.                 *)
(*                                                                         *)
(* An extent is one number.  An access is to the whole of its resource:    *)
(* mips, layers, aspects and byte ranges are left out, and with them the   *)
(* attachment slots, which only need to be distinct.                       *)
(***************************************************************************)
EXTENDS Integers, SequencesExt

-----------------------------------------------------------------------------
(* A descriptor: size or, if rel, num/2 times the size of node base; form, *)
(* the format and the rest of the signature; the number of samples; and    *)
(* plain, if it is 2D with one mip level and one layer.                    *)
Texture2D(size) ==
  [size |-> size, rel |-> FALSE, base |-> 0, num |-> 2,
   form |-> "rgba", samples |-> 1, plain |-> TRUE]
Relative(base, num) == [Texture2D(0) EXCEPT !.rel = TRUE, !.base = base, !.num = num]
DepthFormat(desc) == [desc EXCEPT !.form = "depth"]
Multisampled(desc) == [desc EXCEPT !.samples = 4]
Bytes(size) == [Texture2D(size) EXCEPT !.form = "bytes"]

Node(name, kind, life, desc) ==
  [name |-> name, kind |-> kind, life |-> life, layer |-> 0, hash |-> 0, desc |-> desc]

CreateTransientTexture(name, desc) == <<Node(name, "texture", "transient", desc)>>
CreateTransientBuffer(name, size) == <<Node(name, "buffer", "transient", Bytes(size))>>
ImportTexture(name, desc) == <<Node(name, "texture", "imported", desc)>>
ImportBuffer(name, size) == <<Node(name, "buffer", "imported", Bytes(size))>>
CreatePersistentTexture(name, desc) == <<Node(name, "texture", "persistent", desc)>>
CreatePersistentBuffer(name, size) == <<Node(name, "buffer", "persistent", Bytes(size))>>

(* .curr, and .prev right after it.                                        *)
BothLayers(curr) == <<curr, [curr EXCEPT !.layer = 1]>>
CreateHistoryTexture(name, desc, hash) ==
  BothLayers([Node(name, "texture", "history", desc) EXCEPT !.hash = hash])
CreateHistoryBuffer(name, size, hash) ==
  BothLayers([Node(name, "buffer", "history", Bytes(size)) EXCEPT !.hash = hash])

-----------------------------------------------------------------------------
(* An access names a node n and has a type; clear and discard are its load *)
(* and store operation, full says that a copy covers the whole buffer, and *)
(* of is the color that a target resolves.                                 *)
Access(n, type) ==
  [n |-> n, type |-> type, clear |-> FALSE, discard |-> FALSE, full |-> FALSE, of |-> 0]

IsWrite(a) ==
  a.type \in {"ColorAttachment", "DepthStencilAttachment", "ResolveAttachment",
              "StorageWrite", "CopyDst"}

Attachment(n, type, clear, discard) ==
  <<[Access(n, type) EXCEPT !.clear = clear, !.discard = discard]>>
Color(n, clear, discard) == Attachment(n, "ColorAttachment", clear, discard)
DepthStencil(n, clear, discard) == Attachment(n, "DepthStencilAttachment", clear, discard)
DepthStencilReadOnly(n) == <<Access(n, "DepthStencilReadOnly")>>
ResolveTo(src, target) == <<[Access(target, "ResolveAttachment") EXCEPT !.of = src]>>

Sampled(n) == <<Access(n, "Sampled")>>
StorageRead(n) == <<Access(n, "StorageRead")>>
StorageWrite(n) == <<Access(n, "StorageWrite")>>
StorageReadWrite(n) == StorageRead(n) \o StorageWrite(n)
Uniform(n) == <<Access(n, "Uniform")>>
HostWrite(n) == <<Access(n, "CopyDst")>>

(* copy_texture, copy_texture_to_buffer and copy_buffer_to_texture.        *)
Copy(src, dst) == <<Access(src, "CopySrc"), Access(dst, "CopyDst")>>

(* copy_buffer of the whole src.                                           *)
CopyBuffer(nodes, src, dst) ==
  <<Access(src, "CopySrc"),
    [Access(dst, "CopyDst") EXCEPT !.full = nodes[src].desc.size = nodes[dst].desc.size]>>

(* vertex_buffer, index_buffer and indirect_buffer.                        *)
Geometry(n, type) == <<Access(n, type)>>

(* add_pass, of what its set-up declares; initialize() and force_keep().   *)
Pass(kind, declared) == [kind |-> kind, acc |-> declared, init |-> {}, keep |-> FALSE]
Initialize(pass, n, hash) == [pass EXCEPT !.init = @ \cup {[n |-> n, hash |-> hash]}]
ForceKeep(pass) == [pass EXCEPT !.keep = TRUE]

Recorded(nodes, passes) == [nodes |-> nodes, passes |-> passes]

(* create_initialized_texture, of one layer, and create_initialized_buffer *)
CreateInitialized(r, nodes, fill) ==
  [nodes |-> r.nodes \o nodes,
   passes |-> Append(r.passes, Initialize(fill, Len(r.nodes) + 1, 0))]
CreateInitializedTexture(r, name, desc) ==
  LET n == Len(r.nodes) + 1
      fill == IF desc.form = "depth" THEN DepthStencil(n, TRUE, FALSE) ELSE Color(n, TRUE, FALSE)
  IN  CreateInitialized(r, CreatePersistentTexture(name, desc), Pass("Graphics", fill))
CreateInitializedBuffer(r, name, size) ==
  CreateInitialized(r, CreatePersistentBuffer(name, size), Pass("Transfer", HostWrite(Len(r.nodes) + 1)))

-----------------------------------------------------------------------------
Attachments == {"ColorAttachment", "DepthStencilAttachment", "DepthStencilReadOnly", "ResolveAttachment"}
DepthAttachments == {"DepthStencilAttachment", "DepthStencilReadOnly"}

AllowsKind(type, kind) ==
  CASE type \in Attachments \cup {"Sampled"} -> kind = "texture"
    [] type \in {"Uniform", "Vertex", "Index", "Indirect"} -> kind = "buffer"
    [] OTHER -> TRUE

(* The kinds of passes that the builder asserts for an access.  Only       *)
(* host_write() writes as a copy outside of a transfer.                    *)
AllowsPass(a, kind, pass_kind) ==
  /\ a.type \in Attachments => pass_kind = "Graphics"
  /\ a.type = "CopySrc" \/ (a.type = "CopyDst" /\ (a.full \/ kind = "texture"))
       => pass_kind = "Transfer"

(* in_pass_accesses_conflict                                               *)
Conflict(a, b) ==
  /\ a.n = b.n
  /\ IsWrite(a) \/ IsWrite(b)
  /\ {a.type, b.type} # {"StorageRead", "StorageWrite"}

OfType(pass, types) == SelectSeq(pass.acc, LAMBDA a : a.type \in types)

MaxInitTargets == 8

LegalPass(r, pass) ==
  /\ pass.kind \in {"Graphics", "Compute", "Transfer"}
  /\ \A a \in ToSet(pass.acc) :
       /\ a.n \in DOMAIN r.nodes
       /\ AllowsKind(a.type, r.nodes[a.n].kind)
       /\ AllowsPass(a, r.nodes[a.n].kind, pass.kind)
  /\ pass.kind # "Transfer" =>
       \A i, j \in DOMAIN pass.acc : i < j => ~Conflict(pass.acc[i], pass.acc[j])
  /\ Len(OfType(pass, DepthAttachments)) <= 1
  /\ \A i, j \in DOMAIN pass.acc :
       pass.acc[i].of # 0 /\ pass.acc[j].of = pass.acc[i].of => i = j
  /\ \A a \in ToSet(pass.acc) : a.of # 0 =>
       \E c \in ToSet(pass.acc) : c.n = a.of /\ c.type = "ColorAttachment"
  /\ Cardinality(pass.init) <= MaxInitTargets
  /\ \A t \in pass.init : \E a \in ToSet(pass.acc) : a.n = t.n /\ IsWrite(a)
  /\ \A t, u \in pass.init : t.n = u.n => t = u

(* Only a history has layers, and what declares it declares both.          *)
LayersPaired(r, n) ==
  LET node == r.nodes[n] IN
  /\ node.life = "history" /\ node.layer = 0 =>
       n + 1 \in DOMAIN r.nodes /\ r.nodes[n + 1] = [node EXCEPT !.layer = 1]
  /\ node.layer = 1 =>
       n > 1 /\ node.life = "history" /\ r.nodes[n - 1] = [node EXCEPT !.layer = 0]

(* A name is declared once; what a texture is relative to was declared     *)
(* before it; and it has an extent, unless it is imported with none.       *)
LegalNode(r, n) ==
  LET node == r.nodes[n] IN
  /\ \A m \in 1..(n - 1) : r.nodes[m].name = node.name => m = n - 1 /\ node.layer = 1
  /\ node.kind = "texture" /\ node.life # "imported" =>
       IF node.desc.rel
       THEN node.desc.base \in 1..(n - 1) /\ r.nodes[node.desc.base].kind = "texture" /\ node.desc.num > 0
       ELSE node.desc.size > 0

Legal(r) ==
  /\ \A n \in DOMAIN r.nodes : LegalNode(r, n) /\ LayersPaired(r, n)
  /\ \A p \in DOMAIN r.passes : LegalPass(r, r.passes[p])
=============================================================================
