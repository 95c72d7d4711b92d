---------------------------- MODULE MCFrameLoop ----------------------------
(* Model values and constants for checking FrameLoop with TLC.             *)
EXTENDS FrameLoop

MCNames == {"T", "U", "V", "I", "H", "B", "C", "M"}
MCBits == {"RenderAttachment", "Storage", "Sampled", "Uniform", "CopySrc", "CopyDst",
           "Vertex", "Index", "Indirect"}
MCHashes == 0..2
MCSigs == [size : 0..4, form : {"rgba", "depth", "bytes"}, samples : {1, 4}]

Session(recs) ==
  [recs |-> recs, ordered |-> FALSE, graphs |-> 1, alias |-> TRUE, profile |-> FALSE]
Ordered(s) == [s EXCEPT !.ordered = TRUE]
Graphs(s, n) == [s EXCEPT !.graphs = n]
Profiled(s) == [s EXCEPT !.profile = TRUE]
Unaliased(s) == [s EXCEPT !.alias = FALSE]

Draw(declared) == Pass("Graphics", declared)
Clear(n) == Color(n, TRUE, FALSE)
Blend(n) == Color(n, FALSE, FALSE)
Transient(name) == CreateTransientTexture(name, Texture2D(2))
Imported(name) == ImportTexture(name, Texture2D(2))
Nothing == Recorded(<<>>, <<>>)

-----------------------------------------------------------------------------
(* All recordings of three small passes and one that draws, over three     *)
(* transients of one signature and the screen.                             *)
Screen == 4
SmallNodes == Transient("T") \o Transient("U") \o Transient("V") \o Imported("I")
Reading(n) == IF n = 0 THEN <<>> ELSE Sampled(n)
Writing(n) == IF n = Screen THEN {Blend(n)} ELSE {Clear(n), Blend(n)}
SmallPasses ==
  UNION {{Draw(Reading(x[1]) \o w) : w \in Writing(x[2])} :
           x \in {y \in (0..3) \X (1..4) : y[1] # y[2]}}
SmallSessions ==
  {Ordered(Session(<<Recorded(SmallNodes, passes \o <<Draw(Sampled(n) \o Blend(Screen))>>)>>)) :
     passes \in [1..3 -> SmallPasses], n \in 1..3}

-----------------------------------------------------------------------------
(* Bakes: initialize() of a persistent texture that the screen then reads. *)
Shown == Draw(Sampled(1) \o Blend(2))
BakeNodes(size) == CreatePersistentTexture("B", Texture2D(size)) \o Imported("I")
Painted == Draw(Clear(1))
Baking(hash) == Initialize(Draw(Clear(1)), 1, hash)
Bake(hash, size) == Recorded(BakeNodes(size), <<Baking(hash), Shown>>)
BakeUnread == Recorded(BakeNodes(2), <<Baking(1), Draw(Blend(2))>>)
BakeForced == Recorded(BakeNodes(2), <<ForceKeep(Baking(2))>>)
BakeWider ==   \* a pass that is dropped, and one that is not, use the target in new ways
  Recorded(BakeNodes(2) \o Transient("T"),
           <<Baking(1), Shown, Pass("Compute", StorageRead(1) \o StorageWrite(3))>>)
BakeWidest == Recorded(BakeNodes(2), <<Baking(1), Shown, Pass("Transfer", Copy(1, 2))>>)
BakeAsBuffer ==
  LET baked == CreateInitializedBuffer(Nothing, "C", 1)
  IN  Recorded(baked.nodes \o Imported("I"), baked.passes \o <<Draw(Uniform(1) \o Blend(2))>>)
NoBakes == Recorded(Imported("I"), <<Draw(Blend(1))>>)
TwoTargets(hash) ==
  Recorded(BakeNodes(2) \o CreatePersistentTexture("H", Texture2D(2)),
           <<Initialize(Initialize(Draw(Clear(1) \o StorageWrite(3)), 1, 1), 3, hash),
             Shown, Draw(Sampled(3) \o Blend(2))>>)

BakeSessions ==
  {Graphs(Session(<<Bake(1, 2), Bake(2, 2), Bake(1, 3), BakeUnread, BakeForced, NoBakes>>), n) : n \in 1..2}
  \cup {Graphs(Session(<<Bake(1, 2), BakeWider, BakeWidest, NoBakes>>), n) : n \in 1..2}
  \cup {Session(<<Bake(1, 2), BakeAsBuffer, TwoTargets(1), TwoTargets(2)>>)}

(* Histories: a frame reads .prev and writes .curr.                        *)
Histories(hash, size, passes) ==
  Recorded(CreateHistoryTexture("H", Texture2D(size), hash) \o Imported("I"), passes)
Accumulated == Draw(Sampled(1) \o Blend(3))
Accumulate(hash, size) == Histories(hash, size, <<Draw(Sampled(2) \o Blend(1)), Accumulated>>)
BothShown == Draw(Sampled(1) \o Sampled(2) \o Blend(3))
Replayed == Histories(1, 2, <<BothShown>>)
NoHistory == Recorded(CreatePersistentTexture("H", Texture2D(2)) \o Imported("I"), <<Shown>>)
InitialHistory == Histories(1, 2, <<Baking(1), BothShown>>)
Simulate(size) ==   \* of buffers: particles that move and are drawn
  Recorded(CreateHistoryBuffer("H", size, 0) \o Imported("I"),
           <<Pass("Compute", StorageRead(2) \o StorageReadWrite(1)),
             Draw(Geometry(1, "Vertex") \o Blend(3))>>)

(* Resources that change what they are, from frame to frame and within one *)
(* (also while their objects are what the frame before left), and a target *)
(* that two passes bake.                                                   *)
Flat(passes) == Recorded(CreatePersistentTexture("H", Texture2D(2)) \o Imported("I"), passes)
RecastSessions ==
  {Graphs(Session(<<Flat(<<Painted, Shown>>), Accumulate(0, 2)>>), 2),
   Session(<<Histories(1, 2, <<Baking(1), Accumulated, BothShown>>), Flat(<<Baking(1), Shown>>), NoBakes>>),
   Session(<<Recorded(BakeNodes(2), <<Baking(1), Baking(2), Shown>>), Bake(1, 2)>>)}

(* A buffer that is read where it was written, on an object with others.   *)
Scratch ==
  Recorded(CreateTransientBuffer("V", 1) \o ImportBuffer("I", 1) \o CreateTransientBuffer("C", 1),
           <<Pass("Compute", StorageWrite(3)), Pass("Compute", StorageRead(3) \o StorageWrite(2)),
             Pass("Compute", StorageWrite(1) \o StorageRead(1)),
             Pass("Compute", StorageReadWrite(1) \o StorageWrite(2))>>)
ScratchSessions == {Session(<<Scratch>>)}

HistorySessions ==
  {Graphs(Session(<<Accumulate(1, 2), Accumulate(2, 2), Accumulate(1, 3), Replayed, NoBakes>>), n) : n \in 1..2}
  \cup {Session(<<Accumulate(0, 2), InitialHistory, NoHistory, Simulate(1), Simulate(2)>>)}

-----------------------------------------------------------------------------
(* Frames that take turns: two of one texture each, or of two uses of one. *)
Blit(nodes, pass) == Recorded(nodes \o Imported("I"), <<pass, Shown>>)
Small(name) == CreateTransientTexture(name, Texture2D(1))
Turns ==
  {Ordered(Session(<<Blit(Small("T"), Painted), Blit(Transient("U"), Painted)>>)),
   Ordered(Session(<<Blit(Transient("T"), Painted), Blit(Transient("T"), Pass("Compute", StorageWrite(1)))>>))}

Resized == {Session(<<Blit(Small("T"), Painted), Blit(Transient("T"), Painted), NoBakes>>)}

(* A frame with something of everything.                                   *)
Initialized == CreateInitializedTexture(Nothing, "B", Texture2D(4))
Everything ==
  Recorded(
    Initialized.nodes
      \o CreateTransientTexture("T", Relative(1, 1))
      \o CreateTransientTexture("U", DepthFormat(Relative(2, 2)))
      \o CreateHistoryTexture("H", Texture2D(2), 1)
      \o CreateTransientBuffer("V", 1) \o ImportBuffer("I", 1)
      \o CreateTransientBuffer("C", 1)
      \o CreateTransientTexture("M", Multisampled(Texture2D(2))),
    Initialized.passes
      \o <<Draw(Sampled(1) \o Clear(2) \o DepthStencil(3, TRUE, TRUE)),
           Pass("Compute", StorageWrite(6)),
           Draw(Uniform(6) \o Sampled(5) \o Sampled(2) \o Color(9, TRUE, TRUE) \o ResolveTo(9, 4))>>)
Later(r) ==   \* of which the last is dropped: nobody sees what it draws
  Recorded(r.nodes, r.passes
    \o <<Pass("Transfer", CopyBuffer(r.nodes, 7, 8)),
         ForceKeep(Pass("Compute", StorageRead(8))),
         Pass("Transfer", Copy(4, 7) \o HostWrite(7)),
         Draw(Sampled(1) \o DepthStencilReadOnly(3) \o Clear(2))>>)
EverySession == {Profiled(Ordered(s)) : s \in {Session(<<Later(Everything)>>), Unaliased(Session(<<Later(Everything)>>))}}

ProfiledSessions ==
  {Profiled(Graphs(Session(<<NoBakes, Recorded(Transient("T"), <<Painted>>)>>), 2))}

(* What compile() rejects.                                                 *)
DrawnOn(nodes, declared) == Recorded(nodes \o Imported("I"), <<ForceKeep(Draw(declared))>>)
Wrong ==
  <<Recorded(Transient("T") \o Imported("I"), <<Baking(1), Shown>>),
    Histories(1, 2, <<Draw(Sampled(1) \o Blend(2))>>),
    Histories(1, 2, <<Accumulated>>),
    Recorded(ImportTexture("I", Texture2D(0)), <<Draw(Blend(1))>>),
    Recorded(Transient("T") \o Imported("I"), <<Shown>>),
    DrawnOn(Transient("T"), <<>>),
    DrawnOn(Small("T"), Clear(1) \o Blend(2)),
    DrawnOn(Transient("T"), Clear(2) \o DepthStencil(1, TRUE, FALSE)),
    DrawnOn(Transient("T"), Clear(1) \o ResolveTo(1, 2))>>
WrongSessions == {Session(Wrong \o <<NoBakes>>)}

MCSessions ==
  SmallSessions \cup BakeSessions \cup HistorySessions \cup Turns \cup Resized \cup EverySession
    \cup ProfiledSessions \cup WrongSessions \cup RecastSessions \cup ScratchSessions
=============================================================================
