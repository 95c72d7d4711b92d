------------------------------ MODULE FrameLoop ------------------------------
(***************************************************************************)
(* Frames that are drawn with the render graph: in each of them the        *)
(* application records one graph (or some more, one after the other),      *)
(* compiles it and executes it, and end_frame() then lets the pools evict. *)
(* All of this is one thread; only the callbacks of the profiler come at   *)
(* any time.                                                               *)
(*                                                                         *)
(* A session is what an application may record: one of recs each time, or  *)
(* all of them in turn if it is ordered; at most graphs of them in a       *)
(* frame; with or without aliasing and profiling.                          *)
(***************************************************************************)
EXTENDS RenderGraph, TransientPool, GpuProfiler

CONSTANTS
  Sessions,       \* [recs, ordered, graphs, alias, profile]
  HasMemoryless   \* whether the device has transient attachments

ASSUME SessionsAreLegal ==
  \A s \in Sessions :
    /\ s \in [recs : Seq(Recordings), ordered : BOOLEAN, graphs : Nat, alias : BOOLEAN,
              profile : BOOLEAN]
    /\ s.recs # <<>>
    /\ \A r \in ToSet(s.recs) : Legal(r) /\ Known(r)

VARIABLES
  session,  \* the session that is being played
  playing,  \* the position in session.recs of the current graph
  phase,    \* how far the current graph is
  graphs,   \* how many graphs this frame has recorded
  graph,    \* what compile() made of it
  refused,  \* history: names whose last realize ended with an internal error
  run       \* history: what the last execute() did

loop_vars == <<session, playing, phase, graphs, graph, refused, run>>
vars == <<loop_vars, pool_vars, transient, profiler_vars>>

-----------------------------------------------------------------------------
Rec == session.recs[playing]

Live(n) == UsedAt(Rec, graph.order, n) # {}
LiveNodes == {n \in DOMAIN Rec.nodes : Live(n)}
LivePooled == {n \in LiveNodes : Pooled(Rec.nodes[n])}
InSlot(n) == \E i \in DOMAIN graph.slots : n \in graph.slots[i].members

(* What realize_graph passes to the persistent pool, by name.              *)
NodesOf(name) == {n \in LivePooled : Rec.nodes[n].name = name}
UseOf(name) ==
  LET n == Min(NodesOf(name)) IN
  [kind |-> Rec.nodes[n].kind,
   layers |-> IF Rec.nodes[n].life = "history" THEN 2 ELSE 1,
   hash |-> Rec.nodes[n].hash,
   sig |-> SigOf(Rec, n),
   usage |-> UNION {NodeUsage(Rec, graph.order, m) : m \in NodesOf(name)}]
PoolUses == [name \in {Rec.nodes[n].name : n \in LivePooled} |-> UseOf(name)]

(* The nodes realize_graph comes to before it ends with an error, if any.  *)
RefusedNodes ==
  {n \in LivePooled :
     Refused(TouchedAll(PoolUses)[Rec.nodes[n].name], PoolUses[Rec.nodes[n].name])}
Reached ==
  {Rec.nodes[n].name : n \in {m \in LivePooled : \A x \in RefusedNodes : m < x}}

(* The requests to the transient pool: alias slots, textures, buffers.     *)
Request(kind, sig, usage, identity, members) ==
  [kind |-> kind, sig |-> sig, usage |-> usage, identity |-> identity, members |-> members]
RequestOf(n) ==
  Request(Rec.nodes[n].kind, SigOf(Rec, n),
          NodeUsage(Rec, graph.order, n) \cup
            (IF HasMemoryless /\ n \in MemorylessNodes(Rec, graph.order) THEN {Memoryless} ELSE {}),
          Rec.nodes[n].name, {n})
Single(kind) ==
  {n \in LiveNodes : ~External(Rec.nodes[n]) /\ Rec.nodes[n].kind = kind /\ ~InSlot(n)}
Requests ==
  LET Slotted(slot) == Request(slot.kind, slot.sig, slot.usage, slot.identity, slot.members)
      Singles(kind) == LET s == Ascending(Single(kind))
                       IN  [i \in DOMAIN s |-> RequestOf(s[i])]
  IN  [i \in DOMAIN graph.slots |-> Slotted(graph.slots[i])]
        \o Singles("texture") \o Singles("buffer")

(* The object behind each node, where entries are those of the pool.       *)
ObjectOf(n, requests, claims, entries) ==
  IF Rec.nodes[n].life = "imported" THEN <<"imported", "", n>>
  ELSE IF Pooled(Rec.nodes[n]) THEN
    <<"pooled", Rec.nodes[n].name, Slot(entries[Rec.nodes[n].name], Rec.nodes[n].layer)>>
  ELSE <<"transient", "",
         ObjectClaimed(claims, CHOOSE k \in DOMAIN requests : n \in requests[k].members)>>

(* History: the passes that made what is in some nodes, from the last that *)
(* left nothing of it: what pass p makes of it.                            *)
Overwritten(was, p, a) == IF Defines(Rec, a) THEN <<p>> ELSE Append(was, p)

RunPass(was, p, nodes) ==
  LET acc == Rec.passes[p].acc
      left[i \in 0..Len(acc)] ==
        IF i = 0 THEN was
        ELSE IF acc[i].n \in nodes /\ IsWrite(acc[i]) THEN Overwritten(left[i - 1], p, acc[i])
        ELSE left[i - 1]
  IN  left[Len(acc)]

(* What the k-th pass to run finds in the object behind a node.            *)
FoundIn(bound, n, k) ==
  LET object == {m \in DOMAIN bound : bound[m] = bound[n]}
      mem[j \in 0..(k - 1)] ==
        IF j = 0 THEN <<>> ELSE RunPass(mem[j - 1], graph.order[j], object)
  IN  mem[k - 1]

(* The initialize() targets of the passes that run: the last one counts.   *)
BakedNames == {Rec.nodes[t.n].name : t \in UNION {Rec.passes[p].init : p \in ToSet(graph.order)}}
LastBake(name) ==
  LET at == {k \in DOMAIN graph.order :
               \E t \in Rec.passes[graph.order[k]].init : Rec.nodes[t.n].name = name}
  IN  (CHOOSE t \in Rec.passes[graph.order[Max(at)]].init : Rec.nodes[t.n].name = name).hash
WrittenNames ==
  {Rec.nodes[n].name : n \in {m \in LivePooled : \E p \in ToSet(graph.order) : Writes(Rec, p, m)}}

(* The passes that get a query: copies are not timed.                      *)
Timed == {p \in ToSet(graph.order) : Rec.passes[p].kind # "Transfer"}

(* Names that stood for something else when they were last used.           *)
Recast ==
  {n \in DOMAIN PoolUses \cap DOMAIN pool :
     pool[n].kind # PoolUses[n].kind \/ pool[n].layers # PoolUses[n].layers}

NoRun == [bound |-> <<>>, exempt |-> {}, quiet |-> TRUE]

-----------------------------------------------------------------------------
Init ==
  /\ session \in Sessions
  /\ playing = 1
  /\ phase = "frame"
  /\ graphs = 0
  /\ graph = Failed
  /\ refused = {}
  /\ run = NoRun
  /\ PoolInit
  /\ TransientInit
  /\ ProfilerInit

(* start_recording() of a graph, and compile().                            *)
Compile(i) ==
  /\ phase \in {"frame", "executed"}
  /\ graphs < session.graphs
  /\ session.ordered => i = (playing % Len(session.recs)) + 1
  /\ playing' = i
  /\ graphs' = graphs + 1
  /\ graph' = Compiled(session.recs[i], session.alias)
  /\ phase' = "compiled"
  /\ run' = NoRun
  /\ UNCHANGED <<session, refused, pool_vars, transient, profiler_vars>>

(* execute() of a graph that failed to compile.                            *)
ExecuteFailed ==
  /\ phase = "compiled" /\ ~graph.ok
  /\ phase' = "executed"
  /\ UNCHANGED <<session, playing, graphs, graph, refused, run,
                 pool_vars, transient, profiler_vars>>

(* execute() that ends in realize_graph.                                   *)
ExecuteRefused ==
  /\ phase = "compiled" /\ graph.ok
  /\ RefusedNodes # {}
  /\ PoolExecute(PoolUses, Reached, <<>>, {})
  /\ refused' = refused \cup DOMAIN PoolUses
  /\ phase' = "executed"
  /\ UNCHANGED <<session, playing, graphs, graph, run, transient, profiler_vars>>

(* execute() that comes to its end.                                        *)
ExecutePasses ==
  /\ phase = "compiled" /\ graph.ok
  /\ RefusedNodes = {}
  /\ PoolExecute(PoolUses, DOMAIN PoolUses, [n \in BakedNames |-> LastBake(n)], WrittenNames)
  /\ \E requests \in {Requests} : \E claims \in {Claims(requests)} :
       /\ transient' = Served(requests, claims)
       /\ run' = [bound |-> [n \in LiveNodes |-> ObjectOf(n, requests, claims, pool')],
                  exempt |-> refused \cup Recast,
                  quiet |-> /\ \A k \in DOMAIN requests : claims[k] # 0
                            /\ BakedNames = {}
                            /\ \A n \in DOMAIN PoolUses : ~pool'[n].fresh]
  /\ refused' = refused \ {n \in DOMAIN PoolUses : pool'[n].kind = PoolUses[n].kind}
  /\ IF session.profile /\ Timed # {} THEN Stage ELSE UNCHANGED profiler_vars
  /\ phase' = "executed"
  /\ UNCHANGED <<session, playing, graphs, graph>>

(* collect_gpu_timings(), of any graph of the frame.                       *)
Collect ==
  /\ phase = "executed"
  /\ CollectGpuTimings
  /\ UNCHANGED <<loop_vars, pool_vars, transient>>

Callback(slot) ==
  /\ MapCallback(slot)
  /\ UNCHANGED <<loop_vars, pool_vars, transient>>

(* end_frame(), and begin_frame() of the next frame.                       *)
EndFrame ==
  /\ phase = "executed"
  /\ PoolEndFrame
  /\ TransientEndFrame
  /\ phase' = "frame"
  /\ graphs' = 0
  /\ graph' = Failed
  /\ run' = NoRun
  /\ UNCHANGED <<session, playing, refused, profiler_vars>>

Next ==
  \/ \E i \in DOMAIN session.recs : Compile(i)
  \/ ExecuteFailed
  \/ ExecuteRefused
  \/ ExecutePasses
  \/ Collect
  \/ \E slot \in Slots : Callback(slot)
  \/ EndFrame

(* The application keeps drawing: it executes another graph at some time,  *)
(* and ends the frame.                                                     *)
Fairness ==
  /\ []<>(phase = "executed")
  /\ WF_vars(EndFrame)

Spec == Init /\ [][Next]_vars /\ Fairness

-----------------------------------------------------------------------------
(* What compile() hands to execute() names passes of the graph that is     *)
(* being recorded, and the pools hold what the resources of it can be.     *)
TypeOK ==
  /\ playing \in DOMAIN session.recs
  /\ phase \in {"frame", "compiled", "executed"}
  /\ graphs \in 0..session.graphs
  /\ ToSet(graph.order) \cup graph.skip \subseteq DOMAIN Rec.passes
  /\ PoolTypeOK
  /\ refused \subseteq Names
  /\ \A i \in DOMAIN transient :
       transient[i] \in [kind : Kinds, sig : Sigs, usage : SUBSET (Bits \cup {Memoryless}), identity : Names,
                         idle : 0..IdleFrames, fresh : BOOLEAN]
  /\ pending \subseteq Slots /\ pendingSlot \in Slots \cup {NoSlot}

(* Every pass that runs sees in each resource it reads what the passes     *)
(* declared before it have written there, although passes are dropped,     *)
(* moved, and put on shared objects (sweep_resource_versions, topo_visit,  *)
(* phase 4 of compile_impl, acquire).                                      *)
Written(n, p) ==
  LET was[q \in 0..(p - 1)] ==
        IF q = 0 THEN <<>>
        ELSE IF q \in graph.skip THEN was[q - 1] ELSE RunPass(was[q - 1], q, {n})
  IN  was[p - 1]

(* A pass that has not written it when it reads it.                        *)
ReadsFirst(r, p, n) == Uses(r, p, n) /\ ~IsWrite(Head(AccessesOf(r, p, n)))

(* Excepted, here and below, is a history whose name an earlier graph of   *)
(* the frame used for a persistent resource: touch leaves it one object.   *)
OneObject(n) == Rec.nodes[n].life = "history" /\ pool[Rec.nodes[n].name].layers = 1

ReadsSeeTheirWriters ==
  \A k \in DOMAIN graph.order, n \in DOMAIN run.bound :
    ReadsFirst(Rec, graph.order[k], n) /\ ~OneObject(n) =>
      FoundIn(run.bound, n, k) = Written(n, graph.order[k])

(* No pass finds two of its resources on one object, which WebGPU forbids. *)
NoObjectTwiceInAPass ==
  \A p \in ToSet(graph.order) : \A m, n \in DOMAIN run.bound :
    Uses(Rec, p, m) /\ Uses(Rec, p, n) /\ run.bound[m] = run.bound[n] => m = n \/ OneObject(m)

(* A pass that reads the persistent target of a bake that was skipped      *)
(* finds that bake there, with the hash that was asked for, unless another *)
(* pass of the graph bakes it too.  Excepted is what compile() does not    *)
(* foresee: what an internal error left in an entry, and an entry that is  *)
(* of another kind or has other layers.                                    *)
BakeIsThere ==
  \A p \in graph.skip : \A t \in Rec.passes[p].init :
    LET node == Rec.nodes[t.n] IN
    t.n \in DOMAIN run.bound /\ node.life = "persistent"
      /\ node.name \notin run.exempt \cup BakedNames
      => pool[node.name].content[0].bake = t.hash

(* What docs/rendergraph.md promises of initialize(): a bake not up to     *)
(* date runs, also one that nobody reads this frame.  compile() treats     *)
(* no such pass as a sink, so this fails: see the README.                  *)
StaleBakesRun ==
  graph.ok =>
    \A p \in DOMAIN Rec.passes :
      Rec.passes[p].init # {} => p \in graph.skip \cup ToSet(graph.order)

(* Played over and over, a session comes to rest: no object is created and *)
(* nothing is baked again, also when some resources are not used in each   *)
(* frame.                                                                  *)
Settles == session.ordered => <>[](phase = "executed" => run.quiet)
=============================================================================
