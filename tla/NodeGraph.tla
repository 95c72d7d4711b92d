----------------------------- MODULE NodeGraph -----------------------------
(***************************************************************************)
(* The compute graph of the WebGPU app: nodes::Node, nodes::NodeGraph and  *)
(* nodes::RequestTilesNode.  The nodes run one after the other in          *)
(* topological order, each when run_completed of the one before it is      *)
(* emitted.  A node that is still busy keeps the contexts of later runs in *)
(* a queue, so several runs can be under way.  Everything happens in the   *)
(* main thread.                                                            *)
(*                                                                         *)
(* Nodes 1..N are those that finish in a later event, because they wait    *)
(* for the network or the GPU.  Node 1 is the RequestTilesNode, which asks *)
(* for the tiles that GPXTrackNode and SelectTilesNode have selected.      *)
(* The nodes that finish within run_impl belong to the connection behind   *)
(* the node before them; all they can do to a run is to let it fail.       *)
(***************************************************************************)
EXTENDS Integers, Sequences, FiniteSets, SequencesExt

CONSTANTS
  N,        \* the number of nodes
  Regions,  \* the sets of tiles that can be selected
  MaxRuns,  \* bound: runs of the graph
  MaxHeld   \* bound: nothing is run again while this many contexts wait

ASSUME GraphAssumption ==
  /\ N \in Nat \ {0} /\ MaxRuns \in Nat /\ MaxHeld \in Nat
  /\ IsFiniteSet(UNION Regions) /\ {} \notin Regions

VARIABLES
  enabled, running,  \* m_enabled, m_is_running
  ctx,               \* m_run_context, the run id
  pending,           \* m_pending_contexts
  run_id,            \* NodeGraph::m_run_id
  selected,          \* SelectTilesNode::m_output_tile_ids
  requested,         \* RequestTilesNode::m_requested_tile_ids
  tiles_requested, signals_received, tiles_unavailable,  \* its counters
  outstanding,       \* the tiles its TileLoadService has yet to answer
  finished, failed, dropped,  \* history: the runs that have ended, by how
  reran              \* history: the runs some node was asked to repeat

chain_vars == <<running, ctx, pending, finished, failed>>
fetch_vars == <<requested, tiles_requested, signals_received, tiles_unavailable, outstanding>>
user_vars == <<enabled, run_id, selected, reran>>
vars == <<chain_vars, dropped, fetch_vars, user_vars>>

-----------------------------------------------------------------------------
Nodes == 1..N
Tiles == UNION Regions
Runs == 1..MaxRuns

(* The history is of runs of the graph, not of nodes that are run before   *)
(* there was one, whose context has the number 0.                          *)
Numbered(contexts) == contexts \ {0}

(* The first node from i on where a context does not pass straight         *)
(* through: one that is busy or enabled.                                   *)
Stop(i) ==
  CHOOSE j \in i..N + 1 :
    /\ j = N + 1 \/ running[j] \/ enabled[j]
    /\ \A k \in i..j - 1 : ~running[k] /\ ~enabled[k]

(* Mutant of Queued: the latest run is taken up first.                     *)
QueuedFirst(queue, contexts) == contexts \o queue

Queued(queue, contexts) == queue \o contexts

(* The contexts that are not lost, in their order.                         *)
Surviving(contexts, lost) ==
  LET kept == {k \in DOMAIN contexts : contexts[k] \notin lost}
      Nth(n) == CHOOSE k \in kept : Cardinality(kept \cap 1..k) = n
  IN  [n \in 1..Cardinality(kept) |-> contexts[Nth(n)]]

(* Node i emits run_completed for the contexts, one after the other, and   *)
(* is left with the given state.  Those in lost fail on their way to the   *)
(* next node, or as soon as it starts.                                     *)
Forward(i, contexts, on, current, queue, lost) ==
  LET passed == Surviving(contexts, lost)
      j == Stop(i + 1)
      reaches(n) == n = j /\ passed # <<>>
  IN  /\ lost \subseteq ToSet(contexts)
      /\ running' = [n \in Nodes |-> IF n = i THEN on ELSE running[n] \/ reaches(n)]
      /\ ctx' = [n \in Nodes |->
                   CASE n = i -> current
                     [] n \in i + 1..j - 1 /\ passed # <<>> -> Last(passed)
                     [] reaches(n) /\ ~running[n] -> Head(passed)
                     [] OTHER -> ctx[n]]
      /\ pending' = [n \in Nodes |->
                       IF n = i THEN queue
                       ELSE IF reaches(n)
                         THEN Queued(pending[n], IF running[n] THEN passed ELSE Tail(passed))
                         ELSE pending[n]]
      /\ finished' = IF j = N + 1 THEN finished \cup Numbered(ToSet(passed)) ELSE finished
      /\ failed' = failed \cup Numbered(lost)

(* Mutant of Enqueue: the context is taken over before the check.          *)
EnqueueOverwriting(i, c) ==
  /\ running[i]
  /\ ctx' = [ctx EXCEPT ![i] = c]
  /\ pending' = [pending EXCEPT ![i] = Queued(@, <<c>>)]
  /\ UNCHANGED <<running, finished, failed>>

(* Node i is asked to run while it is busy.                                *)
Enqueue(i, c) ==
  /\ running[i]
  /\ pending' = [pending EXCEPT ![i] = Queued(@, <<c>>)]
  /\ UNCHANGED <<running, ctx, finished, failed>>

(* Mutant of FailRun: the node keeps its queue.                            *)
FailRunOnly(i) ==
  /\ running' = [running EXCEPT ![i] = FALSE]
  /\ failed' = failed \cup Numbered({ctx[i]})
  /\ UNCHANGED <<ctx, pending, finished, dropped>>

(* fail_run: what waits for the node is given up with the run that fails.  *)
FailRun(i) ==
  /\ running' = [running EXCEPT ![i] = FALSE]
  /\ pending' = [pending EXCEPT ![i] = <<>>]
  /\ failed' = failed \cup Numbered({ctx[i]})
  /\ dropped' = dropped \cup Numbered(ToSet(pending[i]))
  /\ UNCHANGED <<ctx, finished>>

-----------------------------------------------------------------------------
(* Mutant of Request: the answers of the last request stay counted.        *)
RequestCounting(tiles, open) ==
  /\ requested' = tiles
  /\ tiles_requested' = Cardinality(tiles)
  /\ tiles_unavailable' = 0
  /\ outstanding' = open \cup tiles
  /\ UNCHANGED signals_received

(* The tile loader is asked for the tiles; open are those it already owes. *)
Request(tiles, open) ==
  /\ requested' = tiles
  /\ tiles_requested' = Cardinality(tiles)
  /\ tiles_unavailable' = 0
  /\ signals_received' = 0
  /\ outstanding' = open \cup tiles

Keep(old, open) ==
  /\ requested' = old
  /\ outstanding' = open
  /\ UNCHANGED <<tiles_requested, signals_received, tiles_unavailable>>

(* The tiles are those of the last request, which has all its answers.  An *)
(* idle node always has them (FetchIsAnswered).                            *)
Cached(tiles, old) == tiles = old

(* Node::run of the RequestTilesNode: tiles are selected, old are those it *)
(* has requested last.  If they are the same it does not ask again: it     *)
(* completes, or fails again, at once.                                     *)
RunFetch(c, tiles, old, open, lost) ==
  \/ /\ Enqueue(1, c)
     /\ lost = {}
     /\ Keep(old, open)
     /\ UNCHANGED dropped
  \/ /\ ~running[1] /\ enabled[1] /\ ~Cached(tiles, old)
     /\ Forward(1, <<>>, TRUE, c, <<>>, lost)
     /\ Request(tiles, open)
     /\ UNCHANGED dropped
  \/ /\ ~running[1] /\ (enabled[1] => Cached(tiles, old) /\ tiles_unavailable = 0)
     /\ Forward(1, <<c>>, FALSE, c, <<>>, lost)
     /\ Keep(old, open)
     /\ UNCHANGED dropped
  \/ /\ ~running[1] /\ enabled[1] /\ Cached(tiles, old) /\ tiles_unavailable > 0
     /\ lost = {}
     /\ ctx' = [ctx EXCEPT ![1] = c]
     /\ failed' = failed \cup Numbered({c})
     /\ Keep(old, open)
     /\ UNCHANGED <<running, pending, finished, dropped>>

Init ==
  /\ enabled = [i \in Nodes |-> TRUE]
  /\ running = [i \in Nodes |-> FALSE]
  /\ ctx = [i \in Nodes |-> 0]
  /\ pending = [i \in Nodes |-> <<>>]
  /\ run_id = 0
  /\ selected = {} /\ requested = {} /\ outstanding = {}
  /\ tiles_requested = 0 /\ signals_received = 0 /\ tiles_unavailable = 0
  /\ finished = {} /\ failed = {} /\ dropped = {} /\ reran = {}

(* NodeGraph::run: the nodes before the RequestTilesNode select tiles and  *)
(* it runs, or one of them fails.                                          *)
Trigger(tiles, lost) ==
  /\ run_id < MaxRuns
  /\ run_id' = run_id + 1
  /\ selected' = tiles
  /\ RunFetch(run_id + 1, tiles, requested, outstanding, lost)
  /\ UNCHANGED <<enabled, reran>>

TriggerFails ==
  /\ run_id < MaxRuns
  /\ run_id' = run_id + 1
  /\ failed' = failed \cup {run_id + 1}
  /\ UNCHANGED <<enabled, selected, reran, running, ctx, pending, finished, dropped, fetch_vars>>

MayRerun == FoldFunction(LAMBDA queue, sum : sum + Len(queue), 0, pending) < MaxHeld

(* Other settings or another file for the nodes that select: they are run  *)
(* again with the context of the last run.  If they fail nothing changes.   *)
Reselect(tiles, lost) ==
  /\ MayRerun
  /\ selected' = tiles
  /\ reran' = reran \cup Numbered({run_id})
  /\ RunFetch(run_id, tiles, requested, outstanding, lost)
  /\ UNCHANGED <<enabled, run_id>>

Repeat(old, open, lost) ==
  /\ MayRerun
  /\ reran' = reran \cup Numbered({ctx[1]})
  /\ RunFetch(ctx[1], selected, old, open, lost)
  /\ UNCHANGED <<enabled, run_id, selected>>

(* The user runs the RequestTilesNode again.                               *)
RerunFetch(lost) == Repeat(requested, outstanding, lost)

(* The user picks another source: set_settings forgets what was requested  *)
(* and replaces the loader, whose answers are lost, then rerun.            *)
SetSettings(lost) == Repeat({}, {}, lost)

Rerun(i, lost) ==
  /\ i # 1
  /\ MayRerun
  /\ reran' = reran \cup Numbered({ctx[i]})
  /\ \/ Enqueue(i, ctx[i]) /\ lost = {}
     \/ ~running[i] /\ enabled[i] /\ Forward(i, <<>>, TRUE, ctx[i], <<>>, lost)
     \/ ~running[i] /\ ~enabled[i] /\ Forward(i, <<ctx[i]>>, FALSE, ctx[i], <<>>, lost)
  /\ UNCHANGED <<enabled, run_id, selected, dropped, fetch_vars>>

(* set_enabled, also while the node runs.                                  *)
Toggle(i) ==
  /\ enabled' = [enabled EXCEPT ![i] = ~@]
  /\ UNCHANGED <<chain_vars, dropped, fetch_vars, run_id, selected, reran>>

-----------------------------------------------------------------------------
(* Mutant of CompleteRun: the queue is forgotten.                          *)
CompleteRunOnly(i, lost) == Forward(i, <<ctx[i]>>, FALSE, ctx[i], pending[i], lost)

(* complete_run: the run goes on to the next node, and the first of those  *)
(* that wait is taken up.  When the node has been disabled all of them     *)
(* pass through at once.                                                   *)
CompleteRun(i, lost) ==
  \/ /\ pending[i] = <<>>
     /\ Forward(i, <<ctx[i]>>, FALSE, ctx[i], <<>>, lost)
  \/ /\ pending[i] # <<>> /\ enabled[i]
     /\ Forward(i, <<ctx[i]>>, TRUE, Head(pending[i]), Tail(pending[i]), lost)
  \/ /\ pending[i] # <<>> /\ ~enabled[i]
     /\ Forward(i, <<ctx[i]>> \o pending[i], FALSE, Last(pending[i]), <<>>, lost)

(* A node behind the RequestTilesNode ends its run.                        *)
NodeCompletes(i, lost) ==
  /\ i # 1 /\ running[i]
  /\ CompleteRun(i, lost)
  /\ UNCHANGED <<dropped, fetch_vars, user_vars>>

NodeFails(i) ==
  /\ i # 1 /\ running[i]
  /\ FailRun(i)
  /\ UNCHANGED <<fetch_vars, user_vars>>

(* on_single_tile_received.  Answers for tiles that are not requested any  *)
(* more would be ignored.                                                  *)
IsLast == signals_received + 1 = tiles_requested
Unavailable(good) == tiles_unavailable + IF good THEN 0 ELSE 1

Counted(t, good) ==
  /\ requested' = requested
  /\ outstanding' = outstanding \ {t}
  /\ signals_received' = signals_received + 1
  /\ tiles_unavailable' = Unavailable(good)
  /\ UNCHANGED tiles_requested

TileReceived(t, good) ==
  /\ t \in outstanding \cap requested
  /\ ~IsLast
  /\ Counted(t, good)
  /\ UNCHANGED <<chain_vars, dropped, user_vars>>

(* The last answer, and some tile could not be loaded.                     *)
FetchFails(t, good) ==
  /\ t \in outstanding \cap requested
  /\ IsLast
  /\ Unavailable(good) > 0
  /\ FailRun(1)
  /\ Counted(t, good)
  /\ UNCHANGED user_vars

(* The last answer, and all tiles are there.  The runs that wait find the  *)
(* tiles that are selected by now: if they are the same they complete, too. *)
FetchCompletes(t, lost) ==
  /\ t \in outstanding \cap requested
  /\ IsLast
  /\ Unavailable(TRUE) = 0
  /\ \/ /\ enabled[1] /\ selected = requested
        /\ Forward(1, <<ctx[1]>> \o pending[1], FALSE, Last(<<ctx[1]>> \o pending[1]), <<>>, lost)
        /\ Counted(t, TRUE)
     \/ /\ enabled[1] => selected # requested
        /\ CompleteRun(1, lost)
        /\ IF running'[1] THEN Request(selected, outstanding \ {t}) ELSE Counted(t, TRUE)
  /\ UNCHANGED <<dropped, user_vars>>

Lost == SUBSET (0..MaxRuns)

Run ==
  \/ \E R \in Regions, lost \in Lost : Trigger(R, lost)
  \/ TriggerFails

(* What the user does besides running the graph.                           *)
Disturb ==
  \/ \E R \in Regions, lost \in Lost : Reselect(R, lost)
  \/ \E lost \in Lost : RerunFetch(lost)
  \/ \E i \in Nodes, lost \in Lost : Rerun(i, lost)
  \/ \E i \in Nodes : Toggle(i)
  \/ ~running[1] /\ \E lost \in Lost : SetSettings(lost)

Answer(t) ==
  \/ \E good \in BOOLEAN : TileReceived(t, good) \/ FetchFails(t, good)
  \/ \E lost \in Lost : FetchCompletes(t, lost)

NodeEnds(i) == NodeFails(i) \/ \E lost \in Lost : NodeCompletes(i, lost)

Next ==
  \/ Run
  \/ Disturb
  \/ \E t \in Tiles : Answer(t)
  \/ \E i \in Nodes : NodeEnds(i)

(* TileLoadService answers every request in the end, if only that it ran   *)
(* into its timeout, and the GPU finishes what it was given to do.         *)
Fairness ==
  /\ \A t \in Tiles : WF_vars(Answer(t))
  /\ \A i \in Nodes : WF_vars(NodeEnds(i))

(* The user leaves the source of the tiles alone while they are fetched.   *)
Spec == Init /\ [][Next]_vars /\ Fairness

(* The settings of a node can be edited at any time.                       *)
UiNext == Next \/ \E lost \in Lost : SetSettings(lost)

UiSpec == Init /\ [][UiNext]_vars /\ Fairness

-----------------------------------------------------------------------------
Contexts(i) == (IF running[i] THEN <<ctx[i]>> ELSE <<>>) \o pending[i]

Ended == finished \cup failed \cup dropped

(* Runs are numbered in the order they start, and RequestTilesNode counts  *)
(* no more answers than tiles it asked for.                                *)
TypeOK ==
  /\ enabled \in [Nodes -> BOOLEAN] /\ running \in [Nodes -> BOOLEAN]
  /\ ctx \in [Nodes -> 0..MaxRuns] /\ pending \in [Nodes -> Seq(0..MaxRuns)]
  /\ run_id \in 0..MaxRuns
  /\ selected \subseteq Tiles /\ requested \subseteq Tiles /\ outstanding \subseteq Tiles
  /\ tiles_requested \in 0..Cardinality(Tiles)
  /\ signals_received \in 0..tiles_requested /\ tiles_unavailable \in 0..signals_received
  /\ Ended \cup reran \subseteq Runs

(* Nothing waits for a node that is idle: process_pending leaves no run    *)
(* behind.                                                                 *)
IdleHasNoQueue == \A i \in Nodes : pending[i] # <<>> => running[i]

(* Where a run is: at <<i, k>> if it is the k-th of those under way at     *)
(* node i, at <<0, e>> if it is over in the e-th way.                      *)
Places(r) ==
  (UNION {{<<i, k>> : k \in {k \in DOMAIN Contexts(i) : Contexts(i)[k] = r}} : i \in Nodes})
    \cup {<<0, e>> : e \in {e \in 1..3 : r \in <<finished, failed, dropped>>[e]}}

(* A run that no node was asked to repeat is in exactly one place: under   *)
(* way at one node, or over in one of the three ways.                      *)
RunsAccountedFor == \A r \in (1..run_id) \ reran : Cardinality(Places(r)) = 1

Repeated(c) == c \in reran \cup {0}

(* Such runs do not overtake each other, neither in a queue nor from node  *)
(* to node nor on their way out.                                           *)
RunsInOrder ==
  \A i \in Nodes : \A k \in DOMAIN Contexts(i) :
    LET r == Contexts(i)[k]
    IN  ~Repeated(r) =>
          /\ \A l \in 1..k - 1 : Repeated(Contexts(i)[l]) \/ Contexts(i)[l] < r
          /\ \A j \in 1..i - 1 : \A l \in DOMAIN Contexts(j) :
               Repeated(Contexts(j)[l]) \/ r < Contexts(j)[l]
          /\ \A s \in finished : Repeated(s) \/ s < r

(* A RequestTilesNode that runs still waits for an answer, and the answers *)
(* it has counted and those to come make up what it asked for; an idle one *)
(* has them all.                                                           *)
FetchIsAnswered ==
  /\ running[1] => outstanding # {}
  /\ running[1] => outstanding \subseteq requested
  /\ signals_received + Cardinality(outstanding) = tiles_requested

(* Every run of the graph ends: it comes out at the last node, a node      *)
(* fails it, or it is given up with one that fails before it.              *)
EveryRunEnds == \A r \in Runs : run_id = r ~> r \in Ended
=============================================================================
