-------------------------- MODULE NodeGraphProofs --------------------------
(***************************************************************************)
(* No run is left behind at an idle node, the RequestTilesNode never waits *)
(* for answers that will not come, and runs neither overtake each other nor*)
(* get lost, for a graph of any length and any number of runs and of tiles.*)
(*                                                                         *)
(* Three invariants are inductive together: FetchInv of the answers, LineInv*)
(* of the runs and CountInv of the counters.  LineInv looks at the contexts*)
(* as one line from node N back to node 1, held[n] being those at node n.  *)
(* The lemmas on ...KeepsLine are about this line alone, whatever it stands*)
(* for; what the handlers do is one or two of its moves.                   *)
(***************************************************************************)
EXTENDS NodeGraph, FiniteSetTheorems, SequenceTheorems, WellFoundedInduction, TLAPS

(* What is inductive: nothing waits for an idle node.  The rest is the     *)
(* shape of the two functions.                                             *)
IInv ==
  /\ running = [n \in Nodes |-> running[n]]
  /\ pending = [n \in Nodes |-> pending[n]]
  /\ IdleHasNoQueue

(* A node may hand on runs as long as it keeps a queue only if it goes on. *)
LEMMA ForwardPreserves ==
  ASSUME IInv, NEW i \in Nodes, NEW contexts, NEW on \in BOOLEAN, NEW current, NEW queue, NEW lost,
         queue # <<>> => on,
         Forward(i, contexts, on, current, queue, lost)
  PROVE  IInv'
<1> DEFINE passed == Surviving(contexts, lost)
           j == Stop(i + 1)
           reaches(n) == n = j /\ passed # <<>>
<1>1. running' = [n \in Nodes |-> IF n = i THEN on ELSE running[n] \/ reaches(n)]
  BY DEF Forward
<1>2. pending' = [n \in Nodes |->
                    IF n = i THEN queue
                    ELSE IF reaches(n)
                      THEN Queued(pending[n], IF running[n] THEN passed ELSE Tail(passed))
                      ELSE pending[n]]
  BY DEF Forward
<1> HIDE DEF passed, j
<1>3. ASSUME NEW n \in Nodes, pending'[n] # <<>>
      PROVE  running'[n]
  <2>1. CASE n = i
    BY <1>1, <1>2, <1>3, <2>1
  <2>2. CASE n # i /\ reaches(n)
    BY <1>1, <2>2
  <2>3. CASE n # i /\ ~reaches(n)
    <3>1. pending'[n] = pending[n]
      BY <1>2, <2>3
    <3>2. running[n]
      BY <1>3, <3>1 DEF IInv, IdleHasNoQueue
    <3> QED
      BY <1>1, <2>3, <3>2
  <2> QED
    BY <2>1, <2>2, <2>3
<1>4. running' = [n \in Nodes |-> running'[n]] /\ pending' = [n \in Nodes |-> pending'[n]]
  BY <1>1, <1>2
<1> QED
  BY <1>3, <1>4 DEF IInv, IdleHasNoQueue, Nodes

(* A node that is busy may be given more to do.                            *)
LEMMA EnqueuePreserves ==
  ASSUME IInv, NEW i \in Nodes, NEW c, Enqueue(i, c)
  PROVE  IInv'
BY DEF IInv, IdleHasNoQueue, Enqueue, Nodes

(* A node that fails empties its queue.                                    *)
LEMMA FailRunPreserves ==
  ASSUME IInv, NEW i \in Nodes, FailRun(i)
  PROVE  IInv'
BY DEF IInv, IdleHasNoQueue, FailRun, Nodes

(* A node that completes goes on with its queue or lets all of it pass.    *)
LEMMA CompleteRunPreserves ==
  ASSUME IInv, NEW i \in Nodes, NEW lost, CompleteRun(i, lost)
  PROVE  IInv'
<1>1. CASE pending[i] = <<>> /\ Forward(i, <<ctx[i]>>, FALSE, ctx[i], <<>>, lost)
  BY <1>1, ForwardPreserves
<1>2. CASE Forward(i, <<ctx[i]>>, TRUE, Head(pending[i]), Tail(pending[i]), lost)
  BY <1>2, ForwardPreserves
<1>3. CASE Forward(i, <<ctx[i]>> \o pending[i], FALSE, Last(pending[i]), <<>>, lost)
  BY <1>3, ForwardPreserves
<1> QED
  BY <1>1, <1>2, <1>3 DEF CompleteRun

(* The RequestTilesNode waits in its queue, starts or ends at once.        *)
LEMMA RunFetchPreserves ==
  ASSUME IInv, NEW c, NEW tiles, NEW old, NEW open, NEW lost,
         RunFetch(c, tiles, old, open, lost)
  PROVE  IInv'
<1>1. 1 \in Nodes
  BY GraphAssumption DEF Nodes
<1>2. CASE Enqueue(1, c)
  BY <1>1, <1>2, EnqueuePreserves
<1>3. CASE Forward(1, <<>>, TRUE, c, <<>>, lost)
  BY <1>1, <1>3, ForwardPreserves
<1>4. CASE Forward(1, <<c>>, FALSE, c, <<>>, lost)
  BY <1>1, <1>4, ForwardPreserves
<1>5. CASE UNCHANGED <<running, pending>>
  BY <1>5 DEF IInv, IdleHasNoQueue, Nodes
<1> QED
  BY <1>2, <1>3, <1>4, <1>5 DEF RunFetch

(* A new graph is idle.                                                    *)
LEMMA InitEstablishes == Init => IInv
BY DEF Init, IInv, IdleHasNoQueue, Nodes

(* Whatever happens, also other settings while tiles are fetched.          *)
LEMMA StepPreserves ==
  ASSUME IInv, [UiNext]_vars
  PROVE  IInv'
<1>1. CASE Run
  <2>1. ASSUME NEW R, NEW lost, Trigger(R, lost) PROVE IInv'
    BY <2>1, RunFetchPreserves DEF Trigger
  <2>2. CASE TriggerFails
    BY <2>2 DEF TriggerFails, IInv, IdleHasNoQueue, Nodes
  <2> QED
    BY <1>1, <2>1, <2>2 DEF Run
<1>2. ASSUME NEW lost, SetSettings(lost) PROVE IInv'
  BY <1>2, RunFetchPreserves DEF SetSettings, Repeat
<1>3. CASE Disturb
  <2>1. ASSUME NEW R, NEW lost, Reselect(R, lost) PROVE IInv'
    BY <2>1, RunFetchPreserves DEF Reselect
  <2>2. ASSUME NEW lost, RerunFetch(lost) PROVE IInv'
    BY <2>2, RunFetchPreserves DEF RerunFetch, Repeat
  <2>3. ASSUME NEW i \in Nodes, NEW lost, Rerun(i, lost) PROVE IInv'
    <3>1. CASE Enqueue(i, ctx[i])
      BY <3>1, EnqueuePreserves
    <3>2. CASE Forward(i, <<>>, TRUE, ctx[i], <<>>, lost)
      BY <3>2, ForwardPreserves
    <3>3. CASE Forward(i, <<ctx[i]>>, FALSE, ctx[i], <<>>, lost)
      BY <3>3, ForwardPreserves
    <3> QED
      BY <2>3, <3>1, <3>2, <3>3 DEF Rerun
  <2>4. ASSUME NEW i \in Nodes, Toggle(i) PROVE IInv'
    BY <2>4 DEF Toggle, chain_vars, IInv, IdleHasNoQueue, Nodes
  <2> QED
    BY <1>2, <1>3, <2>1, <2>2, <2>3, <2>4 DEF Disturb
<1>A. 1 \in Nodes
  BY GraphAssumption DEF Nodes
<1>4. ASSUME NEW t \in Tiles, Answer(t) PROVE IInv'
  <2>1. ASSUME NEW good, TileReceived(t, good) PROVE IInv'
    BY <2>1 DEF TileReceived, chain_vars, IInv, IdleHasNoQueue, Nodes
  <2>2. ASSUME NEW good, FetchFails(t, good) PROVE IInv'
    BY <1>A, <2>2, FailRunPreserves DEF FetchFails
  <2>3. ASSUME NEW lost, FetchCompletes(t, lost) PROVE IInv'
    <3>1. CASE Forward(1, <<ctx[1]>> \o pending[1], FALSE,
                       Last(<<ctx[1]>> \o pending[1]), <<>>, lost)
      BY <1>A, <3>1, ForwardPreserves
    <3>2. CASE CompleteRun(1, lost)
      BY <1>A, <3>2, CompleteRunPreserves
    <3> QED
      BY <2>3, <3>1, <3>2 DEF FetchCompletes
  <2> QED
    BY <1>4, <2>1, <2>2, <2>3 DEF Answer
<1>5. ASSUME NEW i \in Nodes, NodeEnds(i) PROVE IInv'
  BY <1>5, FailRunPreserves, CompleteRunPreserves DEF NodeEnds, NodeFails, NodeCompletes
<1>6. CASE UNCHANGED vars
  BY <1>6 DEF vars, chain_vars, IInv, IdleHasNoQueue, Nodes
<1> QED
  BY <1>1, <1>2, <1>3, <1>4, <1>5, <1>6 DEF UiNext, Next

(* process_pending and fail_run never leave a run at a node that is idle,  *)
(* even when settings are changed while tiles are fetched.                 *)
THEOREM NothingLeftBehind == UiSpec => []IdleHasNoQueue
<1>1. IInv /\ [UiNext]_vars => IInv'
  BY StepPreserves
<1>2. IInv => IdleHasNoQueue
  BY DEF IInv
<1> QED
  BY InitEstablishes, <1>1, <1>2, PTL DEF UiSpec

-----------------------------------------------------------------------------
(* A set of natural numbers has a least element.                           *)
LEMMA Least ==
  ASSUME NEW S, S \subseteq Nat, S # {}
  PROVE  \E m \in S : \A k \in S : m <= k
<1>1. PICK below : IsWellFoundedOn(below, Nat) /\ \A k, m \in Nat : k < m => <<k, m>> \in below
  <2>1. IsWellFoundedOn(OpToRel(<, Nat), Nat)
    BY NatLessThanWellFounded
  <2>2. \A k, m \in Nat : k < m => <<k, m>> \in OpToRel(<, Nat)
    BY DEF OpToRel
  <2>3. QED BY <2>1, <2>2, Zenon
<1>2. PICK m \in S : \A k \in S : <<k, m>> \notin below
  <2>1. IsWellFoundedOn(below, Nat)
    BY <1>1, Zenon
  <2>2. QED BY <2>1, WFMin, Zenon
<1>3. ASSUME NEW k \in S PROVE m <= k
  <2>1. k \in Nat /\ m \in Nat
    OBVIOUS
  <2>2. ~(k < m)
    BY <1>1, <1>2, <2>1, Zenon
  <2>3. QED BY <2>1, <2>2
<1>4. QED BY <1>2, <1>3

(* A context always stops at a later node or behind the last.              *)
LEMMA StopIsAhead ==
  ASSUME NEW i \in 1..N + 1
  PROVE  /\ Stop(i) \in i..N + 1
         /\ Stop(i) = N + 1 \/ running[Stop(i)] \/ enabled[Stop(i)]
         /\ \A k \in i..Stop(i) - 1 : ~running[k] /\ ~enabled[k]
<1> DEFINE S == {j \in i..N + 1 : j = N + 1 \/ running[j] \/ enabled[j]}
<1>1. N \in Nat /\ S \subseteq Nat /\ N + 1 \in S
  BY GraphAssumption
<1>2. PICK j \in S : \A k \in S : j <= k
  BY <1>1, Least
<1>3. ASSUME NEW k \in i..j - 1 PROVE ~running[k] /\ ~enabled[k]
  <2>1. k \in i..N + 1 /\ ~(j <= k)
    BY <1>1
  <2>2. k \notin S
    BY <1>2, <2>1
  <2>3. QED BY <2>1, <2>2
<1>4. /\ j \in i..N + 1
      /\ j = N + 1 \/ running[j] \/ enabled[j]
      /\ \A k \in i..j - 1 : ~running[k] /\ ~enabled[k]
  BY <1>3
<1>5. QED BY <1>4 DEF Stop

(* What a node hands on reaches later nodes only.                          *)
LEMMA ForwardAtFirst ==
  ASSUME NEW i \in Nodes, NEW contexts, NEW on \in BOOLEAN, NEW current, NEW queue, NEW lost,
         Forward(i, contexts, on, current, queue, lost)
  PROVE  IF i = 1 THEN running'[1] <=> on ELSE running'[1] <=> running[1]
<1>1. i \in 1..N /\ 1 \in Nodes /\ i + 1 \in 1..N + 1
  BY GraphAssumption DEF Nodes
<1>2. Stop(i + 1) # 1
  BY <1>1, StopIsAhead, GraphAssumption
<1>3. PICK passed :
        running' = [n \in Nodes |-> IF n = i THEN on
                                    ELSE running[n] \/ (n = Stop(i + 1) /\ passed # <<>>)]
  BY DEF Forward
<1>4. running'[1] = IF 1 = i THEN on ELSE running[1] \/ (1 = Stop(i + 1) /\ passed # <<>>)
  BY <1>1, <1>3
<1>5. CASE i = 1
  BY <1>4, <1>5
<1>6. CASE i # 1
  BY <1>4, <1>6, <1>2
<1>7. QED BY <1>5, <1>6

(* What is inductive about the request: an idle node has all its answers   *)
(* and a node that has selected nothing has requested nothing.             *)
FetchInv ==
  /\ selected \in Regions \cup {{}} /\ requested \in Regions \cup {{}}
  /\ selected = {} => requested = {}
  /\ outstanding \subseteq requested
  /\ running[1] <=> outstanding # {}
  /\ signals_received \in Nat
  /\ signals_received + Cardinality(outstanding) = tiles_requested

(* What is selected is finite.                                             *)
LEMMA RegionsFinite ==
  ASSUME NEW R \in Regions \cup {{}}
  PROVE  IsFiniteSet(R) /\ Cardinality(R) \in Nat
<1>1. R \subseteq UNION Regions
  OBVIOUS
<1>2. QED BY <1>1, GraphAssumption, FS_Subset, FS_CardinalityType

(* A request starts with all of its answers outstanding.                   *)
LEMMA RequestCounts ==
  ASSUME NEW tiles \in Regions, Request(tiles, {}), running'[1],
         selected' \in Regions
  PROVE  FetchInv'
<1>1. tiles # {} /\ selected' # {}
  BY GraphAssumption
<1>2. QED BY <1>1, RegionsFinite DEF Request, FetchInv

(* Whatever is selected and was requested, an idle node asks for the tiles *)
(* or has them, and a busy one goes on.                                    *)
LEMMA FetchRuns ==
  ASSUME IInv, FetchInv, NEW c, NEW tiles \in Regions \cup {{}}, NEW old, NEW lost,
         RunFetch(c, tiles, old, outstanding, lost), selected' = tiles,
         tiles = {} => old = {},
         old = requested \/ (old = {} /\ ~running[1])
  PROVE  FetchInv'
<1>0. 1 \in Nodes
  BY GraphAssumption DEF Nodes
<1>1. CASE (running'[1] <=> running[1]) /\ Keep(old, outstanding)
  BY <1>1 DEF FetchInv, Keep
<1>2. CASE Enqueue(1, c) /\ Keep(old, outstanding)
  BY <1>1, <1>2 DEF Enqueue
<1>3. CASE /\ ~running[1] /\ enabled[1] /\ ~Cached(tiles, old)
           /\ Forward(1, <<>>, TRUE, c, <<>>, lost)
           /\ Request(tiles, outstanding)
  <2>1. running'[1]
    BY <1>0, <1>3, ForwardAtFirst
  <2>2. tiles # {} /\ outstanding = {}
    BY <1>3 DEF Cached, FetchInv
  <2>3. QED BY <1>3, <2>1, <2>2, RequestCounts
<1>4. CASE ~running[1] /\ Forward(1, <<c>>, FALSE, c, <<>>, lost) /\ Keep(old, outstanding)
  <2>1. ~running'[1]
    BY <1>0, <1>4, ForwardAtFirst
  <2>2. QED BY <1>1, <1>4, <2>1
<1>5. CASE UNCHANGED running /\ Keep(old, outstanding)
  BY <1>1, <1>5
<1>6. QED BY <1>2, <1>3, <1>4, <1>5 DEF RunFetch

(* An answer is counted and no longer outstanding.                         *)
LEMMA AnswerCounts ==
  ASSUME FetchInv, NEW t \in outstanding, NEW good, Counted(t, good)
  PROVE  /\ requested' = requested /\ outstanding' \subseteq requested
         /\ signals_received' \in Nat
         /\ signals_received' + Cardinality(outstanding') = tiles_requested'
         /\ outstanding' = {} <=> IsLast
<1>1. IsFiniteSet(outstanding) /\ Cardinality(outstanding) \in Nat
  BY RegionsFinite, FS_Subset, FS_CardinalityType DEF FetchInv
<1>2. outstanding' = outstanding \ {t} /\ Cardinality(outstanding') = Cardinality(outstanding) - 1
  BY <1>1, FS_RemoveElement DEF Counted
<1>3. outstanding' = {} <=> Cardinality(outstanding) = 1
  <2>1. Cardinality(outstanding') = 0 <=> outstanding' = {}
    BY <1>1, <1>2, FS_RemoveElement, FS_EmptySet
  <2>2. QED BY <1>1, <1>2, <2>1
<1>4. QED BY <1>1, <1>2, <1>3 DEF FetchInv, Counted, IsLast

(* The last answer ends the request, and the node asks again only if other *)
(* tiles were selected meanwhile.                                          *)
LEMMA FetchEnds ==
  ASSUME IInv, FetchInv, NEW t, NEW lost, FetchCompletes(t, lost)
  PROVE  FetchInv'
<1>0. 1 \in Nodes /\ t \in outstanding /\ t \in requested /\ IsLast /\ selected' = selected
  BY GraphAssumption DEF Nodes, FetchCompletes, user_vars
<1>1. CASE ~running'[1] /\ Counted(t, TRUE)
  <2>1. /\ requested' = requested /\ outstanding' = {}
        /\ signals_received' \in Nat
        /\ signals_received' + Cardinality(outstanding') = tiles_requested'
    BY <1>0, <1>1, AnswerCounts
  <2>2. QED BY <1>0, <1>1, <2>1 DEF FetchInv
<1>2. CASE running'[1] /\ Request(selected, outstanding \ {t}) /\ selected # requested
  <2>1. selected \in Regions
    BY <1>0 DEF FetchInv
  <2>2. outstanding \ {t} = {}
    <3>1. IsFiniteSet(outstanding) /\ Cardinality(outstanding) = 1
      BY <1>0, RegionsFinite, FS_Subset, FS_CardinalityType DEF FetchInv, IsLast
    <3>2. QED BY <1>0, <3>1, FS_Singleton
  <2>3. QED BY <1>0, <1>2, <2>1, <2>2, RequestCounts
<1>3. CASE /\ Forward(1, <<ctx[1]>> \o pending[1], FALSE, Last(<<ctx[1]>> \o pending[1]), <<>>, lost)
           /\ Counted(t, TRUE)
  <2>1. ~running'[1]
    BY <1>0, <1>3, ForwardAtFirst
  <2>2. QED BY <1>1, <1>3, <2>1
<1>4. CASE /\ enabled[1] => selected # requested
           /\ CompleteRun(1, lost)
           /\ IF running'[1] THEN Request(selected, outstanding \ {t}) ELSE Counted(t, TRUE)
  <2>1. CASE Forward(1, <<ctx[1]>>, FALSE, ctx[1], <<>>, lost)
    <3>1. ~running'[1]
      BY <1>0, <2>1, ForwardAtFirst
    <3>2. QED BY <1>1, <1>4, <3>1
  <2>2. CASE enabled[1] /\ Forward(1, <<ctx[1]>>, TRUE, Head(pending[1]), Tail(pending[1]), lost)
    <3>1. running'[1]
      BY <1>0, <2>2, ForwardAtFirst
    <3>2. QED BY <1>2, <1>4, <2>2, <3>1
  <2>3. CASE Forward(1, <<ctx[1]>> \o pending[1], FALSE, Last(pending[1]), <<>>, lost)
    <3>1. ~running'[1]
      BY <1>0, <2>3, ForwardAtFirst
    <3>2. QED BY <1>1, <1>4, <3>1
  <2>4. QED BY <1>4, <2>1, <2>2, <2>3 DEF CompleteRun
<1>5. QED BY <1>3, <1>4 DEF FetchCompletes

(* What the other nodes do is no matter to the request.                    *)
LEMMA UnseenByFetch ==
  ASSUME FetchInv, UNCHANGED fetch_vars, selected' = selected, running'[1] <=> running[1]
  PROVE  FetchInv'
BY DEF FetchInv, fetch_vars

(* No step disturbs what is inductive about the request.                   *)
LEMMA FetchInvHolds ==
  ASSUME IInv, FetchInv, [Next]_vars
  PROVE  FetchInv'
<1>0. 1 \in Nodes
  BY GraphAssumption DEF Nodes
<1>1. ASSUME NEW R \in Regions, NEW lost, Trigger(R, lost) PROVE FetchInv'
  BY <1>1, GraphAssumption, FetchRuns DEF Trigger
<1>2. CASE TriggerFails
  BY <1>2, UnseenByFetch DEF TriggerFails
<1>3. ASSUME NEW R \in Regions, NEW lost, Reselect(R, lost) PROVE FetchInv'
  BY <1>3, GraphAssumption, FetchRuns DEF Reselect
<1>4. ASSUME NEW lost, RerunFetch(lost) PROVE FetchInv'
  BY <1>4, FetchRuns DEF RerunFetch, Repeat, FetchInv
<1>5. ASSUME NEW lost, ~running[1], SetSettings(lost) PROVE FetchInv'
  <2>1. outstanding = {} /\ selected \in Regions \cup {{}}
    BY <1>5 DEF FetchInv
  <2>2. RunFetch(ctx[1], selected, {}, outstanding, lost) /\ selected' = selected
    BY <1>5, <2>1 DEF SetSettings, Repeat
  <2>3. QED BY <1>5, <2>1, <2>2, FetchRuns
<1>6. ASSUME NEW i \in Nodes, NEW lost, Rerun(i, lost) PROVE FetchInv'
  <2>1. i # 1 /\ UNCHANGED fetch_vars /\ selected' = selected
    BY <1>6 DEF Rerun
  <2>2. CASE Enqueue(i, ctx[i])
    BY <2>1, <2>2, UnseenByFetch DEF Enqueue
  <2>3. CASE Forward(i, <<>>, TRUE, ctx[i], <<>>, lost)
    BY <2>1, <2>3, ForwardAtFirst, UnseenByFetch
  <2>4. CASE Forward(i, <<ctx[i]>>, FALSE, ctx[i], <<>>, lost)
    BY <2>1, <2>4, ForwardAtFirst, UnseenByFetch
  <2>5. QED BY <1>6, <2>2, <2>3, <2>4 DEF Rerun
<1>7. ASSUME NEW i \in Nodes, Toggle(i) PROVE FetchInv'
  BY <1>7, UnseenByFetch DEF Toggle, chain_vars
<1>8. ASSUME NEW t, NEW good, TileReceived(t, good) PROVE FetchInv'
  <2>1. t \in outstanding /\ ~IsLast /\ Counted(t, good) /\ running' = running /\ selected' = selected
    BY <1>8 DEF TileReceived, chain_vars, user_vars
  <2>2. running[1]
    BY <2>1 DEF FetchInv
  <2>3. QED BY <2>1, <2>2, AnswerCounts DEF FetchInv
<1>9. ASSUME NEW t, NEW good, FetchFails(t, good) PROVE FetchInv'
  <2>1. t \in outstanding /\ IsLast /\ Counted(t, good) /\ FailRun(1) /\ selected' = selected
    BY <1>9 DEF FetchFails, user_vars
  <2>2. ~running'[1]
    BY <1>0, <2>1 DEF FailRun, IInv
  <2>3. QED BY <2>1, <2>2, AnswerCounts DEF FetchInv
<1>10. ASSUME NEW t, NEW lost, FetchCompletes(t, lost) PROVE FetchInv'
  BY <1>10, FetchEnds
<1>11. ASSUME NEW i \in Nodes, NodeFails(i) PROVE FetchInv'
  <2>1. i # 1 /\ FailRun(i) /\ UNCHANGED fetch_vars /\ selected' = selected
    BY <1>11 DEF NodeFails, user_vars
  <2>2. running'[1] <=> running[1]
    BY <1>0, <2>1 DEF FailRun, IInv
  <2>3. QED BY <2>1, <2>2, UnseenByFetch
<1>12. ASSUME NEW i \in Nodes, NEW lost, NodeCompletes(i, lost) PROVE FetchInv'
  <2>1. i # 1 /\ CompleteRun(i, lost) /\ UNCHANGED fetch_vars /\ selected' = selected
    BY <1>12 DEF NodeCompletes, user_vars
  <2>2. running'[1] <=> running[1]
    BY <2>1, ForwardAtFirst DEF CompleteRun
  <2>3. QED BY <2>1, <2>2, UnseenByFetch
<1>13. CASE UNCHANGED vars
  BY <1>13, UnseenByFetch DEF vars, chain_vars, user_vars
<1>14. QED
  BY <1>1, <1>2, <1>3, <1>4, <1>5, <1>6, <1>7, <1>8, <1>9, <1>10, <1>11, <1>12, <1>13
  DEF Next, Run, Disturb, Answer, NodeEnds

(* At first nothing is selected, requested or answered.                    *)
LEMMA FetchAtFirst == Init => FetchInv
BY GraphAssumption, FS_EmptySet DEF Init, FetchInv, Nodes

(* A node whose loader was replaced while it ran waits for nothing.        *)
Hung == running[1] /\ outstanding = {}

(* It does so forever: it can only queue what it is asked for.             *)
LEMMA HungStays ==
  ASSUME IInv, Hung, [UiNext]_vars
  PROVE  Hung'
<1>1. 1 \in Nodes
  BY GraphAssumption DEF Nodes
<1>2. ASSUME NEW i \in Nodes, i # 1, NEW contexts, NEW on, NEW current, NEW queue, NEW lost,
             Forward(i, contexts, on, current, queue, lost)
      PROVE  running'[1]
  BY <1>1, <1>2 DEF Forward, Hung
<1>3. ASSUME NEW c, NEW tiles, NEW old, NEW open, NEW lost, open \subseteq outstanding,
             RunFetch(c, tiles, old, open, lost)
      PROVE  Hung'
  BY <1>3 DEF RunFetch, Enqueue, Keep, Hung
<1>4. CASE Run
  <2>1. ASSUME NEW R, NEW lost, Trigger(R, lost) PROVE Hung'
    BY <1>3, <2>1 DEF Trigger
  <2>2. CASE TriggerFails
    BY <2>2 DEF TriggerFails, fetch_vars, Hung
  <2>3. QED BY <1>4, <2>1, <2>2 DEF Run
<1>5. ASSUME NEW R, NEW lost, Reselect(R, lost) PROVE Hung'
  BY <1>3, <1>5 DEF Reselect
<1>6. ASSUME NEW lost, RerunFetch(lost) \/ SetSettings(lost) PROVE Hung'
  BY <1>3, <1>6 DEF RerunFetch, SetSettings, Repeat
<1>7. ASSUME NEW i \in Nodes, NEW lost, Rerun(i, lost) PROVE Hung'
  BY <1>2, <1>7 DEF Rerun, Enqueue, fetch_vars, Hung
<1>8. ASSUME NEW i \in Nodes, Toggle(i) PROVE Hung'
  BY <1>8 DEF Toggle, chain_vars, fetch_vars, Hung
<1>9. ASSUME NEW t, Answer(t) PROVE FALSE
  BY <1>9 DEF Answer, TileReceived, FetchFails, FetchCompletes, Hung
<1>10. ASSUME NEW i \in Nodes, NodeFails(i) PROVE Hung'
  BY <1>1, <1>10 DEF NodeFails, FailRun, fetch_vars, Hung, IInv
<1>11. ASSUME NEW i \in Nodes, NEW lost, NodeCompletes(i, lost) PROVE Hung'
  BY <1>2, <1>11 DEF NodeCompletes, CompleteRun, fetch_vars, Hung
<1>12. CASE UNCHANGED vars
  BY <1>12 DEF vars, chain_vars, fetch_vars, Hung
<1>13. CASE Disturb
  BY <1>5, <1>6, <1>7, <1>8, <1>13 DEF Disturb
<1>14. QED BY <1>4, <1>6, <1>9, <1>10, <1>11, <1>12, <1>13 DEF UiNext, Next, NodeEnds

(* Whatever the user does, the node is as it should be or hangs.           *)
LEMMA AnswersOrHangs ==
  ASSUME IInv, FetchInv \/ Hung, [UiNext]_vars
  PROVE  FetchInv' \/ Hung'
<1>1. CASE Hung
  BY <1>1, HungStays
<1>2. CASE FetchInv /\ [Next]_vars
  BY <1>2, FetchInvHolds
<1>3. ASSUME FetchInv, NEW lost \in Lost, SetSettings(lost) PROVE FetchInv' \/ Hung'
  <2>1. CASE running[1]
    BY <1>3, <2>1 DEF SetSettings, Repeat, RunFetch, Enqueue, Keep, Hung
  <2>2. CASE ~running[1]
    BY <1>2, <1>3, <2>2 DEF Next, Disturb
  <2>3. QED BY <2>1, <2>2
<1>4. QED BY <1>1, <1>2, <1>3 DEF UiNext

(* A RequestTilesNode that runs waits for an answer that will come, and    *)
(* its counters and what is outstanding add up, whatever is selected, run  *)
(* again or disabled meanwhile.                                            *)
THEOREM FetchStaysAnswered == Spec => []FetchIsAnswered
<1>1. Init => IInv /\ FetchInv
  BY InitEstablishes, FetchAtFirst
<1>2. IInv /\ FetchInv /\ [Next]_vars => (IInv /\ FetchInv)'
  <2>1. IInv /\ [Next]_vars => IInv'
    BY StepPreserves DEF UiNext
  <2>2. QED BY <2>1, FetchInvHolds
<1>3. FetchInv => FetchIsAnswered
  BY DEF FetchInv, FetchIsAnswered
<1>4. QED BY <1>1, <1>2, <1>3, PTL DEF Spec

-----------------------------------------------------------------------------
(* How many elements of a set of indices come up to the k-th.              *)
LEMMA UpTo ==
  ASSUME NEW n \in Nat, NEW kept, kept \subseteq 1..n
  PROVE  /\ IsFiniteSet(kept) /\ Cardinality(kept) \in Nat
         /\ Cardinality(kept \cap 1..0) = 0 /\ Cardinality(kept \cap 1..n) = Cardinality(kept)
         /\ \A k \in Nat : Cardinality(kept \cap 1..k) \in 0..Cardinality(kept)
         /\ \A k \in 1..n :
              Cardinality(kept \cap 1..k)
                = Cardinality(kept \cap 1..k - 1) + IF k \in kept THEN 1 ELSE 0
         /\ \A k, l \in Nat : k <= l => Cardinality(kept \cap 1..k) <= Cardinality(kept \cap 1..l)
<1>1. IsFiniteSet(1..n)
  BY FS_Interval
<1>2. IsFiniteSet(kept)
  BY <1>1, FS_Subset
<1>3. \A k \in Nat : IsFiniteSet(kept \cap 1..k)
  BY <1>2, FS_Subset, Zenon
<1>4. kept \cap 1..0 = {} /\ kept \cap 1..n = kept
  <2>1. 1..0 = {}
    OBVIOUS
  <2>2. QED BY <2>1, Zenon
<1>5. ASSUME NEW k \in Nat PROVE Cardinality(kept \cap 1..k) \in 0..Cardinality(kept)
  <2>1. kept \cap 1..k \subseteq kept
    OBVIOUS
  <2>2. Cardinality(kept \cap 1..k) <= Cardinality(kept)
    BY <1>2, <2>1, FS_Subset
  <2>3. QED BY <1>2, <1>3, <2>2, FS_CardinalityType
<1>6. ASSUME NEW k \in 1..n
      PROVE  Cardinality(kept \cap 1..k)
               = Cardinality(kept \cap 1..k - 1) + IF k \in kept THEN 1 ELSE 0
  <2>1. k \in Nat /\ k - 1 \in Nat
    OBVIOUS
  <2>2. CASE k \in kept
    <3>1. kept \cap 1..k = (kept \cap 1..k - 1) \cup {k} /\ k \notin kept \cap 1..k - 1
      BY <2>2
    <3>2. QED BY <2>1, <2>2, <3>1, <1>3, FS_AddElement
  <2>3. CASE k \notin kept
    <3>1. kept \cap 1..k = kept \cap 1..k - 1
      BY <2>3
    <3>2. QED BY <1>5, <2>1, <2>3, <3>1
  <2>4. QED BY <2>2, <2>3
<1>7. ASSUME NEW k \in Nat, NEW l \in Nat, k <= l
      PROVE  Cardinality(kept \cap 1..k) <= Cardinality(kept \cap 1..l)
  <2>1. kept \cap 1..k \subseteq kept \cap 1..l
    BY <1>7
  <2>2. QED BY <1>3, <2>1, FS_Subset
<1>8. QED BY <1>2, <1>4, <1>5, <1>6, <1>7, FS_EmptySet, FS_CardinalityType

(* The k-th of the passed contexts was the e[k]-th.                        *)
ComesFrom(e, passed, contexts, lost) ==
  /\ \A k \in DOMAIN e : passed[k] = contexts[e[k]] /\ contexts[e[k]] \notin lost
  /\ \A k, l \in DOMAIN e : k < l => e[k] < e[l]
  /\ \A n \in DOMAIN contexts : contexts[n] \notin lost => \E k \in DOMAIN e : e[k] = n

(* The contexts that survive keep their order and none is left out.        *)
LEMMA SurvivingKeepsOrder ==
  ASSUME NEW S, NEW contexts \in Seq(S), NEW lost
  PROVE  /\ Surviving(contexts, lost) \in Seq(S)
         /\ \E e \in [DOMAIN Surviving(contexts, lost) -> DOMAIN contexts] :
              ComesFrom(e, Surviving(contexts, lost), contexts, lost)
<1> DEFINE L == Len(contexts)
           kept == {k \in DOMAIN contexts : contexts[k] \notin lost}
           count(k) == Cardinality(kept \cap 1..k)
           Nth(n) == CHOOSE k \in kept : count(k) = n
           last == Cardinality(kept)
           e == [n \in 1..last |-> Nth(n)]
<1>1. L \in Nat /\ DOMAIN contexts = 1..L /\ kept \subseteq 1..L
  OBVIOUS
<1>2. /\ last \in Nat
      /\ count(0) = 0 /\ count(L) = last
      /\ \A k \in Nat : count(k) \in 0..last
      /\ \A k \in 1..L : count(k) = count(k - 1) + IF k \in kept THEN 1 ELSE 0
      /\ \A k, l \in Nat : k <= l => count(k) <= count(l)
  <2>1. L \in Nat /\ kept \subseteq 1..L
    BY <1>1, Zenon
  <2> HIDE DEF L, kept
  <2>2. QED BY <2>1, UpTo, Zenon
<1> HIDE DEF count
<1>3. ASSUME NEW n \in 1..last
      PROVE  Nth(n) \in kept /\ count(Nth(n)) = n
  <2> DEFINE T == {k \in 0..L : count(k) >= n}
  <2>1. T \subseteq Nat /\ L \in T
    BY <1>1, <1>2
  <2>2. PICK m \in T : \A k \in T : m <= k
    BY <2>1, Least
  <2>3. m # 0 /\ m \in 1..L
    BY <1>1, <1>2, <2>2
  <2>4. m - 1 \in 0..L /\ m - 1 \notin T
    BY <2>2, <2>3
  <2>5. count(m - 1) < n /\ count(m) >= n /\ count(m - 1) \in 0..last
    BY <1>1, <1>2, <2>2, <2>4
  <2>6. m \in kept /\ count(m) = n
    <3>1. count(m) = count(m - 1) + IF m \in kept THEN 1 ELSE 0
      BY <1>2, <2>3
    <3>2. n \in Nat /\ count(m - 1) \in Nat
      BY <1>2, <2>5
    <3> HIDE DEF kept, last
    <3>3. CASE m \in kept
      BY <2>5, <3>1, <3>2, <3>3
    <3>4. CASE m \notin kept
      BY <2>5, <3>1, <3>2, <3>4
    <3>5. QED BY <3>3, <3>4
  <2>7. QED BY <2>6
<1>4. ASSUME NEW n \in kept
      PROVE  count(n) \in 1..last /\ Nth(count(n)) = n
  <2>1. n \in 1..L /\ n - 1 \in Nat /\ n \in Nat
    BY <1>1
  <2>2. count(n) \in 1..last
    BY <1>2, <2>1
  <2>3. ASSUME NEW k \in kept, NEW l \in kept, k < l PROVE count(k) < count(l)
    <3>1. k \in Nat /\ l - 1 \in Nat /\ l \in 1..L /\ k <= l - 1
      BY <1>1, <2>3
    <3>2. count(k) <= count(l - 1) /\ count(l) = count(l - 1) + 1
      BY <1>2, <3>1
    <3>3. QED BY <1>2, <3>1, <3>2
  <2>4. Nth(count(n)) \in kept /\ count(Nth(count(n))) = count(n)
    BY <1>3, <2>2
  <2>5. ~(Nth(count(n)) < n) /\ ~(n < Nth(count(n)))
    <3> DEFINE o == Nth(count(n))
    <3>1. o \in kept /\ count(o) = count(n) /\ count(n) \in Nat
      BY <2>2, <2>4
    <3> HIDE DEF o
    <3>2. ~(o < n) /\ ~(n < o)
      BY <2>3, <3>1
    <3>3. QED BY <3>2 DEF o
  <2>6. Nth(count(n)) \in 1..L
    BY <1>1, <2>4
  <2>7. QED BY <2>1, <2>2, <2>5, <2>6
<1>5. Surviving(contexts, lost) = [n \in 1..last |-> contexts[Nth(n)]]
  BY DEF Surviving, count
<1>6. ASSUME NEW k \in 1..last, NEW l \in 1..last, k < l PROVE Nth(k) < Nth(l)
  <2> DEFINE x == Nth(k)
             y == Nth(l)
  <2>1. x \in Nat /\ y \in Nat /\ count(x) = k /\ count(y) = l
    BY <1>1, <1>3
  <2> HIDE DEF x, y
  <2>2. ~(y <= x)
    BY <1>2, <1>6, <2>1
  <2>3. x < y
    BY <2>1, <2>2
  <2>4. QED BY <2>3 DEF x, y
<1> HIDE DEF Nth
<1>7. /\ DOMAIN Surviving(contexts, lost) = 1..last
      /\ \A k \in 1..last : Surviving(contexts, lost)[k] = contexts[e[k]] /\ e[k] = Nth(k)
  BY <1>5
<1>8. \A k \in 1..last : e[k] \in DOMAIN contexts /\ contexts[e[k]] \notin lost
  BY <1>1, <1>3, <1>7
<1>9. Surviving(contexts, lost) \in Seq(S)
  <2>1. \A k \in 1..last : contexts[Nth(k)] \in S
    BY <1>7, <1>8
  <2>2. [k \in 1..last |-> contexts[Nth(k)]] \in [1..last -> S]
    BY <2>1
  <2> HIDE DEF last
  <2>3. QED BY <1>2, <1>5, <2>2
<1>10. e \in [DOMAIN Surviving(contexts, lost) -> DOMAIN contexts] /\ DOMAIN e = 1..last
  BY <1>7, <1>8
<1>11. \A k, l \in DOMAIN e : k < l => e[k] < e[l]
  BY <1>6, <1>7, <1>10
<1>12. \A n \in DOMAIN contexts : contexts[n] \notin lost => \E k \in DOMAIN e : e[k] = n
  <2>1. \A n \in kept : count(n) \in DOMAIN e /\ e[count(n)] = n
    BY <1>4, <1>7, <1>10
  <2>2. QED BY <2>1
<1> HIDE DEF e
<1>13. ComesFrom(e, Surviving(contexts, lost), contexts, lost)
  BY <1>7, <1>8, <1>10, <1>11, <1>12 DEF ComesFrom
<1>14. QED BY <1>9, <1>10, <1>13

(* The k-th context at node n is nearer to the end of the graph than the   *)
(* l-th at node m.                                                         *)
Ahead(n, k, m, l) == m < n \/ (m = n /\ k < l)

(* held are the contexts by node; those in skip were repeated, so that     *)
(* they may be anywhere.                                                   *)
InLine(held, done, skip) ==
  \A n \in Nodes : \A k \in DOMAIN held[n] : held[n][k] \notin skip =>
    /\ \A m \in Nodes : \A l \in DOMAIN held[m] :
         Ahead(n, k, m, l) /\ held[m][l] \notin skip => held[n][k] < held[m][l]
    /\ \A s \in done \ skip : s < held[n][k]

(* Some node has the run r, as its own or waiting.                         *)
IsHeld(held, r) == \E n \in Nodes : \E k \in DOMAIN held[n] : held[n][k] = r

(* A run that was not repeated is held or over in one way, never both.     *)
InOnePlace(held, done, bad, given, skip, last) ==
  \A r \in 1..last \ skip :
    /\ IsHeld(held, r) \/ r \in done \/ r \in bad \/ r \in given
    /\ IsHeld(held, r) => r \notin done \cup bad \cup given
    /\ r \notin done \cap bad /\ r \notin done \cap given /\ r \notin bad \cap given

(* Nothing is known by a number that no run has had yet.                   *)
Known(held, done, bad, given, skip, last) ==
  /\ last \in Nat /\ 0 \in skip
  /\ held \in [Nodes -> Seq(0..last)]
  /\ skip \subseteq 0..last
  /\ done \subseteq 1..last /\ bad \subseteq 1..last /\ given \subseteq 1..last

(* done, bad and given are the runs that are over, last the latest run.    *)
Line(held, done, bad, given, skip, last) ==
  /\ Known(held, done, bad, given, skip, last)
  /\ InLine(held, done, skip)
  /\ InOnePlace(held, done, bad, given, skip, last)

(* What is known of the contexts u = s \o t.                               *)
Joined(s, t, u, S) ==
  /\ u \in Seq(S) /\ Len(s) \in Nat /\ Len(t) \in Nat
  /\ DOMAIN s = 1..Len(s) /\ DOMAIN t = 1..Len(t) /\ DOMAIN u = 1..Len(s) + Len(t)
  /\ \A k \in 1..Len(s) : s[k] \in S /\ u[k] = s[k]
  /\ \A k \in 1..Len(t) : t[k] \in S /\ u[Len(s) + k] = t[k]
  /\ \A k \in Len(s) + 1..Len(s) + Len(t) : k - Len(s) \in 1..Len(t) /\ u[k] = t[k - Len(s)]

(* What is known of a concatenation, in terms of its elements.             *)
LEMMA Concatenation ==
  ASSUME NEW S, NEW s \in Seq(S), NEW t \in Seq(S)
  PROVE  Joined(s, t, s \o t, S)
<1>1. /\ s \o t \in Seq(S) /\ Len(s) \in Nat /\ Len(t) \in Nat
      /\ DOMAIN s = 1..Len(s) /\ DOMAIN t = 1..Len(t)
      /\ \A k \in 1..Len(s) : s[k] \in S
      /\ \A k \in 1..Len(t) : t[k] \in S
  OBVIOUS
<1>2. Len(s \o t) = Len(s) + Len(t)
  OBVIOUS
<1>3. DOMAIN (s \o t) = 1..Len(s) + Len(t)
  BY <1>1, <1>2
<1>4. \A k \in 1..Len(s) : (s \o t)[k] = s[k]
  OBVIOUS
<1>5. ASSUME NEW k \in Len(s) + 1..Len(s) + Len(t)
      PROVE  k - Len(s) \in 1..Len(t) /\ (s \o t)[k] = t[k - Len(s)]
  BY <1>1
<1>6. ASSUME NEW k \in 1..Len(t) PROVE (s \o t)[Len(s) + k] = t[k]
  BY <1>1
<1>7. QED BY <1>1, <1>3, <1>4, <1>5, <1>6 DEF Joined

(* Node i is left with rest, and what has passed comes to node j.          *)
MovedTo(held, i, rest, j, passed) ==
  [n \in Nodes |-> IF n = i THEN rest ELSE IF n = j THEN held[n] \o passed ELSE held[n]]

(* Behind node N they are over.                                            *)
DoneAt(done, j, passed) == IF j = N + 1 THEN done \cup Numbered(ToSet(passed)) ELSE done

(* A node hands on the first of what it has, without what is lost, past    *)
(* nodes that have nothing: the line is the same as before, but shorter.   *)
LEMMA MoveKeepsLine ==
  ASSUME NEW held, NEW done, NEW bad, NEW given, NEW skip, NEW last,
         Line(held, done, bad, given, skip, last),
         NEW i \in Nodes, NEW j \in i + 1..N + 1, \A n \in i + 1..j - 1 : held[n] = <<>>,
         NEW moved \in Seq(0..last), NEW rest \in Seq(0..last), held[i] = moved \o rest,
         NEW lost \in SUBSET ToSet(moved)
  PROVE  Line(MovedTo(held, i, rest, j, Surviving(moved, lost)),
              DoneAt(done, j, Surviving(moved, lost)), bad \cup Numbered(lost), given, skip, last)
<1> DEFINE passed == Surviving(moved, lost)
           held2 == MovedTo(held, i, rest, j, passed)
           done2 == DoneAt(done, j, passed)
           bad2 == bad \cup Numbered(lost)
<1>1. /\ passed \in Seq(0..last)
      /\ \E e \in [DOMAIN passed -> DOMAIN moved] : ComesFrom(e, passed, moved, lost)
  BY SurvivingKeepsOrder
<1> HIDE DEF passed
<1>2. PICK e \in [DOMAIN passed -> DOMAIN moved] :
           /\ \A k \in DOMAIN e : passed[k] = moved[e[k]] /\ moved[e[k]] \notin lost
           /\ \A k, l \in DOMAIN e : k < l => e[k] < e[l]
           /\ \A n \in DOMAIN moved : moved[n] \notin lost => \E k \in DOMAIN e : e[k] = n
  BY <1>1 DEF ComesFrom
<1>3. /\ last \in Nat /\ 0 \in skip /\ N \in Nat /\ i \in 1..N /\ j \in i + 1..N + 1
      /\ \A n \in Nodes : n \in Int /\ held[n] \in Seq(0..last)
  <2>1. last \in Nat /\ 0 \in skip /\ held \in [Nodes -> Seq(0..last)]
    BY DEF Line, Known
  <2>2. N \in Nat
    BY GraphAssumption
  <2>3. i \in 1..N /\ \A n \in Nodes : n \in Int
    BY DEF Nodes
  <2>4. QED BY <2>1, <2>2, <2>3
<1>4. /\ \A n \in Nodes : held2[n] = IF n = i THEN rest
                                     ELSE IF n = j THEN held[n] \o passed ELSE held[n]
      /\ held2 \in [Nodes -> Seq(0..last)]
  <2>1. \A n \in Nodes : n = j => held[n] \o passed \in Seq(0..last)
    BY <1>1, <1>3
  <2>2. QED BY <1>3, <2>1 DEF MovedTo
<1>A. /\ Len(moved) \in Nat /\ DOMAIN moved = 1..Len(moved) /\ DOMAIN rest = 1..Len(rest)
      /\ Len(rest) \in Nat
      /\ DOMAIN held[i] = 1..Len(moved) + Len(rest)
      /\ \A k \in 1..Len(moved) : moved[k] \in 0..last /\ held[i][k] = moved[k]
      /\ \A k \in 1..Len(rest) : held[i][Len(moved) + k] = rest[k]
      /\ \A k \in Len(moved) + 1..Len(moved) + Len(rest) :
           k - Len(moved) \in 1..Len(rest) /\ held[i][k] = rest[k - Len(moved)]
  <2> HIDE DEF held2
  <2>1. moved \in Seq(0..last) /\ rest \in Seq(0..last) /\ held[i] = moved \o rest
    OBVIOUS
  <2>2. Joined(moved, rest, held[i], 0..last)
    BY <2>1, Concatenation
  <2>3. QED BY <2>2 DEF Joined
<1>B. ASSUME j \in Nodes
      PROVE  LET at == Len(held[j]) IN
             /\ held2[j] = held[j] \o passed
             /\ at \in Nat /\ Len(passed) \in Nat
             /\ DOMAIN held[j] = 1..at /\ DOMAIN passed = 1..Len(passed)
             /\ DOMAIN held2[j] = 1..at + Len(passed)
             /\ \A k \in 1..at : held2[j][k] = held[j][k]
             /\ \A k \in 1..Len(passed) : held2[j][at + k] = passed[k]
             /\ \A k \in at + 1..at + Len(passed) :
                  k - at \in 1..Len(passed) /\ held2[j][k] = passed[k - at]
  <2> HIDE DEF held2
  <2>0. j # i
    BY <1>3
  <2>1. held2[j] = held[j] \o passed
    BY <1>4, <1>B, <2>0
  <2>2. held[j] \in Seq(0..last) /\ passed \in Seq(0..last)
    BY <1>1, <1>3, <1>B
  <2>3. Joined(held[j], passed, held2[j], 0..last)
    BY <2>1, <2>2, Concatenation
  <2>4. QED BY <2>1, <2>3 DEF Joined
<1> HIDE DEF held2
<1>C. /\ \A n \in Nodes : DOMAIN held2[n] \subseteq Nat \ {0} /\ DOMAIN held[n] \subseteq Nat \ {0}
      /\ \A n \in Nodes : n \in i + 1..j - 1 => DOMAIN held2[n] = {} /\ DOMAIN held[n] = {}
  <2>1. \A n \in Nodes : n \in i + 1..j - 1 => held2[n] = <<>> /\ held[n] = <<>>
    <3>1. ASSUME NEW n \in Nodes, n \in i + 1..j - 1 PROVE n # i /\ n # j /\ held[n] = <<>>
      BY <1>3, <3>1
    <3>2. QED BY <1>4, <3>1
  <2>2. \A t \in Seq(0..last) : DOMAIN t \subseteq Nat \ {0}
    OBVIOUS
  <2>3. DOMAIN <<>> = {}
    OBVIOUS
  <2>4. QED BY <1>3, <1>4, <2>1, <2>2, <2>3
<1> DEFINE on(n, k) == IF n = j /\ k > Len(held[j]) THEN i ELSE n
           at(n, k) == IF n = i THEN Len(moved) + k
                       ELSE IF n = j /\ k > Len(held[j]) THEN e[k - Len(held[j])] ELSE k
(* Where a context came from.                                              *)
<1>5. ASSUME NEW n \in Nodes, NEW k \in DOMAIN held2[n]
      PROVE  /\ on(n, k) \in Nodes /\ at(n, k) \in DOMAIN held[on(n, k)]
             /\ held[on(n, k)][at(n, k)] = held2[n][k]
             /\ on(n, k) = i /\ at(n, k) <= Len(moved) => j \in Nodes /\ held2[n][k] \notin lost
  <2>1. CASE n = i
    <3>1. held2[n] = rest /\ k \in 1..Len(rest) /\ j # i
      BY <1>3, <1>4, <1>A, <2>1
    <3>2. on(n, k) = i /\ at(n, k) = Len(moved) + k
      BY <2>1, <3>1
    <3>3. Len(moved) + k \in DOMAIN held[i] /\ ~(Len(moved) + k <= Len(moved))
      BY <1>A, <3>1
    <3>4. held[i][Len(moved) + k] = rest[k]
      BY <1>A, <3>1
    <3>5. QED BY <2>1, <3>1, <3>2, <3>3, <3>4
  <2>2. CASE n = j /\ k > Len(held[j])
    <3>1. j # i
      BY <1>3
    <3>2. k - Len(held[j]) \in DOMAIN passed /\ held2[n][k] = passed[k - Len(held[j])]
      <4> DEFINE at0 == Len(held[j])
      <4>1. n = j /\ j \in Nodes /\ k > at0 /\ k \in DOMAIN held2[j]
        BY <2>2, Zenon
      <4>2. /\ at0 \in Nat /\ Len(passed) \in Nat
            /\ DOMAIN passed = 1..Len(passed) /\ DOMAIN held2[j] = 1..at0 + Len(passed)
            /\ \A l \in at0 + 1..at0 + Len(passed) :
                 l - at0 \in 1..Len(passed) /\ held2[j][l] = passed[l - at0]
        BY <1>B, <4>1, Zenon
      <4> HIDE DEF at0
      <4>3. k \in at0 + 1..at0 + Len(passed)
        BY <4>1, <4>2
      <4>4. k - at0 \in DOMAIN passed /\ held2[j][k] = passed[k - at0]
        BY <4>2, <4>3, Zenon
      <4>5. QED BY <4>1, <4>4, Zenon DEF at0
    <3>3. on(n, k) = i /\ at(n, k) = e[k - Len(held[j])]
      BY <2>2, <3>1
    <3>4. /\ at(n, k) \in DOMAIN moved /\ held2[n][k] = moved[at(n, k)] /\ held2[n][k] \notin lost
      BY <1>2, <3>2, <3>3
    <3>5. \A q \in DOMAIN moved : q \in DOMAIN held[i] /\ held[i][q] = moved[q]
      BY <1>A
    <3>6. QED BY <2>2, <3>3, <3>4, <3>5
  <2>3. CASE n # i /\ ~(n = j /\ k > Len(held[j]))
    <3>1. on(n, k) = n /\ at(n, k) = k
      BY <2>3
    <3>2. CASE n = j
      <4>1. k \in 1..Len(held[j]) + Len(passed) /\ k <= Len(held[j]) /\ Len(held[j]) \in Nat
        BY <1>B, <2>3, <3>2
      <4>2. k \in DOMAIN held[j] /\ held2[j][k] = held[j][k]
        BY <1>B, <3>2, <4>1
      <4>3. QED BY <2>3, <3>1, <3>2, <4>2
    <3>3. CASE n # j
      BY <1>4, <2>3, <3>1, <3>3
    <3>4. QED BY <3>2, <3>3
  <2>4. QED BY <2>1, <2>2, <2>3
<1>6. ASSUME NEW n \in Nodes, NEW k \in DOMAIN held2[n], NEW m \in Nodes, NEW l \in DOMAIN held2[m],
             Ahead(n, k, m, l)
      PROVE  Ahead(on(n, k), at(n, k), on(m, l), at(m, l))
  <2>1. /\ n \in Int /\ m \in Int /\ k \in Int /\ l \in Int /\ i \in Int /\ j \in Int /\ i < j
        /\ Len(moved) \in Nat /\ Len(held[i]) \in Nat
        /\ j \in Nodes => Len(held[j]) \in Nat
    <3>1. k \in Nat /\ l \in Nat
      BY <1>C
    <3>2. i \in Int /\ j \in Int /\ i < j /\ n \in Int /\ m \in Int
      BY <1>3
    <3>3. Len(moved) \in Nat /\ Len(held[i]) \in Nat
      BY <1>3, <1>A
    <3>4. QED BY <1>B, <3>1, <3>2, <3>3
  <2>2. ~(n \in i + 1..j - 1) /\ ~(m \in i + 1..j - 1)
    BY <1>C
  <2>3. \A q \in Int : j \in Nodes /\ q > Len(held[j]) /\ q \in DOMAIN held2[j] =>
          q - Len(held[j]) \in DOMAIN e /\ e[q - Len(held[j])] \in 1..Len(moved)
    <3>1. ASSUME NEW q \in Int, j \in Nodes, q > Len(held[j]), q \in DOMAIN held2[j]
          PROVE  q - Len(held[j]) \in DOMAIN passed
      BY <1>B, <3>1, SMTT(30)
    <3>2. DOMAIN e = DOMAIN passed /\ \A q \in DOMAIN passed : e[q] \in 1..Len(moved)
      BY <1>A
    <3>3. QED BY <3>1, <3>2
  <2>4. CASE n = j /\ k > Len(held[j]) /\ m = j /\ l > Len(held[j])
    <3>1. k < l
      BY <1>6, <2>1, <2>4 DEF Ahead
    <3>2. e[k - Len(held[j])] < e[l - Len(held[j])]
      BY <1>2, <2>1, <2>3, <2>4, <3>1
    <3>3. QED BY <2>1, <2>4, <3>2 DEF Ahead
  <2>5. CASE ~(n = j /\ k > Len(held[j])) /\ m = j /\ l > Len(held[j])
    BY <1>6, <2>1, <2>2, <2>3, <2>5 DEF Ahead
  <2>6. CASE n = j /\ k > Len(held[j]) /\ ~(m = j /\ l > Len(held[j]))
    <3>1. on(n, k) = i /\ at(n, k) \in 1..Len(moved)
      BY <2>1, <2>3, <2>6
    <3>2. m <= j /\ (m = j => l > k) /\ l \in Nat \ {0}
      BY <1>6, <1>C, <2>1, <2>6 DEF Ahead
    <3>3. m = i \/ m < i
      BY <2>1, <2>2, <2>6, <3>2
    <3>4. on(m, l) = m /\ (m = i => at(m, l) = Len(moved) + l)
      BY <2>1, <2>6, <3>3
    <3> HIDE DEF on, at
    <3>5. QED BY <2>1, <3>1, <3>2, <3>3, <3>4 DEF Ahead
  <2>7. CASE ~(n = j /\ k > Len(held[j])) /\ ~(m = j /\ l > Len(held[j]))
    BY <1>6, <2>1, <2>7 DEF Ahead
  <2>8. QED BY <2>4, <2>5, <2>6, <2>7
<1> HIDE DEF on, at
(* What is moved is lost, handed on or over.                               *)
<1>7. /\ \A q \in DOMAIN moved : q \in DOMAIN held[i] /\ held[i][q] = moved[q] /\ q <= Len(moved)
      /\ \A s \in ToSet(passed) \cup lost : \E q \in DOMAIN moved : moved[q] = s
      /\ \A s \in ToSet(passed) : s \notin lost
  <2>1. \A q \in DOMAIN moved : q \in DOMAIN held[i] /\ held[i][q] = moved[q] /\ q <= Len(moved)
    BY <1>A
  <2>2. \A s \in lost : \E q \in DOMAIN moved : moved[q] = s
    BY DEF ToSet
  <2>3. ASSUME NEW s \in ToSet(passed)
        PROVE  s \notin lost /\ \E q \in DOMAIN moved : moved[q] = s
    <3>1. PICK k \in DOMAIN passed : passed[k] = s
      BY DEF ToSet
    <3>2. QED BY <1>2, <3>1
  <2>4. QED BY <2>1, <2>2, <2>3
<1>8. InLine(held2, done2, skip)
  <2> SUFFICES ASSUME NEW n \in Nodes, NEW k \in DOMAIN held2[n], held2[n][k] \notin skip
               PROVE  /\ \A m \in Nodes : \A l \in DOMAIN held2[m] :
                           Ahead(n, k, m, l) /\ held2[m][l] \notin skip => held2[n][k] < held2[m][l]
                      /\ \A s \in done2 \ skip : s < held2[n][k]
    BY DEF InLine
  <2>1. ASSUME NEW m \in Nodes, NEW l \in DOMAIN held2[m], Ahead(n, k, m, l), held2[m][l] \notin skip
        PROVE  held2[n][k] < held2[m][l]
    BY <1>5, <1>6, <2>1, SMTT(30) DEF Line, InLine
  <2>2. ASSUME NEW s \in done \ skip PROVE s < held2[n][k]
    BY <1>5, <2>2 DEF Line, InLine
  <2>3. ASSUME NEW s \in ToSet(passed), s \notin skip, j = N + 1 PROVE s < held2[n][k]
    <3>1. PICK q \in DOMAIN moved : moved[q] = s
      BY <1>7
    <3>2. q \in DOMAIN held[i] /\ held[i][q] = s /\ q <= Len(moved) /\ q \in Nat /\ Len(moved) \in Nat
      BY <1>7, <3>1
    <3>3. at(n, k) \in Nat /\ on(n, k) \in Nodes /\ on(n, k) \in 1..N
      BY <1>3, <1>5, <1>C DEF Nodes
    <3>4. ~(on(n, k) \in i + 1..j - 1)
      BY <1>5, <1>C
    <3>5. ~(on(n, k) = i /\ at(n, k) <= Len(moved))
      BY <1>3, <1>5, <2>3 DEF Nodes
    <3>6. Ahead(i, q, on(n, k), at(n, k))
      BY <1>3, <2>3, <3>2, <3>3, <3>4, <3>5 DEF Ahead
    <3>7. held[on(n, k)][at(n, k)] = held2[n][k] /\ at(n, k) \in DOMAIN held[on(n, k)]
      BY <1>5
    <3>8. InLine(held, done, skip)
      BY DEF Line
    <3>9. QED BY <2>3, <3>2, <3>3, <3>6, <3>7, <3>8 DEF InLine
  <2>4. QED BY <2>1, <2>2, <2>3 DEF Numbered, DoneAt
(* What is lost or over is held no more.                                   *)
<1>9. ASSUME NEW r \in 1..last, r \notin skip, r \in lost \/ (j = N + 1 /\ r \in ToSet(passed))
      PROVE  IsHeld(held, r) /\ ~IsHeld(held2, r)
  <2>1. PICK q \in DOMAIN moved : moved[q] = r
    BY <1>7, <1>9
  <2>2. q \in DOMAIN held[i] /\ held[i][q] = r /\ q <= Len(moved) /\ q \in Nat /\ Len(moved) \in Nat
    BY <1>7, <2>1
  <2>3. ASSUME NEW n \in Nodes, NEW k \in DOMAIN held2[n], held2[n][k] = r PROVE FALSE
    <3>1. /\ on(n, k) \in Nodes /\ at(n, k) \in DOMAIN held[on(n, k)] /\ held[on(n, k)][at(n, k)] = r
          /\ on(n, k) \in Int /\ i \in Int /\ at(n, k) \in Int
      <4>1. /\ on(n, k) \in Nodes /\ at(n, k) \in DOMAIN held[on(n, k)]
            /\ held[on(n, k)][at(n, k)] = r
        BY <1>5, <2>3
      <4>2. on(n, k) \in Int /\ i \in Int
        BY <1>3, <4>1
      <4>3. at(n, k) \in Nat \ {0}
        BY <1>C, <4>1
      <4>4. QED BY <4>1, <4>2, <4>3
    <3>2. ~(on(n, k) = i /\ at(n, k) = q)
      BY <1>3, <1>5, <1>9, <2>2, <2>3 DEF Nodes
    <3>3. Ahead(i, q, on(n, k), at(n, k)) \/ Ahead(on(n, k), at(n, k), i, q)
      BY <2>2, <3>1, <3>2 DEF Ahead
    <3>4. r < r
      BY <1>9, <2>2, <3>1, <3>3 DEF Line, InLine
    <3>5. QED BY <3>4
  <2>4. QED BY <2>2, <2>3 DEF IsHeld
<1>10. ASSUME NEW r \in 1..last, r \notin lost, ~(j = N + 1 /\ r \in ToSet(passed))
       PROVE  IsHeld(held2, r) <=> IsHeld(held, r)
  <2>1. IsHeld(held2, r) => IsHeld(held, r)
    BY <1>5 DEF IsHeld
  <2>2. ASSUME NEW n \in Nodes, NEW k \in DOMAIN held[n], held[n][k] = r PROVE IsHeld(held2, r)
    <3>1. CASE n = i /\ k <= Len(moved)
      <4>1. k \in DOMAIN moved /\ moved[k] = r
        BY <1>A, <1>C, <2>2, <3>1
      <4>2. PICK q \in DOMAIN e : e[q] = k
        BY <1>2, <1>10, <4>1
      <4>3. passed[q] = r /\ q \in DOMAIN passed /\ r \in ToSet(passed)
        BY <1>2, <4>1, <4>2 DEF ToSet
      <4>4. j \in Nodes /\ j # i
        BY <1>3, <1>10, <4>3 DEF Nodes
      <4>6. Len(held[j]) + q \in DOMAIN held2[j] /\ held2[j][Len(held[j]) + q] = r
        <5>1. q \in 1..Len(passed) /\ Len(held[j]) \in Nat /\ Len(passed) \in Nat
          BY <1>B, <4>3, <4>4
        <5>2. /\ DOMAIN held2[j] = 1..Len(held[j]) + Len(passed)
              /\ \A l \in 1..Len(passed) : held2[j][Len(held[j]) + l] = passed[l]
          BY <1>B, <4>4, Zenon
        <5>3. Len(held[j]) + q \in 1..Len(held[j]) + Len(passed)
          <6> DEFINE a == Len(held[j])
                     b == Len(passed)
          <6>1. q \in 1..b /\ a \in Nat /\ b \in Nat
            BY <5>1
          <6> HIDE DEF a, b
          <6>2. a + q \in 1..a + b
            BY <6>1
          <6>3. QED BY <6>2 DEF a, b
        <5>4. Len(held[j]) + q \in DOMAIN held2[j]
          BY <5>2, <5>3, Zenon
        <5>5. held2[j][Len(held[j]) + q] = r
          BY <4>3, <5>1, <5>2, Zenon
        <5>6. QED BY <5>4, <5>5
      <4>7. QED BY <4>4, <4>6 DEF IsHeld
    <3>2. CASE n = i /\ ~(k <= Len(moved))
      <4>1. k - Len(moved) \in DOMAIN rest /\ rest[k - Len(moved)] = r
        BY <1>A, <2>2, <3>2
      <4>2. QED BY <1>4, <3>2, <4>1 DEF IsHeld
    <3>3. CASE n # i /\ n = j
      <4>2. k \in DOMAIN held2[n] /\ held2[n][k] = r
        <5>1. k \in 1..Len(held[j]) /\ Len(held[j]) \in Nat /\ Len(passed) \in Nat
          BY <1>B, <2>2, <3>3
        <5>2. k \in DOMAIN held2[j] /\ held2[j][k] = held[j][k]
          BY <1>B, <3>3, <5>1
        <5>3. QED BY <2>2, <3>3, <5>2
      <4>3. QED BY <4>2 DEF IsHeld
    <3>4. CASE n # i /\ n # j
      BY <1>4, <2>2, <3>4 DEF IsHeld
    <3>5. QED BY <3>1, <3>2, <3>3, <3>4
  <2>3. QED BY <2>1, <2>2 DEF IsHeld
<1>11. InOnePlace(held2, done2, bad2, given, skip, last)
  <2> SUFFICES ASSUME NEW r \in 1..last, r \notin skip
               PROVE  /\ IsHeld(held2, r) \/ r \in done2 \/ r \in bad2 \/ r \in given
                      /\ IsHeld(held2, r) => r \notin done2 \cup bad2 \cup given
                      /\ r \notin done2 \cap bad2 /\ r \notin done2 \cap given
                      /\ r \notin bad2 \cap given
    BY DEF InOnePlace
  <2>1. /\ IsHeld(held, r) \/ r \in done \/ r \in bad \/ r \in given
        /\ IsHeld(held, r) => r \notin done \cup bad \cup given
        /\ r \notin done \cap bad /\ r \notin done \cap given /\ r \notin bad \cap given
    BY DEF Line, InOnePlace
  <2>2. /\ r \in bad2 <=> r \in bad \/ r \in lost
        /\ r \in done2 <=> r \in done \/ (j = N + 1 /\ r \in ToSet(passed))
    BY <1>3 DEF Numbered, DoneAt
  <2>3. ~(r \in lost /\ r \in ToSet(passed))
    BY <1>7
  <2> HIDE DEF done2, bad2
  <2>4. QED BY <1>9, <1>10, <2>1, <2>2, <2>3
<1>12. Known(held2, done2, bad2, given, skip, last)
  <2>1. lost \subseteq 0..last /\ ToSet(passed) \subseteq 0..last
    <3>1. \A k \in DOMAIN passed : passed[k] \in 0..last
      <4>1. Joined(passed, rest, passed \o rest, 0..last)
        BY <1>1, Concatenation
      <4>2. QED BY <4>1 DEF Joined
    <3>2. \A k \in DOMAIN moved : moved[k] \in 0..last
      BY <1>A
    <3>3. QED BY <3>1, <3>2 DEF ToSet
  <2>2. Known(held, done, bad, given, skip, last)
    BY DEF Line
  <2>3. Numbered(lost) \subseteq 1..last /\ Numbered(ToSet(passed)) \subseteq 1..last
    BY <1>3, <2>1 DEF Numbered
  <2>4. done2 \subseteq 1..last /\ bad2 \subseteq 1..last
    BY <2>2, <2>3 DEF Known, DoneAt
  <2> HIDE DEF done2, bad2
  <2>5. QED BY <1>4, <2>2, <2>4 DEF Known
<1>13. Line(held2, done2, bad2, given, skip, last)
  BY <1>8, <1>11, <1>12 DEF Line
<1>14. QED BY <1>13 DEF held2, passed

(* Contexts are numbers of runs, of which there may be more by now.        *)
LEMMA SeqSubset ==
  ASSUME NEW S, NEW T, S \subseteq T, NEW s \in Seq(S)
  PROVE  s \in Seq(T)
OBVIOUS

(* held2 has one context more than held, c at node i.                      *)
Grown(held, held2, i, c, last) ==
  LET new == Len(held[i]) + 1
  IN  /\ last \in Nat /\ Len(held[i]) \in Nat
      /\ held2 \in [Nodes -> Seq(0..last \cup {c})]
      /\ \A n \in Nodes : DOMAIN held[n] \subseteq Nat \ {0}
      /\ \A n \in Nodes : \A k \in DOMAIN held[n] :
           k \in DOMAIN held2[n] /\ held2[n][k] = held[n][k] /\ held[n][k] \in 0..last
      /\ \A n \in Nodes : \A k \in DOMAIN held2[n] : k \in DOMAIN held[n] \/ (n = i /\ k = new)
      /\ DOMAIN held[i] = 1..Len(held[i])
      /\ new \in DOMAIN held2[i] /\ held2[i][new] = c

(* So it is when c joins the queue of node i.                              *)
LEMMA JoinedAt ==
  ASSUME NEW held, NEW done, NEW bad, NEW given, NEW skip, NEW last,
         Known(held, done, bad, given, skip, last), NEW i \in Nodes, NEW c \in Nat
  PROVE  Grown(held, [held EXCEPT ![i] = @ \o <<c>>], i, c, last)
<1> DEFINE S == 0..last \cup {c}
           held2 == [held EXCEPT ![i] = @ \o <<c>>]
<1>1. last \in Nat /\ held \in [Nodes -> Seq(0..last)]
  BY DEF Known
<1>2. ASSUME NEW n \in Nodes PROVE held[n] \in Seq(S) /\ held[n] \in Seq(0..last)
  <2>1. 0..last \subseteq S
    OBVIOUS
  <2> HIDE DEF S
  <2>2. held[n] \in Seq(0..last)
    BY <1>1
  <2>3. QED BY <2>1, <2>2, SeqSubset
<1>3. <<c>> \in Seq(S) /\ Len(<<c>>) = 1 /\ <<c>>[1] = c
  OBVIOUS
<1>4. held2 = [n \in Nodes |-> IF n = i THEN held[n] \o <<c>> ELSE held[n]]
  BY <1>1
<1> HIDE DEF S, held2
<1>5. Joined(held[i], <<c>>, held2[i], S)
  BY <1>2, <1>3, <1>4, Concatenation
<1>6. \A n \in Nodes : n # i => held2[n] = held[n]
  BY <1>4
<1>7. held2 \in [Nodes -> Seq(S)]
  <2>1. held2[i] \in Seq(S)
    BY <1>5 DEF Joined
  <2>2. \A n \in Nodes : held2[n] \in Seq(S)
    BY <1>2, <1>6, <2>1
  <2>3. QED BY <1>4, <2>2
<1>8. /\ Len(held[i]) \in Nat /\ DOMAIN held[i] = 1..Len(held[i])
      /\ DOMAIN held2[i] = 1..Len(held[i]) + 1
      /\ \A k \in 1..Len(held[i]) : held2[i][k] = held[i][k]
      /\ held2[i][Len(held[i]) + 1] = c
  BY <1>3, <1>5 DEF Joined
<1>9. \A n \in Nodes : DOMAIN held[n] \subseteq Nat \ {0} /\ \A k \in DOMAIN held[n] : held[n][k] \in 0..last
  <2>1. ASSUME NEW n \in Nodes PROVE Joined(held[n], held[n], held[n] \o held[n], 0..last)
    BY <1>2, Concatenation
  <2>2. QED BY <2>1 DEF Joined
<1>10. ASSUME NEW n \in Nodes, NEW k \in DOMAIN held[n]
       PROVE  k \in DOMAIN held2[n] /\ held2[n][k] = held[n][k]
  <2>1. CASE n = i
    BY <1>8, <2>1
  <2>2. CASE n # i
    BY <1>6, <2>2
  <2>3. QED BY <2>1, <2>2
<1>11. ASSUME NEW n \in Nodes, NEW k \in DOMAIN held2[n]
       PROVE  k \in DOMAIN held[n] \/ (n = i /\ k = Len(held[i]) + 1)
  <2>1. CASE n = i
    BY <1>8, <2>1
  <2>2. CASE n # i
    BY <1>6, <2>2
  <2>3. QED BY <2>1, <2>2
<1>12. Len(held[i]) + 1 \in DOMAIN held2[i]
  BY <1>8
<1>13. Grown(held, held2, i, c, last)
  BY <1>1, <1>7, <1>8, <1>9, <1>10, <1>11, <1>12 DEF Grown, S
<1>14. QED BY <1>13 DEF held2

(* A new run is the last of all.                                           *)
LEMMA StartKeepsLine ==
  ASSUME NEW held, NEW done, NEW bad, NEW given, NEW skip, NEW last,
         Line(held, done, bad, given, skip, last), 1 \in Nodes
  PROVE  Line([held EXCEPT ![1] = @ \o <<last + 1>>], done, bad, given, skip, last + 1)
<1> DEFINE held2 == [held EXCEPT ![1] = @ \o <<last + 1>>]
           new == Len(held[1]) + 1
<1>1. Known(held, done, bad, given, skip, last) /\ last + 1 \in Nat /\ last \in Nat
  BY DEF Line, Known
<1>2. /\ Len(held[1]) \in Nat
      /\ held2 \in [Nodes -> Seq(0..last \cup {last + 1})]
      /\ \A n \in Nodes : DOMAIN held[n] \subseteq Nat \ {0}
      /\ \A n \in Nodes : \A k \in DOMAIN held[n] :
           k \in DOMAIN held2[n] /\ held2[n][k] = held[n][k] /\ held[n][k] \in 0..last
      /\ \A n \in Nodes : \A k \in DOMAIN held2[n] : k \in DOMAIN held[n] \/ (n = 1 /\ k = new)
      /\ DOMAIN held[1] = 1..Len(held[1])
      /\ new \in DOMAIN held2[1] /\ held2[1][new] = last + 1
  <2>1. Grown(held, held2, 1, last + 1, last)
    BY <1>1, JoinedAt
  <2> HIDE DEF held2
  <2>2. QED BY <2>1 DEF Grown
<1> HIDE DEF held2
<1>3. 0..last \cup {last + 1} = 0..last + 1
  BY <1>1
<1>4. Known(held2, done, bad, given, skip, last + 1)
  BY <1>1, <1>2, <1>3 DEF Known
<1>5. \A n \in Nodes : n \in Nat \ {0}
  BY DEF Nodes
<1>6. InLine(held2, done, skip)
  <2> SUFFICES ASSUME NEW n \in Nodes, NEW k \in DOMAIN held2[n], held2[n][k] \notin skip
               PROVE  /\ \A m \in Nodes : \A l \in DOMAIN held2[m] :
                           Ahead(n, k, m, l) /\ held2[m][l] \notin skip => held2[n][k] < held2[m][l]
                      /\ \A s \in done \ skip : s < held2[n][k]
    BY DEF InLine
  <2>0. InLine(held, done, skip) /\ done \subseteq 1..last
    BY <1>1 DEF Line, Known
  <2>1. ASSUME NEW s \in done \ skip PROVE s < held2[n][k]
    <3>1. CASE k \in DOMAIN held[n]
      BY <1>2, <2>0, <3>1 DEF InLine
    <3>2. CASE n = 1 /\ k = new
      BY <1>1, <1>2, <2>0, <3>2
    <3>3. QED BY <1>2, <3>1, <3>2
  <2>2. ASSUME NEW m \in Nodes, NEW l \in DOMAIN held2[m], Ahead(n, k, m, l), held2[m][l] \notin skip
        PROVE  held2[n][k] < held2[m][l]
    <3>1. k \in DOMAIN held[n]
      <4>1. ASSUME n = 1, k = new PROVE FALSE
        <5>1. m = 1 /\ k < l
          BY <1>5, <2>2, <4>1 DEF Ahead
        <5>2. QED BY <1>2, <4>1, <5>1
      <4>2. QED BY <1>2, <4>1
    <3>2. CASE l \in DOMAIN held[m]
      BY <1>2, <2>0, <2>2, <3>1, <3>2 DEF InLine
    <3>3. CASE m = 1 /\ l = new
      BY <1>1, <1>2, <3>1, <3>3
    <3>4. QED BY <1>2, <3>2, <3>3
  <2>3. QED BY <2>1, <2>2
<1>7. InOnePlace(held2, done, bad, given, skip, last + 1)
  <2> SUFFICES ASSUME NEW r \in 1..last + 1, r \notin skip
               PROVE  /\ IsHeld(held2, r) \/ r \in done \/ r \in bad \/ r \in given
                      /\ IsHeld(held2, r) => r \notin done \cup bad \cup given
                      /\ r \notin done \cap bad /\ r \notin done \cap given
                      /\ r \notin bad \cap given
    BY DEF InOnePlace
  <2>1. CASE r = last + 1
    <3>1. IsHeld(held2, r)
      BY <1>2, <2>1 DEF IsHeld
    <3>2. r \notin done /\ r \notin bad /\ r \notin given
      BY <1>1, <2>1 DEF Known
    <3>3. QED BY <3>1, <3>2
  <2>2. CASE r # last + 1
    <3>1. r \in 1..last
      BY <1>1, <2>2
    <3>2. IsHeld(held2, r) <=> IsHeld(held, r)
      BY <1>2, <2>2 DEF IsHeld
    <3>3. QED BY <3>1, <3>2 DEF Line, InOnePlace
  <2>3. QED BY <2>1, <2>2
<1>8. QED BY <1>4, <1>6, <1>7 DEF Line, held2

(* A context that was repeated may come in anywhere.                       *)
LEMMA RepeatKeepsLine ==
  ASSUME NEW held, NEW done, NEW bad, NEW given, NEW skip, NEW last,
         Line(held, done, bad, given, skip, last), NEW i \in Nodes, NEW c \in skip
  PROVE  Line([held EXCEPT ![i] = @ \o <<c>>], done, bad, given, skip, last)
<1> DEFINE held2 == [held EXCEPT ![i] = @ \o <<c>>]
           new == Len(held[i]) + 1
<1>1. Known(held, done, bad, given, skip, last) /\ c \in Nat /\ c \in 0..last /\ last \in Nat
  BY DEF Line, Known
<1>2. /\ held2 \in [Nodes -> Seq(0..last \cup {c})]
      /\ \A n \in Nodes : \A k \in DOMAIN held[n] :
           k \in DOMAIN held2[n] /\ held2[n][k] = held[n][k] /\ held[n][k] \in 0..last
      /\ \A n \in Nodes : \A k \in DOMAIN held2[n] : k \in DOMAIN held[n] \/ (n = i /\ k = new)
      /\ new \in DOMAIN held2[i] /\ held2[i][new] = c
  <2>1. Grown(held, held2, i, c, last)
    BY <1>1, JoinedAt
  <2> HIDE DEF held2
  <2>2. QED BY <2>1 DEF Grown
<1> HIDE DEF held2, new
<1>3. 0..last \cup {c} = 0..last
  BY <1>1
<1>4. Known(held2, done, bad, given, skip, last)
  BY <1>1, <1>2, <1>3 DEF Known
<1>5. ASSUME NEW n \in Nodes, NEW k \in DOMAIN held2[n], held2[n][k] \notin skip
      PROVE  k \in DOMAIN held[n] /\ held2[n][k] = held[n][k]
  BY <1>2, <1>5
<1>6. InLine(held2, done, skip)
  <2>1. InLine(held, done, skip)
    BY DEF Line
  <2>2. QED BY <1>5, <2>1 DEF InLine
<1>7. \A r \in 1..last \ skip : IsHeld(held2, r) <=> IsHeld(held, r)
  BY <1>2, <1>5 DEF IsHeld
<1>8. InOnePlace(held2, done, bad, given, skip, last)
  BY <1>7 DEF Line, InOnePlace
<1>9. QED BY <1>4, <1>6, <1>8 DEF Line, held2

(* Asking less of the line is always possible.                             *)
LEMMA SkipMore ==
  ASSUME NEW held, NEW done, NEW bad, NEW given, NEW skip, NEW last,
         Line(held, done, bad, given, skip, last), NEW c \in 0..last
  PROVE  Line(held, done, bad, given, skip \cup Numbered({c}), last) /\ c \in skip \cup Numbered({c})
<1>1. Known(held, done, bad, given, skip \cup Numbered({c}), last) /\ c \in skip \cup Numbered({c})
  BY DEF Line, Known, Numbered
<1>2. InLine(held, done, skip \cup Numbered({c}))
  BY DEF Line, InLine
<1>3. InOnePlace(held, done, bad, given, skip \cup Numbered({c}), last)
  BY DEF Line, InOnePlace
<1>4. QED BY <1>1, <1>2, <1>3 DEF Line

(* A run that fails before it comes to the RequestTilesNode.               *)
LEMMA FailureKeepsLine ==
  ASSUME NEW held, NEW done, NEW bad, NEW given, NEW skip, NEW last,
         Line(held, done, bad, given, skip, last)
  PROVE  Line(held, done, bad \cup {last + 1}, given, skip, last + 1)
<1>1. Known(held, done, bad, given, skip, last) /\ last \in Nat
  BY DEF Line, Known
<1>2. \A n \in Nodes : held[n] \in Seq(0..last) /\ held[n] \in Seq(0..last + 1)
  <2>1. 0..last \subseteq 0..last + 1
    BY <1>1
  <2>2. QED BY <1>1, <2>1 DEF Known
<1>3. Known(held, done, bad \cup {last + 1}, given, skip, last + 1)
  BY <1>1, <1>2 DEF Known
<1>4. ASSUME IsHeld(held, last + 1) PROVE FALSE
  <2>1. PICK n \in Nodes : \E k \in DOMAIN held[n] : held[n][k] = last + 1
    BY <1>4 DEF IsHeld
  <2>A. PICK k \in DOMAIN held[n] : held[n][k] = last + 1
    BY <2>1
  <2>2. Joined(held[n], held[n], held[n] \o held[n], 0..last)
    BY <1>2, Concatenation
  <2>3. held[n][k] \in 0..last
    BY <2>2 DEF Joined
  <2>4. QED BY <1>1, <2>A, <2>3
<1>5. InOnePlace(held, done, bad \cup {last + 1}, given, skip, last + 1)
  <2> SUFFICES ASSUME NEW r \in 1..last + 1, r \notin skip
               PROVE  /\ IsHeld(held, r) \/ r \in done \/ r \in bad \cup {last + 1} \/ r \in given
                      /\ IsHeld(held, r) => r \notin done \cup (bad \cup {last + 1}) \cup given
                      /\ r \notin done \cap (bad \cup {last + 1}) /\ r \notin done \cap given
                      /\ r \notin (bad \cup {last + 1}) \cap given
    BY DEF InOnePlace
  <2>1. CASE r = last + 1
    <3>1. r \notin done /\ r \notin given
      BY <1>1, <2>1 DEF Known
    <3>2. QED BY <1>4, <2>1, <3>1
  <2>2. CASE r # last + 1
    <3>1. r \in 1..last
      BY <1>1, <2>2
    <3>2. QED BY <2>2, <3>1 DEF Line, InOnePlace
  <2>3. QED BY <2>1, <2>2
<1>6. QED BY <1>3, <1>5 DEF Line

(* A node that fails gives up all it holds.                                *)
LEMMA GiveUpKeepsLine ==
  ASSUME NEW held, NEW done, NEW bad, NEW given, NEW skip, NEW last,
         Line(held, done, bad, given, skip, last), NEW i \in Nodes,
         NEW f \in 0..last, NEW queue \in Seq(0..last), held[i] = <<f>> \o queue
  PROVE  Line([held EXCEPT ![i] = <<>>], done, bad \cup Numbered({f}),
              given \cup Numbered(ToSet(queue)), skip, last)
<1> DEFINE held2 == [held EXCEPT ![i] = <<>>]
           bad2 == bad \cup Numbered({f})
           given2 == given \cup Numbered(ToSet(queue))
<1>1. Known(held, done, bad, given, skip, last) /\ last \in Nat
  BY DEF Line, Known
<1>2. \A n \in Nodes : held2[n] = IF n = i THEN <<>> ELSE held[n]
  BY <1>1 DEF Known
<1>3. <<>> \in Seq(0..last)
  OBVIOUS
<1>4. held2 \in [Nodes -> Seq(0..last)]
  BY <1>1, <1>3 DEF Known
<1> HIDE DEF held2
<1>5. \A k \in DOMAIN queue : queue[k] \in 0..last
  <2>1. Joined(queue, queue, queue \o queue, 0..last)
    BY Concatenation
  <2>2. QED BY <2>1 DEF Joined
<1>6. Known(held2, done, bad2, given2, skip, last)
  <2>1. Numbered(ToSet(queue)) \subseteq 1..last /\ Numbered({f}) \subseteq 1..last
    BY <1>1, <1>5 DEF Numbered, ToSet
  <2>2. bad2 \subseteq 1..last /\ given2 \subseteq 1..last
    BY <1>1, <2>1 DEF Known
  <2> HIDE DEF bad2, given2
  <2>3. QED BY <1>1, <1>4, <2>2 DEF Known
<1>7. ASSUME NEW n \in Nodes, NEW k \in DOMAIN held2[n]
      PROVE  n # i /\ k \in DOMAIN held[n] /\ held2[n][k] = held[n][k]
  BY <1>2
<1>8. InLine(held2, done, skip)
  BY <1>7 DEF Line, InLine
<1>9. /\ 1 \in DOMAIN held[i] /\ held[i][1] = f
      /\ Len(queue) \in Nat /\ DOMAIN queue = 1..Len(queue) /\ DOMAIN held[i] = 1..Len(queue) + 1
      /\ \A k \in DOMAIN queue : k + 1 \in DOMAIN held[i] /\ held[i][k + 1] = queue[k]
      /\ \A k \in DOMAIN held[i] : k # 1 => k - 1 \in DOMAIN queue /\ queue[k - 1] = held[i][k]
  <2>1. <<f>> \in Seq(0..last) /\ Len(<<f>>) = 1 /\ <<f>>[1] = f
    OBVIOUS
  <2>2. Joined(<<f>>, queue, held[i], 0..last)
    BY <2>1, Concatenation
  <2>3. /\ Len(queue) \in Nat /\ DOMAIN queue = 1..Len(queue) /\ DOMAIN held[i] = 1..1 + Len(queue)
        /\ \A k \in 1..1 : held[i][k] = <<f>>[k]
        /\ \A k \in 1..Len(queue) : held[i][1 + k] = queue[k]
    BY <2>1, <2>2 DEF Joined
  <2>4. QED BY <2>1, <2>3
<1>10. InOnePlace(held2, done, bad2, given2, skip, last)
  <2> SUFFICES ASSUME NEW r \in 1..last, r \notin skip
               PROVE  /\ IsHeld(held2, r) \/ r \in done \/ r \in bad2 \/ r \in given2
                      /\ IsHeld(held2, r) => r \notin done \cup bad2 \cup given2
                      /\ r \notin done \cap bad2 /\ r \notin done \cap given2
                      /\ r \notin bad2 \cap given2
    BY DEF InOnePlace
  <2>1. /\ IsHeld(held, r) \/ r \in done \/ r \in bad \/ r \in given
        /\ IsHeld(held, r) => r \notin done \cup bad \cup given
        /\ r \notin done \cap bad /\ r \notin done \cap given /\ r \notin bad \cap given
    BY DEF Line, InOnePlace
  <2>2. /\ r \in bad2 <=> r \in bad \/ r = f
        /\ r \in given2 <=> r \in given \/ \E k \in DOMAIN queue : queue[k] = r
    BY <1>1 DEF Numbered, ToSet
  <2>3. ASSUME NEW k \in DOMAIN held[i], NEW m \in Nodes, NEW l \in DOMAIN held[m],
               held[i][k] = r, held[m][l] = r
        PROVE  m = i /\ l = k
    <3>1. i \in Int /\ m \in Int /\ k \in Int
      BY <1>9 DEF Nodes
    <3>2. l \in Int
      <4>1. held[m] \in Seq(0..last)
        BY <1>1 DEF Known
      <4>2. Joined(held[m], held[m], held[m] \o held[m], 0..last)
        BY <4>1, Concatenation
      <4>3. QED BY <4>2 DEF Joined
    <3>3. ~Ahead(i, k, m, l) /\ ~Ahead(m, l, i, k)
      BY <2>3 DEF Line, InLine
    <3>4. QED BY <3>1, <3>2, <3>3 DEF Ahead
  <2>4. IsHeld(held2, r) => IsHeld(held, r)
    BY <1>7 DEF IsHeld
  <2>5. CASE r = f
    <3>0. i \in Nodes /\ 1 \in DOMAIN held[i] /\ held[i][1] = r
      BY <1>9, <2>5, Zenon
    <3>1. IsHeld(held, r) /\ ~IsHeld(held2, r)
      <4>1. IsHeld(held, r)
        BY <3>0, Zenon DEF IsHeld
      <4>2. ASSUME NEW n \in Nodes, NEW k \in DOMAIN held2[n], held2[n][k] = r PROVE FALSE
        <5>1. n # i /\ k \in DOMAIN held[n] /\ held[n][k] = r
          BY <1>7, <4>2
        <5>2. QED BY <2>3, <3>0, <4>2, <5>1
      <4>3. QED BY <4>1, <4>2, Zenon DEF IsHeld
    <3>2. ~\E k \in DOMAIN queue : queue[k] = r
      <4> SUFFICES ASSUME NEW k \in DOMAIN queue, queue[k] = r PROVE FALSE
        OBVIOUS
      <4>1. k + 1 \in DOMAIN held[i] /\ held[i][k + 1] = r /\ k \in Nat \ {0}
        BY <1>9
      <4>2. k + 1 = 1
        BY <2>3, <3>0, <4>1, Zenon
      <4>3. QED BY <4>1, <4>2
    <3> HIDE DEF bad2, given2
    <3>3. QED BY <2>1, <2>2, <2>5, <3>1, <3>2
  <2>6. CASE r # f /\ \E k \in DOMAIN queue : queue[k] = r
    <3>1. PICK k \in DOMAIN queue : queue[k] = r
      BY <2>6
    <3>2. k + 1 \in DOMAIN held[i] /\ held[i][k + 1] = r
      BY <1>9, <3>1
    <3>3. IsHeld(held, r) /\ ~IsHeld(held2, r)
      <4>0. i \in Nodes
        BY <1>9, Zenon
      <4>1. IsHeld(held, r)
        BY <3>2, <4>0, Zenon DEF IsHeld
      <4>2. ASSUME NEW n \in Nodes, NEW l \in DOMAIN held2[n], held2[n][l] = r PROVE FALSE
        <5>1. n # i /\ l \in DOMAIN held[n] /\ held[n][l] = r
          BY <1>7, <4>2
        <5>2. QED BY <2>3, <3>2, <4>2, <5>1
      <4>3. QED BY <4>1, <4>2, Zenon DEF IsHeld
    <3> HIDE DEF bad2, given2
    <3>4. QED BY <2>1, <2>2, <2>6, <3>3
  <2>7. CASE r # f /\ ~\E k \in DOMAIN queue : queue[k] = r
    <3>1. \A k \in DOMAIN held[i] : held[i][k] # r
      BY <1>9, <2>7
    <3>2. IsHeld(held, r) => IsHeld(held2, r)
      BY <1>2, <3>1 DEF IsHeld
    <3> HIDE DEF bad2, given2
    <3>3. QED BY <2>1, <2>2, <2>4, <2>7, <3>2
  <2>8. QED BY <2>5, <2>6, <2>7
<1>11. QED BY <1>6, <1>8, <1>10 DEF Line, held2

(* Concatenation is associative; the equation has a name, so that it is    *)
(* not used as a rewriting rule where it is not wanted.                    *)
Associates(s, t, u) == (s \o t) \o u = s \o (t \o u)

LEMMA ConcatenationAssociates ==
  ASSUME NEW S, NEW s \in Seq(S), NEW t \in Seq(S), NEW u \in Seq(S)
  PROVE  Associates(s, t, u)
BY ConcatAssociative DEF Associates

(* A queue is its first element and the rest.                              *)
LEMMA HeadAndTail ==
  ASSUME NEW S, NEW s \in Seq(S), s # <<>>
  PROVE  Head(s) \in S /\ Tail(s) \in Seq(S) /\ <<Head(s)>> \o Tail(s) = s
<1>1. /\ Head(s) \in S /\ Tail(s) \in Seq(S) /\ Len(Tail(s)) = Len(s) - 1
      /\ \A i \in 1..Len(Tail(s)) : Tail(s)[i] = s[i + 1]
  BY HeadTailProperties
<1>2. Len(s) \in Nat \ {0} /\ Head(s) = s[1]
  OBVIOUS
<1>3. <<Head(s)>> \in Seq(S) /\ Len(<<Head(s)>>) = 1 /\ <<Head(s)>>[1] = Head(s)
  BY <1>1
<1> DEFINE u == <<Head(s)>> \o Tail(s)
<1>4. /\ u \in Seq(S) /\ Len(u) = 1 + Len(Tail(s))
      /\ \A i \in 1..1 + Len(Tail(s)) :
           u[i] = IF i <= 1 THEN <<Head(s)>>[i] ELSE Tail(s)[i - 1]
  BY <1>1, <1>3, ConcatProperties
<1> HIDE DEF u
<1>5. Len(u) = Len(s)
  BY <1>1, <1>2, <1>4
<1>6. ASSUME NEW i \in 1..Len(u) PROVE u[i] = s[i]
  <2>1. CASE i = 1
    BY <1>1, <1>2, <1>3, <1>4, <2>1
  <2>2. CASE i # 1
    <3>1. i - 1 \in 1..Len(Tail(s)) /\ ~(i <= 1) /\ (i - 1) + 1 = i
      BY <1>1, <1>2, <1>5, <2>2
    <3>2. u[i] = Tail(s)[i - 1]
      BY <1>1, <1>2, <1>4, <1>5, <3>1
    <3>3. QED BY <1>1, <3>1, <3>2
  <2>3. QED BY <2>1, <2>2
<1>7. u = s
  BY <1>4, <1>5, <1>6, SeqEqual
<1>8. QED BY <1>1, <1>7 DEF u

(* The contexts that are and wait are numbers of runs up to last.          *)
Shape(last) ==
  /\ running \in [Nodes -> BOOLEAN]
  /\ ctx \in [Nodes -> 0..last] /\ pending \in [Nodes -> Seq(0..last)]

Underway == [n \in Nodes |-> Contexts(n)]

(* What node i is left with.                                               *)
Left(on, current, queue) == (IF on THEN <<current>> ELSE <<>>) \o queue

(* What node i hands on comes to the end of the queue of the next node     *)
(* that is busy or enabled; nothing is under way at those between.         *)
LEMMA ForwardMoves ==
  ASSUME IInv, NEW last \in Nat, Shape(last), NEW i \in Nodes,
         NEW contexts \in Seq(0..last), NEW on \in BOOLEAN, NEW current \in 0..last,
         NEW queue \in Seq(0..last), NEW lost, Forward(i, contexts, on, current, queue, lost)
  PROVE  /\ Stop(i + 1) \in i + 1..N + 1
         /\ \A n \in i + 1..Stop(i + 1) - 1 : Underway[n] = <<>>
         /\ Underway' = MovedTo(Underway, i, Left(on, current, queue), Stop(i + 1),
                                Surviving(contexts, lost))
         /\ lost \in SUBSET ToSet(contexts)
         /\ finished' = DoneAt(finished, Stop(i + 1), Surviving(contexts, lost))
         /\ failed' = failed \cup Numbered(lost)
         /\ running' \in [Nodes -> BOOLEAN]
         /\ ctx' \in [Nodes -> 0..last] /\ pending' \in [Nodes -> Seq(0..last)]
<1> DEFINE passed == Surviving(contexts, lost)
           j == Stop(i + 1)
           reaches(n) == n = j /\ passed # <<>>
<1>1. /\ lost \subseteq ToSet(contexts)
      /\ running' = [n \in Nodes |-> IF n = i THEN on ELSE running[n] \/ reaches(n)]
      /\ ctx' = [n \in Nodes |->
                   CASE n = i -> current
                     [] n \in i + 1..j - 1 /\ passed # <<>> -> Last(passed)
                     [] reaches(n) /\ ~running[n] -> Head(passed)
                     [] OTHER -> ctx[n]]
      /\ pending' = [n \in Nodes |->
                       IF n = i THEN queue
                       ELSE IF reaches(n)
                         THEN Queued(pending[n], IF running[n] THEN passed ELSE Tail(passed))
                         ELSE pending[n]]
      /\ finished' = IF j = N + 1 THEN finished \cup Numbered(ToSet(passed)) ELSE finished
      /\ failed' = failed \cup Numbered(lost)
  BY DEF Forward
<1>2. passed \in Seq(0..last)
  BY SurvivingKeepsOrder
<1>3. N \in Nat /\ i \in 1..N /\ i + 1 \in 1..N + 1
  BY GraphAssumption DEF Nodes
<1>4. j \in i + 1..N + 1 /\ \A n \in i + 1..j - 1 : ~running[n] /\ ~enabled[n]
  BY <1>3, StopIsAhead
<1> HIDE DEF passed, j
<1>5. ASSUME NEW n \in Nodes, ~running[n] PROVE pending[n] = <<>> /\ Contexts(n) = <<>>
  <2>1. pending[n] = <<>>
    BY <1>5 DEF IInv, IdleHasNoQueue
  <2>2. QED BY <1>5, <2>1, ConcatEmptySeq, EmptySeq DEF Contexts
<1>6. \A n \in i + 1..j - 1 : n \in Nodes /\ Contexts(n) = <<>>
  <2>1. \A n \in i + 1..j - 1 : n \in Nodes
    BY <1>3, <1>4 DEF Nodes
  <2>2. QED BY <1>4, <1>5, <2>1
<1>7. \A n \in Nodes : pending[n] \in Seq(0..last) /\ ctx[n] \in 0..last /\ running[n] \in BOOLEAN
  BY DEF Shape
<1>8. passed # <<>> => Head(passed) \in 0..last /\ Tail(passed) \in Seq(0..last)
                       /\ <<Head(passed)>> \o Tail(passed) = passed
  BY <1>2, HeadAndTail
<1>9. passed # <<>> => Last(passed) \in 0..last
  <2>1. ASSUME passed # <<>> PROVE Len(passed) \in 1..Len(passed)
    BY <1>2, <2>1, EmptySeq
  <2>2. QED BY <1>2, <2>1, ElementOfSeq DEF Last
<1>10. ASSUME NEW n \in Nodes
       PROVE  /\ (IF running'[n] THEN <<ctx'[n]>> ELSE <<>>) \o pending'[n]
                   = IF n = i THEN (IF on THEN <<current>> ELSE <<>>) \o queue
                     ELSE IF n = j THEN Contexts(n) \o passed ELSE Contexts(n)
              /\ running'[n] \in BOOLEAN /\ ctx'[n] \in 0..last /\ pending'[n] \in Seq(0..last)
  <2>1. CASE n = i
    <3>1. n # j /\ ~(n \in i + 1..j - 1)
      BY <1>3, <1>4, <2>1
    <3>2. running'[n] = on /\ ctx'[n] = current /\ pending'[n] = queue
      BY <1>1, <2>1, <3>1
    <3>3. QED BY <2>1, <3>2
  <2>2. CASE n # i /\ reaches(n) /\ running[n]
    <3>1. running'[n] /\ pending'[n] = pending[n] \o passed
      BY <1>1, <2>2 DEF Queued
    <3>2. ctx'[n] = ctx[n]
      BY <1>1, <1>3, <1>4, <2>2 DEF Nodes
    <3>3. <<ctx[n]>> \in Seq(0..last) /\ pending[n] \o passed \in Seq(0..last)
      BY <1>2, <1>7
    <3>4. Contexts(n) = <<ctx[n]>> \o pending[n]
      BY <2>2 DEF Contexts
    <3>5. (<<ctx[n]>> \o pending[n]) \o passed = <<ctx[n]>> \o (pending[n] \o passed)
      <4> DEFINE s == <<ctx[n]>>
                 t == pending[n]
                 R == 0..last
      <4>1. s \in Seq(R) /\ t \in Seq(R) /\ passed \in Seq(R)
        BY <1>2, <1>7, <3>3
      <4> HIDE DEF s, t, R
      <4>2. Associates(s, t, passed)
        BY <4>1, ConcatenationAssociates, Zenon
      <4>3. QED BY <4>2, Zenon DEF Associates, s, t
    <3>6. QED BY <1>7, <2>2, <3>1, <3>2, <3>3, <3>4, <3>5
  <2>3. CASE n # i /\ reaches(n) /\ ~running[n]
    <3>1. pending[n] = <<>> /\ Contexts(n) = <<>>
      BY <1>5, <2>3
    <3>2. <<>> \o Tail(passed) = Tail(passed) /\ <<>> \o passed = passed
      BY <1>2, <1>8, <2>3, ConcatEmptySeq
    <3>3. running'[n] /\ pending'[n] = Tail(passed)
      BY <1>1, <2>3, <3>1, <3>2 DEF Queued
    <3>4. ctx'[n] = Head(passed)
      BY <1>1, <1>3, <1>4, <2>3 DEF Nodes
    <3>5. QED BY <1>8, <2>3, <3>1, <3>2, <3>3, <3>4
  <2>4. CASE n # i /\ ~reaches(n)
    <3>1. running'[n] = running[n] /\ pending'[n] = pending[n]
      BY <1>1, <1>7, <2>4
    <3>2. running[n] => ctx'[n] = ctx[n]
      BY <1>1, <1>4, <2>4
    <3>3. ctx'[n] \in 0..last
      BY <1>1, <1>7, <1>9, <2>4
    <3>4. n = j => Contexts(n) \o passed = Contexts(n)
      <4>1. CASE running[n]
        <5>1. <<ctx[n]>> \o pending[n] \in Seq(0..last)
          BY <1>7
        <5>2. QED BY <2>4, <4>1, <5>1, ConcatEmptySeq DEF Contexts
      <4>2. CASE ~running[n]
        <5>1. Contexts(n) = <<>>
          BY <1>5, <4>2
        <5>2. QED BY <2>4, <5>1, ConcatEmptySeq, EmptySeq
      <4>3. QED BY <4>1, <4>2
    <3>5. (IF running'[n] THEN <<ctx'[n]>> ELSE <<>>) \o pending'[n] = Contexts(n)
      BY <3>1, <3>2 DEF Contexts
    <3>6. QED BY <1>7, <2>4, <3>1, <3>3, <3>4, <3>5
  <2>5. QED BY <2>1, <2>2, <2>3, <2>4
<1>11. Underway' = [n \in Nodes |->
                      IF n = i THEN (IF on THEN <<current>> ELSE <<>>) \o queue
                      ELSE IF n = j THEN Underway[n] \o passed ELSE Underway[n]]
  <2>1. Underway' = [n \in Nodes |-> (IF running'[n] THEN <<ctx'[n]>> ELSE <<>>) \o pending'[n]]
    BY DEF Underway, Contexts, Nodes
  <2>2. \A n \in Nodes : Underway[n] = Contexts(n)
    BY DEF Underway
  <2>3. QED BY <1>10, <2>1, <2>2
<1>12. running' \in [Nodes -> BOOLEAN] /\ ctx' \in [Nodes -> 0..last] /\ pending' \in [Nodes -> Seq(0..last)]
  <2>1. /\ running' = [n \in Nodes |-> running'[n]]
        /\ ctx' = [n \in Nodes |-> ctx'[n]]
        /\ pending' = [n \in Nodes |-> pending'[n]]
    BY <1>1
  <2>2. QED BY <1>10, <2>1
<1>13. \A n \in i + 1..j - 1 : Underway[n] = <<>>
  BY <1>6 DEF Underway
<1>14. lost \in SUBSET ToSet(contexts)
  BY <1>1
<1>15. Underway' = MovedTo(Underway, i, Left(on, current, queue), j, passed)
  BY <1>11 DEF MovedTo, Left
<1>16. finished' = DoneAt(finished, j, passed)
  BY <1>1 DEF DoneAt
<1>17. QED BY <1>1, <1>4, <1>12, <1>13, <1>14, <1>15, <1>16 DEF passed, j

-----------------------------------------------------------------------------
(* What an action leaves to prove.                                         *)
Kept(skip, last) ==
  /\ Line(Underway', finished', failed', dropped', skip, last)
  /\ running' \in [Nodes -> BOOLEAN]
  /\ ctx' \in [Nodes -> 0..last] /\ pending' \in [Nodes -> Seq(0..last)]

(* held and held2 are the same but for node i.                             *)
SameBut(i, held, held2) == \A n \in Nodes : n # i => held[n] = held2[n]

(* Whatever a handler has put at node i before, handing it on is such a    *)
(* move.                                                                   *)
LEMMA ForwardKeepsLine ==
  ASSUME IInv, NEW last \in Nat, Shape(last), NEW i \in Nodes,
         NEW contexts \in Seq(0..last), NEW on \in BOOLEAN, NEW current \in 0..last,
         NEW queue \in Seq(0..last), NEW lost, Forward(i, contexts, on, current, queue, lost),
         NEW skip, NEW held, Line(held, finished, failed, dropped, skip, last),
         SameBut(i, held, Underway),
         held[i] = contexts \o Left(on, current, queue),
         UNCHANGED dropped
  PROVE  Kept(skip, last)
<1> DEFINE rest == Left(on, current, queue)
           j == Stop(i + 1)
           passed == Surviving(contexts, lost)
<1>1. /\ j \in i + 1..N + 1
      /\ \A n \in i + 1..j - 1 : Underway[n] = <<>>
      /\ Underway' = MovedTo(Underway, i, rest, j, passed)
      /\ lost \in SUBSET ToSet(contexts)
      /\ finished' = DoneAt(finished, j, passed)
      /\ failed' = failed \cup Numbered(lost)
      /\ running' \in [Nodes -> BOOLEAN]
      /\ ctx' \in [Nodes -> 0..last] /\ pending' \in [Nodes -> Seq(0..last)]
  BY ForwardMoves
<1>2. rest \in Seq(0..last)
  <2>1. <<current>> \in Seq(0..last) /\ <<>> \in Seq(0..last)
    OBVIOUS
  <2>2. (IF on THEN <<current>> ELSE <<>>) \in Seq(0..last)
    BY <2>1
  <2>3. QED BY <2>2, ConcatProperties DEF Left
<1> HIDE DEF rest, j
<1>3. \A n \in i + 1..j - 1 : held[n] = <<>>
  <2>1. \A n \in i + 1..j - 1 : n \in Nodes /\ n # i
    BY <1>1, GraphAssumption DEF Nodes
  <2>2. QED BY <1>1, <2>1 DEF SameBut
<1>4. held[i] = contexts \o rest
  BY DEF rest
<1>5. Line(MovedTo(held, i, rest, j, passed), DoneAt(finished, j, passed),
           failed \cup Numbered(lost), dropped, skip, last)
  BY <1>1, <1>2, <1>3, <1>4, MoveKeepsLine
<1> HIDE DEF passed
<1>6. Underway' = MovedTo(held, i, rest, j, passed)
  BY <1>1 DEF MovedTo, SameBut
<1>7. Line(Underway', finished', failed', dropped', skip, last)
  BY <1>1, <1>5, <1>6
<1>8. QED BY <1>1, <1>7 DEF Kept

(* An idle node has nothing under way.                                     *)
LEMMA NothingAtIdle ==
  ASSUME IInv, NEW i \in Nodes, ~running[i]
  PROVE  pending[i] = <<>> /\ Underway[i] = <<>>
<1>1. pending[i] = <<>>
  BY DEF IInv, IdleHasNoQueue
<1>2. QED BY <1>1, ConcatEmptySeq, EmptySeq DEF Underway, Contexts

(* A busy node has its own context and those that wait.                    *)
LEMMA UnderwayAt ==
  ASSUME NEW last, Shape(last), NEW i \in Nodes, running[i]
  PROVE  /\ Underway[i] = <<ctx[i]>> \o pending[i]
         /\ ctx[i] \in 0..last /\ pending[i] \in Seq(0..last)
BY DEF Shape, Underway, Contexts

(* An idle node takes the context up or lets it pass.                      *)
LEMMA StartsKeepsLine ==
  ASSUME IInv, NEW last \in Nat, Shape(last), NEW i \in Nodes, NEW c \in 0..last, NEW lost, NEW skip,
         NEW held, Line(held, finished, failed, dropped, skip, last),
         SameBut(i, held, Underway), held[i] = <<c>>,
         Forward(i, <<>>, TRUE, c, <<>>, lost) \/ Forward(i, <<c>>, FALSE, c, <<>>, lost),
         UNCHANGED dropped
  PROVE  Kept(skip, last)
<1> DEFINE none == <<>>
           one == <<c>>
<1>1. /\ none \in Seq(0..last) /\ one \in Seq(0..last) /\ c \in 0..last /\ held[i] = one
  OBVIOUS
<1>2. none \o one = one /\ one \o none = one /\ none \o none = none
  BY <1>1, ConcatEmptySeq
<1>3. Left(TRUE, c, none) = one /\ Left(FALSE, c, none) = none
  BY <1>2 DEF Left
<1> HIDE DEF none, one
<1>4. held[i] = none \o Left(TRUE, c, none) /\ held[i] = one \o Left(FALSE, c, none)
  BY <1>1, <1>2, <1>3
<1>5. CASE Forward(i, none, TRUE, c, none, lost)
  BY <1>1, <1>4, <1>5, ForwardKeepsLine
<1>6. CASE Forward(i, one, FALSE, c, none, lost)
  BY <1>1, <1>4, <1>6, ForwardKeepsLine
<1>7. QED BY <1>5, <1>6 DEF none, one

(* Node i is given the context c, which waits, is taken up or goes on.     *)
Takes(i, c, lost) ==
  \/ Enqueue(i, c)
  \/ ~running[i] /\ Forward(i, <<>>, TRUE, c, <<>>, lost)
  \/ ~running[i] /\ Forward(i, <<c>>, FALSE, c, <<>>, lost)

(* In each case the line holds c now.                                      *)
LEMMA RunKeepsLine ==
  ASSUME IInv, NEW last \in Nat, Shape(last), NEW i \in Nodes, NEW c \in 0..last, NEW lost, NEW skip,
         NEW held, held = [Underway EXCEPT ![i] = @ \o <<c>>],
         Line(held, finished, failed, dropped, skip, last), Takes(i, c, lost), UNCHANGED dropped
  PROVE  Kept(skip, last)
<1> DEFINE R == 0..last
<1>1. <<c>> \in Seq(R) /\ <<>> \in Seq(R)
  OBVIOUS
<1>2. /\ \A n \in Nodes : n # i => held[n] = Underway[n]
      /\ held[i] = Underway[i] \o <<c>> /\ DOMAIN held = Nodes
  BY DEF Underway
<1>3. CASE Enqueue(i, c)
  <2>1. /\ running[i] /\ pending' = [pending EXCEPT ![i] = @ \o <<c>>]
        /\ running' = running /\ ctx' = ctx /\ finished' = finished /\ failed' = failed
    BY <1>3 DEF Enqueue, Queued
  <2>2. Underway[i] = <<ctx[i]>> \o pending[i] /\ ctx[i] \in R /\ pending[i] \in Seq(R)
    BY <2>1, UnderwayAt
  <2>3. pending' \in [Nodes -> Seq(R)] /\ \A n \in Nodes : n # i => pending'[n] = pending[n]
    <3>1. pending[i] \o <<c>> \in Seq(R)
      BY <1>1, <2>2, ConcatProperties
    <3> HIDE DEF R
    <3>2. pending \in [Nodes -> Seq(R)]
      BY DEF Shape, R
    <3>3. QED BY <2>1, <3>1, <3>2
  <2>4. pending'[i] = pending[i] \o <<c>>
    BY <2>1 DEF Shape
  <2>5. <<ctx[i]>> \o (pending[i] \o <<c>>) = Underway[i] \o <<c>>
    <3> DEFINE s == <<ctx[i]>>
               t == pending[i]
               u == <<c>>
    <3>1. s \in Seq(R) /\ t \in Seq(R) /\ u \in Seq(R)
      BY <1>1, <2>2
    <3> HIDE DEF s, t, u, R
    <3>2. (s \o t) \o u = s \o (t \o u)
      BY <3>1, ConcatAssociative
    <3>3. QED BY <2>2, <3>2 DEF s, t, u
  <2>6. Underway' = held
    <3>1. Underway' = [n \in Nodes |-> (IF running[n] THEN <<ctx[n]>> ELSE <<>>) \o pending'[n]]
      BY <2>1 DEF Underway, Contexts, Nodes
    <3>2. \A n \in Nodes : (IF running[n] THEN <<ctx[n]>> ELSE <<>>) \o pending'[n] = held[n]
      <4>1. ASSUME NEW n \in Nodes, n # i
            PROVE  (IF running[n] THEN <<ctx[n]>> ELSE <<>>) \o pending'[n] = held[n]
        BY <1>2, <2>3, <4>1 DEF Underway, Contexts
      <4>2. (IF running[i] THEN <<ctx[i]>> ELSE <<>>) \o pending'[i] = held[i]
        BY <1>2, <2>1, <2>4, <2>5
      <4>3. QED BY <4>1, <4>2
    <3>3. held = [n \in Nodes |-> held[n]]
      BY DEF Underway
    <3>4. QED BY <3>1, <3>2, <3>3
  <2>7. Line(Underway', finished', failed', dropped', skip, last)
    BY <2>1, <2>6
  <2>8. QED BY <2>1, <2>3, <2>7 DEF Kept, Shape
<1>4. ASSUME ~running[i] PROVE held[i] = <<c>>
  <2>1. Underway[i] = <<>>
    BY <1>4, NothingAtIdle
  <2>2. QED BY <1>1, <1>2, <2>1, ConcatEmptySeq
<1>B. SameBut(i, held, Underway)
  BY <1>2 DEF SameBut
<1>5. CASE ~running[i] /\ (Forward(i, <<>>, TRUE, c, <<>>, lost) \/ Forward(i, <<c>>, FALSE, c, <<>>, lost))
  BY <1>B, <1>4, <1>5, StartsKeepsLine
<1>6. QED BY <1>3, <1>5 DEF Takes

(* A node that completes hands on its own context, or all it has.          *)
LEMMA CompleteKeepsLine ==
  ASSUME IInv, NEW last \in Nat, Shape(last), NEW i \in Nodes, running[i], NEW lost, NEW skip,
         Line(Underway, finished, failed, dropped, skip, last),
         \/ CompleteRun(i, lost)
         \/ Forward(i, <<ctx[i]>> \o pending[i], FALSE, Last(<<ctx[i]>> \o pending[i]), <<>>, lost),
         UNCHANGED dropped
  PROVE  Kept(skip, last)
<1> DEFINE c == ctx[i]
           p == pending[i]
           R == 0..last
<1>1. Underway[i] = <<c>> \o p /\ c \in R /\ p \in Seq(R)
  BY UnderwayAt
<1>2. /\ <<c>> \in Seq(R) /\ <<>> \in Seq(R) /\ <<c>> \o p \in Seq(R)
      /\ <<>> \o <<>> = <<>> /\ <<c>> \o <<>> = <<c>> /\ (<<c>> \o p) \o <<>> = <<c>> \o p /\ <<>> \o p = p
  <2>1. <<c>> \in Seq(R) /\ <<>> \in Seq(R)
    BY <1>1
  <2> DEFINE s == <<c>>
  <2>2. s \in Seq(R) /\ p \in Seq(R)
    BY <1>1, <2>1
  <2> HIDE DEF s, p, R
  <2>3. s \o p \in Seq(R)
    BY <2>2, ConcatProperties
  <2>4. QED BY <2>1, <2>2, <2>3, ConcatEmptySeq DEF s
<1>3. \A s \in Seq(R) : s # <<>> => Last(s) \in R
  <2>1. ASSUME NEW s \in Seq(R), s # <<>> PROVE Last(s) \in R
    <3> HIDE DEF R
    <3>1. Len(s) \in 1..Len(s)
      BY <2>1, EmptySeq
    <3>2. QED BY <3>1, ElementOfSeq DEF Last
  <2>2. QED BY <2>1
<1>4. <<c>> \o p # <<>>
  BY <1>1
<1> DEFINE none == <<>>
           one == <<c>>
           all == one \o p
<1>5. /\ none \in Seq(0..last) /\ one \in Seq(0..last) /\ all \in Seq(0..last)
      /\ Underway[i] = all /\ \A x : Left(FALSE, x, none) = none
      /\ all \o none = all /\ one \o none = one
      /\ Last(all) \in 0..last /\ c \in 0..last /\ SameBut(i, Underway, Underway)
  BY <1>1, <1>2, <1>3, <1>4 DEF Left, SameBut
<1>6. CASE p = none /\ Forward(i, one, FALSE, c, none, lost)
  <2> DEFINE last1 == c
  <2>1. last1 \in 0..last /\ Underway[i] = one \o Left(FALSE, last1, none)
        /\ Forward(i, one, FALSE, last1, none, lost)
    BY <1>2, <1>5, <1>6
  <2> HIDE DEF none, one, all, last1
  <2>2. QED BY <1>5, <2>1, ForwardKeepsLine
<1>7. CASE p # none /\ Forward(i, one, TRUE, Head(p), Tail(p), lost)
  <2>1. Head(p) \in R /\ Tail(p) \in Seq(R) /\ <<Head(p)>> \o Tail(p) = p
    BY <1>1, <1>7, HeadAndTail
  <2>2. Underway[i] = one \o Left(TRUE, Head(p), Tail(p))
    BY <1>1, <2>1 DEF Left
  <2> DEFINE rest == Tail(p)
             next == Head(p)
  <2>3. /\ rest \in Seq(0..last) /\ next \in 0..last
        /\ Underway[i] = one \o Left(TRUE, next, rest) /\ Forward(i, one, TRUE, next, rest, lost)
    BY <1>7, <2>1, <2>2
  <2> HIDE DEF none, one, all, rest, next
  <2>4. QED BY <1>5, <2>3, ForwardKeepsLine
<1>8. CASE p # none /\ Forward(i, all, FALSE, Last(p), none, lost)
  <2>1. Underway[i] = all \o Left(FALSE, Last(p), none)
    BY <1>5
  <2> DEFINE last1 == Last(p)
  <2>2. last1 \in 0..last /\ Underway[i] = all \o Left(FALSE, last1, none)
        /\ Forward(i, all, FALSE, last1, none, lost)
    BY <1>1, <1>3, <1>8, <2>1
  <2> HIDE DEF none, one, all, last1
  <2>3. QED BY <1>5, <2>2, ForwardKeepsLine
<1>9. CASE Forward(i, all, FALSE, Last(all), none, lost)
  <2>1. Underway[i] = all \o Left(FALSE, Last(all), none)
    BY <1>5
  <2> DEFINE last1 == Last(all)
  <2>2. last1 \in 0..last /\ Underway[i] = all \o Left(FALSE, last1, none)
        /\ Forward(i, all, FALSE, last1, none, lost)
    BY <1>5, <1>9, <2>1
  <2> HIDE DEF none, one, all, last1
  <2>3. QED BY <1>5, <2>2, ForwardKeepsLine
<1>10. QED BY <1>6, <1>7, <1>8, <1>9 DEF CompleteRun

(* A node that fails gives up all it has.                                  *)
LEMMA FailRunKeepsLine ==
  ASSUME IInv, NEW last \in Nat, Shape(last), NEW i \in Nodes, running[i], NEW skip,
         Line(Underway, finished, failed, dropped, skip, last), FailRun(i)
  PROVE  Kept(skip, last)
<1>1. Underway[i] = <<ctx[i]>> \o pending[i] /\ ctx[i] \in 0..last /\ pending[i] \in Seq(0..last)
  BY UnderwayAt
<1>2. /\ running' = [running EXCEPT ![i] = FALSE] /\ pending' = [pending EXCEPT ![i] = <<>>]
      /\ failed' = failed \cup Numbered({ctx[i]})
      /\ dropped' = dropped \cup Numbered(ToSet(pending[i]))
      /\ ctx' = ctx /\ finished' = finished
  BY DEF FailRun
<1>3. Line([Underway EXCEPT ![i] = <<>>], finished, failed', dropped', skip, last)
  BY <1>1, <1>2, GiveUpKeepsLine
<1>4. running' \in [Nodes -> BOOLEAN] /\ ctx' \in [Nodes -> 0..last] /\ pending' \in [Nodes -> Seq(0..last)]
  <2>1. <<>> \in Seq(0..last)
    OBVIOUS
  <2>2. QED BY <1>2, <2>1 DEF Shape
<1>5. Underway' = [Underway EXCEPT ![i] = <<>>]
  <2>1. Underway' = [n \in Nodes |-> (IF running'[n] THEN <<ctx[n]>> ELSE <<>>) \o pending'[n]]
    BY <1>2 DEF Underway, Contexts, Nodes
  <2>2. ~running'[i] /\ pending'[i] = <<>>
    BY <1>2 DEF Shape
  <2>3. \A n \in Nodes : n # i => running'[n] = running[n] /\ pending'[n] = pending[n]
    BY <1>2 DEF Shape
  <2>4. <<>> \o <<>> = <<>>
    BY ConcatEmptySeq, EmptySeq
  <2>5. \A n \in Nodes : (IF running'[n] THEN <<ctx[n]>> ELSE <<>>) \o pending'[n]
                           = IF n = i THEN <<>> ELSE Underway[n]
    BY <2>2, <2>3, <2>4 DEF Underway, Contexts
  <2>6. [Underway EXCEPT ![i] = <<>>] = [n \in Nodes |-> IF n = i THEN <<>> ELSE Underway[n]]
    BY DEF Underway
  <2>7. QED BY <2>1, <2>5, <2>6
<1>6. QED BY <1>2, <1>3, <1>4, <1>5 DEF Kept

(* The RequestTilesNode is given the context c.                            *)
LEMMA RunFetchKeepsLine ==
  ASSUME IInv, NEW last \in Nat, Shape(last), NEW c \in 0..last, NEW skip,
         NEW tiles, NEW old, NEW open, NEW lost,
         NEW held, held = [Underway EXCEPT ![1] = @ \o <<c>>],
         Line(held, finished, failed, dropped, skip, last), RunFetch(c, tiles, old, open, lost)
  PROVE  Kept(skip, last)
<1>0. 1 \in Nodes
  BY GraphAssumption DEF Nodes
<1>1. CASE Takes(1, c, lost) /\ UNCHANGED dropped
  BY <1>0, <1>1, RunKeepsLine
<1>2. CASE /\ ~running[1]
           /\ ctx' = [ctx EXCEPT ![1] = c] /\ failed' = failed \cup Numbered({c})
           /\ UNCHANGED <<running, pending, finished, dropped>>
  <2> DEFINE held2 == [held EXCEPT ![1] = <<>>]
  <2>1. Underway[1] = <<>>
    BY <1>0, <1>2, NothingAtIdle
  <2>2. <<>> \in Seq(0..last) /\ <<c>> \in Seq(0..last)
    OBVIOUS
  <2>3. held[1] = <<c>> \o <<>>
    <3>1. held[1] = <<>> \o <<c>>
      BY <1>0, <2>1 DEF Underway
    <3>2. <<>> \o <<c>> = <<c>> /\ <<c>> \o <<>> = <<c>>
      BY <2>2, ConcatEmptySeq
    <3>3. QED BY <3>1, <3>2
  <2>4. Line(held2, finished, failed \cup Numbered({c}), dropped \cup Numbered(ToSet(<<>>)), skip, last)
    BY <1>0, <2>2, <2>3, GiveUpKeepsLine
  <2>5. dropped \cup Numbered(ToSet(<<>>)) = dropped
    BY DEF Numbered, ToSet
  <2>6. held2 = Underway
    <3>1. held = [n \in Nodes |-> held[n]] /\ Underway = [n \in Nodes |-> Underway[n]]
      BY DEF Underway
    <3>2. \A n \in Nodes : n # 1 => held[n] = Underway[n]
      BY DEF Underway
    <3>3. \A n \in Nodes : held2[n] = Underway[n]
      BY <2>1, <3>1, <3>2
    <3>4. held2 = [n \in Nodes |-> held2[n]]
      BY <3>1
    <3> HIDE DEF held2
    <3>5. QED BY <3>1, <3>3, <3>4
  <2>7. Underway' = Underway
    <3>1. \A n \in Nodes : running[n] => n # 1
      BY <1>2
    <3>2. \A n \in Nodes : running[n] => ctx'[n] = ctx[n]
      BY <1>2, <3>1 DEF Shape
    <3>3. \A n \in Nodes : (IF running[n] THEN <<ctx'[n]>> ELSE <<>>) \o pending[n] = Underway[n]
      BY <3>2 DEF Underway, Contexts
    <3>4. Underway' = [n \in Nodes |-> (IF running[n] THEN <<ctx'[n]>> ELSE <<>>) \o pending[n]]
      BY <1>2 DEF Underway, Contexts, Nodes
    <3>5. Underway = [n \in Nodes |-> Underway[n]]
      BY DEF Underway
    <3>6. QED BY <3>3, <3>4, <3>5
  <2>8. Line(Underway', finished', failed', dropped', skip, last)
    BY <1>2, <2>4, <2>5, <2>6, <2>7
  <2>9. QED BY <1>2, <2>8 DEF Kept, Shape
<1>3. QED BY <1>1, <1>2 DEF RunFetch, Takes

(* What is inductive about the runs: where they are and in which order, as *)
(* numbers up to that of the last.                                         *)
LineInv ==
  /\ run_id \in Nat /\ Shape(run_id)
  /\ Line(Underway, finished, failed, dropped, reran \cup {0}, run_id)

(* What the lemmas above prove of a step is the invariant.                 *)
LEMMA KeptIsLineInv ==
  ASSUME NEW last \in Nat, run_id' = last, Kept(reran' \cup {0}, last)
  PROVE  LineInv'
BY DEF Kept, LineInv, Shape, Nodes

(* At first no run has started.                                            *)
LEMMA LineAtFirst == Init => LineInv
<1> SUFFICES ASSUME Init PROVE LineInv
  OBVIOUS
<1>1. <<>> \in Seq(0..0) /\ <<>> \o <<>> = <<>>
  BY ConcatEmptySeq, EmptySeq
<1>2. Underway = [n \in Nodes |-> <<>>]
  BY <1>1 DEF Init, Underway, Contexts
<1>3. Underway \in [Nodes -> Seq(0..0)]
  BY <1>1, <1>2
<1>4. Known(Underway, finished, failed, dropped, reran \cup {0}, run_id)
  BY <1>3 DEF Init, Known
<1>5. InLine(Underway, finished, reran \cup {0})
  BY <1>2 DEF InLine
<1>6. InOnePlace(Underway, finished, failed, dropped, reran \cup {0}, run_id)
  BY DEF Init, InOnePlace
<1>7. Shape(run_id)
  BY <1>1 DEF Init, Shape
<1>8. QED BY <1>4, <1>5, <1>6, <1>7 DEF LineInv, Line, Known

(* A context is repeated at node i.                                        *)
LEMMA RepeatedIn ==
  ASSUME LineInv, NEW c \in 0..run_id, NEW i \in Nodes, reran' = reran \cup Numbered({c})
  PROVE  /\ run_id \in Nat /\ Shape(run_id)
         /\ Line([Underway EXCEPT ![i] = @ \o <<c>>], finished, failed, dropped, reran' \cup {0}, run_id)
<1> DEFINE skip == (reran \cup {0}) \cup Numbered({c})
<1>1. skip = reran' \cup {0}
  OBVIOUS
<1>2. Line(Underway, finished, failed, dropped, skip, run_id) /\ c \in skip
  BY SkipMore DEF LineInv
<1> HIDE DEF skip
<1>3. Line([Underway EXCEPT ![i] = @ \o <<c>>], finished, failed, dropped, skip, run_id)
  BY <1>2, RepeatKeepsLine
<1>4. QED BY <1>1, <1>3 DEF LineInv

(* Only a node that runs is owed answers.                                  *)
OnlyAskedIsOwed == outstanding # {} => running[1]

(* No step disturbs the line.                                              *)
LEMMA LineInvHolds ==
  ASSUME IInv, OnlyAskedIsOwed, LineInv, [UiNext]_vars
  PROVE  LineInv'
<1>0. /\ 1 \in Nodes /\ run_id \in Nat /\ run_id + 1 \in Nat /\ run_id \in 0..run_id
      /\ Shape(run_id) /\ \A i \in Nodes : ctx[i] \in 0..run_id
      /\ Line(Underway, finished, failed, dropped, reran \cup {0}, run_id)
  BY GraphAssumption DEF Nodes, LineInv, Shape
<1>1. ASSUME NEW R, NEW lost, Trigger(R, lost) PROVE LineInv'
  <2> DEFINE last == run_id + 1
  <2>1. Line([Underway EXCEPT ![1] = @ \o <<last>>], finished, failed, dropped, reran \cup {0}, last)
    BY <1>0, StartKeepsLine
  <2>2. Shape(last) /\ last \in Nat /\ last \in 0..last
    <3>1. 0..run_id \subseteq 0..last
      BY <1>0
    <3>2. \A n \in Nodes : pending[n] \in Seq(0..last)
      BY <1>0, <3>1, SeqSubset DEF Shape
    <3>3. QED BY <1>0, <3>1, <3>2 DEF Shape
  <2>3. /\ RunFetch(last, R, requested, outstanding, lost)
        /\ run_id' = last /\ reran' = reran
    BY <1>1 DEF Trigger
  <2> HIDE DEF last
  <2>4. Kept(reran \cup {0}, last)
    BY <2>1, <2>2, <2>3, RunFetchKeepsLine
  <2>5. QED BY <2>2, <2>3, <2>4, KeptIsLineInv
<1>2. CASE TriggerFails
  <2> DEFINE last == run_id + 1
  <2>1. Line(Underway, finished, failed \cup {last}, dropped, reran \cup {0}, last)
    BY <1>0, FailureKeepsLine
  <2>2. /\ run_id' = last /\ failed' = failed \cup {last}
        /\ UNCHANGED <<reran, running, ctx, pending, finished, dropped>>
    BY <1>2 DEF TriggerFails
  <2>3. Underway' = Underway
    BY <2>2 DEF Underway, Contexts, Nodes
  <2>4. last \in Nat /\ 0..run_id \subseteq 0..last
    BY <1>0
  <2>5. \A n \in Nodes : pending[n] \in Seq(0..last)
    BY <1>0, <2>4, SeqSubset DEF Shape
  <2>6. running' \in [Nodes -> BOOLEAN] /\ ctx' \in [Nodes -> 0..last] /\ pending' \in [Nodes -> Seq(0..last)]
    BY <1>0, <2>2, <2>4, <2>5 DEF Shape
  <2>7. Kept(reran' \cup {0}, last)
    BY <2>1, <2>2, <2>3, <2>6 DEF Kept
  <2>8. QED BY <2>2, <2>4, <2>7, KeptIsLineInv
<1>3. ASSUME NEW R, NEW lost, Reselect(R, lost) PROVE LineInv'
  <2>1. /\ reran' = reran \cup Numbered({run_id}) /\ run_id' = run_id
        /\ RunFetch(run_id, R, requested, outstanding, lost)
    BY <1>3 DEF Reselect
  <2>2. Line([Underway EXCEPT ![1] = @ \o <<run_id>>], finished, failed, dropped, reran' \cup {0}, run_id)
    BY <1>0, <2>1, RepeatedIn
  <2>3. Kept(reran' \cup {0}, run_id)
    BY <1>0, <2>1, <2>2, RunFetchKeepsLine
  <2>4. QED BY <1>0, <2>1, <2>3, KeptIsLineInv
<1>4. ASSUME NEW old, NEW open, NEW lost, Repeat(old, open, lost) PROVE LineInv'
  <2>1. /\ reran' = reran \cup Numbered({ctx[1]}) /\ run_id' = run_id
        /\ RunFetch(ctx[1], selected, old, open, lost)
    BY <1>4 DEF Repeat
  <2>2. Line([Underway EXCEPT ![1] = @ \o <<ctx[1]>>], finished, failed, dropped, reran' \cup {0}, run_id)
    BY <1>0, <2>1, RepeatedIn
  <2>3. Kept(reran' \cup {0}, run_id)
    BY <1>0, <2>1, <2>2, RunFetchKeepsLine
  <2>4. QED BY <1>0, <2>1, <2>3, KeptIsLineInv
<1>5. ASSUME NEW i \in Nodes, NEW lost, Rerun(i, lost) PROVE LineInv'
  <2>1. /\ reran' = reran \cup Numbered({ctx[i]}) /\ run_id' = run_id /\ UNCHANGED dropped
        /\ Takes(i, ctx[i], lost)
    BY <1>5 DEF Rerun, Takes
  <2>2. Line([Underway EXCEPT ![i] = @ \o <<ctx[i]>>], finished, failed, dropped, reran' \cup {0}, run_id)
    BY <1>0, <2>1, RepeatedIn
  <2>3. Kept(reran' \cup {0}, run_id)
    BY <1>0, <2>1, <2>2, RunKeepsLine
  <2>4. QED BY <1>0, <2>1, <2>3, KeptIsLineInv
<1>6. CASE UNCHANGED <<chain_vars, dropped, run_id, reran>>
  BY <1>6 DEF chain_vars, LineInv, Shape, Underway, Contexts, Nodes
<1>7. ASSUME NEW i \in Nodes, NodeFails(i) PROVE LineInv'
  BY <1>0, <1>7, FailRunKeepsLine, KeptIsLineInv DEF NodeFails, user_vars
<1>8. ASSUME NEW i \in Nodes, NEW lost, NodeCompletes(i, lost) PROVE LineInv'
  BY <1>0, <1>8, CompleteKeepsLine, KeptIsLineInv DEF NodeCompletes, user_vars
<1>9. ASSUME NEW t, NEW good, FetchFails(t, good) PROVE LineInv'
  <2>1. running[1]
    BY <1>9 DEF FetchFails, OnlyAskedIsOwed
  <2>2. QED BY <1>0, <1>9, <2>1, FailRunKeepsLine, KeptIsLineInv DEF FetchFails, user_vars
<1>10. ASSUME NEW t, NEW lost, FetchCompletes(t, lost) PROVE LineInv'
  <2>1. running[1]
    BY <1>10 DEF FetchCompletes, OnlyAskedIsOwed
  <2>2. QED BY <1>0, <1>10, <2>1, CompleteKeepsLine, KeptIsLineInv DEF FetchCompletes, user_vars
<1>11. CASE UNCHANGED vars
  BY <1>6, <1>11 DEF vars, user_vars
<1>12. CASE Run
  BY <1>1, <1>2, <1>12 DEF Run
<1>13. CASE Disturb
  <2>1. ASSUME NEW i \in Nodes, Toggle(i) PROVE LineInv'
    BY <1>6, <2>1 DEF Toggle
  <2>2. QED BY <1>3, <1>4, <1>5, <1>13, <2>1 DEF Disturb, RerunFetch, SetSettings
<1>14. ASSUME NEW t, Answer(t) PROVE LineInv'
  <2>1. ASSUME NEW good, TileReceived(t, good) PROVE LineInv'
    BY <1>6, <2>1 DEF TileReceived, user_vars
  <2>2. QED BY <1>9, <1>10, <1>14, <2>1 DEF Answer
<1>15. ASSUME NEW i \in Nodes, NodeEnds(i) PROVE LineInv'
  BY <1>7, <1>8, <1>15 DEF NodeEnds
<1>16. ASSUME NEW lost, SetSettings(lost) PROVE LineInv'
  BY <1>4, <1>16 DEF SetSettings
<1>17. QED BY <1>11, <1>12, <1>13, <1>14, <1>15, <1>16 DEF Next, UiNext

-----------------------------------------------------------------------------
(* The line says that runs are in order, for the nodes as they are.        *)
LEMMA LineIsInOrder == LineInv => RunsInOrder
<1> SUFFICES ASSUME LineInv, NEW i \in Nodes, NEW k \in DOMAIN Contexts(i), ~Repeated(Contexts(i)[k])
             PROVE  /\ \A l \in 1..k - 1 : Repeated(Contexts(i)[l]) \/ Contexts(i)[l] < Contexts(i)[k]
                    /\ \A j \in 1..i - 1 : \A l \in DOMAIN Contexts(j) :
                         Repeated(Contexts(j)[l]) \/ Contexts(i)[k] < Contexts(j)[l]
                    /\ \A s \in finished : Repeated(s) \/ s < Contexts(i)[k]
  BY DEF RunsInOrder
<1>1. /\ InLine(Underway, finished, reran \cup {0})
      /\ Known(Underway, finished, failed, dropped, reran \cup {0}, run_id)
  BY DEF LineInv, Line
<1>2. \A n \in Nodes : Underway[n] = Contexts(n) /\ n \in Nat
  BY DEF Underway, Nodes
<1>3. DOMAIN Contexts(i) = 1..Len(Contexts(i)) /\ Len(Contexts(i)) \in Nat
  <2>1. Contexts(i) \in Seq(0..run_id)
    BY <1>1, <1>2 DEF Known
  <2>2. QED BY <2>1, LenProperties
<1>4. k \in DOMAIN Underway[i] /\ Underway[i][k] \notin reran \cup {0} /\ Underway[i][k] = Contexts(i)[k]
  BY <1>2 DEF Repeated
<1>5. ASSUME NEW l \in 1..k - 1, ~Repeated(Contexts(i)[l]) PROVE Contexts(i)[l] < Contexts(i)[k]
  <2>1. l \in DOMAIN Underway[i] /\ Underway[i][l] \notin reran \cup {0} /\ l < k
    BY <1>2, <1>3, <1>5 DEF Repeated
  <2>2. Ahead(i, l, i, k)
    BY <2>1 DEF Ahead
  <2>3. QED BY <1>1, <1>2, <1>4, <2>1, <2>2 DEF InLine
<1>6. ASSUME NEW j \in 1..i - 1, NEW l \in DOMAIN Contexts(j), ~Repeated(Contexts(j)[l])
      PROVE  Contexts(i)[k] < Contexts(j)[l]
  <2>1. j \in Nodes /\ j < i
    BY GraphAssumption DEF Nodes
  <2>2. l \in DOMAIN Underway[j] /\ Underway[j][l] \notin reran \cup {0}
    BY <1>2, <1>6, <2>1 DEF Repeated
  <2>3. Ahead(i, k, j, l)
    BY <2>1 DEF Ahead
  <2>4. QED BY <1>1, <1>2, <1>4, <2>1, <2>2, <2>3 DEF InLine
<1>7. ASSUME NEW s \in finished, ~Repeated(s) PROVE s < Contexts(i)[k]
  BY <1>1, <1>2, <1>4, <1>7 DEF InLine, Repeated
<1>8. QED BY <1>5, <1>6, <1>7

(* As a line has an order, a run that is held has one place in it.         *)
LEMMA LineIsAccountedFor == LineInv => RunsAccountedFor
<1> SUFFICES ASSUME LineInv, NEW r \in 1..run_id, r \notin reran
             PROVE  Cardinality(Places(r)) = 1
  BY DEF RunsAccountedFor
<1>1. /\ run_id \in Nat /\ r \notin reran \cup {0}
      /\ Known(Underway, finished, failed, dropped, reran \cup {0}, run_id)
      /\ InLine(Underway, finished, reran \cup {0})
      /\ IsHeld(Underway, r) \/ r \in finished \/ r \in failed \/ r \in dropped
      /\ IsHeld(Underway, r) => r \notin finished \cup failed \cup dropped
      /\ r \notin finished \cap failed /\ r \notin finished \cap dropped /\ r \notin failed \cap dropped
  BY DEF LineInv, Line, InOnePlace
<1>2. \A n \in Nodes : Underway[n] = Contexts(n) /\ n \in Nat
  BY DEF Underway, Nodes
<1> DEFINE At(i) == {<<i, k>> : k \in {k \in DOMAIN Contexts(i) : Contexts(i)[k] = r}}
           Over == {<<0, e>> : e \in {e \in 1..3 : r \in <<finished, failed, dropped>>[e]}}
<1>3. \A x : x \in Places(r) <=> x \in Over \/ \E m \in Nodes : x \in At(m)
  BY DEF Places
<1>4. \E p : Places(r) = {p}
  <2>1. CASE IsHeld(Underway, r)
    <3>1. PICK i \in Nodes : \E k \in DOMAIN Contexts(i) : Contexts(i)[k] = r
      BY <1>2, <2>1 DEF IsHeld
    <3>2. PICK k \in DOMAIN Contexts(i) : Contexts(i)[k] = r
      BY <3>1
    <3>3. Over = {}
      BY <1>1, <2>1
    <3>4. ASSUME NEW m \in Nodes, NEW l \in DOMAIN Contexts(m), Contexts(m)[l] = r
          PROVE  m = i /\ l = k
      <4>1. \A n \in Nodes : DOMAIN Contexts(n) = 1..Len(Contexts(n))
        <5>1. ASSUME NEW n \in Nodes PROVE Contexts(n) \in Seq(0..run_id)
          BY <1>1, <1>2 DEF Known
        <5>2. QED BY <5>1, LenProperties
      <4>2. i \in Nat /\ m \in Nat /\ l \in Int /\ k \in Int
        BY <1>2, <4>1
      <4>3. ~Ahead(i, k, m, l) /\ ~Ahead(m, l, i, k)
        BY <1>1, <1>2, <3>2, <3>4 DEF InLine
      <4>4. QED BY <4>2, <4>3 DEF Ahead
    <3>5. \A m \in Nodes : m # i => At(m) = {}
      BY <3>4
    <3>6. At(i) = {<<i, k>>}
      BY <3>2, <3>4
    <3> HIDE DEF Over
    <3> HIDE DEF At
    <3>7. \A x : x \in Places(r) <=> x = <<i, k>>
      BY <1>3, <3>1, <3>3, <3>5, <3>6
    <3>8. Places(r) = {<<i, k>>}
      BY <3>7
    <3>9. QED BY <3>8
  <2>2. CASE ~IsHeld(Underway, r)
    <3>1. \A m \in Nodes : At(m) = {}
      BY <1>2, <2>2 DEF IsHeld
    <3>2. \E e \in 1..3 : Over = {<<0, e>>}
      <4> DEFINE way == <<finished, failed, dropped>>
      <4>1. way[1] = finished /\ way[2] = failed /\ way[3] = dropped
        OBVIOUS
      <4>2. PICK e \in 1..3 : r \in way[e] /\ \A f \in 1..3 : r \in way[f] => f = e
        <5>1. 1..3 = {1, 2, 3}
          OBVIOUS
        <5> HIDE DEF way
        <5>2. QED BY <1>1, <2>2, <4>1, <5>1
      <4>3. {f \in 1..3 : r \in way[f]} = {e}
        BY <4>2
      <4>4. Over = {<<0, e>>}
        BY <4>3
      <4>5. QED BY <4>4
    <3>3. PICK e \in 1..3 : Over = {<<0, e>>}
      BY <3>2
    <3> HIDE DEF Over
    <3> HIDE DEF At
    <3>4. \A x : x \in Places(r) <=> x = <<0, e>>
      BY <1>3, <3>1, <3>3
    <3>5. Places(r) = {<<0, e>>}
      BY <3>4
    <3>6. QED BY <3>5
  <2>3. QED BY <2>1, <2>2
<1>5. QED BY <1>4, FS_Singleton

(* What is inductive about the counters and the switches of the nodes.     *)
CountInv ==
  /\ enabled \in [Nodes -> BOOLEAN]
  /\ run_id \in 0..MaxRuns
  /\ tiles_requested \in 0..Cardinality(Tiles)
  /\ tiles_unavailable \in 0..signals_received
  /\ 0 \notin reran

(* At first nothing is counted.                                            *)
LEMMA CountsAtFirst == Init => CountInv
BY GraphAssumption, FS_CardinalityType, FS_EmptySet DEF Init, CountInv, Tiles

(* No request is for more tiles than there are.                            *)
LEMMA TilesFit ==
  ASSUME NEW R \in Regions \cup {{}}
  PROVE  Cardinality(R) \in 0..Cardinality(Tiles)
<1>1. R \subseteq Tiles /\ IsFiniteSet(Tiles)
  BY GraphAssumption DEF Tiles
<1>2. QED BY <1>1, FS_Subset, FS_CardinalityType

(* A request starts to count anew.                                         *)
LEMMA CountsOfFetch ==
  ASSUME FetchInv, CountInv, NEW c, NEW tiles \in Regions \cup {{}}, NEW old, NEW open, NEW lost,
         RunFetch(c, tiles, old, open, lost), enabled' = enabled, run_id' \in 0..MaxRuns, 0 \notin reran'
  PROVE  CountInv'
<1>1. CASE Keep(old, open)
  BY <1>1 DEF Keep, CountInv, Nodes
<1>2. CASE Request(tiles, open)
  BY <1>2, TilesFit DEF Request, CountInv, Nodes
<1>3. QED BY <1>1, <1>2 DEF RunFetch

(* An answer that cannot be had is still an answer.                        *)
LEMMA CountsOfAnswer ==
  ASSUME FetchInv, CountInv, NEW t, NEW good \in BOOLEAN, Counted(t, good), UNCHANGED user_vars
  PROVE  CountInv'
BY DEF Counted, Unavailable, CountInv, FetchInv, user_vars, Nodes

(* All the other handlers leave the counters alone.                        *)
LEMMA CountsUnchanged ==
  ASSUME CountInv, UNCHANGED <<fetch_vars, run_id>>, enabled' \in [Nodes -> BOOLEAN],
         0 \notin reran'
  PROVE  CountInv'
BY DEF CountInv, fetch_vars, Nodes

(* No step disturbs the counters.                                          *)
LEMMA CountInvHolds ==
  ASSUME FetchInv, CountInv, [Next]_vars
  PROVE  CountInv'
<1>1. ASSUME NEW R \in Regions, NEW lost, Trigger(R, lost) PROVE CountInv'
  <2>1. run_id' \in 0..MaxRuns
    BY <1>1, GraphAssumption DEF Trigger, CountInv
  <2>2. QED BY <1>1, <2>1, CountsOfFetch DEF Trigger, CountInv
<1>2. CASE TriggerFails
  BY <1>2, GraphAssumption DEF TriggerFails, CountInv, fetch_vars, Nodes
<1>3. ASSUME NEW R \in Regions, NEW lost, Reselect(R, lost) PROVE CountInv'
  BY <1>3, CountsOfFetch DEF Reselect, CountInv, Numbered
<1>4. ASSUME NEW old, NEW open, NEW lost, Repeat(old, open, lost) PROVE CountInv'
  BY <1>4, CountsOfFetch DEF Repeat, CountInv, FetchInv, Numbered
<1>5. ASSUME NEW i \in Nodes, NEW lost, Rerun(i, lost) PROVE CountInv'
  BY <1>5, CountsUnchanged DEF Rerun, CountInv, Numbered
<1>6. ASSUME NEW i \in Nodes, Toggle(i) PROVE CountInv'
  <2>1. enabled' \in [Nodes -> BOOLEAN]
    BY <1>6 DEF Toggle, CountInv
  <2>2. QED BY <1>6, <2>1, CountsUnchanged DEF Toggle, CountInv
<1>7. ASSUME NEW t, NEW good \in BOOLEAN, TileReceived(t, good) PROVE CountInv'
  BY <1>7, CountsOfAnswer DEF TileReceived
<1>8. ASSUME NEW t, NEW good \in BOOLEAN, FetchFails(t, good) PROVE CountInv'
  BY <1>8, CountsOfAnswer DEF FetchFails
<1>9. ASSUME NEW t, NEW lost, FetchCompletes(t, lost) PROVE CountInv'
  <2>1. UNCHANGED user_vars
    BY <1>9 DEF FetchCompletes
  <2>2. CASE Counted(t, TRUE)
    BY <2>1, <2>2, CountsOfAnswer
  <2>3. CASE Request(selected, outstanding \ {t})
    BY <2>1, <2>3, TilesFit DEF Request, CountInv, FetchInv, user_vars, Nodes
  <2>4. QED BY <1>9, <2>2, <2>3 DEF FetchCompletes
<1>10. ASSUME NEW i \in Nodes, NodeEnds(i) PROVE CountInv'
  <2>1. UNCHANGED <<fetch_vars, user_vars>>
    BY <1>10 DEF NodeEnds, NodeFails, NodeCompletes
  <2>2. QED BY <2>1, CountsUnchanged DEF user_vars, CountInv
<1>11. CASE UNCHANGED vars
  BY <1>11, CountsUnchanged DEF vars, user_vars, CountInv
<1>12. CASE Disturb
  BY <1>3, <1>4, <1>5, <1>6, <1>12 DEF Disturb, RerunFetch, SetSettings
<1>13. ASSUME NEW t, Answer(t) PROVE CountInv'
  BY <1>7, <1>8, <1>9, <1>13 DEF Answer
<1>14. QED BY <1>1, <1>2, <1>10, <1>11, <1>12, <1>13 DEF Next, Run

(* The types follow from the three invariants.                             *)
LEMMA InvIsTyped == FetchInv /\ LineInv /\ CountInv => TypeOK
<1> SUFFICES ASSUME FetchInv, LineInv, CountInv PROVE TypeOK
  OBVIOUS
<1>1. run_id \in Nat /\ MaxRuns \in Nat /\ run_id <= MaxRuns
  BY GraphAssumption DEF CountInv
<1>2. 0..run_id \subseteq 0..MaxRuns /\ 1..run_id \subseteq 1..MaxRuns
  BY <1>1
<1>3. /\ running \in [Nodes -> BOOLEAN] /\ ctx \in [Nodes -> 0..run_id]
      /\ pending \in [Nodes -> Seq(0..run_id)]
  BY DEF LineInv, Shape
<1>4. ctx \in [Nodes -> 0..MaxRuns]
  BY <1>2, <1>3
<1>5. pending \in [Nodes -> Seq(0..MaxRuns)]
  <2>1. \A n \in Nodes : pending[n] \in Seq(0..MaxRuns)
    BY <1>2, <1>3, SeqSubset
  <2>2. QED BY <1>3, <2>1
<1>6. selected \subseteq Tiles /\ requested \subseteq Tiles /\ outstanding \subseteq Tiles
  BY DEF FetchInv, Tiles
<1>7. signals_received \in 0..tiles_requested
  <2>1. Cardinality(outstanding) \in Nat
    <3>1. IsFiniteSet(outstanding)
      BY <1>6, GraphAssumption, FS_Subset DEF Tiles
    <3>2. QED BY <3>1, FS_CardinalityType
  <2>2. QED BY <2>1 DEF FetchInv
<1>8. Ended \cup reran \subseteq Runs
  <2>1. Known(Underway, finished, failed, dropped, reran \cup {0}, run_id)
    BY DEF LineInv, Line
  <2>2. 0 \notin reran
    BY DEF CountInv
  <2>3. finished \subseteq Runs /\ failed \subseteq Runs /\ dropped \subseteq Runs
    BY <1>2, <2>1 DEF Known, Runs
  <2>4. \A r \in reran : r \in 1..run_id
    BY <1>1, <2>1, <2>2 DEF Known
  <2>5. QED BY <1>2, <2>3, <2>4 DEF Ended, Runs
<1>9. QED BY <1>3, <1>4, <1>5, <1>6, <1>7, <1>8 DEF CountInv, TypeOK

AllInv == IInv /\ FetchInv /\ LineInv /\ CountInv

(* Together they are inductive.                                            *)
LEMMA AllHolds == Spec => []AllInv
<1>1. Init => AllInv
  BY InitEstablishes, FetchAtFirst, LineAtFirst, CountsAtFirst DEF AllInv
<1>2. AllInv /\ [Next]_vars => AllInv'
  <2> SUFFICES ASSUME AllInv, [Next]_vars PROVE AllInv'
    OBVIOUS
  <2>1. IInv'
    BY StepPreserves DEF AllInv, UiNext
  <2>2. FetchInv' /\ CountInv'
    BY FetchInvHolds, CountInvHolds DEF AllInv
  <2>3. LineInv'
    BY LineInvHolds DEF AllInv, FetchInv, OnlyAskedIsOwed, UiNext
  <2>4. QED BY <2>1, <2>2, <2>3 DEF AllInv
<1>3. QED BY <1>1, <1>2, PTL DEF Spec

(* The order of the runs needs less of the request, and holds even when the*)
(* loader is replaced while it works.                                      *)
LEMMA LineHolds == UiSpec => [](IInv /\ LineInv)
<1> DEFINE UiInv == IInv /\ (FetchInv \/ Hung) /\ LineInv
<1>1. Init => UiInv
  BY InitEstablishes, FetchAtFirst, LineAtFirst
<1>2. UiInv /\ [UiNext]_vars => UiInv'
  <2> SUFFICES ASSUME UiInv, [UiNext]_vars PROVE UiInv'
    OBVIOUS
  <2>1. IInv' /\ (FetchInv' \/ Hung')
    BY StepPreserves, AnswersOrHangs
  <2>2. LineInv'
    BY LineInvHolds DEF FetchInv, Hung, OnlyAskedIsOwed
  <2>3. QED BY <2>1, <2>2
<1>3. QED BY <1>1, <1>2, PTL DEF UiSpec

(* Runs that no node was asked to repeat never overtake each other, in a   *)
(* graph of any length, for any number of runs, even when settings are     *)
(* changed while tiles are fetched.                                        *)
THEOREM RunsStayInOrder == UiSpec => []RunsInOrder
BY LineHolds, LineIsInOrder, PTL

(* Each of these runs is under way at exactly one node or over in exactly  *)
(* one way: none is lost and none is done twice, even then.                *)
THEOREM EveryRunHasItsPlace == UiSpec => []RunsAccountedFor
BY LineHolds, LineIsAccountedFor, PTL

(* The contexts are numbers of runs, and the RequestTilesNode counts no    *)
(* more answers than it has asked for tiles.                               *)
THEOREM GraphTypeCorrect == Spec => []TypeOK
BY AllHolds, InvIsTyped, PTL DEF AllInv
=============================================================================
