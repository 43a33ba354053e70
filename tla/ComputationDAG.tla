---------------------------- MODULE ComputationDAG ----------------------------
(***************************************************************************)
(* pebble/src/dag: the dependency graph of the checkpoints.  Next to the     *)
(* dependencies of each node it keeps what can be derived from them: the     *)
(* dependents, the roots and leaves, the depth below the roots and the       *)
(* longest path to a leaf (critical_paths).  add_node and remove_node keep    *)
(* these up to date step by step; add_node_unchecked accepts nodes in any     *)
(* order and leaves it to repair() to derive everything again.                *)
(*                                                                         *)
(* Dependencies are a sequence, since the breadth-first update of the        *)
(* critical paths takes them in order; dependents are only searched.         *)
(* creation_time and access_frequency rank eviction candidates, which the    *)
(* manager's module leaves open, and are not here.                           *)
(***************************************************************************)
EXTENDS Selection, FiniteSetsExt, SequencesExt

CONSTANTS
  Ids,        \* node ids
  Absent,     \* the critical path of an id that has none
  Unchecked,  \* whether the caller uses add_node_unchecked()
  MaxWidth,   \* bound of the model: dependencies of one node
  MaxAdds     \* bound of the model: nodes added in all

ASSUME DagAssumption ==
  /\ IsFiniteSet(Ids)
  /\ Absent \notin Nat
  /\ Unchecked \in BOOLEAN
  /\ MaxWidth \in Nat
  /\ MaxAdds \in Nat

VARIABLES
  nodes,      \* the keys of the node map
  deps,       \* dependencies of each node, without duplicates
  dependents,
  roots, leaves,
  depth,      \* rebuild_depth
  critical,   \* critical_paths
  added,      \* time_counter
  repaired,   \* no unchecked addition since the last successful repair()
  pruned      \* a node has been removed since the last successful repair()

edges   == <<nodes, deps, dependents, roots, leaves>>
derived == <<depth, critical>>
vars    == <<edges, derived, added, repaired, pruned>>

Deps(n) == ToSet(deps[n])
\* The dependencies a caller can list, in any order.
Lists(S) == UNION {{s \in [1 .. k -> S] : IsInjective(s)} : k \in 0 .. MaxWidth}
\* Iterator::max over a set of numbers, plus one; 0 when there are none.
MaxPlusOne(S) == IF S = {} THEN 0 ELSE Max(S) + 1

Init ==
  /\ nodes = {}
  /\ deps = [n \in Ids |-> <<>>]
  /\ dependents = [n \in Ids |-> {}]
  /\ roots = {} /\ leaves = {}
  /\ depth = [n \in Ids |-> 0]
  /\ critical = [n \in Ids |-> Absent]
  /\ added = 0 /\ repaired = TRUE /\ pruned = FALSE

-------------------------------------------------------------------------------
(* Adding *)

\* n applications of the loop body F to its state s.
Loop(F(_), s, n) ==
  LET run[k \in 0 .. n] == IF k = 0 THEN s ELSE F(run[k - 1])
  IN  run[n]

\* No loop below runs more often: an edge or a node enters a queue once.
Steps == Cardinality(Ids) * (Cardinality(Ids) + 1)

\* One round of the breadth-first update of the critical paths, upwards from
\* the dependencies ds of a new node, in the graph d (dependents).
Raise(s, d, present) ==
  IF s.queue = <<>> THEN s
  ELSE LET n    == Head(s.queue)
           rest == [s EXCEPT !.queue = Tail(@)]
           seen == [rest EXCEPT !.visited = @ \union {n}]
           new  == MaxPlusOne({s.crit[c] : c \in {x \in d[n] : s.crit[x] # Absent}})
           old  == IF s.crit[n] = Absent THEN 0 ELSE s.crit[n]
           more == Without(deps[n], seen.visited)
       IN  CASE n \in s.visited -> rest
             [] n \notin s.visited /\ n \notin present -> seen
             [] n \notin s.visited /\ n \in present /\ new > old ->
                  [seen EXCEPT !.crit[n] = new, !.queue = @ \o more]
             [] OTHER -> [seen EXCEPT !.crit[n] = old]

Propagated(ds, d, crit) ==
  Loop(LAMBDA s : Raise(s, d, nodes'), [queue |-> ds, visited |-> {}, crit |-> crit], Steps).crit

\* Mutant of DepthBelow: the first dependency alone counts.
DepthBelowFirst(ds) == IF ds = <<>> THEN 0 ELSE depth[ds[1]] + 1
DepthBelow(ds) == MaxPlusOne({depth[p] : p \in ToSet(ds) \intersect nodes})

\* Mutant of LeavesWith: the dependencies stay leaves.
LeavesWithParents(id, ds) == leaves \union {id}
LeavesWith(id, ds) == (leaves \ ToSet(ds)) \union {id}

\* What add_node_impl does once its checks have passed.
Insert(id, ds) ==
  /\ nodes' = nodes \union {id}
  /\ deps' = [deps EXCEPT ![id] = ds]
  /\ dependents' = [n \in Ids |-> IF n \in ToSet(ds) \intersect nodes
                                  THEN dependents[n] \union {id} ELSE dependents[n]]
  /\ roots' = IF ds = <<>> THEN roots \union {id} ELSE roots
  /\ leaves' = LeavesWith(id, ds)
  /\ depth' = [depth EXCEPT ![id] = DepthBelow(ds)]
  /\ critical' = Propagated(ds, dependents', [critical EXCEPT ![id] = 0])
  /\ added' = added + 1

\* add_node: SelfDependency, NodeExists and MissingDependency change nothing.
AddNode(id, ds) ==
  /\ added < MaxAdds
  /\ id \notin nodes
  /\ ToSet(ds) \subseteq nodes
  /\ Insert(id, ds)
  /\ UNCHANGED <<repaired, pruned>>

AddNodeUnchecked(id, ds) ==
  /\ Unchecked /\ added < MaxAdds
  /\ id \notin nodes
  /\ id \notin ToSet(ds)
  /\ Insert(id, ds)
  /\ repaired' = FALSE
  /\ UNCHANGED pruned

-------------------------------------------------------------------------------
(* Removing *)

LeavesWithout(id) ==
  (leaves \union {p \in Deps(id) \intersect nodes : dependents[p] \subseteq {id}}) \ {id}

\* remove_node: both ends of every edge; depths and critical paths stay.
RemoveNode(id) ==
  /\ id \in nodes
  /\ nodes' = nodes \ {id}
  /\ deps' = [n \in Ids |-> IF n = id THEN <<>>
                            ELSE IF n \in dependents[id] THEN Without(deps[n], {id})
                            ELSE deps[n]]
  /\ dependents' = [n \in Ids |-> IF n = id THEN {}
                                  ELSE IF n \in Deps(id) THEN dependents[n] \ {id}
                                  ELSE dependents[n]]
  /\ roots' = (roots \union {c \in dependents[id] : Deps(c) \subseteq {id}}) \ {id}
  /\ leaves' = LeavesWithout(id)
  /\ depth' = [depth EXCEPT ![id] = 0]
  /\ critical' = [critical EXCEPT ![id] = Absent]
  /\ pruned' = TRUE
  /\ UNCHANGED <<added, repaired>>

-------------------------------------------------------------------------------
(* Repairing *)

\* The nodes n depends on, directly or not, as far as the graph knows them.
Above(n) ==
  LET up[k \in 0 .. Cardinality(Ids)] ==
        IF k = 0 THEN Deps(n) ELSE up[k - 1] \union UNION {Deps(p) : p \in up[k - 1] \intersect nodes}
  IN  up[Cardinality(Ids)]

\* validate_acyclic: the depth-first search meets a node on its own path.
Acyclic == \A n \in nodes : n \notin Above(n)

\* Kahn's algorithm, in waves, downwards from the roots: a node whose dependencies
\* are all done gets its depth.
\* Mutant of Settle: one dependency that is done is enough.
SettleEarly(s) ==
  LET ready == {n \in nodes \ s.done : deps[n] = <<>> \/ Deps(n) \intersect s.done # {}}
  IN  [done  |-> s.done \union ready,
       depth |-> [n \in Ids |-> IF n \in ready
                    THEN MaxPlusOne({s.depth[p] : p \in Deps(n) \intersect nodes})
                    ELSE s.depth[n]]]
Settle(s) ==
  LET ready == {n \in nodes \ s.done : Deps(n) \intersect nodes \subseteq s.done}
  IN  [done  |-> s.done \union ready,
       depth |-> [n \in Ids |-> IF n \in ready
                    THEN MaxPlusOne({s.depth[p] : p \in Deps(n) \intersect nodes})
                    ELSE s.depth[n]]]
RebuildDepths ==
  Loop(Settle, [done |-> {}, depth |-> [n \in Ids |-> 0]], Cardinality(Ids)).depth

\* The same upwards from the leaves, in the graph d: a node whose dependents are
\* all done raises its dependencies, unknown ones included.
Lift(s, d) ==
  LET ready == {n \in nodes \ s.done : d[n] \subseteq s.done}
      from(p) == {s.crit[n] : n \in {x \in ready : p \in Deps(x)}}
      grown(p) == LET new == MaxPlusOne(from(p))
                  IN  IF s.crit[p] # Absent /\ s.crit[p] > new THEN s.crit[p] ELSE new
  IN  [done |-> s.done \union ready,
       crit |-> [p \in Ids |-> IF from(p) = {} THEN s.crit[p] ELSE grown(p)]]
CriticalPaths(d) ==
  Loop(LAMBDA s : Lift(s, d),
       [done |-> {}, crit |-> [n \in Ids |-> IF n \in nodes /\ d[n] = {} THEN 0 ELSE Absent]],
       Cardinality(Ids)).crit

\* A cycle is reported after the links have been rebuilt and before the rest.
Repair ==
  /\ Unchecked
  /\ dependents' = [p \in Ids |-> IF p \in nodes THEN {c \in nodes : p \in Deps(c)} ELSE {}]
  /\ roots' = {n \in nodes : deps[n] = <<>>}
  /\ leaves' = {n \in nodes : dependents'[n] = {}}
  /\ IF Acyclic
       THEN /\ depth' = RebuildDepths
            /\ critical' = CriticalPaths(dependents')
            /\ repaired' = \A n \in nodes : Deps(n) \subseteq nodes
            /\ pruned' = FALSE
       ELSE UNCHANGED <<derived, repaired, pruned>>
  /\ UNCHANGED <<nodes, deps, added>>

Next ==
  \/ \E id \in Ids : \E ds \in Lists(Ids) : AddNode(id, ds) \/ AddNodeUnchecked(id, ds)
  \/ \E id \in Ids : RemoveNode(id)
  \/ Repair

Spec == Init /\ [][Next]_vars

-------------------------------------------------------------------------------
(* Reading *)

\* Mutant of Required: only the direct dependencies.
RequiredDirectly(target, available) == ({target} \union Deps(target)) \ available
\* rebuild_order: what has to be rebuilt for the target; sorted by depth.
Required(target, available) ==
  LET need[k \in 0 .. Cardinality(Ids)] ==
        IF k = 0 THEN {target} \ available
        ELSE need[k - 1] \union
             ((UNION {Deps(n) : n \in need[k - 1] \intersect nodes}) \ available)
  IN  need[Cardinality(Ids)]

-------------------------------------------------------------------------------
(* Properties *)

TypeOK ==
  /\ nodes \in SUBSET Ids
  /\ deps \in [Ids -> Lists(Ids)]
  /\ dependents \in [Ids -> SUBSET Ids]
  /\ roots \in SUBSET nodes
  /\ leaves \in SUBSET nodes
  /\ depth \in [Ids -> Nat]
  /\ critical \in [Ids -> Nat \union {Absent}]
  /\ added \in 0 .. MaxAdds
  /\ repaired \in BOOLEAN
  /\ pruned \in BOOLEAN

\* The links kept step by step by add_node and remove_node, or rebuilt by
\* repair(), are those the dependencies define ("cleaning up all back-edges").
LinksAgree ==
  repaired =>
    /\ \A n \in nodes : dependents[n] = {c \in nodes : n \in Deps(c)}
    /\ roots = {n \in nodes : deps[n] = <<>>}
    /\ leaves = {n \in nodes : \A c \in nodes : n \notin Deps(c)}

GraphAgrees == TypeOK /\ LinksAgree

\* rebuild_order sorts by depth alone.  Whatever has been removed and whatever is
\* available, each dependency of a node it lists is available or comes strictly
\* before the node: "correct dependency order".
RebuildOrderIsComplete ==
  repaired =>
    \A available \in SUBSET nodes : \A target \in nodes :
      LET need == Required(target, available)
      IN  \A n \in need : \A p \in Deps(n) \ available :
            p \in need /\ depth[p] < depth[n]

\* The paths of the graph, each from a node down to one that depends on it.
Paths ==
  LET long[k \in 1 .. Cardinality(Ids)] ==
        IF k = 1 THEN {<<n>> : n \in nodes}
        ELSE UNION {{<<p>> \o s : p \in Deps(Head(s)) \intersect nodes} : s \in long[k - 1]}
  IN  UNION {long[k] : k \in 1 .. Cardinality(Ids)}
LongestTo(n)   == MaxPlusOne({Len(s) : s \in {p \in Paths : p[Len(p)] = n}}) - 2
LongestFrom(n) == MaxPlusOne({Len(s) : s \in {p \in Paths : Head(p) = n}}) - 2

\* rebuild_depth is the "longest path to any root (0 = root node)" until a
\* removal shortens a path.
DepthIsLongest ==
  repaired /\ ~pruned => \A n \in nodes : depth[n] = LongestTo(n)

\* The incremental critical paths never overestimate, and a leaf is at 0.
CriticalIsBounded ==
  repaired /\ ~pruned =>
    \A n \in nodes : critical[n] # Absent /\ critical[n] <= LongestFrom(n)

\* The two measures kept step by step are exact, or at least never too high.
PathsAgree == DepthIsLongest /\ CriticalIsBounded

\* "Each node's critical path = max(dependents' critical paths) + 1", the
\* "longest path to any leaf" (critical_paths).
CriticalIsLongest ==
  repaired /\ ~pruned => \A n \in nodes : critical[n] = LongestFrom(n)

\* "Call repair() after all additions": it leaves depths and critical paths exact
\* whatever order the nodes came in and whatever has been removed.
RepairIsExact ==
  [][Repair /\ repaired' =>
       \A n \in nodes : depth'[n] = LongestTo(n) /\ critical'[n] = LongestFrom(n)]_vars
===============================================================================
