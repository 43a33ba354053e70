------------------------------- MODULE Rebuild --------------------------------
(***************************************************************************)
(* pebble/src/manager/{rebuild,branch,branching}.rs on top of               *)
(* PebbleManager: rebuild() computes a checkpoint that has gone cold from   *)
(* its dependencies in a workspace, and afterwards promotes part of the     *)
(* workspace to the hot tier; branches give checkpoints a name and a line   *)
(* of descent, kept by add(), remove() and compact().                       *)
(*                                                                         *)
(* compute_from_dependencies belongs to the caller: a rebuild is a matter   *)
(* of which bases and dependencies it finds, and what it leaves behind in   *)
(* the tiers.  A manager is not stopped here: recovery starts without       *)
(* branches, and what it makes of the tiers is in PebbleManager.            *)
(***************************************************************************)
EXTENDS PebbleManager

CONSTANTS
  Names   \* names for branches

VARIABLES
  depth,      \* rebuild_depth of each node
  branching,  \* whether enable_branching() has been called
  branches,   \* by branch id, HEAD being 1: [name, parent, fork_point, head]
  branchOf,   \* checkpoint_to_branch; 0 for none
  active      \* the active branch

lines == <<branching, branches, branchOf, active>>
rvars == <<vars, depth, lines>>

HEAD == 1
Nobody == "no checkpoint"
\* Only writes to the cold tier do not fail in this module: what one leaves behind is
\* PebbleManager's subject, for checkpoints that are in one tier; here some are in two.
ASSUME RebuildAssumption == Nobody \notin Ids /\ MaxFailures = 0

RInit ==
  /\ Init
  /\ depth = [id \in Ids |-> 0]
  /\ branching = FALSE
  /\ branches = <<>>
  /\ branchOf = [id \in Ids |-> 0]
  /\ active = HEAD

-------------------------------------------------------------------------------
(* Rebuilding *)

\* rebuild_order, as a set: all that the target needs and the hot tier lacks.
Needed(target) ==
  LET need[k \in 0 .. Cardinality(Ids)] ==
        IF k = 0 THEN {target} \ red
        ELSE need[k - 1] \union ((UNION {deps[n] : n \in need[k - 1] \intersect Nodes}) \ red)
  IN  need[Cardinality(Ids)]

\* The first of S by depth; ties, in the code the order of a hash set, go by age.
Age(id) == IF id \in Nodes THEN CHOOSE i \in DOMAIN order : order[i] = id ELSE 0
Shallowest(S) ==
  CHOOSE n \in S :
    \A m \in S : depth[n] < depth[m] \/ (depth[n] = depth[m] /\ Age(n) <= Age(m))

Width(S) == {Cardinality(deps[n]) : n \in S \intersect Nodes}
FitsHot(target) == \A w \in Width(Needed(target)) : w <= capacity

\* collect_mixed_refs: of the dependencies of n those in the cold tier alone are
\* loaded into the hot one.
Has(w)       == w.space \union w.hot \union Elements(warm)
ToLoad(w, n) == (deps[n] \ Has(w)) \intersect w.cold
Moved(w, M)  == [w EXCEPT !.hot = @ \union M, !.cold = @ \ M]
Failed(w)    == [w EXCEPT !.ok = FALSE]

\* Mutant of Computed: the warm tier is not asked for a base.
ComputedFromCold(w, n) ==
  IF ~w.ok THEN w
  ELSE IF ~(n \in w.cold /\ InStore(n)) THEN Failed(w)
  ELSE IF ~(deps[n] \subseteq Has(w) \union ToLoad(w, n)) THEN Failed(Moved(w, ToLoad(w, n)))
  ELSE [Moved(w, ToLoad(w, n)) EXCEPT !.space = @ \union {n}]

\* One node of the plan: a base from warm or cold, then its dependencies; one that
\* cannot be loaded, or is nowhere, ends the rebuild.
Computed(w, n) ==
  IF ~w.ok THEN w
  ELSE IF \/ n \notin Elements(warm) /\ ~(n \in w.cold /\ InStore(n))
          \/ \E d \in ToLoad(w, n) : ~InStore(d) THEN Failed(w)
  ELSE IF ~(deps[n] \subseteq Has(w) \union ToLoad(w, n)) THEN Failed(Moved(w, ToLoad(w, n)))
  ELSE [Moved(w, ToLoad(w, n)) EXCEPT !.space = @ \union {n}]

\* The plan is worked off by depth.
Advanced(w) ==
  IF w.todo = {} THEN w
  ELSE LET n == Shallowest(w.todo)
       IN  [Computed(w, n) EXCEPT !.todo = @ \ {n}]
Rounds(target) ==
  LET run[k \in 0 .. Cardinality(Ids)] ==
        IF k = 0 THEN [todo |-> Needed(target), space |-> {}, hot |-> red, cold |-> blue, ok |-> TRUE]
        ELSE Advanced(run[k - 1])
  IN  run
Work(target) == Rounds(target)[Cardinality(Ids)]

\* A load from the cold tier, or compute_from_dependencies, may fail at any node of the
\* plan: the dependencies loaded before stay in the hot tier.
Underway(target) ==
  {w \in {Rounds(target)[k] : k \in 0 .. Cardinality(Ids)} : w.ok /\ w.todo # {}}
Interrupted(target) ==
  UNION {{Failed(Moved(w, M)) : M \in SUBSET {d \in ToLoad(w, Shallowest(w.todo)) : InStore(d)}}
           : w \in Underway(target)}

\* promote_from_workspace: the deepest of S, while budget and capacity last.
Budget(hot) ==
  LET room == capacity - Cardinality(hot)
  IN  IF room < 0 THEN 0 ELSE Least(capacity \div Divisor, room)
Promotions(S, hot) ==
  {P \in SUBSET S :
     /\ Cardinality(P) = Least(Budget(hot), Cardinality(S))
     /\ \A p \in P : \A q \in S \ P : depth[p] >= depth[q]}

\* What has been promoted leaves the cold tier, but not the warm one.
RebuildCold(id) ==
  /\ state = "open"
  /\ id \in blue \ InMemory
  /\ FitsHot(id)
  /\ \E w \in {Work(id)} \union Interrupted(id) :
       \E P \in (IF w.ok THEN Promotions(w.space \ {id}, w.hot) ELSE {{}}) :
         /\ red' = w.hot \union P
         /\ blue' = w.cold \ P
  /\ UNCHANGED <<state, capacity, dag, warm, dirty, tombstoned, store, manifest, gone, adds,
                 counters, depth, lines>>

\* A warm target moves to hot first and stays there, whatever comes of the rebuild;
\* a hot one changes nothing.
RebuildWarm(id) ==
  /\ state = "open"
  /\ id \in Elements(warm)
  /\ \/ \E s \in Evictions : EvictAll(red, blue, Without(warm, {id}), s, {id}, {})
     \/ EvictionFails(Without(warm, {id}))
  /\ UNCHANGED <<state, capacity, dag, gone, adds, stops, depth, lines>>

-------------------------------------------------------------------------------
(* Branches *)

EnableBranching ==
  /\ state = "open"
  /\ ~branching
  /\ branching' = TRUE
  /\ branches' = <<[name |-> "head", parent |-> 0, fork_point |-> Nobody,
                    head |-> IF order = <<>> THEN Nobody ELSE order[Len(order)]]>>
  /\ branchOf' = [id \in Ids |-> IF id \in Nodes THEN HEAD ELSE 0]
  /\ active' = HEAD
  /\ UNCHANGED <<vars, depth>>

\* A checkpoint that is not tracked counts as HEAD's; a name in use is refused.
Fork(id, name) ==
  /\ state = "open"
  /\ branching
  /\ id \in Held
  /\ \A b \in DOMAIN branches : branches[b].name # name
  /\ branches' = Append(branches,
       [name |-> name, parent |-> IF branchOf[id] = 0 THEN HEAD ELSE branchOf[id],
        fork_point |-> id, head |-> Nobody])
  /\ active' = Len(branches) + 1
  /\ UNCHANGED <<vars, depth, branching, branchOf>>

SwitchBranch(b) ==
  /\ state = "open"
  /\ branching
  /\ b \in DOMAIN branches \ {active}
  /\ active' = b
  /\ UNCHANGED <<vars, depth, branching, branches, branchOf>>

\* track_new_checkpoint
Track(id) ==
  /\ IF branching
       THEN /\ branchOf' = [branchOf EXCEPT ![id] = active]
            /\ branches' = [branches EXCEPT ![active].head = id]
       ELSE UNCHANGED <<branches, branchOf>>
  /\ UNCHANGED <<branching, active>>

\* Mutant of Untrack: what compact() cascades to stays tracked.
UntrackOne(S) ==
  /\ branchOf' = [id \in Ids |-> IF S = {id} THEN 0 ELSE branchOf[id]]
  /\ UNCHANGED <<branching, branches, active>>
\* remove_checkpoint; a branch's head and fork_point stay as they are.
Untrack(S) ==
  /\ branchOf' = [id \in Ids |-> IF id \in S THEN 0 ELSE branchOf[id]]
  /\ UNCHANGED <<branching, branches, active>>

-------------------------------------------------------------------------------
DepthBelow(ds) ==
  IF ds = {} THEN 0 ELSE 1 + (CHOOSE d \in {depth[p] : p \in ds} : \A p \in ds : depth[p] <= d)
Deepen(id, ds) == depth' = [depth EXCEPT ![id] = DepthBelow(ds)]

\* The manager's own operations, with the bookkeeping this module adds to them.
\* An add whose eviction fails leaves a node without a branch.
AddOnBranch(id, ds) ==
  /\ \/ Add(id, ds) /\ Track(id)
     \/ AddFails(id, ds) /\ UNCHANGED lines
  /\ Deepen(id, ds)
RemoveTracked(id) == Remove(id) /\ Untrack({id}) /\ UNCHANGED depth
CompactTracked == Compact /\ Untrack(Orphans) /\ UNCHANGED depth
Move ==
  /\ \/ InsertFails
     \/ \E id \in Ids : LoadWarm(id) \/ LoadWarmFails(id) \/ LoadCold(id)
     \/ Compress
     \/ (\E c \in Resizes \union {Optimal} : Resize(c)) \/ ResizeEvicts \/ ResizeFails
     \/ Flush
  /\ UNCHANGED <<depth, lines>>

RNext ==
  \/ \E id \in Ids : \E ds \in SUBSET Ids : AddOnBranch(id, ds)
  \/ \E id \in Ids : RemoveTracked(id)
  \/ CompactTracked
  \/ Move
  \/ \E id \in Ids : RebuildCold(id) \/ RebuildWarm(id)
  \/ EnableBranching
  \/ \E id \in Ids : \E name \in Names : Fork(id, name)
  \/ \E b \in DOMAIN branches : SwitchBranch(b)

RSpec == RInit /\ [][RNext]_rvars
-------------------------------------------------------------------------------
(* Properties *)

\* As long as nothing it needs has been lost, the rebuild of a cold checkpoint finds
\* every base and every dependency, and "may temporarily push red_pebbles.len()
\* above hot_capacity" never comes true: whatever evictions, loads, removals and
\* earlier rebuilds have made of the tiers, the plan leaves nothing to load on the way.
\* The hot tier exceeds what it was resized to only if there is nothing to evict from
\* it: what it holds has been removed and was brought back from warm.
RebuildWorks ==
  /\ HotFits \/ red \intersect Nodes = {}
  /\ \A id \in (blue \intersect Nodes) \ InMemory :
       Needed(id) \subseteq Held /\ FitsHot(id) => Work(id).ok /\ Work(id).hot = red

\* Branches stay true to the checkpoints: what is held has a branch and nothing that
\* was removed has one; a branch's head, while it lives, is its newest checkpoint; a
\* branch was forked from an older one, the one its fork point, while it lives, is on.
Known(b, id) == id \in Nodes /\ branchOf[id] = b
BranchesAgree ==
  branching =>
    /\ active \in DOMAIN branches
    /\ {id \in Ids : branchOf[id] # 0} \subseteq Nodes
    /\ \A id \in Held \intersect Nodes : branchOf[id] \in DOMAIN branches
    /\ \A b \in DOMAIN branches :
         LET info == branches[b]
         IN  /\ info.parent < b /\ (info.parent = 0 <=> b = HEAD)
             /\ info.head \in Nodes => \A id \in Held : Known(b, id) => Age(id) <= Age(info.head)
             /\ info.fork_point \in Nodes =>
                  Known(info.parent, info.fork_point) \/ branchOf[info.fork_point] = 0

\* remove(): "Hot and warm tier data is dropped immediately": nothing removed is held.
RemovedIsGone == gone \intersect Held = {}

\* rebuild() needs of a hot or warm checkpoint what it needs of a cold one.
HotRebuilds == \A id \in red : deps[id] \subseteq Held => deps[id] \subseteq red

\* "Most recent checkpoint added to this branch", "where this branch forked off": a
\* branch only names checkpoints that exist.
BranchesNameTheLiving ==
  \A b \in DOMAIN branches : {branches[b].head, branches[b].fork_point} \subseteq Nodes \union {Nobody}
===============================================================================
