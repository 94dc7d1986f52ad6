----------------------------- MODULE NetworkSetup -----------------------------
(***************************************************************************)
(* What the TinyCoin program draws before it builds its nodes: the random  *)
(* graph (include/graph_gen.hpp), the miners                               *)
(* (examples/tinycoin/miner_chooser.hpp) and their powers                  *)
(* (examples/tinycoin/hashpower.hpp).  One action per round of a loop.     *)
(***************************************************************************)
EXTENDS Rng

CONSTANT Configs
  \* The configurations: records of kind, size, connectivity, honest, selfish, algo,
  \* percent (selfish_power_percent), blocks (block_num), and two bounds: txs (rounds
  \* of the loop without a block) and powers (what get_one may return).

ASSUME SetupAssumption == \A c \in Configs : c.size \in Nat \ {0} /\ c.powers \subseteq Nat \ {0}

VARIABLES
  cfg, phase,
  edges,                                \* edge_list_t
  honest, selfish,                      \* the sets choose_miners returns
  honest_weights, selfish_weights,      \* multisets: how often each power is in them
  honest_total, selfish_total,
  fault                                 \* how the program ended, if it did not reach its end

miners    == <<honest, selfish>>
weights   == <<honest_weights, selfish_weights, honest_total, selfish_total>>
setupVars == <<cfg, phase, edges, miners, weights, fault>>

Size == cfg.size
Nodes == 0 .. Size - 1
Powers == cfg.powers
NoPowers == [p \in Powers |-> 0]

SetupInit ==
  /\ cfg \in Configs /\ phase = "graph"
  /\ edges = IF cfg.kind = "barabasi" THEN <<<<1, 0>>>> ELSE <<>>
  /\ honest = {} /\ selfish = {}
  /\ honest_weights = NoPowers /\ selfish_weights = NoPowers
  /\ honest_total = 0 /\ selfish_total = 0
  /\ fault = "none"

At(p) == fault = "none" /\ phase = p
------------------------------------------------------------------------------
(* gen_conn_erdos and gen_barabasi_albert. *)

TreeEdges == IF Size > 1 THEN Size - 1 ELSE 0

\* Mutant: a node may be joined to itself.
ErdosTreeToItself ==
  /\ At("graph") /\ cfg.kind = "erdos"
  /\ Len(edges) < TreeEdges
  /\ \E r \in Draw(0, Len(edges) + 2) : edges' = Append(edges, <<Len(edges) + 1, r>>)
  /\ UNCHANGED <<cfg, phase, miners, weights, fault>>

\* Node i = Len(edges) + 1 is joined to an earlier one.
ErdosTree ==
  /\ At("graph") /\ cfg.kind = "erdos"
  /\ Len(edges) < TreeEdges
  /\ \E r \in Draw(0, Len(edges) + 1) : edges' = Append(edges, <<Len(edges) + 1, r>>)
  /\ UNCHANGED <<cfg, phase, miners, weights, fault>>

\* The pair <<a, b>> with b < a has the index a(a - 1)/2 + b.
EdgeIndex(e) == (e[1] * (e[1] - 1)) \div 2 + e[2]

\* round(sqrt(x)).
RoundedRoot(x) == CHOOSE f \in 0 .. x + 1 : (2 * f - 1) * (2 * f - 1) <= 4 * x
                                             /\ 4 * x < (2 * f + 1) * (2 * f + 1)

EdgeOfIndex(k) ==
  LET first == RoundedRoot(2 * (k + 1)) IN <<first, k - (first * (first - 1)) \div 2>>

\* The tree is complete: the other edges.
ErdosMore ==
  /\ At("graph") /\ cfg.kind = "erdos"
  /\ Len(edges) = TreeEdges
  /\ LET more == IF cfg.connectivity < TreeEdges THEN 0 ELSE cfg.connectivity - TreeEdges
         excluded == Sorted({EdgeIndex(edges[i]) : i \in DOMAIN edges}, <)
     IN  \E to_add \in get_distinct(more, 0, (Size * (Size - 1)) \div 2, excluded) :
           edges' = edges \o [i \in DOMAIN to_add |-> EdgeOfIndex(to_add[i])]
  /\ phase' = "miners"
  /\ UNCHANGED <<cfg, miners, weights, fault>>

\* Node i, the first without an edge, is joined to the ends of some edges.
BarabasiNode ==
  /\ At("graph") /\ cfg.kind = "barabasi"
  /\ LET i == edges[Len(edges)][1] + 1
     IN  /\ i < Size
         /\ \E idx \in get_distinct(cfg.connectivity, 0, Len(edges), <<>>) :
              LET ends == UNION {{edges[k + 1][1], edges[k + 1][2]} : k \in ToSet(idx)}
                  neighs == Sorted(ends, <)
              IN  edges' = edges \o [j \in DOMAIN neighs |-> <<i, neighs[j]>>]
  /\ UNCHANGED <<cfg, phase, miners, weights, fault>>

BarabasiEnd ==
  /\ At("graph") /\ cfg.kind = "barabasi"
  /\ edges[Len(edges)][1] + 1 >= Size
  /\ phase' = "miners"
  /\ UNCHANGED <<cfg, edges, miners, weights, fault>>

\* main returns, or choose_miners exits.
Unknown ==
  /\ \/ At("graph") /\ cfg.kind \notin {"erdos", "barabasi"}
     \/ At("miners") /\ cfg.algo \notin {"random", "highdegree"}
  /\ phase' = "end"
  /\ UNCHANGED <<cfg, edges, miners, weights, fault>>
------------------------------------------------------------------------------
(* choose_miners and get_hashpower. *)

degree(n) == Cardinality({i \in DOMAIN edges : edges[i][1] = n})
           + Cardinality({i \in DOMAIN edges : edges[i][2] = n})

\* The nodes by degree, then id, from high to low.
ByDegree ==
  Sorted(Nodes, LAMBDA a, b : degree(a) > degree(b) \/ (degree(a) = degree(b) /\ a > b))

SelfishChoices ==
  CASE cfg.algo = "random"     -> get_distinct(cfg.selfish, 0, Size, <<>>)
    [] cfg.algo = "highdegree" -> {SubSeq(ByDegree, 1, cfg.selfish)}

\* Mutant: the selfish miners are not excluded.
choose_minersOverlapping ==
  /\ At("miners") /\ cfg.algo \in {"random", "highdegree"}
  /\ \E s \in SelfishChoices, h \in get_distinct(cfg.honest, 0, Size, <<>>) :
       selfish' = ToSet(s) /\ honest' = ToSet(h)
  /\ phase' = "powers"
  /\ UNCHANGED <<cfg, edges, weights, fault>>

\* In the list by degree the excluded nodes are not sorted.
choose_miners ==
  /\ At("miners") /\ cfg.algo \in {"random", "highdegree"}
  /\ \E s \in SelfishChoices : \E h \in get_distinct(cfg.honest, 0, Size, s) :
       selfish' = ToSet(s) /\ honest' = ToSet(h)
  /\ phase' = "powers"
  /\ UNCHANGED <<cfg, edges, weights, fault>>

BagSize(bag) == MapThenSumSet(LAMBDA p : bag[p], Powers)
BagTotal(bag) == MapThenSumSet(LAMBDA p : p * bag[p], Powers)
Support(bag) == {p \in Powers : bag[p] > 0}

DrawSelfish ==
  /\ At("powers") /\ BagSize(selfish_weights) < cfg.selfish
  /\ \E r \in Powers : /\ selfish_weights' = [selfish_weights EXCEPT ![r] = @ + 1]
                       /\ selfish_total' = selfish_total + r
  /\ UNCHANGED <<cfg, phase, edges, miners, honest_weights, honest_total, fault>>

DrawHonest ==
  /\ At("powers") /\ BagSize(selfish_weights) = cfg.selfish
  /\ BagSize(honest_weights) < cfg.honest
  /\ \E r \in Powers : /\ honest_weights' = [honest_weights EXCEPT ![r] = @ + 1]
                       /\ honest_total' = honest_total + r
  /\ phase' = IF BagSize(honest_weights) + 1 = cfg.honest THEN "adjust" ELSE "powers"
  /\ UNCHANGED <<cfg, edges, miners, selfish_weights, selfish_total, fault>>

NoHonest ==
  /\ At("powers") /\ BagSize(selfish_weights) = cfg.selfish
  /\ cfg.honest = 0
  /\ phase' = "adjust"
  /\ UNCHANGED <<cfg, edges, miners, weights, fault>>

\* A share without selfish miners: the program throws.
InvalidPercent == cfg.percent # 0 /\ cfg.selfish = 0

ThrowPercent ==
  /\ At("adjust") /\ InvalidPercent
  /\ fault' = "percent"
  /\ UNCHANGED <<cfg, phase, edges, miners, weights>>

\* The share of the selfish miners is more than one percent below, or above, what is asked.
TooLow == 100 * selfish_total < (selfish_total + honest_total) * (cfg.percent - 1)
TooHigh == 100 * selfish_total > (selfish_total + honest_total) * (cfg.percent + 1)

Adjusting == At("adjust") /\ ~InvalidPercent /\ (TooLow \/ TooHigh)

\* The smallest or the largest power of the selfish miners is drawn again.
AdjustSelfish ==
  /\ Adjusting /\ Support(selfish_weights) # {}
  /\ LET out == IF TooLow THEN Min(Support(selfish_weights)) ELSE Max(Support(selfish_weights))
     IN  \E r \in Powers :
           /\ selfish_weights' = [[selfish_weights EXCEPT ![out] = @ - 1] EXCEPT ![r] = @ + 1]
           /\ selfish_total' = selfish_total - out + r
  /\ UNCHANGED <<cfg, phase, edges, miners, honest_weights, honest_total, fault>>

\* Or the largest or the smallest power of the honest ones.
AdjustHonest ==
  /\ Adjusting /\ Support(honest_weights) # {}
  /\ LET out == IF TooLow THEN Max(Support(honest_weights)) ELSE Min(Support(honest_weights))
     IN  \E r \in Powers :
           /\ honest_weights' = [[honest_weights EXCEPT ![out] = @ - 1] EXCEPT ![r] = @ + 1]
           /\ honest_total' = honest_total - out + r
  /\ UNCHANGED <<cfg, phase, edges, miners, selfish_weights, selfish_total, fault>>

\* begin() or rbegin() of an empty multiset.
AdjustNothing ==
  /\ Adjusting
  /\ Support(honest_weights) = {} \/ Support(selfish_weights) = {}
  /\ fault' = "no weights"
  /\ UNCHANGED <<cfg, phase, edges, miners, weights>>

Adjusted ==
  /\ At("adjust") /\ ~InvalidPercent /\ ~TooLow /\ ~TooHigh
  /\ phase' = "nodes"
  /\ UNCHANGED <<cfg, edges, miners, weights, fault>>
------------------------------------------------------------------------------
(* Next. *)

SetupNext ==
  \/ ErdosTree \/ ErdosMore \/ BarabasiNode \/ BarabasiEnd \/ Unknown \/ choose_miners
  \/ DrawSelfish \/ DrawHonest \/ NoHonest \/ ThrowPercent
  \/ AdjustSelfish \/ AdjustHonest \/ AdjustNothing \/ Adjusted
------------------------------------------------------------------------------
(* Properties. *)

Pairs == {{edges[i][1], edges[i][2]} : i \in DOMAIN edges}

\* The nodes reachable from node 0 over the edges.
Reached ==
  LET reach[k \in 0 .. Size] ==
        IF k = 0 THEN {0}
        ELSE reach[k - 1] \cup {n \in Nodes : \E m \in reach[k - 1] : {m, n} \in Pairs}
  IN  reach[Size]

\* "Generates a new random connected graph": of whatever the generators draw, the
\* graph joins every node to node 0 and no node to itself, only the one-node graph of
\* gen_barabasi_albert names a node that does not exist, and gen_conn_erdos draws every
\* edge once unless the graph is complete.
GraphConnected ==
  phase = "miners" /\ cfg.kind \in {"erdos", "barabasi"} =>
    /\ Reached = Nodes
    /\ \A p \in Pairs : Cardinality(p) = 2
    /\ Size > 1 => UNION Pairs \subseteq Nodes
    /\ cfg.kind = "erdos" /\ Cardinality(Pairs) < (Size * (Size - 1)) \div 2 =>
         Cardinality(Pairs) = Len(edges)

==============================================================================
