--------------------------- MODULE MCGraphBuilder ---------------------------
(* Bounds the heap: a graph of MaxNodes nodes, one of which has an id      *)
(* above INT_MAX, is there alone, smaller ones in all combinations.        *)
EXTENDS GraphBuilder

MCSmall(g) == MaxNodes - 1 \notin DOMAIN graph_nodes[g]

MCNext ==
  \/ Idle /\ live = {} /\ Creates(MaxNodes)
  \/ Idle /\ (\A g \in live : MCSmall(g)) /\ \E m \in 0..MaxNodes-1 : Creates(m)
  \/ Works

MCSpec == Init /\ [][MCNext]_vars
=============================================================================
