------------------------------ MODULE LexOrder ------------------------------
(* The order in which both coroutines hand out their tuples: the tuples    *)
(* are functions on 0..m-1, and position 0 counts most.                    *)
EXTENDS Integers

Lex(f, g) ==
  \E i \in DOMAIN f : f[i] < g[i] /\ \A j \in 0..i-1 : f[j] = g[j]
=============================================================================
