----------------------------- MODULE GraphStore -----------------------------
(***************************************************************************)
(* What create_graph and free_graph promise the client: a call that        *)
(* returns adds one finished graph, made of its arguments alone, under an  *)
(* address that no other graph has; a call that raises adds none; a graph  *)
(* then stays as it is until the client frees it.                          *)
(***************************************************************************)
CONSTANTS
  Inputs,     (* what the client may call create_graph with                *)
  Made(_),    (* the graph that an input stands for                        *)
  Addresses,  (* of graphs                                                 *)
  None        (* not an input                                              *)

VARIABLES
  store,      (* the graphs handed out and not freed, by address           *)
  building    (* the input of the running call of create_graph, or None    *)

vars == <<store, building>>

Init == store = [g \in {} |-> None] /\ building = None

Call == building = None /\ building' \in Inputs /\ UNCHANGED store

Return ==
  /\ building # None /\ building' = None
  /\ \E g \in Addresses \ DOMAIN store :
       store' = [h \in DOMAIN store \cup {g} |->
                   IF h = g THEN Made(building) ELSE store[h]]

Raise == building # None /\ building' = None /\ UNCHANGED store

Free ==
  /\ building = None /\ UNCHANGED building
  /\ \E g \in DOMAIN store : store' = [h \in DOMAIN store \ {g} |-> store[h]]

Next == Call \/ Return \/ Raise \/ Free

Spec == Init /\ [][Next]_vars
=============================================================================
