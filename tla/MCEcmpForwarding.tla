-------------------------- MODULE MCEcmpForwarding --------------------------
(* Every undirected graph on n nodes, connected or not. *)
EXTENDS EcmpForwarding

AllTopologies == SUBSET {e \in (0 .. n - 1) \X (0 .. n - 1) : e[1] < e[2]}
=============================================================================
