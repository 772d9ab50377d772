---------------------------- MODULE Distribution ----------------------------
(***************************************************************************)
(* A simulation over several systems, each an MPI process that runs the    *)
(* same program on the same run folder: BasicSimulation::                  *)
(* ConfigureSimulation, and the assignment of nodes to systems that every  *)
(* component asks about to find out what of the configuration is its own.  *)
(***************************************************************************)
EXTENDS ExpUtil

CONSTANT MpiSize    \* number of processes, MpiInterface::GetSize()

ASSUME MpiAssumption == MpiSize \in Nat \ {0}

\* The assignment when distributed runs are not enabled: it is cleared.
NotDistributed == <<>>

\* The system of each node, from node 0 on.  d has the values of the
\* configuration keys; only one that is not distributed has no assignment.
ConfigureSimulation(d) ==
  LET assignment == parse_list_positive_int64(d.assignment)
  IN IF ~d.enabled THEN NotDistributed
     ELSE IF /\ d.implementation \in {"nullmsg", "default"}
             /\ parse_positive_int64(d.systems) = MpiSize
             /\ assignment # Error
             /\ all_items_are_less_than(Elements(assignment), MpiSize)
     THEN assignment ELSE Error

\* The processes there are; the only one, without MPI, has number 0.
SystemsOf(d) == IF d.enabled THEN 0 .. MpiSize - 1 ELSE {0}

\* Fault: node 0 has none.
HasSystemAfter(assignment, node) == node \in DOMAIN assignment

\* The node has an entry in the assignment; asking for another throws.
HasSystem(assignment, node) == node + 1 \in DOMAIN assignment

IsNodeAssignedToThisSystem(assignment, system, node) ==
  assignment[node + 1] = system

\* What a constructor does "if not distributed, or if the node is assigned to
\* this system".
IsMine(assignment, system, node) ==
  assignment # NotDistributed => IsNodeAssignedToThisSystem(assignment, system, node)
=============================================================================
