----------------------------- MODULE Simulators -----------------------------
(***************************************************************************)
(* The simulators of a run, one in each process: each has a clock of its   *)
(* own, and processes its own events in the order of their times.  main    *)
(* constructs the components in one order and writes their results in      *)
(* another.  A process that dies does not hold up the others here.         *)
(***************************************************************************)
EXTENDS TopologyPtop

CONSTANT EndTime    \* the configured end of the simulation, at most the bound
                    \* on the times the configurations name

ASSUME EndAssumption == EndTime \in Nat \ {0}

VARIABLES
  now,      \* now[s] is Simulator::Now() of system s
  stage     \* stage[s]: what main does next in system s, "over", or how it
            \* died: "refused" a configuration, "aborted" in an event,
            \* "threw" while writing

simVars == <<now, stage>>

Systems == SystemsOf(input.distributed)

\* The processes of the largest run considered; those not in Systems are idle.
Processes == 0 .. MpiSize - 1

SimInit ==
  /\ now = [s \in Processes |-> 0]
  /\ stage = [s \in Processes |-> "track_net_device"]

MainContinues(s, to) == stage' = [stage EXCEPT ![s] = to]

\* Time passes when no event is due any more; at the end nothing is left to
\* do, and the program writes the results.
TimePasses(s, due) ==
  /\ stage[s] = "running"
  /\ ~due
  /\ \/ /\ now[s] < EndTime
        /\ now' = [now EXCEPT ![s] = @ + 1]
        /\ UNCHANGED stage
     \/ /\ now[s] = EndTime
        /\ MainContinues(s, "write_flows")
        /\ UNCHANGED now
=============================================================================
