---------------------------- MODULE RunLifecycle ----------------------------
(***************************************************************************)
(* A run folder over the runs made in it: main-full.cc calls the           *)
(* constructor of BasicSimulation, those of the components, Run, each      *)
(* WriteResults and Finalize.  A run may be killed, or throw, at any point *)
(* and the next one, with another configuration, finds the files it left.  *)
(*                                                                         *)
(* A result file of a component is known by the run that wrote it, and a   *)
(* log with a line per packet by the runs that have lines in it.  Runs are *)
(* numbered from 1.  One process, that is enable_distributed is not set.   *)
(***************************************************************************)
EXTENDS Naturals, Sequences, FiniteSets

CONSTANTS
  InstallOrder,    \* the components in the order main constructs them
  WriteOrder,      \* and in the order it calls WriteResults
  Needing,         \* components with a key they cannot do without
  PacketLogging,   \* components that log packets while the simulation runs
  MaxRuns          \* bound on the runs made in the folder

Component == {InstallOrder[i] : i \in DOMAIN InstallOrder}

ASSUME OrderAssumption ==
  /\ InstallOrder \in Seq(STRING) /\ WriteOrder \in Seq(STRING)
  /\ \A i, j \in DOMAIN InstallOrder : InstallOrder[i] = InstallOrder[j] => i = j
  /\ \A i, j \in DOMAIN WriteOrder : WriteOrder[i] = WriteOrder[j] => i = j
  /\ {WriteOrder[i] : i \in DOMAIN WriteOrder} = Component
  /\ Needing \subseteq Component /\ PacketLogging \subseteq Component

ASSUME RunsAssumption == MaxRuns \in Nat

VARIABLES
  \* the run folder
  finished,     \* finished.txt: "none", "No" or "Yes"
  timing,       \* timing_results.{txt, csv}
  results,      \* results[c]: the files WriteResults of c writes
  outgoing,     \* outgoing[c], incoming[c]: runs with lines in the log of
  incoming,     \*   packets sent, and of packets received
  \* the process
  pc,
  position,     \* which component is next
  m_config,     \* keys of the configuration as it was read
  m_configRequestedKeys,
  m_enabled,    \* components that found themselves enabled
  \* history
  run,          \* number of the latest run
  told          \* the run that wrote "Yes", and what it had enabled

folder == <<finished, timing, results, outgoing, incoming>>
process == <<pc, position, m_config, m_configRequestedKeys, m_enabled>>
rlVars == <<folder, process, run, told>>

Runs == 1 .. MaxRuns

\* simulation_end_time_ns and simulation_seed; enable_<component>=true; a key
\* the component cannot do without, such as the name of its schedule; one that
\* it can, which selects what to log.
BasicKey == <<"basic">>
EnableKey(c) == <<"enable", c>>
NeededKey(c) == <<"needed", c>>
LoggingKey(c) == <<"logging", c>>
Keys ==
  {BasicKey} \cup {EnableKey(c) : c \in Component}
             \cup {NeededKey(c) : c \in Needing}
             \cup {LoggingKey(c) : c \in PacketLogging}

\* Files that are not there, that are being written, and that are complete.
NoFile == [by |-> 0, whole |-> FALSE]
OpenedBy(r) == [by |-> r, whole |-> FALSE]
WrittenBy(r) == [by |-> r, whole |-> TRUE]
File == [by : 0 .. MaxRuns, whole : BOOLEAN]

RlInit ==
  /\ finished = "none" /\ timing = NoFile
  /\ results = [c \in Component |-> NoFile]
  /\ outgoing = [c \in Component |-> {}] /\ incoming = [c \in Component |-> {}]
  /\ pc = "idle" /\ position = 1
  /\ m_config = {} /\ m_configRequestedKeys = {} /\ m_enabled = {}
  /\ run = 0 /\ told = [by |-> 0, enabled |-> {}]

----------------------------------------------------------------------------
(* Each action below is what happens up to the next point at which it      *)
(* matters to the folder that the process may end.                         *)

Unchanged_Config == UNCHANGED <<m_config, m_configRequestedKeys, m_enabled>>

\* The process is gone, and with it everything but the folder.
EndProcess ==
  /\ pc' = "idle" /\ position' = 1
  /\ m_config' = {} /\ m_configRequestedKeys' = {} /\ m_enabled' = {}

\* An exception that nobody catches.
Die == EndProcess /\ UNCHANGED <<folder, run, told>>

\* ConfigureRunDirectory and read_config: whatever configuration the folder
\* has by now.
Start(config) ==
  /\ pc = "idle" /\ run < MaxRuns
  /\ run' = run + 1
  /\ m_config' = config
  /\ pc' = "ReadConfig"
  /\ UNCHANGED <<folder, position, m_configRequestedKeys, m_enabled, told>>

ReadConfig ==
  /\ pc = "ReadConfig"
  /\ IF BasicKey \in m_config
     THEN /\ m_configRequestedKeys' = {BasicKey}
          /\ pc' = "RemoveFinished"
          /\ UNCHANGED <<folder, position, m_config, m_enabled, run, told>>
     ELSE Die

\* Fault: the timing results go first, while finished.txt still says "Yes".
PrepareTimingFirst ==
  /\ \/ /\ pc = "RemoveFinished" /\ pc' = "RemoveTiming"
        /\ timing' = NoFile /\ UNCHANGED finished
     \/ /\ pc = "RemoveTiming" /\ pc' = "WriteFinishedNo"
        /\ finished' = "none" /\ UNCHANGED timing
  /\ UNCHANGED <<results, outgoing, incoming, position, run, told>>
  /\ Unchanged_Config

\* finished.txt goes first, then the timing results.
PrepareBasicSimulationLogFiles ==
  /\ \/ /\ pc = "RemoveFinished" /\ pc' = "RemoveTiming"
        /\ finished' = "none" /\ UNCHANGED timing
     \/ /\ pc = "RemoveTiming" /\ pc' = "WriteFinishedNo"
        /\ timing' = NoFile /\ UNCHANGED finished
  /\ UNCHANGED <<results, outgoing, incoming, position, run, told>>
  /\ Unchanged_Config

\* Opening the file empties it, which is not "Yes" either.
WriteFinishedNo ==
  /\ pc = "WriteFinishedNo"
  /\ finished' = "No"
  /\ pc' = "Install"
  /\ UNCHANGED <<timing, results, outgoing, incoming, position, run, told>>
  /\ Unchanged_Config

\* GetConfigParamOrDefault("enable_...", "false")
IsEnabled(c) == EnableKey(c) \in m_config

\* Fault: a constructor reads everything before asking whether it is needed.
RequestedByAlways(c) ==
  {EnableKey(c)}
    \cup (IF c \in Needing THEN {NeededKey(c)} ELSE {})
    \cup (IF c \in PacketLogging THEN {LoggingKey(c)} ELSE {})

\* The keys a constructor asks for: the rest only if it is enabled.
RequestedBy(c) ==
  IF ~ IsEnabled(c) THEN {EnableKey(c)}
  ELSE {EnableKey(c)}
         \cup (IF c \in Needing THEN {NeededKey(c)} ELSE {})
         \cup (IF c \in PacketLogging THEN {LoggingKey(c)} ELSE {})

\* RegisterIncomingBurst opens the log of a burst it is to log, and so empties
\* it; nothing is done to the log of the sender.
RegisterIncoming(c) ==
  IF LoggingKey(c) \in m_config THEN [incoming EXCEPT ![c] = {}] ELSE incoming

\* Fault: old files are left for WriteResults to overwrite.
RemoveOldResultsNot(c) == results

\* "Remove files if they are there"
RemoveOldResults(c) == [results EXCEPT ![c] = NoFile]

\* The constructor of a component.
Install ==
  /\ pc = "Install" /\ position \in DOMAIN InstallOrder
  /\ LET c == InstallOrder[position]
     IN  IF IsEnabled(c) /\ c \in Needing /\ NeededKey(c) \notin m_config
         THEN Die
         ELSE /\ m_configRequestedKeys' = m_configRequestedKeys \cup RequestedBy(c)
              /\ m_enabled' = IF IsEnabled(c) THEN m_enabled \cup {c} ELSE m_enabled
              /\ results' = IF IsEnabled(c) THEN RemoveOldResults(c) ELSE results
              /\ incoming' = IF IsEnabled(c) THEN RegisterIncoming(c) ELSE incoming
              /\ position' = position + 1
              /\ UNCHANGED <<finished, timing, outgoing, pc, m_config, run, told>>

\* ConfirmAllConfigParamKeysRequested, and the beginning of Run.
Run ==
  /\ pc = "Install" /\ position \notin DOMAIN InstallOrder
  /\ IF m_config \subseteq m_configRequestedKeys
     THEN /\ pc' = "Simulator"
          /\ UNCHANGED <<folder, position, run, told>> /\ Unchanged_Config
     ELSE Die

Logs(c) == c \in m_enabled \cap PacketLogging /\ LoggingKey(c) \in m_config

\* During the simulation: UdpBurstClient::Send, UdpBurstServer::HandleRead.
Sent(c) ==
  /\ pc = "Simulator" /\ Logs(c)
  /\ outgoing' = [outgoing EXCEPT ![c] = @ \cup {run}]
  /\ UNCHANGED <<finished, timing, results, incoming, process, run, told>>

Received(c) ==
  /\ pc = "Simulator" /\ Logs(c) /\ run \in outgoing[c]
  /\ incoming' = [incoming EXCEPT ![c] = @ \cup {run}]
  /\ UNCHANGED <<finished, timing, results, outgoing, process, run, told>>

SimulationEnds ==
  /\ pc = "Simulator"
  /\ pc' = "WriteResults" /\ position' = 1
  /\ UNCHANGED <<folder, run, told>> /\ Unchanged_Config

\* WriteResults of a component opens its files first; one that is not enabled
\* returns at once.
OpenResults ==
  /\ pc = "WriteResults" /\ position \in DOMAIN WriteOrder
  /\ LET c == WriteOrder[position]
     IN  IF c \in m_enabled
         THEN /\ results' = [results EXCEPT ![c] = OpenedBy(run)]
              /\ pc' = "WriteRows" /\ UNCHANGED position
         ELSE /\ position' = position + 1
              /\ UNCHANGED <<results, pc>>
  /\ UNCHANGED <<finished, timing, outgoing, incoming, run, told>>
  /\ Unchanged_Config

WriteRows ==
  /\ pc = "WriteRows"
  /\ results' = [results EXCEPT ![WriteOrder[position]] = WrittenBy(run)]
  /\ pc' = "WriteResults" /\ position' = position + 1
  /\ UNCHANGED <<finished, timing, outgoing, incoming, run, told>>
  /\ Unchanged_Config

\* Finalize: the simulator is destroyed, which can fail, ...
StoreTimingResults ==
  /\ pc = "WriteResults" /\ position \notin DOMAIN WriteOrder
  /\ timing' = WrittenBy(run)
  /\ pc' = "WriteFinishedYes"
  /\ UNCHANGED <<finished, results, outgoing, incoming, position, run, told>>
  /\ Unchanged_Config

\* ... and main returns.
WriteFinishedYes ==
  /\ pc = "WriteFinishedYes"
  /\ finished' = "Yes"
  /\ told' = [by |-> run, enabled |-> m_enabled]
  /\ EndProcess
  /\ UNCHANGED <<timing, results, outgoing, incoming, run>>

\* Killed, out of memory or disk, or an exception or abort in the simulation.
Crash == pc # "idle" /\ Die

RlNext ==
  \/ \E config \in SUBSET Keys : Start(config)
  \/ ReadConfig \/ PrepareBasicSimulationLogFiles \/ WriteFinishedNo
  \/ Install \/ Run \/ SimulationEnds
  \/ \E c \in Component : Sent(c) \/ Received(c)
  \/ OpenResults \/ WriteRows \/ StoreTimingResults \/ WriteFinishedYes
  \/ Crash

RlSpec == RlInit /\ [][RlNext]_rlVars

----------------------------------------------------------------------------
TypeOK ==
  /\ finished \in {"none", "No", "Yes"}
  /\ timing \in File
  /\ results \in [Component -> File]
  /\ outgoing \in [Component -> SUBSET Runs]
  /\ incoming \in [Component -> SUBSET Runs]
  /\ pc \in {"idle", "ReadConfig", "RemoveFinished", "RemoveTiming",
             "WriteFinishedNo", "Install", "Simulator", "WriteResults",
             "WriteRows", "WriteFinishedYes"}
  /\ position \in Nat \ {0}
  /\ pc = "WriteRows" => position \in DOMAIN WriteOrder
  /\ m_config \subseteq Keys /\ m_configRequestedKeys \subseteq Keys
  /\ m_enabled \subseteq {c \in Component : EnableKey(c) \in m_config}
  /\ run \in 0 .. MaxRuns /\ (pc # "idle" => run \in Runs)
  /\ told \in [by : 0 .. MaxRuns, enabled : SUBSET Component]

(* Whenever finished.txt says "Yes", be it while a later run is under way  *)
(* or after one died, the files of every component of the run that wrote   *)
(* it are there, complete, and all of that one run.                        *)
YesMeansComplete ==
  finished = "Yes" =>
    /\ told.by \in Runs
    /\ timing = WrittenBy(told.by)
    /\ \A c \in told.enabled : results[c] = WrittenBy(told.by)

(* Once the simulation runs, nothing an earlier run left behind can be     *)
(* taken for a result of this one: the results of its components, and the  *)
(* logs of received packets it was asked for, are absent or its own, also  *)
(* when it dies; for a component that is not enabled there is no promise.  *)
ResultsAreOwn ==
  pc \in {"Simulator", "WriteResults", "WriteRows", "WriteFinishedYes"} =>
    \A c \in m_enabled :
      /\ results[c].by \in {0, run}
      /\ Logs(c) => incoming[c] \subseteq {run}

(* A simulation only starts with a configuration in which each key takes   *)
(* effect: nothing is set for a component that is not enabled.  The keys   *)
(* are read, and confirmed, in different places.                           *)
ConfigurationTakesEffect ==
  pc = "Simulator" =>
    \A c \in Component :
      \/ /\ EnableKey(c) \in m_config /\ c \in m_enabled
         /\ c \in Needing => NeededKey(c) \in m_config
      \/ {EnableKey(c), NeededKey(c), LoggingKey(c)} \cap m_config = {}

(* The documentation says that finished.txt, "No" at the start and "Yes"   *)
(* after the run, allows to verify that the run finished: whenever no run  *)
(* is under way, "Yes" is about the latest one.  It does not hold, because *)
(* a run that throws in ReadConfig leaves the "Yes" of the one before.     *)
YesIsAboutLatestRun ==
  pc = "idle" /\ finished = "Yes" => told.by = run

(* The scheduler of UDP bursts reports that it "removed previous UDP burst *)
(* log files": in the simulation, the log of sent packets has lines of     *)
(* this run only.  It does not hold, since that log is only ever appended. *)
OutgoingLogIsOwn ==
  pc = "Simulator" => \A c \in Component : Logs(c) => outgoing[c] \subseteq {run}
=============================================================================
