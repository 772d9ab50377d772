----------------------------- MODULE SignalLog -----------------------------
(***************************************************************************)
(* What an interval log promises, whatever the way it is computed.         *)
(* A value is reported now and then; between two reports it holds.  The    *)
(* reports therefore define a step signal over simulated time, and when    *)
(* the log is closed it publishes that signal in run-length form: the      *)
(* shortest list of intervals that says, for every instant between the     *)
(* first report and the closing time, which value held.                    *)
(***************************************************************************)
EXTENDS Integers, Sequences

CONSTANTS
  Values,     \* the values that are reported
  Horizon,    \* the last instant of the simulation
  Unset       \* marks a time that is not known yet

VARIABLES
  signal,     \* signal[t]: the value in force at instant t
  clock,      \* time of the latest report
  since,      \* time of the first report
  finalTime,  \* time at which the log was closed
  output      \* the published intervals <<left, right, value>>

absVars == <<signal, clock, since, finalTime, output>>

Times == 0 .. Horizon

\* ivs is the run-length form of sig on [from, to): contiguous, non-empty,
\* maximal intervals, each carrying the value sig has throughout it.
RunLengthForm(ivs, sig, from, to) ==
  /\ (from = to) <=> (ivs = << >>)
  /\ ivs # << >> => ivs[1][1] = from /\ ivs[Len(ivs)][2] = to
  /\ \A i \in 1 .. Len(ivs) :
       /\ ivs[i][1] < ivs[i][2] /\ ivs[i][2] <= to
       /\ \A t \in Times :
            ivs[i][1] <= t /\ t < ivs[i][2] => sig[t] = ivs[i][3]
  /\ \A i \in 1 .. Len(ivs) - 1 :
       /\ ivs[i][2] = ivs[i + 1][1]
       /\ ivs[i][3] # ivs[i + 1][3]

\* From now on the value is v.
Report(now, v) == [t \in Times |-> IF t >= now THEN v ELSE signal[t]]

AbsInit ==
  /\ clock = Unset
  /\ since = Unset
  /\ finalTime = Unset
  /\ output = << >>

AbsUpdate(now, v) ==
  /\ finalTime = Unset
  /\ clock = Unset \/ now >= clock
  /\ signal' = Report(now, v)
  /\ clock' = now
  /\ since' = IF since = Unset THEN now ELSE since
  /\ UNCHANGED <<finalTime, output>>

AbsFinalize(now) ==
  /\ finalTime = Unset
  /\ clock = Unset \/ now >= clock
  /\ finalTime' = now
  /\ IF since = Unset THEN output' = << >>
                      ELSE RunLengthForm(output', signal, since, now)
  /\ UNCHANGED <<signal, clock, since>>

AbsNext ==
  \E now \in Times : AbsFinalize(now) \/ \E v \in Values : AbsUpdate(now, v)

AbsSpec == AbsInit /\ [][AbsNext]_absVars
=============================================================================
