-------------------------- MODULE LogUpdateHelper --------------------------
(***************************************************************************)
(* LogUpdateHelper<V>: turns a stream of (time, value) updates into a list *)
(* of intervals, in memory, in a file, or both.  It keeps the two latest   *)
(* intervals open (alpha, then beta) because an update at the same instant *)
(* overwrites the earlier one, so the value of an interval is known only   *)
(* when time has moved on.                                                 *)
(*                                                                         *)
(* A call for a time before the last one throws before it assigns          *)
(* anything: it leaves the object as it is, so it is no action.  Every     *)
(* caller finalizes an object once, after its last update.                 *)
(***************************************************************************)
EXTENDS Integers, Sequences

CONSTANTS
  Values,         \* the values that are logged
  NoValue,        \* what the constructor puts in the value fields
  Horizon,        \* bound: the last instant at which anything is called
  SaveInMemory,   \* m_save_in_memory
  SaveToFile      \* m_save_to_file

ASSUME HorizonAssumption == Horizon \in Nat
ASSUME SaveAssumption ==
  /\ SaveInMemory \in BOOLEAN
  /\ SaveToFile \in BOOLEAN
  /\ SaveInMemory \/ SaveToFile

VARIABLES
  log,          \* m_log_time_value: intervals <<left, right, value>>
  file,         \* lines <<left, value>> written to m_save_file_stream
  lastUpdate,   \* m_last_update_value
  alphaValue,   \* m_interval_alpha_value
  lastCheck,    \* m_last_interval_check_time
  alphaLeft,    \* m_interval_alpha_left_time
  betaLeft,     \* m_interval_beta_left_time
  signal,       \* history: the value in force at each instant
  since,        \* history: the time of the first update
  finalTime     \* history: the time given to Finalize

Unset == -1
Times == 0 .. Horizon

intervals == <<log, file, alphaValue, alphaLeft, betaLeft>>
vars == <<log, file, lastUpdate, alphaValue, lastCheck, alphaLeft, betaLeft,
          signal, since, finalTime>>

----------------------------------------------------------------------------
Init ==
  /\ log = << >>
  /\ file = << >>
  /\ lastUpdate = NoValue
  /\ alphaValue = NoValue
  /\ lastCheck = Unset
  /\ alphaLeft = Unset
  /\ betaLeft = Unset
  /\ signal = [t \in Times |-> NoValue]
  /\ since = Unset
  /\ finalTime = Unset

Save(ivs) == log' = IF SaveInMemory THEN log \o ivs ELSE log
Write(lines) == file' = IF SaveToFile THEN file \o lines ELSE file

StartAlpha(time) ==
  /\ alphaLeft = Unset
  /\ alphaLeft' = time
  /\ UNCHANGED <<log, file, alphaValue, betaLeft>>

\* Fault: beta starts one instant late.
StartBetaLate(time) ==
  /\ alphaLeft # Unset
  /\ betaLeft = Unset
  /\ betaLeft' = time + 1
  /\ alphaValue' = lastUpdate
  /\ UNCHANGED <<log, file, alphaLeft>>

StartBeta(time) ==
  /\ alphaLeft # Unset
  /\ betaLeft = Unset
  /\ betaLeft' = time
  /\ alphaValue' = lastUpdate
  /\ UNCHANGED <<log, file, alphaLeft>>

MergeBetaIntoAlpha(time) ==
  /\ alphaLeft # Unset
  /\ betaLeft # Unset
  /\ alphaValue = lastUpdate
  /\ betaLeft' = time
  /\ UNCHANGED <<log, file, alphaValue, alphaLeft>>

\* Fault: beta becomes alpha but alpha keeps its own value.
ShiftKeepingValue(time) ==
  /\ alphaLeft # Unset
  /\ betaLeft # Unset
  /\ alphaValue # lastUpdate
  /\ Save(<< <<alphaLeft, betaLeft, alphaValue>> >>)
  /\ Write(<< <<alphaLeft, alphaValue>> >>)
  /\ alphaLeft' = betaLeft
  /\ betaLeft' = time
  /\ UNCHANGED alphaValue

SaveAlphaAndShift(time) ==
  /\ alphaLeft # Unset
  /\ betaLeft # Unset
  /\ alphaValue # lastUpdate
  /\ Save(<< <<alphaLeft, betaLeft, alphaValue>> >>)
  /\ Write(<< <<alphaLeft, alphaValue>> >>)
  /\ alphaLeft' = betaLeft
  /\ alphaValue' = lastUpdate
  /\ betaLeft' = time

\* The first update of an instant settles the value of the instants before it.
NewInstant(time) ==
  \/ StartAlpha(time)
  \/ StartBeta(time)
  \/ MergeBetaIntoAlpha(time)
  \/ SaveAlphaAndShift(time)

Update(time, value) ==
  /\ finalTime = Unset
  /\ time >= lastCheck
  /\ \/ time > lastCheck /\ NewInstant(time)
     \/ time = lastCheck /\ UNCHANGED intervals
  /\ lastCheck' = time
  /\ lastUpdate' = value
  /\ signal' = [t \in Times |-> IF t >= time THEN value ELSE signal[t]]
  /\ since' = IF since = Unset THEN time ELSE since
  /\ UNCHANGED finalTime

\* Only alpha was ever started: there was one instant with updates.
CloseAlpha(time) ==
  /\ alphaLeft # Unset
  /\ betaLeft = Unset
  /\ IF alphaLeft # time
     THEN /\ Save(<< <<alphaLeft, time, lastUpdate>> >>)
          /\ Write(<< <<alphaLeft, lastUpdate>>, <<time, lastUpdate>> >>)
     ELSE UNCHANGED <<log, file>>

CloseMerged(time) ==
  /\ alphaLeft # Unset
  /\ betaLeft # Unset
  /\ alphaValue = lastUpdate
  /\ Save(<< <<alphaLeft, time, alphaValue>> >>)
  /\ Write(<< <<alphaLeft, alphaValue>>, <<time, alphaValue>> >>)

\* Fault: a beta without extent is saved as if it had one.
CloseBothAlways(time) ==
  /\ alphaLeft # Unset
  /\ betaLeft # Unset
  /\ alphaValue # lastUpdate
  /\ Save(<< <<alphaLeft, betaLeft, alphaValue>>,
             <<betaLeft, time, lastUpdate>> >>)
  /\ Write(<< <<alphaLeft, alphaValue>>, <<betaLeft, lastUpdate>>,
              <<time, lastUpdate>> >>)

\* Fault: the line that ends alpha is forgotten when beta has no extent.
CloseBothUnended(time) ==
  /\ alphaLeft # Unset
  /\ betaLeft # Unset
  /\ alphaValue # lastUpdate
  /\ Save(<< <<alphaLeft, betaLeft, alphaValue>> >>
          \o IF betaLeft # time THEN << <<betaLeft, time, lastUpdate>> >>
                                ELSE << >>)
  /\ Write(<< <<alphaLeft, alphaValue>> >>
           \o IF betaLeft # time
              THEN << <<betaLeft, lastUpdate>>, <<time, lastUpdate>> >>
              ELSE << >>)

\* A beta that starts at the closing time holds for no time: the file still
\* gets a last line, with alpha's value, that ends alpha.
CloseBoth(time) ==
  /\ alphaLeft # Unset
  /\ betaLeft # Unset
  /\ alphaValue # lastUpdate
  /\ IF betaLeft # time
     THEN /\ Save(<< <<alphaLeft, betaLeft, alphaValue>>,
                     <<betaLeft, time, lastUpdate>> >>)
          /\ Write(<< <<alphaLeft, alphaValue>>, <<betaLeft, lastUpdate>>,
                      <<time, lastUpdate>> >>)
     ELSE /\ Save(<< <<alphaLeft, betaLeft, alphaValue>> >>)
          /\ Write(<< <<alphaLeft, alphaValue>>, <<betaLeft, alphaValue>> >>)

CloseEmpty == alphaLeft = Unset /\ UNCHANGED <<log, file>>

Finalize(time) ==
  /\ finalTime = Unset
  /\ time >= lastCheck
  /\ CloseAlpha(time) \/ CloseMerged(time) \/ CloseBoth(time) \/ CloseEmpty
  /\ finalTime' = time
  /\ UNCHANGED <<lastUpdate, alphaValue, lastCheck, alphaLeft, betaLeft,
                 signal, since>>

Next ==
  \E time \in Times :
    \/ \E value \in Values : Update(time, value)
    \/ Finalize(time)

Spec == Init /\ [][Next]_vars

----------------------------------------------------------------------------
(* Properties *)

\* Type invariant of the fields of LogUpdateHelper<V>.
TypeOK ==
  /\ log \in Seq(Times \X Times \X (Values \cup {NoValue}))
  /\ file \in Seq(Times \X (Values \cup {NoValue}))
  /\ lastUpdate \in Values \cup {NoValue}
  /\ alphaValue \in Values \cup {NoValue}
  /\ lastCheck \in Times \cup {Unset}
  /\ alphaLeft \in Times \cup {Unset}
  /\ betaLeft \in Times \cup {Unset}
  /\ signal \in [Times -> Values \cup {NoValue}]
  /\ since \in Times \cup {Unset}
  /\ finalTime \in Times \cup {Unset}

\* The reader of a log file takes each line as the start of an interval that
\* the next line ends, as the plotting tools do.
FileIntervals ==
  [i \in 1 .. Len(file) - 1 |-> <<file[i][1], file[i + 1][1], file[i][2]>>]

InMemory == INSTANCE SignalLog WITH
  clock <- lastCheck,
  output <- IF finalTime = Unset THEN << >> ELSE log

InFile == INSTANCE SignalLog WITH
  clock <- lastCheck,
  output <- IF finalTime = Unset THEN << >> ELSE FileIntervals

\* The vector Finalize returns is the run-length form of the logged signal
\* from the first update to the closing time: merging, shifting and the
\* overwriting of values within one instant lose and invent nothing.
MemoryLogIsExact == InMemory!AbsSpec

\* The file Finalize closes, read back line by line, is that form too, also
\* when a last interval has no extent.
FileLogIsExact == InFile!AbsSpec

\* At any moment, so also when the simulation dies before Finalize, what has
\* been pushed is the exact log of the time up to the start of alpha.
PartialLogIsExact ==
  SaveInMemory /\ finalTime = Unset /\ alphaLeft # Unset =>
    InMemory!RunLengthForm(log, signal, since, alphaLeft)
=============================================================================
