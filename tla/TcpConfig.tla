----------------------------- MODULE TcpConfig -----------------------------
(***************************************************************************)
(* TcpConfigHelper: sets the initial values that all TCP sockets get.      *)
(* These belong to the process, not to a simulation, and a process may run *)
(* several simulations one after another, as the tests do; Finalize of     *)
(* each resets them.  The helper aborts on a value that is not ns-3's own  *)
(* before it sets it.                                                      *)
(*                                                                         *)
(* Times are in milliseconds.  A value that ns-3 refuses for an attribute  *)
(* ends the process, like an abort, and is left out.                       *)
(***************************************************************************)
EXTENDS ExpUtil

CONSTANTS
  Configurations,   \* records of a type and of keys: the texts by their key
  MaxSimulations,   \* bound on the simulations of the process
  MaxCalls          \* bound on the calls of Configure in a simulation

VARIABLES
  attributes,       \* the initial values, by attribute
  configuration,    \* of the simulation that is under way
  phase,            \* "idle", "created", "setting", "configured", "threw", "aborted"
  arguments,        \* of SetTcpAttributes
  position,         \* which of them is set next
  simulations, calls

tcVars == <<attributes, configuration, phase, arguments, position, simulations, calls>>

\* What SetTcpAttributes sets, in this order.
Attributes ==
  <<"ClockGranularity", "InitialCwnd", "SndBufSize", "RcvBufSize", "SegmentSize",
    "Timestamp", "Sack", "WindowScaling", "EnablePacing", "DelAckCount", "TcpNoDelay",
    "MaxSegLifetime", "MinRto", "InitialEstimation", "ConnTimeout", "DelAckTimeout",
    "PersistTimeout">>

Positions == DOMAIN Attributes

\* ns-3's own values, which the aborts demand.
Ns3Defaults ==
  <<1, 10, 131072, 131072, 536, TRUE, TRUE, TRUE, FALSE, 2, TRUE, 120000, 1000, 1000,
    3000, 200, 6000>>

Reset == [a \in {Attributes[i] : i \in Positions} |->
            Ns3Defaults[CHOOSE i \in Positions : Attributes[i] = a]]

ConfigureBasic ==
  <<1, 10, 131072 * 8192, 131072 * 8192, 1380, TRUE, TRUE, TRUE, FALSE, 2, TRUE, 120000, 200,
    1000, 1000, 200, 6000>>

\* Fault: two times in the order in which they are needed.
KeysSwapped ==
  <<"tcp_clock_granularity_ns", "tcp_init_cwnd_pkt", "tcp_snd_buf_size_byte",
    "tcp_rcv_buf_size_byte", "tcp_segment_size_byte", "tcp_opt_timestamp_enabled",
    "tcp_opt_sack_enabled", "tcp_opt_win_scaling_enabled", "tcp_opt_pacing_enabled",
    "tcp_delayed_ack_packet_count", "tcp_no_delay", "tcp_max_seg_lifetime_ns",
    "tcp_min_rto_ns", "tcp_connection_timeout_ns", "tcp_initial_rtt_estimate_ns",
    "tcp_delayed_ack_timeout_ns", "tcp_persist_timeout_ns">>

\* The keys that ConfigureCustom reads, in the order of the arguments it makes
\* of them.
Keys ==
  <<"tcp_clock_granularity_ns", "tcp_init_cwnd_pkt", "tcp_snd_buf_size_byte",
    "tcp_rcv_buf_size_byte", "tcp_segment_size_byte", "tcp_opt_timestamp_enabled",
    "tcp_opt_sack_enabled", "tcp_opt_win_scaling_enabled", "tcp_opt_pacing_enabled",
    "tcp_delayed_ack_packet_count", "tcp_no_delay", "tcp_max_seg_lifetime_ns",
    "tcp_min_rto_ns", "tcp_initial_rtt_estimate_ns", "tcp_connection_timeout_ns",
    "tcp_delayed_ack_timeout_ns", "tcp_persist_timeout_ns">>

Value(key, keys) ==
  LET text == Plain(get_param_or_fail(key, keys))
  IN IF key \in {"tcp_opt_timestamp_enabled", "tcp_opt_sack_enabled",
                 "tcp_opt_win_scaling_enabled", "tcp_opt_pacing_enabled", "tcp_no_delay"}
     THEN parse_boolean(text) ELSE parse_positive_int64(text)

ConfigureCustom(keys) == [i \in DOMAIN Keys |-> Value(Keys[i], keys)]

----------------------------------------------------------------------------
TcInit ==
  /\ attributes = Reset
  /\ configuration \in Configurations
  /\ phase = "idle"
  /\ arguments = <<>>
  /\ position = 1
  /\ simulations = 0 /\ calls = 0

\* The constructor of BasicSimulation, which reads the configuration.
Create ==
  /\ phase = "idle"
  /\ simulations < MaxSimulations
  /\ configuration' \in Configurations
  /\ phase' = "created"
  /\ simulations' = simulations + 1
  /\ calls' = 0
  /\ UNCHANGED <<attributes, arguments, position>>

Throw == phase' = "threw" /\ UNCHANGED <<arguments, position>>

SetAll(values) ==
  phase' = "setting" /\ arguments' = values /\ position' = 1

Configure ==
  /\ phase \in {"created", "configured"}
  /\ calls < MaxCalls
  /\ calls' = calls + 1
  /\ LET custom == ConfigureCustom(configuration.keys)
         wrong == Error \in {custom[i] : i \in DOMAIN custom}
     IN \/ /\ configuration.type = "default"
           /\ phase' = "configured"
           /\ UNCHANGED <<arguments, position>>
        \/ configuration.type = "basic" /\ SetAll(ConfigureBasic)
        \/ configuration.type = "custom" /\ wrong /\ Throw
        \/ configuration.type = "custom" /\ ~wrong /\ SetAll(custom)
        \/ configuration.type \notin {"default", "basic", "custom"} /\ Throw
  /\ UNCHANGED <<attributes, configuration, simulations>>

\* SetTcpAttributes, one attribute: it must still have ns-3's own value.
SetTcpAttribute ==
  /\ phase = "setting"
  /\ LET attribute == Attributes[position]
     IN IF attributes[attribute] # Ns3Defaults[position]
        THEN phase' = "aborted" /\ UNCHANGED <<attributes, position>>
        ELSE /\ attributes' = [attributes EXCEPT ![attribute] = arguments[position]]
             /\ phase' = IF position = Len(Attributes) THEN "configured" ELSE "setting"
             /\ position' = IF position = Len(Attributes) THEN 1 ELSE position + 1
  /\ UNCHANGED <<configuration, arguments, simulations, calls>>

\* Finalize, with CleanUpSimulation; also after an exception that was caught.
Finalize ==
  /\ phase \in {"created", "configured", "threw"}
  /\ attributes' = Reset
  /\ phase' = "idle"
  /\ UNCHANGED <<configuration, arguments, position, simulations, calls>>

TcNext == Create \/ Configure \/ SetTcpAttribute \/ Finalize

TcSpec == TcInit /\ [][TcNext]_tcVars

----------------------------------------------------------------------------
(* Properties *)

\* The documentation: the key that decides about each attribute.
KeyOf ==
  [ClockGranularity |-> "tcp_clock_granularity_ns", InitialCwnd |-> "tcp_init_cwnd_pkt",
   SndBufSize |-> "tcp_snd_buf_size_byte", RcvBufSize |-> "tcp_rcv_buf_size_byte",
   SegmentSize |-> "tcp_segment_size_byte", Timestamp |-> "tcp_opt_timestamp_enabled",
   Sack |-> "tcp_opt_sack_enabled", WindowScaling |-> "tcp_opt_win_scaling_enabled",
   EnablePacing |-> "tcp_opt_pacing_enabled", DelAckCount |-> "tcp_delayed_ack_packet_count",
   TcpNoDelay |-> "tcp_no_delay", MaxSegLifetime |-> "tcp_max_seg_lifetime_ns",
   MinRto |-> "tcp_min_rto_ns", InitialEstimation |-> "tcp_initial_rtt_estimate_ns",
   ConnTimeout |-> "tcp_connection_timeout_ns", DelAckTimeout |-> "tcp_delayed_ack_timeout_ns",
   PersistTimeout |-> "tcp_persist_timeout_ns"]

\* The documentation: what "basic" changes.
BasicChanges ==
  [SndBufSize |-> 1073741824, RcvBufSize |-> 1073741824, SegmentSize |-> 1380,
   MinRto |-> 200, ConnTimeout |-> 1000]

\* Whatever simulations the process ran before, and however often Configure is
\* called: once a simulation is configured, each attribute is what its own
\* configuration says; one that is refused has changed none.
SettingsAreOwn ==
  /\ phase = "configured" =>
       \A a \in DOMAIN KeyOf :
         attributes[a] =
           CASE configuration.type = "custom" -> Value(KeyOf[a], configuration.keys)
             [] configuration.type = "basic" /\ a \in DOMAIN BasicChanges -> BasicChanges[a]
             [] OTHER -> Reset[a]
  /\ phase \in {"idle", "created", "threw"} => attributes = Reset

\* The documentation again: the keys that must be defined for "custom".
DocumentedKeys ==
  ({KeyOf[a] : a \in DOMAIN KeyOf} \ {"tcp_clock_granularity_ns"}) \cup {"tcp_clock_granularity"}

\* A configuration that gives all documented keys values is not refused.
DocumentedKeysAreEnough ==
  phase = "threw" /\ configuration.type = "custom" =>
    \E key \in DocumentedKeys : Value(key, configuration.keys) = Error
=============================================================================
