----------------------------- MODULE FlowReport -----------------------------
(***************************************************************************)
(* What a line of tcp_flows.csv promises over time: the amount sent only   *)
(* grows, the flow is ongoing until it finishes in one of four ways, and   *)
(* then neither changes any more.                                          *)
(***************************************************************************)
EXTENDS Naturals

CONSTANT Size

VARIABLES
  sent,         \* the amount the report would give now
  finished      \* and the outcome

States == {"YES", "NO_CONN_FAIL", "NO_BAD_CLOSE", "NO_ERR_CLOSE", "NO_ONGOING"}

ReportInit == sent = 0 /\ finished = "NO_ONGOING"

ReportNext ==
  /\ finished = "NO_ONGOING"
  /\ sent' \in sent .. Size
  /\ finished' \in States
  /\ finished' = "YES" => sent' = Size
  /\ finished' = "NO_BAD_CLOSE" => sent' < Size
  /\ finished' = "NO_CONN_FAIL" => sent' = 0

ReportSpec == ReportInit /\ [][ReportNext]_<<sent, finished>>
=============================================================================
