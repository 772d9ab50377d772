--------------------------- MODULE LinkSelectors ---------------------------
(***************************************************************************)
(* The default selectors of TopologyPtop: what the text of a link property *)
(* makes of the queue of a net-device, of its receive error model, and of  *)
(* the traffic-control queueing discipline of the interface.               *)
(*   drop_tail(100p)   [form |-> "drop_tail", parts |-> <<<<"100", "p">>>>] *)
(* A queueing discipline is the tuple of its type and its attributes.      *)
(***************************************************************************)
EXTENDS ExpUtil

\* A maximum queue size such as 100p or 100000B: its number and its unit.
MaxSize(t) ==
  IF Len(t) = 2 /\ t[2] \in {"p", "B"} /\ parse_geq_one_int64(t[1]) # Error
  THEN <<parse_geq_one_int64(t[1]), t[2]>> ELSE Error

ParseQueueValue(v) ==
  IF v.form = "drop_tail" THEN MaxSize(v.parts[1]) ELSE Error

NoErrorModel == [enabled |-> FALSE, rate |-> 0]

ParseReceiveErrorModelValue(v) ==
  IF Plain(v) = "none" THEN NoErrorModel
  ELSE IF /\ v.form = "iid_uniform_random_pkt"
          /\ parse_double(v.parts[1]) \in 0 .. One
  THEN [enabled |-> TRUE, rate |-> parse_double(v.parts[1])] ELSE Error

\* A size in bytes in packets, rounded up.
InPackets(size, meanPktSize) ==
  IF size[2] = "p" THEN size[1] ELSE (size[1] + meanPktSize - 1) \div meanPktSize

\* simple_red(action; mean packet size; queue weight; minimum threshold;
\*            maximum threshold; size; maximum probability; wait; gentle)
SimpleRed(p) ==
  LET mean == parse_geq_one_int64(p[2])
      minTh == parse_positive_int64(p[4])
      maxTh == parse_positive_int64(p[5])
      size == MaxSize(p[6])
  IN IF /\ Len(p) = 9
        /\ p[1] \in {"ecn", "drop"}
        /\ mean # Error
        /\ parse_double(p[3]) \in 1 .. One
        /\ minTh # Error /\ maxTh # Error /\ size # Error
        /\ minTh <= maxTh
        /\ maxTh <= InPackets(size, mean)
        /\ parse_double(p[7]) \in 1 .. One
        /\ p[8] \in {"wait", "no_wait"}
        /\ p[9] \in {"gentle", "not_gentle"}
     THEN <<"red", p[1] = "ecn", mean, parse_double(p[3]), minTh, maxTh, size,
            parse_double(p[7]), p[8] = "wait", p[9] = "gentle">>
     ELSE Error

FqCoDel(p) ==
  IF /\ Len(p) = 3
     /\ Error \notin {parse_geq_one_int64(p[1]), parse_geq_one_int64(p[2])}
     /\ MaxSize(p[3]) # Error /\ p[3][2] = "p"
  THEN <<"fq_codel", parse_geq_one_int64(p[1]), parse_geq_one_int64(p[2]), MaxSize(p[3])>>
  ELSE Error

\* First-in-first-out, with one band or with three.
Fifo(form, p) == IF MaxSize(p[1]) # Error THEN <<form, MaxSize(p[1])>> ELSE Error

NoQdisc == <<>>
DefaultQdisc == <<"default">>

\* NoQdisc when it is disabled.
ParseTcQdiscValue(v) ==
  CASE Plain(v) = "disabled" -> NoQdisc
    [] Plain(v) = "default" -> DefaultQdisc
    [] v.form = "fq_codel" -> FqCoDel(v.parts)
    [] v.form \in {"fifo", "pfifo_fast"} -> Fifo(v.form, v.parts)
    [] v.form = "simple_red" -> SimpleRed(v.parts)
    [] OTHER -> Error
=============================================================================
