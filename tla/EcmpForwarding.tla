--------------------------- MODULE EcmpForwarding ---------------------------
(***************************************************************************)
(* Packets of one flow forwarded over the state that CalculateGlobalState  *)
(* computed: Ipv4ArbiterRouting (RouteOutput at the sending node,          *)
(* RouteInput at every other), Arbiter (addresses to nodes), ArbiterEcmp   *)
(* (the hash picks one of the candidates) and ArbiterPtop (the next node   *)
(* to an interface).                                                       *)
(*                                                                         *)
(* An interface is named by its link: <<a, b>> is the interface of node a  *)
(* towards its neighbour b, and stands for its IP address as well, which   *)
(* is unique.  The hash of a five-tuple at a node is an arbitrary value,   *)
(* but the same one every time: the memory `hashed` fixes the hop it picks *)
(* the first time it is computed.                                          *)
(*                                                                         *)
(* A datagram larger than the MTU, which only a TCP segment can be, leaves *)
(* its sender in fragments: after the one decision for it, and all on that *)
(* hop.  Every other node decides for each fragment by itself, and only    *)
(* the first has a transport header with ports to hash.                    *)
(***************************************************************************)
EXTENDS EcmpGlobalState, Sequences

CONSTANTS
  Packets,      \* packets of the flow
  MaxHops,      \* bound on the length of a trail (IPv4's time to live)
  Unset         \* 102.102.102.102, the address of a header not yet filled in

\* No interface has that address.
ASSUME UnsetAssumption == Unset \notin NodePairs

Interface == {x \in NodePairs : Adjacent(x[1], x[2])}
Addresses == NodePairs \cup {Unset}

\* ports: whether the transport header is there to be read (else both are 0)
FiveTuple == [from : Addresses, to : NodePairs, ports : BOOLEAN]

NoFlow == [kind |-> "none", from |-> Unset, to |-> Unset]

VARIABLES
  flow,         \* kind "none", "tcp" or "udp"; addresses of its two ends
  pkt,          \* per packet: status, forth or back, the packet (itself, or the
                \* first fragment) with its transport header, and the nodes it visited
  hashed,       \* hashed[<<node, five-tuple>>]: the next hop the hash picks
  crashed,      \* "no", or the exception that ended the simulation
  opened        \* history: the nodes <<a, b>> that the flow was opened between

fwVars == <<flow, pkt, hashed, crashed, opened>>
vars == <<gsVars, fwVars>>

----------------------------------------------------------------------------
(* Addresses *)

HasInterface(a) == \E b \in Node : Adjacent(a, b)

\* GetAddress(1, 0): the edges are installed in sorted order, so the first
\* interface of a node leads to its smallest neighbour.
FirstAddress(a) ==
  <<a, CHOOSE b \in Node : Adjacent(a, b) /\ \A c \in Node : Adjacent(a, c) => b <= c>>

\* The map from every interface's address to the node it is on.
ResolveNodeIdFromIp(ip) == ip[1]

\* WeakEsModel: any address of any interface of the node.
IsDestinationAddress(a, ip, arrival) == ip[1] = a

----------------------------------------------------------------------------
(* One decision of a node's arbiter *)

\* Fault: the hash differs from packet to packet.
RememberHopNot(a, tuple, hop) == UNCHANGED hashed

\* The hop the hash picks is the same one whenever it is computed again.
RememberHop(a, tuple, hop) ==
  /\ <<a, tuple>> \in DOMAIN hashed => hashed[<<a, tuple>>] = hop
  /\ hashed' = [x \in DOMAIN hashed \cup {<<a, tuple>>} |->
                  IF x = <<a, tuple>> THEN hop ELSE hashed[x]]

\* ComputeFiveTupleHash and candidate_list.at(target).at(hash % size): hop is
\* the node that a sends packets with this five-tuple to.
TopologyPtopDecide(a, tuple, hop) ==
  /\ hop \in candidates[<<a, ResolveNodeIdFromIp(tuple.to)>>]
  /\ RememberHop(a, tuple, hop)

\* The exception when there is no candidate.
NoCandidates(a, tuple) ==
  /\ candidates[<<a, ResolveNodeIdFromIp(tuple.to)>>] = {}
  /\ crashed' = "no_candidates"
  /\ UNCHANGED hashed

\* Interface 0 in the table of interfaces: not a neighbour.
NotANeighbor(a, tuple) ==
  \E hop \in Node :
    /\ TopologyPtopDecide(a, tuple, hop)
    /\ ~Adjacent(a, hop)
    /\ crashed' = "not_a_neighbor"

\* Arbiter::Decide throws: the simulation is over.
DecideThrows(a, tuple) ==
  /\ NoCandidates(a, tuple) \/ NotANeighbor(a, tuple)
  /\ UNCHANGED <<gsVars, flow, pkt>>

\* Arbiter::Decide returns the interface <<a, hop>>.
Decide(a, tuple, hop) ==
  /\ TopologyPtopDecide(a, tuple, hop)
  /\ Adjacent(a, hop)
  /\ UNCHANGED crashed

----------------------------------------------------------------------------
FwInit ==
  /\ GsInit
  /\ flow = NoFlow
  /\ pkt = [p \in Packets |->
              [status |-> "idle", back |-> FALSE, of |-> p, trail |-> <<>>]]
  /\ hashed = [x \in {} |-> 0]
  /\ crashed = "no"
  /\ opened = Unset

Running == phase = "done" /\ crashed = "no"

\* The request for a source address that a TCP socket makes when it connects:
\* a header with only the destination in it, and no packet.
SourceRequest(b) == [from |-> Unset, to |-> FirstAddress(b), ports |-> FALSE]

\* TcpSocketBase::SetupEndpoint: the flow's source address becomes the one of
\* the interface that the request was routed to.
ConnectTcp(a, b) ==
  /\ Running
  /\ flow = NoFlow
  /\ a # b /\ HasInterface(a) /\ HasInterface(b)
  /\ opened' = <<a, b>>
  /\ \/ \E hop \in Node :
          /\ Decide(a, SourceRequest(b), hop)
          /\ flow' = [kind |-> "tcp", from |-> <<a, hop>>, to |-> FirstAddress(b)]
          /\ UNCHANGED <<gsVars, pkt>>
     \/ DecideThrows(a, SourceRequest(b))

\* A UDP socket is bound to the node's first address; no route is looked up.
BindUdp(a, b) ==
  /\ Running
  /\ flow = NoFlow
  /\ a # b /\ HasInterface(a) /\ HasInterface(b)
  /\ flow' = [kind |-> "udp", from |-> FirstAddress(a), to |-> FirstAddress(b)]
  /\ opened' = <<a, b>>
  /\ UNCHANGED <<gsVars, pkt, hashed, crashed>>

\* The header of a packet of the flow, in either direction.
HeaderOf(back, ports) ==
  IF back THEN [from |-> flow.to, to |-> flow.from, ports |-> ports]
  ELSE [from |-> flow.from, to |-> flow.to, ports |-> ports]

\* A fragment that is not the first one (its fragment offset is not 0).
Later(p) == pkt[p].of # p

TupleOf(p) == HeaderOf(pkt[p].back, ~Later(p))

\* A datagram has arrived when all its fragments have.
Arrived(p) == \A q \in Packets : pkt[q].of = p => pkt[q].status = "delivered"

\* Something of the flow has arrived at its other end, which then answers.
Answerable ==
  \E p \in Packets : pkt[p].status = "delivered" /\ ~Later(p) /\ ~pkt[p].back /\ Arrived(p)

\* RouteOutput at the node that sends the datagram: p and, if the segment does
\* not fit into the MTU, its later fragments `rest`.  The server of a TCP flow
\* only sends acknowledgements, and the payloads of UDP are limited.
RouteOutput(p, rest, back) ==
  LET tuple == HeaderOf(back, TRUE)
      here == tuple.from[1]
  IN /\ Running
     /\ flow # NoFlow
     /\ \A q \in rest \cup {p} : pkt[q].status = "idle"
     /\ rest # {} => flow.kind = "tcp" /\ ~back /\ p \notin rest
     /\ back => Answerable
     /\ UNCHANGED opened
     /\ \/ \E hop \in Node :
             /\ Decide(here, tuple, hop)
             /\ pkt' = [q \in Packets |->
                          IF q \in rest \cup {p}
                          THEN [status |-> "wire", back |-> back, of |-> p,
                                trail |-> <<here, hop>>]
                          ELSE pkt[q]]
             /\ UNCHANGED <<gsVars, flow>>
        \/ DecideThrows(here, tuple)

At(p) == pkt[p].trail[Len(pkt[p].trail)]
ArrivedOn(p) == <<At(p), pkt[p].trail[Len(pkt[p].trail) - 1]>>

LocalDeliver(p) ==
  /\ IsDestinationAddress(At(p), TupleOf(p).to, ArrivedOn(p))
  /\ pkt' = [pkt EXCEPT ![p].status = "delivered"]
  /\ UNCHANGED <<gsVars, flow, hashed, crashed, opened>>

Forward(p) ==
  /\ ~IsDestinationAddress(At(p), TupleOf(p).to, ArrivedOn(p))
  /\ Len(pkt[p].trail) <= MaxHops
  /\ UNCHANGED opened
  /\ \/ \E hop \in Node :
          /\ Decide(At(p), TupleOf(p), hop)
          /\ pkt' = [pkt EXCEPT ![p].trail = Append(@, hop)]
          /\ UNCHANGED <<gsVars, flow>>
     \/ DecideThrows(At(p), TupleOf(p))

\* RouteInput at the node at the other end of the link.
RouteInput(p) ==
  /\ Running
  /\ pkt[p].status = "wire"
  /\ LocalDeliver(p) \/ Forward(p)

\* A full queue or the receive error model takes the packet.
Drop(p) ==
  /\ Running
  /\ pkt[p].status = "wire"
  /\ pkt' = [pkt EXCEPT ![p].status = "lost"]
  /\ UNCHANGED <<gsVars, flow, hashed, crashed, opened>>

Calculate == GsNext /\ UNCHANGED fwVars

FwNext ==
  \/ Calculate
  \/ \E a, b \in Node : ConnectTcp(a, b) \/ BindUdp(a, b)
  \/ \E p \in Packets, rest \in SUBSET Packets, back \in BOOLEAN : RouteOutput(p, rest, back)
  \/ \E p \in Packets : RouteInput(p)
  \/ \E p \in Packets : Drop(p)

FwSpec == FwInit /\ [][FwNext]_vars

\* The simulator runs every event that is due: a packet on a link arrives.
FairSpec == FwSpec /\ \A p \in Packets : WF_vars(RouteInput(p))

----------------------------------------------------------------------------
(* Properties *)

\* Type invariant.
FwTypeOK ==
  /\ flow \in [kind : {"none", "tcp", "udp"}, from : Addresses, to : Addresses]
  /\ pkt \in [Packets -> [status : {"idle", "wire", "delivered", "lost"},
                          back : BOOLEAN, of : Packets, trail : Seq(Node)]]
  /\ \A p \in Packets : (pkt[p].status = "idle") <=> (pkt[p].trail = <<>>)
  /\ DOMAIN hashed \subseteq Node \X FiveTuple
  /\ \A x \in DOMAIN hashed : hashed[x] \in candidates[<<x[1], x[2].to[1]>>]
  /\ crashed \in {"no", "no_candidates", "not_a_neighbor"}
  /\ opened \in NodePairs \cup {Unset}

Source(p) == HeaderOf(pkt[p].back, TRUE).from[1]
Destination(p) == HeaderOf(pkt[p].back, TRUE).to[1]

\* Forwarding is loop-free and takes a shortest path, whatever the hashes
\* are: each hop a packet has made took it one hop nearer to where it goes.
EveryHopIsNearer ==
  \A p \in Packets : pkt[p].status # "idle" =>
    \A m \in 1 .. Len(pkt[p].trail) :
      dist[<<pkt[p].trail[m], Destination(p)>>] + m - 1
        = dist[<<Source(p), Destination(p)>>]

\* ECMP keeps a flow on one path, as far as it can read the ports: packets of
\* the same direction leave the sender on the same hop, and visit the same nodes
\* if the transport header is there in both of them or in neither.  They part
\* only behind the sender, and only a later fragment from one that is whole or a
\* first fragment: the network does not reorder a flow whose segments fit into
\* the MTU.  (The request for a source address has no ports either and counts
\* for nothing: a TCP flow may leave on another interface than its address's.)
FlowKeepsToOnePath ==
  \A p, q \in Packets :
    /\ pkt[p].status # "idle" /\ pkt[q].status # "idle"
    /\ pkt[p].back = pkt[q].back
    => \A m \in (DOMAIN pkt[p].trail) \cap (DOMAIN pkt[q].trail) :
         m <= 2 \/ Later(p) = Later(q) => pkt[p].trail[m] = pkt[q].trail[m]

\* The simulation dies of a missing route only when a flow is opened, or sends
\* its first packet, between two nodes that no walk along the links connects:
\* never after a packet was sent, so not at a node on the way, not for a later
\* fragment, whose hash picks another hop, and not for an answer.
CrashOnlyWithoutPath ==
  crashed # "no" =>
    /\ crashed = "no_candidates"
    /\ \A p \in Packets : pkt[p].status = "idle"
    /\ opened # Unset
    /\ HopDistance(opened[1], opened[2]) = Infinity

\* A packet that was sent is delivered, unless it is dropped.
SentIsSettled ==
  \A p \in Packets :
    pkt[p].status = "wire" ~> pkt[p].status \in {"delivered", "lost"}
=============================================================================
