------------------------------ MODULE TcpFlow ------------------------------
(***************************************************************************)
(* One TCP flow: the client application (TcpFlowClient), the server it     *)
(* sends to (TcpFlowServer), the socket calls between them, and the line   *)
(* TcpFlowScheduler::WriteResults prints about it.                         *)
(*                                                                         *)
(* The sockets and the network are the simulator's.  Of them the model     *)
(* keeps what the applications can observe: how much a Send accepts, the   *)
(* bytes in the send buffer, the bytes that have reached the server, and   *)
(* which callbacks may come when.  A socket makes at most one of the       *)
(* callbacks that end a connection on the client's side; a server socket   *)
(* may report a normal close and then an error.                            *)
(***************************************************************************)
EXTENDS Integers

CONSTANTS
  m_flowSizeByte,   \* attribute FlowSizeByte, at least 1
  m_sendStepSize,   \* attribute SendStepSize, at least 1
  BufferSizes,      \* the capacities a send buffer may be configured with
  Horizon           \* bound on the clock

ASSUME FlowSizeAssumption == m_flowSizeByte \in Nat \ {0}
ASSUME StepAssumption == m_sendStepSize \in Nat \ {0}
ASSUME BufferAssumption == BufferSizes \subseteq Nat
ASSUME HorizonAssumption == Horizon \in Nat

VARIABLES
  (* TcpFlowClient *)
  m_socket,             \* whether it holds a socket
  m_connected,
  m_totBytes,           \* bytes put into the send buffer so far
  m_completionTimeNs,   \* -1 until there is an outcome
  m_connFailed, m_closedNormally, m_closedByError,
  m_ackedBytes,         \* amount at the time of the outcome
  m_isCompleted,
  progressTime,         \* m_log_update_helper_progress_byte: time, value
  progressValue,        \* of its latest update
  stateTime,            \* m_log_update_helper_state: time of its latest
  (* TcpFlowServer *)
  m_totalRx,            \* bytes read
  m_socketList,         \* whether the accepted socket is on the list
  (* sockets, network, simulator *)
  now,
  sndBufSize,           \* capacity of the client's send buffer
  connection,           \* "none", "connecting", "open", "over"
  closeCalls,           \* calls of Close() by the client
  closing,              \* "no", "requested" by a Close(), "finSent"
  txBufferSize,         \* bytes sent or to be sent, not acknowledged yet
  serverCloses,         \* close notifications of the server's socket
  results               \* "no", "written", "threw" by WriteResults, or "died"
                        \* when the socket could not be bound

outcomeVars == <<m_completionTimeNs, m_connFailed, m_closedNormally,
                 m_closedByError, m_ackedBytes, m_isCompleted>>
clientVars == <<m_socket, m_connected, m_totBytes, outcomeVars,
                progressTime, progressValue, stateTime>>
serverVars == <<m_totalRx, m_socketList, serverCloses>>
socketVars == <<connection, closeCalls, closing, txBufferSize, sndBufSize>>
vars == <<clientVars, serverVars, socketVars, now, results>>

HasOutcome == m_connFailed \/ m_closedNormally \/ m_closedByError
Running == results = "no"

----------------------------------------------------------------------------
Init ==
  /\ m_socket = FALSE /\ m_connected = FALSE
  /\ m_totBytes = 0
  /\ m_completionTimeNs = -1
  /\ m_connFailed = FALSE /\ m_closedNormally = FALSE /\ m_closedByError = FALSE
  /\ m_ackedBytes = 0
  /\ m_isCompleted = FALSE
  /\ progressTime = -1 /\ progressValue = -1 /\ stateTime = -1
  /\ m_totalRx = 0
  /\ m_socketList = FALSE
  /\ now = 0
  /\ connection = "none"
  /\ closeCalls = 0 /\ closing = "no"
  /\ txBufferSize = 0 /\ sndBufSize \in BufferSizes
  /\ serverCloses = 0
  /\ results = "no"

GetAckedBytes ==
  IF HasOutcome THEN m_ackedBytes ELSE m_totBytes - txBufferSize

\* m_log_update_helper_progress_byte.Update(Now, v)
LogProgress(v) ==
  /\ progressTime' = now
  /\ progressValue' = v

----------------------------------------------------------------------------
(* Sending *)

\* External: what the loop of Send calls puts into a buffer that has `room`.  A
\* Send takes its packet, of a step or what is left of the flow, as a whole or
\* refuses it (-1), which ends the loop.  After its FIN the socket refuses all.
Accepted(room) ==
  LET left == m_flowSizeByte - m_totBytes
  IN IF closing = "finSent" THEN 0
     ELSE IF left <= room THEN left
     ELSE room - (room % m_sendStepSize)

\* Fault: the client stays connected after it closed.
SendDataStaysConnected(free) ==
  LET sent == Accepted(sndBufSize - (txBufferSize - free))
      done == m_totBytes + sent = m_flowSizeByte
  IN /\ m_totBytes' = m_totBytes + sent
     /\ txBufferSize' = txBufferSize - free + sent
     /\ m_connected' = TRUE
     /\ closeCalls' = IF done THEN closeCalls + 1 ELSE closeCalls
     /\ closing' = IF done THEN "requested" ELSE closing

\* SendData of a connected client, after `free` bytes left the buffer.
SendData(free) ==
  LET sent == Accepted(sndBufSize - (txBufferSize - free))
      done == m_totBytes + sent = m_flowSizeByte
  IN /\ m_totBytes' = m_totBytes + sent
     /\ txBufferSize' = txBufferSize - free + sent
     /\ m_connected' = ~done
     /\ closeCalls' = IF done THEN closeCalls + 1 ELSE closeCalls
     /\ closing' = IF done THEN "requested" ELSE closing

\* Fault: the room that an acknowledgement makes is never used.
DataSendIgnored(free) ==
  /\ txBufferSize' = txBufferSize - free
  /\ UNCHANGED <<m_totBytes, m_connected, closeCalls, closing>>

\* The socket tells of room in its buffer.
DataSend(free) ==
  \/ m_connected /\ SendData(free)
  \/ /\ ~m_connected
     /\ txBufferSize' = txBufferSize - free
     /\ UNCHANGED <<m_totBytes, m_connected, closeCalls, closing>>

----------------------------------------------------------------------------
(* Outcomes *)

ConnectionFailed ==
  /\ m_completionTimeNs' = now
  /\ m_connFailed' = TRUE
  /\ m_closedByError' = FALSE
  /\ m_closedNormally' = FALSE
  /\ m_ackedBytes' = 0
  /\ m_isCompleted' = FALSE
  /\ m_socket' = FALSE

\* Fault: a normal close is taken for success.
SocketClosedNormalCompletes ==
  /\ m_completionTimeNs' = now
  /\ m_connFailed' = FALSE
  /\ m_closedByError' = FALSE
  /\ m_closedNormally' = TRUE
  /\ m_ackedBytes' = m_totBytes - txBufferSize
  /\ m_isCompleted' = TRUE
  /\ m_socket' = FALSE

SocketClosedNormal ==
  /\ m_completionTimeNs' = now
  /\ m_connFailed' = FALSE
  /\ m_closedByError' = FALSE
  /\ m_closedNormally' = TRUE
  /\ m_ackedBytes' = m_totBytes - txBufferSize
  /\ m_isCompleted' = (m_totBytes - txBufferSize = m_flowSizeByte)
  /\ m_socket' = FALSE

\* Fault: the amount that was acknowledged is forgotten.
SocketClosedErrorForgets ==
  /\ m_completionTimeNs' = now
  /\ m_connFailed' = FALSE
  /\ m_closedByError' = TRUE
  /\ m_closedNormally' = FALSE
  /\ m_ackedBytes' = 0
  /\ m_isCompleted' = FALSE
  /\ m_socket' = FALSE

\* m_connected keeps its value, also when it is TRUE.
SocketClosedError ==
  /\ m_completionTimeNs' = now
  /\ m_connFailed' = FALSE
  /\ m_closedByError' = TRUE
  /\ m_closedNormally' = FALSE
  /\ m_ackedBytes' = m_totBytes - txBufferSize
  /\ m_isCompleted' = FALSE
  /\ m_socket' = FALSE

----------------------------------------------------------------------------
(* The client's events *)

\* StartApplication, once: create the socket, bind it, open its logs and
\* connect.  When no port is left for it the client throws, which nobody
\* catches; when there is no route, Connect returns -1 and has failed.
StartApplication ==
  /\ Running
  /\ connection = "none"
  /\ \/ /\ connection' = "connecting"
        /\ m_socket' = TRUE
        /\ LogProgress(GetAckedBytes) /\ stateTime' = now
        /\ UNCHANGED <<outcomeVars, results>>
     \/ /\ connection' = "over"
        /\ LogProgress(GetAckedBytes) /\ stateTime' = now
        /\ ConnectionFailed
        /\ UNCHANGED results
     \/ /\ results' = "died"
        /\ m_socket' = TRUE
        /\ UNCHANGED <<connection, outcomeVars, progressTime, progressValue, stateTime>>
  /\ UNCHANGED <<m_connected, m_totBytes, serverVars, closeCalls, closing,
                 txBufferSize, sndBufSize, now>>

\* ConnectionSucceeded and, right after it, the notification of room in the
\* buffer (a second SendData would only find the client no longer connected
\* or the buffer as full as the first one left it).
ConnectionSucceeded ==
  /\ Running
  /\ connection = "connecting"
  /\ connection' = "open"
  /\ SendData(0)
  /\ UNCHANGED <<m_socket, outcomeVars, progressTime, progressValue, stateTime, serverVars,
                 sndBufSize, now, results>>

\* No more connection retries.
ConnectRetriesExhausted ==
  /\ Running
  /\ connection = "connecting"
  /\ connection' = "over"
  /\ ConnectionFailed
  /\ UNCHANGED <<m_connected, m_totBytes, progressTime, progressValue, stateTime, serverVars,
                 closeCalls, closing, txBufferSize, sndBufSize, now, results>>

\* An acknowledgement takes `free` bytes off the buffer, which the progress
\* log traces, and then the socket tells of the room.  Only a socket that is
\* still connected takes bytes off its buffer.
Acknowledge(free) ==
  /\ Running
  /\ connection = "open"
  /\ free <= m_totalRx - GetAckedBytes
  /\ LogProgress(GetAckedBytes + free)
  /\ DataSend(free)
  /\ UNCHANGED <<m_socket, outcomeVars, stateTime, serverVars, connection, sndBufSize, now,
                 results>>

\* Something else than the client closes its socket.
ExternalClose ==
  /\ Running
  /\ connection = "open" /\ closing = "no"
  /\ closing' = "requested"
  /\ UNCHANGED <<clientVars, serverVars, connection, closeCalls, txBufferSize, sndBufSize, now,
                 results>>

\* A closed socket sends its FIN when it has sent what is in its buffer.
SendFin ==
  /\ Running
  /\ connection = "open" /\ closing = "requested"
  /\ closing' = "finSent"
  /\ UNCHANGED <<clientVars, serverVars, connection, closeCalls, txBufferSize, sndBufSize, now,
                 results>>

\* The FIN and all before it are acknowledged, or the handshake ended in a
\* close.  That the buffer is empty is how a TCP socket closes, and what the
\* client aborts without.
NormalClose ==
  /\ Running
  /\ connection = "connecting" \/ (connection = "open" /\ closing = "finSent")
  /\ txBufferSize = 0
  /\ connection' = "over"
  /\ SocketClosedNormal
  /\ UNCHANGED <<m_connected, m_totBytes, progressTime, progressValue, stateTime, serverVars,
                 closeCalls, closing, txBufferSize, sndBufSize, now, results>>

\* A reset, or no more data retries.
ErrorClose ==
  /\ Running
  /\ connection \in {"connecting", "open"}
  /\ connection' = "over"
  /\ SocketClosedError
  /\ UNCHANGED <<m_connected, m_totBytes, progressTime, progressValue, stateTime, serverVars,
                 closeCalls, closing, txBufferSize, sndBufSize, now, results>>

\* A traced state of the socket changes, such as TIME_WAIT to CLOSED, which may
\* be long after the outcome.
StateChange ==
  /\ Running
  /\ connection # "none"
  /\ stateTime' = now
  /\ UNCHANGED <<m_socket, m_connected, m_totBytes, outcomeVars, progressTime, progressValue,
                 serverVars, socketVars, now, results>>

----------------------------------------------------------------------------
(* The server's events *)

\* HandleAccept: the handshake is complete at the server.
HandleAccept ==
  /\ Running
  /\ connection \in {"connecting", "open"}
  /\ ~m_socketList /\ serverCloses = 0
  /\ m_socketList' = TRUE
  /\ UNCHANGED <<clientVars, m_totalRx, serverCloses, socketVars, now, results>>

\* HandleRead drains what has arrived in order.  Data that was sent before
\* the client's socket failed may still arrive.
HandleRead(bytes) ==
  /\ Running
  /\ m_socketList
  /\ m_totalRx + bytes <= m_totBytes
  /\ m_totalRx' = m_totalRx + bytes
  /\ UNCHANGED <<clientVars, m_socketList, serverCloses, socketVars, now, results>>

\* HandlePeerClose and HandlePeerError: CleanUp takes the socket off the list;
\* the second call finds it gone.
CleanUp ==
  /\ Running
  /\ m_socketList \/ serverCloses = 1
  /\ serverCloses < 2
  /\ (closing = "finSent" /\ m_totalRx = m_totBytes) \/ connection = "over"
  /\ serverCloses' = serverCloses + 1
  /\ m_socketList' = FALSE
  /\ UNCHANGED <<clientVars, m_totalRx, socketVars, now, results>>

Tick ==
  /\ Running
  /\ now < Horizon
  /\ now' = now + 1
  /\ UNCHANGED <<clientVars, serverVars, socketVars, results>>

\* The end of what exists only while there is a connection.
Timestamp == IF HasOutcome THEN m_completionTimeNs ELSE now

\* Fault: the log of the state ends with the connection, too.
FinalizeAllAtOutcome == progressTime <= Timestamp /\ stateTime <= Timestamp

\* FinalizeDetailedLogs closes the progress at the outcome, and the state, which
\* outlives it, at the end.  LogUpdateHelper throws when a log is closed before
\* its latest update.
FinalizeDetailedLogs == progressTime <= Timestamp /\ stateTime <= now

\* TcpFlowScheduler::WriteResults after the end of the simulation, which may
\* be at any time after the flow's start.
WriteResults ==
  /\ Running
  /\ connection # "none"
  /\ results' = IF FinalizeDetailedLogs THEN "written" ELSE "threw"
  /\ UNCHANGED <<clientVars, serverVars, socketVars, now>>

Next ==
  \/ StartApplication
  \/ ConnectionSucceeded
  \/ ConnectRetriesExhausted
  \/ \E free \in 1 .. m_flowSizeByte : Acknowledge(free)
  \/ ExternalClose
  \/ SendFin
  \/ NormalClose
  \/ ErrorClose
  \/ StateChange
  \/ HandleAccept
  \/ \E bytes \in 1 .. m_flowSizeByte : HandleRead(bytes)
  \/ CleanUp
  \/ Tick
  \/ WriteResults

Spec == Init /\ [][Next]_vars

\* The network keeps retrying: what was sent arrives, what arrived is
\* acknowledged, and a connection attempt and a close come to an end.
FairSpec ==
  /\ Spec
  /\ WF_vars(StartApplication)
  /\ WF_vars(ConnectionSucceeded)
  /\ WF_vars(HandleAccept)
  /\ WF_vars(\E bytes \in 1 .. m_flowSizeByte : HandleRead(bytes))
  /\ WF_vars(\E free \in 1 .. m_flowSizeByte : Acknowledge(free))
  /\ WF_vars(SendFin)
  /\ WF_vars(NormalClose)

----------------------------------------------------------------------------
(* Properties *)

\* Type invariant.
TypeOK ==
  /\ {m_socket, m_connected, m_connFailed, m_closedNormally, m_closedByError,
      m_isCompleted, m_socketList} \subseteq BOOLEAN
  /\ m_totBytes \in 0 .. m_flowSizeByte
  /\ m_completionTimeNs \in -1 .. Horizon
  /\ m_ackedBytes \in 0 .. m_flowSizeByte
  /\ {progressTime, stateTime} \subseteq -1 .. Horizon
  /\ progressValue \in -1 .. m_flowSizeByte
  /\ m_totalRx \in 0 .. m_flowSizeByte
  /\ now \in 0 .. Horizon
  /\ connection \in {"none", "connecting", "open", "over"}
  /\ closeCalls \in Nat
  /\ closing \in {"no", "requested", "finSent"}
  /\ sndBufSize \in BufferSizes
  /\ txBufferSize \in 0 .. sndBufSize
  /\ serverCloses \in 0 .. 2
  /\ results \in {"no", "written", "threw", "died"}

\* What the client reports as sent has been read by the server, also after
\* the connection was lost, and a completed flow has been read as a whole.
ReportedIsReceived ==
  /\ GetAckedBytes <= m_totalRx
  /\ m_totalRx <= m_totBytes
  /\ m_isCompleted => m_totalRx = m_flowSizeByte /\ m_closedNormally

\* The client closes its socket once, when all data is in the send buffer.
ClosedWhenAllIsSent ==
  /\ closeCalls > 0 => closeCalls = 1 /\ m_totBytes = m_flowSizeByte
  /\ m_connected => closeCalls = 0

\* Writing the results never finalizes a log before its latest update, also
\* when the socket's state changed after the outcome, and the progress log ends
\* with the amount in the flow's line.
ProgressLogMatchesLine ==
  /\ results # "threw"
  /\ results = "written" => progressValue = GetAckedBytes

\* TcpFlowScheduler::WriteResults: the outcome in the flow's line.
FinishedState ==
  IF m_isCompleted THEN "YES"
  ELSE IF m_connFailed THEN "NO_CONN_FAIL"
  ELSE IF m_closedNormally THEN "NO_BAD_CLOSE"
  ELSE IF m_closedByError THEN "NO_ERR_CLOSE"
  ELSE "NO_ONGOING"

Report == INSTANCE FlowReport WITH
  Size <- m_flowSizeByte, sent <- GetAckedBytes, finished <- FinishedState

\* The line's amount only grows and its outcome is final and justified.
ReportIsFinal == Report!ReportSpec

\* The first packet the client sends fits into the send buffer.
StepFits ==
  \/ m_sendStepSize <= sndBufSize
  \/ m_flowSizeByte <= sndBufSize

\* A flow that was started finishes, unless the simulation ends before: a
\* refused Send is always followed up.  If its first packet does not fit into
\* the send buffer, not a byte is ever sent.
FlowFinishes ==
  /\ StepFits ~> (FinishedState # "NO_ONGOING" \/ results # "no")
  /\ [](~StepFits => m_totBytes = 0)
=============================================================================
