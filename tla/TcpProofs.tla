----------------------------- MODULE TcpProofs -----------------------------
(***************************************************************************)
(* TCP: the report of a flow, for flows, steps and buffers of any size and *)
(* a run of any length, and the settings of the sockets.                   *)
(*                                                                         *)
(* What makes the report right is that the amount acknowledged has two     *)
(* sources that agree: the copy made at the outcome is what the socket     *)
(* would still say, because a connection that is over changes neither its  *)
(* buffer nor the amount sent.                                             *)
(***************************************************************************)
EXTENDS TcpFlow, TcpConfig, TLAPS

----------------------------------------------------------------------------
(* A flow *)

Acked == m_totBytes - txBufferSize

Types ==
  /\ m_totBytes \in 0 .. m_flowSizeByte
  /\ txBufferSize \in 0 .. m_totBytes
  /\ sndBufSize \in Nat /\ txBufferSize <= sndBufSize
  /\ m_totalRx \in Nat
  /\ now \in 0 .. Horizon
  /\ progressTime \in -1 .. now
  /\ stateTime \in -1 .. now
  /\ m_completionTimeNs \in -1 .. now
  /\ closeCalls \in Nat
  /\ connection \in {"none", "connecting", "open", "over"}
  /\ results \in {"no", "written", "threw", "died"}

\* Bytes are counted when they are sent, then when they are read, then when
\* they are acknowledged.
Conservation == Acked <= m_totalRx /\ m_totalRx <= m_totBytes

BeforeOpening ==
  connection \in {"none", "connecting"} =>
    m_totBytes = 0 /\ txBufferSize = 0 /\ closeCalls = 0 /\ ~m_connected

OneOutcome ==
  /\ HasOutcome <=> connection = "over"
  /\ HasOutcome => m_ackedBytes = Acked /\ progressTime <= m_completionTimeNs
  /\ m_isCompleted => m_closedNormally /\ Acked = m_flowSizeByte
  /\ m_closedNormally => m_isCompleted \/ Acked < m_flowSizeByte
  /\ m_connFailed => Acked = 0

Closing ==
  /\ closeCalls > 0 => closeCalls = 1 /\ m_totBytes = m_flowSizeByte
  /\ m_connected => closeCalls = 0

Logged ==
  /\ connection # "none" => progressValue = Acked
  /\ results \in {"written", "threw"} => connection # "none"
  /\ results # "threw"

FlowInv == Types /\ Conservation /\ BeforeOpening /\ OneOutcome /\ Closing /\ Logged

----------------------------------------------------------------------------
LEMMA AckedIs == FlowInv => GetAckedBytes = Acked /\ Acked \in 0 .. m_flowSizeByte
BY FlowSizeAssumption DEF FlowInv, Types, OneOutcome, GetAckedBytes, Acked

LEMMA WholeSteps ==
  ASSUME NEW room \in Nat
  PROVE  room - (room % m_sendStepSize) \in 0 .. room
<1> DEFINE s == m_sendStepSize
           q == room \div s
           r == room % s
<1>1. s \in Nat /\ s > 0
  BY StepAssumption
<1>2. room = s * q + r /\ r \in Nat /\ q \in Nat
  BY <1>1
<1> HIDE DEF q, r, s
<1>3. s * q \in Nat
  BY <1>1, <1>2
<1>4. room - r \in 0 .. room
  BY <1>2, <1>3
<1> QED BY <1>4 DEF r, s

\* What the socket accepts fits into its buffer, and is no more than is left.
LEMMA AcceptedFits ==
  ASSUME FlowInv, NEW room \in Nat
  PROVE  /\ Accepted(room) \in 0 .. room
         /\ m_totBytes + Accepted(room) <= m_flowSizeByte
<1>1. m_totBytes \in 0 .. m_flowSizeByte
  BY DEF FlowInv, Types
<1> DEFINE whole == room - (room % m_sendStepSize)
<1>2. whole \in 0 .. room
  BY WholeSteps
<1>3. CASE closing = "finSent"
  BY <1>1, <1>3, FlowSizeAssumption DEF Accepted
<1>4. CASE closing # "finSent" /\ m_flowSizeByte - m_totBytes <= room
  BY <1>1, <1>4, FlowSizeAssumption DEF Accepted
<1>5. CASE closing # "finSent" /\ ~(m_flowSizeByte - m_totBytes <= room)
  <2>1. Accepted(room) = whole
    BY <1>5 DEF Accepted
  <2> HIDE DEF whole
  <2> QED BY <1>1, <1>2, <1>5, <2>1, FlowSizeAssumption
<1> QED BY <1>3, <1>4, <1>5

\* FlowInv of each group of fields, to name what a step can disturb.
LEMMA UnchangedInv == FlowInv /\ UNCHANGED vars => FlowInv'
BY DEF FlowInv, Types, Conservation, BeforeOpening, OneOutcome, Closing, Logged, Acked,
       HasOutcome, vars, clientVars, serverVars, socketVars, outcomeVars

LEMMA InitFlow == Init => FlowInv
BY FlowSizeAssumption, BufferAssumption, HorizonAssumption
   DEF Init, FlowInv, Types, Conservation, BeforeOpening, OneOutcome, Closing, Logged, Acked,
       HasOutcome

----------------------------------------------------------------------------
(* Sending *)

LEMMA SendDataEffect ==
  ASSUME FlowInv, NEW free \in 0 .. txBufferSize, SendData(free), m_connected \/ closeCalls = 0
  PROVE  /\ m_totBytes' \in 0 .. m_flowSizeByte /\ m_totBytes' >= m_totBytes
         /\ txBufferSize' \in 0 .. m_totBytes' /\ txBufferSize' <= sndBufSize
         /\ Acked' = Acked + free
         /\ closeCalls' \in {0, 1}
         /\ m_connected' \in BOOLEAN
         /\ closeCalls' > 0 => m_totBytes' = m_flowSizeByte
         /\ m_connected' => closeCalls' = 0
<1> DEFINE room == sndBufSize - (txBufferSize - free)
           sent == Accepted(room)
<1>1. /\ m_totBytes \in 0 .. m_flowSizeByte /\ txBufferSize \in 0 .. m_totBytes
      /\ txBufferSize <= sndBufSize /\ closeCalls = 0
      /\ m_flowSizeByte \in Nat /\ sndBufSize \in Nat
  BY FlowSizeAssumption DEF FlowInv, Types, Closing
<1>2. room \in Nat
  BY <1>1
<1>3. LET done == m_totBytes + sent = m_flowSizeByte
      IN /\ m_totBytes' = m_totBytes + sent
         /\ txBufferSize' = txBufferSize - free + sent
         /\ m_connected' = ~done
         /\ closeCalls' = IF done THEN closeCalls + 1 ELSE closeCalls
  BY DEF SendData
<1>4. sent \in Nat /\ sent <= room /\ m_totBytes + sent <= m_flowSizeByte
  BY <1>2, AcceptedFits
<1> HIDE DEF sent
<1>5. /\ m_totBytes' = m_totBytes + sent
      /\ txBufferSize' = txBufferSize - free + sent
  BY <1>3
<1>6. /\ m_totBytes' \in 0 .. m_flowSizeByte /\ m_totBytes' >= m_totBytes
      /\ txBufferSize' \in 0 .. m_totBytes' /\ txBufferSize' <= sndBufSize
      /\ Acked' = Acked + free
  <2> HIDE DEF Acked
  <2>1. /\ m_totBytes' \in 0 .. m_flowSizeByte /\ m_totBytes' >= m_totBytes
        /\ txBufferSize' \in 0 .. m_totBytes' /\ txBufferSize' <= sndBufSize
    BY <1>1, <1>4, <1>5
  <2>2. Acked' = Acked + free
    BY <1>1, <1>4, <1>5 DEF Acked
  <2> QED BY <2>1, <2>2
<1>7. CASE m_totBytes + sent = m_flowSizeByte
  <2>1. m_connected' = FALSE
    BY <1>3, <1>7, Zenon
  <2>2. closeCalls' = 1 /\ m_totBytes' = m_flowSizeByte
    BY <1>1, <1>3, <1>5, <1>7
  <2> QED BY <1>6, <2>1, <2>2
<1>8. CASE m_totBytes + sent # m_flowSizeByte
  <2>1. m_connected' = TRUE /\ closeCalls' = 0
    BY <1>1, <1>3, <1>8
  <2> QED BY <1>6, <2>1
<1> QED BY <1>7, <1>8

LEMMA ConnectionSucceededKeeps == FlowInv /\ ConnectionSucceeded => FlowInv'
<1> SUFFICES ASSUME FlowInv, ConnectionSucceeded PROVE FlowInv'
  OBVIOUS
<1>1. /\ connection = "connecting" /\ connection' = "open" /\ results = "no" /\ SendData(0)
      /\ UNCHANGED <<m_socket, outcomeVars, progressTime, progressValue, stateTime, serverVars,
                     sndBufSize, now, results>>
  BY DEF ConnectionSucceeded, Running
<1>2. txBufferSize = 0 /\ m_totBytes = 0 /\ closeCalls = 0 /\ 0 \in 0 .. txBufferSize
  BY <1>1 DEF FlowInv, BeforeOpening
<1>3. /\ m_totBytes' \in 0 .. m_flowSizeByte /\ m_totBytes' >= m_totBytes
      /\ txBufferSize' \in 0 .. m_totBytes' /\ txBufferSize' <= sndBufSize
      /\ Acked' = Acked + 0 /\ closeCalls' \in {0, 1} /\ m_connected' \in BOOLEAN
      /\ closeCalls' > 0 => m_totBytes' = m_flowSizeByte
      /\ m_connected' => closeCalls' = 0
  BY <1>1, <1>2, SendDataEffect
<1>4. Acked' = 0 /\ Acked = 0
  <2>1. Acked = 0
    BY <1>2 DEF Acked
  <2>2. Acked' = Acked + 0
    BY <1>3
  <2> QED BY <2>1, <2>2
<1>5. HasOutcome' = HasOutcome /\ ~HasOutcome
  BY <1>1 DEF FlowInv, OneOutcome, HasOutcome, outcomeVars
<1>6. Types'
  BY <1>1, <1>3 DEF FlowInv, Types, outcomeVars, serverVars
<1>7. Conservation'
  BY <1>1, <1>2, <1>3, <1>4 DEF FlowInv, Types, Conservation, serverVars
<1>8. OneOutcome'
  BY <1>1, <1>4, <1>5 DEF FlowInv, OneOutcome, HasOutcome, outcomeVars
<1>9. Closing' /\ BeforeOpening' /\ Logged'
  BY <1>1, <1>3, <1>4 DEF FlowInv, Closing, BeforeOpening, Logged
<1> QED BY <1>6, <1>7, <1>8, <1>9 DEF FlowInv

LEMMA AcknowledgeKeeps ==
  ASSUME FlowInv, NEW free \in 1 .. m_flowSizeByte, Acknowledge(free)
  PROVE  FlowInv' /\ Acked' = Acked + free
<1>1. /\ connection = "open" /\ results = "no" /\ DataSend(free)
      /\ progressTime' = now /\ progressValue' = Acked + free
      /\ free <= m_totalRx - Acked
      /\ UNCHANGED <<m_socket, outcomeVars, stateTime, serverVars, connection, sndBufSize, now,
                     results>>
  BY AckedIs DEF Acknowledge, Running, LogProgress
<1>2. free \in 0 .. txBufferSize
  BY <1>1, FlowSizeAssumption DEF FlowInv, Types, Conservation, Acked
<1>3. /\ m_totBytes' \in 0 .. m_flowSizeByte /\ m_totBytes' >= m_totBytes
      /\ txBufferSize' \in 0 .. m_totBytes' /\ txBufferSize' <= sndBufSize
      /\ Acked' = Acked + free /\ closeCalls' \in Nat
      /\ closeCalls' > 0 => closeCalls' = 1 /\ m_totBytes' = m_flowSizeByte
      /\ m_connected' => closeCalls' = 0
  <2>1. CASE m_connected /\ SendData(free)
    BY <1>2, <2>1, SendDataEffect
  <2>2. CASE /\ ~m_connected /\ txBufferSize' = txBufferSize - free
             /\ UNCHANGED <<m_totBytes, m_connected, closeCalls, closing>>
    BY <1>2, <2>2, FlowSizeAssumption, BufferAssumption DEF FlowInv, Types, Closing, Acked
  <2> QED BY <1>1, <2>1, <2>2 DEF DataSend
<1>4. HasOutcome' = HasOutcome /\ ~HasOutcome
  BY <1>1 DEF FlowInv, OneOutcome, HasOutcome, outcomeVars
<1>5. Types'
  BY <1>1, <1>3 DEF FlowInv, Types, outcomeVars, serverVars
<1>6. Conservation'
  <2>1. Acked \in Int /\ m_totalRx \in Nat /\ m_totBytes \in Nat /\ m_totBytes' \in Nat
    BY <1>3, FlowSizeAssumption DEF FlowInv, Types, Acked
  <2>2. Acked + free <= m_totalRx /\ m_totalRx <= m_totBytes'
    BY <1>1, <1>3, <2>1, FlowSizeAssumption DEF FlowInv, Conservation
  <2>3. Acked' = Acked + free /\ m_totalRx' = m_totalRx
    BY <1>1, <1>3 DEF serverVars
  <2> QED BY <2>2, <2>3 DEF Conservation
<1>7. OneOutcome'
  BY <1>1, <1>4 DEF FlowInv, OneOutcome, HasOutcome, outcomeVars
<1>8. Closing' /\ BeforeOpening' /\ Logged'
  BY <1>1, <1>3 DEF FlowInv, Closing, BeforeOpening, Logged
<1> QED BY <1>3, <1>5, <1>6, <1>7, <1>8 DEF FlowInv
----------------------------------------------------------------------------
(* Outcomes *)

\* A connection that ends with one of the three outcomes.
LEMMA OutcomeKeeps ==
  ASSUME FlowInv, connection # "over", connection' = "over", results = "no",
         m_completionTimeNs' = now,
         ConnectionFailed \/ SocketClosedNormal \/ SocketClosedError,
         ConnectionFailed => Acked = 0,
         UNCHANGED <<m_connected, m_totBytes, serverVars, closeCalls, txBufferSize, sndBufSize,
                     now, results>>,
         progressTime' \in {progressTime, now}, stateTime' \in {stateTime, now},
         progressValue' = progressValue \/ progressValue' = Acked,
         connection = "none" => progressValue' = Acked
  PROVE  FlowInv'
<1>1. Acked' = Acked
  BY DEF Acked
<1>2. Types'
  BY DEF FlowInv, Types, serverVars
<1>3. Conservation' /\ BeforeOpening' /\ Closing' /\ Logged'
  BY <1>1 DEF FlowInv, Conservation, BeforeOpening, Closing, Logged, serverVars
<1>4. Acked \in 0 .. m_flowSizeByte /\ m_flowSizeByte \in Nat
  BY AckedIs, FlowSizeAssumption
<1>5. progressTime' <= now
  BY HorizonAssumption DEF FlowInv, Types
<1>6. OneOutcome'
  <2>1. CASE ConnectionFailed
    BY <1>1, <1>5, <2>1 DEF OneOutcome, HasOutcome, ConnectionFailed
  <2>2. CASE SocketClosedNormal
    <3>1. m_isCompleted' <=> Acked = m_flowSizeByte
      BY <2>2, Zenon DEF SocketClosedNormal, Acked
    <3>2. m_ackedBytes' = Acked
      BY <2>2 DEF SocketClosedNormal, Acked
    <3>3. ~m_isCompleted' => Acked < m_flowSizeByte
      <4> HIDE DEF Acked
      <4> QED BY <1>4, <3>1
    <3> HIDE DEF Acked
    <3> QED BY <1>1, <1>5, <2>2, <3>1, <3>2, <3>3 DEF OneOutcome, HasOutcome, SocketClosedNormal
  <2>3. CASE SocketClosedError
    <3>1. m_ackedBytes' = Acked
      BY <2>3 DEF SocketClosedError, Acked
    <3> HIDE DEF Acked
    <3> QED BY <1>1, <1>5, <2>3, <3>1 DEF OneOutcome, HasOutcome, SocketClosedError
  <2> QED BY <2>1, <2>2, <2>3
<1> QED BY <1>2, <1>3, <1>6 DEF FlowInv

LEMMA StartApplicationKeeps == FlowInv /\ StartApplication => FlowInv'
<1> SUFFICES ASSUME FlowInv, StartApplication PROVE FlowInv'
  OBVIOUS
<1>1. /\ connection = "none" /\ results = "no"
      /\ UNCHANGED <<m_connected, m_totBytes, serverVars, closeCalls, closing, txBufferSize,
                     sndBufSize, now>>
  BY DEF StartApplication, Running
<1>2. Acked = 0 /\ Acked' = Acked
  BY <1>1 DEF FlowInv, BeforeOpening, Acked
<1>3. CASE /\ connection' = "over" /\ ConnectionFailed /\ UNCHANGED results
           /\ LogProgress(GetAckedBytes) /\ stateTime' = now
  <2>1. progressTime' = now /\ progressValue' = Acked
    BY <1>3, AckedIs DEF LogProgress
  <2> QED BY <1>1, <1>2, <1>3, <2>1, OutcomeKeeps DEF ConnectionFailed
<1>4. CASE /\ connection' = "connecting" /\ UNCHANGED <<outcomeVars, results>>
           /\ LogProgress(GetAckedBytes) /\ stateTime' = now
  <2>0. progressTime' = now /\ progressValue' = Acked
    BY <1>4, AckedIs DEF LogProgress
  <2>1. HasOutcome' = HasOutcome /\ ~HasOutcome
    BY <1>1, <1>4 DEF FlowInv, OneOutcome, HasOutcome, outcomeVars
  <2>2. Types'
    BY <1>1, <1>4, <2>0, HorizonAssumption DEF FlowInv, Types, outcomeVars, serverVars
  <2>3. OneOutcome'
    BY <1>1, <1>2, <1>4, <2>0, <2>1 DEF FlowInv, OneOutcome, outcomeVars
  <2>4. Conservation' /\ BeforeOpening' /\ Closing' /\ Logged'
    BY <1>1, <1>2, <1>4, <2>0
       DEF FlowInv, Conservation, BeforeOpening, Closing, Logged, serverVars
  <2> QED BY <2>2, <2>3, <2>4 DEF FlowInv
<1>5. CASE /\ results' = "died"
           /\ UNCHANGED <<connection, outcomeVars, progressTime, progressValue, stateTime>>
  <2>1. HasOutcome' = HasOutcome
    BY <1>5 DEF HasOutcome, outcomeVars
  <2>2. Types'
    BY <1>1, <1>5 DEF FlowInv, Types, outcomeVars, serverVars
  <2>3. OneOutcome'
    BY <1>2, <1>5, <2>1 DEF FlowInv, OneOutcome, outcomeVars
  <2>4. Conservation' /\ BeforeOpening' /\ Closing' /\ Logged'
    BY <1>1, <1>2, <1>5
       DEF FlowInv, Conservation, BeforeOpening, Closing, Logged, serverVars
  <2> QED BY <2>2, <2>3, <2>4 DEF FlowInv
<1> QED BY <1>3, <1>4, <1>5 DEF StartApplication

LEMMA EndKeeps ==
  FlowInv /\ (ConnectRetriesExhausted \/ NormalClose \/ ErrorClose) => FlowInv'
<1> SUFFICES ASSUME FlowInv, ConnectRetriesExhausted \/ NormalClose \/ ErrorClose PROVE FlowInv'
  OBVIOUS
<1>1. /\ connection \in {"connecting", "open"} /\ connection' = "over" /\ results = "no"
      /\ UNCHANGED <<m_connected, m_totBytes, progressTime, progressValue, stateTime, serverVars,
                     closeCalls, closing, txBufferSize, sndBufSize, now, results>>
  BY DEF ConnectRetriesExhausted, NormalClose, ErrorClose, Running
<1>2. CASE ConnectRetriesExhausted
  <2>1. ConnectionFailed /\ m_completionTimeNs' = now
    BY <1>2 DEF ConnectRetriesExhausted, ConnectionFailed
  <2>2. Acked = 0
    BY <1>2 DEF FlowInv, BeforeOpening, ConnectRetriesExhausted, Acked
  <2> QED BY <1>1, <2>1, <2>2, OutcomeKeeps
<1>3. CASE NormalClose
  <2>1. SocketClosedNormal /\ m_completionTimeNs' = now /\ ~ConnectionFailed
    BY <1>3 DEF NormalClose, SocketClosedNormal, ConnectionFailed
  <2> QED BY <1>1, <2>1, OutcomeKeeps
<1>4. CASE ErrorClose
  <2>1. SocketClosedError /\ m_completionTimeNs' = now /\ ~ConnectionFailed
    BY <1>4 DEF ErrorClose, SocketClosedError, ConnectionFailed
  <2> QED BY <1>1, <2>1, OutcomeKeeps
<1> QED BY <1>2, <1>3, <1>4

----------------------------------------------------------------------------
(* The other events *)

\* Steps that leave the client alone, but for the state of its socket.
LEMMA QuietKeeps ==
  ASSUME FlowInv,
         UNCHANGED <<clientVars, connection, closeCalls, txBufferSize, sndBufSize, results>>,
         m_totalRx' \in Nat, m_totalRx' >= m_totalRx, m_totalRx' <= m_totBytes,
         now' \in 0 .. Horizon, now' >= now
  PROVE  FlowInv'
<1>1. Acked' = Acked /\ HasOutcome' = HasOutcome
  BY DEF Acked, HasOutcome, clientVars, outcomeVars
<1>2. Types'
  BY HorizonAssumption DEF FlowInv, Types, clientVars, outcomeVars
<1>3. Conservation'
  BY <1>1, AckedIs, FlowSizeAssumption DEF FlowInv, Types, Conservation, clientVars
<1>4. OneOutcome'
  BY <1>1 DEF FlowInv, OneOutcome, clientVars, outcomeVars
<1>5. BeforeOpening' /\ Closing' /\ Logged'
  BY <1>1 DEF FlowInv, BeforeOpening, Closing, Logged, clientVars
<1> QED BY <1>2, <1>3, <1>4, <1>5 DEF FlowInv

\* A trace of the socket's state, whenever it comes.
LEMMA StateChangeKeeps == FlowInv /\ StateChange => FlowInv'
<1> SUFFICES ASSUME FlowInv, StateChange PROVE FlowInv'
  OBVIOUS
<1>1. /\ stateTime' = now
      /\ UNCHANGED <<m_socket, m_connected, m_totBytes, outcomeVars, progressTime,
                     progressValue, serverVars, socketVars, now, results>>
  BY DEF StateChange
<1>2. Acked' = Acked /\ HasOutcome' = HasOutcome
  BY <1>1 DEF Acked, HasOutcome, outcomeVars, socketVars
<1>3. Types'
  BY <1>1, HorizonAssumption DEF FlowInv, Types, outcomeVars, serverVars, socketVars
<1>4. OneOutcome'
  BY <1>1, <1>2 DEF FlowInv, OneOutcome, outcomeVars, socketVars
<1>5. Conservation' /\ BeforeOpening' /\ Closing' /\ Logged'
  BY <1>1, <1>2 DEF FlowInv, Conservation, BeforeOpening, Closing, Logged, serverVars, socketVars
<1> QED BY <1>3, <1>4, <1>5 DEF FlowInv

LEMMA WriteResultsKeeps == FlowInv /\ WriteResults => FlowInv'
<1> SUFFICES ASSUME FlowInv, WriteResults PROVE FlowInv'
  OBVIOUS
<1>1. /\ UNCHANGED <<clientVars, serverVars, socketVars, now>> /\ connection # "none"
      /\ results' = IF FinalizeDetailedLogs THEN "written" ELSE "threw"
  BY DEF WriteResults
<1>2. FinalizeDetailedLogs
  BY HorizonAssumption DEF FlowInv, Types, OneOutcome, FinalizeDetailedLogs, Timestamp
<1>3. results' = "written"
  BY <1>1, <1>2
<1>4. Acked' = Acked /\ HasOutcome' = HasOutcome
  BY <1>1 DEF Acked, HasOutcome, clientVars, outcomeVars, socketVars
<1>5. Types' /\ Conservation' /\ BeforeOpening' /\ Closing' /\ Logged'
  BY <1>1, <1>3, <1>4 DEF FlowInv, Types, Conservation, BeforeOpening, Closing, Logged,
     clientVars, outcomeVars, serverVars, socketVars
<1>6. OneOutcome'
  BY <1>1, <1>4 DEF FlowInv, OneOutcome, clientVars, outcomeVars, socketVars
<1> QED BY <1>5, <1>6 DEF FlowInv

LEMMA EnvironmentKeeps ==
  ASSUME FlowInv,
         \/ ExternalClose \/ SendFin \/ HandleAccept \/ CleanUp \/ Tick
         \/ \E bytes \in 1 .. m_flowSizeByte : HandleRead(bytes)
  PROVE  FlowInv'
<1>1. m_totalRx \in Nat /\ now \in 0 .. Horizon /\ m_totalRx <= m_totBytes /\ now <= now
  BY HorizonAssumption DEF FlowInv, Types, Conservation
<1>2. CASE ExternalClose \/ SendFin \/ HandleAccept \/ CleanUp
  BY <1>1, <1>2, QuietKeeps
     DEF ExternalClose, SendFin, HandleAccept, CleanUp, serverVars, socketVars
<1>3. CASE Tick
  BY <1>1, <1>3, HorizonAssumption, QuietKeeps DEF Tick, serverVars, socketVars
<1>4. ASSUME NEW bytes \in 1 .. m_flowSizeByte, HandleRead(bytes) PROVE FlowInv'
  BY <1>1, <1>4, FlowSizeAssumption, QuietKeeps DEF HandleRead, socketVars
<1> QED BY <1>2, <1>3, <1>4

\* The inductive invariant.
THEOREM FlowInvariant == Spec => []FlowInv
<1>1. FlowInv /\ [Next]_vars => FlowInv'
  BY UnchangedInv, StartApplicationKeeps, ConnectionSucceededKeeps, AcknowledgeKeeps, EndKeeps,
     StateChangeKeeps, EnvironmentKeeps, WriteResultsKeeps DEF Next
<1> QED BY <1>1, InitFlow, PTL DEF Spec

----------------------------------------------------------------------------
(* What it implies *)

\* What the client reports as sent has been read by the server.
THEOREM ReportedReceived == Spec => []ReportedIsReceived
<1>1. FlowInv => ReportedIsReceived
  BY AckedIs, FlowSizeAssumption DEF FlowInv, Types, Conservation, OneOutcome, ReportedIsReceived
<1> QED BY <1>1, FlowInvariant, PTL

\* The client closes its socket once, after the last byte.
THEOREM ClosedOnce == Spec => []ClosedWhenAllIsSent
<1>1. FlowInv => ClosedWhenAllIsSent
  BY DEF FlowInv, Closing, ClosedWhenAllIsSent
<1> QED BY <1>1, FlowInvariant, PTL

\* No log is finalized before its latest update, and the progress log ends
\* with the amount of the flow's line.
THEOREM ProgressMatches == Spec => []ProgressLogMatchesLine
<1>1. FlowInv => ProgressLogMatchesLine
  BY AckedIs DEF FlowInv, Logged, ProgressLogMatchesLine
<1> QED BY <1>1, FlowInvariant, PTL
----------------------------------------------------------------------------
(* The line of the flow implements FlowReport *)

LEMMA OngoingUnlessOver ==
  FlowInv => (FinishedState = "NO_ONGOING" <=> connection # "over")
BY DEF FlowInv, OneOutcome, HasOutcome, FinishedState

LEMMA LineOfOutcome ==
  FlowInv =>
         /\ FinishedState \in {"YES", "NO_CONN_FAIL", "NO_BAD_CLOSE", "NO_ERR_CLOSE", "NO_ONGOING"}
         /\ FinishedState = "YES" => Acked = m_flowSizeByte
         /\ FinishedState = "NO_BAD_CLOSE" => Acked < m_flowSizeByte
         /\ FinishedState = "NO_CONN_FAIL" => Acked = 0
BY DEF FlowInv, OneOutcome, FinishedState

\* A step that changes the line is taken while the flow is ongoing, and does
\* not take back what was acknowledged.
LEMMA LineSteps ==
  ASSUME FlowInv, FlowInv', Next
  PROVE  \/ UNCHANGED <<Acked, FinishedState>>
         \/ connection # "over" /\ Acked' >= Acked
<1>1. Acked \in 0 .. m_flowSizeByte /\ m_flowSizeByte \in Nat
  BY AckedIs, FlowSizeAssumption
<1>2. CASE StartApplication \/ ConnectRetriesExhausted \/ NormalClose \/ ErrorClose
  BY <1>1, <1>2
     DEF StartApplication, ConnectRetriesExhausted, NormalClose, ErrorClose, Acked
<1>3. CASE ConnectionSucceeded
  <2>1. Acked = 0 /\ connection # "over"
    BY <1>3 DEF FlowInv, BeforeOpening, ConnectionSucceeded, Acked
  <2>2. Acked' \in 0 .. m_flowSizeByte
    <3>1. FlowInv' => (Acked \in 0 .. m_flowSizeByte)'
      BY AckedIs, PTL
    <3> QED BY <3>1
  <2> QED BY <2>1, <2>2
<1>4. ASSUME NEW free \in 1 .. m_flowSizeByte, Acknowledge(free)
      PROVE  connection # "over" /\ Acked' >= Acked
  <2>1. connection # "over"
    BY <1>4 DEF Acknowledge
  <2>2. Acked' = Acked + free
    BY <1>4, AcknowledgeKeeps
  <2> QED BY <1>1, <2>1, <2>2
<1>5. CASE StateChange \/ ExternalClose \/ SendFin \/ HandleAccept \/ CleanUp \/ Tick
           \/ WriteResults
           \/ \E bytes \in 1 .. m_flowSizeByte : HandleRead(bytes)
  BY <1>5 DEF StateChange, ExternalClose, SendFin, HandleAccept, CleanUp, Tick, WriteResults, HandleRead,
     Acked, FinishedState, clientVars, outcomeVars, serverVars, socketVars
<1> QED BY <1>2, <1>3, <1>4, <1>5 DEF Next

\* Refinement: every behaviour of client, server and sockets is one that
\* FlowReport allows for the line of the flow.
THEOREM ReportRefined == Spec => ReportIsFinal
<1>1. Init => Report!ReportInit
  BY DEF Init, Report!ReportInit, GetAckedBytes, HasOutcome, FinishedState
<1>2. ASSUME FlowInv, FlowInv', [Next]_vars
      PROVE  [Report!ReportNext]_<<GetAckedBytes, FinishedState>>
  <2>1. GetAckedBytes = Acked /\ Acked \in 0 .. m_flowSizeByte
    BY <1>2, AckedIs
  <2>2. GetAckedBytes' = Acked' /\ Acked' \in 0 .. m_flowSizeByte
    <3>1. FlowInv' => (GetAckedBytes = Acked /\ Acked \in 0 .. m_flowSizeByte)'
      BY AckedIs, PTL
    <3> QED BY <1>2, <3>1
  <2>3. CASE UNCHANGED vars
    BY <2>3 DEF vars, clientVars, outcomeVars, socketVars, GetAckedBytes, HasOutcome, FinishedState
  <2>4. CASE UNCHANGED <<Acked, FinishedState>>
    BY <2>1, <2>2, <2>4
  <2>5. CASE connection # "over" /\ Acked' >= Acked
    <3>1. FinishedState = "NO_ONGOING"
      BY <1>2, <2>5, OngoingUnlessOver
    <3>2. /\ FinishedState' \in Report!States
          /\ FinishedState' = "YES" => Acked' = m_flowSizeByte
          /\ FinishedState' = "NO_BAD_CLOSE" => Acked' < m_flowSizeByte
          /\ FinishedState' = "NO_CONN_FAIL" => Acked' = 0
      <4>1. FlowInv' =>
              (/\ FinishedState \in {"YES", "NO_CONN_FAIL", "NO_BAD_CLOSE", "NO_ERR_CLOSE",
                                     "NO_ONGOING"}
               /\ FinishedState = "YES" => Acked = m_flowSizeByte
               /\ FinishedState = "NO_BAD_CLOSE" => Acked < m_flowSizeByte
               /\ FinishedState = "NO_CONN_FAIL" => Acked = 0)'
        BY LineOfOutcome, PTL
      <4> QED BY <1>2, <4>1 DEF Report!States
    <3>3. Acked' \in Acked .. m_flowSizeByte
      BY <2>1, <2>2, <2>5, FlowSizeAssumption
    <3> QED BY <2>1, <2>2, <3>1, <3>2, <3>3 DEF Report!ReportNext
  <2> QED BY <1>2, <2>3, <2>4, <2>5, LineSteps
<1> QED BY <1>1, <1>2, FlowInvariant, PTL DEF Spec, ReportIsFinal, Report!ReportSpec

----------------------------------------------------------------------------
(* The settings, for any configurations, any number of simulations in the  *)
(* process and any number of calls of Configure.  A later call of          *)
(* Configure finds the values of the first, so that the invariant cannot   *)
(* say of an attribute that is not yet set that it is ns-3's: it is that,  *)
(* or already what is wanted.                                              *)

Phases == {"idle", "created", "setting", "configured", "threw", "aborted"}

Wanted(c) ==
  IF c.type = "custom" THEN ConfigureCustom(c.keys)
  ELSE IF c.type = "basic" THEN ConfigureBasic ELSE Ns3Defaults

\* Configure would not throw.
AcceptedSettings(c) ==
  /\ c.type \in {"default", "basic", "custom"}
  /\ c.type = "custom" => \A i \in Positions : ConfigureCustom(c.keys)[i] # Error

Untouched == phase \in {"idle", "created", "threw"} => attributes = Reset

UnderWay ==
  phase = "setting" =>
    /\ position \in Positions
    /\ AcceptedSettings(configuration) /\ configuration.type # "default"
    /\ arguments = Wanted(configuration)
    /\ \A i \in Positions :
         /\ i < position => attributes[Attributes[i]] = arguments[i]
         /\ attributes[Attributes[i]] \in {Ns3Defaults[i], arguments[i]}

Done ==
  phase = "configured" =>
    /\ AcceptedSettings(configuration)
    /\ \A i \in Positions : attributes[Attributes[i]] = Wanted(configuration)[i]

ConfigInv ==
  /\ phase \in Phases
  /\ attributes \in [DOMAIN Reset -> {attributes[a] : a \in DOMAIN Reset}]
  /\ Untouched
  /\ UnderWay
  /\ Done

----------------------------------------------------------------------------
(* The tables of the code, row by row *)

LEMMA Rows == Positions = 1 .. 17 /\ Len(Attributes) = 17 /\ DOMAIN Keys = 1 .. 17
BY DEF Positions, Attributes, Keys

LEMMA RowNumber ==
  ASSUME NEW i \in 1 .. 17
  PROVE  i = 1 \/ i = 2 \/ i = 3 \/ i = 4 \/ i = 5 \/ i = 6 \/ i = 7 \/ i = 8 \/ i = 9 \/ i = 10
         \/ i = 11 \/ i = 12 \/ i = 13 \/ i = 14 \/ i = 15 \/ i = 16 \/ i = 17
OBVIOUS

\* No attribute is set twice.
LEMMA AttributesDiffer ==
  ASSUME NEW i \in Positions, NEW j \in Positions, Attributes[i] = Attributes[j]
  PROVE  i = j
<1> DEFINE Row ==
      [ClockGranularity |-> 1, InitialCwnd |-> 2, SndBufSize |-> 3, RcvBufSize |-> 4,
       SegmentSize |-> 5, Timestamp |-> 6, Sack |-> 7, WindowScaling |-> 8,
       EnablePacing |-> 9, DelAckCount |-> 10, TcpNoDelay |-> 11, MaxSegLifetime |-> 12,
       MinRto |-> 13, InitialEstimation |-> 14, ConnTimeout |-> 15, DelAckTimeout |-> 16,
       PersistTimeout |-> 17]
<1>1. ASSUME NEW k \in 1 .. 17 PROVE Row[Attributes[k]] = k
  BY RowNumber DEF Attributes
<1> HIDE DEF Row
<1> QED BY <1>1, Rows

LEMMA ResetRow ==
  /\ DOMAIN Reset = {Attributes[i] : i \in Positions}
  /\ \A i \in Positions : Attributes[i] \in DOMAIN Reset /\ Reset[Attributes[i]] = Ns3Defaults[i]
BY AttributesDiffer DEF Reset

\* Each attribute of the documentation is in the row of its own key.
LEMMA DocumentedRow ==
  ASSUME NEW a \in DOMAIN KeyOf
  PROVE  \E i \in 1 .. 17 : a = Attributes[i] /\ KeyOf[a] = Keys[i]
BY SMTT(60) DEF KeyOf, Attributes, Keys

\* What is changed by "basic" according to the documentation is what differs
\* from ns-3 in the code.
LEMMA BasicRow ==
  ASSUME NEW i \in 1 .. 17
  PROVE  /\ Attributes[i] \in DOMAIN BasicChanges =>
              ConfigureBasic[i] = BasicChanges[Attributes[i]]
         /\ Attributes[i] \notin DOMAIN BasicChanges => ConfigureBasic[i] = Ns3Defaults[i]
<1>1. CASE i \in {3, 4, 5, 13, 15}
  BY <1>1, SMTT(60) DEF ConfigureBasic, BasicChanges, Attributes
<1>2. CASE i \in {1, 2, 10, 12, 14, 16, 17}
  <2>1. Attributes[i] \notin DOMAIN BasicChanges
    BY <1>2, SMTT(60) DEF BasicChanges, Attributes
  <2>2. ConfigureBasic[i] = Ns3Defaults[i]
    BY <1>2, SMTT(60) DEF ConfigureBasic, Ns3Defaults
  <2> QED BY <2>1, <2>2
<1>3. CASE i \in {6, 7, 8, 9, 11}
  <2>1. Attributes[i] \notin DOMAIN BasicChanges
    BY <1>3, SMTT(60) DEF BasicChanges, Attributes
  <2>2. ConfigureBasic[i] = Ns3Defaults[i]
    <3>1. ConfigureBasic[6] = Ns3Defaults[6]
      BY SMT DEF ConfigureBasic, Ns3Defaults
    <3>2. ConfigureBasic[7] = Ns3Defaults[7]
      BY SMT DEF ConfigureBasic, Ns3Defaults
    <3>3. ConfigureBasic[8] = Ns3Defaults[8]
      BY SMT DEF ConfigureBasic, Ns3Defaults
    <3>4. ConfigureBasic[9] = Ns3Defaults[9]
      BY SMT DEF ConfigureBasic, Ns3Defaults
    <3>5. ConfigureBasic[11] = Ns3Defaults[11]
      BY SMT DEF ConfigureBasic, Ns3Defaults
    <3> QED BY <1>3, <3>1, <3>2, <3>3, <3>4, <3>5
  <2> QED BY <2>1, <2>2
<1> QED BY <1>1, <1>2, <1>3, RowNumber

LEMMA CustomRow ==
  ASSUME NEW c, NEW i \in Positions
  PROVE  ConfigureCustom(c.keys)[i] = Value(Keys[i], c.keys)
BY Rows DEF ConfigureCustom

\* What an accepted configuration wants is what the documentation says of it.
LEMMA WantedIsDocumented ==
  ASSUME NEW a \in DOMAIN KeyOf, AcceptedSettings(configuration),
         \A i \in Positions : attributes[Attributes[i]] = Wanted(configuration)[i]
  PROVE  attributes[a] =
           CASE configuration.type = "custom" -> Value(KeyOf[a], configuration.keys)
             [] configuration.type = "basic" /\ a \in DOMAIN BasicChanges -> BasicChanges[a]
             [] OTHER -> Reset[a]
<1>1. PICK i \in Positions : a = Attributes[i] /\ KeyOf[a] = Keys[i]
  BY DocumentedRow, Rows
<1>2. attributes[a] = Wanted(configuration)[i]
  BY <1>1
<1>3. Reset[a] = Ns3Defaults[i]
  BY <1>1, ResetRow
<1>4. CASE configuration.type = "custom"
  BY <1>1, <1>2, <1>4, CustomRow DEF Wanted
<1>5. CASE configuration.type = "basic" /\ a \in DOMAIN BasicChanges
  <2>1. attributes[a] = BasicChanges[a]
    BY <1>1, <1>2, <1>5, BasicRow, Rows DEF Wanted
  <2> QED BY <2>1, <1>5
<1>6. CASE configuration.type = "basic" /\ a \notin DOMAIN BasicChanges
  <2>1. attributes[a] = Reset[a]
    BY <1>1, <1>2, <1>3, <1>6, BasicRow, Rows DEF Wanted
  <2> QED BY <2>1, <1>6
<1>7. CASE configuration.type = "default"
  <2>1. attributes[a] = Reset[a]
    BY <1>2, <1>3, <1>7 DEF Wanted
  <2> QED BY <2>1, <1>7
<1> QED BY <1>4, <1>5, <1>6, <1>7 DEF AcceptedSettings

----------------------------------------------------------------------------
(* The steps *)

LEMMA ResetType == Reset \in [DOMAIN Reset -> {Reset[a] : a \in DOMAIN Reset}]
BY DEF Reset

LEMMA InitHolds == TcInit => ConfigInv
BY ResetType DEF TcInit, ConfigInv, Phases, Untouched, UnderWay, Done

LEMMA CreateKeeps == ConfigInv /\ Create => ConfigInv'
BY DEF ConfigInv, Phases, Untouched, UnderWay, Done, Create

LEMMA FinalizeKeeps == ConfigInv /\ Finalize => ConfigInv'
BY ResetType DEF ConfigInv, Phases, Untouched, UnderWay, Done, Finalize

LEMMA StutterKeeps == ConfigInv /\ UNCHANGED tcVars => ConfigInv'
BY DEF ConfigInv, Phases, Untouched, UnderWay, Done, tcVars

\* A configuration is refused at the first call or not at all.
LEMMA ConfigureKeeps == ConfigInv /\ Configure => ConfigInv'
<1> SUFFICES ASSUME ConfigInv, Configure PROVE ConfigInv'
  OBVIOUS
<1> DEFINE wrong == Error \in {ConfigureCustom(configuration.keys)[i] :
                                 i \in DOMAIN ConfigureCustom(configuration.keys)}
<1>1. /\ phase \in {"created", "configured"}
      /\ attributes' = attributes /\ configuration' = configuration
  BY DEF Configure
<1>2. wrong <=> \E i \in Positions : ConfigureCustom(configuration.keys)[i] = Error
  BY Rows DEF ConfigureCustom
<1>3. \A i \in Positions : attributes[Attributes[i]] \in {Ns3Defaults[i], Wanted(configuration)[i]}
  BY <1>1, ResetRow DEF ConfigInv, Untouched, Done
<1>4. CASE configuration.type = "default" /\ phase' = "configured"
  BY <1>1, <1>4, ResetRow DEF ConfigInv, Phases, Untouched, UnderWay, Done, AcceptedSettings, Wanted
<1>5. CASE configuration.type = "basic" /\ SetAll(ConfigureBasic)
  BY <1>1, <1>3, <1>5, Rows
     DEF ConfigInv, Phases, Untouched, UnderWay, Done, AcceptedSettings, Wanted, SetAll
<1>6. CASE configuration.type = "custom" /\ ~wrong /\ SetAll(ConfigureCustom(configuration.keys))
  BY <1>1, <1>2, <1>3, <1>6, Rows
     DEF ConfigInv, Phases, Untouched, UnderWay, Done, AcceptedSettings, Wanted, SetAll
<1>7. CASE /\ Throw
           /\ \/ configuration.type = "custom" /\ wrong
              \/ configuration.type \notin {"default", "basic", "custom"}
  <2>1. ~AcceptedSettings(configuration)
    BY <1>2, <1>7 DEF AcceptedSettings
  <2>2. attributes = Reset
    BY <1>1, <2>1 DEF ConfigInv, Untouched, Done
  <2> QED BY <1>1, <1>7, <2>2 DEF ConfigInv, Phases, Untouched, UnderWay, Done, Throw
<1> QED BY <1>4, <1>5, <1>6, <1>7 DEF Configure

LEMMA SetTcpAttributeKeeps == ConfigInv /\ SetTcpAttribute => ConfigInv'
<1> SUFFICES ASSUME ConfigInv, SetTcpAttribute PROVE ConfigInv'
  OBVIOUS
<1> DEFINE attribute == Attributes[position]
<1>1. /\ position \in Positions /\ attribute \in DOMAIN attributes
      /\ AcceptedSettings(configuration) /\ configuration.type # "default"
      /\ arguments = Wanted(configuration)
      /\ configuration' = configuration /\ arguments' = arguments
  BY ResetRow DEF SetTcpAttribute, ConfigInv, UnderWay
<1>2. CASE attributes[attribute] # Ns3Defaults[position]
  BY <1>2 DEF SetTcpAttribute, ConfigInv, Phases, Untouched, UnderWay, Done
<1>3. CASE attributes[attribute] = Ns3Defaults[position]
  <2>1. attributes' = [attributes EXCEPT ![attribute] = arguments[position]]
    BY <1>3 DEF SetTcpAttribute
  <2>2. attributes' \in [DOMAIN Reset -> {attributes'[a] : a \in DOMAIN Reset}]
    BY <2>1 DEF ConfigInv
  <2>3. attributes'[attribute] = arguments[position]
    BY <1>1, <2>1
  <2>4. ASSUME NEW i \in Positions, i # position
        PROVE  attributes'[Attributes[i]] = attributes[Attributes[i]]
    BY <1>1, <2>1, <2>4, AttributesDiffer
  <2>5. ASSUME NEW i \in Positions
        PROVE  /\ i < position + 1 => attributes'[Attributes[i]] = arguments[i]
               /\ attributes'[Attributes[i]] \in {Ns3Defaults[i], arguments[i]}
    <3>1. CASE i = position
      BY <2>3, <3>1
    <3>2. CASE i # position
      BY <1>1, <2>4, <2>5, <3>2, Rows DEF SetTcpAttribute, ConfigInv, UnderWay
    <3> QED BY <3>1, <3>2
  <2>6. CASE position = 17
    BY <1>1, <1>3, <2>2, <2>5, <2>6, Rows
       DEF SetTcpAttribute, ConfigInv, Phases, Untouched, UnderWay, Done
  <2>7. CASE position # 17
    BY <1>1, <1>3, <2>2, <2>5, <2>7, Rows
       DEF SetTcpAttribute, ConfigInv, Phases, Untouched, UnderWay, Done
  <2> QED BY <2>6, <2>7
<1> QED BY <1>2, <1>3

\* The inductive invariant: what the attributes hold at every moment of a
\* simulation, also between two of the seventeen calls of SetTcpAttributes.
THEOREM ConfigInvariant == TcSpec => []ConfigInv
<1>1. ConfigInv /\ [TcNext]_tcVars => ConfigInv'
  BY CreateKeeps, FinalizeKeeps, StutterKeeps, ConfigureKeeps, SetTcpAttributeKeeps DEF TcNext
<1> QED BY <1>1, InitHolds, PTL DEF TcSpec

\* Whatever ran in the process before and however often Configure is called, a
\* configured simulation has its own settings, and one that is refused has
\* changed none.
THEOREM SettingsCorrect == TcSpec => []SettingsAreOwn
<1>1. ConfigInv => SettingsAreOwn
  <2> SUFFICES ASSUME ConfigInv PROVE SettingsAreOwn
    OBVIOUS
  <2>1. ASSUME phase = "configured", NEW a \in DOMAIN KeyOf
        PROVE  attributes[a] =
                 CASE configuration.type = "custom" -> Value(KeyOf[a], configuration.keys)
                   [] configuration.type = "basic" /\ a \in DOMAIN BasicChanges -> BasicChanges[a]
                   [] OTHER -> Reset[a]
    BY <2>1, WantedIsDocumented DEF ConfigInv, Done
  <2> QED BY <2>1 DEF SettingsAreOwn, ConfigInv, Untouched
<1> QED BY <1>1, ConfigInvariant, PTL
=============================================================================
