-------------------------- MODULE StreamIngressProofs --------------------------
(***************************************************************************)
(* Proofs about StreamIngress, for any number of packets, any allowance    *)
(* and any limit on early data.                                            *)
(***************************************************************************)
EXTENDS StreamIngress, SequenceTheorems, FiniteSetTheorems, TLAPS

-------------------------------------------------------------------------------
(* The inductive invariant *)

HcPCs == {"admit", "dial", "confirm", "take", "flush", "write", "activate", "ready",
          "read", "close", "closeBoth", "closing", "closingBoth", "return", "done"}
RlPCs == {"idle", "hit", "fill", "open", "pend", "mode", "submit", "enqueue", "take",
          "check", "write", "credit", "direct", "closeDrop", "closingDrop", "closeKeep",
          "closingKeep", "teardown", "leaving", "gone"}
ClPCs == {"none", "signal", "delete", "uncache", "conn", "deactivate", "drain", "send",
          "done"}

\* The flags, and where the three processes are.
StreamFlags ==
  /\ isOpen \in BOOLEAN /\ connReadyDone \in BOOLEAN /\ inMap \in BOOLEAN
  /\ cached \in BOOLEAN /\ closeSent \in BOOLEAN
IngressFlags ==
  /\ ingressActive \in BOOLEAN /\ ingressWriting \in BOOLEAN /\ asyncClose \in BOOLEAN
OtherFlags ==
  /\ connClosed \in BOOLEAN /\ confirm \in BOOLEAN /\ clientClosed \in BOOLEAN
  /\ crashed \in BOOLEAN
Places ==
  /\ conn \in {"nil", "open", "closed"} /\ remote \in {"up", "eof", "down"}
  /\ kind \in {"tcp", "udp"} /\ streamType \in {"unset", kind}
  /\ hcPc \in HcPCs /\ rlPc \in RlPCs /\ clPc \in ClPCs
FlagTypes == StreamFlags /\ IngressFlags /\ OtherFlags /\ Places

\* A stream is closed for good, and ready means connected because only three things
\* make it ready: close(), a failed handleConnect, and one that has its socket.
LifeInv ==
  /\ clPc # "none" => ~isOpen
  /\ hcPc \in {"closing", "closingBoth", "return", "done"} => ~isOpen
  /\ hcPc \in {"admit", "dial"} => conn = "nil"
  /\ hcPc \in {"confirm", "take", "flush", "write", "activate", "ready", "read"} =>
       conn # "nil"
  /\ ReadyMeansConnected
  /\ isOpen /\ connReadyDone => hcPc \in {"read", "close"}

\* What the read loop knows once it has passed its tests.
ModeInv ==
  /\ rlPc \in {"mode", "submit", "enqueue", "take", "check", "write", "credit",
               "direct", "closeKeep", "closingKeep"} => connReadyDone
  /\ rlPc \in {"submit", "enqueue", "take", "check", "write", "credit", "closeKeep",
               "closingKeep"} => streamType = "tcp"
  /\ rlPc = "submit" /\ isOpen => ingressActive

ControlInv == FlagTypes /\ LifeInv /\ ModeInv

\* The read loop has no packet in hand.
Idle == {"idle", "teardown", "leaving", "gone"}

\* The packets on their way are those after the read loop's, in order, and a CLOSE
\* behind them.
ClientInv ==
  /\ pkt \in 0 .. Packets /\ sent \in 0 .. Packets /\ pkt <= sent
  /\ rlPc \notin Idle => pkt \in Packet
  /\ inflight \in Seq(Packet \cup {CLOSE})
  /\ Len(inflight) \in {sent - pkt, sent - pkt + 1}
  /\ Len(inflight) = sent - pkt + 1 => clientClosed
  /\ \A k \in 1 .. Len(inflight) :
       inflight[k] = IF k <= sent - pkt THEN pkt + k ELSE CLOSE

\* The read loop is the ingress writer of its own packet only.
QueueInv ==
  /\ ingressWriting <=> rlPc \in {"take", "check", "write"}
  /\ pendingIngress = <<>> \/ (rlPc = "take" /\ pendingIngress = <<pkt>>)
  /\ batch = IF rlPc \in {"check", "write"} THEN <<pkt>> ELSE <<>>

\* The read loop's packet is in none of the places a packet is kept in.
Unplaced ==
  \/ rlPc \in {"hit", "fill", "open", "pend", "mode", "submit", "enqueue", "check",
               "write", "direct"}
  \/ pendingIngress # <<>>

UpTo(s) == \A k \in DOMAIN s : s[k] <= pkt /\ (Unplaced => s[k] < pkt)

\* handleConnect has not taken the early data yet, and is writing it.
BeforeFlush == {"admit", "dial", "confirm", "take"}
Flushing == {"flush", "write"}

Increasing(s) == \A i, j \in DOMAIN s : i < j => s[i] < s[j]

\* Where packets are kept they are in order, and what the read loop has in hand is
\* later than all of them.  While the stream is open, nothing is written before
\* handleConnect has taken the early data, and that goes before the rest.
OrderInv ==
  /\ received \in Seq(Packet) /\ pending \in Seq(Packet) /\ pendingData \in Seq(Packet)
  /\ UpTo(received) /\ UpTo(pending) /\ UpTo(pendingData)
  /\ Increasing(pending) /\ Increasing(pendingData)
  /\ isOpen => Increasing(received)
  /\ hcPc \in BeforeFlush => pending = <<>> /\ (isOpen => received = <<>>)
  /\ hcPc = "write" => pending # <<>>
  /\ isOpen /\ hcPc \in Flushing =>
       \A i \in DOMAIN received, j \in DOMAIN pending : received[i] < pending[j]

\* The buffer of the read loop's packet has not been given back.
Owed == Unplaced \/ rlPc \in {"closeDrop", "closingDrop"}

PutsInv ==
  /\ puts \in [Packet -> Nat]
  /\ \A p \in Packet : /\ p > pkt => puts[p] = 0
                       /\ p < pkt => puts[p] >= 1
                       /\ isOpen => puts[p] <= 1
  /\ pkt \in Packet => (puts[pkt] >= 1 <=> ~Owed)

\* What the server holds of a client's packets, the one the read loop has not counted
\* towards a CONTINUE included.
InHand == IF rlPc \in Idle \cup {"closeDrop", "closingDrop"} THEN 0 ELSE 1
Held == (sent - pkt) + Len(pendingData) + Len(pending) + InHand

\* What is left of the allowance, and the second one of a stream that is confirmed.
Remaining == IF streamType = "unset" THEN BufferLength ELSE bufferRemaining
Extra == IF confirm /\ hcPc \notin {"admit", "dial", "confirm"} THEN BufferLength ELSE 0

CreditInv ==
  /\ bufferRemaining \in 0 .. BufferLength /\ credit \in 0 .. BufferLength
  /\ streamType # "unset" => bufferRemaining >= 1
  /\ kind = "tcp" => Held + credit <= Remaining + Extra

Inv ==
  ControlInv /\ ClientInv /\ QueueInv /\ OrderInv /\ PutsInv /\ CreditInv

\* The groups of variables that UNCHANGED names are spelled out in every proof below.
USE DEF vars, rest, others, outside, tableVars, sVars, connVars, ingressVars, hcVars,
        rlVars, clVars, flowVars, clientVars, dataVars, procVars

-------------------------------------------------------------------------------
(* The flags and the program counters *)

\* Flags stay flags, and every process stays in its program.
LEMMA FlagTypesStep ==
  ASSUME FlagTypes, [Next]_vars
  PROVE  FlagTypes'
<1> USE DEF FlagTypes
<1>1. CASE CloseSignal \/ CloseDelete \/ CloseConn \/ AsyncClose
  <2> USE <1>1 DEF CloseSignal, CloseDelete, CloseConn, AsyncClose, CallClose
  <2>1. StreamFlags'
    BY DEF StreamFlags
  <2>2. IngressFlags'
    BY DEF IngressFlags
  <2>3. OtherFlags'
    BY DEF OtherFlags
  <2>4. Places'
    BY DEF Places, ClPCs
  <2> QED BY <2>1, <2>2, <2>3, <2>4
<1>2. CASE CloseDeactivate \/ CloseDrain \/ CloseSend
  <2> USE <1>2 DEF CloseDeactivate, AfterDeactivate, CloseDrain, CloseSend
  <2>1. StreamFlags'
    BY DEF StreamFlags
  <2>2. IngressFlags'
    BY DEF IngressFlags
  <2>3. OtherFlags'
    BY DEF OtherFlags
  <2>4. Places'
    BY DEF Places, ClPCs
  <2> QED BY <2>1, <2>2, <2>3, <2>4
<1>3. CASE HcAdmit \/ HcDial \/ HcConfirm \/ HcTake \/ HcFlushCheck \/ HcFlushWrite
  <2> USE <1>3 DEF HcAdmit, HcDial, HcConfirm, HcTake, HcFlushCheck, HcFlushWrite
  <2>1. StreamFlags'
    BY DEF StreamFlags
  <2>2. IngressFlags'
    BY DEF IngressFlags
  <2>3. OtherFlags'
    BY DEF OtherFlags
  <2>4. Places'
    BY DEF Places, HcPCs
  <2> QED BY <2>1, <2>2, <2>3, <2>4
<1>4. CASE HcActivate \/ HcSignal \/ HcReadEnd \/ HcClose \/ HcCloseReturns
  <2> USE <1>4 DEF HcActivate, HcSignal, HcReadEnd, HcClose, HcCloseReturns,
        CallClose
  <2>1. StreamFlags'
    BY DEF StreamFlags
  <2>2. IngressFlags'
    BY DEF IngressFlags
  <2>3. OtherFlags'
    BY DEF OtherFlags
  <2>4. Places'
    BY DEF Places, HcPCs, ClPCs
  <2> QED BY <2>1, <2>2, <2>3, <2>4
<1>5. CASE RlData \/ RlClose \/ RlHit \/ RlFill \/ RlOpen
  <2> USE <1>5 DEF RlData, RlClose, RlHit, RlFill, RlOpen, Drop
  <2>1. StreamFlags'
    BY DEF StreamFlags
  <2>2. IngressFlags'
    BY DEF IngressFlags, StreamFlags
  <2>3. OtherFlags'
    BY DEF OtherFlags
  <2>4. Places'
    BY DEF Places, RlPCs
  <2> QED BY <2>1, <2>2, <2>3, <2>4
<1>6. CASE RlPend \/ RlMode \/ RlSubmit
  <2> USE <1>6 DEF RlPend, RlMode, RlSubmit, Drop
  <2>1. StreamFlags'
    BY DEF StreamFlags
  <2>2. IngressFlags'
    BY DEF IngressFlags
  <2>3. OtherFlags'
    BY DEF OtherFlags
  <2>4. Places'
    BY DEF Places, RlPCs
  <2> QED BY <2>1, <2>2, <2>3, <2>4
<1>7. CASE RlEnqueue \/ RlTake \/ RlCheck \/ RlCredit
  <2> USE <1>7 DEF RlEnqueue, Enqueue, RlTake, RlCheck, RlCredit, Keep
  <2>1. StreamFlags'
    BY DEF StreamFlags
  <2>2. IngressFlags'
    BY DEF IngressFlags
  <2>3. OtherFlags'
    BY DEF OtherFlags
  <2>4. Places'
    BY DEF Places, RlPCs
  <2> QED BY <2>1, <2>2, <2>3, <2>4
<1>8. CASE RlWrite \/ RlDirect
  <2> USE <1>8 DEF RlWrite, RlDirect, Drop
  <2>1. StreamFlags'
    BY DEF StreamFlags
  <2>2. IngressFlags'
    BY DEF IngressFlags
  <2>3. OtherFlags'
    BY DEF OtherFlags
  <2>4. Places'
    BY DEF Places, RlPCs
  <2> QED BY <2>1, <2>2, <2>3, <2>4
<1>9. CASE RlCallClose \/ RlCloseReturns \/ RlEnd
  <2> USE <1>9 DEF RlCallClose, RlCloseReturns, RlEnd, AtEnd, CallClose, Drop
  <2>1. StreamFlags'
    BY DEF StreamFlags
  <2>2. IngressFlags'
    BY DEF IngressFlags
  <2>3. OtherFlags'
    BY DEF OtherFlags
  <2>4. Places'
    BY DEF Places, RlPCs, ClPCs
  <2> QED BY <2>1, <2>2, <2>3, <2>4
<1>10. CASE RlTeardown \/ RlLeave
  <2> USE <1>10 DEF RlTeardown, RlLeave, CallClose
  <2>1. StreamFlags'
    BY DEF StreamFlags
  <2>2. IngressFlags'
    BY DEF IngressFlags
  <2>3. OtherFlags'
    BY DEF OtherFlags
  <2>4. Places'
    BY DEF Places, RlPCs, ClPCs
  <2> QED BY <2>1, <2>2, <2>3, <2>4
<1>11. CASE ClientSend \/ ClientClose \/ RemoteEnds
  <2> USE <1>11 DEF ClientSend, ClientClose, RemoteEnds
  <2>1. StreamFlags'
    BY DEF StreamFlags
  <2>2. IngressFlags'
    BY DEF IngressFlags
  <2>3. OtherFlags'
    BY DEF OtherFlags
  <2>4. Places'
    BY DEF Places
  <2> QED BY <2>1, <2>2, <2>3, <2>4
<1>12. CASE UNCHANGED vars
  BY <1>12 DEF StreamFlags, IngressFlags, OtherFlags, Places
<1> QED BY <1>1, <1>2, <1>3, <1>4, <1>5, <1>6, <1>7, <1>8, <1>9, <1>10, <1>11, <1>12
        DEF Next, Closing, HandleConnect, ReadLoop, SocketWrite

\* close() is under way only on a closed stream; handleConnect has a socket from the
\* dial on; nobody but they and a failure makes the stream ready.
LEMMA LifeStep ==
  ASSUME FlagTypes, LifeInv, [Next]_vars
  PROVE  LifeInv'
<1> USE DEF LifeInv, ReadyMeansConnected
<1>1. CASE Closing
  BY <1>1 DEF Closing, CloseSignal, CloseDelete, CloseConn, CloseDeactivate,
     CloseDrain, CloseSend, AsyncClose, CallClose
<1>2. CASE HandleConnect \/ HcFlushWrite
  <2>1. CASE HcAdmit
    BY <2>1 DEF HcAdmit
  <2>2. CASE HcDial
    BY <2>2 DEF HcDial
  <2>3. CASE HcConfirm
    BY <2>3 DEF HcConfirm
  <2>4. CASE HcTake
    BY <2>4 DEF HcTake
  <2>5. CASE HcFlushCheck
    BY <2>5 DEF HcFlushCheck
  <2>6. CASE HcFlushWrite
    BY <2>6 DEF HcFlushWrite
  <2>7. CASE HcActivate
    BY <2>7 DEF HcActivate
  <2>8. CASE HcSignal
    BY <2>8 DEF HcSignal
  <2>9. CASE HcReadEnd
    BY <2>9 DEF HcReadEnd
  <2>10. CASE HcClose
    BY <2>10 DEF HcClose, CallClose
  <2>11. CASE HcCloseReturns
    BY <2>11 DEF HcCloseReturns
  <2> QED BY <1>2, <2>1, <2>2, <2>3, <2>4, <2>5, <2>6, <2>7, <2>8, <2>9, <2>10, <2>11
          DEF HandleConnect
<1>3. CASE RlData \/ RlClose \/ RlHit \/ RlFill \/ RlOpen \/ RlPend \/ RlMode \/ RlSubmit
  BY <1>3 DEF RlData, RlClose, RlHit, RlFill, RlOpen, RlPend, RlMode, RlSubmit
<1>4. CASE RlEnqueue \/ RlTake \/ RlCheck \/ RlWrite \/ RlCredit \/ RlDirect
  BY <1>4 DEF RlEnqueue, RlTake, RlCheck, RlWrite, RlCredit, RlDirect
<1>5. CASE RlCallClose \/ RlCloseReturns \/ RlEnd \/ RlTeardown \/ RlLeave
  BY <1>5 DEF RlCallClose, RlCloseReturns, RlEnd, RlTeardown, RlLeave, CallClose
<1>6. CASE ClientSend \/ ClientClose \/ RemoteEnds
  BY <1>6 DEF ClientSend, ClientClose, RemoteEnds
<1>7. CASE UNCHANGED vars
  BY <1>7
<1> QED BY <1>1, <1>2, <1>3, <1>4, <1>5, <1>6, <1>7 DEF Next, ReadLoop, SocketWrite

\* What the read loop has tested stays true while it goes on: nobody resets
\* connReadyDone or streamType, and only close() clears ingressActive.
LEMMA ModeStep ==
  ASSUME FlagTypes, LifeInv, ModeInv, [Next]_vars
  PROVE  ModeInv'
<1> USE DEF ModeInv
<1>1. CASE Closing
  BY <1>1 DEF Closing, CloseSignal, CloseDelete, CloseConn, CloseDeactivate,
     CloseDrain, CloseSend, AsyncClose, CallClose, LifeInv
<1>2. CASE HandleConnect \/ HcFlushWrite
  <2> USE <1>2 DEF HandleConnect, HcAdmit, HcDial, HcConfirm, HcTake, HcFlushCheck,
        HcFlushWrite, HcActivate, HcSignal, HcReadEnd, HcClose, HcCloseReturns, CallClose
  <2>1. UNCHANGED rlPc
    OBVIOUS
  <2>2. isOpen' => isOpen
    OBVIOUS
  <2>3. connReadyDone => connReadyDone'
    OBVIOUS
  <2>4. ingressActive => ingressActive'
    OBVIOUS
  <2>5. streamType = "tcp" => streamType' = "tcp"
    BY DEF FlagTypes, Places
  <2> HIDE <1>2 DEF HandleConnect
  <2> QED BY <2>1, <2>2, <2>3, <2>4, <2>5
<1>3. CASE RlData \/ RlClose \/ RlHit \/ RlFill \/ RlOpen \/ RlPend \/ RlMode \/ RlSubmit
  BY <1>3 DEF RlData, RlClose, RlHit, RlFill, RlOpen, RlPend, RlMode, RlSubmit, Drop
<1>4. CASE RlEnqueue \/ RlTake \/ RlCheck \/ RlWrite \/ RlCredit \/ RlDirect
  BY <1>4 DEF RlEnqueue, Enqueue, RlTake, RlCheck, RlWrite, RlCredit, Keep, RlDirect, Drop
<1>5. CASE RlCallClose \/ RlCloseReturns \/ RlEnd \/ RlTeardown \/ RlLeave
  BY <1>5 DEF RlCallClose, RlCloseReturns, RlEnd, AtEnd, RlTeardown, RlLeave, CallClose,
     Drop
<1>6. CASE ClientSend \/ ClientClose \/ RemoteEnds
  BY <1>6 DEF ClientSend, ClientClose, RemoteEnds
<1>7. CASE UNCHANGED vars
  BY <1>7
<1> QED BY <1>1, <1>2, <1>3, <1>4, <1>5, <1>6, <1>7 DEF Next, ReadLoop, SocketWrite

\* Every step keeps the control state.
LEMMA ControlStep ==
  ASSUME ControlInv, [Next]_vars
  PROVE  ControlInv'
BY FlagTypesStep, LifeStep, ModeStep DEF ControlInv
-------------------------------------------------------------------------------
(* Sequences *)

\* What Append does to the elements of a sequence.
LEMMA AppendElements ==
  ASSUME NEW S, NEW s \in Seq(S), NEW e \in S
  PROVE  /\ Append(s, e) \in Seq(S) /\ Len(Append(s, e)) = Len(s) + 1
         /\ \A k \in 1 .. Len(s) + 1 : Append(s, e)[k] = IF k <= Len(s) THEN s[k] ELSE e
OBVIOUS

\* What Head and Tail take from a sequence that is not empty.
LEMMA TailElements ==
  ASSUME NEW S, NEW s \in Seq(S), s # <<>>
  PROVE  /\ Head(s) = s[1] /\ Len(s) >= 1
         /\ Tail(s) \in Seq(S) /\ Len(Tail(s)) = Len(s) - 1
         /\ \A k \in 1 .. Len(s) - 1 : Tail(s)[k] = s[k + 1]
OBVIOUS

-------------------------------------------------------------------------------
(* The packets on their way *)

\* Only the client puts packets on their way, and only the read loop takes them.
LEMMA ClientAlone ==
  ASSUME ClientInv, UNCHANGED <<pkt, sent, inflight, clientClosed>>,
         rlPc' \notin Idle => rlPc \notin Idle
  PROVE  ClientInv'
BY DEF ClientInv, Idle

\* The read loop takes the packets one after the other.
LEMMA TakesNext ==
  ASSUME ClientInv, RlData
  PROVE  pkt' = pkt + 1 /\ pkt' \in Packet /\ pkt' <= sent /\ pkt \in Nat /\ sent \in Nat
<1>1. /\ inflight \in Seq(Packet \cup {CLOSE}) /\ Len(inflight) >= 1
      /\ inflight[1] # CLOSE /\ pkt' = inflight[1]
  BY TailElements DEF RlData, ClientInv
<1>2. inflight[1] = IF 1 <= sent - pkt THEN pkt + 1 ELSE CLOSE
  BY <1>1 DEF ClientInv
<1>3. pkt \in Nat /\ sent \in Nat /\ sent <= Packets
  BY ConstAssumption DEF ClientInv
<1>4. 1 <= sent - pkt /\ pkt' = pkt + 1
  BY <1>1, <1>2, <1>3
<1> QED BY <1>3, <1>4, ConstAssumption DEF Packet

\* Packets stay in order on their way from the client to the read loop.
LEMMA ClientStep ==
  ASSUME ClientInv, [Next]_vars
  PROVE  ClientInv'
<1>1. CASE RlData
  <2>1. /\ pkt' = pkt + 1 /\ pkt' \in Packet /\ pkt' <= sent /\ pkt \in Nat /\ sent \in Nat
        /\ UNCHANGED <<sent, clientClosed>>
    BY <1>1, TakesNext DEF RlData
  <2>2. /\ inflight \in Seq(Packet \cup {CLOSE}) /\ inflight # <<>>
        /\ inflight' = Tail(inflight)
    BY <1>1 DEF RlData, ClientInv
  <2>3. /\ Len(inflight) >= 1 /\ inflight' \in Seq(Packet \cup {CLOSE})
        /\ Len(inflight') = Len(inflight) - 1
        /\ \A k \in 1 .. Len(inflight) - 1 : inflight'[k] = inflight[k + 1]
    BY <2>2, TailElements
  <2>4. \A k \in 1 .. Len(inflight') :
          inflight'[k] = IF k <= sent - pkt' THEN pkt' + k ELSE CLOSE
    <3> TAKE k \in 1 .. Len(inflight')
    <3>1. k + 1 \in 1 .. Len(inflight) /\ inflight'[k] = inflight[k + 1]
      BY <2>3
    <3>2. inflight[k + 1] = IF k + 1 <= sent - pkt THEN pkt + (k + 1) ELSE CLOSE
      BY <3>1 DEF ClientInv
    <3> QED BY <3>1, <3>2, <2>1
  <2>5. /\ Len(inflight') \in {sent - pkt', sent - pkt' + 1}
        /\ Len(inflight') = sent - pkt' + 1 => clientClosed
    BY <2>1, <2>3 DEF ClientInv
  <2>6. pkt' \in 0 .. Packets
    BY <2>1, ConstAssumption DEF Packet
  <2> QED BY SMTT(30), <2>1, <2>3, <2>4, <2>5, <2>6 DEF ClientInv
<1>2. CASE RlClose
  <2>1. /\ inflight \in Seq(Packet \cup {CLOSE}) /\ inflight # <<>>
        /\ inflight[1] = CLOSE /\ inflight' = Tail(inflight)
        /\ UNCHANGED <<rlPc, pkt, sent, clientClosed>>
    BY <1>2, TailElements DEF RlClose, ClientInv
  <2>2. /\ Len(inflight) >= 1 /\ inflight' \in Seq(Packet \cup {CLOSE})
        /\ Len(inflight') = Len(inflight) - 1
    BY <2>1, TailElements
  <2>3. inflight[1] = IF 1 <= sent - pkt THEN pkt + 1 ELSE CLOSE
    BY <2>2 DEF ClientInv
  <2>4. pkt \in Nat /\ sent \in Nat /\ pkt <= sent
    BY ConstAssumption DEF ClientInv
  <2>5. sent = pkt
    BY <2>1, <2>3, <2>4 DEF CLOSE
  <2>6. Len(inflight) = 1
    BY <2>2, <2>4, <2>5 DEF ClientInv
  <2>7. Len(inflight') = sent - pkt /\ 1 .. Len(inflight') = {}
    BY <2>2, <2>4, <2>5, <2>6
  <2> QED BY ZenonT(30), <2>1, <2>2, <2>4, <2>7 DEF ClientInv
<1>3. CASE ClientSend
  <2>1. pkt \in Nat /\ sent \in Nat /\ pkt <= sent
    BY ConstAssumption DEF ClientInv
  <2>2. /\ sent' = sent + 1 /\ Len(inflight) = sent - pkt
        /\ inflight' = Append(inflight, sent') /\ UNCHANGED <<rlPc, pkt, clientClosed>>
    BY <1>3 DEF ClientSend, ClientInv
  <2>3. sent' \in Packet /\ sent' \in 0 .. Packets
    BY <1>3, <2>1, ConstAssumption DEF ClientSend, Packet
  <2>4. /\ inflight' \in Seq(Packet \cup {CLOSE}) /\ Len(inflight') = Len(inflight) + 1
        /\ \A k \in 1 .. Len(inflight) + 1 :
             inflight'[k] = IF k <= Len(inflight) THEN inflight[k] ELSE sent'
    BY <2>2, <2>3, AppendElements DEF ClientInv
  <2>5. \A k \in 1 .. Len(inflight') :
          inflight'[k] = IF k <= sent' - pkt THEN pkt + k ELSE CLOSE
    BY <2>1, <2>2, <2>4 DEF ClientInv
  <2>6. Len(inflight') = sent' - pkt /\ pkt <= sent'
    BY <2>1, <2>2, <2>4
  <2> QED BY <2>1, <2>2, <2>3, <2>4, <2>5, <2>6 DEF ClientInv
<1>4. CASE ClientClose
  <2>1. /\ Len(inflight) = sent - pkt /\ clientClosed' = TRUE
        /\ inflight' = Append(inflight, CLOSE) /\ UNCHANGED <<rlPc, pkt, sent>>
    BY <1>4 DEF ClientClose, ClientInv
  <2>2. /\ inflight' \in Seq(Packet \cup {CLOSE}) /\ Len(inflight') = Len(inflight) + 1
        /\ \A k \in 1 .. Len(inflight) + 1 :
             inflight'[k] = IF k <= Len(inflight) THEN inflight[k] ELSE CLOSE
    BY <2>1, AppendElements DEF ClientInv
  <2> QED BY <2>1, <2>2 DEF ClientInv
<1>5. CASE Closing \/ HandleConnect \/ HcFlushWrite \/ RemoteEnds \/ UNCHANGED vars
  <2>1. UNCHANGED <<pkt, sent, inflight, clientClosed, rlPc>>
    BY <1>5 DEF Closing, CloseSignal, CloseDelete, CloseConn, CloseDeactivate, CloseDrain,
       CloseSend, AsyncClose, HandleConnect, HcAdmit, HcDial, HcConfirm, HcTake,
       HcFlushCheck, HcFlushWrite, HcActivate, HcSignal, HcReadEnd, HcClose,
       HcCloseReturns, RemoteEnds
  <2> QED BY <2>1, ClientAlone
<1>6. CASE \/ RlHit \/ RlFill \/ RlOpen \/ RlPend \/ RlMode \/ RlSubmit \/ RlEnqueue \/ RlTake
           \/ RlCheck \/ RlCredit \/ RlWrite \/ RlDirect \/ RlCallClose \/ RlCloseReturns
  <2>1. rlPc \notin Idle
    BY <1>6 DEF RlHit, RlFill, RlOpen, RlPend, RlMode, RlSubmit, RlEnqueue, RlTake, RlCheck,
       RlCredit, RlWrite, RlDirect, RlCallClose, RlCloseReturns, Idle
  <2>2. UNCHANGED <<pkt, sent, inflight, clientClosed>>
    BY <1>6 DEF RlHit, RlFill, RlOpen, RlPend, RlMode, RlSubmit, RlEnqueue, RlTake, RlCheck,
       RlCredit, RlWrite, RlDirect, RlCallClose, RlCloseReturns
  <2> QED BY <2>1, <2>2, ClientAlone
<1>7. CASE RlEnd \/ RlTeardown \/ RlLeave
  BY <1>7, ClientAlone DEF RlEnd, AtEnd, RlTeardown, RlLeave, Idle
<1> QED BY <1>1, <1>2, <1>3, <1>4, <1>5, <1>6, <1>7 DEF Next, ReadLoop, SocketWrite
-------------------------------------------------------------------------------
(* The ingress queue *)

\* The queue holds at most the packet the read loop has just put there.
LEMMA QueueStep ==
  ASSUME FlagTypes, QueueInv, [Next]_vars
  PROVE  QueueInv'
<1> USE DEF QueueInv
<1>1. CASE Closing
  BY <1>1 DEF Closing, CloseSignal, CloseDelete, CloseConn, CloseDeactivate, CloseDrain,
     CloseSend, AsyncClose
<1>2. CASE HandleConnect \/ HcFlushWrite \/ ClientSend \/ ClientClose \/ RemoteEnds
           \/ UNCHANGED vars
  <2>1. UNCHANGED <<rlPc, pkt, pendingIngress, ingressWriting, batch>>
    BY <1>2 DEF HandleConnect, HcAdmit, HcDial, HcConfirm, HcTake, HcFlushCheck,
       HcFlushWrite, HcActivate, HcSignal, HcReadEnd, HcClose, HcCloseReturns,
       ClientSend, ClientClose, RemoteEnds
  <2> QED BY <2>1
<1>3. CASE RlData \/ RlClose \/ RlHit \/ RlFill \/ RlOpen \/ RlPend \/ RlMode \/ RlSubmit
  BY <1>3 DEF RlData, RlClose, RlHit, RlFill, RlOpen, RlPend, RlMode, RlSubmit, Drop
<1>4. CASE RlEnqueue
  <2>1. pendingIngress = <<>> /\ batch = <<>> /\ ~ingressWriting
    BY <1>4 DEF RlEnqueue
  <2>2. Append(pendingIngress, pkt) = <<pkt>>
    BY <2>1
  <2>3. /\ pendingIngress' = <<pkt>> /\ batch' = <<>> /\ ingressWriting' = TRUE
        /\ rlPc' = "take" /\ pkt' = pkt
    BY <1>4, <2>1, <2>2 DEF RlEnqueue, Enqueue
  <2> QED BY <2>3
<1>5. CASE RlTake
  BY <1>5 DEF RlTake
<1>6. CASE RlCheck
  <2>1. pendingIngress' = <<>> /\ batch = <<pkt>> /\ pkt' = pkt
    BY <1>6 DEF RlCheck
  <2>2. CASE isOpen
    <3>1. rlPc' = "write" /\ batch' = <<pkt'>> /\ ingressWriting' = TRUE
      BY <1>6, <2>2 DEF RlCheck
    <3> QED BY <2>1, <3>1
  <2>3. CASE ~isOpen
    <3>1. rlPc' = "credit" /\ batch' = <<>> /\ ingressWriting' = FALSE
      BY <1>6, <2>3 DEF RlCheck, Release
    <3> QED BY <2>1, <3>1
  <2> QED BY <2>2, <2>3
<1>7. CASE RlWrite
  <2>1. pendingIngress' = <<>> /\ batch' = <<>>
    BY <1>7 DEF RlWrite, Release
  <2>2. \/ rlPc' = "take" /\ ingressWriting' = TRUE
        \/ rlPc' = "closeKeep" /\ ingressWriting' = FALSE
    BY <1>7 DEF RlWrite
  <2> QED BY <2>1, <2>2
<1>8. CASE RlCredit \/ RlDirect
  BY <1>8 DEF RlCredit, Keep, RlDirect, Drop
<1>9. CASE RlCallClose \/ RlCloseReturns \/ RlEnd \/ RlTeardown \/ RlLeave
  BY <1>9 DEF RlCallClose, RlCloseReturns, RlEnd, AtEnd, RlTeardown, RlLeave, Drop
<1> QED BY <1>1, <1>2, <1>3, <1>4, <1>5, <1>6, <1>7, <1>8, <1>9
        DEF Next, ReadLoop, SocketWrite
-------------------------------------------------------------------------------
(* The order of what is written *)

\* A step that moves no packet.
LEMMA OrderKept ==
  ASSUME OrderInv, UNCHANGED <<received, pending, pendingData, pkt>>,
         isOpen' => isOpen, Unplaced' => Unplaced,
         hcPc' \in BeforeFlush => hcPc \in BeforeFlush,
         hcPc' \in Flushing => hcPc \in Flushing,
         hcPc' = "write" => pending # <<>>
  PROVE  OrderInv'
<1>1. UpTo(received)' /\ UpTo(pending)' /\ UpTo(pendingData)'
  BY DEF OrderInv, UpTo
<1>2. Increasing(pending)' /\ Increasing(pendingData)' /\ (isOpen' => Increasing(received)')
  BY DEF OrderInv, Increasing
<1> QED BY <1>1, <1>2 DEF OrderInv

\* The early packets become the ones to flush, and nothing is written yet.
LEMMA OrderTake ==
  ASSUME OrderInv, HcTake
  PROVE  OrderInv'
<1>1. /\ pending' = pendingData /\ pendingData' = <<>> /\ received' = received
      /\ UNCHANGED <<pkt, isOpen, rlPc, pendingIngress>> /\ hcPc = "take" /\ hcPc' = "flush"
  BY DEF HcTake
<1>2. UpTo(received)' /\ UpTo(pending)' /\ UpTo(pendingData)'
  BY <1>1 DEF OrderInv, UpTo, Unplaced
<1>3. Increasing(pending)' /\ Increasing(pendingData)' /\ (isOpen' => Increasing(received)')
  BY <1>1 DEF OrderInv, Increasing
<1>4. isOpen' => received' = <<>>
  BY <1>1 DEF OrderInv, BeforeFlush
<1> QED BY <1>1, <1>2, <1>3, <1>4 DEF OrderInv, BeforeFlush

\* The first of the packets to flush is later than all that were written and earlier
\* than the others.
LEMMA OrderFlush ==
  ASSUME OrderInv, pkt \in Nat, HcFlushWrite
  PROVE  OrderInv'
<1>1. CASE hcPc' = "close"
  BY <1>1, OrderKept DEF HcFlushWrite, Unplaced, BeforeFlush, Flushing
<1>2. CASE hcPc' # "close"
  <2>1. /\ received' = Append(received, Head(pending)) /\ pending' = Tail(pending)
        /\ hcPc' = "flush" /\ hcPc = "write"
        /\ UNCHANGED <<pendingData, pkt, isOpen, rlPc, pendingIngress>>
    BY <1>2 DEF HcFlushWrite
  <2>2. /\ received \in Seq(Packet) /\ pending \in Seq(Packet) /\ pending # <<>>
        /\ pendingData \in Seq(Packet)
    BY <2>1 DEF OrderInv
  <2>3. PICK h : h = Head(pending)
    OBVIOUS
  <2>4. /\ h = pending[1] /\ Len(pending) >= 1 /\ pending' \in Seq(Packet)
        /\ Len(pending') = Len(pending) - 1
        /\ \A k \in 1 .. Len(pending) - 1 : pending'[k] = pending[k + 1]
    BY <2>1, <2>2, <2>3, TailElements
  <2>5. h \in Packet
    BY <2>2, <2>4
  <2>6. /\ received' \in Seq(Packet) /\ Len(received') = Len(received) + 1
        /\ \A k \in 1 .. Len(received) + 1 :
             received'[k] = IF k <= Len(received) THEN received[k] ELSE h
    BY <2>1, <2>2, <2>3, <2>5, AppendElements
  <2>7. UNCHANGED Unplaced
    BY <2>1 DEF Unplaced
  <2>8. h <= pkt /\ (Unplaced => h < pkt)
    BY SMTT(30), <2>2, <2>4 DEF OrderInv, UpTo
  <2>9. UpTo(received)'
    BY <2>1, <2>2, <2>6, <2>7, <2>8 DEF OrderInv, UpTo
  <2>10. UpTo(pending)' /\ UpTo(pendingData)'
    BY <2>1, <2>2, <2>4, <2>7 DEF OrderInv, UpTo
  <2>11. Increasing(pendingData)'
    BY <2>1 DEF OrderInv, Increasing
  <2> HIDE DEF Packet
  <2>12. \A i, j \in 1 .. Len(pending) : i < j => pending[i] < pending[j]
    BY <2>2 DEF OrderInv, Increasing
  <2>13. isOpen => \A i \in 1 .. Len(received), j \in 1 .. Len(pending) :
                    received[i] < pending[j]
    BY <2>1, <2>2 DEF OrderInv, Flushing
  <2>14. Increasing(pending)'
    <3> SUFFICES ASSUME NEW i \in 1 .. Len(pending'), NEW j \in 1 .. Len(pending'), i < j
                 PROVE  pending'[i] < pending'[j]
      BY <2>4 DEF Increasing
    <3>1. i + 1 \in 1 .. Len(pending) /\ j + 1 \in 1 .. Len(pending) /\ i + 1 < j + 1
      BY <2>2, <2>4
    <3> QED BY <2>4, <2>12, <3>1
  <2>15. isOpen' => Increasing(received)'
    <3> SUFFICES ASSUME isOpen, NEW i \in 1 .. Len(received'), NEW j \in 1 .. Len(received'),
                        i < j
                 PROVE  received'[i] < received'[j]
      BY <2>1, <2>6 DEF Increasing
    <3>1. i <= Len(received) /\ received'[i] = received[i]
      BY <2>2, <2>6
    <3>2. CASE j <= Len(received)
      BY <2>2, <2>6, <3>1, <3>2 DEF OrderInv, Increasing
    <3>3. CASE j > Len(received)
      <4>1. received'[j] = h
        BY <2>2, <2>6, <3>3
      <4>2. received[i] < h
        BY <2>2, <2>4, <2>13, <3>1
      <4> QED BY <3>1, <4>1, <4>2
    <3> QED BY <2>2, <3>2, <3>3
  <2>16. isOpen' => \A i \in DOMAIN received', j \in DOMAIN pending' :
                      received'[i] < pending'[j]
    <3> SUFFICES ASSUME isOpen, NEW i \in 1 .. Len(received'), NEW j \in 1 .. Len(pending')
                 PROVE  received'[i] < pending'[j]
      BY <2>1, <2>4, <2>6
    <3>1. j + 1 \in 1 .. Len(pending) /\ pending'[j] = pending[j + 1] /\ 1 < j + 1
      BY <2>2, <2>4
    <3>2. h < pending[j + 1]
      BY <2>2, <2>4, <2>12, <3>1
    <3>3. CASE i <= Len(received)
      BY SMTT(30), <2>2, <2>6, <2>13, <3>1, <3>3
    <3>4. CASE i > Len(received)
      BY <2>2, <2>6, <3>1, <3>2, <3>4
    <3> QED BY <2>2, <3>3, <3>4
  <2> QED BY <2>1, <2>2, <2>4, <2>6, <2>9, <2>10, <2>11, <2>14, <2>15, <2>16
          DEF OrderInv, BeforeFlush
<1> QED BY <1>1, <1>2
\* The read loop takes the next packet, which is later than all that are kept.
LEMMA OrderData ==
  ASSUME OrderInv, ClientInv, RlData
  PROVE  OrderInv'
<1>1. pkt' = pkt + 1 /\ pkt \in Nat
  BY TakesNext
<1>2. UNCHANGED <<received, pending, pendingData, isOpen, hcPc>>
  BY DEF RlData
<1>3. received \in Seq(Packet) /\ pending \in Seq(Packet) /\ pendingData \in Seq(Packet)
  BY DEF OrderInv
<1>4. ASSUME NEW s \in Seq(Packet), \A k \in DOMAIN s : s[k] <= pkt
      PROVE  \A k \in DOMAIN s : s[k] < pkt'
  <2> TAKE k \in DOMAIN s
  <2>1. s[k] \in Nat /\ s[k] <= pkt
    BY <1>4, ConstAssumption DEF Packet
  <2> QED BY <1>1, <2>1
<1>5. /\ \A k \in DOMAIN received : received[k] < pkt'
      /\ \A k \in DOMAIN pending : pending[k] < pkt'
      /\ \A k \in DOMAIN pendingData : pendingData[k] < pkt'
  BY <1>3, <1>4 DEF OrderInv, UpTo
<1>6. UpTo(received)' /\ UpTo(pending)' /\ UpTo(pendingData)'
  BY <1>1, <1>2, <1>3, <1>5, ConstAssumption DEF UpTo, Packet
<1>7. Increasing(pending)' /\ Increasing(pendingData)' /\ (isOpen' => Increasing(received)')
  BY <1>2 DEF OrderInv, Increasing
<1> QED BY <1>2, <1>6, <1>7 DEF OrderInv

\* The packet in hand, behind a sequence of earlier ones.
LEMMA AppendInHand ==
  ASSUME NEW s \in Seq(Packet), UpTo(s), Unplaced, pkt \in Packet
  PROVE  /\ Append(s, pkt) \in Seq(Packet)
         /\ \A k \in DOMAIN Append(s, pkt) : Append(s, pkt)[k] <= pkt
         /\ Increasing(s) => Increasing(Append(s, pkt))
<1>1. PICK t : t = Append(s, pkt)
  OBVIOUS
<1>2. /\ t \in Seq(Packet) /\ Len(t) = Len(s) + 1
      /\ \A k \in 1 .. Len(s) + 1 : t[k] = IF k <= Len(s) THEN s[k] ELSE pkt
  BY <1>1, AppendElements
<1>3. \A k \in 1 .. Len(s) : s[k] < pkt
  BY DEF UpTo
<1>4. pkt \in Nat /\ \A k \in 1 .. Len(s) : s[k] \in Nat
  BY ConstAssumption DEF Packet
<1>5. \A k \in DOMAIN t : t[k] <= pkt
  BY <1>2, <1>3, <1>4
<1>6. ASSUME Increasing(s) PROVE Increasing(t)
  <2>1. \A i, j \in 1 .. Len(s) : i < j => s[i] < s[j]
    BY <1>6 DEF Increasing
  <2> SUFFICES ASSUME NEW i \in 1 .. Len(t), NEW j \in 1 .. Len(t), i < j
               PROVE  t[i] < t[j]
    BY <1>2 DEF Increasing
  <2>2. CASE j <= Len(s)
    BY <1>2, <2>1, <2>2
  <2>3. CASE j > Len(s)
    BY <1>2, <1>3, <2>3
  <2> QED BY <1>2, <2>2, <2>3
<1> QED BY <1>1, <1>2, <1>5, <1>6

\* A packet that came early is kept behind the other early ones.
LEMMA OrderPend ==
  ASSUME OrderInv, ClientInv, QueueInv, RlPend
  PROVE  OrderInv'
<1>1. rlPc = "pend" /\ pkt \in Packet /\ pendingIngress = <<>> /\ Unplaced
  BY DEF RlPend, ClientInv, Idle, QueueInv, Unplaced
<1>2. CASE rlPc' # "idle"
  <2>1. /\ UNCHANGED <<received, pending, pendingData, pkt, isOpen, hcPc>>
        /\ hcPc = "write" => pending # <<>>
    BY <1>2 DEF RlPend, Drop, OrderInv
  <2> QED BY <1>1, <2>1, OrderKept
<1>3. CASE rlPc' = "idle"
  <2>1. /\ pendingData' = Append(pendingData, pkt) /\ rlPc' = "idle"
        /\ UNCHANGED <<received, pending, pkt, isOpen, hcPc, pendingIngress>>
    BY <1>3 DEF RlPend, Drop
  <2>2. ~Unplaced'
    BY <1>1, <2>1 DEF Unplaced
  <2>3. /\ pendingData' \in Seq(Packet) /\ Increasing(pendingData)'
        /\ \A k \in DOMAIN pendingData' : pendingData'[k] <= pkt
    BY <1>1, <2>1, AppendInHand DEF OrderInv, Increasing
  <2>4. UpTo(received)' /\ UpTo(pending)' /\ UpTo(pendingData)'
    BY <2>1, <2>2, <2>3 DEF OrderInv, UpTo
  <2>5. Increasing(pending)' /\ (isOpen' => Increasing(received)')
    BY <2>1 DEF OrderInv, Increasing
  <2> QED BY <2>1, <2>3, <2>4, <2>5 DEF OrderInv
<1> QED BY <1>2, <1>3

\* The read loop writes its packet to the socket: the stream is ready then, so
\* handleConnect has flushed what came early.
LEMMA OrderWrite ==
  ASSUME OrderInv, ClientInv, LifeInv, ModeInv, rlPc \in {"write", "direct"},
         received' = Append(received, pkt), ~Unplaced', 
         UNCHANGED <<pending, pendingData, pkt, isOpen, hcPc, connReadyDone>>
  PROVE  OrderInv'
<1>1. pkt \in Packet /\ Unplaced /\ connReadyDone
  BY DEF ClientInv, Idle, Unplaced, ModeInv
<1>2. received \in Seq(Packet) /\ UpTo(received)
  BY DEF OrderInv
<1>3. /\ received' \in Seq(Packet) /\ (Increasing(received) => Increasing(received)')
      /\ \A k \in DOMAIN received' : received'[k] <= pkt
  BY <1>1, <1>2, AppendInHand DEF Increasing
<1>4. UpTo(received)' /\ UpTo(pending)' /\ UpTo(pendingData)'
  BY <1>3 DEF OrderInv, UpTo
<1>5. Increasing(pending)' /\ Increasing(pendingData)' /\ (isOpen' => Increasing(received)')
  BY <1>3 DEF OrderInv, Increasing
<1>6. isOpen => hcPc \notin BeforeFlush \cup Flushing
  BY <1>1 DEF LifeInv, BeforeFlush, Flushing
<1> QED BY <1>3, <1>4, <1>5, <1>6 DEF OrderInv

\* Every step keeps the packets in order.
LEMMA OrderStep ==
  ASSUME OrderInv, ControlInv, ClientInv, QueueInv, [Next]_vars
  PROVE  OrderInv'
<1>1. CASE Closing
  <2>1. /\ UNCHANGED <<received, pending, pendingData, pkt, hcPc, rlPc>>
        /\ (isOpen' => isOpen)
    BY <1>1 DEF Closing, CloseSignal, CloseDelete, CloseConn, CloseDeactivate, CloseDrain,
       CloseSend, AsyncClose, CallClose
  <2>2. pendingIngress' # <<>> => pendingIngress # <<>>
    BY <1>1 DEF Closing, CloseSignal, CloseDelete, CloseConn, CloseDeactivate, CloseDrain,
       CloseSend, AsyncClose
  <2> QED BY <2>1, <2>2, OrderKept DEF OrderInv, Unplaced
<1>2. CASE HandleConnect
  <2>1. CASE HcTake
    BY <2>1, OrderTake
  <2>2. CASE ~HcTake
    <3> USE <1>2, <2>2 DEF HandleConnect, HcAdmit, HcDial, HcConfirm, HcFlushCheck,
          HcActivate, HcSignal, HcReadEnd, HcClose, HcCloseReturns, CallClose
    <3>1. UNCHANGED <<received, pending, pendingData, pkt, rlPc, pendingIngress>>
      OBVIOUS
    <3>2. isOpen' => isOpen
      OBVIOUS
    <3>3. /\ hcPc' \in BeforeFlush => hcPc \in BeforeFlush
          /\ hcPc' \in Flushing => hcPc \in Flushing
          /\ hcPc' = "write" => pending # <<>>
      BY DEF BeforeFlush, Flushing
    <3> HIDE <1>2, <2>2 DEF HandleConnect
    <3> QED BY <3>1, <3>2, <3>3, OrderKept DEF Unplaced
  <2> QED BY <2>1, <2>2
<1>3. CASE HcFlushWrite
  BY <1>3, OrderFlush, ConstAssumption DEF ClientInv
<1>4. CASE RlData
  BY <1>4, OrderData
<1>5. CASE RlPend
  BY <1>5, OrderPend
<1>6. CASE RlWrite \/ RlDirect
  <2>1. /\ pendingIngress = <<>> /\ UNCHANGED pendingIngress
        /\ (rlPc = "write" => batch = <<pkt>>) /\ rlPc \in {"write", "direct"}
    BY <1>6 DEF RlWrite, RlDirect, QueueInv
  <2>2. UNCHANGED <<pending, pendingData, pkt, isOpen, hcPc, connReadyDone>>
    BY <1>6 DEF RlWrite, RlDirect
  <2>3. \/ UNCHANGED received /\ rlPc' \in {"closeKeep", "closeDrop", "direct"}
        \/ received' = Append(received, pkt) /\ rlPc' \in {"take", "idle"}
    <3>1. CASE RlWrite
      <4>1. received \o <<pkt>> = Append(received, pkt)
        BY <3>1 DEF RlWrite, OrderInv, ClientInv, Idle
      <4> QED BY <3>1, <4>1, <2>1 DEF RlWrite
    <3>2. CASE RlDirect
      BY <3>2 DEF RlDirect, Drop
    <3> QED BY <1>6, <3>1, <3>2
  <2>4. Unplaced /\ (rlPc' \in {"closeKeep", "closeDrop", "take", "idle"} => ~Unplaced')
    BY <2>1 DEF Unplaced
  <2>5. CASE UNCHANGED received
    BY <2>2, <2>4, <2>5, OrderKept DEF OrderInv
  <2>6. CASE received' = Append(received, pkt) /\ rlPc' \in {"take", "idle"}
    BY <2>1, <2>2, <2>4, <2>6, OrderWrite DEF ControlInv
  <2> QED BY <2>3, <2>5, <2>6
<1>7. CASE \/ RlClose \/ RlHit \/ RlFill \/ RlOpen \/ RlMode \/ RlSubmit \/ RlEnqueue \/ RlTake
           \/ RlCheck \/ RlCredit \/ RlCallClose \/ RlCloseReturns \/ RlEnd \/ RlTeardown
           \/ RlLeave
  <2> USE <1>7 DEF RlClose, RlHit, RlFill, RlOpen, RlMode, RlSubmit, RlEnqueue, Enqueue, RlTake,
        RlCheck, RlCredit, Keep, RlCallClose, RlCloseReturns, RlEnd, AtEnd, RlTeardown,
        RlLeave, Drop
  <2>1. UNCHANGED <<received, pending, pendingData, pkt, hcPc>>
    OBVIOUS
  <2>2. isOpen' => isOpen
    BY DEF CallClose
  <2>3. Unplaced' => Unplaced
    BY DEF Unplaced, QueueInv
  <2> HIDE <1>7
  <2> QED BY <2>1, <2>2, <2>3, OrderKept DEF OrderInv
<1>8. CASE ClientSend \/ ClientClose \/ RemoteEnds \/ UNCHANGED vars
  <2>1. UNCHANGED <<received, pending, pendingData, pkt, hcPc, rlPc, pendingIngress, isOpen>>
    BY <1>8 DEF ClientSend, ClientClose, RemoteEnds
  <2> QED BY <2>1, OrderKept DEF Unplaced, OrderInv
<1> QED BY <1>1, <1>2, <1>3, <1>4, <1>5, <1>6, <1>7, <1>8 DEF Next, ReadLoop, SocketWrite
-------------------------------------------------------------------------------
(* The buffers *)

\* What putWSPayloadBuf is called with for a queue of no packet, or of one.
LEMMA RangeOfFew ==
  Range(<<>>) = {} /\ \A p : Range(<<p>>) = {p}
BY DEF Range

\* A step that gives no buffer back.
LEMMA PutsKept ==
  ASSUME PutsInv, UNCHANGED <<puts, pkt>>, isOpen' => isOpen, Owed' <=> Owed
  PROVE  PutsInv'
BY DEF PutsInv

\* The buffer of the packet in hand is given back: once while the stream is open.
LEMMA PutsBack ==
  ASSUME PutsInv, pkt \in Packet, Owed, ~Owed', pkt' = pkt, isOpen' => isOpen,
         NEW n \in {1, 2}, isOpen => n = 1,
         puts' = [p \in Packet |-> IF p = pkt THEN puts[p] + n ELSE puts[p]]
  PROVE  PutsInv'
<1>1. puts[pkt] = 0
  BY DEF PutsInv
<1>2. puts' \in [Packet -> Nat]
  BY DEF PutsInv
<1>3. \A p \in Packet : puts'[p] = IF p = pkt THEN n ELSE puts[p]
  BY <1>1
<1>4. pkt \in Nat
  BY ConstAssumption DEF Packet
<1> QED BY <1>2, <1>3, <1>4 DEF PutsInv

\* A packet is taken when the buffers of those before have been given back; without a
\* stream its own is given back at once.
LEMMA PutsData ==
  ASSUME PutsInv, ClientInv, QueueInv, RlData
  PROVE  PutsInv'
<1>1. pkt' = pkt + 1 /\ pkt' \in Packet /\ pkt \in Nat
  BY TakesNext
<1>2. ~Owed /\ pendingIngress' = <<>> /\ UNCHANGED isOpen
  BY DEF RlData, QueueInv, Owed, Unplaced
<1>3. \A p \in Packet : p \in Nat /\ puts[p] \in Nat
  BY ConstAssumption DEF Packet, PutsInv
<1>4. \A p \in Packet : (p < pkt' => puts[p] >= 1) /\ (p >= pkt' => puts[p] = 0)
  <2> TAKE p \in Packet
  <2>1. p < pkt' => p < pkt \/ p = pkt
    BY <1>1, <1>3
  <2>2. p >= pkt' => p > pkt
    BY <1>1, <1>3
  <2> QED BY <1>2, <2>1, <2>2 DEF PutsInv
<1>5. CASE cached \/ inMap
  <2>1. UNCHANGED puts /\ Owed'
    BY <1>5 DEF RlData, Owed, Unplaced
  <2> QED BY <1>1, <1>2, <1>3, <1>4, <2>1 DEF PutsInv
<1>6. CASE ~(cached \/ inMap)
  <2>1. /\ puts' = [p \in Packet |-> IF p \in {pkt'} THEN puts[p] + 1 ELSE puts[p]]
        /\ ~Owed'
    BY <1>2, <1>6 DEF RlData, PutAll, Owed, Unplaced
  <2>2. puts' \in [Packet -> Nat]
    BY <1>3, <2>1
  <2>3. \A p \in Packet : puts'[p] = IF p = pkt' THEN 1 ELSE puts[p]
    BY <1>1, <1>3, <1>4, <2>1
  <2> QED BY <1>1, <1>2, <1>3, <1>4, <2>1, <2>2, <2>3 DEF PutsInv
<1> QED BY <1>5, <1>6

\* The steps of the read loop that give back the buffer of its packet, or may.
LEMMA PutsDrop ==
  ASSUME PutsInv, ClientInv, QueueInv, ModeInv,
         RlOpen \/ RlPend \/ RlSubmit \/ RlCheck \/ RlWrite \/ RlDirect \/ RlCloseReturns
  PROVE  PutsInv'
<1> DEFINE Back(n) == puts' = [p \in Packet |-> IF p = pkt THEN puts[p] + n ELSE puts[p]]
<1>1. pkt' = pkt /\ isOpen' = isOpen /\ pendingIngress' = pendingIngress
  BY DEF RlOpen, RlPend, RlSubmit, RlCheck, RlWrite, RlDirect, RlCloseReturns
<1>2. PutAll({pkt}) => Back(1)
  BY DEF PutAll
<1>3. pendingIngress = <<>> /\ (rlPc # "closingKeep" => pkt \in Packet /\ Owed)
  BY DEF RlOpen, RlPend, RlSubmit, RlCheck, RlWrite, RlDirect, RlCloseReturns, QueueInv,
     Owed, Unplaced, ClientInv, Idle
<1>4. rlPc' \in {"idle", "take", "credit", "closeKeep"} => ~Owed'
  BY <1>1, <1>3 DEF Owed, Unplaced
<1>5. ASSUME Back(1), rlPc # "closingKeep", rlPc' \in {"idle", "take", "credit", "closeKeep"}
      PROVE  PutsInv'
  BY <1>1, <1>3, <1>4, <1>5, PutsBack
<1>6. ASSUME UNCHANGED puts, Owed' <=> Owed
      PROVE  PutsInv'
  BY <1>1, <1>6, PutsKept
<1> HIDE DEF Back
<1>7. CASE RlOpen
  <2>1. CASE isOpen
    BY <1>6, <1>7, <2>1 DEF RlOpen, Owed, Unplaced
  <2>2. CASE ~isOpen
    BY <1>2, <1>5, <1>7, <2>2 DEF RlOpen, Drop
  <2> QED BY <2>1, <2>2
<1>8. CASE RlPend
  <2>1. CASE rlPc' = "idle"
    BY <1>2, <1>5, <1>8, <2>1 DEF RlPend, Drop
  <2>2. CASE rlPc' # "idle"
    <3>1. UNCHANGED puts /\ rlPc' \in {"mode", "closeDrop"} /\ rlPc = "pend"
      BY <1>8, <2>2 DEF RlPend, Drop
    <3>2. CASE rlPc' = "mode"
      BY <1>6, <3>1, <3>2 DEF Owed, Unplaced
    <3>3. CASE rlPc' = "closeDrop"
      BY <1>6, <3>1, <3>3 DEF Owed, Unplaced
    <3> QED BY <3>1, <3>2, <3>3
  <2> QED BY <2>1, <2>2
<1>9. CASE RlSubmit
  <2>1. CASE isOpen
    BY <1>6, <1>9, <2>1 DEF RlSubmit, ModeInv, Owed, Unplaced
  <2>2. CASE ~isOpen
    <3>1. puts' = [puts EXCEPT ![pkt] = @ + 2] /\ rlPc' = "idle" /\ rlPc = "submit"
      BY <1>9, <2>2 DEF RlSubmit
    <3>2. Back(2)
      BY <3>1 DEF PutsInv, Back
    <3> QED BY <1>1, <1>3, <1>4, <2>2, <3>1, <3>2, PutsBack DEF Back
  <2> QED BY <2>1, <2>2
<1>10. CASE RlCheck
  <2>1. batch = <<pkt>> /\ (PutAll(Range(batch)) => Back(1))
    BY <1>2, <1>10, RangeOfFew DEF RlCheck, QueueInv
  <2>2. CASE isOpen
    BY <1>6, <1>10, <2>2 DEF RlCheck, Owed, Unplaced
  <2>3. CASE ~isOpen
    BY <1>5, <1>10, <2>1, <2>3 DEF RlCheck, Release
  <2> QED BY <2>2, <2>3
<1>11. CASE RlWrite
  <2>1. batch = <<pkt>> /\ (PutAll(Range(batch)) => Back(1))
    BY <1>2, <1>11, RangeOfFew DEF RlWrite, QueueInv
  <2> QED BY <1>5, <1>11, <2>1 DEF RlWrite, Release
<1>12. CASE RlDirect
  <2>1. CASE Drop
    BY <1>2, <1>5, <1>12, <2>1 DEF RlDirect, Drop
  <2>2. CASE ~Drop
    <3>1. UNCHANGED puts /\ rlPc' \in {"direct", "closeDrop"} /\ rlPc = "direct"
      BY <1>12, <2>2 DEF RlDirect
    <3>2. Owed /\ Owed'
      BY <3>1 DEF Owed, Unplaced
    <3> QED BY <1>6, <3>1, <3>2
  <2> QED BY <2>1, <2>2
<1>13. CASE RlCloseReturns
  <2>1. CASE rlPc = "closingDrop"
    BY <1>2, <1>5, <1>13, <2>1 DEF RlCloseReturns, Drop
  <2>2. CASE rlPc = "closingKeep"
    BY <1>3, <1>4, <1>6, <1>13, <2>2 DEF RlCloseReturns, Owed, Unplaced
  <2> QED BY <1>13, <2>1, <2>2 DEF RlCloseReturns
<1> QED BY <1>7, <1>8, <1>9, <1>10, <1>11, <1>12, <1>13

\* Every step leaves the buffers accounted for.
LEMMA PutsStep ==
  ASSUME PutsInv, ControlInv, ClientInv, QueueInv, [Next]_vars
  PROVE  PutsInv'
<1>1. CASE Closing
  <2>1. UNCHANGED <<pkt, rlPc>> /\ (isOpen' => isOpen)
    BY <1>1 DEF Closing, CloseSignal, CloseDelete, CloseConn, CloseDeactivate, CloseDrain,
       CloseSend, AsyncClose, CallClose
  <2>2. UNCHANGED <<puts, pendingIngress>>
    <3>1. CASE CloseDrain
      <4>1. CASE ingressWriting
        BY <3>1, <4>1 DEF CloseDrain
      <4>2. CASE ~ingressWriting
        <5>1. pendingIngress = <<>> /\ pendingIngress' = <<>> /\ PutAll({})
          BY <3>1, <4>2, RangeOfFew DEF CloseDrain, QueueInv
        <5> QED BY <5>1 DEF PutAll, PutsInv
      <4> QED BY <4>1, <4>2
    <3>2. CASE ~CloseDrain
      BY <1>1, <3>2 DEF Closing, CloseSignal, CloseDelete, CloseConn, CloseDeactivate,
         CloseSend, AsyncClose
    <3> QED BY <3>1, <3>2
  <2> QED BY <2>1, <2>2, PutsKept DEF Owed, Unplaced
<1>2. CASE HandleConnect \/ HcFlushWrite
  <2> USE <1>2 DEF HandleConnect, HcAdmit, HcDial, HcConfirm, HcTake, HcFlushCheck,
        HcFlushWrite, HcActivate, HcSignal, HcReadEnd, HcClose, HcCloseReturns
  <2>1. UNCHANGED <<puts, pkt, rlPc, pendingIngress>>
    OBVIOUS
  <2>2. isOpen' => isOpen
    BY DEF CallClose
  <2> HIDE <1>2
  <2> QED BY <2>1, <2>2, PutsKept DEF Owed, Unplaced
<1>3. CASE RlData
  BY <1>3, PutsData
<1>4. CASE RlOpen \/ RlPend \/ RlSubmit \/ RlCheck \/ RlWrite \/ RlDirect \/ RlCloseReturns
  BY <1>4, PutsDrop DEF ControlInv
<1>5. CASE \/ RlClose \/ RlHit \/ RlFill \/ RlMode \/ RlEnqueue \/ RlTake \/ RlCredit
           \/ RlCallClose \/ RlEnd \/ RlTeardown \/ RlLeave
  <2> USE <1>5 DEF RlClose, RlHit, RlFill, RlMode, RlEnqueue, Enqueue, RlTake, RlCredit, Keep,
        RlCallClose, RlEnd, AtEnd, RlTeardown, RlLeave
  <2>1. UNCHANGED <<puts, pkt>>
    OBVIOUS
  <2>2. isOpen' => isOpen
    BY DEF CallClose
  <2>3. Owed' <=> Owed
    BY DEF Owed, Unplaced, QueueInv
  <2> HIDE <1>5
  <2> QED BY <2>1, <2>2, <2>3, PutsKept
<1>6. CASE ClientSend \/ ClientClose \/ RemoteEnds \/ UNCHANGED vars
  <2>1. UNCHANGED <<puts, pkt, rlPc, pendingIngress, isOpen>>
    BY <1>6 DEF ClientSend, ClientClose, RemoteEnds
  <2> QED BY <2>1, PutsKept DEF Owed, Unplaced
<1> QED BY <1>1, <1>2, <1>3, <1>4, <1>5, <1>6 DEF Next, ReadLoop, SocketWrite
-------------------------------------------------------------------------------
(* Flow control *)

\* What the server holds can be counted.
LEMMA HeldType ==
  ASSUME ClientInv, OrderInv
  PROVE  /\ Held \in Nat /\ InHand \in 0 .. 1 /\ Len(pendingData) \in Nat
         /\ Len(pending) \in Nat /\ sent \in Nat /\ pkt \in Nat /\ pkt <= sent
<1>1. Len(pendingData) \in Nat /\ Len(pending) \in Nat
  BY DEF OrderInv
<1>2. sent \in Nat /\ pkt \in Nat /\ pkt <= sent
  BY ConstAssumption DEF ClientInv
<1>3. InHand \in 0 .. 1
  BY DEF InHand
<1> QED BY <1>1, <1>2, <1>3 DEF Held

\* A sum stays within a bound when it does not grow and the bound does not shrink.
LEMMA StaysWithin ==
  ASSUME NEW h \in Nat, NEW g \in Nat, NEW c \in Nat, NEW r \in Nat, NEW q \in Nat,
         NEW e \in Nat, NEW f \in Nat, g <= h, r <= q, e <= f, h + c <= r + e
  PROVE  g + c <= q + f
OBVIOUS

\* A step that spends nothing of the allowance and gives none.
LEMMA CreditKept ==
  ASSUME CreditInv, Held \in Nat, Held' \in Nat, Held' <= Held,
         UNCHANGED <<bufferRemaining, credit, streamType, kind, confirm>>,
         hcPc' \in {"admit", "dial", "confirm"} => hcPc \in {"admit", "dial", "confirm"}
  PROVE  CreditInv'
<1>1. Extra \in Nat /\ Extra' \in Nat /\ Extra <= Extra'
  BY ConstAssumption DEF Extra
<1>2. Remaining \in Nat /\ Remaining' = Remaining
  BY ConstAssumption DEF Remaining, CreditInv
<1>3. credit \in Nat /\ credit' = credit
  BY ConstAssumption DEF CreditInv
<1>4. kind' = "tcp" => Held' + credit' <= Remaining' + Extra'
  <2> SUFFICES ASSUME kind = "tcp"
               PROVE  Held' + credit <= Remaining + Extra'
    BY <1>2, <1>3
  <2>1. Held + credit <= Remaining + Extra
    BY DEF CreditInv
  <2>2. Remaining <= Remaining
    BY <1>2
  <2> QED BY <1>1, <1>2, <1>3, <2>1, <2>2, StaysWithin
<1> QED BY <1>4 DEF CreditInv

\* A packet is counted when it is no longer in hand; the last of an allowance can only
\* be counted when the server holds nothing else of it.
LEMMA CreditAccount ==
  ASSUME CreditInv, streamType = "tcp", Held \in Nat, Held' \in Nat, Held' = Held - 1,
         Account, UNCHANGED <<streamType, kind, confirm, hcPc>>
  PROVE  CreditInv'
<1>1. /\ Extra \in Nat /\ Extra' = Extra /\ Remaining = bufferRemaining
      /\ Remaining' = bufferRemaining' /\ streamType' = "tcp"
  BY ConstAssumption DEF Extra, Remaining
<1>2. bufferRemaining \in 1 .. BufferLength /\ credit \in 0 .. BufferLength
  BY ConstAssumption DEF CreditInv
<1>3. BufferLength \in Nat /\ BufferLength >= 1
  BY ConstAssumption
<1>4. CASE bufferRemaining = 1
  <2>1. bufferRemaining' = BufferLength /\ credit' \in {credit, BufferLength}
    BY <1>4 DEF Account, SendContinue
  <2>2. kind = "tcp" => Held + credit <= 1 + Extra
    BY <1>1, <1>4 DEF CreditInv
  <2>3. kind = "tcp" => Held' <= Extra /\ Held' + credit <= Extra
    BY <1>1, <1>2, <2>2
  <2>4. kind' = "tcp" => Held' + credit' <= Remaining' + Extra'
    <3>1. CASE credit' = credit
      BY <1>1, <1>2, <1>3, <2>1, <2>3, <3>1
    <3>2. CASE credit' = BufferLength
      BY <1>1, <1>3, <2>1, <2>3, <3>2
    <3> QED BY <2>1, <3>1, <3>2
  <2> QED BY <1>2, <1>3, <2>1, <2>4 DEF CreditInv
<1>5. CASE bufferRemaining # 1
  <2>1. bufferRemaining' = bufferRemaining - 1 /\ credit' = credit
    BY <1>5 DEF Account
  <2>2. kind = "tcp" => Held + credit <= bufferRemaining + Extra
    BY <1>1 DEF CreditInv
  <2>3. kind' = "tcp" => Held' + credit' <= Remaining' + Extra'
    BY <1>1, <1>2, <2>1, <2>2
  <2> QED BY <1>2, <1>3, <1>5, <2>1, <2>3 DEF CreditInv
<1> QED BY <1>4, <1>5

\* The handshake of handleConnect: a confirmed stream gets a second allowance.
LEMMA CreditConnect ==
  ASSUME CreditInv, FlagTypes, Held \in Nat, Held' = Held, HcAdmit \/ HcConfirm
  PROVE  CreditInv'
<1> USE ConstAssumption
<1>1. CASE HcAdmit /\ streamType' = streamType /\ bufferRemaining' = bufferRemaining
  BY <1>1, CreditKept DEF HcAdmit
<1>2. CASE HcAdmit /\ streamType' = kind /\ bufferRemaining' = BufferLength
  <2>1. /\ UNCHANGED <<credit, kind, confirm>> /\ kind # "unset"
        /\ hcPc = "admit" /\ hcPc' \in {"dial", "close"}
    BY <1>2 DEF HcAdmit, FlagTypes, Places
  <2>2. /\ Remaining \in Nat /\ Remaining <= BufferLength /\ Remaining' = BufferLength
        /\ Extra = 0 /\ Extra' \in Nat
    BY <1>2, <2>1 DEF Remaining, Extra, CreditInv
  <2>3. kind' = "tcp" => Held' + credit' <= Remaining' + Extra'
    <3> SUFFICES ASSUME kind = "tcp"
                 PROVE  Held + credit <= BufferLength + Extra'
      BY <2>1, <2>2
    <3>1. Held + credit <= Remaining + Extra /\ credit \in Nat
      BY DEF CreditInv
    <3>2. Held <= Held /\ Extra <= Extra' /\ Extra \in Nat /\ BufferLength \in Nat
      BY <2>2
    <3> QED BY <2>2, <3>1, <3>2, StaysWithin
  <2>4. bufferRemaining' \in 0 .. BufferLength /\ bufferRemaining' >= 1
    BY <1>2
  <2> QED BY <2>1, <2>3, <2>4 DEF CreditInv
<1>3. CASE HcConfirm
  <2>1. /\ UNCHANGED <<bufferRemaining, streamType, kind, confirm>>
        /\ hcPc = "confirm" /\ hcPc' = "take"
    BY <1>3 DEF HcConfirm
  <2>2. /\ Remaining \in Nat /\ bufferRemaining \in Nat /\ bufferRemaining <= BufferLength
        /\ bufferRemaining <= Remaining /\ Remaining <= BufferLength /\ Remaining' = Remaining
        /\ Extra = 0 /\ Extra' = IF confirm THEN BufferLength ELSE 0
        /\ credit \in Nat
    BY <2>1 DEF Remaining, Extra, CreditInv
  <2>3. credit' = credit \/ (confirm /\ credit' = bufferRemaining)
    BY <1>3 DEF HcConfirm, SendContinue
  <2>4. credit' \in 0 .. BufferLength
    BY <2>2, <2>3 DEF CreditInv
  <2>5. kind = "tcp" => Held' + credit' <= Remaining' + Extra'
    <3>1. kind = "tcp" => Held + credit <= Remaining
      BY <2>2 DEF CreditInv
    <3> QED BY <2>2, <2>3, <3>1
  <2> QED BY <2>1, <2>4, <2>5 DEF CreditInv
<1> QED BY <1>1, <1>2, <1>3 DEF HcAdmit

\* What is held after a step, and when it is no more than before.
LEMMA HeldNext ==
  ASSUME ClientInv, OrderInv, ClientInv', OrderInv'
  PROVE  /\ Held \in Nat /\ Held' \in Nat
         /\ UNCHANGED <<sent, pkt, pending, pendingData>> /\ InHand' = InHand => Held' = Held
         /\ UNCHANGED <<sent, pkt, pending, pendingData>> /\ InHand' <= InHand => Held' <= Held
<1>1. Len(pendingData)' \in Nat /\ Len(pending)' \in Nat
  BY DEF OrderInv
<1>2. sent' \in Nat /\ pkt' \in Nat /\ pkt' <= sent'
  BY ConstAssumption DEF ClientInv
<1>3. InHand' \in 0 .. 1
  BY DEF InHand
<1>4. Held' \in Nat
  BY <1>1, <1>2, <1>3 DEF Held
<1> QED BY <1>3, <1>4, HeldType DEF Held

\* A step of close() or of handleConnect: packets move, and some are written.
LEMMA CreditProcess ==
  ASSUME CreditInv, ControlInv, ClientInv, OrderInv, ClientInv', OrderInv',
         Closing \/ HandleConnect \/ HcFlushWrite
  PROVE  CreditInv'
<1>1. UNCHANGED <<sent, pkt, rlPc>> /\ InHand' = InHand
  BY DEF Closing, CloseSignal, CloseDelete, CloseConn, CloseDeactivate, CloseDrain,
     CloseSend, AsyncClose, HandleConnect, HcAdmit, HcDial, HcConfirm, HcTake,
     HcFlushCheck, HcFlushWrite, HcActivate, HcSignal, HcReadEnd, HcClose, HcCloseReturns,
     InHand
<1>2. CASE HcAdmit \/ HcConfirm
  <2>1. UNCHANGED <<pending, pendingData>>
    BY <1>2 DEF HcAdmit, HcConfirm
  <2> QED BY <1>1, <1>2, <2>1, HeldNext, CreditConnect DEF ControlInv
<1>3. CASE ~(HcAdmit \/ HcConfirm)
  <2>1. UNCHANGED <<bufferRemaining, credit, streamType, kind, confirm>>
    BY <1>3 DEF Closing, CloseSignal, CloseDelete, CloseConn, CloseDeactivate, CloseDrain,
       CloseSend, AsyncClose, HandleConnect, HcDial, HcTake, HcFlushCheck, HcFlushWrite,
       HcActivate, HcSignal, HcReadEnd, HcClose, HcCloseReturns
  <2>2. hcPc' \in {"admit", "dial", "confirm"} => hcPc \in {"admit", "dial", "confirm"}
    BY <1>3 DEF Closing, CloseSignal, CloseDelete, CloseConn, CloseDeactivate, CloseDrain,
       CloseSend, AsyncClose, HandleConnect, HcDial, HcTake, HcFlushCheck, HcFlushWrite,
       HcActivate, HcSignal, HcReadEnd, HcClose, HcCloseReturns
  <2>3. Held' <= Held
    <3>1. CASE HcTake
      <4>1. pending = <<>> /\ pendingData' = <<>> /\ pending' = pendingData
        BY <3>1 DEF HcTake, OrderInv, BeforeFlush
      <4>2. Held' = Held
        BY <1>1, <4>1, HeldType DEF Held
      <4> QED BY <4>2, HeldType
    <3>2. CASE HcFlushWrite
      <4>1. pendingData' = pendingData
            /\ (pending' = pending \/ (pending # <<>> /\ pending' = Tail(pending)))
        BY <3>2 DEF HcFlushWrite, OrderInv
      <4>2. Len(pending') \in Nat /\ Len(pending') <= Len(pending)
        BY <4>1, TailElements DEF OrderInv
      <4> QED BY <1>1, <4>1, <4>2, HeldType DEF Held
    <3>3. CASE ~HcTake /\ ~HcFlushWrite
      <4>1. UNCHANGED <<pending, pendingData>>
        BY <1>3, <3>3 DEF Closing, CloseSignal, CloseDelete, CloseConn, CloseDeactivate,
           CloseDrain, CloseSend, AsyncClose, HandleConnect, HcDial, HcFlushCheck,
           HcActivate, HcSignal, HcReadEnd, HcClose, HcCloseReturns
      <4>2. Held' = Held
        BY <1>1, <4>1, HeldNext
      <4> QED BY <4>2, HeldType
    <3> QED BY <3>1, <3>2, <3>3
  <2> QED BY <2>1, <2>2, <2>3, HeldNext, CreditKept
<1> QED BY <1>2, <1>3

\* A step of the read loop: it takes a packet in hand, keeps it, or counts it.
LEMMA CreditLoop ==
  ASSUME CreditInv, ControlInv, ClientInv, OrderInv, ClientInv', OrderInv',
         ReadLoop \/ RlEnd \/ RlWrite \/ RlDirect
  PROVE  CreditInv'
<1>1. UNCHANGED <<sent, pending, streamType, kind, confirm, hcPc>>
  BY DEF ReadLoop, RlData, RlClose, RlHit, RlFill, RlOpen, RlPend, RlMode, RlSubmit, RlEnqueue,
     RlTake, RlCheck, RlCredit, RlCallClose, RlCloseReturns, RlTeardown, RlLeave, RlEnd,
     RlWrite, RlDirect
<1>2. ASSUME UNCHANGED <<bufferRemaining, credit>>, Held' <= Held
      PROVE  CreditInv'
  BY <1>1, <1>2, HeldNext, CreditKept
<1>3. CASE RlData
  <2>1. /\ pkt' = pkt + 1 /\ pkt' <= sent /\ InHand = 0 /\ InHand' \in 0 .. 1
        /\ UNCHANGED <<pendingData, bufferRemaining, credit>>
    BY <1>3, TakesNext DEF RlData, InHand, Idle
  <2>2. Held' <= Held
    BY SMTT(30), <1>1, <2>1, HeldType DEF Held
  <2> QED BY <1>2, <2>1, <2>2
<1>4. CASE RlPend
  <2>1. InHand = 1 /\ UNCHANGED <<pkt, bufferRemaining, credit>>
    BY <1>4 DEF RlPend, InHand, Idle
  <2>2. CASE rlPc' = "idle"
    <3>1. pendingData' = Append(pendingData, pkt) /\ InHand' = 0
      BY <1>4, <2>2 DEF RlPend, Drop, InHand, Idle
    <3>2. Len(pendingData') = Len(pendingData) + 1
      BY <3>1 DEF OrderInv
    <3>3. Held' <= Held
      BY <1>1, <2>1, <3>1, <3>2, HeldType DEF Held
    <3> QED BY <1>2, <2>1, <3>3
  <2>3. CASE rlPc' # "idle"
    <3>1. UNCHANGED pendingData /\ InHand' <= InHand
      BY <1>4, <2>1, <2>3 DEF RlPend, Drop, InHand
    <3> QED BY <1>1, <1>2, <2>1, <3>1, HeldNext
  <2> QED BY <2>2, <2>3
<1>5. CASE rlPc' = "idle" /\ Account /\ (RlCredit \/ RlDirect)
  <2>1. InHand = 1 /\ InHand' = 0 /\ UNCHANGED <<pkt, pendingData>>
    BY <1>5 DEF RlCredit, RlDirect, InHand, Idle
  <2>2. Held' = Held - 1
    BY <1>1, <2>1, HeldType DEF Held
  <2>3. CASE streamType = "tcp"
    BY <1>1, <1>5, <2>2, <2>3, HeldNext, CreditAccount
  <2>4. CASE streamType # "tcp"
    <3>1. UNCHANGED <<bufferRemaining, credit>>
      BY <1>5, <2>4 DEF RlCredit, RlDirect, ControlInv, ModeInv
    <3>2. Held' <= Held
      BY <2>2, HeldType
    <3> QED BY <1>2, <3>1, <3>2
  <2> QED BY <2>3, <2>4
<1>6. CASE RlDirect /\ ~(rlPc' = "idle" /\ Account)
  <2>1. InHand = 1 /\ InHand' <= 1 /\ UNCHANGED <<pkt, pendingData, bufferRemaining, credit>>
    BY <1>6 DEF RlDirect, Drop, InHand, Idle
  <2> QED BY <1>1, <1>2, <2>1, HeldNext
<1>7. CASE \/ RlClose \/ RlHit \/ RlFill \/ RlOpen \/ RlMode \/ RlSubmit \/ RlEnqueue \/ RlTake
           \/ RlCheck \/ RlWrite \/ RlCallClose \/ RlCloseReturns \/ RlTeardown \/ RlLeave
           \/ RlEnd
  <2> USE <1>7 DEF RlClose, RlHit, RlFill, RlOpen, RlMode, RlSubmit, RlEnqueue, Enqueue,
        RlTake, RlCheck, RlWrite, RlCallClose, RlCloseReturns, RlTeardown, RlLeave, RlEnd,
        AtEnd, Drop
  <2>1. UNCHANGED <<pkt, pendingData, bufferRemaining, credit>>
    OBVIOUS
  <2>2. rlPc \in Idle \cup {"closeDrop", "closingDrop"}
          => rlPc' \in Idle \cup {"closeDrop", "closingDrop"} \/ rlPc = "closingKeep"
    BY DEF Idle
  <2>3. InHand' <= InHand
    BY <2>2 DEF InHand, Idle
  <2> HIDE <1>7
  <2> QED BY <1>1, <1>2, <2>1, <2>3, HeldNext
<1>8. RlCredit => rlPc' = "idle" /\ Account
  BY DEF RlCredit, Keep
<1> QED BY <1>3, <1>4, <1>5, <1>6, <1>7, <1>8 DEF ReadLoop

\* Every step keeps the allowance: only a client that has credit sends.
LEMMA CreditStep ==
  ASSUME CreditInv, ControlInv, ClientInv, OrderInv, ClientInv', OrderInv', [Next]_vars
  PROVE  CreditInv'
<1>1. CASE ClientSend
  <2>1. /\ UNCHANGED <<pkt, pending, pendingData, rlPc, bufferRemaining, streamType, kind,
                       confirm, hcPc>>
        /\ sent' = sent + 1 /\ InHand' = InHand
        /\ credit' = IF kind = "tcp" THEN credit - 1 ELSE credit
        /\ kind = "tcp" => credit > 0
    BY <1>1 DEF ClientSend, InHand
  <2>2. Held' = Held + 1
    BY SMTT(30), <2>1, HeldType DEF Held
  <2>3. credit \in Nat /\ credit' \in 0 .. BufferLength
    BY <2>1, ConstAssumption DEF CreditInv
  <2>4. Remaining' = Remaining /\ Extra' = Extra
    BY <2>1 DEF Remaining, Extra
  <2>5. ASSUME kind = "tcp"
        PROVE  Held' + credit' <= Remaining' + Extra'
    <3>1. Held' + credit' = Held + credit
      BY <2>1, <2>2, <2>3, <2>5, HeldType
    <3> QED BY <2>4, <2>5, <3>1 DEF CreditInv
  <2> QED BY <2>1, <2>3, <2>5 DEF CreditInv
<1>2. CASE ClientClose \/ RemoteEnds \/ UNCHANGED vars
  <2>1. /\ UNCHANGED <<sent, pkt, pending, pendingData, rlPc, bufferRemaining, credit,
                       streamType, kind, confirm, hcPc>>
        /\ InHand' = InHand
    BY <1>2 DEF ClientClose, RemoteEnds, InHand
  <2>2. Held' <= Held
    BY <2>1, HeldNext, HeldType
  <2> QED BY <2>1, <2>2, HeldNext, CreditKept
<1> QED BY <1>1, <1>2, CreditProcess, CreditLoop DEF Next, SocketWrite
-------------------------------------------------------------------------------
(* The invariant, and what follows from it *)

\* The invariant holds when the stream has just been made.
LEMMA InitInv == Init => Inv
<1> SUFFICES ASSUME Init PROVE Inv
  OBVIOUS
<1> USE DEF Init
<1>1. ControlInv
  BY DEF ControlInv, FlagTypes, StreamFlags, IngressFlags, OtherFlags, Places, HcPCs, RlPCs,
     ClPCs, LifeInv, ReadyMeansConnected, ModeInv
<1>2. ClientInv
  BY ConstAssumption DEF ClientInv, Idle
<1>3. QueueInv
  BY DEF QueueInv
<1>4. OrderInv
  BY DEF OrderInv, UpTo, Increasing, BeforeFlush, Flushing
<1>5. PutsInv
  BY ConstAssumption DEF PutsInv, Packet
<1>6. CreditInv
  <2>1. Held = 0 /\ Remaining = BufferLength /\ Extra = 0
    BY DEF Held, InHand, Idle, Remaining, Extra
  <2> QED BY <2>1, ConstAssumption DEF CreditInv
<1> QED BY <1>1, <1>2, <1>3, <1>4, <1>5, <1>6 DEF Inv

\* Every step keeps it.
LEMMA NextInv == Inv /\ [Next]_vars => Inv'
<1> SUFFICES ASSUME Inv, [Next]_vars PROVE Inv'
  OBVIOUS
<1> USE DEF Inv
<1>1. ControlInv'
  BY ControlStep
<1>2. ClientInv' /\ QueueInv'
  BY ClientStep, QueueStep DEF ControlInv
<1>3. OrderInv'
  BY OrderStep
<1>4. PutsInv'
  BY PutsStep
<1>5. CreditInv'
  BY <1>2, <1>3, CreditStep
<1> QED BY <1>1, <1>2, <1>3, <1>4, <1>5

\* So it always holds.
LEMMA AlwaysInv == Safety => []Inv
BY InitInv, NextInv, PTL DEF Safety

\* The types of the data; and a stream that is open and ready has a socket, which is
\* what lets handleDataPacket use stream.conn without a look at it.
THEOREM TypeCorrect == Safety => []TypeOK
<1>1. ASSUME Inv PROVE TypeOK
  <2> USE <1>1 DEF Inv
  <2>1. FlagTypes /\ ReadyMeansConnected
    BY DEF ControlInv, LifeInv
  <2>2. pkt \in 0 .. Packets /\ sent \in 0 .. Packets /\ inflight \in Seq(Packet \cup {CLOSE})
    BY DEF ClientInv
  <2>3. pendingData \in Seq(Packet) /\ pending \in Seq(Packet) /\ received \in Seq(Packet)
    BY DEF OrderInv
  <2>4. rlPc \in {"take", "check", "write"} => pkt \in Packet
    BY DEF ClientInv, Idle
  <2>5. pendingIngress \in Seq(Packet) /\ batch \in Seq(Packet)
    <3>1. <<>> \in Seq(Packet) /\ (pkt \in Packet => <<pkt>> \in Seq(Packet))
      OBVIOUS
    <3>2. pendingIngress = <<>> \/ (rlPc = "take" /\ pendingIngress = <<pkt>>)
      BY DEF QueueInv
    <3>3. batch = <<>> \/ (rlPc \in {"check", "write"} /\ batch = <<pkt>>)
      BY DEF QueueInv
    <3> QED BY <2>4, <3>1, <3>2, <3>3
  <2>6. puts \in [Packet -> Nat] /\ bufferRemaining \in 0 .. BufferLength
        /\ credit \in 0 .. BufferLength
    BY DEF PutsInv, CreditInv
  <2>7. {isOpen, connReadyDone, inMap, cached, closeSent, ingressActive, ingressWriting,
         asyncClose, connClosed, confirm, clientClosed, crashed} \subseteq BOOLEAN
    BY <2>1 DEF FlagTypes, StreamFlags, IngressFlags, OtherFlags
  <2>8. /\ conn \in {"nil", "open", "closed"} /\ remote \in {"up", "eof", "down"}
        /\ kind \in {"tcp", "udp"} /\ streamType \in {"unset", kind}
    BY <2>1 DEF FlagTypes, Places
  <2>9. {pendingData, pending, pendingIngress, batch, received} \subseteq Seq(Packet)
    BY <2>3, <2>5
  <2> HIDE <1>1
  <2> QED BY <2>1, <2>2, <2>6, <2>7, <2>8, <2>9 DEF TypeOK
<1> QED BY <1>1, AlwaysInv, PTL

\* While a stream is open the far end gets the packets in the order in which they were
\* sent and none twice: handleConnect is done with the early ones when the read loop
\* writes, and what the read loop has in hand is later than all that are kept.
THEOREM DeliveredInOrder == Safety => []InOrder
<1>1. ASSUME Inv PROVE InOrder
  BY <1>1 DEF Inv, OrderInv, Increasing, InOrder
<1> QED BY <1>1, AlwaysInv, PTL

\* Every payload buffer goes back to its pool, not before its packet is written, and
\* once while the stream stays open.
THEOREM BuffersGivenBack == Safety => []BufferOnce
<1>1. ASSUME Inv PROVE BufferOnce
  <2> USE <1>1 DEF Inv
  <2>1. pkt \in Nat /\ sent \in Nat /\ sent <= Packets /\ pkt <= sent
    BY ConstAssumption DEF ClientInv
  <2>2. ASSUME rlPc = "idle", NEW p \in 1 .. sent
        PROVE  p \in Range(inflight) \/ puts[p] > 0
    <3>1. p \in Packet /\ p \in Nat /\ puts[p] \in Nat
      BY <2>1, ConstAssumption DEF Packet, PutsInv
    <3>2. CASE p < pkt
      BY <3>1, <3>2 DEF PutsInv
    <3>3. CASE p = pkt
      <4>1. ~Owed
        BY <2>2 DEF Owed, Unplaced, QueueInv
      <4> QED BY <3>1, <3>3, <4>1 DEF PutsInv
    <3>4. CASE p > pkt
      <4>1. /\ Len(inflight) \in Nat /\ Len(inflight) >= sent - pkt
            /\ DOMAIN inflight = 1 .. Len(inflight)
        BY <2>1 DEF ClientInv
      <4>2. p - pkt \in 1 .. Len(inflight) /\ p - pkt <= sent - pkt
        BY <2>1, <3>4, <4>1
      <4>3. inflight[p - pkt] = pkt + (p - pkt)
        BY <4>2 DEF ClientInv
      <4>4. inflight[p - pkt] = p
        BY <2>1, <3>1, <4>3
      <4> QED BY <4>1, <4>2, <4>4 DEF Range
    <3> QED BY <2>1, <3>1, <3>2, <3>3, <3>4
  <2>3. ASSUME NEW p \in Packet, p \in Range(pendingIngress) \cup Range(batch)
        PROVE  puts[p] = 0
    <3>1. Range(pendingIngress) \subseteq {pkt} /\ Range(batch) \subseteq {pkt}
      BY RangeOfFew DEF QueueInv
    <3>2. pendingIngress # <<>> \/ batch # <<>>
      BY <2>3, RangeOfFew
    <3>3. Owed
      BY <3>2 DEF Owed, Unplaced, QueueInv
    <3> QED BY <2>3, <3>1, <3>3 DEF PutsInv
  <2>4. \A p \in Packet : isOpen => puts[p] <= 1
    BY DEF PutsInv
  <2> QED BY <2>2, <2>3, <2>4 DEF BufferOnce
<1> QED BY <1>1, AlwaysInv, PTL

\* What a client within its allowance makes the server hold of a TCP stream is bounded
\* by one allowance, or by two if the stream is confirmed by a CONTINUE of its own.
THEOREM BacklogBounded == Safety => []BacklogBound
<1>1. ASSUME Inv PROVE BacklogBound
  <2> USE <1>1 DEF Inv
  <2>1. /\ Len(pendingData) \in Nat /\ Len(pending) \in Nat /\ sent \in Nat /\ pkt \in Nat
        /\ pkt <= sent /\ Held \in Nat
    BY HeldType
  <2>2. {k \in DOMAIN inflight : inflight[k] # CLOSE} = 1 .. (sent - pkt)
    <3>1. /\ Len(inflight) \in Nat /\ Len(inflight) >= sent - pkt
          /\ DOMAIN inflight = 1 .. Len(inflight)
      BY <2>1 DEF ClientInv
    <3>2. \A k \in 1 .. Len(inflight) : inflight[k] # CLOSE <=> k <= sent - pkt
      BY <2>1 DEF ClientInv, CLOSE
    <3> QED BY <2>1, <3>1, <3>2
  <2>3. Cardinality(1 .. (sent - pkt)) = sent - pkt
    BY <2>1, FS_Interval
  <2>4. Len(pendingIngress) \in Nat /\ Len(pendingIngress) <= InHand
    BY DEF QueueInv, InHand, Idle
  <2>5. kind = "tcp" => Held <= Remaining + Extra
    BY <2>1, ConstAssumption DEF CreditInv, Remaining, Extra
  <2>6. /\ Remaining \in Nat /\ Remaining <= BufferLength /\ Extra \in Nat
        /\ Extra <= BufferLength /\ (~confirm => Extra = 0)
    BY ConstAssumption DEF CreditInv, Remaining, Extra
  <2>7. Cardinality({k \in DOMAIN inflight : inflight[k] # CLOSE}) = sent - pkt
    BY <2>2, <2>3
  <2>8. InHand \in 0 .. 1
    BY DEF InHand
  <2>9. (sent - pkt) + Len(pendingData) + Len(pending) + Len(pendingIngress) <= Held
    BY <2>1, <2>4, <2>8 DEF Held
  <2>10. kind = "tcp" => Held <= (IF confirm THEN 2 ELSE 1) * BufferLength
    <3> SUFFICES ASSUME kind = "tcp" PROVE Held <= (IF confirm THEN 2 ELSE 1) * BufferLength
      OBVIOUS
    <3>1. Held <= BufferLength + Extra
      BY <2>1, <2>5, <2>6, ConstAssumption
    <3>2. 2 * BufferLength = BufferLength + BufferLength /\ 1 * BufferLength = BufferLength
      BY ConstAssumption
    <3>3. CASE confirm
      BY <2>1, <2>6, <3>1, <3>2, <3>3, ConstAssumption
    <3>4. CASE ~confirm
      BY <2>1, <2>6, <3>1, <3>2, <3>4, ConstAssumption
    <3> QED BY <3>3, <3>4
  <2>11. (IF confirm THEN 2 ELSE 1) * BufferLength \in Nat
    BY ConstAssumption
  <2> QED BY <2>1, <2>4, <2>7, <2>9, <2>10, <2>11 DEF BacklogBound
<1> QED BY <1>1, AlwaysInv, PTL
===============================================================================
