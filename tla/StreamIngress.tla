---------------------------- MODULE StreamIngress ----------------------------
(***************************************************************************)
(* The life of one wispStream and the data a client sends on it:           *)
(* handleConnect (wisp/wisp-stream.go) in a goroutine of its own,          *)
(* handleDataPacket (wisp/wisp-connection.go) in the connection's read     *)
(* loop, the ingress queue between them, close() in whichever goroutine    *)
(* wins its CAS, and the CONTINUE packets of Wisp's flow control.          *)
(*                                                                         *)
(* A step is one atomic load, store or CAS, one section under a mutex, or  *)
(* one call on a socket.  Packets are the numbers 1..Packets, so that      *)
(* their order and their loss can be seen at the remote end, each with a   *)
(* size in bytes.                                                          *)
(***************************************************************************)
EXTENDS Naturals, Sequences, FiniteSets, Functions

CONSTANTS Packets,       \* bound: how many DATA packets the client sends
          Size,          \* len(payload) of each of them
          BufferLength,  \* cfg.BufferRemainingLength, which counts packets
          PendingLimit   \* the cap on pendingBytes, 16 MiB, which counts bytes

ASSUME ConstAssumption ==
  /\ Packets \in Nat /\ Size \in [1..Packets -> Nat]
  /\ BufferLength \in Nat \ {0} /\ PendingLimit \in Nat

VARIABLES
  isOpen, connReadyDone, conn, streamType, pendingData,      \* wispStream's
  ingressActive, pendingIngress, ingressWriting,             \* fields
  bufferRemaining,
  inMap,           \* c.streams holds the stream
  cached,          \* its streamCache slot holds the stream
  connClosed,      \* c.isClosed
  hcPc, pending,   \* handleConnect: where it is, and its local copy
  rlPc, pkt, batch,\* the read loop: where it is, its packet, runIngressWriter's
  clPc, closer,    \* close(): where it is, and which goroutine runs it
  asyncClose,      \* a `go stream.close()` of handleClosePacket has not run yet
  kind, confirm,   \* CONNECT's stream type; v2 stream confirmation was agreed
  remote,          \* the far end: "up", "eof" (no more to read), "down"
  received,        \* what it has received
  puts,            \* how often each packet's buffer went back to the pool
  sent, inflight, credit,  \* the client: packets sent, on their way, allowed
  clientClosed,    \* the client has sent its CLOSE
  closeSent,       \* a CLOSE packet for the stream went to the client
  crashed          \* the process died of a nil dereference

tableVars == <<inMap, cached, closeSent>>
sVars == <<isOpen, connReadyDone, tableVars>>
connVars == <<conn, streamType, remote, kind, confirm>>
ingressVars == <<ingressActive, pendingIngress, ingressWriting>>
hcVars == <<hcPc, pending>>
rlVars == <<rlPc, pkt, batch>>
clVars == <<clPc, closer, asyncClose>>
flowVars == <<bufferRemaining, credit>>
clientVars == <<sent, inflight, clientClosed>>
dataVars == <<pendingData, received, puts>>
procVars == <<connClosed, crashed>>

outside == <<connVars, clientVars, procVars>>
others == <<outside, ingressVars, flowVars>>
rest == <<others, dataVars>>
vars == <<rest, sVars, hcVars, rlVars, clVars>>

Packet == 1..Packets
CLOSE == 0         \* the client's CLOSE packet, in the same order as its data

Init ==
  /\ isOpen = TRUE /\ connReadyDone = FALSE /\ inMap = TRUE /\ cached = FALSE
  /\ conn = "nil" /\ streamType = "unset"
  /\ kind \in {"tcp", "udp"} /\ confirm \in BOOLEAN /\ remote = "up"
  /\ pendingData = <<>>
  /\ ingressActive = FALSE /\ pendingIngress = <<>> /\ ingressWriting = FALSE
  /\ bufferRemaining = 0
  /\ hcPc = "admit" /\ pending = <<>>
  /\ rlPc = "idle" /\ pkt = 0 /\ batch = <<>>
  /\ clPc = "none" /\ closer = "none" /\ asyncClose = FALSE
  /\ connClosed = FALSE /\ closeSent = FALSE /\ crashed = FALSE
  /\ received = <<>>
  /\ puts = [p \in Packet |-> 0]
  /\ sent = 0 /\ inflight = <<>> /\ clientClosed = FALSE
  /\ credit = BufferLength

-------------------------------------------------------------------------------
(* close(): the caller that wins the CAS runs the rest of it, the others     *)
(* return at once.                                                           *)

\* Mutant of CallClose: isOpen is tested but not yet cleared.
CallCloseLoad(a) ==
  /\ clPc' = IF isOpen /\ clPc = "none" THEN "signal" ELSE clPc
  /\ closer' = IF isOpen /\ clPc = "none" THEN a ELSE closer
  /\ UNCHANGED isOpen

CallClose(a) ==
  /\ isOpen' = FALSE
  /\ clPc' = IF isOpen THEN "signal" ELSE clPc
  /\ closer' = IF isOpen THEN a ELSE closer

\* The call to close() made by goroutine a has returned.
Returned(a) == closer # a \/ clPc = "done"

CloseSignal ==
  /\ clPc = "signal"
  /\ connReadyDone' = TRUE
  /\ clPc' = "delete"
  /\ UNCHANGED <<rest, tableVars, hcVars, rlVars, isOpen, closer, asyncClose>>

\* deleteWispStream: the map entry, then the cache slot.
CloseDelete ==
  /\ \/ clPc = "delete" /\ inMap' = FALSE /\ clPc' = "uncache" /\ UNCHANGED cached
     \/ clPc = "uncache" /\ cached' = FALSE /\ clPc' = "conn" /\ UNCHANGED inMap
  /\ UNCHANGED <<rest, hcVars, rlVars, isOpen, connReadyDone, closeSent, closer,
                 asyncClose>>

CloseConn ==
  /\ clPc = "conn"
  /\ conn' = IF conn = "open" THEN "closed" ELSE conn
  /\ clPc' = "deactivate"
  /\ UNCHANGED <<sVars, ingressVars, hcVars, rlVars, flowVars, clientVars,
                 dataVars, procVars, streamType, remote, kind, confirm,
                 closer, asyncClose>>

\* putWSPayloadBuf of the buffers of the packets in S.
PutAll(S) == puts' = [p \in Packet |-> IF p \in S THEN puts[p] + 1 ELSE puts[p]]

\* Mutant of AfterDeactivate: close() returns early without ingress to drain.
ReturnEarly == IF ingressActive THEN "drain" ELSE "done"

AfterDeactivate == IF ingressActive THEN "drain" ELSE "send"

CloseDeactivate ==
  /\ clPc = "deactivate"
  /\ ingressActive' = FALSE
  /\ clPc' = AfterDeactivate
  /\ UNCHANGED <<outside, sVars, hcVars, rlVars, flowVars, dataVars,
                 pendingIngress, ingressWriting, closer, asyncClose>>

\* close() drains the ingress queue itself only if no writer will.
CloseDrain ==
  /\ clPc = "drain"
  /\ clPc' = "send"
  /\ \/ ~ingressWriting /\ pendingIngress' = <<>> /\ PutAll(Range(pendingIngress))
     \/ ingressWriting /\ UNCHANGED <<pendingIngress, puts>>
  /\ UNCHANGED <<outside, sVars, hcVars, rlVars, flowVars, ingressActive,
                 ingressWriting, closer, asyncClose, pendingData,
                 received>>

CloseSend ==
  /\ clPc = "send"
  /\ closeSent' = (closeSent \/ ~connClosed)
  /\ clPc' = "done"
  /\ UNCHANGED <<rest, hcVars, rlVars, isOpen, connReadyDone, inMap, cached,
                 closer, asyncClose>>

\* The goroutine handleClosePacket started gets to call close().
AsyncClose ==
  /\ asyncClose
  /\ asyncClose' = FALSE
  /\ CallClose("async")
  /\ UNCHANGED <<rest, tableVars, hcVars, rlVars, connReadyDone>>

Closing ==
  \/ CloseSignal \/ CloseDelete \/ CloseConn \/ CloseDeactivate \/ CloseDrain
  \/ CloseSend \/ AsyncClose

-------------------------------------------------------------------------------
(* handleConnect *)

\* The allow and block lists, the egress policy, DNS, the rate caps, the
\* destination's reputation and the SYN semaphore let the stream pass or not.
\* A refusal may count as a violation too many and close the connection.
HcAdmit ==
  /\ hcPc = "admit"
  /\ \/ /\ streamType' = kind
        /\ bufferRemaining' = BufferLength
        /\ hcPc' = "dial"
        /\ UNCHANGED connClosed
     \/ /\ hcPc' = "close"
        /\ connClosed' \in {connClosed, TRUE}
        /\ UNCHANGED <<streamType, bufferRemaining>>
  /\ UNCHANGED <<sVars, ingressVars, rlVars, clVars, clientVars, dataVars, conn,
                 remote, kind, confirm, pending, credit, crashed>>

\* Dial succeeds or fails; either result may complete a flood signature, which
\* closes the socket, the stream and the connection.
HcDial ==
  /\ hcPc = "dial"
  /\ \/ conn' = "open" /\ hcPc' = "confirm"
     \/ conn' = "nil" /\ hcPc' = "close"
     \/ kind = "tcp" /\ conn' \in {"nil", "closed"} /\ hcPc' = "closeBoth"
  /\ UNCHANGED <<sVars, ingressVars, rlVars, clVars, flowVars, clientVars,
                 dataVars, procVars, streamType, remote, kind, confirm,
                 pending>>

\* sendPacket: a CONTINUE carries the client's new allowance, if the connection
\* is not closed.
SendContinue(n) == credit' = IF connClosed THEN credit ELSE n

HcConfirm ==
  /\ hcPc = "confirm"
  /\ hcPc' = "take"
  /\ \/ confirm /\ kind = "tcp" /\ SendContinue(bufferRemaining)
     \/ ~(confirm /\ kind = "tcp") /\ UNCHANGED credit
  /\ UNCHANGED <<outside, sVars, ingressVars, rlVars, clVars, dataVars, pending,
                 bufferRemaining>>

\* Mutant of HcTake: the stream is made ready before the flush.
HcTakeReadyFirst ==
  /\ hcPc = "take"
  /\ pending' = pendingData
  /\ pendingData' = <<>>
  /\ hcPc' = "flush"
  /\ connReadyDone' = TRUE
  /\ UNCHANGED <<others, tableVars, rlVars, clVars, isOpen, received, puts>>

\* Under pendingMutex: take what arrived before the socket was there.
HcTake ==
  /\ hcPc = "take"
  /\ pending' = pendingData
  /\ pendingData' = <<>>
  /\ hcPc' = "flush"
  /\ UNCHANGED <<others, sVars, rlVars, clVars, received, puts>>

HcFlushCheck ==
  /\ hcPc = "flush"
  /\ hcPc' = IF pending = <<>> THEN "activate"
             ELSE IF isOpen THEN "write" ELSE "return"
  /\ UNCHANGED <<rest, sVars, rlVars, clVars, pending>>

\* A Write on the stream's socket can reach the remote end, or fail.
WriteOK == conn = "open" /\ remote # "down"
WriteFails == conn = "closed" \/ remote = "down"

HcFlushWrite ==
  /\ hcPc = "write"
  /\ \/ /\ WriteOK
        /\ received' = Append(received, Head(pending))
        /\ pending' = Tail(pending)
        /\ hcPc' = "flush"
     \/ /\ WriteFails
        /\ hcPc' = "close"
        /\ UNCHANGED <<pending, received>>
  /\ UNCHANGED <<others, sVars, rlVars, clVars, pendingData, puts>>

HcActivate ==
  /\ hcPc = "activate"
  /\ ingressActive' = (ingressActive \/ kind = "tcp")
  /\ hcPc' = "ready"
  /\ UNCHANGED <<outside, sVars, rlVars, clVars, flowVars, dataVars,
                 pendingIngress, ingressWriting, pending>>

\* signalConnReady, called by handleConnect itself or by its defer.
HcSignal ==
  /\ \/ hcPc = "ready" /\ hcPc' = "read"
     \/ hcPc = "return" /\ hcPc' = "done"
  /\ connReadyDone' = TRUE
  /\ UNCHANGED <<rest, tableVars, rlVars, clVars, isOpen, pending>>

\* readFromConnection hands frames to the write queue until Read fails; the
\* frames themselves are WriteQueue's.
HcReadEnd ==
  /\ hcPc = "read"
  /\ conn = "closed" \/ remote # "up"
  /\ hcPc' = "close"
  /\ UNCHANGED <<rest, sVars, rlVars, clVars, pending>>

HcClose ==
  /\ \/ hcPc = "close" /\ hcPc' = "closing"
     \/ hcPc = "closeBoth" /\ hcPc' = "closingBoth"
  /\ CallClose("hc")
  /\ UNCHANGED <<rest, tableVars, rlVars, connReadyDone, pending, asyncClose>>

HcCloseReturns ==
  /\ hcPc \in {"closing", "closingBoth"}
  /\ Returned("hc")
  /\ connClosed' = (connClosed \/ hcPc = "closingBoth")
  /\ hcPc' = "return"
  /\ UNCHANGED <<sVars, connVars, ingressVars, rlVars, clVars, flowVars,
                 clientVars, dataVars, pending, crashed>>

HandleConnect ==
  \/ HcAdmit \/ HcDial \/ HcConfirm \/ HcTake \/ HcFlushCheck \/ HcActivate
  \/ HcSignal \/ HcReadEnd \/ HcClose \/ HcCloseReturns

-------------------------------------------------------------------------------
(* The read loop: handleDataPacket and handleClosePacket *)

\* handleDataPacket has returned false: the read loop puts the buffer back.
Drop ==
  /\ PutAll({pkt})
  /\ rlPc' = "idle"

\* A DATA packet finds its stream in the cache or in the map; without one the
\* client is told so.
RlData ==
  /\ rlPc = "idle" /\ inflight # <<>> /\ Head(inflight) # CLOSE
  /\ pkt' = Head(inflight)
  /\ inflight' = Tail(inflight)
  /\ \/ (cached \/ inMap) /\ rlPc' = (IF cached THEN "hit" ELSE "fill")
        /\ UNCHANGED <<closeSent, puts>>
     \/ ~cached /\ ~inMap
        /\ closeSent' = (closeSent \/ ~connClosed)
        /\ PutAll({Head(inflight)})
        /\ UNCHANGED rlPc
  /\ UNCHANGED <<connVars, ingressVars, hcVars, clVars, flowVars, procVars,
                 isOpen, connReadyDone, inMap, cached, batch, sent,
                 clientClosed, pendingData, received>>

\* A CLOSE packet starts a goroutine that will close the stream.
RlClose ==
  /\ rlPc = "idle" /\ inflight # <<>> /\ Head(inflight) = CLOSE
  /\ inflight' = Tail(inflight)
  /\ asyncClose' = inMap
  /\ UNCHANGED <<sVars, connVars, ingressVars, hcVars, rlVars, flowVars,
                 dataVars, procVars, clPc, closer, sent, clientClosed>>

\* The cache slot is read once more.  If close() has cleared it meanwhile the
\* stream is nil, and the next step dereferences it.
RlHit ==
  /\ rlPc = "hit"
  /\ \/ cached /\ rlPc' = "open" /\ UNCHANGED crashed
     \/ ~cached /\ crashed' = TRUE /\ UNCHANGED rlPc
  /\ UNCHANGED <<sVars, connVars, ingressVars, hcVars, clVars, flowVars,
                 clientVars, dataVars, connClosed, pkt, batch>>

RlFill ==
  /\ rlPc = "fill"
  /\ cached' = TRUE
  /\ rlPc' = "open"
  /\ UNCHANGED <<rest, hcVars, clVars, isOpen, connReadyDone, inMap, closeSent,
                 pkt, batch>>

RlOpen ==
  /\ rlPc = "open"
  /\ \/ isOpen /\ rlPc' = "pend" /\ UNCHANGED puts
     \/ ~isOpen /\ Drop
  /\ UNCHANGED <<others, sVars, hcVars, clVars, pkt, batch, pendingData,
                 received>>

\* The bytes of the packets of s.
Bytes(s) == FoldFunction(LAMBDA p, n : Size[p] + n, 0, s)

\* Under pendingMutex: keep a copy for handleConnect while the stream is not
\* ready, unless it has kept too much already (pendingBytes, the bytes of
\* pendingData).
RlPend ==
  /\ rlPc = "pend"
  /\ \/ connReadyDone /\ rlPc' = "mode" /\ UNCHANGED <<pendingData, puts>>
     \/ ~connReadyDone /\ Bytes(pendingData) + Size[pkt] > PendingLimit
        /\ rlPc' = "closeDrop" /\ UNCHANGED <<pendingData, puts>>
     \/ ~connReadyDone /\ Bytes(pendingData) + Size[pkt] <= PendingLimit
        /\ pendingData' = Append(pendingData, pkt) /\ Drop
  /\ UNCHANGED <<others, sVars, hcVars, clVars, pkt, batch, received>>

RlMode ==
  /\ rlPc = "mode"
  /\ rlPc' = IF streamType = "tcp" /\ ingressActive THEN "submit" ELSE "direct"
  /\ UNCHANGED <<rest, sVars, hcVars, clVars, pkt, batch>>

\* queueIngressOwned and submitIngress: on a stream that was closed meanwhile
\* they put the buffer back and return false, and so the read loop puts it
\* back once more.
RlSubmit ==
  /\ rlPc = "submit"
  /\ \/ ingressActive /\ isOpen /\ rlPc' = "enqueue" /\ UNCHANGED puts
     \/ ~(ingressActive /\ isOpen)
        /\ puts' = [puts EXCEPT ![pkt] = @ + 2] /\ rlPc' = "idle"
  /\ UNCHANGED <<others, sVars, hcVars, clVars, pkt, batch, pendingData,
                 received>>

\* Under pendingIngMu: append, and become the ingress writer if there is none.
Enqueue ==
  /\ pendingIngress' = Append(pendingIngress, pkt)
  /\ ingressWriting' = TRUE
  /\ rlPc' = IF ingressWriting THEN "credit" ELSE "take"

RlEnqueue ==
  /\ rlPc = "enqueue"
  /\ Enqueue
  /\ UNCHANGED <<outside, sVars, hcVars, clVars, flowVars, dataVars,
                 ingressActive, pkt, batch>>

\* runIngressWriter, under pendingIngMu: stop, or take the whole queue.
RlTake ==
  /\ rlPc = "take"
  /\ batch' = pendingIngress
  /\ pendingIngress' = <<>>
  /\ ingressWriting' = (pendingIngress # <<>>)
  /\ rlPc' = IF pendingIngress = <<>> THEN "credit" ELSE "check"
  /\ UNCHANGED <<outside, sVars, hcVars, clVars, flowVars, dataVars,
                 ingressActive, pkt>>

\* releaseIngressJob for every job of the batch.
Release == batch' = <<>> /\ PutAll(Range(batch))

RlCheck ==
  /\ rlPc = "check"
  /\ \/ /\ isOpen
        /\ rlPc' = "write"
        /\ UNCHANGED <<ingressWriting, batch, puts>>
     \/ /\ ~isOpen
        /\ Release
        /\ ingressWriting' = FALSE
        /\ rlPc' = "credit"
  /\ UNCHANGED <<outside, sVars, hcVars, clVars, flowVars, ingressActive,
                 pendingIngress, pkt, pendingData, received>>

RlWrite ==
  /\ rlPc = "write"
  /\ Release
  /\ \/ /\ WriteOK
        /\ received' = received \o batch
        /\ rlPc' = "take"
        /\ UNCHANGED ingressWriting
     \/ /\ WriteFails
        /\ ingressWriting' = FALSE
        /\ rlPc' = "closeKeep"
        /\ UNCHANGED received
  /\ UNCHANGED <<outside, sVars, hcVars, clVars, flowVars, ingressActive,
                 pendingIngress, pkt, pendingData>>

\* Mutant of Account: a CONTINUE for every packet.
AccountEach == /\ bufferRemaining' = BufferLength
               /\ SendContinue(BufferLength)

\* Mutant of Account: the allowance is tested before it is lowered, not after.
AccountLate ==
  /\ bufferRemaining' = IF bufferRemaining = 0 THEN BufferLength
                        ELSE bufferRemaining - 1
  /\ \/ bufferRemaining = 0 /\ SendContinue(BufferLength)
     \/ bufferRemaining # 0 /\ UNCHANGED credit

\* One packet of the client's allowance is used up; at zero it gets a new one.
Account ==
  /\ bufferRemaining' = IF bufferRemaining = 1 THEN BufferLength
                        ELSE bufferRemaining - 1
  /\ \/ bufferRemaining = 1 /\ SendContinue(BufferLength)
     \/ bufferRemaining # 1 /\ UNCHANGED credit

\* Mutant of Keep: handleDataPacket returns false after all.
KeepNot == Drop

\* handleDataPacket returns true: the buffer is the ingress queue's to put back.
Keep == rlPc' = "idle" /\ UNCHANGED puts

RlCredit ==
  /\ rlPc = "credit"
  /\ Account
  /\ Keep
  /\ UNCHANGED <<outside, sVars, ingressVars, hcVars, clVars, pkt, batch,
                 pendingData, received>>

\* The read loop writes to the socket itself: UDP, or a TCP stream that has
\* just been closed.  Without a socket it dereferences nil.
RlDirect ==
  /\ rlPc = "direct"
  /\ \/ /\ conn = "nil"
        /\ crashed' = TRUE
        /\ UNCHANGED <<flowVars, rlPc, received, puts>>
     \/ /\ WriteOK
        /\ received' = Append(received, pkt)
        /\ IF streamType = "tcp" THEN Account ELSE UNCHANGED flowVars
        /\ Drop
        /\ UNCHANGED crashed
     \/ /\ conn # "nil" /\ WriteFails
        /\ rlPc' = "closeDrop"
        /\ UNCHANGED <<flowVars, received, puts, crashed>>
  /\ UNCHANGED <<sVars, connVars, ingressVars, hcVars, clVars, clientVars, pkt,
                 batch, pendingData, connClosed>>

RlCallClose ==
  /\ \/ rlPc = "closeDrop" /\ rlPc' = "closingDrop"
     \/ rlPc = "closeKeep" /\ rlPc' = "closingKeep"
  /\ CallClose("rl")
  /\ UNCHANGED <<rest, tableVars, hcVars, connReadyDone, pkt, batch,
                 asyncClose>>

RlCloseReturns ==
  /\ Returned("rl")
  /\ \/ rlPc = "closingDrop" /\ Drop
     \/ rlPc = "closingKeep" /\ rlPc' = "credit" /\ UNCHANGED puts
  /\ UNCHANGED <<others, sVars, hcVars, clVars, pkt, batch, pendingData,
                 received>>

\* Mutant of AtEnd: the read loop returns without its deferred call.
ReturnAtEnd == "gone"

\* peek fails because the connection was closed or the client went away; then
\* deleteAllWispStreams closes the connection and every stream in the map.
AtEnd == "teardown"

RlEnd ==
  /\ rlPc = "idle"
  /\ rlPc' = AtEnd
  /\ connClosed' = TRUE
  /\ UNCHANGED <<sVars, connVars, ingressVars, hcVars, clVars, flowVars,
                 clientVars, dataVars, pkt, batch, crashed>>

RlTeardown ==
  /\ rlPc = "teardown"
  /\ \/ inMap /\ CallClose("rl")
     \/ ~inMap /\ UNCHANGED <<isOpen, clPc, closer>>
  /\ rlPc' = "leaving"
  /\ UNCHANGED <<rest, tableVars, hcVars, connReadyDone, pkt, batch,
                 asyncClose>>

RlLeave ==
  /\ rlPc = "leaving"
  /\ Returned("rl")
  /\ rlPc' = "gone"
  /\ UNCHANGED <<rest, sVars, hcVars, clVars, pkt, batch>>

ReadLoop ==
  \/ RlData \/ RlClose \/ RlHit \/ RlFill \/ RlOpen \/ RlPend \/ RlMode \/ RlSubmit
  \/ RlEnqueue \/ RlTake \/ RlCheck \/ RlCredit \/ RlCallClose
  \/ RlCloseReturns \/ RlTeardown \/ RlLeave

-------------------------------------------------------------------------------
(* The client and the far end *)

\* A client that keeps to its allowance (external: the Wisp client); UDP has
\* none.
ClientSend ==
  /\ ~clientClosed /\ sent < Packets /\ rlPc # "gone"
  /\ kind = "tcp" => credit > 0
  /\ sent' = sent + 1
  /\ inflight' = Append(inflight, sent + 1)
  /\ credit' = IF kind = "tcp" THEN credit - 1 ELSE credit
  /\ UNCHANGED <<sVars, connVars, ingressVars, hcVars, rlVars, clVars, dataVars,
                 procVars, bufferRemaining, clientClosed>>

ClientClose ==
  /\ ~clientClosed /\ rlPc # "gone"
  /\ clientClosed' = TRUE
  /\ inflight' = Append(inflight, CLOSE)
  /\ UNCHANGED <<sVars, connVars, ingressVars, hcVars, rlVars, clVars, flowVars,
                 dataVars, procVars, sent>>

\* The far end finishes sending, or resets the connection (external).
RemoteEnds ==
  /\ conn = "open"
  /\ \/ remote = "up" /\ remote' = "eof"
     \/ remote # "down" /\ remote' = "down"
  /\ UNCHANGED <<sVars, ingressVars, hcVars, rlVars, clVars, flowVars,
                 clientVars, dataVars, procVars, conn, streamType, kind,
                 confirm>>

\* The Writes on the stream's socket: they may block as long as it is open and
\* the far end does not read.
SocketWrite == HcFlushWrite \/ RlWrite \/ RlDirect

\* A nil dereference in one goroutine ends the process.
Next ==
  /\ ~crashed
  /\ \/ Closing \/ HandleConnect \/ ReadLoop \/ RlEnd
     \/ SocketWrite \/ ClientSend \/ ClientClose \/ RemoteEnds

Safety == Init /\ [][Next]_vars

\* Go runs every runnable goroutine, Dial ends by its timeout, and reading from
\* or writing to a closed socket fails.  Neither the client nor the far end
\* must do anything.
Spec ==
  /\ Safety
  /\ WF_vars(~crashed /\ Closing)
  /\ WF_vars(~crashed /\ HandleConnect)
  /\ WF_vars(~crashed /\ ReadLoop)
  /\ WF_vars(~crashed /\ connClosed /\ RlEnd)
  /\ WF_vars(~crashed /\ WriteFails /\ HcFlushWrite)
  /\ WF_vars(~crashed /\ ~WriteOK /\ (RlWrite \/ RlDirect))

\* What a far end that keeps reading its socket adds.
RemoteReads == WF_vars(~crashed /\ (RlWrite \/ RlDirect))

-------------------------------------------------------------------------------
(* Properties *)

\* An open stream that is ready has a socket: handleDataPacket may use
\* stream.conn once it has seen connReadyDone, if the stream is still open.
ReadyMeansConnected == isOpen /\ connReadyDone => conn # "nil"

\* The types of the data, and what connects the flags of the stream to its socket.
TypeOK ==
  /\ {isOpen, connReadyDone, inMap, cached, closeSent, ingressActive,
      ingressWriting, asyncClose, connClosed, confirm, clientClosed, crashed}
       \subseteq BOOLEAN
  /\ conn \in {"nil", "open", "closed"} /\ remote \in {"up", "eof", "down"}
  /\ kind \in {"tcp", "udp"} /\ streamType \in {"unset", kind}
  /\ pkt \in 0..Packets /\ sent \in 0..Packets
  /\ {pendingData, pending, pendingIngress, batch, received} \subseteq Seq(Packet)
  /\ inflight \in Seq(Packet \cup {CLOSE})
  /\ puts \in [Packet -> Nat]
  /\ bufferRemaining \in 0..BufferLength /\ credit \in 0..BufferLength
  /\ ReadyMeansConnected

\* While the stream is open the far end receives packets in the order in which
\* the client sent them and none twice, although handleConnect flushes the
\* early ones and the read loop writes the later ones.
InOrder ==
  isOpen => \A i, j \in DOMAIN received : i < j => received[i] < received[j]

\* Every payload buffer goes back to its pool, and not too early: between two
\* packets the read loop has given back the buffer of every packet it has handled,
\* or the ingress queue has; one that is still to be written has not been given
\* back; and while the stream stays open none is given back twice.
BufferOnce ==
  /\ rlPc = "idle" => \A p \in 1..sent : p \in Range(inflight) \/ puts[p] > 0
  /\ \A p \in Packet :
       /\ p \in Range(pendingIngress) \cup Range(batch) => puts[p] = 0
       /\ isOpen => puts[p] <= 1

\* The packets a client within its allowance can make the server hold for a TCP
\* stream, whatever their size, are one allowance, or two if the stream is
\* confirmed by a CONTINUE of its own.  The allowance is one of packets: it is
\* lowered by one for each of them.  The "Bytes of unacked data" that
\* src/src/index.ts:60 says bufferRemainingLength stands for are not bounded by
\* it: two packets of two bytes are within an allowance of two.
BacklogBound ==
  kind = "tcp" =>
    Cardinality({k \in DOMAIN inflight : inflight[k] # CLOSE}) + Len(pendingData)
      + Len(pending) + Len(pendingIngress)
    <= (IF confirm THEN 2 ELSE 1) * BufferLength

\* A stream that is closed says so: the client gets a CLOSE packet, or the
\* whole connection is closed.
ClosedIsReported == ~isOpen ~> (closeSent \/ connClosed \/ crashed)

\* A closed connection keeps no stream open: its read loop ends, and closes
\* it, unless a far end that does not read holds the read loop in a Write.
TeardownCloses == RemoteReads => (connClosed ~> (~isOpen \/ crashed))

\* Flow control: a client that has spent its credit on a stream that stays open
\* gets a CONTINUE once the far end has all it sent, provided none of it came
\* before the stream was ready.  (What handleDataPacket keeps in pendingData is
\* written by handleConnect but never counted towards a CONTINUE.)
CreditReturns ==
  RemoteReads /\ [](pendingData = <<>>) =>
    [](credit = 0 /\ isOpen /\ Len(received) = sent
         => <>(credit > 0 \/ ~isOpen \/ connClosed \/ crashed))

-------------------------------------------------------------------------------
(* What the code does not guarantee *)

\* A TCP stream delivers a prefix of what the client sent: an open stream has
\* no hole in it.
NoGap ==
  isOpen /\ kind = "tcp" => \A i \in DOMAIN received : received[i] = i
===============================================================================
