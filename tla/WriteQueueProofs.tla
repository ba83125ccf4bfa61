--------------------------- MODULE WriteQueueProofs ---------------------------
(***************************************************************************)
(* Proofs about WriteQueue, for any number of goroutines and requests.     *)
(***************************************************************************)
EXTENDS WriteQueue, SequenceTheorems, TLAPS

-------------------------------------------------------------------------------
(* Lemmas about sequences *)

\* What submitWrite's append adds to the requests in the queue.
LEMMA RangeAppend ==
  ASSUME NEW S, NEW s \in Seq(S), NEW e \in S
  PROVE  Range(Append(s, e)) = Range(s) \cup {e}
<1>1. /\ Append(s, e) \in Seq(S)
      /\ Len(Append(s, e)) = Len(s) + 1
      /\ \A i \in 1..Len(s) : Append(s, e)[i] = s[i]
      /\ Append(s, e)[Len(s) + 1] = e
  BY AppendProperties
<1>2. DOMAIN s = 1..Len(s) /\ DOMAIN Append(s, e) = 1..(Len(s) + 1) /\ Len(s) \in Nat
  BY <1>1, LenProperties
<1>3. Range(Append(s, e)) \subseteq Range(s) \cup {e}
  BY <1>1, <1>2 DEF Range
<1>4. Range(s) \cup {e} \subseteq Range(Append(s, e))
  <2>1. ASSUME NEW x \in Range(s) PROVE x \in Range(Append(s, e))
    <3>1. PICK i \in 1..Len(s) : x = s[i]
      BY <1>2 DEF Range
    <3>2. i \in 1..(Len(s) + 1) /\ Append(s, e)[i] = x
      BY <1>1, <1>2, <3>1
    <3> QED BY <1>2, <3>2 DEF Range
  <2>2. e \in Range(Append(s, e))
    <3>1. Len(s) + 1 \in 1..(Len(s) + 1)
      BY <1>2
    <3> QED BY <1>1, <1>2, <3>1 DEF Range
  <2> QED BY <2>1, <2>2
<1> QED BY <1>3, <1>4

\* An empty queue holds nothing.
LEMMA RangeEmpty == Range(<<>>) = {}
BY DEF Range

-------------------------------------------------------------------------------
(* Type correctness *)

\* What TypeOK leaves out: a goroutine on its way into the queue holds a
\* request.
HoldsRequest == \A g \in Goroutines : pc[g] = "enqueue" => req[g] \in Reqs

TypeInv == TypeOK /\ HoldsRequest

\* The types hold when the connection is created.
LEMMA TypeInit == Init => TypeInv
<1> SUFFICES ASSUME Init PROVE TypeInv
  OBVIOUS
<1> USE DEF Init, PCs, WriterPCs, ClosePCs
<1>1. <<>> \in Seq(Reqs)
  OBVIOUS
<1>2. batch \in [Goroutines -> Seq(Reqs)] /\ bufs \in [Goroutines -> Seq(Reqs)]
  BY <1>1
<1>3. puts \in [Reqs -> Nat] /\ pc \in [Goroutines -> PCs]
  OBVIOUS
<1>4. req \in [Goroutines -> Reqs \cup {None}] /\ HoldsRequest
  BY DEF HoldsRequest
<1> QED BY <1>1, <1>2, <1>3, <1>4 DEF TypeInv, TypeOK

\* Every step of submitWrite, runWriter and close keeps the types.
LEMMA TypeStep == TypeInv /\ [Next]_vars => TypeInv'
<1> SUFFICES ASSUME TypeInv, [Next]_vars PROVE TypeInv'
  OBVIOUS
<1> USE DEF TypeInv, TypeOK, HoldsRequest, PCs, WriterPCs, ClosePCs, Goto, locals
<1>0. \A S : PutAll(S) => puts' \in [Reqs -> Nat]
  BY DEF PutAll
<1>e. <<>> \in Seq(Reqs)
  OBVIOUS
<1>1. ASSUME NEW g \in Goroutines, NEW r \in Reqs, SubmitCheck(g, r) PROVE TypeInv'
  <2>1. CASE isClosed /\ PutAll({r}) /\ UNCHANGED <<pc, req>>
    BY <1>1, <1>0, <2>1 DEF SubmitCheck
  <2>2. CASE /\ ~isClosed
             /\ Goto(g, "enqueue")
             /\ req' = [req EXCEPT ![g] = r]
             /\ UNCHANGED puts
    BY <1>1, <2>2 DEF SubmitCheck
  <2> QED BY <1>1, <2>1, <2>2 DEF SubmitCheck
<1>2. ASSUME NEW g \in Goroutines, SubmitEnqueue(g) PROVE TypeInv'
  <2>1. pendingWrites' \in Seq(Reqs)
    BY <1>2, AppendProperties DEF SubmitEnqueue, Enqueue
  <2> QED BY <1>2, <2>1 DEF SubmitEnqueue, Enqueue
<1>3. ASSUME NEW g \in Goroutines, WriterTake(g) PROVE TypeInv'
  <2>1. /\ pendingWrites' \in Seq(Reqs)
        /\ batch' \in [Goroutines -> Seq(Reqs)]
        /\ bufs' \in [Goroutines -> Seq(Reqs)]
    <3>1. CASE pendingWrites = <<>>
      BY <1>3, <3>1 DEF WriterTake
    <3>2. CASE pendingWrites # <<>>
      BY ZenonT(30), <1>3, <3>2, <1>e DEF WriterTake
    <3> QED BY <3>1, <3>2
  <2>2. writeActive' \in BOOLEAN /\ pc' \in [Goroutines -> PCs] /\ HoldsRequest'
    BY <1>3 DEF WriterTake
  <2> QED BY <1>3, <2>1, <2>2 DEF WriterTake
<1>4. ASSUME NEW g \in Goroutines, WriteFrame(g) PROVE TypeInv'
  <2>1. bufs[g] \in Seq(Reqs) /\ bufs[g] # <<>>
    BY <1>4 DEF WriteFrame
  <2>2. Head(bufs[g]) \in Reqs /\ Tail(bufs[g]) \in Seq(Reqs)
    BY <2>1, HeadTailProperties
  <2>3. wire' \in Seq(Reqs) /\ bufs' \in [Goroutines -> Seq(Reqs)]
    BY <1>4, <2>2, AppendProperties DEF WriteFrame, NextFrame
  <2> QED BY <1>4, <2>3 DEF WriteFrame
<1>5. ASSUME NEW g \in Goroutines, WriteReturn(g) PROVE TypeInv'
  BY <1>5 DEF WriteReturn
<1>6. ASSUME NEW g \in Goroutines, WriterRelease(g) PROVE TypeInv'
  BY <1>6, <1>0 DEF WriterRelease
<1>7. ASSUME NEW g \in Goroutines, WriterFail(g) PROVE TypeInv'
  BY <1>7 DEF WriterFail
<1>8. ASSUME NEW g \in Goroutines, CallClose(g) PROVE TypeInv'
  BY <1>8 DEF CallClose
<1>9. ASSUME NEW g \in Goroutines, CloseCAS(g) PROVE TypeInv'
  BY <1>9 DEF CloseCAS
<1>10. ASSUME NEW g \in Goroutines, CloseNet(g) PROVE TypeInv'
  BY <1>10 DEF CloseNet, NetAfterClose
<1>11. ASSUME NEW g \in Goroutines, CloseDrain(g) PROVE TypeInv'
  <2>1. pendingWrites' \in Seq(Reqs)
    <3>1. CASE Drain
      BY <3>1, <1>e DEF Drain
    <3>2. CASE UNCHANGED <<pendingWrites, puts>>
      BY <3>2
    <3> QED BY <1>11, <3>1, <3>2 DEF CloseDrain
  <2>2. puts' \in [Reqs -> Nat]
    <3>1. CASE Drain
      BY <3>1, <1>0 DEF Drain
    <3>2. CASE UNCHANGED <<pendingWrites, puts>>
      BY <3>2
    <3> QED BY <1>11, <3>1, <3>2 DEF CloseDrain
  <2> QED BY <1>11, <2>1, <2>2 DEF CloseDrain
<1>12. ASSUME PeerReset PROVE TypeInv'
  BY <1>12 DEF PeerReset
<1>13. ASSUME UNCHANGED vars PROVE TypeInv'
  BY <1>13 DEF vars
<1> QED BY <1>1, <1>2, <1>3, <1>4, <1>5, <1>6, <1>7, <1>8, <1>9, <1>10, <1>11,
           <1>12, <1>13 DEF Next, Step

\* The write side never leaves its types: in particular every frame in the
\* queue, in a batch or on the wire is one that submitWrite was given.
THEOREM TypeCorrect == Safety => []TypeOK
<1>1. Safety => []TypeInv
  BY TypeInit, TypeStep, PTL DEF Safety
<1>2. TypeInv => TypeOK
  BY DEF TypeInv
<1> QED BY <1>1, <1>2, PTL

-------------------------------------------------------------------------------
(* One writer, and no frame without one *)

\* What the writer and close() know about the socket when they touch the queue.
DownWhenFailed ==
  \A g \in Goroutines : pc[g] \in {"releaseErr", "fail", "drain"} => net # "up"

WriterInv == SingleWriter /\ NoStrandedFrame /\ DownWhenFailed

\* A new connection has no writer and an empty queue.
LEMMA WriterInit == Init => WriterInv
BY DEF Init, WriterInv, SingleWriter, NoStrandedFrame, DownWhenFailed, WriterPCs

\* writeActive is set by the goroutine that enters runWriter and cleared by the
\* one that leaves it; the queue is empty whenever it is cleared, unless the
\* socket is gone.
LEMMA WriterStep == TypeInv /\ WriterInv /\ [Next]_vars => WriterInv'
<1> SUFFICES ASSUME TypeInv, WriterInv, [Next]_vars PROVE WriterInv'
  OBVIOUS
<1> USE DEF WriterInv, SingleWriter, NoStrandedFrame, DownWhenFailed, WriterPCs,
            Goto, locals
<1>0. pc \in [Goroutines -> PCs] /\ writeActive \in BOOLEAN
  BY DEF TypeInv, TypeOK
<1>1. ASSUME NEW g \in Goroutines, NEW r \in Reqs, SubmitCheck(g, r) PROVE WriterInv'
  BY <1>0, <1>1 DEF SubmitCheck
<1>2. ASSUME NEW g \in Goroutines, SubmitEnqueue(g) PROVE WriterInv'
  <2>1. writeActive' /\ UNCHANGED net
    BY <1>2 DEF SubmitEnqueue, Enqueue
  <2>2. DownWhenFailed'
    BY <1>0, <1>2 DEF SubmitEnqueue, Enqueue
  <2>3. CASE writeActive
    BY <1>0, <1>2, <2>1, <2>2, <2>3 DEF SubmitEnqueue, Enqueue
  <2>4. CASE ~writeActive
    BY <1>0, <1>2, <2>1, <2>2, <2>4 DEF SubmitEnqueue, Enqueue
  <2> QED BY <2>3, <2>4
<1>3. ASSUME NEW g \in Goroutines, WriterTake(g) PROVE WriterInv'
  <2>1. CASE pendingWrites = <<>>
    BY <1>0, <1>3, <2>1 DEF WriterTake
  <2>2. CASE pendingWrites # <<>>
    BY <1>0, <1>3, <2>2 DEF WriterTake
  <2> QED BY <2>1, <2>2
<1>4. ASSUME NEW g \in Goroutines, WriteFrame(g) PROVE WriterInv'
  BY <1>0, <1>4 DEF WriteFrame
<1>5. ASSUME NEW g \in Goroutines, WriteReturn(g) PROVE WriterInv'
  BY <1>0, <1>5 DEF WriteReturn
<1>6. ASSUME NEW g \in Goroutines, WriterRelease(g) PROVE WriterInv'
  BY <1>0, <1>6 DEF WriterRelease
<1>7. ASSUME NEW g \in Goroutines, WriterFail(g) PROVE WriterInv'
  BY <1>0, <1>7 DEF WriterFail
<1>8. ASSUME NEW g \in Goroutines, CallClose(g) PROVE WriterInv'
  BY <1>0, <1>8 DEF CallClose
<1>9. ASSUME NEW g \in Goroutines, CloseCAS(g) PROVE WriterInv'
  BY <1>0, <1>9 DEF CloseCAS
<1>10. ASSUME NEW g \in Goroutines, CloseNet(g) PROVE WriterInv'
  BY <1>0, <1>10 DEF CloseNet, NetAfterClose
<1>11. ASSUME NEW g \in Goroutines, CloseDrain(g) PROVE WriterInv'
  BY <1>0, <1>11 DEF CloseDrain, Drain
<1>12. ASSUME PeerReset PROVE WriterInv'
  BY <1>0, <1>12 DEF PeerReset
<1>13. ASSUME UNCHANGED vars PROVE WriterInv'
  BY <1>13 DEF vars
<1> QED BY <1>1, <1>2, <1>3, <1>4, <1>5, <1>6, <1>7, <1>8, <1>9, <1>10, <1>11,
           <1>12, <1>13 DEF Next, Step

\* The types and the writer's facts hold for ever.
LEMMA WriterAlways == Safety => [](TypeInv /\ WriterInv)
<1>1. Init => TypeInv /\ WriterInv
  BY TypeInit, WriterInit
<1>2. TypeInv /\ WriterInv /\ [Next]_vars => (TypeInv /\ WriterInv)'
  BY TypeStep, WriterStep
<1> QED BY <1>1, <1>2, PTL DEF Safety

\* However many goroutines call submitWrite, and whatever close() and the peer
\* do meanwhile, at most one of them is in runWriter.
THEOREM OneWriter == Safety => []SingleWriter
<1>1. WriterInv => SingleWriter
  BY DEF WriterInv
<1> QED BY <1>1, WriterAlways, PTL

\* No frame is ever left in the queue of a live socket without a goroutine
\* that will send it: the hand-off through writeActive loses no wake-up.
THEOREM NoLostWakeup == Safety => []NoStrandedFrame
<1>1. WriterInv => NoStrandedFrame
  BY DEF WriterInv
<1> QED BY <1>1, WriterAlways, PTL

-------------------------------------------------------------------------------
(* The combining writer implements the FIFO channel *)

\* With one writer, Unsent is what that writer still has to send.
LEMMA UnsentOfWriter ==
  ASSUME WriterInv, NEW g \in Goroutines, pc[g] = "write"
  PROVE  Unsent = bufs[g]
BY DEF WriterInv, SingleWriter, WriterPCs, Unsent

\* The same for a writer that is between two batches.
LEMMA UnsentBetween ==
  ASSUME WriterInv, NEW g \in Goroutines, pc[g] \in WriterPCs \ {"write"}
  PROVE  Unsent = <<>>
BY DEF WriterInv, SingleWriter, WriterPCs, Unsent

\* Unsent is a sequence of requests.
LEMMA UnsentType == TypeInv => Unsent \in Seq(Reqs)
<1> SUFFICES ASSUME TypeInv PROVE Unsent \in Seq(Reqs)
  OBVIOUS
<1>1. <<>> \in Seq(Reqs) /\ bufs \in [Goroutines -> Seq(Reqs)]
  BY DEF TypeInv, TypeOK
<1> QED BY <1>1 DEF Unsent

\* A step in which no goroutine enters or leaves the write loop and no batch
\* changes leaves Unsent alone.
LEMMA UnsentUnchanged ==
  ASSUME UNCHANGED bufs, \A g \in Goroutines : pc'[g] = "write" <=> pc[g] = "write"
  PROVE  Unsent' = Unsent
BY DEF Unsent

\* Every step of the code is a step of the channel, or leaves it as it is.
LEMMA ChannelStep ==
  ASSUME TypeInv, WriterInv, WriterInv', TypeInv', [Next]_vars
  PROVE  [Channel!Next]_Channel!vars
<1> USE DEF WriterPCs, ClosePCs, Goto, locals
<1>0. /\ pc \in [Goroutines -> PCs]
      /\ pendingWrites \in Seq(Reqs)
      /\ bufs \in [Goroutines -> Seq(Reqs)]
      /\ Unsent \in Seq(Reqs)
  BY UnsentType DEF TypeInv, TypeOK
<1>q. ASSUME UNCHANGED <<net, pendingWrites, wire>>, Unsent' = Unsent
      PROVE  UNCHANGED Channel!vars
  BY <1>q DEF Channel!vars
<1>d. ASSUME net # "up", net' # "up", UNCHANGED wire PROVE UNCHANGED Channel!vars
  BY <1>d DEF Channel!vars
<1>1. ASSUME NEW g \in Goroutines, NEW r \in Reqs, SubmitCheck(g, r)
      PROVE  UNCHANGED Channel!vars
  <2>1. Unsent' = Unsent
    BY <1>0, <1>1, UnsentUnchanged DEF SubmitCheck
  <2> QED BY <1>1, <1>q, <2>1 DEF SubmitCheck
<1>2. ASSUME NEW g \in Goroutines, SubmitEnqueue(g)
      PROVE  \/ Channel!Accept(req[g])
             \/ UNCHANGED Channel!vars
  <2>1. Unsent' = Unsent
    BY <1>0, <1>2, UnsentUnchanged DEF SubmitEnqueue, Enqueue
  <2>2. req[g] \in Reqs
    BY <1>2 DEF SubmitEnqueue, TypeInv, HoldsRequest
  <2>3. pendingWrites' = Append(pendingWrites, req[g]) /\ UNCHANGED <<net, wire>>
    BY <1>2 DEF SubmitEnqueue, Enqueue
  <2>4. Unsent' \o pendingWrites' = Append(Unsent \o pendingWrites, req[g])
    BY <1>0, <2>1, <2>2, <2>3
  <2>5. CASE net = "up"
    BY <2>3, <2>4, <2>5 DEF Channel!Accept
  <2>6. CASE net # "up"
    BY <2>3, <2>6, <1>d
  <2> QED BY <2>5, <2>6
<1>3. ASSUME NEW g \in Goroutines, WriterTake(g) PROVE UNCHANGED Channel!vars
  <2>1. Unsent = <<>>
    BY <1>3, UnsentBetween DEF WriterTake
  <2>2. CASE pendingWrites = <<>>
    <3>1. Unsent' = Unsent
      BY <1>0, <1>3, <2>2, UnsentUnchanged DEF WriterTake
    <3> QED BY <1>3, <2>2, <3>1, <1>q DEF WriterTake
  <2>3. CASE pendingWrites # <<>>
    <3>1. /\ pc'[g] = "write" /\ bufs'[g] = pendingWrites /\ pendingWrites' = <<>>
          /\ UNCHANGED <<net, wire>>
      BY <1>0, <1>3, <2>3 DEF WriterTake
    <3>2. Unsent' = pendingWrites
      BY <3>1 DEF WriterInv, SingleWriter, Unsent
    <3>3. Unsent' \o pendingWrites' = Unsent \o pendingWrites
      BY <1>0, <2>1, <3>1, <3>2
    <3> QED BY <3>1, <3>3 DEF Channel!vars
  <2> QED BY <2>2, <2>3
<1>4. ASSUME NEW g \in Goroutines, WriteFrame(g) PROVE Channel!Transmit
  <2>1. /\ Unsent = bufs[g] /\ bufs[g] # <<>> /\ bufs[g] \in Seq(Reqs)
        /\ net = "up" /\ UNCHANGED <<net, pendingWrites>>
    BY <1>0, <1>4, UnsentOfWriter DEF WriteFrame
  <2>2. Unsent' = Tail(bufs[g])
    <3>1. pc'[g] = "write" /\ bufs'[g] = Tail(bufs[g])
      BY <1>0, <1>4 DEF WriteFrame
    <3> QED BY <3>1 DEF WriterInv, SingleWriter, Unsent
  <2>3. /\ Unsent \o pendingWrites # <<>>
        /\ Head(Unsent \o pendingWrites) = Head(bufs[g])
        /\ Tail(Unsent \o pendingWrites) = Unsent' \o pendingWrites'
    BY <1>0, <2>1, <2>2
  <2>4. wire' = Append(wire, Head(bufs[g]))
    BY <1>4 DEF WriteFrame, NextFrame
  <2> QED BY <2>1, <2>3, <2>4 DEF Channel!Transmit
<1>5. ASSUME NEW g \in Goroutines, WriteReturn(g) PROVE UNCHANGED Channel!vars
  <2>1. CASE bufs[g] = <<>>
    <3>1. Unsent = <<>>
      BY <1>5, <2>1, UnsentOfWriter DEF WriteReturn
    <3>2. pc'[g] = "release" /\ UNCHANGED <<net, pendingWrites, wire>>
      BY <1>0, <1>5, <2>1 DEF WriteReturn
    <3>3. Unsent' = <<>>
      BY <3>2 DEF WriterInv, SingleWriter, Unsent
    <3> QED BY <3>1, <3>2, <3>3, <1>q
  <2>2. CASE bufs[g] # <<>>
    BY <1>5, <2>2, <1>d DEF WriteReturn
  <2> QED BY <2>1, <2>2
<1>6. ASSUME NEW g \in Goroutines, WriterRelease(g) PROVE UNCHANGED Channel!vars
  <2>1. Unsent = <<>>
    BY <1>6, UnsentBetween DEF WriterRelease
  <2>2. pc'[g] \in {"take", "fail"} /\ UNCHANGED <<net, pendingWrites, wire>>
    BY <1>0, <1>6 DEF WriterRelease
  <2>3. Unsent' = <<>>
    BY <2>2 DEF WriterInv, SingleWriter, Unsent
  <2> QED BY <2>1, <2>2, <2>3, <1>q
<1>7. ASSUME NEW g \in Goroutines, WriterFail(g) \/ CallClose(g) \/ CloseCAS(g)
      PROVE  UNCHANGED Channel!vars
  <2>1. Unsent' = Unsent
    BY <1>0, <1>7, UnsentUnchanged DEF WriterFail, CallClose, CloseCAS
  <2> QED BY <1>7, <2>1, <1>q DEF WriterFail, CallClose, CloseCAS
<1>8. ASSUME NEW g \in Goroutines, CloseNet(g)
      PROVE  Channel!GoDown \/ UNCHANGED Channel!vars
  <2>1. net' = "closed" /\ UNCHANGED wire
    BY <1>8 DEF CloseNet, NetAfterClose
  <2> QED BY <2>1, <1>d DEF Channel!GoDown
<1>9. ASSUME NEW g \in Goroutines, CloseDrain(g) PROVE UNCHANGED Channel!vars
  BY <1>9, <1>d DEF CloseDrain, WriterInv, DownWhenFailed
<1>10. ASSUME PeerReset PROVE Channel!GoDown
  BY <1>10 DEF PeerReset, Channel!GoDown
<1>11. ASSUME UNCHANGED vars PROVE UNCHANGED Channel!vars
  <2>1. Unsent' = Unsent
    BY <1>11, UnsentUnchanged DEF vars
  <2> QED BY <1>11, <2>1, <1>q DEF vars
<1>12. ASSUME NEW g \in Goroutines, SubmitEnqueue(g) PROVE req[g] \in Reqs
  BY <1>12 DEF SubmitEnqueue, TypeInv, HoldsRequest
<1> QED BY <1>1, <1>2, <1>3, <1>4, <1>5, <1>6, <1>7, <1>8, <1>9, <1>10, <1>11,
           <1>12 DEF Next, Step, Channel!Next

\* submitWrite, runWriter and close together are a FIFO channel: frames enter
\* the socket in the order in which they were appended to pendingWrites, each
\* once, and none is dropped while the socket is up.
THEOREM WriterIsChannel == Safety => ImplementsChannel
<1>1. Init => Channel!Init
  <2> SUFFICES ASSUME Init PROVE Channel!Init
    OBVIOUS
  <2>1. Unsent = <<>>
    BY DEF Init, Unsent
  <2> QED BY <2>1 DEF Init, Channel!Init
<1>2. TypeInv /\ WriterInv /\ [Next]_vars => [Channel!Next]_Channel!vars
  BY TypeStep, WriterStep, ChannelStep
<1> QED BY <1>1, <1>2, WriterAlways, PTL DEF Safety, ImplementsChannel, Channel!Spec

-------------------------------------------------------------------------------
(* Pooled buffers *)

\* Only a goroutine that is sending a batch, or about to release it, has one.
BatchOfWriter ==
  \A g \in Goroutines :
    pc[g] \notin {"write", "release", "releaseErr"} => batch[g] = <<>>

\* Request r is in the hands of one holder at most: a submitter, the queue or
\* a batch.
OneHolder(r) ==
  /\ r \in Range(pendingWrites) =>
       r \in used /\ puts[r] = 0 /\ \A g \in Goroutines : r \notin Range(batch[g])
  /\ \A g \in Goroutines : r \in Range(batch[g]) => r \in used /\ puts[r] = 0
  /\ \A g \in Goroutines :
       pc[g] = "enqueue" /\ req[g] = r =>
         /\ r \in used /\ puts[r] = 0
         /\ r \notin Range(pendingWrites)
         /\ \A h \in Goroutines :
              /\ r \notin Range(batch[h])
              /\ pc[h] = "enqueue" /\ req[h] = r => h = g

\* Its buffer is put back once, after it has been handed in.
PutsBound(r) == puts[r] <= 1 /\ (r \notin used => puts[r] = 0)

OwnerInv == BatchOfWriter /\ \A r \in Reqs : OneHolder(r) /\ PutsBound(r)

\* Nobody holds anything at first.
LEMMA OwnerInit == Init => OwnerInv
BY RangeEmpty DEF Init, OwnerInv, BatchOfWriter, OneHolder, PutsBound

\* PutAll returns each pooled buffer of the set once and no other.
LEMMA PutAllEffect ==
  ASSUME puts \in [Reqs -> Nat], NEW S, PutAll(S), NEW r \in Reqs
  PROVE  /\ r \notin S => puts'[r] = puts[r]
         /\ puts[r] = 0 => puts'[r] <= 1
BY DEF PutAll

\* A request moves from the submitter to the queue, from there to a batch, and
\* from the queue or a batch back to the pool; it is never in two places.
LEMMA OwnerStep == TypeInv /\ WriterInv /\ OwnerInv /\ [Next]_vars => OwnerInv'
<1> SUFFICES ASSUME TypeInv, WriterInv, OwnerInv, [Next]_vars PROVE OwnerInv'
  OBVIOUS
<1> USE DEF OwnerInv, BatchOfWriter, OneHolder, PutsBound, Goto, locals
<1>0. /\ pc \in [Goroutines -> PCs]
      /\ req \in [Goroutines -> Reqs \cup {None}]
      /\ pendingWrites \in Seq(Reqs)
      /\ batch \in [Goroutines -> Seq(Reqs)]
      /\ puts \in [Reqs -> Nat]
  BY DEF TypeInv, TypeOK
<1>1. ASSUME NEW g \in Goroutines, NEW q \in Reqs, SubmitCheck(g, q) PROVE OwnerInv'
  <2>0. q \notin used /\ used' = used \cup {q} /\ UNCHANGED <<pendingWrites, batch>>
    BY <1>1 DEF SubmitCheck
  <2>1. CASE isClosed /\ PutAll({q}) /\ UNCHANGED <<pc, req>>
    <3>1. \A r \in Reqs : /\ r # q => puts'[r] = puts[r]
                          /\ puts[r] = 0 => puts'[r] <= 1
      BY <1>0, <2>1, PutAllEffect
    <3> QED BY <1>0, <2>0, <2>1, <3>1
  <2>2. CASE /\ ~isClosed
             /\ Goto(g, "enqueue")
             /\ req' = [req EXCEPT ![g] = q]
             /\ UNCHANGED puts
    BY <1>0, <1>1, <2>0, <2>2 DEF SubmitCheck
  <2> QED BY <1>1, <2>1, <2>2 DEF SubmitCheck
<1>2. ASSUME NEW g \in Goroutines, SubmitEnqueue(g) PROVE OwnerInv'
  <2>1. req[g] \in Reqs /\ pc[g] = "enqueue"
    BY <1>2 DEF SubmitEnqueue, TypeInv, HoldsRequest
  <2>2. Range(pendingWrites') = Range(pendingWrites) \cup {req[g]}
    BY <1>0, <1>2, <2>1, RangeAppend DEF SubmitEnqueue, Enqueue
  <2>3. /\ pc' \in [Goroutines -> PCs] /\ pc'[g] \in {"idle", "take"}
        /\ \A h \in Goroutines : h # g => pc'[h] = pc[h] /\ req'[h] = req[h]
        /\ UNCHANGED <<batch, used, puts>>
    BY <1>0, <1>2 DEF SubmitEnqueue, Enqueue, PCs, WriterPCs
  <2>4. BatchOfWriter'
    BY <2>1, <2>3
  <2> QED BY <2>1, <2>2, <2>3, <2>4
<1>3. ASSUME NEW g \in Goroutines, WriterTake(g) PROVE OwnerInv'
  <2>1. CASE pendingWrites = <<>>
    <3>1. /\ pc[g] = "take" /\ pc'[g] = "idle"
          /\ \A h \in Goroutines : h # g => pc'[h] = pc[h]
          /\ UNCHANGED <<req, used, pendingWrites, batch, puts>>
      BY <1>0, <1>3, <2>1 DEF WriterTake
    <3> QED BY <3>1
  <2>2. CASE pendingWrites # <<>>
    <3>1. Range(pendingWrites') = {} /\ Range(batch[g]) = {}
      BY <1>3, <2>2, RangeEmpty DEF WriterTake
    <3>2. /\ pc[g] = "take" /\ pc'[g] = "write" /\ batch'[g] = pendingWrites
          /\ \A h \in Goroutines : h # g => pc'[h] = pc[h] /\ batch'[h] = batch[h]
          /\ UNCHANGED <<req, used, puts>>
      BY <1>0, <1>3, <2>2 DEF WriterTake
    <3>3. BatchOfWriter'
      BY <3>2
    <3> QED BY <3>1, <3>2, <3>3
  <2> QED BY <2>1, <2>2
<1>4. ASSUME NEW g \in Goroutines, WriteFrame(g) PROVE OwnerInv'
  BY <1>0, <1>4 DEF WriteFrame
<1>5. ASSUME NEW g \in Goroutines, WriteReturn(g) PROVE OwnerInv'
  <2>1. /\ pc[g] = "write" /\ pc'[g] \in {"release", "releaseErr"}
        /\ \A h \in Goroutines : h # g => pc'[h] = pc[h]
        /\ UNCHANGED <<req, used, pendingWrites, batch, puts>>
    BY <1>0, <1>5 DEF WriteReturn
  <2> QED BY <2>1
<1>6. ASSUME NEW g \in Goroutines, WriterRelease(g) PROVE OwnerInv'
  <2>1. /\ pc[g] \in {"release", "releaseErr"} /\ pc'[g] \in {"take", "fail"}
        /\ batch'[g] = <<>>
        /\ \A h \in Goroutines : h # g => pc'[h] = pc[h] /\ batch'[h] = batch[h]
        /\ UNCHANGED <<req, used, pendingWrites>>
    BY <1>0, <1>6 DEF WriterRelease
  <2>2. \A r \in Reqs : /\ r \notin Range(batch[g]) => puts'[r] = puts[r]
                        /\ puts[r] = 0 => puts'[r] <= 1
    BY <1>0, <1>6, PutAllEffect DEF WriterRelease, Released
  <2>3. \A h \in Goroutines : h # g => Range(batch[h]) = {}
    BY <2>1, RangeEmpty DEF WriterInv, SingleWriter, WriterPCs
  <2>4. \A h \in Goroutines : Range(batch'[h]) = {}
    BY <2>1, <2>3, RangeEmpty
  <2>5. BatchOfWriter'
    BY <2>1
  <2>6. ASSUME NEW r \in Reqs PROVE OneHolder(r)' /\ PutsBound(r)'
    BY <2>1, <2>2, <2>4
  <2> QED BY <2>5, <2>6
<1>7. ASSUME NEW g \in Goroutines, WriterFail(g) \/ CallClose(g) \/ CloseCAS(g) \/ CloseNet(g)
      PROVE  OwnerInv'
  <2>1. /\ pc[g] \notin {"enqueue", "write", "release", "releaseErr"}
        /\ pc'[g] # "enqueue"
        /\ \A h \in Goroutines : h # g => pc'[h] = pc[h]
        /\ UNCHANGED <<req, used, pendingWrites, batch, puts>>
    BY <1>0, <1>7 DEF WriterFail, CallClose, CloseCAS, CloseNet
  <2> QED BY <2>1
<1>8. ASSUME NEW g \in Goroutines, CloseDrain(g) PROVE OwnerInv'
  <2>1. /\ pc[g] = "drain" /\ pc'[g] = "idle"
        /\ \A h \in Goroutines : h # g => pc'[h] = pc[h]
        /\ UNCHANGED <<req, used, batch>>
    BY <1>0, <1>8 DEF CloseDrain
  <2>2. CASE Drain
    <3>1. \A r \in Reqs : /\ r \notin Range(pendingWrites) => puts'[r] = puts[r]
                          /\ puts[r] = 0 => puts'[r] <= 1
      BY <1>0, <2>2, PutAllEffect DEF Drain
    <3>2. Range(pendingWrites') = {}
      BY <2>2, RangeEmpty DEF Drain
    <3>3. ASSUME NEW r \in Reqs PROVE OneHolder(r)' /\ PutsBound(r)'
      BY <2>1, <3>1, <3>2
    <3>4. BatchOfWriter'
      BY <2>1
    <3> QED BY <3>3, <3>4
  <2>3. CASE UNCHANGED <<pendingWrites, puts>>
    BY <2>1, <2>3
  <2> QED BY <1>8, <2>2, <2>3 DEF CloseDrain
<1>9. ASSUME PeerReset PROVE OwnerInv'
  BY <1>9 DEF PeerReset
<1>10. ASSUME UNCHANGED vars PROVE OwnerInv'
  BY <1>10 DEF vars
<1> QED BY <1>1, <1>2, <1>3, <1>4, <1>5, <1>6, <1>7, <1>8, <1>9, <1>10
        DEF Next, Step

\* No pooled buffer is put back twice, or while a frame that uses it still has
\* to be sent, on any path: sent, failed, refused by a closed connection or
\* drained by close().
THEOREM BuffersPutOnce == Safety => []PutOnce
<1>1. Init => OwnerInv
  BY OwnerInit
<1>2. TypeInv /\ WriterInv /\ OwnerInv /\ [Next]_vars => OwnerInv'
  BY OwnerStep
<1>3. TypeInv /\ OwnerInv => PutOnce
  <2> SUFFICES ASSUME OwnerInv, NEW r \in Pooled
               PROVE  puts[r] <= 1 /\ (r \in InFlight => puts[r] = 0)
    BY DEF PutOnce
  <2>1. r \in Reqs
    BY ReqsAssumption
  <2>2. ASSUME r \in InFlight PROVE puts[r] = 0
    <3>1. CASE r \in Range(pendingWrites)
      BY <2>1, <3>1 DEF OwnerInv, OneHolder
    <3>2. CASE \E g \in Goroutines : r \in Range(batch[g])
      BY <2>1, <3>2 DEF OwnerInv, OneHolder
    <3>3. CASE \E g \in Goroutines : pc[g] = "enqueue" /\ req[g] = r
      BY <2>1, <3>3 DEF OwnerInv, OneHolder
    <3> QED BY <2>2, <3>1, <3>2, <3>3 DEF InFlight
  <2> QED BY <2>1, <2>2 DEF OwnerInv, PutsBound
<1> QED BY <1>1, <1>2, <1>3, WriterAlways, PTL DEF Safety

-------------------------------------------------------------------------------
(* No buffer is forgotten *)

\* While writeActive is set there is somebody who will clear it.
WriterExists == writeActive => \E g \in Goroutines : pc[g] \in WriterPCs

\* A buffer that was handed in and not given back is in somebody's hands.
KeptInv == \A r \in Pooled \cap used : puts[r] >= 1 \/ r \in InFlight

\* writeActive is set by a goroutine that becomes the writer, and cleared by it.
LEMMA WriterExistsStep ==
  TypeInv /\ WriterInv /\ WriterExists /\ [Next]_vars => WriterExists'
<1> SUFFICES ASSUME TypeInv, WriterInv, WriterExists, [Next]_vars PROVE WriterExists'
  OBVIOUS
<1> USE DEF WriterExists, WriterPCs, Goto
<1>0. pc \in [Goroutines -> PCs] /\ writeActive \in BOOLEAN
  BY DEF TypeInv, TypeOK
<1>1. ASSUME NEW g \in Goroutines, NEW r \in Reqs, SubmitCheck(g, r) PROVE WriterExists'
  BY <1>0, <1>1 DEF SubmitCheck
<1>2. ASSUME NEW g \in Goroutines, SubmitEnqueue(g) PROVE WriterExists'
  <2>1. CASE writeActive
    BY <1>0, <1>2, <2>1 DEF SubmitEnqueue, Enqueue
  <2>2. CASE ~writeActive
    BY <1>0, <1>2, <2>2 DEF SubmitEnqueue, Enqueue
  <2> QED BY <2>1, <2>2
<1>3. ASSUME NEW g \in Goroutines, WriterTake(g) PROVE WriterExists'
  BY <1>0, <1>3 DEF WriterTake
<1>4. ASSUME NEW g \in Goroutines, WriteFrame(g) \/ WriteReturn(g) \/ WriterRelease(g)
      PROVE  WriterExists'
  BY <1>0, <1>4 DEF WriteFrame, WriteReturn, WriterRelease
<1>5. ASSUME NEW g \in Goroutines, WriterFail(g) PROVE WriterExists'
  BY <1>5 DEF WriterFail
<1>6. ASSUME NEW g \in Goroutines, CallClose(g) \/ CloseCAS(g) \/ CloseNet(g) \/ CloseDrain(g)
      PROVE  WriterExists'
  BY <1>0, <1>6 DEF CallClose, CloseCAS, CloseNet, CloseDrain
<1>7. CASE PeerReset \/ UNCHANGED vars
  BY <1>7 DEF PeerReset, vars
<1> QED BY <1>1, <1>2, <1>3, <1>4, <1>5, <1>6, <1>7 DEF Next, Step

\* PutAll returns every pooled buffer of the set, and takes none back.
LEMMA PutAllReturns ==
  ASSUME puts \in [Reqs -> Nat], NEW S, PutAll(S), NEW r \in Pooled
  PROVE  /\ puts[r] >= 1 => puts'[r] >= 1
         /\ r \in S => puts'[r] >= 1
BY ReqsAssumption DEF PutAll

\* Whoever lets go of a buffer has passed it on or given it back.
LEMMA KeptStep == TypeInv /\ OwnerInv /\ KeptInv /\ [Next]_vars => KeptInv'
<1> SUFFICES ASSUME TypeInv, OwnerInv, KeptInv, [Next]_vars, NEW r \in Pooled,
                    r \in used'
             PROVE  puts'[r] >= 1 \/ r \in InFlight'
  BY DEF KeptInv
<1> USE DEF Goto, locals, InFlight
<1>0. /\ pc \in [Goroutines -> PCs]
      /\ req \in [Goroutines -> Reqs \cup {None}]
      /\ pendingWrites \in Seq(Reqs)
      /\ batch \in [Goroutines -> Seq(Reqs)]
      /\ puts \in [Reqs -> Nat]
      /\ r \in Reqs
  BY ReqsAssumption DEF TypeInv, TypeOK
<1>k. r \in used => puts[r] >= 1 \/ r \in InFlight
  BY DEF KeptInv
<1>1. ASSUME NEW g \in Goroutines, NEW q \in Reqs, SubmitCheck(g, q)
      PROVE  puts'[r] >= 1 \/ r \in InFlight'
  <2>0. /\ used' = used \cup {q} /\ UNCHANGED <<pendingWrites, batch>> /\ pc[g] = "idle"
    BY <1>1 DEF SubmitCheck
  <2>1. CASE isClosed /\ PutAll({q}) /\ UNCHANGED <<pc, req>>
    <3>1. /\ puts[r] >= 1 => puts'[r] >= 1
          /\ r = q => puts'[r] >= 1
      BY <1>0, <2>1, PutAllReturns
    <3> QED BY <1>0, <1>k, <2>0, <2>1, <3>1
  <2>2. CASE /\ ~isClosed
             /\ Goto(g, "enqueue")
             /\ req' = [req EXCEPT ![g] = q]
             /\ UNCHANGED puts
    BY <1>0, <1>k, <2>0, <2>2
  <2> QED BY <1>1, <2>1, <2>2 DEF SubmitCheck
<1>2. ASSUME NEW g \in Goroutines, SubmitEnqueue(g)
      PROVE  puts'[r] >= 1 \/ r \in InFlight'
  <2>1. req[g] \in Reqs /\ pc[g] = "enqueue"
    BY <1>2 DEF SubmitEnqueue, TypeInv, HoldsRequest
  <2>2. Range(pendingWrites') = Range(pendingWrites) \cup {req[g]}
    BY <1>0, <1>2, <2>1, RangeAppend DEF SubmitEnqueue, Enqueue
  <2>3. /\ \A h \in Goroutines : h # g => pc'[h] = pc[h] /\ req'[h] = req[h]
        /\ UNCHANGED <<batch, used, puts>>
    BY <1>0, <1>2 DEF SubmitEnqueue, Enqueue
  <2> QED BY <1>0, <1>k, <2>2, <2>3
<1>3. ASSUME NEW g \in Goroutines, WriterTake(g)
      PROVE  puts'[r] >= 1 \/ r \in InFlight'
  <2>0. pc[g] = "take" /\ Range(batch[g]) = {} /\ UNCHANGED <<req, used, puts>>
    BY <1>3, RangeEmpty DEF WriterTake, OwnerInv, BatchOfWriter
  <2>1. CASE pendingWrites = <<>>
    BY <1>0, <1>3, <1>k, <2>0, <2>1 DEF WriterTake
  <2>2. CASE pendingWrites # <<>>
    <3>1. /\ pc'[g] = "write" /\ batch'[g] = pendingWrites
          /\ \A h \in Goroutines : h # g => pc'[h] = pc[h] /\ batch'[h] = batch[h]
      BY <1>0, <1>3, <2>2 DEF WriterTake
    <3> QED BY <1>0, <1>k, <2>0, <3>1
  <2> QED BY <2>1, <2>2
<1>4. ASSUME NEW g \in Goroutines, WriterRelease(g)
      PROVE  puts'[r] >= 1 \/ r \in InFlight'
  <2>1. /\ pc[g] # "enqueue" /\ UNCHANGED <<req, used, pendingWrites>>
        /\ \A h \in Goroutines : h # g => pc'[h] = pc[h] /\ batch'[h] = batch[h]
    BY <1>0, <1>4 DEF WriterRelease
  <2>2. /\ puts[r] >= 1 => puts'[r] >= 1
        /\ r \in Range(batch[g]) => puts'[r] >= 1
    BY <1>0, <1>4, PutAllReturns DEF WriterRelease, Released
  <2> QED BY <1>0, <1>k, <2>1, <2>2
<1>5. ASSUME NEW g \in Goroutines, CloseDrain(g)
      PROVE  puts'[r] >= 1 \/ r \in InFlight'
  <2>1. /\ pc[g] # "enqueue" /\ UNCHANGED <<req, used, batch>>
        /\ \A h \in Goroutines : h # g => pc'[h] = pc[h]
    BY <1>0, <1>5 DEF CloseDrain
  <2>2. CASE Drain
    <3>1. /\ puts[r] >= 1 => puts'[r] >= 1
          /\ r \in Range(pendingWrites) => puts'[r] >= 1
      BY <1>0, <2>2, PutAllReturns DEF Drain
    <3> QED BY <1>0, <1>k, <2>1, <3>1
  <2>3. CASE UNCHANGED <<pendingWrites, puts>>
    BY <1>0, <1>k, <2>1, <2>3
  <2> QED BY <1>5, <2>2, <2>3 DEF CloseDrain
<1>6. ASSUME NEW g \in Goroutines,
             \/ WriteFrame(g) \/ WriteReturn(g) \/ WriterFail(g) \/ CallClose(g)
             \/ CloseCAS(g) \/ CloseNet(g)
      PROVE  puts'[r] >= 1 \/ r \in InFlight'
  <2>1. /\ pc[g] # "enqueue" /\ UNCHANGED <<req, used, pendingWrites, batch, puts>>
        /\ \A h \in Goroutines : h # g => pc'[h] = pc[h]
    BY <1>0, <1>6 DEF WriteFrame, WriteReturn, WriterFail, CallClose, CloseCAS, CloseNet
  <2> QED BY <1>0, <1>k, <2>1
<1>7. CASE PeerReset \/ UNCHANGED vars
  BY <1>k, <1>7 DEF PeerReset, vars
<1> QED BY <1>1, <1>2, <1>3, <1>4, <1>5, <1>6, <1>7 DEF Next, Step

\* A buffer nobody is busy with has gone back to the pool, unless a writer that met an
\* error left it in the queue of a connection that is down.
THEOREM BuffersNotForgotten == Safety => []NoForgottenBuffer
<1>1. Init => OwnerInv /\ WriterExists /\ KeptInv
  BY OwnerInit DEF Init, WriterExists, KeptInv
<1>2. TypeInv /\ WriterInv /\ OwnerInv /\ WriterExists /\ KeptInv /\ [Next]_vars
        => OwnerInv' /\ WriterExists' /\ KeptInv'
  BY OwnerStep, WriterExistsStep, KeptStep
<1>3. TypeInv /\ WriterInv /\ OwnerInv /\ WriterExists /\ KeptInv => NoForgottenBuffer
  <2> SUFFICES ASSUME TypeInv, WriterInv, OwnerInv, WriterExists, KeptInv,
                      \A g \in Goroutines : pc[g] = "idle", NEW r \in Pooled \cap used
               PROVE  puts[r] = 1 \/ (net # "up" /\ r \in Range(pendingWrites))
    BY DEF NoForgottenBuffer
  <2>1. r \in Reqs /\ puts[r] \in Nat /\ puts[r] <= 1
    BY ReqsAssumption DEF TypeInv, TypeOK, OwnerInv, PutsBound
  <2>2. CASE puts[r] >= 1
    BY <2>1, <2>2
  <2>3. CASE r \in InFlight
    <3>1. \A g \in Goroutines : Range(batch[g]) = {}
      BY RangeEmpty DEF OwnerInv, BatchOfWriter
    <3>2. r \in Range(pendingWrites)
      BY <2>3, <3>1 DEF InFlight
    <3>3. pendingWrites # <<>> /\ ~writeActive
      BY <3>2, RangeEmpty DEF WriterExists, WriterPCs
    <3> QED BY <3>2, <3>3 DEF WriterInv, NoStrandedFrame
  <2> QED BY <2>2, <2>3 DEF KeptInv
<1> QED BY <1>1, <1>2, <1>3, WriterAlways, PTL DEF Safety
===============================================================================
