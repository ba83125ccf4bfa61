------------------------------ MODULE WriteQueue ------------------------------
(***************************************************************************)
(* The outbound side of one wispConnection: submitWrite, runWriter and     *)
(* close (wisp/wisp-connection.go).  Any goroutine may hand in a frame.    *)
(* The one that finds writeActive false becomes the writer and stays in    *)
(* runWriter, sending batch after batch, until it finds the queue empty;   *)
(* the others only append.  close() may run at any time in any goroutine.  *)
(*                                                                         *)
(* A step is one atomic operation of the code: an atomic load or CAS, a    *)
(* section under pendingMutex, one frame entering the socket, or closing   *)
(* the socket.                                                             *)
(***************************************************************************)
EXTENDS Naturals, Sequences, Functions

CONSTANTS Goroutines,    \* the read loop, the stream readers, the pty readers
          Reqs,          \* the writeReqs; each is submitted at most once
          Pooled,        \* those that carry a ReadBufPool buffer (r.buf # nil)
          None           \* no request

ASSUME ReqsAssumption == Pooled \subseteq Reqs /\ None \notin Reqs

VARIABLES isClosed,      \* c.isClosed
          net,           \* c.netConn: "up", "broken" by the peer, "closed" by us
          pendingWrites, \* c.pendingWrites
          writeActive,   \* c.writeActive
          pc,            \* where each goroutine is
          req,           \* submitWrite's argument
          batch,         \* runWriter's batch, whose buffers are to be released
          bufs,          \* the part of the batch not yet on the wire
          used,          \* the requests handed in so far
          puts,          \* how often each request's buffer went back to the pool
          wire           \* the frames the socket has taken, in order

vars == <<isClosed, net, pendingWrites, writeActive, pc, req, batch, bufs,
          used, puts, wire>>

locals == <<req, batch, bufs>>

\* Between taking writeActive and giving it up.
WriterPCs == {"take", "write", "release", "releaseErr", "fail"}

\* Inside close(), after its CAS.
ClosePCs == {"closeNet", "drain"}

PCs == {"idle", "enqueue", "close"} \cup WriterPCs \cup ClosePCs

Goto(g, label) == pc' = [pc EXCEPT ![g] = label]

\* ReadBufPool.Put of the buffers the requests in S carry.
PutAll(S) ==
  puts' = [r \in Reqs |-> IF r \in S \cap Pooled THEN puts[r] + 1 ELSE puts[r]]

Init ==
  /\ isClosed = FALSE
  /\ net = "up"
  /\ pendingWrites = <<>>
  /\ writeActive = FALSE
  /\ pc = [g \in Goroutines |-> "idle"]
  /\ req = [g \in Goroutines |-> None]
  /\ batch = [g \in Goroutines |-> <<>>]
  /\ bufs = [g \in Goroutines |-> <<>>]
  /\ used = {}
  /\ puts = [r \in Reqs |-> 0]
  /\ wire = <<>>

-------------------------------------------------------------------------------
(* submitWrite *)

\* The unlocked isClosed test; a request that meets a closed connection gives
\* its buffer back at once.
SubmitCheck(g, r) ==
  /\ pc[g] = "idle"
  /\ r \notin used
  /\ used' = used \cup {r}
  /\ \/ /\ isClosed
        /\ PutAll({r})
        /\ UNCHANGED <<pc, req>>
     \/ /\ ~isClosed
        /\ Goto(g, "enqueue")
        /\ req' = [req EXCEPT ![g] = r]
        /\ UNCHANGED puts
  /\ UNCHANGED <<isClosed, net, pendingWrites, writeActive, batch, bufs, wire>>

\* Mutant of Enqueue: the test of writeActive is missing, every submitter writes.
EnqueueAlwaysWrites(g) ==
  /\ pendingWrites' = Append(pendingWrites, req[g])
  /\ writeActive' = TRUE
  /\ Goto(g, "take")

\* Mutant of Enqueue: a submitter that finds the writer idle leaves the frame.
EnqueueNeverWrites(g) ==
  /\ pendingWrites' = Append(pendingWrites, req[g])
  /\ Goto(g, "idle")
  /\ UNCHANGED writeActive

\* The section under pendingMutex: append, and become the writer if there is
\* none.
Enqueue(g) ==
  /\ pendingWrites' = Append(pendingWrites, req[g])
  /\ writeActive' = TRUE
  /\ Goto(g, IF writeActive THEN "idle" ELSE "take")

SubmitEnqueue(g) ==
  /\ pc[g] = "enqueue"
  /\ Enqueue(g)
  /\ req' = [req EXCEPT ![g] = None]
  /\ UNCHANGED <<isClosed, net, batch, bufs, used, puts, wire>>

-------------------------------------------------------------------------------
(* runWriter *)

\* Under pendingMutex: stop if the queue is empty, else take all of it.
WriterTake(g) ==
  /\ pc[g] = "take"
  /\ \/ /\ pendingWrites = <<>>
        /\ writeActive' = FALSE
        /\ Goto(g, "idle")
        /\ UNCHANGED <<pendingWrites, batch, bufs>>
     \/ /\ pendingWrites # <<>>
        /\ batch' = [batch EXCEPT ![g] = pendingWrites]
        /\ bufs' = [bufs EXCEPT ![g] = pendingWrites]
        /\ pendingWrites' = <<>>
        /\ Goto(g, "write")
        /\ UNCHANGED writeActive
  /\ UNCHANGED <<isClosed, net, req, used, puts, wire>>

\* Mutant of NextFrame: the batch is sent from its end.
LastFrame(s) == s[Len(s)]

\* The frame that netConn.Write (or bufs.WriteTo) puts on the wire next.
NextFrame(s) == Head(s)

WriteFrame(g) ==
  /\ pc[g] = "write"
  /\ bufs[g] # <<>>
  /\ net = "up"
  /\ wire' = Append(wire, NextFrame(bufs[g]))
  /\ bufs' = [bufs EXCEPT ![g] = Tail(@)]
  /\ UNCHANGED <<isClosed, net, pendingWrites, writeActive, pc, req, batch,
                 used, puts>>

\* Write has returned: without an error once the whole batch is sent, with one
\* as soon as the socket is broken or closed.
WriteReturn(g) ==
  /\ pc[g] = "write"
  /\ \/ /\ bufs[g] = <<>>
        /\ Goto(g, "release")
     \/ /\ bufs[g] # <<>>
        /\ net # "up"
        /\ Goto(g, "releaseErr")
  /\ UNCHANGED <<isClosed, net, pendingWrites, writeActive, locals, used, puts,
                 wire>>

\* Mutant of Released: the buffers of a batch that failed are not given back.
ReleasedUnlessFailed(g) ==
  IF pc[g] = "release" THEN Range(batch[g]) ELSE {}

\* The requests whose buffers runWriter gives back after a Write.
Released(g) == Range(batch[g])

WriterRelease(g) ==
  /\ pc[g] \in {"release", "releaseErr"}
  /\ PutAll(Released(g))
  /\ batch' = [batch EXCEPT ![g] = <<>>]
  /\ bufs' = [bufs EXCEPT ![g] = <<>>]
  /\ Goto(g, IF pc[g] = "release" THEN "take" ELSE "fail")
  /\ UNCHANGED <<isClosed, net, pendingWrites, writeActive, req, used, wire>>

\* The error path: stop being the writer, then close the connection.  What was
\* appended during the failed Write stays in pendingWrites.
WriterFail(g) ==
  /\ pc[g] = "fail"
  /\ writeActive' = FALSE
  /\ Goto(g, "close")
  /\ UNCHANGED <<isClosed, net, pendingWrites, locals, used, puts, wire>>

-------------------------------------------------------------------------------
(* close *)

\* Someone decides to close the connection: the read loop at its end, a failed
\* handshake, too many violations, a flood signature.
CallClose(g) ==
  /\ pc[g] = "idle"
  /\ Goto(g, "close")
  /\ UNCHANGED <<isClosed, net, pendingWrites, writeActive, locals, used, puts,
                 wire>>

\* isClosed.CompareAndSwap(false, true); only the first caller goes on.
CloseCAS(g) ==
  /\ pc[g] = "close"
  /\ isClosed' = TRUE
  /\ Goto(g, IF isClosed THEN "idle" ELSE "closeNet")
  /\ UNCHANGED <<net, pendingWrites, writeActive, locals, used, puts, wire>>

\* Mutant of NetAfterClose: the socket is left open.
NetLeftOpen == net

\* netConn.Close().
NetAfterClose == "closed"

CloseNet(g) ==
  /\ pc[g] = "closeNet"
  /\ net' = NetAfterClose
  /\ Goto(g, "drain")
  /\ UNCHANGED <<isClosed, pendingWrites, writeActive, locals, used, puts, wire>>

\* Mutant of Drain: the drained queue is not forgotten.
DrainKeepsQueue ==
  /\ PutAll(Range(pendingWrites))
  /\ UNCHANGED pendingWrites

\* close() empties the queue itself only if no writer will.
Drain ==
  /\ pendingWrites' = <<>>
  /\ PutAll(Range(pendingWrites))

CloseDrain(g) ==
  /\ pc[g] = "drain"
  /\ Goto(g, "idle")
  /\ \/ ~writeActive /\ Drain
     \/ writeActive /\ UNCHANGED <<pendingWrites, puts>>
  /\ UNCHANGED <<isClosed, net, writeActive, locals, used, wire>>

-------------------------------------------------------------------------------
(* The peer resets the connection: from now on Write fails. *)
PeerReset ==
  /\ net = "up"
  /\ net' = "broken"
  /\ UNCHANGED <<isClosed, pendingWrites, writeActive, pc, locals, used, puts,
                 wire>>

\* The steps a goroutine inside submitWrite or close takes by itself.
Step(g) ==
  \/ SubmitEnqueue(g) \/ WriterTake(g)
  \/ WriteReturn(g) \/ WriterRelease(g) \/ WriterFail(g)
  \/ CloseCAS(g) \/ CloseNet(g) \/ CloseDrain(g)

Next ==
  \/ \E g \in Goroutines : Step(g) \/ WriteFrame(g)
  \/ \E g \in Goroutines, r \in Reqs : SubmitCheck(g, r)
  \/ \E g \in Goroutines : CallClose(g)
  \/ PeerReset

Safety == Init /\ [][Next]_vars

\* Go runs every runnable goroutine.  Nothing makes the peer read: Write has no
\* deadline, so a frame may stay in WriteFrame for ever.
Spec == Safety /\ \A g \in Goroutines : WF_vars(Step(g))

\* What a peer that keeps reading its socket adds.
PeerReads == \A g \in Goroutines : WF_vars(WriteFrame(g))

-------------------------------------------------------------------------------
(* Properties *)

TypeOK ==
  /\ isClosed \in BOOLEAN
  /\ net \in {"up", "broken", "closed"}
  /\ pendingWrites \in Seq(Reqs)
  /\ writeActive \in BOOLEAN
  /\ pc \in [Goroutines -> PCs]
  /\ req \in [Goroutines -> Reqs \cup {None}]
  /\ batch \in [Goroutines -> Seq(Reqs)]
  /\ bufs \in [Goroutines -> Seq(Reqs)]
  /\ used \subseteq Reqs
  /\ puts \in [Reqs -> Nat]
  /\ wire \in Seq(Reqs)

\* At most one goroutine is inside runWriter (submitWrite hands writeActive to
\* one goroutine only), and only while writeActive is set: two writers would
\* interleave their frames on the socket.
SingleWriter ==
  \A g, h \in Goroutines :
    pc[g] \in WriterPCs => writeActive /\ (pc[h] \in WriterPCs => g = h)

\* No lost wake-up: a frame left in pendingWrites while nobody is the writer is
\* left there by a failed Write, on a socket that carries nothing any more.
NoStrandedFrame ==
  pendingWrites # <<>> /\ ~writeActive => net # "up"

\* Requests whose buffer some goroutine may still read from.
InFlight ==
  {r \in Reqs :
     \/ r \in Range(pendingWrites)
     \/ \E g \in Goroutines : \/ r \in Range(batch[g])
                              \/ pc[g] = "enqueue" /\ req[g] = r}

\* A pooled buffer goes back to ReadBufPool at most once, and never while a
\* queue, a batch or a submitter still holds it: the pool would hand it to
\* another stream while this one's bytes are being sent.
PutOnce ==
  \A r \in Pooled : puts[r] <= 1 /\ (r \in InFlight => puts[r] = 0)

\* No pooled buffer is forgotten by a live connection: when no call is in
\* progress each one handed in has been given back, except those a failed
\* writer left in the queue of a dead connection.
NoForgottenBuffer ==
  (\A g \in Goroutines : pc[g] = "idle") =>
    \A r \in Pooled \cap used :
      puts[r] = 1 \/ (net # "up" /\ r \in Range(pendingWrites))

\* Once close() has been entered the socket does get closed, whatever the peer
\* does: no goroutine in close() waits for one blocked in Write.
CloseCompletes == isClosed ~> net = "closed"

\* The frames the current writer has taken and not sent yet.
Unsent ==
  IF \E g \in Goroutines : pc[g] = "write"
  THEN bufs[CHOOSE g \in Goroutines : pc[g] = "write"]
  ELSE <<>>

Channel == INSTANCE OutboundChannel
             WITH queue <- IF net = "up" THEN Unsent \o pendingWrites ELSE <<>>,
                  up <- net = "up"

\* The combining writer is a FIFO channel: no frame is lost, duplicated or
\* reordered while the connection is up.
ImplementsChannel == Channel!Spec

\* No frame waits for ever: if the peer reads, each frame handed to submitWrite
\* on a connection that stays up reaches the socket, whoever has to send it.
FramesLeave ==
  PeerReads => \A r \in Reqs :
    r \in InFlight ~> (r \in Range(wire) \/ net # "up")
===============================================================================
