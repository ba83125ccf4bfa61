---------------------------- MODULE StreamRegistry ----------------------------
(***************************************************************************)
(* The streams of one wispConnection (wisp/wisp-connection.go): the        *)
(* streams map, the streamCount that limits it, and the small streamCache  *)
(* the read loop consults first.  The read loop adds streams and looks     *)
(* them up; every stream is taken out by its own close(), which runs in    *)
(* whichever goroutine wins its CAS.  A client may use a stream id again.  *)
(*                                                                         *)
(* A step is one operation on an atomic, on the sync.Map or on a field of  *)
(* a cache slot, which no lock protects.  Only the read loop writes        *)
(* slot.id, so what it reads of that needs no step of its own.             *)
(***************************************************************************)
EXTENDS Integers, FiniteSets

CONSTANTS Ids,           \* stream ids
          Slots, SlotOf, \* the cache slots, and the one each id maps to
          Streams,       \* the wispStream objects; each is created once
          MaxStreams,    \* MaxConcurrentStreamsPerConnection
          Nil

ASSUME RegistryAssumption ==
  /\ SlotOf \in [Ids -> Slots]
  /\ Nil \notin Ids \cup Streams
  /\ MaxStreams \in Nat \ {0}

VARIABLES streams,       \* c.streams
          streamCount,   \* c.streamCount
          slotId, slotStream,  \* c.streamCache[k].id and .stream
          streamId,      \* s.streamId, Nil before s is created
          isOpen,        \* s.isOpen
          started,       \* the streams whose handleConnect goroutine was started
          clPc,          \* where close() of each stream is
          asyncs,        \* the streams a `go stream.close()` is under way for
          connClosed,    \* c.isClosed
          rlPc,          \* where the read loop is,
          rlId, rlStream,\* the id it serves and the stream it has found,
          todo           \* and what deleteAllWispStreams has still to visit

vars == <<streams, streamCount, slotId, slotStream, streamId, isOpen, started,
          clPc, asyncs, connClosed, rlPc, rlId, rlStream, todo>>

cacheVars == <<slotId, slotStream>>
rlVars == <<rlPc, rlId, rlStream, todo>>

Init ==
  /\ streams = [i \in Ids |-> Nil]
  /\ streamCount = 0
  /\ slotId = [k \in Slots |-> Nil]
  /\ slotStream = [k \in Slots |-> Nil]
  /\ streamId = [s \in Streams |-> Nil]
  /\ isOpen = [s \in Streams |-> FALSE]
  /\ started = {}
  /\ clPc = [s \in Streams |-> "none"]
  /\ asyncs = {}
  /\ connClosed = FALSE
  /\ rlPc = "idle" /\ rlId = Nil /\ rlStream = Nil /\ todo = {}

-------------------------------------------------------------------------------
(* close() of a stream *)

\* The CAS: the first caller goes on, the others return.
CallClose(s) ==
  /\ isOpen' = [isOpen EXCEPT ![s] = FALSE]
  /\ clPc' = IF isOpen[s] THEN [clPc EXCEPT ![s] = "delete"] ELSE clPc

\* handleConnect refuses the stream, fails to dial, or its socket ends.
StreamEnds(s) ==
  /\ s \in started
  /\ isOpen[s]
  /\ CallClose(s)
  /\ UNCHANGED <<streams, streamCount, cacheVars, streamId, started, asyncs,
                 connClosed, rlVars>>

\* The goroutine of handleClosePacket calls close().
AsyncClose(s) ==
  /\ s \in asyncs
  /\ asyncs' = asyncs \ {s}
  /\ CallClose(s)
  /\ UNCHANGED <<streams, streamCount, cacheVars, streamId, started, connClosed,
                 rlVars>>

\* c.streams.Delete takes out whatever has the stream's id.
Unregister(s) == streams' = [streams EXCEPT ![streamId[s]] = Nil]

\* deleteWispStream, in four steps: the map entry, the test of the slot, the
\* slot, the count.
CloseDelete(s) ==
  /\ clPc[s] = "delete"
  /\ Unregister(s)
  /\ clPc' = [clPc EXCEPT ![s] = "slot"]
  /\ UNCHANGED <<streamCount, cacheVars, streamId, isOpen, started, asyncs,
                 connClosed, rlVars>>

CloseTestSlot(s) ==
  /\ clPc[s] = "slot"
  /\ clPc' = [clPc EXCEPT ![s] =
                IF slotId[SlotOf[streamId[s]]] = streamId[s] THEN "clear" ELSE "count"]
  /\ UNCHANGED <<streams, streamCount, cacheVars, streamId, isOpen, started,
                 asyncs, connClosed, rlVars>>

CloseClearSlot(s) ==
  /\ clPc[s] = "clear"
  /\ slotStream' = [slotStream EXCEPT ![SlotOf[streamId[s]]] = Nil]
  /\ clPc' = [clPc EXCEPT ![s] = "count"]
  /\ UNCHANGED <<streams, streamCount, slotId, streamId, isOpen, started, asyncs,
                 connClosed, rlVars>>

\* Mutant of Decremented: the count is not lowered.
NotDecremented == streamCount

Decremented == streamCount - 1

\* The rest of close(), the socket and the CLOSE packet, is StreamIngress's.
CloseCount(s) ==
  /\ clPc[s] = "count"
  /\ streamCount' = Decremented
  /\ clPc' = [clPc EXCEPT ![s] = "done"]
  /\ UNCHANGED <<streams, cacheVars, streamId, isOpen, started, asyncs,
                 connClosed, rlVars>>

Closing(s) ==
  CloseDelete(s) \/ CloseTestSlot(s) \/ CloseClearSlot(s) \/ CloseCount(s)

-------------------------------------------------------------------------------
(* The read loop: handleConnectPacket *)

\* The packet's handler returns, and its locals are gone.
Idle == rlPc' = "idle" /\ rlId' = Nil /\ rlStream' = Nil

\* Mutant of BelowLimit: off by one.
AtMostLimit == streamCount <= MaxStreams

\* The limit on streams is tested here, the count raised two steps later.
BelowLimit == streamCount < MaxStreams

\* The next wispStream object: which of the unused ones makes no difference.
Fresh == CHOOSE s \in Streams : streamId[s] = Nil

\* A CONNECT is refused by the limit or by the source's rate, which may close
\* the connection (violation), or gets a wispStream object.
RlConnect(i) ==
  /\ rlPc = "idle"
  /\ \/ /\ connClosed' \in {connClosed, TRUE}
        /\ UNCHANGED <<rlPc, rlId, rlStream>>
     \/ /\ BelowLimit
        /\ \E s \in Streams : streamId[s] = Nil
        /\ rlStream' = Fresh
        /\ rlId' = i
        /\ rlPc' = "store"
        /\ UNCHANGED connClosed
  /\ UNCHANGED <<streams, streamCount, cacheVars, streamId, isOpen, started, clPc,
                 asyncs, todo>>

\* Mutant of Free: the entry is overwritten (Store instead of LoadOrStore).
FreeAlways(i) == TRUE

\* LoadOrStore finds no stream with this id.
Free(i) == streams[i] = Nil

\* LoadOrStore; an id in use makes the CONNECT vanish without an answer.
RlStore ==
  /\ rlPc = "store"
  /\ \/ /\ Free(rlId)
        /\ streams' = [streams EXCEPT ![rlId] = rlStream]
        /\ streamId' = [streamId EXCEPT ![rlStream] = rlId]
        /\ isOpen' = [isOpen EXCEPT ![rlStream] = TRUE]
        /\ rlPc' = "start"
        /\ UNCHANGED <<rlId, rlStream>>
     \/ /\ ~Free(rlId)
        /\ Idle
        /\ UNCHANGED <<streams, streamId, isOpen>>
  /\ UNCHANGED <<streamCount, cacheVars, started, clPc, asyncs, connClosed, todo>>

RlStart ==
  /\ rlPc = "start"
  /\ streamCount' = streamCount + 1
  /\ started' = started \cup {rlStream}
  /\ Idle
  /\ UNCHANGED <<streams, cacheVars, streamId, isOpen, clPc, asyncs, connClosed,
                 todo>>

-------------------------------------------------------------------------------
(* The read loop: handleDataPacket's lookup *)

\* Mutant of Hit: the id in the slot is not compared.
HitAny(i) == slotStream[SlotOf[i]] # Nil

\* The test of the slot, which reads slot.stream for the first time.
Hit(i) == slotId[SlotOf[i]] = i /\ slotStream[SlotOf[i]] # Nil

RlData(i) ==
  /\ rlPc = "idle"
  /\ \/ /\ Hit(i)
        /\ rlId' = i /\ rlPc' = "hit" /\ UNCHANGED rlStream
     \/ /\ ~Hit(i) /\ streams[i] # Nil
        /\ rlId' = i /\ rlStream' = streams[i] /\ rlPc' = "fillId"
     \/ /\ ~Hit(i) /\ streams[i] = Nil
        /\ UNCHANGED <<rlId, rlStream, rlPc>>
  /\ UNCHANGED <<streams, streamCount, cacheVars, streamId, isOpen, started, clPc,
                 asyncs, connClosed, todo>>

\* slot.stream is read again, and may have been cleared since the test.  (A compiler
\* that keeps the first value is the case that nobody comes between.)
RlHit ==
  /\ rlPc = "hit"
  /\ rlStream' = slotStream[SlotOf[rlId]]
  /\ rlPc' = "route"
  /\ UNCHANGED <<streams, streamCount, cacheVars, streamId, isOpen, started, clPc,
                 asyncs, connClosed, rlId, todo>>

RlFillId ==
  /\ rlPc = "fillId"
  /\ slotId' = [slotId EXCEPT ![SlotOf[rlId]] = rlId]
  /\ rlPc' = "fillStream"
  /\ UNCHANGED <<streams, streamCount, slotStream, streamId, isOpen, started, clPc,
                 asyncs, connClosed, rlId, rlStream, todo>>

RlFillStream ==
  /\ rlPc = "fillStream"
  /\ slotStream' = [slotStream EXCEPT ![SlotOf[rlId]] = rlStream]
  /\ rlPc' = "route"
  /\ UNCHANGED <<streams, streamCount, slotId, streamId, isOpen, started, clPc,
                 asyncs, connClosed, rlId, rlStream, todo>>

\* The isOpen test: the packet goes to rlStream, or is dropped without a word.  The
\* field of a nil stream cannot be read: the process dies.
RlRoute ==
  /\ rlPc = "route"
  /\ \/ rlStream # Nil /\ Idle
     \/ rlStream = Nil /\ rlPc' = "crashed" /\ UNCHANGED <<rlId, rlStream>>
  /\ UNCHANGED <<streams, streamCount, cacheVars, streamId, isOpen, started, clPc,
                 asyncs, connClosed, todo>>

-------------------------------------------------------------------------------
(* The read loop: handleClosePacket and deleteAllWispStreams *)

RlClose(i) ==
  /\ rlPc = "idle"
  /\ streams[i] # Nil
  /\ asyncs' = asyncs \cup {streams[i]}
  /\ UNCHANGED <<streams, streamCount, cacheVars, streamId, isOpen, started, clPc,
                 connClosed, rlVars>>

\* Mutant of ToVisit: only the streams in the cache are closed.
ToVisitCached == {i \in Ids : Hit(i)}

\* Range visits every id.
ToVisit == Ids

\* The connection is closed, here or by the peer, and the read loop ends.
RlEnd ==
  /\ rlPc = "idle"
  /\ rlPc' = "range"
  /\ rlStream' = Nil
  /\ connClosed' = TRUE
  /\ todo' = ToVisit
  /\ UNCHANGED <<streams, streamCount, cacheVars, streamId, isOpen, started, clPc,
                 asyncs, rlId>>

\* The close() the read loop itself is running, if any, has returned.
VisitReturned == rlStream # Nil => clPc[rlStream] = "done"

\* Range visits an id and closes the stream it finds there.
RlVisit(i) ==
  /\ rlPc = "range"
  /\ VisitReturned
  /\ i \in todo
  /\ todo' = todo \ {i}
  /\ \/ /\ streams[i] # Nil
        /\ CallClose(streams[i])
        /\ rlStream' = IF isOpen[streams[i]] THEN streams[i] ELSE Nil
     \/ /\ streams[i] = Nil
        /\ rlStream' = Nil
        /\ UNCHANGED <<isOpen, clPc>>
  /\ UNCHANGED <<streams, streamCount, cacheVars, streamId, started, asyncs,
                 connClosed, rlPc, rlId>>

RlGone ==
  /\ rlPc = "range"
  /\ VisitReturned
  /\ todo = {}
  /\ rlPc' = "gone" /\ rlStream' = Nil
  /\ UNCHANGED <<streams, streamCount, cacheVars, streamId, isOpen, started, clPc,
                 asyncs, connClosed, rlId, todo>>

\* What the read loop does by itself once it has begun a packet.
ReadLoop ==
  \/ RlStore \/ RlStart \/ RlHit \/ RlFillId \/ RlFillStream \/ RlRoute \/ RlGone
  \/ \E i \in Ids : RlVisit(i)

\* A nil dereference in one goroutine ends the process.
Running == rlPc # "crashed"

Next ==
  /\ Running
  /\ \/ \E s \in Streams : StreamEnds(s) \/ AsyncClose(s) \/ Closing(s)
     \/ \E i \in Ids : RlConnect(i) \/ RlData(i) \/ RlClose(i)
     \/ ReadLoop
     \/ RlEnd

Safety == Init /\ [][Next]_vars

\* Go runs every runnable goroutine.
Spec ==
  /\ Safety
  /\ \A s \in Streams : WF_vars(Running /\ AsyncClose(s)) /\ WF_vars(Running /\ Closing(s))
  /\ WF_vars(Running /\ ReadLoop)

-------------------------------------------------------------------------------
(* Properties *)

\* An open stream is the one registered under its id: however ids are reused
\* and whoever closes streams, none is open that the map has forgotten.
OpenIsRegistered == \A s \in Streams : isOpen[s] => streams[streamId[s]] = s

\* close() deletes by id; the entry it deletes is the stream's own, never that
\* of a later stream with the same id.
DeletesOwnEntry ==
  \A s \in Streams : clPc[s] = "delete" => streams[streamId[s]] = s

\* A close() of a stream of this slot has passed the clearing of the slot.
SlotCleared(k) ==
  \E s \in Streams :
    streamId[s] # Nil /\ SlotOf[streamId[s]] = k /\ clPc[s] \in {"count", "done"}

\* A packet that handleDataPacket accepts goes to the stream registered under
\* its id, whether the stream came from the cache or from the map.  It finds no stream
\* at all, and the process dies, only if deleteWispStream has cleared the slot.
RoutedRight ==
  rlPc = "route" =>
    /\ rlStream = Nil => SlotCleared(SlotOf[rlId])
    /\ rlStream # Nil /\ isOpen[rlStream] => streams[rlId] = rlStream

Registered == {i \in Ids : streams[i] # Nil}

\* The limit on concurrent streams holds although the count is tested, raised
\* and lowered apart from the map.
StreamLimit == streamCount <= MaxStreams /\ Cardinality(Registered) <= MaxStreams

\* No close() is between its CAS and its end.
NoCloseRunning == \A s \in Streams : clPc[s] \in {"none", "done"}

\* When no packet and no close() is in progress streamCount is the number of
\* registered streams: no sequence of closes makes the limit drift.
CountSettles ==
  rlPc \in {"idle", "gone"} /\ NoCloseRunning =>
    streamCount = Cardinality(Registered)

\* After deleteAllWispStreams no stream of the connection is open or still
\* registered, unless its own close() is on its way to deleting it.
NothingLeftOpen ==
  rlPc = "gone" =>
    \A s \in Streams :
      ~isOpen[s] /\ (\A i \in Ids : streams[i] = s => clPc[s] = "delete")
===============================================================================
