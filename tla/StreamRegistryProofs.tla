------------------------- MODULE StreamRegistryProofs -------------------------
(***************************************************************************)
(* Proofs about StreamRegistry, for any number of ids, slots and streams.  *)
(***************************************************************************)
EXTENDS StreamRegistry, FiniteSetTheorems, TLAPS

-------------------------------------------------------------------------------
(* The inductive invariant *)

\* The types, but for streamCount, which is CountInv's.
TypeInv ==
  /\ streams \in [Ids -> Streams \cup {Nil}]
  /\ slotId \in [Slots -> Ids \cup {Nil}]
  /\ slotStream \in [Slots -> Streams \cup {Nil}]
  /\ streamId \in [Streams -> Ids \cup {Nil}]
  /\ isOpen \in [Streams -> BOOLEAN]
  /\ started \subseteq Streams
  /\ clPc \in [Streams -> {"none", "delete", "slot", "clear", "count", "done"}]
  /\ asyncs \subseteq Streams
  /\ rlPc \in {"idle", "store", "start", "hit", "fillId", "fillStream", "route",
               "crashed", "range", "gone"}
  /\ rlId \in Ids \cup {Nil}
  /\ rlStream \in Streams \cup {Nil}
  /\ todo \subseteq Ids

\* What the read loop knows about the stream in its hands.
ReadLoopInv ==
  /\ rlPc = "store" =>
       rlId \in Ids /\ rlStream \in Streams /\ streamId[rlStream] = Nil
  /\ rlPc = "start" => rlStream \in Streams
  /\ rlPc \in {"hit", "fillId", "fillStream", "route"} => rlId \in Ids
  /\ rlPc \in {"fillId", "fillStream"} => rlStream # Nil
  /\ rlPc \in {"fillId", "fillStream", "route"} /\ rlStream # Nil =>
       streamId[rlStream] = rlId
  /\ rlPc \in {"hit", "fillStream"} => slotId[SlotOf[rlId]] = rlId

\* A stream that has not been registered is neither open nor closing, and an
\* open one is not closing.
LifeInv ==
  \A s \in Streams :
    /\ streamId[s] = Nil => ~isOpen[s] /\ clPc[s] = "none"
    /\ isOpen[s] => clPc[s] = "none"

\* What is registered is registered under its own id, and is open or about to
\* be deleted.
MapInv ==
  \A i \in Ids :
    streams[i] # Nil =>
      /\ streamId[streams[i]] = i
      /\ isOpen[streams[i]] \/ clPc[streams[i]] = "delete"

\* A slot holds a stream under that stream's id, except while the read loop is
\* between its two writes.
SlotInv ==
  \A k \in Slots :
    slotStream[k] # Nil =>
      /\ streamId[slotStream[k]] # Nil
      /\ ~(rlPc = "fillStream" /\ k = SlotOf[rlId]) =>
           streamId[slotStream[k]] = slotId[k]

\* What the test of a slot has found is there at the second read, unless a close() has
\* cleared the slot meanwhile.
HitInv ==
  (rlPc = "hit" /\ slotStream[SlotOf[rlId]] = Nil) \/ (rlPc = "route" /\ rlStream = Nil)
    => SlotCleared(SlotOf[rlId])

\* During and after deleteAllWispStreams only streams it has still to visit are
\* open.
TeardownInv ==
  /\ rlPc = "range" => \A s \in Streams : isOpen[s] => streamId[s] \in todo
  /\ rlPc = "gone" => \A s \in Streams : ~isOpen[s]

Inv ==
  /\ TypeInv /\ ReadLoopInv /\ LifeInv /\ MapInv /\ SlotInv /\ HitInv /\ TeardownInv
  /\ OpenIsRegistered /\ DeletesOwnEntry

\* A new connection has no streams.
LEMMA InvInit == Init => Inv
BY RegistryAssumption
   DEF Init, Inv, TypeInv, ReadLoopInv, LifeInv, MapInv, SlotInv, HitInv,
       TeardownInv, OpenIsRegistered, DeletesOwnEntry

\* A call of close() clears isOpen and, if it was set, starts the deletion.
LEMMA CloseKeepsInv ==
  ASSUME Inv, NEW s \in Streams, CallClose(s),
         UNCHANGED <<streams, slotId, slotStream, streamId, started, rlId>>
  PROVE  /\ isOpen' \in [Streams -> BOOLEAN]
         /\ clPc' \in [Streams -> {"none", "delete", "slot", "clear", "count", "done"}]
         /\ LifeInv' /\ MapInv' /\ OpenIsRegistered' /\ DeletesOwnEntry'
         /\ \A t \in Streams : isOpen'[t] => isOpen[t] /\ t # s
<1> USE DEF Inv, TypeInv
<1>1. /\ isOpen' \in [Streams -> BOOLEAN] /\ ~isOpen'[s]
      /\ \A t \in Streams : t # s => isOpen'[t] = isOpen[t]
  BY DEF CallClose
<1>2. CASE isOpen[s]
  <2>1. /\ clPc' \in [Streams -> {"none", "delete", "slot", "clear", "count", "done"}]
        /\ clPc'[s] = "delete"
        /\ \A t \in Streams : t # s => clPc'[t] = clPc[t]
    BY <1>2 DEF CallClose
  <2>2. LifeInv'
    BY <1>1, <1>2, <2>1 DEF LifeInv
  <2>3. MapInv'
    BY <1>1, <2>1 DEF MapInv
  <2>4. OpenIsRegistered' /\ DeletesOwnEntry'
    BY <1>1, <1>2, <2>1 DEF OpenIsRegistered, DeletesOwnEntry
  <2> QED BY <1>1, <2>1, <2>2, <2>3, <2>4
<1>3. CASE ~isOpen[s]
  <2>1. clPc' = clPc /\ isOpen' = isOpen
    BY <1>1, <1>3 DEF CallClose
  <2> QED BY <1>1, <2>1 DEF LifeInv, MapInv, OpenIsRegistered, DeletesOwnEntry
<1> QED BY <1>2, <1>3

\* A close() that has passed the clearing of a slot goes no way back.
LEMMA StaysCleared ==
  ASSUME Inv, [Next]_vars, NEW k, SlotCleared(k)
  PROVE  SlotCleared(k)'
<1>1. PICK s \in Streams : streamId[s] # Nil /\ SlotOf[streamId[s]] = k
                          /\ clPc[s] \in {"count", "done"} /\ ~isOpen[s]
  BY DEF SlotCleared, Inv, LifeInv
<1>2. streamId'[s] = streamId[s]
  <2>1. CASE RlStore
    BY <1>1, <2>1 DEF RlStore, Inv, TypeInv, ReadLoopInv
  <2>2. CASE ~RlStore
    BY <2>2 DEF Next, StreamEnds, AsyncClose, Closing, CloseDelete, CloseTestSlot,
       CloseClearSlot, CloseCount, RlConnect, RlData, RlClose, ReadLoop, RlStart, RlHit,
       RlFillId, RlFillStream, RlRoute, RlVisit, RlGone, RlEnd, vars
  <2> QED BY <2>1, <2>2
<1>3. clPc'[s] \in {"count", "done"}
  <2>1. ASSUME NEW t \in Streams, StreamEnds(t) \/ AsyncClose(t) \/ Closing(t)
        PROVE  clPc'[s] \in {"count", "done"}
    BY <1>1, <2>1 DEF StreamEnds, AsyncClose, CallClose, Closing, CloseDelete, CloseTestSlot,
       CloseClearSlot, CloseCount, Inv, TypeInv
  <2>2. ASSUME NEW i \in Ids, RlVisit(i)
        PROVE  clPc'[s] \in {"count", "done"}
    BY <1>1, <2>2 DEF RlVisit, CallClose, Inv, TypeInv
  <2>3. CASE UNCHANGED clPc
    BY <1>1, <2>3
  <2> QED BY <2>1, <2>2, <2>3 DEF Next, RlConnect, RlData, RlClose, ReadLoop, RlStore,
          RlStart, RlHit, RlFillId, RlFillStream, RlRoute, RlGone, RlEnd, vars
<1> QED BY <1>1, <1>2, <1>3 DEF SlotCleared

\* The steps that leave alone what the read loop has found, and the slots.
LEMMA HitStays ==
  ASSUME Inv, [Next]_vars, UNCHANGED <<rlPc, rlId, rlStream, slotStream>>
  PROVE  HitInv'
BY StaysCleared DEF HitInv, Inv

\* Every step of the read loop and of every close() keeps the invariant.
LEMMA InvStep == Inv /\ [Next]_vars => Inv'
<1> SUFFICES ASSUME Inv, [Next]_vars PROVE Inv'
  OBVIOUS
<1> USE DEF Inv
<1>0. SlotOf \in [Ids -> Slots] /\ Nil \notin Ids /\ Nil \notin Streams
  BY RegistryAssumption
<1>1. ASSUME NEW s \in Streams, StreamEnds(s) \/ AsyncClose(s) PROVE Inv'
  <2>1. /\ CallClose(s)
        /\ UNCHANGED <<streams, slotId, slotStream, streamId, started, rlPc, rlId,
                       rlStream, todo>>
        /\ asyncs' \subseteq Streams
    BY <1>1 DEF StreamEnds, AsyncClose, TypeInv, cacheVars, rlVars
  <2>2. /\ isOpen' \in [Streams -> BOOLEAN]
        /\ clPc' \in [Streams -> {"none", "delete", "slot", "clear", "count", "done"}]
        /\ LifeInv' /\ MapInv' /\ OpenIsRegistered' /\ DeletesOwnEntry'
        /\ \A t \in Streams : isOpen'[t] => isOpen[t] /\ t # s
    BY <2>1, CloseKeepsInv
  <2>3. TypeInv'
    BY <2>1, <2>2 DEF TypeInv
  <2>4. ReadLoopInv' /\ SlotInv' /\ TeardownInv'
    BY <2>1, <2>2 DEF ReadLoopInv, SlotInv, TeardownInv
  <2>5. HitInv'
    BY <2>1, HitStays
  <2> QED BY <2>2, <2>3, <2>4, <2>5
<1>2. ASSUME NEW s \in Streams, CloseDelete(s) PROVE Inv'
  <2>1. /\ streamId[s] \in Ids /\ streams[streamId[s]] = s /\ ~isOpen[s]
        /\ streams' = [streams EXCEPT ![streamId[s]] = Nil]
        /\ clPc' = [clPc EXCEPT ![s] = "slot"]
        /\ UNCHANGED <<slotId, slotStream, streamId, isOpen, started, asyncs, rlPc,
                       rlId, rlStream, todo>>
    BY <1>0, <1>2 DEF CloseDelete, Unregister, TypeInv, LifeInv, DeletesOwnEntry,
                      cacheVars, rlVars
  <2>2. TypeInv'
    BY <2>1 DEF TypeInv
  <2>3. MapInv'
    BY <2>1 DEF MapInv, TypeInv
  <2>4. OpenIsRegistered' /\ DeletesOwnEntry'
    BY <1>0, <2>1 DEF OpenIsRegistered, DeletesOwnEntry, TypeInv, LifeInv
  <2>5. LifeInv' /\ ReadLoopInv' /\ SlotInv' /\ TeardownInv'
    BY <1>0, <2>1 DEF LifeInv, ReadLoopInv, SlotInv, TeardownInv, TypeInv
  <2>6. HitInv'
    BY <2>1, HitStays
  <2> QED BY <2>2, <2>3, <2>4, <2>5, <2>6
<1>3. ASSUME NEW s \in Streams, CloseTestSlot(s) \/ CloseClearSlot(s) \/ CloseCount(s)
      PROVE  Inv'
  <2>1. /\ clPc[s] \in {"slot", "clear", "count"}
        /\ clPc'[s] \in {"clear", "count", "done"}
        /\ clPc' \in [Streams -> {"none", "delete", "slot", "clear", "count", "done"}]
        /\ \A t \in Streams : t # s => clPc'[t] = clPc[t]
        /\ UNCHANGED <<streams, slotId, streamId, isOpen, started, asyncs, rlPc,
                       rlId, rlStream, todo>>
    BY <1>3 DEF CloseTestSlot, CloseClearSlot, CloseCount, TypeInv, cacheVars, rlVars
  <2>2. streamId[s] \in Ids /\ SlotOf[streamId[s]] \in Slots
    BY <1>0, <2>1 DEF LifeInv, TypeInv
  <2>3. /\ slotStream' \in [Slots -> Streams \cup {Nil}]
        /\ \A k \in Slots : slotStream'[k] # Nil => slotStream'[k] = slotStream[k]
    BY <1>3, <2>2 DEF CloseTestSlot, CloseClearSlot, CloseCount, TypeInv, cacheVars
  <2>4. TypeInv'
    BY <2>1, <2>3 DEF TypeInv
  <2>5. LifeInv' /\ MapInv' /\ OpenIsRegistered' /\ DeletesOwnEntry'
    BY <2>1, <2>2, <1>0 DEF LifeInv, MapInv, OpenIsRegistered, DeletesOwnEntry, TypeInv
  <2>6. SlotInv' /\ ReadLoopInv' /\ TeardownInv'
    BY <2>1, <2>3 DEF SlotInv, ReadLoopInv, TeardownInv
  <2>7. HitInv'
    <3>1. CASE CloseTestSlot(s) \/ CloseCount(s)
      BY <3>1, <2>1, HitStays DEF CloseTestSlot, CloseCount, cacheVars
    <3>2. CASE CloseClearSlot(s)
      <4> SUFFICES ASSUME \/ rlPc' = "hit" /\ slotStream'[SlotOf[rlId]] = Nil
                          \/ rlPc' = "route" /\ rlStream' = Nil
                   PROVE  SlotCleared(SlotOf[rlId])'
        BY <2>1 DEF HitInv
      <4>1. CASE rlPc = "hit" /\ SlotOf[streamId[s]] = SlotOf[rlId]
        <5>1. clPc'[s] = "count" /\ streamId'[s] # Nil
          BY <1>0, <2>1, <2>2, <3>2 DEF CloseClearSlot, TypeInv
        <5> QED BY <2>1, <4>1, <5>1 DEF SlotCleared
      <4>2. CASE ~(rlPc = "hit" /\ SlotOf[streamId[s]] = SlotOf[rlId])
        <5>1. rlPc = "hit" => slotStream'[SlotOf[rlId]] = slotStream[SlotOf[rlId]]
          BY <1>0, <2>2, <3>2, <4>2 DEF CloseClearSlot, TypeInv, ReadLoopInv
        <5>2. SlotCleared(SlotOf[rlId])
          BY <2>1, <5>1 DEF HitInv
        <5> QED BY <2>1, <5>2, StaysCleared
      <4> QED BY <4>1, <4>2
    <3> QED BY <1>3, <3>1, <3>2
  <2> QED BY <2>4, <2>5, <2>6, <2>7
<1>4. ASSUME NEW i \in Ids, RlConnect(i) PROVE Inv'
  <2>1. /\ rlPc = "idle"
        /\ UNCHANGED <<streams, slotId, slotStream, streamId, isOpen, started,
                       clPc, asyncs, todo>>
        /\ \/ UNCHANGED <<rlPc, rlId, rlStream>>
           \/ /\ rlPc' = "store" /\ rlId' = i /\ rlStream' \in Streams
              /\ streamId[rlStream'] = Nil
    BY <1>4 DEF RlConnect, Fresh, cacheVars
  <2>2. TypeInv' /\ ReadLoopInv' /\ SlotInv' /\ HitInv'
    BY <2>1 DEF TypeInv, ReadLoopInv, SlotInv, HitInv
  <2> QED BY <2>1, <2>2
          DEF LifeInv, MapInv, TeardownInv, OpenIsRegistered, DeletesOwnEntry
<1>5. ASSUME RlStore PROVE Inv'
  <2>0. rlId \in Ids /\ rlStream \in Streams /\ streamId[rlStream] = Nil /\ rlPc = "store"
    BY <1>5 DEF RlStore, ReadLoopInv
  <2>1. CASE Free(rlId)
    <3>1. /\ streams[rlId] = Nil
          /\ streams' = [streams EXCEPT ![rlId] = rlStream]
          /\ streamId' = [streamId EXCEPT ![rlStream] = rlId]
          /\ isOpen' = [isOpen EXCEPT ![rlStream] = TRUE]
          /\ rlPc' = "start"
          /\ UNCHANGED <<slotId, slotStream, started, clPc, asyncs, rlId, rlStream, todo>>
      BY <1>5, <2>1 DEF RlStore, Free, cacheVars
    <3>2. ~isOpen[rlStream] /\ clPc[rlStream] = "none"
      BY <2>0 DEF LifeInv
    <3>3. TypeInv'
      BY <2>0, <3>1 DEF TypeInv
    <3>4. LifeInv'
      BY <1>0, <2>0, <3>1, <3>2 DEF LifeInv, TypeInv
    <3>5. MapInv'
      BY <1>0, <2>0, <3>1 DEF MapInv, TypeInv
    <3>6. OpenIsRegistered' /\ DeletesOwnEntry'
      BY <1>0, <2>0, <3>1, <3>2
         DEF OpenIsRegistered, DeletesOwnEntry, TypeInv, LifeInv
    <3>7. SlotInv'
      BY <1>0, <2>0, <3>1 DEF SlotInv, TypeInv
    <3>8. ReadLoopInv' /\ HitInv' /\ TeardownInv'
      BY <2>0, <3>1 DEF ReadLoopInv, HitInv, TeardownInv
    <3> QED BY <3>3, <3>4, <3>5, <3>6, <3>7, <3>8
  <2>2. CASE ~Free(rlId)
    <3>1. /\ rlPc' = "idle" /\ rlId' = Nil /\ rlStream' = Nil
          /\ UNCHANGED <<streams, streamId, isOpen, slotId, slotStream, started,
                         clPc, asyncs, todo>>
      BY <1>5, <2>2 DEF RlStore, Idle, cacheVars
    <3> QED BY <2>0, <3>1 DEF TypeInv, ReadLoopInv, LifeInv, MapInv, SlotInv, HitInv,
                         TeardownInv, OpenIsRegistered, DeletesOwnEntry
  <2> QED BY <2>1, <2>2
<1>6. ASSUME RlStart PROVE Inv'
  BY <1>6 DEF RlStart, Idle, cacheVars, TypeInv, ReadLoopInv, LifeInv, MapInv, SlotInv,
              HitInv, TeardownInv, OpenIsRegistered, DeletesOwnEntry
<1>7. ASSUME NEW i \in Ids, RlData(i) PROVE Inv'
  <2>1. /\ rlPc = "idle"
        /\ UNCHANGED <<streams, slotId, slotStream, streamId, isOpen, started,
                       clPc, asyncs, todo>>
        /\ \/ /\ Hit(i)
              /\ rlId' = i /\ rlStream' = rlStream /\ rlPc' = "hit"
           \/ /\ streams[i] # Nil
              /\ rlId' = i /\ rlStream' = streams[i] /\ rlPc' = "fillId"
           \/ UNCHANGED <<rlId, rlStream, rlPc>>
    BY <1>7 DEF RlData, cacheVars
  <2>2. SlotOf[i] \in Slots
    BY <1>0
  <2>3. TypeInv'
    BY <2>1, <2>2 DEF TypeInv
  <2>4. ReadLoopInv'
    BY <2>1, <2>2 DEF ReadLoopInv, Hit, TypeInv, SlotInv, MapInv
  <2>5. SlotInv' /\ HitInv'
    BY <2>1 DEF SlotInv, Hit, HitInv
  <2> QED BY <2>1, <2>3, <2>4, <2>5
          DEF LifeInv, MapInv, TeardownInv, OpenIsRegistered, DeletesOwnEntry
<1>8. ASSUME RlFillId PROVE Inv'
  <2>1. rlPc = "fillId" /\ rlId \in Ids /\ SlotOf[rlId] \in Slots
    BY <1>0, <1>8 DEF RlFillId, ReadLoopInv
  <2>2. TypeInv' /\ ReadLoopInv' /\ HitInv'
    BY <1>8, <2>1 DEF RlFillId, TypeInv, ReadLoopInv, HitInv
  <2>3. SlotInv'
    BY <1>8, <2>1 DEF RlFillId, TypeInv, SlotInv
  <2> QED BY <1>8, <2>2, <2>3
          DEF RlFillId, LifeInv, MapInv, TeardownInv, OpenIsRegistered, DeletesOwnEntry
<1>9. ASSUME RlFillStream PROVE Inv'
  <2>1. /\ rlPc = "fillStream" /\ rlId \in Ids /\ SlotOf[rlId] \in Slots
        /\ rlStream \in Streams /\ streamId[rlStream] = rlId
        /\ slotId[SlotOf[rlId]] = rlId
    BY <1>0, <1>9 DEF RlFillStream, ReadLoopInv, TypeInv
  <2>2. TypeInv' /\ ReadLoopInv' /\ HitInv'
    BY <1>0, <1>9, <2>1 DEF RlFillStream, TypeInv, ReadLoopInv, HitInv
  <2>3. SlotInv'
    BY <1>0, <1>9, <2>1 DEF RlFillStream, TypeInv, SlotInv
  <2> QED BY <1>9, <2>2, <2>3
          DEF RlFillStream, LifeInv, MapInv, TeardownInv, OpenIsRegistered, DeletesOwnEntry
<1>10. ASSUME RlRoute PROVE Inv'
  BY <1>10 DEF RlRoute, Idle, cacheVars, TypeInv, ReadLoopInv, LifeInv, MapInv, SlotInv,
               HitInv, TeardownInv, OpenIsRegistered, DeletesOwnEntry
<1>11. ASSUME NEW i \in Ids, RlClose(i) PROVE Inv'
  <2>1. asyncs' \subseteq Streams
    BY <1>11 DEF RlClose, TypeInv
  <2> QED BY <1>11, <2>1 DEF RlClose, cacheVars, rlVars, TypeInv, ReadLoopInv, LifeInv,
               MapInv, SlotInv, TeardownInv, OpenIsRegistered, DeletesOwnEntry, HitInv
<1>12. ASSUME RlEnd PROVE Inv'
  <2>1. TypeInv' /\ ReadLoopInv' /\ SlotInv' /\ HitInv'
    BY <1>12 DEF RlEnd, ToVisit, cacheVars, TypeInv, ReadLoopInv, SlotInv, HitInv
  <2>2. TeardownInv'
    BY <1>0, <1>12 DEF RlEnd, ToVisit, TypeInv, LifeInv, TeardownInv
  <2> QED BY <1>12, <2>1, <2>2
          DEF RlEnd, LifeInv, MapInv, OpenIsRegistered, DeletesOwnEntry
<1>13. ASSUME NEW i \in Ids, RlVisit(i) PROVE Inv'
  <2>0. /\ rlPc = "range" /\ i \in todo /\ todo' = todo \ {i}
        /\ UNCHANGED <<streams, slotId, slotStream, streamId, started, asyncs,
                       rlPc, rlId>>
    BY <1>13 DEF RlVisit, cacheVars
  <2>1. CASE streams[i] # Nil
    <3> DEFINE s == streams[i]
    <3>1. s \in Streams /\ CallClose(s) /\ rlStream' \in Streams \cup {Nil}
      BY <1>13, <2>1 DEF RlVisit, TypeInv
    <3> HIDE DEF s
    <3>2. /\ isOpen' \in [Streams -> BOOLEAN]
          /\ clPc' \in [Streams -> {"none", "delete", "slot", "clear", "count", "done"}]
          /\ LifeInv' /\ MapInv' /\ OpenIsRegistered' /\ DeletesOwnEntry'
          /\ \A t \in Streams : isOpen'[t] => isOpen[t] /\ t # s
      BY <2>0, <3>1, CloseKeepsInv
    <3>3. TypeInv' /\ ReadLoopInv' /\ SlotInv' /\ HitInv'
      BY <2>0, <3>1, <3>2 DEF TypeInv, ReadLoopInv, SlotInv, HitInv
    <3>4. TeardownInv'
      BY <2>0, <3>2 DEF s, TeardownInv, OpenIsRegistered
    <3> QED BY <3>2, <3>3, <3>4
  <2>2. CASE streams[i] = Nil
    <3>1. rlStream' = Nil /\ UNCHANGED <<isOpen, clPc>>
      BY <1>13, <2>2 DEF RlVisit
    <3>2. TeardownInv'
      BY <1>0, <2>0, <2>2, <3>1 DEF TeardownInv, OpenIsRegistered
    <3> QED BY <2>0, <3>1, <3>2
            DEF TypeInv, ReadLoopInv, LifeInv, MapInv, SlotInv, HitInv, OpenIsRegistered,
                DeletesOwnEntry
  <2> QED BY <2>1, <2>2
<1>14. ASSUME RlGone PROVE Inv'
  BY <1>14 DEF RlGone, cacheVars, TypeInv, ReadLoopInv, LifeInv, MapInv, SlotInv,
               HitInv, TeardownInv, OpenIsRegistered, DeletesOwnEntry
<1>15. ASSUME RlHit PROVE Inv'
  <2>1. /\ rlPc = "hit" /\ rlPc' = "route" /\ rlId \in Ids /\ SlotOf[rlId] \in Slots
        /\ rlStream' = slotStream[SlotOf[rlId]] /\ slotId[SlotOf[rlId]] = rlId
        /\ UNCHANGED <<streams, slotId, slotStream, streamId, isOpen, started, clPc,
                       asyncs, rlId, todo>>
    BY <1>0, <1>15 DEF RlHit, ReadLoopInv, cacheVars
  <2>2. TypeInv' /\ SlotInv'
    BY <2>1 DEF TypeInv, SlotInv
  <2>3. ReadLoopInv'
    BY <2>1 DEF TypeInv, SlotInv, ReadLoopInv
  <2>4. HitInv'
    BY <2>1, StaysCleared DEF HitInv
  <2> QED BY <2>1, <2>2, <2>3, <2>4
          DEF LifeInv, MapInv, TeardownInv, OpenIsRegistered, DeletesOwnEntry
<1>16. ASSUME UNCHANGED vars PROVE Inv'
  <2>1. HitInv'
    BY <1>16, HitStays DEF vars
  <2> QED BY <1>16, <2>1 DEF vars, TypeInv, ReadLoopInv, LifeInv, MapInv, SlotInv,
          TeardownInv, OpenIsRegistered, DeletesOwnEntry
<1> QED BY <1>1, <1>2, <1>3, <1>4, <1>5, <1>6, <1>7, <1>8, <1>9, <1>10, <1>11,
           <1>12, <1>13, <1>14, <1>15, <1>16 DEF Next, Closing, ReadLoop

\* The invariant holds for ever.
LEMMA InvAlways == Safety => []Inv
BY InvInit, InvStep, PTL DEF Safety

-------------------------------------------------------------------------------
(* Counting the streams *)

\* The streams that streamCount stands for: registered once, and their close() has
\* not lowered the count yet.
Live == {s \in Streams : streamId[s] # Nil /\ clPc[s] # "done"}

\* A registered stream is open until its close() begins.
OpenUntilClosed ==
  \A s \in Streams : streamId[s] # Nil /\ clPc[s] = "none" => isOpen[s]

\* streamCount is the number of live streams, but for the one the read loop has
\* registered and not counted; below the limit there is room for that one.
CountInv ==
  /\ streamCount \in Int /\ IsFiniteSet(Live)
  /\ Cardinality(Live) = IF rlPc = "start" THEN streamCount + 1 ELSE streamCount
  /\ streamCount <= MaxStreams
  /\ rlPc \in {"store", "start"} => streamCount < MaxStreams

\* A new connection has no streams to count.
LEMMA CountInit == Init => CountInv /\ OpenUntilClosed
<1> SUFFICES ASSUME Init PROVE CountInv /\ OpenUntilClosed
  OBVIOUS
<1>1. Live = {}
  BY DEF Init, Live
<1> QED BY <1>1, FS_EmptySet, RegistryAssumption DEF Init, CountInv, OpenUntilClosed

\* Only LoadOrStore registers a stream, opens it, and makes it live.
LEMMA OpenStep == Inv /\ OpenUntilClosed /\ [Next]_vars => OpenUntilClosed'
<1> SUFFICES ASSUME Inv, OpenUntilClosed, [Next]_vars PROVE OpenUntilClosed'
  OBVIOUS
<1> USE DEF OpenUntilClosed, Inv, TypeInv
<1>1. ASSUME NEW s \in Streams, StreamEnds(s) \/ AsyncClose(s) PROVE OpenUntilClosed'
  BY <1>1 DEF StreamEnds, AsyncClose, CallClose
<1>2. ASSUME NEW s \in Streams, Closing(s) PROVE OpenUntilClosed'
  BY <1>2 DEF Closing, CloseDelete, CloseTestSlot, CloseClearSlot, CloseCount
<1>3. ASSUME NEW i \in Ids, RlConnect(i) \/ RlData(i) \/ RlClose(i) PROVE OpenUntilClosed'
  BY <1>3 DEF RlConnect, RlData, RlClose
<1>4. CASE RlStore
  BY <1>4 DEF RlStore, ReadLoopInv
<1>5. CASE RlStart \/ RlHit \/ RlFillId \/ RlFillStream \/ RlRoute \/ RlGone \/ RlEnd
           \/ UNCHANGED vars
  BY <1>5 DEF RlStart, RlHit, RlFillId, RlFillStream, RlRoute, RlGone, RlEnd, vars
<1>6. ASSUME NEW i \in Ids, RlVisit(i) PROVE OpenUntilClosed'
  BY <1>6 DEF RlVisit, CallClose
<1> QED BY <1>1, <1>2, <1>3, <1>4, <1>5, <1>6 DEF Next, ReadLoop

\* The count follows the live streams, and the limit holds although it is tested two
\* steps before the count is raised: nobody else raises it.
LEMMA CountStep == Inv /\ CountInv /\ [Next]_vars => CountInv'
<1> SUFFICES ASSUME Inv, CountInv, [Next]_vars PROVE CountInv'
  OBVIOUS
<1> USE DEF Inv, TypeInv
<1>0. MaxStreams \in Nat /\ Nil \notin Ids
  BY RegistryAssumption
<1>1. ASSUME UNCHANGED <<streamCount, rlPc>>, Live' = Live PROVE CountInv'
  BY <1>1 DEF CountInv
<1>2. ASSUME NEW s \in Streams, StreamEnds(s) \/ AsyncClose(s) PROVE CountInv'
  <2>1. Live' = Live /\ UNCHANGED <<streamCount, rlPc>>
    BY <1>2 DEF StreamEnds, AsyncClose, CallClose, Live, LifeInv, rlVars
  <2> QED BY <1>1, <2>1
<1>3. ASSUME NEW s \in Streams, CloseDelete(s) \/ CloseTestSlot(s) \/ CloseClearSlot(s)
      PROVE  CountInv'
  <2>1. Live' = Live /\ UNCHANGED <<streamCount, rlPc>>
    BY <1>3 DEF CloseDelete, CloseTestSlot, CloseClearSlot, Live, rlVars
  <2> QED BY <1>1, <2>1
<1>4. ASSUME NEW s \in Streams, CloseCount(s) PROVE CountInv'
  <2>1. Live' = Live \ {s} /\ s \in Live /\ streamCount' = streamCount - 1 /\ rlPc' = rlPc
    BY <1>4 DEF CloseCount, Decremented, Live, LifeInv, rlVars
  <2>2. IsFiniteSet(Live \ {s}) /\ Cardinality(Live \ {s}) = Cardinality(Live) - 1
    BY <2>1, FS_RemoveElement DEF CountInv
  <2> QED BY <1>0, <2>1, <2>2 DEF CountInv
<1>5. ASSUME NEW i \in Ids, RlConnect(i) PROVE CountInv'
  <2>1. /\ Live' = Live /\ streamCount' = streamCount /\ rlPc = "idle"
        /\ rlPc' = rlPc \/ (rlPc' = "store" /\ streamCount < MaxStreams)
    BY <1>5 DEF RlConnect, BelowLimit, Live
  <2> QED BY <2>1 DEF CountInv
<1>6. CASE RlStore
  <2>1. CASE Free(rlId)
    <3>1. /\ Live' = Live \cup {rlStream} /\ rlStream \notin Live
          /\ rlPc = "store" /\ rlPc' = "start" /\ streamCount' = streamCount
      BY <1>0, <1>6, <2>1 DEF RlStore, Free, Live, ReadLoopInv, LifeInv
    <3>2. IsFiniteSet(Live') /\ Cardinality(Live') = Cardinality(Live) + 1
      BY <3>1, FS_AddElement DEF CountInv
    <3> QED BY <3>1, <3>2 DEF CountInv
  <2>2. CASE ~Free(rlId)
    <3>1. Live' = Live /\ rlPc = "store" /\ rlPc' = "idle" /\ streamCount' = streamCount
      BY <1>6, <2>2 DEF RlStore, Idle, Live
    <3> QED BY <3>1 DEF CountInv
  <2> QED BY <2>1, <2>2
<1>7. CASE RlStart
  <2>1. Live' = Live /\ rlPc = "start" /\ rlPc' = "idle" /\ streamCount' = streamCount + 1
    BY <1>7 DEF RlStart, Idle, Live
  <2> QED BY <1>0, <2>1 DEF CountInv
<1>8. ASSUME NEW i \in Ids, RlData(i) \/ RlClose(i) \/ RlVisit(i) PROVE CountInv'
  <2>1. /\ Live' = Live /\ streamCount' = streamCount
        /\ rlPc \notin {"store", "start"} /\ rlPc' \notin {"store", "start"}
    BY <1>8 DEF RlData, RlClose, RlVisit, CallClose, Live, LifeInv, rlVars
  <2> QED BY <2>1 DEF CountInv
<1>9. CASE RlHit \/ RlFillId \/ RlFillStream \/ RlRoute \/ RlGone \/ RlEnd
  <2>1. /\ Live' = Live /\ streamCount' = streamCount
        /\ rlPc \notin {"store", "start"} /\ rlPc' \notin {"store", "start"}
    BY <1>9 DEF RlHit, RlFillId, RlFillStream, RlRoute, RlGone, RlEnd, Idle, Live
  <2> QED BY <2>1 DEF CountInv
<1>10. CASE UNCHANGED vars
  BY <1>1, <1>10 DEF vars, Live
<1> QED BY <1>2, <1>3, <1>4, <1>5, <1>6, <1>7, <1>8, <1>9, <1>10
        DEF Next, Closing, ReadLoop

\* The count is right for ever.
LEMMA CountAlways == Safety => [](Inv /\ CountInv /\ OpenUntilClosed)
BY InvInit, InvStep, CountInit, CountStep, OpenStep, PTL DEF Safety

\* Streams are registered under one id each, and those that are registered are live.
LEMMA RegisteredAreLive ==
  ASSUME Inv, CountInv
  PROVE  /\ [i \in Registered |-> streams[i]] \in Injection(Registered, Live)
         /\ IsFiniteSet(Registered) /\ Cardinality(Registered) \in Nat
         /\ Cardinality(Registered) <= Cardinality(Live)
<1> DEFINE f == [i \in Registered |-> streams[i]]
<1>1. f \in [Registered -> Live]
  BY RegistryAssumption DEF Inv, TypeInv, MapInv, LifeInv, Registered, Live
<1>2. \A i, j \in Registered : f[i] = f[j] => i = j
  BY DEF Inv, MapInv, Registered
<1>3. f \in Injection(Registered, Live)
  BY <1>1, <1>2 DEF Injection, IsInjective
<1>4. IsFiniteSet(Live)
  BY DEF CountInv
<1> HIDE DEF f
<1>5. IsFiniteSet(Registered) /\ Cardinality(Registered) <= Cardinality(Live)
  BY <1>3, <1>4, FS_Injection
<1> QED BY <1>3, <1>5, FS_CardinalityType DEF f

-------------------------------------------------------------------------------
(* Theorems *)

\* However often ids are reused and whoever closes streams, no stream is open
\* that the connection's map does not hold under its id.
THEOREM OpenStreamsRegistered == Safety => []OpenIsRegistered
<1>1. Inv => OpenIsRegistered
  BY DEF Inv
<1> QED BY <1>1, InvAlways, PTL

\* deleteWispStream, which deletes by id, only ever deletes the entry of the
\* stream that is being closed.
THEOREM CloseDeletesOwn == Safety => []DeletesOwnEntry
<1>1. Inv => DeletesOwnEntry
  BY DEF Inv
<1> QED BY <1>1, InvAlways, PTL

\* No packet is ever delivered to a stream other than the one registered under the
\* packet's id, in spite of the unlocked cache, whose slot.stream is read twice: the
\* second read finds nothing only after a close() has cleared the slot
\* (wisp-connection.go: handleDataPacket, deleteWispStream).
THEOREM PacketsRoutedRight == Safety => []RoutedRight
<1>1. Inv => RoutedRight
  BY DEF Inv, TypeInv, ReadLoopInv, HitInv, OpenIsRegistered, RoutedRight
<1> QED BY <1>1, InvAlways, PTL

\* A connection never has more streams than MaxConcurrentStreamsPerConnection,
\* neither in its map nor by its count, although test and increment are apart.
THEOREM LimitHolds == Safety => []StreamLimit
<1>1. Inv /\ CountInv => StreamLimit
  <2> SUFFICES ASSUME Inv, CountInv PROVE StreamLimit
    OBVIOUS
  <2>1. Cardinality(Registered) \in Nat /\ Cardinality(Registered) <= Cardinality(Live)
    BY RegisteredAreLive
  <2> QED BY <2>1, RegistryAssumption DEF CountInv, StreamLimit
<1> QED BY <1>1, CountAlways, PTL

\* Whenever no packet and no close() is under way streamCount is exactly the number
\* of registered streams: however streams end, the limit does not drift.
THEOREM CountDoesNotDrift == Safety => []CountSettles
<1>1. Inv /\ CountInv /\ OpenUntilClosed => CountSettles
  <2> SUFFICES ASSUME Inv, CountInv, OpenUntilClosed, rlPc \in {"idle", "gone"},
                      NoCloseRunning
               PROVE  streamCount = Cardinality(Registered)
    BY DEF CountSettles
  <2> DEFINE f == [i \in Registered |-> streams[i]]
  <2>1. f \in Injection(Registered, Live) /\ IsFiniteSet(Live)
    BY RegisteredAreLive DEF CountInv
  <2>2. \A s \in Live : streamId[s] \in Registered /\ f[streamId[s]] = s
    BY RegistryAssumption DEF Live, NoCloseRunning, OpenUntilClosed, Inv, TypeInv,
       OpenIsRegistered, Registered
  <2>3. f \in Surjection(Registered, Live)
    BY <2>1, <2>2 DEF Surjection, Injection
  <2> HIDE DEF f
  <2>4. Cardinality(Registered) = Cardinality(Live)
    BY <2>1, <2>3, FS_Injection
  <2> QED BY <2>4 DEF CountInv
<1> QED BY <1>1, CountAlways, PTL

\* Once deleteAllWispStreams has run, no stream of the connection is open and
\* none stays registered.
THEOREM TeardownLeavesNone == Safety => []NothingLeftOpen
<1>1. Inv => NothingLeftOpen
  BY RegistryAssumption DEF Inv, TeardownInv, MapInv, TypeInv, NothingLeftOpen
<1> QED BY <1>1, InvAlways, PTL
===============================================================================
