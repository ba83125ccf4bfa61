--------------------------- MODULE AdmissionProofs ---------------------------
(***************************************************************************)
(* Proofs about Admission, for any number of requests and of dials and any *)
(* caps.  The counters are related to the sets of their holders; that the  *)
(* caps hold then comes from LoadedBelow: what a compare-and-swap compares *)
(* with was below the cap when it was loaded.                              *)
(***************************************************************************)
EXTENDS Admission, FiniteSetTheorems, TLAPS

TypeInv ==
  /\ connections \in Nat /\ syns \in Nat
  /\ pc \in [Users -> {"off", "load", "cas", "admitted", "live", "teardown",
                       "checks", "dial"}]
  /\ cur \in [Users -> Nat]
  /\ synAcquired \in [Dials -> BOOLEAN]

Below == connections <= MaxConns /\ syns <= MaxSyns

LoadedBelow ==
  /\ \A c \in Conns : pc[c] = "cas" => cur[c] < MaxConns
  /\ \A d \in Dials : pc[d] = "cas" => cur[d] < MaxSyns

\* Outside the dial a stream has no slot.
SlotOnlyInDial == \A d \in Dials : synAcquired[d] => pc[d] = "dial"

Inv == TypeInv /\ CountExact /\ Below /\ LoadedBelow /\ SlotOnlyInDial

-------------------------------------------------------------------------------

\* The holders are finitely many, so each counter's value is a number.
LEMMA HoldersFinite == IsFiniteSet(Admitted) /\ IsFiniteSet(InFlight)
  <1>1. Admitted \subseteq Conns /\ InFlight \subseteq Dials
    BY DEF Admitted, InFlight
  <1> QED
    BY <1>1, FS_Subset, AdmissionAssumption

\* Taking a slot adds one holder.
LEMMA OneMore == ASSUME NEW S, IsFiniteSet(S), NEW x, x \notin S
                 PROVE Cardinality(S \cup {x}) = Cardinality(S) + 1
  BY FS_AddElement

\* Giving a slot back removes one, and there was one to remove.
LEMMA OneLess == ASSUME NEW S, IsFiniteSet(S), NEW x, x \in S
                 PROVE /\ Cardinality(S \ {x}) = Cardinality(S) - 1
                       /\ Cardinality(S) >= 1
                       /\ Cardinality(S) \in Nat
  <1>1. /\ IsFiniteSet(S \ {x})
        /\ Cardinality(S \ {x}) = Cardinality(S) - 1
    BY FS_RemoveElement
  <1>2. Cardinality(S \ {x}) \in Nat /\ Cardinality(S) \in Nat
    BY <1>1, FS_CardinalityType
  <1> QED
    BY <1>1, <1>2

LEMMA InitInv == Init => Inv
  <1> SUFFICES ASSUME Init PROVE Inv
    OBVIOUS
  <1> USE DEF Init
  <1>1. TypeInv /\ LoadedBelow /\ SlotOnlyInDial
    BY DEF TypeInv, LoadedBelow, SlotOnlyInDial, Users
  <1>2. Admitted = {} /\ InFlight = {}
    BY DEF Admitted, InFlight, Users
  <1>3. CountExact
    BY <1>2, FS_EmptySet DEF CountExact
  <1>4. Below
    BY AdmissionAssumption DEF Below
  <1> QED
    BY <1>1, <1>3, <1>4 DEF Inv

\* A step of a request or of a connection.
LEMMA ConnStepInv == ASSUME Inv, NEW c \in Conns, ConnStep(c) PROVE Inv'
  <1> USE DEF Inv, TypeInv, Users, Goto, Load, Full, Swapped, Minus
  <1>1. c \notin Dials /\ c \in Users /\ \A d \in Dials : d # c
    BY AdmissionAssumption
  <1>2. InFlight' = InFlight /\ syns' = syns /\ synAcquired' = synAcquired
    BY <1>1 DEF ConnStep, Request, ConnLoad, ConnCas, TurnedAway, Upgraded, ReadLoopEnds,
                TornDown, InFlight
  <1>3. TypeInv'
    <2>1. CASE TurnedAway(c) \/ TornDown(c)
      <3>1. c \in Admitted
        BY <2>1 DEF TurnedAway, TornDown, Admitted
      <3>2. connections >= 1
        BY <3>1, HoldersFinite, OneLess DEF CountExact
      <3> QED
        BY <2>1, <3>2, <1>1 DEF TurnedAway, TornDown
    <2>2. CASE Request(c) \/ ConnLoad(c) \/ ConnCas(c) \/ Upgraded(c) \/ ReadLoopEnds(c)
      BY <2>2, <1>1 DEF Request, ConnLoad, ConnCas, Upgraded, ReadLoopEnds
    <2> QED
      BY <2>1, <2>2 DEF ConnStep
  <1>4. LoadedBelow' /\ SlotOnlyInDial'
    BY <1>1, <1>2, AdmissionAssumption
    DEF ConnStep, Request, ConnLoad, ConnCas, TurnedAway, Upgraded, ReadLoopEnds,
        TornDown, LoadedBelow, SlotOnlyInDial
  <1>5. connections' = Cardinality(Admitted') /\ connections' <= MaxConns
    <2>1. CASE TurnedAway(c) \/ TornDown(c)
      <3>1. c \in Admitted /\ Admitted' = Admitted \ {c} /\ connections' = connections - 1
        BY <2>1 DEF TurnedAway, TornDown, Admitted
      <3> QED
        BY <3>1, HoldersFinite, OneLess, AdmissionAssumption DEF CountExact, Below
    <2>2. CASE ConnCas(c) /\ connections = cur[c]
      <3>1. c \notin Admitted /\ Admitted' = Admitted \cup {c} /\ connections' = connections + 1
        BY <2>2 DEF ConnCas, Admitted
      <3>2. connections < MaxConns
        BY <2>2 DEF ConnCas, LoadedBelow
      <3> QED
        BY <3>1, <3>2, HoldersFinite, OneMore, AdmissionAssumption DEF CountExact
    <2>3. CASE \/ Request(c) \/ ConnLoad(c) \/ Upgraded(c) \/ ReadLoopEnds(c)
               \/ ConnCas(c) /\ connections # cur[c]
      <3>1. Admitted' = Admitted /\ connections' = connections
        BY <2>3 DEF Request, ConnLoad, Upgraded, ReadLoopEnds, ConnCas, Admitted
      <3> QED
        BY <3>1 DEF CountExact, Below
    <2> QED
      BY <2>1, <2>2, <2>3 DEF ConnStep
  <1>6. CountExact' /\ Below'
    BY <1>2, <1>5 DEF CountExact, Below
  <1> QED
    BY <1>3, <1>4, <1>6

\* A step of a handleConnect goroutine.
LEMMA DialStepInv == ASSUME Inv, NEW d \in Dials, DialStep(d) PROVE Inv'
  <1> USE DEF Inv, TypeInv, Users, Goto, Load, Full, Swapped, Minus, GivesBack
  <1>1. d \notin Conns /\ d \in Users /\ \A c \in Conns : c # d
    BY AdmissionAssumption
  <1>2. Admitted' = Admitted /\ connections' = connections
    BY <1>1 DEF DialStep, StreamStarts, Blocked, WantsTcp, WantsOther, SynLoad, SynCas,
                DialEnds, Admitted
  <1>3. TypeInv'
    <2>1. CASE DialEnds(d) /\ synAcquired[d]
      <3>1. d \in InFlight
        BY <2>1 DEF DialEnds, InFlight
      <3>2. syns >= 1
        BY <3>1, HoldersFinite, OneLess DEF CountExact
      <3> QED
        BY <2>1, <3>2, <1>1 DEF DialEnds
    <2>2. CASE DialEnds(d) /\ ~synAcquired[d]
      BY <2>2, <1>1 DEF DialEnds
    <2>3. CASE SynCas(d)
      <3>1. (syns = cur[d]) \in BOOLEAN
        OBVIOUS
      <3>2. synAcquired' \in [Dials -> BOOLEAN]
        BY <2>3, <3>1 DEF SynCas
      <3> QED
        BY <2>3, <3>2, <1>1 DEF SynCas
    <2>4. CASE StreamStarts(d) \/ Blocked(d) \/ WantsTcp(d) \/ WantsOther(d) \/ SynLoad(d)
      BY <2>4, <1>1 DEF StreamStarts, Blocked, WantsTcp, WantsOther, SynLoad
    <2> HIDE DEF TypeInv
    <2> QED
      BY <2>1, <2>2, <2>3, <2>4 DEF DialStep
  <1>4. LoadedBelow' /\ SlotOnlyInDial'
    BY <1>1, AdmissionAssumption
    DEF DialStep, StreamStarts, Blocked, WantsTcp, WantsOther, SynLoad, SynCas,
        DialEnds, LoadedBelow, SlotOnlyInDial
  <1>5. syns' = Cardinality(InFlight') /\ syns' <= MaxSyns
    <2>1. CASE DialEnds(d) /\ synAcquired[d]
      <3>1. d \in InFlight /\ InFlight' = InFlight \ {d} /\ syns' = syns - 1
        BY <2>1 DEF DialEnds, InFlight
      <3> QED
        BY <3>1, HoldersFinite, OneLess, AdmissionAssumption DEF CountExact, Below
    <2>2. CASE SynCas(d) /\ syns = cur[d]
      <3>1. d \notin InFlight /\ InFlight' = InFlight \cup {d} /\ syns' = syns + 1
        BY <2>2 DEF SynCas, InFlight
      <3>2. syns < MaxSyns
        BY <2>2 DEF SynCas, LoadedBelow
      <3> QED
        BY <3>1, <3>2, HoldersFinite, OneMore, AdmissionAssumption DEF CountExact
    <2>3. CASE \/ StreamStarts(d) \/ Blocked(d) \/ WantsTcp(d) \/ WantsOther(d) \/ SynLoad(d)
               \/ SynCas(d) /\ syns # cur[d]
               \/ DialEnds(d) /\ ~synAcquired[d]
      <3>1. InFlight' = InFlight /\ syns' = syns
        BY <2>3 DEF StreamStarts, Blocked, WantsTcp, WantsOther, SynLoad, SynCas, DialEnds,
                    InFlight, SlotOnlyInDial
      <3> QED
        BY <3>1 DEF CountExact, Below
    <2> QED
      BY <2>1, <2>2, <2>3 DEF DialStep
  <1>6. CountExact' /\ Below'
    BY <1>2, <1>5 DEF CountExact, Below
  <1> QED
    BY <1>3, <1>4, <1>6

LEMMA StutterInv == ASSUME Inv, UNCHANGED vars PROVE Inv'
  BY DEF Inv, TypeInv, CountExact, Below, LoadedBelow, SlotOnlyInDial, Admitted, InFlight, vars

\* The inductive invariant.
THEOREM AlwaysInv == Spec => []Inv
  <1>1. Inv /\ [Next]_vars => Inv'
    BY ConnStepInv, DialStepInv, StutterInv DEF Next
  <1> QED
    BY InitInv, <1>1, PTL DEF Spec

\* Each Semaphore's counter is the number of its holders, at every moment and for
\* any number of requests, connections and dials.
THEOREM CountsAreExact == Spec => []CountExact
  BY AlwaysInv, PTL DEF Inv

\* The counters stay between zero and their caps, and the other variables in
\* their types.
THEOREM TypeCorrect == Spec => []TypeOK
  <1>1. Inv => TypeOK
    BY AdmissionAssumption DEF Inv, TypeInv, Below, TypeOK
  <1> QED
    BY AlwaysInv, <1>1, PTL

\* No more than MaxConcurrentConnections connections and MaxInFlightSyns dials
\* ever hold a slot, however their TryAcquires interleave.
THEOREM CapsHold == Spec => []WithinCaps
  <1>1. Inv => WithinCaps
    BY DEF Inv, CountExact, Below, WithinCaps
  <1> QED
    BY AlwaysInv, <1>1, PTL

-------------------------------------------------------------------------------
(* The counters implement Slots *)

\* The instances of Slots count as this module does.
LEMMA SameCount == ASSUME NEW S
                   PROVE /\ ConnSlots!Cardinality(S) = Cardinality(S)
                         /\ SynSlots!Cardinality(S) = Cardinality(S)
  BY DEF ConnSlots!Cardinality, SynSlots!Cardinality, Cardinality

\* The Connections semaphore is an atomic set of MaxConcurrentConnections slots:
\* the load that refuses and the compare-and-swap that grants are each the moment
\* at which the whole TryAcquire happens.
THEOREM ConnectionsImplementSlots == Spec => ConnectionsAreSlots
  <1> DEFINE st == [c \in Conns |-> IF c \in Admitted THEN "in"
                                    ELSE IF pc[c] \in {"load", "cas"} THEN "asking" ELSE "out"]
  <1>1. Init => ConnSlots!Init
    BY DEF Init, ConnSlots!Init, Admitted, Users
  <1>2. ASSUME Inv, Inv', [Next]_vars PROVE [ConnSlots!Next]_st
    <2>1. ConnSlots!Inside = Admitted
      BY DEF ConnSlots!Inside, Admitted
    <2>2. ASSUME NEW c \in Conns, ConnStep(c) PROVE [ConnSlots!Next]_st
      <3> USE DEF Goto, Load, Full, Swapped, Inv, TypeInv, Users
      <3>1. CASE Request(c)
        <4>1. ConnSlots!Ask(c)
          BY <1>2, <3>1 DEF Request, ConnSlots!Ask, ConnSlots!Move, Admitted
        <4> QED
          BY <4>1 DEF ConnSlots!Next
      <3>2. CASE ConnLoad(c) /\ connections >= MaxConns
        <4>1. Cardinality(Admitted) = MaxConns
          BY <1>2, <3>2, AdmissionAssumption DEF CountExact, Below
        <4>2. ConnSlots!Move(c, "asking", "out")
          BY <1>2, <3>2 DEF ConnLoad, ConnSlots!Move, Admitted
        <4> HIDE DEF Admitted
        <4>3. ConnSlots!Refuse(c)
          BY <4>1, <4>2, <2>1, SameCount DEF ConnSlots!Refuse
        <4> QED
          BY <4>3 DEF ConnSlots!Next
      <3>3. CASE ConnCas(c) /\ connections = cur[c]
        <4>1. Cardinality(Admitted) < MaxConns
          BY <1>2, <3>3 DEF ConnCas, CountExact, LoadedBelow
        <4>2. ConnSlots!Move(c, "asking", "in")
          BY <1>2, <3>3 DEF ConnCas, ConnSlots!Move, Admitted
        <4> HIDE DEF Admitted
        <4>3. ConnSlots!Grant(c)
          BY <4>1, <4>2, <2>1, SameCount DEF ConnSlots!Grant
        <4> QED
          BY <4>3 DEF ConnSlots!Next
      <3>4. CASE TurnedAway(c) \/ TornDown(c)
        <4>1. ConnSlots!Leave(c)
          BY <1>2, <3>4 DEF TurnedAway, TornDown, ConnSlots!Leave, ConnSlots!Move, Admitted
        <4> QED
          BY <4>1 DEF ConnSlots!Next
      <3>5. CASE \/ ConnLoad(c) /\ ~(connections >= MaxConns)
                 \/ ConnCas(c) /\ connections # cur[c]
                 \/ Upgraded(c) \/ ReadLoopEnds(c)
        BY <1>2, <3>5 DEF ConnLoad, ConnCas, Upgraded, ReadLoopEnds, Admitted
      <3> QED
        BY <2>2, <3>1, <3>2, <3>3, <3>4, <3>5 DEF ConnStep
    <2>3. ASSUME NEW d \in Dials, DialStep(d) PROVE st' = st
      <3>1. \A c \in Conns : c # d /\ c \in Users
        BY AdmissionAssumption DEF Users
      <3> QED
        BY <1>2, <2>3, <3>1 DEF DialStep, StreamStarts, Blocked, WantsTcp, WantsOther, SynLoad,
             SynCas, DialEnds, Goto, Load, Admitted, Inv, TypeInv
    <2>4. CASE UNCHANGED vars
      BY <2>4 DEF vars, Admitted
    <2> QED
      BY <1>2, <2>2, <2>3, <2>4 DEF Next
  <1> QED
    BY <1>1, <1>2, AlwaysInv, PTL DEF Spec, ConnectionsAreSlots, ConnSlots!Spec

\* The InFlightSyns semaphore likewise: streams that dial UDP, are blocked or are
\* of an unknown type pass by without touching it.
THEOREM SynsImplementSlots == Spec => SynsAreSlots
  <1> DEFINE st == [d \in Dials |-> IF d \in InFlight THEN "in"
                                    ELSE IF pc[d] \in {"load", "cas"} THEN "asking" ELSE "out"]
  <1>1. Init => SynSlots!Init
    BY DEF Init, SynSlots!Init, InFlight, Users
  <1>2. ASSUME Inv, Inv', [Next]_vars PROVE [SynSlots!Next]_st
    <2>1. SynSlots!Inside = InFlight
      BY DEF SynSlots!Inside, InFlight
    <2>2. ASSUME NEW d \in Dials, DialStep(d) PROVE [SynSlots!Next]_st
      <3> USE DEF Goto, Load, Full, Swapped, Inv, TypeInv, Users, InFlight, SlotOnlyInDial
      <3>1. CASE WantsTcp(d)
        <4>1. SynSlots!Ask(d)
          BY <1>2, <3>1 DEF WantsTcp, SynSlots!Ask, SynSlots!Move
        <4> QED
          BY <4>1 DEF SynSlots!Next
      <3>2. CASE SynLoad(d) /\ syns >= MaxSyns
        <4>1. Cardinality(InFlight) = MaxSyns
          BY <1>2, <3>2, AdmissionAssumption DEF CountExact, Below
        <4>2. SynSlots!Move(d, "asking", "out")
          BY <1>2, <3>2 DEF SynLoad, SynSlots!Move
        <4> HIDE DEF InFlight
        <4>3. SynSlots!Refuse(d)
          BY <4>1, <4>2, <2>1, SameCount DEF SynSlots!Refuse
        <4> QED
          BY <4>3 DEF SynSlots!Next
      <3>3. CASE SynCas(d) /\ syns = cur[d]
        <4>1. Cardinality(InFlight) < MaxSyns
          BY <1>2, <3>3 DEF SynCas, CountExact, LoadedBelow
        <4>2. SynSlots!Move(d, "asking", "in")
          BY <1>2, <3>3 DEF SynCas, SynSlots!Move
        <4> HIDE DEF InFlight
        <4>3. SynSlots!Grant(d)
          BY <4>1, <4>2, <2>1, SameCount DEF SynSlots!Grant
        <4> QED
          BY <4>3 DEF SynSlots!Next
      <3>4. CASE DialEnds(d) /\ synAcquired[d]
        <4>1. SynSlots!Leave(d)
          BY <1>2, <3>4 DEF DialEnds, SynSlots!Leave, SynSlots!Move
        <4> QED
          BY <4>1 DEF SynSlots!Next
      <3>5. CASE \/ SynLoad(d) /\ ~(syns >= MaxSyns)
                 \/ SynCas(d) /\ syns # cur[d]
                 \/ DialEnds(d) /\ ~synAcquired[d]
                 \/ StreamStarts(d) \/ Blocked(d) \/ WantsOther(d)
        BY <1>2, <3>5 DEF SynLoad, SynCas, DialEnds, StreamStarts, Blocked, WantsOther
      <3> QED
        BY <2>2, <3>1, <3>2, <3>3, <3>4, <3>5 DEF DialStep
    <2>3. ASSUME NEW c \in Conns, ConnStep(c) PROVE st' = st
      <3>1. \A d \in Dials : d # c /\ d \in Users
        BY AdmissionAssumption DEF Users
      <3> QED
        BY <1>2, <2>3, <3>1 DEF ConnStep, Request, ConnLoad, ConnCas, TurnedAway, Upgraded,
             ReadLoopEnds, TornDown, Goto, Load, InFlight, Inv, TypeInv
    <2>4. CASE UNCHANGED vars
      BY <2>4 DEF vars, InFlight
    <2> QED
      BY <1>2, <2>2, <2>3, <2>4 DEF Next
  <1> QED
    BY <1>1, <1>2, AlwaysInv, PTL DEF Spec, SynsAreSlots, SynSlots!Spec
==============================================================================
