------------------------------ MODULE Admission ------------------------------
(***************************************************************************)
(* The two Semaphores of wisp/limits.go and everyone who uses them:        *)
(* Connections, taken by each HTTP request (wisp/wisp.go) and given back   *)
(* when it is refused or when the connection's read loop has ended, and    *)
(* InFlightSyns, taken by each TCP dial (wisp/wisp-stream.go).  A step is  *)
(* one atomic operation on a counter, or a piece of code between two.      *)
(***************************************************************************)
EXTENDS Integers, FiniteSets

CONSTANTS Conns,         \* HTTP requests, and the connections they become
          Dials,         \* handleConnect goroutines of streams
          MaxConns,      \* MaxConcurrentConnections
          MaxSyns        \* MaxInFlightSyns

ASSUME AdmissionAssumption ==
  /\ IsFiniteSet(Conns) /\ IsFiniteSet(Dials)
  /\ Conns \cap Dials = {}
  /\ MaxConns \in Nat \ {0} /\ MaxSyns \in Nat \ {0}

Users == Conns \cup Dials

VARIABLES connections,   \* Connections.current
          syns,          \* InFlightSyns.current
          pc,            \* where each user is
          cur,           \* the value TryAcquire has loaded, 0 when it is dead
          synAcquired    \* handleConnect's local, FALSE when it is dead

vars == <<connections, syns, pc, cur, synAcquired>>

Init ==
  /\ connections = 0 /\ syns = 0
  /\ pc = [u \in Users |-> "off"]
  /\ cur = [u \in Users |-> 0]
  /\ synAcquired = [d \in Dials |-> FALSE]

Goto(u, from, to) ==
  /\ pc[u] = from
  /\ pc' = [pc EXCEPT ![u] = to]

-------------------------------------------------------------------------------
(* Semaphore.TryAcquire and Release *)

\* Mutant of Full: off by one.
OverFull(n, max) == n > max

Full(n, max) == n >= max

\* The load and the test: a full semaphore refuses, which for a request is a 503
\* and for a stream a violation and a CLOSE.
Load(u, n, max) ==
  /\ pc[u] = "load"
  /\ cur' = [cur EXCEPT ![u] = IF Full(n, max) THEN 0 ELSE n]
  /\ pc' = [pc EXCEPT ![u] = IF Full(n, max) THEN "off" ELSE "cas"]
  /\ UNCHANGED <<connections, syns, synAcquired>>

\* CompareAndSwapInt64 succeeds when nobody has moved the counter since.
Swapped(u, n) == n = cur[u]

\* Mutant of Minus: nothing is given back.
MinusNothing(n) == n

\* Release.
Minus(n) == n - 1

-------------------------------------------------------------------------------
(* CreateWispHandler and the life of a connection *)

Request(c) ==
  /\ Goto(c, "off", "load")
  /\ UNCHANGED <<connections, syns, cur, synAcquired>>

ConnLoad(c) == Load(c, connections, MaxConns)

ConnCas(c) ==
  /\ Goto(c, "cas", IF Swapped(c, connections) THEN "admitted" ELSE "load")
  /\ connections' = IF Swapped(c, connections) THEN connections + 1 ELSE connections
  /\ cur' = [cur EXCEPT ![c] = 0]
  /\ UNCHANGED <<syns, synAcquired>>

\* requiresV2 and the client does not speak it, or Upgrade fails.
TurnedAway(c) ==
  /\ Goto(c, "admitted", "off")
  /\ connections' = Minus(connections)
  /\ UNCHANGED <<syns, cur, synAcquired>>

\* The connection is upgraded and its read loop started.
Upgraded(c) ==
  /\ Goto(c, "admitted", "live")
  /\ UNCHANGED <<connections, syns, cur, synAcquired>>

\* The read loop returns and its deferred deleteAllWispStreams begins.
ReadLoopEnds(c) ==
  /\ Goto(c, "live", "teardown")
  /\ UNCHANGED <<connections, syns, cur, synAcquired>>

\* The end of deleteAllWispStreams.
TornDown(c) ==
  /\ Goto(c, "teardown", "off")
  /\ connections' = Minus(connections)
  /\ UNCHANGED <<syns, cur, synAcquired>>

ConnStep(c) ==
  \/ Request(c) \/ ConnLoad(c) \/ ConnCas(c) \/ TurnedAway(c)
  \/ Upgraded(c) \/ ReadLoopEnds(c) \/ TornDown(c)

-------------------------------------------------------------------------------
(* handleConnect, as far as the cap on dials goes *)

\* The read loop of a live connection starts the goroutine.
StreamStarts(d) ==
  /\ \E c \in Conns : pc[c] = "live"
  /\ Goto(d, "off", "checks")
  /\ UNCHANGED <<connections, syns, cur, synAcquired>>

\* The lists, the egress policy, the rate limits or the reputation refuse it.
Blocked(d) ==
  /\ Goto(d, "checks", "off")
  /\ UNCHANGED <<connections, syns, cur, synAcquired>>

WantsTcp(d) ==
  /\ Goto(d, "checks", "load")
  /\ UNCHANGED <<connections, syns, cur, synAcquired>>

\* A UDP stream, or one of an unknown type, takes no slot.
WantsOther(d) ==
  /\ Goto(d, "checks", "dial")
  /\ UNCHANGED <<connections, syns, cur, synAcquired>>

SynLoad(d) == Load(d, syns, MaxSyns)

SynCas(d) ==
  /\ Goto(d, "cas", IF Swapped(d, syns) THEN "dial" ELSE "load")
  /\ syns' = IF Swapped(d, syns) THEN syns + 1 ELSE syns
  /\ synAcquired' = [synAcquired EXCEPT ![d] = Swapped(d, syns)]
  /\ cur' = [cur EXCEPT ![d] = 0]
  /\ UNCHANGED connections

\* Mutant of GivesBack: every stream gives a slot back.
GivesBackAlways(d) == TRUE

GivesBack(d) == synAcquired[d]

\* The one Release each way out of the dial: the proxy's dialer cannot be made,
\* UDP is not allowed, the type is unknown, or Dial has returned.
DialEnds(d) ==
  /\ Goto(d, "dial", "off")
  /\ syns' = IF GivesBack(d) THEN Minus(syns) ELSE syns
  /\ synAcquired' = [synAcquired EXCEPT ![d] = FALSE]
  /\ UNCHANGED <<connections, cur>>

DialStep(d) ==
  \/ StreamStarts(d) \/ Blocked(d) \/ WantsTcp(d) \/ WantsOther(d)
  \/ SynLoad(d) \/ SynCas(d) \/ DialEnds(d)

Next == (\E c \in Conns : ConnStep(c)) \/ (\E d \in Dials : DialStep(d))

Spec == Init /\ [][Next]_vars

-------------------------------------------------------------------------------
(* Properties *)

\* The requests that have a slot: admitted, live, or being torn down.
Admitted == {c \in Conns : pc[c] \in {"admitted", "live", "teardown"}}

\* The streams that have a slot.
InFlight == {d \in Dials : pc[d] = "dial" /\ synAcquired[d]}

TypeOK ==
  /\ connections \in 0 .. MaxConns /\ syns \in 0 .. MaxSyns
  /\ pc \in [Users -> {"off", "load", "cas", "admitted", "live", "teardown",
                       "checks", "dial"}]
  /\ cur \in [Users -> Nat]
  /\ synAcquired \in [Dials -> BOOLEAN]

\* Each counter says exactly how many hold a slot (limits.go), whatever way the
\* holders leave: every path of CreateWispHandler, deleteAllWispStreams and
\* handleConnect that took a slot gives one back, once, and no other path does.
CountExact ==
  /\ connections = Cardinality(Admitted)
  /\ syns = Cardinality(InFlight)

\* The caps are never exceeded, not even for a moment, by requests or dials that
\* run TryAcquire at the same time.
WithinCaps ==
  /\ Cardinality(Admitted) <= MaxConns
  /\ Cardinality(InFlight) <= MaxSyns

\* TryAcquire and Release on Connections act as one atomic test of the number of
\* slots in use: in particular a 503 is only ever the answer when all are taken.
ConnSlots == INSTANCE Slots WITH
  Users <- Conns, Limit <- MaxConns,
  state <- [c \in Conns |-> IF c \in Admitted THEN "in"
                            ELSE IF pc[c] \in {"load", "cas"} THEN "asking" ELSE "out"]

ConnectionsAreSlots == ConnSlots!Spec

\* The same for InFlightSyns: a dial is throttled only when MaxSyns others are
\* under way, and streams that took no slot leave the others' alone.
SynSlots == INSTANCE Slots WITH
  Users <- Dials, Limit <- MaxSyns,
  state <- [d \in Dials |-> IF d \in InFlight THEN "in"
                            ELSE IF pc[d] \in {"load", "cas"} THEN "asking" ELSE "out"]

SynsAreSlots == SynSlots!Spec
==============================================================================
