------------------------------ MODULE FloodGuard ------------------------------
(***************************************************************************)
(* The rate limits and the SYN flood detector a CONNECT passes: the        *)
(* SlidingWindows of wisp/limits.go, asked by handleConnectPacket          *)
(* (PerSource) and handleConnect (PerDestSec, PerDestMin), the violations  *)
(* of a connection, and wisp/signature.go.  One destination; every         *)
(* connection has a source address, which connections may share.  Time is  *)
(* kept as ages.  Reputation has the scores, Admission the semaphores.     *)
(***************************************************************************)
EXTENDS Integers, FiniteSetsExt

CONSTANTS Conns,          \* connections, each with one stream at a time
          Source,         \* Source[c]: remoteIP of connection c
          Dest,           \* the destination's key
          Limit, Length,  \* of the windows that are configured, by name: some
                          \* of "source", "second" and "minute"
          MaxDelay,       \* bound: ticks between time.Now() and the lock in Allow,
                          \* which the code does not bound
          CloseAfter,     \* WsCloseAfterViolations, 0 for never
          Window, MinSamples, Ratio,   \* SynFloodSignature; the ratio in percent
          Missing        \* no entry in a map

Windows == DOMAIN Limit
Names == {Source[c] : c \in Conns} \cup {Dest}

ASSUME FloodAssumption ==
  /\ MaxDelay \in Nat /\ CloseAfter \in Nat /\ Window \in Nat /\ MinSamples \in Nat
  /\ Ratio \in 0 .. 100
  /\ Windows \subseteq {"source", "second", "minute"}
  /\ Missing \notin [age : Nat, count : Nat]
  /\ \A w \in Windows : Limit[w] \in Nat \ {0} /\ Length[w] \in Nat \ {0}

VARIABLES
  entries,     \* of each window, by key: the age of start, and count
  stream,      \* the stream of each connection: where it is, and the ticks since
               \* time.Now() in Allow
  violations,  \* of each connection
  state,       \* of each connection: open, closed, gone (torn down)
  per,         \* Signatures.per: the detector of each connection, or Missing: how
               \* many samples of each outcome its ring has, by age
  asked,       \* history: of the last events each window has let pass by key, newest
               \* first, the age of their time.Now()
  passed,      \* history: and the age of their passing; both as far back as the
               \* properties look
  left         \* history: the connection was torn down while a stream dialled

conns == <<violations, state>>
histories == <<asked, passed>>
floodVars == <<entries, stream, conns, per, histories, left>>

At(pc) == [pc |-> pc, wait |-> 0]

\* The ages from which on nothing is told apart, of a window's start or an event's
\* passing, and of an event's time.Now(); one event more than twice the limit.
Oldest(w) == Length[w] + MaxDelay
Long(w) == Length[w] + 1
LookBack(w) == 2 * Limit[w] + 1

FloodInit ==
  /\ entries = [w \in Windows |-> [k \in Names |-> Missing]]
  /\ stream = [c \in Conns |-> At("off")]
  /\ violations = [c \in Conns |-> 0] /\ state = [c \in Conns |-> "open"]
  /\ per = [c \in Conns |-> Missing] /\ left = [c \in Conns |-> FALSE]
  /\ asked = [w \in Windows |-> [k \in Names |-> [i \in 1 .. LookBack(w) |-> Long(w)]]]
  /\ passed = [w \in Windows |-> [k \in Names |-> [i \in 1 .. Limit[w] |-> Oldest(w)]]]

-------------------------------------------------------------------------------
(* SlidingWindow.Allow *)

\* Mutant of Over: the count is started anew at every tick.
OverEachTick(w, e, wait) == e.age > wait

\* now.Sub(e.start) >= w.window.
Over(w, e, wait) == e.age - wait >= Length[w]

\* The entry Allow leaves: a window that begins now, or one more in the count,
\* which is not told apart beyond the limit.
Counted(w, e, wait) ==
  IF e = Missing \/ Over(w, e, wait) THEN [age |-> wait, count |-> 1]
  ELSE [e EXCEPT !.count = IF @ > Limit[w] THEN @ ELSE @ + 1]

\* Mutant of Passes: off by one.
PassesBelow(w, e) == e.count < Limit[w]

Passes(w, e) == e.count <= Limit[w]

\* One more event, of age a, in a history f.
Pushed(f, a) == [i \in DOMAIN f |-> IF i = 1 THEN a ELSE f[i - 1]]

\* The event passes, having read its clock wait ago.
Recorded(w, k, wait) ==
  /\ asked' = [asked EXCEPT ![w][k] = Pushed(@, IF wait < Long(w) THEN wait ELSE Long(w))]
  /\ passed' = [passed EXCEPT ![w][k] = Pushed(@, 0)]

\* Allow(k) by the stream of c, which goes to yes or, refused, to no.
Allow(c, w, k, yes, no) ==
  \/ LET e == Counted(w, entries[w][k], stream[c].wait) IN
     /\ w \in Windows
     /\ entries' = [entries EXCEPT ![w][k] = e]
     /\ stream' = [stream EXCEPT ![c] = At(IF Passes(w, e) THEN yes ELSE no)]
     /\ IF Passes(w, e) THEN Recorded(w, k, stream[c].wait) ELSE UNCHANGED histories
     /\ UNCHANGED <<conns, per, left>>
  \/ /\ w \notin Windows
     /\ stream' = [stream EXCEPT ![c] = At(yes)]
     /\ UNCHANGED <<entries, conns, per, histories, left>>

-------------------------------------------------------------------------------
(* handleConnectPacket and handleConnect *)

\* A CONNECT; frames that are buffered are still handled after close().
ConnectPacket(c) ==
  /\ stream[c].pc = "off" /\ state[c] # "gone"
  /\ stream' = [stream EXCEPT ![c] = At("source")]
  /\ UNCHANGED <<entries, conns, per, histories, left>>

PerSource(c)  == stream[c].pc = "source" /\ Allow(c, "source", Source[c], "second", "refused")
PerDestSec(c) == stream[c].pc = "second" /\ Allow(c, "second", Dest, "minute", "refused")
PerDestMin(c) == stream[c].pc = "minute" /\ Allow(c, "minute", Dest, "dial", "refused")

Shut(c) == IF state[c] = "open" THEN "closed" ELSE state[c]

\* violation(), and the CLOSE of the stream.
Refused(c) ==
  LET n == violations[c] + 1 IN
  /\ stream[c].pc = "refused"
  /\ violations' = [violations EXCEPT ![c] = IF @ < CloseAfter THEN n ELSE @]
  /\ state' = [state EXCEPT ![c] = IF CloseAfter > 0 /\ n >= CloseAfter THEN Shut(c) ELSE @]
  /\ stream' = [stream EXCEPT ![c] = At("off")]
  /\ UNCHANGED <<entries, per, histories, left>>

EmptyRing == [ok \in BOOLEAN |-> [a \in 0 .. Window |-> 0]]

Samples(ring, ok) == MapThenSumSet(LAMBDA a : ring[ok][a], 0 .. Window)

\* At least MinSamples in the ring, and enough of them failed.
Matches(ring) ==
  LET n == Samples(ring, TRUE) + Samples(ring, FALSE) IN
  n >= MinSamples /\ 100 * Samples(ring, FALSE) >= Ratio * n

\* The detector of c, made if there is none.
For(c) == IF per[c] = Missing THEN EmptyRing ELSE per[c]

Record(ring, ok) == [ring EXCEPT ![ok][0] = @ + 1]

\* The dial, begun once the reputation and the semaphore let it, returns: For, Record
\* and Match, in one step, since nobody else uses the detector of a connection with
\* one stream.  A match closes the connection.
Dialled(c, ok) ==
  LET ring == Record(For(c), ok) IN
  /\ stream[c].pc = "dial"
  /\ per' = [per EXCEPT ![c] = ring]
  /\ state' = [state EXCEPT ![c] = IF Matches(ring) THEN Shut(c) ELSE @]
  /\ stream' = [stream EXCEPT ![c] = At("off")]
  /\ UNCHANGED <<entries, violations, histories, left>>

\* Mutant of ForgetAll: the prefix is compared the wrong way round.
ForgetNone(c) == per

ForgetAll(c) == [per EXCEPT ![c] = Missing]

\* The read loop ends, and deleteAllWispStreams forgets the detectors.
TearDown(c) ==
  /\ state[c] # "gone" /\ stream[c].pc \notin {"source"}
  /\ state' = [state EXCEPT ![c] = "gone"]
  /\ per' = ForgetAll(c)
  /\ left' = [left EXCEPT ![c] = stream[c].pc # "off"]
  /\ UNCHANGED <<entries, stream, violations, histories>>

-------------------------------------------------------------------------------
\* The counts of a tick ago; Record drops the samples that are older than Window.
RingAged(ring) ==
  [ok \in BOOLEAN |-> [a \in 0 .. Window |-> IF a = 0 THEN 0 ELSE ring[ok][a - 1]]]

Elder(top, a) == IF a < top THEN a + 1 ELSE a

\* A tick.  That it is not one too many for a waiter is no promise of the code or of Go:
\* MaxDelay bounds the model, and may be any number.
FloodTick ==
  /\ \A c \in Conns : stream[c].pc \in Windows => stream[c].wait < MaxDelay
  /\ entries' = [w \in Windows |-> [k \in Names |->
       IF entries[w][k] = Missing THEN Missing
       ELSE [entries[w][k] EXCEPT !.age = Elder(Oldest(w), @)]]]
  /\ stream' = [c \in Conns |-> IF stream[c].pc \in Windows
                                THEN [stream[c] EXCEPT !.wait = @ + 1] ELSE stream[c]]
  /\ per' = [c \in Conns |-> IF per[c] = Missing THEN Missing ELSE RingAged(per[c])]
  /\ asked' = [w \in Windows |-> [k \in Names |->
       [i \in 1 .. LookBack(w) |-> Elder(Long(w), asked[w][k][i])]]]
  /\ passed' = [w \in Windows |-> [k \in Names |->
       [i \in 1 .. Limit[w] |-> Elder(Oldest(w), passed[w][k][i])]]]
  /\ UNCHANGED <<conns, left>>

Step(c) ==
  \/ ConnectPacket(c) \/ PerSource(c) \/ PerDestSec(c) \/ PerDestMin(c) \/ Refused(c)
  \/ (\E ok \in BOOLEAN : Dialled(c, ok)) \/ TearDown(c)

FloodNext == (\E c \in Conns : Step(c)) \/ FloodTick

FloodSpec == FloodInit /\ [][FloodNext]_floodVars

-------------------------------------------------------------------------------
(* Properties *)

\* What a window of length W lets pass, however late Allow gets its lock (limits.go reads
\* the clock before it): of 2 * limit + 1 events that pass one after the other, the first
\* has read its clock more than W before the last one passes, since two windows have
\* been opened in between.  It may have passed later than that: counted by the time they
\* pass, more than twice the limit can come within W, if one of them had to wait.
RateBound ==
  \A w \in Windows, k \in Names : asked[w][k][2 * Limit[w] + 1] > Length[w]

\* Nobody is throttled for nothing: an event is refused only if the limit has been
\* let pass within the window's length, and the time it has itself waited for the lock.
NoFalseThrottle ==
  [][\A c \in Conns : stream[c].pc \in Windows /\ stream'[c].pc = "refused" =>
       LET w == stream[c].pc
           k == IF w = "source" THEN Source[c] ELSE Dest IN
       passed[w][k][Limit[w]] < Length[w] + stream[c].wait]_floodVars

\* The detectors of a connection go with it (Forget), except that a dial which ends
\* after the teardown makes one again, which then stays.
DetectorsForgotten ==
  \A c \in Conns : state[c] = "gone" /\ per[c] # Missing => left[c]
===============================================================================
