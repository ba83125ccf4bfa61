--------------------------- MODULE OutboundChannel ---------------------------
(***************************************************************************)
(* What the write side of a WebSocket connection promises to the           *)
(* goroutines that share it: frames are put on the wire whole, one at a    *)
(* time, in the order in which they were accepted, until the connection    *)
(* goes down; what has not been sent by then is dropped.  WriteQueue is    *)
(* the code's combining writer and is shown to implement this.             *)
(***************************************************************************)
EXTENDS Sequences

CONSTANT Reqs            \* the frames that may be handed to the channel

VARIABLES queue,         \* accepted, not yet on the wire
          wire,          \* sent, in order
          up             \* the connection carries frames

vars == <<queue, wire, up>>

Init == queue = <<>> /\ wire = <<>> /\ up = TRUE

Accept(r) ==
  /\ up
  /\ queue' = Append(queue, r)
  /\ UNCHANGED <<wire, up>>

Transmit ==
  /\ up
  /\ queue # <<>>
  /\ wire' = Append(wire, Head(queue))
  /\ queue' = Tail(queue)
  /\ UNCHANGED up

GoDown ==
  /\ up
  /\ up' = FALSE
  /\ queue' = <<>>
  /\ UNCHANGED wire

Next == (\E r \in Reqs : Accept(r)) \/ Transmit \/ GoDown

Spec == Init /\ [][Next]_vars
==============================================================================
