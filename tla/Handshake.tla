------------------------------ MODULE Handshake ------------------------------
(***************************************************************************)
(* How a client gets from an HTTP request to open streams: the choice of   *)
(* protocol version (wisp/wisp.go), the INFO handshake with its password   *)
(* (wisp/v2.go), the gate the read loop keeps until it is done             *)
(* (wisp/wsreader.go), and CONNECT for sockets and terminals               *)
(* (wisp/wisp-connection.go).  Every configuration and every client is     *)
(* considered; what an INFO packet holds is its credentials and whether it *)
(* asks for stream confirmation.                                           *)
(*                                                                         *)
(* A connection that is closed goes on handling what its frameReader has   *)
(* already buffered: only the read that follows fails.                     *)
(***************************************************************************)
EXTENDS Integers

CONSTANTS Ids,           \* stream ids clients use, besides 0
          MaxBuffered    \* bound: frames in the frameReader when it closes

ASSUME HandshakeAssumption == 0 \notin Ids /\ MaxBuffered \in Nat

Configs == [EnableV2 : BOOLEAN, PasswordAuth : BOOLEAN,
            PasswordAuthRequired : BOOLEAN, EnableTwisp : BOOLEAN]

\* What parseClientInfo and the lookup in PasswordUsers make of an INFO: it does
\* not parse, names no user, has a right or a wrong password, or an unknown user.
Credentials == {"malformed", "none", "right", "wrong"}

VARIABLES config,
          phase,         \* "request", "reading", or "over"
          isV2,
          handshakeDone, \* the channel: "nil", or "open" until it is closed
          authenticated, streamConfirm,
          isClosed,
          buffered,      \* frames still to be handled after the close
          greeted,       \* CONTINUE for stream 0 was queued
          open,          \* what each id is open as; sockets and terminals are
                         \* in tables of their own, so it may be both
          proved         \* the client has shown a right password (history)

vars == <<config, phase, isV2, handshakeDone, authenticated, streamConfirm,
          isClosed, buffered, greeted, open, proved>>

authVars == <<authenticated, streamConfirm>>

Init ==
  /\ config \in Configs
  /\ phase = "request"
  /\ isV2 = FALSE /\ handshakeDone = "nil"
  /\ authenticated = FALSE /\ streamConfirm = FALSE
  /\ isClosed = FALSE /\ buffered = 0
  /\ greeted = FALSE
  /\ open = [i \in Ids |-> {}]
  /\ proved = FALSE

-------------------------------------------------------------------------------
(* CreateWispHandler *)

\* Mutant of requiresV2: only a terminal needs version 2.
requiresV2ForTwisp == config.EnableTwisp

requiresV2 == config.PasswordAuthRequired \/ config.EnableTwisp

\* A request of a client that offers a subprotocol, or does not.
Accept(subprotocol) ==
  LET useV2 == config.EnableV2 /\ subprotocol
  IN /\ phase = "request"
     /\ requiresV2 => useV2
     /\ phase' = "reading"
     /\ isV2' = useV2
     /\ handshakeDone' = IF useV2 THEN "open" ELSE "nil"   \* v2Handshake
     /\ greeted' = ~useV2                                  \* sendPacket(0, ...)
     /\ UNCHANGED <<config, authVars, isClosed, buffered, open, proved>>

\* 426 Upgrade Required.
TurnAway(subprotocol) ==
  /\ phase = "request"
  /\ requiresV2 /\ ~(config.EnableV2 /\ subprotocol)
  /\ phase' = "over"
  /\ UNCHANGED <<config, isV2, handshakeDone, authVars, isClosed, buffered, greeted,
                 open, proved>>

-------------------------------------------------------------------------------
(* The read loop *)

\* Before every frame: while the connection is up the client may send any number;
\* afterwards those the frameReader has are handled, and then the read fails.
TakeFrame ==
  /\ phase = "reading"
  /\ isClosed => buffered > 0

\* c.close(), called while `n` more frames are buffered.
Close(n) ==
  /\ isClosed' = TRUE
  /\ buffered' = IF isClosed THEN buffered - 1 ELSE n

NoClose ==
  /\ isClosed' = isClosed
  /\ buffered' = IF isClosed THEN buffered - 1 ELSE buffered

\* The gate of handleWispFrame: until the handshake is done, only INFO and a
\* CLOSE of stream 0 get through.
Gated == isV2 /\ handshakeDone = "open"

Passed(creds) == config.PasswordAuth /\ creds = "right"

\* handleInfo refuses: the packet is malformed, the password is wrong or the user
\* unknown, or there is none and one is required.
Refused(creds) ==
  \/ creds = "malformed"
  \/ config.PasswordAuth /\ creds = "wrong"
  \/ config.PasswordAuthRequired /\ ~Passed(creds)

\* INFO is for stream 0, and only while the handshake is open.
InfoCounts(id) == isV2 /\ id = 0 /\ handshakeDone # "nil"

InfoRefused(id, creds) ==
  /\ TakeFrame
  /\ InfoCounts(id)
  /\ Refused(creds)
  /\ \E n \in 0 .. MaxBuffered : Close(n)
  /\ UNCHANGED <<config, phase, isV2, handshakeDone, authVars, greeted, open, proved>>

\* Mutant of DoneAfterInfo: the channel is closed but not forgotten, so that the
\* test at the top of handleInfo never finds it nil.
ClosedNotNil == "closed"

DoneAfterInfo == "nil"

InfoAccepted(id, creds, confirm) ==
  /\ TakeFrame
  /\ InfoCounts(id)
  /\ ~Refused(creds)
  /\ authenticated' = Passed(creds)
  /\ streamConfirm' = confirm
  /\ greeted' = (greeted \/ ~isClosed)      \* sendPacket does nothing once closed
  /\ handshakeDone' = DoneAfterInfo
  /\ proved' = (proved \/ creds = "right")
  /\ NoClose
  /\ UNCHANGED <<config, phase, isV2, open>>

\* Everything that reaches none of the handlers below: a frame that is too short,
\* an INFO that does not count, a packet stopped by the gate, DATA, resize and
\* CLOSE packets, PING.  They change none of this state.
OtherFrame ==
  /\ TakeFrame
  /\ isClosed                  \* otherwise nothing changes at all
  /\ NoClose
  /\ UNCHANGED <<config, phase, isV2, handshakeDone, authVars, greeted, open, proved>>

\* handleConnectPacket for a TCP or UDP stream, once past the limits.
ConnectSocket(id) ==
  /\ TakeFrame
  /\ ~Gated
  /\ open' = [open EXCEPT ![id] = @ \cup {"socket"}]
  /\ NoClose
  /\ UNCHANGED <<config, phase, isV2, handshakeDone, authVars, greeted, proved>>

\* Mutant of TwispAllowed: whoever can connect can have a terminal.
TwispForAll == config.EnableTwisp

\* handleTwispConnect and twispAuthorized.
TwispAllowed ==
  config.EnableTwisp /\ isV2 /\ config.PasswordAuth /\ authenticated

ConnectTerminal(id) ==
  /\ TakeFrame
  /\ ~Gated
  /\ TwispAllowed
  /\ open' = [open EXCEPT ![id] = @ \cup {"terminal"}]
  /\ NoClose
  /\ UNCHANGED <<config, phase, isV2, handshakeDone, authVars, greeted, proved>>

\* The connection breaks, or a goroutine of one of its streams closes it: too many
\* violations, a failed write, a SYN-flood signature.
ClosedElsewhere ==
  /\ phase = "reading" /\ ~isClosed
  /\ \E n \in 0 .. MaxBuffered : Close(n)
  /\ UNCHANGED <<config, phase, isV2, handshakeDone, authVars, greeted, open, proved>>

\* A stream ends, by itself or because deleteAllWispStreams closes it.
StreamEnds(id) ==
  /\ open[id] # {}
  /\ \E kind \in open[id] : open' = [open EXCEPT ![id] = @ \ {kind}]
  /\ UNCHANGED <<config, phase, isV2, handshakeDone, authVars, isClosed, buffered,
                 greeted, proved>>

\* The read fails and the read loop returns.
ReadFails ==
  /\ phase = "reading"
  /\ isClosed /\ buffered = 0
  /\ phase' = "over"
  /\ UNCHANGED <<config, isV2, handshakeDone, authVars, isClosed, buffered, greeted,
                 open, proved>>

Next ==
  \/ \E subprotocol \in BOOLEAN : Accept(subprotocol) \/ TurnAway(subprotocol)
  \/ \E id \in Ids \cup {0}, creds \in Credentials :
        InfoRefused(id, creds) \/ \E confirm \in BOOLEAN : InfoAccepted(id, creds, confirm)
  \/ \E id \in Ids : ConnectSocket(id) \/ ConnectTerminal(id) \/ StreamEnds(id)
  \/ OtherFrame
  \/ ClosedElsewhere
  \/ ReadFails

Spec == Init /\ [][Next]_vars

-------------------------------------------------------------------------------
(* Properties *)

TypeOK ==
  /\ config \in Configs
  /\ phase \in {"request", "reading", "over"}
  /\ isV2 \in BOOLEAN /\ handshakeDone \in {"nil", "open"}
  /\ authenticated \in BOOLEAN /\ streamConfirm \in BOOLEAN
  /\ isClosed \in BOOLEAN /\ buffered \in 0 .. MaxBuffered
  /\ greeted \in BOOLEAN
  /\ open \in [Ids -> SUBSET {"socket", "terminal"}]
  /\ proved \in BOOLEAN

Opens(kind) == \E i \in Ids : kind \in open'[i] \ open[i]

\* Where passwordAuthRequired is set no stream is opened for a client that has not
\* shown a right password before ("Require password authentication for all
\* clients", src/index.ts:84): not by speaking version 1, not by a CONNECT ahead
\* of its INFO, and not by frames still buffered when its INFO was refused.
PasswordGate ==
  [][\A kind \in {"socket", "terminal"} :
        config.PasswordAuthRequired /\ Opens(kind) => proved]_vars

\* A terminal is only ever opened by a client that has shown a right password,
\* whether or not the others have to (handleTwispConnect, twispAuthorized).
TerminalGate == [][Opens("terminal") => proved]_vars

\* A client cannot change who it is: once streams can be opened, a further INFO
\* leaves authenticated and streamConfirm as they are, which the streams'
\* goroutines read without a lock (wisp-stream.go:265).
IdentityFixed ==
  [][phase = "reading" /\ ~Gated => UNCHANGED <<authenticated, streamConfirm>>]_vars

\* No stream is opened on a connection that is up before the client has been sent
\* the CONTINUE for stream 0, from which it knows its window.
GreetedFirst ==
  [][\A kind \in {"socket", "terminal"} : Opens(kind) /\ ~isClosed => greeted]_vars
==============================================================================
