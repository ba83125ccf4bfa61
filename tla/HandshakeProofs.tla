--------------------------- MODULE HandshakeProofs ---------------------------
(***************************************************************************)
(* Proofs about Handshake, for any stream ids and any number of buffered   *)
(* frames.  The invariant says what the end of the handshake stands for:   *)
(* version 2 wherever a password is needed, a right password behind        *)
(* `authenticated`, and a greeting sent unless the connection was closed.  *)
(***************************************************************************)
EXTENDS Handshake, TLAPS

\* Where version 2 is required nobody is reading without it.
V2Enforced == phase = "reading" /\ requiresV2 => isV2

\* A handshake that is over has shown the password, if there had to be one.
DoneMeansProved ==
  phase = "reading" /\ isV2 /\ handshakeDone # "open" /\ config.PasswordAuthRequired => proved

AuthMeansProved == authenticated => proved

DoneMeansGreeted == phase = "reading" /\ ~Gated /\ ~isClosed => greeted

Inv == TypeOK /\ V2Enforced /\ DoneMeansProved /\ AuthMeansProved /\ DoneMeansGreeted

LEMMA InitInv == Init => Inv
  <1> SUFFICES ASSUME Init PROVE Inv
    OBVIOUS
  <1>1. 0 \in 0 .. MaxBuffered
    BY HandshakeAssumption
  <1>2. TypeOK
    BY <1>1 DEF Init, TypeOK
  <1>3. V2Enforced /\ DoneMeansProved /\ AuthMeansProved /\ DoneMeansGreeted
    BY DEF Init, V2Enforced, DoneMeansProved, AuthMeansProved, DoneMeansGreeted
  <1> QED
    BY <1>2, <1>3 DEF Inv

\* The connection's close, or its absence, keeps the count of buffered frames in
\* its type when a frame has been taken.
LEMMA BufferedType ==
  ASSUME TypeOK, TakeFrame, NoClose \/ \E n \in 0 .. MaxBuffered : Close(n)
  PROVE  buffered' \in 0 .. MaxBuffered /\ isClosed' \in BOOLEAN /\ (isClosed => isClosed')
  <1>1. CASE isClosed
    <2>1. isClosed' /\ buffered' = buffered - 1
      BY <1>1 DEF NoClose, Close
    <2>2. isClosed' \in BOOLEAN
      BY <1>1 DEF NoClose, Close
    <2> QED
      BY <1>1, <2>1, <2>2, HandshakeAssumption DEF TypeOK, TakeFrame
  <1>2. CASE ~isClosed
    <2>1. isClosed' \in BOOLEAN
      BY <1>2 DEF NoClose, Close, TypeOK
    <2>2. buffered' \in 0 .. MaxBuffered
      BY <1>2 DEF NoClose, Close, TypeOK
    <2> QED
      BY <1>2, <2>1, <2>2
  <1> QED
    BY <1>1, <1>2

LEMMA StepTypes == TypeOK /\ [Next]_vars => TypeOK'
  <1> SUFFICES ASSUME TypeOK, [Next]_vars PROVE TypeOK'
    OBVIOUS
  <1> USE DEF TypeOK
  <1>1. ASSUME NEW sp \in BOOLEAN, Accept(sp) \/ TurnAway(sp) PROVE TypeOK'
    <2>1. (config.EnableV2 /\ sp) \in BOOLEAN
      BY DEF Configs
    <2> QED
      BY <1>1, <2>1 DEF Accept, TurnAway, authVars
  <1>2. ASSUME NEW id \in Ids \cup {0}, NEW creds \in Credentials, InfoRefused(id, creds)
        PROVE TypeOK'
    BY <1>2, BufferedType DEF InfoRefused, authVars
  <1>3. ASSUME NEW id \in Ids \cup {0}, NEW creds \in Credentials, NEW confirm \in BOOLEAN,
               InfoAccepted(id, creds, confirm)
        PROVE TypeOK'
    <2>1. Passed(creds) \in BOOLEAN
      BY DEF Passed, Configs
    <2>2. (greeted \/ ~isClosed) \in BOOLEAN /\ (proved \/ creds = "right") \in BOOLEAN
      OBVIOUS
    <2> QED
      BY <1>3, <2>1, <2>2, BufferedType DEF InfoAccepted, DoneAfterInfo
  <1>4. ASSUME NEW id \in Ids, ConnectSocket(id) \/ ConnectTerminal(id) PROVE TypeOK'
    BY <1>4, BufferedType DEF ConnectSocket, ConnectTerminal, authVars
  <1>5. ASSUME NEW id \in Ids, StreamEnds(id) PROVE TypeOK'
    BY <1>5 DEF StreamEnds, authVars
  <1>6. CASE OtherFrame
    BY <1>6, BufferedType DEF OtherFrame, authVars
  <1>7. CASE ClosedElsewhere
    BY <1>7 DEF ClosedElsewhere, Close, authVars
  <1>8. CASE ReadFails \/ UNCHANGED vars
    BY <1>8 DEF ReadFails, vars, authVars
  <1> HIDE DEF TypeOK
  <1> QED
    BY <1>1, <1>2, <1>3, <1>4, <1>5, <1>6, <1>7, <1>8 DEF Next

LEMMA StepInv == Inv /\ [Next]_vars => Inv'
  <1> SUFFICES ASSUME Inv, [Next]_vars PROVE Inv'
    OBVIOUS
  <1> USE DEF V2Enforced, DoneMeansProved, AuthMeansProved, DoneMeansGreeted, Gated,
              requiresV2
  <1>0. TypeOK /\ TypeOK'
    BY StepTypes DEF Inv
  <1>1. ASSUME NEW sp \in BOOLEAN, Accept(sp) \/ TurnAway(sp) PROVE Inv'
    BY <1>0, <1>1 DEF Inv, TypeOK, Configs, Accept, TurnAway, authVars
  <1>2. ASSUME NEW id \in Ids \cup {0}, NEW creds \in Credentials, InfoRefused(id, creds)
        PROVE Inv'
    BY <1>0, <1>2, BufferedType DEF Inv, TypeOK, InfoRefused, authVars
  <1>3. ASSUME NEW id \in Ids \cup {0}, NEW creds \in Credentials, NEW confirm \in BOOLEAN,
               InfoAccepted(id, creds, confirm)
        PROVE Inv'
    BY <1>0, <1>3, BufferedType
    DEF Inv, TypeOK, InfoAccepted, Passed, Refused, DoneAfterInfo, NoClose
  <1>4. ASSUME NEW id \in Ids, ConnectSocket(id) \/ ConnectTerminal(id) \/ StreamEnds(id)
        PROVE Inv'
    BY <1>0, <1>4 DEF Inv, TypeOK, ConnectSocket, ConnectTerminal, StreamEnds, NoClose, authVars
  <1>5. CASE OtherFrame \/ ClosedElsewhere \/ ReadFails
    BY <1>0, <1>5 DEF Inv, TypeOK, OtherFrame, ClosedElsewhere, ReadFails, NoClose, Close,
                      authVars
  <1>6. CASE UNCHANGED vars
    BY <1>0, <1>6 DEF Inv, vars
  <1> QED
    BY <1>1, <1>2, <1>3, <1>4, <1>5, <1>6 DEF Next

\* The inductive invariant.
THEOREM AlwaysInv == Spec => []Inv
  BY InitInv, StepInv, PTL DEF Spec

\* The types of Handshake's variables.
THEOREM TypeCorrect == Spec => []TypeOK
  BY AlwaysInv, PTL DEF Inv

\* Only CONNECT opens anything, and only past the gate.
LEMMA OnlyConnectOpens ==
  ASSUME TypeOK, Next, NEW i \in Ids, NEW kind, kind \in open'[i] \ open[i]
  PROVE  /\ TakeFrame /\ ~Gated
         /\ kind = "terminal" => TwispAllowed
  <1>1. PICK id \in Ids : ConnectSocket(id) \/ ConnectTerminal(id)
    BY DEF Next, Accept, TurnAway, InfoRefused, InfoAccepted, OtherFrame, ClosedElsewhere,
           ReadFails, StreamEnds, TypeOK
  <1> QED
    BY <1>1 DEF ConnectSocket, ConnectTerminal, TypeOK

\* No stream is opened for a client that had to show a password and has not, for
\* every configuration and every order of frames.
THEOREM PasswordRequired == Spec => PasswordGate
  <1>1. ASSUME Inv, [Next]_vars
        PROVE  [\A kind \in {"socket", "terminal"} :
                  config.PasswordAuthRequired /\ Opens(kind) => proved]_vars
    <2> SUFFICES ASSUME Next, NEW kind \in {"socket", "terminal"},
                        config.PasswordAuthRequired, NEW i \in Ids, kind \in open'[i] \ open[i]
                 PROVE  proved
      BY <1>1 DEF Opens
    <2>1. TakeFrame /\ ~Gated
      BY <1>1, OnlyConnectOpens DEF Inv
    <2> QED
      BY <1>1, <2>1 DEF Inv, V2Enforced, DoneMeansProved, TakeFrame, Gated, requiresV2
  <1> QED
    BY AlwaysInv, <1>1, PTL DEF Spec, PasswordGate

\* A terminal needs a password that was checked, in every configuration.
THEOREM TerminalNeedsPassword == Spec => TerminalGate
  <1>1. ASSUME Inv, [Next]_vars PROVE [Opens("terminal") => proved]_vars
    <2> SUFFICES ASSUME Next, NEW i \in Ids, "terminal" \in open'[i] \ open[i]
                 PROVE  proved
      BY <1>1 DEF Opens
    <2>1. TwispAllowed
      BY <1>1, OnlyConnectOpens DEF Inv
    <2> QED
      BY <1>1, <2>1 DEF Inv, AuthMeansProved, TwispAllowed
  <1> QED
    BY AlwaysInv, <1>1, PTL DEF Spec, TerminalGate

\* Streams come after the greeting, on any connection that is up.
THEOREM StreamsAfterGreeting == Spec => GreetedFirst
  <1>1. ASSUME Inv, [Next]_vars
        PROVE  [\A kind \in {"socket", "terminal"} :
                  Opens(kind) /\ ~isClosed => greeted]_vars
    <2> SUFFICES ASSUME Next, NEW kind \in {"socket", "terminal"}, ~isClosed,
                        NEW i \in Ids, kind \in open'[i] \ open[i]
                 PROVE  greeted
      BY <1>1 DEF Opens
    <2>1. TakeFrame /\ ~Gated
      BY <1>1, OnlyConnectOpens DEF Inv
    <2> QED
      BY <1>1, <2>1 DEF Inv, DoneMeansGreeted, TakeFrame
  <1> QED
    BY AlwaysInv, <1>1, PTL DEF Spec, GreetedFirst

\* The first INFO that is accepted is the last that has any effect.
THEOREM IdentityIsFixed == Spec => IdentityFixed
  <1>1. ASSUME Inv, [Next]_vars
        PROVE  [phase = "reading" /\ ~Gated => UNCHANGED <<authenticated, streamConfirm>>]_vars
    <2>1. SUFFICES ASSUME Next, phase = "reading", ~Gated
                   PROVE  UNCHANGED authVars
      BY <1>1 DEF authVars
    <2>2. \A id, creds, confirm : ~InfoAccepted(id, creds, confirm)
      BY <1>1, <2>1 DEF InfoAccepted, InfoCounts, Gated, Inv, TypeOK
    <2> QED
      BY <2>1, <2>2 DEF Next, Accept, TurnAway, InfoRefused, ConnectSocket, ConnectTerminal,
           StreamEnds, OtherFrame, ClosedElsewhere, ReadFails
  <1> QED
    BY AlwaysInv, <1>1, PTL DEF Spec, IdentityFixed
==============================================================================
