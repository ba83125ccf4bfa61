-------------------------------- MODULE Twisp --------------------------------
(***************************************************************************)
(* The terminals of one connection (wisp/twisp.go): the read loop accepts  *)
(* a CONNECT of type terminal and starts handleTwisp in a goroutine, which *)
(* starts the process on a pty, registers the terminal under its stream id *)
(* and starts two more goroutines, readPty and the one in cmd.Wait.  All   *)
(* of them, the read loop and its teardown may call close, which only one  *)
(* compare-and-swap wins.  The process and the kernel's pty are external.  *)
(* resize, which only hands a size to the kernel, is left out.             *)
(***************************************************************************)
EXTENDS Naturals, FiniteSets

CONSTANTS Terms,    \* handleTwisp goroutines, one for each accepted CONNECT
          Ids,      \* stream ids
          None

ASSUME TwispAssumption ==
  IsFiniteSet(Terms) /\ IsFiniteSet(Ids) /\ None \notin Terms \cup Ids

VARIABLES
  term,       \* each terminal and its goroutines, see Terminal
  registry,   \* twispRegistry.streams
  loop,       \* the read loop: run, write, close, teardown, closeAll, over
  target,     \* the terminal the read loop or its teardown is busy with
  toClose,    \* deleteAllWispStreams: terminals still to be closed
  overlapped, \* history: terminals whose id was in use twice at a time
  before      \* history: terminals registered when the teardown looked

conn == <<loop, target, toClose>>
vars == <<term, registry, conn, overlapped, before>>

Terminal == [
  id : Ids \cup {None},                                   \* streamId
  pc : {"off", "start", "add", "up", "refused"},          \* handleTwisp
  proc : {"none", "run", "dead"},                         \* the process
  shut : BOOLEAN,                                         \* ptmx is closed
  isOpen : BOOLEAN,
  closing : {"no", "remove", "end", "send", "done"},      \* in close
  reader : {"off", "read", "queue", "end"},               \* readPty
  waiting : BOOLEAN,         \* the goroutine in cmd.Wait has not returned
  asked : BOOLEAN,           \* a goroutine started by a CLOSE is to call close
  late : Nat]                \* history: DATA queued after the CLOSE

Init ==
  /\ term = [t \in Terms |->
       [id |-> None, pc |-> "off", proc |-> "none", shut |-> FALSE,
        isOpen |-> FALSE, closing |-> "no", reader |-> "off",
        waiting |-> FALSE, asked |-> FALSE, late |-> 0]]
  /\ registry = [i \in Ids |-> None]
  /\ loop = "run" /\ target = None /\ toClose = {}
  /\ overlapped = {} /\ before = {}

-------------------------------------------------------------------------------
(* handleTwispConnect and handleTwisp *)

\* The terminals under way for id i, from the CONNECT until the CLOSE is queued.
InUse(i) == {t \in Terms : /\ term[t].id = i /\ term[t].closing # "done"
                           /\ term[t].pc \in {"start", "add", "up"}}

\* The client is allowed a terminal; nothing looks whether the id is taken.
Connect(t, i) ==
  /\ loop = "run" /\ term[t].pc = "off"
  /\ term' = [term EXCEPT ![t].id = i, ![t].pc = "start"]
  /\ overlapped' = IF InUse(i) = {} THEN overlapped
                   ELSE overlapped \cup InUse(i) \cup {t}
  /\ UNCHANGED <<registry, conn, before>>

\* The command cannot be split or started: a CLOSE is all there is.
Refuse(t) ==
  /\ term[t].pc = "start"
  /\ term' = [term EXCEPT ![t].pc = "refused"]
  /\ UNCHANGED <<registry, conn, overlapped, before>>

\* pty.StartWithSize.
StartProcess(t) ==
  /\ term[t].pc = "start"
  /\ term' = [term EXCEPT ![t].pc = "add", ![t].proc = "run"]
  /\ UNCHANGED <<registry, conn, overlapped, before>>

\* isOpen.Store, add, which overwrites, and the two goroutines.
Register(t) ==
  /\ term[t].pc = "add"
  /\ term' = [term EXCEPT ![t].pc = "up", ![t].isOpen = TRUE,
                          ![t].reader = "read", ![t].waiting = TRUE]
  /\ registry' = [registry EXCEPT ![term[t].id] = t]
  /\ UNCHANGED <<conn, overlapped, before>>

-------------------------------------------------------------------------------
(* twispStream.close *)

\* Mutants of Wins: every caller closes; the arguments of the swap are exchanged.
WinsAlways(r) == TRUE
WinsNever(r) == ~r.isOpen

\* CompareAndSwap(true, false).
Wins(r) == r.isOpen

\* A terminal after a call of close; whoever loses the swap returns at once.
Called(r) ==
  IF Wins(r) THEN [r EXCEPT !.isOpen = FALSE, !.closing = "remove"] ELSE r

\* Mutants of Ended: the pty is not closed; the process is not killed.
EndedNoPtmx(r) == [r EXCEPT !.closing = "send", !.proc = "dead"]
EndedNoKill(r) == [r EXCEPT !.closing = "send", !.shut = TRUE]

\* ptmx.Close and Process.Kill, in one step: nobody else changes either.
Ended(r) == [r EXCEPT !.closing = "send", !.shut = TRUE, !.proc = "dead"]

\* remove deletes by id, whoever is registered there.
RemoveTerminal(t) ==
  /\ term[t].closing = "remove"
  /\ term' = [term EXCEPT ![t].closing = "end"]
  /\ registry' = [registry EXCEPT ![term[t].id] = None]
  /\ UNCHANGED <<conn, overlapped, before>>

EndTerminal(t) ==
  /\ term[t].closing = "end"
  /\ term' = [term EXCEPT ![t] = Ended(@)]
  /\ UNCHANGED <<registry, conn, overlapped, before>>

\* sendClosePacket.
SendClose(t) ==
  /\ term[t].closing = "send"
  /\ term' = [term EXCEPT ![t].closing = "done"]
  /\ UNCHANGED <<registry, conn, overlapped, before>>

Close(t) == RemoveTerminal(t) \/ EndTerminal(t) \/ SendClose(t)

-------------------------------------------------------------------------------
(* readPty, cmd.Wait and the process *)

\* The process ends by itself.
ProcessExits(t) ==
  /\ term[t].proc = "run"
  /\ term' = [term EXCEPT ![t].proc = "dead"]
  /\ UNCHANGED <<registry, conn, overlapped, before>>

\* Read returns output, which may be left over from a process that has ended.
ReadData(t) ==
  /\ term[t].reader = "read" /\ ~term[t].shut
  /\ term' = [term EXCEPT ![t].reader = "queue"]
  /\ UNCHANGED <<registry, conn, overlapped, before>>

\* queueWrite of the frame.
QueueData(t) ==
  /\ term[t].reader = "queue"
  /\ term' = [term EXCEPT ![t].reader = "read",
                ![t].late = IF term[t].closing = "done" THEN @ + 1 ELSE @]
  /\ UNCHANGED <<registry, conn, overlapped, before>>

Broken(t) == term[t].shut \/ term[t].proc = "dead"

\* Read fails once the pty is closed or has nobody at the other end.
ReadFails(t) ==
  /\ term[t].reader = "read" /\ Broken(t)
  /\ term' = [term EXCEPT ![t] = [Called(@) EXCEPT !.reader = "end"]]
  /\ UNCHANGED <<registry, conn, overlapped, before>>

WaitReturns(t) ==
  /\ term[t].waiting /\ term[t].proc = "dead"
  /\ term' = [term EXCEPT ![t] = [Called(@) EXCEPT !.waiting = FALSE]]
  /\ UNCHANGED <<registry, conn, overlapped, before>>

\* The goroutine a CLOSE of the client has started.
AskedToClose(t) ==
  /\ term[t].asked
  /\ term' = [term EXCEPT ![t] = [Called(@) EXCEPT !.asked = FALSE]]
  /\ UNCHANGED <<registry, conn, overlapped, before>>

-------------------------------------------------------------------------------
(* The read loop: handleDataPacket, handleClosePacket, deleteAllWispStreams *)

\* DATA for an open terminal: writePty may block.
Write(i) ==
  /\ loop = "run" /\ registry[i] # None /\ term[registry[i]].isOpen
  /\ loop' = "write" /\ target' = registry[i]
  /\ UNCHANGED <<term, registry, toClose, overlapped, before>>

WriteReturns ==
  /\ loop = "write" /\ ~term[target].shut
  /\ loop' = "run" /\ target' = None
  /\ UNCHANGED <<term, registry, toClose, overlapped, before>>

\* The read loop closes the terminal itself, and is busy until that is done.
WriteFails ==
  /\ loop = "write" /\ Broken(target)
  /\ term' = [term EXCEPT ![target] = Called(@)]
  /\ loop' = IF Wins(term[target]) THEN "close" ELSE "run"
  /\ target' = IF Wins(term[target]) THEN target ELSE None
  /\ UNCHANGED <<registry, toClose, overlapped, before>>

ClosedByLoop ==
  /\ loop = "close" /\ term[target].closing = "done"
  /\ loop' = "run" /\ target' = None
  /\ UNCHANGED <<term, registry, toClose, overlapped, before>>

ClientCloses(i) ==
  /\ loop = "run" /\ registry[i] # None
  /\ term' = [term EXCEPT ![registry[i]].asked = TRUE]
  /\ UNCHANGED <<registry, conn, overlapped, before>>

LoopEnds ==
  /\ loop = "run"
  /\ loop' = "teardown"
  /\ UNCHANGED <<term, registry, target, toClose, overlapped, before>>

\* The copy of the registry taken under its mutex.
Snapshot ==
  /\ loop = "teardown"
  /\ loop' = "closeAll" /\ toClose' = {registry[i] : i \in Ids} \ {None}
  /\ before' = {t \in Terms : term[t].pc = "up"}
  /\ UNCHANGED <<term, registry, target, overlapped>>

\* The loop over the copy: a close it has won runs to its end before the next.
CloseOne(t) ==
  /\ loop = "closeAll" /\ target = None /\ t \in toClose
  /\ term' = [term EXCEPT ![t] = Called(@)]
  /\ target' = IF Wins(term[t]) THEN t ELSE None
  /\ toClose' = toClose \ {t}
  /\ UNCHANGED <<registry, loop, overlapped, before>>

ClosedOne ==
  /\ loop = "closeAll" /\ target # None /\ term[target].closing = "done"
  /\ target' = None
  /\ UNCHANGED <<term, registry, loop, toClose, overlapped, before>>

TornDown ==
  /\ loop = "closeAll" /\ target = None /\ toClose = {}
  /\ loop' = "over"
  /\ UNCHANGED <<term, registry, target, toClose, overlapped, before>>

-------------------------------------------------------------------------------
Goroutines(t) ==
  \/ Refuse(t) \/ StartProcess(t) \/ Register(t) \/ Close(t)
  \/ ReadData(t) \/ QueueData(t) \/ ReadFails(t) \/ WaitReturns(t) \/ AskedToClose(t)

Teardown == Snapshot \/ (\E t \in Terms : CloseOne(t)) \/ ClosedOne \/ TornDown

ReadLoop ==
  \/ \E i \in Ids : Write(i) \/ ClientCloses(i) \/ \E t \in Terms : Connect(t, i)
  \/ WriteReturns \/ WriteFails \/ ClosedByLoop \/ LoopEnds

Next == (\E t \in Terms : Goroutines(t) \/ ProcessExits(t)) \/ ReadLoop \/ Teardown

\* Every goroutine that can run does.  Nothing is assumed of the process, which
\* may never read, write or end, nor of the client.
Fairness ==
  /\ \A t \in Terms : /\ WF_vars(Refuse(t) \/ StartProcess(t) \/ Register(t))
                      /\ WF_vars(Close(t)) /\ WF_vars(WaitReturns(t))
  /\ WF_vars(Teardown)

Spec == Init /\ [][Next]_vars /\ Fairness

-------------------------------------------------------------------------------
(* Properties *)

\* The type invariant, with what close() relies on: whoever is past the swap has
\* closed the terminal for everybody else.
TypeOK ==
  /\ term \in [Terms -> Terminal]
  /\ registry \in [Ids -> Terms \cup {None}]
  /\ loop \in {"run", "write", "close", "teardown", "closeAll", "over"}
  /\ target \in Terms \cup {None}
  /\ toClose \subseteq Terms /\ overlapped \subseteq Terms /\ before \subseteq Terms
  /\ \A t \in Terms : term[t].closing # "no" => ~term[t].isOpen

\* A client that takes an id again only once it has been sent the CLOSE of the
\* terminal that had it keeps every open terminal within reach of DATA, CLOSE and
\* the teardown: no late close of an earlier terminal removes its entry, although
\* remove() deletes by id and add() overwrites (twisp.go).
TerminalRegistered ==
  \A t \in Terms \ overlapped : term[t].isOpen => registry[term[t].id] = t

\* What the client may still get for an id after its CLOSE: one frame that readPty
\* had read before close() shut the pty under it, and never a second one.
LateOutput == \A t \in Terms : term[t].late <= 1

\* However a process ends, the client is sent the CLOSE of its terminal (twisp.go:
\* by the goroutine in cmd.Wait, by readPty, or by whoever closed it).
ExitReported ==
  \A t \in Terms :
    (term[t].pc = "up" /\ term[t].proc = "dead") ~> term[t].closing = "done"

\* No process outlives its connection: the teardown kills every terminal that was
\* registered when it looked.  Those started later, and those whose id was taken
\* twice, it does not reach.
TeardownKills ==
  \A t \in Terms : (t \in before \ overlapped) ~> term[t].proc = "dead"
==============================================================================
