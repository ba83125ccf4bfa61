------------------------------- MODULE Wrapper -------------------------------
(***************************************************************************)
(* The Node.js wrapper (src/index.ts): class Mrrowisp spawns Count worker  *)
(* processes, each on a port it has probed first, routes upgrades across   *)
(* them in turn, and signals them on stop() and kill().  JavaScript runs   *)
(* to completion, so an action is what happens between two awaits or in    *)
(* one event handler; the workers run on their own.                        *)
(*                                                                         *)
(* The application calls start() when the wrapper is not running and no    *)
(* start() is pending, and stop(), kill() and route() whenever it likes.   *)
(***************************************************************************)
EXTENDS Integers, Sequences, SequencesExt

CONSTANTS Procs,         \* the child processes there can be in all (a bound)
          Count,         \* the argument of start()
          MaxPort,       \* the ports are 1 .. MaxPort (a bound)
          Port           \* config.port, for each index

ASSUME WrapperAssumption ==
  /\ Count \in Nat \ {0} /\ MaxPort \in Nat
  /\ Port \in [0 .. Count - 1 -> 1 .. MaxPort]

Indices == 0 .. Count - 1

VARIABLES running,       \* this.processes is not undefined
          processes,     \* this.processes, as a sequence of children
          processPorts,  \* this.processPorts
          reqIndex,      \* this.reqIndex
          startPc,       \* start(): "idle", or "probe" while it awaits detect()
          i, probed,     \* its loop variable and the port it is probing
          child,         \* what each child process is doing,
          index, port,   \* the i and the port it was spawned with
          signalled,     \* the children that were sent SIGTERM or SIGKILL
          watched        \* the children whose "close" event has a handler

wrapperVars == <<running, processes, processPorts, reqIndex, startPc, i, probed,
                 child, index, port, signalled, watched>>

listVars == <<running, processes, processPorts>>
startVars == <<startPc, i, probed>>
childVars == <<child, index, port, signalled, watched>>

WrapperInit ==
  /\ running = FALSE /\ processes = <<>> /\ processPorts = <<>> /\ reqIndex = 0
  /\ startPc = "idle" /\ i = 0 /\ probed = 1
  /\ child = [p \in Procs |-> "unborn"]
  /\ index = [p \in Procs |-> 0]
  /\ port = [p \in Procs |-> 1]
  /\ signalled = {} /\ watched = {}

\* A child that has not ended.
Alive(p) == child[p] \in {"starting", "listening"}

Bound(n) == \E p \in Procs : child[p] = "listening" /\ port[p] = n

-------------------------------------------------------------------------------
(* start() *)

Start ==
  /\ startPc = "idle" /\ ~running
  /\ running' = TRUE /\ processes' = <<>> /\ processPorts' = <<>>
  /\ startPc' = "probe" /\ i' = 0 /\ probed' = Port[0]
  /\ UNCHANGED <<reqIndex, childVars>>

\* detect() has found the port taken: getAvailablePort tries the next.
Taken ==
  /\ startPc = "probe" /\ Bound(probed)
  /\ probed < MaxPort
  /\ probed' = probed + 1
  /\ UNCHANGED <<listVars, reqIndex, startPc, i, childVars>>

\* detect() has found it free: spawn, and on to the next index.
Spawn(p) ==
  /\ startPc = "probe" /\ ~Bound(probed)
  /\ child[p] = "unborn"
  /\ child' = [child EXCEPT ![p] = "starting"]
  /\ index' = [index EXCEPT ![p] = i]
  /\ port' = [port EXCEPT ![p] = probed]
  /\ UNCHANGED <<running, reqIndex, signalled>>

SpawnListed(p) ==
  /\ running
  /\ Spawn(p)
  /\ processes' = Append(processes, p)
  /\ processPorts' = Append(processPorts, probed)
  /\ watched' = watched \cup {p}
  /\ IF i + 1 < Count
     THEN startPc' = startPc /\ i' = i + 1 /\ probed' = Port[i + 1]
     ELSE startPc' = "idle" /\ i' = 0 /\ probed' = 1

\* `push` throws when this.processes has become undefined during the await: the
\* child is there by then, and no handler is ever attached to it.
SpawnThrows(p) ==
  /\ ~running
  /\ Spawn(p)
  /\ startPc' = "idle" /\ i' = 0 /\ probed' = 1
  /\ UNCHANGED <<processes, processPorts, watched>>

-------------------------------------------------------------------------------
(* The workers *)

\* ListenAndServe binds the port, or finds it taken and main returns.
Listens(p) ==
  /\ child[p] = "starting"
  /\ child' = [child EXCEPT ![p] = IF Bound(port[p]) THEN "ended" ELSE "listening"]
  /\ UNCHANGED <<listVars, reqIndex, startVars, index, port, signalled, watched>>

\* A worker ends: it crashes, or main returns because it was signalled.
Ends(p) ==
  /\ Alive(p)
  /\ child' = [child EXCEPT ![p] = "ended"]
  /\ UNCHANGED <<listVars, reqIndex, startVars, index, port, signalled, watched>>

\* Mutant of EntryOf: the index is taken for a position in the array.
EntryAt(k) == IF k + 1 \in DOMAIN processes THEN {k + 1} ELSE {}

\* findIndex: the entry with this index, or none.
EntryOf(k) == {n \in DOMAIN processes : index[processes[n]] = k}

\* The "close" event of a child, whose handler knows it by its index only.
CloseEvent(p) ==
  /\ child[p] = "ended" /\ p \in watched
  /\ child' = [child EXCEPT ![p] = "closed"]
  /\ IF running /\ EntryOf(index[p]) # {}
     THEN LET n == CHOOSE m \in EntryOf(index[p]) : TRUE
          IN /\ processes' = RemoveAt(processes, n)
             /\ processPorts' = RemoveAt(processPorts, n)
     ELSE UNCHANGED <<processes, processPorts>>
  /\ running' = (running /\ processes' # <<>>)
  /\ UNCHANGED <<reqIndex, startVars, index, port, signalled, watched>>

-------------------------------------------------------------------------------
(* stop(), kill() and route() *)

\* Mutant of PortsAfterSignal: the ports are not forgotten.
PortsKept == processPorts

PortsAfterSignal == <<>>

Stop ==
  /\ running
  /\ signalled' = signalled \cup ToSet(processes)
  /\ running' = FALSE /\ processes' = <<>>
  /\ processPorts' = PortsAfterSignal
  /\ UNCHANGED <<reqIndex, startVars, child, index, port, watched>>

Wrapped(n) == (n + 1) % Len(processPorts)

\* route() picks a port with nextPort; without a worker it destroys the socket.
Route ==
  /\ running /\ processPorts # <<>>
  /\ reqIndex' = Wrapped(reqIndex % Len(processPorts))
  /\ UNCHANGED <<listVars, startVars, childVars>>

WrapperNext ==
  \/ Start \/ Taken \/ Stop \/ Route
  \/ \E p \in Procs : \/ SpawnListed(p) \/ SpawnThrows(p)
                      \/ Listens(p) \/ Ends(p) \/ CloseEvent(p)

WrapperSafety == WrapperInit /\ [][WrapperNext]_wrapperVars

\* The operating system runs the workers and ends those that were signalled; the
\* event loop delivers their events.
WrapperFairness ==
  \A p \in Procs : /\ WF_wrapperVars(Listens(p))
                   /\ WF_wrapperVars(p \in signalled /\ Ends(p))
                   /\ WF_wrapperVars(CloseEvent(p))

WrapperSpec == WrapperSafety /\ WrapperFairness

-------------------------------------------------------------------------------
(* Properties *)

\* The two arrays stay aligned through spawns, close events and signals in any
\* order: position n of processPorts is the port of the worker at position n of
\* processes, so route() never sends a client to a port that is no listed worker's.
Aligned ==
  /\ Len(processPorts) = Len(processes)
  /\ \A n \in DOMAIN processes : processPorts[n] = port[processes[n]]

\* A worker that ended leaves the list, so that upgrades stop going to its port.
EndedLeaves ==
  \A p \in Procs : child[p] = "ended" ~> p \notin ToSet(processes)
==============================================================================
