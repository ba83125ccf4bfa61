---------------------------- MODULE ProcessProofs -----------------------------
(***************************************************************************)
(* The processes the program starts.  For any number of terminals and ids: *)
(* the types of Twisp, that a terminal whose id is not taken twice stays   *)
(* registered while it is open, and that at most one frame follows its     *)
(* CLOSE.  For any number of workers and ports: the wrapper's two lists    *)
(* stay aligned.                                                           *)
(***************************************************************************)
EXTENDS Twisp, Wrapper, TLAPS

-------------------------------------------------------------------------------
(* Terminals (twisp.go) *)

\* What holds of every terminal by itself.
Sound(r) ==
  /\ r.pc \in {"start", "add", "up"} => r.id \in Ids
  /\ r.pc # "up" => r.closing = "no" /\ ~r.isOpen
  /\ r.closing # "no" => ~r.isOpen
  /\ r.closing \in {"send", "done"} => r.shut
  /\ r.late > 0 => r.closing = "done" /\ r.reader # "queue"
  /\ r.late <= 1

Using(r) == r.pc \in {"start", "add", "up"} /\ r.closing # "done"

\* Whoever shares its id with another terminal under way is known to.
OverlapInv ==
  \A t, u \in Terms :
    t # u /\ Using(term[t]) /\ Using(term[u]) /\ term[t].id = term[u].id
      => t \in overlapped

TermInv ==
  /\ term \in [Terms -> Terminal]
  /\ \A t \in Terms : Sound(term[t])
  /\ OverlapInv
  /\ TerminalRegistered

RestTypes ==
  /\ registry \in [Ids -> Terms \cup {None}]
  /\ loop \in {"run", "write", "close", "teardown", "closeAll", "over"}
  /\ target \in Terms \cup {None}
  /\ toClose \subseteq Terms /\ overlapped \subseteq Terms /\ before \subseteq Terms

Inv == TermInv /\ RestTypes

-------------------------------------------------------------------------------
\* The invariant holds at the start: no terminal is under way.
LEMMA InitInv == Init => Inv
BY TwispAssumption DEF Init, Inv, TermInv, RestTypes, Terminal, Sound, Using, OverlapInv,
   TerminalRegistered

\* A call of close takes isOpen and goes no further; it keeps a terminal sound.
LEMMA CalledSound ==
  ASSUME NEW r \in Terminal, Sound(r)
  PROVE  /\ Called(r) \in Terminal /\ Sound(Called(r))
         /\ Called(r).id = r.id /\ Called(r).pc = r.pc /\ ~Called(r).isOpen
         /\ Using(Called(r)) => Using(r)
<1>1. CASE r.isOpen
  <2>1. PICK n : n = [r EXCEPT !.isOpen = FALSE, !.closing = "remove"]
    OBVIOUS
  <2>2. n \in Terminal /\ n.isOpen = FALSE /\ n.closing = "remove"
    BY <2>1 DEF Terminal
  <2>3. /\ n.id = r.id /\ n.pc = r.pc /\ n.shut = r.shut
        /\ n.late = r.late /\ n.reader = r.reader
    BY <2>1 DEF Terminal
  <2>4. r.closing = "no" /\ r.late = 0 /\ r.pc = "up"
    BY <1>1 DEF Sound, Terminal
  <2>5. Sound(n) /\ (Using(n) => Using(r))
    BY <2>2, <2>3, <2>4 DEF Sound, Using
  <2> QED BY <1>1, <2>1, <2>2, <2>3, <2>5 DEF Called, Wins
<1>2. CASE ~r.isOpen
  BY <1>2 DEF Called, Wins
<1> QED BY <1>1, <1>2

\* So does what a caller of close does next.
LEMMA FieldSound ==
  ASSUME NEW r \in Terminal, Sound(r), NEW n,
         \/ n = r
         \/ n = [r EXCEPT !.reader = "end"]
         \/ n = [r EXCEPT !.waiting = FALSE]
         \/ n = [r EXCEPT !.asked = FALSE]
  PROVE  n \in Terminal /\ Sound(n) /\ n.id = r.id /\ n.isOpen = r.isOpen
         /\ (Using(n) => Using(r))
<1>1. n \in Terminal
  BY ZenonT(30) DEF Terminal
<1>2. /\ n.id = r.id /\ n.pc = r.pc /\ n.isOpen = r.isOpen /\ n.closing = r.closing
      /\ n.shut = r.shut /\ n.late = r.late /\ (n.reader = r.reader \/ n.reader = "end")
  BY DEF Terminal
<1> QED BY <1>1, <1>2 DEF Sound, Using

\* A step that changes one terminal, neither opens it nor puts it to use, and leaves
\* the registry alone keeps the invariant on terminals.
LEMMA OneChanges ==
  ASSUME TermInv, NEW t \in Terms, NEW n \in Terminal, Sound(n),
         term' = [term EXCEPT ![t] = n],
         n.id = term[t].id, Using(n) => Using(term[t]), n.isOpen => term[t].isOpen,
         UNCHANGED <<registry, overlapped>>
  PROVE  TermInv'
<1>1. term' \in [Terms -> Terminal]
  BY DEF TermInv
<1>2. \A u \in Terms : term'[u] = IF u = t THEN n ELSE term[u]
  BY DEF TermInv
<1>3. \A u \in Terms : Sound(term'[u])
  BY <1>2 DEF TermInv
<1>4. OverlapInv'
  <2> SUFFICES ASSUME NEW u \in Terms, NEW v \in Terms, u # v, Using(term'[u]),
                      Using(term'[v]), term'[u].id = term'[v].id
               PROVE  u \in overlapped
    BY DEF OverlapInv, Using
  <2>1. Using(term[u]) /\ Using(term[v]) /\ term[u].id = term[v].id
    BY <1>2
  <2> QED BY <2>1 DEF TermInv, OverlapInv
<1>5. TerminalRegistered'
  BY <1>2 DEF TermInv, TerminalRegistered
<1> QED BY <1>1, <1>3, <1>4, <1>5 DEF TermInv, Sound

\* The same for a step that leaves all the terminals alone.
LEMMA NoneChanges ==
  ASSUME TermInv, UNCHANGED <<term, registry, overlapped>>
  PROVE  TermInv'
BY DEF TermInv, OverlapInv, TerminalRegistered, Sound, Using

-------------------------------------------------------------------------------
\* A CONNECT: the only step that takes an id, and the one that notes who shares it.
LEMMA ConnectStep ==
  ASSUME Inv, NEW t \in Terms, NEW id \in Ids, Connect(t, id)
  PROVE  TermInv'
<1> DEFINE n == [term[t] EXCEPT !.id = id, !.pc = "start"]
<1>1. n \in Terminal /\ Sound(n) /\ n.id = id /\ n.isOpen = term[t].isOpen
  BY DEF Inv, TermInv, Connect, Terminal, Sound
<1>2. term' = [term EXCEPT ![t] = n]
  BY DEF Connect, Inv, TermInv, Terminal
<1>3. term' \in [Terms -> Terminal]
  BY <1>1, <1>2 DEF Inv, TermInv
<1>4. \A u \in Terms : term'[u] = IF u = t THEN n ELSE term[u]
  BY <1>2 DEF Inv, TermInv
<1>5. \A u \in Terms : Sound(term'[u])
  BY <1>1, <1>4 DEF Inv, TermInv
<1>6. ~n.isOpen
  BY <1>1 DEF Connect, Inv, TermInv, Sound
<1>7. overlapped \subseteq overlapped'
  BY DEF Connect
<1>8. OverlapInv'
  <2> SUFFICES ASSUME NEW u \in Terms, NEW v \in Terms, u # v, Using(term'[u]),
                      Using(term'[v]), term'[u].id = term'[v].id
               PROVE  u \in overlapped'
    BY DEF OverlapInv, Using
  <2>1. CASE u # t /\ v # t
    BY <2>1, <1>4, <1>7 DEF Inv, TermInv, OverlapInv
  <2>2. CASE u = t
    <3>1. v \in InUse(id)
      BY <2>2, <1>1, <1>4 DEF InUse, Using
    <3> QED BY <2>2, <3>1 DEF Connect
  <2>3. CASE v = t
    <3>1. u \in InUse(id)
      BY <2>3, <1>1, <1>4 DEF InUse, Using
    <3> QED BY <2>3, <3>1 DEF Connect
  <2> QED BY <2>1, <2>2, <2>3
<1>9. TerminalRegistered'
  BY <1>4, <1>6, <1>7 DEF Inv, TermInv, TerminalRegistered, Connect
<1> QED BY <1>3, <1>5, <1>8, <1>9 DEF TermInv, Sound

\* add overwrites; an open terminal it displaces shared its id.
LEMMA RegisterStep ==
  ASSUME Inv, NEW t \in Terms, Register(t)
  PROVE  TermInv' /\ registry' \in [Ids -> Terms \cup {None}]
<1> DEFINE n == [term[t] EXCEPT !.pc = "up", !.isOpen = TRUE, !.reader = "read",
                                !.waiting = TRUE]
<1>1. /\ n \in Terminal /\ Sound(n) /\ Using(n) /\ Using(term[t])
      /\ n.id = term[t].id /\ n.id \in Ids
  BY DEF Inv, TermInv, Register, Terminal, Sound, Using
<1>2. term' = [term EXCEPT ![t] = n]
  BY DEF Register, Inv, TermInv, Terminal
<1>3. term' \in [Terms -> Terminal]
  BY <1>1, <1>2 DEF Inv, TermInv
<1>4. \A u \in Terms : term'[u] = IF u = t THEN n ELSE term[u]
  BY <1>2 DEF Inv, TermInv
<1>5. \A u \in Terms : Sound(term'[u])
  BY <1>1, <1>4 DEF Inv, TermInv
<1>6. OverlapInv'
  <2> SUFFICES ASSUME NEW u \in Terms, NEW v \in Terms, u # v, Using(term'[u]),
                      Using(term'[v]), term'[u].id = term'[v].id
               PROVE  u \in overlapped
    BY DEF OverlapInv, Using, Register
  <2>1. Using(term[u]) /\ Using(term[v]) /\ term[u].id = term[v].id
    BY <1>1, <1>4
  <2> QED BY <2>1 DEF Inv, TermInv, OverlapInv
<1>7. TerminalRegistered'
  <2> SUFFICES ASSUME NEW u \in Terms \ overlapped, term'[u].isOpen
               PROVE  registry'[term'[u].id] = u
    BY DEF TerminalRegistered, Register
  <2>1. CASE u = t
    BY <2>1, <1>1, <1>4 DEF Register, Inv, RestTypes
  <2>2. CASE u # t
    <3>1. term'[u] = term[u] /\ Using(term[u]) /\ registry[term[u].id] = u
      BY <2>2, <1>4 DEF Inv, TermInv, Sound, Using, TerminalRegistered
    <3>2. term[u].id # term[t].id
      BY <2>2, <3>1, <1>1 DEF Inv, TermInv, OverlapInv
    <3>3. term[u].id \in Ids
      BY <3>1 DEF Inv, TermInv, Sound, Using
    <3> QED BY <3>1, <3>2, <3>3 DEF Register, Inv, RestTypes
  <2> QED BY <2>1, <2>2
<1>8. registry' \in [Ids -> Terms \cup {None}]
  BY DEF Register, Inv, RestTypes
<1> QED BY <1>3, <1>5, <1>6, <1>7, <1>8 DEF TermInv, Sound

\* remove deletes by id; an open terminal whose entry it takes shared its id.
LEMMA RemoveStep ==
  ASSUME Inv, NEW t \in Terms, RemoveTerminal(t)
  PROVE  TermInv' /\ registry' \in [Ids -> Terms \cup {None}]
<1> DEFINE n == [term[t] EXCEPT !.closing = "end"]
<1>1. /\ n \in Terminal /\ Sound(n) /\ Using(n) /\ Using(term[t])
      /\ n.id = term[t].id /\ ~n.isOpen
  BY DEF Inv, TermInv, RemoveTerminal, Terminal, Sound, Using
<1>2. term' = [term EXCEPT ![t] = n]
  BY DEF RemoveTerminal, Inv, TermInv, Terminal
<1>3. term' \in [Terms -> Terminal]
  BY <1>1, <1>2 DEF Inv, TermInv
<1>4. \A u \in Terms : term'[u] = IF u = t THEN n ELSE term[u]
  BY <1>2 DEF Inv, TermInv
<1>5. \A u \in Terms : Sound(term'[u])
  BY <1>1, <1>4 DEF Inv, TermInv
<1>6. OverlapInv'
  <2> SUFFICES ASSUME NEW u \in Terms, NEW v \in Terms, u # v, Using(term'[u]),
                      Using(term'[v]), term'[u].id = term'[v].id
               PROVE  u \in overlapped
    BY DEF OverlapInv, Using, RemoveTerminal
  <2>1. Using(term[u]) /\ Using(term[v]) /\ term[u].id = term[v].id
    BY <1>1, <1>4
  <2> QED BY <2>1 DEF Inv, TermInv, OverlapInv
<1>7. TerminalRegistered'
  <2> SUFFICES ASSUME NEW u \in Terms \ overlapped, term'[u].isOpen
               PROVE  registry'[term'[u].id] = u
    BY DEF TerminalRegistered, RemoveTerminal
  <2>1. u # t /\ term'[u] = term[u]
    BY <1>1, <1>4
  <2>2. Using(term[u]) /\ registry[term[u].id] = u
    BY <2>1 DEF Inv, TermInv, Sound, Using, TerminalRegistered
  <2>3. term[u].id # term[t].id
    BY <2>1, <2>2, <1>1 DEF Inv, TermInv, OverlapInv
  <2>4. term[u].id \in Ids
    BY <2>2 DEF Inv, TermInv, Sound, Using
  <2> QED BY <2>1, <2>2, <2>3, <2>4 DEF RemoveTerminal, Inv, RestTypes
<1>8. registry' \in [Ids -> Terms \cup {None}]
  BY DEF RemoveTerminal, Inv, RestTypes
<1> QED BY <1>3, <1>5, <1>6, <1>7, <1>8 DEF TermInv, Sound
-------------------------------------------------------------------------------
\* handleTwisp until the terminal is up, the end of close, and the process.
LEMMA PlainStep ==
  ASSUME Inv, NEW t \in Terms,
         \/ Refuse(t) \/ StartProcess(t) \/ EndTerminal(t) \/ SendClose(t)
         \/ ProcessExits(t) \/ ReadData(t) \/ QueueData(t)
  PROVE  TermInv'
<1> USE DEF Terminal, Sound, Using
<1>0. term[t] \in Terminal /\ Sound(term[t]) /\ TermInv
  BY DEF Inv, TermInv
<1>1. CASE Refuse(t)
  <2> DEFINE n == [term[t] EXCEPT !.pc = "refused"]
  <2>1. n \in Terminal /\ Sound(n)
    BY <1>0, <1>1 DEF Refuse
  <2>2. n.id = term[t].id /\ (Using(n) => Using(term[t])) /\ n.isOpen = term[t].isOpen
    BY <1>0, <1>1
  <2>3. term' = [term EXCEPT ![t] = n]
    BY <1>0, <1>1 DEF Refuse, TermInv
  <2> HIDE DEF Terminal, Sound, Using, n
  <2> QED BY <1>0, <1>1, <2>1, <2>2, <2>3, OneChanges DEF Refuse
<1>2. CASE StartProcess(t)
  <2> DEFINE n == [term[t] EXCEPT !.pc = "add", !.proc = "run"]
  <2>1. n \in Terminal /\ Sound(n)
    BY <1>0, <1>2 DEF StartProcess
  <2>2. n.id = term[t].id /\ (Using(n) => Using(term[t])) /\ n.isOpen = term[t].isOpen
    BY <1>0, <1>2 DEF StartProcess
  <2>3. term' = [term EXCEPT ![t] = n]
    BY <1>0, <1>2 DEF StartProcess, TermInv
  <2> HIDE DEF Terminal, Sound, Using, n
  <2> QED BY <1>0, <1>2, <2>1, <2>2, <2>3, OneChanges DEF StartProcess
<1>3. CASE EndTerminal(t)
  <2> DEFINE n == Ended(term[t])
  <2>1. n \in Terminal /\ Sound(n)
    BY <1>0, <1>3 DEF EndTerminal, Ended
  <2>2. n.id = term[t].id /\ (Using(n) => Using(term[t])) /\ n.isOpen = term[t].isOpen
    BY <1>0, <1>3 DEF EndTerminal, Ended
  <2>3. term' = [term EXCEPT ![t] = n]
    BY <1>0, <1>3 DEF EndTerminal, TermInv
  <2> HIDE DEF Terminal, Sound, Using, n
  <2> QED BY <1>0, <1>3, <2>1, <2>2, <2>3, OneChanges DEF EndTerminal
<1>4. CASE SendClose(t)
  <2> DEFINE n == [term[t] EXCEPT !.closing = "done"]
  <2>1. n \in Terminal /\ Sound(n)
    BY <1>0, <1>4 DEF SendClose
  <2>2. n.id = term[t].id /\ (Using(n) => Using(term[t])) /\ n.isOpen = term[t].isOpen
    BY <1>0, <1>4 DEF SendClose
  <2>3. term' = [term EXCEPT ![t] = n]
    BY <1>0, <1>4 DEF SendClose, TermInv
  <2> HIDE DEF Terminal, Sound, Using, n
  <2> QED BY <1>0, <1>4, <2>1, <2>2, <2>3, OneChanges DEF SendClose
<1>5. CASE ProcessExits(t)
  <2> DEFINE n == [term[t] EXCEPT !.proc = "dead"]
  <2>1. n \in Terminal /\ Sound(n)
    BY <1>0
  <2>2. n.id = term[t].id /\ (Using(n) => Using(term[t])) /\ n.isOpen = term[t].isOpen
    BY <1>0
  <2>3. term' = [term EXCEPT ![t] = n]
    BY <1>0, <1>5 DEF ProcessExits, TermInv
  <2> HIDE DEF Terminal, Sound, Using, n
  <2> QED BY <1>0, <1>5, <2>1, <2>2, <2>3, OneChanges DEF ProcessExits
<1>6. CASE ReadData(t)
  <2> DEFINE n == [term[t] EXCEPT !.reader = "queue"]
  <2>1. n \in Terminal /\ Sound(n)
    BY <1>0, <1>6 DEF ReadData
  <2>2. n.id = term[t].id /\ (Using(n) => Using(term[t])) /\ n.isOpen = term[t].isOpen
    BY <1>0
  <2>3. term' = [term EXCEPT ![t] = n]
    BY <1>0, <1>6 DEF ReadData, TermInv
  <2> HIDE DEF Terminal, Sound, Using, n
  <2> QED BY <1>0, <1>6, <2>1, <2>2, <2>3, OneChanges DEF ReadData
<1>7. CASE QueueData(t)
  <2>1. PICK k : k = IF term[t].closing = "done" THEN term[t].late + 1 ELSE term[t].late
    OBVIOUS
  <2>2. PICK n : n = [term[t] EXCEPT !.reader = "read", !.late = k]
    OBVIOUS
  <2>3. term[t].reader = "queue" /\ UNCHANGED <<registry, overlapped>>
    BY <1>7 DEF QueueData
  <2>4. term' = [term EXCEPT ![t] = n]
    BY <1>0, <1>7, <2>1, <2>2 DEF QueueData, TermInv
  <2>5. term[t].late = 0 /\ k \in Nat /\ k <= 1 /\ (k > 0 => term[t].closing = "done")
    BY <1>0, <2>1, <2>3
  <2>6. n \in Terminal /\ Sound(n) /\ n.id = term[t].id /\ n.isOpen = term[t].isOpen
        /\ (Using(n) => Using(term[t]))
    BY <1>0, <2>2, <2>5
  <2> HIDE DEF Terminal, Sound, Using
  <2> QED BY <1>0, <2>3, <2>4, <2>6, OneChanges
<1> QED BY <1>1, <1>2, <1>3, <1>4, <1>5, <1>6, <1>7

\* Whoever calls close, and ends or goes on: readPty, Wait, a CLOSE, the read loop.
LEMMA CallStep ==
  ASSUME Inv, NEW t \in Terms, NEW n,
         \/ n = Called(term[t])
         \/ n = [Called(term[t]) EXCEPT !.reader = "end"]
         \/ n = [Called(term[t]) EXCEPT !.waiting = FALSE]
         \/ n = [Called(term[t]) EXCEPT !.asked = FALSE],
         term' = [term EXCEPT ![t] = n], UNCHANGED <<registry, overlapped>>
  PROVE  TermInv'
<1>0. term[t] \in Terminal /\ Sound(term[t]) /\ TermInv
  BY DEF Inv, TermInv
<1>1. PICK m : m = Called(term[t])
  OBVIOUS
<1>2. /\ m \in Terminal /\ Sound(m) /\ m.id = term[t].id /\ ~m.isOpen
      /\ Using(m) => Using(term[t])
  BY <1>0, <1>1, CalledSound
<1>3. n \in Terminal /\ Sound(n) /\ n.id = m.id /\ n.isOpen = m.isOpen
      /\ (Using(n) => Using(m))
  BY <1>1, <1>2, FieldSound
<1> QED BY <1>0, <1>2, <1>3, OneChanges

\* Every step of Next keeps the invariant.
LEMMA StepInv == Inv /\ [Next]_vars => Inv'
<1> SUFFICES ASSUME Inv, [Next]_vars PROVE Inv'
  OBVIOUS
<1> USE DEF Inv
<1>1. ASSUME NEW t \in Terms, Goroutines(t) \/ ProcessExits(t)
      PROVE  Inv'
  <2>1. CASE \/ Refuse(t) \/ StartProcess(t) \/ EndTerminal(t) \/ SendClose(t)
             \/ ProcessExits(t) \/ ReadData(t) \/ QueueData(t)
    <3>1. UNCHANGED <<registry, conn, overlapped, before>>
      BY <2>1 DEF Refuse, StartProcess, EndTerminal, SendClose, ProcessExits, ReadData,
         QueueData
    <3> QED BY <2>1, <3>1, PlainStep DEF RestTypes, conn
  <2>2. CASE Register(t)
    BY <2>2, RegisterStep DEF Register, RestTypes, conn
  <2>3. CASE RemoveTerminal(t)
    BY <2>3, RemoveStep DEF RemoveTerminal, RestTypes, conn
  <2>4. CASE ReadFails(t)
    <3>1. term' = [term EXCEPT ![t] = [Called(term[t]) EXCEPT !.reader = "end"]]
      BY <2>4 DEF ReadFails, TermInv
    <3>2. UNCHANGED <<registry, conn, overlapped, before>>
      BY <2>4 DEF ReadFails
    <3> QED BY <3>1, <3>2, CallStep DEF RestTypes, conn
  <2>5. CASE WaitReturns(t)
    <3>1. term' = [term EXCEPT ![t] = [Called(term[t]) EXCEPT !.waiting = FALSE]]
      BY <2>5 DEF WaitReturns, TermInv
    <3>2. UNCHANGED <<registry, conn, overlapped, before>>
      BY <2>5 DEF WaitReturns
    <3> QED BY <3>1, <3>2, CallStep DEF RestTypes, conn
  <2>6. CASE AskedToClose(t)
    <3>1. term' = [term EXCEPT ![t] = [Called(term[t]) EXCEPT !.asked = FALSE]]
      BY <2>6 DEF AskedToClose, TermInv
    <3>2. UNCHANGED <<registry, conn, overlapped, before>>
      BY <2>6 DEF AskedToClose
    <3> QED BY <3>1, <3>2, CallStep DEF RestTypes, conn
  <2> QED BY <1>1, <2>1, <2>2, <2>3, <2>4, <2>5, <2>6 DEF Goroutines, Close
<1>2. ASSUME NEW id \in Ids, NEW t \in Terms, Connect(t, id)
      PROVE  Inv'
  BY <1>2, ConnectStep DEF Connect, InUse, RestTypes, conn
<1>3. ASSUME NEW id \in Ids, ClientCloses(id)
      PROVE  Inv'
  <2> DEFINE u == registry[id]
             n == [term[u] EXCEPT !.asked = TRUE]
  <2>1. u \in Terms /\ term[u] \in Terminal /\ Sound(term[u])
    BY <1>3 DEF ClientCloses, RestTypes, TermInv
  <2>2. n \in Terminal /\ Sound(n) /\ n.id = term[u].id /\ n.isOpen = term[u].isOpen
        /\ (Using(n) => Using(term[u]))
    BY <2>1 DEF Terminal, Sound, Using
  <2>3. term' = [term EXCEPT ![u] = n]
    BY <1>3 DEF ClientCloses
  <2>4. TermInv'
    BY <1>3, <2>1, <2>2, <2>3, OneChanges DEF ClientCloses
  <2> QED BY <1>3, <2>4 DEF ClientCloses, RestTypes, conn
<1>4. CASE WriteFails
  <2>1. CASE target \in Terms
    <3>1. TermInv'
      BY <1>4, <2>1, CallStep DEF WriteFails, TermInv
    <3> QED BY <1>4, <3>1 DEF WriteFails, RestTypes
  <2>2. CASE target \notin Terms
    <3>1. TermInv'
      BY <1>4, <2>2, NoneChanges DEF WriteFails, TermInv
    <3> QED BY <1>4, <3>1 DEF WriteFails, RestTypes
  <2> QED BY <2>1, <2>2
<1>5. ASSUME NEW t \in Terms, CloseOne(t)
      PROVE  Inv'
  <2>1. TermInv'
    BY <1>5, CallStep DEF CloseOne, TermInv
  <2> QED BY <1>5, <2>1 DEF CloseOne, RestTypes
<1>6. CASE \/ \E id \in Ids : Write(id)
           \/ WriteReturns \/ ClosedByLoop \/ LoopEnds \/ Snapshot \/ ClosedOne \/ TornDown
           \/ UNCHANGED vars
  <2>1. UNCHANGED <<term, registry, overlapped>>
    BY <1>6 DEF Write, WriteReturns, ClosedByLoop, LoopEnds, Snapshot, ClosedOne, TornDown,
       vars
  <2>2. RestTypes'
    BY <1>6 DEF Write, WriteReturns, ClosedByLoop, LoopEnds, Snapshot, ClosedOne, TornDown,
       vars, conn, RestTypes
  <2> QED BY <2>1, <2>2, NoneChanges
<1> QED BY <1>1, <1>2, <1>3, <1>4, <1>5, <1>6 DEF Next, ReadLoop, Teardown

-------------------------------------------------------------------------------
\* The invariant holds throughout.
LEMMA AlwaysInv == Spec => []Inv
BY InitInv, StepInv, PTL DEF Spec

\* Every variable keeps its type, and a terminal whose close has begun is open to
\* nobody: close runs once (twisp.go: CompareAndSwap).
THEOREM TypeCorrect == Spec => []TypeOK
<1>1. Inv => TypeOK
  BY DEF Inv, TermInv, RestTypes, TypeOK, Sound
<1> QED BY <1>1, AlwaysInv, PTL

\* For any number of terminals: a terminal whose id nobody else has taken meanwhile
\* is found under it as long as it is open, by DATA, CLOSE and the teardown.
THEOREM StaysRegistered == Spec => []TerminalRegistered
<1>1. Inv => TerminalRegistered
  BY DEF Inv, TermInv
<1> QED BY <1>1, AlwaysInv, PTL

\* For any number of terminals: no more than one frame follows the CLOSE.
THEOREM OneLateFrame == Spec => []LateOutput
<1>1. Inv => LateOutput
  BY DEF Inv, TermInv, LateOutput, Sound
<1> QED BY <1>1, AlwaysInv, PTL

-------------------------------------------------------------------------------
(* The workers of the wrapper (src/index.ts) *)

\* What is listed is a child that was spawned.
ListInv ==
  /\ processes \in Seq(Procs) /\ processPorts \in Seq(Nat)
  /\ \A n \in DOMAIN processes : child[processes[n]] # "unborn"

\* What the ports are taken from.
PortInv ==
  /\ port \in [Procs -> Nat] /\ child = [p \in Procs |-> child[p]]
  /\ probed \in Nat /\ i \in Indices

WrapperInv == ListInv /\ PortInv /\ Aligned

\* RemoveAt closes the gap.
LEMMA Removed ==
  ASSUME NEW S, NEW s \in Seq(S), NEW n \in 1 .. Len(s)
  PROVE  /\ RemoveAt(s, n) \in Seq(S) /\ Len(RemoveAt(s, n)) = Len(s) - 1
         /\ \A m \in 1 .. Len(s) - 1 : RemoveAt(s, n)[m] = IF m < n THEN s[m] ELSE s[m + 1]
<1>1. /\ SubSeq(s, 1, n - 1) \in Seq(S) /\ Len(SubSeq(s, 1, n - 1)) = n - 1
      /\ \A m \in 1 .. n - 1 : SubSeq(s, 1, n - 1)[m] = s[m]
  OBVIOUS
<1>2. /\ SubSeq(s, n + 1, Len(s)) \in Seq(S) /\ Len(SubSeq(s, n + 1, Len(s))) = Len(s) - n
      /\ \A m \in 1 .. Len(s) - n : SubSeq(s, n + 1, Len(s))[m] = s[n + m]
  OBVIOUS
<1>3. PICK t \in Seq(S) : t = SubSeq(s, 1, n - 1)
  BY <1>1
<1>4. PICK u \in Seq(S) : u = SubSeq(s, n + 1, Len(s))
  BY <1>2
<1>5. /\ t \o u \in Seq(S) /\ Len(t \o u) = Len(t) + Len(u)
      /\ \A m \in 1 .. Len(t) + Len(u) :
           (t \o u)[m] = IF m <= Len(t) THEN t[m] ELSE u[m - Len(t)]
  OBVIOUS
<1>6. RemoveAt(s, n) = t \o u
  BY <1>3, <1>4 DEF RemoveAt
<1>7. /\ Len(t) = n - 1 /\ Len(u) = Len(s) - n
      /\ \A m \in 1 .. n - 1 : t[m] = s[m]
      /\ \A m \in 1 .. Len(s) - n : u[m] = s[n + m]
  BY <1>1, <1>2, <1>3, <1>4
<1>8. ASSUME NEW m \in 1 .. Len(s) - 1
      PROVE  (t \o u)[m] = IF m < n THEN s[m] ELSE s[m + 1]
  <2>1. CASE m < n
    BY <1>5, <1>7, <2>1
  <2>2. CASE ~(m < n)
    <3>1. m - Len(t) \in 1 .. Len(s) - n /\ n + (m - Len(t)) = m + 1
      BY <1>7, <2>2
    <3>2. u[m - Len(t)] = s[m + 1]
      BY <1>7, <3>1
    <3> QED BY <1>5, <1>7, <2>2, <3>2
  <2> QED BY <2>1, <2>2
<1> QED BY <1>5, <1>6, <1>7, <1>8

LEMMA WrapperInitInv == WrapperInit => WrapperInv
BY WrapperAssumption DEF WrapperInit, WrapperInv, ListInv, PortInv, Aligned, Indices

\* A new child takes the port that was probed; no listed one has it already.
LEMMA SpawnStep ==
  ASSUME WrapperInv, NEW p \in Procs, Spawn(p), probed' \in Nat, i' \in Indices,
         \/ UNCHANGED <<processes, processPorts>>
         \/ processes' = Append(processes, p) /\ processPorts' = Append(processPorts, probed)
  PROVE  WrapperInv'
<1>1. PortInv'
  BY DEF Spawn, WrapperInv, PortInv
<1>2. /\ \A q \in Procs : child'[q] = (IF q = p THEN "starting" ELSE child[q])
      /\ \A q \in Procs : port'[q] = IF q = p THEN probed ELSE port[q]
      /\ child[p] = "unborn" /\ probed \in Nat
  BY DEF Spawn, WrapperInv, PortInv
<1>3. \A n \in DOMAIN processes :
        /\ processes[n] \in Procs /\ processes[n] # p
        /\ child'[processes[n]] # "unborn" /\ processPorts[n] = port'[processes[n]]
  BY <1>2 DEF WrapperInv, ListInv, Aligned
<1>4. /\ Len(processPorts) = Len(processes)
      /\ processes \in Seq(Procs) /\ processPorts \in Seq(Nat)
  BY DEF WrapperInv, ListInv, Aligned
<1>5. CASE UNCHANGED <<processes, processPorts>>
  BY <1>1, <1>3, <1>4, <1>5 DEF WrapperInv, ListInv, Aligned
<1>6. CASE processes' = Append(processes, p) /\ processPorts' = Append(processPorts, probed)
  <2>1. /\ processes' \in Seq(Procs) /\ processPorts' \in Seq(Nat)
        /\ Len(processes') = Len(processes) + 1 /\ Len(processPorts') = Len(processes) + 1
        /\ DOMAIN processes' = 1 .. Len(processes) + 1
    BY <1>2, <1>4, <1>6
  <2>2. ASSUME NEW n \in DOMAIN processes'
        PROVE  child'[processes'[n]] # "unborn" /\ processPorts'[n] = port'[processes'[n]]
    <3>1. CASE n = Len(processes) + 1
      <4>1. processes'[n] = p /\ processPorts'[n] = probed
        BY <1>2, <1>4, <1>6, <3>1
      <4> QED BY <1>2, <4>1
    <3>2. CASE n # Len(processes) + 1
      <4>1. n \in DOMAIN processes
        BY <1>4, <2>1, <3>2
      <4>2. processes'[n] = processes[n] /\ processPorts'[n] = processPorts[n]
        BY <1>2, <1>4, <1>6, <4>1
      <4> QED BY <1>3, <4>1, <4>2
    <3> QED BY <3>1, <3>2
  <2> QED BY <1>1, <2>1, <2>2 DEF WrapperInv, ListInv, Aligned
<1> QED BY <1>5, <1>6

\* A close event takes the entry with its index off both lists, whatever child's it is.
LEMMA CloseEventStep ==
  ASSUME WrapperInv, NEW p \in Procs, CloseEvent(p)
  PROVE  WrapperInv'
<1>1. PortInv'
  BY DEF CloseEvent, startVars, WrapperInv, PortInv
<1>2. /\ \A q \in Procs : child[q] # "unborn" => child'[q] # "unborn"
      /\ UNCHANGED port
  BY DEF CloseEvent, WrapperInv, PortInv
<1>3. /\ Len(processPorts) = Len(processes)
      /\ processes \in Seq(Procs) /\ processPorts \in Seq(Nat)
  BY DEF WrapperInv, ListInv, Aligned
<1>4. \A n \in DOMAIN processes :
        /\ processes[n] \in Procs /\ child'[processes[n]] # "unborn"
        /\ processPorts[n] = port'[processes[n]]
  BY <1>2, <1>3 DEF WrapperInv, ListInv, Aligned
<1>5. CASE UNCHANGED <<processes, processPorts>>
  BY <1>1, <1>3, <1>4, <1>5 DEF WrapperInv, ListInv, Aligned
<1>6. ASSUME NEW n \in DOMAIN processes, processes' = RemoveAt(processes, n),
             processPorts' = RemoveAt(processPorts, n)
      PROVE  WrapperInv'
  <2>1. n \in 1 .. Len(processes) /\ n \in 1 .. Len(processPorts)
    BY <1>3
  <2>2. /\ processes' \in Seq(Procs) /\ Len(processes') = Len(processes) - 1
        /\ \A m \in 1 .. Len(processes) - 1 :
             processes'[m] = IF m < n THEN processes[m] ELSE processes[m + 1]
    BY <1>3, <1>6, <2>1, Removed
  <2>3. /\ processPorts' \in Seq(Nat) /\ Len(processPorts') = Len(processes) - 1
        /\ \A m \in 1 .. Len(processes) - 1 :
             processPorts'[m] = IF m < n THEN processPorts[m] ELSE processPorts[m + 1]
    BY <1>3, <1>6, <2>1, Removed
  <2>4. ASSUME NEW m \in DOMAIN processes'
        PROVE  child'[processes'[m]] # "unborn" /\ processPorts'[m] = port'[processes'[m]]
    <3>1. m \in 1 .. Len(processes) - 1 /\ m \in DOMAIN processes /\ m + 1 \in DOMAIN processes
      BY <1>3, <2>2
    <3> QED BY <1>4, <2>2, <2>3, <3>1
  <2> QED BY <1>1, <2>2, <2>3, <2>4 DEF WrapperInv, ListInv, Aligned
<1>7. running /\ EntryOf(index[p]) # {} =>
        \E n \in DOMAIN processes : /\ processes' = RemoveAt(processes, n)
                                    /\ processPorts' = RemoveAt(processPorts, n)
  <2> SUFFICES ASSUME running, EntryOf(index[p]) # {}
               PROVE  \E n \in DOMAIN processes : /\ processes' = RemoveAt(processes, n)
                                                  /\ processPorts' = RemoveAt(processPorts, n)
    OBVIOUS
  <2>1. PICK n : n = CHOOSE m \in EntryOf(index[p]) : TRUE
    OBVIOUS
  <2>2. n \in EntryOf(index[p])
    BY <2>1
  <2>3. n \in DOMAIN processes
    BY <2>2 DEF EntryOf
  <2>4. processes' = RemoveAt(processes, n) /\ processPorts' = RemoveAt(processPorts, n)
    BY <2>1 DEF CloseEvent
  <2> QED BY <2>3, <2>4
<1> QED BY <1>5, <1>6, <1>7 DEF CloseEvent

LEMMA WrapperNextInv == WrapperInv /\ [WrapperNext]_wrapperVars => WrapperInv'
<1> SUFFICES ASSUME WrapperInv, [WrapperNext]_wrapperVars PROVE WrapperInv'
  OBVIOUS
<1> USE DEF listVars, startVars, childVars
<1>1. \A k \in Indices : Port[k] \in Nat
  BY WrapperAssumption DEF Indices
<1>2. 0 \in Indices /\ Indices \subseteq Nat
  BY WrapperAssumption DEF Indices
<1>3. CASE Start
  BY <1>1, <1>2, <1>3 DEF Start, WrapperInv, ListInv, PortInv, Aligned
<1>4. CASE Taken
  <2>1. probed' \in Nat /\ UNCHANGED <<processes, processPorts, i, child, port>>
    BY <1>4 DEF Taken, WrapperInv, PortInv
  <2> QED BY <2>1 DEF WrapperInv, ListInv, PortInv, Aligned
<1>5. CASE Stop
  BY <1>5 DEF Stop, PortsAfterSignal, WrapperInv, ListInv, PortInv, Aligned
<1>6. CASE Route
  BY <1>6 DEF Route, WrapperInv, ListInv, PortInv, Aligned
<1>7. ASSUME NEW p \in Procs, SpawnListed(p) PROVE WrapperInv'
  <2>1. i + 1 < Count => i + 1 \in Indices
    BY <1>2, WrapperAssumption DEF WrapperInv, PortInv, Indices
  <2>2. CASE i + 1 < Count
    <3>1. i' = i + 1 /\ probed' = Port[i + 1]
      BY <1>7, <2>2 DEF SpawnListed
    <3>2. probed' \in Nat /\ i' \in Indices
      BY <1>1, <2>1, <2>2, <3>1
    <3> QED BY <1>7, <3>2, SpawnStep DEF SpawnListed
  <2>3. CASE ~(i + 1 < Count)
    <3>1. probed' \in Nat /\ i' \in Indices
      BY <1>2, <1>7, <2>3 DEF SpawnListed
    <3> QED BY <1>7, <3>1, SpawnStep DEF SpawnListed
  <2> QED BY <2>2, <2>3
<1>8. ASSUME NEW p \in Procs, SpawnThrows(p) PROVE WrapperInv'
  <2>1. probed' \in Nat /\ i' \in Indices
    BY <1>2, <1>8 DEF SpawnThrows
  <2> QED BY <1>8, <2>1, SpawnStep DEF SpawnThrows
<1>9. ASSUME NEW p \in Procs, Listens(p) \/ Ends(p) PROVE WrapperInv'
  <2>1. /\ child' = [q \in Procs |-> child'[q]]
        /\ \A q \in Procs : child[q] # "unborn" => child'[q] # "unborn"
    BY <1>9 DEF Listens, Ends, WrapperInv, PortInv
  <2>2. \A n \in DOMAIN processes : processes[n] \in Procs
    BY DEF WrapperInv, ListInv
  <2>3. UNCHANGED <<listVars, startVars, index, port>>
    BY <1>9 DEF Listens, Ends
  <2> QED BY <2>1, <2>2, <2>3 DEF WrapperInv, ListInv, PortInv, Aligned
<1>10. ASSUME NEW p \in Procs, CloseEvent(p) PROVE WrapperInv'
  BY <1>10, CloseEventStep
<1>11. CASE UNCHANGED wrapperVars
  BY <1>11 DEF wrapperVars, WrapperInv, ListInv, PortInv, Aligned
<1> QED BY <1>3, <1>4, <1>5, <1>6, <1>7, <1>8, <1>9, <1>10, <1>11 DEF WrapperNext

\* However spawns, close events and signals meet, the port at a position of processPorts is
\* that of the worker at this position of processes (index.ts: start, the close handler,
\* stop): route() never picks one that no listed worker was given.
THEOREM ArraysAligned == WrapperSafety => []Aligned
<1>1. WrapperInv => Aligned
  BY DEF WrapperInv
<1> QED BY <1>1, WrapperInitInv, WrapperNextInv, PTL DEF WrapperSafety
===============================================================================
