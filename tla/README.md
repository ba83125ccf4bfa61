# mrrowisp in TLA+

Specifications, model-checking runs and machine-checked proofs for mrrowisp, a
Wisp server in Go (`src/wisp/`, `src/main.go`) with a Node.js wrapper that spawns
and balances worker processes (`src/src/index.ts`). Paths below are those of
`PROJECT.json`, which maps every definition to the lines it stands for.

## 1. The system

One WebSocket connection carries many streams. Its parts:

| part | state | operations | talks to |
| --- | --- | --- | --- |
| upgrade and admission (`wisp.go`, `limits.go`) | `Semaphore.current` of Connections and InFlightSyns | TryAcquire, Release, CreateWispHandler | every connection, every dial |
| handshake (`v2.go`, `wsreader.go`) | isV2, handshakeDone, authenticated, streamConfirm | v2Handshake, handleInfo, the gate of handleWispFrame | the read loop |
| read loop (`wsreader.go`) | a buffer of unread frames | readLoop, handleWispFrame | everything a client sends goes through it |
| stream table (`wisp-connection.go`) | streams (sync.Map), streamCache, streamCount | handleConnectPacket, handleDataPacket, handleClosePacket, deleteWispStream, deleteAllWispStreams | read loop and every stream's goroutine |
| stream (`wisp-stream.go`) | isOpen, connReadyDone, conn, pendingData, ingress queue, bufferRemaining | handleConnect, submitIngress, runIngressWriter, readFromConnection, close | read loop, remote host, write queue |
| write queue (`wisp-connection.go`) | pendingWrites, writeActive, isClosed | submitWrite, runWriter, close | every goroutine of the connection |
| Twisp terminals (`twisp.go`) | registry of ptys and processes | handleTwisp, readPty, close | table, write queue |
| flood protection (`limits.go`, `signature.go`, `reputation.go`) | windows, detectors, scores | Allow, Record/Match/Forget, AddSource/AddDest, decay | CONNECT and dial |
| DNS cache (`dnscache.go`) | entries with TTL, singleflight | LookupIPAddr, expire | dial |
| policy (`egress.go`, `config.go`, `clientip.go`) | none after start | Evaluate, ResolveClientIP | dial, upgrade |
| wrapper (`index.ts`) | processes, processPorts, reqIndex | start, route, stop, kill, the close handler | worker processes |

What is hard in it:

* **No owner.** Any goroutine may become the connection's writer, any may close a
  stream or the connection. Close, submit and drain meet in every order.
* **Ids are reused** while closes of the earlier stream are still running, and a
  two-word cache beside the map is written without a lock.
* **Two-phase streams.** Data that comes before the dial is over is kept, flushed by
  one goroutine, and from then on written by another.
* **Flow control.** A client stops when its credit is spent; a credit that is not
  returned is a stream that hangs.
* **Buffers from pools** have exactly one owner at a time.
* **Frames survive a close.** What has been read into the buffer is still handled.
* **Terminals** have three goroutines and a process each, any of which may end them;
  their registry overwrites and deletes by id.
* **Shared caches and counters** (DNS answers, rate windows, detectors, scores) outlive
  the streams that use them, read the clock before they take their lock, and one of
  them is meant to survive a crash.
* **The wrapper awaits** between its decisions and receives events late.

## 2. The modules

| module | models | shown |
| --- | --- | --- |
| `OutboundChannel` | what the write side promises: a FIFO channel that may go down | abstract |
| `WriteQueue` | submitWrite, runWriter, close | run `write_queue`; `WriteQueueProofs` |
| `StreamIngress` | one stream from CONNECT to CLOSE, client to remote | run `stream_ingress`; violation `stream_gap`; `StreamIngressProofs` |
| `StreamRegistry` | the table of streams, its cache and its limit | run `stream_registry`; `StreamRegistryProofs` |
| `Slots` | what a semaphore promises | abstract |
| `Admission` | the semaphores and all their call sites | run `admission`; `AdmissionProofs` |
| `Handshake` | upgrade, gate, INFO, and what may be opened | run `handshake`; `HandshakeProofs` |
| `Twisp` | the terminals of a connection: registry, pty, process, close, teardown | run `twisp`; `ProcessProofs` |
| `EgressPolicy` | Evaluate and the white and black lists, as operators | used by `Connect` |
| `DnsCache` | LookupIPAddr, singleflight, TTL, failures, expire | used by `Connect` |
| `Connect` | handleConnect from the lists to the dial, on top of `DnsCache` and `EgressPolicy` | run `connect`; `ConnectProofs` |
| `FloodGuard` | rate windows, violations and SYN detectors at their call sites | run `flood`; `FloodProtectionProofs` |
| `Reputation` | scores, decay, eviction, the store, crash and restart | run `reputation`; violation `reputation_unsaved`; `FloodProtectionProofs` |
| `Wrapper` | class Mrrowisp and its workers | run `wrapper`; `ProcessProofs` |

How they fit together: a CONNECT passes the table's limit (`StreamRegistry`), the source's
window (`FloodGuard`), the lists, the policy and the look-up (`Connect`), the
destination's windows (`FloodGuard`), its score (`Reputation`) and the SYN semaphore
(`Admission`); what happens to the socket then is `StreamIngress`, and to the frames it
yields `WriteQueue`. Each module has the others' outcomes as choices.

`MC*` modules give TLC the sets; modules whose constants need none are run directly. Definitions introduced by
"Mutant of ..." are wrong versions of the definition that follows them; putting one
in its place breaks the property named in `PROJECT.json`. A module of proofs may be about
two components that share nothing (`FloodGuard` and `Reputation`, `Twisp` and `Wrapper`);
in one of the two, Init, Next and the like carry the component's name.

### How state and actions correspond to the code

**Granularity.** In the Go modules a step is one atomic load, store or CAS, one
section under a mutex, one map operation or one call on a socket. In `Wrapper`, where
JavaScript runs to completion, a step is what happens between two awaits.

**WriteQueue.** `pc[g]` is where goroutine `g` is: idle, in submitWrite before the
mutex (`enqueue`), in runWriter (`take`, `write`, `release`, `releaseErr`, `fail`),
or in close (`close`, `closeNet`, `drain`). Frames enter the socket one by one,
since net.Buffers.WriteTo does not promise to write a batch at once; the peer may
reset at any time. The number of times a pooled buffer went back is counted in
`puts`. The abstract queue is what the writer has not sent followed by
pendingWrites, while the connection is up.

**StreamIngress.** Three sequential processes: handleConnect (`hcPc`), the read loop
(`rlPc`) and the one close() that won its CAS (`clPc`; the losers return at once).
Packets are numbers, so order and loss show at the remote end; each has a size in bytes,
which only the cap on early data looks at. Abstractions:

* the checks before the dial and the dial itself have a free outcome; a refusal may
  count as the violation that closes the connection, and a flood signature may match;
* two consecutive loads of a flag that only ever changes one way, with nothing
  between them, are one step (line 261 with 263, and 375 with 358 in the stream file;
  465 with 466, as only one close runs);
* a CONTINUE raises the client's credit when it is sent; its way is the write
  queue's matter. Only TCP streams have credit in the code;
* pendingBytes is the sum of the sizes in pendingData (`Bytes`), with which it is reset;
* a nil dereference ends the process: `crashed` stops everything. There are two: a
  stream without a socket (line 291), and a cache slot cleared between its two reads
  (`RlHit`, lines 235 and 236).

**StreamRegistry.** The read loop is the only one that adds. Each stream has a close
of its own (`clPc[s]`). The cache slot is two variables written separately, and
slot.stream is read twice, by the test (`Hit`) and then for use (`RlHit`): what a close
has set to nil in between is dereferenced by the test of isOpen, and the process dies
(`rlPc = "crashed"`). A
wispStream that LoadOrStore rejected is garbage and may be created again; the next one
to be created is chosen, as they are all alike, and the locals of a packet's handler are
reset when it returns. A
violation too many appears as `connClosed` becoming true.

**Admission.** Requests and dials share the operators `Load` and `Swapped` of
TryAcquire; `cur` is its local. Caps of 0 or nil are no limit and have no state.

**Handshake.** All configurations are initial states. A client's INFO carries one of
the outcomes parseClientInfo and checkPassword can have; `proved` records whether it
has ever shown a right password. Frames in the reader's buffer (`buffered`) are still
handled after a close. That a terminal's process starts later is `Twisp`'s matter.

**Twisp.** One record per accepted CONNECT of type terminal holds where its goroutines
are: handleTwisp (`pc`), readPty (`reader`), the one in cmd.Wait (`waiting`), one a CLOSE
has started (`asked`), and the close that won its swap (`closing`). The read loop may be
held by a Write (`loop = "write"`) and, when it closes a terminal itself, until that is
done; the teardown closes one after the other. `overlapped` and `before` are history
variables that name the two exceptions of the properties. isOpen.Store, add and the two
go statements of handleTwisp are one step, as are ptmx.Close and Kill: nobody else acts
on what is between them. resize is left out; splitShell is its outcome.

**DnsCache and Connect.** Time is kept as ages, so the clock never runs out: an entry's
age counts from its time.Now(), `call.wait` from the caller's. A runnable goroutine runs
within `MaxDelay` ticks, which is less than the TTL; a query to the resolver takes as
long as it likes. Everything handleConnect decides before the look-up touches nothing
shared and is one step (`First`). The lists are sets of names and ports; a request has the
name as spelt, in normal form, and its address if it is one.

**FloodGuard.** One destination, connections with a source and one stream at a time.
`Allow` reads the clock and takes the lock up to `MaxDelay` later. The code has no such
bound: it is one of the model, may be any number, and is longer than a window in the run.
Windows that are not configured (nil, or a limit of 0) let everything pass. A ring of
samples is kept as counts by age. `asked`, `passed` and `left` are history variables:
`asked` has, of the last events a window let pass, newest first, the ages of their
time.Now(), one more than twice the limit of them; `passed` has the ages of their passing,
as many as the limit. Ages stop counting (`Long`, `Oldest`) where nothing depends on them
any more.

**Reputation.** Sources and destinations are keys of one function. SaveNow is three
steps, between any of which the process may die; WriteFile first truncates. `Maintained`
says whether anybody has started RunMaintenance: TRUE checks what it is written to do,
FALSE is the repository as it is.

**Wrapper.** A child is unborn, starting, listening, ended or closed (its event has
been handled). A port is taken when a listening worker has bound it. stop() and
kill() differ in the signal only. The application calls start() when the wrapper is
not running and no start() is pending, and configures a port for every index; the
early return at `index.ts:163` is therefore not taken.

## 3. What the runs show

| run | instance | distinct states |
| --- | --- | --- |
| `write_queue` | 3 goroutines, 3 frames, 2 of them pooled | 46,107 |
| `stream_ingress` | 4 packets of 1, 1, 2 and 2 bytes, allowance 2, 3 bytes kept early | 655,959 |
| `stream_registry` | 3 ids, 2 of them on one cache slot, 3 streams, limit 2 | 2,139,913 |
| `admission` | 3 requests and 3 dials for 2 slots each, symmetry | 5,986 |
| `handshake` | 2 ids, 3 buffered frames, all configurations | 1,244 |
| `wrapper` | 3 workers, start(2), 3 ports | 66,722 |
| `twisp` | 2 terminals, 2 ids | 406,636 |
| `connect` | 2 streams, 1 host to look up, 3 configurations, TTL 2, delay 1 | 221,900 |
| `flood` | 2 connections of one source, limit 2 in 2 ticks, delay up to 3, 2 samples, symmetry | 2,415,581 |
| `reputation` | 1 source, 1 destination, scores to 2, half a point per period | 152,543 |

Runs with liveness properties have no symmetry; `admission` and `flood` have safety
properties only.

Why the bounds are enough for the cases that matter: three goroutines are a writer,
a submitter and a closer at once; three frames make two batches of which one has more
than one frame. Four packets at an allowance of two spend the credit, get it back and
spend it again, across the early, the flushed and the direct phase, and are the two
allowances a confirmed stream may have; of the early ones two may fit into the cap on
bytes or not. Two ids on one slot displace each other, a third on a slot of its own makes
more ids than the limit lets be open, and a third stream reuses an id while the first
one's close is under way. One request more than there are slots makes refusals and lost
compare-and-swaps. Three buffered frames are a refused INFO, a right INFO and a
CONNECT behind it. Three workers are a start(2) and a second one under way. Two
terminals meet on one id, before and after the first one's CLOSE. Two streams are one
that queries and one that waits, hits or misses; hosts do not affect each other; a TTL of
two with a delay of one tells fresh, ageing and stale apart. Two events per two ticks
fill a window, start the next and meet a caller whose clock is from the window before the
last, as a delay of three is longer than a window. Half a point per period is the decay that truncation could swallow.

Runs turn the deadlock check off where the system really may stop: frames or packets run
out, a connection ends, no child is left to spawn. `admission`, `connect`, `flood` and
`reputation` go on forever and keep the check.

### Properties

* *Write queue:* `SingleWriter`, `NoStrandedFrame` (no lost wake-up), `PutOnce`,
  `NoForgottenBuffer`, `ImplementsChannel` (refinement), `CloseCompletes`,
  `FramesLeave`.
* *Stream:* `TypeOK` (with `ReadyMeansConnected`: an open stream that is ready has a
  socket), `InOrder`, `BufferOnce`, `BacklogBound` (in packets), `ClosedIsReported`,
  `TeardownCloses`, `CreditReturns`.
* *Table:* `OpenIsRegistered`, `RoutedRight`, `CountSettles`, `NothingLeftOpen`,
  `StreamLimit`.
* *Admission:* `CountExact`, `ConnectionsAreSlots`, `SynsAreSlots` (refinements).
* *Handshake:* `PasswordGate`, `TerminalGate`, `IdentityFixed`.
* *Terminals:* `TerminalRegistered` (a client that reuses an id only after its CLOSE
  never loses a terminal), `LateOutput` (at most one frame after the CLOSE),
  `ExitReported`, `TeardownKills`.
* *Destination:* `DialledChecked` (what is dialled is what the policy allowed, no staler
  than the TTL), `Decided` (nobody waits for ever behind another's query), `Recovers`
  (a failure is forgotten after the TTL, however often it is asked for).
* *Flood protection:* `RateBound` (of twice the limit plus one events that pass one after
  the other, the first has read its clock more than the length before the last passes: two
  windows were opened in between), `NoFalseThrottle` (no refusal without the limit let pass
  within the length and the refused event's own wait), `DetectorsForgotten`.
* *Reputation:* `StoreWhole` (crash safety), `Saved`, `Forgiven`.
* *Wrapper:* `Aligned`, `EndedLeaves`.

### Fairness

Go schedules every runnable goroutine: weak fairness per goroutine, or per sequential
process. A Write may block as long as its peer does not read, so steps that put bytes
on a socket are fair only when they must fail; that a peer reads is an explicit
premise where it is needed (`PeerReads` in `FramesLeave`, `RemoteReads` in
`TeardownCloses` and `CreditReturns`). A direct dial ends by its timeout; that one
through a SOCKS proxy, which has none, ends too is assumed. Clients, remote ends and the
application owe nothing. In `Twisp` nothing is assumed of the process or of the Writes and
Reads on its pty; the Write the read loop may hang in is not fair. The resolver answers
or gives up in the end (it has time-outs of its own), and time passes. In `Reputation`
the disk does not fail for ever (strong fairness of its steps). In `Wrapper` the operating system runs workers and ends those
that were signalled, and the event loop delivers their events.

### What the code does not guarantee

Two runs end in a counterexample:

1. `stream_gap`: a packet that arrives after handleConnect took the early data and
   before it signals readiness is never written; later ones are.
2. `reputation_unsaved`: nothing in the repository calls RunMaintenance, and nothing else
   calls SaveNow, ForceDecay or Evict. Scores are neither saved, nor lowered, nor
   cleared away, although `README.md:19` names persistence and decay.

Met in the same models, where the properties above name the part that holds:

* A close during the dial makes the stream ready without a socket; handleDataPacket,
  past its check of isOpen (`wisp-connection.go:257`), then writes to nil (`291`), which
  ends the process (`crashed` in `StreamIngress`).
* handleDataPacket tests slot.stream and then reads it again (`wisp-connection.go:235`,
  `236`); a close of the stream may set it to nil in between (`379`, also a late one, of an
  earlier stream with the same id). The stream is then nil and line 257 ends the process.
  `RoutedRight` only says that a nil stream takes a cleared slot.
* `bufferRemainingLength` is documented as "Bytes of unacked data tolerated before
  backpressure." (`index.ts:60`), but the server counts packets: `bufferRemaining` goes
  down by one for each, whatever its size (`wisp-connection.go:283`, `298`), and the
  CONTINUE gives the client a number of packets. `BacklogBound` holds in packets. The
  same sum in bytes does not: in the instance of `stream_ingress`, whose later packets
  have two bytes, TLC finds more bytes held than the allowance has packets. In the code
  bytes are bounded only by the cap of 16 MiB on early data (`264`) and by the size of a
  message.
* Allow reads the clock before it waits for the lock (`limits.go:20`, `21`), and nothing
  bounds the wait. Counted by the time they pass, more than twice the limit can come within
  a window's length: an event whose clock is from a window that has run out meanwhile, the
  limit of the next window and the limit of the one after that. `RateBound` counts from
  when an event has read its clock.
* The cache may be filled with a stream after that stream's close has cleared the slot
  (`wisp-connection.go:254`, `379`); the next stream with the id gets none of its data.
  `RoutedRight` is about the packets that are accepted.
* A CONNECT right behind a CLOSE of the same id finds the old entry and is ignored
  without an answer (`wisp-connection.go:174`).
* stop() during start(), or a late close event, which is matched by index, leaves a
  worker running that nothing signals (`index.ts:179`, `203`), although `README.md:95`
  says "`SIGTERM` all workers".
* Two workers may be given one port (`index.ts:170`), although `README.md:93` says "each
  on its own port"; the second one ends and `EndedLeaves` takes it off the list.
* A terminal whose id is taken twice at a time is lost to CLOSE and teardown, and so is
  one that handleTwisp registers after the teardown has looked (`twisp.go:82`): their
  processes go on. Terminals count for no limit on streams (`wisp-connection.go:206`).
* A Write to a terminal whose process does not read holds the whole connection's read
  loop (`wisp-connection.go:243`).
* A detector made by a dial that ends after the teardown is never forgotten
  (`wisp-stream.go:234`), and entries of the rate windows never are: SlidingWindow.Evict
  has no caller.
* A white-listed name is dialled unresolved, past the policy, if it is spelt as listed,
  and looked up otherwise (`wisp-stream.go:113` uses the raw name, `71` the normal form).
* AllowIPs, DenyIPs and the CIDRs of the egress policy are never filled; `allowTCP`,
  `bandwidthLimitKbps` and `connectionsLimitPerIP` are read nowhere; SourceScore and the
  tiers below strict are never asked.

Met while modelling and kept as remarks, as no document of the repository promises
otherwise:

* Packets kept before the stream is ready never count towards a CONTINUE: a client that
  spent its whole allowance early waits for one that does not come. `CreditReturns`
  states the part that holds.
* After a close, a payload buffer may go back to its pool twice
  (`wisp-stream.go:376` and `359`, then `wsreader.go:203`). `BufferOnce` states the
  part that holds.
* A close while the dial is pending leaves the socket the dial returns open until
  readFromConnection ends, and its data may follow the CLOSE packet.
* A failed writer leaves frames in pendingWrites if another goroutine submits
  between its release of writeActive and the close; their buffers are left to the
  garbage collector (`NoForgottenBuffer` names the exception).
* An INFO that was refused may be followed by a right one in the same buffer, which
  completes the handshake of a connection that is closed. Nothing is gained by it:
  `PasswordGate` holds.
* No deadline covers the wait for INFO, nor a dial through a SOCKS proxy.

## 4. What is proved

TLAPS checks every leaf. The theorems hold for all values of the constants under the
named assumptions, which TLC evaluates in the runs.

**WriteQueueProofs** (any goroutines, any frames; `ReqsAssumption`). `TypeInv` adds to
the types that a goroutine about to append holds a request. `WriterInv` is
`SingleWriter`, `NoStrandedFrame` and `DownWhenFailed` (a writer that has seen an error
is on a dead socket): without the last, giving up writeActive with frames queued could
not be told from a lost wake-up. From these come `OneWriter`, `NoLostWakeup` and, step
by step through the mapping of `Unsent \o pendingWrites`, `WriterIsChannel`. `OwnerInv`
counts for every pooled buffer who holds it (`OneHolder`, `BatchOfWriter`,
`PutsBound`), which gives `BuffersPutOnce`. Its converse, `KeptInv` (a buffer that was
handed in and not given back is in somebody's hands), together with `WriterExists` (who
set writeActive is still there to clear it), gives `BuffersNotForgotten`: with nobody
in a call only the queue is left, and by `NoStrandedFrame` only on a dead connection.

**StreamIngressProofs** (any number of packets of any sizes, any allowance, any cap on
early data;
`ConstAssumption`). The invariant has six parts, each kept with the help of those before:

* `ControlInv`: the flags, and what a process knows of them where it is. A stream
  is closed for good (`LifeInv`); ready means connected, unless it is closed, since only
  close(), a failed handleConnect and one that holds its socket make it so; what the
  read loop has tested stays true while it goes on (`ModeInv`).
* `ClientInv`: the packets on their way are those after the read loop's, in order.
* `QueueInv`: the read loop is the ingress writer of its own packet only.
* `OrderInv`: packets are in order where they are kept, what the read loop has in hand is
  later than all of them, and nothing is written before handleConnect has taken the early
  data. An open stream becomes ready after the flush, so the two writers never overlap:
  `DeliveredInOrder`.
* `PutsInv`: the buffers of all earlier packets were given back, that of the one in hand
  was not as long as it is `Owed`, and none was twice while the stream is open:
  `BuffersGivenBack`.
* `CreditInv`: what the server holds and the credit the client has left are within what
  is left of the allowance and the second one of a confirmed stream: `BacklogBounded`.

`TypeCorrect` is `TypeOK` with `ReadyMeansConnected`.

**StreamRegistryProofs** (any ids, slots and streams; `RegistryAssumption`). The
invariant says that a registered stream has the id it is registered under and is open
or about to be deleted (`MapInv`), that a stream with a close under way is not open
(`LifeInv`), that a slot's stream has the slot's id except between the two writes of a
fill (`SlotInv`), what the read loop's locals stand for (`ReadLoopInv`), that between
the two reads of a slot it keeps its id and loses its stream only to a close that has
passed the clearing, which no step takes back (`HitInv`, `StaysCleared`), and that
during the teardown only streams still to be visited are open (`TeardownInv`).
The count is proved about with finite sets: streamCount is the number of `Live` streams,
those that were registered and whose close() has not lowered it yet, but for the one the
read loop has registered and not counted (`CountInv`); and a registered stream is open
until its close() begins (`OpenUntilClosed`). What is registered is live, one stream per
id, hence `LimitHolds`; at rest the two sets have the same size, hence `CountDoesNotDrift`.

**AdmissionProofs** (any finite sets of requests and dials, any caps). `CountExact`
relates counters and holders; `LoadedBelow`, that what a compare-and-swap compares with
was below the cap when it was loaded, is what makes the caps inductive. Both
semaphores implement `Slots`, by one step per action.

**HandshakeProofs** (any ids, any number of buffered frames). The invariant says what
the end of the handshake stands for: version 2 where it is required, a right password
behind `authenticated` and, where required, behind the end of the handshake, and a
greeting unless the connection was closed. The action properties follow from
`OnlyConnectOpens`.

**ConnectProofs** (any lists, names, answers, streams and look-ups; `DnsAssumption`,
`FlightsAssumption`: to have no query is not a query; and `RequestsAssumption`, which closes
the set of hosts under the names requests ask for).
`DnsInv`: no answer is kept back for more than `MaxDelay`, and who waits for a query waits
for one of its own host. So what a caller gets is younger than the TTL: from the cache
because the entry was when the caller read its clock, from the query because `MaxDelay`
is less than the TTL. `StreamInv`: a stream that has its destination has one that was
`Checked`, and its look-up does not change any more. Together: `DirectDialsChecked`.
`WaitersServed`, on top of these, says that whoever waits for a shared query is among those
it will return to (`NobodyWaitsInVain`): what safety can say of `Decided`.

**FloodProtectionProofs**, the windows and detectors (any connections, sources, limits
and lengths, and any `MaxDelay`; `FloodAssumption`). `WindowOK` relates a window's start and
count to the events it let pass: the clocks of this window's events were read less than
its length after its start, and those of the window before it earlier than its start, as
that one had run out by then; those of older windows are over; and this window's events
have passed since its start. An event either opens a window, when all before it were asked
before the new start, or counts in one. Hence `TwiceTheLimit` and `RefusedForCause`.
`DetectorInv`: what is torn down starts no dial. Hence `DetectorsGo`.

The same module, the scores (any keys, weights, periods, with maintenance or without;
`ReputationAssumption`). `SaveInv` says that the snapshot is whole in memory until it is
written and whole in the .tmp until the rename; so `StoreIsWhole` holds whatever step a
crash comes after. `ScoresBounded` has clamping for any weight and any decay.

**ProcessProofs**, the terminals (any terminals and ids; `TwispAssumption`). `Sound` says
what holds of a terminal by itself: a close that has begun has taken isOpen, a CLOSE that
is queued means the pty is shut, and a late frame means that readPty holds no other.
`OverlapInv` says that two terminals under way on one id are both noted as overlapping: an
entry that add overwrites, or that remove deletes, is then never the entry of an open
terminal that shares its id with nobody. From these come `StaysRegistered` and
`OneLateFrame`; `TypeOK` of `Twisp` is proved (`TypeCorrect`) rather than run.

The same module, the wrapper (any number of workers, any ports; `WrapperAssumption`).
`ListInv`: what is listed is a child that was spawned, so that the next spawn, which sets
a port, sets none of a listed one. `Removed` says what splice leaves of a sequence; it is
applied to both lists at one position, which gives `ArraysAligned`.

**Only model-checked:** all liveness (`CloseCompletes`, `FramesLeave`, `ClosedIsReported`,
`TeardownCloses`, `CreditReturns`, `ExitReported`, `TeardownKills`, `Decided`, `Recovers`,
`Saved`, `Forgiven`, `EndedLeaves`), since fairness is beyond the prover. Every other
property of a passing run is a theorem.

## 5. What is not modelled, and the plan

Left out for good: socket options, logging, paths, packaging, flags and JSON (pure I/O
or no state), the proxying of upgraded sockets by node:http, resolution of the client
address and the packet layouts (pure functions of headers or bytes), the buffer
arithmetic of the frame reader, splitShell, the choice of a resolver, and
SlidingWindow.Evict, which nothing calls.

Next, the proofs:

1. What the liveness properties rest on and safety can say: that a process which waits
   waits for one that is there (as `WriterExists` says of the writer and `WaitersServed`
   of look-ups), for the goroutines of a terminal and the closes of a stream.
2. Types of `DnsCache` and `Connect` as a theorem of their own, with the invariant there is.
3. An abstract specification of the window (a bag of recent events), and `FloodGuard`
   related to it step by step.

## 6. Running it

In this directory, with TLC, the community modules and TLAPS:

    tlc -workers 2 -config MCWriteQueue.cfg MCWriteQueue
    tlapm WriteQueueProofs.tla

The pairs of module and configuration are listed under `runs` in `PROJECT.json`.
