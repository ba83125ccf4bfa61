------------------------------ MODULE Reputation ------------------------------
(***************************************************************************)
(* The scores of wisp/reputation.go: raised by the events of connections,  *)
(* lowered, cleared away and written to disk by RunMaintenance, read back  *)
(* at the start (BuildGlobals of wisp/wisp.go), with crashes of the        *)
(* process at any step.  Sources and destinations have entries of the same *)
(* kind; only those of destinations remember who was seen.                 *)
(***************************************************************************)
EXTENDS Integers, FiniteSets

CONSTANTS Sources, Dests,
          Weight,       \* cfg.Weights and cfg.DestWeights of the event
          Escalation,   \* DestWeights["distinctSourcesEscalation"]
          Top,          \* the highest score, 100
          Low,          \* Evict spares entries from this score on, 5
          Rate, Hour,   \* DecayPerHour, and the ticks of an hour
          SaveEvery,    \* RunMaintenance's period, in ticks
          EvictAfter,   \* in ticks
          Maintained,   \* whether anybody has started RunMaintenance
          None, Torn

ASSUME ReputationAssumption ==
  /\ Weight \in Nat /\ Escalation \in Nat /\ Top \in Nat /\ Low \in Nat
  /\ Rate \in Nat /\ Hour \in Nat \ {0} /\ SaveEvery \in Nat \ {0}
  /\ EvictAfter \in Nat /\ Maintained \in BOOLEAN
  /\ Sources \cap Dests = {} /\ {None, Torn} \cap (Sources \cup Dests) = {}

Keys == Sources \cup Dests

VARIABLES scores,     \* r.sources and r.dests
          file, tmp,  \* StorePath and its .tmp: None, Torn or a snapshot
          snap,       \* SaveNow's data, None outside of it
          elapsed,    \* ticks since r.lastDecay
          timer,      \* ticks since the ticker of RunMaintenance has fired
          pc,         \* RunMaintenance, "down" if the process is not running
          last        \* it has been told to stop

disk == <<file, tmp>>
loop == <<timer, pc, last>>
vars == <<scores, disk, snap, elapsed, loop>>

NoEntries == [k \in Keys |-> None]

Init ==
  /\ scores = NoEntries /\ file = None /\ tmp = None /\ snap = None
  /\ elapsed = 0 /\ timer = 0 /\ last = FALSE
  /\ pc = IF Maintained THEN "sleep" ELSE "off"

Running == pc # "down"

clampScore(v) == IF v < 0 THEN 0 ELSE IF v > Top THEN Top ELSE v

Fresh(k) == IF scores[k] = None THEN [score |-> 0, idle |-> 0, seen |-> {}] ELSE scores[k]

AddSource(s) ==
  /\ Running
  /\ scores' = [scores EXCEPT ![s] =
       [Fresh(s) EXCEPT !.score = clampScore(@ + Weight), !.idle = 0]]
  /\ UNCHANGED <<disk, snap, elapsed, loop>>

\* A source that has not been seen at this destination counts extra.
AddDest(d, s) ==
  LET e == Fresh(d)
      base == clampScore(e.score + Weight) IN
  /\ Running
  /\ scores' = [scores EXCEPT ![d] =
       [score |-> IF s \in e.seen THEN base ELSE clampScore(base + Escalation),
        idle |-> 0, seen |-> e.seen \cup {s}]]
  /\ UNCHANGED <<disk, snap, elapsed, loop>>

-------------------------------------------------------------------------------
(* RunMaintenance: ForceDecay, Evict and SaveNow *)

\* The ticker fires.
Wake ==
  /\ pc = "sleep" /\ timer = SaveEvery
  /\ pc' = "decay" /\ timer' = 0
  /\ UNCHANGED <<scores, disk, snap, elapsed, last>>

\* The stop channel is closed: a last SaveNow.
Stop ==
  /\ pc = "sleep"
  /\ pc' = "marshal" /\ last' = TRUE
  /\ UNCHANGED <<scores, disk, snap, elapsed, timer>>

\* int(float64(DecayPerHour) * elapsed.Hours()): whole points only.
Delta == (Rate * elapsed) \div Hour

\* Mutant of ElapsedAfter: lastDecay is set each time.
ElapsedReset == 0

\* lastDecay moves only with a decay of at least one point, whose fraction is lost.
ElapsedAfter == IF Delta <= 0 THEN elapsed ELSE 0

ForceDecay ==
  /\ pc = "decay"
  /\ scores' = [k \in Keys |-> IF scores[k] = None THEN None
                   ELSE [scores[k] EXCEPT !.score = clampScore(@ - Delta)]]
  /\ elapsed' = ElapsedAfter
  /\ pc' = "evict"
  /\ UNCHANGED <<disk, snap, timer, last>>

Evict ==
  /\ pc = "evict"
  /\ scores' = [k \in Keys |->
       IF scores[k] # None /\ scores[k].score < Low /\ scores[k].idle > EvictAfter
       THEN None ELSE scores[k]]
  /\ pc' = "marshal"
  /\ UNCHANGED <<disk, snap, elapsed, timer, last>>

\* Mutant of Marshal: what there is gets written to the store itself.
MarshalInPlace ==
  /\ pc = "marshal"
  /\ snap' = scores /\ file' = Torn /\ pc' = "write"
  /\ UNCHANGED <<scores, tmp, elapsed, timer, last>>

\* MarshalIndent under the lock; WriteFile truncates the .tmp.
Marshal ==
  /\ pc = "marshal"
  /\ snap' = scores /\ tmp' = Torn /\ pc' = "write"
  /\ UNCHANGED <<scores, file, elapsed, timer, last>>

Write ==
  /\ pc = "write"
  /\ tmp' = snap /\ snap' = None /\ pc' = "rename"
  /\ UNCHANGED <<scores, file, elapsed, timer, last>>

AfterSave == IF last THEN "stopped" ELSE "sleep"

\* Mutant of Rename: the copy is never put in place.
RenameNot ==
  /\ pc = "rename"
  /\ pc' = AfterSave /\ UNCHANGED <<scores, disk, snap, elapsed, timer, last>>

Rename ==
  /\ pc = "rename"
  /\ file' = tmp /\ tmp' = None
  /\ pc' = AfterSave
  /\ UNCHANGED <<scores, snap, elapsed, timer, last>>

\* MkdirAll, WriteFile or Rename fails: the error is dropped, the store kept.
SaveFails ==
  /\ pc \in {"write", "rename"}
  /\ snap' = None /\ pc' = AfterSave
  /\ UNCHANGED <<scores, disk, elapsed, timer, last>>

Maintenance == Wake \/ ForceDecay \/ Evict \/ Marshal \/ Write \/ Rename \/ SaveFails

-------------------------------------------------------------------------------
Crash ==
  /\ Running
  /\ pc' = "down" /\ scores' = NoEntries /\ snap' = None
  /\ elapsed' = 0 /\ timer' = 0 /\ last' = FALSE
  /\ UNCHANGED disk

\* Load: without a file, or with one that does not parse, nothing is taken over.
Loaded == IF file \in {None, Torn} THEN NoEntries ELSE file

\* NewReputation and Load, whose error BuildGlobals drops.
Restart ==
  /\ pc = "down"
  /\ scores' = Loaded
  /\ pc' = IF Maintained THEN "sleep" ELSE "off"
  /\ UNCHANGED <<disk, snap, elapsed, timer, last>>

Older(e) == IF e = None \/ e.idle > EvictAfter THEN e ELSE [e EXCEPT !.idle = @ + 1]

\* Entries carry the time they were last seen, on disk too.
Aged(m) == IF m \in {None, Torn} THEN m ELSE [k \in Keys |-> Older(m[k])]

\* Time passes while RunMaintenance sleeps: its own work takes none.
Tick ==
  /\ pc \in {"down", "off", "stopped"} \/ (pc = "sleep" /\ timer < SaveEvery)
  /\ timer' = IF pc = "sleep" THEN timer + 1 ELSE timer
  /\ elapsed' = IF pc = "sleep" THEN elapsed + 1 ELSE elapsed
  /\ scores' = Aged(scores) /\ file' = Aged(file) /\ tmp' = Aged(tmp) /\ snap' = Aged(snap)
  /\ UNCHANGED <<pc, last>>

Event(k) ==
  \/ k \in Sources /\ AddSource(k)
  \/ k \in Dests /\ \E s \in Sources : AddDest(k, s)

Next == (\E k \in Keys : Event(k)) \/ Maintenance \/ Stop \/ Crash \/ Restart \/ Tick

\* RunMaintenance runs, time passes, and the disk does not fail for ever.
Fairness == WF_vars(Maintenance) /\ WF_vars(Tick) /\ SF_vars(Write) /\ SF_vars(Rename)

Spec == Init /\ [][Next]_vars /\ Fairness

-------------------------------------------------------------------------------
(* Properties *)

Snapshots == [Keys -> {None} \cup [score : 0 .. Top, idle : Nat, seen : SUBSET Sources]]

\* Whenever the process dies, the store holds a whole snapshot or nothing yet: a
\* restart never finds half of one, which Load would refuse and lose (SaveNow
\* writes a .tmp and renames it).
StoreWhole == file = None \/ file \in Snapshots

\* Every entry is on disk sooner or later, unless the process ends first, or the
\* entry is evicted: Load then brings it back.
Saved ==
  \A k \in Keys : scores[k] # None ~>
    \/ scores[k] = None \/ pc \in {"down", "stopped"}
    \/ file \notin {None, Torn} /\ file[k] # None

\* A score is lowered to nothing once its events cease, however small the decay of
\* one period: ForceDecay keeps lastDecay until a whole point is due.
Forgiven ==
  \A k \in Keys :
    \/ []<><<Event(k)>>_vars
    \/ []<>(pc \in {"down", "stopped"} \/ scores[k] = None \/ scores[k].score = 0)
===============================================================================
