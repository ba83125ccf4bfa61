------------------------------- MODULE DnsCache -------------------------------
(***************************************************************************)
(* DNSCache of wisp/dnscache.go: look-ups by several goroutines, which     *)
(* share answers for TTL ticks and, through a singleflight group           *)
(* (external), the query of a host that is not cached.  Time is kept as    *)
(* ages, so that the clock never runs out.  The resolver is external: it   *)
(* may answer differently each time, and fails while it is down.           *)
(***************************************************************************)
EXTENDS Integers, Sequences

CONSTANTS Callers,   \* goroutines in LookupIPAddr
          Hosts,     \* names as the client spells them: the keys of the cache
          Answers,   \* sequences of addresses the resolver may answer
          Order,     \* DnsResultOrder
          TTL,       \* d.ttl, in ticks
          MaxDelay,  \* ticks a runnable goroutine may have to wait to run
          None, Err

ASSUME DnsAssumption ==
  /\ MaxDelay \in Nat /\ TTL \in Nat /\ MaxDelay < TTL
  /\ None \notin Callers /\ Err \notin Answers

VARIABLES
  up,       \* whether the resolver answers
  cache,    \* d.cache: the answer and its age, counted from time.Now()
  flight,   \* d.group: the query under way for a host and who waits for it
  call      \* each caller: where it is, its host, the ticks from its time.Now() until
            \* it joins a query, and the answer it has got, with its age back then

dnsVars == <<up, cache, flight, call>>

MaxAge == TTL + MaxDelay + 1

Idle == [pc |-> "idle", host |-> None, wait |-> 0, ips |-> None, age |-> 0]

DnsInit ==
  /\ up = TRUE
  /\ cache = [h \in Hosts |-> None] /\ flight = [h \in Hosts |-> None]
  /\ call = [c \in Callers |-> Idle]

\* LookupIPAddr: now is read before the lock is taken.
Begin(c, h) ==
  /\ call[c].pc = "idle"
  /\ call' = [call EXCEPT ![c] = [Idle EXCEPT !.pc = "read", !.host = h]]
  /\ UNCHANGED <<up, cache, flight>>

\* Mutant of Valid: an entry is used until expire() gets to it.
ValidWhileCached(entry, wait) == TRUE

\* now.Before(entry.expiresAt), where expiresAt is TTL after the entry's time.
Valid(entry, wait) == entry.age - wait < TTL

Got(r, entry) ==
  [r EXCEPT !.pc = "got", !.ips = entry.ips, !.wait = 0,
            !.age = IF entry.age > r.wait THEN entry.age - r.wait ELSE 0]

\* Mutant of Refreshed: an entry that is used lives on.
RefreshedOnHit(entry) == [entry EXCEPT !.age = 0]

\* A hit leaves the entry, and when it expires, alone.
Refreshed(entry) == entry

\* The entry is read under the lock; an error is as good as an answer.
Read(c) ==
  LET r == call[c]  h == r.host IN
  /\ r.pc = "read"
  /\ IF cache[h] # None /\ Valid(cache[h], r.wait)
     THEN /\ call' = [call EXCEPT ![c] = Got(@, cache[h])]
          /\ cache' = [cache EXCEPT ![h] = Refreshed(@)]
     ELSE call' = [call EXCEPT ![c].pc = "do"] /\ UNCHANGED cache
  /\ UNCHANGED <<up, flight>>

\* group.Do: join the query under way, or start one.
Do(c) ==
  LET h == call[c].host
      f == IF flight[h] = None
           THEN [pc |-> "query", ips |-> None, age |-> 0, callers |-> {}] ELSE flight[h] IN
  /\ call[c].pc = "do"
  /\ call' = [call EXCEPT ![c].pc = "wait"]
  /\ flight' = [flight EXCEPT ![h] = [f EXCEPT !.callers = @ \cup {c}]]
  /\ UNCHANGED <<up, cache>>

reorderIPs(ips) ==
  LET v4 == SelectSeq(ips, LAMBDA ip : ip.v4)
      v6 == SelectSeq(ips, LAMBDA ip : ~ip.v4) IN
  CASE Order = "ipv4first" -> v4 \o v6
    [] Order = "ipv6first" -> v6 \o v4
    [] OTHER -> ips

\* What a look-up can return: an ordered answer, or a failure.
Results == {reorderIPs(x) : x \in Answers} \cup {Err, None}

\* The queries under way; to have none is not one of them.
Flights == [pc : {"query", "store", "return"}, ips : Results, age : 0 .. MaxDelay,
            callers : SUBSET Callers]

ASSUME FlightsAssumption == None \notin Flights

\* The resolver returns; the addresses are put in order and expiresAt computed.
Answer(h) ==
  /\ flight[h] # None /\ flight[h].pc = "query"
  /\ \E a \in IF up THEN {reorderIPs(x) : x \in Answers} ELSE {Err} :
       flight' = [flight EXCEPT ![h].pc = "store", ![h].ips = a]
  /\ UNCHANGED <<up, cache, call>>

Store(h) ==
  /\ flight[h] # None /\ flight[h].pc = "store"
  /\ cache' = [cache EXCEPT ![h] = [ips |-> flight[h].ips, age |-> flight[h].age]]
  /\ flight' = [flight EXCEPT ![h].pc = "return"]
  /\ UNCHANGED <<up, call>>

\* The function given to Do returns: everyone who waits gets its value.
Return(h) ==
  /\ flight[h] # None /\ flight[h].pc = "return"
  /\ call' = [c \in Callers |->
                IF c \in flight[h].callers THEN Got(call[c], flight[h]) ELSE call[c]]
  /\ flight' = [flight EXCEPT ![h] = None]
  /\ UNCHANGED <<up, cache>>

\* expire(), for one entry that is past its time; the rest of the map is a no-op.
Expire(h) ==
  /\ cache[h] # None /\ cache[h].age > TTL
  /\ cache' = [cache EXCEPT ![h] = None]
  /\ UNCHANGED <<up, flight, call>>

\* The resolver fails or comes back.
ResolverChanges == up' = ~up /\ UNCHANGED <<cache, flight, call>>

Older(n) == IF n < MaxAge THEN n + 1 ELSE n

\* Time passes, unless somebody has been runnable for MaxDelay.  A query may take
\* any time.
Tick ==
  /\ \A c \in Callers : call[c].pc \in {"read", "do"} => call[c].wait < MaxDelay
  /\ \A h \in Hosts : flight[h] # None => flight[h].age < MaxDelay
  /\ cache' = [h \in Hosts |-> IF cache[h] = None THEN None
                               ELSE [cache[h] EXCEPT !.age = Older(@)]]
  /\ flight' = [h \in Hosts |-> IF flight[h] = None \/ flight[h].pc = "query" THEN flight[h]
                                ELSE [flight[h] EXCEPT !.age = Older(@)]]
  /\ call' = [c \in Callers |-> IF call[c].pc \in {"read", "do"}
                                THEN [call[c] EXCEPT !.wait = Older(@)] ELSE call[c]]
  /\ UNCHANGED up

\* The steps of LookupIPAddr and of the query, each of which gets to run.
Lookup(c) == Read(c) \/ Do(c)
Query(h) == Answer(h) \/ Store(h) \/ Return(h)
===============================================================================
