----------------------------- MODULE ConnectProofs -----------------------------
(***************************************************************************)
(* For any number of streams, names, answers and configurations: what is   *)
(* dialled directly was checked, and an answer that is used was fresh when *)
(* the look-up began.                                                      *)
(***************************************************************************)
EXTENDS Connect, TLAPS

Safety == Init /\ [][Next]_vars

Calls == [pc : {"idle", "read", "do", "wait", "got"}, host : Hosts \cup {None},
          wait : Nat, ips : Results, age : Nat]
Entries == [ips : Results, age : Nat]

\* The cache and the queries: no value is kept back for more than MaxDelay, which is
\* why an answer a caller waited for is fresh.
DnsInv ==
  /\ call \in [Callers -> Calls]
  /\ cache \in [Hosts -> Entries \cup {None}] /\ flight \in [Hosts -> Flights \cup {None}]
  /\ \A c \in Callers : /\ call[c].pc # "idle" => call[c].host \in Hosts
                        /\ call[c].pc = "got" => call[c].age < TTL
  /\ \A h \in Hosts : flight[h] # None =>
       \A c \in flight[h].callers : call[c].pc = "wait" /\ call[c].host = h

\* The destination of stream r, whose look-up is c, is one that may be dialled directly.
Checked(r, c) ==
  \/ r.dest = r.req.host /\ r.req.ip = None /\ r.req.host \in cfg.whiteHosts
  \/ /\ Evaluate(PolicyFromConfig(cfg), r.dest)
     /\ \/ r.dest = r.req.ip /\ cfg.AllowDirectIP
        \/ /\ c.host = r.req.host /\ c.age < TTL
           /\ \E i \in DOMAIN c.ips : c.ips[i] = r.dest

\* A stream whose look-up is c: only one that asks the cache has a look-up under way, and
\* it keeps what it got.
StreamOK(r, c) ==
  /\ r.pc \in {"closed", "lookup", "dial", "dialled"}
  /\ r.pc # "lookup" => c.pc \in {"idle", "got"}
  /\ r.pc = "lookup" => /\ r.req.host \in Hosts
                        /\ c.pc # "idle" => c.host = r.req.host
  /\ r.pc = "dial" \/ (r.pc = "dialled" /\ r.via = "direct") => Checked(r, c)

\* The fields of a stream.
Shape(r) == r \in [pc : {r.pc}, req : {r.req}, dest : {r.dest}, via : {r.via}]

StreamInv ==
  /\ cfg \in Configs /\ stream = [s \in Callers |-> stream[s]]
  /\ \A s \in Callers : Shape(stream[s]) /\ StreamOK(stream[s], call[s])

Inv == DnsInv /\ StreamInv

USE DEF vars, dnsVars

-------------------------------------------------------------------------------
(* The DNS cache *)

\* At the start nobody looks anything up.
LEMMA DnsInitInv == DnsInit => DnsInv
BY DnsAssumption DEF DnsInit, DnsInv, Idle, Calls, Results

\* What a caller gets is fresh if the entry was when it began, or did not wait longer.
LEMMA GotFresh ==
  ASSUME NEW r \in Calls, NEW e \in [ips : Results, age : Nat], e.age - r.wait < TTL
  PROVE  /\ Got(r, e) \in Calls /\ Got(r, e).pc = "got" /\ Got(r, e).host = r.host
         /\ Got(r, e).ips = e.ips /\ Got(r, e).age < TTL
<1>1. TTL \in Nat /\ TTL > 0
  BY DnsAssumption
<1>2. (IF e.age > r.wait THEN e.age - r.wait ELSE 0) \in Nat
  BY DEF Calls
<1>3. (IF e.age > r.wait THEN e.age - r.wait ELSE 0) < TTL
  BY <1>1 DEF Calls
<1> QED BY <1>2, <1>3 DEF Got, Calls
\* One caller moves on, and did not wait for a query.
LEMMA OneCaller ==
  ASSUME DnsInv, NEW c \in Callers, NEW r \in Calls, call[c].pc # "wait",
         call' = [call EXCEPT ![c] = r], UNCHANGED flight,
         cache' \in [Hosts -> Entries \cup {None}],
         r.pc # "idle" => r.host \in Hosts, r.pc = "got" => r.age < TTL
  PROVE  DnsInv'
<1>1. call' \in [Callers -> Calls]
  BY DEF DnsInv
<1>2. \A d \in Callers : call'[d] = IF d = c THEN r ELSE call[d]
  BY DEF DnsInv
<1>3. \A d \in Callers : /\ call'[d].pc # "idle" => call'[d].host \in Hosts
                         /\ call'[d].pc = "got" => call'[d].age < TTL
  BY <1>2 DEF DnsInv
<1>4. \A h \in Hosts : flight'[h] # None =>
        \A d \in flight'[h].callers : call'[d].pc = "wait" /\ call'[d].host = h
  <2> SUFFICES ASSUME NEW h \in Hosts, flight[h] # None, NEW d \in flight[h].callers
               PROVE  call'[d].pc = "wait" /\ call'[d].host = h
    OBVIOUS
  <2>1. call[d].pc = "wait" /\ call[d].host = h /\ flight[h] \in Flights
    BY DEF DnsInv
  <2>2. d \in Callers /\ d # c
    BY <2>1 DEF Flights
  <2> QED BY <1>2, <2>1, <2>2
<1> QED BY <1>1, <1>3, <1>4 DEF DnsInv

\* A caller that begins, is reset, or reads the cache.
LEMMA CallerStep ==
  ASSUME DnsInv, NEW c \in Callers,
         \/ \E h \in Hosts : Begin(c, h)
         \/ /\ call[c].pc \in {"idle", "got"} /\ call' = [call EXCEPT ![c] = Idle]
            /\ UNCHANGED <<cache, flight>>
         \/ Read(c)
  PROVE  DnsInv'
<1>1. Idle \in Calls /\ Idle.pc = "idle"
  BY DEF Idle, Calls, Results
<1>2. ASSUME NEW h \in Hosts, Begin(c, h) PROVE DnsInv'
  <2> DEFINE r == [Idle EXCEPT !.pc = "read", !.host = h]
  <2>1. r \in Calls /\ r.pc = "read" /\ r.host = h
    BY DEF Idle, Calls, Results
  <2>2. call' = [call EXCEPT ![c] = r] /\ call[c].pc = "idle" /\ UNCHANGED <<cache, flight>>
    BY <1>2 DEF Begin
  <2> HIDE DEF r
  <2> QED BY <2>1, <2>2, OneCaller DEF DnsInv
<1>3. CASE /\ call[c].pc \in {"idle", "got"} /\ call' = [call EXCEPT ![c] = Idle]
           /\ UNCHANGED <<cache, flight>>
  BY <1>1, <1>3, OneCaller DEF DnsInv
<1>4. CASE Read(c)
  <2>1. /\ call[c] \in Calls /\ call[c].host \in Hosts /\ call[c].pc = "read"
        /\ UNCHANGED flight
    BY <1>4 DEF Read, DnsInv
  <2>2. PICK h \in Hosts : h = call[c].host
    BY <2>1
  <2>3. CASE cache[h] # None /\ Valid(cache[h], call[c].wait)
    <3>1. cache[h] \in Entries /\ cache[h].age - call[c].wait < TTL
      BY <2>3 DEF DnsInv, Valid
    <3>2. PICK r : r = Got(call[c], cache[h])
      OBVIOUS
    <3>3. r \in Calls /\ r.pc = "got" /\ r.host = h /\ r.age < TTL
      BY <2>1, <2>2, <3>1, <3>2, GotFresh DEF Entries
    <3>4. call' = [call EXCEPT ![c] = r]
      BY <1>4, <2>2, <2>3, <3>2 DEF Read
    <3>5. cache' = [cache EXCEPT ![h] = cache[h]]
      BY <1>4, <2>2, <2>3 DEF Read, Refreshed
    <3>6. cache' \in [Hosts -> Entries \cup {None}]
      BY <3>5 DEF DnsInv
    <3> QED BY <2>1, <3>3, <3>4, <3>6, OneCaller
  <2>4. CASE ~(cache[h] # None /\ Valid(cache[h], call[c].wait))
    <3> DEFINE r == [call[c] EXCEPT !.pc = "do"]
    <3>1. r \in Calls /\ r.pc = "do" /\ r.host = h
      BY <2>1, <2>2 DEF Calls
    <3>2. call' = [call EXCEPT ![c] = r] /\ UNCHANGED cache
      BY <1>4, <2>2, <2>4 DEF Read
    <3> HIDE DEF r
    <3> QED BY <2>1, <3>1, <3>2, OneCaller DEF DnsInv
  <2> QED BY <2>3, <2>4
<1> QED BY <1>2, <1>3, <1>4

\* A caller joins the query of its host, or starts it.
LEMMA DoStep ==
  ASSUME DnsInv, NEW c \in Callers, Do(c)
  PROVE  DnsInv'
<1>1. call[c] \in Calls /\ call[c].host \in Hosts /\ call[c].pc = "do" /\ UNCHANGED cache
  BY DEF Do, DnsInv
<1>2. PICK h \in Hosts : h = call[c].host
  BY <1>1
<1> DEFINE r == [call[c] EXCEPT !.pc = "wait"]
           f == IF flight[h] = None
                THEN [pc |-> "query", ips |-> None, age |-> 0, callers |-> {}]
                ELSE flight[h]
           g == [f EXCEPT !.callers = @ \cup {c}]
<1>3. r \in Calls /\ r.pc = "wait" /\ r.host = h
  BY <1>1, <1>2 DEF Calls
<1>4. /\ f \in Flights /\ (flight[h] = None => f.callers = {})
      /\ flight[h] # None => f = flight[h]
  BY DnsAssumption DEF DnsInv, Flights, Results
<1>5. g \in Flights /\ g.callers = f.callers \cup {c}
  BY <1>4 DEF Flights
<1>6. call' = [call EXCEPT ![c] = r] /\ flight' = [flight EXCEPT ![h] = g]
  BY <1>2 DEF Do
<1> HIDE DEF r, f, g
<1>7. /\ \A d \in Callers : call'[d] = IF d = c THEN r ELSE call[d]
      /\ \A k \in Hosts : flight'[k] = IF k = h THEN g ELSE flight[k]
      /\ call' \in [Callers -> Calls] /\ flight' \in [Hosts -> Flights \cup {None}]
  BY <1>3, <1>5, <1>6 DEF DnsInv
<1>8. \A d \in Callers : /\ call'[d].pc # "idle" => call'[d].host \in Hosts
                         /\ call'[d].pc = "got" => call'[d].age < TTL
  BY <1>3, <1>7 DEF DnsInv
<1>9. \A k \in Hosts : flight'[k] # None =>
        \A d \in flight'[k].callers : call'[d].pc = "wait" /\ call'[d].host = k
  <2> SUFFICES ASSUME NEW k \in Hosts, flight'[k] # None, NEW d \in flight'[k].callers
               PROVE  call'[d].pc = "wait" /\ call'[d].host = k
    OBVIOUS
  <2>1. CASE k = h /\ d = c
    BY <1>3, <1>7, <2>1
  <2>2. CASE ~(k = h /\ d = c)
    <3>1. flight[k] # None /\ d \in flight[k].callers
      BY <1>4, <1>5, <1>7, <2>2
    <3>2. call[d].pc = "wait" /\ call[d].host = k /\ flight[k] \in Flights
      BY <3>1 DEF DnsInv
    <3>3. d \in Callers /\ d # c
      BY <1>1, <3>1, <3>2 DEF Flights
    <3> QED BY <1>7, <3>2, <3>3
  <2> QED BY <2>1, <2>2
<1> QED BY <1>1, <1>7, <1>8, <1>9 DEF DnsInv
\* The query of a host changes, and waits for nobody else.
LEMMA OneFlight ==
  ASSUME DnsInv, NEW h \in Hosts, flight[h] # None, NEW g \in Flights,
         g.callers = flight[h].callers, flight' = [flight EXCEPT ![h] = g],
         UNCHANGED call, cache' \in [Hosts -> Entries \cup {None}]
  PROVE  DnsInv'
<1>1. /\ flight' \in [Hosts -> Flights \cup {None}]
      /\ \A k \in Hosts : flight'[k] = IF k = h THEN g ELSE flight[k]
  BY DEF DnsInv
<1> QED BY <1>1 DEF DnsInv

\* The resolver answers, the answer is stored, and all who wait get it: it is no older
\* than MaxDelay, which is less than TTL.
LEMMA QueryStep ==
  ASSUME DnsInv, NEW h \in Hosts, Query(h)
  PROVE  DnsInv'
<1>1. flight[h] # None /\ flight[h] \in Flights
  BY DEF Query, Answer, Store, Return, DnsInv
<1>2. CASE Answer(h)
  <2>1. PICK x \in Results : flight' = [flight EXCEPT ![h].pc = "store", ![h].ips = x]
    BY <1>2 DEF Answer, Results
  <2> DEFINE g == [flight[h] EXCEPT !.pc = "store", !.ips = x]
  <2>2. g \in Flights /\ g.callers = flight[h].callers
    BY <1>1 DEF Flights
  <2>3. flight' = [flight EXCEPT ![h] = g] /\ UNCHANGED <<cache, call>>
    BY <1>2, <2>1 DEF Answer
  <2> HIDE DEF g
  <2> QED BY <1>1, <2>2, <2>3, OneFlight DEF DnsInv
<1>3. CASE Store(h)
  <2> DEFINE g == [flight[h] EXCEPT !.pc = "return"]
  <2>1. g \in Flights /\ g.callers = flight[h].callers
    BY <1>1 DEF Flights
  <2>2. flight' = [flight EXCEPT ![h] = g] /\ UNCHANGED call
    BY <1>3 DEF Store
  <2>3. [ips |-> flight[h].ips, age |-> flight[h].age] \in Entries
    BY <1>1, DnsAssumption DEF Flights, Entries
  <2>4. cache' \in [Hosts -> Entries \cup {None}]
    BY <1>3, <2>3 DEF Store, DnsInv
  <2> HIDE DEF g
  <2> QED BY <1>1, <2>1, <2>2, <2>4, OneFlight
<1>4. CASE Return(h)
  <2> DEFINE e == [ips |-> flight[h].ips, age |-> flight[h].age]
             W == flight[h].callers
  <2>1. UNCHANGED cache /\ flight' = [flight EXCEPT ![h] = None]
    BY <1>4 DEF Return
  <2>2. call' = [c \in Callers |-> IF c \in W THEN Got(call[c], e) ELSE call[c]]
    BY <1>4 DEF Return, Got
  <2>3. /\ e \in [ips : Results, age : Nat] /\ e.age <= MaxDelay /\ e.age \in Nat
    BY <1>1, DnsAssumption DEF Flights
  <2>4. \A c \in W : c \in Callers /\ call[c].pc = "wait" /\ call[c].host = h
    BY <1>1 DEF DnsInv, Flights
  <2> HIDE DEF e, W
  <2>5. ASSUME NEW c \in Callers, c \in W
        PROVE  /\ Got(call[c], e) \in Calls /\ Got(call[c], e).pc = "got"
               /\ Got(call[c], e).host = h /\ Got(call[c], e).age < TTL
    <3>1. call[c] \in Calls /\ call[c].wait \in Nat
      BY DEF DnsInv, Calls
    <3>2. e.age - call[c].wait < TTL
      BY <2>3, <3>1, DnsAssumption
    <3> QED BY <2>3, <2>4, <2>5, <3>1, <3>2, GotFresh
  <2>6. call' \in [Callers -> Calls]
    BY <2>2, <2>5 DEF DnsInv
  <2>7. \A c \in Callers : /\ c \in W => call'[c].pc = "got" /\ call'[c].host = h
                                         /\ call'[c].age < TTL
                           /\ c \notin W => call'[c] = call[c]
    BY <2>2, <2>5
  <2>8. \A c \in Callers : /\ call'[c].pc # "idle" => call'[c].host \in Hosts
                           /\ call'[c].pc = "got" => call'[c].age < TTL
    BY <2>7 DEF DnsInv
  <2>9. /\ flight' \in [Hosts -> Flights \cup {None}]
        /\ \A k \in Hosts : flight'[k] = IF k = h THEN None ELSE flight[k]
    BY <2>1 DEF DnsInv
  <2>10. \A k \in Hosts : flight'[k] # None =>
           \A c \in flight'[k].callers : call'[c].pc = "wait" /\ call'[c].host = k
    <3> SUFFICES ASSUME NEW k \in Hosts, flight'[k] # None, NEW c \in flight'[k].callers
                 PROVE  call'[c].pc = "wait" /\ call'[c].host = k
      OBVIOUS
    <3>1. k # h /\ flight[k] # None /\ c \in flight[k].callers
      BY <2>9
    <3>2. call[c].pc = "wait" /\ call[c].host = k /\ c \in Callers
      BY <3>1 DEF DnsInv, Flights
    <3>3. c \notin W
      BY <2>4, <3>1, <3>2
    <3> QED BY <2>7, <3>2, <3>3
  <2> QED BY <2>1, <2>6, <2>8, <2>9, <2>10 DEF DnsInv
<1> QED BY <1>2, <1>3, <1>4 DEF Query

\* Time passes: a value is handed on before it is MaxDelay old.
LEMMA TickStep ==
  ASSUME DnsInv, Tick
  PROVE  DnsInv'
<1>1. \A n \in Nat : Older(n) \in Nat
  BY DEF Older
<1>2. \A c \in Callers : /\ call'[c] \in Calls /\ call'[c].pc = call[c].pc
                         /\ call'[c].host = call[c].host /\ call'[c].age = call[c].age
  <2> TAKE c \in Callers
  <2>1. call[c] \in Calls
    BY DEF DnsInv
  <2>2. call'[c] = IF call[c].pc \in {"read", "do"}
                   THEN [call[c] EXCEPT !.wait = Older(@)] ELSE call[c]
    BY DEF Tick
  <2>3. [call[c] EXCEPT !.wait = Older(@)] \in Calls
    BY <1>1, <2>1 DEF Calls
  <2> QED BY <2>1, <2>2, <2>3 DEF Calls
<1>3. call' \in [Callers -> Calls]
  BY <1>2 DEF Tick
<1>4. cache' \in [Hosts -> Entries \cup {None}]
  <2>1. \A h \in Hosts : cache[h] # None => [cache[h] EXCEPT !.age = Older(@)] \in Entries
    BY <1>1 DEF DnsInv, Entries
  <2> QED BY <2>1 DEF Tick
<1>5. \A h \in Hosts : /\ flight'[h] \in Flights \cup {None}
                       /\ flight'[h] # None => /\ flight[h] # None
                                               /\ flight'[h].callers = flight[h].callers
  <2> TAKE h \in Hosts
  <2>1. CASE flight[h] = None \/ flight[h].pc = "query"
    BY <2>1 DEF Tick, DnsInv
  <2>2. CASE flight[h] # None /\ flight[h].pc # "query"
    <3>1. flight[h] \in Flights /\ flight[h].age < MaxDelay /\ flight[h].age \in Nat
      BY <2>2, DnsAssumption DEF Tick, DnsInv, Flights
    <3>2. Older(flight[h].age) \in 0 .. MaxDelay
      BY <3>1, DnsAssumption DEF Older
    <3>3. flight'[h] = [flight[h] EXCEPT !.age = Older(@)]
      BY <2>2 DEF Tick
    <3> QED BY <2>2, <3>1, <3>2, <3>3 DEF Flights
  <2> QED BY <2>1, <2>2
<1>6. flight' \in [Hosts -> Flights \cup {None}]
  BY <1>5 DEF Tick
<1>7. \A h \in Hosts : flight'[h] # None =>
        \A c \in flight'[h].callers : call'[c].pc = "wait" /\ call'[c].host = h
  <2> SUFFICES ASSUME NEW h \in Hosts, flight'[h] # None, NEW c \in flight'[h].callers
               PROVE  call'[c].pc = "wait" /\ call'[c].host = h
    OBVIOUS
  <2>1. flight[h] # None /\ c \in flight[h].callers
    BY <1>5
  <2>2. call[c].pc = "wait" /\ call[c].host = h /\ c \in Callers
    BY <2>1 DEF DnsInv, Flights
  <2> QED BY <1>2, <2>2
<1>8. \A c \in Callers : /\ call'[c].pc # "idle" => call'[c].host \in Hosts
                         /\ call'[c].pc = "got" => call'[c].age < TTL
  BY <1>2 DEF DnsInv
<1> QED BY <1>3, <1>4, <1>6, <1>7, <1>8 DEF DnsInv

\* The rest of the environment does not touch what callers have.
LEMMA EnvironmentStep ==
  ASSUME DnsInv, Environment
  PROVE  DnsInv'
<1>1. CASE ResolverChanges
  BY <1>1 DEF ResolverChanges, DnsInv
<1>2. ASSUME NEW h \in Hosts, Expire(h) PROVE DnsInv'
  BY <1>2 DEF Expire, DnsInv
<1> QED BY <1>1, <1>2, TickStep DEF Environment
-------------------------------------------------------------------------------
(* The streams *)

\* Look-ups that move on leave their streams where they are.
LEMMA LookupsMove ==
  ASSUME StreamInv, UNCHANGED <<cfg, stream>>,
         \A s \in Callers : \/ call'[s] = call[s]
                            \/ /\ call[s].pc \in {"read", "do", "wait"}
                               /\ call'[s].pc # "idle" /\ call'[s].host = call[s].host
  PROVE  StreamInv'
<1> SUFFICES ASSUME NEW s \in Callers PROVE StreamOK(stream[s], call[s])'
  BY DEF StreamInv
<1>1. StreamOK(stream[s], call[s])
  BY DEF StreamInv
<1>2. CASE call'[s] = call[s]
  BY <1>1, <1>2 DEF StreamOK, Checked
<1>3. CASE /\ call[s].pc \in {"read", "do", "wait"}
           /\ call'[s].pc # "idle" /\ call'[s].host = call[s].host
  BY <1>1, <1>3 DEF StreamOK
<1> QED BY <1>2, <1>3

\* One stream moves on.
LEMMA OneStream ==
  ASSUME StreamInv, DnsInv, NEW s \in Callers, NEW r, NEW c, Shape(r), StreamOK(r, c),
         stream' = [stream EXCEPT ![s] = r], call' = [call EXCEPT ![s] = c], UNCHANGED cfg
  PROVE  StreamInv'
<1>1. /\ \A t \in Callers : stream'[t] = IF t = s THEN r ELSE stream[t]
      /\ \A t \in Callers : call'[t] = IF t = s THEN c ELSE call[t]
      /\ stream' = [t \in Callers |-> stream'[t]]
  BY DEF StreamInv, DnsInv
<1>2. \A t \in Callers : Shape(stream'[t])
  BY <1>1 DEF StreamInv
<1>3. \A t \in Callers : StreamOK(stream'[t], call'[t])
  BY <1>1 DEF StreamInv
<1>4. \A t \in Callers : StreamOK(stream[t], call[t])'
  BY <1>3 DEF StreamOK, Checked
<1> QED BY <1>1, <1>2, <1>4 DEF StreamInv, Shape

\* handleConnect before any look-up: an address is checked against the policy, and only
\* a name spelt as in the white list is dialled as it is.
LEMMA StartStep ==
  ASSUME Inv, NEW s \in Callers, NEW r \in Requests, Start(s, r)
  PROVE  Inv'
<1>1. Idle.pc = "idle"
  BY DEF Idle
<1>2. StreamOK(Closed, Idle) /\ Shape(Closed)
  BY <1>1 DEF StreamOK, Closed, Shape
<1>3. Shape(First(r)) /\ StreamOK(First(r), Idle)
  <2> DEFINE to(pc, dest) == [pc |-> pc, req |-> r, dest |-> dest, via |-> None]
  <2>1. \/ First(r) = Closed
        \/ First(r) = to("dial", r.ip) /\ LiteralPasses(r.ip)
        \/ First(r) = to("dial", r.host) /\ r.ip = None /\ SkipsLookup(r)
        \/ First(r) = to("lookup", None) /\ ListsPass(r) /\ r.ip = None /\ ~SkipsLookup(r)
    BY DEF First
  <2>2. ASSUME NEW pc, NEW dest
        PROVE  /\ Shape(to(pc, dest)) /\ to(pc, dest).pc = pc /\ to(pc, dest).req = r
               /\ to(pc, dest).dest = dest
    BY DEF Shape
  <2> HIDE DEF to
  <2>3. CASE First(r) = to("dial", r.ip) /\ LiteralPasses(r.ip)
    BY <1>1, <2>2, <2>3 DEF StreamOK, Checked, LiteralPasses
  <2>4. CASE First(r) = to("dial", r.host) /\ r.ip = None /\ SkipsLookup(r)
    BY <1>1, <2>2, <2>4 DEF StreamOK, Checked, SkipsLookup
  <2>5. CASE First(r) = to("lookup", None) /\ ListsPass(r) /\ r.ip = None /\ ~SkipsLookup(r)
    <3>1. cfg \in Configs
      BY DEF Inv, StreamInv
    <3>2. r.host \in Hosts
      BY <2>5, <3>1, RequestsAssumption DEF ListsPass, SkipsLookup
    <3> QED BY <1>1, <2>2, <2>5, <3>2 DEF StreamOK
  <2> QED BY <1>2, <2>1, <2>3, <2>4, <2>5
<1>4. /\ stream' = [stream EXCEPT ![s] = First(r)] /\ call' = [call EXCEPT ![s] = Idle]
      /\ UNCHANGED <<cache, flight, cfg>>
  BY DEF Start
<1>5. call[s].pc \in {"idle", "got"}
  BY DEF Start, Inv, StreamInv, StreamOK
<1> QED BY <1>3, <1>4, <1>5, OneStream, CallerStep DEF Inv

\* A stream is closed, and its call is done with.
LEMMA CloseStep ==
  ASSUME Inv, NEW s \in Callers, call[s].pc \in {"idle", "got"}, Close(s),
         UNCHANGED <<cache, flight, cfg>>
  PROVE  Inv'
<1>1. Idle.pc = "idle"
  BY DEF Idle
<1>2. StreamOK(Closed, Idle) /\ Shape(Closed)
  BY <1>1 DEF StreamOK, Closed, Shape
<1> QED BY <1>2, OneStream, CallerStep DEF Inv, Close

\* What is picked from an answer is in it, and allowed.
LEMMA PickAllowed ==
  ASSUME NEW ips, Pick(ips) # None
  PROVE  \E i \in DOMAIN ips : ips[i] = Pick(ips) /\ Evaluate(PolicyFromConfig(cfg), ips[i])
<1> DEFINE first == {i \in Allowed(ips) : \A j \in Allowed(ips) : i <= j}
<1>1. first # {} /\ Pick(ips) = ips[CHOOSE i \in first : TRUE]
  BY DEF Pick
<1>2. PICK k : k = (CHOOSE i \in first : TRUE)
  OBVIOUS
<1>3. k \in first
  BY <1>1, <1>2
<1>4. k \in Allowed(ips)
  BY <1>3
<1> QED BY <1>1, <1>2, <1>4 DEF Allowed

\* A stream that gets a destination, and one that dials it, keep shape and request.
Dials(q, dest) == [q EXCEPT !.pc = "dial", !.dest = dest]
Dialled(q, via, dest) == [q EXCEPT !.pc = "dialled", !.via = via, !.dest = dest]

LEMMA Moved ==
  ASSUME NEW q, Shape(q), NEW dest, NEW via
  PROVE  /\ Shape(Dials(q, dest)) /\ Dials(q, dest).pc = "dial"
         /\ Dials(q, dest).req = q.req /\ Dials(q, dest).dest = dest
         /\ Shape(Dialled(q, via, dest)) /\ Dialled(q, via, dest).pc = "dialled"
         /\ Dialled(q, via, dest).req = q.req /\ Dialled(q, via, dest).dest = dest
         /\ Dialled(q, via, dest).via = via
<1> DEFINE A == {q.pc, q.req, q.dest, q.via, "dial", "dialled", dest, via}
           Streams == [pc : A, req : A, dest : A, via : A]
<1>1. /\ "dial" \in A /\ "dialled" \in A /\ dest \in A /\ via \in A
      /\ q \in Streams
  BY DEF Shape
<1> HIDE DEF A
<1>2. /\ Dials(q, dest) \in Streams /\ Dials(q, dest).pc = "dial"
      /\ Dials(q, dest).req = q.req /\ Dials(q, dest).dest = dest
  BY <1>1 DEF Dials
<1>3. /\ Dialled(q, via, dest) \in Streams /\ Dialled(q, via, dest).pc = "dialled"
      /\ Dialled(q, via, dest).req = q.req /\ Dialled(q, via, dest).dest = dest
      /\ Dialled(q, via, dest).via = via
  BY <1>1 DEF Dialled
<1>4. ASSUME NEW r \in Streams PROVE Shape(r)
  BY DEF Shape
<1> HIDE DEF Streams
<1> QED BY <1>2, <1>3, <1>4

\* The look-up has returned: what is dialled is one of the addresses it gave.
LEMMA ResolvedStep ==
  ASSUME Inv, NEW s \in Callers, Resolved(s)
  PROVE  Inv'
<1> DEFINE dest == IF call[s].ips = Err THEN None ELSE Pick(call[s].ips)
<1>1. stream[s].pc = "lookup" /\ call[s].pc = "got" /\ UNCHANGED <<up, cache, flight, cfg>>
  BY DEF Resolved
<1>2. CASE dest = None /\ Close(s)
  BY <1>1, <1>2, CloseStep
<1>3. CASE /\ dest # None /\ UNCHANGED call
           /\ stream' = [stream EXCEPT ![s].pc = "dial", ![s].dest = dest]
  <2>1. dest = Pick(call[s].ips)
    BY <1>3
  <2>2. PICK i \in DOMAIN call[s].ips :
          call[s].ips[i] = dest /\ Evaluate(PolicyFromConfig(cfg), dest)
    BY <1>3, <2>1, PickAllowed
  <2>3. call[s].host = stream[s].req.host /\ call[s].age < TTL /\ Shape(stream[s])
    BY <1>1 DEF Inv, DnsInv, StreamInv, StreamOK
  <2>4. PICK d : d = dest
    OBVIOUS
  <2>0. PICK r : r = Dials(stream[s], d)
    OBVIOUS
  <2>5. /\ Shape(r) /\ r.pc = "dial" /\ r.req = stream[s].req /\ r.dest = d
    BY <2>0, <2>3, Moved
  <2>6. stream' = [stream EXCEPT ![s] = r]
    BY <2>0, <1>3, <2>4 DEF Dials
  <2>7. call' = [call EXCEPT ![s] = call[s]]
    BY <1>3 DEF Inv, DnsInv
  <2> HIDE DEF dest
  <2>8. StreamOK(r, call[s])
    BY <1>1, <2>2, <2>3, <2>4, <2>5 DEF StreamOK, Checked
  <2>9. StreamInv'
    BY <1>1, <2>5, <2>6, <2>7, <2>8, OneStream DEF Inv
  <2>10. DnsInv'
    BY <1>1, <1>3 DEF Inv, DnsInv
  <2> QED BY <2>9, <2>10 DEF Inv
<1> QED BY <1>2, <1>3 DEF Resolved

\* A direct dial is to the destination as it was checked.
LEMMA DialStep ==
  ASSUME Inv, NEW s \in Callers, Dial(s)
  PROVE  Inv'
<1> DEFINE via == Via(stream[s].req)
           dest == IF via = "proxy" THEN stream[s].req.name ELSE stream[s].dest
<1>1. /\ stream[s].pc = "dial" /\ UNCHANGED <<up, cache, flight, cfg>>
      /\ Shape(stream[s]) /\ StreamOK(stream[s], call[s])
  BY DEF Dial, Inv, StreamInv
<1>2. CASE via = "none" /\ Close(s)
  BY <1>1, <1>2, CloseStep DEF StreamOK
<1>3. CASE /\ via # "none" /\ UNCHANGED call
           /\ stream' = [stream EXCEPT ![s].pc = "dialled", ![s].via = via,
                                       ![s].dest = IF via = "proxy" THEN stream[s].req.name
                                                   ELSE @]
  <2>0. PICK r : r = Dialled(stream[s], via, dest)
    OBVIOUS
  <2>1. /\ Shape(r) /\ r.pc = "dialled" /\ r.req = stream[s].req /\ r.via = via
        /\ r.via = "direct" => r.dest = stream[s].dest
    BY <2>0, <1>1, Moved
  <2>2. stream' = [stream EXCEPT ![s] = r]
    BY <2>0, <1>3 DEF Dialled
  <2>3. call' = [call EXCEPT ![s] = call[s]]
    BY <1>3 DEF Inv, DnsInv
  <2> HIDE DEF via, dest
  <2>4. StreamOK(r, call[s])
    BY <1>1, <2>1 DEF StreamOK, Checked
  <2>5. StreamInv'
    BY <1>1, <2>1, <2>2, <2>3, <2>4, OneStream DEF Inv
  <2>6. DnsInv'
    BY <1>1, <1>3 DEF Inv, DnsInv
  <2> QED BY <2>5, <2>6 DEF Inv
<1> QED BY <1>2, <1>3 DEF Dial

\* A stream asks the cache for the name that it was given.
LEMMA AsksStep ==
  ASSUME Inv, NEW s \in Callers, AsksCache(s)
  PROVE  Inv'
<1> DEFINE r == [Idle EXCEPT !.pc = "read", !.host = stream[s].req.host]
<1>1. /\ stream[s].pc = "lookup" /\ Begin(s, stream[s].req.host) /\ UNCHANGED <<cfg, stream>>
      /\ Shape(stream[s]) /\ StreamOK(stream[s], call[s])
  BY DEF AsksCache, Inv, StreamInv
<1>2. stream[s].req.host \in Hosts
  BY <1>1 DEF StreamOK
<1>3. DnsInv'
  BY <1>1, <1>2, CallerStep DEF Inv
<1>4. r.pc = "read" /\ r.host = stream[s].req.host
  BY DEF Idle
<1>5. call' = [call EXCEPT ![s] = r]
  BY <1>1 DEF Begin
<1> HIDE DEF r
<1>6. StreamOK(stream[s], r)
  BY <1>1, <1>2, <1>4 DEF StreamOK
<1>7. stream' = [stream EXCEPT ![s] = stream[s]]
  BY <1>1 DEF Inv, StreamInv
<1>8. StreamInv'
  BY <1>1, <1>5, <1>6, <1>7, OneStream DEF Inv
<1> QED BY <1>3, <1>8 DEF Inv

\* What a caller gets is for its host.
LEMMA GotHost ==
  ASSUME NEW r \in Calls, NEW e
  PROVE  Got(r, e).pc = "got" /\ Got(r, e).host = r.host
BY DEF Got, Calls

\* A look-up reads the cache, or joins the query of its host.
LEMMA LookupStep ==
  ASSUME Inv, NEW c \in Callers, Lookup(c), UNCHANGED <<cfg, stream>>
  PROVE  Inv'
<1>1. call[c] \in Calls /\ call \in [Callers -> Calls]
  BY DEF Inv, DnsInv
<1>2. CASE Read(c)
  <2>1. call[c].pc = "read"
    BY <1>2 DEF Read
  <2>2. \E r : /\ r.pc # "idle" /\ r.host = call[c].host
               /\ call' = [call EXCEPT ![c] = r]
    <3>1. CASE call' = [call EXCEPT ![c] = Got(@, cache[call[c].host])]
      BY <1>1, <3>1, GotHost
    <3>2. CASE call' = [call EXCEPT ![c].pc = "do"]
      <4> DEFINE r == [call[c] EXCEPT !.pc = "do"]
      <4>1. r.pc # "idle" /\ r.host = call[c].host
        BY <1>1 DEF Calls
      <4>2. call' = [call EXCEPT ![c] = r]
        BY <3>2
      <4> HIDE DEF r
      <4> QED BY <4>1, <4>2
    <3> QED BY <1>2, <3>1, <3>2 DEF Read
  <2>3. StreamInv'
    BY <1>1, <2>1, <2>2, LookupsMove DEF Inv
  <2> QED BY <1>2, <2>3, CallerStep DEF Inv
<1>3. CASE Do(c)
  <2> DEFINE r == [call[c] EXCEPT !.pc = "wait"]
  <2>1. call[c].pc = "do" /\ r.pc = "wait" /\ r.host = call[c].host
    BY <1>1, <1>3 DEF Do, Calls
  <2>2. call' = [call EXCEPT ![c] = r]
    BY <1>3 DEF Do
  <2> HIDE DEF r
  <2>3. StreamInv'
    BY <1>1, <2>1, <2>2, LookupsMove DEF Inv
  <2> QED BY <1>3, <2>3, DoStep DEF Inv
<1> QED BY <1>2, <1>3 DEF Lookup

\* A query of the resolver gets on, and may return to all who wait for it.
LEMMA QueriesMove ==
  ASSUME Inv, NEW h \in Hosts, Query(h), UNCHANGED <<cfg, stream>>
  PROVE  Inv'
<1>1. CASE UNCHANGED call
  <2>1. StreamInv'
    BY <1>1, LookupsMove DEF Inv
  <2> QED BY <2>1, QueryStep DEF Inv
<1>2. CASE Return(h)
  <2>1. \A c \in Callers : \/ call'[c] = call[c]
                           \/ /\ c \in flight[h].callers
                              /\ call'[c] = Got(call[c], flight[h])
    BY <1>2 DEF Return
  <2>2. \A c \in flight[h].callers : call[c].pc = "wait"
    BY <1>2 DEF Return, Inv, DnsInv
  <2>3. \A c \in Callers : call[c] \in Calls
    BY DEF Inv, DnsInv
  <2>4. \A c \in Callers : /\ Got(call[c], flight[h]).pc = "got"
                           /\ Got(call[c], flight[h]).host = call[c].host
    BY <2>3, GotHost
  <2>5. StreamInv'
    BY <2>1, <2>2, <2>4, LookupsMove DEF Inv
  <2> QED BY <2>5, QueryStep DEF Inv
<1> QED BY <1>1, <1>2 DEF Query, Answer, Store

\* Time only makes callers wait; the resolver and expire() do not touch them.
LEMMA EnvironmentMoves ==
  ASSUME Inv, Environment, UNCHANGED <<cfg, stream>>
  PROVE  Inv'
<1>1. DnsInv'
  BY EnvironmentStep DEF Inv
<1>2. CASE UNCHANGED call
  <2>1. StreamInv'
    BY <1>2, LookupsMove DEF Inv
  <2> QED BY <1>1, <2>1 DEF Inv
<1>3. CASE Tick
  <2>1. ASSUME NEW c \in Callers
        PROVE  \/ call'[c] = call[c]
               \/ /\ call[c].pc \in {"read", "do", "wait"}
                  /\ call'[c].pc # "idle" /\ call'[c].host = call[c].host
    <3>1. call'[c] = IF call[c].pc \in {"read", "do"}
                     THEN [call[c] EXCEPT !.wait = Older(@)] ELSE call[c]
      BY <1>3 DEF Tick
    <3>2. call[c] \in Calls
      BY DEF Inv, DnsInv
    <3> QED BY <3>1, <3>2 DEF Calls
  <2>2. StreamInv'
    BY <2>1, LookupsMove DEF Inv
  <2> QED BY <1>1, <2>2 DEF Inv
<1> QED BY <1>2, <1>3 DEF Environment, ResolverChanges, Expire

-------------------------------------------------------------------------------
(* The theorem *)

LEMMA InitInv == Init => Inv
<1> SUFFICES ASSUME Init PROVE Inv
  OBVIOUS
<1>1. DnsInv
  BY DnsInitInv DEF Init
<1>2. \A s \in Callers : stream[s] = Closed /\ call[s] = Idle
  BY DEF Init, DnsInit
<1>3. StreamOK(Closed, Idle) /\ Shape(Closed)
  BY DEF StreamOK, Closed, Idle, Shape
<1> QED BY <1>1, <1>2, <1>3 DEF Init, Inv, StreamInv

LEMMA NextInv == Inv /\ [Next]_vars => Inv'
<1> SUFFICES ASSUME Inv, [Next]_vars PROVE Inv'
  OBVIOUS
<1>1. ASSUME NEW s \in Callers, NEW r \in Requests, Start(s, r) PROVE Inv'
  BY <1>1, StartStep
<1>2. ASSUME NEW s \in Callers, StreamStep(s) PROVE Inv'
  BY <1>2, AsksStep, ResolvedStep, DialStep, LookupStep DEF StreamStep
<1>3. ASSUME NEW h \in Hosts, Query(h), UNCHANGED <<cfg, stream>> PROVE Inv'
  BY <1>3, QueriesMove
<1>4. CASE Environment /\ UNCHANGED <<cfg, stream>>
  BY <1>4, EnvironmentMoves
<1>5. CASE UNCHANGED vars
  <2>1. DnsInv'
    BY <1>5 DEF Inv, DnsInv
  <2>2. StreamInv'
    BY <1>5, LookupsMove DEF Inv
  <2> QED BY <2>1, <2>2 DEF Inv
<1> QED BY <1>1, <1>2, <1>3, <1>4, <1>5 DEF Next

LEMMA AlwaysInv == Safety => []Inv
BY InitInv, NextInv, PTL DEF Safety

\* Whatever the resolver answers when, and however many streams share a query, what
\* handleConnect dials directly was checked: a name spelt as in the white list, the
\* address the client gave if it is allowed, or an allowed address from an answer for
\* that very name that was fresh when the look-up began (wisp-stream.go, dnscache.go).
THEOREM DirectDialsChecked == Safety => []DialledChecked
<1>1. Inv => DialledChecked
  BY DEF Inv, StreamInv, StreamOK, Checked, DialledChecked
<1> QED BY <1>1, AlwaysInv, PTL
-------------------------------------------------------------------------------
(* Nobody waits in vain *)

\* A caller that waits for a query is among those that the query under way for its host
\* will return to: what Decided needs of the singleflight group.
WaitersServed ==
  \A c \in Callers : call[c].pc = "wait" =>
    flight[call[c].host] # None /\ c \in flight[call[c].host].callers

\* A step that touches no query and makes nobody wait.
LEMMA ServedKept ==
  ASSUME WaitersServed, UNCHANGED flight,
         \A c \in Callers : call'[c].pc = "wait" => call'[c] = call[c]
  PROVE  WaitersServed'
BY DEF WaitersServed

\* One caller moves on, to where it does not wait.
LEMMA ServedOne ==
  ASSUME Inv, WaitersServed, UNCHANGED flight, NEW c \in Callers, NEW r, r.pc # "wait",
         call' = [call EXCEPT ![c] = r]
  PROVE  WaitersServed'
<1>1. \A d \in Callers : call'[d] = IF d = c THEN r ELSE call[d]
  BY DEF Inv, DnsInv
<1> QED BY <1>1, ServedKept

\* A stream's own steps, but for joining a query.
LEMMA ServedStream ==
  ASSUME Inv, WaitersServed, NEW s \in Callers,
         \/ \E r \in Requests : Start(s, r)
         \/ AsksCache(s) \/ Resolved(s) \/ Dial(s) \/ Read(s)
  PROVE  WaitersServed'
<1>1. call[s] \in Calls /\ Idle.pc # "wait"
  BY DEF Inv, DnsInv, Idle
<1>2. CASE UNCHANGED <<call, flight>>
  BY <1>2, ServedKept
<1>3. CASE call' = [call EXCEPT ![s] = Idle] /\ UNCHANGED flight
  BY <1>1, <1>3, ServedOne
<1>4. CASE AsksCache(s)
  <2> DEFINE r == [Idle EXCEPT !.pc = "read", !.host = stream[s].req.host]
  <2>1. r.pc # "wait"
    BY DEF Idle
  <2>2. call' = [call EXCEPT ![s] = r] /\ UNCHANGED flight
    BY <1>4 DEF AsksCache, Begin
  <2> HIDE DEF r
  <2> QED BY <2>1, <2>2, ServedOne
<1>5. CASE Read(s)
  <2>1. UNCHANGED flight
    BY <1>5 DEF Read
  <2>2. CASE call' = [call EXCEPT ![s] = Got(@, cache[call[s].host])]
    BY <1>1, <2>1, <2>2, GotHost, ServedOne
  <2>3. CASE call' = [call EXCEPT ![s].pc = "do"]
    <3> DEFINE r == [call[s] EXCEPT !.pc = "do"]
    <3>1. r.pc # "wait" /\ call' = [call EXCEPT ![s] = r]
      BY <1>1, <2>3 DEF Calls
    <3> HIDE DEF r
    <3> QED BY <2>1, <3>1, ServedOne
  <2> QED BY <1>5, <2>2, <2>3 DEF Read
<1> QED BY <1>2, <1>3, <1>4, <1>5 DEF Start, Resolved, Dial, Close

\* Whoever joins a query is added to its callers; those of the others stay.
LEMMA ServedDo ==
  ASSUME Inv, WaitersServed, NEW c \in Callers, Do(c)
  PROVE  WaitersServed'
<1>1. call[c] \in Calls /\ call[c].host \in Hosts
  BY DEF Do, Inv, DnsInv
<1>2. PICK h \in Hosts : h = call[c].host
  BY <1>1
<1> DEFINE r == [call[c] EXCEPT !.pc = "wait"]
           f == IF flight[h] = None
                THEN [pc |-> "query", ips |-> None, age |-> 0, callers |-> {}]
                ELSE flight[h]
           g == [f EXCEPT !.callers = @ \cup {c}]
<1>3. flight[h] # None => f = flight[h]
  OBVIOUS
<1>4. f \in Flights
  BY DnsAssumption DEF Inv, DnsInv, Flights, Results
<1>5. g \in Flights /\ g.callers = f.callers \cup {c}
  BY <1>4 DEF Flights
<1>6. r.host = h
  BY <1>1, <1>2 DEF Calls
<1>7. call' = [call EXCEPT ![c] = r] /\ flight' = [flight EXCEPT ![h] = g]
  BY <1>2 DEF Do
<1> HIDE DEF r, f, g
<1>8. /\ \A d \in Callers : call'[d] = IF d = c THEN r ELSE call[d]
      /\ \A k \in Hosts : flight'[k] = IF k = h THEN g ELSE flight[k]
  BY <1>7 DEF Inv, DnsInv
<1>9. g # None
  BY <1>5, FlightsAssumption
<1> SUFFICES ASSUME NEW d \in Callers, call'[d].pc = "wait"
             PROVE  flight'[call'[d].host] # None /\ d \in flight'[call'[d].host].callers
  BY DEF WaitersServed
<1>10. CASE d = c
  BY <1>5, <1>6, <1>8, <1>9, <1>10
<1>11. CASE d # c
  <2>1. call'[d] = call[d] /\ call[d].host \in Hosts
    BY <1>8, <1>11 DEF Inv, DnsInv
  <2>2. flight[call[d].host] # None /\ d \in flight[call[d].host].callers
    BY <2>1 DEF WaitersServed
  <2> QED BY <1>3, <1>5, <1>6, <1>8, <1>9, <2>1, <2>2
<1> QED BY <1>10, <1>11

\* A query that gets on keeps its callers; when it returns nobody waits for it.
LEMMA ServedQuery ==
  ASSUME Inv, WaitersServed, NEW h \in Hosts, Query(h)
  PROVE  WaitersServed'
<1>1. flight[h] # None /\ flight[h] \in Flights
  BY DEF Query, Answer, Store, Return, Inv, DnsInv
<1> SUFFICES ASSUME NEW c \in Callers, call'[c].pc = "wait"
             PROVE  flight'[call'[c].host] # None /\ c \in flight'[call'[c].host].callers
  BY DEF WaitersServed
<1>2. CASE Answer(h) \/ Store(h)
  <2>1. /\ call' = call /\ call[c].host \in Hosts
        /\ flight[call[c].host] # None /\ c \in flight[call[c].host].callers
    BY <1>2 DEF Answer, Store, WaitersServed, Inv, DnsInv
  <2>2. \E g \in Flights : /\ g.callers = flight[h].callers
                           /\ flight' = [flight EXCEPT ![h] = g]
    <3>1. CASE Answer(h)
      <4>1. PICK x \in Results : flight' = [flight EXCEPT ![h].pc = "store", ![h].ips = x]
        BY <3>1 DEF Answer, Results
      <4> DEFINE g == [flight[h] EXCEPT !.pc = "store", !.ips = x]
      <4>2. g \in Flights /\ g.callers = flight[h].callers
        BY <1>1 DEF Flights
      <4> QED BY <4>1, <4>2
    <3>2. CASE Store(h)
      <4> DEFINE g == [flight[h] EXCEPT !.pc = "return"]
      <4>1. g \in Flights /\ g.callers = flight[h].callers
        BY <1>1 DEF Flights
      <4>2. flight' = [flight EXCEPT ![h] = g]
        BY <3>2 DEF Store
      <4> QED BY <4>1, <4>2
    <3> QED BY <1>2, <3>1, <3>2
  <2>3. \A k \in Hosts : flight'[k] = flight[k]
                         \/ (k = h /\ flight'[k] \in Flights
                             /\ flight'[k].callers = flight[k].callers)
    BY <2>2 DEF Inv, DnsInv
  <2> QED BY <2>1, <2>3, FlightsAssumption
<1>3. CASE Return(h)
  <2>1. \A d \in Callers : call'[d] = IF d \in flight[h].callers
                                      THEN Got(call[d], flight[h]) ELSE call[d]
    BY <1>3 DEF Return
  <2>2. call[c] \in Calls
    BY DEF Inv, DnsInv
  <2>3. c \notin flight[h].callers /\ call'[c] = call[c]
    BY <2>1, <2>2, GotHost
  <2>4. /\ call[c].host \in Hosts /\ flight[call[c].host] # None
        /\ c \in flight[call[c].host].callers
    BY <2>3 DEF WaitersServed, Inv, DnsInv
  <2>5. flight'[call[c].host] = flight[call[c].host]
    BY <1>3, <2>3, <2>4 DEF Return, Inv, DnsInv
  <2> QED BY <2>3, <2>4, <2>5
<1> QED BY <1>2, <1>3 DEF Query

\* Time passes for queries and for callers that do not wait for one.
LEMMA ServedTick ==
  ASSUME Inv, WaitersServed, Tick
  PROVE  WaitersServed'
<1> SUFFICES ASSUME NEW c \in Callers, call'[c].pc = "wait"
             PROVE  flight'[call'[c].host] # None /\ c \in flight'[call'[c].host].callers
  BY DEF WaitersServed
<1>1. call'[c] = IF call[c].pc \in {"read", "do"}
                 THEN [call[c] EXCEPT !.wait = Older(@)] ELSE call[c]
  BY DEF Tick
<1>2. call'[c] = call[c]
  BY <1>1 DEF Inv, DnsInv, Calls
<1>3. PICK h \in Hosts : h = call[c].host
  BY <1>2 DEF Inv, DnsInv
<1>4. flight[h] # None /\ c \in flight[h].callers /\ flight[h] \in Flights
  BY <1>2, <1>3 DEF WaitersServed, Inv, DnsInv
<1>5. CASE flight[h].pc = "query"
  BY <1>2, <1>3, <1>4, <1>5 DEF Tick
<1>6. CASE flight[h].pc # "query"
  <2>1. flight[h].age \in Nat /\ flight[h].age < MaxDelay /\ MaxDelay \in Nat
    BY <1>4, <1>6, DnsAssumption DEF Tick, Flights
  <2>2. Older(flight[h].age) \in 0 .. MaxDelay
    BY <2>1 DEF Older
  <2>3. flight'[h] = [flight[h] EXCEPT !.age = Older(@)]
    BY <1>4, <1>6 DEF Tick
  <2>4. flight'[h] \in Flights /\ flight'[h].callers = flight[h].callers
    BY <1>4, <2>2, <2>3 DEF Flights
  <2> QED BY <1>2, <1>3, <1>4, <2>4, FlightsAssumption
<1> QED BY <1>5, <1>6

\* Every step keeps it.
LEMMA ServedNext == Inv /\ WaitersServed /\ [Next]_vars => WaitersServed'
<1> SUFFICES ASSUME Inv, WaitersServed, [Next]_vars PROVE WaitersServed'
  OBVIOUS
<1>1. ASSUME NEW s \in Callers, NEW r \in Requests, Start(s, r) PROVE WaitersServed'
  BY <1>1, ServedStream
<1>2. ASSUME NEW s \in Callers, StreamStep(s) PROVE WaitersServed'
  BY <1>2, ServedStream, ServedDo DEF StreamStep, Lookup
<1>3. ASSUME NEW h \in Hosts, Query(h) PROVE WaitersServed'
  BY <1>3, ServedQuery
<1>4. CASE Environment
  <2>1. CASE UNCHANGED <<call, flight>>
    BY <2>1, ServedKept
  <2> QED BY <1>4, <2>1, ServedTick DEF Environment, ResolverChanges, Expire
<1>5. CASE UNCHANGED vars
  BY <1>5, ServedKept
<1> QED BY <1>1, <1>2, <1>3, <1>4, <1>5 DEF Next

\* Nobody waits for a query that is not there or will not return to it: whoever is in
\* group.Do is among the callers of the query under way (dnscache.go: LookupIPAddr).
THEOREM NobodyWaitsInVain == Safety => []WaitersServed
<1>1. Init => WaitersServed
  BY DEF Init, DnsInit, WaitersServed, Idle
<1> QED BY <1>1, AlwaysInv, ServedNext, PTL DEF Safety
===============================================================================
