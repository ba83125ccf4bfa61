-------------------------------- MODULE Connect --------------------------------
(***************************************************************************)
(* How a stream gets its destination: handleConnect (wisp/wisp-stream.go)  *)
(* from the lists to the dial, on top of the DNS cache.  The caps between  *)
(* the look-up and the dial are in FloodGuard and Admission, what becomes  *)
(* of the socket in StreamIngress.                                         *)
(***************************************************************************)
EXTENDS DnsCache, EgressPolicy

CONSTANTS Configs,   \* configurations to consider
          Requests   \* what a CONNECT may ask for: [type, host, name, ip, port]:
                     \* the name as spelt and in normal form, its address if it
                     \* is one (None otherwise), and the port

\* Hosts has every name that is looked up: those that pass the lists of hosts and are
\* not dialled as they are.
ASSUME RequestsAssumption ==
  \A r \in Requests, c \in Configs :
    r.ip = None /\ Listed(c.whiteHosts, c.blackHosts, r.name) /\ r.host \notin c.whiteHosts
      => r.host \in Hosts

VARIABLES cfg,       \* wispConn.config, which never changes
          stream     \* each handleConnect: where it is, the request, the
                     \* destination found and whether a proxy is used

vars == <<dnsVars, cfg, stream>>

Closed == [pc |-> "closed", req |-> None, dest |-> None, via |-> None]

Init ==
  /\ DnsInit /\ cfg \in Configs
  /\ stream = [s \in Callers |-> Closed]

\* NormalizeTargetHostname is the request's .name: lists are looked up with it.
ListsPass(r) ==
  /\ Listed(cfg.whiteHosts, cfg.blackHosts, r.name)
  /\ Listed(cfg.whitePorts, cfg.blackPorts, r.port)

LiteralPasses(ip) == cfg.AllowDirectIP /\ Evaluate(PolicyFromConfig(cfg), ip)

\* A white-listed name is dialled as it is, if it was spelt as it is listed.
SkipsLookup(r) == r.host \in cfg.whiteHosts

\* Where handleConnect gets without a look-up, which touches nothing shared.
First(r) ==
  LET to(pc, dest) == [pc |-> pc, req |-> r, dest |-> dest, via |-> None] IN
  CASE ~ListsPass(r) \/ (r.ip # None /\ ~LiteralPasses(r.ip)) -> Closed
    [] ListsPass(r) /\ r.ip # None /\ LiteralPasses(r.ip) -> to("dial", r.ip)
    [] ListsPass(r) /\ r.ip = None /\ SkipsLookup(r) -> to("dial", r.host)
    [] OTHER -> to("lookup", None)

\* A stream, with locals of its own, takes the place of one that is done with.
Start(s, r) ==
  /\ stream[s].pc \in {"dialled", "closed"}
  /\ stream' = [stream EXCEPT ![s] = First(r)]
  /\ call' = [call EXCEPT ![s] = Idle]
  /\ UNCHANGED <<up, cache, flight, cfg>>

AsksCache(s) ==
  /\ stream[s].pc = "lookup"
  /\ Begin(s, stream[s].req.host)
  /\ UNCHANGED <<cfg, stream>>

Allowed(ips) == {i \in DOMAIN ips : Evaluate(PolicyFromConfig(cfg), ips[i])}

\* The first address the policy allows.
Pick(ips) ==
  LET first == {i \in Allowed(ips) : \A j \in Allowed(ips) : i <= j} IN
  IF first = {} THEN None ELSE ips[CHOOSE i \in first : TRUE]

\* close(), and handleConnect returns.
Close(s) ==
  stream' = [stream EXCEPT ![s] = Closed] /\ call' = [call EXCEPT ![s] = Idle]

\* Mutant of Resolved: an error of the look-up is logged and the stream left as it is.
ResolvedIgnoresErr(s) ==
  LET dest == IF call[s].ips = Err THEN None ELSE Pick(call[s].ips) IN
  /\ stream[s].pc = "lookup" /\ call[s].pc = "got" /\ dest # None
  /\ stream' = [stream EXCEPT ![s].pc = "dial", ![s].dest = dest]
  /\ UNCHANGED <<up, cache, flight, call, cfg>>

\* The look-up has returned: unreachable, blocked, or an address to dial.
Resolved(s) ==
  LET dest == IF call[s].ips = Err THEN None ELSE Pick(call[s].ips) IN
  /\ stream[s].pc = "lookup" /\ call[s].pc = "got"
  /\ \/ dest = None /\ Close(s)
     \/ /\ dest # None
        /\ stream' = [stream EXCEPT ![s].pc = "dial", ![s].dest = dest]
        /\ UNCHANGED call
  /\ UNCHANGED <<up, cache, flight, cfg>>

\* The dial by type: TCP by the proxy, which is given the name, or directly.
Via(r) ==
  CASE r.type = "tcp" -> IF cfg.Proxy THEN "proxy" ELSE "direct"
    [] r.type = "udp" -> IF cfg.Proxy \/ ~cfg.AllowUDP THEN "none" ELSE "direct"
    [] OTHER -> "none"

Dial(s) ==
  LET r == stream[s].req  via == Via(r) IN
  /\ stream[s].pc = "dial"
  /\ \/ via = "none" /\ Close(s)
     \/ /\ via # "none"
        /\ stream' = [stream EXCEPT ![s].pc = "dialled", ![s].via = via,
                                    ![s].dest = IF via = "proxy" THEN r.name ELSE @]
        /\ UNCHANGED call
  /\ UNCHANGED <<up, cache, flight, cfg>>

StreamStep(s) ==
  \/ AsksCache(s) \/ Resolved(s) \/ Dial(s)
  \/ Lookup(s) /\ UNCHANGED <<cfg, stream>>

Environment == ResolverChanges \/ Tick \/ \E h \in Hosts : Expire(h)

Next ==
  \/ \E s \in Callers : StreamStep(s) \/ \E r \in Requests : Start(s, r)
  \/ ((\E h \in Hosts : Query(h)) \/ Environment) /\ UNCHANGED <<cfg, stream>>

\* Goroutines that can run do, the resolver answers or gives up in the end (it has
\* time-outs of its own), and time passes.
Fairness ==
  /\ \A s \in Callers : WF_vars(StreamStep(s))
  /\ \A h \in Hosts : WF_vars(Query(h) /\ UNCHANGED <<cfg, stream>>)
  /\ WF_vars(Tick /\ UNCHANGED <<cfg, stream>>)

Spec == Init /\ [][Next]_vars /\ Fairness

-------------------------------------------------------------------------------
(* Properties *)

\* Every address that is dialled directly was checked: it is the address the
\* client gave, if that is allowed, or one of those the resolver gave for that very
\* name less than TTL before the look-up began, whatever it has answered since, and
\* the policy allows it.  Only a name spelt as in the white list goes unresolved.
DialledChecked ==
  \A s \in Callers : LET r == stream[s].req  d == stream[s].dest IN
    stream[s].pc = "dialled" /\ stream[s].via = "direct" =>
      \/ d = r.host /\ r.ip = None /\ r.host \in cfg.whiteHosts
      \/ /\ Evaluate(PolicyFromConfig(cfg), d)
         /\ \/ d = r.ip /\ cfg.AllowDirectIP
            \/ /\ call[s].host = r.host /\ call[s].age < TTL
               /\ \E i \in DOMAIN call[s].ips : call[s].ips[i] = d

\* Every stream that asks the cache gets to a dial or is closed, also if it waits
\* for the query another stream has started (dnscache.go: group.Do).
Decided ==
  \A s \in Callers : stream[s].pc = "lookup" ~> stream[s].pc \in {"dialled", "closed"}

\* An outage of the resolver is remembered for TTL and no longer: once it answers
\* for good, no host goes on failing, however often it is asked for meanwhile.
Recovers ==
  <>[]up => \A h \in Hosts :
    <>[](cache[h] # None /\ Valid(cache[h], 0) => cache[h].ips # Err)
===============================================================================
