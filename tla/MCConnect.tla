------------------------------- MODULE MCConnect -------------------------------
(***************************************************************************)
(* TLC instance of Connect: two streams; the name n, which the client      *)
(* spells a, and the name w, which is in normal form and on the black or   *)
(* the white list; addresses that are allowed, private and multicast.      *)
(* Names are looked up independently of each other, so one is enough.      *)
(***************************************************************************)
EXTENDS Connect

CONSTANTS a, n, w, lo, pub

Addr(v4, private, multicast, loopback) ==
  [v4 |-> v4, private |-> private, multicast |-> multicast, loopback |-> loopback,
   linkLocal |-> FALSE, unspecified |-> FALSE]

Public   == Addr(TRUE, FALSE, FALSE, FALSE)
Private6 == Addr(FALSE, TRUE, FALSE, FALSE)
Group    == Addr(TRUE, FALSE, TRUE, FALSE)
Loopback == Addr(TRUE, FALSE, FALSE, TRUE)

MCAnswers == {<<Private6, Group, Public>>, <<Private6, Group>>}

Basic == [whiteHosts |-> {}, blackHosts |-> {w}, whitePorts |-> {}, blackPorts |-> {25},
          AllowDirectIP |-> FALSE, AllowLoopbackIPs |-> FALSE, AllowPrivateIPs |-> FALSE,
          AllowUDP |-> TRUE, Proxy |-> FALSE]

MCConfigs ==
  {[Basic EXCEPT !.whiteHosts = {n, w}, !.whitePorts = {80}, !.AllowUDP = FALSE],
   [Basic EXCEPT !.AllowDirectIP = TRUE, !.AllowPrivateIPs = TRUE],
   [Basic EXCEPT !.Proxy = TRUE]}

Named(type, host, name, port) ==
  [type |-> type, host |-> host, name |-> name, ip |-> None, port |-> port]

MCRequests ==
  {Named("tcp", a, n, 80), Named("udp", a, n, 80), Named("tcp", w, w, 80), Named("udp", a, n, 25),
   [type |-> "tcp", host |-> lo, name |-> lo, ip |-> Loopback, port |-> 80],
   [type |-> "other", host |-> pub, name |-> pub, ip |-> Public, port |-> 80],
   [type |-> "udp", host |-> pub, name |-> pub, ip |-> Public, port |-> 80]}
===============================================================================
