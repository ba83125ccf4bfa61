----------------------------- MODULE EgressPolicy -----------------------------
(***************************************************************************)
(* What a stream may reach: EgressPolicy (wisp/egress.go) and the white    *)
(* and black lists (wisp/config.go, handleConnect), as operators.  An      *)
(* address is a record of its family and what net.IP reports of it.        *)
(***************************************************************************)
\* PolicyFromConfig: the lists of addresses stay empty.
PolicyFromConfig(cfg) ==
  [AllowLoopback |-> cfg.AllowLoopbackIPs, AllowPrivate |-> cfg.AllowPrivateIPs,
   AllowIPs |-> {}, DenyIPs |-> {}]

\* Evaluate.  AllowIPs and DenyIPs stand for the single addresses and the CIDRs.
Evaluate(p, ip) ==
  /\ ip \notin p.DenyIPs
  /\ \/ ip \in p.AllowIPs
     \/ /\ ~ip.unspecified
        /\ IF ip.loopback THEN p.AllowLoopback
           ELSE IF ip.linkLocal \/ ip.private THEN p.AllowPrivate
           ELSE ~ip.multicast

\* A white list, if there is one, decides alone.
Listed(white, black, x) == IF white # {} THEN x \in white ELSE x \notin black
===============================================================================
