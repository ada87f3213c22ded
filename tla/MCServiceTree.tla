---------------------------- MODULE MCServiceTree ----------------------------
EXTENDS ServiceTree

(* Two forwarders stand for the three to five.  Every installation, with   *)
(* two children to lose, one that never comes up, a session that changes   *)
(* and credential operations that fail; which child is deaf is open.       *)
Installed ==
    {[edge |-> i # "plain", tunnel |-> i = "tunnel", pending |-> p,
      missing |-> i = "plain", signal |-> TRUE,
      deaf |-> d, deaths |-> 2, stalls |-> 1, sessions |-> 1,
      lockouts |-> 2] :
        i \in {"plain", "edge", "tunnel"}, p \in BOOLEAN,
        d \in {{}, {"gateway"}, {"router", "edge"}}}
=============================================================================
