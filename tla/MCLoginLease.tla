--------------------------- MODULE MCLoginLease ---------------------------
(* Small instances of LoginLease for TLC. *)
EXTENDS LoginLease, TLC

CONSTANTS c1, c2, q1

Symmetry == Permutations(Claimants)

(* Two claims over what an earlier process left, one of them dying; a      *)
(* claim and a poller that never stops; two claims and one poll, as far as *)
(* the sign-ins running.                                                   *)
TwoClaims == {[crew |-> {c1, c2}, earlier |-> TRUE, writes |-> 1,
               crashes |-> 1, ends |-> TRUE, polls |-> "once"]}
Polled    == {[crew |-> {c, q1}, earlier |-> e, writes |-> 1,
               crashes |-> 1, ends |-> TRUE, polls |-> "always"] :
                  c \in Claimants, e \in BOOLEAN}
Crowd     == {[crew |-> Procs, earlier |-> TRUE, writes |-> 0,
               crashes |-> 1, ends |-> FALSE, polls |-> "once"]}
Together  == TwoClaims \cup Polled \cup Crowd
===========================================================================
