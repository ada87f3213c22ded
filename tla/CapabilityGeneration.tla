------------------------ MODULE CapabilityGeneration ------------------------
(***************************************************************************)
(* What `caller-key rotate` promises, with nothing of how: the caller      *)
(* capability is a generation that moves to a later one in a single step,  *)
(* the commit, and a rotation that does not commit leaves it as it was,    *)
(* whatever crashes in between (README.md, "Rotation acquires ...").       *)
(***************************************************************************)
EXTENDS Naturals

VARIABLES
    generation,   \* the generation the installation is on
    stage         \* "rest", "rotating" or, once decided, "committed"

vars == <<generation, stage>>

Init == generation = 1 /\ stage = "rest"

Begin == stage = "rest" /\ stage' = "rotating" /\ UNCHANGED generation

(* The only step that moves the generation, and always to a fresh one.     *)
Decide ==
    /\ stage = "rotating" /\ stage' = "committed"
    /\ generation' \in Nat /\ generation' > generation

(* The bookkeeping of either outcome ends: rolled back, or cleaned up.     *)
Settle ==
    /\ stage \in {"rotating", "committed"} /\ stage' = "rest"
    /\ UNCHANGED generation

Next == Begin \/ Decide \/ Settle

Spec == Init /\ [][Next]_vars
=============================================================================
