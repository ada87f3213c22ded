----------------------- MODULE MCProviderKeyPool -----------------------
EXTENDS ProviderKeyPool, TLC
CONSTANTS k1, k2, r1, r2, r3, r4, r5, s1, s2, s3

TwoKeys     == <<k1, k2>>
OwnSessions == (r1 :> s1) @@ (r2 :> s2)
ThreeThreads == (r1 :> s1) @@ (r4 :> s1) @@ (r5 :> s1) @@ (r2 :> s2) @@ (r3 :> s3)

(* A request and its thread are exchanged together. *)
Symmetry == {(r1 :> r2) @@ (r2 :> r1) @@ (s1 :> s2) @@ (s2 :> s1)}

(* Three requests of one thread. Threads are not exchanged here: which of *)
(* two equally old bindings makes room is a CHOOSE.                      *)
SameThread == Permutations({r1, r4, r5})

Response(k, r) == [kind |-> k, rem |-> r]
HealthResponses  == {Response("ok", 1), Response("limited", 0),
                     Response("edge", NoneSeen), Response("lost", NoneSeen)}
BindingResponses == {Response("ok", NoneSeen)}
========================================================================
