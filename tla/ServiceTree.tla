----------------------------- MODULE ServiceTree -----------------------------
(***************************************************************************)
(* The life of one service process: start.mjs brings its children up in    *)
(* order, activates a pending Antigravity proof once the whole stack has   *)
(* answered, supervises the gateway and takes the tree down when a signal  *)
(* comes or a child of its own ends (src/start.mjs,                        *)
(* src/gateway-supervisor.mjs, src/health-probe.mjs,                       *)
(* src/antigravity-probe-activation.mjs).                                  *)
(*                                                                         *)
(* Everything here runs on one thread.  What interleaves are the awaits of *)
(* main, those of the supervisor, the signal handler, the kill timer and   *)
(* the children, which live and end in their own time.                     *)
(***************************************************************************)
EXTENDS Naturals, FiniteSets

CONSTANTS
    Forwarders,          \* the children started together, first of all
    MaxRestarts,         \* CODEX_ROUTER_GATEWAY_RESTARTS
    Settings             \* installations, and the faults of the instances

(* edge, tunnel: Cursor's edge and its tunnel are installed; pending: a    *)
(* proof waits to be activated; deaf: the children that do not answer a    *)
(* SIGTERM; missing: the gateway's program may be gone when it is to be    *)
(* restarted; signal: the service may be told to stop.  The rest are       *)
(* bounds: children that die, children that never come up, changes of the  *)
(* session behind the proof, credential operations that fail.              *)
Setting == [edge : BOOLEAN, tunnel : BOOLEAN, pending : BOOLEAN,
            missing : BOOLEAN, signal : BOOLEAN,
            deaf : SUBSET (Forwarders \cup
                           {"gateway", "router", "edge", "tunnel"}),
            deaths : Nat, stalls : Nat, sessions : Nat, lockouts : Nat]

ASSUME TreeAssumption ==
    /\ Forwarders # {}
    /\ Forwarders \cap {"gateway", "router", "edge", "tunnel"} = {}
    /\ MaxRestarts \in Nat
    /\ Settings # {} /\ Settings \subseteq Setting

VARIABLES
    pc,          \* what main waits for
    child,       \* each child's process
    passed,      \* children whose health wait has returned
    answered,    \* children with an answer on its way to the wait
    sup,         \* what superviseGateway waits for
    failures,    \* its failures inside the window
    stopping,    \* shuttingDown
    term,        \* children sent a SIGTERM they have not ended on
    timer,       \* the SIGKILL timer of stopChildren
    awaited,     \* the children the finally block still waits for
    proof,       \* the stored proof of the generation found at startup
    bounds       \* the setting, and what is left of its bounds

main  == <<pc, passed, awaited>>
procs == <<child, answered, term>>
vars  == <<main, procs, sup, failures, stopping, timer, proof, bounds>>

Children == Forwarders \cup {"gateway", "router", "edge", "tunnel"}

Promotion == {"promoting", "promoted", "rollback", "retry"}

TypeOK ==
    /\ pc \in {"forwarders", "gateway", "router", "edge", "ready", "finally",
               "ended", "aborted"} \cup Promotion
    /\ child \in [Children -> {"none", "up", "stuck", "healthy", "dead"}]
    /\ passed \subseteq Children /\ answered \subseteq Children
    /\ sup \in {"off", "watch", "backoff", "health", "returned"}
    /\ failures \in 0..(MaxRestarts + 1)
    /\ stopping \in BOOLEAN
    /\ term \subseteq Children /\ awaited \subseteq Children
    /\ timer \in {"off", "armed", "fired"}
    /\ proof \in {"none", "pending", "active", "replaced"}
    /\ bounds \in Setting

Running == {c \in Children : child[c] \in {"up", "stuck", "healthy"}}
Exited  == {c \in Children : child[c] = "dead"}

(* The forwarders are spawned in the turn that installs the handlers. *)
Init ==
    /\ bounds \in Settings
    /\ pc = "forwarders" /\ passed = {} /\ awaited = {}
    /\ child = [c \in Children |-> IF c \in Forwarders THEN "up" ELSE "none"]
    /\ answered = {} /\ term = {}
    /\ sup = "off" /\ failures = 0
    /\ stopping = FALSE /\ timer = "off"
    /\ proof = IF bounds.pending THEN "pending" ELSE "none"

Spend(b) == bounds[b] > 0 /\ bounds' = [bounds EXCEPT ![b] = @ - 1]

(***************************************************************************)
(* The children, the signal and the timer                                  *)
(***************************************************************************)

End(S) ==
    /\ child' = [c \in Children |-> IF c \in S THEN "dead" ELSE child[c]]
    /\ term' = term \ S /\ awaited' = awaited \ S

ComesUp(c) ==
    /\ child[c] = "up" /\ c \notin term
    /\ child' = [child EXCEPT ![c] = "healthy"]
    /\ UNCHANGED <<main, answered, term, sup, failures, stopping, timer, proof,
                   bounds>>

Stalls(c) ==
    /\ child[c] = "up" /\ Spend("stalls")
    /\ child' = [child EXCEPT ![c] = "stuck"]
    /\ UNCHANGED <<main, answered, term, sup, failures, stopping, timer, proof>>

Dies(c) ==
    /\ c \in Running /\ Spend("deaths")
    /\ End({c})
    /\ UNCHANGED <<pc, passed, answered, sup, failures, stopping, timer, proof>>

Obeys(c) ==
    /\ c \in term \ bounds.deaf
    /\ End({c})
    /\ UNCHANGED <<pc, passed, answered, sup, failures, stopping, timer, proof,
                   bounds>>

StopChildren ==
    /\ stopping' = TRUE
    /\ IF stopping
         THEN UNCHANGED <<term, timer>>
         ELSE /\ term' = term \cup Running
              /\ timer' = "armed"

(* SIGINT and SIGTERM.  main goes on with whatever it waits for. *)
Signal ==
    /\ bounds.signal /\ ~stopping /\ pc \notin {"ended", "aborted"}
    /\ StopChildren
    /\ UNCHANGED <<main, child, answered, sup, failures, proof, bounds>>

(* One shot, over the children that exist when it fires.  Five seconds are *)
(* taken to be enough for an answer under way to be read.                  *)
TimerFires ==
    /\ timer = "armed" /\ pc \notin {"ended", "aborted"} /\ answered = {}
    /\ timer' = "fired"
    /\ End(Running)
    /\ UNCHANGED <<pc, passed, answered, sup, failures, stopping, proof,
                   bounds>>

(***************************************************************************)
(* waitForHealth                                                           *)
(***************************************************************************)

Waiting(c) ==
    \/ pc = "forwarders" /\ c \in Forwarders \ passed
    \/ pc \in {"gateway", "router", "edge"} /\ c = pc
    \/ sup = "health" /\ c = "gateway"

(* A probe sent before the shutdown began gets its answer... *)
Answers(c) ==
    /\ Waiting(c) /\ c \notin answered /\ child[c] = "healthy" /\ ~stopping
    /\ answered' = answered \cup {c}
    /\ UNCHANGED <<main, child, term, sup, failures, stopping, timer, proof,
                   bounds>>

(* ...and the wait returns on it, whatever has happened since. *)
Healthy(c) == Waiting(c) /\ c \in answered /\ answered' = answered \ {c}

(* assertStillStarting, or the deadline. *)
Unhealthy(c) ==
    /\ Waiting(c) /\ c \notin answered
    /\ child[c] \in {"dead", "stuck"} \/ stopping

(***************************************************************************)
(* main                                                                    *)
(***************************************************************************)

Spawn(S) == child' = [c \in Children |-> IF c \in S THEN "up" ELSE child[c]]

(* The finally block: an exit, a failed wait or a returned supervisor. *)
Leave ==
    /\ pc' = "finally"
    /\ StopChildren
    /\ awaited' = Running

(* What is left of main once the stack has answered: the edge if Cursor is *)
(* installed, its tunnel once the edge answers, then the race.             *)
ToEdge ==
    IF bounds.edge THEN pc' = "edge" /\ Spawn({"edge"}) /\ UNCHANGED sup
                   ELSE pc' = "ready" /\ sup' = "watch" /\ UNCHANGED child

ToRace ==
    /\ pc' = "ready" /\ sup' = "watch"
    /\ Spawn(IF bounds.tunnel THEN {"tunnel"} ELSE {})

ForwarderHealthy(f) ==
    /\ f \in Forwarders /\ Healthy(f)
    /\ passed' = passed \cup {f}
    /\ IF Forwarders \subseteq passed'
         THEN pc' = "gateway" /\ Spawn({"gateway"})
         ELSE UNCHANGED <<pc, child>>
    /\ UNCHANGED <<awaited, term, sup, failures, stopping, timer, proof,
                   bounds>>

GatewayHealthy ==
    /\ pc = "gateway" /\ Healthy("gateway")
    /\ pc' = "router" /\ Spawn({"router"})
    /\ UNCHANGED <<passed, awaited, term, sup, failures, stopping, timer, proof,
                   bounds>>

(* promoteAntigravityProbeAfterReadiness begins with the same turn. *)
RouterHealthy ==
    /\ pc = "router" /\ Healthy("router")
    /\ IF bounds.pending /\ Exited = {}
         THEN pc' = "promoting" /\ UNCHANGED <<child, sup>>
         ELSE ToEdge
    /\ UNCHANGED <<passed, awaited, term, failures, stopping, timer, proof,
                   bounds>>

EdgeHealthy ==
    /\ pc = "edge" /\ Healthy("edge")
    /\ ToRace
    /\ UNCHANGED <<passed, awaited, term, failures, stopping, timer, proof,
                   bounds>>

StartFails ==
    /\ pc \in {"forwarders", "gateway", "router", "edge"}
    /\ \E c \in Children : Unhealthy(c)
    /\ Leave
    /\ UNCHANGED <<passed, child, answered, sup, failures, proof, bounds>>

(* Mutant: the forwarders are left out of the race.                        *)
RaceWithoutForwarders ==
    /\ pc = "ready"
    /\ Exited \ ({"gateway"} \cup Forwarders) # {} \/ sup = "returned"
    /\ Leave
    /\ UNCHANGED <<passed, child, answered, sup, failures, proof, bounds>>

(* The race of exits: every child but the gateway, and the supervisor. *)
Race ==
    /\ pc = "ready"
    /\ Exited \ {"gateway"} # {} \/ sup = "returned"
    /\ Leave
    /\ UNCHANGED <<passed, child, answered, sup, failures, proof, bounds>>

Finish ==
    /\ pc = "finally" /\ awaited = {}
    /\ pc' = "ended"
    /\ UNCHANGED <<passed, awaited, procs, sup, failures, stopping, timer,
                   proof, bounds>>

(***************************************************************************)
(* The promotion of the proof                                              *)
(***************************************************************************)

(* promoteAntigravityProbeActivation, under the credential lock.  A proof  *)
(* that is no longer the one found at startup, or a lock that stays held,  *)
(* leaves it as it is and startup goes on; any other error fails startup.  *)
Promote ==
    /\ pc = "promoting"
    /\ \/ /\ proof = "pending"
          /\ proof' = "active" /\ pc' = "promoted"
          /\ UNCHANGED <<child, sup, awaited, term, stopping, timer, bounds>>
       \/ /\ \/ proof # "pending" /\ UNCHANGED bounds
             \/ Spend("lockouts")
          /\ ToEdge /\ UNCHANGED <<proof, awaited, term, stopping, timer>>
       \/ Spend("lockouts") /\ Leave /\ UNCHANGED <<child, sup, proof>>
    /\ UNCHANGED <<passed, answered, failures>>

(* Mutant: the children are not looked at again.                           *)
PromotedUnchecked ==
    /\ pc = "promoted"
    /\ ToEdge
    /\ UNCHANGED <<passed, awaited, answered, term, failures, stopping, timer,
                   proof, bounds>>

(* The lock was waited for: a child may have ended meanwhile. *)
Promoted ==
    /\ pc = "promoted"
    /\ IF Exited = {} THEN ToEdge
                      ELSE pc' = "rollback" /\ UNCHANGED <<child, sup>>
    /\ UNCHANGED <<passed, awaited, answered, term, failures, stopping, timer,
                   proof, bounds>>

(* deactivateAntigravityProbeActivation, tried twice.  A proof that has    *)
(* been replaced is as good as withdrawn.                                  *)
Rollback ==
    /\ pc \in {"rollback", "retry"}
    /\ proof' = IF proof = "active" THEN "pending" ELSE proof
    /\ ToEdge
    /\ UNCHANGED <<passed, awaited, answered, term, failures, stopping, timer,
                   bounds>>

RollbackFails ==
    /\ pc \in {"rollback", "retry"} /\ Spend("lockouts")
    /\ IF pc = "rollback"
         THEN pc' = "retry" /\ UNCHANGED <<awaited, stopping, term, timer>>
         ELSE Leave
    /\ UNCHANGED <<passed, child, answered, sup, failures, proof>>

(* A new sign-in, probe or disconnect, by another process. *)
SessionChanges ==
    /\ proof \in {"pending", "active"} /\ Spend("sessions")
    /\ proof' = "replaced"
    /\ UNCHANGED <<main, procs, sup, failures, stopping, timer>>

(***************************************************************************)
(* superviseGateway                                                        *)
(***************************************************************************)

(* Mutant: the bound on restarts is not applied.                           *)
GatewayExitsUnbounded ==
    /\ sup = "watch" /\ child["gateway"] = "dead"
    /\ IF stopping
         THEN sup' = "returned" /\ UNCHANGED failures
         ELSE \E n \in 1..(failures + 1) : failures' = n /\ sup' = "backoff"
    /\ UNCHANGED <<main, procs, stopping, timer, proof, bounds>>

(* Failures older than the window are forgotten first: how many of them    *)
(* are is left open.                                                       *)
GatewayExits ==
    /\ sup = "watch" /\ child["gateway"] = "dead"
    /\ IF stopping
         THEN sup' = "returned" /\ UNCHANGED failures
         ELSE \E n \in 1..(failures + 1) :
                 /\ failures' = n
                 /\ sup' = IF n > MaxRestarts THEN "returned" ELSE "backoff"
    /\ UNCHANGED <<main, procs, stopping, timer, proof, bounds>>

(* Mutant: the shutdown is not looked for after the backoff.               *)
RestartHeedless ==
    /\ sup = "backoff"
    /\ sup' = "health" /\ Spawn({"gateway"})
    /\ UNCHANGED <<main, answered, term, failures, stopping, timer, proof,
                   bounds>>

Restart ==
    /\ sup = "backoff"
    /\ IF stopping THEN sup' = "returned" /\ UNCHANGED child
                   ELSE sup' = "health" /\ Spawn({"gateway"})
    /\ UNCHANGED <<main, answered, term, failures, stopping, timer, proof,
                   bounds>>

(* A program that is not there is an `error` event nobody listens for: it  *)
(* ends start.mjs where it stands, its children left to themselves.        *)
Abort ==
    /\ sup = "backoff" /\ ~stopping /\ bounds.missing
    /\ pc' = "aborted" /\ sup' = "returned"
    /\ UNCHANGED <<passed, awaited, procs, failures, stopping, timer, proof,
                   bounds>>

Restarted ==
    /\ sup = "health" /\ Healthy("gateway")
    /\ sup' = "watch"
    /\ UNCHANGED <<main, child, term, failures, stopping, timer, proof, bounds>>

(* Mutant: a gateway that did not come back is left running.               *)
NotRestartedLeft ==
    /\ sup = "health" /\ Unhealthy("gateway")
    /\ sup' = "watch"
    /\ UNCHANGED <<main, procs, failures, stopping, timer, proof, bounds>>

(* One that did not come back is told to end, with a SIGTERM and no more.  *)
NotRestarted ==
    /\ sup = "health" /\ Unhealthy("gateway")
    /\ sup' = "watch"
    /\ term' = term \cup ({"gateway"} \cap Running)
    /\ UNCHANGED <<main, child, answered, failures, stopping, timer, proof,
                   bounds>>

(***************************************************************************)
(* The specification                                                       *)
(***************************************************************************)

(* A child spawned by main after the kill timer fired: a shutdown that     *)
(* began during a long wait is not looked for before the next spawn.       *)
Stray == timer = "fired" /\ Running # {}

Main ==
    \/ GatewayHealthy \/ RouterHealthy \/ EdgeHealthy
    \/ \E f \in Forwarders : ForwarderHealthy(f)
    \/ StartFails \/ Race \/ Finish
    \/ Promote \/ Promoted \/ Rollback \/ RollbackFails

Supervisor ==
    \/ GatewayExits \/ Restart \/ Abort \/ Restarted \/ NotRestarted

Process(c) == ComesUp(c) \/ Obeys(c) \/ Answers(c)

(* The process is gone once main and the supervisor have returned... *)
Gone == pc \in {"ended", "aborted"} /\ sup \in {"off", "returned"}

(* ...or waits for ever for a child nobody signals. *)
Over ==
    /\ \/ Gone
       \/ pc = "finally" /\ Stray
    /\ UNCHANGED vars

Next ==
    \/ Main \/ Supervisor
    \/ Signal \/ TimerFires \/ SessionChanges
    \/ \E c \in Children : Process(c) \/ Dies(c) \/ Stalls(c)
    \/ Over

Spec == Init /\ [][Next]_vars

(* Waits return, timers fire, children come up and answer, and a child     *)
(* that minds a SIGTERM ends.  That a child dies or stalls and that a      *)
(* signal comes is not assumed.                                            *)
Fairness ==
    /\ WF_vars(Main) /\ WF_vars(Supervisor) /\ WF_vars(TimerFires)
    /\ \A c \in Children :
          WF_vars(ComesUp(c)) /\ WF_vars(Obeys(c)) /\ WF_vars(Answers(c))

FairSpec == Spec /\ Fairness

(***************************************************************************)
(* Properties                                                              *)
(***************************************************************************)

(* A gateway that neither answers nor ends on its SIGTERM. *)
Parked == sup = "watch" /\ "gateway" \in term \cap bounds.deaf

(* When the finally block of start.mjs is done, so that the Windows record *)
(* of the tree is cleared and the ports may be taken again, no child runs  *)
(* or will: the supervisor's backoff may outlast main, and a child spawned *)
(* by it then would be nobody's.                                           *)
NoneOutlives == pc = "ended" => Running = {}

(* start.mjs goes on to serve with an active proof only if every child     *)
(* that answered for it was alive when that was decided: a child that ends *)
(* while the promotion waits for the credential lock takes the proof with  *)
(* it, or the whole service when the rollback cannot be confirmed.         *)
ActivationVouched ==
    [][(pc \in Promotion /\ pc' \in {"edge", "ready"} /\ proof' = "active")
          => (Exited = {})]_vars

(* A tree told to stop, or that has lost a child of its own, ends: no      *)
(* child that is slow to drain or deaf to SIGTERM keeps the old router on  *)
(* its port.  A stray child and an aborted start.mjs are the exceptions.   *)
TreeEnds ==
    (stopping \/ (pc = "ready" /\ Exited \ {"gateway"} # {}))
      ~> (Gone \/ Stray)

(* A gateway that dies under a running service comes back without it, or   *)
(* the service leaves for its supervisor to rebuild: a failed restart is   *)
(* neither forgotten nor waited for for ever, but for a parked one.        *)
GatewayReturns ==
    (pc = "ready" /\ child["gateway"] = "dead")
      ~> (child["gateway"] = "healthy" \/ pc # "ready" \/ Parked)

=============================================================================
