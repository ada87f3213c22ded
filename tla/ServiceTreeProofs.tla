-------------------------- MODULE ServiceTreeProofs --------------------------
(***************************************************************************)
(* Type correctness of one service process, and the two properties of      *)
(* ServiceTree that say what its end and its promotion of a proof may rely *)
(* on, for any forwarders, restart bound and installations.                *)
(***************************************************************************)
EXTENDS ServiceTree, TLAPS

(* The supervisor starts with the race, and has returned once its failures *)
(* exceed the bound: so they exceed it by one at most.                     *)
Supervised ==
    /\ pc \in {"forwarders", "gateway", "router", "edge"} \cup Promotion
         => sup = "off"
    /\ sup # "returned" => failures <= MaxRestarts

LEMMA SupervisedStep == TypeOK /\ Supervised /\ [Next]_vars => Supervised'
<1> SUFFICES ASSUME TypeOK, Supervised, [Next]_vars PROVE Supervised'
  OBVIOUS
<1> USE TreeAssumption DEF TypeOK, Supervised, Promotion, Spend, End,
        StopChildren, Spawn, Leave, ToEdge, ToRace, Waiting, Healthy, main,
        procs
<1>1. CASE GatewayHealthy
  BY <1>1 DEF GatewayHealthy
<1>2. CASE RouterHealthy
  BY <1>2 DEF RouterHealthy
<1>3. CASE EdgeHealthy
  BY <1>3 DEF EdgeHealthy
<1>4. ASSUME NEW f \in Forwarders, ForwarderHealthy(f) PROVE Supervised'
  BY <1>4 DEF ForwarderHealthy
<1>5. CASE StartFails
  BY <1>5 DEF StartFails
<1>6. CASE Race
  BY <1>6 DEF Race
<1>7. CASE Finish
  BY <1>7 DEF Finish
<1>8. CASE Promote
  BY <1>8 DEF Promote
<1>9. CASE Promoted
  BY <1>9 DEF Promoted
<1>10. CASE Rollback
  BY <1>10 DEF Rollback
<1>11. CASE RollbackFails
  BY <1>11 DEF RollbackFails
<1>12. CASE GatewayExits
  BY <1>12 DEF GatewayExits
<1>13. CASE Restart
  BY <1>13 DEF Restart
<1>14. CASE Abort
  BY <1>14 DEF Abort
<1>15. CASE Restarted
  BY <1>15 DEF Restarted
<1>16. CASE NotRestarted
  BY <1>16 DEF NotRestarted
<1>17. CASE Signal
  BY <1>17 DEF Signal
<1>18. CASE TimerFires
  BY <1>18 DEF TimerFires
<1>19. CASE SessionChanges
  BY <1>19 DEF SessionChanges
<1>20. ASSUME NEW c \in Children, ComesUp(c) PROVE Supervised'
  BY <1>20 DEF ComesUp
<1>21. ASSUME NEW c \in Children, Obeys(c) PROVE Supervised'
  BY <1>21 DEF Obeys
<1>22. ASSUME NEW c \in Children, Answers(c) PROVE Supervised'
  BY <1>22 DEF Answers
<1>23. ASSUME NEW c \in Children, Dies(c) PROVE Supervised'
  BY <1>23 DEF Dies
<1>24. ASSUME NEW c \in Children, Stalls(c) PROVE Supervised'
  BY <1>24 DEF Stalls
<1>25. CASE Over
  BY <1>25 DEF Over, vars
<1>26. CASE UNCHANGED vars
  BY <1>26 DEF vars, main, procs
<1> QED
  BY <1>1, <1>2, <1>3, <1>4, <1>5, <1>6, <1>7, <1>8, <1>9, <1>10, <1>11,
     <1>12, <1>13, <1>14, <1>15, <1>16, <1>17, <1>18, <1>19, <1>20,
     <1>21, <1>22, <1>23, <1>24, <1>25, <1>26
     DEF Next, Main, Supervisor, Process

(* Every step keeps the variables in their types.                          *)
LEMMA TypeStep == TypeOK /\ Supervised /\ [Next]_vars => TypeOK'
<1> SUFFICES ASSUME TypeOK, Supervised, [Next]_vars PROVE TypeOK'
  OBVIOUS
<1> USE TreeAssumption DEF TypeOK, Children, Promotion, Setting, Spend, End,
        StopChildren, Spawn, Leave, ToEdge, ToRace, Running, Exited, Waiting,
        Healthy, Unhealthy, main, procs
<1>1. CASE GatewayHealthy
  BY <1>1 DEF GatewayHealthy
<1>2. CASE RouterHealthy
  BY <1>2 DEF RouterHealthy
<1>3. CASE EdgeHealthy
  BY <1>3 DEF EdgeHealthy
<1>4. ASSUME NEW f \in Forwarders, ForwarderHealthy(f) PROVE TypeOK'
  BY <1>4 DEF ForwarderHealthy
<1>5. CASE StartFails
  BY <1>5 DEF StartFails
<1>6. CASE Race
  BY <1>6 DEF Race
<1>7. CASE Finish
  BY <1>7 DEF Finish
<1>8. CASE Promote
  <2>1. bounds' \in Setting
    BY <1>8 DEF Promote
  <2>2. CASE Leave
    BY <1>8, <2>1, <2>2 DEF Promote
  <2>3. CASE ~Leave
    BY <1>8, <2>1, <2>3 DEF Promote
  <2> QED
    BY <2>2, <2>3
<1>9. CASE Promoted
  BY <1>9 DEF Promoted
<1>10. CASE Rollback
  BY <1>10 DEF Rollback
<1>11. CASE RollbackFails
  <2>1. bounds' \in Setting
    BY <1>11 DEF RollbackFails
  <2>2. CASE pc = "rollback"
    BY <1>11, <2>1, <2>2 DEF RollbackFails
  <2>3. CASE pc # "rollback"
    BY <1>11, <2>1, <2>3 DEF RollbackFails
  <2> QED
    BY <2>2, <2>3
<1>12. CASE GatewayExits
  <2>1. failures \in 0..MaxRestarts
    BY <1>12 DEF GatewayExits, Supervised
  <2>2. failures' \in 0..(MaxRestarts + 1) /\ sup' \in {"backoff", "returned"}
    BY <1>12, <2>1 DEF GatewayExits
  <2> QED
    BY <1>12, <2>2 DEF GatewayExits
<1>13. CASE Restart
  BY <1>13 DEF Restart
<1>14. CASE Abort
  BY <1>14 DEF Abort
<1>15. CASE Restarted
  BY <1>15 DEF Restarted
<1>16. CASE NotRestarted
  BY <1>16 DEF NotRestarted
<1>17. CASE Signal
  BY <1>17 DEF Signal
<1>18. CASE TimerFires
  BY <1>18 DEF TimerFires
<1>19. CASE SessionChanges
  BY <1>19 DEF SessionChanges
<1>20. ASSUME NEW c \in Children, ComesUp(c) PROVE TypeOK'
  BY <1>20 DEF ComesUp
<1>21. ASSUME NEW c \in Children, Obeys(c) PROVE TypeOK'
  BY <1>21 DEF Obeys
<1>22. ASSUME NEW c \in Children, Answers(c) PROVE TypeOK'
  BY <1>22 DEF Answers
<1>23. ASSUME NEW c \in Children, Dies(c) PROVE TypeOK'
  BY <1>23 DEF Dies
<1>24. ASSUME NEW c \in Children, Stalls(c) PROVE TypeOK'
  BY <1>24 DEF Stalls
<1>25. CASE Over
  BY <1>25 DEF Over, vars
<1>26. CASE UNCHANGED vars
  BY <1>26 DEF vars, main, procs
<1> QED
  BY <1>1, <1>2, <1>3, <1>4, <1>5, <1>6, <1>7, <1>8, <1>9, <1>10, <1>11,
     <1>12, <1>13, <1>14, <1>15, <1>16, <1>17, <1>18, <1>19, <1>20,
     <1>21, <1>22, <1>23, <1>24, <1>25, <1>26
     DEF Next, Main, Supervisor, Process

(* THEOREM: every reachable state of a service process is well typed.      *)
THEOREM TypeCorrect == Spec => []TypeOK
<1>1. Init => TypeOK /\ Supervised
  <2> SUFFICES ASSUME Init PROVE TypeOK /\ Supervised
    OBVIOUS
  <2>1. bounds \in Setting
    BY TreeAssumption DEF Init
  <2>2. child \in [Children -> {"none", "up", "stuck", "healthy", "dead"}]
    BY DEF Init
  <2>3. failures \in 0..(MaxRestarts + 1) /\ failures <= MaxRestarts
    BY TreeAssumption DEF Init
  <2>4. proof \in {"none", "pending", "active", "replaced"}
    BY DEF Init
  <2> QED
    BY <2>1, <2>2, <2>3, <2>4 DEF Init, TypeOK, Supervised, Promotion
<1> QED
  BY <1>1, TypeStep, SupervisedStep, PTL DEF Spec

(* Once main is in its finally block the shutdown has begun, and it waits  *)
(* for every child that runs; afterwards none does.  The supervisor's      *)
(* backoff may still be running: it is the shutdown flag that keeps it     *)
(* from spawning.                                                          *)
Leaving ==
    /\ pc \in {"finally", "ended"} => stopping /\ Running \subseteq awaited
    /\ pc = "ended" => awaited = {}

LEMMA LeavingStep == TypeOK /\ Leaving /\ [Next]_vars => Leaving'
<1> SUFFICES ASSUME TypeOK, Leaving, [Next]_vars PROVE Leaving'
  OBVIOUS
<1> USE DEF TypeOK, Leaving, Running, Promotion, Spend, End, StopChildren,
        Spawn, Leave, ToEdge, ToRace, Waiting, Healthy, main, procs
<1>1. CASE GatewayHealthy
  BY <1>1 DEF GatewayHealthy
<1>2. CASE RouterHealthy
  BY <1>2 DEF RouterHealthy
<1>3. CASE EdgeHealthy
  BY <1>3 DEF EdgeHealthy
<1>4. ASSUME NEW f \in Forwarders, ForwarderHealthy(f) PROVE Leaving'
  BY <1>4 DEF ForwarderHealthy
<1>5. CASE StartFails
  BY <1>5 DEF StartFails
<1>6. CASE Race
  BY <1>6 DEF Race
<1>7. CASE Finish
  BY <1>7 DEF Finish
<1>8. CASE Promote
  BY <1>8 DEF Promote
<1>9. CASE Promoted
  BY <1>9 DEF Promoted
<1>10. CASE Rollback
  BY <1>10 DEF Rollback
<1>11. CASE RollbackFails
  BY <1>11 DEF RollbackFails
<1>12. CASE GatewayExits
  BY <1>12 DEF GatewayExits
<1>13. CASE Restart
  BY <1>13 DEF Restart
<1>14. CASE Abort
  BY <1>14 DEF Abort
<1>15. CASE Restarted
  BY <1>15 DEF Restarted
<1>16. CASE NotRestarted
  BY <1>16 DEF NotRestarted
<1>17. CASE Signal
  BY <1>17 DEF Signal
<1>18. CASE TimerFires
  BY <1>18 DEF TimerFires
<1>19. CASE SessionChanges
  BY <1>19 DEF SessionChanges
<1>20. ASSUME NEW c \in Children, ComesUp(c) PROVE Leaving'
  BY <1>20 DEF ComesUp
<1>21. ASSUME NEW c \in Children, Obeys(c) PROVE Leaving'
  BY <1>21 DEF Obeys
<1>22. ASSUME NEW c \in Children, Answers(c) PROVE Leaving'
  BY <1>22 DEF Answers
<1>23. ASSUME NEW c \in Children, Dies(c) PROVE Leaving'
  BY <1>23 DEF Dies
<1>24. ASSUME NEW c \in Children, Stalls(c) PROVE Leaving'
  BY <1>24 DEF Stalls
<1>25. CASE Over
  BY <1>25 DEF Over, vars
<1>26. CASE UNCHANGED vars
  BY <1>26 DEF vars, main, procs
<1> QED
  BY <1>1, <1>2, <1>3, <1>4, <1>5, <1>6, <1>7, <1>8, <1>9, <1>10, <1>11,
     <1>12, <1>13, <1>14, <1>15, <1>16, <1>17, <1>18, <1>19, <1>20,
     <1>21, <1>22, <1>23, <1>24, <1>25, <1>26
     DEF Next, Main, Supervisor, Process

(* THEOREM: when start.mjs's main has ended, no child runs or will.        *)
THEOREM NoOrphans == Spec => []NoneOutlives
<1>1. Init => Leaving
  BY DEF Init, Leaving
<1>2. Leaving => NoneOutlives
  BY DEF Leaving, NoneOutlives, Running
<1> QED
  BY <1>1, <1>2, TypeCorrect, LeavingStep, PTL DEF Spec

(* Before the promotion the proof is not active.                           *)
Unproven == pc \in {"forwarders", "gateway", "router", "promoting"}
              => proof # "active"

LEMMA UnprovenStep == Unproven /\ [Next]_vars => Unproven'
<1> SUFFICES ASSUME Unproven, [Next]_vars PROVE Unproven'
  OBVIOUS
<1> USE TreeAssumption DEF Unproven, Promotion, Spend, End, StopChildren,
        Spawn, Leave, ToEdge, ToRace, Waiting, Healthy, main, procs
<1>1. CASE GatewayHealthy
  BY <1>1 DEF GatewayHealthy
<1>2. CASE RouterHealthy
  BY <1>2 DEF RouterHealthy
<1>3. CASE EdgeHealthy
  BY <1>3 DEF EdgeHealthy
<1>4. ASSUME NEW f \in Forwarders, ForwarderHealthy(f) PROVE Unproven'
  BY <1>4 DEF ForwarderHealthy
<1>5. CASE StartFails
  BY <1>5 DEF StartFails
<1>6. CASE Race
  BY <1>6 DEF Race
<1>7. CASE Finish
  BY <1>7 DEF Finish
<1>8. CASE Promote
  BY <1>8 DEF Promote
<1>9. CASE Promoted
  BY <1>9 DEF Promoted
<1>10. CASE Rollback
  BY <1>10 DEF Rollback
<1>11. CASE RollbackFails
  BY <1>11 DEF RollbackFails
<1>12. CASE GatewayExits
  BY <1>12 DEF GatewayExits
<1>13. CASE Restart
  BY <1>13 DEF Restart
<1>14. CASE Abort
  BY <1>14 DEF Abort
<1>15. CASE Restarted
  BY <1>15 DEF Restarted
<1>16. CASE NotRestarted
  BY <1>16 DEF NotRestarted
<1>17. CASE Signal
  BY <1>17 DEF Signal
<1>18. CASE TimerFires
  BY <1>18 DEF TimerFires
<1>19. CASE SessionChanges
  BY <1>19 DEF SessionChanges
<1>20. ASSUME NEW c \in Children, ComesUp(c) PROVE Unproven'
  BY <1>20 DEF ComesUp
<1>21. ASSUME NEW c \in Children, Obeys(c) PROVE Unproven'
  BY <1>21 DEF Obeys
<1>22. ASSUME NEW c \in Children, Answers(c) PROVE Unproven'
  BY <1>22 DEF Answers
<1>23. ASSUME NEW c \in Children, Dies(c) PROVE Unproven'
  BY <1>23 DEF Dies
<1>24. ASSUME NEW c \in Children, Stalls(c) PROVE Unproven'
  BY <1>24 DEF Stalls
<1>25. CASE Over
  BY <1>25 DEF Over, vars
<1>26. CASE UNCHANGED vars
  BY <1>26 DEF vars, main, procs
<1> QED
  BY <1>1, <1>2, <1>3, <1>4, <1>5, <1>6, <1>7, <1>8, <1>9, <1>10, <1>11,
     <1>12, <1>13, <1>14, <1>15, <1>16, <1>17, <1>18, <1>19, <1>20,
     <1>21, <1>22, <1>23, <1>24, <1>25, <1>26
     DEF Next, Main, Supervisor, Process

(* A step by which main goes on with an active proof is taken by Promoted, *)
(* which has found every child alive.                                      *)
LEMMA VouchedStep ==
    Unproven /\ [Next]_vars =>
        (pc \in Promotion /\ pc' \in {"edge", "ready"} /\ proof' = "active"
            => Exited = {})
<1> SUFFICES ASSUME Unproven, [Next]_vars,
                    pc \in Promotion, pc' \in {"edge", "ready"},
                    proof' = "active"
             PROVE  Exited = {}
  OBVIOUS
<1> USE DEF Unproven, Promotion, Spend, End, StopChildren, Spawn, Leave,
        ToEdge, ToRace, Waiting, Healthy, main, procs
<1>1. CASE GatewayHealthy
  BY <1>1 DEF GatewayHealthy
<1>2. CASE RouterHealthy
  BY <1>2 DEF RouterHealthy
<1>3. CASE EdgeHealthy
  BY <1>3 DEF EdgeHealthy
<1>4. ASSUME NEW f \in Forwarders, ForwarderHealthy(f) PROVE Exited = {}
  BY <1>4 DEF ForwarderHealthy
<1>5. CASE StartFails
  BY <1>5 DEF StartFails
<1>6. CASE Race
  BY <1>6 DEF Race
<1>7. CASE Finish
  BY <1>7 DEF Finish
<1>8. CASE Promote
  BY <1>8 DEF Promote
<1>9. CASE Promoted
  BY <1>9 DEF Promoted
<1>10. CASE Rollback
  BY <1>10 DEF Rollback
<1>11. CASE RollbackFails
  BY <1>11 DEF RollbackFails
<1>12. CASE GatewayExits
  BY <1>12 DEF GatewayExits
<1>13. CASE Restart
  BY <1>13 DEF Restart
<1>14. CASE Abort
  BY <1>14 DEF Abort
<1>15. CASE Restarted
  BY <1>15 DEF Restarted
<1>16. CASE NotRestarted
  BY <1>16 DEF NotRestarted
<1>17. CASE Signal
  BY <1>17 DEF Signal
<1>18. CASE TimerFires
  BY <1>18 DEF TimerFires
<1>19. CASE SessionChanges
  BY <1>19 DEF SessionChanges
<1>20. ASSUME NEW c \in Children, ComesUp(c) PROVE Exited = {}
  BY <1>20 DEF ComesUp
<1>21. ASSUME NEW c \in Children, Obeys(c) PROVE Exited = {}
  BY <1>21 DEF Obeys
<1>22. ASSUME NEW c \in Children, Answers(c) PROVE Exited = {}
  BY <1>22 DEF Answers
<1>23. ASSUME NEW c \in Children, Dies(c) PROVE Exited = {}
  BY <1>23 DEF Dies
<1>24. ASSUME NEW c \in Children, Stalls(c) PROVE Exited = {}
  BY <1>24 DEF Stalls
<1>25. CASE Over
  BY <1>25 DEF Over, vars
<1>26. CASE UNCHANGED vars
  BY <1>26 DEF vars, main, procs
<1> QED
  BY <1>1, <1>2, <1>3, <1>4, <1>5, <1>6, <1>7, <1>8, <1>9, <1>10, <1>11,
     <1>12, <1>13, <1>14, <1>15, <1>16, <1>17, <1>18, <1>19, <1>20,
     <1>21, <1>22, <1>23, <1>24, <1>25, <1>26
     DEF Next, Main, Supervisor, Process

(* THEOREM: the service never goes on with an active proof that a child    *)
(* which has ended vouched for.                                            *)
THEOREM ProofIsVouched == Spec => ActivationVouched
<1>1. Init => Unproven
  BY DEF Init, Unproven
<1>2. Unproven /\ [Next]_vars =>
        [(pc \in Promotion /\ pc' \in {"edge", "ready"} /\ proof' = "active")
            => (Exited = {})]_vars
  BY VouchedStep
<1> QED
  BY <1>1, <1>2, UnprovenStep, PTL DEF Spec, ActivationVouched
=============================================================================
