------------------------ MODULE WindowsServiceProofs ------------------------
(***************************************************************************)
(* Type correctness of the Windows service, and what its record and its    *)
(* stop command promise with prompt timing, for any number of process      *)
(* trees, commands, hangs and crashes.                                     *)
(***************************************************************************)
EXTENDS WindowsService, TLAPS

(* The service starts with its types.                                      *)
LEMMA TypeInit == Init => TypeOK
<1> SUFFICES ASSUME Init PROVE TypeOK
  OBVIOUS
<1>1. bounds \in Setting
  BY ServiceAssumption DEF Init
<1> QED
  BY <1>1 DEF Init, TypeOK, States, Steps, Actors

(* Every step keeps the variables in their types.                          *)
LEMMA TypeStep == TypeOK /\ [Next]_vars => TypeOK'
<1> SUFFICES ASSUME TypeOK, [Next]_vars PROVE TypeOK'
  OBVIOUS
<1> USE ServiceAssumption
    DEF TypeOK, States, Steps, Actors, Operator, Watchdog, Setting, Spend,
        service, actors, Launch, Goto, At, Gone, Watches, AfterKill, First
<1>1. CASE Heartbeat
  BY <1>1 DEF Heartbeat
<1>2. ASSUME NEW t \in Trees, Record(t) PROVE TypeOK'
  BY <1>2 DEF Record
<1>3. ASSUME NEW t \in Trees, Bind(t) PROVE TypeOK'
  BY <1>3 DEF Bind
<1>4. ASSUME NEW t \in Trees, Exit(t) PROVE TypeOK'
  BY <1>4 DEF Exit
<1>5. ASSUME NEW t \in Trees, Hang(t) PROVE TypeOK'
  BY <1>5 DEF Hang
<1>6. ASSUME NEW t \in Trees, Crash(t) PROVE TypeOK'
  BY <1>6 DEF Crash
<1>7. ASSUME NEW c \in Commands, Issue(c) PROVE TypeOK'
  BY <1>7 DEF Issue
<1>8. ASSUME NEW a \in Actors, Disable(a) PROVE TypeOK'
  BY <1>8 DEF Disable
<1>9. ASSUME NEW a \in Actors, End(a) PROVE TypeOK'
  BY <1>9 DEF End
<1>10. ASSUME NEW a \in Actors, Kill(a) PROVE TypeOK'
  BY <1>10 DEF Kill
<1>11. ASSUME NEW a \in Actors, Confirm(a) PROVE TypeOK'
  BY <1>11 DEF Confirm
<1>12. ASSUME NEW a \in Actors, Enable(a) PROVE TypeOK'
  BY <1>12 DEF Enable
<1>13. ASSUME NEW a \in Actors, Run(a) PROVE TypeOK'
  <2>1. {instance', ports', record'} \subseteq Trees \cup {None}
    BY <1>13 DEF Run
  <2>2. tree' \in [Trees -> States]
    BY <1>13 DEF Run
  <2>3. /\ lock' \in Actors \cup {Nobody} /\ pc' \in [Actors -> Steps]
        /\ cmd' \in [Actors -> {"none", "start", "stop", "restart"}]
    BY <1>13 DEF Run
  <2> QED
    BY <1>13, <2>1, <2>2, <2>3 DEF Run
<1>14. CASE Ready
  BY <1>14 DEF Ready
<1>15. CASE FirstProbe
  BY <1>15 DEF FirstProbe
<1>16. CASE SecondProbe
  BY <1>16 DEF SecondProbe
<1>17. CASE Listens
  BY <1>17 DEF Listens
<1>18. CASE Heal
  BY <1>18 DEF Heal
<1>19. CASE Busy
  BY <1>19 DEF Busy
<1>20. CASE Cooled
  BY <1>20 DEF Cooled
<1>21. ASSUME NEW t \in Trees, Collapse(t)
       PROVE TypeOK'
  BY <1>21 DEF Collapse
<1>22. CASE UNCHANGED vars
  BY <1>22 DEF vars
<1> QED
  BY <1>1, <1>2, <1>3, <1>4, <1>5, <1>6, <1>7, <1>8, <1>9, <1>10, <1>11,
     <1>12, <1>13, <1>14, <1>15, <1>16, <1>17, <1>18, <1>19, <1>20,
     <1>21, <1>22
     DEF Next, TreeStep, Command, Tick

(* Every reachable state of the service is well typed.                     *)
THEOREM TypeCorrect == Spec => []TypeOK
BY TypeInit, TypeStep, PTL DEF Spec

(* Which the service-operation lock protects: the steps of a command.      *)
Holds(a) == \/ pc[a] \in {"disable", "end", "kill", "confirm", "enable", "run"}
            \/ a = Operator /\ pc[a] = "ready"

(* The parts that need no timing: the holder of the lock is the one whose  *)
(* command runs, a stop is at one of its own steps, the tree on the port   *)
(* listens, and only a rough setting has faults.                           *)
Guarded ==
    /\ \A a \in Actors : Holds(a) => lock = a
    /\ cmd[Operator] = "stop"
         => pc[Operator] \in {"disable", "end", "kill", "confirm"}
    /\ ports # None => tree[ports] \in {"serving", "hung"}
    /\ bounds.faults > 0 => bounds.midCommand

(* With prompt timing there is one living tree at most, and it is either   *)
(* what the launcher waits for or what a command is about to kill; as soon *)
(* as it has started it is on record.                                      *)
Single ==
    /\ \A t, u \in Trees : Alive(t) /\ Alive(u) => t = u
    /\ \A t \in Trees : Alive(t) =>
         /\ tree[t] # "launched" => record = t
         /\ instance = t \/ \E a \in Actors : pc[a] = "kill" /\ record = t
         /\ \A a \in Actors : pc[a] # "confirm"

(* Every step keeps the parts that need no timing.                         *)
LEMMA GuardedStep == TypeOK /\ Guarded /\ [Next]_vars => Guarded'
<1> SUFFICES ASSUME TypeOK, Guarded, [Next]_vars PROVE Guarded'
  OBVIOUS
<1> USE ServiceAssumption
    DEF TypeOK, States, Steps, Actors, Operator, Watchdog, Nobody, Setting,
        Spend, service, actors, Launch, Goto, At, Gone, Watches, AfterKill,
        First, Guarded, Holds
<1>1. CASE Heartbeat
  BY <1>1 DEF Heartbeat
<1>2. ASSUME NEW t \in Trees, Record(t) PROVE Guarded'
  BY <1>2 DEF Record
<1>3. ASSUME NEW t \in Trees, Bind(t) PROVE Guarded'
  BY <1>3 DEF Bind
<1>4. ASSUME NEW t \in Trees, Exit(t) PROVE Guarded'
  BY <1>4 DEF Exit
<1>5. ASSUME NEW t \in Trees, Hang(t) PROVE Guarded'
  BY <1>5 DEF Hang
<1>6. ASSUME NEW t \in Trees, Crash(t) PROVE Guarded'
  BY <1>6 DEF Crash
<1>7. ASSUME NEW c \in Commands, Issue(c) PROVE Guarded'
  BY <1>7 DEF Issue
<1>8. ASSUME NEW a \in Actors, Disable(a) PROVE Guarded'
  BY <1>8 DEF Disable
<1>9. ASSUME NEW a \in Actors, End(a) PROVE Guarded'
  BY <1>9 DEF End
<1>10. ASSUME NEW a \in Actors, Kill(a) PROVE Guarded'
  BY <1>10 DEF Kill
<1>11. ASSUME NEW a \in Actors, Confirm(a) PROVE Guarded'
  BY <1>11 DEF Confirm
<1>12. ASSUME NEW a \in Actors, Enable(a) PROVE Guarded'
  BY <1>12 DEF Enable
<1>13. ASSUME NEW a \in Actors, Run(a) PROVE Guarded'
  BY <1>13 DEF Run
<1>14. CASE Ready
  BY <1>14 DEF Ready
<1>15. CASE FirstProbe
  BY <1>15 DEF FirstProbe
<1>16. CASE SecondProbe
  BY <1>16 DEF SecondProbe
<1>17. CASE Listens
  BY <1>17 DEF Listens
<1>18. CASE Heal
  BY <1>18 DEF Heal
<1>19. CASE Busy
  BY <1>19 DEF Busy
<1>20. CASE Cooled
  BY <1>20 DEF Cooled
<1>21. ASSUME NEW t \in Trees, Collapse(t)
       PROVE Guarded'
  BY <1>21 DEF Collapse
<1>22. CASE UNCHANGED vars
  BY <1>22 DEF vars
<1> QED
  BY <1>1, <1>2, <1>3, <1>4, <1>5, <1>6, <1>7, <1>8, <1>9, <1>10, <1>11,
     <1>12, <1>13, <1>14, <1>15, <1>16, <1>17, <1>18, <1>19, <1>20,
     <1>21, <1>22
     DEF Next, TreeStep, Command, Tick

(* The timing of a behaviour is chosen once.                               *)
LEMMA TimingKept == TypeOK /\ [Next]_vars => Prompt' = Prompt
<1> SUFFICES ASSUME TypeOK, [Next]_vars PROVE Prompt' = Prompt
  OBVIOUS
<1> USE DEF TypeOK, Setting, Spend, Prompt, service, actors, Gone, Watches
<1>1. CASE Heartbeat
  BY <1>1 DEF Heartbeat
<1>2. ASSUME NEW t \in Trees, Record(t) PROVE Prompt' = Prompt
  BY <1>2 DEF Record
<1>3. ASSUME NEW t \in Trees, Bind(t) PROVE Prompt' = Prompt
  BY <1>3 DEF Bind
<1>4. ASSUME NEW t \in Trees, Exit(t) PROVE Prompt' = Prompt
  BY <1>4 DEF Exit
<1>5. ASSUME NEW t \in Trees, Hang(t) PROVE Prompt' = Prompt
  BY <1>5 DEF Hang
<1>6. ASSUME NEW t \in Trees, Crash(t) PROVE Prompt' = Prompt
  BY <1>6 DEF Crash
<1>7. ASSUME NEW c \in Commands, Issue(c) PROVE Prompt' = Prompt
  BY <1>7 DEF Issue
<1>8. ASSUME NEW a \in Actors, Disable(a) PROVE Prompt' = Prompt
  BY <1>8 DEF Disable
<1>9. ASSUME NEW a \in Actors, End(a) PROVE Prompt' = Prompt
  BY <1>9 DEF End
<1>10. ASSUME NEW a \in Actors, Kill(a) PROVE Prompt' = Prompt
  BY <1>10 DEF Kill
<1>11. ASSUME NEW a \in Actors, Confirm(a) PROVE Prompt' = Prompt
  BY <1>11 DEF Confirm
<1>12. ASSUME NEW a \in Actors, Enable(a) PROVE Prompt' = Prompt
  BY <1>12 DEF Enable
<1>13. ASSUME NEW a \in Actors, Run(a) PROVE Prompt' = Prompt
  BY <1>13 DEF Run
<1>14. CASE Ready
  BY <1>14 DEF Ready
<1>15. CASE FirstProbe
  BY <1>15 DEF FirstProbe
<1>16. CASE SecondProbe
  BY <1>16 DEF SecondProbe
<1>17. CASE Listens
  BY <1>17 DEF Listens
<1>18. CASE Heal
  BY <1>18 DEF Heal
<1>19. CASE Busy
  BY <1>19 DEF Busy
<1>20. CASE Cooled
  BY <1>20 DEF Cooled
<1>21. ASSUME NEW t \in Trees, Collapse(t)
       PROVE Prompt' = Prompt
  BY <1>21 DEF Collapse
<1>22. CASE UNCHANGED vars
  BY <1>22 DEF vars
<1> QED
  BY <1>1, <1>2, <1>3, <1>4, <1>5, <1>6, <1>7, <1>8, <1>9, <1>10, <1>11,
     <1>12, <1>13, <1>14, <1>15, <1>16, <1>17, <1>18, <1>19, <1>20,
     <1>21, <1>22
     DEF Next, TreeStep, Command, Tick

(* With prompt timing every step keeps one living tree at most, on record. *)
LEMMA SingleStep ==
    TypeOK /\ Guarded /\ (Prompt => Single) /\ [Next]_vars
      => (Prompt => Single)'
<1> SUFFICES ASSUME TypeOK, Guarded, Prompt => Single, [Next]_vars, Prompt'
             PROVE  Single'
  OBVIOUS
<1>0. Prompt /\ Single /\ bounds.faults = 0
  <2>1. Prompt
    BY TimingKept
  <2> QED
    BY <2>1 DEF TypeOK, Setting, Guarded, Prompt
<1> USE ServiceAssumption, <1>0
    DEF TypeOK, States, Steps, Actors, Operator, Watchdog, Nobody, Setting,
        Spend, service, actors, Launch, Goto, At, Gone, Watches, AfterKill,
        First, Guarded, Holds, Single, Alive, Prompt, Unhurried
<1>1. CASE Heartbeat
  BY <1>1 DEF Heartbeat
<1>2. ASSUME NEW t \in Trees, Record(t) PROVE Single'
  BY <1>2 DEF Record
<1>3. ASSUME NEW t \in Trees, Bind(t) PROVE Single'
  BY <1>3 DEF Bind
<1>4. ASSUME NEW t \in Trees, Exit(t) PROVE Single'
  BY <1>4 DEF Exit
<1>5. ASSUME NEW t \in Trees, Hang(t) PROVE Single'
  BY <1>5 DEF Hang
<1>6. ASSUME NEW t \in Trees, Crash(t) PROVE Single'
  BY <1>6 DEF Crash
<1>7. ASSUME NEW c \in Commands, Issue(c) PROVE Single'
  BY <1>7 DEF Issue
<1>8. ASSUME NEW a \in Actors, Disable(a) PROVE Single'
  BY <1>8 DEF Disable
<1>9. ASSUME NEW a \in Actors, End(a) PROVE Single'
  BY <1>9 DEF End
<1>10. ASSUME NEW a \in Actors, Kill(a) PROVE Single'
  BY <1>10 DEF Kill
<1>11. ASSUME NEW a \in Actors, Confirm(a) PROVE Single'
  BY <1>11 DEF Confirm
<1>12. ASSUME NEW a \in Actors, Enable(a) PROVE Single'
  BY <1>12 DEF Enable
<1>13. ASSUME NEW a \in Actors, Run(a) PROVE Single'
  BY <1>13 DEF Run
<1>14. CASE Ready
  BY <1>14 DEF Ready
<1>15. CASE FirstProbe
  BY <1>15 DEF FirstProbe
<1>16. CASE SecondProbe
  BY <1>16 DEF SecondProbe
<1>17. CASE Listens
  BY <1>17 DEF Listens
<1>18. CASE Heal
  BY <1>18 DEF Heal
<1>19. CASE Busy
  BY <1>19 DEF Busy
<1>20. CASE Cooled
  BY <1>20 DEF Cooled
<1>21. ASSUME NEW t \in Trees, Collapse(t)
       PROVE Single'
  BY <1>21 DEF Collapse
<1>22. CASE UNCHANGED vars
  BY <1>22 DEF vars
<1> QED
  BY <1>1, <1>2, <1>3, <1>4, <1>5, <1>6, <1>7, <1>8, <1>9, <1>10, <1>11,
     <1>12, <1>13, <1>14, <1>15, <1>16, <1>17, <1>18, <1>19, <1>20,
     <1>21, <1>22
     DEF Next, TreeStep, Command, Tick

(* What the two properties need, as one invariant.                         *)
ServiceInv == TypeOK /\ Guarded /\ (Prompt => Single)

(* Both hold throughout every behaviour of the service.                    *)
THEOREM Invariance == Spec => []ServiceInv
<1>1. Init => ServiceInv
  <2> SUFFICES ASSUME Init PROVE Guarded /\ Single
    BY TypeInit DEF ServiceInv
  <2>1. bounds \in Setting /\ (bounds.faults > 0 => bounds.midCommand)
    BY ServiceAssumption DEF Init
  <2> QED
    BY <2>1, ServiceAssumption
       DEF Init, Guarded, Single, Holds, Alive, Actors, Operator, Watchdog
<1> QED
  BY <1>1, TypeStep, GuardedStep, SingleStep, PTL DEF Spec, ServiceInv

(* With prompt timing the record names the tree on the port, for           *)
(* any number of trees, commands, hangs and crashes.                       *)
THEOREM RecordFollowsPort == Spec => []PromptTreeIsRecorded
<1>1. ServiceInv => PromptTreeIsRecorded
  BY DEF ServiceInv, TypeOK, Guarded, Single, PromptTreeIsRecorded,
         LiveTreeIsRecorded, Alive
<1> QED
  BY <1>1, Invariance, PTL

(* A step that ends a stop command leaves no tree alive: it is a Kill that *)
(* finds none or the Confirm of one that has ended the only one there was. *)
LEMMA StopStep ==
    ServiceInv /\ [Next]_vars =>
        (Prompt /\ cmd[Operator] = "stop" /\ cmd'[Operator] = "none"
            => \A t \in Trees : ~(Alive(t))')
<1> SUFFICES ASSUME ServiceInv, [Next]_vars, Prompt,
                    cmd[Operator] = "stop", cmd'[Operator] = "none"
             PROVE  \A t \in Trees : ~(Alive(t))'
  OBVIOUS
<1> USE ServiceAssumption
    DEF ServiceInv, TypeOK, States, Steps, Actors, Operator, Watchdog, Nobody,
        Setting, Spend, service, actors, Goto, At, Gone, Watches, AfterKill,
        First, Guarded, Holds, Single, Alive, Prompt, Unhurried
<1>1. CASE Heartbeat
  BY <1>1 DEF Heartbeat
<1>2. ASSUME NEW t \in Trees, Record(t) PROVE \A x \in Trees : ~(Alive(x))'
  BY <1>2 DEF Record
<1>3. ASSUME NEW t \in Trees, Bind(t) PROVE \A x \in Trees : ~(Alive(x))'
  BY <1>3 DEF Bind
<1>4. ASSUME NEW t \in Trees, Exit(t) PROVE \A x \in Trees : ~(Alive(x))'
  BY <1>4 DEF Exit
<1>5. ASSUME NEW t \in Trees, Hang(t) PROVE \A x \in Trees : ~(Alive(x))'
  BY <1>5 DEF Hang
<1>6. ASSUME NEW t \in Trees, Crash(t) PROVE \A x \in Trees : ~(Alive(x))'
  BY <1>6 DEF Crash
<1>7. ASSUME NEW c \in Commands, Issue(c) PROVE \A x \in Trees : ~(Alive(x))'
  BY <1>7 DEF Issue
<1>8. ASSUME NEW a \in Actors, Disable(a) PROVE \A x \in Trees : ~(Alive(x))'
  BY <1>8 DEF Disable
<1>9. ASSUME NEW a \in Actors, End(a) PROVE \A x \in Trees : ~(Alive(x))'
  BY <1>9 DEF End
<1>10. ASSUME NEW a \in Actors, Kill(a) PROVE \A x \in Trees : ~(Alive(x))'
  BY <1>10 DEF Kill
<1>11. ASSUME NEW a \in Actors, Confirm(a) PROVE \A x \in Trees : ~(Alive(x))'
  BY <1>11 DEF Confirm
<1>12. ASSUME NEW a \in Actors, Enable(a) PROVE \A x \in Trees : ~(Alive(x))'
  BY <1>12 DEF Enable
<1>13. ASSUME NEW a \in Actors, Run(a) PROVE \A x \in Trees : ~(Alive(x))'
  BY <1>13 DEF Run
<1>14. CASE Ready
  BY <1>14 DEF Ready
<1>15. CASE FirstProbe
  BY <1>15 DEF FirstProbe
<1>16. CASE SecondProbe
  BY <1>16 DEF SecondProbe
<1>17. CASE Listens
  BY <1>17 DEF Listens
<1>18. CASE Heal
  BY <1>18 DEF Heal
<1>19. CASE Busy
  BY <1>19 DEF Busy
<1>20. CASE Cooled
  BY <1>20 DEF Cooled
<1>21. ASSUME NEW t \in Trees, Collapse(t)
       PROVE \A x \in Trees : ~(Alive(x))'
  BY <1>21 DEF Collapse
<1>22. CASE UNCHANGED vars
  BY <1>22 DEF vars
<1> QED
  BY <1>1, <1>2, <1>3, <1>4, <1>5, <1>6, <1>7, <1>8, <1>9, <1>10, <1>11,
     <1>12, <1>13, <1>14, <1>15, <1>16, <1>17, <1>18, <1>19, <1>20,
     <1>21, <1>22
     DEF Next, TreeStep, Command, Tick

(* With prompt timing a stop leaves no process behind.                     *)
THEOREM StopIsComplete == Spec => StopEndsTheTree
<1>1. ServiceInv /\ [Next]_vars =>
        [(Prompt /\ cmd[Operator] = "stop" /\ cmd'[Operator] = "none")
            => (\A t \in Trees : ~(Alive(t))')]_vars
  BY StopStep
<1> QED
  BY <1>1, Invariance, PTL DEF Spec, StopEndsTheTree
=============================================================================
