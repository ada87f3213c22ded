--------------------------- MODULE WindowsService ---------------------------
(***************************************************************************)
(* The Windows background service and its health watchdog: an operator's   *)
(* start, stop and restart, the minute heartbeat of the scheduled task,    *)
(* the process trees of start.mjs it launches, and the watchdog that       *)
(* restarts a router that listens but no longer answers                    *)
(* (src/service.mjs, src/service-windows.mjs, src/health-watchdog.mjs).    *)
(*                                                                         *)
(* service-process.json is the only way a tree that outlived its launcher  *)
(* can be found again, and no launch and no clearing of it takes the       *)
(* service-operation lock.                                                 *)
(***************************************************************************)
EXTENDS Naturals

CONSTANTS
    Commands,            \* what the operator does, of start, stop, restart
    Trees,               \* bound: process trees alive or still referred to
    Settings             \* the timings and bounds of the instances to check

None == "none"

(* midCommand: the heartbeat may fire while a command runs; slowStart: a   *)
(* launched tree may take a while to record itself; the rest are bounds on *)
(* operator commands, routers that hang, trees that die by themselves, and *)
(* failures of schtasks /End and taskkill, and waits that run out.         *)
Setting == [midCommand : BOOLEAN, slowStart : BOOLEAN,
            commands : Nat, hangs : Nat, crashes : Nat, faults : Nat]

ASSUME ServiceAssumption ==
    /\ Commands \subseteq {"start", "stop", "restart"}
    /\ Trees # {} /\ None \notin Trees
    /\ Settings # {} /\ Settings \subseteq Setting
    /\ \A s \in Settings : s.faults > 0 => s.midCommand

VARIABLES
    enabled,     \* the scheduled task is enabled
    instance,    \* the tree its launcher waits for, or None
    tree,        \* what each tree is doing
    ports,       \* the tree that listens on the router's port, or None
    record,      \* service-process.json: the tree it names, or None
    lock,        \* service-operation.lock
    pc,          \* next step of the operator's command and of the watchdog
    cmd,         \* the command each of them carries out
    target,      \* the record each has read (stopOwnedServiceTree's `state`)
    cooling,     \* lastRestartAt is less than COOLDOWN_MS ago
    wanted,      \* what the operator last asked for
    bounds       \* the setting: its timing, and what is left of its bounds

service == <<enabled, instance, tree, ports, record>>
actors  == <<lock, pc, cmd, target, cooling, wanted>>
vars    == <<service, actors, bounds>>

Operator == "operator"
Watchdog == "watchdog"
Actors   == {Operator, Watchdog}
Nobody   == "nobody"

States == {"launched", "booting", "serving", "hung", "exiting", "dead"}
Steps  == {"idle", "second", "listening", "lock", "disable", "end", "kill",
           "confirm", "enable", "run", "ready"}

TypeOK ==
    /\ enabled \in BOOLEAN /\ cooling \in BOOLEAN
    /\ {instance, ports, record} \subseteq Trees \cup {None}
    /\ tree \in [Trees -> States]
    /\ lock \in Actors \cup {Nobody}
    /\ pc \in [Actors -> Steps]
    /\ cmd \in [Actors -> {"none", "start", "stop", "restart"}]
    /\ target \in [Actors -> Trees \cup {None}]
    /\ wanted \in {"running", "stopped"}
    /\ bounds \in Setting

Alive(t) == t # None /\ tree[t] # "dead"

(* An installed service whose first tree has just come up. *)
Init ==
    /\ enabled = TRUE
    /\ instance \in Trees /\ ports = instance /\ record = instance
    /\ tree = [t \in Trees |-> IF t = instance THEN "serving" ELSE "dead"]
    /\ lock = Nobody
    /\ pc = [a \in Actors |-> "idle"]
    /\ cmd = [a \in Actors |-> "none"]
    /\ target = [a \in Actors |-> None]
    /\ cooling = FALSE /\ wanted = "running"
    /\ bounds \in Settings

Spend(b) == bounds[b] > 0 /\ bounds' = [bounds EXCEPT ![b] = @ - 1]

(***************************************************************************)
(* The task and the trees                                                  *)
(***************************************************************************)

(* MultipleInstances IgnoreNew: with a live launcher nothing is launched.  *)
(* A new tree takes an identity nothing refers to any more.                *)
Launch ==
    IF instance # None
      THEN UNCHANGED <<instance, tree>>
      ELSE \E t \in Trees :
              /\ tree[t] = "dead"
              /\ t \notin {record, target[Operator], target[Watchdog]}
              /\ tree' = [tree EXCEPT ![t] = "launched"]
              /\ instance' = t

Unhurried == bounds.slowStart \/ \A t \in Trees : tree[t] # "launched"

(* Mutant: a recorded tree counts as a living one.                         *)
HeartbeatTrustsRecord ==
    /\ enabled /\ instance = None /\ record = None
    /\ Unhurried /\ (bounds.midCommand \/ lock = Nobody)
    /\ Launch
    /\ UNCHANGED <<enabled, ports, record, actors, bounds>>

Heartbeat ==
    /\ enabled /\ instance = None
    /\ Unhurried /\ (bounds.midCommand \/ lock = Nobody)
    /\ Launch
    /\ UNCHANGED <<enabled, ports, record, actors, bounds>>

(* Mutants: the tree does not record itself; it comes up in no known state.*)
RecordSkipped(t) ==
    /\ tree[t] = "launched"
    /\ tree' = [tree EXCEPT ![t] = "booting"]
    /\ UNCHANGED <<enabled, instance, ports, record, actors, bounds>>
RecordUnknown(t) ==
    /\ tree[t] = "launched"
    /\ tree' = [tree EXCEPT ![t] = "starting"]
    /\ record' = t
    /\ UNCHANGED <<enabled, instance, ports, actors, bounds>>

(* writeServiceProcessState *)
Record(t) ==
    /\ tree[t] = "launched"
    /\ tree' = [tree EXCEPT ![t] = "booting"]
    /\ record' = t
    /\ UNCHANGED <<enabled, instance, ports, actors, bounds>>

(* The children come up, or find their ports taken. *)
Bind(t) ==
    /\ tree[t] = "booting"
    /\ IF ports = None
         THEN tree' = [tree EXCEPT ![t] = "serving"] /\ ports' = t
         ELSE tree' = [tree EXCEPT ![t] = "exiting"] /\ UNCHANGED ports
    /\ UNCHANGED <<enabled, instance, record, actors, bounds>>

Gone(t) ==
    /\ tree' = [tree EXCEPT ![t] = "dead"]
    /\ ports' = IF ports = t THEN None ELSE ports
    /\ instance' = IF instance = t THEN None ELSE instance

(* The end of start.mjs: clearServiceProcessState unlinks the file,        *)
(* whichever tree it names.                                                *)
Exit(t) ==
    /\ tree[t] = "exiting"
    /\ Gone(t)
    /\ record' = None
    /\ UNCHANGED <<enabled, actors, bounds>>

Hang(t) ==
    /\ tree[t] = "serving" /\ Spend("hangs")
    /\ tree' = [tree EXCEPT ![t] = "hung"]
    /\ UNCHANGED <<enabled, instance, ports, record, actors>>

(* One of its processes ends: start.mjs stops the others and ends too.     *)
Collapse(t) ==
    /\ tree[t] \in {"booting", "serving"} /\ Spend("crashes")
    /\ tree' = [tree EXCEPT ![t] = "exiting"]
    /\ ports' = IF ports = t THEN None ELSE ports
    /\ UNCHANGED <<enabled, instance, record, actors>>

Crash(t) ==
    /\ Alive(t) /\ Spend("crashes")
    /\ Gone(t)
    /\ UNCHANGED <<enabled, record, actors>>

(***************************************************************************)
(* A command of service-windows.mjs, run under the service-operation lock  *)
(***************************************************************************)
First == [start |-> "enable", stop |-> "disable", restart |-> "end"]

AfterKill(a) == IF cmd[a] = "stop" THEN "idle" ELSE "enable"

(* Releasing the lock is the last thing a command does. *)
Goto(a, step) ==
    /\ pc' = [pc EXCEPT ![a] = step]
    /\ lock' = IF step = "idle" THEN Nobody ELSE lock
    /\ cmd' = IF step = "idle" THEN [cmd EXCEPT ![a] = "none"] ELSE cmd

Issue(c) ==
    /\ pc[Operator] = "idle" /\ lock = Nobody /\ Unhurried
    /\ Spend("commands")
    /\ lock' = Operator
    /\ cmd' = [cmd EXCEPT ![Operator] = c]
    /\ pc' = [pc EXCEPT ![Operator] = First[c]]
    /\ wanted' = IF c = "stop" THEN "stopped" ELSE "running"
    /\ UNCHANGED <<service, target, cooling>>

At(a, step) == pc[a] = step /\ Unhurried

Disable(a) ==
    /\ At(a, "disable")
    /\ enabled' = FALSE
    /\ Goto(a, "end")
    /\ UNCHANGED <<instance, tree, ports, record, target, cooling, wanted,
                   bounds>>

(* Mutant: ending the task is taken for ending the tree.                   *)
EndAlone(a) ==
    /\ At(a, "end")
    /\ instance' = None
    /\ Goto(a, AfterKill(a))
    /\ UNCHANGED <<enabled, tree, ports, record, target, cooling, wanted,
                   bounds>>

(* schtasks /End ends the launcher; cmd and node may outlive it. When it   *)
(* fails, or the task still runs at the deadline, the command goes on.     *)
End(a) ==
    /\ At(a, "end")
    /\ \/ instance' = None /\ UNCHANGED bounds
       \/ Spend("faults") /\ UNCHANGED instance
    /\ Goto(a, "kill")
    /\ UNCHANGED <<enabled, tree, ports, record, target, cooling, wanted>>

Kill(a) ==
    /\ At(a, "kill")
    /\ IF ~Alive(record)                     \* serviceProcessOwns
         THEN Goto(a, AfterKill(a)) /\ UNCHANGED <<service, target, bounds>>
         ELSE /\ target' = [target EXCEPT ![a] = record]
              /\ Goto(a, "confirm")
              /\ \/ Gone(record) /\ UNCHANGED bounds
                 \/ Spend("faults") /\ UNCHANGED <<tree, ports, instance>>
              /\ UNCHANGED <<enabled, record>>
    /\ UNCHANGED <<cooling, wanted>>

(* The poll after taskkill; at its deadline the record is left alone. *)
Confirm(a) ==
    /\ At(a, "confirm")
    /\ record' = IF ~Alive(target[a]) /\ ports = None THEN None ELSE record
    /\ target' = [target EXCEPT ![a] = None]
    /\ Goto(a, AfterKill(a))
    /\ UNCHANGED <<enabled, instance, tree, ports, cooling, wanted, bounds>>

Enable(a) ==
    /\ At(a, "enable")
    /\ enabled' = TRUE
    /\ Goto(a, "run")
    /\ UNCHANGED <<instance, tree, ports, record, target, cooling, wanted,
                   bounds>>

(* service.mjs waits for readiness under the lock; the watchdog runs the   *)
(* platform script alone and writes lastRestartAt.                         *)
Run(a) ==
    /\ At(a, "run")
    /\ Launch
    /\ IF a = Operator THEN Goto(a, "ready") /\ UNCHANGED cooling
                       ELSE Goto(a, "idle")  /\ cooling' = TRUE
    /\ UNCHANGED <<enabled, ports, record, target, wanted, bounds>>

Ready ==
    /\ At(Operator, "ready")
    /\ \/ /\ \A t \in Trees : tree[t] \notin {"launched", "booting"}
          /\ UNCHANGED bounds
       \/ Spend("faults")
    /\ Goto(Operator, "idle")
    /\ UNCHANGED <<service, target, cooling, wanted>>

Command(a) ==
    Disable(a) \/ End(a) \/ Kill(a) \/ Confirm(a) \/ Enable(a) \/ Run(a)

(***************************************************************************)
(* health-watchdog.mjs                                                     *)
(***************************************************************************)
Mute == ports # None /\ tree[ports] = "hung"

Watches(step) ==
    /\ pc' = [pc EXCEPT ![Watchdog] = step]
    /\ UNCHANGED <<service, lock, cmd, target, cooling, wanted>>

FirstProbe ==
    /\ At(Watchdog, "idle") /\ Mute
    /\ Watches("second") /\ UNCHANGED bounds

SecondProbe ==
    /\ At(Watchdog, "second")
    /\ Watches(IF Mute THEN "listening" ELSE "idle")
    /\ UNCHANGED bounds

(* Mutant: the cooldown test the wrong way round.                          *)
ListensInverted ==
    /\ At(Watchdog, "listening")
    /\ Watches(IF ports # None /\ cooling THEN "lock" ELSE "idle")
    /\ UNCHANGED bounds

Listens ==
    /\ At(Watchdog, "listening")
    /\ Watches(IF ports # None /\ ~cooling THEN "lock" ELSE "idle")
    /\ UNCHANGED bounds

(* healUnderLock: 500 ms, then the next tick. *)
Heal ==
    /\ At(Watchdog, "lock") /\ lock = Nobody
    /\ lock' = Watchdog
    /\ cmd' = [cmd EXCEPT ![Watchdog] = "restart"]
    /\ pc' = [pc EXCEPT ![Watchdog] = "end"]
    /\ UNCHANGED <<service, target, cooling, wanted, bounds>>

Busy ==
    /\ At(Watchdog, "lock") /\ lock = Operator
    /\ Watches("idle") /\ UNCHANGED bounds

Cooled ==
    /\ cooling /\ cooling' = FALSE
    /\ UNCHANGED <<service, lock, pc, cmd, target, wanted, bounds>>

Tick == FirstProbe \/ SecondProbe \/ Listens \/ Heal \/ Busy

TreeStep(t) == Record(t) \/ Bind(t) \/ Exit(t)

Next ==
    \/ Heartbeat
    \/ \E t \in Trees : TreeStep(t) \/ Hang(t) \/ Collapse(t) \/ Crash(t)
    \/ \E c \in Commands : Issue(c)
    \/ \E a \in Actors : Command(a)
    \/ Ready
    \/ Tick \/ Cooled

Spec == Init /\ [][Next]_vars

(* Task Scheduler keeps ticking both tasks, processes keep running, a      *)
(* cooldown ends.                                                          *)
FairSpec ==
    /\ Spec
    /\ WF_vars(Heartbeat) /\ WF_vars(Tick) /\ WF_vars(Cooled)
    /\ WF_vars(Ready)
    /\ \A a \in Actors : WF_vars(Command(a))
    /\ \A t \in Trees : WF_vars(TreeStep(t))

(***************************************************************************)
(* Properties                                                              *)
(***************************************************************************)

Prompt == ~bounds.midCommand /\ ~bounds.slowStart

(* "Record the verified start.mjs identity so the Windows service manager  *)
(* can terminate that tree before it launches a replacement" (start.mjs):  *)
(* the tree that holds the router's port is the one the record names, or   *)
(* nothing can ever stop it again. It holds as long as trees record        *)
(* themselves promptly and no heartbeat fires during a command.            *)
LiveTreeIsRecorded   == ports # None => record = ports
PromptTreeIsRecorded == Prompt => LiveTreeIsRecorded

(* When the stop command returns, no process of the service is left, in    *)
(* the same circumstances.                                                 *)
StopEndsTheTree ==
    [][Prompt /\ cmd[Operator] = "stop" /\ cmd'[Operator] = "none"
         => \A t \in Trees : ~(Alive(t))']_vars

(* "A deliberate `stop` (which disables the task) must not be undone here" *)
(* (health-watchdog.mjs): once the stop has returned, and until the        *)
(* operator asks for the service again, the task stays disabled.           *)
StopIsKept == wanted = "stopped" /\ pc[Operator] = "idle" => ~enabled

(* What the watchdog is for: a router that listens and answers nothing is  *)
(* ended sooner or later, by the watchdog or by the operator, as long as   *)
(* it is on record.                                                        *)
HungIsEnded == \A t \in Trees : Prompt /\ tree[t] = "hung" ~> tree[t] = "dead"

(* What the heartbeat is for: as long as the operator wants the service,   *)
(* some tree keeps coming back to listen on its port, in spite of crashes, *)
(* of trees nothing records and of replacements that find the port taken.  *)
ServiceReturns == <>[](wanted = "running") => []<>(ports # None)
=============================================================================
