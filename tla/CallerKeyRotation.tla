------------------------- MODULE CallerKeyRotation -------------------------
(***************************************************************************)
(* The journaled transaction of `caller-key rotate`: replace the secret    *)
(* every managed client presents to the router, across the secret file,    *)
(* the clients' documents and the running service, so that an interruption *)
(* at any step can be recovered by the next invocation                     *)
(* (src/caller-key.mjs, src/caller-key-rotation.mjs and                    *)
(* src/caller-key-rotation-journal.mjs).                                   *)
(*                                                                         *)
(* One file operation, one service command or one journal write is one     *)
(* step, so the process can die between any two of them.  Key generations  *)
(* are numbered in the order they are minted; NoKey is a file that does    *)
(* not exist (or a service that is not running).                           *)
(*                                                                         *)
(* The rotation lock, the overlay and login-free locks and the service     *)
(* lock are held from the first to the last step of an invocation, hence a *)
(* single rotator process, and an environment that only moves while that   *)
(* process is not running (pc = "idle").                                   *)
(***************************************************************************)
EXTENDS Naturals, FiniteSets

CONSTANTS
    Clients,              \* integrations whose documents embed the key
    MaxKey,               \* bound: generations minted
    MaxCrashes,           \* bound: deaths of the rotator process
    MaxFaults,            \* bound: steps that throw
    OperatorWhilePending  \* may the operator start and stop the service
                          \* between a crash and the recovery?

ASSUME RotationAssumption ==
    /\ MaxKey \in Nat /\ MaxCrashes \in Nat /\ MaxFaults \in Nat
    /\ OperatorWhilePending \in BOOLEAN

VARIABLES
    secret, backup, temp, displaced, \* caller-secret and its .rotate-* files
    journal,              \* caller-key-rotation.json
    client,               \* key in each client's managed document
    installed,            \* clients whose integration is installed
    service,              \* key the running router accepts, NoKey: stopped
    pc,                   \* next step of the rotator, "idle" when none runs
    cause,                \* why a step runs: "startup" recovery, the "run"
                          \* itself, or the recovery after its "failure"
    todo,                 \* targets refreshTargets has still to visit
    shouldRun,            \* shouldRunAfterRecovery
    stale,                \* displacedSecret returned by the restore
    minted,               \* generations minted so far
    wanted,               \* the operator's latest intent for the service
    late,                 \* clients installed while a journal was pending
    crashes, faults

files    == <<secret, backup, temp, displaced>>
clients  == <<client, installed, late>>
local    == <<todo, shouldRun, stale>>
budgets  == <<crashes, faults>>
vars     == <<files, journal, clients, service, pc, cause, local, minted,
              wanted, budgets>>

NoKey == 0
Key   == Nat \ {NoKey}

Phases == {"prepared", "service-stopped", "secret-swapped",
           "clients-refreshed", "service-started", "verified"}

NoJournal == [phase |-> "none", prev |-> NoKey, cur |-> NoKey,
              was |-> FALSE, targets |-> {}]

Pending  == journal.phase \notin {"none", "verified"}
Verified == journal.phase = "verified"

Causes == {"startup", "run", "failure"}

Labels == {"idle", "read", "begin", "stop", "stopped", "mint", "retire",
           "publish", "unpublish", "unretire", "swapped", "halt", "displace",
           "promote", "unlink", "undoPromote", "undoDisplace", "refresh",
           "start", "started", "verify", "commit", "discard", "clear"}

TypeOK ==
    /\ secret \in Nat /\ backup \in Nat /\ temp \in Nat /\ displaced \in Nat
    /\ journal \in [phase : Phases \cup {"none"}, prev : Nat, cur : Nat,
                    was : BOOLEAN, targets : SUBSET Clients]
    /\ client \in [Clients -> Nat]
    /\ installed \in SUBSET Clients
    /\ late \in SUBSET Clients
    /\ service \in Nat
    /\ pc \in Labels /\ cause \in Causes
    /\ todo \in SUBSET Clients /\ shouldRun \in BOOLEAN /\ stale \in Nat
    /\ minted \in Nat /\ wanted \in BOOLEAN
    /\ crashes \in Nat /\ faults \in Nat

Init ==
    /\ secret = 1 /\ backup = NoKey /\ temp = NoKey /\ displaced = NoKey
    /\ journal = NoJournal
    /\ client = [c \in Clients |-> 1]
    /\ installed \in SUBSET Clients
    /\ late = {}
    /\ service \in {NoKey, 1}
    /\ wanted = (service # NoKey)
    /\ pc = "idle" /\ cause = "startup"
    /\ todo = {} /\ shouldRun = FALSE /\ stale = NoKey
    /\ minted = 1
    /\ crashes = 0 /\ faults = 0

(***************************************************************************)
(* Control flow of an invocation                                           *)
(***************************************************************************)
Goto(l) == pc' = l /\ UNCHANGED cause

(* An exception of the transaction is caught and answered by a recovery;   *)
(* one of a recovery, or before the journal exists, leaves the process.    *)
Throw ==
    IF cause = "run" THEN pc' = "read" /\ cause' = "failure"
                     ELSE pc' = "idle" /\ UNCHANGED cause

(* The step fails: it throws, and the budget of faults is charged.         *)
Faulty == faults < MaxFaults /\ faults' = faults + 1 /\ UNCHANGED crashes
Sound  == UNCHANGED budgets

(* A journal write is a rename that a failing protection may still follow. *)
WriteJournal(phase, next) ==
    LET written == [journal EXCEPT !.phase = phase] IN
    /\ \/ Sound /\ journal' = written /\ Goto(next)
       \/ Faulty /\ journal' \in {journal, written} /\ Throw
    /\ UNCHANGED <<files, clients, service, local, minted, wanted>>

(***************************************************************************)
(* runCallerKeyRotation: recover first, then the forward transaction       *)
(***************************************************************************)
Rotate ==
    /\ pc = "idle"
    /\ pc' = "read" /\ cause' = "startup"
    /\ UNCHANGED <<files, journal, clients, service, local, minted, wanted,
                   budgets>>

(* Unreadable or partial client status, or an unreadable live secret, ends *)
(* the invocation before there is a journal.                               *)
BeginRefused ==
    /\ pc = "begin"
    /\ Goto("idle")
    /\ UNCHANGED <<files, journal, clients, service, local, minted, wanted,
                   budgets>>

(* The .rotate-* paths carry the fresh operation id: the new operation     *)
(* finds none of them, whatever an earlier one left behind.                *)
Begin ==
    /\ pc = "begin"
    /\ secret # NoKey
    /\ minted < MaxKey
    /\ journal' = [phase |-> "prepared", prev |-> secret, cur |-> NoKey,
                   was |-> service # NoKey, targets |-> installed]
    /\ backup' = NoKey /\ temp' = NoKey /\ displaced' = NoKey
    /\ \/ /\ Sound /\ cause' = "run"
          /\ pc' = IF service # NoKey THEN "stop" ELSE "mint"
       \/ Faulty /\ Goto("idle")          \* thrown outside the try block
    /\ stale' = NoKey
    /\ UNCHANGED <<secret, clients, service, todo, shouldRun, minted, wanted>>

StopService ==
    /\ pc = "stop"
    /\ \/ Sound /\ service' = NoKey /\ Goto("stopped")
       \/ Faulty /\ service' \in {service, NoKey} /\ Throw
    /\ UNCHANGED <<files, journal, clients, local, minted, wanted>>

(* Mutant: a phase the journal does not know.                              *)
RecordStoppedMisnamed == pc = "stopped" /\ WriteJournal("stopped", "mint")

RecordStopped == pc = "stopped" /\ WriteJournal("service-stopped", "mint")

(***************************************************************************)
(* swapCallerCapability and its rollback                                   *)
(***************************************************************************)
Mint ==
    /\ pc = "mint"
    /\ minted' = minted + 1
    /\ \/ Sound /\ temp' = minted + 1 /\ Goto("retire")
       \/ Faulty /\ UNCHANGED temp /\ Throw
    /\ UNCHANGED <<secret, backup, displaced, journal, clients, service,
                   local, wanted>>

Retire ==
    /\ pc = "retire"
    /\ \/ /\ Sound /\ Goto("publish")
          /\ backup' = secret /\ secret' = NoKey /\ UNCHANGED temp
       \/ /\ Faulty /\ Goto("unretire")   \* protect(backup) throws
          /\ backup' = secret /\ secret' = NoKey /\ UNCHANGED temp
       \/ /\ Faulty /\ Throw              \* the rename itself throws
          /\ temp' = NoKey /\ UNCHANGED <<secret, backup>>
    /\ UNCHANGED <<displaced, journal, clients, service, local, minted,
                   wanted>>

Publish ==
    /\ pc = "publish"
    /\ \/ /\ Sound /\ Goto("swapped")
          /\ secret' = temp /\ temp' = NoKey
       \/ /\ Faulty /\ Goto("unpublish")  \* protect(secretPath) throws
          /\ secret' = temp /\ temp' = NoKey
       \/ /\ Faulty /\ Goto("unretire")   \* the rename itself throws
          /\ UNCHANGED <<secret, temp>>
    /\ UNCHANGED <<backup, displaced, journal, clients, service, local,
                   minted, wanted>>

Unpublish ==
    /\ pc = "unpublish"
    /\ \/ Sound /\ secret' = NoKey /\ Goto("unretire")
       \/ Faulty /\ UNCHANGED secret /\ Throw
    /\ UNCHANGED <<backup, temp, displaced, journal, clients, service, local,
                   minted, wanted>>

Unretire ==
    /\ pc = "unretire"
    /\ \/ Sound /\ secret' = backup /\ backup' = NoKey
       \/ Faulty /\ UNCHANGED <<secret, backup>>
    /\ temp' = NoKey
    /\ Throw
    /\ UNCHANGED <<displaced, journal, clients, service, local, minted,
                   wanted>>

RecordSwapped ==
    /\ pc = "swapped"
    /\ LET written == [journal EXCEPT !.phase = "secret-swapped",
                                      !.cur = secret]
       IN  \/ /\ Sound /\ Goto("refresh")
              /\ journal' = written /\ todo' = journal.targets
           \/ /\ Faulty /\ Throw
              /\ journal' \in {journal, written} /\ UNCHANGED todo
    /\ UNCHANGED <<files, clients, service, shouldRun, stale, minted, wanted>>

(***************************************************************************)
(* Steps the transaction and the recovery share                            *)
(***************************************************************************)

(* The refresh command of an integration that is gone refuses to run.      *)
Refresh(c) ==
    /\ pc = "refresh" /\ c \in todo
    /\ \/ /\ Sound /\ c \in installed /\ Goto("refresh")
          /\ client' = [client EXCEPT ![c] = secret]
          /\ todo' = todo \ {c}
          /\ late' = late \ {c}
       \/ /\ Sound /\ c \notin installed /\ Throw
          /\ UNCHANGED <<client, todo, late>>
       \/ /\ Faulty /\ Throw
          /\ UNCHANGED <<client, todo, late>>
    /\ UNCHANGED <<files, journal, installed, service, shouldRun, stale,
                   minted, wanted>>

(* Mutant: the phase is recorded with clients still to refresh.            *)
RecordRefreshedEarly ==
    /\ pc = "refresh" /\ cause = "run"
    /\ WriteJournal("clients-refreshed",
                    IF journal.was THEN "start" ELSE "commit")

RecordRefreshed ==
    /\ pc = "refresh" /\ todo = {} /\ cause = "run"
    /\ WriteJournal("clients-refreshed",
                    IF journal.was THEN "start" ELSE "commit")

(* Mutant: the recovery goes on with clients still to refresh.             *)
RefreshedInRecoveryEarly ==
    /\ pc = "refresh" /\ cause # "run"
    /\ Goto(IF shouldRun THEN "start" ELSE "discard")
    /\ UNCHANGED <<files, journal, clients, service, local, minted, wanted,
                   budgets>>

(* Mutant: the recovery leaves the service as it has stopped it.           *)
RefreshedInRecoveryStopped ==
    /\ pc = "refresh" /\ todo = {} /\ cause # "run"
    /\ Goto("discard")
    /\ UNCHANGED <<files, journal, clients, service, local, minted, wanted,
                   budgets>>

RefreshedInRecovery ==
    /\ pc = "refresh" /\ todo = {} /\ cause # "run"
    /\ Goto(IF shouldRun THEN "start" ELSE "discard")
    /\ UNCHANGED <<files, journal, clients, service, local, minted, wanted,
                   budgets>>

(* A start that reports failure may still have brought the router up.      *)
StartService ==
    /\ pc = "start"
    /\ \/ /\ Sound /\ service' = secret
          /\ Goto(IF cause = "run" THEN "started" ELSE "verify")
       \/ Faulty /\ service' \in {service, secret} /\ Throw
    /\ UNCHANGED <<files, journal, clients, local, minted, wanted>>

RecordStarted == pc = "started" /\ WriteJournal("service-started", "verify")

(* verifyCallerRotation: the live key is answered 200, the other one 401.  *)
Accepted ==
    /\ service = (IF cause = "run" THEN journal.cur ELSE secret)
    /\ service # (IF cause = "run" THEN journal.prev ELSE stale)

Verify ==
    /\ pc = "verify"
    /\ \/ /\ Sound /\ Accepted
          /\ Goto(IF cause = "run" THEN "commit" ELSE "discard")
       \/ Sound /\ ~Accepted /\ Throw
       \/ Faulty /\ Throw
    /\ UNCHANGED <<files, journal, clients, service, local, minted, wanted>>

Commit == pc = "commit" /\ WriteJournal("verified", "discard")

Discard ==
    /\ pc = "discard"
    /\ \/ Sound /\ backup' = NoKey /\ Goto("clear")
       \/ Faulty /\ UNCHANGED backup /\ Throw
    /\ UNCHANGED <<secret, temp, displaced, journal, clients, service, local,
                   minted, wanted>>

Clear ==
    /\ pc = "clear"
    /\ \/ /\ Sound /\ journal' = NoJournal
          /\ Goto(IF cause = "startup" THEN "begin" ELSE "idle")
       \/ Faulty /\ UNCHANGED journal /\ Throw
    /\ UNCHANGED <<files, clients, service, local, minted, wanted>>

(***************************************************************************)
(* recoverPendingCallerKeyRotationUnlocked and restoreCallerCapability     *)
(***************************************************************************)
(* Mutant: the live secret is not looked at.                               *)
RollbackKeyBackupOnly == backup

RollbackKey == IF backup # NoKey THEN backup ELSE secret

ReadJournal ==
    /\ pc = "read"
    /\ \/ /\ Sound /\ journal.phase = "none"
          /\ Goto(IF cause = "startup" THEN "begin" ELSE "idle")
       \/ Sound /\ Verified /\ secret = journal.cur /\ Goto("discard")
       \/ Sound /\ Verified /\ secret # journal.cur /\ Throw
       \/ Sound /\ Pending /\ RollbackKey = journal.prev /\ Goto("halt")
       \/ Sound /\ Pending /\ RollbackKey # journal.prev /\ Throw
       \/ Faulty /\ Throw                 \* unreadable or not private
    /\ stale' = NoKey
    /\ UNCHANGED <<files, journal, clients, service, todo, shouldRun, minted,
                   wanted>>

(* Mutant: the recovery republishes without restoring the old generation.  *)
HaltServiceWithoutRestore ==
    /\ pc = "halt" /\ Sound
    /\ service' = NoKey
    /\ shouldRun' = (journal.was \/ service # NoKey)
    /\ Goto("refresh") /\ todo' = journal.targets
    /\ UNCHANGED <<files, journal, clients, stale, minted, wanted>>

HaltService ==
    /\ pc = "halt"
    /\ \/ /\ Sound /\ service' = NoKey
          /\ shouldRun' = (journal.was \/ service # NoKey)
          /\ IF backup # NoKey
               THEN Goto("displace") /\ UNCHANGED todo
               ELSE Goto("refresh") /\ todo' = journal.targets
       \/ /\ Faulty /\ service' \in {service, NoKey}
          /\ Throw /\ UNCHANGED <<shouldRun, todo>>
    /\ UNCHANGED <<files, journal, clients, stale, minted, wanted>>

Displace ==
    /\ pc = "displace"
    /\ \/ /\ displaced # NoKey            \* refuses to lose a generation
          /\ Sound /\ Throw
          /\ UNCHANGED <<secret, displaced, stale>>
       \/ /\ displaced = NoKey
          /\ Sound /\ Goto("promote")
          /\ displaced' = secret /\ secret' = NoKey /\ stale' = secret
       \/ /\ displaced = NoKey /\ secret # NoKey
          /\ Faulty /\ Goto("undoDisplace")
          /\ displaced' = secret /\ secret' = NoKey
          /\ UNCHANGED stale
       \/ /\ displaced = NoKey
          /\ Faulty /\ Throw
          /\ UNCHANGED <<secret, displaced, stale>>
    /\ UNCHANGED <<backup, temp, journal, clients, service, todo, shouldRun,
                   minted, wanted>>

Promote ==
    /\ pc = "promote"
    /\ \/ /\ Sound /\ Goto("unlink")
          /\ secret' = backup /\ backup' = NoKey
       \/ /\ Faulty /\ Goto("undoPromote")
          /\ secret' = backup /\ backup' = NoKey
       \/ /\ Faulty /\ Goto("undoDisplace")
          /\ UNCHANGED <<secret, backup>>
    /\ UNCHANGED <<temp, displaced, journal, clients, service, local, minted,
                   wanted>>

UnlinkDisplaced ==
    /\ pc = "unlink"
    /\ \/ /\ Sound /\ displaced' = NoKey
          /\ Goto("refresh") /\ todo' = journal.targets
       \/ Faulty /\ Goto("undoPromote") /\ UNCHANGED <<displaced, todo>>
    /\ UNCHANGED <<secret, backup, temp, journal, clients, service, shouldRun,
                   stale, minted, wanted>>

UndoPromote ==
    /\ pc = "undoPromote"
    /\ \/ /\ Sound /\ Goto("undoDisplace")
          /\ backup' = secret /\ secret' = NoKey
       \/ /\ Faulty /\ Throw              \* protect(backup) throws
          /\ backup' = secret /\ secret' = NoKey
       \/ Faulty /\ Throw /\ UNCHANGED <<secret, backup>>
    /\ UNCHANGED <<temp, displaced, journal, clients, service, local, minted,
                   wanted>>

UndoDisplace ==
    /\ pc = "undoDisplace"
    /\ \/ /\ Sound
          /\ secret' = (IF displaced # NoKey THEN displaced ELSE secret)
          /\ displaced' = NoKey
       \/ Faulty /\ UNCHANGED <<secret, displaced>>
    /\ Throw
    /\ UNCHANGED <<backup, temp, journal, clients, service, local, minted,
                   wanted>>

Rotator ==
    \/ BeginRefused \/ Begin \/ StopService \/ RecordStopped
    \/ Mint \/ Retire \/ Publish \/ Unpublish \/ Unretire \/ RecordSwapped
    \/ \E c \in Clients : Refresh(c)
    \/ RecordRefreshed \/ RefreshedInRecovery \/ StartService
    \/ RecordStarted \/ Verify \/ Commit \/ Discard \/ Clear
    \/ ReadJournal \/ HaltService \/ Displace \/ Promote \/ UnlinkDisplaced
    \/ UndoPromote \/ UndoDisplace

(***************************************************************************)
(* The environment                                                         *)
(***************************************************************************)
Crash ==
    /\ pc # "idle" /\ crashes < MaxCrashes
    /\ crashes' = crashes + 1
    /\ pc' = "idle" /\ cause' = "startup"
    /\ todo' = {} /\ shouldRun' = FALSE /\ stale' = NoKey
    /\ UNCHANGED <<files, journal, clients, service, minted, wanted, faults>>

(* The service commands need the service lock; a router that finds no      *)
(* caller secret refuses to start.                                         *)
OperatorMayAct == pc = "idle" /\ (OperatorWhilePending \/ ~Pending)

OperatorStarts ==
    /\ OperatorMayAct
    /\ service = NoKey /\ secret # NoKey
    /\ service' = secret /\ wanted' = TRUE
    /\ UNCHANGED <<files, journal, clients, pc, cause, local, minted, budgets>>

OperatorStops ==
    /\ OperatorMayAct
    /\ wanted
    /\ service' = NoKey /\ wanted' = FALSE
    /\ UNCHANGED <<files, journal, clients, pc, cause, local, minted, budgets>>

(* Publishing an integration writes the live key into its document.        *)
Enable(c) ==
    /\ pc = "idle" /\ c \notin installed /\ secret # NoKey
    /\ installed' = installed \cup {c}
    /\ client' = [client EXCEPT ![c] = secret]
    /\ late' = IF Pending THEN late \cup {c} ELSE late \ {c}
    /\ UNCHANGED <<files, journal, service, pc, cause, local, minted, wanted,
                   budgets>>

Disable(c) ==
    /\ pc = "idle" /\ c \in installed
    /\ installed' = installed \ {c}
    /\ UNCHANGED <<files, journal, client, late, service, pc, cause, local,
                   minted, wanted, budgets>>

(* Mutant: an existing key is replaced.                                    *)
EnsureSecretAnyway ==
    /\ pc = "idle" /\ minted < MaxKey
    /\ secret' = minted + 1 /\ minted' = minted + 1
    /\ UNCHANGED <<backup, temp, displaced, journal, clients, service, pc,
                   cause, local, wanted, budgets>>

(* The installer's `secret ensure` mints a key where there is none.        *)
EnsureSecret ==
    /\ pc = "idle" /\ secret = NoKey /\ minted < MaxKey
    /\ secret' = minted + 1 /\ minted' = minted + 1
    /\ UNCHANGED <<backup, temp, displaced, journal, clients, service, pc,
                   cause, local, wanted, budgets>>

Environment ==
    \/ Crash \/ OperatorStarts \/ OperatorStops \/ EnsureSecret
    \/ \E c \in Clients : Enable(c) \/ Disable(c)

Next == Rotate \/ Rotator \/ Environment

Spec == Init /\ [][Next]_vars

(* The process that runs keeps running, and an operator who sees a failed  *)
(* rotation eventually invokes it again.                                   *)
Fairness == WF_vars(Rotator) /\ WF_vars(Rotate)

FairSpec == Spec /\ Fairness

(***************************************************************************)
(* Properties                                                              *)
(***************************************************************************)
AtRest == pc = "idle" /\ journal.phase = "none"

AllHold(cs, key) == \A c \in cs : client[c] = key

(* Once no transaction is pending there is one generation: the secret file *)
(* exists, every installed client holds it (a client published between a   *)
(* crash and its recovery excepted: the journal does not name it), and a   *)
(* running router accepts it.                                              *)
OneGenerationAtRest ==
    AtRest => /\ secret # NoKey
              /\ AllHold(installed \ late, secret)
              /\ service \in {NoKey, secret}

(* Whatever step the process dies or throws at, the generation to return   *)
(* to is on disk until the transaction is verified, and after that the new *)
(* generation is live.                                                     *)
RollbackKept ==
    /\ Pending  => RollbackKey = journal.prev /\ journal.prev # NoKey
    /\ Verified => secret = journal.cur /\ journal.cur # NoKey

(* A journal that says "verified" speaks for the clients too: recovery may *)
(* commit it without republishing anything.                                *)
VerifiedIsPublished ==
    Verified => /\ AllHold(installed \ late, journal.cur)
                /\ service \in {NoKey, journal.cur}

(* "An installed-but-stopped service stays stopped" and a running one is   *)
(* brought back: at rest the service is up exactly when the operator last  *)
(* wanted it up.                                                           *)
IntentKept == AtRest => (service # NoKey <=> wanted)

(* The two states no later recovery leaves: restoreCallerCapability finds  *)
(* both its backup and its displaced generation, or a client the journal   *)
(* names has been removed and refuses its refresh.                         *)
Wedged ==
    /\ Pending
    /\ \/ backup # NoKey /\ displaced # NoKey
       \/ ~(journal.targets \subseteq installed)

(* "A protected phase journal and rollback generation make an interrupted  *)
(* rotation recoverable": re-running the command always gets back to a     *)
(* state with no pending transaction.                                      *)
AlwaysRecovers == []<>(journal.phase = "none")

(* What does hold: it is recovered, or stuck in one of the two wedges.     *)
RecoversUnlessWedged == []<>(journal.phase = "none" \/ Wedged)

(* The externally visible generation changes only by being verified.       *)
generation ==
    CASE journal.phase = "none" -> secret
      [] Verified               -> journal.cur
      [] OTHER                  -> journal.prev

stage ==
    CASE journal.phase = "none" -> "rest"
      [] Verified               -> "committed"
      [] OTHER                  -> "rotating"

Abstract == INSTANCE CapabilityGeneration
                WITH generation <- generation, stage <- stage

AtomicRotation == Abstract!Spec
=============================================================================
