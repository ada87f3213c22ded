--------------------------- MODULE ProfileSwitch ---------------------------
(***************************************************************************)
(* Native ChatGPT account switching (src/chatgpt-profile-switch.mjs): one  *)
(* login, CODEX_HOME/auth.json, belongs to the selected account; every     *)
(* account keeps a saved copy in a home of its own. A switch is a          *)
(* transaction over several files, journaled in switch-transaction/ and in *)
(* the phase of chatgpt-profile-switch.json; an interrupted one is         *)
(* recovered by the next operation. Every operation holds the account-pool *)
(* lock from beginning to end, so one runs at a time (`op`); Codex itself, *)
(* `codex login` and the sign-in children take no lock.                    *)
(*                                                                         *)
(* An account and the ChatGPT identity it is bound to are one, so an       *)
(* identity registered under two accounts does not arise; a saved copy     *)
(* with the login of another account does.                                 *)
(* Unlinking a file that is there, and rmdir, are taken to succeed.        *)
(***************************************************************************)
EXTENDS Naturals

CONSTANTS
    Accounts,      \* account ids
    Settings       \* the beginnings and bounds of the instances to check

None == "none"

(* Whether no account has been selected yet; bounds on selections and      *)
(* removals, on processes that die while they hold the lock, on steps that *)
(* throw, on sign-ins started in an account's home, on credentials issued. *)
Setting == [fresh : BOOLEAN, requests : Nat, crashes : Nat, faults : Nat,
            logins : Nat, minted : Nat]

ASSUME ProfileAssumption ==
    /\ Accounts # {} /\ None \notin Accounts
    /\ Settings # {} /\ Settings \subseteq Setting

VARIABLES
    primary,    \* CODEX_HOME/auth.json: whose login, and which issue of it
    saved,      \* auth.json in each account's home, or NoAuth
    newer,      \* the accounts whose saved copy was written after `primary`
    catalog,    \* the account whose models the global catalog files list
    profile,    \* chatgpt-profile-switch.json
    pool,       \* chatgpt-account-pool.json: accounts, selectedAccountId
    journal,    \* switch-transaction/: which files are there, and the manifest
    op,         \* the operation that holds the lock
    lease,      \* sign-in of each account: none, running, ended with new auth
    codex,      \* the login the desktop app holds in memory, or NoAuth: closed
    live,       \* the credentials the server still accepts
    bounds,     \* the setting, with what is left of its bounds
    history     \* what has happened that a property excuses

files == <<primary, saved, newer, catalog, profile, pool, journal>>
world == <<lease, codex, live>>
vars  == <<files, world, op, bounds, history>>

Phases == {"idle", "preparing", "backed-up", "installed"}
Steps  == {"none", "recover", "restoreAuth", "restoreCatalog", "rollback",
           "complete", "manifest", "evidence", "rmdir", "ensure", "handoff",
           "apply", "publish", "preparing", "sync", "backedUp", "install",
           "catalog", "refresh", "installed", "settle", "commit", "drop",
           "unregister", "finalize", "undo", "undoState", "undoPool"}
Kinds  == {"none", "select", "remove", "finalize", "reconcile", "undo"}
Events == {"foreign", "outside", "reopened", "abandoned", "superseded",
           "mixed", "spent"}

Auth      == [who : Accounts, issue : Nat]
NoAuth    == [who |-> None, issue |-> 0]
Profile   == [desired : Accounts \cup {None}, active : Accounts,
              pending : BOOLEAN, phase : Phases]
Pool      == [accounts : SUBSET Accounts, selected : Accounts \cup {None}]
NoJournal == [dir |-> "none"]
Journal   == {NoJournal} \cup
             [dir : {"full", "evidence", "empty"}, active : Accounts,
              target : Accounts, auth : Auth, catalog : Accounts,
              prev : Profile]

(* What an operation is about (arg), the account it switches to, what it   *)
(* does once the directory is gone, the saved copy it is to install, and   *)
(* what the undoing puts back.                                             *)
NoOp      == [kind |-> "none", pc |-> "none"]
NoBefore  == [was |-> "nothing"]
Op        == [kind : Kinds \ {"none"}, pc : Steps \ {"none"},
              arg : Accounts, to : Accounts,
              then : {"recovered", "commit", "thrown"},
              snap : Auth \cup {NoAuth},
              before : {NoBefore} \cup [profile : Profile, pool : Pool]]

TypeOK ==
    /\ primary \in Auth /\ saved \in [Accounts -> Auth \cup {NoAuth}]
    /\ newer \subseteq Accounts /\ catalog \in Accounts
    /\ profile \in Profile /\ pool \in Pool /\ journal \in Journal
    /\ op \in Op \cup {NoOp}
    /\ lease \in [Accounts -> {"free", "open", "changed"}]
    /\ codex \in Auth \cup {NoAuth} /\ live \subseteq Auth
    /\ bounds \in Setting
    /\ history \subseteq Events

(* Every account has been signed in to; one of them is in use.             *)
Init ==
    /\ primary \in [who : Accounts, issue : {0}]
    /\ saved = [a \in Accounts |-> [who |-> a, issue |-> 0]]
    /\ newer = {} /\ catalog = primary.who
    /\ bounds \in Settings /\ history = {}
    /\ LET selected == IF bounds.fresh THEN None ELSE primary.who
       IN  /\ profile = [desired |-> selected, active |-> primary.who,
                         pending |-> FALSE, phase |-> "idle"]
           /\ pool = [accounts |-> Accounts, selected |-> selected]
    /\ journal = NoJournal /\ op = NoOp
    /\ lease = [a \in Accounts |-> "free"]
    /\ codex = NoAuth /\ live = {saved[a] : a \in Accounts}

Spend(b) == bounds[b] > 0 /\ bounds' = [bounds EXCEPT ![b] = @ - 1]
Running  == codex # NoAuth
Goto(s)  == op' = [op EXCEPT !.pc = s]
Aim(s, a) == op' = [op EXCEPT !.pc = s, !.to = a]
End      == op' = NoOp
Step(s)  == op.pc = s /\ UNCHANGED <<world, bounds>>

(* A selection or a removal, or its undoing, that ends here leaves the     *)
(* profile p rewritten and the policy not.                                 *)
Unfinished(p) == IF op.before # NoBefore /\ p # op.before.profile
                   THEN {"abandoned"} ELSE {}

(* An error inside the try of a selection or a removal undoes it; any      *)
(* other ends its operation, be it the undoing itself.                     *)
Note(events) == history' = history \cup events
Refused      == End /\ Note(Unfinished(profile))
Thrown       == IF op.kind \in {"select", "remove"}
                  THEN /\ op' = [op EXCEPT !.kind = "undo", !.pc = "undo"]
                       /\ UNCHANGED history
                  ELSE Refused

-----------------------------------------------------------------------------
(* Beginning an operation, and recovering the one before                   *)

Begin(kind, a) ==
    /\ op = NoOp
    /\ op' = [kind |-> kind, pc |-> "recover", arg |-> a, to |-> a,
              then |-> "recovered", snap |-> NoAuth,
              before |-> NoBefore]
    /\ UNCHANGED <<files, world, history>>

Select(a)    == a \in pool.accounts /\ Begin("select", a) /\ Spend("requests")
Remove(a)    == a \in pool.accounts /\ Begin("remove", a) /\ Spend("requests")
Finalize(a)  == lease[a] = "changed" /\ Begin("finalize", a) /\ UNCHANGED bounds
Reconcile    == Begin("reconcile", profile.active) /\ UNCHANGED bounds

Settled    == profile.phase = "idle" /\ ~profile.pending
Completed  == Settled /\ profile.active = journal.target
                      /\ profile.desired = journal.target
RolledBack == profile.pending /\ profile.active = journal.active
                              /\ profile.desired = journal.target
NotStarted == profile = journal.prev /\ primary = journal.auth

(* The directory does not say what the recorded phase needs it to say.     *)
Unrecoverable ==
    \/ journal.dir = "none" /\ profile.phase # "idle"
    \/ journal.dir \in {"evidence", "empty"} /\ profile.phase # "idle"
    \/ journal.dir = "evidence" /\ journal.auth # primary
    \/ /\ journal.dir = "full" /\ profile.phase = "idle"
       /\ ~(Completed \/ RolledBack \/ NotStarted)

Installed == /\ profile.phase = "installed"
             /\ saved[journal.target].who = journal.target
             /\ primary.who = journal.target

Resume == IF op.kind = "finalize" THEN "finalize" ELSE "ensure"

(* Mutant: a journal published right before the process died is refused.   *)
RecoverFinished ==
    /\ Step("recover")
    /\ \/ /\ Unrecoverable
             \/ /\ journal.dir = "full" /\ profile.phase = "idle"
                /\ ~(Completed \/ RolledBack)
          /\ End
       \/ ~Unrecoverable /\ journal.dir = "none" /\ Goto(Resume)
       \/ ~Unrecoverable /\ journal.dir = "evidence" /\ Goto("evidence")
       \/ ~Unrecoverable /\ journal.dir = "empty" /\ Goto("rmdir")
       \/ /\ ~Unrecoverable /\ journal.dir = "full"
          /\ Completed \/ RolledBack \/ profile.phase # "idle"
          /\ Goto(IF profile.phase = "idle" THEN "manifest"
                  ELSE IF Installed THEN "complete" ELSE "restoreAuth")
    /\ UNCHANGED <<files, history>>

(* recoverInterruptedSwitchLocked *)
Recover ==
    /\ Step("recover")
    /\ \/ Unrecoverable /\ End
       \/ ~Unrecoverable /\ journal.dir = "none" /\ Goto(Resume)
       \/ ~Unrecoverable /\ journal.dir = "evidence" /\ Goto("evidence")
       \/ ~Unrecoverable /\ journal.dir = "empty" /\ Goto("rmdir")
       \/ /\ ~Unrecoverable /\ journal.dir = "full"
          /\ Goto(IF profile.phase = "idle" THEN "manifest"
                  ELSE IF Installed THEN "complete" ELSE "restoreAuth")
    /\ UNCHANGED <<files, history>>

(* Mutant: the catalog is not restored.                                    *)
RestoreAuthAlone ==
    /\ Step("restoreAuth")
    /\ primary' = journal.auth /\ newer' = {}
    /\ Goto("rollback")
    /\ UNCHANGED <<saved, catalog, profile, pool, journal, history>>

(* restoreSwitchTransaction, and the phase that ends it.                   *)
RestoreAuth ==
    /\ Step("restoreAuth")
    /\ primary' = journal.auth /\ newer' = {}
    /\ Goto("restoreCatalog")
    /\ UNCHANGED <<saved, catalog, profile, pool, journal, history>>

RestoreCatalog ==
    /\ Step("restoreCatalog")
    /\ catalog' = journal.catalog
    /\ Goto("rollback")
    /\ UNCHANGED <<primary, saved, newer, profile, pool, journal, history>>

WriteProfile(s, value, next) ==
    /\ Step(s)
    /\ profile' = value
    /\ Goto(next)
    /\ UNCHANGED <<primary, saved, newer, catalog, pool, journal, history>>

Toward(target, active, pending, phase) ==
    [desired |-> target, active |-> active, pending |-> pending,
     phase |-> phase]

RollBack == WriteProfile("rollback",
    Toward(journal.target, journal.active, TRUE, "idle"), "manifest")
Complete == WriteProfile("complete",
    Toward(journal.target, journal.target, FALSE, "idle"), "manifest")

(* removeValidatedTransactionDirectory *)
RemoveManifest ==
    /\ Step("manifest")
    /\ journal' = [journal EXCEPT !.dir = "evidence"]
    /\ Goto("evidence")
    /\ UNCHANGED <<primary, saved, newer, catalog, profile, pool, history>>

RemoveEvidence ==
    /\ Step("evidence")
    /\ journal' = [journal EXCEPT !.dir = "empty"]
    /\ Goto("rmdir")
    /\ UNCHANGED <<primary, saved, newer, catalog, profile, pool, history>>

RemoveDirectory ==
    /\ Step("rmdir")
    /\ journal' = NoJournal
    /\ CASE op.then = "recovered" -> Goto(Resume) /\ UNCHANGED history
         [] op.then = "commit"    -> Goto("commit") /\ UNCHANGED history
         [] op.then = "thrown"    -> Thrown
    /\ UNCHANGED <<primary, saved, newer, catalog, profile, pool>>

-----------------------------------------------------------------------------
(* Deciding what to do                                                     *)

(* The saved copy of the account is a login of another account, or vice    *)
(* versa.                                                                  *)
Mistaken(a) == saved[a] # NoAuth /\ saved[a].who # a
Conflict(a) == \/ saved[a] = NoAuth \/ Mistaken(a)
               \/ \E b \in pool.accounts \ {a} : saved[b].who = a
Confused == \E a \in pool.accounts : lease[a] = "free" /\ Mistaken(a)

(* ensureProfileAccountLocked, when it does not refuse (Confused): an      *)
(* unknown login is registered, and the active account is the one whose    *)
(* login is installed.                                                     *)
Discovered ==
    LET who == primary.who
    IN  /\ pool' = [pool EXCEPT !.accounts = @ \cup {who}]
        /\ saved' = IF who \in pool.accounts THEN saved
                    ELSE [saved EXCEPT ![who] = primary]
        /\ profile' = IF profile.active = who THEN profile
                      ELSE [profile EXCEPT !.active = who, !.pending =
                              @ /\ profile.desired \notin {None, who}]
        /\ UNCHANGED <<primary, newer, catalog, journal>>

(* ensureChatGPTProfileAccounts, at the end of every status poll. *)
Discover ==
    /\ op = NoOp /\ ~Confused /\ Discovered
    /\ UNCHANGED <<world, op, bounds, history>>

(* An account with another's login can be removed unless it is in use.     *)
Discardable == /\ op.kind = "remove" /\ saved[op.arg] # NoAuth
               /\ Conflict(op.arg)
               /\ op.arg \notin {profile.active, profile.desired}

Removable(a) == /\ a \in pool'.accounts /\ lease[a] = "free"
                /\ ~(profile'.pending /\ profile'.desired = a)

Ensure ==
    /\ Step("ensure")
    /\ \/ /\ op.kind = "reconcile" /\ Settled
          /\ End /\ UNCHANGED <<files, history>>
       \/ /\ ~(op.kind = "reconcile" /\ Settled)
          /\ Confused /\ ~Discardable
          /\ Refused /\ UNCHANGED files
       \/ /\ ~(op.kind = "reconcile" /\ Settled)
          /\ UNCHANGED history
          /\ ~Confused \/ Discardable
          /\ IF Discardable THEN UNCHANGED files ELSE Discovered
          /\ LET to == IF op.kind = "reconcile" THEN profile'.desired
                       ELSE op.to
                 noted == IF op.kind \in {"select", "remove"}
                            THEN [profile |-> profile', pool |-> pool']
                            ELSE op.before
             IN  IF \/ op.kind = "remove" /\ ~Removable(op.arg)
                    \/ /\ op.kind \in {"select", "reconcile"}
                       /\ to \notin pool'.accounts
                   THEN End
                   ELSE op' = [op EXCEPT !.to = to, !.before = noted,
                                 !.pc = IF op.kind = "remove" THEN "handoff"
                                        ELSE "apply"]

(* finalizeChatGPTProfileLogin *)
FinalizeLogin ==
    /\ op.pc = "finalize" /\ UNCHANGED <<files, codex, live, bounds, history>>
    /\ \/ /\ \/ op.arg \notin pool.accounts \/ Conflict(op.arg)
             \/ profile.active = op.arg /\ Running
          /\ End /\ UNCHANGED lease
       \/ /\ op.arg \in pool.accounts /\ ~Conflict(op.arg)
          /\ profile.active # op.arg
          /\ lease' = [lease EXCEPT ![op.arg] = "free"] /\ End
       \/ /\ op.arg \in pool.accounts /\ ~Conflict(op.arg)
          /\ profile.active = op.arg /\ ~Running
          /\ Goto("ensure") /\ UNCHANGED lease

(* removeChatGPTProfileAccount: the active account is replaced first. *)
Handoff ==
    /\ Step("handoff") /\ UNCHANGED files
    /\ \/ profile.active # op.arg /\ Goto("drop") /\ UNCHANGED history
       \/ /\ profile.active = op.arg /\ ~Running /\ UNCHANGED history
          /\ \E r \in pool.accounts \ {op.arg} : Aim("apply", r)
       \/ /\ profile.active = op.arg
          /\ Running \/ pool.accounts = {op.arg}
          /\ Thrown

(* applyLocked up to the first write of a transaction *)
SigningIn(a) == lease[a] # "free" /\ ~(op.kind = "finalize" /\ op.arg = a)

(* What the properties excuse: a queued selection lost to a finished       *)
(* sign-in, and an undoing that finds Codex open.                          *)
Superseding == IF /\ op.kind = "finalize" /\ profile.pending
                  /\ profile.desired # op.to
                 THEN {"superseded"} ELSE {}
Reopening   == IF op.kind = "undo" THEN {"reopened"} ELSE {}

Apply ==
    LET from  == profile.active
        to    == op.to
        stale  == primary # saved[to]
        hurdle == \/ SigningIn(from) \/ SigningIn(to)
                  \/ to = from /\ (saved[to] = NoAuth \/ Mistaken(to))
        noop   == to = from /\ ~stale
        barred == NoAuth \in {saved[from], saved[to]} \/ Mistaken(to)
    IN  /\ Step("apply")
        /\ \/ /\ hurdle \/ (~Running /\ ~noop /\ barred)
              /\ Thrown /\ UNCHANGED profile
           \/ /\ ~hurdle /\ Running
              /\ profile' = Toward(to, from, to # from \/ stale, "idle")
              /\ history' = history \cup Superseding \cup Reopening
              /\ Goto("commit")
           \/ /\ ~hurdle /\ ~Running /\ noop
              /\ profile' = Toward(to, from, FALSE, "idle")
              /\ history' = history \cup Superseding
              /\ Goto("commit")
           \/ /\ ~hurdle /\ ~Running /\ ~noop /\ ~barred
              /\ op' = [op EXCEPT !.pc = "publish", !.snap = saved[to],
                          !.then = "commit"]
              /\ history' = history \cup Superseding
              /\ UNCHANGED profile
        /\ UNCHANGED <<primary, saved, newer, catalog, pool, journal>>

-----------------------------------------------------------------------------
(* The transaction                                                         *)

(* writeSwitchTransaction: evidence and manifest appear with one rename.   *)
Publish ==
    /\ Step("publish")
    /\ journal' = [dir |-> "full", active |-> profile.active, target |-> op.to,
                   auth |-> primary, catalog |-> catalog, prev |-> profile]
    /\ Goto("preparing")
    /\ UNCHANGED <<primary, saved, newer, catalog, profile, pool, history>>

Underway(phase) == Toward(journal.target, journal.active, TRUE, phase)
Prepare == WriteProfile("preparing", Underway("preparing"), "sync")
(* Mutant: a phase that no recovery knows.                                 *)
BackUpMisnamed == WriteProfile("backedUp", Underway("backed up"), "install")
BackUp  == WriteProfile("backedUp", Underway("backed-up"), "install")

(* Mutant: the login left is not saved.                                    *)
SyncBackwards ==
    LET a == journal.active
    IN  /\ Step("sync")
        /\ Goto("backedUp")
        /\ IF a # journal.target /\ a \in newer
             THEN primary' = saved[a] /\ newer' = {}
             ELSE UNCHANGED <<primary, newer>>
        /\ UNCHANGED <<saved, catalog, profile, pool, journal, history>>

(* syncAuthProfile: the later of the two logins of the account left wins.  *)
Sync ==
    LET a == journal.active
    IN  /\ Step("sync")
        /\ Goto("backedUp")
        /\ \/ a = journal.target /\ UNCHANGED <<primary, saved, newer>>
           \/ /\ a # journal.target /\ a \notin newer
              /\ saved' = [saved EXCEPT ![a] = primary]
              /\ UNCHANGED <<primary, newer>>
           \/ /\ a # journal.target /\ a \in newer
              /\ primary' = saved[a] /\ newer' = {}
              /\ UNCHANGED saved
        /\ Note(IF primary'.who # primary.who THEN {"mixed"} ELSE {})
        /\ UNCHANGED <<catalog, profile, pool, journal>>

Install ==
    /\ Step("install")
    /\ primary' = op.snap /\ newer' = {}
    /\ Goto("catalog")
    /\ Note(IF op.snap \in live THEN {} ELSE {"spent"})
    /\ UNCHANGED <<saved, catalog, profile, pool, journal>>

(* assertTargetSnapshotInstalled *)
TargetCurrent == saved[journal.target] = op.snap /\ primary = op.snap
Abandon       == op' = [op EXCEPT !.pc = "restoreAuth", !.then = "thrown"]

TargetCatalog ==
    /\ Step("catalog")
    /\ \/ TargetCurrent /\ catalog' = journal.target /\ Goto("refresh")
       \/ ~TargetCurrent /\ Abandon /\ UNCHANGED catalog
    /\ UNCHANGED <<primary, saved, newer, profile, pool, journal, history>>

(* refreshActiveCatalog, awaited: the catalog of the login it finds. *)
RefreshCatalog ==
    /\ Step("refresh")
    /\ catalog' = primary.who
    /\ Goto("installed")
    /\ UNCHANGED <<primary, saved, newer, profile, pool, journal, history>>

(* Mutant: the journal goes before the phase does.                         *)
RecordAndClean ==
    /\ Step("installed")
    /\ \/ /\ TargetCurrent
          /\ profile' = Toward(journal.target, journal.target, FALSE,
                               "installed")
          /\ Goto("manifest")
       \/ ~TargetCurrent /\ Abandon /\ UNCHANGED profile
    /\ UNCHANGED <<primary, saved, newer, catalog, pool, journal, history>>

Record ==
    /\ Step("installed")
    /\ \/ /\ TargetCurrent
          /\ profile' = Toward(journal.target, journal.target, FALSE,
                               "installed")
          /\ Goto("settle")
       \/ ~TargetCurrent /\ Abandon /\ UNCHANGED profile
    /\ UNCHANGED <<primary, saved, newer, catalog, pool, journal, history>>

Settle == WriteProfile("settle",
              Toward(journal.target, journal.target, FALSE, "idle"), "manifest")

-----------------------------------------------------------------------------
(* After the profile: the pool, the lease, the undoing                     *)

HandedOver == op.to = op.arg \/ (profile.active = op.to /\ ~profile.pending)

Commit ==
    /\ op.pc = "commit"
    /\ CASE op.kind = "select" ->
              /\ pool' = [pool EXCEPT !.selected = op.arg]
              /\ End /\ UNCHANGED <<lease, history>>
         [] op.kind = "remove" ->
              /\ IF HandedOver THEN Goto("drop") /\ UNCHANGED history
                               ELSE Thrown
              /\ UNCHANGED <<pool, lease>>
         [] op.kind = "finalize" ->
              /\ lease' = [lease EXCEPT ![op.arg] = "free"]
              /\ End /\ UNCHANGED <<pool, history>>
         [] op.kind = "reconcile" -> End /\ UNCHANGED <<pool, lease, history>>
         [] op.kind = "undo" -> Goto("undoState")
                                /\ UNCHANGED <<pool, lease, history>>
    /\ UNCHANGED <<primary, saved, newer, catalog, profile, journal,
                   codex, live, bounds>>

(* removeChatGPTSubscriptionAccount: the home is renamed away, then the    *)
(* pool forgets the account.                                               *)
Successor == IF profile.desired = None THEN profile.active ELSE profile.desired

Drop ==
    /\ Step("drop")
    /\ IF lease[op.arg] # "free"
          \/ (Successor # op.arg /\ Successor \notin pool.accounts)
         THEN Thrown /\ UNCHANGED <<saved, newer>>
         ELSE /\ UNCHANGED history
              /\ saved' = [saved EXCEPT ![op.arg] = NoAuth]
              /\ newer' = newer \ {op.arg}
              /\ op' = [op EXCEPT !.pc = "unregister", !.snap = saved[op.arg]]
    /\ UNCHANGED <<primary, catalog, profile, pool, journal>>

Unregister ==
    /\ Step("unregister")
    /\ pool' = [accounts |-> pool.accounts \ {op.arg},
                selected |-> IF Successor # op.arg THEN Successor
                             ELSE IF pool.selected = op.arg THEN None
                             ELSE pool.selected]
    /\ End
    /\ UNCHANGED <<primary, saved, newer, catalog, profile, journal, history>>

(* Mutant: a switch that did not move the login needs no undoing.          *)
UndoMoved ==
    /\ Step("undo") /\ UNCHANGED files
    /\ IF profile.phase # "idle" THEN Refused
       ELSE /\ UNCHANGED history
            /\ IF profile.active = op.before.profile.active
                 THEN End
                 ELSE Aim("ensure", op.before.profile.active)

(* restoreAccountTransaction *)
Undo ==
    /\ Step("undo") /\ UNCHANGED files
    /\ IF profile.phase # "idle" THEN Refused
       ELSE /\ UNCHANGED history
            /\ IF profile.active = op.before.profile.active
                 THEN Goto("undoState")
                 ELSE Aim("ensure", op.before.profile.active)

UndoProfile == WriteProfile("undoState", op.before.profile, "undoPool")

UndoPool ==
    /\ Step("undoPool")
    /\ pool' = op.before.pool
    /\ End
    /\ UNCHANGED <<primary, saved, newer, catalog, profile, journal, history>>

-----------------------------------------------------------------------------
(* Failures                                                                *)

Transaction == {"preparing", "sync", "backedUp", "install", "catalog",
                "refresh", "installed", "settle"}
Restoring   == {"restoreAuth", "restoreCatalog", "rollback"}

(* A file step throws, with nothing written. A transaction that has been   *)
(* published is rolled back; if that throws too, its phase stays on file   *)
(* for the next recovery.                                                  *)
Fails ==
    /\ Spend("faults")
    /\ \/ op.pc \in {"apply", "publish"} /\ Thrown /\ UNCHANGED files
       \/ op.pc \in Transaction /\ Abandon /\ UNCHANGED <<files, history>>
       \/ /\ op.pc \in Restoring /\ op.then = "thrown"
          /\ profile' = Underway("backed-up")
          /\ Note(Unfinished(profile'))
          /\ End
          /\ UNCHANGED <<primary, saved, newer, catalog, pool, journal>>
       \/ /\ op.pc = "complete" \/ (op.pc \in Restoring /\ op.then = "recovered")
          /\ End
          /\ UNCHANGED <<files, history>>
       \/ /\ op.pc = "commit" /\ op.kind = "select" /\ Thrown
          /\ UNCHANGED files
       \/ /\ op.pc = "commit" /\ op.kind = "finalize" /\ End
          /\ UNCHANGED <<files, history>>
       \/ /\ op.pc = "unregister" /\ Thrown
          /\ saved' = [saved EXCEPT ![op.arg] = op.snap]
          /\ newer' = newer \ {op.arg}
          /\ UNCHANGED <<primary, catalog, profile, pool, journal>>
       \/ op.pc \in {"undoState", "undoPool"} /\ Refused /\ UNCHANGED files
    /\ UNCHANGED world

(* The process dies: the lock goes stale and the files stay. *)
Crash ==
    /\ op # NoOp /\ Spend("crashes")
    /\ Note(Unfinished(profile))
    /\ op' = NoOp
    /\ UNCHANGED <<files, world>>

-----------------------------------------------------------------------------
(* Codex and the sign-ins                                                  *)

Issued(a) == [who |-> a, issue |-> bounds.minted]

(* Someone other than the router writes the primary login. *)
WritePrimary(auth) ==
    /\ primary' = auth /\ newer' = {}
    /\ history' = history
         \cup (IF auth.who # primary.who THEN {"foreign"} ELSE {})
         \cup (IF journal # NoJournal \/ op # NoOp THEN {"outside"} ELSE {})
    /\ UNCHANGED <<saved, catalog, profile, pool, journal, lease, op>>

CodexOpens ==
    /\ ~Running /\ codex' = primary
    /\ UNCHANGED <<files, lease, live, op, bounds, history>>

CodexCloses ==
    /\ Running /\ codex' = NoAuth
    /\ UNCHANGED <<files, lease, live, op, bounds, history>>

(* Codex renews the login it holds; the one it held is spent. *)
CodexRenews ==
    /\ codex \in live /\ Spend("minted")
    /\ codex' = Issued(codex.who)
    /\ live' = (live \ {codex}) \cup {codex'}
    /\ WritePrimary(codex')

(* `codex login` in CODEX_HOME *)
NativeLogin(a) ==
    /\ Spend("minted")
    /\ live' = live \cup {Issued(a)}
    /\ WritePrimary(Issued(a))
    /\ UNCHANGED codex

SignIn(a) ==
    /\ a \in pool.accounts /\ lease[a] = "free" /\ Spend("logins")
    /\ lease' = [lease EXCEPT ![a] = "open"]
    /\ UNCHANGED <<files, codex, live, op, history>>

(* The sign-in child ends, perhaps with the login of another account; a    *)
(* lease with unchanged auth is cleared by the next reader.                *)
SignedIn(a, who) ==
    /\ lease[a] = "open" /\ Spend("minted")
    /\ saved' = [saved EXCEPT ![a] = Issued(who)] /\ newer' = newer \cup {a}
    /\ live' = live \cup {Issued(who)}
    /\ lease' = [lease EXCEPT ![a] = "changed"]
    /\ UNCHANGED <<primary, catalog, profile, pool, journal, codex, op,
                   history>>

SignInGivenUp(a) ==
    /\ lease[a] = "open"
    /\ lease' = [lease EXCEPT ![a] = "free"]
    /\ UNCHANGED <<files, codex, live, op, bounds, history>>

(* discardCompletedChatGPTProfileLogin, before another try *)
LoginReset(a) ==
    /\ op = NoOp /\ lease[a] = "changed"
    /\ a \in pool.accounts /\ Conflict(a)
    /\ lease' = [lease EXCEPT ![a] = "free"]
    /\ UNCHANGED <<files, codex, live, op, bounds, history>>

(* catalog.mjs, under the catalog lock *)
PublishCatalog ==
    /\ op = NoOp /\ catalog' = primary.who
    /\ UNCHANGED <<primary, saved, newer, profile, pool, journal, world, op,
                   bounds, history>>

-----------------------------------------------------------------------------
Work == \/ Recover \/ RestoreAuth \/ RestoreCatalog \/ RollBack \/ Complete
        \/ RemoveManifest \/ RemoveEvidence \/ RemoveDirectory
        \/ Ensure \/ FinalizeLogin \/ Handoff \/ Apply
        \/ Publish \/ Prepare \/ Sync \/ BackUp \/ Install \/ TargetCatalog
        \/ RefreshCatalog \/ Record \/ Settle
        \/ Commit \/ Drop \/ Unregister \/ Undo \/ UndoProfile \/ UndoPool

Outside == \/ CodexOpens \/ CodexCloses \/ CodexRenews \/ PublishCatalog
           \/ \E a \in Accounts : \/ NativeLogin(a) \/ SignIn(a)
                                  \/ \E who \in Accounts : SignedIn(a, who)
                                  \/ SignInGivenUp(a) \/ LoginReset(a)

Next == \/ \E a \in Accounts : Select(a) \/ Remove(a) \/ Finalize(a)
        \/ Reconcile \/ Discover \/ Work \/ Fails \/ Crash \/ Outside

Spec == Init /\ [][Next]_vars

(* Operations run to their end; the account view polls, finalizing what    *)
(* has been signed in to and reconciling; a sign-in child ends.            *)
Fairness == /\ WF_vars(Work) /\ SF_vars(Reconcile)
            /\ \A a \in Accounts :
                  /\ SF_vars(Finalize(a))
                  /\ WF_vars(SignedIn(a, a) \/ SignInGivenUp(a))
FairSpec == Spec /\ Fairness
-----------------------------------------------------------------------------
(* Properties                                                              *)

(* As long as the profile file says that a switch is under way, the        *)
(* journal directory is complete: recovery never finds a phase without the *)
(* evidence to roll back from ("has no durable transaction for phase").    *)
OldLoginKept == profile.phase # "idle" => journal.dir = "full"

AtRest == op = NoOp /\ profile.phase = "idle"

(* Between operations the account the profile file calls active, the login *)
(* in CODEX_HOME and the published model catalog are of one account,       *)
(* whatever crashed or failed before. Excused: a `codex login` with        *)
(* another account, until the next operation adopts it, and an undoing     *)
(* that finds Codex open again and restores the file but not the login.    *)
AgreeAtRest ==
    AtRest /\ history \cap {"foreign", "reopened"} = {} =>
        profile.active = primary.who /\ catalog = primary.who

(* "A desktop-open selection is intentionally represented as               *)
(* policy.selectedAccountId === profile.desired with profile.pending":     *)
(* two files, written one after the other, name one account between        *)
(* operations, whatever crashed or failed before the first of them or      *)
(* after the second. Excused, besides the above: an operation that died,   *)
(* or whose undoing failed, with the profile rewritten and the policy not, *)
(* and a queued selection dropped because a sign-in to the active account  *)
(* is finalized first.                                                     *)
PolicyFollowsProfile ==
    AtRest /\ history \subseteq {"outside", "mixed", "spent"} =>
        pool.selected \in {None, Successor}

OnDisk(a) == {primary, saved[a]}
             \cup (IF journal.dir \in {"full", "evidence"} THEN {journal.auth}
                   ELSE {})
Usable(a) == \E auth \in OnDisk(a) : auth.who = a /\ auth \in live

(* No step of an operation destroys the last login of an account that the  *)
(* server still accepts: a login that Codex has renewed is saved before    *)
(* another is installed over it, and the journal goes only when nothing in *)
(* it is needed. Excused: the account being removed, an account whose home *)
(* holds the login of another, and the refresh of the active account       *)
(* itself, which installs the saved copy over the login without saving     *)
(* that first. Excused for good, since later steps trust what is there:    *)
(* someone else writes the login during an operation, a sync brings the    *)
(* login of another account from a home into CODEX_HOME, a transaction     *)
(* installs a copy that the server has ceased to accept.                   *)
CredentialsKept ==
    [][op # NoOp /\ live' = live
        /\ history' \cap {"outside", "mixed", "spent"} = {} =>
        \A a \in pool.accounts :
            \/ Usable(a) => Usable(a)'
            \/ Mistaken(a)
            \/ op.kind = "remove" /\ op.arg = a
            \/ /\ journal # NoJournal
               /\ journal.active = a /\ journal.target = a]_vars

(* States that only a person can resolve: evidence that contradicts the    *)
(* phase, an account home with the wrong login or none.                    *)
Stuck == \/ Unrecoverable \/ Confused
         \/ \E a \in Accounts : lease[a] = "changed" /\ Conflict(a)
         \/ /\ profile.pending
            /\ NoAuth \in {saved[profile.active], saved[profile.desired]}

(* Once Codex stays closed, the status poll finishes or rolls back every   *)
(* switch, queued or interrupted, and clears its journal, unless one of    *)
(* the states above has come about.                                        *)
RecoversUnlessStuck ==
    <>[](~Running) => []<>(Settled /\ journal = NoJournal) \/ <>[]Stuck
=============================================================================
