------------------------ MODULE ProfileSwitchProofs ------------------------
(***************************************************************************)
(* TLAPS proofs about ProfileSwitch.tla: between operations the profile    *)
(* file, the login in CODEX_HOME, the published catalog and the account    *)
(* pool agree, whatever crashed or failed before, and no step of an        *)
(* operation destroys the last login of an account that the server still   *)
(* accepts.                                                                *)
(*                                                                         *)
(* None of the five properties is inductive: each holds between operations *)
(* because of what is true at every step within one. The invariant says    *)
(* what a step may rely on, in parts:                                      *)
(*   Where     the journal and the phase that the step belongs to          *)
(*   Course    what kind of operation gets to the step, and by which way   *)
(*   Carried   the snapshot and the journal are of the account switched to *)
(*   Meant     the profile points to the account the operation is about    *)
(*   Fresh     the next login issued is one the server has not accepted    *)
(*   Agrees    whose the login and the catalog are at the step (unless a   *)
(*             foreign login was written or an undoing cut short)          *)
(*   Faithful  what the two policy files say at the step (unless           *)
(*             something the property excuses has happened)                *)
(*   Kept, Evidence   which of the login, the saved copies and the journal *)
(*             still hold a good login (unless someone else wrote one)     *)
(***************************************************************************)
EXTENDS ProfileSwitch, TLAPS

(* Steps that take the journal down, steps at which there is none, and the *)
(* steps of a recovery of an operation before.                             *)
Cleaning == {"manifest", "evidence", "rmdir"}
Unjournaled == {"ensure", "finalize", "handoff", "apply", "publish",
             "commit", "drop", "unregister", "undo", "undoState", "undoPool"}
Recovering == /\ \/ op.pc \in {"recover", "complete"}
                 \/ op.pc \in Restoring \cup Cleaning
              /\ op.then = "recovered"

(* Where: an operation is at a step only with the journal and the phase    *)
(* that the step is for.                                                   *)
Where ==
    /\ OldLoginKept
    /\ op.pc \in Restoring \cup Transaction \cup {"complete", "manifest"}
         => journal.dir = "full"
    /\ op.pc = "evidence" => journal.dir = "evidence"
    /\ op.pc = "rmdir" => journal.dir = "empty"
    /\ op.pc \in Unjournaled => journal.dir = "none"
    /\ op.pc \in Unjournaled \cup Cleaning \cup {"preparing"} =>
          profile.phase = "idle"

(* Course: the ways an operation can have taken to its step.               *)
Course ==
    /\ op.pc \in Restoring => op.then # "commit"
    /\ op.pc \in Restoring /\ op.then = "recovered" => profile.phase # "idle"
    /\ op.pc \in {"recover", "complete"} => op.then = "recovered"
    /\ op.pc \in Transaction \cup {"publish"} => op.then = "commit"
    /\ op.pc = "finalize" => op.kind = "finalize"
    /\ op.pc \in {"handoff", "drop", "unregister"} => op.kind = "remove"
    /\ op.pc \in {"undo", "undoState", "undoPool"} => op.kind = "undo"
    /\ op.kind = "undo" => ~Recovering /\ op.before # NoBefore
    /\ op.kind \in {"select", "remove"} =>
          Recovering \/ op.pc = "ensure" \/ op.before # NoBefore
    /\ op # NoOp /\ op.before # NoBefore => op.before.profile.phase = "idle"

(* Carried: a copy noted as newer is there, and what a transaction takes   *)
(* along and journals is of the account it switches to.                    *)
Carried ==
    /\ \A a \in newer : saved[a] # NoAuth
    /\ op.pc \in Transaction \cup {"publish"} => op.snap.who = op.to
    /\ op.pc \in Transaction => journal.target = op.to

(* Meant: the account the operation is about, the one it switches to and   *)
(* the one the profile desires are related as the step needs it.           *)
Meant ==
    /\ op.kind = "undo" /\ op.pc \notin {"undo", "undoState", "undoPool"} =>
          op.to = op.before.profile.active
    /\ op.pc = "commit" \/ (op.pc \in Cleaning /\ op.then = "commit") =>
          profile.desired = op.to
    /\ profile.phase # "idle" => profile.desired = journal.target
    /\ op.kind \in {"select", "finalize"} => op.to = op.arg
    /\ op.kind = "remove" =>
          \/ Recovering
          \/ op.pc \in {"ensure", "handoff", "drop", "unregister"}
          \/ op.to # op.arg
    /\ op.pc \in Transaction \ {"preparing", "settle"} =>
          profile.phase \in {"preparing", "backed-up"}
    /\ op.pc \in {"settle", "complete"} => profile.phase = "installed"

(* No login of another account was written into CODEX_HOME, and no undoing *)
(* found Codex open.                                                       *)
Undisturbed == history \cap {"foreign", "reopened"} = {}

(* Agrees: whose the login in CODEX_HOME and the catalog are.              *)
Agrees ==
    /\ profile.phase = "idle" =>
          profile.active = primary.who /\ catalog = primary.who
    /\ op.pc \in Transaction \cup Restoring \cup {"complete"}
          \/ profile.phase # "idle" =>
          /\ journal.auth.who = journal.active
          /\ journal.catalog = journal.active
    /\ profile.phase = "installed" =>
          primary.who \in {journal.active, journal.target}
    /\ profile.phase = "installed" /\ primary.who = journal.target =>
          catalog = journal.target
    /\ op.pc \in {"restoreCatalog", "rollback"} =>
          primary.who = journal.active
    /\ op.pc = "rollback" => catalog = journal.active
    /\ op.pc = "complete" =>
          primary.who = journal.target /\ catalog = journal.target
    /\ op.pc \in {"catalog", "refresh", "installed", "settle"} =>
          primary.who = journal.target
    /\ op.pc \in {"installed", "settle"} => catalog = journal.target
    /\ op.kind = "undo" /\ (\/ op.pc = "commit"
                            \/ op.pc \in Cleaning /\ op.then = "commit") =>
          profile.active = op.to
    /\ op.pc \in Restoring \cup {"preparing"} /\ profile.phase = "idle" =>
          profile.active = journal.active
    /\ op.pc = "undoState" => profile.active = op.before.profile.active

(* The account a profile is on its way to, and that it has got there when  *)
(* nothing is pending.                                                     *)
Heir(p)     == IF p.desired = None THEN p.active ELSE p.desired
Arrived(p)  == p.pending \/ p.desired \in {None, p.active}
Follows(p, q) == Arrived(p) /\ q.selected \in {None, Heir(p)}

(* The operation is in the middle of rewriting both files.                 *)
Rewriting == \/ op.kind = "undo"
             \/ /\ op.kind \in {"select", "remove"}
                /\ ~Recovering /\ op.pc # "ensure"

(* Nothing has set the policy apart from the profile.                      *)
InStep == history \subseteq {"outside", "mixed", "spent"}

(* Faithful: what the account pool and the profile say of each other.      *)
Faithful ==
    /\ profile.phase = "idle" => Arrived(profile)
    /\ op.pc # "none" /\ op.before # NoBefore =>
          /\ Follows(op.before.profile, op.before.pool)
          /\ pool.selected = op.before.pool.selected
    /\ ~Rewriting /\ profile.phase = "idle" =>
          pool.selected \in {None, Heir(profile)}
    /\ ~Rewriting /\ (\/ profile.phase # "idle" \/ op.pc = "complete"
                      \/ op.pc \in Transaction \cup Restoring)
          => pool.selected \in {None, journal.target}
    /\ op.kind \in {"finalize", "reconcile"} /\ op.pc = "publish" =>
          pool.selected \in {None, op.to}
    /\ op.kind = "reconcile" /\ op.pc = "apply" => op.to = profile.desired
    /\ op.kind = "finalize" /\ op.pc \in {"ensure", "apply"} =>
          op.to = profile.active
    /\ op.pc = "undoPool" => profile = op.before.profile
    /\ op.pc = "handoff" => pool.selected \in {None, Heir(profile)}
    /\ op.pc \in {"drop", "unregister"} =>
          pool.selected \in {None, Heir(profile)} \/ Heir(profile) # op.arg

(* No one else wrote a login during an operation, no login of another      *)
(* account was synced, no spent login was installed.                       *)
Untouched == history \cap {"outside", "mixed", "spent"} = {}

(* Fresh: the server has not accepted a login with the next number.        *)
Fresh == \A auth \in live : auth.issue = 0 \/ auth.issue > bounds.minted

(* The saved copy is good, or a login of another account (excused).        *)
Fit(a) == saved[a] \in live \/ Mistaken(a)

(* Kept: the logins that a step overwrites are elsewhere too.              *)
Kept ==
    /\ primary \in live
    /\ \A a \in newer : saved[a] \in live
    /\ op.pc \in {"apply", "publish"} => primary.who = profile.active
    /\ op.pc = "handoff" =>
          primary.who = profile.active \/ profile.active # op.arg
    /\ op.pc \in {"publish", "preparing", "sync", "backedUp", "install"} =>
          saved[op.to] = op.snap \/ Fit(op.to)
    /\ op.pc \in {"preparing", "sync", "restoreCatalog", "rollback"} =>
          primary = journal.auth
    /\ op.pc \in Restoring /\ profile.phase = "idle" => primary = journal.auth
    /\ op.pc \in {"backedUp", "install"} => primary.who = journal.active
    /\ op.pc \in {"backedUp", "install", "catalog", "refresh", "installed",
                  "settle"} =>
          journal.active = journal.target \/ Fit(journal.active)

(* Evidence: a journal holds a good login of the account left, until what  *)
(* is installed or saved makes it unnecessary.                             *)
Evidence ==
    journal.dir \in {"full", "evidence"} =>
       /\ journal.auth \in live /\ journal.auth.who = journal.active
       /\ primary.who \in {journal.active, journal.target}
       /\ primary.who # journal.active => Fit(journal.target)
       /\ profile.phase = "idle" =>
             primary.who = journal.active \/ Fit(journal.active)
       /\ profile.phase = "installed" =>
             journal.active = journal.target \/ Fit(journal.active)

(* What CredentialsKept excuses.                                           *)
Spared(a) == \/ Mistaken(a)
             \/ op.kind = "remove" /\ op.arg = a
             \/ /\ journal # NoJournal
                /\ journal.active = a /\ journal.target = a

-----------------------------------------------------------------------------
(* At a step of an operation there is an operation.                        *)
LEMMA Working == TypeOK /\ op.pc # "none" => op \in Op
  BY DEF TypeOK, NoOp

(* Registering the login that is installed keeps the types and the phase.  *)
LEMMA DiscoveredType ==
  ASSUME TypeOK, Discovered
  PROVE  /\ primary' \in Auth /\ saved' \in [Accounts -> Auth \cup {NoAuth}]
         /\ newer' \subseteq Accounts /\ catalog' \in Accounts
         /\ profile' \in Profile /\ pool' \in Pool /\ journal' \in Journal
         /\ journal' = journal /\ profile'.phase = profile.phase
<1>1. primary.who \in Accounts
  BY DEF TypeOK, Auth
<1>2. pool' = [pool EXCEPT !.accounts = @ \cup {primary.who}]
  BY DEF Discovered
<1>3. pool' \in Pool
  BY <1>1, <1>2 DEF TypeOK, Pool
<1>4. profile' \in Profile /\ profile'.phase = profile.phase
  <2>1. CASE profile.active = primary.who
    BY <2>1 DEF TypeOK, Discovered
  <2>2. CASE profile.active # primary.who
    <3> DEFINE on == /\ profile.pending
                     /\ profile.desired \notin {None, primary.who}
    <3>1. profile' = [profile EXCEPT !.active = primary.who, !.pending = on]
      BY <2>2 DEF Discovered
    <3>2. on \in BOOLEAN
      OBVIOUS
    <3> HIDE DEF on
    <3> QED
      BY <1>1, <3>1, <3>2 DEF TypeOK, Profile
  <2> QED
    BY <2>1, <2>2
<1>5. saved' \in [Accounts -> Auth \cup {NoAuth}]
  <2>1. CASE primary.who \in pool.accounts
    BY <2>1 DEF TypeOK, Discovered
  <2>2. CASE primary.who \notin pool.accounts
    BY <1>1, <2>2 DEF TypeOK, Discovered
  <2> QED
    BY <2>1, <2>2
<1> QED
  BY <1>3, <1>4, <1>5 DEF TypeOK, Discovered

-----------------------------------------------------------------------------
(* What the steps with several outcomes do to the operation                *)

Becomes(kind, pc, to, then, snap, before) ==
    /\ op' \in Op /\ op'.arg = op.arg
    /\ op'.kind = kind /\ op'.pc = pc /\ op'.to = to
    /\ op'.then = then /\ op'.snap = snap /\ op'.before = before

Goes(s)  == Becomes(op.kind, s, op.to, op.then, op.snap, op.before)
Throws   == Becomes("undo", "undo", op.to, op.then, op.snap, op.before)
Abandons == Becomes(op.kind, "restoreAuth", op.to, "thrown", op.snap,
                    op.before)
Heads(s, a) == Becomes(op.kind, s, a, op.then, op.snap, op.before)

(* An error undoes a selection or a removal and ends any other operation.  *)
Failing ==
    \/ /\ op.kind \in {"select", "remove"}
       /\ Throws /\ UNCHANGED history
    \/ /\ op.kind \notin {"select", "remove"} /\ op' = NoOp
       /\ history' = history \cup Unfinished(profile)

(* What Thrown does, field by field.                                       *)
LEMMA ThrownIs ==
  ASSUME op \in Op, Thrown
  PROVE  Failing
<1>1. CASE op.kind \in {"select", "remove"}
  <2>1. /\ op' = [op EXCEPT !.kind = "undo", !.pc = "undo"]
        /\ UNCHANGED history
    BY <1>1 DEF Thrown
  <2>2. Throws
    BY <2>1 DEF Throws, Becomes, Op, Kinds, Steps
  <2> QED
    BY <1>1, <2>1, <2>2 DEF Failing
<1>2. CASE op.kind \notin {"select", "remove"}
  BY <1>2 DEF Failing, Thrown, Refused, End, Note
<1> QED
  BY <1>1, <1>2

(* What Goto does, field by field.                                         *)
LEMMA GotoIs ==
  ASSUME op \in Op, NEW s \in Steps \ {"none"}, Goto(s)
  PROVE  Goes(s)
BY DEF Goto, Goes, Becomes, Op

(* What Aim does, field by field.                                          *)
LEMMA HeadsIs ==
  ASSUME op \in Op, NEW s \in Steps \ {"none"}, NEW a \in Accounts,
         Aim(s, a)
  PROVE  Heads(s, a)
BY DEF Aim, Heads, Becomes, Op

(* What Abandon does, field by field.                                      *)
LEMMA AbandonIs ==
  ASSUME op \in Op, Abandon
  PROVE  Abandons
BY DEF Abandon, Abandons, Becomes, Op, Steps

(* The three outcomes of removing the journal directory.                   *)
LEMMA RemoveDirectoryIs ==
  ASSUME TypeOK, RemoveDirectory
  PROVE  /\ op \in Op /\ op.pc = "rmdir"
         /\ journal' = NoJournal
         /\ UNCHANGED <<primary, saved, newer, catalog, profile, pool, world,
                        bounds>>
         /\ \/ op.then = "recovered" /\ Goes(Resume) /\ UNCHANGED history
            \/ op.then = "commit" /\ Goes("commit") /\ UNCHANGED history
            \/ op.then = "thrown" /\ Failing
<1>1. op \in Op /\ op.pc = "rmdir"
  BY Working DEF RemoveDirectory, Step
<1>2. op.then \in {"recovered", "commit", "thrown"}
  BY <1>1 DEF Op
<1>3. CASE op.then = "recovered"
  <2>1. Goto(Resume) /\ UNCHANGED history
    BY <1>3 DEF RemoveDirectory
  <2>2. Resume \in Steps \ {"none"}
    BY DEF Resume, Steps
  <2> QED
    BY <1>1, <1>3, <2>1, <2>2, GotoIs DEF RemoveDirectory, Step
<1>4. CASE op.then = "commit"
  BY <1>1, <1>4, GotoIs DEF RemoveDirectory, Step, Steps
<1>5. CASE op.then = "thrown"
  BY <1>1, <1>5, ThrownIs DEF RemoveDirectory, Step
<1> QED
  BY <1>2, <1>3, <1>4, <1>5

(* The outcomes of handing the active account over.                        *)
LEMMA HandoffIs ==
  ASSUME TypeOK, Handoff
  PROVE  /\ op \in Op /\ op.pc = "handoff"
         /\ UNCHANGED <<files, world, bounds>>
         /\ \/ profile.active # op.arg /\ Goes("drop") /\ UNCHANGED history
            \/ /\ profile.active = op.arg /\ UNCHANGED history
               /\ \E r \in pool.accounts \ {op.arg} : Heads("apply", r)
            \/ profile.active = op.arg /\ Failing
<1>1. op \in Op /\ op.pc = "handoff" /\ UNCHANGED <<files, world, bounds>>
  <2>1. Step("handoff") /\ UNCHANGED files
    BY DEF Handoff
  <2> QED
    BY <2>1, Working DEF Step
<1>2. ASSUME NEW r \in pool.accounts \ {op.arg},
             Aim("apply", r)
      PROVE  Heads("apply", r)
  BY <1>1, <1>2, HeadsIs DEF TypeOK, Pool, Steps
<1>3. ASSUME Goto("drop") PROVE Goes("drop")
  BY <1>1, <1>3, GotoIs DEF Steps
<1>4. ASSUME Thrown PROVE Failing
  BY <1>1, <1>4, ThrownIs
<1>5. \/ profile.active # op.arg /\ Goto("drop") /\ UNCHANGED history
      \/ /\ profile.active = op.arg /\ UNCHANGED history
         /\ \E r \in pool.accounts \ {op.arg} : Aim("apply", r)
      \/ profile.active = op.arg /\ Thrown
  BY DEF Handoff
<1> QED
  BY <1>1, <1>2, <1>3, <1>4, <1>5

(* What the operation takes along: an account to switch to, and what an    *)
(* undoing would put back.                                                 *)
Aimed == IF op.kind = "reconcile" THEN profile'.desired ELSE op.to
Noted == IF op.kind \in {"select", "remove"}
           THEN [profile |-> profile', pool |-> pool'] ELSE op.before
After == IF op.kind = "remove" THEN "handoff" ELSE "apply"

Decides(s, a, b) == op' = [op EXCEPT !.to = a, !.before = b, !.pc = s]

(* What Ensure does to the operation, field by field.                      *)
LEMMA DecidesIs ==
  ASSUME op \in Op, NEW a \in Accounts, NEW s \in Steps \ {"none"},
         NEW b \in {NoBefore} \cup [profile : Profile, pool : Pool],
         Decides(s, a, b)
  PROVE  Becomes(op.kind, s, a, op.then, op.snap, b)
BY DEF Decides, Becomes, Op

(* The outcomes of ensureProfileAccountLocked: refused, ended, or on to the*)
(* switch.                                                                 *)
LEMMA EnsureIs ==
  ASSUME TypeOK, Ensure
  PROVE  /\ op \in Op /\ op.pc = "ensure" /\ UNCHANGED <<world, bounds>>
         /\ \/ /\ op' = NoOp /\ UNCHANGED files
               /\ \/ history' = history \cup Unfinished(profile)
                  \/ /\ op.kind \in {"select", "remove", "reconcile"}
                     /\ UNCHANGED history
            \/ /\ op' = NoOp /\ Discovered /\ UNCHANGED history
               /\ op.kind \in {"select", "remove", "reconcile"}
            \/ /\ UNCHANGED history
               /\ Becomes(op.kind, After, Aimed, op.then, op.snap, Noted)
               /\ op.kind = "reconcile" => Aimed \in Accounts
               /\ \/ Discovered
                  \/ /\ op.kind = "remove" /\ UNCHANGED files
                     /\ op.arg # profile.active
<1>1. op \in Op /\ op.pc = "ensure" /\ UNCHANGED <<world, bounds>>
  <2>1. Step("ensure")
    BY DEF Ensure
  <2> QED
    BY <2>1, Working DEF Step
<1>2. CASE /\ op.kind = "reconcile" /\ Settled
           /\ End /\ UNCHANGED <<files, history>>
  BY <1>1, <1>2 DEF End
<1>3. CASE Refused /\ UNCHANGED files
  BY <1>1, <1>3 DEF Refused, End, Note
<1>4. CASE /\ UNCHANGED history /\ End
           /\ op.kind \in {"select", "remove", "reconcile"}
           /\ Discovered \/ UNCHANGED files
  BY <1>1, <1>4 DEF End
<1>5. CASE /\ UNCHANGED history
           /\ op' = [op EXCEPT !.to = Aimed, !.before = Noted, !.pc = After]
           /\ op.kind = "reconcile" => Aimed \in pool'.accounts
           /\ \/ Discovered
              \/ Discardable /\ UNCHANGED files
  <2>1. profile' \in Profile /\ pool' \in Pool
    <3>1. CASE Discovered
      BY <3>1, DiscoveredType
    <3>2. CASE UNCHANGED files
      BY <3>2 DEF files, TypeOK
    <3> QED
      BY <1>5, <3>1, <3>2
  <2>2. /\ Aimed \in Accounts /\ After \in Steps \ {"none"}
        /\ Noted \in {NoBefore} \cup [profile : Profile, pool : Pool]
    BY <1>1, <1>5, <2>1 DEF Aimed, After, Noted, Op, Pool, Steps
  <2>3. Becomes(op.kind, After, Aimed, op.then, op.snap, Noted)
    <3>1. Decides(After, Aimed, Noted)
      BY <1>5 DEF Decides
    <3> QED
      BY <1>1, <2>2, <3>1, DecidesIs
  <2>4. Discardable => op.kind = "remove" /\ op.arg # profile.active
    BY DEF Discardable
  <2> QED
    BY <1>1, <1>5, <2>2, <2>3, <2>4
<1> QED
  <2>1. \/ UNCHANGED history /\ Settled /\ op.kind = "reconcile"
              /\ End /\ UNCHANGED files
        \/ Refused /\ UNCHANGED files
        \/ /\ UNCHANGED history /\ End
           /\ op.kind \in {"select", "remove", "reconcile"}
           /\ Discovered \/ UNCHANGED files
        \/ /\ UNCHANGED history
           /\ op' = [op EXCEPT !.to = Aimed, !.before = Noted, !.pc = After]
           /\ op.kind = "reconcile" => Aimed \in pool'.accounts
           /\ \/ Discovered
              \/ Discardable /\ UNCHANGED files
    BY DEF Ensure, Aimed, Noted, After
  <2> QED
    BY <2>1, <1>2, <1>3, <1>4, <1>5

(* The outcomes of applyLocked before its transaction: an error, a queued  *)
(* selection, nothing to do, or a transaction.                             *)
LEMMA ApplyIs ==
  ASSUME TypeOK, Apply
  PROVE  /\ op \in Op /\ op.pc = "apply"
         /\ UNCHANGED <<primary, saved, newer, catalog, pool, journal, world,
                        bounds>>
         /\ \/ Failing /\ UNCHANGED profile
            \/ /\ Running /\ Goes("commit")
               /\ profile' = Toward(op.to, profile.active,
                    op.to # profile.active \/ primary # saved[op.to], "idle")
               /\ history' = history \cup Superseding \cup Reopening
            \/ /\ op.to = profile.active /\ Goes("commit")
               /\ profile' = Toward(op.to, profile.active, FALSE, "idle")
               /\ history' = history \cup Superseding
            \/ /\ saved[op.to] # NoAuth /\ ~Mistaken(op.to)
               /\ history' = history \cup Superseding
               /\ Becomes(op.kind, "publish", op.to, "commit", saved[op.to],
                          op.before)
               /\ UNCHANGED profile
<1>1. /\ Step("apply")
      /\ UNCHANGED <<primary, saved, newer, catalog, pool, journal>>
  BY DEF Apply
<1>2. op \in Op /\ op.pc = "apply"
  BY <1>1, Working DEF Step
<1>3. ASSUME op' = [op EXCEPT !.pc = "publish", !.snap = saved[op.to],
                      !.then = "commit"]
      PROVE  Becomes(op.kind, "publish", op.to, "commit", saved[op.to],
                     op.before)
  <2>1. saved[op.to] \in Auth \cup {NoAuth}
    BY <1>2 DEF TypeOK, Op
  <2> QED
    BY <1>2, <1>3, <2>1 DEF Becomes, Op, Steps
<1>4. ASSUME Thrown PROVE Failing
  BY <1>2, <1>4, ThrownIs
<1>5. ASSUME Goto("commit") PROVE Goes("commit")
  BY <1>2, <1>5, GotoIs DEF Steps
<1>6. \/ Thrown /\ UNCHANGED profile
      \/ /\ Running /\ Goto("commit")
         /\ profile' = Toward(op.to, profile.active,
              op.to # profile.active \/ primary # saved[op.to], "idle")
         /\ history' = history \cup Superseding \cup Reopening
      \/ /\ op.to = profile.active /\ Goto("commit")
         /\ profile' = Toward(op.to, profile.active, FALSE, "idle")
         /\ history' = history \cup Superseding
      \/ /\ saved[op.to] # NoAuth /\ ~Mistaken(op.to)
         /\ history' = history \cup Superseding
         /\ op' = [op EXCEPT !.pc = "publish", !.snap = saved[op.to],
                      !.then = "commit"]
         /\ UNCHANGED profile
  <2> HIDE DEF Goto, Thrown, Toward, Running, SigningIn, Mistaken
  <2> QED
    BY DEF Apply
<1> QED
  BY <1>1, <1>2, <1>3, <1>4, <1>5, <1>6 DEF Step

(* The outcomes of publishing the catalog of the new login.                *)
LEMMA TargetCatalogIs ==
  ASSUME TypeOK, TargetCatalog
  PROVE  /\ op \in Op /\ op.pc = "catalog"
         /\ UNCHANGED <<primary, saved, newer, profile, pool, journal,
                        history, world, bounds>>
         /\ \/ TargetCurrent /\ catalog' = journal.target /\ Goes("refresh")
            \/ Abandons /\ UNCHANGED catalog
<1>1. op \in Op /\ op.pc = "catalog"
  BY Working DEF TargetCatalog, Step
<1>2. Goto("refresh") => Goes("refresh")
  BY <1>1, GotoIs DEF Steps
<1>3. Abandon => Abandons
  BY <1>1, AbandonIs
<1> QED
  BY <1>1, <1>2, <1>3 DEF TargetCatalog, Step

(* The outcomes of recording the phase installed.                          *)
LEMMA RecordIs ==
  ASSUME TypeOK, Record
  PROVE  /\ op \in Op /\ op.pc = "installed"
         /\ UNCHANGED <<primary, saved, newer, catalog, pool, journal,
                        history, world, bounds>>
         /\ \/ /\ TargetCurrent /\ Goes("settle")
               /\ profile' = Toward(journal.target, journal.target, FALSE,
                                    "installed")
            \/ Abandons /\ UNCHANGED profile
<1>1. op \in Op /\ op.pc = "installed"
  BY Working DEF Record, Step
<1>2. Goto("settle") => Goes("settle")
  BY <1>1, GotoIs DEF Steps
<1>3. Abandon => Abandons
  BY <1>1, AbandonIs
<1> QED
  BY <1>1, <1>2, <1>3 DEF Record, Step

(* What follows the switch, for each kind of operation.                    *)
LEMMA CommitIs ==
  ASSUME TypeOK, Commit
  PROVE  /\ op \in Op /\ op.pc = "commit"
         /\ UNCHANGED <<primary, saved, newer, catalog, profile, journal,
                        codex, live, bounds>>
         /\ \/ /\ op.kind = "select" /\ op' = NoOp
               /\ pool' = [pool EXCEPT !.selected = op.arg]
               /\ UNCHANGED <<lease, history>>
            \/ /\ op.kind = "remove" /\ HandedOver /\ Goes("drop")
               /\ UNCHANGED <<pool, lease, history>>
            \/ op.kind = "remove" /\ Failing /\ UNCHANGED <<pool, lease>>
            \/ /\ op.kind = "finalize" /\ op' = NoOp
               /\ lease' = [lease EXCEPT ![op.arg] = "free"]
               /\ UNCHANGED <<pool, history>>
            \/ /\ op.kind = "reconcile" /\ op' = NoOp
               /\ UNCHANGED <<pool, lease, history>>
            \/ /\ op.kind = "undo" /\ Goes("undoState")
               /\ UNCHANGED <<pool, lease, history>>
<1>1. op \in Op /\ op.pc = "commit"
  BY Working DEF Commit
<1>2. op.kind \in {"select", "remove", "finalize", "reconcile", "undo"}
  BY <1>1 DEF Op, Kinds
<1>3. Goto("drop") => Goes("drop")
  BY <1>1, GotoIs DEF Steps
<1>4. Goto("undoState") => Goes("undoState")
  BY <1>1, GotoIs DEF Steps
<1>5. Thrown => Failing
  BY <1>1, ThrownIs
<1> QED
  BY <1>1, <1>2, <1>3, <1>4, <1>5 DEF Commit, End

(* The outcomes of dropping an account's home.                             *)
LEMMA DropIs ==
  ASSUME TypeOK, Drop
  PROVE  /\ op \in Op /\ op.pc = "drop"
         /\ UNCHANGED <<primary, catalog, profile, pool, journal, world,
                        bounds>>
         /\ \/ Failing /\ UNCHANGED <<saved, newer>>
            \/ /\ UNCHANGED history
               /\ saved' = [saved EXCEPT ![op.arg] = NoAuth]
               /\ newer' = newer \ {op.arg}
               /\ Becomes(op.kind, "unregister", op.to, op.then,
                          saved[op.arg], op.before)
<1>1. op \in Op /\ op.pc = "drop"
  BY Working DEF Drop, Step
<1>2. ASSUME op' = [op EXCEPT !.pc = "unregister", !.snap = saved[op.arg]]
      PROVE  Becomes(op.kind, "unregister", op.to, op.then, saved[op.arg],
                     op.before)
  <2>1. saved[op.arg] \in Auth \cup {NoAuth}
    BY <1>1 DEF TypeOK, Op
  <2> QED
    BY <1>1, <1>2, <2>1 DEF Becomes, Op, Steps
<1>3. Thrown => Failing
  BY <1>1, ThrownIs
<1>4. \/ Thrown /\ UNCHANGED <<saved, newer>>
      \/ /\ UNCHANGED history
         /\ saved' = [saved EXCEPT ![op.arg] = NoAuth]
         /\ newer' = newer \ {op.arg}
         /\ op' = [op EXCEPT !.pc = "unregister", !.snap = saved[op.arg]]
  BY DEF Drop
<1> QED
  BY <1>1, <1>2, <1>3, <1>4 DEF Drop, Step

(* Undoing puts the files back, or switches back first.                    *)
LEMMA UndoIs ==
  ASSUME TypeOK, Where, Course, Undo
  PROVE  /\ op \in Op /\ op.pc = "undo" /\ op.kind = "undo"
         /\ UNCHANGED <<files, world, bounds, history>>
         /\ \/ /\ profile.active = op.before.profile.active
               /\ Goes("undoState")
            \/ Heads("ensure", op.before.profile.active)
<1>1. /\ op \in Op /\ op.pc = "undo" /\ op.kind = "undo"
      /\ op.before # NoBefore /\ profile.phase = "idle"
  BY Working DEF Undo, Step, Where, Course, Unjournaled
<1>2. op.before.profile.active \in Accounts
  BY <1>1 DEF Op, Profile
<1>3. Goto("undoState") => Goes("undoState")
  BY <1>1, GotoIs DEF Steps
<1>4. Aim("ensure", op.before.profile.active)
        => Heads("ensure", op.before.profile.active)
  BY <1>1, <1>2, HeadsIs DEF Steps
<1> QED
  BY <1>1, <1>3, <1>4 DEF Undo, Step

(* What a failing file step leaves, by where it fails.                     *)
LEMMA FailsIs ==
  ASSUME TypeOK, Fails
  PROVE  /\ op \in Op /\ UNCHANGED world
         /\ UNCHANGED <<primary, catalog, pool, journal>>
         /\ \/ op.pc \in {"apply", "publish"} /\ Failing /\ UNCHANGED files
            \/ /\ op.pc \in Transaction /\ Abandons
               /\ UNCHANGED <<files, history>>
            \/ /\ op.pc \in Restoring /\ op.then = "thrown"
               /\ profile' = Underway("backed-up") /\ op' = NoOp
               /\ history' = history \cup Unfinished(profile')
               /\ UNCHANGED <<saved, newer>>
            \/ /\ \/ op.pc = "complete"
                  \/ op.pc \in Restoring /\ op.then = "recovered"
                  \/ op.pc = "commit" /\ op.kind = "finalize"
               /\ op' = NoOp /\ UNCHANGED <<files, history>>
            \/ /\ op.pc \in {"undoState", "undoPool"} /\ op' = NoOp
               /\ history' = history \cup Unfinished(profile)
               /\ UNCHANGED files
            \/ /\ op.pc = "commit" /\ op.kind = "select" /\ Failing
               /\ UNCHANGED files
            \/ /\ op.pc = "unregister" /\ Failing
               /\ saved' = [saved EXCEPT ![op.arg] = op.snap]
               /\ newer' = newer \ {op.arg}
               /\ UNCHANGED profile
<1>1. op.pc # "none" => op \in Op
  BY Working
<1>2. op \in Op => (Thrown => Failing) /\ (Abandon => Abandons)
  BY ThrownIs, AbandonIs
<1> QED
  BY <1>1, <1>2 DEF Fails, Refused, Transaction, Restoring, End, Note, files

-----------------------------------------------------------------------------

(* Every step keeps the types.                                             *)
LEMMA TypeStep ==
  TypeOK /\ Where /\ Course /\ Carried /\ [Next]_vars => TypeOK'
<1> SUFFICES ASSUME TypeOK, Where, Course, Carried, [Next]_vars PROVE TypeOK'
  OBVIOUS
<1> USE ProfileAssumption, Working
    DEF TypeOK, Events, Where, Course, Carried, OldLoginKept, Recovering,
          Transaction,
        Restoring, Cleaning, Unjournaled, Phases, Steps, Kinds, Profile, Pool,
        NoJournal, Journal, Auth, NoAuth, Setting, Spend, NoBefore, NoOp, Op,
              None, Running, Goto, End,
        Step, Note, Refused, Thrown, files, world
<1>1. ASSUME NEW a \in Accounts, Select(a)
      PROVE  TypeOK'
  BY <1>1 DEF Select, Begin
<1>2. ASSUME NEW a \in Accounts, Remove(a)
      PROVE  TypeOK'
  BY <1>2 DEF Remove, Begin
<1>3. ASSUME NEW a \in Accounts, Finalize(a)
      PROVE  TypeOK'
  BY <1>3 DEF Finalize, Begin
<1>4. CASE Reconcile
  BY <1>4 DEF Reconcile, Begin
<1>5. CASE Discover
  BY <1>5, DiscoveredType DEF Discover
<1>6. CASE Recover
  BY <1>6
     DEF Recover, Resume, Unrecoverable, Installed, Completed, RolledBack,
         NotStarted, Settled
<1>7. CASE RestoreAuth
  BY <1>7 DEF RestoreAuth
<1>8. CASE RestoreCatalog
  BY <1>8 DEF RestoreCatalog
<1>9. CASE RollBack
  BY <1>9 DEF RollBack, WriteProfile, Toward
<1>10. CASE Complete
  BY <1>10 DEF Complete, WriteProfile, Toward
<1>11. CASE RemoveManifest
  BY <1>11 DEF RemoveManifest
<1>12. CASE RemoveEvidence
  BY <1>12 DEF RemoveEvidence
<1>13. CASE RemoveDirectory
  <2>1. op' \in Op \cup {NoOp} /\ history' \subseteq Events
    <3> HIDE DEF Op, TypeOK, Where, Course, Carried, files, world
    <3> QED
      BY <1>13, RemoveDirectoryIs
         DEF Becomes, Goes, Heads, Throws, Abandons, Failing, Unfinished,
             TypeOK
  <2> QED
    BY <1>13, <2>1, RemoveDirectoryIs
<1>14. CASE Ensure
  <2>1. op' \in Op \cup {NoOp} /\ history' \subseteq Events
    <3> HIDE DEF Op, TypeOK, Where, Course, Carried, files, world
    <3> QED
      BY <1>14, EnsureIs
         DEF Becomes, Goes, Heads, Throws, Abandons, Failing, Unfinished,
             TypeOK
  <2>2. UNCHANGED files \/ Discovered
    BY <1>14, EnsureIs
  <2> QED
    BY <1>14, <2>1, <2>2, DiscoveredType, EnsureIs
<1>15. CASE FinalizeLogin
  BY <1>15 DEF FinalizeLogin
<1>16. CASE Handoff
  <2>1. op' \in Op \cup {NoOp} /\ history' \subseteq Events
    <3> HIDE DEF Op, TypeOK, Where, Course, Carried, files, world
    <3> QED
      BY <1>16, HandoffIs
         DEF Becomes, Goes, Heads, Throws, Abandons, Failing, Unfinished,
             TypeOK
  <2> QED
    BY <1>16, <2>1, HandoffIs
<1>17. CASE Apply
  <2>1. op' \in Op \cup {NoOp} /\ history' \subseteq Events
    <3> HIDE DEF Op, TypeOK, Where, Course, Carried, files, world
    <3> QED
      BY <1>17, ApplyIs
         DEF Becomes, Goes, Heads, Throws, Abandons, Failing, Unfinished,
             TypeOK,
             Superseding, Reopening
  <2>2. profile' \in Profile
    <3> HIDE DEF Op, Where, Course, Carried, files, world, Profile, Toward,
          Running
    <3> DEFINE on == op.to # profile.active \/ primary # saved[op.to]
    <3>1. on \in BOOLEAN /\ op \in Op
      BY <1>17, ApplyIs
    <3>2. profile' \in {profile, Toward(op.to, profile.active, on, "idle"),
                        Toward(op.to, profile.active, FALSE, "idle")}
      BY <1>17, ApplyIs
    <3> HIDE DEF on
    <3>3. {Toward(op.to, profile.active, on, "idle"),
           Toward(op.to, profile.active, FALSE, "idle")} \subseteq Profile
      BY <3>1 DEF Toward, Profile, Op
    <3> QED
      BY <3>2, <3>3
  <2> HIDE DEF Op, Profile, Pool, Journal, Auth, Events
  <2> QED
    BY <1>17, <2>1, <2>2, ApplyIs
<1>18. CASE Publish
  BY <1>18 DEF Publish
<1>19. CASE Prepare
  BY <1>19 DEF Prepare, WriteProfile, Toward, Underway
<1>20. CASE Sync
  <2>1. saved' \in [Accounts -> Auth \cup {NoAuth}]
    BY <1>20 DEF Sync
  <2>2. primary' \in Auth /\ newer' \subseteq Accounts
    BY <1>20 DEF Sync
  <2>3. history' \subseteq Events
    BY <1>20 DEF Sync
  <2> QED
    BY <1>20, <2>1, <2>2, <2>3 DEF Sync
<1>21. CASE BackUp
  BY <1>21 DEF BackUp, WriteProfile, Toward, Underway
<1>22. CASE Install
  BY <1>22 DEF Install
<1>23. CASE TargetCatalog
  <2>1. op' \in Op \cup {NoOp} /\ history' \subseteq Events
    <3> HIDE DEF Op, TypeOK, Where, Course, Carried, files, world
    <3> QED
      BY <1>23, TargetCatalogIs
         DEF Becomes, Goes, Heads, Throws, Abandons, Failing, Unfinished,
             TypeOK
  <2>2. catalog' \in Accounts
    BY <1>23, TargetCatalogIs
  <2> QED
    BY <1>23, <2>1, <2>2, TargetCatalogIs
<1>24. CASE RefreshCatalog
  BY <1>24 DEF RefreshCatalog
<1>25. CASE Record
  <2>1. op' \in Op \cup {NoOp} /\ history' \subseteq Events
    <3> HIDE DEF Op, TypeOK, Where, Course, Carried, files, world
    <3> QED
      BY <1>25, RecordIs
         DEF Becomes, Goes, Heads, Throws, Abandons, Failing, Unfinished,
             TypeOK
  <2>2. profile' \in Profile
    <3> HIDE DEF Profile, Journal
    <3>1. journal.target \in Accounts
      BY <1>25 DEF Record, Journal
    <3>2. Toward(journal.target, journal.target, FALSE, "installed")
            \in Profile
      BY <3>1 DEF Toward, Profile
    <3> QED
      BY <1>25, <3>2, RecordIs
  <2> HIDE DEF Op, Profile, Pool, Journal, Auth, Events
  <2> QED
    BY <1>25, <2>1, <2>2, RecordIs
<1>26. CASE Settle
  BY <1>26 DEF Settle, WriteProfile, Toward
<1>27. CASE Commit
  <2>1. op' \in Op \cup {NoOp} /\ history' \subseteq Events
    <3> HIDE DEF Op, TypeOK, Where, Course, Carried, files, world
    <3> QED
      BY <1>27, CommitIs
         DEF Becomes, Goes, Heads, Throws, Abandons, Failing, Unfinished,
             TypeOK
  <2>2. op.arg \in Accounts
    BY <1>27, CommitIs
  <2>3. pool' \in Pool /\ lease' \in [Accounts -> {"free", "open", "changed"}]
    <3> HIDE DEF Op
    <3>1. /\ pool' \in {pool, [pool EXCEPT !.selected = op.arg]}
          /\ lease' \in {lease, [lease EXCEPT ![op.arg] = "free"]}
      BY <1>27, CommitIs
    <3> QED
      BY <2>2, <3>1
  <2> QED
    BY <1>27, <2>1, <2>3, CommitIs
<1>28. CASE Drop
  <2>1. op' \in Op \cup {NoOp} /\ history' \subseteq Events
    <3> HIDE DEF Op, TypeOK, Where, Course, Carried, files, world
    <3> QED
      BY <1>28, DropIs
         DEF Becomes, Goes, Heads, Throws, Abandons, Failing, Unfinished,
             TypeOK
  <2>2. /\ saved' \in [Accounts -> Auth \cup {NoAuth}]
        /\ newer' \subseteq Accounts
    BY <1>28 DEF Drop
  <2> QED
    BY <1>28, <2>1, <2>2, DropIs
<1>29. CASE Unregister
  BY <1>29 DEF Unregister, Successor
<1>30. CASE Undo
  <2>1. op' \in Op \cup {NoOp} /\ history' \subseteq Events
    <3> HIDE DEF Op, TypeOK, Where, Course, Carried, files, world
    <3> QED
      BY <1>30, UndoIs
         DEF Becomes, Goes, Heads, Throws, Abandons, Failing, Unfinished,
             TypeOK
  <2> QED
    BY <1>30, <2>1, UndoIs
<1>31. CASE UndoProfile
  BY <1>31 DEF UndoProfile, WriteProfile
<1>32. CASE UndoPool
  BY <1>32 DEF UndoPool
<1>33. CASE Fails
  <2>1. op' \in Op \cup {NoOp} /\ history' \subseteq Events
    <3> HIDE DEF Op, TypeOK, Where, Course, Carried, files, world
    <3> QED
      BY <1>33, FailsIs
         DEF Becomes, Goes, Heads, Throws, Abandons, Failing, Unfinished,
             TypeOK,
             Unfinished
  <2>2. profile' \in Profile
    <3>1. profile' \in {profile, Underway("backed-up")}
      BY <1>33, FailsIs
    <3>2. CASE op.pc \in Restoring
      <4> HIDE DEF Profile
      <4>1. /\ journal.target \in Accounts /\ journal.active \in Accounts
            /\ profile \in Profile
        BY <3>2
      <4>2. Underway("backed-up") \in Profile
        BY <4>1 DEF Underway, Toward, Profile
      <4> QED
        BY <3>1, <4>1, <4>2
    <3>3. CASE op.pc \notin Restoring
      BY <1>33, <3>3, FailsIs
    <3> QED
      BY <3>2, <3>3
  <2>3. /\ saved' \in [Accounts -> Auth \cup {NoAuth}]
        /\ newer' \subseteq Accounts
    BY <1>33 DEF Fails
  <2>4. bounds' \in Setting
    BY <1>33 DEF Fails
  <2> QED
    BY <1>33, <2>1, <2>2, <2>3, <2>4, FailsIs
<1>34. CASE Crash
  BY <1>34 DEF Crash, Unfinished
<1>35. CASE CodexOpens
  BY <1>35 DEF CodexOpens
<1>36. CASE CodexCloses
  BY <1>36 DEF CodexCloses
<1>37. CASE CodexRenews
  BY <1>37 DEF CodexRenews, WritePrimary, Issued
<1>38. CASE PublishCatalog
  BY <1>38 DEF PublishCatalog
<1>39. ASSUME NEW a \in Accounts, NativeLogin(a)
      PROVE  TypeOK'
  BY <1>39 DEF NativeLogin, WritePrimary, Issued
<1>40. ASSUME NEW a \in Accounts, SignIn(a)
      PROVE  TypeOK'
  BY <1>40 DEF SignIn
<1>41. ASSUME NEW a \in Accounts, NEW who \in Accounts, SignedIn(a, who)
      PROVE  TypeOK'
  BY <1>41 DEF SignedIn, Issued
<1>42. ASSUME NEW a \in Accounts, SignInGivenUp(a)
      PROVE  TypeOK'
  BY <1>42 DEF SignInGivenUp
<1>43. ASSUME NEW a \in Accounts, LoginReset(a)
      PROVE  TypeOK'
  BY <1>43 DEF LoginReset
<1>44. CASE UNCHANGED vars
  BY <1>44 DEF vars
<1> QED
  BY <1>1, <1>2, <1>3, <1>4, <1>5, <1>6, <1>7, <1>8, <1>9, <1>10, <1>11,
     <1>12, <1>13, <1>14, <1>15, <1>16, <1>17, <1>18, <1>19, <1>20, <1>21,
     <1>22, <1>23, <1>24, <1>25, <1>26, <1>27, <1>28, <1>29, <1>30, <1>31,
     <1>32, <1>33, <1>34, <1>35, <1>36, <1>37, <1>38, <1>39, <1>40, <1>41,
     <1>42, <1>43, <1>44
     DEF Next, Work, Outside

(* Every step keeps Where: in particular the phase stays covered by a      *)
(* complete journal.                                                       *)
LEMMA WhereStep ==
  TypeOK /\ Where /\ Course /\ Carried /\ [Next]_vars => Where'
<1> SUFFICES ASSUME TypeOK, Where, Course, Carried, [Next]_vars PROVE Where'
  OBVIOUS
<1> USE ProfileAssumption, Working
    DEF TypeOK, Where, Course, Carried, OldLoginKept, Recovering, Transaction,
        Restoring, Cleaning, Unjournaled, Phases, Steps, Kinds, Profile, Pool,
        NoJournal, Journal, NoBefore, NoOp, Op, None, Running, Goto, End,
        Step, Note, Refused, Thrown, files, world
<1>1. ASSUME NEW a \in Accounts, Select(a)
      PROVE  Where'
  BY <1>1 DEF Select, Begin
<1>2. ASSUME NEW a \in Accounts, Remove(a)
      PROVE  Where'
  BY <1>2 DEF Remove, Begin
<1>3. ASSUME NEW a \in Accounts, Finalize(a)
      PROVE  Where'
  BY <1>3 DEF Finalize, Begin
<1>4. CASE Reconcile
  BY <1>4 DEF Reconcile, Begin
<1>5. CASE Discover
  BY <1>5 DEF Discover, Discovered
<1>6. CASE Recover
  BY <1>6
     DEF Recover, Resume, Unrecoverable, Installed, Completed, RolledBack,
         NotStarted, Settled
<1>7. CASE RestoreAuth
  BY <1>7 DEF RestoreAuth
<1>8. CASE RestoreCatalog
  BY <1>8 DEF RestoreCatalog
<1>9. CASE RollBack
  BY <1>9 DEF RollBack, WriteProfile, Toward
<1>10. CASE Complete
  BY <1>10 DEF Complete, WriteProfile, Toward
<1>11. CASE RemoveManifest
  BY <1>11 DEF RemoveManifest
<1>12. CASE RemoveEvidence
  BY <1>12 DEF RemoveEvidence
<1>13. CASE RemoveDirectory
  BY <1>13, RemoveDirectoryIs
     DEF Becomes, Goes, Throws, Heads, Abandons, Failing, Resume
<1>14. CASE Ensure
  BY <1>14, EnsureIs, DiscoveredType
     DEF Becomes, Goes, Throws, Heads, Abandons, Failing, Aimed, Noted, After
<1>15. CASE FinalizeLogin
  BY <1>15 DEF FinalizeLogin
<1>16. CASE Handoff
  BY <1>16, HandoffIs DEF Becomes, Goes, Throws, Heads, Abandons, Failing
<1>17. CASE Apply
  BY <1>17, ApplyIs
     DEF Becomes, Goes, Throws, Heads, Abandons, Failing, Toward
<1>18. CASE Publish
  BY <1>18 DEF Publish
<1>19. CASE Prepare
  BY <1>19 DEF Prepare, WriteProfile, Toward, Underway
<1>20. CASE Sync
  BY <1>20 DEF Sync
<1>21. CASE BackUp
  BY <1>21 DEF BackUp, WriteProfile, Toward, Underway
<1>22. CASE Install
  BY <1>22 DEF Install
<1>23. CASE TargetCatalog
  BY <1>23, TargetCatalogIs
     DEF Becomes, Goes, Throws, Heads, Abandons, Failing
<1>24. CASE RefreshCatalog
  BY <1>24 DEF RefreshCatalog
<1>25. CASE Record
  BY <1>25, RecordIs
     DEF Becomes, Goes, Throws, Heads, Abandons, Failing, Toward
<1>26. CASE Settle
  BY <1>26 DEF Settle, WriteProfile, Toward
<1>27. CASE Commit
  BY <1>27, CommitIs DEF Becomes, Goes, Throws, Heads, Abandons, Failing
<1>28. CASE Drop
  BY <1>28, DropIs DEF Becomes, Goes, Throws, Heads, Abandons, Failing
<1>29. CASE Unregister
  BY <1>29 DEF Unregister, Successor
<1>30. CASE Undo
  BY <1>30, UndoIs DEF Becomes, Goes, Throws, Heads, Abandons, Failing
<1>31. CASE UndoProfile
  BY <1>31 DEF UndoProfile, WriteProfile
<1>32. CASE UndoPool
  BY <1>32 DEF UndoPool
<1>33. CASE Fails
  BY <1>33, FailsIs
     DEF Becomes, Goes, Throws, Heads, Abandons, Failing, Underway, Toward
<1>34. CASE Crash
  BY <1>34 DEF Crash, Unfinished
<1>35. CASE CodexOpens
  BY <1>35 DEF CodexOpens
<1>36. CASE CodexCloses
  BY <1>36 DEF CodexCloses
<1>37. CASE CodexRenews
  BY <1>37 DEF CodexRenews, WritePrimary, Issued
<1>38. CASE PublishCatalog
  BY <1>38 DEF PublishCatalog
<1>39. ASSUME NEW a \in Accounts, NativeLogin(a)
      PROVE  Where'
  BY <1>39 DEF NativeLogin, WritePrimary, Issued
<1>40. ASSUME NEW a \in Accounts, SignIn(a)
      PROVE  Where'
  BY <1>40 DEF SignIn
<1>41. ASSUME NEW a \in Accounts, NEW who \in Accounts, SignedIn(a, who)
      PROVE  Where'
  BY <1>41 DEF SignedIn, Issued
<1>42. ASSUME NEW a \in Accounts, SignInGivenUp(a)
      PROVE  Where'
  BY <1>42 DEF SignInGivenUp
<1>43. ASSUME NEW a \in Accounts, LoginReset(a)
      PROVE  Where'
  BY <1>43 DEF LoginReset
<1>44. CASE UNCHANGED vars
  BY <1>44 DEF vars
<1> QED
  BY <1>1, <1>2, <1>3, <1>4, <1>5, <1>6, <1>7, <1>8, <1>9, <1>10, <1>11,
     <1>12, <1>13, <1>14, <1>15, <1>16, <1>17, <1>18, <1>19, <1>20, <1>21,
     <1>22, <1>23, <1>24, <1>25, <1>26, <1>27, <1>28, <1>29, <1>30, <1>31,
     <1>32, <1>33, <1>34, <1>35, <1>36, <1>37, <1>38, <1>39, <1>40, <1>41,
     <1>42, <1>43, <1>44
     DEF Next, Work, Outside

(* Every step keeps Course.                                                *)
LEMMA CourseStep ==
  TypeOK /\ Where /\ Course /\ Carried /\ [Next]_vars => Course'
<1> SUFFICES ASSUME TypeOK, Where, Course, Carried, [Next]_vars PROVE Course'
  OBVIOUS
<1> USE ProfileAssumption, Working
    DEF TypeOK, Where, Course, Carried, OldLoginKept, Recovering, Transaction,
        Restoring, Cleaning, Unjournaled, Phases, Steps, Kinds, Profile, Pool,
        NoJournal, Journal, NoBefore, NoOp, Op, None, Running, Goto, End,
        Step, Note, Refused, Thrown, files, world
<1>1. ASSUME NEW a \in Accounts, Select(a)
      PROVE  Course'
  BY <1>1 DEF Select, Begin
<1>2. ASSUME NEW a \in Accounts, Remove(a)
      PROVE  Course'
  BY <1>2 DEF Remove, Begin
<1>3. ASSUME NEW a \in Accounts, Finalize(a)
      PROVE  Course'
  BY <1>3 DEF Finalize, Begin
<1>4. CASE Reconcile
  BY <1>4 DEF Reconcile, Begin
<1>5. CASE Discover
  BY <1>5 DEF Discover, Discovered
<1>6. CASE Recover
  BY <1>6
     DEF Recover, Resume, Unrecoverable, Installed, Completed, RolledBack,
         NotStarted, Settled
<1>7. CASE RestoreAuth
  BY <1>7 DEF RestoreAuth
<1>8. CASE RestoreCatalog
  BY <1>8 DEF RestoreCatalog
<1>9. CASE RollBack
  BY <1>9 DEF RollBack, WriteProfile, Toward
<1>10. CASE Complete
  BY <1>10 DEF Complete, WriteProfile, Toward
<1>11. CASE RemoveManifest
  BY <1>11 DEF RemoveManifest
<1>12. CASE RemoveEvidence
  BY <1>12 DEF RemoveEvidence
<1>13. CASE RemoveDirectory
  BY <1>13, RemoveDirectoryIs
     DEF Becomes, Goes, Throws, Heads, Abandons, Failing, Resume
<1>14. CASE Ensure
  BY <1>14, EnsureIs, DiscoveredType
     DEF Becomes, Goes, Throws, Heads, Abandons, Failing, Aimed, Noted, After
<1>15. CASE FinalizeLogin
  BY <1>15 DEF FinalizeLogin
<1>16. CASE Handoff
  BY <1>16, HandoffIs DEF Becomes, Goes, Throws, Heads, Abandons, Failing
<1>17. CASE Apply
  BY <1>17, ApplyIs
     DEF Becomes, Goes, Throws, Heads, Abandons, Failing, Toward
<1>18. CASE Publish
  BY <1>18 DEF Publish
<1>19. CASE Prepare
  BY <1>19 DEF Prepare, WriteProfile, Toward, Underway
<1>20. CASE Sync
  BY <1>20 DEF Sync
<1>21. CASE BackUp
  BY <1>21 DEF BackUp, WriteProfile, Toward, Underway
<1>22. CASE Install
  BY <1>22 DEF Install
<1>23. CASE TargetCatalog
  BY <1>23, TargetCatalogIs
     DEF Becomes, Goes, Throws, Heads, Abandons, Failing
<1>24. CASE RefreshCatalog
  BY <1>24 DEF RefreshCatalog
<1>25. CASE Record
  BY <1>25, RecordIs
     DEF Becomes, Goes, Throws, Heads, Abandons, Failing, Toward
<1>26. CASE Settle
  BY <1>26 DEF Settle, WriteProfile, Toward
<1>27. CASE Commit
  BY <1>27, CommitIs DEF Becomes, Goes, Throws, Heads, Abandons, Failing
<1>28. CASE Drop
  BY <1>28, DropIs DEF Becomes, Goes, Throws, Heads, Abandons, Failing
<1>29. CASE Unregister
  BY <1>29 DEF Unregister, Successor
<1>30. CASE Undo
  BY <1>30, UndoIs DEF Becomes, Goes, Throws, Heads, Abandons, Failing
<1>31. CASE UndoProfile
  BY <1>31 DEF UndoProfile, WriteProfile
<1>32. CASE UndoPool
  BY <1>32 DEF UndoPool
<1>33. CASE Fails
  BY <1>33, FailsIs
     DEF Becomes, Goes, Throws, Heads, Abandons, Failing, Underway, Toward
<1>34. CASE Crash
  BY <1>34 DEF Crash, Unfinished
<1>35. CASE CodexOpens
  BY <1>35 DEF CodexOpens
<1>36. CASE CodexCloses
  BY <1>36 DEF CodexCloses
<1>37. CASE CodexRenews
  BY <1>37 DEF CodexRenews, WritePrimary, Issued
<1>38. CASE PublishCatalog
  BY <1>38 DEF PublishCatalog
<1>39. ASSUME NEW a \in Accounts, NativeLogin(a)
      PROVE  Course'
  BY <1>39 DEF NativeLogin, WritePrimary, Issued
<1>40. ASSUME NEW a \in Accounts, SignIn(a)
      PROVE  Course'
  BY <1>40 DEF SignIn
<1>41. ASSUME NEW a \in Accounts, NEW who \in Accounts, SignedIn(a, who)
      PROVE  Course'
  BY <1>41 DEF SignedIn, Issued
<1>42. ASSUME NEW a \in Accounts, SignInGivenUp(a)
      PROVE  Course'
  BY <1>42 DEF SignInGivenUp
<1>43. ASSUME NEW a \in Accounts, LoginReset(a)
      PROVE  Course'
  BY <1>43 DEF LoginReset
<1>44. CASE UNCHANGED vars
  BY <1>44 DEF vars
<1> QED
  BY <1>1, <1>2, <1>3, <1>4, <1>5, <1>6, <1>7, <1>8, <1>9, <1>10, <1>11,
     <1>12, <1>13, <1>14, <1>15, <1>16, <1>17, <1>18, <1>19, <1>20, <1>21,
     <1>22, <1>23, <1>24, <1>25, <1>26, <1>27, <1>28, <1>29, <1>30, <1>31,
     <1>32, <1>33, <1>34, <1>35, <1>36, <1>37, <1>38, <1>39, <1>40, <1>41,
     <1>42, <1>43, <1>44
     DEF Next, Work, Outside

(* Every step keeps Carried.                                               *)
LEMMA CarriedStep ==
  TypeOK /\ Where /\ Course /\ Carried /\ [Next]_vars => Carried'
<1> SUFFICES ASSUME TypeOK, Where, Course, Carried, [Next]_vars PROVE Carried'
  OBVIOUS
<1> USE ProfileAssumption, Working
    DEF TypeOK, Where, Course, Carried, OldLoginKept, Recovering, Transaction,
        Restoring, Cleaning, Unjournaled, Phases, Steps, Kinds, Profile, Pool,
        NoJournal, Journal, NoBefore, NoOp, Op, None, Running, Goto, End,
        Step, Note, Refused, Thrown, files, world, Auth, NoAuth
<1>1. ASSUME NEW a \in Accounts, Select(a)
      PROVE  Carried'
  BY <1>1 DEF Select, Begin
<1>2. ASSUME NEW a \in Accounts, Remove(a)
      PROVE  Carried'
  BY <1>2 DEF Remove, Begin
<1>3. ASSUME NEW a \in Accounts, Finalize(a)
      PROVE  Carried'
  BY <1>3 DEF Finalize, Begin
<1>4. CASE Reconcile
  BY <1>4 DEF Reconcile, Begin
<1>5. CASE Discover
  BY <1>5 DEF Discover, Discovered
<1>6. CASE Recover
  BY <1>6
     DEF Recover, Resume, Unrecoverable, Installed, Completed, RolledBack,
         NotStarted, Settled
<1>7. CASE RestoreAuth
  BY <1>7 DEF RestoreAuth
<1>8. CASE RestoreCatalog
  BY <1>8 DEF RestoreCatalog
<1>9. CASE RollBack
  BY <1>9 DEF RollBack, WriteProfile, Toward
<1>10. CASE Complete
  BY <1>10 DEF Complete, WriteProfile, Toward
<1>11. CASE RemoveManifest
  BY <1>11 DEF RemoveManifest
<1>12. CASE RemoveEvidence
  BY <1>12 DEF RemoveEvidence
<1>13. CASE RemoveDirectory
  BY <1>13, RemoveDirectoryIs
     DEF Becomes, Goes, Throws, Heads, Abandons, Failing, Resume
<1>14. CASE Ensure
  <2> HIDE DEF Op, Carried, TypeOK, Where, Course
  <2>1. op'.pc \in {"none", "apply", "handoff"}
    BY <1>14, EnsureIs DEF Becomes, After
  <2>2. UNCHANGED files \/ Discovered
    BY <1>14, EnsureIs
  <2>3. ASSUME Discovered PROVE \A a \in newer' : saved'[a] # NoAuth
    <3>1. primary \in Auth /\ saved \in [Accounts -> Auth \cup {NoAuth}]
      BY DEF TypeOK
    <3> QED
      BY <2>3, <3>1 DEF Discovered, Carried
  <2>4. \A a \in newer' : saved'[a] # NoAuth
    BY <2>2, <2>3 DEF Carried
  <2> QED
    BY <2>1, <2>4 DEF Carried
<1>15. CASE FinalizeLogin
  BY <1>15 DEF FinalizeLogin
<1>16. CASE Handoff
  BY <1>16, HandoffIs DEF Becomes, Goes, Throws, Heads, Abandons, Failing
<1>17. CASE Apply
  <2>1. /\ op \in Op /\ op.pc = "apply" /\ UNCHANGED <<saved, newer>>
        /\ \/ op'.pc \in {"none", "undo", "commit"}
           \/ /\ saved[op.to] # NoAuth /\ ~Mistaken(op.to)
              /\ op'.pc = "publish" /\ op'.snap = saved[op.to]
              /\ op'.to = op.to
    <3> HIDE DEF Op, Carried, TypeOK, Where, Course, NoOp, Running, files,
          world
    <3>1. /\ op \in Op /\ op.pc = "apply" /\ UNCHANGED <<saved, newer>>
          /\ \/ Failing \/ Goes("commit")
             \/ /\ saved[op.to] # NoAuth /\ ~Mistaken(op.to)
                /\ Becomes(op.kind, "publish", op.to, "commit", saved[op.to],
                           op.before)
      BY <1>17, ApplyIs
    <3> QED
      BY <3>1 DEF Becomes, Goes, Throws, Failing, NoOp
  <2> QED
    BY <2>1 DEF Mistaken
<1>18. CASE Publish
  BY <1>18 DEF Publish
<1>19. CASE Prepare
  BY <1>19 DEF Prepare, WriteProfile, Toward, Underway
<1>20. CASE Sync
  BY <1>20 DEF Sync
<1>21. CASE BackUp
  BY <1>21 DEF BackUp, WriteProfile, Toward, Underway
<1>22. CASE Install
  BY <1>22 DEF Install
<1>23. CASE TargetCatalog
  BY <1>23, TargetCatalogIs
     DEF Becomes, Goes, Throws, Heads, Abandons, Failing
<1>24. CASE RefreshCatalog
  BY <1>24 DEF RefreshCatalog
<1>25. CASE Record
  BY <1>25, RecordIs
     DEF Becomes, Goes, Throws, Heads, Abandons, Failing, Toward
<1>26. CASE Settle
  BY <1>26 DEF Settle, WriteProfile, Toward
<1>27. CASE Commit
  BY <1>27, CommitIs DEF Becomes, Goes, Throws, Heads, Abandons, Failing
<1>28. CASE Drop
  BY <1>28, DropIs DEF Becomes, Goes, Throws, Heads, Abandons, Failing
<1>29. CASE Unregister
  BY <1>29 DEF Unregister, Successor
<1>30. CASE Undo
  BY <1>30, UndoIs DEF Becomes, Goes, Throws, Heads, Abandons, Failing
<1>31. CASE UndoProfile
  BY <1>31 DEF UndoProfile, WriteProfile
<1>32. CASE UndoPool
  BY <1>32 DEF UndoPool
<1>33. CASE Fails
  BY <1>33, FailsIs
     DEF Becomes, Goes, Throws, Heads, Abandons, Failing, Underway, Toward
<1>34. CASE Crash
  BY <1>34 DEF Crash, Unfinished
<1>35. CASE CodexOpens
  BY <1>35 DEF CodexOpens
<1>36. CASE CodexCloses
  BY <1>36 DEF CodexCloses
<1>37. CASE CodexRenews
  BY <1>37 DEF CodexRenews, WritePrimary, Issued
<1>38. CASE PublishCatalog
  BY <1>38 DEF PublishCatalog
<1>39. ASSUME NEW a \in Accounts, NativeLogin(a)
      PROVE  Carried'
  BY <1>39 DEF NativeLogin, WritePrimary, Issued
<1>40. ASSUME NEW a \in Accounts, SignIn(a)
      PROVE  Carried'
  BY <1>40 DEF SignIn
<1>41. ASSUME NEW a \in Accounts, NEW who \in Accounts, SignedIn(a, who)
      PROVE  Carried'
  BY <1>41 DEF SignedIn, Issued
<1>42. ASSUME NEW a \in Accounts, SignInGivenUp(a)
      PROVE  Carried'
  BY <1>42 DEF SignInGivenUp
<1>43. ASSUME NEW a \in Accounts, LoginReset(a)
      PROVE  Carried'
  BY <1>43 DEF LoginReset
<1>44. CASE UNCHANGED vars
  BY <1>44 DEF vars
<1> QED
  BY <1>1, <1>2, <1>3, <1>4, <1>5, <1>6, <1>7, <1>8, <1>9, <1>10, <1>11,
     <1>12, <1>13, <1>14, <1>15, <1>16, <1>17, <1>18, <1>19, <1>20, <1>21,
     <1>22, <1>23, <1>24, <1>25, <1>26, <1>27, <1>28, <1>29, <1>30, <1>31,
     <1>32, <1>33, <1>34, <1>35, <1>36, <1>37, <1>38, <1>39, <1>40, <1>41,
     <1>42, <1>43, <1>44
     DEF Next, Work, Outside
(* Every step keeps Meant.                                                 *)
LEMMA MeantStep ==
  TypeOK /\ Where /\ Course /\ Carried /\ Meant /\ [Next]_vars => Meant'
<1> SUFFICES ASSUME TypeOK, Where, Course, Carried, Meant, [Next]_vars PROVE
      Meant'
  OBVIOUS
<1> USE ProfileAssumption, Working
    DEF TypeOK, Where, Course, Carried, Meant, OldLoginKept, Recovering,
          Transaction,
        Restoring, Cleaning, Unjournaled, Phases, Steps, Kinds, Profile, Pool,
        NoJournal, Journal, NoBefore, NoOp, Op, None, Running, Goto, End,
        Step, Note, Refused, Thrown, files, world
<1>1. ASSUME NEW a \in Accounts, Select(a)
      PROVE  Meant'
  BY <1>1 DEF Select, Begin
<1>2. ASSUME NEW a \in Accounts, Remove(a)
      PROVE  Meant'
  BY <1>2 DEF Remove, Begin
<1>3. ASSUME NEW a \in Accounts, Finalize(a)
      PROVE  Meant'
  BY <1>3 DEF Finalize, Begin
<1>4. CASE Reconcile
  BY <1>4 DEF Reconcile, Begin
<1>5. CASE Discover
  BY <1>5 DEF Discover, Discovered
<1>6. CASE Recover
  BY <1>6
     DEF Recover, Resume, Unrecoverable, Installed, Completed, RolledBack,
         NotStarted, Settled
<1>7. CASE RestoreAuth
  BY <1>7 DEF RestoreAuth
<1>8. CASE RestoreCatalog
  BY <1>8 DEF RestoreCatalog
<1>9. CASE RollBack
  BY <1>9 DEF RollBack, WriteProfile, Toward
<1>10. CASE Complete
  BY <1>10 DEF Complete, WriteProfile, Toward
<1>11. CASE RemoveManifest
  BY <1>11 DEF RemoveManifest
<1>12. CASE RemoveEvidence
  BY <1>12 DEF RemoveEvidence
<1>13. CASE RemoveDirectory
  BY <1>13, RemoveDirectoryIs
     DEF Becomes, Goes, Throws, Heads, Abandons, Failing, Resume
<1>14. CASE Ensure
  BY <1>14, EnsureIs, DiscoveredType
     DEF Becomes, Goes, Throws, Heads, Abandons, Failing, Aimed, Noted, After
<1>15. CASE FinalizeLogin
  BY <1>15 DEF FinalizeLogin
<1>16. CASE Handoff
  BY <1>16, HandoffIs DEF Becomes, Goes, Throws, Heads, Abandons, Failing
<1>17. CASE Apply
  BY <1>17, ApplyIs
     DEF Becomes, Goes, Throws, Heads, Abandons, Failing, Toward
<1>18. CASE Publish
  BY <1>18 DEF Publish
<1>19. CASE Prepare
  BY <1>19 DEF Prepare, WriteProfile, Toward, Underway
<1>20. CASE Sync
  BY <1>20 DEF Sync
<1>21. CASE BackUp
  BY <1>21 DEF BackUp, WriteProfile, Toward, Underway
<1>22. CASE Install
  BY <1>22 DEF Install
<1>23. CASE TargetCatalog
  BY <1>23, TargetCatalogIs
     DEF Becomes, Goes, Throws, Heads, Abandons, Failing
<1>24. CASE RefreshCatalog
  BY <1>24 DEF RefreshCatalog
<1>25. CASE Record
  BY <1>25, RecordIs
     DEF Becomes, Goes, Throws, Heads, Abandons, Failing, Toward
<1>26. CASE Settle
  BY <1>26 DEF Settle, WriteProfile, Toward
<1>27. CASE Commit
  BY <1>27, CommitIs DEF Becomes, Goes, Throws, Heads, Abandons, Failing
<1>28. CASE Drop
  BY <1>28, DropIs DEF Becomes, Goes, Throws, Heads, Abandons, Failing
<1>29. CASE Unregister
  BY <1>29 DEF Unregister, Successor
<1>30. CASE Undo
  BY <1>30, UndoIs DEF Becomes, Goes, Throws, Heads, Abandons, Failing
<1>31. CASE UndoProfile
  BY <1>31 DEF UndoProfile, WriteProfile
<1>32. CASE UndoPool
  BY <1>32 DEF UndoPool
<1>33. CASE Fails
  BY <1>33, FailsIs
     DEF Becomes, Goes, Throws, Heads, Abandons, Failing, Underway, Toward
<1>34. CASE Crash
  BY <1>34 DEF Crash, Unfinished
<1>35. CASE CodexOpens
  BY <1>35 DEF CodexOpens
<1>36. CASE CodexCloses
  BY <1>36 DEF CodexCloses
<1>37. CASE CodexRenews
  BY <1>37 DEF CodexRenews, WritePrimary, Issued
<1>38. CASE PublishCatalog
  BY <1>38 DEF PublishCatalog
<1>39. ASSUME NEW a \in Accounts, NativeLogin(a)
      PROVE  Meant'
  BY <1>39 DEF NativeLogin, WritePrimary, Issued
<1>40. ASSUME NEW a \in Accounts, SignIn(a)
      PROVE  Meant'
  BY <1>40 DEF SignIn
<1>41. ASSUME NEW a \in Accounts, NEW who \in Accounts, SignedIn(a, who)
      PROVE  Meant'
  BY <1>41 DEF SignedIn, Issued
<1>42. ASSUME NEW a \in Accounts, SignInGivenUp(a)
      PROVE  Meant'
  BY <1>42 DEF SignInGivenUp
<1>43. ASSUME NEW a \in Accounts, LoginReset(a)
      PROVE  Meant'
  BY <1>43 DEF LoginReset
<1>44. CASE UNCHANGED vars
  BY <1>44 DEF vars
<1> QED
  BY <1>1, <1>2, <1>3, <1>4, <1>5, <1>6, <1>7, <1>8, <1>9, <1>10, <1>11,
     <1>12, <1>13, <1>14, <1>15, <1>16, <1>17, <1>18, <1>19, <1>20, <1>21,
     <1>22, <1>23, <1>24, <1>25, <1>26, <1>27, <1>28, <1>29, <1>30, <1>31,
     <1>32, <1>33, <1>34, <1>35, <1>36, <1>37, <1>38, <1>39, <1>40, <1>41,
     <1>42, <1>43, <1>44
     DEF Next, Work, Outside

(* What has happened stays in the history.                                 *)
LEMMA HistoryGrows ==
  TypeOK /\ Where /\ Course /\ [Next]_vars => history \subseteq history'
<1> SUFFICES ASSUME TypeOK, Where, Course, [Next]_vars PROVE history \subseteq
      history'
  OBVIOUS
<1> USE Working DEF Goto, End, Step, Note, Refused, Thrown, files, world
<1>1. ASSUME NEW a \in Accounts, Select(a)
      PROVE  history \subseteq history'
  BY <1>1 DEF Select, Begin
<1>2. ASSUME NEW a \in Accounts, Remove(a)
      PROVE  history \subseteq history'
  BY <1>2 DEF Remove, Begin
<1>3. ASSUME NEW a \in Accounts, Finalize(a)
      PROVE  history \subseteq history'
  BY <1>3 DEF Finalize, Begin
<1>4. CASE Reconcile
  BY <1>4 DEF Reconcile, Begin
<1>5. CASE Discover
  BY <1>5 DEF Discover, Discovered
<1>6. CASE Recover
  BY <1>6
     DEF Recover, Resume, Unrecoverable, Installed, Completed, RolledBack,
         NotStarted, Settled
<1>7. CASE RestoreAuth
  BY <1>7 DEF RestoreAuth
<1>8. CASE RestoreCatalog
  BY <1>8 DEF RestoreCatalog
<1>9. CASE RollBack
  BY <1>9 DEF RollBack, WriteProfile, Toward
<1>10. CASE Complete
  BY <1>10 DEF Complete, WriteProfile, Toward
<1>11. CASE RemoveManifest
  BY <1>11 DEF RemoveManifest
<1>12. CASE RemoveEvidence
  BY <1>12 DEF RemoveEvidence
<1>13. CASE RemoveDirectory
  BY <1>13, RemoveDirectoryIs
     DEF Becomes, Goes, Throws, Heads, Abandons, Failing, Resume
<1>14. CASE Ensure
  BY <1>14, EnsureIs, DiscoveredType
     DEF Becomes, Goes, Throws, Heads, Abandons, Failing, Aimed, Noted, After
<1>15. CASE FinalizeLogin
  BY <1>15 DEF FinalizeLogin
<1>16. CASE Handoff
  BY <1>16, HandoffIs DEF Becomes, Goes, Throws, Heads, Abandons, Failing
<1>17. CASE Apply
  BY <1>17, ApplyIs
     DEF Becomes, Goes, Throws, Heads, Abandons, Failing, Toward
<1>18. CASE Publish
  BY <1>18 DEF Publish
<1>19. CASE Prepare
  BY <1>19 DEF Prepare, WriteProfile, Toward, Underway
<1>20. CASE Sync
  BY <1>20 DEF Sync
<1>21. CASE BackUp
  BY <1>21 DEF BackUp, WriteProfile, Toward, Underway
<1>22. CASE Install
  BY <1>22 DEF Install
<1>23. CASE TargetCatalog
  BY <1>23, TargetCatalogIs
     DEF Becomes, Goes, Throws, Heads, Abandons, Failing
<1>24. CASE RefreshCatalog
  BY <1>24 DEF RefreshCatalog
<1>25. CASE Record
  BY <1>25, RecordIs
     DEF Becomes, Goes, Throws, Heads, Abandons, Failing, Toward
<1>26. CASE Settle
  BY <1>26 DEF Settle, WriteProfile, Toward
<1>27. CASE Commit
  BY <1>27, CommitIs DEF Becomes, Goes, Throws, Heads, Abandons, Failing
<1>28. CASE Drop
  BY <1>28, DropIs DEF Becomes, Goes, Throws, Heads, Abandons, Failing
<1>29. CASE Unregister
  BY <1>29 DEF Unregister, Successor
<1>30. CASE Undo
  BY <1>30, UndoIs DEF Becomes, Goes, Throws, Heads, Abandons, Failing
<1>31. CASE UndoProfile
  BY <1>31 DEF UndoProfile, WriteProfile
<1>32. CASE UndoPool
  BY <1>32 DEF UndoPool
<1>33. CASE Fails
  BY <1>33, FailsIs
     DEF Becomes, Goes, Throws, Heads, Abandons, Failing, Underway, Toward
<1>34. CASE Crash
  BY <1>34 DEF Crash, Unfinished
<1>35. CASE CodexOpens
  BY <1>35 DEF CodexOpens
<1>36. CASE CodexCloses
  BY <1>36 DEF CodexCloses
<1>37. CASE CodexRenews
  BY <1>37 DEF CodexRenews, WritePrimary, Issued
<1>38. CASE PublishCatalog
  BY <1>38 DEF PublishCatalog
<1>39. ASSUME NEW a \in Accounts, NativeLogin(a)
      PROVE  history \subseteq history'
  BY <1>39 DEF NativeLogin, WritePrimary, Issued
<1>40. ASSUME NEW a \in Accounts, SignIn(a)
      PROVE  history \subseteq history'
  BY <1>40 DEF SignIn
<1>41. ASSUME NEW a \in Accounts, NEW who \in Accounts, SignedIn(a, who)
      PROVE  history \subseteq history'
  BY <1>41 DEF SignedIn, Issued
<1>42. ASSUME NEW a \in Accounts, SignInGivenUp(a)
      PROVE  history \subseteq history'
  BY <1>42 DEF SignInGivenUp
<1>43. ASSUME NEW a \in Accounts, LoginReset(a)
      PROVE  history \subseteq history'
  BY <1>43 DEF LoginReset
<1>44. CASE UNCHANGED vars
  BY <1>44 DEF vars
<1> QED
  BY <1>1, <1>2, <1>3, <1>4, <1>5, <1>6, <1>7, <1>8, <1>9, <1>10, <1>11,
     <1>12, <1>13, <1>14, <1>15, <1>16, <1>17, <1>18, <1>19, <1>20, <1>21,
     <1>22, <1>23, <1>24, <1>25, <1>26, <1>27, <1>28, <1>29, <1>30, <1>31,
     <1>32, <1>33, <1>34, <1>35, <1>36, <1>37, <1>38, <1>39, <1>40, <1>41,
     <1>42, <1>43, <1>44
     DEF Next, Work, Outside

(* Every step keeps Agrees while nothing excused happens.                  *)
LEMMA AgreeStep ==
  TypeOK /\ Where /\ Course /\ Carried /\ Meant /\ Agrees /\ Undisturbed'
     /\ [Next]_vars => Agrees'
<1> SUFFICES ASSUME TypeOK, Where, Course, Carried, Meant, Agrees,
      Undisturbed', [Next]_vars PROVE Agrees'
  OBVIOUS
<1> USE ProfileAssumption, Working
    DEF TypeOK, Where, Course, Carried, Meant, Agrees, Undisturbed, Auth,
          NoAuth, OldLoginKept, Recovering, Transaction,
        Restoring, Cleaning, Unjournaled, Phases, Steps, Kinds, Profile, Pool,
        NoJournal, Journal, NoBefore, NoOp, Op, None, Running, Goto, End,
        Step, Note, Refused, Thrown, files, world
<1>1. ASSUME NEW a \in Accounts, Select(a)
      PROVE  Agrees'
  BY <1>1 DEF Select, Begin
<1>2. ASSUME NEW a \in Accounts, Remove(a)
      PROVE  Agrees'
  BY <1>2 DEF Remove, Begin
<1>3. ASSUME NEW a \in Accounts, Finalize(a)
      PROVE  Agrees'
  BY <1>3 DEF Finalize, Begin
<1>4. CASE Reconcile
  BY <1>4 DEF Reconcile, Begin
<1>5. CASE Discover
  BY <1>5 DEF Discover, Discovered
<1>6. CASE Recover
  BY <1>6
     DEF Recover, Resume, Unrecoverable, Installed, Completed, RolledBack,
         NotStarted, Settled
<1>7. CASE RestoreAuth
  BY <1>7 DEF RestoreAuth
<1>8. CASE RestoreCatalog
  BY <1>8 DEF RestoreCatalog
<1>9. CASE RollBack
  BY <1>9 DEF RollBack, WriteProfile, Toward
<1>10. CASE Complete
  BY <1>10 DEF Complete, WriteProfile, Toward
<1>11. CASE RemoveManifest
  BY <1>11 DEF RemoveManifest
<1>12. CASE RemoveEvidence
  BY <1>12 DEF RemoveEvidence
<1>13. CASE RemoveDirectory
  BY <1>13, RemoveDirectoryIs
     DEF Becomes, Goes, Throws, Heads, Abandons, Failing, Resume
<1>14. CASE Ensure
  <2> HIDE DEF Op, Carried, TypeOK, Where, Course, Agrees, NoOp, Meant
  <2>1. op \in Op /\ op'.pc \in {"none", "apply", "handoff"}
    BY <1>14, EnsureIs DEF Becomes, After, NoOp
  <2>2. UNCHANGED files \/ Discovered
    BY <1>14, EnsureIs
  <2>3. profile.phase = "idle" /\ op.pc = "ensure"
    BY <1>14, EnsureIs DEF Where
  <2>4. CASE UNCHANGED files
    BY <2>1, <2>2, <2>3, <2>4 DEF Agrees
  <2>5. CASE Discovered
    <3>1. /\ profile'.phase = "idle" /\ profile'.active = primary'.who
          /\ UNCHANGED <<primary, catalog, journal>>
      BY <2>3, <2>5, DiscoveredType DEF Discovered, TypeOK
    <3> QED
      BY <2>1, <2>3, <3>1 DEF Agrees
  <2> QED
    BY <2>2, <2>4, <2>5
<1>15. CASE FinalizeLogin
  BY <1>15 DEF FinalizeLogin
<1>16. CASE Handoff
  BY <1>16, HandoffIs DEF Becomes, Goes, Throws, Heads, Abandons, Failing
<1>17. CASE Apply
  <2> HIDE DEF Op, Carried, TypeOK, Where, Course, Agrees, Meant, NoOp,
        Running, files, world
  <2>1. /\ op \in Op /\ op.pc = "apply"
        /\ UNCHANGED <<primary, catalog, journal>>
    BY <1>17, ApplyIs
  <2>2. /\ profile.phase = "idle"
        /\ op.kind = "undo" => op.to = op.before.profile.active
    BY <2>1 DEF Where, Meant
  <2>3. \/ Failing /\ UNCHANGED profile
        \/ /\ Goes("commit") /\ (op.kind = "undo" => op.to = profile.active)
           /\ profile'.phase = "idle" /\ profile'.active = profile.active
        \/ /\ op'.pc = "publish" /\ UNCHANGED profile
    <3>1. op.kind = "undo" => Reopening = {"reopened"}
      BY DEF Reopening
    <3> QED
      BY <1>17, <3>1, ApplyIs DEF Toward, Becomes
  <2> QED
    BY <2>1, <2>2, <2>3
       DEF Agrees, Where, Becomes, Goes, Throws, Failing, NoOp
<1>18. CASE Publish
  BY <1>18 DEF Publish
<1>19. CASE Prepare
  BY <1>19 DEF Prepare, WriteProfile, Toward, Underway
<1>20. CASE Sync
  BY <1>20 DEF Sync
<1>21. CASE BackUp
  BY <1>21 DEF BackUp, WriteProfile, Toward, Underway
<1>22. CASE Install
  BY <1>22 DEF Install
<1>23. CASE TargetCatalog
  BY <1>23, TargetCatalogIs
     DEF Becomes, Goes, Throws, Heads, Abandons, Failing
<1>24. CASE RefreshCatalog
  BY <1>24 DEF RefreshCatalog
<1>25. CASE Record
  BY <1>25, RecordIs
     DEF Becomes, Goes, Throws, Heads, Abandons, Failing, Toward
<1>26. CASE Settle
  BY <1>26 DEF Settle, WriteProfile, Toward
<1>27. CASE Commit
  BY <1>27, CommitIs DEF Becomes, Goes, Throws, Heads, Abandons, Failing
<1>28. CASE Drop
  BY <1>28, DropIs DEF Becomes, Goes, Throws, Heads, Abandons, Failing
<1>29. CASE Unregister
  BY <1>29 DEF Unregister, Successor
<1>30. CASE Undo
  BY <1>30, UndoIs DEF Becomes, Goes, Throws, Heads, Abandons, Failing
<1>31. CASE UndoProfile
  BY <1>31 DEF UndoProfile, WriteProfile
<1>32. CASE UndoPool
  BY <1>32 DEF UndoPool
<1>33. CASE Fails
  <2>1. /\ op \in Op /\ UNCHANGED <<primary, catalog, pool, journal>>
        /\ \/ /\ Failing /\ UNCHANGED profile
              /\ op.pc \in {"apply", "publish", "commit", "unregister"}
           \/ op.pc \in Transaction /\ Abandons /\ UNCHANGED profile
           \/ UNCHANGED profile /\ op' = NoOp
           \/ /\ op.pc \in Restoring /\ op' = NoOp
              /\ profile'.phase = "backed-up"
    <3> HIDE DEF Op, Carried, TypeOK, Where, Course, Agrees, Meant, NoOp,
          Transaction, Restoring
    <3> QED
      BY <1>33, FailsIs DEF Underway, Toward
  <2> HIDE DEF TypeOK, Op, Course, Carried
  <2> QED
    BY <2>1 DEF Throws, Abandons, Becomes, Failing
<1>34. CASE Crash
  BY <1>34 DEF Crash, Unfinished
<1>35. CASE CodexOpens
  BY <1>35 DEF CodexOpens
<1>36. CASE CodexCloses
  BY <1>36 DEF CodexCloses
<1>37. CASE CodexRenews
  <2>1. primary'.who = primary.who
    BY <1>37 DEF CodexRenews, WritePrimary
  <2> QED
    BY <1>37, <2>1 DEF CodexRenews, WritePrimary
<1>38. CASE PublishCatalog
  BY <1>38 DEF PublishCatalog
<1>39. ASSUME NEW a \in Accounts, NativeLogin(a)
      PROVE  Agrees'
  <2>1. primary'.who = primary.who
    BY <1>39 DEF NativeLogin, WritePrimary
  <2> QED
    BY <1>39, <2>1 DEF NativeLogin, WritePrimary
<1>40. ASSUME NEW a \in Accounts, SignIn(a)
      PROVE  Agrees'
  BY <1>40 DEF SignIn
<1>41. ASSUME NEW a \in Accounts, NEW who \in Accounts, SignedIn(a, who)
      PROVE  Agrees'
  BY <1>41 DEF SignedIn, Issued
<1>42. ASSUME NEW a \in Accounts, SignInGivenUp(a)
      PROVE  Agrees'
  BY <1>42 DEF SignInGivenUp
<1>43. ASSUME NEW a \in Accounts, LoginReset(a)
      PROVE  Agrees'
  BY <1>43 DEF LoginReset
<1>44. CASE UNCHANGED vars
  BY <1>44 DEF vars
<1> QED
  BY <1>1, <1>2, <1>3, <1>4, <1>5, <1>6, <1>7, <1>8, <1>9, <1>10, <1>11,
     <1>12, <1>13, <1>14, <1>15, <1>16, <1>17, <1>18, <1>19, <1>20, <1>21,
     <1>22, <1>23, <1>24, <1>25, <1>26, <1>27, <1>28, <1>29, <1>30, <1>31,
     <1>32, <1>33, <1>34, <1>35, <1>36, <1>37, <1>38, <1>39, <1>40, <1>41,
     <1>42, <1>43, <1>44
     DEF Next, Work, Outside

-----------------------------------------------------------------------------

(* An operation that ends, and leaves nothing to excuse, leaves policy and *)
(* profile in step: they are as it found them, or in step again.           *)
LEMMA EndsInStep ==
  ASSUME Course, Faithful, op \in Op, profile.phase = "idle", InStep',
         history' = history \cup Unfinished(profile)
  PROVE  pool.selected \in {None, Heir(profile)}
<1>1. CASE op.before = NoBefore
  <2>1. ~Rewriting
    BY <1>1 DEF Course, Rewriting
  <2> QED
    BY <2>1 DEF Faithful
<1>2. CASE op.before # NoBefore
  <2>1. profile = op.before.profile
    BY <1>2 DEF InStep, Unfinished
  <2>2. op.pc # "none"
    BY DEF Op
  <2> QED
    BY <1>2, <2>1, <2>2 DEF Faithful, Follows
<1> QED
  BY <1>1, <1>2

(* So does one that fails, or it goes on to the undoing.                   *)
LEMMA FailingInStep ==
  ASSUME Course, Faithful, op \in Op, profile.phase = "idle", InStep', Failing,
         UNCHANGED <<profile, pool>>
  PROVE  Faithful'
<1>0. Arrived(profile) /\ op.pc # "none"
  BY DEF Faithful, Op
<1>1. CASE Throws
  BY <1>0, <1>1 DEF Throws, Becomes, Faithful, Rewriting, Transaction,
                    Restoring
<1>2. CASE op' = NoOp /\ history' = history \cup Unfinished(profile)
  <2>1. pool.selected \in {None, Heir(profile)}
    BY <1>2, EndsInStep
  <2> QED
    BY <1>0, <1>2, <2>1 DEF Faithful, Rewriting, Recovering, NoOp,
                            Transaction, Restoring
<1> QED
  BY <1>1, <1>2 DEF Failing

(* Every step keeps Faithful while nothing excused happens.                *)
LEMMA FaithfulStep ==
  TypeOK /\ Where /\ Course /\ Carried /\ Meant /\ Agrees /\ Faithful
     /\ InStep' /\ [Next]_vars => Faithful'
<1> SUFFICES ASSUME TypeOK, Where, Course, Carried, Meant, Agrees, Faithful,
                     InStep', [Next]_vars
             PROVE  Faithful'
  OBVIOUS
<1> USE ProfileAssumption, Working
    DEF InStep, TypeOK, Where, Course, Carried, Meant, Agrees, Faithful, Rewriting,
          Follows, Arrived, Heir, Auth, NoAuth, OldLoginKept, Recovering,
          Transaction,
        Restoring, Cleaning, Unjournaled, Phases, Steps, Kinds, Profile, Pool,
        NoJournal, Journal, NoBefore, NoOp, Op, None, Running, Goto, End,
        Step, Note, Refused, Thrown, files, world
<1>1. ASSUME NEW a \in Accounts, Select(a)
      PROVE  Faithful'
  BY <1>1 DEF Select, Begin
<1>2. ASSUME NEW a \in Accounts, Remove(a)
      PROVE  Faithful'
  BY <1>2 DEF Remove, Begin
<1>3. ASSUME NEW a \in Accounts, Finalize(a)
      PROVE  Faithful'
  BY <1>3 DEF Finalize, Begin
<1>4. CASE Reconcile
  BY <1>4 DEF Reconcile, Begin
<1>5. CASE Discover
  BY <1>5 DEF Discover, Discovered
<1>6. CASE Recover
  BY <1>6
     DEF Recover, Resume, Unrecoverable, Installed, Completed, RolledBack,
         NotStarted, Settled
<1>7. CASE RestoreAuth
  BY <1>7 DEF RestoreAuth
<1>8. CASE RestoreCatalog
  BY <1>8 DEF RestoreCatalog
<1>9. CASE RollBack
  BY <1>9 DEF RollBack, WriteProfile, Toward
<1>10. CASE Complete
  BY <1>10 DEF Complete, WriteProfile, Toward
<1>11. CASE RemoveManifest
  BY <1>11 DEF RemoveManifest
<1>12. CASE RemoveEvidence
  BY <1>12 DEF RemoveEvidence
<1>13. CASE RemoveDirectory
  <2>1. /\ op \in Op /\ profile.phase = "idle"
        /\ UNCHANGED <<profile, pool>>
    BY <1>13, RemoveDirectoryIs
  <2>2. CASE Failing
    BY <2>1, <2>2, FailingInStep
  <2> QED
    BY <1>13, <2>2, RemoveDirectoryIs
       DEF Becomes, Goes, Throws, Heads, Abandons, Resume
<1>14. CASE Ensure
  <2> HIDE DEF Op, Carried, TypeOK, Where, Course, Agrees, NoOp, Meant,
        Faithful, Rewriting, Recovering
  <2>1. /\ op \in Op /\ op.pc = "ensure" /\ UNCHANGED journal
        /\ op.kind # "none" /\ profile.phase = "idle"
    <3>1. op \in Op /\ op.pc = "ensure"
      BY <1>14, EnsureIs
    <3>2. UNCHANGED journal
      BY <1>14, EnsureIs, DiscoveredType
    <3> QED
      BY <3>1, <3>2 DEF Where, Op
  <2>2. UNCHANGED profile /\ pool'.selected = pool.selected
    <3>1. CASE Discovered
      <4>1. profile.active = primary.who
        BY <2>1 DEF Agrees
      <4> QED
        BY <3>1, <4>1 DEF Discovered, TypeOK
    <3> QED
      BY <1>14, EnsureIs, <3>1
  <2>3. ~Rewriting => pool.selected \in {None, Heir(profile)}
    BY <2>1 DEF Faithful
  <2>4. CASE op' = NoOp
    <3>1. \/ history' = history \cup Unfinished(profile)
          \/ op.kind \in {"select", "remove", "reconcile"}
      BY <1>14, <2>1, <2>4, EnsureIs DEF Becomes, After, NoOp
    <3>2. pool.selected \in {None, Heir(profile)}
      BY <2>1, <2>3, <3>1, EndsInStep DEF Rewriting
    <3> QED
      BY <2>1, <2>2, <2>4, <3>2 DEF Faithful, NoOp
  <2>5. CASE op' # NoOp
    <3>1. /\ Becomes(op.kind, After, Aimed, op.then, op.snap, Noted)
          /\ op.kind = "reconcile" => Aimed \in Accounts
      BY <1>14, <2>5, EnsureIs
    <3>2. op.kind # "undo" => pool.selected \in {None, Heir(profile)}
      BY <2>1, <2>3 DEF Rewriting
    <3>3. Arrived(profile)
      BY <2>1 DEF Faithful
    <3>4. op'.before # NoBefore =>
             /\ Follows(op'.before.profile, op'.before.pool)
             /\ pool'.selected = op'.before.pool.selected
      <4>1. CASE op.kind \in {"select", "remove"}
        BY <2>2, <3>1, <3>2, <3>3, <4>1 DEF Becomes, Noted
      <4>2. CASE op.kind \notin {"select", "remove"}
        BY <2>1, <2>2, <3>1, <4>2 DEF Becomes, Noted, Faithful
      <4> QED
        BY <4>1, <4>2
    <3>5. /\ op'.pc = After /\ op'.kind = op.kind /\ op'.to = Aimed
      BY <3>1 DEF Becomes
    <3>6. op.kind = "finalize" => op.to = profile.active
      BY <2>1 DEF Faithful
    <3> QED
      BY <2>1, <2>2, <3>2, <3>3, <3>4, <3>5, <3>6
         DEF Faithful, After, Aimed, Rewriting
  <2> QED
    BY <2>4, <2>5
<1>15. CASE FinalizeLogin
  BY <1>15 DEF FinalizeLogin
<1>16. CASE Handoff
  BY <1>16, HandoffIs DEF Becomes, Goes, Throws, Heads, Abandons, Failing
<1>17. CASE Apply
  <2> HIDE DEF Op, Carried, TypeOK, Where, Course, Agrees, Meant, NoOp,
        Running, files, world, Rewriting, Faithful
  <2>1. /\ op \in Op /\ op.pc = "apply" /\ UNCHANGED <<pool, journal>>
        /\ op.to \in Accounts /\ op.to # None
        /\ op.kind \in {"select", "remove", "undo", "finalize", "reconcile"}
    <3>1. op \in Op /\ op.pc = "apply" /\ UNCHANGED <<pool, journal>>
      BY <1>17, ApplyIs
    <3> QED
      BY <3>1, ProfileAssumption DEF Op
  <2>2. /\ profile.phase = "idle" /\ Arrived(profile)
        /\ op.before # NoBefore =>
              Follows(op.before.profile, op.before.pool)
        /\ op.kind = "finalize" => op.to = profile.active
        /\ op.kind = "reconcile" => op.to = profile.desired
        /\ op.kind \in {"finalize", "reconcile"} =>
              pool.selected \in {None, Heir(profile)}
    BY <2>1 DEF Where, Faithful, Rewriting
  <2>3. /\ op.kind = "finalize" /\ "superseded" \notin Superseding =>
              op.to = Heir(profile)
        /\ op.kind = "reconcile" => op.to = Heir(profile)
    BY <2>1, <2>2 DEF Superseding, Heir, Arrived
  <2>4. \/ Failing /\ UNCHANGED profile
        \/ /\ Goes("commit") /\ profile'.phase = "idle"
           /\ Arrived(profile') /\ Heir(profile') = op.to
           /\ "superseded" \notin Superseding
        \/ /\ Becomes(op.kind, "publish", op.to, "commit", saved[op.to],
                      op.before)
           /\ UNCHANGED profile /\ "superseded" \notin Superseding
    <3>1. \A p \in BOOLEAN : LET q == Toward(op.to, profile.active, p, "idle")
            IN q.phase = "idle" /\ Heir(q) = op.to
               /\ (p \/ op.to = profile.active => Arrived(q))
      BY <2>1 DEF Toward, Heir, Arrived
    <3> DEFINE on == op.to # profile.active \/ primary # saved[op.to]
    <3>2. on \in BOOLEAN /\ (on \/ op.to = profile.active)
      OBVIOUS
    <3> HIDE DEF on, Toward, Arrived, Heir
    <3>3. \/ Failing /\ UNCHANGED profile
          \/ /\ Goes("commit")
             /\ history' = history \cup Superseding \cup Reopening
             /\ profile' = Toward(op.to, profile.active, on, "idle")
          \/ /\ Goes("commit") /\ history' = history \cup Superseding
             /\ op.to = profile.active
             /\ profile' = Toward(op.to, profile.active, FALSE, "idle")
          \/ /\ Becomes(op.kind, "publish", op.to, "commit", saved[op.to],
                      op.before)
             /\ UNCHANGED profile /\ history' = history \cup Superseding
      BY <1>17, ApplyIs DEF on
    <3>4. ASSUME history' = history \cup Superseding
                  \/ history' = history \cup Superseding \cup Reopening
          PROVE  "superseded" \notin Superseding
      BY <3>4
    <3>5. CASE Failing /\ UNCHANGED profile
      BY <3>5
    <3>6. CASE /\ Goes("commit")
               /\ history' = history \cup Superseding \cup Reopening
               /\ profile' = Toward(op.to, profile.active, on, "idle")
      BY <3>1, <3>2, <3>4, <3>6
    <3>7. CASE /\ Goes("commit") /\ history' = history \cup Superseding
               /\ op.to = profile.active
               /\ profile' = Toward(op.to, profile.active, FALSE, "idle")
      BY <3>1, <3>4, <3>7
    <3>8. CASE /\ Becomes(op.kind, "publish", op.to, "commit", saved[op.to],
                         op.before)
               /\ UNCHANGED profile /\ history' = history \cup Superseding
      BY <3>4, <3>8
    <3> QED
      BY <3>3, <3>5, <3>6, <3>7, <3>8
  <2>5. CASE Failing /\ UNCHANGED profile
    BY <2>1, <2>2, <2>5, FailingInStep
  <2>6. CASE /\ Goes("commit") /\ profile'.phase = "idle"
             /\ Arrived(profile') /\ Heir(profile') = op.to
             /\ "superseded" \notin Superseding
    BY <2>1, <2>2, <2>3, <2>6
       DEF Goes, Becomes, Faithful, Rewriting, Recovering
  <2>7. CASE /\ Becomes(op.kind, "publish", op.to, "commit", saved[op.to],
                         op.before)
             /\ UNCHANGED profile /\ "superseded" \notin Superseding
    BY <2>1, <2>2, <2>3, <2>7 DEF Becomes, Faithful, Rewriting
  <2> QED
    BY <2>4, <2>5, <2>6, <2>7
<1>18. CASE Publish
  BY <1>18 DEF Publish
<1>19. CASE Prepare
  BY <1>19 DEF Prepare, WriteProfile, Toward, Underway
<1>20. CASE Sync
  BY <1>20 DEF Sync
<1>21. CASE BackUp
  BY <1>21 DEF BackUp, WriteProfile, Toward, Underway
<1>22. CASE Install
  BY <1>22 DEF Install
<1>23. CASE TargetCatalog
  BY <1>23, TargetCatalogIs
     DEF Becomes, Goes, Throws, Heads, Abandons, Failing
<1>24. CASE RefreshCatalog
  BY <1>24 DEF RefreshCatalog
<1>25. CASE Record
  BY <1>25, RecordIs
     DEF Becomes, Goes, Throws, Heads, Abandons, Failing, Toward
<1>26. CASE Settle
  BY <1>26 DEF Settle, WriteProfile, Toward
<1>27. CASE Commit
  BY <1>27, CommitIs DEF Becomes, Goes, Throws, Heads, Abandons, Failing
<1>28. CASE Drop
  BY <1>28, DropIs DEF Becomes, Goes, Throws, Heads, Abandons, Failing
<1>29. CASE Unregister
  BY <1>29 DEF Unregister, Successor
<1>30. CASE Undo
  BY <1>30, UndoIs DEF Becomes, Goes, Throws, Heads, Abandons, Failing
<1>31. CASE UndoProfile
  BY <1>31 DEF UndoProfile, WriteProfile
<1>32. CASE UndoPool
  BY <1>32 DEF UndoPool
<1>33. CASE Fails
  <2> HIDE DEF Op, Carried, TypeOK, Where, Course, Agrees, Meant, NoOp,
        Faithful, Rewriting
  <2>1. /\ op \in Op /\ UNCHANGED <<pool, journal>>
        /\ \/ /\ Failing /\ UNCHANGED profile
              /\ op.pc \in {"apply", "publish", "commit", "unregister"}
           \/ op.pc \in Transaction /\ Abandons /\ UNCHANGED profile
           \/ /\ \/ op.pc = "complete"
                 \/ op.pc \in Restoring /\ op.then = "recovered"
                 \/ op.pc = "commit" /\ op.kind = "finalize"
              /\ UNCHANGED profile /\ op' = NoOp
           \/ /\ op.pc \in {"undoState", "undoPool"} /\ op' = NoOp
              /\ history' = history \cup Unfinished(profile)
              /\ UNCHANGED profile
           \/ /\ op.pc \in Restoring /\ op.then = "thrown"
              /\ profile' = Underway("backed-up") /\ op' = NoOp
              /\ op.kind \notin {"select", "remove", "undo"}
    <3>1. ASSUME op \in Op, op.pc \in Restoring, op.then = "thrown",
                 profile' = Underway("backed-up"),
                 history' = history \cup Unfinished(profile')
          PROVE  op.kind \notin {"select", "remove", "undo"}
      <4>1. profile'.phase = "backed-up"
        BY <3>1 DEF Underway, Toward
      <4>2. op.before = NoBefore \/ profile' = op.before.profile
        BY <3>1 DEF Unfinished
      <4>3. op.before = NoBefore
        BY <3>1, <4>1, <4>2 DEF Course, NoOp
      <4> QED
        BY <3>1, <4>3 DEF Course, Recovering
    <3> QED
      BY <1>33, <3>1, FailsIs
  <2>2. CASE /\ Failing /\ UNCHANGED profile
             /\ op.pc \in {"apply", "publish", "commit", "unregister"}
    <3>1. profile.phase = "idle"
      BY <2>2 DEF Where
    <3> QED
      BY <2>1, <2>2, <3>1, FailingInStep
  <2>3. CASE op.pc \in Transaction /\ Abandons /\ UNCHANGED profile
    BY <2>1, <2>3
       DEF Abandons, Becomes, Faithful, Rewriting, Course, Recovering
  <2>4. CASE /\ \/ op.pc = "complete"
                \/ op.pc \in Restoring /\ op.then = "recovered"
                \/ op.pc = "commit" /\ op.kind = "finalize"
             /\ UNCHANGED profile /\ op' = NoOp
    BY <2>1, <2>4 DEF Faithful, Rewriting, NoOp, Course, Recovering
  <2>5. CASE /\ op.pc \in Restoring /\ op.then = "thrown"
             /\ profile' = Underway("backed-up") /\ op' = NoOp
             /\ op.kind \notin {"select", "remove", "undo"}
    BY <2>1, <2>5 DEF Faithful, Rewriting, NoOp, Underway, Toward
  <2>6. CASE /\ op.pc \in {"undoState", "undoPool"} /\ op' = NoOp
             /\ history' = history \cup Unfinished(profile)
             /\ UNCHANGED profile
    <3>1. profile.phase = "idle"
      BY <2>6 DEF Where, Unjournaled
    <3>2. pool.selected \in {None, Heir(profile)}
      BY <2>1, <2>6, <3>1, EndsInStep
    <3> QED
      BY <2>1, <2>6, <3>1, <3>2 DEF Faithful, Rewriting, NoOp
  <2> QED
    BY <2>1, <2>2, <2>3, <2>4, <2>5, <2>6
<1>34. CASE Crash
  BY <1>34 DEF Crash, Unfinished
<1>35. CASE CodexOpens
  BY <1>35 DEF CodexOpens
<1>36. CASE CodexCloses
  BY <1>36 DEF CodexCloses
<1>37. CASE CodexRenews
  BY <1>37 DEF CodexRenews, WritePrimary, Issued
<1>38. CASE PublishCatalog
  BY <1>38 DEF PublishCatalog
<1>39. ASSUME NEW a \in Accounts, NativeLogin(a)
      PROVE  Faithful'
  BY <1>39 DEF NativeLogin, WritePrimary, Issued
<1>40. ASSUME NEW a \in Accounts, SignIn(a)
      PROVE  Faithful'
  BY <1>40 DEF SignIn
<1>41. ASSUME NEW a \in Accounts, NEW who \in Accounts, SignedIn(a, who)
      PROVE  Faithful'
  BY <1>41 DEF SignedIn, Issued
<1>42. ASSUME NEW a \in Accounts, SignInGivenUp(a)
      PROVE  Faithful'
  BY <1>42 DEF SignInGivenUp
<1>43. ASSUME NEW a \in Accounts, LoginReset(a)
      PROVE  Faithful'
  BY <1>43 DEF LoginReset
<1>44. CASE UNCHANGED vars
  BY <1>44 DEF vars
<1> QED
  BY <1>1, <1>2, <1>3, <1>4, <1>5, <1>6, <1>7, <1>8, <1>9, <1>10, <1>11,
     <1>12, <1>13, <1>14, <1>15, <1>16, <1>17, <1>18, <1>19, <1>20, <1>21,
     <1>22, <1>23, <1>24, <1>25, <1>26, <1>27, <1>28, <1>29, <1>30, <1>31,
     <1>32, <1>33, <1>34, <1>35, <1>36, <1>37, <1>38, <1>39, <1>40, <1>41,
     <1>42, <1>43, <1>44
     DEF Next, Work, Outside

-----------------------------------------------------------------------------

(* Every step keeps Kept while nothing excused happens.                    *)
LEMMA KeptStep ==
  TypeOK /\ Where /\ Course /\ Carried /\ Meant /\ Kept /\ Evidence
     /\ Untouched' /\ [Next]_vars => Kept'
<1> SUFFICES ASSUME TypeOK, Where, Course, Carried, Meant, Kept, Evidence,
                     Untouched', [Next]_vars PROVE Kept'
  OBVIOUS
<1> USE ProfileAssumption, Working
    DEF TypeOK, Where, Course, Carried, Meant, Untouched, Kept, Evidence, Fit,
          Mistaken, Auth, NoAuth, OldLoginKept, Recovering, Transaction,
        Restoring, Cleaning, Unjournaled, Phases, Steps, Kinds, Profile, Pool,
        NoJournal, Journal, NoBefore, NoOp, Op, None, Running, Goto, End,
        Step, Note, Refused, Thrown, files, world
<1>1. ASSUME NEW a \in Accounts, Select(a)
      PROVE  Kept'
  BY <1>1 DEF Select, Begin
<1>2. ASSUME NEW a \in Accounts, Remove(a)
      PROVE  Kept'
  BY <1>2 DEF Remove, Begin
<1>3. ASSUME NEW a \in Accounts, Finalize(a)
      PROVE  Kept'
  BY <1>3 DEF Finalize, Begin
<1>4. CASE Reconcile
  BY <1>4 DEF Reconcile, Begin
<1>5. CASE Discover
  BY <1>5 DEF Discover, Discovered
<1>6. CASE Recover
  BY <1>6
     DEF Recover, Resume, Unrecoverable, Installed, Completed, RolledBack,
         NotStarted, Settled
<1>7. CASE RestoreAuth
  BY <1>7 DEF RestoreAuth
<1>8. CASE RestoreCatalog
  BY <1>8 DEF RestoreCatalog
<1>9. CASE RollBack
  BY <1>9 DEF RollBack, WriteProfile, Toward
<1>10. CASE Complete
  BY <1>10 DEF Complete, WriteProfile, Toward
<1>11. CASE RemoveManifest
  BY <1>11 DEF RemoveManifest
<1>12. CASE RemoveEvidence
  BY <1>12 DEF RemoveEvidence
<1>13. CASE RemoveDirectory
  BY <1>13, RemoveDirectoryIs
     DEF Becomes, Goes, Throws, Heads, Abandons, Failing, Resume
<1>14. CASE Ensure
  <2> HIDE DEF Op, Carried, TypeOK, Where, Course, Evidence, NoOp, Meant,
        Kept, files, world
  <2>1. /\ op \in Op /\ op.pc = "ensure" /\ UNCHANGED live
        /\ op'.pc \in {"none", "apply", "handoff"}
        /\ op'.pc # "none" => op'.arg = op.arg
        /\ op'.pc = "handoff" => op.kind = "remove"
        /\ op'.pc = "apply" => op.kind # "remove"
        /\ Discovered \/ UNCHANGED files
        /\ \/ op' = NoOp \/ Discovered
           \/ op.kind = "remove" /\ UNCHANGED files /\ op.arg # profile.active
    BY <1>14, EnsureIs DEF Becomes, After, NoOp, world
  <2>2. CASE Discovered
    <3>1. /\ primary' = primary /\ newer' = newer
          /\ profile'.active = primary.who
      BY <2>2 DEF Discovered, TypeOK
    <3>2. \A a \in newer : saved'[a] \in live
      BY <2>2 DEF Discovered, Kept, TypeOK
    <3> QED
      BY <2>1, <3>1, <3>2 DEF Kept
  <2>3. CASE UNCHANGED files /\ ~Discovered
    BY <2>1, <2>3 DEF Kept, files, NoOp
  <2> QED
    BY <2>1, <2>2, <2>3
<1>15. CASE FinalizeLogin
  BY <1>15 DEF FinalizeLogin
<1>16. CASE Handoff
  BY <1>16, HandoffIs DEF Becomes, Goes, Throws, Heads, Abandons, Failing
<1>17. CASE Apply
  BY <1>17, ApplyIs
     DEF Becomes, Goes, Throws, Heads, Abandons, Failing, Toward
<1>18. CASE Publish
  BY <1>18 DEF Publish
<1>19. CASE Prepare
  BY <1>19 DEF Prepare, WriteProfile, Toward, Underway
<1>20. CASE Sync
  <2>1. /\ op.pc = "sync" /\ op' \in Op /\ op'.pc = "backedUp"
        /\ op'.to = op.to /\ op'.snap = op.snap
        /\ UNCHANGED <<profile, journal, live>>
        /\ profile.phase = "preparing" \/ profile.phase = "backed-up"
        /\ primary = journal.auth /\ journal.auth.who = journal.active
        /\ journal.target = op.to
    BY <1>20 DEF Sync
  <2>2. primary'.who = journal.active
    <3>1. history' = history \cup (IF primary'.who # primary.who THEN {"mixed"}
                                  ELSE {})
      BY <1>20 DEF Sync
    <3> QED
      BY <2>1, <3>1
  <2>3. CASE journal.active = journal.target
    BY <1>20, <2>1, <2>2, <2>3 DEF Sync
  <2>4. CASE journal.active # journal.target /\ journal.active \notin newer
    <3>1. /\ UNCHANGED <<primary, newer>>
          /\ saved' = [saved EXCEPT ![journal.active] = primary]
      BY <1>20, <2>4 DEF Sync
    <3> QED
      BY <2>1, <2>2, <2>4, <3>1
  <2>5. CASE journal.active # journal.target /\ journal.active \in newer
    <3>1. /\ primary' = saved[journal.active] /\ newer' = {}
          /\ UNCHANGED saved
      BY <1>20, <2>5 DEF Sync
    <3> QED
      BY <2>1, <2>2, <2>5, <3>1
  <2> QED
    BY <2>3, <2>4, <2>5
<1>21. CASE BackUp
  BY <1>21 DEF BackUp, WriteProfile, Toward, Underway
<1>22. CASE Install
  BY <1>22 DEF Install
<1>23. CASE TargetCatalog
  BY <1>23, TargetCatalogIs
     DEF Becomes, Goes, Throws, Heads, Abandons, Failing
<1>24. CASE RefreshCatalog
  BY <1>24 DEF RefreshCatalog
<1>25. CASE Record
  BY <1>25, RecordIs
     DEF Becomes, Goes, Throws, Heads, Abandons, Failing, Toward
<1>26. CASE Settle
  BY <1>26 DEF Settle, WriteProfile, Toward
<1>27. CASE Commit
  BY <1>27, CommitIs DEF Becomes, Goes, Throws, Heads, Abandons, Failing
<1>28. CASE Drop
  BY <1>28, DropIs DEF Becomes, Goes, Throws, Heads, Abandons, Failing
<1>29. CASE Unregister
  BY <1>29 DEF Unregister, Successor
<1>30. CASE Undo
  BY <1>30, UndoIs DEF Becomes, Goes, Throws, Heads, Abandons, Failing
<1>31. CASE UndoProfile
  BY <1>31 DEF UndoProfile, WriteProfile
<1>32. CASE UndoPool
  BY <1>32 DEF UndoPool
<1>33. CASE Fails
  BY <1>33, FailsIs
     DEF Becomes, Goes, Throws, Heads, Abandons, Failing, Underway, Toward
<1>34. CASE Crash
  BY <1>34 DEF Crash, Unfinished
<1>35. CASE CodexOpens
  BY <1>35 DEF CodexOpens
<1>36. CASE CodexCloses
  BY <1>36 DEF CodexCloses
<1>37. CASE CodexRenews
  <2>1. /\ op = NoOp /\ op' = NoOp /\ newer' = {} /\ primary' \in live'
    <3>1. op = NoOp /\ UNCHANGED op
      BY <1>37 DEF CodexRenews, WritePrimary
    <3> QED
      BY <1>37, <3>1 DEF CodexRenews, WritePrimary
  <2> QED
    BY <2>1
<1>38. CASE PublishCatalog
  BY <1>38 DEF PublishCatalog
<1>39. ASSUME NEW a \in Accounts, NativeLogin(a)
      PROVE  Kept'
  <2>1. /\ op = NoOp /\ op' = NoOp /\ newer' = {} /\ primary' \in live'
    <3>1. op = NoOp /\ UNCHANGED op
      BY <1>39 DEF NativeLogin, WritePrimary
    <3> QED
      BY <1>39, <3>1 DEF NativeLogin, WritePrimary
  <2> QED
    BY <2>1
<1>40. ASSUME NEW a \in Accounts, SignIn(a)
      PROVE  Kept'
  BY <1>40 DEF SignIn
<1>41. ASSUME NEW a \in Accounts, NEW who \in Accounts, SignedIn(a, who)
      PROVE  Kept'
  BY <1>41 DEF SignedIn, Issued
<1>42. ASSUME NEW a \in Accounts, SignInGivenUp(a)
      PROVE  Kept'
  BY <1>42 DEF SignInGivenUp
<1>43. ASSUME NEW a \in Accounts, LoginReset(a)
      PROVE  Kept'
  BY <1>43 DEF LoginReset
<1>44. CASE UNCHANGED vars
  BY <1>44 DEF vars
<1> QED
  BY <1>1, <1>2, <1>3, <1>4, <1>5, <1>6, <1>7, <1>8, <1>9, <1>10, <1>11,
     <1>12, <1>13, <1>14, <1>15, <1>16, <1>17, <1>18, <1>19, <1>20, <1>21,
     <1>22, <1>23, <1>24, <1>25, <1>26, <1>27, <1>28, <1>29, <1>30, <1>31,
     <1>32, <1>33, <1>34, <1>35, <1>36, <1>37, <1>38, <1>39, <1>40, <1>41,
     <1>42, <1>43, <1>44
     DEF Next, Work, Outside

(* Every step keeps Evidence while nothing excused happens.                *)
LEMMA EvidenceStep ==
  TypeOK /\ Where /\ Course /\ Carried /\ Meant /\ Kept /\ Evidence
     /\ Untouched' /\ [Next]_vars => Evidence'
<1> SUFFICES ASSUME TypeOK, Where, Course, Carried, Meant, Kept, Evidence,
                     Untouched', [Next]_vars PROVE Evidence'
  OBVIOUS
<1> USE ProfileAssumption, Working
    DEF TypeOK, Where, Course, Carried, Meant, Untouched, Kept, Evidence, Fit,
          Mistaken, Auth, NoAuth, OldLoginKept, Recovering, Transaction,
        Restoring, Cleaning, Unjournaled, Phases, Steps, Kinds, Profile, Pool,
        NoJournal, Journal, NoBefore, NoOp, Op, None, Running, Goto, End,
        Step, Note, Refused, Thrown, files, world
<1>1. ASSUME NEW a \in Accounts, Select(a)
      PROVE  Evidence'
  BY <1>1 DEF Select, Begin
<1>2. ASSUME NEW a \in Accounts, Remove(a)
      PROVE  Evidence'
  BY <1>2 DEF Remove, Begin
<1>3. ASSUME NEW a \in Accounts, Finalize(a)
      PROVE  Evidence'
  BY <1>3 DEF Finalize, Begin
<1>4. CASE Reconcile
  BY <1>4 DEF Reconcile, Begin
<1>5. CASE Discover
  BY <1>5 DEF Discover, Discovered
<1>6. CASE Recover
  BY <1>6
     DEF Recover, Resume, Unrecoverable, Installed, Completed, RolledBack,
         NotStarted, Settled
<1>7. CASE RestoreAuth
  BY <1>7 DEF RestoreAuth
<1>8. CASE RestoreCatalog
  BY <1>8 DEF RestoreCatalog
<1>9. CASE RollBack
  BY <1>9 DEF RollBack, WriteProfile, Toward
<1>10. CASE Complete
  BY <1>10 DEF Complete, WriteProfile, Toward
<1>11. CASE RemoveManifest
  BY <1>11 DEF RemoveManifest
<1>12. CASE RemoveEvidence
  BY <1>12 DEF RemoveEvidence
<1>13. CASE RemoveDirectory
  BY <1>13, RemoveDirectoryIs
     DEF Becomes, Goes, Throws, Heads, Abandons, Failing, Resume
<1>14. CASE Ensure
  BY <1>14, EnsureIs, DiscoveredType
     DEF Becomes, Goes, Throws, Heads, Abandons, Failing, Aimed, Noted, After
<1>15. CASE FinalizeLogin
  BY <1>15 DEF FinalizeLogin
<1>16. CASE Handoff
  BY <1>16, HandoffIs DEF Becomes, Goes, Throws, Heads, Abandons, Failing
<1>17. CASE Apply
  BY <1>17, ApplyIs
     DEF Becomes, Goes, Throws, Heads, Abandons, Failing, Toward
<1>18. CASE Publish
  BY <1>18 DEF Publish
<1>19. CASE Prepare
  BY <1>19 DEF Prepare, WriteProfile, Toward, Underway
<1>20. CASE Sync
  <2>1. /\ primary' \in Auth /\ primary'.who = journal.active
        /\ profile.phase \in {"preparing", "backed-up"}
        /\ journal.auth \in live /\ journal.auth.who = journal.active
        /\ UNCHANGED <<profile, journal, live>>
    <3>1. primary = journal.auth /\ journal.dir = "full"
      BY <1>20 DEF Sync
    <3>2. primary'.who = primary.who
      BY <1>20 DEF Sync
    <3> QED
      BY <1>20, <3>1, <3>2 DEF Sync
  <2> QED
    BY <2>1
<1>21. CASE BackUp
  BY <1>21 DEF BackUp, WriteProfile, Toward, Underway
<1>22. CASE Install
  <2>1. /\ op.snap \in live /\ primary' = op.snap
        /\ UNCHANGED <<profile, journal, saved, live>>
    BY <1>22 DEF Install
  <2>2. /\ op.snap.who = journal.target /\ op.to = journal.target
        /\ profile.phase \in {"preparing", "backed-up"}
        /\ saved[op.to] = op.snap \/ Fit(op.to)
        /\ journal.auth \in live /\ journal.auth.who = journal.active
    BY <1>22 DEF Install
  <2> QED
    BY <2>1, <2>2
<1>23. CASE TargetCatalog
  BY <1>23, TargetCatalogIs
     DEF Becomes, Goes, Throws, Heads, Abandons, Failing
<1>24. CASE RefreshCatalog
  BY <1>24 DEF RefreshCatalog
<1>25. CASE Record
  BY <1>25, RecordIs
     DEF Becomes, Goes, Throws, Heads, Abandons, Failing, Toward
<1>26. CASE Settle
  BY <1>26 DEF Settle, WriteProfile, Toward
<1>27. CASE Commit
  BY <1>27, CommitIs DEF Becomes, Goes, Throws, Heads, Abandons, Failing
<1>28. CASE Drop
  BY <1>28, DropIs DEF Becomes, Goes, Throws, Heads, Abandons, Failing
<1>29. CASE Unregister
  BY <1>29 DEF Unregister, Successor
<1>30. CASE Undo
  BY <1>30, UndoIs DEF Becomes, Goes, Throws, Heads, Abandons, Failing
<1>31. CASE UndoProfile
  BY <1>31 DEF UndoProfile, WriteProfile
<1>32. CASE UndoPool
  BY <1>32 DEF UndoPool
<1>33. CASE Fails
  BY <1>33, FailsIs
     DEF Becomes, Goes, Throws, Heads, Abandons, Failing, Underway, Toward
<1>34. CASE Crash
  BY <1>34 DEF Crash, Unfinished
<1>35. CASE CodexOpens
  BY <1>35 DEF CodexOpens
<1>36. CASE CodexCloses
  BY <1>36 DEF CodexCloses
<1>37. CASE CodexRenews
  <2>1. journal = NoJournal /\ UNCHANGED journal
    BY <1>37 DEF CodexRenews, WritePrimary
  <2> QED
    BY <2>1
<1>38. CASE PublishCatalog
  BY <1>38 DEF PublishCatalog
<1>39. ASSUME NEW a \in Accounts, NativeLogin(a)
      PROVE  Evidence'
  <2>1. journal = NoJournal /\ UNCHANGED journal
    BY <1>39 DEF NativeLogin, WritePrimary
  <2> QED
    BY <2>1
<1>40. ASSUME NEW a \in Accounts, SignIn(a)
      PROVE  Evidence'
  BY <1>40 DEF SignIn
<1>41. ASSUME NEW a \in Accounts, NEW who \in Accounts, SignedIn(a, who)
      PROVE  Evidence'
  BY <1>41 DEF SignedIn, Issued
<1>42. ASSUME NEW a \in Accounts, SignInGivenUp(a)
      PROVE  Evidence'
  BY <1>42 DEF SignInGivenUp
<1>43. ASSUME NEW a \in Accounts, LoginReset(a)
      PROVE  Evidence'
  BY <1>43 DEF LoginReset
<1>44. CASE UNCHANGED vars
  BY <1>44 DEF vars
<1> QED
  BY <1>1, <1>2, <1>3, <1>4, <1>5, <1>6, <1>7, <1>8, <1>9, <1>10, <1>11,
     <1>12, <1>13, <1>14, <1>15, <1>16, <1>17, <1>18, <1>19, <1>20, <1>21,
     <1>22, <1>23, <1>24, <1>25, <1>26, <1>27, <1>28, <1>29, <1>30, <1>31,
     <1>32, <1>33, <1>34, <1>35, <1>36, <1>37, <1>38, <1>39, <1>40, <1>41,
     <1>42, <1>43, <1>44
     DEF Next, Work, Outside

(* Every step keeps Fresh.                                                 *)
LEMMA FreshStep ==
  TypeOK /\ Where /\ Course /\ Fresh /\ [Next]_vars => Fresh'
<1> SUFFICES ASSUME TypeOK, Where, Course, Fresh, [Next]_vars PROVE Fresh'
  OBVIOUS
<1> USE Working DEF TypeOK, Fresh, Setting, Auth, Spend, Goto, End, Step,
      files, world
<1>1. ASSUME NEW a \in Accounts, Select(a)
      PROVE  Fresh'
  BY <1>1 DEF Select, Begin
<1>2. ASSUME NEW a \in Accounts, Remove(a)
      PROVE  Fresh'
  BY <1>2 DEF Remove, Begin
<1>3. ASSUME NEW a \in Accounts, Finalize(a)
      PROVE  Fresh'
  BY <1>3 DEF Finalize, Begin
<1>4. CASE Reconcile
  BY <1>4 DEF Reconcile, Begin
<1>5. CASE Discover
  BY <1>5 DEF Discover, Discovered
<1>6. CASE Recover
  BY <1>6
     DEF Recover, Resume, Unrecoverable, Installed, Completed, RolledBack,
         NotStarted, Settled
<1>7. CASE RestoreAuth
  BY <1>7 DEF RestoreAuth
<1>8. CASE RestoreCatalog
  BY <1>8 DEF RestoreCatalog
<1>9. CASE RollBack
  BY <1>9 DEF RollBack, WriteProfile, Toward
<1>10. CASE Complete
  BY <1>10 DEF Complete, WriteProfile, Toward
<1>11. CASE RemoveManifest
  BY <1>11 DEF RemoveManifest
<1>12. CASE RemoveEvidence
  BY <1>12 DEF RemoveEvidence
<1>13. CASE RemoveDirectory
  BY <1>13, RemoveDirectoryIs
     DEF Becomes, Goes, Throws, Heads, Abandons, Failing, Resume
<1>14. CASE Ensure
  BY <1>14, EnsureIs, DiscoveredType
     DEF Becomes, Goes, Throws, Heads, Abandons, Failing, Aimed, Noted, After
<1>15. CASE FinalizeLogin
  BY <1>15 DEF FinalizeLogin
<1>16. CASE Handoff
  BY <1>16, HandoffIs DEF Becomes, Goes, Throws, Heads, Abandons, Failing
<1>17. CASE Apply
  BY <1>17, ApplyIs
     DEF Becomes, Goes, Throws, Heads, Abandons, Failing, Toward
<1>18. CASE Publish
  BY <1>18 DEF Publish
<1>19. CASE Prepare
  BY <1>19 DEF Prepare, WriteProfile, Toward, Underway
<1>20. CASE Sync
  BY <1>20 DEF Sync
<1>21. CASE BackUp
  BY <1>21 DEF BackUp, WriteProfile, Toward, Underway
<1>22. CASE Install
  BY <1>22 DEF Install
<1>23. CASE TargetCatalog
  BY <1>23, TargetCatalogIs
     DEF Becomes, Goes, Throws, Heads, Abandons, Failing
<1>24. CASE RefreshCatalog
  BY <1>24 DEF RefreshCatalog
<1>25. CASE Record
  BY <1>25, RecordIs
     DEF Becomes, Goes, Throws, Heads, Abandons, Failing, Toward
<1>26. CASE Settle
  BY <1>26 DEF Settle, WriteProfile, Toward
<1>27. CASE Commit
  BY <1>27, CommitIs DEF Becomes, Goes, Throws, Heads, Abandons, Failing
<1>28. CASE Drop
  BY <1>28, DropIs DEF Becomes, Goes, Throws, Heads, Abandons, Failing
<1>29. CASE Unregister
  BY <1>29 DEF Unregister, Successor
<1>30. CASE Undo
  BY <1>30, UndoIs DEF Becomes, Goes, Throws, Heads, Abandons, Failing
<1>31. CASE UndoProfile
  BY <1>31 DEF UndoProfile, WriteProfile
<1>32. CASE UndoPool
  BY <1>32 DEF UndoPool
<1>33. CASE Fails
  <2>1. UNCHANGED live
    BY <1>33 DEF Fails
  <2>2. bounds'.minted = bounds.minted
    BY <1>33 DEF Fails
  <2> QED
    BY <2>1, <2>2
<1>34. CASE Crash
  BY <1>34 DEF Crash, Unfinished
<1>35. CASE CodexOpens
  BY <1>35 DEF CodexOpens
<1>36. CASE CodexCloses
  BY <1>36 DEF CodexCloses
<1>37. CASE CodexRenews
  BY <1>37 DEF CodexRenews, WritePrimary, Issued
<1>38. CASE PublishCatalog
  BY <1>38 DEF PublishCatalog
<1>39. ASSUME NEW a \in Accounts, NativeLogin(a)
      PROVE  Fresh'
  BY <1>39 DEF NativeLogin, WritePrimary, Issued
<1>40. ASSUME NEW a \in Accounts, SignIn(a)
      PROVE  Fresh'
  BY <1>40 DEF SignIn
<1>41. ASSUME NEW a \in Accounts, NEW who \in Accounts, SignedIn(a, who)
      PROVE  Fresh'
  BY <1>41 DEF SignedIn, Issued
<1>42. ASSUME NEW a \in Accounts, SignInGivenUp(a)
      PROVE  Fresh'
  BY <1>42 DEF SignInGivenUp
<1>43. ASSUME NEW a \in Accounts, LoginReset(a)
      PROVE  Fresh'
  BY <1>43 DEF LoginReset
<1>44. CASE UNCHANGED vars
  BY <1>44 DEF vars
<1> QED
  BY <1>1, <1>2, <1>3, <1>4, <1>5, <1>6, <1>7, <1>8, <1>9, <1>10, <1>11,
     <1>12, <1>13, <1>14, <1>15, <1>16, <1>17, <1>18, <1>19, <1>20, <1>21,
     <1>22, <1>23, <1>24, <1>25, <1>26, <1>27, <1>28, <1>29, <1>30, <1>31,
     <1>32, <1>33, <1>34, <1>35, <1>36, <1>37, <1>38, <1>39, <1>40, <1>41,
     <1>42, <1>43, <1>44
     DEF Next, Work, Outside

(* A step of an operation leaves every account a login the server accepts, *)
(* if it had one and is not excused.                                       *)
LEMMA CredentialsStep ==
  TypeOK /\ Where /\ Course /\ Carried /\ Meant /\ Kept /\ Evidence
     /\ Fresh /\ Untouched' /\ op # NoOp /\ live' = live /\ [Next]_vars =>
     \A x \in pool.accounts : Spared(x) \/ (Usable(x) => Usable(x)')
<1> SUFFICES ASSUME TypeOK, Where, Course, Carried, Meant, Kept, Evidence,
                    Fresh, Untouched', op # NoOp, live' = live, [Next]_vars,
                    NEW x \in pool.accounts, ~Spared(x), Usable(x)
             PROVE  Usable(x)'
  OBVIOUS
<1>0. x \in Accounts
  BY DEF TypeOK, Pool
<1> USE ProfileAssumption, Working, <1>0
    DEF TypeOK, Where, Course, Carried, Meant, Untouched, Kept, Evidence, Fit,
          Mistaken, Auth, NoAuth, Spared, Usable, OnDisk, OldLoginKept,
          Recovering, Transaction,
        Restoring, Cleaning, Unjournaled, Phases, Steps, Kinds, Profile, Pool,
        NoJournal, Journal, NoBefore, NoOp, Op, None, Running, Goto, End,
        Step, Note, Refused, Thrown, files, world
<1>1. ASSUME NEW a \in Accounts, Select(a)
      PROVE  Usable(x)'
  BY <1>1 DEF Select, Begin
<1>2. ASSUME NEW a \in Accounts, Remove(a)
      PROVE  Usable(x)'
  BY <1>2 DEF Remove, Begin
<1>3. ASSUME NEW a \in Accounts, Finalize(a)
      PROVE  Usable(x)'
  BY <1>3 DEF Finalize, Begin
<1>4. CASE Reconcile
  BY <1>4 DEF Reconcile, Begin
<1>5. CASE Discover
  BY <1>5 DEF Discover, Discovered
<1>6. CASE Recover
  BY <1>6
     DEF Recover, Resume, Unrecoverable, Installed, Completed, RolledBack,
         NotStarted, Settled
<1>7. CASE RestoreAuth
  BY <1>7 DEF RestoreAuth
<1>8. CASE RestoreCatalog
  BY <1>8 DEF RestoreCatalog
<1>9. CASE RollBack
  BY <1>9 DEF RollBack, WriteProfile, Toward
<1>10. CASE Complete
  BY <1>10 DEF Complete, WriteProfile, Toward
<1>11. CASE RemoveManifest
  BY <1>11 DEF RemoveManifest
<1>12. CASE RemoveEvidence
  BY <1>12 DEF RemoveEvidence
<1>13. CASE RemoveDirectory
  BY <1>13, RemoveDirectoryIs
     DEF Becomes, Goes, Throws, Heads, Abandons, Failing, Resume
<1>14. CASE Ensure
  <2> HIDE DEF Op, Carried, TypeOK, Where, Course, Evidence, NoOp, Meant,
        Kept, files, world
  <2>1. /\ UNCHANGED <<live, primary, journal>>
        /\ UNCHANGED saved \/ Discovered
    BY <1>14, EnsureIs, DiscoveredType DEF files, world, Discovered
  <2>2. saved'[x] = saved[x]
    BY <2>1 DEF Discovered, TypeOK, Pool
  <2> QED
    BY <2>1, <2>2 DEF Usable, OnDisk
<1>15. CASE FinalizeLogin
  BY <1>15 DEF FinalizeLogin
<1>16. CASE Handoff
  BY <1>16, HandoffIs DEF Becomes, Goes, Throws, Heads, Abandons, Failing
<1>17. CASE Apply
  BY <1>17, ApplyIs
     DEF Becomes, Goes, Throws, Heads, Abandons, Failing, Toward
<1>18. CASE Publish
  BY <1>18 DEF Publish
<1>19. CASE Prepare
  BY <1>19 DEF Prepare, WriteProfile, Toward, Underway
<1>20. CASE Sync
  BY <1>20 DEF Sync
<1>21. CASE BackUp
  BY <1>21 DEF BackUp, WriteProfile, Toward, Underway
<1>22. CASE Install
  BY <1>22 DEF Install
<1>23. CASE TargetCatalog
  BY <1>23, TargetCatalogIs
     DEF Becomes, Goes, Throws, Heads, Abandons, Failing
<1>24. CASE RefreshCatalog
  BY <1>24 DEF RefreshCatalog
<1>25. CASE Record
  BY <1>25, RecordIs
     DEF Becomes, Goes, Throws, Heads, Abandons, Failing, Toward
<1>26. CASE Settle
  BY <1>26 DEF Settle, WriteProfile, Toward
<1>27. CASE Commit
  BY <1>27, CommitIs DEF Becomes, Goes, Throws, Heads, Abandons, Failing
<1>28. CASE Drop
  BY <1>28, DropIs DEF Becomes, Goes, Throws, Heads, Abandons, Failing
<1>29. CASE Unregister
  BY <1>29 DEF Unregister, Successor
<1>30. CASE Undo
  BY <1>30, UndoIs DEF Becomes, Goes, Throws, Heads, Abandons, Failing
<1>31. CASE UndoProfile
  BY <1>31 DEF UndoProfile, WriteProfile
<1>32. CASE UndoPool
  BY <1>32 DEF UndoPool
<1>33. CASE Fails
  BY <1>33, FailsIs
     DEF Becomes, Goes, Throws, Heads, Abandons, Failing, Underway, Toward
<1>34. CASE Crash
  BY <1>34 DEF Crash, Unfinished
<1>35. CASE CodexOpens
  BY <1>35 DEF CodexOpens
<1>36. CASE CodexCloses
  BY <1>36 DEF CodexCloses
<1>37. CASE CodexRenews
  BY <1>37 DEF CodexRenews, WritePrimary, Issued
<1>38. CASE PublishCatalog
  BY <1>38 DEF PublishCatalog
<1>39. ASSUME NEW a \in Accounts, NativeLogin(a)
      PROVE  Usable(x)'
  BY <1>39 DEF NativeLogin, WritePrimary, Issued
<1>40. ASSUME NEW a \in Accounts, SignIn(a)
      PROVE  Usable(x)'
  BY <1>40 DEF SignIn
<1>41. ASSUME NEW a \in Accounts, NEW who \in Accounts, SignedIn(a, who)
      PROVE  Usable(x)'
  <2>1. /\ bounds.minted \in Nat /\ bounds.minted > 0
        /\ live' = live \cup {[who |-> who, issue |-> bounds.minted]}
    BY <1>41 DEF SignedIn, Spend, Setting, Issued
  <2>2. [who |-> who, issue |-> bounds.minted] \in live
    BY <2>1
  <2> QED
    BY <2>1, <2>2 DEF Fresh
<1>42. ASSUME NEW a \in Accounts, SignInGivenUp(a)
      PROVE  Usable(x)'
  BY <1>42 DEF SignInGivenUp
<1>43. ASSUME NEW a \in Accounts, LoginReset(a)
      PROVE  Usable(x)'
  BY <1>43 DEF LoginReset
<1>44. CASE UNCHANGED vars
  BY <1>44 DEF vars
<1> QED
  BY <1>1, <1>2, <1>3, <1>4, <1>5, <1>6, <1>7, <1>8, <1>9, <1>10, <1>11,
     <1>12, <1>13, <1>14, <1>15, <1>16, <1>17, <1>18, <1>19, <1>20, <1>21,
     <1>22, <1>23, <1>24, <1>25, <1>26, <1>27, <1>28, <1>29, <1>30, <1>31,
     <1>32, <1>33, <1>34, <1>35, <1>36, <1>37, <1>38, <1>39, <1>40, <1>41,
     <1>42, <1>43, <1>44
     DEF Next, Work, Outside

-----------------------------------------------------------------------------

(* The inductive invariant.                                                *)
Sound == TypeOK /\ Where /\ Course /\ Carried /\ Meant /\ Fresh

Inv == /\ Sound
       /\ Undisturbed => Agrees
       /\ InStep => Faithful
       /\ Untouched => Kept /\ Evidence

(* The invariant holds in the beginning.                                   *)
LEMMA InvInit == Init => Inv
<1> SUFFICES ASSUME Init PROVE Inv
  OBVIOUS
<1>1. bounds \in Setting
  BY ProfileAssumption DEF Init
<1>2. TypeOK
  BY <1>1, ProfileAssumption
     DEF Init, TypeOK, Auth, NoAuth, Profile, Phases, Pool, Journal,
         NoJournal, None, NoOp
<1>3. /\ op.pc = "none" /\ op.kind = "none" /\ profile.phase = "idle"
      /\ newer = {} /\ journal.dir = "none" /\ op = NoOp
      /\ profile.active = primary.who /\ catalog = primary.who
      /\ profile.desired \in {None, primary.who} /\ ~profile.pending
      /\ pool.selected = profile.desired
  BY DEF Init, NoOp, NoJournal
<1>4. Where /\ Course /\ Carried /\ Meant
  BY <1>3 DEF Where, Course, Carried, Meant, OldLoginKept, Recovering,
     Cleaning, Unjournaled, Transaction, Restoring
<1>5. Fresh
  BY DEF Init, Fresh
<1>6. Agrees
  BY <1>3 DEF Agrees, Transaction, Restoring, Cleaning
<1>7. Faithful
  BY <1>3, ProfileAssumption DEF Faithful, Rewriting, Arrived, Heir,
     Transaction, Restoring
<1>8. primary \in live
  BY DEF Init
<1>9. Kept /\ Evidence
  BY <1>3, <1>8 DEF Kept, Evidence, Restoring
<1> QED
  BY <1>2, <1>4, <1>5, <1>6, <1>7, <1>9 DEF Inv, Sound

(* Every step keeps the invariant.                                         *)
LEMMA InvStep == Inv /\ [Next]_vars => Inv'
<1> SUFFICES ASSUME Inv, [Next]_vars PROVE Inv'
  OBVIOUS
<1>1. Sound'
  BY TypeStep, WhereStep, CourseStep, CarriedStep, MeantStep, FreshStep
     DEF Inv, Sound
<1>2. history \subseteq history'
  BY HistoryGrows DEF Inv, Sound
<1>3. Undisturbed' => Agrees'
  BY <1>2, AgreeStep DEF Inv, Sound, Undisturbed
<1>4. InStep' => Faithful'
  <2> SUFFICES ASSUME InStep' PROVE Faithful'
    OBVIOUS
  <2>1. Undisturbed /\ InStep
    BY <1>2 DEF Undisturbed, InStep
  <2> QED
    BY <2>1, FaithfulStep DEF Inv, Sound
<1>5. Untouched' => Kept' /\ Evidence'
  BY <1>2, KeptStep, EvidenceStep DEF Inv, Sound, Untouched
<1> QED
  BY <1>1, <1>3, <1>4, <1>5 DEF Inv

(* The invariant holds in every state of every behaviour.                  *)
THEOREM InvHolds == Spec => []Inv
<1>1. Init => Inv
  BY InvInit
<1>2. Inv /\ [Next]_vars => Inv'
  BY InvStep
<1> QED
  BY <1>1, <1>2, PTL DEF Spec

(* Every file and every operation has the values the code gives it.        *)
THEOREM TypeCorrect == Spec => []TypeOK
<1>1. Inv => TypeOK
  BY DEF Inv, Sound
<1> QED
  BY <1>1, InvHolds, PTL

(* A phase on file is covered by a complete journal directory, whatever    *)
(* crashed or failed: recovery never finds a phase without the evidence to *)
(* roll back from.                                                         *)
THEOREM PhaseHasJournal == Spec => []OldLoginKept
<1>1. Inv => OldLoginKept
  BY DEF Inv, Sound, Where
<1> QED
  BY <1>1, InvHolds, PTL

(* Between operations the profile, the login in CODEX_HOME and the catalog *)
(* are of one account, for any accounts and any number of requests,        *)
(* crashes, faults and sign-ins.                                           *)
THEOREM FilesAgree == Spec => []AgreeAtRest
<1>1. Inv => AgreeAtRest
  BY DEF Inv, AgreeAtRest, AtRest, Undisturbed, Agrees
<1> QED
  BY <1>1, InvHolds, PTL

(* Between operations the account pool names the account the profile is on *)
(* its way to.                                                             *)
THEOREM PolicyAgrees == Spec => []PolicyFollowsProfile
<1>1. Inv => PolicyFollowsProfile
  <2> SUFFICES ASSUME Inv, AtRest, InStep
               PROVE  pool.selected \in {None, Successor}
    BY DEF PolicyFollowsProfile, InStep
  <2>1. Faithful /\ ~Rewriting
    BY DEF Inv, AtRest, Rewriting, NoOp
  <2>2. Successor = Heir(profile)
    BY DEF Successor, Heir
  <2> QED
    BY <2>1, <2>2 DEF Faithful, AtRest
<1> QED
  BY <1>1, InvHolds, PTL

(* No step of an operation destroys the last login of an account that the  *)
(* server still accepts (CredentialsKept).                                 *)
THEOREM LoginsSurvive == Spec => CredentialsKept
<1>1. Inv /\ [Next]_vars =>
        [op # NoOp /\ live' = live
           /\ history' \cap {"outside", "mixed", "spent"} = {} =>
           \A a \in pool.accounts :
              \/ Usable(a) => Usable(a)'
              \/ Mistaken(a)
              \/ op.kind = "remove" /\ op.arg = a
              \/ /\ journal # NoJournal
                 /\ journal.active = a /\ journal.target = a]_vars
  <2> SUFFICES ASSUME Inv, [Next]_vars, op # NoOp, live' = live, Untouched',
                      NEW a \in pool.accounts
               PROVE  (Usable(a) => Usable(a)') \/ Spared(a)
    BY DEF Untouched, Spared
  <2>1. Untouched
    BY HistoryGrows DEF Untouched, Inv, Sound
  <2> QED
    BY <2>1, CredentialsStep DEF Inv, Sound
<1> QED
  BY <1>1, InvHolds, PTL DEF Spec, CredentialsKept
=============================================================================
