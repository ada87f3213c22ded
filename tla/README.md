# A verification project for codex-router

TLA+ models of the parts of codex-router whose correctness depends on
interleavings, crashes and partial failures, the TLC runs that check them on
small instances, and TLAPS proofs of the safety properties of all of them: the
caller-key rotation, the key pool, the Windows service, the service tree, the
profile switch and the login lease.
Paths are relative to the repository; unless a directory is given, a `.mjs` file
is under `src/src/`.

## 1. The system

codex-router is a loopback service. `start.mjs` runs a tree of processes (the
router, the LiteLLM gateway and several forwarders), a service manager keeps
that tree alive, and a command line (`control.mjs`, `caller-key.mjs`,
`service.mjs`, ...) changes its state. There is no database: every component
keeps its state in JSON or secret files under one state directory, shared by
all these processes and guarded, where it is guarded at all, by lock files.

| Component | State | Operations | Hard behaviour | What makes it correct |
| --- | --- | --- | --- | --- |
| Caller capability rotation (`caller-key*.mjs`, `secret.mjs`) | `caller-secret`, three `.rotate-*` files, journal, clients' documents, running service | rotate, recover, client enable/disable, service start/stop, `secret ensure` | a crash or an error between any two file operations, service commands and journal writes; an operator acting before the recovery | the old generation is never lost; at rest file, clients and service agree; the change is atomic; the operator's intent for the service is kept |
| Provider API-key pool (`provider-api-key-pool.mjs`) | one JSON file: keys, health, quota, bindings of threads | select, send, record, add/pause/resume/remove | concurrent requests and processes rewriting one file, outcomes recorded out of order, a write that fails | no lost outcome; the latest observation decides; no failover on an unrecorded failure; stable bounded bindings |
| Windows service and watchdog (`service-windows.mjs`, `service-process.mjs`, `health-watchdog.mjs`, `service-operation-lock.mjs`) | scheduled task, process trees, `service-process.json`, operation lock | start, stop, restart, heartbeat, probe and heal | the heartbeat and the trees take no lock; the record is overwritten and unlinked by whoever runs | a stop stops, the tree on the port is the recorded one, a hung router is ended, a wanted service returns |
| Service tree (`start.mjs`, `gateway-supervisor.mjs`, `health-probe.mjs`, `antigravity-probe-activation.mjs`) | children, shutdown flag, kill timer, restart window, stored proof | ordered start, health waits, promotion of a proof, supervision, shutdown | a signal or a death during any wait, a gateway that hangs or ignores SIGTERM, a child spawned after the kill timer | no child outlives the process; shutdown ends; a dead gateway comes back or the service leaves; no proof is active that the stack did not vouch for |
| ChatGPT profile switch (`chatgpt-profile-switch.mjs`) | CODEX_HOME/auth.json, saved logins, catalog, profile file, pool file, `switch-transaction/` | select, remove, finalize a sign-in, reconcile, discover | a crash or an error between any two of its writes; Codex, `codex login` and sign-in children write logins without its lock | journal there while needed; login, catalog, profile and policy agree; no usable login destroyed; interrupted switches end |
| ChatGPT login lease (`chatgpt-login-lease.mjs`, `chatgpt-account-pool.mjs`) | lease records in an account's home, under a fixed or a relocated name | claim, attach, clear, status, completion | lock-free claims over rename and exclusive create, stale clearers, dead owners | one writer of an account's login; a record for as long as it runs; evidence of a new login kept |
| Atomic state lock (`atomic-state-lock.mjs`) | a lock directory with its owner's pid | acquire, release, removal of an abandoned lock | two waiters removing one abandoned lock | mutual exclusion |
| Model failover, provider cooldowns (`model-failover.mjs`) | `provider-cooldowns.json` | record, clear, choose | two processes read and rewrite it with no lock | a window a provider named is honoured |
| Router request path (`router.mjs`, `upstream-retry.mjs`, `responses-websocket.mjs`) | per request | translate, send, retry, relay | retry only before the first byte | nothing is sent twice after output was relayed |
| Response stream repair (`empty-completion-guard.mjs`, `item-lifecycle-normalizer.mjs`, ...) | per stream | rewrite events | order of events, truncated streams | well-formed event sequences |
| Overlay publication, Antigravity activation (`model-overlay-publication.mjs`, `antigravity-probe-activation.mjs`) | overlay files, pending proof | capture, publish, restore; activate, confirm | the same crash windows as the rotation | all published or all restored |
| macOS and Linux services, tray (`service-macos.mjs`, `service-linux.mjs`, `macos-tray-transaction.mjs`) | launchd and systemd jobs, tray journal | install, start, stop, swap a bundle | interrupted bundle swap | a usable bundle always exists |
| Credentials, OAuth, sub-agents, usage, catalogs, client documents, setup and doctor, desktop applications | many small files | see `PROJECT.json` | mostly sequential | not modelled, reasons in `PROJECT.json` |

They interact through files and commands: the rotation stops and starts the
service and has each client integration rewrite its document; the service
manager runs `start.mjs`, which refuses to start without the caller key; the
watchdog runs the platform service script under the same lock the operator's
commands take; the router's requests go through the key pool. A profile switch
and the removal of an account stay away from a home with a login lease; the
control center's status poll finalizes finished sign-ins and reconciles queued
switches.

## 2. Modules

### CallerKeyRotation, CapabilityGeneration

`CallerKeyRotation` is `caller-key rotate` step by step: one file operation, one
service command or one journal write is one action, and `Crash` may happen
between any two. `pc` is the next step of the invocation, `cause` says whether
it belongs to the recovery an invocation starts with, to the forward
transaction, or to the recovery that answers its failure, which decides where
an exception goes (`Throw`). `secret`, `backup`, `temp` and `displaced` are the
four files; generations are numbered in the order they are minted and 0 is "no
file". `client[c]` is the key in a client's document, `service` the key the
running router accepts. Every step that can throw has a faulty disjunct, with
each state it can leave behind; a journal write that throws may have replaced
the file already (`WriteJournal`), a service start that reports failure may have
brought the router up.

| Model | Code |
| --- | --- |
| `Rotate` ... `Commit` | `runCallerKeyRotation`, `caller-key.mjs` 333-394 |
| `Mint`, `Retire`, `Publish`, `Unpublish`, `Unretire` | `swapCallerCapability` and its rollback, `caller-key-rotation.mjs` 39-87 |
| `ReadJournal`, `HaltService`, `RefreshedInRecovery` | `recoverPendingCallerKeyRotationUnlocked`, `caller-key.mjs` 236-322 |
| `Displace`, `Promote`, `UnlinkDisplaced`, `UndoPromote`, `UndoDisplace` | `restoreCallerCapability` and its rollback, 89-134 |
| `journal`, `Phases` | `caller-key-rotation-journal.mjs` |
| `Enable`, `Disable`, `EnsureSecret`, `OperatorStarts`, `OperatorStops` | the commands that move the same state while no rotation runs |

`CapabilityGeneration` is what the command promises: a generation that changes
in one step, the decision, and otherwise stays. `generation` and `stage` in
`CallerKeyRotation` are the refinement mapping (the live secret at rest, the
journal's previous generation while pending, its current one once verified) and
`AtomicRotation` the implementation.

Assumptions. The rotation, overlay, refresh and service-operation locks are
held during an invocation, so there is one rotator and the environment moves
only while it does not run. That is the code's discipline for service commands;
for `secret ensure` and for enabling and disabling a client it is an assumption.
A rename that returned is durable. A service command that starts is finished (the
operator's own commands are one step). Client documents are rewritten in one
step per client; "targets" has no duplicates. Unreadable files and lost
protections are the faulty disjuncts of the step that would notice them.

### ProviderKeyPool

`file` is `provider-api-key-pool.json` for one provider, `mem` the copies read by
whoever holds `lock`; reading (`SelectRead`, `RecordRead`, `CommandRead`) and
rewriting (`SelectWrite`, `RecordWrite`, `CommandWrite`) are separate steps, and
a request that has its key sends it with no lock. `at` is the time a request
passed to its selection, taken before the lock is waited for as in the code; an
outcome carries the time at which it was seen. `log`, in the file, is a ghost:
the outcomes the file accounts for. `Choose`, `CanStay`, `WithRoomFor`,
`QuotaAdvances`, `HealthAdvances` and `Recorded` are the functions of the same
purpose in the code; `Keys` in order stands for `orderMeta`.

Abstractions. A response is a kind (`ok`, `limited` with Retry-After, `edge` a
retryable 5xx, `lost` without a status and hence without a cooldown, `refused`
for a failure that must not rotate, or one after the response began, which no
run uses: nothing follows it) and a
remaining quota; quota is a small number in place of a ratio, a cooldown one or
two ticks. Every configured key resolves to a distinct secret. A process that
dies in the critical section looks like a write that failed. The takeover of a
stale lock is not modelled; nor are changes of policy, deletion of the pool and
state files that fail their schema. A key a request has used is not registered a
second time (bound).

### WindowsService

`tree[t]` is what each process tree of `start.mjs` is doing, `instance` the tree
Task Scheduler's launcher still waits for, `ports` the tree that listens,
`record` what `service-process.json` names, `lock` the service-operation lock.
The operator's command and the watchdog's `restart` share the actions `Disable`,
`End`, `Kill`, `Confirm`, `Enable` and `Run` (`pc`, `cmd` and `target` are per
actor), in the order of `service-windows.mjs` 702-716; `Heartbeat` is the minute
trigger with `MultipleInstances IgnoreNew`; `FirstProbe`, `SecondProbe`,
`Listens`, `Heal` and `Busy` are one tick of `health-watchdog.mjs`. A tree
records itself, binds (or finds the port taken), may hang or die at once
(`Crash`, which leaves its record), or has one of its processes end (`Collapse`):
then `start.mjs` stops the others and ends, and `Exit` unlinks the record
whichever tree it names.

`Settings` is a set of installations, one of which `Init` chooses: how its
environment is timed (`slowStart`: a launched tree may take a while to write its
record; `midCommand`: the minute trigger may fire while a command runs), and how
often things may happen. `Prompt` is the benign timing; `PromptTreeIsRecorded`,
`StopEndsTheTree` and `HungIsEnded` are about it, `ServiceReturns` about both.
A `schtasks /End` that fails, and a wait for the task that runs out, leave the
launcher running (`End`), as a `taskkill` that fails leaves the tree (`Kill`); a
`schtasks /Change` or `/Run` always succeeds.
Not modelled: install and uninstall, the 90-second limit the watchdog puts on
the command it spawns, two launches of the watchdog at once, and the Ollama
process a stop ends. A tree of processes is one unit: killed as one, bound as
one; what happens inside it is `ServiceTree`.

### ServiceTree

One service process. `pc` is the await of `main` that is pending, from the
forwarders' health to the finally block; `sup` that of `superviseGateway`;
`child` what each child's process does, whatever main knows of it. Node runs the
two, the signal handler and the SIGKILL timer on one thread, so a step is what
happens from one await to the next: when a health wait returns, the next child
is spawned in the same step. A probe's answer (`answered`) may be on its way
when a signal comes, and the wait returns on it all the same; that is how main
comes to spawn a child during a shutdown.

| Model | Code |
| --- | --- |
| `ForwarderHealthy` ... `EdgeHealthy`, `StartFails`, `Race`, `Leave`, `Finish` | `main` and the catch and finally blocks, `start.mjs` 302-537 |
| `Signal`, `StopChildren`, `TimerFires` | `start.mjs` 286-301 |
| `Promote`, `Promoted`, `Rollback`, `RollbackFails` | `antigravity-probe-activation.mjs` 87-146, `antigravity-oauth-session.mjs` 725-803 |
| `GatewayExits`, `Restart`, `Restarted`, `NotRestarted` | `superviseGateway`, `gateway-supervisor.mjs` 118-158 |
| `Answers`, `Healthy`, `Unhealthy` | `pollHealth`, `health-probe.mjs` |

A promotion that finds the credential lock taken goes on without the proof; one
that fails otherwise, like a rollback that has failed twice, ends the startup.

Abstractions. The three to five forwarders are two. How many failures have left
the restart window is nondeterministic. The kill timer fires only when no
probe's answer is on its way (five seconds are enough to read one). Three ways
to go wrong are named and excluded from the properties that would fail:
`Stray`, a child spawned after the kill timer has fired (a signal during the
promotion, with Cursor installed), which makes the finally block wait for ever;
`Parked`, a gateway that failed to come back and ignores its one SIGTERM;
`Abort`, a gateway program that is gone at a restart, whose `error` event nobody
handles. A gateway that hangs without ending is not noticed by the supervisor.

### ProfileSwitch

`primary` is CODEX_HOME/auth.json, `saved[a]` the copy in an account's home,
`newer` the accounts whose copy was written after `primary` (the mtimes that
`syncAuthProfile` compares); a login is an account and an issue number. `profile` is
chatgpt-profile-switch.json with its phase, `pool` the accounts and the policy,
`journal` the transaction directory: full, without its manifest, or empty. `op`
is the operation that holds the account-pool lock and `op.pc` its next file
operation; `Crash` may come at any of them, `Fails` where the code catches. What
takes no lock interleaves: Codex opening, closing and renewing (which spends the
login it held), `codex login`, and sign-in children.

| Model | Code (`chatgpt-profile-switch.mjs`) |
| --- | --- |
| `Recover`, `RestoreAuth` ... `RemoveDirectory` | `recoverInterruptedSwitchLocked`, 1027-1099 |
| `Ensure`, `Discover`, `Confused`, `Conflict` | `ensureProfileAccountLocked`, 759-846 |
| `Apply`, `Publish` ... `Settle`, `Fails` | `applyLocked`, 1101-1242 |
| `Select`, `Commit`, `Undo`, `UndoProfile`, `UndoPool` | `selectChatGPTProfileAccount`, 1264-1335 |
| `Remove`, `Handoff`, `Drop`, `Unregister` | `removeChatGPTProfileAccount`, 1339-1430; `removeChatGPTSubscriptionAccount` |
| `Finalize`, `FinalizeLogin`, `Reconcile`, `LoginReset` | the functions of these names |

`history` records what a property excuses; reading the excuses is reading what
the code does not promise. `superseded`: finalizing a sign-in of the active
account drops a queued selection, although the policy still names it. `reopened`:
an undoing that finds Codex open restores the profile file but not the login.
`abandoned`: a selection or a removal died, or its undoing failed, with the
profile file rewritten and the policy not; at any other step it is not excused.
`foreign`: `codex login` with another account. `outside`: someone wrote the login
during a transaction; a crash then lets the rollback overwrite a renewed login.
`mixed`: a sync brought the login of another account from a home into CODEX_HOME.
`spent`: a transaction installed a copy that the server had ceased to accept.
The proof of `CredentialsKept` turned the last two up, and that `outside` has to be
excused for good: with two requests, a fault, a sign-in and two new logins TLC
finds a later step that trusts what these have left.
`Stuck` names the states only a person can resolve, among them a crash between
the unlinks of a finished switch's manifest and evidence followed by a renewal
of the login, and a registered account whose home has been moved away.

Assumptions: an account and its ChatGPT identity are one; unlinking an existing
file and rmdir succeed; a write that throws has not replaced its file; the
account-pool lock excludes for as long as it is held.

### LoginLease

A step is one file-system call of one process: `List` and `Read` are
`leaseRecords`, name by name; `Relocate`, `Inspect`, `Unlink` are
`clearChatGPTLoginLease`; `Create`, `Write`, `Protect` and the re-scan are
`createChatGPTLoginLease`; `Attach` and `Attached` the attachment. `at[p]` is what a
process is doing: its step, what it scans for (`scan`), what it clears for (`clear`),
and what it has read so far. Claimants run `refreshChatGPTSubscriptionAccount`
once each, pollers `recoverCompletedChatGPTProfileLogins` again and again; what
finalizing does with the accounts is `ProfileSwitch`; here it takes the lock,
makes sure of its lease, and clears it or, when it refuses (a login of another
account, Codex open), keeps it (`Matched`). A poller that has the lock when it
begins is `discardCompletedChatGPTProfileLogin` (`Discard`), which clears the
lease of a sign-in that left no login of the account. A spawn that throws leaves
the reservation to its claimant, which clears it if auth.json is unchanged
(`Spawn`). A process can die at any step and its child live on.

Three races are named, and `races` records them. `swapped`: the lease
`chatGPTLoginLeaseCompletionCandidate` returns (400) is not the one it has
judged, so a poller may clear the lease of a running sign-in. `replaced`:
`writePrivateJson` in the attachment (275) overwrites another process's claim.
`missed`: a clearer renames a claim's record (294) after another claimant's
re-scan has listed it and before it has read it; the re-scan skips a name that is
gone (157-159). `Fenced` is excused by the first two, `EvidenceKept` by `replaced`
alone, `OneWriter` by any.

`missed` needs four processes: one claim is live under a relocated name, a second
re-scans, and two clearers have old listings. It cannot occur in the run, so
there `OneWriter` is checked without it; with a second poller in
`MCLoginLease.cfg` and `Settings <- Crowd` TLC reaches it, and then both claims go
ahead, contrary to the comments at `chatgpt-login-lease.mjs:234-236` ("Relocated
records remain authoritative, but any other generation means this claimant lost
exclusivity and must withdraw") and 290 ("it is preserved at a name every reader
scans"). The attempt to prove `OneWriter` without an excuse is what found it.

The names a record can be moved to are a bound (`Relocated`): when none is unused,
no record is moved. The seven of the run never run out. A process identity can
always be probed; the legacy lease versions and the limit of 32 records are not
modelled.

## 3. Runs

All bounds are constants of the modules. `expect: violation` runs each show one
sentence of the repository that the code does not keep.

| Run | Checks | Bounds | Shows |
| --- | --- | --- | --- |
| `rotation_safety` | `TypeOK`, `OneGenerationAtRest`, `RollbackKept`, `VerifiedIsPublished`, `AtomicRotation` | 2 clients, 3 generations, 2 crashes, 2 faults, operator free | safety of the rotation; 2.9 million states |
| `rotation_intent` | `IntentKept`, `RecoversUnlessWedged` | 1 client, 3 generations, 2 crashes, 1 fault, nobody touches the service while a journal is pending | the operator's intent is kept; re-invoking recovers, except from `Wedged` |
| `rotation_wedge` | violates `AlwaysRecovers` | 2 crashes, no fault | finding 1 |
| `rotation_operator` | violates `IntentKept` | 1 crash, operator free | finding 2 |
| `pool_health` | `TypeOK` and eight properties | 2 keys, 2 requests of 2 attempts, 2 instants, responses of four kinds, 1 fault, 1 command, "quota", one binding | failover, cooldowns and quota from observations in any order, lost updates, a key chosen by an old clock |
| `pool_bindings` | `BindingsMoveForCause` | 5 turns of 3 threads (3, 1, 1) on 2 keys, room for 2 bindings, 2 instants, "round-robin", sticky limit 2, one pause | eviction, and stickiness to the turn |
| `service_life` | `TypeOK`, `PromptTreeIsRecorded`, `StopEndsTheTree`, `HungIsEnded`, `ServiceReturns` | 3 trees; prompt timing: 3 commands, 2 hangs, 2 crashes; rough timing: 2 commands, 1 crash, a hang or a failing `schtasks /End` or `taskkill` | with benign timing the service does what it says; whatever the races leave behind, it comes back |
| `service_tree` | `TypeOK`, `NoneOutlives`, `ActivationVouched`, `TreeEnds`, `GatewayReturns` | 2 forwarders, with and without edge, tunnel and pending proof, 2 deaths, 1 stall, 2 failing credential operations, 1 restart | startup, supervision and shutdown |
| `profile_switch` | `TypeOK` and five properties | 2 accounts, 1 request; a crash and a sign-in from a fresh installation, a fault and a sign-in, or a fault and a crash; 1 new login | switching, recovery, undoing |
| `login_lease` | `TypeOK`, `OneWriter`, `Fenced`, `EvidenceKept` | 2 claimants and a dead one's record; a claimant and a poller for ever; all of them as far as the sign-ins running; 1 crash each | mutual exclusion without a lock |
| `service_stop` | violates `StopIsKept` | 2 commands, prompt records | finding 3 |
| `service_record` | violates `LiveTreeIsRecorded` | 2 commands, heartbeat during a command | finding 4 |

Why the bounds are enough. Rotation: a wedge needs a crash inside the recovery
of an earlier crash, hence two of each, and a third generation lets a rotation
follow a completed one. Two clients allow one refreshed and one stale. Pool: a
race needs two requests and a second key to rotate to, an observation needs an
earlier, an equal and a later instant, which two ticks of the clock already are
to each other; cooldowns of one and two ticks lie on both sides of the end. A
thread with three turns and a sticky limit of two has a turn before the limit, one
at it and one past it, and two other threads fill the file and push one out.
Service: one tree holding the port, one being replaced, one launched in
between; every tree beyond that would wait for one of them. Tree: a second death
falls into what the first one set going, and the second failing credential
operation is the retry. Profile: what the properties compare are the account
left and the account entered; the three settings pair the disturbances, since
all of them at once are too many for one run. Lease: the two claimants, or a
claimant and a poller, are the two sides of the races `swapped` and `replaced`;
`missed` needs four processes and is beyond the bounds of the run, not of the
proof. For everything proved in section 4 the bounds no longer matter; they do
for the liveness properties.

The service runs switch deadlock checking off, because a stopped service with
its commands spent really has nothing left to do, and `login_lease` because
sign-ins come to an end. `service_tree` keeps it: `Over` is its one way to stop.
`pool_health`, `pool_bindings` and `login_lease` use symmetry (in `pool_health` a
request and its thread exchanged together; in `pool_bindings` only the three
requests of one thread, because a `CHOOSE` picks among equally old bindings) and
check no liveness.

Fairness. Rotation: the process that runs keeps running, and an operator whose
rotation did not finish invokes it again (`WF` of `Rotator` and `Rotate`), which
is what the README's "recoverable" needs. Service: Task Scheduler keeps firing
both triggers, processes and commands keep running, a cooldown ends (`WF` of
each); no hang, crash, fault or operator command is fair. Tree: awaits return,
timers fire, children come up, answer and, unless deaf, end on a SIGTERM. Profile:
an operation runs on; the status poll keeps coming and gets the lock in between
others (`SF` of `Reconcile` and `Finalize`), which is what the open control center
does every few seconds; a sign-in child ends. The pool and the lease have no
liveness property: a caller that waits for the lock may always be overtaken, and
a lease whose owner cannot be judged is kept for ever by design.

### Findings

1. `restoreCallerCapability` (`caller-key-rotation.mjs` 103-107): a crash
   between its two renames leaves backup and displaced generations; every later
   recovery stops the service and then refuses at 93-95. The README calls an
   interrupted rotation recoverable. `RecoversUnlessWedged` shows that this, and
   a client removed while the journal names it, are the only dead ends.
2. The recovery's `||` at `caller-key.mjs` 298 restarts a service the operator
   has stopped since the crash; the comment above it promises the newer intent.
   Under `OperatorWhilePending = FALSE` the intent is kept, and proved to be.
3. `health-watchdog.mjs` 189: the verdict is older than the lock, so a
   deliberate stop can be undone.
4. `service-windows.mjs` 712: a restart leaves the heartbeat on, so a
   replacement can overwrite the record of the tree that still owns the port.

## 4. Proofs

Every safety property that a passing run checks is a theorem, for every value of
the constants: any sets of clients, keys, requests, trees, accounts or processes,
and any bounds. The rotation's are in three modules, every other component's in
one; an assumption on the constants has the name given with each.

| Module | Theorem | Statement |
| --- | --- | --- |
| `CallerKeyRotationProofs` | `TypeCorrect`, `RestIsConsistent`, `RollbackNeverLost`, `VerifiedMeansPublished` | `Spec => []TypeOK`, `[]OneGenerationAtRest`, `[]RollbackKept`, `[]VerifiedIsPublished` |
| `CallerKeyRotationRefines` | `RotationIsAtomic` | `Spec => AtomicRotation` |
| `CallerKeyRotationIntent` | `IntentSurvives` | `~OperatorWhilePending => (Spec => []IntentKept)` |
| `ServiceTreeProofs` | `TypeCorrect`, `NoOrphans`, `ProofIsVouched` | `Spec => []TypeOK`, `[]NoneOutlives`, `ActivationVouched` |
| `WindowsServiceProofs` | `TypeCorrect`, `RecordFollowsPort`, `StopIsComplete` | `Spec => []TypeOK`, `[]PromptTreeIsRecorded`, `StopEndsTheTree` |
| `ProviderKeyPoolProofs` | `TypeCorrect`, `NoKeyTwice`, `FailoverDurable`, `FailureHolds`, `QuotaHolds`, `BindingsSound` | `Spec => []TypeOK`, `[]AttemptsDistinct`, `[]FailoverIsRecorded`, `[]LatestFailureHolds`, `[]LatestQuotaHolds`, `[]BoundKeysExist` |
| | `NothingForgotten`, `BeliefsAdvance`, `BindingsMove`, `ChosenUsable` | `Spec => OutcomesAccumulate`, `ObservationsAdvance`, `BindingsMoveForCause`, `UsableWhenChosen` |
| `ProfileSwitchProofs` | `TypeCorrect`, `PhaseHasJournal`, `FilesAgree`, `PolicyAgrees`, `LoginsSurvive` | `Spec => []TypeOK`, `[]OldLoginKept`, `[]AgreeAtRest`, `[]PolicyFollowsProfile`, `CredentialsKept` |
| `LoginLeaseProofs` | `TypeCorrect`, `SignInFenced`, `EvidenceStays`, `SingleWriter` | `Spec => []TypeOK`, `[]Fenced`, `EvidenceKept`, `[]OneWriter` |

### Rotation and service tree

The assumptions of the rotation are those of `RotationAssumption` (the bounds are
naturals). None of its properties is inductive: `RollbackKept` breaks, for instance, if a step of
the swap may start with a backup already there. `IInv` adds `Control` (which
files exist, who runs and which generation is live at each step), `Named` (the
journal's targets cover the installed clients but the late ones, and those
already visited hold the live key), `Rest` (the claim at rest does not depend on
the rotator's being idle) and `Minted` (a fresh generation differs from every
file's). `InductiveStep` goes through the actions one by one. The refinement
shows that every step keeps generation and stage, or is one of the three
abstract steps: beginning, deciding (the write of "verified") and settling;
the freshness in `Minted` is what makes the decided generation a later one.
`IntentSurvives` needs a second invariant on top, `Intent`: what the journal,
`shouldRun` and the running service remember of the operator's wish at each step.

The tree rests on `TreeAssumption` (a forwarder is none of the other children;
the settings are well typed). Its types need `Supervised`: the supervisor starts
with the race and has returned once its failures exceed the bound. `NoOrphans`
needs `Leaving`: from the finally block on, the shutdown flag is set and main
waits for every child that runs. A supervisor whose backoff outlasts main is not
excluded; it is harmless because it looks at the flag before it spawns.
`ProofIsVouched` needs `Unproven`: before the promotion no proof is active, so that
main can go on with an active one only through `Promoted`, whose second look at
the children is what the property is about.

### Windows service

`ServiceAssumption`: a setting that lets commands fail is a rough one. The record
and the port do not determine each other, so `PromptTreeIsRecorded` is not
inductive. `Guarded` holds under every timing: who is at a step of a command
holds the lock, the tree on the port listens, a stop is at a stop's steps. `Single`
holds under prompt timing: at most one tree lives; once it has begun to boot it
is on record; it is the one the launcher waits for, or a command is about to
kill it. `StopEndsTheTree` follows from both, for the two steps that end a stop.

### Key pool

`PoolAssumption` types the constants and says that no key is listed twice.
`Core` is `TypeOK` with `Turn` (who has read and not written holds the lock),
`Reads` (what the holder has read is the file as it still is, as of a time up to
now), `Spent` (attempts are distinct and within their bound, an outcome about to
be recorded is the last attempt's) and `Bindings`. From `Reads` follows what every
rewrite is (`FileChanges`): the file itself, with one selection, outcome or
command. On that rest `OutcomesAccumulate`, `ObservationsAdvance` and
`UsableWhenChosen`: a selection judges by a clock that is behind, and a key that
had cooled down and whose quota window was open at an earlier time has and is now.
`BindingsMoveForCause` counts the turns of a thread by its attempts, where the
code trusts the counter in the file; `Counted` relates the two (the counter is at
most the number of attempts the thread has made with its key), so that a
counter at the limit means as many real turns. Two more invariants follow: `Knowledge`, that what the file
believes of a key fits the newest outcomes it has accounted for (`QuotaFits`,
`HealthFits`: stated for health and log, so that the lemma about one more outcome
is about `HealthAfter` alone); and `Rotations`, that a call choosing its next key has
all its failures on file.

### Profile switch

The invariant is `Sound` and, each as long as nothing has happened that its
property excuses, `Agrees` (`Undisturbed`), `Faithful` (`InStep`), and `Kept` with
`Evidence` (`Untouched`). `Sound` is `TypeOK`, `Where` (which step goes with which
journal directory and phase: `OldLoginKept` is part of it), `Course` (how an
operation came to its step), `Carried` (the login taken along is of the account
switched to), `Meant` (what the operation, the profile and the journal say of the
target) and `Fresh` (a new login is new). `Agrees` says whose login and catalog are
installed at each step and in the journal; `Faithful` relates policy, profile and
the copies an undoing returns to; `Kept` and `Evidence` say where else the login
that a step is about to overwrite can be found.

### Login lease

`LeaseAssumption` keeps claimants, pollers and the dead process apart. `Stands`
needs no word on races: `Roles`, `Written` (auth.json is written by sign-ins that
have begun), `Lives` (which steps have a child), `Started`, `Purpose` (what a process
clears, and by what right) and `Private` (nothing appears under a name a record
was moved to). A lemma per action says what it does, `RecordGoes` what can become
of a record: it stays, is moved, is unlinked by who means it, or is replaced. `Held`
follows: from the creation of its record through the re-scan and the sign-in a
claim has a record. `Paired` is the argument for `OneWriter`: of two claims that
re-scan one has the other's record in its listing or has read it, and one that
re-scans sees a sign-in that runs; so who begins a sign-in is seen by all others.
A record that is moved out of a listing is the race `missed`.

### Only model-checked

The liveness properties `RecoversUnlessWedged`, `HungIsEnded`, `ServiceReturns`,
`TreeEnds`, `GatewayReturns` and `RecoversUnlessStuck` (fairness is outside this
prover's reach), and that the code does not keep what the violation runs show.

## 5. Plan

1. That `ServiceTree` implements the tree of `WindowsService` (launched, booting,
   serving, exiting, dead), as a refinement with its proof.
2. Overlay publication, the capture, publish and restore transaction beside the
   rotation's.

## 6. Not modelled

- `atomic-state-lock.mjs`: the one thing to state is mutual exclusion, and a
  waiter that removes an abandoned lock late can break it; the models of its
  callers assume that it holds.
- `provider-cooldowns.json` (`model-failover.mjs`): rewritten by two processes
  without a lock; losing an entry costs one more refused request, by design.
- Overlay publication: a capture, publish, restore transaction like the rotation's.
- The request path, stream repair, sub-agents, usage and catalogs: sequential
  translation of data, where a model would be the code again.
- The "fill-first" strategy of the pool is in the model (`Choose`) but no run uses
  it; policy changes and deletion of a pool are not.
- macOS and Linux services, the tray, setup, doctor and the desktop applications:
  drivers of other programs and user interfaces.
