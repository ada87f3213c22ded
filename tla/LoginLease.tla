---------------------------- MODULE LoginLease ----------------------------
(***************************************************************************)
(* The login lease of one ChatGPT account (src/chatgpt-login-lease.mjs):   *)
(* a record in the account's home that keeps a second sign-in, a switch    *)
(* and a removal away while a child process may write auth.json. No lock   *)
(* protects it. A reader lists the directory and then reads name by name;  *)
(* a clearer first renames what it is about to judge to a fresh name; so a *)
(* record can move between the listing and the reading.                    *)
(*                                                                         *)
(* A step is one file-system call of one process, with the decisions that  *)
(* follow from what the process has read before. The processes are         *)
(* claimants, which sign in (refreshChatGPTSubscriptionAccount), and       *)
(* pollers, which read the status and finalize what a dead claimant left,  *)
(* or discard it (discardCompletedChatGPTProfileLogin). A process identity *)
(* can always be probed; what finalizing does with the accounts is         *)
(* ProfileSwitch, here it ends with the lease cleared or kept.             *)
(***************************************************************************)
EXTENDS Naturals, FiniteSets

CONSTANTS
    Claimants,     \* processes that sign in, once each
    Pollers,       \* processes that read the status, again and again
    Relocated,     \* the names a record can be moved to, a bound: when
                   \* none is unused, no record is moved
    Settings       \* bounds: who runs, what happens, as a record of Setting

Fixed   == "router-login-lease.json"
Earlier == "earlier"
None    == "none"

(* A setting bounds a behaviour: who runs, whether an earlier process has  *)
(* died and left the lease of a child that is gone, how often auth.json is *)
(* written, how many processes die, whether the sign-ins end, and whether  *)
(* the pollers poll again.                                                 *)
Setting == [crew : SUBSET (Claimants \cup Pollers), earlier : BOOLEAN,
            writes : Nat, crashes : Nat, ends : BOOLEAN,
            polls : {"once", "always"}]

ASSUME LeaseAssumption ==
    /\ Claimants \cap Pollers = {}
    /\ (Claimants \cup Pollers) \cap {Earlier, None} = {}
    /\ Relocated # {} /\ Fixed \notin Relocated
    /\ Settings \subseteq Setting

VARIABLES
    dir,       \* the lease records in the account's home, by name
    auth,      \* auth.json: how often it has been written
    before,    \* authDigestBefore of each lease
    wrote,     \* the leases whose child has written auth.json
    up,        \* the processes that run
    child,     \* the sign-in child of each claimant
    at,        \* what each process is doing
    lock,      \* the account-pool lock
    races,     \* what has gone wrong between two calls
    bounds     \* what the setting still allows

home  == <<dir, auth, before, wrote>>
procs == <<up, child, at, lock, races, bounds>>
vars == <<home, procs>>

Names  == {Fixed} \cup Relocated
Leases == Claimants \cup {Earlier}
Procs  == Claimants \cup Pollers
Tries  == 3          \* of a claim
Passes == 3          \* of a status

(* A record names its lease and its phase; "empty": created, not written.  *)
Record == [id : Leases, phase : {"empty", "reserved", "running"}]
Known  == [id : Leases, phase : {"reserved", "running"}]
Absent == [id |-> None, phase |-> "absent"]
Of(i, phase) == [id |-> i, phase |-> phase]

(* What a process scans the directory for, and what it clears a record for.*)
Scans  == {"status", "last", "clear", "rescan", "attach", "attached",
           "candidate", "match"}
Clears == {"status", "withdraw", "cleanup", "finish"}
Steps  == {"idle", "list", "read", "judge", "inspect", "unlink",
           "write", "protect", "waiting", "failed", "done"}

(* "swapped": the candidate for a finalization is not the lease the status *)
(* judged; "replaced": attaching has overwritten the claim of another;     *)
(* "missed": the record of a claim has been moved from under another's     *)
(* re-scan.                                                                *)
Races  == {"swapped", "replaced", "missed"}

Idle   == [pc |-> "idle", scan |-> "status", clear |-> "status",
           names |-> {}, recs |-> {}, todo |-> {}, lease |-> Absent,
           name |-> Fixed, pass |-> 1, try |-> 1]

(* A process is at a step of a scan of the directory, knows of names it    *)
(* has still to read, of records it has read (names and what they said),   *)
(* and in a status of those it has still to judge; lease and name are what *)
(* it clears, pass and try count.                                          *)
Doing == [pc : Steps, scan : Scans, clear : Clears, names : SUBSET Names,
          recs : SUBSET (Names \X Known), todo : SUBSET (Names \X Known),
          lease : Known \cup {Absent}, name : Names,
          pass : 1..Passes, try : 1..Tries]

(* Names nobody refers to: they are random, and never come again.          *)
InUse(p) == at[p].names \cup {at[p].name} \cup {r[1] : r \in at[p].recs}
Unused == {n \in Relocated : dir[n] = Absent} \ UNION {InUse(p) : p \in Procs}
Fresh  == CHOOSE n \in Unused : TRUE

(* The records, and what a process remembers of them, are what the code    *)
(* writes (createChatGPTLoginLease, attachChatGPTLoginLease), and what it  *)
(* goes by is never a record that has not been written yet.                *)
TypeOK ==
    /\ dir \in [Names -> Record \cup {Absent}]
    /\ auth \in Nat /\ before \in [Leases -> Nat]
    /\ wrote \subseteq Leases /\ up \subseteq Procs
    /\ child \in [Claimants -> {"none", "alive", "dead"}]
    /\ at \in [Procs -> Doing]
    /\ lock \in Procs \cup {None} /\ races \subseteq Races
    /\ bounds \in Setting

Init ==
    /\ bounds \in Settings
    /\ dir = [n \in Names |-> IF n = Fixed /\ bounds.earlier
                                THEN Of(Earlier, "running") ELSE Absent]
    /\ auth = 0 /\ before = [i \in Leases |-> 0] /\ wrote = {}
    /\ up = bounds.crew /\ child = [c \in Claimants |-> "none"]
    /\ at = [p \in Procs |-> Idle] /\ lock = None /\ races = {}

On(p, step) == at[p].pc = step /\ p \in up
Set(p, s)   == at' = [at EXCEPT ![p] = s]
Goto(p, pc) == Set(p, [at[p] EXCEPT !.pc = pc])
Done(p)     == Set(p, [Idle EXCEPT !.pc =
                   IF p \in Pollers /\ bounds.polls = "always" THEN "idle"
                                                              ELSE "done"])

(* A scan begins, to clear a lease or for another end; its first call      *)
(* lists the directory.                                                    *)
Begin(s, why) ==
    [s EXCEPT !.pc = "list", !.scan = why, !.names = {}, !.recs = {}]
BeginClear(s, lease, why) ==
    [Begin(s, "clear") EXCEPT !.clear = why, !.lease = lease]
Listed(s) == [s EXCEPT !.pc = "read", !.names = {n \in Names : dir[n] # Absent}]

Scan(p, why)         == Set(p, Begin(at[p], why))
Clear(p, lease, why) == Set(p, BeginClear(at[p], lease, why))

Here    == UNCHANGED <<auth, before, wrote, up, child, bounds>>
Free(p) == lock' = IF lock = p THEN None ELSE lock

(* The fixed name comes first, relocated ones in an arbitrary order.       *)
Firsts(names) == IF Fixed \in names THEN {Fixed} ELSE names
Heads(recs)   == {r \in recs : r[1] \in Firsts({q[1] : q \in recs})}

-----------------------------------------------------------------------------
(* leaseRecords, readLeaseAt                                               *)

(* An error is caught by a claim that has created its record, and by its   *)
(* withdrawal; a failed attachment ends the child; any other error ends    *)
(* what the process is doing.                                              *)
Raise(p) ==
    LET s == at[p]
    IN  CASE s.scan = "rescan" \/ (s.scan = "clear" /\ s.clear = "withdraw") ->
                Clear(p, Of(p, "reserved"), "cleanup") /\ UNCHANGED lock
          [] s.scan \in {"attach", "attached"} ->
                Goto(p, "failed") /\ UNCHANGED lock
          [] OTHER -> Done(p) /\ Free(p)

List(p) ==
    /\ On(p, "list") /\ Set(p, Listed(at[p]))
    /\ Here /\ UNCHANGED <<dir, lock, races>>

(* A record that is gone at lstat is skipped; one that goes between lstat  *)
(* and the reading, or is still empty, is an error.                        *)
Read(p) ==
    /\ On(p, "read")
    /\ \E n \in Firsts(at[p].names) :
          \/ /\ dir[n] = Absent
             /\ Set(p, [at[p] EXCEPT !.names = @ \ {n}])
             /\ UNCHANGED lock
          \/ dir[n].phase \in {"absent", "empty"} /\ Raise(p)
          \/ /\ dir[n].phase \in {"reserved", "running"}
             /\ Set(p, [at[p] EXCEPT !.names = @ \ {n},
                                     !.recs = @ \cup {<<n, dir[n]>>}])
             /\ UNCHANGED lock
    /\ Here /\ UNCHANGED <<dir, races>>

Found(p)        == {r[2] : r \in at[p].recs}
Scanned(p, why) == On(p, "read") /\ at[p].names = {} /\ at[p].scan = why
Alone(p, lease) == Cardinality(at[p].recs) = 1 /\ Found(p) = {lease}

-----------------------------------------------------------------------------
(* chatGPTLoginLeaseStatus                                                 *)

(* The process a record names runs.                                        *)
OwnerRuns(r) ==
    \/ r.phase = "reserved" /\ r.id \in up
    \/ r.phase = "running" /\ r.id # Earlier /\ child[r.id] = "alive"

(* chatGPTLoginAuthChanged; the second form looks at the child alone. *)
ChangedNever(r) == FALSE
Changed(r)      == auth # before[r.id]

StatusPass(p) ==
    /\ Scanned(p, "status") /\ at[p].recs # {}
    /\ Set(p, [at[p] EXCEPT !.pc = "judge", !.todo = at[p].recs])
    /\ Here /\ UNCHANGED <<dir, lock, races>>

Judge(p) ==
    /\ On(p, "judge")
    /\ \E r \in Heads(at[p].todo) :
          IF OwnerRuns(r[2]) \/ r[2].phase = "reserved"
             \/ (Changed(r[2]) /\ p \notin Pollers)
            THEN Done(p) /\ Free(p)
          ELSE IF Changed(r[2])
            THEN /\ Set(p, Listed([Begin(at[p], "candidate")
                                      EXCEPT !.lease = r[2]]))
                 /\ UNCHANGED lock
            ELSE /\ Set(p, Listed([BeginClear(at[p], r[2], "status")
                                      EXCEPT !.todo = @ \ {r}]))
                 /\ UNCHANGED lock
    /\ Here /\ UNCHANGED <<dir, races>>

NextPass(p) ==
    /\ On(p, "judge") /\ at[p].todo = {}
    /\ Set(p, Listed(IF at[p].pass < Passes
                      THEN [Begin(at[p], "status") EXCEPT !.pass = @ + 1]
                      ELSE Begin(at[p], "last")))
    /\ Here /\ UNCHANGED <<dir, lock, races>>

NothingFound(p) ==
    (Scanned(p, "status") \/ Scanned(p, "last")) /\ at[p].recs = {}

StatusEnds(p) ==
    /\ \/ NothingFound(p) /\ p \in Pollers
       \/ Scanned(p, "last") /\ at[p].recs # {}
    /\ Done(p) /\ Free(p) /\ Here /\ UNCHANGED <<dir, races>>

-----------------------------------------------------------------------------
(* clearChatGPTLoginLease                                                  *)

(* A claim from the creation of its record on, and its sign-in.            *)
Claimed(c) == \/ child[c] = "alive" \/ at[c].pc \in {"write", "protect"}
              \/ at[c].pc \in {"list", "read"} /\ at[c].scan = "rescan"

(* Another claimant that makes sure of being alone has listed the record   *)
(* of a claim, and not read it yet.                                        *)
Looking(c) == at[c].pc = "read" /\ at[c].scan = "rescan"
Unread(n)  == \E c, d \in Claimants : /\ c # d /\ Looking(c) /\ Claimed(d)
                                     /\ n \in at[c].names /\ dir[n].id = d

Relocate(p) ==
    /\ Scanned(p, "clear")
    /\ \E r \in Heads(at[p].recs) :
          \/ /\ dir[r[1]] = Absent
             /\ Set(p, [at[p] EXCEPT !.recs = @ \ {r}])
             /\ UNCHANGED <<dir, races>>
          \/ /\ dir[r[1]] # Absent /\ Unused # {}
             /\ dir' = [dir EXCEPT ![Fresh] = dir[r[1]], ![r[1]] = Absent]
             /\ Set(p, [at[p] EXCEPT !.pc = "inspect", !.name = Fresh,
                                     !.recs = @ \ {r}])
             /\ races' = IF Unread(r[1]) THEN races \cup {"missed"} ELSE races
    /\ Here /\ UNCHANGED lock

(* Moved first, inspected second: only the lease meant is unlinked.        *)
InspectTrusting(p) ==
    /\ On(p, "inspect")
    /\ Goto(p, "unlink") /\ Here /\ UNCHANGED <<dir, lock, races>>

Inspect(p) ==
    LET r == dir[at[p].name]
    IN  /\ On(p, "inspect")
        /\ \/ r \in {Absent} \cup (Record \ {at[p].lease}) /\ r.phase # "empty"
              /\ Set(p, [at[p] EXCEPT !.pc = "read", !.name = Fixed])
              /\ UNCHANGED lock
           \/ r.phase \in {"absent", "empty"} /\ Raise(p)
           \/ r = at[p].lease /\ Goto(p, "unlink") /\ UNCHANGED lock
        /\ Here /\ UNCHANGED <<dir, races>>

(* What the clearing was for goes on.                                      *)
Cleared(p, ok) ==
    LET s == at[p]
    IN  CASE s.clear = "status" /\ ok ->
                /\ Set(p, [s EXCEPT !.pc = "judge", !.recs = {},
                                    !.name = Fixed])
                /\ UNCHANGED lock
          [] s.clear = "withdraw" ->
                /\ Set(p, Listed(BeginClear(s, s.lease, "cleanup")))
                /\ UNCHANGED lock
          [] OTHER -> Done(p) /\ Free(p)

Unlink(p) ==
    /\ On(p, "unlink")
    /\ IF dir[at[p].name] = Absent
         THEN /\ Set(p, [at[p] EXCEPT !.pc = "read", !.name = Fixed])
              /\ UNCHANGED <<dir, lock>>
         ELSE /\ dir' = [dir EXCEPT ![at[p].name] = Absent]
              /\ Cleared(p, TRUE)
    /\ Here /\ UNCHANGED races

ClearFails(p) ==
    /\ Scanned(p, "clear") /\ at[p].recs = {}
    /\ Cleared(p, FALSE)
    /\ Here /\ UNCHANGED <<dir, races>>

-----------------------------------------------------------------------------
(* createChatGPTLoginLease                                                 *)

(* authDigestBefore is read when a claim begins. A poll that is to discard *)
(* what it finds takes the account-pool lock first.                        *)
Start(p) ==
    /\ On(p, "idle")
    /\ IF p \in Claimants
         THEN /\ Set(p, Begin(Idle, "status"))
              /\ before' = [before EXCEPT ![p] = auth]
         ELSE Set(p, Listed(Begin(Idle, "status"))) /\ UNCHANGED before
    /\ \/ UNCHANGED lock
       \/ p \in Pollers /\ lock = None /\ lock' = p
    /\ UNCHANGED <<dir, auth, wrote, up, child, races, bounds>>

Create(p) ==
    /\ NothingFound(p) /\ p \in Claimants
    /\ IF dir[Fixed] = Absent
         THEN /\ dir' = [dir EXCEPT ![Fixed] = Of(p, "empty")]
              /\ Goto(p, "write")
         ELSE /\ UNCHANGED dir
              /\ IF at[p].try = Tries THEN Done(p)
                 ELSE Set(p, [Begin(Idle, "status")
                                 EXCEPT !.try = at[p].try + 1])
    /\ Here /\ UNCHANGED <<lock, races>>

WriteMisnamed(p) ==
    /\ On(p, "write")
    /\ dir' = [n \in Names |-> IF dir[n] = Of(p, "empty") THEN Of(p, "claimed")
                                                         ELSE dir[n]]
    /\ Goto(p, "protect")
    /\ Here /\ UNCHANGED <<lock, races>>

(* The descriptor stays with the file, whatever its name has become.       *)
Write(p) ==
    /\ On(p, "write")
    /\ dir' = [n \in Names |-> IF dir[n] = Of(p, "empty") THEN Of(p, "reserved")
                                                         ELSE dir[n]]
    /\ Goto(p, "protect")
    /\ Here /\ UNCHANGED <<lock, races>>

(* protectPrivateFile fails when the record has been moved away.           *)
Protect(p) ==
    /\ On(p, "protect")
    /\ IF dir[Fixed] = Absent THEN Clear(p, Of(p, "reserved"), "cleanup")
                              ELSE Scan(p, "rescan")
    /\ Here /\ UNCHANGED <<dir, lock, races>>

(* A claim that finds another generation withdraws.                        *)
ExclusiveUnchecked(p) == TRUE
Exclusive(p)          == Found(p) \subseteq {Of(p, "reserved")}

Withdraw(p) ==
    /\ Scanned(p, "rescan") /\ ~ Exclusive(p)
    /\ Set(p, Listed(BeginClear(at[p], Of(p, "reserved"), "withdraw")))
    /\ Here /\ UNCHANGED <<dir, lock, races>>

-----------------------------------------------------------------------------
(* The sign-in, attachChatGPTLoginLease and the end of the child           *)

(* A child that cannot be spawned leaves a reservation to be cleared.      *)
Spawn(p) ==
    /\ Scanned(p, "rescan") /\ Exclusive(p)
    /\ \/ /\ child' = [child EXCEPT ![p] = "alive"]
          /\ Set(p, Listed(Begin(Idle, "attach")))
       \/ /\ IF auth = before[p] THEN Clear(p, Of(p, "reserved"), "cleanup")
                                  ELSE Done(p)
          /\ UNCHANGED child
    /\ UNCHANGED <<home, up, lock, races, bounds>>

(* writePrivateJson replaces whatever has the fixed name by now. *)
Attach(p) ==
    /\ Scanned(p, "attach")
    /\ IF Alone(p, Of(p, "reserved"))
         THEN /\ dir' = [dir EXCEPT ![Fixed] = Of(p, "running")]
              /\ races' = IF dir[Fixed].id \in {p, None} THEN races
                          ELSE races \cup {"replaced"}
              /\ Scan(p, "attached")
         ELSE Goto(p, "failed") /\ UNCHANGED <<dir, races>>
    /\ Here /\ UNCHANGED lock

Attached(p) ==
    /\ Scanned(p, "attached")
    /\ IF Alone(p, Of(p, "running"))
         THEN Set(p, [Idle EXCEPT !.pc = "waiting"])
         ELSE Goto(p, "failed")
    /\ Here /\ UNCHANGED <<dir, lock, races>>

(* finalizeChatGPTProfileLogin takes the account-pool lock, and then makes *)
(* sure that the lease it is about is still the only one.                  *)
TakeLock(p, lease) ==
    /\ lock = None /\ lock' = p
    /\ Set(p, [Begin(Idle, "match") EXCEPT !.lease = lease])

(* The child has closed: finalize, or clear the reservation of a child     *)
(* that was never attached and has changed nothing.                        *)
Closed(p) ==
    /\ p \in up /\ at[p].pc \in {"waiting", "failed"} /\ child[p] = "dead"
    /\ IF at[p].pc = "failed" /\ auth = before[p]
         THEN Clear(p, Of(p, "reserved"), "finish") /\ UNCHANGED lock
         ELSE TakeLock(p, Of(p, IF at[p].pc = "failed" THEN "reserved"
                                                        ELSE "running"))
    /\ Here /\ UNCHANGED <<dir, races>>

(* discardCompletedChatGPTProfileLogin, with the lock since it began, has  *)
(* found a lease: it goes when its auth.json is no login of the account.   *)
Discard(p, r) ==
    /\ lock = p
    /\ \/ /\ Set(p, Listed(BeginClear(at[p], r, "finish")))
          /\ UNCHANGED lock
       \/ Done(p) /\ Free(p)

(* chatGPTLoginLeaseCompletionCandidate returns whatever is there by now.  *)
Candidate(p) ==
    /\ Scanned(p, "candidate")
    /\ IF Cardinality(at[p].recs) = 1
         THEN \E r \in Found(p) :
                 /\ TakeLock(p, r) \/ Discard(p, r)
                 /\ races' = IF r = at[p].lease THEN races
                             ELSE races \cup {"swapped"}
         ELSE Done(p) /\ Free(p) /\ UNCHANGED races
    /\ Here /\ UNCHANGED dir

(* A login that is not the account's, or the active account's while Codex  *)
(* is open, is not finalized: its lease stays.                             *)
Matched(p) ==
    /\ Scanned(p, "match")
    /\ \/ /\ Alone(p, at[p].lease)
          /\ Set(p, Listed(BeginClear(at[p], at[p].lease, "finish")))
          /\ UNCHANGED lock
       \/ Done(p) /\ Free(p)
    /\ Here /\ UNCHANGED <<dir, races>>

-----------------------------------------------------------------------------
(* The children, and processes that end                                    *)

ChildWrites(c) ==
    /\ child[c] = "alive" /\ bounds.writes > 0
    /\ bounds' = [bounds EXCEPT !.writes = @ - 1]
    /\ auth' = auth + 1 /\ wrote' = wrote \cup {c}
    /\ UNCHANGED <<dir, before, up, child, at, lock, races>>

ChildExits(c) ==
    /\ child[c] = "alive" /\ bounds.ends
    /\ child' = [child EXCEPT ![c] = "dead"]
    /\ UNCHANGED <<home, up, at, lock, races, bounds>>

(* A poller is started anew by the next status command. *)
Crash(p) ==
    /\ p \in up /\ at[p].pc \notin {"idle", "done"} /\ bounds.crashes > 0
    /\ bounds' = [bounds EXCEPT !.crashes = @ - 1]
    /\ up' = up \ ({p} \cap Claimants)
    /\ Done(p)
    /\ Free(p)
    /\ UNCHANGED <<home, child, races>>

ScanStep(p)     == List(p) \/ Read(p)
StatusStep(p)   == StatusPass(p) \/ Judge(p) \/ NextPass(p) \/ StatusEnds(p)
ClearStep(p)    == \/ Relocate(p) \/ Inspect(p) \/ Unlink(p)
                   \/ ClearFails(p)
FinalStep(p)    == Candidate(p) \/ Matched(p)
ClaimStep(c)    == \/ Create(c) \/ Write(c) \/ Protect(c) \/ Withdraw(c)
                   \/ Spawn(c) \/ Attach(c) \/ Attached(c) \/ Closed(c)

Step(p) == \/ Start(p) \/ ScanStep(p) \/ StatusStep(p) \/ ClearStep(p)
           \/ FinalStep(p) \/ (p \in Claimants /\ ClaimStep(p))

Next == \/ \E p \in Procs : Step(p) \/ Crash(p)
        \/ \E c \in Claimants : ChildWrites(c) \/ ChildExits(c)

Spec == Init /\ [][Next]_vars

-----------------------------------------------------------------------------
Holding(c) == \E n \in Names : dir[n].id = c
Writers    == {c \in Claimants : child[c] = "alive"}

(* Two sign-ins never run for one account, so no two processes write its   *)
(* auth.json: createChatGPTLoginLease admits one claim at a time, however  *)
(* records move while it looks (createChatGPTLoginLease,                   *)
(* clearChatGPTLoginLease, chatGPTLoginLeaseStatus) - unless a race has    *)
(* removed a lease it was not about, or has hidden one.                    *)
OneWriter == races = {} => Cardinality(Writers) <= 1

(* As long as a sign-in runs, a record somewhere in the home says so, to   *)
(* keep switches and removals away: no stale clearer, no withdrawal and no *)
(* crash takes it (clearChatGPTLoginLease, attachChatGPTLoginLease) -      *)
(* unless a race has.                                                      *)
Fenced == races \subseteq {"missed"} => \A c \in Writers : Holding(c)

(* The lease of a sign-in that has changed auth.json is evidence of a      *)
(* login not yet recorded: who removes it means this lease and has the     *)
(* account-pool lock, for its finalization or to discard it                *)
(* (chatGPTLoginLeaseStatus, finalizeChatGPTProfileLogin,                  *)
(* discardCompletedChatGPTProfileLogin) - or is an attachment that         *)
(* replaces it.                                                            *)
EvidenceKept ==
    [][\A c \in wrote :
          Holding(c) /\ ~Holding(c)' /\ "replaced" \notin races'
          => /\ lock # None /\ at[lock].pc = "unlink"
             /\ at[lock].clear = "finish" /\ at[lock].lease.id = c]_vars
=============================================================================
