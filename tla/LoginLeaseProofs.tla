-------------------------- MODULE LoginLeaseProofs --------------------------
(***************************************************************************)
(* What the login lease keeps, for any number of claimants and pollers,    *)
(* moves of records, writes, crashes and ends.  In this order: the parts   *)
(* of the invariant; what the operators of the model and each of its       *)
(* actions do; that each step keeps each part; that a claim and a sign-in  *)
(* always have a record; that of two claims one sees the other; and the    *)
(* theorems.                                                               *)
(***************************************************************************)
EXTENDS LoginLease, FiniteSetTheorems, TLAPS

(* A process scans the directory, or clears a lease.                       *)
Scanning(p, whys) == at[p].pc \in {"list", "read"} /\ at[p].scan \in whys
Clearing(p) == at[p].pc \in {"inspect", "unlink"} \/ Scanning(p, {"clear"})

(* The writer of a lease has ended, and will not come back.                *)
Over(i) == i = Earlier \/ (i \in Claimants /\ child[i] = "dead")

(* A claimant before its sign-in, and one whose sign-in has begun.         *)
Unborn(c) == \/ at[c].pc \in {"idle", "judge", "write", "protect"}
             \/ Scanning(c, {"status", "last", "rescan"})
             \/ /\ Clearing(c)
                /\ at[c].clear \in {"status", "withdraw", "cleanup"}
Born(c)   == \/ at[c].pc \in {"waiting", "failed"}
             \/ Scanning(c, {"attach", "attached"})

(* Roles: what only claimants, or only pollers, do.                        *)
Roles ==
    /\ \A p \in Pollers :
          /\ at[p].pc \notin {"write", "protect", "waiting", "failed"}
          /\ at[p].scan \notin {"rescan", "attach", "attached"}
          /\ at[p].clear \notin {"withdraw", "cleanup"}
    /\ \A c \in Claimants : at[c].scan # "candidate"
    /\ \A p \in Procs : at[p].pc \in {"inspect", "unlink"} =>
                            at[p].scan = "clear"

(* Written: only sign-ins write auth.json, after their claim began.        *)
Written ==
    /\ \A i \in Leases : before[i] <= auth
    /\ \A i \in wrote :
          i \in Claimants /\ child[i] # "none" /\ before[i] < auth

(* Lives: a claimant's child is there when its sign-in has begun, only.    *)
Lives == \A c \in Claimants : /\ Unborn(c) => child[c] = "none"
                              /\ Born(c) => child[c] # "none"

(* Started: a record in phase "running" is of a child that has begun.      *)
Began(r) == r.phase = "running" /\ r.id \in Claimants => child[r.id] # "none"
Started ==
    /\ \A n \in Names : Began(dir[n])
    /\ \A p \in Procs : /\ \A r \in at[p].recs : Began(r[2])
                        /\ \A r \in at[p].todo : Began(r[2])

(* Purpose: what a process clears, and what a finalization is about.       *)
PurposeOf(p) ==
    /\ Clearing(p) =>
          /\ at[p].lease \in Known
          /\ at[p].clear \in {"withdraw", "cleanup"} =>
                at[p].lease = Of(p, "reserved")
          /\ at[p].clear = "status" =>
                Over(at[p].lease.id) /\ at[p].lease.id \notin wrote
          /\ at[p].clear = "finish" =>
                /\ lock = p \/ (/\ Over(at[p].lease.id)
                                /\ at[p].lease.id \notin wrote)
                /\ "swapped" \notin races => Over(at[p].lease.id)
    /\ Scanning(p, {"candidate"}) =>
          at[p].lease \in Known /\ Over(at[p].lease.id)
    /\ Scanning(p, {"match"}) =>
          /\ at[p].lease \in Known /\ lock = p
          /\ "swapped" \notin races => Over(at[p].lease.id)
Purpose == \A p \in Procs : PurposeOf(p)

(* Private: nothing appears under a name that a clearer has moved a record *)
(* to, and what it unlinks there is the lease it means.                    *)
Private ==
    \A p \in Procs :
        /\ at[p].pc \in {"inspect", "unlink"} => at[p].name \in Relocated
        /\ at[p].pc = "unlink" => dir[at[p].name] \in {Absent, at[p].lease}

(* Held: a claim, once created, and a sign-in have a record in the home;   *)
(* that a re-scan has missed one does not remove it.                       *)
Held == races \subseteq {"missed"} =>
            \A c \in Claimants : Claimed(c) => Holding(c)

(* Paired: of two claims that look for others one sees the other, and one  *)
(* that looks sees a sign-in that runs.                                    *)
Sees(c, d) == \/ \E r \in at[c].recs : r[2].id = d
              \/ \E n \in at[c].names : dir[n].id = d
Paired ==
    races = {} =>
        \A c, d \in Claimants : c # d =>
            /\ ~(child[c] = "alive" /\ child[d] = "alive")
            /\ Looking(c) /\ child[d] = "alive" => Sees(c, d)
            /\ Looking(c) /\ Looking(d) => Sees(c, d) \/ Sees(d, c)

(* Only p has moved.                                                       *)
Local(p) == at' \in [Procs -> Doing] /\ \A q \in Procs \ {p} : at'[q] = at[q]
(* It goes on with the same aim; and with what it has read.                *)
KeepsAim(p) == /\ at'[p].scan = at[p].scan /\ at'[p].clear = at[p].clear
               /\ at'[p].lease = at[p].lease /\ at'[p].todo = at[p].todo
Keeps(p) == KeepsAim(p) /\ at'[p].recs = at[p].recs
(* It begins to scan, for another end than clearing.                       *)
Seeks(p, why) ==
    /\ at'[p].pc \in {"list", "read"} /\ at'[p].scan = why
    /\ at'[p].recs = {}
    /\ at'[p].clear \in {"status", at[p].clear}

(* What a process that does s is doing: it, and no other, has moved.       *)
LEMMA SetIs ==
    ASSUME TypeOK, NEW p \in Procs, NEW s \in Doing, Set(p, s)
    PROVE  Local(p) /\ at'[p] = s
  BY DEF TypeOK, Set, Local

(* A process that does nothing, and what a scan, a clearing, a listing and *)
(* an end make of one: lemmas about the operators of the model.            *)
LEMMA IdleIs == /\ Idle \in Doing
                /\ Idle.recs = {} /\ Idle.todo = {} /\ Idle.names = {}
                /\ Idle.scan = "status" /\ Idle.clear = "status"
  BY DEF Idle, Doing, Steps, Scans, Clears, Names, Known, Absent, Passes,
         Tries, Fixed

(* Begin: a scan for another end, with nothing listed and nothing read.    *)
LEMMA BeginIs ==
    ASSUME NEW s \in Doing, NEW why \in Scans
    PROVE  /\ Begin(s, why) \in Doing
           /\ Begin(s, why).pc = "list" /\ Begin(s, why).scan = why
           /\ Begin(s, why).names = {} /\ Begin(s, why).recs = {}
           /\ Begin(s, why).clear = s.clear /\ Begin(s, why).lease = s.lease
           /\ Begin(s, why).todo = s.todo
  BY DEF Begin, Doing, Steps

(* BeginClear: a scan for what is to be cleared.                           *)
LEMMA BeginClearIs ==
    ASSUME NEW s \in Doing, NEW lease \in Known \cup {Absent},
           NEW why \in Clears
    PROVE  /\ BeginClear(s, lease, why) \in Doing
           /\ BeginClear(s, lease, why).pc = "list"
           /\ BeginClear(s, lease, why).scan = "clear"
           /\ BeginClear(s, lease, why).clear = why
           /\ BeginClear(s, lease, why).recs = {}
           /\ BeginClear(s, lease, why).lease = lease
           /\ BeginClear(s, lease, why).todo = s.todo
<1> DEFINE b == Begin(s, "clear")
<1>1. /\ b \in Doing /\ b.pc = "list" /\ b.scan = "clear"
      /\ b.names = {} /\ b.recs = {} /\ b.todo = s.todo
  BY BeginIs DEF Scans
<1>2. BeginClear(s, lease, why) = [b EXCEPT !.clear = why, !.lease = lease]
  BY DEF BeginClear
<1> HIDE DEF b
<1> QED
  BY <1>1, <1>2 DEF Doing

(* Listed: the names there are, the rest as it was.                        *)
LEMMA ListedIs ==
    ASSUME NEW s \in Doing
    PROVE  /\ Listed(s) \in Doing /\ Listed(s).pc = "read"
           /\ Listed(s).names = {n \in Names : dir[n] # Absent}
           /\ Listed(s).scan = s.scan /\ Listed(s).clear = s.clear
           /\ Listed(s).recs = s.recs /\ Listed(s).lease = s.lease
           /\ Listed(s).todo = s.todo
  BY DEF Listed, Doing, Steps

(* It ends what it was doing.                                              *)
Ends(p) == /\ at'[p].pc \in {"idle", "done"}
           /\ p \in Claimants => at'[p].pc = "done"
           /\ at'[p].scan = "status" /\ at'[p].clear = "status"
           /\ at'[p].recs = {} /\ at'[p].todo = {} /\ at'[p].names = {}

(* Done: the process has ended what it was doing, for another round at     *)
(* most if it is a poller.                                                 *)
LEMMA DoneIs ==
    ASSUME TypeOK, NEW p \in Procs, Done(p)
    PROVE  Local(p) /\ Ends(p)
<1> DEFINE s == [Idle EXCEPT !.pc =
                   IF p \in Pollers /\ bounds.polls = "always" THEN "idle"
                                                              ELSE "done"]
<1>1. /\ s \in Doing /\ s.pc \in {"idle", "done"}
      /\ p \in Claimants => s.pc = "done"
      /\ s.scan = "status" /\ s.clear = "status"
      /\ s.recs = {} /\ s.todo = {} /\ s.names = {}
  BY IdleIs, LeaseAssumption DEF Doing, Steps
<1>2. Set(p, s)
  BY DEF Done
<1> HIDE DEF s
<1> QED
  BY <1>1, <1>2, SetIs DEF Ends

(* It begins to clear a lease.                                             *)
Turns(p, lease, why) ==
    /\ at'[p].pc \in {"list", "read"} /\ at'[p].scan = "clear"
    /\ at'[p].clear = why /\ at'[p].lease = lease
    /\ at'[p].recs = {} /\ at'[p].todo \subseteq at[p].todo

(* Clear, and a clearing whose directory is listed at once.                *)
LEMMA ClearIs ==
    ASSUME TypeOK, NEW p \in Procs, NEW lease \in Known \cup {Absent},
           NEW why \in Clears,
           Clear(p, lease, why)
    PROVE  Local(p) /\ Turns(p, lease, why)
<1>1. at[p] \in Doing
  BY DEF TypeOK
<1> QED
  BY <1>1, BeginClearIs, SetIs DEF Clear, Turns

(* The same for a clearing whose directory has been listed at once.        *)
LEMMA ListedClearIs ==
    ASSUME TypeOK, NEW p \in Procs, NEW lease \in Known \cup {Absent},
           NEW why \in Clears,
           Set(p, Listed(BeginClear(at[p], lease, why)))
    PROVE  Local(p) /\ Turns(p, lease, why)
<1>1. at[p] \in Doing
  BY DEF TypeOK
<1> DEFINE b == BeginClear(at[p], lease, why)
<1>2. /\ b \in Doing /\ b.scan = "clear" /\ b.recs = {} /\ b.clear = why 
      /\ b.lease = lease /\ b.todo = at[p].todo
  BY <1>1, BeginClearIs
<1> HIDE DEF b
<1>3. /\ Listed(b) \in Doing /\ Listed(b).pc = "read"
      /\ Listed(b).scan = "clear" /\ Listed(b).recs = {}
      /\ Listed(b).clear = why /\ Listed(b).lease = lease
      /\ Listed(b).todo = at[p].todo
  BY <1>2, ListedIs
<1>4. Set(p, Listed(b))
  BY DEF b
<1> QED
  BY <1>3, <1>4, SetIs DEF Turns

(* Goto: another step of the same.                                         *)
LEMMA GotoIs ==
    ASSUME TypeOK, NEW p \in Procs, NEW pc \in Steps, Goto(p, pc)
    PROVE  /\ Local(p) /\ at'[p].pc = pc /\ Keeps(p)
           /\ at'[p].name = at[p].name /\ at'[p].names = at[p].names
<1> DEFINE s == [at[p] EXCEPT !.pc = pc]
<1>1. at[p] \in Doing
  BY DEF TypeOK
<1>2. s \in Doing
  BY <1>1 DEF Doing
<1>3. Local(p) /\ at'[p] = s
  BY <1>2, SetIs DEF Goto
<1> QED
  BY <1>1, <1>3 DEF Keeps, KeepsAim, Doing

(* The names and the records that come first are among those there are.    *)
LEMMA FirstOnes ==
    ASSUME NEW S
    PROVE  Firsts(S) \subseteq S /\ Heads(S) \subseteq S
  BY DEF Firsts, Heads

(* What an error makes of a process.                                       *)
Raises(p) ==
    \/ /\ p \in Claimants
       /\ \/ at[p].scan = "rescan"
          \/ at[p].scan = "clear" /\ at[p].clear = "withdraw"
       /\ Turns(p, Of(p, "reserved"), "cleanup") /\ UNCHANGED lock
    \/ /\ at[p].scan \in {"attach", "attached"} /\ at'[p].pc = "failed"
       /\ Keeps(p) /\ UNCHANGED lock
    \/ Ends(p) /\ Free(p)

(* An error makes a claim clean up, an attachment fail and anything else   *)
(* end.                                                                    *)
LEMMA RaiseIs ==
    ASSUME TypeOK, Roles, NEW p \in Procs, Raise(p)
    PROVE  Local(p) /\ Raises(p)
<1>1. at[p] \in Doing
  BY DEF TypeOK
<1>2. CASE \/ at[p].scan = "rescan"
           \/ at[p].scan = "clear" /\ at[p].clear = "withdraw"
  <2>1. p \in Claimants /\ Of(p, "reserved") \in Known
    BY <1>2 DEF Roles, Procs, Of, Known, Leases
  <2>2. Clear(p, Of(p, "reserved"), "cleanup") /\ UNCHANGED lock
    BY <1>2 DEF Raise
  <2>3. "cleanup" \in Clears
    BY DEF Clears
  <2> QED
    BY <1>2, <2>1, <2>2, <2>3, ClearIs DEF Raises
<1>3. CASE at[p].scan \in {"attach", "attached"}
  <2>1. Goto(p, "failed") /\ UNCHANGED lock
    BY <1>3 DEF Raise
  <2> QED
    BY <1>3, <2>1, GotoIs DEF Raises, Steps
<1>4. CASE /\ at[p].scan # "rescan"
           /\ ~(at[p].scan = "clear" /\ at[p].clear = "withdraw")
           /\ at[p].scan \notin {"attach", "attached"}
  <2>1. Done(p) /\ Free(p)
    BY <1>4 DEF Raise
  <2> QED
    BY <2>1, DoneIs DEF Raises
<1> QED
  BY <1>2, <1>3, <1>4

(* A process keeps the lock, or lets go of it.                             *)
Lets(p) == UNCHANGED lock \/ Free(p)

(* Start begins a status; a claim notes what auth.json is, a poller may    *)
(* take the lock.                                                          *)
LEMMA StartIs ==
    ASSUME TypeOK, NEW p \in Procs, Start(p)
    PROVE  /\ Local(p) /\ at[p].pc = "idle"
           /\ Seeks(p, "status") /\ at'[p].todo = {}
           /\ before' = IF p \in Claimants THEN [before EXCEPT ![p] = auth]
                                           ELSE before
           /\ UNCHANGED <<dir, auth, wrote, up, child, races, bounds>>
           /\ UNCHANGED lock \/ (lock = None /\ lock' = p)
<1> DEFINE b == Begin(Idle, "status")
<1>1. /\ b \in Doing /\ b.pc = "list" /\ b.scan = "status" /\ b.recs = {}
      /\ b.todo = {} /\ b.clear = "status"
  BY IdleIs, BeginIs DEF Scans
<1>2. /\ Listed(b) \in Doing /\ Listed(b).pc = "read"
      /\ Listed(b).scan = "status" /\ Listed(b).clear = "status"
      /\ Listed(b).recs = {} /\ Listed(b).todo = {}
  BY <1>1, ListedIs
<1>3. Set(p, b) \/ Set(p, Listed(b))
  BY DEF Start
<1> HIDE DEF b
<1>4. Local(p) /\ Seeks(p, "status") /\ at'[p].todo = {}
  BY <1>1, <1>2, <1>3, SetIs DEF Seeks
<1> QED
  BY <1>4 DEF Start, On

(* List notes the names there are.                                         *)
LEMMA ListIs ==
    ASSUME TypeOK, NEW p \in Procs, List(p)
    PROVE  /\ Local(p) /\ at[p].pc = "list" /\ at'[p].pc = "read" /\ Keeps(p)
           /\ at'[p].names = {n \in Names : dir[n] # Absent}
           /\ UNCHANGED <<home, up, child, lock, races, bounds>>
<1>1. at[p] \in Doing /\ Set(p, Listed(at[p]))
  BY DEF TypeOK, List
<1> QED
  BY <1>1, ListedIs, SetIs DEF List, On, Here, home, Keeps, KeepsAim

(* Read takes one of the names listed, and the record under it if there is *)
(* one, or raises.                                                         *)
LEMMA ReadIs ==
    ASSUME TypeOK, Roles, NEW p \in Procs, Read(p)
    PROVE  /\ Local(p) /\ at[p].pc = "read"
           /\ UNCHANGED <<home, up, child, races, bounds>>
           /\ \/ Raises(p)
              \/ /\ at'[p].pc = "read" /\ KeepsAim(p) /\ UNCHANGED lock
                 /\ \E n \in at[p].names :
                       /\ at'[p].names = at[p].names \ {n}
                       /\ \/ dir[n] = Absent /\ at'[p].recs = at[p].recs
                          \/ /\ dir[n] \in Known
                             /\ at'[p].recs = at[p].recs \cup {<<n, dir[n]>>}
<1>1. at[p] \in Doing /\ dir \in [Names -> Record \cup {Absent}]
  BY DEF TypeOK
<1>2. PICK n \in Firsts(at[p].names) :
          \/ /\ dir[n] = Absent
             /\ Set(p, [at[p] EXCEPT !.names = @ \ {n}])
             /\ UNCHANGED lock
          \/ dir[n].phase \in {"absent", "empty"} /\ Raise(p)
          \/ /\ dir[n].phase \in {"reserved", "running"}
             /\ Set(p, [at[p] EXCEPT !.names = @ \ {n},
                                     !.recs = @ \cup {<<n, dir[n]>>}])
             /\ UNCHANGED lock
  BY DEF Read
<1>3. n \in at[p].names /\ n \in Names
  BY <1>1, FirstOnes DEF Doing
<1>4. UNCHANGED <<home, up, child, races, bounds>> /\ at[p].pc = "read"
  BY DEF Read, Here, home, On
<1>5. CASE Raise(p)
  BY <1>4, <1>5, RaiseIs
<1>6. CASE /\ dir[n] = Absent /\ UNCHANGED lock
           /\ Set(p, [at[p] EXCEPT !.names = @ \ {n}])
  <2> DEFINE s == [at[p] EXCEPT !.names = @ \ {n}]
  <2>1. s \in Doing
    BY <1>1 DEF Doing
  <2>2. Local(p) /\ at'[p] = s
    BY <1>6, <2>1, SetIs
  <2> QED
    BY <1>1, <1>3, <1>4, <1>6, <2>2 DEF KeepsAim, Doing
<1>7. CASE /\ dir[n].phase \in {"reserved", "running"} /\ UNCHANGED lock
           /\ Set(p, [at[p] EXCEPT !.names = @ \ {n},
                                   !.recs = @ \cup {<<n, dir[n]>>}])
  <2> DEFINE s == [at[p] EXCEPT !.names = @ \ {n},
                                !.recs = @ \cup {<<n, dir[n]>>}]
  <2>1. dir[n] \in Known
    BY <1>1, <1>3, <1>7 DEF Record, Known, Absent
  <2> DEFINE recs == at[p].recs \cup {<<n, dir[n]>>}
  <2>4. recs \in SUBSET (Names \X Known) /\ at[p].names \ {n} \in SUBSET Names
    BY <1>1, <1>3, <2>1 DEF Doing
  <2>5. s = [at[p] EXCEPT !.names = at[p].names \ {n}, !.recs = recs]
    BY <1>1 DEF Doing
  <2> HIDE DEF recs
  <2>2. s \in Doing
    BY <1>1, <2>4, <2>5 DEF Doing
  <2> USE DEF recs
  <2>3. Local(p) /\ at'[p] = s
    BY <1>7, <2>2, SetIs
  <2> QED
    BY <1>1, <1>3, <1>4, <1>7, <2>1, <2>3 DEF KeepsAim, Doing
<1> QED
  BY <1>2, <1>5, <1>6, <1>7

(* StatusPass makes what it has read what it has to judge.                 *)
LEMMA StatusPassIs ==
    ASSUME TypeOK, NEW p \in Procs, StatusPass(p)
    PROVE  /\ Local(p) /\ at[p].pc = "read" /\ at[p].scan = "status"
           /\ at'[p].pc = "judge" /\ at'[p].scan = "status"
           /\ at'[p].clear = at[p].clear /\ at'[p].recs = at[p].recs
           /\ at'[p].todo = at[p].recs
           /\ UNCHANGED <<home, up, child, lock, races, bounds>>
<1> DEFINE s == [at[p] EXCEPT !.pc = "judge", !.todo = at[p].recs]
<1>1. at[p] \in Doing
  BY DEF TypeOK
<1>2. s \in Doing
  BY <1>1 DEF Doing, Steps
<1>3. Local(p) /\ at'[p] = s
  BY <1>2, SetIs DEF StatusPass
<1> QED
  BY <1>1, <1>3 DEF StatusPass, Scanned, On, Here, home, Doing

(* A record whose child, as far as a status can tell, has ended.           *)
Ended(r) == /\ r \in Known /\ r.phase = "running"
            /\ r.id = Earlier \/ child[r.id] # "alive"

(* Judge ends, or goes on with a record whose child has ended: to clear it *)
(* when auth.json is unchanged, or to finalize.                            *)
LEMMA JudgeIs ==
    ASSUME TypeOK, NEW p \in Procs, Judge(p)
    PROVE  /\ Local(p) /\ at[p].pc = "judge"
           /\ UNCHANGED <<home, up, child, races, bounds>> /\ Lets(p)
           /\ \/ Ends(p)
              \/ \E r \in at[p].todo :
                    /\ Ended(r[2])
                    /\ \/ /\ p \in Pollers /\ Seeks(p, "candidate")
                          /\ at'[p].lease = r[2] /\ at'[p].todo = at[p].todo
                       \/ /\ Turns(p, r[2], "status") /\ auth = before[r[2].id]
<1>1. at[p] \in Doing
  BY DEF TypeOK
<1>2. PICK r \in Heads(at[p].todo) :
          IF OwnerRuns(r[2]) \/ r[2].phase = "reserved"
             \/ (Changed(r[2]) /\ p \notin Pollers)
            THEN Done(p) /\ Free(p)
          ELSE IF Changed(r[2])
            THEN /\ Set(p, Listed([Begin(at[p], "candidate")
                                      EXCEPT !.lease = r[2]]))
                 /\ UNCHANGED lock
            ELSE /\ Set(p, Listed([BeginClear(at[p], r[2], "status")
                                      EXCEPT !.todo = @ \ {r}]))
                 /\ UNCHANGED lock
  BY DEF Judge
<1>3. r \in at[p].todo /\ r[2] \in Known
  BY <1>1, FirstOnes DEF Doing
<1>4. /\ UNCHANGED <<home, up, child, races, bounds>> /\ at[p].pc = "judge"
      /\ Lets(p)
  BY <1>2 DEF Judge, Here, home, On, Lets
<1>5. CASE Done(p)
  BY <1>4, <1>5, DoneIs
<1>6. ~(OwnerRuns(r[2]) \/ r[2].phase = "reserved") => Ended(r[2])
  BY <1>3 DEF OwnerRuns, Ended, Known
<1>7. CASE /\ Ended(r[2]) /\ p \in Pollers
           /\ Set(p, Listed([Begin(at[p], "candidate") EXCEPT !.lease = r[2]]))
  <2> DEFINE b == Begin(at[p], "candidate")
             s == [b EXCEPT !.lease = r[2]]
  <2>1. /\ b \in Doing /\ b.scan = "candidate" /\ b.recs = {}
        /\ b.todo = at[p].todo /\ b.clear = at[p].clear
    BY <1>1, BeginIs DEF Scans
  <2>2. Set(p, Listed(s))
    BY <1>7
  <2> HIDE DEF b
  <2>3. /\ s \in Doing /\ s.scan = "candidate" /\ s.recs = {}
        /\ s.todo = at[p].todo /\ s.lease = r[2] /\ s.clear = at[p].clear
    BY <1>3, <2>1 DEF Doing
  <2> HIDE DEF s
  <2>4. Local(p) /\ at'[p] = Listed(s)
    BY <2>2, <2>3, ListedIs, SetIs
  <2>5. /\ Seeks(p, "candidate") /\ at'[p].lease = r[2]
        /\ at'[p].todo = at[p].todo
    BY <2>3, <2>4, ListedIs DEF Seeks
  <2> QED
    BY <1>3, <1>4, <1>7, <2>4, <2>5
<1>8. CASE /\ Ended(r[2]) /\ ~Changed(r[2])
           /\ Set(p, Listed([BeginClear(at[p], r[2], "status")
                                   EXCEPT !.todo = @ \ {r}]))
  <2> DEFINE b == BeginClear(at[p], r[2], "status")
             s == [b EXCEPT !.todo = @ \ {r}]
  <2>6. r[2] \in Known \cup {Absent} /\ "status" \in Clears
    BY <1>3 DEF Clears
  <2>1. /\ b \in Doing /\ b.scan = "clear" /\ b.recs = {} /\ b.clear = "status"
        /\ b.todo = at[p].todo /\ b.lease = r[2]
    BY <1>1, <2>6, BeginClearIs
  <2>2. Set(p, Listed(s))
    BY <1>8
  <2> HIDE DEF b
  <2>3. /\ s \in Doing /\ s.scan = "clear" /\ s.recs = {} /\ s.clear = "status"
        /\ s.todo \subseteq at[p].todo /\ s.lease = r[2]
    BY <1>1, <1>3, <2>1 DEF Doing
  <2> HIDE DEF s
  <2>4. Local(p) /\ at'[p] = Listed(s)
    BY <2>2, <2>3, ListedIs, SetIs
  <2>5. Turns(p, r[2], "status")
    BY <2>3, <2>4, ListedIs DEF Turns
  <2> QED
    BY <1>3, <1>4, <1>8, <2>4, <2>5 DEF Changed
<1> QED
  BY <1>2, <1>5, <1>6, <1>7, <1>8

(* NextPass scans again.                                                   *)
LEMMA NextPassIs ==
    ASSUME TypeOK, NEW p \in Procs, NextPass(p)
    PROVE  /\ Local(p) /\ at[p].pc = "judge"
           /\ Seeks(p, "status") \/ Seeks(p, "last")
           /\ at'[p].todo = at[p].todo
           /\ UNCHANGED <<home, up, child, lock, races, bounds>>
<1> DEFINE b == Begin(at[p], "status")
           s == [b EXCEPT !.pass = @ + 1]
           c == Begin(at[p], "last")
<1>1. at[p] \in Doing
  BY DEF TypeOK
<1>0. b.pass = at[p].pass
  BY <1>1 DEF Begin, Doing
<1>2. /\ b \in Doing /\ b.scan = "status" /\ b.recs = {}
      /\ b.todo = at[p].todo /\ b.clear = at[p].clear /\ b.pass = at[p].pass
      /\ c \in Doing /\ c.scan = "last" /\ c.recs = {}
      /\ c.todo = at[p].todo /\ c.clear = at[p].clear
  BY <1>0, <1>1, BeginIs DEF Scans
<1>3. Set(p, Listed(IF at[p].pass < Passes THEN s ELSE c))
  BY DEF NextPass
<1> HIDE DEF b, c
<1>4. at[p].pass < Passes => s \in Doing
  BY <1>1, <1>2 DEF Doing, Passes
<1>5. /\ s.scan = "status" /\ s.recs = {} /\ s.todo = at[p].todo
      /\ s.clear = at[p].clear
  BY <1>2 DEF Doing
<1> DEFINE d == IF at[p].pass < Passes THEN s ELSE c
<1>6. /\ d \in Doing /\ d.scan \in {"status", "last"} /\ d.recs = {}
      /\ d.todo = at[p].todo /\ d.clear = at[p].clear
  BY <1>2, <1>4, <1>5
<1> HIDE DEF d
<1>7. Local(p) /\ at'[p] = Listed(d)
  BY <1>3, <1>6, ListedIs, SetIs DEF d
<1>8. (Seeks(p, "status") \/ Seeks(p, "last")) /\ at'[p].todo = at[p].todo
  BY <1>6, <1>7, ListedIs DEF Seeks
<1> QED
  BY <1>7, <1>8 DEF NextPass, On, Here, home

(* StatusEnds ends.                                                        *)
LEMMA StatusEndsIs ==
    ASSUME TypeOK, NEW p \in Procs, StatusEnds(p)
    PROVE  /\ Local(p) /\ Ends(p)
           /\ UNCHANGED <<home, up, child, races, bounds>> /\ Free(p)
  BY DoneIs DEF StatusEnds, Here, home

(* Relocate moves one record to an unused name, or skips one that is gone. *)
LEMMA RelocateIs ==
    ASSUME TypeOK, NEW p \in Procs, Relocate(p)
    PROVE  /\ Local(p) /\ at[p].pc = "read" /\ KeepsAim(p)
           /\ at[p].scan = "clear"
           /\ at'[p].recs \subseteq at[p].recs
           /\ UNCHANGED <<auth, before, wrote, up, child, lock, bounds>>
           /\ races' \in {races, races \cup {"missed"}}
           /\ \/ at'[p].pc = "read" /\ UNCHANGED dir
              \/ /\ at'[p].pc = "inspect" /\ at'[p].name = Fresh
                 /\ Fresh \in Unused
                 /\ \E n \in Names :
                       /\ dir[n] # Absent
                       /\ dir' = [dir EXCEPT ![Fresh] = dir[n], ![n] = Absent]
                       /\ Unread(n) => "missed" \in races'
<1>1. at[p] \in Doing /\ dir \in [Names -> Record \cup {Absent}]
  BY DEF TypeOK
<1>2. PICK r \in Heads(at[p].recs) :
          \/ /\ dir[r[1]] = Absent
             /\ Set(p, [at[p] EXCEPT !.recs = @ \ {r}])
             /\ UNCHANGED <<dir, races>>
          \/ /\ dir[r[1]] # Absent /\ Unused # {}
             /\ dir' = [dir EXCEPT ![Fresh] = dir[r[1]], ![r[1]] = Absent]
             /\ Set(p, [at[p] EXCEPT !.pc = "inspect", !.name = Fresh,
                                     !.recs = @ \ {r}])
             /\ races' = IF Unread(r[1]) THEN races \cup {"missed"} ELSE races
  BY DEF Relocate
<1>3. r \in at[p].recs /\ r[1] \in Names
  BY <1>1, FirstOnes DEF Doing
<1>4. /\ UNCHANGED <<auth, before, wrote, up, child, lock, bounds>>
      /\ at[p].pc = "read" /\ at[p].scan = "clear"
  BY DEF Relocate, Scanned, On, Here
<1>5. CASE /\ Set(p, [at[p] EXCEPT !.recs = @ \ {r}])
           /\ UNCHANGED <<dir, races>>
  <2> DEFINE s == [at[p] EXCEPT !.recs = @ \ {r}]
  <2>1. s \in Doing
    BY <1>1 DEF Doing
  <2>2. Local(p) /\ at'[p] = s
    BY <1>5, <2>1, SetIs
  <2> QED
    BY <1>1, <1>4, <1>5, <2>2 DEF KeepsAim, Doing
<1>6. CASE /\ dir[r[1]] # Absent /\ Unused # {}
           /\ dir' = [dir EXCEPT ![Fresh] = dir[r[1]], ![r[1]] = Absent]
           /\ Set(p, [at[p] EXCEPT !.pc = "inspect", !.name = Fresh,
                                   !.recs = @ \ {r}])
           /\ races' = IF Unread(r[1]) THEN races \cup {"missed"} ELSE races
  <2> DEFINE recs == at[p].recs \ {r}
             s == [at[p] EXCEPT !.pc = "inspect", !.name = Fresh,
                                !.recs = recs]
  <2>1. Fresh \in Unused /\ Fresh \in Names
    BY <1>6 DEF Fresh, Unused, Names
  <2>2. recs \subseteq at[p].recs /\ recs \in SUBSET (Names \X Known)
    BY <1>1 DEF Doing
  <2>3. Set(p, s)
    BY <1>1, <1>6 DEF Doing
  <2> HIDE DEF recs
  <2>4. s \in Doing
    BY <1>1, <2>1, <2>2 DEF Doing, Steps
  <2>5. Local(p) /\ at'[p] = s
    BY <2>3, <2>4, SetIs
  <2> QED
    BY <1>1, <1>3, <1>4, <1>6, <2>1, <2>2, <2>5 DEF KeepsAim, Doing
<1> QED
  BY <1>2, <1>5, <1>6

(* Inspect goes on to unlink only the record that is meant.                *)
LEMMA InspectIs ==
    ASSUME TypeOK, Roles, NEW p \in Procs, Inspect(p)
    PROVE  /\ Local(p) /\ at[p].pc = "inspect"
           /\ UNCHANGED <<home, up, child, races, bounds>>
           /\ \/ Raises(p)
              \/ at'[p].pc = "read" /\ Keeps(p) /\ UNCHANGED lock
              \/ /\ at'[p].pc = "unlink" /\ Keeps(p) /\ UNCHANGED lock
                 /\ at'[p].name = at[p].name /\ dir[at[p].name] = at[p].lease
<1>1. at[p] \in Doing
  BY DEF TypeOK
<1>2. UNCHANGED <<home, up, child, races, bounds>> /\ at[p].pc = "inspect"
  BY DEF Inspect, Here, home, On
<1>3. CASE Raise(p)
  BY <1>2, <1>3, RaiseIs
<1>4. CASE /\ Set(p, [at[p] EXCEPT !.pc = "read", !.name = Fixed])
           /\ UNCHANGED lock
  <2> DEFINE s == [at[p] EXCEPT !.pc = "read", !.name = Fixed]
  <2>1. s \in Doing
    BY <1>1 DEF Doing, Steps, Names
  <2>2. Local(p) /\ at'[p] = s
    BY <1>4, <2>1, SetIs
  <2> QED
    BY <1>1, <1>2, <1>4, <2>2 DEF Keeps, KeepsAim, Doing
<1>5. CASE dir[at[p].name] = at[p].lease /\ Goto(p, "unlink") /\ UNCHANGED lock
  BY <1>2, <1>5, GotoIs DEF Steps
<1> QED
  BY <1>3, <1>4, <1>5 DEF Inspect

(* How what a clearing was for goes on.                                    *)
Resumes(p) ==
    \/ /\ at[p].clear = "status" /\ at'[p].pc = "judge" /\ at'[p].recs = {}
       /\ KeepsAim(p)
    \/ at[p].clear = "withdraw" /\ Turns(p, at[p].lease, "cleanup")
    \/ Ends(p)

(* Cleared goes on with what the clearing was for.                         *)
LEMMA ClearedIs ==
    ASSUME TypeOK, NEW p \in Procs, NEW ok \in BOOLEAN, Cleared(p, ok)
    PROVE  Local(p) /\ Resumes(p) /\ Lets(p)
<1>1. at[p] \in Doing
  BY DEF TypeOK
<1>2. CASE at[p].clear = "status" /\ ok
  <2> DEFINE s == [at[p] EXCEPT !.pc = "judge", !.recs = {}, !.name = Fixed]
  <2>1. s \in Doing
    BY <1>1 DEF Doing, Steps, Names
  <2>2. Set(p, s) /\ UNCHANGED lock
    BY <1>2 DEF Cleared, Lets
  <2>3. Local(p) /\ at'[p] = s
    BY <2>1, <2>2, SetIs
  <2> QED
    BY <1>1, <1>2, <2>2, <2>3 DEF Resumes, KeepsAim, Doing, Lets
<1>3. CASE at[p].clear = "withdraw"
  <2>1. at[p].lease \in Known \cup {Absent} /\ "cleanup" \in Clears
    BY <1>1 DEF Doing, Clears
  <2>2. /\ Set(p, Listed(BeginClear(at[p], at[p].lease, "cleanup")))
        /\ UNCHANGED lock
    BY <1>3 DEF Cleared, Lets
  <2> QED
    BY <1>3, <2>1, <2>2, ListedClearIs DEF Resumes, Lets
<1>4. CASE ~(at[p].clear = "status" /\ ok) /\ at[p].clear # "withdraw"
  <2>1. Done(p) /\ Free(p)
    BY <1>4 DEF Cleared, Lets
  <2> QED
    BY <2>1, DoneIs DEF Resumes, Lets
<1> QED
  BY <1>2, <1>3, <1>4

(* Unlink removes what has the name it has moved a record to.              *)
LEMMA UnlinkIs ==
    ASSUME TypeOK, NEW p \in Procs, Unlink(p)
    PROVE  /\ Local(p) /\ at[p].pc = "unlink"
           /\ UNCHANGED <<auth, before, wrote, up, child, races, bounds>>
           /\ \/ /\ at'[p].pc = "read" /\ Keeps(p)
                 /\ UNCHANGED <<dir, lock>>
              \/ /\ dir[at[p].name] # Absent
                 /\ dir' = [dir EXCEPT ![at[p].name] = Absent]
                 /\ Resumes(p) /\ Lets(p)
<1>1. at[p] \in Doing
  BY DEF TypeOK
<1>2. /\ UNCHANGED <<auth, before, wrote, up, child, races, bounds>>
      /\ at[p].pc = "unlink"
  BY DEF Unlink, Here, On
<1>3. CASE dir[at[p].name] = Absent
  <2> DEFINE s == [at[p] EXCEPT !.pc = "read", !.name = Fixed]
  <2>1. s \in Doing
    BY <1>1 DEF Doing, Steps, Names
  <2>2. Set(p, s) /\ UNCHANGED <<dir, lock>>
    BY <1>3 DEF Unlink
  <2>3. Local(p) /\ at'[p] = s
    BY <2>1, <2>2, SetIs
  <2> QED
    BY <1>1, <1>2, <2>2, <2>3 DEF Keeps, KeepsAim, Doing
<1>4. CASE dir[at[p].name] # Absent
  <2>1. /\ Cleared(p, TRUE)
        /\ dir' = [dir EXCEPT ![at[p].name] = Absent]
    BY <1>4 DEF Unlink
  <2> QED
    BY <1>2, <1>4, <2>1, ClearedIs
<1> QED
  BY <1>3, <1>4

(* ClearFails removes nothing.                                             *)
LEMMA ClearFailsIs ==
    ASSUME TypeOK, NEW p \in Procs, ClearFails(p)
    PROVE  /\ Local(p) /\ at[p].pc = "read" /\ at[p].scan = "clear"
           /\ UNCHANGED <<home, up, child, races, bounds>>
           /\ Resumes(p) /\ Lets(p)
<1>1. Cleared(p, FALSE)
  BY DEF ClearFails
<1> QED
  BY <1>1, ClearedIs DEF ClearFails, Scanned, On, Here, home

(* TakeLock: the lock is free before and taken after.                      *)
LEMMA TakeLockIs ==
    ASSUME TypeOK, NEW p \in Procs, NEW lease \in Known, TakeLock(p, lease)
    PROVE  /\ Local(p) /\ lock = None /\ lock' = p
           /\ Seeks(p, "match") /\ at'[p].lease = lease
           /\ at'[p].todo = {}
<1> DEFINE b == Begin(Idle, "match")
           s == [b EXCEPT !.lease = lease]
<1>1. /\ b \in Doing /\ b.pc = "list" /\ b.scan = "match" /\ b.recs = {}
      /\ b.todo = {} /\ b.clear = "status"
  BY IdleIs, BeginIs DEF Scans
<1>2. Set(p, s) /\ lock = None /\ lock' = p
  BY DEF TakeLock
<1> HIDE DEF b
<1>3. /\ s \in Doing /\ s.pc = "list" /\ s.scan = "match" /\ s.recs = {}
      /\ s.todo = {} /\ s.lease = lease /\ s.clear = "status"
  BY <1>1 DEF Doing
<1> HIDE DEF s
<1> QED
  BY <1>2, <1>3, SetIs DEF Seeks

(* Candidate takes the lock for the record it has found, or has it and     *)
(* goes on to clear the record; and says so when that is another than the  *)
(* status has judged.                                                      *)
LEMMA CandidateIs ==
    ASSUME TypeOK, NEW p \in Procs, Candidate(p)
    PROVE  /\ Local(p) /\ at[p].pc = "read" /\ at[p].scan = "candidate"
           /\ UNCHANGED <<home, up, child, bounds>>
           /\ \/ /\ Ends(p) /\ Free(p)
                 /\ races' \in {races, races \cup {"swapped"}}
              \/ /\ \/ /\ lock = None /\ lock' = p
                       /\ Seeks(p, "match") /\ at'[p].todo = {}
                    \/ /\ lock = p /\ UNCHANGED lock
                       /\ Turns(p, at'[p].lease, "finish")
                 /\ \E r \in at[p].recs : at'[p].lease = r[2]
                 /\ IF at'[p].lease = at[p].lease
                      THEN UNCHANGED races
                      ELSE races' = races \cup {"swapped"}
<1>1. at[p] \in Doing
  BY DEF TypeOK
<1>2. /\ UNCHANGED <<home, up, child, bounds>>
      /\ at[p].pc = "read" /\ at[p].scan = "candidate"
  BY DEF Candidate, Scanned, On, Here, home
<1>3. CASE /\ Done(p) /\ Free(p)
           /\ races' \in {races, races \cup {"swapped"}}
  BY <1>2, <1>3, DoneIs
<1>4. ASSUME NEW r \in Found(p), TakeLock(p, r) \/ Discard(p, r),
             ~(Done(p) /\ Free(p)),
             races' = IF r = at[p].lease THEN races ELSE races \cup {"swapped"}
      PROVE  /\ Local(p)
             /\ \/ /\ lock = None /\ lock' = p
                   /\ Seeks(p, "match") /\ at'[p].todo = {}
                \/ /\ lock = p /\ UNCHANGED lock
                   /\ Turns(p, at'[p].lease, "finish")
             /\ \E q \in at[p].recs : at'[p].lease = q[2]
             /\ IF at'[p].lease = at[p].lease
                  THEN UNCHANGED races
                  ELSE races' = races \cup {"swapped"}
  <2>1. PICK q \in at[p].recs : r = q[2]
    BY DEF Found
  <2>2. r \in Known
    BY <1>1, <2>1 DEF Doing
  <2>3. CASE TakeLock(p, r)
    BY <1>4, <2>1, <2>2, <2>3, TakeLockIs
  <2>4. CASE /\ lock = p /\ UNCHANGED lock
             /\ Set(p, Listed(BeginClear(at[p], r, "finish")))
    <3>1. Local(p) /\ Turns(p, r, "finish")
      BY <2>2, <2>4, ListedClearIs DEF Clears
    <3>2. at'[p].lease = r
      BY <3>1 DEF Turns
    <3> QED
      BY <1>4, <2>1, <2>4, <3>1, <3>2
  <2> QED
    BY <1>4, <2>3, <2>4 DEF Discard
<1> QED
  BY <1>2, <1>3, <1>4 DEF Candidate

(* Matched goes on to clear the lease it is about, or gives up.            *)
LEMMA MatchedIs ==
    ASSUME TypeOK, NEW p \in Procs, Matched(p)
    PROVE  /\ Local(p) /\ at[p].pc = "read" /\ at[p].scan = "match"
           /\ UNCHANGED <<home, up, child, races, bounds>>
           /\ \/ Turns(p, at[p].lease, "finish") /\ UNCHANGED lock
              \/ Ends(p) /\ Free(p)
<1>1. at[p] \in Doing
  BY DEF TypeOK
<1>2. /\ UNCHANGED <<home, up, child, races, bounds>>
      /\ at[p].pc = "read" /\ at[p].scan = "match"
  BY DEF Matched, Scanned, On, Here, home
<1>3. CASE Done(p) /\ Free(p)
  BY <1>2, <1>3, DoneIs
<1>4. CASE /\ Set(p, Listed(BeginClear(at[p], at[p].lease, "finish")))
           /\ UNCHANGED lock
  <2>1. at[p].lease \in Known \cup {Absent} /\ "finish" \in Clears
    BY <1>1 DEF Doing, Clears
  <2> QED
    BY <1>2, <1>4, <2>1, ListedClearIs
<1> QED
  BY <1>3, <1>4 DEF Matched

(* Create makes an empty record under a name that has none, or tries       *)
(* again.                                                                  *)
LEMMA CreateIs ==
    ASSUME TypeOK, NEW p \in Claimants, Create(p)
    PROVE  /\ Local(p)
           /\ at[p].pc = "read" /\ at[p].scan \in {"status", "last"}
           /\ UNCHANGED <<auth, before, wrote, up, child, lock, races, bounds>>
           /\ \/ /\ at'[p].pc = "write" /\ Keeps(p)
                 /\ dir[Fixed] = Absent
                 /\ dir' = [dir EXCEPT ![Fixed] = Of(p, "empty")]
              \/ UNCHANGED dir /\ Ends(p)
              \/ UNCHANGED dir /\ Seeks(p, "status") /\ at'[p].todo = {}
<1>1. p \in Procs /\ at[p] \in Doing
  BY DEF TypeOK, Procs
<1>2. /\ UNCHANGED <<auth, before, wrote, up, child, lock, races, bounds>>
      /\ at[p].pc = "read" /\ at[p].scan \in {"status", "last"}
  BY DEF Create, NothingFound, Scanned, On, Here
<1>3. CASE dir[Fixed] = Absent
  <2>1. Goto(p, "write") /\ dir' = [dir EXCEPT ![Fixed] = Of(p, "empty")]
    BY <1>3 DEF Create
  <2> QED
    BY <1>1, <1>2, <1>3, <2>1, GotoIs DEF Steps
<1>4. CASE UNCHANGED dir /\ Done(p)
  BY <1>1, <1>2, <1>4, DoneIs
<1>5. CASE /\ UNCHANGED dir /\ at[p].try # Tries
           /\ Set(p, [Begin(Idle, "status") EXCEPT !.try = at[p].try + 1])
  <2> DEFINE b == Begin(Idle, "status")
             s == [b EXCEPT !.try = at[p].try + 1]
  <2>1. /\ b \in Doing /\ b.pc = "list" /\ b.scan = "status"
        /\ b.recs = {} /\ b.todo = {} /\ b.clear = "status"
    BY IdleIs, BeginIs DEF Scans
  <2>2. Set(p, s)
    BY <1>5
  <2> HIDE DEF b
  <2>3. at[p].try + 1 \in 1..Tries
    BY <1>1, <1>5 DEF Doing, Tries
  <2>4. /\ s \in Doing /\ s.pc = "list" /\ s.scan = "status" /\ s.recs = {}
        /\ s.todo = {} /\ s.clear = "status"
    BY <2>1, <2>3 DEF Doing
  <2> HIDE DEF s
  <2> QED
    BY <1>1, <1>2, <1>5, <2>2, <2>4, SetIs DEF Seeks
<1> QED
  BY <1>3, <1>4, <1>5 DEF Create

(* Write fills the empty record of the claim, wherever it is.              *)
LEMMA WriteIs ==
    ASSUME TypeOK, NEW p \in Claimants, Write(p)
    PROVE  /\ Local(p) /\ Keeps(p)
           /\ at[p].pc = "write" /\ at'[p].pc = "protect"
           /\ dir' = [n \in Names |-> IF dir[n] = Of(p, "empty")
                                        THEN Of(p, "reserved") ELSE dir[n]]
           /\ UNCHANGED <<auth, before, wrote, up, child, lock, races, bounds>>
<1>1. p \in Procs
  BY DEF Procs
<1> QED
  BY <1>1, GotoIs DEF Write, On, Here, Steps

(* The two records of a claimant are records a process can go by.          *)
LEMMA Reservation ==
    ASSUME NEW p \in Claimants
    PROVE  /\ p \in Procs
           /\ Of(p, "reserved") \in Known /\ Of(p, "running") \in Known
  BY DEF Procs, Of, Known, Leases

(* Protect looks for others, or cleans up when the record is gone.         *)
LEMMA ProtectIs ==
    ASSUME TypeOK, NEW p \in Claimants, Protect(p)
    PROVE  /\ Local(p) /\ at[p].pc = "protect"
           /\ UNCHANGED <<home, up, child, lock, races, bounds>>
           /\ \/ Turns(p, Of(p, "reserved"), "cleanup")
              \/ /\ Seeks(p, "rescan") /\ at'[p].pc = "list"
                 /\ at'[p].todo = at[p].todo
<1>1. p \in Procs /\ at[p] \in Doing
  BY Reservation DEF TypeOK
<1>2. /\ UNCHANGED <<home, up, child, lock, races, bounds>>
      /\ at[p].pc = "protect"
  BY DEF Protect, On, Here, home
<1>3. CASE Clear(p, Of(p, "reserved"), "cleanup")
  <2>1. Of(p, "reserved") \in Known \cup {Absent} /\ "cleanup" \in Clears
    BY Reservation DEF Clears
  <2> QED
    BY <1>1, <1>2, <1>3, <2>1, ClearIs
<1>4. CASE Scan(p, "rescan")
  <2>1. "rescan" \in Scans
    BY DEF Scans
  <2> QED
    BY <1>1, <1>2, <1>4, <2>1, BeginIs, SetIs DEF Scan, Seeks
<1> QED
  BY <1>3, <1>4 DEF Protect

(* Withdraw clears the reservation.                                        *)
LEMMA WithdrawIs ==
    ASSUME TypeOK, NEW p \in Claimants, Withdraw(p)
    PROVE  /\ Local(p) /\ at[p].pc = "read" /\ at[p].scan = "rescan"
           /\ Turns(p, Of(p, "reserved"), "withdraw")
           /\ UNCHANGED <<home, up, child, lock, races, bounds>>
<1>1. Set(p, Listed(BeginClear(at[p], Of(p, "reserved"), "withdraw")))
  BY DEF Withdraw
<1>2. /\ Of(p, "reserved") \in Known \cup {Absent}
      /\ "withdraw" \in Clears /\ p \in Procs
  BY Reservation DEF Clears
<1>3. Local(p) /\ Turns(p, Of(p, "reserved"), "withdraw")
  BY <1>1, <1>2, ListedClearIs
<1> QED
  BY <1>3 DEF Withdraw, Scanned, On, Here, home

(* Spawn begins the sign-in of a claim that has seen no other, or gives    *)
(* the claim up.                                                           *)
LEMMA SpawnIs ==
    ASSUME TypeOK, NEW p \in Claimants, Spawn(p)
    PROVE  /\ Local(p) /\ at[p].pc = "read" /\ at[p].scan = "rescan"
           /\ at[p].names = {} /\ \A r \in at[p].recs : r[2].id = p
           /\ \/ /\ child' = [child EXCEPT ![p] = "alive"]
                 /\ Seeks(p, "attach") /\ at'[p].todo = {}
              \/ /\ Turns(p, Of(p, "reserved"), "cleanup") \/ Ends(p)
                 /\ UNCHANGED child
           /\ UNCHANGED <<home, up, lock, races, bounds>>
<1> DEFINE b == Begin(Idle, "attach")
<1>1. /\ b \in Doing /\ b.scan = "attach" /\ b.recs = {} /\ b.todo = {}
      /\ b.clear = "status"
  BY IdleIs, BeginIs DEF Scans
<1>2. p \in Procs /\ Of(p, "reserved") \in Known /\ "cleanup" \in Clears
  BY Reservation DEF Clears
<1> HIDE DEF b
<1>3. Set(p, Listed(b)) =>
          Local(p) /\ Seeks(p, "attach") /\ at'[p].todo = {}
  BY <1>1, <1>2, ListedIs, SetIs DEF Seeks
<1>4. \A r \in at[p].recs : r[2].id = p
  BY DEF Spawn, Exclusive, Found, Of
<1>5. Clear(p, Of(p, "reserved"), "cleanup") =>
          Local(p) /\ Turns(p, Of(p, "reserved"), "cleanup")
  BY <1>2, ClearIs
<1>6. Done(p) => Local(p) /\ Ends(p)
  BY <1>2, DoneIs
<1> QED
  BY <1>3, <1>4, <1>5, <1>6 DEF Spawn, Scanned, On, b

(* Attach writes the record under the fixed name, over what is there.      *)
LEMMA AttachIs ==
    ASSUME TypeOK, NEW p \in Claimants, Attach(p)
    PROVE  /\ Local(p) /\ at[p].pc = "read" /\ at[p].scan = "attach"
           /\ UNCHANGED <<auth, before, wrote, up, child, lock, bounds>>
           /\ \/ /\ dir' = [dir EXCEPT ![Fixed] = Of(p, "running")]
                 /\ races' = IF dir[Fixed].id \in {p, None} THEN races
                             ELSE races \cup {"replaced"}
                 /\ Seeks(p, "attached") /\ at'[p].todo = at[p].todo
              \/ at'[p].pc = "failed" /\ Keeps(p) /\ UNCHANGED <<dir, races>>
<1>1. p \in Procs /\ at[p] \in Doing
  BY Reservation DEF TypeOK
<1>2. /\ UNCHANGED <<auth, before, wrote, up, child, lock, bounds>>
      /\ at[p].pc = "read" /\ at[p].scan = "attach"
  BY DEF Attach, Scanned, On, Here
<1>3. CASE Alone(p, Of(p, "reserved"))
  <2>1. "attached" \in Scans
    BY DEF Scans
  <2>2. /\ dir' = [dir EXCEPT ![Fixed] = Of(p, "running")]
        /\ races' = IF dir[Fixed].id \in {p, None} THEN races
                    ELSE races \cup {"replaced"}
        /\ Scan(p, "attached")
    BY <1>3 DEF Attach
  <2> QED
    BY <1>1, <1>2, <2>1, <2>2, BeginIs, SetIs DEF Scan, Seeks
<1>4. CASE ~Alone(p, Of(p, "reserved"))
  <2>1. Goto(p, "failed") /\ UNCHANGED <<dir, races>>
    BY <1>4 DEF Attach
  <2> QED
    BY <1>1, <1>2, <2>1, GotoIs DEF Steps
<1> QED
  BY <1>3, <1>4

(* Attached waits for the child, or fails.                                 *)
LEMMA AttachedIs ==
    ASSUME TypeOK, NEW p \in Claimants, Attached(p)
    PROVE  /\ Local(p) /\ at[p].pc = "read" /\ at[p].scan = "attached"
           /\ UNCHANGED <<home, up, child, lock, races, bounds>>
           /\ \/ at'[p].pc = "failed" /\ Keeps(p)
              \/ /\ at'[p].pc = "waiting" /\ at'[p].scan = "status"
                 /\ at'[p].recs = {} /\ at'[p].todo = {}
<1>1. p \in Procs /\ at[p] \in Doing
  BY Reservation DEF TypeOK
<1>2. /\ UNCHANGED <<home, up, child, lock, races, bounds>>
      /\ at[p].pc = "read" /\ at[p].scan = "attached"
  BY DEF Attached, Scanned, On, Here, home
<1>3. CASE Goto(p, "failed")
  BY <1>1, <1>2, <1>3, GotoIs DEF Steps
<1>4. CASE Set(p, [Idle EXCEPT !.pc = "waiting"])
  <2> DEFINE s == [Idle EXCEPT !.pc = "waiting"]
  <2>1. /\ s \in Doing /\ s.pc = "waiting" /\ s.scan = "status"
        /\ s.recs = {} /\ s.todo = {}
    BY IdleIs DEF Doing, Steps
  <2> HIDE DEF s
  <2>2. Set(p, s)
    BY <1>4 DEF s
  <2> QED
    BY <1>1, <1>2, <2>1, <2>2, SetIs
<1> QED
  BY <1>3, <1>4 DEF Attached

(* Closed clears the reservation of a sign-in that has changed nothing, or *)
(* takes the lock for its finalization.                                    *)
LEMMA ClosedIs ==
    ASSUME TypeOK, NEW p \in Claimants, Closed(p)
    PROVE  /\ Local(p)
           /\ at[p].pc \in {"waiting", "failed"} /\ child[p] = "dead"
           /\ UNCHANGED <<home, up, child, races, bounds>>
           /\ \/ /\ auth = before[p] /\ UNCHANGED lock
                 /\ Turns(p, Of(p, "reserved"), "finish")
              \/ /\ lock = None /\ lock' = p
                 /\ Seeks(p, "match") /\ at'[p].todo = {}
                 /\ at'[p].lease \in {Of(p, "reserved"), Of(p, "running")}
<1>1. p \in Procs /\ at[p] \in Doing
  BY Reservation DEF TypeOK
<1>2. /\ UNCHANGED <<home, up, child, races, bounds>>
      /\ at[p].pc \in {"waiting", "failed"} /\ child[p] = "dead"
  BY DEF Closed, Here, home
<1>3. CASE at[p].pc = "failed" /\ auth = before[p]
  <2>1. Clear(p, Of(p, "reserved"), "finish") /\ UNCHANGED lock
    BY <1>3 DEF Closed
  <2>2. Of(p, "reserved") \in Known \cup {Absent} /\ "finish" \in Clears
    BY Reservation DEF Clears
  <2> QED
    BY <1>1, <1>2, <1>3, <2>1, <2>2, ClearIs
<1>4. CASE ~(at[p].pc = "failed" /\ auth = before[p])
  <2> DEFINE lease == Of(p, IF at[p].pc = "failed" THEN "reserved"
                                                        ELSE "running")
  <2>1. TakeLock(p, lease)
    BY <1>4 DEF Closed
  <2>2. lease \in {Of(p, "reserved"), Of(p, "running")} /\ lease \in Known
    BY Reservation
  <2> HIDE DEF lease
  <2> QED
    BY <1>1, <1>2, <2>1, <2>2, TakeLockIs
<1> QED
  BY <1>3, <1>4

(* A process that dies lets go of the lock.                                *)
LEMMA CrashIs ==
    ASSUME TypeOK, NEW p \in Procs, Crash(p)
    PROVE  /\ Local(p) /\ Ends(p) /\ Free(p)
           /\ up' \subseteq up
           /\ bounds.crashes > 0
           /\ bounds' = [bounds EXCEPT !.crashes = @ - 1]
           /\ UNCHANGED <<home, child, races>>
  BY DoneIs DEF Crash

(***************************************************************************)
(* Records in the home                                                     *)
(***************************************************************************)

(* The directory is written by five of the steps.                          *)
LEMMA DirSteps ==
    ASSUME TypeOK, Roles, [Next]_vars
    PROVE  \/ UNCHANGED dir
           \/ \E p \in Procs : Relocate(p) \/ Unlink(p)
           \/ \E p \in Claimants : Create(p) \/ Write(p) \/ Attach(p)
<1> SUFFICES ASSUME Next, \A p \in Procs : ~Relocate(p) /\ ~Unlink(p),
                    \A p \in Claimants : ~Create(p) /\ ~Write(p) /\ ~Attach(p)
             PROVE  UNCHANGED dir
  BY DEF vars, home
<1>1. ASSUME NEW p \in Procs,
             Start(p) \/ ScanStep(p) \/ StatusStep(p) \/ FinalStep(p)
      PROVE  UNCHANGED dir
  BY <1>1 DEF Start, ScanStep, List, Read, StatusStep, StatusPass, Judge,
     NextPass, StatusEnds, FinalStep, Candidate, Matched
<1>2. ASSUME NEW p \in Procs, ClearStep(p) PROVE UNCHANGED dir
  BY <1>2 DEF ClearStep, Inspect, ClearFails
<1>3. ASSUME NEW p \in Claimants, ClaimStep(p) PROVE UNCHANGED dir
  BY <1>3 DEF ClaimStep, Protect, Withdraw, Spawn, Attached, Closed, home
<1>4. ASSUME NEW p \in Procs, Crash(p) PROVE UNCHANGED dir
  BY <1>4 DEF Crash, home
<1>5. ASSUME NEW c \in Claimants, ChildWrites(c) \/ ChildExits(c)
      PROVE  UNCHANGED dir
  BY <1>5 DEF ChildWrites, ChildExits, home
<1> QED
  BY <1>1, <1>2, <1>3, <1>4, <1>5 DEF Next, Step

(* What can become of a record: it stays under its name, is moved to an    *)
(* unused one - a race, when a re-scan has listed it and not read it -, is *)
(* unlinked by who means it, or a race replaces it.                        *)
LEMMA RecordGoes ==
    ASSUME TypeOK, Roles, Private, [Next]_vars,
           NEW i \in Claimants, NEW n \in Names, dir[n].id = i
    PROVE  \/ dir'[n].id = i
           \/ \E m \in Names : /\ dir[m] = Absent /\ dir'[m] = dir[n]
                               /\ dir'[n] = Absent
                               /\ Unread(n) => "missed" \in races'
           \/ \E p \in Procs : Unlink(p) /\ at[p].lease.id = i
           \/ "replaced" \in races'
<1>1. dir \in [Names -> Record \cup {Absent}] /\ dir[n] # Absent
  BY LeaseAssumption DEF TypeOK, Absent
<1>2. ASSUME NEW p \in Procs, Relocate(p)
      PROVE  \/ dir'[n].id = i
             \/ \E m \in Names : /\ dir[m] = Absent /\ dir'[m] = dir[n]
                                 /\ dir'[n] = Absent
                                 /\ Unread(n) => "missed" \in races'
  <2>1. Fresh \in Unused => Fresh \in Names /\ dir[Fresh] = Absent /\ Fresh # n
    BY <1>1 DEF Unused, Names
  <2> QED
    BY <1>1, <1>2, <2>1, RelocateIs
<1>3. ASSUME NEW p \in Procs, Unlink(p)
      PROVE  dir'[n].id = i \/ at[p].lease.id = i
  <2>1. CASE at[p].name = n /\ dir' = [dir EXCEPT ![at[p].name] = Absent]
    BY <1>1, <1>3, <2>1, UnlinkIs DEF Private
  <2>2. CASE at[p].name # n /\ dir' = [dir EXCEPT ![at[p].name] = Absent]
    BY <1>1, <2>2
  <2> QED
    BY <1>3, <2>1, <2>2, UnlinkIs
<1>4. ASSUME NEW p \in Claimants, Create(p) PROVE dir'[n].id = i
  BY <1>1, <1>4, CreateIs
<1>5. ASSUME NEW p \in Claimants, Write(p) PROVE dir'[n].id = i
  BY <1>1, <1>5, WriteIs DEF Of
<1>6. ASSUME NEW p \in Claimants, Attach(p)
      PROVE  dir'[n].id = i \/ "replaced" \in races'
  <2>1. CASE dir' = [dir EXCEPT ![Fixed] = Of(p, "running")]
    <3>1. n # Fixed => dir'[n].id = i
      BY <1>1, <2>1
    <3>2. n = Fixed /\ p = i => dir'[n].id = i
      BY <1>1, <2>1 DEF Of
    <3>3. n = Fixed /\ p # i /\ dir' # dir => "replaced" \in races'
      BY <1>6, AttachIs, LeaseAssumption
    <3>4. dir' = dir => dir'[n].id = i
      OBVIOUS
    <3> QED
      BY <3>1, <3>2, <3>3, <3>4
  <2> QED
    BY <1>6, <2>1, AttachIs
<1> QED
  BY <1>2, <1>3, <1>4, <1>5, <1>6, DirSteps

(* Types, but for what the processes are doing.                            *)
RestOK ==
    /\ dir \in [Names -> Record \cup {Absent}]
    /\ auth \in Nat /\ before \in [Leases -> Nat]
    /\ wrote \subseteq Leases /\ up \subseteq Procs
    /\ child \in [Claimants -> {"none", "alive", "dead"}]
    /\ lock \in Procs \cup {None} /\ races \subseteq Races
    /\ bounds \in Setting
Typed == at \in [Procs -> Doing] /\ RestOK

(* Every step keeps the types.                                             *)
LEMMA TypedStep ==
    ASSUME TypeOK, Roles, Typed, [Next]_vars
    PROVE  Typed'
<1> USE DEF Typed, RestOK, Local, home, Free, Lets, Raises
<1>1. ASSUME NEW p \in Procs, Start(p) PROVE Typed'
  BY <1>1, StartIs
<1>2. ASSUME NEW p \in Procs, List(p) PROVE Typed'
  BY <1>2, ListIs
<1>3. ASSUME NEW p \in Procs, Read(p) PROVE Typed'
  BY <1>3, ReadIs
<1>4. ASSUME NEW p \in Procs, StatusPass(p) PROVE Typed'
  BY <1>4, StatusPassIs
<1>5. ASSUME NEW p \in Procs, Judge(p) PROVE Typed'
  BY <1>5, JudgeIs
<1>6. ASSUME NEW p \in Procs, NextPass(p) PROVE Typed'
  BY <1>6, NextPassIs
<1>7. ASSUME NEW p \in Procs, StatusEnds(p) PROVE Typed'
  BY <1>7, StatusEndsIs
<1>8. ASSUME NEW p \in Procs, Relocate(p) PROVE Typed'
  <2>0. races' \in {races, races \cup {"missed"}} /\ "missed" \in Races
    BY <1>8, RelocateIs DEF Races
  <2>1. races' \subseteq Races
    BY <2>0
  <2>2. at' \in [Procs -> Doing]
    BY <1>8, RelocateIs
  <2>3. dir' \in [Names -> Record \cup {Absent}]
    BY <1>8, RelocateIs
  <2> QED
    BY <1>8, <2>1, <2>2, <2>3, RelocateIs
<1>9. ASSUME NEW p \in Procs, Inspect(p) PROVE Typed'
  BY <1>9, InspectIs
<1>10. ASSUME NEW p \in Procs, Unlink(p) PROVE Typed'
  BY <1>10, UnlinkIs
<1>11. ASSUME NEW p \in Procs, ClearFails(p) PROVE Typed'
  BY <1>11, ClearFailsIs
<1>12. ASSUME NEW p \in Procs, Candidate(p) PROVE Typed'
  BY <1>12, CandidateIs DEF Races
<1>13. ASSUME NEW p \in Procs, Matched(p) PROVE Typed'
  BY <1>13, MatchedIs
<1>14. ASSUME NEW p \in Procs, Crash(p) PROVE Typed'
  BY <1>14, CrashIs DEF Setting
<1>15. ASSUME NEW p \in Claimants, Create(p) PROVE Typed'
  BY <1>15, CreateIs, Reservation DEF Of, Record, Leases
<1>16. ASSUME NEW p \in Claimants, Write(p) PROVE Typed'
  BY <1>16, WriteIs, Reservation DEF Of, Record, Leases
<1>17. ASSUME NEW p \in Claimants, Protect(p) PROVE Typed'
  BY <1>17, ProtectIs, Reservation
<1>18. ASSUME NEW p \in Claimants, Withdraw(p) PROVE Typed'
  BY <1>18, WithdrawIs, Reservation
<1>19. ASSUME NEW p \in Claimants, Spawn(p) PROVE Typed'
  BY <1>19, SpawnIs, Reservation
<1>20. ASSUME NEW p \in Claimants, Attach(p) PROVE Typed'
  <2>1. /\ Local(p)
        /\ UNCHANGED <<auth, before, wrote, up, child, lock, bounds>>
        /\ races' \subseteq races \cup {"replaced"}
        /\ \/ dir' = [dir EXCEPT ![Fixed] = Of(p, "running")]
           \/ UNCHANGED dir
    BY <1>20, AttachIs
  <2> QED
    BY <2>1, Reservation DEF Races, Of, Record, Leases
<1>21. ASSUME NEW p \in Claimants, Attached(p) PROVE Typed'
  BY <1>21, AttachedIs, Reservation
<1>22. ASSUME NEW p \in Claimants, Closed(p) PROVE Typed'
  BY <1>22, ClosedIs, Reservation
<1>23. ASSUME NEW c \in Claimants, ChildWrites(c) PROVE Typed'
  BY <1>23 DEF Setting, Leases, ChildWrites
<1>24. ASSUME NEW c \in Claimants, ChildExits(c) PROVE Typed'
  BY <1>24 DEF ChildExits, home
<1>25. CASE UNCHANGED vars
  BY <1>25 DEF vars, procs, home
<1> QED
  BY <1>1, <1>2, <1>3, <1>4, <1>5, <1>6, <1>7, <1>8, <1>9, <1>10,
     <1>11, <1>12, <1>13, <1>14, <1>15, <1>16, <1>17, <1>18, <1>19,
     <1>20, <1>21, <1>22, <1>23, <1>24, <1>25
     DEF Next, Step, ScanStep, StatusStep, ClearStep, FinalStep,
         ClaimStep, Procs

(* Every step keeps to the roles.                                          *)
LEMMA RolesStep ==
    ASSUME TypeOK, Roles, [Next]_vars
    PROVE  Roles'
<1> USE DEF Roles, Local, KeepsAim, Keeps, Seeks, Ends, Turns, Raises,
            Resumes, Procs
<1>0. Claimants \cap Pollers = {}
  BY LeaseAssumption
<1> USE <1>0
<1>1. ASSUME NEW p \in Procs, Start(p) PROVE Roles'
  BY <1>1, StartIs
<1>2. ASSUME NEW p \in Procs, List(p) PROVE Roles'
  BY <1>2, ListIs
<1>3. ASSUME NEW p \in Procs, Read(p) PROVE Roles'
  BY <1>3, ReadIs
<1>4. ASSUME NEW p \in Procs, StatusPass(p) PROVE Roles'
  BY <1>4, StatusPassIs
<1>5. ASSUME NEW p \in Procs, Judge(p) PROVE Roles'
  BY <1>5, JudgeIs
<1>6. ASSUME NEW p \in Procs, NextPass(p) PROVE Roles'
  BY <1>6, NextPassIs
<1>7. ASSUME NEW p \in Procs, StatusEnds(p) PROVE Roles'
  BY <1>7, StatusEndsIs
<1>8. ASSUME NEW p \in Procs, Relocate(p) PROVE Roles'
  BY <1>8, RelocateIs
<1>9. ASSUME NEW p \in Procs, Inspect(p) PROVE Roles'
  BY <1>9, InspectIs
<1>10. ASSUME NEW p \in Procs, Unlink(p) PROVE Roles'
  BY <1>10, UnlinkIs
<1>11. ASSUME NEW p \in Procs, ClearFails(p) PROVE Roles'
  BY <1>11, ClearFailsIs
<1>12. ASSUME NEW p \in Procs, Candidate(p) PROVE Roles'
  BY <1>12, CandidateIs
<1>13. ASSUME NEW p \in Procs, Matched(p) PROVE Roles'
  BY <1>13, MatchedIs
<1>14. ASSUME NEW p \in Procs, Crash(p) PROVE Roles'
  BY <1>14, CrashIs
<1>15. ASSUME NEW p \in Claimants, Create(p) PROVE Roles'
  BY <1>15, CreateIs, Reservation
<1>16. ASSUME NEW p \in Claimants, Write(p) PROVE Roles'
  BY <1>16, WriteIs, Reservation
<1>17. ASSUME NEW p \in Claimants, Protect(p) PROVE Roles'
  BY <1>17, ProtectIs, Reservation
<1>18. ASSUME NEW p \in Claimants, Withdraw(p) PROVE Roles'
  BY <1>18, WithdrawIs, Reservation
<1>19. ASSUME NEW p \in Claimants, Spawn(p) PROVE Roles'
  BY <1>19, SpawnIs, Reservation
<1>20. ASSUME NEW p \in Claimants, Attach(p) PROVE Roles'
  BY <1>20, AttachIs, Reservation
<1>21. ASSUME NEW p \in Claimants, Attached(p) PROVE Roles'
  BY <1>21, AttachedIs, Reservation
<1>22. ASSUME NEW p \in Claimants, Closed(p) PROVE Roles'
  BY <1>22, ClosedIs, Reservation
<1>23. ASSUME NEW c \in Claimants, ChildWrites(c) PROVE Roles'
  BY <1>23 DEF ChildWrites
<1>24. ASSUME NEW c \in Claimants, ChildExits(c) PROVE Roles'
  BY <1>24 DEF ChildExits, home
<1>25. CASE UNCHANGED vars
  BY <1>25 DEF vars, procs, home
<1> QED
  BY <1>1, <1>2, <1>3, <1>4, <1>5, <1>6, <1>7, <1>8, <1>9, <1>10,
     <1>11, <1>12, <1>13, <1>14, <1>15, <1>16, <1>17, <1>18, <1>19,
     <1>20, <1>21, <1>22, <1>23, <1>24, <1>25
     DEF Next, Step, ScanStep, StatusStep, ClearStep, FinalStep,
         ClaimStep, Procs

(* auth.json only grows, and is written by sign-ins that have begun.       *)
LEMMA WrittenStep ==
    ASSUME TypeOK, Roles, Typed, Lives, Written, [Next]_vars
    PROVE  Written'
<1> USE DEF Written, Typed, RestOK, Lives, Unborn, Local, home
<1>1. ASSUME NEW p \in Procs, Start(p) PROVE Written'
  BY <1>1, StartIs
<1>2. ASSUME NEW p \in Procs, List(p) PROVE Written'
  BY <1>2, ListIs
<1>3. ASSUME NEW p \in Procs, Read(p) PROVE Written'
  BY <1>3, ReadIs
<1>4. ASSUME NEW p \in Procs, StatusPass(p) PROVE Written'
  BY <1>4, StatusPassIs
<1>5. ASSUME NEW p \in Procs, Judge(p) PROVE Written'
  BY <1>5, JudgeIs
<1>6. ASSUME NEW p \in Procs, NextPass(p) PROVE Written'
  BY <1>6, NextPassIs
<1>7. ASSUME NEW p \in Procs, StatusEnds(p) PROVE Written'
  BY <1>7, StatusEndsIs
<1>8. ASSUME NEW p \in Procs, Relocate(p) PROVE Written'
  BY <1>8, RelocateIs
<1>9. ASSUME NEW p \in Procs, Inspect(p) PROVE Written'
  BY <1>9, InspectIs
<1>10. ASSUME NEW p \in Procs, Unlink(p) PROVE Written'
  BY <1>10, UnlinkIs
<1>11. ASSUME NEW p \in Procs, ClearFails(p) PROVE Written'
  BY <1>11, ClearFailsIs
<1>12. ASSUME NEW p \in Procs, Candidate(p) PROVE Written'
  BY <1>12, CandidateIs
<1>13. ASSUME NEW p \in Procs, Matched(p) PROVE Written'
  BY <1>13, MatchedIs
<1>14. ASSUME NEW p \in Procs, Crash(p) PROVE Written'
  BY <1>14, CrashIs
<1>15. ASSUME NEW p \in Claimants, Create(p) PROVE Written'
  BY <1>15, CreateIs, Reservation
<1>16. ASSUME NEW p \in Claimants, Write(p) PROVE Written'
  BY <1>16, WriteIs, Reservation
<1>17. ASSUME NEW p \in Claimants, Protect(p) PROVE Written'
  BY <1>17, ProtectIs, Reservation
<1>18. ASSUME NEW p \in Claimants, Withdraw(p) PROVE Written'
  BY <1>18, WithdrawIs, Reservation
<1>19. ASSUME NEW p \in Claimants, Spawn(p) PROVE Written'
  BY <1>19, SpawnIs, Reservation
<1>20. ASSUME NEW p \in Claimants, Attach(p) PROVE Written'
  BY <1>20, AttachIs, Reservation
<1>21. ASSUME NEW p \in Claimants, Attached(p) PROVE Written'
  BY <1>21, AttachedIs, Reservation
<1>22. ASSUME NEW p \in Claimants, Closed(p) PROVE Written'
  BY <1>22, ClosedIs, Reservation
<1>23. ASSUME NEW c \in Claimants, ChildWrites(c) PROVE Written'
  BY <1>23 DEF Leases, ChildWrites
<1>24. ASSUME NEW c \in Claimants, ChildExits(c) PROVE Written'
  BY <1>24 DEF ChildExits, home
<1>25. CASE UNCHANGED vars
  BY <1>25 DEF vars, procs, home
<1> QED
  BY <1>1, <1>2, <1>3, <1>4, <1>5, <1>6, <1>7, <1>8, <1>9, <1>10,
     <1>11, <1>12, <1>13, <1>14, <1>15, <1>16, <1>17, <1>18, <1>19,
     <1>20, <1>21, <1>22, <1>23, <1>24, <1>25
     DEF Next, Step, ScanStep, StatusStep, ClearStep, FinalStep,
         ClaimStep, Procs

(* A child is there from the sign-in of its claimant on, and not before.   *)
LEMMA LivesStep ==
    ASSUME TypeOK, Roles, Typed, Lives, [Next]_vars
    PROVE  Lives'
<1> USE DEF Lives, Typed, RestOK, Unborn, Born, Clearing, Scanning,
            Local, KeepsAim, Keeps, Seeks, Ends, Turns, Raises, Resumes,
            home
<1>0. Claimants \subseteq Procs
  BY DEF Procs
<1> USE <1>0
<1>1. ASSUME NEW p \in Procs, Start(p) PROVE Lives'
  BY <1>1, StartIs
<1>2. ASSUME NEW p \in Procs, List(p) PROVE Lives'
  BY <1>2, ListIs
<1>3. ASSUME NEW p \in Procs, Read(p) PROVE Lives'
  BY <1>3, ReadIs
<1>4. ASSUME NEW p \in Procs, StatusPass(p) PROVE Lives'
  BY <1>4, StatusPassIs
<1>5. ASSUME NEW p \in Procs, Judge(p) PROVE Lives'
  BY <1>5, JudgeIs
<1>6. ASSUME NEW p \in Procs, NextPass(p) PROVE Lives'
  BY <1>6, NextPassIs
<1>7. ASSUME NEW p \in Procs, StatusEnds(p) PROVE Lives'
  BY <1>7, StatusEndsIs
<1>8. ASSUME NEW p \in Procs, Relocate(p) PROVE Lives'
  BY <1>8, RelocateIs
<1>9. ASSUME NEW p \in Procs, Inspect(p) PROVE Lives'
  BY <1>9, InspectIs DEF Roles
<1>10. ASSUME NEW p \in Procs, Unlink(p) PROVE Lives'
  BY <1>10, UnlinkIs DEF Roles
<1>11. ASSUME NEW p \in Procs, ClearFails(p) PROVE Lives'
  BY <1>11, ClearFailsIs
<1>12. ASSUME NEW p \in Procs, Candidate(p) PROVE Lives'
  BY <1>12, CandidateIs
<1>13. ASSUME NEW p \in Procs, Matched(p) PROVE Lives'
  BY <1>13, MatchedIs
<1>14. ASSUME NEW p \in Procs, Crash(p) PROVE Lives'
  BY <1>14, CrashIs
<1>15. ASSUME NEW p \in Claimants, Create(p) PROVE Lives'
  BY <1>15, CreateIs, Reservation
<1>16. ASSUME NEW p \in Claimants, Write(p) PROVE Lives'
  BY <1>16, WriteIs, Reservation
<1>17. ASSUME NEW p \in Claimants, Protect(p) PROVE Lives'
  BY <1>17, ProtectIs, Reservation
<1>18. ASSUME NEW p \in Claimants, Withdraw(p) PROVE Lives'
  BY <1>18, WithdrawIs, Reservation
<1>19. ASSUME NEW p \in Claimants, Spawn(p) PROVE Lives'
  BY <1>19, SpawnIs, Reservation
<1>20. ASSUME NEW p \in Claimants, Attach(p) PROVE Lives'
  BY <1>20, AttachIs, Reservation
<1>21. ASSUME NEW p \in Claimants, Attached(p) PROVE Lives'
  BY <1>21, AttachedIs, Reservation
<1>22. ASSUME NEW p \in Claimants, Closed(p) PROVE Lives'
  BY <1>22, ClosedIs, Reservation
<1>23. ASSUME NEW c \in Claimants, ChildWrites(c) PROVE Lives'
  BY <1>23 DEF ChildWrites
<1>24. ASSUME NEW c \in Claimants, ChildExits(c) PROVE Lives'
  BY <1>24 DEF ChildExits, home
<1>25. CASE UNCHANGED vars
  BY <1>25 DEF vars, procs, home
<1> QED
  BY <1>1, <1>2, <1>3, <1>4, <1>5, <1>6, <1>7, <1>8, <1>9, <1>10,
     <1>11, <1>12, <1>13, <1>14, <1>15, <1>16, <1>17, <1>18, <1>19,
     <1>20, <1>21, <1>22, <1>23, <1>24, <1>25
     DEF Next, Step, ScanStep, StatusStep, ClearStep, FinalStep,
         ClaimStep, Procs

(* What others clear stays what they clear it for.                         *)
LEMMA OthersKeep ==
    ASSUME NEW q \in Procs, PurposeOf(q), at'[q] = at[q],
           \A i : Over(i) => Over(i)' /\ (i \in wrote' => i \in wrote),
           lock = q => lock' = q, races \subseteq races'
    PROVE  PurposeOf(q)'
  BY DEF PurposeOf, Clearing, Scanning

(* Every step keeps Purpose: a status goes on to clear only a lease whose  *)
(* child has ended and, while it judged, had left auth.json as it was; a   *)
(* candidate is judged ended; a claim cleans up after itself only; and a   *)
(* finalization has the lock.                                              *)
LEMMA PurposeStep ==
    ASSUME TypeOK, Roles, Typed, Written, Lives, Started, Purpose, [Next]_vars
    PROVE  Purpose'
<1> USE DEF Typed, RestOK, Lives, Written, Started, Purpose
<1>0. Claimants \subseteq Procs
  BY DEF Procs
<1> USE <1>0
<1>1. ASSUME NEW p \in Procs, Start(p) PROVE Purpose'
  <2>1. Local(p)
    BY <1>1, StartIs
  <2>2. \A q \in Procs \ {p} : PurposeOf(q)'
    <3>1. ASSUME NEW q \in Procs PROVE lock = q => lock' = q
      BY <1>1, StartIs, LeaseAssumption DEF Procs
    <3> QED
      BY <1>1, <2>1, <3>1, StartIs, OthersKeep DEF Local, Over, home
  <2>3. PurposeOf(p)'
    BY <1>1, StartIs
       DEF PurposeOf, Clearing, Scanning, Over, Began, KeepsAim, Keeps,
           Seeks, Ends, Turns, Raises, Resumes, Roles, home, Free
  <2> QED
    BY <2>2, <2>3
<1>2. ASSUME NEW p \in Procs, List(p) PROVE Purpose'
  <2>1. Local(p)
    BY <1>2, ListIs
  <2>2. \A q \in Procs \ {p} : PurposeOf(q)'
    BY <1>2, <2>1, ListIs, OthersKeep DEF Local, Free, Raises, Over, home
  <2>3. PurposeOf(p)'
    BY <1>2, ListIs
       DEF PurposeOf, Clearing, Scanning, Over, Began, KeepsAim, Keeps,
           Seeks, Ends, Turns, Raises, Resumes, Roles, home, Free
  <2> QED
    BY <2>2, <2>3
<1>3. ASSUME NEW p \in Procs, Read(p) PROVE Purpose'
  <2>1. Local(p)
    BY <1>3, ReadIs
  <2>2. \A q \in Procs \ {p} : PurposeOf(q)'
    BY <1>3, <2>1, ReadIs, OthersKeep DEF Local, Free, Raises, Over, home
  <2>3. CASE Raises(p)
    <3>1. CASE Ends(p)
      BY <2>2, <3>1 DEF PurposeOf, Clearing, Scanning, Ends
    <3>2. CASE p \in Claimants /\ Turns(p, Of(p, "reserved"), "cleanup")
      BY <2>2, <3>2, Reservation
         DEF PurposeOf, Clearing, Scanning, Turns, Of
    <3>3. CASE at'[p].pc = "failed"
      BY <2>2, <3>3 DEF PurposeOf, Clearing, Scanning
    <3> QED
      BY <2>2, <2>3, <3>1, <3>2, <3>3 DEF Raises
  <2>4. CASE at'[p].pc = "read" /\ KeepsAim(p) /\ UNCHANGED lock
    BY <1>3, <2>2, <2>4, ReadIs
       DEF PurposeOf, Clearing, Scanning, KeepsAim, Over, home
  <2> QED
    BY <1>3, <2>2, <2>3, <2>4, ReadIs
<1>4. ASSUME NEW p \in Procs, StatusPass(p) PROVE Purpose'
  <2>1. Local(p)
    BY <1>4, StatusPassIs
  <2>2. \A q \in Procs \ {p} : PurposeOf(q)'
    BY <1>4, <2>1, StatusPassIs, OthersKeep DEF Local, Free, Raises, Over, home
  <2>3. PurposeOf(p)'
    BY <1>4, StatusPassIs
       DEF PurposeOf, Clearing, Scanning, Over, Began, KeepsAim, Keeps,
           Seeks, Ends, Turns, Raises, Resumes, Roles, home, Free
  <2> QED
    BY <2>2, <2>3
<1>5. ASSUME NEW p \in Procs, Judge(p) PROVE Purpose'
  <2>1. Local(p)
    BY <1>5, JudgeIs
  <2>2. \A q \in Procs \ {p} : PurposeOf(q)'
    BY <1>5, <2>1, JudgeIs, OthersKeep DEF Local, Free, Lets, Over, home
  <2>3. CASE Ends(p)
    BY <2>2, <2>3 DEF PurposeOf, Clearing, Scanning, Ends
  <2>4. ASSUME NEW r \in at[p].todo, Ended(r[2])
        PROVE  /\ Over(r[2].id) /\ r[2] \in Known
               /\ auth = before[r[2].id] => r[2].id \notin wrote
    BY <2>4 DEF Ended, Started, Began, Over, Known, Leases
  <2>5. ASSUME NEW r \in at[p].todo, Ended(r[2]), Seeks(p, "candidate"),
               at'[p].lease = r[2]
        PROVE  PurposeOf(p)'
    BY <1>5, <2>4, <2>5, JudgeIs DEF PurposeOf, Clearing, Scanning, Seeks, Over
  <2>6. ASSUME NEW r \in at[p].todo, Ended(r[2]), Turns(p, r[2], "status"),
               auth = before[r[2].id]
        PROVE  PurposeOf(p)'
    BY <1>5, <2>4, <2>6, JudgeIs
       DEF PurposeOf, Clearing, Scanning, Turns, Over, home
  <2> QED
    BY <1>5, <2>2, <2>3, <2>5, <2>6, JudgeIs
<1>6. ASSUME NEW p \in Procs, NextPass(p) PROVE Purpose'
  <2>1. Local(p)
    BY <1>6, NextPassIs
  <2>2. \A q \in Procs \ {p} : PurposeOf(q)'
    BY <1>6, <2>1, NextPassIs, OthersKeep DEF Local, Free, Raises, Over, home
  <2>3. PurposeOf(p)'
    BY <1>6, NextPassIs
       DEF PurposeOf, Clearing, Scanning, Over, Began, KeepsAim, Keeps,
           Seeks, Ends, Turns, Raises, Resumes, Roles, home, Free
  <2> QED
    BY <2>2, <2>3
<1>7. ASSUME NEW p \in Procs, StatusEnds(p) PROVE Purpose'
  <2>1. Local(p)
    BY <1>7, StatusEndsIs
  <2>2. \A q \in Procs \ {p} : PurposeOf(q)'
    BY <1>7, <2>1, StatusEndsIs, OthersKeep DEF Local, Free, Raises, Over, home
  <2>3. PurposeOf(p)'
    BY <1>7, StatusEndsIs
       DEF PurposeOf, Clearing, Scanning, Over, Began, KeepsAim, Keeps,
           Seeks, Ends, Turns, Raises, Resumes, Roles, home, Free
  <2> QED
    BY <2>2, <2>3
<1>8. ASSUME NEW p \in Procs, Relocate(p) PROVE Purpose'
  <2>1. Local(p)
    BY <1>8, RelocateIs
  <2>2. \A q \in Procs \ {p} : PurposeOf(q)'
    BY <1>8, <2>1, RelocateIs, OthersKeep DEF Local, Free, Raises, Over, home
  <2>3. PurposeOf(p)'
    BY <1>8, RelocateIs
       DEF PurposeOf, Clearing, Scanning, Over, Began, KeepsAim, Keeps,
           Seeks, Ends, Turns, Raises, Resumes, Roles, home, Free
  <2> QED
    BY <2>2, <2>3
<1>9. ASSUME NEW p \in Procs, Inspect(p) PROVE Purpose'
  <2>1. Local(p)
    BY <1>9, InspectIs
  <2>2. \A q \in Procs \ {p} : PurposeOf(q)'
    BY <1>9, <2>1, InspectIs, OthersKeep DEF Local, Free, Raises, Over, home
  <2>3. PurposeOf(p)'
    BY <1>9, InspectIs
       DEF PurposeOf, Clearing, Scanning, Over, Began, KeepsAim, Keeps,
           Seeks, Ends, Turns, Raises, Resumes, Roles, home, Free
  <2> QED
    BY <2>2, <2>3
<1>10. ASSUME NEW p \in Procs, Unlink(p) PROVE Purpose'
  <2>1. Local(p)
    BY <1>10, UnlinkIs
  <2>2. \A q \in Procs \ {p} : PurposeOf(q)'
    BY <1>10, <2>1, UnlinkIs, OthersKeep DEF Local, Free, Lets, Over, home
  <2>3. PurposeOf(p)'
    BY <1>10, UnlinkIs
       DEF PurposeOf, Clearing, Scanning, Over, Began, KeepsAim, Keeps,
           Seeks, Ends, Turns, Raises, Resumes, Roles, home, Free
  <2> QED
    BY <2>2, <2>3
<1>11. ASSUME NEW p \in Procs, ClearFails(p) PROVE Purpose'
  <2>1. Local(p)
    BY <1>11, ClearFailsIs
  <2>2. \A q \in Procs \ {p} : PurposeOf(q)'
    BY <1>11, <2>1, ClearFailsIs, OthersKeep
       DEF Local, Free, Lets, Over, home
  <2>3. PurposeOf(p)'
    BY <1>11, ClearFailsIs
       DEF PurposeOf, Clearing, Scanning, Over, Began, KeepsAim, Keeps,
           Seeks, Ends, Turns, Raises, Resumes, Roles, home, Free
  <2> QED
    BY <2>2, <2>3
<1>12. ASSUME NEW p \in Procs, Candidate(p) PROVE Purpose'
  <2>1. Local(p)
    BY <1>12, CandidateIs
  <2>2. \A q \in Procs \ {p} : PurposeOf(q)'
    <3>1. ASSUME NEW q \in Procs \ {p} PROVE lock = q => lock' = q
      BY <1>12, CandidateIs, LeaseAssumption DEF Procs, Free
    <3>2. races \subseteq races'
      BY <1>12, CandidateIs
    <3> QED
      BY <1>12, <2>1, <3>1, <3>2, CandidateIs, OthersKeep DEF Local, Over, home
  <2>3. CASE Ends(p)
    BY <2>2, <2>3 DEF PurposeOf, Clearing, Scanning, Ends
  <2>4. CASE ~Ends(p)
    <3>1. /\ Seeks(p, "match") \/ Turns(p, at'[p].lease, "finish")
          /\ lock' = p /\ at'[p].lease \in Known
      BY <1>12, <2>4, CandidateIs DEF Doing
    <3>2. "swapped" \notin races' => at'[p].lease = at[p].lease
      BY <1>12, <2>4, CandidateIs
    <3>3. Over(at[p].lease.id)
      BY <1>12, CandidateIs DEF PurposeOf, Scanning
    <3>4. "swapped" \notin races' => Over(at[p].lease.id)'
      BY <1>12, <3>2, <3>3, CandidateIs DEF Over, home
    <3>5. PurposeOf(p)'
      BY <3>1, <3>4 DEF PurposeOf, Clearing, Scanning, Seeks, Turns
    <3> QED
      BY <2>2, <3>5
  <2> QED
    BY <2>3, <2>4
<1>13. ASSUME NEW p \in Procs, Matched(p) PROVE Purpose'
  <2>1. Local(p)
    BY <1>13, MatchedIs
  <2>2. \A q \in Procs \ {p} : PurposeOf(q)'
    BY <1>13, <2>1, MatchedIs, OthersKeep DEF Local, Free, Raises, Over, home
  <2>3. PurposeOf(p)'
    BY <1>13, MatchedIs
       DEF PurposeOf, Clearing, Scanning, Over, Began, KeepsAim, Keeps,
           Seeks, Ends, Turns, Raises, Resumes, Roles, home, Free
  <2> QED
    BY <2>2, <2>3
<1>14. ASSUME NEW p \in Procs, Crash(p) PROVE Purpose'
  <2>1. Local(p)
    BY <1>14, CrashIs
  <2>2. \A q \in Procs \ {p} : PurposeOf(q)'
    BY <1>14, <2>1, CrashIs, OthersKeep DEF Local, Free, Raises, Over, home
  <2>3. PurposeOf(p)'
    BY <1>14, CrashIs
       DEF PurposeOf, Clearing, Scanning, Over, Began, KeepsAim, Keeps,
           Seeks, Ends, Turns, Raises, Resumes, Roles, home, Free
  <2> QED
    BY <2>2, <2>3
<1>15. ASSUME NEW p \in Claimants, Create(p) PROVE Purpose'
  <2>1. Local(p)
    BY <1>15, CreateIs, Reservation
  <2>2. \A q \in Procs \ {p} : PurposeOf(q)'
    BY <1>15, <2>1, CreateIs, Reservation, OthersKeep
       DEF Local, Free, Raises, Over, home
  <2>3. PurposeOf(p)'
    BY <1>15, CreateIs, Reservation
       DEF PurposeOf, Clearing, Scanning, Over, Began, KeepsAim, Keeps,
           Seeks, Ends, Turns, Raises, Resumes, Roles, home, Free
  <2> QED
    BY <2>2, <2>3
<1>16. ASSUME NEW p \in Claimants, Write(p) PROVE Purpose'
  <2>1. Local(p)
    BY <1>16, WriteIs, Reservation
  <2>2. \A q \in Procs \ {p} : PurposeOf(q)'
    BY <1>16, <2>1, WriteIs, Reservation, OthersKeep
       DEF Local, Free, Raises, Over, home
  <2>3. PurposeOf(p)'
    BY <1>16, WriteIs, Reservation
       DEF PurposeOf, Clearing, Scanning, Over, Began, KeepsAim, Keeps,
           Seeks, Ends, Turns, Raises, Resumes, Roles, home, Free
  <2> QED
    BY <2>2, <2>3
<1>17. ASSUME NEW p \in Claimants, Protect(p) PROVE Purpose'
  <2>1. Local(p)
    BY <1>17, ProtectIs, Reservation
  <2>2. \A q \in Procs \ {p} : PurposeOf(q)'
    BY <1>17, <2>1, ProtectIs, Reservation, OthersKeep
       DEF Local, Free, Raises, Over, home
  <2>3. PurposeOf(p)'
    BY <1>17, ProtectIs, Reservation
       DEF PurposeOf, Clearing, Scanning, Over, Began, KeepsAim, Keeps,
           Seeks, Ends, Turns, Raises, Resumes, Roles, home, Free
  <2> QED
    BY <2>2, <2>3
<1>18. ASSUME NEW p \in Claimants, Withdraw(p) PROVE Purpose'
  <2>1. Local(p)
    BY <1>18, WithdrawIs, Reservation
  <2>2. \A q \in Procs \ {p} : PurposeOf(q)'
    BY <1>18, <2>1, WithdrawIs, Reservation, OthersKeep
       DEF Local, Free, Raises, Over, home
  <2>3. PurposeOf(p)'
    BY <1>18, WithdrawIs, Reservation
       DEF PurposeOf, Clearing, Scanning, Over, Began, KeepsAim, Keeps,
           Seeks, Ends, Turns, Raises, Resumes, Roles, home, Free
  <2> QED
    BY <2>2, <2>3
<1>19. ASSUME NEW p \in Claimants, Spawn(p) PROVE Purpose'
  <2>1. Local(p) /\ child[p] = "none"
    BY <1>19, SpawnIs, Reservation DEF Unborn, Scanning
  <2>2. \A q \in Procs \ {p} : PurposeOf(q)'
    <3>1. \A i : Over(i) => Over(i)'
      BY <1>19, <2>1, SpawnIs DEF Over
    <3> QED
      BY <1>19, <2>1, <3>1, SpawnIs, OthersKeep DEF Local, home
  <2>3. PurposeOf(p)'
    BY <1>19, SpawnIs, Reservation
       DEF PurposeOf, Clearing, Scanning, Seeks, Turns, Ends
  <2> QED
    BY <2>2, <2>3
<1>20. ASSUME NEW p \in Claimants, Attach(p) PROVE Purpose'
  <2>1. Local(p)
    BY <1>20, AttachIs, Reservation
  <2>2. \A q \in Procs \ {p} : PurposeOf(q)'
    BY <1>20, <2>1, AttachIs, Reservation, OthersKeep
       DEF Local, Free, Raises, Over, home
  <2>3. PurposeOf(p)'
    BY <1>20, AttachIs, Reservation
       DEF PurposeOf, Clearing, Scanning, Over, Began, KeepsAim, Keeps,
           Seeks, Ends, Turns, Raises, Resumes, Roles, home, Free
  <2> QED
    BY <2>2, <2>3
<1>21. ASSUME NEW p \in Claimants, Attached(p) PROVE Purpose'
  <2>1. Local(p)
    BY <1>21, AttachedIs, Reservation
  <2>2. \A q \in Procs \ {p} : PurposeOf(q)'
    BY <1>21, <2>1, AttachedIs, Reservation, OthersKeep
       DEF Local, Free, Raises, Over, home
  <2>3. PurposeOf(p)'
    BY <1>21, AttachedIs, Reservation
       DEF PurposeOf, Clearing, Scanning, Over, Began, KeepsAim, Keeps,
           Seeks, Ends, Turns, Raises, Resumes, Roles, home, Free
  <2> QED
    BY <2>2, <2>3
<1>22. ASSUME NEW p \in Claimants, Closed(p) PROVE Purpose'
  <2>1. Local(p)
    BY <1>22, ClosedIs
  <2>2. \A q \in Procs \ {p} : PurposeOf(q)'
    <3>1. ASSUME NEW q \in Procs \ {p} PROVE lock = q => lock' = q
      BY <1>22, ClosedIs, LeaseAssumption DEF Procs
    <3> QED
      BY <1>22, <2>1, <3>1, ClosedIs, OthersKeep DEF Local, Over, home
  <2>3. Over(p)' /\ (auth = before[p] => p \notin wrote')
    BY <1>22, ClosedIs DEF Over, home, Leases
  <2>4. /\ Of(p, "reserved") \in Known /\ Of(p, "reserved").id = p
        /\ Of(p, "running") \in Known /\ Of(p, "running").id = p
    BY Reservation DEF Of
  <2>5. PurposeOf(p)'
    BY <1>22, <2>3, <2>4, ClosedIs
       DEF PurposeOf, Clearing, Scanning, Seeks, Turns
  <2> QED
    BY <2>2, <2>5, Reservation
<1>23. ASSUME NEW c \in Claimants, ChildWrites(c) PROVE Purpose'
  <2>1. \A i : Over(i) => Over(i)' /\ (i \in wrote' => i \in wrote)
    BY <1>23, LeaseAssumption DEF ChildWrites, Over
  <2> QED
    BY <1>23, <2>1, OthersKeep DEF ChildWrites
<1>24. ASSUME NEW c \in Claimants, ChildExits(c) PROVE Purpose'
  <2>1. \A i : Over(i) => Over(i)' /\ (i \in wrote' => i \in wrote)
    BY <1>24 DEF ChildExits, Over, home
  <2> QED
    BY <1>24, <2>1, OthersKeep DEF ChildExits
<1>25. CASE UNCHANGED vars
  <2>1. \A i : Over(i) => Over(i)' /\ (i \in wrote' => i \in wrote)
    BY <1>25 DEF vars, procs, home, Over
  <2> QED
    BY <1>25, <2>1, OthersKeep DEF vars, procs
<1> QED
  BY <1>1, <1>2, <1>3, <1>4, <1>5, <1>6, <1>7, <1>8, <1>9, <1>10,
     <1>11, <1>12, <1>13, <1>14, <1>15, <1>16, <1>17, <1>18, <1>19,
     <1>20, <1>21, <1>22, <1>23, <1>24, <1>25
     DEF Next, Step, ScanStep, StatusStep, ClearStep, FinalStep,
         ClaimStep, Procs

(* A record is written "running" by the attachment of a sign-in, and what  *)
(* a process has read was in the home.                                     *)
LEMMA StartedStep ==
    ASSUME TypeOK, Roles, Typed, Lives, Started, [Next]_vars
    PROVE  Started'
<1> USE DEF Typed, RestOK, Started, Began, Local, KeepsAim, Keeps,
            Seeks, Ends, Turns, Raises, Resumes, home
<1>1. ASSUME NEW p \in Procs, Start(p) PROVE Started'
  BY <1>1, StartIs
<1>2. ASSUME NEW p \in Procs, List(p) PROVE Started'
  BY <1>2, ListIs
<1>3. ASSUME NEW p \in Procs, Read(p) PROVE Started'
  <2>1. Local(p) /\ UNCHANGED <<dir, child>>
    BY <1>3, ReadIs DEF home
  <2>2. \A r \in at'[p].recs \cup at'[p].todo : Began(r[2])
    <3>1. CASE Raises(p)
      BY <3>1 DEF Raises, Keeps, KeepsAim, Turns, Ends
    <3>2. CASE KeepsAim(p) /\ UNCHANGED lock /\
               \E n \in at[p].names :
                  \/ at'[p].recs = at[p].recs
                  \/ at'[p].recs = at[p].recs \cup {<<n, dir[n]>>}
      <4>1. at[p].names \subseteq Names
        BY DEF Doing, Procs
      <4> QED
        BY <3>2, <4>1 DEF KeepsAim
    <3> QED
      BY <1>3, <3>1, <3>2, ReadIs
  <2> QED
    BY <2>1, <2>2 DEF Local, Began
<1>4. ASSUME NEW p \in Procs, StatusPass(p) PROVE Started'
  BY <1>4, StatusPassIs
<1>5. ASSUME NEW p \in Procs, Judge(p) PROVE Started'
  BY <1>5, JudgeIs
<1>6. ASSUME NEW p \in Procs, NextPass(p) PROVE Started'
  BY <1>6, NextPassIs
<1>7. ASSUME NEW p \in Procs, StatusEnds(p) PROVE Started'
  BY <1>7, StatusEndsIs
<1>8. ASSUME NEW p \in Procs, Relocate(p) PROVE Started'
  <2>1. Local(p) /\ UNCHANGED child
    BY <1>8, RelocateIs
  <2>2. ASSUME NEW n \in Names PROVE Began(dir[n])'
    <3>1. dir' = dir \/ \E m \in Names : dir'[n] \in {dir[n], dir[m], Absent}
      BY <1>8, RelocateIs
    <3> QED
      BY <2>1, <3>1 DEF Began, Absent
  <2>3. \A q \in Procs : \A r \in at'[q].recs \cup at'[q].todo : Began(r[2])
    BY <1>8, <2>1, RelocateIs
       DEF Local, KeepsAim, Keeps, Seeks, Ends, Turns, Resumes
  <2> QED
    BY <2>1, <2>2, <2>3 DEF Began
<1>9. ASSUME NEW p \in Procs, Inspect(p) PROVE Started'
  BY <1>9, InspectIs
<1>10. ASSUME NEW p \in Procs, Unlink(p) PROVE Started'
  <2>1. Local(p) /\ UNCHANGED child
    BY <1>10, UnlinkIs
  <2>2. ASSUME NEW n \in Names PROVE Began(dir[n])'
    <3>1. dir'[n] \in {dir[n], Absent}
      BY <1>10, UnlinkIs
    <3> QED
      BY <2>1, <3>1 DEF Began, Absent
  <2>3. \A q \in Procs : \A r \in at'[q].recs \cup at'[q].todo : Began(r[2])
    BY <1>10, <2>1, UnlinkIs
       DEF Local, KeepsAim, Keeps, Seeks, Ends, Turns, Resumes
  <2> QED
    BY <2>1, <2>2, <2>3 DEF Began
<1>11. ASSUME NEW p \in Procs, ClearFails(p) PROVE Started'
  BY <1>11, ClearFailsIs
<1>12. ASSUME NEW p \in Procs, Candidate(p) PROVE Started'
  BY <1>12, CandidateIs
<1>13. ASSUME NEW p \in Procs, Matched(p) PROVE Started'
  BY <1>13, MatchedIs
<1>14. ASSUME NEW p \in Procs, Crash(p) PROVE Started'
  BY <1>14, CrashIs
<1>15. ASSUME NEW p \in Claimants, Create(p) PROVE Started'
  <2>1. Local(p) /\ UNCHANGED child
    BY <1>15, CreateIs, Reservation
  <2>2. ASSUME NEW n \in Names PROVE Began(dir[n])'
    <3>1. dir'[n] \in {dir[n], Of(p, "empty")}
      BY <1>15, CreateIs
    <3> QED
      BY <2>1, <3>1 DEF Began, Of
  <2>3. \A q \in Procs : \A r \in at'[q].recs \cup at'[q].todo : Began(r[2])
    BY <1>15, <2>1, CreateIs, Reservation
       DEF Local, KeepsAim, Keeps, Seeks, Ends, Turns, Resumes
  <2> QED
    BY <2>1, <2>2, <2>3 DEF Began
<1>16. ASSUME NEW p \in Claimants, Write(p) PROVE Started'
  <2>1. Local(p) /\ UNCHANGED child
    BY <1>16, WriteIs, Reservation
  <2>2. ASSUME NEW n \in Names PROVE Began(dir[n])'
    <3>1. dir'[n] \in {dir[n], Of(p, "reserved")}
      BY <1>16, WriteIs
    <3> QED
      BY <2>1, <3>1 DEF Began, Of
  <2>3. \A q \in Procs : \A r \in at'[q].recs \cup at'[q].todo : Began(r[2])
    BY <1>16, <2>1, WriteIs, Reservation
       DEF Local, KeepsAim, Keeps, Seeks, Ends, Turns, Resumes
  <2> QED
    BY <2>1, <2>2, <2>3 DEF Began
<1>17. ASSUME NEW p \in Claimants, Protect(p) PROVE Started'
  BY <1>17, ProtectIs, Reservation
<1>18. ASSUME NEW p \in Claimants, Withdraw(p) PROVE Started'
  BY <1>18, WithdrawIs, Reservation
<1>19. ASSUME NEW p \in Claimants, Spawn(p) PROVE Started'
  BY <1>19, SpawnIs, Reservation
<1>20. ASSUME NEW p \in Claimants, Attach(p) PROVE Started'
  <2>1. Local(p) /\ UNCHANGED child
    BY <1>20, AttachIs, Reservation
  <2>2. ASSUME NEW n \in Names PROVE Began(dir[n])'
    <3>1. dir'[n] \in {dir[n], Of(p, "running")}
      BY <1>20, AttachIs
    <3>2. child[p] # "none"
      BY <1>20, AttachIs DEF Lives, Born, Scanning
    <3> QED
      BY <2>1, <3>1, <3>2 DEF Began, Of
  <2>3. \A q \in Procs : \A r \in at'[q].recs \cup at'[q].todo : Began(r[2])
    BY <1>20, <2>1, AttachIs, Reservation
       DEF Local, KeepsAim, Keeps, Seeks, Ends, Turns, Resumes
  <2> QED
    BY <2>1, <2>2, <2>3 DEF Began
<1>21. ASSUME NEW p \in Claimants, Attached(p) PROVE Started'
  BY <1>21, AttachedIs, Reservation
<1>22. ASSUME NEW p \in Claimants, Closed(p) PROVE Started'
  BY <1>22, ClosedIs, Reservation
<1>23. ASSUME NEW c \in Claimants, ChildWrites(c) PROVE Started'
  BY <1>23 DEF ChildWrites
<1>24. ASSUME NEW c \in Claimants, ChildExits(c) PROVE Started'
  BY <1>24 DEF ChildExits, home
<1>25. CASE UNCHANGED vars
  BY <1>25 DEF vars, procs, home
<1> QED
  BY <1>1, <1>2, <1>3, <1>4, <1>5, <1>6, <1>7, <1>8, <1>9, <1>10,
     <1>11, <1>12, <1>13, <1>14, <1>15, <1>16, <1>17, <1>18, <1>19,
     <1>20, <1>21, <1>22, <1>23, <1>24, <1>25
     DEF Next, Step, ScanStep, StatusStep, ClearStep, FinalStep,
         ClaimStep, Procs

(* Nothing appears under the name a process is about to unlink.            *)
LEMMA UnlinkedStays ==
    ASSUME TypeOK, Roles, Purpose, Private, [Next]_vars,
           NEW q \in Procs, at[q].pc = "unlink"
    PROVE  dir'[at[q].name] \in {dir[at[q].name], Absent}
<1> DEFINE n == at[q].name
<1>1. /\ dir \in [Names -> Record \cup {Absent}] /\ n \in Names
      /\ n # Fixed /\ dir[n] \in {Absent} \cup Known
  BY LeaseAssumption DEF TypeOK, Doing, Private, Purpose, PurposeOf, Clearing
<1>2. ASSUME NEW p \in Procs, Relocate(p) PROVE dir'[n] \in {dir[n], Absent}
  <2>1. Fresh \in Unused => Fresh # n
    BY DEF Unused, InUse
  <2> QED
    BY <1>1, <1>2, <2>1, RelocateIs
<1>3. ASSUME NEW p \in Procs, Unlink(p) PROVE dir'[n] \in {dir[n], Absent}
  BY <1>1, <1>3, UnlinkIs
<1>4. ASSUME NEW p \in Claimants, Create(p) PROVE dir'[n] = dir[n]
  BY <1>1, <1>4, CreateIs
<1>5. ASSUME NEW p \in Claimants, Write(p) PROVE dir'[n] = dir[n]
  BY <1>1, <1>5, WriteIs DEF Of, Known, Absent
<1>6. ASSUME NEW p \in Claimants, Attach(p) PROVE dir'[n] = dir[n]
  BY <1>1, <1>6, AttachIs
<1> QED
  BY <1>2, <1>3, <1>4, <1>5, <1>6, DirSteps

(* Every step keeps Private: a record moves to an unused name, and is      *)
(* unlinked there if it is the one meant.                                  *)
LEMMA PrivateStep ==
    ASSUME TypeOK, Roles, Purpose, Private, [Next]_vars
    PROVE  Private'
<1> USE DEF Private, Local, KeepsAim, Keeps, Seeks, Ends, Turns, Raises,
            Resumes, home
<1>0. \A q \in Procs : at[q].pc = "unlink" =>
          dir'[at[q].name] \in {dir[at[q].name], Absent}
  BY UnlinkedStays
<1> USE <1>0
<1>1. ASSUME NEW p \in Procs, Start(p) PROVE Private'
  BY <1>1, StartIs
<1>2. ASSUME NEW p \in Procs, List(p) PROVE Private'
  BY <1>2, ListIs
<1>3. ASSUME NEW p \in Procs, Read(p) PROVE Private'
  BY <1>3, ReadIs
<1>4. ASSUME NEW p \in Procs, StatusPass(p) PROVE Private'
  BY <1>4, StatusPassIs
<1>5. ASSUME NEW p \in Procs, Judge(p) PROVE Private'
  BY <1>5, JudgeIs
<1>6. ASSUME NEW p \in Procs, NextPass(p) PROVE Private'
  BY <1>6, NextPassIs
<1>7. ASSUME NEW p \in Procs, StatusEnds(p) PROVE Private'
  BY <1>7, StatusEndsIs
<1>8. ASSUME NEW p \in Procs, Relocate(p) PROVE Private'
  <2>1. /\ Local(p) /\ at'[p].pc # "unlink"
        /\ at'[p].pc = "inspect" => at'[p].name \in Relocated
    BY <1>8, RelocateIs DEF Unused
  <2> QED
    BY <2>1
<1>9. ASSUME NEW p \in Procs, Inspect(p) PROVE Private'
  BY <1>9, InspectIs
<1>10. ASSUME NEW p \in Procs, Unlink(p) PROVE Private'
  BY <1>10, UnlinkIs
<1>11. ASSUME NEW p \in Procs, ClearFails(p) PROVE Private'
  BY <1>11, ClearFailsIs
<1>12. ASSUME NEW p \in Procs, Candidate(p) PROVE Private'
  BY <1>12, CandidateIs
<1>13. ASSUME NEW p \in Procs, Matched(p) PROVE Private'
  BY <1>13, MatchedIs
<1>14. ASSUME NEW p \in Procs, Crash(p) PROVE Private'
  BY <1>14, CrashIs
<1>15. ASSUME NEW p \in Claimants, Create(p) PROVE Private'
  BY <1>15, CreateIs, Reservation
<1>16. ASSUME NEW p \in Claimants, Write(p) PROVE Private'
  BY <1>16, WriteIs, Reservation
<1>17. ASSUME NEW p \in Claimants, Protect(p) PROVE Private'
  BY <1>17, ProtectIs, Reservation
<1>18. ASSUME NEW p \in Claimants, Withdraw(p) PROVE Private'
  BY <1>18, WithdrawIs, Reservation
<1>19. ASSUME NEW p \in Claimants, Spawn(p) PROVE Private'
  BY <1>19, SpawnIs, Reservation
<1>20. ASSUME NEW p \in Claimants, Attach(p) PROVE Private'
  BY <1>20, AttachIs, Reservation
<1>21. ASSUME NEW p \in Claimants, Attached(p) PROVE Private'
  BY <1>21, AttachedIs, Reservation
<1>22. ASSUME NEW p \in Claimants, Closed(p) PROVE Private'
  BY <1>22, ClosedIs, Reservation
<1>23. ASSUME NEW c \in Claimants, ChildWrites(c) PROVE Private'
  BY <1>23 DEF ChildWrites
<1>24. ASSUME NEW c \in Claimants, ChildExits(c) PROVE Private'
  BY <1>24 DEF ChildExits, home
<1>25. CASE UNCHANGED vars
  BY <1>25 DEF vars, procs, home
<1> QED
  BY <1>1, <1>2, <1>3, <1>4, <1>5, <1>6, <1>7, <1>8, <1>9, <1>10,
     <1>11, <1>12, <1>13, <1>14, <1>15, <1>16, <1>17, <1>18, <1>19,
     <1>20, <1>21, <1>22, <1>23, <1>24, <1>25
     DEF Next, Step, ScanStep, StatusStep, ClearStep, FinalStep,
         ClaimStep, Procs

(* How a claim comes to be.                                                *)
ClaimsOn(d) ==
    Claimed(d)' => Claimed(d) \/ (Create(d) /\ at'[d].pc = "write")

(* A claim begins with the creation of its record, and with nothing else.  *)
LEMMA ClaimedBefore ==
    ASSUME TypeOK, Roles, NEW d \in Claimants, [Next]_vars
    PROVE  ClaimsOn(d)
<1> USE DEF ClaimsOn, Claimed, Scanning, Local, KeepsAim, Keeps, Seeks, Ends,
            Turns, Raises, Resumes, home
<1>0. Claimants \subseteq Procs
  BY DEF Procs
<1> USE <1>0
<1>1. ASSUME NEW p \in Procs, Start(p) PROVE ClaimsOn(d)
  BY <1>1, StartIs
<1>2. ASSUME NEW p \in Procs, List(p) PROVE ClaimsOn(d)
  BY <1>2, ListIs
<1>3. ASSUME NEW p \in Procs, Read(p) PROVE ClaimsOn(d)
  BY <1>3, ReadIs
<1>4. ASSUME NEW p \in Procs, StatusPass(p) PROVE ClaimsOn(d)
  BY <1>4, StatusPassIs
<1>5. ASSUME NEW p \in Procs, Judge(p) PROVE ClaimsOn(d)
  BY <1>5, JudgeIs
<1>6. ASSUME NEW p \in Procs, NextPass(p) PROVE ClaimsOn(d)
  BY <1>6, NextPassIs
<1>7. ASSUME NEW p \in Procs, StatusEnds(p) PROVE ClaimsOn(d)
  BY <1>7, StatusEndsIs
<1>8. ASSUME NEW p \in Procs, Relocate(p) PROVE ClaimsOn(d)
  BY <1>8, RelocateIs
<1>9. ASSUME NEW p \in Procs, Inspect(p) PROVE ClaimsOn(d)
  BY <1>9, InspectIs DEF Roles
<1>10. ASSUME NEW p \in Procs, Unlink(p) PROVE ClaimsOn(d)
  BY <1>10, UnlinkIs DEF Roles
<1>11. ASSUME NEW p \in Procs, ClearFails(p) PROVE ClaimsOn(d)
  BY <1>11, ClearFailsIs
<1>12. ASSUME NEW p \in Procs, Candidate(p) PROVE ClaimsOn(d)
  BY <1>12, CandidateIs
<1>13. ASSUME NEW p \in Procs, Matched(p) PROVE ClaimsOn(d)
  BY <1>13, MatchedIs
<1>14. ASSUME NEW p \in Procs, Crash(p) PROVE ClaimsOn(d)
  BY <1>14, CrashIs
<1>15. ASSUME NEW p \in Claimants, Create(p) PROVE ClaimsOn(d)
  BY <1>15, CreateIs, Reservation
<1>16. ASSUME NEW p \in Claimants, Write(p) PROVE ClaimsOn(d)
  BY <1>16, WriteIs, Reservation
<1>17. ASSUME NEW p \in Claimants, Protect(p) PROVE ClaimsOn(d)
  BY <1>17, ProtectIs, Reservation
<1>18. ASSUME NEW p \in Claimants, Withdraw(p) PROVE ClaimsOn(d)
  BY <1>18, WithdrawIs, Reservation
<1>19. ASSUME NEW p \in Claimants, Spawn(p) PROVE ClaimsOn(d)
  BY <1>19, SpawnIs, Reservation DEF TypeOK
<1>20. ASSUME NEW p \in Claimants, Attach(p) PROVE ClaimsOn(d)
  BY <1>20, AttachIs, Reservation
<1>21. ASSUME NEW p \in Claimants, Attached(p) PROVE ClaimsOn(d)
  BY <1>21, AttachedIs, Reservation
<1>22. ASSUME NEW p \in Claimants, Closed(p) PROVE ClaimsOn(d)
  BY <1>22, ClosedIs, Reservation
<1>23. ASSUME NEW c \in Claimants, ChildWrites(c) PROVE ClaimsOn(d)
  BY <1>23 DEF ChildWrites
<1>24. ASSUME NEW c \in Claimants, ChildExits(c) PROVE ClaimsOn(d)
  BY <1>24 DEF TypeOK, ChildExits, home
<1>25. CASE UNCHANGED vars
  BY <1>25 DEF vars, procs, home
<1> QED
  BY <1>1, <1>2, <1>3, <1>4, <1>5, <1>6, <1>7, <1>8, <1>9, <1>10,
     <1>11, <1>12, <1>13, <1>14, <1>15, <1>16, <1>17, <1>18, <1>19,
     <1>20, <1>21, <1>22, <1>23, <1>24, <1>25
     DEF Next, Step, ScanStep, StatusStep, ClearStep, FinalStep,
         ClaimStep, Procs

(* What has gone wrong stays so.                                           *)
LEMMA RacesGrow ==
    ASSUME TypeOK, Roles, [Next]_vars
    PROVE  races \subseteq races'
<1> USE DEF Local
<1>0. Claimants \subseteq Procs
  BY DEF Procs
<1> USE <1>0
<1>1. ASSUME NEW p \in Procs, Start(p) PROVE races \subseteq races'
  BY <1>1, StartIs
<1>2. ASSUME NEW p \in Procs, List(p) PROVE races \subseteq races'
  BY <1>2, ListIs
<1>3. ASSUME NEW p \in Procs, Read(p) PROVE races \subseteq races'
  BY <1>3, ReadIs
<1>4. ASSUME NEW p \in Procs, StatusPass(p) PROVE races \subseteq races'
  BY <1>4, StatusPassIs
<1>5. ASSUME NEW p \in Procs, Judge(p) PROVE races \subseteq races'
  BY <1>5, JudgeIs
<1>6. ASSUME NEW p \in Procs, NextPass(p) PROVE races \subseteq races'
  BY <1>6, NextPassIs
<1>7. ASSUME NEW p \in Procs, StatusEnds(p) PROVE races \subseteq races'
  BY <1>7, StatusEndsIs
<1>8. ASSUME NEW p \in Procs, Relocate(p) PROVE races \subseteq races'
  BY <1>8, RelocateIs
<1>9. ASSUME NEW p \in Procs, Inspect(p) PROVE races \subseteq races'
  BY <1>9, InspectIs
<1>10. ASSUME NEW p \in Procs, Unlink(p) PROVE races \subseteq races'
  BY <1>10, UnlinkIs
<1>11. ASSUME NEW p \in Procs, ClearFails(p) PROVE races \subseteq races'
  BY <1>11, ClearFailsIs
<1>12. ASSUME NEW p \in Procs, Candidate(p) PROVE races \subseteq races'
  BY <1>12, CandidateIs
<1>13. ASSUME NEW p \in Procs, Matched(p) PROVE races \subseteq races'
  BY <1>13, MatchedIs
<1>14. ASSUME NEW p \in Procs, Crash(p) PROVE races \subseteq races'
  BY <1>14, CrashIs
<1>15. ASSUME NEW p \in Claimants, Create(p) PROVE races \subseteq races'
  BY <1>15, CreateIs, Reservation
<1>16. ASSUME NEW p \in Claimants, Write(p) PROVE races \subseteq races'
  BY <1>16, WriteIs, Reservation
<1>17. ASSUME NEW p \in Claimants, Protect(p) PROVE races \subseteq races'
  BY <1>17, ProtectIs, Reservation
<1>18. ASSUME NEW p \in Claimants, Withdraw(p) PROVE races \subseteq races'
  BY <1>18, WithdrawIs, Reservation
<1>19. ASSUME NEW p \in Claimants, Spawn(p) PROVE races \subseteq races'
  BY <1>19, SpawnIs, Reservation
<1>20. ASSUME NEW p \in Claimants, Attach(p) PROVE races \subseteq races'
  BY <1>20, AttachIs, Reservation
<1>21. ASSUME NEW p \in Claimants, Attached(p) PROVE races \subseteq races'
  BY <1>21, AttachedIs, Reservation
<1>22. ASSUME NEW p \in Claimants, Closed(p) PROVE races \subseteq races'
  BY <1>22, ClosedIs, Reservation
<1>23. ASSUME NEW c \in Claimants, ChildWrites(c) PROVE races \subseteq races'
  BY <1>23 DEF ChildWrites
<1>24. ASSUME NEW c \in Claimants, ChildExits(c) PROVE races \subseteq races'
  BY <1>24 DEF ChildExits, home
<1>25. CASE UNCHANGED vars
  BY <1>25 DEF vars, procs, home
<1> QED
  BY <1>1, <1>2, <1>3, <1>4, <1>5, <1>6, <1>7, <1>8, <1>9, <1>10,
     <1>11, <1>12, <1>13, <1>14, <1>15, <1>16, <1>17, <1>18, <1>19,
     <1>20, <1>21, <1>22, <1>23, <1>24, <1>25
     DEF Next, Step, ScanStep, StatusStep, ClearStep, FinalStep,
         ClaimStep, Procs

(* The lease of a claim, or of a sign-in that runs, is not unlinked while  *)
(* nothing has gone wrong but that a re-scan has missed a record.          *)
LEMMA ClaimStays ==
    ASSUME TypeOK, Roles, Lives, Purpose, races \subseteq {"missed"},
           NEW c \in Claimants, Claimed(c), NEW p \in Procs, Unlink(p)
    PROVE  at[p].lease.id # c
<1> SUFFICES ASSUME at[p].lease.id = c PROVE FALSE
  OBVIOUS
<1>1. at[p].pc = "unlink" /\ PurposeOf(p) /\ Clearing(p)
  BY UnlinkIs DEF Purpose, Clearing
<1>2. ~Over(c)
  BY LeaseAssumption DEF Over, Claimed, Lives, Unborn, Scanning
<1>3. at[p].clear \in {"withdraw", "cleanup"}
  BY <1>1, <1>2 DEF PurposeOf, TypeOK, Doing, Clears
<1>4. p = c
  BY <1>1, <1>3 DEF PurposeOf, Of
<1>5. Unborn(c)
  BY <1>1, <1>3, <1>4 DEF Unborn
<1> QED
  BY <1>1, <1>4, <1>5 DEF Lives, Claimed, Scanning

(* Every step keeps Held: the creation of a claim makes its record, and    *)
(* while nothing has gone wrong no step removes it.                        *)
LEMMA HeldStep ==
    ASSUME TypeOK, Roles, Lives, Purpose, Private, Held, [Next]_vars
    PROVE  Held'
<1> SUFFICES ASSUME races' \subseteq {"missed"}, NEW c \in Claimants,
                    Claimed(c)'
             PROVE  Holding(c)'
  BY DEF Held
<1>1. races \subseteq {"missed"}
  BY RacesGrow
<1>2. CASE Create(c) /\ at'[c].pc = "write"
  <2>1. dir' = [dir EXCEPT ![Fixed] = Of(c, "empty")]
    BY <1>2, CreateIs DEF Ends, Seeks
  <2>2. dir'[Fixed].id = c
    BY <2>1 DEF TypeOK, Names, Of
  <2> QED
    BY <2>2 DEF Holding, Names
<1>3. CASE Claimed(c)
  <2>1. PICK n \in Names : dir[n].id = c
    BY <1>1, <1>3 DEF Held, Holding
  <2>2. \A p \in Procs : Unlink(p) => at[p].lease.id # c
    BY <1>1, <1>3, ClaimStays
  <2>3. \/ dir'[n].id = c
        \/ \E m \in Names : dir'[m] = dir[n]
    BY <2>1, <2>2, RecordGoes
  <2> QED
    BY <2>1, <2>3 DEF Holding
<1> QED
  BY <1>2, <1>3, ClaimedBefore DEF ClaimsOn

(* How a claimant comes to look for others, or still does.                 *)
LooksOn(d) ==
    Looking(d)' => \/ List(d)
                   \/ Looking(d) /\ at'[d] = at[d]
                   \/ Looking(d) /\ Read(d) /\ at'[d].pc = "read"

(* A claimant looks for others from its listing on.                        *)
LEMMA LookingGoesOn ==
    ASSUME TypeOK, Roles, NEW d \in Claimants, [Next]_vars
    PROVE  LooksOn(d)
<1> USE DEF Looking, LooksOn, Local, KeepsAim, Keeps, Seeks, Ends,
            Turns, Raises, Resumes, home
<1>0. Claimants \subseteq Procs
  BY DEF Procs
<1> USE <1>0
<1>1. ASSUME NEW p \in Procs, Start(p) PROVE LooksOn(d)
  BY <1>1, StartIs
<1>2. ASSUME NEW p \in Procs, List(p) PROVE LooksOn(d)
  BY <1>2, ListIs
<1>3. ASSUME NEW p \in Procs, Read(p) PROVE LooksOn(d)
  BY <1>3, ReadIs
<1>4. ASSUME NEW p \in Procs, StatusPass(p) PROVE LooksOn(d)
  BY <1>4, StatusPassIs
<1>5. ASSUME NEW p \in Procs, Judge(p) PROVE LooksOn(d)
  BY <1>5, JudgeIs
<1>6. ASSUME NEW p \in Procs, NextPass(p) PROVE LooksOn(d)
  BY <1>6, NextPassIs
<1>7. ASSUME NEW p \in Procs, StatusEnds(p) PROVE LooksOn(d)
  BY <1>7, StatusEndsIs
<1>8. ASSUME NEW p \in Procs, Relocate(p) PROVE LooksOn(d)
  BY <1>8, RelocateIs
<1>9. ASSUME NEW p \in Procs, Inspect(p) PROVE LooksOn(d)
  BY <1>9, InspectIs DEF Roles
<1>10. ASSUME NEW p \in Procs, Unlink(p) PROVE LooksOn(d)
  BY <1>10, UnlinkIs DEF Roles
<1>11. ASSUME NEW p \in Procs, ClearFails(p) PROVE LooksOn(d)
  BY <1>11, ClearFailsIs
<1>12. ASSUME NEW p \in Procs, Candidate(p) PROVE LooksOn(d)
  BY <1>12, CandidateIs
<1>13. ASSUME NEW p \in Procs, Matched(p) PROVE LooksOn(d)
  BY <1>13, MatchedIs
<1>14. ASSUME NEW p \in Procs, Crash(p) PROVE LooksOn(d)
  BY <1>14, CrashIs
<1>15. ASSUME NEW p \in Claimants, Create(p) PROVE LooksOn(d)
  BY <1>15, CreateIs, Reservation
<1>16. ASSUME NEW p \in Claimants, Write(p) PROVE LooksOn(d)
  BY <1>16, WriteIs, Reservation
<1>17. ASSUME NEW p \in Claimants, Protect(p) PROVE LooksOn(d)
  BY <1>17, ProtectIs, Reservation
<1>18. ASSUME NEW p \in Claimants, Withdraw(p) PROVE LooksOn(d)
  BY <1>18, WithdrawIs, Reservation
<1>19. ASSUME NEW p \in Claimants, Spawn(p) PROVE LooksOn(d)
  BY <1>19, SpawnIs, Reservation
<1>20. ASSUME NEW p \in Claimants, Attach(p) PROVE LooksOn(d)
  BY <1>20, AttachIs, Reservation
<1>21. ASSUME NEW p \in Claimants, Attached(p) PROVE LooksOn(d)
  BY <1>21, AttachedIs, Reservation
<1>22. ASSUME NEW p \in Claimants, Closed(p) PROVE LooksOn(d)
  BY <1>22, ClosedIs, Reservation
<1>23. ASSUME NEW c \in Claimants, ChildWrites(c) PROVE LooksOn(d)
  BY <1>23 DEF ChildWrites
<1>24. ASSUME NEW c \in Claimants, ChildExits(c) PROVE LooksOn(d)
  BY <1>24 DEF ChildExits, home
<1>25. CASE UNCHANGED vars
  BY <1>25 DEF vars, procs, home
<1> QED
  BY <1>1, <1>2, <1>3, <1>4, <1>5, <1>6, <1>7, <1>8, <1>9, <1>10,
     <1>11, <1>12, <1>13, <1>14, <1>15, <1>16, <1>17, <1>18, <1>19,
     <1>20, <1>21, <1>22, <1>23, <1>24, <1>25
     DEF Next, Step, ScanStep, StatusStep, ClearStep, FinalStep,
         ClaimStep, Procs

(* A sign-in runs from Spawn on.                                           *)
LEMMA AliveBegins ==
    ASSUME TypeOK, Roles, NEW d \in Claimants, [Next]_vars
    PROVE  child'[d] = "alive" => child[d] = "alive" \/ Spawn(d)
<1> USE DEF TypeOK, Local, home
<1>0. Claimants \subseteq Procs
  BY DEF Procs
<1> USE <1>0
<1>1. ASSUME NEW p \in Procs, Start(p)
      PROVE  child'[d] = "alive" => child[d] = "alive" \/ Spawn(d)
  BY <1>1, StartIs
<1>2. ASSUME NEW p \in Procs, List(p)
      PROVE  child'[d] = "alive" => child[d] = "alive" \/ Spawn(d)
  BY <1>2, ListIs
<1>3. ASSUME NEW p \in Procs, Read(p)
      PROVE  child'[d] = "alive" => child[d] = "alive" \/ Spawn(d)
  BY <1>3, ReadIs
<1>4. ASSUME NEW p \in Procs, StatusPass(p)
      PROVE  child'[d] = "alive" => child[d] = "alive" \/ Spawn(d)
  BY <1>4, StatusPassIs
<1>5. ASSUME NEW p \in Procs, Judge(p)
      PROVE  child'[d] = "alive" => child[d] = "alive" \/ Spawn(d)
  BY <1>5, JudgeIs
<1>6. ASSUME NEW p \in Procs, NextPass(p)
      PROVE  child'[d] = "alive" => child[d] = "alive" \/ Spawn(d)
  BY <1>6, NextPassIs
<1>7. ASSUME NEW p \in Procs, StatusEnds(p)
      PROVE  child'[d] = "alive" => child[d] = "alive" \/ Spawn(d)
  BY <1>7, StatusEndsIs
<1>8. ASSUME NEW p \in Procs, Relocate(p)
      PROVE  child'[d] = "alive" => child[d] = "alive" \/ Spawn(d)
  BY <1>8, RelocateIs
<1>9. ASSUME NEW p \in Procs, Inspect(p)
      PROVE  child'[d] = "alive" => child[d] = "alive" \/ Spawn(d)
  BY <1>9, InspectIs
<1>10. ASSUME NEW p \in Procs, Unlink(p)
       PROVE  child'[d] = "alive" => child[d] = "alive" \/ Spawn(d)
  BY <1>10, UnlinkIs
<1>11. ASSUME NEW p \in Procs, ClearFails(p)
       PROVE  child'[d] = "alive" => child[d] = "alive" \/ Spawn(d)
  BY <1>11, ClearFailsIs
<1>12. ASSUME NEW p \in Procs, Candidate(p)
       PROVE  child'[d] = "alive" => child[d] = "alive" \/ Spawn(d)
  BY <1>12, CandidateIs
<1>13. ASSUME NEW p \in Procs, Matched(p)
       PROVE  child'[d] = "alive" => child[d] = "alive" \/ Spawn(d)
  BY <1>13, MatchedIs
<1>14. ASSUME NEW p \in Procs, Crash(p)
       PROVE  child'[d] = "alive" => child[d] = "alive" \/ Spawn(d)
  BY <1>14, CrashIs
<1>15. ASSUME NEW p \in Claimants, Create(p)
       PROVE  child'[d] = "alive" => child[d] = "alive" \/ Spawn(d)
  BY <1>15, CreateIs, Reservation
<1>16. ASSUME NEW p \in Claimants, Write(p)
       PROVE  child'[d] = "alive" => child[d] = "alive" \/ Spawn(d)
  BY <1>16, WriteIs, Reservation
<1>17. ASSUME NEW p \in Claimants, Protect(p)
       PROVE  child'[d] = "alive" => child[d] = "alive" \/ Spawn(d)
  BY <1>17, ProtectIs, Reservation
<1>18. ASSUME NEW p \in Claimants, Withdraw(p)
       PROVE  child'[d] = "alive" => child[d] = "alive" \/ Spawn(d)
  BY <1>18, WithdrawIs, Reservation
<1>19. ASSUME NEW p \in Claimants, Spawn(p)
       PROVE  child'[d] = "alive" => child[d] = "alive" \/ Spawn(d)
  BY <1>19, SpawnIs, Reservation
<1>20. ASSUME NEW p \in Claimants, Attach(p)
       PROVE  child'[d] = "alive" => child[d] = "alive" \/ Spawn(d)
  BY <1>20, AttachIs, Reservation
<1>21. ASSUME NEW p \in Claimants, Attached(p)
       PROVE  child'[d] = "alive" => child[d] = "alive" \/ Spawn(d)
  BY <1>21, AttachedIs, Reservation
<1>22. ASSUME NEW p \in Claimants, Closed(p)
       PROVE  child'[d] = "alive" => child[d] = "alive" \/ Spawn(d)
  BY <1>22, ClosedIs, Reservation
<1>23. ASSUME NEW c \in Claimants, ChildWrites(c)
       PROVE  child'[d] = "alive" => child[d] = "alive" \/ Spawn(d)
  BY <1>23 DEF ChildWrites
<1>24. ASSUME NEW c \in Claimants, ChildExits(c)
       PROVE  child'[d] = "alive" => child[d] = "alive" \/ Spawn(d)
  BY <1>24 DEF ChildExits, home
<1>25. CASE UNCHANGED vars
  BY <1>25 DEF vars, procs, home
<1> QED
  BY <1>1, <1>2, <1>3, <1>4, <1>5, <1>6, <1>7, <1>8, <1>9, <1>10,
     <1>11, <1>12, <1>13, <1>14, <1>15, <1>16, <1>17, <1>18, <1>19,
     <1>20, <1>21, <1>22, <1>23, <1>24, <1>25
     DEF Next, Step, ScanStep, StatusStep, ClearStep, FinalStep,
         ClaimStep, Procs

(* A claim, or a sign-in, that a claimant sees stays in its sight.         *)
LEMMA SeesStays ==
    ASSUME TypeOK, Roles, Lives, Purpose, Private, [Next]_vars,
           races' = {}, NEW c \in Claimants, NEW d \in Claimants, c # d,
           Looking(c), Looking(c)', Claimed(d), Sees(c, d)
    PROVE  Sees(c, d)'
<1>1. /\ dir \in [Names -> Record \cup {Absent}] /\ c \in Procs
      /\ at[c].names \subseteq Names /\ races = {}
  BY RacesGrow, Reservation DEF TypeOK, Doing
<1>2. \A p \in Procs : Unlink(p) => at[p].lease.id # d
  BY <1>1, ClaimStays
<1>3. \/ at'[c] = at[c]
      \/ Read(c) /\ at'[c].pc = "read"
  BY LookingGoesOn, ListIs, <1>1 DEF LooksOn, Looking
<1>4. CASE at'[c] = at[c]
  <2>1. CASE \E r \in at[c].recs : r[2].id = d
    BY <1>4, <2>1 DEF Sees
  <2>2. ASSUME NEW n \in at[c].names, dir[n].id = d PROVE Sees(c, d)'
    <3>1. d # None /\ n \in Names
      BY <1>1, LeaseAssumption
    <3>2. \/ dir'[n].id = d
          \/ Unread(n) => "missed" \in races'
      BY <1>2, <2>2, <3>1, RecordGoes
    <3>3. Unread(n)
      BY <2>2 DEF Unread
    <3>4. dir'[n].id = d
      BY <3>2, <3>3
    <3> QED
      BY <1>4, <3>4 DEF Sees
  <2> QED
    BY <2>1, <2>2 DEF Sees
<1>5. CASE Read(c) /\ at'[c].pc = "read"
  <2>1. ~Raises(c)
    BY <1>5 DEF Raises, Turns, Ends, Keeps, KeepsAim, Looking
  <2>2. UNCHANGED dir
    BY <1>1, <1>5, ReadIs DEF home
  <2>3. PICK n \in at[c].names :
            /\ at'[c].names = at[c].names \ {n}
            /\ \/ dir[n] = Absent /\ at'[c].recs = at[c].recs
               \/ at'[c].recs = at[c].recs \cup {<<n, dir[n]>>}
    BY <1>1, <1>5, <2>1, ReadIs
  <2>4. CASE \E r \in at[c].recs : r[2].id = d
    BY <2>3, <2>4 DEF Sees
  <2>5. CASE dir[n].id = d
    <3>1. dir[n] # Absent
      BY <2>5, LeaseAssumption DEF Absent
    <3>2. <<n, dir[n]>> \in at'[c].recs /\ <<n, dir[n]>>[2].id = d
      BY <2>3, <2>5, <3>1
    <3> QED
      BY <3>2 DEF Sees
  <2>6. CASE \E m \in at[c].names \ {n} : dir[m].id = d
    BY <2>2, <2>3, <2>6 DEF Sees
  <2> QED
    BY <2>4, <2>5, <2>6 DEF Sees
<1> QED
  BY <1>3, <1>4, <1>5

(* A claimant that begins to look sees whoever has a record.               *)
LEMMA SeesAll ==
    ASSUME TypeOK, NEW c \in Claimants, List(c),
           NEW d \in Claimants, Holding(d)
    PROVE  Sees(c, d)'
<1>1. PICK n \in Names : dir[n].id = d
  BY DEF Holding
<1>2. dir[n] # Absent
  BY <1>1, LeaseAssumption DEF Absent
<1>3. n \in at'[c].names /\ UNCHANGED dir
  BY <1>2, ListIs, Reservation DEF home
<1> QED
  BY <1>1, <1>3 DEF Sees

(* A sign-in begins when its claimant has seen no other.                   *)
LEMMA SpawnAlone ==
    ASSUME TypeOK, NEW d \in Claimants, Spawn(d)
    PROVE  /\ Looking(d) /\ \A c \in Claimants \ {d} : ~Sees(d, c)
           /\ \A c \in Claimants \ {d} : child'[c] = child[c] /\ at'[c] = at[c]
<1>1. /\ d \in Procs /\ Claimants \subseteq Procs
      /\ child \in [Claimants -> {"none", "alive", "dead"}]
  BY DEF Procs, TypeOK
<1> QED
  BY <1>1, SpawnIs DEF Looking, Sees, Local

(* Every step keeps Paired: who begins to look sees all records there are; *)
(* a record seen stays in sight, because it is not moved out of it; and    *)
(* who begins a sign-in has looked and seen nobody, so that others see     *)
(* him.                                                                    *)
LEMMA PairedStep ==
    ASSUME TypeOK, Roles, Lives, Purpose, Private, Held, Paired,
           [Next]_vars
    PROVE  Paired'
<1> SUFFICES ASSUME races' = {}, NEW c \in Claimants, NEW d \in Claimants,
                    c # d
             PROVE  /\ ~(child[c] = "alive" /\ child[d] = "alive")'
                    /\ (Looking(c) /\ child[d] = "alive" => Sees(c, d))'
                    /\ (Looking(c) /\ Looking(d) => Sees(c, d) \/ Sees(d, c))'
  BY DEF Paired
<1>1. races = {}
  BY RacesGrow
<1>2. \A i \in Claimants : child[i] = "alive" \/ Looking(i) =>
          Claimed(i) /\ Holding(i)
  BY <1>1 DEF Held, Claimed, Looking, Scanning
<1>3. \A i \in Claimants : child'[i] = "alive" =>
          child[i] = "alive" \/ Spawn(i)
  BY AliveBegins
<1>4. ASSUME NEW i \in Claimants, Looking(i)' PROVE Looking(i) \/ List(i)
  BY <1>4, LookingGoesOn DEF LooksOn
<1>5. \A i, j \in Claimants : List(i) /\ i # j =>
          /\ child'[j] = child[j] /\ at'[j] = at[j]
          /\ child[j] = "alive" \/ Looking(j) => Sees(i, j)'
  BY <1>2, ListIs, SeesAll DEF Local, Procs
<1>6. \A i, j \in Claimants : i # j /\ Looking(i) /\ Looking(i)'
          /\ (child[j] = "alive" \/ Looking(j)) /\ Sees(i, j) => Sees(i, j)'
  BY <1>2, SeesStays
<1>7. ~(child'[c] = "alive" /\ child'[d] = "alive")
  BY <1>1, <1>3, SpawnAlone DEF Paired
<1>8. Looking(c)' /\ child'[d] = "alive" => Sees(c, d)'
  <2> SUFFICES ASSUME Looking(c)', child'[d] = "alive" PROVE Sees(c, d)'
    OBVIOUS
  <2>1. CASE List(c)
    BY <1>5, <2>1
  <2>2. CASE Looking(c)
    <3>1. Sees(c, d) /\ (child[d] = "alive" \/ Looking(d))
      BY <1>1, <1>3, <2>2, SpawnAlone DEF Paired
    <3> QED
      BY <1>6, <2>2, <3>1
  <2> QED
    BY <1>4, <2>1, <2>2
<1>9. Looking(c)' /\ Looking(d)' => Sees(c, d)' \/ Sees(d, c)'
  <2> SUFFICES ASSUME Looking(c)', Looking(d)'
               PROVE  Sees(c, d)' \/ Sees(d, c)'
    OBVIOUS
  <2>1. CASE List(c)
    BY <1>5, <2>1 DEF Looking
  <2>2. CASE List(d)
    BY <1>5, <2>2 DEF Looking
  <2>3. CASE Looking(c) /\ Looking(d)
    BY <1>1, <1>6, <2>3 DEF Paired
  <2> QED
    BY <1>4, <2>1, <2>2, <2>3
<1> QED
  BY <1>7, <1>8, <1>9

(***************************************************************************)
(* The invariant, and what follows                                         *)
(***************************************************************************)
Stands == /\ TypeOK /\ Roles /\ Written /\ Lives /\ Started /\ Purpose
          /\ Private

(* Nothing has happened yet.                                               *)
LEMMA InitStands == Init => Stands /\ Held /\ Paired
<1> SUFFICES ASSUME Init PROVE Stands /\ Held /\ Paired
  OBVIOUS
<1>1. /\ at = [p \in Procs |-> Idle] /\ Claimants \subseteq Procs
      /\ Pollers \subseteq Procs
      /\ \A p \in Procs : /\ at[p] \in Doing /\ at[p].pc = "idle"
                          /\ at[p].scan = "status" /\ at[p].clear = "status"
                          /\ at[p].recs = {} /\ at[p].todo = {}
  BY IdleIs DEF Init, Procs, Idle
<1>2. TypeOK
  <2>1. bounds \in Setting /\ bounds.crew \subseteq Procs
    BY LeaseAssumption DEF Init, Setting, Procs
  <2>2. dir \in [Names -> Record \cup {Absent}]
    BY DEF Init, Of, Record, Leases
  <2> QED
    BY <1>1, <2>1, <2>2 DEF Init, TypeOK
<1>3. Roles
  BY <1>1 DEF Roles
<1>4. Written
  BY DEF Init, Written
<1>5. Lives
  BY <1>1 DEF Init, Lives, Born, Scanning
<1>6. Started
  <2>1. \A n \in Names : Began(dir[n])
    BY LeaseAssumption DEF Init, Began, Of, Absent
  <2> QED
    BY <1>1, <2>1 DEF Started
<1>7. Purpose /\ Private
  BY <1>1 DEF Purpose, PurposeOf, Private, Clearing, Scanning
<1>8. Held /\ Paired
  BY <1>1 DEF Init, Held, Paired, Claimed, Looking, Scanning
<1> QED
  BY <1>2, <1>3, <1>4, <1>5, <1>6, <1>7, <1>8 DEF Stands

(* The conjuncts of the invariant carry each other.                        *)
LEMMA StandsStep == Stands /\ [Next]_vars => Stands'
<1> SUFFICES ASSUME Stands, [Next]_vars PROVE Stands'
  OBVIOUS
<1>1. Typed
  BY DEF Stands, TypeOK, Typed, RestOK
<1>2. Typed' => TypeOK'
  BY DEF TypeOK, Typed, RestOK
<1> QED
  BY <1>1, <1>2, TypedStep, RolesStep, WrittenStep, LivesStep, StartedStep,
     PurposeStep, PrivateStep DEF Stands

(* The inductive invariant of the login lease, for every number of         *)
(* claimants, pollers, moves, crashes and writes.                          *)
THEOREM Standing == Spec => []Stands
<1>1. Init => Stands
  BY InitStands
<1> QED
  BY <1>1, StandsStep, PTL DEF Spec

(* The records in the home, and what processes remember of them, are what  *)
(* createChatGPTLoginLease and attachChatGPTLoginLease write.              *)
THEOREM TypeCorrect == Spec => []TypeOK
<1>1. Stands => TypeOK
  BY DEF Stands
<1> QED
  BY <1>1, Standing, PTL

(* From the creation of its record on, through the re-scan and the sign-   *)
(* in, a claim has a record in the home (createChatGPTLoginLease,          *)
(* attachChatGPTLoginLease, clearChatGPTLoginLease) - unless a race has    *)
(* taken it.                                                               *)
THEOREM LeaseHeld == Spec => []Held
<1>1. Init => Held
  BY InitStands
<1>2. Stands /\ Held /\ [Next]_vars => Held'
  BY HeldStep DEF Stands
<1> QED
  BY <1>1, <1>2, Standing, PTL DEF Spec

(* While a sign-in runs, a record somewhere in the home says so: no stale  *)
(* clearer, withdrawal or crash of any number of processes takes it        *)
(* (clearChatGPTLoginLease, attachChatGPTLoginLease) - unless a race has.  *)
THEOREM SignInFenced == Spec => []Fenced
<1>1. Held => Fenced
  BY DEF Held, Fenced, Writers, Claimed
<1> QED
  BY <1>1, LeaseHeld, PTL

(* The lease of a sign-in that has written auth.json is removed by who     *)
(* means this lease and has the account-pool lock, to finalize or discard  *)
(* it (chatGPTLoginLeaseStatus, finalizeChatGPTProfileLogin,               *)
(* discardCompletedChatGPTProfileLogin) - or by an attachment that         *)
(* replaces it.                                                            *)
THEOREM EvidenceStays == Spec => EvidenceKept
<1> DEFINE Kept(c) == Holding(c) /\ ~Holding(c)' /\ "replaced" \notin races'
                      => /\ lock # None /\ at[lock].pc = "unlink"
                         /\ at[lock].clear = "finish" /\ at[lock].lease.id = c
<1>1. ASSUME Stands, [Next]_vars, NEW c \in wrote PROVE Kept(c)
  <2> SUFFICES ASSUME Holding(c), ~Holding(c)', "replaced" \notin races'
               PROVE  /\ lock # None /\ at[lock].pc = "unlink"
                      /\ at[lock].clear = "finish" /\ at[lock].lease.id = c
    OBVIOUS
  <2>1. c \in Claimants /\ child[c] # "none"
    BY <1>1 DEF Stands, Written, TypeOK
  <2>2. PICK n \in Names : dir[n].id = c
    BY DEF Holding
  <2>3. \/ \E m \in Names : dir'[m] = dir[n]
        \/ dir'[n].id = c
        \/ \E p \in Procs : Unlink(p) /\ at[p].lease.id = c
    BY <1>1, <2>1, <2>2, RecordGoes DEF Stands
  <2>4. PICK p \in Procs : Unlink(p) /\ at[p].lease.id = c
    BY <2>2, <2>3 DEF Holding
  <2>5. at[p].pc = "unlink" /\ at[p].clear \in Clears /\ PurposeOf(p)
    BY <1>1, <2>4, UnlinkIs DEF Stands, TypeOK, Doing, Purpose
  <2>6. CASE at[p].clear \in {"withdraw", "cleanup"}
    <3>1. p = c
      BY <2>4, <2>5, <2>6 DEF PurposeOf, Clearing, Of
    <3> QED
      BY <1>1, <2>1, <2>5, <2>6, <3>1 DEF Stands, Lives, Unborn, Clearing
  <2>7. CASE at[p].clear = "status"
    BY <1>1, <2>4, <2>5, <2>7 DEF PurposeOf, Clearing
  <2>8. CASE at[p].clear = "finish"
    BY <2>4, <2>5, <2>8, LeaseAssumption DEF PurposeOf, Clearing, Procs
  <2> QED
    BY <2>5, <2>6, <2>7, <2>8 DEF Clears
<1>2. Stands /\ [Next]_vars => [\A c \in wrote : Kept(c)]_vars
  BY <1>1
<1> QED
  BY <1>2, Standing, PTL DEF Spec, EvidenceKept

(* Of two claims that look for others one sees the other, and one that     *)
(* looks sees a sign-in that runs (createChatGPTLoginLease, leaseRecords)  *)
(* - unless a race has removed a record or has hidden one.                 *)
THEOREM PairSeen == Spec => []Paired
<1>1. Init => Paired
  BY InitStands
<1>2. UNCHANGED vars /\ Paired => Paired'
  BY DEF vars, procs, home, Paired, Looking, Sees
<1>3. Stands /\ Held /\ Paired /\ [Next]_vars => Paired'
  BY <1>2, PairedStep DEF Stands
<1> QED
  BY <1>1, <1>3, Standing, LeaseHeld, PTL DEF Spec

(* Two sign-ins never run for one account, so no two processes write its   *)
(* auth.json (createChatGPTLoginLease), however many processes claim, die  *)
(* and clear what others have left - unless a race has removed a lease it  *)
(* was not about, or has moved a record from under a re-scan.              *)
THEOREM SingleWriter == Spec => []OneWriter
<1>1. Paired => OneWriter
  <2> SUFFICES ASSUME Paired, races = {} PROVE Cardinality(Writers) <= 1
    BY DEF OneWriter
  <2>1. CASE Writers = {}
    BY <2>1, FS_EmptySet
  <2>2. ASSUME NEW c \in Writers PROVE Cardinality(Writers) = 1
    <3>1. Writers = {c}
      BY <2>2 DEF Paired, Writers
    <3> QED
      BY <3>1, FS_Singleton
  <2> QED
    BY <2>1, <2>2
<1> QED
  BY <1>1, PairSeen, PTL

=============================================================================
