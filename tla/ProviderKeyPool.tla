-------------------------- MODULE ProviderKeyPool --------------------------
(***************************************************************************)
(* The API-key pool of one provider: a JSON state file that every request  *)
(* of the router, and every operator command of any process, reads and     *)
(* rewrites under one file lock (src/provider-api-key-pool.mjs).           *)
(*                                                                         *)
(* A request makes up to Attempts attempts: select a key under the lock,   *)
(* send with it, record the outcome under the lock, and rotate only on a   *)
(* failure nothing of which reached the caller.  The lock is held from the *)
(* read of the file to its rewrite, with suspension points (credential     *)
(* resolution, the asynchronous write) in between: reading and writing are *)
(* two steps here.                                                         *)
(***************************************************************************)
EXTENDS Naturals, FiniteSets, Sequences, SequencesExt

CONSTANTS
    Keys,            \* credential ids, in priority order (orderMeta)
    Requests,        \* concurrent calls of runProviderApiKeyAttempts
    Sessions,        \* Codex threads
    SessionOf,       \* the thread each request belongs to
    Strategy,        \* "quota", "round-robin" or "fill-first"
    StickyLimit,     \* turns a thread stays on its key
    MaxSessions,     \* bindings the file may hold
    Attempts,        \* DEFAULT_ATTEMPT_LIMIT
    Threshold,       \* autoSwitchThreshold, in units of remaining quota
    Responses,       \* what a send may come back with, among AllResponses
    Operations,      \* what operators do while the requests run
    Window,          \* ticks until an observed quota window resets
    MaxTime,         \* bound: clock ticks
    MaxCommands,     \* bound: operator commands
    MaxFaults        \* bound: failed writes and lock timeouts

KeySet == Range(Keys)

(* What a send comes back with: "limited" 429 with Retry-After, "edge" a   *)
(* retryable 5xx, "lost" a transport error (no status, so no cooldown),    *)
(* "refused" a failure another key would not cure, or one that came after  *)
(* the response began.  rem is the remaining quota its headers report.     *)
Kinds     == {"ok", "limited", "edge", "lost", "refused"}
NoneSeen  == 99              \* a response without a complete header set
Remaining == 0..3 \cup {NoneSeen}

AllResponses == [kind : Kinds, rem : Remaining]

ASSUME PoolAssumption ==
    /\ Keys \in Seq(KeySet) /\ IsInjective(Keys) /\ "no key" \notin KeySet
    /\ Requests \cap {"operator", "nobody"} = {}
    /\ SessionOf \in [Requests -> Sessions]
    /\ Strategy \in {"quota", "round-robin", "fill-first"}
    /\ StickyLimit \in Nat \ {0} /\ MaxSessions \in Nat \ {0}
    /\ Attempts \in Nat \ {0} /\ Threshold \in Nat
    /\ Responses \subseteq AllResponses /\ Window \in Nat
    /\ Operations \subseteq {"add", "pause", "resume", "remove"}
    /\ MaxTime \in Nat /\ MaxCommands \in Nat /\ MaxFaults \in Nat

VARIABLES
    file,        \* provider-api-key-pool.json
    lock,        \* its holder: a request, Operator or Nobody
    mem,         \* the state each process or request has read, or Unread
    now,         \* wall clock
    pc,          \* next step of each request
    at,          \* the time each request passed to its current call
    sent,        \* keys each request has sent with, in order
    out,         \* what its last send came back with
    reason,      \* how it ended
    command,     \* the operator command that holds the lock
    commands,    \* how many there have been
    faults

request == <<pc, at, sent, out, reason>>
operator == <<command, commands>>
vars    == <<file, lock, mem, now, request, operator, faults>>

Operator  == "operator"
Nobody    == "nobody"
Actors    == Requests \cup {Operator}
NoKey     == "no key"
Fresh     == [cooling |-> FALSE, until |-> 0, at |-> 0, seen |-> FALSE]
NoQuota   == [rem |-> 0, reset |-> 0, at |-> 0, seen |-> FALSE]
Unbound   == [key |-> NoKey, turns |-> 0, at |-> 0]
NoCommand == [op |-> "none", key |-> NoKey]
NoOutcome == [n |-> 0]
Unread    == [log |-> {}]

Retryable(kind) == kind \in {"limited", "edge", "lost"}

CooldownOf(kind) == CASE kind = "limited" -> 2
                      [] kind = "edge"    -> 1
                      [] OTHER            -> 0

Outcome == [req : Requests, n : 1..Attempts, key : KeySet, kind : Kinds,
            at : 0..MaxTime, rem : Remaining]

(* log is the file's requestCount and health history as a ghost: the set   *)
(* of outcomes the file accounts for.                                      *)
Pool == [keys     : SUBSET KeySet,
         paused   : SUBSET KeySet,
         health   : [KeySet -> [cooling : BOOLEAN, until : Nat, at : Nat,
                                seen : BOOLEAN]],
         quota    : [KeySet -> [rem : Remaining, reset : Nat, at : Nat,
                                seen : BOOLEAN]],
         cursor   : Nat,
         sessions : [Sessions -> [key : KeySet \cup {NoKey}, turns : Nat,
                                  at : Nat]],
         log      : SUBSET Outcome]

Labels == {"idle", "select", "selecting", "send", "record", "recording",
           "backoff", "done"}

Commands == [op : Operations, key : KeySet]

TypeOK ==
    /\ file \in Pool /\ mem \in [Actors -> Pool \cup {Unread}]
    /\ lock \in Actors \cup {Nobody}
    /\ now \in 0..MaxTime /\ faults \in 0..MaxFaults
    /\ pc \in [Requests -> Labels] /\ at \in [Requests -> 0..MaxTime]
    /\ sent \in [Requests -> Seq(KeySet)]
    /\ out \in [Requests -> Outcome \cup {NoOutcome}]
    /\ reason \in [Requests -> {"", "success", "failed", "no candidate",
                                "exhausted", "not persisted", "threw"}]
    /\ command \in Commands \cup {NoCommand} /\ commands \in 0..MaxCommands

Init ==
    /\ \E ks \in SUBSET KeySet \ {{}} :
          file = [keys |-> ks, paused |-> {},
                  health |-> [k \in KeySet |-> Fresh],
                  quota |-> [k \in KeySet |-> NoQuota],
                  cursor |-> 0,
                  sessions |-> [s \in Sessions |-> Unbound],
                  log |-> {}]
    /\ mem = [a \in Actors |-> Unread]
    /\ lock = Nobody
    /\ now = 0
    /\ pc = [r \in Requests |-> "idle"]
    /\ at = [r \in Requests |-> 0]
    /\ sent = [r \in Requests |-> <<>>]
    /\ out = [r \in Requests |-> NoOutcome]
    /\ reason = [r \in Requests |-> ""]
    /\ command = NoCommand /\ commands = 0
    /\ faults = 0

(***************************************************************************)
(* Reading the file                                                        *)
(***************************************************************************)

(* normalizeHealth: a cooldown that is over is read back as healthy.       *)
Normal(p, t) ==
    [p EXCEPT !.health = [k \in KeySet |->
        IF p.health[k].until <= t
          THEN [p.health[k] EXCEPT !.cooling = FALSE, !.until = 0]
          ELSE p.health[k]]]

Known(p, k, t) == p.quota[k].seen /\ p.quota[k].reset > t

Eligible(p, t) ==
    {k \in p.keys : /\ k \notin p.paused
                    /\ p.health[k].until <= t
                    /\ ~(Known(p, k, t) /\ p.quota[k].rem = 0)}

(* orderMeta: the key of S that n others of S come before. *)
Place(k)     == CHOOSE i \in DOMAIN Keys : Keys[i] = k
Before(S, k) == {j \in S : Place(j) < Place(k)}
Nth(S, n)    == CHOOSE k \in S : Cardinality(Before(S, k)) = n

(* chooseMeta *)
Roomier(p, j, k, t) ==
    \/ Known(p, j, t) /\ ~Known(p, k, t)
    \/ Known(p, j, t) /\ Known(p, k, t) /\ p.quota[j].rem > p.quota[k].rem

Choose(p, candidates, t) ==
    LET roomy == {k \in candidates : Known(p, k, t) => p.quota[k].rem > Threshold}
        rest  == IF roomy # {} THEN roomy ELSE candidates
        best  == {k \in rest : \A j \in rest : ~Roomier(p, j, k, t)}
    IN  CASE Strategy = "round-robin" ->
                Nth(candidates, p.cursor % Cardinality(candidates))
          [] Strategy = "fill-first"  -> Nth(rest, 0)
          [] Strategy = "quota"       -> Nth(best, 0)

(* Mutants: a thread leaves its key one turn early; it stays on a key that *)
(* may not be used.                                                        *)
CanStayShorter(p, s, candidates) ==
    /\ p.sessions[s].key \in candidates
    /\ p.sessions[s].turns + 1 < StickyLimit
CanStayAnywhere(p, s, candidates) ==
    /\ p.sessions[s].key \in p.keys
    /\ p.sessions[s].turns < StickyLimit

(* sessionCanStay                                                          *)
CanStay(p, s, candidates) ==
    /\ p.sessions[s].key \in candidates
    /\ p.sessions[s].turns < StickyLimit

(***************************************************************************)
(* Rewriting the file                                                      *)
(***************************************************************************)
BoundSessions(p) == {s \in Sessions : p.sessions[s].key # NoKey}

(* Mutant: the most recently updated binding makes room.                   *)
WithRoomForByNewest(s, p) ==
    LET bound == BoundSessions(p)
        newest == CHOOSE u \in bound : \A v \in bound :
                      p.sessions[v].at <= p.sessions[u].at
    IN  IF s \in bound \/ Cardinality(bound) < MaxSessions THEN p
        ELSE [p EXCEPT !.sessions[newest] = Unbound]

(* makeRoomForSession: the least recently updated bindings make room.      *)
WithRoomFor(s, p) ==
    LET bound  == BoundSessions(p)
        older(u) == {v \in bound : p.sessions[v].at < p.sessions[u].at}
        excess == Cardinality(bound) - (MaxSessions - 1)
        victims == CHOOSE vs \in SUBSET bound :
                      /\ Cardinality(vs) = excess
                      /\ \A v \in vs : older(v) \subseteq vs
    IN  IF s \in bound \/ excess <= 0 THEN p
        ELSE [p EXCEPT !.sessions = [u \in Sessions |->
                 IF u \in victims THEN Unbound ELSE p.sessions[u]]]

(* The committed half of selectFromState: cursor and session binding.      *)
Selected(p, s, k, byPolicy, candidates, t) ==
    LET old     == p.sessions[s]
        rebound == old.key # NoKey /\ old.key # k
        room    == WithRoomFor(s, p)
    IN  [room EXCEPT
           !.cursor = IF byPolicy /\ Strategy = "round-robin"
                        THEN (@ + 1) % Cardinality(candidates) ELSE @,
           !.sessions[s] = [key |-> k, at |-> t,
                            turns |-> IF rebound THEN 1 ELSE old.turns + 1]]

(* Mutant: lock order decides.                                             *)
QuotaAdvancesAlways(q, o) == TRUE

(* quotaObservationAdvances                                                *)
QuotaAdvances(q, o) ==
    ~q.seen \/ o.at > q.at \/ (o.at = q.at /\ o.rem < q.rem)

(* Mutants: lock order decides, or it does within one instant.             *)
HealthAdvancesAlways(h, o) == TRUE
HealthAdvancesOnTies(h, o) == ~h.seen \/ o.at >= h.at

(* healthObservationAdvances                                               *)
HealthAdvances(h, o) ==
    ~h.seen \/ o.at > h.at \/ (o.at = h.at /\ o.kind # "ok" /\ ~h.cooling)

QuotaAfter(q, o) ==
    IF o.rem # NoneSeen /\ QuotaAdvances(q, o)
      THEN [rem |-> o.rem, reset |-> o.at + Window, at |-> o.at, seen |-> TRUE]
      ELSE q

HealthAfter(h, o) ==
    IF HealthAdvances(h, o)
      THEN CASE o.kind = "ok" -> [Fresh EXCEPT !.at = o.at, !.seen = TRUE]
             [] CooldownOf(o.kind) > 0 ->
                   [cooling |-> TRUE, until |-> o.at + CooldownOf(o.kind),
                    at |-> o.at, seen |-> TRUE]
             [] OTHER -> [h EXCEPT !.at = o.at, !.seen = TRUE]
      ELSE h

(* recordProviderApiKeyOutcome on the state it has read.                   *)
Recorded(p, o) ==
    IF o.key \notin p.keys THEN p
    ELSE [p EXCEPT !.quota[o.key] = QuotaAfter(@, o),
                   !.health[o.key] = HealthAfter(@, o),
                   !.log = @ \cup {o}]

(***************************************************************************)
(* runProviderApiKeyAttempts                                               *)
(***************************************************************************)
(* Mutant: the file is read without the lock.                              *)
LockedByNobody(a, t) ==
    /\ lock' = a /\ mem' = [mem EXCEPT ![a] = Normal(file, t)]
    /\ UNCHANGED <<file, faults>>

Locked(a, t) ==
    /\ lock = Nobody
    /\ lock' = a /\ mem' = [mem EXCEPT ![a] = Normal(file, t)]
    /\ UNCHANGED <<file, faults>>

Unlocked(a, p) ==
    /\ lock' = Nobody
    /\ \/ file' = p /\ UNCHANGED faults
       \/ file' = file /\ faults < MaxFaults /\ faults' = faults + 1
    /\ mem' = [mem EXCEPT ![a] = Unread]

Written == faults' = faults

Ends(r, why) ==
    /\ pc' = [pc EXCEPT ![r] = "done"]
    /\ reason' = [reason EXCEPT ![r] = why]

Moves(r, label) == pc' = [pc EXCEPT ![r] = label] /\ UNCHANGED reason

Start(r) ==
    /\ pc[r] \in {"idle", "backoff"}
    /\ Moves(r, "select")
    /\ at' = [at EXCEPT ![r] = now]
    /\ UNCHANGED <<file, lock, mem, now, sent, out, operator, faults>>

SelectRead(r) ==
    /\ pc[r] = "select"
    /\ Locked(r, at[r])
    /\ Moves(r, "selecting")
    /\ UNCHANGED <<now, at, sent, out, operator>>

(* Mutant: keys this call has already tried are not excluded.              *)
CandidatesWithTried(r) == Eligible(mem[r], at[r])

Candidates(r) == Eligible(mem[r], at[r]) \ Range(sent[r])

SelectWrite(r) ==
    LET s == SessionOf[r]
        candidates == Candidates(r)
        stays == CanStay(mem[r], s, candidates)
        key == IF stays THEN mem[r].sessions[s].key
                        ELSE Choose(mem[r], candidates, at[r])
    IN  /\ pc[r] = "selecting"
        /\ IF candidates = {}
             THEN /\ Unlocked(r, mem[r])
                  /\ Ends(r, IF Written THEN "no candidate" ELSE "threw")
                  /\ UNCHANGED sent
             ELSE /\ Unlocked(r, Selected(mem[r], s, key, ~stays,
                                          candidates, at[r]))
                  /\ IF Written
                       THEN /\ Moves(r, "send")
                            /\ sent' = [sent EXCEPT ![r] = Append(@, key)]
                       ELSE Ends(r, "threw") /\ UNCHANGED sent
        /\ at' = [at EXCEPT ![r] = 0]
        /\ UNCHANGED <<now, out, operator>>

(* The send awaits the provider; its outcome carries the time it is seen,  *)
(* before the lock that records it is taken.                               *)
Send(r) ==
    /\ pc[r] = "send"
    /\ \E response \in Responses :
          out' = [out EXCEPT ![r] =
                    [req |-> r, n |-> Len(sent[r]), key |-> Last(sent[r]),
                     kind |-> response.kind, rem |-> response.rem,
                     at |-> now]]
    /\ Moves(r, "record")
    /\ UNCHANGED <<file, lock, mem, now, at, sent, operator, faults>>

RecordRead(r) ==
    /\ pc[r] = "record"
    /\ Locked(r, now)
    /\ Moves(r, "recording")
    /\ UNCHANGED <<now, at, sent, out, operator>>

(* Mutants: a reason nobody knows; a rotation whose cause is not on disk.  *)
NotPersistedUnnamed(r) == Ends(r, "persistence")
NotPersistedRotates(r) == Moves(r, "backoff")

(* A failed attempt may not rotate until its cooldown is on disk.          *)
NotPersisted(r) ==
    Ends(r, IF out[r].kind = "ok" THEN "success" ELSE "not persisted")

RecordWrite(r) ==
    /\ pc[r] = "recording"
    /\ Unlocked(r, Recorded(mem[r], out[r]))
    /\ \/ ~Written /\ NotPersisted(r)
       \/ /\ Written /\ ~Retryable(out[r].kind)
          /\ Ends(r, IF out[r].kind = "ok" THEN "success" ELSE "failed")
       \/ /\ Written /\ Retryable(out[r].kind)   \* limit or budget spent
          /\ Ends(r, "exhausted")
       \/ /\ Written /\ Retryable(out[r].kind)
          /\ Len(sent[r]) < Attempts
          /\ Moves(r, "backoff")
    /\ out' = [out EXCEPT ![r] = NoOutcome]
    /\ UNCHANGED <<now, at, sent, operator>>

(* ELOCKED after waitMs.                                                   *)
LockTimeout(r) ==
    /\ lock \notin {Nobody, r} /\ faults < MaxFaults
    /\ faults' = faults + 1
    /\ \/ pc[r] = "select" /\ Ends(r, "threw")
       \/ pc[r] = "record" /\ NotPersisted(r)
    /\ UNCHANGED <<file, lock, mem, now, at, sent, out, operator>>

(***************************************************************************)
(* Operator commands, from any process                                     *)
(***************************************************************************)
Valid(p, c) == (c.op = "add") # (c.key \in p.keys)

(* Mutant: removing a key leaves the threads bound to it.                  *)
AppliedKeepingBindings(p, c) ==
    CASE c.op = "add"    -> [p EXCEPT !.keys = @ \cup {c.key}]
      [] c.op = "pause"  -> [p EXCEPT !.paused = @ \cup {c.key}]
      [] c.op = "resume" -> [p EXCEPT !.paused = @ \ {c.key}]
      [] c.op = "remove" -> [p EXCEPT !.keys = @ \ {c.key},
                                      !.paused = @ \ {c.key}]

Applied(p, c) ==
    CASE c.op = "add"    -> [p EXCEPT !.keys = @ \cup {c.key}]
      [] c.op = "pause"  -> [p EXCEPT !.paused = @ \cup {c.key}]
      [] c.op = "resume" -> [p EXCEPT !.paused = @ \ {c.key}]
      [] c.op = "remove" ->
            [p EXCEPT !.keys = @ \ {c.key}, !.paused = @ \ {c.key},
                      !.sessions = [s \in Sessions |->
                          IF p.sessions[s].key = c.key THEN Unbound
                                                       ELSE p.sessions[s]]]

(* Bound: a credential a request has used is not registered a second time. *)
CommandRead(c) ==
    /\ Valid(file, c)
    /\ c.op = "add" => \A r \in Requests : c.key \notin Range(sent[r])
    /\ Locked(Operator, now)
    /\ commands < MaxCommands /\ commands' = commands + 1
    /\ command' = c
    /\ UNCHANGED <<now, request>>

CommandWrite ==
    /\ lock = Operator
    /\ Unlocked(Operator, Applied(mem[Operator], command))
    /\ command' = NoCommand
    /\ UNCHANGED <<now, request, commands>>

Tick ==
    /\ now < MaxTime
    /\ now' = now + 1
    /\ UNCHANGED <<file, lock, mem, request, operator, faults>>

RequestStep(r) ==
    \/ Start(r) \/ SelectRead(r) \/ SelectWrite(r) \/ Send(r)
    \/ RecordRead(r) \/ RecordWrite(r) \/ LockTimeout(r)

Terminating == (\A r \in Requests : pc[r] = "done") /\ UNCHANGED vars

Next ==
    \/ \E r \in Requests : RequestStep(r)
    \/ \E c \in Commands : CommandRead(c)
    \/ CommandWrite
    \/ Tick
    \/ Terminating

Spec == Init /\ [][Next]_vars

(***************************************************************************)
(* Properties                                                              *)
(***************************************************************************)

(* One call never spends a key twice and never spends more than Attempts   *)
(* of them: the exclusion list survives every other writer of the file     *)
(* (runProviderApiKeyAttempts, `attempted`).                               *)
AttemptsDistinct ==
    \A r \in Requests : /\ Len(sent[r]) <= Attempts
                        /\ IsInjective(sent[r])

(* "A failed attempt cannot rotate to another account until its cooldown   *)
(* is durable": whenever a call is sending with its second or a later key, *)
(* the file accounts for every failure before it, unless the operator has  *)
(* removed that key meanwhile.                                             *)
FailoverIsRecorded ==
    \A r \in Requests : pc[r] = "send" =>
        \A n \in 1..(Len(sent[r]) - 1) :
            sent[r][n] \in file.keys =>
                \E o \in file.log : o.req = r /\ o.n = n /\ Retryable(o.kind)

(* The latest thing the provider said of a key decides: when its newest    *)
(* recorded outcomes (several may carry one millisecond) include a failure *)
(* with a cooldown, and any other is a success, the key cools down at      *)
(* least as long as the mildest of them asks, in whatever order they were  *)
(* written (healthObservationAdvances).                                    *)
Newest(k) ==
    LET all == {o \in file.log : o.key = k}
    IN  {o \in all : \A other \in all : other.at <= o.at}

LatestFailureHolds ==
    \A k \in file.keys :
        LET cooled == {o \in Newest(k) : CooldownOf(o.kind) > 0}
        IN  /\ cooled # {}
            /\ \A o \in Newest(k) \ cooled : o.kind = "ok"
            => \E o \in cooled :
                  LET until == o.at + CooldownOf(o.kind)
                  IN  until <= now \/ file.health[k].until >= until

(* The quota the file holds of a key is the smallest of the newest         *)
(* complete windows the provider reported of it: an exhausted key is not   *)
(* resurrected by the order in which concurrent calls take the lock        *)
(* (quotaObservationAdvances).                                             *)
LatestQuotaHolds ==
    \A k \in file.keys :
        LET seen   == {o \in file.log : o.key = k /\ o.rem # NoneSeen}
            newest == {o \in seen : \A other \in seen : other.at <= o.at}
        IN  seen # {} =>
              /\ \E o \in newest : file.quota[k].rem = o.rem
              /\ \A o \in newest : /\ file.quota[k].at = o.at
                                    /\ file.quota[k].rem <= o.rem

(* A thread is bound to a configured key, and the file never holds more    *)
(* bindings than its schema admits (MAX_SESSIONS), whoever wrote last.     *)
BoundKeysExist ==
    /\ Cardinality(BoundSessions(file)) <= MaxSessions
    /\ \A s \in BoundSessions(file) : file.sessions[s].key \in file.keys

(* No writer erases what another has recorded: the outcomes the file       *)
(* accounts for only grow (withProviderApiKeyPoolLock).                    *)
OutcomesAccumulate == [][file.log \subseteq file'.log]_vars

(* What the file believes of a key never goes back in time: an outcome     *)
(* that took the lock late does not replace a newer one, and among         *)
(* outcomes of one instant only a more cautious one does.                  *)
ObservationsAdvance ==
    [][\A k \in file.keys \cap file'.keys :
          LET q == file.quota[k]      h == file.health[k]
              r == file'.quota[k]     g == file'.health[k]
          IN  /\ q.seen => \/ r.at > q.at
                           \/ r.at = q.at /\ r.rem <= q.rem
              /\ h.seen => \/ g.at > h.at
                           \/ g.at = h.at /\ (g.until >= h.until
                                              \/ h.until <= now)]_vars

(* A call sends only with a key that, as the file stands at that moment    *)
(* and by the clock of that moment, is configured, not paused, not cooling *)
(* and not out of quota, although it judged the key by the time it passed  *)
(* to the selection before it waited for the lock (selectFromState, `now`).*)
UsableWhenChosen ==
    [][\A r \in Requests :
          sent'[r] # sent[r] =>
             LET k == Last(sent'[r])
             IN  /\ k \in file.keys \ file.paused
                 /\ file.health[k].until <= now
                 /\ Known(file, k, now) => file.quota[k].rem > 0]_vars

(* The attempts a thread's calls have made with a key.                     *)
Turns(s, k) ==
    {t \in Requests \X (1..Attempts) :
        /\ SessionOf[t[1]] = s
        /\ t[2] \in DOMAIN sent[t[1]] /\ sent[t[1]][t[2]] = k}

(* A thread leaves its key only for a cause: the operator removed the key, *)
(* the key was unusable when the writer looked, it had just failed the     *)
(* writer, or the thread has had its turns, counted here by the attempts   *)
(* it made and not by the file's counter; and it is unbound only by a      *)
(* removal or to make room in a full file for another thread, the least    *)
(* recently used first (sessionCanStay, makeRoomForSession).               *)
BindingsMoveForCause ==
    [][\A s \in BoundSessions(file) :
          LET old == file.sessions[s]
              new == file'.sessions[s]
          IN  new.key # old.key =>
                IF new.key = NoKey
                  THEN \/ old.key \notin file'.keys
                       \/ /\ Cardinality(BoundSessions(file)) = MaxSessions
                          /\ BoundSessions(file') \ BoundSessions(file) # {}
                          /\ \A u \in BoundSessions(file) :
                                file'.sessions[u].key # NoKey =>
                                    file.sessions[u].at >= old.at
                  ELSE \E r \in Requests :
                          /\ SessionOf[r] = s /\ pc[r] = "selecting"
                          /\ \/ old.key \in Range(sent[r])
                             \/ old.key \notin Eligible(file, at[r])
                             \/ Cardinality(Turns(s, old.key)) >= StickyLimit
      ]_vars
=============================================================================
