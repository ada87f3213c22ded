------------------------ MODULE ProviderKeyPoolProofs ------------------------
(***************************************************************************)
(* What the API-key pool keeps, for any number of keys, requests, threads, *)
(* commands and faults.  In this order: which key is chosen; what reading  *)
(* and rewriting do to the file; the inductive invariant, on the lock, the *)
(* readings made under it, the attempts and the bindings; what the file    *)
(* knows of a key; what a step may not do; and failing over.               *)
(***************************************************************************)
EXTENDS ProviderKeyPool, FiniteSetTheorems, SequenceTheorems, TLAPS

(* The elements of a finite set, ordered by distinct numbers, take all the *)
(* positions from 0 on: missing one would leave too few.                   *)
LEMMA Ranked ==
    ASSUME NEW S, IsFiniteSet(S), NEW g \in [S -> Nat],
           \A x, y \in S : g[x] = g[y] => x = y,
           NEW n \in Nat, n < Cardinality(S)
    PROVE  \E k \in S, B \in SUBSET S :
              /\ \A j \in S : j \in B <=> g[j] < g[k]
              /\ Cardinality(B) = n
<1> DEFINE below(k) == {j \in S : g[j] < g[k]}
           rank(k) == Cardinality(below(k))
           Left == (0..(Cardinality(S) - 1)) \ {n}
           f == [k \in S |-> rank(k)]
<1>1. Cardinality(S) \in Nat
  BY FS_CardinalityType
<1>2. ASSUME NEW k \in S
      PROVE  IsFiniteSet(below(k)) /\ rank(k) \in 0..(Cardinality(S) - 1)
  <2>1. below(k) \in SUBSET S /\ k \notin below(k)
    OBVIOUS
  <2> HIDE DEF below
  <2>2. IsFiniteSet(below(k)) /\ rank(k) \in Nat /\ rank(k) <= Cardinality(S)
    BY <2>1, FS_Subset, FS_CardinalityType
  <2>3. rank(k) # Cardinality(S)
    BY <2>1, FS_Subset
  <2> HIDE DEF rank
  <2> QED
    BY <1>1, <2>2, <2>3
<1>3. ASSUME NEW j \in S, NEW k \in S, g[j] < g[k]
      PROVE  rank(j) < rank(k)
  <2>1. below(j) \in SUBSET below(k)
    BY <1>3
  <2>2. j \in below(k) /\ j \notin below(j)
    BY <1>3
  <2> HIDE DEF below
  <2>3. rank(j) <= rank(k) /\ rank(j) # rank(k)
    BY <1>2, <2>1, <2>2, FS_Subset
  <2> HIDE DEF rank
  <2> QED
    BY <1>1, <1>2, <2>3
<1>4. \E k \in S : rank(k) = n
  <2> SUFFICES ASSUME \A k \in S : rank(k) # n PROVE FALSE
    OBVIOUS
  <2> HIDE DEF rank
  <2>1. f \in [S -> Left]
    BY <1>2
  <2>2. IsFiniteSet(Left) /\ Cardinality(Left) < Cardinality(S)
    <3> DEFINE c == Cardinality(S)
               All == 0..(c - 1)
    <3>1. c \in Nat /\ c - 1 \in Int /\ 0 <= c - 1 /\ n \in All
      BY <1>1
    <3> HIDE DEF c
    <3>2. IsFiniteSet(All) /\ Cardinality(All) = c
      <4>1. (c - 1) - 0 + 1 = c
        BY <3>1
      <4> QED
        BY <3>1, <4>1, FS_Interval
    <3> HIDE DEF All
    <3>3. IsFiniteSet(All \ {n}) /\ Cardinality(All \ {n}) = c - 1
      BY <3>1, <3>2, FS_RemoveElement
    <3> QED
      BY <3>1, <3>3 DEF All, c
  <2>3. PICK x \in S, y \in S : x # y /\ f[x] = f[y]
    <3> HIDE DEF f, Left
    <3> QED
      BY <2>1, <2>2, FS_PigeonHole
  <2>4. g[x] < g[y] \/ g[y] < g[x]
    BY <2>3
  <2>5. rank(x) = rank(y)
    BY <2>3
  <2>6. rank(x) \in Nat /\ rank(y) \in Nat
    <3> HIDE DEF f, Left, below
    <3>1. rank(x) \in 0..(Cardinality(S) - 1)
      BY <1>2, <2>3
    <3>2. rank(y) \in 0..(Cardinality(S) - 1)
      BY <1>2, <2>3
    <3> QED
      BY <3>1, <3>2
  <2> QED
    BY <1>3, <2>4, <2>5, <2>6
<1>5. PICK k \in S : rank(k) = n
  BY <1>4
<1>6. /\ below(k) \in SUBSET S /\ Cardinality(below(k)) = n
      /\ \A j \in S : j \in below(k) <=> g[j] < g[k]
  BY <1>5
<1> HIDE DEF below
<1> QED
  BY <1>6

(* A set of naturals has a least element.                                  *)
LEMMA Least ==
    ASSUME NEW T, T \subseteq Nat, T # {}
    PROVE  \E x \in T : \A y \in T : x <= y
<1>1. PICK t \in T : TRUE
  OBVIOUS
<1> DEFINE S == {x \in T : x <= t}
           g == [x \in S |-> x]
<1>2. IsFiniteSet(S)
  <2>1. IsFiniteSet(0..t)
    BY FS_Interval
  <2>2. S \in SUBSET (0..t)
    <3> SUFFICES ASSUME NEW x \in T, x <= t
                 PROVE  x \in 0..t
      OBVIOUS
    <3>1. x \in Nat /\ t \in Nat
      BY <1>1
    <3> QED
      BY <3>1
  <2> QED
    BY <2>1, <2>2, FS_Subset
<1>3. 0 < Cardinality(S)
  <2>1. t \in S
    BY <1>1
  <2> HIDE DEF S
  <2>2. Cardinality(S) \in Nat /\ Cardinality(S) # 0
    BY <1>2, <2>1, FS_EmptySet, FS_CardinalityType
  <2> QED
    BY <2>2
<1>4. g \in [S -> Nat] /\ \A x, y \in S : g[x] = g[y] => x = y
  OBVIOUS
<1>5. PICK x \in S, B \in SUBSET S :
         /\ \A j \in S : j \in B <=> g[j] < g[x]
         /\ Cardinality(B) = 0
  <2> HIDE DEF g, S
  <2> QED
    BY <1>2, <1>3, <1>4, Ranked
<1>6. B = {}
  BY <1>2, <1>5, FS_EmptySet, FS_Subset
<1>7. \A y \in S : x <= y
  <2> SUFFICES ASSUME NEW y \in S
               PROVE  x <= y
    OBVIOUS
  <2>1. x \in Nat /\ y \in Nat /\ g[x] = x /\ g[y] = y
    OBVIOUS
  <2>2. ~(g[y] < g[x])
    BY <1>5, <1>6
  <2> HIDE DEF g
  <2> QED
    BY <2>1, <2>2
<1>8. \A y \in T : x <= y
  BY <1>1, <1>7
<1> QED
  BY <1>8

(* Keys lists each key once: there are finitely many, each at its place.   *)
LEMMA KeysProperties ==
    /\ IsFiniteSet(KeySet)
    /\ \A k \in KeySet : Place(k) \in Nat /\ Keys[Place(k)] = k
<1>1. Len(Keys) \in Nat /\ Keys \in [1..Len(Keys) -> KeySet]
  BY PoolAssumption, LenProperties
<1>2. Keys \in Surjection(1..Len(Keys), KeySet)
  BY <1>1 DEF KeySet, Range, Surjection
<1>3. IsFiniteSet(1..Len(Keys))
  BY <1>1, FS_Interval
<1>4. ASSUME NEW k \in KeySet
      PROVE  Place(k) \in DOMAIN Keys /\ Keys[Place(k)] = k
  BY DEF Place, KeySet, Range
<1> QED
  BY <1>1, <1>2, <1>3, <1>4, FS_Surjection

(* A set of keys has a key at each of its positions.                       *)
LEMMA NthIn ==
    ASSUME NEW S \in SUBSET KeySet, NEW n \in Nat, n < Cardinality(S)
    PROVE  Nth(S, n) \in S
<1> DEFINE g == [k \in S |-> Place(k)]
<1>1. IsFiniteSet(S)
  BY KeysProperties, FS_Subset
<1>2. g \in [S -> Nat] /\ \A x, y \in S : g[x] = g[y] => x = y
  BY KeysProperties
<1>3. PICK k \in S, B \in SUBSET S :
         /\ \A j \in S : j \in B <=> g[j] < g[k]
         /\ Cardinality(B) = n
  <2> HIDE DEF g
  <2> QED
    BY <1>1, <1>2, n < Cardinality(S), Ranked
<1>4. B = Before(S, k)
  BY <1>3 DEF Before
<1>5. \E x \in S : Cardinality(Before(S, x)) = n
  BY <1>3, <1>4
<1> QED
  BY <1>5 DEF Nth

(* Among finitely many keys with a known quota one has the most left.      *)
LEMMA BestExists ==
    ASSUME NEW p \in Pool, NEW t, NEW S \in SUBSET KeySet, S # {}
    PROVE  \E k \in S : \A j \in S : ~Roomier(p, j, k, t)
<1> DEFINE known == {k \in S : Known(p, k, t)}
           spent == {99 - p.quota[k].rem : k \in known}
<1>0. \A k \in S : p.quota[k].rem \in Nat /\ p.quota[k].rem <= 99
  BY DEF Pool, Remaining, NoneSeen
<1>1. CASE known = {}
  BY <1>1 DEF Roomier
<1>2. CASE known # {}
  <2>1. spent \subseteq Nat /\ spent # {}
    BY <1>0, <1>2
  <2>2. PICK x \in spent : \A y \in spent : x <= y
    BY <2>1, Least
  <2>3. PICK k \in known : x = 99 - p.quota[k].rem
    BY <2>2
  <2>4. \A j \in known : p.quota[j].rem <= p.quota[k].rem
    <3> SUFFICES ASSUME NEW j \in known
                 PROVE  p.quota[j].rem <= p.quota[k].rem
      OBVIOUS
    <3>1. 99 - p.quota[k].rem <= 99 - p.quota[j].rem
      BY <2>2, <2>3
    <3>2. p.quota[j].rem \in Nat /\ p.quota[k].rem \in Nat
      BY <1>0
    <3> QED
      BY <3>1, <3>2
  <2> QED
    BY <1>0, <2>4 DEF Roomier
<1> QED
  BY <1>1, <1>2

(* What is chosen is one of the candidates, whatever the strategy.         *)
LEMMA ChooseIn ==
    ASSUME NEW p \in Pool, NEW t, NEW C \in SUBSET KeySet, C # {}
    PROVE  Choose(p, C, t) \in C
<1> DEFINE roomy == {k \in C : Known(p, k, t) => p.quota[k].rem > Threshold}
           rest  == IF roomy # {} THEN roomy ELSE C
           best  == {k \in rest : \A j \in rest : ~Roomier(p, j, k, t)}
<1>0. \A S \in SUBSET KeySet : S # {} => Cardinality(S) \in Nat \ {0}
  BY KeysProperties, FS_Subset, FS_EmptySet, FS_CardinalityType
<1>1. rest \in SUBSET C /\ rest # {}
  OBVIOUS
<1>2. best \in SUBSET rest /\ best # {}
  <2> HIDE DEF rest
  <2> QED
    BY <1>1, BestExists
<1> HIDE DEF rest, best
<1>3. Nth(rest, 0) \in C /\ Nth(best, 0) \in C
  BY <1>0, <1>1, <1>2, NthIn
<1>4. Nth(C, p.cursor % Cardinality(C)) \in C
  <2>1. p.cursor \in Nat /\ Cardinality(C) \in Nat \ {0}
    BY <1>0 DEF Pool
  <2>2. p.cursor % Cardinality(C) \in 0..(Cardinality(C) - 1)
    BY <2>1
  <2> QED
    BY <2>1, <2>2, NthIn
<1> QED
  BY <1>3, <1>4, PoolAssumption DEF Choose, rest, best

(***************************************************************************)
(* What reading and rewriting the file does to it                          *)
(***************************************************************************)

(* Reading ends the cooldowns that are over and changes nothing else.      *)
LEMMA NormalKeeps ==
    ASSUME NEW p \in Pool, NEW t \in Nat
    PROVE  /\ Normal(p, t) \in Pool
           /\ Normal(p, t).keys = p.keys /\ Normal(p, t).paused = p.paused
           /\ Normal(p, t).quota = p.quota /\ Normal(p, t).log = p.log
           /\ Normal(p, t).cursor = p.cursor
           /\ Normal(p, t).sessions = p.sessions
           /\ \A k \in KeySet :
                 LET h == p.health[k]  g == Normal(p, t).health[k]
                 IN  /\ g.at = h.at /\ g.seen = h.seen
                     /\ h.until <= t => g.until = 0 /\ g.cooling = FALSE
                     /\ h.until > t =>
                           g.until = h.until /\ g.cooling = h.cooling
<1> DEFINE Health == [KeySet -> [cooling : BOOLEAN, until : Nat, at : Nat,
                                 seen : BOOLEAN]]
           heard == [k \in KeySet |->
                       IF p.health[k].until <= t
                         THEN [p.health[k] EXCEPT !.cooling = FALSE,
                                                  !.until = 0]
                         ELSE p.health[k]]
<1>1. p.health \in Health
  BY DEF Pool
<1>2. heard \in Health
  BY <1>1
<1>3. \A k \in KeySet :
         LET h == p.health[k]  g == heard[k]
         IN  /\ g.at = h.at /\ g.seen = h.seen
             /\ h.until <= t => g.until = 0 /\ g.cooling = FALSE
             /\ h.until > t => g.until = h.until /\ g.cooling = h.cooling
  <2> SUFFICES ASSUME NEW k \in KeySet
               PROVE  LET h == p.health[k]  g == heard[k]
                      IN  /\ g.at = h.at /\ g.seen = h.seen
                          /\ h.until <= t => g.until = 0 /\ g.cooling = FALSE
                          /\ h.until > t => /\ g.until = h.until
                                            /\ g.cooling = h.cooling
    OBVIOUS
  <2>1. p.health[k] \in [cooling : BOOLEAN, until : Nat, at : Nat,
                         seen : BOOLEAN]
    BY <1>1
  <2>2. heard[k] = IF p.health[k].until <= t
                     THEN [p.health[k] EXCEPT !.cooling = FALSE, !.until = 0]
                     ELSE p.health[k]
    OBVIOUS
  <2> HIDE DEF heard
  <2>3. p.health[k].until \in Nat
    BY <2>1
  <2> HIDE DEF heard
  <2>4. CASE p.health[k].until <= t
    <3>1. heard[k] = [p.health[k] EXCEPT !.cooling = FALSE, !.until = 0]
      BY <2>2, <2>4
    <3>2. /\ heard[k].at = p.health[k].at /\ heard[k].seen = p.health[k].seen
          /\ heard[k].until = 0 /\ heard[k].cooling = FALSE
      BY <2>1, <3>1
    <3> QED
      BY <2>3, <2>4, <3>2
  <2>5. CASE p.health[k].until > t
    <3>1. heard[k] = p.health[k]
      BY <2>2, <2>3, <2>5
    <3> QED
      BY <2>3, <2>5, <3>1
  <2>6. p.health[k].until <= t \/ p.health[k].until > t
    BY <2>3
  <2> QED
    BY <2>4, <2>5, <2>6, Zenon
<1> HIDE DEF heard
<1>4. Normal(p, t) = [p EXCEPT !.health = heard]
  BY DEF Normal, heard
<1> QED
  BY <1>2, <1>3, <1>4 DEF Pool

(* The keys that may be used at a time are those of the file as it is read *)
(* at that time.                                                           *)
LEMMA EligibleNormal ==
    ASSUME NEW p \in Pool, NEW t \in Nat
    PROVE  Eligible(Normal(p, t), t) = Eligible(p, t)
<1>1. ASSUME NEW k \in KeySet
      PROVE  Normal(p, t).health[k].until <= t <=> p.health[k].until <= t
  <2>1. p.health[k].until \in Nat
    BY DEF Pool
  <2>2. CASE p.health[k].until <= t
    <3>1. Normal(p, t).health[k].until = 0
      BY <2>2, NormalKeeps
    <3> QED
      BY <2>2, <3>1
  <2>3. CASE p.health[k].until > t
    <3>1. Normal(p, t).health[k].until = p.health[k].until
      BY <2>3, NormalKeeps
    <3> QED
      BY <3>1
  <2> QED
    BY <2>1, <2>2, <2>3
<1>2. p.keys \subseteq KeySet
  BY DEF Pool
<1> QED
  BY <1>1, <1>2, NormalKeeps DEF Eligible, Known

(* An operator command changes keys, pauses and bindings only, and unbinds *)
(* only the threads of the key it removes.                                 *)
LEMMA AppliedKeeps ==
    ASSUME NEW p \in Pool, NEW c \in Commands
    PROVE  /\ Applied(p, c) \in Pool
           /\ Applied(p, c).quota = p.quota
           /\ Applied(p, c).health = p.health
           /\ Applied(p, c).log = p.log
           /\ Applied(p, c).keys \subseteq
                 p.keys \cup (IF c.op = "add" THEN {c.key} ELSE {})
           /\ \A s \in Sessions :
                 Applied(p, c).sessions[s] =
                    IF c.op = "remove" /\ p.sessions[s].key = c.key
                      THEN Unbound ELSE p.sessions[s]
           /\ c.op = "remove" => Applied(p, c).keys = p.keys \ {c.key}
           /\ c.op # "remove" => p.keys \subseteq Applied(p, c).keys
<1>1. c.op \in {"add", "pause", "resume", "remove"} /\ c.key \in KeySet
  BY PoolAssumption DEF Commands
<1>2. CASE c.op = "add"
  BY <1>1, <1>2 DEF Applied, Pool
<1>3. CASE c.op = "pause"
  BY <1>1, <1>3 DEF Applied, Pool
<1>4. CASE c.op = "resume"
  BY <1>1, <1>4 DEF Applied, Pool
<1>5. CASE c.op = "remove"
  BY <1>1, <1>5 DEF Applied, Pool, Unbound
<1> QED
  BY <1>1, <1>2, <1>3, <1>4, <1>5

(* An outcome changes what the file knows of its own key, if that key is   *)
(* still there, and is accounted for.                                      *)
LEMMA RecordedKeeps ==
    ASSUME NEW p \in Pool, NEW o \in Outcome
    PROVE  /\ Recorded(p, o) \in Pool
           /\ Recorded(p, o).keys = p.keys
           /\ Recorded(p, o).sessions = p.sessions
           /\ o.key \notin p.keys => Recorded(p, o) = p
           /\ o.key \in p.keys =>
                 /\ Recorded(p, o).log = p.log \cup {o}
                 /\ Recorded(p, o).quota[o.key] =
                       QuotaAfter(p.quota[o.key], o)
                 /\ Recorded(p, o).health[o.key] =
                       HealthAfter(p.health[o.key], o)
           /\ \A k \in KeySet \ {o.key} :
                 /\ Recorded(p, o).quota[k] = p.quota[k]
                 /\ Recorded(p, o).health[k] = p.health[k]
<1> DEFINE Health == [cooling : BOOLEAN, until : Nat, at : Nat, seen : BOOLEAN]
           Quota  == [rem : Remaining, reset : Nat, at : Nat, seen : BOOLEAN]
           q == QuotaAfter(p.quota[o.key], o)
           h == HealthAfter(p.health[o.key], o)
<1>1. o.key \in KeySet /\ o.at \in 0..MaxTime /\ o.rem \in Remaining
  BY DEF Outcome
<1>2. o.at \in Nat /\ Window \in Nat
  <2>1. MaxTime \in Nat /\ Window \in Nat
    BY PoolAssumption
  <2> QED
    BY <1>1, <2>1
<1>3. p.quota[o.key] \in Quota /\ p.health[o.key] \in Health
  BY <1>1 DEF Pool
<1>4. q \in Quota
  BY <1>1, <1>2, <1>3 DEF QuotaAfter
<1>5. h \in Health
  <2>1. CooldownOf(o.kind) \in Nat
    BY DEF CooldownOf
  <2>2. o.at + CooldownOf(o.kind) \in Nat
    BY <1>2, <2>1
  <2> QED
    BY <1>2, <1>3, <2>2 DEF HealthAfter, Fresh
<1>6. CASE o.key \notin p.keys
  BY <1>6 DEF Recorded
<1>7. CASE o.key \in p.keys
  <2>1. Recorded(p, o) =
           [p EXCEPT !.quota = [@ EXCEPT ![o.key] = q],
                     !.health = [@ EXCEPT ![o.key] = h],
                     !.log = @ \cup {o}]
    BY <1>7 DEF Recorded
  <2> HIDE DEF q, h, Quota, Health
  <2>2. p \in [keys : SUBSET KeySet, paused : SUBSET KeySet,
              health : [KeySet -> Health], quota : [KeySet -> Quota],
              cursor : Nat,
              sessions : [Sessions -> [key : KeySet \cup {NoKey},
                                       turns : Nat, at : Nat]],
              log : SUBSET Outcome]
    BY DEF Pool, Quota, Health
  <2>3. Recorded(p, o) \in
             [keys : SUBSET KeySet, paused : SUBSET KeySet,
              health : [KeySet -> Health], quota : [KeySet -> Quota],
              cursor : Nat,
              sessions : [Sessions -> [key : KeySet \cup {NoKey},
                                       turns : Nat, at : Nat]],
              log : SUBSET Outcome]
    <3> DEFINE quotas   == [p.quota EXCEPT ![o.key] = q]
               healths  == [p.health EXCEPT ![o.key] = h]
               accounts == p.log \cup {o}
    <3>1. quotas \in [KeySet -> Quota] /\ healths \in [KeySet -> Health]
      BY <1>4, <1>5, <2>2
    <3>2. accounts \in SUBSET Outcome
      BY <2>2
    <3>3. Recorded(p, o) = [p EXCEPT !.quota = quotas, !.health = healths,
                                     !.log = accounts]
      BY <2>1, <2>2
    <3> HIDE DEF quotas, healths, accounts
    <3> QED
      BY <2>2, <3>1, <3>2, <3>3
  <2>4. Recorded(p, o) \in Pool
    BY <2>3 DEF Pool, Quota, Health
  <2> QED
    BY <1>1, <1>7, <2>1, <2>2, <2>4 DEF q, h
<1> QED
  BY <1>6, <1>7

(* A bounded file makes room by dropping one binding, the least recently   *)
(* updated, and then holds one more without passing its bound.             *)
LEMMA RoomKeeps ==
    ASSUME NEW p \in Pool, NEW s \in Sessions,
           IsFiniteSet(BoundSessions(p)),
           Cardinality(BoundSessions(p)) <= MaxSessions
    PROVE  /\ WithRoomFor(s, p) \in Pool
           /\ WithRoomFor(s, p) =
                 [p EXCEPT !.sessions = WithRoomFor(s, p).sessions]
           /\ \A u \in Sessions :
                 LET new == WithRoomFor(s, p).sessions
                 IN  \/ new[u] = p.sessions[u]
                     \/ /\ new[u] = Unbound
                        /\ s \notin BoundSessions(p)
                        /\ Cardinality(BoundSessions(p)) = MaxSessions
                        /\ \A v \in BoundSessions(p) :
                              p.sessions[v].at < p.sessions[u].at =>
                                  new[v] = Unbound
           /\ LET bound == BoundSessions(WithRoomFor(s, p)) \cup {s}
              IN  IsFiniteSet(bound) /\ Cardinality(bound) <= MaxSessions
<1> DEFINE bound    == BoundSessions(p)
           older(u) == {v \in bound : p.sessions[v].at < p.sessions[u].at}
           excess   == Cardinality(bound) - (MaxSessions - 1)
           Victims(vs) == /\ Cardinality(vs) = excess
                          /\ \A v \in vs : older(v) \subseteq vs
           victims  == CHOOSE vs \in SUBSET bound : Victims(vs)
           room     == [u \in Sessions |-> IF u \in victims THEN Unbound
                                                            ELSE p.sessions[u]]
<1>1. MaxSessions \in Nat /\ 0 < MaxSessions
  <2>1. MaxSessions \in Nat \ {0}
    BY PoolAssumption
  <2> QED
    BY <2>1
<1>2. Cardinality(bound) \in Nat /\ Cardinality(bound) <= MaxSessions
  BY FS_CardinalityType
<1>3. \A u \in Sessions : p.sessions[u].at \in Nat
  BY DEF Pool
<1>4. bound \subseteq Sessions
  BY DEF BoundSessions
<1>5. CASE s \in bound \/ excess <= 0
  <2>1. WithRoomFor(s, p) = p
    BY <1>5 DEF WithRoomFor
  <2>2. p = [p EXCEPT !.sessions = p.sessions]
    BY DEF Pool
  <2>3. /\ IsFiniteSet(bound \cup {s})
        /\ Cardinality(bound \cup {s}) <= MaxSessions
    <3>1. CASE s \in bound
      <4>1. bound \cup {s} = bound
        BY <3>1
      <4> QED
        BY <1>2, <4>1
    <3>2. CASE s \notin bound /\ excess <= 0
      <4>1. Cardinality(bound) + 1 <= MaxSessions
        BY <1>1, <1>2, <3>2
      <4> HIDE DEF bound
      <4>2. /\ IsFiniteSet(bound \cup {s})
            /\ Cardinality(bound \cup {s}) = Cardinality(bound) + 1
        BY <3>2, FS_AddElement DEF bound
      <4> QED
        BY <4>1, <4>2
    <3> QED
      BY <1>5, <3>1, <3>2
  <2> QED
    BY <2>1, <2>2, <2>3
<1>6. CASE s \notin bound /\ excess > 0
  <2>1. excess = 1 /\ Cardinality(bound) = MaxSessions
    BY <1>1, <1>2, <1>6
  <2>2. \E vs \in SUBSET bound : Victims(vs)
    <3> DEFINE times == {p.sessions[u].at : u \in bound}
    <3>1. bound # {}
      <4> HIDE DEF bound
      <4> QED
        BY <1>1, <2>1, FS_EmptySet
    <3>2. times \subseteq Nat /\ times # {}
      BY <1>3, <1>4, <3>1
    <3>3. PICK x \in times : \A y \in times : x <= y
      <4> HIDE DEF times
      <4> QED
        BY <3>2, Least
    <3>4. PICK v \in bound : x = p.sessions[v].at
      BY <3>3
    <3>5. older(v) = {}
      <4> SUFFICES ASSUME NEW u \in bound,
                          p.sessions[u].at < p.sessions[v].at
                   PROVE  FALSE
        OBVIOUS
      <4>1. p.sessions[v].at <= p.sessions[u].at
        BY <3>3, <3>4
      <4>2. p.sessions[v].at \in Nat /\ p.sessions[u].at \in Nat
        BY <1>3, <1>4
      <4> QED
        BY <4>1, <4>2
    <3>6. Cardinality({v}) = 1
      BY FS_Singleton
    <3>7. {v} \in SUBSET bound /\ Victims({v})
      BY <2>1, <3>5, <3>6
    <3> QED
      BY <3>7
  <2>3. victims \in SUBSET bound /\ Victims(victims)
    <3> HIDE DEF Victims
    <3> QED
      BY <2>2
  <2>4. WithRoomFor(s, p) = [p EXCEPT !.sessions = room]
    BY <1>6, <1>1, <1>2 DEF WithRoomFor
  <2> HIDE DEF victims
  <2>5. room \in [Sessions -> [key : KeySet \cup {NoKey}, turns : Nat,
                              at : Nat]]
    BY DEF Pool, Unbound
  <2>6. WithRoomFor(s, p) \in Pool /\ WithRoomFor(s, p).sessions = room
    <3> HIDE DEF room
    <3> QED
      BY <2>4, <2>5 DEF Pool
  <2>7. \A u \in Sessions :
           \/ room[u] = p.sessions[u]
           \/ /\ room[u] = Unbound
              /\ \A v \in bound : p.sessions[v].at < p.sessions[u].at =>
                                      room[v] = Unbound
    BY <1>4, <2>3
  <2>8. BoundSessions(WithRoomFor(s, p)) = bound \ victims
    BY <1>4, <2>3, <2>6 DEF BoundSessions, Unbound
  <2>9. /\ IsFiniteSet((bound \ victims) \cup {s})
        /\ Cardinality((bound \ victims) \cup {s}) <= MaxSessions
    <3> HIDE DEF bound
    <3>1. IsFiniteSet(bound) /\ IsFiniteSet(victims)
      BY <2>3, FS_Subset DEF bound
    <3>2. /\ IsFiniteSet(bound \ victims)
          /\ Cardinality(bound \ victims) =
                Cardinality(bound) - Cardinality(bound \cap victims)
      BY <3>1, FS_Difference
    <3>3. bound \cap victims = victims /\ Cardinality(victims) = 1
      BY <2>1, <2>3
    <3>4. s \notin bound \ victims
      BY <1>6
    <3>5. /\ IsFiniteSet((bound \ victims) \cup {s})
          /\ Cardinality((bound \ victims) \cup {s}) =
                Cardinality(bound \ victims) + 1
      BY <3>2, <3>4, FS_AddElement
    <3> QED
      <4>1. Cardinality(bound \ victims) = MaxSessions - 1
        BY <2>1, <3>2, <3>3
      <4>2. Cardinality((bound \ victims) \cup {s}) = (MaxSessions - 1) + 1
        BY <3>5, <4>1
      <4>3. (MaxSessions - 1) + 1 = MaxSessions /\ MaxSessions <= MaxSessions
        BY <1>1
      <4> QED
        BY <3>5, <4>2, <4>3
  <2> QED
    BY <1>6, <2>1, <2>4, <2>6, <2>7, <2>8, <2>9
<1> QED
  BY <1>1, <1>2, <1>5, <1>6

(* What a selection of key k for thread s makes of the file p.             *)
Binds(p, s, k, new) ==
    /\ new \in Pool
    /\ new.keys = p.keys /\ new.quota = p.quota
    /\ new.health = p.health /\ new.log = p.log
    /\ new.sessions[s].key = k
    /\ LET old == p.sessions[s]
       IN  new.sessions[s].turns =
              IF old.key # NoKey /\ old.key # k THEN 1 ELSE old.turns + 1
    /\ \A u \in Sessions \ {s} :
          new.sessions[u] = WithRoomFor(s, p).sessions[u]
    /\ BoundSessions(new) = BoundSessions(WithRoomFor(s, p)) \cup {s}

(* A selection binds the thread of the request and advances the cursor; it *)
(* unbinds at most one other thread, and only in a full file.              *)
LEMMA SelectedKeeps ==
    ASSUME NEW p \in Pool, NEW s \in Sessions, NEW k \in KeySet,
           NEW byPolicy \in BOOLEAN, NEW C \in SUBSET KeySet, C # {},
           NEW t \in Nat,
           IsFiniteSet(BoundSessions(p)),
           Cardinality(BoundSessions(p)) <= MaxSessions,
           NEW new, new = Selected(p, s, k, byPolicy, C, t)
    PROVE  Binds(p, s, k, new)
<1> DEFINE room    == WithRoomFor(s, p)
           old     == p.sessions[s]
           cursor  == IF byPolicy /\ Strategy = "round-robin"
                        THEN (room.cursor + 1) % Cardinality(C)
                        ELSE room.cursor
           binding == [key |-> k, at |-> t,
                       turns |-> IF old.key # NoKey /\ old.key # k
                                   THEN 1 ELSE old.turns + 1]
<1>1. /\ room \in Pool /\ room = [p EXCEPT !.sessions = room.sessions]
  BY RoomKeeps
<1>2. Cardinality(C) \in Nat /\ Cardinality(C) # 0
  BY KeysProperties, FS_Subset, FS_EmptySet, FS_CardinalityType
<1>3. cursor \in Nat
  <2>1. room.cursor \in Nat
    BY <1>1 DEF Pool
  <2> HIDE DEF room
  <2>2. (room.cursor + 1) % Cardinality(C) \in Nat
    BY <1>2, <2>1
  <2> QED
    BY <2>1, <2>2
<1>4. binding \in [key : KeySet \cup {NoKey}, turns : Nat, at : Nat]
  <2>1. old.turns \in Nat
    BY DEF Pool
  <2>2. old.turns + 1 \in Nat
    BY <2>1
  <2> QED
    BY <2>2
<1>5. new = [room EXCEPT !.cursor = cursor, !.sessions[s] = binding]
  BY DEF Selected
<1> HIDE DEF room, cursor, binding
<1>6. new \in Pool
  <2>1. room.sessions \in
           [Sessions -> [key : KeySet \cup {NoKey}, turns : Nat, at : Nat]]
    BY <1>1 DEF Pool
  <2> DEFINE sessions == [room.sessions EXCEPT ![s] = binding]
  <2>2. sessions \in
           [Sessions -> [key : KeySet \cup {NoKey}, turns : Nat, at : Nat]]
    BY <1>4, <2>1
  <2>3. new = [room EXCEPT !.cursor = cursor, !.sessions = sessions]
    BY <1>1, <1>5 DEF Pool
  <2> HIDE DEF sessions
  <2> QED
    BY <1>1, <1>3, <2>2, <2>3 DEF Pool
<1>7. /\ new.keys = room.keys /\ new.quota = room.quota
      /\ new.health = room.health /\ new.log = room.log
      /\ new.sessions = [room.sessions EXCEPT ![s] = binding]
  BY <1>1, <1>5 DEF Pool
<1>8. /\ room.keys = p.keys /\ room.quota = p.quota
      /\ room.health = p.health /\ room.log = p.log
  BY <1>1 DEF Pool
<1>9. /\ new.sessions[s] = binding /\ binding.key = k /\ k # NoKey
      /\ binding.turns = IF old.key # NoKey /\ old.key # k
                           THEN 1 ELSE old.turns + 1
  <2>1. s \in DOMAIN room.sessions
    BY <1>1 DEF Pool
  <2>2. k # NoKey
    BY PoolAssumption DEF NoKey
  <2> QED
    BY <1>7, <2>1, <2>2 DEF binding
<1>10. \A u \in Sessions \ {s} : new.sessions[u] = room.sessions[u]
  BY <1>1, <1>7 DEF Pool
<1>11. BoundSessions(new) = BoundSessions(room) \cup {s}
  BY <1>9, <1>10 DEF BoundSessions
<1> QED
  BY <1>6, <1>7, <1>8, <1>9, <1>10, <1>11 DEF room, Binds

(***************************************************************************)
(* The inductive invariant                                                 *)
(***************************************************************************)

(* A request that is between reading and writing holds the lock; a command *)
(* that holds it is under way, and adds only a key no call has sent with.  *)
Turn ==
    /\ \A r \in Requests : pc[r] \in {"selecting", "recording"} => lock = r
    /\ lock = Operator =>
          /\ command \in Commands
          /\ command.op = "add" =>
                \A r \in Requests : command.key \notin Range(sent[r])

(* Whoever holds the lock has read the file as it still is.                *)
Reads ==
    /\ \A a \in Actors : lock = a => \E t \in 0..now : mem[a] = Normal(file, t)
    /\ \A r \in Requests : /\ at[r] <= now
                           /\ pc[r] = "selecting" =>
                                 mem[r] = Normal(file, at[r])

(* The attempts of a call, and the outcome of the one it is about to       *)
(* record.                                                                 *)
Choosing == {"idle", "backoff", "select", "selecting"}
Sending == {"send", "record", "recording"}

Spent ==
    \A r \in Requests :
        /\ Len(sent[r]) <= Attempts /\ IsInjective(sent[r])
        /\ pc[r] \in Choosing => Len(sent[r]) < Attempts
        /\ pc[r] \in Sending=> 1 <= Len(sent[r])
        /\ pc[r] \in {"record", "recording"} =>
              /\ out[r] \in Outcome /\ out[r].at <= now
              /\ out[r].req = r /\ out[r].n = Len(sent[r])
              /\ out[r].key = Last(sent[r])

(* The bindings of the file: the set is finite, which its bound needs.     *)
Bindings == IsFiniteSet(BoundSessions(file)) /\ BoundKeysExist

Core == TypeOK /\ Turn /\ Reads /\ Spent /\ Bindings

(* The ways the file changes: it is read at some time up to now and        *)
(* written back as it was read, with a selection, an outcome or a command. *)
Reread(t) == file' = Normal(file, t)

SelectedBy(r) ==
    LET s == SessionOf[r]
        C == Eligible(file, at[r]) \ Range(sent[r])
    IN  /\ pc[r] = "selecting"
        /\ \E key \in C, byPolicy \in BOOLEAN :
              /\ CanStay(file, s, C) => key = file.sessions[s].key
              /\ file' = Selected(Normal(file, at[r]), s, key, byPolicy, C,
                                  at[r])

RecordedBy(r, t) ==
    /\ pc[r] = "recording" /\ file' = Recorded(Normal(file, t), out[r])

AppliedBy(t) ==
    /\ lock = Operator /\ file' = Applied(Normal(file, t), command)

FileChanges ==
    \/ file' = file
    \/ \E r \in Requests : SelectedBy(r)
    \/ \E t \in 0..now : Reread(t)
    \/ \E t \in 0..now : AppliedBy(t)
    \/ \E t \in 0..now, r \in Requests : RecordedBy(r, t)

(* A set within a bounded finite set is finite and bounded.                *)
LEMMA Smaller ==
    ASSUME NEW S, NEW T \in SUBSET S, IsFiniteSet(S), NEW n \in Nat,
           Cardinality(S) <= n
    PROVE  IsFiniteSet(T) /\ Cardinality(T) <= n
<1>1. IsFiniteSet(T) /\ Cardinality(T) <= Cardinality(S)
  BY FS_Subset
<1>2. Cardinality(T) \in Nat /\ Cardinality(S) \in Nat
  BY <1>1, FS_CardinalityType
<1> QED
  BY <1>1, <1>2

(* The parameters the proofs use, from PoolAssumption.                     *)
LEMMA Parameters ==
    /\ Operator \in Actors /\ Requests \subseteq Actors
    /\ Operator \notin Requests /\ Nobody \notin Actors
    /\ Attempts \in Nat /\ 1 <= Attempts /\ MaxTime \in Nat
    /\ MaxFaults \in Nat /\ MaxCommands \in Nat
    /\ NoKey \notin KeySet
    /\ Responses \subseteq AllResponses
    /\ \A r \in Requests : SessionOf[r] \in Sessions
<1>1. Attempts \in Nat \ {0}
  BY PoolAssumption
<1>2. Attempts \in Nat /\ 1 <= Attempts
  BY <1>1
<1> QED
  BY <1>2, PoolAssumption DEF Actors, Operator, Nobody, NoKey

(* What a selecting call may choose from.                                  *)
LEMMA CandidatesOf ==
    ASSUME Core, NEW r \in Requests, pc[r] = "selecting"
    PROVE  /\ Candidates(r) = Eligible(file, at[r]) \ Range(sent[r])
           /\ Candidates(r) \subseteq file.keys
           /\ Candidates(r) \in SUBSET KeySet
           /\ at[r] \in 0..now /\ at[r] \in Nat
<1>1. mem[r] = Normal(file, at[r]) /\ file \in Pool /\ at[r] \in 0..MaxTime
  BY DEF Core, TypeOK, Reads
<1>2. at[r] \in Nat /\ at[r] <= now /\ now \in Nat
  <2>1. now \in 0..MaxTime /\ at[r] <= now
    BY DEF Core, TypeOK, Reads
  <2> QED
    BY <1>1, <2>1
<1>3. Eligible(mem[r], at[r]) = Eligible(file, at[r])
  BY <1>1, <1>2, EligibleNormal
<1>4. Eligible(file, at[r]) \subseteq file.keys /\ file.keys \subseteq KeySet
  BY <1>1 DEF Eligible, Pool
<1> QED
  BY <1>2, <1>3, <1>4 DEF Candidates

(* Every step changes the file in one of these ways, or not at all.        *)
LEMMA FileSteps ==
    ASSUME Core, [Next]_vars
    PROVE  FileChanges
<1>1. ASSUME NEW r \in Requests, SelectWrite(r)
      PROVE  FileChanges
  <2> DEFINE s == SessionOf[r]
             C == Candidates(r)
             stays == CanStay(mem[r], s, C)
             key == IF stays THEN mem[r].sessions[s].key
                             ELSE Choose(mem[r], C, at[r])
             t == at[r]
  <2>1. pc[r] = "selecting" /\ file \in Pool
    BY <1>1 DEF SelectWrite, Core, TypeOK
  <2>2. C = Eligible(file, t) \ Range(sent[r]) /\ C \in SUBSET KeySet
        /\ t \in 0..now /\ t \in Nat
    BY <2>1, CandidatesOf
  <2>3. mem[r] = Normal(file, t)
    BY <2>1 DEF Core, Reads
  <2>4. mem[r] \in Pool /\ mem[r].sessions = file.sessions
    <3> HIDE DEF C, t
    <3>1. /\ Normal(file, t) \in Pool
          /\ Normal(file, t).sessions = file.sessions
      BY <2>1, <2>2, NormalKeeps
    <3> QED
      BY <2>3, <3>1
  <2>5. CASE C = {}
    <3>1. file' = mem[r] \/ file' = file
      BY <1>1, <2>5 DEF SelectWrite, Unlocked
    <3> QED
      BY <2>2, <2>3, <3>1 DEF FileChanges, Reread
  <2>6. CASE C # {}
    <3>1. \/ file' = Selected(mem[r], s, key, ~stays, C, t)
          \/ file' = file
      BY <1>1, <2>6 DEF SelectWrite, Unlocked
    <3>2. key \in C
      <4> HIDE DEF C
      <4>1. Choose(mem[r], C, t) \in C
        BY <2>2, <2>4, <2>6, ChooseIn
      <4> QED
        BY <4>1 DEF CanStay
    <3>3. CanStay(file, s, C) => key = file.sessions[s].key
      BY <2>4 DEF CanStay
    <3>4. (~stays) \in BOOLEAN
      BY DEF CanStay
    <3> HIDE DEF C, key, s, stays
    <3>5. CASE file' = Selected(mem[r], s, key, ~stays, C, t)
      <4>1. SelectedBy(r)
        BY <2>1, <2>2, <2>3, <3>2, <3>3, <3>4, <3>5 DEF SelectedBy, s
      <4> QED
        BY <4>1 DEF FileChanges
    <3> QED
      BY <3>1, <3>5 DEF FileChanges
  <2> QED
    BY <2>5, <2>6
<1>2. ASSUME NEW r \in Requests, RecordWrite(r)
      PROVE  FileChanges
  <2>1. pc[r] = "recording" /\ lock = r
    BY <1>2 DEF RecordWrite, Core, Turn
  <2>2. PICK t \in 0..now : mem[r] = Normal(file, t)
    BY <2>1, Parameters DEF Core, Reads
  <2>3. file' = Recorded(mem[r], out[r]) \/ file' = file
    BY <1>2 DEF RecordWrite, Unlocked
  <2> QED
    BY <2>1, <2>2, <2>3 DEF FileChanges, RecordedBy
<1>3. ASSUME CommandWrite
      PROVE  FileChanges
  <2>1. lock = Operator
    BY <1>3 DEF CommandWrite
  <2>2. PICK t \in 0..now : mem[Operator] = Normal(file, t)
    BY <2>1, Parameters DEF Core, Reads
  <2>3. file' = Applied(mem[Operator], command) \/ file' = file
    BY <1>3 DEF CommandWrite, Unlocked
  <2> QED
    BY <2>1, <2>2, <2>3 DEF FileChanges, AppliedBy
<1>4. ASSUME NEW r \in Requests,
             \/ Start(r) \/ SelectRead(r) \/ Send(r) \/ RecordRead(r)
             \/ LockTimeout(r)
      PROVE  file' = file
  BY <1>4 DEF Start, SelectRead, Send, RecordRead, LockTimeout, Locked
<1>5. CASE \/ \E c \in Commands : CommandRead(c)
           \/ Tick \/ Terminating \/ UNCHANGED vars
  BY <1>5 DEF CommandRead, Tick, Terminating, Locked, vars, FileChanges
<1> QED
  BY <1>1, <1>2, <1>3, <1>4, <1>5 DEF Next, RequestStep, FileChanges

(* Whatever changes the file leaves it a state of the pool, with bindings  *)
(* within the bound and to configured keys.                                *)
LEMMA FileKept ==
    ASSUME Core, FileChanges
    PROVE  file' \in Pool /\ Bindings'
<1>1. /\ file \in Pool /\ now \in 0..MaxTime
      /\ \A t \in 0..now : t \in Nat
  <2>1. file \in Pool /\ now \in 0..MaxTime
    BY DEF Core, TypeOK
  <2> QED
    BY <2>1, Parameters
<1>2. /\ IsFiniteSet(BoundSessions(file))
      /\ Cardinality(BoundSessions(file)) <= MaxSessions
      /\ \A s \in BoundSessions(file) : file.sessions[s].key \in file.keys
  BY DEF Core, Bindings, BoundKeysExist
<1>3. \A t \in Nat : BoundSessions(Normal(file, t)) = BoundSessions(file)
  BY <1>1, NormalKeeps DEF BoundSessions
<1>4. CASE file' = file
  BY <1>1, <1>2, <1>4 DEF Bindings, BoundKeysExist, BoundSessions
<1>5. ASSUME NEW t \in 0..now, Reread(t)
      PROVE  file' \in Pool /\ Bindings'
  BY <1>1, <1>2, <1>5, NormalKeeps
     DEF Reread, Bindings, BoundKeysExist, BoundSessions
<1>6. ASSUME NEW t \in 0..now, AppliedBy(t)
      PROVE  file' \in Pool /\ Bindings'
  <2> DEFINE p == Normal(file, t)
  <2>1. p \in Pool /\ p.keys = file.keys /\ p.sessions = file.sessions
    BY <1>1, NormalKeeps
  <2>2. command \in Commands /\ file' = Applied(p, command)
    BY <1>6 DEF AppliedBy, Core, Turn
  <2> HIDE DEF p
  <2>3. file' \in Pool
    BY <2>1, <2>2, AppliedKeeps
  <2>4. ASSUME NEW s \in Sessions
        PROVE  file'.sessions[s] =
                  IF command.op = "remove"
                       /\ file.sessions[s].key = command.key
                    THEN Unbound ELSE file.sessions[s]
    BY <2>1, <2>2, AppliedKeeps
  <2>5. /\ command.op = "remove" => file'.keys = file.keys \ {command.key}
        /\ command.op # "remove" => file.keys \subseteq file'.keys
    BY <2>1, <2>2, AppliedKeeps
  <2>6. BoundSessions(file)' \subseteq BoundSessions(file)
    BY <2>4 DEF BoundSessions, Unbound
  <2>7. \A s \in BoundSessions(file)' : file'.sessions[s].key \in file'.keys
    BY <1>2, <2>4, <2>5 DEF BoundSessions, Unbound
  <2>8. /\ IsFiniteSet(BoundSessions(file)')
        /\ Cardinality(BoundSessions(file)') <= MaxSessions
    <3>1. MaxSessions \in Nat
      BY PoolAssumption
    <3> QED
      BY <1>2, <2>6, <3>1, Smaller
  <2> QED
    BY <2>3, <2>7, <2>8 DEF Bindings, BoundKeysExist
<1>7. ASSUME NEW t \in 0..now, NEW r \in Requests, RecordedBy(r, t)
      PROVE  file' \in Pool /\ Bindings'
  <2> DEFINE p == Normal(file, t)
  <2>1. p \in Pool /\ p.keys = file.keys /\ p.sessions = file.sessions
    BY <1>1, NormalKeeps
  <2>2. out[r] \in Outcome /\ file' = Recorded(p, out[r])
    BY <1>7 DEF RecordedBy, Core, Spent
  <2> HIDE DEF p
  <2>3. /\ file' \in Pool /\ file'.keys = file.keys
        /\ file'.sessions = file.sessions
    BY <2>1, <2>2, RecordedKeeps
  <2> QED
    BY <1>2, <2>3 DEF Bindings, BoundKeysExist, BoundSessions
<1>8. ASSUME NEW r \in Requests, SelectedBy(r)
      PROVE  file' \in Pool /\ Bindings'
  <2> DEFINE t == at[r]
             p == Normal(file, t)
             s == SessionOf[r]
             C == Eligible(file, t) \ Range(sent[r])
  <2>1. PICK key \in C, byPolicy \in BOOLEAN :
           file' = Selected(p, s, key, byPolicy, C, t)
    BY <1>8 DEF SelectedBy
  <2>2. C \in SUBSET KeySet /\ C \subseteq file.keys /\ t \in Nat
    BY <1>8, CandidatesOf DEF SelectedBy
  <2>3. p \in Pool /\ p.keys = file.keys /\ p.sessions = file.sessions
    <3> HIDE DEF t
    <3> QED
      BY <1>1, <2>2, NormalKeeps
  <2>4. s \in Sessions
    BY Parameters
  <2> HIDE DEF t, p, s, C
  <2>5. BoundSessions(p) = BoundSessions(file)
    BY <2>3 DEF BoundSessions
  <2> DEFINE room == WithRoomFor(s, p)
  <2>6. /\ \A u \in Sessions : \/ room.sessions[u] = p.sessions[u]
                               \/ room.sessions[u] = Unbound
        /\ IsFiniteSet(BoundSessions(room) \cup {s})
        /\ Cardinality(BoundSessions(room) \cup {s}) <= MaxSessions
    BY <1>2, <2>3, <2>4, <2>5, RoomKeeps
  <2>7. /\ file' \in Pool /\ file'.keys = p.keys
        /\ file'.sessions[s].key = key
        /\ \A u \in Sessions \ {s} : file'.sessions[u] = room.sessions[u]
        /\ BoundSessions(file') = BoundSessions(room) \cup {s}
    <3>1. C # {} /\ key \in KeySet
      BY <2>2
    <3>2. /\ IsFiniteSet(BoundSessions(p))
          /\ Cardinality(BoundSessions(p)) <= MaxSessions
      BY <1>2, <2>5
    <3>3. p \in Pool /\ s \in Sessions /\ C \in SUBSET KeySet /\ t \in Nat
      BY <2>2, <2>3, <2>4
    <3>4. Binds(p, s, key, file')
      BY <2>1, <3>1, <3>2, <3>3, SelectedKeeps
    <3> QED
      BY <3>4 DEF Binds
  <2> HIDE DEF room
  <2>8. ASSUME NEW u \in BoundSessions(file')
        PROVE  file'.sessions[u].key \in file'.keys
    <3>1. CASE u = s
      BY <2>2, <2>3, <2>7, <3>1
    <3>2. CASE u # s
      <4>1. u \in Sessions /\ file'.sessions[u].key # NoKey
        BY DEF BoundSessions
      <4>2. file'.sessions[u] = p.sessions[u]
        BY <2>6, <2>7, <3>2, <4>1 DEF Unbound
      <4>3. u \in BoundSessions(file)
        BY <2>3, <4>1, <4>2 DEF BoundSessions
      <4> QED
        BY <1>2, <2>3, <2>7, <4>2, <4>3
    <3> QED
      BY <3>1, <3>2
  <2> QED
    BY <2>6, <2>7, <2>8 DEF Bindings, BoundKeysExist, BoundSessions
<1> QED
  BY <1>4, <1>5, <1>6, <1>7, <1>8 DEF FileChanges

(* The key a call selects: one of its candidates, and its own again while  *)
(* it may stay.                                                            *)
LEMMA ChosenIn ==
    ASSUME Core, NEW r \in Requests, pc[r] = "selecting", Candidates(r) # {}
    PROVE  LET s   == SessionOf[r]
               C   == Candidates(r)
               key == IF CanStay(mem[r], s, C) THEN mem[r].sessions[s].key
                                               ELSE Choose(mem[r], C, at[r])
           IN  key \in C /\ key \in KeySet
<1> DEFINE C == Candidates(r)
           t == at[r]
<1>1. C \in SUBSET KeySet /\ t \in Nat /\ file \in Pool
  BY CandidatesOf DEF Core, TypeOK
<1>2. mem[r] = Normal(file, t)
  BY DEF Core, Reads
<1> HIDE DEF C, t
<1>3. mem[r] \in Pool
  <2>1. Normal(file, t) \in Pool
    BY <1>1, NormalKeeps
  <2> QED
    BY <1>2, <2>1
<1>4. C # {}
  BY DEF C
<1>5. Choose(mem[r], C, t) \in C
  BY <1>1, <1>3, <1>4, ChooseIn
<1> QED
  BY <1>1, <1>5 DEF CanStay, C, t

(* What a send comes back with is an outcome of its last attempt.          *)
LEMMA SentOutcome ==
    ASSUME Core, NEW r \in Requests, Send(r)
    PROVE  /\ out' = [out EXCEPT ![r] = out'[r]]
           /\ out'[r] \in Outcome /\ out'[r].at = now
           /\ out'[r].req = r /\ out'[r].n = Len(sent[r])
           /\ out'[r].key = Last(sent[r])
<1>1. PICK response \in Responses :
         out' = [out EXCEPT ![r] =
                   [req |-> r, n |-> Len(sent[r]), key |-> Last(sent[r]),
                    kind |-> response.kind, rem |-> response.rem,
                    at |-> now]]
  BY DEF Send
<1>2. out \in [Requests -> Outcome \cup {NoOutcome}] /\ now \in 0..MaxTime
  BY DEF Core, TypeOK
<1>3. /\ response.kind \in Kinds /\ response.rem \in Remaining
  BY <1>1, Parameters DEF AllResponses
<1>4. sent[r] \in Seq(KeySet) /\ Len(sent[r]) \in 1..Attempts
  <2>1. /\ sent[r] \in Seq(KeySet)
        /\ 1 <= Len(sent[r]) /\ Len(sent[r]) <= Attempts
    BY DEF Core, TypeOK, Spent, Send, Sending
  <2> QED
    BY <2>1, LenProperties, Parameters
<1>5. Last(sent[r]) \in KeySet
  BY <1>4, LenProperties DEF Last
<1>6. out'[r] = [req |-> r, n |-> Len(sent[r]), key |-> Last(sent[r]),
                 kind |-> response.kind, rem |-> response.rem, at |-> now]
  BY <1>1, <1>2
<1> QED
  BY <1>1, <1>2, <1>3, <1>4, <1>5, <1>6 DEF Outcome

(* Appending what is not yet in an injective sequence keeps it injective.  *)
LEMMA Extended ==
    ASSUME NEW q \in Seq(KeySet), IsInjective(q),
           NEW k \in KeySet, k \notin Range(q)
    PROVE  /\ IsInjective(Append(q, k))
           /\ Len(Append(q, k)) = Len(q) + 1
<1> DEFINE n == Len(q)
           w == Append(q, k)
<1>1. /\ n \in Nat /\ DOMAIN q = 1..n /\ w \in Seq(KeySet)
      /\ Len(w) = n + 1 /\ w[n + 1] = k /\ \A i \in 1..n : w[i] = q[i]
  BY LenProperties, AppendProperties
<1>2. DOMAIN w = 1..(n + 1)
  BY <1>1, LenProperties
<1>3. \A i \in 1..n : q[i] # k
  BY <1>1 DEF Range
<1> HIDE DEF w, n
<1>4. ASSUME NEW i \in 1..(n + 1), NEW j \in 1..(n + 1), w[i] = w[j]
      PROVE  i = j
  <2>1. CASE i \in 1..n /\ j \in 1..n
    BY <1>1, <1>4, <2>1 DEF IsInjective
  <2>2. CASE i = n + 1 \/ j = n + 1
    BY <1>1, <1>3, <1>4, <2>2
  <2> QED
    BY <1>1, <2>1, <2>2
<1>5. IsInjective(w)
  BY <1>2, <1>4 DEF IsInjective
<1> QED
  BY <1>1, <1>5 DEF n, w

(***************************************************************************)
(* The invariant holds at the start and is kept                            *)
(***************************************************************************)

(* It holds at the start.                                                  *)
LEMMA CoreInit == Init => Core
<1> SUFFICES ASSUME Init PROVE Core
  OBVIOUS
<1>1. file \in Pool /\ BoundSessions(file) = {}
  <2>1. PICK ks \in SUBSET KeySet \ {{}} :
           file = [keys |-> ks, paused |-> {},
                   health |-> [k \in KeySet |-> Fresh],
                   quota |-> [k \in KeySet |-> NoQuota],
                   cursor |-> 0,
                   sessions |-> [s \in Sessions |-> Unbound],
                   log |-> {}]
    BY DEF Init
  <2>2. Fresh \in [cooling : BOOLEAN, until : Nat, at : Nat, seen : BOOLEAN]
    BY DEF Fresh
  <2>3. NoQuota \in [rem : Remaining, reset : Nat, at : Nat, seen : BOOLEAN]
    BY DEF NoQuota, Remaining
  <2>4. Unbound \in [key : KeySet \cup {NoKey}, turns : Nat, at : Nat]
    BY DEF Unbound
  <2>5. file.sessions = [s \in Sessions |-> Unbound]
    BY <2>1
  <2>6. BoundSessions(file) = {}
    BY <2>5 DEF BoundSessions, Unbound
  <2> QED
    BY <2>1, <2>2, <2>3, <2>4, <2>6 DEF Pool
<1>2. TypeOK
  <2>1. /\ 0 \in 0..MaxTime /\ 0 \in 0..MaxFaults /\ 0 \in 0..MaxCommands
        /\ <<>> \in Seq(KeySet)
    BY Parameters
  <2> QED
    BY <1>1, <2>1 DEF TypeOK, Init, Labels
<1>3. Turn
  BY Parameters DEF Init, Turn, Actors
<1>4. Reads
  <2>1. lock \notin Actors
    BY Parameters DEF Init
  <2>2. \A r \in Requests : at[r] = now /\ now = 0 /\ pc[r] # "selecting"
    BY DEF Init
  <2> QED
    BY <2>1, <2>2 DEF Reads
<1>5. Spent
  <2>1. \A r \in Requests : sent[r] = <<>> /\ pc[r] = "idle"
    BY DEF Init
  <2>2. Len(<<>>) = 0 /\ IsInjective(<<>>)
    BY DEF IsInjective
  <2>3. 0 <= Attempts /\ 0 < Attempts
    BY Parameters
  <2> QED
    BY <2>1, <2>2, <2>3 DEF Spent, Choosing, Sending
<1>6. Bindings
  <2>1. IsFiniteSet({}) /\ Cardinality({}) = 0
    BY FS_EmptySet
  <2>2. 0 <= MaxSessions
    <3>1. MaxSessions \in Nat
      BY PoolAssumption
    <3> QED
      BY <3>1
  <2> QED
    BY <1>1, <2>1, <2>2 DEF Bindings, BoundKeysExist
<1> QED
  BY <1>2, <1>3, <1>4, <1>5, <1>6 DEF Core

(* Every step keeps the types.                                             *)
LEMMA TypeStep ==
    ASSUME Core, [Next]_vars
    PROVE  TypeOK'
<1>1. file' \in Pool
  BY FileSteps, FileKept
<1>2. TypeOK
  BY DEF Core
<1>3. \A t \in 0..MaxTime : Normal(file, t) \in Pool
  <2>1. \A t \in 0..MaxTime : t \in Nat
    BY Parameters
  <2> QED
    BY <1>2, <2>1, NormalKeeps DEF TypeOK
<1>4. /\ MaxFaults \in Nat /\ faults \in 0..MaxFaults
      /\ faults < MaxFaults => faults + 1 \in 0..MaxFaults
  <2>1. MaxFaults \in Nat /\ faults \in 0..MaxFaults
    BY <1>2, Parameters DEF TypeOK
  <2> QED
    BY <2>1
<1>5. ASSUME NEW a \in Actors, NEW t \in 0..MaxTime, Locked(a, t)
      PROVE  /\ mem' \in [Actors -> Pool \cup {Unread}]
             /\ lock' \in Actors \cup {Nobody} /\ faults' \in 0..MaxFaults
  BY <1>2, <1>3, <1>5 DEF Locked, TypeOK
<1>6. ASSUME NEW a \in Actors, mem' = [mem EXCEPT ![a] = Unread]
      PROVE  mem' \in [Actors -> Pool \cup {Unread}]
  BY <1>2, <1>6 DEF TypeOK
<1>7. ASSUME NEW r \in Requests, Start(r)
      PROVE  TypeOK'
  BY <1>1, <1>2, <1>7 DEF Start, Moves, TypeOK, Labels, operator
<1>8. ASSUME NEW r \in Requests, SelectRead(r)
      PROVE  TypeOK'
  <2>1. at[r] \in 0..MaxTime /\ r \in Actors
    BY <1>2, Parameters DEF TypeOK
  <2>2. Locked(r, at[r])
    BY <1>8 DEF SelectRead
  <2>3. /\ mem' \in [Actors -> Pool \cup {Unread}]
        /\ lock' \in Actors \cup {Nobody} /\ faults' \in 0..MaxFaults
    BY <1>5, <2>1, <2>2
  <2> QED
    BY <1>1, <1>2, <1>8, <2>3 DEF SelectRead, Moves, TypeOK, Labels, operator
<1>9. ASSUME NEW r \in Requests, SelectWrite(r)
      PROVE  TypeOK'
  <2> DEFINE C == Candidates(r)
             stays == CanStay(mem[r], SessionOf[r], C)
             key == IF stays THEN mem[r].sessions[SessionOf[r]].key
                             ELSE Choose(mem[r], C, at[r])
  <2>1. pc[r] = "selecting" /\ r \in Actors
    BY <1>9, Parameters DEF SelectWrite
  <2>2. /\ lock' = Nobody /\ faults' \in 0..MaxFaults
        /\ mem' = [mem EXCEPT ![r] = Unread]
    BY <1>4, <1>9 DEF SelectWrite, Unlocked
  <2>3. mem' \in [Actors -> Pool \cup {Unread}]
    BY <1>6, <2>1, <2>2
  <2>4. /\ pc' \in [Requests -> Labels]
        /\ reason' \in [Requests -> {"", "success", "failed", "no candidate",
                                     "exhausted", "not persisted", "threw"}]
    BY <1>2, <1>9 DEF SelectWrite, Ends, Moves, TypeOK, Labels
  <2>5. at' \in [Requests -> 0..MaxTime]
    <3>1. 0 \in 0..MaxTime
      BY Parameters
    <3> QED
      BY <1>2, <1>9, <3>1 DEF SelectWrite, TypeOK
  <2>6. sent' \in [Requests -> Seq(KeySet)]
    <3>1. \/ sent' = sent
          \/ C # {} /\ sent' = [sent EXCEPT ![r] = Append(@, key)]
      <4>1. Candidates(r) = {} => sent' = sent
        BY <1>9, Zenon DEF SelectWrite
      <4>2. \/ Candidates(r) = {}
            \/ sent' = sent
            \/ sent' = [sent EXCEPT ![r] = Append(@, key)]
        BY <1>9, Zenon DEF SelectWrite
      <4> QED
        BY <4>1, <4>2
    <3>2. C # {} => key \in KeySet
      BY <2>1, ChosenIn
    <3> HIDE DEF key, C
    <3>3. sent[r] \in Seq(KeySet)
      BY <1>2 DEF TypeOK
    <3>4. C # {} => Append(sent[r], key) \in Seq(KeySet)
      BY <3>2, <3>3
    <3> QED
      BY <1>2, <3>1, <3>4 DEF TypeOK
  <2>7. UNCHANGED <<now, out, command, commands>>
    BY <1>9 DEF SelectWrite, operator
  <2> QED
    BY <1>1, <1>2, <2>2, <2>3, <2>4, <2>5, <2>6, <2>7 DEF TypeOK
<1>10. ASSUME NEW r \in Requests, Send(r)
       PROVE  TypeOK'
  <2>1. out'[r] \in Outcome /\ out' = [out EXCEPT ![r] = out'[r]]
    BY <1>10, SentOutcome
  <2>2. out' \in [Requests -> Outcome \cup {NoOutcome}]
    BY <1>2, <2>1 DEF TypeOK
  <2> QED
    BY <1>1, <1>2, <1>10, <2>2 DEF Send, Moves, TypeOK, Labels, operator
<1>11. ASSUME NEW r \in Requests, RecordRead(r)
       PROVE  TypeOK'
  <2>1. now \in 0..MaxTime /\ r \in Actors
    BY <1>2, Parameters DEF TypeOK
  <2>2. Locked(r, now)
    BY <1>11 DEF RecordRead
  <2>3. /\ mem' \in [Actors -> Pool \cup {Unread}]
        /\ lock' \in Actors \cup {Nobody} /\ faults' \in 0..MaxFaults
    BY <1>5, <2>1, <2>2
  <2> QED
    BY <1>1, <1>2, <1>11, <2>3 DEF RecordRead, Moves, TypeOK, Labels, operator
<1>12. ASSUME NEW r \in Requests, RecordWrite(r)
       PROVE  TypeOK'
  <2>1. /\ lock' = Nobody /\ faults' \in 0..MaxFaults
        /\ mem' = [mem EXCEPT ![r] = Unread]
    BY <1>4, <1>12 DEF RecordWrite, Unlocked
  <2>2. mem' \in [Actors -> Pool \cup {Unread}]
    BY <1>6, <2>1, Parameters
  <2>3. /\ pc' \in [Requests -> Labels]
        /\ reason' \in [Requests -> {"", "success", "failed", "no candidate",
                                     "exhausted", "not persisted", "threw"}]
    BY <1>2, <1>12 DEF RecordWrite, NotPersisted, Ends, Moves, TypeOK, Labels
  <2> QED
    BY <1>1, <1>2, <1>12, <2>1, <2>2, <2>3 DEF RecordWrite, TypeOK, operator
<1>13. ASSUME NEW r \in Requests, LockTimeout(r)
       PROVE  TypeOK'
  <2>1. /\ pc' \in [Requests -> Labels]
        /\ reason' \in [Requests -> {"", "success", "failed", "no candidate",
                                     "exhausted", "not persisted", "threw"}]
    BY <1>2, <1>13 DEF LockTimeout, NotPersisted, Ends, TypeOK, Labels
  <2> QED
    BY <1>1, <1>2, <1>4, <1>13, <2>1 DEF LockTimeout, TypeOK, operator
<1>14. ASSUME NEW c \in Commands, CommandRead(c)
       PROVE  TypeOK'
  <2>1. now \in 0..MaxTime /\ Operator \in Actors
    BY <1>2, Parameters DEF TypeOK
  <2>2. Locked(Operator, now)
    BY <1>14 DEF CommandRead
  <2>3. /\ mem' \in [Actors -> Pool \cup {Unread}]
        /\ lock' \in Actors \cup {Nobody} /\ faults' \in 0..MaxFaults
    BY <1>5, <2>1, <2>2
  <2>4. commands' \in 0..MaxCommands
    <3>1. commands \in 0..MaxCommands /\ commands < MaxCommands
          /\ commands' = commands + 1
      BY <1>2, <1>14 DEF CommandRead, TypeOK
    <3> QED
      BY <3>1, Parameters
  <2> QED
    BY <1>1, <1>2, <1>14, <2>3, <2>4 DEF CommandRead, TypeOK, request
<1>15. ASSUME CommandWrite
       PROVE  TypeOK'
  <2>1. /\ lock' = Nobody /\ faults' \in 0..MaxFaults
        /\ mem' = [mem EXCEPT ![Operator] = Unread]
    BY <1>4, <1>15 DEF CommandWrite, Unlocked
  <2>2. mem' \in [Actors -> Pool \cup {Unread}]
    BY <1>6, <2>1, Parameters
  <2> QED
    BY <1>1, <1>2, <1>15, <2>1, <2>2 DEF CommandWrite, TypeOK, request
<1>16. ASSUME Tick
       PROVE  TypeOK'
  <2>1. now' \in 0..MaxTime
    <3>1. now \in 0..MaxTime /\ now < MaxTime /\ now' = now + 1
      BY <1>2, <1>16 DEF Tick, TypeOK
    <3> QED
      BY <3>1, Parameters
  <2> QED
    BY <1>1, <1>2, <1>16, <2>1 DEF Tick, TypeOK, request, operator
<1>17. CASE UNCHANGED vars
  BY <1>2, <1>17 DEF vars, TypeOK, request, operator
<1> QED
  BY <1>7, <1>8, <1>9, <1>10, <1>11, <1>12, <1>13, <1>14, <1>15, <1>16, <1>17
     DEF Next, RequestStep, Terminating

(* Every step keeps the lock with whoever is between reading and writing.  *)
LEMMA TurnStep ==
    ASSUME Core, [Next]_vars
    PROVE  Turn'
<1>1. Turn /\ pc \in [Requests -> Labels]
  BY DEF Core, TypeOK
<1>2. lock = Nobody =>
         \A r \in Requests : pc[r] \notin {"selecting", "recording"}
  BY <1>1, Parameters DEF Turn, Actors
<1>3. ASSUME NEW r \in Requests, Start(r)
      PROVE  Turn'
  BY <1>1, <1>3 DEF Start, Moves, Turn, operator
<1>4. ASSUME NEW r \in Requests, SelectRead(r) \/ RecordRead(r)
      PROVE  Turn'
  <2>1. lock = Nobody /\ lock' = r /\ lock' # Operator
    BY <1>4, Parameters DEF SelectRead, RecordRead, Locked
  <2>2. \A q \in Requests \ {r} : pc'[q] = pc[q]
    BY <1>1, <1>4 DEF SelectRead, RecordRead, Moves
  <2> QED
    BY <1>2, <2>1, <2>2 DEF Turn
<1>5. ASSUME NEW r \in Requests, SelectWrite(r) \/ RecordWrite(r)
      PROVE  Turn'
  <2>1. lock = r
    BY <1>1, <1>5 DEF SelectWrite, RecordWrite, Turn
  <2>2. lock' = Nobody /\ Nobody # Operator
    BY <1>5, Parameters DEF SelectWrite, RecordWrite, Unlocked
  <2>3. \A q \in Requests \ {r} : pc[q] \notin {"selecting", "recording"}
    BY <1>1, <2>1 DEF Turn
  <2>4. \E label \in {"done", "send", "backoff"} :
           pc' = [pc EXCEPT ![r] = label]
    BY <1>5 DEF SelectWrite, RecordWrite, NotPersisted, Ends, Moves
  <2>5. \A q \in Requests : pc'[q] \notin {"selecting", "recording"}
    BY <1>1, <2>3, <2>4
  <2> QED
    BY <2>2, <2>5 DEF Turn
<1>6. ASSUME NEW r \in Requests, Send(r)
      PROVE  Turn'
  BY <1>1, <1>6 DEF Send, Moves, Turn, operator
<1>7. ASSUME NEW r \in Requests, LockTimeout(r)
      PROVE  Turn'
  <2>1. pc' = [pc EXCEPT ![r] = "done"]
    BY <1>7 DEF LockTimeout, NotPersisted, Ends
  <2> QED
    BY <1>1, <1>7, <2>1 DEF LockTimeout, Turn, operator
<1>8. ASSUME NEW c \in Commands, CommandRead(c)
      PROVE  Turn'
  <2>1. lock = Nobody /\ lock' = Operator /\ command' = c
        /\ (c.op = "add" => \A r \in Requests : c.key \notin Range(sent[r]))
    BY <1>8 DEF CommandRead, Locked
  <2>2. UNCHANGED <<pc, sent>>
    BY <1>8 DEF CommandRead, request
  <2> QED
    BY <1>2, <2>1, <2>2 DEF Turn
<1>9. ASSUME CommandWrite
      PROVE  Turn'
  <2>1. lock' = Nobody /\ Nobody # Operator /\ lock = Operator
    BY <1>9, Parameters DEF CommandWrite, Unlocked
  <2>2. UNCHANGED pc
    BY <1>9 DEF CommandWrite, request
  <2>3. \A r \in Requests : pc[r] \notin {"selecting", "recording"}
    BY <1>1, <2>1, Parameters DEF Turn
  <2> QED
    BY <2>1, <2>2, <2>3 DEF Turn
<1>10. CASE Tick \/ UNCHANGED vars
  BY <1>1, <1>10 DEF Tick, vars, Turn, request, operator
<1> QED
  BY <1>3, <1>4, <1>5, <1>6, <1>7, <1>8, <1>9, <1>10
     DEF Next, RequestStep, Terminating

(* Every step keeps what the holder of the lock has read current.          *)
LEMMA ReadsStep ==
    ASSUME Core, [Next]_vars
    PROVE  Reads'
<1>1. /\ Reads /\ TypeOK /\ Turn' /\ TypeOK'
  BY TurnStep, TypeStep DEF Core
<1>2. /\ now \in 0..MaxTime /\ now \in 0..now
      /\ at \in [Requests -> 0..MaxTime] /\ \A r \in Requests : at[r] <= now
      /\ \A r \in Requests : at[r] \in 0..now
  <2>1. /\ now \in 0..MaxTime /\ at \in [Requests -> 0..MaxTime]
        /\ \A r \in Requests : at[r] <= now
    BY <1>1 DEF TypeOK, Reads
  <2>2. now \in Nat /\ \A r \in Requests : at[r] \in Nat
    BY <2>1, Parameters
  <2> QED
    BY <2>1, <2>2
<1>3. ASSUME NEW a \in Actors, NEW t \in 0..now, Locked(a, t),
             UNCHANGED <<now, at>>,
             \A r \in Requests : pc'[r] = "selecting" => r = a /\ t = at[r]
      PROVE  Reads'
  <2>1. lock' = a /\ mem'[a] = Normal(file, t) /\ file' = file
    BY <1>1, <1>3 DEF Locked, TypeOK
  <2> QED
    BY <1>2, <1>3, <2>1 DEF Reads
<1>4. ASSUME lock' = Nobody, now' = now,
             \A r \in Requests : at'[r] \in {at[r], 0}
      PROVE  Reads'
  <2>1. \A r \in Requests : pc'[r] # "selecting"
    BY <1>1, <1>4, Parameters DEF Turn, Actors
  <2>2. \A r \in Requests : at'[r] <= now'
    <3>1. 0 <= now
      BY <1>2
    <3> QED
      BY <1>2, <1>4, <3>1
  <2> QED
    BY <1>4, <2>1, <2>2, Parameters DEF Reads
<1>5. ASSUME UNCHANGED <<file, lock, mem>>, now <= now', now' \in 0..MaxTime,
             \A r \in Requests : /\ at'[r] <= now'
                                 /\ pc'[r] = "selecting" =>
                                       pc[r] = "selecting" /\ at'[r] = at[r]
      PROVE  Reads'
  <2>1. \A t \in 0..now : t \in 0..now'
    BY <1>2, <1>5
  <2>2. \A a \in Actors :
           lock = a => \E t \in 0..now : mem[a] = Normal(file, t)
    BY <1>1 DEF Reads
  <2>3. \A r \in Requests : pc[r] = "selecting" => mem[r] = Normal(file, at[r])
    BY <1>1 DEF Reads
  <2> QED
    BY <1>5, <2>1, <2>2, <2>3 DEF Reads
<1>6. ASSUME NEW r \in Requests, Start(r)
      PROVE  Reads'
  <2>1. /\ pc' = [pc EXCEPT ![r] = "select"] /\ at' = [at EXCEPT ![r] = now]
        /\ UNCHANGED <<file, lock, mem, now>>
    BY <1>6 DEF Start, Moves
  <2>2. now <= now
    BY <1>2
  <2> QED
    BY <1>1, <1>2, <1>5, <2>1, <2>2 DEF TypeOK
<1>7. ASSUME NEW r \in Requests, SelectRead(r)
      PROVE  Reads'
  <2>1. Locked(r, at[r]) /\ UNCHANGED <<now, at>> /\ r \in Actors
    BY <1>7, Parameters DEF SelectRead
  <2>2. lock' = r
    BY <2>1 DEF Locked
  <2>3. \A q \in Requests : pc'[q] = "selecting" => q = r /\ at[r] = at[q]
    BY <1>1, <2>2 DEF Turn
  <2> QED
    BY <1>2, <1>3, <2>1, <2>3
<1>8. ASSUME NEW r \in Requests, RecordRead(r)
      PROVE  Reads'
  <2>1. Locked(r, now) /\ UNCHANGED <<now, at>> /\ r \in Actors
        /\ pc' = [pc EXCEPT ![r] = "recording"]
    BY <1>8, Parameters DEF RecordRead, Moves
  <2>2. lock' = r
    BY <2>1 DEF Locked
  <2>3. \A q \in Requests : pc'[q] # "selecting"
    BY <1>1, <2>1, <2>2 DEF Turn, TypeOK
  <2> QED
    BY <1>2, <1>3, <2>1, <2>3
<1>9. ASSUME NEW r \in Requests, SelectWrite(r) \/ RecordWrite(r)
      PROVE  Reads'
  <2>1. lock' = Nobody /\ now' = now
    BY <1>9 DEF SelectWrite, RecordWrite, Unlocked
  <2>2. at' = [at EXCEPT ![r] = 0] \/ at' = at
    BY <1>9 DEF SelectWrite, RecordWrite
  <2> QED
    BY <1>2, <1>4, <2>1, <2>2
<1>10. ASSUME NEW r \in Requests, Send(r) \/ LockTimeout(r)
       PROVE  Reads'
  <2>1. /\ UNCHANGED <<file, lock, mem, now, at>>
        /\ \/ pc' = [pc EXCEPT ![r] = "record"]
           \/ pc' = [pc EXCEPT ![r] = "done"]
    BY <1>10 DEF Send, LockTimeout, NotPersisted, Ends, Moves
  <2>2. now <= now
    BY <1>2
  <2> QED
    BY <1>1, <1>2, <1>5, <2>1, <2>2 DEF TypeOK
<1>11. ASSUME NEW c \in Commands, CommandRead(c)
       PROVE  Reads'
  <2>1. Locked(Operator, now) /\ UNCHANGED <<now, at>> /\ Operator \in Actors
    BY <1>11, Parameters DEF CommandRead, request
  <2>2. lock' = Operator
    BY <2>1 DEF Locked
  <2>3. \A q \in Requests : pc'[q] # "selecting"
    BY <1>1, <2>2, Parameters DEF Turn
  <2> QED
    BY <1>2, <1>3, <2>1, <2>3
<1>12. ASSUME CommandWrite
       PROVE  Reads'
  <2>1. lock' = Nobody /\ now' = now /\ at' = at
    BY <1>12 DEF CommandWrite, Unlocked, request
  <2> QED
    BY <1>4, <2>1
<1>13. ASSUME Tick
       PROVE  Reads'
  <2>1. UNCHANGED <<file, lock, mem, pc, at>> /\ now' = now + 1
    BY <1>13 DEF Tick, request
  <2>2. now <= now' /\ \A r \in Requests : at[r] <= now'
    BY <1>2, <2>1
  <2>3. now' \in 0..MaxTime
    BY <1>1 DEF TypeOK
  <2> QED
    BY <1>5, <2>1, <2>2, <2>3
<1>14. CASE UNCHANGED vars
  BY <1>1, <1>14 DEF vars, Reads, request
<1> QED
  BY <1>6, <1>7, <1>8, <1>9, <1>10, <1>11, <1>12, <1>13, <1>14
     DEF Next, RequestStep, Terminating

(* Spent, of one call.                                                     *)
SpentBy(r) ==
    /\ Len(sent[r]) <= Attempts /\ IsInjective(sent[r])
    /\ pc[r] \in Choosing => Len(sent[r]) < Attempts
    /\ pc[r] \in Sending => 1 <= Len(sent[r])
    /\ pc[r] \in {"record", "recording"} =>
          /\ out[r] \in Outcome /\ out[r].at <= now
          /\ out[r].req = r /\ out[r].n = Len(sent[r])
          /\ out[r].key = Last(sent[r])

(* Every step keeps the attempts of a call distinct and within its limit.  *)
LEMMA SpentStep ==
    ASSUME Core, [Next]_vars
    PROVE  Spent'
<1>1. /\ TypeOK /\ TypeOK' /\ \A r \in Requests : SpentBy(r)
  BY TypeStep DEF Core, Spent, SpentBy
<1>2. \A r \in Requests : sent[r] \in Seq(KeySet) /\ Len(sent[r]) \in Nat
  BY <1>1, LenProperties DEF TypeOK
<1>3. now \in 0..MaxTime /\ now \in Nat /\ now <= now
  <2>1. now \in 0..MaxTime
    BY <1>1 DEF TypeOK
  <2> QED
    BY <2>1, Parameters
<1>4. ASSUME NEW q \in Requests, UNCHANGED <<now, pc[q], sent[q], out[q]>>
      PROVE  SpentBy(q)'
  BY <1>1, <1>4 DEF SpentBy
<1>5. ASSUME NEW r \in Requests, RequestStep(r), NEW q \in Requests \ {r}
      PROVE  SpentBy(q)'
  <2>1. /\ UNCHANGED now
        /\ \E l \in Labels : pc' = [pc EXCEPT ![r] = l]
    BY <1>5 DEF RequestStep, Start, SelectRead, SelectWrite, Send, RecordRead,
                RecordWrite, LockTimeout, NotPersisted, Ends, Moves, Labels
  <2>2. sent' = sent \/ \E s : sent' = [sent EXCEPT ![r] = s]
    BY <1>5 DEF RequestStep, Start, SelectRead, SelectWrite, Send, RecordRead,
                RecordWrite, LockTimeout
  <2>3. out' = out \/ \E o : out' = [out EXCEPT ![r] = o]
    BY <1>5 DEF RequestStep, Start, SelectRead, SelectWrite, Send, RecordRead,
                RecordWrite, LockTimeout
  <2>4. UNCHANGED <<now, pc[q], sent[q], out[q]>>
    BY <1>1, <2>1, <2>2, <2>3 DEF TypeOK
  <2> QED
    BY <1>4, <2>4
<1>6. ASSUME NEW r \in Requests, Start(r)
      PROVE  SpentBy(r)'
  <2>1. /\ pc[r] \in {"idle", "backoff"} /\ pc'[r] = "select"
        /\ UNCHANGED <<now, sent, out>>
    BY <1>1, <1>6 DEF Start, Moves, TypeOK
  <2> QED
    BY <1>1, <2>1 DEF SpentBy, Choosing, Sending
<1>7. ASSUME NEW r \in Requests, SelectRead(r)
      PROVE  SpentBy(r)'
  <2>1. /\ pc[r] = "select" /\ pc'[r] = "selecting"
        /\ UNCHANGED <<now, sent, out>>
    BY <1>1, <1>7 DEF SelectRead, Moves, TypeOK
  <2> QED
    BY <1>1, <2>1 DEF SpentBy, Choosing, Sending
<1>8. ASSUME NEW r \in Requests, SelectWrite(r)
      PROVE  SpentBy(r)'
  <2> DEFINE C == Candidates(r)
             stays == CanStay(mem[r], SessionOf[r], C)
             key == IF stays THEN mem[r].sessions[SessionOf[r]].key
                             ELSE Choose(mem[r], C, at[r])
  <2>1. pc[r] = "selecting"
    BY <1>8 DEF SelectWrite
  <2>2. Len(sent[r]) < Attempts /\ IsInjective(sent[r])
    BY <1>1, <2>1 DEF SpentBy, Choosing
  <2>3. \/ pc' = [pc EXCEPT ![r] = "done"] /\ sent' = sent
        \/ /\ Candidates(r) # {}
           /\ pc' = [pc EXCEPT ![r] = "send"]
           /\ sent' = [sent EXCEPT ![r] = Append(@, key)]
    BY <1>8, Zenon DEF SelectWrite, Ends, Moves
  <2>4. CASE pc' = [pc EXCEPT ![r] = "done"] /\ sent' = sent
    <3>1. pc'[r] = "done"
      BY <1>1, <2>4 DEF TypeOK
    <3> QED
      BY <1>1, <2>4, <3>1 DEF SpentBy, Choosing, Sending
  <2>5. CASE /\ Candidates(r) # {}
             /\ pc' = [pc EXCEPT ![r] = "send"]
             /\ sent' = [sent EXCEPT ![r] = Append(@, key)]
    <3>1. key \in Candidates(r) /\ key \in KeySet
      BY <2>1, <2>5, ChosenIn
    <3>2. key \notin Range(sent[r])
      BY <3>1 DEF Candidates
    <3> HIDE DEF key
    <3>3. pc'[r] = "send" /\ sent'[r] = Append(sent[r], key)
      BY <1>1, <2>5 DEF TypeOK
    <3>4. /\ IsInjective(Append(sent[r], key))
          /\ Len(Append(sent[r], key)) = Len(sent[r]) + 1
      BY <1>2, <2>2, <3>1, <3>2, Extended
    <3>5. Len(sent'[r]) <= Attempts /\ 1 <= Len(sent'[r])
      BY <1>2, <2>2, <3>3, <3>4, Parameters
    <3> QED
      BY <3>3, <3>4, <3>5 DEF SpentBy, Choosing, Sending
  <2> QED
    BY <2>3, <2>4, <2>5
<1>9. ASSUME NEW r \in Requests, Send(r)
      PROVE  SpentBy(r)'
  <2>1. pc[r] = "send" /\ pc'[r] = "record" /\ UNCHANGED <<now, sent>>
    BY <1>1, <1>9 DEF Send, Moves, TypeOK
  <2>2. /\ out'[r] \in Outcome /\ out'[r].at = now
        /\ out'[r].req = r /\ out'[r].n = Len(sent[r])
        /\ out'[r].key = Last(sent[r])
    BY <1>9, SentOutcome
  <2> QED
    BY <1>1, <1>3, <2>1, <2>2 DEF SpentBy, Choosing, Sending
<1>10. ASSUME NEW r \in Requests, RecordRead(r)
       PROVE  SpentBy(r)'
  <2>1. /\ pc[r] = "record" /\ pc'[r] = "recording"
        /\ UNCHANGED <<now, sent, out>>
    BY <1>1, <1>10 DEF RecordRead, Moves, TypeOK
  <2> QED
    BY <1>1, <2>1 DEF SpentBy, Choosing, Sending
<1>11. ASSUME NEW r \in Requests, RecordWrite(r)
       PROVE  SpentBy(r)'
  <2>1. /\ UNCHANGED sent
        /\ pc'[r] = "done" \/ (pc'[r] = "backoff" /\ Len(sent[r]) < Attempts)
    BY <1>1, <1>11 DEF RecordWrite, NotPersisted, Ends, Moves, TypeOK
  <2> QED
    BY <1>1, <2>1 DEF SpentBy, Choosing, Sending
<1>12. ASSUME NEW r \in Requests, LockTimeout(r)
       PROVE  SpentBy(r)'
  <2>1. UNCHANGED sent /\ pc'[r] = "done"
    BY <1>1, <1>12 DEF LockTimeout, NotPersisted, Ends, TypeOK
  <2> QED
    BY <1>1, <2>1 DEF SpentBy, Choosing, Sending
<1>13. ASSUME NEW r \in Requests, RequestStep(r)
       PROVE  \A q \in Requests : SpentBy(q)'
  BY <1>5, <1>6, <1>7, <1>8, <1>9, <1>10, <1>11, <1>12, <1>13 DEF RequestStep
<1>14. ASSUME \/ \E c \in Commands : CommandRead(c)
              \/ CommandWrite \/ UNCHANGED vars
       PROVE  \A q \in Requests : SpentBy(q)'
  <2>1. UNCHANGED <<now, request>>
    BY <1>14 DEF CommandRead, CommandWrite, vars
  <2> QED
    BY <1>4, <2>1 DEF request
<1>15. ASSUME Tick, NEW q \in Requests
       PROVE  SpentBy(q)'
  <2>1. UNCHANGED <<pc, sent, out>> /\ now' = now + 1
    BY <1>15 DEF Tick, request
  <2>2. \A o \in Outcome : o.at <= now => o.at <= now'
    <3> SUFFICES ASSUME NEW o \in Outcome, o.at <= now PROVE o.at <= now'
      OBVIOUS
    <3>1. o.at \in 0..MaxTime
      BY DEF Outcome
    <3>2. o.at \in Nat
      BY <3>1, Parameters
    <3> QED
      BY <1>3, <2>1, <3>2
  <2> QED
    BY <1>1, <2>1, <2>2 DEF SpentBy
<1> QED
  BY <1>13, <1>14, <1>15 DEF Next, Terminating, Spent, SpentBy

(* The invariant, for every behaviour.                                     *)
THEOREM Invariance == Spec => []Core
<1>1. Core /\ [Next]_vars => Core'
  BY TypeStep, TurnStep, ReadsStep, SpentStep, FileSteps, FileKept DEF Core
<1> QED
  BY CoreInit, <1>1, PTL DEF Spec

(* The state of the pool has its type: also a file that many writers       *)
(* rewrote from their own readings is a state the schema admits.           *)
THEOREM TypeCorrect == Spec => []TypeOK
<1>1. Core => TypeOK
  BY DEF Core
<1> QED
  BY Invariance, <1>1, PTL

(* One call never sends with a key twice, and at most Attempts times,      *)
(* whatever other requests and operators write between its attempts.       *)
THEOREM NoKeyTwice == Spec => []AttemptsDistinct
<1>1. Core => AttemptsDistinct
  BY DEF Core, Spent, AttemptsDistinct
<1> QED
  BY Invariance, <1>1, PTL

(* Threads are bound to configured keys only, and there are never more     *)
(* bindings than the file admits.                                          *)
THEOREM BindingsSound == Spec => []BoundKeysExist
<1>1. Core => BoundKeysExist
  BY DEF Core, Bindings
<1> QED
  BY Invariance, <1>1, PTL

(***************************************************************************)
(* What the file knows of a key                                            *)
(***************************************************************************)

(* What a reading at time t makes of what is known of a key's health.      *)
Heard(h, g, t) ==
    /\ g.at = h.at /\ g.seen = h.seen
    /\ h.until <= t => g.until = 0 /\ g.cooling = FALSE
    /\ h.until > t => g.until = h.until /\ g.cooling = h.cooling

HealthType == [cooling : BOOLEAN, until : Nat, at : Nat, seen : BOOLEAN]
QuotaType  == [rem : Remaining, reset : Nat, at : Nat, seen : BOOLEAN]

(* Nothing new is learnt of the key.                                       *)
Quiet(k) ==
    /\ file'.quota[k] = file.quota[k]
    /\ \/ file'.health[k] = file.health[k]
       \/ \E t \in 0..now : Heard(file.health[k], file'.health[k], t)

(* The outcome o is learnt of its key.                                     *)
Noted(o) ==
    /\ o \in Outcome /\ o.at <= now
    /\ file'.quota[o.key] = QuotaAfter(file.quota[o.key], o)
    /\ \E t \in 0..now, g \in HealthType :
          /\ Heard(file.health[o.key], g, t)
          /\ file'.health[o.key] = HealthAfter(g, o)

Learns ==
    \/ file'.log = file.log /\ \A k \in KeySet : Quiet(k)
    \/ \E o \in Outcome :
          /\ file'.log = file.log \cup {o} /\ Noted(o)
          /\ \A k \in KeySet \ {o.key} : Quiet(k)

(* A step learns one outcome of one key, or nothing; and it brings back no *)
(* key that a call has sent with.                                          *)
LEMMA LearnsStep ==
    ASSUME Core, FileChanges
    PROVE  /\ Learns
           /\ \A r \in Requests :
                 Range(sent[r]) \cap file'.keys \subseteq file.keys
           /\ \A r \in Requests, t \in 0..now :
                 RecordedBy(r, t) /\ out[r].key \in file.keys =>
                     out[r] \in file'.log
<1> DEFINE Kept == \A r \in Requests :
                      Range(sent[r]) \cap file'.keys \subseteq file.keys
           Hears(p, t) == /\ p \in Pool /\ p.quota = file.quota
                          /\ p.log = file.log /\ p.keys = file.keys
                          /\ \A k \in KeySet :
                                Heard(file.health[k], p.health[k], t)
<1>1. file \in Pool /\ now \in 0..MaxTime /\ \A t \in 0..now : t \in Nat
  <2>1. file \in Pool /\ now \in 0..MaxTime
    BY DEF Core, TypeOK
  <2> QED
    BY <2>1, Parameters
<1>2. \A t \in 0..now : Hears(Normal(file, t), t)
  BY <1>1, NormalKeeps DEF Heard
<1>3. ASSUME file' = file
      PROVE  Learns /\ Kept
  BY <1>3 DEF Learns, Quiet
<1>4. ASSUME NEW t \in 0..now, NEW p, Hears(p, t),
             /\ file'.quota = p.quota /\ file'.log = p.log
             /\ file'.health = p.health
      PROVE  Learns
  BY <1>4 DEF Learns, Quiet
<1>5. ASSUME NEW t \in 0..now, Reread(t)
      PROVE  Learns /\ Kept
  <2>1. Hears(Normal(file, t), t) /\ file' = Normal(file, t)
    BY <1>2, <1>5 DEF Reread
  <2> QED
    BY <1>4, <2>1
<1>6. ASSUME NEW t \in 0..now, AppliedBy(t)
      PROVE  Learns /\ Kept
  <2>1. PICK p : p = Normal(file, t)
    OBVIOUS
  <2>2. Hears(p, t)
    BY <1>2, <2>1
  <2>3. /\ command \in Commands /\ file' = Applied(p, command)
        /\ command.op = "add" =>
              \A r \in Requests : command.key \notin Range(sent[r])
    BY <1>6, <2>1 DEF AppliedBy, Core, Turn
  <2>4. /\ file'.quota = p.quota /\ file'.log = p.log
        /\ file'.health = p.health
        /\ file'.keys \subseteq
              p.keys \cup (IF command.op = "add" THEN {command.key} ELSE {})
    BY <2>2, <2>3, AppliedKeeps
  <2> QED
    BY <1>4, <2>2, <2>3, <2>4
<1>7. ASSUME NEW r \in Requests, SelectedBy(r)
      PROVE  Learns /\ Kept
  <2>1. PICK p : p = Normal(file, at[r])
    OBVIOUS
  <2>2. at[r] \in 0..now
    BY <1>7, CandidatesOf DEF SelectedBy
  <2>3. Hears(p, at[r])
    BY <1>2, <2>1, <2>2
  <2>4. PICK C, key, byPolicy :
              file' = Selected(p, SessionOf[r], key, byPolicy, C, at[r])
    BY <1>7, <2>1 DEF SelectedBy
  <2>5. file'.keys = p.keys /\ file'.quota = p.quota
        /\ file'.health = p.health /\ file'.log = p.log
    BY <2>3, <2>4 DEF Selected, WithRoomFor, Pool
  <2> QED
    BY <1>4, <2>2, <2>3, <2>5
<1>8. ASSUME NEW t \in 0..now, NEW r \in Requests, RecordedBy(r, t)
      PROVE  /\ Learns /\ Kept
             /\ out[r].key \in file.keys => out[r] \in file'.log
  <2>1. PICK p : p = Normal(file, t)
    OBVIOUS
  <2>2. Hears(p, t)
    BY <1>2, <2>1
  <2>3. PICK o \in Outcome : o = out[r] /\ o.at <= now
    BY <1>8 DEF RecordedBy, Core, Spent
  <2>4. file' = Recorded(p, o) /\ o.key \in KeySet
    BY <1>8, <2>1, <2>3 DEF RecordedBy, Outcome
  <2>5. file'.keys = file.keys
    BY <2>2, <2>4, RecordedKeeps
  <2>6. CASE o.key \notin file.keys
    <3>1. file' = p
      BY <2>2, <2>4, <2>6, RecordedKeeps
    <3> QED
      BY <1>4, <2>2, <2>3, <2>5, <2>6, <3>1
  <2>7. CASE o.key \in file.keys
    <3>1. /\ file'.log = file.log \cup {o}
          /\ file'.quota[o.key] = QuotaAfter(file.quota[o.key], o)
          /\ file'.health[o.key] = HealthAfter(p.health[o.key], o)
      BY <2>2, <2>4, <2>7, RecordedKeeps
    <3>2. \A k \in KeySet \ {o.key} : /\ file'.quota[k] = file.quota[k]
                                      /\ file'.health[k] = p.health[k]
      BY <2>2, <2>4, RecordedKeeps
    <3>3. p.health[o.key] \in HealthType
      BY <2>2, <2>4 DEF Pool, HealthType
    <3>4. Noted(o)
      BY <2>2, <2>3, <2>4, <3>1, <3>3 DEF Noted
    <3>5. \A k \in KeySet \ {o.key} : Quiet(k)
      BY <2>2, <3>2 DEF Quiet
    <3>6. Learns
      BY <3>1, <3>4, <3>5 DEF Learns
    <3> QED
      BY <2>3, <2>5, <3>1, <3>6
  <2> QED
    BY <2>6, <2>7
<1> QED
  BY <1>3, <1>5, <1>6, <1>7, <1>8 DEF FileChanges

(* The quota a file holds of a key is that of the newest complete window   *)
(* reported of it, the smallest of them.                                   *)
Told(o, k) == o.key = k /\ o.rem # NoneSeen

QuotaFits(k) ==
    LET q == file.quota[k]
    IN  /\ q.seen => \E o \in file.log : /\ Told(o, k)
                                         /\ o.at = q.at /\ o.rem = q.rem
        /\ \A o \in file.log : Told(o, k) =>
              /\ q.seen
              /\ o.at < q.at \/ (o.at = q.at /\ q.rem <= o.rem)

(* Whatever changes the file keeps that.                                   *)
LEMMA QuotaStep ==
    ASSUME Core, FileChanges, NEW k \in KeySet, QuotaFits(k)
    PROVE  QuotaFits(k)'
<1>1. Learns
  BY LearnsStep
<1>2. /\ file.quota[k] \in QuotaType /\ file.log \subseteq Outcome
      /\ \A o \in Outcome : o.at \in Nat /\ o.rem \in Nat
      /\ file.quota[k].at \in Nat /\ file.quota[k].rem \in Nat
  <2>1. file \in Pool
    BY DEF Core, TypeOK
  <2>2. file.quota[k] \in QuotaType /\ file.log \subseteq Outcome
    BY <2>1 DEF Pool, QuotaType
  <2>3. Remaining \subseteq Nat
    BY DEF Remaining, NoneSeen
  <2>4. \A o \in Outcome : o.at \in 0..MaxTime /\ o.rem \in Remaining
    BY DEF Outcome
  <2>5. 0..MaxTime \subseteq Nat
    BY Parameters
  <2> QED
    BY <2>2, <2>3, <2>4, <2>5 DEF QuotaType
<1>3. CASE file'.log = file.log /\ Quiet(k)
  BY <1>3 DEF QuotaFits, Quiet
<1>4. ASSUME NEW o \in Outcome, o.key # k,
             file'.log = file.log \cup {o}, Quiet(k)
      PROVE  QuotaFits(k)'
  BY <1>4 DEF QuotaFits, Quiet, Told
<1>5. ASSUME NEW o \in Outcome, o.key = k,
             file'.log = file.log \cup {o}, Noted(o)
      PROVE  QuotaFits(k)'
  <2> DEFINE q == file.quota[k]
             new == file'.quota[k]
  <2>1. new = QuotaAfter(q, o)
    BY <1>5 DEF Noted
  <2>2. /\ q.seen => \E p \in file.log : /\ Told(p, k)
                                         /\ p.at = q.at /\ p.rem = q.rem
        /\ \A p \in file.log : Told(p, k) =>
              /\ q.seen
              /\ p.at < q.at \/ (p.at = q.at /\ q.rem <= p.rem)
    BY DEF QuotaFits
  <2>3. q.at \in Nat /\ q.rem \in Nat /\ o.at \in Nat /\ o.rem \in Nat
    BY <1>2
  <2>4. \A p \in file.log : p.at \in Nat /\ p.rem \in Nat
    BY <1>2
  <2> HIDE DEF q
  <2>5. CASE ~Told(o, k)
    <3>1. new = q
      BY <1>5, <2>1, <2>5 DEF QuotaAfter, Told
    <3> QED
      BY <1>5, <2>2, <2>5, <3>1 DEF QuotaFits
  <2>6. CASE Told(o, k) /\ QuotaAdvances(q, o)
    <3>1. new.rem = o.rem /\ new.at = o.at /\ new.seen
      BY <2>1, <2>6 DEF QuotaAfter, Told
    <3>2. ASSUME NEW p \in file.log, Told(p, k)
          PROVE  p.at < o.at \/ (p.at = o.at /\ o.rem <= p.rem)
      <4>1. q.seen /\ (p.at < q.at \/ (p.at = q.at /\ q.rem <= p.rem))
        BY <2>2, <3>2
      <4>2. o.at > q.at \/ (o.at = q.at /\ o.rem < q.rem)
        BY <2>6, <4>1 DEF QuotaAdvances
      <4>3. p.at \in Nat /\ p.rem \in Nat
        BY <2>4
      <4> QED
        BY <2>3, <4>1, <4>2, <4>3
    <3>3. o.rem <= o.rem
      BY <2>3
    <3> QED
      BY <1>5, <2>6, <3>1, <3>2, <3>3 DEF QuotaFits
  <2>7. CASE Told(o, k) /\ ~QuotaAdvances(q, o)
    <3>1. new = q
      BY <2>1, <2>7 DEF QuotaAfter
    <3>2. q.seen /\ (o.at < q.at \/ (o.at = q.at /\ q.rem <= o.rem))
      BY <2>3, <2>7 DEF QuotaAdvances
    <3> QED
      BY <1>5, <2>2, <3>1, <3>2 DEF QuotaFits
  <2> QED
    BY <2>5, <2>6, <2>7
<1> QED
  BY <1>1, <1>3, <1>4, <1>5 DEF Learns

(* The health h a file holds of a key whose outcomes are those of log is   *)
(* the health after the newest of them: unless one of those neither        *)
(* succeeded nor asks for a cooldown, it cools down as long as one of the  *)
(* failures among them asks, or that time is over.                         *)
Asks(o)        == CooldownOf(o.kind) > 0
Until(o)       == o.at + CooldownOf(o.kind)
Latest(h, k, o) == o.key = k /\ o.at = h.at

HealthFits(h, log, k, time) ==
    /\ h.seen => \E o \in log : Latest(h, k, o)
    /\ \A o \in log : o.key = k => h.seen /\ o.at <= h.at
    /\ h.cooling => h.seen
    /\ ~h.cooling => h.until = 0
    /\ /\ h.cooling \/ \E o \in log : Latest(h, k, o) /\ Asks(o)
       /\ \A o \in log : Latest(h, k, o) => Asks(o) \/ o.kind = "ok"
       => \E o \in log : /\ Latest(h, k, o) /\ Asks(o)
                         /\ Until(o) <= time \/ h.until >= Until(o)

(* The end of a cooldown is a time.                                        *)
LEMMA UntilType ==
    ASSUME NEW o \in Outcome
    PROVE  Until(o) \in Nat
<1>1. o.at \in 0..MaxTime
  BY DEF Outcome
<1>2. o.at \in Nat /\ CooldownOf(o.kind) \in Nat
  BY <1>1, Parameters DEF CooldownOf
<1> QED
  BY <1>2 DEF Until

(* Reading the file keeps the fit.                                         *)
LEMMA HeardFits ==
    ASSUME NEW h \in HealthType, NEW g \in HealthType,
           NEW log \in SUBSET Outcome, NEW k, NEW time \in Nat,
           NEW t \in 0..time, Heard(h, g, t), HealthFits(h, log, k, time)
    PROVE  HealthFits(g, log, k, time)
<1>1. /\ h.until \in Nat /\ g.until \in Nat /\ g.at = h.at /\ g.seen = h.seen
      /\ t \in Nat /\ t <= time
  BY DEF HealthType, Heard
<1>2. CASE h.until > t
  <2>1. g.until = h.until /\ g.cooling = h.cooling
    BY <1>2 DEF Heard
  <2> QED
    BY <1>1, <2>1 DEF HealthFits, Latest
<1>3. CASE h.until <= t
  <2>1. g.until = 0 /\ ~g.cooling
    BY <1>3 DEF Heard
  <2>2. \A o \in Outcome : h.until >= Until(o) => Until(o) <= time
    <3> SUFFICES ASSUME NEW o \in Outcome, h.until >= Until(o)
                 PROVE  Until(o) <= time
      OBVIOUS
    <3>1. Until(o) \in Nat
      BY UntilType
    <3> QED
      BY <1>1, <1>3, <3>1
  <2>3. \A o : Latest(g, k, o) <=> Latest(h, k, o)
    BY <1>1 DEF Latest
  <2>4. /\ h.seen => \E o \in log : Latest(h, k, o)
        /\ \A o \in log : o.key = k => h.seen /\ o.at <= h.at
        /\ /\ \E o \in log : Latest(h, k, o) /\ Asks(o)
           /\ \A o \in log : Latest(h, k, o) => Asks(o) \/ o.kind = "ok"
           => \E o \in log : /\ Latest(h, k, o) /\ Asks(o)
                             /\ Until(o) <= time \/ h.until >= Until(o)
    BY DEF HealthFits
  <2> QED
    BY <1>1, <2>1, <2>2, <2>3, <2>4 DEF HealthFits
<1> QED
  BY <1>1, <1>2, <1>3

(* So does the passing of time.                                            *)
LEMMA LaterFits ==
    ASSUME NEW h, NEW log \in SUBSET Outcome, NEW k, NEW time \in Nat,
           NEW later \in Nat, time <= later, HealthFits(h, log, k, time)
    PROVE  HealthFits(h, log, k, later)
<1>1. \A o \in Outcome : Until(o) <= time => Until(o) <= later
  <2> SUFFICES ASSUME NEW o \in Outcome, Until(o) <= time
               PROVE  Until(o) <= later
    OBVIOUS
  <2>1. Until(o) \in Nat
    BY UntilType
  <2> QED
    BY <2>1
<1> QED
  BY <1>1 DEF HealthFits

(* And an outcome of another key.                                          *)
LEMMA OtherFits ==
    ASSUME NEW h, NEW log \in SUBSET Outcome, NEW k, NEW time \in Nat,
           NEW o \in Outcome, o.key # k, HealthFits(h, log, k, time)
    PROVE  HealthFits(h, log \cup {o}, k, time)
  BY DEF HealthFits, Latest

(* An outcome of the key itself changes its health so that it fits again.  *)
LEMMA AfterFits ==
    ASSUME NEW h \in HealthType, NEW log \in SUBSET Outcome,
           NEW time \in Nat, NEW o \in Outcome,
           HealthFits(h, log, o.key, time)
    PROVE  HealthFits(HealthAfter(h, o), log \cup {o}, o.key, time)
<1> DEFINE k   == o.key
           new == HealthAfter(h, o)
           all == log \cup {o}
<1>1. /\ h.seen => \E p \in log : Latest(h, k, p)
      /\ \A p \in log : p.key = k => h.seen /\ p.at <= h.at
      /\ h.cooling => h.seen
      /\ ~h.cooling => h.until = 0
      /\ /\ h.cooling \/ \E p \in log : Latest(h, k, p) /\ Asks(p)
         /\ \A p \in log : Latest(h, k, p) => Asks(p) \/ p.kind = "ok"
         => \E p \in log : /\ Latest(h, k, p) /\ Asks(p)
                           /\ Until(p) <= time \/ h.until >= Until(p)
  BY DEF HealthFits
<1>2. h.at \in Nat /\ o.at \in Nat /\ \A p \in log : p.at \in Nat
  <2>1. \A p \in Outcome : p.at \in 0..MaxTime
    BY DEF Outcome
  <2>2. \A p \in Outcome : p.at \in Nat
    BY <2>1, Parameters
  <2> QED
    BY <2>2 DEF HealthType
<1>3. Asks(o) => o.kind # "ok"
  BY DEF Asks, CooldownOf
<1>4. CASE ~HealthAdvances(h, o)
  <2>1. new = h
    BY <1>4 DEF HealthAfter
  <2>2. /\ h.seen /\ o.at <= h.at
        /\ o.at = h.at => o.kind = "ok" \/ h.cooling
    BY <1>2, <1>4 DEF HealthAdvances
  <2>3. ASSUME h.cooling \/ \E p \in all : Latest(h, k, p) /\ Asks(p),
               \A p \in all : Latest(h, k, p) => Asks(p) \/ p.kind = "ok"
        PROVE  h.cooling \/ \E p \in log : Latest(h, k, p) /\ Asks(p)
    BY <1>3, <2>2, <2>3 DEF Latest
  <2>4. ASSUME h.cooling \/ \E p \in all : Latest(h, k, p) /\ Asks(p),
               \A p \in all : Latest(h, k, p) => Asks(p) \/ p.kind = "ok"
        PROVE  \E p \in all : /\ Latest(h, k, p) /\ Asks(p)
                              /\ Until(p) <= time \/ h.until >= Until(p)
    BY <1>1, <2>3, <2>4
  <2> QED
    BY <1>1, <2>1, <2>2, <2>4 DEF HealthFits
<1>5. CASE HealthAdvances(h, o)
  <2>1. new.at = o.at /\ new.seen
    BY <1>5 DEF HealthAfter, Fresh, HealthType
  <2>2. \A p \in all : p.key = k => new.seen /\ p.at <= new.at
    <3> SUFFICES ASSUME NEW p \in all, p.key = k PROVE p.at <= o.at
      BY <2>1
    <3>1. CASE p = o
      BY <1>2, <3>1
    <3>2. CASE p \in log
      <4>1. h.seen /\ p.at <= h.at
        BY <1>1, <3>2
      <4>2. h.at <= o.at
        BY <1>2, <1>5, <4>1 DEF HealthAdvances
      <4> QED
        BY <1>2, <3>2, <4>1, <4>2
    <3> QED
      BY <3>1, <3>2
  <2>3. o \in all /\ Latest(new, k, o)
    BY <2>1 DEF Latest
  <2>4. CASE o.kind = "ok"
    <3>1. ~new.cooling /\ new.until = 0
      <4>1. new = [Fresh EXCEPT !.at = o.at, !.seen = TRUE]
        BY <1>3, <1>5, <2>4 DEF HealthAfter, Asks
      <4> HIDE DEF new
      <4>2. new = [cooling |-> FALSE, until |-> 0, at |-> o.at, seen |-> TRUE]
        BY <4>1 DEF Fresh
      <4> QED
        BY <4>2
    <3>2. \A p \in all : ~(Latest(new, k, p) /\ Asks(p))
      <4> SUFFICES ASSUME NEW p \in all, Latest(new, k, p), Asks(p)
                   PROVE  FALSE
        OBVIOUS
      <4>1. p \in log /\ p.at = o.at /\ p.key = k
        BY <1>3, <2>1, <2>4 DEF Latest
      <4>2. h.seen /\ p.at <= h.at
        BY <1>1, <4>1
      <4>3. o.at > h.at
        BY <1>2, <1>5, <2>4, <4>2 DEF HealthAdvances
      <4> QED
        BY <1>2, <4>1, <4>2, <4>3
    <3> QED
      BY <2>1, <2>2, <2>3, <3>1, <3>2 DEF HealthFits
  <2>5. CASE o.kind # "ok" /\ Asks(o)
    <3>1. new.cooling /\ new.until = Until(o)
      BY <1>5, <2>5 DEF HealthAfter, Asks, Until
    <3>2. Until(o) >= Until(o)
      <4>1. Until(o) \in Nat
        BY UntilType
      <4> QED
        BY <4>1
    <3> QED
      BY <2>1, <2>2, <2>3, <2>5, <3>1, <3>2 DEF HealthFits
  <2>6. CASE o.kind # "ok" /\ ~Asks(o)
    <3>1. new.cooling = h.cooling /\ new.until = h.until
      BY <1>5, <2>6 DEF HealthAfter, Asks, HealthType
    <3> QED
      BY <1>1, <2>1, <2>2, <2>3, <2>6, <3>1 DEF HealthFits
  <2> QED
    BY <2>4, <2>5, <2>6
<1> QED
  BY <1>4, <1>5

(* What the file knows fits the outcomes it accounts for, of every key.    *)
Knowledge ==
    \A k \in KeySet : /\ QuotaFits(k)
                      /\ HealthFits(file.health[k], file.log, k, now)

(* An empty file knows nothing of an empty log.                            *)
LEMMA KnowledgeInit == Init => Knowledge
<1> SUFFICES ASSUME Init, NEW k \in KeySet
             PROVE  /\ QuotaFits(k)
                    /\ HealthFits(file.health[k], file.log, k, now)
  BY DEF Knowledge
<1>1. /\ file.health[k] = Fresh /\ file.quota[k] = NoQuota /\ file.log = {}
  <2>1. PICK ks \in SUBSET KeySet \ {{}} :
           file = [keys |-> ks, paused |-> {},
                   health |-> [j \in KeySet |-> Fresh],
                   quota |-> [j \in KeySet |-> NoQuota],
                   cursor |-> 0,
                   sessions |-> [s \in Sessions |-> Unbound],
                   log |-> {}]
    BY DEF Init
  <2> QED
    BY <2>1
<1>2. QuotaFits(k)
  BY <1>1 DEF QuotaFits, NoQuota
<1>3. HealthFits(Fresh, {}, k, now)
  BY DEF HealthFits, Fresh
<1> QED
  BY <1>1, <1>2, <1>3

(* Time does not go back.                                                  *)
LEMMA NowGrows ==
    ASSUME Core, [Next]_vars
    PROVE  now \in Nat /\ now' \in Nat /\ now <= now'
<1>1. now \in 0..MaxTime
  BY DEF Core, TypeOK
<1>2. now \in Nat
  BY <1>1, Parameters
<1>3. now' = now \/ now' = now + 1
  BY DEF Next, RequestStep, Start, SelectRead, SelectWrite, Send, RecordRead,
         RecordWrite, LockTimeout, CommandRead, CommandWrite, Tick,
         Terminating, vars
<1> QED
  BY <1>2, <1>3

(* Every step keeps what the file knows in line with its outcomes.         *)
LEMMA KnowledgeStep ==
    ASSUME Core, Knowledge, [Next]_vars
    PROVE  Knowledge'
<1>1. FileChanges
  BY FileSteps
<1>2. /\ Learns /\ now \in Nat /\ now' \in Nat /\ now <= now'
      /\ file' \in Pool
  BY <1>1, LearnsStep, NowGrows, FileKept
<1>3. SUFFICES ASSUME NEW k \in KeySet
               PROVE  /\ QuotaFits(k)'
                      /\ HealthFits(file'.health[k], file'.log, k, now')
  BY DEF Knowledge
<1>4. QuotaFits(k)'
  BY <1>1, QuotaStep DEF Knowledge
<1> DEFINE h == file.health[k]
           new == file'.health[k]
<1>5. /\ h \in HealthType /\ new \in HealthType
      /\ file.log \in SUBSET Outcome /\ file'.log \in SUBSET Outcome
      /\ HealthFits(h, file.log, k, now)
  <2>1. file \in Pool
    BY DEF Core, TypeOK
  <2> QED
    BY <1>2, <2>1 DEF Pool, HealthType, Knowledge
<1> HIDE DEF h, new
<1>6. HealthFits(new, file'.log, k, now)
  <2>1. ASSUME Quiet(k)
        PROVE  HealthFits(new, file.log, k, now)
    <3>1. CASE new = h
      BY <1>5, <3>1
    <3>2. ASSUME NEW t \in 0..now, Heard(h, new, t)
          PROVE  HealthFits(new, file.log, k, now)
      BY <1>2, <1>5, <3>2, HeardFits
    <3> QED
      BY <2>1, <3>1, <3>2 DEF Quiet, h, new
  <2>2. CASE file'.log = file.log /\ Quiet(k)
    BY <2>1, <2>2
  <2>3. ASSUME NEW o \in Outcome, o.key # k,
               file'.log = file.log \cup {o}, Quiet(k)
        PROVE  HealthFits(new, file'.log, k, now)
    BY <1>2, <1>5, <2>1, <2>3, OtherFits
  <2>4. ASSUME NEW o \in Outcome, o.key = k,
               file'.log = file.log \cup {o}, Noted(o)
        PROVE  HealthFits(new, file'.log, k, now)
    <3>1. PICK t \in 0..now, g \in HealthType :
             Heard(h, g, t) /\ new = HealthAfter(g, o)
      BY <2>4 DEF Noted, h, new
    <3>2. HealthFits(g, file.log, o.key, now)
      BY <1>2, <1>5, <2>4, <3>1, HeardFits
    <3>3. HealthFits(HealthAfter(g, o), file.log \cup {o}, o.key, now)
      BY <1>2, <1>5, <3>2, AfterFits
    <3> QED
      BY <2>4, <3>1, <3>3
  <2> QED
    BY <1>2, <2>2, <2>3, <2>4 DEF Learns
<1>7. HealthFits(new, file'.log, k, now')
  BY <1>2, <1>5, <1>6, LaterFits
<1> QED
  BY <1>4, <1>7 DEF new

(* What the file knows fits its outcomes, in every behaviour.              *)
THEOREM KnowledgeFits == Spec => []Knowledge
<1>1. Core /\ Knowledge /\ [Next]_vars => Knowledge'
  BY KnowledgeStep
<1> QED
  BY Invariance, KnowledgeInit, <1>1, PTL DEF Spec

(* A key whose newest outcomes include a failure that asks for a cooldown, *)
(* and otherwise only successes, cools down as long as one of those        *)
(* failures asks, in whatever order concurrent calls took the lock.        *)
THEOREM FailureHolds == Spec => []LatestFailureHolds
<1>1. Core /\ Knowledge => LatestFailureHolds
  <2> SUFFICES ASSUME Core, Knowledge, NEW k \in file.keys
               PROVE
        LET cooled == {o \in Newest(k) : CooldownOf(o.kind) > 0}
        IN  /\ cooled # {}
            /\ \A o \in Newest(k) \ cooled : o.kind = "ok"
            => \E o \in cooled :
                  LET until == o.at + CooldownOf(o.kind)
                  IN  until <= now \/ file.health[k].until >= until
    BY DEF LatestFailureHolds
  <2> DEFINE h == file.health[k]
             log == file.log
  <2>1. k \in KeySet /\ h \in HealthType /\ log \subseteq Outcome
    <3>1. file \in Pool
      BY DEF Core, TypeOK
    <3> QED
      BY <3>1 DEF Pool, HealthType
  <2>2. HealthFits(h, log, k, now)
    BY <2>1 DEF Knowledge
  <2>3. \A o \in log : o.at \in Nat
    <3>1. \A o \in Outcome : o.at \in 0..MaxTime
      BY DEF Outcome
    <3> QED
      BY <2>1, <3>1, Parameters
  <2>4. h.at \in Nat
    BY <2>1 DEF HealthType
  <2> HIDE DEF h, log
  <2>5. \A o : o \in Newest(k) <=> o \in log /\ Latest(h, k, o)
    <3>1. ASSUME NEW o \in Newest(k)
          PROVE  o \in log /\ Latest(h, k, o)
      <4>1. /\ o \in log /\ o.key = k
            /\ \A p \in log : p.key = k => p.at <= o.at
        BY DEF Newest, log
      <4>2. h.seen /\ o.at <= h.at
        BY <2>2, <4>1 DEF HealthFits
      <4>3. PICK p \in log : Latest(h, k, p)
        BY <2>2, <4>2 DEF HealthFits
      <4>4. h.at <= o.at
        BY <4>1, <4>3 DEF Latest
      <4>5. o.at = h.at
        BY <2>3, <2>4, <4>1, <4>2, <4>4
      <4> QED
        BY <4>1, <4>5 DEF Latest
    <3>2. ASSUME NEW o \in log, Latest(h, k, o)
          PROVE  o \in Newest(k)
      <4>1. o.key = k /\ o.at = h.at
        BY <3>2 DEF Latest
      <4>2. \A p \in log : p.key = k => p.at <= h.at
        BY <2>2 DEF HealthFits
      <4> QED
        BY <4>1, <4>2 DEF Newest, log
    <3> QED
      BY <3>1, <3>2
  <2> DEFINE cooled == {o \in Newest(k) : CooldownOf(o.kind) > 0}
  <2>6. \A o : o \in cooled <=> o \in log /\ Latest(h, k, o) /\ Asks(o)
    BY <2>5 DEF Asks
  <2> HIDE DEF cooled
  <2>7. ASSUME cooled # {}, \A o \in Newest(k) \ cooled : o.kind = "ok"
        PROVE  \E o \in cooled : Until(o) <= now \/ h.until >= Until(o)
    <3>1. \E o \in log : Latest(h, k, o) /\ Asks(o)
      BY <2>6, <2>7
    <3>2. \A o \in log : Latest(h, k, o) => Asks(o) \/ o.kind = "ok"
      BY <2>5, <2>6, <2>7
    <3> QED
      BY <2>2, <2>6, <3>1, <3>2 DEF HealthFits
  <2> QED
    BY <2>7 DEF cooled, h, Until
<1> QED
  BY Invariance, KnowledgeFits, <1>1, PTL

(* The quota the file holds of a key is the smallest of the newest         *)
(* complete windows reported of it, in whatever order they were written.   *)
THEOREM QuotaHolds == Spec => []LatestQuotaHolds
<1>1. Core /\ Knowledge => LatestQuotaHolds
  <2> SUFFICES ASSUME Core, Knowledge, NEW k \in file.keys
               PROVE
        LET seen   == {o \in file.log : o.key = k /\ o.rem # NoneSeen}
            newest == {o \in seen : \A other \in seen : other.at <= o.at}
        IN  seen # {} =>
              /\ \E o \in newest : file.quota[k].rem = o.rem
              /\ \A o \in newest : /\ file.quota[k].at = o.at
                                    /\ file.quota[k].rem <= o.rem
    BY DEF LatestQuotaHolds
  <2> DEFINE q == file.quota[k]
             log == file.log
             seen   == {o \in log : o.key = k /\ o.rem # NoneSeen}
             newest == {o \in seen : \A other \in seen : other.at <= o.at}
  <2>1. k \in KeySet /\ log \subseteq Outcome /\ q.at \in Nat
    <3>1. file \in Pool
      BY DEF Core, TypeOK
    <3> QED
      BY <3>1 DEF Pool
  <2>2. /\ q.seen => \E o \in log : /\ Told(o, k)
                                    /\ o.at = q.at /\ o.rem = q.rem
        /\ \A o \in log : Told(o, k) =>
              /\ q.seen
              /\ o.at < q.at \/ (o.at = q.at /\ q.rem <= o.rem)
    <3>1. QuotaFits(k)
      BY <2>1 DEF Knowledge
    <3> QED
      BY <3>1 DEF QuotaFits
  <2>3. \A o \in log : o.at \in Nat
    <3>1. \A o \in Outcome : o.at \in 0..MaxTime
      BY DEF Outcome
    <3> QED
      BY <2>1, <3>1, Parameters
  <2> HIDE DEF q, log
  <2>4. \A o : o \in seen <=> o \in log /\ Told(o, k)
    BY DEF Told
  <2> HIDE DEF seen
  <2>5. ASSUME seen # {}
        PROVE  /\ \E o \in newest : q.rem = o.rem
               /\ \A o \in newest : q.at = o.at /\ q.rem <= o.rem
    <3>1. PICK best \in seen : best.at = q.at /\ best.rem = q.rem
      BY <2>2, <2>4, <2>5
    <3>2. \A o \in seen : o.at <= q.at
      BY <2>1, <2>2, <2>3, <2>4
    <3>3. best \in newest
      BY <3>1, <3>2
    <3>4. ASSUME NEW o \in newest
          PROVE  q.at = o.at /\ q.rem <= o.rem
      <4>1. o \in log /\ Told(o, k) /\ q.at <= o.at /\ o.at \in Nat
        BY <2>3, <2>4, <3>1
      <4> QED
        BY <2>1, <2>2, <4>1
    <3> QED
      BY <3>1, <3>3, <3>4
  <2> QED
    BY <2>5 DEF q, log, seen
<1> QED
  BY Invariance, KnowledgeFits, <1>1, PTL

(***************************************************************************)
(* What a step may not do                                                  *)
(***************************************************************************)

(* No writer erases what another has recorded.                             *)
THEOREM NothingForgotten == Spec => OutcomesAccumulate
<1>1. Core /\ [Next]_vars => [file.log \subseteq file'.log]_vars
  <2> SUFFICES ASSUME Core, [Next]_vars
               PROVE  file.log \subseteq file'.log
    OBVIOUS
  <2> QED
    BY FileSteps, LearnsStep DEF Learns
<1> QED
  BY Invariance, <1>1, PTL DEF Spec, OutcomesAccumulate

(* What the file believes of a key never goes back in time, and within one *)
(* instant only a more cautious observation replaces another.              *)
THEOREM BeliefsAdvance == Spec => ObservationsAdvance
<1> DEFINE Advance ==
       \A k \in file.keys \cap file'.keys :
          LET q == file.quota[k]      h == file.health[k]
              r == file'.quota[k]     g == file'.health[k]
          IN  /\ q.seen => \/ r.at > q.at
                           \/ r.at = q.at /\ r.rem <= q.rem
              /\ h.seen => \/ g.at > h.at
                           \/ g.at = h.at /\ (g.until >= h.until
                                              \/ h.until <= now)
<1>1. Core /\ Knowledge /\ [Next]_vars => [Advance]_vars
  <2> SUFFICES ASSUME Core, Knowledge, [Next]_vars,
                      NEW k \in file.keys \cap file'.keys
               PROVE
        LET q == file.quota[k]      h == file.health[k]
            r == file'.quota[k]     g == file'.health[k]
        IN  /\ q.seen => \/ r.at > q.at
                         \/ r.at = q.at /\ r.rem <= q.rem
            /\ h.seen => \/ g.at > h.at
                         \/ g.at = h.at /\ (g.until >= h.until
                                            \/ h.until <= now)
    OBVIOUS
  <2> DEFINE q == file.quota[k]
             h == file.health[k]
             r == file'.quota[k]
             g == file'.health[k]
  <2>1. Learns /\ now \in Nat
    BY FileSteps, LearnsStep, NowGrows
  <2>2. /\ k \in KeySet /\ h \in HealthType
        /\ q.at \in Nat /\ q.rem \in Nat
        /\ ~h.cooling => h.until = 0
    <3>1. file \in Pool
      BY DEF Core, TypeOK
    <3>2. k \in KeySet
      BY <3>1 DEF Pool
    <3>3. ~h.cooling => h.until = 0
      BY <3>2 DEF Knowledge, HealthFits
    <3> QED
      BY <3>1, <3>2, <3>3 DEF Pool, HealthType, Remaining, NoneSeen
  <2> HIDE DEF q, h, r, g
  <2>3. h.at \in Nat /\ h.until \in Nat
    BY <2>2 DEF HealthType
  <2>4. ASSUME NEW t \in 0..now, NEW x, Heard(h, x, t)
        PROVE  /\ x.at = h.at /\ x.seen = h.seen
               /\ x.until \in Nat
               /\ x.until >= h.until \/ h.until <= now
               /\ ~x.cooling => h.until <= now /\ x.until = 0
    <3>1. t \in Nat /\ t <= now
      BY <2>1
    <3>2. CASE h.until <= t
      <4>1. h.until <= now
        BY <2>1, <2>3, <3>1, <3>2
      <4> QED
        BY <2>4, <3>2, <4>1 DEF Heard
    <3>3. CASE h.until > t
      <4>1. x.until = h.until /\ x.cooling = h.cooling
        BY <2>4, <3>3 DEF Heard
      <4>2. h.until # 0
        BY <2>3, <3>1, <3>3
      <4> QED
        BY <2>2, <2>3, <2>4, <4>1, <4>2 DEF Heard
    <3> QED
      BY <2>3, <3>1, <3>2, <3>3
  <2>5. CASE Quiet(k)
    <3>1. r = q
      BY <2>5 DEF Quiet, q, r
    <3>2. g.at = h.at /\ (g.until >= h.until \/ h.until <= now)
      BY <2>3, <2>4, <2>5 DEF Quiet, g, h
    <3>3. q.rem <= q.rem
      BY <2>2
    <3> QED
      BY <3>1, <3>2, <3>3 DEF q, r, g, h
  <2>6. ASSUME NEW o \in Outcome, o.key = k, Noted(o)
        PROVE  /\ q.seen => \/ r.at > q.at
                            \/ r.at = q.at /\ r.rem <= q.rem
               /\ h.seen => \/ g.at > h.at
                            \/ g.at = h.at /\ (g.until >= h.until
                                               \/ h.until <= now)
    <3>1. o.at \in Nat /\ o.rem \in Nat
      <4>1. o.at \in 0..MaxTime /\ o.rem \in Remaining
        BY DEF Outcome
      <4> QED
        BY <4>1, Parameters DEF Remaining, NoneSeen
    <3>2. r = QuotaAfter(q, o)
      BY <2>6 DEF Noted, q, r
    <3>3. q.seen => r.at > q.at \/ (r.at = q.at /\ r.rem <= q.rem)
      BY <2>2, <3>1, <3>2 DEF QuotaAfter, QuotaAdvances
    <3>4. PICK t \in 0..now, x \in HealthType :
             Heard(h, x, t) /\ g = HealthAfter(x, o)
      BY <2>6 DEF Noted, g, h
    <3>5. /\ x.at = h.at /\ x.seen = h.seen /\ x.until \in Nat
          /\ x.until >= h.until \/ h.until <= now
          /\ ~x.cooling => h.until <= now
      BY <2>4, <3>4
    <3>6. ASSUME h.seen
          PROVE  \/ g.at > h.at
                 \/ g.at = h.at /\ (g.until >= h.until \/ h.until <= now)
      <4>1. CASE ~HealthAdvances(x, o)
        BY <3>4, <3>5, <4>1 DEF HealthAfter
      <4>2. CASE HealthAdvances(x, o)
        <5>1. g.at = o.at
          BY <3>4, <4>2 DEF HealthAfter, Fresh, HealthType
        <5>2. o.at > h.at \/ (o.at = h.at /\ ~x.cooling)
          BY <3>5, <3>6, <4>2 DEF HealthAdvances
        <5> QED
          BY <3>5, <5>1, <5>2
      <4> QED
        BY <4>1, <4>2
    <3> QED
      BY <3>3, <3>6
  <2> QED
    BY <2>1, <2>2, <2>5, <2>6 DEF Learns, q, r, g, h
<1> QED
  BY Invariance, KnowledgeFits, <1>1, PTL DEF Spec, ObservationsAdvance

(* The attempts of a thread with a key are finitely many, and the file's   *)
(* counter of a thread's turns never runs ahead of them.                   *)
CountedFor(s, k) ==
    /\ IsFiniteSet(Turns(s, k))
    /\ file.sessions[s].key = k =>
          file.sessions[s].turns <= Cardinality(Turns(s, k))

Counted ==
    \A s \in Sessions :
        /\ \A k \in KeySet : CountedFor(s, k)
        /\ file.sessions[s].key = NoKey => file.sessions[s].turns = 0

(* No turns are counted at the start.                                      *)
LEMMA CountedInit == Init => Counted
<1> SUFFICES ASSUME Init PROVE Counted
  OBVIOUS
<1>1. file.sessions = [s \in Sessions |-> Unbound]
  <2>1. PICK ks \in SUBSET KeySet \ {{}} :
           file = [keys |-> ks, paused |-> {},
                   health |-> [k \in KeySet |-> Fresh],
                   quota |-> [k \in KeySet |-> NoQuota],
                   cursor |-> 0,
                   sessions |-> [s \in Sessions |-> Unbound],
                   log |-> {}]
    BY DEF Init
  <2> QED
    BY <2>1
<1>2. \A r \in Requests : sent[r] = <<>> /\ DOMAIN sent[r] = {}
  <2>1. \A r \in Requests : sent[r] = <<>>
    BY DEF Init
  <2>2. <<>> \in Seq(KeySet) /\ Len(<<>>) = 0 /\ 1..0 = {}
    OBVIOUS
  <2>3. DOMAIN <<>> = {}
    BY <2>2, LenProperties
  <2> QED
    BY <2>1, <2>3
<1>3. \A s \in Sessions, k \in KeySet : Turns(s, k) = {}
  BY <1>2 DEF Turns
<1>4. IsFiniteSet({}) /\ NoKey \notin KeySet
  BY FS_EmptySet, Parameters
<1> QED
  BY <1>1, <1>3, <1>4 DEF Counted, CountedFor, Unbound

(* A step that selects no key counts no turn: bindings are kept or dropped.*)
LEMMA CountedKept ==
    ASSUME Counted, UNCHANGED sent,
           \A s \in Sessions : \/ file'.sessions[s] = file.sessions[s]
                               \/ file'.sessions[s] = Unbound
    PROVE  Counted'
<1>1. \A s, k : Turns(s, k)' = Turns(s, k)
  BY DEF Turns
<1>2. ASSUME NEW s \in Sessions
      PROVE  /\ \A k \in KeySet : CountedFor(s, k)'
             /\ file'.sessions[s].key = NoKey => file'.sessions[s].turns = 0
  <2>1. CASE file'.sessions[s] = file.sessions[s]
    BY <1>1, <2>1 DEF Counted, CountedFor
  <2>2. CASE file'.sessions[s] = Unbound
    <3>1. /\ file'.sessions[s].key \notin KeySet
          /\ file'.sessions[s].turns = 0
      BY <2>2, Parameters DEF Unbound
    <3> QED
      BY <1>1, <3>1 DEF Counted, CountedFor
  <2> QED
    BY <2>1, <2>2
<1> QED
  BY <1>2 DEF Counted

(* A selection that is written counts one turn of its thread with its key, *)
(* which is one more attempt.                                              *)
LEMMA CountedSelected ==
    ASSUME Core, Counted, NEW r \in Requests, pc[r] = "selecting",
           NEW key \in KeySet,
           sent' = [sent EXCEPT ![r] = Append(@, key)],
           NEW p \in Pool, p.sessions = file.sessions,
           Binds(p, SessionOf[r], key, file')
    PROVE  Counted'
<1> DEFINE own == SessionOf[r]
           n   == Len(sent[r]) + 1
<1>1. /\ sent \in [Requests -> Seq(KeySet)] /\ own \in Sessions
      /\ Len(sent[r]) \in Nat /\ Len(sent[r]) < Attempts /\ Attempts \in Nat
  <2>1. sent \in [Requests -> Seq(KeySet)] /\ Len(sent[r]) < Attempts
    BY DEF Core, TypeOK, Spent, Choosing
  <2> QED
    BY <2>1, LenProperties, Parameters
<1>2. /\ sent'[r] = Append(sent[r], key)
      /\ \A q \in Requests \ {r} : sent'[q] = sent[q]
  BY <1>1
<1>3. /\ DOMAIN sent[r] = 1..(n - 1) /\ DOMAIN sent'[r] = 1..n
      /\ n \in Nat /\ n \in 1..Attempts
      /\ sent'[r][n] = key /\ \A i \in 1..(n - 1) : sent'[r][i] = sent[r][i]
  <2>1. /\ Append(sent[r], key) \in Seq(KeySet)
        /\ Len(Append(sent[r], key)) = n
        /\ Append(sent[r], key)[n] = key
        /\ \A i \in 1..Len(sent[r]) : Append(sent[r], key)[i] = sent[r][i]
    BY <1>1, AppendProperties
  <2>2. /\ DOMAIN sent[r] = 1..Len(sent[r])
        /\ DOMAIN Append(sent[r], key) = 1..n
    BY <1>1, <2>1, LenProperties
  <2>3. n - 1 = Len(sent[r]) /\ n \in Nat /\ n \in 1..Attempts
    BY <1>1
  <2> QED
    BY <1>2, <2>1, <2>2, <2>3
<1> HIDE DEF n
<1>4. ASSUME NEW s \in Sessions, NEW k \in KeySet, s # own \/ k # key
      PROVE  Turns(s, k)' = Turns(s, k)
  <2>1. ASSUME NEW t \in Requests \X (1..Attempts)
        PROVE  (/\ SessionOf[t[1]] = s
                /\ t[2] \in DOMAIN sent'[t[1]] /\ sent'[t[1]][t[2]] = k)
               <=> (/\ SessionOf[t[1]] = s
                    /\ t[2] \in DOMAIN sent[t[1]] /\ sent[t[1]][t[2]] = k)
    <3>1. t[1] \in Requests /\ t[2] \in 1..Attempts
      OBVIOUS
    <3>2. CASE t[1] # r
      BY <1>2, <3>1, <3>2
    <3>3. CASE t[1] = r
      <4>1. \A i \in 1..Attempts : i \in 1..n <=> i \in 1..(n - 1) \/ i = n
        BY <1>3
      <4> QED
        BY <1>3, <1>4, <3>1, <3>3, <4>1
    <3> QED
      BY <3>2, <3>3
  <2> QED
    BY <2>1 DEF Turns
<1>5. Turns(own, key)' = Turns(own, key) \cup {<<r, n>>}
      /\ <<r, n>> \notin Turns(own, key)
  <2>1. ASSUME NEW t \in Requests \X (1..Attempts)
        PROVE  (/\ SessionOf[t[1]] = own
                /\ t[2] \in DOMAIN sent'[t[1]] /\ sent'[t[1]][t[2]] = key)
               <=> \/ t = <<r, n>>
                   \/ /\ SessionOf[t[1]] = own
                      /\ t[2] \in DOMAIN sent[t[1]]
                      /\ sent[t[1]][t[2]] = key
    <3>1. t[1] \in Requests /\ t[2] \in 1..Attempts /\ t = <<t[1], t[2]>>
      OBVIOUS
    <3>2. CASE t[1] # r
      BY <1>2, <3>1, <3>2
    <3>3. CASE t[1] = r
      <4>1. \A i \in 1..Attempts : i \in 1..n <=> i \in 1..(n - 1) \/ i = n
        BY <1>3
      <4>2. t = <<r, n>> <=> t[2] = n
        BY <3>1, <3>3
      <4> QED
        BY <1>3, <3>1, <3>3, <4>1, <4>2
    <3> QED
      BY <3>2, <3>3
  <2>2. <<r, n>> \in Requests \X (1..Attempts)
    BY <1>3
  <2>3. n \notin 1..(n - 1)
    BY <1>3
  <2> QED
    BY <1>3, <2>1, <2>2, <2>3 DEF Turns
<1>6. /\ IsFiniteSet(Turns(own, key)) /\ IsFiniteSet(Turns(own, key)')
      /\ Cardinality(Turns(own, key)) \in Nat
      /\ Cardinality(Turns(own, key)') = Cardinality(Turns(own, key)) + 1
  <2>1. IsFiniteSet(Turns(own, key))
    BY <1>1 DEF Counted, CountedFor
  <2> QED
    BY <1>5, <2>1, FS_AddElement, FS_CardinalityType
<1>7. file \in Pool /\ key # NoKey
  BY Parameters DEF Core, TypeOK
<1>8. file'.sessions[own].turns <= Cardinality(Turns(own, key)')
  <2> DEFINE old == file.sessions[own]
  <2>1. /\ old.turns \in Nat
        /\ file'.sessions[own].turns =
              IF old.key # NoKey /\ old.key # key THEN 1 ELSE old.turns + 1
    BY <1>1, <1>7 DEF Binds, Pool
  <2>2. CASE old.key = key
    <3>1. old.turns <= Cardinality(Turns(own, key))
      BY <1>1, <2>2 DEF Counted, CountedFor
    <3> QED
      BY <1>6, <2>1, <2>2, <3>1
  <2>3. CASE old.key = NoKey
    <3>1. old.turns = 0
      BY <1>1, <2>3 DEF Counted
    <3> QED
      BY <1>6, <2>1, <2>3, <3>1
  <2>4. CASE old.key # NoKey /\ old.key # key
    BY <1>6, <2>1, <2>4
  <2> QED
    BY <2>2, <2>3, <2>4
<1>9. file'.sessions[own].key = key
  BY DEF Binds
<1>10. \A s \in Sessions \ {own} : \/ file'.sessions[s] = file.sessions[s]
                                   \/ file'.sessions[s] = Unbound
  <2>1. /\ IsFiniteSet(BoundSessions(p))
        /\ Cardinality(BoundSessions(p)) <= MaxSessions
    BY DEF BoundSessions, Core, Bindings, BoundKeysExist
  <2>2. \A s \in Sessions :
           \/ WithRoomFor(own, p).sessions[s] = p.sessions[s]
           \/ WithRoomFor(own, p).sessions[s] = Unbound
    BY <1>1, <2>1, RoomKeeps
  <2> QED
    BY <2>2 DEF Binds
<1>11. ASSUME NEW s \in Sessions
       PROVE  /\ \A k \in KeySet : CountedFor(s, k)'
              /\ file'.sessions[s].key = NoKey => file'.sessions[s].turns = 0
  <2>1. CASE s = own
    <3>1. ASSUME NEW k \in KeySet PROVE CountedFor(s, k)'
      <4>1. CASE k = key
        BY <1>6, <1>8, <2>1, <4>1 DEF CountedFor
      <4>2. CASE k # key
        BY <1>4, <1>9, <2>1, <4>2 DEF Counted, CountedFor
      <4> QED
        BY <4>1, <4>2
    <3> QED
      BY <1>7, <1>9, <2>1, <3>1
  <2>2. CASE s # own
    <3>1. \A k \in KeySet : Turns(s, k)' = Turns(s, k)
      BY <1>4, <2>2
    <3>2. CASE file'.sessions[s] = file.sessions[s]
      BY <3>1, <3>2 DEF Counted, CountedFor
    <3>3. CASE file'.sessions[s] = Unbound
      <4>1. /\ file'.sessions[s].key \notin KeySet
            /\ file'.sessions[s].turns = 0
        BY <3>3, Parameters DEF Unbound
      <4> QED
        BY <3>1, <4>1 DEF Counted, CountedFor
    <3> QED
      BY <1>10, <2>2, <3>2, <3>3
  <2> QED
    BY <2>1, <2>2
<1> QED
  BY <1>11 DEF Counted

(* What a selecting call does: it ends, and no binding changes, or it      *)
(* sends with a candidate, which is then bound to its thread.              *)
LEMMA SelectWriteIs ==
    ASSUME Core, NEW r \in Requests, SelectWrite(r)
    PROVE  /\ pc[r] = "selecting"
           /\ \/ UNCHANGED sent /\ file'.sessions = file.sessions
              \/ \E key \in Candidates(r), p \in Pool :
                    /\ sent' = [sent EXCEPT ![r] = Append(@, key)]
                    /\ p = Normal(file, at[r]) /\ p.sessions = file.sessions
                    /\ Binds(p, SessionOf[r], key, file')
<1> DEFINE s == SessionOf[r]
           C == Candidates(r)
           t == at[r]
           stays == CanStay(mem[r], s, C)
           key == IF stays THEN mem[r].sessions[s].key
                           ELSE Choose(mem[r], C, t)
<1>1. pc[r] = "selecting"
  BY DEF SelectWrite
<1>2. /\ C \in SUBSET KeySet /\ t \in Nat /\ file \in Pool /\ s \in Sessions
      /\ mem[r] = Normal(file, t)
  BY <1>1, CandidatesOf, Parameters DEF Core, TypeOK, Reads
<1>3. mem[r] \in Pool /\ mem[r].sessions = file.sessions
  <2> HIDE DEF C, t
  <2>1. /\ Normal(file, t) \in Pool
        /\ Normal(file, t).sessions = file.sessions
    BY <1>2, NormalKeeps
  <2> QED
    BY <1>2, <2>1
<1>4. faults \in Nat
  <2>1. faults \in 0..MaxFaults
    BY DEF Core, TypeOK
  <2> QED
    BY <2>1, Parameters
<1>5. CASE C = {}
  <2>1. UNCHANGED sent /\ (file' = mem[r] \/ file' = file)
    BY <1>5 DEF SelectWrite, Unlocked
  <2> QED
    BY <1>1, <1>3, <2>1
<1>6. CASE C # {}
  <2>1. /\ \/ /\ file' = Selected(mem[r], s, key, ~stays, C, t)
              /\ faults' = faults
           \/ file' = file /\ faults' = faults + 1
        /\ IF faults' = faults
             THEN sent' = [sent EXCEPT ![r] = Append(@, key)]
             ELSE sent' = sent
    BY <1>6, Zenon DEF SelectWrite, Unlocked, Written
  <2>2. key \in C /\ key \in KeySet
    BY <1>1, <1>6, ChosenIn
  <2>3. (~stays) \in BOOLEAN
    BY DEF CanStay
  <2> HIDE DEF C, key, s, stays, t
  <2>4. CASE /\ file' = Selected(mem[r], s, key, ~stays, C, t)
             /\ faults' = faults
    <3>1. /\ IsFiniteSet(BoundSessions(mem[r]))
          /\ Cardinality(BoundSessions(mem[r])) <= MaxSessions
      BY <1>3 DEF BoundSessions, Core, Bindings, BoundKeysExist
    <3>2. Binds(mem[r], s, key, file')
      BY <1>2, <1>3, <1>6, <2>2, <2>3, <2>4, <3>1, SelectedKeeps
    <3>3. sent' = [sent EXCEPT ![r] = Append(@, key)]
      BY <2>1, <2>4
    <3> QED
      BY <1>1, <1>2, <1>3, <2>2, <3>2, <3>3 DEF C, s, t
  <2>5. CASE file' = file /\ faults' = faults + 1
    BY <1>1, <1>4, <2>1, <2>5
  <2> QED
    BY <2>1, <2>4, <2>5
<1> QED
  BY <1>5, <1>6

(* Every step keeps the count.                                             *)
LEMMA CountedStep ==
    ASSUME Core, Counted, [Next]_vars
    PROVE  Counted'
<1>1. /\ file \in Pool /\ \A t \in 0..now : t \in Nat
  <2>1. file \in Pool /\ now \in 0..MaxTime
    BY DEF Core, TypeOK
  <2> QED
    BY <2>1, Parameters
<1>2. ASSUME UNCHANGED <<sent, file>>
      PROVE  Counted'
  BY <1>2, CountedKept
<1>3. ASSUME NEW r \in Requests, SelectWrite(r)
      PROVE  Counted'
  <2>1. pc[r] = "selecting"
    BY <1>3, SelectWriteIs
  <2>2. CASE UNCHANGED sent /\ file'.sessions = file.sessions
    BY <2>2, CountedKept
  <2>3. ASSUME NEW key \in Candidates(r), NEW p \in Pool,
               sent' = [sent EXCEPT ![r] = Append(@, key)],
               p.sessions = file.sessions,
               Binds(p, SessionOf[r], key, file')
        PROVE  Counted'
    <3>1. key \in KeySet
      BY <2>1, CandidatesOf
    <3> QED
      BY <2>1, <2>3, <3>1, CountedSelected
  <2> QED
    BY <1>3, <2>2, <2>3, SelectWriteIs
<1>4. ASSUME NEW r \in Requests, RecordWrite(r)
      PROVE  Counted'
  <2>1. pc[r] = "recording" /\ lock = r /\ UNCHANGED sent
    BY <1>4 DEF RecordWrite, Core, Turn
  <2>2. PICK t \in 0..now : mem[r] = Normal(file, t)
    BY <2>1, Parameters DEF Core, Reads
  <2>3. /\ mem[r] \in Pool /\ mem[r].sessions = file.sessions
        /\ out[r] \in Outcome
    <3>1. t \in Nat /\ out[r] \in Outcome
      BY <1>1, <2>1 DEF Core, Spent
    <3>2. /\ Normal(file, t) \in Pool
          /\ Normal(file, t).sessions = file.sessions
      BY <1>1, <3>1, NormalKeeps
    <3> QED
      BY <2>2, <3>1, <3>2
  <2>4. file' = Recorded(mem[r], out[r]) \/ file' = file
    BY <1>4 DEF RecordWrite, Unlocked
  <2>5. file'.sessions = file.sessions
    BY <2>3, <2>4, RecordedKeeps
  <2> QED
    BY <2>1, <2>5, CountedKept
<1>5. ASSUME CommandWrite
      PROVE  Counted'
  <2>1. lock = Operator /\ UNCHANGED sent
    BY <1>5 DEF CommandWrite, request
  <2>2. PICK t \in 0..now : mem[Operator] = Normal(file, t)
    BY <2>1, Parameters DEF Core, Reads
  <2>3. /\ mem[Operator] \in Pool /\ mem[Operator].sessions = file.sessions
        /\ command \in Commands
    <3>1. t \in Nat /\ command \in Commands
      BY <1>1, <2>1 DEF Core, Turn
    <3>2. /\ Normal(file, t) \in Pool
          /\ Normal(file, t).sessions = file.sessions
      BY <1>1, <3>1, NormalKeeps
    <3> QED
      BY <2>2, <3>1, <3>2
  <2>4. file' = Applied(mem[Operator], command) \/ file' = file
    BY <1>5 DEF CommandWrite, Unlocked
  <2>5. \A s \in Sessions : \/ file'.sessions[s] = file.sessions[s]
                            \/ file'.sessions[s] = Unbound
    BY <2>3, <2>4, AppliedKeeps
  <2> QED
    BY <2>1, <2>5, CountedKept
<1>6. ASSUME NEW r \in Requests,
             \/ Start(r) \/ SelectRead(r) \/ Send(r) \/ RecordRead(r)
             \/ LockTimeout(r)
      PROVE  Counted'
  <2>1. UNCHANGED <<sent, file>>
    BY <1>6 DEF Start, SelectRead, Send, RecordRead, LockTimeout, Locked
  <2> QED
    BY <1>2, <2>1
<1>7. CASE \/ \E c \in Commands : CommandRead(c)
           \/ Tick \/ Terminating \/ UNCHANGED vars
  <2>1. UNCHANGED <<sent, file>>
    BY <1>7 DEF CommandRead, Tick, Terminating, Locked, vars, request
  <2> QED
    BY <1>2, <2>1
<1> QED
  BY <1>3, <1>4, <1>5, <1>6, <1>7 DEF Next, RequestStep

(* A call sends only with a key that may be used when it is chosen, by the *)
(* file and the clock of that moment: what may be used only grows with the *)
(* clock, and nobody else rewrites the file between the look and the       *)
(* choice.                                                                 *)
THEOREM ChosenUsable == Spec => UsableWhenChosen
<1> DEFINE Usable(k) == /\ k \in file.keys \ file.paused
                        /\ file.health[k].until <= now
                        /\ Known(file, k, now) => file.quota[k].rem > 0
           Step(r) == sent'[r] # sent[r] => Usable(Last(sent'[r]))
<1>1. ASSUME Core, NEW r \in Requests, SelectWrite(r)
      PROVE  Step(r)
  <2>1. pc[r] = "selecting"
    BY <1>1, SelectWriteIs
  <2>2. CASE UNCHANGED sent
    BY <2>2
  <2>3. ASSUME NEW key \in Candidates(r),
               sent' = [sent EXCEPT ![r] = Append(@, key)]
        PROVE  Step(r)
    <3>1. /\ key \in Eligible(file, at[r]) /\ key \in KeySet
          /\ at[r] \in Nat /\ at[r] <= now
      BY <1>1, <2>1, CandidatesOf DEF Core, Reads
    <3>2. /\ sent \in [Requests -> Seq(KeySet)] /\ file \in Pool
          /\ now \in Nat
      <4>1. now \in 0..MaxTime /\ MaxTime \in Nat
        BY <1>1, Parameters DEF Core, TypeOK
      <4>2. sent \in [Requests -> Seq(KeySet)] /\ file \in Pool
        BY <1>1 DEF Core, TypeOK
      <4> QED
        BY <4>1, <4>2
    <3>3. Last(sent'[r]) = key
      <4>1. /\ sent'[r] = Append(sent[r], key) /\ sent[r] \in Seq(KeySet)
        BY <2>3, <3>2
      <4>2. /\ Append(sent[r], key) \in Seq(KeySet)
            /\ Len(Append(sent[r], key)) = Len(sent[r]) + 1
            /\ Append(sent[r], key)[Len(sent[r]) + 1] = key
        BY <3>1, <4>1, AppendProperties
      <4> QED
        BY <4>1, <4>2 DEF Last
    <3>4. /\ file.health[key].until \in Nat /\ file.quota[key].reset \in Nat
          /\ file.quota[key].rem \in Nat
      <4>1. /\ file.health[key] \in HealthType
            /\ file.quota[key] \in QuotaType
        BY <3>1, <3>2 DEF Pool, HealthType, QuotaType
      <4>2. Remaining \subseteq Nat
        BY DEF Remaining, NoneSeen
      <4> QED
        BY <4>1, <4>2 DEF HealthType, QuotaType
    <3>5. /\ key \in file.keys \ file.paused
          /\ file.health[key].until <= at[r]
          /\ ~(Known(file, key, at[r]) /\ file.quota[key].rem = 0)
      BY <3>1 DEF Eligible
    <3>6. file.health[key].until <= now
      BY <3>1, <3>2, <3>4, <3>5
    <3>7. Known(file, key, now) => Known(file, key, at[r])
      BY <3>1, <3>2, <3>4 DEF Known
    <3>8. Known(file, key, now) => file.quota[key].rem > 0
      BY <3>4, <3>5, <3>7
    <3> QED
      BY <3>3, <3>5, <3>6, <3>8
  <2> QED
    BY <1>1, <2>2, <2>3, SelectWriteIs
<1>2. ASSUME Core, NEW q \in Requests, SelectWrite(q), NEW r \in Requests
      PROVE  Step(r)
  <2>1. CASE r = q
    BY <1>1, <1>2, <2>1
  <2>2. CASE r # q
    <3>1. sent' = sent \/ \E w : sent' = [sent EXCEPT ![q] = w]
      BY <1>2 DEF SelectWrite
    <3>2. sent'[r] = sent[r]
      BY <1>2, <2>2, <3>1 DEF Core, TypeOK
    <3> QED
      BY <3>2
  <2> QED
    BY <2>1, <2>2
<1>3. ASSUME [Next]_vars, \A q \in Requests : ~SelectWrite(q)
      PROVE  UNCHANGED sent
  BY <1>3 DEF Next, RequestStep, Start, SelectRead, Send, RecordRead,
              RecordWrite, LockTimeout, CommandRead, CommandWrite, Tick,
              Terminating, vars, request
<1>4. Core /\ [Next]_vars => [\A r \in Requests : Step(r)]_vars
  <2> SUFFICES ASSUME Core, [Next]_vars, NEW r \in Requests
               PROVE  Step(r)
    OBVIOUS
  <2> QED
    BY <1>2, <1>3
<1> QED
  BY Invariance, <1>4, PTL DEF Spec, UsableWhenChosen

(* A thread leaves its key only for a cause, and is unbound only by the    *)
(* removal of its key or to make room in a full file, the least recently   *)
(* used first.                                                             *)
THEOREM BindingsMove == Spec => BindingsMoveForCause
<1> DEFINE Cause(s) ==
       LET old == file.sessions[s]
           new == file'.sessions[s]
       IN  new.key # old.key =>
             IF new.key = NoKey
               THEN \/ old.key \notin file'.keys
                    \/ /\ Cardinality(BoundSessions(file)) = MaxSessions
                       /\ BoundSessions(file') \ BoundSessions(file) # {}
                       /\ \A u \in BoundSessions(file) :
                             file'.sessions[u].key # NoKey =>
                                 file.sessions[u].at >= old.at
               ELSE \E r \in Requests :
                       /\ SessionOf[r] = s /\ pc[r] = "selecting"
                       /\ \/ old.key \in Range(sent[r])
                          \/ old.key \notin Eligible(file, at[r])
                          \/ Cardinality(Turns(s, old.key)) >= StickyLimit
<1>1. ASSUME Core, Counted, FileChanges, NEW s \in BoundSessions(file)
      PROVE  Cause(s)
  <2> DEFINE old == file.sessions[s]
             new == file'.sessions[s]
  <2>1. /\ file \in Pool /\ \A t \in 0..now : t \in Nat
        /\ s \in Sessions /\ StickyLimit \in Nat
        /\ \A u \in Sessions : /\ file.sessions[u].at \in Nat
                               /\ file.sessions[u].turns \in Nat
    <3>1. file \in Pool /\ now \in 0..MaxTime /\ StickyLimit \in Nat
      BY <1>1, PoolAssumption DEF Core, TypeOK
    <3> QED
      BY <1>1, <3>1, Parameters DEF BoundSessions, Pool
  <2>2. CASE file' = file
    BY <2>2
  <2>3. ASSUME NEW t \in 0..now, Reread(t)
        PROVE  Cause(s)
    <3>1. new = old
      BY <2>1, <2>3, NormalKeeps DEF Reread
    <3> QED
      BY <3>1
  <2>4. ASSUME NEW t \in 0..now, NEW r \in Requests, RecordedBy(r, t)
        PROVE  Cause(s)
    <3>1. PICK p \in Pool : p = Normal(file, t) /\ p.sessions = file.sessions
      BY <2>1, NormalKeeps
    <3>2. PICK o \in Outcome : file' = Recorded(p, o)
      BY <1>1, <2>4, <3>1 DEF RecordedBy, Core, Spent
    <3>3. new = old
      BY <3>1, <3>2, RecordedKeeps
    <3> QED
      BY <3>3
  <2>5. ASSUME NEW t \in 0..now, AppliedBy(t)
        PROVE  Cause(s)
    <3>1. PICK p \in Pool : p = Normal(file, t) /\ p.sessions = file.sessions
      BY <2>1, NormalKeeps
    <3>2. command \in Commands /\ file' = Applied(p, command)
      BY <1>1, <2>5, <3>1 DEF AppliedBy, Core, Turn
    <3>3. new = old \/ (/\ new = Unbound /\ old.key = command.key
                        /\ file'.keys = p.keys \ {command.key})
      BY <2>1, <3>1, <3>2, AppliedKeeps
    <3> QED
      BY <3>3 DEF Unbound
  <2>6. ASSUME NEW r \in Requests, SelectedBy(r)
        PROVE  Cause(s)
    <3> DEFINE own == SessionOf[r]
               t   == at[r]
               C   == Eligible(file, t) \ Range(sent[r])
    <3>1. /\ pc[r] = "selecting" /\ C \in SUBSET KeySet /\ t \in Nat
          /\ own \in Sessions
      BY <1>1, <2>6, CandidatesOf, Parameters DEF SelectedBy
    <3>2. PICK p \in Pool : p = Normal(file, t) /\ p.sessions = file.sessions
      <4> HIDE DEF t
      <4> QED
        BY <2>1, <3>1, NormalKeeps
    <3>3. PICK key \in C, byPolicy \in BOOLEAN :
             /\ CanStay(file, own, C) => key = file.sessions[own].key
             /\ file' = Selected(p, own, key, byPolicy, C, t)
      BY <2>6, <3>2 DEF SelectedBy
    <3> HIDE DEF C, t, own
    <3>4. /\ BoundSessions(p) = BoundSessions(file)
          /\ IsFiniteSet(BoundSessions(p))
          /\ Cardinality(BoundSessions(p)) <= MaxSessions
      BY <1>1, <3>2 DEF BoundSessions, Core, Bindings, BoundKeysExist
    <3>5. Binds(p, own, key, file') /\ key \in KeySet /\ key # NoKey
      <4>1. C # {} /\ key \in KeySet
        BY <3>1
      <4> QED
        BY <3>1, <3>3, <3>4, <4>1, SelectedKeeps, Parameters
    <3>6. CASE s = own
      <4>1. new.key = key
        BY <3>5, <3>6 DEF Binds
      <4>2. ASSUME key # old.key
            PROVE  \/ old.key \in Range(sent[r])
                   \/ old.key \notin Eligible(file, at[r])
                   \/ Cardinality(Turns(s, old.key)) >= StickyLimit
        <5>1. ~CanStay(file, own, C)
          BY <3>3, <3>6, <4>2
        <5>2. old.key \notin C \/ ~(old.turns < StickyLimit)
          BY <3>6, <5>1 DEF CanStay
        <5>3. /\ old.turns <= Cardinality(Turns(s, old.key))
              /\ Cardinality(Turns(s, old.key)) \in Nat
          <6>1. old.key \in KeySet
            BY <2>1 DEF BoundSessions, Pool
          <6> QED
            BY <1>1, <2>1, <6>1, FS_CardinalityType DEF Counted, CountedFor
        <5> QED
          BY <2>1, <5>2, <5>3 DEF C, t
      <4> QED
        BY <3>1, <3>5, <3>6, <4>1, <4>2 DEF own
    <3>7. CASE s # own
      <4> DEFINE room == WithRoomFor(own, p).sessions
      <4>1. \A u \in Sessions \ {own} : file'.sessions[u] = room[u]
        BY <3>5 DEF Binds
      <4>2. \A u \in Sessions :
               \/ room[u] = p.sessions[u]
               \/ /\ room[u] = Unbound
                  /\ own \notin BoundSessions(p)
                  /\ Cardinality(BoundSessions(p)) = MaxSessions
                  /\ \A v \in BoundSessions(p) :
                        p.sessions[v].at < p.sessions[u].at =>
                            room[v] = Unbound
        BY <3>1, <3>4, RoomKeeps
      <4> HIDE DEF room
      <4>3. CASE room[s] = p.sessions[s]
        BY <2>1, <3>2, <3>7, <4>1, <4>3
      <4>4. CASE /\ room[s] = Unbound
                 /\ own \notin BoundSessions(p)
                 /\ Cardinality(BoundSessions(p)) = MaxSessions
                 /\ \A v \in BoundSessions(p) :
                       p.sessions[v].at < p.sessions[s].at =>
                           room[v] = Unbound
        <5>1. new = Unbound
          BY <2>1, <3>7, <4>1, <4>4
        <5>2. own \in BoundSessions(file') \ BoundSessions(file)
          BY <3>4, <3>5, <4>4 DEF Binds
        <5>3. ASSUME NEW u \in BoundSessions(file),
                     file'.sessions[u].key # NoKey
              PROVE  file.sessions[u].at >= old.at
          <6>1. u \in Sessions /\ u # own
            BY <3>4, <4>4 DEF BoundSessions
          <6>2. room[u] # Unbound
            BY <4>1, <5>3, <6>1 DEF Unbound
          <6>3. ~(file.sessions[u].at < old.at)
            BY <3>2, <3>4, <4>4, <6>2
          <6> QED
            BY <2>1, <6>1, <6>3
        <5> QED
          BY <3>4, <4>4, <5>1, <5>2, <5>3 DEF Unbound
      <4> QED
        BY <2>1, <4>2, <4>3, <4>4
    <3> QED
      BY <3>6, <3>7
  <2> QED
    BY <1>1, <2>2, <2>3, <2>4, <2>5, <2>6 DEF FileChanges
<1>2. Core /\ Counted /\ [Next]_vars =>
         [\A s \in BoundSessions(file) : Cause(s)]_vars
  <2> SUFFICES ASSUME Core, Counted, [Next]_vars,
                      NEW s \in BoundSessions(file)
               PROVE  Cause(s)
    OBVIOUS
  <2> QED
    BY <1>1, FileSteps
<1>3. Core /\ Counted /\ [Next]_vars => Counted'
  BY CountedStep
<1> QED
  BY Invariance, CountedInit, <1>2, <1>3, PTL DEF Spec, BindingsMoveForCause

(***************************************************************************)
(* Failing over                                                            *)
(***************************************************************************)

(* The n-th attempt of a call is accounted for: the file has its failure,  *)
(* or no longer has its key.                                               *)
Accounted(r, n) ==
    sent[r][n] \in file.keys =>
        \E o \in file.log : o.req = r /\ o.n = n /\ Retryable(o.kind)

(* A call that chooses its next key has accounted for all its attempts,     *)
(* and one that sends or records, for all before the current one.          *)
Rotations ==
    \A r \in Requests :
        /\ pc[r] \in Choosing => \A n \in 1..Len(sent[r]) : Accounted(r, n)
        /\ pc[r] \in Sending =>
              \A n \in 1..(Len(sent[r]) - 1) : Accounted(r, n)

(* Every step keeps them accounted for: only a call that has its outcome   *)
(* on file goes on to choose again, and nobody erases it.                  *)
LEMMA RotationsStep ==
    ASSUME Core, Rotations, [Next]_vars
    PROVE  Rotations'
<1>1. /\ TypeOK /\ FileChanges /\ file.log \subseteq file'.log
      /\ \A r \in Requests :
            Range(sent[r]) \cap file'.keys \subseteq file.keys
      /\ \A r \in Requests, t \in 0..now :
            RecordedBy(r, t) /\ out[r].key \in file.keys =>
                out[r] \in file'.log
  BY FileSteps, LearnsStep DEF Core, Learns
<1>2. \A r \in Requests : /\ sent[r] \in Seq(KeySet) /\ Len(sent[r]) \in Nat
                          /\ DOMAIN sent[r] = 1..Len(sent[r])
  BY <1>1, LenProperties DEF TypeOK
<1>3. ASSUME NEW r \in Requests, NEW n \in 1..Len(sent[r]), Accounted(r, n),
             sent'[r][n] = sent[r][n]
      PROVE  Accounted(r, n)'
  <2>1. sent[r][n] \in Range(sent[r])
    BY <1>2 DEF Range
  <2> QED
    BY <1>1, <1>3, <2>1 DEF Accounted
<1>4. ASSUME NEW r \in Requests, UNCHANGED sent[r],
             \/ pc'[r] = pc[r]
             \/ pc[r] \in Choosing /\ pc'[r] \in Choosing
             \/ pc[r] \in Sending /\ pc'[r] \in Sending
             \/ pc'[r] = "done"
      PROVE  /\ pc'[r] \in Choosing =>
                   \A n \in 1..Len(sent'[r]) : Accounted(r, n)'
             /\ pc'[r] \in Sending =>
                   \A n \in 1..(Len(sent'[r]) - 1) : Accounted(r, n)'
  <2>1. 1..(Len(sent[r]) - 1) \subseteq 1..Len(sent[r])
    BY <1>2
  <2> QED
    BY <1>3, <1>4, <2>1 DEF Rotations, Choosing, Sending
<1>5. ASSUME NEW r \in Requests, SelectWrite(r)
      PROVE  /\ pc'[r] \in Choosing =>
                   \A n \in 1..Len(sent'[r]) : Accounted(r, n)'
             /\ pc'[r] \in Sending =>
                   \A n \in 1..(Len(sent'[r]) - 1) : Accounted(r, n)'
  <2> DEFINE C == Candidates(r)
             stays == CanStay(mem[r], SessionOf[r], C)
             key == IF stays THEN mem[r].sessions[SessionOf[r]].key
                             ELSE Choose(mem[r], C, at[r])
  <2>1. pc[r] = "selecting"
    BY <1>5 DEF SelectWrite
  <2>2. \/ pc' = [pc EXCEPT ![r] = "done"] /\ sent' = sent
        \/ /\ Candidates(r) # {}
           /\ pc' = [pc EXCEPT ![r] = "send"]
           /\ sent' = [sent EXCEPT ![r] = Append(@, key)]
    BY <1>5, Zenon DEF SelectWrite, Ends, Moves
  <2>3. CASE pc' = [pc EXCEPT ![r] = "done"] /\ sent' = sent
    <3>1. pc'[r] = "done"
      BY <1>1, <2>3 DEF TypeOK
    <3> QED
      BY <1>4, <2>3, <3>1
  <2>4. CASE /\ Candidates(r) # {}
             /\ pc' = [pc EXCEPT ![r] = "send"]
             /\ sent' = [sent EXCEPT ![r] = Append(@, key)]
    <3>1. key \in KeySet
      BY <2>1, <2>4, ChosenIn
    <3> HIDE DEF key
    <3>2. pc'[r] = "send" /\ sent'[r] = Append(sent[r], key)
      BY <1>1, <2>4 DEF TypeOK
    <3>3. /\ Len(sent'[r]) = Len(sent[r]) + 1
          /\ \A n \in 1..Len(sent[r]) : sent'[r][n] = sent[r][n]
      BY <1>2, <3>1, <3>2, AppendProperties
    <3>4. Len(sent'[r]) - 1 = Len(sent[r])
      BY <1>2, <3>3
    <3>5. \A n \in 1..Len(sent[r]) : Accounted(r, n)'
      BY <1>3, <2>1, <3>3 DEF Rotations, Choosing
    <3> QED
      BY <3>2, <3>4, <3>5 DEF Choosing, Sending
  <2> QED
    BY <2>2, <2>3, <2>4
<1>6. ASSUME NEW r \in Requests, RecordWrite(r)
      PROVE  /\ pc'[r] \in Choosing =>
                   \A n \in 1..Len(sent'[r]) : Accounted(r, n)'
             /\ pc'[r] \in Sending =>
                   \A n \in 1..(Len(sent'[r]) - 1) : Accounted(r, n)'
  <2>1. pc[r] = "recording" /\ UNCHANGED sent
    BY <1>6 DEF RecordWrite
  <2>2. \/ pc' = [pc EXCEPT ![r] = "done"]
        \/ /\ pc' = [pc EXCEPT ![r] = "backoff"] /\ Written
           /\ Retryable(out[r].kind)
    BY <1>6 DEF RecordWrite, NotPersisted, Ends, Moves
  <2>3. CASE pc' = [pc EXCEPT ![r] = "done"]
    <3>1. pc'[r] = "done"
      BY <1>1, <2>3 DEF TypeOK
    <3> QED
      BY <1>4, <2>1, <3>1
  <2>4. CASE /\ pc' = [pc EXCEPT ![r] = "backoff"] /\ Written
             /\ Retryable(out[r].kind)
    <3>1. pc'[r] = "backoff"
      BY <1>1, <2>4 DEF TypeOK
    <3>2. file' = Recorded(mem[r], out[r])
      <4>1. faults \in Nat
        <5>1. faults \in 0..MaxFaults
          BY <1>1 DEF TypeOK
        <5> QED
          BY <5>1, Parameters
      <4>2. \/ file' = Recorded(mem[r], out[r])
            \/ faults' = faults + 1
        BY <1>6 DEF RecordWrite, Unlocked
      <4>3. faults' = faults
        BY <2>4 DEF Written
      <4> QED
        BY <4>1, <4>2, <4>3
    <3>3. PICK t \in 0..now : RecordedBy(r, t)
      <4>1. lock = r
        BY <2>1 DEF Core, Turn
      <4>2. PICK t \in 0..now : mem[r] = Normal(file, t)
        BY <4>1, Parameters DEF Core, Reads
      <4> QED
        BY <2>1, <3>2, <4>2 DEF RecordedBy
    <3>4. /\ out[r].req = r /\ out[r].n = Len(sent[r])
          /\ out[r].key = Last(sent[r]) /\ 1 <= Len(sent[r])
      BY <2>1 DEF Core, Spent, Sending
    <3>5. /\ out[r].key = sent[r][Len(sent[r])]
          /\ Len(sent[r]) \in 1..Len(sent[r])
      BY <1>2, <3>4 DEF Last
    <3>6. out[r].key \in file'.keys => out[r] \in file'.log
      <4>1. out[r].key \in Range(sent[r])
        BY <1>2, <3>5 DEF Range
      <4> QED
        BY <1>1, <3>3, <4>1
    <3>7. Accounted(r, Len(sent[r]))'
      <4>1. sent'[r][Len(sent'[r])] \in file'.keys =>
               \E o \in file'.log :
                  o.req = r /\ o.n = Len(sent'[r]) /\ Retryable(o.kind)
        BY <2>1, <2>4, <3>4, <3>5, <3>6
      <4> QED
        BY <4>1 DEF Accounted
    <3>8. \A n \in 1..(Len(sent[r]) - 1) : Accounted(r, n)'
      <4>1. 1..(Len(sent[r]) - 1) \subseteq 1..Len(sent[r])
        BY <1>2
      <4> QED
        BY <1>3, <2>1, <4>1 DEF Rotations, Sending
    <3>9. \A n \in 1..Len(sent[r]) :
             n = Len(sent[r]) \/ n \in 1..(Len(sent[r]) - 1)
      BY <1>2
    <3>10. ASSUME NEW n \in 1..Len(sent'[r])
           PROVE  Accounted(r, n)'
      <4>1. CASE n = Len(sent[r])
        BY <2>1, <3>5, <3>6, <2>4, <3>4, <4>1 DEF Accounted
      <4>2. CASE n \in 1..(Len(sent[r]) - 1)
        BY <3>8, <4>2
      <4> QED
        BY <2>1, <3>9, <4>1, <4>2
    <3> QED
      BY <3>1, <3>10 DEF Sending
  <2> QED
    BY <2>2, <2>3, <2>4
<1>7. ASSUME NEW r \in Requests,
             \/ Start(r) \/ SelectRead(r) \/ Send(r) \/ RecordRead(r)
             \/ LockTimeout(r)
      PROVE  /\ pc'[r] \in Choosing =>
                   \A n \in 1..Len(sent'[r]) : Accounted(r, n)'
             /\ pc'[r] \in Sending =>
                   \A n \in 1..(Len(sent'[r]) - 1) : Accounted(r, n)'
  <2>1. UNCHANGED sent
    BY <1>7 DEF Start, SelectRead, Send, RecordRead, LockTimeout
  <2>2. \/ pc[r] \in Choosing /\ pc'[r] \in Choosing
        \/ pc[r] \in Sending /\ pc'[r] \in Sending
        \/ pc'[r] = "done"
    BY <1>1, <1>7 DEF Start, SelectRead, Send, RecordRead, LockTimeout,
                      NotPersisted, Ends, Moves, TypeOK, Choosing, Sending
  <2> QED
    BY <1>4, <2>1, <2>2
<1>8. ASSUME NEW r \in Requests, RequestStep(r), NEW q \in Requests \ {r}
      PROVE  pc'[q] = pc[q] /\ UNCHANGED sent[q]
  <2>1. \E l \in Labels : pc' = [pc EXCEPT ![r] = l]
    BY <1>8 DEF RequestStep, Start, SelectRead, SelectWrite, Send, RecordRead,
                RecordWrite, LockTimeout, NotPersisted, Ends, Moves, Labels
  <2>2. sent' = sent \/ \E s : sent' = [sent EXCEPT ![r] = s]
    BY <1>8 DEF RequestStep, Start, SelectRead, SelectWrite, Send, RecordRead,
                RecordWrite, LockTimeout
  <2> QED
    BY <1>1, <2>1, <2>2 DEF TypeOK
<1>9. CASE \E r \in Requests : RequestStep(r)
  BY <1>4, <1>5, <1>6, <1>7, <1>8, <1>9 DEF Rotations, RequestStep
<1>10. CASE UNCHANGED <<pc, sent>>
  BY <1>4, <1>10 DEF Rotations
<1> QED
  BY <1>9, <1>10 DEF Next, CommandRead, CommandWrite, Tick, Terminating,
                     vars, request

(* A call that sends with a further key has every failure before it on     *)
(* file, unless the operator removed that key: failing over is durable.    *)
THEOREM FailoverDurable == Spec => []FailoverIsRecorded
<1>1. Init => Rotations
  <2> SUFFICES ASSUME Init PROVE Rotations
    OBVIOUS
  <2>1. \A r \in Requests : sent[r] = <<>> /\ pc[r] = "idle"
    BY DEF Init
  <2>2. Len(<<>>) = 0 /\ 1..0 = {}
    OBVIOUS
  <2> QED
    BY <2>1, <2>2 DEF Rotations, Choosing, Sending
<1>2. Core /\ Rotations /\ [Next]_vars => Rotations'
  BY RotationsStep
<1>3. Rotations => FailoverIsRecorded
  BY DEF Rotations, FailoverIsRecorded, Accounted, Sending
<1> QED
  BY Invariance, <1>1, <1>2, <1>3, PTL DEF Spec
=============================================================================
