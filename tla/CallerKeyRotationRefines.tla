---------------------- MODULE CallerKeyRotationRefines ----------------------
(***************************************************************************)
(* The crash-prone, file-by-file rotation implements the atomic one of     *)
(* CapabilityGeneration, for every value of the constants.                 *)
(***************************************************************************)
EXTENDS CallerKeyRotationProofs

Shown == <<generation, stage>>

(* A step that leaves the journal alone, and the secret too unless a       *)
(* rotation is pending, shows nothing.                                     *)
LEMMA QuietStep ==
    ASSUME journal' = journal, Pending \/ secret' = secret
    PROVE  UNCHANGED Shown
  BY DEF Shown, generation, stage, Pending, Verified

(* Neither does a phase written between "prepared" and "verified".         *)
LEMMA PhaseStep ==
    ASSUME Pending, Pending', journal'.prev = journal.prev
    PROVE  UNCHANGED Shown
  BY DEF Shown, generation, stage, Pending, Verified

(* An installation at rest is on its first generation.                     *)
LEMMA ImplInit == Init => Abstract!Init
<1>1. Init => journal.phase = "none" /\ secret = 1
  BY DEF Init, NoJournal
<1>2. Init => generation = 1 /\ stage = "rest"
  BY <1>1 DEF generation, stage, Verified
<1> QED
  BY <1>2 DEF Abstract!Init

(* Every step of the code begins, decides or settles an abstract rotation, *)
(* or leaves generation and stage alone.                                   *)
LEMMA ImplStep ==
    ASSUME IInv, [Next]_vars
    PROVE  Abstract!Next \/ UNCHANGED Shown
<1> USE DEF files, clients, local, budgets, Goto, Throw, Sound, Faulty
<1>1. TypeOK /\ Control /\ Rest /\ Minted /\ RollbackKept
  BY DEF IInv
<1>2. CASE Begin
  <2>1. journal.phase = "none" /\ journal'.phase = "prepared"
        /\ journal'.prev = secret
    BY <1>1, <1>2 DEF Begin, Control
  <2>2. stage = "rest" /\ stage' = "rotating" /\ UNCHANGED generation
    BY <2>1 DEF stage, generation, Verified
  <2> QED
    BY <2>2 DEF Abstract!Next, Abstract!Begin
<1>3. CASE RecordStopped \/ RecordSwapped \/ RecordRefreshed \/ RecordStarted
  <2>1. Pending
    BY <1>1, <1>3 DEF Control, ForwardOnly, Shared, RecordStopped,
          RecordSwapped, RecordRefreshed, RecordStarted
  <2>2. Pending' /\ journal'.prev = journal.prev
    BY <1>1, <1>3, <2>1 DEF TypeOK, Pending, WriteJournal, RecordStopped,
          RecordSwapped, RecordRefreshed, RecordStarted
  <2> QED
    BY <2>1, <2>2, PhaseStep
<1>4. CASE Commit
  <2>1. Pending /\ secret = journal.cur /\ journal.cur > journal.prev
        /\ journal.cur \in Nat
    BY <1>1, <1>4 DEF TypeOK, Commit, Control, ForwardOnly, NewIsLive
  <2>2. CASE journal' = journal
    BY <2>1, <2>2, QuietStep
  <2>3. CASE journal' # journal
    <3>1. journal'.phase = "verified" /\ journal'.cur = journal.cur
      BY <1>1, <1>4, <2>3 DEF TypeOK, Commit, WriteJournal
    <3>2. stage = "rotating" /\ stage' = "committed"
          /\ generation = journal.prev /\ generation' = journal.cur
      BY <2>1, <3>1 DEF stage, generation, Pending, Verified
    <3> QED
      BY <2>1, <3>2 DEF Abstract!Next, Abstract!Decide
  <2> QED
    BY <2>2, <2>3
<1>5. CASE Clear
  <2>1. CASE journal' = journal
    BY <1>5, <2>1, QuietStep DEF Clear
  <2>2. CASE journal' # journal
    <3>1. journal'.phase = "none" /\ secret' = secret
      BY <1>5, <2>2 DEF Clear, NoJournal
    <3>2. journal.phase # "none" /\ generation = secret
      BY <1>1, <1>5 DEF Clear, Control, RollbackKept, PrevIsLive, Pending,
            Verified, generation
    <3>3. stage \in {"rotating", "committed"} /\ stage' = "rest"
          /\ UNCHANGED generation
      BY <3>1, <3>2 DEF stage, generation, Verified
    <3> QED
      BY <3>3 DEF Abstract!Next, Abstract!Settle
  <2> QED
    BY <2>1, <2>2
<1>6. CASE \/ Rotate \/ BeginRefused \/ StopService \/ Mint
           \/ RefreshedInRecovery \/ StartService \/ Verify \/ Discard
           \/ ReadJournal \/ HaltService \/ UnlinkDisplaced
           \/ \E c \in Clients : Refresh(c)
  <2>1. journal' = journal /\ secret' = secret
    BY <1>6 DEF Rotate, BeginRefused, StopService, Mint,
          RefreshedInRecovery, StartService, Verify, Discard, ReadJournal,
          HaltService, UnlinkDisplaced, Refresh
  <2> QED
    BY <2>1, QuietStep
<1>7. CASE \/ Retire \/ Publish \/ Unpublish \/ Unretire \/ Displace
           \/ Promote \/ UndoPromote \/ UndoDisplace
  <2>1. journal' = journal /\ Pending
    BY <1>1, <1>7 DEF Control, ForwardOnly, RecoveryOnly, Retire, Publish,
          Unpublish, Unretire, Displace, Promote, UndoPromote, UndoDisplace
  <2> QED
    BY <2>1, QuietStep
<1>8. CASE Environment
  <2>1. CASE EnsureSecret
    <3>1. journal' = journal /\ secret = NoKey
      BY <2>1 DEF EnsureSecret
    <3>2. Pending
      BY <1>1, <3>1 DEF Rest, RollbackKept, Pending, Verified
    <3> QED
      BY <3>1, <3>2, QuietStep
  <2>2. CASE \/ Crash \/ OperatorStarts \/ OperatorStops
             \/ \E c \in Clients : Enable(c) \/ Disable(c)
    <3>1. journal' = journal /\ secret' = secret
      BY <2>2 DEF Crash, OperatorStarts, OperatorStops, Enable, Disable
    <3> QED
      BY <3>1, QuietStep
  <2> QED
    BY <1>8, <2>1, <2>2 DEF Environment
<1>9. CASE UNCHANGED vars
  BY <1>9, QuietStep DEF vars
<1> QED
  BY <1>2, <1>3, <1>4, <1>5, <1>6, <1>7, <1>8, <1>9 DEF Next, Rotator

(* Every behaviour of the rotation, crashes included, shows an operator a  *)
(* generation that only ever moves forward, in the one step that writes    *)
(* "verified", and never while a rollback settles.                         *)
THEOREM RotationIsAtomic == Spec => AtomicRotation
<1>1. Init => Abstract!Init
  BY ImplInit
<1>2. IInv /\ [Next]_vars => [Abstract!Next]_Abstract!vars
  BY ImplStep DEF Abstract!vars, Shown
<1> QED
  BY <1>1, <1>2, Invariance, PTL DEF Spec, Abstract!Spec, AtomicRotation
=============================================================================
