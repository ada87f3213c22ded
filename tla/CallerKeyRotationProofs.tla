---------------------- MODULE CallerKeyRotationProofs ----------------------
(***************************************************************************)
(* Safety of the caller-key rotation for every set of clients, every       *)
(* number of rotations, crashes and faults.                                *)
(***************************************************************************)
EXTENDS CallerKeyRotation, TLAPS

(* Steps of the forward transaction, and steps only a recovery takes.      *)
ForwardOnly  == {"stop", "stopped", "mint", "retire", "publish", "unpublish",
                 "unretire", "swapped", "started", "commit"}
RecoveryOnly == {"halt", "displace", "promote", "unlink", "undoPromote",
                 "undoDisplace"}
Shared       == {"refresh", "start", "verify"}

(* Both sides stop the router before they touch the secret.                *)
RouterDown == {"stopped", "mint", "retire", "publish", "unpublish",
               "unretire", "swapped", "displace", "promote", "unlink",
               "undoPromote", "undoDisplace", "refresh", "start"}

(* Where the rollback generation is in its own file, and where it is live. *)
BackedUp    == {"publish", "unpublish", "unretire", "swapped", "displace",
                "promote", "undoDisplace"}
NotBackedUp == {"stop", "stopped", "mint", "retire", "unlink", "undoPromote"}

Published == {"start", "started", "verify", "commit", "discard", "clear"}

(* A forward step past the swap works on the new generation, a recovery    *)
(* step past the restore on the previous one.                              *)
NewIsLive  == secret = journal.cur /\ journal.cur > journal.prev
PrevIsLive == backup = NoKey /\ secret = journal.prev

Control ==
    /\ journal.phase = "none" => pc \in {"idle", "read", "begin"}
    /\ pc = "begin" => journal.phase = "none" /\ cause = "startup"
    /\ pc = "read" => cause # "run"
    /\ pc \in ForwardOnly => Pending /\ cause = "run"
    /\ pc \in RecoveryOnly => Pending /\ cause # "run"
    /\ pc \in Shared => Pending
    /\ pc \in RouterDown => service = NoKey
    /\ pc \in BackedUp => backup # NoKey
    /\ pc \in NotBackedUp => backup = NoKey
    /\ pc = "retire" => temp > journal.prev
    /\ pc = "publish" => temp > journal.prev
    /\ pc = "swapped" => secret > journal.prev
    /\ pc \in Shared \cup {"started", "commit"} =>
          IF cause = "run" THEN NewIsLive ELSE PrevIsLive
    /\ pc \in {"discard", "clear"} =>
          Verified \/ (Pending /\ cause # "run" /\ PrevIsLive)
    /\ pc \in {"commit", "discard", "clear"} => service \in {NoKey, secret}

(* The journal names every installed client but the late ones, and the     *)
(* named ones hold the live key as far as refreshTargets has come.         *)
Named ==
    /\ Pending => installed \subseteq journal.targets \cup late
    /\ pc = "refresh" => todo \subseteq journal.targets
    /\ pc = "refresh" => AllHold((installed \ late) \ todo, secret)
    /\ pc \in Published => AllHold(installed \ late, secret)

Rest ==
    journal.phase = "none" =>
        /\ secret # NoKey
        /\ AllHold(installed \ late, secret)
        /\ service \in {NoKey, secret}

(* Generations are numbered in the order they were minted.                 *)
Minted ==
    /\ minted > 0
    /\ secret <= minted /\ backup <= minted /\ temp <= minted
    /\ displaced <= minted
    /\ journal.prev <= minted /\ journal.cur <= minted

IInv == /\ TypeOK /\ Control /\ Named /\ Rest /\ Minted
        /\ RollbackKept /\ VerifiedIsPublished

(* The installation a rotation starts from satisfies the invariant.        *)
LEMMA InductiveInit == Init => IInv
<1> SUFFICES ASSUME Init PROVE IInv
  OBVIOUS
<1> USE DEF Init, NoJournal, NoKey
<1>1. TypeOK
  <2>1. {} \in SUBSET Clients
    OBVIOUS
  <2>2. journal \in [phase : Phases \cup {"none"}, prev : Nat, cur : Nat,
                     was : BOOLEAN, targets : SUBSET Clients]
    BY <2>1 DEF Phases
  <2>3. shouldRun \in BOOLEAN /\ wanted \in BOOLEAN
    OBVIOUS
  <2> QED
    BY <2>1, <2>2, <2>3 DEF TypeOK, Labels, Causes
<1>2. Control /\ Minted
  BY DEF Control, Minted, ForwardOnly, RecoveryOnly, Shared, RouterDown,
         BackedUp, NotBackedUp
<1>3. Named /\ Rest
  BY DEF Named, Rest, AllHold, Pending, Published
<1>4. RollbackKept /\ VerifiedIsPublished
  BY DEF RollbackKept, VerifiedIsPublished, Pending, Verified
<1> QED
  BY <1>1, <1>2, <1>3, <1>4 DEF IInv

(* Every step of the rotator and of its environment preserves the          *)
(* invariant.                                                              *)
LEMMA InductiveStep == IInv /\ [Next]_vars => IInv'
<1> SUFFICES ASSUME TypeOK, Control, Named, Rest, Minted, RollbackKept,
                    VerifiedIsPublished, [Next]_vars
             PROVE  IInv'
  BY DEF IInv
<1> USE DEF NoKey, NoJournal, Pending, Verified, RollbackKey, Goto, Throw,
            Faulty, Sound, files, clients, local, budgets, WriteJournal,
            ForwardOnly, RecoveryOnly, Shared, RouterDown, BackedUp,
            NotBackedUp, Published, NewIsLive, PrevIsLive
<1>1. CASE Rotate
  <2>1. TypeOK'
    BY <1>1 DEF TypeOK, Phases, Causes, Labels, Rotate
  <2>2. Control'
    BY <1>1 DEF TypeOK, Control, Minted, Rest, RollbackKept,
              VerifiedIsPublished, Rotate
  <2>3. Minted'
    BY <1>1 DEF TypeOK, Control, Minted, Rotate
  <2>4. Named'
    BY <1>1 DEF TypeOK, Control, Named, Rest, VerifiedIsPublished,
              AllHold, Rotate
  <2>5. Rest' /\ VerifiedIsPublished'
    BY <1>1 DEF TypeOK, Control, Named, Rest, RollbackKept,
              VerifiedIsPublished, AllHold, Rotate
  <2>6. RollbackKept'
    BY <1>1 DEF TypeOK, Control, RollbackKept, Rotate
  <2> QED
    BY <2>1, <2>2, <2>3, <2>4, <2>5, <2>6 DEF IInv
<1>2. CASE BeginRefused
  <2>1. TypeOK'
    BY <1>2 DEF TypeOK, Phases, Causes, Labels, BeginRefused
  <2>2. Control'
    BY <1>2 DEF TypeOK, Control, Minted, Rest, RollbackKept,
              VerifiedIsPublished, BeginRefused
  <2>3. Minted'
    BY <1>2 DEF TypeOK, Control, Minted, BeginRefused
  <2>4. Named'
    BY <1>2 DEF TypeOK, Control, Named, Rest, VerifiedIsPublished,
              AllHold, BeginRefused
  <2>5. Rest' /\ VerifiedIsPublished'
    BY <1>2 DEF TypeOK, Control, Named, Rest, RollbackKept,
              VerifiedIsPublished, AllHold, BeginRefused
  <2>6. RollbackKept'
    BY <1>2 DEF TypeOK, Control, RollbackKept, BeginRefused
  <2> QED
    BY <2>1, <2>2, <2>3, <2>4, <2>5, <2>6 DEF IInv
<1>3. CASE Begin
  <2>1. TypeOK'
    BY <1>3 DEF TypeOK, Phases, Causes, Labels, Begin
  <2>2. Control'
    BY <1>3 DEF TypeOK, Control, Minted, Rest, RollbackKept,
              VerifiedIsPublished, Begin
  <2>3. Minted'
    BY <1>3 DEF TypeOK, Control, Minted, Begin
  <2>4. Named'
    BY <1>3 DEF TypeOK, Control, Named, Rest, VerifiedIsPublished,
              AllHold, Begin
  <2>5. Rest' /\ VerifiedIsPublished'
    BY <1>3 DEF TypeOK, Control, Named, Rest, RollbackKept,
              VerifiedIsPublished, AllHold, Begin
  <2>6. RollbackKept'
    BY <1>3 DEF TypeOK, Control, RollbackKept, Begin
  <2> QED
    BY <2>1, <2>2, <2>3, <2>4, <2>5, <2>6 DEF IInv
<1>4. CASE StopService
  <2>1. TypeOK'
    BY <1>4 DEF TypeOK, Phases, Causes, Labels, StopService
  <2>2. Control'
    BY <1>4 DEF TypeOK, Control, Minted, Rest, RollbackKept,
              VerifiedIsPublished, StopService
  <2>3. Minted'
    BY <1>4 DEF TypeOK, Control, Minted, StopService
  <2>4. Named'
    BY <1>4 DEF TypeOK, Control, Named, Rest, VerifiedIsPublished,
              AllHold, StopService
  <2>5. Rest' /\ VerifiedIsPublished'
    BY <1>4 DEF TypeOK, Control, Named, Rest, RollbackKept,
              VerifiedIsPublished, AllHold, StopService
  <2>6. RollbackKept'
    BY <1>4 DEF TypeOK, Control, RollbackKept, StopService
  <2> QED
    BY <2>1, <2>2, <2>3, <2>4, <2>5, <2>6 DEF IInv
<1>5. CASE RecordStopped
  <2>1. TypeOK'
    BY <1>5 DEF TypeOK, Phases, Causes, Labels, RecordStopped
  <2>2. Control'
    BY <1>5 DEF TypeOK, Control, Minted, Rest, RollbackKept,
              VerifiedIsPublished, RecordStopped
  <2>3. Minted'
    BY <1>5 DEF TypeOK, Control, Minted, RecordStopped
  <2>4. Named'
    BY <1>5 DEF TypeOK, Control, Named, Rest, VerifiedIsPublished,
              AllHold, RecordStopped
  <2>5. Rest' /\ VerifiedIsPublished'
    BY <1>5 DEF TypeOK, Control, Named, Rest, RollbackKept,
              VerifiedIsPublished, AllHold, RecordStopped
  <2>6. RollbackKept'
    BY <1>5 DEF TypeOK, Control, RollbackKept, RecordStopped
  <2> QED
    BY <2>1, <2>2, <2>3, <2>4, <2>5, <2>6 DEF IInv
<1>6. CASE Mint
  <2>1. TypeOK'
    BY <1>6 DEF TypeOK, Phases, Causes, Labels, Mint
  <2>2. Control'
    BY <1>6 DEF TypeOK, Control, Minted, Rest, RollbackKept,
              VerifiedIsPublished, Mint
  <2>3. Minted'
    BY <1>6 DEF TypeOK, Control, Minted, Mint
  <2>4. Named'
    BY <1>6 DEF TypeOK, Control, Named, Rest, VerifiedIsPublished,
              AllHold, Mint
  <2>5. Rest' /\ VerifiedIsPublished'
    BY <1>6 DEF TypeOK, Control, Named, Rest, RollbackKept,
              VerifiedIsPublished, AllHold, Mint
  <2>6. RollbackKept'
    BY <1>6 DEF TypeOK, Control, RollbackKept, Mint
  <2> QED
    BY <2>1, <2>2, <2>3, <2>4, <2>5, <2>6 DEF IInv
<1>7. CASE Retire
  <2>1. TypeOK'
    BY <1>7 DEF TypeOK, Phases, Causes, Labels, Retire
  <2>2. Control'
    BY <1>7 DEF TypeOK, Control, Minted, Rest, RollbackKept,
              VerifiedIsPublished, Retire
  <2>3. Minted'
    BY <1>7 DEF TypeOK, Control, Minted, Retire
  <2>4. Named'
    BY <1>7 DEF TypeOK, Control, Named, Rest, VerifiedIsPublished,
              AllHold, Retire
  <2>5. Rest' /\ VerifiedIsPublished'
    BY <1>7 DEF TypeOK, Control, Named, Rest, RollbackKept,
              VerifiedIsPublished, AllHold, Retire
  <2>6. RollbackKept'
    BY <1>7 DEF TypeOK, Control, RollbackKept, Retire
  <2> QED
    BY <2>1, <2>2, <2>3, <2>4, <2>5, <2>6 DEF IInv
<1>8. CASE Publish
  <2>1. TypeOK'
    BY <1>8 DEF TypeOK, Phases, Causes, Labels, Publish
  <2>2. Control'
    BY <1>8 DEF TypeOK, Control, Minted, Rest, RollbackKept,
              VerifiedIsPublished, Publish
  <2>3. Minted'
    BY <1>8 DEF TypeOK, Control, Minted, Publish
  <2>4. Named'
    BY <1>8 DEF TypeOK, Control, Named, Rest, VerifiedIsPublished,
              AllHold, Publish
  <2>5. Rest' /\ VerifiedIsPublished'
    BY <1>8 DEF TypeOK, Control, Named, Rest, RollbackKept,
              VerifiedIsPublished, AllHold, Publish
  <2>6. RollbackKept'
    BY <1>8 DEF TypeOK, Control, RollbackKept, Publish
  <2> QED
    BY <2>1, <2>2, <2>3, <2>4, <2>5, <2>6 DEF IInv
<1>9. CASE Unpublish
  <2>1. TypeOK'
    BY <1>9 DEF TypeOK, Phases, Causes, Labels, Unpublish
  <2>2. Control'
    BY <1>9 DEF TypeOK, Control, Minted, Rest, RollbackKept,
              VerifiedIsPublished, Unpublish
  <2>3. Minted'
    BY <1>9 DEF TypeOK, Control, Minted, Unpublish
  <2>4. Named'
    BY <1>9 DEF TypeOK, Control, Named, Rest, VerifiedIsPublished,
              AllHold, Unpublish
  <2>5. Rest' /\ VerifiedIsPublished'
    BY <1>9 DEF TypeOK, Control, Named, Rest, RollbackKept,
              VerifiedIsPublished, AllHold, Unpublish
  <2>6. RollbackKept'
    BY <1>9 DEF TypeOK, Control, RollbackKept, Unpublish
  <2> QED
    BY <2>1, <2>2, <2>3, <2>4, <2>5, <2>6 DEF IInv
<1>10. CASE Unretire
  <2>1. TypeOK'
    BY <1>10 DEF TypeOK, Phases, Causes, Labels, Unretire
  <2>2. Control'
    BY <1>10 DEF TypeOK, Control, Minted, Rest, RollbackKept,
              VerifiedIsPublished, Unretire
  <2>3. Minted'
    BY <1>10 DEF TypeOK, Control, Minted, Unretire
  <2>4. Named'
    BY <1>10 DEF TypeOK, Control, Named, Rest, VerifiedIsPublished,
              AllHold, Unretire
  <2>5. Rest' /\ VerifiedIsPublished'
    BY <1>10 DEF TypeOK, Control, Named, Rest, RollbackKept,
              VerifiedIsPublished, AllHold, Unretire
  <2>6. RollbackKept'
    BY <1>10 DEF TypeOK, Control, RollbackKept, Unretire
  <2> QED
    BY <2>1, <2>2, <2>3, <2>4, <2>5, <2>6 DEF IInv
<1>11. CASE RecordSwapped
  <2>1. TypeOK'
    <3>1. todo' \in SUBSET Clients
      BY <1>11 DEF TypeOK, RecordSwapped
    <3>2. journal' \in [phase : Phases \cup {"none"}, prev : Nat, cur : Nat,
                        was : BOOLEAN, targets : SUBSET Clients]
      BY <1>11 DEF TypeOK, Phases, RecordSwapped
    <3> QED
      BY <1>11, <3>1, <3>2 DEF TypeOK, Labels, Causes, RecordSwapped
  <2>2. Control'
    BY <1>11 DEF TypeOK, Control, Minted, Rest, RollbackKept,
              VerifiedIsPublished, RecordSwapped
  <2>3. Minted'
    BY <1>11 DEF TypeOK, Control, Minted, RecordSwapped
  <2>4. Named'
    BY <1>11 DEF TypeOK, Control, Named, Rest, VerifiedIsPublished,
              AllHold, RecordSwapped
  <2>5. Rest' /\ VerifiedIsPublished'
    BY <1>11 DEF TypeOK, Control, Named, Rest, RollbackKept,
              VerifiedIsPublished, AllHold, RecordSwapped
  <2>6. RollbackKept'
    BY <1>11 DEF TypeOK, Control, RollbackKept, RecordSwapped
  <2> QED
    BY <2>1, <2>2, <2>3, <2>4, <2>5, <2>6 DEF IInv
<1>12. ASSUME NEW c \in Clients, Refresh(c) PROVE IInv'
  <2>1. TypeOK'
    BY <1>12 DEF TypeOK, Phases, Causes, Labels, Refresh
  <2>2. Control'
    BY <1>12 DEF TypeOK, Control, Minted, Rest, RollbackKept,
              VerifiedIsPublished, Refresh
  <2>3. Minted'
    BY <1>12 DEF TypeOK, Control, Minted, Refresh
  <2>4. Named'
    <3>1. CASE client' = client /\ todo' = todo /\ late' = late
      BY <1>12, <3>1 DEF TypeOK, Control, Named, AllHold, Refresh
    <3>2. CASE /\ client' = [client EXCEPT ![c] = secret]
               /\ todo' = todo \ {c} /\ late' = late \ {c}
               /\ pc' = pc /\ cause' = cause
      <4>1. client'[c] = secret /\ \A d \in Clients \ {c} : client'[d] = client[d]
        BY <3>2 DEF TypeOK
      <4>2. UNCHANGED <<secret, journal, installed>> /\ pc = "refresh"
        BY <1>12 DEF Refresh
      <4>3. AllHold((installed \ late) \ todo, secret)'
        <5> SUFFICES ASSUME NEW d \in (installed \ late') \ todo'
                     PROVE  client'[d] = secret
          BY <4>2 DEF AllHold
        <5>1. d = c \/ d \in (installed \ late) \ todo
          BY <3>2
        <5> QED
          BY <4>1, <4>2, <5>1 DEF TypeOK, Named, AllHold
      <4>4. Pending' => installed' \subseteq journal'.targets \cup late'
        BY <1>12, <3>2, <4>2 DEF TypeOK, Control, Named, Refresh
      <4> QED
        BY <3>2, <4>2, <4>3, <4>4 DEF Named
    <3> QED
      BY <1>12, <3>1, <3>2 DEF Refresh
  <2>5. Rest' /\ VerifiedIsPublished'
    BY <1>12 DEF TypeOK, Control, Named, Rest, RollbackKept,
              VerifiedIsPublished, AllHold, Refresh
  <2>6. RollbackKept'
    BY <1>12 DEF TypeOK, Control, RollbackKept, Refresh
  <2> QED
    BY <2>1, <2>2, <2>3, <2>4, <2>5, <2>6 DEF IInv
<1>13. CASE RecordRefreshed
  <2>1. TypeOK'
    BY <1>13 DEF TypeOK, Phases, Causes, Labels, RecordRefreshed
  <2>2. Control'
    BY <1>13 DEF TypeOK, Control, Minted, Rest, RollbackKept,
              VerifiedIsPublished, RecordRefreshed
  <2>3. Minted'
    BY <1>13 DEF TypeOK, Control, Minted, RecordRefreshed
  <2>4. Named'
    BY <1>13 DEF TypeOK, Control, Named, Rest, VerifiedIsPublished,
              AllHold, RecordRefreshed
  <2>5. Rest' /\ VerifiedIsPublished'
    BY <1>13 DEF TypeOK, Control, Named, Rest, RollbackKept,
              VerifiedIsPublished, AllHold, RecordRefreshed
  <2>6. RollbackKept'
    BY <1>13 DEF TypeOK, Control, RollbackKept, RecordRefreshed
  <2> QED
    BY <2>1, <2>2, <2>3, <2>4, <2>5, <2>6 DEF IInv
<1>14. CASE RefreshedInRecovery
  <2>1. TypeOK'
    BY <1>14 DEF TypeOK, Phases, Causes, Labels, RefreshedInRecovery
  <2>2. Control'
    BY <1>14 DEF TypeOK, Control, Minted, Rest, RollbackKept,
              VerifiedIsPublished, RefreshedInRecovery
  <2>3. Minted'
    BY <1>14 DEF TypeOK, Control, Minted, RefreshedInRecovery
  <2>4. Named'
    BY <1>14 DEF TypeOK, Control, Named, Rest, VerifiedIsPublished,
              AllHold, RefreshedInRecovery
  <2>5. Rest' /\ VerifiedIsPublished'
    BY <1>14 DEF TypeOK, Control, Named, Rest, RollbackKept,
              VerifiedIsPublished, AllHold, RefreshedInRecovery
  <2>6. RollbackKept'
    BY <1>14 DEF TypeOK, Control, RollbackKept, RefreshedInRecovery
  <2> QED
    BY <2>1, <2>2, <2>3, <2>4, <2>5, <2>6 DEF IInv
<1>15. CASE StartService
  <2>1. TypeOK'
    BY <1>15 DEF TypeOK, Phases, Causes, Labels, StartService
  <2>2. Control'
    BY <1>15 DEF TypeOK, Control, Minted, Rest, RollbackKept,
              VerifiedIsPublished, StartService
  <2>3. Minted'
    BY <1>15 DEF TypeOK, Control, Minted, StartService
  <2>4. Named'
    BY <1>15 DEF TypeOK, Control, Named, Rest, VerifiedIsPublished,
              AllHold, StartService
  <2>5. Rest' /\ VerifiedIsPublished'
    BY <1>15 DEF TypeOK, Control, Named, Rest, RollbackKept,
              VerifiedIsPublished, AllHold, StartService
  <2>6. RollbackKept'
    BY <1>15 DEF TypeOK, Control, RollbackKept, StartService
  <2> QED
    BY <2>1, <2>2, <2>3, <2>4, <2>5, <2>6 DEF IInv
<1>16. CASE RecordStarted
  <2>1. TypeOK'
    BY <1>16 DEF TypeOK, Phases, Causes, Labels, RecordStarted
  <2>2. Control'
    BY <1>16 DEF TypeOK, Control, Minted, Rest, RollbackKept,
              VerifiedIsPublished, RecordStarted
  <2>3. Minted'
    BY <1>16 DEF TypeOK, Control, Minted, RecordStarted
  <2>4. Named'
    BY <1>16 DEF TypeOK, Control, Named, Rest, VerifiedIsPublished,
              AllHold, RecordStarted
  <2>5. Rest' /\ VerifiedIsPublished'
    BY <1>16 DEF TypeOK, Control, Named, Rest, RollbackKept,
              VerifiedIsPublished, AllHold, RecordStarted
  <2>6. RollbackKept'
    BY <1>16 DEF TypeOK, Control, RollbackKept, RecordStarted
  <2> QED
    BY <2>1, <2>2, <2>3, <2>4, <2>5, <2>6 DEF IInv
<1>17. CASE Verify
  <2>1. TypeOK'
    BY <1>17 DEF TypeOK, Phases, Causes, Labels, Verify, Accepted
  <2>2. Control'
    BY <1>17 DEF TypeOK, Control, Minted, Rest, RollbackKept,
              VerifiedIsPublished, Verify, Accepted
  <2>3. Minted'
    BY <1>17 DEF TypeOK, Control, Minted, Verify, Accepted
  <2>4. Named'
    BY <1>17 DEF TypeOK, Control, Named, Rest, VerifiedIsPublished,
              AllHold, Verify, Accepted
  <2>5. Rest' /\ VerifiedIsPublished'
    BY <1>17 DEF TypeOK, Control, Named, Rest, RollbackKept,
              VerifiedIsPublished, AllHold, Verify, Accepted
  <2>6. RollbackKept'
    BY <1>17 DEF TypeOK, Control, RollbackKept, Verify, Accepted
  <2> QED
    BY <2>1, <2>2, <2>3, <2>4, <2>5, <2>6 DEF IInv
<1>18. CASE Commit
  <2>1. TypeOK'
    BY <1>18 DEF TypeOK, Phases, Causes, Labels, Commit
  <2>2. Control'
    BY <1>18 DEF TypeOK, Control, Minted, Rest, RollbackKept,
              VerifiedIsPublished, Commit
  <2>3. Minted'
    BY <1>18 DEF TypeOK, Control, Minted, Commit
  <2>4. Named'
    BY <1>18 DEF TypeOK, Control, Named, Rest, VerifiedIsPublished,
              AllHold, Commit
  <2>5. Rest' /\ VerifiedIsPublished'
    BY <1>18 DEF TypeOK, Control, Named, Rest, RollbackKept,
              VerifiedIsPublished, AllHold, Commit
  <2>6. RollbackKept'
    BY <1>18 DEF TypeOK, Control, RollbackKept, Commit
  <2> QED
    BY <2>1, <2>2, <2>3, <2>4, <2>5, <2>6 DEF IInv
<1>19. CASE Discard
  <2>1. TypeOK'
    BY <1>19 DEF TypeOK, Phases, Causes, Labels, Discard
  <2>2. Control'
    BY <1>19 DEF TypeOK, Control, Minted, Rest, RollbackKept,
              VerifiedIsPublished, Discard
  <2>3. Minted'
    BY <1>19 DEF TypeOK, Control, Minted, Discard
  <2>4. Named'
    BY <1>19 DEF TypeOK, Control, Named, Rest, VerifiedIsPublished,
              AllHold, Discard
  <2>5. Rest' /\ VerifiedIsPublished'
    BY <1>19 DEF TypeOK, Control, Named, Rest, RollbackKept,
              VerifiedIsPublished, AllHold, Discard
  <2>6. RollbackKept'
    BY <1>19 DEF TypeOK, Control, RollbackKept, Discard
  <2> QED
    BY <2>1, <2>2, <2>3, <2>4, <2>5, <2>6 DEF IInv
<1>20. CASE Clear
  <2>1. TypeOK'
    <3>1. {} \in SUBSET Clients
      OBVIOUS
    <3>2. NoJournal \in [phase : Phases \cup {"none"}, prev : Nat, cur : Nat,
                         was : BOOLEAN, targets : SUBSET Clients]
      BY <3>1
    <3>3. journal' \in [phase : Phases \cup {"none"}, prev : Nat, cur : Nat,
                        was : BOOLEAN, targets : SUBSET Clients]
      <4>1. journal' = NoJournal \/ journal' = journal
        BY <1>20 DEF Clear
      <4> QED
        BY <3>2, <4>1 DEF TypeOK
    <3> HIDE DEF NoJournal
    <3> QED
      BY <1>20, <3>3 DEF TypeOK, Labels, Causes, Clear
  <2>2. Control'
    BY <1>20 DEF TypeOK, Control, Minted, Rest, RollbackKept,
              VerifiedIsPublished, Clear
  <2>3. Minted'
    BY <1>20 DEF TypeOK, Control, Minted, Clear
  <2>4. Named'
    BY <1>20 DEF TypeOK, Control, Named, Rest, VerifiedIsPublished,
              AllHold, Clear
  <2>5. Rest' /\ VerifiedIsPublished'
    BY <1>20 DEF TypeOK, Control, Named, Rest, RollbackKept,
              VerifiedIsPublished, AllHold, Clear
  <2>6. RollbackKept'
    BY <1>20 DEF TypeOK, Control, RollbackKept, Clear
  <2> QED
    BY <2>1, <2>2, <2>3, <2>4, <2>5, <2>6 DEF IInv
<1>21. CASE ReadJournal
  <2>1. TypeOK'
    BY <1>21 DEF TypeOK, Phases, Causes, Labels, ReadJournal
  <2>2. Control'
    BY <1>21 DEF TypeOK, Control, Minted, Rest, RollbackKept,
              VerifiedIsPublished, ReadJournal
  <2>3. Minted'
    BY <1>21 DEF TypeOK, Control, Minted, ReadJournal
  <2>4. Named'
    BY <1>21 DEF TypeOK, Control, Named, Rest, VerifiedIsPublished,
              AllHold, ReadJournal
  <2>5. Rest' /\ VerifiedIsPublished'
    BY <1>21 DEF TypeOK, Control, Named, Rest, RollbackKept,
              VerifiedIsPublished, AllHold, ReadJournal
  <2>6. RollbackKept'
    BY <1>21 DEF TypeOK, Control, RollbackKept, ReadJournal
  <2> QED
    BY <2>1, <2>2, <2>3, <2>4, <2>5, <2>6 DEF IInv
<1>22. CASE HaltService
  <2>1. TypeOK'
    <3>1. todo' \in SUBSET Clients
      BY <1>22 DEF TypeOK, HaltService
    <3>2. shouldRun' \in BOOLEAN
      BY <1>22 DEF TypeOK, HaltService
    <3>3. pc' \in Labels /\ cause' \in Causes /\ service' \in Nat
      BY <1>22 DEF TypeOK, Labels, Causes, HaltService
    <3>4. crashes' \in Nat /\ faults' \in Nat
      BY <1>22 DEF TypeOK, HaltService
    <3>5. UNCHANGED <<files, journal, clients, stale, minted, wanted>>
      BY <1>22 DEF HaltService
    <3> QED
      BY <3>1, <3>2, <3>3, <3>4, <3>5 DEF TypeOK
  <2>2. Control'
    BY <1>22 DEF TypeOK, Control, Minted, Rest, RollbackKept,
              VerifiedIsPublished, HaltService
  <2>3. Minted'
    BY <1>22 DEF TypeOK, Control, Minted, HaltService
  <2>4. Named'
    BY <1>22 DEF TypeOK, Control, Named, Rest, VerifiedIsPublished,
              AllHold, HaltService
  <2>5. Rest' /\ VerifiedIsPublished'
    BY <1>22 DEF TypeOK, Control, Named, Rest, RollbackKept,
              VerifiedIsPublished, AllHold, HaltService
  <2>6. RollbackKept'
    BY <1>22 DEF TypeOK, Control, RollbackKept, HaltService
  <2> QED
    BY <2>1, <2>2, <2>3, <2>4, <2>5, <2>6 DEF IInv
<1>23. CASE Displace
  <2>1. TypeOK'
    BY <1>23 DEF TypeOK, Phases, Causes, Labels, Displace
  <2>2. Control'
    BY <1>23 DEF TypeOK, Control, Minted, Rest, RollbackKept,
              VerifiedIsPublished, Displace
  <2>3. Minted'
    BY <1>23 DEF TypeOK, Control, Minted, Displace
  <2>4. Named'
    BY <1>23 DEF TypeOK, Control, Named, Rest, VerifiedIsPublished,
              AllHold, Displace
  <2>5. Rest' /\ VerifiedIsPublished'
    BY <1>23 DEF TypeOK, Control, Named, Rest, RollbackKept,
              VerifiedIsPublished, AllHold, Displace
  <2>6. RollbackKept'
    BY <1>23 DEF TypeOK, Control, RollbackKept, Displace
  <2> QED
    BY <2>1, <2>2, <2>3, <2>4, <2>5, <2>6 DEF IInv
<1>24. CASE Promote
  <2>1. TypeOK'
    BY <1>24 DEF TypeOK, Phases, Causes, Labels, Promote
  <2>2. Control'
    BY <1>24 DEF TypeOK, Control, Minted, Rest, RollbackKept,
              VerifiedIsPublished, Promote
  <2>3. Minted'
    BY <1>24 DEF TypeOK, Control, Minted, Promote
  <2>4. Named'
    BY <1>24 DEF TypeOK, Control, Named, Rest, VerifiedIsPublished,
              AllHold, Promote
  <2>5. Rest' /\ VerifiedIsPublished'
    BY <1>24 DEF TypeOK, Control, Named, Rest, RollbackKept,
              VerifiedIsPublished, AllHold, Promote
  <2>6. RollbackKept'
    BY <1>24 DEF TypeOK, Control, RollbackKept, Promote
  <2> QED
    BY <2>1, <2>2, <2>3, <2>4, <2>5, <2>6 DEF IInv
<1>25. CASE UnlinkDisplaced
  <2>1. TypeOK'
    BY <1>25 DEF TypeOK, Phases, Causes, Labels, UnlinkDisplaced
  <2>2. Control'
    BY <1>25 DEF TypeOK, Control, Minted, Rest, RollbackKept,
              VerifiedIsPublished, UnlinkDisplaced
  <2>3. Minted'
    BY <1>25 DEF TypeOK, Control, Minted, UnlinkDisplaced
  <2>4. Named'
    BY <1>25 DEF TypeOK, Control, Named, Rest, VerifiedIsPublished,
              AllHold, UnlinkDisplaced
  <2>5. Rest' /\ VerifiedIsPublished'
    BY <1>25 DEF TypeOK, Control, Named, Rest, RollbackKept,
              VerifiedIsPublished, AllHold, UnlinkDisplaced
  <2>6. RollbackKept'
    BY <1>25 DEF TypeOK, Control, RollbackKept, UnlinkDisplaced
  <2> QED
    BY <2>1, <2>2, <2>3, <2>4, <2>5, <2>6 DEF IInv
<1>26. CASE UndoPromote
  <2>1. TypeOK'
    BY <1>26 DEF TypeOK, Phases, Causes, Labels, UndoPromote
  <2>2. Control'
    BY <1>26 DEF TypeOK, Control, Minted, Rest, RollbackKept,
              VerifiedIsPublished, UndoPromote
  <2>3. Minted'
    BY <1>26 DEF TypeOK, Control, Minted, UndoPromote
  <2>4. Named'
    BY <1>26 DEF TypeOK, Control, Named, Rest, VerifiedIsPublished,
              AllHold, UndoPromote
  <2>5. Rest' /\ VerifiedIsPublished'
    BY <1>26 DEF TypeOK, Control, Named, Rest, RollbackKept,
              VerifiedIsPublished, AllHold, UndoPromote
  <2>6. RollbackKept'
    BY <1>26 DEF TypeOK, Control, RollbackKept, UndoPromote
  <2> QED
    BY <2>1, <2>2, <2>3, <2>4, <2>5, <2>6 DEF IInv
<1>27. CASE UndoDisplace
  <2>1. TypeOK'
    BY <1>27 DEF TypeOK, Phases, Causes, Labels, UndoDisplace
  <2>2. Control'
    BY <1>27 DEF TypeOK, Control, Minted, Rest, RollbackKept,
              VerifiedIsPublished, UndoDisplace
  <2>3. Minted'
    BY <1>27 DEF TypeOK, Control, Minted, UndoDisplace
  <2>4. Named'
    BY <1>27 DEF TypeOK, Control, Named, Rest, VerifiedIsPublished,
              AllHold, UndoDisplace
  <2>5. Rest' /\ VerifiedIsPublished'
    BY <1>27 DEF TypeOK, Control, Named, Rest, RollbackKept,
              VerifiedIsPublished, AllHold, UndoDisplace
  <2>6. RollbackKept'
    BY <1>27 DEF TypeOK, Control, RollbackKept, UndoDisplace
  <2> QED
    BY <2>1, <2>2, <2>3, <2>4, <2>5, <2>6 DEF IInv
<1>28. CASE Crash
  <2>1. TypeOK'
    <3>1. todo' \in SUBSET Clients
      BY <1>28 DEF Crash
    <3>2. shouldRun' \in BOOLEAN
      BY <1>28 DEF Crash
    <3> QED
      BY <1>28, <3>1, <3>2 DEF TypeOK, Labels, Causes, Crash
  <2>2. Control'
    BY <1>28 DEF TypeOK, Control, Minted, Rest, RollbackKept,
              VerifiedIsPublished, Crash
  <2>3. Minted'
    BY <1>28 DEF TypeOK, Control, Minted, Crash
  <2>4. Named'
    BY <1>28 DEF TypeOK, Control, Named, Rest, VerifiedIsPublished,
              AllHold, Crash
  <2>5. Rest' /\ VerifiedIsPublished'
    BY <1>28 DEF TypeOK, Control, Named, Rest, RollbackKept,
              VerifiedIsPublished, AllHold, Crash
  <2>6. RollbackKept'
    BY <1>28 DEF TypeOK, Control, RollbackKept, Crash
  <2> QED
    BY <2>1, <2>2, <2>3, <2>4, <2>5, <2>6 DEF IInv
<1>29. CASE OperatorStarts
  <2>1. TypeOK'
    BY <1>29 DEF TypeOK, Phases, Causes, Labels, OperatorStarts, OperatorMayAct
  <2>2. Control'
    BY <1>29 DEF TypeOK, Control, Minted, Rest, RollbackKept,
              VerifiedIsPublished, OperatorStarts, OperatorMayAct
  <2>3. Minted'
    BY <1>29 DEF TypeOK, Control, Minted, OperatorStarts, OperatorMayAct
  <2>4. Named'
    BY <1>29 DEF TypeOK, Control, Named, Rest, VerifiedIsPublished,
              AllHold, OperatorStarts, OperatorMayAct
  <2>5. Rest' /\ VerifiedIsPublished'
    BY <1>29 DEF TypeOK, Control, Named, Rest, RollbackKept,
              VerifiedIsPublished, AllHold, OperatorStarts, OperatorMayAct
  <2>6. RollbackKept'
    BY <1>29 DEF TypeOK, Control, RollbackKept, OperatorStarts, OperatorMayAct
  <2> QED
    BY <2>1, <2>2, <2>3, <2>4, <2>5, <2>6 DEF IInv
<1>30. CASE OperatorStops
  <2>1. TypeOK'
    BY <1>30 DEF TypeOK, Phases, Causes, Labels, OperatorStops, OperatorMayAct
  <2>2. Control'
    BY <1>30 DEF TypeOK, Control, Minted, Rest, RollbackKept,
              VerifiedIsPublished, OperatorStops, OperatorMayAct
  <2>3. Minted'
    BY <1>30 DEF TypeOK, Control, Minted, OperatorStops, OperatorMayAct
  <2>4. Named'
    BY <1>30 DEF TypeOK, Control, Named, Rest, VerifiedIsPublished,
              AllHold, OperatorStops, OperatorMayAct
  <2>5. Rest' /\ VerifiedIsPublished'
    BY <1>30 DEF TypeOK, Control, Named, Rest, RollbackKept,
              VerifiedIsPublished, AllHold, OperatorStops, OperatorMayAct
  <2>6. RollbackKept'
    BY <1>30 DEF TypeOK, Control, RollbackKept, OperatorStops, OperatorMayAct
  <2> QED
    BY <2>1, <2>2, <2>3, <2>4, <2>5, <2>6 DEF IInv
<1>31. ASSUME NEW c \in Clients, Enable(c) PROVE IInv'
  <2>1. TypeOK'
    BY <1>31 DEF TypeOK, Phases, Causes, Labels, Enable
  <2>2. Control'
    BY <1>31 DEF TypeOK, Control, Minted, Rest, RollbackKept,
              VerifiedIsPublished, Enable
  <2>3. Minted'
    BY <1>31 DEF TypeOK, Control, Minted, Enable
  <2>4. Named'
    BY <1>31 DEF TypeOK, Control, Named, Rest, VerifiedIsPublished,
              AllHold, Enable
  <2>5. Rest' /\ VerifiedIsPublished'
    BY <1>31 DEF TypeOK, Control, Named, Rest, RollbackKept,
              VerifiedIsPublished, AllHold, Enable
  <2>6. RollbackKept'
    BY <1>31 DEF TypeOK, Control, RollbackKept, Enable
  <2> QED
    BY <2>1, <2>2, <2>3, <2>4, <2>5, <2>6 DEF IInv
<1>32. ASSUME NEW c \in Clients, Disable(c) PROVE IInv'
  <2>1. TypeOK'
    BY <1>32 DEF TypeOK, Phases, Causes, Labels, Disable
  <2>2. Control'
    BY <1>32 DEF TypeOK, Control, Minted, Rest, RollbackKept,
              VerifiedIsPublished, Disable
  <2>3. Minted'
    BY <1>32 DEF TypeOK, Control, Minted, Disable
  <2>4. Named'
    BY <1>32 DEF TypeOK, Control, Named, Rest, VerifiedIsPublished,
              AllHold, Disable
  <2>5. Rest' /\ VerifiedIsPublished'
    BY <1>32 DEF TypeOK, Control, Named, Rest, RollbackKept,
              VerifiedIsPublished, AllHold, Disable
  <2>6. RollbackKept'
    BY <1>32 DEF TypeOK, Control, RollbackKept, Disable
  <2> QED
    BY <2>1, <2>2, <2>3, <2>4, <2>5, <2>6 DEF IInv
<1>33. CASE EnsureSecret
  <2>1. TypeOK'
    BY <1>33 DEF TypeOK, Phases, Causes, Labels, EnsureSecret
  <2>2. Control'
    BY <1>33 DEF TypeOK, Control, Minted, Rest, RollbackKept,
              VerifiedIsPublished, EnsureSecret
  <2>3. Minted'
    BY <1>33 DEF TypeOK, Control, Minted, EnsureSecret
  <2>4. Named'
    BY <1>33 DEF TypeOK, Control, Named, Rest, VerifiedIsPublished,
              AllHold, EnsureSecret
  <2>5. Rest' /\ VerifiedIsPublished'
    BY <1>33 DEF TypeOK, Control, Named, Rest, RollbackKept,
              VerifiedIsPublished, AllHold, EnsureSecret
  <2>6. RollbackKept'
    BY <1>33 DEF TypeOK, Control, RollbackKept, EnsureSecret
  <2> QED
    BY <2>1, <2>2, <2>3, <2>4, <2>5, <2>6 DEF IInv
<1>34. CASE UNCHANGED vars
  <2>1. TypeOK'
    BY <1>34 DEF TypeOK, Phases, Causes, Labels, vars
  <2>2. Control'
    BY <1>34 DEF TypeOK, Control, Minted, Rest, RollbackKept,
              VerifiedIsPublished, vars
  <2>3. Minted'
    BY <1>34 DEF TypeOK, Control, Minted, vars
  <2>4. Named'
    BY <1>34 DEF TypeOK, Control, Named, Rest, VerifiedIsPublished,
              AllHold, vars
  <2>5. Rest' /\ VerifiedIsPublished'
    BY <1>34 DEF TypeOK, Control, Named, Rest, RollbackKept,
              VerifiedIsPublished, AllHold, vars
  <2>6. RollbackKept'
    BY <1>34 DEF TypeOK, Control, RollbackKept, vars
  <2> QED
    BY <2>1, <2>2, <2>3, <2>4, <2>5, <2>6 DEF IInv
<1> QED
  BY <1>1, <1>2, <1>3, <1>4, <1>5, <1>6, <1>7, <1>8, <1>9, <1>10, <1>11, <1>12, <1>13, <1>14, <1>15, <1>16, <1>17, <1>18, <1>19, <1>20, <1>21, <1>22, <1>23, <1>24, <1>25, <1>26, <1>27, <1>28, <1>29, <1>30, <1>31, <1>32, <1>33, <1>34 DEF Next, Rotator, Environment

(* Every reachable state satisfies the inductive invariant.                *)
THEOREM Invariance == Spec => []IInv
<1>1. Init => IInv
  BY InductiveInit
<1>2. IInv /\ [Next]_vars => IInv'
  BY InductiveStep
<1> QED
  BY <1>1, <1>2, PTL DEF Spec

(* Files, journal, service and program counter stay in their types.        *)
THEOREM TypeCorrect == Spec => []TypeOK
<1>1. IInv => TypeOK
  BY DEF IInv
<1> QED
  BY <1>1, Invariance, PTL

(* With no transaction pending, the secret file, every client the journal  *)
(* covered and a running router are on one generation, whatever crashes    *)
(* and errors came before.                                                 *)
THEOREM RestIsConsistent == Spec => []OneGenerationAtRest
<1>1. IInv => OneGenerationAtRest
  BY DEF IInv, Rest, OneGenerationAtRest, AtRest
<1> QED
  BY <1>1, Invariance, PTL

(* No crash or error loses the generation the journal may have to restore, *)
(* nor the new one once it is verified.                                    *)
THEOREM RollbackNeverLost == Spec => []RollbackKept
<1>1. IInv => RollbackKept
  BY DEF IInv
<1> QED
  BY <1>1, Invariance, PTL

(* The phase "verified" is never on disk before every client the journal   *)
(* covers and a running router are on the new generation.                  *)
THEOREM VerifiedMeansPublished == Spec => []VerifiedIsPublished
<1>1. IInv => VerifiedIsPublished
  BY DEF IInv
<1> QED
  BY <1>1, Invariance, PTL
=============================================================================
