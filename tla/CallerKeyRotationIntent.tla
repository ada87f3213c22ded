---------------------- MODULE CallerKeyRotationIntent ----------------------
(***************************************************************************)
(* The operator's intent for the router service survives a rotation and    *)
(* any number of crashed recoveries, provided nobody starts or stops the   *)
(* service while a rotation is pending.                                    *)
(***************************************************************************)
EXTENDS CallerKeyRotationProofs

(* A pending journal remembers the intent, a recovery that has stopped the *)
(* router remembers it in shouldRun, and the router is only started when   *)
(* it was wanted.                                                          *)
Intent ==
    /\ Pending => /\ journal.was = wanted
                  /\ service # NoKey => wanted
    /\ ~Pending => (service # NoKey <=> wanted)
    /\ pc \in (RecoveryOnly \ {"halt"}) \cup {"refresh", "start", "verify"}
          /\ cause # "run" => shouldRun = wanted
    /\ pc \in {"start", "started", "verify"} => wanted
    /\ pc \in {"commit", "discard", "clear"} => (service # NoKey <=> wanted)

(* At installation the service is up exactly when it is wanted.            *)
LEMMA IntentInit == Init => Intent
<1> SUFFICES ASSUME Init PROVE Intent
  OBVIOUS
<1>1. pc = "idle" /\ ~Pending
  BY DEF Init, NoJournal, Pending
<1>2. service # NoKey <=> wanted
  BY DEF Init
<1> QED
  BY <1>1, <1>2 DEF Intent, RecoveryOnly

(* No step forgets the intent, as long as the operator leaves the service  *)
(* alone while a journal is pending.                                       *)
LEMMA IntentStep ==
    ASSUME ~OperatorWhilePending, IInv, Intent, [Next]_vars
    PROVE  Intent'
<1> USE DEF NoKey, NoJournal, Pending, Verified, RollbackKey, Goto, Throw,
            Faulty, Sound, files, clients, local, budgets, WriteJournal,
            ForwardOnly, RecoveryOnly, Shared, RouterDown, NewIsLive,
            PrevIsLive
<1>0. TypeOK /\ Control /\ Rest /\ RollbackKept
  BY DEF IInv
<1>1. CASE Rotate
  BY <1>0, <1>1 DEF TypeOK, Control, Rest, RollbackKept, Intent,
        Rotate
<1>2. CASE BeginRefused
  BY <1>0, <1>2 DEF TypeOK, Control, Rest, RollbackKept, Intent,
        BeginRefused
<1>3. CASE Begin
  BY <1>0, <1>3 DEF TypeOK, Control, Rest, RollbackKept, Intent,
        Begin
<1>4. CASE StopService
  BY <1>0, <1>4 DEF TypeOK, Control, Rest, RollbackKept, Intent,
        StopService
<1>5. CASE RecordStopped
  BY <1>0, <1>5 DEF TypeOK, Control, Rest, RollbackKept, Intent,
        RecordStopped
<1>6. CASE Mint
  BY <1>0, <1>6 DEF TypeOK, Control, Rest, RollbackKept, Intent,
        Mint
<1>7. CASE Retire
  BY <1>0, <1>7 DEF TypeOK, Control, Rest, RollbackKept, Intent,
        Retire
<1>8. CASE Publish
  BY <1>0, <1>8 DEF TypeOK, Control, Rest, RollbackKept, Intent,
        Publish
<1>9. CASE Unpublish
  BY <1>0, <1>9 DEF TypeOK, Control, Rest, RollbackKept, Intent,
        Unpublish
<1>10. CASE Unretire
  BY <1>0, <1>10 DEF TypeOK, Control, Rest, RollbackKept, Intent,
        Unretire
<1>11. CASE RecordSwapped
  BY <1>0, <1>11 DEF TypeOK, Control, Rest, RollbackKept, Intent,
        RecordSwapped
<1>12. ASSUME NEW c \in Clients, Refresh(c) PROVE Intent'
  BY <1>0, <1>12 DEF TypeOK, Control, Rest, RollbackKept, Intent,
        Refresh
<1>13. CASE RecordRefreshed
  BY <1>0, <1>13 DEF TypeOK, Control, Rest, RollbackKept, Intent,
        RecordRefreshed
<1>14. CASE RefreshedInRecovery
  BY <1>0, <1>14 DEF TypeOK, Control, Rest, RollbackKept, Intent,
        RefreshedInRecovery
<1>15. CASE StartService
  BY <1>0, <1>15 DEF TypeOK, Control, Rest, RollbackKept, Intent,
        StartService
<1>16. CASE RecordStarted
  BY <1>0, <1>16 DEF TypeOK, Control, Rest, RollbackKept, Intent,
        RecordStarted
<1>17. CASE Verify
  <2>1. Pending /\ UNCHANGED <<journal, service, secret, wanted, shouldRun>>
    BY <1>0, <1>17 DEF Control, Verify
  <2>2. wanted
    BY <1>17 DEF Verify, Intent
  <2>3. secret # NoKey
    BY <1>0, <1>17, <2>1 DEF TypeOK, Control, RollbackKept, Verify
  <2>4. pc' \in {"commit", "discard"} => service # NoKey
    <3>1. pc' \in {"commit", "discard"} => Accepted
      BY <1>17 DEF Verify
    <3>2. cause = "run" => journal.cur = secret
      BY <1>0, <1>17 DEF Control, Verify
    <3> QED
      BY <2>3, <3>1, <3>2 DEF Accepted
  <2>5. pc' \in {"commit", "discard", "read", "idle"}
    BY <1>17 DEF Verify
  <2> QED
    BY <2>1, <2>2, <2>4, <2>5 DEF Intent
<1>18. CASE Commit
  BY <1>0, <1>18 DEF TypeOK, Control, Rest, RollbackKept, Intent,
        Commit
<1>19. CASE Discard
  BY <1>0, <1>19 DEF TypeOK, Control, Rest, RollbackKept, Intent,
        Discard
<1>20. CASE Clear
  BY <1>0, <1>20 DEF TypeOK, Control, Rest, RollbackKept, Intent,
        Clear
<1>21. CASE ReadJournal
  BY <1>0, <1>21 DEF TypeOK, Control, Rest, RollbackKept, Intent,
        ReadJournal
<1>22. CASE HaltService
  BY <1>0, <1>22 DEF TypeOK, Control, Rest, RollbackKept, Intent,
        HaltService
<1>23. CASE Displace
  BY <1>0, <1>23 DEF TypeOK, Control, Rest, RollbackKept, Intent,
        Displace
<1>24. CASE Promote
  BY <1>0, <1>24 DEF TypeOK, Control, Rest, RollbackKept, Intent,
        Promote
<1>25. CASE UnlinkDisplaced
  BY <1>0, <1>25 DEF TypeOK, Control, Rest, RollbackKept, Intent,
        UnlinkDisplaced
<1>26. CASE UndoPromote
  BY <1>0, <1>26 DEF TypeOK, Control, Rest, RollbackKept, Intent,
        UndoPromote
<1>27. CASE UndoDisplace
  BY <1>0, <1>27 DEF TypeOK, Control, Rest, RollbackKept, Intent,
        UndoDisplace
<1>28. CASE Crash
  BY <1>0, <1>28 DEF TypeOK, Control, Rest, RollbackKept, Intent,
        Crash
<1>29. CASE OperatorStarts
  BY <1>0, <1>29 DEF TypeOK, Control, Rest, RollbackKept, Intent,
        OperatorStarts, OperatorMayAct
<1>30. CASE OperatorStops
  BY <1>0, <1>30 DEF TypeOK, Control, Rest, RollbackKept, Intent,
        OperatorStops, OperatorMayAct
<1>31. ASSUME NEW c \in Clients, Enable(c) PROVE Intent'
  BY <1>0, <1>31 DEF TypeOK, Control, Rest, RollbackKept, Intent,
        Enable
<1>32. ASSUME NEW c \in Clients, Disable(c) PROVE Intent'
  BY <1>0, <1>32 DEF TypeOK, Control, Rest, RollbackKept, Intent,
        Disable
<1>33. CASE EnsureSecret
  BY <1>0, <1>33 DEF TypeOK, Control, Rest, RollbackKept, Intent,
        EnsureSecret
<1>34. CASE UNCHANGED vars
  BY <1>0, <1>34 DEF TypeOK, Control, Rest, RollbackKept, Intent,
        vars
<1> QED
  BY <1>1, <1>2, <1>3, <1>4, <1>5, <1>6, <1>7, <1>8, <1>9, <1>10, <1>11, <1>12, <1>13, <1>14, <1>15, <1>16, <1>17, <1>18, <1>19, <1>20, <1>21, <1>22, <1>23, <1>24, <1>25, <1>26, <1>27, <1>28, <1>29, <1>30, <1>31, <1>32, <1>33, <1>34 DEF Next, Rotator, Environment

(* At rest the router runs exactly when the operator last asked for it.    *)
THEOREM IntentSurvives == ~OperatorWhilePending => (Spec => []IntentKept)
<1> SUFFICES ASSUME ~OperatorWhilePending PROVE Spec => []IntentKept
  OBVIOUS
<1>1. Init => Intent
  BY IntentInit
<1>2. IInv /\ Intent /\ [Next]_vars => Intent'
  BY IntentStep
<1>3. Intent => IntentKept
  BY DEF Intent, IntentKept, AtRest, Pending
<1> QED
  BY <1>1, <1>2, <1>3, Invariance, PTL DEF Spec
=============================================================================
