SPECIFICATION FairSpec
CONSTANTS
    a1 = a1  a2 = a2
    Accounts = {a1, a2}
    Settings <- Pairs
INVARIANTS TypeOK OldLoginKept AgreeAtRest PolicyFollowsProfile
PROPERTIES CredentialsKept RecoversUnlessStuck
