SPECIFICATION FairSpec
CONSTANTS
  Forwarders = {"oauth", "api"}
  MaxRestarts = 1
  Settings <- Installed
INVARIANTS TypeOK NoneOutlives
PROPERTIES ActivationVouched TreeEnds GatewayReturns
