SPECIFICATION FairSpec
CONSTANTS
  a = a
  b = b
  Nobody = Nobody
  Devices <- MCDevices
  Runners <- MCRunners
INVARIANTS
    FinishedHasNoCode
PROPERTIES
    SpentCodeStaysDead
    SetupCompletes
CHECK_DEADLOCK FALSE
