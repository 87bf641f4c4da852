SPECIFICATION HumFairSpec
CONSTANTS
  main = main
  client = client
  Callers = {main, client}
INVARIANTS HumTypeOK CountIsPhase HumInv
PROPERTIES IsSwitch CallsReturn
