SPECIFICATION LifeSpec
CONSTANTS
  main = main
  c1 = c1
  Main = main
  Clients = {c1}
  Threads = {main, c1}
  Issued <- Command
  Pollers = {"magnetic"}
  MaxMsg = 1
  Ops <- ByHand
  Orders = {"DRAIN_OPEN", "SOLENOID_OPEN", "FAN_ON", "HUMIDIFIER_ON"}
  Excited = {"solenoid"}
INVARIANTS LifeTypeOK RecordMatchesHardware HwInv ShutdownTurnsOff
PROPERTIES ValveOpensOnlyByHand WaterOnlyByHand
