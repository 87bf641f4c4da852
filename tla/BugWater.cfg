SPECIFICATION FairSpec
CONSTANTS
  main = main
  c1 = c1
  c2 = c2
  Main = main
  Clients = {c1}
  Threads = {main, c1}
  Issued <- Command
  Pollers = {"magnetic"}
  MaxMsg = 1
  Ops <- Gardeners
  Orders = {"SOLENOID_OPEN"}
  Excited = {"solenoid"}
PROPERTY WaterStops
