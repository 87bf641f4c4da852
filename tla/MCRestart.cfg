SPECIFICATION LifeFairSpec
CONSTANTS
  main = main
  c1 = c1
  Main = main
  Clients = {c1}
  Threads = {main, c1}
  Issued <- Command
  Pollers = {"humitemp"}
  MaxMsg = 1
  Ops <- Reader
  Orders = {}
  Excited = {"humidifier"}
PROPERTIES InsertsReturn ShutdownEnds ClimateAfterRestart
