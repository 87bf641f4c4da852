SPECIFICATION Spec
CONSTANTS
  main = main
  c1 = c1
  c2 = c2
  Main = main
  Clients = {c1, c2}
  Threads = {main, c1, c2}
  Issued <- Command
  Pollers = {}
  MaxMsg = 2
  Ops <- Watchers
  Orders = {"LED_ON"}
  Excited = {}
PROPERTY ObserversChangeNothing
