SPECIFICATION FairSpec
CONSTANTS
  main = main
  c1 = c1
  c2 = c2
  Main = main
  Clients = {c1, c2}
  Threads = {main, c1, c2}
  Issued <- Command
  Pollers = {"photo"}
  MaxMsg = 1
  Ops <- Visitors
  Orders = {"DRYER_OFF"}
  Excited = {"led"}
INVARIANT TypeOK
PROPERTY DevicesFollowClimate
