SPECIFICATION FairSpec
CONSTANTS
  main = main
  c1 = c1
  c2 = c2
  Main = main
  Clients = {c1}
  Threads = {main, c1}
  Issued <- Command
  Pollers = {"humitemp"}
  MaxMsg = 2
  Ops <- Toggler
  Orders = {}
  Excited = {"fan", "cooler"}
 
PROPERTIES FanFollowsClimate ClimateSettles ManualTakesOver
