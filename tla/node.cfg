SPECIFICATION NodeSpec
CONSTANTS
  NodeParts = {"relay", "timers"}
  Addrs = {"x", "y", "z"}
  RoutableAddrs = {"x", "y"}
  ValidAddrs = {"x", "y", "z"}
  Interfaces = {"x", "y"}
  Reachability <- Reach
  PeerRoutable = TRUE
  Advertisers = {"v"}
  MaxAddrToSend = 2
  KnownSize = 1
  MaxAddrsInMsg = 1
  MaxSent = 4
  NoAddr = NoAddr
  Kinds = {"no_receiving", "ping", "broadcast"}
  Again = {"ping"}
  Workers = {"w1"}
  MaxTasks = 1
  MaxVeracks = 2
INVARIANTS RelaySafe TimersSafe
PROPERTIES QueuedIsSent TimersRefineMng NodeIsReleased
CHECK_DEADLOCK FALSE
