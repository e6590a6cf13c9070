CONSTANTS
  Addrs = {a1, a2}
  Self = {}
  Outs = {o1, o2, o3}
  Ins = {i1, i2}
  MaxOutbound = 2
  MaxInbound = 1
  BanTime = 1
  MaxTime = 2
  None = None
SPECIFICATION FairSpec
INVARIANTS WithinLimits OneOutboundEach BannedKeptOut
PROPERTIES BansLast OutboundsFill
CHECK_DEADLOCK FALSE
