CONSTANTS
  Addrs = {a1}
  Self = {a1}
  Outs = {o1, o2}
  Ins = {i1, i2}
  MaxOutbound = 1
  MaxInbound = 1
  BanTime = 1
  MaxTime = 0
  None = None
SPECIFICATION Spec
INVARIANT SelfIsRefused
CHECK_DEADLOCK FALSE
