CONSTANTS
  a1 = a1
  a2 = a2
  b = b
  ip1 = ip1
  ip2 = ip2
  grp = grp
  Addrs = {a1, a2, b}
  Ips = {ip1, ip2}
  Groups = {grp}
  IpOf <- MCIpOf
  GroupOf <- MCGroupOf
  MaxRun = 1
  None = None
SPECIFICATION Spec
INVARIANT KnownAreFound
CHECK_DEADLOCK FALSE
