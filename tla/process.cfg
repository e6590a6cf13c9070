SPECIFICATION ProcessSpec
CONSTANTS
  ProcessParts = {"life", "pool", "locks", "wire", "address", "tree", "encodings", "transactions", "time", "buffer"}
  MaxJobs = 2
  MaxChanges = 2
  PoolThreads = {"w1", "w2"}
  PoolTasks = {"k1", "k2", "k3"}
  NoTask = NoTask
  LockThreads = {"t1", "t2"}
  CriticalSections = {"c1", "c2", "c3"}
  MaxDepth = 3
  NoThread = NoThread
  NoLock = NoLock
  Base = 5
  HashSize = 2
  IpSize = 2
  CommandSize = 2
  MaxVardataSize = 26
  MaxBlockSize = 25
  MaxSubVersionSize = 4
  MaxRejectMessageLength = 2
  Bip31Version = 2
  RelayedTxsVersion = 3
  MsgBlock <- CommandBlock
  MsgTx <- CommandTx
  RejectCodes = {1, 4}
  Junks <- Patterns
  Lost = {1, 3, 9}
  Objects = {"version", "verack", "addr", "inv", "reject", "ping", "pong", "sendcmpct", "header", "getblocks", "tx", "block"}
  FieldValues <- Values
  Ipv4s <- SampleIpv4s
  Ips <- SampleIps
  Hashes <- SampleHashes
  Ports = {8333}
  Scopes = {2}
  PrefixLengths <- SampleLengths
  Masks <- SampleMasks
  NoNet = NoNet
  Blocks <- TreeBlocks
  Parent <- TreeParent
  BlockProof <- TreeProof
  TxNum <- TreeTxs
  NoBlock = NoBlock
  StackFrames = 2
  Radix = 8
  IntBytes = 4
  PushData1 = 2
  PushData2 = 3
  PushData4 = 4
  Op1 = 7
  SmallNumbers = 1
  OtherOpcodes = {6}
  TargetBytes = 4
  Numbers <- SampleNumbers
  Data <- SampleData
  Bits <- SampleBits
  Targets <- SampleTargets
  Txs = {"p", "q"}
  MaxPushes = 2
  MaxTxs = 6
  Slots = {"s", "t"}
  Versions = {1, 2}
  InputLists <- SampleInputs
  OutputLists <- SampleOutputs
  DefaultVersion = 2
  MaxSatoshiAmount = 3
  AmountModulus = 8
  NullHash = NullHash
  MemoryHash = MemoryHash
  Handlers = {"h1", "h2"}
  Samplers = {"a", "b", "c"}
  Offsets <- SampleOffsets
  MaxTimedataSamples = 3
  MinSamples = 3
  MaxOffset = 1
  Items = {"x", "y"}
  MaxSize = 3
  NoItem = "none"
INVARIANTS PoolSafe LocksSafe LifeSafe WireSafe AddressSafe TreeSafe ConsensusDataSafe TimeSafe BufferIsQueue
PROPERTIES PoolEnds LifeEnds
CHECK_DEADLOCK FALSE
