\* The data lane, whose sizes fill the byte limit first, and the input lane, which fills
\* the packet limit and whose receiver gives up when its consumers stall.
SPECIFICATION FairSpec
CONSTANTS
  c1 = c1 c2 = c2
  Consumers = {c1, c2}
  Sizes = {2}
  PacketCapacity = 2
  ByteCapacity = 3
  WireCapacity = 1
  Nobody = Nobody
  MaxPackets = 4
INVARIANT WithinLimits
INVARIANT NothingLost
PROPERTY EverythingArrives
