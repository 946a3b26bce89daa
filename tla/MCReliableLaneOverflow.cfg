\* One record more than the receive queue holds, and a consumer that takes its time.
SPECIFICATION FairSpec
CONSTANTS
  c1 = c1 c2 = c2
  Consumers = {c1}
  Sizes = {1}
  PacketCapacity = 1
  ByteCapacity = 1
  WireCapacity = 1
  Nobody = Nobody
  MaxPackets = 2
PROPERTY IncomingOverflowFails
