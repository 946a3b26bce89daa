\* What the input design says of stop.
SPECIFICATION Spec
CONSTANTS
  c1 = c1 c2 = c2
  Consumers = {c1, c2}
  Sizes = {1}
  PacketCapacity = 2
  ByteCapacity = 3
  WireCapacity = 1
  Nobody = Nobody
  MaxPackets = 1
INVARIANT StopWakesReceivers
