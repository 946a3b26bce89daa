\* Three application threads: one that owns the mutex, one blocked on it, and one
\* that approves, authorizes or waits meanwhile.  Of the camera, two activations in
\* succession, queues that overflow, reordering and loss.
SPECIFICATION MCSpec
CONSTANTS
  Callers = {t1, t2, t3}
  SendFrames = 2
  ReceiveFrames = 2
  WireCapacity = 2
  MaxGeneration = 2
  MaxSequence = 3
INVARIANT Inv
INVARIANT StopReturnsQuiescent
INVARIANT QueueInv
INVARIANT LaneRecovers
PROPERTY NoRevival
PROPERTY RefinesContract
PROPERTY DecodableInOrder
