CONSTANTS
  alice = alice
  bob = bob
  stream = stream
  caller = caller
  subscriber = subscriber
  None = None
  Account = {alice, bob}
  Stream = {stream}
  Caller = {caller}
  Messages <- StreamAndCall
  Subscriber = {subscriber}
  Viewer <- OfBob
  Rate = 1
  TicksPerSecond = 1
  Capacity = 1
  MaxBatch = 2
  PendingRoom = 2
  OutRoom = 1
  EventBuffer = 1
  FeedRoom = 1
  MaxTime = 1
SPECIFICATION Spec
INVARIANTS
  RepliesInOrder
  RateKeptButForWaits
  FeedHasNoSilentGap
PROPERTIES
  EveryoneIsServed
CHECK_DEADLOCK FALSE
