SPECIFICATION Spec
CONSTANTS
  Packets <- MCPackets
  Bits <- MCBits
  Width = 2
  Rate = 4
  QMax = 8
  FMax = 20
INVARIANTS
  TypeOK
  QueueAccounting
  FifoAccounting
  LinkBounded
  NotifyExact
  OneAtATime
PROPERTIES
  RateRespected
  WorkConserving
  NoArrivalInPushCycle
  ChannelSpec
