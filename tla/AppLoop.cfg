CONSTANTS
  MaxIrq = 2
  MaxNet = 2
  ReservedIrq = 1
  ReservedNet = 1
  MaxTurns = 3
  MaxMessages = 2
  TurnBudget = 2
  Quantum = 2
  FanOut = 1
  MaxPend = 2
  RingCap = 1
  Fast = 1
  Slow = 2
  Wrap = 9
  MaxLag = 2
SPECIFICATION FairSpec
INVARIANTS
  PollBounded
  NeverAhead
PROPERTIES
  OkMeansDone
  IngressServed
  TicksComeWhenQuiet
