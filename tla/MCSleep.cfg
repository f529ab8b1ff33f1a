CONSTANTS
  NLines = 3
  RingCap = 2
  CountWrap = 2
  Profile = {"irq", "onewire", "i2c"}
  Bits = 3
  Pulses = 4
  Address = 2
  Addresses = {2, 1}
  Registers = 1
  Bytes = {0, 5}
  MaxWrite = 1
  MaxRead = 2
  MaxRaise = 25
SPECIFICATION MCSpec
INVARIANTS
  NoLostWakeup
  AsleepMeansQuiet
  HandlerLeavesNothing
  CleanSucceeds
  OkIsTrue
  LinesRestored
PROPERTIES
  CommitDiscardsNothing
  NoTornByte
