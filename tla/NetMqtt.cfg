CONSTANTS
  RingCap = 2
  SlotCount = 2
  MailCap = 1
  Interval = 0
  SettleTime = 0
  Outages = FALSE
  Mqtt = TRUE
  MaxGen = 2
SPECIFICATION NetSpec
INVARIANTS
  SlotsExact
  NeverRecycled
