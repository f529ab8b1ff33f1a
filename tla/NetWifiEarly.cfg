\* The default build; the SDK takes less than the reconnect interval to report
\* a failed join or a lost link.
CONSTANTS
  RingCap = 2
  SlotCount = 1
  MailCap = 2
  Interval = 2
  SettleTime = 1
  Outages = TRUE
  Mqtt = FALSE
  MaxGen = 1
SPECIFICATION NetFairSpec
PROPERTY Recovers
