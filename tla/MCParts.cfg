CONSTANTS
  TickWidth = 6
  CommandInterval = 2
  ConfirmWindow = 3
  PlainTopics = {"cmd/led"}
  Nonces = {n1, n2}
  Durations = {10, 20}
  TickValues = 6
  TelemetryInterval = 3
  Enabled = TRUE
  MqttBuilt = TRUE
  TurnValues = 8
  TurnBudget = 2
  DomainBudget = 3
  MailboxCap = 2
  WorkCap = 2
  MaxTurns = 4
  N = 4
SPECIFICATION MCSpec
INVARIANT WorkingIsFed
PROPERTIES
  SleepTakesTwo
  ReadingsPaced
  FeedMeansProgress
  NoSecondTurn
