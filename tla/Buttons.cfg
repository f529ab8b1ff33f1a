CONSTANTS
  ButtonCount = 1
  LedCount = 1
  LongTicks = 2
  QueueCap = 2
SPECIFICATION ButtonsSpec
INVARIANTS
  PressProtocol
  PanelFollows
  LedTellsPause
