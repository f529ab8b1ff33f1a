CONSTANTS
  Simple = {"MCP23008"}
  Times = 2
  FallbackTicks = 2
  SettleTicks = 1
  SuperCap = 1
  AppCap = 2
SPECIFICATION BoardFairSpec
INVARIANTS
  AppIsTold
  NeverBlind
PROPERTY AllActiveAtLast
