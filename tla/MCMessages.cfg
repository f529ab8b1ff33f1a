CONSTANTS
  NoMsg = NoMsg
  RingCap = 2
  MaxOps = 4
  Msg <- MCMsg
  NoEvent = NoEvent
  SlotCount = 2
  MaxGen = 2
  Actors <- MCActors
  KindOf <- MCKindOf
  CapOf <- MCCapOf
  Events <- MCEvents
  LeaseEvents = {"rsp"}
  Routes <- MCRoutes
  Enabled = {"app", "log", "view", "ghost"}
  Bound = {"app", "log", "view"}
SPECIFICATION MCSpec
INVARIANTS
  Accounting
  SharesExact
  NeverStale
PROPERTY ImplementsContract
