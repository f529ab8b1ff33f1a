CONSTANTS
  NActors = 6
  NDomains = 4
  DomainOf <- MCDomain
  Quantum <- MCQuantum
  CapOf <- MCCap
  Bound = {0, 2, 3, 4, 5}
  Served = {0, 1, 3}
  Feeds <- MCFeeds
  Outcomes = {"OK", "ERR"}
  TurnBudgets = {1, 2}
SPECIFICATION FairSpec
INVARIANT
  AnswersTruthful
PROPERTIES
  ActorsInTurn
  DomainsInTurn
  RunReturns
  NoStarvation
