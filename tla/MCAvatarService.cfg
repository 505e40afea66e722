SPECIFICATION MCSpec
CONSTANTS
  c1 = c1
  c2 = c2
  c3 = c3
  Callers <- MCCallers
  Budgets <- MCBudgets
  Concurrency <- MCConcurrency
  Waiting <- MCWaiting
  Urls <- MCUrls
  ProviderOf <- MCProviderOf
  None = None
  MaxMishaps = 1
  MaxInFlight = 2
  Workloads <- MCWorkloads
  Orders <- MCOrders
  NoCape <- MCNoCape
  Calls <- MCCallers
  Order <- MCOrder
  Plans <- MCPlans
  MissingTtl = 1
  CapeTtl = 2
  MaxFetch = 1
INVARIANTS LookupsInOrder AnswersAreTrue SkinsFit CapesAreTrue
PROPERTIES EveryCallAnswers BudgetsAreBounded
CHECK_DEADLOCK FALSE
