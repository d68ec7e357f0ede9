SPECIFICATION Spec
CONSTANTS
  s1 = s1
  s2 = s2
  s3 = s3
  bash = bash
  srv = srv
  web = web
  query = query
  list = list
  fetch = fetch
  sonnet = sonnet
  gpt = gpt
  a = a
  b = b
  None = None
  Before <- InOrder
  UserBlocking <- MCBlocking
  AskUserThreshold = 1
  DefaultThreshold = 2
  Heuristic = 3
  MaxUnusedShown = 2
  LowUtilization = 20
  DayLength = 10
  Session <- MCSession
  Roots <- MCRoots
  Content <- MCContent
  Commands <- MCCommands
  SessionsLimit = 3
  BucketsLimit = 2
  O200kModel <- MCO200k
INVARIANTS OutcomeIsTold AggregateIsSound   DashboardAgrees
CHECK_DEADLOCK FALSE
