SPECIFICATION Spec
CONSTANTS
  a = a b = b c1 = c1 c2 = c2 h1 = h1 h2 = h2 x = x y = y
  Sources = {a, b} Bystanders = {h2}
  MaxSearches = 2 MaxFrames = 4
  Queries <- MCQueries Servers <- MCServers Serves <- MCServes
SYMMETRY Interchangeable
CHECK_DEADLOCK FALSE
INVARIANTS TableAgrees AnswersListed ClaimsTrue  RulesExplained
