CONSTANTS
  g1 = g1  g2 = g2  v1 = v1  v2 = v2  d1 = d1  d2 = d2
  Guids = {g1, g2}
  Endpoints = {e1, e2}
  Queries <- MCQueries
  Name = "this"
  MaxSearches = 2
  MaxFrames = 4
  Answering = {v1, v2}
  Hosting = {v1}
  Destinations = {d1, d2}
  Reach <- MCReach
SPECIFICATION Spec
CHECK_DEADLOCK FALSE
  
PROPERTIES FindEnds
