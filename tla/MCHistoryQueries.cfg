SPECIFICATION QueriesSpec
CONSTANTS
  w1 = w1
  w2 = w2
  Writers = {w1, w2}
  MaxStored = 6
  Histories <- StoredTracks
  MaxId = 8
  Times = {0, 4}
  Places = {0, 9}
  GAP = 3
  MaxSpeed = 1
  Limit = 2
  BatchSize = 3
  Budgets = {2, 4, 5}
  Absent = Absent
INVARIANTS
  PagesMatchSnapshot
  RouteKeepsEnds
CHECK_DEADLOCK FALSE
