CONSTANTS
  s = s
  a = a
  b = b
  d = d
  k = k
  m = m
  v = v
  w = w
  NoCond = NoCond
  Absent = Absent
  DRIVER = DRIVER
  NONE = NONE
  Keys = {k, m}
  Vals = {v, w}
  Nodes <- DiamondNodes
  Edges <- DiamondEdges
  Writes <- DiamondWrites
  EmitYields = TRUE
  EmitMayFail = TRUE
SPECIFICATION FairSpec
INVARIANTS ScheduleSound RowsCurrent ResultsSafe TaskEndsSettled QuestionsHandled
PROPERTIES RunEnds ImplementsTaskGraph
