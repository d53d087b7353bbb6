SPECIFICATION FairSpec
CONSTANTS
  r1 = r1
  l1 = l1
  l2 = l2
  l3 = l3
  h1 = h1
  h2 = h2
  Office = Office
  None = None
  Requests <- OneRequest
  Lessons <- ThreeLessons
  Handlers <- TwoHandlers
  PoolSize = 2
INVARIANT TypeOK
INVARIANT OneLessonEach
INVARIANT LessonIsNamed
PROPERTY BookedStays
PROPERTY EveryHandlerEnds
CHECK_DEADLOCK FALSE
