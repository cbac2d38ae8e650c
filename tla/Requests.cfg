SPECIFICATION Spec
CONSTANTS
  None = None
  Own = Own
  Projects = {p}
  Tabs = {t1, t2}
  Goals <- MCGoals
  Ttl = 2
  AccessLife = 1
  StateTtl = 0
  MaxTime = 1
  MaxEvents = 2
INVARIANTS SessionsAreEarned RightPage
PROPERTIES SessionsLast TabsSettle
CHECK_DEADLOCK FALSE
