CONSTANTS
  Pages = {p1, p2}
  Final = 2
  max_queue = 1
  MaxOthers = 1
  MaxFailures = 1
SPECIFICATION Spec
INVARIANTS NobodyIsBehind
PROPERTIES EventsInOrder 
CHECK_DEADLOCK FALSE
