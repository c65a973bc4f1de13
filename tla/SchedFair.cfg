SPECIFICATION FairSpec
CONSTANTS
  Task = {main, t1}
  Main = main
  Event = {e1}
  SetInitially = {}
  IrqEvent = {}
  MAX_TASKS = 2
  ClockWrap = 4
  Delays = {1}
  MaxNesting = 0
  Calls <- FairCalls
  NULL = NULL
INVARIANTS WokenTasksAreBlocked
PROPERTIES TimedWaitEnds TerminatedTaskIsDeleted TerminationWakesWaiter
