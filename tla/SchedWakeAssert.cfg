SPECIFICATION Spec
CONSTANTS
  Task = {main, t1, t2}
  Main = main
  Event = {e1}
  SetInitially = {}
  IrqEvent = {e1}
  MAX_TASKS = 3
  ClockWrap = 4
  Delays = {1}
  MaxNesting = 0
  Calls <- IrqCalls
  NULL = NULL
SYMMETRY Symmetry
INVARIANTS WokenTasksAreBlocked
