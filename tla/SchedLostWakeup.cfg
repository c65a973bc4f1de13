SPECIFICATION Spec
CONSTANTS
  Task = {main, t1}
  Main = main
  Event = {e1}
  SetInitially = {}
  IrqEvent = {e1}
  MAX_TASKS = 2
  ClockWrap = 2
  Delays = {}
  MaxNesting = 0
  Calls <- IrqCalls
  NULL = NULL
INVARIANTS SetEventHasNoBlockedTask
