SPECIFICATION Spec
CONSTANTS
  Task = {main, t1, t2, t3}
  Main = main
  Event = {e1}
  SetInitially = {}
  IrqEvent = {}
  MAX_TASKS = 3
  ClockWrap = 2
  Delays = {}
  MaxNesting = 2
  Calls <- TaskCalls
  NULL = NULL
SYMMETRY Symmetry
INVARIANTS TypeOK TableOK RunningIsReady WaitListOK SetEventHasNoBlockedTask
