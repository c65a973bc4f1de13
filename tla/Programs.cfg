SPECIFICATION ProgramsFairSpec
CONSTANTS
  Programs = {"mutex", "semaphore", "threads"}
  Task = {main, t1, t2}
  Main = main
  Event = {mx, sm}
  SetInitially = {sm}
  IrqEvent = {}
  MAX_TASKS = 3
  ClockWrap = 2
  Delays = {}
  MaxNesting = 0
  Calls <- ProgramCalls
  NULL = NULL
  Mx = mx
  MaxDepth = 2
  Sm = sm
  InitialCount = 1
  MaxCount = 2
  Thread = {b0, b1, b2}
INVARIANTS EventTellsCount AssertionsHoldUnlessRaced NobodyBlockedWhileAvailable
  ThreadsOwnBlocks
PROPERTIES ReadyTaskRuns ImplementsLock WaiterGetsThrough JoinAfterEnd JoinReturns
