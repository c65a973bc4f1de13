---------------------------- MODULE ProgramProofs ----------------------------
(***************************************************************************)
(* Proofs about what programs build on the scheduler, for any number of     *)
(* tasks: every step of CMutex is one of the abstract lock's, and the event *)
(* of a semaphore tells whether its count is positive, with an Up() in an    *)
(* interrupt handler at any moment.  Then the threads of the Linux           *)
(* emulation, for any number of blocks of the heap: the scheduler's invariant *)
(* carries over, as every step of a program of threads is one of the         *)
(* scheduler's, and ThreadSound relates the blocks to the tasks.             *)
(***************************************************************************)
EXTENDS Mutex, Semaphore, LinuxThread, SchedulerProofs

-----------------------------------------------------------------------------
(* The mutex                                                                *)

\* A task asks for a mutex of its own only as long as it may be nested deeper.
MutexInv ==
  /\ m_iReentrancyCount \in Nat
  /\ \A t \in acquiring : m_pOwningTask = t => m_iReentrancyCount < MaxDepth
  /\ m_pOwningTask # NULL => m_iReentrancyCount # 0

\* Every step of the mutex is one of the lock's, or none of it.
LEMMA MutexSteps ==
  ASSUME MutexInv, MutexNext
  PROVE  MutexInv' /\ [L!LockNext]_(L!lockVars)
<1> USE MutexAssumption, SchedulerAssumption DEF MutexAssumption, MutexInv, mutexVars
<1>1. CASE MutexOther
  BY <1>1 DEF MutexOther, L!lockVars
<1>2. ASSUME NEW t \in Task, Acquire(t)
      PROVE  MutexInv' /\ [L!LockNext]_(L!lockVars)
  <2>1. L!Ask(t)
    BY <1>2 DEF Acquire, L!Ask
  <2>2. MutexInv'
    BY <1>2 DEF Acquire
  <2> QED
    BY <2>1, <2>2 DEF L!LockNext
<1>3. ASSUME NEW t \in Task, AcquireTakes(t)
      PROVE  MutexInv' /\ [L!LockNext]_(L!lockVars)
  <2>1. L!Take(t)
    BY <1>3 DEF AcquireTakes, InLoop, L!Take
  <2>2. MutexInv'
    BY <1>3 DEF AcquireTakes, InLoop
  <2> QED
    BY <2>1, <2>2 DEF L!LockNext
<1>4. ASSUME NEW t \in Task, AcquireWaits(t)
      PROVE  MutexInv' /\ [L!LockNext]_(L!lockVars)
  BY <1>4 DEF AcquireWaits, L!lockVars
<1>5. ASSUME NEW t \in Task, Release(t)
      PROVE  MutexInv' /\ [L!LockNext]_(L!lockVars)
  <2>1. /\ m_pOwningTask = t /\ t \notin acquiring /\ acquiring' = acquiring
        /\ m_iReentrancyCount' = m_iReentrancyCount - 1
        /\ m_pOwningTask' = IF m_iReentrancyCount = 1 THEN NULL ELSE t
    BY <1>5 DEF Release
  <2>2. L!LetGo(t)
    BY <2>1 DEF L!LetGo
  <2>3. m_iReentrancyCount \in Nat \ {0}
    BY <2>1
  <2>4. m_iReentrancyCount' \in Nat
    BY <2>1, <2>3
  <2>5. MutexInv'
    BY <2>1, <2>3, <2>4
  <2> QED
    BY <2>2, <2>5 DEF L!LockNext
<1> QED
  BY <1>1, <1>2, <1>3, <1>4, <1>5 DEF MutexNext

\* CMutex does nothing the lock does not do: one owner at most, who may nest
\* its calls and owns the mutex until the last Release() (Acquire, Release).
\* That every waiter gets it is left to the model checker.
THEOREM MutexIsLock == MutexSpec => L!LockInit /\ [][L!LockNext]_(L!lockVars)
<1>1. MutexInit => MutexInv /\ L!LockInit
  BY DEF MutexInit, MutexInv, L!LockInit
<1>2. MutexInv /\ [MutexNext]_mutexSysVars => MutexInv' /\ [L!LockNext]_(L!lockVars)
  <2>1. CASE UNCHANGED mutexSysVars
    BY <2>1 DEF MutexInv, mutexSysVars, mutexVars, L!lockVars
  <2> QED
    BY <2>1, MutexSteps
<1> QED
  BY <1>1, <1>2, PTL DEF MutexSpec

-----------------------------------------------------------------------------
(* The semaphore                                                            *)

SemTypes ==
  /\ m_nCount \in Nat
  /\ at \in [Task -> {"out", "test", "decrement", "clear", "set"}]
  /\ pc \in [Task -> {"run", "wait", "unblock", "dead"}]
  /\ m_bState \in [Waitable -> BOOLEAN]

Between == {"decrement", "clear", "set"}

\* Who is between two steps that belong together has the processor, so there is
\* one such task at most; what it has left to do is what the event lacks, and
\* an interrupt's Up() adds to the count without touching the event, or stops
\* the system.
OneBetween ==
  \A t \in Task : at[t] \in Between => cpu = "task" /\ m_pCurrent = t /\ pc[t] = "run"

EventIsBehind ==
  /\ (\A t \in Task : at[t] \notin {"clear", "set"}) => (m_bState[Sm] <=> m_nCount # 0)
  /\ \A t \in Task : /\ at[t] = "decrement" => m_nCount # 0
                     /\ at[t] = "clear" => m_nCount = 0 /\ m_bState[Sm]
                     /\ at[t] = "set" => m_nCount # 0 /\ ~m_bState[Sm]

SemInv == SemTypes /\ (panic = "none" => OneBetween /\ EventIsBehind)

\* The semaphore's event is no task's, and no interrupt handler sets it.
LEMMA SmIsEvent == Sm \in Event /\ Sm \in Waitable /\ Sm \notin Task
  BY SemaphoreAssumption, SchedulerAssumption DEF SemaphoreAssumption, SchedulerAssumption, Waitable

\* At the start the event is set and the count is positive.
LEMMA InitSem == SemInit => SemInv
<1> SUFFICES ASSUME SemInit
             PROVE  SemInv
  OBVIOUS
<1>1. /\ m_nCount \in Nat \ {0} /\ at = [t \in Task |-> "out"]
      /\ pc = [t \in Task |-> "run"]
      /\ m_bState = [w \in Waitable |-> w \in SetInitially] /\ Sm \in SetInitially
  BY SemaphoreAssumption DEF SemInit, Init
<1>2. m_bState[Sm] /\ m_nCount # 0
  BY <1>1, SmIsEvent
<1>3. SemTypes
  BY <1>1 DEF SemTypes
<1> QED
  BY <1>1, <1>2, <1>3 DEF SemInv, OneBetween, EventIsBehind, Between

\* Steps outside Down(), TryDown() and Up()
LEMMA OtherSem ==
  ASSUME SemInv, panic = "none", SemOther
  PROVE  SemInv'
<1> USE DEF table, where, events, locals, args, history
<1>0. SemTypes /\ OneBetween /\ EventIsBehind /\ m_nCount' = m_nCount /\ at' = at
  BY DEF SemInv, SemOther, semVars
<1>1. ASSUME YieldStep
      PROVE  SemInv'
  <2>1. cpu # "task" /\ UNCHANGED <<pc, m_bState>>
    BY <1>1 DEF YieldStep, ScanStart, ScanPass, ScanReady, ScanSleepOver, ScanTimeout,
                ExpireTimeout, ScanDelete, ScanNone, Scanning
  <2> QED
    BY <1>0, <2>1 DEF SemInv, SemTypes, OneBetween, EventIsBehind
<1>2. ASSUME NEW t \in Task, BlockTask(t) \/ Unblock(t)
      PROVE  SemInv'
  <2>1. /\ m_pCurrent = t /\ pc[t] # "run" /\ m_bState' = m_bState
        /\ pc' \in [Task -> {"run", "wait", "unblock", "dead"}]
    BY <1>0, <1>2 DEF BlockTask, Unblock, Running, SemTypes
  <2>2. \A u \in Task : at[u] \notin Between
    BY <1>0, <2>1 DEF OneBetween
  <2> QED
    BY <1>0, <2>1, <2>2 DEF SemInv, SemTypes, OneBetween, EventIsBehind
<1>3. ASSUME Irq
      PROVE  SemInv'
  <2>1. UNCHANGED <<pc, cpu, m_pCurrent>>
    BY <1>3 DEF Irq, Tick, IrqSet
  <2>2. m_bState' \in [Waitable -> BOOLEAN] /\ m_bState'[Sm] = m_bState[Sm]
    <3>1. CASE Tick
      BY <1>0, <3>1 DEF Tick, SemTypes
    <3>2. ASSUME NEW e \in IrqEvent, IrqSet(e)
          PROVE  m_bState' \in [Waitable -> BOOLEAN] /\ m_bState'[Sm] = m_bState[Sm]
      <4>1. e # Sm /\ m_bState' = [m_bState EXCEPT ![e] = TRUE]
        BY <3>2, SemaphoreAssumption DEF IrqSet, SetEvent
      <4> QED
        BY <1>0, <4>1, SmIsEvent DEF SemTypes
    <3> QED
      BY <1>3, <3>1, <3>2 DEF Irq
  <2> QED
    BY <1>0, <2>1, <2>2 DEF SemInv, SemTypes, OneBetween, EventIsBehind
<1>4. ASSUME NEW t \in Task, at[t] = "out", Yield(t)
      PROVE  SemInv'
  <2>1. m_pCurrent = t /\ UNCHANGED <<pc, m_bState>>
    BY <1>4 DEF Yield, Calling, Running
  <2>2. \A u \in Task : at[u] \notin Between
    BY <1>0, <1>4, <2>1 DEF OneBetween, Between
  <2> QED
    BY <1>0, <2>1, <2>2 DEF SemInv, SemTypes, OneBetween, EventIsBehind
<1>5. ASSUME NEW t \in Task, NEW s \in Task, Create(t, s, FALSE)
      PROVE  SemInv'
  <2>1. /\ UNCHANGED <<cpu, m_pCurrent>> /\ pc' = [pc EXCEPT ![s] = "run"]
        /\ m_bState' = [m_bState EXCEPT ![s] = FALSE]
    BY <1>5 DEF Create
  <2>2. /\ pc' \in [Task -> {"run", "wait", "unblock", "dead"}]
        /\ \A u \in Task : pc[u] = "run" => pc'[u] = "run"
    BY <1>0, <2>1 DEF SemTypes
  <2>3. m_bState' \in [Waitable -> BOOLEAN] /\ m_bState'[Sm] = m_bState[Sm]
    BY <1>0, <2>1, SmIsEvent DEF SemTypes
  <2> QED
    BY <1>0, <2>1, <2>2, <2>3 DEF SemInv, SemTypes, OneBetween, EventIsBehind
<1> QED
  BY <1>1, <1>2, <1>3, <1>4, <1>5 DEF SemOther, WaitStep, Halted

\* The steps of the semaphore
LEMMA StepSem ==
  ASSUME SemInv, panic = "none", NEW t \in Task,
         Down(t) \/ TryDown(t) \/ Up(t) \/ SemStep(t)
  PROVE  SemInv'
<1> USE DEF table, where, events, locals, args, history
<1>0. SemTypes /\ OneBetween /\ EventIsBehind
  BY DEF SemInv
<1>c. /\ cpu = "task" /\ m_pCurrent = t /\ pc[t] = "run"
      /\ \A u \in Task \ {t} : at[u] \notin Between
  <2>1. cpu = "task" /\ m_pCurrent = t /\ pc[t] = "run"
    BY DEF Down, TryDown, Up, SemStep, DownPasses, DownWaits, Decrement, ClearEvent,
           UpSignals, Inside, Running
  <2> QED
    BY <1>0, <2>1 DEF OneBetween
<1>g. ASSUME NEW place \in {"out", "test", "decrement", "clear", "set"}, Go(t, place)
      PROVE  /\ at' \in [Task -> {"out", "test", "decrement", "clear", "set"}]
             /\ at'[t] = place /\ \A u \in Task \ {t} : at'[u] = at[u]
  BY <1>0, <1>g DEF Go, SemTypes
<1>1. CASE Down(t) \/ DownPasses(t) \/ TryDown(t)
  <2>1. /\ UNCHANGED <<m_nCount, cpu, m_pCurrent, pc, m_bState, panic>>
        /\ at[t] \in {"out", "test"}
        /\ Go(t, "test") \/ (Go(t, "decrement") /\ m_nCount # 0)
    BY <1>1 DEF Down, DownPasses, TryDown, Inside, vars
  <2>2. /\ at' \in [Task -> {"out", "test", "decrement", "clear", "set"}]
        /\ at'[t] = "test" \/ (at'[t] = "decrement" /\ m_nCount # 0)
        /\ \A u \in Task \ {t} : at'[u] = at[u]
    BY <2>1, <1>g
  <2>3. \A u \in Task : at[u] \notin Between /\ at'[u] \notin {"clear", "set"}
    BY <1>c, <2>1, <2>2 DEF Between
  <2> QED
    BY <1>0, <1>c, <2>1, <2>2, <2>3 DEF SemInv, SemTypes, OneBetween, EventIsBehind, Between
<1>2. CASE DownWaits(t)
  <2>1. /\ UNCHANGED <<m_nCount, at, cpu, m_pCurrent, m_bState, panic>>
        /\ at[t] = "test" /\ pc' = [pc EXCEPT ![t] = "wait"]
    BY <1>2 DEF DownWaits, Inside, BeginWait, semVars
  <2>2. pc' \in [Task -> {"run", "wait", "unblock", "dead"}]
    BY <1>0, <2>1 DEF SemTypes
  <2>3. \A u \in Task : at[u] \notin Between
    BY <1>c, <2>1 DEF Between
  <2> QED
    BY <1>0, <2>1, <2>2, <2>3 DEF SemInv, SemTypes, OneBetween, EventIsBehind
<1>3. CASE Decrement(t)
  <2>1. /\ UNCHANGED <<cpu, m_pCurrent, pc, m_bState, panic>> /\ at[t] = "decrement"
        /\ m_nCount' = m_nCount - 1
        /\ Go(t, IF m_nCount = 1 THEN "clear" ELSE "out")
    BY <1>3 DEF Decrement, Inside, vars
  <2>2. /\ at' \in [Task -> {"out", "test", "decrement", "clear", "set"}]
        /\ at'[t] = IF m_nCount = 1 THEN "clear" ELSE "out"
        /\ \A u \in Task \ {t} : at'[u] = at[u]
    BY <2>1, <1>g
  <2>3. m_nCount \in Nat \ {0} /\ m_bState[Sm]
    BY <1>0, <1>c, <2>1 DEF EventIsBehind, SemTypes, Between
  <2>4. m_nCount' \in Nat /\ (m_nCount' = 0 <=> m_nCount = 1)
    BY <2>1, <2>3
  <2>5. SemTypes' /\ OneBetween'
    BY <1>0, <1>c, <2>1, <2>2, <2>4 DEF SemTypes, OneBetween, Between
  <2>6. EventIsBehind'
    BY <1>c, <2>1, <2>2, <2>3, <2>4 DEF EventIsBehind, Between
  <2> QED
    BY <2>5, <2>6 DEF SemInv
<1>4. CASE ClearEvent(t)
  <2>1. at[t] = "clear" /\ Go(t, "out") /\ UNCHANGED <<m_nCount, cpu, m_pCurrent, pc>>
    BY <1>4 DEF ClearEvent, Inside
  <2>2. m_nCount = 0 /\ m_bState[Sm]
    BY <1>0, <2>1 DEF EventIsBehind
  <2>3. m_bState' = [m_bState EXCEPT ![Sm] = FALSE]
    BY <1>4, <2>2 DEF ClearEvent
  <2>4. m_bState' \in [Waitable -> BOOLEAN] /\ ~m_bState'[Sm]
    BY <1>0, <2>3, SmIsEvent DEF SemTypes
  <2>5. /\ at' \in [Task -> {"out", "test", "decrement", "clear", "set"}]
        /\ at'[t] = "out" /\ \A u \in Task \ {t} : at'[u] = at[u]
    BY <2>1, <1>g
  <2> QED
    BY <1>0, <1>c, <2>1, <2>2, <2>4, <2>5
       DEF SemInv, SemTypes, OneBetween, EventIsBehind, Between
<1>5. CASE Up(t)
  <2>1. /\ UNCHANGED <<cpu, m_pCurrent, pc, m_bState, panic>> /\ at[t] = "out"
        /\ m_nCount' = m_nCount + 1
        /\ Go(t, IF m_nCount = 0 THEN "set" ELSE "out")
    BY <1>5 DEF Up, Inside, vars
  <2>2. /\ at' \in [Task -> {"out", "test", "decrement", "clear", "set"}]
        /\ at'[t] = IF m_nCount = 0 THEN "set" ELSE "out"
        /\ \A u \in Task \ {t} : at'[u] = at[u]
    BY <2>1, <1>g
  <2>3. m_nCount' \in Nat /\ m_nCount' # 0
    BY <1>0, <2>1 DEF SemTypes
  <2>4. m_bState[Sm] <=> m_nCount # 0
    BY <1>0, <1>c, <2>1 DEF EventIsBehind, Between
  <2>5. SemTypes' /\ OneBetween'
    BY <1>0, <1>c, <2>1, <2>2, <2>3 DEF SemTypes, OneBetween, Between
  <2>6. EventIsBehind'
    BY <1>c, <2>1, <2>2, <2>3, <2>4 DEF EventIsBehind, Between
  <2> QED
    BY <2>5, <2>6 DEF SemInv
<1>6. CASE UpSignals(t)
  <2>1. /\ at[t] = "set" /\ Go(t, "out") /\ UNCHANGED <<m_nCount, cpu, m_pCurrent, pc>>
    BY <1>6 DEF UpSignals, SignalUp, Inside
  <2>2. m_nCount # 0 /\ ~m_bState[Sm]
    BY <1>0, <2>1 DEF EventIsBehind
  <2>3. m_bState' = [m_bState EXCEPT ![Sm] = TRUE]
    BY <1>6, <2>2 DEF UpSignals, SignalUp, SetEvent
  <2>4. m_bState' \in [Waitable -> BOOLEAN] /\ m_bState'[Sm]
    BY <1>0, <2>3, SmIsEvent DEF SemTypes
  <2>5. /\ at' \in [Task -> {"out", "test", "decrement", "clear", "set"}]
        /\ at'[t] = "out" /\ \A u \in Task \ {t} : at'[u] = at[u]
    BY <2>1, <1>g
  <2> QED
    BY <1>0, <1>c, <2>1, <2>2, <2>4, <2>5
       DEF SemInv, SemTypes, OneBetween, EventIsBehind, Between
<1> QED
  BY <1>1, <1>2, <1>3, <1>4, <1>5, <1>6 DEF SemStep

\* Up() in an interrupt handler, whoever it hits
LEMMA IrqSem ==
  ASSUME SemInv, IrqUp
  PROVE  SemInv'
<1> USE DEF table, where, events, locals, args, history
<1>0. SemTypes /\ OneBetween /\ EventIsBehind
  BY DEF SemInv, IrqUp
<1>1. /\ m_nCount' = m_nCount + 1 /\ UNCHANGED <<at, pc, cpu, m_pCurrent>>
      /\ m_nCount \in Nat /\ m_nCount' \in Nat /\ m_nCount' # 0
  <2>1. m_nCount' = m_nCount + 1 /\ UNCHANGED <<at, pc, cpu, m_pCurrent>>
    BY DEF IrqUp, SignalUp, vars
  <2> QED
    BY <1>0, <2>1 DEF SemTypes
<1>2. CASE m_nCount # 0
  <2>1. m_bState' = m_bState
    BY <1>2 DEF IrqUp, vars
  <2> QED
    BY <1>0, <1>1, <1>2, <2>1 DEF SemInv, SemTypes, OneBetween, EventIsBehind
<1>3. CASE m_nCount = 0 /\ m_bState[Sm]
  <2>1. panic' # "none" /\ m_bState' = m_bState
    BY <1>3 DEF IrqUp, SignalUp
  <2> QED
    BY <1>0, <1>1, <2>1 DEF SemInv, SemTypes
<1>4. CASE m_nCount = 0 /\ ~m_bState[Sm]
  <2>1. m_bState' = [m_bState EXCEPT ![Sm] = TRUE]
    BY <1>4 DEF IrqUp, SignalUp, SetEvent
  <2>2. m_bState' \in [Waitable -> BOOLEAN] /\ m_bState'[Sm]
    BY <1>0, <2>1, SmIsEvent DEF SemTypes
  <2>3. \A u \in Task : at[u] \notin {"clear", "set"}
    BY <1>0, <1>4 DEF EventIsBehind
  <2> QED
    BY <1>0, <1>1, <2>2, <2>3 DEF SemInv, SemTypes, OneBetween, EventIsBehind
<1> QED
  BY <1>2, <1>3, <1>4

\* All steps together
LEMMA NextSem ==
  ASSUME SemInv, [SemNext]_semSysVars
  PROVE  SemInv'
<1>1. CASE UNCHANGED semSysVars
  BY <1>1 DEF SemInv, SemTypes, OneBetween, EventIsBehind, semSysVars, semVars, vars,
              where, events
<1>2. CASE SemOther /\ panic # "none"
  <2>1. UNCHANGED vars /\ UNCHANGED semVars
    BY <1>2 DEF SemOther, YieldStep, ScanStart, ScanPass, ScanReady, ScanSleepOver,
                ScanTimeout, ExpireTimeout, ScanDelete, ScanNone, Scanning, WaitStep,
                BlockTask, Unblock, Irq, Tick, IrqSet, Halted, Yield, Create, Calling,
                Running
  <2> QED
    BY <2>1 DEF SemInv, SemTypes, OneBetween, EventIsBehind, semVars, vars, where, events
<1>3. CASE SemOther /\ panic = "none"
  BY <1>3, OtherSem
<1>4. CASE IrqUp
  BY <1>4, IrqSem
<1>5. ASSUME NEW t \in Task, Down(t) \/ TryDown(t) \/ Up(t) \/ SemStep(t)
      PROVE  SemInv'
  <2>1. panic = "none"
    BY <1>5 DEF Down, TryDown, Up, SemStep, DownPasses, DownWaits, Decrement,
                ClearEvent, UpSignals, Inside, Running
  <2> QED
    BY <1>5, <2>1, StepSem
<1> QED
  BY <1>1, <1>2, <1>3, <1>4, <1>5 DEF SemNext

\* Nobody takes what is not there, and between the steps of Down() and Up() the
\* event is set exactly while the count is positive, whatever interrupt
\* handlers do (Down, TryDown, Up).
THEOREM EventAlwaysTells == SemSpec => []EventTellsCount
<1>1. SemInit => SemInv
  BY InitSem
<1>2. SemInv /\ [SemNext]_semSysVars => SemInv'
  BY NextSem
<1>3. SemInv => EventTellsCount
  <2>1. \A n \in Nat : n >= 0 /\ (n > 0 <=> n # 0)
    OBVIOUS
  <2> QED
    BY <2>1 DEF SemInv, SemTypes, EventIsBehind, EventTellsCount
<1> QED
  BY <1>1, <1>2, <1>3, PTL DEF SemSpec


\* The assertions fail only in an Up() that hits a Down() between its two steps.
LEMMA AssertionSteps ==
  ASSUME SemInv, AssertionsHoldUnlessRaced, [SemNext]_semSysVars
  PROVE  AssertionsHoldUnlessRaced'
<1> USE DEF table, where, events, locals, args, history
<1> DEFINE Fine == panic' \in {panic, "Tried to wake non-blocked task",
                               "System limit of tasks exceeded"}
           Later == raced => raced'
<1>w. ASSUME NEW w, SetEvent(w, m_State)
      PROVE  Fine
  BY <1>w DEF SetEvent, WakeTasks
<1>s. ASSUME SignalUp, ~m_bState[Sm]
      PROVE  Fine
  BY <1>s, <1>w DEF SignalUp
<1>1. CASE SemOther
  <2>1. raced' = raced
    BY <1>1 DEF SemOther, semVars
  <2>2. Fine
    <3>1. CASE YieldStep \/ WaitStep \/ Halted \/ Tick \/ \E t \in Task : Yield(t)
      BY <3>1 DEF YieldStep, ScanStart, ScanPass, ScanReady, ScanSleepOver, ScanTimeout,
                  ExpireTimeout, ScanDelete, ScanNone, WaitStep, BlockTask, Unblock, Halted,
                  Tick, Yield, vars
    <3>2. CASE \E e \in IrqEvent : IrqSet(e)
      BY <3>2, <1>w DEF IrqSet
    <3>3. CASE \E t \in Task, s \in Task : Create(t, s, FALSE)
      BY <3>3 DEF Create, AddTask
    <3> QED
      BY <1>1, <3>1, <3>2, <3>3 DEF SemOther, Irq
  <2> QED
    BY <2>1, <2>2 DEF AssertionsHoldUnlessRaced, SemaphoreAssertionsHold
<1>2. CASE IrqUp
  <2>1. Later
    BY <1>2 DEF IrqUp
  <2>2. CASE m_nCount = 0 /\ m_bState[Sm]
    <3>1. SemTypes /\ EventIsBehind
      BY <1>2 DEF SemInv, IrqUp
    <3>2. \E t \in Task : at[t] = "clear"
      BY <2>2, <3>1 DEF EventIsBehind
    <3>3. raced'
      BY <1>2, <3>2 DEF IrqUp
    <3> QED
      BY <3>3 DEF AssertionsHoldUnlessRaced
  <2>3. CASE m_nCount # 0 \/ ~m_bState[Sm]
    <3>1. Fine
      BY <1>2, <2>3, <1>s DEF IrqUp, vars
    <3> QED
      BY <2>1, <3>1 DEF AssertionsHoldUnlessRaced, SemaphoreAssertionsHold
  <2> QED
    BY <2>2, <2>3
<1>3. ASSUME NEW t \in Task, Down(t) \/ TryDown(t) \/ Up(t) \/ SemStep(t)
      PROVE  AssertionsHoldUnlessRaced'
  <2>0. SemTypes /\ EventIsBehind
    BY <1>3 DEF Down, TryDown, Up, SemStep, DownPasses, DownWaits, Decrement, ClearEvent,
                UpSignals, Inside, Running, SemInv
  <2>1. raced' = raced
    BY <1>3 DEF Down, TryDown, Up, SemStep, DownPasses, DownWaits, Decrement, ClearEvent,
                UpSignals, Go, semVars
  <2>2. CASE \/ Down(t) \/ TryDown(t) \/ Up(t) \/ DownPasses(t) \/ DownWaits(t)
             \/ Decrement(t)
    BY <2>1, <2>2 DEF Down, TryDown, Up, DownPasses, DownWaits, Decrement, vars,
                      AssertionsHoldUnlessRaced, SemaphoreAssertionsHold
  <2>3. CASE ClearEvent(t)
    <3>1. m_bState[Sm]
      BY <2>0, <2>3 DEF ClearEvent, Inside, EventIsBehind
    <3>2. panic' = panic
      BY <2>3, <3>1 DEF ClearEvent
    <3> QED
      BY <2>1, <3>2 DEF AssertionsHoldUnlessRaced, SemaphoreAssertionsHold
  <2>4. CASE UpSignals(t)
    <3>1. ~m_bState[Sm]
      BY <2>0, <2>4 DEF UpSignals, Inside, EventIsBehind
    <3>2. Fine
      BY <2>4, <3>1, <1>s DEF UpSignals
    <3> QED
      BY <2>1, <3>2 DEF AssertionsHoldUnlessRaced, SemaphoreAssertionsHold
  <2> QED
    BY <1>3, <2>2, <2>3, <2>4 DEF SemStep
<1>4. CASE UNCHANGED semSysVars
  BY <1>4 DEF semSysVars, semVars, vars, AssertionsHoldUnlessRaced, SemaphoreAssertionsHold
<1> QED
  BY <1>1, <1>2, <1>3, <1>4 DEF SemNext

\* The assertions about the event in Down() and Up() hold, but for an Up() in an
\* interrupt handler in one of the two places named at IrqUp (Down, Up).
THEOREM AssertionsHold == SemSpec => []AssertionsHoldUnlessRaced
<1>1. SemInit => SemInv /\ AssertionsHoldUnlessRaced
  BY InitSem DEF SemInit, Init, AssertionsHoldUnlessRaced, SemaphoreAssertionsHold
<1>2. SemInv /\ AssertionsHoldUnlessRaced /\ [SemNext]_semSysVars
        => (SemInv /\ AssertionsHoldUnlessRaced)'
  BY NextSem, AssertionSteps
<1> QED
  BY <1>1, <1>2, PTL DEF SemSpec


\* Down() puts a task on the semaphore's list only: nobody waits for another
\* event, no wait has a time limit, and whoever is on the list is blocked.  A
\* task between the test of the event and BlockTask() has the processor, and
\* without an interrupt's Up() the event is still clear; so nobody is on the
\* list of a set event.
WaitersKept ==
  /\ m_pTask \in [0 .. MAX_TASKS - 1 -> Task \cup {NULL}]
  /\ m_nTasks \in 1 .. MAX_TASKS /\ nTask \in 0 .. MAX_TASKS - 1
  /\ m_nCurrent \in 0 .. MAX_TASKS
  /\ m_State \in [Task -> {"Unknown", "Ready", "Blocked"}]
  /\ m_WaitList \in [Waitable -> SUBSET Task]
  /\ waitEvent \in [Task -> Waitable \cup {NULL}]
  /\ waitTicks \in [Task -> Delays \cup {0}]
  /\ m_iSuspendNewTasks = 0 /\ cpu # "expire"

WaitsForSm ==
  /\ \A t \in Task : pc[t] \in {"wait", "unblock"} => waitEvent[t] = Sm /\ waitTicks[t] = 0
  /\ \A t \in Task : pc[t] = "wait" => /\ cpu = "task" /\ m_pCurrent = t
                                       /\ m_bState[Sm] => raced

OnList ==
  /\ \A w \in Waitable \ {Sm} : m_WaitList[w] = {}
  /\ \A t \in m_WaitList[Sm] : m_State[t] = "Blocked"
  /\ m_bState[Sm] /\ ~raced => m_WaitList[Sm] = {}

WaitersInv == WaitersKept /\ WaitsForSm /\ OnList

LEMMA InitWaiters == SemInit => WaitersInv
<1> SUFFICES ASSUME SemInit
             PROVE  WaitersInv
  OBVIOUS
<1>1. Init /\ MAX_TASKS \in Nat \ {0} /\ Main \in Task
  BY SchedulerAssumption DEF SemInit, SchedulerAssumption
<1>2. WaitersKept
  BY <1>1 DEF Init, WaitersKept
<1>3. WaitsForSm /\ OnList
  BY <1>1, SmIsEvent DEF Init, WaitsForSm, OnList
<1> QED
  BY <1>2, <1>3 DEF WaitersInv

\* The slot a scan looks at next is one of the table.
LEMMA NextSlotInTable ==
  ASSUME WaitersKept
  PROVE  NextSlot \in 0 .. MAX_TASKS - 1 /\ m_pTask[NextSlot] \in Task \cup {NULL}
<1>1. m_nTasks \in 1 .. MAX_TASKS /\ nTask \in 0 .. MAX_TASKS - 1 /\ MAX_TASKS \in Nat
  BY SchedulerAssumption DEF WaitersKept, SchedulerAssumption
<1>2. NextSlot \in 0 .. MAX_TASKS - 1
  BY <1>1 DEF NextSlot
<1> QED
  BY <1>2 DEF WaitersKept

\* The scan finds only tasks that are ready, as nobody sleeps, waits with a
\* time limit or terminates.
LEMMA YieldWaiters ==
  ASSUME WaitersInv, YieldStep, raced' = raced
  PROVE  WaitersInv' /\ UNCHANGED <<pc, m_State, panic, events>>
<1> USE DEF table, where, events, locals, args, history
<1>0. WaitersKept /\ WaitsForSm /\ OnList /\ MAX_TASKS \in Nat \ {0}
  BY SchedulerAssumption DEF WaitersInv, SchedulerAssumption
<1>1. ScanStart \/ ScanPass \/ ScanReady \/ ScanNone
  <2>1. \A p \in Task \cup {NULL} :
          ~PassesOver(p) => m_State[p] \notin {"Sleeping", "BlockedWithTimeout", "Terminated"}
    BY <1>0 DEF PassesOver, WaitersKept
  <2>2. ~ScanSleepOver /\ ~ScanTimeout /\ ~ScanDelete
    BY <1>0, <2>1, NextSlotInTable DEF ScanSleepOver, ScanTimeout, ScanDelete
  <2>3. ~ExpireTimeout
    BY <1>0 DEF WaitersKept, ExpireTimeout
  <2> QED
    BY <2>2, <2>3 DEF YieldStep
<1>2. /\ cpu # "task" /\ UNCHANGED <<pc, m_State, m_bState, m_WaitList, args, m_pTask, m_nTasks, panic>>
      /\ cpu' # "expire"
  BY <1>1 DEF ScanStart, ScanPass, ScanReady, ScanNone, Scanning, SwitchTo
<1>s. m_iSuspendNewTasks' = m_iSuspendNewTasks
  BY <1>1 DEF ScanStart, ScanPass, ScanReady, ScanNone
<1>n. m_nCurrent' \in 0 .. MAX_TASKS
  BY <1>0, <1>1, NextSlotInTable
     DEF WaitersKept, ScanStart, ScanPass, ScanReady, ScanNone, SwitchTo
<1>3. nTask' \in 0 .. MAX_TASKS - 1
  <2>1. \A x : x \in 0 .. MAX_TASKS - 1 <=> x \in Nat /\ x < MAX_TASKS
    BY <1>0
  <2>2. CASE ScanStart
    <3>1. \/ nTask' = 0
          \/ nTask' = m_nCurrent /\ m_nCurrent < MAX_TASKS
      BY <2>2 DEF ScanStart
    <3> QED
      BY <1>0, <3>1, <2>1 DEF WaitersKept
  <2>3. CASE ScanPass
    BY <1>0, <2>3, NextSlotInTable DEF ScanPass
  <2>4. CASE ScanReady \/ ScanNone
    BY <1>0, <2>4 DEF ScanReady, ScanNone, SwitchTo, LeaveScan
  <2> QED
    BY <1>1, <2>2, <2>3, <2>4
<1>4. WaitersKept'
  BY <1>0, <1>2, <1>s, <1>n, <1>3 DEF WaitersKept
<1>5. WaitsForSm' /\ OnList'
  BY <1>0, <1>2 DEF WaitsForSm, OnList
<1> QED
  BY <1>2, <1>4, <1>5 DEF WaitersInv

\* The other steps outside Down(), TryDown() and Up()
LEMMA OtherWaiters ==
  ASSUME SemTypes, WaitersInv, SemOther
  PROVE  WaitersInv' /\ (panic' = panic \/ m_WaitList'[Sm] = m_WaitList[Sm])
<1> USE DEF table, where, events, locals, args, history
<1>0. /\ WaitersKept /\ WaitsForSm /\ OnList /\ raced' = raced
      /\ NULL \notin Task /\ MAX_TASKS \in Nat \ {0}
  BY SchedulerAssumption DEF WaitersInv, SchedulerAssumption, SemOther, semVars
<1>1. CASE YieldStep
  BY <1>0, <1>1, YieldWaiters
<1>2. ASSUME NEW t \in Task, BlockTask(t)
      PROVE  WaitersInv' /\ panic' = panic
  <2>1. waitEvent[t] = Sm /\ waitTicks[t] = 0 /\ (m_bState[Sm] => raced)
    BY <1>0, <1>2 DEF BlockTask, WaitsForSm
  <2>2. /\ m_WaitList' = [m_WaitList EXCEPT ![Sm] = @ \cup {t}]
        /\ m_State' = [m_State EXCEPT ![t] = "Blocked"]
        /\ pc' = [pc EXCEPT ![t] = "unblock"]
        /\ cpu' = "yield" /\ m_pCurrent = t
        /\ UNCHANGED <<table, where, m_bState, locals, args, panic>>
    BY <1>2, <2>1 DEF BlockTask, Running
  <2>3. WaitersKept'
    BY <1>0, <2>2 DEF WaitersKept
  <2>4. \A u \in Task \ {t} : pc'[u] = pc[u] /\ pc[u] # "wait"
    BY <1>0, <2>2 DEF WaitsForSm
  <2>5. pc'[t] # "wait"
    BY <2>2 DEF SemTypes
  <2>6. WaitsForSm'
    BY <1>0, <2>1, <2>2, <2>4, <2>5 DEF WaitsForSm
  <2>7. OnList'
    <3>1. m_WaitList'[Sm] = m_WaitList[Sm] \cup {t}
      BY <1>0, <2>2, SmIsEvent DEF WaitersKept
    <3>2. \A w \in Waitable \ {Sm} : m_WaitList'[w] = m_WaitList[w]
      BY <1>0, <2>2 DEF WaitersKept
    <3>3. \A u \in Task : m_State'[u] = IF u = t THEN "Blocked" ELSE m_State[u]
      BY <1>0, <2>2 DEF WaitersKept
    <3>4. m_WaitList[Sm] \subseteq Task
      BY <1>0, SmIsEvent DEF WaitersKept
    <3> QED
      BY <1>0, <2>1, <2>2, <3>1, <3>2, <3>3, <3>4 DEF OnList
  <2> QED
    BY <2>2, <2>3, <2>6, <2>7 DEF WaitersInv
<1>3. ASSUME NEW t \in Task, Unblock(t)
      PROVE  WaitersInv' /\ panic' = panic
  <2>1. waitEvent[t] = Sm
    BY <1>0, <1>3 DEF Unblock, WaitsForSm
  <2>2. /\ m_WaitList' = [m_WaitList EXCEPT ![Sm] = @ \ {t}]
        /\ pc' = [pc EXCEPT ![t] = "run"]
        /\ waitEvent' = [waitEvent EXCEPT ![t] = NULL]
        /\ waitTicks' = [waitTicks EXCEPT ![t] = 0]
        /\ UNCHANGED <<table, where, m_State, m_bState, cpu, locals, panic>>
    BY <1>3, <2>1 DEF Unblock
  <2>3. WaitersKept'
    BY <1>0, <2>2 DEF WaitersKept
  <2>4. WaitsForSm'
    <3>1. \A u \in Task \ {t} : /\ pc'[u] = pc[u]
                                /\ waitEvent'[u] = waitEvent[u] /\ waitTicks'[u] = waitTicks[u]
      BY <1>0, <2>2 DEF WaitersKept
    <3>2. pc'[t] \notin {"wait", "unblock"}
      BY <2>2 DEF SemTypes
    <3> QED
      BY <1>0, <2>2, <3>1, <3>2 DEF WaitsForSm
  <2>5. OnList'
    <3>1. m_WaitList'[Sm] = m_WaitList[Sm] \ {t}
      BY <1>0, <2>2, SmIsEvent DEF WaitersKept
    <3>2. \A w \in Waitable \ {Sm} : m_WaitList'[w] = m_WaitList[w]
      BY <1>0, <2>2 DEF WaitersKept
    <3> QED
      BY <1>0, <2>2, <3>1, <3>2 DEF OnList
  <2> QED
    BY <2>2, <2>3, <2>4, <2>5 DEF WaitersInv
<1>4. CASE Tick \/ Halted \/ \E t \in Task : Yield(t)
  <2>1. /\ UNCHANGED <<table, m_nCurrent, m_pCurrent, nTask, m_State, m_WaitList,
                       args, pc, m_bState, panic>>
        /\ cpu' # "expire"
        /\ cpu' = cpu \/ (cpu' = "yield" /\ pc[m_pCurrent] = "run")
    BY <1>0, <1>4 DEF Tick, Halted, Yield, Calling, Running, vars, WaitersKept
  <2>2. WaitersKept' /\ OnList'
    BY <1>0, <2>1 DEF WaitersKept, OnList
  <2>3. WaitsForSm'
    BY <1>0, <2>1 DEF WaitsForSm
  <2> QED
    BY <2>1, <2>2, <2>3 DEF WaitersInv
<1>5. ASSUME NEW e \in IrqEvent, IrqSet(e)
      PROVE  WaitersInv' /\ panic' = panic
  <2>1. e \in Waitable /\ e # Sm
    BY SemaphoreAssumption, SchedulerAssumption
       DEF SemaphoreAssumption, SchedulerAssumption, Waitable
  <2>2. m_WaitList[e] = {}
    BY <1>0, <2>1 DEF OnList
  <2>3. /\ m_bState' = [m_bState EXCEPT ![e] = TRUE]
        /\ m_WaitList' = [m_WaitList EXCEPT ![e] = {}]
        /\ m_State' = [t \in Task |-> m_State[t]]
        /\ UNCHANGED <<table, where, cpu, pc, locals, args, panic>>
    BY <1>5, <2>2 DEF IrqSet, SetEvent, WakeTasks
  <2>4. m_WaitList' = m_WaitList /\ m_State' = m_State /\ m_bState'[Sm] = m_bState[Sm]
    <3>1. m_State' = m_State
      BY <1>0, <2>3 DEF WaitersKept
    <3>2. m_WaitList' = m_WaitList
      BY <1>0, <2>2, <2>3 DEF WaitersKept
    <3>3. m_bState'[Sm] = m_bState[Sm]
      BY <2>1, <2>3, SmIsEvent DEF SemTypes
    <3> QED
      BY <3>1, <3>2, <3>3
  <2>5. WaitersKept'
    BY <1>0, <2>3, <2>4 DEF WaitersKept
  <2>6. WaitsForSm'
    BY <1>0, <2>3, <2>4 DEF WaitsForSm
  <2>7. OnList'
    BY <1>0, <2>3, <2>4 DEF OnList
  <2> QED
    BY <2>3, <2>5, <2>6, <2>7 DEF WaitersInv
<1>6. ASSUME NEW t \in Task, NEW s \in Task, Create(t, s, FALSE)
      PROVE  WaitersInv' /\ m_WaitList'[Sm] = m_WaitList[Sm]
  <2>1. /\ m_State[s] = "Unknown"
        /\ m_State' = [m_State EXCEPT ![s] = "Ready"]
        /\ m_bState' = [m_bState EXCEPT ![s] = FALSE]
        /\ m_WaitList' = [m_WaitList EXCEPT ![s] = {}]
        /\ pc' = [pc EXCEPT ![s] = "run"]
        /\ UNCHANGED <<m_iSuspendNewTasks, where, cpu, locals, args>>
    BY <1>0, <1>6 DEF Create, WaitersKept
  <2>2. /\ m_pTask' \in [0 .. MAX_TASKS - 1 -> Task \cup {NULL}]
        /\ m_nTasks' \in 1 .. MAX_TASKS
    <3>1. /\ m_pTask' = m_pTask \/ \E i : m_pTask' = [m_pTask EXCEPT ![i] = s]
          /\ \/ m_nTasks' = m_nTasks
             \/ m_nTasks < MAX_TASKS /\ m_nTasks' = m_nTasks + 1
      BY <1>6 DEF Create, AddTask
    <3>2. m_pTask' \in [0 .. MAX_TASKS - 1 -> Task \cup {NULL}]
      BY <1>0, <3>1 DEF WaitersKept
    <3>3. m_nTasks' \in 1 .. MAX_TASKS
      BY <1>0, <3>1 DEF WaitersKept
    <3> QED
      BY <3>2, <3>3
  <2>3. /\ s # Sm /\ s \in Waitable
        /\ m_WaitList' \in [Waitable -> SUBSET Task]
        /\ \A w \in Waitable : w # s => m_WaitList'[w] = m_WaitList[w]
        /\ m_WaitList'[s] = {}
    BY <1>0, <2>1, SmIsEvent DEF WaitersKept, Waitable
  <2>4. /\ m_State' \in [Task -> {"Unknown", "Ready", "Blocked"}]
        /\ \A u \in Task : m_State[u] = "Blocked" => m_State'[u] = "Blocked"
    BY <1>0, <2>1 DEF WaitersKept
  <2>5. WaitersKept'
    BY <1>0, <2>1, <2>2, <2>3, <2>4 DEF WaitersKept
  <2>6. WaitsForSm'
    <3>1. \A u \in Task : pc'[u] \in {"wait", "unblock"} => pc'[u] = pc[u]
      BY <2>1 DEF SemTypes
    <3>2. m_bState'[Sm] = m_bState[Sm]
      BY <2>1, <2>3, SmIsEvent DEF SemTypes
    <3> QED
      BY <1>0, <2>1, <3>1, <3>2 DEF WaitsForSm
  <2>7. OnList'
    <3>1. m_bState'[Sm] = m_bState[Sm] /\ m_WaitList'[Sm] = m_WaitList[Sm]
      BY <2>1, <2>3, SmIsEvent DEF SemTypes
    <3>2. m_WaitList[Sm] \subseteq Task
      BY <1>0, SmIsEvent DEF WaitersKept
    <3> QED
      BY <1>0, <2>3, <2>4, <3>1, <3>2 DEF OnList
  <2> QED
    BY <2>3, <2>5, <2>6, <2>7, SmIsEvent DEF WaitersInv
<1> QED
  BY <1>1, <1>2, <1>3, <1>4, <1>5, <1>6 DEF SemOther, WaitStep, Irq

\* Set() on the semaphore's event finds only blocked tasks and empties its list.
LEMMA SignalWakes ==
  ASSUME SemTypes, WaitersInv, SignalUp, ~m_bState[Sm]
  PROVE  /\ m_bState' = [m_bState EXCEPT ![Sm] = TRUE] /\ m_bState'[Sm]
         /\ WaitersKept' /\ panic' = panic
         /\ m_WaitList'[Sm] = {} /\ \A w \in Waitable \ {Sm} : m_WaitList'[w] = m_WaitList[w]
         /\ UNCHANGED <<pc, cpu, m_pCurrent, args>>
<1> USE DEF table, where, events, locals, args, history
<1>1. WaitersKept /\ \A t \in m_WaitList[Sm] : m_State[t] \in InWait
  BY DEF WaitersInv, OnList, InWait
<1>2. /\ m_bState' = [m_bState EXCEPT ![Sm] = TRUE]
      /\ m_WaitList' = [m_WaitList EXCEPT ![Sm] = {}]
      /\ m_State' = [t \in Task |-> IF t \in m_WaitList[Sm] THEN "Ready" ELSE m_State[t]]
      /\ UNCHANGED <<table, where, cpu, pc, locals, args, panic>>
  BY <1>1 DEF SignalUp, SetEvent, WakeTasks
<1>3. m_State' \in [Task -> {"Unknown", "Ready", "Blocked"}]
  BY <1>1, <1>2 DEF WaitersKept
<1>4. WaitersKept'
  BY <1>1, <1>2, <1>3 DEF WaitersKept
<1>5. m_WaitList'[Sm] = {} /\ \A w \in Waitable \ {Sm} : m_WaitList'[w] = m_WaitList[w]
  BY <1>1, <1>2, SmIsEvent DEF WaitersKept
<1>6. m_bState'[Sm]
  BY <1>2, SmIsEvent DEF SemTypes
<1> QED
  BY <1>2, <1>4, <1>5, <1>6

\* The steps of the semaphore
LEMMA StepWaiters ==
  ASSUME SemInv, WaitersInv, panic = "none", NEW t \in Task,
         Down(t) \/ TryDown(t) \/ Up(t) \/ SemStep(t)
  PROVE  WaitersInv' /\ panic' = panic
<1> USE DEF table, where, events, locals, args, history
<1>0. /\ WaitersKept /\ WaitsForSm /\ OnList /\ SemTypes /\ OneBetween /\ EventIsBehind
  BY DEF WaitersInv, SemInv
<1>c. /\ cpu = "task" /\ m_pCurrent = t /\ raced' = raced
      /\ \A u \in Task : pc[u] # "wait"
  <2>1. cpu = "task" /\ m_pCurrent = t /\ pc[t] = "run" /\ raced' = raced
    BY DEF Down, TryDown, Up, SemStep, DownPasses, DownWaits, Decrement, ClearEvent,
           UpSignals, Inside, Running, Go, semVars
  <2> QED
    BY <1>0, <2>1 DEF WaitsForSm
<1>1. CASE Down(t) \/ DownPasses(t) \/ TryDown(t) \/ Decrement(t) \/ Up(t)
  <2>1. UNCHANGED vars
    BY <1>1 DEF Down, DownPasses, TryDown, Decrement, Up
  <2> QED
    BY <1>0, <1>c, <2>1 DEF WaitersInv, WaitersKept, WaitsForSm, OnList, vars
<1>2. CASE DownWaits(t)
  <2>1. /\ ~m_bState[Sm]
        /\ pc' = [pc EXCEPT ![t] = "wait"]
        /\ waitEvent' = [waitEvent EXCEPT ![t] = Sm]
        /\ waitTicks' = [waitTicks EXCEPT ![t] = 0]
        /\ UNCHANGED <<table, where, m_State, events, cpu, locals, panic>>
    BY <1>2 DEF DownWaits, BeginWait
  <2>2. WaitersKept'
    BY <1>0, <2>1, SmIsEvent DEF WaitersKept
  <2>3. \A u \in Task : /\ pc'[u] = IF u = t THEN "wait" ELSE pc[u]
                        /\ waitEvent'[u] = IF u = t THEN Sm ELSE waitEvent[u]
                        /\ waitTicks'[u] = IF u = t THEN 0 ELSE waitTicks[u]
    BY <1>0, <2>1 DEF WaitersKept, SemTypes
  <2>4. WaitsForSm'
    BY <1>0, <1>c, <2>1, <2>3 DEF WaitsForSm
  <2>5. OnList'
    BY <1>0, <1>c, <2>1 DEF OnList
  <2> QED
    BY <2>1, <2>2, <2>4, <2>5 DEF WaitersInv
<1>3. CASE ClearEvent(t)
  <2>1. m_bState[Sm]
    BY <1>0, <1>3 DEF ClearEvent, Inside, EventIsBehind
  <2>2. /\ m_bState' = [m_bState EXCEPT ![Sm] = FALSE]
        /\ UNCHANGED <<table, where, m_State, m_WaitList, cpu, pc, locals, args, panic>>
    BY <1>3, <2>1 DEF ClearEvent
  <2>3. ~m_bState'[Sm]
    BY <1>0, <2>2, SmIsEvent DEF SemTypes
  <2> QED
    BY <1>0, <1>c, <2>2, <2>3 DEF WaitersInv, WaitersKept, WaitsForSm, OnList
<1>4. CASE UpSignals(t)
  <2>1. ~m_bState[Sm] /\ SignalUp
    BY <1>0, <1>4 DEF UpSignals, Inside, EventIsBehind
  <2>2. /\ WaitersKept' /\ panic' = panic
        /\ m_WaitList'[Sm] = {} /\ \A w \in Waitable \ {Sm} : m_WaitList'[w] = m_WaitList[w]
        /\ UNCHANGED <<pc, args>>
    BY <1>0, <2>1, SignalWakes
  <2> QED
    BY <1>0, <1>c, <2>2 DEF WaitersInv, WaitsForSm, OnList
<1> QED
  BY <1>1, <1>2, <1>3, <1>4 DEF SemStep

\* Up() in an interrupt handler
LEMMA IrqWaiters ==
  ASSUME SemInv, WaitersInv, IrqUp
  PROVE  WaitersInv' /\ (panic' = panic \/ raced')
<1> USE DEF table, where, events, locals, args, history
<1>0. /\ WaitersKept /\ WaitsForSm /\ OnList /\ SemTypes /\ EventIsBehind
      /\ raced' = (raced \/ \E t \in Task : at[t] = "clear" \/ pc[t] = "wait")
  BY DEF WaitersInv, SemInv, IrqUp
<1>1. CASE m_nCount # 0
  <2>1. UNCHANGED vars
    BY <1>1 DEF IrqUp
  <2> QED
    BY <1>0, <2>1 DEF WaitersInv, WaitersKept, WaitsForSm, OnList, vars
<1>2. CASE m_nCount = 0 /\ m_bState[Sm]
  <2>1. /\ UNCHANGED <<table, where, m_State, m_WaitList, m_bState, cpu, pc, locals, args>>
    BY <1>2 DEF IrqUp, SignalUp
  <2>2. raced'
    BY <1>0, <1>2 DEF EventIsBehind
  <2> QED
    BY <1>0, <2>1, <2>2 DEF WaitersInv, WaitersKept, WaitsForSm, OnList
<1>3. CASE m_nCount = 0 /\ ~m_bState[Sm]
  <2>1. /\ WaitersKept' /\ panic' = panic
        /\ m_WaitList'[Sm] = {} /\ \A w \in Waitable \ {Sm} : m_WaitList'[w] = m_WaitList[w]
        /\ UNCHANGED <<pc, cpu, m_pCurrent, args>>
    BY <1>0, <1>3, SignalWakes DEF IrqUp
  <2> QED
    BY <1>0, <2>1 DEF WaitersInv, WaitsForSm, OnList
<1> QED
  BY <1>1, <1>2, <1>3

\* All steps together; a step that stops the system changes nothing the
\* property reads, or has raced.
LEMMA NextWaiters ==
  ASSUME SemInv, WaitersInv, NobodyBlockedWhileAvailable, [SemNext]_semSysVars
  PROVE  WaitersInv' /\ NobodyBlockedWhileAvailable'
<1> USE DEF table, where, events, locals, args, history
<1>1. CASE UNCHANGED semSysVars
  BY <1>1 DEF WaitersInv, WaitersKept, WaitsForSm, OnList, NobodyBlockedWhileAvailable,
              semSysVars, semVars, vars
<1>2. SemInv'
  BY NextSem
<1>3. ASSUME WaitersInv', panic' = "none"
      PROVE  NobodyBlockedWhileAvailable'
  <2>1. /\ SemTypes' /\ EventIsBehind' /\ OnList'
    BY <1>2, <1>3 DEF SemInv, WaitersInv
  <2>2. SUFFICES ASSUME ~raced', m_nCount' > 0, \A t \in Task : at'[t] # "set"
                 PROVE  m_WaitList'[Sm] = {}
    BY DEF NobodyBlockedWhileAvailable
  <2>3. m_nCount' # 0
    BY <2>2, <2>1 DEF SemTypes
  <2>4. m_bState'[Sm]
    BY <2>1, <2>2, <2>3 DEF EventIsBehind
  <2> QED
    BY <2>1, <2>2, <2>4 DEF OnList
<1>4. ASSUME WaitersInv', UNCHANGED semVars, m_WaitList'[Sm] = m_WaitList[Sm]
      PROVE  NobodyBlockedWhileAvailable'
  BY <1>4 DEF NobodyBlockedWhileAvailable, WaitersInv, OnList, semVars
<1>5. CASE SemOther /\ panic = "none"
  <2>1. WaitersInv' /\ (panic' = panic \/ m_WaitList'[Sm] = m_WaitList[Sm]) /\ UNCHANGED semVars
    BY <1>5, OtherWaiters DEF SemInv, SemOther
  <2> QED
    BY <1>3, <1>4, <1>5, <2>1
<1>6. CASE SemOther /\ panic # "none"
  <2>1. UNCHANGED vars /\ UNCHANGED semVars
    BY <1>6 DEF SemOther, YieldStep, ScanStart, ScanPass, ScanReady, ScanSleepOver,
                ScanTimeout, ExpireTimeout, ScanDelete, ScanNone, Scanning, WaitStep,
                BlockTask, Unblock, Irq, Tick, IrqSet, Halted, Yield, Create, Calling,
                Running
  <2> QED
    BY <1>1, <2>1 DEF semSysVars
<1>7. CASE IrqUp
  <2>1. WaitersInv' /\ (panic' = "none" \/ raced')
    BY <1>7, IrqWaiters DEF IrqUp
  <2> QED
    BY <1>3, <2>1 DEF NobodyBlockedWhileAvailable
<1>8. ASSUME NEW t \in Task, Down(t) \/ TryDown(t) \/ Up(t) \/ SemStep(t)
      PROVE  WaitersInv' /\ NobodyBlockedWhileAvailable'
  <2>1. panic = "none"
    BY <1>8 DEF Down, TryDown, Up, SemStep, DownPasses, DownWaits, Decrement,
                ClearEvent, UpSignals, Inside, Running
  <2> QED
    BY <1>3, <1>8, <2>1, StepWaiters
<1> QED
  BY <1>1, <1>5, <1>6, <1>7, <1>8 DEF SemNext

\* Nobody is left blocked while the semaphore can be taken, but for an Up() in an
\* interrupt handler in one of the two places named at IrqUp: Set() in Up()
\* finds every task that Down() has blocked (Down, Up, BlockTask, WakeTasks).
THEOREM NobodyLeftBlocked == SemSpec => []NobodyBlockedWhileAvailable
<1>1. SemInit => SemInv /\ WaitersInv /\ NobodyBlockedWhileAvailable
  <2>1. SemInit => m_WaitList[Sm] = {}
    BY SmIsEvent DEF SemInit, Init
  <2> QED
    BY <2>1, InitSem, InitWaiters DEF NobodyBlockedWhileAvailable
<1>2. SemInv /\ WaitersInv /\ NobodyBlockedWhileAvailable /\ [SemNext]_semSysVars
        => (SemInv /\ WaitersInv /\ NobodyBlockedWhileAvailable)'
  BY NextSem, NextWaiters
<1> QED
  BY <1>1, <1>2, PTL DEF SemSpec

-----------------------------------------------------------------------------
(* The threads                                                              *)

\* Threads neither sleep nor wait with a time limit.
NoLimits ==
  /\ cpu # "expire" /\ m_iSuspendNewTasks = 0
  /\ \A t \in Task : /\ m_State[t] \notin {"Sleeping", "BlockedWithTimeout", "New"}
                     /\ waitTicks[t] = 0

BlockTypes ==
  /\ allocated \subseteq Thread /\ ended \subseteq Thread
  /\ terminated \in [Thread -> BOOLEAN] /\ taskobj \in [Thread -> Task \cup {NULL}]
  /\ userData \in [Task -> Thread \cup {NULL}] /\ joining \in [Task -> Thread \cup {NULL}]

\* As long as the scheduler knows a task, no other has its block, and "current"
\* is that of the task the processor was given to.
EachItsBlock ==
  /\ \A t \in Task : m_State[t] # "Unknown" => userData[t] \in Thread
  /\ \A t, u \in Task : m_State[t] # "Unknown" /\ m_State[u] # "Unknown"
                        /\ userData[t] = userData[u] => t = u
  /\ userData[m_pCurrent] = current

\* An allocated block belongs to a living task or to a thread that has ended.
LivingOwns ==
  /\ \A t \in Task : m_State[t] \notin Ended =>
       /\ userData[t] \in allocated \ ended /\ ~terminated[userData[t]]
       /\ taskobj[userData[t]] \in {t, NULL} /\ ~m_bState[t]
  /\ \A t \in Task : m_State[t] = "Terminated" => userData[t] \in ended
  /\ \A b \in allocated \ ended : \E t \in Task : m_State[t] \notin Ended /\ userData[t] = b

\* Whoever joins a thread that has not ended waits for its task, and nothing but
\* the end of that task wakes it.
WaitsForEnd(t) ==
  /\ pc[t] \in {"wait", "unblock"}
  /\ waitEvent[t] = taskobj[joining[t]] /\ waitEvent[t] \in Task
  /\ pc[t] = "unblock" => m_State[t] = "Blocked"

JoinsWait ==
  /\ \A t \in Task : joining[t] # NULL =>
       /\ m_State[t] \notin Ended /\ joining[t] \in allocated
       /\ joining[t] \in ended \/ WaitsForEnd(t)
  /\ \A t, u \in Task : joining[t] = joining[u] /\ joining[t] # NULL => t = u

ThreadSound == NoLimits /\ BlockTypes /\ EachItsBlock /\ LivingOwns /\ JoinsWait

\* All of it holds until a block is reused too early.
ThreadInv == panic = "none" => IInv /\ (~reused => ThreadSound)

-----------------------------------------------------------------------------
(* The scheduler below                                                      *)

\* A step that does not stop the system is one of the scheduler's.
LEMMA ThreadsAreTasks ==
  ASSUME ThreadInv, [ThreadNext]_threadSysVars, panic' = "none"
  PROVE  panic = "none" /\ [Next]_vars
<1>1. CASE UNCHANGED threadSysVars
  <2>1. UNCHANGED vars
    BY <1>1 DEF threadSysVars
  <2> QED
    BY <2>1 DEF vars
<1>2. CASE ThreadOther
  <2>1. Next
    BY <1>2 DEF ThreadOther, Next, Call
  <2>2. panic = "none"
    BY <1>2 DEF ThreadOther, YieldStep, ScanStart, ScanPass, ScanReady, ScanSleepOver,
                ScanTimeout, ExpireTimeout, ScanDelete, ScanNone, Scanning, WaitStep,
                BlockTask, Unblock, Irq, Tick, IrqSet, Halted, vars, InThread, Running
  <2> QED
    BY <2>1, <2>2
<1>3. ASSUME NEW t \in Task, NEW s \in Task, pthread_create(t, s)
      PROVE  panic = "none" /\ [Next]_vars
  BY <1>3 DEF pthread_create, InThread, Running, Next, Call
<1>4. ASSUME NEW t \in Task, NEW b \in Thread, pthread_join(t, b)
      PROVE  panic = "none" /\ [Next]_vars
  <2>1. panic = "none"
    BY <1>4 DEF pthread_join, InThread, Running
  <2>2. UNCHANGED vars \/ WaitForTermination(t, taskobj[b])
    BY <1>4, ThreadAssumption
       DEF pthread_join, InThread, Calling, WaitForTermination, ThreadAssumption
  <2>3. ASSUME WaitForTermination(t, taskobj[b])
        PROVE  Next
    <3>1. TypeOK /\ taskobj[b] # NULL /\ IsValidTask(taskobj[b])
      BY <1>4, <2>1, <2>3 DEF ThreadInv, IInv, pthread_join, WaitForTermination
    <3>2. \A i \in Slots : m_pTask[i] \in Task \cup {NULL}
      <4>1. Slots \subseteq 0 .. MAX_TASKS - 1
        BY <3>1, Numbers DEF Slots
      <4> QED
        BY <3>1, <4>1 DEF TypeOK
    <3>3. taskobj[b] \in Task
      BY <3>1, <3>2 DEF IsValidTask
    <3> QED
      BY <2>3, <3>3 DEF Next, Call
  <2> QED
    BY <2>1, <2>2, <2>3
<1>5. ASSUME NEW t \in Task, JoinEnds(t)
      PROVE  panic = "none" /\ [Next]_vars
  <2>1. panic = "none"
    BY <1>5 DEF JoinEnds, Running
  <2>2. UNCHANGED vars
    BY <1>5, <2>1 DEF JoinEnds, vars, events
  <2> QED
    BY <2>1, <2>2
<1>6. ASSUME NEW t \in Task, ThreadReturns(t) \/ pthread_exit(t)
      PROVE  panic = "none" /\ [Next]_vars
  <2>1. panic = "none"
    BY <1>6 DEF ThreadReturns, pthread_exit, InThread, Running
  <2>2. \E u \in Task : Terminate(u)
    <3>1. ASSUME NEW u, Terminate(u)
          PROVE  u = m_pCurrent
      BY <3>1 DEF Terminate, Calling, Running
    <3>2. t = m_pCurrent /\ \E u : Terminate(u)
      BY <1>6 DEF ThreadReturns, pthread_exit, InThread, Running
    <3> QED
      BY <3>1, <3>2
  <2> QED
    BY <2>1, <2>2 DEF Next, Call
<1> QED
  BY <1>1, <1>2, <1>3, <1>4, <1>5, <1>6 DEF ThreadNext

-----------------------------------------------------------------------------
(* The blocks                                                               *)

\* Each block has its thread when the system boots.
LEMMA InitThreads == ThreadInit => ThreadInv
<1> SUFFICES ASSUME ThreadInit
             PROVE  IInv /\ ThreadSound
  BY DEF ThreadInv
<1>1. Init /\ Main \in Task /\ NULL \notin Task /\ NULL \notin Thread /\ Event \cap Task = {}
      /\ SetInitially \subseteq Event
  BY SchedulerAssumption, ThreadAssumption
     DEF ThreadInit, SchedulerAssumption, ThreadAssumption
<1>2. PICK b \in Thread :
        /\ allocated = {b}
        /\ terminated = [c \in Thread |-> FALSE]
        /\ taskobj = [c \in Thread |-> NULL]
        /\ userData = [t \in Task |-> IF t = Main THEN b ELSE NULL]
        /\ current = b
  BY DEF ThreadInit
<1>3. joining = [t \in Task |-> NULL] /\ ended = {}
  BY DEF ThreadInit
<1>4. NoLimits
  BY <1>1 DEF Init, NoLimits
<1>5. BlockTypes /\ JoinsWait
  BY <1>1, <1>2, <1>3 DEF BlockTypes, JoinsWait
<1>6. /\ \A t \in Task : m_State[t] # "Unknown" <=> t = Main
      /\ \A t \in Task : m_State[t] # "Terminated" /\ ~m_bState[t]
      /\ m_pCurrent = Main
  BY <1>1 DEF Init, Waitable
<1>7. EachItsBlock
  BY <1>1, <1>2, <1>6 DEF EachItsBlock
<1>8. LivingOwns
  BY <1>1, <1>2, <1>3, <1>6 DEF LivingOwns, Ended
<1> QED
  BY <1>1, <1>4, <1>5, <1>7, <1>8, InitSound DEF ThreadSound

\* Steps that end no task, delete none and create none, and after which whoever
\* joins a living thread still waits for it
LEMMA ThreadsKept ==
  ASSUME ThreadSound, NoLimits', UNCHANGED blocks, terminated' = terminated,
         userData' = userData, joining' = joining,
         userData[m_pCurrent'] = current',
         \A t \in Task : /\ m_State'[t] = "Unknown" <=> m_State[t] = "Unknown"
                         /\ m_State'[t] = "Terminated" <=> m_State[t] = "Terminated",
         \A t \in Task : m_bState'[t] = m_bState[t],
         \A t \in Task : joining[t] # NULL /\ joining[t] \notin ended => WaitsForEnd(t)'
  PROVE  ThreadSound'
<1>0. BlockTypes /\ EachItsBlock /\ LivingOwns /\ JoinsWait
  BY DEF ThreadSound
<1>1. UNCHANGED <<allocated, taskobj, ended>>
  BY DEF blocks
<1>2. BlockTypes'
  BY <1>0, <1>1 DEF BlockTypes
<1>3. EachItsBlock'
  BY <1>0, <1>1 DEF EachItsBlock
<1>4. LivingOwns'
  BY <1>0, <1>1 DEF LivingOwns, Ended
<1>5. JoinsWait'
  BY <1>0, <1>1 DEF JoinsWait, Ended
<1> QED
  BY <1>2, <1>3, <1>4, <1>5 DEF ThreadSound

\* Nobody is marked when nobody is deleted, and "current" stays while nobody
\* else gets the processor.
LEMMA HandlersIdle ==
  ASSUME BlockTypes, EachItsBlock, task_termination_handler, task_switch_handler,
         \A t \in Task : m_State'[t] = "Unknown" <=> m_State[t] = "Unknown"
  PROVE  terminated' = terminated /\ userData[m_pCurrent'] = current'
<1>1. Deleted = {}
  BY DEF Deleted
<1>2. terminated' = terminated
  BY <1>1 DEF task_termination_handler, BlockTypes
<1>3. userData[m_pCurrent'] = current'
  BY DEF task_switch_handler, EachItsBlock
<1> QED
  BY <1>2, <1>3

\* The scheduler's scan deletes no living thread, and marks the block of the one
\* it deletes, which is nobody else's.
LEMMA YieldThreads ==
  ASSUME TypeOK, Sound, ThreadSound, YieldStep, task_termination_handler,
         task_switch_handler, UNCHANGED <<blocks, userData, joining>>
  PROVE  ThreadSound'
<1> USE DEF table, where, events, locals, args, history, blocks
<1>0. /\ NoLimits /\ BlockTypes /\ EachItsBlock /\ LivingOwns /\ JoinsWait
      /\ NULL \notin Task
  BY SchedulerAssumption DEF ThreadSound, SchedulerAssumption
<1>1. NextSlot \in 0 .. MAX_TASKS - 1 /\ m_pTask[NextSlot] \in Task \cup {NULL}
  <2>1. NextSlot \in 0 .. MAX_TASKS - 1
    BY Numbers DEF NextSlot
  <2> QED
    BY <2>1 DEF TypeOK
<1>2. ~ScanSleepOver /\ ~ScanTimeout /\ ~ExpireTimeout
  <2>1. \A p \in Task \cup {NULL} :
          ~PassesOver(p) => m_State[p] \notin {"Sleeping", "BlockedWithTimeout"}
    BY <1>0 DEF PassesOver, NoLimits
  <2> QED
    BY <1>0, <1>1, <2>1 DEF ScanSleepOver, ScanTimeout, ExpireTimeout, NoLimits
<1>3. CASE ScanStart \/ ScanPass \/ ScanReady \/ ScanNone
  <2>1. /\ UNCHANGED <<m_State, m_bState, m_iSuspendNewTasks, pc, waitEvent, waitTicks>>
        /\ cpu' # "expire"
    BY <1>3 DEF ScanStart, ScanPass, ScanReady, ScanNone, Scanning, SwitchTo
  <2>2. NoLimits'
    BY <1>0, <2>1 DEF NoLimits
  <2>3. terminated' = terminated /\ userData[m_pCurrent'] = current'
    BY <1>0, <2>1, HandlersIdle
  <2>4. \A t \in Task : joining[t] # NULL /\ joining[t] \notin ended => WaitsForEnd(t)'
    BY <1>0, <2>1 DEF JoinsWait, WaitsForEnd
  <2> QED
    BY <2>1, <2>2, <2>3, <2>4, ThreadsKept
<1>4. CASE ScanDelete
  <2> DEFINE p == m_pTask[NextSlot]
  <2>1. /\ p \in Task /\ m_State[p] = "Terminated"
        /\ m_State' = [m_State EXCEPT ![p] = "Unknown"]
        /\ UNCHANGED <<m_pCurrent, m_iSuspendNewTasks, m_bState, pc, waitEvent, waitTicks>>
        /\ cpu' = "yield"
    BY <1>1, <1>4 DEF ScanDelete, PassesOver
  <2> HIDE DEF p
  <2>2. \A t \in Task : m_State'[t] = IF t = p THEN "Unknown" ELSE m_State[t]
    BY <2>1 DEF TypeOK
  <2>3. NoLimits'
    BY <1>0, <2>1, <2>2 DEF NoLimits
  <2>4. Deleted = {p}
    BY <2>1, <2>2 DEF Deleted
  <2>5. /\ terminated' \in [Thread -> BOOLEAN]
        /\ \A b \in Thread : terminated'[b] = (terminated[b] \/ userData[p] = b)
    BY <1>0, <2>4 DEF task_termination_handler, BlockTypes
  <2>6. current' = current
    BY <2>1 DEF task_switch_handler
  <2>7. BlockTypes' /\ EachItsBlock'
    BY <1>0, <2>1, <2>2, <2>5, <2>6 DEF BlockTypes, EachItsBlock
  <2>8. LivingOwns'
    <3>1. \A t \in Task : m_State'[t] \notin Ended =>
            m_State[t] \notin Ended /\ userData[t] \in Thread /\ userData[t] # userData[p]
      BY <1>0, <2>1, <2>2 DEF Ended, EachItsBlock
    <3>2. \A t \in Task : m_State[t] \notin Ended => m_State'[t] \notin Ended
      BY <2>1, <2>2 DEF Ended
    <3>3. \A t \in Task : m_State'[t] = "Terminated" => m_State[t] = "Terminated"
      BY <2>2
    <3> QED
      BY <1>0, <2>1, <2>5, <3>1, <3>2, <3>3 DEF LivingOwns
  <2>9. JoinsWait'
    <3>1. \A t \in Task : m_State[t] \notin Ended => m_State'[t] = m_State[t]
      BY <2>1, <2>2 DEF Ended
    <3> QED
      BY <1>0, <2>1, <3>1 DEF JoinsWait, WaitsForEnd
  <2> QED
    BY <2>3, <2>7, <2>8, <2>9 DEF ThreadSound
<1> QED
  BY <1>2, <1>3, <1>4 DEF YieldStep

\* The other steps besides the calls of threads
LEMMA OtherThreads ==
  ASSUME TypeOK, Sound, ThreadSound, ThreadOther, panic = "none", panic' = "none"
  PROVE  ThreadSound'
<1> USE DEF table, where, events, locals, args, history
<1>0. /\ NoLimits /\ BlockTypes /\ EachItsBlock /\ LivingOwns /\ JoinsWait
      /\ UNCHANGED <<blocks, userData, joining>>
      /\ task_termination_handler /\ task_switch_handler
  BY DEF ThreadSound, ThreadOther
<1>1. CASE YieldStep
  BY <1>0, <1>1, YieldThreads
<1>2. ASSUME NEW t \in Task, BlockTask(t)
      PROVE  ThreadSound'
  <2>1. waitTicks[t] = 0 /\ pc[t] = "wait"
    BY <1>0, <1>2 DEF NoLimits, BlockTask
  <2>2. /\ m_State' = [m_State EXCEPT ![t] = "Blocked"]
        /\ pc' = [pc EXCEPT ![t] = "unblock"] /\ cpu' = "yield" /\ m_pCurrent = t
        /\ UNCHANGED <<m_bState, m_iSuspendNewTasks, m_pCurrent, waitEvent, waitTicks>>
    BY <1>2, <2>1 DEF BlockTask, Running
  <2>3. m_State[t] = "Ready"
    BY <1>2, <2>2 DEF Sound, PlacesSound, BlockTask, Running
  <2>4. \A u \in Task : /\ m_State'[u] = IF u = t THEN "Blocked" ELSE m_State[u]
                        /\ pc'[u] = IF u = t THEN "unblock" ELSE pc[u]
    BY <2>2 DEF TypeOK
  <2>5. NoLimits'
    BY <1>0, <2>2, <2>4 DEF NoLimits
  <2>6. \A u \in Task : /\ m_State'[u] = "Unknown" <=> m_State[u] = "Unknown"
                        /\ m_State'[u] = "Terminated" <=> m_State[u] = "Terminated"
    BY <2>3, <2>4
  <2>7. terminated' = terminated /\ userData[m_pCurrent'] = current'
    BY <1>0, <2>6, HandlersIdle
  <2>8. \A u \in Task : joining[u] # NULL /\ joining[u] \notin ended => WaitsForEnd(u)'
    BY <1>0, <2>1, <2>2, <2>4 DEF JoinsWait, WaitsForEnd, blocks
  <2> QED
    BY <1>0, <2>2, <2>5, <2>6, <2>7, <2>8, ThreadsKept
<1>3. ASSUME NEW t \in Task, Unblock(t)
      PROVE  ThreadSound'
  <2>1. /\ pc' = [pc EXCEPT ![t] = "run"] /\ m_pCurrent = t /\ pc[t] = "unblock"
        /\ waitEvent' = [waitEvent EXCEPT ![t] = NULL]
        /\ waitTicks' = [waitTicks EXCEPT ![t] = 0]
        /\ UNCHANGED <<cpu, m_State, m_bState, m_iSuspendNewTasks, m_pCurrent>>
    BY <1>3 DEF Unblock, Running
  <2>2. m_State[t] = "Ready"
    BY <1>3 DEF Sound, PlacesSound, Unblock, Running
  <2>3. \A u \in Task : waitTicks'[u] = 0
    BY <1>0, <2>1 DEF NoLimits, TypeOK
  <2>4. NoLimits'
    BY <1>0, <2>1, <2>3 DEF NoLimits
  <2>5. terminated' = terminated /\ userData[m_pCurrent'] = current'
    BY <1>0, <2>1, HandlersIdle
  <2>6. \A u \in Task : joining[u] # NULL /\ joining[u] \notin ended => WaitsForEnd(u)'
    <3>1. \A u \in Task : u # t => pc'[u] = pc[u] /\ waitEvent'[u] = waitEvent[u]
      BY <2>1 DEF TypeOK
    <3>2. joining[t] # NULL => joining[t] \in ended
      BY <1>0, <2>1, <2>2 DEF JoinsWait, WaitsForEnd
    <3> QED
      BY <1>0, <2>1, <3>1, <3>2 DEF JoinsWait, WaitsForEnd, blocks
  <2> QED
    BY <1>0, <2>1, <2>4, <2>5, <2>6, ThreadsKept
<1>4. CASE Tick \/ \E t \in Task : Yield(t)
  <2>1. /\ UNCHANGED <<m_State, m_bState, m_iSuspendNewTasks, m_pCurrent, pc, waitEvent,
                       waitTicks>>
        /\ cpu' \in {cpu, "yield"}
    BY <1>4 DEF Tick, Yield
  <2>2. NoLimits'
    BY <1>0, <2>1 DEF NoLimits
  <2>3. terminated' = terminated /\ userData[m_pCurrent'] = current'
    BY <1>0, <2>1, HandlersIdle
  <2>4. \A t \in Task : joining[t] # NULL /\ joining[t] \notin ended => WaitsForEnd(t)'
    BY <1>0, <2>1 DEF JoinsWait, WaitsForEnd, blocks
  <2> QED
    BY <1>0, <2>1, <2>2, <2>3, <2>4, ThreadsKept
<1>5. ASSUME NEW e \in IrqEvent, IrqSet(e)
      PROVE  ThreadSound'
  <2>1. e \in Waitable /\ e \notin Task
    BY SchedulerAssumption DEF SchedulerAssumption, Waitable
  <2>2. /\ \A u \in Waitable \ {e} : m_bState'[u] = m_bState[u]
        /\ \A u \in Task : u \in m_WaitList[e] => m_State[u] \in InWait /\ m_State'[u] = "Ready"
        /\ \A u \in Task : u \notin m_WaitList[e] => m_State'[u] = m_State[u]
    BY <1>5, <2>1, WakesPointwise DEF IrqSet
  <2>3. UNCHANGED <<cpu, m_iSuspendNewTasks, m_pCurrent, pc, waitEvent, waitTicks>>
    BY <1>5 DEF IrqSet
  <2>4. NoLimits'
    BY <1>0, <2>2, <2>3 DEF NoLimits
  <2>5. \A u \in Task : /\ m_State'[u] = "Unknown" <=> m_State[u] = "Unknown"
                        /\ m_State'[u] = "Terminated" <=> m_State[u] = "Terminated"
    BY <2>2 DEF InWait
  <2>6. terminated' = terminated /\ userData[m_pCurrent'] = current'
    BY <1>0, <2>3, <2>5, HandlersIdle
  <2>7. \A u \in Task : m_bState'[u] = m_bState[u]
    BY <2>1, <2>2 DEF Waitable
  <2>8. \A u \in Task : waitEvent[u] \in Task => u \notin m_WaitList[e]
    BY <2>1 DEF Sound, WaitsSound, ListedIsWaiting
  <2>9. \A u \in Task : joining[u] # NULL /\ joining[u] \notin ended => WaitsForEnd(u)'
    BY <1>0, <2>2, <2>3, <2>8 DEF JoinsWait, WaitsForEnd, blocks
  <2> QED
    BY <1>0, <2>3, <2>4, <2>5, <2>6, <2>7, <2>9, ThreadsKept
<1> QED
  BY <1>1, <1>2, <1>3, <1>4, <1>5 DEF ThreadOther, WaitStep, Irq, Halted

\* A thread gets a block that is nobody's, or that of a task which is not
\* deleted yet: then it is reused too early.
LEMMA CreateThreads ==
  ASSUME TypeOK, Sound, ThreadSound, NEW t \in Task, NEW s \in Task, pthread_create(t, s),
         ~reused'
  PROVE  ThreadSound'
<1> USE DEF table, where, events, locals, args, history
<1>0. /\ NoLimits /\ BlockTypes /\ EachItsBlock /\ LivingOwns /\ JoinsWait
      /\ NULL \notin Thread
  BY ThreadAssumption DEF ThreadSound, ThreadAssumption
<1>1. /\ m_State[s] = "Unknown"
      /\ m_State' = [m_State EXCEPT ![s] = "Ready"]
      /\ m_bState' = [m_bState EXCEPT ![s] = FALSE]
      /\ pc' = [pc EXCEPT ![s] = "run"]
      /\ UNCHANGED <<m_iSuspendNewTasks, m_pCurrent, cpu, waitEvent, waitTicks, current, joining>>
      /\ cpu = "task" /\ m_pCurrent = t
  BY <1>0 DEF pthread_create, Create, NoLimits, InThread, Running
<1>2. PICK b \in Thread \ allocated :
        /\ allocated' = allocated \cup {b}
        /\ terminated' = [terminated EXCEPT ![b] = FALSE]
        /\ taskobj' = [taskobj EXCEPT ![b] = s]
        /\ userData' = [userData EXCEPT ![s] = b]
        /\ ended' = ended \ {b}
        /\ \A u \in Task : m_State[u] = "Terminated" => userData[u] # b
  BY DEF pthread_create
<1>3. /\ \A u \in Task : m_State'[u] = IF u = s THEN "Ready" ELSE m_State[u]
      /\ \A u \in Task : pc'[u] = IF u = s THEN "run" ELSE pc[u]
      /\ \A u \in Task : m_bState'[u] = IF u = s THEN FALSE ELSE m_bState[u]
  BY <1>1 DEF TypeOK, Waitable
<1>4. /\ \A u \in Task : userData'[u] = IF u = s THEN b ELSE userData[u]
      /\ \A c \in Thread : terminated'[c] = IF c = b THEN FALSE ELSE terminated[c]
      /\ \A c \in Thread : taskobj'[c] = IF c = b THEN s ELSE taskobj[c]
  BY <1>0, <1>2 DEF BlockTypes
<1>5. NoLimits'
  BY <1>0, <1>1, <1>3 DEF NoLimits
<1>6. BlockTypes'
  BY <1>0, <1>1, <1>2 DEF BlockTypes
<1>7. \A u \in Task : m_State[u] # "Unknown" => u # s /\ userData[u] # b
  <2>1. \A u \in Task : m_State[u] \notin Ended => userData[u] # b
    BY <1>0, <1>2 DEF LivingOwns
  <2> QED
    BY <1>1, <1>2, <2>1 DEF Ended
<1>8. EachItsBlock'
  <2>1. m_State[t] = "Ready"
    BY <1>1 DEF Sound, PlacesSound
  <2> QED
    BY <1>0, <1>1, <1>2, <1>3, <1>4, <1>7, <2>1 DEF EachItsBlock
<1>9. LivingOwns'
  <2>1. \A u \in Task : m_State'[u] \notin Ended =>
          /\ userData'[u] \in allocated' \ ended' /\ ~terminated'[userData'[u]]
          /\ taskobj'[userData'[u]] \in {u, NULL} /\ ~m_bState'[u]
    <3>1. /\ userData'[s] \in allocated' \ ended' /\ ~terminated'[userData'[s]]
          /\ taskobj'[userData'[s]] = s /\ ~m_bState'[s]
      <4>1. userData'[s] = b /\ ~m_bState'[s] /\ ~terminated'[b] /\ taskobj'[b] = s
        BY <1>3, <1>4
      <4> QED
        BY <1>2, <4>1
    <3>2. ASSUME NEW u \in Task, u # s, m_State'[u] \notin Ended
          PROVE  /\ userData'[u] \in allocated' \ ended' /\ ~terminated'[userData'[u]]
                 /\ taskobj'[userData'[u]] \in {u, NULL} /\ ~m_bState'[u]
      <4>1. m_State[u] \notin Ended /\ userData[u] # b /\ userData'[u] = userData[u]
        BY <1>3, <1>4, <1>7, <3>2 DEF Ended
      <4>2. /\ userData[u] \in allocated \ ended /\ ~terminated[userData[u]]
            /\ taskobj[userData[u]] \in {u, NULL} /\ ~m_bState[u]
            /\ userData[u] \in Thread
        BY <1>0, <4>1 DEF LivingOwns, BlockTypes
      <4>3. ~m_bState'[u]
        BY <1>3, <3>2, <4>2
      <4>4. ~terminated'[userData[u]] /\ taskobj'[userData[u]] = taskobj[userData[u]]
        BY <1>4, <4>1, <4>2
      <4> QED
        BY <1>2, <4>1, <4>2, <4>3, <4>4
    <3> QED
      BY <3>1, <3>2
  <2>2. \A u \in Task : m_State'[u] = "Terminated" => userData'[u] \in ended'
    BY <1>0, <1>2, <1>3, <1>4 DEF LivingOwns
  <2>3. ASSUME NEW c \in allocated' \ ended'
        PROVE  \E u \in Task : m_State'[u] \notin Ended /\ userData'[u] = c
    <3>1. CASE c = b
      BY <1>3, <1>4, <3>1 DEF Ended
    <3>2. CASE c # b
      <4>1. PICK u \in Task : m_State[u] \notin Ended /\ userData[u] = c
        BY <1>0, <1>2, <2>3, <3>2 DEF LivingOwns
      <4>2. u # s
        BY <1>1, <4>1 DEF Ended
      <4> QED
        BY <1>3, <1>4, <4>1, <4>2
    <3> QED
      BY <3>1, <3>2
  <2> QED
    BY <2>1, <2>2, <2>3 DEF LivingOwns
<1>10. JoinsWait'
  <2>1. \A u \in Task : joining[u] # NULL =>
          /\ u # s /\ joining[u] \in allocated /\ joining[u] # b /\ joining[u] \in Thread
    BY <1>0, <1>1, <1>2 DEF JoinsWait, BlockTypes, Ended
  <2>2. ASSUME NEW u \in Task, joining[u] # NULL
        PROVE  /\ m_State'[u] \notin Ended /\ joining[u] \in allocated'
               /\ joining[u] \in ended' \/ WaitsForEnd(u)'
    <3>1. m_State'[u] \notin Ended /\ joining[u] \in allocated'
      BY <1>0, <1>2, <1>3, <2>1, <2>2 DEF JoinsWait
    <3>2. joining[u] \in ended => joining[u] \in ended'
      BY <1>2, <2>1, <2>2
    <3>3. WaitsForEnd(u) => WaitsForEnd(u)'
      BY <1>1, <1>3, <1>4, <2>1, <2>2 DEF WaitsForEnd
    <3> QED
      BY <1>0, <2>2, <3>1, <3>2, <3>3 DEF JoinsWait
  <2> QED
    BY <1>0, <1>1, <2>2 DEF JoinsWait
<1> QED
  BY <1>5, <1>6, <1>8, <1>9, <1>10 DEF ThreadSound

\* pthread_join() waits exactly when the thread has not ended.
LEMMA JoinThreads ==
  ASSUME TypeOK, Sound, ThreadSound, NEW t \in Task, NEW b \in Thread, pthread_join(t, b)
  PROVE  ThreadSound'
<1> USE DEF table, where, events, locals, args, history
<1>0. /\ NoLimits /\ BlockTypes /\ EachItsBlock /\ LivingOwns /\ JoinsWait
      /\ NULL \notin Thread /\ NULL \notin Task
  BY ThreadAssumption, SchedulerAssumption
     DEF ThreadSound, ThreadAssumption, SchedulerAssumption
<1> DEFINE s == taskobj[b]
<1>1. /\ cpu = "task" /\ m_pCurrent = t /\ pc[t] = "run"
      /\ b \in allocated /\ s # NULL /\ \A u \in Task : joining[u] # b
      /\ joining' = [joining EXCEPT ![t] = b]
      /\ UNCHANGED <<blocks, terminated, userData, current>>
      /\ UNCHANGED <<m_State, m_bState, cpu, m_pCurrent, m_iSuspendNewTasks>>
  BY DEF pthread_join, InThread, Running, vars
<1>2. m_State[t] = "Ready"
  BY <1>1 DEF Sound, PlacesSound
<1>3. \A u \in Task : joining'[u] = IF u = t THEN b ELSE joining[u]
  BY <1>0, <1>1 DEF BlockTypes
<1>4. \/ UNCHANGED <<pc, waitEvent, waitTicks>> /\ b \in ended
      \/ /\ pc' = [pc EXCEPT ![t] = "wait"]
         /\ waitEvent' = [waitEvent EXCEPT ![t] = s]
         /\ waitTicks' = [waitTicks EXCEPT ![t] = 0]
         /\ s \in Task
  <2>1. ASSUME b \notin ended
        PROVE  ~terminated[b] /\ IsValidTask(s) /\ ~m_bState[s] /\ s \in Task
    <3>1. PICK u \in Task : m_State[u] \notin Ended /\ userData[u] = b
      BY <1>0, <1>1, <2>1 DEF LivingOwns
    <3>2. s = u /\ ~terminated[b] /\ ~m_bState[u]
      BY <1>0, <1>1, <3>1 DEF LivingOwns
    <3>3. IsValidTask(u)
      BY <3>1 DEF Sound, TableSound, Ended
    <3> QED
      BY <3>2, <3>3
  <2>2. ASSUME IsValidTask(s)
        PROVE  s \in Task
    <3>1. \A i \in Slots : m_pTask[i] \in Task \cup {NULL}
      <4>1. Slots \subseteq 0 .. MAX_TASKS - 1
        BY Numbers DEF Slots
      <4> QED
        BY <4>1 DEF TypeOK
    <3> QED
      BY <1>1, <2>2, <3>1 DEF IsValidTask
  <2> QED
    BY <2>1, <2>2 DEF pthread_join, BeginWait, vars
<1> HIDE DEF s
<1>5. \A u \in Task \ {t} : pc'[u] = pc[u] /\ waitEvent'[u] = waitEvent[u]
  BY <1>4 DEF TypeOK
<1>6. NoLimits'
  <2>1. \A u \in Task : waitTicks'[u] = 0
    BY <1>0, <1>4 DEF NoLimits, TypeOK
  <2> QED
    BY <1>0, <1>1, <2>1 DEF NoLimits
<1>7. BlockTypes' /\ EachItsBlock' /\ LivingOwns'
  <2>1. UNCHANGED <<allocated, taskobj, ended, terminated, userData, current>>
    BY <1>1 DEF blocks
  <2> QED
    BY <1>0, <1>1, <2>1 DEF BlockTypes, EachItsBlock, LivingOwns
<1>8. JoinsWait'
  <2>1. b \in ended \/ WaitsForEnd(t)'
    <3>1. CASE b \notin ended
      <4>1. pc'[t] = "wait" /\ waitEvent'[t] = s /\ s \in Task /\ joining'[t] = b
        BY <1>3, <1>4, <3>1 DEF TypeOK
      <4>2. taskobj' = taskobj
        BY <1>1 DEF blocks
      <4> QED
        BY <4>1, <4>2 DEF WaitsForEnd, s
    <3> QED
      BY <3>1
  <2>2. \A u \in Task \ {t} : WaitsForEnd(u) => WaitsForEnd(u)'
    BY <1>1, <1>3, <1>5 DEF WaitsForEnd, blocks
  <2>3. UNCHANGED <<allocated, ended>>
    BY <1>1 DEF blocks
  <2> QED
    BY <1>0, <1>1, <1>2, <1>3, <2>1, <2>2, <2>3 DEF JoinsWait, Ended
<1> QED
  BY <1>6, <1>7, <1>8 DEF ThreadSound

\* The block that is freed is that of a thread which has ended.
LEMMA JoinEndsThreads ==
  ASSUME ThreadSound, NEW t \in Task, JoinEnds(t)
  PROVE  ThreadSound' /\ joining[t] \in ended
<1>0. /\ NoLimits /\ BlockTypes /\ EachItsBlock /\ LivingOwns /\ JoinsWait
      /\ NULL \notin Thread
  BY ThreadAssumption DEF ThreadSound, ThreadAssumption
<1>1. /\ joining[t] \in ended /\ joining[t] # NULL
      /\ allocated' = allocated \ {joining[t]}
      /\ joining' = [joining EXCEPT ![t] = NULL]
      /\ UNCHANGED <<m_State, m_bState, m_iSuspendNewTasks, m_pCurrent, cpu, pc, waitEvent,
                     waitTicks>>
      /\ UNCHANGED <<terminated, taskobj, userData, current, ended>>
  <2>1. joining[t] # NULL /\ pc[t] = "run"
    BY DEF JoinEnds
  <2>2. joining[t] \in ended
    BY <1>0, <2>1 DEF JoinsWait, WaitsForEnd
  <2> QED
    BY <2>1, <2>2 DEF JoinEnds, where, table, events, args
<1>2. \A u \in Task : joining'[u] = IF u = t THEN NULL ELSE joining[u]
  BY <1>0, <1>1 DEF BlockTypes
<1>3. NoLimits' /\ BlockTypes' /\ EachItsBlock'
  BY <1>0, <1>1 DEF NoLimits, BlockTypes, EachItsBlock
<1>4. LivingOwns'
  BY <1>0, <1>1 DEF LivingOwns
<1>5. JoinsWait'
  BY <1>0, <1>1, <1>2 DEF JoinsWait, WaitsForEnd
<1> QED
  BY <1>1, <1>3, <1>4, <1>5 DEF ThreadSound

\* The end of a task is the end of the thread on its block, and the event that
\* wakes whoever joins it.
LEMMA EndThreads ==
  ASSUME TypeOK, Sound, ThreadSound, NEW t \in Task, Terminate(t), joining[t] = NULL,
         panic' = "none",
         ended' = ended \cup {userData[t]},
         UNCHANGED <<allocated, taskobj, terminated, userData, current, joining>>
  PROVE  ThreadSound'
<1> USE DEF table, where, events, locals, args, history
<1> DEFINE state == [m_State EXCEPT ![t] = "Terminated"]
<1>0. NoLimits /\ BlockTypes /\ EachItsBlock /\ LivingOwns /\ JoinsWait
  BY DEF ThreadSound
<1>1. /\ SetEvent(t, state) /\ panic = "none" /\ pc[t] = "run" /\ m_pCurrent = t
      /\ pc' = [pc EXCEPT ![t] = "dead"] /\ cpu = "task" /\ cpu' = "yield"
      /\ UNCHANGED <<m_pCurrent, m_iSuspendNewTasks, waitEvent, waitTicks>>
  BY DEF Terminate, Calling, Running
<1>2. /\ \A u \in Waitable \ {t} : m_bState'[u] = m_bState[u]
      /\ \A u \in Task : u \in m_WaitList[t] => state[u] \in InWait /\ m_State'[u] = "Ready"
      /\ \A u \in Task : u \notin m_WaitList[t] => m_State'[u] = state[u]
  <2> HIDE DEF state
  <2>1. t \in Waitable
    BY DEF Waitable
  <2> QED
    BY <1>1, <2>1, WakesPointwise
<1>3. /\ t \notin m_WaitList[t] /\ m_State'[t] = "Terminated"
      /\ \A u \in Task \ {t} :
           /\ u \in m_WaitList[t] => m_State[u] \in InWait /\ m_State'[u] = "Ready"
           /\ u \notin m_WaitList[t] => m_State'[u] = m_State[u]
  <2>1. t \notin m_WaitList[t]
    BY <1>1 DEF Sound, WaitsSound, ListedIsWaiting, Waitable
  <2>2. state[t] = "Terminated" /\ \A u \in Task \ {t} : state[u] = m_State[u]
    BY DEF TypeOK
  <2> HIDE DEF state
  <2> QED
    BY <1>2, <2>1, <2>2
<1> HIDE DEF state
<1>4. m_State[t] = "Ready" /\ userData[t] \in Thread
  BY <1>0, <1>1 DEF Sound, PlacesSound, EachItsBlock
<1>5. \A u \in Task \ {t} : /\ m_State'[u] \in Ended <=> m_State[u] \in Ended
                            /\ m_State'[u] = "Unknown" <=> m_State[u] = "Unknown"
                            /\ m_State'[u] = "Terminated" <=> m_State[u] = "Terminated"
  BY <1>3 DEF InWait, Ended
<1>6. NoLimits'
  BY <1>0, <1>1, <1>3 DEF NoLimits
<1>7. BlockTypes'
  BY <1>0, <1>4 DEF BlockTypes
<1>8. EachItsBlock'
  BY <1>0, <1>1, <1>3, <1>4, <1>5 DEF EachItsBlock
<1>9. LivingOwns'
  <2>1. \A u \in Task : m_State'[u] \notin Ended => u # t /\ m_State[u] \notin Ended
    BY <1>3, <1>5 DEF Ended
  <2>2. \A u \in Task \ {t} : m_State[u] \notin Ended => userData[u] # userData[t]
    BY <1>0, <1>4 DEF EachItsBlock, Ended
  <2>3. \A u \in Task \ {t} : m_bState'[u] = m_bState[u]
    BY <1>2 DEF Waitable
  <2>4. \A u \in Task : m_State'[u] \notin Ended =>
          /\ userData[u] \in allocated \ ended' /\ ~terminated[userData[u]]
          /\ taskobj[userData[u]] \in {u, NULL} /\ ~m_bState'[u]
    BY <1>0, <2>1, <2>2, <2>3 DEF LivingOwns
  <2>5. \A u \in Task : m_State'[u] = "Terminated" => userData[u] \in ended'
    BY <1>0, <1>5 DEF LivingOwns
  <2>6. ASSUME NEW b \in allocated \ ended'
        PROVE  \E u \in Task : m_State'[u] \notin Ended /\ userData[u] = b
    <3>1. PICK u \in Task : m_State[u] \notin Ended /\ userData[u] = b
      BY <1>0, <2>6 DEF LivingOwns
    <3>2. u # t
      BY <2>6, <3>1
    <3> QED
      BY <1>5, <3>1, <3>2
  <2> QED
    BY <2>4, <2>5, <2>6 DEF LivingOwns
<1>10. JoinsWait'
  <2>1. \A u \in Task : joining[u] # NULL => u # t /\ pc'[u] = pc[u]
    BY <1>1 DEF TypeOK
  <2>2. ASSUME NEW u \in Task, joining[u] # NULL, joining[u] \notin ended'
        PROVE  WaitsForEnd(u)'
    <3>1. joining[u] \in allocated \ ended /\ WaitsForEnd(u) /\ u # t
      BY <1>0, <2>1, <2>2 DEF JoinsWait
    <3>2. PICK v \in Task : m_State[v] \notin Ended /\ userData[v] = joining[u]
      BY <1>0, <3>1 DEF LivingOwns
    <3>3. taskobj[joining[u]] \in {v, NULL} /\ taskobj[joining[u]] \in Task
      BY <1>0, <3>1, <3>2 DEF LivingOwns, WaitsForEnd
    <3>4. v # t /\ NULL \notin Task
      BY <2>2, <3>2, SchedulerAssumption DEF SchedulerAssumption
    <3>5. waitEvent[u] # t
      BY <3>1, <3>3, <3>4 DEF WaitsForEnd
    <3>6. u \notin m_WaitList[t]
      BY <3>5 DEF Sound, WaitsSound, ListedIsWaiting, Waitable
    <3> QED
      BY <1>1, <1>3, <2>1, <2>2, <3>1, <3>6 DEF WaitsForEnd
  <2> QED
    BY <1>0, <1>5, <2>1, <2>2 DEF JoinsWait
<1> QED
  BY <1>6, <1>7, <1>8, <1>9, <1>10 DEF ThreadSound

\* Every step that does not stop the system keeps the invariant.
LEMMA NextThreads ==
  ASSUME ThreadInv, [ThreadNext]_threadSysVars
  PROVE  ThreadInv'
<1> SUFFICES ASSUME panic' = "none"
             PROVE  IInv' /\ (~reused' => ThreadSound')
  BY DEF ThreadInv
<1>1. panic = "none" /\ IInv /\ IInv' /\ TypeOK /\ Sound
  BY ThreadsAreTasks, StepSound DEF ThreadInv, IInv
<1> SUFFICES ASSUME ~reused'
             PROVE  ThreadSound'
  BY <1>1
<1>2. ~reused
  BY DEF ThreadNext, ThreadOther, pthread_create, pthread_join, JoinEnds, ThreadReturns,
         pthread_exit, threadSysVars, threadVars, blocks
<1>3. ThreadSound
  BY <1>1, <1>2 DEF ThreadInv
<1>4. CASE UNCHANGED threadSysVars
  <2>1. /\ UNCHANGED <<m_State, m_bState, m_iSuspendNewTasks, m_pCurrent, cpu, pc, waitEvent,
                       waitTicks>>
        /\ UNCHANGED <<allocated, taskobj, ended, terminated, userData, current, joining>>
    BY <1>4 DEF threadSysVars, vars, threadVars, blocks, table, where, events, args
  <2> QED
    BY <1>3, <2>1 DEF ThreadSound, NoLimits, BlockTypes, EachItsBlock, LivingOwns, JoinsWait,
                      WaitsForEnd
<1>5. CASE ThreadOther
  BY <1>1, <1>3, <1>5, OtherThreads
<1>6. ASSUME NEW t \in Task, NEW s \in Task, pthread_create(t, s)
      PROVE  ThreadSound'
  BY <1>1, <1>3, <1>6, CreateThreads
<1>7. ASSUME NEW t \in Task, NEW b \in Thread, pthread_join(t, b)
      PROVE  ThreadSound'
  BY <1>1, <1>3, <1>7, JoinThreads
<1>8. ASSUME NEW t \in Task, JoinEnds(t)
      PROVE  ThreadSound'
  BY <1>3, <1>8, JoinEndsThreads
<1>9. ASSUME NEW t \in Task, ThreadReturns(t) \/ pthread_exit(t)
      PROVE  ThreadSound'
  <2>1. /\ Terminate(t) /\ joining[t] = NULL /\ ended' = ended \cup {userData[t]}
        /\ UNCHANGED <<allocated, taskobj, terminated, userData, current, joining>>
    <3>1. CASE ThreadReturns(t)
      BY <3>1 DEF ThreadReturns, InThread
    <3>2. CASE pthread_exit(t)
      <4>1. /\ Terminate(taskobj[current]) /\ joining[t] = NULL /\ m_pCurrent = t
            /\ ended' = ended \cup {current}
            /\ UNCHANGED <<allocated, taskobj, terminated, userData, current, joining>>
        BY <3>2 DEF pthread_exit, InThread, Running
      <4>2. taskobj[current] = t
        BY <4>1 DEF Terminate, Calling, Running
      <4>3. current = userData[t]
        BY <1>3, <4>1 DEF ThreadSound, EachItsBlock
      <4> QED
        BY <4>1, <4>2, <4>3
    <3> QED
      BY <1>9, <3>1, <3>2
  <2> QED
    BY <1>1, <1>3, <2>1, EndThreads
<1> QED
  BY <1>4, <1>5, <1>6, <1>7, <1>8, <1>9 DEF ThreadNext

LEMMA ThreadsAlways == ThreadSpec => []ThreadInv
  BY InitThreads, NextThreads, PTL DEF ThreadSpec

\* A thread that lives has a block of its own, not marked as terminated, and
\* "current" is that of the thread on the processor, as long as no block is
\* allocated again while the task of its old thread is still to be deleted
\* (pthread_create, pthread_exit, task_termination_handler,
\* task_switch_handler).
THEOREM BlocksAreOwned == ThreadSpec => []ThreadsOwnBlocks
<1>1. ThreadInv => ThreadsOwnBlocks
  BY DEF ThreadInv, ThreadSound, EachItsBlock, LivingOwns, ThreadsOwnBlocks, Lives, Ended
<1> QED
  BY <1>1, ThreadsAlways, PTL

\* pthread_join() returns only after its thread has ended, with the same
\* exception: it frees no block a thread still runs on (pthread_join,
\* task_termination_handler).
THEOREM JoinReturnsAfterEnd == ThreadSpec => JoinAfterEnd
<1> DEFINE Fine == \A t \in Task : joining[t] # NULL /\ joining'[t] = NULL =>
                     joining[t] \in ended \/ reused
<1>1. ThreadInv /\ [ThreadNext]_threadSysVars => [Fine]_threadSysVars
  <2> SUFFICES ASSUME ThreadInv, [ThreadNext]_threadSysVars, ~reused,
                      NEW t \in Task, joining[t] # NULL, joining'[t] = NULL
               PROVE  joining[t] \in ended
    OBVIOUS
  <2>1. PICK u \in Task : \/ JoinEnds(u)
                          \/ \E b \in Thread : pthread_join(u, b)
    <3>1. joining' # joining
      OBVIOUS
    <3> QED
      BY <3>1 DEF ThreadNext, ThreadOther, pthread_create, ThreadReturns, pthread_exit,
                  threadSysVars, threadVars, blocks
  <2>2. panic = "none" /\ ThreadSound
    BY <2>1 DEF JoinEnds, pthread_join, InThread, Running, ThreadInv
  <2>3. joining \in [Task -> Thread \cup {NULL}] /\ NULL \notin Thread
    BY <2>2, ThreadAssumption DEF ThreadSound, BlockTypes, ThreadAssumption
  <2>4. ~ \E b \in Thread : pthread_join(u, b)
    BY <2>3 DEF pthread_join
  <2>5. u = t
    BY <2>1, <2>3, <2>4 DEF JoinEnds
  <2> QED
    BY <2>1, <2>2, <2>4, <2>5, JoinEndsThreads
<1> QED
  BY <1>1, ThreadsAlways, PTL DEF ThreadSpec, JoinAfterEnd

=============================================================================
