------------------------------ MODULE Scheduler ------------------------------
(***************************************************************************)
(* Circle's cooperative scheduler (lib/sched/scheduler.cpp) together with   *)
(* the tasks (task.cpp) and the synchronization events they block on        *)
(* (synchronizationevent.cpp), on the single core this tree is built for.   *)
(*                                                                         *)
(* Tasks never preempt each other: one step of this module is the code the  *)
(* current task executes between two points at which an interrupt can be    *)
(* noticed.  Interrupts are taken everywhere except under m_SpinLock, which *)
(* is why each critical section is one step and why Wait and BlockTask, or  *)
(* two iterations of GetNextTask's loop, are not.                           *)
(***************************************************************************)
EXTENDS Integers, FiniteSets

CONSTANTS Task,        \* the addresses a CTask object can live at
          Main,        \* the task that boots the system; never terminates
          Event,       \* CSynchronizationEvent objects of the program
          SetInitially,\* those constructed with bState = TRUE
          IrqEvent,    \* those an interrupt handler calls Set() on
          MAX_TASKS,   \* number of slots of m_pTask
          ClockWrap,   \* CTimer's clock counts modulo this, 2^32 in the code
          Delays,      \* the sleep times and timeouts tasks ask for, in ticks
          MaxNesting,  \* bound on nested SuspendNewTasks() calls
          Calls,       \* the operations the program's tasks make use of
          NULL

ASSUME SchedulerAssumption ==
  /\ Main \in Task /\ NULL \notin Task
  /\ Event \cap Task = {} /\ NULL \notin Event
  /\ SetInitially \subseteq Event /\ IrqEvent \subseteq Event
  /\ MAX_TASKS \in Nat \ {0}
  /\ ClockWrap \in Nat \ {0}
  /\ Delays \subseteq 1 .. ClockWrap - 1
  /\ MaxNesting \in Nat

VARIABLES
  m_pTask,             \* the task table; a removed task leaves a hole
  m_nTasks,            \* number of leading slots in use, holes included
  m_pCurrent,          \* the task on the processor
  m_nCurrent,          \* its slot, or MAX_TASKS after a fruitless scan
  m_iSuspendNewTasks,
  m_State, m_bSuspended, m_nWakeTicks,     \* fields of each CTask
  m_bState, m_WaitList,                    \* fields of each event; a task's
                                           \* m_Event is found under the task
  clock,               \* CTimer::GetClockTicks()
  cpu,                 \* "task", or the place in Yield()/GetNextTask()
  pc,                  \* where each task is, or resumes, outside Yield()
  nTask, nLoop, nTicks,                    \* the locals of GetNextTask()
  waitEvent, waitTicks,                    \* the arguments of a pending Wait
  panic                \* the assertion or panic that stopped the system

\* History: the time really left until each deadline, and whether WakeTasks
\* has ended the wait a task is in.
VARIABLES due, signalled

table == <<m_pTask, m_nTasks, m_iSuspendNewTasks>>
where == <<m_pCurrent, m_nCurrent>>
events == <<m_bState, m_WaitList>>
locals == <<nTask, nLoop, nTicks>>
args == <<waitEvent, waitTicks>>
history == <<due, signalled>>
vars == <<table, where, m_State, m_bSuspended, m_nWakeTicks, events, clock,
          cpu, pc, locals, args, panic, history>>

Waitable == Event \cup Task
TaskState == {"New", "Ready", "Blocked", "BlockedWithTimeout", "Sleeping",
              "Terminated", "Unknown"}
Timed == {"BlockedWithTimeout", "Sleeping"}
InWait == {"Blocked", "BlockedWithTimeout"}
Slots == 0 .. m_nTasks - 1

\* CScheduler::IsValidTask
IsValidTask(p) == \E i \in Slots : m_pTask[i] = p

\* Only the main task exists, in slot 0, and it is running.
Init ==
  /\ m_pTask = [i \in 0 .. MAX_TASKS - 1 |-> IF i = 0 THEN Main ELSE NULL]
  /\ m_nTasks = 1
  /\ m_pCurrent = Main /\ m_nCurrent = 0 /\ m_iSuspendNewTasks = 0
  /\ m_State = [t \in Task |-> IF t = Main THEN "Ready" ELSE "Unknown"]
  /\ m_bSuspended = [t \in Task |-> FALSE]
  /\ m_nWakeTicks = [t \in Task |-> 0]
  /\ m_bState = [w \in Waitable |-> w \in SetInitially]
  /\ m_WaitList = [w \in Waitable |-> {}]
  /\ clock = 0
  /\ cpu = "task" /\ pc = [t \in Task |-> "run"]
  /\ nTask = 0 /\ nLoop = 1 /\ nTicks = 0
  /\ waitEvent = [t \in Task |-> NULL] /\ waitTicks = [t \in Task |-> 0]
  /\ panic = "none"
  /\ due = [t \in Task |-> 0] /\ signalled = [t \in Task |-> FALSE]

-----------------------------------------------------------------------------
(* CScheduler::GetNextTask and CScheduler::Yield                            *)

\* Mutant: the scan always starts at the same slot.
ScanStart_FromZero ==
  /\ panic = "none" /\ cpu = "yield"
  /\ nTask' = 0 /\ nTicks' = clock /\ nLoop' = 1
  /\ cpu' = "scan"
  /\ UNCHANGED <<table, where, m_State, m_bSuspended, m_nWakeTicks, events,
                 clock, pc, args, panic, history>>

\* The loop of Yield() enters GetNextTask(), which starts after m_nCurrent.
ScanStart ==
  /\ panic = "none" /\ cpu = "yield"
  /\ nTask' = IF m_nCurrent < MAX_TASKS THEN m_nCurrent ELSE 0
  /\ nTicks' = clock
  /\ nLoop' = 1
  /\ cpu' = "scan"
  /\ UNCHANGED <<table, where, m_State, m_bSuspended, m_nWakeTicks, events,
                 clock, pc, args, panic, history>>

\* The slot the next iteration looks at.
NextSlot == IF nTask + 1 >= m_nTasks THEN 0 ELSE nTask + 1

\* Mutant: the deadline is compared as a plain number.
Expired_Unsigned(wake) == wake <= nTicks

\* (int) (wake - now) <= 0, in the width of the clock
Expired(wake) ==
  LET left == (wake - nTicks) % ClockWrap
  IN  left = 0 \/ left >= ClockWrap \div 2

Scanning == panic = "none" /\ cpu = "scan" /\ nLoop <= m_nTasks

\* Mutants: timed waits are taken for untimed ones; terminated tasks are left.
PassesOver_NoTimeout(p) ==
  p = NULL \/ (p # NULL /\ m_State[p] \notin {"Ready", "Sleeping", "Terminated"})
PassesOver_Terminated(p) ==
  p = NULL \/ (p # NULL /\ m_State[p] # "Ready")

\* The loop passes over holes, suspended tasks and tasks that must wait.
PassesOver(p) ==
  \/ p = NULL
  \/ /\ p # NULL
     /\ \/ m_bSuspended[p]
        \/ m_State[p] \in {"Blocked", "New"}
        \/ m_State[p] \in Timed /\ ~Expired(m_nWakeTicks[p])

ScanPass ==
  /\ Scanning
  /\ PassesOver(m_pTask[NextSlot])
  /\ nTask' = NextSlot
  /\ nLoop' = nLoop + 1
  /\ UNCHANGED <<table, where, m_State, m_bSuspended, m_nWakeTicks, events,
                 clock, cpu, pc, nTicks, args, panic, history>>

\* GetNextTask() returns, and its locals are gone.
LeaveScan == nTask' = 0 /\ nLoop' = 1 /\ nTicks' = 0

\* GetNextTask() returned a slot: Yield() makes its task the current one.
\* Every task, the old one included, goes on where its pc says.
SwitchTo(slot) ==
  /\ LeaveScan
  /\ m_nCurrent' = slot
  /\ m_pCurrent' = m_pTask[slot]
  /\ cpu' = "task"

ScanReady ==
  LET p == m_pTask[NextSlot]
  IN  /\ Scanning
      /\ ~PassesOver(p) /\ m_State[p] = "Ready"
      /\ SwitchTo(NextSlot)
      /\ UNCHANGED <<table, m_State, m_bSuspended, m_nWakeTicks, events, clock,
                     pc, args, panic, history>>

ScanSleepOver ==
  LET p == m_pTask[NextSlot]
  IN  /\ Scanning
      /\ ~PassesOver(p) /\ m_State[p] = "Sleeping"
      /\ m_State' = [m_State EXCEPT ![p] = "Ready"]
      /\ SwitchTo(NextSlot)
      /\ UNCHANGED <<table, m_bSuspended, m_nWakeTicks, events, clock, pc,
                     args, panic, history>>

\* A timeout is noticed ...
ScanTimeout ==
  LET p == m_pTask[NextSlot]
  IN  /\ Scanning
      /\ ~PassesOver(p) /\ m_State[p] = "BlockedWithTimeout"
      /\ nTask' = NextSlot
      /\ cpu' = "expire"
      /\ UNCHANGED <<table, where, m_State, m_bSuspended, m_nWakeTicks, events,
                     clock, pc, nLoop, nTicks, args, panic, history>>

\* Mutant: the flag that tells a timeout from a wakeup is not set.
ExpireTimeout_NoFlag ==
  LET p == m_pTask[nTask]
  IN  /\ panic = "none" /\ cpu = "expire"
      /\ m_State' = [m_State EXCEPT ![p] = "Ready"]
      /\ SwitchTo(nTask)
      /\ UNCHANGED <<table, m_bSuspended, m_nWakeTicks, events, clock, pc, args,
                     panic, history>>

\* ... and acted upon: outside the lock, so an interrupt may have woken the
\* task in between.
ExpireTimeout ==
  LET p == m_pTask[nTask]
  IN  /\ panic = "none" /\ cpu = "expire"
      /\ m_State' = [m_State EXCEPT ![p] = "Ready"]
      /\ m_nWakeTicks' = [m_nWakeTicks EXCEPT ![p] = 0]
      /\ SwitchTo(nTask)
      /\ UNCHANGED <<table, m_bSuspended, events, clock, pc, args,
                     panic, history>>

\* Mutant: the table shrinks with every removal.
RemoveTask_AlwaysShrinks(p) ==
  \E i \in Slots :
    /\ m_pTask[i] = p
    /\ m_pTask' = [m_pTask EXCEPT ![i] = NULL]
    /\ m_nTasks' = m_nTasks - 1

\* CScheduler::RemoveTask
RemoveTask(p) ==
  \E i \in Slots :
    /\ m_pTask[i] = p
    /\ \A j \in 0 .. i - 1 : m_pTask[j] # p
    /\ m_pTask' = [m_pTask EXCEPT ![i] = NULL]
    /\ m_nTasks' = IF i = m_nTasks - 1 THEN m_nTasks - 1 ELSE m_nTasks

\* A terminated task is deleted, and GetNextTask() reports "none found".
ScanDelete ==
  LET p == m_pTask[NextSlot]
  IN  /\ Scanning
      /\ ~PassesOver(p) /\ m_State[p] = "Terminated"
      /\ RemoveTask(p)
      /\ m_State' = [m_State EXCEPT ![p] = "Unknown"]
      /\ m_nCurrent' = MAX_TASKS
      /\ LeaveScan /\ cpu' = "yield"
      /\ UNCHANGED <<m_iSuspendNewTasks, m_pCurrent, m_bSuspended, m_nWakeTicks,
                     events, clock, pc, args, panic, history>>

\* Nobody is ready: Yield() loops.
ScanNone ==
  /\ panic = "none" /\ cpu = "scan" /\ nLoop > m_nTasks
  /\ m_nCurrent' = MAX_TASKS
  /\ LeaveScan /\ cpu' = "yield"
  /\ UNCHANGED <<table, m_pCurrent, m_State, m_bSuspended, m_nWakeTicks, events,
                 clock, pc, args, panic, history>>

YieldStep == \/ ScanStart \/ ScanPass \/ ScanReady \/ ScanSleepOver
             \/ ScanTimeout \/ ExpireTimeout \/ ScanDelete \/ ScanNone

-----------------------------------------------------------------------------
(* Waiting and waking                                                       *)

Running(t) == panic = "none" /\ cpu = "task" /\ m_pCurrent = t

\* Mutant: the list is not detached.
WakeTasks_KeepsList(w, state) ==
  /\ m_State' = [t \in Task |->
                   IF t \in m_WaitList[w] THEN "Ready" ELSE state[t]]
  /\ signalled' = [t \in Task |-> signalled[t] \/ t \in m_WaitList[w]]
  /\ UNCHANGED <<m_WaitList, panic>>

\* CScheduler::WakeTasks, with the task states as they are when it is called;
\* its assertion stops the system when a task on the list is not blocked.
WakeTasks(w, state) ==
  IF \A t \in m_WaitList[w] : state[t] \in InWait
  THEN /\ m_WaitList' = [m_WaitList EXCEPT ![w] = {}]
       /\ m_State' = [t \in Task |->
                        IF t \in m_WaitList[w] THEN "Ready" ELSE state[t]]
       /\ signalled' = [t \in Task |-> signalled[t] \/ t \in m_WaitList[w]]
       /\ UNCHANGED panic
  ELSE /\ panic' = "Tried to wake non-blocked task"
       /\ m_State' = state
       /\ UNCHANGED <<m_WaitList, signalled>>

\* Mutant: only the flag is set.
SetEvent_NoWake(w, state) ==
  /\ ~m_bState[w]
  /\ m_bState' = [m_bState EXCEPT ![w] = TRUE]
  /\ m_State' = state
  /\ UNCHANGED <<m_WaitList, signalled, panic>>

\* CSynchronizationEvent::Set on an event that is clear
SetEvent(w, state) ==
  /\ ~m_bState[w]
  /\ m_bState' = [m_bState EXCEPT ![w] = TRUE]
  /\ WakeTasks(w, state)

\* Mutant: the state of the event is not looked at.
BeginWait_NoCheck(t, w, us) ==
  /\ pc' = [pc EXCEPT ![t] = "wait"]
  /\ waitEvent' = [waitEvent EXCEPT ![t] = w]
  /\ waitTicks' = [waitTicks EXCEPT ![t] = us]

\* Wait and WaitWithTimeout look at m_bState outside the lock.
BeginWait(t, w, us) ==
  /\ ~m_bState[w]
  /\ pc' = [pc EXCEPT ![t] = "wait"]
  /\ waitEvent' = [waitEvent EXCEPT ![t] = w]
  /\ waitTicks' = [waitTicks EXCEPT ![t] = us]

\* Mutant: the deadline is left as the last wait or sleep set it.
BlockTask_StaleTicks(t) ==
  LET w == waitEvent[t]
      us == waitTicks[t]
  IN  /\ Running(t) /\ pc[t] = "wait"
      /\ m_WaitList' = [m_WaitList EXCEPT ![w] = @ \cup {t}]
      /\ m_State' = [m_State EXCEPT ![t] = IF us = 0 THEN "Blocked"
                                            ELSE "BlockedWithTimeout"]
      /\ due' = [due EXCEPT ![t] = us]
      /\ pc' = [pc EXCEPT ![t] = "unblock"]
      /\ cpu' = "yield"
      /\ UNCHANGED <<table, where, m_bSuspended, m_nWakeTicks, m_bState, clock,
                     locals, args, panic, signalled>>

\* CScheduler::BlockTask up to its call of Yield: the first critical section
BlockTask(t) ==
  LET w == waitEvent[t]
      us == waitTicks[t]
  IN  /\ Running(t) /\ pc[t] = "wait"
      /\ m_WaitList' = [m_WaitList EXCEPT ![w] = @ \cup {t}]
      /\ IF us = 0
         THEN /\ m_State' = [m_State EXCEPT ![t] = "Blocked"]
              /\ UNCHANGED <<m_nWakeTicks, due>>
         ELSE /\ m_State' = [m_State EXCEPT ![t] = "BlockedWithTimeout"]
              /\ m_nWakeTicks' =
                   [m_nWakeTicks EXCEPT ![t] = (clock + us) % ClockWrap]
              /\ due' = [due EXCEPT ![t] = us]
      /\ pc' = [pc EXCEPT ![t] = "unblock"]
      /\ cpu' = "yield"
      /\ UNCHANGED <<table, where, m_bSuspended, m_bState, clock, locals, args,
                     panic, signalled>>

\* Mutant: a task that timed out is not taken off the list.
Unblock_NoRemove(t) ==
  /\ Running(t) /\ pc[t] = "unblock"
  /\ pc' = [pc EXCEPT ![t] = "run"]
  /\ waitEvent' = [waitEvent EXCEPT ![t] = NULL]
  /\ waitTicks' = [waitTicks EXCEPT ![t] = 0]
  /\ due' = [due EXCEPT ![t] = 0]
  /\ signalled' = [signalled EXCEPT ![t] = FALSE]
  /\ UNCHANGED <<table, where, m_State, m_bSuspended, m_nWakeTicks, events,
                 clock, cpu, locals, panic>>

\* BlockTask after its call of Yield: the second critical section, and the
\* return to the caller
Unblock(t) ==
  LET w == waitEvent[t]
  IN  /\ Running(t) /\ pc[t] = "unblock"
      /\ m_WaitList' = [m_WaitList EXCEPT ![w] = @ \ {t}]
      /\ pc' = [pc EXCEPT ![t] = "run"]
      /\ waitEvent' = [waitEvent EXCEPT ![t] = NULL]
      /\ waitTicks' = [waitTicks EXCEPT ![t] = 0]
      /\ due' = [due EXCEPT ![t] = 0]
      /\ signalled' = [signalled EXCEPT ![t] = FALSE]
      /\ UNCHANGED <<table, where, m_State, m_bSuspended, m_nWakeTicks, m_bState,
                     clock, cpu, locals, panic>>

\* What BlockTask, and WaitWithTimeout after it, is about to return: TRUE if
\* timed out, with m_nWakeTicks used as the flag.
ReturnsTimeout(t) == m_nWakeTicks[t] = 0

-----------------------------------------------------------------------------
(* The calls of a task.  "run" is its own code; a call is guarded by the    *)
(* assertions the callee makes about its caller.                            *)

Calling(t, call) == Running(t) /\ pc[t] = "run" /\ call \in Calls

Yield(t) ==
  /\ Calling(t, "Yield")
  /\ cpu' = "yield"
  /\ UNCHANGED <<table, where, m_State, m_bSuspended, m_nWakeTicks, events,
                 clock, pc, locals, args, panic, history>>

usSleep(t, us) ==
  /\ Calling(t, "Sleep")
  /\ m_nWakeTicks' = [m_nWakeTicks EXCEPT ![t] = (clock + us) % ClockWrap]
  /\ due' = [due EXCEPT ![t] = us]
  /\ m_State' = [m_State EXCEPT ![t] = "Sleeping"]
  /\ cpu' = "yield"
  /\ UNCHANGED <<table, where, m_bSuspended, events, clock, pc, locals, args,
                 panic, signalled>>

Wait(t, e) ==
  /\ Calling(t, "Wait")
  /\ BeginWait(t, e, 0)
  /\ UNCHANGED <<table, where, m_State, m_bSuspended, m_nWakeTicks, events,
                 clock, cpu, locals, panic, history>>

WaitWithTimeout(t, e, us) ==
  /\ Calling(t, "WaitWithTimeout")
  /\ BeginWait(t, e, us)
  /\ UNCHANGED <<table, where, m_State, m_bSuspended, m_nWakeTicks, events,
                 clock, cpu, locals, panic, history>>

\* The termination event of s is only looked at while s is in the table.
WaitForTermination(t, s) ==
  /\ Calling(t, "WaitForTermination")
  /\ t # s /\ IsValidTask(s)
  /\ BeginWait(t, s, 0)
  /\ UNCHANGED <<table, where, m_State, m_bSuspended, m_nWakeTicks, events,
                 clock, cpu, locals, panic, history>>

Set(t, e) ==
  /\ Calling(t, "Set")
  /\ SetEvent(e, m_State)
  /\ UNCHANGED <<table, where, m_bSuspended, m_nWakeTicks, clock, cpu, pc,
                 locals, args, due>>

Clear(t, e) ==
  /\ Calling(t, "Clear")
  /\ m_bState' = [m_bState EXCEPT ![e] = FALSE]
  /\ UNCHANGED <<table, where, m_State, m_bSuspended, m_nWakeTicks, m_WaitList,
                 clock, cpu, pc, locals, args, panic, history>>

\* Mutant: the task ends without marking itself terminated.
Terminate_NotMarked(t) ==
  /\ Calling(t, "Terminate")
  /\ t # Main
  /\ SetEvent(t, m_State)
  /\ pc' = [pc EXCEPT ![t] = "dead"]
  /\ cpu' = "yield"
  /\ UNCHANGED <<table, where, m_bSuspended, m_nWakeTicks, clock, locals, args,
                 due>>

\* CTask::Terminate, and the end of CTask::TaskEntry
Terminate(t) ==
  /\ Calling(t, "Terminate")
  /\ t # Main
  /\ SetEvent(t, [m_State EXCEPT ![t] = "Terminated"])
  /\ pc' = [pc EXCEPT ![t] = "dead"]
  /\ cpu' = "yield"
  /\ UNCHANGED <<table, where, m_bSuspended, m_nWakeTicks, clock, locals, args,
                 due>>

\* Mutant: the limit of the table is not checked.
AddTask_NoLimit(s) ==
  LET holes == {i \in Slots : m_pTask[i] = NULL}
  IN  /\ UNCHANGED panic
      /\ \/ \E i \in holes : /\ m_pTask' = [m_pTask EXCEPT ![i] = s]
                             /\ UNCHANGED m_nTasks
         \/ /\ holes = {}
            /\ m_pTask' = [m_pTask EXCEPT ![m_nTasks] = s]
            /\ m_nTasks' = m_nTasks + 1

\* CScheduler::AddTask: the first hole, or a further slot
AddTask(s) ==
  LET holes == {i \in Slots : m_pTask[i] = NULL}
  IN  \/ \E i \in holes :
           /\ \A j \in holes : i <= j
           /\ m_pTask' = [m_pTask EXCEPT ![i] = s]
           /\ UNCHANGED <<m_nTasks, panic>>
      \/ /\ holes = {} /\ m_nTasks < MAX_TASKS
         /\ m_pTask' = [m_pTask EXCEPT ![m_nTasks] = s]
         /\ m_nTasks' = m_nTasks + 1
         /\ UNCHANGED panic
      \/ /\ holes = {} /\ m_nTasks >= MAX_TASKS
         /\ panic' = "System limit of tasks exceeded"
         /\ UNCHANGED <<m_pTask, m_nTasks>>

\* new CTask: the address may be that of a task deleted before
Create(t, s, bCreateSuspended) ==
  /\ Calling(t, "Create")
  /\ m_State[s] = "Unknown"
  /\ AddTask(s)
  /\ m_State' = [m_State EXCEPT ![s] =
                   IF bCreateSuspended \/ m_iSuspendNewTasks > 0
                   THEN "New" ELSE "Ready"]
  /\ m_bSuspended' = [m_bSuspended EXCEPT ![s] = FALSE]
  /\ m_bState' = [m_bState EXCEPT ![s] = FALSE]
  /\ m_WaitList' = [m_WaitList EXCEPT ![s] = {}]
  /\ pc' = [pc EXCEPT ![s] = "run"]
  /\ UNCHANGED <<m_iSuspendNewTasks, where, m_nWakeTicks, clock, cpu, locals,
                 args, history>>

\* CTask::Start, of a new task or (as Resume) of a suspended one
Start(t, s) ==
  /\ Calling(t, "Start")
  /\ IsValidTask(s)
  /\ \/ /\ m_State[s] = "New"
        /\ m_State' = [m_State EXCEPT ![s] = "Ready"]
        /\ UNCHANGED m_bSuspended
     \/ /\ m_State[s] # "New" /\ m_bSuspended[s]
        /\ m_bSuspended' = [m_bSuspended EXCEPT ![s] = FALSE]
        /\ UNCHANGED m_State
  /\ UNCHANGED <<table, where, m_nWakeTicks, events, clock, cpu, pc, locals,
                 args, panic, history>>

Suspend(t, s) ==
  /\ Calling(t, "Suspend")
  /\ IsValidTask(s)
  /\ m_State[s] # "New" /\ ~m_bSuspended[s]
  /\ m_bSuspended' = [m_bSuspended EXCEPT ![s] = TRUE]
  /\ UNCHANGED <<table, where, m_State, m_nWakeTicks, events, clock, cpu, pc,
                 locals, args, panic, history>>

SuspendNewTasks(t) ==
  /\ Calling(t, "SuspendNewTasks")
  /\ m_iSuspendNewTasks < MaxNesting
  /\ m_iSuspendNewTasks' = m_iSuspendNewTasks + 1
  /\ UNCHANGED <<m_pTask, m_nTasks, where, m_State, m_bSuspended, m_nWakeTicks,
                 events, clock, cpu, pc, locals, args, panic, history>>

\* The last of nested calls starts every task that is still new.
ResumeNewTasks(t) ==
  /\ Calling(t, "SuspendNewTasks")
  /\ m_iSuspendNewTasks > 0
  /\ m_iSuspendNewTasks' = m_iSuspendNewTasks - 1
  /\ m_State' = [s \in Task |->
                   IF m_iSuspendNewTasks = 1 /\ m_State[s] = "New"
                      /\ IsValidTask(s)
                   THEN "Ready" ELSE m_State[s]]
  /\ UNCHANGED <<m_pTask, m_nTasks, where, m_bSuspended, m_nWakeTicks, events,
                 clock, cpu, pc, locals, args, panic, history>>

-----------------------------------------------------------------------------
(* Interrupts                                                               *)

\* An interrupt handler sets an event, whatever the current task is doing.
IrqSet(e) ==
  /\ panic = "none"
  /\ SetEvent(e, m_State)
  /\ UNCHANGED <<table, where, m_bSuspended, m_nWakeTicks, clock, cpu, pc,
                 locals, args, due>>

\* The clock runs on.  A deadline is looked at within half a turn of the
\* clock after it passed (35 minutes): no task keeps the processor longer.
Tick ==
  /\ panic = "none" /\ Delays # {}
  /\ \A t \in Task : m_State[t] \in Timed =>
       (m_nWakeTicks[t] - clock) % ClockWrap # ClockWrap \div 2
  /\ clock' = (clock + 1) % ClockWrap
  /\ due' = [t \in Task |-> IF due[t] > 0 THEN due[t] - 1 ELSE 0]
  /\ UNCHANGED <<table, where, m_State, m_bSuspended, m_nWakeTicks, events, cpu,
                 pc, locals, args, panic, signalled>>

\* An assertion or a panic stops the system for good.
Halted == panic # "none" /\ UNCHANGED vars

Irq == Tick \/ \E e \in IrqEvent : IrqSet(e)

WaitStep == \E t \in Task : BlockTask(t) \/ Unblock(t)

Call(t) ==
  \/ Yield(t)
  \/ \E us \in Delays : usSleep(t, us)
  \/ \E e \in Event : Wait(t, e) \/ Set(t, e) \/ Clear(t, e)
  \/ \E e \in Event, us \in Delays : WaitWithTimeout(t, e, us)
  \/ Terminate(t)
  \/ \E s \in Task : \/ WaitForTermination(t, s)
                     \/ \E b \in BOOLEAN : Create(t, s, b)
                     \/ Start(t, s) \/ Suspend(t, s)
  \/ SuspendNewTasks(t) \/ ResumeNewTasks(t)

Next == YieldStep \/ WaitStep \/ (\E t \in Task : Call(t)) \/ Irq \/ Halted

Spec == Init /\ [][Next]_vars

\* The processor never stops, the clock runs, and every task that gets to run
\* again and again yields again and again, as cooperation requires.
Fairness ==
  /\ WF_vars(YieldStep \/ WaitStep)
  /\ WF_vars(Tick)
  /\ \A t \in Task : SF_vars(Yield(t))

FairSpec == Spec /\ Fairness

-----------------------------------------------------------------------------
(* Correctness                                                              *)

\* Every variable stays in its range.
TypeOK ==
  /\ m_pTask \in [0 .. MAX_TASKS - 1 -> Task \cup {NULL}]
  /\ m_nTasks \in 0 .. MAX_TASKS
  /\ m_pCurrent \in Task /\ m_nCurrent \in 0 .. MAX_TASKS
  /\ m_iSuspendNewTasks \in 0 .. MaxNesting
  /\ m_State \in [Task -> TaskState]
  /\ m_bSuspended \in [Task -> BOOLEAN]
  /\ m_nWakeTicks \in [Task -> 0 .. ClockWrap - 1]
  /\ m_bState \in [Waitable -> BOOLEAN]
  /\ m_WaitList \in [Waitable -> SUBSET Task]
  /\ clock \in 0 .. ClockWrap - 1
  /\ cpu \in {"task", "yield", "scan", "expire"}
  /\ pc \in [Task -> {"run", "wait", "unblock", "dead"}]
  /\ nTask \in 0 .. MAX_TASKS - 1
  /\ nLoop \in 1 .. MAX_TASKS + 1
  /\ nTicks \in 0 .. ClockWrap - 1
  /\ waitEvent \in [Task -> Waitable \cup {NULL}]
  /\ waitTicks \in [Task -> Delays \cup {0}]
  /\ panic \in {"none", "Tried to wake non-blocked task",
                "System limit of tasks exceeded"}
  /\ due \in [Task -> Nat]
  /\ signalled \in [Task -> BOOLEAN]

\* The task table holds every living task exactly once and no deleted one,
\* however creation, holes, deletion and the shrinking of m_nTasks mix
\* (AddTask, RemoveTask, the delete in GetNextTask).
TableOK ==
  panic = "none" =>
    /\ \A i \in Slots : m_pTask[i] # NULL => m_State[m_pTask[i]] # "Unknown"
    /\ \A t \in Task : m_State[t] # "Unknown" => IsValidTask(t)
    /\ \A i, j \in Slots : m_pTask[i] = m_pTask[j] /\ m_pTask[i] # NULL => i = j

\* A task is on a wait list exactly while that event can wake it: whoever is
\* blocked is on the list of the event it waits for, the termination event of
\* a deleted task has nobody left on it, and a task on a list is blocked or
\* has timed out and not run since (BlockTask, WakeTasks, ExpireTimeout).
WaitListOK ==
  panic = "none" =>
    /\ \A t \in Task : m_State[t] \in InWait =>
         /\ waitEvent[t] \in Waitable
         /\ t \in m_WaitList[waitEvent[t]]
    /\ \A w \in Waitable : \A t \in m_WaitList[w] :
         /\ waitEvent[t] = w /\ pc[t] = "unblock"
         /\ \/ m_State[t] \in InWait
            \/ m_State[t] = "Ready" /\ waitTicks[t] > 0 /\ m_nWakeTicks[t] = 0
    /\ \A s \in Task : m_WaitList[s] # {} => m_State[s] \notin {"Terminated", "Unknown"}

\* The task that executes outside Yield() is ready, as usSleep() and
\* BlockTask() assert, and it never gets past the final Yield() of a
\* terminated task, as the assert(0) behind it says.
RunningIsReady ==
  panic = "none" /\ cpu = "task" =>
    m_State[m_pCurrent] = "Ready" /\ pc[m_pCurrent] # "dead"

\* A task never stays blocked on an event that is set: Set() would do nothing
\* for it any more.
SetEventHasNoBlockedTask ==
  \A w \in Waitable : m_bState[w] =>
    \A t \in m_WaitList[w] : m_State[t] \notin InWait

\* WakeTasks() finds none but blocked tasks on a wait list, as it asserts.
WokenTasksAreBlocked == panic # "Tried to wake non-blocked task"

\* WaitWithTimeout() returns because of the event or because of the time, and
\* when it denies a timeout it was the event.
NoSpuriousReturn ==
  \A t \in Task : Running(t) /\ pc[t] = "unblock" =>
    /\ signalled[t] \/ (waitTicks[t] > 0 /\ due[t] = 0)
    /\ waitTicks[t] > 0 /\ ~ReturnsTimeout(t) => signalled[t]

\* "TRUE if timed out" (synchronizationevent.h): a reported timeout means that
\* the time has elapsed, except that a deadline which is 0 on the clock looks
\* like the flag for it (BlockTask, ExpireTimeout).
TimeoutMeansElapsed ==
  \A t \in Task : Running(t) /\ pc[t] = "unblock" /\ waitTicks[t] > 0 =>
    (ReturnsTimeout(t) => due[t] = 0 \/ (clock + due[t]) % ClockWrap = 0)

\* Nobody gets up before its time, in spite of the clock turning over, unless
\* an event woke it (the signed comparison in GetNextTask).
NoEarlyWakeup ==
  [][\A t \in Task : m_State[t] \in Timed /\ m_State'[t] = "Ready" =>
       due[t] = 0 \/ (signalled'[t] /\ m_State[t] = "BlockedWithTimeout")]_vars

\* Round robin: a task that is ready gets the processor, although every
\* deletion and every idle scan restarts the scan at a fixed slot, which passes
\* over a third task (GetNextTask), unless an assertion fails first.
ReadyTaskRuns ==
  \A t \in Task : m_State[t] = "Ready" /\ ~m_bSuspended[t]
                  ~> (m_pCurrent = t /\ cpu = "task") \/ panic # "none"

\* A terminated task is deleted.
TerminatedTaskIsDeleted ==
  \A t \in Task : m_State[t] = "Terminated" ~> m_State[t] = "Unknown"

\* Whoever waits with a time limit, or sleeps, runs again.
TimedWaitEnds ==
  \A t \in Task : m_State[t] \in Timed ~> m_pCurrent = t /\ cpu = "task"

\* Whoever waits for a task that ends returns from WaitForTermination.
TerminationWakesWaiter ==
  \A t \in Task :
    (pc[t] = "unblock" /\ \E s \in Task : /\ waitEvent[t] = s
                                         /\ m_State[s] = "Terminated")
      ~> pc[t] = "run"

=============================================================================
