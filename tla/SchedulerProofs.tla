--------------------------- MODULE SchedulerProofs ---------------------------
(***************************************************************************)
(* Proofs about Circle's scheduler, for any number of tasks, events, table  *)
(* slots and any width of the clock.  One inductive invariant, IInv, is     *)
(* shown for the types, the task table, the places the processor and the    *)
(* tasks are at, and the wait lists, one kind of step after the other; then   *)
(* an invariant on top of it for the deadlines of waits with a time limit.   *)
(***************************************************************************)
EXTENDS Scheduler, TLAPS

-----------------------------------------------------------------------------
(* Types                                                                    *)

\* A deadline computed from the clock is one the clock reaches.
LEMMA ClockTurns ==
  ASSUME NEW n \in Int
  PROVE  n % ClockWrap \in 0 .. ClockWrap - 1
  BY SchedulerAssumption

\* The boot state is well typed.
LEMMA InitTypes == Init => TypeOK
  BY SchedulerAssumption DEF Init, TypeOK, TaskState, Waitable

\* The numbers among the variables and constants
LEMMA Numbers ==
  ASSUME TypeOK
  PROVE  /\ MAX_TASKS \in Nat /\ MAX_TASKS > 0 /\ MaxNesting \in Nat
         /\ m_nTasks \in Nat /\ m_nTasks <= MAX_TASKS
         /\ nTask \in Nat /\ nTask < MAX_TASKS
         /\ nLoop \in Nat /\ nLoop > 0
         /\ ClockWrap \in Nat /\ ClockWrap > 0 /\ clock \in Nat
         /\ m_iSuspendNewTasks \in Nat /\ m_iSuspendNewTasks <= MaxNesting
         /\ Delays \subseteq Nat
<1>1. /\ MAX_TASKS \in Nat \ {0} /\ MaxNesting \in Nat /\ ClockWrap \in Nat \ {0}
      /\ Delays \subseteq 1 .. ClockWrap - 1
  BY SchedulerAssumption
<1>2. /\ m_nTasks \in 0 .. MAX_TASKS /\ nTask \in 0 .. MAX_TASKS - 1
      /\ nLoop \in 1 .. MAX_TASKS + 1 /\ clock \in 0 .. ClockWrap - 1
      /\ m_iSuspendNewTasks \in 0 .. MaxNesting
  BY DEF TypeOK
<1> QED
  BY <1>1, <1>2

\* The steps of GetNextTask() stay in range: no slot outside m_pTask is looked
\* at, although m_nCurrent may be MAX_TASKS and m_nTasks shrinks.
LEMMA ScanTypes ==
  ASSUME TypeOK, cpu = "expire" => m_pTask[nTask] \in Task, YieldStep
  PROVE  TypeOK'
<1> USE DEF table, where, events, locals, args, history
<1>1. CASE ScanStart
  BY <1>1, SchedulerAssumption DEF TypeOK, ScanStart
<1>0. NextSlot \in 0 .. MAX_TASKS - 1
  BY Numbers DEF NextSlot
<1>2. CASE ScanPass
  <2>1. nLoop <= m_nTasks /\ nLoop' = nLoop + 1
    BY <1>2 DEF ScanPass, Scanning
  <2>2. nLoop' \in 1 .. MAX_TASKS + 1
    BY <2>1, Numbers
  <2> QED
    BY <1>2, <1>0, <2>2 DEF ScanPass, Scanning, TypeOK
<1>3. CASE ScanReady
  BY <1>3, <1>0, SchedulerAssumption
     DEF TypeOK, ScanReady, Scanning, PassesOver, SwitchTo, LeaveScan
<1>4. CASE ScanSleepOver
  BY <1>4, <1>0, SchedulerAssumption
     DEF TypeOK, ScanSleepOver, Scanning, PassesOver, SwitchTo, LeaveScan, TaskState
<1>5. CASE ScanTimeout
  BY <1>5, <1>0 DEF TypeOK, ScanTimeout, Scanning
<1>6. CASE ExpireTimeout
  BY <1>6, SchedulerAssumption DEF TypeOK, ExpireTimeout, SwitchTo, LeaveScan, TaskState
<1>7. CASE ScanDelete
  BY <1>7, <1>0, SchedulerAssumption
     DEF TypeOK, ScanDelete, Scanning, RemoveTask, LeaveScan, TaskState, PassesOver, Slots
<1>8. CASE ScanNone
  BY <1>8, SchedulerAssumption DEF TypeOK, ScanNone, LeaveScan
<1> QED
  BY <1>1, <1>2, <1>3, <1>4, <1>5, <1>6, <1>7, <1>8 DEF YieldStep

\* Setting an event stores values of the right types.
LEMMA WakeTypes ==
  ASSUME TypeOK, NEW w, NEW state \in [Task -> TaskState], SetEvent(w, state)
  PROVE  /\ m_bState' \in [Waitable -> BOOLEAN]
         /\ m_WaitList' \in [Waitable -> SUBSET Task]
         /\ m_State' \in [Task -> TaskState]
         /\ signalled' \in [Task -> BOOLEAN]
         /\ panic' \in {panic, "Tried to wake non-blocked task"}
  BY DEF TypeOK, SetEvent, WakeTasks, TaskState

\* So do the two halves of BlockTask,
LEMMA WaitTypes ==
  ASSUME TypeOK, NEW t \in Task, BlockTask(t) \/ Unblock(t)
  PROVE  TypeOK'
<1> USE DEF table, where, events, locals, args, history
<1>1. waitTicks[t] \in Nat /\ clock \in Nat
  <2>1. waitTicks[t] \in Delays \cup {0}
    BY DEF TypeOK
  <2> QED
    BY <2>1, Numbers
<1>2. (clock + waitTicks[t]) % ClockWrap \in 0 .. ClockWrap - 1
  BY <1>1, ClockTurns
<1>3. CASE BlockTask(t)
  BY <1>1, <1>2, <1>3 DEF BlockTask, TaskState, TypeOK
<1>4. CASE Unblock(t)
  BY <1>4 DEF Unblock, TypeOK
<1> QED
  BY <1>3, <1>4

\* the interrupts
LEMMA IrqTypes ==
  ASSUME TypeOK, Irq
  PROVE  TypeOK'
<1> USE DEF table, where, events, locals, args, history
<1>1. CASE Tick
  <2>1. (clock + 1) % ClockWrap \in 0 .. ClockWrap - 1
    BY ClockTurns, Numbers
  <2>2. due' \in [Task -> Nat]
    <3>1. /\ due \in [Task -> Nat]
          /\ due' = [u \in Task |-> IF due[u] > 0 THEN due[u] - 1 ELSE 0]
      BY <1>1 DEF Tick, TypeOK
    <3> QED
      BY <3>1
  <2> QED
    BY <1>1, <2>1, <2>2 DEF Tick, TypeOK
<1>2. ASSUME NEW e \in IrqEvent, IrqSet(e)
      PROVE  TypeOK'
  <2>1. SetEvent(e, m_State) /\ m_State \in [Task -> TaskState]
    BY <1>2 DEF IrqSet, TypeOK
  <2> QED
    BY <1>2, <2>1, WakeTypes DEF IrqSet, TypeOK
<1> QED
  BY <1>1, <1>2 DEF Irq

\* and the calls of a task: AddTask never fills more than MAX_TASKS slots.
LEMMA CallTypes ==
  ASSUME TypeOK, NEW t \in Task, Call(t)
  PROVE  TypeOK'
<1> USE DEF table, where, events, locals, args, history
<1>1. CASE Yield(t)
  BY <1>1 DEF Yield, TypeOK
<1>2. ASSUME NEW us \in Delays, usSleep(t, us)
      PROVE  TypeOK'
  <2>1. us \in Nat /\ (clock + us) % ClockWrap \in 0 .. ClockWrap - 1
    BY ClockTurns, Numbers
  <2> QED
    BY <1>2, <2>1 DEF usSleep, TypeOK, TaskState
<1>3. ASSUME NEW w \in Waitable, NEW us \in Delays \cup {0}, BeginWait(t, w, us),
             UNCHANGED <<table, where, m_State, m_bSuspended, m_nWakeTicks,
                         events, clock, cpu, locals, panic, history>>
      PROVE  TypeOK'
  BY <1>3 DEF BeginWait, TypeOK
<1>4. ASSUME NEW e \in Event, Wait(t, e) \/ \E us \in Delays : WaitWithTimeout(t, e, us)
      PROVE  TypeOK'
  BY <1>3, <1>4 DEF Wait, WaitWithTimeout, Waitable
<1>5. ASSUME NEW s \in Task, WaitForTermination(t, s)
      PROVE  TypeOK'
  BY <1>3, <1>5 DEF WaitForTermination, Waitable
<1>6. ASSUME NEW e \in Event, Set(t, e)
      PROVE  TypeOK'
  <2>1. SetEvent(e, m_State) /\ m_State \in [Task -> TaskState]
    BY <1>6 DEF Set, TypeOK
  <2> QED
    BY <1>6, <2>1, WakeTypes DEF Set, TypeOK
<1>7. ASSUME NEW e \in Event, Clear(t, e)
      PROVE  TypeOK'
  BY <1>7 DEF Clear, TypeOK
<1>8. CASE Terminate(t)
  <2>1. /\ SetEvent(t, [m_State EXCEPT ![t] = "Terminated"])
        /\ [m_State EXCEPT ![t] = "Terminated"] \in [Task -> TaskState]
    BY <1>8 DEF Terminate, TypeOK, TaskState
  <2> QED
    BY <1>8, <2>1, WakeTypes DEF Terminate, TypeOK
<1>9. ASSUME NEW s \in Task, NEW b \in BOOLEAN, Create(t, s, b)
      PROVE  TypeOK'
  <2>1. AddTask(s)
    BY <1>9 DEF Create
  <2>2. \/ m_nTasks' = m_nTasks
        \/ m_nTasks' = m_nTasks + 1 /\ m_nTasks < MAX_TASKS
    BY <2>1 DEF AddTask
  <2>3. m_nTasks' \in 0 .. MAX_TASKS
    BY <2>2, Numbers
  <2>4. /\ m_pTask' \in [0 .. MAX_TASKS - 1 -> Task \cup {NULL}]
        /\ panic' \in {panic, "System limit of tasks exceeded"}
    BY <2>1 DEF AddTask, TypeOK
  <2> QED
    BY <1>9, <2>3, <2>4 DEF Create, TypeOK, TaskState
<1>10. ASSUME NEW s \in Task, Start(t, s) \/ Suspend(t, s)
       PROVE  TypeOK'
  BY <1>10 DEF Start, Suspend, TypeOK, TaskState
<1>11. CASE SuspendNewTasks(t)
  <2>1. m_iSuspendNewTasks < MaxNesting /\ m_iSuspendNewTasks' = m_iSuspendNewTasks + 1
    BY <1>11 DEF SuspendNewTasks
  <2>2. m_iSuspendNewTasks' \in 0 .. MaxNesting
    BY <2>1, Numbers
  <2> QED
    BY <1>11, <2>2 DEF SuspendNewTasks, TypeOK
<1>12. CASE ResumeNewTasks(t)
  <2>1. m_iSuspendNewTasks > 0 /\ m_iSuspendNewTasks' = m_iSuspendNewTasks - 1
    BY <1>12 DEF ResumeNewTasks
  <2>2. m_iSuspendNewTasks' \in 0 .. MaxNesting
    BY <2>1, Numbers
  <2> QED
    BY <1>12, <2>2 DEF ResumeNewTasks, TypeOK, TaskState
<1> QED
  BY <1>1, <1>2, <1>4, <1>5, <1>6, <1>7, <1>8, <1>9, <1>10, <1>11, <1>12 DEF Call

-----------------------------------------------------------------------------
(* The task table                                                           *)

\* The table holds the tasks that are not deleted, each in one slot.
TableSound ==
  /\ \A t \in Task : IsValidTask(t) <=> m_State[t] # "Unknown"
  /\ \A i, j \in Slots : m_pTask[i] = m_pTask[j] /\ m_pTask[i] # NULL => i = j

\* Where the processor is, and where the tasks are, goes with their states.
PlacesSound ==
  /\ cpu = "expire" => /\ nTask \in Slots /\ m_pTask[nTask] \in Task
                       /\ m_State[m_pTask[nTask]] \in {"BlockedWithTimeout", "Ready"}
  /\ cpu = "task" => m_State[m_pCurrent] = "Ready"
  /\ \A t \in Task : pc[t] = "dead" => m_State[t] \in {"Terminated", "Unknown"}
  /\ \A t \in Task : pc[t] = "wait" => cpu = "task" /\ m_pCurrent = t

\* Nothing but the states of tasks changes, and none is created or deleted.
LEMMA TableKept ==
  ASSUME TableSound, m_pTask' = m_pTask, m_nTasks' = m_nTasks,
         \A t \in Task : m_State'[t] = "Unknown" <=> m_State[t] = "Unknown"
  PROVE  TableSound'
  BY DEF TableSound, IsValidTask, Slots

\* A step that wakes an event wakes blocked tasks only, and no others.
LEMMA WakesBlocked ==
  ASSUME NEW w, NEW state, SetEvent(w, state), panic = "none", panic' = "none"
  PROVE  /\ m_WaitList' = [m_WaitList EXCEPT ![w] = {}]
         /\ m_bState' = [m_bState EXCEPT ![w] = TRUE]
         /\ \A t \in m_WaitList[w] : state[t] \in InWait
         /\ m_State' = [t \in Task |-> IF t \in m_WaitList[w] THEN "Ready" ELSE state[t]]
  BY DEF SetEvent, WakeTasks

\* AddTask puts the task into one slot that was free.
LEMMA AddsOne ==
  ASSUME TypeOK, NEW s \in Task, AddTask(s), panic = "none", panic' = "none"
  PROVE  \E i \in 0 .. MAX_TASKS - 1 :
            /\ i \in Slots => m_pTask[i] = NULL
            /\ m_pTask' = [m_pTask EXCEPT ![i] = s]
            /\ Slots' = Slots \cup {i}
<1>1. CASE \E i \in Slots : /\ m_pTask[i] = NULL
                            /\ m_pTask' = [m_pTask EXCEPT ![i] = s]
                            /\ m_nTasks' = m_nTasks
  <2>1. Slots' = Slots /\ Slots \subseteq 0 .. MAX_TASKS - 1
    BY <1>1, Numbers DEF Slots
  <2> QED
    BY <1>1, <2>1, ZenonT(60)
<1>2. CASE /\ m_nTasks < MAX_TASKS
           /\ m_pTask' = [m_pTask EXCEPT ![m_nTasks] = s]
           /\ m_nTasks' = m_nTasks + 1
  <2>1. /\ m_nTasks \in 0 .. MAX_TASKS - 1 /\ m_nTasks \notin Slots
        /\ Slots' = Slots \cup {m_nTasks}
    BY <1>2, Numbers DEF Slots
  <2> QED
    BY <1>2, <2>1
<1> QED
  BY <1>1, <1>2 DEF AddTask

\* RemoveTask empties the one slot of the task.
LEMMA RemovesOne ==
  ASSUME TypeOK, TableSound, NEW p \in Task, RemoveTask(p)
  PROVE  \E i \in Slots : /\ m_pTask[i] = p
                          /\ m_pTask' = [m_pTask EXCEPT ![i] = NULL]
                          /\ Slots \ {i} \subseteq Slots' /\ Slots' \subseteq Slots
<1>1. PICK i \in Slots : /\ m_pTask[i] = p
                         /\ m_pTask' = [m_pTask EXCEPT ![i] = NULL]
                         /\ m_nTasks' = IF i = m_nTasks - 1 THEN m_nTasks - 1 ELSE m_nTasks
  BY DEF RemoveTask
<1>2. m_nTasks' = IF i = m_nTasks - 1 THEN m_nTasks - 1 ELSE m_nTasks
  BY <1>1
<1>3. Slots \ {i} \subseteq Slots' /\ Slots' \subseteq Slots
  BY <1>2, Numbers DEF Slots
<1> QED
  BY <1>1, <1>3

\* Creation and deletion
LEMMA TableAdds ==
  ASSUME TypeOK, TableSound, NEW s \in Task, m_State[s] = "Unknown", AddTask(s),
         panic = "none", panic' = "none",
         m_State'[s] # "Unknown", \A t \in Task \ {s} : m_State'[t] = m_State[t]
  PROVE  TableSound'
<1>1. PICK i \in 0 .. MAX_TASKS - 1 :
            /\ i \in Slots => m_pTask[i] = NULL
            /\ m_pTask' = [m_pTask EXCEPT ![i] = s]
            /\ Slots' = Slots \cup {i}
  BY AddsOne
<1>2. s \notin {m_pTask[j] : j \in Slots} /\ s # NULL
  BY SchedulerAssumption DEF TableSound, IsValidTask
<1>3. /\ m_pTask'[i] = s
      /\ \A j \in Slots' : j # i => j \in Slots /\ m_pTask'[j] = m_pTask[j]
      /\ \A j \in Slots : m_pTask[j] # NULL => j # i /\ m_pTask'[j] = m_pTask[j]
  BY <1>1 DEF TypeOK
<1>4. \A t \in Task : IsValidTask(t)' <=> t = s \/ IsValidTask(t)
  BY <1>1, <1>2, <1>3, SchedulerAssumption DEF IsValidTask
<1>5. \A j, k \in Slots' : m_pTask'[j] = m_pTask'[k] /\ m_pTask'[j] # NULL => j = k
  BY <1>1, <1>2, <1>3 DEF TableSound
<1> QED
  BY <1>4, <1>5 DEF TableSound

LEMMA TableRemoves ==
  ASSUME TypeOK, TableSound, NEW p \in Task, RemoveTask(p),
         m_State' = [m_State EXCEPT ![p] = "Unknown"]
  PROVE  TableSound'
<1>1. PICK i \in Slots : /\ m_pTask[i] = p
                         /\ m_pTask' = [m_pTask EXCEPT ![i] = NULL]
                         /\ Slots \ {i} \subseteq Slots' /\ Slots' \subseteq Slots
  BY RemovesOne
<1>2. Slots \subseteq 0 .. MAX_TASKS - 1
  BY Numbers DEF Slots
<1>3. /\ m_pTask'[i] = NULL
      /\ \A j \in Slots' : j # i => m_pTask'[j] = m_pTask[j]
  BY <1>1, <1>2 DEF TypeOK
<1>4. \A t \in Task : IsValidTask(t)' <=> t # p /\ IsValidTask(t)
  BY <1>1, <1>3, SchedulerAssumption DEF IsValidTask, TableSound
<1>5. \A j, k \in Slots' : m_pTask'[j] = m_pTask'[k] /\ m_pTask'[j] # NULL => j = k
  BY <1>1, <1>3 DEF TableSound
<1>6. \A t \in Task : m_State'[t] = "Unknown" <=> t = p \/ m_State[t] = "Unknown"
  BY DEF TypeOK
<1> QED
  BY <1>4, <1>5, <1>6 DEF TableSound

\* The steps of Yield() and GetNextTask() keep the table and the places.
LEMMA ScanTable ==
  ASSUME TypeOK, TableSound, PlacesSound, YieldStep
  PROVE  TableSound' /\ PlacesSound'
<1> USE DEF table, where, events, locals, args, history
<1>0. NextSlot \in 0 .. MAX_TASKS - 1 /\ (Scanning => NextSlot \in Slots)
  <2>1. Scanning => m_nTasks > 0
    BY Numbers DEF Scanning
  <2> QED
    BY <2>1, Numbers DEF NextSlot, Slots
<1>1. CASE ScanStart
  BY <1>1, TableKept DEF ScanStart, PlacesSound
<1>2. CASE ScanPass
  BY <1>2, TableKept DEF ScanPass, Scanning, PlacesSound
<1>3. CASE ScanReady
  BY <1>3, TableKept DEF ScanReady, Scanning, SwitchTo, PlacesSound
<1>4. CASE ScanSleepOver
  <2> DEFINE p == m_pTask[NextSlot]
  <2>1. p \in Task /\ m_State[p] = "Sleeping" /\ m_State' = [m_State EXCEPT ![p] = "Ready"]
    BY <1>0, <1>4 DEF ScanSleepOver, PassesOver, TypeOK
  <2>2. TableSound'
    BY <1>4, <2>1, TableKept DEF ScanSleepOver, TypeOK
  <2> QED
    BY <1>4, <2>1, <2>2 DEF ScanSleepOver, Scanning, SwitchTo, PlacesSound, TypeOK
<1>5. CASE ScanTimeout
  <2>1. PlacesSound'
    BY <1>0, <1>5 DEF ScanTimeout, Scanning, PassesOver, PlacesSound, Slots, TypeOK
  <2> QED
    BY <1>5, <2>1, TableKept DEF ScanTimeout
<1>6. CASE ExpireTimeout
  <2> DEFINE p == m_pTask[nTask]
  <2>1. /\ p \in Task /\ m_State[p] \in {"BlockedWithTimeout", "Ready"}
        /\ m_State' = [m_State EXCEPT ![p] = "Ready"]
    BY <1>6 DEF ExpireTimeout, PlacesSound
  <2>2. TableSound'
    BY <1>6, <2>1, TableKept DEF ExpireTimeout, TypeOK
  <2> QED
    BY <1>6, <2>1, <2>2 DEF ExpireTimeout, SwitchTo, PlacesSound, TypeOK
<1>7. CASE ScanDelete
  <2> DEFINE p == m_pTask[NextSlot]
  <2>1. /\ p \in Task /\ RemoveTask(p) /\ m_State[p] = "Terminated"
        /\ m_State' = [m_State EXCEPT ![p] = "Unknown"]
    BY <1>0, <1>7 DEF ScanDelete, PassesOver, TypeOK
  <2>2. TableSound'
    BY <2>1, TableRemoves
  <2> QED
    BY <1>7, <2>1, <2>2 DEF ScanDelete, Scanning, PlacesSound, TypeOK
<1>8. CASE ScanNone
  BY <1>8, TableKept DEF ScanNone, PlacesSound
<1> QED
  BY <1>1, <1>2, <1>3, <1>4, <1>5, <1>6, <1>7, <1>8 DEF YieldStep

\* So do the two halves of BlockTask.
LEMMA WaitTable ==
  ASSUME TypeOK, TableSound, PlacesSound, NEW t \in Task, BlockTask(t) \/ Unblock(t)
  PROVE  TableSound' /\ PlacesSound'
<1> USE DEF table, where, events, locals, args, history
<1>1. CASE BlockTask(t)
  <2>1. /\ m_State[t] = "Ready"
        /\ m_State' \in {[m_State EXCEPT ![t] = "Blocked"],
                        [m_State EXCEPT ![t] = "BlockedWithTimeout"]}
    BY <1>1 DEF BlockTask, Running, PlacesSound
  <2>2. TableSound'
    BY <1>1, <2>1, TableKept DEF BlockTask, TypeOK
  <2> QED
    BY <1>1, <2>1, <2>2 DEF BlockTask, Running, PlacesSound, TypeOK
<1>2. CASE Unblock(t)
  BY <1>2, TableKept DEF Unblock, Running, PlacesSound, TypeOK
<1> QED
  BY <1>1, <1>2

\* A step that sets an event keeps them, too.
LEMMA WakeTable ==
  ASSUME TypeOK, TableSound, NEW w, NEW state \in [Task -> TaskState],
         SetEvent(w, state), panic = "none", panic' = "none",
         \A t \in Task : state[t] = "Unknown" <=> m_State[t] = "Unknown",
         m_pTask' = m_pTask, m_nTasks' = m_nTasks
  PROVE  TableSound'
<1>1. \A t \in Task : m_State'[t] = "Unknown" <=> state[t] = "Unknown"
  BY WakesBlocked DEF InWait
<1> QED
  BY <1>1, TableKept

LEMMA IrqTable ==
  ASSUME TypeOK, TableSound, PlacesSound, Irq, panic' = "none"
  PROVE  TableSound' /\ PlacesSound'
<1> USE DEF table, where, events, locals, args, history
<1>1. CASE Tick
  BY <1>1, TableKept DEF Tick, PlacesSound, Slots
<1>2. ASSUME NEW e \in IrqEvent, IrqSet(e)
      PROVE  TableSound' /\ PlacesSound'
  <2>1. SetEvent(e, m_State) /\ panic = "none" /\ m_State \in [Task -> TaskState]
    BY <1>2 DEF IrqSet, TypeOK
  <2>2. TableSound'
    BY <1>2, <2>1, WakeTable DEF IrqSet
  <2>3. \A t \in Task : m_State'[t] # m_State[t] =>
          m_State[t] \in InWait /\ m_State'[t] = "Ready"
    BY <2>1, WakesBlocked
  <2> QED
    BY <1>2, <2>2, <2>3 DEF IrqSet, PlacesSound, InWait, Slots, TypeOK
<1> QED
  BY <1>1, <1>2 DEF Irq

\* And so does every call of a task.
LEMMA CallTable ==
  ASSUME TypeOK, TableSound, PlacesSound, NEW t \in Task, Call(t), panic' = "none"
  PROVE  TableSound' /\ PlacesSound'
<1> USE DEF table, where, events, locals, args, history
<1>1. CASE Yield(t)
  BY <1>1, TableKept DEF Yield, Calling, Running, PlacesSound
<1>2. ASSUME NEW us \in Delays, usSleep(t, us)
      PROVE  TableSound' /\ PlacesSound'
  <2>1. m_State[t] = "Ready" /\ m_State' = [m_State EXCEPT ![t] = "Sleeping"]
    BY <1>2 DEF usSleep, Calling, Running, PlacesSound
  <2>2. TableSound'
    BY <1>2, <2>1, TableKept DEF usSleep, TypeOK
  <2> QED
    BY <1>2, <2>1, <2>2 DEF usSleep, Calling, Running, PlacesSound, TypeOK
<1>3. ASSUME Running(t), NEW w, NEW us, BeginWait(t, w, us),
             UNCHANGED <<table, where, m_State, m_bSuspended, m_nWakeTicks,
                         events, clock, cpu, locals, panic, history>>
      PROVE  TableSound' /\ PlacesSound'
  BY <1>3, TableKept DEF Running, BeginWait, PlacesSound, TypeOK
<1>4. ASSUME NEW e \in Event, Wait(t, e) \/ \E us \in Delays : WaitWithTimeout(t, e, us)
      PROVE  TableSound' /\ PlacesSound'
  BY <1>3, <1>4 DEF Wait, WaitWithTimeout, Calling
<1>5. ASSUME NEW s \in Task, WaitForTermination(t, s)
      PROVE  TableSound' /\ PlacesSound'
  BY <1>3, <1>5 DEF WaitForTermination, Calling
<1>6. ASSUME NEW e \in Event, Set(t, e)
      PROVE  TableSound' /\ PlacesSound'
  <2>1. SetEvent(e, m_State) /\ panic = "none" /\ m_State \in [Task -> TaskState]
    BY <1>6 DEF Set, Calling, Running, TypeOK
  <2>2. TableSound'
    BY <1>6, <2>1, WakeTable DEF Set
  <2>3. \A u \in Task : m_State'[u] # m_State[u] =>
          m_State[u] \in InWait /\ m_State'[u] = "Ready"
    BY <2>1, WakesBlocked
  <2> QED
    BY <1>6, <2>2, <2>3 DEF Set, PlacesSound, InWait, Slots, TypeOK
<1>7. ASSUME NEW e \in Event, Clear(t, e)
      PROVE  TableSound' /\ PlacesSound'
  BY <1>7, TableKept DEF Clear, Calling, Running, PlacesSound
<1>8. CASE Terminate(t)
  <2> DEFINE state == [m_State EXCEPT ![t] = "Terminated"]
  <2>1. /\ SetEvent(t, state) /\ panic = "none" /\ state \in [Task -> TaskState]
        /\ m_State[t] = "Ready" /\ state[t] = "Terminated"
        /\ \A u \in Task \ {t} : state[u] = m_State[u]
    BY <1>8 DEF Terminate, Calling, Running, PlacesSound, TypeOK, TaskState
  <2> HIDE DEF state
  <2>2. TableSound'
    BY <1>8, <2>1, WakeTable DEF Terminate
  <2>3. \A u \in Task : m_State'[u] # state[u] =>
          state[u] \in InWait /\ m_State'[u] = "Ready"
    BY <2>1, WakesBlocked
  <2> QED
    BY <1>8, <2>1, <2>2, <2>3, ZenonT(60)
       DEF Terminate, Calling, Running, PlacesSound, InWait, TypeOK
<1>9. ASSUME NEW s \in Task, NEW b \in BOOLEAN, Create(t, s, b)
      PROVE  TableSound' /\ PlacesSound'
  <2>1. /\ AddTask(s) /\ panic = "none" /\ m_State[s] = "Unknown"
        /\ m_State'[s] \in {"New", "Ready"}
        /\ \A u \in Task \ {s} : m_State'[u] = m_State[u]
        /\ m_State[t] = "Ready"
    BY <1>9 DEF Create, Calling, Running, PlacesSound, TypeOK
  <2>2. TableSound'
    BY <2>1, TableAdds
  <2> QED
    BY <1>9, <2>1, <2>2 DEF Create, Calling, Running, PlacesSound, TypeOK
<1>10. ASSUME NEW s \in Task, Start(t, s) \/ Suspend(t, s)
       PROVE  TableSound' /\ PlacesSound'
  <2>1. \A u \in Task : m_State'[u] # m_State[u] =>
          m_State[u] = "New" /\ m_State'[u] = "Ready"
    BY <1>10 DEF Start, Suspend, TypeOK
  <2>2. TableSound'
    BY <1>10, <2>1, TableKept DEF Start, Suspend
  <2> QED
    BY <1>10, <2>1, <2>2 DEF Start, Suspend, Calling, Running, PlacesSound, TypeOK
<1>11. CASE SuspendNewTasks(t)
  BY <1>11, TableKept DEF SuspendNewTasks, Calling, Running, PlacesSound
<1>12. CASE ResumeNewTasks(t)
  <2>1. \A u \in Task : m_State'[u] # m_State[u] =>
          m_State[u] = "New" /\ m_State'[u] = "Ready"
    BY <1>12 DEF ResumeNewTasks
  <2>2. TableSound'
    BY <1>12, <2>1, TableKept DEF ResumeNewTasks
  <2> QED
    BY <1>12, <2>1, <2>2 DEF ResumeNewTasks, Calling, Running, PlacesSound, TypeOK
<1> QED
  BY <1>1, <1>2, <1>4, <1>5, <1>6, <1>7, <1>8, <1>9, <1>10, <1>11, <1>12 DEF Call

-----------------------------------------------------------------------------
(* The wait lists                                                           *)

\* WaitListOK in parts ...
BlockedIsListed ==
  \A t \in Task : m_State[t] \in InWait =>
    waitEvent[t] \in Waitable /\ t \in m_WaitList[waitEvent[t]]

ListedIsWaiting ==
  \A w \in Waitable : \A t \in m_WaitList[w] :
    /\ waitEvent[t] = w /\ pc[t] = "unblock"
    /\ \/ m_State[t] \in InWait
       \/ m_State[t] = "Ready" /\ waitTicks[t] # 0 /\ m_nWakeTicks[t] = 0

Ended == {"Terminated", "Unknown"}

EndedHasNoWaiter ==
  \A s \in Task : m_State[s] \in Ended => m_WaitList[s] = {}

\* ... and what keeps it: a task that is about to block does so on an event
\* that exists, of a task only while that lives; what has ended has set its
\* event, so that nobody waits for it any more; and whoever can time out has
\* said after how long.
WaitIsDue ==
  \A t \in Task : pc[t] = "wait" =>
    /\ waitEvent[t] \in Waitable
    /\ waitEvent[t] \in Task => m_State[waitEvent[t]] \notin Ended

EndedIsSet == \A s \in Task : m_State[s] = "Terminated" => m_bState[s]

LimitIsKnown ==
  \A t \in Task : m_State[t] = "BlockedWithTimeout" => waitTicks[t] # 0

WaitsSound == /\ BlockedIsListed /\ ListedIsWaiting /\ EndedHasNoWaiter
              /\ WaitIsDue /\ EndedIsSet /\ LimitIsKnown

Sound == TableSound /\ PlacesSound /\ WaitsSound

\* Steps that leave events and waits alone, and touch no task that waits, is on
\* a list or has ended.
LEMMA WaitsKept ==
  ASSUME TypeOK, WaitsSound,
         m_WaitList' = m_WaitList, m_bState' = m_bState, waitEvent' = waitEvent,
         waitTicks' = waitTicks, pc' = pc, m_nWakeTicks' = m_nWakeTicks,
         \A t \in Task : m_State'[t] # m_State[t] =>
           /\ m_State[t] \in {"New", "Sleeping"}
           /\ m_State'[t] = "Ready"
  PROVE  WaitsSound'
<1>0. \A w \in Waitable : m_WaitList[w] \subseteq Task
  BY DEF TypeOK
<1>1. BlockedIsListed'
  BY DEF WaitsSound, BlockedIsListed, InWait
<1>2. ListedIsWaiting'
  BY <1>0 DEF WaitsSound, ListedIsWaiting, InWait
<1>3. EndedHasNoWaiter'
  BY DEF WaitsSound, EndedHasNoWaiter, Ended
<1>4. WaitIsDue'
  BY DEF WaitsSound, WaitIsDue, Ended
<1>5. EndedIsSet' /\ LimitIsKnown'
  BY DEF WaitsSound, EndedIsSet, LimitIsKnown
<1> QED
  BY <1>1, <1>2, <1>3, <1>4, <1>5 DEF WaitsSound

\* The steps of GetNextTask() keep the lists: a task that timed out stays on its
\* list, marked by m_nWakeTicks, and one that is deleted has nobody on its own.
LEMMA ScanWaits ==
  ASSUME TypeOK, Sound, YieldStep
  PROVE  WaitsSound'
<1> USE DEF table, where, events, locals, args, history
<1>0. NextSlot \in 0 .. MAX_TASKS - 1
  BY Numbers DEF NextSlot
<1>w. \A w \in Waitable : m_WaitList[w] \subseteq Task
  BY DEF TypeOK
<1>1. CASE ScanStart
  BY <1>1, WaitsKept DEF ScanStart, Sound
<1>2. CASE ScanPass
  BY <1>2, WaitsKept DEF ScanPass, Sound
<1>3. CASE ScanReady
  BY <1>3, WaitsKept DEF ScanReady, Sound
<1>4. CASE ScanSleepOver
  <2> DEFINE p == m_pTask[NextSlot]
  <2>1. p \in Task /\ m_State[p] = "Sleeping" /\ m_State' = [m_State EXCEPT ![p] = "Ready"]
    BY <1>0, <1>4 DEF ScanSleepOver, PassesOver, TypeOK
  <2> QED
    BY <1>4, <2>1, WaitsKept DEF ScanSleepOver, TypeOK, Sound
<1>5. CASE ScanTimeout
  BY <1>5, WaitsKept DEF ScanTimeout, Sound
<1>6. CASE ExpireTimeout
  <2> DEFINE p == m_pTask[nTask]
  <2>1. /\ p \in Task /\ m_State[p] \in {"BlockedWithTimeout", "Ready"}
        /\ m_State' = [m_State EXCEPT ![p] = "Ready"]
        /\ m_nWakeTicks' = [m_nWakeTicks EXCEPT ![p] = 0]
    BY <1>6 DEF ExpireTimeout, PlacesSound, Sound
  <2>2. /\ m_State'[p] = "Ready" /\ m_nWakeTicks'[p] = 0
        /\ \A u \in Task \ {p} : m_State'[u] = m_State[u] /\ m_nWakeTicks'[u] = m_nWakeTicks[u]
    BY <2>1 DEF TypeOK
  <2>3. UNCHANGED <<m_WaitList, m_bState, waitEvent, waitTicks, pc>>
    BY <1>6 DEF ExpireTimeout
  <2> HIDE DEF p
  <2>4. BlockedIsListed'
    BY <2>2, <2>3 DEF Sound, WaitsSound, BlockedIsListed, InWait
  <2>5. ListedIsWaiting'
    BY <1>w, <2>1, <2>2, <2>3 DEF Sound, WaitsSound, ListedIsWaiting, LimitIsKnown, InWait
  <2>6. EndedHasNoWaiter' /\ WaitIsDue' /\ EndedIsSet' /\ LimitIsKnown'
    BY <2>2, <2>3 DEF Sound, WaitsSound, EndedHasNoWaiter, WaitIsDue, EndedIsSet,
                      LimitIsKnown, Ended
  <2> QED
    BY <2>4, <2>5, <2>6 DEF WaitsSound
<1>7. CASE ScanDelete
  <2> DEFINE p == m_pTask[NextSlot]
  <2>1. /\ p \in Task /\ m_State[p] = "Terminated"
        /\ m_State' = [m_State EXCEPT ![p] = "Unknown"]
    BY <1>0, <1>7 DEF ScanDelete, PassesOver, TypeOK
  <2>2. /\ m_State'[p] = "Unknown"
        /\ \A u \in Task \ {p} : m_State'[u] = m_State[u]
    BY <2>1 DEF TypeOK
  <2>3. UNCHANGED <<m_WaitList, m_bState, waitEvent, waitTicks, pc, m_nWakeTicks>>
    BY <1>7 DEF ScanDelete
  <2> HIDE DEF p
  <2>4. BlockedIsListed'
    BY <2>2, <2>3 DEF Sound, WaitsSound, BlockedIsListed, InWait
  <2>5. ListedIsWaiting'
    BY <1>w, <2>1, <2>2, <2>3 DEF Sound, WaitsSound, ListedIsWaiting, InWait
  <2>6. EndedHasNoWaiter' /\ WaitIsDue' /\ EndedIsSet' /\ LimitIsKnown'
    BY <2>1, <2>2, <2>3 DEF Sound, WaitsSound, EndedHasNoWaiter, WaitIsDue, EndedIsSet,
                      LimitIsKnown, Ended
  <2> QED
    BY <2>4, <2>5, <2>6 DEF WaitsSound
<1>8. CASE ScanNone
  BY <1>8, WaitsKept DEF ScanNone, Sound
<1> QED
  BY <1>1, <1>2, <1>3, <1>4, <1>5, <1>6, <1>7, <1>8 DEF YieldStep

\* A task enters the list of its event, and leaves it.
LEMMA WaitWaits ==
  ASSUME TypeOK, Sound, NEW t \in Task, BlockTask(t) \/ Unblock(t)
  PROVE  WaitsSound'
<1> USE DEF table, where, events, locals, args, history
<1> DEFINE w == waitEvent[t]
<1>w. \A v \in Waitable : m_WaitList[v] \subseteq Task
  BY DEF TypeOK
<1>t. Task \subseteq Waitable
  BY DEF Waitable
<1>1. CASE BlockTask(t)
  <2>1. /\ w \in Waitable /\ pc[t] = "wait"
        /\ w \in Task => m_State[w] \notin Ended
    BY <1>1 DEF BlockTask, Sound, WaitsSound, WaitIsDue
  <2>2. UNCHANGED <<waitEvent, waitTicks, m_bState>>
    BY <1>1 DEF BlockTask
  <2>3. /\ pc'[t] = "unblock" /\ m_WaitList'[w] = m_WaitList[w] \cup {t}
        /\ \A u \in Task \ {t} : pc'[u] = pc[u]
        /\ \A v \in Waitable \ {w} : m_WaitList'[v] = m_WaitList[v]
    BY <1>1, <2>1 DEF BlockTask, TypeOK
  <2>4. /\ m_State'[t] \in InWait
        /\ m_State'[t] = "BlockedWithTimeout" => waitTicks[t] # 0
    BY <1>1 DEF BlockTask, TypeOK, InWait
  <2>5. \A u \in Task \ {t} : m_State'[u] = m_State[u] /\ m_nWakeTicks'[u] = m_nWakeTicks[u]
    BY <1>1 DEF BlockTask, TypeOK
  <2> HIDE DEF w
  <2>e. w = waitEvent[t]
    BY DEF w
  <2>6. BlockedIsListed'
    <3> SUFFICES ASSUME NEW u \in Task, m_State'[u] \in InWait
                 PROVE  waitEvent[u] \in Waitable /\ u \in m_WaitList'[waitEvent[u]]
      BY <2>2 DEF BlockedIsListed
    <3> QED
      BY <2>1, <2>3, <2>5, <2>e DEF Sound, WaitsSound, BlockedIsListed
  <2>7. ListedIsWaiting'
    BY <1>w, <2>1, <2>2, <2>3, <2>4, <2>5, <2>e DEF Sound, WaitsSound, ListedIsWaiting
  <2>8. EndedHasNoWaiter'
    BY <1>t, <2>1, <2>3, <2>4, <2>5 DEF Sound, WaitsSound, EndedHasNoWaiter, Ended, InWait
  <2>9. WaitIsDue' /\ EndedIsSet' /\ LimitIsKnown'
    BY <2>2, <2>3, <2>4, <2>5 DEF Sound, WaitsSound, WaitIsDue, EndedIsSet, LimitIsKnown,
                                  Ended, InWait
  <2> QED
    BY <2>6, <2>7, <2>8, <2>9 DEF WaitsSound
<1>2. CASE Unblock(t)
  <2>1. m_State[t] = "Ready"
    BY <1>2 DEF Unblock, Running, Sound, PlacesSound
  <2>2. UNCHANGED <<m_State, m_bState, m_nWakeTicks>>
    BY <1>2 DEF Unblock
  <2>3. /\ pc'[t] = "run"
        /\ \A u \in Task \ {t} : /\ pc'[u] = pc[u] /\ waitEvent'[u] = waitEvent[u]
                                  /\ waitTicks'[u] = waitTicks[u]
    BY <1>2 DEF Unblock, TypeOK
  <2>4. \A v \in Waitable : m_WaitList'[v] = IF v = w THEN m_WaitList[v] \ {t} ELSE m_WaitList[v]
    BY <1>2 DEF Unblock, TypeOK
  <2> HIDE DEF w
  <2>e. w = waitEvent[t]
    BY DEF w
  <2>5. BlockedIsListed'
    BY <2>1, <2>2, <2>3, <2>4 DEF Sound, WaitsSound, BlockedIsListed, InWait
  <2>6. ListedIsWaiting'
    <3> SUFFICES ASSUME NEW v \in Waitable, NEW u \in m_WaitList'[v]
                 PROVE  /\ waitEvent'[u] = v /\ pc'[u] = "unblock"
                        /\ \/ m_State'[u] \in InWait
                           \/ m_State'[u] = "Ready" /\ waitTicks'[u] # 0 /\ m_nWakeTicks'[u] = 0
      BY DEF ListedIsWaiting
    <3>1. u \in m_WaitList[v] /\ u \in Task /\ waitEvent[u] = v
      BY <1>w, <2>4 DEF Sound, WaitsSound, ListedIsWaiting
    <3>2. u # t
      BY <2>4, <2>e, <3>1
    <3> QED
      BY <2>2, <2>3, <3>1, <3>2 DEF Sound, WaitsSound, ListedIsWaiting
  <2>7. EndedHasNoWaiter'
    BY <1>t, <2>2, <2>4 DEF Sound, WaitsSound, EndedHasNoWaiter
  <2>8. WaitIsDue' /\ EndedIsSet' /\ LimitIsKnown'
    BY <2>1, <2>2, <2>3 DEF Sound, WaitsSound, WaitIsDue, EndedIsSet, LimitIsKnown
  <2> QED
    BY <2>5, <2>6, <2>7, <2>8 DEF WaitsSound
<1> QED
  BY <1>1, <1>2

\* What setting an event does to each event and each task
LEMMA WakesPointwise ==
  ASSUME TypeOK, NEW w \in Waitable, NEW state, SetEvent(w, state),
         panic = "none", panic' = "none"
  PROVE  /\ \A v \in Waitable : m_WaitList'[v] = IF v = w THEN {} ELSE m_WaitList[v]
         /\ m_bState'[w] /\ \A v \in Waitable \ {w} : m_bState'[v] = m_bState[v]
         /\ \A u \in Task : u \in m_WaitList[w] => state[u] \in InWait /\ m_State'[u] = "Ready"
         /\ \A u \in Task : u \notin m_WaitList[w] => m_State'[u] = state[u]
<1>1. m_WaitList \in [Waitable -> SUBSET Task] /\ m_bState \in [Waitable -> BOOLEAN]
  BY DEF TypeOK
<1>2. /\ m_WaitList' = [m_WaitList EXCEPT ![w] = {}]
      /\ m_bState' = [m_bState EXCEPT ![w] = TRUE]
      /\ \A t \in m_WaitList[w] : state[t] \in InWait
      /\ m_State' = [t \in Task |-> IF t \in m_WaitList[w] THEN "Ready" ELSE state[t]]
  BY WakesBlocked
<1>3. \A v \in Waitable : m_WaitList'[v] = IF v = w THEN {} ELSE m_WaitList[v]
  BY <1>1, <1>2
<1>4. m_bState'[w] /\ \A v \in Waitable \ {w} : m_bState'[v] = m_bState[v]
  BY <1>1, <1>2
<1>5. \A u \in Task : u \in m_WaitList[w] => state[u] \in InWait /\ m_State'[u] = "Ready"
  BY <1>2
<1>6. \A u \in Task : u \notin m_WaitList[w] => m_State'[u] = state[u]
  BY <1>2
<1> QED
  BY <1>3, <1>4, <1>5, <1>6

\* Setting an event frees the tasks that wait for it, and no others.
LEMMA WakeWaits ==
  ASSUME TypeOK, WaitsSound, NEW w \in Waitable, SetEvent(w, m_State),
         panic = "none", panic' = "none",
         waitEvent' = waitEvent, waitTicks' = waitTicks, pc' = pc,
         m_nWakeTicks' = m_nWakeTicks
  PROVE  WaitsSound'
<1>1. \A v \in Waitable : m_WaitList[v] \subseteq Task
  BY DEF TypeOK
<1>2. Task \subseteq Waitable
  BY DEF Waitable
<1>3. \A u \in Task : m_State'[u] # m_State[u] => m_State[u] \in InWait /\ m_State'[u] = "Ready"
  BY WakesPointwise
<1>4. BlockedIsListed'
  <2> SUFFICES ASSUME NEW u \in Task, m_State'[u] \in InWait
               PROVE  waitEvent[u] \in Waitable /\ u \in m_WaitList'[waitEvent[u]]
    BY DEF BlockedIsListed
  <2>1. u \notin m_WaitList[w] /\ m_State[u] \in InWait
    BY WakesPointwise DEF InWait
  <2> QED
    BY <2>1, WakesPointwise DEF WaitsSound, BlockedIsListed
<1>5. ListedIsWaiting'
  <2> SUFFICES ASSUME NEW v \in Waitable, NEW u \in m_WaitList'[v]
               PROVE  /\ waitEvent[u] = v /\ pc[u] = "unblock"
                      /\ \/ m_State'[u] \in InWait
                         \/ m_State'[u] = "Ready" /\ waitTicks[u] # 0 /\ m_nWakeTicks[u] = 0
    BY DEF ListedIsWaiting
  <2>1. v # w /\ u \in m_WaitList[v] /\ u \in Task
    BY <1>1, WakesPointwise
  <2>2. u \notin m_WaitList[w]
    BY <2>1 DEF WaitsSound, ListedIsWaiting
  <2>3. m_State'[u] = m_State[u]
    BY <2>1, <2>2, WakesPointwise
  <2> QED
    BY <2>1, <2>3 DEF WaitsSound, ListedIsWaiting
<1>6. EndedHasNoWaiter'
  BY <1>2, <1>3, WakesPointwise DEF WaitsSound, EndedHasNoWaiter, Ended, InWait
<1>7. WaitIsDue'
  BY <1>3 DEF WaitsSound, WaitIsDue, Ended
<1>8. EndedIsSet'
  BY <1>2, <1>3, WakesPointwise DEF WaitsSound, EndedIsSet
<1>9. LimitIsKnown'
  BY <1>3 DEF WaitsSound, LimitIsKnown
<1> QED
  BY <1>4, <1>5, <1>6, <1>7, <1>8, <1>9 DEF WaitsSound

\* An interrupt wakes what waits for its event, and nothing else.
LEMMA IrqWaits ==
  ASSUME TypeOK, Sound, Irq, panic' = "none"
  PROVE  WaitsSound'
<1> USE DEF table, where, events, locals, args, history
<1>1. CASE Tick
  BY <1>1, WaitsKept DEF Tick, Sound
<1>2. ASSUME NEW e \in IrqEvent, IrqSet(e)
      PROVE  WaitsSound'
  <2>1. e \in Waitable
    BY SchedulerAssumption DEF Waitable
  <2> QED
    BY <1>2, <2>1, WakeWaits DEF IrqSet, Sound
<1> QED
  BY <1>1, <1>2 DEF Irq

\* A task that ends wakes all who wait for it, and itself waits for nothing.
LEMMA TerminateWaits ==
  ASSUME TypeOK, Sound, NEW t \in Task, Terminate(t), panic' = "none"
  PROVE  WaitsSound'
<1> USE DEF table, where, events, locals, args, history
<1> DEFINE state == [m_State EXCEPT ![t] = "Terminated"]
<1>0. /\ \A v \in Waitable : m_WaitList[v] \subseteq Task
      /\ Task \subseteq Waitable /\ t \in Waitable
  BY DEF TypeOK, Waitable
<1>1. /\ SetEvent(t, state) /\ panic = "none" /\ pc[t] = "run" /\ pc'[t] = "dead"
      /\ \A u \in Task \ {t} : pc'[u] = pc[u] /\ pc[u] # "wait"
      /\ UNCHANGED <<waitEvent, waitTicks, m_nWakeTicks>>
      /\ state[t] = "Terminated" /\ \A u \in Task \ {t} : state[u] = m_State[u]
  BY DEF Terminate, Calling, Running, Sound, PlacesSound, TypeOK
<1> HIDE DEF state
<1>2. \A v \in Waitable : t \notin m_WaitList[v]
  BY <1>1 DEF Sound, WaitsSound, ListedIsWaiting
<1>3. m_State'[t] = "Terminated" /\ m_bState'[t] /\ m_WaitList'[t] = {}
  BY <1>0, <1>1, <1>2, WakesPointwise
<1>4. /\ \A u \in Task \ {t} : m_State'[u] # m_State[u] =>
                               m_State[u] \in InWait /\ m_State'[u] = "Ready"
      /\ \A u \in Task \ {t} : u \in m_WaitList[t] => m_State'[u] = "Ready"
      /\ \A u \in Task \ {t} : u \notin m_WaitList[t] => m_State'[u] = m_State[u]
      /\ \A v \in Waitable \ {t} : m_WaitList'[v] = m_WaitList[v] /\ m_bState'[v] = m_bState[v]
  BY <1>0, <1>1, WakesPointwise
<1>5. BlockedIsListed'
  <2> SUFFICES ASSUME NEW u \in Task, m_State'[u] \in InWait
               PROVE  waitEvent[u] \in Waitable /\ u \in m_WaitList'[waitEvent[u]]
    BY <1>1 DEF BlockedIsListed
  <2>1. u # t /\ u \notin m_WaitList[t] /\ m_State[u] \in InWait
    BY <1>3, <1>4 DEF InWait
  <2> QED
    BY <1>4, <2>1 DEF Sound, WaitsSound, BlockedIsListed
<1>6. ListedIsWaiting'
  <2> SUFFICES ASSUME NEW v \in Waitable, NEW u \in m_WaitList'[v]
               PROVE  /\ waitEvent[u] = v /\ pc'[u] = "unblock"
                      /\ \/ m_State'[u] \in InWait
                         \/ m_State'[u] = "Ready" /\ waitTicks[u] # 0 /\ m_nWakeTicks[u] = 0
    BY <1>1 DEF ListedIsWaiting
  <2>1. v # t /\ u \in m_WaitList[v] /\ u \in Task \ {t}
    BY <1>0, <1>2, <1>3, <1>4
  <2>2. u \notin m_WaitList[t]
    BY <1>0, <2>1 DEF Sound, WaitsSound, ListedIsWaiting
  <2> QED
    BY <1>1, <1>4, <2>1, <2>2 DEF Sound, WaitsSound, ListedIsWaiting
<1>7. EndedHasNoWaiter'
  BY <1>0, <1>3, <1>4 DEF Sound, WaitsSound, EndedHasNoWaiter, Ended, InWait
<1>8. WaitIsDue'
  BY <1>1 DEF WaitIsDue
<1>9. EndedIsSet'
  BY <1>0, <1>3, <1>4 DEF Sound, WaitsSound, EndedIsSet
<1>10. LimitIsKnown'
  BY <1>1, <1>3, <1>4 DEF Sound, WaitsSound, LimitIsKnown
<1> QED
  BY <1>5, <1>6, <1>7, <1>8, <1>9, <1>10 DEF WaitsSound

\* A new task has an event nobody waits for: not even if its address was that
\* of a task that has been deleted.
LEMMA CreateWaits ==
  ASSUME TypeOK, Sound, NEW t \in Task, NEW s \in Task, NEW b \in BOOLEAN,
         Create(t, s, b), panic' = "none"
  PROVE  WaitsSound'
<1> USE DEF table, where, events, locals, args, history
<1>0. /\ \A v \in Waitable : m_WaitList[v] \subseteq Task
      /\ Task \subseteq Waitable /\ s \in Waitable
  BY DEF TypeOK, Waitable
<1>1. /\ m_State[s] = "Unknown" /\ m_State'[s] \in {"New", "Ready"}
      /\ m_WaitList'[s] = {} /\ pc'[s] = "run"
  BY <1>0 DEF Create, TypeOK
<1>2. /\ \A u \in Task \ {s} : m_State'[u] = m_State[u] /\ pc'[u] = pc[u]
      /\ \A v \in Waitable \ {s} : m_WaitList'[v] = m_WaitList[v] /\ m_bState'[v] = m_bState[v]
      /\ UNCHANGED <<waitEvent, waitTicks, m_nWakeTicks>>
  BY DEF Create, TypeOK
<1>3. m_WaitList[s] = {} /\ \A v \in Waitable : s \notin m_WaitList[v]
  BY <1>1 DEF Sound, WaitsSound, EndedHasNoWaiter, ListedIsWaiting, Ended, InWait
<1>4. BlockedIsListed'
  <2> SUFFICES ASSUME NEW u \in Task, m_State'[u] \in InWait
               PROVE  waitEvent[u] \in Waitable /\ u \in m_WaitList'[waitEvent[u]]
    BY <1>2 DEF BlockedIsListed
  <2>1. u # s /\ m_State[u] \in InWait
    BY <1>1, <1>2 DEF InWait
  <2> QED
    BY <1>2, <1>3, <2>1 DEF Sound, WaitsSound, BlockedIsListed
<1>5. ListedIsWaiting'
  <2> SUFFICES ASSUME NEW v \in Waitable, NEW u \in m_WaitList'[v]
               PROVE  /\ waitEvent[u] = v /\ pc'[u] = "unblock"
                      /\ \/ m_State'[u] \in InWait
                         \/ m_State'[u] = "Ready" /\ waitTicks[u] # 0 /\ m_nWakeTicks[u] = 0
    BY <1>2 DEF ListedIsWaiting
  <2>1. u \in m_WaitList[v] /\ u \in Task \ {s}
    BY <1>0, <1>1, <1>2, <1>3
  <2> QED
    BY <1>2, <2>1 DEF Sound, WaitsSound, ListedIsWaiting
<1>6. EndedHasNoWaiter'
  BY <1>0, <1>1, <1>2 DEF Sound, WaitsSound, EndedHasNoWaiter, Ended
<1>7. WaitIsDue'
  BY <1>1, <1>2 DEF Sound, WaitsSound, WaitIsDue, Ended
<1>8. EndedIsSet'
  BY <1>0, <1>1, <1>2 DEF Sound, WaitsSound, EndedIsSet
<1>9. LimitIsKnown'
  BY <1>1, <1>2 DEF Sound, WaitsSound, LimitIsKnown
<1> QED
  BY <1>4, <1>5, <1>6, <1>7, <1>8, <1>9 DEF WaitsSound

\* The calls of a task keep the lists.
LEMMA CallWaits ==
  ASSUME TypeOK, Sound, NEW t \in Task, Call(t), panic' = "none"
  PROVE  WaitsSound'
<1> USE DEF table, where, events, locals, args, history
<1>0. /\ \A v \in Waitable : m_WaitList[v] \subseteq Task
      /\ Task \subseteq Waitable /\ Event \subseteq Waitable
  BY DEF TypeOK, Waitable
<1>1. CASE Yield(t)
  BY <1>1, WaitsKept DEF Yield, Sound
<1>2. ASSUME NEW us \in Delays, usSleep(t, us)
      PROVE  WaitsSound'
  <2>1. /\ m_State[t] = "Ready" /\ m_State'[t] = "Sleeping" /\ pc[t] = "run"
        /\ \A u \in Task \ {t} : m_State'[u] = m_State[u] /\ m_nWakeTicks'[u] = m_nWakeTicks[u]
        /\ UNCHANGED <<m_WaitList, m_bState, pc, waitEvent, waitTicks>>
    BY <1>2 DEF usSleep, Calling, Running, Sound, PlacesSound, TypeOK
  <2>2. BlockedIsListed' /\ EndedHasNoWaiter'
    BY <2>1 DEF Sound, WaitsSound, BlockedIsListed, EndedHasNoWaiter, Ended, InWait
  <2>3. ListedIsWaiting'
    BY <1>0, <2>1 DEF Sound, WaitsSound, ListedIsWaiting, InWait
  <2>4. WaitIsDue' /\ EndedIsSet' /\ LimitIsKnown'
    BY <2>1 DEF Sound, WaitsSound, WaitIsDue, EndedIsSet, LimitIsKnown, Ended
  <2> QED
    BY <2>2, <2>3, <2>4 DEF WaitsSound
<1>3. ASSUME Running(t), pc[t] = "run", NEW w \in Waitable, NEW us, BeginWait(t, w, us),
             w \in Task => m_State[w] \notin Ended,
             UNCHANGED <<table, where, m_State, m_bSuspended, m_nWakeTicks,
                         events, clock, cpu, locals, panic, history>>
      PROVE  WaitsSound'
  <2>1. /\ m_State[t] = "Ready" /\ pc'[t] = "wait" /\ waitEvent'[t] = w
        /\ \A u \in Task \ {t} : /\ pc'[u] = pc[u] /\ waitEvent'[u] = waitEvent[u]
                                  /\ waitTicks'[u] = waitTicks[u]
        /\ UNCHANGED <<m_WaitList, m_bState, m_State, m_nWakeTicks>>
    BY <1>3 DEF BeginWait, Running, Sound, PlacesSound, TypeOK
  <2>2. BlockedIsListed' /\ EndedHasNoWaiter'
    BY <2>1 DEF Sound, WaitsSound, BlockedIsListed, EndedHasNoWaiter, InWait
  <2>3. \A v \in Waitable : t \notin m_WaitList[v]
    BY <1>3 DEF Sound, WaitsSound, ListedIsWaiting
  <2>4. ListedIsWaiting'
    BY <1>0, <2>1, <2>3 DEF Sound, WaitsSound, ListedIsWaiting
  <2>5. WaitIsDue' /\ EndedIsSet' /\ LimitIsKnown'
    BY <1>3, <2>1 DEF Sound, WaitsSound, WaitIsDue, EndedIsSet, LimitIsKnown
  <2> QED
    BY <2>2, <2>4, <2>5 DEF WaitsSound
<1>4. ASSUME NEW e \in Event, Wait(t, e) \/ \E us \in Delays : WaitWithTimeout(t, e, us)
      PROVE  WaitsSound'
  <2>1. e \in Waitable /\ e \notin Task
    BY <1>0, SchedulerAssumption
  <2> QED
    BY <1>3, <1>4, <2>1 DEF Wait, WaitWithTimeout, Calling
<1>5. ASSUME NEW s \in Task, WaitForTermination(t, s)
      PROVE  WaitsSound'
  <2>1. IsValidTask(s) /\ ~m_bState[s]
    BY <1>5 DEF WaitForTermination, BeginWait
  <2>2. m_State[s] \notin Ended
    BY <2>1 DEF Sound, TableSound, WaitsSound, EndedIsSet, Ended
  <2> QED
    BY <1>0, <1>3, <1>5, <2>2 DEF WaitForTermination, Calling
<1>6. ASSUME NEW e \in Event, Set(t, e)
      PROVE  WaitsSound'
  BY <1>0, <1>6, WakeWaits DEF Set, Calling, Running, Sound
<1>7. ASSUME NEW e \in Event, Clear(t, e)
      PROVE  WaitsSound'
  <2>1. /\ UNCHANGED <<m_WaitList, m_State, m_nWakeTicks, pc, waitEvent, waitTicks>>
        /\ \A s \in Task : m_bState'[s] = m_bState[s]
    BY <1>0, <1>7, SchedulerAssumption DEF Clear, TypeOK
  <2>2. BlockedIsListed' /\ EndedHasNoWaiter' /\ ListedIsWaiting'
    BY <2>1 DEF Sound, WaitsSound, BlockedIsListed, EndedHasNoWaiter, ListedIsWaiting
  <2>3. WaitIsDue' /\ EndedIsSet' /\ LimitIsKnown'
    BY <2>1 DEF Sound, WaitsSound, WaitIsDue, EndedIsSet, LimitIsKnown
  <2> QED
    BY <2>2, <2>3 DEF WaitsSound
<1>8. CASE Terminate(t)
  BY <1>8, TerminateWaits
<1>9. ASSUME NEW s \in Task, NEW b \in BOOLEAN, Create(t, s, b)
      PROVE  WaitsSound'
  BY <1>9, CreateWaits
<1>10. ASSUME NEW s \in Task, Start(t, s) \/ Suspend(t, s)
       PROVE  WaitsSound'
  <2>1. \A u \in Task : m_State'[u] # m_State[u] =>
          m_State[u] = "New" /\ m_State'[u] = "Ready"
    BY <1>10 DEF Start, Suspend, TypeOK
  <2> QED
    BY <1>10, <2>1, WaitsKept DEF Start, Suspend, Sound
<1>11. CASE SuspendNewTasks(t)
  BY <1>11, WaitsKept DEF SuspendNewTasks, Sound
<1>12. CASE ResumeNewTasks(t)
  <2>1. \A u \in Task : m_State'[u] # m_State[u] =>
          m_State[u] = "New" /\ m_State'[u] = "Ready"
    BY <1>12 DEF ResumeNewTasks
  <2> QED
    BY <1>12, <2>1, WaitsKept DEF ResumeNewTasks, Sound
<1> QED
  BY <1>1, <1>2, <1>4, <1>5, <1>6, <1>7, <1>8, <1>9, <1>10, <1>11, <1>12 DEF Call

-----------------------------------------------------------------------------
(* The invariant                                                            *)

\* As long as no assertion has stopped the system, all of it holds.
IInv == TypeOK /\ (panic = "none" => Sound)

\* It holds when the system boots ...
LEMMA InitSound == Init => IInv
<1> SUFFICES ASSUME Init
             PROVE  IInv
  OBVIOUS
<1>1. TypeOK
  BY InitTypes
<1>2. TableSound
  <2>1. Slots = {0} /\ m_pTask[0] = Main
    BY SchedulerAssumption DEF Init, Slots
  <2>2. /\ \A t \in Task : m_State[t] # "Unknown" <=> t = Main
        /\ Main # NULL
    BY SchedulerAssumption DEF Init
  <2> QED
    BY <2>1, <2>2 DEF TableSound, IsValidTask
<1>3. PlacesSound
  BY SchedulerAssumption DEF Init, PlacesSound
<1>4. WaitsSound
  BY DEF Init, WaitsSound, BlockedIsListed, ListedIsWaiting, EndedHasNoWaiter, WaitIsDue,
         EndedIsSet, LimitIsKnown, InWait, Waitable
<1> QED
  BY <1>1, <1>2, <1>3, <1>4 DEF IInv, Sound

\* ... and every step keeps it.
LEMMA StepSound ==
  ASSUME IInv, [Next]_vars
  PROVE  IInv'
<1> USE DEF IInv
<1>1. CASE YieldStep
  <2>1. panic = "none" /\ panic' = "none"
    BY <1>1 DEF YieldStep, ScanStart, ScanPass, ScanReady, ScanSleepOver, ScanTimeout,
                ExpireTimeout, ScanDelete, ScanNone, Scanning
  <2> QED
    BY <1>1, <2>1, ScanTypes, ScanTable, ScanWaits DEF Sound, PlacesSound
<1>2. ASSUME NEW t \in Task, BlockTask(t) \/ Unblock(t)
      PROVE  IInv'
  <2>1. panic = "none"
    BY <1>2 DEF BlockTask, Unblock, Running
  <2> QED
    BY <1>2, <2>1, WaitTypes, WaitTable, WaitWaits DEF Sound
<1>3. ASSUME NEW t \in Task, Call(t)
      PROVE  IInv'
  <2>1. panic = "none"
    BY <1>3 DEF Call, Yield, usSleep, Wait, WaitWithTimeout, WaitForTermination, Set, Clear,
                Terminate, Create, Start, Suspend, SuspendNewTasks, ResumeNewTasks,
                Calling, Running
  <2> QED
    BY <1>3, <2>1, CallTypes, CallTable, CallWaits DEF Sound
<1>4. CASE Irq
  <2>1. panic = "none"
    BY <1>4 DEF Irq, Tick, IrqSet
  <2> QED
    BY <1>4, <2>1, IrqTypes, IrqTable, IrqWaits DEF Sound
<1>5. CASE UNCHANGED vars
  <2>1. /\ UNCHANGED <<m_pTask, m_nTasks, m_pCurrent, m_nCurrent, m_iSuspendNewTasks,
                       m_State, m_bSuspended, m_nWakeTicks, m_bState, m_WaitList>>
        /\ UNCHANGED <<clock, cpu, pc, nTask, nLoop, nTicks, waitEvent, waitTicks,
                       panic, due, signalled>>
    BY <1>5 DEF vars, table, where, events, locals, args, history
  <2>2. TypeOK'
    BY <2>1 DEF TypeOK
  <2>3. ASSUME Sound
        PROVE  Sound'
    <3>1. TableSound' /\ PlacesSound'
      BY <2>1, <2>3 DEF Sound, TableSound, PlacesSound, IsValidTask, Slots
    <3>2. WaitsSound'
      BY <2>1, <2>3, WaitsKept DEF Sound
    <3> QED
      BY <3>1, <3>2 DEF Sound
  <2> QED
    BY <2>1, <2>2, <2>3
<1> QED
  BY <1>1, <1>2, <1>3, <1>4, <1>5 DEF Next, WaitStep, Halted

\* The invariant the theorems below follow from
THEOREM Invariance == Spec => []IInv
  BY InitSound, StepSound, PTL DEF Spec

\* Every variable stays in its range: in particular GetNextTask() and AddTask()
\* never index m_pTask beyond MAX_TASKS.
THEOREM TypesAlways == Spec => []TypeOK
<1>1. IInv => TypeOK
  BY DEF IInv
<1> QED
  BY <1>1, Invariance, PTL

\* The task table holds every living task exactly once and no deleted one, in
\* whatever order tasks are created, end and are deleted (AddTask, RemoveTask).
THEOREM TableAlways == Spec => []TableOK
<1>1. IInv => TableOK
  <2> SUFFICES ASSUME IInv, panic = "none"
               PROVE  TableOK
    BY DEF TableOK
  <2>1. TypeOK /\ TableSound
    BY DEF IInv, Sound
  <2>2. \A i \in Slots : m_pTask[i] \in Task \cup {NULL}
    <3>1. Slots \subseteq 0 .. MAX_TASKS - 1
      BY <2>1, Numbers DEF Slots
    <3> QED
      BY <2>1, <3>1 DEF TypeOK
  <2> QED
    BY <2>1, <2>2 DEF TableSound, TableOK, IsValidTask
<1> QED
  BY <1>1, Invariance, PTL

\* The assertion of usSleep() and BlockTask() about the running task holds, and
\* Terminate() never returns.
THEOREM RunningAlways == Spec => []RunningIsReady
<1>1. IInv => RunningIsReady
  BY DEF IInv, Sound, PlacesSound, RunningIsReady, TypeOK
<1> QED
  BY <1>1, Invariance, PTL

\* A task is on a wait list exactly while that event can wake it, so no list of
\* a deleted task is left behind for the next one at its address (BlockTask,
\* WakeTasks, GetNextTask's delete, CTask's constructor).
THEOREM ListsAlways == Spec => []WaitListOK
<1>1. IInv => WaitListOK
  <2> SUFFICES ASSUME IInv, panic = "none"
               PROVE  WaitListOK
    BY DEF WaitListOK
  <2>1. TypeOK /\ WaitsSound
    BY DEF IInv, Sound
  <2>2. \A w \in Waitable : \A t \in m_WaitList[w] : waitTicks[t] # 0 => waitTicks[t] > 0
    <3>1. \A w \in Waitable : \A t \in m_WaitList[w] : waitTicks[t] \in Delays \cup {0}
      BY <2>1 DEF TypeOK
    <3>2. \A n \in Delays \cup {0} : n # 0 => n > 0
      BY <2>1, Numbers
    <3> QED
      BY <3>1, <3>2
  <2> QED
    BY <2>1, <2>2 DEF WaitsSound, WaitListOK, BlockedIsListed, ListedIsWaiting,
                      EndedHasNoWaiter, Ended
<1> QED
  BY <1>1, Invariance, PTL

-----------------------------------------------------------------------------
(* Programs whose interrupt handlers set no event: both of the races that    *)
(* TLC finds with such handlers are then impossible.  Tasks alone lose no    *)
(* wakeup and never trip the assertion of WakeTasks().                       *)

\* The event a task is about to block on is still clear ...
WaitsOnClear == \A t \in Task : pc[t] = "wait" => ~m_bState[waitEvent[t]]

\* ... and a task whose time is over runs at once, and leaves the list first.
ExpiredRuns ==
  \A w \in Waitable : \A t \in m_WaitList[w] :
    m_State[t] = "Ready" => cpu = "task" /\ m_pCurrent = t

Quiet == /\ panic = "none" => WaitsOnClear /\ ExpiredRuns
         /\ SetEventHasNoBlockedTask /\ WokenTasksAreBlocked

\* While a task runs its own code, or is about to block, no other is on a list
\* unless it is blocked, and none but itself is about to block.
LEMMA ListedIsBlocked ==
  ASSUME IInv, Quiet, NEW t \in Task, Running(t), pc[t] \in {"run", "wait"}
  PROVE  /\ \A w \in Waitable : \A u \in m_WaitList[w] :
              u \in Task \ {t} /\ m_State[u] \in InWait /\ waitEvent[u] = w
         /\ \A u \in Task \ {t} : pc[u] # "wait"
<1>1. panic = "none" /\ cpu = "task" /\ m_pCurrent = t
  BY DEF Running
<1>2. \A w \in Waitable : m_WaitList[w] \subseteq Task
  BY DEF IInv, TypeOK
<1>3. Sound /\ ExpiredRuns
  BY <1>1 DEF IInv, Quiet
<1>4. \A w \in Waitable : \A u \in m_WaitList[w] : u # t /\ waitEvent[u] = w
  BY <1>3 DEF Sound, WaitsSound, ListedIsWaiting
<1>5. \A w \in Waitable : \A u \in m_WaitList[w] : m_State[u] \in InWait
  BY <1>1, <1>3, <1>4 DEF Sound, WaitsSound, ListedIsWaiting, ExpiredRuns
<1>6. \A u \in Task \ {t} : pc[u] # "wait"
  BY <1>1, <1>3 DEF Sound, PlacesSound
<1> QED
  BY <1>2, <1>4, <1>5, <1>6

\* The scan of GetNextTask() sends a task whose time is over to the processor.
LEMMA ScanQuiet ==
  ASSUME IInv, Quiet, YieldStep
  PROVE  Quiet'
<1> USE DEF table, where, events, locals, args, history
<1>1. /\ panic = "none" /\ cpu # "task" /\ Sound /\ TypeOK
      /\ UNCHANGED <<m_WaitList, m_bState, waitEvent, pc, panic>>
  BY DEF YieldStep, ScanStart, ScanPass, ScanReady, ScanSleepOver, ScanTimeout,
         ExpireTimeout, ScanDelete, ScanNone, Scanning, IInv
<1>2. NextSlot \in 0 .. MAX_TASKS - 1
  BY <1>1, Numbers DEF NextSlot
<1>3. \A u \in Task : m_State'[u] # m_State[u] =>
        /\ m_State'[u] \notin InWait
        /\ m_State[u] \in InWait => cpu' = "task" /\ m_pCurrent' = u
  <2>1. CASE ScanStart \/ ScanPass \/ ScanReady \/ ScanTimeout \/ ScanNone
    BY <2>1 DEF ScanStart, ScanPass, ScanReady, ScanTimeout, ScanNone
  <2>2. CASE ScanSleepOver
    BY <1>1, <2>2 DEF ScanSleepOver, InWait, TypeOK
  <2>3. CASE ExpireTimeout
    BY <1>1, <2>3 DEF ExpireTimeout, SwitchTo, InWait, TypeOK
  <2>4. CASE ScanDelete
    BY <1>1, <2>4 DEF ScanDelete, InWait, TypeOK
  <2> QED
    BY <2>1, <2>2, <2>3, <2>4 DEF YieldStep
<1>4. \A w \in Waitable : \A u \in m_WaitList[w] : u \in Task /\ m_State[u] \in InWait
  BY <1>1 DEF Quiet, ExpiredRuns, Sound, WaitsSound, ListedIsWaiting, TypeOK
<1>5. WaitsOnClear'
  BY <1>1 DEF Quiet, WaitsOnClear
<1>6. ExpiredRuns'
  BY <1>1, <1>3, <1>4 DEF ExpiredRuns, InWait
<1>7. SetEventHasNoBlockedTask'
  BY <1>1, <1>3, <1>4 DEF Quiet, SetEventHasNoBlockedTask
<1> QED
  BY <1>1, <1>5, <1>6, <1>7 DEF Quiet, WokenTasksAreBlocked

\* A task that enters a list waits for an event that is clear.
LEMMA WaitQuiet ==
  ASSUME IInv, Quiet, NEW t \in Task, BlockTask(t) \/ Unblock(t)
  PROVE  Quiet'
<1> USE DEF table, where, events, locals, args, history
<1> DEFINE w == waitEvent[t]
<1>0. TypeOK /\ \A v \in Waitable : m_WaitList[v] \subseteq Task
  BY DEF IInv, TypeOK
<1>1. CASE BlockTask(t)
  <2>1. /\ Running(t) /\ pc[t] = "wait" /\ panic = "none" /\ panic' = "none"
        /\ UNCHANGED <<waitEvent, m_bState>>
    BY <1>1 DEF BlockTask, Running
  <2>2. w \in Waitable /\ ~m_bState[w]
    BY <2>1 DEF IInv, Sound, WaitsSound, WaitIsDue, Quiet, WaitsOnClear
  <2>3. /\ m_WaitList'[w] = m_WaitList[w] \cup {t}
        /\ \A v \in Waitable \ {w} : m_WaitList'[v] = m_WaitList[v]
        /\ pc'[t] = "unblock" /\ \A u \in Task \ {t} : pc'[u] = pc[u]
        /\ m_State'[t] \in InWait /\ \A u \in Task \ {t} : m_State'[u] = m_State[u]
    BY <1>0, <1>1, <2>2 DEF BlockTask, TypeOK, InWait
  <2> HIDE DEF w
  <2>4. WaitsOnClear'
    BY <2>1, <2>3, ListedIsBlocked DEF WaitsOnClear
  <2>5. \A v \in Waitable : \A u \in m_WaitList'[v] : m_State'[u] \in InWait
    BY <2>1, <2>2, <2>3, ListedIsBlocked
  <2>6. ExpiredRuns'
    BY <2>5 DEF ExpiredRuns, InWait
  <2>7. SetEventHasNoBlockedTask'
    BY <2>1, <2>2, <2>3, ListedIsBlocked DEF Quiet, SetEventHasNoBlockedTask
  <2> QED
    BY <2>1, <2>4, <2>6, <2>7 DEF Quiet, WokenTasksAreBlocked
<1>2. CASE Unblock(t)
  <2>1. /\ panic = "none" /\ panic' = "none" /\ m_pCurrent = t /\ pc[t] = "unblock"
        /\ UNCHANGED <<m_State, m_bState, cpu, m_pCurrent>>
        /\ pc'[t] = "run"
        /\ \A u \in Task \ {t} : pc'[u] = pc[u] /\ waitEvent'[u] = waitEvent[u]
    BY <1>0, <1>2 DEF Unblock, Running, TypeOK
  <2>2. \A v \in Waitable : m_WaitList'[v] \subseteq m_WaitList[v]
    BY <1>0, <1>2 DEF Unblock, TypeOK
  <2>3. WaitsOnClear'
    BY <2>1 DEF Quiet, WaitsOnClear
  <2>4. ExpiredRuns'
    BY <2>1, <2>2 DEF Quiet, ExpiredRuns
  <2>5. SetEventHasNoBlockedTask'
    BY <2>1, <2>2 DEF Quiet, SetEventHasNoBlockedTask
  <2> QED
    BY <2>1, <2>3, <2>4, <2>5 DEF Quiet, WokenTasksAreBlocked
<1> QED
  BY <1>1, <1>2

\* A call that wakes nobody, blocks nobody and sets no event
LEMMA CallKeepsQuiet ==
  ASSUME IInv, Quiet, NEW t \in Task, Running(t), pc[t] = "run",
         \A w \in Waitable : m_WaitList'[w] \subseteq m_WaitList[w],
         \A w \in Waitable : m_bState'[w] => m_bState[w],
         \A u \in Task : m_State[u] \in InWait => m_State'[u] = m_State[u],
         \A u \in Task : pc'[u] = "wait" =>
           pc[u] = "wait" \/ ~m_bState'[waitEvent'[u]],
         panic' # "Tried to wake non-blocked task"
  PROVE  Quiet'
<1>1. \A w \in Waitable : \A u \in m_WaitList'[w] :
        u \in m_WaitList[w] /\ m_State'[u] \in InWait
  BY ListedIsBlocked
<1>2. WaitsOnClear'
  BY ListedIsBlocked DEF WaitsOnClear
<1>3. ExpiredRuns'
  BY <1>1 DEF ExpiredRuns, InWait
<1>4. SetEventHasNoBlockedTask'
  BY <1>1, ListedIsBlocked DEF Quiet, SetEventHasNoBlockedTask
<1> QED
  BY <1>2, <1>3, <1>4 DEF Quiet, WokenTasksAreBlocked

\* A call that sets an event finds none but blocked tasks on its list, and
\* leaves none there.
LEMMA SetKeepsQuiet ==
  ASSUME IInv, Quiet, NEW t \in Task, Running(t), pc[t] = "run",
         NEW w \in Waitable, NEW state, SetEvent(w, state),
         \A u \in Task \ {t} : state[u] = m_State[u],
         \A u \in Task : pc'[u] = "wait" => pc[u] = "wait"
  PROVE  Quiet' /\ panic' = "none"
<1>0. TypeOK /\ panic = "none"
  BY DEF IInv, Running
<1>1. panic' = "none"
  BY <1>0, ListedIsBlocked DEF SetEvent, WakeTasks
<1>2. \A v \in Waitable : \A u \in m_WaitList'[v] :
        v # w /\ u \in m_WaitList[v] /\ u \in Task \ {t} /\ u \notin m_WaitList[w]
  BY <1>0, <1>1, WakesPointwise, ListedIsBlocked
<1>3. \A v \in Waitable : \A u \in m_WaitList'[v] :
        m_State'[u] = m_State[u] /\ m_State[u] \in InWait
  BY <1>0, <1>1, <1>2, WakesPointwise, ListedIsBlocked
<1>4. WaitsOnClear'
  BY ListedIsBlocked DEF WaitsOnClear
<1>5. ExpiredRuns'
  BY <1>3 DEF ExpiredRuns, InWait
<1>6. SetEventHasNoBlockedTask'
  BY <1>0, <1>1, <1>2, <1>3, WakesPointwise DEF Quiet, SetEventHasNoBlockedTask
<1> QED
  BY <1>1, <1>4, <1>5, <1>6 DEF Quiet, WokenTasksAreBlocked

\* Every call of a task is one or the other.
LEMMA CallQuiet ==
  ASSUME IInv, Quiet, NEW t \in Task, Call(t)
  PROVE  Quiet'
<1> USE DEF table, where, events, locals, args, history
<1>0. /\ TypeOK /\ Running(t) /\ pc[t] = "run" /\ panic = "none"
      /\ m_State[t] = "Ready" /\ Event \subseteq Waitable /\ Task \subseteq Waitable
  BY DEF Call, Yield, usSleep, Wait, WaitWithTimeout, WaitForTermination, Set, Clear,
         Terminate, Create, Start, Suspend, SuspendNewTasks, ResumeNewTasks,
         Calling, Running, IInv, Sound, PlacesSound, Waitable
<1>1. CASE Yield(t) \/ SuspendNewTasks(t)
  BY <1>0, <1>1, CallKeepsQuiet DEF Yield, SuspendNewTasks
<1>2. ASSUME NEW us \in Delays, usSleep(t, us)
      PROVE  Quiet'
  <2>1. \A u \in Task : m_State[u] \in InWait => m_State'[u] = m_State[u]
    BY <1>0, <1>2 DEF usSleep, InWait, TypeOK
  <2> QED
    BY <1>0, <1>2, <2>1, CallKeepsQuiet DEF usSleep
<1>3. ASSUME NEW w \in Waitable, NEW us, BeginWait(t, w, us),
             UNCHANGED <<table, where, m_State, m_bSuspended, m_nWakeTicks,
                         events, clock, cpu, locals, panic, history>>
      PROVE  Quiet'
  <2>1. \A u \in Task : pc'[u] = "wait" => pc[u] = "wait" \/ ~m_bState'[waitEvent'[u]]
    BY <1>0, <1>3 DEF BeginWait, TypeOK
  <2> QED
    BY <1>0, <1>3, <2>1, CallKeepsQuiet
<1>4. ASSUME NEW e \in Event, Wait(t, e) \/ \E us \in Delays : WaitWithTimeout(t, e, us)
      PROVE  Quiet'
  BY <1>0, <1>3, <1>4 DEF Wait, WaitWithTimeout
<1>5. ASSUME NEW s \in Task, WaitForTermination(t, s)
      PROVE  Quiet'
  BY <1>0, <1>3, <1>5 DEF WaitForTermination
<1>6. ASSUME NEW e \in Event, Set(t, e)
      PROVE  Quiet'
  BY <1>0, <1>6, SetKeepsQuiet DEF Set
<1>7. ASSUME NEW e \in Event, Clear(t, e)
      PROVE  Quiet'
  <2>1. \A w \in Waitable : m_bState'[w] => m_bState[w]
    BY <1>0, <1>7 DEF Clear, TypeOK
  <2> QED
    BY <1>0, <1>7, <2>1, CallKeepsQuiet DEF Clear
<1>8. CASE Terminate(t)
  <2> DEFINE state == [m_State EXCEPT ![t] = "Terminated"]
  <2>1. /\ SetEvent(t, state) /\ \A u \in Task \ {t} : state[u] = m_State[u]
        /\ \A u \in Task : pc'[u] = "wait" => pc[u] = "wait"
    BY <1>0, <1>8 DEF Terminate, TypeOK
  <2> HIDE DEF state
  <2> QED
    BY <1>0, <2>1, SetKeepsQuiet
<1>9. ASSUME NEW s \in Task, NEW b \in BOOLEAN, Create(t, s, b)
      PROVE  Quiet'
  <2>1. \A w \in Waitable : /\ m_WaitList'[w] \subseteq m_WaitList[w]
                            /\ m_bState'[w] => m_bState[w]
    BY <1>0, <1>9 DEF Create, TypeOK
  <2>2. \A u \in Task : /\ m_State[u] \in InWait => m_State'[u] = m_State[u]
                        /\ pc'[u] = "wait" => pc[u] = "wait"
    BY <1>0, <1>9 DEF Create, InWait, TypeOK
  <2>3. panic' \in {"none", "System limit of tasks exceeded"}
    BY <1>0, <1>9 DEF Create, AddTask
  <2> QED
    BY <1>0, <2>1, <2>2, <2>3, CallKeepsQuiet
<1>10. ASSUME NEW s \in Task, Start(t, s) \/ Suspend(t, s)
       PROVE  Quiet'
  <2>1. \A u \in Task : m_State[u] \in InWait => m_State'[u] = m_State[u]
    BY <1>0, <1>10 DEF Start, Suspend, InWait, TypeOK
  <2> QED
    BY <1>0, <1>10, <2>1, CallKeepsQuiet DEF Start, Suspend
<1>11. CASE ResumeNewTasks(t)
  <2>1. \A u \in Task : m_State[u] \in InWait => m_State'[u] = m_State[u]
    BY <1>0, <1>11 DEF ResumeNewTasks, InWait
  <2> QED
    BY <1>0, <1>11, <2>1, CallKeepsQuiet DEF ResumeNewTasks
<1> QED
  BY <1>1, <1>2, <1>4, <1>5, <1>6, <1>7, <1>8, <1>9, <1>10, <1>11 DEF Call

-----------------------------------------------------------------------------
(* The theorem                                                              *)

\* At boot nobody waits.
LEMMA InitQuiet == Init => Quiet
  BY DEF Init, Quiet, WaitsOnClear, ExpiredRuns, SetEventHasNoBlockedTask,
         WokenTasksAreBlocked, Waitable

\* Without interrupts that set events, every step keeps it so.
LEMMA StepQuiet ==
  ASSUME IrqEvent = {}, IInv, Quiet, [Next]_vars
  PROVE  Quiet'
<1> USE DEF table, where, events, locals, args, history
<1>1. CASE Tick
  BY <1>1 DEF Tick, Quiet, WaitsOnClear, ExpiredRuns, SetEventHasNoBlockedTask,
              WokenTasksAreBlocked
<1>2. CASE UNCHANGED vars
  BY <1>2 DEF vars, Quiet, WaitsOnClear, ExpiredRuns, SetEventHasNoBlockedTask,
              WokenTasksAreBlocked
<1> QED
  BY <1>1, <1>2, ScanQuiet, WaitQuiet, CallQuiet DEF Next, WaitStep, Irq, Halted

\* Tasks alone lose no wakeup: nobody stays blocked on an event that is set,
\* although Wait() looks at m_bState before BlockTask() takes the lock.
THEOREM NoLostWakeup ==
  ASSUME IrqEvent = {}
  PROVE  Spec => []SetEventHasNoBlockedTask
<1>1. Init => IInv /\ Quiet
  BY InitSound, InitQuiet
<1>2. IInv /\ Quiet /\ [Next]_vars => (IInv /\ Quiet)'
  BY StepSound, StepQuiet
<1>3. Quiet => SetEventHasNoBlockedTask
  BY DEF Quiet
<1> QED
  BY <1>1, <1>2, <1>3, PTL DEF Spec

\* Tasks alone never trip the assertion of WakeTasks(), although a task whose
\* time is over is ready and still on the list until it runs.
THEOREM NoFailedAssertion ==
  ASSUME IrqEvent = {}
  PROVE  Spec => []WokenTasksAreBlocked
<1>1. Init => IInv /\ Quiet
  BY InitSound, InitQuiet
<1>2. IInv /\ Quiet /\ [Next]_vars => (IInv /\ Quiet)'
  BY StepSound, StepQuiet
<1>3. Quiet => WokenTasksAreBlocked
  BY DEF Quiet
<1> QED
  BY <1>1, <1>2, <1>3, PTL DEF Spec

-----------------------------------------------------------------------------
(* Waits with a time limit and sleeping, with interrupt handlers that set    *)
(* events at any moment and a clock that turns over: as long as nobody asks   *)
(* for half a turn of the clock or more, a wait ends by the event or by the   *)
(* time and never before either, and what it returns tells which.            *)


\* What usSleep() and WaitWithTimeout() are asked for, less than 35 minutes at
\* 1 MHz: beyond that the signed comparison of GetNextTask() is of no use.
DelaysAreShort == Delays \subseteq 1 .. ClockWrap \div 2 - 1

-----------------------------------------------------------------------------
(* The clock                                                                *)

\* The clock stays in its range for less than a turn, and turns once after it.
LEMMA Turns ==
  ASSUME NEW n \in 0 .. 2 * ClockWrap - 1
  PROVE  n % ClockWrap = IF n < ClockWrap THEN n ELSE n - ClockWrap
<1>1. ClockWrap \in Nat \ {0}
  BY SchedulerAssumption
<1> QED
  BY <1>1

\* A deadline less than half a turn ahead has not passed in the signed
\* comparison, even if the clock turns over before it.
LEMMA DeadlineAhead ==
  ASSUME NEW now \in 0 .. ClockWrap - 1, NEW d \in 1 .. ClockWrap \div 2 - 1
  PROVE  (((now + d) % ClockWrap) - now) % ClockWrap = d
<1>1. ClockWrap \in Nat \ {0} /\ d < ClockWrap
  BY SchedulerAssumption
<1>2. CASE now + d < ClockWrap
  <2>1. (now + d) % ClockWrap = now + d
    BY <1>1, <1>2, Turns
  <2> QED
    BY <1>1, <2>1, Turns
<1>3. CASE now + d >= ClockWrap
  <2>1. (now + d) % ClockWrap = now + d - ClockWrap
    BY <1>1, <1>3, Turns
  <2>2. (d - ClockWrap) % ClockWrap = d
    BY <1>1
  <2> QED
    BY <1>1, <2>1, <2>2
<1> QED
  BY <1>1, <1>2, <1>3

\* A tick of the clock does not move a deadline that is still to come.
LEMMA DeadlineStays ==
  ASSUME NEW now \in 0 .. ClockWrap - 1, NEW d \in 1 .. ClockWrap \div 2 - 1
  PROVE  (((now + 1) % ClockWrap) + (d - 1)) % ClockWrap = (now + d) % ClockWrap
<1>1. ClockWrap \in Nat \ {0} /\ d < ClockWrap
  BY SchedulerAssumption
<1>2. CASE now + 1 < ClockWrap
  <2>1. (now + 1) % ClockWrap = now + 1
    BY <1>1, <1>2, Turns
  <2> QED
    BY <1>1, <2>1
<1>3. CASE now + 1 = ClockWrap
  <2>1. (now + 1) % ClockWrap = 0
    BY <1>1, <1>3, Turns
  <2>2. (d - 1) % ClockWrap = d - 1 /\ (now + d) % ClockWrap = d - 1
    BY <1>1, <1>3, Turns
  <2> QED
    BY <1>1, <2>1, <2>2
<1> QED
  BY <1>1, <1>2, <1>3

-----------------------------------------------------------------------------
(* The invariant                                                            *)

\* A task that sleeps, or is inside BlockTask() with a time limit
Limited(t) == \/ m_State[t] = "Sleeping"
              \/ pc[t] = "unblock" /\ waitTicks[t] # 0

\* A task inside BlockTask() is blocked or has been made ready, and was made so
\* by the event or by the time.
EndsByEventOrTime ==
  \A t \in Task : pc[t] = "unblock" =>
    /\ m_State[t] \in InWait \cup {"Ready"}
    /\ m_State[t] = "Ready" =>
         signalled[t] \/ (waitTicks[t] # 0 /\ due[t] = 0 /\ m_nWakeTicks[t] = 0)

\* A deadline that is still to come is less than half a turn away ...
DeadlineOnClock ==
  \A t \in Task : Limited(t) /\ due[t] # 0 =>
    /\ due[t] < ClockWrap \div 2
    /\ m_nWakeTicks[t] = (clock + due[t]) % ClockWrap

\* ... and no scan, however long it has been under way, takes it for one that
\* has passed.
ScanTakesNoneEarly ==
  cpu \in {"scan", "expire"} =>
    \A t \in Task : Limited(t) /\ due[t] # 0 => ~Expired(m_nWakeTicks[t])

\* The time of the task that GetNextTask() is about to make ready is over.
ExpireIsDue ==
  cpu = "expire" => /\ pc[m_pTask[nTask]] = "unblock" /\ waitTicks[m_pTask[nTask]] # 0
                    /\ due[m_pTask[nTask]] = 0

TimesSound == EndsByEventOrTime /\ DeadlineOnClock /\ ScanTakesNoneEarly /\ ExpireIsDue

TInv == panic = "none" => TimesSound

-----------------------------------------------------------------------------
(* The steps                                                                *)

\* Steps that leave alone those inside BlockTask(), send nobody to sleep and
\* at most leave a scan
LEMMA TimesKept ==
  ASSUME TimesSound, clock' = clock,
         \A t \in Task : pc'[t] = "unblock" =>
           /\ pc[t] = "unblock" /\ m_State'[t] = m_State[t]
           /\ waitTicks'[t] = waitTicks[t] /\ signalled'[t] = signalled[t]
           /\ due'[t] = due[t] /\ m_nWakeTicks'[t] = m_nWakeTicks[t],
         \A t \in Task : m_State'[t] = "Sleeping" =>
           /\ m_State[t] = "Sleeping"
           /\ due'[t] = due[t] /\ m_nWakeTicks'[t] = m_nWakeTicks[t],
         cpu' \in {"task", "yield"} \/ (cpu' = "scan" /\ cpu = "scan" /\ nTicks' = nTicks)
  PROVE  TimesSound'
<1>1. \A t \in Task : Limited(t)' => /\ Limited(t)
                                     /\ due'[t] = due[t]
                                     /\ m_nWakeTicks'[t] = m_nWakeTicks[t]
  BY DEF Limited
<1>2. EndsByEventOrTime'
  BY DEF TimesSound, EndsByEventOrTime
<1>3. DeadlineOnClock'
  BY <1>1 DEF TimesSound, DeadlineOnClock
<1>4. ScanTakesNoneEarly'
  BY <1>1 DEF TimesSound, ScanTakesNoneEarly, Expired
<1>5. ExpireIsDue'
  BY DEF ExpireIsDue
<1> QED
  BY <1>2, <1>3, <1>4, <1>5 DEF TimesSound

\* Whoever is blocked is inside BlockTask().
LEMMA BlockedIsInside ==
  ASSUME IInv, panic = "none", NEW t \in Task, m_State[t] \in InWait
  PROVE  pc[t] = "unblock" /\ (m_State[t] = "BlockedWithTimeout" => Limited(t))
BY DEF IInv, Sound, WaitsSound, BlockedIsListed, ListedIsWaiting, LimitIsKnown, Limited

\* The scan makes ready only whose time is over.
LEMMA ScanTimes ==
  ASSUME IInv, panic = "none", TimesSound, YieldStep
  PROVE  TimesSound'
<1> USE DEF table, where, events, locals, args, history
<1>0. TypeOK /\ NextSlot \in 0 .. MAX_TASKS - 1
  BY Numbers DEF IInv, NextSlot
<1>1. CASE ScanStart
  <2>1. ASSUME NEW t \in Task, Limited(t), due[t] # 0
        PROVE  ~Expired(m_nWakeTicks[t])'
    <3>1. /\ due[t] \in Nat /\ clock \in 0 .. ClockWrap - 1 /\ nTicks' = clock
          /\ m_nWakeTicks' = m_nWakeTicks
          /\ due[t] < ClockWrap \div 2
          /\ m_nWakeTicks[t] = (clock + due[t]) % ClockWrap
      BY <1>0, <1>1, <2>1 DEF ScanStart, TypeOK, TimesSound, DeadlineOnClock
    <3>2. due[t] \in 1 .. ClockWrap \div 2 - 1 /\ ClockWrap \in Nat \ {0}
      BY <2>1, <3>1, SchedulerAssumption
    <3>3. (m_nWakeTicks[t] - nTicks') % ClockWrap = due[t]
      BY <3>1, <3>2, DeadlineAhead
    <3>4. ~(due[t] = 0 \/ due[t] >= ClockWrap \div 2)
      BY <3>2
    <3> QED
      BY <3>1, <3>3, <3>4 DEF Expired
  <2>2. \A t \in Task : Limited(t)' <=> Limited(t)
    BY <1>1 DEF ScanStart, Limited
  <2>3. EndsByEventOrTime' /\ DeadlineOnClock' /\ ExpireIsDue'
    BY <1>1, <2>2 DEF ScanStart, TimesSound, EndsByEventOrTime, DeadlineOnClock, ExpireIsDue
  <2>4. ScanTakesNoneEarly'
    BY <1>1, <2>1, <2>2 DEF ScanStart, ScanTakesNoneEarly
  <2> QED
    BY <2>3, <2>4 DEF TimesSound
<1>2. CASE ScanPass
  BY <1>2, TimesKept DEF ScanPass, Scanning
<1>3. CASE ScanReady
  BY <1>3, TimesKept DEF ScanReady, SwitchTo
<1>4. CASE ScanSleepOver
  <2> DEFINE p == m_pTask[NextSlot]
  <2>1. p \in Task /\ m_State[p] = "Sleeping" /\ pc[p] # "unblock"
    BY <1>0, <1>4 DEF ScanSleepOver, PassesOver, TypeOK, TimesSound, EndsByEventOrTime, InWait
  <2>2. m_State'[p] = "Ready" /\ \A u \in Task \ {p} : m_State'[u] = m_State[u]
    BY <1>0, <1>4, <2>1 DEF ScanSleepOver, TypeOK
  <2> HIDE DEF p
  <2> QED
    BY <1>4, <2>1, <2>2, TimesKept DEF ScanSleepOver, SwitchTo
<1>5. CASE ScanTimeout
  <2> DEFINE p == m_pTask[NextSlot]
  <2>1. /\ p \in Task /\ m_State[p] = "BlockedWithTimeout"
        /\ Expired(m_nWakeTicks[p]) /\ cpu = "scan"
    BY <1>0, <1>5 DEF ScanTimeout, Scanning, PassesOver, TypeOK, Timed
  <2>2. pc[p] = "unblock" /\ waitTicks[p] # 0 /\ Limited(p)
    BY <2>1, BlockedIsInside DEF InWait, Limited
  <2>3. due[p] = 0
    BY <2>1, <2>2 DEF TimesSound, ScanTakesNoneEarly
  <2>4. ExpireIsDue'
    BY <1>5, <2>2, <2>3 DEF ScanTimeout, ExpireIsDue
  <2>5. ScanTakesNoneEarly'
    BY <1>5, <2>1 DEF ScanTimeout, TimesSound, ScanTakesNoneEarly, Limited, Expired
  <2>6. EndsByEventOrTime' /\ DeadlineOnClock'
    BY <1>5 DEF ScanTimeout, TimesSound, EndsByEventOrTime, DeadlineOnClock, Limited
  <2> QED
    BY <2>4, <2>5, <2>6 DEF TimesSound
<1>6. CASE ExpireTimeout
  <2> DEFINE p == m_pTask[nTask]
  <2>1. /\ p \in Task /\ cpu = "expire"
        /\ pc[p] = "unblock" /\ waitTicks[p] # 0 /\ due[p] = 0
    BY <1>6 DEF ExpireTimeout, IInv, Sound, PlacesSound, TimesSound, ExpireIsDue
  <2>2. /\ m_State'[p] = "Ready" /\ m_nWakeTicks'[p] = 0
        /\ \A u \in Task \ {p} : /\ m_State'[u] = m_State[u]
                                 /\ m_nWakeTicks'[u] = m_nWakeTicks[u]
        /\ UNCHANGED <<pc, waitTicks, due, signalled, clock>> /\ cpu' = "task"
    BY <1>0, <1>6, <2>1 DEF ExpireTimeout, SwitchTo, TypeOK
  <2> HIDE DEF p
  <2>3. EndsByEventOrTime'
    BY <2>1, <2>2 DEF TimesSound, EndsByEventOrTime
  <2>4. DeadlineOnClock'
    BY <2>1, <2>2 DEF TimesSound, DeadlineOnClock, Limited
  <2>5. ScanTakesNoneEarly' /\ ExpireIsDue'
    BY <2>2 DEF ScanTakesNoneEarly, ExpireIsDue
  <2> QED
    BY <2>3, <2>4, <2>5 DEF TimesSound
<1>7. CASE ScanDelete
  <2> DEFINE p == m_pTask[NextSlot]
  <2>1. p \in Task /\ m_State[p] = "Terminated" /\ pc[p] # "unblock"
    BY <1>0, <1>7 DEF ScanDelete, PassesOver, TypeOK, TimesSound, EndsByEventOrTime, InWait
  <2>2. m_State'[p] = "Unknown" /\ \A u \in Task \ {p} : m_State'[u] = m_State[u]
    BY <1>0, <1>7, <2>1 DEF ScanDelete, TypeOK
  <2> HIDE DEF p
  <2> QED
    BY <1>7, <2>1, <2>2, TimesKept DEF ScanDelete
<1>8. CASE ScanNone
  BY <1>8, TimesKept DEF ScanNone
<1> QED
  BY <1>1, <1>2, <1>3, <1>4, <1>5, <1>6, <1>7, <1>8 DEF YieldStep

\* Entering BlockTask() starts the time limit; leaving it forgets it.
LEMMA WaitTimes ==
  ASSUME DelaysAreShort, IInv, TimesSound, NEW t \in Task, BlockTask(t) \/ Unblock(t)
  PROVE  TimesSound'
<1> USE DEF table, where, events, locals, args, history
<1>0. TypeOK
  BY DEF IInv
<1>1. CASE BlockTask(t)
  <2>1. /\ pc'[t] = "unblock" /\ cpu' = "yield" /\ m_State'[t] \in InWait
        /\ UNCHANGED <<waitTicks, signalled, clock>>
        /\ \A u \in Task \ {t} : /\ pc'[u] = pc[u] /\ m_State'[u] = m_State[u]
                                 /\ due'[u] = due[u] /\ m_nWakeTicks'[u] = m_nWakeTicks[u]
    BY <1>0, <1>1 DEF BlockTask, TypeOK, InWait
  <2>2. waitTicks[t] # 0 =>
          due'[t] = waitTicks[t] /\ m_nWakeTicks'[t] = (clock + waitTicks[t]) % ClockWrap
    BY <1>0, <1>1 DEF BlockTask, TypeOK
  <2>3. waitTicks[t] # 0 => waitTicks[t] < ClockWrap \div 2
    <3>1. waitTicks[t] \in Delays \cup {0} /\ ClockWrap \in Nat \ {0}
      BY <1>0, SchedulerAssumption DEF TypeOK
    <3>2. \A d \in Delays : d < ClockWrap \div 2
      BY <3>1 DEF DelaysAreShort
    <3> QED
      BY <3>1, <3>2
  <2>4. EndsByEventOrTime'
    BY <2>1 DEF TimesSound, EndsByEventOrTime, InWait
  <2>5. \A u \in Task : Limited(u)' => (u # t /\ Limited(u)) \/ (u = t /\ waitTicks[t] # 0)
    BY <2>1 DEF Limited, InWait
  <2>6. DeadlineOnClock'
    BY <2>1, <2>2, <2>3, <2>5 DEF TimesSound, DeadlineOnClock
  <2>7. ScanTakesNoneEarly' /\ ExpireIsDue'
    BY <2>1 DEF ScanTakesNoneEarly, ExpireIsDue
  <2> QED
    BY <2>4, <2>6, <2>7 DEF TimesSound
<1>2. CASE Unblock(t)
  <2>1. /\ pc'[t] = "run" /\ cpu' = "task"
        /\ UNCHANGED <<m_State, m_nWakeTicks, clock>>
        /\ \A u \in Task \ {t} : /\ pc'[u] = pc[u] /\ waitTicks'[u] = waitTicks[u]
                                 /\ due'[u] = due[u] /\ signalled'[u] = signalled[u]
    BY <1>0, <1>2 DEF Unblock, Running, TypeOK
  <2>2. m_State[t] = "Ready"
    BY <1>2 DEF Unblock, Running, IInv, Sound, PlacesSound
  <2> QED
    BY <2>1, <2>2, TimesKept
<1> QED
  BY <1>1, <1>2

\* Setting an event makes ready those that wait for it, and says so.
LEMMA WakeTimes ==
  ASSUME IInv, panic = "none", panic' = "none", TimesSound,
         NEW w \in Waitable, NEW state, SetEvent(w, state),
         \A u \in Task : state[u] = m_State[u] \/ (state[u] = "Terminated" /\ pc'[u] = "dead"),
         \A u \in Task : pc'[u] = pc[u] \/ pc'[u] = "dead",
         waitTicks' = waitTicks, due' = due, m_nWakeTicks' = m_nWakeTicks,
         clock' = clock, nTicks' = nTicks, nTask' = nTask, m_pTask' = m_pTask,
         (cpu' = cpu /\ pc' = pc) \/ cpu' = "yield"
  PROVE  TimesSound'
<1>0. TypeOK
  BY DEF IInv
<1>1. /\ \A u \in Task : u \in m_WaitList[w] => state[u] \in InWait /\ m_State'[u] = "Ready"
      /\ \A u \in Task : u \notin m_WaitList[w] => m_State'[u] = state[u]
  BY <1>0, WakesPointwise
<1>2. \A u \in Task : signalled'[u] = (signalled[u] \/ u \in m_WaitList[w])
  BY DEF SetEvent, WakeTasks
<1>3. \A u \in Task : Limited(u)' => Limited(u)
  BY <1>1 DEF Limited, InWait
<1>4. EndsByEventOrTime'
  BY <1>1, <1>2 DEF TimesSound, EndsByEventOrTime
<1>5. DeadlineOnClock'
  BY <1>3 DEF TimesSound, DeadlineOnClock
<1>6. ScanTakesNoneEarly' /\ ExpireIsDue'
  BY <1>3 DEF TimesSound, ScanTakesNoneEarly, ExpireIsDue, Expired
<1> QED
  BY <1>4, <1>5, <1>6 DEF TimesSound

\* So do interrupt handlers; and the clock brings the deadlines nearer.
LEMMA IrqTimes ==
  ASSUME IInv, panic = "none", panic' = "none", TimesSound, Irq
  PROVE  TimesSound'
<1> USE DEF table, where, events, locals, args, history
<1>0. TypeOK
  BY DEF IInv
<1>1. CASE Tick
  <2>1. /\ clock' = (clock + 1) % ClockWrap
        /\ UNCHANGED <<m_State, pc, waitTicks, signalled, m_nWakeTicks, cpu, nTicks, nTask, m_pTask>>
    BY <1>1 DEF Tick
  <2>2. \A u \in Task : due[u] \in Nat /\ due'[u] = IF due[u] > 0 THEN due[u] - 1 ELSE 0
    BY <1>0, <1>1 DEF Tick, TypeOK
  <2>3. \A u \in Task : due'[u] # 0 => due[u] # 0 /\ due'[u] = due[u] - 1
    BY <2>2
  <2>4. \A u \in Task : due[u] = 0 => due'[u] = 0
    BY <2>2
  <2>5. EndsByEventOrTime'
    BY <2>1, <2>4 DEF TimesSound, EndsByEventOrTime
  <2>6. \A u \in Task : Limited(u)' <=> Limited(u)
    BY <2>1 DEF Limited
  <2>7. ASSUME NEW u \in Task, Limited(u), due'[u] # 0
        PROVE  /\ due'[u] < ClockWrap \div 2
               /\ m_nWakeTicks[u] = (clock' + due'[u]) % ClockWrap
    <3>1. /\ due[u] # 0 /\ due[u] < ClockWrap \div 2 /\ due[u] \in Nat
          /\ m_nWakeTicks[u] = (clock + due[u]) % ClockWrap
          /\ clock \in 0 .. ClockWrap - 1 /\ ClockWrap \in Nat \ {0}
      BY <1>0, <2>2, <2>3, <2>7, SchedulerAssumption DEF TimesSound, DeadlineOnClock, TypeOK
    <3>2. due[u] \in 1 .. ClockWrap \div 2 - 1
      BY <3>1
    <3>3. due'[u] = due[u] - 1
      BY <2>3, <2>7
    <3>4. due[u] - 1 < ClockWrap \div 2
      BY <3>1, <3>2
    <3>5. (((clock + 1) % ClockWrap) + (due[u] - 1)) % ClockWrap = (clock + due[u]) % ClockWrap
      BY <3>1, <3>2, DeadlineStays
    <3> QED
      BY <2>1, <3>1, <3>3, <3>4, <3>5
  <2>8. DeadlineOnClock'
    BY <2>1, <2>6, <2>7 DEF DeadlineOnClock
  <2>9. ScanTakesNoneEarly' /\ ExpireIsDue'
    <3>1. ScanTakesNoneEarly'
      BY <2>1, <2>3, <2>6 DEF TimesSound, ScanTakesNoneEarly, Expired
    <3>2. cpu = "expire" => m_pTask[nTask] \in Task
      BY DEF IInv, Sound, PlacesSound
    <3>3. ExpireIsDue'
      BY <2>1, <2>4, <3>2 DEF TimesSound, ExpireIsDue
    <3> QED
      BY <3>1, <3>3
  <2> QED
    BY <2>5, <2>8, <2>9 DEF TimesSound
<1>2. ASSUME NEW e \in IrqEvent, IrqSet(e)
      PROVE  TimesSound'
  <2>1. /\ e \in Waitable /\ SetEvent(e, m_State)
        /\ UNCHANGED <<waitTicks, due, m_nWakeTicks, clock, nTicks, nTask, m_pTask>>
        /\ UNCHANGED <<pc, cpu>>
    BY <1>2, SchedulerAssumption DEF IrqSet, Waitable
  <2> QED
    BY <2>1, WakeTimes
<1> QED
  BY <1>1, <1>2 DEF Irq

\* Of the calls, usSleep() starts a time limit, and Set() and Terminate() wake.
LEMMA CallTimes ==
  ASSUME DelaysAreShort, IInv, panic = "none", panic' = "none", TimesSound,
         NEW t \in Task, Call(t)
  PROVE  TimesSound'
<1> USE DEF table, where, events, locals, args, history, Calling, Running
<1>0. TypeOK
  BY DEF IInv
<1>1. CASE Yield(t)
  BY <1>1, TimesKept DEF Yield
<1>2. ASSUME NEW us \in Delays, usSleep(t, us)
      PROVE  TimesSound'
  <2>1. /\ pc[t] = "run" /\ cpu' = "yield" /\ UNCHANGED <<pc, waitTicks, signalled, clock>>
        /\ m_State'[t] = "Sleeping" /\ due'[t] = us
        /\ m_nWakeTicks'[t] = (clock + us) % ClockWrap
        /\ \A u \in Task \ {t} : /\ m_State'[u] = m_State[u]
                                 /\ due'[u] = due[u] /\ m_nWakeTicks'[u] = m_nWakeTicks[u]
    BY <1>0, <1>2 DEF usSleep, TypeOK
  <2>2. us < ClockWrap \div 2
    <3>1. ClockWrap \in Nat \ {0}
      BY SchedulerAssumption
    <3> QED
      BY <3>1 DEF DelaysAreShort
  <2>3. EndsByEventOrTime'
    BY <2>1 DEF TimesSound, EndsByEventOrTime
  <2>4. \A u \in Task : Limited(u)' => u = t \/ Limited(u)
    BY <2>1 DEF Limited
  <2>5. DeadlineOnClock'
    BY <2>1, <2>2, <2>4 DEF TimesSound, DeadlineOnClock
  <2>6. ScanTakesNoneEarly' /\ ExpireIsDue'
    BY <2>1 DEF ScanTakesNoneEarly, ExpireIsDue
  <2> QED
    BY <2>3, <2>5, <2>6 DEF TimesSound
<1>3. ASSUME NEW e, NEW us, BeginWait(t, e, us), pc[t] = "run", cpu' = "task",
             UNCHANGED <<m_State, m_nWakeTicks, clock, due, signalled>>
      PROVE  TimesSound'
  <2>1. /\ pc'[t] = "wait"
        /\ \A u \in Task \ {t} : pc'[u] = pc[u] /\ waitTicks'[u] = waitTicks[u]
    BY <1>0, <1>3 DEF BeginWait, TypeOK
  <2> QED
    BY <1>3, <2>1, TimesKept
<1>4. ASSUME NEW e \in Event, Wait(t, e)
      PROVE  TimesSound'
  BY <1>3, <1>4 DEF Wait
<1>5. ASSUME NEW e \in Event, NEW us \in Delays, WaitWithTimeout(t, e, us)
      PROVE  TimesSound'
  BY <1>3, <1>5 DEF WaitWithTimeout
<1>6. ASSUME NEW s \in Task, WaitForTermination(t, s)
      PROVE  TimesSound'
  BY <1>3, <1>6 DEF WaitForTermination
<1>7. ASSUME NEW e \in Event, Set(t, e)
      PROVE  TimesSound'
  <2>1. /\ e \in Waitable /\ SetEvent(e, m_State)
        /\ UNCHANGED <<waitTicks, due, m_nWakeTicks, clock, nTicks, nTask, m_pTask>>
        /\ UNCHANGED <<pc, cpu>>
    BY <1>7 DEF Set, Waitable
  <2> QED
    BY <2>1, WakeTimes
<1>8. ASSUME NEW e \in Event, Clear(t, e)
      PROVE  TimesSound'
  BY <1>8, TimesKept DEF Clear
<1>9. CASE Terminate(t)
  <2> DEFINE state == [m_State EXCEPT ![t] = "Terminated"]
  <2>1. /\ pc'[t] = "dead" /\ \A u \in Task \ {t} : pc'[u] = pc[u]
        /\ state[t] = "Terminated" /\ \A u \in Task \ {t} : state[u] = m_State[u]
        /\ SetEvent(t, state) /\ t \in Waitable /\ cpu' = "yield"
        /\ UNCHANGED <<waitTicks, due, m_nWakeTicks, clock, nTicks, nTask, m_pTask>>
    BY <1>0, <1>9 DEF Terminate, TypeOK, Waitable
  <2> HIDE DEF state
  <2> QED
    BY <2>1, WakeTimes
<1>10. ASSUME NEW s \in Task, NEW b \in BOOLEAN, Create(t, s, b)
       PROVE  TimesSound'
  <2>1. /\ m_State'[s] # "Sleeping" /\ pc'[s] = "run"
        /\ \A u \in Task \ {s} : m_State'[u] = m_State[u] /\ pc'[u] = pc[u]
    BY <1>0, <1>10 DEF Create, TypeOK
  <2> QED
    BY <1>10, <2>1, TimesKept DEF Create
<1>11. ASSUME NEW s \in Task, Start(t, s) \/ Suspend(t, s)
       PROVE  TimesSound'
  <2>1. \A u \in Task : m_State'[u] # m_State[u] =>
          m_State[u] = "New" /\ m_State'[u] = "Ready"
    BY <1>0, <1>11 DEF Start, Suspend, TypeOK
  <2>2. \A u \in Task : m_State[u] = "New" => pc[u] # "unblock"
    BY DEF TimesSound, EndsByEventOrTime, InWait
  <2> QED
    BY <1>11, <2>1, <2>2, TimesKept DEF Start, Suspend
<1>12. CASE SuspendNewTasks(t)
  BY <1>12, TimesKept DEF SuspendNewTasks
<1>13. CASE ResumeNewTasks(t)
  <2>1. \A u \in Task : m_State'[u] # m_State[u] =>
          m_State[u] = "New" /\ m_State'[u] = "Ready"
    BY <1>13 DEF ResumeNewTasks
  <2>2. \A u \in Task : m_State[u] = "New" => pc[u] # "unblock"
    BY DEF TimesSound, EndsByEventOrTime, InWait
  <2> QED
    BY <1>13, <2>1, <2>2, TimesKept DEF ResumeNewTasks
<1> QED
  BY <1>1, <1>2, <1>4, <1>5, <1>6, <1>7, <1>8, <1>9, <1>10, <1>11, <1>12, <1>13 DEF Call

\* No step but an event makes ready a task whose time is not over.
Early(t) ==
  /\ m_State[t] \in Timed /\ m_State'[t] = "Ready" /\ due[t] # 0
  /\ ~(signalled'[t] /\ m_State[t] = "BlockedWithTimeout")

\* Those whom an event makes ready are told so, ...
LEMMA SetIsNotEarly ==
  ASSUME IInv, panic = "none", NEW w \in Waitable, NEW state, SetEvent(w, state),
         NEW t \in Task, state[t] \in {m_State[t], "Terminated"}
  PROVE  ~Early(t)
<1>1. CASE panic' = "none"
  <2>1. IF t \in m_WaitList[w] THEN state[t] \in InWait /\ m_State'[t] = "Ready"
                               ELSE m_State'[t] = state[t]
    BY <1>1, WakesPointwise DEF IInv
  <2>2. signalled' = [u \in Task |-> signalled[u] \/ u \in m_WaitList[w]]
    BY <1>1 DEF SetEvent, WakeTasks
  <2> QED
    BY <2>1, <2>2 DEF Early, InWait, Timed
<1>2. CASE panic' # "none"
  <2>1. m_State' = state
    BY <1>2 DEF SetEvent, WakeTasks
  <2> QED
    BY <2>1 DEF Early, Timed
<1> QED
  BY <1>1, <1>2


\* ... and those whose time made them ready had none left.
LEMMA StepNotEarly ==
  ASSUME IInv, TInv, Next, NEW t \in Task
  PROVE  ~Early(t)
<1> USE DEF table, where, events, locals, args, history
<1>0. TypeOK
  BY DEF IInv
<1>1. CASE YieldStep
  <2>1. panic = "none" /\ TimesSound
    BY <1>1 DEF YieldStep, ScanStart, ScanPass, ScanReady, ScanSleepOver, ScanTimeout,
                ExpireTimeout, ScanDelete, ScanNone, Scanning, TInv
  <2>2. CASE ScanStart \/ ScanPass \/ ScanReady \/ ScanTimeout \/ ScanNone
    BY <2>2 DEF ScanStart, ScanPass, ScanReady, ScanTimeout, ScanNone, Early, Timed
  <2>3. CASE ScanSleepOver
    <3> DEFINE p == m_pTask[NextSlot]
    <3>1. /\ m_State[p] = "Sleeping" /\ Expired(m_nWakeTicks[p]) /\ cpu = "scan"
          /\ m_State' = [m_State EXCEPT ![p] = "Ready"]
      BY <2>3 DEF ScanSleepOver, Scanning, PassesOver, Timed
    <3> HIDE DEF p
    <3>2. t # p => m_State'[t] = m_State[t]
      BY <1>0, <3>1 DEF TypeOK
    <3>3. t = p => due[t] = 0
      BY <2>1, <3>1 DEF TimesSound, ScanTakesNoneEarly, Limited
    <3> QED
      BY <3>2, <3>3 DEF Early, Timed
  <2>4. CASE ExpireTimeout
    <3> DEFINE p == m_pTask[nTask]
    <3>1. due[p] = 0 /\ m_State' = [m_State EXCEPT ![p] = "Ready"]
      BY <2>1, <2>4 DEF ExpireTimeout, TimesSound, ExpireIsDue
    <3> HIDE DEF p
    <3>2. t # p => m_State'[t] = m_State[t]
      BY <1>0, <3>1 DEF TypeOK
    <3> QED
      BY <3>1, <3>2 DEF Early, Timed
  <2>5. CASE ScanDelete
    <3>1. m_State'[t] \in {m_State[t], "Unknown"}
      BY <1>0, <2>5 DEF ScanDelete, TypeOK
    <3> QED
      BY <3>1 DEF Early, Timed
  <2> QED
    BY <1>1, <2>2, <2>3, <2>4, <2>5 DEF YieldStep
<1>2. ASSUME NEW u \in Task, BlockTask(u) \/ Unblock(u)
      PROVE  ~Early(t)
  <2>1. m_State'[t] \in {m_State[t], "Blocked", "BlockedWithTimeout"}
    BY <1>0, <1>2, ZenonT(60) DEF BlockTask, Unblock, TypeOK
  <2> QED
    BY <2>1 DEF Early, Timed
<1>3. ASSUME NEW u \in Task, Call(u)
      PROVE  ~Early(t)
  <2>1. CASE \E e \in Event : Set(u, e)
    <3>1. PICK e \in Event : Set(u, e)
      BY <2>1
    <3>2. panic = "none" /\ SetEvent(e, m_State) /\ e \in Waitable
      BY <3>1 DEF Set, Calling, Running, Waitable
    <3> QED
      BY <3>2, SetIsNotEarly
  <2>2. CASE Terminate(u)
    <3> DEFINE state == [m_State EXCEPT ![u] = "Terminated"]
    <3>1. /\ panic = "none" /\ SetEvent(u, state) /\ u \in Waitable
          /\ state[t] \in {m_State[t], "Terminated"}
      BY <1>0, <2>2 DEF Terminate, Calling, Running, Waitable, TypeOK
    <3> HIDE DEF state
    <3> QED
      BY <3>1, SetIsNotEarly
  <2>3. CASE \E us \in Delays : usSleep(u, us)
    <3>1. m_State'[t] \in {m_State[t], "Sleeping"}
      BY <1>0, <2>3 DEF usSleep, TypeOK
    <3> QED
      BY <3>1 DEF Early, Timed
  <2>4. CASE \E s \in Task, b \in BOOLEAN : Create(u, s, b)
    <3>1. m_State'[t] = m_State[t] \/ m_State[t] = "Unknown"
      BY <1>0, <2>4 DEF Create, TypeOK
    <3> QED
      BY <3>1 DEF Early, Timed
  <2>5. CASE \/ \E s \in Task : Start(u, s) \/ Suspend(u, s)
             \/ SuspendNewTasks(u) \/ ResumeNewTasks(u)
    <3>1. m_State'[t] = m_State[t] \/ m_State[t] = "New"
      BY <1>0, <2>5 DEF Start, Suspend, SuspendNewTasks, ResumeNewTasks, TypeOK
    <3> QED
      BY <3>1 DEF Early, Timed
  <2>6. CASE \/ Yield(u) \/ \E e \in Event : Wait(u, e) \/ Clear(u, e)
             \/ \E e \in Event, us \in Delays : WaitWithTimeout(u, e, us)
             \/ \E s \in Task : WaitForTermination(u, s)
    <3>1. m_State' = m_State
      BY <2>6 DEF Yield, Wait, Clear, WaitWithTimeout, WaitForTermination
    <3> QED
      BY <3>1 DEF Early, Timed
  <2> QED
    BY <1>3, <2>1, <2>2, <2>3, <2>4, <2>5, <2>6 DEF Call
<1>4. CASE Tick \/ Halted
  <2>1. m_State' = m_State
    BY <1>4 DEF Tick, Halted, vars
  <2> QED
    BY <2>1 DEF Early, Timed
<1>5. ASSUME NEW e \in IrqEvent, IrqSet(e)
      PROVE  ~Early(t)
  <2>1. panic = "none" /\ SetEvent(e, m_State) /\ e \in Waitable
    BY <1>5, SchedulerAssumption DEF IrqSet, Waitable
  <2> QED
    BY <2>1, SetIsNotEarly
<1> QED
  BY <1>1, <1>2, <1>3, <1>4, <1>5 DEF Next, WaitStep, Irq

-----------------------------------------------------------------------------
(* The theorems                                                             *)

\* At the start nobody waits.
LEMMA InitTimes == Init => TInv
BY DEF Init, TInv, TimesSound, EndsByEventOrTime, DeadlineOnClock, ScanTakesNoneEarly,
       ExpireIsDue, Limited

\* All steps together
LEMMA StepTimes ==
  ASSUME DelaysAreShort, IInv, TInv, [Next]_vars
  PROVE  TInv'
<1> SUFFICES ASSUME panic' = "none"
             PROVE  TimesSound'
  BY DEF TInv
<1>1. ASSUME panic # "none"
      PROVE  FALSE
  <2>1. Next => Halted
    BY <1>1, ZenonT(60) DEF Next, YieldStep, ScanStart, ScanPass, ScanReady, ScanSleepOver,
                ScanTimeout, ExpireTimeout, ScanDelete, ScanNone, Scanning, WaitStep,
                BlockTask, Unblock, Call, Yield, usSleep, Wait, WaitWithTimeout,
                WaitForTermination, Set, Clear, Terminate, Create, Start, Suspend,
                SuspendNewTasks, ResumeNewTasks, Calling, Running, Irq, Tick, IrqSet
  <2>2. panic' = panic
    BY <2>1 DEF Halted, vars
  <2> QED
    BY <1>1, <2>2
<1>2. panic = "none" /\ TimesSound
  BY <1>1 DEF TInv
<1>3. CASE YieldStep
  BY <1>2, <1>3, ScanTimes
<1>4. ASSUME NEW t \in Task, BlockTask(t) \/ Unblock(t)
      PROVE  TimesSound'
  BY <1>2, <1>4, WaitTimes
<1>5. ASSUME NEW t \in Task, Call(t)
      PROVE  TimesSound'
  BY <1>2, <1>5, CallTimes
<1>6. CASE Irq
  BY <1>2, <1>6, IrqTimes
<1>7. CASE UNCHANGED vars
  <2>1. /\ UNCHANGED <<m_State, m_nWakeTicks, clock, cpu, pc, nTicks, waitTicks, signalled>>
        /\ UNCHANGED <<due, nTask, m_pTask>>
    BY <1>7 DEF vars, table, where, events, locals, args, history
  <2> QED
    BY <1>2, <2>1 DEF TimesSound, EndsByEventOrTime, DeadlineOnClock, ScanTakesNoneEarly,
                      ExpireIsDue, Limited, Expired
<1> QED
  BY <1>2, <1>3, <1>4, <1>5, <1>6, <1>7 DEF Next, WaitStep, Halted

\* The invariant the theorems below follow from
LEMMA TimesAlways ==
  ASSUME DelaysAreShort
  PROVE  Spec => [](IInv /\ TInv)
<1>1. Init => IInv /\ TInv
  BY InitSound, InitTimes
<1>2. IInv /\ TInv /\ [Next]_vars => (IInv /\ TInv)'
  BY StepSound, StepTimes
<1> QED
  BY <1>1, <1>2, PTL DEF Spec

\* A limit is a positive number of ticks; 0 stands for none.
LEMMA LimitsArePositive ==
  ASSUME IInv, NEW t \in Task
  PROVE  waitTicks[t] # 0 <=> waitTicks[t] > 0
<1>1. waitTicks[t] \in Delays \cup {0}
  BY DEF IInv, TypeOK
<1>2. \A d \in Delays : d # 0 /\ d > 0
  BY SchedulerAssumption
<1> QED
  BY <1>1, <1>2

\* WaitWithTimeout() returns because of the event or because of the time, and
\* when it denies a timeout it was the event, although interrupt handlers set
\* the event while GetNextTask() is about to end the wait for its time.
THEOREM ReturnsForAReason ==
  ASSUME DelaysAreShort
  PROVE  Spec => []NoSpuriousReturn
<1>1. IInv /\ TInv => NoSpuriousReturn
  <2> SUFFICES ASSUME IInv, TInv, NEW t \in Task, Running(t), pc[t] = "unblock"
               PROVE  /\ signalled[t] \/ (waitTicks[t] > 0 /\ due[t] = 0)
                      /\ waitTicks[t] > 0 /\ ~ReturnsTimeout(t) => signalled[t]
    BY DEF NoSpuriousReturn
  <2>1. m_State[t] = "Ready" /\ TimesSound
    BY DEF Running, IInv, Sound, PlacesSound, TInv
  <2>2. signalled[t] \/ (waitTicks[t] # 0 /\ due[t] = 0 /\ m_nWakeTicks[t] = 0)
    BY <2>1 DEF TimesSound, EndsByEventOrTime
  <2>3. waitTicks[t] # 0 <=> waitTicks[t] > 0
    BY LimitsArePositive
  <2> QED
    BY <2>2, <2>3 DEF ReturnsTimeout
<1> QED
  BY <1>1, TimesAlways, PTL

\* A timeout that is reported has elapsed, but for a deadline that is 0 on the
\* clock (BlockTask, ExpireTimeout).
THEOREM TimeoutsElapse ==
  ASSUME DelaysAreShort
  PROVE  Spec => []TimeoutMeansElapsed
<1>1. IInv /\ TInv => TimeoutMeansElapsed
  <2> SUFFICES ASSUME IInv, TInv, NEW t \in Task, Running(t), pc[t] = "unblock",
                      waitTicks[t] > 0, m_nWakeTicks[t] = 0, due[t] # 0
               PROVE  (clock + due[t]) % ClockWrap = 0
    BY DEF TimeoutMeansElapsed, ReturnsTimeout
  <2>1. TimesSound
    BY DEF Running, TInv
  <2>2. waitTicks[t] # 0
    BY LimitsArePositive
  <2> QED
    BY <2>1, <2>2 DEF TimesSound, DeadlineOnClock, Limited
<1> QED
  BY <1>1, TimesAlways, PTL

\* Nobody gets up before its time unless an event woke it, although the clock
\* goes on and turns over while GetNextTask() scans (GetNextTask, WakeTasks).
THEOREM NobodyIsEarly ==
  ASSUME DelaysAreShort
  PROVE  Spec => NoEarlyWakeup
<1> DEFINE OnTime == \A t \in Task : m_State[t] \in Timed /\ m_State'[t] = "Ready" =>
              due[t] = 0 \/ (signalled'[t] /\ m_State[t] = "BlockedWithTimeout")
<1>1. IInv /\ TInv /\ [Next]_vars => [OnTime]_vars
  <2> SUFFICES ASSUME IInv, TInv, Next
               PROVE  OnTime
    OBVIOUS
  <2> QED
    BY StepNotEarly DEF Early
<1> QED
  BY <1>1, TimesAlways, PTL DEF Spec, NoEarlyWakeup

=============================================================================
