-------------------------------- MODULE Mutex --------------------------------
(***************************************************************************)
(* CMutex (lib/sched/mutex.cpp) on top of the scheduler: one mutex, whose    *)
(* m_event is the event Mx.  Besides, tasks yield and create tasks.          *)
(***************************************************************************)
EXTENDS Scheduler

CONSTANTS Mx,          \* the m_event of the mutex
          MaxDepth     \* bound on nested Acquire() calls of one task

ASSUME MutexAssumption == Mx \in Event /\ MaxDepth \in Nat \ {0}

VARIABLES m_pOwningTask, m_iReentrancyCount,
          acquiring    \* the tasks inside Acquire()

mutexVars == <<m_pOwningTask, m_iReentrancyCount, acquiring>>
mutexSysVars == <<vars, mutexVars>>

MutexInit ==
  /\ Init
  /\ m_pOwningTask = NULL /\ m_iReentrancyCount = 0 /\ acquiring = {}

\* A task calls Acquire().
Acquire(t) ==
  /\ Running(t) /\ pc[t] = "run" /\ t \notin acquiring
  /\ m_pOwningTask = t => m_iReentrancyCount < MaxDepth
  /\ acquiring' = acquiring \cup {t}
  /\ UNCHANGED <<vars, m_pOwningTask, m_iReentrancyCount>>

InLoop(t) == Running(t) /\ pc[t] = "run" /\ t \in acquiring

\* One iteration of its loop: the mutex is free, or the task's own ...
AcquireTakes(t) ==
  /\ InLoop(t)
  /\ \/ /\ m_pOwningTask = NULL
        /\ m_pOwningTask' = t /\ m_iReentrancyCount' = 1
     \/ /\ m_pOwningTask = t
        /\ m_iReentrancyCount' = m_iReentrancyCount + 1
        /\ UNCHANGED m_pOwningTask
  /\ acquiring' = acquiring \ {t}
  /\ UNCHANGED vars

\* ... or it waits for the pulse of a Release().
AcquireWaits(t) ==
  /\ InLoop(t)
  /\ m_pOwningTask \notin {NULL, t}
  /\ BeginWait(t, Mx, 0)
  /\ UNCHANGED <<mutexVars, table, where, m_State, m_bSuspended, m_nWakeTicks,
                 events, clock, cpu, locals, panic, history>>

\* CSynchronizationEvent::Pulse
Pulse(w) ==
  /\ m_bState' = [m_bState EXCEPT ![w] = FALSE]
  /\ WakeTasks(w, m_State)

\* Mutant: Release() does not yield.
Release_NoYield(t) ==
  /\ Running(t) /\ pc[t] = "run" /\ t \notin acquiring
  /\ m_pOwningTask = t
  /\ m_iReentrancyCount' = m_iReentrancyCount - 1
  /\ IF m_iReentrancyCount = 1
     THEN m_pOwningTask' = NULL /\ Pulse(Mx)
     ELSE UNCHANGED <<m_pOwningTask, events, m_State, signalled, panic>>
  /\ UNCHANGED <<acquiring, table, where, m_bSuspended, m_nWakeTicks, clock,
                 cpu, pc, locals, args, due>>

Release(t) ==
  /\ Running(t) /\ pc[t] = "run" /\ t \notin acquiring
  /\ m_pOwningTask = t
  /\ m_iReentrancyCount' = m_iReentrancyCount - 1
  /\ IF m_iReentrancyCount = 1
     THEN m_pOwningTask' = NULL /\ Pulse(Mx) /\ cpu' = "yield"
     ELSE UNCHANGED <<m_pOwningTask, events, m_State, signalled, panic, cpu>>
  /\ UNCHANGED <<acquiring, table, where, m_bSuspended, m_nWakeTicks, clock, pc,
                 locals, args, due>>

\* The rest of the system; the tasks that share the mutex come, and stay.
MutexOther ==
  /\ \/ YieldStep \/ WaitStep \/ Irq \/ Halted
     \/ \E t \in Task \ acquiring :
          Yield(t) \/ \E s \in Task : Create(t, s, FALSE)
  /\ UNCHANGED mutexVars

MutexNext ==
  \/ MutexOther
  \/ \E t \in Task : \/ Acquire(t) \/ AcquireTakes(t) \/ AcquireWaits(t)
                     \/ Release(t)

MutexSpec == MutexInit /\ [][MutexNext]_mutexSysVars

-----------------------------------------------------------------------------
(* Correctness                                                              *)

\* CMutex is a lock: every step of it is one of the lock's, and every task
\* that asks for it gets it, by the rounds the scheduler makes and although
\* Release() hands the mutex to nobody (Acquire, Release).
L == INSTANCE Lock WITH owner <- m_pOwningTask, depth <- m_iReentrancyCount,
                        waiting <- acquiring
ImplementsLock == L!LockSpec

=============================================================================
