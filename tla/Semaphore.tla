------------------------------ MODULE Semaphore ------------------------------
(***************************************************************************)
(* CSemaphore (lib/sched/semaphore.cpp) on top of the scheduler: one         *)
(* semaphore, whose m_Event is the event Sm.  Up() may come from interrupt   *)
(* handlers as well, between any two steps of Down(), TryDown() and Up().    *)
(***************************************************************************)
EXTENDS Scheduler

CONSTANTS Sm,            \* the m_Event of the semaphore
          InitialCount,
          MaxCount       \* bound on m_nCount: Up() is not called beyond it

ASSUME SemaphoreAssumption ==
  /\ Sm \in SetInitially /\ Sm \notin IrqEvent
  /\ InitialCount \in Nat \ {0}
  /\ MaxCount \in Nat /\ MaxCount >= InitialCount

VARIABLES m_nCount,
          at,            \* where each task is in Down(), TryDown() or Up()
          raced          \* history: an interrupt's Up() has hit Down() in one
                         \* of the two places named at IrqUp

semVars == <<m_nCount, at, raced>>
semSysVars == <<vars, semVars>>

SemInit ==
  /\ Init
  /\ m_nCount = InitialCount
  /\ at = [t \in Task |-> "out"]
  /\ raced = FALSE

Inside(t, place) == Running(t) /\ pc[t] = "run" /\ at[t] = place
Go(t, place) == at' = [at EXCEPT ![t] = place] /\ UNCHANGED raced

\* Down() is called ...
Down(t) ==
  /\ Inside(t, "out")
  /\ Go(t, "test")
  /\ UNCHANGED <<vars, m_nCount>>

\* ... and looks whether there is something to take ...
DownPasses(t) ==
  /\ Inside(t, "test")
  /\ m_nCount # 0
  /\ Go(t, "decrement")
  /\ UNCHANGED <<vars, m_nCount>>

\* ... or waits; if the event is set, Wait() returns and it looks again.
DownWaits(t) ==
  /\ Inside(t, "test")
  /\ m_nCount = 0
  /\ BeginWait(t, Sm, 0)
  /\ UNCHANGED <<semVars, table, where, m_State, m_bSuspended, m_nWakeTicks,
                 events, clock, cpu, locals, panic, history>>

\* TryDown() on a semaphore that is not 0; on one that is, it does nothing.
TryDown(t) ==
  /\ Inside(t, "out")
  /\ m_nCount # 0
  /\ Go(t, "decrement")
  /\ UNCHANGED <<vars, m_nCount>>

Decrement(t) ==
  /\ Inside(t, "decrement")
  /\ m_nCount' = m_nCount - 1
  /\ Go(t, IF m_nCount = 1 THEN "clear" ELSE "out")
  /\ UNCHANGED vars

\* Mutant: the event stays set.
ClearEvent_Forgotten(t) ==
  /\ Inside(t, "clear")
  /\ Go(t, "out")
  /\ UNCHANGED <<m_nCount, vars>>

\* The count has become 0: assert (m_Event.GetState ()); m_Event.Clear ()
ClearEvent(t) ==
  /\ Inside(t, "clear")
  /\ IF m_bState[Sm]
     THEN /\ m_bState' = [m_bState EXCEPT ![Sm] = FALSE]
          /\ UNCHANGED panic
     ELSE /\ panic' = "CSemaphore::Down: event not set"
          /\ UNCHANGED m_bState
  /\ Go(t, "out")
  /\ UNCHANGED <<m_nCount, table, where, m_State, m_bSuspended, m_nWakeTicks,
                 m_WaitList, clock, cpu, pc, locals, args, history>>

\* The count has become 1: assert (!m_Event.GetState ()); m_Event.Set ()
SignalUp ==
  /\ IF m_bState[Sm]
     THEN /\ panic' = "CSemaphore::Up: event set"
          /\ UNCHANGED <<events, m_State, signalled>>
     ELSE SetEvent(Sm, m_State)
  /\ UNCHANGED <<table, where, m_bSuspended, m_nWakeTicks, clock, cpu, pc,
                 locals, args, due>>

Up(t) ==
  /\ Inside(t, "out")
  /\ m_nCount < MaxCount
  /\ m_nCount' = m_nCount + 1
  /\ Go(t, IF m_nCount = 0 THEN "set" ELSE "out")
  /\ UNCHANGED vars

UpSignals(t) ==
  /\ Inside(t, "set")
  /\ SignalUp
  /\ Go(t, "out")
  /\ UNCHANGED m_nCount

\* Up() in an interrupt handler is not interrupted.  It may find a Down()
\* between its decrement and its Clear(), or between the test of the event and
\* BlockTask().
IrqUp ==
  /\ panic = "none"
  /\ m_nCount < MaxCount
  /\ m_nCount' = m_nCount + 1
  /\ IF m_nCount = 0 THEN SignalUp ELSE UNCHANGED vars
  /\ raced' = (raced \/ \E t \in Task : at[t] = "clear" \/ pc[t] = "wait")
  /\ UNCHANGED at

\* The rest of the system
SemOther ==
  /\ \/ YieldStep \/ WaitStep \/ Irq \/ Halted
     \/ \E t \in Task : /\ at[t] = "out"
                        /\ Yield(t) \/ \E s \in Task : Create(t, s, FALSE)
  /\ UNCHANGED semVars

SemStep(t) == \/ DownPasses(t) \/ DownWaits(t) \/ Decrement(t)
              \/ ClearEvent(t) \/ UpSignals(t)

SemNext == \/ SemOther \/ IrqUp
           \/ \E t \in Task : Down(t) \/ TryDown(t) \/ Up(t) \/ SemStep(t)

SemSpec == SemInit /\ [][SemNext]_semSysVars

-----------------------------------------------------------------------------
(* Correctness                                                              *)

\* Nobody takes what is not there, although Down() tests and decrements in
\* two steps and every waiter is woken at once; and between the steps of Down()
\* and Up() the event tells whether the count is positive: the assertions in
\* both rest on it.
EventTellsCount ==
  /\ m_nCount >= 0
  /\ panic = "none" /\ (\A t \in Task : at[t] \notin {"clear", "set"}) =>
       (m_bState[Sm] <=> m_nCount > 0)

\* The assertions of Down() and Up() about the event hold.
SemaphoreAssertionsHold ==
  panic \notin {"CSemaphore::Down: event not set", "CSemaphore::Up: event set"}

\* They hold but for an Up() from an interrupt in one of those two places.
AssertionsHoldUnlessRaced == ~raced => SemaphoreAssertionsHold

\* Nobody is left blocked while the semaphore can be taken ("wake another
\* waiting task, if count was 0"), with the same exception.
NobodyBlockedWhileAvailable ==
  ~raced /\ m_nCount > 0 /\ (\A t \in Task : at[t] # "set") =>
    \A t \in m_WaitList[Sm] : m_State[t] # "Blocked"

\* A semaphore that has something to take does not keep a task in Down() for
\* ever, although every waiter is woken at once and has to look again.
WaiterGetsThrough ==
  \A t \in Task : <>[](m_nCount > 0 /\ ~raced) => []<>(at[t] # "test")

=============================================================================
