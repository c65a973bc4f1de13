----------------------------- MODULE RoundRobin -----------------------------
(***************************************************************************)
(* The policy the scheduler announces (circle/sched/scheduler.h: "uses the   *)
(* round-robin policy, without priorities"), watched over Scheduler with a   *)
(* history variable: which tasks got the processor while a task was ready.   *)
(***************************************************************************)
EXTENDS Scheduler

VARIABLE ahead

Runnable(t) == m_State[t] = "Ready" /\ ~m_bSuspended[t]

\* The step gives the processor to a task.
Turn == cpu # "task" /\ cpu' = "task"

Watch ==
  ahead' = [t \in Task |->
              IF ~Runnable(t) \/ ~Runnable(t)' \/ (Turn /\ m_pCurrent' = t) THEN {}
              ELSE IF Turn THEN ahead[t] \cup {m_pCurrent'}
              ELSE ahead[t]]

WatchedSpec == /\ Init /\ ahead = [t \in Task |-> {}]
               /\ [][Next /\ Watch]_<<vars, ahead>>

\* Nobody gets the processor twice while another task is ready all the time
\* and does not get it (GetNextTask, whose scan goes on where the last one
\* ended, or restarts at a fixed slot).
TakesTurns ==
  [][Turn => \A t \in Task \ {m_pCurrent'} :
       Runnable(t) => m_pCurrent' \notin ahead[t]]_<<vars, ahead>>

=============================================================================
