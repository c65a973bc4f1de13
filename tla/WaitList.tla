------------------------------ MODULE WaitList ------------------------------
(***************************************************************************)
(* The wait lists as scheduler.cpp keeps them: a head per event and one      *)
(* m_pWaitListNext per task, shared by all lists.  Each critical section of  *)
(* BlockTask and WakeTasks runs its loop one pointer at a time under          *)
(* m_SpinLock; only the lock keeps the sections apart.                       *)
(***************************************************************************)
EXTENDS Naturals, Links

CONSTANTS Task, Event, NULL

ASSUME WaitListAssumption ==
  Task # {} /\ Event # {} /\ NULL \notin Task \cup Event

VARIABLES
  m_pWaitListHead,     \* per event
  m_pWaitListNext,     \* per task
  blocked,             \* tasks in state Blocked or BlockedWithTimeout
  inside,              \* the event each task is inside BlockTask() for
  section,             \* the critical section being executed, if any
  p, pPrev,            \* the locals of its loop
  doomed               \* history: the tasks a WakeTasks() has still to wake

lists == <<m_pWaitListHead, m_pWaitListNext>>
loop == <<section, p, pPrev, doomed>>
waitListVars == <<lists, blocked, inside, loop>>

Free == [in |-> "none", ev |-> NULL, by |-> NULL]

WaitListInit ==
  /\ m_pWaitListHead = [e \in Event |-> NULL]
  /\ m_pWaitListNext = [t \in Task |-> NULL]
  /\ blocked = {}
  /\ inside = [t \in Task |-> NULL]
  /\ section = Free /\ p = NULL /\ pPrev = NULL /\ doomed = {}

Unlocked == section = Free

\* BlockTask: the task becomes the head of the list, and is blocked.
BlockTask(t, e) ==
  /\ Unlocked /\ inside[t] = NULL
  /\ m_pWaitListNext' = [m_pWaitListNext EXCEPT ![t] = m_pWaitListHead[e]]
  /\ m_pWaitListHead' = [m_pWaitListHead EXCEPT ![e] = t]
  /\ blocked' = blocked \cup {t}
  /\ inside' = [inside EXCEPT ![t] = e]
  /\ UNCHANGED loop

\* GetNextTask readies a task whose timeout is over.
TimeOut(t) ==
  /\ Unlocked /\ t \in blocked
  /\ blocked' = blocked \ {t}
  /\ UNCHANGED <<lists, inside, loop>>

\* BlockTask goes on when its task runs again: walk the list ...
BeginRemove(t) ==
  /\ Unlocked /\ inside[t] # NULL /\ t \notin blocked
  /\ section' = [in |-> "remove", ev |-> inside[t], by |-> t]
  /\ p' = m_pWaitListHead[inside[t]] /\ pPrev' = NULL
  /\ UNCHANGED <<lists, blocked, inside, doomed>>

\* Mutant: a task at the head of the list takes the rest of it along.
RemoveStep_DropsRest ==
  LET t == section.by
  IN  /\ section.in = "remove" /\ p # NULL
      /\ IF p # t THEN UNCHANGED lists
         ELSE IF pPrev # NULL
         THEN /\ m_pWaitListNext' =
                   [m_pWaitListNext EXCEPT ![pPrev] = m_pWaitListNext[p]]
              /\ UNCHANGED m_pWaitListHead
         ELSE /\ m_pWaitListHead' = [m_pWaitListHead EXCEPT ![section.ev] = NULL]
              /\ UNCHANGED m_pWaitListNext
      /\ pPrev' = p
      /\ p' = m_pWaitListNext'[p]
      /\ UNCHANGED <<blocked, inside, section, doomed>>

\* ... unlinking the task where it is found ...
RemoveStep ==
  LET t == section.by
  IN  /\ section.in = "remove" /\ p # NULL
      /\ IF p # t THEN UNCHANGED lists
         ELSE IF pPrev # NULL
         THEN /\ m_pWaitListNext' =
                   [m_pWaitListNext EXCEPT ![pPrev] = m_pWaitListNext[p]]
              /\ UNCHANGED m_pWaitListHead
         ELSE /\ m_pWaitListHead' =
                   [m_pWaitListHead EXCEPT ![section.ev] = m_pWaitListNext[p]]
              /\ UNCHANGED m_pWaitListNext
      /\ pPrev' = p
      /\ p' = m_pWaitListNext'[p]
      /\ UNCHANGED <<blocked, inside, section, doomed>>

\* Mutant: the link of the task is left as it was.
EndRemove_KeepsLink ==
  /\ section.in = "remove" /\ p = NULL
  /\ inside' = [inside EXCEPT ![section.by] = NULL]
  /\ section' = Free /\ pPrev' = NULL
  /\ UNCHANGED <<lists, blocked, p, doomed>>

\* ... and clear its link.
EndRemove ==
  /\ section.in = "remove" /\ p = NULL
  /\ m_pWaitListNext' = [m_pWaitListNext EXCEPT ![section.by] = NULL]
  /\ inside' = [inside EXCEPT ![section.by] = NULL]
  /\ section' = Free /\ pPrev' = NULL
  /\ UNCHANGED <<m_pWaitListHead, blocked, p, doomed>>

\* The tasks of a list, in the terms of module WaitSet
Members(e) == From(Task, m_pWaitListNext, m_pWaitListHead[e])

\* WakeTasks: detach the list, ...
BeginWake(e) ==
  /\ Unlocked /\ m_pWaitListHead[e] # NULL
  /\ Members(e) \subseteq blocked      \* as Scheduler's WakeTasks asserts
  /\ section' = [in |-> "wake", ev |-> e, by |-> NULL]
  /\ p' = m_pWaitListHead[e]
  /\ m_pWaitListHead' = [m_pWaitListHead EXCEPT ![e] = NULL]
  /\ doomed' = Members(e)
  /\ UNCHANGED <<m_pWaitListNext, blocked, inside, pPrev>>

\* ... then ready its tasks and clear their links, one by one.
WakeStep ==
  /\ section.in = "wake" /\ p # NULL
  /\ blocked' = blocked \ {p}
  /\ m_pWaitListNext' = [m_pWaitListNext EXCEPT ![p] = NULL]
  /\ p' = m_pWaitListNext[p]
  /\ doomed' = doomed \ {p}
  /\ UNCHANGED <<m_pWaitListHead, inside, section, pPrev>>

EndWake ==
  /\ section.in = "wake" /\ p = NULL
  /\ section' = Free
  /\ UNCHANGED <<lists, blocked, inside, p, pPrev, doomed>>

WaitListNext ==
  \/ \E t \in Task, e \in Event : BlockTask(t, e)
  \/ \E t \in Task : TimeOut(t) \/ BeginRemove(t)
  \/ RemoveStep \/ EndRemove
  \/ \E e \in Event : BeginWake(e)
  \/ WakeStep \/ EndWake

WaitListSpec == WaitListInit /\ [][WaitListNext]_waitListVars

-----------------------------------------------------------------------------

\* Outside the critical sections the pointers of the lists are sound: a task
\* that is not inside BlockTask has no link (the assertion m_pWaitListNext == 0
\* at its start), and the lists are disjoint.
PointersOK ==
  Unlocked =>
    /\ \A t \in Task : inside[t] = NULL => m_pWaitListNext[t] = NULL
    /\ \A e, f \in Event : e # f => Members(e) \cap Members(f) = {}
    /\ \A e \in Event : \A t \in Members(e) : inside[t] = e

\* The pointers implement sets of waiting tasks.  A wakeup takes effect when
\* the list is detached, although the states of the tasks follow one by one;
\* a removal when the task is unlinked.
W == INSTANCE WaitSet WITH waiting <- [e \in Event |-> Members(e)],
                           blocked <- blocked \ doomed
ImplementsWaitSet == W!WaitSetSpec

=============================================================================
