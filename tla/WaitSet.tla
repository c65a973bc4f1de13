------------------------------ MODULE WaitSet ------------------------------
(***************************************************************************)
(* What the wait lists of the scheduler stand for: each event has a set of   *)
(* waiting tasks; waking the event empties it and readies its tasks.  This   *)
(* is how module Scheduler sees them.                                        *)
(***************************************************************************)
CONSTANTS Task, Event

VARIABLES waiting, blocked

waitSetVars == <<waiting, blocked>>

WaitSetInit == waiting = [e \in Event |-> {}] /\ blocked = {}

Block(t, e) ==
  /\ \A f \in Event : t \notin waiting[f]
  /\ waiting' = [waiting EXCEPT ![e] = @ \cup {t}]
  /\ blocked' = blocked \cup {t}

\* The timeout of t is over: it is ready, but not off the list yet.
TimeOut(t) ==
  /\ t \in blocked
  /\ blocked' = blocked \ {t}
  /\ UNCHANGED waiting

Leave(t, e) ==
  /\ t \notin blocked
  /\ waiting' = [waiting EXCEPT ![e] = @ \ {t}]
  /\ UNCHANGED blocked

Wake(e) ==
  /\ waiting[e] \subseteq blocked
  /\ waiting' = [waiting EXCEPT ![e] = {}]
  /\ blocked' = blocked \ waiting[e]

WaitSetNext ==
  \/ \E t \in Task : TimeOut(t)
  \/ \E t \in Task, e \in Event : Block(t, e) \/ Leave(t, e)
  \/ \E e \in Event : Wake(e)

WaitSetSpec == WaitSetInit /\ [][WaitSetNext]_waitSetVars

=============================================================================
