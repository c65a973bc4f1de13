-------------------------------- MODULE Lock --------------------------------
(***************************************************************************)
(* What a mutex promises its users: a task that asks for it waits, at most  *)
(* one task owns it, the owner may ask again and owns it until it has let   *)
(* go as often as it asked, and every task that waits gets it.              *)
(***************************************************************************)
EXTENDS Naturals

CONSTANTS Task, MaxDepth, NULL

VARIABLES owner, depth, waiting

lockVars == <<owner, depth, waiting>>

LockInit == owner = NULL /\ depth = 0 /\ waiting = {}

Ask(t) ==
  /\ t \notin waiting
  /\ waiting' = waiting \cup {t}
  /\ UNCHANGED <<owner, depth>>

Take(t) ==
  /\ t \in waiting
  /\ \/ owner = NULL /\ depth' = 1
     \/ owner = t /\ depth < MaxDepth /\ depth' = depth + 1
  /\ owner' = t
  /\ waiting' = waiting \ {t}

LetGo(t) ==
  /\ owner = t /\ t \notin waiting
  /\ depth' = depth - 1
  /\ owner' = IF depth = 1 THEN NULL ELSE t
  /\ UNCHANGED waiting

LockNext == \E t \in Task : Ask(t) \/ Take(t) \/ LetGo(t)

LockSpec == LockInit /\ [][LockNext]_lockVars /\ \A t \in Task : SF_lockVars(Take(t))

=============================================================================
