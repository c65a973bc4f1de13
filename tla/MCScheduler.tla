---------------------------- MODULE MCScheduler ----------------------------
(***************************************************************************)
(* Instances of Scheduler for TLC: sets of calls for one question each.     *)
(***************************************************************************)
EXTENDS Scheduler, TLC

\* Everything but the clock ...
TaskCalls == {"Yield", "Create", "Start", "Suspend", "SuspendNewTasks", "Wait",
              "Set", "Clear", "Terminate", "WaitForTermination"}
\* ... what rests on the clock and on tasks that end ...
FairCalls == {"Yield", "Create", "Terminate", "WaitForTermination", "Sleep",
              "WaitWithTimeout", "Set", "Clear"}
\* ... and waits that meet interrupts.
IrqCalls == {"Yield", "Create", "Wait", "WaitWithTimeout", "Clear"}

\* Tasks other than the main task are interchangeable.
Symmetry == Permutations(Task \ {Main})

=============================================================================
