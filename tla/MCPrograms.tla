----------------------------- MODULE MCPrograms -----------------------------
(***************************************************************************)
(* Programs on the scheduler whose tasks share a mutex, share a semaphore,   *)
(* or create and join threads: one of those named by Programs is chosen at   *)
(* the start.                                                                *)
(***************************************************************************)
EXTENDS Mutex, Semaphore, LinuxThread

CONSTANT Programs

VARIABLE program

programsVars == <<program, vars, mutexVars, semVars, threadVars>>

ProgramsInit == program \in Programs /\ MutexInit /\ SemInit /\ ThreadInit

ProgramsNext ==
  /\ UNCHANGED program
  /\ \/ program = "mutex" /\ MutexNext /\ UNCHANGED <<semVars, threadVars>>
     \/ program = "semaphore" /\ SemNext /\ UNCHANGED <<mutexVars, threadVars>>
     \/ program = "threads" /\ ThreadNext /\ UNCHANGED <<mutexVars, semVars>>

ProgramsSpec == ProgramsInit /\ [][ProgramsNext]_programsVars

\* As in Scheduler, for tasks that are not inside one of the calls; and a task
\* in a call goes on with it while it has the processor, and whoever owns the
\* mutex again and again releases it.
OutsideCalls(t) == t \notin acquiring /\ at[t] = "out" /\ joining[t] = NULL
ProgramsFairness ==
  /\ WF_vars(YieldStep \/ WaitStep)
  /\ \A t \in Task : /\ SF_vars(OutsideCalls(t) /\ Yield(t))
                     /\ WF_mutexSysVars(AcquireTakes(t) \/ AcquireWaits(t))
                     /\ WF_semSysVars(SemStep(t))
                     /\ WF_threadSysVars(JoinEnds(t))
  /\ SF_mutexSysVars(\E t \in Task : Release(t))

ProgramsFairSpec == ProgramsSpec /\ ProgramsFairness

\* What the programs call besides
ProgramCalls == {"Yield", "Create", "Terminate", "WaitForTermination"}

=============================================================================
