---------------------------- MODULE LinuxThread ----------------------------
(***************************************************************************)
(* The threads of the Linux emulation (addon/linux/pthread.cpp, kthread.cpp) *)
(* on the scheduler.  A thread is a task together with a block of the heap: *)
(* its struct pthread and task_struct, which are allocated and freed as one *)
(* here.  pthread_join() frees the block; the scheduler writes to it when it *)
(* deletes the task, which may be later.                                     *)
(***************************************************************************)
EXTENDS Scheduler

CONSTANT Thread            \* the blocks of the heap threads can get

\* pthread_join() waits for the termination of a task, as programs may.
ASSUME ThreadAssumption ==
  /\ Thread # {} /\ NULL \notin Thread
  /\ "WaitForTermination" \in Calls

VARIABLES
  allocated,               \* the blocks that are not free
  terminated, taskobj,     \* their fields, which stay when they are freed
  userData,                \* TASK_USER_DATA_KTHREAD of each task
  current,                 \* of kthread.cpp
  joining                  \* the thread each task is in pthread_join() for

\* History: the blocks whose thread has ended, and whether a block was ever
\* allocated again while the task of its old thread was still to be deleted.
VARIABLES ended, reused

blocks == <<allocated, taskobj, ended, reused>>
threadVars == <<blocks, terminated, userData, current, joining>>
threadSysVars == <<vars, threadVars>>

\* linuxemu_init_kthread(): the main task gets a block as well.
ThreadInit ==
  /\ Init
  /\ \E b \in Thread :
       /\ allocated = {b}
       /\ terminated = [c \in Thread |-> FALSE]
       /\ taskobj = [c \in Thread |-> NULL]
       /\ userData = [t \in Task |-> IF t = Main THEN b ELSE NULL]
       /\ current = b
  /\ joining = [t \in Task |-> NULL]
  /\ ended = {} /\ reused = FALSE

Deleted == {t \in Task : m_State[t] = "Terminated" /\ m_State'[t] = "Unknown"}

\* Mutant: the handler marks the thread that runs.
task_termination_handler_Current ==
  terminated' = IF Deleted = {} THEN terminated
                ELSE [terminated EXCEPT ![current] = TRUE]

\* What the scheduler calls back to: before a task is deleted ...
task_termination_handler ==
  terminated' = [b \in Thread |->
                   terminated[b] \/ \E t \in Deleted : userData[t] = b]

\* ... and when another task gets the processor.
task_switch_handler ==
  current' = IF m_pCurrent' = m_pCurrent THEN current ELSE userData[m_pCurrent']

InThread(t) == Running(t) /\ pc[t] = "run" /\ joining[t] = NULL

\* The scheduler's own steps, and what a thread does besides
ThreadOther ==
  /\ \/ YieldStep \/ WaitStep \/ Irq \/ Halted
     \/ \E t \in Task : InThread(t) /\ Yield(t)
  /\ task_termination_handler /\ task_switch_handler
  /\ UNCHANGED <<blocks, userData, joining>>

\* Any block that is free may be the next one, since the program allocates
\* and frees other things of the same size as well.
pthread_create(t, s) ==
  /\ InThread(t)
  /\ Create(t, s, FALSE)
  /\ \E b \in Thread \ allocated :
       /\ allocated' = allocated \cup {b}
       /\ terminated' = [terminated EXCEPT ![b] = FALSE]
       /\ taskobj' = [taskobj EXCEPT ![b] = s]
       /\ userData' = [userData EXCEPT ![s] = b]
       /\ ended' = ended \ {b}
       /\ reused' = (reused \/ \E u \in Task : /\ m_State[u] = "Terminated"
                                               /\ userData[u] = b)
  /\ UNCHANGED <<current, joining>>

\* Mutant: a thread that is not deleted yet is not waited for either.
pthread_join_NoWait(t, b) ==
  /\ InThread(t)
  /\ b \in allocated /\ taskobj[b] \notin {NULL, t}
  /\ \A u \in Task : joining[u] # b
  /\ joining' = [joining EXCEPT ![t] = b]
  /\ UNCHANGED <<vars, blocks, terminated, userData, current>>

\* A thread is joined once, by another thread.  Unless it is marked, its task
\* is waited for, if the scheduler still knows it and it has not ended yet.
pthread_join(t, b) ==
  LET s == taskobj[b]
      waits == ~terminated[b] /\ IsValidTask(s) /\ ~m_bState[s]
  IN  /\ InThread(t)
      /\ b \in allocated /\ s \notin {NULL, t}
      /\ \A u \in Task : joining[u] # b
      /\ joining' = [joining EXCEPT ![t] = b]
      /\ \/ /\ waits
            /\ BeginWait(t, s, 0)
            /\ UNCHANGED <<table, where, m_State, m_bSuspended, m_nWakeTicks,
                           events, clock, cpu, locals, panic, history>>
         \/ ~waits /\ UNCHANGED vars
      /\ UNCHANGED <<blocks, terminated, userData, current>>

\* The block is freed.  What becomes of a thread that still runs on it is
\* undefined: the model stops there.
JoinEnds(t) ==
  /\ Running(t) /\ pc[t] = "run" /\ joining[t] # NULL
  /\ allocated' = allocated \ {joining[t]}
  /\ joining' = [joining EXCEPT ![t] = NULL]
  /\ panic' = IF joining[t] \in ended THEN panic ELSE "thread freed"
  /\ UNCHANGED <<table, where, m_State, m_bSuspended, m_nWakeTicks, events,
                 clock, cpu, pc, locals, args, history, terminated, taskobj,
                 userData, current, ended, reused>>

\* The thread's function returns, ...
ThreadReturns(t) ==
  /\ InThread(t)
  /\ Terminate(t)
  /\ ended' = ended \cup {userData[t]}
  /\ UNCHANGED <<allocated, taskobj, reused, terminated, userData, current,
                 joining>>

\* ... or it ends itself: BUG_ON (p->kthread->terminated), for p that of the
\* thread which runs, before its task is terminated.
pthread_exit(t) ==
  /\ InThread(t) /\ t # Main
  /\ \/ /\ terminated[current]
        /\ panic' = "pthread_exit: terminated"
        /\ UNCHANGED <<table, where, m_State, m_bSuspended, m_nWakeTicks, events,
                       clock, cpu, pc, locals, args, history, threadVars>>
     \/ /\ ~terminated[current]
        /\ Terminate(taskobj[current])
        /\ ended' = ended \cup {current}
        /\ UNCHANGED <<allocated, taskobj, reused, terminated, userData,
                       current, joining>>

ThreadNext ==
  \/ ThreadOther
  \/ \E t, s \in Task : pthread_create(t, s)
  \/ \E t \in Task, b \in Thread : pthread_join(t, b)
  \/ \E t \in Task : JoinEnds(t) \/ ThreadReturns(t) \/ pthread_exit(t)

ThreadSpec == ThreadInit /\ [][ThreadNext]_threadSysVars

-----------------------------------------------------------------------------
(* Correctness                                                              *)

\* pthread_join() returns after its thread has ended, whether the thread
\* ends before, during or long before the call and although its task may be
\* deleted, and its address taken by another task, in between (pthread_join,
\* task_termination_handler); unless blocks are reused too early.
JoinAfterEnd ==
  [][\A t \in Task : joining[t] # NULL /\ joining'[t] = NULL =>
       joining[t] \in ended \/ reused]_threadSysVars

\* A thread that lives has a block of its own, not marked as terminated, and
\* "current" is that of the thread on the processor, so that pthread_self()
\* and pthread_exit() are about their caller; with the same exception.
Lives(t) == userData[t] # NULL /\ m_State[t] \notin {"Terminated", "Unknown"}
ThreadsOwnBlocks ==
  panic = "none" /\ ~reused =>
    /\ \A t \in Task : Lives(t) => /\ userData[t] \in allocated \ ended
                                   /\ ~terminated[userData[t]]
    /\ \A t, u \in Task : Lives(t) /\ Lives(u) /\ userData[t] = userData[u] => t = u
    /\ cpu = "task" => userData[m_pCurrent] \in {NULL, current}

\* Whoever joins a thread that has ended returns, with the same exception.
JoinReturns ==
  \A t \in Task :
    (joining[t] # NULL /\ joining[t] \in ended)
      ~> (joining[t] = NULL \/ reused \/ panic # "none")

\* A thread that ends itself is not marked as terminated, as pthread_exit()
\* requires: nobody but the scheduler marks it, when it has ended.
ExitFindsThreadAlive == panic # "pthread_exit: terminated"

=============================================================================
