------------------------------ MODULE LinuxTime ------------------------------
(***************************************************************************)
(* Timers and completions of the Linux emulation, as the VCHIQ driver and   *)
(* VCOS use them (addon/linux/timer.cpp, completion.cpp): both go by        *)
(* jiffies, which a periodic handler of the timer interrupt counts.         *)
(*                                                                         *)
(* The handler is not interrupted; between its steps its timer's function   *)
(* runs, which may start the timer again or complete what a task waits for. *)
(* A task does not yield in a call, but an interrupt may come between what  *)
(* it reads and what it writes.                                             *)
(***************************************************************************)
EXTENDS Integers, SequencesExt

CONSTANTS LinuxTimer,      \* the timer_list structures of the program
          JiffyWrap,       \* jiffies counts modulo this, 2^32 in the code
          LinuxDelays,     \* the delays of timers ...
          LinuxTimeouts,   \* ... and the timeouts of waits
          MaxDone          \* what complete_all() makes of the count, UINT_MAX/2

ASSUME LinuxTimeAssumption ==
  /\ JiffyWrap \in Nat \ {0} /\ MaxDone \in Nat \ {0}
  /\ LinuxDelays \cup LinuxTimeouts \subseteq 1 .. JiffyWrap \div 2 - 1

VARIABLES
  jiffies,
  timer_list,        \* the timers in their order, with what they expire at
  linked,            \* timers whose entry does not point to itself
  handling,          \* periodic_handler() is in its loop
  call,              \* what the running task is in the middle of
  done,              \* of the completion
  waiting,           \* a task is in wait_for_completion_..._timeout(), ...
  start, timeout     \* ... with these values

\* History: the jiffies left until the wait should end; those until a timer
\* should fire go with it in the list.
VARIABLE waitLeft

waitVars == <<waiting, start, timeout, waitLeft>>
timers == <<timer_list, linked>>
linuxVars == <<jiffies, timers, handling, call, done, waitVars>>

OutOfCall == [op |-> "none"]

LinuxInit ==
  /\ jiffies = 0
  /\ timer_list = <<>> /\ linked = {}
  /\ handling = FALSE /\ call = OutOfCall
  /\ done = 0
  /\ waiting = FALSE /\ start = 0 /\ timeout = 0
  /\ waitLeft = 0

\* (long) (a - b), as a sign
Before(a, b) == (a - b) % JiffyWrap >= JiffyWrap \div 2

\* Mutant: expiry times are compared as plain numbers.
Expired_Unsigned(a, b) == a <= b

\* (long) (a - b) <= 0
TimerExpired(a, b) == a = b \/ Before(a, b)

-----------------------------------------------------------------------------
(* Timers                                                                   *)

\* list_add() puts the timer behind the first one that expires earlier, and
\* at the front if there is none, since the head of the list is where the
\* search ends then.
PlaceFor(list, wake) ==
  LET earlier == {i \in DOMAIN list : Before(list[i].expires, wake)}
  IN  IF earlier = {} THEN 1 ELSE Min(earlier) + 1

\* What a timer says before it is added: timer->expires = jiffies + delay
Timed(t, delay) ==
  [timer |-> t, expires |-> (jiffies + delay) % JiffyWrap, left |-> delay]
Added(list, entry) == InsertAt(list, PlaceFor(list, entry.expires), entry)

\* list_del() of its entry
Without(list, t) == RemoveAt(list, CHOOSE i \in DOMAIN list : list[i].timer = t)

\* The task that runs begins a call, or is in one.
Begins == ~handling /\ call = OutOfCall
InCall(op) == ~handling /\ call.op = op

\* vcos_timer_set() of a stopped timer: its time is computed without a lock ...
vcos_timer_set(t, delay) ==
  /\ Begins /\ t \notin linked
  /\ call' = [op |-> "add", entry |-> Timed(t, delay)]
  /\ UNCHANGED <<jiffies, timers, handling, done, waitVars>>

\* ... and the timer is added under the lock.
add_timer ==
  /\ InCall("add")
  /\ timer_list' = Added(timer_list, call.entry)
  /\ linked' = linked \cup {call.entry.timer}
  /\ call' = OutOfCall
  /\ UNCHANGED <<jiffies, handling, done, waitVars>>

\* del_timer() takes a timer off the list whose entry is linked: that of
\* vcos_timer_cancel(), or of vcos_timer_reset() with another delay.
del_timer(t, next) ==
  /\ Begins /\ t \in linked
  /\ timer_list' = Without(timer_list, t)
  /\ call' = next
  /\ UNCHANGED <<jiffies, linked, handling, done, waitVars>>
vcos_timer_cancel(t) == del_timer(t, [op |-> "cancel", timer |-> t])
vcos_timer_reset(t, delay) ==
  del_timer(t, [op |-> "reset", timer |-> t, delay |-> delay])

\* It resets the entry when it has released the lock; then vcos_timer_reset()
\* goes on as vcos_timer_set() does.
EntryReset ==
  /\ linked' = linked \ {call.timer}
  /\ UNCHANGED <<jiffies, timer_list, handling, done, waitVars>>
CancelEnds == InCall("cancel") /\ EntryReset /\ call' = OutOfCall
ResetGoesOn ==
  /\ InCall("reset") /\ EntryReset
  /\ call' = [op |-> "add", entry |-> Timed(call.timer, call.delay)]

\* An interrupt completes: the count becomes so, also for a task that has just
\* looked at it.
Completed(count) ==
  /\ done < count /\ count <= MaxDone /\ done' = count
  /\ call' = IF call.op = "test" THEN [op |-> "test", raced |-> TRUE] ELSE call

\* periodic_handler(): the jiffy, and then its loop.
Sooner(entry) == [entry EXCEPT !.left = IF @ > -1 THEN @ - 1 ELSE @]
PeriodicBegins ==
  /\ ~handling
  /\ jiffies' = (jiffies + 1) % JiffyWrap
  /\ handling' = TRUE
  /\ timer_list' = [i \in DOMAIN timer_list |-> Sooner(timer_list[i])]
  /\ call' = IF call.op = "add" THEN [op |-> "add", entry |-> Sooner(call.entry)] ELSE call
  /\ waitLeft' = IF waitLeft > 0 THEN waitLeft - 1 ELSE 0
  /\ UNCHANGED <<linked, done, waiting, start, timeout>>

HeadExpired ==
  timer_list # <<>> /\ TimerExpired(Head(timer_list).expires, jiffies)

PeriodicEnds ==
  /\ handling /\ ~HeadExpired
  /\ handling' = FALSE
  /\ UNCHANGED <<jiffies, timers, call, done, waitVars>>

\* Mutant: the entry of the expired timer is reset after its function ran.
TimerRestarts_LateReset ==
  /\ handling /\ HeadExpired
  /\ \E delay \in LinuxDelays :
       timer_list' = Added(Tail(timer_list), Timed(Head(timer_list).timer, delay))
  /\ linked' = linked \ {Head(timer_list).timer}
  /\ UNCHANGED <<jiffies, handling, call, done, waitVars>>

\* The timer at the head has expired: its function starts it again ...
TimerRestarts ==
  /\ handling /\ HeadExpired
  /\ \E delay \in LinuxDelays :
       timer_list' = Added(Tail(timer_list), Timed(Head(timer_list).timer, delay))
  /\ UNCHANGED <<jiffies, linked, handling, call, done, waitVars>>

\* ... or does not, and may complete what a task waits for.
TimerFires(completes) ==
  /\ handling /\ HeadExpired
  /\ timer_list' = Tail(timer_list)
  /\ linked' = linked \ {Head(timer_list).timer}
  /\ IF completes THEN Completed(done + 1) ELSE UNCHANGED <<done, call>>
  /\ UNCHANGED <<jiffies, handling, waitVars>>

-----------------------------------------------------------------------------
(* Completions                                                              *)

\* complete() in an interrupt, whatever call of a task it comes into
complete ==
  /\ ~handling
  /\ Completed(done + 1)
  /\ UNCHANGED <<jiffies, timers, handling, waitVars>>

\* complete_all(), in a task or in an interrupt
complete_all ==
  /\ ~handling
  /\ Completed(MaxDone)
  /\ UNCHANGED <<jiffies, timers, handling, waitVars>>

reinit_completion ==
  /\ Begins
  /\ done' = 0
  /\ UNCHANGED <<jiffies, timers, handling, call, waitVars>>

\* A task counts up in complete(), or counts down in wait_for_completion() and
\* try_wait_for_completion(): it reads the count, ...
Reads(change) == call' = [op |-> "count", count |-> done + change]
CountBegins ==
  /\ Begins
  /\ \/ done < MaxDone /\ Reads(1)
     \/ done # 0 /\ Reads(-1)
  /\ UNCHANGED <<jiffies, timers, handling, done, waitVars>>

\* ... and writes it, over what an interrupt has made of it since.
CountEnds ==
  /\ InCall("count")
  /\ done' = call.count /\ call' = OutOfCall
  /\ UNCHANGED <<jiffies, timers, handling, waitVars>>

\* wait_for_completion_interruptible_timeout() is called.
BeginTimedWait(limit) ==
  /\ Begins /\ ~waiting
  /\ waiting' = TRUE /\ start' = jiffies /\ timeout' = limit
  /\ waitLeft' = limit
  /\ UNCHANGED <<jiffies, timers, handling, call, done>>

\* A turn of its loop finds the count positive or 0, ...
TimedWaitTests ==
  /\ Begins /\ waiting
  /\ call' = IF done # 0 THEN [op |-> "take", count |-> done]
                         ELSE [op |-> "test", raced |-> FALSE]
  /\ UNCHANGED <<jiffies, timers, handling, done, waitVars>>

WaitReturns ==
  /\ waiting' = FALSE /\ start' = 0 /\ timeout' = 0 /\ waitLeft' = 0
  /\ call' = OutOfCall
  /\ UNCHANGED <<jiffies, timers, handling>>

\* ... and in the one case it counts down and returns 1,
TimedWaitSucceeds ==
  /\ InCall("take")
  /\ done' = call.count - 1
  /\ WaitReturns

\* Mutant: the end of the wait is compared as a plain number.
TimedWaitEnds_Unsigned ==
  /\ InCall("test")
  /\ jiffies >= (start + timeout) % JiffyWrap
  /\ WaitReturns
  /\ UNCHANGED done

\* in the other it returns 0 if the time is over, without another look at the
\* count, ...
TimedWaitTimesOut ==
  /\ InCall("test")
  /\ (jiffies - start) % JiffyWrap >= timeout
  /\ WaitReturns
  /\ UNCHANGED done

\* and yields if it is not.
TimedWaitYields ==
  /\ InCall("test")
  /\ (jiffies - start) % JiffyWrap < timeout
  /\ call' = OutOfCall
  /\ UNCHANGED <<jiffies, timers, handling, done, waitVars>>

\* The task that waits looks at the time within the turn of the counter.
JiffyBound == ~waiting \/ (jiffies - start) % JiffyWrap < JiffyWrap - 1

LinuxNext ==
  \/ \E t \in LinuxTimer, delay \in LinuxDelays :
       vcos_timer_set(t, delay) \/ vcos_timer_reset(t, delay)
  \/ \E t \in LinuxTimer : vcos_timer_cancel(t)
  \/ add_timer \/ CancelEnds \/ ResetGoesOn
  \/ (JiffyBound /\ PeriodicBegins) \/ PeriodicEnds
  \/ TimerRestarts \/ \E completes \in BOOLEAN : TimerFires(completes)
  \/ complete \/ complete_all \/ reinit_completion \/ CountBegins \/ CountEnds
  \/ \E limit \in LinuxTimeouts : BeginTimedWait(limit)
  \/ TimedWaitTests \/ TimedWaitSucceeds \/ TimedWaitTimesOut \/ TimedWaitYields

LinuxSpec == LinuxInit /\ [][LinuxNext]_linuxVars

-----------------------------------------------------------------------------
(* Correctness                                                              *)

\* A timer is on the list exactly while its entry is linked, as del_timer()
\* relies on, also when its function starts it again (periodic_handler), but
\* for the moment in which a task takes one off.
Unlinking == IF call.op \in {"cancel", "reset"} THEN {call.timer} ELSE {}
LinkedIffListed ==
  /\ {timer_list[i].timer : i \in DOMAIN timer_list} = linked \ Unlinking
  /\ \A i, j \in DOMAIN timer_list :
       timer_list[i].timer = timer_list[j].timer => i = j

\* No timer fires early, in whatever order they are listed, although jiffies
\* turns over, and though they may be added when their time has come.
FiresNotEarly ==
  [][TimerRestarts \/ (\E completes \in BOOLEAN : TimerFires(completes)) =>
       Head(timer_list).left <= 0]_linuxVars

\* A wait that reports a timeout has lasted that long, and takes nothing; a
\* count that stands then was completed after the wait had looked for it, by
\* an interrupt, and is there for the next one (completion.cpp).
TimeoutNotEarly ==
  [][waiting /\ ~waiting' =>
       \/ call.op = "take" /\ call.count > 0
       \/ /\ waitLeft = 0 /\ done' = done
          /\ done # 0 => call.raced]_linuxVars

\* When the handler has been through, no timer is overdue: "Delay to wait
\* for, in ms" (vcos_timer_set).
TimersOnTime ==
  handling /\ ~HeadExpired => \A i \in DOMAIN timer_list : timer_list[i].left > 0

=============================================================================
