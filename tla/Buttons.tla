------------------------------- MODULE Buttons -------------------------------
(***************************************************************************)
(* A push button in interrupt mode (addon/sensor/buttons.cpp) on the kernel *)
(* timers: every edge of the pin restarts the debounce timer, the debounced *)
(* level goes through the click table, and a tick timer that restarts       *)
(* itself ends a gesture.  Other drivers start timers of their own, from a  *)
(* task, which an interrupt may hit between the time it reads and the lock. *)
(*                                                                         *)
(* The timer interrupt polls the list element by element; interrupts do not *)
(* nest, so nothing else happens until the poll is over.                    *)
(***************************************************************************)
EXTENDS KernelTimer

CONSTANTS DebounceDelay,   \* MSEC2HZ (SwitchDebounceDelayMillis)
          TickDelay,       \* MSEC2HZ (SwitchTickDelayMillis)
          MaxClicks,       \* the clicks the table counts to, 5 in the code
          OtherDelays,     \* what other drivers ask for
          MaxLag,          \* bound on the ticks that a timer is overdue when
                           \* its driver gets to insert it
          MaxOthers        \* bound on the timers other drivers start in all

ASSUME ButtonsAssumption ==
  /\ TickDelay \in Nat /\ DebounceDelay \in 1 .. TickDelay - 1
  /\ MaxLag \in Nat
  /\ TickDelay + MaxLag < TickWrap \div 2
  /\ MaxClicks \in Nat \ {0}
  /\ OtherDelays \subseteq 1 .. TickWrap \div 2 - 1 - MaxLag
  /\ MaxOthers \in Nat

VARIABLES
  m_nTicks,
  m_KernelTimerList,      \* with the heap it lives on
  pElement,               \* of the poll in progress, 0 between polls
  pinLevel,               \* what the pin reads
  m_hDebounceTimer, m_hTickTimer,
  m_SwitchState,
  starting,               \* the timer that another driver is starting
  nOthers                 \* timers started by other drivers

\* History: the debounced level, the presses of the gesture (counted to one
\* more than the table knows), and whether its press outlasted a tick.
VARIABLES isDown, presses, held

\* History: the timer that was inserted since the last tick with its time
\* already come, 0 if none was.
VARIABLE late

handles == <<m_hDebounceTimer, m_hTickTimer>>
gesture == <<m_SwitchState, isDown, presses, held>>
others == <<starting, nOthers, late>>
btnVars == <<m_nTicks, m_KernelTimerList, pElement, pinLevel, handles,
             others, gesture>>

\* The states: Start, DownN while a press N is down, ClickN after it, Hold
\* and Invalid.
Down(n) == <<"Down", n>>
Click(n) == <<"Click", n>>
Start == <<"Start", 0>>
Hold == <<"Hold", 0>>
Invalid == <<"Invalid", 0>>
Nothing == <<"none", 0>>

\* No driver is in StartKernelTimer().
NotStarting == [pTimer |-> 0, nElapsesAt |-> 0]

BtnInit ==
  /\ m_nTicks = 0 /\ m_KernelTimerList = NoTimers /\ pElement = 0
  /\ pinLevel = "HIGH"
  /\ m_hDebounceTimer = 0 /\ m_hTickTimer = 0
  /\ m_SwitchState = Start
  /\ starting = NotStarting /\ nOthers = 0 /\ late = 0
  /\ isDown = FALSE /\ presses = 0 /\ held = FALSE

-----------------------------------------------------------------------------
(* The click table                                                          *)

\* Mutant: the release of a second press counts as that of the first.
AfterUp_Forgets(s) ==
  IF s[1] = "Down" THEN Click(IF s[2] = 2 THEN 1 ELSE s[2])
  ELSE IF s[1] = "Click" THEN s ELSE Start

\* s_NextSwitchState, by columns
AfterDown(s) ==
  IF s = Start THEN Down(1)
  ELSE IF s[1] # "Click" THEN s
  ELSE IF s[2] < MaxClicks THEN Down(s[2] + 1) ELSE Invalid
AfterUp(s) ==
  IF s[1] = "Down" THEN Click(s[2])
  ELSE IF s[1] = "Click" THEN s ELSE Start
AfterTick(s) ==
  IF s = Down(1) THEN Hold
  ELSE IF s[1] = "Down" THEN Invalid
  ELSE IF s[1] = "Click" THEN Start ELSE s

\* s_SwitchOutput: only a tick reports anything.
TickOutput(s) ==
  IF s[1] = "Click" THEN s
  ELSE IF s \in {Hold, Down(1)} THEN Hold ELSE Nothing

\* BUTTONS::HandleSwitchEvent of a debounced level
HandleLevel(level) ==
  /\ m_SwitchState' = IF level = "LOW" THEN AfterDown(m_SwitchState)
                                       ELSE AfterUp(m_SwitchState)
  /\ isDown' = (level = "LOW")
  /\ presses' = IF level = "LOW" /\ ~isDown /\ presses < MaxClicks + 2
              THEN presses + 1
                ELSE IF level = "HIGH" /\ held THEN 0 ELSE presses
  /\ held' = (held /\ level = "LOW")

\* BUTTONS::HandleSwitchEvent of a tick
HandleTick ==
  /\ m_SwitchState' = AfterTick(m_SwitchState)
  /\ held' = isDown
  /\ presses' = IF isDown THEN presses ELSE 0
  /\ UNCHANGED isDown

-----------------------------------------------------------------------------
(* Interrupts                                                               *)

Idle == pElement = 0
At(delay) == (m_nTicks + delay) % TickWrap

\* An edge: BUTTONS::SwitchInterruptHandler
Edge ==
  LET k == IF m_hDebounceTimer # 0
           THEN CancelKernelTimer(m_KernelTimerList, m_hDebounceTimer)
           ELSE m_KernelTimerList
  IN  /\ Idle
      /\ pinLevel' = IF pinLevel = "HIGH" THEN "LOW" ELSE "HIGH"
      /\ m_hDebounceTimer' = NewBlock(k)
      /\ m_KernelTimerList' = StartKernelTimer(k, At(DebounceDelay), "debounce")
      /\ UNCHANGED <<m_nTicks, pElement, m_hTickTimer, others, gesture>>

\* A task of another driver starts a timer that is never cancelled: it has
\* allocated it and computed when it elapses ...
ComputeOther(delay) ==
  /\ Idle /\ starting = NotStarting
  /\ nOthers < MaxOthers /\ nOthers' = nOthers + 1
  /\ m_KernelTimerList' = TakeBlock(m_KernelTimerList)
  /\ starting' = [pTimer |-> NewBlock(m_KernelTimerList), nElapsesAt |-> At(delay)]
  /\ UNCHANGED <<m_nTicks, pElement, pinLevel, handles, late, gesture>>

\* ... and then it has the lock, and inserts it.
StartOther ==
  /\ Idle /\ starting # NotStarting
  /\ m_KernelTimerList' = InsertTimer(m_KernelTimerList, starting.pTimer,
                                      starting.nElapsesAt, "other")
  /\ late' = IF Later(starting.nElapsesAt, m_nTicks) THEN late ELSE starting.pTimer
  /\ starting' = NotStarting
  /\ UNCHANGED <<m_nTicks, pElement, pinLevel, handles, nOthers, gesture>>

\* Bound: the interrupts in the middle of that call do not last longer.
NotTooLate ==
  starting = NotStarting \/ starting.nElapsesAt # (m_nTicks - MaxLag) % TickWrap

\* CTimer::InterruptHandler, up to the loop of PollKernelTimers
TimerInterrupt ==
  /\ Idle /\ NotTooLate
  /\ m_nTicks' = (m_nTicks + 1) % TickWrap
  /\ pElement' = FirstElement(m_KernelTimerList)
  /\ late' = 0
  /\ UNCHANGED <<m_KernelTimerList, pinLevel, handles, starting, nOthers, gesture>>

\* The poll stops at the first timer that has not elapsed.
PollEnds ==
  /\ \E i \in ElementAt(m_KernelTimerList, pElement) :
       Later(m_KernelTimerList.list[i].nElapsesAt, m_nTicks)
  /\ pElement' = 0
  /\ UNCHANGED <<m_nTicks, m_KernelTimerList, pinLevel, handles, others, gesture>>

\* The timer at place i has elapsed: it is taken off the list, its handler
\* makes handled of what remains, and it is deleted.
Elapsed(i) == RemoveElement(m_KernelTimerList, i)
Elapses(i, handler, handled) ==
  LET timer == m_KernelTimerList.list[i]
  IN  /\ timer.handler = handler
      /\ ~Later(timer.nElapsesAt, m_nTicks)
      /\ pElement' = NextElement(m_KernelTimerList, i)
      /\ m_KernelTimerList' = FreeBlock(handled, timer.pTimer)
      /\ UNCHANGED <<m_nTicks, pinLevel, others>>

WithoutTick(k) == IF m_hTickTimer # 0 THEN CancelKernelTimer(k, m_hTickTimer)
                                      ELSE k
StartTick(k) == StartKernelTimer(k, At(TickDelay), "tick")

\* Mutant: the handle of the timer that has elapsed is kept.
SwitchDebounceHandler_KeepsHandle(i) ==
  LET k == WithoutTick(Elapsed(i))
  IN  /\ Elapses(i, "debounce", StartTick(k))
      /\ m_hTickTimer' = NewBlock(k)
      /\ UNCHANGED m_hDebounceTimer
      /\ HandleLevel(pinLevel)

SwitchDebounceHandler(i) ==
  LET k == WithoutTick(Elapsed(i))
  IN  /\ Elapses(i, "debounce", StartTick(k))
      /\ m_hTickTimer' = NewBlock(k)
      /\ m_hDebounceTimer' = 0
      /\ HandleLevel(pinLevel)

SwitchTickHandler(i) ==
  /\ Elapses(i, "tick", StartTick(Elapsed(i)))
  /\ m_hTickTimer' = NewBlock(Elapsed(i))
  /\ UNCHANGED m_hDebounceTimer
  /\ HandleTick

OtherElapses(i) ==
  /\ Elapses(i, "other", Elapsed(i))
  /\ UNCHANGED <<handles, gesture>>

BtnNext ==
  \/ Edge \/ (\E delay \in OtherDelays : ComputeOther(delay)) \/ StartOther
  \/ TimerInterrupt
  \/ PollEnds
  \/ \E i \in ElementAt(m_KernelTimerList, pElement) :
       SwitchDebounceHandler(i) \/ SwitchTickHandler(i) \/ OtherElapses(i)

BtnSpec == BtnInit /\ [][BtnNext]_btnVars

-----------------------------------------------------------------------------
(* Correctness                                                              *)

\* The element PollKernelTimers() goes on with after a handler is one, as
\* GetPtr() asserts, though the debounce handler cancels the very timer that
\* may come next: the timer it starts instead gets the same blocks, the heap
\* being a stack.
PollFindsElement == Idle \/ ElementAt(m_KernelTimerList, pElement) # {}

\* When the poll is over, nothing on the list has elapsed ("Timer elapses
\* after nDelay/HZ seconds"), except a timer that was inserted since: its time
\* is read before the lock is taken, and when ticks come in between it may be
\* over (StartKernelTimer).  It goes to the front and elapses with the next
\* tick, however many were missed (PollKernelTimers).
NobodyLate ==
  Idle => \A i \in DOMAIN m_KernelTimerList.list :
            \/ Later(m_KernelTimerList.list[i].nElapsesAt, m_nTicks)
            \/ m_KernelTimerList.list[i].pTimer = late

\* A button's handle is 0 or names its one running timer, so that it never
\* cancels a timer which got the address later (SwitchInterruptHandler,
\* SwitchDebounceHandler, SwitchTickHandler).
HandleNamesTimer(hTimer, handler) ==
  LET list == m_KernelTimerList.list
      running == {i \in DOMAIN list : list[i].handler = handler}
  IN  IF hTimer = 0 THEN running = {}
      ELSE \E i \in running : /\ running = {i}
                              /\ list[i].pTimer = hTimer
OwnTimersOnly ==
  Idle => /\ HandleNamesTimer(m_hDebounceTimer, "debounce")
          /\ HandleNamesTimer(m_hTickTimer, "tick")

\* What a tick reports is what was done: N clicks for N presses up to the
\* most it counts, none for one more, a hold for a first press that is still
\* down, and nothing for a later one (the tables; beyond that they start
\* again, and seven quick presses are one click).
ClicksCounted ==
  presses <= MaxClicks + 1 =>
    TickOutput(m_SwitchState) =
      IF isDown THEN (IF presses = 1 THEN Hold ELSE Nothing)
      ELSE IF presses \in 1 .. MaxClicks THEN Click(presses) ELSE Nothing

=============================================================================
