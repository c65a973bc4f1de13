---------------------------- MODULE PolledButton ----------------------------
(***************************************************************************)
(* A push button in polling mode (addon/sensor/buttons.cpp), which is how   *)
(* the application uses it: Update() is called once a frame, however long   *)
(* the frame takes, debounces by the clock and feeds the click table.       *)
(***************************************************************************)
EXTENDS Buttons

VARIABLES
  m_nLastSWLevel, m_bDebounceActive,
  m_nDebounceLastTicks, m_nSwitchLastTicks

polledVars == <<m_nLastSWLevel, m_bDebounceActive, m_nDebounceLastTicks,
                m_nSwitchLastTicks>>

PolledInit ==
  /\ m_nLastSWLevel = "HIGH" /\ m_bDebounceActive = FALSE
  /\ m_nDebounceLastTicks = 0 /\ m_nSwitchLastTicks = 0

\* nTicks - last, unsigned
Since(last) == (m_nTicks - last) % TickWrap
NotPolled == UNCHANGED <<m_KernelTimerList, pElement, handles, others>>

\* The clock goes on, and the pin is what it is, between two calls.
ClockTick ==
  /\ m_nTicks' = (m_nTicks + 1) % TickWrap
  /\ UNCHANGED <<pinLevel, gesture, polledVars>> /\ NotPolled

PinChanges ==
  /\ pinLevel' = IF pinLevel = "HIGH" THEN "LOW" ELSE "HIGH"
  /\ UNCHANGED <<m_nTicks, gesture, polledVars>> /\ NotPolled

\* Update() sees another level than the last time: the contacts bounce.
UpdateBounces ==
  /\ pinLevel # m_nLastSWLevel
  /\ m_nLastSWLevel' = pinLevel
  /\ m_bDebounceActive' = TRUE /\ m_nDebounceLastTicks' = m_nTicks
  /\ UNCHANGED <<m_nTicks, pinLevel, gesture, m_nSwitchLastTicks>> /\ NotPolled

Settled == m_bDebounceActive /\ Since(m_nDebounceLastTicks) >= DebounceDelay

\* It sees the same level for long enough, which also starts the ticks anew, ...
UpdateSettles ==
  /\ pinLevel = m_nLastSWLevel /\ Settled
  /\ m_bDebounceActive' = FALSE
  /\ m_nSwitchLastTicks' = m_nTicks
  /\ HandleLevel(pinLevel)
  /\ UNCHANGED <<m_nTicks, pinLevel, m_nLastSWLevel, m_nDebounceLastTicks>>
  /\ NotPolled

\* ... or a tick is due, also while the contacts are still to settle.
UpdateTicks ==
  /\ pinLevel = m_nLastSWLevel /\ ~Settled
  /\ Since(m_nSwitchLastTicks) >= TickDelay
  /\ m_nSwitchLastTicks' = m_nTicks
  /\ HandleTick
  /\ UNCHANGED <<m_nTicks, pinLevel, m_nLastSWLevel, m_bDebounceActive,
                 m_nDebounceLastTicks>>
  /\ NotPolled

PolledNext ==
  \/ ClockTick \/ PinChanges \/ UpdateBounces \/ UpdateSettles \/ UpdateTicks

PolledSpec == BtnInit /\ PolledInit /\ [][PolledNext]_<<btnVars, polledVars>>

=============================================================================
