------------------------------ MODULE MCParts ------------------------------
(***************************************************************************)
(* The parts that share no state with each other, next to each other: of    *)
(* those named by Parts, one is chosen at the start and runs alone.          *)
(***************************************************************************)
EXTENDS WaitList, RwLock, PolledButton, ArpHandler, LinuxTime, FirmwareUpdate

CONSTANT Parts

VARIABLE part

buttonVars == <<btnVars, polledVars>>
partsVars == <<part, waitListVars, rwVars, buttonVars, arpVars, linuxVars, updateVars>>

PartsInit ==
  /\ part \in Parts
  /\ WaitListInit /\ RwInit /\ BtnInit /\ PolledInit /\ ArpInit /\ LinuxInit /\ ProgramInit
  /\ IF part = "fat" THEN FatInit ELSE CardInit

Others(name, allVars) == part = name /\ UNCHANGED <<part, allVars>>

\* Bounds: the timer of another driver starts at tick 0, which is any tick, for
\* only differences are compared, and between gestures, for no timer depends on the
\* click table; and when it has elapsed, the button is not pressed any more.
OtherElapsed ==
  /\ nOthers > 0 /\ starting = NotStarting
  /\ \A i \in DOMAIN m_KernelTimerList.list : m_KernelTimerList.list[i].handler # "other"
FewOthers ==
  /\ m_nTicks # 0 \/ presses # 0 => UNCHANGED nOthers
  /\ OtherElapsed /\ pinLevel = "HIGH" => UNCHANGED pinLevel

\* Bound: when a reply has cancelled another entry's timer, nobody asks for a
\* further host.
FewThefts ==
  stolen /\ netTask = "out" =>
    InState({"RequestSent"})' \subseteq InState({"RequestSent"})

\* Bound: several Linux timers are in use only while nobody counts or waits.
TimersInUse == linked \cup (IF call.op = "add" THEN {call.entry.timer} ELSE {})
NobodyWaits == done = 0 /\ ~waiting /\ call.op # "count"
FewTimers == Cardinality(TimersInUse') > 1 => NobodyWaits'

PartsNext ==
  \/ /\ Others("wait list", <<rwVars, buttonVars, arpVars, linuxVars, updateVars>>)
     /\ WaitListNext
  \/ /\ Others("rwlock", <<waitListVars, buttonVars, arpVars, linuxVars, updateVars>>)
     /\ RwNext
  \/ /\ Others("buttons", <<polledVars, waitListVars, rwVars, arpVars, linuxVars, updateVars>>)
     /\ BtnNext /\ FewOthers
  \/ /\ Others("polled button", <<waitListVars, rwVars, arpVars, linuxVars, updateVars>>)
     /\ PolledNext
  \/ /\ Others("arp", <<waitListVars, rwVars, buttonVars, linuxVars, updateVars>>)
     /\ ArpNext /\ FewThefts
  \/ /\ Others("linux time", <<waitListVars, rwVars, buttonVars, arpVars, updateVars>>)
     /\ LinuxNext /\ FewTimers
  \/ /\ Others("fat", <<waitListVars, rwVars, buttonVars, arpVars, linuxVars, programVars, seconds>>)
     /\ FatNext
  \/ /\ Others("update", <<waitListVars, rwVars, buttonVars, arpVars, linuxVars>>)
     /\ UpdateNext

PartsSpec == PartsInit /\ [][PartsNext]_partsVars

\* The net task is scheduled again and again, and the kernel timers elapse;
\* time passes for the watchdog, whether the program gets on or not.
PartsFairSpec ==
  /\ PartsSpec
  /\ WF_arpVars(part = "arp" /\ NetTaskStep /\ UNCHANGED part)
  /\ WF_arpVars(part = "arp" /\ TimerHandler)
  /\ WF_updateVars(part = "update" /\ Second)
  /\ WF_updateVars(part = "update" /\ WatchdogResets)

=============================================================================
