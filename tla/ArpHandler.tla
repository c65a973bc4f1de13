----------------------------- MODULE ArpHandler -----------------------------
(***************************************************************************)
(* Address resolution (lib/net/arphandler.cpp): the table of hosts, the     *)
(* frames that wait for a reply, and the kernel timer behind every request. *)
(* Tasks call Resolve(); the net task calls Process() again and again,      *)
(* neither yielding inside; the timer interrupt may hit either anywhere.    *)
(*                                                                         *)
(* All timers of the handler run equally long, so they elapse in the order  *)
(* in which they were started, and when they do is left open.  The ages of  *)
(* entries are not kept: cleanup and eviction take any that could be old.   *)
(***************************************************************************)
EXTENDS KernelTimer

CONSTANTS Host,             \* IP addresses; a host's MAC address goes by it
          ARP_MAX_ENTRIES, ARP_MAX_ATTEMPTS,
          MaxFrames         \* bound on the frames that wait in one entry

ASSUME ArpAssumption ==
  /\ ARP_MAX_ENTRIES \in Nat \ {0} /\ ARP_MAX_ATTEMPTS \in Nat \ {0}
  /\ MaxFrames \in Nat \ {0}

VARIABLES
  m_Entry,          \* the first m_nEntries entries
  arpTimers,        \* the kernel timers, with the heap they live on
  netTask,          \* where the net task is in Process()
  nEntry,           \* the entry it looks at
  arpHalted         \* assert (nOldestEntry < m_nEntries) has failed

\* History: a reply has cancelled the timer of another entry.
VARIABLE stolen

arpVars == <<m_Entry, arpTimers, netTask, nEntry, arpHalted, stolen>>

Pending == {"RequestSent", "RetryRequest"}
Entries == DOMAIN m_Entry
InState(states) == {i \in Entries : m_Entry[i].State \in states}
Of(host) == {i \in Entries : m_Entry[i].IPAddress = host}

\* A field that is written before it is read again is not kept: what an entry
\* takes along when its request is over, and when its slot is free.
Answered(e, state) == [e EXCEPT !.State = state, !.hTimer = 0, !.nAttempts = 0]
Freed(e) == [Answered(e, "FreeSlot") EXCEPT !.IPAddress = "none", !.MACAddress = "none"]

ArpInit ==
  /\ m_Entry = <<>> /\ arpTimers = NoTimers
  /\ netTask = "out" /\ nEntry = 1 /\ arpHalted = FALSE /\ stolen = FALSE

StartArpTimer(k, i) == StartKernelTimer(k, 0, i)

-----------------------------------------------------------------------------
(* CARPHandler::Resolve, called by a task that sends a frame                *)

Outside == ~arpHalted /\ netTask = "out"

\* The host is being asked already, or its reply is being worked off.
ResolveDeferred(host) ==
  /\ Outside
  /\ \E i \in Of(host) \cap InState(Pending \cup {"SendTxQueue"}) :
       /\ Len(m_Entry[i].pTxQueue) < MaxFrames
       /\ m_Entry' = [m_Entry EXCEPT ![i].pTxQueue = Append(@, host)]
  /\ UNCHANGED <<arpTimers, netTask, nEntry, arpHalted, stolen>>

\* A new request in slot i, with the heap as k; the slot keeps its queue.
AskIn(i, host, k) ==
  [State |-> "RequestSent", IPAddress |-> host, MACAddress |-> "none",
   hTimer |-> NewBlock(k), nAttempts |-> 1,
   pTxQueue |-> Append(IF i \in Entries THEN m_Entry[i].pTxQueue ELSE <<>>, host)]

\* The host is not known: the first free slot, a further one (whose CNetQueue
\* comes from the bucket of the timers), or that of the valid entry which was
\* not used for longest.
ResolveAsks(host) ==
  LET free == InState({"FreeSlot"})
      full == Len(m_Entry) = ARP_MAX_ENTRIES
      slots == IF free # {} THEN {Min(free)}
               ELSE IF ~full THEN {Len(m_Entry) + 1} ELSE InState({"Valid"})
      k == IF free = {} /\ ~full THEN TakeBlock(arpTimers) ELSE arpTimers
  IN  /\ Outside
      /\ Of(host) \ free = {}
      /\ \/ \E i \in slots :
              /\ m_Entry' = IF i \in Entries
                            THEN [m_Entry EXCEPT ![i] = AskIn(i, host, k)]
                            ELSE Append(m_Entry, AskIn(i, host, k))
              /\ arpTimers' = StartArpTimer(k, i)
              /\ UNCHANGED arpHalted
         \/ /\ slots = {}
            /\ arpHalted' = TRUE
            /\ UNCHANGED <<m_Entry, arpTimers>>
      /\ UNCHANGED <<netTask, nEntry, stolen>>

-----------------------------------------------------------------------------
(* CARPHandler::Process                                                     *)

\* The net task looks at the packets received since the last time, ...
ProcessBegins ==
  /\ Outside
  /\ netTask' = "packets"
  /\ UNCHANGED <<m_Entry, arpTimers, nEntry, arpHalted, stolen>>

\* ... which may be any, in any order, duplicated, late or missing, ...
NextPacket == netTask = "packets" /\ UNCHANGED <<netTask, nEntry, arpHalted>>

\* ReplyReceived: the timer of the entry is cancelled, by the handle that it
\* keeps when the timer has elapsed.
ReplyReceived(host) ==
  LET asking == Of(host) \cap InState(Pending)
  IN  /\ NextPacket
      /\ \/ /\ asking # {}
            /\ LET i == Min(asking)
                   hTimer == m_Entry[i].hTimer
               IN  /\ arpTimers' = CancelKernelTimer(arpTimers, hTimer)
                   /\ stolen' = (stolen \/ \E j \in DOMAIN arpTimers.list :
                                    /\ arpTimers.list[j].pTimer = hTimer
                                    /\ arpTimers.list[j].handler # i)
                   /\ m_Entry' = [m_Entry EXCEPT ![i] =
                        [Answered(@, "SendTxQueue") EXCEPT !.MACAddress = host]]
         \/ /\ asking = {}
            /\ UNCHANGED <<m_Entry, arpTimers, stolen>>

\* Mutant: a host that is known already gets another entry.
RequestReceived_Again(host) ==
  LET free == InState({"FreeSlot"})
  IN  /\ NextPacket
      /\ free # {}
      /\ m_Entry' = [m_Entry EXCEPT ![Min(free)].IPAddress = host,
                                    ![Min(free)].MACAddress = host,
                                    ![Min(free)].State = "Valid"]
      /\ UNCHANGED <<arpTimers, stolen>>

\* A request tells who asks (SendPacket() answers it): it gets an entry if
\* there is none of it and room for one.
RequestReceived(host) ==
  LET free == InState({"FreeSlot"})
      known == Of(host) \ free # {}
      entry == [State |-> "Valid", IPAddress |-> host, MACAddress |-> host,
                hTimer |-> 0, nAttempts |-> 0, pTxQueue |-> <<>>]
  IN  /\ NextPacket
      /\ \/ /\ ~known /\ free # {}
            /\ m_Entry' = [m_Entry EXCEPT ![Min(free)].IPAddress = host,
                                          ![Min(free)].MACAddress = host,
                                          ![Min(free)].State = "Valid"]
            /\ UNCHANGED arpTimers
         \/ /\ ~known /\ free = {} /\ Len(m_Entry) < ARP_MAX_ENTRIES
            /\ m_Entry' = Append(m_Entry, entry)
            /\ arpTimers' = TakeBlock(arpTimers)
         \/ /\ known \/ (free = {} /\ Len(m_Entry) = ARP_MAX_ENTRIES)
            /\ UNCHANGED <<m_Entry, arpTimers>>
      /\ UNCHANGED stolen

\* ... until it has seen them all, and then at the entries in turn.
EntriesBegin ==
  /\ netTask = "packets"
  /\ netTask' = "entries" /\ nEntry' = 1
  /\ UNCHANGED <<m_Entry, arpTimers, arpHalted, stolen>>

AtEntry(state) ==
  /\ netTask = "entries" /\ nEntry \in Entries
  /\ m_Entry[nEntry].State = state
  /\ nEntry' = nEntry + 1
  /\ UNCHANGED <<netTask, arpHalted, stolen>>

AtRetry ==
  /\ netTask = "entries" /\ nEntry \in Entries
  /\ m_Entry[nEntry].State = "RetryRequest"
  /\ m_Entry[nEntry].nAttempts < ARP_MAX_ATTEMPTS
  /\ netTask' = "starting"
  /\ arpTimers' = TakeBlock(arpTimers)
  /\ UNCHANGED <<nEntry, arpHalted, stolen>>

\* Mutant: the attempts are not counted.
RetryRequest_NoCount ==
  /\ AtRetry
  /\ m_Entry' = [m_Entry EXCEPT ![nEntry].State = "RequestSent",
                                ![nEntry].hTimer = NewBlock(arpTimers)]

\* Without the lock: the request is sent again, its timer is allocated (nothing
\* reads the handle before it is stored) ...
RetryRequest ==
  /\ AtRetry
  /\ m_Entry' = [m_Entry EXCEPT ![nEntry].nAttempts = @ + 1,
                                ![nEntry].State = "RequestSent",
                                ![nEntry].hTimer = NewBlock(arpTimers)]

\* ... and inserted.
RetryIsTimed ==
  /\ netTask = "starting"
  /\ arpTimers' = InsertTimer(arpTimers, m_Entry[nEntry].hTimer, 0, nEntry)
  /\ netTask' = "entries" /\ nEntry' = nEntry + 1
  /\ UNCHANGED <<m_Entry, arpHalted, stolen>>

\* Mutant: the frames that waited are left in the queue of the slot.
GiveUp_KeepsFrames ==
  /\ AtEntry("RetryRequest")
  /\ m_Entry[nEntry].nAttempts >= ARP_MAX_ATTEMPTS
  /\ m_Entry' = [m_Entry EXCEPT ![nEntry] = Freed(@)]
  /\ UNCHANGED arpTimers

\* After the last attempt each frame goes to ResolveFailed().
GiveUp ==
  /\ AtEntry("RetryRequest")
  /\ m_Entry[nEntry].nAttempts >= ARP_MAX_ATTEMPTS
  /\ m_Entry' = [m_Entry EXCEPT ![nEntry] = [Freed(@) EXCEPT !.pTxQueue = <<>>]]
  /\ UNCHANGED arpTimers

\* The frames are sent to the address the reply brought.
SendTxQueue ==
  /\ AtEntry("SendTxQueue")
  /\ m_Entry' = [m_Entry EXCEPT ![nEntry].pTxQueue = <<>>,
                                ![nEntry].State = "Valid"]
  /\ UNCHANGED arpTimers

PassEntry ==
  /\ \E state \in {"FreeSlot", "RequestSent", "Valid"} : AtEntry(state)
  /\ UNCHANGED <<m_Entry, arpTimers>>

\* Behind the last entry, once a minute, valid entries that are old are freed.
ProcessEnds ==
  /\ netTask = "entries" /\ nEntry \notin Entries
  /\ \E old \in SUBSET InState({"Valid"}) :
       m_Entry' = [i \in Entries |-> IF i \in old
                                     THEN Freed(m_Entry[i])
                                     ELSE m_Entry[i]]
  /\ netTask' = "out" /\ nEntry' = 1
  /\ UNCHANGED <<arpTimers, arpHalted, stolen>>

\* TimerHandler, in the interrupt: the timer at the head of the list elapses.
TimerHandler ==
  /\ ~arpHalted /\ arpTimers.list # <<>>
  /\ LET timer == arpTimers.list[1]
         i == timer.handler
     IN  /\ arpTimers' = FreeBlock(RemoveElement(arpTimers, 1), timer.pTimer)
         /\ m_Entry' = IF m_Entry[i].State = "RequestSent"
                       THEN [m_Entry EXCEPT ![i].State = "RetryRequest"]
                       ELSE m_Entry
  /\ UNCHANGED <<netTask, nEntry, arpHalted, stolen>>

ArpHalted == arpHalted /\ UNCHANGED arpVars

NetTaskStep == \/ ProcessBegins \/ EntriesBegin
               \/ RetryRequest \/ RetryIsTimed \/ GiveUp \/ SendTxQueue \/ PassEntry
               \/ ProcessEnds

ArpNext ==
  \/ \E host \in Host : \/ ResolveDeferred(host) \/ ResolveAsks(host)
                        \/ ReplyReceived(host) \/ RequestReceived(host)
  \/ NetTaskStep \/ TimerHandler \/ ArpHalted

ArpSpec == ArpInit /\ [][ArpNext]_arpVars

-----------------------------------------------------------------------------
(* Correctness                                                              *)

\* Frames reach the host they are for: what waits in an entry is for its
\* host, an entry that answers has the address of its host, and a slot that
\* is freed, or taken from a valid entry, hands no frame on to the next host.
FramesForTheirHost ==
  \A i \in Entries :
    LET e == m_Entry[i]
    IN  /\ \A n \in DOMAIN e.pTxQueue : e.pTxQueue[n] = e.IPAddress
        /\ e.State \in {"SendTxQueue", "Valid"} => e.MACAddress = e.IPAddress
        /\ e.State \in {"FreeSlot", "Valid"} => e.pTxQueue = <<>>

\* A host has one entry at most, although Resolve() and RequestReceived()
\* both make them: no frame waits in an entry that a reply passes over.
OneEntryPerHost ==
  \A i, j \in Entries \ InState({"FreeSlot"}) :
    m_Entry[i].IPAddress = m_Entry[j].IPAddress => i = j

\* A request that was sent is followed up: behind every entry that waits for
\* a reply runs its timer ("so we finished before"), but for the one that is
\* being started.
RequestIsTimed ==
  \A i \in InState({"RequestSent"}) \ (IF netTask = "starting" THEN {nEntry} ELSE {}) :
    \E j \in DOMAIN arpTimers.list :
      /\ arpTimers.list[j].handler = i
      /\ arpTimers.list[j].pTimer = m_Entry[i].hTimer

\* Every frame that waits is sent or given up, unless a late reply to another
\* entry has cancelled, by the stale handle, the timer that an entry got in the
\* same place of the heap, and unless the table overflows: retries, replies,
\* replies nobody waits for and the reuse of slots cannot hold it for ever
\* (TimerHandler, Process).
FramesWait(i) == i \in Entries /\ m_Entry[i].pTxQueue # <<>>
FramesLeave ==
  \A i \in 1 .. ARP_MAX_ENTRIES :
    FramesWait(i) ~> ~FramesWait(i) \/ stolen \/ arpHalted

=============================================================================
