---------------------------- MODULE DriverProofs ----------------------------
(***************************************************************************)
(* Proofs about the two drivers that use kernel timers.  Address resolution, *)
(* for any number of hosts, entries, attempts and frames, whatever packets   *)
(* come, in any order, and whenever timers elapse: frames reach the host     *)
(* they are for, and a host has one entry at most.  The push buttons, for    *)
(* any delays in the order the code has, any timers of other drivers, any    *)
(* number of clicks that the table counts and a tick counter of any width:   *)
(* the poll does not lose its place, no timer is late but one that comes on  *)
(* the list with its time over, the button cancels its own only (TimersInv), *)
(* and what the table reports of a gesture, in either mode, is what was done *)
(* (GestureInv).                                                             *)
(***************************************************************************)
EXTENDS ArpHandler, PolledButton, ListLemmas

-----------------------------------------------------------------------------
(* Address resolution                                                       *)

EntryFields == {"State", "IPAddress", "MACAddress", "hTimer", "nAttempts", "pTxQueue"}

\* What FramesForTheirHost says of one entry
EntryOK(e) ==
  /\ DOMAIN e = EntryFields /\ e.pTxQueue \in Seq(Host)
  /\ \A n \in DOMAIN e.pTxQueue : e.pTxQueue[n] = e.IPAddress
  /\ e.State \in {"SendTxQueue", "Valid"} => e.MACAddress = e.IPAddress
  /\ e.State \in {"FreeSlot", "Valid"} => e.pTxQueue = <<>>

\* No other entry is of the host of this one.
IsOnly(e, i) ==
  e.State # "FreeSlot" =>
    \A j \in Entries \ {i} :
      m_Entry[j].State # "FreeSlot" => m_Entry[j].IPAddress # e.IPAddress

Table == \E n \in Nat : m_Entry = [i \in 1 .. n |-> m_Entry[i]]

ArpInv ==
  /\ Table
  /\ \A i \in Entries : EntryOK(m_Entry[i]) /\ IsOnly(m_Entry[i], i)

-----------------------------------------------------------------------------
(* The table                                                                *)

\* A function on the first numbers is a sequence of its values.
LEMMA IsSequence ==
  ASSUME NEW n \in Nat, NEW s, s = [i \in 1 .. n |-> s[i]]
  PROVE  s \in Seq({s[i] : i \in 1 .. n})
<1> DEFINE T == {s[i] : i \in 1 .. n}
<1>1. s \in [1 .. n -> T]
  OBVIOUS
<1> HIDE DEF T
<1>2. s \in Seq(T)
  BY <1>1, SeqDef
<1> QED
  BY <1>2 DEF T

LEMMA TableIsSequence ==
  ASSUME Table
  PROVE  /\ m_Entry \in Seq({m_Entry[i] : i \in Entries})
         /\ Len(m_Entry) \in Nat /\ Entries = 1 .. Len(m_Entry)
<1>1. PICK n \in Nat : m_Entry = [i \in 1 .. n |-> m_Entry[i]]
  BY DEF Table
<1>2. Entries = 1 .. n
  BY <1>1 DEF Entries
<1>3. m_Entry \in Seq({m_Entry[i] : i \in Entries})
  BY <1>1, <1>2, IsSequence
<1> QED
  BY <1>2, <1>3, LenProperties DEF Entries

LEMMA Untouched ==
  ASSUME ArpInv, m_Entry' = m_Entry
  PROVE  ArpInv'
  BY DEF ArpInv, Table, Entries, EntryOK, IsOnly

\* Another entry is put into a slot.
LEMMA Replaced ==
  ASSUME ArpInv, NEW i \in Entries, NEW e, EntryOK(e), IsOnly(e, i),
         m_Entry' = [m_Entry EXCEPT ![i] = e]
  PROVE  ArpInv'
<1>1. /\ DOMAIN m_Entry' = DOMAIN m_Entry /\ m_Entry'[i] = e
      /\ \A j \in Entries \ {i} : m_Entry'[j] = m_Entry[j]
  BY DEF Entries
<1>2. Table'
  BY <1>1 DEF ArpInv, Table
<1>3. \A j \in Entries : EntryOK(m_Entry'[j])
  BY <1>1 DEF ArpInv
<1>4. \A j \in Entries : IsOnly(m_Entry[j], j)' 
  BY <1>1 DEF ArpInv, IsOnly, Entries
<1> QED
  BY <1>1, <1>2, <1>3, <1>4 DEF ArpInv, Entries, EntryOK

\* A further entry is added.
LEMMA Added ==
  ASSUME ArpInv, NEW e, EntryOK(e), IsOnly(e, Len(m_Entry) + 1),
         m_Entry' = Append(m_Entry, e)
  PROVE  ArpInv'
<1> DEFINE n == Len(m_Entry)
           S == {m_Entry[j] : j \in Entries} \cup {e}
<1>1. n \in Nat /\ Entries = 1 .. n
  BY TableIsSequence DEF ArpInv
<1>2. m_Entry \in Seq(S) /\ e \in S
  BY TableIsSequence, SeqDef DEF ArpInv
<1> HIDE DEF S
<1>4. /\ m_Entry' \in Seq(S) /\ Len(m_Entry') = n + 1
      /\ \A j \in 1 .. n : m_Entry'[j] = m_Entry[j]
      /\ m_Entry'[n + 1] = e
  BY <1>2, AppendProperties
<1> HIDE DEF n
<1>5. m_Entry' = [j \in 1 .. n + 1 |-> m_Entry'[j]]
  BY <1>4, LenProperties
<1>6. Table' /\ Entries' = 1 .. n + 1
  BY <1>1, <1>5 DEF Table, Entries
<1>7. \A j \in 1 .. n + 1 : EntryOK(m_Entry'[j])
  BY <1>1, <1>4 DEF ArpInv
<1>8. \A j \in 1 .. n + 1 : IsOnly(m_Entry[j], j)'
  BY <1>1, <1>4, <1>6 DEF ArpInv, IsOnly, n
<1> QED
  BY <1>6, <1>7, <1>8 DEF ArpInv, EntryOK

-----------------------------------------------------------------------------
(* The steps                                                                *)

\* A step that leaves the host of an entry alone, and does not bring a free
\* slot back to life, need only look at that entry.
LEMMA Changed ==
  ASSUME ArpInv, NEW i \in Entries, NEW e, EntryOK(e),
         e.IPAddress = m_Entry[i].IPAddress, m_Entry[i].State # "FreeSlot",
         m_Entry' = [m_Entry EXCEPT ![i] = e]
  PROVE  ArpInv'
<1>1. IsOnly(e, i)
  BY DEF ArpInv, IsOnly
<1> QED
  BY <1>1, Replaced

\* A host that is asked for and has no entry gets one in slot i.
LEMMA AskedEntry ==
  ASSUME ArpInv, NEW host \in Host, Of(host) \ InState({"FreeSlot"}) = {}, NEW k,
         NEW i, i \in Entries => m_Entry[i].State \in {"FreeSlot", "Valid"}
  PROVE  EntryOK(AskIn(i, host, k)) /\ IsOnly(AskIn(i, host, k), i)
<1> DEFINE e == AskIn(i, host, k)
           queue == IF i \in Entries THEN m_Entry[i].pTxQueue ELSE <<>>
<1>1. queue = <<>>
  BY DEF ArpInv, EntryOK
<1> HIDE DEF queue
<1>2. /\ Append(queue, host) \in Seq(Host)
      /\ \A n \in DOMAIN Append(queue, host) : Append(queue, host)[n] = host
  <2>1. queue \in Seq(Host) /\ Len(queue) = 0
    BY <1>1
  <2> QED
    BY <2>1, AppendProperties, LenProperties
<1>3. /\ DOMAIN e = EntryFields /\ e.IPAddress = host
      /\ e.State = "RequestSent" /\ e.pTxQueue = Append(queue, host)
  BY DEF AskIn, EntryFields, queue
<1>4. EntryOK(e)
  BY <1>2, <1>3 DEF EntryOK
<1>5. IsOnly(e, i)
  BY <1>3 DEF IsOnly, Of, InState
<1> QED
  BY <1>4, <1>5

LEMMA ResolveKeeps ==
  ASSUME ArpInv, NEW host \in Host, ResolveDeferred(host) \/ ResolveAsks(host)
  PROVE  ArpInv'
<1>1. CASE ResolveDeferred(host)
  <2>1. PICK i \in Of(host) \cap InState(Pending \cup {"SendTxQueue"}) :
          m_Entry' = [m_Entry EXCEPT ![i].pTxQueue = Append(@, host)]
    BY <1>1 DEF ResolveDeferred
  <2> DEFINE e == [m_Entry[i] EXCEPT !.pTxQueue = Append(@, host)]
  <2>2. /\ i \in Entries /\ m_Entry[i].IPAddress = host
        /\ m_Entry[i].State \in {"RequestSent", "RetryRequest", "SendTxQueue"}
    BY DEF Of, InState, Pending
  <2>3. EntryOK(m_Entry[i])
    BY <2>2 DEF ArpInv
  <2>4. /\ DOMAIN e = EntryFields /\ e.State = m_Entry[i].State
        /\ e.IPAddress = host /\ e.MACAddress = m_Entry[i].MACAddress
        /\ e.pTxQueue = Append(m_Entry[i].pTxQueue, host)
    BY <2>2, <2>3 DEF EntryOK, EntryFields
  <2>5. /\ e.pTxQueue \in Seq(Host)
        /\ \A n \in DOMAIN e.pTxQueue : e.pTxQueue[n] = host
    <3>1. /\ m_Entry[i].pTxQueue \in Seq(Host)
          /\ \A n \in DOMAIN m_Entry[i].pTxQueue : m_Entry[i].pTxQueue[n] = host
      BY <2>2, <2>3 DEF EntryOK
    <3> QED
      BY <3>1, <2>4, AppendProperties, LenProperties
  <2>6. EntryOK(e)
    BY <2>2, <2>3, <2>4, <2>5 DEF EntryOK
  <2>7. m_Entry' = [m_Entry EXCEPT ![i] = e]
    BY <2>1
  <2> QED
    BY <2>2, <2>4, <2>6, <2>7, Changed
<1>2. CASE ResolveAsks(host)
  <2> DEFINE free == InState({"FreeSlot"})
  <2>1. Of(host) \ free = {}
    BY <1>2 DEF ResolveAsks
  <2>2. PICK i, k :
          /\ \/ i \in free \/ i \in InState({"Valid"}) \/ i = Len(m_Entry) + 1
          /\ \/ m_Entry' = m_Entry
             \/ m_Entry' = IF i \in Entries THEN [m_Entry EXCEPT ![i] = AskIn(i, host, k)]
                           ELSE Append(m_Entry, AskIn(i, host, k))
    <3> DEFINE full == Len(m_Entry) = ARP_MAX_ENTRIES
               slots == IF free # {} THEN {Min(free)}
                        ELSE IF ~full THEN {Len(m_Entry) + 1} ELSE InState({"Valid"})
               k == IF free = {} /\ ~full THEN TakeBlock(arpTimers) ELSE arpTimers
    <3>1. \/ m_Entry' = m_Entry
          \/ \E i \in slots :
               m_Entry' = IF i \in Entries THEN [m_Entry EXCEPT ![i] = AskIn(i, host, k)]
                          ELSE Append(m_Entry, AskIn(i, host, k))
      BY <1>2 DEF ResolveAsks
    <3>2. \A i \in slots : i \in free \/ i \in InState({"Valid"}) \/ i = Len(m_Entry) + 1
      <4>1. free \subseteq Nat
        BY TableIsSequence DEF ArpInv, InState
      <4> QED
        BY <4>1, FirstFound
    <3>3. Len(m_Entry) + 1 \in {Len(m_Entry) + 1}
      OBVIOUS
    <3> HIDE DEF slots, k
    <3> QED
      BY <3>1, <3>2
  <2>3. CASE m_Entry' = m_Entry
    BY <2>3, Untouched
  <2>4. CASE m_Entry' # m_Entry
    <3>1. i \in Entries => m_Entry[i].State \in {"FreeSlot", "Valid"}
      BY <2>2, TableIsSequence DEF InState, ArpInv
    <3>2. EntryOK(AskIn(i, host, k)) /\ IsOnly(AskIn(i, host, k), i)
      BY <2>1, <3>1, AskedEntry
    <3>3. CASE i \in Entries
      BY <2>2, <2>4, <3>2, <3>3, Replaced
    <3>4. CASE i \notin Entries
      <4>1. i = Len(m_Entry) + 1
        BY <2>2, <3>4 DEF InState
      <4> QED
        BY <2>2, <2>4, <3>2, <3>4, <4>1, Added
    <3> QED
      BY <3>3, <3>4
  <2> QED
    BY <2>3, <2>4
<1> QED
  BY <1>1, <1>2

LEMMA PacketKeeps ==
  ASSUME ArpInv, NEW host \in Host, ReplyReceived(host) \/ RequestReceived(host)
  PROVE  ArpInv'
<1>0. CASE m_Entry' = m_Entry
  BY <1>0, Untouched
<1>1. CASE ReplyReceived(host) /\ m_Entry' # m_Entry
  <2> DEFINE i == Min(Of(host) \cap InState(Pending))
             e == [Answered(m_Entry[i], "SendTxQueue") EXCEPT !.MACAddress = host]
  <2>1. i \in Of(host) \cap InState(Pending)
    <3>1. Of(host) \cap InState(Pending) # {}
      BY <1>1 DEF ReplyReceived
    <3>2. Of(host) \cap InState(Pending) \subseteq Nat
      BY TableIsSequence DEF ArpInv, InState
    <3> QED
      BY <3>1, <3>2, FirstFound
  <2>2. m_Entry' = [m_Entry EXCEPT ![i] = e]
    BY <1>1 DEF ReplyReceived
  <2> HIDE DEF i
  <2>3. /\ i \in Entries /\ m_Entry[i].IPAddress = host
        /\ m_Entry[i].State # "FreeSlot" /\ EntryOK(m_Entry[i])
    BY <2>1 DEF Of, InState, Pending, ArpInv
  <2>4. /\ DOMAIN e = EntryFields /\ e.State = "SendTxQueue"
        /\ e.IPAddress = host /\ e.MACAddress = host
        /\ e.pTxQueue = m_Entry[i].pTxQueue
    BY <2>3 DEF EntryOK, EntryFields, Answered
  <2>5. EntryOK(e)
    BY <2>3, <2>4 DEF EntryOK
  <2> QED
    BY <2>2, <2>3, <2>4, <2>5, Changed
<1>2. CASE RequestReceived(host) /\ m_Entry' # m_Entry
  <2> DEFINE free == InState({"FreeSlot"})
             i == Min(free)
             e == [m_Entry[i] EXCEPT !.IPAddress = host, !.MACAddress = host,
                                     !.State = "Valid"]
             new == [State |-> "Valid", IPAddress |-> host, MACAddress |-> host,
                     hTimer |-> 0, nAttempts |-> 0, pTxQueue |-> <<>>]
  <2>1. /\ Of(host) \ free = {}
        /\ \/ free # {} /\ m_Entry' = [m_Entry EXCEPT ![i] = e]
           \/ m_Entry' = Append(m_Entry, new)
    BY <1>2 DEF RequestReceived
  <2>2. ASSUME NEW x, NEW j, x.IPAddress = host
        PROVE  IsOnly(x, j)
    BY <2>1, <2>2 DEF IsOnly, Of, InState
  <2>3. CASE free # {} /\ m_Entry' = [m_Entry EXCEPT ![i] = e]
    <3>1. i \in free
      <4>1. free \subseteq Nat
        BY TableIsSequence DEF ArpInv, InState
      <4> QED
        BY <2>3, <4>1, FirstFound
    <3> HIDE DEF i
    <3>2. i \in Entries /\ m_Entry[i].State = "FreeSlot" /\ EntryOK(m_Entry[i])
      BY <3>1 DEF InState, ArpInv
    <3>3. /\ DOMAIN e = EntryFields /\ e.State = "Valid"
          /\ e.IPAddress = host /\ e.MACAddress = host
          /\ e.pTxQueue = m_Entry[i].pTxQueue /\ e.pTxQueue = <<>>
      BY <3>2 DEF EntryOK, EntryFields
    <3>4. EntryOK(e)
      BY <3>2, <3>3 DEF EntryOK
    <3> QED
      BY <2>2, <2>3, <3>2, <3>3, <3>4, Replaced
  <2>4. CASE m_Entry' = Append(m_Entry, new)
    <3>1. EntryOK(new) /\ new.IPAddress = host
      BY DEF EntryOK, EntryFields
    <3> QED
      BY <2>2, <2>4, <3>1, Added
  <2> QED
    BY <2>1, <2>3, <2>4
<1> QED
  BY <1>0, <1>1, <1>2

LEMMA NetTaskKeeps ==
  ASSUME ArpInv, NetTaskStep
  PROVE  ArpInv'
<1> DEFINE i == nEntry
<1>0. CASE m_Entry' = m_Entry
  BY <1>0, Untouched
<1>1. CASE ProcessBegins \/ EntriesBegin \/ PassEntry \/ RetryIsTimed
  BY <1>0, <1>1 DEF ProcessBegins, EntriesBegin, PassEntry, RetryIsTimed
<1>2. CASE RetryRequest
  <2> DEFINE e == [m_Entry[i] EXCEPT !.nAttempts = @ + 1, !.State = "RequestSent",
                                     !.hTimer = NewBlock(arpTimers)]
  <2>1. i \in Entries /\ m_Entry[i].State = "RetryRequest" /\ EntryOK(m_Entry[i])
    BY <1>2 DEF RetryRequest, AtRetry, ArpInv
  <2>2. /\ DOMAIN e = EntryFields /\ e.State = "RequestSent"
        /\ e.IPAddress = m_Entry[i].IPAddress /\ e.pTxQueue = m_Entry[i].pTxQueue
    BY <2>1 DEF EntryOK, EntryFields
  <2>3. EntryOK(e)
    BY <2>1, <2>2 DEF EntryOK
  <2>4. m_Entry' = [m_Entry EXCEPT ![i] = e]
    BY <1>2 DEF RetryRequest
  <2> QED
    BY <2>1, <2>2, <2>3, <2>4, Changed
<1>3. CASE GiveUp
  <2> DEFINE e == [Freed(m_Entry[i]) EXCEPT !.pTxQueue = <<>>]
  <2>1. i \in Entries /\ m_Entry[i].State = "RetryRequest" /\ EntryOK(m_Entry[i])
    BY <1>3 DEF GiveUp, AtEntry, ArpInv
  <2>2. DOMAIN e = EntryFields /\ e.State = "FreeSlot" /\ e.pTxQueue = <<>>
    BY <2>1 DEF EntryOK, EntryFields, Freed, Answered
  <2>3. EntryOK(e)
    BY <2>2 DEF EntryOK
  <2>4. m_Entry' = [m_Entry EXCEPT ![i] = e]
    BY <1>3 DEF GiveUp
  <2> QED
    BY <2>1, <2>2, <2>3, <2>4, Replaced DEF IsOnly
<1>4. CASE SendTxQueue
  <2> DEFINE e == [m_Entry[i] EXCEPT !.pTxQueue = <<>>, !.State = "Valid"]
  <2>1. i \in Entries /\ m_Entry[i].State = "SendTxQueue" /\ EntryOK(m_Entry[i])
    BY <1>4 DEF SendTxQueue, AtEntry, ArpInv
  <2>2. /\ DOMAIN e = EntryFields /\ e.State = "Valid" /\ e.pTxQueue = <<>>
        /\ e.IPAddress = m_Entry[i].IPAddress /\ e.MACAddress = m_Entry[i].MACAddress
    BY <2>1 DEF EntryOK, EntryFields
  <2>3. EntryOK(e)
    BY <2>1, <2>2 DEF EntryOK
  <2>4. m_Entry' = [m_Entry EXCEPT ![i] = e]
    BY <1>4 DEF SendTxQueue
  <2> QED
    BY <2>1, <2>2, <2>3, <2>4, Changed
<1>5. CASE ProcessEnds
  <2>1. PICK old \in SUBSET InState({"Valid"}) :
          m_Entry' = [j \in Entries |-> IF j \in old THEN Freed(m_Entry[j])
                                                     ELSE m_Entry[j]]
    BY <1>5 DEF ProcessEnds
  <2>2. Entries' = Entries /\ Table'
    BY <2>1 DEF ArpInv, Table, Entries
  <2>3. ASSUME NEW j \in Entries
        PROVE  /\ EntryOK(m_Entry'[j])
               /\ m_Entry'[j].State = "FreeSlot" \/ m_Entry'[j] = m_Entry[j]
    <3>1. EntryOK(m_Entry[j])
      BY DEF ArpInv
    <3>2. CASE j \in old
      <4> DEFINE e == Freed(m_Entry[j])
      <4>1. m_Entry'[j] = e /\ m_Entry[j].State = "Valid"
        BY <2>1, <3>2 DEF InState
      <4>2. /\ DOMAIN e = EntryFields /\ e.State = "FreeSlot"
            /\ e.pTxQueue = m_Entry[j].pTxQueue
        BY <3>1 DEF EntryOK, EntryFields, Freed, Answered
      <4> QED
        BY <3>1, <4>1, <4>2 DEF EntryOK
    <3>3. CASE j \notin old
      BY <2>1, <3>1, <3>3
    <3> QED
      BY <3>2, <3>3
  <2> QED
    BY <2>2, <2>3 DEF ArpInv, IsOnly, EntryOK
<1> QED
  BY <1>1, <1>2, <1>3, <1>4, <1>5 DEF NetTaskStep

\* The timer's handler may name an entry that is long someone else's.
LEMMA TimerKeeps ==
  ASSUME ArpInv, TimerHandler
  PROVE  ArpInv'
<1> DEFINE i == arpTimers.list[1].handler
           e == [m_Entry[i] EXCEPT !.State = "RetryRequest"]
<1>0. CASE m_Entry' = m_Entry
  BY <1>0, Untouched
<1>1. \/ m_Entry' = m_Entry
      \/ m_Entry[i].State = "RequestSent" /\ m_Entry' = [m_Entry EXCEPT ![i] = e]
  BY DEF TimerHandler
<1> HIDE DEF i
<1>2. CASE m_Entry[i].State = "RequestSent" /\ m_Entry' = [m_Entry EXCEPT ![i] = e]
  <2>1. CASE i \notin Entries
    <3>1. m_Entry' = m_Entry
      BY <1>2, <2>1 DEF ArpInv, Table, Entries
    <3> QED
      BY <1>0, <3>1
  <2>2. CASE i \in Entries
    <3>1. EntryOK(m_Entry[i])
      BY <2>2 DEF ArpInv
    <3>2. /\ DOMAIN e = EntryFields /\ e.State = "RetryRequest"
          /\ e.IPAddress = m_Entry[i].IPAddress /\ e.pTxQueue = m_Entry[i].pTxQueue
      BY <3>1 DEF EntryOK, EntryFields
    <3>3. EntryOK(e)
      BY <3>1, <3>2 DEF EntryOK
    <3> QED
      BY <1>2, <2>2, <3>2, <3>3, Changed
  <2> QED
    BY <2>1, <2>2
<1> QED
  BY <1>0, <1>1, <1>2

LEMMA ArpAlways == ArpSpec => []ArpInv
<1>1. ArpInit => ArpInv
  <2>1. ASSUME ArpInit
        PROVE  DOMAIN m_Entry = 1 .. 0 /\ m_Entry = [j \in 1 .. 0 |-> m_Entry[j]]
    BY <2>1 DEF ArpInit
  <2> QED
    BY <2>1, 1 .. 0 = {} DEF ArpInv, Table, Entries
<1>2. ArpInv /\ [ArpNext]_arpVars => ArpInv'
  <2> SUFFICES ASSUME ArpInv, [ArpNext]_arpVars
               PROVE  ArpInv'
    OBVIOUS
  <2>1. CASE ArpHalted \/ UNCHANGED arpVars
    BY <2>1, Untouched DEF ArpHalted, arpVars
  <2>2. CASE NetTaskStep \/ TimerHandler
    BY <2>2, NetTaskKeeps, TimerKeeps
  <2> QED
    BY <2>1, <2>2, ResolveKeeps, PacketKeeps DEF ArpNext
<1> QED
  BY <1>1, <1>2, PTL DEF ArpSpec

-----------------------------------------------------------------------------
(* The theorems                                                             *)

\* Frames that wait for a reply are sent to their host or given up, never handed
\* to the next host of a slot, whatever packets come and whenever timers elapse
\* (Resolve, Process, TimerHandler).
THEOREM FramesReachTheirHost == ArpSpec => []FramesForTheirHost
<1>1. ArpInv => FramesForTheirHost
  BY DEF ArpInv, EntryOK, FramesForTheirHost
<1> QED
  BY <1>1, ArpAlways, PTL

\* Resolve() and RequestReceived() never make a second entry for a host.
THEOREM HostsAreListedOnce == ArpSpec => []OneEntryPerHost
<1>1. ArpInv => OneEntryPerHost
  BY DEF ArpInv, IsOnly, InState, OneEntryPerHost
<1> QED
  BY <1>1, ArpAlways, PTL

-----------------------------------------------------------------------------
(* The push buttons                                                         *)

Address == Nat \ {0}
Ticks == 0 .. TickWrap - 1
Handler == {"debounce", "tick", "other"}
Timer == [pTimer : Address, pElement : Address, nElapsesAt : Ticks, handler : Handler]

-----------------------------------------------------------------------------
(* The heap                                                                 *)

Used(k) == {k.list[i].pTimer : i \in DOMAIN k.list} \cup {k.list[i].pElement : i \in DOMAIN k.list}
Free(k) == {k.free[m] : m \in DOMAIN k.free}

\* Every block that was ever cut from the heap is free, or one timer or one
\* element of the list, or out: taken and not yet, or no more, on the list.
OneUse(k) ==
  /\ \A m, n \in DOMAIN k.free : k.free[m] = k.free[n] => m = n
  /\ \A i, j \in DOMAIN k.list :
       /\ k.list[i].pTimer = k.list[j].pTimer => i = j
       /\ k.list[i].pElement = k.list[j].pElement => i = j
       /\ k.list[i].pTimer # k.list[j].pElement

HeapOK(k, out) ==
  /\ k \in [list : Seq(Timer), free : Seq(Address), top : Nat]
  /\ Used(k) \cup Free(k) \cup out \subseteq 1 .. k.top
  /\ Used(k) \cap Free(k) = {} /\ Used(k) \cap out = {} /\ Free(k) \cap out = {}
  /\ OneUse(k)

\* A block that is allocated is used for nothing else.
LEMMA Allocates ==
  ASSUME NEW k, NEW out, HeapOK(k, out)
  PROVE  /\ NewBlock(k) \in Address /\ NewBlock(k) \notin Used(k) \cup out
         /\ TakeBlock(k).list = k.list
         /\ HeapOK(TakeBlock(k), out \cup {NewBlock(k)})
<1>1. /\ k \in [list : Seq(Timer), free : Seq(Address), top : Nat]
      /\ Used(k) \cup Free(k) \cup out \subseteq 1 .. k.top
      /\ Used(k) \cap Free(k) = {} /\ Used(k) \cap out = {} /\ Free(k) \cap out = {}
      /\ OneUse(k)
      /\ k.top \in Nat /\ k.free \in Seq(Address)
  BY DEF HeapOK
<1>2. CASE k.free = <<>>
  <2> DEFINE l == [k EXCEPT !.top = @ + 1]
  <2>1. /\ l \in [list : Seq(Timer), free : Seq(Address), top : Nat]
        /\ l.list = k.list /\ l.free = k.free /\ l.top = k.top + 1
    BY <1>1
  <2>2. NewBlock(k) = k.top + 1 /\ TakeBlock(k) = l
    BY <1>2 DEF NewBlock, TakeBlock
  <2> HIDE DEF l
  <2>3. Used(l) = Used(k) /\ Free(l) = Free(k) /\ OneUse(l)
    BY <1>1, <2>1 DEF Used, Free, OneUse
  <2>4. k.top + 1 \in Address /\ k.top + 1 \notin 1 .. k.top
        /\ 1 .. l.top = (1 .. k.top) \cup {k.top + 1}
    BY <1>1, <2>1 DEF Address
  <2>5. HeapOK(l, out \cup {k.top + 1})
    BY <1>1, <2>1, <2>3, <2>4 DEF HeapOK
  <2> QED
    BY <1>1, <2>1, <2>2, <2>4, <2>5
<1>3. CASE k.free # <<>>
  <2> DEFINE l == [k EXCEPT !.free = Tail(@)]
             b == Head(k.free)
  <2>1. /\ Len(k.free) \in Nat \ {0} /\ DOMAIN k.free = 1 .. Len(k.free)
        /\ b \in Address /\ b = k.free[1]
        /\ Tail(k.free) \in Seq(Address) /\ DOMAIN Tail(k.free) = 1 .. Len(k.free) - 1
        /\ \A m \in 1 .. Len(k.free) - 1 : Tail(k.free)[m] = k.free[m + 1]
    BY <1>1, <1>3, EmptySeq, LenProperties, HeadTailProperties
  <2>2. /\ l \in [list : Seq(Timer), free : Seq(Address), top : Nat]
        /\ l.list = k.list /\ l.free = Tail(k.free) /\ l.top = k.top
    BY <1>1, <2>1
  <2>3. NewBlock(k) = b /\ TakeBlock(k) = l
    BY <1>3 DEF NewBlock, TakeBlock
  <2> HIDE DEF l, b
  <2>4. Used(l) = Used(k) /\ b \in Free(k)
    <3>1. l.list = k.list
      BY <2>2
    <3>2. 1 \in DOMAIN k.free /\ k.free[1] = b
      BY <2>1
    <3>3. b \in Free(k)
      BY <3>2 DEF Free
    <3> QED
      BY <3>1, <3>3 DEF Used
  <2>5. \A m \in DOMAIN l.free : m + 1 \in DOMAIN k.free /\ m + 1 # 1 /\ l.free[m] = k.free[m + 1]
    BY <2>1, <2>2
  <2>6. Free(l) \subseteq Free(k) \ {b}
    BY <1>1, <2>1, <2>5 DEF Free, OneUse
  <2>7. OneUse(l)
    <3>1. \A m, n \in DOMAIN k.free : k.free[m] = k.free[n] => m = n
      BY <1>1 DEF OneUse
    <3>2. \A m, n \in DOMAIN l.free : l.free[m] = l.free[n] => m = n
      <4> SUFFICES ASSUME NEW m \in DOMAIN l.free, NEW n \in DOMAIN l.free,
                          l.free[m] = l.free[n]
                   PROVE  m = n
        OBVIOUS
      <4>1. k.free[m + 1] = k.free[n + 1]
        BY <2>5
      <4>2. m + 1 = n + 1
        BY <2>5, <3>1, <4>1
      <4>3. m \in Int /\ n \in Int
        BY <2>1, <2>2
      <4> QED
        BY <4>2, <4>3
    <3> QED
      BY <1>1, <2>2, <3>2 DEF OneUse
  <2>8. HeapOK(l, out \cup {b})
    BY <1>1, <2>2, <2>4, <2>6, <2>7 DEF HeapOK
  <2> QED
    BY <1>1, <2>1, <2>2, <2>3, <2>4, <2>8
<1> QED
  BY <1>2, <1>3

\* The block freed last is the next one.
LEMMA Frees ==
  ASSUME NEW k, NEW out, HeapOK(k, out), NEW b \in out
  PROVE  /\ HeapOK(FreeBlock(k, b), out \ {b})
         /\ FreeBlock(k, b).list = k.list
         /\ NewBlock(FreeBlock(k, b)) = b /\ TakeBlock(FreeBlock(k, b)) = k
<1>1. /\ k \in [list : Seq(Timer), free : Seq(Address), top : Nat]
      /\ Used(k) \cup Free(k) \cup out \subseteq 1 .. k.top
      /\ Used(k) \cap Free(k) = {} /\ Used(k) \cap out = {} /\ Free(k) \cap out = {}
      /\ OneUse(k)
      /\ k.top \in Nat /\ k.free \in Seq(Address) /\ b \in Address
  BY DEF HeapOK, Address
<1> DEFINE l == FreeBlock(k, b)
           longer == <<b>> \o k.free
<1>2. /\ longer \in Seq(Address) /\ DOMAIN longer = 1 .. Len(k.free) + 1
      /\ Len(k.free) \in Nat /\ DOMAIN k.free = 1 .. Len(k.free)
      /\ longer[1] = b /\ \A m \in 1 .. Len(k.free) : longer[m + 1] = k.free[m]
      /\ longer # <<>> /\ Head(longer) = b /\ Tail(longer) = k.free
  <2>1. <<b>> \in Seq(Address) /\ Len(<<b>>) = 1 /\ <<b>>[1] = b
    BY <1>1
  <2>2. Len(k.free) \in Nat /\ DOMAIN k.free = 1 .. Len(k.free)
    BY <1>1, LenProperties
  <2>3. /\ longer \in Seq(Address) /\ Len(longer) = Len(k.free) + 1
        /\ \A m \in 1 .. Len(k.free) + 1 :
             longer[m] = IF m <= 1 THEN <<b>>[m] ELSE k.free[m - 1]
    <3>1. longer \in Seq(Address) /\ Len(longer) = 1 + Len(k.free)
      BY <1>1, <2>1, ConcatProperties
    <3>2. \A m \in 1 .. 1 + Len(k.free) :
             longer[m] = IF m <= 1 THEN <<b>>[m] ELSE k.free[m - 1]
      BY <1>1, <2>1, ConcatProperties
    <3> QED
      BY <2>2, <3>1, <3>2
  <2> HIDE DEF longer
  <2>4. longer[1] = b /\ \A m \in 1 .. Len(k.free) : longer[m + 1] = k.free[m]
    BY <2>1, <2>2, <2>3
  <2>5. DOMAIN longer = 1 .. Len(k.free) + 1 /\ longer # <<>>
    BY <2>2, <2>3, LenProperties, EmptySeq
  <2>6. Head(longer) = b /\ Tail(longer) = k.free
    <3>1. Head(longer) = longer[1]
      BY <2>3, <2>5, HeadTailProperties
    <3>2. /\ Tail(longer) \in Seq(Address) /\ Len(Tail(longer)) = Len(k.free)
          /\ \A m \in 1 .. Len(k.free) : Tail(longer)[m] = longer[m + 1]
      BY <2>2, <2>3, <2>5, HeadTailProperties
    <3>3. Tail(longer) = k.free
      BY <1>1, <2>2, <2>4, <3>2, SeqEqual
    <3> QED
      BY <2>4, <3>1, <3>3
  <2> QED
    BY <2>2, <2>3, <2>4, <2>5, <2>6
<1>3. /\ l \in [list : Seq(Timer), free : Seq(Address), top : Nat]
      /\ l.list = k.list /\ l.free = longer /\ l.top = k.top
  BY <1>1, <1>2 DEF FreeBlock
<1>4. NewBlock(l) = b /\ TakeBlock(l) = k
  <2>1. NewBlock(l) = b
    BY <1>2, <1>3 DEF NewBlock
  <2>2. TakeBlock(l) = [l EXCEPT !.free = k.free]
    BY <1>2, <1>3 DEF TakeBlock
  <2>3. TakeBlock(l) = k
    BY <1>1, <1>3, <2>2
  <2> QED
    BY <2>1, <2>3
<1> HIDE DEF l, longer
<1>5. Used(l) = Used(k) /\ Free(l) = Free(k) \cup {b} /\ OneUse(l)
  <2>1. Used(l) = Used(k)
    BY <1>3 DEF Used
  <2>2. \A m \in DOMAIN longer : m = 1 \/ (m - 1 \in DOMAIN k.free /\ longer[m] = k.free[m - 1])
    BY <1>2
  <2>3. \A m \in DOMAIN k.free : m + 1 \in DOMAIN longer /\ longer[m + 1] = k.free[m]
    BY <1>2
  <2>4. Free(l) = Free(k) \cup {b}
    <3>1. 1 \in DOMAIN longer
      BY <1>2
    <3>2. ASSUME NEW x \in Free(l)
          PROVE  x \in Free(k) \cup {b}
      <4>1. PICK m \in DOMAIN longer : x = longer[m]
        BY <1>3 DEF Free
      <4> QED
        BY <1>2, <2>2, <4>1 DEF Free
    <3>3. ASSUME NEW x \in Free(k)
          PROVE  x \in Free(l)
      <4>1. PICK m \in DOMAIN k.free : x = k.free[m]
        BY DEF Free
      <4> QED
        BY <1>3, <2>3, <4>1 DEF Free
    <3>4. b \in Free(l)
      BY <1>2, <1>3, <3>1 DEF Free
    <3> QED
      BY <3>2, <3>3, <3>4
  <2>5. \A m \in DOMAIN k.free : k.free[m] # b
    BY <1>1 DEF Free
  <2>6. \A m, n \in DOMAIN longer : longer[m] = longer[n] => m = n
    <3>1. \A m, n \in DOMAIN k.free : k.free[m] = k.free[n] => m = n
      BY <1>1 DEF OneUse
    <3> SUFFICES ASSUME NEW m \in DOMAIN longer, NEW n \in DOMAIN longer,
                        longer[m] = longer[n]
                 PROVE  m = n
      OBVIOUS
    <3>2. CASE m # 1 /\ n # 1
      <4>1. m - 1 = n - 1
        BY <2>2, <3>1, <3>2
      <4> QED
        BY <1>2, <4>1
    <3>3. CASE m = 1 \/ n = 1
      BY <1>2, <2>2, <2>5, <3>3
    <3> QED
      BY <3>2, <3>3
  <2> QED
    BY <1>1, <1>3, <2>1, <2>4, <2>6 DEF OneUse
<1>6. HeapOK(l, out \ {b})
  BY <1>1, <1>3, <1>5 DEF HeapOK
<1> QED
  BY <1>3, <1>4, <1>6 DEF l

-----------------------------------------------------------------------------
(* The clock                                                                *)

\* How long it is to a time, in the width of the counter; less than 0 if it has
\* been over for no more than MaxLag ticks and one.
Left(a, now) == ((a - now + MaxLag + 1) % TickWrap) - (MaxLag + 1)

\* Less than half a turn, even to a timer that is overdue
Far == TickWrap \div 2 - MaxLag

LEMMA ClockFacts ==
  /\ TickWrap \in Nat \ {0} /\ TickWrap \div 2 \in Nat /\ 2 * (TickWrap \div 2) <= TickWrap
  /\ MaxLag \in Nat /\ MaxLag + 2 < TickWrap \div 2
  /\ Far \in Nat /\ Far = TickWrap \div 2 - MaxLag
  /\ DebounceDelay \in Nat /\ TickDelay \in Nat
  /\ 1 <= DebounceDelay /\ DebounceDelay < TickDelay /\ TickDelay < Far
  /\ \A d \in OtherDelays : d \in 1 .. Far - 1
<1>1. /\ TickWrap \in Nat \ {0} /\ TickDelay \in Nat /\ DebounceDelay \in 1 .. TickDelay - 1
      /\ MaxLag \in Nat /\ TickDelay + MaxLag < TickWrap \div 2
      /\ \A d \in OtherDelays : d \in 1 .. TickWrap \div 2 - 1 - MaxLag
  BY TickAssumption, ButtonsAssumption DEF TickAssumption, ButtonsAssumption
<1>2. TickWrap \div 2 \in Nat /\ 2 * (TickWrap \div 2) <= TickWrap
  BY <1>1
<1> DEFINE half == TickWrap \div 2
<1>3. half \in Nat /\ TickDelay + MaxLag < half /\ 2 * half <= TickWrap /\ Far = half - MaxLag
      /\ \A d \in OtherDelays : d \in 1 .. half - 1 - MaxLag
  BY <1>1, <1>2 DEF Far
<1> HIDE DEF half
<1>4. /\ MaxLag + 2 < half /\ Far \in Nat /\ DebounceDelay \in Nat
      /\ 1 <= DebounceDelay /\ DebounceDelay < TickDelay /\ TickDelay < Far
      /\ \A d \in OtherDelays : d \in 1 .. Far - 1
  BY <1>1, <1>3
<1> QED
  BY <1>1, <1>2, <1>3, <1>4 DEF half

LEMMA LeftIs ==
  ASSUME NEW a \in Ticks, NEW now \in Ticks
  PROVE  /\ Left(a, now) = IF a - now < -(MaxLag + 1) THEN a - now + TickWrap
                           ELSE IF a - now >= TickWrap - (MaxLag + 1)
                           THEN a - now - TickWrap ELSE a - now
         /\ Left(a, now) \in -(MaxLag + 1) .. TickWrap - MaxLag - 2
<1>1. /\ TickWrap \in Nat \ {0} /\ a \in 0 .. TickWrap - 1 /\ now \in 0 .. TickWrap - 1
      /\ MaxLag \in Nat /\ MaxLag + 2 < TickWrap
  BY ClockFacts DEF Ticks
<1> DEFINE x == a - now + MaxLag + 1
<1>2. x \in Int /\ -TickWrap < x /\ x < 2 * TickWrap /\ x - (MaxLag + 1) = a - now
  BY <1>1
<1>3. Left(a, now) = (x % TickWrap) - (MaxLag + 1)
  BY DEF Left
<1> HIDE DEF x
<1>4. CASE x < 0
  <2>1. x % TickWrap = x + TickWrap
    BY <1>1, <1>2, <1>4
  <2> QED
    BY <1>1, <1>2, <1>3, <1>4, <2>1
<1>5. CASE x >= TickWrap
  <2>1. x % TickWrap = x - TickWrap
    BY <1>1, <1>2, <1>5
  <2> QED
    BY <1>1, <1>2, <1>3, <1>5, <2>1
<1>6. CASE x >= 0 /\ x < TickWrap
  <2>1. x % TickWrap = x
    BY <1>1, <1>2, <1>6
  <2> QED
    BY <1>1, <1>2, <1>3, <1>6, <2>1
<1> QED
  BY <1>1, <1>2, <1>4, <1>5, <1>6

\* The time of a new timer is as far away as was asked.
LEMMA LeftAt ==
  ASSUME NEW now \in Ticks, NEW d \in 0 .. Far - 1
  PROVE  (now + d) % TickWrap \in Ticks /\ Left((now + d) % TickWrap, now) = d
<1>1. /\ TickWrap \in Nat \ {0} /\ now \in 0 .. TickWrap - 1
      /\ MaxLag \in Nat /\ d \in Nat /\ d + MaxLag + 1 < TickWrap
  BY ClockFacts DEF Ticks
<1>2. CASE now + d < TickWrap
  <2>1. (now + d) % TickWrap = now + d
    BY <1>1, <1>2
  <2>2. now + d \in Ticks
    BY <1>1, <1>2 DEF Ticks
  <2> QED
    BY <1>1, <1>2, <2>1, <2>2, LeftIs
<1>3. CASE now + d >= TickWrap
  <2>1. (now + d) % TickWrap = now + d - TickWrap
    BY <1>1, <1>3
  <2>2. now + d - TickWrap \in Ticks
    BY <1>1, <1>3 DEF Ticks
  <2> QED
    BY <1>1, <1>3, <2>1, <2>2, LeftIs
<1> QED
  BY <1>1, <1>2, <1>3

\* The signed comparison orders what is less than half a turn apart.
LEMMA LaterIs ==
  ASSUME NEW a \in Ticks, NEW b \in Ticks, NEW now \in Ticks,
         Left(a, now) - Left(b, now) < TickWrap \div 2,
         Left(b, now) - Left(a, now) <= TickWrap \div 2
  PROVE  Later(a, b) <=> Left(a, now) > Left(b, now)
<1> DEFINE half == TickWrap \div 2
<1>1. /\ TickWrap \in Nat \ {0} /\ half \in Nat /\ 2 * half <= TickWrap
      /\ a \in 0 .. TickWrap - 1 /\ b \in 0 .. TickWrap - 1 /\ now \in 0 .. TickWrap - 1
      /\ MaxLag \in Nat /\ MaxLag + 2 < half
      /\ Left(a, now) - Left(b, now) < half /\ Left(b, now) - Left(a, now) <= half
  BY ClockFacts DEF Ticks
<1> HIDE DEF half
<1>2. /\ Left(a, now) = IF a - now < -(MaxLag + 1) THEN a - now + TickWrap
                        ELSE IF a - now >= TickWrap - (MaxLag + 1)
                        THEN a - now - TickWrap ELSE a - now
      /\ Left(b, now) = IF b - now < -(MaxLag + 1) THEN b - now + TickWrap
                        ELSE IF b - now >= TickWrap - (MaxLag + 1)
                        THEN b - now - TickWrap ELSE b - now
      /\ Left(a, now) \in Int /\ Left(b, now) \in Int
  BY LeftIs
<1>3. (a - b) % TickWrap = IF a >= b THEN a - b ELSE a - b + TickWrap
  <2>1. CASE a >= b
    BY <1>1, <2>1
  <2>2. CASE a < b
    <3>1. (a - b) % TickWrap = a - b + TickWrap
      BY <1>1, <2>2
    <3> QED
      BY <1>1, <2>2, <3>1
  <2> QED
    BY <1>1, <2>1, <2>2
<1>4. Later(a, b) <=> (a - b) % TickWrap \in 1 .. half - 1
  BY DEF Later, half
<1>5. (a - b) % TickWrap \in 1 .. half - 1 <=> Left(a, now) > Left(b, now)
  BY <1>1, <1>2, <1>3
<1> QED
  BY <1>4, <1>5

\* Of a timer that is not too far away: it has not elapsed yet.
LEMMA LaterThanNow ==
  ASSUME NEW a \in Ticks, NEW now \in Ticks, Left(a, now) < Far
  PROVE  Later(a, now) <=> Left(a, now) >= 1
<1>1. /\ MaxLag \in Nat /\ MaxLag + 2 < TickWrap \div 2 /\ TickWrap \div 2 \in Nat
      /\ Far = TickWrap \div 2 - MaxLag /\ now \in 0 .. TickWrap - 1 /\ TickWrap \in Nat
      /\ 2 * (TickWrap \div 2) <= TickWrap
  BY ClockFacts DEF Ticks
<1>2. Left(now, now) = 0
  BY <1>1, LeftIs
<1>3. Left(a, now) \in Int /\ Left(a, now) >= -(MaxLag + 1)
  BY <1>1, LeftIs
<1>4. /\ Left(a, now) - Left(now, now) < TickWrap \div 2
      /\ Left(now, now) - Left(a, now) <= TickWrap \div 2
  BY <1>1, <1>2, <1>3
<1>5. Later(a, now) <=> Left(a, now) > Left(now, now)
  BY <1>4, LaterIs
<1> QED
  BY <1>2, <1>3, <1>5

\* A tick brings a time nearer, or leaves it farther behind.
LEMMA LeftPasses ==
  ASSUME NEW a \in Ticks, NEW now \in Ticks, Left(a, now) >= -MaxLag
  PROVE  (now + 1) % TickWrap \in Ticks /\ Left(a, (now + 1) % TickWrap) = Left(a, now) - 1
<1>1. /\ TickWrap \in Nat \ {0} /\ a \in 0 .. TickWrap - 1 /\ now \in 0 .. TickWrap - 1
      /\ MaxLag \in Nat /\ MaxLag + 2 < TickWrap
  BY ClockFacts DEF Ticks
<1>2. Left(a, now) = IF a - now < -(MaxLag + 1) THEN a - now + TickWrap
                     ELSE IF a - now >= TickWrap - (MaxLag + 1)
                     THEN a - now - TickWrap ELSE a - now
  BY LeftIs
<1>3. CASE now + 1 < TickWrap
  <2>1. (now + 1) % TickWrap = now + 1 /\ now + 1 \in Ticks
    BY <1>1, <1>3 DEF Ticks
  <2>2. Left(a, now + 1) = IF a - (now + 1) < -(MaxLag + 1) THEN a - (now + 1) + TickWrap
                           ELSE IF a - (now + 1) >= TickWrap - (MaxLag + 1)
                           THEN a - (now + 1) - TickWrap ELSE a - (now + 1)
    BY <2>1, LeftIs
  <2> QED
    BY <1>1, <1>2, <2>1, <2>2
<1>4. CASE now + 1 = TickWrap
  <2>1. (now + 1) % TickWrap = 0 /\ 0 \in Ticks
    BY <1>1, <1>4 DEF Ticks
  <2>2. Left(a, 0) = IF a - 0 < -(MaxLag + 1) THEN a - 0 + TickWrap
                     ELSE IF a - 0 >= TickWrap - (MaxLag + 1)
                     THEN a - 0 - TickWrap ELSE a - 0
    BY <2>1, LeftIs
  <2> QED
    BY <1>1, <1>2, <1>4, <2>1, <2>2
<1> QED
  BY <1>1, <1>3, <1>4

-----------------------------------------------------------------------------
(* The list                                                                 *)

\* No timer is too far away, they are in the order in which they elapse, and a
\* debounce timer is not overdue and elapses before a tick timer behind it.
Due(list, now) ==
  /\ \A i \in DOMAIN list : Left(list[i].nElapsesAt, now) < Far
  /\ \A i, j \in DOMAIN list :
       i < j => Left(list[i].nElapsesAt, now) <= Left(list[j].nElapsesAt, now)
  /\ \A i \in DOMAIN list :
       list[i].handler = "debounce" => Left(list[i].nElapsesAt, now) \in 0 .. DebounceDelay
  /\ \A i, j \in DOMAIN list :
       list[i].handler = "debounce" /\ list[j].handler = "tick" /\ i < j
         => Left(list[i].nElapsesAt, now) < Left(list[j].nElapsesAt, now)

\* A handle is 0 and no timer has the handler, or it is the address of the one
\* that has.
Named(list, hTimer, handler) ==
  IF hTimer = 0 THEN \A i \in DOMAIN list : list[i].handler # handler
  ELSE \E i \in DOMAIN list : /\ list[i].pTimer = hTimer
                              /\ \A j \in DOMAIN list : list[j].handler = handler <=> j = i

LEMMA TimerFacts ==
  ASSUME NEW list \in Seq(Timer), NEW i \in DOMAIN list, NEW now \in Ticks
  PROVE  /\ list[i].pTimer \in Address /\ list[i].pElement \in Address
         /\ list[i].nElapsesAt \in Ticks /\ list[i].handler \in Handler
         /\ Left(list[i].nElapsesAt, now) \in -(MaxLag + 1) .. TickWrap - MaxLag - 2
         /\ Left(list[i].nElapsesAt, now) \in Int
         /\ i \in Nat /\ i >= 1
<1>1. i \in 1 .. Len(list) /\ Len(list) \in Nat
  BY LenProperties
<1>2. list[i] \in Timer
  BY <1>1, ElementOfSeq
<1>3. /\ list[i].pTimer \in Address /\ list[i].pElement \in Address
      /\ list[i].nElapsesAt \in Ticks /\ list[i].handler \in Handler
  BY <1>2 DEF Timer
<1>4. Left(list[i].nElapsesAt, now) \in -(MaxLag + 1) .. TickWrap - MaxLag - 2
  BY <1>3, LeftIs
<1>5. Left(list[i].nElapsesAt, now) \in Int
  BY <1>4, ClockFacts
<1> QED
  BY <1>1, <1>3, <1>4, <1>5

\* What is on a list, and where, after a timer was inserted.
Placed(new, list, p, e) ==
  /\ new \in Seq(Timer) /\ DOMAIN new = 1 .. Len(list) + 1
  /\ DOMAIN list = 1 .. Len(list) /\ Len(list) \in Nat
  /\ \A i \in 1 .. Len(list) + 1 :
       new[i] = IF i < p THEN list[i] ELSE IF i = p THEN e ELSE list[i - 1]

LEMMA TimerInserted ==
  ASSUME NEW list \in Seq(Timer), NEW e \in Timer, NEW p \in 1 .. Len(list) + 1
  PROVE  Placed(InsertAt(list, p, e), list, p, e)
<1>1. DOMAIN list = 1 .. Len(list) /\ Len(list) \in Nat
  BY LenProperties
<1>2. /\ InsertAt(list, p, e) \in Seq(Timer)
      /\ DOMAIN InsertAt(list, p, e) = 1 .. Len(list) + 1
  BY Inserts
<1>3. \A i \in 1 .. Len(list) + 1 :
        InsertAt(list, p, e)[i] = IF i < p THEN list[i] ELSE IF i = p THEN e ELSE list[i - 1]
  BY Inserts, SMTT(60)
<1> QED
  BY <1>1, <1>2, <1>3 DEF Placed

\* A timer that goes behind those that elapse no later keeps the order.
LEMMA InsertDue ==
  ASSUME NEW list \in Seq(Timer), NEW now \in Ticks, Due(list, now), NEW e \in Timer,
         NEW p \in 1 .. Len(list) + 1, NEW d \in Int, d = Left(e.nElapsesAt, now),
         d < Far,
         \A i \in DOMAIN list : i < p => Left(list[i].nElapsesAt, now) <= d,
         \A i \in DOMAIN list : i >= p => Left(list[i].nElapsesAt, now) > d,
         e.handler = "debounce" => d \in 0 .. DebounceDelay,
         e.handler = "tick" => d > DebounceDelay
  PROVE  InsertAt(list, p, e) \in Seq(Timer) /\ Due(InsertAt(list, p, e), now)
<1> DEFINE new == InsertAt(list, p, e)
           L(i) == Left(list[i].nElapsesAt, now)
           N(i) == Left(new[i].nElapsesAt, now)
<1>1. /\ new \in Seq(Timer) /\ DOMAIN new = 1 .. Len(list) + 1 /\ DOMAIN list = 1 .. Len(list)
      /\ Len(list) \in Nat
      /\ \A i \in 1 .. Len(list) + 1 :
           new[i] = IF i < p THEN list[i] ELSE IF i = p THEN e ELSE list[i - 1]
  <2>1. Placed(new, list, p, e)
    BY TimerInserted
  <2> QED
    BY <2>1 DEF Placed
<1>2. /\ \A i \in DOMAIN list : L(i) \in Int /\ L(i) < Far
      /\ \A i, j \in DOMAIN list : i < j => L(i) <= L(j)
      /\ \A i \in DOMAIN list : list[i].handler = "debounce" => L(i) \in 0 .. DebounceDelay
      /\ \A i, j \in DOMAIN list :
           list[i].handler = "debounce" /\ list[j].handler = "tick" /\ i < j => L(i) < L(j)
  BY TimerFacts DEF Due
<1>3. /\ \A i \in DOMAIN list : i < p => L(i) <= d
      /\ \A i \in DOMAIN list : i >= p => L(i) > d
  OBVIOUS
<1>4. DebounceDelay \in Nat /\ Far \in Nat
  BY ClockFacts
<1>5. \A i \in DOMAIN new : N(i) = IF i < p THEN L(i) ELSE IF i = p THEN d ELSE L(i - 1)
  BY <1>1
<1>6. \A i \in DOMAIN new :
        /\ i < p => i \in DOMAIN list /\ N(i) = L(i) /\ new[i] = list[i]
        /\ i = p => N(i) = d /\ new[i] = e
        /\ i > p => i - 1 \in DOMAIN list /\ i - 1 >= p /\ N(i) = L(i - 1) /\ new[i] = list[i - 1]
        /\ i \in Nat
  BY <1>1, <1>5
<1> HIDE DEF new, L, N
<1>7. \A i \in DOMAIN new : N(i) < Far /\ N(i) \in Int
  BY <1>2, <1>6
<1>8. \A i, j \in DOMAIN new : i < j => N(i) <= N(j)
  <2> SUFFICES ASSUME NEW i \in DOMAIN new, NEW j \in DOMAIN new, i < j
               PROVE  N(i) <= N(j)
    OBVIOUS
  <2>1. CASE j < p
    BY <1>2, <1>6, <2>1
  <2>2. CASE j = p
    BY <1>2, <1>3, <1>6, <2>2
  <2>3. CASE j > p /\ i < p
    BY <1>2, <1>3, <1>6, <2>3
  <2>4. CASE j > p /\ i = p
    BY <1>2, <1>3, <1>6, <2>4
  <2>5. CASE j > p /\ i > p
    BY <1>2, <1>6, <2>5
  <2> QED
    BY <1>6, <2>1, <2>2, <2>3, <2>4, <2>5
<1>9. \A i \in DOMAIN new : new[i].handler = "debounce" => N(i) \in 0 .. DebounceDelay
  BY <1>2, <1>6
<1>10. \A i, j \in DOMAIN new :
         new[i].handler = "debounce" /\ new[j].handler = "tick" /\ i < j => N(i) < N(j)
  <2> SUFFICES ASSUME NEW i \in DOMAIN new, NEW j \in DOMAIN new, i < j,
                      new[i].handler = "debounce", new[j].handler = "tick"
               PROVE  N(i) < N(j)
    OBVIOUS
  <2>1. CASE j < p
    BY <1>2, <1>6, <2>1
  <2>2. CASE j = p
    BY <1>4, <1>6, <1>7, <1>9, <2>2
  <2>3. CASE j > p /\ i < p
    BY <1>2, <1>3, <1>6, <2>3
  <2>4. CASE j > p /\ i = p
    BY <1>2, <1>3, <1>6, <2>4
  <2>5. CASE j > p /\ i > p
    BY <1>2, <1>6, <2>5
  <2> QED
    BY <1>6, <2>1, <2>2, <2>3, <2>4, <2>5
<1> QED
  BY <1>1, <1>7, <1>8, <1>9, <1>10 DEF Due, N, new

\* Taking a timer off the list keeps the order.
LEMMA RemoveDue ==
  ASSUME NEW list \in Seq(Timer), NEW now \in Ticks, Due(list, now), NEW p \in DOMAIN list
  PROVE  RemoveAt(list, p) \in Seq(Timer) /\ Due(RemoveAt(list, p), now)
<1> DEFINE new == RemoveAt(list, p)
           Old(i) == IF i < p THEN i ELSE i + 1
<1>1. /\ new \in Seq(Timer) /\ DOMAIN new = 1 .. Len(list) - 1 /\ DOMAIN list = 1 .. Len(list)
      /\ Len(list) \in Nat /\ p \in 1 .. Len(list)
      /\ \A i \in 1 .. Len(list) - 1 : new[i] = IF i < p THEN list[i] ELSE list[i + 1]
  BY Removes, LenProperties
<1>2. \A i \in DOMAIN new : Old(i) \in DOMAIN list /\ new[i] = list[Old(i)]
  BY <1>1
<1>3. \A i, j \in DOMAIN new : i < j => Old(i) < Old(j)
  BY <1>1
<1> HIDE DEF new, Old
<1> QED
  BY <1>1, <1>2, <1>3 DEF Due, new

\* What a handle names when a timer is added, and when one is taken off
LEMMA InsertNames ==
  ASSUME NEW list \in Seq(Timer), NEW e \in Timer, NEW p \in 1 .. Len(list) + 1,
         NEW hTimer, NEW handler, Named(list, hTimer, handler)
  PROVE  /\ e.handler # handler => Named(InsertAt(list, p, e), hTimer, handler)
         /\ e.handler = handler /\ hTimer = 0
              => Named(InsertAt(list, p, e), e.pTimer, handler)
<1> DEFINE new == InsertAt(list, p, e)
           New(i) == IF i < p THEN i ELSE i + 1
<1>1. /\ new \in Seq(Timer) /\ DOMAIN new = 1 .. Len(list) + 1 /\ DOMAIN list = 1 .. Len(list)
      /\ Len(list) \in Nat
      /\ \A i \in 1 .. Len(list) + 1 :
           new[i] = IF i < p THEN list[i] ELSE IF i = p THEN e ELSE list[i - 1]
  <2>1. Placed(new, list, p, e)
    BY TimerInserted
  <2> QED
    BY <2>1 DEF Placed
<1>2. p \in DOMAIN new /\ new[p] = e /\ e.pTimer # 0
  BY <1>1 DEF Timer, Address
<1>3. \A i \in DOMAIN new : i # p => \E j \in DOMAIN list : i = New(j)
  <2> SUFFICES ASSUME NEW i \in DOMAIN new, i # p
               PROVE  \E j \in DOMAIN list : i = New(j)
    OBVIOUS
  <2>1. CASE i < p
    <3>1. i \in DOMAIN list /\ i = New(i)
      BY <1>1, <2>1
    <3> QED
      BY <3>1
  <2>2. CASE i > p
    <3>1. i - 1 \in DOMAIN list /\ i = New(i - 1)
      BY <1>1, <2>2
    <3> QED
      BY <3>1
  <2> QED
    BY <1>1, <2>1, <2>2
<1>4. \A j \in DOMAIN list : New(j) \in DOMAIN new /\ new[New(j)] = list[j] /\ New(j) # p
  BY <1>1
<1>5. \A i, j \in DOMAIN list : New(i) = New(j) => i = j
  BY <1>1
<1> HIDE DEF new, New
<1>6. ASSUME e.handler # handler
      PROVE  Named(new, hTimer, handler)
  <2>1. CASE hTimer = 0
    BY <1>2, <1>3, <1>4, <1>6, <2>1 DEF Named
  <2>2. CASE hTimer # 0
    <3>1. PICK i \in DOMAIN list :
            /\ list[i].pTimer = hTimer
            /\ \A j \in DOMAIN list : list[j].handler = handler <=> j = i
      BY <2>2 DEF Named
    <3>2. New(i) \in DOMAIN new /\ new[New(i)].pTimer = hTimer
      BY <1>4, <3>1
    <3>3. \A j \in DOMAIN new : new[j].handler = handler <=> j = New(i)
      BY <1>2, <1>3, <1>4, <1>5, <1>6, <3>1
    <3> QED
      BY <2>2, <3>2, <3>3 DEF Named
  <2> QED
    BY <2>1, <2>2
<1>7. ASSUME e.handler = handler, hTimer = 0
      PROVE  Named(new, e.pTimer, handler)
  <2>1. \A j \in DOMAIN new : new[j].handler = handler <=> j = p
    BY <1>2, <1>3, <1>4, <1>7 DEF Named
  <2> QED
    BY <1>2, <2>1 DEF Named
<1> QED
  BY <1>6, <1>7 DEF new

LEMMA RemoveNames ==
  ASSUME NEW list \in Seq(Timer), NEW p \in DOMAIN list,
         NEW hTimer, NEW handler, Named(list, hTimer, handler)
  PROVE  /\ list[p].handler # handler => Named(RemoveAt(list, p), hTimer, handler)
         /\ list[p].handler = handler => Named(RemoveAt(list, p), 0, handler)
<1> DEFINE new == RemoveAt(list, p)
           Old(i) == IF i < p THEN i ELSE i + 1
<1>1. /\ DOMAIN new = 1 .. Len(list) - 1 /\ DOMAIN list = 1 .. Len(list)
      /\ Len(list) \in Nat /\ p \in 1 .. Len(list)
      /\ \A i \in 1 .. Len(list) - 1 : new[i] = IF i < p THEN list[i] ELSE list[i + 1]
  BY Removes, LenProperties
<1>2. \A i \in DOMAIN new : Old(i) \in DOMAIN list /\ new[i] = list[Old(i)] /\ Old(i) # p
  BY <1>1
<1>3. \A i, j \in DOMAIN new : Old(i) = Old(j) => i = j
  BY <1>1
<1>4. \A j \in DOMAIN list : j # p => \E i \in DOMAIN new : j = Old(i)
  <2> SUFFICES ASSUME NEW j \in DOMAIN list, j # p
               PROVE  \E i \in DOMAIN new : j = Old(i)
    OBVIOUS
  <2>1. CASE j < p
    <3>1. j \in DOMAIN new /\ j = Old(j)
      BY <1>1, <2>1
    <3> QED
      BY <3>1
  <2>2. CASE j > p
    <3>1. j - 1 \in DOMAIN new /\ j = Old(j - 1)
      BY <1>1, <2>2
    <3> QED
      BY <3>1
  <2> QED
    BY <1>1, <2>1, <2>2
<1> HIDE DEF new, Old
<1>5. ASSUME list[p].handler # handler
      PROVE  Named(new, hTimer, handler)
  <2>1. CASE hTimer = 0
    BY <1>2, <2>1 DEF Named
  <2>2. CASE hTimer # 0
    <3>1. PICK i \in DOMAIN list :
            /\ list[i].pTimer = hTimer
            /\ \A j \in DOMAIN list : list[j].handler = handler <=> j = i
      BY <2>2 DEF Named
    <3>2. PICK m \in DOMAIN new : i = Old(m)
      BY <1>4, <1>5, <3>1
    <3>3. new[m].pTimer = hTimer
      BY <1>2, <3>1, <3>2
    <3>4. \A j \in DOMAIN new : new[j].handler = handler <=> j = m
      BY <1>2, <1>3, <3>1, <3>2
    <3> QED
      BY <2>2, <3>3, <3>4 DEF Named
  <2> QED
    BY <2>1, <2>2
<1>6. ASSUME list[p].handler = handler
      PROVE  Named(new, 0, handler)
  <2>1. CASE hTimer = 0
    BY <1>6, <2>1 DEF Named
  <2>2. CASE hTimer # 0
    <3>1. \A j \in DOMAIN list : list[j].handler = handler => j = p
      BY <1>6, <2>2 DEF Named
    <3> QED
      BY <1>2, <3>1 DEF Named
  <2> QED
    BY <2>1, <2>2
<1> QED
  BY <1>5, <1>6 DEF new

-----------------------------------------------------------------------------
(* The list on the heap                                                     *)

\* Two blocks that are out become a timer and its element.
LEMMA OnList ==
  ASSUME NEW k, NEW out, NEW e \in Timer, HeapOK(k, out \cup {e.pTimer, e.pElement}),
         e.pTimer # e.pElement, e.pTimer \notin out, e.pElement \notin out,
         NEW p \in 1 .. Len(k.list) + 1
  PROVE  HeapOK([k EXCEPT !.list = InsertAt(@, p, e)], out)
<1> DEFINE l == [k EXCEPT !.list = InsertAt(@, p, e)]
           a == e.pTimer
           b == e.pElement
           Old(i) == IF i < p THEN i ELSE i - 1
<1>1. /\ k \in [list : Seq(Timer), free : Seq(Address), top : Nat]
      /\ Used(k) \cup Free(k) \cup out \cup {a, b} \subseteq 1 .. k.top
      /\ Used(k) \cap Free(k) = {} /\ Used(k) \cap out = {} /\ Free(k) \cap out = {}
      /\ a \notin Used(k) \cup Free(k) /\ b \notin Used(k) \cup Free(k)
      /\ OneUse(k) /\ k.list \in Seq(Timer)
  BY DEF HeapOK
<1>2. /\ InsertAt(k.list, p, e) \in Seq(Timer)
      /\ DOMAIN InsertAt(k.list, p, e) = 1 .. Len(k.list) + 1
      /\ \A i \in 1 .. Len(k.list) + 1 :
           InsertAt(k.list, p, e)[i] = IF i < p THEN k.list[i]
                                       ELSE IF i = p THEN e ELSE k.list[i - 1]
  <2>1. k.list \in Seq(Timer)
    BY <1>1
  <2>2. Placed(InsertAt(k.list, p, e), k.list, p, e)
    BY <2>1, TimerInserted
  <2> QED
    BY <2>2 DEF Placed
<1>3. /\ l \in [list : Seq(Timer), free : Seq(Address), top : Nat]
      /\ l.list = InsertAt(k.list, p, e) /\ l.free = k.free /\ l.top = k.top
  BY <1>1, <1>2
<1>4. Len(k.list) \in Nat /\ DOMAIN k.list = 1 .. Len(k.list)
  BY <1>1, LenProperties
<1>5. /\ \A i \in DOMAIN l.list : i # p => Old(i) \in DOMAIN k.list /\ l.list[i] = k.list[Old(i)]
      /\ \A i, j \in DOMAIN l.list : i # p /\ j # p /\ Old(i) = Old(j) => i = j
      /\ l.list[p] = e
  <2>1. /\ DOMAIN l.list = 1 .. Len(k.list) + 1
        /\ \A i \in 1 .. Len(k.list) + 1 :
             l.list[i] = IF i < p THEN k.list[i] ELSE IF i = p THEN e ELSE k.list[i - 1]
    BY <1>2, <1>3
  <2> HIDE DEF l
  <2>2. \A i \in DOMAIN l.list : i # p => Old(i) \in DOMAIN k.list /\ l.list[i] = k.list[Old(i)]
    BY <2>1, <1>4, SMTT(30)
  <2>3. \A i, j \in DOMAIN l.list : i # p /\ j # p /\ Old(i) = Old(j) => i = j
    BY <2>1, <1>4, SMTT(30)
  <2>4. l.list[p] = e
    BY <2>1, <1>4
  <2> QED
    BY <2>2, <2>3, <2>4
<1> HIDE DEF l, Old
<1>6. \A i \in DOMAIN l.list : i # p =>
        /\ l.list[i].pTimer \in Used(k) /\ l.list[i].pElement \in Used(k)
        /\ l.list[i].pTimer # a /\ l.list[i].pTimer # b
        /\ l.list[i].pElement # a /\ l.list[i].pElement # b
  BY <1>1, <1>5 DEF Used
<1>7. Used(l) \subseteq Used(k) \cup {a, b}
  BY <1>5, <1>6 DEF Used
<1>8. Free(l) = Free(k)
  BY <1>3 DEF Free
<1>9. OneUse(l)
  <2>1. \A m, n \in DOMAIN l.free : l.free[m] = l.free[n] => m = n
    BY <1>1, <1>3 DEF OneUse
  <2>2. \A i, j \in DOMAIN k.list :
         /\ k.list[i].pTimer = k.list[j].pTimer => i = j
         /\ k.list[i].pElement = k.list[j].pElement => i = j
         /\ k.list[i].pTimer # k.list[j].pElement
    BY <1>1 DEF OneUse
  <2>3. ASSUME NEW i \in DOMAIN l.list, NEW j \in DOMAIN l.list
        PROVE  /\ l.list[i].pTimer = l.list[j].pTimer => i = j
               /\ l.list[i].pElement = l.list[j].pElement => i = j
               /\ l.list[i].pTimer # l.list[j].pElement
    <3>1. CASE i # p /\ j # p
      BY <1>5, <2>2, <3>1
    <3>2. CASE i = p \/ j = p
      BY <1>5, <1>6, <3>2
    <3> QED
      BY <3>1, <3>2
  <2> QED
    BY <2>1, <2>3 DEF OneUse
<1>10. HeapOK(l, out)
  <2>1. Used(l) \cup Free(l) \cup out \subseteq 1 .. l.top
    BY <1>1, <1>3, <1>7, <1>8
  <2>2. Used(l) \cap Free(l) = {} /\ Used(l) \cap out = {} /\ Free(l) \cap out = {}
    BY <1>1, <1>7, <1>8
  <2> QED
    BY <1>3, <1>9, <2>1, <2>2 DEF HeapOK
<1> QED
  BY <1>10 DEF l

\* A timer taken off the list leaves two blocks out.
LEMMA OffList ==
  ASSUME NEW k, NEW out, HeapOK(k, out), NEW p \in DOMAIN k.list
  PROVE  /\ HeapOK([k EXCEPT !.list = RemoveAt(@, p)],
                   out \cup {k.list[p].pTimer, k.list[p].pElement})
         /\ k.list[p].pTimer \notin out /\ k.list[p].pElement \notin out
         /\ k.list[p].pTimer # k.list[p].pElement
         /\ [k EXCEPT !.list = RemoveAt(@, p)].list = RemoveAt(k.list, p)
<1> DEFINE l == [k EXCEPT !.list = RemoveAt(@, p)]
           a == k.list[p].pTimer
           b == k.list[p].pElement
           Old(i) == IF i < p THEN i ELSE i + 1
<1>1. /\ k \in [list : Seq(Timer), free : Seq(Address), top : Nat]
      /\ Used(k) \cup Free(k) \cup out \subseteq 1 .. k.top
      /\ Used(k) \cap Free(k) = {} /\ Used(k) \cap out = {} /\ Free(k) \cap out = {}
      /\ OneUse(k) /\ k.list \in Seq(Timer)
  BY DEF HeapOK
<1>2. Len(k.list) \in Nat /\ DOMAIN k.list = 1 .. Len(k.list)
  BY <1>1, LenProperties
<1>3. /\ RemoveAt(k.list, p) \in Seq(Timer)
      /\ DOMAIN RemoveAt(k.list, p) = 1 .. Len(k.list) - 1
      /\ \A i \in 1 .. Len(k.list) - 1 :
           RemoveAt(k.list, p)[i] = IF i < p THEN k.list[i] ELSE k.list[i + 1]
  BY <1>1, <1>2, Removes
<1>4. /\ l \in [list : Seq(Timer), free : Seq(Address), top : Nat]
      /\ l.list = RemoveAt(k.list, p) /\ l.free = k.free /\ l.top = k.top
  BY <1>1, <1>3
<1>5. /\ \A i \in DOMAIN l.list : Old(i) \in DOMAIN k.list /\ Old(i) # p
                                  /\ l.list[i] = k.list[Old(i)]
      /\ \A i, j \in DOMAIN l.list : Old(i) = Old(j) => i = j
  BY <1>2, <1>3, <1>4
<1> HIDE DEF l, Old
<1>6. \A i, j \in DOMAIN k.list :
         /\ k.list[i].pTimer = k.list[j].pTimer => i = j
         /\ k.list[i].pElement = k.list[j].pElement => i = j
         /\ k.list[i].pTimer # k.list[j].pElement
  BY <1>1 DEF OneUse
<1>7. a \in Used(k) /\ b \in Used(k) /\ a # b
  BY <1>6 DEF Used
<1>8. \A i \in DOMAIN l.list :
        /\ l.list[i].pTimer \in Used(k) \ {a, b}
        /\ l.list[i].pElement \in Used(k) \ {a, b}
  <2> SUFFICES ASSUME NEW i \in DOMAIN l.list
               PROVE  /\ l.list[i].pTimer \in Used(k) \ {a, b}
                      /\ l.list[i].pElement \in Used(k) \ {a, b}
    OBVIOUS
  <2>1. k.list[Old(i)].pTimer \in Used(k) /\ k.list[Old(i)].pElement \in Used(k)
    BY <1>5 DEF Used
  <2> QED
    BY <1>5, <1>6, <2>1
<1>9. Used(l) \subseteq Used(k) \ {a, b} /\ Free(l) = Free(k)
  BY <1>4, <1>8 DEF Used, Free
<1>10. OneUse(l)
  <2>1. \A m, n \in DOMAIN l.free : l.free[m] = l.free[n] => m = n
    BY <1>1, <1>4 DEF OneUse
  <2> QED
    BY <1>5, <1>6, <2>1 DEF OneUse
<1>11. HeapOK(l, out \cup {a, b})
  <2>1. Used(l) \cup Free(l) \cup (out \cup {a, b}) \subseteq 1 .. l.top
    BY <1>1, <1>4, <1>7, <1>9
  <2>2. /\ Used(l) \cap Free(l) = {} /\ Used(l) \cap (out \cup {a, b}) = {}
        /\ Free(l) \cap (out \cup {a, b}) = {}
    BY <1>1, <1>7, <1>9
  <2> QED
    BY <1>4, <1>10, <2>1, <2>2 DEF HeapOK
<1> QED
  BY <1>1, <1>4, <1>7, <1>11 DEF l

\* CPtrList::Remove: the element is free and the next block, the timer out.
LEMMA ElementRemoved ==
  ASSUME NEW k, NEW out, HeapOK(k, out), NEW p \in DOMAIN k.list
  PROVE  /\ HeapOK(RemoveElement(k, p), out \cup {k.list[p].pTimer})
         /\ k.list[p].pTimer \notin out
         /\ RemoveElement(k, p).list = RemoveAt(k.list, p)
         /\ NewBlock(RemoveElement(k, p)) = k.list[p].pElement
<1> DEFINE l == [k EXCEPT !.list = RemoveAt(@, p)]
           a == k.list[p].pTimer
           b == k.list[p].pElement
<1>1. /\ HeapOK(l, out \cup {a, b}) /\ a \notin out /\ b \notin out /\ a # b
      /\ l.list = RemoveAt(k.list, p)
  BY OffList
<1> HIDE DEF l, a, b
<1>2. b \in out \cup {a, b}
  OBVIOUS
<1>3. /\ HeapOK(FreeBlock(l, b), (out \cup {a, b}) \ {b})
      /\ FreeBlock(l, b).list = l.list /\ NewBlock(FreeBlock(l, b)) = b
  BY <1>1, <1>2, Frees
<1>4. (out \cup {a, b}) \ {b} = out \cup {a}
  BY <1>1
<1>5. RemoveElement(k, p) = FreeBlock(l, b)
  BY DEF RemoveElement, l, b
<1>6. HeapOK(FreeBlock(l, b), out \cup {a})
  BY <1>3, <1>4
<1> QED
  BY <1>1, <1>3, <1>5, <1>6 DEF a, b

\* CTimer::CancelKernelTimer of a timer that is there: the next two blocks are
\* those it had.
LEMMA Cancels ==
  ASSUME NEW k, NEW out, HeapOK(k, out), NEW p \in DOMAIN k.list
  PROVE  /\ HeapOK(CancelKernelTimer(k, k.list[p].pTimer), out)
         /\ CancelKernelTimer(k, k.list[p].pTimer).list = RemoveAt(k.list, p)
         /\ NewBlock(CancelKernelTimer(k, k.list[p].pTimer)) = k.list[p].pTimer
         /\ NewBlock(TakeBlock(CancelKernelTimer(k, k.list[p].pTimer))) = k.list[p].pElement
<1> DEFINE a == k.list[p].pTimer
           l == RemoveElement(k, p)
           found == {i \in DOMAIN k.list : k.list[i].pTimer = a}
<1>1. /\ HeapOK(l, out \cup {a}) /\ a \notin out /\ l.list = RemoveAt(k.list, p)
      /\ NewBlock(l) = k.list[p].pElement
  BY ElementRemoved
<1>2. found = {p}
  BY DEF HeapOK, OneUse
<1>3. Min(found) = p
  <2>1. k.list \in Seq(Timer)
    BY DEF HeapOK
  <2>2. p \in Nat
    BY <2>1, LenProperties
  <2>3. {p} \subseteq Nat /\ {p} # {}
    BY <2>2
  <2>4. Min({p}) \in {p}
    BY <2>3, FirstFound
  <2> QED
    BY <1>2, <2>4
<1>4. CancelKernelTimer(k, a) = FreeBlock(l, a)
  BY <1>2, <1>3 DEF CancelKernelTimer
<1> HIDE DEF l, a, found
<1>5. a \in out \cup {a}
  OBVIOUS
<1>6. /\ HeapOK(FreeBlock(l, a), (out \cup {a}) \ {a})
      /\ FreeBlock(l, a).list = l.list /\ NewBlock(FreeBlock(l, a)) = a
      /\ TakeBlock(FreeBlock(l, a)) = l
  BY <1>1, <1>5, Frees
<1>7. (out \cup {a}) \ {a} = out
  BY <1>1
<1>8. HeapOK(FreeBlock(l, a), out)
  BY <1>6, <1>7
<1>9. /\ HeapOK(CancelKernelTimer(k, a), out)
      /\ CancelKernelTimer(k, a).list = RemoveAt(k.list, p)
      /\ NewBlock(CancelKernelTimer(k, a)) = a
      /\ NewBlock(TakeBlock(CancelKernelTimer(k, a))) = k.list[p].pElement
  BY <1>1, <1>4, <1>6, <1>8
<1> QED
  BY <1>9 DEF a

\* CTimer::StartKernelTimer from the lock on: the timer in the block that it has
\* and the element in the next one, behind those that elapse no later
LEMMA InsertsTimer ==
  ASSUME NEW k, NEW out, NEW a \in Address, HeapOK(k, out \cup {a}), a \notin out,
         NEW now \in Ticks, Due(k.list, now), NEW at \in Ticks, NEW handler \in Handler,
         Left(at, now) \in -MaxLag .. Far - 1,
         handler = "debounce" => Left(at, now) \in 0 .. DebounceDelay,
         handler = "tick" => Left(at, now) > DebounceDelay
  PROVE  \E p \in 1 .. Len(k.list) + 1, e \in Timer :
           /\ e.pTimer = a /\ e.pElement = NewBlock(k)
           /\ e.handler = handler /\ e.nElapsesAt = at
           /\ InsertTimer(k, a, at, handler).list = InsertAt(k.list, p, e)
           /\ HeapOK(InsertTimer(k, a, at, handler), out)
           /\ Due(InsertAt(k.list, p, e), now)
<1> DEFINE d == Left(at, now)
           b == NewBlock(k)
           l == TakeBlock(k)
           e == [pTimer |-> a, pElement |-> b, nElapsesAt |-> at, handler |-> handler]
           later == {i \in DOMAIN k.list : Later(k.list[i].nElapsesAt, at)}
           p == IF later = {} THEN Len(k.list) + 1 ELSE Min(later)
<1>1. /\ b \in Address /\ b \notin Used(k) \cup (out \cup {a}) /\ l.list = k.list
      /\ HeapOK(l, (out \cup {a}) \cup {b})
  BY Allocates
<1>2. a # b /\ b \notin out
  BY <1>1
<1>3. d = Left(at, now) /\ d \in Int /\ d < Far /\ d >= -MaxLag
  BY ClockFacts
<1> HIDE DEF b, l, d
<1>4. e \in Timer /\ e.pTimer = a /\ e.pElement = b /\ e.nElapsesAt = at /\ e.handler = handler
  BY <1>1 DEF Timer
<1>5. k.list \in Seq(Timer)
  BY DEF HeapOK
<1>6. Len(k.list) \in Nat /\ DOMAIN k.list = 1 .. Len(k.list)
  BY <1>5, LenProperties
<1>7. \A i \in DOMAIN k.list : /\ i \in later <=> Left(k.list[i].nElapsesAt, now) > d
                               /\ Left(k.list[i].nElapsesAt, now) \in Int
                               /\ i \in Nat
  <2> SUFFICES ASSUME NEW i \in DOMAIN k.list
               PROVE  /\ i \in later <=> Left(k.list[i].nElapsesAt, now) > d
                      /\ Left(k.list[i].nElapsesAt, now) \in Int
                      /\ i \in Nat
    OBVIOUS
  <2> DEFINE c == Left(k.list[i].nElapsesAt, now)
  <2>1. k.list[i].nElapsesAt \in Ticks /\ c \in Int /\ i \in Nat
    BY <1>5, TimerFacts
  <2>2. c < Far
    BY DEF Due
  <2>3. c >= -(MaxLag + 1)
    <3>1. c \in -(MaxLag + 1) .. TickWrap - MaxLag - 2
      BY <1>5, TimerFacts
    <3> QED
      BY <2>1, <3>1, ClockFacts
  <2> HIDE DEF c
  <2>4. c - d < TickWrap \div 2 /\ d - c <= TickWrap \div 2
    BY <1>3, <2>1, <2>2, <2>3, ClockFacts
  <2>5. Later(k.list[i].nElapsesAt, at) <=> c > d
    BY <1>3, <2>1, <2>4, LaterIs DEF c, d
  <2> QED
    BY <2>1, <2>5 DEF c
<1>8. /\ p \in 1 .. Len(k.list) + 1
      /\ \A i \in DOMAIN k.list : i < p => Left(k.list[i].nElapsesAt, now) <= d
      /\ \A i \in DOMAIN k.list : i >= p => Left(k.list[i].nElapsesAt, now) > d
  <2>1. CASE later = {}
    <3>1. p = Len(k.list) + 1
      BY <2>1
    <3> QED
      BY <1>3, <1>6, <1>7, <2>1, <3>1
  <2>2. CASE later # {}
    <3>1. p = Min(later) /\ later \subseteq Nat /\ later \subseteq DOMAIN k.list
      BY <1>6, <2>2
    <3> HIDE DEF p, later
    <3>2. p \in later /\ \A i \in later : p <= i
      BY <2>2, <3>1, FirstFound
    <3>3. \A i \in DOMAIN k.list : i < p => Left(k.list[i].nElapsesAt, now) <= d
      BY <1>3, <1>7, <3>1, <3>2
    <3>4. \A i \in DOMAIN k.list :
            i >= p => Left(k.list[p].nElapsesAt, now) <= Left(k.list[i].nElapsesAt, now)
      <4> SUFFICES ASSUME NEW i \in DOMAIN k.list, i >= p
                   PROVE  Left(k.list[p].nElapsesAt, now) <= Left(k.list[i].nElapsesAt, now)
        OBVIOUS
      <4>1. p \in DOMAIN k.list /\ p \in Nat /\ i \in Nat
        BY <1>7, <3>1, <3>2
      <4>2. CASE i = p
        BY <1>7, <4>1, <4>2
      <4>3. CASE p < i
        BY <4>1, <4>3 DEF Due
      <4> QED
        BY <4>1, <4>2, <4>3
    <3>5. \A i \in DOMAIN k.list : i >= p => Left(k.list[i].nElapsesAt, now) > d
      <4>1. p \in DOMAIN k.list /\ Left(k.list[p].nElapsesAt, now) > d
            /\ Left(k.list[p].nElapsesAt, now) \in Int /\ d \in Int
        BY <1>3, <1>7, <3>1, <3>2
      <4>2. \A i \in DOMAIN k.list : Left(k.list[i].nElapsesAt, now) \in Int
        BY <1>7
      <4> QED
        BY <3>4, <4>1, <4>2
    <3>6. p \in 1 .. Len(k.list) + 1
      BY <1>6, <3>1, <3>2
    <3> QED
      BY <3>3, <3>5, <3>6
  <2> QED
    BY <2>1, <2>2
<1>9. InsertTimer(k, a, at, handler) = [l EXCEPT !.list = InsertAt(@, p, e)]
  BY DEF InsertTimer, b, l
<1> HIDE DEF p, later, e
<1>10. InsertAt(k.list, p, e) \in Seq(Timer) /\ Due(InsertAt(k.list, p, e), now)
  <2>1. /\ e.handler = "debounce" => d \in 0 .. DebounceDelay
        /\ e.handler = "tick" => d > DebounceDelay
        /\ d = Left(e.nElapsesAt, now)
    BY <1>4 DEF d
  <2> QED
    BY <1>3, <1>4, <1>5, <1>8, <2>1, InsertDue
<1>11. l.list = k.list /\ (out \cup {a}) \cup {b} = out \cup {a, b}
  BY <1>1
<1>12. /\ e.pTimer # e.pElement /\ e.pTimer \notin out /\ e.pElement \notin out
       /\ HeapOK(l, out \cup {e.pTimer, e.pElement}) /\ p \in 1 .. Len(l.list) + 1
  BY <1>1, <1>2, <1>4, <1>8, <1>11
<1>13. HeapOK([l EXCEPT !.list = InsertAt(@, p, e)], out)
  BY <1>4, <1>12, OnList
<1>14. [l EXCEPT !.list = InsertAt(@, p, e)].list = InsertAt(k.list, p, e)
  BY <1>11, <1>12 DEF HeapOK
<1>15. /\ e.pTimer = a /\ e.pElement = NewBlock(k)
       /\ e.handler = handler /\ e.nElapsesAt = at
       /\ InsertTimer(k, a, at, handler).list = InsertAt(k.list, p, e)
       /\ HeapOK(InsertTimer(k, a, at, handler), out)
       /\ Due(InsertAt(k.list, p, e), now)
  BY <1>4, <1>9, <1>10, <1>13, <1>14 DEF b
<1> QED
  BY <1>4, <1>8, <1>15

-----------------------------------------------------------------------------
(* The poll                                                                 *)

\* Nothing on the list has elapsed, except perhaps the late timer of another
\* driver, and that one not by more than MaxLag.
AllAhead(list, now, overdue) ==
  \A i \in DOMAIN list :
    \/ Left(list[i].nElapsesAt, now) >= 1
    \/ /\ overdue # 0 /\ list[i].pTimer = overdue /\ list[i].handler = "other"
       /\ Left(list[i].nElapsesAt, now) >= -MaxLag

\* The element the poll goes on with is on the list, and nothing before it has
\* elapsed; when there is no poll, nothing has but the late timer.
PollOK(list, element, now, overdue) ==
  IF element = 0 THEN AllAhead(list, now, overdue)
  ELSE \E q \in DOMAIN list :
         /\ list[q].pElement = element
         /\ \A j \in DOMAIN list : j < q => Left(list[j].nElapsesAt, now) >= 1

First(list) == IF list = <<>> THEN 0 ELSE list[1].pElement

LEMMA InsertAhead ==
  ASSUME NEW list \in Seq(Timer), NEW now, NEW overdue, AllAhead(list, now, overdue),
         NEW e \in Timer, NEW p \in 1 .. Len(list) + 1,
         \/ Left(e.nElapsesAt, now) >= 1
         \/ /\ overdue # 0 /\ e.pTimer = overdue /\ e.handler = "other"
            /\ Left(e.nElapsesAt, now) >= -MaxLag
  PROVE  AllAhead(InsertAt(list, p, e), now, overdue)
<1>1. Len(list) \in Nat /\ DOMAIN list = 1 .. Len(list)
  BY LenProperties
<1>2. /\ DOMAIN InsertAt(list, p, e) = 1 .. Len(list) + 1
      /\ \A i \in 1 .. Len(list) + 1 :
           InsertAt(list, p, e)[i] = IF i < p THEN list[i] ELSE IF i = p THEN e ELSE list[i - 1]
  <2>1. Placed(InsertAt(list, p, e), list, p, e)
    BY TimerInserted
  <2> QED
    BY <2>1 DEF Placed
<1>3. \A i \in DOMAIN InsertAt(list, p, e) :
        \/ InsertAt(list, p, e)[i] = e
        \/ \E j \in DOMAIN list : InsertAt(list, p, e)[i] = list[j]
  <2> SUFFICES ASSUME NEW i \in DOMAIN InsertAt(list, p, e)
               PROVE  \/ InsertAt(list, p, e)[i] = e
                      \/ \E j \in DOMAIN list : InsertAt(list, p, e)[i] = list[j]
    OBVIOUS
  <2>1. CASE i < p
    <3>1. i \in DOMAIN list /\ InsertAt(list, p, e)[i] = list[i]
      BY <1>1, <1>2, <2>1
    <3> QED
      BY <3>1
  <2>2. CASE i > p
    <3>1. i - 1 \in DOMAIN list /\ InsertAt(list, p, e)[i] = list[i - 1]
      BY <1>1, <1>2, <2>2
    <3> QED
      BY <3>1
  <2> QED
    BY <1>1, <1>2, <2>1, <2>2
<1> QED
  BY <1>3 DEF AllAhead

LEMMA RemoveAhead ==
  ASSUME NEW list \in Seq(Timer), NEW now, NEW overdue, AllAhead(list, now, overdue),
         NEW p \in DOMAIN list
  PROVE  AllAhead(RemoveAt(list, p), now, overdue)
<1>1. Len(list) \in Nat /\ DOMAIN list = 1 .. Len(list)
  BY LenProperties
<1>2. /\ DOMAIN RemoveAt(list, p) = 1 .. Len(list) - 1
      /\ \A i \in 1 .. Len(list) - 1 :
           RemoveAt(list, p)[i] = IF i < p THEN list[i] ELSE list[i + 1]
  BY <1>1, Removes
<1>3. \A i \in DOMAIN RemoveAt(list, p) :
        /\ i < p => i \in DOMAIN list /\ RemoveAt(list, p)[i] = list[i]
        /\ ~(i < p) => i + 1 \in DOMAIN list /\ RemoveAt(list, p)[i] = list[i + 1]
  BY <1>1, <1>2
<1> QED
  BY <1>3 DEF AllAhead

\* If the first timer has gone and one that has not elapsed is added, the poll
\* goes on with the one that is first now.
LEMMA InsertPoll ==
  ASSUME NEW list \in Seq(Timer), NEW now, NEW overdue, NEW e \in Timer,
         Left(e.nElapsesAt, now) >= 1, NEW p \in 1 .. Len(list) + 1
  PROVE  PollOK(InsertAt(list, p, e), First(list), now, overdue)
<1>1. Len(list) \in Nat /\ DOMAIN list = 1 .. Len(list)
  BY LenProperties
<1>2. /\ DOMAIN InsertAt(list, p, e) = 1 .. Len(list) + 1
      /\ \A i \in 1 .. Len(list) + 1 :
           InsertAt(list, p, e)[i] = IF i < p THEN list[i] ELSE IF i = p THEN e ELSE list[i - 1]
  <2>1. Placed(InsertAt(list, p, e), list, p, e)
    BY TimerInserted
  <2> QED
    BY <2>1 DEF Placed
<1>3. CASE list = <<>>
  <2>1. AllAhead(list, now, overdue)
    BY <1>3 DEF AllAhead
  <2>2. AllAhead(InsertAt(list, p, e), now, overdue)
    BY <2>1, InsertAhead
  <2> QED
    BY <1>3, <2>2 DEF PollOK, First
<1>4. CASE list # <<>>
  <2>1. 1 \in DOMAIN list
    BY <1>1, <1>4, EmptySeq
  <2>2. list[1].pElement \in Address /\ list[1].pElement # 0
    <3>1. list[1] \in Timer
      BY <1>1, <2>1, ElementOfSeq
    <3> QED
      BY <3>1 DEF Timer, Address
  <2>3. First(list) = list[1].pElement
    BY <1>4 DEF First
  <2>4. CASE p = 1
    <3>1. 2 \in DOMAIN InsertAt(list, p, e) /\ InsertAt(list, p, e)[2] = list[1]
          /\ InsertAt(list, p, e)[1] = e
      BY <1>1, <1>2, <2>1, <2>4
    <3>2. \A j \in DOMAIN InsertAt(list, p, e) : j < 2 => j = 1
      BY <1>2
    <3> QED
      BY <2>2, <2>3, <3>1, <3>2 DEF PollOK
  <2>5. CASE p # 1
    <3>1. 1 \in DOMAIN InsertAt(list, p, e) /\ InsertAt(list, p, e)[1] = list[1]
      BY <1>1, <1>2, <2>1, <2>5
    <3>2. \A j \in DOMAIN InsertAt(list, p, e) : ~(j < 1)
      BY <1>2
    <3> QED
      BY <2>2, <2>3, <3>1, <3>2 DEF PollOK
  <2> QED
    BY <2>4, <2>5
<1> QED
  BY <1>3, <1>4

\* A poll that is at the first element
LEMMA FirstPoll ==
  ASSUME NEW list \in Seq(Timer), NEW now, NEW overdue
  PROVE  PollOK(list, First(list), now, overdue)
<1>1. Len(list) \in Nat /\ DOMAIN list = 1 .. Len(list)
  BY LenProperties
<1>2. CASE list = <<>>
  BY <1>2 DEF PollOK, First, AllAhead
<1>3. CASE list # <<>>
  <2>1. 1 \in DOMAIN list /\ \A j \in DOMAIN list : ~(j < 1)
    BY <1>1, <1>3, EmptySeq
  <2>2. list[1].pElement # 0
    <3>1. list[1] \in Timer
      BY <1>1, <2>1, ElementOfSeq
    <3> QED
      BY <3>1 DEF Timer, Address
  <2> QED
    BY <1>3, <2>1, <2>2 DEF PollOK, First
<1> QED
  BY <1>2, <1>3

\* The poll is at one element; it has elapsed only if it is the first.
LEMMA PollPlace ==
  ASSUME NEW k, NEW out, HeapOK(k, out), NEW now \in Ticks, Due(k.list, now),
         NEW element, NEW overdue, PollOK(k.list, element, now, overdue),
         NEW i \in ElementAt(k, element)
  PROVE  /\ i \in DOMAIN k.list /\ k.list[i].pElement = element
         /\ Later(k.list[i].nElapsesAt, now) => AllAhead(k.list, now, overdue)
         /\ ~Later(k.list[i].nElapsesAt, now) => i = 1
<1>1. k.list \in Seq(Timer) /\ i \in DOMAIN k.list /\ k.list[i].pElement = element
  BY DEF HeapOK, ElementAt
<1>2. DOMAIN k.list = 1 .. Len(k.list) /\ Len(k.list) \in Nat
  BY <1>1, LenProperties
<1>3. element # 0
  BY <1>1, TimerFacts DEF Address
<1>4. PICK q \in DOMAIN k.list :
        /\ k.list[q].pElement = element
        /\ \A j \in DOMAIN k.list : j < q => Left(k.list[j].nElapsesAt, now) >= 1
  BY <1>3 DEF PollOK
<1>5. q = i
  BY <1>1, <1>4 DEF HeapOK, OneUse
<1>6. /\ \A j \in DOMAIN k.list : Left(k.list[j].nElapsesAt, now) \in Int
      /\ Left(k.list[i].nElapsesAt, now) < Far
      /\ \A j, m \in DOMAIN k.list :
           j < m => Left(k.list[j].nElapsesAt, now) <= Left(k.list[m].nElapsesAt, now)
  <2>1. \A j \in DOMAIN k.list : Left(k.list[j].nElapsesAt, now) \in Int
    BY <1>1, TimerFacts
  <2> QED
    BY <1>1, <2>1 DEF Due
<1>7. Later(k.list[i].nElapsesAt, now) <=> Left(k.list[i].nElapsesAt, now) >= 1
  BY <1>1, <1>6, TimerFacts, LaterThanNow
<1>8. ASSUME Later(k.list[i].nElapsesAt, now)
      PROVE  AllAhead(k.list, now, overdue)
  <2>1. ASSUME NEW j \in DOMAIN k.list
        PROVE  Left(k.list[j].nElapsesAt, now) >= 1
    <3>1. CASE j < i
      BY <1>4, <1>5, <3>1
    <3>2. CASE j = i
      BY <1>7, <1>8, <3>2
    <3>3. CASE i < j
      <4>1. Left(k.list[i].nElapsesAt, now) <= Left(k.list[j].nElapsesAt, now)
        BY <1>1, <1>6, <3>3
      <4>2. Left(k.list[i].nElapsesAt, now) \in Int /\ Left(k.list[j].nElapsesAt, now) \in Int
        BY <1>1, <1>6
      <4>3. Left(k.list[i].nElapsesAt, now) >= 1
        BY <1>7, <1>8
      <4> QED
        BY <4>1, <4>2, <4>3
    <3> QED
      BY <1>1, <1>2, <3>1, <3>2, <3>3
  <2> QED
    BY <2>1 DEF AllAhead
<1>9. ASSUME ~Later(k.list[i].nElapsesAt, now), i # 1
      PROVE  FALSE
  <2>1. 1 \in DOMAIN k.list /\ 1 < i
    BY <1>1, <1>2, <1>9
  <2>2. Left(k.list[1].nElapsesAt, now) >= 1
    BY <1>4, <1>5, <2>1
  <2>3. Left(k.list[1].nElapsesAt, now) <= Left(k.list[i].nElapsesAt, now)
    BY <1>1, <1>6, <2>1
  <2>4. Left(k.list[1].nElapsesAt, now) \in Int /\ Left(k.list[i].nElapsesAt, now) \in Int
    BY <1>1, <1>6, <2>1
  <2>5. ~(Left(k.list[i].nElapsesAt, now) >= 1)
    BY <1>7, <1>9
  <2> QED
    BY <2>2, <2>3, <2>4, <2>5
<1> QED
  BY <1>1, <1>8, <1>9

-----------------------------------------------------------------------------
(* The handles                                                              *)

ListOK(k, out, now) == HeapOK(k, out) /\ Due(k.list, now)

\* A timer that is inserted changes no handle of another kind; it is ahead, or
\* the late one.
LEMMA InsertsNamed ==
  ASSUME NEW k, NEW out, NEW a \in Address, NEW now \in Ticks,
         ListOK(k, out \cup {a}, now), a \notin out, NEW at \in Ticks, NEW handler \in Handler,
         Left(at, now) \in -MaxLag .. Far - 1,
         handler = "debounce" => Left(at, now) \in 0 .. DebounceDelay,
         handler = "tick" => Left(at, now) > DebounceDelay,
         NEW hTimer, NEW other, Named(k.list, hTimer, other), NEW overdue
  PROVE  LET new == InsertTimer(k, a, at, handler)
         IN  /\ ListOK(new, out, now)
             /\ AllAhead(k.list, now, overdue)
                  /\ (Left(at, now) >= 1 \/ (overdue # 0 /\ a = overdue /\ handler = "other"))
                    => AllAhead(new.list, now, overdue)
             /\ Left(at, now) >= 1 => PollOK(new.list, First(k.list), now, overdue)
             /\ handler # other => Named(new.list, hTimer, other)
             /\ handler = other /\ hTimer = 0 => Named(new.list, a, other)
<1> DEFINE new == InsertTimer(k, a, at, handler)
<1>1. HeapOK(k, out \cup {a}) /\ Due(k.list, now) /\ k.list \in Seq(Timer)
  BY DEF ListOK, HeapOK
<1>2. PICK p \in 1 .. Len(k.list) + 1, e \in Timer :
        /\ e.pTimer = a /\ e.pElement = NewBlock(k)
        /\ e.handler = handler /\ e.nElapsesAt = at
        /\ new.list = InsertAt(k.list, p, e)
        /\ HeapOK(new, out)
        /\ Due(InsertAt(k.list, p, e), now)
  BY <1>1, InsertsTimer
<1> HIDE DEF new
<1>3. Left(at, now) >= -MaxLag
  BY ClockFacts
<1>4. ListOK(new, out, now)
  BY <1>2 DEF ListOK
<1>5. ASSUME AllAhead(k.list, now, overdue),
             Left(at, now) >= 1 \/ (overdue # 0 /\ a = overdue /\ handler = "other")
      PROVE  AllAhead(new.list, now, overdue)
  BY <1>1, <1>2, <1>3, <1>5, InsertAhead
<1>6. Left(at, now) >= 1 => PollOK(new.list, First(k.list), now, overdue)
  BY <1>1, <1>2, InsertPoll
<1>7. /\ handler # other => Named(new.list, hTimer, other)
      /\ handler = other /\ hTimer = 0 => Named(new.list, a, other)
  <2>1. /\ e.handler # other => Named(InsertAt(k.list, p, e), hTimer, other)
        /\ e.handler = other /\ hTimer = 0 => Named(InsertAt(k.list, p, e), e.pTimer, other)
    BY <1>1, InsertNames
  <2> QED
    BY <1>2, <2>1
<1> QED
  BY <1>4, <1>5, <1>6, <1>7 DEF new

\* Whoever starts a timer gets a handle of his own, whatever else there is.
LEMMA StartsNamed ==
  ASSUME NEW k, NEW out, NEW now \in Ticks, ListOK(k, out, now),
         NEW d \in 1 .. Far - 1, NEW handler \in Handler,
         handler = "debounce" => d <= DebounceDelay,
         handler = "tick" => d > DebounceDelay,
         NEW hTimer, NEW other, Named(k.list, hTimer, other), NEW overdue
  PROVE  LET new == StartKernelTimer(k, (now + d) % TickWrap, handler)
         IN  /\ ListOK(new, out, now)
             /\ AllAhead(k.list, now, overdue) => AllAhead(new.list, now, overdue)
             /\ PollOK(new.list, First(k.list), now, overdue)
             /\ handler # other => Named(new.list, hTimer, other)
             /\ handler = other /\ hTimer = 0 => Named(new.list, NewBlock(k), other)
<1> DEFINE at == (now + d) % TickWrap
           a == NewBlock(k)
           l == TakeBlock(k)
           new == InsertTimer(l, a, at, handler)
<1>1. HeapOK(k, out) /\ Due(k.list, now)
  BY DEF ListOK
<1>2. a \in Address /\ a \notin out /\ l.list = k.list /\ HeapOK(l, out \cup {a})
  BY <1>1, Allocates
<1>3. d \in 0 .. Far - 1 /\ d \in Nat /\ d >= 1 /\ DebounceDelay \in Nat /\ MaxLag \in Nat
      /\ Far \in Nat
  BY ClockFacts
<1>4. at \in Ticks /\ Left(at, now) = d
  BY <1>3, LeftAt
<1>5. StartKernelTimer(k, at, handler) = new
  BY DEF StartKernelTimer
<1> HIDE DEF at, a, l
<1>6. ListOK(l, out \cup {a}, now) /\ Named(l.list, hTimer, other)
  BY <1>1, <1>2 DEF ListOK
<1>7. /\ Left(at, now) \in -MaxLag .. Far - 1
      /\ handler = "debounce" => Left(at, now) \in 0 .. DebounceDelay
      /\ handler = "tick" => Left(at, now) > DebounceDelay
      /\ Left(at, now) >= 1
  BY <1>3, <1>4
<1>8. /\ ListOK(new, out, now)
      /\ AllAhead(l.list, now, overdue)
           /\ (Left(at, now) >= 1 \/ (overdue # 0 /\ a = overdue /\ handler = "other"))
             => AllAhead(new.list, now, overdue)
      /\ Left(at, now) >= 1 => PollOK(new.list, First(l.list), now, overdue)
      /\ handler # other => Named(new.list, hTimer, other)
      /\ handler = other /\ hTimer = 0 => Named(new.list, a, other)
  <2>1. ListOK(new, out, now)
    BY <1>2, <1>4, <1>6, <1>7, InsertsNamed
  <2>2. AllAhead(l.list, now, overdue)
          /\ (Left(at, now) >= 1 \/ (overdue # 0 /\ a = overdue /\ handler = "other"))
            => AllAhead(new.list, now, overdue)
    BY <1>2, <1>4, <1>6, <1>7, InsertsNamed
  <2>3. Left(at, now) >= 1 => PollOK(new.list, First(l.list), now, overdue)
    BY <1>2, <1>4, <1>6, <1>7, InsertsNamed
  <2>4. /\ handler # other => Named(new.list, hTimer, other)
        /\ handler = other /\ hTimer = 0 => Named(new.list, a, other)
    BY <1>2, <1>4, <1>6, <1>7, InsertsNamed
  <2> QED
    BY <2>1, <2>2, <2>3, <2>4
<1> QED
  BY <1>2, <1>5, <1>7, <1>8 DEF at, a, l

\* The element of a new timer is in the second block that was next.
LEMMA StartsElement ==
  ASSUME NEW k, NEW out, NEW now \in Ticks, ListOK(k, out, now),
         NEW d \in 1 .. Far - 1, NEW handler \in Handler,
         handler = "debounce" => d <= DebounceDelay,
         handler = "tick" => d > DebounceDelay
  PROVE  LET new == StartKernelTimer(k, (now + d) % TickWrap, handler)
         IN  \E q \in DOMAIN new.list : new.list[q].pElement = NewBlock(TakeBlock(k))
<1> DEFINE at == (now + d) % TickWrap
           a == NewBlock(k)
           l == TakeBlock(k)
           new == InsertTimer(l, a, at, handler)
<1>1. HeapOK(k, out) /\ Due(k.list, now) /\ k.list \in Seq(Timer)
  BY DEF ListOK, HeapOK
<1>2. a \in Address /\ a \notin out /\ l.list = k.list /\ HeapOK(l, out \cup {a})
  BY <1>1, Allocates
<1>3. d \in 0 .. Far - 1 /\ d \in Nat /\ d >= 1 /\ DebounceDelay \in Nat /\ MaxLag \in Nat
      /\ Far \in Nat
  BY ClockFacts
<1>4. at \in Ticks /\ Left(at, now) = d
  BY <1>3, LeftAt
<1>5. StartKernelTimer(k, at, handler) = new
  BY DEF StartKernelTimer
<1> HIDE DEF at, a, l
<1>6. /\ Left(at, now) \in -MaxLag .. Far - 1
      /\ handler = "debounce" => Left(at, now) \in 0 .. DebounceDelay
      /\ handler = "tick" => Left(at, now) > DebounceDelay
      /\ Due(l.list, now)
  BY <1>1, <1>2, <1>3, <1>4
<1>7. PICK p \in 1 .. Len(l.list) + 1, e \in Timer :
        /\ e.pElement = NewBlock(l) /\ new.list = InsertAt(l.list, p, e)
  BY <1>2, <1>4, <1>6, InsertsTimer
<1> HIDE DEF new
<1>8. p \in DOMAIN new.list /\ new.list[p] = e
  BY <1>1, <1>2, <1>7, Inserts
<1> QED
  BY <1>5, <1>7, <1>8 DEF at, l

Cancelled(k, hTimer) == IF hTimer # 0 THEN CancelKernelTimer(k, hTimer) ELSE k

\* A handle that is not 0 is cancelled, and then names nothing; the handles of
\* others stay.  The first element stays, unless it was the one cancelled: then
\* its block is that of the next element.
AfterCancel(k, new, out, now, handler, hOther, other, overdue) ==
  /\ ListOK(new, out, now)
  /\ AllAhead(k.list, now, overdue) => AllAhead(new.list, now, overdue)
  /\ Named(new.list, 0, handler)
  /\ Named(new.list, hOther, other)
  /\ \/ First(new.list) = First(k.list)
     \/ /\ k.list # <<>> /\ k.list[1].handler = handler
        /\ NewBlock(TakeBlock(new)) = First(k.list)

LEMMA CancelsNamed ==
  ASSUME NEW k, NEW out, NEW now \in Ticks, ListOK(k, out, now),
         NEW hTimer, NEW handler, Named(k.list, hTimer, handler),
         NEW hOther, NEW other, Named(k.list, hOther, other), other # handler, NEW overdue
  PROVE  AfterCancel(k, Cancelled(k, hTimer), out, now, handler, hOther, other, overdue)
<1> DEFINE new == Cancelled(k, hTimer)
<1>1. HeapOK(k, out) /\ Due(k.list, now) /\ k.list \in Seq(Timer)
  BY DEF ListOK, HeapOK
<1>2. CASE hTimer = 0
  BY <1>2 DEF Cancelled, AfterCancel
<1>3. CASE hTimer # 0
  <2>1. PICK p \in DOMAIN k.list :
          /\ k.list[p].pTimer = hTimer
          /\ \A j \in DOMAIN k.list : k.list[j].handler = handler <=> j = p
    BY <1>3 DEF Named
  <2>2. new = CancelKernelTimer(k, k.list[p].pTimer)
    BY <1>3, <2>1 DEF Cancelled
  <2> HIDE DEF new
  <2>3. /\ HeapOK(new, out) /\ new.list = RemoveAt(k.list, p)
        /\ NewBlock(TakeBlock(new)) = k.list[p].pElement
    BY <1>1, <2>2, Cancels
  <2>4. Due(new.list, now)
    BY <1>1, <2>3, RemoveDue
  <2>5. AllAhead(k.list, now, overdue) => AllAhead(new.list, now, overdue)
    BY <1>1, <2>3, RemoveAhead
  <2>6. k.list[p].handler = handler
    BY <2>1
  <2>7. Named(new.list, 0, handler)
    BY <1>1, <2>3, <2>6, RemoveNames
  <2>8. Named(new.list, hOther, other)
    BY <1>1, <2>3, <2>6, RemoveNames
  <2>9. \/ First(new.list) = First(k.list)
        \/ /\ k.list # <<>> /\ k.list[1].handler = handler
           /\ NewBlock(TakeBlock(new)) = First(k.list)
    <3>1. Len(k.list) \in Nat /\ DOMAIN k.list = 1 .. Len(k.list)
      BY <1>1, LenProperties
    <3>2. k.list # <<>>
      BY <2>1
    <3>3. CASE p = 1
      BY <2>1, <2>3, <3>2, <3>3 DEF First
    <3>4. CASE p # 1
      <4>1. /\ RemoveAt(k.list, p) \in Seq(Timer)
            /\ DOMAIN RemoveAt(k.list, p) = 1 .. Len(k.list) - 1
            /\ \A i \in 1 .. Len(k.list) - 1 :
                 RemoveAt(k.list, p)[i] = IF i < p THEN k.list[i] ELSE k.list[i + 1]
        BY <1>1, <3>1, Removes
      <4>2. 1 \in 1 .. Len(k.list) - 1 /\ 1 < p
        BY <3>1, <3>4
      <4>3. RemoveAt(k.list, p)[1] = k.list[1] /\ RemoveAt(k.list, p) # <<>>
        BY <4>1, <4>2
      <4> QED
        BY <2>3, <3>2, <4>3 DEF First
    <3> QED
      BY <3>3, <3>4
  <2> QED
    BY <2>3, <2>4, <2>5, <2>7, <2>8, <2>9 DEF ListOK, AfterCancel, new
<1> QED
  BY <1>2, <1>3

\* The first timer has elapsed: it is off the list, and still out.
LEMMA ElapsedNamed ==
  ASSUME NEW k, NEW out, NEW now \in Ticks, ListOK(k, out, now), 1 \in DOMAIN k.list
  PROVE  LET new == RemoveElement(k, 1)
         IN  /\ ListOK(new, out \cup {k.list[1].pTimer}, now)
             /\ k.list[1].pTimer \notin out
             /\ NextElement(k, 1) = First(new.list)
             /\ \A hTimer, handler :
                  Named(k.list, hTimer, handler) =>
                    /\ k.list[1].handler # handler => Named(new.list, hTimer, handler)
                    /\ k.list[1].handler = handler => Named(new.list, 0, handler)
             /\ k.list[1].handler = "debounce" /\ new.list # <<>>
                  /\ new.list[1].handler = "tick" => AllAhead(new.list, now, 0)
<1> DEFINE new == RemoveElement(k, 1)
<1>1. HeapOK(k, out) /\ Due(k.list, now) /\ k.list \in Seq(Timer)
  BY DEF ListOK, HeapOK
<1>2. /\ HeapOK(new, out \cup {k.list[1].pTimer}) /\ new.list = RemoveAt(k.list, 1)
      /\ k.list[1].pTimer \notin out
  BY <1>1, ElementRemoved
<1> HIDE DEF new
<1>3. new.list \in Seq(Timer) /\ Due(new.list, now)
  BY <1>1, <1>2, RemoveDue
<1>4. ListOK(new, out \cup {k.list[1].pTimer}, now)
  BY <1>2, <1>3 DEF ListOK
<1>5. /\ Len(k.list) \in Nat /\ DOMAIN k.list = 1 .. Len(k.list) /\ Len(k.list) >= 1
      /\ DOMAIN new.list = 1 .. Len(k.list) - 1
      /\ \A i \in 1 .. Len(k.list) - 1 : new.list[i] = k.list[i + 1] /\ i + 1 \in DOMAIN k.list
  <2>1. Len(k.list) \in Nat /\ DOMAIN k.list = 1 .. Len(k.list)
    BY <1>1, LenProperties
  <2>2. /\ DOMAIN RemoveAt(k.list, 1) = 1 .. Len(k.list) - 1
        /\ \A i \in 1 .. Len(k.list) - 1 :
             RemoveAt(k.list, 1)[i] = IF i < 1 THEN k.list[i] ELSE k.list[i + 1]
    BY <1>1, <2>1, Removes
  <2> QED
    BY <1>2, <2>1, <2>2
<1>6. new.list # <<>> => 1 \in DOMAIN new.list
  <2>1. DOMAIN new.list = 1 .. Len(new.list) /\ Len(new.list) \in Nat
    BY <1>3, LenProperties
  <2>2. new.list # <<>> => Len(new.list) # 0
    BY <1>3, EmptySeq
  <2> QED
    BY <2>1, <2>2
<1>7. NextElement(k, 1) = First(new.list)
  <2>1. CASE Len(k.list) = 1
    <3>1. 1 \notin 1 .. Len(k.list) - 1
      BY <1>5, <2>1
    <3>2. new.list = <<>>
      BY <1>5, <1>6, <3>1
    <3> QED
      BY <2>1, <3>2 DEF NextElement, First
  <2>2. CASE Len(k.list) # 1
    <3>1. 1 \in 1 .. Len(k.list) - 1
      <4>1. Len(k.list) \in Nat /\ Len(k.list) >= 1
        BY <1>5
      <4>2. \A n \in Nat : n >= 1 /\ n # 1 => 1 \in 1 .. n - 1
        OBVIOUS
      <4> QED
        BY <2>2, <4>1, <4>2
    <3>2. new.list # <<>> /\ new.list[1] = k.list[1 + 1]
      BY <1>5, <3>1
    <3> QED
      BY <2>2, <3>2 DEF NextElement, First
  <2> QED
    BY <2>1, <2>2
<1>8. ASSUME NEW hTimer, NEW handler, Named(k.list, hTimer, handler)
      PROVE  /\ k.list[1].handler # handler => Named(new.list, hTimer, handler)
             /\ k.list[1].handler = handler => Named(new.list, 0, handler)
  BY <1>1, <1>2, <1>8, RemoveNames
<1>9. ASSUME k.list[1].handler = "debounce", new.list # <<>>, new.list[1].handler = "tick"
      PROVE  AllAhead(new.list, now, 0)
  <2>1. 1 \in 1 .. Len(k.list) - 1
    BY <1>5, <1>9, <1>6
  <2>2. 2 \in DOMAIN k.list /\ k.list[2].handler = "tick" /\ 1 < 2
    BY <1>5, <1>9, <2>1
  <2>3. \A i \in DOMAIN k.list : Left(k.list[i].nElapsesAt, now) \in Int
    BY <1>1, TimerFacts
  <2>4. /\ Left(k.list[1].nElapsesAt, now) < Left(k.list[2].nElapsesAt, now)
        /\ Left(k.list[1].nElapsesAt, now) >= 0
    <3>1. Left(k.list[1].nElapsesAt, now) \in 0 .. DebounceDelay
      BY <1>1, <1>9 DEF Due
    <3>2. Left(k.list[1].nElapsesAt, now) >= 0
      BY <3>1, ClockFacts
    <3> QED
      BY <1>1, <1>9, <2>2, <3>2 DEF Due
  <2>5. ASSUME NEW i \in DOMAIN new.list
        PROVE  Left(new.list[i].nElapsesAt, now) >= 1
    <3>1. i + 1 \in DOMAIN k.list /\ new.list[i] = k.list[i + 1] /\ (i + 1 = 2 \/ 2 < i + 1)
      BY <1>5
    <3>2. 2 < i + 1 => Left(k.list[2].nElapsesAt, now) <= Left(k.list[i + 1].nElapsesAt, now)
      BY <1>1, <2>2, <3>1 DEF Due
    <3>3. Left(k.list[i + 1].nElapsesAt, now) >= 1
      <4>1. /\ Left(k.list[2].nElapsesAt, now) \in Int
            /\ Left(k.list[1].nElapsesAt, now) \in Int
            /\ Left(k.list[i + 1].nElapsesAt, now) \in Int
        BY <2>2, <2>3, <3>1
      <4>2. Left(k.list[2].nElapsesAt, now) >= 1
        BY <2>4, <4>1
      <4> QED
        BY <3>1, <3>2, <4>1, <4>2
    <3> QED
      BY <3>1, <3>3
  <2> QED
    BY <2>5 DEF AllAhead
<1> QED
  BY <1>2, <1>4, <1>7, <1>8, <1>9 DEF new

\* The timer is deleted when its handler has returned.
LEMMA DeletedOK ==
  ASSUME NEW k, NEW out, NEW b, b \notin out, NEW now, ListOK(k, out \cup {b}, now)
  PROVE  ListOK(FreeBlock(k, b), out, now) /\ FreeBlock(k, b).list = k.list
<1>1. b \in out \cup {b} /\ HeapOK(k, out \cup {b})
  BY DEF ListOK
<1>2. HeapOK(FreeBlock(k, b), (out \cup {b}) \ {b}) /\ FreeBlock(k, b).list = k.list
  BY <1>1, Frees
<1>3. (out \cup {b}) \ {b} = out
  OBVIOUS
<1> QED
  BY <1>2, <1>3 DEF ListOK

-----------------------------------------------------------------------------
(* The button's timers                                                      *)

\* The block that another driver has allocated and not yet inserted
Out == {starting.pTimer} \ {0}

\* It is to elapse in less than half a turn, or has been to for MaxLag ticks at
\* most, and for none if there is a late timer since the last tick already.
StartingOK ==
  starting # NotStarting =>
    /\ starting.pTimer \in Address /\ starting.nElapsesAt \in Ticks
    /\ Left(starting.nElapsesAt, m_nTicks) \in -MaxLag .. Far - 1
    /\ late # 0 => Left(starting.nElapsesAt, m_nTicks) >= 1

TimersInv ==
  /\ m_nTicks \in Ticks
  /\ ListOK(m_KernelTimerList, Out, m_nTicks)
  /\ Named(m_KernelTimerList.list, m_hDebounceTimer, "debounce")
  /\ Named(m_KernelTimerList.list, m_hTickTimer, "tick")
  /\ PollOK(m_KernelTimerList.list, pElement, m_nTicks, late)
  /\ StartingOK

\* What no handler touches: the call of another driver
LEMMA CallStays ==
  ASSUME m_nTicks' = m_nTicks, UNCHANGED others
  PROVE  Out' = Out /\ late' = late /\ (StartingOK => StartingOK')
BY DEF others, Out, StartingOK, NotStarting

LEMMA Handlers == "debounce" \in Handler /\ "tick" \in Handler /\ "other" \in Handler
                  /\ "debounce" # "tick" /\ "debounce" # "other" /\ "tick" # "other"
BY DEF Handler

\* The delays are less than half a turn, and a tick takes longer than bouncing.
LEMMA Delays ==
  /\ DebounceDelay \in 1 .. Far - 1 /\ DebounceDelay <= DebounceDelay
  /\ TickDelay \in 1 .. Far - 1 /\ TickDelay > DebounceDelay
  /\ \A d \in OtherDelays : d \in 1 .. Far - 1
BY ClockFacts

LEMMA TimersStart ==
  ASSUME BtnInit
  PROVE  TimersInv
<1> DEFINE k == [list |-> <<>>, free |-> <<>>, top |-> 0]
<1>1. /\ m_nTicks = 0 /\ m_KernelTimerList = k /\ pElement = 0
      /\ m_hDebounceTimer = 0 /\ m_hTickTimer = 0
      /\ Out = {} /\ StartingOK
  BY DEF BtnInit, NoTimers, Out, NotStarting, StartingOK
<1>2. k \in [list : Seq(Timer), free : Seq(Address), top : Nat]
      /\ k.list = <<>> /\ k.free = <<>> /\ k.top = 0
  OBVIOUS
<1> HIDE DEF k
<1>3. Used(k) = {} /\ Free(k) = {} /\ OneUse(k)
  BY <1>2 DEF Used, Free, OneUse
<1>4. HeapOK(k, {})
  BY <1>2, <1>3 DEF HeapOK
<1>5. Due(k.list, 0) /\ Named(k.list, 0, "debounce") /\ Named(k.list, 0, "tick")
      /\ AllAhead(k.list, 0, late)
  BY <1>2 DEF Due, Named, AllAhead
<1>6. 0 \in Ticks
  BY ClockFacts DEF Ticks
<1> QED
  BY <1>1, <1>4, <1>5, <1>6 DEF TimersInv, ListOK, PollOK

LEMMA EdgeKeeps ==
  ASSUME TimersInv, Edge
  PROVE  TimersInv'
<1> DEFINE k == Cancelled(m_KernelTimerList, m_hDebounceTimer)
           new == StartKernelTimer(k, (m_nTicks + DebounceDelay) % TickWrap, "debounce")
<1>1. /\ m_nTicks \in Ticks /\ ListOK(m_KernelTimerList, Out, m_nTicks)
      /\ Named(m_KernelTimerList.list, m_hDebounceTimer, "debounce")
      /\ Named(m_KernelTimerList.list, m_hTickTimer, "tick")
      /\ AllAhead(m_KernelTimerList.list, m_nTicks, late) /\ StartingOK
  BY DEF TimersInv, Edge, Idle, PollOK
<1>2. /\ m_hDebounceTimer' = NewBlock(k) /\ m_KernelTimerList' = new
      /\ m_nTicks' = m_nTicks /\ pElement' = pElement /\ pElement = 0
      /\ m_hTickTimer' = m_hTickTimer /\ UNCHANGED others
  BY DEF Edge, Idle, At, Cancelled
<1>3. /\ ListOK(k, Out, m_nTicks) /\ AllAhead(k.list, m_nTicks, late)
      /\ Named(k.list, 0, "debounce") /\ Named(k.list, m_hTickTimer, "tick")
  <2>1. m_nTicks \in Ticks /\ ListOK(m_KernelTimerList, Out, m_nTicks)
    BY <1>1
  <2>2. /\ Named(m_KernelTimerList.list, m_hDebounceTimer, "debounce")
        /\ Named(m_KernelTimerList.list, m_hTickTimer, "tick") /\ "tick" # "debounce"
    BY <1>1
  <2>3. AfterCancel(m_KernelTimerList, k, Out, m_nTicks, "debounce", m_hTickTimer, "tick", late)
    BY <2>1, <2>2, CancelsNamed, Zenon
  <2> QED
    BY <1>1, <2>3 DEF AfterCancel
<1> HIDE DEF k
<1>4. /\ ListOK(new, Out, m_nTicks) /\ AllAhead(new.list, m_nTicks, late)
      /\ Named(new.list, NewBlock(k), "debounce")
  BY <1>1, <1>3, Handlers, Delays, StartsNamed
<1>5. Named(new.list, m_hTickTimer, "tick")
  BY <1>1, <1>3, Handlers, Delays, StartsNamed
<1>6. Out' = Out /\ late' = late /\ StartingOK'
  BY <1>1, <1>2, CallStays
<1> HIDE DEF new
<1> QED
  BY <1>1, <1>2, <1>4, <1>5, <1>6 DEF TimersInv, PollOK

\* Another driver has allocated its timer, and knows when it is to elapse.
LEMMA OtherComputeKeeps ==
  ASSUME TimersInv, NEW d \in OtherDelays, ComputeOther(d)
  PROVE  TimersInv'
<1> DEFINE k == m_KernelTimerList
           new == TakeBlock(k)
           at == (m_nTicks + d) % TickWrap
<1>1. /\ m_nTicks \in Ticks /\ HeapOK(k, {}) /\ Due(k.list, m_nTicks)
      /\ Named(k.list, m_hDebounceTimer, "debounce") /\ Named(k.list, m_hTickTimer, "tick")
      /\ AllAhead(k.list, m_nTicks, late)
  <2>1. Out = {}
    BY DEF ComputeOther, Out, NotStarting
  <2> QED
    BY <2>1 DEF TimersInv, ListOK, ComputeOther, Idle, PollOK
<1>2. /\ m_KernelTimerList' = new /\ starting' = [pTimer |-> NewBlock(k), nElapsesAt |-> at]
      /\ m_nTicks' = m_nTicks /\ pElement' = 0 /\ late' = late
      /\ m_hTickTimer' = m_hTickTimer /\ m_hDebounceTimer' = m_hDebounceTimer
  BY DEF ComputeOther, Idle, At, handles
<1>3. d \in 1 .. Far - 1 /\ d \in 0 .. Far - 1 /\ d \in -MaxLag .. Far - 1 /\ d >= 1
  BY ClockFacts
<1>4. at \in Ticks /\ Left(at, m_nTicks) = d
  BY <1>1, <1>3, LeftAt
<1>5. NewBlock(k) \in Address /\ new.list = k.list /\ HeapOK(new, {} \cup {NewBlock(k)})
  BY <1>1, Allocates
<1> HIDE DEF at, new, k
<1>6. Out' = {} \cup {NewBlock(k)}
  BY <1>2, <1>5 DEF Out, Address
<1>7. StartingOK'
  BY <1>2, <1>3, <1>4, <1>5 DEF StartingOK
<1>8. ListOK(new, Out', m_nTicks)
  BY <1>1, <1>5, <1>6 DEF ListOK
<1> QED
  BY <1>1, <1>2, <1>5, <1>7, <1>8 DEF TimersInv, PollOK

\* It inserts the timer, which may be late by then.
LEMMA OtherStartKeeps ==
  ASSUME TimersInv, StartOther
  PROVE  TimersInv'
<1> DEFINE k == m_KernelTimerList
           a == starting.pTimer
           at == starting.nElapsesAt
           new == InsertTimer(k, a, at, "other")
<1>1. /\ a \in Address /\ at \in Ticks /\ Left(at, m_nTicks) \in -MaxLag .. Far - 1
      /\ late # 0 => Left(at, m_nTicks) >= 1
  BY DEF TimersInv, StartingOK, StartOther
<1>2. /\ m_nTicks \in Ticks /\ ListOK(k, {} \cup {a}, m_nTicks)
      /\ Named(k.list, m_hDebounceTimer, "debounce") /\ Named(k.list, m_hTickTimer, "tick")
      /\ AllAhead(k.list, m_nTicks, late)
  <2>1. Out = {} \cup {a}
    BY <1>1 DEF Out, Address
  <2> QED
    BY <2>1 DEF TimersInv, StartOther, Idle, PollOK
<1>3. /\ m_KernelTimerList' = new /\ starting' = NotStarting
      /\ m_nTicks' = m_nTicks /\ pElement' = 0
      /\ late' = IF Later(at, m_nTicks) THEN late ELSE a
      /\ m_hTickTimer' = m_hTickTimer /\ m_hDebounceTimer' = m_hDebounceTimer
  BY DEF StartOther, Idle, handles
<1>4. Out' = {} /\ StartingOK'
  BY <1>3 DEF Out, NotStarting, StartingOK
<1> HIDE DEF k, a, at
<1>5. Left(at, m_nTicks) \in Int /\ Left(at, m_nTicks) < Far
  BY <1>1, ClockFacts
<1>6. Later(at, m_nTicks) <=> Left(at, m_nTicks) >= 1
  BY <1>1, <1>2, <1>5, LaterThanNow
\* A timer that is late is the only one.
<1>7. /\ AllAhead(k.list, m_nTicks, late')
      /\ Left(at, m_nTicks) >= 1 \/ (late' # 0 /\ a = late')
  <2>1. CASE Left(at, m_nTicks) >= 1
    BY <1>2, <1>3, <1>6, <2>1
  <2>2. CASE ~(Left(at, m_nTicks) >= 1)
    <3>1. late = 0 /\ late' = a /\ a # 0
      BY <1>1, <1>3, <1>6, <2>2 DEF Address
    <3> QED
      BY <1>2, <3>1 DEF AllAhead
  <2> QED
    BY <2>1, <2>2
<1>8. a \notin {}
  OBVIOUS
<1>9. /\ ListOK(new, {}, m_nTicks) /\ AllAhead(new.list, m_nTicks, late')
      /\ Named(new.list, m_hDebounceTimer, "debounce")
  BY <1>1, <1>2, <1>7, <1>8, Handlers, InsertsNamed
<1>10. Named(new.list, m_hTickTimer, "tick")
  BY <1>1, <1>2, <1>7, <1>8, Handlers, InsertsNamed
<1> HIDE DEF new
<1> QED
  BY <1>2, <1>3, <1>4, <1>9, <1>10 DEF TimersInv, PollOK

LEMMA TickKeepsTimers ==
  ASSUME TimersInv, TimerInterrupt
  PROVE  TimersInv'
<1> DEFINE list == m_KernelTimerList.list
           now == m_nTicks
           next == (m_nTicks + 1) % TickWrap
<1>1. /\ now \in Ticks /\ HeapOK(m_KernelTimerList, Out) /\ Due(list, now)
      /\ Named(list, m_hDebounceTimer, "debounce") /\ Named(list, m_hTickTimer, "tick")
      /\ AllAhead(list, now, late) /\ list \in Seq(Timer) /\ StartingOK
  BY DEF TimersInv, ListOK, HeapOK, TimerInterrupt, Idle, PollOK
<1>2. /\ m_nTicks' = next /\ pElement' = First(list)
      /\ m_KernelTimerList' = m_KernelTimerList
      /\ m_hTickTimer' = m_hTickTimer /\ m_hDebounceTimer' = m_hDebounceTimer
      /\ starting' = starting /\ late' = 0
  BY DEF TimerInterrupt, handles, FirstElement, First
<1> HIDE DEF next, list
<1>3. next \in Ticks
  BY <1>1, ClockFacts DEF next, Ticks
<1>4. \A i \in DOMAIN list : /\ Left(list[i].nElapsesAt, next) = Left(list[i].nElapsesAt, now) - 1
                             /\ Left(list[i].nElapsesAt, now) \in Int
  <2> SUFFICES ASSUME NEW i \in DOMAIN list
               PROVE  /\ Left(list[i].nElapsesAt, next) = Left(list[i].nElapsesAt, now) - 1
                      /\ Left(list[i].nElapsesAt, now) \in Int
    OBVIOUS
  <2>1. Left(list[i].nElapsesAt, now) \in Int /\ list[i].nElapsesAt \in Ticks
    BY <1>1, TimerFacts
  <2>2. Left(list[i].nElapsesAt, now) >= 1 \/ Left(list[i].nElapsesAt, now) >= -MaxLag
    BY <1>1 DEF AllAhead
  <2>3. Left(list[i].nElapsesAt, now) >= -MaxLag
    BY <2>1, <2>2, ClockFacts
  <2> QED
    BY <1>1, <2>1, <2>3, LeftPasses DEF next
<1>5. Due(list, next)
  <2>1. Far \in Nat /\ DebounceDelay \in Nat
    BY ClockFacts
  <2>2. \A i \in DOMAIN list : Left(list[i].nElapsesAt, next) < Far
    BY <1>1, <1>4, <2>1 DEF Due
  <2>3. \A i, j \in DOMAIN list :
          i < j => Left(list[i].nElapsesAt, next) <= Left(list[j].nElapsesAt, next)
    BY <1>1, <1>4 DEF Due
  <2>4. ASSUME NEW i \in DOMAIN list, list[i].handler = "debounce"
        PROVE  Left(list[i].nElapsesAt, next) \in 0 .. DebounceDelay
    <3>1. Left(list[i].nElapsesAt, now) \in 0 .. DebounceDelay
      BY <1>1, <2>4 DEF Due
    <3>2. Left(list[i].nElapsesAt, now) >= 1
      BY <1>1, <2>4, Handlers DEF AllAhead
    <3> QED
      BY <1>4, <2>1, <3>1, <3>2
  <2>5. \A i, j \in DOMAIN list :
          list[i].handler = "debounce" /\ list[j].handler = "tick" /\ i < j
            => Left(list[i].nElapsesAt, next) < Left(list[j].nElapsesAt, next)
    BY <1>1, <1>4 DEF Due
  <2> QED
    BY <2>2, <2>3, <2>4, <2>5 DEF Due
<1>6. PollOK(list, First(list), next, 0)
  BY <1>1, FirstPoll
<1>7. Out' = Out
  BY <1>2 DEF Out
<1>8. StartingOK'
  <2> SUFFICES ASSUME starting # NotStarting
               PROVE  /\ starting.pTimer \in Address /\ starting.nElapsesAt \in Ticks
                      /\ Left(starting.nElapsesAt, next) \in -MaxLag .. Far - 1
    BY <1>2 DEF StartingOK, NotStarting
  <2>1. /\ starting.pTimer \in Address /\ starting.nElapsesAt \in Ticks
        /\ Left(starting.nElapsesAt, now) \in -MaxLag .. Far - 1
    BY <1>1 DEF StartingOK
  <2>2. Left(starting.nElapsesAt, now) # -MaxLag
    <3> SUFFICES ASSUME Left(starting.nElapsesAt, now) = -MaxLag
                 PROVE  starting.nElapsesAt = (m_nTicks - MaxLag) % TickWrap
      BY DEF TimerInterrupt, NotTooLate
    <3> DEFINE at == starting.nElapsesAt
    <3>1. /\ at \in 0 .. TickWrap - 1 /\ now \in 0 .. TickWrap - 1 /\ TickWrap \in Nat \ {0}
          /\ MaxLag \in Nat /\ MaxLag + 2 < TickWrap
      BY <1>1, <2>1, ClockFacts DEF Ticks
    <3>2. Left(at, now) = IF at - now < -(MaxLag + 1) THEN at - now + TickWrap
                          ELSE IF at - now >= TickWrap - (MaxLag + 1)
                          THEN at - now - TickWrap ELSE at - now
      BY <1>1, <2>1, LeftIs
    <3> HIDE DEF at
    <3>3. CASE now - MaxLag >= 0
      <4>1. (now - MaxLag) % TickWrap = now - MaxLag
        BY <3>1, <3>3
      <4> QED
        BY <3>1, <3>2, <3>3, <4>1 DEF at
    <3>4. CASE now - MaxLag < 0
      <4>1. (now - MaxLag) % TickWrap = now - MaxLag + TickWrap
        BY <3>1, <3>4
      <4> QED
        BY <3>1, <3>2, <3>4, <4>1 DEF at
    <3> QED
      BY <3>1, <3>3, <3>4
  <2>3. /\ Left(starting.nElapsesAt, now) \in Int
        /\ Left(starting.nElapsesAt, now) >= -MaxLag
    BY <2>1, ClockFacts
  <2>4. Left(starting.nElapsesAt, next) = Left(starting.nElapsesAt, now) - 1
    BY <1>1, <2>1, <2>3, LeftPasses DEF next
  <2> QED
    BY <2>1, <2>2, <2>4, ClockFacts
<1> QED
  BY <1>1, <1>2, <1>3, <1>5, <1>6, <1>7, <1>8 DEF TimersInv, ListOK, list

LEMMA PollEndsKeeps ==
  ASSUME TimersInv, PollEnds
  PROVE  TimersInv'
<1>1. PICK i \in ElementAt(m_KernelTimerList, pElement) :
        Later(m_KernelTimerList.list[i].nElapsesAt, m_nTicks)
  BY DEF PollEnds
<1>2. AllAhead(m_KernelTimerList.list, m_nTicks, late)
  BY <1>1, PollPlace DEF TimersInv, ListOK
<1>3. Out' = Out /\ late' = late /\ (StartingOK => StartingOK')
  BY CallStays DEF PollEnds
<1> QED
  BY <1>2, <1>3 DEF TimersInv, PollOK, PollEnds, handles

\* What every handler finds: its timer was the first, and is off the list.
LEMMA ElapsesAtFirst ==
  ASSUME TimersInv, NEW i \in ElementAt(m_KernelTimerList, pElement), NEW handler,
         NEW handled, Elapses(i, handler, handled)
  PROVE  /\ i = 1 /\ 1 \in DOMAIN m_KernelTimerList.list
         /\ m_KernelTimerList.list[1].handler = handler
         /\ pElement' = First(Elapsed(1).list)
         /\ m_KernelTimerList' = FreeBlock(handled, m_KernelTimerList.list[1].pTimer)
         /\ m_nTicks' = m_nTicks
         /\ ListOK(Elapsed(1), Out \cup {m_KernelTimerList.list[1].pTimer}, m_nTicks)
         /\ m_KernelTimerList.list[1].pTimer \notin Out
         /\ handler # "debounce" =>
              Named(Elapsed(1).list, m_hDebounceTimer, "debounce")
         /\ handler = "debounce" => Named(Elapsed(1).list, 0, "debounce")
         /\ handler # "tick" => Named(Elapsed(1).list, m_hTickTimer, "tick")
         /\ handler = "tick" => Named(Elapsed(1).list, 0, "tick")
         /\ handler = "debounce" /\ Elapsed(1).list # <<>>
              /\ Elapsed(1).list[1].handler = "tick" => AllAhead(Elapsed(1).list, m_nTicks, 0)
         /\ Out' = Out /\ late' = late /\ StartingOK'
<1> DEFINE k == m_KernelTimerList
<1>1. /\ m_nTicks \in Ticks /\ ListOK(k, Out, m_nTicks) /\ HeapOK(k, Out)
      /\ Due(k.list, m_nTicks)
      /\ Named(k.list, m_hDebounceTimer, "debounce") /\ Named(k.list, m_hTickTimer, "tick")
      /\ PollOK(k.list, pElement, m_nTicks, late)
  BY DEF TimersInv, ListOK
<1>2. /\ k.list[i].handler = handler /\ ~Later(k.list[i].nElapsesAt, m_nTicks)
      /\ pElement' = NextElement(k, i)
      /\ m_KernelTimerList' = FreeBlock(handled, k.list[i].pTimer) /\ m_nTicks' = m_nTicks
      /\ UNCHANGED others
  BY DEF Elapses
<1>4. Elapsed(1) = RemoveElement(k, 1) /\ i \in ElementAt(k, pElement)
  BY DEF Elapsed
<1> HIDE DEF k
<1>3. i = 1 /\ 1 \in DOMAIN k.list
  <2>1. i \in DOMAIN k.list
    BY <1>4 DEF ElementAt
  <2>2. ~Later(k.list[i].nElapsesAt, m_nTicks) => i = 1
    <3>1. /\ HeapOK(k, Out) /\ Due(k.list, m_nTicks) /\ PollOK(k.list, pElement, m_nTicks, late)
          /\ m_nTicks \in Ticks /\ i \in ElementAt(k, pElement)
      BY <1>1, <1>4
    <3> QED
      BY <3>1, PollPlace, ZenonT(60)
  <2> QED
    BY <1>2, <2>1, <2>2
<1>5. /\ ListOK(RemoveElement(k, 1), Out \cup {k.list[1].pTimer}, m_nTicks)
      /\ k.list[1].pTimer \notin Out
      /\ NextElement(k, 1) = First(RemoveElement(k, 1).list)
      /\ \A hTimer, other :
           Named(k.list, hTimer, other) =>
             /\ k.list[1].handler # other => Named(RemoveElement(k, 1).list, hTimer, other)
             /\ k.list[1].handler = other => Named(RemoveElement(k, 1).list, 0, other)
      /\ k.list[1].handler = "debounce" /\ RemoveElement(k, 1).list # <<>>
           /\ RemoveElement(k, 1).list[1].handler = "tick"
             => AllAhead(RemoveElement(k, 1).list, m_nTicks, 0)
  BY <1>1, <1>3, ElapsedNamed
<1>6. k.list[1].handler = handler
  BY <1>2, <1>3
<1>7. /\ handler # "debounce" => Named(Elapsed(1).list, m_hDebounceTimer, "debounce")
      /\ handler = "debounce" => Named(Elapsed(1).list, 0, "debounce")
      /\ handler # "tick" => Named(Elapsed(1).list, m_hTickTimer, "tick")
      /\ handler = "tick" => Named(Elapsed(1).list, 0, "tick")
  BY <1>1, <1>4, <1>5, <1>6
<1>8. handler = "debounce" /\ Elapsed(1).list # <<>>
        /\ Elapsed(1).list[1].handler = "tick" => AllAhead(Elapsed(1).list, m_nTicks, 0)
  BY <1>4, <1>5, <1>6
<1>9. /\ pElement' = First(Elapsed(1).list)
      /\ m_KernelTimerList' = FreeBlock(handled, k.list[1].pTimer)
      /\ m_nTicks' = m_nTicks
      /\ ListOK(Elapsed(1), Out \cup {k.list[1].pTimer}, m_nTicks)
      /\ k.list[1].pTimer \notin Out
  BY <1>2, <1>3, <1>4, <1>5
<1>10. Out' = Out /\ late' = late /\ StartingOK'
  BY <1>2, CallStays DEF TimersInv
<1> QED
  BY <1>3, <1>6, <1>7, <1>8, <1>9, <1>10 DEF k

LEMMA OtherElapsesKeeps ==
  ASSUME TimersInv, NEW i \in ElementAt(m_KernelTimerList, pElement), OtherElapses(i)
  PROVE  TimersInv'
<1> DEFINE b == m_KernelTimerList.list[1].pTimer
           r == Elapsed(1)
<1>1. /\ Elapses(i, "other", Elapsed(i)) /\ m_hTickTimer' = m_hTickTimer
      /\ m_hDebounceTimer' = m_hDebounceTimer
  BY DEF OtherElapses, handles
<1>2. /\ i = 1 /\ pElement' = First(r.list) /\ m_KernelTimerList' = FreeBlock(Elapsed(i), b)
      /\ m_nTicks' = m_nTicks /\ ListOK(r, Out \cup {b}, m_nTicks) /\ b \notin Out
      /\ Named(r.list, m_hDebounceTimer, "debounce") /\ Named(r.list, m_hTickTimer, "tick")
      /\ Out' = Out /\ late' = late /\ StartingOK'
  BY <1>1, Handlers, ElapsesAtFirst
<1>3. m_KernelTimerList' = FreeBlock(r, b)
  BY <1>2
<1>4. m_nTicks \in Ticks
  BY DEF TimersInv
<1> HIDE DEF b, r
<1>5. ListOK(FreeBlock(r, b), Out, m_nTicks) /\ FreeBlock(r, b).list = r.list
  BY <1>2, DeletedOK
<1>6. PollOK(r.list, First(r.list), m_nTicks, late)
  <2>1. r.list \in Seq(Timer)
    BY <1>2 DEF ListOK, HeapOK
  <2> QED
    BY <2>1, FirstPoll
<1> QED
  BY <1>1, <1>2, <1>3, <1>4, <1>5, <1>6 DEF TimersInv

LEMMA TickElapsesKeeps ==
  ASSUME TimersInv, NEW i \in ElementAt(m_KernelTimerList, pElement), SwitchTickHandler(i)
  PROVE  TimersInv'
<1> DEFINE b == m_KernelTimerList.list[1].pTimer
           r == Elapsed(1)
           new == StartKernelTimer(r, (m_nTicks + TickDelay) % TickWrap, "tick")
<1>1. /\ Elapses(i, "tick", StartTick(Elapsed(i))) /\ m_hTickTimer' = NewBlock(Elapsed(i))
      /\ m_hDebounceTimer' = m_hDebounceTimer
  BY DEF SwitchTickHandler
<1>2. /\ i = 1 /\ pElement' = First(r.list)
      /\ m_KernelTimerList' = FreeBlock(StartTick(Elapsed(i)), b)
      /\ m_nTicks' = m_nTicks /\ ListOK(r, Out \cup {b}, m_nTicks) /\ b \notin Out
      /\ Named(r.list, m_hDebounceTimer, "debounce") /\ Named(r.list, 0, "tick")
      /\ Out' = Out /\ late' = late /\ StartingOK'
  BY <1>1, Handlers, ElapsesAtFirst
<1>3. m_KernelTimerList' = FreeBlock(new, b) /\ m_hTickTimer' = NewBlock(r)
  BY <1>1, <1>2 DEF StartTick, At
<1>4. m_nTicks \in Ticks
  BY DEF TimersInv
<1> HIDE DEF b, r
<1>5. /\ ListOK(new, Out \cup {b}, m_nTicks) /\ PollOK(new.list, First(r.list), m_nTicks, late)
      /\ Named(new.list, NewBlock(r), "tick")
  BY <1>2, <1>4, Handlers, Delays, StartsNamed
<1>6. Named(new.list, m_hDebounceTimer, "debounce")
  BY <1>2, <1>4, Handlers, Delays, StartsNamed
<1> HIDE DEF new
<1>7. ListOK(FreeBlock(new, b), Out, m_nTicks) /\ FreeBlock(new, b).list = new.list
  BY <1>2, <1>5, DeletedOK
<1> QED
  BY <1>1, <1>2, <1>3, <1>4, <1>5, <1>6, <1>7 DEF TimersInv

LEMMA DebounceElapsesKeeps ==
  ASSUME TimersInv, NEW i \in ElementAt(m_KernelTimerList, pElement),
         SwitchDebounceHandler(i)
  PROVE  TimersInv'
<1> DEFINE b == m_KernelTimerList.list[1].pTimer
           r == Elapsed(1)
           c == Cancelled(r, m_hTickTimer)
           new == StartKernelTimer(c, (m_nTicks + TickDelay) % TickWrap, "tick")
<1>1. /\ Elapses(i, "debounce", StartTick(WithoutTick(Elapsed(i))))
      /\ m_hTickTimer' = NewBlock(WithoutTick(Elapsed(i)))
      /\ m_hDebounceTimer' = 0
  BY DEF SwitchDebounceHandler
<1>2. /\ i = 1 /\ pElement' = First(r.list)
      /\ m_KernelTimerList' = FreeBlock(StartTick(WithoutTick(Elapsed(i))), b)
      /\ m_nTicks' = m_nTicks /\ ListOK(r, Out \cup {b}, m_nTicks) /\ b \notin Out
      /\ Named(r.list, 0, "debounce") /\ Named(r.list, m_hTickTimer, "tick")
      /\ r.list # <<>> /\ r.list[1].handler = "tick" => AllAhead(r.list, m_nTicks, 0)
      /\ Out' = Out /\ late' = late /\ StartingOK'
  BY <1>1, Handlers, ElapsesAtFirst
<1>3. m_KernelTimerList' = FreeBlock(new, b) /\ m_hTickTimer' = NewBlock(c)
  BY <1>1, <1>2 DEF StartTick, WithoutTick, Cancelled, At
<1>4. m_nTicks \in Ticks
  BY DEF TimersInv
<1> HIDE DEF b, r
<1>5. /\ ListOK(c, Out \cup {b}, m_nTicks)
      /\ AllAhead(r.list, m_nTicks, 0) => AllAhead(c.list, m_nTicks, 0)
      /\ Named(c.list, 0, "tick") /\ Named(c.list, 0, "debounce")
      /\ \/ First(c.list) = First(r.list)
         \/ /\ r.list # <<>> /\ r.list[1].handler = "tick"
            /\ NewBlock(TakeBlock(c)) = First(r.list)
  <2>2. ListOK(r, Out \cup {b}, m_nTicks)
    BY <1>2
  <2>3. /\ Named(r.list, 0, "debounce") /\ Named(r.list, m_hTickTimer, "tick")
        /\ "debounce" # "tick"
    BY <1>2
  <2>4. AfterCancel(r, c, Out \cup {b}, m_nTicks, "tick", 0, "debounce", 0)
    BY <1>4, <2>2, <2>3, CancelsNamed, Zenon
  <2> QED
    BY <2>4 DEF AfterCancel
<1> HIDE DEF c
<1>6. /\ ListOK(new, Out \cup {b}, m_nTicks) /\ PollOK(new.list, First(c.list), m_nTicks, late)
      /\ Named(new.list, NewBlock(c), "tick")
      /\ \E q \in DOMAIN new.list : new.list[q].pElement = NewBlock(TakeBlock(c))
  <2>1. PollOK(new.list, First(c.list), m_nTicks, late)
    BY <1>4, <1>5, Handlers, Delays, StartsNamed
  <2>4. \E q \in DOMAIN new.list : new.list[q].pElement = NewBlock(TakeBlock(c))
    BY <1>4, <1>5, Handlers, Delays, StartsElement
  <2>2. ListOK(new, Out \cup {b}, m_nTicks)
    BY <1>4, <1>5, Handlers, Delays, StartsNamed
  <2>3. Named(new.list, NewBlock(c), "tick")
    BY <1>4, <1>5, Handlers, Delays, StartsNamed
  <2> QED
    BY <2>1, <2>2, <2>3, <2>4
<1>7. /\ Named(new.list, 0, "debounce")
      /\ AllAhead(c.list, m_nTicks, 0) => AllAhead(new.list, m_nTicks, 0)
  BY <1>4, <1>5, Handlers, Delays, StartsNamed
<1> HIDE DEF new
\* If the tick timer came next, its element is that of the new one.
<1>8. PollOK(new.list, First(r.list), m_nTicks, late)
  <2>1. CASE First(c.list) = First(r.list)
    BY <1>6, <2>1
  <2>2. CASE /\ r.list # <<>> /\ r.list[1].handler = "tick"
             /\ NewBlock(TakeBlock(c)) = First(r.list)
    <3>1. AllAhead(new.list, m_nTicks, 0)
      BY <1>2, <1>5, <1>7, <2>2
    <3>2. \E q \in DOMAIN new.list : new.list[q].pElement = First(r.list)
      BY <1>6, <2>2
    <3> QED
      BY <3>1, <3>2 DEF PollOK, AllAhead
  <2> QED
    BY <1>5, <2>1, <2>2
<1>9. ListOK(FreeBlock(new, b), Out, m_nTicks) /\ FreeBlock(new, b).list = new.list
  BY <1>2, <1>6, DeletedOK
<1> QED
  BY <1>1, <1>2, <1>3, <1>4, <1>6, <1>7, <1>8, <1>9 DEF TimersInv

LEMMA TimersKept ==
  ASSUME TimersInv, [BtnNext]_btnVars
  PROVE  TimersInv'
<1>1. CASE Edge
  BY <1>1, EdgeKeeps
<1>2. CASE (\E delay \in OtherDelays : ComputeOther(delay)) \/ StartOther
  BY <1>2, OtherComputeKeeps, OtherStartKeeps
<1>3. CASE TimerInterrupt
  BY <1>3, TickKeepsTimers
<1>4. CASE PollEnds
  BY <1>4, PollEndsKeeps
<1>5. CASE \E i \in ElementAt(m_KernelTimerList, pElement) :
             SwitchDebounceHandler(i) \/ SwitchTickHandler(i) \/ OtherElapses(i)
  BY <1>5, DebounceElapsesKeeps, TickElapsesKeeps, OtherElapsesKeeps
<1>6. CASE UNCHANGED btnVars
  BY <1>6, CallStays DEF btnVars, handles, TimersInv
<1> QED
  BY <1>1, <1>2, <1>3, <1>4, <1>5, <1>6 DEF BtnNext

LEMMA TimersAlways == BtnSpec => []TimersInv
<1>1. BtnInit => TimersInv
  BY TimersStart
<1>2. TimersInv /\ [BtnNext]_btnVars => TimersInv'
  BY TimersKept
<1> QED
  BY <1>1, <1>2, PTL DEF BtnSpec

\* The element PollKernelTimers() goes on with is one (GetPtr() asserts it),
\* whatever the handler cancelled.
THEOREM PollGoesOn == BtnSpec => []PollFindsElement
<1>1. TimersInv => PollFindsElement
  BY DEF TimersInv, PollOK, PollFindsElement, Idle, ElementAt
<1> QED
  BY <1>1, TimersAlways, PTL

\* Between polls no timer on the list has elapsed, except one that was inserted
\* since the last tick with its time over already (timer.cpp:391 and :402).
THEOREM NoTimerLate == BtnSpec => []NobodyLate
<1>1. TimersInv => NobodyLate
  <2> SUFFICES ASSUME TimersInv, Idle, NEW i \in DOMAIN m_KernelTimerList.list
               PROVE  \/ Later(m_KernelTimerList.list[i].nElapsesAt, m_nTicks)
                      \/ m_KernelTimerList.list[i].pTimer = late
    BY DEF NobodyLate
  <2> DEFINE left == Left(m_KernelTimerList.list[i].nElapsesAt, m_nTicks)
  <2>1. left >= 1 \/ m_KernelTimerList.list[i].pTimer = late
    BY DEF TimersInv, PollOK, AllAhead, Idle
  <2>2. left < Far /\ m_KernelTimerList.list[i].nElapsesAt \in Ticks /\ m_nTicks \in Ticks
    BY TimerFacts DEF TimersInv, ListOK, HeapOK, Due
  <2>3. Later(m_KernelTimerList.list[i].nElapsesAt, m_nTicks) <=> left >= 1
    BY <2>2, LaterThanNow
  <2> QED
    BY <2>1, <2>3
<1> QED
  BY <1>1, TimersAlways, PTL

\* The button cancels only timers of its own.
THEOREM HandlesAreOwn == BtnSpec => []OwnTimersOnly
<1>1. ASSUME NEW hTimer, NEW handler, Named(m_KernelTimerList.list, hTimer, handler)
      PROVE  HandleNamesTimer(hTimer, handler)
  <2>1. CASE hTimer = 0
    BY <1>1, <2>1 DEF Named, HandleNamesTimer
  <2>2. CASE hTimer # 0
    <3>1. PICK i \in DOMAIN m_KernelTimerList.list :
            /\ m_KernelTimerList.list[i].pTimer = hTimer
            /\ \A j \in DOMAIN m_KernelTimerList.list :
                 m_KernelTimerList.list[j].handler = handler <=> j = i
      BY <1>1, <2>2 DEF Named
    <3>2. {j \in DOMAIN m_KernelTimerList.list : m_KernelTimerList.list[j].handler = handler} = {i}
      BY <3>1
    <3> QED
      BY <2>2, <3>1, <3>2 DEF HandleNamesTimer
  <2> QED
    BY <2>1, <2>2
<1>2. TimersInv => OwnTimersOnly
  BY <1>1 DEF TimersInv, OwnTimersOnly
<1> QED
  BY <1>2, TimersAlways, PTL

-----------------------------------------------------------------------------
(* The gesture                                                              *)

\* The state of the click machine goes with the debounced level: a click while
\* the button is up, a press while it is down, and one that was held is not a
\* press that still counts.
StateFits ==
  /\ ~isDown => m_SwitchState = Start \/ \E n \in Nat \ {0} : m_SwitchState = Click(n)
  /\ isDown /\ ~held => m_SwitchState = Invalid \/ m_SwitchState = Hold
                          \/ \E n \in Nat \ {0} : m_SwitchState = Down(n)
  /\ held => isDown /\ (m_SwitchState = Hold \/ m_SwitchState = Invalid)

\* The presses of a gesture are those its state has counted, as long as the
\* table can count them.
StateCounts ==
  presses <= MaxClicks + 1 =>
    m_SwitchState =
      IF ~isDown
      THEN IF presses \in 1 .. MaxClicks THEN Click(presses) ELSE Start
      ELSE IF held THEN IF presses = 1 THEN Hold ELSE Invalid
      ELSE IF presses \in 1 .. MaxClicks THEN Down(presses) ELSE Invalid

GestureTypes ==
  /\ isDown \in BOOLEAN /\ held \in BOOLEAN
  /\ presses \in Nat /\ presses <= MaxClicks + 2
  /\ isDown => presses # 0

GestureInv == GestureTypes /\ StateFits /\ StateCounts

LevelOK == pinLevel \in {"HIGH", "LOW"}

-----------------------------------------------------------------------------
(* The table                                                                *)

\* What a press, a release and a tick make of a state
LEMMA TableDown ==
  /\ AfterDown(Start) = Down(1) /\ AfterDown(Hold) = Hold /\ AfterDown(Invalid) = Invalid
  /\ \A n \in Nat \ {0} :
       /\ AfterDown(Down(n)) = Down(n)
       /\ AfterDown(Click(n)) = IF n < MaxClicks THEN Down(n + 1) ELSE Invalid
  BY DEF AfterDown, Start, Hold, Invalid, Down, Click

LEMMA TableUp ==
  /\ AfterUp(Start) = Start /\ AfterUp(Hold) = Start /\ AfterUp(Invalid) = Start
  /\ \A n \in Nat \ {0} : AfterUp(Down(n)) = Click(n) /\ AfterUp(Click(n)) = Click(n)
  BY DEF AfterUp, Start, Hold, Invalid, Down, Click

LEMMA TableTick ==
  /\ AfterTick(Start) = Start /\ AfterTick(Hold) = Hold /\ AfterTick(Invalid) = Invalid
  /\ \A n \in Nat \ {0} :
       /\ AfterTick(Down(n)) = IF n = 1 THEN Hold ELSE Invalid
       /\ AfterTick(Click(n)) = Start
  BY DEF AfterTick, Start, Hold, Invalid, Down, Click

\* What a tick reports of a state
LEMMA TableOutput ==
  /\ TickOutput(Start) = Nothing /\ TickOutput(Hold) = Hold
  /\ TickOutput(Invalid) = Nothing
  /\ \A n \in Nat \ {0} : /\ TickOutput(Down(n)) = IF n = 1 THEN Hold ELSE Nothing
                          /\ TickOutput(Click(n)) = Click(n)
  BY DEF TickOutput, Start, Hold, Invalid, Nothing, Down, Click

-----------------------------------------------------------------------------
(* Each event                                                               *)

\* A debounced press, which may follow another one: the release was too short.
LEMMA PressKeeps ==
  ASSUME GestureInv, HandleLevel("LOW")
  PROVE  GestureInv'
<1> USE ButtonsAssumption DEF GestureInv, GestureTypes
<1>1. /\ m_SwitchState' = AfterDown(m_SwitchState)
      /\ isDown' = TRUE /\ held' = held
      /\ presses' = IF ~isDown /\ presses < MaxClicks + 2 THEN presses + 1
                    ELSE presses
  <2>1. /\ isDown' = TRUE /\ held' = (held /\ TRUE)
        /\ m_SwitchState' = AfterDown(m_SwitchState)
    BY DEF HandleLevel
  <2>2. presses' = IF ~isDown /\ presses < MaxClicks + 2 THEN presses + 1
                   ELSE presses
    BY DEF HandleLevel
  <2> QED  BY <2>1, <2>2
<1> HIDE DEF Start, Hold, Invalid, Down, Click, AfterDown
<1>2. GestureTypes'
  BY <1>1, MaxClicks \in Nat DEF ButtonsAssumption
<1>3. StateFits'
  <2>1. CASE isDown
    BY <1>1, <2>1, TableDown DEF StateFits
  <2>2. CASE ~isDown
    <3>1. ~held  BY <2>2 DEF StateFits
    <3>2. m_SwitchState = Start \/ \E n \in Nat \ {0} : m_SwitchState = Click(n)
      BY <2>2 DEF StateFits
    <3>3. m_SwitchState' = Invalid \/ \E n \in Nat \ {0} : m_SwitchState' = Down(n)
      <4>1. CASE m_SwitchState = Start
        BY <4>1, <1>1, TableDown
      <4>2. ASSUME NEW n \in Nat \ {0}, m_SwitchState = Click(n)
            PROVE  m_SwitchState' = Invalid \/ \E k \in Nat \ {0} : m_SwitchState' = Down(k)
        <5>1. n + 1 \in Nat \ {0}  OBVIOUS
        <5> QED  BY <4>2, <5>1, <1>1, TableDown
      <4> QED  BY <4>1, <4>2, <3>2
    <3> QED  BY <1>1, <3>1, <3>3 DEF StateFits
  <2> QED  BY <2>1, <2>2
<1>4. StateCounts'
  <2> SUFFICES ASSUME presses' <= MaxClicks + 1
               PROVE  m_SwitchState' =
                        IF held THEN IF presses' = 1 THEN Hold ELSE Invalid
                        ELSE IF presses' \in 1 .. MaxClicks THEN Down(presses')
                        ELSE Invalid
    BY <1>1 DEF StateCounts
  <2>1. CASE isDown
    <3>1. presses' = presses  BY <1>1, <2>1
    <3>2. m_SwitchState = IF held THEN IF presses = 1 THEN Hold ELSE Invalid
                          ELSE IF presses \in 1 .. MaxClicks THEN Down(presses)
                          ELSE Invalid
      BY <2>1, <3>1 DEF StateCounts
    <3> QED  BY <3>1, <3>2, <1>1, TableDown
  <2>2. CASE ~isDown
    <3>1. ~held  BY <2>2 DEF StateFits
    <3>2. /\ presses' = presses + 1
          /\ presses <= MaxClicks + 1 /\ presses \in Nat /\ MaxClicks \in Nat \ {0}
          /\ presses \in 0 .. MaxClicks
      BY <1>1, <2>2 DEF ButtonsAssumption
    <3>3. m_SwitchState = IF presses \in 1 .. MaxClicks THEN Click(presses) ELSE Start
      BY <2>2, <3>2 DEF StateCounts
    <3>4. CASE presses = 0
      BY <3>1, <3>2, <3>3, <3>4, <1>1, TableDown
    <3>5. CASE presses # 0
      <4>1. m_SwitchState' = IF presses < MaxClicks THEN Down(presses + 1) ELSE Invalid
        BY <3>2, <3>3, <3>5, <1>1, TableDown
      <4> QED  BY <4>1, <3>1, <3>2, <3>5
    <3> QED  BY <3>4, <3>5
  <2> QED  BY <2>1, <2>2
<1> QED  BY <1>2, <1>3, <1>4

\* A debounced release, of a press that is held or not, or of none.
LEMMA ReleaseKeeps ==
  ASSUME GestureInv, HandleLevel("HIGH")
  PROVE  GestureInv'
<1> USE ButtonsAssumption DEF GestureInv, GestureTypes
<1>1. /\ m_SwitchState' = AfterUp(m_SwitchState)
      /\ isDown' = FALSE /\ held' = FALSE
      /\ presses' = IF held THEN 0 ELSE presses
  BY DEF HandleLevel
<1> HIDE DEF Start, Hold, Invalid, Down, Click, AfterUp
<1>2. GestureTypes'
  <2>1. presses' \in Nat /\ presses' <= MaxClicks + 2
    BY <1>1, MaxClicks \in Nat DEF ButtonsAssumption
  <2>2. isDown' \in BOOLEAN /\ held' \in BOOLEAN /\ ~isDown'  BY <1>1
  <2> QED  BY <2>1, <2>2
<1>3. StateFits'
  BY <1>1, TableUp DEF StateFits
<1>4. StateCounts'
  <2> SUFFICES ASSUME presses' <= MaxClicks + 1
               PROVE  m_SwitchState' = IF presses' \in 1 .. MaxClicks
                                       THEN Click(presses') ELSE Start
    BY <1>1 DEF StateCounts
  <2>1. CASE held
    <3>1. m_SwitchState = Hold \/ m_SwitchState = Invalid  BY <2>1 DEF StateFits
    <3>2. presses' = 0  BY <1>1, <2>1
    <3> QED  BY <3>1, <3>2, <1>1, TableUp
  <2>2. CASE ~held
    <3>1. presses' = presses  BY <1>1, <2>2
    <3>2. m_SwitchState = IF presses \in 1 .. MaxClicks
                          THEN IF isDown THEN Down(presses) ELSE Click(presses)
                          ELSE IF isDown THEN Invalid ELSE Start
      BY <2>2, <3>1 DEF StateCounts
    <3>3. CASE presses \in 1 .. MaxClicks
      <4>1. presses \in Nat \ {0}  BY <3>3
      <4> QED  BY <3>1, <3>2, <3>3, <4>1, <1>1, TableUp
    <3>4. CASE presses \notin 1 .. MaxClicks
      BY <3>1, <3>2, <3>4, <1>1, TableUp
    <3> QED  BY <3>3, <3>4
  <2> QED  BY <2>1, <2>2
<1> QED  BY <1>2, <1>3, <1>4

\* A tick ends the gesture if the button is up, and holds it if it is down.
LEMMA TickKeeps ==
  ASSUME GestureInv, HandleTick
  PROVE  GestureInv'
<1> USE ButtonsAssumption DEF GestureInv, GestureTypes
<1>1. /\ m_SwitchState' = AfterTick(m_SwitchState)
      /\ isDown' = isDown /\ held' = isDown
      /\ presses' = IF isDown THEN presses ELSE 0
  BY DEF HandleTick
<1> HIDE DEF Start, Hold, Invalid, Down, Click, AfterTick
<1>2. GestureTypes'
  BY <1>1, MaxClicks \in Nat DEF ButtonsAssumption
<1>3. StateFits'
  BY <1>1, TableTick DEF StateFits
<1>4. StateCounts'
  <2>1. CASE ~isDown
    <3>1. m_SwitchState' = Start  BY <2>1, <1>1, TableTick DEF StateFits
    <3>2. presses' = 0 /\ ~isDown'  BY <2>1, <1>1
    <3> QED  BY <3>1, <3>2 DEF StateCounts
  <2>2. CASE isDown
    <3> SUFFICES ASSUME presses <= MaxClicks + 1
                 PROVE  m_SwitchState' = IF presses = 1 THEN Hold ELSE Invalid
      BY <1>1, <2>2 DEF StateCounts
    <3>1. presses \in Nat \ {0} /\ MaxClicks \in Nat \ {0}
      BY <2>2 DEF ButtonsAssumption
    <3>2. m_SwitchState = IF held THEN IF presses = 1 THEN Hold ELSE Invalid
                          ELSE IF presses \in 1 .. MaxClicks THEN Down(presses)
                          ELSE Invalid
      BY <2>2 DEF StateCounts
    <3>3. CASE held
      BY <3>2, <3>3, <1>1, TableTick
    <3>4. CASE ~held /\ presses \in 1 .. MaxClicks
      BY <3>1, <3>2, <3>4, <1>1, TableTick
    <3>5. CASE ~held /\ presses \notin 1 .. MaxClicks
      <4>1. presses # 1  BY <3>1, <3>5
      <4> QED  BY <4>1, <3>2, <3>5, <1>1, TableTick
    <3> QED  BY <3>3, <3>4, <3>5
  <2> QED  BY <2>1, <2>2
<1> QED  BY <1>2, <1>3, <1>4

\* Whatever does not touch the gesture keeps the invariant.
LEMMA GestureKept ==
  ASSUME GestureInv, UNCHANGED gesture
  PROVE  GestureInv'
BY DEF gesture, GestureInv, GestureTypes, StateFits, StateCounts

\* The output of the table for what was done
LEMMA GestureInvCounts ==
  ASSUME GestureInv
  PROVE  ClicksCounted
<1> USE ButtonsAssumption DEF GestureInv, GestureTypes
<1> HIDE DEF Start, Hold, Invalid, Nothing, Down, Click, TickOutput
<1> SUFFICES ASSUME presses <= MaxClicks + 1
             PROVE  TickOutput(m_SwitchState) =
                      IF isDown THEN (IF presses = 1 THEN Hold ELSE Nothing)
                      ELSE IF presses \in 1 .. MaxClicks THEN Click(presses)
                      ELSE Nothing
  BY DEF ClicksCounted
<1>1. MaxClicks \in Nat \ {0} /\ presses \in Nat  BY DEF ButtonsAssumption
<1>2. CASE ~isDown /\ presses \in 1 .. MaxClicks
  <2>1. m_SwitchState = Click(presses) /\ presses \in Nat \ {0}
    BY <1>1, <1>2 DEF StateCounts
  <2> QED  BY <1>2, <2>1, TableOutput
<1>3. CASE ~isDown /\ presses \notin 1 .. MaxClicks
  <2>1. m_SwitchState = Start  BY <1>3 DEF StateCounts
  <2> QED  BY <1>3, <2>1, TableOutput
<1>4. CASE isDown /\ held
  <2>1. m_SwitchState = IF presses = 1 THEN Hold ELSE Invalid
    BY <1>4 DEF StateCounts
  <2> QED  BY <1>4, <2>1, TableOutput
<1>5. CASE isDown /\ ~held
  <2>1. m_SwitchState = IF presses \in 1 .. MaxClicks THEN Down(presses) ELSE Invalid
    BY <1>5 DEF StateCounts
  <2>2. presses \in Nat \ {0}  BY <1>1, <1>5
  <2>3. CASE presses \in 1 .. MaxClicks
    BY <1>5, <2>1, <2>2, <2>3, TableOutput
  <2>4. CASE presses \notin 1 .. MaxClicks
    <3>1. presses # 1  BY <1>1, <2>4
    <3> QED  BY <1>5, <2>1, <2>4, <3>1, TableOutput
  <2> QED  BY <2>3, <2>4
<1> QED  BY <1>2, <1>3, <1>4, <1>5

\* At the start the button is up and nothing is counted.
LEMMA InitGesture ==
  ASSUME BtnInit
  PROVE  GestureInv /\ LevelOK
<1>1. MaxClicks \in Nat \ {0}  BY ButtonsAssumption DEF ButtonsAssumption
<1>2. /\ m_SwitchState = Start /\ isDown = FALSE /\ presses = 0 /\ held = FALSE
      /\ LevelOK
  BY DEF BtnInit, LevelOK
<1>3. GestureTypes
  <2>1. presses = 0 /\ presses \in Nat /\ presses <= MaxClicks + 2  BY <1>1, <1>2
  <2>2. isDown \in BOOLEAN /\ held \in BOOLEAN /\ ~isDown  BY <1>2
  <2> QED  BY <2>1, <2>2 DEF GestureTypes
<1>4. StateFits /\ StateCounts  BY <1>2 DEF StateFits, StateCounts
<1> QED  BY <1>2, <1>3, <1>4 DEF GestureInv

\* A level that has been debounced, whichever it is
LEMMA LevelKeeps ==
  ASSUME GestureInv, LevelOK, HandleLevel(pinLevel)
  PROVE  GestureInv'
<1>1. CASE pinLevel = "LOW"
  <2>1. HandleLevel("LOW")  BY <1>1
  <2> QED  BY <2>1, PressKeeps
<1>2. CASE pinLevel = "HIGH"
  <2>1. HandleLevel("HIGH")  BY <1>2
  <2> QED  BY <2>1, ReleaseKeeps
<1> QED  BY <1>1, <1>2 DEF LevelOK

-----------------------------------------------------------------------------
(* Both modes                                                               *)

\* Every step in interrupt mode
LEMMA InterruptStepKeeps ==
  ASSUME GestureInv, LevelOK, [BtnNext]_btnVars
  PROVE  GestureInv' /\ LevelOK'
<1>1. CASE Edge
  BY <1>1, GestureKept DEF Edge, LevelOK
<1>2. CASE (\E delay \in OtherDelays : ComputeOther(delay)) \/ StartOther
  BY <1>2, GestureKept DEF ComputeOther, StartOther, LevelOK
<1>3. CASE TimerInterrupt
  BY <1>3, GestureKept DEF TimerInterrupt, LevelOK
<1>4. CASE PollEnds
  BY <1>4, GestureKept DEF PollEnds, LevelOK
<1>5. ASSUME NEW i \in ElementAt(m_KernelTimerList, pElement)
      PROVE  /\ SwitchDebounceHandler(i) => GestureInv' /\ LevelOK'
             /\ SwitchTickHandler(i) => GestureInv' /\ LevelOK'
             /\ OtherElapses(i) => GestureInv' /\ LevelOK'
  <2>1. SwitchDebounceHandler(i) => HandleLevel(pinLevel) /\ pinLevel' = pinLevel
    BY DEF SwitchDebounceHandler, Elapses
  <2>2. SwitchTickHandler(i) => HandleTick /\ pinLevel' = pinLevel
    BY DEF SwitchTickHandler, Elapses
  <2>3. OtherElapses(i) => UNCHANGED gesture /\ pinLevel' = pinLevel
    BY DEF OtherElapses, Elapses
  <2> QED  BY <2>1, <2>2, <2>3, LevelKeeps, TickKeeps, GestureKept DEF LevelOK
<1>6. CASE UNCHANGED btnVars
  BY <1>6, GestureKept DEF btnVars, LevelOK
<1> QED  BY <1>1, <1>2, <1>3, <1>4, <1>5, <1>6 DEF BtnNext

\* Every step in polling mode
LEMMA PolledStepKeeps ==
  ASSUME GestureInv, LevelOK, [PolledNext]_<<btnVars, polledVars>>
  PROVE  GestureInv' /\ LevelOK'
<1>1. CASE ClockTick
  BY <1>1, GestureKept DEF ClockTick, LevelOK
<1>2. CASE PinChanges
  BY <1>2, GestureKept DEF PinChanges, LevelOK
<1>3. CASE UpdateBounces
  BY <1>3, GestureKept DEF UpdateBounces, LevelOK
<1>4. CASE UpdateSettles
  BY <1>4, LevelKeeps DEF UpdateSettles, LevelOK
<1>5. CASE UpdateTicks
  BY <1>5, TickKeeps DEF UpdateTicks, LevelOK
<1>6. CASE UNCHANGED <<btnVars, polledVars>>
  BY <1>6, GestureKept DEF btnVars, LevelOK
<1> QED  BY <1>1, <1>2, <1>3, <1>4, <1>5, <1>6 DEF PolledNext

\* In interrupt mode, whatever order edges, debouncing and ticks come in, what
\* a tick reports is what was done (the click table of addon/sensor/buttons.cpp).
THEOREM InterruptClicksCounted == BtnSpec => []ClicksCounted
<1>1. BtnInit => GestureInv /\ LevelOK  BY InitGesture
<1>2. GestureInv /\ LevelOK /\ [BtnNext]_btnVars => (GestureInv /\ LevelOK)'
  BY InterruptStepKeeps
<1>3. GestureInv => ClicksCounted  BY GestureInvCounts
<1> QED  BY <1>1, <1>2, <1>3, PTL DEF BtnSpec

\* And in polling mode, however seldom Update() is called.
THEOREM PolledClicksCounted == PolledSpec => []ClicksCounted
<1>1. BtnInit /\ PolledInit => GestureInv /\ LevelOK  BY InitGesture
<1>2. GestureInv /\ LevelOK /\ [PolledNext]_<<btnVars, polledVars>>
        => (GestureInv /\ LevelOK)'
  BY PolledStepKeeps
<1>3. GestureInv => ClicksCounted  BY GestureInvCounts
<1> QED  BY <1>1, <1>2, <1>3, PTL DEF PolledSpec

=============================================================================
