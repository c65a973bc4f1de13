---------------------------- MODULE KernelTimer ----------------------------
(***************************************************************************)
(* The kernel timers of CTimer (lib/timer.cpp), kept in a list of pointers  *)
(* (lib/ptrlist.cpp) whose elements and timers come from one bucket of the  *)
(* heap (lib/heapallocator.cpp), both being of at most 64 bytes.            *)
(*                                                                         *)
(* The operators work on a record: the list in its order, the free list of *)
(* the bucket, and the number of blocks ever cut from the heap.  Addresses  *)
(* matter, because PollKernelTimers() holds one across a handler and users  *)
(* hold them as handles.                                                    *)
(***************************************************************************)
EXTENDS Integers, SequencesExt

CONSTANT TickWrap      \* the tick counter counts modulo this, 2^32 in the code

ASSUME TickAssumption == TickWrap \in Nat \ {0}

NoTimers == [list |-> <<>>, free |-> <<>>, top |-> 0]

\* CHeapAllocator::Allocate: the block it returns, and what it leaves
NewBlock(k) == IF k.free = <<>> THEN k.top + 1 ELSE Head(k.free)
TakeBlock(k) == IF k.free = <<>> THEN [k EXCEPT !.top = @ + 1]
                                 ELSE [k EXCEPT !.free = Tail(@)]

\* Mutant: the block freed first is reused first.
FreeBlock_Fifo(k, block) == [k EXCEPT !.free = Append(@, block)]

\* CHeapAllocator::Free: the block freed last is reused first.
FreeBlock(k, block) == [k EXCEPT !.free = <<block>> \o @]

\* Mutant: expiry times are compared as plain numbers.
Later_Unsigned(a, b) == a > b

\* (int) (a - b) > 0, in the width of the counter
Later(a, b) == (a - b) % TickWrap \in 1 .. TickWrap \div 2 - 1

\* CTimer::StartKernelTimer from where it has the lock: the timer goes behind
\* every timer that does not elapse later.
InsertTimer(k, pTimer, nElapsesAt, handler) ==
  LET later == {i \in DOMAIN k.list : Later(k.list[i].nElapsesAt, nElapsesAt)}
      place == IF later = {} THEN Len(k.list) + 1 ELSE Min(later)
  IN  [TakeBlock(k) EXCEPT
         !.list = InsertAt(@, place, [pTimer |-> pTimer,
                                      pElement |-> NewBlock(k),
                                      nElapsesAt |-> nElapsesAt,
                                      handler |-> handler])]

\* CTimer::StartKernelTimer as a whole, where no interrupt can come into it: in
\* an interrupt handler or under a lock.  The handle it returns is NewBlock(k).
StartKernelTimer(k, nElapsesAt, handler) ==
  InsertTimer(TakeBlock(k), NewBlock(k), nElapsesAt, handler)

\* CPtrList::Remove of the element at place i; the timer is still there.
RemoveElement(k, i) ==
  FreeBlock([k EXCEPT !.list = RemoveAt(@, i)], k.list[i].pElement)

\* CTimer::CancelKernelTimer: by address; a timer that is not found is left.
CancelKernelTimer(k, hTimer) ==
  LET found == {i \in DOMAIN k.list : k.list[i].pTimer = hTimer}
  IN  IF found = {} THEN k
      ELSE FreeBlock(RemoveElement(k, Min(found)), hTimer)

\* CPtrList::GetFirst and GetNext, 0 at the end of the list
FirstElement(k) == IF k.list = <<>> THEN 0 ELSE k.list[1].pElement
NextElement(k, i) == IF i = Len(k.list) THEN 0 ELSE k.list[i + 1].pElement

\* Where the element at this address is in the list, if it is one
ElementAt(k, pElement) == {i \in DOMAIN k.list : k.list[i].pElement = pElement}

=============================================================================
