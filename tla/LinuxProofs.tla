----------------------------- MODULE LinuxProofs -----------------------------
(***************************************************************************)
(* Proofs about the Linux driver emulation.  Its read-write lock: what holds *)
(* for any number of readers and writers, and what holds as long as there is *)
(* a single writer.  Its timers and completions, for any number of timers,   *)
(* delays and timeouts below half a turn of jiffies, and any width of it: no *)
(* timer fires early and no wait ends early, whatever the order of the list, *)
(* and del_timer() knows what is on it.                                      *)
(***************************************************************************)
EXTENDS RwLock, LinuxTime, FiniteSetTheorems, ListLemmas

-----------------------------------------------------------------------------
(* The read-write lock                                                      *)

Word == 0 .. 2 * WRITE_LOCK - 1

\* What setting and clearing the bit, counting up and counting down do to a
\* word: neither touches what the other is about.
LEMMA Bits ==
  ASSUME NEW l \in Word
  PROVE  /\ WithBit(l) \in Word /\ WithBit(l) >= WRITE_LOCK
         /\ WithoutBit(l) \in Word /\ WithoutBit(l) < WRITE_LOCK
         /\ WithoutBit(WithBit(l)) = WithoutBit(l)
         /\ WithoutBit(WithoutBit(l)) = WithoutBit(l)
         /\ WithoutBit(l) + 1 < WRITE_LOCK =>
              /\ l + 1 \in Word /\ WithoutBit(l + 1) = WithoutBit(l) + 1
              /\ l + 1 >= WRITE_LOCK <=> l >= WRITE_LOCK
         /\ WithoutBit(l) > 0 =>
              /\ l - 1 \in Word /\ WithoutBit(l - 1) = WithoutBit(l) - 1
              /\ l - 1 >= WRITE_LOCK <=> l >= WRITE_LOCK
<1>1. WRITE_LOCK \in Nat
  BY RwLockAssumption
<1>2. l \in Nat /\ l < 2 * WRITE_LOCK
  BY <1>1 DEF Word
<1> QED
  BY <1>1, <1>2 DEF Word, WithBit, WithoutBit

\* Any set of readers can be counted, and there are fewer than WRITE_LOCK.
LEMMA ReadersFinite ==
  ASSUME NEW S \in SUBSET Reader
  PROVE  /\ IsFiniteSet(S) /\ Cardinality(S) \in Nat
         /\ Cardinality(S) < WRITE_LOCK
<1>1. IsFiniteSet(Reader) /\ Cardinality(Reader) < WRITE_LOCK /\ WRITE_LOCK \in Nat
  BY RwLockAssumption
<1>2. Cardinality(Reader) \in Nat
  BY <1>1, FS_CardinalityType
<1>3. IsFiniteSet(S) /\ Cardinality(S) <= Cardinality(Reader)
  BY <1>1, FS_Subset
<1>4. Cardinality(S) \in Nat
  BY <1>3, FS_CardinalityType
<1> QED
  BY <1>1, <1>2, <1>3, <1>4

-----------------------------------------------------------------------------
(* Any number of writers                                                    *)

\* The lower bits of the word hold the number of readers, waiting ones
\* included, whatever the writers do to the bit above them.
ReadersCounted == WithoutBit(lock) = Cardinality(Readers)

\* A reader that enters read_lock_bh is one more ...
LEMMA OneMore ==
  ASSUME RwTypeOK, ReadersCounted, NEW t \in Reader, read_lock_bh(t)
  PROVE  /\ WithoutBit(lock) + 1 < WRITE_LOCK
         /\ Cardinality(Readers') = WithoutBit(lock) + 1
<1>1. Readers \in SUBSET Reader /\ t \notin Readers
  BY DEF Readers, read_lock_bh
<1>2. PICK place \in {"reader waits", "reads"} : Go(t, place)
  BY DEF read_lock_bh
<1>3. Readers' = Readers \cup {t}
  BY <1>2 DEF Readers, Go, RwTypeOK, RwTask
<1>4. Cardinality(Readers') = Cardinality(Readers) + 1
  BY <1>1, <1>3, ReadersFinite, FS_AddElement
<1>5. Readers' \in SUBSET Reader
  BY DEF Readers
<1>6. Cardinality(Readers') < WRITE_LOCK
  BY <1>5, ReadersFinite
<1> QED
  BY <1>4, <1>6 DEF ReadersCounted

\* ... and one that calls read_unlock_bh is one less.
LEMMA OneLess ==
  ASSUME RwTypeOK, ReadersCounted, NEW t \in Reader, read_unlock_bh(t)
  PROVE  /\ WithoutBit(lock) > 0
         /\ Cardinality(Readers') = WithoutBit(lock) - 1
<1>1. Readers \in SUBSET Reader /\ t \in Readers
  BY DEF Readers, read_unlock_bh
<1>2. Go(t, "out")
  BY DEF read_unlock_bh
<1>3. Readers' = Readers \ {t}
  BY <1>2 DEF Readers, Go, RwTypeOK, RwTask
<1>4. Cardinality(Readers') = Cardinality(Readers) - 1
  BY <1>1, <1>3, ReadersFinite, FS_RemoveElement
<1>5. Cardinality(Readers) # 0 /\ Cardinality(Readers) \in Nat
  BY <1>1, ReadersFinite, FS_EmptySet
<1> QED
  BY <1>4, <1>5 DEF ReadersCounted

\* At the start nobody is in the lock.
LEMMA InitCounted == RwInit => RwTypeOK /\ ReadersCounted
<1> SUFFICES ASSUME RwInit PROVE RwTypeOK /\ ReadersCounted
  OBVIOUS
<1>1. Readers = {} /\ lock = 0
  BY DEF RwInit, Readers, RwTask
<1>2. Cardinality(Readers) = 0
  BY <1>1, FS_EmptySet
<1>3. WRITE_LOCK \in Nat /\ WRITE_LOCK > 0
  BY <1>1, <1>2, ReadersFinite, RwLockAssumption
<1>4. 0 \in 0 .. 2 * WRITE_LOCK - 1 /\ WithoutBit(0) = 0
  BY <1>3 DEF WithoutBit
<1> QED
  BY <1>1, <1>2, <1>4 DEF RwInit, RwTypeOK, ReadersCounted, RwTask

\* No step of a reader or a writer, whoever else is there, spoils it.
LEMMA NextCounted ==
  RwTypeOK /\ ReadersCounted /\ [RwNext]_rwVars => RwTypeOK' /\ ReadersCounted'
<1> SUFFICES ASSUME RwTypeOK, ReadersCounted, [RwNext]_rwVars
             PROVE  RwTypeOK' /\ ReadersCounted'
  OBVIOUS
<1>0. lock \in Word /\ Reader \cap Writer = {}
  BY RwLockAssumption DEF RwTypeOK, Word
<1>1. ASSUME NEW t \in Reader, read_lock_bh(t)
      PROVE  RwTypeOK' /\ ReadersCounted'
  <2>1. lock' = lock + 1
    BY <1>1 DEF read_lock_bh
  <2>2. lock' \in Word /\ ReadersCounted'
    BY <1>0, <1>1, <2>1, OneMore, Bits DEF ReadersCounted
  <2>3. PICK place \in {"reader waits", "reads"} : Go(t, place)
    BY <1>1 DEF read_lock_bh
  <2> QED
    BY <1>0, <2>2, <2>3 DEF RwTypeOK, Word, Go, RwTask
<1>2. ASSUME NEW t \in Reader, read_lock_retry(t)
      PROVE  RwTypeOK' /\ ReadersCounted'
  <2>1. lock' = lock /\ Go(t, "reads") /\ at[t] = "reader waits"
    BY <1>2 DEF read_lock_retry
  <2>2. Readers' = Readers
    BY <2>1 DEF Readers, Go, RwTypeOK, RwTask
  <2> QED
    BY <1>0, <2>1, <2>2 DEF RwTypeOK, ReadersCounted, Go, RwTask
<1>3. ASSUME NEW t \in Reader, read_unlock_bh(t)
      PROVE  RwTypeOK' /\ ReadersCounted'
  <2>1. lock' = lock - 1 /\ Go(t, "out")
    BY <1>3 DEF read_unlock_bh
  <2>2. lock' \in Word /\ ReadersCounted'
    BY <1>0, <1>3, <2>1, OneLess, Bits DEF ReadersCounted
  <2> QED
    BY <1>0, <2>1, <2>2 DEF RwTypeOK, Word, Go, RwTask
<1>4. ASSUME NEW t \in Writer, NEW place \in {"writer waits", "writes", "out"},
             Go(t, place), lock' \in {lock, WithBit(lock), WithoutBit(lock)}
      PROVE  RwTypeOK' /\ ReadersCounted'
  <2>1. Readers' = Readers
    BY <1>0, <1>4 DEF Readers, Go, RwTypeOK, RwTask
  <2>2. lock' \in Word /\ WithoutBit(lock') = WithoutBit(lock)
    BY <1>0, <1>4, Bits
  <2> QED
    BY <1>0, <1>4, <2>1, <2>2 DEF RwTypeOK, ReadersCounted, Word, Go, RwTask
<1>5. ASSUME NEW t \in Writer, write_lock_bh(t)
      PROVE  RwTypeOK' /\ ReadersCounted'
  BY <1>4, <1>5 DEF write_lock_bh
<1>6. ASSUME NEW t \in Writer, write_lock_retry(t)
      PROVE  RwTypeOK' /\ ReadersCounted'
  BY <1>4, <1>6 DEF write_lock_retry
<1>7. ASSUME NEW t \in Writer, write_unlock_bh(t)
      PROVE  RwTypeOK' /\ ReadersCounted'
  BY <1>4, <1>7 DEF write_unlock_bh
<1>8. CASE UNCHANGED rwVars
  BY <1>8 DEF RwTypeOK, ReadersCounted, Readers, rwVars
<1> QED
  BY <1>1, <1>2, <1>3, <1>5, <1>6, <1>7, <1>8 DEF RwNext, Polls

\* For any number of readers and writers: the word never over- or underflows
\* and its lower bits are the number of readers that asked for the lock
\* (the ++, --, |= and &= of rwlock.cpp).
THEOREM ReadersAlwaysCounted == RwSpec => [](RwTypeOK /\ ReadersCounted)
BY InitCounted, NextCounted, PTL DEF RwSpec

-----------------------------------------------------------------------------
(* A single writer                                                          *)

OneWriter == \A t, u \in Writer : t = u

\* The bit says whether the writer is there, and while he writes nobody reads.
OneWriterInv ==
  /\ lock >= WRITE_LOCK <=> WriterWants
  /\ \A t \in Writer : at[t] = "writes" => \A r \in Reader : at[r] # "reads"

\* The lock starts free.
LEMMA InitOneWriter == RwInit => OneWriterInv
<1> SUFFICES ASSUME RwInit PROVE OneWriterInv
  OBVIOUS
<1>1. WRITE_LOCK \in Nat /\ WRITE_LOCK > 0
  BY ReadersFinite, RwLockAssumption
<1>2. lock = 0 /\ \A t \in Writer : at[t] = "out"
  BY DEF RwInit, RwTask
<1>3. ~ (lock >= WRITE_LOCK)
  BY <1>1, <1>2
<1> QED
  BY <1>2, <1>3 DEF OneWriterInv, WriterWants

\* A step of the writer or of a reader keeps the two apart.
LEMMA NextOneWriter ==
  ASSUME OneWriter
  PROVE  RwTypeOK /\ ReadersCounted /\ OneWriterInv /\ [RwNext]_rwVars => OneWriterInv'
<1> SUFFICES ASSUME RwTypeOK, ReadersCounted, OneWriterInv, [RwNext]_rwVars
             PROVE  OneWriterInv'
  OBVIOUS
<1>0. lock \in Word /\ Reader \cap Writer = {} /\ WRITE_LOCK \in Nat /\ lock \in Nat
  <2>1. WRITE_LOCK \in Nat /\ Reader \cap Writer = {} /\ lock \in Word
    BY RwLockAssumption DEF RwTypeOK, Word
  <2>2. lock \in Nat
    BY <2>1 DEF Word
  <2> QED
    BY <2>1, <2>2
<1>a. ASSUME WithoutBit(lock) = 0
      PROVE  \A r \in Reader : at[r] = "out"
  <2>1. Readers \in SUBSET Reader
    BY DEF Readers
  <2>2. Readers = {}
    BY <1>a, <2>1, ReadersFinite, FS_EmptySet DEF ReadersCounted
  <2> QED
    BY <2>2 DEF Readers
<1>1. ASSUME NEW t \in Reader, read_lock_bh(t)
      PROVE  OneWriterInv'
  <2>1. lock' = lock + 1 /\ Go(t, IF lock' >= WRITE_LOCK THEN "reader waits" ELSE "reads")
    BY <1>1 DEF read_lock_bh
  <2>2. lock' >= WRITE_LOCK <=> lock >= WRITE_LOCK
    BY <1>0, <1>1, <2>1, OneMore, Bits
  <2>3. \A w \in Writer : at'[w] = at[w]
    BY <1>0, <2>1 DEF Go, RwTypeOK, RwTask
  <2>4. WriterWants' <=> WriterWants
    BY <2>3 DEF WriterWants
  <2>5. ASSUME NEW w \in Writer, at[w] = "writes"
        PROVE  \A r \in Reader : at'[r] # "reads"
    <3>1. lock' >= WRITE_LOCK /\ \A r \in Reader : at[r] # "reads"
      BY <2>2, <2>5 DEF OneWriterInv, WriterWants
    <3>2. Go(t, "reader waits")
      BY <2>1, <3>1
    <3> QED
      BY <3>1, <3>2 DEF Go, RwTypeOK, RwTask
  <2> QED
    BY <2>2, <2>3, <2>4, <2>5 DEF OneWriterInv
<1>2. ASSUME NEW t \in Reader, read_lock_retry(t)
      PROVE  OneWriterInv'
  <2>1. lock < WRITE_LOCK /\ lock' = lock /\ Go(t, "reads")
    BY <1>2 DEF read_lock_retry
  <2>2. ~ (lock >= WRITE_LOCK)
    BY <1>0, <2>1
  <2>3. \A w \in Writer : at[w] = "out" /\ at'[w] = "out"
    BY <1>0, <2>1, <2>2 DEF OneWriterInv, WriterWants, Go, RwTypeOK, RwTask
  <2> QED
    BY <2>1, <2>2, <2>3 DEF OneWriterInv, WriterWants
<1>3. ASSUME NEW t \in Reader, read_unlock_bh(t)
      PROVE  OneWriterInv'
  <2>1. lock' = lock - 1 /\ Go(t, "out")
    BY <1>3 DEF read_unlock_bh
  <2>2. lock' >= WRITE_LOCK <=> lock >= WRITE_LOCK
    BY <1>0, <1>3, <2>1, OneLess, Bits
  <2>3. /\ \A w \in Writer : at'[w] = at[w]
        /\ \A r \in Reader : at'[r] = "reads" => at[r] = "reads"
    BY <1>0, <2>1 DEF Go, RwTypeOK, RwTask
  <2> QED
    BY <2>2, <2>3 DEF OneWriterInv, WriterWants
<1>4. ASSUME NEW t \in Writer, write_lock_bh(t)
      PROVE  OneWriterInv'
  <2>1. /\ lock' = WithBit(lock)
        /\ Go(t, IF WithoutBit(lock) # 0 THEN "writer waits" ELSE "writes")
    BY <1>4 DEF write_lock_bh
  <2>2. lock' >= WRITE_LOCK
    BY <1>0, <2>1, Bits
  <2>3. at'[t] # "out" /\ \A r \in Reader : at'[r] = at[r]
    BY <1>0, <2>1 DEF Go, RwTypeOK, RwTask
  <2>4. at'[t] = "writes" => WithoutBit(lock) = 0
    BY <2>1 DEF Go, RwTypeOK, RwTask
  <2>5. WriterWants'
    BY <2>3 DEF WriterWants
  <2>6. ASSUME NEW w \in Writer, at'[w] = "writes", NEW r \in Reader
        PROVE  at'[r] # "reads"
    BY <1>a, <2>3, <2>4, <2>6, OneWriter DEF OneWriter
  <2> QED
    BY <2>2, <2>5, <2>6 DEF OneWriterInv
<1>5. ASSUME NEW t \in Writer, write_lock_retry(t)
      PROVE  OneWriterInv'
  <2>1. /\ lock' = lock /\ WithoutBit(lock) = 0
        /\ at[t] = "writer waits" /\ Go(t, "writes")
    BY <1>5 DEF write_lock_retry
  <2>2. /\ at'[t] # "out" /\ at[t] # "out"
        /\ \A r \in Reader : at'[r] = at[r]
    BY <1>0, <2>1 DEF Go, RwTypeOK, RwTask
  <2> QED
    BY <1>a, <2>1, <2>2 DEF OneWriterInv, WriterWants
<1>6. ASSUME NEW t \in Writer, write_unlock_bh(t)
      PROVE  OneWriterInv'
  <2>1. lock' = WithoutBit(lock) /\ Go(t, "out")
    BY <1>6 DEF write_unlock_bh
  <2>2. \A w \in Writer : at'[w] = "out"
    BY <2>1, OneWriter DEF OneWriter, Go, RwTypeOK, RwTask
  <2>3. lock' < WRITE_LOCK /\ lock' \in Word
    BY <1>0, <2>1, Bits
  <2>4. ~ (lock' >= WRITE_LOCK)
    BY <1>0, <2>3 DEF Word
  <2> QED
    BY <2>2, <2>4 DEF OneWriterInv, WriterWants
<1>7. CASE UNCHANGED rwVars
  BY <1>7 DEF OneWriterInv, WriterWants, rwVars
<1> QED
  BY <1>1, <1>2, <1>3, <1>4, <1>5, <1>6, <1>7 DEF RwNext, Polls

\* With one writer the lock keeps all that together, from start to end.
LEMMA OneWriterAlways ==
  ASSUME OneWriter
  PROVE  RwSpec => [](RwTypeOK /\ ReadersCounted /\ OneWriterInv)
<1>1. RwInit => RwTypeOK /\ ReadersCounted /\ OneWriterInv
  BY InitCounted, InitOneWriter
<1>2. RwTypeOK /\ ReadersCounted /\ OneWriterInv /\ [RwNext]_rwVars
        => (RwTypeOK /\ ReadersCounted /\ OneWriterInv)'
  BY NextCounted, NextOneWriter, OneWriter
<1> QED
  BY <1>1, <1>2, PTL DEF RwSpec

\* With a single writer the word says exactly who is there (WRITE_LOCK and
\* the count of readers in read_lock_bh and write_lock_bh).
THEOREM OneWriterWord ==
  ASSUME OneWriter
  PROVE  RwSpec => []WordOK
<1>1. RwTypeOK /\ ReadersCounted /\ OneWriterInv => WordOK
  <2> SUFFICES ASSUME RwTypeOK, ReadersCounted, OneWriterInv PROVE WordOK
    OBVIOUS
  <2>1. lock \in Nat /\ WRITE_LOCK \in Nat
    <3>1. WRITE_LOCK \in Nat /\ lock \in Word
      BY RwLockAssumption DEF RwTypeOK, Word
    <3> QED
      BY <3>1 DEF Word
  <2>2. Readers \in SUBSET Reader
    BY DEF Readers
  <2>3. Cardinality(Readers) \in Nat
    BY <2>2, ReadersFinite
  <2>4. CASE WriterWants
    BY <2>1, <2>3, <2>4 DEF ReadersCounted, OneWriterInv, WordOK, WithoutBit
  <2>5. CASE ~WriterWants
    BY <2>1, <2>3, <2>5 DEF ReadersCounted, OneWriterInv, WordOK, WithoutBit
  <2> QED
    BY <2>4, <2>5
<1> QED
  BY <1>1, OneWriterAlways, OneWriter, PTL

\* With a single writer the lock excludes: while he writes, nobody else reads
\* or writes (read_lock_bh, write_lock_bh), for any number of readers.
THEOREM OneWriterExcludes ==
  ASSUME OneWriter
  PROVE  RwSpec => []Exclusion
<1>1. RwTypeOK /\ OneWriterInv => Exclusion
  BY OneWriter DEF OneWriter, RwTypeOK, OneWriterInv, Exclusion, RwTask
<1> QED
  BY <1>1, OneWriterAlways, OneWriter, PTL

-----------------------------------------------------------------------------
(* Timers and completions                                                   *)

Jiffies == 0 .. JiffyWrap - 1
Entry == [timer : LinuxTimer, expires : Jiffies, left : Int]

\* A timer that is still to come expires less than half a turn from now.
OnClock(e, now) ==
  e.left > 0 => e.left < JiffyWrap \div 2 /\ e.expires = (now + e.left) % JiffyWrap

\* A list of these timers, each once
Lists(list, set) ==
  /\ list \in Seq(Entry)
  /\ {list[i].timer : i \in DOMAIN list} = set
  /\ \A i, j \in DOMAIN list : list[i].timer = list[j].timer => i = j

AllOnClock(list, now) == \A i \in DOMAIN list : OnClock(list[i], now)

WaitOnClock ==
  waiting =>
    /\ start \in Jiffies /\ timeout \in 1 .. JiffyWrap \div 2 - 1 /\ waitLeft \in Nat
    /\ waitLeft # 0 => ((jiffies - start) % JiffyWrap) + waitLeft = timeout

\* What a task in a call holds: a timer that is not on the list, or one that it
\* has just taken off, or what it has read of a count.
CallOK ==
  /\ call.op = "add" => /\ call.entry \in Entry /\ OnClock(call.entry, jiffies)
                        /\ call.entry.timer \notin linked
  /\ call.op \in {"cancel", "reset"} => call.timer \in linked
  /\ call.op = "reset" => call.delay \in LinuxDelays
  /\ call.op \in {"count", "take"} => call.count \in Nat
  /\ call.op = "take" => call.count > 0
  /\ call.op = "test" /\ done # 0 => call.raced

LinuxInv ==
  /\ jiffies \in Jiffies /\ done \in Nat /\ linked \subseteq LinuxTimer
  /\ Lists(timer_list, linked \ Unlinking) /\ AllOnClock(timer_list, jiffies)
  /\ CallOK
  /\ WaitOnClock

-----------------------------------------------------------------------------
(* Jiffies                                                                  *)

LEMMA Turns ==
  ASSUME NEW n \in 0 .. 2 * JiffyWrap - 1
  PROVE  n % JiffyWrap = IF n < JiffyWrap THEN n ELSE n - JiffyWrap
<1>1. JiffyWrap \in Nat \ {0}
  BY LinuxTimeAssumption
<1> QED
  BY <1>1

\* What is less than half a turn ahead has not expired ...
LEMMA Ahead ==
  ASSUME NEW now \in Jiffies, NEW d \in 1 .. JiffyWrap \div 2 - 1
  PROVE  /\ (now + d) % JiffyWrap \in Jiffies
         /\ ~TimerExpired((now + d) % JiffyWrap, now)
<1>1. JiffyWrap \in Nat \ {0} /\ d < JiffyWrap /\ d < JiffyWrap \div 2
  BY LinuxTimeAssumption
<1>2. now \in 0 .. JiffyWrap - 1
  BY DEF Jiffies
<1> DEFINE later == (now + d) % JiffyWrap
<1>3. (later - now) % JiffyWrap = d /\ later # now /\ later \in 0 .. JiffyWrap - 1
  <2>1. CASE now + d < JiffyWrap
    <3>1. later = now + d
      BY <1>1, <1>2, <2>1, Turns
    <3> HIDE DEF later
    <3>2. later - now = d /\ d \in 0 .. 2 * JiffyWrap - 1
      BY <1>1, <1>2, <3>1
    <3> QED
      BY <1>1, <1>2, <2>1, <3>1, <3>2, Turns
  <2>2. CASE now + d >= JiffyWrap
    <3>1. later = now + d - JiffyWrap
      BY <1>1, <1>2, <2>2, Turns
    <3> HIDE DEF later
    <3>2. later - now = d - JiffyWrap /\ (d - JiffyWrap) % JiffyWrap = d
      BY <1>1, <1>2, <3>1
    <3> QED
      BY <1>1, <1>2, <2>2, <3>1, <3>2
  <2> QED
    BY <1>1, <1>2, <2>1, <2>2
<1> HIDE DEF later
<1>4. ~(d >= JiffyWrap \div 2)
  BY <1>1
<1> QED
  BY <1>3, <1>4 DEF TimerExpired, Before, Jiffies, later

\* ... and stays where it is when a jiffy passes.
LEMMA Stays ==
  ASSUME NEW now \in Jiffies, NEW d \in 1 .. JiffyWrap \div 2 - 1
  PROVE  (((now + 1) % JiffyWrap) + (d - 1)) % JiffyWrap = (now + d) % JiffyWrap
<1>1. JiffyWrap \in Nat \ {0} /\ d < JiffyWrap
  BY LinuxTimeAssumption
<1>2. now \in 0 .. JiffyWrap - 1
  BY DEF Jiffies
<1>3. CASE now + 1 < JiffyWrap
  <2>1. (now + 1) % JiffyWrap = now + 1
    BY <1>1, <1>2, <1>3, Turns
  <2> QED
    BY <1>1, <1>2, <2>1
<1>4. CASE now + 1 = JiffyWrap
  <2>1. (now + 1) % JiffyWrap = 0
    BY <1>1, <1>4, Turns
  <2>2. (d - 1) % JiffyWrap = d - 1 /\ (now + d) % JiffyWrap = d - 1
    BY <1>1, <1>2, <1>4, Turns
  <2> QED
    BY <1>1, <2>1, <2>2
<1> QED
  BY <1>1, <1>2, <1>3, <1>4

\* The time since the start of a wait grows by one, until it is a whole turn.
LEMMA Elapses ==
  ASSUME NEW now \in Jiffies, NEW s \in Jiffies,
         ((now - s) % JiffyWrap) + 1 < JiffyWrap
  PROVE  (((now + 1) % JiffyWrap) - s) % JiffyWrap = ((now - s) % JiffyWrap) + 1
<1>1. JiffyWrap \in Nat \ {0} /\ now \in 0 .. JiffyWrap - 1 /\ s \in 0 .. JiffyWrap - 1
  BY LinuxTimeAssumption DEF Jiffies
<1>2. CASE now >= s
  <2>1. (now - s) % JiffyWrap = now - s
    BY <1>1, <1>2, Turns
  <2>2. CASE now + 1 < JiffyWrap
    <3>1. (now + 1) % JiffyWrap = now + 1
      BY <1>1, <2>2, Turns
    <3>2. (now + 1 - s) % JiffyWrap = now + 1 - s
      BY <1>1, <1>2, <2>1, <2>2, Turns
    <3> QED
      BY <1>1, <2>1, <3>1, <3>2
  <2>3. CASE now + 1 = JiffyWrap
    <3>1. (now + 1) % JiffyWrap = 0
      BY <1>1, <2>3, Turns
    <3>2. s > 0 /\ (0 - s) % JiffyWrap = JiffyWrap - s
      BY <1>1, <2>1, <2>3
    <3> QED
      BY <1>1, <2>1, <2>3, <3>1, <3>2
  <2> QED
    BY <1>1, <2>2, <2>3
<1>3. CASE now < s
  <2>1. (now - s) % JiffyWrap = now - s + JiffyWrap
    BY <1>1, <1>3
  <2>2. (now + 1) % JiffyWrap = now + 1
    BY <1>1, <1>3, Turns
  <2>3. now + 1 < s
    BY <1>1, <1>3, <2>1
  <2>4. (now + 1 - s) % JiffyWrap = now + 1 - s + JiffyWrap
    BY <1>1, <2>3
  <2> QED
    BY <1>1, <2>1, <2>2, <2>4
<1> QED
  BY <1>1, <1>2, <1>3

-----------------------------------------------------------------------------
(* The list                                                                 *)

\* What a timer says is on the clock when it is computed.
LEMMA TimedOK ==
  ASSUME jiffies \in Jiffies, NEW t \in LinuxTimer, NEW delay \in LinuxDelays
  PROVE  /\ Timed(t, delay) \in Entry /\ Timed(t, delay).timer = t
         /\ OnClock(Timed(t, delay), jiffies)
<1> DEFINE e == [timer |-> t, expires |-> (jiffies + delay) % JiffyWrap, left |-> delay]
<1>1. delay \in 1 .. JiffyWrap \div 2 - 1 /\ JiffyWrap \in Nat
  BY LinuxTimeAssumption
<1>2. e.expires \in Jiffies /\ e.left \in Int
  BY <1>1, Ahead
<1>3. e.left < JiffyWrap \div 2
  BY <1>1
<1> QED
  BY <1>2, <1>3 DEF Entry, OnClock, Timed

\* A timer that is not on the list is added.
LEMMA AddedListed ==
  ASSUME NEW list, NEW set, Lists(list, set), AllOnClock(list, jiffies),
         NEW e \in Entry, OnClock(e, jiffies), e.timer \notin set
  PROVE  /\ Lists(Added(list, e), set \cup {e.timer})
         /\ AllOnClock(Added(list, e), jiffies)
<1> DEFINE t == e.timer
           p == PlaceFor(list, e.expires)
           longer == Added(list, e)
<1>1. /\ list \in Seq(Entry) /\ Len(list) \in Nat /\ DOMAIN list = 1 .. Len(list)
      /\ \A i \in DOMAIN list : list[i] \in Entry
  BY LenProperties, ElementOfSeq DEF Lists
<1>3. e \in Entry /\ OnClock(e, jiffies)
  OBVIOUS
<1>4. p \in 1 .. Len(list) + 1
  <2> DEFINE earlier == {i \in DOMAIN list : Before(list[i].expires, e.expires)}
  <2>1. CASE earlier = {}
    BY <1>1, <2>1 DEF PlaceFor
  <2>2. CASE earlier # {}
    <3>1. Min(earlier) \in earlier
      <4>1. earlier \subseteq Nat
        BY <1>1
      <4> HIDE DEF earlier
      <4> QED
        BY <2>2, <4>1, FirstFound
    <3>2. p = Min(earlier) + 1
      BY <2>2 DEF PlaceFor
    <3> QED
      BY <1>1, <3>1, <3>2
  <2> QED
    BY <2>1, <2>2
<1>5. longer = InsertAt(list, p, e)
  BY DEF Added
<1> HIDE DEF p, longer
<1>6. e.timer = t
  OBVIOUS
<1>6a. t \notin set
  OBVIOUS
<1> HIDE DEF t
<1>7. /\ longer \in Seq(Entry) /\ DOMAIN longer = 1 .. Len(list) + 1
      /\ \A i \in 1 .. Len(list) + 1 :
           longer[i] = IF i < p THEN list[i] ELSE IF i = p THEN e ELSE list[i - 1]
  <2>1. list \in Seq(Entry) /\ e \in Entry /\ p \in 1 .. Len(list) + 1
    BY <1>1, <1>3, <1>4
  <2>2. /\ InsertAt(list, p, e) \in Seq(Entry)
        /\ DOMAIN InsertAt(list, p, e) = 1 .. Len(list) + 1
        /\ \A i \in 1 .. Len(list) + 1 :
             InsertAt(list, p, e)[i] = IF i < p THEN list[i]
                                       ELSE IF i = p THEN e ELSE list[i - 1]
    BY <2>1, Inserts
  <2> QED
    BY <1>5, <2>2
<1>8. \A i \in DOMAIN list : longer[IF i < p THEN i ELSE i + 1] = list[i]
  BY <1>1, <1>4, <1>7
<1>9. longer[p] = e
  BY <1>4, <1>7
<1>9a. ASSUME NEW i \in DOMAIN longer
       PROVE  longer[i] = e \/ \E k \in DOMAIN list : longer[i] = list[k]
  <2>1. i = p \/ (i < p /\ i \in DOMAIN list) \/ (i > p /\ i - 1 \in DOMAIN list)
    BY <1>1, <1>4, <1>7
  <2>2. longer[i] = IF i < p THEN list[i] ELSE IF i = p THEN e ELSE list[i - 1]
    BY <1>7
  <2>3. p \in Int /\ i \in Int
    BY <1>4, <1>7
  <2> QED
    BY <2>1, <2>2, <2>3
<1>10. {longer[i].timer : i \in DOMAIN longer} = set \cup {t}
  <2>1. \A i \in DOMAIN longer : longer[i].timer \in set \cup {t}
    <3>1. \A i \in DOMAIN longer : i = p \/ i \in DOMAIN list \/ i - 1 \in DOMAIN list
      BY <1>1, <1>4, <1>7
    <3>2. \A i \in DOMAIN longer :
            longer[i] = e \/ \E k \in DOMAIN list : longer[i] = list[k]
      BY <1>9a
    <3>3. \A k \in DOMAIN list : list[k].timer \in set
      BY DEF Lists
    <3> QED
      BY <1>6, <3>2, <3>3
  <2>2. \A k \in DOMAIN list : (IF k < p THEN k ELSE k + 1) \in DOMAIN longer
    BY <1>1, <1>4, <1>7
  <2>3. \A u \in set : \E i \in DOMAIN longer : longer[i].timer = u
    BY <1>8, <2>2 DEF Lists
  <2>4. p \in DOMAIN longer
    BY <1>4, <1>7
  <2> QED
    BY <1>6, <1>9, <2>1, <2>3, <2>4
<1>11. \A i, j \in DOMAIN longer : longer[i].timer = longer[j].timer => i = j
  <2> SUFFICES ASSUME NEW i \in DOMAIN longer, NEW j \in DOMAIN longer,
                      longer[i].timer = longer[j].timer
               PROVE  i = j
    OBVIOUS
  <2> DEFINE Old(n) == IF n < p THEN n ELSE n - 1
  <2>1. \A n \in DOMAIN longer : n # p => Old(n) \in DOMAIN list /\ longer[n] = list[Old(n)]
    BY <1>1, <1>4, <1>7
  <2>2. \A n \in DOMAIN longer : n # p => longer[n].timer \in set
    BY <2>1 DEF Lists
  <2>3. i = p <=> j = p
    BY <1>6, <1>6a, <1>9, <2>2
  <2>4. CASE i # p /\ j # p
    <3>1. Old(i) = Old(j)
      BY <2>1, <2>4 DEF Lists
    <3> QED
      BY <1>4, <1>7, <2>4, <3>1
  <2> QED
    BY <2>3, <2>4
<1>12. AllOnClock(longer, jiffies)
  <2>1. \A i \in DOMAIN longer :
          longer[i] = e \/ \E k \in DOMAIN list : longer[i] = list[k]
    BY <1>9a
  <2> QED
    BY <1>3, <2>1 DEF AllOnClock
<1> QED
  BY <1>6, <1>7, <1>10, <1>11, <1>12 DEF Lists, longer

\* The timer at place p is taken off.
LEMMA RemovedListed ==
  ASSUME NEW list, NEW set, Lists(list, set), NEW p \in DOMAIN list, NEW now
  PROVE  /\ Lists(RemoveAt(list, p), set \ {list[p].timer})
         /\ AllOnClock(list, now) => AllOnClock(RemoveAt(list, p), now)
<1> DEFINE shorter == RemoveAt(list, p)
           Old(n) == IF n < p THEN n ELSE n + 1
<1>1. /\ list \in Seq(Entry) /\ Len(list) \in Nat /\ DOMAIN list = 1 .. Len(list)
  BY LenProperties DEF Lists
<1>2. /\ shorter \in Seq(Entry) /\ DOMAIN shorter = 1 .. Len(list) - 1
      /\ \A i \in DOMAIN shorter : shorter[i] = list[Old(i)] /\ Old(i) \in DOMAIN list \ {p}
  BY <1>1, Removes
<1> HIDE DEF shorter
<1>3. \A k \in DOMAIN list \ {p} : \E i \in DOMAIN shorter : shorter[i] = list[k]
  <2>1. \A k \in DOMAIN list \ {p} :
          LET i == IF k < p THEN k ELSE k - 1 IN i \in DOMAIN shorter /\ Old(i) = k
    BY <1>1, <1>2
  <2> QED
    BY <1>2, <2>1
<1>4. {shorter[i].timer : i \in DOMAIN shorter} = set \ {list[p].timer}
  <2>1. \A k \in DOMAIN list \ {p} : list[k].timer \in set \ {list[p].timer}
    BY DEF Lists
  <2>2. \A u \in set \ {list[p].timer} : \E k \in DOMAIN list \ {p} : list[k].timer = u
    BY DEF Lists
  <2>3. \A u \in set \ {list[p].timer} : \E i \in DOMAIN shorter : shorter[i].timer = u
    BY <1>3, <2>2
  <2>4. \A i \in DOMAIN shorter : shorter[i].timer \in set \ {list[p].timer}
    BY <1>2, <2>1
  <2> QED
    BY <2>3, <2>4
<1>5. \A i, j \in DOMAIN shorter : shorter[i].timer = shorter[j].timer => i = j
  <2>1. \A i, j \in DOMAIN shorter : Old(i) = Old(j) => i = j
    BY <1>1, <1>2
  <2> HIDE DEF Old
  <2> QED
    BY <1>2, <2>1 DEF Lists
<1>6. AllOnClock(list, now) => AllOnClock(shorter, now)
  BY <1>2 DEF AllOnClock
<1> QED
  BY <1>2, <1>4, <1>5, <1>6 DEF Lists, shorter

-----------------------------------------------------------------------------
(* The steps                                                                *)

\* What is taken off the front is the head.
LEMMA TailListed ==
  ASSUME NEW list, NEW set, Lists(list, set), list # <<>>, NEW now
  PROVE  /\ 1 \in DOMAIN list /\ Head(list) = list[1]
         /\ Lists(Tail(list), set \ {Head(list).timer})
         /\ AllOnClock(list, now) => AllOnClock(Tail(list), now)
<1>1. /\ list \in Seq(Entry) /\ Len(list) \in Nat \ {0} /\ DOMAIN list = 1 .. Len(list)
  BY EmptySeq, LenProperties DEF Lists
<1>2. 1 \in DOMAIN list /\ Head(list) = list[1]
  BY <1>1
<1>3. RemoveAt(list, 1) = Tail(list)
  <2>1. /\ RemoveAt(list, 1) \in Seq(Entry) /\ DOMAIN RemoveAt(list, 1) = 1 .. Len(list) - 1
        /\ \A i \in 1 .. Len(list) - 1 : RemoveAt(list, 1)[i] = list[i + 1]
    BY <1>1, Removes
  <2>2. /\ Tail(list) \in Seq(Entry) /\ Len(Tail(list)) = Len(list) - 1
        /\ \A i \in 1 .. Len(list) - 1 : Tail(list)[i] = list[i + 1]
    BY <1>1, HeadTailProperties
  <2> DEFINE shorter == RemoveAt(list, 1)
  <2> HIDE DEF shorter
  <2>3. shorter \in Seq(Entry) /\ DOMAIN shorter = 1 .. Len(list) - 1
    BY <2>1 DEF shorter
  <2>4. Len(shorter) \in Nat /\ DOMAIN shorter = 1 .. Len(shorter)
    BY <2>3, LenProperties
  <2>5. Len(shorter) = Len(list) - 1
    <3>1. \A m, n \in Nat : 1 .. m = 1 .. n => m = n
      <4> SUFFICES ASSUME NEW m \in Nat, NEW n \in Nat, 1 .. m = 1 .. n, m # n
                   PROVE  FALSE
        OBVIOUS
      <4>1. (m \in 1 .. n \/ m = 0) /\ (n \in 1 .. m \/ n = 0)
        BY SMT
      <4> QED
        BY <4>1
    <3>2. Len(list) - 1 \in Nat
      BY <1>1
    <3>3. 1 .. Len(shorter) = 1 .. Len(list) - 1
      BY <2>3, <2>4
    <3> QED
      BY <2>4, <3>1, <3>2, <3>3
  <2>6. \A i \in 1 .. Len(shorter) : shorter[i] = Tail(list)[i]
    BY <2>1, <2>2, <2>5 DEF shorter
  <2>7. shorter = Tail(list)
    BY <2>2, <2>3, <2>5, <2>6, SeqEqual
  <2> QED
    BY <2>7 DEF shorter
<1>4. /\ Lists(RemoveAt(list, 1), set \ {list[1].timer})
      /\ AllOnClock(list, now) => AllOnClock(RemoveAt(list, 1), now)
  BY <1>2, RemovedListed
<1> QED
  BY <1>2, <1>3, <1>4

\* Where list_del() finds a linked entry
LEMMA FindsLinked ==
  ASSUME Lists(timer_list, linked), NEW t \in linked,
         NEW p, p = CHOOSE i \in DOMAIN timer_list : timer_list[i].timer = t
  PROVE  p \in DOMAIN timer_list /\ timer_list[p].timer = t
  BY DEF Lists

\* Nobody waits less for what the other steps do.
LEMMA WaitKeeps ==
  ASSUME LinuxInv, jiffies' = jiffies, UNCHANGED waitVars
  PROVE  WaitOnClock'
  BY DEF LinuxInv, WaitOnClock, waitVars

\* vcos_timer_set(), and vcos_timer_reset() from there on
LEMMA AddKeeps ==
  ASSUME LinuxInv,
         add_timer \/ \E t \in LinuxTimer, delay \in LinuxDelays : vcos_timer_set(t, delay)
  PROVE  LinuxInv'
<1>0. jiffies' = jiffies /\ done' = done /\ UNCHANGED waitVars
  BY DEF vcos_timer_set, add_timer
<1>1. WaitOnClock'
  BY <1>0, WaitKeeps
<1>2. CASE add_timer
  <2> DEFINE e == call.entry
  <2>1. /\ call.op = "add" /\ linked' = linked \cup {e.timer}
        /\ timer_list' = Added(timer_list, e) /\ call'.op = "none"
    BY <1>2 DEF add_timer, InCall, OutOfCall
  <2>2. Unlinking = {} /\ Unlinking' = {} /\ CallOK'
    BY <2>1 DEF Unlinking, CallOK
  <2>3. e \in Entry /\ OnClock(e, jiffies) /\ e.timer \notin linked
    BY <2>1 DEF LinuxInv, CallOK
  <2>4. e.timer \in LinuxTimer
    BY <2>3 DEF Entry
  <2> HIDE DEF e
  <2>5. linked \ Unlinking = linked /\ (linked \ Unlinking)' = linked \cup {e.timer}
    BY <2>1, <2>2
  <2>6. Lists(timer_list, linked) /\ AllOnClock(timer_list, jiffies)
    BY <2>5 DEF LinuxInv
  <2>7. Lists(timer_list', linked \cup {e.timer}) /\ AllOnClock(timer_list', jiffies)
    BY <2>1, <2>3, <2>6, AddedListed
  <2> QED
    BY <1>0, <1>1, <2>1, <2>2, <2>4, <2>5, <2>7 DEF LinuxInv
<1>3. ASSUME NEW t \in LinuxTimer, NEW delay \in LinuxDelays, vcos_timer_set(t, delay)
      PROVE  LinuxInv'
  <2>1. /\ call.op = "none" /\ t \notin linked /\ linked' = linked
        /\ timer_list' = timer_list /\ call' = [op |-> "add", entry |-> Timed(t, delay)]
    BY <1>3 DEF vcos_timer_set, Begins, OutOfCall, timers
  <2>2. call'.op = "add" /\ call'.entry = Timed(t, delay)
    BY <2>1
  <2>3. Unlinking = {} /\ Unlinking' = {}
    BY <2>1, <2>2 DEF Unlinking
  <2>4. CallOK'
    BY <1>0, <2>1, <2>2, TimedOK DEF CallOK, LinuxInv
  <2> QED
    BY <1>0, <1>1, <2>1, <2>3, <2>4 DEF LinuxInv
<1> QED
  BY <1>2, <1>3

\* del_timer() takes the timer off, and then resets its entry.
LEMMA DeleteKeeps ==
  ASSUME LinuxInv,
         \/ \E t \in LinuxTimer : vcos_timer_cancel(t)
         \/ \E t \in LinuxTimer, delay \in LinuxDelays : vcos_timer_reset(t, delay)
         \/ CancelEnds \/ ResetGoesOn
  PROVE  LinuxInv'
<1>0. jiffies' = jiffies /\ done' = done /\ UNCHANGED waitVars
  BY DEF vcos_timer_cancel, vcos_timer_reset, del_timer, CancelEnds, ResetGoesOn, EntryReset
<1>1. WaitOnClock'
  BY <1>0, WaitKeeps
<1>2. ASSUME NEW t \in LinuxTimer, NEW next, del_timer(t, next),
             next.op \in {"cancel", "reset"}, next.timer = t,
             next.op = "reset" => next.delay \in LinuxDelays
      PROVE  LinuxInv'
  <2> DEFINE p == CHOOSE i \in DOMAIN timer_list : timer_list[i].timer = t
  <2>1. /\ call.op = "none" /\ t \in linked /\ linked' = linked
        /\ timer_list' = Without(timer_list, t) /\ call' = next
    BY <1>2 DEF del_timer, Begins, OutOfCall
  <2>2. Unlinking = {} /\ Unlinking' = {t}
    BY <1>2, <2>1 DEF Unlinking
  <2>3. Lists(timer_list, linked)
    BY <2>2 DEF LinuxInv
  <2>4. p \in DOMAIN timer_list /\ timer_list[p].timer = t
    BY <2>1, <2>3, FindsLinked
  <2>5. Without(timer_list, t) = RemoveAt(timer_list, p)
    BY DEF Without
  <2> HIDE DEF p
  <2>6. Lists(timer_list', linked \ {t}) /\ AllOnClock(timer_list', jiffies)
    BY <2>1, <2>3, <2>4, <2>5, RemovedListed DEF LinuxInv
  <2>7. CallOK'
    BY <1>2, <2>1 DEF CallOK
  <2> QED
    BY <1>0, <1>1, <2>1, <2>2, <2>6, <2>7 DEF LinuxInv
<1>3. ASSUME NEW t \in LinuxTimer, vcos_timer_cancel(t)
      PROVE  LinuxInv'
  BY <1>2, <1>3 DEF vcos_timer_cancel
<1>4. ASSUME NEW t \in LinuxTimer, NEW delay \in LinuxDelays, vcos_timer_reset(t, delay)
      PROVE  LinuxInv'
  BY <1>2, <1>4 DEF vcos_timer_reset
<1>5. ASSUME CancelEnds \/ ResetGoesOn
      PROVE  LinuxInv'
  <2> DEFINE t == call.timer
  <2>1. /\ call.op \in {"cancel", "reset"} /\ linked' = linked \ {t}
        /\ timer_list' = timer_list /\ call'.op \in {"none", "add"}
    BY <1>5 DEF CancelEnds, ResetGoesOn, InCall, EntryReset, OutOfCall
  <2>2. Unlinking = {t} /\ Unlinking' = {}
    BY <2>1 DEF Unlinking
  <2>3. (linked \ Unlinking)' = linked \ Unlinking /\ linked' \subseteq linked
    BY <2>1, <2>2
  <2>4. CallOK'
    <3>1. CASE CancelEnds
      BY <3>1 DEF CancelEnds, OutOfCall, CallOK
    <3>2. CASE ResetGoesOn
      <4>1. /\ call.op = "reset" /\ call' = [op |-> "add", entry |-> Timed(t, call.delay)]
        BY <3>2 DEF ResetGoesOn, InCall
      <4>2. call'.op = "add" /\ call'.entry = Timed(t, call.delay)
        BY <4>1
      <4>3. call.delay \in LinuxDelays /\ t \in LinuxTimer
        BY <4>1 DEF LinuxInv, CallOK
      <4>4. /\ Timed(t, call.delay) \in Entry /\ Timed(t, call.delay).timer = t
            /\ OnClock(Timed(t, call.delay), jiffies)
        BY <4>3, TimedOK DEF LinuxInv
      <4> QED
        BY <1>0, <2>1, <4>2, <4>4 DEF CallOK
    <3> QED
      BY <1>5, <3>1, <3>2
  <2> QED
    BY <1>0, <1>1, <2>1, <2>3, <2>4 DEF LinuxInv
<1> QED
  BY <1>3, <1>4, <1>5

\* An interrupt that completes shows itself to a task that has tested the count.
LEMMA CompletedKeeps ==
  ASSUME LinuxInv, jiffies' = jiffies, linked' \subseteq linked,
         call.op \in {"cancel", "reset"} => call.timer \in linked',
         \/ UNCHANGED <<done, call>>
         \/ Completed(done + 1) \/ Completed(MaxDone)
  PROVE  done' \in Nat /\ CallOK' /\ Unlinking' = Unlinking
<1>1. CASE UNCHANGED <<done, call>>
  BY <1>1 DEF LinuxInv, CallOK, Unlinking
<1>2. CASE Completed(done + 1) \/ Completed(MaxDone)
  <2>1. done' \in Nat
    BY <1>2, LinuxTimeAssumption DEF Completed, LinuxInv
  <2>2. CASE call.op = "test"
    <3>1. call' = [op |-> "test", raced |-> TRUE]
      BY <1>2, <2>2 DEF Completed
    <3>2. call'.op = "test" /\ call'.raced
      BY <3>1
    <3> QED
      BY <2>1, <2>2, <3>2 DEF CallOK, Unlinking
  <2>3. CASE call.op # "test"
    <3>1. call' = call
      BY <1>2, <2>3 DEF Completed
    <3> QED
      BY <2>1, <2>3, <3>1 DEF CallOK, Unlinking, LinuxInv
  <2> QED
    BY <2>2, <2>3
<1> QED
  BY <1>1, <1>2

\* The handler takes the head off, whose function may start it again.
LEMMA FireKeeps ==
  ASSUME LinuxInv, TimerRestarts \/ \E completes \in BOOLEAN : TimerFires(completes)
  PROVE  LinuxInv'
<1>0. jiffies' = jiffies /\ UNCHANGED waitVars
  BY DEF TimerRestarts, TimerFires
<1>1. WaitOnClock'
  BY <1>0, WaitKeeps
<1>2. timer_list # <<>>
  BY DEF TimerRestarts, TimerFires, HeadExpired
<1> DEFINE t == Head(timer_list).timer
           listed == linked \ Unlinking
<1>3. /\ t \in listed /\ t \in LinuxTimer
      /\ Lists(Tail(timer_list), listed \ {t}) /\ AllOnClock(Tail(timer_list), jiffies)
  <2>1. /\ 1 \in DOMAIN timer_list /\ Head(timer_list) = timer_list[1]
        /\ Lists(Tail(timer_list), listed \ {t}) /\ AllOnClock(Tail(timer_list), jiffies)
    BY <1>2, TailListed DEF LinuxInv
  <2>2. t \in listed
    BY <2>1 DEF LinuxInv, Lists
  <2> QED
    BY <2>1, <2>2 DEF LinuxInv
<1>4. t \in linked /\ t \notin Unlinking
  BY <1>3
<1>5. call.op \in {"cancel", "reset"} => call.timer \in linked \ {t}
  BY <1>4 DEF Unlinking, LinuxInv, CallOK
<1> HIDE DEF t
<1>6. CASE TimerRestarts
  <2>1. PICK delay \in LinuxDelays : timer_list' = Added(Tail(timer_list), Timed(t, delay))
    BY <1>6 DEF TimerRestarts, t
  <2>2. linked' = linked /\ UNCHANGED <<done, call>>
    BY <1>6 DEF TimerRestarts
  <2>3. done' \in Nat /\ CallOK' /\ Unlinking' = Unlinking
    BY <1>0, <1>5, <2>2, CompletedKeeps
  <2>4. /\ Timed(t, delay) \in Entry /\ Timed(t, delay).timer = t
        /\ OnClock(Timed(t, delay), jiffies)
    BY <1>3, TimedOK DEF LinuxInv
  <2>5. /\ Lists(timer_list', (listed \ {t}) \cup {t}) /\ AllOnClock(timer_list', jiffies)
    BY <1>3, <2>1, <2>4, AddedListed
  <2>6. (listed \ {t}) \cup {t} = (linked \ Unlinking)'
    BY <1>3, <2>2, <2>3
  <2> QED
    BY <1>0, <1>1, <2>2, <2>3, <2>5, <2>6 DEF LinuxInv
<1>7. CASE \E completes \in BOOLEAN : TimerFires(completes)
  <2>1. /\ timer_list' = Tail(timer_list) /\ linked' = linked \ {t}
        /\ UNCHANGED <<done, call>> \/ Completed(done + 1)
    BY <1>7 DEF TimerFires, t
  <2>2. done' \in Nat /\ CallOK' /\ Unlinking' = Unlinking
    BY <1>0, <1>5, <2>1, CompletedKeeps
  <2>3. listed \ {t} = (linked \ Unlinking)' /\ linked' \subseteq linked
    BY <2>1, <2>2
  <2> QED
    BY <1>0, <1>1, <1>3, <2>1, <2>2, <2>3 DEF LinuxInv
<1> QED
  BY <1>6, <1>7

\* An entry stays on the clock when a jiffy passes.
LEMMA SoonerOK ==
  ASSUME jiffies \in Jiffies, jiffies' = (jiffies + 1) % JiffyWrap,
         NEW old \in Entry, OnClock(old, jiffies)
  PROVE  /\ Sooner(old) \in Entry /\ Sooner(old).timer = old.timer
         /\ OnClock(Sooner(old), jiffies')
<1> DEFINE new == [old EXCEPT !.left = IF @ > -1 THEN @ - 1 ELSE @]
<1>1. JiffyWrap \in Nat \ {0}
  BY LinuxTimeAssumption
<1>2. /\ new \in Entry /\ new.timer = old.timer /\ new.expires = old.expires
      /\ old.left \in Int /\ new.left = IF old.left > -1 THEN old.left - 1 ELSE old.left
  BY DEF Entry
<1>3. new = Sooner(old)
  BY DEF Sooner
<1> HIDE DEF new
<1>4. OnClock(new, jiffies')
  <2> SUFFICES ASSUME new.left > 0
               PROVE  new.left < JiffyWrap \div 2 /\ new.expires = (jiffies' + new.left) % JiffyWrap
    BY DEF OnClock
  <2>1. new.left = old.left - 1 /\ old.left > 0
    BY <1>2
  <2>2. old.left < JiffyWrap \div 2 /\ old.expires = (jiffies + old.left) % JiffyWrap
    BY <2>1 DEF OnClock
  <2>3. old.left \in 1 .. JiffyWrap \div 2 - 1
    BY <1>1, <1>2, <2>1, <2>2
  <2>4. (jiffies' + (old.left - 1)) % JiffyWrap = (jiffies + old.left) % JiffyWrap
    BY <1>1, <2>3, Stays
  <2> QED
    BY <1>1, <1>2, <2>1, <2>2, <2>3, <2>4
<1> QED
  BY <1>2, <1>3, <1>4

\* A jiffy passes: what is still to come stays on the clock, and the wait is
\* one jiffy longer.
LEMMA JiffyKeeps ==
  ASSUME LinuxInv, PeriodicBegins
  PROVE  LinuxInv'
<1>1. /\ jiffies' = (jiffies + 1) % JiffyWrap /\ linked' = linked /\ done' = done
      /\ waiting' = waiting /\ start' = start /\ timeout' = timeout
      /\ timer_list' = [i \in DOMAIN timer_list |-> Sooner(timer_list[i])]
      /\ waitLeft' = IF waitLeft > 0 THEN waitLeft - 1 ELSE 0
      /\ call' = IF call.op = "add" THEN [op |-> "add", entry |-> Sooner(call.entry)] ELSE call
  BY DEF PeriodicBegins
<1>2. JiffyWrap \in Nat \ {0} /\ jiffies \in Jiffies /\ jiffies' \in Jiffies
  <2>1. jiffies \in 0 .. JiffyWrap - 1 /\ JiffyWrap \in Nat \ {0}
    BY LinuxTimeAssumption DEF LinuxInv, Jiffies
  <2>2. (jiffies + 1) % JiffyWrap \in 0 .. JiffyWrap - 1
    BY <2>1
  <2> QED
    BY <1>1, <2>1, <2>2 DEF Jiffies
<1>3. /\ timer_list \in Seq(Entry) /\ Len(timer_list) \in Nat
      /\ DOMAIN timer_list = 1 .. Len(timer_list)
      /\ \A i \in DOMAIN timer_list : timer_list[i] \in Entry
  BY LenProperties, ElementOfSeq DEF LinuxInv, Lists
<1>4. ASSUME NEW i \in DOMAIN timer_list
      PROVE  /\ timer_list'[i] \in Entry /\ timer_list'[i].timer = timer_list[i].timer
             /\ OnClock(timer_list'[i], jiffies')
  <2> DEFINE old == timer_list[i]
  <2>1. old \in Entry /\ OnClock(old, jiffies)
    BY <1>3 DEF LinuxInv, AllOnClock
  <2>2. timer_list'[i] = Sooner(old)
    BY <1>1
  <2> HIDE DEF old
  <2>3. /\ Sooner(old) \in Entry /\ Sooner(old).timer = old.timer
        /\ OnClock(Sooner(old), jiffies')
    BY <1>1, <1>2, <2>1, SoonerOK
  <2> QED
    BY <2>2, <2>3 DEF old
<1>5. DOMAIN timer_list' = DOMAIN timer_list
  BY <1>1
<1>6. timer_list' \in Seq(Entry)
  <2>1. timer_list' \in [1 .. Len(timer_list) -> Entry]
    BY <1>1, <1>3, <1>4, <1>5
  <2> QED
    BY <1>3, <2>1, SeqDef
<1>7a. CallOK' /\ Unlinking' = Unlinking
  <2>1. CASE call.op = "add"
    <3>1. call' = [op |-> "add", entry |-> Sooner(call.entry)]
      BY <1>1, <2>1
    <3>2. call'.op = "add" /\ call'.entry = Sooner(call.entry)
      BY <3>1
    <3>3. /\ Sooner(call.entry) \in Entry /\ Sooner(call.entry).timer = call.entry.timer
          /\ OnClock(Sooner(call.entry), jiffies')
      BY <1>1, <1>2, <2>1, SoonerOK DEF LinuxInv, CallOK
    <3> QED
      BY <1>1, <2>1, <3>2, <3>3 DEF LinuxInv, CallOK, Unlinking
  <2>2. CASE call.op # "add"
    <3>1. call' = call
      BY <1>1, <2>2
    <3> QED
      BY <1>1, <2>2, <3>1 DEF LinuxInv, CallOK, Unlinking
  <2> QED
    BY <2>1, <2>2
<1>7. Lists(timer_list', (linked \ Unlinking)') /\ AllOnClock(timer_list', jiffies')
  BY <1>1, <1>4, <1>5, <1>6, <1>7a DEF LinuxInv, Lists, AllOnClock
<1>8. WaitOnClock'
  <2> SUFFICES ASSUME waiting
               PROVE  /\ start \in Jiffies /\ timeout \in 1 .. JiffyWrap \div 2 - 1
                      /\ waitLeft' \in Nat
                      /\ waitLeft' # 0 => ((jiffies' - start) % JiffyWrap) + waitLeft' = timeout
    BY <1>1 DEF WaitOnClock
  <2>1. /\ start \in Jiffies /\ timeout \in 1 .. JiffyWrap \div 2 - 1 /\ waitLeft \in Nat
        /\ waitLeft # 0 => ((jiffies - start) % JiffyWrap) + waitLeft = timeout
    BY DEF LinuxInv, WaitOnClock
  <2>2. waitLeft' \in Nat
    BY <1>1, <2>1
  <2>3. ASSUME waitLeft' # 0
        PROVE  ((jiffies' - start) % JiffyWrap) + waitLeft' = timeout
    <3>1. waitLeft' = waitLeft - 1 /\ waitLeft > 1
      BY <1>1, <2>1, <2>3
    <3>2. (jiffies - start) % JiffyWrap \in Nat
      BY <1>2, <2>1 DEF Jiffies
    <3>3. ((jiffies - start) % JiffyWrap) + 1 < JiffyWrap
      BY <1>2, <2>1, <3>1, <3>2
    <3>4. (jiffies' - start) % JiffyWrap = ((jiffies - start) % JiffyWrap) + 1
      BY <1>1, <1>2, <2>1, <3>3, Elapses
    <3> QED
      BY <2>1, <3>1, <3>2, <3>4
  <2> QED
    BY <2>1, <2>2, <2>3
<1> QED
  BY <1>1, <1>2, <1>7, <1>7a, <1>8 DEF LinuxInv

\* A wait begins with all of its time left; the other steps of completions and
\* the end of the handler leave the clock and the list alone.
LEMMA CompletionKeeps ==
  ASSUME LinuxInv,
         \/ PeriodicEnds \/ complete \/ complete_all \/ reinit_completion
         \/ CountBegins \/ CountEnds
         \/ \E limit \in LinuxTimeouts : BeginTimedWait(limit)
         \/ TimedWaitTests \/ TimedWaitSucceeds \/ TimedWaitTimesOut \/ TimedWaitYields
         \/ UNCHANGED linuxVars
  PROVE  LinuxInv'
<1>1. jiffies' = jiffies /\ timer_list' = timer_list /\ linked' = linked
  BY DEF PeriodicEnds, complete, complete_all, reinit_completion, CountBegins, CountEnds,
         BeginTimedWait, TimedWaitTests, TimedWaitSucceeds, TimedWaitTimesOut,
         TimedWaitYields, WaitReturns, linuxVars, timers
<1>2. done' \in Nat /\ CallOK' /\ Unlinking' = Unlinking
  <2>1. CASE complete \/ complete_all \/ PeriodicEnds \/ UNCHANGED linuxVars
    <3>1. UNCHANGED <<done, call>> \/ Completed(done + 1) \/ Completed(MaxDone)
      BY <2>1 DEF complete, complete_all, PeriodicEnds, linuxVars
    <3> QED
      BY <1>1, <3>1, CompletedKeeps DEF LinuxInv, CallOK
  <2>2. CASE reinit_completion \/ \E limit \in LinuxTimeouts : BeginTimedWait(limit)
    <3>1. call.op = "none" /\ call' = call /\ done' \in Nat
      BY <2>2 DEF reinit_completion, BeginTimedWait, Begins, OutOfCall, LinuxInv
    <3> QED
      BY <3>1 DEF CallOK, Unlinking
  <2>3. CASE CountBegins
    <3>1. /\ call.op = "none" /\ done' = done
          /\ \E n \in Nat : call' = [op |-> "count", count |-> n]
      <4>1. CASE done < MaxDone /\ Reads(1)
        BY <2>3, <4>1 DEF CountBegins, Reads, Begins, OutOfCall, LinuxInv
      <4>2. CASE done # 0 /\ Reads(-1)
        <5>1. done + (-1) \in Nat
          BY <4>2 DEF LinuxInv
        <5> QED
          BY <2>3, <4>2, <5>1 DEF CountBegins, Reads, Begins, OutOfCall
      <4> QED
        BY <2>3, <4>1, <4>2 DEF CountBegins
    <3>2. PICK n \in Nat : call' = [op |-> "count", count |-> n]
      BY <3>1
    <3>3. call'.op = "count" /\ call'.count \in Nat
      BY <3>2
    <3> QED
      BY <3>1, <3>3 DEF CallOK, Unlinking, LinuxInv
  <2>4. CASE CountEnds \/ TimedWaitSucceeds \/ TimedWaitTimesOut \/ TimedWaitYields
    <3>1. /\ call.op \in {"count", "take", "test"} /\ call'.op = "none"
          /\ \/ done' = done
             \/ call.op = "count" /\ done' = call.count
             \/ call.op = "take" /\ done' = call.count - 1
      BY <2>4 DEF CountEnds, TimedWaitSucceeds, TimedWaitTimesOut, TimedWaitYields,
                  WaitReturns, InCall, OutOfCall
    <3>2. done' \in Nat
      BY <3>1 DEF LinuxInv, CallOK
    <3> QED
      BY <3>1, <3>2 DEF CallOK, Unlinking
  <2>5. CASE TimedWaitTests
    <3>1. /\ call.op = "none" /\ done' = done
          /\ call' = IF done # 0 THEN [op |-> "take", count |-> done]
                                 ELSE [op |-> "test", raced |-> FALSE]
      BY <2>5 DEF TimedWaitTests, Begins, OutOfCall
    <3>2. CASE done # 0
      <4>1. call'.op = "take" /\ call'.count = done
        BY <3>1, <3>2
      <4> QED
        BY <3>1, <3>2, <4>1 DEF CallOK, Unlinking, LinuxInv
    <3>3. CASE done = 0
      <4>1. call'.op = "test"
        BY <3>1, <3>3
      <4> QED
        BY <3>1, <3>3, <4>1 DEF CallOK, Unlinking, LinuxInv
    <3> QED
      BY <3>2, <3>3
  <2> QED
    BY <2>1, <2>2, <2>3, <2>4, <2>5
<1>3. WaitOnClock'
  <2>1. CASE \E limit \in LinuxTimeouts : BeginTimedWait(limit)
    <3>1. PICK limit \in LinuxTimeouts : BeginTimedWait(limit)
      BY <2>1
    <3>2. start' = jiffies /\ timeout' = limit /\ waitLeft' = limit
      BY <3>1 DEF BeginTimedWait
    <3>3. limit \in 1 .. JiffyWrap \div 2 - 1 /\ JiffyWrap \in Nat \ {0}
      BY LinuxTimeAssumption
    <3>4. (jiffies - jiffies) % JiffyWrap = 0
      <4>1. jiffies - jiffies = 0
        BY DEF LinuxInv, Jiffies
      <4> QED
        BY <3>3, <4>1, Turns
    <3>5. limit \in Nat /\ ((jiffies - jiffies) % JiffyWrap) + limit = limit
      BY <3>3, <3>4
    <3> QED
      BY <1>1, <3>2, <3>3, <3>5 DEF WaitOnClock, LinuxInv
  <2>2. CASE TimedWaitSucceeds \/ TimedWaitTimesOut
    <3>1. waiting' = FALSE
      BY <2>2 DEF TimedWaitSucceeds, TimedWaitTimesOut, WaitReturns
    <3> QED
      BY <3>1 DEF WaitOnClock
  <2>3. CASE \/ PeriodicEnds \/ complete \/ complete_all \/ reinit_completion
             \/ CountBegins \/ CountEnds \/ TimedWaitTests \/ TimedWaitYields
             \/ UNCHANGED linuxVars
    <3>1. UNCHANGED waitVars
      BY <2>3 DEF PeriodicEnds, complete, complete_all, reinit_completion, CountBegins,
                  CountEnds, TimedWaitTests, TimedWaitYields, linuxVars
    <3> QED
      BY <1>1, <3>1, WaitKeeps
  <2> QED
    BY <2>1, <2>2, <2>3
<1>4. (linked \ Unlinking)' = linked \ Unlinking
  BY <1>1, <1>2
<1> QED
  BY <1>1, <1>2, <1>3, <1>4 DEF LinuxInv

-----------------------------------------------------------------------------
(* What holds of every run                                                  *)

LEMMA LinuxStarts ==
  ASSUME LinuxInit
  PROVE  LinuxInv
<1>1. jiffies \in Jiffies
  BY LinuxTimeAssumption DEF LinuxInit, Jiffies
<1>2. timer_list = <<>> /\ linked = {} /\ waiting = FALSE /\ done = 0 /\ call.op = "none"
  BY DEF LinuxInit, OutOfCall
<1>3. timer_list \in Seq(Entry) /\ DOMAIN timer_list = {}
  BY <1>2, EmptySeq
<1>4. CallOK /\ linked \ Unlinking = {}
  BY <1>2 DEF CallOK, Unlinking
<1> QED
  BY <1>1, <1>2, <1>3, <1>4 DEF LinuxInv, Lists, AllOnClock, WaitOnClock

LEMMA LinuxSteps ==
  ASSUME LinuxInv, [LinuxNext]_linuxVars
  PROVE  LinuxInv'
<1>1. CASE add_timer \/ \E t \in LinuxTimer, delay \in LinuxDelays : vcos_timer_set(t, delay)
  BY <1>1, AddKeeps
<1>2. CASE \/ \E t \in LinuxTimer : vcos_timer_cancel(t)
           \/ \E t \in LinuxTimer, delay \in LinuxDelays : vcos_timer_reset(t, delay)
           \/ CancelEnds \/ ResetGoesOn
  BY <1>2, DeleteKeeps
<1>3. CASE PeriodicBegins
  BY <1>3, JiffyKeeps
<1>4. CASE TimerRestarts \/ \E completes \in BOOLEAN : TimerFires(completes)
  BY <1>4, FireKeeps
<1>5. CASE \/ PeriodicEnds \/ complete \/ complete_all \/ reinit_completion
           \/ CountBegins \/ CountEnds
           \/ \E limit \in LinuxTimeouts : BeginTimedWait(limit)
           \/ TimedWaitTests \/ TimedWaitSucceeds \/ TimedWaitTimesOut \/ TimedWaitYields
           \/ UNCHANGED linuxVars
  BY <1>5, CompletionKeeps
<1> QED
  BY <1>1, <1>2, <1>3, <1>4, <1>5 DEF LinuxNext

LEMMA LinuxAlways == LinuxSpec => []LinuxInv
  BY LinuxStarts, LinuxSteps, PTL DEF LinuxSpec

\* What del_timer() sees in the entry is whether the timer is on the list, but for
\* the moment in which a task has just taken it off, and it is there once, also
\* when its function starts it again (timer.cpp).
THEOREM TimersListedIffLinked == LinuxSpec => []LinkedIffListed
<1>1. LinuxInv => LinkedIffListed
  BY DEF LinuxInv, Lists, LinkedIffListed
<1> QED
  BY <1>1, LinuxAlways, PTL

\* periodic_handler() calls no timer's function before its time, although it
\* looks only at the head of a list that add_timer() keeps in no order, and
\* compares jiffies that turn over.
THEOREM NoTimerFiresEarly == LinuxSpec => FiresNotEarly
<1> DEFINE Fires == TimerRestarts \/ \E completes \in BOOLEAN : TimerFires(completes)
<1>1. ASSUME LinuxInv, Fires
      PROVE  Head(timer_list).left <= 0
  <2>1. timer_list # <<>> /\ TimerExpired(Head(timer_list).expires, jiffies)
    BY <1>1 DEF TimerRestarts, TimerFires, HeadExpired
  <2>2. 1 \in DOMAIN timer_list /\ Head(timer_list) = timer_list[1]
    BY <1>1, <2>1, TailListed DEF LinuxInv
  <2> DEFINE e == timer_list[1]
  <2>3. e \in Entry /\ OnClock(e, jiffies) /\ TimerExpired(e.expires, jiffies)
    BY <1>1, <2>1, <2>2, ElementOfSeq, LenProperties DEF LinuxInv, Lists, AllOnClock
  <2> HIDE DEF e
  <2>4. e.left \in Int
    BY <2>3 DEF Entry
  <2>5. ~(e.left > 0)
    <3> SUFFICES ASSUME e.left > 0
                 PROVE  FALSE
      OBVIOUS
    <3>1. e.left \in 1 .. JiffyWrap \div 2 - 1 /\ e.expires = (jiffies + e.left) % JiffyWrap
      <4>1. e.left < JiffyWrap \div 2 /\ e.expires = (jiffies + e.left) % JiffyWrap
        BY <2>3 DEF OnClock
      <4> QED
        BY <2>4, <4>1, LinuxTimeAssumption
    <3> DEFINE d == e.left
    <3>2. ~TimerExpired((jiffies + d) % JiffyWrap, jiffies)
      BY <1>1, <3>1, Ahead DEF LinuxInv
    <3> QED
      BY <2>3, <3>1, <3>2
  <2>6. e.left <= 0
    BY <2>4, <2>5
  <2> QED
    BY <2>2, <2>6 DEF e
<1>2. LinuxInv /\ [LinuxNext]_linuxVars =>
        [Fires => Head(timer_list).left <= 0]_linuxVars
  BY <1>1
<1> QED
  BY <1>2, LinuxAlways, PTL DEF LinuxSpec, FiresNotEarly

\* wait_for_completion_interruptible_timeout() reports a timeout only when the
\* time has passed, and takes nothing then: what an interrupt completes between
\* its test of the count and that of the time stays for the next wait, and
\* nothing else can stand then (completion.cpp).
THEOREM NoWaitEndsEarly == LinuxSpec => TimeoutNotEarly
<1> DEFINE Rightly ==
      waiting /\ ~waiting' =>
        \/ call.op = "take" /\ call.count > 0
        \/ /\ waitLeft = 0 /\ done' = done
           /\ done # 0 => call.raced
<1>1. ASSUME LinuxInv, TimedWaitTimesOut, waiting
      PROVE  waitLeft = 0
  <2>1. waiting /\ (jiffies - start) % JiffyWrap >= timeout
    BY <1>1 DEF TimedWaitTimesOut
  <2>2. /\ start \in Jiffies /\ timeout \in 1 .. JiffyWrap \div 2 - 1 /\ waitLeft \in Nat
        /\ waitLeft # 0 => ((jiffies - start) % JiffyWrap) + waitLeft = timeout
    BY <1>1, <2>1 DEF LinuxInv, WaitOnClock
  <2>3. (jiffies - start) % JiffyWrap \in Nat
    <3>1. /\ jiffies \in 0 .. JiffyWrap - 1 /\ start \in 0 .. JiffyWrap - 1
          /\ JiffyWrap \in Nat \ {0}
      BY <1>1, <2>2, LinuxTimeAssumption DEF LinuxInv, Jiffies
    <3> QED
      BY <3>1
  <2>4. timeout \in Int
    BY <2>2
  <2> QED
    BY <2>1, <2>2, <2>3, <2>4
<1>2. ASSUME LinuxInv, LinuxNext
      PROVE  Rightly
  <2>1. CASE TimedWaitSucceeds
    BY <1>2, <2>1 DEF TimedWaitSucceeds, InCall, LinuxInv, CallOK
  <2>2. CASE TimedWaitTimesOut
    <3>1. call.op = "test" /\ done' = done
      BY <2>2 DEF TimedWaitTimesOut, InCall
    <3>2. done # 0 => call.raced
      BY <1>2, <3>1 DEF LinuxInv, CallOK
    <3> QED
      BY <1>1, <1>2, <2>2, <3>1, <3>2
  <2>3. CASE \E limit \in LinuxTimeouts : BeginTimedWait(limit)
    BY <2>3 DEF BeginTimedWait
  <2>4. CASE ~(TimedWaitSucceeds \/ TimedWaitTimesOut \/ \E limit \in LinuxTimeouts : BeginTimedWait(limit))
    <3>1. waiting' = waiting
      BY <1>2, <2>4 DEF LinuxNext, vcos_timer_set, add_timer, vcos_timer_cancel,
        vcos_timer_reset, del_timer, CancelEnds, ResetGoesOn, EntryReset, PeriodicBegins,
        PeriodicEnds, TimerRestarts, TimerFires, complete, complete_all, reinit_completion,
        CountBegins, CountEnds, TimedWaitTests, TimedWaitYields, waitVars
    <3> QED
      BY <3>1
  <2> QED
    BY <2>1, <2>2, <2>3, <2>4
<1>3. LinuxInv /\ [LinuxNext]_linuxVars => [Rightly]_linuxVars
  BY <1>2
<1> QED
  BY <1>3, LinuxAlways, PTL DEF LinuxSpec, TimeoutNotEarly

=============================================================================
