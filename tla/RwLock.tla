------------------------------- MODULE RwLock -------------------------------
(***************************************************************************)
(* The read-write lock of the Linux driver emulation                         *)
(* (addon/linux/rwlock.cpp): the number of readers in the lower bits of a    *)
(* word, WRITE_LOCK above them, and tasks that poll the word and yield.      *)
(* Tasks are cooperative: a step is what a task does between two yields.     *)
(***************************************************************************)
EXTENDS Integers, FiniteSets

CONSTANTS Reader, Writer,   \* the tasks that take the lock for reading, writing
          WRITE_LOCK        \* 2^31 in the code

ASSUME RwLockAssumption ==
  /\ IsFiniteSet(Reader) /\ Reader \cap Writer = {}
  /\ WRITE_LOCK \in Nat /\ Cardinality(Reader) < WRITE_LOCK

RwTask == Reader \cup Writer

VARIABLES lock, at

rwVars == <<lock, at>>

RwInit == lock = 0 /\ at = [t \in RwTask |-> "out"]

Go(t, place) == at' = [at EXCEPT ![t] = place]

\* The word with and without the WRITE_LOCK bit
WithBit(l) == IF l >= WRITE_LOCK THEN l ELSE l + WRITE_LOCK
WithoutBit(l) == IF l >= WRITE_LOCK THEN l - WRITE_LOCK ELSE l

\* A reader counts itself first, and then waits for the writer to be gone.
read_lock_bh(t) ==
  /\ at[t] = "out"
  /\ lock' = lock + 1
  /\ Go(t, IF lock + 1 >= WRITE_LOCK THEN "reader waits" ELSE "reads")

\* A reader that has waited is counted already.
read_lock_retry(t) ==
  /\ at[t] = "reader waits" /\ lock < WRITE_LOCK
  /\ Go(t, "reads")
  /\ UNCHANGED lock

read_unlock_bh(t) ==
  /\ at[t] = "reads"
  /\ lock' = lock - 1
  /\ Go(t, "out")

\* Mutant: the writer does not wait for the readers.
write_lock_bh_NoWait(t) ==
  /\ at[t] = "out"
  /\ lock' = WithBit(lock)
  /\ Go(t, "writes")

\* A writer sets its bit, and then waits for all readers to be gone.
write_lock_bh(t) ==
  /\ at[t] = "out"
  /\ lock' = WithBit(lock)
  /\ Go(t, IF WithoutBit(lock) # 0 THEN "writer waits" ELSE "writes")

write_lock_retry(t) ==
  /\ at[t] = "writer waits" /\ WithoutBit(lock) = 0
  /\ Go(t, "writes")
  /\ UNCHANGED lock

write_unlock_bh(t) ==
  /\ at[t] = "writes"
  /\ lock' = WithoutBit(lock)
  /\ Go(t, "out")

\* A task that polls in vain yields, and other tasks run.
Polls ==
  /\ \/ \E t \in Reader : at[t] = "reader waits" /\ lock >= WRITE_LOCK
     \/ \E t \in Writer : at[t] = "writer waits" /\ WithoutBit(lock) # 0
  /\ UNCHANGED rwVars

RwNext ==
  \/ \E t \in Reader : read_lock_bh(t) \/ read_lock_retry(t) \/ read_unlock_bh(t)
  \/ \E t \in Writer : write_lock_bh(t) \/ write_lock_retry(t) \/ write_unlock_bh(t)
  \/ Polls

RwSpec == RwInit /\ [][RwNext]_rwVars

-----------------------------------------------------------------------------

RwTypeOK ==
  /\ lock \in 0 .. 2 * WRITE_LOCK - 1
  /\ at \in [RwTask -> {"out", "reader waits", "reads", "writer waits", "writes"}]
  /\ \A t \in Reader : at[t] \in {"out", "reader waits", "reads"}
  /\ \A t \in Writer : at[t] \in {"out", "writer waits", "writes"}

Readers == {t \in Reader : at[t] # "out"}
WriterWants == \E t \in Writer : at[t] # "out"

\* The word says who is there: the readers that are in or wait, and a writer.
WordOK == lock = Cardinality(Readers) + IF WriterWants THEN WRITE_LOCK ELSE 0

\* "multiple readers, but only ... one exclusive writer" (rwlock.h)
Exclusion ==
  \A t, u \in RwTask : t # u /\ at[t] = "writes" => at[u] \notin {"reads", "writes"}

=============================================================================
