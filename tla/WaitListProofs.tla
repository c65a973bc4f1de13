---------------------------- MODULE WaitListProofs ----------------------------
(***************************************************************************)
(* Proofs about the linked wait lists of the scheduler, for any number of    *)
(* tasks and events: outside the critical sections the pointers are sound,   *)
(* and every step on them is one of module WaitSet's, or none of it.         *)
(***************************************************************************)
EXTENDS WaitList, ListLemmas

LinkTypes == [Task -> Task \cup {NULL}]

LEMMA NotATask == NULL \notin Task /\ NULL \notin Event
BY WaitListAssumption DEF WaitListAssumption

-----------------------------------------------------------------------------
(* The invariant                                                            *)

ListTypes ==
  /\ m_pWaitListHead \in [Event -> Task \cup {NULL}] /\ m_pWaitListNext \in LinkTypes
  /\ blocked \subseteq Task /\ inside \in [Task -> Event \cup {NULL}]
  /\ p \in Task \cup {NULL} /\ pPrev \in Task \cup {NULL} /\ doomed \subseteq Task
  /\ \/ section = Free /\ p = NULL /\ pPrev = NULL
     \/ section \in [in : {"remove"}, ev : Event, by : Task]
     \/ section \in [in : {"wake"}, ev : Event, by : {NULL}] /\ pPrev = NULL

\* Each task is on the list of the event it is inside BlockTask() for, or on the
\* one that is being woken, or on none; each list is a chain.
Chains ==
  /\ \A e \in Event : Chain(Task, m_pWaitListNext, m_pWaitListHead[e])
  /\ \A e \in Event : \A t \in Members(e) : inside[t] = e
  /\ \A t \in doomed : inside[t] # NULL
  /\ \A e \in Event : Members(e) \cap doomed = {}

\* A task that is on no list has no link, unless it is about to clear it.
NoLinks ==
  \A t \in Task :
    /\ t \notin doomed /\ \A e \in Event : t \notin Members(e)
    /\ ~(section.in = "remove" /\ section.by = t)
    => m_pWaitListNext[t] = NULL

\* WakeTasks() has the tasks still to be woken at its pointer.
Waking ==
  IF section.in = "wake"
  THEN doomed = From(Task, m_pWaitListNext, p) /\ Chain(Task, m_pWaitListNext, p)
  ELSE doomed = {}

\* BlockTask() looks for its task from its pointer on, with the task before it
\* in pPrev, until it has unlinked it.
Removing ==
  section.in = "remove" =>
    /\ inside[section.by] = section.ev /\ section.by \notin blocked
    /\ p \in Members(section.ev) \cup {NULL}
    /\ section.by \in Members(section.ev) =>
         /\ section.by \in From(Task, m_pWaitListNext, p)
         /\ IF pPrev = NULL THEN p = m_pWaitListHead[section.ev]
            ELSE /\ pPrev \in Members(section.ev) \ {section.by}
                 /\ m_pWaitListNext[pPrev] = p

ListsInv == ListTypes /\ Chains /\ NoLinks /\ Waking /\ Removing

-----------------------------------------------------------------------------
(* The steps                                                                *)

\* What the invariant says of the lists
LEMMA Lists ==
  ASSUME ListsInv
  PROVE  /\ \A e \in Event :
              /\ m_pWaitListHead[e] \in Task \cup {NULL}
              /\ Members(e) \subseteq Task /\ Closed(Task, m_pWaitListNext, Members(e))
              /\ m_pWaitListHead[e] # NULL => m_pWaitListHead[e] \in Members(e)
         /\ \A e, f \in Event : e # f => Members(e) \cap Members(f) = {}
         /\ \A t \in Task : inside[t] = NULL => t \notin doomed /\ \A e \in Event : t \notin Members(e)
<1>1. \A e \in Event : m_pWaitListHead[e] \in Task \cup {NULL}
  BY DEF ListsInv, ListTypes
<1>2. ASSUME NEW e \in Event
      PROVE  /\ Members(e) \subseteq Task /\ Closed(Task, m_pWaitListNext, Members(e))
             /\ m_pWaitListHead[e] # NULL => m_pWaitListHead[e] \in Members(e)
  BY <1>1, FromIsClosed DEF ListsInv, ListTypes, Members
<1>3. \A e, f \in Event : e # f => Members(e) \cap Members(f) = {}
  BY DEF ListsInv, Chains
<1>4. \A t \in Task : inside[t] = NULL => t \notin doomed /\ \A e \in Event : t \notin Members(e)
  BY NotATask DEF ListsInv, Chains
<1> QED
  BY <1>1, <1>2, <1>3, <1>4

\* A list none of whose tasks has another link stays as it is.
LEMMA OtherList ==
  ASSUME ListsInv, NEW e \in Event, NEW new \in LinkTypes,
         \A t \in Members(e) : new[t] = m_pWaitListNext[t]
  PROVE  From(Task, new, m_pWaitListHead[e]) = Members(e) /\ Chain(Task, new, m_pWaitListHead[e])
<1>1. /\ m_pWaitListNext \in LinkTypes /\ m_pWaitListHead[e] \in Task \cup {NULL}
      /\ Chain(Task, m_pWaitListNext, m_pWaitListHead[e])
  BY Lists DEF ListsInv, ListTypes, Chains
<1>2. From(Task, new, m_pWaitListHead[e]) = Members(e)
  BY <1>1, FromSame DEF Members
<1>3. Chain(Task, new, m_pWaitListHead[e])
  BY <1>1, ChainSame DEF Members
<1> QED
  BY <1>2, <1>3

\* No task is being woken outside WakeTasks().
LEMMA NoneDoomed ==
  ASSUME ListsInv, section.in # "wake"
  PROVE  doomed = {}
BY DEF ListsInv, Waking

LEMMA FreeSection == Free.in = "none"
BY DEF Free

LEMMA InitLists == WaitListInit => ListsInv /\ W!WaitSetInit
<1> SUFFICES ASSUME WaitListInit
             PROVE  ListsInv /\ W!WaitSetInit
  OBVIOUS
<1> USE DEF WaitListInit
<1>1. \A e \in Event : Members(e) = {}
  BY FromNull, NotATask DEF Members
<1>2. ListTypes
  BY DEF ListTypes, LinkTypes
<1>3. Chains
  BY <1>1 DEF Chains, Chain, Members
<1>4. NoLinks /\ Waking /\ Removing
  BY FreeSection DEF NoLinks, Waking, Removing
<1>5. W!WaitSetInit
  BY <1>1 DEF W!WaitSetInit
<1> QED
  BY <1>2, <1>3, <1>4, <1>5 DEF ListsInv

\* The steps that leave the lists alone
LEMMA SameLists ==
  ASSUME ListsInv, UNCHANGED <<lists, inside>>
  PROVE  \A e \in Event :
           Members(e)' = Members(e) /\ Chain(Task, m_pWaitListNext', m_pWaitListHead'[e])
BY DEF lists, Members, ListsInv, Chains

LEMMA StepBlock ==
  ASSUME ListsInv, NEW t \in Task, NEW e \in Event, BlockTask(t, e)
  PROVE  ListsInv' /\ W!Block(t, e)
<1> DEFINE new == [m_pWaitListNext EXCEPT ![t] = m_pWaitListHead[e]]
<1>0. /\ section = Free /\ inside[t] = NULL /\ section' = section /\ p' = p /\ pPrev' = pPrev
      /\ m_pWaitListNext' = new /\ m_pWaitListHead' = [m_pWaitListHead EXCEPT ![e] = t]
      /\ blocked' = blocked \cup {t} /\ inside' = [inside EXCEPT ![t] = e] /\ doomed' = doomed
  BY DEF BlockTask, Unlocked, loop
<1>1. doomed = {} /\ \A f \in Event : t \notin Members(f)
  BY <1>0, NoneDoomed, FreeSection, Lists
<1>2. ListTypes /\ Chains /\ NoLinks
  BY DEF ListsInv
<1>3. new \in LinkTypes /\ \A u \in Task \ {t} : new[u] = m_pWaitListNext[u]
  BY <1>2, Lists DEF ListTypes, LinkTypes
<1>4. From(Task, new, t) = {t} \cup Members(e) /\ Chain(Task, new, t)
  <2>1. m_pWaitListNext \in LinkTypes /\ Chain(Task, m_pWaitListNext, m_pWaitListHead[e])
    BY <1>2 DEF ListTypes, Chains
  <2>2. new[t] = m_pWaitListHead[e]
    BY <2>1 DEF LinkTypes
  <2> HIDE DEF new
  <2> QED
    BY <1>1, <1>3, <2>1, <2>2, ChainPush DEF Members
<1> HIDE DEF new
<1>5. m_pWaitListHead'[e] = t /\ \A f \in Event \ {e} : m_pWaitListHead'[f] = m_pWaitListHead[f]
  BY <1>0, <1>2 DEF ListTypes
<1>6. \A f \in Event \ {e} : Members(f)' = Members(f) /\ Chain(Task, new, m_pWaitListHead[f])
  <2> SUFFICES ASSUME NEW f \in Event \ {e}
               PROVE  Members(f)' = Members(f) /\ Chain(Task, new, m_pWaitListHead[f])
    OBVIOUS
  <2>1. Members(f) \subseteq Task /\ t \notin Members(f)
    BY <1>1, Lists
  <2>2. \A u \in Members(f) : new[u] = m_pWaitListNext[u]
    BY <1>3, <2>1
  <2>3. From(Task, new, m_pWaitListHead[f]) = Members(f) /\ Chain(Task, new, m_pWaitListHead[f])
    BY <1>3, <2>2, OtherList
  <2> QED
    BY <1>0, <1>5, <2>3 DEF Members
<1>7. Members(e)' = {t} \cup Members(e)
  BY <1>0, <1>4, <1>5 DEF Members
<1>8. ListTypes'
  <2>1. m_pWaitListHead' \in [Event -> Task \cup {NULL}] /\ inside' \in [Task -> Event \cup {NULL}]
    BY <1>0, <1>2 DEF ListTypes
  <2> QED
    BY <1>0, <1>2, <1>3, <2>1 DEF ListTypes
<1>9. Chains'
  <2>1. inside'[t] = e /\ \A u \in Task \ {t} : inside'[u] = inside[u]
    BY <1>0, <1>2 DEF ListTypes
  <2>2. \A f \in Event : Chain(Task, m_pWaitListNext', m_pWaitListHead'[f])
    BY <1>0, <1>4, <1>5, <1>6
  <2>3. ASSUME NEW f \in Event, NEW u \in Members(f)'
        PROVE  inside'[u] = f
    <3>1. CASE u = t
      BY <1>1, <1>6, <1>7, <2>1, <2>3, <3>1
    <3>2. CASE u # t
      <4>1. u \in Members(f)
        BY <1>6, <1>7, <2>3, <3>2
      <4>2. u \in Task /\ inside[u] = f
        BY <1>2, <4>1, Lists DEF Chains
      <4> QED
        BY <2>1, <3>2, <4>2
    <3> QED
      BY <3>1, <3>2
  <2> QED
    BY <1>0, <1>1, <2>2, <2>3 DEF Chains
<1>10. NoLinks'
  <2> SUFFICES ASSUME NEW u \in Task, \A f \in Event : u \notin Members(f)'
               PROVE  m_pWaitListNext'[u] = NULL
    BY DEF NoLinks
  <2>1. u # t /\ \A f \in Event : u \notin Members(f)
    BY <1>6, <1>7
  <2>2. m_pWaitListNext[u] = NULL
    BY <1>0, <1>1, <1>2, <2>1, FreeSection DEF NoLinks
  <2> QED
    BY <1>0, <1>3, <2>1, <2>2
<1>11. Waking' /\ Removing'
  BY <1>0, <1>1, FreeSection DEF Waking, Removing
<1>12. W!Block(t, e)
  <2>1. \A f \in Event : t \notin [g \in Event |-> Members(g)][f]
    BY <1>1
  <2>2. [g \in Event |-> Members(g)]' =
          [[g \in Event |-> Members(g)] EXCEPT ![e] = @ \cup {t}]
    BY <1>6, <1>7
  <2>3. (blocked \ doomed)' = (blocked \ doomed) \cup {t}
    BY <1>0, <1>1
  <2> QED
    BY <2>1, <2>2, <2>3 DEF W!Block
<1> QED
  BY <1>8, <1>9, <1>10, <1>11, <1>12 DEF ListsInv

LEMMA StepTimeOut ==
  ASSUME ListsInv, NEW t \in Task, TimeOut(t)
  PROVE  ListsInv' /\ W!TimeOut(t)
<1>1. /\ section = Free /\ t \in blocked /\ blocked' = blocked \ {t}
      /\ UNCHANGED <<lists, inside, section, p, pPrev, doomed>>
  BY DEF TimeOut, Unlocked, loop
<1>2. doomed = {}
  BY <1>1, NoneDoomed, FreeSection
<1>3. \A e \in Event : Members(e)' = Members(e)
  BY <1>1, SameLists
<1>4. ListsInv'
  BY <1>1, FreeSection DEF ListsInv, ListTypes, Chains, NoLinks, Waking, Removing, lists, Members
<1>5. W!TimeOut(t)
  BY <1>1, <1>2, <1>3 DEF W!TimeOut
<1> QED
  BY <1>4, <1>5

LEMMA StepBeginRemove ==
  ASSUME ListsInv, NEW t \in Task, BeginRemove(t)
  PROVE  ListsInv' /\ UNCHANGED W!waitSetVars
<1>1. /\ section = Free /\ inside[t] # NULL /\ t \notin blocked
      /\ section' = [in |-> "remove", ev |-> inside[t], by |-> t]
      /\ p' = m_pWaitListHead[inside[t]] /\ pPrev' = NULL
      /\ UNCHANGED <<lists, blocked, inside, doomed>>
  BY DEF BeginRemove, Unlocked
<1>2. inside[t] \in Event /\ ListTypes /\ Chains /\ NoLinks
  BY <1>1 DEF ListsInv, ListTypes
<1>3. doomed = {}
  BY <1>1, NoneDoomed, FreeSection
<1>4. \A e \in Event : Members(e)' = Members(e) /\ Chain(Task, m_pWaitListNext', m_pWaitListHead'[e])
  BY <1>1, SameLists
<1>5. section'.in = "remove" /\ section'.by = t /\ section'.ev = inside[t]
  BY <1>1
<1>6. ListTypes'
  BY <1>1, <1>2, Lists DEF ListTypes, lists
<1>7. Chains'
  BY <1>1, <1>2, <1>3, <1>4 DEF Chains
<1>8. NoLinks' /\ Waking'
  BY <1>1, <1>2, <1>3, <1>4, <1>5, FreeSection DEF NoLinks, Waking, lists
<1>9. Removing'
  <2>1. p' \in Members(inside[t]) \cup {NULL} /\ p' = m_pWaitListHead'[inside[t]]
    BY <1>1, <1>2, Lists DEF lists
  <2>2. From(Task, m_pWaitListNext', p') = Members(inside[t])
    BY <1>1 DEF Members, lists
  <2> QED
    BY <1>1, <1>2, <1>4, <1>5, <2>1, <2>2 DEF Removing
<1>10. UNCHANGED W!waitSetVars
  BY <1>1, <1>4 DEF W!waitSetVars
<1> QED
  BY <1>6, <1>7, <1>8, <1>9, <1>10 DEF ListsInv

\* BlockTask() at a task that is not the one it looks for
LEMMA StepWalk ==
  ASSUME ListsInv, RemoveStep, p # section.by
  PROVE  ListsInv' /\ UNCHANGED W!waitSetVars
<1>1. /\ section.in = "remove" /\ p # NULL /\ pPrev' = p /\ p' = m_pWaitListNext[p]
      /\ UNCHANGED <<lists, blocked, inside, section, doomed>>
  BY DEF RemoveStep, lists
<1>2. /\ ListTypes /\ Chains /\ NoLinks /\ Waking /\ Removing
      /\ section.ev \in Event /\ section.by \in Task
  BY <1>1, FreeSection DEF ListsInv, ListTypes
<1>3. \A e \in Event : Members(e)' = Members(e) /\ Chain(Task, m_pWaitListNext', m_pWaitListHead'[e])
  BY <1>1, SameLists
<1>4. p \in Members(section.ev) /\ p \in Task
  BY <1>1, <1>2, Lists DEF Removing
<1>5. p' \in Task \cup {NULL} /\ p' \in Members(section.ev) \cup {NULL}
  <2>1. Closed(Task, m_pWaitListNext, Members(section.ev)) /\ Members(section.ev) \subseteq Task
    BY <1>2, Lists
  <2> QED
    BY <1>1, <1>2, <1>4, <2>1 DEF Closed, ListTypes, LinkTypes
<1>6. ListTypes'
  BY <1>1, <1>2, <1>4, <1>5, FreeSection DEF ListTypes, lists
<1>7. Chains'
  BY <1>1, <1>2, <1>3 DEF Chains
<1>8. NoLinks' /\ Waking'
  BY <1>1, <1>2, <1>3 DEF NoLinks, Waking, lists
<1>9. Removing'
  <2>1. From(Task, m_pWaitListNext, p) = {p} \cup From(Task, m_pWaitListNext, p')
    BY <1>1, <1>2, <1>4, FromStep DEF ListTypes
  <2>2. section.by \in Members(section.ev) => section.by \in From(Task, m_pWaitListNext', p')
    BY <1>1, <1>2, <2>1 DEF Removing, lists
  <2>3. p # NULL
    BY <1>1
  <2>4. pPrev' \in Members(section.ev) \ {section.by} /\ m_pWaitListNext'[pPrev'] = p' /\ pPrev' # NULL
    BY <1>1, <1>4 DEF lists
  <2>5. inside'[section.by] = section.ev /\ section.by \notin blocked'
    BY <1>1, <1>2 DEF Removing
  <2> QED
    BY <1>1, <1>2, <1>3, <1>5, <2>2, <2>4, <2>5 DEF Removing
<1>10. UNCHANGED W!waitSetVars
  BY <1>1, <1>3 DEF W!waitSetVars
<1> QED
  BY <1>6, <1>7, <1>8, <1>9, <1>10 DEF ListsInv

\* What unlinking a task does to its list, and to the others
LEMMA Unlinked ==
  ASSUME ListsInv, RemoveStep, p = section.by, NEW e \in Event, e = section.ev
  PROVE  /\ m_pWaitListHead' \in [Event -> Task \cup {NULL}] /\ m_pWaitListNext' \in LinkTypes
         /\ p \in Members(e) /\ m_pWaitListNext'[p] = m_pWaitListNext[p]
         /\ \A u \in Task : u \notin Members(e) => m_pWaitListNext'[u] = m_pWaitListNext[u]
         /\ Members(e)' = Members(e) \ {p}
         /\ \A f \in Event \ {e} : Members(f)' = Members(f)
         /\ \A f \in Event : Chain(Task, m_pWaitListNext', m_pWaitListHead'[f])
<1>1. section.in = "remove" /\ p # NULL
  BY DEF RemoveStep
<1>2. ListTypes /\ Chains /\ Removing /\ p \in Task
  BY <1>1, FreeSection DEF ListsInv, ListTypes
<1>3. p \in Members(e)
  BY <1>1, <1>2 DEF Removing
<1>4. m_pWaitListHead[e] \in Task /\ Members(e) = From(Task, m_pWaitListNext, m_pWaitListHead[e])
  BY <1>2, <1>3, Lists, FromNull, NotATask DEF Members
<1>5. m_pWaitListNext \in LinkTypes /\ Chain(Task, m_pWaitListNext, m_pWaitListHead[e])
  BY <1>2 DEF ListTypes, Chains
<1>6. /\ m_pWaitListHead' \in [Event -> Task \cup {NULL}] /\ m_pWaitListNext' \in LinkTypes
      /\ m_pWaitListNext'[p] = m_pWaitListNext[p]
      /\ \A u \in Task : u \notin Members(e) => m_pWaitListNext'[u] = m_pWaitListNext[u]
      /\ \A f \in Event \ {e} : m_pWaitListHead'[f] = m_pWaitListHead[f]
      /\ Members(e)' = Members(e) \ {p} /\ Chain(Task, m_pWaitListNext', m_pWaitListHead'[e])
  <2>1. CASE pPrev # NULL
    <3> DEFINE new == [m_pWaitListNext EXCEPT ![pPrev] = m_pWaitListNext[p]]
    <3>1. m_pWaitListNext' = new /\ m_pWaitListHead' = m_pWaitListHead
      BY <2>1 DEF RemoveStep
    <3>2. pPrev \in Members(e) /\ pPrev # p /\ m_pWaitListNext[pPrev] = p
      BY <1>1, <1>2, <1>3, <2>1 DEF Removing
    <3>3. new \in LinkTypes /\ From(Task, new, m_pWaitListHead[e]) = Members(e) \ {p} /\ Chain(Task, new, m_pWaitListHead[e])
      <4>1. /\ pPrev \in From(Task, m_pWaitListNext, m_pWaitListHead[e])
            /\ p \in From(Task, m_pWaitListNext, m_pWaitListHead[e])
        BY <1>3, <1>4, <3>2
      <4>2. /\ new \in LinkTypes /\ new[pPrev] = m_pWaitListNext[p]
            /\ \A u \in Task \ {pPrev} : new[u] = m_pWaitListNext[u]
        BY <1>2, <1>5, <3>2, Lists DEF LinkTypes
      <4> HIDE DEF new
      <4>3. /\ From(Task, new, m_pWaitListHead[e]) = From(Task, m_pWaitListNext, m_pWaitListHead[e]) \ {p}
            /\ Chain(Task, new, m_pWaitListHead[e])
        BY <1>4, <1>5, <3>2, <4>1, <4>2, ChainUnlink
      <4> QED
        BY <1>4, <4>2, <4>3
    <3>4. new[p] = m_pWaitListNext[p] /\ \A u \in Task : u \notin Members(e) => new[u] = m_pWaitListNext[u]
      BY <1>2, <1>5, <3>2 DEF LinkTypes
    <3> HIDE DEF new
    <3>5. Members(e)' = Members(e) \ {p}
      <4>1. Members(e)' = From(Task, m_pWaitListNext', m_pWaitListHead'[e])
        BY DEF Members
      <4> QED
        BY <3>1, <3>3, <4>1
    <3> QED
      BY <1>2, <3>1, <3>3, <3>4, <3>5 DEF ListTypes
  <2>2. CASE pPrev = NULL
    <3>1. /\ m_pWaitListHead' = [m_pWaitListHead EXCEPT ![e] = m_pWaitListNext[p]]
          /\ m_pWaitListNext' = m_pWaitListNext
      BY <2>2 DEF RemoveStep
    <3>2. p = m_pWaitListHead[e]
      BY <1>1, <1>2, <1>3, <2>2 DEF Removing
    <3>3. /\ p \notin From(Task, m_pWaitListNext, m_pWaitListNext[p])
          /\ Chain(Task, m_pWaitListNext, m_pWaitListNext[p])
          /\ From(Task, m_pWaitListNext, p) = {p} \cup From(Task, m_pWaitListNext, m_pWaitListNext[p])
      BY <1>2, <1>5, <3>2, ChainRest
    <3>4. m_pWaitListNext[p] \in Task \cup {NULL}
      BY <1>2, <1>5 DEF LinkTypes
    <3>5. /\ m_pWaitListHead' \in [Event -> Task \cup {NULL}] /\ m_pWaitListHead'[e] = m_pWaitListNext[p]
          /\ \A f \in Event \ {e} : m_pWaitListHead'[f] = m_pWaitListHead[f]
      BY <1>2, <3>1, <3>4 DEF ListTypes
    <3>6. Members(e)' = Members(e) \ {p}
      <4>1. Members(e)' = From(Task, m_pWaitListNext', m_pWaitListHead'[e])
        BY DEF Members
      <4>2. Members(e)' = From(Task, m_pWaitListNext, m_pWaitListNext[p])
        BY <3>1, <3>5, <4>1
      <4>3. Members(e) = {p} \cup From(Task, m_pWaitListNext, m_pWaitListNext[p])
        BY <1>4, <3>2, <3>3
      <4> QED
        BY <3>3, <4>2, <4>3
    <3> QED
      BY <1>5, <3>1, <3>3, <3>5, <3>6
  <2> QED
    BY <2>1, <2>2
<1>7. ASSUME NEW f \in Event \ {e}
      PROVE  Members(f)' = Members(f) /\ Chain(Task, m_pWaitListNext', m_pWaitListHead'[f])
  <2>1. \A u \in Members(f) : m_pWaitListNext'[u] = m_pWaitListNext[u]
    <3>1. Members(f) \subseteq Task /\ Members(f) \cap Members(e) = {}
      BY <1>2, Lists
    <3> QED
      BY <1>6, <3>1
  <2>2. From(Task, m_pWaitListNext', m_pWaitListHead[f]) = Members(f) /\ Chain(Task, m_pWaitListNext', m_pWaitListHead[f])
    BY <1>6, <2>1, OtherList
  <2> QED
    BY <1>6, <2>2 DEF Members
<1> QED
  BY <1>3, <1>6, <1>7

\* BlockTask() unlinks its task.
LEMMA StepUnlink ==
  ASSUME ListsInv, RemoveStep, p = section.by
  PROVE  ListsInv' /\ \E t \in Task, e \in Event : W!Leave(t, e)
<1>1. /\ section.in = "remove" /\ p # NULL /\ pPrev' = p /\ p' = m_pWaitListNext'[p]
      /\ UNCHANGED <<blocked, inside, section, doomed>>
  BY DEF RemoveStep
<1>2. /\ ListTypes /\ Chains /\ NoLinks /\ Waking /\ Removing
      /\ section.ev \in Event /\ p \in Task /\ section.by \in Task
  BY <1>1, FreeSection DEF ListsInv, ListTypes
<1>3. doomed = {}
  BY <1>1, NoneDoomed
<1> PICK e \in Event : e = section.ev
  BY <1>2
<1>4. /\ m_pWaitListHead' \in [Event -> Task \cup {NULL}] /\ m_pWaitListNext' \in LinkTypes
      /\ p \in Members(e) /\ m_pWaitListNext'[p] = m_pWaitListNext[p]
      /\ \A u \in Task : u \notin Members(e) => m_pWaitListNext'[u] = m_pWaitListNext[u]
      /\ Members(e)' = Members(e) \ {p}
      /\ \A f \in Event \ {e} : Members(f)' = Members(f)
      /\ \A f \in Event : Chain(Task, m_pWaitListNext', m_pWaitListHead'[f])
  BY Unlinked
<1>5. p' \in Task \cup {NULL} /\ p' \in Members(e)' \cup {NULL}
  <2>0. Members(e) \subseteq Task /\ Closed(Task, m_pWaitListNext, Members(e))
    BY Lists
  <2>1. p' \in Members(e) \cup {NULL} /\ Members(e) \subseteq Task
    BY <1>1, <1>2, <1>4, <2>0 DEF Closed, ListTypes, LinkTypes
  <2>2. p' # p
    <3> SUFFICES ASSUME m_pWaitListNext[p] = p
                 PROVE  FALSE
      BY <1>1, <1>4
    <3>1. Chain(Task, m_pWaitListNext, m_pWaitListHead[e])
      BY <1>2 DEF Chains
    <3>2. m_pWaitListHead[e] # p
      BY <1>4, <3>1 DEF Chain, Members
    <3>3. pPrev \in Members(e) /\ pPrev # p /\ m_pWaitListNext[pPrev] = p
      BY <1>1, <1>2, <1>4, <3>2 DEF Removing
    <3> QED
      BY <1>1, <1>2, <1>4, <3>1, <3>3 DEF Chain, Members
  <2> QED
    BY <1>4, <2>1, <2>2
<1>6. ListTypes'
  BY <1>1, <1>2, <1>4, <1>5, FreeSection DEF ListTypes
<1>7. Chains'
  <2>1. \A f \in Event : Members(f)' \subseteq Members(f)
    <3> SUFFICES ASSUME NEW f \in Event
                 PROVE  Members(f)' \subseteq Members(f)
      OBVIOUS
    <3>1. CASE f = e
      BY <1>4, <3>1
    <3>2. CASE f # e
      BY <1>4, <3>2
    <3> QED
      BY <3>1, <3>2
  <2> QED
    BY <1>1, <1>2, <1>3, <1>4, <2>1 DEF Chains
<1>8. NoLinks'
  <2> SUFFICES ASSUME NEW u \in Task, u # section.by, \A f \in Event : u \notin Members(f)'
               PROVE  m_pWaitListNext'[u] = NULL
    BY <1>1 DEF NoLinks
  <2>1. \A f \in Event : u \notin Members(f)
    <3> SUFFICES ASSUME NEW f \in Event
                 PROVE  u \notin Members(f)
      OBVIOUS
    <3>1. CASE f = e
      <4>1. u \notin Members(e) \ {p}
        BY <1>2, <1>4
      <4> QED
        BY <3>1, <4>1
    <3>2. CASE f # e
      BY <1>4, <3>2
    <3> QED
      BY <3>1, <3>2
  <2>2. m_pWaitListNext[u] = NULL
    BY <1>2, <1>3, <2>1 DEF NoLinks
  <2> QED
    BY <1>2, <1>4, <2>1, <2>2
<1>9. Waking' /\ Removing'
  BY <1>1, <1>2, <1>3, <1>4, <1>5 DEF Waking, Removing
<1>10. W!Leave(p, e)
  <2>1. p \notin blocked \ doomed
    BY <1>1, <1>2 DEF Removing
  <2>2. [g \in Event |-> Members(g)]' =
          [[g \in Event |-> Members(g)] EXCEPT ![e] = @ \ {p}]
    <3>1. ASSUME NEW g \in Event
          PROVE  Members(g)' = IF g = e THEN Members(g) \ {p} ELSE Members(g)
      <4>1. CASE g = e
        BY <1>4, <4>1
      <4>2. CASE g # e
        BY <1>4, <4>2
      <4> QED
        BY <4>1, <4>2
    <3> QED
      BY <1>2, <3>1
  <2> QED
    BY <1>1, <2>1, <2>2 DEF W!Leave
<1> QED
  BY <1>2, <1>6, <1>7, <1>8, <1>9, <1>10 DEF ListsInv

\* BlockTask() clears the link of its task, which is on no list any more.
LEMMA StepEndRemove ==
  ASSUME ListsInv, EndRemove
  PROVE  ListsInv' /\ UNCHANGED W!waitSetVars
<1> DEFINE t == section.by
           new == [m_pWaitListNext EXCEPT ![t] = NULL]
<1>1. /\ section.in = "remove" /\ p = NULL /\ section' = Free /\ pPrev' = NULL
      /\ m_pWaitListNext' = new /\ inside' = [inside EXCEPT ![t] = NULL]
      /\ UNCHANGED <<m_pWaitListHead, blocked, p, doomed>>
  BY DEF EndRemove
<1>2. /\ ListTypes /\ Chains /\ NoLinks /\ Waking /\ Removing
      /\ section.ev \in Event /\ t \in Task
  BY <1>1, FreeSection DEF ListsInv, ListTypes
<1>3. doomed = {}
  BY <1>1, NoneDoomed
<1>4. \A e \in Event : t \notin Members(e)
  <2>1. inside[t] = section.ev /\ t \notin Members(section.ev)
    BY <1>1, <1>2, FromNull, NotATask DEF Removing
  <2> QED
    BY <1>2, <2>1 DEF Chains
<1>5. new \in LinkTypes /\ new[t] = NULL /\ \A u \in Task \ {t} : new[u] = m_pWaitListNext[u]
  BY <1>2 DEF ListTypes, LinkTypes
<1>6. inside' \in [Task -> Event \cup {NULL}] /\ \A u \in Task \ {t} : inside'[u] = inside[u]
  BY <1>1, <1>2 DEF ListTypes
<1> HIDE DEF t, new
<1>7. \A e \in Event : Members(e)' = Members(e) /\ Chain(Task, m_pWaitListNext', m_pWaitListHead'[e])
  <2> SUFFICES ASSUME NEW e \in Event
               PROVE  Members(e)' = Members(e) /\ Chain(Task, m_pWaitListNext', m_pWaitListHead'[e])
    OBVIOUS
  <2>1. Members(e) \subseteq Task /\ t \notin Members(e)
    BY <1>4, Lists
  <2>2. \A u \in Members(e) : new[u] = m_pWaitListNext[u]
    BY <1>5, <2>1
  <2>3. From(Task, new, m_pWaitListHead[e]) = Members(e) /\ Chain(Task, new, m_pWaitListHead[e])
    BY <1>5, <2>2, OtherList
  <2>4. Members(e)' = From(Task, m_pWaitListNext', m_pWaitListHead'[e])
    BY DEF Members
  <2> QED
    BY <1>1, <2>3, <2>4
<1>8. ListTypes'
  BY <1>1, <1>2, <1>5, <1>6 DEF ListTypes
<1>9. Chains'
  <2>1. ASSUME NEW e \in Event, NEW u \in Members(e)
        PROVE  inside'[u] = e
    <3>1. u \in Task /\ u # t /\ inside[u] = e
      BY <1>2, <1>4, <2>1, Lists DEF Chains
    <3> QED
      BY <1>6, <3>1
  <2> QED
    BY <1>1, <1>3, <1>7, <2>1 DEF Chains
<1>10. NoLinks'
  <2> SUFFICES ASSUME NEW u \in Task, \A e \in Event : u \notin Members(e)'
               PROVE  m_pWaitListNext'[u] = NULL
    BY DEF NoLinks
  <2>1. \A e \in Event : u \notin Members(e)
    BY <1>7
  <2>2. u # t => m_pWaitListNext[u] = NULL
    BY <1>2, <1>3, <2>1 DEF NoLinks, t
  <2> QED
    BY <1>1, <1>5, <2>2
<1>11. Waking' /\ Removing'
  BY <1>1, <1>3, FreeSection DEF Waking, Removing
<1>12. UNCHANGED W!waitSetVars
  BY <1>1, <1>7 DEF W!waitSetVars
<1> QED
  BY <1>8, <1>9, <1>10, <1>11, <1>12 DEF ListsInv

LEMMA StepBeginWake ==
  ASSUME ListsInv, NEW e \in Event, BeginWake(e)
  PROVE  ListsInv' /\ W!Wake(e)
<1>1. /\ section = Free /\ m_pWaitListHead[e] # NULL /\ Members(e) \subseteq blocked
      /\ section' = [in |-> "wake", ev |-> e, by |-> NULL] /\ p' = m_pWaitListHead[e]
      /\ m_pWaitListHead' = [m_pWaitListHead EXCEPT ![e] = NULL] /\ doomed' = Members(e)
      /\ UNCHANGED <<m_pWaitListNext, blocked, inside, pPrev>>
  BY DEF BeginWake, Unlocked
<1>2. ListTypes /\ Chains /\ NoLinks /\ m_pWaitListHead[e] \in Task
  BY <1>1, Lists DEF ListsInv
<1>3. doomed = {} /\ pPrev = NULL
  BY <1>1, <1>2, NoneDoomed, FreeSection DEF ListTypes
<1>4. m_pWaitListHead'[e] = NULL /\ \A f \in Event \ {e} : m_pWaitListHead'[f] = m_pWaitListHead[f]
  BY <1>1, <1>2 DEF ListTypes
<1>5. Members(e)' = {} /\ \A f \in Event \ {e} : Members(f)' = Members(f)
  BY <1>1, <1>4, FromNull, NotATask DEF Members
<1>6. \A f \in Event : Chain(Task, m_pWaitListNext', m_pWaitListHead'[f])
  <2>1. Chain(Task, m_pWaitListNext, NULL)
    BY FromNull, NotATask DEF Chain
  <2> QED
    BY <1>1, <1>2, <1>4, <2>1 DEF Chains
<1>7. section'.in = "wake" /\ section' \in [in : {"wake"}, ev : Event, by : {NULL}]
  BY <1>1
<1>8. ListTypes'
  <2>1. m_pWaitListHead' \in [Event -> Task \cup {NULL}]
    BY <1>1, <1>2 DEF ListTypes
  <2>2. Members(e) \subseteq Task
    BY Lists
  <2> QED
    BY <1>1, <1>2, <1>3, <1>7, <2>1, <2>2 DEF ListTypes
<1>9. Chains'
  <2>1. \A u \in doomed' : inside'[u] # NULL
    BY <1>1, <1>2, NotATask DEF Chains
  <2>2. ASSUME NEW f \in Event
        PROVE  Members(f)' \cap doomed' = {} /\ \A u \in Members(f)' : inside'[u] = f
    <3>1. CASE f = e
      BY <1>5, <3>1
    <3>2. CASE f # e
      <4>1. Members(f)' = Members(f) /\ Members(f) \cap Members(e) = {}
        BY <1>5, <3>2, Lists
      <4> QED
        BY <1>1, <1>2, <4>1 DEF Chains
    <3> QED
      BY <3>1, <3>2
  <2> QED
    BY <1>6, <2>1, <2>2 DEF Chains
<1>10. NoLinks'
  <2> SUFFICES ASSUME NEW u \in Task, u \notin doomed', \A f \in Event : u \notin Members(f)'
               PROVE  m_pWaitListNext'[u] = NULL
    BY DEF NoLinks
  <2>1. \A f \in Event : u \notin Members(f)
    BY <1>1, <1>5
  <2> QED
    BY <1>1, <1>2, <1>3, <2>1, FreeSection DEF NoLinks
<1>11. Waking' /\ Removing'
  BY <1>1, <1>2, <1>7 DEF Waking, Removing, Members, Chains
<1>12. W!Wake(e)
  <2>1. [g \in Event |-> Members(g)]' = [[g \in Event |-> Members(g)] EXCEPT ![e] = {}]
    <3>1. ASSUME NEW g \in Event
          PROVE  Members(g)' = IF g = e THEN {} ELSE Members(g)
      <4>1. CASE g = e
        BY <1>5, <4>1
      <4>2. CASE g # e
        BY <1>5, <4>2
      <4> QED
        BY <4>1, <4>2
    <3> QED
      BY <3>1
  <2>2. [g \in Event |-> Members(g)][e] = Members(e)
    OBVIOUS
  <2>3. (blocked \ doomed)' = (blocked \ doomed) \ Members(e)
    BY <1>1, <1>3
  <2> QED
    BY <1>1, <1>3, <2>1, <2>2, <2>3 DEF W!Wake
<1> QED
  BY <1>8, <1>9, <1>10, <1>11, <1>12 DEF ListsInv

\* WakeTasks() readies the task at its pointer, the first one of those left.
LEMMA StepWake ==
  ASSUME ListsInv, WakeStep
  PROVE  ListsInv' /\ UNCHANGED W!waitSetVars
<1> DEFINE new == [m_pWaitListNext EXCEPT ![p] = NULL]
<1>1. /\ section.in = "wake" /\ p # NULL /\ blocked' = blocked \ {p}
      /\ m_pWaitListNext' = new /\ p' = m_pWaitListNext[p] /\ doomed' = doomed \ {p}
      /\ UNCHANGED <<m_pWaitListHead, inside, section, pPrev>>
  BY DEF WakeStep
<1>2. /\ ListTypes /\ Chains /\ NoLinks /\ p \in Task
      /\ doomed = From(Task, m_pWaitListNext, p) /\ Chain(Task, m_pWaitListNext, p)
  BY <1>1 DEF ListsInv, ListTypes, Waking
<1>3. new \in LinkTypes /\ new[p] = NULL /\ \A u \in Task \ {p} : new[u] = m_pWaitListNext[u]
  BY <1>2 DEF ListTypes, LinkTypes
<1>4. m_pWaitListNext \in LinkTypes /\ p' \in Task \cup {NULL}
  BY <1>1, <1>2 DEF ListTypes, LinkTypes
<1>5. p \in doomed /\ doomed' = From(Task, m_pWaitListNext, p') /\ Chain(Task, m_pWaitListNext, p')
  <2>1. /\ p \notin From(Task, m_pWaitListNext, m_pWaitListNext[p])
        /\ Chain(Task, m_pWaitListNext, m_pWaitListNext[p])
        /\ From(Task, m_pWaitListNext, p) = {p} \cup From(Task, m_pWaitListNext, m_pWaitListNext[p])
    BY <1>2, <1>4, ChainRest
  <2> QED
    BY <1>1, <1>2, <2>1
<1> HIDE DEF new
<1>6. \A e \in Event : Members(e)' = Members(e) /\ Chain(Task, m_pWaitListNext', m_pWaitListHead'[e])
  <2> SUFFICES ASSUME NEW e \in Event
               PROVE  Members(e)' = Members(e) /\ Chain(Task, m_pWaitListNext', m_pWaitListHead'[e])
    OBVIOUS
  <2>1. Members(e) \subseteq Task /\ p \notin Members(e)
    BY <1>2, <1>5, Lists DEF Chains
  <2>2. \A u \in Members(e) : new[u] = m_pWaitListNext[u]
    BY <1>3, <2>1
  <2>3. From(Task, new, m_pWaitListHead[e]) = Members(e) /\ Chain(Task, new, m_pWaitListHead[e])
    BY <1>3, <2>2, OtherList
  <2>4. Members(e)' = From(Task, m_pWaitListNext', m_pWaitListHead'[e])
    BY DEF Members
  <2> QED
    BY <1>1, <2>3, <2>4
<1>7. doomed' \subseteq Task /\ \A u \in doomed' : new[u] = m_pWaitListNext[u]
  BY <1>1, <1>2, <1>3 DEF ListTypes
<1>8. Waking' /\ Removing'
  <2> DEFINE q == m_pWaitListNext[p]
  <2>1. q \in Task \cup {NULL} /\ doomed' = From(Task, m_pWaitListNext, q) /\ Chain(Task, m_pWaitListNext, q)
    BY <1>1, <1>4, <1>5
  <2> HIDE DEF q
  <2>2. From(Task, new, q) = doomed' /\ Chain(Task, new, q)
    BY <1>3, <1>4, <1>7, <2>1, FromSame, ChainSame
  <2> QED
    BY <1>1, <2>2 DEF Waking, Removing, q
<1>9. ListTypes'
  BY <1>1, <1>2, <1>3, <1>4, <1>7, FreeSection DEF ListTypes
<1>10. Chains'
  BY <1>1, <1>2, <1>6 DEF Chains
<1>11. NoLinks'
  <2> SUFFICES ASSUME NEW u \in Task, u \notin doomed', \A e \in Event : u \notin Members(e)'
               PROVE  m_pWaitListNext'[u] = NULL
    BY DEF NoLinks
  <2>1. u # p => m_pWaitListNext[u] = NULL
    BY <1>1, <1>2, <1>6 DEF NoLinks
  <2> QED
    BY <1>1, <1>3, <2>1
<1>12. UNCHANGED W!waitSetVars
  <2>1. (blocked \ doomed)' = blocked \ doomed
    BY <1>1, <1>5
  <2> QED
    BY <1>6, <2>1 DEF W!waitSetVars
<1> QED
  BY <1>8, <1>9, <1>10, <1>11, <1>12 DEF ListsInv

LEMMA StepEndWake ==
  ASSUME ListsInv, EndWake
  PROVE  ListsInv' /\ UNCHANGED W!waitSetVars
<1>1. /\ section.in = "wake" /\ p = NULL /\ section' = Free
      /\ UNCHANGED <<lists, blocked, inside, p, pPrev, doomed>>
  BY DEF EndWake
<1>2. ListTypes /\ Chains /\ NoLinks /\ doomed = {} /\ pPrev = NULL
  BY <1>1, FreeSection, FromNull, NotATask DEF ListsInv, ListTypes, Waking
<1>3. \A e \in Event : Members(e)' = Members(e) /\ Chain(Task, m_pWaitListNext', m_pWaitListHead'[e])
  BY <1>1, SameLists
<1>4. ListTypes'
  BY <1>1, <1>2 DEF ListTypes, lists
<1>5. Chains'
  BY <1>1, <1>2, <1>3 DEF Chains
<1>6. NoLinks'
  BY <1>1, <1>2, <1>3 DEF NoLinks, lists
<1>7. Waking' /\ Removing'
  BY <1>1, <1>2, FreeSection DEF Waking, Removing
<1>8. UNCHANGED W!waitSetVars
  BY <1>1, <1>3 DEF W!waitSetVars
<1> QED
  BY <1>4, <1>5, <1>6, <1>7, <1>8 DEF ListsInv

LEMMA ListSteps ==
  ASSUME ListsInv, [WaitListNext]_waitListVars
  PROVE  ListsInv' /\ [W!WaitSetNext]_(W!waitSetVars)
<1>1. CASE UNCHANGED waitListVars
  <2>1. UNCHANGED <<lists, blocked, inside, section, p, pPrev, doomed>>
    BY <1>1 DEF waitListVars, loop
  <2>2. \A e \in Event : Members(e)' = Members(e)
    BY <2>1, SameLists
  <2>3. ListsInv'
    BY <2>1 DEF ListsInv, ListTypes, Chains, NoLinks, Waking, Removing, lists, Members
  <2>4. UNCHANGED W!waitSetVars
    BY <2>1, <2>2 DEF W!waitSetVars
  <2> QED
    BY <2>3, <2>4
<1>2. ASSUME NEW t \in Task, NEW e \in Event, BlockTask(t, e)
      PROVE  ListsInv' /\ [W!WaitSetNext]_(W!waitSetVars)
  <2>1. ListsInv' /\ W!Block(t, e)
    BY <1>2, StepBlock
  <2> QED
    BY <2>1 DEF W!WaitSetNext
<1>3. ASSUME NEW t \in Task, TimeOut(t)
      PROVE  ListsInv' /\ [W!WaitSetNext]_(W!waitSetVars)
  <2>1. ListsInv' /\ W!TimeOut(t)
    BY <1>3, StepTimeOut
  <2> QED
    BY <2>1 DEF W!WaitSetNext
<1>4. ASSUME NEW t \in Task, BeginRemove(t)
      PROVE  ListsInv' /\ [W!WaitSetNext]_(W!waitSetVars)
  BY <1>4, StepBeginRemove
<1>5. ASSUME RemoveStep
      PROVE  ListsInv' /\ [W!WaitSetNext]_(W!waitSetVars)
  <2>1. CASE p = section.by
    <3>1. ListsInv' /\ \E t \in Task, e \in Event : W!Leave(t, e)
      BY <1>5, <2>1, StepUnlink
    <3> QED
      BY <3>1 DEF W!WaitSetNext
  <2>2. CASE p # section.by
    BY <1>5, <2>2, StepWalk
  <2> QED
    BY <2>1, <2>2
<1>6. ASSUME NEW e \in Event, BeginWake(e)
      PROVE  ListsInv' /\ [W!WaitSetNext]_(W!waitSetVars)
  <2>1. ListsInv' /\ W!Wake(e)
    BY <1>6, StepBeginWake
  <2> QED
    BY <2>1 DEF W!WaitSetNext
<1>7. ASSUME EndRemove \/ WakeStep \/ EndWake
      PROVE  ListsInv' /\ [W!WaitSetNext]_(W!waitSetVars)
  BY <1>7, StepEndRemove, StepWake, StepEndWake
<1> QED
  BY <1>1, <1>2, <1>3, <1>4, <1>5, <1>6, <1>7 DEF WaitListNext

LEMMA ListsOK == ListsInv => PointersOK
<1> SUFFICES ASSUME ListsInv, section = Free
             PROVE  /\ \A t \in Task : inside[t] = NULL => m_pWaitListNext[t] = NULL
                    /\ \A e, f \in Event : e # f => Members(e) \cap Members(f) = {}
                    /\ \A e \in Event : \A t \in Members(e) : inside[t] = e
  BY DEF PointersOK, Unlocked
<1>1. \A t \in Task : inside[t] = NULL => m_pWaitListNext[t] = NULL
  BY Lists, FreeSection DEF ListsInv, NoLinks
<1>2. \A e \in Event : \A t \in Members(e) : inside[t] = e
  BY DEF ListsInv, Chains
<1> QED
  BY <1>1, <1>2, Lists

\* Between the critical sections of BlockTask() and WakeTasks() no task outside
\* of BlockTask() has a link, and no task is on two lists or on one it does not
\* wait on, whatever was unlinked or woken before, and in which order.
THEOREM PointersAreSound == WaitListSpec => []PointersOK
<1>1. WaitListInit => ListsInv
  BY InitLists
<1>2. ListsInv /\ [WaitListNext]_waitListVars => ListsInv'
  BY ListSteps
<1> QED
  BY <1>1, <1>2, ListsOK, PTL DEF WaitListSpec

\* The linked lists are the sets of waiting tasks that module Scheduler works
\* with: a loop of BlockTask() or WakeTasks() changes the set in one step, and
\* its other steps do not show (scheduler.cpp, m_pWaitListNext).
THEOREM ListsAreSets == WaitListSpec => ImplementsWaitSet
<1>1. WaitListInit => ListsInv /\ W!WaitSetInit
  BY InitLists
<1>2. ListsInv /\ [WaitListNext]_waitListVars => ListsInv' /\ [W!WaitSetNext]_(W!waitSetVars)
  BY ListSteps
<1> QED
  BY <1>1, <1>2, PTL DEF WaitListSpec, ImplementsWaitSet, W!WaitSetSpec

=============================================================================
