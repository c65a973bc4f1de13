---------------------------- MODULE ListLemmas ----------------------------
(***************************************************************************)
(* Lemmas about the operators on sequences that the lists of timers are     *)
(* built from, for sequences over any set: where an element goes or comes   *)
(* from, and what becomes of the places of the others.                      *)
(***************************************************************************)
EXTENDS Integers, SequencesExt, Links, SequenceTheorems, WellFoundedInduction, TLAPS

\* What is found first is one of what is looked for.
LEMMA FirstFound ==
  ASSUME NEW S, S \subseteq Nat, S # {}
  PROVE  Min(S) \in S /\ \A y \in S : Min(S) <= y
<1>1. PICK x \in S : \A y \in S : ~ (<<y, x>> \in OpToRel(<, Nat))
  BY NatLessThanWellFounded, WFMin
<1>2. \A y \in S : ~(y < x)
  BY <1>1 DEF OpToRel
<1>3. \A y \in S : x =< y
  BY <1>2
<1> QED
  BY <1>3 DEF Min

\* What is found last, if there is something
LEMMA LastFound ==
  ASSUME NEW n \in Nat, NEW S, S \subseteq 1 .. n, S # {}
  PROVE  Max(S) \in S
<1> DEFINE T == {n - x : x \in S}
<1>1. T \subseteq Nat /\ T # {}
  <2>1. \A x \in S : n - x \in Nat
    OBVIOUS
  <2>2. T \subseteq Nat
    BY <2>1
  <2> QED
    BY <2>2
<1>2. PICK m \in T : \A y \in T : m <= y
  <2> HIDE DEF T
  <2> QED
    BY <1>1, FirstFound
<1>3. PICK x \in S : m = n - x
  BY <1>2
<1>4. \A y \in S : x >= y
  <2> SUFFICES ASSUME NEW y \in S
               PROVE  x >= y
    OBVIOUS
  <2>1. n - y \in T
    OBVIOUS
  <2>2. n - x <= n - y
    BY <1>2, <1>3, <2>1
  <2>3. x \in Int /\ y \in Int
    OBVIOUS
  <2> HIDE DEF T
  <2> QED
    BY <2>2, <2>3
<1> QED
  BY <1>4 DEF Max

\* A sequence with one more element in it
LEMMA Inserts ==
  ASSUME NEW Elem, NEW list \in Seq(Elem), NEW e \in Elem, NEW p \in 1 .. Len(list) + 1
  PROVE  /\ InsertAt(list, p, e) \in Seq(Elem)
         /\ DOMAIN InsertAt(list, p, e) = 1 .. Len(list) + 1
         /\ \A i \in 1 .. Len(list) + 1 :
              InsertAt(list, p, e)[i] = IF i < p THEN list[i]
                                        ELSE IF i = p THEN e ELSE list[i - 1]
<1> DEFINE front == SubSeq(list, 1, p - 1)
           back == SubSeq(list, p, Len(list))
<1>1. Len(list) \in Nat /\ \A i \in 1 .. Len(list) : list[i] \in Elem
  BY LenProperties, ElementOfSeq
<1>2. /\ front \in Seq(Elem) /\ Len(front) = p - 1
      /\ \A i \in 1 .. p - 1 : front[i] = list[i]
  BY <1>1, SubSeqProperties
<1>3. /\ back \in Seq(Elem) /\ Len(back) = Len(list) - p + 1
      /\ \A i \in 1 .. Len(list) - p + 1 : back[i] = list[p + i - 1]
  BY <1>1, SubSeqProperties
<1>4. <<e>> \in Seq(Elem) /\ Len(<<e>>) = 1 /\ <<e>>[1] = e
  OBVIOUS
<1> HIDE DEF front, back
<1>5. /\ front \o <<e>> \in Seq(Elem) /\ Len(front \o <<e>>) = p
      /\ \A i \in 1 .. p : (front \o <<e>>)[i] = IF i < p THEN list[i] ELSE e
  BY <1>1, <1>2, <1>4, ConcatProperties
<1>6. /\ (front \o <<e>>) \o back \in Seq(Elem)
      /\ Len((front \o <<e>>) \o back) = Len(list) + 1
      /\ \A i \in 1 .. Len(list) + 1 :
           ((front \o <<e>>) \o back)[i] = IF i < p THEN list[i]
                                          ELSE IF i = p THEN e ELSE list[i - 1]
  <2>1. \A i \in 1 .. Len(list) + 1 :
          ((front \o <<e>>) \o back)[i] = IF i <= p THEN (front \o <<e>>)[i] ELSE back[i - p]
    BY <1>1, <1>3, <1>5, ConcatProperties
  <2>2. \A i \in 1 .. Len(list) + 1 : i > p => back[i - p] = list[i - 1]
    BY <1>1, <1>3
  <2>3. /\ (front \o <<e>>) \o back \in Seq(Elem)
        /\ Len((front \o <<e>>) \o back) = Len(list) + 1
    BY <1>1, <1>3, <1>5, ConcatProperties
  <2> QED
    BY <1>1, <1>5, <2>1, <2>2, <2>3
<1>7. InsertAt(list, p, e) = (front \o <<e>>) \o back
  BY DEF InsertAt, front, back
<1> QED
  BY <1>6, <1>7, LenProperties

\* A sequence with one less
LEMMA Removes ==
  ASSUME NEW Elem, NEW list \in Seq(Elem), NEW p \in 1 .. Len(list)
  PROVE  /\ RemoveAt(list, p) \in Seq(Elem)
         /\ DOMAIN RemoveAt(list, p) = 1 .. Len(list) - 1
         /\ \A i \in 1 .. Len(list) - 1 :
              RemoveAt(list, p)[i] = IF i < p THEN list[i] ELSE list[i + 1]
<1> DEFINE front == SubSeq(list, 1, p - 1)
           back == SubSeq(list, p + 1, Len(list))
<1>1. Len(list) \in Nat /\ \A i \in 1 .. Len(list) : list[i] \in Elem
  BY LenProperties, ElementOfSeq
<1>2. /\ front \in Seq(Elem) /\ Len(front) = p - 1
      /\ \A i \in 1 .. p - 1 : front[i] = list[i]
  BY <1>1, SubSeqProperties
<1>3. /\ back \in Seq(Elem) /\ Len(back) = Len(list) - p
      /\ \A i \in 1 .. Len(list) - p : back[i] = list[p + i]
  BY <1>1, SubSeqProperties
<1> HIDE DEF front, back
<1>4. /\ front \o back \in Seq(Elem) /\ Len(front \o back) = Len(list) - 1
      /\ \A i \in 1 .. Len(list) - 1 :
           (front \o back)[i] = IF i < p THEN list[i] ELSE list[i + 1]
  <2>1. \A i \in 1 .. Len(list) - 1 :
          (front \o back)[i] = IF i <= p - 1 THEN front[i] ELSE back[i - (p - 1)]
    BY <1>1, <1>2, <1>3, ConcatProperties
  <2>2. \A i \in 1 .. Len(list) - 1 : i >= p => back[i - (p - 1)] = list[i + 1]
    BY <1>1, <1>3
  <2>3. front \o back \in Seq(Elem) /\ Len(front \o back) = Len(list) - 1
    <3>1. front \o back \in Seq(Elem) /\ Len(front \o back) = Len(front) + Len(back)
      BY <1>2, <1>3, ConcatProperties
    <3> QED
      BY <1>1, <1>2, <1>3, <3>1
  <2> QED
    BY <1>1, <1>2, <2>1, <2>2, <2>3
<1>5. RemoveAt(list, p) = front \o back
  BY DEF RemoveAt, front, back
<1> QED
  BY <1>4, <1>5, LenProperties

\* An element in front of the others
LEMMA ToFront ==
  ASSUME NEW Elem, NEW list \in Seq(Elem), NEW p \in 1 .. Len(list), NEW e \in Elem
  PROVE  /\ <<e>> \o RemoveAt(list, p) \in Seq(Elem)
         /\ Len(<<e>> \o RemoveAt(list, p)) = Len(list)
         /\ (<<e>> \o RemoveAt(list, p))[1] = e
         /\ \A i \in 2 .. Len(list) :
              (<<e>> \o RemoveAt(list, p))[i] = IF i <= p THEN list[i - 1] ELSE list[i]
<1> DEFINE rest == RemoveAt(list, p)
<1>1. Len(list) \in Nat \ {0}
  BY LenProperties
<1>2. /\ rest \in Seq(Elem) /\ DOMAIN rest = 1 .. Len(list) - 1
      /\ \A i \in 1 .. Len(list) - 1 : rest[i] = IF i < p THEN list[i] ELSE list[i + 1]
  BY Removes
<1> HIDE DEF rest
<1>3. Len(rest) = Len(list) - 1
  <2>1. Len(rest) \in Nat /\ 1 .. Len(rest) = 1 .. Len(list) - 1
    BY <1>2, LenProperties
  <2> QED
    BY <1>1, <2>1
<1>4. <<e>> \in Seq(Elem) /\ Len(<<e>>) = 1 /\ <<e>>[1] = e
  OBVIOUS
<1>5. /\ <<e>> \o rest \in Seq(Elem) /\ Len(<<e>> \o rest) = Len(list)
      /\ \A i \in 1 .. Len(list) : (<<e>> \o rest)[i] = IF i <= 1 THEN e ELSE rest[i - 1]
  BY <1>1, <1>2, <1>3, <1>4, ConcatProperties
<1>6. \A i \in 2 .. Len(list) : (<<e>> \o rest)[i] = IF i <= p THEN list[i - 1] ELSE list[i]
  BY <1>1, <1>2, <1>5
<1> QED
  BY <1>1, <1>5, <1>6 DEF rest

\* An element behind the others
LEMMA ToBack ==
  ASSUME NEW Elem, NEW list \in Seq(Elem), NEW p \in 1 .. Len(list)
  PROVE  /\ Append(RemoveAt(list, p), list[p]) \in Seq(Elem)
         /\ Len(Append(RemoveAt(list, p), list[p])) = Len(list)
         /\ \A i \in 1 .. Len(list) :
              Append(RemoveAt(list, p), list[p])[i] =
                IF i < p THEN list[i] ELSE IF i < Len(list) THEN list[i + 1] ELSE list[p]
<1> DEFINE rest == RemoveAt(list, p)
           e == list[p]
<1>1. Len(list) \in Nat \ {0} /\ e \in Elem
  BY LenProperties, ElementOfSeq
<1>2. /\ rest \in Seq(Elem) /\ DOMAIN rest = 1 .. Len(list) - 1
      /\ \A i \in 1 .. Len(list) - 1 : rest[i] = IF i < p THEN list[i] ELSE list[i + 1]
  BY Removes
<1> HIDE DEF rest, e
<1>3. Len(rest) = Len(list) - 1
  <2>1. Len(rest) \in Nat /\ 1 .. Len(rest) = 1 .. Len(list) - 1
    BY <1>2, LenProperties
  <2> QED
    BY <1>1, <2>1
<1>4. /\ Append(rest, e) \in Seq(Elem) /\ Len(Append(rest, e)) = Len(list)
      /\ \A i \in 1 .. Len(rest) : Append(rest, e)[i] = rest[i]
      /\ Append(rest, e)[Len(rest) + 1] = e
  BY <1>1, <1>2, <1>3, AppendProperties
<1>5. \A i \in 1 .. Len(list) :
        Append(rest, e)[i] = IF i < p THEN list[i] ELSE IF i < Len(list) THEN list[i + 1] ELSE e
  BY <1>1, <1>2, <1>3, <1>4
<1> QED
  BY <1>4, <1>5 DEF rest, e

-----------------------------------------------------------------------------
(* Chains of links                                                          *)

\* What is reached, and no more
LEMMA FromIsClosed ==
  ASSUME NEW Node, NEW next, NEW h
  PROVE  /\ h \in Node => h \in From(Node, next, h)
         /\ From(Node, next, h) \subseteq Node /\ Closed(Node, next, From(Node, next, h))
<1>1. ASSUME NEW t \in From(Node, next, h), next[t] \in Node
      PROVE  next[t] \in From(Node, next, h)
  BY <1>1 DEF From, Closed
<1>2. Closed(Node, next, From(Node, next, h))
  BY <1>1 DEF Closed
<1> QED
  BY <1>2 DEF From

LEMMA FromIsLeast ==
  ASSUME NEW Node, NEW next, NEW h, NEW S \in SUBSET Node, h \in Node => h \in S,
         Closed(Node, next, S)
  PROVE  From(Node, next, h) \subseteq S
BY DEF From

LEMMA FromNull ==
  ASSUME NEW Node, NEW next, NEW h, h \notin Node
  PROVE  From(Node, next, h) = {}
<1>1. Closed(Node, next, {})
  BY DEF Closed
<1>2. From(Node, next, h) \subseteq {}
  BY <1>1, FromIsLeast
<1> QED
  BY <1>2

LEMMA FromStep ==
  ASSUME NEW Node, NEW next, NEW h \in Node
  PROVE  From(Node, next, h) = {h} \cup From(Node, next, next[h])
<1>1. /\ h \in From(Node, next, h) /\ From(Node, next, h) \subseteq Node
      /\ Closed(Node, next, From(Node, next, h))
  BY FromIsClosed
<1>2. /\ next[h] \in Node => next[h] \in From(Node, next, next[h])
      /\ From(Node, next, next[h]) \subseteq Node
      /\ Closed(Node, next, From(Node, next, next[h]))
  BY FromIsClosed
<1>3. From(Node, next, next[h]) \subseteq From(Node, next, h)
  <2>1. next[h] \in Node => next[h] \in From(Node, next, h)
    BY <1>1 DEF Closed
  <2> QED
    BY <1>1, <2>1, FromIsLeast
<1>4. Closed(Node, next, {h} \cup From(Node, next, next[h]))
  BY <1>2 DEF Closed
<1>5. From(Node, next, h) \subseteq {h} \cup From(Node, next, next[h])
  BY <1>2, <1>4, FromIsLeast
<1> QED
  BY <1>1, <1>3, <1>5

\* Other links do not matter.
LEMMA FromSame ==
  ASSUME NEW Node, NEW next, NEW new, NEW h,
         \A t \in From(Node, next, h) : new[t] = next[t]
  PROVE  From(Node, new, h) = From(Node, next, h)
<1>1. /\ h \in Node => h \in From(Node, next, h)
      /\ From(Node, next, h) \subseteq Node /\ Closed(Node, next, From(Node, next, h))
  BY FromIsClosed
<1>2. /\ h \in Node => h \in From(Node, new, h)
      /\ From(Node, new, h) \subseteq Node /\ Closed(Node, new, From(Node, new, h))
  BY FromIsClosed
<1>3. Closed(Node, new, From(Node, next, h))
  BY <1>1 DEF Closed
<1>4. From(Node, new, h) \subseteq From(Node, next, h)
  BY <1>1, <1>3, FromIsLeast
<1>5. Closed(Node, next, From(Node, new, h))
  BY <1>2, <1>4 DEF Closed
<1>6. From(Node, next, h) \subseteq From(Node, new, h)
  BY <1>2, <1>5, FromIsLeast
<1> QED
  BY <1>4, <1>6

\* The last one is linked to another one.
LEMMA FromAppend ==
  ASSUME NEW Node, NEW next, NEW h, NEW q \in From(Node, next, h), next[q] \notin Node,
         NEW n \in Node, n \notin From(Node, next, h),
         NEW new, new[q] = n, new[n] \notin Node, \A u \in Node \ {q, n} : new[u] = next[u]
  PROVE  From(Node, new, h) = From(Node, next, h) \cup {n}
<1>1. /\ h \in Node => h \in From(Node, next, h)
      /\ From(Node, next, h) \subseteq Node /\ Closed(Node, next, From(Node, next, h))
  BY FromIsClosed
<1>2. /\ h \in Node => h \in From(Node, new, h)
      /\ From(Node, new, h) \subseteq Node /\ Closed(Node, new, From(Node, new, h))
  BY FromIsClosed
<1>3. Closed(Node, new, From(Node, next, h) \cup {n})
  BY <1>1 DEF Closed
<1>4. From(Node, new, h) \subseteq From(Node, next, h) \cup {n}
  BY <1>1, <1>3, FromIsLeast
<1>5. From(Node, next, h) \subseteq From(Node, new, h)
  <2>2. Closed(Node, next, From(Node, new, h) \ {n})
    <3>1. ASSUME NEW u \in From(Node, new, h) \ {n}, next[u] \in Node
          PROVE  next[u] \in From(Node, new, h) \ {n}
      <4>1. u \in From(Node, next, h) /\ u # q /\ u # n
        BY <1>4, <3>1
      <4>2. new[u] = next[u] /\ next[u] \in From(Node, next, h)
        BY <1>1, <3>1, <4>1 DEF Closed
      <4> QED
        BY <1>2, <3>1, <4>2 DEF Closed
    <3> QED
      BY <3>1 DEF Closed
  <2>3. h \in Node => h \in From(Node, new, h) \ {n}
    BY <1>1, <1>2
  <2>4. From(Node, new, h) \ {n} \in SUBSET Node
    BY <1>2
  <2>5. From(Node, next, h) \subseteq From(Node, new, h) \ {n}
    BY <2>2, <2>3, <2>4, FromIsLeast
  <2> QED
    BY <2>5
<1>6. n \in From(Node, new, h)
  BY <1>2, <1>5 DEF Closed
<1> QED
  BY <1>4, <1>5, <1>6

\* A chain: nothing on it is linked to twice, and its first node not at all.
Chain(Node, next, h) ==
  \A t \in From(Node, next, h) :
    /\ next[t] # h
    /\ \A u \in From(Node, next, h) : next[t] = next[u] /\ next[t] \in Node => t = u

LEMMA ChainSame ==
  ASSUME NEW Node, NEW next, NEW new, NEW h,
         \A t \in From(Node, next, h) : new[t] = next[t], Chain(Node, next, h)
  PROVE  Chain(Node, new, h)
<1>1. From(Node, new, h) = From(Node, next, h)
  BY FromSame
<1> QED
  BY <1>1 DEF Chain

\* The rest of a chain is one, without its first node.
LEMMA ChainRest ==
  ASSUME NEW Node, NEW next, NEW h \in Node, Chain(Node, next, h)
  PROVE  /\ h \notin From(Node, next, next[h]) /\ Chain(Node, next, next[h])
         /\ From(Node, next, h) = {h} \cup From(Node, next, next[h])
<1>1. /\ h \in From(Node, next, h) /\ From(Node, next, h) \subseteq Node
      /\ Closed(Node, next, From(Node, next, h))
  BY FromIsClosed
<1>2. From(Node, next, h) = {h} \cup From(Node, next, next[h])
  BY FromStep
<1>3. h \notin From(Node, next, next[h])
  <2>1. Closed(Node, next, From(Node, next, h) \ {h})
    BY <1>1 DEF Closed, Chain
  <2>2. next[h] \in Node => next[h] \in From(Node, next, h) \ {h}
    BY <1>1 DEF Closed, Chain
  <2>3. From(Node, next, next[h]) \subseteq From(Node, next, h) \ {h}
    BY <1>1, <2>1, <2>2, FromIsLeast
  <2> QED
    BY <2>3
<1>4. Chain(Node, next, next[h])
  <2> SUFFICES ASSUME NEW t \in From(Node, next, next[h])
               PROVE  /\ next[t] # next[h]
                      /\ \A u \in From(Node, next, next[h]) :
                           next[t] = next[u] /\ next[t] \in Node => t = u
    BY DEF Chain
  <2>1. t \in From(Node, next, h) /\ t # h
    BY <1>2, <1>3
  <2>2. next[h] \in Node
    BY FromNull
  <2>3. next[t] # next[h]
    BY <1>1, <2>1, <2>2 DEF Chain
  <2>4. \A u \in From(Node, next, next[h]) : next[t] = next[u] /\ next[t] \in Node => t = u
    BY <1>2, <2>1 DEF Chain
  <2> QED
    BY <2>3, <2>4
<1> QED
  BY <1>2, <1>3, <1>4

\* A node that is put in front
LEMMA ChainPush ==
  ASSUME NEW Node, NEW next, NEW h, Chain(Node, next, h),
         NEW t \in Node, t \notin From(Node, next, h),
         NEW new, new[t] = h, \A u \in Node \ {t} : new[u] = next[u]
  PROVE  /\ From(Node, new, t) = {t} \cup From(Node, next, h)
         /\ Chain(Node, new, t)
<1>1. /\ h \in Node => h \in From(Node, next, h)
      /\ From(Node, next, h) \subseteq Node /\ Closed(Node, next, From(Node, next, h))
  BY FromIsClosed
<1>2. From(Node, new, h) = From(Node, next, h)
  BY <1>1, FromSame
<1>3. From(Node, new, t) = {t} \cup From(Node, next, h)
  BY <1>2, FromStep
<1>4. h # t
  BY <1>1
<1>5. ASSUME NEW u \in From(Node, next, h)
      PROVE  new[u] = next[u] /\ new[u] # t /\ new[u] # h
  <2>1. new[u] = next[u]
    BY <1>1
  <2>2. next[u] # t
    BY <1>1 DEF Closed
  <2>3. next[u] # h
    BY DEF Chain
  <2> QED
    BY <2>1, <2>2, <2>3
<1>6. \A u \in From(Node, new, t) : new[u] # t
  BY <1>3, <1>4, <1>5
<1>7. \A u, v \in From(Node, new, t) : new[u] = new[v] /\ new[u] \in Node => u = v
  BY <1>3, <1>5 DEF Chain
<1> QED
  BY <1>3, <1>6, <1>7 DEF Chain

\* A node that is unlinked from the one before it
LEMMA ChainUnlink ==
  ASSUME NEW Node, NEW next, NEW h \in Node, Chain(Node, next, h),
         NEW q \in From(Node, next, h), NEW t \in From(Node, next, h), next[q] = t, q # t,
         NEW new, new[q] = next[t], \A u \in Node \ {q} : new[u] = next[u]
  PROVE  /\ From(Node, new, h) = From(Node, next, h) \ {t}
         /\ Chain(Node, new, h)
<1>1. /\ h \in From(Node, next, h) /\ From(Node, next, h) \subseteq Node
      /\ Closed(Node, next, From(Node, next, h))
  BY FromIsClosed
<1>2. /\ h \in From(Node, new, h) /\ From(Node, new, h) \subseteq Node
      /\ Closed(Node, new, From(Node, new, h))
  BY FromIsClosed
<1>3. h # t /\ \A u \in From(Node, next, h) : next[u] = t => u = q
  BY <1>1 DEF Chain
<1>4. From(Node, new, h) \subseteq From(Node, next, h) \ {t}
  <2>1. ASSUME NEW u \in From(Node, next, h) \ {t}, new[u] \in Node
        PROVE  new[u] \in From(Node, next, h) \ {t}
    <3>1. CASE u = q
      <4>1. next[t] # t
        BY <1>3
      <4>2. next[t] \in Node => next[t] \in From(Node, next, h)
        BY <1>1 DEF Closed
      <4> QED
        BY <2>1, <3>1, <4>1, <4>2
    <3>2. CASE u # q
      BY <1>1, <1>3, <2>1, <3>2 DEF Closed
    <3> QED
      BY <3>1, <3>2
  <2>2. Closed(Node, new, From(Node, next, h) \ {t})
    BY <2>1 DEF Closed
  <2> QED
    BY <1>1, <1>3, <2>2, FromIsLeast
<1>5. From(Node, next, h) \ {t} \subseteq From(Node, new, h)
  <2>1. q \in From(Node, new, h)
    <3>1. ASSUME q \notin From(Node, new, h)
          PROVE  FALSE
      <4>1. Closed(Node, next, From(Node, new, h))
        BY <1>2, <3>1 DEF Closed
      <4>2. From(Node, next, h) \subseteq From(Node, new, h)
        BY <1>2, <4>1, FromIsLeast
      <4> QED
        BY <3>1, <4>2
    <3> QED
      BY <3>1
  <2>2. next[t] \in Node => next[t] \in From(Node, new, h)
    BY <1>2, <2>1 DEF Closed
  <2>3. Closed(Node, next, From(Node, new, h) \cup {t})
    BY <1>2, <2>2 DEF Closed
  <2>4. From(Node, next, h) \subseteq From(Node, new, h) \cup {t}
    BY <1>1, <1>2, <2>3, FromIsLeast
  <2> QED
    BY <2>4
<1>6. Chain(Node, new, h)
  <2>1. \A u \in From(Node, new, h) : u \in From(Node, next, h) /\ u # t
    BY <1>4
  <2>2. \A u \in From(Node, new, h) : new[u] # h
    BY <1>1, <2>1 DEF Chain
  <2>3. \A u, v \in From(Node, new, h) : new[u] = new[v] /\ new[u] \in Node => u = v
    BY <1>1, <2>1 DEF Chain
  <2> QED
    BY <2>2, <2>3 DEF Chain
<1> QED
  BY <1>4, <1>5, <1>6

=============================================================================
