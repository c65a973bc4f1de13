------------------------------ MODULE FatProofs ------------------------------
(***************************************************************************)
(* Proofs about the file system: what the cache writes back and when does    *)
(* not matter to what it shows, no cluster is lost or in two files, and a     *)
(* file that was closed survives a reset at any moment.  For any number of    *)
(* titles, handles, clusters and buffers.                                    *)
(***************************************************************************)
EXTENDS FirmwareUpdate, ListLemmas

-----------------------------------------------------------------------------
(* The cache                                                                *)

Sector == 0 .. RootSector

AnyVersion == Version \cup {"old", "new"}
Entry == [first : Cluster \cup {0}, size : Nat, used : BOOLEAN]
FATs == [Cluster -> Cluster \cup {0, EOC}]
Roots == [Title -> Entry]
Word == Title \X AnyVersion \X Nat

\* What a sector can hold: a hint, a table, a directory, or data
Content == Nat \cup FATs \cup Roots \cup Word \cup {<<>>}

Buffer == [nSector : Sector \cup {BUFFER_NOSECTOR}, bDirty : BOOLEAN, Data : Content]

\* No sector is in two buffers.
Cached(c) ==
  /\ c \in [list : Seq(Buffer), disk : [Sector -> Content]]
  /\ Len(c.list) = FAT_BUFFERS
  /\ \A i, j \in 1 .. FAT_BUFFERS :
       c.list[i].nSector = c.list[j].nSector /\ c.list[i].nSector # BUFFER_NOSECTOR => i = j

\* A buffer that is not dirty is as on the disk; but the first may be about
\* to be overwritten.
Clean(c, first) ==
  \A i \in first .. FAT_BUFFERS :
    c.list[i].nSector # BUFFER_NOSECTOR /\ ~c.list[i].bDirty =>
      c.disk[c.list[i].nSector] = c.list[i].Data

CacheOK(c) == Cached(c) /\ Clean(c, 1)

\* What a cache shows of a sector, as View does for the one there is
Seen(c, s) ==
  LET hit == BufferOf(c.list, s)
  IN  IF hit # 0 THEN c.list[hit].Data ELSE c.disk[s]

LEMMA Numbers ==
  /\ ClusterCount \in Nat \ {0} /\ FAT_BUFFERS \in Nat /\ FAT_BUFFERS >= 3
  /\ RootSector = ClusterCount + 2 /\ BUFFER_NOSECTOR = ClusterCount + 3
  /\ RootSector \in Nat /\ BUFFER_NOSECTOR \notin Sector
  /\ FSInfoSector \in Sector /\ FATSector \in Sector /\ RootSector \in Sector
  /\ FATSector # FSInfoSector /\ RootSector # FSInfoSector /\ FATSector # RootSector
  /\ Cluster \subseteq Sector /\ Cluster \subseteq Nat \ {0}
  /\ FATSector \notin Cluster /\ RootSector \notin Cluster /\ FSInfoSector \notin Cluster
  /\ EOC \notin Cluster /\ EOC # 0
BY FatAssumption DEF FatAssumption, RootSector, BUFFER_NOSECTOR, Sector, FSInfoSector, FATSector,
     Cluster, EOC

\* The buffer a sector is found in
LEMMA Hit ==
  ASSUME NEW list, Len(list) \in Nat, NEW s
  PROVE  /\ BufferOf(list, s) = 0 => \A i \in 1 .. Len(list) : list[i].nSector # s
         /\ BufferOf(list, s) # 0 => /\ BufferOf(list, s) \in 1 .. Len(list)
                                     /\ list[BufferOf(list, s)].nSector = s
<1> DEFINE S == {i \in 1 .. Len(list) : list[i].nSector = s}
<1>1. BufferOf(list, s) = IF S # {} THEN Min(S) ELSE 0
  BY DEF BufferOf, SelectInSeq
<1>2. S # {} => Min(S) \in S
  <2>1. S \subseteq Nat
    OBVIOUS
  <2> HIDE DEF S
  <2> QED
    BY <2>1, FirstFound
<1> QED
  BY <1>1, <1>2

LEMMA VictimIsOne ==
  ASSUME NEW list, Len(list) \in Nat \ {0}
  PROVE  Victim(list) \in 1 .. Len(list)
<1> DEFINE S == {i \in 1 .. Len(list) : list[i].nSector = BUFFER_NOSECTOR}
           empty == IF S # {} THEN Max(S) ELSE 0
<1>1. Victim(list) = IF empty # 0 THEN empty ELSE Len(list)
  BY DEF Victim, SelectLastInSeq
<1>2. S # {} => Max(S) \in S
  <2>1. S \subseteq 1 .. Len(list)
    OBVIOUS
  <2> HIDE DEF S
  <2> QED
    BY <2>1, LastFound
<1> QED
  BY <1>1, <1>2

\* What a cache shows is in the buffer of the sector, or on the disk.
LEMMA SeenAt ==
  ASSUME NEW c, Cached(c), NEW s \in Sector
  PROVE  /\ \A i \in 1 .. FAT_BUFFERS : c.list[i].nSector = s => Seen(c, s) = c.list[i].Data
         /\ (\A i \in 1 .. FAT_BUFFERS : c.list[i].nSector # s) => Seen(c, s) = c.disk[s]
<1>1. Len(c.list) = FAT_BUFFERS /\ FAT_BUFFERS \in Nat
  BY Numbers DEF Cached
<1>2. /\ BufferOf(c.list, s) = 0 => \A i \in 1 .. FAT_BUFFERS : c.list[i].nSector # s
      /\ BufferOf(c.list, s) # 0 => /\ BufferOf(c.list, s) \in 1 .. FAT_BUFFERS
                                    /\ c.list[BufferOf(c.list, s)].nSector = s
  BY <1>1, Hit
<1>3. ASSUME NEW i \in 1 .. FAT_BUFFERS, c.list[i].nSector = s
      PROVE  Seen(c, s) = c.list[i].Data
  <2>1. BufferOf(c.list, s) # 0
    BY <1>2, <1>3
  <2>2. BufferOf(c.list, s) = i
    BY <1>2, <1>3, <2>1, Numbers DEF Cached
  <2> QED
    BY <2>1, <2>2 DEF Seen
<1>4. ASSUME \A i \in 1 .. FAT_BUFFERS : c.list[i].nSector # s
      PROVE  Seen(c, s) = c.disk[s]
  <2>1. BufferOf(c.list, s) = 0
    BY <1>2, <1>4
  <2> QED
    BY <2>1 DEF Seen
<1> QED
  BY <1>3, <1>4

LEMMA SeenIs ==
  ASSUME NEW c, CacheOK(c), NEW s \in Sector
  PROVE  /\ \A i \in 1 .. FAT_BUFFERS : c.list[i].nSector = s => Seen(c, s) = c.list[i].Data
         /\ (\A i \in 1 .. FAT_BUFFERS : c.list[i].nSector # s) => Seen(c, s) = c.disk[s]
BY SeenAt DEF CacheOK

LEMMA SeenContent ==
  ASSUME NEW c, CacheOK(c), NEW s \in Sector
  PROVE  Seen(c, s) \in Content
<1>1. /\ \A i \in 1 .. FAT_BUFFERS : c.list[i].Data \in Content
      /\ c.disk[s] \in Content
  <2>1. c.list \in Seq(Buffer) /\ Len(c.list) = FAT_BUFFERS /\ c.disk \in [Sector -> Content]
    BY DEF CacheOK, Cached, Clean
  <2>2. \A i \in 1 .. FAT_BUFFERS : c.list[i] \in Buffer
    BY <2>1, ElementOfSeq
  <2> QED
    BY <2>1, <2>2 DEF Buffer
<1> QED
  BY <1>1, SeenIs

\* The same buffers in another order show the same.
SectorsOnce(c) ==
  \A i, j \in 1 .. FAT_BUFFERS :
    c.list[i].nSector = c.list[j].nSector /\ c.list[i].nSector # BUFFER_NOSECTOR => i = j
Among(c, d) ==
  \A i \in 1 .. FAT_BUFFERS : \E k \in 1 .. FAT_BUFFERS : c.list[i] = d.list[k]

LEMMA Reordered ==
  ASSUME NEW c, CacheOK(c), NEW d, d \in [list : Seq(Buffer), disk : [Sector -> Content]],
         Len(d.list) = FAT_BUFFERS, d.disk = c.disk,
         SectorsOnce(d), Among(d, c), Among(c, d)
  PROVE  CacheOK(d) /\ \A s \in Sector : Seen(d, s) = Seen(c, s)
<1>1. CacheOK(d)
  <2>1. ASSUME NEW i \in 1 .. FAT_BUFFERS,
               d.list[i].nSector # BUFFER_NOSECTOR, ~d.list[i].bDirty
        PROVE  d.disk[d.list[i].nSector] = d.list[i].Data
    <3>1. PICK k \in 1 .. FAT_BUFFERS : d.list[i] = c.list[k]
      BY DEF Among
    <3> QED
      BY <2>1, <3>1 DEF CacheOK, Cached, Clean
  <2> QED
    BY <2>1 DEF CacheOK, Cached, Clean, SectorsOnce
<1>2. ASSUME NEW s \in Sector
      PROVE  Seen(d, s) = Seen(c, s)
  <2>1. CASE \E i \in 1 .. FAT_BUFFERS : d.list[i].nSector = s
    <3>1. PICK i \in 1 .. FAT_BUFFERS : d.list[i].nSector = s
      BY <2>1
    <3>2. PICK k \in 1 .. FAT_BUFFERS : d.list[i] = c.list[k]
      BY DEF Among
    <3>3. Seen(d, s) = d.list[i].Data /\ Seen(c, s) = c.list[k].Data
      BY <1>1, <1>2, <3>1, <3>2, SeenIs
    <3> QED
      BY <3>2, <3>3
  <2>2. CASE \A i \in 1 .. FAT_BUFFERS : d.list[i].nSector # s
    <3>1. ASSUME NEW k \in 1 .. FAT_BUFFERS
          PROVE  c.list[k].nSector # s
      <4>1. PICK i \in 1 .. FAT_BUFFERS : c.list[k] = d.list[i]
        BY DEF Among
      <4> QED
        BY <2>2, <4>1
    <3> QED
      BY <1>1, <1>2, <2>2, <3>1, SeenIs
  <2> QED
    BY <2>1, <2>2
<1> QED
  BY <1>1, <1>2

\* A buffer moved to the end, as FreeSector() does it, or to the front
LEMMA FreeDataSame ==
  ASSUME NEW c, CacheOK(c)
  PROVE  /\ CacheOK(FreeData(c)) /\ FreeData(c).disk = c.disk
         /\ \A s \in Sector : Seen(FreeData(c), s) = Seen(c, s)
<1>1. /\ c \in [list : Seq(Buffer), disk : [Sector -> Content]] /\ Len(c.list) = FAT_BUFFERS
      /\ c.list \in Seq(Buffer) /\ 1 \in 1 .. Len(c.list)
  BY Numbers DEF CacheOK, Cached, Clean
<1>2. PICK d : d = FreeData(c)
  OBVIOUS
<1>3. d.list = Append(RemoveAt(c.list, 1), c.list[1]) /\ d.disk = c.disk
      /\ d = [list |-> d.list, disk |-> d.disk]
  BY <1>1, <1>2 DEF FreeData, MoveBufferLast
<1>4. /\ d.list \in Seq(Buffer) /\ Len(d.list) = FAT_BUFFERS
      /\ \A i \in 1 .. FAT_BUFFERS :
           d.list[i] = IF i < 1 THEN c.list[i]
                       ELSE IF i < FAT_BUFFERS THEN c.list[i + 1] ELSE c.list[1]
  <2>1. PICK list \in Seq(Buffer) : list = c.list
    BY <1>1
  <2>2. 1 \in 1 .. Len(list) /\ d.list = Append(RemoveAt(list, 1), list[1])
    BY <1>1, <1>3, <2>1
  <2>3. /\ Append(RemoveAt(list, 1), list[1]) \in Seq(Buffer)
        /\ Len(Append(RemoveAt(list, 1), list[1])) = Len(list)
        /\ \A i \in 1 .. Len(list) :
             Append(RemoveAt(list, 1), list[1])[i] =
               IF i < 1 THEN list[i] ELSE IF i < Len(list) THEN list[i + 1] ELSE list[1]
    BY <2>2, ToBack
  <2> QED
    BY <1>1, <2>1, <2>2, <2>3
<1>5. /\ \A i \in 1 .. FAT_BUFFERS : i < FAT_BUFFERS =>
           i + 1 \in 1 .. FAT_BUFFERS /\ d.list[i] = c.list[i + 1]
      /\ d.list[FAT_BUFFERS] = c.list[1]
      /\ 1 \in 1 .. FAT_BUFFERS /\ FAT_BUFFERS \in 1 .. FAT_BUFFERS
  BY <1>4, Numbers
<1>6. d \in [list : Seq(Buffer), disk : [Sector -> Content]] /\ d.disk = c.disk
  BY <1>1, <1>3, <1>4
<1>7. ASSUME NEW i \in 1 .. FAT_BUFFERS, NEW j \in 1 .. FAT_BUFFERS,
             d.list[i].nSector = d.list[j].nSector, d.list[i].nSector # BUFFER_NOSECTOR
      PROVE  i = j
  <2>1. PICK k \in 1 .. FAT_BUFFERS : /\ d.list[i] = c.list[k]
                                      /\ k = IF i < FAT_BUFFERS THEN i + 1 ELSE 1
    BY <1>5, Numbers
  <2>2. PICK l \in 1 .. FAT_BUFFERS : /\ d.list[j] = c.list[l]
                                      /\ l = IF j < FAT_BUFFERS THEN j + 1 ELSE 1
    BY <1>5, Numbers
  <2>3. k = l
    BY <1>7, <2>1, <2>2 DEF CacheOK, Cached, Clean
  <2> QED
    BY <2>1, <2>2, <2>3, Numbers
<1>8. \A i \in 1 .. FAT_BUFFERS : \E k \in 1 .. FAT_BUFFERS : d.list[i] = c.list[k]
  BY <1>5, Numbers
<1>9. ASSUME NEW k \in 1 .. FAT_BUFFERS
      PROVE  \E i \in 1 .. FAT_BUFFERS : d.list[i] = c.list[k]
  <2>1. CASE k = 1
    BY <1>5, <2>1
  <2>2. CASE k # 1
    <3>1. k - 1 \in 1 .. FAT_BUFFERS /\ k - 1 < FAT_BUFFERS /\ (k - 1) + 1 = k
      BY <2>2, Numbers
    <3> QED
      BY <1>5, <3>1
  <2> QED
    BY <2>1, <2>2
<1>10. SectorsOnce(d) /\ Among(d, c) /\ Among(c, d)
  BY <1>7, <1>8, <1>9 DEF SectorsOnce, Among
<1>11. CacheOK(d) /\ \A s \in Sector : Seen(d, s) = Seen(c, s)
  BY <1>4, <1>6, <1>10, Reordered
<1> QED
  BY <1>2, <1>3, <1>11

\* A buffer put in front for one that is taken out
Ahead(list, p, e) == <<e>> \o RemoveAt(list, p)
RestIs(list, old, p) ==
  /\ \A i, j \in 2 .. FAT_BUFFERS :
       list[i].nSector = list[j].nSector /\ list[i].nSector # BUFFER_NOSECTOR => i = j
  /\ \A i \in 2 .. FAT_BUFFERS : \E k \in 1 .. FAT_BUFFERS : k # p /\ list[i] = old[k]
  /\ \A k \in 1 .. FAT_BUFFERS : k # p => \E i \in 2 .. FAT_BUFFERS : list[i] = old[k]

LEMMA InFront ==
  ASSUME NEW c, CacheOK(c), NEW p \in 1 .. FAT_BUFFERS, NEW e \in Buffer, NEW list,
         list = Ahead(c.list, p, e)
  PROVE  /\ list \in Seq(Buffer) /\ Len(list) = FAT_BUFFERS /\ list[1] = e
         /\ RestIs(list, c.list, p)
<1>1. c.list \in Seq(Buffer) /\ Len(c.list) = FAT_BUFFERS
  BY DEF CacheOK, Cached, Clean
<1>2. PICK old \in Seq(Buffer) : old = c.list /\ Len(old) = FAT_BUFFERS
  BY <1>1
<1>3. /\ list \in Seq(Buffer) /\ Len(list) = FAT_BUFFERS /\ list[1] = e
      /\ \A i \in 2 .. FAT_BUFFERS : list[i] = IF i <= p THEN old[i - 1] ELSE old[i]
  <2>1. list = <<e>> \o RemoveAt(old, p) /\ p \in 1 .. Len(old)
    BY <1>2 DEF Ahead
  <2>2. PICK new : new = <<e>> \o RemoveAt(old, p)
    OBVIOUS
  <2>3. /\ new \in Seq(Buffer) /\ Len(new) = FAT_BUFFERS /\ new[1] = e
        /\ \A i \in 2 .. FAT_BUFFERS : new[i] = IF i <= p THEN old[i - 1] ELSE old[i]
    BY <1>2, <2>1, <2>2, ToFront, SMTT(30)
  <2> QED
    BY <2>1, <2>2, <2>3
<1>4. ASSUME NEW i \in 2 .. FAT_BUFFERS, NEW j \in 2 .. FAT_BUFFERS,
             list[i].nSector = list[j].nSector, list[i].nSector # BUFFER_NOSECTOR
      PROVE  i = j
  <2>1. PICK k \in 1 .. FAT_BUFFERS : list[i] = old[k] /\ k = IF i <= p THEN i - 1 ELSE i
    BY <1>3, Numbers
  <2>2. PICK l \in 1 .. FAT_BUFFERS : list[j] = old[l] /\ l = IF j <= p THEN j - 1 ELSE j
    BY <1>3, Numbers
  <2>3. k = l
    BY <1>2, <1>4, <2>1, <2>2 DEF CacheOK, Cached, Clean
  <2> QED
    BY <2>1, <2>2, <2>3, Numbers
<1>5. ASSUME NEW i \in 2 .. FAT_BUFFERS
      PROVE  \E k \in 1 .. FAT_BUFFERS : k # p /\ list[i] = c.list[k]
  <2>1. CASE i <= p
    <3>1. i - 1 \in 1 .. FAT_BUFFERS /\ i - 1 # p
      BY <2>1, Numbers
    <3> QED
      BY <1>2, <1>3, <2>1, <3>1
  <2>2. CASE ~(i <= p)
    <3>1. i \in 1 .. FAT_BUFFERS /\ i # p
      BY <2>2, Numbers
    <3> QED
      BY <1>2, <1>3, <2>2, <3>1
  <2> QED
    BY <2>1, <2>2
<1>6. ASSUME NEW k \in 1 .. FAT_BUFFERS, k # p
      PROVE  \E i \in 2 .. FAT_BUFFERS : list[i] = c.list[k]
  <2>1. CASE k < p
    <3>1. k + 1 \in 2 .. FAT_BUFFERS /\ k + 1 <= p /\ (k + 1) - 1 = k
      BY <2>1, Numbers
    <3> QED
      BY <1>2, <1>3, <3>1
  <2>2. CASE k > p
    <3>1. k \in 2 .. FAT_BUFFERS /\ ~(k <= p)
      BY <2>2, Numbers
    <3>2. list[k] = old[k]
      BY <1>3, <3>1
    <3> QED
      BY <1>2, <3>1, <3>2
  <2>3. k < p \/ k > p
    BY <1>6, Numbers
  <2> QED
    BY <2>1, <2>2, <2>3
<1> QED
  BY <1>3, <1>4, <1>5, <1>6 DEF RestIs

\* GetSector() of a sector of which the contents matter, and of one that is
\* going to be overwritten
ForReading(c, s) == GetSector(c, s, FALSE)
ForWriting(c, s) == GetSector(c, s, TRUE)

\* GetSector() of a sector that is in the cache
LEMMA GetHit ==
  ASSUME NEW c, CacheOK(c), NEW s \in Sector, BufferOf(c.list, s) # 0,
         NEW d, d = ForReading(c, s) \/ d = ForWriting(c, s)
  PROVE  /\ CacheOK(d) /\ d.disk = c.disk /\ d.list[1].nSector = s
         /\ \A r \in Sector : Seen(d, r) = Seen(c, r)
<1>1. PICK p \in 1 .. FAT_BUFFERS : p = BufferOf(c.list, s) /\ c.list[p].nSector = s
  <2>1. Len(c.list) = FAT_BUFFERS
    BY DEF CacheOK, Cached, Clean
  <2> QED
    BY <2>1, Numbers, Hit
<1>2. PICK e \in Buffer : e = c.list[p]
  BY ElementOfSeq DEF CacheOK, Cached, Clean
<1>3. /\ d.list = <<e>> \o RemoveAt(c.list, p) /\ d.disk = c.disk
      /\ c.disk \in [Sector -> Content] /\ d = [list |-> d.list, disk |-> d.disk]
  BY <1>1, <1>2 DEF GetSector, ForReading, ForWriting, MoveBufferFirst, CacheOK, Cached
<1>4. PICK list : list = d.list
  OBVIOUS
<1>5. /\ list \in Seq(Buffer) /\ Len(list) = FAT_BUFFERS /\ list[1] = e
      /\ RestIs(list, c.list, p)
  <2>1. list = Ahead(c.list, p, e)
    BY <1>3, <1>4 DEF Ahead
  <2> QED
    BY <2>1, InFront
<1>6. d \in [list : Seq(Buffer), disk : [Sector -> Content]]
  BY <1>3, <1>4, <1>5
<1>7. ASSUME NEW i \in 2 .. FAT_BUFFERS
      PROVE  list[i].nSector # s
  <2>1. PICK k \in 1 .. FAT_BUFFERS : k # p /\ list[i] = c.list[k]
    BY <1>5 DEF RestIs
  <2> QED
    BY <1>1, <2>1, Numbers DEF CacheOK, Cached, Clean
<1>8. SectorsOnce(d)
  <2>1. ASSUME NEW i \in 1 .. FAT_BUFFERS, NEW j \in 1 .. FAT_BUFFERS,
               list[i].nSector = list[j].nSector, list[i].nSector # BUFFER_NOSECTOR
        PROVE  i = j
    <3>1. /\ i = 1 \/ i \in 2 .. FAT_BUFFERS
          /\ j = 1 \/ j \in 2 .. FAT_BUFFERS
      BY Numbers
    <3>2. list[1].nSector = s
      BY <1>1, <1>2, <1>5
    <3> QED
      BY <1>5, <1>7, <2>1, <3>1, <3>2 DEF RestIs
  <2> QED
    BY <1>4, <2>1 DEF SectorsOnce
<1>9. Among(d, c)
  <2>1. ASSUME NEW i \in 1 .. FAT_BUFFERS
        PROVE  \E k \in 1 .. FAT_BUFFERS : list[i] = c.list[k]
    <3>1. i = 1 \/ i \in 2 .. FAT_BUFFERS
      BY Numbers
    <3> QED
      BY <1>2, <1>5, <3>1 DEF RestIs
  <2> QED
    BY <1>4, <2>1 DEF Among
<1>10. Among(c, d)
  <2>1. 1 \in 1 .. FAT_BUFFERS /\ 2 .. FAT_BUFFERS \subseteq 1 .. FAT_BUFFERS
    BY Numbers
  <2>2. \A k \in 1 .. FAT_BUFFERS : \E i \in 1 .. FAT_BUFFERS : c.list[k] = list[i]
    BY <1>2, <1>5, <2>1 DEF RestIs
  <2> QED
    BY <1>4, <2>2 DEF Among
<1>11. CacheOK(d) /\ \A r \in Sector : Seen(d, r) = Seen(c, r)
  BY <1>3, <1>4, <1>5, <1>6, <1>8, <1>9, <1>10, Reordered
<1> QED
  BY <1>1, <1>2, <1>3, <1>4, <1>5, <1>11

\* GetSector() of a sector that is not in the cache: of the sector that is
\* shown nothing is known when it is to be overwritten.
LEMMA GetMiss ==
  ASSUME NEW c, CacheOK(c), NEW s \in Sector, BufferOf(c.list, s) = 0,
         NEW d, d = ForReading(c, s) \/ d = ForWriting(c, s)
  PROVE  /\ Cached(d) /\ Clean(d, 2) /\ d.list[1].nSector = s
         /\ \A r \in Sector : d.disk[r] = c.disk[r] \/ d.disk[r] = Seen(c, r)
         /\ \A r \in Sector : r # s => Seen(d, r) = Seen(c, r)
         /\ d = ForReading(c, s) => Clean(d, 1) /\ Seen(d, s) = Seen(c, s)
<1>1. /\ c.list \in Seq(Buffer) /\ Len(c.list) = FAT_BUFFERS /\ c.disk \in [Sector -> Content]
      /\ c \in [list : Seq(Buffer), disk : [Sector -> Content]]
      /\ \A i \in 1 .. FAT_BUFFERS : c.list[i] \in Buffer
  BY ElementOfSeq DEF CacheOK, Cached
<1>2. \A i \in 1 .. FAT_BUFFERS : c.list[i].nSector # s
  BY <1>1, Numbers, Hit
<1>3. PICK p \in 1 .. FAT_BUFFERS : p = Victim(c.list)
  BY <1>1, Numbers, VictimIsOne
<1>4. PICK old \in Buffer : old = c.list[p]
  BY <1>1
<1>5. PICK e \in Buffer :
        /\ d = [list |-> <<e>> \o RemoveAt(c.list, p),
                disk |-> IF old.nSector # BUFFER_NOSECTOR /\ old.bDirty
                         THEN [c.disk EXCEPT ![old.nSector] = old.Data] ELSE c.disk]
        /\ e.nSector = s
        /\ d = ForReading(c, s) => e.Data = c.disk[s]
  <2>1. CASE d = ForReading(c, s)
    <3>1. PICK e : e = [nSector |-> s, bDirty |-> FALSE, Data |-> c.disk[s]]
      OBVIOUS
    <3>2. e \in Buffer /\ e.nSector = s /\ e.Data = c.disk[s]
      BY <1>1, <3>1 DEF Buffer
    <3> QED
      BY <1>3, <1>4, <2>1, <3>1, <3>2 DEF GetSector, ForReading, ForWriting
  <2>2. CASE d # ForReading(c, s)
    <3>1. PICK e : e = [nSector |-> s, bDirty |-> FALSE, Data |-> old.Data]
      OBVIOUS
    <3>2. e \in Buffer /\ e.nSector = s
      BY <3>1 DEF Buffer
    <3> QED
      BY <1>3, <1>4, <2>2, <3>1, <3>2 DEF GetSector, ForReading, ForWriting
  <2> QED
    BY <2>1, <2>2
<1>6. /\ d = [list |-> d.list, disk |-> d.disk] /\ d.list = Ahead(c.list, p, e)
      /\ d.disk = IF old.nSector # BUFFER_NOSECTOR /\ old.bDirty
                  THEN [c.disk EXCEPT ![old.nSector] = old.Data] ELSE c.disk
  BY <1>5 DEF Ahead
<1>7. PICK list : list = d.list
  OBVIOUS
<1>8. /\ list \in Seq(Buffer) /\ Len(list) = FAT_BUFFERS /\ list[1] = e
      /\ RestIs(list, c.list, p)
  BY <1>6, <1>7, InFront
<1>9. d.disk \in [Sector -> Content] /\ \A r \in Sector :
        d.disk[r] = IF old.nSector = r /\ old.bDirty THEN old.Data ELSE c.disk[r]
  <2>1. old.Data \in Content
    BY DEF Buffer
  <2>2. old.nSector \in Sector \cup {BUFFER_NOSECTOR} /\ BUFFER_NOSECTOR \notin Sector
    BY Numbers DEF Buffer
  <2> QED
    BY <1>1, <1>6, <2>1, <2>2
<1>10. ASSUME NEW i \in 2 .. FAT_BUFFERS
       PROVE  list[i].nSector # s
  <2>1. PICK k \in 1 .. FAT_BUFFERS : k # p /\ list[i] = c.list[k]
    BY <1>8 DEF RestIs
  <2> QED
    BY <1>2, <2>1
<1>11. 1 \in 1 .. FAT_BUFFERS /\ \A i \in 1 .. FAT_BUFFERS : i = 1 \/ i \in 2 .. FAT_BUFFERS
  BY Numbers
<1>12. Cached(d)
  <2>1. ASSUME NEW i \in 1 .. FAT_BUFFERS, NEW j \in 1 .. FAT_BUFFERS,
               list[i].nSector = list[j].nSector, list[i].nSector # BUFFER_NOSECTOR
        PROVE  i = j
    <3>1. list[1].nSector = s
      BY <1>5, <1>8
    <3> QED
      BY <1>8, <1>10, <1>11, <2>1, <3>1 DEF RestIs
  <2> QED
    BY <1>6, <1>7, <1>8, <1>9, <2>1 DEF Cached
<1>13. Clean(d, 2)
  <2>1. ASSUME NEW i \in 2 .. FAT_BUFFERS, list[i].nSector # BUFFER_NOSECTOR, ~list[i].bDirty
        PROVE  d.disk[list[i].nSector] = list[i].Data
    <3>1. PICK k \in 1 .. FAT_BUFFERS : k # p /\ list[i] = c.list[k]
      BY <1>8 DEF RestIs
    <3>2. c.disk[list[i].nSector] = list[i].Data
      BY <2>1, <3>1 DEF CacheOK, Clean
    <3>3. old.nSector # list[i].nSector
      BY <1>4, <2>1, <3>1 DEF CacheOK, Cached
    <3>4. list[i].nSector \in Sector
      BY <1>1, <2>1, <3>1 DEF Buffer
    <3> QED
      BY <1>9, <3>2, <3>3, <3>4
  <2> QED
    BY <1>7, <2>1 DEF Clean
<1>14. ASSUME NEW r \in Sector
       PROVE  d.disk[r] = c.disk[r] \/ d.disk[r] = Seen(c, r)
  BY <1>4, <1>9, SeenIs
<1>15. ASSUME NEW r \in Sector, r # s
       PROVE  Seen(d, r) = Seen(c, r)
  <2>1. CASE \E k \in 1 .. FAT_BUFFERS : k # p /\ c.list[k].nSector = r
    <3>1. PICK k \in 1 .. FAT_BUFFERS : k # p /\ c.list[k].nSector = r
      BY <2>1
    <3>2. PICK i \in 2 .. FAT_BUFFERS : list[i] = c.list[k]
      BY <1>8, <3>1 DEF RestIs
    <3>3. i \in 1 .. FAT_BUFFERS /\ d.list[i].nSector = r
      BY <1>7, <3>1, <3>2, Numbers
    <3>4. Seen(d, r) = d.list[i].Data
      BY <1>12, <3>3, SeenAt
    <3>5. Seen(c, r) = c.list[k].Data
      BY <3>1, SeenIs
    <3> QED
      BY <1>7, <3>2, <3>4, <3>5
  <2>2. CASE \A k \in 1 .. FAT_BUFFERS : k # p => c.list[k].nSector # r
    <3>1. ASSUME NEW i \in 1 .. FAT_BUFFERS
          PROVE  d.list[i].nSector # r
      <4>1. CASE i = 1
        BY <1>5, <1>7, <1>8, <1>15, <4>1
      <4>2. CASE i \in 2 .. FAT_BUFFERS
        <5>1. PICK k \in 1 .. FAT_BUFFERS : k # p /\ list[i] = c.list[k]
          BY <1>8, <4>2 DEF RestIs
        <5> QED
          BY <1>7, <2>2, <5>1
      <4> QED
        BY <1>11, <4>1, <4>2
    <3>2. Seen(d, r) = d.disk[r]
      BY <1>12, <3>1, SeenAt
    <3>3. CASE old.nSector = r
      <4>1. Seen(c, r) = old.Data
        BY <1>4, <3>3, SeenIs
      <4>2. ~old.bDirty => c.disk[r] = old.Data
        BY <1>4, <3>3, Numbers DEF CacheOK, Clean
      <4> QED
        BY <1>9, <3>2, <3>3, <4>1, <4>2
    <3>4. CASE old.nSector # r
      <4>1. \A k \in 1 .. FAT_BUFFERS : c.list[k].nSector # r
        BY <1>4, <2>2, <3>4
      <4> QED
        BY <1>9, <3>2, <3>4, <4>1, SeenIs
    <3> QED
      BY <3>3, <3>4
  <2> QED
    BY <2>1, <2>2
<1>16. ASSUME d = ForReading(c, s)
       PROVE  Clean(d, 1) /\ Seen(d, s) = Seen(c, s)
  <2>1. old.nSector # s
    BY <1>2, <1>4
  <2>2. d.disk[s] = c.disk[s] /\ e.Data = c.disk[s]
    BY <1>5, <1>9, <1>16, <2>1
  <2>3. Seen(c, s) = c.disk[s]
    BY <1>2, SeenIs
  <2>4. d.list[1].nSector = s
    BY <1>5, <1>7, <1>8
  <2>5. Seen(d, s) = e.Data
    BY <1>7, <1>8, <1>11, <1>12, <2>4, SeenAt
  <2>6. Clean(d, 1)
    <3>1. ASSUME NEW i \in 1 .. FAT_BUFFERS, d.list[i].nSector # BUFFER_NOSECTOR,
                 ~d.list[i].bDirty
          PROVE  d.disk[d.list[i].nSector] = d.list[i].Data
      BY <1>7, <1>8, <1>11, <1>13, <2>2, <2>4, <3>1 DEF Clean
    <3> QED
      BY <3>1 DEF Clean
  <2> QED
    BY <2>2, <2>3, <2>5, <2>6
<1>17. d.list[1].nSector = s
  BY <1>5, <1>7, <1>8
<1> QED
  BY <1>12, <1>13, <1>14, <1>15, <1>16, <1>17

\* GetSector() for reading: nothing is shown otherwise than before, and what
\* gets to the disk is what was shown.
LEMMA Got ==
  ASSUME NEW c, CacheOK(c), NEW s \in Sector, NEW d, d = ForReading(c, s)
  PROVE  /\ CacheOK(d) /\ d.list[1].nSector = s /\ DataOf(d) = Seen(c, s)
         /\ \A r \in Sector : Seen(d, r) = Seen(c, r)
         /\ \A r \in Sector : d.disk[r] = c.disk[r] \/ d.disk[r] = Seen(c, r)
<1>1. /\ CacheOK(d) /\ d.list[1].nSector = s
      /\ \A r \in Sector : Seen(d, r) = Seen(c, r)
      /\ \A r \in Sector : d.disk[r] = c.disk[r] \/ d.disk[r] = Seen(c, r)
  <2>2. CASE BufferOf(c.list, s) # 0
    <3>1. /\ CacheOK(d) /\ d.disk = c.disk /\ d.list[1].nSector = s
          /\ \A r \in Sector : Seen(d, r) = Seen(c, r)
      BY <2>2, GetHit
    <3> QED
      BY <3>1
  <2>3. CASE BufferOf(c.list, s) = 0
    <3>1. /\ Cached(d) /\ Clean(d, 1) /\ d.list[1].nSector = s
          /\ \A r \in Sector : d.disk[r] = c.disk[r] \/ d.disk[r] = Seen(c, r)
          /\ \A r \in Sector : r # s => Seen(d, r) = Seen(c, r)
          /\ Seen(d, s) = Seen(c, s)
      BY <2>3, GetMiss
    <3> QED
      BY <3>1 DEF CacheOK
  <2> QED
    BY <2>2, <2>3
<1>2. DataOf(d) = Seen(c, s)
  <2>1. 1 \in 1 .. FAT_BUFFERS
    BY Numbers
  <2>2. Seen(d, s) = d.list[1].Data
    BY <1>1, <2>1, SeenIs
  <2> QED
    BY <1>1, <2>2 DEF DataOf
<1> QED
  BY <1>1, <1>2

\* New contents of the sector that is first
LEMMA Marked ==
  ASSUME NEW c, Cached(c), Clean(c, 2), NEW s \in Sector, c.list[1].nSector = s,
         NEW data \in Content, NEW d, d = MarkDirty(c, data)
  PROVE  /\ CacheOK(d) /\ d.disk = c.disk /\ d.list[1].nSector = s
         /\ \A r \in Sector : Seen(d, r) = IF r = s THEN data ELSE Seen(c, r)
<1>1. /\ c.list \in Seq(Buffer) /\ Len(c.list) = FAT_BUFFERS /\ c.disk \in [Sector -> Content]
      /\ c \in [list : Seq(Buffer), disk : [Sector -> Content]]
      /\ \A i \in 1 .. FAT_BUFFERS : c.list[i] \in Buffer
      /\ 1 \in 1 .. FAT_BUFFERS /\ FAT_BUFFERS \in Nat
  BY ElementOfSeq, Numbers DEF Cached
<1>2. PICK e \in Buffer : /\ e = [c.list[1] EXCEPT !.Data = data, !.bDirty = TRUE]
                         /\ e.nSector = s /\ e.bDirty /\ e.Data = data
  <2>1. PICK b \in Buffer : b = c.list[1] /\ b.nSector = s
    BY <1>1
  <2>2. PICK e : e = [b EXCEPT !.Data = data, !.bDirty = TRUE]
    OBVIOUS
  <2>3. e \in Buffer /\ e.nSector = s /\ e.bDirty /\ e.Data = data
    BY <2>1, <2>2 DEF Buffer
  <2> QED
    BY <2>1, <2>2, <2>3
<1>3. c.list \in [1 .. FAT_BUFFERS -> Buffer]
  BY <1>1, LenProperties
<1>4. /\ d = [list |-> [c.list EXCEPT ![1] = e], disk |-> c.disk]
      /\ d.list = [c.list EXCEPT ![1] = e] /\ d.disk = c.disk
  BY <1>1, <1>2, <1>3 DEF MarkDirty
<1>5. /\ d.list \in [1 .. FAT_BUFFERS -> Buffer]
      /\ \A i \in 1 .. FAT_BUFFERS : d.list[i] = IF i = 1 THEN e ELSE c.list[i]
  BY <1>3, <1>4
<1>6. d.list \in Seq(Buffer) /\ Len(d.list) = FAT_BUFFERS
  BY <1>1, <1>5, LenProperties, SeqDef
<1>7. \A i \in 1 .. FAT_BUFFERS : d.list[i].nSector = c.list[i].nSector
  BY <1>2, <1>5
<1>8. Cached(d)
  <2>1. d \in [list : Seq(Buffer), disk : [Sector -> Content]]
    BY <1>1, <1>4, <1>6
  <2> QED
    BY <1>6, <1>7, <2>1 DEF Cached
<1>9. Clean(d, 1)
  <2>1. ASSUME NEW i \in 1 .. FAT_BUFFERS, d.list[i].nSector # BUFFER_NOSECTOR,
               ~d.list[i].bDirty
        PROVE  d.disk[d.list[i].nSector] = d.list[i].Data
    <3>1. i # 1
      BY <1>2, <1>5, <2>1
    <3>2. d.list[i] = c.list[i]
      BY <1>5, <3>1
    <3>3. i \in 2 .. FAT_BUFFERS
      BY <3>1, Numbers
    <3> QED
      BY <1>4, <2>1, <3>2, <3>3 DEF Clean
  <2> QED
    BY <2>1 DEF Clean
<1>10. ASSUME NEW r \in Sector
       PROVE  Seen(d, r) = IF r = s THEN data ELSE Seen(c, r)
  <2>1. CASE r = s
    <3>1. d.list[1].nSector = r /\ d.list[1].Data = data
      BY <1>1, <1>2, <1>5, <2>1
    <3>2. Seen(d, r) = data
      BY <1>1, <1>8, <3>1, SeenAt
    <3> QED
      BY <2>1, <3>2
  <2>2. CASE r # s
    <3>1. CASE \E i \in 1 .. FAT_BUFFERS : c.list[i].nSector = r
      <4>1. PICK i \in 1 .. FAT_BUFFERS : c.list[i].nSector = r
        BY <3>1
      <4>2. d.list[i] = c.list[i]
        BY <1>5, <2>2, <4>1
      <4> QED
        BY <1>8, <2>2, <4>1, <4>2, SeenAt
    <3>2. CASE \A i \in 1 .. FAT_BUFFERS : c.list[i].nSector # r
      <4>1. \A i \in 1 .. FAT_BUFFERS : d.list[i].nSector # r
        BY <1>7, <3>2
      <4>2. Seen(d, r) = d.disk[r]
        BY <1>8, <4>1, SeenAt
      <4>3. Seen(c, r) = c.disk[r]
        BY <3>2, SeenAt
      <4> QED
        BY <1>4, <2>2, <4>2, <4>3
    <3> QED
      BY <3>1, <3>2
  <2> QED
    BY <2>1, <2>2
<1> QED
  <2>1. d.list[1].nSector = s
    BY <1>1, <1>7
  <2> QED
    BY <1>4, <1>8, <1>9, <1>10, <2>1 DEF CacheOK

\* A sector that is got and changed, or overwritten: it is shown with its new
\* contents, all others as before, and what gets to the disk was shown before.
LEMMA Put ==
  ASSUME NEW c, CacheOK(c), NEW s \in Sector, NEW data \in Content, NEW d,
         \/ d = MarkDirty(ForReading(c, s), data)
         \/ d = MarkDirty(ForWriting(c, s), data)
  PROVE  /\ CacheOK(d) /\ d.list[1].nSector = s
         /\ \A r \in Sector : Seen(d, r) = IF r = s THEN data ELSE Seen(c, r)
         /\ \A r \in Sector : d.disk[r] = c.disk[r] \/ d.disk[r] = Seen(c, r)
<1>1. PICK e : /\ e = ForReading(c, s) \/ e = ForWriting(c, s)
               /\ d = MarkDirty(e, data)
  OBVIOUS
<1>2. /\ Cached(e) /\ Clean(e, 2) /\ e.list[1].nSector = s
      /\ \A r \in Sector : e.disk[r] = c.disk[r] \/ e.disk[r] = Seen(c, r)
      /\ \A r \in Sector : r # s => Seen(e, r) = Seen(c, r)
  <2>1. CASE BufferOf(c.list, s) # 0
    <3>1. CacheOK(e) /\ e.disk = c.disk /\ e.list[1].nSector = s
          /\ \A r \in Sector : Seen(e, r) = Seen(c, r)
      BY <1>1, <2>1, GetHit
    <3>2. Clean(e, 2)
      BY <3>1, Numbers DEF CacheOK, Clean
    <3> QED
      BY <3>1, <3>2 DEF CacheOK
  <2>2. CASE BufferOf(c.list, s) = 0
    BY <1>1, <2>2, GetMiss
  <2> QED
    BY <2>1, <2>2
<1>3. /\ CacheOK(d) /\ d.disk = e.disk /\ d.list[1].nSector = s
      /\ \A r \in Sector : Seen(d, r) = IF r = s THEN data ELSE Seen(e, r)
  BY <1>1, <1>2, Marked
<1> QED
  BY <1>2, <1>3

-----------------------------------------------------------------------------
(* What the calls show.  Above the cache there is one table, one directory   *)
(* and one content of each data sector, and a step gets to the disk nothing   *)
(* but what they were before it or are after it.                            *)

Table == View(FATSector)
Root == View(RootSector)
Data == [n \in Cluster |-> View(n)]

WrittenBack ==
  /\ \A s \in Sector : disk'[s] = disk[s] \/ disk'[s] = View(s) \/ disk'[s] = View(s)'
  /\ CacheOK(Cache)'
  /\ View(FSInfoSector)' \in {View(FSInfoSector), m_nNextFreeCluster}

LEMMA ViewIsSeen ==
  /\ \A s \in Sector : View(s) = Seen(Cache, s)
  /\ Table = Seen(Cache, FATSector) /\ Root = Seen(Cache, RootSector)
  /\ Data = [n \in Cluster |-> Seen(Cache, n)]
  /\ Cache.list = m_BufferList /\ Cache.disk = disk
BY DEF View, Seen, Cache, Table, Root, Data

\* The state after a call is the cache that it computes.
LEMMA Becomes ==
  ASSUME CacheOK(Cache), NEW d, CacheOK(d), BecomesCache(d),
         \A s \in Sector :
           d.disk[s] = disk[s] \/ d.disk[s] = View(s) \/ d.disk[s] = Seen(d, s),
         Seen(d, FSInfoSector) \in {View(FSInfoSector), m_nNextFreeCluster}
  PROVE  /\ WrittenBack /\ Table' = Seen(d, FATSector) /\ Root' = Seen(d, RootSector)
         /\ Data' = [n \in Cluster |-> Seen(d, n)]
<1>1. Cache' = d
  BY DEF Cache, BecomesCache, CacheOK, Cached
<1>2. ASSUME NEW s \in Sector
      PROVE  View(s)' = Seen(d, s)
  <2>1. View(s)' = Seen(Cache', s)
    BY DEF View, Seen, Cache
  <2> QED
    BY <1>1, <2>1
<1>3. CacheOK(Cache)'
  BY <1>1
<1>4. Table' = Seen(d, FATSector) /\ Root' = Seen(d, RootSector)
  BY <1>2, Numbers DEF Table, Root
<1>5. Data' = [n \in Cluster |-> Seen(d, n)]
  BY <1>2, Numbers DEF Data
<1>6. disk' = d.disk
  BY DEF BecomesCache
<1> QED
  BY <1>2, <1>3, <1>4, <1>5, <1>6, Numbers DEF WrittenBack

\* A sector is only read.
LEMMA Reads ==
  ASSUME CacheOK(Cache), NEW s \in Sector, NEW d, d = ForReading(Cache, s),
         BecomesCache(d) \/ BecomesCache(FreeData(d))
  PROVE  WrittenBack /\ Table' = Table /\ Root' = Root /\ Data' = Data
<1>1. PICK c : c = Cache
  OBVIOUS
<1>2. d = ForReading(c, s)
  BY <1>1
<1>3. /\ CacheOK(d) /\ \A r \in Sector : Seen(d, r) = Seen(c, r)
      /\ \A r \in Sector : d.disk[r] = c.disk[r] \/ d.disk[r] = Seen(c, r)
  BY <1>1, <1>2, Got
<1>4. PICK e : /\ CacheOK(e) /\ e.disk = d.disk /\ BecomesCache(e)
               /\ \A r \in Sector : Seen(e, r) = Seen(d, r)
  <2>1. CASE BecomesCache(d)
    BY <1>3, <2>1
  <2>2. CASE BecomesCache(FreeData(d))
    BY <1>3, <2>2, FreeDataSame
  <2> QED
    BY <2>1, <2>2
<1>5. /\ \A r \in Sector : View(r) = Seen(c, r)
      /\ Table = Seen(c, FATSector) /\ Root = Seen(c, RootSector)
      /\ Data = [n \in Cluster |-> Seen(c, n)] /\ c.disk = disk
  BY <1>1, ViewIsSeen
<1>6. Seen(e, FSInfoSector) \in {View(FSInfoSector), m_nNextFreeCluster}
  BY <1>3, <1>4, <1>5, Numbers
<1>7. /\ WrittenBack /\ Table' = Seen(e, FATSector) /\ Root' = Seen(e, RootSector)
      /\ Data' = [n \in Cluster |-> Seen(e, n)]
  BY <1>3, <1>4, <1>5, <1>6, Becomes
<1> QED
  BY <1>3, <1>4, <1>5, <1>7, Numbers

\* A sector gets new contents.
LEMMA Writes ==
  ASSUME CacheOK(Cache), NEW s \in Sector, NEW data \in Content, NEW d,
         d = MarkDirty(ForReading(Cache, s), data) \/ d = MarkDirty(ForWriting(Cache, s), data),
         BecomesCache(d) \/ BecomesCache(FreeData(d)),
         s = FSInfoSector => data = m_nNextFreeCluster
  PROVE  /\ WrittenBack
         /\ Table' = IF s = FATSector THEN data ELSE Table
         /\ Root' = IF s = RootSector THEN data ELSE Root
         /\ Data' = [n \in Cluster |-> IF n = s THEN data ELSE Data[n]]
<1>1. PICK c : c = Cache
  OBVIOUS
<1>2. /\ \A r \in Sector : View(r) = Seen(c, r)
      /\ Table = Seen(c, FATSector) /\ Root = Seen(c, RootSector)
      /\ Data = [n \in Cluster |-> Seen(c, n)] /\ c.disk = disk
  BY <1>1, ViewIsSeen
<1>3. /\ CacheOK(d)
      /\ \A r \in Sector : Seen(d, r) = IF r = s THEN data ELSE Seen(c, r)
      /\ \A r \in Sector : d.disk[r] = c.disk[r] \/ d.disk[r] = Seen(c, r)
  <2>1. d = MarkDirty(ForReading(c, s), data) \/ d = MarkDirty(ForWriting(c, s), data)
    BY <1>1
  <2> QED
    BY <1>1, <2>1, Put
<1>4. PICK e : /\ CacheOK(e) /\ e.disk = d.disk /\ BecomesCache(e)
               /\ \A r \in Sector : Seen(e, r) = Seen(d, r)
  <2>1. CASE BecomesCache(d)
    BY <1>3, <2>1
  <2>2. CASE BecomesCache(FreeData(d))
    BY <1>3, <2>2, FreeDataSame
  <2> QED
    BY <2>1, <2>2
<1>a. Seen(e, FSInfoSector) \in {View(FSInfoSector), m_nNextFreeCluster}
  BY <1>2, <1>3, <1>4, Numbers
<1>5. /\ WrittenBack /\ Table' = Seen(e, FATSector) /\ Root' = Seen(e, RootSector)
      /\ Data' = [n \in Cluster |-> Seen(e, n)]
  BY <1>2, <1>3, <1>4, <1>a, Becomes
<1>6. Data' = [n \in Cluster |-> IF n = s THEN data ELSE Data[n]]
  BY <1>2, <1>3, <1>4, <1>5, Numbers
<1> QED
  BY <1>2, <1>3, <1>4, <1>5, <1>6, Numbers

\* What is got of the table and the directory
LEMMA Gets ==
  ASSUME CacheOK(Cache)
  PROVE  /\ GetFAT(Cache) = ForReading(Cache, FATSector) /\ DataOf(GetFAT(Cache)) = Table
         /\ GetRoot(Cache) = ForReading(Cache, RootSector) /\ DataOf(GetRoot(Cache)) = Root
         /\ TheFAT = Table /\ TheRoot = Root
<1>1. GetFAT(Cache) = ForReading(Cache, FATSector) /\ GetRoot(Cache) = ForReading(Cache, RootSector)
  BY DEF GetFAT, GetRoot, ForReading
<1>2. PICK c : c = Cache
  OBVIOUS
<1>3. DataOf(ForReading(c, FATSector)) = Seen(c, FATSector)
  BY <1>2, Got, Numbers
<1>4. DataOf(ForReading(c, RootSector)) = Seen(c, RootSector)
  BY <1>2, Got, Numbers
<1> QED
  BY <1>1, <1>2, <1>3, <1>4, ViewIsSeen DEF TheFAT, TheRoot

-----------------------------------------------------------------------------
(* Types                                                                    *)

\* A file that is written, and one that is read
OpenFile == [open : {TRUE}, bWrite : {TRUE}, title : Title, nSize : Nat,
             nCluster : Cluster \cup {0}, nFirstCluster : Cluster \cup {0}, version : AnyVersion]
ReadFile == [open : {TRUE}, bWrite : {FALSE}, title : Title, nOffset : Nat, nSize : Nat,
             nCluster : Nat]

\* UnMount() writes back as FileClose() does, but for no file: it has handle 0.
DeleteCall == [name : {"delete"}, title : Title,
               then : {[name |-> "none"]} \cup [name : {"create"}, h : Handle, v : AnyVersion]]
WriteCall == [name : {"allocate", "fill"}, h : Handle, left : Int]
CloseCall == [name : {"fsinfo", "flush"}, h : Handle \cup {0}]
ReadCall == [name : {"read"}, h : Handle]

\* Where a search can start: at a cluster, or behind the last one
Hint == 2 .. EOC

FatTypes ==
  /\ CacheOK(Cache) /\ Table \in FATs /\ Root \in Roots
  /\ m_nNextFreeCluster \in Hint /\ View(FSInfoSector) \in Hint /\ disk[FSInfoSector] \in Hint
  /\ m_Files \in [Handle -> OpenFile \cup ReadFile \cup {NotOpen}]
  /\ fsOp \in {NoCall} \cup DeleteCall \cup WriteCall \cup CloseCall \cup ReadCall
  /\ saved \in [Title -> [size : Nat, version : AnyVersion \cup {"none"}]]

LEMMA CallIs ==
  ASSUME FatTypes
  PROVE  /\ fsOp.name = "delete" => fsOp \in DeleteCall
         /\ fsOp.name \in {"allocate", "fill"} => fsOp \in WriteCall
         /\ fsOp.name \in {"fsinfo", "flush"} => fsOp \in CloseCall
         /\ fsOp.name = "read" => fsOp \in ReadCall
         /\ fsOp = NoCall => fsOp.name = "none"
BY DEF FatTypes, NoCall, DeleteCall, WriteCall, CloseCall, ReadCall

LEMMA FileIs ==
  ASSUME FatTypes, NEW h \in Handle
  PROVE  /\ m_Files[h].bWrite => m_Files[h] \in OpenFile
         /\ m_Files[h].open /\ ~m_Files[h].bWrite => m_Files[h] \in ReadFile
         /\ ~m_Files[h].open => ~m_Files[h].bWrite
<1>1. m_Files[h] \in OpenFile \/ m_Files[h] \in ReadFile \/ m_Files[h] = NotOpen
  BY DEF FatTypes
<1>2. m_Files[h] \in OpenFile => m_Files[h].open /\ m_Files[h].bWrite
  BY DEF OpenFile
<1>3. m_Files[h] \in ReadFile => m_Files[h].open /\ ~m_Files[h].bWrite
  BY DEF ReadFile
<1>4. ~NotOpen.open /\ ~NotOpen.bWrite
  BY DEF NotOpen
<1> QED
  BY <1>1, <1>2, <1>3, <1>4

\* What the FSInfo sector says, on the disk too
LEMMA HintStays ==
  ASSUME FatTypes, WrittenBack
  PROVE  CacheOK(Cache)' /\ View(FSInfoSector)' \in Hint /\ disk'[FSInfoSector] \in Hint
BY Numbers DEF FatTypes, WrittenBack

\* What the calls write is what a sector can hold.
LEMMA Writable ==
  /\ FATs \subseteq Content /\ Roots \subseteq Content /\ Hint \subseteq Content
  /\ \A t \in Title, v \in AnyVersion, n \in Nat : <<t, v, n>> \in Content
  /\ Cluster \subseteq Hint /\ Hint \subseteq Nat
BY Numbers DEF Content, Word, Hint, EOC, Cluster, AnyVersion

-----------------------------------------------------------------------------
(* What each kind of step shows                                             *)

\* The entry of a file
LEMMA EntryWritten ==
  ASSUME FatTypes, NEW t \in Title, NEW e \in Entry,
         BecomesCache(MarkDirty(GetRoot(Cache), [DataOf(GetRoot(Cache)) EXCEPT ![t] = e]))
  PROVE  WrittenBack /\ Table' = Table /\ Root' = [Root EXCEPT ![t] = e] /\ Data' = Data
<1>1. PICK root : root = [Root EXCEPT ![t] = e]
  OBVIOUS
<1>2. root \in Content
  BY <1>1, Writable DEF FatTypes, Roots
<1>3. PICK d : d = MarkDirty(ForReading(Cache, RootSector), root)
  OBVIOUS
<1>4. BecomesCache(d)
  BY <1>1, <1>3, Gets DEF FatTypes
<1>5. /\ WrittenBack /\ Table' = IF RootSector = FATSector THEN root ELSE Table
      /\ Root' = IF RootSector = RootSector THEN root ELSE Root
      /\ Data' = [n \in Cluster |-> IF n = RootSector THEN root ELSE Data[n]]
  BY <1>2, <1>3, <1>4, Writes, Numbers DEF FatTypes
<1>6. Data' = Data
  BY <1>5, Numbers DEF Data
<1> QED
  BY <1>1, <1>5, <1>6, Numbers

\* The table
LEMMA TableWritten ==
  ASSUME FatTypes, NEW fat \in FATs, BecomesCache(MarkDirty(GetFAT(Cache), fat))
  PROVE  WrittenBack /\ Table' = fat /\ Root' = Root /\ Data' = Data
<1>1. fat \in Content
  BY Writable
<1>2. PICK d : d = MarkDirty(ForReading(Cache, FATSector), fat)
  OBVIOUS
<1>3. BecomesCache(d)
  BY <1>2, Gets DEF FatTypes
<1>4. /\ WrittenBack /\ Table' = IF FATSector = FATSector THEN fat ELSE Table
      /\ Root' = IF FATSector = RootSector THEN fat ELSE Root
      /\ Data' = [n \in Cluster |-> IF n = FATSector THEN fat ELSE Data[n]]
  BY <1>1, <1>2, <1>3, Writes, Numbers DEF FatTypes
<1>5. Data' = Data
  BY <1>4, Numbers DEF Data
<1> QED
  BY <1>4, <1>5, Numbers

\* A data sector
LEMMA DataWritten ==
  ASSUME FatTypes, NEW k \in Cluster, NEW data \in Content,
         BecomesCache(FreeData(MarkDirty(GetSector(Cache, k, TRUE), data)))
  PROVE  WrittenBack /\ Table' = Table /\ Root' = Root /\ Data' = [Data EXCEPT ![k] = data]
<1>1. PICK d : d = MarkDirty(ForWriting(Cache, k), data)
  OBVIOUS
<1>2. BecomesCache(FreeData(d))
  BY <1>1 DEF ForWriting
<1>3. /\ WrittenBack /\ Table' = IF k = FATSector THEN data ELSE Table
      /\ Root' = IF k = RootSector THEN data ELSE Root
      /\ Data' = [n \in Cluster |-> IF n = k THEN data ELSE Data[n]]
  BY <1>1, <1>2, Writes, Numbers DEF FatTypes
<1>4. Data' = [Data EXCEPT ![k] = data]
  BY <1>3 DEF Data
<1> QED
  BY <1>3, <1>4, Numbers

\* The FSInfo sector
LEMMA HintWritten ==
  ASSUME FatTypes, UpdateFSInfo
  PROVE  WrittenBack /\ Table' = Table /\ Root' = Root /\ Data' = Data
<1>1. m_nNextFreeCluster \in Content
  BY Writable DEF FatTypes
<1>2. PICK hint : hint = m_nNextFreeCluster
  OBVIOUS
<1>3. PICK d : d = MarkDirty(ForReading(Cache, FSInfoSector), hint)
  OBVIOUS
<1>4. BecomesCache(d)
  BY <1>2, <1>3 DEF UpdateFSInfo, ForReading
<1>5. /\ WrittenBack /\ Table' = IF FSInfoSector = FATSector THEN hint ELSE Table
      /\ Root' = IF FSInfoSector = RootSector THEN hint ELSE Root
      /\ Data' = [n \in Cluster |-> IF n = FSInfoSector THEN hint ELSE Data[n]]
  BY <1>1, <1>2, <1>3, <1>4, Writes, Numbers DEF FatTypes
<1>6. Data' = Data
  BY <1>5, Numbers DEF Data
<1> QED
  BY <1>5, <1>6, Numbers

\* A sector is only read.
LEMMA NothingWritten ==
  ASSUME FatTypes, BecomesCache(GetFAT(Cache)) \/ BecomesCache(GetRoot(Cache))
  PROVE  WrittenBack /\ Table' = Table /\ Root' = Root /\ Data' = Data
<1>1. BecomesCache(ForReading(Cache, FATSector)) \/ BecomesCache(ForReading(Cache, RootSector))
  BY Gets DEF FatTypes
<1> QED
  BY <1>1, Reads, Numbers DEF FatTypes

\* The cache is not used at all.
LEMMA CacheNotUsed ==
  ASSUME FatTypes, UNCHANGED <<disk, m_BufferList>>
  PROVE  WrittenBack /\ Table' = Table /\ Root' = Root /\ Data' = Data
<1>1. Cache' = Cache /\ disk' = disk
  BY DEF Cache
<1>2. CacheOK(Cache)'
  BY <1>1 DEF FatTypes
<1>3. Table' = Table /\ Root' = Root /\ Data' = Data
  BY <1>1 DEF Table, Root, Data, View
<1>4. View(FSInfoSector)' = View(FSInfoSector)
  BY <1>1 DEF View
<1> QED
  BY <1>1, <1>2, <1>3, <1>4 DEF WrittenBack

\* A dirty sector is written, and stays in the cache.
LEMMA Flushed ==
  ASSUME FatTypes, FlushStep
  PROVE  WrittenBack /\ Table' = Table /\ Root' = Root /\ Data' = Data
<1>1. PICK c : c = Cache
  OBVIOUS
<1>2. PICK i \in 1 .. FAT_BUFFERS :
        /\ c.list[i].nSector # BUFFER_NOSECTOR
        /\ disk' = [c.disk EXCEPT ![c.list[i].nSector] = c.list[i].Data]
        /\ m_BufferList' = [c.list EXCEPT ![i].bDirty = FALSE]
  BY <1>1, ViewIsSeen DEF FlushStep, DirtyBuffers
<1>3. /\ CacheOK(c) /\ c.list \in Seq(Buffer) /\ Len(c.list) = FAT_BUFFERS
      /\ c.disk \in [Sector -> Content] /\ FAT_BUFFERS \in Nat
      /\ \A j \in 1 .. FAT_BUFFERS : c.list[j] \in Buffer
  BY <1>1, ElementOfSeq, Numbers DEF FatTypes, CacheOK, Cached
<1>4. PICK b \in Buffer : b = c.list[i]
  BY <1>3
<1>5. b.nSector \in Sector /\ b.Data \in Content
  BY <1>2, <1>4 DEF Buffer
<1>6. PICK e \in Buffer : /\ e = [b EXCEPT !.bDirty = FALSE]
                          /\ e.nSector = b.nSector /\ e.Data = b.Data
  <2>1. PICK e : e = [b EXCEPT !.bDirty = FALSE]
    OBVIOUS
  <2>2. e \in Buffer /\ e.nSector = b.nSector /\ e.Data = b.Data
    BY <2>1 DEF Buffer
  <2> QED
    BY <2>1, <2>2
<1>7. PICK d : d = [list |-> m_BufferList', disk |-> disk']
  OBVIOUS
<1>8. /\ d.list = [c.list EXCEPT ![i] = e] /\ d.disk = [c.disk EXCEPT ![b.nSector] = b.Data]
      /\ d = [list |-> d.list, disk |-> d.disk]
  BY <1>2, <1>4, <1>6, <1>7
<1>9. c.list \in [1 .. FAT_BUFFERS -> Buffer]
  BY <1>3, LenProperties
<1>10. /\ d.list \in [1 .. FAT_BUFFERS -> Buffer]
       /\ \A j \in 1 .. FAT_BUFFERS : d.list[j] = IF j = i THEN e ELSE c.list[j]
  BY <1>8, <1>9
<1>11. d.list \in Seq(Buffer) /\ Len(d.list) = FAT_BUFFERS
  BY <1>3, <1>10, LenProperties, SeqDef
<1>12. d.disk \in [Sector -> Content] /\ \A r \in Sector :
         d.disk[r] = IF r = b.nSector THEN b.Data ELSE c.disk[r]
  BY <1>3, <1>5, <1>8
<1>13. \A j \in 1 .. FAT_BUFFERS :
         d.list[j].nSector = c.list[j].nSector /\ d.list[j].Data = c.list[j].Data
  BY <1>4, <1>6, <1>10
<1>14. Cached(d)
  <2>1. d \in [list : Seq(Buffer), disk : [Sector -> Content]]
    BY <1>8, <1>11, <1>12
  <2> QED
    BY <1>3, <1>11, <1>13, <2>1 DEF Cached, CacheOK
<1>15. Clean(d, 1)
  <2>1. ASSUME NEW j \in 1 .. FAT_BUFFERS, d.list[j].nSector # BUFFER_NOSECTOR,
               ~d.list[j].bDirty
        PROVE  d.disk[d.list[j].nSector] = d.list[j].Data
    <3>1. CASE j = i
      BY <1>5, <1>6, <1>10, <1>12, <3>1
    <3>2. CASE j # i
      <4>1. d.list[j] = c.list[j] /\ c.list[j].nSector # b.nSector
        BY <1>3, <1>4, <1>10, <2>1, <3>2 DEF Cached, CacheOK
      <4>2. c.list[j].nSector \in Sector
        BY <1>3, <2>1, <4>1 DEF Buffer
      <4>3. c.disk[c.list[j].nSector] = c.list[j].Data
        BY <1>3, <2>1, <4>1 DEF Clean, CacheOK
      <4> QED
        BY <1>12, <4>1, <4>2, <4>3
    <3> QED
      BY <3>1, <3>2
  <2> QED
    BY <2>1 DEF Clean
<1>16. CacheOK(d)
  BY <1>14, <1>15 DEF CacheOK
<1>17. ASSUME NEW r \in Sector
       PROVE  Seen(d, r) = Seen(c, r) /\ (d.disk[r] = disk[r] \/ d.disk[r] = View(r))
  <2>1. c.disk = disk /\ View(r) = Seen(c, r)
    BY <1>1, ViewIsSeen
  <2>2. CASE \E j \in 1 .. FAT_BUFFERS : c.list[j].nSector = r
    <3>1. PICK j \in 1 .. FAT_BUFFERS : c.list[j].nSector = r
      BY <2>2
    <3>2. Seen(c, r) = c.list[j].Data /\ Seen(d, r) = d.list[j].Data
      BY <1>3, <1>13, <1>16, <3>1, SeenIs
    <3>3. r = b.nSector => b.Data = Seen(c, r)
      BY <1>3, <1>4, SeenIs
    <3> QED
      BY <1>12, <1>13, <2>1, <3>2, <3>3
  <2>3. CASE \A j \in 1 .. FAT_BUFFERS : c.list[j].nSector # r
    <3>1. Seen(c, r) = c.disk[r] /\ Seen(d, r) = d.disk[r]
      BY <1>3, <1>13, <1>16, <2>3, SeenIs
    <3>2. r # b.nSector
      BY <1>4, <2>3
    <3> QED
      BY <1>12, <2>1, <3>1, <3>2
  <2> QED
    BY <2>2, <2>3
<1>18. BecomesCache(d)
  BY <1>7 DEF BecomesCache
<1>19. /\ WrittenBack /\ Table' = Seen(d, FATSector) /\ Root' = Seen(d, RootSector)
       /\ Data' = [n \in Cluster |-> Seen(d, n)]
  <2>1. Seen(d, FSInfoSector) = View(FSInfoSector)
    BY <1>1, <1>17, ViewIsSeen, Numbers
  <2> QED
    BY <1>16, <1>17, <1>18, <2>1, Becomes DEF FatTypes
<1>20. /\ Table = Seen(c, FATSector) /\ Root = Seen(c, RootSector)
       /\ Data = [n \in Cluster |-> Seen(c, n)]
  BY <1>1, ViewIsSeen
<1> QED
  BY <1>17, <1>19, <1>20, Numbers

\* The end of FileDelete(): the table and then the directory
FreedBy(t) == ChainFrom(Table, Root[t].first)

LEMMA ChainFreed ==
  ASSUME FatTypes, DeleteEnds, NEW t \in Title, t = fsOp.title
  PROVE  /\ WrittenBack /\ Data' = Data
         /\ Table' = [n \in Cluster |-> IF n \in FreedBy(t) THEN 0 ELSE Table[n]]
         /\ Root' = [Root EXCEPT ![t] = IF fsOp.then.name = "create" THEN Created ELSE NoEntry]
<1>1. PICK c : c = Cache
  OBVIOUS
<1>2. PICK fat : fat = [n \in Cluster |-> IF n \in FreedBy(t) THEN 0 ELSE Table[n]]
  OBVIOUS
<1>3. fat \in FATs /\ fat \in Content
  <2>1. fat \in FATs
    BY <1>2 DEF FatTypes, FATs
  <2> QED
    BY <2>1, Writable
<1>4. PICK e \in Entry : e = IF fsOp.then.name = "create" THEN Created ELSE NoEntry
  <2>1. Created \in Entry /\ NoEntry \in Entry
    BY DEF Entry, Created, NoEntry
  <2> QED
    BY <2>1
<1>5. PICK root \in Roots : root = [Root EXCEPT ![t] = e]
  BY DEF FatTypes, Roots
<1>6. PICK f : f = MarkDirty(ForReading(c, FATSector), fat)
  OBVIOUS
<1>7. /\ CacheOK(f)
      /\ \A r \in Sector : Seen(f, r) = IF r = FATSector THEN fat ELSE Seen(c, r)
      /\ \A r \in Sector : f.disk[r] = c.disk[r] \/ f.disk[r] = Seen(c, r)
  BY <1>1, <1>3, <1>6, Put, Numbers DEF FatTypes
<1>8. /\ \A r \in Sector : View(r) = Seen(c, r)
      /\ Table = Seen(c, FATSector) /\ Root = Seen(c, RootSector)
      /\ Data = [n \in Cluster |-> Seen(c, n)] /\ c.disk = disk
  BY <1>1, ViewIsSeen
<1>9. DataOf(ForReading(f, RootSector)) = Root
  <2>1. DataOf(ForReading(f, RootSector)) = Seen(f, RootSector)
    BY <1>7, Got, Numbers
  <2> QED
    BY <1>7, <1>8, <2>1, Numbers
<1>10. PICK d : d = MarkDirty(ForReading(f, RootSector), root)
  OBVIOUS
<1>11. /\ CacheOK(d)
       /\ \A r \in Sector : Seen(d, r) = IF r = RootSector THEN root ELSE Seen(f, r)
       /\ \A r \in Sector : d.disk[r] = f.disk[r] \/ d.disk[r] = Seen(f, r)
  <2>1. root \in Content
    BY Writable
  <2> QED
    BY <1>7, <1>10, <2>1, Put, Numbers
<1>12. PICK g : /\ BecomesCache(g) /\ CacheOK(g) /\ \A r \in Sector : Seen(g, r) = Seen(d, r)
               /\ \A r \in Sector : g.disk[r] = d.disk[r] \/ g.disk[r] = Seen(d, r)
  <2>1. f = MarkDirty(GetFAT(Cache),
              [n \in Cluster |-> IF n \in ChainFrom(DataOf(GetFAT(Cache)), TheRoot[fsOp.title].first)
                                 THEN 0 ELSE DataOf(GetFAT(Cache))[n]])
    BY <1>1, <1>2, <1>6, Gets DEF FatTypes, FreedBy
  <2>2. GetRoot(f) = ForReading(f, RootSector) /\ GetFAT(d) = ForReading(d, FATSector)
    BY DEF GetRoot, GetFAT, ForReading
  <2>3. d = MarkDirty(GetRoot(f),
              [DataOf(GetRoot(f)) EXCEPT ![fsOp.title] =
                 IF fsOp.then.name = "create" THEN Created ELSE NoEntry])
    BY <1>4, <1>5, <1>9, <1>10, <2>2
  <2>4. BecomesCache(IF fsOp.then.name = "create" THEN d ELSE GetFAT(d))
    BY <2>1, <2>3 DEF DeleteEnds
  <2>5. PICK after : after = ForReading(d, FATSector)
    OBVIOUS
  <2>6. /\ CacheOK(after) /\ \A r \in Sector : Seen(after, r) = Seen(d, r)
        /\ \A r \in Sector : after.disk[r] = d.disk[r] \/ after.disk[r] = Seen(d, r)
    <3>1. CacheOK(d) /\ FATSector \in Sector
      BY <1>11, Numbers
    <3> QED
      BY <2>5, <3>1, Got
  <2>7. CASE fsOp.then.name = "create"
    BY <1>11, <2>4, <2>7
  <2>8. CASE fsOp.then.name # "create"
    BY <2>2, <2>4, <2>5, <2>6, <2>8
  <2> QED
    BY <2>7, <2>8
<1>13. \A r \in Sector : g.disk[r] = disk[r] \/ g.disk[r] = View(r) \/ g.disk[r] = Seen(g, r)
  BY <1>7, <1>8, <1>11, <1>12, Numbers
<1>14. /\ WrittenBack /\ Table' = Seen(d, FATSector) /\ Root' = Seen(d, RootSector)
       /\ Data' = [n \in Cluster |-> Seen(d, n)]
  <2>1. Seen(g, FSInfoSector) = View(FSInfoSector)
    BY <1>7, <1>8, <1>11, <1>12, Numbers
  <2>2. /\ WrittenBack /\ Table' = Seen(g, FATSector) /\ Root' = Seen(g, RootSector)
        /\ Data' = [n \in Cluster |-> Seen(g, n)]
    BY <1>12, <1>13, <2>1, Becomes DEF FatTypes
  <2> QED
    BY <1>12, <2>2, Numbers
<1>15. Data' = Data
  BY <1>7, <1>8, <1>11, <1>14, Numbers
<1> QED
  BY <1>2, <1>4, <1>5, <1>7, <1>11, <1>14, <1>15, Numbers

-----------------------------------------------------------------------------
(* The invariant.  FatOK does not say where a file ends or what is in it, so  *)
(* it is not inductive: the last cluster of a file that is written has to     *)
(* end its chain, and the clusters of a file have to hold it in their order.  *)

\* A cluster that belongs to the file already, but is not filled yet
Length(h) == m_Files[h].nSize + IF fsOp.name = "fill" /\ fsOp.h = h THEN 1 ELSE 0

\* The clusters of a file that is written, in their order
WritePath(h, path) ==
  LET file == m_Files[h]
  IN  /\ path \in [1 .. Length(h) -> Cluster]
      /\ Length(h) = 0 => file.nFirstCluster = 0
      /\ Length(h) # 0 => /\ path[1] = file.nFirstCluster
                          /\ path[Length(h)] = file.nCluster /\ Table[file.nCluster] = EOC
      /\ \A i \in 1 .. Length(h) - 1 : Table[path[i]] = path[i + 1]
      /\ \A i \in 1 .. file.nSize : Data[path[i]] = <<file.title, file.version, i>>

\* The clusters of a file that was closed, which are the same on the disk
SavedPath(t, path) ==
  LET size == saved[t].size
  IN  /\ path \in [1 .. size -> Cluster]
      /\ Root[t].first = path[1] /\ Root[t].size = size
      /\ disk[RootSector][t].first = path[1] /\ disk[RootSector][t].size = size
      /\ \A i \in 1 .. size - 1 :
           Table[path[i]] = path[i + 1] /\ disk[FATSector][path[i]] = path[i + 1]
      /\ \A i \in 1 .. size : /\ Data[path[i]] = <<t, saved[t].version, i>>
                              /\ disk[path[i]] = <<t, saved[t].version, i>>

PathsOK ==
  /\ \A h \in Handle : m_Files[h].bWrite => \E path : WritePath(h, path)
  /\ \A t \in Title : saved[t].size # 0 => \E path : SavedPath(t, path)

\* A title is written by one client at most, and what was saved of it is gone
\* from the time on that it is opened or deleted.
FilesOK ==
  /\ \A g, h \in Handle :
       m_Files[g].bWrite /\ m_Files[h].bWrite /\ m_Files[g].title = m_Files[h].title => g = h
  /\ \A h \in Handle : m_Files[h].bWrite => saved[m_Files[h].title].size = 0

\* What is so while a call goes on
CallOK ==
  /\ fsOp.name \in {"allocate", "fill"} => m_Files[fsOp.h].bWrite
  /\ fsOp.name = "delete" =>
       /\ \A h \in Handle : m_Files[h].bWrite => m_Files[h].title # fsOp.title
       /\ saved[fsOp.title].size = 0
       /\ fsOp.then.name = "create" => ~m_Files[fsOp.then.h].bWrite
  /\ fsOp.name \in {"fsinfo", "flush"} /\ fsOp.h # 0 =>
       LET file == m_Files[fsOp.h]
       IN  /\ file.bWrite
           /\ Root[file.title].first = file.nFirstCluster /\ Root[file.title].size = file.nSize

FatInv == FatTypes /\ FilesOK /\ CallOK /\ PathsOK /\ FatOK

\* The clusters of a path are reached by the links.
LEMMA PathInFrom ==
  ASSUME NEW fat, NEW first, NEW k \in Nat, NEW path \in [1 .. k -> Cluster],
         k # 0 => path[1] = first, \A i \in 1 .. k - 1 : fat[path[i]] = path[i + 1]
  PROVE  \A i \in 1 .. k : path[i] \in From(Cluster, fat, first)
<1> DEFINE Bad == {i \in 1 .. k : path[i] \notin From(Cluster, fat, first)}
<1>1. ASSUME Bad # {}
      PROVE  FALSE
  <2>1. Bad \subseteq Nat
    OBVIOUS
  <2>2. PICK i \in Bad : \A j \in Bad : i <= j
    <3> HIDE DEF Bad
    <3> QED
      BY <1>1, <2>1, FirstFound
  <2>3. /\ first \in Cluster => first \in From(Cluster, fat, first)
        /\ Closed(Cluster, fat, From(Cluster, fat, first))
    BY FromIsClosed
  <2>4. i # 1
    <3>1. path[1] = first /\ path[1] \in Cluster
      BY <2>2
    <3> QED
      BY <2>2, <2>3, <3>1
  <2>5. i - 1 \in 1 .. k - 1 /\ i - 1 \in 1 .. k /\ i - 1 \notin Bad
    <3>1. i \in 1 .. k
      BY <2>2
    <3>2. i - 1 \in 1 .. k - 1 /\ i - 1 \in 1 .. k /\ ~(i <= i - 1)
      BY <2>4, <3>1
    <3> HIDE DEF Bad
    <3> QED
      BY <2>2, <3>2
  <2>6. path[i - 1] \in From(Cluster, fat, first) /\ fat[path[i - 1]] = path[(i - 1) + 1]
    BY <2>5
  <2>7. (i - 1) + 1 = i /\ i \in 1 .. k
    BY <2>2
  <2>8. path[i] \in From(Cluster, fat, first)
    BY <2>3, <2>6, <2>7 DEF Closed
  <2> QED
    BY <2>2, <2>8
<1> QED
  BY <1>1

\* Who writes a title has its first cluster.
LEMMA OnlyWriter ==
  ASSUME FatTypes, FilesOK, NEW h \in Handle, m_Files[h].bWrite
  PROVE  /\ m_Files[h] \in OpenFile /\ m_Files[h].title \in Title
         /\ Writing(m_Files[h].title) = {h}
         /\ FirstOf(m_Files[h].title) = m_Files[h].nFirstCluster
<1>1. m_Files[h] \in OpenFile
  BY FileIs
<1>2. PICK t \in Title : t = m_Files[h].title
  BY <1>1 DEF OpenFile
<1>3. m_Files[h].bWrite /\ m_Files[h].open
  BY <1>1 DEF OpenFile
<1>4. Writing(t) = {h}
  BY <1>2, <1>3 DEF Writing, FilesOK
<1>5. FirstOf(t) = m_Files[h].nFirstCluster
  BY <1>4 DEF FirstOf
<1> QED
  BY <1>1, <1>2, <1>4, <1>5

LEMMA NoWriter ==
  ASSUME NEW t \in Title, \A h \in Handle : m_Files[h].bWrite => m_Files[h].title # t
  PROVE  Writing(t) = {} /\ FirstOf(t) = Root[t].first
BY DEF Writing, FirstOf, Root

\* The clusters on a path are the title's own.
LEMMA OwnPath ==
  ASSUME FatTypes, FilesOK, NEW h \in Handle, m_Files[h].bWrite, NEW path, WritePath(h, path)
  PROVE  \A i \in 1 .. Length(h) : path[i] \in ClustersOf(m_Files[h].title)
<1>1. PICK k \in Nat : k = Length(h)
  <2>1. m_Files[h].nSize \in Nat
    BY FileIs DEF OpenFile
  <2> QED
    BY <2>1 DEF Length
<1>2. PICK first, fat : first = m_Files[h].nFirstCluster /\ fat = Table
  OBVIOUS
<1>3. \A i \in 1 .. k : path[i] \in From(Cluster, fat, first)
  <2>1. path \in [1 .. k -> Cluster]
    BY <1>1 DEF WritePath
  <2>2. k # 0 => path[1] = first
    BY <1>1, <1>2 DEF WritePath
  <2>3. \A i \in 1 .. k - 1 : fat[path[i]] = path[i + 1]
    BY <1>1, <1>2 DEF WritePath
  <2> QED
    BY <2>1, <2>2, <2>3, PathInFrom
<1> QED
  BY <1>1, <1>2, <1>3, OnlyWriter DEF ClustersOf, ChainFrom, Table

LEMMA OwnSavedPath ==
  ASSUME FatTypes, FilesOK, NEW t \in Title, saved[t].size # 0, NEW path, SavedPath(t, path)
  PROVE  \A i \in 1 .. saved[t].size : path[i] \in ClustersOf(t)
<1>1. PICK k \in Nat : k = saved[t].size
  BY DEF FatTypes
<1>2. /\ path \in [1 .. k -> Cluster] /\ path[1] = Root[t].first
      /\ \A i \in 1 .. k - 1 : Table[path[i]] = path[i + 1]
  BY <1>1 DEF SavedPath
<1>3. \A i \in 1 .. k : path[i] \in From(Cluster, Table, Root[t].first)
  BY <1>2, PathInFrom
<1>4. FirstOf(t) = Root[t].first
  <2>1. \A h \in Handle : m_Files[h].bWrite => m_Files[h].title # t
    BY DEF FilesOK
  <2> QED
    BY <2>1, NoWriter
<1> QED
  BY <1>1, <1>3, <1>4 DEF ClustersOf, ChainFrom, Table

-----------------------------------------------------------------------------
(* A step that leaves the entry, the clusters and the writer of a title       *)
(* alone keeps what the invariant says of it, whatever gets to the disk.     *)

Untouched(t) ==
  /\ Root'[t] = Root[t]
  /\ \A n \in ClustersOf(t) : Table'[n] = Table[n] /\ Data'[n] = Data[n]
  /\ \A h \in Handle :
       \/ m_Files[h].bWrite /\ m_Files[h].title = t
       \/ m_Files'[h].bWrite /\ m_Files'[h].title = t
       => m_Files'[h] = m_Files[h] /\ Length(h)' = Length(h)

LEMMA KeptClusters ==
  ASSUME NEW t \in Title, Untouched(t)
  PROVE  FirstOf(t)' = FirstOf(t) /\ ClustersOf(t)' = ClustersOf(t)
<1>1. Writing(t)' = Writing(t)
  BY DEF Writing, Untouched
<1>2. ASSUME NEW h \in Writing(t)
      PROVE  m_Files'[h] = m_Files[h]
  BY <1>2 DEF Writing, Untouched
<1>3. FirstOf(t)' = FirstOf(t)
  <2>1. CASE Writing(t) = {}
    BY <1>1, <2>1 DEF FirstOf, Root, Untouched
  <2>2. CASE Writing(t) # {}
    <3>1. PICK h \in Writing(t) : h = CHOOSE g \in Writing(t) : TRUE
      BY <2>2
    <3>2. FirstOf(t) = m_Files[h].nFirstCluster
      BY <2>2, <3>1 DEF FirstOf
    <3>3. FirstOf(t)' = m_Files'[h].nFirstCluster
      BY <1>1, <2>2, <3>1 DEF FirstOf
    <3> QED
      BY <1>2, <3>2, <3>3
  <2> QED
    BY <2>1, <2>2
<1>4. PICK first, fat, new : first = FirstOf(t) /\ fat = Table /\ new = Table'
  OBVIOUS
<1>5. ClustersOf(t) = From(Cluster, fat, first) /\ ClustersOf(t)' = From(Cluster, new, first)
  BY <1>3, <1>4 DEF ClustersOf, ChainFrom, Table
<1>6. \A n \in From(Cluster, fat, first) : new[n] = fat[n]
  BY <1>4, <1>5 DEF Untouched
<1>7. From(Cluster, new, first) = From(Cluster, fat, first)
  BY <1>6, FromSame
<1> QED
  BY <1>3, <1>5, <1>7

LEMMA KeptWritten ==
  ASSUME FatTypes, FilesOK, PathsOK, NEW h \in Handle, m_Files[h].bWrite,
         NEW t \in Title, m_Files[h].title = t, Untouched(t)
  PROVE  \E path : WritePath(h, path)'
<1>1. PICK path : WritePath(h, path)
  BY DEF PathsOK
<1>2. m_Files'[h] = m_Files[h] /\ Length(h)' = Length(h)
  BY DEF Untouched
<1>3. PICK k \in Nat, file \in OpenFile : k = Length(h) /\ file = m_Files[h]
  <2>1. m_Files[h] \in OpenFile
    BY FileIs
  <2>2. m_Files[h].nSize \in Nat
    BY <2>1 DEF OpenFile
  <2> QED
    BY <2>1, <2>2 DEF Length
<1>4. file.nSize \in Nat /\ file.nSize <= k
  <2>1. k = file.nSize + IF fsOp.name = "fill" /\ fsOp.h = h THEN 1 ELSE 0
    BY <1>3 DEF Length
  <2>2. file.nSize \in Nat
    BY <1>3 DEF OpenFile
  <2>3. CASE fsOp.name = "fill" /\ fsOp.h = h
    BY <2>1, <2>2, <2>3
  <2>4. CASE ~(fsOp.name = "fill" /\ fsOp.h = h)
    BY <2>1, <2>2, <2>4
  <2> QED
    BY <2>3, <2>4
<1>5. \A i \in 1 .. k : /\ path[i] \in ClustersOf(t)
                        /\ Table'[path[i]] = Table[path[i]] /\ Data'[path[i]] = Data[path[i]]
  BY <1>1, <1>3, OwnPath DEF Untouched
<1>6. /\ path \in [1 .. k -> Cluster]
      /\ k = 0 => file.nFirstCluster = 0
      /\ k # 0 => path[1] = file.nFirstCluster /\ path[k] = file.nCluster /\ Table[file.nCluster] = EOC
      /\ \A i \in 1 .. k - 1 : Table[path[i]] = path[i + 1]
      /\ \A i \in 1 .. file.nSize : Data[path[i]] = <<file.title, file.version, i>>
  BY <1>1, <1>3 DEF WritePath
<1>7. k # 0 => Table'[file.nCluster] = EOC
  BY <1>5, <1>6
<1>8. \A i \in 1 .. k - 1 : Table'[path[i]] = path[i + 1]
  BY <1>5, <1>6
<1>9. ASSUME NEW i \in 1 .. file.nSize
      PROVE  Data'[path[i]] = <<file.title, file.version, i>>
  <2>1. i \in 1 .. k
    BY <1>4
  <2> QED
    BY <1>5, <1>6, <2>1
<1>10. k = Length(h)' /\ file = m_Files'[h]
  BY <1>2, <1>3
<1>11. WritePath(h, path)'
  BY <1>6, <1>7, <1>8, <1>9, <1>10 DEF WritePath
<1> QED
  BY <1>11

LEMMA KeptSaved ==
  ASSUME FatTypes, FilesOK, PathsOK, WrittenBack, NEW t \in Title, saved[t].size # 0,
         Untouched(t), saved'[t] = saved[t]
  PROVE  \E path : SavedPath(t, path)'
<1>1. PICK path : SavedPath(t, path)
  BY DEF PathsOK
<1>2. PICK k, v : k \in Nat /\ k = saved[t].size /\ v = saved[t].version
  BY DEF FatTypes
<1>3. /\ path \in [1 .. k -> Cluster]
      /\ Root[t].first = path[1] /\ Root[t].size = k
      /\ disk[RootSector][t].first = path[1] /\ disk[RootSector][t].size = k
      /\ \A i \in 1 .. k - 1 : Table[path[i]] = path[i + 1] /\ disk[FATSector][path[i]] = path[i + 1]
      /\ \A i \in 1 .. k : Data[path[i]] = <<t, v, i>> /\ disk[path[i]] = <<t, v, i>>
  BY <1>1, <1>2 DEF SavedPath
<1>4. \A i \in 1 .. k : /\ path[i] \in ClustersOf(t)
                        /\ Table'[path[i]] = Table[path[i]] /\ Data'[path[i]] = Data[path[i]]
  BY <1>1, <1>2, OwnSavedPath DEF Untouched
<1>5. Root'[t].first = path[1] /\ Root'[t].size = k
  BY <1>3 DEF Untouched
<1>6. \A i \in 1 .. k - 1 : Table'[path[i]] = path[i + 1]
  <2>1. \A i \in 1 .. k - 1 : i \in 1 .. k
    BY <1>2
  <2> QED
    BY <1>3, <1>4, <2>1
<1>7. \A i \in 1 .. k : Data'[path[i]] = <<t, v, i>>
  BY <1>3, <1>4
<1>8. /\ disk'[RootSector] = disk[RootSector] \/ disk'[RootSector] = Root \/ disk'[RootSector] = Root'
      /\ disk'[FATSector] = disk[FATSector] \/ disk'[FATSector] = Table \/ disk'[FATSector] = Table'
  BY Numbers DEF WrittenBack, Root, Table
<1>9. \A n \in Cluster : disk'[n] = disk[n] \/ disk'[n] = Data[n] \/ disk'[n] = Data'[n]
  BY Numbers DEF WrittenBack, Data
<1>10. disk'[RootSector][t].first = path[1] /\ disk'[RootSector][t].size = k
  BY <1>3, <1>5, <1>8
<1>11. \A i \in 1 .. k - 1 : disk'[FATSector][path[i]] = path[i + 1]
  BY <1>3, <1>6, <1>8
<1>12. \A i \in 1 .. k : disk'[path[i]] = <<t, v, i>>
  BY <1>3, <1>7, <1>9
<1>13. k = saved'[t].size /\ v = saved'[t].version
  BY <1>2
<1>14. SavedPath(t, path)'
  BY <1>3, <1>5, <1>6, <1>7, <1>10, <1>11, <1>12, <1>13, SMTT(30) DEF SavedPath
<1> QED
  BY <1>14

\* All titles but those of touched are left alone.
LEMMA PathsKept ==
  ASSUME FatTypes, FilesOK, PathsOK, WrittenBack, NEW touched,
         \A t \in Title \ touched :
           Untouched(t) /\ (saved'[t] = saved[t] \/ saved'[t].size = 0),
         \A h \in Handle : m_Files'[h].bWrite => m_Files'[h].title \in Title,
         \A h \in Handle : m_Files'[h].bWrite /\ m_Files'[h].title \in touched =>
           \E path : WritePath(h, path)',
         \A t \in Title \cap touched : saved'[t].size # 0 => \E path : SavedPath(t, path)'
  PROVE  PathsOK'
<1>1. ASSUME NEW h \in Handle, m_Files'[h].bWrite
      PROVE  \E path : WritePath(h, path)'
  <2>1. CASE m_Files'[h].title \in touched
    BY <1>1, <2>1
  <2>2. CASE m_Files'[h].title \notin touched
    <3>1. PICK t \in Title \ touched : t = m_Files'[h].title
      BY <1>1, <2>2
    <3>2. Untouched(t)
      BY <3>1
    <3>3. m_Files'[h] = m_Files[h]
      BY <1>1, <3>1, <3>2 DEF Untouched
    <3>4. m_Files[h].bWrite /\ m_Files[h].title = t
      BY <1>1, <3>1, <3>3
    <3> QED
      BY <3>2, <3>4, KeptWritten
  <2> QED
    BY <2>1, <2>2
<1>2. ASSUME NEW t \in Title, saved'[t].size # 0
      PROVE  \E path : SavedPath(t, path)'
  <2>1. CASE t \in touched
    BY <1>2, <2>1
  <2>2. CASE t \notin touched
    <3>1. Untouched(t) /\ saved'[t] = saved[t] /\ saved[t].size # 0
      BY <1>2, <2>2
    <3> QED
      BY <3>1, KeptSaved
  <2> QED
    BY <2>1, <2>2
<1> QED
  BY <1>1, <1>2 DEF PathsOK

\* The files have the clusters they had.
LEMMA ClustersKept ==
  ASSUME FatOK, \A t \in Title : ClustersOf(t)' = ClustersOf(t),
         \A n \in Cluster : Table'[n] = 0 <=> Table[n] = 0,
         UNCHANGED <<m_nNextFreeCluster, mountedHint>>
  PROVE  FatOK'
<1>1. \A t, u \in Title : t # u => ClustersOf(t)' \cap ClustersOf(u)' = {}
  BY DEF FatOK
<1>2. {n \in Cluster : Table'[n] # 0} = UNION {ClustersOf(t)' : t \in Title}
  <2>1. {n \in Cluster : Table'[n] # 0} = {n \in Cluster : Table[n] # 0}
    OBVIOUS
  <2>2. UNION {ClustersOf(t)' : t \in Title} = UNION {ClustersOf(t) : t \in Title}
    OBVIOUS
  <2>3. {n \in Cluster : Table[n] # 0} = UNION {ClustersOf(t) : t \in Title}
    BY DEF FatOK, Table
  <2> QED
    BY <2>1, <2>2, <2>3
<1>3. \A n \in Cluster : n < m_nNextFreeCluster' /\ Table'[n] = 0 => n < mountedHint'
  BY DEF FatOK, Table
<1> QED
  BY <1>1, <1>2, <1>3 DEF FatOK, Table

\* Nothing is shown otherwise than before.
LEMMA ShownAsBefore ==
  ASSUME FatTypes, FilesOK, PathsOK, FatOK, WrittenBack,
         Table' = Table, Root' = Root, Data' = Data,
         UNCHANGED <<m_Files, m_nNextFreeCluster, mountedHint>>,
         \A t \in Title : saved'[t] = saved[t] \/ saved'[t].size = 0,
         \A h \in Handle : Length(h)' = Length(h)
  PROVE  PathsOK' /\ FatOK'
<1>1. \A t \in Title : Untouched(t)
  BY DEF Untouched
<1>2. \A t \in Title : ClustersOf(t)' = ClustersOf(t)
  BY <1>1, KeptClusters
<1>3. FatOK'
  BY <1>2, ClustersKept
<1>4. \A h \in Handle : m_Files'[h].bWrite => m_Files'[h].title \in Title
  BY OnlyWriter
<1>5. PathsOK'
  <2>1. PICK touched : touched = {}
    OBVIOUS
  <2>2. \A t \in Title \ touched :
          Untouched(t) /\ (saved'[t] = saved[t] \/ saved'[t].size = 0)
    BY <1>1
  <2>3. \A h \in Handle : m_Files'[h].bWrite /\ m_Files'[h].title \in touched =>
          \E path : WritePath(h, path)'
    BY <2>1
  <2>4. \A t \in Title \cap touched : saved'[t].size # 0 => \E path : SavedPath(t, path)'
    BY <2>1
  <2> QED
    BY <1>4, <2>2, <2>3, <2>4, PathsKept
<1> QED
  BY <1>3, <1>5

-----------------------------------------------------------------------------
(* Steps that show nothing otherwise than before                            *)

LEMMA FileWriteKeeps ==
  ASSUME FatInv, NEW hFile \in Handle, NEW sectors \in Int, FileWrite(hFile, sectors)
  PROVE  FatInv'
<1> USE DEF FatInv
<1>1. /\ fsOp = NoCall /\ fsOp.name = "none"
      /\ fsOp' = [name |-> "allocate", h |-> hFile, left |-> sectors]
      /\ m_Files[hFile].bWrite /\ UNCHANGED <<m_nNextFreeCluster, m_Files, saved, mountedHint>>
  BY CallIs DEF FileWrite
<1>2. WrittenBack /\ Table' = Table /\ Root' = Root /\ Data' = Data
  BY CacheNotUsed DEF FileWrite
<1>3. fsOp' \in WriteCall /\ fsOp'.name = "allocate" /\ fsOp'.h = hFile
  BY <1>1 DEF WriteCall
<1>4. FatTypes'
  BY <1>1, <1>2, <1>3, HintStays DEF FatTypes
<1>5. \A h \in Handle : Length(h)' = Length(h)
  BY <1>1, <1>3 DEF Length
<1>6. PathsOK' /\ FatOK'
  BY <1>1, <1>2, <1>5, ShownAsBefore
<1>7. FilesOK'
  BY <1>1 DEF FilesOK
<1>8. CallOK'
  BY <1>1, <1>3 DEF CallOK
<1> QED
  BY <1>4, <1>6, <1>7, <1>8

\* The entry is found; nobody has the file open.
LEMMA DeleteBeginsKeeps ==
  ASSUME FatInv, NEW t \in Title, ~IsOpen(t),
         NEW then \in {[name |-> "none"]} \cup [name : {"create"}, h : Handle, v : AnyVersion],
         then.name = "create" => ~m_Files[then.h].bWrite, DeleteBegins(t, then)
  PROVE  FatInv'
<1> USE DEF FatInv
<1>1. /\ fsOp = NoCall /\ fsOp.name = "none" /\ BecomesCache(GetRoot(Cache))
      /\ fsOp' = [name |-> "delete", title |-> t, then |-> then]
      /\ saved' = [saved EXCEPT ![t] = NotSaved]
      /\ UNCHANGED <<m_nNextFreeCluster, m_Files, mountedHint>>
  BY CallIs DEF DeleteBegins
<1>2. WrittenBack /\ Table' = Table /\ Root' = Root /\ Data' = Data
  BY <1>1, NothingWritten
<1>3. fsOp' \in DeleteCall /\ fsOp'.name = "delete" /\ fsOp'.title = t /\ fsOp'.then = then
  BY <1>1 DEF DeleteCall
<1>4. NotSaved \in [size : Nat, version : AnyVersion \cup {"none"}] /\ NotSaved.size = 0
  BY DEF NotSaved
<1>5. /\ saved' \in [Title -> [size : Nat, version : AnyVersion \cup {"none"}]]
      /\ \A u \in Title : saved'[u] = IF u = t THEN NotSaved ELSE saved[u]
  BY <1>1, <1>4 DEF FatTypes
<1>6. FatTypes'
  BY <1>1, <1>2, <1>3, <1>5, HintStays DEF FatTypes
<1>7. \A h \in Handle : Length(h)' = Length(h)
  BY <1>1, <1>3 DEF Length
<1>8. PathsOK' /\ FatOK'
  BY <1>1, <1>2, <1>4, <1>5, <1>7, ShownAsBefore
<1>9. FilesOK'
  <2>1. ASSUME NEW h \in Handle, m_Files'[h].bWrite
        PROVE  saved'[m_Files'[h].title].size = 0
    BY <1>1, <1>4, <1>5, <2>1, OnlyWriter DEF FilesOK
  <2> QED
    BY <1>1, <2>1 DEF FilesOK
<1>10. CallOK'
  <2>1. \A h \in Handle : m_Files'[h].bWrite => m_Files'[h].title # t
    BY <1>1, FileIs DEF IsOpen
  <2>2. saved'[t].size = 0 /\ then.name = "create" => ~m_Files'[then.h].bWrite
    BY <1>1, <1>4, <1>5
  <2>3. saved'[t].size = 0
    BY <1>4, <1>5
  <2> QED
    BY <1>1, <1>3, <2>1, <2>2, <2>3 DEF CallOK
<1> QED
  BY <1>6, <1>8, <1>9, <1>10

LEMMA WriteFailsKeeps ==
  ASSUME FatInv, WriteFails
  PROVE  FatInv'
<1> USE DEF FatInv
<1>1. /\ fsOp.name = "allocate" /\ BecomesCache(GetFAT(Cache)) /\ fsOp' = NoCall
      /\ UNCHANGED <<m_nNextFreeCluster, m_Files, saved, mountedHint>>
  BY DEF WriteFails
<1>2. WrittenBack /\ Table' = Table /\ Root' = Root /\ Data' = Data
  BY <1>1, NothingWritten
<1>3. fsOp'.name = "none"
  BY <1>1 DEF NoCall
<1>4. FatTypes'
  BY <1>1, <1>2, HintStays DEF FatTypes
<1>5. \A h \in Handle : Length(h)' = Length(h)
  BY <1>1, <1>3 DEF Length
<1>6. PathsOK' /\ FatOK'
  BY <1>1, <1>2, <1>5, ShownAsBefore
<1>7. FilesOK' /\ CallOK'
  BY <1>1, <1>3 DEF FilesOK, CallOK
<1> QED
  BY <1>4, <1>6, <1>7

LEMMA UpdateFSInfoKeeps ==
  ASSUME FatInv, UpdateFSInfo
  PROVE  FatInv'
<1> USE DEF FatInv
<1>1. /\ fsOp.name = "fsinfo" /\ fsOp' = [fsOp EXCEPT !.name = "flush"]
      /\ UNCHANGED <<m_nNextFreeCluster, m_Files, saved, mountedHint>>
  BY DEF UpdateFSInfo
<1>2. WrittenBack /\ Table' = Table /\ Root' = Root /\ Data' = Data
  BY HintWritten
<1>3. fsOp' \in CloseCall /\ fsOp'.name = "flush" /\ fsOp'.h = fsOp.h
  <2>1. fsOp \in CloseCall
    BY <1>1, CallIs
  <2> QED
    BY <1>1, <2>1 DEF CloseCall
<1>4. FatTypes'
  BY <1>1, <1>2, <1>3, HintStays DEF FatTypes
<1>5. \A h \in Handle : Length(h)' = Length(h)
  BY <1>1, <1>3 DEF Length
<1>6. PathsOK' /\ FatOK'
  BY <1>1, <1>2, <1>5, ShownAsBefore
<1>7. FilesOK' /\ CallOK'
  BY <1>1, <1>2, <1>3 DEF FilesOK, CallOK
<1> QED
  BY <1>4, <1>6, <1>7

LEMMA FlushKeeps ==
  ASSUME FatInv, FlushStep
  PROVE  FatInv'
<1> USE DEF FatInv
<1>1. UNCHANGED <<m_nNextFreeCluster, m_Files, fsOp, saved, mountedHint>>
  BY DEF FlushStep
<1>2. WrittenBack /\ Table' = Table /\ Root' = Root /\ Data' = Data
  BY Flushed
<1>3. FatTypes'
  BY <1>1, <1>2, HintStays DEF FatTypes
<1>4. \A h \in Handle : Length(h)' = Length(h)
  BY <1>1 DEF Length
<1>5. PathsOK' /\ FatOK'
  BY <1>1, <1>2, <1>4, ShownAsBefore
<1>6. FilesOK' /\ CallOK'
  BY <1>1, <1>2 DEF FilesOK, CallOK
<1> QED
  BY <1>3, <1>5, <1>6

-----------------------------------------------------------------------------
(* Steps of FileCreate() and FileDelete()                                   *)

\* A file that was just created has no cluster.
LEMMA NewlyOpened ==
  ASSUME FatTypes, NEW hFile \in Handle, NEW t \in Title, NEW v \in AnyVersion,
         \A g \in Handle : m_Files[g].bWrite => m_Files[g].title # t,
         m_Files' = Opened(hFile, t, v), fsOp' = NoCall
  PROVE  /\ m_Files' \in [Handle -> OpenFile \cup ReadFile \cup {NotOpen}]
         /\ m_Files'[hFile].bWrite /\ m_Files'[hFile].title = t
         /\ \A g \in Handle \ {hFile} : m_Files'[g] = m_Files[g]
         /\ ClustersOf(t)' = {} /\ \E path : WritePath(hFile, path)'
<1>1. PICK file : file = [open |-> TRUE, bWrite |-> TRUE, title |-> t, nSize |-> 0,
                          nCluster |-> 0, nFirstCluster |-> 0, version |-> v]
  OBVIOUS
<1>2. file \in OpenFile /\ file.open /\ file.bWrite /\ file.title = t /\ file.nSize = 0
      /\ file.nFirstCluster = 0
  BY <1>1 DEF OpenFile
<1>3. m_Files' = [m_Files EXCEPT ![hFile] = file]
  BY <1>1 DEF Opened
<1>4. /\ m_Files' \in [Handle -> OpenFile \cup ReadFile \cup {NotOpen}]
      /\ m_Files'[hFile] = file /\ \A g \in Handle \ {hFile} : m_Files'[g] = m_Files[g]
  BY <1>2, <1>3 DEF FatTypes
<1>5. Writing(t)' = {hFile}
  BY <1>2, <1>4 DEF Writing
<1>6. FirstOf(t)' = 0
  BY <1>2, <1>4, <1>5 DEF FirstOf
<1>7. ClustersOf(t)' = {}
  <2>1. PICK fat : fat = Table'
    OBVIOUS
  <2>2. ClustersOf(t)' = From(Cluster, fat, 0)
    BY <1>6, <2>1 DEF ClustersOf, ChainFrom, Table
  <2>3. 0 \notin Cluster
    BY Numbers
  <2> QED
    BY <2>2, <2>3, FromNull
<1>8. Length(hFile)' = 0
  BY <1>2, <1>4 DEF Length, NoCall
<1>9. PICK path : path = [i \in 1 .. 0 |-> 0]
  OBVIOUS
<1>10. path \in [1 .. 0 -> Cluster]
  BY <1>9
<1>11. WritePath(hFile, path)'
  BY <1>2, <1>4, <1>8, <1>10 DEF WritePath
<1> QED
  BY <1>2, <1>4, <1>7, <1>11

\* FileCreate() of a file that has no cluster, and that nobody has open
LEMMA CreateKeeps ==
  ASSUME FatInv, NEW hFile \in Handle, NEW t \in Title, NEW v \in AnyVersion,
         ~IsOpen(t), ~m_Files[hFile].bWrite, fsOp = NoCall, fsOp' = fsOp, Root[t].first = 0,
         BecomesCache(MarkDirty(GetRoot(Cache), [DataOf(GetRoot(Cache)) EXCEPT ![t] = Created])),
         m_Files' = Opened(hFile, t, v), saved' = [saved EXCEPT ![t] = NotSaved],
         UNCHANGED <<m_nNextFreeCluster, mountedHint>>
  PROVE  FatInv'
<1> USE DEF FatInv
<1>1. \A g \in Handle : m_Files[g].bWrite => m_Files[g].title # t
  BY FileIs DEF IsOpen
<1>2. /\ m_Files' \in [Handle -> OpenFile \cup ReadFile \cup {NotOpen}]
      /\ m_Files'[hFile].bWrite /\ m_Files'[hFile].title = t
      /\ \A g \in Handle \ {hFile} : m_Files'[g] = m_Files[g]
      /\ ClustersOf(t)' = {} /\ \E path : WritePath(hFile, path)'
  BY <1>1, NewlyOpened
<1>3. Created \in Entry
  BY DEF Created, Entry
<1>4. WrittenBack /\ Table' = Table /\ Root' = [Root EXCEPT ![t] = Created] /\ Data' = Data
  BY <1>3, EntryWritten
<1>5. Root' \in Roots /\ \A u \in Title \ {t} : Root'[u] = Root[u]
  BY <1>3, <1>4 DEF FatTypes, Roots
<1>6. NotSaved \in [size : Nat, version : AnyVersion \cup {"none"}] /\ NotSaved.size = 0
  BY DEF NotSaved
<1>7. /\ saved' \in [Title -> [size : Nat, version : AnyVersion \cup {"none"}]]
      /\ \A u \in Title : saved'[u] = IF u = t THEN NotSaved ELSE saved[u]
  BY <1>6 DEF FatTypes
<1>8. FatTypes'
  BY <1>2, <1>4, <1>5, <1>7, HintStays DEF FatTypes
<1>9. FilesOK'
  <2>1. ASSUME NEW g \in Handle, NEW h \in Handle, m_Files'[g].bWrite, m_Files'[h].bWrite,
               m_Files'[g].title = m_Files'[h].title
        PROVE  g = h
    BY <1>1, <1>2, <2>1 DEF FilesOK
  <2>2. ASSUME NEW h \in Handle, m_Files'[h].bWrite
        PROVE  saved'[m_Files'[h].title].size = 0
    <3>1. CASE h = hFile
      BY <1>2, <1>6, <1>7, <3>1
    <3>2. CASE h # hFile
      BY <1>2, <1>6, <1>7, <2>2, <3>2, OnlyWriter DEF FilesOK
    <3> QED
      BY <3>1, <3>2
  <2> QED
    BY <2>1, <2>2 DEF FilesOK
<1>10. CallOK'
  BY DEF CallOK, NoCall
<1>11. ASSUME NEW u \in Title \ {t}
       PROVE  Untouched(u)
  <2>1. \A h \in Handle : h # hFile => Length(h)' = Length(h)
    BY <1>2 DEF Length, NoCall
  <2> QED
    BY <1>2, <1>4, <1>5, <2>1 DEF Untouched
<1>12. PathsOK'
  <2>1. PICK touched : touched = {t}
    OBVIOUS
  <2>2. \A u \in Title \ touched :
          Untouched(u) /\ (saved'[u] = saved[u] \/ saved'[u].size = 0)
    BY <1>7, <1>11, <2>1
  <2>3. \A h \in Handle : m_Files'[h].bWrite => m_Files'[h].title \in Title
    BY <1>2, OnlyWriter
  <2>4. ASSUME NEW h \in Handle, m_Files'[h].bWrite /\ m_Files'[h].title \in touched
        PROVE  \E path : WritePath(h, path)'
    <3>1. h = hFile
      BY <1>1, <1>2, <2>1, <2>4
    <3> QED
      BY <1>2, <3>1
  <2>5. \A u \in Title \cap touched : saved'[u].size # 0 => \E path : SavedPath(u, path)'
    BY <1>6, <1>7, <2>1
  <2> QED
    BY <1>4, <2>2, <2>3, <2>4, <2>5, PathsKept
<1>13. FatOK'
  <2>1. ClustersOf(t) = {}
    <3>1. FirstOf(t) = 0
      BY <1>1, NoWriter
    <3>2. PICK fat : fat = Table
      OBVIOUS
    <3>3. ClustersOf(t) = From(Cluster, fat, 0) /\ 0 \notin Cluster
      BY <3>1, <3>2, Numbers DEF ClustersOf, ChainFrom, Table
    <3> QED
      BY <3>3, FromNull
  <2>2. \A u \in Title : ClustersOf(u)' = ClustersOf(u)
    BY <1>2, <1>11, <2>1, KeptClusters
  <2> QED
    BY <1>4, <2>2, ClustersKept
<1> QED
  BY <1>8, <1>9, <1>10, <1>12, <1>13

\* FileDelete() of a file that is not there, or has no cluster
LEMMA DeletesAtOnceKeeps ==
  ASSUME FatInv, NEW t \in Title, ~IsOpen(t), DeletesAtOnce(t)
  PROVE  FatInv'
<1> USE DEF FatInv
<1>1. /\ fsOp = NoCall /\ fsOp' = fsOp /\ saved' = [saved EXCEPT ![t] = NotSaved]
      /\ UNCHANGED <<m_nNextFreeCluster, m_Files, mountedHint>>
  BY DEF DeletesAtOnce
<1>2. \A g \in Handle : m_Files[g].bWrite => m_Files[g].title # t
  BY FileIs DEF IsOpen
<1>3. Root[t].first = 0
  BY Gets DEF DeletesAtOnce, FatTypes
<1>4. NoEntry \in Entry /\ NoEntry.first = 0
  BY DEF NoEntry, Entry
<1>5. /\ WrittenBack /\ Table' = Table /\ Data' = Data /\ Root' \in Roots
      /\ Root'[t].first = 0 /\ \A u \in Title \ {t} : Root'[u] = Root[u]
  <2>1. CASE TheRoot[t].used
    <3>1. BecomesCache(MarkDirty(GetRoot(Cache),
                                 [DataOf(GetRoot(Cache)) EXCEPT ![t] = NoEntry]))
      BY <2>1 DEF DeletesAtOnce
    <3>2. WrittenBack /\ Table' = Table /\ Root' = [Root EXCEPT ![t] = NoEntry] /\ Data' = Data
      BY <1>4, <3>1, EntryWritten
    <3> QED
      BY <1>4, <3>2 DEF FatTypes, Roots
  <2>2. CASE ~TheRoot[t].used
    <3>1. BecomesCache(GetRoot(Cache))
      BY <2>2 DEF DeletesAtOnce
    <3>2. WrittenBack /\ Table' = Table /\ Root' = Root /\ Data' = Data
      BY <3>1, NothingWritten
    <3> QED
      BY <1>3, <3>2 DEF FatTypes
  <2> QED
    BY <2>1, <2>2
<1>6. NotSaved \in [size : Nat, version : AnyVersion \cup {"none"}] /\ NotSaved.size = 0
  BY DEF NotSaved
<1>7. /\ saved' \in [Title -> [size : Nat, version : AnyVersion \cup {"none"}]]
      /\ \A u \in Title : saved'[u] = IF u = t THEN NotSaved ELSE saved[u]
  BY <1>1, <1>6 DEF FatTypes
<1>8. FatTypes'
  BY <1>1, <1>5, <1>7, HintStays DEF FatTypes
<1>9. FilesOK' /\ CallOK'
  BY <1>1, <1>2, <1>7, OnlyWriter DEF FilesOK, CallOK, NoCall
<1>10. ASSUME NEW u \in Title \ {t}
       PROVE  Untouched(u)
  BY <1>1, <1>5 DEF Untouched, Length
<1>11. PathsOK'
  <2>1. PICK touched : touched = {t}
    OBVIOUS
  <2>2. \A u \in Title \ touched :
          Untouched(u) /\ (saved'[u] = saved[u] \/ saved'[u].size = 0)
    BY <1>7, <1>10, <2>1
  <2>3. \A h \in Handle : m_Files'[h].bWrite => m_Files'[h].title \in Title \ touched
    BY <1>1, <1>2, <2>1, OnlyWriter
  <2>4. \A u \in Title \cap touched : saved'[u].size # 0 => \E path : SavedPath(u, path)'
    BY <1>6, <1>7, <2>1
  <2> QED
    BY <1>5, <2>2, <2>3, <2>4, PathsKept
<1>12. FatOK'
  <2>1. FirstOf(t) = 0 /\ FirstOf(t)' = 0
    <3>1. Writing(t) = {} /\ Writing(t)' = {}
      BY <1>1, <1>2 DEF Writing
    <3>2. FirstOf(t)' = Root'[t].first
      BY <3>1 DEF FirstOf, Root
    <3> QED
      BY <1>2, <1>3, <1>5, <3>2, NoWriter
  <2>2. ClustersOf(t)' = ClustersOf(t)
    BY <1>5, <2>1 DEF ClustersOf, ChainFrom, Table
  <2>3. \A u \in Title : ClustersOf(u)' = ClustersOf(u)
    BY <1>10, <2>2, KeptClusters
  <2> QED
    BY <1>1, <1>5, <2>3, ClustersKept
<1> QED
  BY <1>8, <1>9, <1>11, <1>12

\* The hint goes back to the first cluster that was freed, if that is before it.
LEMMA HintGoesBack ==
  ASSUME FatTypes, DeleteEnds, NEW t \in Title, t = fsOp.title
  PROVE  /\ m_nNextFreeCluster' \in Hint /\ m_nNextFreeCluster' <= m_nNextFreeCluster
         /\ \A n \in FreedBy(t) : m_nNextFreeCluster' <= n
<1> DEFINE S == FreedBy(t) \cup {m_nNextFreeCluster}
<1>1. S \subseteq Hint /\ S # {} /\ S \subseteq Nat
  <2>1. FreedBy(t) \subseteq Cluster
    BY FromIsClosed DEF FreedBy, ChainFrom
  <2> QED
    BY <2>1, Writable DEF FatTypes
<1>2. \E n \in S : \A k \in S : n <= k
  <2> HIDE DEF S
  <2> QED
    BY <1>1, FirstFound
<1>3. m_nNextFreeCluster' = CHOOSE n \in S : \A k \in S : n <= k
  <2>1. ChainFrom(DataOf(GetFAT(Cache)), TheRoot[fsOp.title].first) = FreedBy(t)
    BY Gets DEF FreedBy, FatTypes
  <2> QED
    BY <2>1 DEF DeleteEnds
<1>4. m_nNextFreeCluster' \in S /\ \A k \in S : m_nNextFreeCluster' <= k
  <2> HIDE DEF S
  <2> QED
    BY <1>2, <1>3
<1> QED
  BY <1>1, <1>4

LEMMA DeleteEndsKeeps ==
  ASSUME FatInv, DeleteEnds
  PROVE  FatInv'
<1> USE DEF FatInv
<1>1. fsOp.name = "delete" /\ fsOp \in DeleteCall
  BY CallIs DEF DeleteEnds
<1>2. PICK t \in Title : t = fsOp.title
  BY <1>1 DEF DeleteCall
<1>3. \A g \in Handle : m_Files[g].bWrite => m_Files[g].title # t
  BY <1>1, <1>2 DEF CallOK
<1>4. FreedBy(t) = ClustersOf(t) /\ FreedBy(t) \subseteq Cluster
  BY <1>3, NoWriter, FromIsClosed DEF FreedBy, ClustersOf, ChainFrom, Table
<1>5. PICK e \in Entry : /\ e = IF fsOp.then.name = "create" THEN Created ELSE NoEntry
                         /\ e.first = 0
  <2>1. /\ Created \in Entry /\ NoEntry \in Entry
        /\ Created.first = 0 /\ NoEntry.first = 0
    BY DEF Entry, Created, NoEntry
  <2> QED
    BY <2>1
<1>6. /\ WrittenBack /\ Data' = Data
      /\ Table' = [n \in Cluster |-> IF n \in FreedBy(t) THEN 0 ELSE Table[n]]
      /\ Root' = [Root EXCEPT ![t] = e]
  BY <1>2, <1>5, ChainFreed
<1>7. /\ Table' \in FATs
      /\ \A n \in Cluster : Table'[n] = IF n \in ClustersOf(t) THEN 0 ELSE Table[n]
  BY <1>4, <1>6 DEF FatTypes, FATs
<1>8. Root' \in Roots /\ Root'[t].first = 0 /\ \A u \in Title \ {t} : Root'[u] = Root[u]
  BY <1>5, <1>6 DEF FatTypes, Roots
<1>9. /\ m_nNextFreeCluster' \in Hint /\ m_nNextFreeCluster' <= m_nNextFreeCluster
      /\ \A n \in ClustersOf(t) : m_nNextFreeCluster' <= n
  BY <1>2, <1>4, HintGoesBack
<1>10. fsOp' = NoCall /\ fsOp'.name = "none" /\ UNCHANGED <<saved, mountedHint>>
  BY DEF DeleteEnds, NoCall
<1>11. /\ m_Files' \in [Handle -> OpenFile \cup ReadFile \cup {NotOpen}] /\ ClustersOf(t)' = {}
       /\ \A g \in Handle : m_Files'[g] = m_Files[g] \/
            /\ ~m_Files[g].bWrite /\ m_Files'[g].bWrite /\ m_Files'[g].title = t
            /\ \E path : WritePath(g, path)'
       /\ \A g, h \in Handle : m_Files'[g] # m_Files[g] /\ m_Files'[h] # m_Files[h] => g = h
  <2>1. CASE fsOp.then.name = "create"
    <3>1. fsOp.then.h \in Handle /\ fsOp.then.v \in AnyVersion
      BY <1>1, <2>1 DEF DeleteCall
    <3>2. PICK hFile \in Handle, v \in AnyVersion : hFile = fsOp.then.h /\ v = fsOp.then.v
      BY <3>1
    <3>3. m_Files' = Opened(hFile, t, v)
      BY <1>2, <2>1, <3>2 DEF DeleteEnds
    <3>4. /\ m_Files' \in [Handle -> OpenFile \cup ReadFile \cup {NotOpen}]
          /\ m_Files'[hFile].bWrite /\ m_Files'[hFile].title = t
          /\ \A g \in Handle \ {hFile} : m_Files'[g] = m_Files[g]
          /\ ClustersOf(t)' = {} /\ \E path : WritePath(hFile, path)'
      BY <1>3, <1>10, <3>3, NewlyOpened
    <3>5. ~m_Files[hFile].bWrite
      BY <1>1, <2>1, <3>2 DEF CallOK
    <3> QED
      BY <3>4, <3>5
  <2>2. CASE fsOp.then.name # "create"
    <3>1. m_Files' = m_Files
      BY <2>2 DEF DeleteEnds
    <3>2. FirstOf(t)' = 0
      <4>1. Writing(t)' = {}
        BY <1>3, <3>1 DEF Writing
      <4> QED
        BY <1>8, <4>1 DEF FirstOf, Root
    <3>3. PICK fat : fat = Table'
      OBVIOUS
    <3>4. ClustersOf(t)' = From(Cluster, fat, 0) /\ 0 \notin Cluster
      BY <3>2, <3>3, Numbers DEF ClustersOf, ChainFrom, Table
    <3>5. ClustersOf(t)' = {}
      BY <3>4, FromNull
    <3> QED
      BY <3>1, <3>5 DEF FatTypes
  <2> QED
    BY <2>1, <2>2
<1>12. FatTypes'
  BY <1>6, <1>7, <1>8, <1>9, <1>10, <1>11, HintStays DEF FatTypes
<1>13. FilesOK'
  <2>1. ASSUME NEW g \in Handle, NEW h \in Handle, m_Files'[g].bWrite, m_Files'[h].bWrite,
               m_Files'[g].title = m_Files'[h].title
        PROVE  g = h
    BY <1>3, <1>11, <2>1 DEF FilesOK
  <2>2. ASSUME NEW h \in Handle, m_Files'[h].bWrite
        PROVE  saved'[m_Files'[h].title].size = 0
    <3>1. saved[t].size = 0
      BY <1>1, <1>2 DEF CallOK
    <3> QED
      BY <1>10, <1>11, <2>2, <3>1 DEF FilesOK
  <2> QED
    BY <2>1, <2>2 DEF FilesOK
<1>14. CallOK'
  BY <1>10 DEF CallOK
<1>15. ASSUME NEW u \in Title \ {t}
       PROVE  Untouched(u)
  <2>1. \A n \in ClustersOf(u) : n \in Cluster /\ n \notin ClustersOf(t)
    BY FromIsClosed DEF FatOK, ClustersOf, ChainFrom
  <2>2. \A h \in Handle : m_Files'[h] = m_Files[h] => Length(h)' = Length(h)
    BY <1>1, <1>10 DEF Length
  <2> QED
    BY <1>6, <1>7, <1>8, <1>11, <2>1, <2>2 DEF Untouched
<1>16. PathsOK'
  <2>1. PICK touched : touched = {t}
    OBVIOUS
  <2>2. \A u \in Title \ touched :
          Untouched(u) /\ (saved'[u] = saved[u] \/ saved'[u].size = 0)
    BY <1>10, <1>15, <2>1
  <2>3. \A h \in Handle : m_Files'[h].bWrite => m_Files'[h].title \in Title
    BY <1>11, OnlyWriter
  <2>4. ASSUME NEW h \in Handle, m_Files'[h].bWrite /\ m_Files'[h].title \in touched
        PROVE  \E path : WritePath(h, path)'
    BY <1>3, <1>11, <2>1, <2>4
  <2>5. \A u \in Title \cap touched : saved'[u].size # 0 => \E path : SavedPath(u, path)'
    BY <1>1, <1>2, <1>10, <2>1 DEF CallOK
  <2> QED
    BY <1>6, <2>2, <2>3, <2>4, <2>5, PathsKept
<1>17. \A u \in Title : ClustersOf(u)' = IF u = t THEN {} ELSE ClustersOf(u)
  BY <1>11, <1>15, KeptClusters
<1>18. FatOK'
  <2>1. \A u, w \in Title : u # w => ClustersOf(u)' \cap ClustersOf(w)' = {}
    BY <1>17 DEF FatOK
  <2>2. {n \in Cluster : Table'[n] # 0} = UNION {ClustersOf(u)' : u \in Title}
    <3>1. ASSUME NEW n \in Cluster
          PROVE  Table'[n] # 0 <=> \E u \in Title : n \in ClustersOf(u)'
      <4>1. Table[n] # 0 <=> \E u \in Title : n \in ClustersOf(u)
        <5>1. n \in {k \in Cluster : Table[k] # 0} <=> n \in UNION {ClustersOf(u) : u \in Title}
          BY DEF FatOK, Table
        <5> QED
          BY <5>1
      <4>2. Table'[n] = IF n \in ClustersOf(t) THEN 0 ELSE Table[n]
        BY <1>7
      <4>3. CASE n \in ClustersOf(t)
        BY <1>17, <4>2, <4>3 DEF FatOK
      <4>4. CASE n \notin ClustersOf(t)
        BY <1>17, <4>1, <4>2, <4>4
      <4> QED
        BY <4>3, <4>4
    <3>2. \A u \in Title : ClustersOf(u)' \subseteq Cluster
      BY <1>17, FromIsClosed DEF ClustersOf, ChainFrom
    <3> QED
      BY <3>1, <3>2
  <2>3. ASSUME NEW n \in Cluster, n < m_nNextFreeCluster', Table'[n] = 0
        PROVE  n < mountedHint'
    <3>1. n \notin ClustersOf(t) /\ n < m_nNextFreeCluster
      BY <1>9, <2>3, Numbers, Writable DEF FatTypes
    <3> QED
      BY <1>7, <1>10, <2>3, <3>1 DEF FatOK, Table
  <2> QED
    BY <2>1, <2>2, <2>3 DEF FatOK, Table
<1> QED
  BY <1>12, <1>13, <1>14, <1>16, <1>18

-----------------------------------------------------------------------------
(* Steps of FileWrite()                                                     *)

\* The state of the file while AllocateCluster() looks for a cluster
LEMMA Allocating ==
  ASSUME FatInv, fsOp.name = "allocate"
  PROVE  /\ fsOp \in WriteCall /\ fsOp.h \in Handle /\ m_Files[fsOp.h] \in OpenFile
         /\ m_Files[fsOp.h].bWrite
         /\ Length(fsOp.h) = m_Files[fsOp.h].nSize
<1>1. fsOp \in WriteCall /\ m_Files[fsOp.h].bWrite
  BY CallIs DEF FatInv, CallOK
<1>2. fsOp.h \in Handle
  BY <1>1 DEF WriteCall
<1>3. m_Files[fsOp.h] \in OpenFile
  BY <1>1, <1>2, FileIs DEF FatInv
<1>4. m_Files[fsOp.h].nSize \in Nat
  BY <1>3 DEF OpenFile
<1> QED
  BY <1>1, <1>2, <1>3, <1>4 DEF Length

\* What the step is, in terms of the table that is shown
Allocates(h, file, n) ==
  /\ n >= m_nNextFreeCluster /\ Table[n] = 0
  /\ \A k \in m_nNextFreeCluster .. n - 1 : Table[k] # 0
  /\ WrittenBack /\ Root' = Root /\ Data' = Data /\ Table' \in FATs
  /\ \A k \in Cluster :
       Table'[k] = IF k = file.nCluster /\ file.nFirstCluster # 0 THEN n
                   ELSE IF k = n THEN EOC ELSE Table[k]
  /\ m_nNextFreeCluster' = AfterAllocated(n)
  /\ m_Files' = [m_Files EXCEPT ![h] =
       [file EXCEPT !.nCluster = n,
                    !.nFirstCluster = IF file.nFirstCluster = 0 THEN n
                                      ELSE file.nFirstCluster]]

LEMMA WriteAllocatesShows ==
  ASSUME FatInv, WriteAllocates, NEW h \in Handle, h = fsOp.h, NEW file \in OpenFile,
         file = m_Files[h]
  PROVE  \E n \in Cluster : Allocates(h, file, n)
<1> USE DEF FatInv
<1>1. DataOf(GetFAT(Cache)) = Table
  BY Gets DEF FatTypes
<1>2. PICK n \in FirstFree(Table) :
        /\ BecomesCache(MarkDirty(GetFAT(Cache),
             IF file.nFirstCluster = 0 THEN [Table EXCEPT ![n] = EOC]
             ELSE [Table EXCEPT ![n] = EOC, ![file.nCluster] = n]))
        /\ m_nNextFreeCluster' = AfterAllocated(n)
        /\ m_Files' = [m_Files EXCEPT
             ![fsOp.h].nCluster = n,
             ![fsOp.h].nFirstCluster = IF @ = 0 THEN n ELSE @]
  BY <1>1 DEF WriteAllocates
<1>3. /\ n \in Cluster /\ n >= m_nNextFreeCluster /\ Table[n] = 0
      /\ \A k \in m_nNextFreeCluster .. n - 1 : Table[k] # 0
  BY <1>2 DEF FirstFree
<1>4. m_Files' = [m_Files EXCEPT ![h] =
        [file EXCEPT !.nCluster = n,
                     !.nFirstCluster = IF file.nFirstCluster = 0 THEN n ELSE file.nFirstCluster]]
  BY <1>2 DEF FatTypes, OpenFile
<1>5. PICK fat : fat = IF file.nFirstCluster = 0 THEN [Table EXCEPT ![n] = EOC]
                       ELSE [Table EXCEPT ![n] = EOC, ![file.nCluster] = n]
  OBVIOUS
<1>6. /\ fat \in FATs
      /\ \A k \in Cluster : fat[k] = IF k = file.nCluster /\ file.nFirstCluster # 0 THEN n
                                     ELSE IF k = n THEN EOC ELSE Table[k]
  BY <1>3, <1>5 DEF FatTypes, FATs, OpenFile
<1>7. WrittenBack /\ Table' = fat /\ Root' = Root /\ Data' = Data
  BY <1>2, <1>5, <1>6, TableWritten
<1>8. /\ Table' \in FATs
      /\ \A k \in Cluster :
           Table'[k] = IF k = file.nCluster /\ file.nFirstCluster # 0 THEN n
                       ELSE IF k = n THEN EOC ELSE Table[k]
  BY <1>6, <1>7
<1>9. m_nNextFreeCluster' = AfterAllocated(n)
  BY <1>2
<1> QED
  BY <1>3, <1>4, <1>7, <1>8, <1>9 DEF Allocates

LEMMA WriteAllocatesKeeps ==
  ASSUME FatInv, WriteAllocates
  PROVE  FatInv'
<1> USE DEF FatInv
<1>1. /\ fsOp.name = "allocate" /\ fsOp' = [fsOp EXCEPT !.name = "fill"]
      /\ UNCHANGED <<saved, mountedHint>>
  BY DEF WriteAllocates
<1>2. PICK h \in Handle, file \in OpenFile, t \in Title :
        h = fsOp.h /\ file = m_Files[h] /\ t = file.title
  BY <1>1, Allocating DEF OpenFile
<1>3. /\ m_Files[h].bWrite /\ Length(h) = file.nSize /\ file.nSize \in Nat
  BY <1>1, <1>2, Allocating DEF OpenFile
<1>4. fsOp' \in WriteCall /\ fsOp'.name = "fill" /\ fsOp'.h = h
  BY <1>1, <1>2, Allocating DEF WriteCall
<1>a. PICK n \in Cluster : Allocates(h, file, n)
  BY <1>2, WriteAllocatesShows
<1>5. /\ n >= m_nNextFreeCluster /\ Table[n] = 0
      /\ \A k \in m_nNextFreeCluster .. n - 1 : Table[k] # 0
      /\ WrittenBack /\ Root' = Root /\ Data' = Data /\ Table' \in FATs
      /\ \A k \in Cluster :
           Table'[k] = IF k = file.nCluster /\ file.nFirstCluster # 0 THEN n
                       ELSE IF k = n THEN EOC ELSE Table[k]
      /\ m_nNextFreeCluster' = AfterAllocated(n)
      /\ m_Files' = [m_Files EXCEPT ![h] =
           [file EXCEPT !.nCluster = n,
                        !.nFirstCluster = IF file.nFirstCluster = 0 THEN n
                                          ELSE file.nFirstCluster]]
  BY <1>a DEF Allocates
<1>6. PICK new \in OpenFile :
        /\ new.open /\ new.bWrite /\ new.title = t /\ new.version = file.version
        /\ new.nSize = file.nSize
        /\ new.nCluster = n
        /\ new.nFirstCluster = IF file.nFirstCluster = 0 THEN n ELSE file.nFirstCluster
        /\ m_Files' = [m_Files EXCEPT ![h] = new]
  <2>1. PICK new : new = [file EXCEPT !.nCluster = n,
                            !.nFirstCluster = IF file.nFirstCluster = 0 THEN n
                                              ELSE file.nFirstCluster]
    OBVIOUS
  <2>2. /\ new \in OpenFile
        /\ new.open /\ new.bWrite /\ new.title = t /\ new.version = file.version
        /\ new.nSize = file.nSize /\ new.nCluster = n
        /\ new.nFirstCluster = IF file.nFirstCluster = 0 THEN n ELSE file.nFirstCluster
    BY <1>2, <2>1 DEF OpenFile
  <2> QED
    BY <1>5, <2>1, <2>2
<1>7. /\ m_Files' \in [Handle -> OpenFile \cup ReadFile \cup {NotOpen}] /\ m_Files'[h] = new
      /\ \A g \in Handle \ {h} : m_Files'[g] = m_Files[g]
  BY <1>6 DEF FatTypes
<1>8. m_nNextFreeCluster' \in Hint
  BY <1>5, Numbers DEF AfterAllocated, Cluster, Hint, EOC
<1>9. FatTypes'
  BY <1>1, <1>4, <1>5, <1>7, <1>8, HintStays DEF FatTypes
<1>10. FilesOK'
  BY <1>1, <1>2, <1>6, <1>7, <1>3 DEF FilesOK
<1>11. CallOK'
  BY <1>4, <1>6, <1>7 DEF CallOK
<1>12. PICK path : WritePath(h, path)
  BY <1>3 DEF PathsOK
<1>13. PICK k \in Nat : k = file.nSize
  BY <1>3
<1>14. /\ path \in [1 .. k -> Cluster]
       /\ k = 0 => file.nFirstCluster = 0
       /\ k # 0 => /\ path[1] = file.nFirstCluster /\ path[k] = file.nCluster
                   /\ Table[file.nCluster] = EOC
       /\ \A i \in 1 .. k - 1 : Table[path[i]] = path[i + 1]
       /\ \A i \in 1 .. k : Data[path[i]] = <<t, file.version, i>>
  BY <1>2, <1>3, <1>12, <1>13 DEF WritePath
<1>15. \A i \in 1 .. k : path[i] \in ClustersOf(t)
  BY <1>2, <1>3, <1>12, <1>13, OwnPath
<1>16. /\ FirstOf(t) = file.nFirstCluster /\ Writing(t) = {h}
       /\ ClustersOf(t) = From(Cluster, Table, file.nFirstCluster)
  BY <1>2, <1>3, OnlyWriter DEF ClustersOf, ChainFrom, Table
<1>17. /\ \A u \in Title : \A j \in ClustersOf(u) : j \in Cluster /\ Table[j] # 0 /\ j # n
  <2>1. ASSUME NEW u \in Title, NEW j \in ClustersOf(u)
        PROVE  j \in Cluster /\ Table[j] # 0
    BY DEF FatOK, Table
  <2> QED
    BY <1>5, <2>1
<1>18. Length(h)' = k + 1
  BY <1>4, <1>6, <1>7, <1>13 DEF Length
<1>19. FirstOf(t)' = new.nFirstCluster
  <2>1. Writing(t)' = {h}
    BY <1>2, <1>6, <1>7, <1>16 DEF Writing
  <2> QED
    BY <1>7, <2>1 DEF FirstOf
<1>20. PICK fat, fat2 : fat = Table /\ fat2 = Table'
  OBVIOUS
<1>21. /\ ClustersOf(t)' = ClustersOf(t) \cup {n}
       /\ \A j \in Cluster : j \notin ClustersOf(t) /\ j # n => Table'[j] = Table[j]
       /\ \A j \in Cluster : Table'[j] = 0 <=> Table[j] = 0 /\ j # n
       /\ \E path2 : WritePath(h, path2)'
  <2>1. CASE k = 0
    <3>1. file.nFirstCluster = 0 /\ new.nFirstCluster = n /\ 0 \notin Cluster
      BY <1>6, <1>14, <2>1, Numbers
    <3>2. \A j \in Cluster : Table'[j] = IF j = n THEN EOC ELSE Table[j]
      BY <1>5, <3>1
    <3>3. ClustersOf(t) = {}
      BY <1>16, <1>20, <3>1, FromNull
    <3>4. From(Cluster, fat2, n) = {n} \cup From(Cluster, fat2, EOC)
      BY <1>20, <3>2, FromStep
    <3>5. From(Cluster, fat2, EOC) = {}
      BY FromNull, Numbers
    <3>6. ClustersOf(t)' = {n}
      BY <1>19, <1>20, <3>1, <3>4, <3>5 DEF ClustersOf, ChainFrom, Table
    <3>7. PICK path2 : path2 = [i \in 1 .. 1 |-> n]
      OBVIOUS
    <3>8. path2 \in [1 .. 1 -> Cluster] /\ path2[1] = n
      BY <3>7
    <3>9. Length(h)' = 1 /\ new.nSize = 0
      BY <1>6, <1>13, <1>18, <2>1
    <3>10. Table'[n] = EOC
      BY <3>2
    <3>11. WritePath(h, path2)'
      BY <1>6, <1>7, <3>1, <3>8, <3>9, <3>10 DEF WritePath
    <3> QED
      BY <3>2, <3>3, <3>6, <3>11, Numbers
  <2>2. CASE k # 0
    <3>1. /\ 1 \in 1 .. k /\ k \in 1 .. k /\ path[1] = file.nFirstCluster
          /\ path[k] = file.nCluster /\ Table[file.nCluster] = EOC
      BY <1>14, <2>2
    <3>2. PICK last \in Cluster : last = file.nCluster /\ last \in ClustersOf(t) /\ last # n
      BY <1>14, <1>15, <1>17, <3>1
    <3>3. file.nFirstCluster \in Cluster /\ file.nFirstCluster # 0
      BY <1>14, <3>1, Numbers
    <3>4. new.nFirstCluster = file.nFirstCluster
      BY <1>6, <3>3
    <3>5. \A j \in Cluster : Table'[j] = IF j = last THEN n ELSE IF j = n THEN EOC ELSE Table[j]
      BY <1>5, <3>2, <3>3
    <3>6. ClustersOf(t)' = ClustersOf(t) \cup {n}
      <4>1. PICK first : first = file.nFirstCluster
        OBVIOUS
      <4>2. /\ last \in From(Cluster, fat, first) /\ fat[last] \notin Cluster
            /\ n \notin From(Cluster, fat, first)
        BY <1>16, <1>17, <1>20, <3>1, <3>2, <4>1, Numbers
      <4>3. /\ fat2[last] = n /\ fat2[n] \notin Cluster
            /\ \A u \in Cluster \ {last, n} : fat2[u] = fat[u]
        BY <1>20, <3>2, <3>5, Numbers
      <4>4. From(Cluster, fat2, first) = From(Cluster, fat, first) \cup {n}
        BY <4>2, <4>3, FromAppend
      <4> QED
        BY <1>16, <1>19, <1>20, <3>4, <4>1, <4>4 DEF ClustersOf, ChainFrom, Table
    <3>7. PICK path2 : path2 = [i \in 1 .. k + 1 |-> IF i <= k THEN path[i] ELSE n]
      OBVIOUS
    <3>8. /\ path2 \in [1 .. k + 1 -> Cluster] /\ path2[1] = new.nFirstCluster
          /\ path2[k + 1] = n
          /\ \A i \in 1 .. k : path2[i] = path[i]
      BY <1>14, <3>1, <3>4, <3>7
    <3>9. Table'[n] = EOC
      BY <3>2, <3>5
    <3>10. ASSUME NEW i \in 1 .. k
           PROVE  Table'[path2[i]] = path2[i + 1]
      <4>1. CASE i = k
        BY <3>1, <3>2, <3>5, <3>8, <4>1
      <4>2. CASE i # k
        <5>1. i \in 1 .. k - 1 /\ i + 1 \in 1 .. k
          BY <4>2
        <5>2. Table[path[i]] = path[i + 1] /\ path[i] \in Cluster /\ path[i + 1] \in Cluster
          BY <1>14, <5>1
        <5>3. path[i] # last /\ path[i] # n
          BY <1>15, <1>17, <3>1, <3>2, <5>2, Numbers
        <5> QED
          BY <3>5, <3>8, <5>1, <5>2, <5>3
      <4> QED
        BY <4>1, <4>2
    <3>11. \A i \in 1 .. k : Data'[path2[i]] = <<t, file.version, i>>
      BY <1>5, <1>14, <3>8
    <3>12. WritePath(h, path2)'
      <4>1. (k + 1) - 1 = k /\ k + 1 # 0
        OBVIOUS
      <4> QED
        BY <1>6, <1>7, <1>13, <1>18, <3>8, <3>9, <3>10, <3>11, <4>1, ZenonT(60) DEF WritePath
    <3>13. \A j \in Cluster : Table'[j] = 0 <=> Table[j] = 0 /\ j # n
      BY <1>5, <3>1, <3>2, <3>5, Numbers
    <3> QED
      BY <3>2, <3>5, <3>6, <3>12, <3>13
  <2> QED
    BY <2>1, <2>2
<1>22. ASSUME NEW u \in Title \ {t}
       PROVE  Untouched(u)
  <2>1. \A j \in ClustersOf(u) : Table'[j] = Table[j]
    BY <1>17, <1>21 DEF FatOK
  <2>2. ASSUME NEW g \in Handle,
               (m_Files[g].bWrite /\ m_Files[g].title = u) \/ (m_Files'[g].bWrite /\ m_Files'[g].title = u)
        PROVE  m_Files'[g] = m_Files[g] /\ Length(g)' = Length(g)
    <3>1. g # h
      BY <1>2, <1>6, <1>7, <2>2
    <3>2. m_Files'[g] = m_Files[g]
      BY <1>7, <3>1
    <3> QED
      BY <1>1, <1>4, <3>1, <3>2 DEF Length
  <2> QED
    BY <1>5, <2>1, <2>2 DEF Untouched
<1>23. PathsOK'
  <2>1. PICK touched : touched = {t}
    OBVIOUS
  <2>2. \A u \in Title \ touched :
          Untouched(u) /\ (saved'[u] = saved[u] \/ saved'[u].size = 0)
    BY <1>1, <1>22, <2>1
  <2>3. \A g \in Handle : m_Files'[g].bWrite => m_Files'[g].title \in Title
    BY <1>6, <1>7, OnlyWriter
  <2>4. ASSUME NEW g \in Handle, m_Files'[g].bWrite /\ m_Files'[g].title \in touched
        PROVE  \E path2 : WritePath(g, path2)'
    <3>1. g = h
      BY <1>2, <1>3, <1>7, <2>1, <2>4 DEF FilesOK
    <3> QED
      BY <1>21, <3>1
  <2>5. \A u \in Title \cap touched : saved'[u].size # 0 => \E path2 : SavedPath(u, path2)'
    BY <1>1, <1>2, <1>3, <2>1 DEF FilesOK
  <2> QED
    BY <1>5, <2>2, <2>3, <2>4, <2>5, PathsKept
<1>24. \A u \in Title : ClustersOf(u)' = IF u = t THEN ClustersOf(t) \cup {n} ELSE ClustersOf(u)
  BY <1>21, <1>22, KeptClusters
<1>25. FatOK'
  <2>1. \A u, w \in Title : u # w => ClustersOf(u)' \cap ClustersOf(w)' = {}
    BY <1>17, <1>24 DEF FatOK
  <2>2. {j \in Cluster : Table'[j] # 0} = UNION {ClustersOf(u)' : u \in Title}
    <3>1. ASSUME NEW j \in Cluster
          PROVE  Table'[j] # 0 <=> \E u \in Title : j \in ClustersOf(u)'
      <4>1. Table[j] # 0 <=> \E u \in Title : j \in ClustersOf(u)
        <5>1. j \in {i \in Cluster : Table[i] # 0} <=> j \in UNION {ClustersOf(u) : u \in Title}
          BY DEF FatOK, Table
        <5> QED
          BY <5>1
      <4> QED
        BY <1>21, <1>24, <4>1
    <3>2. \A u \in Title : ClustersOf(u)' \subseteq Cluster
      BY <1>17, <1>24
    <3> QED
      BY <3>1, <3>2
  <2>3. ASSUME NEW j \in Cluster, j < m_nNextFreeCluster', Table'[j] = 0
        PROVE  j < mountedHint'
    <3>1. Table[j] = 0 /\ j # n
      BY <1>21, <2>3
    <3>2. j < n
      BY <1>5, <2>3, <3>1, Numbers DEF AfterAllocated, Cluster
    <3>3. j < m_nNextFreeCluster
      BY <1>5, <3>1, <3>2, Numbers, Writable DEF FatTypes
    <3> QED
      BY <1>1, <3>1, <3>3 DEF FatOK, Table
  <2> QED
    BY <2>1, <2>2, <2>3 DEF FatOK, Table
<1> QED
  BY <1>9, <1>10, <1>11, <1>23, <1>25

\* The last cluster of the file is the one that is filled.
LEMMA Filling ==
  ASSUME FatInv, fsOp.name = "fill"
  PROVE  /\ fsOp \in WriteCall /\ fsOp.h \in Handle /\ m_Files[fsOp.h] \in OpenFile
         /\ m_Files[fsOp.h].bWrite
         /\ Length(fsOp.h) = m_Files[fsOp.h].nSize + 1
<1>1. fsOp \in WriteCall /\ m_Files[fsOp.h].bWrite
  BY CallIs DEF FatInv, CallOK
<1>2. fsOp.h \in Handle
  BY <1>1 DEF WriteCall
<1>3. m_Files[fsOp.h] \in OpenFile
  BY <1>1, <1>2, FileIs DEF FatInv
<1> QED
  BY <1>1, <1>2, <1>3 DEF Length

LEMMA WriteFillsKeeps ==
  ASSUME FatInv, WriteFills
  PROVE  FatInv'
<1> USE DEF FatInv
<1>1. fsOp.name = "fill" /\ UNCHANGED <<m_nNextFreeCluster, saved, mountedHint>>
  BY DEF WriteFills
<1>2. PICK h \in Handle, file \in OpenFile, t \in Title :
        h = fsOp.h /\ file = m_Files[h] /\ t = file.title
  BY <1>1, Filling DEF OpenFile
<1>3. PICK k \in Nat : /\ k = file.nSize /\ Length(h) = k + 1
                       /\ m_Files[h].bWrite /\ fsOp \in WriteCall
  BY <1>1, <1>2, Filling DEF OpenFile
<1>4. PICK path : WritePath(h, path)
  BY <1>3 DEF PathsOK
<1>5. /\ path \in [1 .. k + 1 -> Cluster] /\ path[1] = file.nFirstCluster
      /\ path[k + 1] = file.nCluster /\ Table[file.nCluster] = EOC
      /\ \A i \in 1 .. k : Table[path[i]] = path[i + 1]
      /\ \A i \in 1 .. k : Data[path[i]] = <<t, file.version, i>>
  <2>1. (k + 1) - 1 = k /\ k + 1 # 0
    OBVIOUS
  <2> QED
    BY <1>2, <1>3, <1>4, <2>1 DEF WritePath
<1>6. PICK last \in Cluster : last = file.nCluster /\ last \in ClustersOf(t)
  <2>1. k + 1 \in 1 .. k + 1
    OBVIOUS
  <2> QED
    BY <1>2, <1>3, <1>4, <1>5, <2>1, OwnPath
<1>7. PICK data \in Content : data = <<t, file.version, k + 1>>
  <2>1. file.version \in AnyVersion /\ k + 1 \in Nat
    BY DEF OpenFile
  <2> QED
    BY <2>1, Writable
<1>8. WrittenBack /\ Table' = Table /\ Root' = Root /\ Data' = [Data EXCEPT ![last] = data]
  <2>1. BecomesCache(FreeData(MarkDirty(GetSector(Cache, last, TRUE), data)))
    BY <1>2, <1>3, <1>6, <1>7 DEF WriteFills
  <2> QED
    BY <2>1, DataWritten
<1>9. \A n \in Cluster : Data'[n] = IF n = last THEN data ELSE Data[n]
  BY <1>8 DEF Data
<1>10. PICK new \in OpenFile :
         /\ new.open /\ new.bWrite /\ new.title = t /\ new.version = file.version
         /\ new.nSize = k + 1 /\ new.nCluster = last
         /\ new.nFirstCluster = file.nFirstCluster
         /\ m_Files' = [m_Files EXCEPT ![h] = new]
  <2>0. PICK m \in Nat : m = k + 1
    OBVIOUS
  <2>1. PICK new : new = [file EXCEPT !.nSize = m]
    OBVIOUS
  <2>2. m_Files' = [m_Files EXCEPT ![h] = new]
    BY <1>2, <1>3, <2>0, <2>1 DEF WriteFills
  <2>3. /\ new \in OpenFile
        /\ new.open /\ new.bWrite /\ new.title = t /\ new.version = file.version
        /\ new.nSize = m /\ new.nCluster = last
        /\ new.nFirstCluster = file.nFirstCluster
    BY <1>2, <1>6, <2>1 DEF OpenFile
  <2> QED
    BY <2>0, <2>2, <2>3
<1>11. /\ m_Files' \in [Handle -> OpenFile \cup ReadFile \cup {NotOpen}] /\ m_Files'[h] = new
       /\ \A g \in Handle \ {h} : m_Files'[g] = m_Files[g]
  BY <1>10 DEF FatTypes
<1>12. \/ fsOp' = NoCall /\ fsOp'.name = "none"
       \/ fsOp' \in WriteCall /\ fsOp'.name = "allocate" /\ fsOp'.h = h
  <2>1. CASE fsOp.left = 1
    BY <2>1 DEF WriteFills, NoCall
  <2>2. CASE fsOp.left # 1
    <3>1. fsOp' = [fsOp EXCEPT !.name = "allocate", !.left = fsOp.left - 1]
      BY <2>2 DEF WriteFills
    <3>2. PICK left \in Int : left = fsOp.left - 1
      BY <1>3 DEF WriteCall
    <3>3. fsOp' = [fsOp EXCEPT !.name = "allocate", !.left = left]
      BY <3>1, <3>2
    <3> QED
      BY <1>2, <1>3, <3>3 DEF WriteCall
  <2> QED
    BY <2>1, <2>2
<1>13. FatTypes'
  BY <1>1, <1>8, <1>11, <1>12, HintStays DEF FatTypes
<1>14. FilesOK'
  BY <1>1, <1>2, <1>3, <1>10, <1>11 DEF FilesOK
<1>15. CallOK'
  BY <1>10, <1>11, <1>12 DEF CallOK
<1>16. FirstOf(t)' = file.nFirstCluster /\ FirstOf(t) = file.nFirstCluster
  <2>1. FirstOf(t) = file.nFirstCluster /\ Writing(t) = {h}
    BY <1>2, <1>3, OnlyWriter
  <2>2. Writing(t)' = {h}
    BY <1>2, <1>10, <1>11, <2>1 DEF Writing
  <2> QED
    BY <1>10, <1>11, <2>1, <2>2 DEF FirstOf
<1>17. ClustersOf(t)' = ClustersOf(t)
  BY <1>8, <1>16 DEF ClustersOf, Table
<1>18. Length(h)' = k + 1
  BY <1>10, <1>11, <1>12 DEF Length
<1>19. WritePath(h, path)'
  <2>1. ASSUME NEW i \in 1 .. k + 1
        PROVE  Data'[path[i]] = <<t, file.version, i>>
    <3>1. CASE i = k + 1
      BY <1>5, <1>6, <1>7, <1>9, <3>1
    <3>2. CASE i # k + 1
      <4>1. i \in 1 .. k /\ i + 1 \in 1 .. k + 1
        BY <3>2
      <4>2. Table[path[i]] \in Cluster /\ path[i] \in Cluster
        BY <1>5, <4>1
      <4>3. path[i] # last
        BY <1>5, <1>6, <4>2, Numbers
      <4> QED
        BY <1>5, <1>9, <4>1, <4>2, <4>3
    <3> QED
      BY <3>1, <3>2
  <2>2. (k + 1) - 1 = k /\ k + 1 # 0
    OBVIOUS
  <2> QED
    BY <1>5, <1>6, <1>8, <1>10, <1>11, <1>18, <2>1, <2>2 DEF WritePath
<1>20. ASSUME NEW u \in Title \ {t}
       PROVE  Untouched(u)
  <2>1. \A n \in ClustersOf(u) : Data'[n] = Data[n]
    <3>1. \A n \in ClustersOf(u) : n \in Cluster /\ n # last
      BY <1>6, FromIsClosed DEF FatOK, ClustersOf, ChainFrom
    <3> QED
      BY <1>9, <3>1
  <2>2. ASSUME NEW g \in Handle,
               (m_Files[g].bWrite /\ m_Files[g].title = u) \/ (m_Files'[g].bWrite /\ m_Files'[g].title = u)
        PROVE  m_Files'[g] = m_Files[g] /\ Length(g)' = Length(g)
    <3>1. g # h
      BY <1>2, <1>10, <1>11, <2>2
    <3>2. m_Files'[g] = m_Files[g]
      BY <1>11, <3>1
    <3> QED
      BY <1>1, <1>2, <1>12, <3>1, <3>2 DEF Length
  <2> QED
    BY <1>8, <2>1, <2>2 DEF Untouched
<1>21. PathsOK'
  <2>1. PICK touched : touched = {t}
    OBVIOUS
  <2>2. \A u \in Title \ touched :
          Untouched(u) /\ (saved'[u] = saved[u] \/ saved'[u].size = 0)
    BY <1>1, <1>20, <2>1
  <2>3. \A g \in Handle : m_Files'[g].bWrite => m_Files'[g].title \in Title
    BY <1>10, <1>11, OnlyWriter
  <2>4. ASSUME NEW g \in Handle, m_Files'[g].bWrite /\ m_Files'[g].title \in touched
        PROVE  \E path2 : WritePath(g, path2)'
    <3>1. g = h
      BY <1>2, <1>3, <1>11, <2>1, <2>4 DEF FilesOK
    <3> QED
      BY <1>19, <3>1
  <2>5. \A u \in Title \cap touched : saved'[u].size # 0 => \E path2 : SavedPath(u, path2)'
    BY <1>1, <1>2, <1>3, <2>1 DEF FilesOK
  <2> QED
    BY <1>8, <2>2, <2>3, <2>4, <2>5, PathsKept
<1>22. FatOK'
  <2>1. \A u \in Title : ClustersOf(u)' = ClustersOf(u)
    BY <1>17, <1>20, KeptClusters
  <2> QED
    BY <1>1, <1>8, <2>1, ClustersKept
<1> QED
  BY <1>13, <1>14, <1>15, <1>21, <1>22

-----------------------------------------------------------------------------
(* Steps of FileClose()                                                     *)

LEMMA CloseBeginsKeeps ==
  ASSUME FatInv, NEW hFile \in Handle, FileCloseWritten(hFile)
  PROVE  FatInv'
<1> USE DEF FatInv
<1>1. /\ fsOp = NoCall /\ fsOp.name = "none" /\ m_Files[hFile].bWrite
      /\ fsOp' = [name |-> "fsinfo", h |-> hFile]
      /\ UNCHANGED <<m_nNextFreeCluster, m_Files, saved, mountedHint>>
  BY CallIs DEF FileCloseWritten
<1>2. fsOp' \in CloseCall /\ fsOp'.name = "fsinfo" /\ fsOp'.h = hFile
  BY <1>1 DEF CloseCall
<1>3. PICK file \in OpenFile, t \in Title : file = m_Files[hFile] /\ t = file.title
  BY <1>1, FileIs DEF OpenFile
<1>4. PICK e \in Entry : /\ e = [first |-> file.nFirstCluster, size |-> file.nSize, used |-> TRUE]
                         /\ e.first = file.nFirstCluster /\ e.size = file.nSize
  <2>1. PICK e : e = [first |-> file.nFirstCluster, size |-> file.nSize, used |-> TRUE]
    OBVIOUS
  <2>2. e \in Entry /\ e.first = file.nFirstCluster /\ e.size = file.nSize
    BY <2>1 DEF Entry, OpenFile
  <2> QED
    BY <2>1, <2>2
<1>5. WrittenBack /\ Table' = Table /\ Root' = [Root EXCEPT ![t] = e] /\ Data' = Data
  <2>1. BecomesCache(MarkDirty(GetRoot(Cache), [DataOf(GetRoot(Cache)) EXCEPT ![t] = e]))
    BY <1>3, <1>4 DEF FileCloseWritten
  <2> QED
    BY <2>1, EntryWritten
<1>6. Root' \in Roots /\ Root'[t] = e /\ \A u \in Title \ {t} : Root'[u] = Root[u]
  BY <1>5 DEF FatTypes, Roots
<1>7. FatTypes'
  BY <1>1, <1>2, <1>5, <1>6, HintStays DEF FatTypes
<1>8. FilesOK'
  BY <1>1 DEF FilesOK
<1>9. CallOK'
  BY <1>1, <1>2, <1>3, <1>4, <1>6 DEF CallOK
<1>10. \A h \in Handle : Length(h)' = Length(h)
  BY <1>1, <1>2 DEF Length
<1>11. ASSUME NEW u \in Title \ {t}
       PROVE  Untouched(u)
  BY <1>1, <1>5, <1>6, <1>10 DEF Untouched
<1>12. ClustersOf(t)' = ClustersOf(t)
  <2>1. Writing(t) = {hFile} /\ FirstOf(t) = file.nFirstCluster
    BY <1>1, <1>3, OnlyWriter
  <2>2. Writing(t)' = {hFile}
    BY <1>1, <2>1 DEF Writing
  <2>3. FirstOf(t)' = file.nFirstCluster
    BY <1>1, <1>3, <2>2 DEF FirstOf
  <2> QED
    BY <1>5, <2>1, <2>3 DEF ClustersOf, Table
<1>13. PathsOK'
  <2>1. PICK touched : touched = {t}
    OBVIOUS
  <2>2. \A u \in Title \ touched :
          Untouched(u) /\ (saved'[u] = saved[u] \/ saved'[u].size = 0)
    BY <1>1, <1>11, <2>1
  <2>3. \A g \in Handle : m_Files'[g].bWrite => m_Files'[g].title \in Title
    BY <1>1, OnlyWriter
  <2>4. ASSUME NEW g \in Handle, m_Files'[g].bWrite /\ m_Files'[g].title \in touched
        PROVE  \E path : WritePath(g, path)'
    <3>1. PICK path : WritePath(g, path)
      BY <1>1, <2>4 DEF PathsOK
    <3>2. WritePath(g, path)'
      BY <1>1, <1>5, <1>10, <3>1 DEF WritePath
    <3> QED
      BY <3>2
  <2>5. \A u \in Title \cap touched : saved'[u].size # 0 => \E path : SavedPath(u, path)'
    BY <1>1, <1>3, <2>1 DEF FilesOK
  <2> QED
    BY <1>5, <2>2, <2>3, <2>4, <2>5, PathsKept
<1>14. FatOK'
  <2>1. \A u \in Title : ClustersOf(u)' = ClustersOf(u)
    BY <1>11, <1>12, KeptClusters
  <2> QED
    BY <1>1, <1>5, <2>1, ClustersKept
<1> QED
  BY <1>7, <1>8, <1>9, <1>13, <1>14

\* After the last step of Flush() the disk is what the cache shows.
LEMMA AllFlushed ==
  ASSUME FatTypes, DirtyBuffers = {}
  PROVE  \A s \in Sector : disk[s] = View(s)
<1>1. PICK c : c = Cache
  OBVIOUS
<1>2. CacheOK(c) /\ c.disk = disk /\ c.list = m_BufferList
  BY <1>1, ViewIsSeen DEF FatTypes
<1>3. \A i \in 1 .. FAT_BUFFERS : c.list[i].nSector # BUFFER_NOSECTOR => ~c.list[i].bDirty
  BY <1>2 DEF DirtyBuffers
<1>4. ASSUME NEW s \in Sector
      PROVE  disk[s] = Seen(c, s)
  <2>1. CASE \E i \in 1 .. FAT_BUFFERS : c.list[i].nSector = s
    <3>1. PICK i \in 1 .. FAT_BUFFERS : c.list[i].nSector = s
      BY <2>1
    <3>2. c.disk[s] = c.list[i].Data
      BY <1>2, <1>3, <3>1, Numbers DEF CacheOK, Clean
    <3> QED
      BY <1>2, <3>1, <3>2, SeenIs
  <2>2. CASE \A i \in 1 .. FAT_BUFFERS : c.list[i].nSector # s
    BY <1>2, <2>2, SeenIs
  <2> QED
    BY <2>1, <2>2
<1> QED
  BY <1>1, <1>4, ViewIsSeen

LEMMA CloseEndsKeeps ==
  ASSUME FatInv, CloseEnds, fsOp.h # 0
  PROVE  FatInv'
<1> USE DEF FatInv
<1>1. /\ fsOp.name = "flush" /\ DirtyBuffers = {} /\ fsOp' = NoCall
      /\ UNCHANGED <<disk, m_BufferList, m_nNextFreeCluster, mountedHint>>
  BY DEF CloseEnds
<1>2. fsOp \in CloseCall /\ m_Files[fsOp.h].bWrite
  BY <1>1, CallIs DEF CallOK
<1>3. PICK h \in Handle : h = fsOp.h
  BY <1>2 DEF CloseCall
<1>4. PICK file \in OpenFile, t \in Title : file = m_Files[h] /\ t = file.title
  BY <1>2, <1>3, FileIs DEF OpenFile
<1>5. PICK e \in [size : Nat, version : AnyVersion \cup {"none"}] :
        /\ saved' = [saved EXCEPT ![t] = e]
        /\ e.size = file.nSize /\ e.version = file.version
  <2>1. PICK e : e = [size |-> file.nSize, version |-> file.version]
    OBVIOUS
  <2>2. e \in [size : Nat, version : AnyVersion \cup {"none"}]
    BY <2>1 DEF OpenFile
  <2>3. saved' = [saved EXCEPT ![t] = e]
    BY <1>3, <1>4, <2>1 DEF CloseEnds
  <2> QED
    BY <2>1, <2>2, <2>3
<1>6. /\ saved' \in [Title -> [size : Nat, version : AnyVersion \cup {"none"}]]
      /\ saved'[t] = e /\ \A u \in Title \ {t} : saved'[u] = saved[u]
  BY <1>5 DEF FatTypes
<1>7. m_Files' = [m_Files EXCEPT ![h] = NotOpen]
  BY <1>3 DEF CloseEnds
<1>8. /\ m_Files' \in [Handle -> OpenFile \cup ReadFile \cup {NotOpen}] /\ ~m_Files'[h].bWrite
      /\ \A g \in Handle \ {h} : m_Files'[g] = m_Files[g]
  BY <1>7 DEF FatTypes, NotOpen
<1>9. WrittenBack /\ Table' = Table /\ Root' = Root /\ Data' = Data
  BY <1>1, CacheNotUsed
<1>10. FatTypes'
  BY <1>1, <1>6, <1>8, <1>9, HintStays DEF FatTypes
<1>11. \A g \in Handle : m_Files[g].bWrite /\ m_Files[g].title = t => g = h
  BY <1>2, <1>3, <1>4 DEF FilesOK
<1>12. FilesOK'
  <2>1. ASSUME NEW g \in Handle, m_Files'[g].bWrite
        PROVE  saved'[m_Files'[g].title].size = 0
    <3>1. g # h /\ m_Files'[g] = m_Files[g]
      BY <1>8, <2>1
    <3>2. m_Files[g].title \in Title \ {t}
      BY <1>11, <2>1, <3>1, OnlyWriter
    <3> QED
      BY <1>6, <2>1, <3>1, <3>2 DEF FilesOK
  <2> QED
    BY <1>8, <2>1 DEF FilesOK
<1>13. CallOK'
  BY <1>1 DEF CallOK, NoCall
<1>14. ASSUME NEW u \in Title \ {t}
       PROVE  Untouched(u)
  <2>1. ASSUME NEW g \in Handle,
               (m_Files[g].bWrite /\ m_Files[g].title = u) \/ (m_Files'[g].bWrite /\ m_Files'[g].title = u)
        PROVE  m_Files'[g] = m_Files[g] /\ Length(g)' = Length(g)
    <3>1. g # h
      BY <1>4, <1>8, <2>1
    <3>2. m_Files'[g] = m_Files[g]
      BY <1>8, <3>1
    <3> QED
      BY <1>1, <3>2 DEF Length, NoCall
  <2> QED
    BY <1>9, <2>1 DEF Untouched
<1>15. Root[t].first = file.nFirstCluster /\ Root[t].size = file.nSize
  BY <1>1, <1>3, <1>4 DEF CallOK
<1>16. ClustersOf(t)' = ClustersOf(t)
  <2>1. FirstOf(t) = file.nFirstCluster
    BY <1>2, <1>3, <1>4, OnlyWriter
  <2>2. Writing(t)' = {}
    BY <1>8, <1>11 DEF Writing
  <2>3. FirstOf(t)' = file.nFirstCluster
    BY <1>9, <1>15, <2>2 DEF FirstOf, Root
  <2> QED
    BY <1>9, <2>1, <2>3 DEF ClustersOf, Table
<1>17. ASSUME e.size # 0
       PROVE  \E path : SavedPath(t, path)'
  <2>1. PICK path : WritePath(h, path)
    BY <1>2, <1>3 DEF PathsOK
  <2>2. PICK k \in Nat : k = e.size /\ k # 0
    BY <1>17
  <2>3. Length(h) = k
    BY <1>1, <1>4, <1>5, <2>2 DEF Length
  <2>4. /\ path \in [1 .. k -> Cluster] /\ path[1] = file.nFirstCluster
        /\ \A i \in 1 .. k - 1 : Table[path[i]] = path[i + 1]
        /\ \A i \in 1 .. k : Data[path[i]] = <<t, e.version, i>>
    BY <1>4, <1>5, <2>1, <2>2, <2>3 DEF WritePath
  <2>5. /\ disk'[RootSector] = Root /\ disk'[FATSector] = Table
        /\ \A n \in Cluster : disk'[n] = Data[n]
    BY <1>1, AllFlushed, Numbers DEF Root, Table, Data
  <2>6. \A i \in 1 .. k : disk'[path[i]] = <<t, e.version, i>>
    BY <2>4, <2>5
  <2>7. Root[t].first = path[1] /\ Root[t].size = k
    BY <1>5, <1>15, <2>2, <2>4
  <2>8. SavedPath(t, path)'
    BY <1>6, <1>9, <2>2, <2>4, <2>5, <2>6, <2>7 DEF SavedPath
  <2> QED
    BY <2>8
<1>18. PathsOK'
  <2>1. PICK touched : touched = {t}
    OBVIOUS
  <2>2. \A u \in Title \ touched :
          Untouched(u) /\ (saved'[u] = saved[u] \/ saved'[u].size = 0)
    BY <1>6, <1>14, <2>1
  <2>3. \A g \in Handle : m_Files'[g].bWrite => m_Files'[g].title \in Title
    BY <1>8, OnlyWriter
  <2>4. ASSUME NEW g \in Handle, m_Files'[g].bWrite /\ m_Files'[g].title \in touched
        PROVE  \E path : WritePath(g, path)'
    BY <1>8, <1>11, <2>1, <2>4
  <2>5. \A u \in Title \cap touched : saved'[u].size # 0 => \E path : SavedPath(u, path)'
    BY <1>6, <1>17, <2>1
  <2> QED
    BY <1>9, <2>2, <2>3, <2>4, <2>5, PathsKept
<1>19. FatOK'
  <2>1. \A u \in Title : ClustersOf(u)' = ClustersOf(u)
    BY <1>14, <1>16, KeptClusters
  <2> QED
    BY <1>1, <1>9, <2>1, ClustersKept
<1> QED
  BY <1>10, <1>12, <1>13, <1>18, <1>19


-----------------------------------------------------------------------------
(* All steps together                                                       *)

\* Nothing is open, the cache is empty, and all clusters are free.
LEMMA InitiallySound ==
  ASSUME FatInit
  PROVE  FatInv
<1> DEFINE Formatted(hint, s) ==
             CASE s = FSInfoSector -> hint
               [] s = FATSector -> [n \in Cluster |-> 0]
               [] s = RootSector -> [t \in Title |-> NoEntry]
               [] OTHER -> <<>>
<1>a. PICK hint \in Cluster : /\ disk = [s \in Sector |-> Formatted(hint, s)]
                              /\ m_nNextFreeCluster = hint /\ mountedHint = hint
  BY HintsAssumption DEF FatInit, HintsAssumption, Sector
<1>1. /\ DOMAIN disk = Sector /\ disk = [s \in Sector |-> disk[s]]
      /\ disk[FSInfoSector] = hint /\ disk[FATSector] = [n \in Cluster |-> 0]
      /\ disk[RootSector] = [t \in Title |-> NoEntry]
      /\ \A s \in Sector \ {FSInfoSector, FATSector, RootSector} : disk[s] = <<>>
  <2>1. disk = [s \in Sector |-> disk[s]] /\ \A s \in Sector : disk[s] = Formatted(hint, s)
    BY <1>a
  <2> QED
    BY <2>1, Numbers
<1>2. /\ m_BufferList = [i \in 1 .. FAT_BUFFERS |-> NoBuffer]
      /\ m_Files = [h \in Handle |-> NotOpen]
      /\ fsOp = NoCall /\ fsOp.name = "none"
      /\ saved = [t \in Title |-> NotSaved]
      /\ \A h \in Handle : ~m_Files[h].bWrite
      /\ \A t \in Title : saved[t].size = 0
  BY DEF FatInit, NothingOpen, NotOpen, NotSaved, NoCall
<1>3. PICK fat \in FATs, root \in Roots :
        fat = [n \in Cluster |-> 0] /\ root = [t \in Title |-> NoEntry]
  BY DEF FATs, Roots, NoEntry, Entry
<1>4. disk \in [Sector -> Content]
  <2>1. hint \in Content /\ fat \in Content /\ root \in Content /\ <<>> \in Content
    BY Writable DEF Content
  <2>2. \A s \in Sector : disk[s] \in Content
    BY <1>1, <1>3, <2>1, Numbers
  <2> QED
    BY <1>1, <2>2
<1>5. NoBuffer \in Buffer /\ NoBuffer.nSector = BUFFER_NOSECTOR
  BY DEF NoBuffer, Buffer, Content
<1>6. /\ m_BufferList \in Seq(Buffer) /\ Len(m_BufferList) = FAT_BUFFERS
      /\ \A i \in 1 .. FAT_BUFFERS : m_BufferList[i].nSector = BUFFER_NOSECTOR
  <2>1. m_BufferList \in [1 .. FAT_BUFFERS -> Buffer]
    BY <1>2, <1>5
  <2> QED
    BY <1>2, <1>5, <2>1, Numbers
<1>7. CacheOK(Cache)
  BY <1>4, <1>6 DEF CacheOK, Cached, Clean, Cache
<1>8. \A s \in Sector : View(s) = disk[s]
  BY <1>6, <1>7, ViewIsSeen, SeenIs, Numbers
<1>9. Table = fat /\ Root = root /\ View(FSInfoSector) = hint /\ hint \in Hint
  BY <1>1, <1>3, <1>8, Numbers, Writable DEF Table, Root
<1>10. FatTypes
  BY <1>a, <1>1, <1>2, <1>3, <1>7, <1>9 DEF FatTypes, NotSaved
<1>11. FilesOK /\ CallOK /\ PathsOK
  BY <1>2 DEF FilesOK, CallOK, PathsOK
<1>12. \A t \in Title : ClustersOf(t) = {}
  <2> SUFFICES ASSUME NEW t \in Title
               PROVE  ClustersOf(t) = {}
    OBVIOUS
  <2>1. FirstOf(t) = 0
    BY <1>2, <1>3, <1>9, NoWriter DEF NoEntry
  <2> QED
    BY <2>1, FromNull, Numbers DEF ClustersOf, ChainFrom
<1>13. \A n \in Cluster : View(FATSector)[n] = 0
  BY <1>3, <1>9 DEF Table
<1>14. FatOK
  BY <1>a, <1>12, <1>13 DEF FatOK
<1> QED
  BY <1>10, <1>11, <1>14 DEF FatInv

LEMMA StutterKeeps ==
  ASSUME FatInv, UNCHANGED fatVars
  PROVE  FatInv'
<1> USE DEF FatInv
<1>1. UNCHANGED <<disk, m_BufferList, m_nNextFreeCluster, m_Files, fsOp, saved, mountedHint>>
  BY DEF fatVars
<1>2. WrittenBack /\ Table' = Table /\ Root' = Root /\ Data' = Data
  BY <1>1, CacheNotUsed
<1>3. FatTypes'
  BY <1>1, <1>2, HintStays DEF FatTypes
<1>4. \A h \in Handle : Length(h)' = Length(h)
  BY <1>1 DEF Length
<1>5. PathsOK' /\ FatOK'
  BY <1>1, <1>2, <1>4, ShownAsBefore
<1>6. FilesOK' /\ CallOK'
  BY <1>1, <1>2 DEF FilesOK, CallOK
<1> QED
  BY <1>3, <1>5, <1>6

\* The client of this module does not unmount.
ForFile == fsOp.name \in {"fsinfo", "flush"} => fsOp.h # 0

LEMMA NextKeeps ==
  ASSUME FatInv, ForFile, FatNext
  PROVE  FatInv'
<1>1. ASSUME NEW t \in Title, ~IsOpen(t), FileDelete(t)
      PROVE  FatInv'
  <2>1. PICK then : then = [name |-> "none"]
    OBVIOUS
  <2>2. then.name # "create"
    BY <2>1
  <2>3. CASE DeleteBegins(t, then)
    BY <1>1, <2>1, <2>2, <2>3, DeleteBeginsKeeps
  <2>4. CASE DeletesAtOnce(t)
    BY <1>1, <2>4, DeletesAtOnceKeeps
  <2> QED
    BY <1>1, <2>1, <2>3, <2>4 DEF FileDelete
<1>2. ASSUME NEW t \in Title, ~IsOpen(t), NEW h \in Handle, NEW v \in Version,
             FileCreate(h, t, v)
      PROVE  FatInv'
  <2>b. v \in AnyVersion
    BY DEF AnyVersion
  <2>1. ~m_Files[h].bWrite
    BY <1>2, FileIs DEF FileCreate, FirstUnused, FatInv
  <2>a. PICK then : then = [name |-> "create", h |-> h, v |-> v]
    OBVIOUS
  <2>2. /\ then \in [name : {"create"}, h : Handle, v : AnyVersion]
        /\ then = [name |-> "create", h |-> h, v |-> v] /\ then.h = h
    BY <2>a, <2>b
  <2>3. CASE DeleteBegins(t, then)
    BY <1>2, <2>1, <2>2, <2>3, DeleteBeginsKeeps
  <2>4. CASE ~DeleteBegins(t, then)
    <3>1. /\ fsOp = NoCall /\ TheRoot[t].first = 0 /\ fsOp' = fsOp
          /\ BecomesCache(MarkDirty(GetRoot(Cache), [DataOf(GetRoot(Cache)) EXCEPT ![t] = Created]))
          /\ m_Files' = Opened(h, t, v) /\ saved' = [saved EXCEPT ![t] = NotSaved]
          /\ UNCHANGED <<m_nNextFreeCluster, mountedHint>>
      BY <1>2, <2>2, <2>4 DEF FileCreate
    <3>2. Root[t].first = 0
      BY <3>1, Gets DEF FatInv, FatTypes
    <3> QED
      BY <1>2, <2>1, <2>b, <3>1, <3>2, CreateKeeps
  <2> QED
    BY <2>3, <2>4
<1>3. ASSUME NEW h \in Handle, NEW n \in 1 .. MaxSectors, FileWrite(h, n)
      PROVE  FatInv'
  <2>1. n \in Int
    OBVIOUS
  <2> QED
    BY <1>3, <2>1, FileWriteKeeps
<1>4. ASSUME NEW h \in Handle, FileCloseWritten(h)
      PROVE  FatInv'
  BY <1>4, CloseBeginsKeeps
<1>5. CASE FsStep
  BY <1>5, DeleteEndsKeeps, WriteAllocatesKeeps, WriteFailsKeeps, WriteFillsKeeps,
     UpdateFSInfoKeeps, FlushKeeps DEF FsStep
<1>6. CASE CloseEnds
  <2>1. fsOp.h # 0
    BY <1>6 DEF CloseEnds, ForFile
  <2> QED
    BY <1>6, <2>1, CloseEndsKeeps
<1>7. \A t \in Title \ {u \in Title : IsOpen(u)} : ~IsOpen(t)
  OBVIOUS
<1> QED
  BY <1>1, <1>2, <1>3, <1>4, <1>5, <1>6, <1>7 DEF FatNext

LEMMA FileStays ==
  ASSUME FatInv, ForFile, [FatNext]_fatVars
  PROVE  ForFile'
<1>1. NoCall.name = "none" /\ \A h \in Handle : h # 0
  BY FatAssumption DEF NoCall, FatAssumption
<1>2. CASE fsOp' = fsOp
  BY <1>2 DEF ForFile
<1>3. CASE fsOp' = NoCall
  BY <1>1, <1>3 DEF ForFile
<1>4. CASE UpdateFSInfo
  <2>1. fsOp \in CloseCall /\ fsOp.name = "fsinfo" /\ fsOp' = [fsOp EXCEPT !.name = "flush"]
    BY <1>4, CallIs DEF UpdateFSInfo, FatInv
  <2>2. fsOp'.h = fsOp.h
    BY <2>1 DEF CloseCall
  <2> QED
    BY <2>1, <2>2 DEF ForFile
<1>5. CASE WriteAllocates
  <2>1. fsOp \in WriteCall /\ fsOp.name = "allocate" /\ fsOp' = [fsOp EXCEPT !.name = "fill"]
    BY <1>5, CallIs DEF WriteAllocates, FatInv
  <2>2. fsOp'.name = "fill"
    BY <2>1 DEF WriteCall
  <2> QED
    BY <2>2 DEF ForFile
<1>6. CASE WriteFills /\ fsOp' # NoCall
  <2>1. /\ fsOp \in WriteCall /\ fsOp.name = "fill"
        /\ fsOp' = [fsOp EXCEPT !.name = "allocate", !.left = @ - 1]
    BY <1>6, CallIs DEF WriteFills, FatInv
  <2>2. fsOp'.name = "allocate"
    BY <2>1 DEF WriteCall
  <2> QED
    BY <2>2 DEF ForFile
<1>7. ASSUME NEW t, NEW then, fsOp' = [name |-> "delete", title |-> t, then |-> then]
      PROVE  ForFile'
  BY <1>7 DEF ForFile
<1>8. ASSUME NEW h, NEW n, fsOp' = [name |-> "allocate", h |-> h, left |-> n]
      PROVE  ForFile'
  BY <1>8 DEF ForFile
<1>9. ASSUME NEW h \in Handle, fsOp' = [name |-> "fsinfo", h |-> h]
      PROVE  ForFile'
  BY <1>1, <1>9 DEF ForFile
<1>10. CASE FatNext
  BY <1>2, <1>3, <1>4, <1>5, <1>6, <1>7, <1>8, <1>9, <1>10
     DEF FatNext, FileDelete, DeletesAtOnce, FileCreate, DeleteBegins, FileWrite,
         FileCloseWritten, FsStep, DeleteEnds, WriteFails, FlushStep, CloseEnds
<1>11. CASE UNCHANGED fatVars
  BY <1>2, <1>11 DEF fatVars
<1> QED
  BY <1>10, <1>11

LEMMA FatSound == FatSpec => [](FatInv /\ ForFile)
<1>1. FatInit => FatInv /\ ForFile
  BY InitiallySound DEF FatInit, NothingOpen, ForFile, NoCall
<1>2. FatInv /\ ForFile /\ [FatNext]_fatVars => (FatInv /\ ForFile)'
  BY NextKeeps, StutterKeeps, FileStays
<1> QED
  BY <1>1, <1>2, PTL DEF FatSpec

\* No cluster is in two files, none is lost, and the search that starts at the
\* hint misses none, whatever the order of the calls and of what the cache
\* writes back (AllocateCluster(), FreeClusterChain(), FileWrite()).
THEOREM NoClusterLost == FatSpec => []FatOK
<1>1. FatInv => FatOK
  BY DEF FatInv
<1> QED
  BY <1>1, FatSound, PTL

-----------------------------------------------------------------------------
(* What a reset leaves                                                      *)

\* A path is what FileRead() finds when it follows the links one by one.
LEMMA InOrder ==
  ASSUME NEW fat, NEW first, NEW k \in Nat, NEW path \in [1 .. k -> Cluster],
         k # 0 => path[1] = first, \A i \in 1 .. k - 1 : fat[path[i]] = path[i + 1]
  PROVE  ClustersInOrder(fat, first, k) = path
<1> DEFINE Step(f, n) == IF n = 1 THEN first
                         ELSE IF f[n - 1] \in Cluster THEN fat[f[n - 1]] ELSE 0
           Follows(f) == f = [n \in 1 .. k |-> Step(f, n)]
<1>1. ClustersInOrder(fat, first, k) = CHOOSE f : Follows(f)
  BY DEF ClustersInOrder
<1>2. Follows(path)
  <2> SUFFICES ASSUME NEW n \in 1 .. k
               PROVE  path[n] = Step(path, n)
    OBVIOUS
  <2>1. CASE n = 1
    BY <2>1
  <2>2. CASE n # 1
    <3>1. n - 1 \in 1 .. k - 1 /\ n - 1 \in 1 .. k /\ (n - 1) + 1 = n
      BY <2>2
    <3> QED
      BY <2>2, <3>1
  <2> QED
    BY <2>1, <2>2
<1>3. PICK f : f = ClustersInOrder(fat, first, k) /\ Follows(f)
  BY <1>1, <1>2
<1> DEFINE Bad == {i \in 1 .. k : f[i] # path[i]}
<1>4. ASSUME Bad # {}
      PROVE  FALSE
  <2>1. Bad \subseteq Nat
    OBVIOUS
  <2>2. PICK i \in Bad : \A j \in Bad : i <= j
    <3> HIDE DEF Bad
    <3> QED
      BY <1>4, <2>1, FirstFound
  <2>3. i \in 1 .. k /\ f[i] = Step(f, i) /\ path[i] = Step(path, i)
    BY <1>2, <1>3, <2>2
  <2>4. i # 1
    BY <2>2, <2>3
  <2>5. i - 1 \in 1 .. k /\ i - 1 \notin Bad
    <3>1. i - 1 \in 1 .. k /\ ~(i <= i - 1)
      BY <2>3, <2>4
    <3> HIDE DEF Bad
    <3> QED
      BY <2>2, <3>1
  <2>6. f[i - 1] = path[i - 1]
    BY <2>5
  <2> QED
    BY <2>2, <2>3, <2>6
<1>5. f = path
  <2>1. f = [n \in 1 .. k |-> f[n]]
    BY <1>3
  <2>2. \A n \in 1 .. k : f[n] = path[n]
    BY <1>4
  <2> QED
    BY <2>1, <2>2
<1> QED
  BY <1>3, <1>5

\* A closed file is on the disk as it was written.
LEMMA SavedIsOnDisk ==
  ASSUME FatInv, NEW t \in Title, saved[t].size # 0
  PROVE  OnDisk(t) = Contents(t, saved[t].version, saved[t].size)
<1>1. PICK path : SavedPath(t, path)
  BY DEF FatInv, PathsOK
<1>2. PICK k, v : k \in Nat /\ k = saved[t].size /\ v = saved[t].version
  BY DEF FatInv, FatTypes
<1>3. PICK fat, first : fat = disk[FATSector] /\ first = disk[RootSector][t].first
  OBVIOUS
<1>4. /\ path \in [1 .. k -> Cluster] /\ path[1] = first
      /\ disk[RootSector][t].size = k
      /\ \A i \in 1 .. k - 1 : fat[path[i]] = path[i + 1]
      /\ \A i \in 1 .. k : disk[path[i]] = <<t, v, i>>
  BY <1>1, <1>2, <1>3 DEF SavedPath
<1>5. ClustersInOrder(fat, first, k) = path
  BY <1>2, <1>4, InOrder
<1>6. OnDisk(t) = [n \in 1 .. k |-> IF path[n] \in Cluster THEN disk[path[n]] ELSE <<>>]
  BY <1>3, <1>4, <1>5 DEF OnDisk
<1> QED
  BY <1>2, <1>4, <1>6 DEF Contents

\* A file that was closed is on the disk, whole, until it is created anew or
\* deleted: a reset at any moment, between any two sectors that the cache or
\* Flush() writes for other files, leaves it as it was (FileClose(), Flush()).
THEOREM ClosedFilesSurvive == FatSpec => []SavedFilesSurvive
<1>1. FatInv => SavedFilesSurvive
  BY SavedIsOnDisk DEF SavedFilesSurvive
<1> QED
  BY <1>1, FatSound, PTL

=============================================================================
