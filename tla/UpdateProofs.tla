---------------------------- MODULE UpdateProofs ----------------------------
(***************************************************************************)
(* Proofs about the firmware update, for any number of clusters, buffers and *)
(* handles, and firmware of any size, also if it does not fit on the card:   *)
(* whatever fails and whenever the watchdog resets the system, a firmware is *)
(* on the card or both are in the buffers, and a save that is said to have    *)
(* succeeded is on the card.                                                 *)
(***************************************************************************)
EXTENDS FatProofs

-----------------------------------------------------------------------------
(* What the update does to the card besides: it mounts it and reads a file.   *)

\* The files that are written and all that is shown stay as they are; a search
\* may start anew where it was told to.
LEMMA ReaderKeeps ==
  ASSUME FatInv, WrittenBack, Table' = Table, Root' = Root, Data' = Data, saved' = saved,
         \/ UNCHANGED <<m_nNextFreeCluster, mountedHint>>
         \/ m_nNextFreeCluster' = mountedHint' /\ mountedHint' \in Hint,
         m_Files' \in [Handle -> OpenFile \cup ReadFile \cup {NotOpen}],
         \A h \in Handle :
           m_Files'[h] = m_Files[h] \/ (~m_Files[h].bWrite /\ ~m_Files'[h].bWrite),
         fsOp.name # "fill",
         fsOp' \in {NoCall} \cup ReadCall \cup [name : {"fsinfo", "flush"}, h : {0}]
  PROVE  FatInv'
<1> USE DEF FatInv
<1>1. /\ fsOp'.name \notin {"fill", "allocate", "delete"}
      /\ fsOp'.name \in {"fsinfo", "flush"} => fsOp'.h = 0
  BY DEF NoCall, ReadCall
<1>2. \A h \in Handle : m_Files'[h] = m_Files[h] => Length(h)' = Length(h)
  BY <1>1 DEF Length
<1>3. \A t \in Title : Untouched(t)
  BY <1>2 DEF Untouched
<1>4. \A t \in Title : ClustersOf(t)' = ClustersOf(t)
  BY <1>3, KeptClusters
<1>5. FatOK'
  <2>1. CASE UNCHANGED <<m_nNextFreeCluster, mountedHint>>
    BY <1>4, <2>1, ClustersKept
  <2>2. CASE m_nNextFreeCluster' = mountedHint'
    <3>1. \A t, u \in Title : t # u => ClustersOf(t)' \cap ClustersOf(u)' = {}
      BY <1>4 DEF FatOK
    <3>2. UNION {ClustersOf(t)' : t \in Title} = UNION {ClustersOf(t) : t \in Title}
      BY <1>4
    <3>3. {n \in Cluster : Table'[n] # 0} = UNION {ClustersOf(t)' : t \in Title}
      BY <3>2 DEF FatOK, Table
    <3> QED
      BY <2>2, <3>1, <3>3 DEF FatOK, Table
  <2> QED
    BY <2>1, <2>2
<1>6. \A h \in Handle : m_Files'[h].bWrite => m_Files'[h].title \in Title
  BY OnlyWriter
<1>7. PathsOK'
  <2>1. PICK touched : touched = {}
    OBVIOUS
  <2>2. \A t \in Title \ touched :
          Untouched(t) /\ (saved'[t] = saved[t] \/ saved'[t].size = 0)
    BY <1>3
  <2>3. \A h \in Handle : m_Files'[h].bWrite /\ m_Files'[h].title \in touched =>
          \E path : WritePath(h, path)'
    BY <2>1
  <2>4. \A t \in Title \cap touched : saved'[t].size # 0 => \E path : SavedPath(t, path)'
    BY <2>1
  <2> QED
    BY <1>6, <2>2, <2>3, <2>4, PathsKept
<1>8. fsOp' \in {NoCall} \cup DeleteCall \cup WriteCall \cup CloseCall \cup ReadCall
  BY DEF CloseCall
<1>9. FatTypes'
  BY <1>8, HintStays DEF FatTypes
<1>10. FilesOK'
  BY DEF FilesOK
<1>11. CallOK'
  BY <1>1 DEF CallOK
<1> QED
  BY <1>5, <1>7, <1>9, <1>10, <1>11

\* A cache in which nothing is yet
LEMMA EmptyCache ==
  ASSUME NEW d \in [Sector -> Content], NEW c,
         c = [list |-> [i \in 1 .. FAT_BUFFERS |-> NoBuffer], disk |-> d]
  PROVE  CacheOK(c) /\ c.disk = d /\ \A s \in Sector : Seen(c, s) = d[s]
<1>1. NoBuffer \in Buffer /\ NoBuffer.nSector = BUFFER_NOSECTOR
  BY DEF NoBuffer, Buffer, Content
<1>2. /\ c.disk = d /\ c.list \in [1 .. FAT_BUFFERS -> Buffer]
      /\ \A i \in 1 .. FAT_BUFFERS : c.list[i].nSector = BUFFER_NOSECTOR
  BY <1>1
<1>3. c.list \in Seq(Buffer) /\ Len(c.list) = FAT_BUFFERS
  BY <1>2, Numbers
<1>4. c \in [list : Seq(Buffer), disk : [Sector -> Content]]
  BY <1>2, <1>3
<1>5. CacheOK(c)
  BY <1>2, <1>3, <1>4 DEF CacheOK, Cached, Clean
<1>6. \A s \in Sector : Seen(c, s) = d[s]
  BY <1>2, <1>5, SeenIs, Numbers
<1> QED
  BY <1>2, <1>5, <1>6

\* A sector that is read when nothing is dirty
LEMMA ReadThrough ==
  ASSUME NEW c, CacheOK(c), \A r \in Sector : Seen(c, r) = c.disk[r],
         NEW s \in Sector, NEW d, d = FreeData(ForReading(c, s))
  PROVE  CacheOK(d) /\ d.disk = c.disk /\ \A r \in Sector : Seen(d, r) = d.disk[r]
<1>1. PICK e : e = ForReading(c, s)
  OBVIOUS
<1>2. /\ CacheOK(e) /\ \A r \in Sector : Seen(e, r) = Seen(c, r)
      /\ \A r \in Sector : e.disk[r] = c.disk[r] \/ e.disk[r] = Seen(c, r)
  BY <1>1, Got
<1>3. c.disk \in [Sector -> Content] /\ e.disk \in [Sector -> Content]
  BY <1>2 DEF CacheOK, Cached
<1>4. e.disk = c.disk
  BY <1>2, <1>3
<1>5. d = FreeData(e)
  BY <1>1
<1>6. CacheOK(d) /\ d.disk = e.disk /\ \A r \in Sector : Seen(d, r) = Seen(e, r)
  BY <1>2, <1>5, FreeDataSame
<1> QED
  BY <1>2, <1>4, <1>6

\* The card is mounted when nothing is open and nothing is dirty.
LEMMA MountKeeps ==
  ASSUME FatInv, fsOp = NoCall, \A h \in Handle : ~m_Files[h].bWrite, DirtyBuffers = {},
         BecomesCache(Mounted), m_Files' = [h \in Handle |-> NotOpen],
         m_nNextFreeCluster' = disk[FSInfoSector], mountedHint' = disk[FSInfoSector],
         UNCHANGED <<fsOp, saved>>
  PROVE  FatInv'
<1> DEFINE empty == [list |-> [i \in 1 .. FAT_BUFFERS |-> NoBuffer], disk |-> disk]
           one == FreeData(GetSector(empty, FSInfoSector, FALSE))
           two == FreeData(GetSector(one, ClusterCount + 1, FALSE))
<1>1. Mounted = two
  BY DEF Mounted
<1>2. disk \in [Sector -> Content]
  BY DEF FatInv, FatTypes, CacheOK, Cached, Cache
<1>3. PICK c : c = empty
  OBVIOUS
<1>4. CacheOK(c) /\ c.disk = disk /\ \A s \in Sector : Seen(c, s) = c.disk[s]
  BY <1>2, <1>3, EmptyCache
<1>5. PICK d : d = one
  OBVIOUS
<1>6. d = FreeData(ForReading(c, FSInfoSector))
  BY <1>3, <1>5 DEF ForReading
<1>7. CacheOK(d) /\ d.disk = c.disk /\ \A s \in Sector : Seen(d, s) = d.disk[s]
  <2>1. PICK s \in Sector : s = FSInfoSector
    BY Numbers
  <2>2. d = FreeData(ForReading(c, s))
    BY <1>6, <2>1
  <2> QED
    BY <1>4, <2>2, ReadThrough
<1>8. PICK e : e = two
  OBVIOUS
<1>9. e = FreeData(ForReading(d, ClusterCount + 1))
  BY <1>5, <1>8 DEF ForReading
<1>10. ClusterCount + 1 \in Sector
  BY Numbers DEF Sector
<1>11. CacheOK(e) /\ e.disk = disk /\ \A s \in Sector : Seen(e, s) = disk[s]
  <2>1. PICK s \in Sector : s = ClusterCount + 1
    BY <1>10
  <2>2. e = FreeData(ForReading(d, s))
    BY <1>9, <2>1
  <2>3. CacheOK(e) /\ e.disk = d.disk /\ \A r \in Sector : Seen(e, r) = e.disk[r]
    BY <1>7, <2>2, ReadThrough
  <2> QED
    BY <1>4, <1>7, <2>3
<1>12. BecomesCache(e)
  BY <1>1, <1>8
<1>13. \A s \in Sector : Seen(e, s) = View(s)
  BY <1>11, AllFlushed DEF FatInv
<1> HIDE DEF empty, one, two
<1>14. /\ WrittenBack /\ Table' = Seen(e, FATSector) /\ Root' = Seen(e, RootSector)
       /\ Data' = [n \in Cluster |-> Seen(e, n)]
  BY <1>11, <1>12, <1>13, Becomes, Numbers DEF FatInv, FatTypes
<1>15. Table' = Table /\ Root' = Root /\ Data' = Data
  BY <1>13, <1>14, Numbers DEF Table, Root, Data
<1>16. m_Files' \in [Handle -> OpenFile \cup ReadFile \cup {NotOpen}] /\ ~NotOpen.bWrite
  BY DEF NotOpen
<1>17. \A h \in Handle : ~m_Files'[h].bWrite
  BY <1>16
<1>18. disk[FSInfoSector] \in Hint /\ fsOp.name # "fill"
  BY DEF FatInv, FatTypes, NoCall
<1> QED
  BY <1>14, <1>15, <1>16, <1>17, <1>18, ReaderKeeps

LEMMA FileOpenKeeps ==
  ASSUME FatInv, NEW hFile \in Handle, NEW t \in Title, FileOpen(hFile, t)
  PROVE  /\ FatInv' /\ Table' = Table /\ Root' = Root /\ Data' = Data
         /\ m_Files'[hFile] = [open |-> TRUE, bWrite |-> FALSE, title |-> t, nOffset |-> 0,
                               nSize |-> Root[t].size, nCluster |-> Root[t].first]
         /\ m_Files'[hFile] \in ReadFile /\ \A h \in Handle \ {hFile} : m_Files'[h] = m_Files[h]
<1>1. /\ fsOp = NoCall /\ ~m_Files[hFile].open /\ BecomesCache(GetRoot(Cache))
      /\ UNCHANGED <<m_nNextFreeCluster, fsOp, saved, mountedHint>>
  BY DEF FileOpen, FirstUnused
<1>2. WrittenBack /\ Table' = Table /\ Root' = Root /\ Data' = Data
  BY <1>1, NothingWritten DEF FatInv
<1>3. PICK file : file = [open |-> TRUE, bWrite |-> FALSE, title |-> t, nOffset |-> 0,
                          nSize |-> Root[t].size, nCluster |-> Root[t].first]
  OBVIOUS
<1>4. m_Files' = [m_Files EXCEPT ![hFile] = file]
  BY <1>3, Gets DEF FatInv, FatTypes, FileOpen
<1>5. Root[t].size \in Nat /\ Root[t].first \in Nat
  <2>1. Root[t] \in Entry
    BY DEF FatInv, FatTypes, Roots
  <2>2. Root[t].size \in Nat /\ Root[t].first \in Cluster \cup {0}
    BY <2>1 DEF Entry
  <2>3. Cluster \subseteq Nat /\ 0 \in Nat
    BY Numbers
  <2>4. Cluster \cup {0} \subseteq Nat
    BY <2>3
  <2> QED
    BY <2>2, <2>4
<1>6. file \in ReadFile /\ ~file.bWrite
  BY <1>3, <1>5 DEF ReadFile
<1>7. /\ m_Files' \in [Handle -> OpenFile \cup ReadFile \cup {NotOpen}] /\ m_Files'[hFile] = file
      /\ \A h \in Handle \ {hFile} : m_Files'[h] = m_Files[h]
  BY <1>4, <1>6 DEF FatInv, FatTypes
<1>8. ~m_Files[hFile].bWrite
  BY <1>1, FileIs DEF FatInv
<1>9. fsOp' = NoCall /\ fsOp.name # "fill"
  BY <1>1 DEF NoCall
<1>10. FatInv'
  BY <1>1, <1>2, <1>6, <1>7, <1>8, <1>9, ReaderKeeps
<1> QED
  BY <1>2, <1>3, <1>6, <1>7, <1>10

\* The cluster of the next sector is looked up, where the table has one.
LEMMA FileReadKeeps ==
  ASSUME FatInv, NEW hFile \in Handle, FileRead(hFile),
         m_Files[hFile].nOffset # 0 => m_Files[hFile].nCluster \in Cluster
  PROVE  /\ FatInv' /\ Table' = Table /\ Root' = Root /\ Data' = Data
         /\ m_Files'[hFile] = [m_Files[hFile] EXCEPT !.nCluster =
                                 IF m_Files[hFile].nOffset = 0 THEN @ ELSE Table[@]]
         /\ m_Files'[hFile] \in ReadFile /\ \A h \in Handle \ {hFile} : m_Files'[h] = m_Files[h]
<1>1. PICK file : file = m_Files[hFile]
  OBVIOUS
<1>2. /\ fsOp = NoCall /\ file.open /\ ~file.bWrite /\ fsOp' = [name |-> "read", h |-> hFile]
      /\ UNCHANGED <<m_nNextFreeCluster, saved, mountedHint>>
  BY <1>1 DEF FileRead
<1>3. file \in ReadFile
  BY <1>1, <1>2, FileIs DEF FatInv
<1>4. WrittenBack /\ Table' = Table /\ Root' = Root /\ Data' = Data
  BY <1>1, NothingWritten, CacheNotUsed DEF FatInv, FileRead
<1>5. PICK new : new = [file EXCEPT !.nCluster = IF file.nOffset = 0 THEN @ ELSE Table[@]]
  OBVIOUS
<1>6. m_Files' = [m_Files EXCEPT ![hFile] = new]
  <2>1. CASE file.nOffset = 0
    <3>1. m_Files' = m_Files
      BY <1>1, <2>1 DEF FileRead
    <3>2. new = file
      BY <1>3, <1>5, <2>1 DEF ReadFile
    <3> QED
      BY <1>1, <3>1, <3>2 DEF FatInv, FatTypes
  <2>2. CASE file.nOffset # 0
    <3>1. m_Files' = [m_Files EXCEPT ![hFile].nCluster = Table[@]]
      BY <1>1, <2>2, Gets DEF FileRead, FatInv, FatTypes
    <3> QED
      BY <1>1, <1>5, <2>2, <3>1
  <2> QED
    BY <2>1, <2>2
<1>7. file.nOffset # 0 => Table[file.nCluster] \in Nat
  <2>1. EOC \in Nat /\ Cluster \subseteq Nat
    BY Numbers DEF EOC
  <2>2. \A n \in Cluster : Table[n] \in Cluster \cup {0, EOC}
    BY DEF FatInv, FatTypes, FATs
  <2>3. 0 \in Nat
    OBVIOUS
  <2>4. Cluster \cup {0, EOC} \subseteq Nat
    BY <2>1, <2>3
  <2> QED
    BY <1>1, <2>2, <2>4
<1>8. new \in ReadFile /\ ~new.bWrite
  BY <1>3, <1>5, <1>7 DEF ReadFile
<1>9. /\ m_Files' \in [Handle -> OpenFile \cup ReadFile \cup {NotOpen}] /\ m_Files'[hFile] = new
      /\ \A h \in Handle \ {hFile} : m_Files'[h] = m_Files[h]
  BY <1>6, <1>8 DEF FatInv, FatTypes
<1>10. fsOp' \in ReadCall /\ fsOp.name # "fill"
  BY <1>2 DEF ReadCall, NoCall
<1>11. FatInv'
  BY <1>1, <1>2, <1>4, <1>8, <1>9, <1>10, ReaderKeeps
<1> QED
  BY <1>1, <1>4, <1>5, <1>8, <1>9, <1>11

LEMMA ReadEndsKeeps ==
  ASSUME FatInv, ReadEnds, m_Files[fsOp.h] \in ReadFile
  PROVE  /\ FatInv' /\ Table' = Table /\ Root' = Root /\ Data' = Data
         /\ SectorRead = Data[m_Files[fsOp.h].nCluster]
         /\ m_Files'[fsOp.h] = [m_Files[fsOp.h] EXCEPT !.nOffset = @ + 1]
         /\ m_Files'[fsOp.h] \in ReadFile
         /\ \A h \in Handle \ {fsOp.h} : m_Files'[h] = m_Files[h]
<1>1. /\ fsOp.name = "read" /\ fsOp \in ReadCall /\ fsOp' = NoCall
      /\ UNCHANGED <<m_nNextFreeCluster, saved, mountedHint>>
  BY CallIs DEF ReadEnds, FatInv
<1>2. PICK hFile \in Handle : hFile = fsOp.h
  BY <1>1 DEF ReadCall
<1>3. PICK file \in ReadFile : file = m_Files[hFile] /\ file.nCluster \in Cluster
  BY <1>2 DEF ReadEnds
<1>4. PICK k \in Sector : k = file.nCluster /\ k \in Cluster
  BY <1>3, Numbers
<1>5. PICK d : d = ForReading(Cache, k)
  OBVIOUS
<1>6. BecomesCache(FreeData(d)) /\ SectorRead = DataOf(d)
  BY <1>2, <1>3, <1>4, <1>5 DEF ReadEnds, SectorRead, ForReading
<1>7. WrittenBack /\ Table' = Table /\ Root' = Root /\ Data' = Data
  BY <1>5, <1>6, Reads DEF FatInv, FatTypes
<1>8. SectorRead = Data[k]
  <2>1. DataOf(d) = Seen(Cache, k)
    BY <1>5, Got DEF FatInv, FatTypes
  <2> QED
    BY <1>4, <1>6, <2>1, ViewIsSeen
<1>9. m_Files' = [m_Files EXCEPT ![hFile].nOffset = @ + 1]
  BY <1>2 DEF ReadEnds
<1>10. PICK new : new = [file EXCEPT !.nOffset = @ + 1]
  OBVIOUS
<1>11. new \in ReadFile /\ ~new.bWrite /\ ~file.bWrite
  <2>1. PICK n : n = file.nOffset
    OBVIOUS
  <2>2. n \in Nat
    BY <2>1 DEF ReadFile
  <2>3. n + 1 \in Nat
    BY <2>2
  <2>4. new = [file EXCEPT !.nOffset = n + 1]
    BY <1>10, <2>1
  <2> QED
    BY <2>3, <2>4 DEF ReadFile
<1>12. /\ m_Files' \in [Handle -> OpenFile \cup ReadFile \cup {NotOpen}] /\ m_Files'[hFile] = new
       /\ \A h \in Handle \ {hFile} : m_Files'[h] = m_Files[h]
  BY <1>3, <1>9, <1>10, <1>11 DEF FatInv, FatTypes
<1>13. FatInv'
  BY <1>1, <1>3, <1>7, <1>11, <1>12, ReaderKeeps
<1> QED
  BY <1>2, <1>3, <1>4, <1>7, <1>8, <1>10, <1>11, <1>12, <1>13

LEMMA CloseReadKeeps ==
  ASSUME FatInv, NEW hFile \in Handle, FileCloseRead(hFile)
  PROVE  /\ FatInv' /\ m_Files'[hFile] = NotOpen
         /\ \A h \in Handle \ {hFile} : m_Files'[h] = m_Files[h]
<1>1. /\ fsOp = NoCall /\ ~m_Files[hFile].bWrite
      /\ UNCHANGED <<disk, m_BufferList, m_nNextFreeCluster, fsOp, saved, mountedHint>>
  BY DEF FileCloseRead
<1>2. WrittenBack /\ Table' = Table /\ Root' = Root /\ Data' = Data
  BY <1>1, CacheNotUsed DEF FatInv
<1>3. /\ m_Files' \in [Handle -> OpenFile \cup ReadFile \cup {NotOpen}]
      /\ m_Files'[hFile] = NotOpen /\ ~NotOpen.bWrite
      /\ \A h \in Handle \ {hFile} : m_Files'[h] = m_Files[h]
  BY DEF FileCloseRead, FatInv, FatTypes, NotOpen
<1>4. fsOp' = NoCall /\ fsOp.name # "fill"
  BY <1>1 DEF NoCall
<1>5. FatInv'
  BY <1>1, <1>2, <1>3, <1>4, ReaderKeeps
<1> QED
  BY <1>3, <1>5

\* The begin and the end of UnMount(), when no call goes on but UnMount()'s own
LEMMA UnMountKeeps ==
  ASSUME FatInv, fsOp.name \in {"none", "fsinfo", "flush"},
         fsOp' \in {NoCall} \cup [name : {"fsinfo", "flush"}, h : {0}],
         UNCHANGED <<disk, m_BufferList, m_nNextFreeCluster, m_Files, saved, mountedHint>>
  PROVE  FatInv'
<1>1. WrittenBack /\ Table' = Table /\ Root' = Root /\ Data' = Data
  BY CacheNotUsed DEF FatInv
<1>2. m_Files' \in [Handle -> OpenFile \cup ReadFile \cup {NotOpen}]
  BY DEF FatInv, FatTypes
<1> QED
  BY <1>1, <1>2, ReaderKeeps

\* The card with the old firmware at its beginning
OldPath == [i \in 1 .. OldSize |-> i + 1]
OldFat == [n \in Cluster |-> IF n < OldSize + 1 THEN n + 1
                             ELSE IF n = OldSize + 1 THEN EOC ELSE 0]

LEMMA OldNumbers ==
  /\ FILENAME_KERNEL \in Title /\ 1 \in Handle
  /\ OldSize \in Nat \ {0} /\ OldSize <= ClusterCount
  /\ 2 .. OldSize + 1 \subseteq Cluster /\ 2 \in Cluster /\ OldSize + 2 \in Hint
  /\ OldPath \in [1 .. OldSize -> Cluster] /\ OldPath[1] = 2
<1>1. /\ FILENAME_KERNEL \in Title /\ 1 \in Handle
      /\ OldSize \in Nat \ {0} /\ OldSize <= ClusterCount
  BY UpdateAssumption, Numbers DEF UpdateAssumption
<1>2. 2 .. OldSize + 1 \subseteq Cluster /\ 2 \in Cluster /\ OldSize + 2 \in Hint
  BY <1>1, Numbers DEF Cluster, Hint, EOC
<1>3. OldPath \in [1 .. OldSize -> Cluster] /\ OldPath[1] = 2
  BY <1>1, <1>2 DEF OldPath
<1> QED
  BY <1>1, <1>2, <1>3

\* Its chain
LEMMA OldChain ==
  /\ OldFat \in FATs /\ From(Cluster, OldFat, 2) = 2 .. OldSize + 1
  /\ \A i \in 1 .. OldSize - 1 : OldFat[OldPath[i]] = OldPath[i + 1]
  /\ {n \in Cluster : OldFat[n] # 0} = 2 .. OldSize + 1
<1>1. \A n \in Cluster :
        /\ n < OldSize + 1 => OldFat[n] = n + 1 /\ n + 1 \in Cluster /\ n \in 2 .. OldSize
        /\ n = OldSize + 1 => OldFat[n] = EOC
        /\ n > OldSize + 1 => OldFat[n] = 0
  <2> SUFFICES ASSUME NEW n \in Cluster
               PROVE  /\ n < OldSize + 1 => OldFat[n] = n + 1 /\ n + 1 \in Cluster /\ n \in 2 .. OldSize
                      /\ n = OldSize + 1 => OldFat[n] = EOC
                      /\ n > OldSize + 1 => OldFat[n] = 0
    OBVIOUS
  <2>1. OldFat[n] = IF n < OldSize + 1 THEN n + 1 ELSE IF n = OldSize + 1 THEN EOC ELSE 0
    BY DEF OldFat
  <2>2. n \in Nat /\ OldSize \in Nat /\ n >= 2 /\ OldSize <= ClusterCount /\ ClusterCount \in Nat
    BY OldNumbers, Numbers DEF Cluster
  <2>3. n < OldSize + 1 => n + 1 \in Cluster /\ n \in 2 .. OldSize
    BY <2>2 DEF Cluster
  <2>4. n > OldSize + 1 => ~(n < OldSize + 1) /\ n # OldSize + 1
    BY <2>2
  <2>5. n = OldSize + 1 => ~(n < OldSize + 1)
    BY <2>2
  <2> QED
    BY <2>1, <2>3, <2>4, <2>5
<1>2. \A n \in Cluster : n < OldSize + 1 \/ n = OldSize + 1 \/ n > OldSize + 1
  BY OldNumbers, Numbers
<1>3. \A n \in Cluster : OldFat[n] \in Cluster \cup {0, EOC}
  BY <1>1, <1>2
<1>4. OldFat \in FATs
  <2>1. OldFat = [n \in Cluster |-> OldFat[n]]
    BY DEF OldFat
  <2> QED
    BY <1>3, <2>1 DEF FATs
<1>5. \A i \in 1 .. OldSize - 1 : OldFat[OldPath[i]] = OldPath[i + 1]
  <2> SUFFICES ASSUME NEW i \in 1 .. OldSize - 1
               PROVE  OldFat[OldPath[i]] = OldPath[i + 1]
    OBVIOUS
  <2>1. OldPath[i] = i + 1 /\ OldPath[i + 1] = i + 2
    BY OldNumbers DEF OldPath
  <2>2. i + 1 \in Cluster /\ i + 1 < OldSize + 1
    BY OldNumbers
  <2> QED
    BY <1>1, <2>1, <2>2
<1>6. ASSUME NEW n \in 2 .. OldSize + 1
      PROVE  n \in From(Cluster, OldFat, 2)
  <2>1. PICK k, path, fat : k = OldSize /\ path = OldPath /\ fat = OldFat
    OBVIOUS
  <2>2. /\ k \in Nat /\ path \in [1 .. k -> Cluster] /\ (k # 0 => path[1] = 2)
        /\ \A i \in 1 .. k - 1 : fat[path[i]] = path[i + 1]
    BY <1>5, <2>1, OldNumbers
  <2>3. \A i \in 1 .. k : path[i] \in From(Cluster, fat, 2)
    BY <2>2, PathInFrom
  <2>4. n - 1 \in 1 .. OldSize /\ OldPath[n - 1] = n
    BY OldNumbers DEF OldPath
  <2> QED
    BY <2>1, <2>3, <2>4
<1>7. From(Cluster, OldFat, 2) \subseteq 2 .. OldSize + 1
  <2>1. PICK S, fat : S \in SUBSET Cluster /\ S = 2 .. OldSize + 1 /\ fat = OldFat
    BY OldNumbers
  <2>2. 2 \in S
    BY <2>1, OldNumbers
  <2>3. ASSUME NEW n \in S, fat[n] \in Cluster
        PROVE  fat[n] \in S
    <3>1. n < OldSize + 1 \/ n = OldSize + 1
      BY <2>1, OldNumbers
    <3>2. n < OldSize + 1
      BY <1>1, <2>1, <2>3, <3>1, Numbers
    <3>3. fat[n] = n + 1
      BY <1>1, <2>1, <3>2
    <3> QED
      BY <2>1, <3>2, <3>3, OldNumbers
  <2>4. PICK T \in SUBSET Cluster : T = S
    BY <2>1
  <2>5. Closed(Cluster, fat, T)
    BY <2>3, <2>4 DEF Closed
  <2>6. From(Cluster, fat, 2) \subseteq T
    BY <2>2, <2>4, <2>5, FromIsLeast
  <2> QED
    BY <2>1, <2>4, <2>6
<1>8. {n \in Cluster : OldFat[n] # 0} = 2 .. OldSize + 1
  <2>1. ASSUME NEW n \in Cluster
        PROVE  OldFat[n] # 0 <=> n \in 2 .. OldSize + 1
    <3>1. n > OldSize + 1 <=> n \notin 2 .. OldSize + 1
      BY OldNumbers, Numbers DEF Cluster
    <3>2. EOC # 0 /\ n + 1 # 0
      BY Numbers
    <3> QED
      BY <1>1, <1>2, <3>1, <3>2
  <2> QED
    BY <2>1, OldNumbers
<1> QED
  BY <1>4, <1>5, <1>6, <1>7, <1>8

LEMMA CardSound ==
  ASSUME CardInit
  PROVE  FatInv
<1> DEFINE Booted(s) ==
      CASE s = FSInfoSector -> OldSize + 2
        [] s = FATSector -> [n \in Cluster |-> IF n < OldSize + 1 THEN n + 1
                                               ELSE IF n = OldSize + 1 THEN EOC ELSE 0]
        [] s = RootSector -> [t \in Title |->
             IF t = FILENAME_KERNEL THEN [first |-> 2, size |-> OldSize, used |-> TRUE]
             ELSE NoEntry]
        [] s \in 2 .. OldSize + 1 -> <<FILENAME_KERNEL, "old", s - 1>>
        [] OTHER -> <<>>
<1>a. /\ disk = [s \in Sector |-> Booted(s)]
      /\ m_nNextFreeCluster = OldSize + 2 /\ mountedHint = OldSize + 2
      /\ saved = [t \in Title |-> IF t = FILENAME_KERNEL
                                  THEN [size |-> OldSize, version |-> "old"] ELSE NotSaved]
  BY DEF CardInit, Sector
<1>b. PICK root : root = [t \in Title |->
             IF t = FILENAME_KERNEL THEN [first |-> 2, size |-> OldSize, used |-> TRUE]
             ELSE NoEntry]
  OBVIOUS
<1>1. /\ DOMAIN disk = Sector /\ disk = [s \in Sector |-> disk[s]]
      /\ disk[FSInfoSector] = OldSize + 2 /\ disk[FATSector] = OldFat
      /\ disk[RootSector] = root
      /\ \A s \in Cluster :
           disk[s] = IF s \in 2 .. OldSize + 1 THEN <<FILENAME_KERNEL, "old", s - 1>> ELSE <<>>
  <2>1. disk = [s \in Sector |-> disk[s]] /\ \A s \in Sector : disk[s] = Booted(s)
    BY <1>a
  <2>2. DOMAIN disk = Sector
    BY <1>a
  <2>0. /\ FSInfoSector \notin 2 .. OldSize + 1 /\ FATSector \notin 2 .. OldSize + 1
        /\ RootSector \notin 2 .. OldSize + 1
        /\ FATSector # FSInfoSector /\ RootSector # FSInfoSector /\ FATSector # RootSector
    BY OldNumbers, Numbers
  <2>3. Booted(FSInfoSector) = OldSize + 2
    BY <2>0
  <2>4. Booted(FATSector) = OldFat
    BY <2>0 DEF OldFat
  <2>5. Booted(RootSector) = root
    BY <1>b, <2>0
  <2>6. \A s \in Cluster : Booted(s) = IF s \in 2 .. OldSize + 1
                                      THEN <<FILENAME_KERNEL, "old", s - 1>> ELSE <<>>
    BY Numbers
  <2> HIDE DEF Booted
  <2> QED
    BY <2>1, <2>2, <2>3, <2>4, <2>5, <2>6, Numbers
<1> HIDE DEF Booted
<1>2. /\ m_BufferList = [i \in 1 .. FAT_BUFFERS |-> NoBuffer]
      /\ m_Files = [h \in Handle |-> NotOpen]
      /\ fsOp = NoCall /\ fsOp.name = "none"
      /\ \A h \in Handle : ~m_Files[h].bWrite
  BY DEF CardInit, NothingOpen, NotOpen, NoCall
<1>3. /\ root \in Roots /\ root[FILENAME_KERNEL].first = 2 /\ root[FILENAME_KERNEL].size = OldSize
      /\ \A t \in Title \ {FILENAME_KERNEL} : root[t].first = 0
  <2>1. [first |-> 2, size |-> OldSize, used |-> TRUE] \in Entry /\ NoEntry \in Entry
    BY OldNumbers DEF Entry, NoEntry
  <2>2. root \in Roots
    BY <1>b, <2>1 DEF Roots
  <2> QED
    BY <1>b, <2>2, OldNumbers DEF NoEntry
<1>4. disk \in [Sector -> Content]
  <2>1. OldSize + 2 \in Content /\ OldFat \in Content /\ root \in Content /\ <<>> \in Content
    BY <1>3, OldNumbers, OldChain, Writable DEF Content
  <2>2. ASSUME NEW s \in Cluster
        PROVE  disk[s] \in Content
    <3>1. CASE s \in 2 .. OldSize + 1
      <4>1. s - 1 \in Nat
        BY <3>1
      <4>2. PICK v \in AnyVersion, n \in Nat, t \in Title :
              v = "old" /\ n = s - 1 /\ t = FILENAME_KERNEL
        BY <4>1, OldNumbers DEF AnyVersion
      <4>3. <<t, v, n>> \in Content
        BY Writable
      <4> QED
        BY <1>1, <3>1, <4>2, <4>3
    <3>2. CASE s \notin 2 .. OldSize + 1
      BY <1>1, <2>1, <3>2
    <3> QED
      BY <3>1, <3>2
  <2>3. \A s \in Sector : s \in {FSInfoSector, FATSector, RootSector} \cup Cluster
    BY Numbers DEF Sector, Cluster, FSInfoSector, FATSector
  <2>4. \A s \in Sector : disk[s] \in Content
    BY <1>1, <2>1, <2>2, <2>3
  <2> QED
    BY <1>1, <2>4
<1>5. CacheOK(Cache) /\ \A s \in Sector : View(s) = disk[s]
  <2>1. PICK c : c = Cache
    OBVIOUS
  <2>2. c = [list |-> [i \in 1 .. FAT_BUFFERS |-> NoBuffer], disk |-> disk]
    BY <1>2, <2>1 DEF Cache
  <2>3. CacheOK(c) /\ \A s \in Sector : Seen(c, s) = disk[s]
    BY <1>4, <2>2, EmptyCache
  <2> QED
    BY <2>1, <2>3, ViewIsSeen
<1>6. /\ Table = OldFat /\ Root = root /\ View(FSInfoSector) = OldSize + 2
      /\ \A n \in Cluster : Data[n] = disk[n]
  BY <1>1, <1>5, Numbers DEF Table, Root, Data
<1>7. /\ saved \in [Title -> [size : Nat, version : AnyVersion \cup {"none"}]]
      /\ saved[FILENAME_KERNEL].size = OldSize /\ saved[FILENAME_KERNEL].version = "old"
      /\ \A t \in Title \ {FILENAME_KERNEL} : saved[t].size = 0
  <2>1. PICK old : old = [size |-> OldSize, version |-> "old"]
    OBVIOUS
  <2>2. /\ old \in [size : Nat, version : AnyVersion \cup {"none"}]
        /\ old.size = OldSize /\ old.version = "old"
    BY <2>1, OldNumbers DEF AnyVersion
  <2>3. NotSaved \in [size : Nat, version : AnyVersion \cup {"none"}] /\ NotSaved.size = 0
    BY DEF NotSaved
  <2>4. saved = [t \in Title |-> IF t = FILENAME_KERNEL THEN old ELSE NotSaved]
    BY <1>a, <2>1
  <2> QED
    BY <2>2, <2>3, <2>4, OldNumbers
<1>8. FatTypes
  <2>1. m_Files \in [Handle -> OpenFile \cup ReadFile \cup {NotOpen}]
    BY <1>2
  <2> QED
    BY <1>a, <1>1, <1>2, <1>3, <1>5, <1>6, <1>7, <2>1, OldNumbers, OldChain DEF FatTypes
<1>9. FilesOK /\ CallOK
  BY <1>2 DEF FilesOK, CallOK
<1>10. \A i \in 1 .. OldSize : /\ Data[OldPath[i]] = <<FILENAME_KERNEL, "old", i>>
                              /\ disk[OldPath[i]] = <<FILENAME_KERNEL, "old", i>>
  <2> SUFFICES ASSUME NEW i \in 1 .. OldSize
               PROVE  /\ Data[OldPath[i]] = <<FILENAME_KERNEL, "old", i>>
                      /\ disk[OldPath[i]] = <<FILENAME_KERNEL, "old", i>>
    OBVIOUS
  <2>1. PICK k \in Cluster : k = OldPath[i] /\ k = i + 1 /\ k \in 2 .. OldSize + 1 /\ k - 1 = i
    BY OldNumbers DEF OldPath
  <2>2. disk[k] = <<FILENAME_KERNEL, "old", i>>
    BY <1>1, <2>1
  <2> QED
    BY <1>6, <2>1, <2>2
<1>11. SavedPath(FILENAME_KERNEL, OldPath)
  BY <1>1, <1>3, <1>6, <1>7, <1>10, OldNumbers, OldChain DEF SavedPath
<1>12. PathsOK
  BY <1>2, <1>7, <1>11 DEF PathsOK
<1>13. \A t \in Title : ClustersOf(t) = IF t = FILENAME_KERNEL THEN 2 .. OldSize + 1 ELSE {}
  <2> SUFFICES ASSUME NEW t \in Title
               PROVE  ClustersOf(t) = IF t = FILENAME_KERNEL THEN 2 .. OldSize + 1 ELSE {}
    OBVIOUS
  <2>1. FirstOf(t) = root[t].first
    BY <1>2, <1>6, NoWriter
  <2>2. PICK first, fat : first = FirstOf(t) /\ fat = OldFat
    OBVIOUS
  <2>3. ClustersOf(t) = From(Cluster, fat, first)
    BY <1>6, <2>2 DEF ClustersOf, ChainFrom, Table
  <2>4. CASE t = FILENAME_KERNEL
    BY <1>3, <2>1, <2>2, <2>3, <2>4, OldChain
  <2>5. CASE t # FILENAME_KERNEL
    <3>1. first \notin Cluster
      BY <1>3, <2>1, <2>2, <2>5, Numbers
    <3> QED
      BY <2>3, <2>5, <3>1, FromNull
  <2> QED
    BY <2>4, <2>5
<1>14. FatOK
  <2>1. \A t, u \in Title : t # u => ClustersOf(t) \cap ClustersOf(u) = {}
    BY <1>13
  <2>2. UNION {ClustersOf(t) : t \in Title} = 2 .. OldSize + 1
    BY <1>13, OldNumbers
  <2>3. {n \in Cluster : View(FATSector)[n] # 0} = UNION {ClustersOf(t) : t \in Title}
    BY <1>6, <2>2, OldChain DEF Table
  <2> QED
    BY <1>a, <2>1, <2>3 DEF FatOK
<1> QED
  BY <1>8, <1>9, <1>12, <1>14 DEF FatInv


-----------------------------------------------------------------------------
(* The inductive invariant of the update.  That a firmware is on the card says *)
(* nothing of what comes next: that depends on where the program is, what is  *)
(* in the buffers, and which call of the file system goes on.               *)

Loading == {"ask", "load old", "load new"}
Saving == {"save new", "restore"}

\* What a save is to leave on the card
SavedAs(size, version) == saved[FILENAME_KERNEL] = [size |-> size, version |-> version]
Firmware == m_bufferKernel[Index]
FirmwareSaved == SavedAs(Len(Firmware), VersionOf(Index))

\* The buffers are kept apart from what is in them: <<>> and Len() are about the
\* one, what is filled about the other.
TwoBuffers(buffers) == buffers = [i \in {0, 1} |-> buffers[i]]

\* The old firmware is on the card until it is overwritten, and both are in the
\* buffers from the time on that they are loaded, until a reset clears them.
FirmwareOK ==
  /\ phase \in Loading \cup Saving
  /\ stick \in Nat /\ (upc = "stick" \/ phase \in Saving => stick # 0)
  /\ okay \in BOOLEAN /\ TwoBuffers(m_bufferKernel)
  /\ phase \in Loading \/ (phase = "save new" /\ upc \in {"mount", "create"}) =>
       SavedAs(OldSize, "old")
  /\ upc # "reset" =>
       /\ phase \in Saving \cup {"load new"} => m_bufferKernel[0] = OldFirmware
       /\ phase \in Saving => m_bufferKernel[1] = NewFirmware
  /\ upc = "given up" => phase # "save new"
  /\ upc = "success" => phase \in Saving /\ FirmwareSaved

\* Where the program can be in each phase, and what is in the buffers there
PlaceOK ==
  /\ upc \in {"start", "window", "wait", "stick", "mount", "open", "read", "unmount",
             "create", "write", "close"}
  /\ upc \in {"start", "window"} => phase = "ask"
  /\ upc \in {"wait", "stick"} => phase = "load new"
  /\ upc \in {"open", "read"} => phase = "load old"
  /\ upc \in {"create", "write", "close"} => phase \in Saving
  /\ upc \in {"mount", "unmount"} => phase \in Saving \cup {"load old"}
  /\ upc \in {"start", "window"} \/ (upc \in {"mount", "open"} /\ phase = "load old") =>
       m_bufferKernel[0] = <<>>
  /\ phase \in {"ask", "load old"} \/ upc = "wait" => m_bufferKernel[1] = <<>>
  /\ upc = "stick" => \E n \in 0 .. stick :
                        m_bufferKernel[1] = Contents(FILENAME_KERNEL, "new", n)

\* Nothing is open, and what the cache shows is on the card.
Quiet ==
  /\ fsOp = NoCall /\ m_Files[1] = NotOpen /\ DirtyBuffers = {}

\* The firmware that is read: its clusters in their order, and how far it is read
ReadPath(path) ==
  /\ path \in [1 .. OldSize -> Cluster]
  /\ Root[FILENAME_KERNEL].first = path[1] /\ Root[FILENAME_KERNEL].size = OldSize
  /\ \A i \in 1 .. OldSize - 1 : Table[path[i]] = path[i + 1]
  /\ \A i \in 1 .. OldSize : Data[path[i]] = <<FILENAME_KERNEL, "old", i>>

Reading ==
  LET file == m_Files[1]
  IN  /\ file \in ReadFile /\ file.nSize = OldSize
      /\ m_bufferKernel[0] = Contents(FILENAME_KERNEL, "old", file.nOffset)
      /\ \E path : /\ ReadPath(path)
                   /\ \/ fsOp = NoCall /\ file.nOffset <= OldSize
                         /\ file.nCluster = path[IF file.nOffset = 0 THEN 1 ELSE file.nOffset]
                      \/ fsOp = [name |-> "read", h |-> 1] /\ file.nOffset < OldSize
                         /\ file.nCluster = path[file.nOffset + 1]

\* The firmware is being written.
WritesFirmware ==
  /\ m_Files[1].bWrite /\ m_Files[1].title = FILENAME_KERNEL
  /\ m_Files[1].version = VersionOf(Index)

Creating ==
  /\ fsOp.name = "delete" /\ fsOp.title = FILENAME_KERNEL
  /\ fsOp.then = [name |-> "create", h |-> 1, v |-> VersionOf(Index)]
  /\ m_Files[1] = NotOpen

InUnMount == fsOp = NoCall \/ (fsOp.name \in {"fsinfo", "flush"} /\ fsOp.h = 0)

CardOK ==
  /\ \A h \in Handle \ {1} : m_Files[h] = NotOpen
  /\ upc \in {"start", "window", "mount", "wait", "stick"} => Quiet
  /\ upc \in {"open", "create"} => fsOp = NoCall /\ m_Files[1] = NotOpen
  /\ upc = "read" => Reading
  /\ upc = "write" => Creating \/ (fsOp = NoCall /\ WritesFirmware)
  /\ upc = "close" => /\ WritesFirmware
                      /\ fsOp = NoCall \/ (fsOp.name \in {"allocate", "fill"} /\ fsOp.h = 1)
  /\ upc = "unmount" =>
       \/ /\ fsOp.name \in {"fsinfo", "flush"} /\ fsOp.h = 1
          /\ phase \in Saving /\ WritesFirmware
          /\ okay => m_Files[1].nSize = Len(Firmware)
       \/ /\ InUnMount /\ m_Files[1] = NotOpen
          /\ okay => IF phase = "load old" THEN m_bufferKernel[0] = OldFirmware ELSE FirmwareSaved

UpdateInv == FatInv /\ FirmwareOK /\ (Running => PlaceOK /\ CardOK)

LEMMA EmptyBuffersAre ==
  TwoBuffers(EmptyBuffers) /\ EmptyBuffers[0] = <<>> /\ EmptyBuffers[1] = <<>>
<1>1. TwoBuffers(EmptyBuffers) /\ EmptyBuffers[0] = NoData /\ EmptyBuffers[1] = NoData
  BY DEF TwoBuffers, EmptyBuffers
<1> QED
  BY <1>1 DEF NoData

Filled(b, i, data) == [b EXCEPT ![i] = data]

LEMMA BufferFilled ==
  ASSUME NEW b, TwoBuffers(b), NEW data
  PROVE  /\ TwoBuffers(Filled(b, 0, data)) /\ TwoBuffers(Filled(b, 1, data))
         /\ Filled(b, 0, data)[0] = data /\ Filled(b, 0, data)[1] = b[1]
         /\ Filled(b, 1, data)[0] = b[0] /\ Filled(b, 1, data)[1] = data
<1>1. /\ Filled(b, 0, data) = [i \in {0, 1} |-> IF i = 0 THEN data ELSE b[i]]
      /\ Filled(b, 1, data) = [i \in {0, 1} |-> IF i = 1 THEN data ELSE b[i]]
  BY DEF TwoBuffers, Filled
<1> QED
  BY <1>1 DEF TwoBuffers

LEMMA ContentsIs ==
  ASSUME NEW t, NEW v, NEW n \in Nat
  PROVE  /\ Len(Contents(t, v, n)) = n /\ Contents(t, v, 0) = <<>>
         /\ Append(Contents(t, v, n), <<t, v, n + 1>>) = Contents(t, v, n + 1)
<1> DEFINE Words == {<<t, v, i>> : i \in Nat}
<1>1. PICK list : list = Contents(t, v, n)
  OBVIOUS
<1>2. list \in [1 .. n -> Words] /\ \A i \in 1 .. n : list[i] = <<t, v, i>>
  BY <1>1 DEF Contents
<1>3. list \in Seq(Words) /\ Len(list) = n
  BY <1>2
<1>4. PICK e \in Words : e = <<t, v, n + 1>>
  <2>1. n + 1 \in Nat
    OBVIOUS
  <2>2. <<t, v, n + 1>> \in Words
    BY <2>1
  <2> HIDE DEF Words
  <2> QED
    BY <2>2
<1>5. Append(list, e) \in Seq(Words) /\ Len(Append(list, e)) = n + 1
      /\ \A i \in 1 .. n + 1 : Append(list, e)[i] = <<t, v, i>>
  BY <1>2, <1>3, <1>4
<1>6. Append(list, e) = [i \in 1 .. n + 1 |-> <<t, v, i>>]
  <2>1. PICK longer : longer = Append(list, e)
    OBVIOUS
  <2>2. longer \in [1 .. n + 1 -> Words]
    BY <1>5, <2>1, LenProperties
  <2> QED
    BY <1>5, <2>1, <2>2
<1>7. Contents(t, v, 0) = <<>>
  BY DEF Contents
<1> QED
  BY <1>1, <1>3, <1>4, <1>6, <1>7 DEF Contents

LEMMA FirmwareLengths ==
  ASSUME stick \in Nat
  PROVE  /\ Len(OldFirmware) = OldSize /\ Len(NewFirmware) = stick
  BY ContentsIs, OldNumbers DEF OldFirmware, NewFirmware

LEMMA IndexIs ==
  /\ Index = IF phase \in {"load old", "restore"} THEN 0 ELSE 1
  /\ VersionOf(0) = "old" /\ VersionOf(1) = "new"
  /\ VersionOf(Index) = IF phase \in {"load old", "restore"} THEN "old" ELSE "new"
  /\ VersionOf(Index) \in AnyVersion
<1>1. Index = IF phase \in {"load old", "restore"} THEN 0 ELSE 1
  BY DEF Index
<1>2. VersionOf(0) = "old" /\ VersionOf(1) = "new"
  BY DEF VersionOf
<1>3. VersionOf(Index) = IF phase \in {"load old", "restore"} THEN "old" ELSE "new"
  BY <1>1, <1>2
<1>4. VersionOf(Index) \in AnyVersion
  BY <1>3 DEF AnyVersion
<1> QED
  BY <1>1, <1>2, <1>3, <1>4

\* The five ways on from a load or a save
LEMMA ReturnsTo ==
  ASSUME NEW result \in BOOLEAN, Returns(result), phase \in Loading \cup Saving
  PROVE  \/ phase = "load old" /\ result /\ phase' = "load new" /\ upc' = "wait"
         \/ phase = "load new" /\ result /\ phase' = "save new" /\ upc' = "mount"
         \/ phase \in Saving /\ result /\ phase' = phase /\ upc' = "success"
         \/ phase = "save new" /\ ~result /\ phase' = "restore" /\ upc' = "mount"
         \/ phase' = phase /\ phase # "save new" /\ upc' = "given up"
<1> USE DEF Returns, Goes, Loading, Saving
<1>1. CASE phase = "load old" /\ result
  BY <1>1
<1>2. CASE phase = "load new" /\ result
  BY <1>2
<1>3. CASE phase \in {"save new", "restore"} /\ result
  BY <1>3
<1>4. CASE phase = "save new" /\ ~result
  BY <1>4
<1>5. CASE phase = "ask" \/ (phase \in {"load old", "load new", "restore"} /\ ~result)
  BY <1>5
<1> QED
  BY <1>1, <1>2, <1>3, <1>4, <1>5

\* A step that stays in its phase and leaves the buffers alone
LEMMA FirmwareKept ==
  ASSUME FirmwareOK, UNCHANGED <<phase, m_bufferKernel, stick>>, okay' \in BOOLEAN,
         phase \in Loading => saved'[FILENAME_KERNEL] = saved[FILENAME_KERNEL],
         \/ UNCHANGED <<upc, saved>>
         \/ /\ upc # "reset" /\ upc' \notin {"stick", "success"}
            /\ upc' = "given up" => phase # "save new"
            /\ upc' \in {"mount", "create"} => upc \in {"mount", "create"} /\ UNCHANGED saved
  PROVE  FirmwareOK'
<1>1. OldFirmware' = OldFirmware /\ NewFirmware' = NewFirmware
  BY DEF OldFirmware, NewFirmware
<1>2. Firmware' = Firmware /\ VersionOf(Index)' = VersionOf(Index)
  BY DEF Firmware, Index, VersionOf
<1>3. UNCHANGED <<upc, saved>> => (FirmwareSaved' <=> FirmwareSaved)
  BY <1>2 DEF FirmwareSaved, SavedAs
<1> QED
  BY <1>1, <1>3 DEF FirmwareOK, SavedAs

\* The program goes on without the card.
LEMMA CardLeft ==
  ASSUME UpdateInv, UNCHANGED fatVars
  PROVE  /\ FatInv' /\ UNCHANGED <<disk, m_BufferList, m_nNextFreeCluster, m_Files, fsOp, saved>>
         /\ Quiet' <=> Quiet
<1>1. UNCHANGED <<disk, m_BufferList, m_nNextFreeCluster, m_Files, fsOp, saved>>
  BY DEF fatVars
<1>2. FatInv'
  BY StutterKeeps DEF UpdateInv
<1> QED
  BY <1>1, <1>2 DEF Quiet, DirtyBuffers

LEMMA ButtonAKeeps ==
  ASSUME UpdateInv, ButtonA
  PROVE  UpdateInv'
<1>1. /\ upc = "start" /\ upc' \in {"window", "given up"} /\ UNCHANGED fatVars
      /\ UNCHANGED <<phase, m_bufferKernel, okay, stick>>
  BY DEF ButtonA
<1>2. FatInv' /\ UNCHANGED <<m_Files, fsOp, saved>> /\ (Quiet' <=> Quiet)
  BY <1>1, CardLeft
<1>3. phase = "ask"
  BY <1>1 DEF UpdateInv, PlaceOK, Running, Ended
<1>4. FirmwareOK'
  BY <1>1, <1>2, <1>3, FirmwareKept DEF UpdateInv, FirmwareOK
<1>5. Running' => PlaceOK' /\ CardOK'
  BY <1>1, <1>2 DEF UpdateInv, Running, Ended, PlaceOK, CardOK, FirmwareOK
<1> QED
  BY <1>2, <1>4, <1>5 DEF UpdateInv

LEMMA ButtonBKeeps ==
  ASSUME UpdateInv, ButtonB
  PROVE  UpdateInv'
<1>1. /\ phase = "ask" /\ upc = "window" /\ phase' = "load old" /\ upc' = "mount"
      /\ UNCHANGED fatVars /\ UNCHANGED <<m_bufferKernel, okay, stick>>
  BY DEF ButtonB, Goes
<1>2. FatInv' /\ UNCHANGED <<m_Files, fsOp, saved>> /\ (Quiet' <=> Quiet)
  BY <1>1, CardLeft
<1>3. FirmwareOK'
  BY <1>1, <1>2 DEF UpdateInv, FirmwareOK, Loading, Saving, SavedAs
<1>4. Running' => PlaceOK' /\ CardOK'
  BY <1>1, <1>2 DEF UpdateInv, Running, Ended, PlaceOK, CardOK, Saving
<1> QED
  BY <1>2, <1>3, <1>4 DEF UpdateInv

LEMMA PollsUSBKeeps ==
  ASSUME UpdateInv, PollsUSB
  PROVE  UpdateInv'
<1>1. /\ phase = "load new" /\ upc = "wait" /\ UNCHANGED fatVars
      /\ UNCHANGED <<phase, m_bufferKernel, okay>>
      /\ (upc' = "stick" /\ stick' \in Nat \ {0}) \/ UNCHANGED <<upc, stick>>
  BY UpdateAssumption DEF PollsUSB, UpdateAssumption
<1>2. FatInv' /\ UNCHANGED <<m_Files, fsOp, saved>> /\ (Quiet' <=> Quiet)
  BY <1>1, CardLeft
<1>3. FirmwareOK'
  BY <1>1, <1>2 DEF UpdateInv, FirmwareOK, Loading, Saving, SavedAs, OldFirmware
<1>4. m_bufferKernel'[1] = <<>> /\ Contents(FILENAME_KERNEL, "new", 0) = <<>>
  BY <1>1, ContentsIs DEF UpdateInv, Running, Ended, PlaceOK
<1>5. stick' \in Nat => 0 \in 0 .. stick'
  OBVIOUS
<1>6. PlaceOK'
  BY <1>1, <1>3, <1>4, <1>5 DEF PlaceOK, FirmwareOK
<1>7. CardOK'
  BY <1>1, <1>2 DEF UpdateInv, Running, Ended, CardOK
<1> QED
  BY <1>2, <1>3, <1>6, <1>7 DEF UpdateInv

LEMMA MountFailsKeeps ==
  ASSUME UpdateInv, Running, MountFails
  PROVE  UpdateInv'
<1>1. /\ upc = "mount" /\ Returns(FALSE) /\ UNCHANGED fatVars
      /\ UNCHANGED <<m_bufferKernel, okay, stick>>
  BY DEF MountFails
<1>2. FatInv' /\ UNCHANGED <<m_Files, fsOp, saved>> /\ (Quiet' <=> Quiet)
  BY <1>1, CardLeft
<1>3. \/ phase = "save new" /\ phase' = "restore" /\ upc' = "mount"
      \/ phase' = phase /\ phase # "save new" /\ upc' = "given up"
  <2>1. PICK result \in BOOLEAN : result = FALSE
    OBVIOUS
  <2> QED
    BY <1>1, <2>1, ReturnsTo DEF UpdateInv, FirmwareOK
<1>4. FirmwareOK'
  BY <1>1, <1>2, <1>3 DEF UpdateInv, FirmwareOK, Loading, Saving, SavedAs, OldFirmware, NewFirmware
<1>5. Running' => PlaceOK' /\ CardOK'
  BY <1>1, <1>2, <1>3 DEF UpdateInv, Running, Ended, PlaceOK, CardOK, Saving
<1> QED
  BY <1>2, <1>4, <1>5 DEF UpdateInv

\* A word more of the new firmware in the buffer
LEMMA ReadsStickKeeps ==
  ASSUME UpdateInv, ReadsStick
  PROVE  UpdateInv'
<1>1. /\ upc = "stick" /\ Running /\ UNCHANGED fatVars /\ UNCHANGED <<phase, upc, okay, stick>>
  BY DEF ReadsStick, Running, Ended
<1>2. FatInv' /\ UNCHANGED <<m_Files, fsOp, saved>> /\ (Quiet' <=> Quiet)
  BY <1>1, CardLeft
<1>3. phase = "load new" /\ stick \in Nat
  BY <1>1 DEF UpdateInv, PlaceOK, FirmwareOK
<1>4. PICK n \in 0 .. stick : m_bufferKernel[1] = Contents(FILENAME_KERNEL, "new", n)
  BY <1>1 DEF UpdateInv, PlaceOK
<1>5. n \in Nat /\ Len(m_bufferKernel[1]) = n
  <2>1. PICK k \in Nat : k = stick
    BY <1>3
  <2>2. 0 .. k \subseteq Nat
    OBVIOUS
  <2>3. n \in Nat
    BY <2>1, <2>2
  <2> QED
    BY <1>4, <2>3, ContentsIs
<1>6. n + 1 \in 0 .. stick
  <2>1. n < stick
    BY <1>5 DEF ReadsStick
  <2>2. PICK k \in Nat : k = stick
    BY <1>3
  <2>3. n + 1 \in 0 .. k
    BY <1>5, <2>1, <2>2
  <2> QED
    BY <2>2, <2>3
<1>7. PICK new : new = Contents(FILENAME_KERNEL, "new", n + 1)
  OBVIOUS
<1>8. m_bufferKernel' = [m_bufferKernel EXCEPT ![1] = new]
  BY <1>4, <1>5, <1>7, ContentsIs DEF ReadsStick
<1>9. /\ TwoBuffers(m_bufferKernel')
      /\ m_bufferKernel'[0] = m_bufferKernel[0] /\ m_bufferKernel'[1] = new
  <2>1. TwoBuffers(m_bufferKernel)
    BY DEF UpdateInv, FirmwareOK
  <2>2. PICK b, c : b = m_bufferKernel /\ c = m_bufferKernel'
    OBVIOUS
  <2>3. TwoBuffers(b) /\ c = Filled(b, 1, new)
    BY <1>8, <2>1, <2>2 DEF Filled
  <2>4. TwoBuffers(c) /\ c[1] = new /\ c[0] = b[0]
    BY <2>3, BufferFilled
  <2> QED
    BY <2>2, <2>4
<1>10. FirmwareOK'
  BY <1>1, <1>2, <1>3, <1>9 DEF UpdateInv, FirmwareOK, Loading, Saving, SavedAs, OldFirmware
<1>11. PlaceOK'
  BY <1>1, <1>3, <1>6, <1>7, <1>9 DEF PlaceOK
<1>12. CardOK'
  BY <1>1, <1>2 DEF UpdateInv, CardOK
<1> QED
  BY <1>2, <1>10, <1>11, <1>12 DEF UpdateInv

LEMMA StickEndsKeeps ==
  ASSUME UpdateInv, StickEnds
  PROVE  UpdateInv'
<1>1. /\ upc = "stick" /\ Running /\ UNCHANGED fatVars
      /\ UNCHANGED <<m_bufferKernel, okay, stick>>
  BY DEF StickEnds, Running, Ended
<1>2. FatInv' /\ UNCHANGED <<m_Files, fsOp, saved>> /\ (Quiet' <=> Quiet)
  BY <1>1, CardLeft
<1>3. phase = "load new" /\ stick \in Nat \ {0} /\ Index = 1
  BY <1>1, IndexIs DEF UpdateInv, PlaceOK, FirmwareOK
<1>4. PICK n \in 0 .. stick : m_bufferKernel[1] = Contents(FILENAME_KERNEL, "new", n)
  BY <1>1 DEF UpdateInv, PlaceOK
<1>5. n \in Nat /\ Len(m_bufferKernel[1]) = n
  <2>1. PICK k \in Nat : k = stick
    BY <1>3
  <2>2. 0 .. k \subseteq Nat
    OBVIOUS
  <2>3. n \in Nat
    BY <2>1, <2>2
  <2> QED
    BY <1>4, <2>3, ContentsIs
<1>6. PICK result \in BOOLEAN : Returns(result) /\ (result => n = stick)
  <2>1. CASE Returns(FALSE)
    BY <2>1
  <2>2. CASE (BufferFull \/ Len(m_bufferKernel[1]) = stick) /\ Returns(Loaded)
    <3>1. Loaded \in BOOLEAN
      BY DEF Loaded, BufferFull
    <3>2. Loaded => n = stick
      BY <1>5, <2>2 DEF Loaded
    <3> QED
      BY <2>2, <3>1, <3>2
  <2> QED
    BY <2>1, <2>2 DEF StickEnds
<1>7. \/ n = stick /\ phase' = "save new" /\ upc' = "mount"
      \/ phase' = phase /\ phase # "save new" /\ upc' = "given up"
  BY <1>3, <1>6, ReturnsTo DEF Loading, Saving
<1>8. n = stick => m_bufferKernel[1] = NewFirmware
  BY <1>4 DEF NewFirmware
<1>9. FirmwareOK'
  BY <1>1, <1>2, <1>3, <1>7, <1>8
     DEF UpdateInv, FirmwareOK, Loading, Saving, SavedAs, OldFirmware, NewFirmware
<1>10. Running' => PlaceOK' /\ CardOK'
  BY <1>1, <1>2, <1>7 DEF UpdateInv, Running, Ended, PlaceOK, CardOK, Saving
<1> QED
  BY <1>2, <1>9, <1>10 DEF UpdateInv

\* Time, the reset, and the time after it
LEMMA TimeKeeps ==
  ASSUME UpdateInv, Second \/ WatchdogResets \/ UpdateOver \/ UNCHANGED updateVars
  PROVE  UpdateInv'
<1>1. /\ UNCHANGED fatVars /\ UNCHANGED <<phase, okay, stick>>
      /\ \/ UNCHANGED <<upc, m_bufferKernel>>
         \/ upc' = "reset" /\ m_bufferKernel' = EmptyBuffers
  BY DEF Second, WatchdogResets, UpdateOver, updateVars, programVars
<1>2. /\ FatInv' /\ UNCHANGED <<disk, m_BufferList, m_Files, fsOp, saved>>
      /\ Quiet' <=> Quiet
  BY <1>1, CardLeft
<1>3. CASE UNCHANGED <<upc, m_bufferKernel>>
  <2>1. FirmwareOK'
    BY <1>1, <1>2, <1>3, FirmwareKept DEF UpdateInv, FirmwareOK
  <2>2. PlaceOK => PlaceOK'
    BY <1>1, <1>3 DEF PlaceOK
  <2>3. /\ Table' = Table /\ Root' = Root /\ Data' = Data
    BY <1>2 DEF Table, Root, Data, View
  <2>4. Reading => Reading'
    BY <1>2, <1>3, <2>3 DEF Reading, ReadPath
  <2>5. /\ Firmware' = Firmware /\ VersionOf(Index)' = VersionOf(Index)
        /\ (FirmwareSaved' <=> FirmwareSaved) /\ OldFirmware' = OldFirmware
    BY <1>1, <1>2, <1>3 DEF Firmware, Index, VersionOf, FirmwareSaved, SavedAs, OldFirmware
  <2>6. /\ WritesFirmware' <=> WritesFirmware
        /\ Creating' <=> Creating
        /\ InUnMount' <=> InUnMount
    BY <1>2, <2>5 DEF WritesFirmware, Creating, InUnMount
  <2>7. CardOK => CardOK'
    BY <1>1, <1>2, <1>3, <2>4, <2>5, <2>6 DEF CardOK
  <2>8. Running' <=> Running
    BY <1>3 DEF Running
  <2> QED
    BY <1>2, <2>1, <2>2, <2>7, <2>8 DEF UpdateInv
<1>4. CASE upc' = "reset" /\ m_bufferKernel' = EmptyBuffers
  <2>1. FirmwareOK'
    BY <1>1, <1>2, <1>4, EmptyBuffersAre DEF UpdateInv, FirmwareOK, SavedAs
  <2> QED
    BY <1>2, <1>4, <2>1 DEF UpdateInv, Running, Ended
<1> QED
  BY <1>1, <1>3, <1>4

\* The card is mounted when nothing is open and nothing is dirty.
LEMMA MountsCardKeeps ==
  ASSUME UpdateInv, Running, MountsCard
  PROVE  UpdateInv'
<1>1. /\ upc = "mount" /\ BecomesCache(Mounted) /\ m_Files' = [h \in Handle |-> NotOpen]
      /\ m_nNextFreeCluster' = disk[FSInfoSector] /\ mountedHint' = disk[FSInfoSector]
      /\ upc' = IF phase = "load old" THEN "open" ELSE "create"
      /\ UNCHANGED <<fsOp, saved>> /\ UNCHANGED <<phase, m_bufferKernel, okay, stick>>
  BY DEF MountsCard
<1>2. Quiet /\ \A h \in Handle : m_Files[h] = NotOpen
  BY <1>1 DEF UpdateInv, CardOK, Quiet
<1>3. \A h \in Handle : ~m_Files[h].bWrite
  BY <1>2 DEF NotOpen
<1>4. FatInv'
  BY <1>1, <1>2, <1>3, MountKeeps DEF UpdateInv, Quiet
<1>5. FirmwareOK'
  BY <1>1, FirmwareKept DEF UpdateInv, FirmwareOK
<1>6. PlaceOK'
  BY <1>1 DEF UpdateInv, PlaceOK, Saving
<1>7. fsOp' = NoCall /\ \A h \in Handle : m_Files'[h] = NotOpen
  BY <1>1, <1>2 DEF Quiet
<1>8. CardOK'
  BY <1>1, <1>7, OldNumbers DEF CardOK
<1> QED
  BY <1>4, <1>5, <1>6, <1>8 DEF UpdateInv

\* The old firmware was saved, so that its clusters are known.
LEMMA PathOfOld ==
  ASSUME FatInv, SavedAs(OldSize, "old")
  PROVE  \E path : ReadPath(path)
<1>1. saved[FILENAME_KERNEL].size = OldSize /\ saved[FILENAME_KERNEL].version = "old"
  BY DEF SavedAs
<1>2. PICK path : SavedPath(FILENAME_KERNEL, path)
  BY <1>1, OldNumbers DEF FatInv, PathsOK
<1>3. ReadPath(path)
  BY <1>1, <1>2 DEF SavedPath, ReadPath
<1> QED
  BY <1>3

LEMMA OpensFileKeeps ==
  ASSUME UpdateInv, Running, OpensFile
  PROVE  UpdateInv'
<1>1. /\ upc = "open" /\ FileOpen(1, FILENAME_KERNEL) /\ upc' = "read"
      /\ UNCHANGED <<phase, m_bufferKernel, okay, stick>>
  BY DEF OpensFile
<1>2. /\ phase = "load old" /\ m_bufferKernel[0] = <<>> /\ m_bufferKernel[1] = <<>>
      /\ \A h \in Handle \ {1} : m_Files[h] = NotOpen
  BY <1>1 DEF UpdateInv, PlaceOK, CardOK
<1>3. fsOp' = NoCall /\ saved' = saved
  BY <1>1 DEF FileOpen
<1>4. /\ FatInv' /\ Table' = Table /\ Root' = Root /\ Data' = Data
      /\ m_Files'[1] = [open |-> TRUE, bWrite |-> FALSE, title |-> FILENAME_KERNEL,
                        nOffset |-> 0, nSize |-> Root[FILENAME_KERNEL].size,
                        nCluster |-> Root[FILENAME_KERNEL].first]
      /\ m_Files'[1] \in ReadFile /\ \A h \in Handle \ {1} : m_Files'[h] = m_Files[h]
  BY <1>1, OldNumbers, FileOpenKeeps DEF UpdateInv
<1>5. PICK path : ReadPath(path)
  BY <1>2, PathOfOld DEF UpdateInv, FirmwareOK, Loading
<1>6. ReadPath(path)'
  BY <1>4, <1>5 DEF ReadPath
<1>7. PICK file : file = m_Files'[1]
  OBVIOUS
<1>8. /\ file \in ReadFile /\ file.nOffset = 0 /\ file.nSize = OldSize
      /\ file.nCluster = path[1]
  <2>1. Root[FILENAME_KERNEL].size = OldSize /\ Root[FILENAME_KERNEL].first = path[1]
    BY <1>5 DEF ReadPath
  <2> QED
    BY <1>4, <1>7, <2>1
<1>9. m_bufferKernel'[0] = Contents(FILENAME_KERNEL, "old", 0) /\ 0 <= OldSize
  <2>1. Contents(FILENAME_KERNEL, "old", 0) = <<>>
    BY ContentsIs
  <2>2. 0 <= OldSize
    BY OldNumbers
  <2> QED
    BY <1>1, <1>2, <2>1, <2>2
<1>10. Reading'
  BY <1>3, <1>6, <1>7, <1>8, <1>9 DEF Reading
<1>11. FirmwareOK'
  BY <1>1, <1>3, FirmwareKept DEF UpdateInv, FirmwareOK
<1>12. PlaceOK'
  BY <1>1, <1>2 DEF PlaceOK
<1>13. CardOK'
  BY <1>1, <1>2, <1>4, <1>10 DEF CardOK
<1> QED
  BY <1>4, <1>11, <1>12, <1>13 DEF UpdateInv

\* A sector is looked up.
LEMMA LooksUpKeeps ==
  ASSUME UpdateInv, Running, upc = "read", FileRead(1), UNCHANGED programVars
  PROVE  UpdateInv'
<1>1. UNCHANGED <<phase, upc, m_bufferKernel, okay, stick>>
  BY DEF programVars
<1>2. /\ phase = "load old" /\ m_bufferKernel[1] = <<>> /\ Reading
      /\ \A h \in Handle \ {1} : m_Files[h] = NotOpen
  BY DEF UpdateInv, PlaceOK, CardOK
<1>3. PICK file \in ReadFile : file = m_Files[1]
  BY <1>2 DEF Reading
<1>4. /\ fsOp = NoCall /\ fsOp' = [name |-> "read", h |-> 1] /\ saved' = saved
      /\ file.nOffset < file.nSize
  BY <1>3 DEF FileRead
<1>5. fsOp # [name |-> "read", h |-> 1]
  <2>1. fsOp.name = "none"
    BY <1>4 DEF NoCall
  <2> QED
    BY <2>1
<1>6. PICK n \in Nat, k \in Nat \ {0} : n = file.nOffset /\ k = OldSize
  BY OldNumbers DEF ReadFile
<1>7. file.nSize = k /\ m_bufferKernel[0] = Contents(FILENAME_KERNEL, "old", n)
  BY <1>2, <1>3, <1>6 DEF Reading
<1>8. PICK path : ReadPath(path) /\ file.nCluster = path[IF n = 0 THEN 1 ELSE n]
  BY <1>2, <1>3, <1>5, <1>6 DEF Reading
<1>9. n < k /\ n + 1 \in 1 .. k /\ (n # 0 => n \in 1 .. k - 1 /\ n \in 1 .. k)
  <2>1. n < k
    BY <1>4, <1>6, <1>7
  <2> QED
    BY <2>1
<1>10. /\ path \in [1 .. k -> Cluster]
       /\ n # 0 => file.nCluster \in Cluster /\ Table[file.nCluster] = path[n + 1]
  BY <1>6, <1>8, <1>9 DEF ReadPath
<1>11. /\ FatInv' /\ Table' = Table /\ Root' = Root /\ Data' = Data
       /\ m_Files'[1] = [file EXCEPT !.nCluster = IF file.nOffset = 0 THEN @ ELSE Table[@]]
       /\ m_Files'[1] \in ReadFile /\ \A h \in Handle \ {1} : m_Files'[h] = m_Files[h]
  BY <1>3, <1>6, <1>10, OldNumbers, FileReadKeeps DEF UpdateInv
<1>12. PICK new \in ReadFile : new = m_Files'[1]
  BY <1>11
<1>13. /\ new.nOffset = n /\ new.nSize = k
       /\ new.nCluster = IF n = 0 THEN file.nCluster ELSE Table[file.nCluster]
  BY <1>6, <1>7, <1>11, <1>12 DEF ReadFile
<1>14. new.nCluster = path[n + 1]
  <2>1. CASE n = 0
    BY <1>8, <1>13, <2>1
  <2>2. CASE n # 0
    BY <1>10, <1>13, <2>2
  <2> QED
    BY <2>1, <2>2
<1>15. ReadPath(path)'
  BY <1>8, <1>11 DEF ReadPath
<1>16. Reading'
  BY <1>1, <1>4, <1>6, <1>7, <1>9, <1>12, <1>13, <1>14, <1>15 DEF Reading
<1>17. FirmwareOK'
  BY <1>1, <1>4, FirmwareKept DEF UpdateInv, FirmwareOK
<1>18. PlaceOK'
  BY <1>1, <1>2 DEF PlaceOK
<1>19. CardOK'
  BY <1>1, <1>2, <1>11, <1>16 DEF CardOK
<1> QED
  BY <1>11, <1>17, <1>18, <1>19 DEF UpdateInv

\* A sector more of the old firmware in the buffer
LEMMA TakesSectorKeeps ==
  ASSUME UpdateInv, Running, upc = "read", ReadEnds,
         m_bufferKernel' = [m_bufferKernel EXCEPT ![0] = Append(@, SectorRead)],
         UNCHANGED <<phase, upc, okay, stick>>
  PROVE  UpdateInv'
<1>1. /\ phase = "load old" /\ m_bufferKernel[1] = <<>> /\ Reading
      /\ \A h \in Handle \ {1} : m_Files[h] = NotOpen
  BY DEF UpdateInv, PlaceOK, CardOK
<1>2. fsOp.name = "read" /\ fsOp' = NoCall /\ saved' = saved
  BY DEF ReadEnds
<1>3. fsOp # NoCall
  BY <1>2 DEF NoCall
<1>4. fsOp = [name |-> "read", h |-> 1]
  BY <1>1, <1>3 DEF Reading
<1>5. fsOp.h = 1
  BY <1>4
<1>6. PICK file \in ReadFile : file = m_Files[1]
  BY <1>1 DEF Reading
<1>7. PICK n \in Nat, k \in Nat \ {0} : n = file.nOffset /\ k = OldSize
  BY OldNumbers DEF ReadFile
<1>8. file.nSize = k /\ m_bufferKernel[0] = Contents(FILENAME_KERNEL, "old", n)
  BY <1>1, <1>6, <1>7 DEF Reading
<1>9. PICK path : ReadPath(path) /\ n < k /\ file.nCluster = path[n + 1]
  BY <1>1, <1>3, <1>6, <1>7 DEF Reading
<1>10. /\ FatInv' /\ Table' = Table /\ Root' = Root /\ Data' = Data
       /\ SectorRead = Data[file.nCluster]
       /\ m_Files'[1] = [file EXCEPT !.nOffset = @ + 1]
       /\ m_Files'[1] \in ReadFile
       /\ \A h \in Handle \ {1} : m_Files'[h] = m_Files[h]
  BY <1>5, <1>6, ReadEndsKeeps DEF UpdateInv
<1>11. n + 1 \in 1 .. k /\ n + 1 # 0 /\ n + 1 <= k
  BY <1>9
<1>12. SectorRead = <<FILENAME_KERNEL, "old", n + 1>>
  BY <1>7, <1>9, <1>10, <1>11 DEF ReadPath
<1>13. PICK longer : longer = Contents(FILENAME_KERNEL, "old", n + 1)
  OBVIOUS
<1>14. m_bufferKernel' = [m_bufferKernel EXCEPT ![0] = longer]
  <2>1. Append(Contents(FILENAME_KERNEL, "old", n), <<FILENAME_KERNEL, "old", n + 1>>) = longer
    BY <1>13, ContentsIs
  <2> QED
    BY <1>8, <1>12, <2>1
<1>15. /\ TwoBuffers(m_bufferKernel')
       /\ m_bufferKernel'[0] = longer /\ m_bufferKernel'[1] = m_bufferKernel[1]
  <2>1. TwoBuffers(m_bufferKernel)
    BY DEF UpdateInv, FirmwareOK
  <2>2. PICK b, c : b = m_bufferKernel /\ c = m_bufferKernel'
    OBVIOUS
  <2>3. TwoBuffers(b) /\ c = Filled(b, 0, longer)
    BY <1>14, <2>1, <2>2 DEF Filled
  <2>4. TwoBuffers(c) /\ c[0] = longer /\ c[1] = b[1]
    BY <2>3, BufferFilled
  <2> QED
    BY <2>2, <2>4
<1>16. PICK new \in ReadFile : new = m_Files'[1]
  BY <1>10
<1>17. new.nOffset = n + 1 /\ new.nSize = k /\ new.nCluster = path[n + 1]
  BY <1>7, <1>8, <1>9, <1>10, <1>16 DEF ReadFile
<1>18. ReadPath(path)'
  BY <1>9, <1>10 DEF ReadPath
<1>19. Reading'
  BY <1>2, <1>7, <1>11, <1>13, <1>15, <1>16, <1>17, <1>18 DEF Reading
<1>20. FirmwareOK'
  BY <1>1, <1>2, <1>15 DEF UpdateInv, FirmwareOK, Loading, Saving, SavedAs
<1>21. PlaceOK'
  BY <1>1, <1>15 DEF PlaceOK
<1>22. CardOK'
  BY <1>1, <1>10, <1>19 DEF CardOK
<1> QED
  BY <1>10, <1>20, <1>21, <1>22 DEF UpdateInv

LEMMA ReadsChunkKeeps ==
  ASSUME UpdateInv, Running, ReadsChunk
  PROVE  UpdateInv'
<1>1. CASE FileRead(1) /\ UNCHANGED m_bufferKernel
  BY <1>1, LooksUpKeeps DEF ReadsChunk, programVars
<1>2. CASE ReadEnds /\ m_bufferKernel' = [m_bufferKernel EXCEPT ![0] = Append(@, SectorRead)]
  BY <1>2, TakesSectorKeeps DEF ReadsChunk
<1> QED
  BY <1>1, <1>2 DEF ReadsChunk

LEMMA LoadEndsKeeps ==
  ASSUME UpdateInv, Running, LoadEnds
  PROVE  UpdateInv'
<1>1. /\ phase = "load old" /\ upc = "read" /\ FileCloseRead(1)
      /\ BufferFull \/ m_Files[1].nOffset = m_Files[1].nSize
      /\ okay' = Loaded /\ upc' = "unmount" /\ UNCHANGED <<phase, m_bufferKernel, stick>>
  BY DEF LoadEnds
<1>2. fsOp' = NoCall /\ saved' = saved
  BY <1>1 DEF FileCloseRead
<1>3. /\ m_bufferKernel[1] = <<>> /\ Reading
      /\ \A h \in Handle \ {1} : m_Files[h] = NotOpen
  BY <1>1 DEF UpdateInv, PlaceOK, CardOK
<1>4. /\ FatInv' /\ m_Files'[1] = NotOpen
      /\ \A h \in Handle \ {1} : m_Files'[h] = m_Files[h]
  BY <1>1, OldNumbers, CloseReadKeeps DEF UpdateInv
<1>5. okay' \in BOOLEAN
  BY <1>1 DEF Loaded, BufferFull
<1>6. okay' => m_bufferKernel[0] = OldFirmware
  <2>1. okay' => m_Files[1].nOffset = OldSize
    BY <1>1, <1>3 DEF Loaded, Reading
  <2> QED
    BY <1>3, <2>1 DEF Reading, OldFirmware
<1>7. FirmwareOK'
  BY <1>1, <1>2, <1>5, FirmwareKept DEF UpdateInv
<1>8. PlaceOK'
  BY <1>1, <1>3 DEF PlaceOK
<1>9. CardOK'
  BY <1>1, <1>2, <1>3, <1>4, <1>6 DEF CardOK, InUnMount, OldFirmware
<1> QED
  BY <1>4, <1>7, <1>8, <1>9 DEF UpdateInv

-----------------------------------------------------------------------------
(* Saving                                                                   *)

\* What is saved, and its name for what is on the card, stay as they are.
LEMMA SameFirmware ==
  ASSUME UNCHANGED <<phase, m_bufferKernel>>
  PROVE  Firmware' = Firmware /\ VersionOf(Index)' = VersionOf(Index)
BY DEF Firmware, Index, VersionOf

LEMMA CreatesFileKeeps ==
  ASSUME UpdateInv, Running, CreatesFile
  PROVE  UpdateInv'
<1>1. /\ upc = "create" /\ UNCHANGED <<phase, m_bufferKernel, stick>>
      /\ upc' = "write" \/ upc' = "unmount"
  BY DEF CreatesFile, UpdateInv, FirmwareOK
<1>2. /\ phase \in Saving /\ fsOp = NoCall /\ m_Files[1] = NotOpen
      /\ \A h \in Handle \ {1} : m_Files[h] = NotOpen
  BY <1>1 DEF UpdateInv, PlaceOK, CardOK
<1>3. PICK v : v = VersionOf(Index)
  OBVIOUS
<1>4. v \in AnyVersion /\ VersionOf(Index)' = v
  BY <1>1, <1>3, IndexIs, SameFirmware
<1>5. ~IsOpen(FILENAME_KERNEL) /\ \A h \in Handle : ~m_Files[h].bWrite
  BY <1>2 DEF IsOpen, NotOpen
<1>6. okay' \in BOOLEAN
  BY <1>1 DEF CreatesFile, UpdateInv, FirmwareOK
<1>7. FirmwareOK'
  BY <1>1, <1>2, <1>6, FirmwareKept DEF UpdateInv, Loading, Saving
<1>8. PlaceOK'
  BY <1>1, <1>2 DEF UpdateInv, PlaceOK, Saving
<1>9. PICK then : then = [name |-> "create", h |-> 1, v |-> v]
  OBVIOUS
<1>10. CASE DeleteBegins(FILENAME_KERNEL, then) /\ upc' = "write"
  <2>1. then \in [name : {"create"}, h : Handle, v : AnyVersion] /\ then.h = 1
    BY <1>4, <1>9, OldNumbers
  <2>2. FatInv'
    BY <1>5, <1>10, <2>1, OldNumbers, DeleteBeginsKeeps DEF UpdateInv
  <2>3. fsOp' = [name |-> "delete", title |-> FILENAME_KERNEL, then |-> then] /\ m_Files' = m_Files
    BY <1>10 DEF DeleteBegins
  <2>4. Creating'
    BY <1>2, <1>4, <1>9, <2>3 DEF Creating
  <2>5. CardOK'
    BY <1>2, <1>10, <2>3, <2>4 DEF CardOK
  <2> QED
    BY <1>7, <1>8, <2>2, <2>5 DEF UpdateInv
<1>11. CASE ~DeleteBegins(FILENAME_KERNEL, then) /\ FileCreate(1, FILENAME_KERNEL, v) /\ upc' = "write"
  <2>1. /\ fsOp' = fsOp /\ TheRoot[FILENAME_KERNEL].first = 0
        /\ BecomesCache(MarkDirty(GetRoot(Cache),
             [DataOf(GetRoot(Cache)) EXCEPT ![FILENAME_KERNEL] = Created]))
        /\ m_Files' = Opened(1, FILENAME_KERNEL, v)
        /\ saved' = [saved EXCEPT ![FILENAME_KERNEL] = NotSaved]
        /\ UNCHANGED <<m_nNextFreeCluster, mountedHint>>
    BY <1>9, <1>11 DEF FileCreate
  <2>2. Root[FILENAME_KERNEL].first = 0
    BY <2>1, Gets DEF UpdateInv, FatInv, FatTypes
  <2>3. FatInv'
    BY <1>2, <1>4, <1>5, <2>1, <2>2, OldNumbers, CreateKeeps DEF UpdateInv
  <2>4. /\ m_Files'[1].bWrite /\ m_Files'[1].title = FILENAME_KERNEL /\ m_Files'[1].version = v
        /\ \A h \in Handle \ {1} : m_Files'[h] = m_Files[h]
    BY <2>1, OldNumbers DEF Opened, UpdateInv, FatInv, FatTypes
  <2>5. WritesFirmware' /\ fsOp' = NoCall
    BY <1>2, <1>4, <2>1, <2>4 DEF WritesFirmware
  <2>6. CardOK'
    BY <1>2, <1>11, <2>4, <2>5 DEF CardOK
  <2> QED
    BY <1>7, <1>8, <2>3, <2>6 DEF UpdateInv
<1>12. CASE upc' = "unmount" /\ okay' = FALSE /\ UNCHANGED fatVars
  <2>1. FatInv' /\ UNCHANGED <<m_Files, fsOp>>
    BY <1>12, CardLeft
  <2>2. CardOK'
    BY <1>2, <1>12, <2>1 DEF CardOK, InUnMount
  <2> QED
    BY <1>7, <1>8, <2>1, <2>2 DEF UpdateInv
<1> QED
  BY <1>3, <1>10, <1>11, <1>12 DEF CreatesFile

LEMMA WritesFileKeeps ==
  ASSUME UpdateInv, Running, WritesFile
  PROVE  UpdateInv'
<1>1. /\ upc = "write" /\ upc' = "close" /\ FileWrite(1, Len(Firmware))
      /\ UNCHANGED <<phase, m_bufferKernel, okay, stick>>
  BY DEF WritesFile, Firmware
<1>2. /\ fsOp = NoCall /\ fsOp.name = "none" /\ UNCHANGED <<m_Files, saved>>
      /\ fsOp' = [name |-> "allocate", h |-> 1, left |-> Len(Firmware)]
  BY <1>1 DEF FileWrite, NoCall
<1>3. /\ phase \in Saving /\ WritesFirmware
      /\ \A h \in Handle \ {1} : m_Files[h] = NotOpen
  BY <1>1, <1>2 DEF UpdateInv, PlaceOK, CardOK, Creating
<1>4. Len(Firmware) \in Int
  <2>1. Firmware \in {OldFirmware, NewFirmware} /\ stick \in Nat
    BY <1>1, <1>3, IndexIs DEF Firmware, UpdateInv, FirmwareOK, Saving
  <2> QED
    BY <2>1, FirmwareLengths, OldNumbers
<1>5. FatInv'
  BY <1>1, <1>4, OldNumbers, FileWriteKeeps DEF UpdateInv
<1>6. WritesFirmware'
  BY <1>1, <1>2, <1>3, SameFirmware DEF WritesFirmware
<1>7. FirmwareOK'
  BY <1>1, <1>2, FirmwareKept DEF UpdateInv, FirmwareOK
<1>8. PlaceOK'
  BY <1>1, <1>3 DEF UpdateInv, PlaceOK, Saving
<1>9. CardOK'
  BY <1>1, <1>2, <1>3, <1>6 DEF CardOK
<1> QED
  BY <1>5, <1>7, <1>8, <1>9 DEF UpdateInv

LEMMA ClosesFileKeeps ==
  ASSUME UpdateInv, Running, ClosesFile
  PROVE  UpdateInv'
<1>1. /\ upc = "close" /\ upc' = "unmount" /\ FileCloseWritten(1) /\ okay' = Written
      /\ UNCHANGED <<phase, m_bufferKernel, stick>>
  BY DEF ClosesFile
<1>2. UNCHANGED <<m_Files, saved>> /\ fsOp' = [name |-> "fsinfo", h |-> 1]
  BY <1>1 DEF FileCloseWritten
<1>3. /\ phase \in Saving /\ WritesFirmware
      /\ \A h \in Handle \ {1} : m_Files[h] = NotOpen
  BY <1>1 DEF UpdateInv, PlaceOK, CardOK
<1>4. okay' \in BOOLEAN /\ (okay' => m_Files'[1].nSize = Len(Firmware)')
  BY <1>1, <1>2, SameFirmware DEF Written, Firmware
<1>5. FatInv'
  BY <1>1, OldNumbers, CloseBeginsKeeps DEF UpdateInv
<1>6. WritesFirmware'
  BY <1>1, <1>2, <1>3, SameFirmware DEF WritesFirmware
<1>7. FirmwareOK'
  BY <1>1, <1>2, <1>4, FirmwareKept DEF UpdateInv
<1>8. PlaceOK'
  BY <1>1, <1>3 DEF UpdateInv, PlaceOK, Saving
<1>9. CardOK'
  BY <1>1, <1>2, <1>3, <1>4, <1>6 DEF CardOK
<1> QED
  BY <1>5, <1>7, <1>8, <1>9 DEF UpdateInv

\* Which call goes on tells where the program is.
LEMMA CallTells ==
  ASSUME UpdateInv, Running
  PROVE  /\ fsOp = NoCall => fsOp.name = "none"
         /\ fsOp.name = "delete" => upc = "write" /\ Creating
         /\ fsOp.name \in {"allocate", "fill"} => upc = "close" /\ WritesFirmware /\ fsOp.h = 1
         /\ fsOp.name \in {"fsinfo", "flush"} => upc = "unmount"
         /\ fsOp.name \in {"fsinfo", "flush"} /\ fsOp.h = 1 =>
              phase \in Saving /\ WritesFirmware /\ (okay => m_Files[1].nSize = Len(Firmware))
<1>1. fsOp = NoCall => fsOp.name = "none"
  BY DEF NoCall
<1>2. PICK name : name = fsOp.name
  OBVIOUS
<1>3. /\ Quiet => name = "none"
      /\ Reading => name \in {"none", "read"}
      /\ Creating => name = "delete"
      /\ InUnMount => name = "none" \/ (name \in {"fsinfo", "flush"} /\ fsOp.h = 0)
  BY <1>1, <1>2 DEF Quiet, Reading, Creating, InUnMount
<1>4. /\ upc \in {"start", "window", "mount", "wait", "stick", "open", "create"} => name = "none"
      /\ upc = "read" => name \in {"none", "read"}
      /\ upc = "write" => name = "none" \/ (name = "delete" /\ Creating)
      /\ upc = "close" => \/ name = "none"
                          \/ name \in {"allocate", "fill"} /\ WritesFirmware /\ fsOp.h = 1
      /\ upc = "unmount" =>
           \/ /\ name \in {"fsinfo", "flush"} /\ fsOp.h = 1
              /\ phase \in Saving /\ WritesFirmware
              /\ okay => m_Files[1].nSize = Len(Firmware)
           \/ name = "none" \/ (name \in {"fsinfo", "flush"} /\ fsOp.h = 0)
  BY <1>1, <1>2, <1>3 DEF UpdateInv, CardOK
<1>5. upc \in {"start", "window", "wait", "stick", "mount", "open", "read", "unmount",
               "create", "write", "close"}
  BY DEF UpdateInv, PlaceOK
<1> QED
  BY <1>1, <1>2, <1>4, <1>5

\* FileCreate() ends.
LEMMA CardDeletes ==
  ASSUME UpdateInv, Running, UNCHANGED programVars, DeleteEnds
  PROVE  CardOK'
<1>1. UNCHANGED <<phase, upc, m_bufferKernel, okay, stick>>
  BY DEF programVars
<1>2. fsOp.name = "delete" /\ fsOp' = NoCall
  BY DEF DeleteEnds
<1>3. upc = "write" /\ Creating /\ \A h \in Handle \ {1} : m_Files[h] = NotOpen
  BY <1>2, CallTells DEF UpdateInv, CardOK
<1>4. PICK v : v = VersionOf(Index)
  OBVIOUS
<1>5. fsOp.then.name = "create" /\ fsOp.then.h = 1 /\ fsOp.then.v = v /\ fsOp.title = FILENAME_KERNEL
  BY <1>3, <1>4 DEF Creating
<1>6. m_Files' = Opened(1, FILENAME_KERNEL, v)
  BY <1>5 DEF DeleteEnds
<1>7. /\ m_Files'[1].bWrite /\ m_Files'[1].title = FILENAME_KERNEL /\ m_Files'[1].version = v
      /\ \A h \in Handle \ {1} : m_Files'[h] = m_Files[h]
  BY <1>6, OldNumbers DEF Opened, UpdateInv, FatInv, FatTypes
<1>8. WritesFirmware'
  BY <1>1, <1>4, <1>7, SameFirmware DEF WritesFirmware
<1> QED
  BY <1>1, <1>2, <1>3, <1>7, <1>8 DEF CardOK

\* A cluster is allocated, or not, or filled: it is still the same file.
LEMMA CardWrites ==
  ASSUME UpdateInv, Running, UNCHANGED programVars, WriteAllocates \/ WriteFails \/ WriteFills
  PROVE  CardOK'
<1>1. UNCHANGED <<phase, upc, m_bufferKernel, okay, stick>>
  BY DEF programVars
<1>2. fsOp.name \in {"allocate", "fill"}
  BY DEF WriteAllocates, WriteFails, WriteFills
<1>3. /\ upc = "close" /\ WritesFirmware /\ fsOp.h = 1
      /\ \A h \in Handle \ {1} : m_Files[h] = NotOpen
  BY <1>2, CallTells DEF UpdateInv, CardOK
<1>4. PICK file \in OpenFile : file = m_Files[1] /\ fsOp \in WriteCall
  BY <1>2, <1>3, OldNumbers, FileIs, CallIs DEF WritesFirmware, UpdateInv, FatInv
<1>5. /\ m_Files'[1].bWrite /\ m_Files'[1].title = m_Files[1].title
      /\ m_Files'[1].version = m_Files[1].version
      /\ \A h \in Handle \ {1} : m_Files'[h] = m_Files[h]
  <2>1. PICK new : /\ m_Files' = [m_Files EXCEPT ![1] = new] /\ new.bWrite
                   /\ new.title = m_Files[1].title /\ new.version = m_Files[1].version
    <3>1. CASE WriteFails
      BY <1>4, <3>1 DEF WriteFails, OpenFile, UpdateInv, FatInv, FatTypes
    <3>2. CASE WriteFills
      <4>1. PICK new : new = [file EXCEPT !.nSize = @ + 1]
        OBVIOUS
      <4>2. m_Files' = [m_Files EXCEPT ![1] = new]
        BY <1>3, <1>4, <3>2, <4>1 DEF WriteFills
      <4>3. new.bWrite /\ new.title = file.title /\ new.version = file.version
        BY <4>1 DEF OpenFile
      <4> QED
        BY <1>4, <4>2, <4>3
    <3>3. CASE WriteAllocates
      <4>1. PICK n : m_Files' = [m_Files EXCEPT ![1].nCluster = n,
                                   ![1].nFirstCluster = IF @ = 0 THEN n ELSE @]
        BY <1>3, <3>3 DEF WriteAllocates
      <4>2. PICK new : new = [file EXCEPT !.nCluster = n,
                                !.nFirstCluster = IF file.nFirstCluster = 0 THEN n
                                                  ELSE file.nFirstCluster]
        OBVIOUS
      <4>3. m_Files' = [m_Files EXCEPT ![1] = new]
        BY <1>4, <4>1, <4>2, OldNumbers DEF UpdateInv, FatInv, FatTypes, OpenFile
      <4>4. new.bWrite /\ new.title = file.title /\ new.version = file.version
        BY <4>2 DEF OpenFile
      <4> QED
        BY <1>4, <4>3, <4>4
    <3> QED
      BY <3>1, <3>2, <3>3
  <2> QED
    BY <2>1, OldNumbers DEF UpdateInv, FatInv, FatTypes
<1>6. fsOp' = NoCall \/ (fsOp'.name \in {"allocate", "fill"} /\ fsOp'.h = 1)
  BY <1>3, <1>4 DEF WriteAllocates, WriteFails, WriteFills, WriteCall
<1>7. WritesFirmware'
  BY <1>1, <1>3, <1>5, SameFirmware DEF WritesFirmware
<1> QED
  BY <1>1, <1>3, <1>5, <1>6, <1>7 DEF CardOK

\* The FSInfo sector and Flush(), of FileClose() or of UnMount()
LEMMA CardFlushes ==
  ASSUME UpdateInv, Running, UNCHANGED programVars, UpdateFSInfo \/ FlushStep
  PROVE  CardOK'
<1>1. UNCHANGED <<phase, upc, m_bufferKernel, okay, stick>> /\ UNCHANGED <<m_Files, saved>>
  BY DEF programVars, UpdateFSInfo, FlushStep
<1>2. fsOp.name \in {"fsinfo", "flush"}
  BY DEF UpdateFSInfo, FlushStep
<1>3. upc = "unmount" /\ \A h \in Handle \ {1} : m_Files[h] = NotOpen
  BY <1>2, CallTells DEF UpdateInv, CardOK
<1>4. fsOp \in CloseCall
  BY <1>2, CallIs DEF UpdateInv, FatInv
<1>5. fsOp'.name \in {"fsinfo", "flush"} /\ fsOp'.h = fsOp.h
  BY <1>2, <1>4 DEF UpdateFSInfo, FlushStep, CloseCall
<1>9. fsOp # NoCall /\ fsOp' # NoCall
  BY <1>2, <1>5 DEF NoCall
<1>6. WritesFirmware' <=> WritesFirmware
  BY <1>1, SameFirmware DEF WritesFirmware
<1>7. FirmwareSaved' <=> FirmwareSaved
  BY <1>1, SameFirmware DEF FirmwareSaved, SavedAs
<1>8. Firmware' = Firmware /\ OldFirmware' = OldFirmware
  BY <1>1, SameFirmware DEF OldFirmware
<1> QED
  BY <1>1, <1>2, <1>3, <1>5, <1>6, <1>7, <1>8, <1>9 DEF UpdateInv, CardOK, InUnMount

\* The firmware is closed, and with that saved.
LEMMA CardCloses ==
  ASSUME UpdateInv, Running, UNCHANGED programVars, fsOp.h = 1, CloseEnds
  PROVE  CardOK'
<1>1. UNCHANGED <<phase, upc, m_bufferKernel, okay, stick>>
  BY DEF programVars
<1>2. fsOp.name = "flush" /\ fsOp' = NoCall
  BY DEF CloseEnds
<1>3. upc = "unmount" /\ \A h \in Handle \ {1} : m_Files[h] = NotOpen
  BY <1>2, CallTells DEF UpdateInv, CardOK
<1>4. phase \in Saving /\ WritesFirmware /\ (okay => m_Files[1].nSize = Len(Firmware))
  BY <1>2, CallTells
<1>5. /\ m_Files'[1] = NotOpen /\ \A h \in Handle \ {1} : m_Files'[h] = NotOpen
  BY <1>3, OldNumbers DEF CloseEnds, UpdateInv, FatInv, FatTypes
<1>6. saved' = [saved EXCEPT ![FILENAME_KERNEL] =
                  [size |-> m_Files[1].nSize, version |-> VersionOf(Index)]]
  BY <1>4 DEF CloseEnds, WritesFirmware
<1>7. saved'[FILENAME_KERNEL] = [size |-> m_Files[1].nSize, version |-> VersionOf(Index)]
  BY <1>6, OldNumbers DEF UpdateInv, FatInv, FatTypes
<1>8. okay => FirmwareSaved'
  BY <1>1, <1>4, <1>7, SameFirmware DEF FirmwareSaved, SavedAs
<1> QED
  BY <1>1, <1>2, <1>3, <1>4, <1>5, <1>8 DEF CardOK, InUnMount, Saving

LEMMA CardStepKeeps ==
  ASSUME UpdateInv, Running, CardStep
  PROVE  UpdateInv'
<1>1. UNCHANGED programVars /\ UNCHANGED <<phase, upc, m_bufferKernel, okay, stick>>
  BY DEF CardStep, programVars
<1>2. FatInv'
  <2>1. CASE FsStep
    BY <2>1, DeleteEndsKeeps, WriteAllocatesKeeps, WriteFailsKeeps, WriteFillsKeeps,
       UpdateFSInfoKeeps, FlushKeeps DEF FsStep, UpdateInv
  <2>2. CASE fsOp.h = 1 /\ CloseEnds
    <3>1. fsOp.h # 0
      BY <2>2
    <3> QED
      BY <2>2, <3>1, CloseEndsKeeps DEF UpdateInv
  <2> QED
    BY <2>1, <2>2 DEF CardStep
<1>3. CardOK'
  BY <1>1, CardDeletes, CardWrites, CardFlushes, CardCloses DEF CardStep, FsStep
<1>4. phase \in Loading => saved'[FILENAME_KERNEL] = saved[FILENAME_KERNEL]
  <2>1. CASE fsOp.h = 1 /\ CloseEnds
    <3>1. fsOp.name = "flush"
      BY <2>1 DEF CloseEnds
    <3>2. phase \in Saving
      BY <2>1, <3>1, CallTells
    <3> QED
      BY <3>2 DEF Saving, Loading
  <2>2. CASE FsStep
    BY <2>2 DEF FsStep, DeleteEnds, WriteAllocates, WriteFails, WriteFills, UpdateFSInfo, FlushStep
  <2> QED
    BY <2>1, <2>2 DEF CardStep
<1>5. upc' = upc /\ upc \notin {"stick", "success", "reset", "given up", "mount", "create"}
  <2>1. fsOp.name \in {"delete", "allocate", "fill", "fsinfo", "flush"}
    BY DEF CardStep, FsStep, DeleteEnds, WriteAllocates, WriteFails, WriteFills, UpdateFSInfo,
           FlushStep, CloseEnds
  <2> QED
    BY <1>1, <2>1, CallTells
<1>6. FirmwareOK'
  BY <1>1, <1>4, <1>5, FirmwareKept DEF UpdateInv, FirmwareOK
<1>7. PlaceOK'
  BY <1>1 DEF UpdateInv, PlaceOK
<1> QED
  BY <1>2, <1>3, <1>6, <1>7 DEF UpdateInv

-----------------------------------------------------------------------------
(* UnMount(), and all steps together                                        *)

LEMMA UnMountsKeeps ==
  ASSUME UpdateInv, Running, UnMounts
  PROVE  UpdateInv'
<1>1. /\ upc = "unmount" /\ fsOp = NoCall /\ fsOp' = [name |-> "fsinfo", h |-> 0]
      /\ UNCHANGED <<disk, m_BufferList, m_nNextFreeCluster, m_Files, saved, mountedHint>>
      /\ UNCHANGED <<phase, upc, m_bufferKernel, okay, stick>>
  BY DEF UnMounts, programVars
<1>2. fsOp.name = "none"
  BY <1>1, CallTells
<1>3. FatInv'
  BY <1>1, <1>2, UnMountKeeps DEF UpdateInv
<1>4. FirmwareOK'
  BY <1>1, FirmwareKept DEF UpdateInv, FirmwareOK
<1>5. PlaceOK'
  BY <1>1 DEF UpdateInv, PlaceOK
<1>6. /\ \A h \in Handle : m_Files[h] = NotOpen
      /\ okay => IF phase = "load old" THEN m_bufferKernel[0] = OldFirmware ELSE FirmwareSaved
  BY <1>1, <1>2 DEF UpdateInv, CardOK
<1>7. (FirmwareSaved' <=> FirmwareSaved) /\ OldFirmware' = OldFirmware
  BY <1>1, SameFirmware DEF FirmwareSaved, SavedAs, OldFirmware
<1>8. InUnMount'
  BY <1>1 DEF InUnMount
<1>9. CardOK'
  BY <1>1, <1>6, <1>7, <1>8, OldNumbers DEF CardOK
<1> QED
  BY <1>3, <1>4, <1>5, <1>9 DEF UpdateInv

\* The load or the save is over: the next begins with nothing open and all
\* that was written on the card.
LEMMA UnMountedKeeps ==
  ASSUME UpdateInv, Running, UnMounted
  PROVE  UpdateInv'
<1>1. /\ upc = "unmount" /\ fsOp.name = "flush" /\ fsOp.h = 0 /\ DirtyBuffers = {}
      /\ fsOp' = NoCall /\ Returns(okay)
      /\ UNCHANGED <<disk, m_BufferList, m_nNextFreeCluster, m_Files, saved, mountedHint>>
      /\ UNCHANGED <<m_bufferKernel, okay, stick>>
  BY DEF UnMounted
<1>2. FatInv'
  BY <1>1, UnMountKeeps DEF UpdateInv
<1>3. /\ \A h \in Handle : m_Files[h] = NotOpen
      /\ okay => IF phase = "load old" THEN m_bufferKernel[0] = OldFirmware ELSE FirmwareSaved
  <2>1. fsOp.h # 1
    BY <1>1
  <2>2. /\ \A h \in Handle \ {1} : m_Files[h] = NotOpen
        /\ m_Files[1] = NotOpen
        /\ okay => IF phase = "load old" THEN m_bufferKernel[0] = OldFirmware ELSE FirmwareSaved
    BY <1>1, <2>1 DEF UpdateInv, CardOK
  <2> QED
    BY <2>2
<1>4. /\ phase \in Saving \cup {"load old"} /\ okay \in BOOLEAN /\ phase # "load new"
      /\ phase = "load old" => m_bufferKernel[1] = <<>>
  BY <1>1 DEF UpdateInv, PlaceOK, FirmwareOK, Saving
<1>5. \/ phase = "load old" /\ okay /\ phase' = "load new" /\ upc' = "wait"
      \/ phase \in Saving /\ okay /\ phase' = phase /\ upc' = "success"
      \/ phase = "save new" /\ phase' = "restore" /\ upc' = "mount"
      \/ phase' = phase /\ phase # "save new" /\ upc' = "given up"
  BY <1>1, <1>4, ReturnsTo DEF Loading
<1>6. Quiet'
  BY <1>1, <1>3, OldNumbers DEF Quiet, DirtyBuffers
<1>7. OldFirmware' = OldFirmware /\ NewFirmware' = NewFirmware
  BY <1>1 DEF OldFirmware, NewFirmware
<1>8. CASE phase = "load old" /\ okay /\ phase' = "load new" /\ upc' = "wait"
  <2>1. FirmwareOK'
    BY <1>1, <1>3, <1>7, <1>8 DEF UpdateInv, FirmwareOK, Loading, Saving, SavedAs
  <2>2. PlaceOK'
    BY <1>1, <1>4, <1>8 DEF PlaceOK
  <2>3. CardOK'
    BY <1>1, <1>3, <1>6, <1>8 DEF CardOK
  <2> QED
    BY <1>2, <2>1, <2>2, <2>3 DEF UpdateInv
<1>9. CASE phase \in Saving /\ okay /\ phase' = phase /\ upc' = "success"
  <2>1. FirmwareSaved'
    <3>1. FirmwareSaved
      BY <1>3, <1>9 DEF Saving
    <3> QED
      BY <1>1, <1>9, <3>1, SameFirmware DEF FirmwareSaved, SavedAs
  <2>2. FirmwareOK'
    BY <1>1, <1>7, <1>9, <2>1 DEF UpdateInv, FirmwareOK, Loading, Saving
  <2> QED
    BY <1>2, <1>9, <2>2 DEF UpdateInv, Running, Ended
<1>10. CASE phase = "save new" /\ phase' = "restore" /\ upc' = "mount"
  <2>1. FirmwareOK'
    BY <1>1, <1>7, <1>10 DEF UpdateInv, FirmwareOK, Loading, Saving
  <2>2. PlaceOK'
    BY <1>10 DEF PlaceOK, Saving
  <2>3. CardOK'
    BY <1>1, <1>3, <1>6, <1>10 DEF CardOK
  <2> QED
    BY <1>2, <2>1, <2>2, <2>3 DEF UpdateInv
<1>11. CASE phase' = phase /\ phase # "save new" /\ upc' = "given up"
  <2>1. FirmwareOK'
    BY <1>1, <1>7, <1>11 DEF UpdateInv, FirmwareOK, Loading, Saving, SavedAs
  <2> QED
    BY <1>2, <1>11, <2>1 DEF UpdateInv, Running, Ended
<1> QED
  BY <1>5, <1>8, <1>9, <1>10, <1>11

LEMMA UpdateStarts ==
  ASSUME UpdateInit
  PROVE  UpdateInv
<1>1. /\ phase = "ask" /\ upc = "start" /\ okay = FALSE /\ stick = 0
      /\ m_bufferKernel = EmptyBuffers
      /\ m_BufferList = [i \in 1 .. FAT_BUFFERS |-> NoBuffer]
      /\ m_Files = [h \in Handle |-> NotOpen] /\ fsOp = NoCall
      /\ saved = [t \in Title |-> IF t = FILENAME_KERNEL
                                  THEN [size |-> OldSize, version |-> "old"] ELSE NotSaved]
  BY DEF UpdateInit, CardInit, ProgramInit, NothingOpen
<1>2. FatInv
  BY CardSound DEF UpdateInit
<1>3. SavedAs(OldSize, "old")
  BY <1>1, OldNumbers DEF SavedAs
<1>4. TwoBuffers(m_bufferKernel) /\ m_bufferKernel[0] = <<>> /\ m_bufferKernel[1] = <<>>
  BY <1>1, EmptyBuffersAre
<1>5. FirmwareOK
  BY <1>1, <1>3, <1>4 DEF FirmwareOK, Loading, Saving
<1>6. DirtyBuffers = {}
  BY <1>1 DEF DirtyBuffers, NoBuffer
<1>7. Quiet
  BY <1>1, <1>6, OldNumbers DEF Quiet
<1>8. PlaceOK
  BY <1>1, <1>4 DEF PlaceOK
<1>9. CardOK
  BY <1>1, <1>7 DEF CardOK
<1> QED
  BY <1>2, <1>5, <1>8, <1>9 DEF UpdateInv

LEMMA UpdateSound == UpdateSpec => []UpdateInv
<1>1. UpdateInit => UpdateInv
  BY UpdateStarts
<1>2. UpdateInv /\ [UpdateNext]_updateVars => UpdateInv'
  <2> SUFFICES ASSUME UpdateInv, [UpdateNext]_updateVars
               PROVE  UpdateInv'
    OBVIOUS
  <2>1. CASE Second \/ WatchdogResets \/ UpdateOver \/ UNCHANGED updateVars
    BY <2>1, TimeKeeps
  <2>2. CASE ButtonA \/ ButtonB \/ PollsUSB \/ ReadsStick \/ StickEnds
    BY <2>2, ButtonAKeeps, ButtonBKeeps, PollsUSBKeeps, ReadsStickKeeps, StickEndsKeeps
  <2>3. CASE Running /\ (MountsCard \/ MountFails \/ OpensFile \/ ReadsChunk \/ LoadEnds)
    BY <2>3, MountsCardKeeps, MountFailsKeeps, OpensFileKeeps, ReadsChunkKeeps, LoadEndsKeeps
  <2>4. CASE Running /\ (CreatesFile \/ WritesFile \/ ClosesFile \/ CardStep
                         \/ UnMounts \/ UnMounted)
    BY <2>4, CreatesFileKeeps, WritesFileKeeps, ClosesFileKeeps, CardStepKeeps, UnMountsKeeps,
       UnMountedKeeps
  <2> QED
    BY <2>1, <2>2, <2>3, <2>4 DEF UpdateNext
<1> QED
  BY <1>1, <1>2, PTL DEF UpdateSpec

\* What a save was said to have saved is on the card.
LEMMA SuccessSound ==
  ASSUME UpdateInv, upc = "success"
  PROVE  OnDisk(FILENAME_KERNEL) = IF phase = "restore" THEN OldFirmware ELSE NewFirmware
<1>1. /\ phase \in Saving /\ stick \in Nat \ {0}
      /\ m_bufferKernel[0] = OldFirmware /\ m_bufferKernel[1] = NewFirmware
      /\ FirmwareSaved
  BY DEF UpdateInv, FirmwareOK
<1>2. PICK size, v : /\ size = IF phase = "restore" THEN OldSize ELSE stick
                     /\ v = IF phase = "restore" THEN "old" ELSE "new"
  OBVIOUS
<1>3. saved[FILENAME_KERNEL] = [size |-> size, version |-> v]
  BY <1>1, <1>2, IndexIs, FirmwareLengths DEF FirmwareSaved, SavedAs, Firmware, Saving
<1>4. saved[FILENAME_KERNEL].size = size /\ saved[FILENAME_KERNEL].version = v /\ size # 0
  BY <1>1, <1>2, <1>3, OldNumbers
<1>5. OnDisk(FILENAME_KERNEL) = Contents(FILENAME_KERNEL, v, size)
  BY <1>4, OldNumbers, SavedIsOnDisk DEF UpdateInv
<1> QED
  BY <1>2, <1>5 DEF OldFirmware, NewFirmware

\* A firmware that can be booted is on the card at any time, but for three cases:
\* one is being written, with the whole of the old and of the new one in the
\* buffers; the watchdog has reset the system out of that; or the restore, the
\* last attempt, has failed as well (filesystem_user.cpp).
THEOREM FirmwareNeverLost == UpdateSpec => []TornOnlyWhileSaving
<1>1. UpdateInv => TornOnlyWhileSaving
  <2> SUFFICES ASSUME UpdateInv, ~Bootable
               PROVE  TornOnlyWhileSaving
    BY DEF TornOnlyWhileSaving
  <2>1. ~SavedAs(OldSize, "old")
    <3> SUFFICES ASSUME SavedAs(OldSize, "old")
                 PROVE  Bootable
      OBVIOUS
    <3>1. saved[FILENAME_KERNEL].size = OldSize /\ saved[FILENAME_KERNEL].version = "old"
      BY DEF SavedAs
    <3>2. OnDisk(FILENAME_KERNEL) = OldFirmware
      BY <3>1, OldNumbers, SavedIsOnDisk DEF UpdateInv, OldFirmware
    <3> QED
      BY <3>2 DEF Bootable
  <2>2. upc # "success"
    BY SuccessSound DEF Bootable
  <2>3. phase \in Saving /\ ~(phase = "save new" /\ upc \in {"mount", "create", "given up"})
    BY <2>1 DEF UpdateInv, FirmwareOK
  <2>4. CASE upc = "reset"
    BY <2>3, <2>4 DEF TornOnlyWhileSaving, Saving
  <2>5. CASE upc = "given up"
    BY <2>3, <2>5 DEF TornOnlyWhileSaving, Saving
  <2>6. CASE Running
    <3>1. m_bufferKernel[0] = OldFirmware /\ m_bufferKernel[1] = NewFirmware
      BY <2>3, <2>6 DEF UpdateInv, FirmwareOK, Running, Ended
    <3>2. upc \in {"mount", "create", "write", "close", "unmount"}
      BY <2>3, <2>6 DEF UpdateInv, PlaceOK, Saving
    <3> QED
      BY <2>3, <2>6, <3>1, <3>2 DEF TornOnlyWhileSaving, Saving
  <2> QED
    BY <2>2, <2>4, <2>5, <2>6 DEF Running, Ended
<1> QED
  BY <1>1, UpdateSound, PTL

\* What is said to be saved is on the card: after Flush(), not in the cache.
THEOREM SuccessIsReal == UpdateSpec => []SuccessIsOnCard
<1>1. UpdateInv => SuccessIsOnCard
  BY SuccessSound DEF SuccessIsOnCard
<1> QED
  BY <1>1, UpdateSound, PTL

=============================================================================
