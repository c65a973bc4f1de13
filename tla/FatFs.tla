------------------------------- MODULE FatFs -------------------------------
(***************************************************************************)
(* The FAT32 file system of lib/fs/fat: a disk of sectors, the write-back    *)
(* cache over it, the allocation table, the root directory and the files a   *)
(* client has open.  What a reset leaves is disk; all else is lost by it.    *)
(*                                                                           *)
(* A cluster is one sector, a file a whole number of sectors, and the table, *)
(* the root directory and the FSInfo take one sector each.  A step writes    *)
(* one sector at most, so that a reset is looked at between any two writes.  *)
(***************************************************************************)
EXTENDS Naturals, FiniteSets, SequencesExt, Links

CONSTANTS Title,          \* the names of files
          Handle,         \* 1 .. FAT_FILES; 0 is none
          Version,        \* what a client may write into a file
          ClusterCount, FAT_BUFFERS

ASSUME FatAssumption ==
  /\ ClusterCount \in Nat \ {0} /\ FAT_BUFFERS \in Nat /\ FAT_BUFFERS >= 3
  /\ Handle \subseteq Nat \ {0}

Cluster == 2 .. ClusterCount + 1
EOC == ClusterCount + 2          \* a table entry; 0 is a free one

\* Sector numbers: data sectors have the number of their cluster.
FSInfoSector == 0
FATSector == 1
RootSector == ClusterCount + 2
BUFFER_NOSECTOR == ClusterCount + 3

VARIABLES
  disk,                \* the sectors on the disk
  m_BufferList,        \* the cache, most recently used buffer first
  m_nNextFreeCluster,  \* where the search for a free cluster starts
  m_Files,             \* per handle
  fsOp,                \* the call in progress; no task yields in one
  saved,               \* history: what was last written to a title and closed
  mountedHint          \* history: m_nNextFreeCluster when it was mounted

fatVars == <<disk, m_BufferList, m_nNextFreeCluster, m_Files, fsOp, saved, mountedHint>>

NoEntry == [first |-> 0, size |-> 0, used |-> FALSE]
NotOpen == [open |-> FALSE, bWrite |-> FALSE]
NotSaved == [size |-> 0, version |-> "none"]
NoCall == [name |-> "none"]
NoBuffer == [nSector |-> BUFFER_NOSECTOR, bDirty |-> FALSE, Data |-> 0]

-----------------------------------------------------------------------------
(* The cache.  Its state is passed as a record c of the list and the disk.  *)

Cache == [list |-> m_BufferList, disk |-> disk]
BecomesCache(c) == m_BufferList' = c.list /\ disk' = c.disk

MoveBufferFirst(list, i) == <<list[i]>> \o RemoveAt(list, i)
MoveBufferLast(list, i) == Append(RemoveAt(list, i), list[i])

\* The first buffer of a sector, 0 if there is none
BufferOf(list, nSector) == SelectInSeq(list, LAMBDA b : b.nSector = nSector)

\* The buffer a new sector gets: the last empty one, else the last one, for a
\* buffer in use is at the front of at least three.
Victim(list) ==
  LET empty == SelectLastInSeq(list, LAMBDA b : b.nSector = BUFFER_NOSECTOR)
  IN  IF empty # 0 THEN empty ELSE Len(list)

\* The sector becomes the first of the list; the one it replaces is written.
GetSector(c, nSector, bWriteOnly) ==
  LET hit == BufferOf(c.list, nSector)
      i == Victim(c.list)
      old == c.list[i]
      new == [nSector |-> nSector, bDirty |-> FALSE,
              Data |-> IF bWriteOnly THEN old.Data ELSE c.disk[nSector]]
  IN  IF hit # 0 THEN [c EXCEPT !.list = MoveBufferFirst(@, hit)]
      ELSE [list |-> <<new>> \o RemoveAt(c.list, i),
            disk |-> IF old.nSector # BUFFER_NOSECTOR /\ old.bDirty
                     THEN [c.disk EXCEPT ![old.nSector] = old.Data]
                     ELSE c.disk]

\* What is in the sector that GetSector returned, and new contents for it
DataOf(c) == c.list[1].Data
MarkDirty(c, data) == [c EXCEPT !.list[1].Data = data, !.list[1].bDirty = TRUE]

\* FreeSector() moves a data sector to the end; a critical one stays.
FreeData(c) == [c EXCEPT !.list = MoveBufferLast(@, 1)]

GetFAT(c) == GetSector(c, FATSector, FALSE)
GetRoot(c) == GetSector(c, RootSector, FALSE)
TheFAT == DataOf(GetFAT(Cache))
TheRoot == DataOf(GetRoot(Cache))

\* Mount: an empty cache, through which Initialize() reads two sectors.
Mounted ==
  LET empty == [list |-> [i \in 1 .. FAT_BUFFERS |-> NoBuffer], disk |-> disk]
      afterFSInfo == FreeData(GetSector(empty, FSInfoSector, FALSE))
  IN  FreeData(GetSector(afterFSInfo, ClusterCount + 1, FALSE))

-----------------------------------------------------------------------------
(* The calls                                                                *)

\* The clusters of a chain, as FreeClusterChain() and FileRead() follow it
ChainFrom(fat, first) == From(Cluster, fat, first)

\* A file that is opened gets the first entry of the file table not in use.
FirstUnused(hFile) ==
  ~m_Files[hFile].open /\ \A h \in Handle : h < hFile => m_Files[h].open

\* FileOpen(): for reading; the entry has to exist.
FileOpen(hFile, pTitle) ==
  /\ fsOp = NoCall /\ FirstUnused(hFile)
  /\ TheRoot[pTitle].used
  /\ BecomesCache(GetRoot(Cache))
  /\ m_Files' = [m_Files EXCEPT ![hFile] =
       [open |-> TRUE, bWrite |-> FALSE, title |-> pTitle, nOffset |-> 0,
        nSize |-> TheRoot[pTitle].size, nCluster |-> TheRoot[pTitle].first]]
  /\ UNCHANGED <<m_nNextFreeCluster, fsOp, saved, mountedHint>>

\* FileDelete(): the entry is found ...
DeleteBegins(pTitle, then) ==
  /\ fsOp = NoCall
  /\ TheRoot[pTitle].used /\ TheRoot[pTitle].first # 0
  /\ BecomesCache(GetRoot(Cache))
  /\ fsOp' = [name |-> "delete", title |-> pTitle, then |-> then]
  /\ saved' = [saved EXCEPT ![pTitle] = NotSaved]
  /\ UNCHANGED <<m_nNextFreeCluster, m_Files, mountedHint>>

Opened(hFile, pTitle, version) ==
  [m_Files EXCEPT ![hFile] =
     [open |-> TRUE, bWrite |-> TRUE, title |-> pTitle, nSize |-> 0,
      nCluster |-> 0, nFirstCluster |-> 0, version |-> version]]

Created == [first |-> 0, size |-> 0, used |-> TRUE]

\* Mutant: only the first cluster of the chain is freed.
DeleteEnds_FirstOnly ==
  LET c == GetFAT(Cache)
      t == fsOp.title
      first == TheRoot[t].first
      freed == MarkDirty(c, [DataOf(c) EXCEPT ![first] = 0])
      r == GetRoot(freed)
      created == fsOp.then.name = "create"
      after == MarkDirty(r, [DataOf(r) EXCEPT ![t] =
                               IF created THEN Created ELSE NoEntry])
  IN  /\ fsOp.name = "delete"
      /\ BecomesCache(IF created THEN after ELSE GetFAT(after))
      /\ m_nNextFreeCluster' =
           IF first < m_nNextFreeCluster THEN first ELSE m_nNextFreeCluster
      /\ m_Files' = IF created THEN Opened(fsOp.then.h, t, fsOp.then.v) ELSE m_Files
      /\ fsOp' = NoCall
      /\ UNCHANGED <<saved, mountedHint>>

\* ... and its chain is freed while its sector is kept, the buffer of the table
\* coming to the front; FileCreate() goes on and gets the root directory again,
\* to make a new entry for the file it opens for writing.
DeleteEnds ==
  LET c == GetFAT(Cache)
      t == fsOp.title
      chain == ChainFrom(DataOf(c), TheRoot[t].first)
      freed == MarkDirty(c, [n \in Cluster |-> IF n \in chain THEN 0 ELSE DataOf(c)[n]])
      r == GetRoot(freed)
      created == fsOp.then.name = "create"
      after == MarkDirty(r, [DataOf(r) EXCEPT ![t] =
                               IF created THEN Created ELSE NoEntry])
  IN  /\ fsOp.name = "delete"
      /\ BecomesCache(IF created THEN after ELSE GetFAT(after))
      /\ m_nNextFreeCluster' =
           CHOOSE n \in chain \cup {m_nNextFreeCluster} :
             \A k \in chain \cup {m_nNextFreeCluster} : n <= k
      /\ m_Files' = IF created THEN Opened(fsOp.then.h, t, fsOp.then.v) ELSE m_Files
      /\ fsOp' = NoCall
      /\ UNCHANGED <<saved, mountedHint>>

\* A file that is not there, or has no chain
DeletesAtOnce(pTitle) ==
  LET r == GetRoot(Cache)
  IN  /\ fsOp = NoCall
      /\ TheRoot[pTitle].first = 0
      /\ BecomesCache(IF TheRoot[pTitle].used
                      THEN MarkDirty(r, [DataOf(r) EXCEPT ![pTitle] = NoEntry]) ELSE r)
      /\ saved' = [saved EXCEPT ![pTitle] = NotSaved]
      /\ UNCHANGED <<m_nNextFreeCluster, m_Files, fsOp, mountedHint>>

FileDelete(pTitle) ==
  DeleteBegins(pTitle, [name |-> "none"]) \/ DeletesAtOnce(pTitle)

FileCreate(hFile, pTitle, version) ==
  /\ FirstUnused(hFile)
  /\ \/ DeleteBegins(pTitle, [name |-> "create", h |-> hFile, v |-> version])
     \/ LET r == GetRoot(Cache)
        IN  /\ fsOp = NoCall
            /\ TheRoot[pTitle].first = 0      \* no entry, or an empty file
            /\ BecomesCache(MarkDirty(r, [DataOf(r) EXCEPT ![pTitle] = Created]))
            /\ m_Files' = Opened(hFile, pTitle, version)
            /\ saved' = [saved EXCEPT ![pTitle] = NotSaved]
            /\ UNCHANGED <<m_nNextFreeCluster, fsOp, mountedHint>>

\* FileWrite() of a number of sectors, which are appended one by one
FileWrite(hFile, sectors) ==
  /\ fsOp = NoCall /\ m_Files[hFile].open /\ m_Files[hFile].bWrite
  /\ fsOp' = [name |-> "allocate", h |-> hFile, left |-> sectors]
  /\ UNCHANGED <<disk, m_BufferList, m_nNextFreeCluster, m_Files, saved, mountedHint>>

\* Mutant: the hint is believed without a look at the table.
FirstFree_Unseen(fat) == {m_nNextFreeCluster}

\* AllocateCluster() searches from m_nNextFreeCluster up to the end.
FirstFree(fat) ==
  {n \in Cluster : /\ n >= m_nNextFreeCluster /\ fat[n] = 0
                   /\ \A k \in m_nNextFreeCluster .. n - 1 : fat[k] # 0}

AfterAllocated(n) == IF n <= ClusterCount THEN n + 1 ELSE 2

\* A new cluster ends the chain of the file ...
WriteAllocates ==
  LET c == GetFAT(Cache)
      fat == DataOf(c)
      file == m_Files[fsOp.h]
  IN  /\ fsOp.name = "allocate"
      /\ \E n \in FirstFree(fat) :
           /\ BecomesCache(MarkDirty(c,
                IF file.nFirstCluster = 0 THEN [fat EXCEPT ![n] = EOC]
                ELSE [fat EXCEPT ![n] = EOC, ![file.nCluster] = n]))
           /\ m_nNextFreeCluster' = AfterAllocated(n)
           /\ m_Files' = [m_Files EXCEPT
                ![fsOp.h].nCluster = n,
                ![fsOp.h].nFirstCluster = IF @ = 0 THEN n ELSE @]
      /\ fsOp' = [fsOp EXCEPT !.name = "fill"]
      /\ UNCHANGED <<saved, mountedHint>>

\* ... or there is none, and FileWrite() returns FS_ERROR.
WriteFails ==
  /\ fsOp.name = "allocate" /\ FirstFree(TheFAT) = {}
  /\ BecomesCache(GetFAT(Cache))
  /\ fsOp' = NoCall
  /\ UNCHANGED <<m_nNextFreeCluster, m_Files, saved, mountedHint>>

\* ... and its sector is filled.
WriteFills ==
  LET file == m_Files[fsOp.h]
      c == GetSector(Cache, file.nCluster, TRUE)
      data == <<file.title, file.version, file.nSize + 1>>
  IN  /\ fsOp.name = "fill"
      /\ BecomesCache(FreeData(MarkDirty(c, data)))
      /\ m_Files' = [m_Files EXCEPT ![fsOp.h].nSize = @ + 1]
      /\ fsOp' = IF fsOp.left = 1 THEN NoCall
                 ELSE [fsOp EXCEPT !.name = "allocate", !.left = @ - 1]
      /\ UNCHANGED <<m_nNextFreeCluster, saved, mountedHint>>

\* FileRead() of one sector: its cluster is looked up first.
FileRead(hFile) ==
  LET file == m_Files[hFile]
      c == GetFAT(Cache)
  IN  /\ fsOp = NoCall /\ file.open /\ ~file.bWrite /\ file.nOffset < file.nSize
      /\ IF file.nOffset = 0
         THEN UNCHANGED <<disk, m_BufferList, m_Files>>
         ELSE /\ BecomesCache(c)
              /\ m_Files' = [m_Files EXCEPT ![hFile].nCluster = DataOf(c)[@]]
      /\ fsOp' = [name |-> "read", h |-> hFile]
      /\ UNCHANGED <<m_nNextFreeCluster, saved, mountedHint>>

SectorRead == DataOf(GetSector(Cache, m_Files[fsOp.h].nCluster, FALSE))

ReadEnds ==
  LET file == m_Files[fsOp.h]
  IN  /\ fsOp.name = "read" /\ file.nCluster \in Cluster
      /\ BecomesCache(FreeData(GetSector(Cache, file.nCluster, FALSE)))
      /\ m_Files' = [m_Files EXCEPT ![fsOp.h].nOffset = @ + 1]
      /\ fsOp' = NoCall
      /\ UNCHANGED <<m_nNextFreeCluster, saved, mountedHint>>

\* FileClose(): a file read is just forgotten.
FileCloseRead(hFile) ==
  /\ fsOp = NoCall /\ m_Files[hFile].open /\ ~m_Files[hFile].bWrite
  /\ m_Files' = [m_Files EXCEPT ![hFile] = NotOpen]
  /\ UNCHANGED <<disk, m_BufferList, m_nNextFreeCluster, fsOp, saved, mountedHint>>

\* A file written gets its entry, ...
FileCloseWritten(hFile) ==
  LET file == m_Files[hFile]
      r == GetRoot(Cache)
  IN  /\ fsOp = NoCall /\ file.open /\ file.bWrite
      /\ BecomesCache(MarkDirty(r, [DataOf(r) EXCEPT ![file.title] =
           [first |-> file.nFirstCluster, size |-> file.nSize, used |-> TRUE]]))
      /\ fsOp' = [name |-> "fsinfo", h |-> hFile]
      /\ UNCHANGED <<m_nNextFreeCluster, m_Files, saved, mountedHint>>

\* ... the FSInfo sector is brought up to date, ...
UpdateFSInfo ==
  /\ fsOp.name = "fsinfo"
  /\ BecomesCache(MarkDirty(GetSector(Cache, FSInfoSector, FALSE), m_nNextFreeCluster))
  /\ fsOp' = [fsOp EXCEPT !.name = "flush"]
  /\ UNCHANGED <<m_nNextFreeCluster, m_Files, saved, mountedHint>>

DirtyBuffers ==
  {i \in 1 .. FAT_BUFFERS :
     m_BufferList[i].nSector # BUFFER_NOSECTOR /\ m_BufferList[i].bDirty}

\* ... and Flush() writes what is dirty, from the first buffer to the last.
FlushStep ==
  /\ fsOp.name = "flush"
  /\ \E i \in DirtyBuffers :
       /\ \A k \in DirtyBuffers : i <= k
       /\ disk' = [disk EXCEPT ![m_BufferList[i].nSector] = m_BufferList[i].Data]
       /\ m_BufferList' = [m_BufferList EXCEPT ![i].bDirty = FALSE]
  /\ UNCHANGED <<m_nNextFreeCluster, m_Files, fsOp, saved, mountedHint>>

CloseEnds ==
  LET file == m_Files[fsOp.h]
  IN  /\ fsOp.name = "flush" /\ DirtyBuffers = {}
      /\ m_Files' = [m_Files EXCEPT ![fsOp.h] = NotOpen]
      /\ saved' = [saved EXCEPT ![file.title] =
                     [size |-> file.nSize, version |-> file.version]]
      /\ fsOp' = NoCall
      /\ UNCHANGED <<disk, m_BufferList, m_nNextFreeCluster, mountedHint>>

FsStep == \/ DeleteEnds \/ WriteAllocates \/ WriteFails \/ WriteFills
          \/ UpdateFSInfo \/ FlushStep

-----------------------------------------------------------------------------
(* A client that writes several files at a time.  It leaves alone a file     *)
(* that is open (the calls do not look), and writes MaxSectors to a file at   *)
(* most.  Files are read by the client in module FirmwareUpdate.             *)

CONSTANTS MaxSectors,
          Hints      \* where the FSInfo sector of an empty disk may point

ASSUME HintsAssumption == Hints \subseteq Cluster

NothingOpen ==
  /\ m_BufferList = [i \in 1 .. FAT_BUFFERS |-> NoBuffer]
  /\ m_Files = [h \in Handle |-> NotOpen]
  /\ fsOp = NoCall

\* A disk that was formatted elsewhere: empty, with a hint.
FatInit ==
  /\ \E hint \in Hints :
       /\ disk = [s \in 0 .. RootSector |->
                    CASE s = FSInfoSector -> hint
                      [] s = FATSector -> [n \in Cluster |-> 0]
                      [] s = RootSector -> [t \in Title |-> NoEntry]
                      [] OTHER -> <<>>]
       /\ m_nNextFreeCluster = hint /\ mountedHint = hint
  /\ NothingOpen /\ saved = [t \in Title |-> NotSaved]

IsOpen(t) == \E h \in Handle : m_Files[h].open /\ m_Files[h].title = t

FatNext ==
  \/ \E t \in Title \ {u \in Title : IsOpen(u)} :
       \/ FileDelete(t)
       \/ \E h \in Handle, v \in Version : FileCreate(h, t, v)
  \/ \E h \in Handle :
       \/ \E n \in 1 .. MaxSectors : FileWrite(h, n) /\ m_Files[h].nSize + n <= MaxSectors
       \/ FileCloseWritten(h)
  \/ FsStep \/ CloseEnds

FatSpec == FatInit /\ [][FatNext]_fatVars

-----------------------------------------------------------------------------
(* Correctness                                                              *)

\* What the cache shows of a sector
View(s) ==
  LET hit == BufferOf(m_BufferList, s)
  IN  IF hit # 0 THEN m_BufferList[hit].Data ELSE disk[s]

Writing(t) == {h \in Handle : m_Files[h].open /\ m_Files[h].bWrite /\ m_Files[h].title = t}
FirstOf(t) ==
  IF Writing(t) = {} THEN View(RootSector)[t].first
  ELSE m_Files[CHOOSE h \in Writing(t) : TRUE].nFirstCluster
ClustersOf(t) == ChainFrom(View(FATSector), FirstOf(t))

\* No cluster belongs to two files, none is lost, and a search that starts at
\* the hint misses no free cluster it would not have missed from the start:
\* whatever order files are created, appended to, closed and deleted in, and
\* whatever the cache writes back meanwhile (CFAT, CFATInfo, CFATDirectory).
FatOK ==
  /\ \A t, u \in Title : t # u => ClustersOf(t) \cap ClustersOf(u) = {}
  /\ {n \in Cluster : View(FATSector)[n] # 0} = UNION {ClustersOf(t) : t \in Title}
  /\ \A n \in Cluster :
       n < m_nNextFreeCluster /\ View(FATSector)[n] = 0 => n < mountedHint

\* The first clusters of a chain in their order, as FileRead() follows it
ClustersInOrder(fat, first, size) ==
  LET nth[n \in 1 .. size] ==
        IF n = 1 THEN first ELSE IF nth[n - 1] \in Cluster THEN fat[nth[n - 1]] ELSE 0
  IN  nth

\* What a reset at this moment would leave of a file
OnDisk(t) ==
  LET entry == disk[RootSector][t]
      nth == ClustersInOrder(disk[FATSector], entry.first, entry.size)
  IN  [n \in 1 .. entry.size |-> IF nth[n] \in Cluster THEN disk[nth[n]] ELSE <<>>]

Contents(t, version, size) == [n \in 1 .. size |-> <<t, version, n>>]

\* A file that was closed is safe on the disk until it is created anew or
\* deleted: a reset at any moment of what is done to other files, in the
\* middle of Flush() too, leaves it as it was.
SavedFilesSurvive ==
  \A t \in Title : saved[t].size # 0 =>
    OnDisk(t) = Contents(t, saved[t].version, saved[t].size)

=============================================================================
