--------------------------- MODULE FirmwareUpdate ---------------------------
(***************************************************************************)
(* The firmware update of the application (sample/03-next_try,              *)
(* filesystem_user.cpp): with button A held at the start and button B as a   *)
(* confirmation, the firmware on the SD card is loaded into one buffer, the  *)
(* new one from a USB stick into another, the new one is written over the    *)
(* old, and the old one is restored when that fails.  The watchdog runs all  *)
(* the while and is fed with every chunk that is loaded.                     *)
(*                                                                           *)
(* The card is the file system of FatFs.  The stick is external: a file of   *)
(* some size, which can be pulled out at any time.                           *)
(***************************************************************************)
EXTENDS FatFs

CONSTANTS FILENAME_KERNEL,
          OldSize, NewSizes,   \* of the firmware, in sectors
          KRL_FILE_SIZE,       \* of a buffer
          TIMEOUT              \* of the watchdog, in seconds

ASSUME UpdateAssumption ==
  /\ FILENAME_KERNEL \in Title /\ 1 \in Handle /\ OldSize \in 1 .. ClusterCount
  /\ TIMEOUT \in Nat \ {0} /\ KRL_FILE_SIZE \in Nat /\ NewSizes \subseteq Nat \ {0}

VARIABLES
  phase,           \* what is being done to a firmware: loading or saving it
  upc,             \* where in doing it the program is
  m_bufferKernel,  \* the buffers 0 and 1
  okay,            \* the result of the load or save in progress
  stick,           \* the size of the new firmware, once a stick is there
  seconds          \* until the watchdog resets the system

programVars == <<phase, upc, m_bufferKernel, okay, stick>>
updateVars == <<fatVars, programVars, seconds>>

Index == IF phase \in {"load old", "restore"} THEN 0 ELSE 1
VersionOf(i) == IF i = 0 THEN "old" ELSE "new"
OldFirmware == Contents(FILENAME_KERNEL, "old", OldSize)
NewFirmware == Contents(FILENAME_KERNEL, "new", stick)

\* The card as it was booted from: the old firmware at its beginning
CardInit ==
  /\ disk = [s \in 0 .. RootSector |->
       CASE s = FSInfoSector -> OldSize + 2
         [] s = FATSector -> [n \in Cluster |-> IF n < OldSize + 1 THEN n + 1
                                                ELSE IF n = OldSize + 1 THEN EOC ELSE 0]
         [] s = RootSector -> [t \in Title |->
              IF t = FILENAME_KERNEL THEN [first |-> 2, size |-> OldSize, used |-> TRUE]
              ELSE NoEntry]
         [] s \in 2 .. OldSize + 1 -> <<FILENAME_KERNEL, "old", s - 1>>
         [] OTHER -> <<>>]
  /\ m_nNextFreeCluster = OldSize + 2 /\ mountedHint = OldSize + 2
  /\ NothingOpen
  /\ saved = [t \in Title |-> IF t = FILENAME_KERNEL
                              THEN [size |-> OldSize, version |-> "old"] ELSE NotSaved]

NoData == <<>>
EmptyBuffers == [i \in {0, 1} |-> NoData]

ProgramInit ==
  /\ phase = "ask" /\ upc = "start"
  /\ m_bufferKernel = EmptyBuffers
  /\ okay = FALSE /\ stick = 0 /\ seconds = TIMEOUT

UpdateInit == CardInit /\ ProgramInit

Ended == {"success", "given up", "reset"}
Running == upc \notin Ended

Goes(newPhase, place) == phase' = newPhase /\ upc' = place

\* Button A is read once.
ButtonA ==
  /\ upc = "start"
  /\ upc' \in {"window", "given up"}
  /\ UNCHANGED <<fatVars, phase, m_bufferKernel, okay, stick, seconds>>

\* Button B while the confirmation is waited for.  The wait has a limit, of
\* 5000000 / HZ seconds, which the watchdog does not let it reach.
ButtonB ==
  /\ phase = "ask" /\ upc = "window"
  /\ Goes("load old", "mount")
  /\ UNCHANGED <<fatVars, m_bufferKernel, okay, stick, seconds>>

\* Mutant: the watchdog is fed while a stick is waited for.
PollsUSB_Fed ==
  /\ phase = "load new" /\ upc = "wait"
  /\ seconds' = TIMEOUT
  /\ \/ upc' = "stick" /\ stick' \in NewSizes
     \/ UNCHANGED <<upc, stick>>
  /\ UNCHANGED <<fatVars, phase, m_bufferKernel, okay>>

\* A stick is waited for without limit, in steps of 100 ms.
PollsUSB ==
  /\ phase = "load new" /\ upc = "wait"
  /\ \/ upc' = "stick" /\ stick' \in NewSizes
     \/ UNCHANGED <<upc, stick>>
  /\ UNCHANGED <<fatVars, phase, m_bufferKernel, okay, seconds>>

-----------------------------------------------------------------------------
(* The SD card                                                              *)

\* A new CFATFileSystem is mounted, or the mount fails.
MountsCard ==
  /\ upc = "mount"
  /\ BecomesCache(Mounted)
  /\ m_nNextFreeCluster' = disk[FSInfoSector] /\ mountedHint' = disk[FSInfoSector]
  /\ m_Files' = [h \in Handle |-> NotOpen]
  /\ upc' = IF phase = "load old" THEN "open" ELSE "create"
  /\ UNCHANGED <<fsOp, saved, phase, m_bufferKernel, okay, stick, seconds>>

\* What follows a load or a save that went well, or not
Returns(result) ==
  CASE phase = "load old" /\ result -> Goes("load new", "wait")
    [] phase = "load new" /\ result -> Goes("save new", "mount")
    [] phase \in {"save new", "restore"} /\ result -> Goes(phase, "success")
    [] phase = "save new" /\ ~result -> Goes("restore", "mount")
    [] OTHER -> Goes(phase, "given up")

MountFails ==
  /\ upc = "mount"
  /\ Returns(FALSE)
  /\ UNCHANGED <<fatVars, m_bufferKernel, okay, stick, seconds>>

OpensFile ==
  /\ upc = "open"
  /\ FileOpen(1, FILENAME_KERNEL)
  /\ upc' = "read"
  /\ UNCHANGED <<phase, m_bufferKernel, okay, stick, seconds>>

BufferFull == Len(m_bufferKernel[Index]) = KRL_FILE_SIZE

\* filesystem_load_file(): chunk after chunk is read into the buffer.
ReadsChunk ==
  /\ upc = "read" /\ ~BufferFull
  /\ \/ FileRead(1) /\ UNCHANGED <<m_bufferKernel, seconds>>
     \/ /\ ReadEnds
        /\ m_bufferKernel' = [m_bufferKernel EXCEPT ![0] = Append(@, SectorRead)]
        /\ seconds' = TIMEOUT
  /\ UNCHANGED <<phase, upc, okay, stick>>

\* Mutant: a full buffer is taken for the whole file.
Loaded_BufferFull == TRUE

\* The end of the file has been seen; a full buffer is a failure.
Loaded == ~BufferFull

LoadEnds ==
  /\ phase = "load old" /\ upc = "read"
  /\ BufferFull \/ m_Files[1].nOffset = m_Files[1].nSize
  /\ FileCloseRead(1)
  /\ okay' = Loaded /\ upc' = "unmount"
  /\ UNCHANGED <<phase, m_bufferKernel, stick, seconds>>

\* FileCreate() can refuse, as for a file that is marked read-only.
CreatesFile ==
  /\ upc = "create"
  /\ \/ /\ FileCreate(1, FILENAME_KERNEL, VersionOf(Index))
        /\ upc' = "write" /\ UNCHANGED okay
     \/ /\ fsOp = NoCall /\ upc' = "unmount" /\ okay' = FALSE
        /\ UNCHANGED fatVars
  /\ UNCHANGED <<phase, m_bufferKernel, stick, seconds>>

WritesFile ==
  /\ upc = "write"
  /\ FileWrite(1, Len(m_bufferKernel[Index]))
  /\ upc' = "close"
  /\ UNCHANGED <<phase, m_bufferKernel, okay, stick, seconds>>

\* Mutant: the number of bytes written is not looked at.
Written_Unseen == TRUE

Written == m_Files[1].nSize = Len(m_bufferKernel[Index])

ClosesFile ==
  /\ upc = "close"
  /\ FileCloseWritten(1)
  /\ okay' = Written
  /\ upc' = "unmount"
  /\ UNCHANGED <<phase, m_bufferKernel, stick, seconds>>

\* The file system's own steps in between
CardStep ==
  /\ FsStep \/ (fsOp.name = "flush" /\ fsOp.h = 1 /\ CloseEnds)
  /\ UNCHANGED <<programVars, seconds>>

\* UnMount() writes what is dirty ...
UnMounts ==
  /\ upc = "unmount" /\ fsOp = NoCall
  /\ fsOp' = [name |-> "fsinfo", h |-> 0]
  /\ UNCHANGED <<disk, m_BufferList, m_nNextFreeCluster, m_Files, saved, mountedHint>>
  /\ UNCHANGED <<programVars, seconds>>

\* ... and the load or the save returns.
UnMounted ==
  /\ upc = "unmount" /\ fsOp.name = "flush" /\ fsOp.h = 0 /\ DirtyBuffers = {}
  /\ fsOp' = NoCall
  /\ Returns(okay)
  /\ UNCHANGED <<disk, m_BufferList, m_nNextFreeCluster, m_Files, saved, mountedHint>>
  /\ UNCHANGED <<m_bufferKernel, okay, stick, seconds>>

-----------------------------------------------------------------------------
(* The stick and the watchdog                                               *)

ReadsStick ==
  /\ upc = "stick" /\ ~BufferFull /\ Len(m_bufferKernel[1]) < stick
  /\ m_bufferKernel' = [m_bufferKernel EXCEPT ![1] = Append(@,
       <<FILENAME_KERNEL, "new", Len(m_bufferKernel[1]) + 1>>)]
  /\ seconds' = TIMEOUT
  /\ UNCHANGED <<fatVars, phase, upc, okay, stick>>

StickEnds ==
  /\ upc = "stick"
  /\ \/ (BufferFull \/ Len(m_bufferKernel[1]) = stick) /\ Returns(Loaded)
     \/ Returns(FALSE)          \* it is not readable, or was pulled out
  /\ UNCHANGED <<fatVars, m_bufferKernel, okay, stick, seconds>>

Second ==
  /\ Running /\ seconds > 0
  /\ seconds' = seconds - 1
  /\ UNCHANGED <<fatVars, programVars>>

\* What is in memory is lost, the buffers with it.
WatchdogResets ==
  /\ Running /\ seconds = 0
  /\ upc' = "reset"
  /\ m_bufferKernel' = EmptyBuffers
  /\ UNCHANGED <<fatVars, phase, okay, stick, seconds>>

\* The system is reset or rebooted, or goes on without an update.
UpdateOver == ~Running /\ UNCHANGED updateVars

UpdateNext ==
  \/ ButtonA \/ ButtonB \/ PollsUSB
  \/ Running /\ (\/ MountsCard \/ MountFails \/ OpensFile \/ ReadsChunk \/ LoadEnds
                 \/ CreatesFile \/ WritesFile \/ ClosesFile \/ CardStep
                 \/ UnMounts \/ UnMounted)
  \/ ReadsStick \/ StickEnds
  \/ Second \/ WatchdogResets \/ UpdateOver

\* Time passes; whether the program gets on does not matter.
UpdateFairness == WF_updateVars(Second) /\ WF_updateVars(WatchdogResets)

UpdateSpec == UpdateInit /\ [][UpdateNext]_updateVars /\ UpdateFairness

-----------------------------------------------------------------------------
(* Correctness                                                              *)

Bootable == OnDisk(FILENAME_KERNEL) \in {OldFirmware, NewFirmware}

\* Once the program has asked for an update, the card is without a whole firmware
\* only in three cases (filesystem_user.cpp).  While one is being saved, when the
\* whole of both is in the buffers and the old one can be restored; until that
\* begins, what a reset leaves can be booted.  After a reset out of a save or a
\* restore.  And when the restore has failed too, and the program says that the
\* firmware has to be restored manually.
TornOnlyWhileSaving ==
  upc # "start" /\ ~Bootable =>
    \/ /\ m_bufferKernel[0] = OldFirmware /\ m_bufferKernel[1] = NewFirmware
       /\ \/ phase = "restore" /\ Running
          \/ phase = "save new" /\ upc \in {"write", "close", "unmount"}
    \/ upc = "reset" /\ phase \in {"save new", "restore"}
    \/ upc = "given up" /\ phase = "restore"

\* "update successful - system will reboot now" is said with a firmware on the
\* card, not in the cache: the new one, or, although the message does not tell,
\* the old one that had to be restored.
SuccessIsOnCard ==
  upc = "success" =>
    OnDisk(FILENAME_KERNEL) = IF phase = "restore" THEN OldFirmware ELSE NewFirmware

\* An update comes to an end whoever does or does not press a button or plug
\* in a stick: if by nothing else, then by the watchdog.
UpdateEnds == upc = "window" ~> upc \in {"success", "given up", "reset"}

=============================================================================
