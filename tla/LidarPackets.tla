---------------------------- MODULE LidarPackets ----------------------------
(***************************************************************************)
(* The driver's hand-over of assembled packets from the packet thread to   *)
(* the poll thread: one ring per device (comm/ldq.cpp) read and written    *)
(* without a lock, one counting semaphore for all of them                  *)
(* (comm/semaphore.cpp, PushLidarData in lds.cpp), the loop over the       *)
(* devices (lddc.cpp) and its end (driver_node.cpp).                       *)
(*                                                                         *)
(* The indices are free-running 32-bit counters, here modulo IndexMod.     *)
(* Accesses to them are single steps, in program order: the indices are    *)
(* volatile, and the platform is taken to keep the order of stores.        *)
(***************************************************************************)
EXTENDS Integers, Sequences, FiniteSets

CONSTANTS LidarCount,  \* devices the poll thread visits, by index
          Size,        \* slots of a ring, a power of two
          IndexMod,    \* 2^32
          MaxPackets   \* bound: packets the packet thread assembles

ASSUME PacketsAssumption ==
  /\ LidarCount \in Nat \ {0} /\ MaxPackets \in Nat
  /\ Size \in Nat \ {0} /\ IndexMod \in Nat
  /\ IndexMod > Size /\ IndexMod % Size = 0

Devices == 1..LidarCount
NoPacket == 0

VARIABLES
  slots, rdIdx, wrIdx,  \* per device: storage_packet, rd_idx, wr_idx
  allocated, mask,      \* per device: storage_packet # nullptr, mask
  sampling,             \* per device: connect_state is kConnectStateSampling
  count,                \* count_ of pcd_semaphore_
  wpc, wdev, packet,    \* the packet thread: step, device, packet in hand
  rpc, rdev, pkg,       \* the poll thread: step, device, popped packet
  requestExit,          \* request_exit_
  exitSignal,           \* exit_signal_
  taken, lost,          \* history: packets popped per device, and refused
  live                  \* history: packets stored for a sampling device

ringVars == <<slots, rdIdx, wrIdx, allocated, mask>>
writerVars == <<wpc, wdev, packet>>
readerVars == <<rpc, rdev, pkg>>
exitVars == <<requestExit, exitSignal>>
packetHistory == <<taken, lost, live>>
packetVars == <<ringVars, sampling, count, writerVars, readerVars, exitVars,
                packetHistory>>

PacketsInit ==
  /\ slots = [d \in Devices |-> [i \in 0..(Size - 1) |-> NoPacket]]
  /\ rdIdx = [d \in Devices |-> 0] /\ wrIdx = [d \in Devices |-> 0]
  /\ allocated = [d \in Devices |-> FALSE] /\ mask = [d \in Devices |-> 0]
  /\ sampling = [d \in Devices |-> FALSE]
  /\ count = 0
  /\ wpc = "idle" /\ wdev = 1 /\ packet = 0
  /\ rpc = "top" /\ rdev = 1 /\ pkg = NoPacket
  /\ requestExit = FALSE /\ exitSignal = FALSE
  /\ taken = [d \in Devices |-> <<>>] /\ lost = {} /\ live = {}

-----------------------------------------------------------------------------
(* The ring.                                                               *)
Used(d) == (wrIdx[d] - rdIdx[d]) % IndexMod
Slot(d, idx) == idx % (mask[d] + 1)

\* Slip: the ring is taken to have room for one more.
QueueIsFullLate(d) == Used(d) > mask[d] + 1

QueueIsFull(d) == Used(d) > mask[d]
QueueIsEmpty(d) == rdIdx[d] = wrIdx[d]

\* A connection handshake has ended (the SDK's callbacks).
BeginSampling(d) ==
  /\ ~sampling[d]
  /\ sampling' = [sampling EXCEPT ![d] = TRUE]
  /\ UNCHANGED <<ringVars, count, writerVars, readerVars, exitVars, packetHistory>>

-----------------------------------------------------------------------------
(* The packet thread, PushLidarData.                                       *)
WriterGoes(place) == wpc' = place /\ UNCHANGED <<wdev, packet>>

\* The next assembled packet, of some device; the first one finds no ring.
Deliver(d) ==
  /\ wpc = "idle" /\ packet < MaxPackets
  /\ packet' = packet + 1 /\ wdev' = d
  /\ wpc' = IF allocated[d] THEN "test" ELSE "init"
  /\ UNCHANGED <<ringVars, sampling, count, readerVars, exitVars, packetHistory>>

\* InitQueue: the poll thread can see the storage before mask is set.
InitQueue ==
  /\ \/ /\ wpc = "init" /\ WriterGoes("size")
        /\ allocated' = [allocated EXCEPT ![wdev] = TRUE]
        /\ UNCHANGED mask
     \/ /\ wpc = "size" /\ WriterGoes("test")
        /\ mask' = [mask EXCEPT ![wdev] = Size - 1]
        /\ UNCHANGED allocated
  /\ UNCHANGED <<slots, rdIdx, wrIdx, sampling, count, readerVars, exitVars,
                 packetHistory>>

\* Slip: a refused packet wakes nobody.
RefusedGoesNowhere == "idle"

\* A refused packet signals like a stored one.
RefusedGoes == "hint"

TestFull ==
  /\ wpc = "test"
  /\ IF QueueIsFull(wdev)
       THEN WriterGoes(RefusedGoes) /\ lost' = lost \cup {packet}
       ELSE WriterGoes("fill") /\ UNCHANGED lost
  /\ UNCHANGED <<ringVars, sampling, count, readerVars, exitVars, taken, live>>

\* QueuePushAny: first the slot, then the index that makes it visible.
FillSlot ==
  /\ wpc = "fill" /\ WriterGoes("bump")
  /\ slots' = [slots EXCEPT ![wdev][Slot(wdev, wrIdx[wdev])] = packet]
  /\ UNCHANGED <<rdIdx, wrIdx, allocated, mask, sampling, count, readerVars,
                 exitVars, packetHistory>>

AdvanceWrite ==
  /\ wpc = "bump" /\ WriterGoes("check")
  /\ wrIdx' = [wrIdx EXCEPT ![wdev] = (@ + 1) % IndexMod]
  /\ live' = IF sampling[wdev] THEN live \cup {packet} ELSE live
  /\ UNCHANGED <<slots, rdIdx, allocated, mask, sampling, count, readerVars,
                 exitVars, taken, lost>>

\* Slip: only the first packet of a queue is announced.
WorthSignallingOnce(d) == Used(d) = 1

WorthSignalling(d) == ~QueueIsEmpty(d)

CheckQueue ==
  /\ wpc = "check" /\ WriterGoes(IF WorthSignalling(wdev) THEN "hint" ELSE "idle")
  /\ UNCHANGED <<ringVars, sampling, count, readerVars, exitVars, packetHistory>>

\* Slip: the count is not looked at.
SignalNeededAlways == TRUE

\* GetCount reads count_ without the semaphore's mutex.
SignalNeeded == count <= 0

ReadCount ==
  /\ wpc = "hint" /\ WriterGoes(IF SignalNeeded THEN "signal" ELSE "idle")
  /\ UNCHANGED <<ringVars, sampling, count, readerVars, exitVars, packetHistory>>

Signal ==
  /\ wpc = "signal" /\ WriterGoes("idle")
  /\ count' = count + 1
  /\ rpc' = IF rpc = "asleep" THEN "sem" ELSE rpc
  /\ UNCHANGED <<ringVars, sampling, rdev, pkg, exitVars, packetHistory>>

Writer == InitQueue \/ TestFull \/ FillSlot \/ AdvanceWrite \/ CheckQueue
            \/ ReadCount \/ Signal

-----------------------------------------------------------------------------
(* The poll thread, DistributePointCloudData.                              *)
ReaderGoes(place) == rpc' = place /\ UNCHANGED <<rdev, pkg>>

ReaderLocal ==
  UNCHANGED <<ringVars, sampling, count, writerVars, exitVars, packetHistory>>

ReadExit ==
  /\ rpc = "top" /\ ReaderGoes(IF requestExit THEN "future" ELSE "sem")
  /\ ReaderLocal

\* Semaphore::Wait, under its mutex.
Wait ==
  /\ rpc = "sem"
  /\ IF count > 0
       THEN count' = count - 1 /\ rpc' = "visit" /\ rdev' = 1 /\ UNCHANGED pkg
       ELSE ReaderGoes("asleep") /\ UNCHANGED count
  /\ UNCHANGED <<ringVars, sampling, writerVars, exitVars, packetHistory>>

SpuriousWakeup == rpc = "asleep" /\ ReaderGoes("sem") /\ ReaderLocal

NextDevice ==
  /\ IF rdev < LidarCount THEN rdev' = rdev + 1 /\ rpc' = "visit"
                          ELSE rpc' = "future" /\ UNCHANGED rdev
  /\ UNCHANGED pkg

\* A device that is not sampling, or has no ring yet, is passed over.
Visit ==
  /\ rpc = "visit"
  /\ IF sampling[rdev] /\ allocated[rdev] THEN ReaderGoes("poll") ELSE NextDevice
  /\ ReaderLocal

\* PollingLidarPointCloudData looks at the exit request between bursts.
Poll ==
  /\ rpc = "poll"
  /\ IF requestExit \/ QueueIsEmpty(rdev) THEN NextDevice ELSE ReaderGoes("burst")
  /\ ReaderLocal

\* The publishing loop empties the ring: QueuePrePop, QueuePopUpdate.
CopySlot ==
  /\ rpc = "burst"
  /\ IF QueueIsEmpty(rdev)
       THEN ReaderGoes("poll")
       ELSE /\ pkg' = slots[rdev][Slot(rdev, rdIdx[rdev])]
            /\ rpc' = "pop" /\ UNCHANGED rdev
  /\ ReaderLocal

AdvanceRead ==
  /\ rpc = "pop"
  /\ rdIdx' = [rdIdx EXCEPT ![rdev] = (@ + 1) % IndexMod]
  /\ taken' = [taken EXCEPT ![rdev] = Append(@, pkg)]
  /\ pkg' = NoPacket /\ rpc' = "burst"
  /\ UNCHANGED <<slots, wrIdx, allocated, mask, sampling, count, writerVars,
                 rdev, exitVars, lost, live>>

\* The loop goes on while the exit signal is not set.
ReadFuture ==
  /\ rpc = "future" /\ ReaderGoes(IF exitSignal THEN "done" ELSE "top")
  /\ ReaderLocal

Reader == ReadExit \/ Wait \/ Visit \/ Poll \/ CopySlot \/ AdvanceRead \/ ReadFuture

\* ~DriverNode: RequestExit, then the exit signal, then the joins.
AskToExit ==
  /\ \/ ~requestExit /\ requestExit' = TRUE /\ UNCHANGED exitSignal
     \/ requestExit /\ ~exitSignal /\ exitSignal' = TRUE /\ UNCHANGED requestExit
  /\ UNCHANGED <<ringVars, sampling, count, writerVars, readerVars, packetHistory>>

PacketsNext ==
  \/ \E d \in Devices : Deliver(d) \/ BeginSampling(d)
  \/ Writer \/ Reader \/ SpuriousWakeup \/ AskToExit

\* Both threads are scheduled; sensors, handshakes and the operator owe nothing.
PacketsSpec ==
  /\ PacketsInit /\ [][PacketsNext]_packetVars
  /\ WF_packetVars(Writer) /\ WF_packetVars(Reader)

-----------------------------------------------------------------------------
Packets == 1..MaxPackets

\* The unlocked look at the count keeps the semaphore binary: at most one
\* wakeup is owed, however many packets of however many devices wait
\* (PushLidarData, the only caller of Signal).
SemaphoreIsBinary == count \in 0..1

\* Across the wrap of the indices, each ring is the bounded FIFO it stands
\* for: what the poll thread pops is what was pushed, in order, once, and
\* only a full ring refuses (QueueIsFull, QueuePushAny, QueuePop).
Contents(d) ==
  [i \in 1..Used(d) |-> slots[d][(rdIdx[d] + i - 1) % Size]]

Fifo == INSTANCE PacketFifo WITH
          Capacity <- Size,
          queued <- [d \in Devices |-> Contents(d)]

ImplementsFifo == Fifo!FifoSpec

\* The unlocked look at the count never leaves data behind: when the poll
\* thread sleeps and the packet thread is done with its packet, no packet
\* that was stored for a sampling device is still queued (PushLidarData).
NothingLeftBehind ==
  rpc = "asleep" /\ count = 0 /\ wpc = "idle" =>
    \A d \in Devices, p \in live : \A i \in DOMAIN Contents(d) : Contents(d)[i] # p

\* After the node asked its threads to exit, the next packet that arrives, of
\* whatever device and whether or not its ring is full, lets the poll thread
\* end: without one it may sleep in Wait, which RequestExit does not signal.
ExitFollowsNextPacket == exitSignal /\ wpc = "test" ~> rpc = "done"
=============================================================================
