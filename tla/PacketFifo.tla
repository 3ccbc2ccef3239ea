----------------------------- MODULE PacketFifo -----------------------------
(***************************************************************************)
(* What the driver promises its poll thread for every device: a bounded    *)
(* first-in first-out queue that refuses a packet only when it is full.    *)
(***************************************************************************)
EXTENDS Naturals, Sequences

CONSTANTS Devices, Capacity, Packets

VARIABLES queued,  \* device -> its packets in order of arrival
          taken,   \* device -> the packets the poll thread took, in order
          lost     \* packets refused by a full queue

fifoVars == <<queued, taken, lost>>

FifoInit ==
  /\ queued = [d \in Devices |-> <<>>]
  /\ taken = [d \in Devices |-> <<>>]
  /\ lost = {}

Put(d, p) ==
  /\ Len(queued[d]) < Capacity
  /\ queued' = [queued EXCEPT ![d] = Append(@, p)]
  /\ UNCHANGED <<taken, lost>>

Refuse(d, p) ==
  /\ Len(queued[d]) = Capacity
  /\ lost' = lost \cup {p}
  /\ UNCHANGED <<queued, taken>>

Take(d) ==
  /\ queued[d] # <<>>
  /\ taken' = [taken EXCEPT ![d] = Append(@, Head(queued[d]))]
  /\ queued' = [queued EXCEPT ![d] = Tail(@)]
  /\ UNCHANGED lost

FifoNext ==
  \E d \in Devices : Take(d) \/ \E p \in Packets : Put(d, p) \/ Refuse(d, p)

FifoSpec == FifoInit /\ [][FifoNext]_fifoVars
=============================================================================
