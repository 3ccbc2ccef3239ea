-------------------------- MODULE MCPacketAssembly --------------------------
(***************************************************************************)
(* Two LiDARs, three packets, a frame of two ticks; sensor time may lag     *)
(* behind, run ahead of or jump against the host's.                        *)
(***************************************************************************)
EXTENDS PacketAssembly

MCSensorTimes == {1, 2, 3}
=============================================================================
