------------------------- MODULE MCCellReservation --------------------------
(***************************************************************************)
(* Instances of CellReservation for TLC: cells of one size in one device.  *)
(***************************************************************************)
EXTENDS CellReservation

MCSiteOf == [c \in Cells |-> 1]
MCDeviceOf == [c \in Cells |-> 1]
MCSizeOf == [c \in Cells |-> "MEDIUM"]
=============================================================================
