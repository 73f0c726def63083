--------------------------- MODULE MCOrderService ---------------------------
(***************************************************************************)
(* Instances of OrderService for TLC: cells 1 and 2 are small cells of one *)
(* device of one site, cell 3 a large cell of another device there.        *)
(***************************************************************************)
EXTENDS OrderService, TLC

MCSiteOf   == [c \in Cells |-> "site"]
MCDeviceOf == [c \in Cells |-> IF c = 3 THEN "d2" ELSE "d1"]
MCSizeOf   == [c \in Cells |-> IF c = 3 THEN "LARGE" ELSE "SMALL"]

\* Orders and requests are interchangeable; cells are not, they are ordered.
MCSymmetry == Permutations(Orders) \cup Permutations(Reqs)
=============================================================================
