----------------------------- MODULE MCTxCycle -----------------------------
(* Instances of TxCycle: the levels and readings that make every branch of   *)
(* the levelling loop happen.                                                *)
EXTENDS TxCycle

\* On target, just inside the window above, outside below, far below (no power).
MCRouteDevs == {-3, 0, 2}
MCLevelDevs == {-3, 0, 2, 12}
MCRequests == {43, 45}
MCPorts == {0, 1}
MCPort == {0}
MCFull == {43}
MCNoOffset == {0}
\* -36 leaves 7 dBm at the generator for 43 dBm, out of range for 45.
MCOneOffset == {-36}
MCResetPow == -1440
MCBands == {0, 6}
MCBand == {0}
=============================================================================
