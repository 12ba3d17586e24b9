-------------------------- MODULE MCTxCalibration --------------------------
(* Instances of TxCalibration.  Levels: 42 dBm wanted, -10 dBm protection,   *)
(* 8 dBm limit.                                                              *)
EXTENDS TxCalibration

MCPaths == {<<0, 0>>}
MCTwoPaths == {<<0, 0>>, <<1, 1>>}
\* On target; a step whose one correction ends at the limit; one down.
MCDeviations == {-4, 0, 20}
MCProtect == -100
MCResetPow == -1440
=============================================================================
