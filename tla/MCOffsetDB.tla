----------------------------- MODULE MCOffsetDB -----------------------------
(* Instance of OffsetDB: numbers print with two digits.                      *)
EXTENDS OffsetDB

MCNumbers == 0 .. 140
MCPrinted(x) == IF x < 100 THEN x ELSE 10 * ((x + 5) \div 10)
MCTxGrid == <<90, 110, 130>>
MCRxGrid == <<96, 120, 0, 99>>
MCTxKeys == {"real", "dsp"}
MCDutPorts == {"A"}
\* On, between and outside the points, some rounded onto or across one.
MCFreqs == {50, 90, 92, 97, 107, 110, 113, 121, 130, 134, 138}
\* Every level is looked up, calibrated or not.  0 is what an empty maximum reads as.
MCLevels == {0, 3, 5, 8}
MCMeasured == {<<-2, 7, 4, 9>>, <<7, -3, 2, 1>>}
=============================================================================
