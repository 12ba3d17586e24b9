----------------------------- MODULE MCReceiver -----------------------------
(* Instance of Receiver: frequencies at which products, calibration points    *)
(* and readings of both bands coincide.                                      *)
EXTENDS Receiver

MCBands == {0, 1}
MCPorts == {0}
MCOrders == {3, 4}
\* Their product is 4, in band 1 10.
MCTones == {<<6, 8>>}
MCRxFreqs == <<4, 10>>
MCTxFreqs == {4}
MCVcoLevels == {-10000, -70}
MCLosses == {{}, {"centre"}}
MCProtect == -900
MCResetPow == -1440
\* On, at the level of a measurement; and remembered at the protective level of a
\* calibration, but reset since.
MCLeftovers == {[cache |-> 50, pow |-> 50, rf |-> "on"],
                [cache |-> MCProtect, pow |-> MCResetPow, rf |-> "off"]}
=============================================================================
