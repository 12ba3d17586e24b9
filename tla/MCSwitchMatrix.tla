--------------------------- MODULE MCSwitchMatrix ---------------------------
(* SwitchMatrix with the relay tables of the rig.                            *)
EXTENDS SwitchMatrix, SwitchTable, TLC

\* The function f with its values computed once.
Computed(f) == f @@ f

MCHost == Modules
MCRoute == (0 .. 13) \X {0, 1}         \* 2 * band + port, coupler
MCOutput == UNION {SetOf(Contacts[sw]) : sw \in DOMAIN Contacts}
ClearedTable == Computed([r \in MCRoute |->
    Computed([h \in MCHost |-> TableCleared(JcSetSwitch(r[1], r[2]), h)])])
ClosedTable == Computed([r \in MCRoute |->
    Computed([h \in MCHost |-> TableClosed(JcSetSwitch(r[1], r[2]), h)])])
SwitchesTable == Computed([h \in MCHost |->
    {SetOf(Contacts[a.sw]) :
        a \in {x \in UNION {JcSetSwitch(r[1], r[2]) : r \in MCRoute} : x.module = h}}])
MCCleared == ClearedTable
MCClosed == ClosedTable
MCSwitches == SwitchesTable

\* LTE700 on port A and LTE2600 on port B: another test module, and the
\* amplifier switches of the first command stay closed during the second.
MCSelected == {<<0, 1>>, <<13, 0>>}
=============================================================================
