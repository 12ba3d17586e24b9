---------------------------- MODULE SwitchTable ----------------------------
(***************************************************************************)
(* The wiring of the relay matrix (Switch/switch_info.h) and the translation *)
(* of a band, port and coupler into relay commands (JcSetSwitch, SelChan and *)
(* AddActionList).  A relay output is <<port, mask>> of its module's frame.  *)
(* Modules are numbered in the order of their addresses.                     *)
(***************************************************************************)
EXTENDS Integers, Sequences

Bands == 0 .. 6         \* LTE700, DD800, GSM900, DCS1800, PCS1900, WCDMA2100, LTE2600

Signalswich == 1
Paspecumpwmt == 2
Testmd(b) == 3 + b
Modules == 1 .. 9

\* The outputs that close the channels of each switch.
Contacts == [
    Signal1swich    |-> << <<4, 2>>, <<4, 1>>, <<1, 512>> >>,
    Signal2swich    |-> << <<3, 16>>, <<3, 8>>, <<3, 4>> >>,
    Powermeterswich |-> << <<3, 16>>, <<3, 8>>, <<3, 4>>, <<3, 2>>, <<3, 1>>,
                           <<2, 4096>>, <<2, 2048>> >>,
    Spectrumswich   |-> << <<4, 2>>, <<4, 1>>, <<1, 512>>, <<1, 256>>, <<1, 32>>,
                           <<1, 16>>, <<1, 8>> >>,
    PA1swich1       |-> << <<0, 16>>, <<0, 32>>, <<0, 64>> >>,
    PA1swich2       |-> << <<0, 128>>, <<2, 16>>, <<2, 32>> >>,
    PA2swich1       |-> << <<4, 1024>>, <<4, 2048>>, <<4, 4096>> >>,
    PA2swich2       |-> << <<4, 8192>>, <<4, 16384>>, <<4, 32768>> >>,
    Pimswich        |-> << <<0, 32>>, <<0, 16>> >>,
    Txoutswich      |-> << <<1, 16>>, <<1, 8>> >>,
    Couplerswich    |-> << <<2, 16>>, <<0, 128>> >> ]

\* One entry of an action row: close channel chan of switch sw on a module.
Close(sw, module, chan) == [sw |-> sw, module |-> module, chan |-> chan]

\* Bands 0-2 use the first amplifier, 3-5 the second, 6 an unswitched third.
Amplifier(b) == b \div 3 + 1

\* Rows of [actiontx1], [actiontx2], [actionpim] and [actiondet] for band b.
ActionTx1(b, port) ==
    {Close("Signal1swich", Signalswich, Amplifier(b)), Close("Txoutswich", Testmd(b), port + 1)}
        \union (IF Amplifier(b) = 1 THEN {Close("PA1swich1", Paspecumpwmt, b + 1)} ELSE {})
        \union (IF Amplifier(b) = 2 THEN {Close("PA2swich1", Paspecumpwmt, b - 2)} ELSE {})
ActionTx2(b, port) ==
    {Close("Signal2swich", Signalswich, Amplifier(b)), Close("Txoutswich", Testmd(b), port + 1)}
        \union (IF Amplifier(b) = 1 THEN {Close("PA1swich2", Paspecumpwmt, b + 1)} ELSE {})
        \union (IF Amplifier(b) = 2 THEN {Close("PA2swich2", Paspecumpwmt, b - 2)} ELSE {})
ActionPim(b, port) ==
    {Close("Spectrumswich", Paspecumpwmt, b + 1), Close("Pimswich", Testmd(b), port + 1)}
ActionDet(b, coup) ==
    {Close("Powermeterswich", Paspecumpwmt, b + 1), Close("Couplerswich", Testmd(b), coup + 1)}

\* JcSetSwitch(iSwitch, iSwitch, iSwitch, coup): row 2 * band + port of the
\* first three lists, row 2 * band + coup of the last.
JcSetSwitch(iSwitch, coup) ==
    LET b == iSwitch \div 2
    IN  ActionTx1(b, iSwitch % 2) \union ActionTx2(b, iSwitch % 2)
            \union ActionPim(b, iSwitch % 2) \union ActionDet(b, coup)

SetOf(s) == {s[k] : k \in DOMAIN s}

\* What AddActionList clears and sets in the frame of one module.
TableCleared(actions, module) ==
    UNION {SetOf(Contacts[a.sw]) : a \in {x \in actions : x.module = module}}
TableClosed(actions, module) ==
    {Contacts[a.sw][a.chan] : a \in {x \in actions : x.module = module}}
=============================================================================
