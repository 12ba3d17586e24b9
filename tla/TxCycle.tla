------------------------------ MODULE TxCycle ------------------------------
(***************************************************************************)
(* The transmit side of the API (src/JcPimMultiBandV2/JcApi.cpp): selecting *)
(* band and port, requesting a power, levelling the two carriers, and       *)
(* switching the power amplifiers on and off.                               *)
(*                                                                          *)
(* The library is single threaded: a call runs to its return before the     *)
(* next one starts.  Every command to an instrument inside a call is a step *)
(* of its own, because every one may fail and because the rig (generators,  *)
(* relays) is in a visible state between two of them.                       *)
(*                                                                          *)
(* Powers are whole dB.  Corrections and generator levels are in tenths of  *)
(* a dB, so that the gains 0.9 and 0.6 of the levelling loop are the exact  *)
(* integers 9 and 6.  Frequencies are abstracted: a frequency write may be  *)
(* needed or not, and succeed or not.                                       *)
(***************************************************************************)
EXTENDS Instruments

CONSTANTS
    ExtBands,       \* band indices a client passes to fnSetMeasBand
    DutPorts,       \* ports: JC_DUTPORT_A is 0, JC_DUTPORT_B is 1
    Requests,       \* output powers a client asks for (dTxPower1, dTxPower2)
    ExtOffsets,     \* external loss compensations (dPowerOffset1, dPowerOffset2)
    RealOffsets,    \* internal Tx calibration values the database holds
    Deviations,     \* requested power minus measured power, over all readings
    Threshold,      \* now_tx_smooth_threasold
    Accuracy,       \* now_tx_smooth_accuracy
    Floor,          \* measured power at or below which "no power" is reported
    MaxPow,         \* SIGNAL_SOURCE_MAX_POW
    Rounds,         \* iterations of the levelling loop
    Disciplined     \* the client selects band and port in the documented order

ASSUME BandAssumption == ExtBands \subseteq Nat /\ DutPorts \subseteq {0, 1} /\ 0 \in DutPorts
ASSUME PowerAssumption ==
    /\ Requests \subseteq Int /\ ExtOffsets \subseteq Int
    /\ RealOffsets \subseteq Int /\ Deviations \subseteq Int
    /\ Floor \in Int /\ MaxPow \in Int
    /\ ResetPow <= 10 * MaxPow
    /\ MaxPow >= 0
ASSUME LoopAssumption ==
    /\ Threshold \in Nat /\ Accuracy \in Nat
    /\ Rounds \in Nat \ {0}
ASSUME ModeAssumption == Disciplined \in BOOLEAN

\* Mutation: the index is translated without its table.
IntBandUnbounded(b) == b + 1
\* JcPimObject::GetExtBandToIntBand: an index outside the table is band 0.
IntBand(b) == IF b \in 0 .. 5 THEN b + 1 ELSE 0

Statuses == {"OK", "ERROR", "GET_TX1_OFFSET", "OUT_RANGE", "TX_ONOFF_FAIL",
             "NO_FIND_POWER", "OUT_SMOOTH", "SET_SWITCH_FAIL", "CHECK_VCO_FAIL",
             "CHECK_ROSC_FAIL"}

Calls == {"Init", "SetMeasBand", "SetDutPort", "CheckReceiveChannel", "CheckTwoSignalROSC",
          "SetTxPower", "SetTxOnOne", "SetTxOn", "SetTxFreqs", "HwSetTxFreqs"}

Points == {"idle", "program", "sig1", "sig2", "coup", "read", "reread", "adjust"}

VARIABLES
    now_band, now_dut_port,
    target,     \* now_txPowN + offset_txPowN
    internal,   \* offset_internal_txPowN
    dd,         \* dd1 and dd2, in tenths of a dB
    pc, call, want, cr, i, acc, ret,
    avg,        \* what the last HwGetCoup_Dsp saw
    refused     \* carriers that refused an output command during this call

settings == <<now_band, now_dut_port, target>>
levels == <<internal, dd, cache>>
loop == <<i, acc>>
vars == <<now_band, now_dut_port, target, internal, dd, cache, gen, route, pc,
          call, want, cr, i, acc, ret, avg, refused>>

Init ==
    /\ now_band = 0 /\ now_dut_port = 0
    /\ target = [c \in Carriers |-> -60]
    /\ internal = [c \in Carriers |-> 0]
    /\ dd = [c \in Carriers |-> 0]
    /\ cache = [c \in Carriers |-> 0]
    /\ gen = [c \in Carriers |-> AtPreset]
    /\ route = Mixed
    /\ pc = "idle" /\ call = "Init" /\ ret = "OK"
    /\ want = "off" /\ cr = 1 /\ i = 0 /\ acc = 0
    /\ avg = "none" /\ refused = {}

Return(s) == pc' = "idle" /\ ret' = s

\* The locals of a call that only selects or requests.
NoLocals ==
    /\ want' = "off" /\ cr' = 1 /\ avg' = "none" /\ refused' = {}
    /\ UNCHANGED loop

-----------------------------------------------------------------------------
(* Calls that select and request.                                           *)

\* No transmit path but the selected one is known to be connected.
OnSelectedPath == route # Mixed => route.path = <<now_band, now_dut_port>>

\* The client of the documented order touches the routing with RF off.
MayRoute == pc = "idle" /\ (Disciplined => RfOff)

SetMeasBand(b) ==
    /\ MayRoute
    /\ now_band' = IntBand(b)
    /\ call' = "SetMeasBand" /\ ret' = "OK"
    /\ NoLocals
    /\ UNCHANGED <<now_dut_port, target, levels, gen, route, pc>>

SetDutPort(p) ==
    /\ MayRoute
    /\ dd' = [c \in Carriers |-> 0]
    /\ now_dut_port' = p
    /\ \E ok \in BOOLEAN :
          /\ SetSwitch(now_band, p, 2, ok)
          /\ ret' = IF ok THEN "OK" ELSE "SET_SWITCH_FAIL"
    /\ call' = "SetDutPort"
    /\ NoLocals
    /\ UNCHANGED <<now_band, target, internal, cache, gen, pc>>

\* fnCheckReceiveChannel: selects band and port, then judges the VCO reading.
\* A band whose VCO check is disabled returns at once.
CheckReceiveChannel(b, p) ==
    /\ MayRoute
    /\ call' = "CheckReceiveChannel"
    /\ \/ /\ ret' = "OK"
          /\ UNCHANGED <<now_band, now_dut_port, dd, route>>
       \/ /\ now_band' = IntBand(b) /\ now_dut_port' = p
          /\ dd' = [c \in Carriers |-> 0]
          /\ \E ok \in BOOLEAN :
                /\ SetSwitch(IntBand(b), p, 2, ok)
                /\ ret' \in IF ok THEN {"OK", "CHECK_VCO_FAIL"} ELSE {"SET_SWITCH_FAIL"}
    /\ NoLocals
    /\ UNCHANGED <<target, internal, cache, gen, pc>>

\* fnCheckTwoSignalROSC asks the first generator, then the second, and returns at
\* the first that fails.  (JcGetSig_ExtRefStatus of one or both is a part or a
\* repetition of this.)
CheckTwoSignalROSC ==
    /\ pc = "idle"
    /\ \/ ret' = "OK" /\ UNCHANGED <<cache, gen>>
       \/ ret' = "CHECK_ROSC_FAIL" /\ \E c \in Carriers : GetReferenceStatus(c, FALSE)
    /\ call' = "CheckTwoSignalROSC"
    /\ NoLocals
    /\ UNCHANGED <<settings, internal, dd, route, pc>>

\* fnSetTxPower computes both carriers from dTxPower1.
SetTxPower(p1, p2, o1, o2) ==
    /\ pc = "idle"
    /\ target' = [c \in Carriers |-> p1 + (IF c = 1 THEN o1 ELSE o2)]
    /\ call' = "SetTxPower" /\ ret' = "OK"
    /\ NoLocals
    /\ UNCHANGED <<now_band, now_dut_port, levels, gen, route, pc>>

-----------------------------------------------------------------------------
(* fnSetTxOn: a call of its own and, for both carriers, a part of           *)
(* fnSetTxFreqs.                                                            *)

SetTxOnOne(on, c) ==
    /\ pc = "idle"
    /\ want' = on /\ cr' = 1 /\ avg' = "none"
    /\ \E ok \in BOOLEAN :
          /\ OpenPow(c, on, ok)
          /\ refused' = IF ok THEN {} ELSE {c}
          /\ ret' = IF ok THEN "OK" ELSE "TX_ONOFF_FAIL"
    /\ call' = "SetTxOnOne"
    /\ UNCHANGED <<settings, levels, route, pc, loop>>

SetTxOnBoth(on) ==
    /\ pc = "idle" /\ pc' = "sig1"
    /\ want' = on /\ cr' = 1 /\ avg' = "none" /\ refused' = {}
    /\ call' = "SetTxOn" /\ ret' = "OK"
    /\ UNCHANGED <<settings, levels, gen, route, loop>>

\* What follows the return of fnSetTxOn(want, JC_CARRIER_TX1TX2).
AfterTxOn(ok) ==
    \/ /\ call = "SetTxOn" /\ cr' = cr
       /\ Return(IF ok THEN "OK" ELSE "TX_ONOFF_FAIL")
    \/ /\ call = "SetTxFreqs" /\ want = "on"
       /\ IF ok THEN pc' = "coup" /\ cr' = 2 /\ ret' = ret
                ELSE Return("TX_ONOFF_FAIL") /\ cr' = cr
    \/ /\ call = "SetTxFreqs" /\ want = "off" /\ cr' = cr
       /\ Return(IF ret = "OK" /\ ~ok THEN "TX_ONOFF_FAIL" ELSE ret)

\* The second generator is not commanded when the first one refuses.
OpenSig1 ==
    /\ pc = "sig1"
    /\ \E ok \in BOOLEAN :
          /\ OpenPow(1, want, ok)
          /\ refused' = IF ok THEN refused ELSE refused \union {1}
          /\ IF ok THEN pc' = "sig2" /\ UNCHANGED <<cr, ret>>
                   ELSE AfterTxOn(FALSE)
    /\ UNCHANGED <<settings, levels, route, call, want, loop, avg>>

OpenSig2 ==
    /\ pc = "sig2"
    /\ \E ok \in BOOLEAN :
          /\ OpenPow(2, want, ok)
          /\ refused' = IF ok THEN refused ELSE refused \union {2}
          /\ AfterTxOn(ok)
    /\ UNCHANGED <<settings, levels, route, call, want, loop, avg>>

-----------------------------------------------------------------------------
(* fnSetTxFreqs and HwSetTxFreqs.                                           *)

SetTxFreqs ==
    /\ pc = "idle" /\ (Disciplined => OnSelectedPath)
    /\ pc' = "program" /\ call' = "SetTxFreqs" /\ ret' = "OK"
    /\ cr' = 2 /\ want' = "on" /\ refused' = {} /\ avg' = "none"
    /\ UNCHANGED <<settings, levels, gen, route, loop>>

HwSetTxFreqs ==
    /\ pc = "idle" /\ (Disciplined => OnSelectedPath)
    /\ pc' = "program" /\ call' = "HwSetTxFreqs" /\ ret' = "OK"
    /\ NoLocals
    /\ UNCHANGED <<settings, levels, gen, route>>

\* The carrier programmed after cr, and where control goes after both.
AfterProgram ==
    IF call = "SetTxFreqs"
    THEN IF cr = 2 THEN cr' = 1 /\ pc' = pc /\ ret' = ret
                   ELSE pc' = "sig1" /\ UNCHANGED <<cr, ret>>
    ELSE IF cr = 1 THEN cr' = 2 /\ pc' = pc /\ ret' = ret
                   ELSE Return("OK") /\ cr' = cr

\* The correction HwSetTxFreqs adds to the external offset; fnSetTxFreqs adds none.
Carried(c) == IF call = "HwSetTxFreqs" THEN dd[c] ELSE 0

\* Mutation: the comparison with the source's limit is turned round.
OutOfRangeReversed(p) == p < 10 * MaxPow - 600
OutOfRange(p) == p > 10 * MaxPow

\* The status of a missing calibration, GET_TX1_OFFSET - 1 + carrier: error
\* codes count downwards, so carrier 2 gives the unspecific ERROR.
NoCalibration(c) == IF c = 1 THEN "GET_TX1_OFFSET" ELSE "ERROR"

\* JcSetSig_Advanced: calibration lookup, range check, then the generator.
Program ==
    /\ pc = "program"
    /\ \/ /\ Return(NoCalibration(cr))
          /\ UNCHANGED <<internal, cache, gen, cr>>
       \/ \E off \in RealOffsets :
             LET p == 10 * (target[cr] + off) + Carried(cr)
             IN  IF OutOfRange(p)
                 THEN Return("OUT_RANGE") /\ UNCHANGED <<internal, cache, gen, cr>>
                 ELSE /\ internal' = [internal EXCEPT ![cr] = off]
                      /\ \E ok \in BOOLEAN :
                            /\ SetFreqPow(cr, p, ok)
                            /\ IF ok THEN AfterProgram
                                     ELSE Return("ERROR") /\ cr' = cr
    /\ UNCHANGED <<settings, dd, route, call, want, loop, avg, refused>>

\* Mutation: only the second amplifier is switched off.
SwitchOffSecond(s) ==
    pc' = "sig2" /\ want' = "off" /\ ret' = s /\ i' = 0 /\ acc' = 0

\* Leaving the levelling: switch both amplifiers off, then return s.
SwitchOff(s) ==
    pc' = "sig1" /\ want' = "off" /\ ret' = s /\ i' = 0 /\ acc' = 0

\* Mutation: the status of the matrix is ignored.
CoupleUnchecked ==
    /\ pc = "coup"
    /\ \E ok \in BOOLEAN : SetSwitch(now_band, now_dut_port, cr, ok)
    /\ pc' = "read" /\ avg' = "none"
    /\ UNCHANGED <<settings, levels, gen, call, want, cr, ret, loop, refused>>

\* Mutation: the coupler is routed for port A whatever port is selected.
CouplePortA ==
    /\ pc = "coup"
    /\ \E ok \in BOOLEAN :
          /\ SetSwitch(now_band, 0, cr, ok)
          /\ IF ok THEN pc' = "read" /\ UNCHANGED <<want, ret, loop>>
                   ELSE SwitchOff("ERROR")
    /\ avg' = "none"
    /\ UNCHANGED <<settings, levels, gen, call, cr, refused>>

\* HwSetCoup: the whole matrix is commanded for the carrier to be levelled.
Couple ==
    /\ pc = "coup"
    /\ \E ok \in BOOLEAN :
          /\ SetSwitch(now_band, now_dut_port, cr, ok)
          /\ IF ok THEN pc' = "read" /\ UNCHANGED <<want, ret, loop>>
                   ELSE SwitchOff("ERROR")
    /\ avg' = "none"
    /\ UNCHANGED <<settings, levels, gen, call, cr, refused>>

\* A carrier is done: level the other one, or finish.
CarrierDone ==
    IF cr = 2 THEN /\ pc' = "coup" /\ cr' = 1 /\ i' = 0 /\ acc' = 0
                   /\ UNCHANGED <<want, ret>>
              ELSE SwitchOff("OK") /\ cr' = cr

\* Mutation: a reading above the request is never outside the window.
OutsideBelow(dev) == dev > Threshold
Outside(dev) == dev > Threshold \/ dev < -Threshold

\* The loop body of HwGetSig_Smooth on a deviation returned by HwGetCoup_Dsp.
Judge(dev) ==
    IF target[cr] - dev <= Floor
    THEN SwitchOff("NO_FIND_POWER") /\ UNCHANGED <<dd, cr>>
    ELSE IF Outside(dev)
    THEN /\ dd' = [c \in Carriers |-> 0]
         /\ SwitchOff("OUT_SMOOTH") /\ cr' = cr
    ELSE IF dev \in -Accuracy .. Accuracy
    THEN CarrierDone /\ dd' = dd
    ELSE /\ acc' = acc + (IF i = 0 THEN 9 ELSE 6) * dev
         /\ dd' = [dd EXCEPT ![cr] = acc']
         /\ pc' = "adjust" /\ UNCHANGED <<cr, i, want, ret>>

\* Mutation: the first average is judged even when it is outside the window.
FirstAverageOnly(dev) == avg' = "one" /\ Judge(dev)
FirstAverage(dev) ==
    IF Outside(dev)
    THEN pc' = "reread" /\ avg' = "one" /\ UNCHANGED <<dd, loop, cr, want, ret>>
    ELSE avg' = "one" /\ Judge(dev)

\* HwGetCoup_Dsp, first average: a missing calibration is returned as a power
\* of -10000 dBm; a reading outside the window is taken once more.
Read ==
    /\ pc = "read"
    /\ \/ /\ avg' = "missing"
          /\ SwitchOff("NO_FIND_POWER") /\ UNCHANGED <<dd, cr>>
       \/ \E dev \in Deviations : FirstAverage(dev)
    /\ UNCHANGED <<settings, internal, cache, gen, route, call, refused>>

Reread ==
    /\ pc = "reread"
    /\ \E dev \in Deviations : Judge(dev)
    /\ avg' = "two"
    /\ UNCHANGED <<settings, internal, cache, gen, route, call, refused>>

\* The calibrated level of a carrier before correction.
BaseLevel(c) == 10 * (target[c] + internal[c])

\* Mutation: the loop starts afresh until a reading is accurate.
NextRoundForever == pc' = "read" /\ i' = 0 /\ acc' = 0 /\ UNCHANGED <<cr, want, ret>>
\* The loop of HwGetSig_Smooth after a correction was applied.
NextRound ==
    IF i + 1 = Rounds
    THEN CarrierDone
    ELSE pc' = "read" /\ i' = i + 1 /\ UNCHANGED <<acc, cr, want, ret>>

\* JcSetSig with the corrected level; no range check is made here.
Adjust ==
    /\ pc = "adjust"
    /\ \E ok \in BOOLEAN :
          /\ SetFreqPow(cr, BaseLevel(cr) + acc, ok)
          /\ IF ok THEN NextRound
                   ELSE SwitchOff("ERROR") /\ cr' = cr
    /\ UNCHANGED <<settings, internal, dd, route, call, avg, refused>>

-----------------------------------------------------------------------------
Request ==
    \/ \E b \in ExtBands : SetMeasBand(b)
    \/ \E p \in DutPorts : SetDutPort(p)
    \/ \E b \in ExtBands, p \in DutPorts : CheckReceiveChannel(b, p)
    \/ CheckTwoSignalROSC
    \/ \E p1, p2 \in Requests, o1, o2 \in ExtOffsets : SetTxPower(p1, p2, o1, o2)
    \/ \E on \in Outputs, c \in Carriers : SetTxOnOne(on, c)
    \/ \E on \in Outputs : SetTxOnBoth(on)
    \/ SetTxFreqs
    \/ HwSetTxFreqs

Step == OpenSig1 \/ OpenSig2 \/ Program \/ Couple \/ Read \/ Reread \/ Adjust

Next == Request \/ Step

Spec == Init /\ [][Next]_vars
\* Every step is a synchronous call with a timeout: a call that has been
\* started keeps making steps.
FairSpec == Spec /\ WF_vars(Step)

-----------------------------------------------------------------------------
(* Properties.                                                              *)

TypeOK ==
    /\ now_band \in 0 .. 6 /\ now_dut_port \in DutPorts
    /\ target \in [Carriers -> Int] /\ internal \in [Carriers -> Int]
    /\ dd \in [Carriers -> Int] /\ cache \in [Carriers -> Int]
    /\ gen \in [Carriers -> [pow : Int, rf : Outputs]]
    /\ route \in Routes \union {Mixed}
    /\ pc \in Points /\ call \in Calls /\ ret \in Statuses
    /\ want \in Outputs /\ cr \in Carriers /\ i \in 0 .. Rounds - 1 /\ acc \in Int
    /\ avg \in {"none", "missing", "one", "two"}
    /\ refused \subseteq Carriers

\* The largest correction n rounds can build up: 0.9 and then 0.6 times the
\* window for each round.
Bound(n) == IF n = 0 THEN 0 ELSE (3 + 6 * n) * Threshold

\* However the readings behave, a levelling never moves a carrier further from
\* its calibrated level than its rounds allow (2.7 windows in the code): a
\* reading outside the window ends the loop before it is integrated.
CorrectionBound ==
    /\ \A c \in Carriers : dd[c] \in -Bound(Rounds) .. Bound(Rounds)
    /\ pc \in {"read", "reread"} => acc \in -Bound(i) .. Bound(i)

\* A generator is never driven above the source limit by more than one
\* levelling's correction, whichever calls preceded and whichever writes were
\* lost: the limit is checked once, the corrected level is not.
DriveBound == \A c \in Carriers : gen[c].pow <= 10 * MaxPow + Bound(Rounds)

\* Every power reading of a levelling is taken with both amplifiers commanded on
\* and through the coupler of the carrier being levelled, on the selected band
\* and port ("must be measured after the amplifier is switched on").
ReadsOwnPath ==
    pc \in {"read", "reread"} =>
        /\ \A c \in Carriers : gen[c].rf = "on"
        /\ route = [path |-> <<now_band, now_dut_port>>, coup |-> cr]

\* fnSetTxFreqs leaves the rig silent when it reports success, and also when it
\* reports a levelling fault unless a generator refused the switch-off command.
RfOffAfterLevelling ==
    pc = "idle" /\ call = "SetTxFreqs" =>
        /\ ret = "OK" => RfOff
        /\ ret \in {"NO_FIND_POWER", "OUT_SMOOTH"} /\ refused = {} => RfOff

\* One bad average never aborts a measurement: a levelling fault is reported
\* only after a second average confirmed it, or without calibration data, or
\* when the request itself lies within one window of the "no power" floor.
FaultConfirmed ==
    pc = "idle" /\ call = "SetTxFreqs" =>
        /\ ret = "OUT_SMOOTH" => avg = "two"
        /\ ret = "NO_FIND_POWER" =>
              avg \in {"two", "missing"} \/ target[cr] <= Floor + Threshold

\* The reading judged by the loop belongs to the level the loop computed, with one
\* exception: a generator at its preset, because it was reset behind the cache of
\* its driver or because the level is the 0 dBm a new driver believes to have set
\* already, is judged there in the first round.  Its correction is always sent, so
\* no round after the first judges a level the generator is not at.
LoopInSync ==
    pc \in {"read", "reread"} =>
        gen[cr].pow = BaseLevel(cr) + acc \/ (i = 0 /\ gen[cr].pow = ResetPow)

\* With a client that selects band and port in the documented order and with RF
\* off, levelling switches couplers only: no transmit path relay moves under
\* power from one known position to another.
NoHotPathMove ==
    [][ \/ RfOff
        \/ Mixed \in {route, route'}
        \/ route'.path = route.path ]_vars

\* Every call returns.
CallReturns == pc # "idle" ~> pc = "idle"

(* Statements of the documentation the code disagrees with.                 *)

\* SetTxOn: "0 executes for both F1 and F2".  An amplifier that still radiates
\* after a switch-off of both must at least have been told to stop.
BothToldToStop ==
    pc = "idle" /\ call = "SetTxOn" /\ want = "off" /\ ret = "TX_ONOFF_FAIL" =>
        \A c \in Carriers : gen[c].rf = "on" => c \in refused

\* SetTxPower(dTxPower1, dTxPower2, ...) sets the power of both carriers.
SecondPowerHonoured ==
    [][ \A p1, p2 \in Requests, o1, o2 \in ExtOffsets :
           SetTxPower(p1, p2, o1, o2) => target'[2] = p2 + o2 ]_vars
=============================================================================
