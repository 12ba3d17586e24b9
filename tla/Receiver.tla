------------------------------ MODULE Receiver ------------------------------
(***************************************************************************)
(* The receive side of the API: programming the analyzer for the             *)
(* intermodulation product, reading it, checking the receive channel with    *)
(* the VCO, and calibrating the receive path with generator 1.               *)
(*                                                                          *)
(* Calls are one step, except the receive calibration, which has one per     *)
(* generator command and reading.  What fnSetTxFreqs and JcSetOffsetTx do to *)
(* generator 1 is in TxCycle and TxCalibration; here they leave it and its    *)
(* driver's cache as they were or as one of Leftovers.  Rows of offsets are   *)
(* numbered by the calibration that stored them.  The status of a call is OK  *)
(* or an error.                                                              *)
(***************************************************************************)
EXTENDS Instruments, Analyzer, Sequences

CONSTANTS
    Bands,          \* internal bands
    DutPorts,
    Orders,         \* orders a client passes to fnSetImOrder
    Tones,          \* carrier pairs it programs, in one unit
    RxFreqs,        \* points of the receive calibration
    TxFreqs,        \* points of the transmit calibration
    VcoLevels,      \* VCO readings
    VcoThreshold,   \* now_vco_threasold
    Leftovers,      \* cached level, level and output the transmit side may leave
                    \* generator 1 with
    Protect,        \* OFFSET_PROTECT_RX
    Runs,           \* bound on the number of receive calibrations
    Orderly         \* the client reads every product it programs

Dead == -10000      \* JC_STATUS_ERROR, also the value of a failed reading
Paths == Bands \X DutPorts

ASSUME ReceiveAssumption ==
    /\ Bands \subseteq Nat /\ DutPorts \subseteq {0, 1} /\ 0 \in Bands /\ 0 \in DutPorts
    /\ Orders \subseteq Nat /\ Tones \subseteq Int \X Int /\ Tones # {}
    /\ RxFreqs \in Seq(Int) /\ RxFreqs # <<>> /\ TxFreqs \subseteq Int
    /\ Leftovers \subseteq [cache : Int, pow : Int, rf : Outputs] /\ Protect \in Int \ {0}
    /\ Runs \in Nat /\ Orderly \in BOOLEAN
\* The transmit side leaves a generator at the level its driver remembers, or at
\* the level after *RST, unless a failed write reached it: the theorems
\* CachesTellLevels of TxCycleProofs and of TxCalibrationProofs.
ASSUME LeftoverAssumption ==
    ~LateWrites => \A g \in Leftovers : g.pow \in {g.cache, ResetPow}
\* A VCO is received far below 0 dBm and far above the value of a failure.
ASSUME VcoAssumption ==
    /\ VcoThreshold \in Nat
    /\ \A v \in VcoLevels :
          v \in Int /\ v <= -VcoThreshold /\ (v = Dead \/ v >= Dead + VcoThreshold)

\* JcPimObject::GetPimFreq: the lower product, in band DD800 the upper one.
PimFreq(b, o, t) ==
    LET near == IF b = 1 THEN t[2] ELSE t[1]
        far == IF b = 1 THEN t[1] ELSE t[2]
    IN ((o + 1) \div 2) * near - ((o - 1) \div 2) * far

\* The orders in use: the initial one and those fnSetImOrder lets through.
UsedOrders == {3} \union (Orders \intersect {3, 5, 7, 9, 11})

\* eNULL is no frequency anyone uses.
ASSUME FrequencyAssumption ==
    /\ \A b \in Bands, o \in UsedOrders, t \in Tones \union {<<200, 200>>} :
          PimFreq(b, o, t) # 0
    /\ \A i \in DOMAIN RxFreqs : RxFreqs[i] # 0

VARIABLES
    now_band, now_dut_port, now_order,
    tones,          \* now_txFreq1 and now_txFreq2
    sa,             \* the analyzer
    rx,             \* JC_RX_OFFSET_ALL: which calibration stored the row, 0 for none
    vco,            \* JC_VCO_OFFSET_ALL: the recorded level, 0 for none
    run,            \* receive calibrations started
    pc, path, pt,   \* the receive calibration in progress
    ret,
    pending,        \* a programmed product has not been read yet
    unrestored,     \* a failed transmit calibration's settings are in place
    written,        \* a level command of the calibration has succeeded
    refused,        \* generator 1 refused to be switched off at the end of one
    read            \* what the call's last reading wanted and what it got

selection == <<now_band, now_dut_port, now_order, tones>>
rows == <<rx, vco, run>>
rig == <<cache, gen, route>>
calibration == <<path, pt, written>>
vars == <<now_band, now_dut_port, now_order, tones, sa, rx, vco, run, cache, gen,
          route, pc, path, pt, ret, pending, unrestored, written, refused, read>>

NoRead == [what |-> "none", want |-> 0, offset |-> 0, value |-> 0,
           at |-> PresetValue("pim"), missed |-> {}, clean |-> TRUE]

\* A reading of s: what for, at which frequency, with which offset.
Reading(what, f, off, v, s) ==
    [what |-> what, want |-> f, offset |-> off, value |-> v,
     at |-> s.at, missed |-> s.missed, clean |-> ~unrestored]

Selected == PimFreq(now_band, now_order, tones)
VcoFreq(p) == 1334 + 2 * (2 * p[1] + p[2])

Init ==
    /\ now_band = 0 /\ now_dut_port = 0 /\ now_order = 3 /\ tones = <<200, 200>>
    /\ \E kind \in Kinds :
          sa = [kind |-> kind, freq_now |-> 0,
                pp |-> IF kind = "RS" THEN "pim" ELSE "none",
                at |-> [PresetValue("pim") EXCEPT !["centre"] = InitCentre],
                missed |-> {}]
    /\ rx = [p \in Paths |-> 0] /\ vco = [p \in Paths |-> 0] /\ run = 0
    /\ cache = [c \in Carriers |-> 0]
    /\ gen = [c \in Carriers |-> AtPreset]
    /\ route = Mixed
    /\ pc = "idle" /\ path = <<0, 0>> /\ pt = 1 /\ ret = "OK"
    /\ pending = FALSE /\ unrestored = FALSE
    /\ written = FALSE /\ refused = FALSE /\ read = NoRead

\* A call other than fnGetImResult.
MayCall == pc = "idle" /\ (Orderly => ~pending)

-----------------------------------------------------------------------------
(* Selecting and programming.                                               *)

Select ==
    /\ MayCall
    /\ ret' = "OK" /\ read' = NoRead /\ refused' = FALSE
    /\ UNCHANGED <<sa, rows, rig, calibration, pc, pending, unrestored>>

SetMeasBand(b) ==
    /\ Select /\ now_band' = b
    /\ UNCHANGED <<now_dut_port, now_order, tones>>

\* The relays are in TxCycle.
SetDutPort(p) ==
    /\ Select /\ now_dut_port' = p
    /\ UNCHANGED <<now_band, now_order, tones>>

\* Mutation: any order is taken.
SetImOrderUnchecked(o) ==
    /\ MayCall
    /\ now_order' = o /\ ret' = "OK" /\ read' = NoRead /\ refused' = FALSE
    /\ UNCHANGED <<now_band, now_dut_port, tones, sa, rows, rig, calibration, pc,
                   pending, unrestored>>
SetImOrder(o) ==
    /\ MayCall
    /\ IF o \in UsedOrders THEN now_order' = o /\ ret' = "OK"
                                 ELSE now_order' = now_order /\ ret' = "ERROR"
    /\ read' = NoRead /\ refused' = FALSE
    /\ UNCHANGED <<now_band, now_dut_port, tones, sa, rows, rig, calibration, pc,
                   pending, unrestored>>

\* What the transmit side does to generator 1: nothing, when the call ended
\* before it or had nothing new to send.
Transmitted ==
    /\ \/ UNCHANGED <<cache, gen>>
       \/ \E g \in Leftovers :
             /\ cache' = [cache EXCEPT ![1] = g.cache]
             /\ gen' = [gen EXCEPT ![1] = [pow |-> g.pow, rf |-> g.rf]]
    /\ route' = route

\* fnSetTxFreqs and HwSetTxFreqs: the analyzer is centred on the product at the
\* end, unless the transmit part failed.
SetTxFreqs(t) ==
    /\ MayCall
    /\ tones' = t
    /\ Transmitted
    /\ \/ /\ ret' = "OK" /\ pending' = TRUE
          /\ \E L \in Lost({"centre"}) :
                sa' = SetCenterFreq(sa, PimFreq(now_band, now_order, t), L)
       \/ /\ ret' = "ERROR"
          /\ UNCHANGED <<sa, pending>>
    /\ read' = NoRead /\ refused' = FALSE
    /\ UNCHANGED <<now_band, now_dut_port, now_order, rows, calibration, pc, unrestored>>

\* fnSetSpan, fnSetRBW and fnSetVBW.
SetSpan ==
    /\ pc = "idle"
    /\ \E L \in Lost({"span"}) : sa' = Write(sa, "span", "user", L)
    /\ ret' = "OK" /\ read' = NoRead /\ refused' = FALSE
    /\ UNCHANGED <<selection, rows, rig, calibration, pc, pending, unrestored>>

\* JcConnAna: a new session and a new driver.
ConnAna(kind) ==
    /\ MayCall
    /\ \E L \in Lost(Keys) : sa' = InstrInit(sa, kind, L)
    /\ unrestored' = FALSE
    /\ ret' = "OK" /\ read' = NoRead /\ refused' = FALSE
    /\ UNCHANGED <<selection, rows, rig, calibration, pc, pending>>

\* fnCheckTwoSignalROSC and JcGetSig_ExtRefStatus as generator 1 sees them:
\* neither is called during a measurement or a calibration.
CheckReference ==
    /\ MayCall
    /\ \/ GetReferenceStatus(1, TRUE) /\ ret' \in {"OK", "ERROR"}
       \/ GetReferenceStatus(1, FALSE) /\ ret' = "ERROR"
    /\ read' = NoRead /\ refused' = FALSE
    /\ UNCHANGED <<selection, sa, rows, route, calibration, pc, pending, unrestored>>

-----------------------------------------------------------------------------
(* Readings.                                                                *)

\* fnGetImResult: a product without an offset is read without one.
GetImResult ==
    /\ pc = "idle"
    /\ pending' = FALSE /\ refused' = FALSE
    /\ \E found, ok \in BOOLEAN, L \in Lost({"offset"}), M \in Lost({"centre"}) :
          LET off == IF found THEN rx[<<now_band, now_dut_port>>] ELSE 0
              s == Tune(SetOffset(sa, off, L), Selected, M)
          IN /\ sa' = s
             /\ ret' = IF ok THEN "OK" ELSE "ERROR"
             /\ read' = IF ok THEN Reading("pim", Selected, off, 0, s) ELSE NoRead
    /\ UNCHANGED <<selection, rows, rig, calibration, pc, unrestored>>

\* Mutation: the settings of the VCO reading stay.
VcoDspUnrestored(p, v) ==
    \E L \in Lost(PresetKeys), M \in Lost({"centre"}) :
        LET s == Tune(Preset(sa, "vco", L), VcoFreq(p), M)
        IN sa' = s /\ read' = Reading("vco", VcoFreq(p), 0, v, s)
\* JcGetVcoDsp.
VcoDsp(p, v) ==
    \E L, N \in Lost(PresetKeys), M \in Lost({"centre"}) :
        LET s == Tune(Preset(sa, "vco", L), VcoFreq(p), M)
        IN sa' = Preset(s, "pim", N) /\ read' = Reading("vco", VcoFreq(p), 0, v, s)

\* Mutation: the lookup's error value is used as a level.
OffsetVcoUntested(p) == IF vco[p] = 0 THEN Dead ELSE vco[p]
\* JcGetOffsetVco, whose status nobody looks at: no usable row is 0 dBm.
OffsetVco(p) == IF vco[p] = 0 \/ vco[p] <= Dead THEN 0 ELSE vco[p]

\* HwGet_Vco.
Check(p) ==
    \E v \in VcoLevels :
        /\ VcoDsp(p, v)
        /\ LET d == v - OffsetVco(p)
           IN ret' = IF -VcoThreshold < d /\ d < VcoThreshold THEN "OK" ELSE "ERROR"
        /\ unrestored' = FALSE

\* FnGet_Vco: the selection as it is.
GetVco ==
    /\ MayCall
    /\ Check(<<now_band, now_dut_port>>)
    /\ refused' = FALSE
    /\ UNCHANGED <<selection, rows, rig, calibration, pc, pending>>

\* fnCheckReceiveChannel: disabled bands pass unread, a failed switch ends it.
CheckReceiveChannel(b, p) ==
    /\ MayCall
    /\ \/ /\ ret' = "OK" /\ read' = NoRead
          /\ UNCHANGED <<now_band, now_dut_port, sa, unrestored>>
       \/ /\ now_band' = b /\ now_dut_port' = p
          /\ \/ /\ ret' = "ERROR" /\ read' = NoRead
                /\ UNCHANGED <<sa, unrestored>>
             \/ Check(<<b, p>>)
    /\ refused' = FALSE
    /\ UNCHANGED <<now_order, tones, rows, rig, calibration, pc, pending>>

\* Mutation: the analyzer keeps the calibration's settings.
OffsetTxUnrestored ==
    /\ MayCall
    /\ Transmitted
    /\ \E f \in TxFreqs, L \in Lost(PresetKeys), M \in Lost({"centre"}) :
          sa' = Tune(Preset(sa, "tx", L), f, M)
    /\ ret' \in {"OK", "ERROR"} /\ unrestored' = (ret' # "OK")
    /\ read' = NoRead /\ refused' = FALSE
    /\ UNCHANGED <<selection, rows, calibration, pc, pending>>
\* JcSetOffsetTx as the analyzer sees it: settings, readings, and the settings
\* restored unless an error ended it.  With the external sensor it is untouched.
SetOffsetTx ==
    /\ MayCall
    /\ Transmitted
    /\ \/ \E f \in TxFreqs, L, N \in Lost(PresetKeys), M \in Lost({"centre"}) :
             LET s == Tune(Preset(sa, "tx", L), f, M)
             IN \/ sa' = Preset(s, "pim", N) /\ ret' = "OK" /\ unrestored' = FALSE
                \/ sa' \in {s, Preset(sa, "tx", L)} /\ ret' = "ERROR" /\ unrestored' = TRUE
       \/ ret' \in {"OK", "ERROR"} /\ UNCHANGED <<sa, unrestored>>
    /\ read' = NoRead /\ refused' = FALSE
    /\ UNCHANGED <<selection, rows, calibration, pc, pending>>

-----------------------------------------------------------------------------
(* Receive calibration: JcSetOffsetRx.                                       *)

\* JcSetSig of generator 1 with its status ignored; acked if a level command of
\* this calibration has succeeded before.
Guarded(acked) ==
    \E ok \in BOOLEAN : SetFreqPow(1, Protect, ok) /\ written' = (acked \/ ok)

\* Mutation: the calibration trusts the points to set the level.
RxBeginUnguarded(p) ==
    /\ MayCall /\ run < Runs /\ run' = run + 1
    /\ path' = p /\ pt' = 1 /\ pc' = "on"
    /\ \E L \in Lost(PresetKeys) : sa' = Preset(sa, "pim", L)
    /\ unrestored' = FALSE /\ written' = TRUE /\ refused' = FALSE
    /\ ret' = "none" /\ read' = NoRead
    /\ UNCHANGED <<selection, rx, vco, rig, pending>>
RxBegin(p) ==
    /\ MayCall /\ run < Runs /\ run' = run + 1
    /\ path' = p /\ pt' = 1 /\ pc' = "on"
    /\ \E L \in Lost(PresetKeys) : sa' = Preset(sa, "pim", L)
    /\ Guarded(FALSE)
    /\ unrestored' = FALSE /\ refused' = FALSE
    /\ ret' = "none" /\ read' = NoRead
    /\ UNCHANGED <<selection, rx, vco, route, pending>>

\* fnSetTxOn(true, JC_CARRIER_TX1), its status ignored.
RxOn ==
    /\ pc = "on" /\ pc' = "vco"
    /\ \E ok \in BOOLEAN : OpenPow(1, "on", ok)
    /\ UNCHANGED <<selection, sa, rows, cache, route, calibration, refused, ret,
                   pending, unrestored, read>>

\* The VCO is recorded whatever was read; saving it may fail unnoticed.
RxVco ==
    /\ pc = "vco" /\ pc' = "centre"
    /\ \E v \in VcoLevels :
          /\ VcoDsp(path, v)
          /\ vco' \in {vco, [vco EXCEPT ![path] = v]}
    /\ UNCHANGED <<selection, rx, run, rig, calibration, refused, ret, pending,
                   unrestored>>

RxCentre ==
    /\ pc = "centre" /\ pc' = "set"
    /\ \E L \in Lost({"centre"}) : sa' = SetCenterFreq(sa, RxFreqs[1], L)
    /\ read' = NoRead
    /\ UNCHANGED <<selection, rows, rig, calibration, refused, ret, pending,
                   unrestored>>

RxSet ==
    /\ pc = "set" /\ pc' = "point"
    /\ Guarded(written)
    /\ UNCHANGED <<selection, sa, rows, route, path, pt, refused, ret, pending,
                   unrestored, read>>

\* Mutation: an error returns without switching the generator off.
RxPointHasty ==
    /\ pc = "point"
    /\ \E M \in Lost({"centre"}) :
          LET s == Tune(sa, RxFreqs[pt], M)
          IN /\ sa' = s
             /\ \/ /\ ret' = "ERROR" /\ pc' = "idle"
                   /\ read' = NoRead /\ pt' = pt
                \/ /\ read' = Reading("rx", RxFreqs[pt], 0, 0, s)
                   /\ ret' = ret
                   /\ IF pt < Len(RxFreqs) THEN pt' = pt + 1 /\ pc' = "set"
                                           ELSE pt' = pt /\ pc' = "off"
    /\ UNCHANGED <<selection, rows, rig, path, written, refused, pending, unrestored>>
\* A reading that failed, one too far from the expected level, or one to keep.
RxPoint ==
    /\ pc = "point"
    /\ \E M \in Lost({"centre"}) :
          LET s == Tune(sa, RxFreqs[pt], M)
          IN /\ sa' = s
             /\ \/ /\ ret' = "ERROR" /\ pc' = "off"
                   /\ read' = NoRead /\ pt' = pt
                \/ /\ read' = Reading("rx", RxFreqs[pt], 0, 0, s)
                   /\ ret' = ret
                   /\ IF pt < Len(RxFreqs) THEN pt' = pt + 1 /\ pc' = "set"
                                           ELSE pt' = pt /\ pc' = "off"
    /\ UNCHANGED <<selection, rows, rig, path, written, refused, pending, unrestored>>

\* Off on every way out, then the row is stored unless an error ended it.
RxOff ==
    /\ pc = "off" /\ pc' = "idle"
    /\ \E ok \in BOOLEAN : OpenPow(1, "off", ok) /\ refused' = ~ok
    /\ \/ ret = "ERROR" /\ ret' = ret /\ rx' = rx
       \/ ret = "none" /\ ret' = "OK" /\ rx' = [rx EXCEPT ![path] = run]
       \/ ret = "none" /\ ret' = "ERROR" /\ rx' = rx
    /\ path' = <<0, 0>> /\ pt' = 1 /\ written' = FALSE /\ read' = NoRead
    /\ UNCHANGED <<selection, sa, vco, run, cache, route, pending, unrestored>>

Next ==
    \/ \E b \in Bands : SetMeasBand(b)
    \/ \E p \in DutPorts : SetDutPort(p)
    \/ \E o \in Orders : SetImOrder(o)
    \/ \E t \in Tones : SetTxFreqs(t)
    \/ SetSpan
    \/ \E kind \in Kinds : ConnAna(kind)
    \/ CheckReference
    \/ GetImResult
    \/ GetVco
    \/ \E b \in Bands, p \in DutPorts : CheckReceiveChannel(b, p)
    \/ SetOffsetTx
    \/ \E p \in Paths : RxBegin(p)
    \/ RxOn \/ RxVco \/ RxCentre \/ RxSet \/ RxPoint \/ RxOff

Spec == Init /\ [][Next]_vars

-----------------------------------------------------------------------------
(* Properties.                                                              *)

Control == {"idle", "on", "vco", "centre", "set", "point", "off"}

\* Types.  The order is one that fnSetImOrder lets through.
TypeOK ==
    /\ now_band \in Bands /\ now_dut_port \in DutPorts
    /\ now_order \in UsedOrders /\ tones \in Int \X Int
    /\ sa.kind \in Kinds /\ sa.freq_now \in Int /\ sa.pp \in Presets \union {"none"}
    /\ sa.missed \subseteq Keys /\ DOMAIN sa.at = Keys
    /\ rx \in [Paths -> 0 .. Runs] /\ vco \in [Paths -> VcoLevels \union {0}]
    /\ run \in 0 .. Runs /\ pc \in Control /\ path \in Paths
    /\ pt \in DOMAIN RxFreqs
    /\ \A b \in {pending, unrestored, written, refused} : b \in BOOLEAN

\* A reading is taken at the frequency it was asked for, although one driver
\* skips centring for the frequency it read last while fnSetTxFreqs and
\* JcSetOffsetRx move the centre behind that cache: for the client that reads
\* what it programs, or the driver that has no cache, and unless the last
\* centring was lost.
ReadsWhereAsked ==
    read.what # "none" /\ (Orderly \/ sa.kind = "RS") /\ "centre" \notin read.missed
        => read.at["centre"] = read.want

\* A product is read with the offset looked up for it, the VCO and the points of
\* a receive calibration with none, although the offset of the last product is
\* still set and a driver skips a preset it believes to be in place.
OffsetFits ==
    read.what # "none" /\ "offset" \notin read.missed => read.at["offset"] = read.offset

\* A product or a calibration point is read in the range for products, the VCO in
\* its own span, whatever was calibrated before, unless a transmit calibration
\* failed and nothing has restored the settings since.
SettingsFit ==
    /\ read.what \in {"pim", "rx"} /\ read.clean /\ "range" \notin read.missed
          => read.at["range"] = "pim"
    /\ read.what = "vco" /\ "span" \notin read.missed => read.at["span"] = "vco"

\* While a receive calibration has generator 1 on, its level is the protective
\* one, not what the transmit side left, although the command for it is skipped
\* when the cache already holds that level and later ones may fail unnoticed.
\* Said from the first acknowledged level command of the calibration on, since
\* JcSetOffsetRx looks at no status; a generator reset behind its cache is at its
\* preset instead.  Needs ~LateWrites: a failed write that takes effect can move
\* the generator away from a level that is cached and so not sent.
RxProtected ==
    pc # "idle" /\ written /\ gen[1].rf = "on" => gen[1].pow \in {Protect, ResetPow}

\* Every way out of a receive calibration leaves generator 1 off, unless it
\* refuses.
RxEndsSilent == [][pc # "idle" /\ pc' = "idle" => gen'[1].rf = "off" \/ refused']_vars

\* The VCO check passes only for a reading that succeeded against a recorded
\* level, although calibrations record failed readings and the check ignores
\* that its lookup failed.
PassMeansReference ==
    pc = "idle" /\ read.what = "vco" /\ ret = "OK"
        => read.value > Dead /\ vco[<<now_band, now_dut_port>>] \notin {0, Dead}
=============================================================================
