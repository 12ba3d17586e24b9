--------------------------- MODULE TxCalibration ---------------------------
(***************************************************************************)
(* The automatic transmit calibration: JcSetOffsetTx with                    *)
(* JcSetOffsetTx_Single for every frequency point, storing one row of levels *)
(* (REAL) and one row of detector readings (DSP) per carrier.                *)
(*                                                                          *)
(* Levels are tenths of a dB, deviations whole dB.  What is stored is        *)
(* abstracted to the number of the calibration that stored it.               *)
(***************************************************************************)
EXTENDS Instruments

CONSTANTS
    Paths,          \* <<band, port>> pairs that are calibrated
    Target,         \* des_p_dbm
    Deviations,     \* Target - (reading + loss), over all readings
    Window,         \* OFFSET_TX_THREASOLD
    Protect,        \* OFFSET_PROTECT_TX
    MaxPow,         \* SIGNAL_SOURCE_MAX_POW
    Rounds,         \* iterations of a point
    Gains,          \* iterations that correct the level, the others only read
    Readings,       \* readings taken when no power is found
    Points,         \* frequency points
    Runs            \* bound on the number of calibrations

ASSUME PathAssumption == Paths \subseteq Nat \X Nat
ASSUME LevelAssumption ==
    /\ Target \in Int /\ Deviations \subseteq Int /\ Window \in Nat
    /\ Protect \in Int /\ MaxPow \in Int
    /\ Protect < MaxPow /\ ResetPow < MaxPow
ASSUME CountAssumption ==
    /\ Rounds \in Nat \ {0} /\ Gains \in Nat /\ Readings \in Nat \ {0}
    /\ Points \in Nat \ {0} /\ Runs \in Nat

Sensors == {"analyzer", "external"}     \* ext_sen_index 0 and 1
\* JC_STATUS_ERROR stands for a failed switch, no power and a failed save alike.
Statuses == {"none", "OK", "ERROR", "READ_SPECTRUM_FAIL", "OUT_RANGE"}
Control == {"idle", "switch", "protect", "open", "point", "set", "read",
            "sense", "close", "real", "dsp", "off"}

VARIABLES
    sensor,         \* what measures the output power
    path, cr,       \* the path and the carrier being calibrated
    pt, i, n,       \* frequency point, iteration and reading
    p_true,         \* the level to be commanded
    resulte,        \* the level the point's calibration stands for
    written,        \* whether the last level was written or the write failed
    refused,        \* carriers that refused their last output command
    forgotten,      \* carriers an error path should have switched off
    db,             \* for each carrier, which calibration stored its rows
    run,            \* calibrations started
    off,            \* the carrier an error path switches off
    pc, ret

where == <<path, cr, run, sensor>>
loop == <<pt, i, n, p_true, resulte>>
rig == <<cache, gen, route, refused, forgotten, written>>
vars == <<cache, gen, route, sensor, path, cr, pt, i, n, p_true, resulte, written,
          refused, forgotten, db, run, off, pc, ret>>

Init ==
    /\ cache = [c \in Carriers |-> 0]
    /\ gen = [c \in Carriers |-> AtPreset]
    /\ route = Mixed
    /\ sensor = "analyzer" /\ path \in Paths /\ cr = 1
    /\ pt = 1 /\ i = 0 /\ n = 1 /\ p_true = Protect /\ resulte = 0
    /\ written = "yes" /\ refused = {} /\ forgotten = {}
    /\ db = [c \in Carriers |-> [real |-> 0, dsp |-> 0]]
    /\ run = 0 /\ off = 1 /\ pc = "idle" /\ ret = "none"

Return(s) == pc' = "idle" /\ ret' = s

\* JcSetOffsetTX_Config.  The index is kept when the sensor cannot be connected.
SetConfig(s) ==
    /\ pc = "idle" /\ sensor' = s
    /\ UNCHANGED <<rig, loop, path, cr, run, db, off, pc, ret>>

\* fnCheckTwoSignalROSC and JcGetSig_ExtRefStatus.
CheckReference(c) ==
    /\ pc = "idle" /\ GetReferenceStatus(c, FALSE)
    /\ UNCHANGED <<where, loop, route, written, refused, forgotten, db, off, pc, ret>>

SetOffsetTx(p) ==
    /\ pc = "idle" /\ run < Runs /\ run' = run + 1
    /\ path' = p /\ cr' = 1 /\ pt' = 1
    /\ pc' = "switch" /\ ret' = "none"
    /\ UNCHANGED <<rig, sensor, i, n, p_true, resulte, db, off>>

Switch ==
    /\ pc = "switch"
    /\ \E ok \in BOOLEAN :
          /\ SetSwitch(path[1], path[2], cr, ok)
          /\ IF ok THEN pc' = "protect" /\ ret' = ret ELSE Return("ERROR")
    /\ UNCHANGED <<where, loop, cache, gen, refused, forgotten, written, db, off>>

\* InstrSetFreqPow with its status ignored, as everywhere in the calibration.
Command(level) ==
    \E ok \in BOOLEAN :
        /\ SetFreqPow(cr, level, ok)
        /\ written' = IF ok THEN "yes" ELSE "no"

\* The level that protects the amplifier, before it is switched on.
ProtectOn ==
    /\ pc = "protect" /\ pc' = "open" /\ Command(Protect)
    /\ UNCHANGED <<where, loop, route, refused, forgotten, db, off, ret>>

\* InstrOpenPow, its status ignored.
Output(c, on) ==
    \E ok \in BOOLEAN :
        /\ OpenPow(c, on, ok)
        /\ refused' = IF ok THEN refused \ {c} ELSE refused \union {c}
        /\ forgotten' = forgotten \ {c}

Open ==
    /\ pc = "open" /\ pc' = "point" /\ Output(cr, "on")
    /\ UNCHANGED <<where, loop, cache, route, written, db, off, ret>>

-----------------------------------------------------------------------------
(* One point: JcSetOffsetTx_Single.                                          *)

Point ==
    /\ pc = "point" /\ pc' = "set" /\ Command(Protect)
    /\ p_true' = Protect /\ resulte' = 0 /\ i' = 0
    /\ UNCHANGED <<where, pt, n, route, refused, forgotten, db, off, ret>>

Set ==
    /\ pc = "set" /\ pc' = "read" /\ n' = 1 /\ Command(p_true)
    /\ UNCHANGED <<where, pt, i, p_true, resulte, route, refused, forgotten, db, off, ret>>

Leave(c, s) == pc' = "off" /\ off' = c /\ ret' = s

\* An unreadable spectrum: the error path switches off the first amplifier.
ReadFails ==
    /\ sensor = "analyzer"
    /\ Leave(1, "READ_SPECTRUM_FAIL")
    /\ forgotten' = forgotten \union ({cr} \ {1})
    /\ UNCHANGED loop

\* Mutation: the level is set again until there is power.
NoPowerAgain == pc' = "set" /\ UNCHANGED <<loop, forgotten, off, ret>>

\* A reading of -50 dBm or less, which includes an external sensor that fails.
NoPower ==
    /\ IF n < Readings THEN n' = n + 1 /\ UNCHANGED <<pc, off, ret>>
                       ELSE n' = n /\ Leave(cr, "ERROR")
    /\ UNCHANGED <<pt, i, p_true, resulte, forgotten>>

\* The level after a correction by 0.9 times the deviation.  After the first
\* iterations half the deviation is computed but not applied.
Corrected(dev) == IF i < Gains THEN p_true + 9 * dev ELSE p_true

\* Mutation: a corrected level is checked in the next iteration only.
BelowCommanded(p) == p_true < MaxPow
Below(p) == p < MaxPow

\* Mutation: the result is taken only when the level is corrected.
ResultCorrected(dev) == IF dev \in -Window .. Window THEN resulte ELSE p_true - 10 * Target
Result(dev) == p_true - 10 * Target

Judge(dev) ==
    /\ UNCHANGED <<n, pt, forgotten>> /\ resulte' = Result(dev)
    /\ IF dev \in -Window .. Window
       THEN pc' = "sense" /\ UNCHANGED <<i, p_true, off, ret>>
       ELSE /\ p_true' = Corrected(dev)
            /\ IF ~ Below(Corrected(dev)) THEN i' = i /\ Leave(cr, "OUT_RANGE")
               ELSE IF i + 1 = Rounds THEN pc' = "sense" /\ UNCHANGED <<i, off, ret>>
               ELSE pc' = "set" /\ i' = i + 1 /\ UNCHANGED <<off, ret>>

Read ==
    /\ pc = "read"
    /\ ReadFails \/ NoPower \/ \E dev \in Deviations : Judge(dev)
    /\ UNCHANGED <<where, cache, gen, route, refused, written, db>>

\* Mutation: one point too many.
MorePointsLate == pt <= Points
MorePoints == pt < Points

\* The detector is read and the point is done.
Sense ==
    /\ pc = "sense"
    /\ IF MorePoints THEN pc' = "point" /\ pt' = pt + 1 ELSE pc' = "close" /\ pt' = pt
    /\ UNCHANGED <<where, rig, i, n, p_true, resulte, db, off, ret>>

SwitchOff ==
    /\ pc = "off" /\ Return(ret) /\ Output(off, "off")
    /\ UNCHANGED <<where, loop, cache, route, written, db, off>>

-----------------------------------------------------------------------------
(* After the last point of a carrier.                                        *)

\* Mutation: the amplifier stays on until both carriers are calibrated.
CloseLast ==
    /\ pc = "close" /\ pc' = "real"
    /\ IF cr = 2 THEN Output(cr, "off") ELSE UNCHANGED <<gen, refused, forgotten>>
    /\ UNCHANGED <<where, loop, cache, route, written, db, off, ret>>
Close ==
    /\ pc = "close" /\ pc' = "real" /\ Output(cr, "off")
    /\ UNCHANGED <<where, loop, cache, route, written, db, off, ret>>

StoreReal ==
    /\ pc = "real"
    /\ \/ db' = [db EXCEPT ![cr].real = run] /\ pc' = "dsp" /\ ret' = ret
       \/ db' = db /\ Return("ERROR")
    /\ UNCHANGED <<where, loop, rig, off>>

NextCarrier ==
    IF cr = 1 THEN cr' = 2 /\ pt' = 1 /\ pc' = "switch" /\ ret' = ret
              ELSE Return("OK") /\ UNCHANGED <<cr, pt>>

\* Mutation: the status of the second row is ignored.
StoreDspUnchecked ==
    /\ pc = "dsp" /\ NextCarrier
    /\ db' \in {db, [db EXCEPT ![cr].dsp = run]}
    /\ UNCHANGED <<path, run, sensor, i, n, p_true, resulte, rig, off>>
StoreDsp ==
    /\ pc = "dsp"
    /\ \/ db' = [db EXCEPT ![cr].dsp = run] /\ NextCarrier
       \/ db' = db /\ Return("ERROR") /\ UNCHANGED <<cr, pt>>
    /\ UNCHANGED <<path, run, sensor, i, n, p_true, resulte, rig, off>>

Step ==
    \/ Switch \/ ProtectOn \/ Open \/ Point \/ Set \/ Read \/ Sense \/ SwitchOff
    \/ Close \/ StoreReal \/ StoreDsp
Next ==
    \/ \E s \in Sensors : SetConfig(s)
    \/ \E c \in Carriers : CheckReference(c)
    \/ \E p \in Paths : SetOffsetTx(p)
    \/ Step

Spec == Init /\ [][Next]_vars
\* Every step is a synchronous instrument or database call.
FairSpec == Spec /\ WF_vars(Step)

-----------------------------------------------------------------------------
(* Properties.                                                              *)

TypeOK ==
    /\ cache \in [Carriers -> Int] /\ gen \in [Carriers -> [pow : Int, rf : Outputs]]
    /\ route \in Routes \union {Mixed}
    /\ sensor \in Sensors /\ path \in Paths /\ cr \in Carriers
    /\ pt \in 1 .. Points /\ i \in 0 .. Rounds - 1 /\ n \in 1 .. Readings
    /\ p_true \in Int /\ resulte \in Int
    /\ written \in {"yes", "no"} /\ refused \subseteq Carriers /\ forgotten \subseteq Carriers
    /\ db \in [Carriers -> [real : 0 .. run, dsp : 0 .. run]]
    /\ run \in 0 .. Runs /\ off \in Carriers /\ pc \in Control /\ ret \in Statuses

\* Whatever the readings, the failed writes and the order of calibrations, a
\* calibration never drives a generator to the source limit.
BelowLimit == \A c \in Carriers : gen[c].pow < MaxPow

\* The detector reading stored in the DSP row belongs to the level stored in the
\* REAL row, also for a point that never converged, unless the generator did not
\* take the last level (whose status the code ignores) or is at its preset while
\* its driver takes that level for set: a new driver and 0 dBm, or a generator
\* reset by the reference check.
SensedAtStored ==
    pc = "sense" =>
        gen[cr].pow \in {resulte + 10 * Target, ResetPow} \/ written = "no"

\* A carrier is measured through its own coupler and path, switched on and with
\* the other amplifier off, as far as the generators obeyed and no unreadable
\* spectrum made an earlier calibration forget the second amplifier.
ReadsAlone ==
    pc \in {"read", "sense"} =>
        /\ route = [path |-> path, coup |-> cr]
        /\ gen[cr].rf = "on" \/ cr \in refused
        /\ \A c \in Carriers \ {cr} : gen[c].rf = "off" \/ c \in refused \union forgotten

\* The four rows are stored in order, none behind one that failed, and success is
\* reported exactly when the last one is stored.  A measuring fault with a status
\* of its own leaves no level row without its detector row; JC_STATUS_ERROR does
\* not tell, because it is the status of a failed switch, of no power and of either
\* failed save.
RowsMatchStatus ==
    pc = "idle" /\ ret # "none" =>
        /\ ret = "OK" <=> db[2].dsp = run
        /\ db[2].real = run => db[1].dsp = run
        /\ \A c \in Carriers : db[c].dsp = run => db[c].real = run
        /\ ret # "ERROR" => \A c \in Carriers : db[c].real = run => db[c].dsp = run

\* Every calibration returns.
CalibrationReturns == pc # "idle" ~> pc = "idle"

(* A statement of the code's comments it disagrees with.                     *)

\* "Switch off the amplifier": the error path of an unreadable spectrum leaves
\* no amplifier on that obeys its switch-off command.
SilentAfterReadError ==
    pc = "idle" /\ ret = "READ_SPECTRUM_FAIL" =>
        \A c \in Carriers : gen[c].rf = "off" \/ c \in refused
=============================================================================
