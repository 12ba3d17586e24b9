------------------------ MODULE TxCalibrationProofs ------------------------
(* Theorems about TxCalibration, for every target, protection level and       *)
(* limit, and every number of points, iterations and readings.                *)
EXTENDS TxCalibration, TLAPS

LEMMA CommandTyped ==
    ASSUME TypeOK, NEW level \in Int, Command(level)
    PROVE  /\ cache' \in [Carriers -> Int]
           /\ gen' \in [Carriers -> [pow : Int, rf : Outputs]]
           /\ written' \in {"yes", "no"}
BY DEF Command, SetFreqPow, TypeOK

LEMMA OutputTyped ==
    ASSUME TypeOK, NEW c \in Carriers, NEW on \in Outputs, Output(c, on)
    PROVE  /\ gen' \in [Carriers -> [pow : Int, rf : Outputs]]
           /\ refused' \subseteq Carriers /\ forgotten' \subseteq Carriers
BY DEF Output, OpenPow, TypeOK

LEMMA SwitchTyped ==
    ASSUME TypeOK, NEW ok, SetSwitch(path[1], path[2], cr, ok)
    PROVE  route' \in Routes \union {Mixed}
<1>1. path[1] \in Nat /\ path[2] \in Nat
  BY PathAssumption DEF PathAssumption, TypeOK
<1>2. [path |-> <<path[1], path[2]>>, coup |-> cr] \in Routes
  BY <1>1 DEF Routes, TypeOK
<1> QED
  BY <1>2 DEF SetSwitch, TypeOK

LEMMA TypeInit == Init => TypeOK
BY PathAssumption, LevelAssumption, CountAssumption, ResetAssumption
   DEF PathAssumption, LevelAssumption, CountAssumption, ResetAssumption,
       Init, AtPreset, TypeOK, Carriers, Outputs, Sensors, Control, Statuses

LEMMA TypeStep == TypeOK /\ [Next]_vars => TypeOK'
<1> USE LevelAssumption, CountAssumption
    DEF LevelAssumption, CountAssumption, where, loop, rig
<1> SUFFICES ASSUME TypeOK, [Next]_vars PROVE TypeOK'
  OBVIOUS
<1> USE DEF Sensors, Control, Statuses
<1>1. ASSUME NEW s \in Sensors, SetConfig(s) PROVE TypeOK'
  BY <1>1 DEF SetConfig, TypeOK
<1>2. ASSUME NEW p \in Paths, SetOffsetTx(p) PROVE TypeOK'
  BY <1>2 DEF SetOffsetTx, TypeOK, Carriers
<1>3. CASE Switch
  BY <1>3, SwitchTyped DEF Switch, Return, TypeOK
<1>4. CASE ProtectOn
  BY <1>4, CommandTyped DEF ProtectOn, TypeOK
<1>5. CASE Open
  <2>1. /\ gen' \in [Carriers -> [pow : Int, rf : Outputs]]
        /\ refused' \subseteq Carriers /\ forgotten' \subseteq Carriers
    BY <1>5, OutputTyped DEF Open, TypeOK, Outputs
  <2> QED
    BY <1>5, <2>1 DEF Open, TypeOK
<1>6. CASE Point
  BY <1>6, CommandTyped DEF Point, TypeOK
<1>7. CASE Set
  <2>1. /\ cache' \in [Carriers -> Int] /\ written' \in {"yes", "no"}
        /\ gen' \in [Carriers -> [pow : Int, rf : Outputs]]
    BY <1>7, CommandTyped DEF Set, TypeOK
  <2> QED
    BY <1>7, <2>1 DEF Set, TypeOK
<1>8. CASE Read
  <2>1. CASE ReadFails
    BY <1>8, <2>1 DEF Read, ReadFails, Leave, TypeOK, Carriers
  <2>2. CASE NoPower
    BY <1>8, <2>2 DEF Read, NoPower, Leave, TypeOK
  <2>3. ASSUME NEW dev \in Deviations, Judge(dev) PROVE TypeOK'
    <3>1. Corrected(dev) \in Int /\ p_true - 10 * Target \in Int
      BY DEF Corrected, TypeOK
    <3> QED
      BY <1>8, <2>3, <3>1 DEF Read, Judge, Result, Leave, TypeOK
  <2> QED
    BY <1>8, <2>1, <2>2, <2>3 DEF Read
<1>9. CASE Sense
  BY <1>9 DEF Sense, MorePoints, TypeOK
<1>10. CASE SwitchOff
  <2>1. /\ gen' \in [Carriers -> [pow : Int, rf : Outputs]]
        /\ refused' \subseteq Carriers /\ forgotten' \subseteq Carriers
    BY <1>10, OutputTyped DEF SwitchOff, TypeOK, Outputs
  <2> QED
    BY <1>10, <2>1 DEF SwitchOff, Return, TypeOK
<1>11. CASE Close
  <2>1. /\ gen' \in [Carriers -> [pow : Int, rf : Outputs]]
        /\ refused' \subseteq Carriers /\ forgotten' \subseteq Carriers
    BY <1>11, OutputTyped DEF Close, TypeOK, Outputs
  <2> QED
    BY <1>11, <2>1 DEF Close, TypeOK
<1>12. CASE StoreReal
  <2>1. db' \in [Carriers -> [real : 0 .. run, dsp : 0 .. run]]
    BY <1>12 DEF StoreReal, TypeOK
  <2> QED
    BY <1>12, <2>1 DEF StoreReal, Return, TypeOK
<1>13. CASE StoreDsp
  BY <1>13 DEF StoreDsp, NextCarrier, Return, TypeOK, Carriers
<1>14. CASE UNCHANGED vars
  BY <1>14 DEF vars, TypeOK
<1>15. ASSUME NEW c \in Carriers, CheckReference(c) PROVE TypeOK'
  <2>1. AtPreset \in [pow : Int, rf : Outputs]
    BY ResetAssumption DEF ResetAssumption, AtPreset, Outputs
  <2>2. gen' \in [Carriers -> [pow : Int, rf : Outputs]] /\ cache' = cache
    BY <1>15, <2>1 DEF CheckReference, GetReferenceStatus, TypeOK
  <2> QED
    BY <1>15, <2>2 DEF CheckReference, TypeOK
<1> QED
  BY <1>1, <1>2, <1>3, <1>4, <1>5, <1>6, <1>7, <1>8, <1>9, <1>10, <1>11, <1>12,
     <1>13, <1>14, <1>15 DEF Next, Step

\* Every state of a calibration is well-formed.
THEOREM CalibrationTypeCorrect == Spec => []TypeOK
BY TypeInit, TypeStep, PTL DEF Spec

-----------------------------------------------------------------------------
(* The source limit.                                                         *)

LevelInv == BelowLimit /\ (pc = "set" => p_true < MaxPow)

LEMMA CommandBelow ==
    ASSUME TypeOK, BelowLimit, NEW level \in Int, level < MaxPow, Command(level)
    PROVE  BelowLimit'
BY DEF Command, SetFreqPow, BelowLimit, TypeOK

LEMMA LevelStep == TypeOK /\ LevelInv /\ [Next]_vars => LevelInv'
<1> USE LevelAssumption DEF LevelAssumption, where, loop, rig, LevelInv
<1> SUFFICES ASSUME TypeOK, LevelInv, [Next]_vars PROVE LevelInv'
  OBVIOUS
<1>1. CASE ProtectOn
  BY <1>1, CommandBelow DEF ProtectOn
<1>2. CASE Point
  BY <1>2, CommandBelow DEF Point
<1>3. CASE Set
  BY <1>3, CommandBelow DEF Set, TypeOK
<1>4. CASE Read
  <2>1. BelowLimit'
    BY <1>4 DEF Read, BelowLimit
  <2>2. CASE pc' # "set"
    BY <2>1, <2>2
  <2>3. ASSUME NEW dev \in Deviations, Judge(dev) PROVE LevelInv'
    BY <2>1, <2>3 DEF Judge, Below, Leave
  <2> QED
    BY <1>4, <2>2, <2>3 DEF Read, ReadFails, NoPower, Leave
<1>5. CASE Open
  <2>1. \A c \in Carriers : gen'[c].pow = gen[c].pow
    BY <1>5 DEF Open, Output, OpenPow, TypeOK
  <2> QED
    BY <1>5, <2>1 DEF Open, BelowLimit
<1>6. CASE Close
  <2>1. \A c \in Carriers : gen'[c].pow = gen[c].pow
    BY <1>6 DEF Close, Output, OpenPow, TypeOK
  <2> QED
    BY <1>6, <2>1 DEF Close, BelowLimit
<1>7. CASE SwitchOff
  <2>1. \A c \in Carriers : gen'[c].pow = gen[c].pow
    BY <1>7 DEF SwitchOff, Output, OpenPow, TypeOK
  <2> QED
    BY <1>7, <2>1 DEF SwitchOff, Return, BelowLimit
<1>8. CASE UNCHANGED gen /\ pc' # "set"
  BY <1>8 DEF BelowLimit
<1>9. CASE UNCHANGED <<gen, pc, p_true>>
  BY <1>9 DEF BelowLimit
<1>10. ASSUME NEW s \in Sensors, SetConfig(s) PROVE LevelInv'
  BY <1>9, <1>10 DEF SetConfig
<1>11. ASSUME NEW q \in Paths, SetOffsetTx(q) PROVE LevelInv'
  BY <1>8, <1>11 DEF SetOffsetTx
<1>12. CASE Switch \/ Sense \/ StoreReal \/ StoreDsp
  BY <1>8, <1>12 DEF Switch, Sense, StoreReal, StoreDsp, NextCarrier, Return
<1>13. ASSUME NEW c \in Carriers, CheckReference(c) PROVE LevelInv'
  BY <1>13, ResetAssumption
     DEF ResetAssumption, CheckReference, GetReferenceStatus, AtPreset, BelowLimit, TypeOK
<1> QED
  BY <1>1, <1>2, <1>3, <1>4, <1>5, <1>6, <1>7, <1>9, <1>10, <1>11, <1>12, <1>13
     DEF Next, Step, vars

\* A calibration never drives a generator to the source limit: every level is
\* checked between its correction and its command.
THEOREM NeverAtLimit == Spec => []BelowLimit
<1>1. Init => LevelInv
  BY LevelAssumption DEF LevelAssumption, Init, AtPreset, LevelInv, BelowLimit
<1>2. LevelInv => BelowLimit
  BY DEF LevelInv
<1> QED
  BY <1>1, <1>2, TypeInit, TypeStep, LevelStep, PTL DEF Spec

-----------------------------------------------------------------------------
(* The level a point stands for.                                             *)

\* A driver's cache is right, or the generator is at its preset; while a point is
\* judged the cache holds the level commanded last, if that command succeeded.
Honest == \A c \in Carriers : gen[c].pow \in {cache[c], ResetPow}
CacheInv ==
    /\ Honest
    /\ pc = "read" /\ written = "yes" => cache[cr] = p_true
    /\ pc = "sense" /\ written = "yes" => cache[cr] = resulte + 10 * Target

LEMMA CommandCached ==
    ASSUME ~ LateWrites, TypeOK, CacheInv, NEW level \in Int, Command(level)
    PROVE  /\ Honest'
           /\ written' = "yes" => cache'[cr] = level
BY Zenon, SMT DEF Command, SetFreqPow, CacheInv, Honest, TypeOK

LEMMA CacheStep == ASSUME ~ LateWrites PROVE TypeOK /\ CacheInv /\ [Next]_vars => CacheInv'
<1> USE LevelAssumption DEF LevelAssumption, where, loop, rig
<1> SUFFICES ASSUME TypeOK, CacheInv, [Next]_vars PROVE CacheInv'
  OBVIOUS
<1>a. ~ LateWrites
  OBVIOUS
<1>1. CASE ProtectOn
  BY <1>1, <1>a, CommandCached DEF ProtectOn, CacheInv, Honest
<1>2. CASE Point
  BY <1>2, <1>a, CommandCached DEF Point, CacheInv, Honest
<1>3. CASE Set
  <2>1. p_true \in Int
    BY DEF TypeOK
  <2>2. /\ Honest'
        /\ written' = "yes" => cache'[cr] = p_true
    BY <1>3, <1>a, <2>1, CommandCached DEF Set
  <2> QED
    BY <1>3, <2>2 DEF Set, CacheInv, Honest
<1>4. CASE Read
  <2>1. ASSUME NEW dev \in Deviations, Judge(dev) PROVE CacheInv'
    <3>1. p_true = Result(dev) + 10 * Target
      BY DEF Result, TypeOK
    <3> QED
      BY <1>4, <2>1, <3>1 DEF Read, Judge, Leave, CacheInv, Honest
  <2> QED
    BY <1>4, <2>1 DEF Read, ReadFails, NoPower, Leave, CacheInv, Honest
<1>5. CASE Open \/ Close \/ SwitchOff
  <2>1. /\ \A c \in Carriers : gen'[c].pow = gen[c].pow
        /\ UNCHANGED cache /\ pc' \notin {"read", "sense"}
    BY <1>5 DEF Open, Close, SwitchOff, Return, Output, OpenPow, TypeOK
  <2> QED
    BY <2>1 DEF CacheInv, Honest
<1>6. CASE UNCHANGED <<cache, gen>> /\ pc' \notin {"read", "sense"}
  BY <1>6 DEF CacheInv, Honest
<1>7. CASE UNCHANGED <<cache, gen, pc, written, cr, p_true, resulte>>
  BY <1>7 DEF CacheInv, Honest
<1>8. ASSUME NEW s \in Sensors, SetConfig(s) PROVE CacheInv'
  BY <1>7, <1>8 DEF SetConfig
<1>9. ASSUME NEW q \in Paths, SetOffsetTx(q) PROVE CacheInv'
  BY <1>6, <1>9 DEF SetOffsetTx
<1>10. CASE Switch \/ Sense \/ StoreReal \/ StoreDsp
  BY <1>6, <1>10 DEF Switch, Sense, StoreReal, StoreDsp, NextCarrier, Return
<1>11. ASSUME NEW c \in Carriers, CheckReference(c) PROVE CacheInv'
  BY <1>11 DEF CheckReference, GetReferenceStatus, AtPreset, CacheInv, Honest, TypeOK
<1> QED
  BY <1>1, <1>2, <1>3, <1>4, <1>5, <1>7, <1>8, <1>9, <1>10, <1>11 DEF Next, Step, vars

\* Whatever fails, wherever a calibration ends and whenever the reference is
\* checked, a driver's cache tells the level its generator is at, unless that is at
\* its preset: never set, or reset behind the driver.
THEOREM CachesTellLevels == ASSUME ~ LateWrites PROVE Spec => []Honest
<1>1. Init => CacheInv
  BY DEF Init, AtPreset, CacheInv, Honest
<1>2. TypeOK /\ CacheInv /\ [Next]_vars => CacheInv'
  BY CacheStep
<1>3. CacheInv => Honest
  BY DEF CacheInv, Honest
<1> QED
  BY <1>1, <1>2, <1>3, TypeInit, TypeStep, PTL DEF Spec

\* The detector is read at the level that is stored, although no status of a
\* generator write is looked at, if a write reported as failed never lands, except
\* after a level write that failed and by a generator at its preset.
THEOREM SensesWhatItStores == ASSUME ~ LateWrites PROVE Spec => []SensedAtStored
<1>1. Init => CacheInv
  BY DEF Init, AtPreset, CacheInv, Honest
<1>2. TypeOK /\ CacheInv /\ [Next]_vars => CacheInv'
  BY CacheStep
<1>3. TypeOK /\ CacheInv => SensedAtStored
  BY DEF CacheInv, Honest, SensedAtStored, TypeOK
<1> QED
  BY <1>1, <1>2, <1>3, TypeInit, TypeStep, PTL DEF Spec

-----------------------------------------------------------------------------
(* The rows and the status.                                                  *)

New(c) == [real |-> run, dsp |-> run]
Untouched(c) == db[c].real # run /\ db[c].dsp # run
Measuring == pc \in {"switch", "protect", "open", "point", "set", "read", "sense",
                     "close", "real", "off"}

\* Both rows of the carriers done are new, none of the others is, except that
\* the REAL row of the current one is new while its DSP row is being stored.
RowsInv ==
    /\ Measuring => \A c \in Carriers : IF c < cr THEN db[c] = New(c) ELSE Untouched(c)
    /\ pc = "dsp" => /\ db[cr].real = run /\ db[cr].dsp # run
                     /\ \A c \in Carriers : /\ c < cr => db[c] = New(c)
                                            /\ c > cr => Untouched(c)
    /\ pc = "off" => ret \in {"READ_SPECTRUM_FAIL", "ERROR", "OUT_RANGE"}
    /\ RowsMatchStatus

LEMMA RowsStep == TypeOK /\ RowsInv /\ [Next]_vars => RowsInv'
<1> USE CountAssumption DEF CountAssumption, where, loop, rig
<1> SUFFICES ASSUME TypeOK, RowsInv, [Next]_vars PROVE RowsInv'
  OBVIOUS
<1> USE DEF New, Untouched, Measuring
<1>1. CASE UNCHANGED <<db, run, cr>> /\ Measuring /\ pc' \in {"protect", "open",
               "point", "set", "read", "sense", "close", "real"}
  BY <1>1 DEF RowsInv, RowsMatchStatus
<1>2. CASE UNCHANGED <<db, run, cr>> /\ Measuring /\ pc' = "off"
           /\ ret' \in {"READ_SPECTRUM_FAIL", "ERROR", "OUT_RANGE"}
  BY <1>2 DEF RowsInv, RowsMatchStatus
<1>3. CASE UNCHANGED <<db, run, cr, pc, ret>>
  BY <1>3 DEF RowsInv, RowsMatchStatus
<1>4. CASE UNCHANGED <<db, run, cr>> /\ Measuring /\ pc' = "idle" /\ ret' # "OK"
  BY <1>4 DEF RowsInv, RowsMatchStatus, TypeOK, Carriers
<1>5. ASSUME NEW s \in Sensors, SetConfig(s) PROVE RowsInv'
  BY <1>3, <1>5 DEF SetConfig
<1>6. ASSUME NEW q \in Paths, SetOffsetTx(q) PROVE RowsInv'
  <2>1. cr' = 1 /\ run' = run + 1 /\ db' = db /\ pc' = "switch"
    BY <1>6 DEF SetOffsetTx
  <2>2. \A c \in Carriers : db[c].real # run + 1 /\ db[c].dsp # run + 1 /\ ~ (c < 1)
    BY DEF TypeOK, Carriers
  <2> QED
    BY <2>1, <2>2 DEF RowsInv, RowsMatchStatus
<1>7. CASE Switch
  BY <1>1, <1>4, <1>7 DEF Switch, Return
<1>8. CASE ProtectOn \/ Open \/ Point \/ Set \/ Sense \/ Close
  BY <1>1, <1>8 DEF ProtectOn, Open, Point, Set, Sense, Close
<1>9. CASE Read
  <2>1. ASSUME NEW dev \in Deviations, Judge(dev) PROVE RowsInv'
    BY <1>1, <1>2, <1>9, <2>1 DEF Read, Judge, Leave
  <2>2. CASE ReadFails
    BY <1>2, <1>9, <2>2 DEF Read, ReadFails, Leave
  <2>3. CASE NoPower
    BY <1>1, <1>2, <1>9, <2>3 DEF Read, NoPower, Leave
  <2> QED
    BY <1>9, <2>1, <2>2, <2>3 DEF Read
<1>10. CASE SwitchOff
  <2>1. ret # "OK"
    BY <1>10 DEF SwitchOff, RowsInv
  <2> QED
    BY <1>4, <1>10, <2>1 DEF SwitchOff, Return
<1>11. CASE StoreReal
  <2>1. CASE db' = db /\ Return("ERROR")
    BY <1>4, <1>11, <2>1 DEF StoreReal, Return
  <2>2. CASE db' = [db EXCEPT ![cr].real = run] /\ pc' = "dsp"
    <3>1. /\ db'[cr].real = run
          /\ \A c \in Carriers : c # cr => db'[c] = db[c]
      BY <2>2 DEF TypeOK
    <3>2. UNCHANGED <<cr, run>> /\ ~ Measuring'
      BY <1>11, <2>2 DEF StoreReal
    <3>3. \A c \in Carriers : c \in Int /\ cr \in Int
      BY DEF TypeOK, Carriers
    <3>4. db'[cr].dsp = db[cr].dsp /\ db[cr].dsp # run
      BY <1>11, <2>2, <3>3 DEF StoreReal, RowsInv, TypeOK
    <3> QED
      BY <1>11, <2>2, <3>1, <3>2, <3>3, <3>4 DEF StoreReal, RowsInv, RowsMatchStatus
  <2> QED
    BY <1>11, <2>1, <2>2 DEF StoreReal, Return
<1>12. CASE StoreDsp
  <2>1. CASE pc' = "idle" /\ ret' = "ERROR"
    <3>1. db' = db /\ UNCHANGED <<cr, run>> /\ pc = "dsp" /\ cr \in {1, 2}
      BY <1>12, <2>1 DEF StoreDsp, NextCarrier, Return, TypeOK, Carriers
    <3> QED
      BY <2>1, <3>1 DEF RowsInv, RowsMatchStatus, Carriers
  <2>2. CASE db' = [db EXCEPT ![cr].dsp = run] /\ NextCarrier
    <3>1. \A c \in Carriers : IF c <= cr THEN db'[c] = New(c) ELSE Untouched(c)'
      BY <1>12, <2>2 DEF StoreDsp, RowsInv, TypeOK, Carriers
    <3>2. run' = run
      BY <1>12 DEF StoreDsp
    <3> QED
      BY <1>12, <2>2, <3>1, <3>2
         DEF NextCarrier, Return, RowsInv, RowsMatchStatus, TypeOK, Carriers
  <2> QED
    BY <1>12, <2>1, <2>2 DEF StoreDsp, Return
<1>13. ASSUME NEW c \in Carriers, CheckReference(c) PROVE RowsInv'
  BY <1>3, <1>13 DEF CheckReference
<1> QED
  BY <1>3, <1>5, <1>6, <1>7, <1>8, <1>9, <1>10, <1>11, <1>12, <1>13 DEF Next, Step, vars

\* Whatever fails, the rows of a calibration are stored in order, success means all
\* four of them, and only JC_STATUS_ERROR may leave a level row that is newer than
\* its detector row.
THEOREM StatusTellsRows == Spec => []RowsMatchStatus
<1>1. Init => RowsInv
  BY DEF Init, RowsInv, RowsMatchStatus, Measuring
<1>2. RowsInv => RowsMatchStatus
  BY DEF RowsInv
<1> QED
  BY <1>1, <1>2, TypeInit, TypeStep, RowsStep, PTL DEF Spec

-----------------------------------------------------------------------------
(* Alone on the path.                                                        *)

\* Off, unless the generator refused its last output command or an error path
\* forgot it.
Quiet(c) == gen[c].rf = "off" \/ c \in refused \union forgotten
AtPoint == {"point", "set", "read", "sense"}

\* The matrix stays on the current path, the current amplifier is on while its
\* points are measured, and the others are quiet throughout.
AloneInv ==
    /\ pc \in AtPoint \union {"protect", "open"} => route = [path |-> path, coup |-> cr]
    /\ pc \in AtPoint => gen[cr].rf = "on" \/ cr \in refused
    /\ pc \in AtPoint \union {"close", "off"} => \A c \in Carriers \ {cr} : Quiet(c)
    /\ pc \in {"idle", "switch", "protect", "open", "real", "dsp"} =>
           \A c \in Carriers : Quiet(c)
    /\ pc = "off" => off = cr \/ cr \in forgotten

LEMMA CommandKeepsOutputs ==
    ASSUME TypeOK, NEW level, Command(level)
    PROVE  \A c \in Carriers : gen'[c].rf = gen[c].rf
BY DEF Command, SetFreqPow, TypeOK

LEMMA OutputOf ==
    ASSUME TypeOK, NEW c \in Carriers, NEW on \in Outputs, Output(c, on)
    PROVE  /\ gen'[c].rf = on \/ c \in refused'
           /\ \A d \in Carriers \ {c} : gen'[d].rf = gen[d].rf
                                        /\ (d \in refused' <=> d \in refused)
                                        /\ (d \in forgotten' <=> d \in forgotten)
BY DEF Output, OpenPow, TypeOK

LEMMA AloneStep == TypeOK /\ AloneInv /\ [Next]_vars => AloneInv'
<1> USE DEF where, loop, rig, AtPoint, Quiet
<1> SUFFICES ASSUME TypeOK, AloneInv, [Next]_vars PROVE AloneInv'
  OBVIOUS
<1>a. cr \in Carriers
  BY DEF TypeOK
<1>1. CASE /\ UNCHANGED <<refused, forgotten, route, path, cr>> /\ pc \in AtPoint
           /\ pc' \in AtPoint \union {"close"}
           /\ \A c \in Carriers : gen'[c].rf = gen[c].rf
  BY <1>a, <1>1 DEF AloneInv
<1>2. CASE /\ UNCHANGED <<refused, forgotten, gen>>
           /\ pc \in {"idle", "switch", "real", "dsp"}
           /\ pc' \in {"idle", "switch", "real", "dsp"}
  BY <1>2 DEF AloneInv
<1>3. CASE /\ UNCHANGED <<refused, forgotten, gen, cr>> /\ pc \in AtPoint
           /\ pc' = "off" /\ off' = cr
  BY <1>3 DEF AloneInv
<1>4. CASE UNCHANGED <<refused, forgotten, gen, route, path, cr, pc, off>>
  BY <1>4 DEF AloneInv
<1>5. ASSUME NEW s \in Sensors, SetConfig(s) PROVE AloneInv'
  BY <1>4, <1>5 DEF SetConfig
<1>6. ASSUME NEW q \in Paths, SetOffsetTx(q) PROVE AloneInv'
  BY <1>2, <1>6 DEF SetOffsetTx
<1>7. CASE Switch
  <2>1. path = <<path[1], path[2]>>
    BY PathAssumption DEF PathAssumption, TypeOK
  <2>2. CASE pc' = "idle"
    BY <1>2, <1>7, <2>2 DEF Switch
  <2>3. CASE pc' = "protect" /\ route' = [path |-> <<path[1], path[2]>>, coup |-> cr]
    BY <1>7, <2>1, <2>3 DEF Switch, AloneInv
  <2> QED
    BY <1>7, <2>2, <2>3 DEF Switch, Return, SetSwitch
<1>8. CASE ProtectOn
  <2>1. \A c \in Carriers : gen'[c].rf = gen[c].rf
    BY <1>8, CommandKeepsOutputs DEF ProtectOn
  <2> QED
    BY <1>8, <2>1 DEF ProtectOn, AloneInv
<1>9. CASE Open
  <2>1. /\ gen'[cr].rf = "on" \/ cr \in refused'
        /\ \A d \in Carriers \ {cr} : gen'[d].rf = gen[d].rf
                                      /\ (d \in refused' <=> d \in refused)
                                      /\ (d \in forgotten' <=> d \in forgotten)
    BY <1>9, <1>a, OutputOf DEF Open, Outputs
  <2> QED
    BY <1>9, <2>1 DEF Open, AloneInv
<1>10. CASE Point \/ Set
  <2>1. \A c \in Carriers : gen'[c].rf = gen[c].rf
    BY <1>10, CommandKeepsOutputs DEF Point, Set
  <2> QED
    BY <1>1, <1>10, <2>1 DEF Point, Set
<1>11. CASE Read
  <2>1. CASE ReadFails
    <3>1. /\ UNCHANGED <<refused, gen, cr>> /\ pc' = "off" /\ off' = 1
          /\ forgotten' = forgotten \union ({cr} \ {1})
      BY <1>11, <2>1 DEF Read, ReadFails, Leave
    <3>2. cr = 1 \/ cr \in forgotten'
      BY <3>1
    <3> QED
      BY <1>11, <3>1, <3>2 DEF Read, AloneInv
  <2>2. ASSUME NEW dev \in Deviations, Judge(dev) PROVE AloneInv'
    BY <1>1, <1>3, <1>11, <2>2 DEF Read, Judge, Leave
  <2>3. CASE NoPower
    BY <1>1, <1>3, <1>11, <2>3 DEF Read, NoPower, Leave
  <2> QED
    BY <1>11, <2>1, <2>2, <2>3 DEF Read
<1>12. CASE Sense
  BY <1>1, <1>12 DEF Sense
<1>13. CASE SwitchOff
  <2>1. off \in Carriers /\ \A c \in Carriers \ {off} : Quiet(c)
    BY <1>13 DEF SwitchOff, AloneInv, TypeOK
  <2>2. /\ gen'[off].rf = "off" \/ off \in refused'
        /\ \A d \in Carriers \ {off} : gen'[d].rf = gen[d].rf
                                       /\ (d \in refused' <=> d \in refused)
                                       /\ (d \in forgotten' <=> d \in forgotten)
    BY <1>13, <2>1, OutputOf DEF SwitchOff, Outputs
  <2> QED
    BY <1>13, <2>1, <2>2 DEF SwitchOff, Return, AloneInv
<1>14. CASE Close
  <2>1. \A c \in Carriers \ {cr} : Quiet(c)
    BY <1>14 DEF Close, AloneInv
  <2>2. /\ gen'[cr].rf = "off" \/ cr \in refused'
        /\ \A d \in Carriers \ {cr} : gen'[d].rf = gen[d].rf
                                      /\ (d \in refused' <=> d \in refused)
                                      /\ (d \in forgotten' <=> d \in forgotten)
    BY <1>14, <1>a, OutputOf DEF Close, Outputs
  <2> QED
    BY <1>14, <2>1, <2>2 DEF Close, AloneInv
<1>15. CASE StoreReal \/ StoreDsp
  BY <1>2, <1>15 DEF StoreReal, StoreDsp, NextCarrier, Return
<1>16. ASSUME NEW c \in Carriers, CheckReference(c) PROVE AloneInv'
  BY <1>16 DEF CheckReference, GetReferenceStatus, AtPreset, AloneInv, TypeOK
<1> QED
  BY <1>4, <1>5, <1>6, <1>7, <1>8, <1>9, <1>10, <1>11, <1>12, <1>13, <1>14, <1>15, <1>16
     DEF Next, Step, vars

\* Nothing but the amplifier of the carrier being calibrated is on when it is
\* measured, through its own path and coupler, except what a generator refused
\* or an unreadable spectrum left on.
THEOREM CalibratesAlone == Spec => []ReadsAlone
<1>1. Init => AloneInv
  BY DEF Init, AtPreset, AloneInv, AtPoint, Quiet
<1>2. TypeOK /\ AloneInv /\ [Next]_vars => AloneInv'
  BY AloneStep
<1>3. AloneInv => ReadsAlone
  BY DEF AloneInv, ReadsAlone, AtPoint, Quiet
<1> QED
  BY <1>1, <1>2, <1>3, TypeInit, TypeStep, PTL DEF Spec
-----------------------------------------------------------------------------
(* The amplifiers and the relays.                                            *)

\* Between calibrations, however one ended, no amplifier is left on except what
\* a generator refused or an unreadable spectrum forgot.
EndsSilent == pc = "idle" => \A c \in Carriers : Quiet(c)

\* The relays move only while every amplifier is off, with the same exceptions.
NoHotSwitch == [][route' # route => \A c \in Carriers : Quiet(c)]_vars

\* JcSetOffsetTx protects the amplifier before it opens it: one that comes on
\* does so at the protection level, unless the generator did not take it or is at
\* its preset while its driver takes the level for set.
OnProtected(c) == gen'[c].pow \in {Protect, ResetPow} \/ written = "no"
SwitchedOnProtected ==
    [][\A c \in Carriers : gen[c].rf = "off" /\ gen'[c].rf = "on" => OnProtected(c)]_vars

\* No calibration that returned leaves an amplifier on, whichever error path it took.
THEOREM CalibrationEndsSilent == Spec => []EndsSilent
<1>1. Init => AloneInv
  BY DEF Init, AtPreset, AloneInv, AtPoint, Quiet
<1>2. AloneInv => EndsSilent
  BY DEF AloneInv, EndsSilent
<1> QED
  BY <1>1, <1>2, TypeInit, TypeStep, AloneStep, PTL DEF Spec

LEMMA RouteStep ==
    TypeOK /\ AloneInv /\ [Next]_vars => [route' # route => \A c \in Carriers : Quiet(c)]_vars
<1> SUFFICES ASSUME TypeOK, AloneInv, Next, route' # route PROVE pc = "switch"
  BY DEF AloneInv
<1> USE DEF where, loop, rig
<1>1. /\ ~ (\E s \in Sensors : SetConfig(s)) /\ ~ (\E p \in Paths : SetOffsetTx(p))
      /\ ~ (\E c \in Carriers : CheckReference(c))
  BY DEF SetConfig, SetOffsetTx, CheckReference
<1>2. ~ ProtectOn /\ ~ Open /\ ~ Point /\ ~ Set /\ ~ Read /\ ~ Sense
  BY DEF ProtectOn, Open, Point, Set, Read, Sense
<1>3. ~ SwitchOff /\ ~ Close /\ ~ StoreReal /\ ~ StoreDsp
  BY DEF SwitchOff, Close, StoreReal, StoreDsp
<1> QED
  BY <1>1, <1>2, <1>3 DEF Next, Step, Switch

\* The calibration never moves a relay under power: between two carriers, and
\* between two calibrations, the amplifiers are off when JcSetSwitch is called.
THEOREM NeverSwitchesHot == Spec => NoHotSwitch
<1>1. Init => AloneInv
  BY DEF Init, AtPreset, AloneInv, AtPoint, Quiet
<1> QED
  BY <1>1, TypeInit, TypeStep, AloneStep, RouteStep, PTL DEF Spec, NoHotSwitch

\* The level an amplifier is opened at.
OpenInv == pc = "open" => gen[cr].pow \in {Protect, ResetPow} \/ written = "no"

LEMMA OpenStep ==
    ASSUME ~ LateWrites PROVE TypeOK /\ CacheInv /\ OpenInv /\ [Next]_vars => OpenInv'
<1> USE LevelAssumption DEF LevelAssumption, where, loop, rig
<1> SUFFICES ASSUME TypeOK, CacheInv, OpenInv, [Next]_vars PROVE OpenInv'
  OBVIOUS
<1>1. CASE ProtectOn
  <2>1. /\ Honest'
        /\ written' = "yes" => cache'[cr] = Protect
    BY <1>1, CommandCached DEF ProtectOn
  <2>2. written' \in {"yes", "no"} /\ cr \in Carriers /\ cr' = cr
    BY <1>1, CommandTyped DEF ProtectOn, TypeOK
  <2> QED
    BY <2>1, <2>2 DEF OpenInv, Honest
<1>2. CASE \/ UNCHANGED vars \/ \E s \in Sensors : SetConfig(s)
           \/ \E c \in Carriers : CheckReference(c)
  BY <1>2 DEF OpenInv, vars, SetConfig, CheckReference
<1>3. CASE \E p \in Paths : SetOffsetTx(p)
  BY <1>3 DEF SetOffsetTx, OpenInv
<1>4. CASE Switch \/ Open \/ Point \/ Set \/ Sense \/ SwitchOff \/ Close
  BY <1>4 DEF Switch, Return, Open, Point, Set, Sense, SwitchOff, Close, OpenInv
<1>5. CASE Read
  BY <1>5 DEF Read, ReadFails, NoPower, Judge, Leave, OpenInv
<1>6. CASE StoreReal \/ StoreDsp
  BY <1>6 DEF StoreReal, StoreDsp, NextCarrier, Return, OpenInv
<1> QED
  BY <1>1, <1>2, <1>3, <1>4, <1>5, <1>6 DEF Next, Step

LEMMA OnStep ==
    TypeOK /\ OpenInv /\ [Next]_vars =>
        [\A c \in Carriers : gen[c].rf = "off" /\ gen'[c].rf = "on" => OnProtected(c)]_vars
<1> SUFFICES ASSUME TypeOK, OpenInv, Next,
                    NEW c \in Carriers, gen[c].rf = "off", gen'[c].rf = "on"
             PROVE  OnProtected(c)
  OBVIOUS
<1> USE DEF where, loop, rig
<1>1. CASE Open
  <2>1. c = cr /\ gen'[c].pow = gen[c].pow
    BY <1>1 DEF Open, Output, OpenPow, TypeOK
  <2> QED
    BY <1>1, <2>1 DEF Open, OpenInv, OnProtected
<1>2. CASE ProtectOn \/ Point \/ Set
  BY <1>2, CommandKeepsOutputs DEF ProtectOn, Point, Set
<1>3. CASE Close
  BY <1>3 DEF Close, Output, OpenPow, TypeOK
<1>4. CASE SwitchOff
  BY <1>4 DEF SwitchOff, Output, OpenPow, TypeOK
<1>5. CASE UNCHANGED gen
  BY <1>5
<1>6. CASE \E d \in Carriers : CheckReference(d)
  BY <1>6 DEF CheckReference, GetReferenceStatus, AtPreset, TypeOK
<1> QED
  BY <1>1, <1>2, <1>3, <1>4, <1>5, <1>6
     DEF Next, Step, SetConfig, SetOffsetTx, Switch, Read, Sense, StoreReal, StoreDsp

\* An amplifier is never opened at the level an earlier point, carrier or
\* calibration left in its generator, if a write reported as failed never lands:
\* it is at the protective level, or at its preset if it was reset behind its driver,
\* or its last command failed.
THEOREM OpensProtected == ASSUME ~ LateWrites PROVE Spec => SwitchedOnProtected
<1>1. Init => CacheInv /\ OpenInv
  BY DEF Init, AtPreset, CacheInv, Honest, OpenInv
<1>2. TypeOK /\ CacheInv /\ [Next]_vars => CacheInv'
  BY CacheStep
<1>3. TypeOK /\ CacheInv /\ OpenInv /\ [Next]_vars => OpenInv'
  BY OpenStep
<1> QED
  BY <1>1, <1>2, <1>3, TypeInit, TypeStep, OnStep, PTL DEF Spec, SwitchedOnProtected

-----------------------------------------------------------------------------
(* The steps a calibration has left.                                         *)

\* One iteration of a point, one point, one carrier: the switching, the
\* protection, the opening and the closing of the amplifier, the two rows.
RoundSteps == 1 + Readings
PointSteps == 2 + Rounds * RoundSteps
CarrierSteps == 6 + Points * PointSteps
MostSteps == 2 * CarrierSteps

AfterCarrier == IF cr = 1 THEN CarrierSteps ELSE 0
AfterPoint == AfterCarrier + 3 + (Points - pt) * PointSteps

StepsLeft ==
    CASE pc = "idle" -> 0
      [] pc = "off" -> 1
      [] pc = "switch" -> AfterCarrier + CarrierSteps
      [] pc = "protect" -> AfterCarrier + CarrierSteps - 1
      [] pc = "open" -> AfterCarrier + CarrierSteps - 2
      [] pc = "point" -> AfterPoint + PointSteps
      [] pc = "set" -> AfterPoint + 1 + (Rounds - i) * RoundSteps
      [] pc = "read" -> AfterPoint + 1 + (Rounds - i) * RoundSteps - n
      [] pc = "sense" -> AfterPoint + 1
      [] pc = "close" -> AfterCarrier + 3
      [] pc = "real" -> AfterCarrier + 2
      [] pc = "dsp" -> AfterCarrier + 1

\* Nothing happens during a calibration but that it comes closer to its return.
CalibrationAdvances == [][pc # "idle" => StepsLeft' < StepsLeft]_vars

\* A carrier is switched to at its first point.
StartsAtPoint == pc \in {"switch", "protect", "open"} => pt = 1

LEMMA StartStep == TypeOK /\ StartsAtPoint /\ [Next]_vars => StartsAtPoint'
<1> USE DEF where, loop, rig, StartsAtPoint
<1> SUFFICES ASSUME TypeOK, StartsAtPoint, [Next]_vars PROVE StartsAtPoint'
  OBVIOUS
<1>1. CASE \/ UNCHANGED vars \/ \E s \in Sensors : SetConfig(s)
           \/ \E c \in Carriers : CheckReference(c)
  BY <1>1 DEF vars, SetConfig, CheckReference
<1>2. CASE \E p \in Paths : SetOffsetTx(p)
  BY <1>2 DEF SetOffsetTx
<1>3. CASE Switch \/ ProtectOn \/ Open \/ Point \/ Set \/ Sense \/ SwitchOff \/ Close
  BY <1>3 DEF Switch, Return, ProtectOn, Open, Point, Set, Sense, SwitchOff, Close
<1>4. CASE Read
  BY <1>4 DEF Read, ReadFails, NoPower, Judge, Leave
<1>5. CASE StoreReal \/ StoreDsp
  BY <1>5 DEF StoreReal, StoreDsp, NextCarrier, Return
<1> QED
  BY <1>1, <1>2, <1>3, <1>4, <1>5 DEF Next, Step

\* What is left of N rounds or points of k steps each when the x-th begins, and
\* when the next one does.
LEMMA Shares ==
    ASSUME NEW N \in Nat, NEW x \in 0 .. N, NEW k \in Nat
    PROVE  /\ (N - x) * k \in Nat
           /\ x < N => (N - x) * k = (N - (x + 1)) * k + k
<1>1. N - x \in Nat
  OBVIOUS
<1>2. PICK m \in Nat : m = N - x
  BY <1>1
<1>3. m * k \in Nat
  OBVIOUS
<1>4. m * k = (m - 1) * k + k
  OBVIOUS
<1> QED
  BY <1>2, <1>3, <1>4

LEMMA StepCounts ==
    /\ RoundSteps \in Nat /\ RoundSteps = 1 + Readings
    /\ PointSteps \in Nat /\ PointSteps = 2 + Rounds * RoundSteps
    /\ CarrierSteps \in Nat /\ CarrierSteps = 6 + Points * PointSteps
<1> USE CountAssumption DEF CountAssumption
<1>1. RoundSteps \in Nat
  BY DEF RoundSteps
<1>2. Rounds * RoundSteps \in Nat
  BY <1>1, Shares
<1>3. PointSteps \in Nat
  BY <1>2 DEF PointSteps
<1>4. Points * PointSteps \in Nat
  BY <1>3, Shares
<1> QED
  BY <1>1, <1>3, <1>4 DEF RoundSteps, PointSteps, CarrierSteps

\* Where the rest of the carriers, of the points and of the rounds stand.
LEMMA Remaining ==
    ASSUME TypeOK
    PROVE  /\ AfterCarrier \in 0 .. CarrierSteps
           /\ cr = 1 => AfterCarrier = CarrierSteps
           /\ AfterPoint \in Nat /\ AfterPoint >= AfterCarrier + 3
           /\ AfterPoint + PointSteps <= AfterCarrier + CarrierSteps - 3
           /\ pt = 1 => AfterPoint + PointSteps = AfterCarrier + CarrierSteps - 3
           /\ (Rounds - i) * RoundSteps \in Nat /\ (Rounds - i) * RoundSteps >= RoundSteps
           /\ (Rounds - i) * RoundSteps <= PointSteps - 2
           /\ i = 0 => (Rounds - i) * RoundSteps = PointSteps - 2
<1> USE CountAssumption DEF CountAssumption
<1>1. /\ RoundSteps \in Nat /\ PointSteps \in Nat /\ CarrierSteps \in Nat
      /\ PointSteps = 2 + Rounds * RoundSteps
      /\ CarrierSteps = 6 + Points * PointSteps
  BY StepCounts
<1>2. /\ AfterCarrier \in 0 .. CarrierSteps /\ AfterCarrier \in Nat
      /\ cr = 1 => AfterCarrier = CarrierSteps
  BY <1>1 DEF AfterCarrier
<1>3. pt \in 1 .. Points /\ i \in 0 .. Rounds - 1
  BY DEF TypeOK
<1>4. (Points - pt) * PointSteps \in Nat
  BY <1>1, <1>3, Shares
<1>5. (Points - pt) * PointSteps <= Points * PointSteps - PointSteps
  <2>1. PICK a \in Nat : a = pt - 1
    BY <1>3
  <2>2. a * PointSteps \in Nat
    BY <1>1
  <2>3. Points * PointSteps = (Points - pt) * PointSteps + PointSteps + a * PointSteps
    BY <1>1, <1>3, <2>1
  <2>4. Points * PointSteps \in Nat
    BY <1>1
  <2> QED
    BY <1>1, <1>4, <2>2, <2>3, <2>4
<1>6. pt = 1 => (Points - pt) * PointSteps = Points * PointSteps - PointSteps
  BY <1>1
<1>7. (Rounds - i) * RoundSteps \in Nat /\ (Rounds - i) * RoundSteps >= RoundSteps
  <2>1. (Rounds - i) * RoundSteps = (Rounds - (i + 1)) * RoundSteps + RoundSteps
    BY <1>1, <1>3, Shares
  <2>2. (Rounds - (i + 1)) * RoundSteps \in Nat
    BY <1>1, <1>3, Shares
  <2> QED
    BY <1>1, <2>1, <2>2
<1>8. (Rounds - i) * RoundSteps <= Rounds * RoundSteps
  <2>1. i * RoundSteps \in Nat
    BY <1>1, <1>3
  <2>2. Rounds * RoundSteps = (Rounds - i) * RoundSteps + i * RoundSteps
    BY <1>1, <1>3
  <2> QED
    BY <1>7, <2>1, <2>2
<1>9. i = 0 => (Rounds - i) * RoundSteps = Rounds * RoundSteps
  OBVIOUS
<1>10. Points * PointSteps \in Nat /\ Rounds * RoundSteps \in Nat
  BY <1>1
<1>11. PICK u \in Nat, v \in Nat, x \in Nat, y \in Nat :
           /\ u = Points * PointSteps /\ v = (Points - pt) * PointSteps
           /\ x = Rounds * RoundSteps /\ y = (Rounds - i) * RoundSteps
  BY <1>4, <1>7, <1>10
<1> QED
  BY <1>1, <1>2, <1>5, <1>6, <1>7, <1>8, <1>9, <1>11 DEF AfterPoint

\* The steps left at every control point.
LEMMA StepsLeftAt ==
    /\ pc = "idle" => StepsLeft = 0
    /\ pc = "off" => StepsLeft = 1
    /\ pc = "switch" => StepsLeft = AfterCarrier + CarrierSteps
    /\ pc = "protect" => StepsLeft = AfterCarrier + CarrierSteps - 1
    /\ pc = "open" => StepsLeft = AfterCarrier + CarrierSteps - 2
    /\ pc = "point" => StepsLeft = AfterPoint + PointSteps
    /\ pc = "set" => StepsLeft = AfterPoint + 1 + (Rounds - i) * RoundSteps
    /\ pc = "read" => StepsLeft = AfterPoint + 1 + (Rounds - i) * RoundSteps - n
    /\ pc = "sense" => StepsLeft = AfterPoint + 1
    /\ pc = "close" => StepsLeft = AfterCarrier + 3
    /\ pc = "real" => StepsLeft = AfterCarrier + 2
    /\ pc = "dsp" => StepsLeft = AfterCarrier + 1
BY DEF StepsLeft

LEMMA StepsBounded == TypeOK => StepsLeft \in 0 .. MostSteps
<1> SUFFICES ASSUME TypeOK PROVE StepsLeft \in 0 .. MostSteps
  OBVIOUS
<1> DEFINE R == (Rounds - i) * RoundSteps
<1>1. /\ AfterCarrier \in 0 .. CarrierSteps
      /\ AfterPoint \in Nat /\ AfterPoint >= AfterCarrier + 3
      /\ AfterPoint + PointSteps <= AfterCarrier + CarrierSteps - 3
      /\ R \in Nat /\ R >= RoundSteps /\ R <= PointSteps - 2
  BY Remaining
<1>2. /\ CarrierSteps \in Nat /\ CarrierSteps >= 6 /\ PointSteps \in Nat
      /\ RoundSteps = 1 + Readings
  <2>1. Points * PointSteps \in Nat
    BY CountAssumption, StepCounts DEF CountAssumption
  <2> QED
    BY <2>1, StepCounts
<1>3. n \in 1 .. Readings /\ Readings \in Nat /\ pc \in Control
  BY CountAssumption DEF CountAssumption, TypeOK
<1> HIDE DEF R
<1>4. /\ pc = "set" => StepsLeft = AfterPoint + 1 + R
      /\ pc = "read" => StepsLeft = AfterPoint + 1 + R - n
  BY StepsLeftAt DEF R
<1> QED
  BY <1>1, <1>2, <1>3, <1>4, StepsLeftAt DEF MostSteps, Control

LEMMA AdvanceStep ==
    TypeOK /\ StartsAtPoint /\ [Next]_vars => [pc # "idle" => StepsLeft' < StepsLeft]_vars
<1> SUFFICES ASSUME TypeOK, StartsAtPoint, Next, pc # "idle" PROVE StepsLeft' < StepsLeft
  OBVIOUS
<1> USE DEF where, loop, rig
<1> DEFINE R == (Rounds - i) * RoundSteps
<1>1. /\ AfterCarrier \in 0 .. CarrierSteps
      /\ cr = 1 => AfterCarrier = CarrierSteps
      /\ AfterPoint \in Nat /\ AfterPoint >= AfterCarrier + 3
      /\ pt = 1 => AfterPoint + PointSteps = AfterCarrier + CarrierSteps - 3
      /\ R \in Nat /\ R >= RoundSteps /\ R <= PointSteps - 2
  BY Remaining
<1>2. /\ CarrierSteps \in Nat /\ PointSteps \in Nat /\ RoundSteps \in Nat
      /\ RoundSteps = 1 + Readings
  BY StepCounts
<1>2a. CarrierSteps >= 6
  BY <1>2, StepCounts, CountAssumption DEF CountAssumption
<1>3. n \in 1 .. Readings /\ Readings \in Nat /\ cr \in {1, 2}
  BY CountAssumption DEF CountAssumption, TypeOK, Carriers
<1>4. AfterCarrier' = (IF cr' = 1 THEN CarrierSteps ELSE 0)
  BY DEF AfterCarrier, CarrierSteps, PointSteps, RoundSteps
<1>5. cr' = cr => AfterCarrier' = AfterCarrier
  BY <1>4 DEF AfterCarrier
<1>6. cr' = cr /\ pt' = pt => AfterPoint' = AfterPoint
  BY <1>5 DEF AfterPoint, PointSteps, RoundSteps
<1>7. i' = i => R' = R
  BY DEF RoundSteps
<1>8. i' = i + 1 => R' = R - RoundSteps
  <2>1. R = (Rounds - (i + 1)) * RoundSteps + RoundSteps
    BY <1>2, CountAssumption, Shares DEF CountAssumption, TypeOK
  <2>2. (Rounds - (i + 1)) * RoundSteps \in Nat
    <3>1. i + 1 \in 0 .. Rounds /\ Rounds \in Nat /\ RoundSteps \in Nat
      BY <1>2, CountAssumption DEF CountAssumption, TypeOK
    <3> QED
      BY <3>1, Shares
  <2> HIDE DEF R
  <2>3. i' = i + 1 => R' = (Rounds - (i + 1)) * RoundSteps
    BY DEF R, RoundSteps
  <2> QED
    BY <1>2, <2>1, <2>2, <2>3
<1>9. i' = 0 => R' = PointSteps - 2
  <2>1. i' = 0 => R' = (Rounds - 0) * RoundSteps
    BY DEF R, RoundSteps
  <2>2. Rounds - 0 = Rounds
    BY CountAssumption DEF CountAssumption
  <2> QED
    BY <1>2, <2>1, <2>2, StepCounts, CountAssumption DEF CountAssumption
<1>10. cr' = cr /\ pt < Points /\ pt' = pt + 1 => AfterPoint' + PointSteps = AfterPoint
  <2>1. pt < Points =>
            (Points - pt) * PointSteps = (Points - (pt + 1)) * PointSteps + PointSteps
    BY <1>2, CountAssumption, Shares DEF CountAssumption, TypeOK
  <2>2. pt < Points => (Points - (pt + 1)) * PointSteps \in Nat
    BY <1>2, CountAssumption, Shares DEF CountAssumption, TypeOK
  <2>3. cr' = cr /\ pt' = pt + 1 =>
            AfterPoint' = AfterCarrier + 3 + (Points - (pt + 1)) * PointSteps
    BY <1>5 DEF AfterPoint, PointSteps, RoundSteps
  <2>4. AfterPoint = AfterCarrier + 3 + (Points - pt) * PointSteps
    BY DEF AfterPoint
  <2> QED
    BY <1>1, <1>2, <2>1, <2>2, <2>3, <2>4
<1> HIDE DEF R
<1>11. /\ pc = "switch" => StepsLeft = AfterCarrier + CarrierSteps
       /\ pc = "protect" => StepsLeft = AfterCarrier + CarrierSteps - 1
       /\ pc = "open" => StepsLeft = AfterCarrier + CarrierSteps - 2
       /\ pc = "point" => StepsLeft = AfterPoint + PointSteps
       /\ pc = "set" => StepsLeft = AfterPoint + 1 + R
       /\ pc = "read" => StepsLeft = AfterPoint + 1 + R - n
       /\ pc = "sense" => StepsLeft = AfterPoint + 1
       /\ pc = "close" => StepsLeft = AfterCarrier + 3
       /\ pc = "real" => StepsLeft = AfterCarrier + 2
       /\ pc = "dsp" => StepsLeft = AfterCarrier + 1
       /\ pc = "off" => StepsLeft = 1
  BY StepsLeftAt DEF R
<1>12. /\ CarrierSteps' = CarrierSteps /\ PointSteps' = PointSteps
  BY DEF CarrierSteps, PointSteps, RoundSteps
<1>13. /\ pc' = "idle" => StepsLeft' = 0
       /\ pc' = "switch" => StepsLeft' = AfterCarrier' + CarrierSteps
       /\ pc' = "protect" => StepsLeft' = AfterCarrier' + CarrierSteps - 1
       /\ pc' = "open" => StepsLeft' = AfterCarrier' + CarrierSteps - 2
       /\ pc' = "point" => StepsLeft' = AfterPoint' + PointSteps
       /\ pc' = "set" => StepsLeft' = AfterPoint' + 1 + R'
       /\ pc' = "read" => StepsLeft' = AfterPoint' + 1 + R' - n'
       /\ pc' = "sense" => StepsLeft' = AfterPoint' + 1
       /\ pc' = "close" => StepsLeft' = AfterCarrier' + 3
       /\ pc' = "real" => StepsLeft' = AfterCarrier' + 2
       /\ pc' = "dsp" => StepsLeft' = AfterCarrier' + 1
       /\ pc' = "off" => StepsLeft' = 1
  BY <1>12 DEF StepsLeft, R
<1>14. ASSUME pc \in {"read"}, pc' = "off" PROVE StepsLeft' < StepsLeft
  BY <1>1, <1>2, <1>3, <1>11, <1>13, <1>14
<1>15. /\ ~ (\E s \in Sensors : SetConfig(s)) /\ ~ (\E p \in Paths : SetOffsetTx(p))
       /\ ~ (\E c \in Carriers : CheckReference(c))
  BY DEF SetConfig, SetOffsetTx, CheckReference
<1>16. CASE Switch
  <2>1. pc = "switch" /\ cr' = cr /\ pc' \in {"idle", "protect"}
    BY <1>16 DEF Switch, Return
  <2> QED
    BY <1>1, <1>2, <1>5, <1>11, <1>13, <1>2a, <2>1
<1>17. CASE ProtectOn
  BY <1>1, <1>2, <1>5, <1>11, <1>13, <1>17 DEF ProtectOn
<1>18. CASE Open
  <2>1. pt = 1 /\ pc = "open" /\ pc' = "point" /\ cr' = cr /\ pt' = pt
    BY <1>18 DEF Open, StartsAtPoint
  <2> QED
    BY <1>1, <1>2, <1>6, <1>11, <1>13, <2>1
<1>19. CASE Point
  <2>1. pc = "point" /\ pc' = "set" /\ cr' = cr /\ pt' = pt /\ i' = 0
    BY <1>19 DEF Point
  <2>2. R' = PointSteps - 2 /\ AfterPoint' = AfterPoint
    BY <1>6, <1>9, <2>1
  <2> QED
    BY <1>1, <1>2, <1>11, <1>13, <2>1, <2>2
<1>20. CASE Set
  <2>1. /\ pc = "set" /\ pc' = "read" /\ cr' = cr /\ pt' = pt /\ i' = i /\ n' = 1
    BY <1>20 DEF Set
  <2> QED
    BY <1>1, <1>2, <1>6, <1>7, <1>11, <1>13, <2>1
<1>21. CASE Read
  <2>1. pc = "read" /\ cr' = cr
    BY <1>21 DEF Read
  <2>2. CASE ReadFails
    BY <1>14, <2>1, <2>2 DEF ReadFails, Leave
  <2>3. CASE NoPower
    <3>1. /\ pt' = pt /\ i' = i
          /\ pc' = "off" \/ (pc' = "read" /\ n' = n + 1)
      BY <2>1, <2>3 DEF NoPower, Leave
    <3> QED
      BY <1>1, <1>2, <1>3, <1>6, <1>7, <1>11, <1>13, <1>14, <2>1, <3>1
  <2>4. ASSUME NEW dev \in Deviations, Judge(dev) PROVE StepsLeft' < StepsLeft
    <3>1. pt' = pt /\ (pc' = "off" \/ pc' = "sense" \/ (pc' = "set" /\ i' = i + 1))
      BY <2>4 DEF Judge, Leave
    <3>2. CASE pc' = "sense"
      BY <1>1, <1>2, <1>3, <1>6, <1>11, <1>13, <2>1, <3>1, <3>2
    <3>3. CASE pc' = "set" /\ i' = i + 1
      BY <1>1, <1>2, <1>3, <1>6, <1>8, <1>11, <1>13, <2>1, <3>1, <3>3
    <3> QED
      BY <1>14, <2>1, <3>1, <3>2, <3>3
  <2> QED
    BY <1>21, <2>2, <2>3, <2>4 DEF Read
<1>22. CASE Sense
  <2>1. /\ pc = "sense" /\ cr' = cr
        /\ (pt < Points /\ pc' = "point" /\ pt' = pt + 1) \/ pc' = "close"
    BY <1>22 DEF Sense, MorePoints
  <2> QED
    BY <1>1, <1>2, <1>5, <1>10, <1>11, <1>13, <2>1
<1>23. CASE SwitchOff
  BY <1>11, <1>13, <1>23 DEF SwitchOff, Return
<1>24. CASE Close
  BY <1>1, <1>2, <1>5, <1>11, <1>13, <1>24 DEF Close
<1>25. CASE StoreReal
  <2>1. pc = "real" /\ cr' = cr /\ pc' \in {"idle", "dsp"}
    BY <1>25 DEF StoreReal, Return
  <2> QED
    BY <1>1, <1>2, <1>5, <1>11, <1>13, <2>1
<1>26. CASE StoreDsp
  <2>1. pc = "dsp" /\ (pc' = "idle" \/ (cr = 1 /\ cr' = 2 /\ pc' = "switch"))
    BY <1>26 DEF StoreDsp, NextCarrier, Return
  <2> QED
    BY <1>1, <1>2, <1>4, <1>11, <1>13, <2>1
<1> QED
  BY <1>15, <1>16, <1>17, <1>18, <1>19, <1>20, <1>21, <1>22, <1>23, <1>24, <1>25, <1>26
     DEF Next, Step

\* A calibration that was started returns after at most MostSteps commands and
\* readings, whatever is read and whatever fails: no carrier, point, iteration
\* or reading is begun again.
THEOREM CalibrationsEnd == Spec => [](StepsLeft \in 0 .. MostSteps) /\ CalibrationAdvances
<1>1. Init => StartsAtPoint
  BY DEF Init, StartsAtPoint
<1> QED
  BY <1>1, TypeInit, TypeStep, StartStep, StepsBounded, AdvanceStep, PTL
     DEF Spec, CalibrationAdvances
=============================================================================
