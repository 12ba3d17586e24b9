--------------------------- MODULE TxCycleProofs ---------------------------
(* Theorems about TxCycle, for every set of bands, powers, offsets and       *)
(* readings, every window and every number of rounds.                        *)
EXTENDS TxCycle, TLAPS

LEMMA BandsTranslate == \A b : IntBand(b) \in 0 .. 6
BY DEF IntBand

LEMMA SwitchTyped ==
    ASSUME route \in Routes \union {Mixed}, NEW b \in 0 .. 6, NEW p \in DutPorts,
           NEW c \in Carriers, NEW ok, SetSwitch(b, p, c, ok)
    PROVE  route' \in Routes \union {Mixed}
<1>1. [path |-> <<b, p>>, coup |-> c] \in Routes
  BY BandAssumption DEF BandAssumption, Routes
<1> QED
  BY <1>1 DEF SetSwitch

LEMMA TypeInit == Init => TypeOK
<1> USE BandAssumption, PowerAssumption, LoopAssumption
       DEF BandAssumption, PowerAssumption, LoopAssumption
<1> SUFFICES ASSUME Init PROVE TypeOK
  OBVIOUS
<1>1. gen \in [Carriers -> [pow : Int, rf : Outputs]]
  BY ResetAssumption DEF ResetAssumption, AtPreset, Init, Outputs
<1>2. now_dut_port \in DutPorts /\ i \in 0 .. Rounds - 1
  BY DEF Init
<1> QED
  BY <1>1, <1>2 DEF Init, TypeOK, Carriers, Outputs, Points, Calls, Statuses

LEMMA TypeStep == TypeOK /\ [Next]_vars => TypeOK'
<1> USE BandAssumption, PowerAssumption, LoopAssumption
       DEF BandAssumption, PowerAssumption, LoopAssumption
<1> SUFFICES ASSUME TypeOK, [Next]_vars PROVE TypeOK'
  OBVIOUS
<1> USE DEF TypeOK, settings, levels, loop, Carriers, Outputs, Points, Calls, Statuses
<1>1. ASSUME NEW b \in ExtBands, SetMeasBand(b) PROVE TypeOK'
  BY <1>1, BandsTranslate DEF SetMeasBand, NoLocals, MayRoute
<1>2. ASSUME NEW p \in DutPorts, SetDutPort(p) PROVE TypeOK'
  <2>1. route' \in Routes \union {Mixed}
    BY <1>2, SwitchTyped DEF SetDutPort
  <2> QED
    BY <1>2, <2>1 DEF SetDutPort, NoLocals, MayRoute
<1>3. ASSUME NEW b \in ExtBands, NEW p \in DutPorts, CheckReceiveChannel(b, p)
      PROVE TypeOK'
  <2>1. route' \in Routes \union {Mixed}
    BY <1>3, BandsTranslate, SwitchTyped DEF CheckReceiveChannel
  <2> QED
    BY <1>3, <2>1, BandsTranslate DEF CheckReceiveChannel, NoLocals, MayRoute
<1>4. ASSUME NEW p1 \in Requests, NEW p2 \in Requests, NEW o1 \in ExtOffsets,
             NEW o2 \in ExtOffsets, SetTxPower(p1, p2, o1, o2)
      PROVE TypeOK'
  <2>1. p1 + o1 \in Int /\ p1 + o2 \in Int
    OBVIOUS
  <2>2. target' \in [Carriers -> Int]
    BY <1>4, <2>1 DEF SetTxPower
  <2> QED
    BY <1>4, <2>2 DEF SetTxPower, NoLocals
<1>5. ASSUME NEW on \in Outputs, NEW c \in Carriers, SetTxOnOne(on, c) PROVE TypeOK'
  BY <1>5 DEF SetTxOnOne, OpenPow
<1>6. ASSUME NEW on \in Outputs, SetTxOnBoth(on) PROVE TypeOK'
  BY <1>6 DEF SetTxOnBoth
<1>7. ASSUME SetTxFreqs PROVE TypeOK'
  BY <1>7 DEF SetTxFreqs
<1>8. ASSUME HwSetTxFreqs PROVE TypeOK'
  BY <1>8 DEF HwSetTxFreqs, NoLocals
<1>9. ASSUME OpenSig1 PROVE TypeOK'
  BY <1>9 DEF OpenSig1, OpenPow, AfterTxOn, Return
<1>10. ASSUME OpenSig2 PROVE TypeOK'
  BY <1>10 DEF OpenSig2, OpenPow, AfterTxOn, Return
<1>11. ASSUME Program PROVE TypeOK'
  BY <1>11 DEF Program, NoCalibration, AfterProgram, Carried, OutOfRange, SetFreqPow, Return
<1>12. ASSUME Couple PROVE TypeOK'
  <2>1. route' \in Routes \union {Mixed}
    BY <1>12, SwitchTyped DEF Couple
  <2> QED
    BY <1>12, <2>1 DEF Couple, SwitchOff
<1>13. ASSUME NEW dev \in Deviations, Judge(dev),
              UNCHANGED <<settings, internal, cache, gen, route, call, refused>>,
              avg' \in {"one", "two"}
       PROVE TypeOK'
  BY <1>13 DEF Judge, Outside, CarrierDone, SwitchOff
<1>14. ASSUME Read PROVE TypeOK'
  BY <1>13, <1>14 DEF Read, FirstAverage, SwitchOff
<1>15. ASSUME Reread PROVE TypeOK'
  BY <1>13, <1>15 DEF Reread
<1>16. ASSUME Adjust PROVE TypeOK'
  BY <1>16 DEF Adjust, BaseLevel, SetFreqPow, NextRound, CarrierDone, SwitchOff
<1>17. CASE UNCHANGED vars
  BY <1>17 DEF vars
<1>18. ASSUME CheckTwoSignalROSC PROVE TypeOK'
  BY <1>18, ResetAssumption
     DEF CheckTwoSignalROSC, GetReferenceStatus, AtPreset, ResetAssumption, NoLocals
<1> QED
  BY <1>1, <1>2, <1>3, <1>4, <1>5, <1>6, <1>7, <1>8, <1>9, <1>10, <1>11, <1>12,
     <1>14, <1>15, <1>16, <1>17, <1>18 DEF Next, Request, Step

\* Every variable keeps its type: the corrections and levels stay integers,
\* the internal band stays in the table of seven bands, and the loop counter
\* stays below Rounds, whatever the calls and whatever fails.
THEOREM TypeCorrect == Spec => []TypeOK
BY TypeInit, TypeStep, PTL DEF Spec

-----------------------------------------------------------------------------
(* How far the corrections and the levels can go.                            *)

LEMMA BoundNat == \A n \in Nat : Bound(n) \in Nat
BY LoopAssumption DEF LoopAssumption, Bound

\* One more reading inside the window stays within one more round's bound.
LEMMA BoundGrows ==
    ASSUME NEW n \in Nat, NEW a \in -Bound(n) .. Bound(n),
           NEW d \in Int, -Threshold <= d, d <= Threshold
    PROVE  a + (IF n = 0 THEN 9 ELSE 6) * d \in -Bound(n + 1) .. Bound(n + 1)
<1> USE LoopAssumption DEF LoopAssumption
<1>1. CASE n = 0
  <2>1. a = 0 /\ Bound(n + 1) = 9 * Threshold
    BY <1>1 DEF Bound
  <2> QED
    BY <1>1, <2>1
<1>2. CASE n # 0
  <2>1. PICK b \in Nat : b = (3 + 6 * n) * Threshold
    OBVIOUS
  <2>2. Bound(n) = b /\ Bound(n + 1) = (3 + 6 * (n + 1)) * Threshold
    BY <1>2, <2>1 DEF Bound
  <2>3. (3 + 6 * (n + 1)) * Threshold = b + 6 * Threshold
    BY <2>1
  <2>4. a \in -b .. b
    BY <2>2
  <2> HIDE DEF Bound
  <2>5. a + 6 * d \in -(b + 6 * Threshold) .. b + 6 * Threshold
    BY <2>4
  <2> QED
    BY <1>2, <2>2, <2>3, <2>5
<1> QED
  BY <1>1, <1>2

LEMMA BoundMonotone ==
    ASSUME NEW m \in Nat, NEW n \in Nat, m <= n PROVE Bound(m) <= Bound(n)
<1> USE LoopAssumption DEF LoopAssumption
<1>1. CASE m = 0
  BY <1>1, BoundNat DEF Bound
<1>2. CASE m # 0
  <2>1. (3 + 6 * n) * Threshold = (3 + 6 * m) * Threshold + 6 * ((n - m) * Threshold)
    OBVIOUS
  <2>2. n - m \in Nat /\ (n - m) * Threshold \in Nat
    OBVIOUS
  <2>3. (3 + 6 * m) * Threshold \in Nat
    OBVIOUS
  <2> QED
    BY <1>2, <2>1, <2>2, <2>3 DEF Bound
<1> QED
  BY <1>1, <1>2

Levelling == {"coup", "read", "reread", "adjust"}

\* Which call a control point belongs to, and what the call is about there.
ControlInv ==
    /\ pc \in {"sig1", "sig2"} => call \in {"SetTxOn", "SetTxFreqs"}
    /\ pc = "program" => call \in {"SetTxFreqs", "HwSetTxFreqs"}
    /\ pc \in Levelling => call = "SetTxFreqs" /\ want = "on"
    /\ pc \notin {"read", "reread", "adjust"} => i = 0 /\ acc = 0

\* The carriers known to be within the source's limit before correction.
InRange(c) == target[c] + internal[c] <= MaxPow

PowerInv ==
    /\ pc = "program" /\ call = "SetTxFreqs" /\ cr = 1 => InRange(2)
    /\ pc \in {"sig1", "sig2"} /\ call = "SetTxFreqs" /\ want = "on" =>
          \A c \in Carriers : InRange(c)
    /\ pc \in Levelling => \A c \in Carriers : InRange(c)
    /\ pc = "adjust" => acc \in -Bound(i + 1) .. Bound(i + 1)

LevelInv == TypeOK /\ ControlInv /\ PowerInv /\ CorrectionBound /\ DriveBound

LEMMA LevelInit == Init => LevelInv
<1> SUFFICES ASSUME Init PROVE LevelInv
  OBVIOUS
<1> USE BandAssumption, PowerAssumption, LoopAssumption
       DEF BandAssumption, PowerAssumption, LoopAssumption
<1>1. TypeOK
  BY TypeInit
<1>2. Bound(Rounds) \in Nat
  BY BoundNat
<1> QED
  BY <1>1, <1>2, ResetAssumption
     DEF ResetAssumption, AtPreset, Init, LevelInv, ControlInv, PowerInv, CorrectionBound,
         DriveBound, Levelling, Carriers

LEMMA LevelStep == LevelInv /\ [Next]_vars => LevelInv'
<1> SUFFICES ASSUME LevelInv, [Next]_vars PROVE LevelInv'
  OBVIOUS
<1> USE BandAssumption, PowerAssumption, LoopAssumption
       DEF BandAssumption, PowerAssumption, LoopAssumption
<1>t. TypeOK /\ TypeOK'
  BY TypeStep DEF LevelInv
<1>b. /\ Bound(Rounds) \in Nat /\ Bound(i) \in Nat /\ Bound(i + 1) \in Nat
      /\ Bound(i) <= Bound(Rounds) /\ Bound(i + 1) <= Bound(Rounds) /\ Bound(0) = 0
  <2>1. i \in Nat /\ i + 1 \in Nat /\ i <= Rounds /\ i + 1 <= Rounds
    BY <1>t DEF TypeOK
  <2> QED
    BY <2>1, BoundNat, BoundMonotone DEF Bound
<1> USE <1>t DEF LevelInv, ControlInv, PowerInv, CorrectionBound, DriveBound, InRange,
       Levelling, settings, levels, loop, Carriers
<1>1. ASSUME NEW b \in ExtBands, SetMeasBand(b) PROVE LevelInv'
  BY <1>1 DEF SetMeasBand, NoLocals, MayRoute
<1>2. ASSUME NEW p \in DutPorts, SetDutPort(p) PROVE LevelInv'
  BY <1>2, <1>b DEF SetDutPort, NoLocals, MayRoute
<1>3. ASSUME NEW b \in ExtBands, NEW p \in DutPorts, CheckReceiveChannel(b, p)
      PROVE LevelInv'
  BY <1>3, <1>b DEF CheckReceiveChannel, NoLocals, MayRoute
<1>4. ASSUME NEW p1 \in Requests, NEW p2 \in Requests, NEW o1 \in ExtOffsets,
             NEW o2 \in ExtOffsets, SetTxPower(p1, p2, o1, o2)
      PROVE LevelInv'
  BY <1>4 DEF SetTxPower, NoLocals
<1>5. ASSUME NEW on \in Outputs, NEW c \in Carriers, SetTxOnOne(on, c) PROVE LevelInv'
  <2>1. \A k \in Carriers : gen'[k].pow = gen[k].pow
    BY <1>5 DEF SetTxOnOne, OpenPow, TypeOK
  <2> QED
    BY <1>5, <2>1 DEF SetTxOnOne
<1>6. ASSUME NEW on \in Outputs, SetTxOnBoth(on) PROVE LevelInv'
  BY <1>6 DEF SetTxOnBoth
<1>7. ASSUME SetTxFreqs PROVE LevelInv'
  BY <1>7 DEF SetTxFreqs
<1>8. ASSUME HwSetTxFreqs PROVE LevelInv'
  BY <1>8 DEF HwSetTxFreqs, NoLocals
<1>9. ASSUME OpenSig1 PROVE LevelInv'
  <2>1. \A k \in Carriers : gen'[k].pow = gen[k].pow
    BY <1>9 DEF OpenSig1, OpenPow, TypeOK
  <2> QED
    BY <1>9, <2>1 DEF OpenSig1, AfterTxOn, Return
<1>10. ASSUME OpenSig2 PROVE LevelInv'
  <2>1. \A k \in Carriers : gen'[k].pow = gen[k].pow
    BY <1>10 DEF OpenSig2, OpenPow, TypeOK
  <2> QED
    BY <1>10, <2>1 DEF OpenSig2, AfterTxOn, Return
<1>11. ASSUME Program PROVE LevelInv'
  <2>1. ASSUME Return(NoCalibration(cr)), UNCHANGED <<internal, cache, gen, cr>>
        PROVE LevelInv'
    BY <1>11, <2>1 DEF Program, Return
  <2>2. ASSUME Return("OUT_RANGE"), UNCHANGED <<internal, cache, gen, cr>>
        PROVE LevelInv'
    BY <1>11, <2>2 DEF Program, Return
  <2>3. ASSUME NEW off \in RealOffsets, NEW ok \in BOOLEAN,
               ~OutOfRange(10 * (target[cr] + off) + Carried(cr)),
               internal' = [internal EXCEPT ![cr] = off],
               SetFreqPow(cr, 10 * (target[cr] + off) + Carried(cr), ok),
               IF ok THEN AfterProgram ELSE Return("ERROR") /\ cr' = cr
        PROVE LevelInv'
    <3> DEFINE p == 10 * (target[cr] + off) + Carried(cr)
    <3>0. off \in Int /\ target[cr] \in Int /\ Carried(cr) \in Int /\ p \in Int
      BY DEF TypeOK, Carried
    <3>1. p <= 10 * MaxPow
      BY <2>3, <3>0 DEF OutOfRange
    <3>2. \A k \in Carriers : gen'[k].pow \in {gen[k].pow, p}
      BY <2>3, <3>0 DEF SetFreqPow, TypeOK
    <3>3. DriveBound'
      BY <3>0, <3>1, <3>2, <1>b DEF TypeOK
    <3>4. call = "SetTxFreqs" => target[cr] + internal'[cr] <= MaxPow
      <4> HIDE DEF p
      <4>1. call = "SetTxFreqs" => Carried(cr) = 0
        BY DEF Carried
      <4>2. internal'[cr] = off
        BY <2>3 DEF TypeOK
      <4> QED
        BY <3>0, <3>1, <4>1, <4>2 DEF p
    <3>5. \A k \in Carriers : k # cr => internal'[k] = internal[k]
      BY <2>3 DEF TypeOK
    <3>6. UNCHANGED <<settings, dd, route, call, want, loop, avg, refused>> /\ pc = "program"
      BY <1>11 DEF Program
    <3> HIDE DEF p
    <3>7. PowerInv' /\ ControlInv'
      BY <2>3, <3>4, <3>5, <3>6 DEF AfterProgram, Return, TypeOK
    <3> QED
      BY <2>3, <3>3, <3>6, <3>7 DEF AfterProgram, Return
  <2> QED
    BY <1>11, <2>1, <2>2, <2>3 DEF Program
<1>12. ASSUME Couple PROVE LevelInv'
  BY <1>12, <1>b DEF Couple, SwitchOff
<1>13. ASSUME NEW dev \in Deviations, pc \in {"read", "reread"}, Judge(dev),
              UNCHANGED <<settings, internal, cache, gen, route, call, refused>>
       PROVE LevelInv'
  <2>1. ASSUME SwitchOff("NO_FIND_POWER"), UNCHANGED <<dd, cr>> PROVE LevelInv'
    BY <1>13, <2>1, <1>b DEF SwitchOff
  <2>2. ASSUME dd' = [c \in Carriers |-> 0], SwitchOff("OUT_SMOOTH") PROVE LevelInv'
    BY <1>13, <2>2, <1>b DEF SwitchOff
  <2>3. ASSUME CarrierDone, dd' = dd PROVE LevelInv'
    BY <1>13, <2>3, <1>b DEF CarrierDone, SwitchOff
  <2>4. ASSUME ~Outside(dev), acc' = acc + (IF i = 0 THEN 9 ELSE 6) * dev,
               dd' = [dd EXCEPT ![cr] = acc'], pc' = "adjust",
               UNCHANGED <<cr, i, want, ret>>
        PROVE LevelInv'
    <3>1. acc' \in -Bound(i + 1) .. Bound(i + 1)
      <4>1. i \in Nat /\ dev \in Int /\ -Threshold <= dev /\ dev <= Threshold
        BY <2>4 DEF Outside, TypeOK
      <4>2. acc \in -Bound(i) .. Bound(i)
        BY <1>13
      <4> QED
        BY <2>4, <4>1, <4>2, BoundGrows
    <3>2. acc' \in -Bound(Rounds) .. Bound(Rounds)
      BY <3>1, <1>b
    <3>3. \A c \in Carriers : dd'[c] \in -Bound(Rounds) .. Bound(Rounds)
      BY <2>4, <3>2 DEF TypeOK
    <3> QED
      BY <1>13, <2>4, <3>1, <3>3
  <2> QED
    BY <1>13, <2>1, <2>2, <2>3, <2>4 DEF Judge
<1>14. ASSUME Read PROVE LevelInv'
  <2>1. ASSUME SwitchOff("NO_FIND_POWER"), UNCHANGED <<dd, cr>> PROVE LevelInv'
    BY <1>14, <2>1, <1>b DEF Read, SwitchOff
  <2>2. ASSUME pc' = "reread", UNCHANGED <<dd, loop, cr, want, ret>> PROVE LevelInv'
    BY <1>14, <2>2, <1>b DEF Read
  <2> QED
    BY <1>13, <1>14, <2>1, <2>2 DEF Read, FirstAverage
<1>15. ASSUME Reread PROVE LevelInv'
  BY <1>13, <1>15 DEF Reread
<1>16. ASSUME Adjust PROVE LevelInv'
  <2> DEFINE p == BaseLevel(cr) + acc
  <2>0. cr \in Carriers /\ target[cr] \in Int /\ internal[cr] \in Int /\ acc \in Int /\ p \in Int
    BY DEF TypeOK, BaseLevel
  <2>1. PICK ok \in BOOLEAN :
          /\ SetFreqPow(cr, p, ok)
          /\ IF ok THEN NextRound ELSE SwitchOff("ERROR") /\ cr' = cr
    BY <1>16 DEF Adjust
  <2>2. p <= 10 * MaxPow + Bound(Rounds)
    BY <1>16, <1>b, <2>0 DEF Adjust, BaseLevel
  <2>3. \A k \in Carriers : gen'[k].pow \in {gen[k].pow, p}
    BY <2>0, <2>1 DEF SetFreqPow, TypeOK
  <2>4. DriveBound'
    BY <2>0, <2>2, <2>3, <1>b DEF TypeOK
  <2>5. UNCHANGED <<settings, internal, dd, route, call>> /\ pc = "adjust"
    BY <1>16 DEF Adjust
  <2> HIDE DEF p
  <2> QED
    BY <2>1, <2>4, <2>5, <1>b DEF NextRound, CarrierDone, SwitchOff
<1>17. CASE UNCHANGED vars
  BY <1>17 DEF vars
<1>18. ASSUME CheckTwoSignalROSC PROVE LevelInv'
  <2>1. \A k \in Carriers : gen'[k].pow \in {gen[k].pow, ResetPow}
    BY <1>18 DEF CheckTwoSignalROSC, GetReferenceStatus, AtPreset, TypeOK
  <2>2. DriveBound'
    BY <2>1, <1>b, ResetAssumption DEF ResetAssumption, TypeOK
  <2> QED
    BY <1>18, <2>2 DEF CheckTwoSignalROSC, NoLocals
<1> QED
  BY <1>1, <1>2, <1>3, <1>4, <1>5, <1>6, <1>7, <1>8, <1>9, <1>10, <1>11, <1>12,
     <1>14, <1>15, <1>16, <1>17, <1>18 DEF Next, Request, Step

\* Whatever the readings, and whatever writes fail or arrive late, the stored
\* corrections of dd1 and dd2 stay within what the rounds of one levelling can
\* add up: 0.9 and then 0.6 times the window for each round.
THEOREM CorrectionBounded == Spec => []CorrectionBound
<1>1. LevelInv => CorrectionBound
  BY DEF LevelInv
<1> QED
  BY LevelInit, LevelStep, <1>1, PTL DEF Spec

\* The check against SIGNAL_SOURCE_MAX_POW is made before the correction only,
\* and HwGetSig_Smooth writes unchecked levels; still no generator is ever set
\* above the limit by more than the bound of one levelling.
THEOREM DriveBounded == Spec => []DriveBound
<1>1. LevelInv => DriveBound
  BY DEF LevelInv
<1> QED
  BY LevelInit, LevelStep, <1>1, PTL DEF Spec

-----------------------------------------------------------------------------
(* Which path is connected, who radiates, and why a levelling failed.        *)

RouteInv ==
    /\ pc = "sig2" => gen[1].rf = want
    /\ pc \in Levelling => \A c \in Carriers : gen[c].rf = "on"
    /\ pc \in {"read", "reread", "adjust"} =>
          route = [path |-> <<now_band, now_dut_port>>, coup |-> cr]

\* The verdict a call of fnSetTxFreqs carries through its switch-off.
Confirmed ==
    /\ ret = "OUT_SMOOTH" => avg = "two"
    /\ ret = "NO_FIND_POWER" =>
          avg \in {"two", "missing"} \/ target[cr] <= Floor + Threshold
FaultInv ==
    /\ pc \in Levelling \union {"program"} => ret = "OK"
    /\ pc \in {"sig1", "sig2"} /\ want = "on" => ret = "OK"
    /\ call = "SetTxFreqs" => Confirmed

PathInv == TypeOK /\ ControlInv /\ RouteInv /\ FaultInv /\ RfOffAfterLevelling

LEMMA PathInit == Init => PathInv
<1> SUFFICES ASSUME Init PROVE PathInv
  OBVIOUS
<1> QED
  BY TypeInit DEF Init, PathInv, ControlInv, RouteInv, FaultInv, Confirmed,
     RfOffAfterLevelling, Levelling

LEMMA PathStep == PathInv /\ [Next]_vars => PathInv'
<1> SUFFICES ASSUME PathInv, [Next]_vars PROVE PathInv'
  OBVIOUS
<1> USE PowerAssumption, LoopAssumption DEF PowerAssumption, LoopAssumption
<1>t. TypeOK /\ TypeOK'
  BY TypeStep DEF PathInv
<1> USE <1>t DEF PathInv, ControlInv, RouteInv, FaultInv, Confirmed, RfOffAfterLevelling,
       RfOff, Levelling, settings, levels, loop, Carriers
<1>1. ASSUME NEW b \in ExtBands, SetMeasBand(b) PROVE PathInv'
  BY <1>1 DEF SetMeasBand, NoLocals, MayRoute
<1>2. ASSUME NEW p \in DutPorts, SetDutPort(p) PROVE PathInv'
  BY <1>2 DEF SetDutPort, NoLocals, MayRoute
<1>3. ASSUME NEW b \in ExtBands, NEW p \in DutPorts, CheckReceiveChannel(b, p)
      PROVE PathInv'
  BY <1>3 DEF CheckReceiveChannel, NoLocals, MayRoute
<1>4. ASSUME NEW p1 \in Requests, NEW p2 \in Requests, NEW o1 \in ExtOffsets,
             NEW o2 \in ExtOffsets, SetTxPower(p1, p2, o1, o2)
      PROVE PathInv'
  BY <1>4 DEF SetTxPower, NoLocals
<1>5. ASSUME NEW on \in Outputs, NEW c \in Carriers, SetTxOnOne(on, c) PROVE PathInv'
  BY <1>5 DEF SetTxOnOne
<1>6. ASSUME NEW on \in Outputs, SetTxOnBoth(on) PROVE PathInv'
  BY <1>6 DEF SetTxOnBoth
<1>7. ASSUME SetTxFreqs PROVE PathInv'
  BY <1>7 DEF SetTxFreqs
<1>8. ASSUME HwSetTxFreqs PROVE PathInv'
  BY <1>8 DEF HwSetTxFreqs, NoLocals
<1>9. ASSUME OpenSig1 PROVE PathInv'
  <2>1. PICK ok \in BOOLEAN :
          /\ OpenPow(1, want, ok)
          /\ refused' = IF ok THEN refused ELSE refused \union {1}
          /\ IF ok THEN pc' = "sig2" /\ UNCHANGED <<cr, ret>> ELSE AfterTxOn(FALSE)
    BY <1>9 DEF OpenSig1
  <2>2. /\ UNCHANGED <<settings, levels, route, call, want, loop, avg>>
        /\ pc = "sig1"
    BY <1>9 DEF OpenSig1
  <2>3. CASE ok
    <3>1. gen'[1].rf = want
      BY <2>1, <2>3 DEF OpenPow, TypeOK
    <3> QED
      BY <2>1, <2>2, <2>3, <3>1
  <2>4. CASE ~ok
    <3>1. refused' # {} /\ AfterTxOn(FALSE)
      BY <2>1, <2>4
    <3> QED
      BY <2>2, <3>1 DEF AfterTxOn, Return
  <2> QED
    BY <2>3, <2>4
<1>10. ASSUME OpenSig2 PROVE PathInv'
  <2>1. PICK ok \in BOOLEAN :
          /\ OpenPow(2, want, ok)
          /\ refused' = IF ok THEN refused ELSE refused \union {2}
          /\ AfterTxOn(ok)
    BY <1>10 DEF OpenSig2
  <2>2. /\ UNCHANGED <<settings, levels, route, call, want, loop, avg>>
        /\ pc = "sig2"
    BY <1>10 DEF OpenSig2
  <2>3. CASE ok
    <3>1. \A c \in Carriers : gen'[c].rf = want
      BY <2>1, <2>2, <2>3 DEF OpenPow, TypeOK
    <3>2. AfterTxOn(TRUE)
      BY <2>1, <2>3
    <3> QED
      BY <2>2, <3>1, <3>2 DEF AfterTxOn, Return
  <2>4. CASE ~ok
    <3>1. refused' # {} /\ AfterTxOn(FALSE)
      BY <2>1, <2>4
    <3> QED
      BY <2>2, <3>1 DEF AfterTxOn, Return
  <2> QED
    BY <2>3, <2>4
<1>11. ASSUME Program PROVE PathInv'
  <2>1. /\ UNCHANGED <<settings, route, call, want, loop, avg, refused>>
        /\ pc = "program" /\ ret = "OK"
    BY <1>11 DEF Program
  <2>2. \/ Return(NoCalibration(cr))
        \/ Return("OUT_RANGE")
        \/ Return("ERROR")
        \/ AfterProgram
    BY <1>11 DEF Program
  <2> QED
    BY <2>1, <2>2 DEF AfterProgram, Return, NoCalibration
<1>12. ASSUME Couple PROVE PathInv'
  <2>1. PICK ok \in BOOLEAN :
          /\ SetSwitch(now_band, now_dut_port, cr, ok)
          /\ IF ok THEN pc' = "read" /\ UNCHANGED <<want, ret, loop>>
                   ELSE SwitchOff("ERROR")
    BY <1>12 DEF Couple
  <2>2. pc = "coup" /\ UNCHANGED <<settings, levels, gen, call, cr, refused>>
    BY <1>12 DEF Couple
  <2>3. CASE ok
    <3>1. route' = [path |-> <<now_band, now_dut_port>>, coup |-> cr]
      BY <2>1, <2>3 DEF SetSwitch
    <3>2. pc' = "read" /\ UNCHANGED <<want, ret, loop>>
      BY <2>1, <2>3
    <3> QED
      BY <2>2, <3>1, <3>2
  <2>4. CASE ~ok
    BY <2>1, <2>2, <2>4 DEF SwitchOff
  <2> QED
    BY <2>3, <2>4
<1>13. ASSUME NEW dev \in Deviations, pc \in {"read", "reread"}, Judge(dev),
              UNCHANGED <<settings, internal, cache, gen, route, call, refused>>,
              \/ pc = "reread" /\ avg' = "two"
              \/ ~Outside(dev)
       PROVE PathInv'
  <2>1. ASSUME target[cr] - dev <= Floor, SwitchOff("NO_FIND_POWER"), UNCHANGED <<dd, cr>>
        PROVE PathInv'
    <3>1. avg' = "two" \/ target[cr] <= Floor + Threshold
      BY <1>13, <2>1 DEF Outside, TypeOK
    <3> QED
      BY <1>13, <2>1, <3>1 DEF SwitchOff
  <2>2. ASSUME Outside(dev), SwitchOff("OUT_SMOOTH"), cr' = cr PROVE PathInv'
    BY <1>13, <2>2 DEF SwitchOff
  <2>3. ASSUME CarrierDone PROVE PathInv'
    BY <1>13, <2>3 DEF CarrierDone, SwitchOff
  <2>4. ASSUME pc' = "adjust", UNCHANGED <<cr, i, want, ret>> PROVE PathInv'
    BY <1>13, <2>4
  <2> QED
    BY <1>13, <2>1, <2>2, <2>3, <2>4 DEF Judge
<1>14. ASSUME Read PROVE PathInv'
  <2>1. ASSUME avg' = "missing", SwitchOff("NO_FIND_POWER"), UNCHANGED <<dd, cr>>
        PROVE PathInv'
    BY <1>14, <2>1 DEF Read, SwitchOff
  <2>2. ASSUME pc' = "reread", UNCHANGED <<dd, loop, cr, want, ret>> PROVE PathInv'
    BY <1>14, <2>2 DEF Read
  <2> QED
    BY <1>13, <1>14, <2>1, <2>2 DEF Read, FirstAverage
<1>15. ASSUME Reread PROVE PathInv'
  BY <1>13, <1>15 DEF Reread
<1>16. ASSUME Adjust PROVE PathInv'
  <2>1. PICK ok \in BOOLEAN :
          /\ SetFreqPow(cr, BaseLevel(cr) + acc, ok)
          /\ IF ok THEN NextRound ELSE SwitchOff("ERROR") /\ cr' = cr
    BY <1>16 DEF Adjust
  <2>2. pc = "adjust" /\ UNCHANGED <<settings, internal, dd, route, call, avg, refused>>
    BY <1>16 DEF Adjust
  <2>3. \A k \in Carriers : gen'[k].rf = gen[k].rf
    BY <2>1 DEF SetFreqPow, TypeOK
  <2> QED
    BY <2>1, <2>2, <2>3 DEF NextRound, CarrierDone, SwitchOff
<1>17. CASE UNCHANGED vars
  BY <1>17 DEF vars
<1>18. ASSUME CheckTwoSignalROSC PROVE PathInv'
  BY <1>18 DEF CheckTwoSignalROSC, NoLocals
<1> QED
  BY <1>1, <1>2, <1>3, <1>4, <1>5, <1>6, <1>7, <1>8, <1>9, <1>10, <1>11, <1>12,
     <1>14, <1>15, <1>16, <1>17, <1>18 DEF Next, Request, Step

\* No reading of the power sensor is ever judged against the wrong carrier,
\* band or port, or with an amplifier that was not commanded on.
THEOREM ReadsItsOwnPath == Spec => []ReadsOwnPath
<1>1. PathInv => ReadsOwnPath
  BY DEF PathInv, ControlInv, RouteInv, ReadsOwnPath, Levelling
<1> QED
  BY PathInit, PathStep, <1>1, PTL DEF Spec

\* fnSetTxFreqs returns success, or a levelling fault without a refused command,
\* only with both amplifiers off.
THEOREM SilentAfterLevelling == Spec => []RfOffAfterLevelling
<1>1. PathInv => RfOffAfterLevelling
  BY DEF PathInv
<1> QED
  BY PathInit, PathStep, <1>1, PTL DEF Spec

\* No single bad average aborts a levelling.
THEOREM FaultsAreConfirmed == Spec => []FaultConfirmed
<1>1. PathInv => FaultConfirmed
  BY DEF PathInv, FaultInv, Confirmed, FaultConfirmed
<1> QED
  BY PathInit, PathStep, <1>1, PTL DEF Spec

-----------------------------------------------------------------------------
(* A client that keeps the documented order never switches a path under      *)
(* power.                                                                    *)

HoldsPath == pc # "idle" /\ call = "SetTxFreqs" => OnSelectedPath
OrderInv == TypeOK /\ ControlInv /\ HoldsPath

LEMMA ControlStep == TypeOK /\ ControlInv /\ [Next]_vars => ControlInv'
<1> SUFFICES ASSUME TypeOK, ControlInv, [Next]_vars PROVE ControlInv'
  OBVIOUS
<1> USE DEF TypeOK, ControlInv, Levelling, settings, levels, loop
<1>1. ASSUME Request PROVE ControlInv'
  BY <1>1 DEF Request, SetMeasBand, SetDutPort, CheckReceiveChannel, CheckTwoSignalROSC,
     SetTxPower, SetTxOnOne, SetTxOnBoth, SetTxFreqs, HwSetTxFreqs, NoLocals, MayRoute
<1>2. ASSUME OpenSig1 \/ OpenSig2 PROVE ControlInv'
  BY <1>2 DEF OpenSig1, OpenSig2, AfterTxOn, Return
<1>3. ASSUME Program PROVE ControlInv'
  BY <1>3 DEF Program, AfterProgram, Return
<1>4. ASSUME Couple PROVE ControlInv'
  BY <1>4 DEF Couple, SwitchOff
<1>5. ASSUME NEW dev, Judge(dev), call' = call, pc \in {"read", "reread"} PROVE ControlInv'
  BY <1>5 DEF Judge, CarrierDone, SwitchOff
<1>6. ASSUME Read \/ Reread PROVE ControlInv'
  BY <1>5, <1>6 DEF Read, Reread, FirstAverage, SwitchOff
<1>7. ASSUME Adjust PROVE ControlInv'
  BY <1>7 DEF Adjust, NextRound, CarrierDone, SwitchOff
<1>8. CASE UNCHANGED vars
  BY <1>8 DEF vars
<1> QED
  BY <1>1, <1>2, <1>3, <1>4, <1>6, <1>7, <1>8 DEF Next, Step

LEMMA HoldsStep == Disciplined /\ OrderInv /\ [Next]_vars => HoldsPath'
<1> SUFFICES ASSUME Disciplined, OrderInv, [Next]_vars PROVE HoldsPath'
  OBVIOUS
<1> USE DEF OrderInv, TypeOK, ControlInv, HoldsPath, OnSelectedPath, Levelling, settings,
       levels, loop
<1>1. ASSUME Request PROVE HoldsPath'
  BY <1>1 DEF Request, SetMeasBand, SetDutPort, CheckReceiveChannel, CheckTwoSignalROSC,
     SetTxPower, SetTxOnOne, SetTxOnBoth, SetTxFreqs, HwSetTxFreqs, NoLocals, MayRoute
<1>2. ASSUME OpenSig1 \/ OpenSig2 \/ Program PROVE HoldsPath'
  BY <1>2 DEF OpenSig1, OpenSig2, Program
<1>3. ASSUME Couple PROVE HoldsPath'
  BY <1>3 DEF Couple, SetSwitch
<1>4. ASSUME Read \/ Reread \/ Adjust PROVE HoldsPath'
  BY <1>4 DEF Read, Reread, Adjust
<1>5. CASE UNCHANGED vars
  BY <1>5 DEF vars
<1> QED
  BY <1>1, <1>2, <1>3, <1>4, <1>5 DEF Next, Step

LEMMA NoHotMoveStep ==
    Disciplined /\ OrderInv /\ [Next]_vars =>
        [ \/ RfOff
          \/ Mixed \in {route, route'}
          \/ route'.path = route.path ]_vars
<1> SUFFICES ASSUME Disciplined, OrderInv, Next,
                    ~RfOff, route # Mixed, route' # Mixed
             PROVE  route'.path = route.path
  OBVIOUS
<1> USE DEF OrderInv, TypeOK, ControlInv, HoldsPath, OnSelectedPath, Levelling, settings,
       levels, loop
<1>1. ASSUME Request PROVE route' = route
  BY <1>1 DEF Request, SetMeasBand, SetDutPort, CheckReceiveChannel, CheckTwoSignalROSC,
     SetTxPower, SetTxOnOne, SetTxOnBoth, SetTxFreqs, HwSetTxFreqs, NoLocals, MayRoute
<1>2. ASSUME OpenSig1 \/ OpenSig2 \/ Program \/ Read \/ Reread \/ Adjust PROVE route' = route
  BY <1>2 DEF OpenSig1, OpenSig2, Program, Read, Reread, Adjust
<1>3. ASSUME Couple PROVE route'.path = route.path
  <2>1. route.path = <<now_band, now_dut_port>>
    BY <1>3 DEF Couple
  <2>2. route' \in {route, [path |-> <<now_band, now_dut_port>>, coup |-> cr]}
    BY <1>3 DEF Couple, SetSwitch
  <2> QED
    BY <2>1, <2>2
<1> QED
  BY <1>1, <1>2, <1>3 DEF Next, Step

\* With band and port selected in the documented order and with RF off, a
\* levelling moves couplers only: the transmit path never changes from one
\* known position to another while an amplifier is on.
THEOREM NoHotPathMoves == ASSUME Disciplined PROVE Spec => NoHotPathMove
<1>1. Init => OrderInv
  BY TypeInit, PathInit DEF OrderInv, PathInv, HoldsPath, Init
<1>2. OrderInv /\ [Next]_vars => OrderInv'
  BY TypeStep, ControlStep, HoldsStep DEF OrderInv
<1>3. OrderInv /\ [Next]_vars =>
        [ \/ RfOff
          \/ Mixed \in {route, route'}
          \/ route'.path = route.path ]_vars
  BY NoHotMoveStep
<1> QED
  BY <1>1, <1>2, <1>3, PTL DEF Spec, NoHotPathMove

-----------------------------------------------------------------------------
(* The driver's cache and the generator.                                     *)

\* A driver's cache tells the generator's level, or the generator is at its
\* preset: never set, or reset behind its driver.
Honest == \A c \in Carriers : gen[c].pow \in {cache[c], ResetPow}

\* The carriers whose calibrated level is cached, and the loop's own level; a
\* correction is never skipped, so that later rounds know the generator's level.
CacheInv ==
    /\ pc = "program" /\ call = "SetTxFreqs" /\ cr = 1 => cache[2] = BaseLevel(2)
    /\ pc \in {"sig1", "sig2"} /\ call = "SetTxFreqs" /\ want = "on" =>
          \A c \in Carriers : cache[c] = BaseLevel(c)
    /\ pc = "coup" => cache[cr] = BaseLevel(cr)
    /\ pc \in {"read", "reread"} => cache[cr] = BaseLevel(cr) + acc
    /\ pc = "adjust" => cache[cr] # BaseLevel(cr) + acc
    /\ pc \in Levelling /\ cr = 2 => cache[1] = BaseLevel(1)

\* After the first round the generator is at the level the driver has cached.
LaterRounds == pc \in {"read", "reread"} /\ i # 0 => gen[cr].pow = BaseLevel(cr) + acc

SyncInv == TypeOK /\ ControlInv /\ Honest /\ CacheInv /\ LaterRounds

LEMMA HonestStep == ~LateWrites /\ SyncInv /\ [Next]_vars => Honest'
<1> SUFFICES ASSUME ~LateWrites, SyncInv, [Next]_vars PROVE Honest'
  OBVIOUS
<1> USE DEF SyncInv, TypeOK, Honest, settings, levels, loop, Carriers
<1>1. ASSUME NEW c \in Carriers, NEW p \in Int, NEW ok, SetFreqPow(c, p, ok) PROVE Honest'
  BY <1>1 DEF SetFreqPow
<1>2. ASSUME NEW c \in Carriers, NEW on \in Outputs, NEW ok, OpenPow(c, on, ok), cache' = cache
      PROVE Honest'
  BY <1>2 DEF OpenPow
<1>3. ASSUME Request PROVE Honest'
  <2>1. CASE UNCHANGED <<gen, cache>>
    BY <2>1
  <2>2. ASSUME NEW on \in Outputs, NEW c \in Carriers, SetTxOnOne(on, c) PROVE Honest'
    BY <2>2, <1>2 DEF SetTxOnOne
  <2>3. CASE CheckTwoSignalROSC
    BY <2>3 DEF CheckTwoSignalROSC, GetReferenceStatus, AtPreset
  <2> QED
    BY <1>3, <2>1, <2>2, <2>3 DEF Request, SetMeasBand, SetDutPort, CheckReceiveChannel,
       SetTxPower, SetTxOnBoth, SetTxFreqs, HwSetTxFreqs
<1>4. ASSUME OpenSig1 \/ OpenSig2 PROVE Honest'
  BY <1>2, <1>4 DEF OpenSig1, OpenSig2
<1>5. ASSUME Program PROVE Honest'
  <2>1. CASE UNCHANGED <<gen, cache>>
    BY <2>1
  <2>2. ASSUME NEW off \in RealOffsets, NEW ok,
               SetFreqPow(cr, 10 * (target[cr] + off) + Carried(cr), ok)
        PROVE Honest'
    <3>1. 10 * (target[cr] + off) + Carried(cr) \in Int
      BY PowerAssumption DEF PowerAssumption, Carried
    <3> QED
      BY <1>1, <2>2, <3>1
  <2> QED
    BY <1>5, <2>1, <2>2 DEF Program
<1>6. ASSUME Adjust PROVE Honest'
  <2>1. BaseLevel(cr) + acc \in Int
    BY DEF BaseLevel
  <2> QED
    BY <1>1, <1>6, <2>1 DEF Adjust
<1>7. ASSUME Couple \/ Read \/ Reread PROVE Honest'
  BY <1>7 DEF Couple, Read, Reread
<1>8. CASE UNCHANGED vars
  BY <1>8 DEF vars
<1> QED
  BY <1>3, <1>4, <1>5, <1>6, <1>7, <1>8 DEF Next, Step

LEMMA CacheStep == TypeOK /\ ControlInv /\ CacheInv /\ [Next]_vars => CacheInv'
<1> SUFFICES ASSUME TypeOK, ControlInv, CacheInv, [Next]_vars PROVE CacheInv'
  OBVIOUS
<1> USE DEF TypeOK, ControlInv, CacheInv, BaseLevel, Levelling, settings, levels,
       loop, Carriers
<1>1. ASSUME Request PROVE CacheInv'
  <2>1. CASE CheckTwoSignalROSC
    BY <2>1 DEF CheckTwoSignalROSC, GetReferenceStatus, NoLocals
  <2> QED
    BY <1>1, <2>1 DEF Request, SetMeasBand, SetDutPort, CheckReceiveChannel, SetTxPower,
       SetTxOnOne, SetTxOnBoth, SetTxFreqs, HwSetTxFreqs, NoLocals, MayRoute
<1>2. ASSUME OpenSig1 \/ OpenSig2 PROVE CacheInv'
  BY <1>2 DEF OpenSig1, OpenSig2, AfterTxOn, Return
<1>3. ASSUME Program PROVE CacheInv'
  <2>1. CASE pc' = "idle"
    BY <2>1
  <2>2. ASSUME pc' # "idle", NEW off \in RealOffsets, NEW ok \in BOOLEAN,
               internal' = [internal EXCEPT ![cr] = off],
               SetFreqPow(cr, 10 * (target[cr] + off) + Carried(cr), ok),
               IF ok THEN AfterProgram ELSE Return("ERROR") /\ cr' = cr
        PROVE CacheInv'
    <3> DEFINE p == 10 * (target[cr] + off) + Carried(cr)
    <3>1. ok /\ AfterProgram
      BY <2>2 DEF Return
    <3>2. cache' = [cache EXCEPT ![cr] = p]
      BY <2>2, <3>1 DEF SetFreqPow
    <3>3. call = "SetTxFreqs" => p = 10 * (target[cr] + off)
      BY PowerAssumption DEF PowerAssumption, Carried
    <3>4. UNCHANGED <<settings, dd, route, call, want, loop, avg, refused>> /\ pc = "program"
      BY <1>3 DEF Program
    <3> HIDE DEF p
    <3>5. call = "SetTxFreqs" => cache'[cr] = 10 * (target[cr] + internal'[cr])
      BY <2>2, <3>2, <3>3
    <3>6. \A k \in Carriers : k # cr => cache'[k] = cache[k] /\ internal'[k] = internal[k]
      BY <2>2, <3>2
    <3> QED
      BY <3>1, <3>4, <3>5, <3>6 DEF AfterProgram, Return
  <2> QED
    BY <1>3, <2>1, <2>2 DEF Program, Return
<1>4. ASSUME Couple PROVE CacheInv'
  BY <1>4 DEF Couple, SwitchOff
<1>5. ASSUME NEW dev \in Deviations, Judge(dev), pc \in {"read", "reread"},
             UNCHANGED <<settings, internal, cache, call>>
      PROVE CacheInv'
  <2>1. CASE pc' # "adjust"
    BY <1>5, <2>1 DEF Judge, CarrierDone, SwitchOff
  <2>2. CASE pc' = "adjust"
    <3>1. /\ dev \notin -Accuracy .. Accuracy
          /\ acc' = acc + (IF i = 0 THEN 9 ELSE 6) * dev /\ UNCHANGED <<cr, i, want, ret>>
      BY <1>5, <2>2 DEF Judge, CarrierDone, SwitchOff
    <3>2. dev \in Int /\ dev # 0
      BY <3>1, PowerAssumption, LoopAssumption DEF PowerAssumption, LoopAssumption
    <3>3. acc' # acc /\ acc' \in Int
      BY <3>1, <3>2
    <3> QED
      BY <1>5, <2>2, <3>1, <3>3
  <2> QED
    BY <2>1, <2>2
<1>6. ASSUME Read \/ Reread PROVE CacheInv'
  BY <1>5, <1>6 DEF Read, Reread, FirstAverage, SwitchOff
<1>7. ASSUME Adjust PROVE CacheInv'
  <2>1. PICK ok \in BOOLEAN :
          /\ SetFreqPow(cr, BaseLevel(cr) + acc, ok)
          /\ IF ok THEN NextRound ELSE SwitchOff("ERROR") /\ cr' = cr
    BY <1>7 DEF Adjust
  <2>2. pc = "adjust" /\ UNCHANGED <<settings, internal, call>>
    BY <1>7 DEF Adjust
  <2>3. CASE ok
    <3>1. cache' = [cache EXCEPT ![cr] = BaseLevel(cr) + acc]
      BY <2>1, <2>3 DEF SetFreqPow
    <3>2. NextRound
      BY <2>1, <2>3
    <3> QED
      BY <2>2, <3>1, <3>2 DEF NextRound, CarrierDone, SwitchOff
  <2>4. CASE ~ok
    BY <2>1, <2>2, <2>4 DEF SwitchOff
  <2> QED
    BY <2>3, <2>4
<1>8. CASE UNCHANGED vars
  BY <1>8 DEF vars
<1> QED
  BY <1>1, <1>2, <1>3, <1>4, <1>6, <1>7, <1>8 DEF Next, Step

LEMMA LaterStep ==
    TypeOK /\ ControlInv /\ CacheInv /\ LaterRounds /\ [Next]_vars => LaterRounds'
<1> SUFFICES ASSUME TypeOK, ControlInv, CacheInv, LaterRounds, [Next]_vars
             PROVE  LaterRounds'
  OBVIOUS
<1> USE DEF TypeOK, LaterRounds, BaseLevel, settings, levels, loop
<1>1. ASSUME Request PROVE LaterRounds'
  BY <1>1 DEF Request, SetMeasBand, SetDutPort, CheckReceiveChannel, CheckTwoSignalROSC,
     SetTxPower, SetTxOnOne, SetTxOnBoth, SetTxFreqs, HwSetTxFreqs, MayRoute
<1>2. CASE OpenSig1 \/ OpenSig2 \/ Program
  BY <1>2 DEF OpenSig1, OpenSig2, AfterTxOn, Program, AfterProgram, Return
<1>3. CASE Couple
  BY <1>3 DEF Couple, SwitchOff, ControlInv
<1>4. CASE Read \/ Reread
  BY <1>4 DEF Read, Reread, FirstAverage, Judge, CarrierDone, SwitchOff
<1>5. CASE Adjust
  <2>1. PICK ok \in BOOLEAN :
          /\ SetFreqPow(cr, BaseLevel(cr) + acc, ok)
          /\ IF ok THEN NextRound ELSE SwitchOff("ERROR") /\ cr' = cr
    BY <1>5 DEF Adjust
  <2>2. CASE pc' \notin {"read", "reread"}
    BY <2>2
  <2>3. CASE pc' \in {"read", "reread"}
    <3>1. ok /\ UNCHANGED <<acc, cr, target, internal>> /\ cache[cr] # BaseLevel(cr) + acc
      BY <1>5, <2>1, <2>3 DEF Adjust, NextRound, CarrierDone, SwitchOff, CacheInv
    <3>2. gen' = [gen EXCEPT ![cr].pow = BaseLevel(cr) + acc]
      BY <2>1, <3>1 DEF SetFreqPow
    <3> QED
      BY <3>1, <3>2
  <2> QED
    BY <2>2, <2>3
<1>6. CASE UNCHANGED vars
  BY <1>6 DEF vars
<1> QED
  BY <1>1, <1>2, <1>3, <1>4, <1>5, <1>6 DEF Next, Step

\* When a write reported as failed did not reach the generator, every reading is
\* judged against the level the generator is really at, in every interleaving of
\* calls, except in the first round by a generator at its preset: skipping a write
\* because of the cached level is sound as long as the generator was set once and
\* has not been reset behind its driver since, and later rounds are sound anyway.
THEOREM LoopsInSync == ASSUME ~LateWrites PROVE Spec => []LoopInSync
<1>1. Init => SyncInv
  BY TypeInit, PathInit
     DEF Init, SyncInv, PathInv, Honest, CacheInv, LaterRounds, AtPreset, Levelling, Carriers
<1>2. SyncInv /\ [Next]_vars => SyncInv'
  BY TypeStep, ControlStep, HonestStep, CacheStep, LaterStep DEF SyncInv
<1>3. SyncInv => LoopInSync
  BY DEF SyncInv, TypeOK, Honest, CacheInv, LaterRounds, LoopInSync
<1> QED
  BY <1>1, <1>2, <1>3, PTL DEF Spec

\* What the calls of the transmit side leave in the drivers, the reference check
\* and its reset included, whatever fails and wherever a call ends: the level of
\* the generator, unless that is at its preset, never set or reset behind the
\* driver.  The receive side and the calibrations start from this.
THEOREM CachesTellLevels == ASSUME ~LateWrites PROVE Spec => []Honest
<1>1. Init => SyncInv
  BY TypeInit, PathInit
     DEF Init, SyncInv, PathInv, Honest, CacheInv, LaterRounds, AtPreset, Levelling, Carriers
<1>2. SyncInv /\ [Next]_vars => SyncInv'
  BY TypeStep, ControlStep, HonestStep, CacheStep, LaterStep DEF SyncInv
<1>3. SyncInv => Honest
  BY DEF SyncInv
<1> QED
  BY <1>1, <1>2, <1>3, PTL DEF Spec

-----------------------------------------------------------------------------
(* How many commands a call may still give.  What the call has to do after    *)
(* the control point is counted at its longest: every average is read twice,   *)
(* every round ends in a correction, and both carriers are levelled.           *)

ForCarrier == 1 + 3 * Rounds
AfterCarrier(c) == IF c = 2 THEN 2 + ForCarrier ELSE 2
AfterSwitching ==
    IF call = "SetTxFreqs" /\ want = "on" THEN AfterCarrier(2) + ForCarrier ELSE 0
AfterProgramming ==
    IF call = "SetTxFreqs" THEN cr + 2 + AfterCarrier(2) + ForCarrier ELSE 3 - cr

StepsLeft ==
    CASE pc = "idle" -> 0
      [] pc = "program" -> AfterProgramming
      [] pc = "sig1" -> 2 + AfterSwitching
      [] pc = "sig2" -> 1 + AfterSwitching
      [] pc = "coup" -> AfterCarrier(cr) + ForCarrier
      [] pc = "read" -> AfterCarrier(cr) + 3 * (Rounds - i)
      [] pc = "reread" -> AfterCarrier(cr) + 3 * (Rounds - i) - 1
      [] pc = "adjust" -> AfterCarrier(cr) + 3 * (Rounds - i) - 2

MostSteps == 8 + 6 * Rounds

\* Nothing happens during a call but that it comes closer to its return.
CallsAdvance == [][pc # "idle" => StepsLeft' < StepsLeft]_vars

LEMMA StepsBounded == TypeOK /\ ControlInv => StepsLeft \in 0 .. MostSteps
BY LoopAssumption
   DEF LoopAssumption, TypeOK, ControlInv, StepsLeft, MostSteps, ForCarrier, AfterCarrier,
       AfterSwitching, AfterProgramming, Points, Carriers

\* A return, and the switch-off before one, come before anything levelling may do.
LEMMA AdvanceStep ==
    TypeOK /\ ControlInv /\ [Next]_vars => [pc # "idle" => StepsLeft' < StepsLeft]_vars
<1> SUFFICES ASSUME TypeOK, ControlInv, Next, pc # "idle" PROVE StepsLeft' < StepsLeft
  OBVIOUS
<1> USE LoopAssumption
    DEF LoopAssumption, TypeOK, ControlInv, Levelling, Points, Carriers, StepsLeft,
        AfterCarrier, ForCarrier, AfterSwitching, AfterProgramming
<1>1. ASSUME Request PROVE FALSE
  BY <1>1 DEF Request, SetMeasBand, SetDutPort, CheckReceiveChannel, CheckTwoSignalROSC,
     SetTxPower, SetTxOnOne, SetTxOnBoth, SetTxFreqs, HwSetTxFreqs, MayRoute
<1>2. ASSUME OpenSig1 PROVE StepsLeft' < StepsLeft
  BY <1>2 DEF OpenSig1, AfterTxOn, Return, loop
<1>3. ASSUME OpenSig2 PROVE StepsLeft' < StepsLeft
  BY <1>3 DEF OpenSig2, AfterTxOn, Return, loop
<1>4. ASSUME Program PROVE StepsLeft' < StepsLeft
  BY <1>4 DEF Program, AfterProgram, Return, loop
<1>5. ASSUME Couple PROVE StepsLeft' < StepsLeft
  BY <1>5 DEF Couple, SwitchOff, loop
<1>6. ASSUME NEW dev, Judge(dev), call' = call, pc \in {"read", "reread"}
      PROVE  StepsLeft' < StepsLeft
  BY <1>6 DEF Judge, CarrierDone, SwitchOff
<1>7. ASSUME Read PROVE StepsLeft' < StepsLeft
  <2>1. ASSUME SwitchOff("NO_FIND_POWER"), UNCHANGED <<dd, cr>>
        PROVE  StepsLeft' < StepsLeft
    BY <1>7, <2>1 DEF Read, SwitchOff
  <2>2. ASSUME pc' = "reread", UNCHANGED <<dd, loop, cr, want, ret>>
        PROVE  StepsLeft' < StepsLeft
    BY <1>7, <2>2 DEF Read, loop
  <2> HIDE DEF StepsLeft
  <2> QED
    BY <1>6, <1>7, <2>1, <2>2 DEF Read, FirstAverage
<1>8. ASSUME Reread PROVE StepsLeft' < StepsLeft
  BY <1>6, <1>8 DEF Reread
<1>9. ASSUME Adjust PROVE StepsLeft' < StepsLeft
  <2>1. pc = "adjust" /\ call' = call /\ (NextRound \/ (SwitchOff("ERROR") /\ cr' = cr))
    BY <1>9 DEF Adjust
  <2>2. StepsLeft = AfterCarrier(cr) + 3 * (Rounds - i) - 2
    BY <2>1
  <2>3. CASE SwitchOff("ERROR") \/ (CarrierDone /\ cr # 2)
    BY <2>1, <2>2, <2>3 DEF CarrierDone, SwitchOff
  <2>4. CASE CarrierDone /\ cr = 2
    BY <2>1, <2>2, <2>4 DEF CarrierDone
  <2>5. CASE pc' = "read" /\ i' = i + 1 /\ UNCHANGED <<cr, want>>
    BY <2>1, <2>2, <2>5
  <2> HIDE DEF StepsLeft
  <2> QED
    BY <2>1, <2>3, <2>4, <2>5 DEF NextRound
<1> QED
  BY <1>1, <1>2, <1>3, <1>4, <1>5, <1>7, <1>8, <1>9 DEF Next, Step

\* A call that was started returns after at most 8 + 6 * Rounds commands and
\* readings (32 with the code's four rounds of HwGetSig_Smooth), whatever is read
\* and whatever fails: no retry, no second average and no error path lets
\* fnSetTxFreqs start over.
THEOREM CallsEnd == Spec => [](StepsLeft \in 0 .. MostSteps) /\ CallsAdvance
<1>1. Init => TypeOK /\ ControlInv
  BY TypeInit, PathInit DEF PathInv
<1>2. TypeOK /\ ControlInv /\ [Next]_vars => (TypeOK /\ ControlInv)'
  BY TypeStep, ControlStep
<1> QED
  BY <1>1, <1>2, StepsBounded, AdvanceStep, PTL DEF Spec, CallsAdvance
-----------------------------------------------------------------------------
(* What a call that succeeded has programmed.                                *)

Accounted(c) == cache[c] \in {BaseLevel(c), BaseLevel(c) + dd[c]}

\* A successful fnSetTxFreqs leaves each carrier acknowledged at its calibrated
\* level, or at that level with the correction kept for it; a successful
\* HwSetTxFreqs at the calibrated level with that correction.
LevelsAccounted ==
    pc = "idle" /\ ret = "OK" =>
        /\ call = "SetTxFreqs" => \A c \in Carriers : Accounted(c)
        /\ call = "HwSetTxFreqs" => \A c \in Carriers : cache[c] = BaseLevel(c) + dd[c]

\* A correction is kept as soon as it is computed, and the carrier that is
\* levelled first is left alone from then on.
AccountInv ==
    /\ pc \in {"read", "reread"} => acc = 0 \/ dd[cr] = acc
    /\ pc = "adjust" => dd[cr] = acc
    /\ pc \in Levelling /\ cr = 1 => Accounted(2)
    /\ pc \in {"sig1", "sig2"} /\ call = "SetTxFreqs" /\ want = "off" /\ ret = "OK" =>
          \A c \in Carriers : Accounted(c)
    /\ pc = "program" /\ call = "HwSetTxFreqs" /\ cr = 2 => cache[1] = BaseLevel(1) + dd[1]
    /\ pc = "program" => ret = "OK" /\ (call = "SetTxFreqs" => want = "on")
    /\ LevelsAccounted

KeepInv == TypeOK /\ ControlInv /\ CacheInv /\ AccountInv

LEMMA AccountStep == KeepInv /\ [Next]_vars => AccountInv'
<1> SUFFICES ASSUME KeepInv, [Next]_vars PROVE AccountInv'
  OBVIOUS
<1> USE DEF KeepInv, TypeOK, ControlInv, CacheInv, AccountInv, LevelsAccounted, Accounted,
       BaseLevel, Levelling, settings, levels, loop, Carriers
<1>1. ASSUME Request PROVE AccountInv'
  <2>1. CASE CheckTwoSignalROSC
    BY <2>1 DEF CheckTwoSignalROSC, GetReferenceStatus, NoLocals
  <2> QED
    BY <1>1, <2>1 DEF Request, SetMeasBand, SetDutPort, CheckReceiveChannel, SetTxPower,
       SetTxOnOne, SetTxOnBoth, SetTxFreqs, HwSetTxFreqs, NoLocals, MayRoute
<1>2. ASSUME OpenSig1 \/ OpenSig2 PROVE AccountInv'
  BY <1>2 DEF OpenSig1, OpenSig2, AfterTxOn, Return
<1>3. ASSUME Program PROVE AccountInv'
  <2>1. pc = "program" /\ UNCHANGED <<settings, dd, route, call, want, loop, avg, refused>>
    BY <1>3 DEF Program
  <2>2. CASE pc' = "idle" /\ ret' # "OK"
    BY <2>2
  <2>3. ASSUME NEW off \in RealOffsets, NEW ok \in BOOLEAN, ok,
               internal' = [internal EXCEPT ![cr] = off],
               SetFreqPow(cr, 10 * (target[cr] + off) + Carried(cr), ok),
               AfterProgram
        PROVE  AccountInv'
    <3> DEFINE p == 10 * (target[cr] + off) + Carried(cr)
    <3>1. cache' = [cache EXCEPT ![cr] = p]
      BY <2>3 DEF SetFreqPow
    <3>2. call = "HwSetTxFreqs" => p = 10 * (target[cr] + off) + dd[cr]
      BY DEF Carried
    <3> HIDE DEF p
    <3>3. call = "HwSetTxFreqs" => cache'[cr] = 10 * (target[cr] + internal'[cr]) + dd[cr]
      BY <2>3, <3>1, <3>2
    <3>4. \A k \in Carriers : k # cr => cache'[k] = cache[k] /\ internal'[k] = internal[k]
      BY <2>3, <3>1
    <3>5. CASE call = "SetTxFreqs"
      BY <2>1, <2>3, <3>5 DEF AfterProgram
    <3>6. CASE call = "HwSetTxFreqs"
      BY <2>1, <2>3, <3>3, <3>4, <3>6 DEF AfterProgram, Return
    <3> QED
      BY <2>1, <3>5, <3>6
  <2> QED
    BY <1>3, <2>2, <2>3 DEF Program, Return, NoCalibration
<1>4. ASSUME Couple PROVE AccountInv'
  BY <1>4 DEF Couple, SwitchOff
<1>5. ASSUME NEW dev, Judge(dev), pc \in {"read", "reread"},
             UNCHANGED <<settings, internal, cache, call>>
      PROVE AccountInv'
  BY <1>5 DEF Judge, CarrierDone, SwitchOff
<1>6. ASSUME Read \/ Reread PROVE AccountInv'
  BY <1>5, <1>6 DEF Read, Reread, FirstAverage, SwitchOff
<1>7. ASSUME Adjust PROVE AccountInv'
  <2>1. PICK ok \in BOOLEAN :
          /\ SetFreqPow(cr, BaseLevel(cr) + acc, ok)
          /\ IF ok THEN NextRound ELSE SwitchOff("ERROR") /\ cr' = cr
    BY <1>7 DEF Adjust
  <2>2. pc = "adjust" /\ UNCHANGED <<settings, internal, dd, call>>
    BY <1>7 DEF Adjust
  <2>3. CASE ok
    <3>1. cache' = [cache EXCEPT ![cr] = BaseLevel(cr) + acc]
      BY <2>1, <2>3 DEF SetFreqPow
    <3>2. NextRound
      BY <2>1, <2>3
    <3> QED
      BY <2>2, <3>1, <3>2 DEF NextRound, CarrierDone, SwitchOff
  <2>4. CASE ~ok
    BY <2>1, <2>2, <2>4 DEF SwitchOff
  <2> QED
    BY <2>3, <2>4
<1>8. CASE UNCHANGED vars
  BY <1>8 DEF vars
<1> QED
  BY <1>1, <1>2, <1>3, <1>4, <1>6, <1>7, <1>8 DEF Next, Step

\* What the generators acknowledged after a call that succeeded is the request,
\* the calibration of its frequency and the correction kept, for any readings and
\* any history of calls, failed ones and writes carried out late among them.  (The
\* correction kept may be one that an earlier levelling computed: a levelling that
\* needs none leaves it.)
THEOREM SuccessAccounted == Spec => []LevelsAccounted
<1>1. Init => KeepInv
  BY TypeInit, PathInit
     DEF Init, KeepInv, PathInv, CacheInv, AccountInv, LevelsAccounted, Levelling
<1>2. KeepInv /\ [Next]_vars => KeepInv'
  BY TypeStep, ControlStep, CacheStep, AccountStep DEF KeepInv
<1>3. KeepInv => LevelsAccounted
  BY DEF KeepInv, AccountInv
<1> QED
  BY <1>1, <1>2, <1>3, PTL DEF Spec
=============================================================================
