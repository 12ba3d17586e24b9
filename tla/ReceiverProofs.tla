--------------------------- MODULE ReceiverProofs ---------------------------
(* Theorems about Receiver, for all bands, orders, carriers, points and       *)
(* levels, and whichever commands to the analyzer get lost together.          *)
EXTENDS Receiver, TLAPS

-----------------------------------------------------------------------------
(* The analyzer's driver.                                                   *)

Vals == Int \union {"pim", "vco", "tx", "user"}

SA == [kind : Kinds, freq_now : Int, pp : Presets \union {"none"},
       at : [Keys -> Vals], missed : SUBSET Keys]

\* s and t differ in nothing that concerns the setting k.
SameAt(s, t, k) == t.at[k] = s.at[k] /\ (k \in t.missed <=> k \in s.missed)

\* The setting k of t is x, unless its last command was lost.
HasAt(t, k, x) == k \notin t.missed => t.at[k] = x

LEMMA SendFacts ==
    ASSUME NEW s \in SA, NEW K \in SUBSET Keys, NEW v \in [Keys -> Vals],
           NEW L \in SUBSET K, NEW t, t = Send(s, K, v, L)
    PROVE  /\ t \in SA /\ t.kind = s.kind /\ t.freq_now = s.freq_now /\ t.pp = s.pp
           /\ \A k \in K : HasAt(t, k, v[k])
           /\ \A k \in Keys \ K : SameAt(s, t, k)
<1> DEFINE a == [k \in Keys |-> IF k \in K \ L THEN v[k] ELSE s.at[k]]
           m == (s.missed \ K) \union L
<1>1. a \in [Keys -> Vals] /\ m \in SUBSET Keys
  BY DEF SA
<1>2. t = [s EXCEPT !.at = a, !.missed = m]
  BY DEF Send
<1>3. /\ t \in SA /\ t.kind = s.kind /\ t.freq_now = s.freq_now /\ t.pp = s.pp
      /\ t.at = a /\ t.missed = m
  <2> HIDE DEF a, m
  <2> QED
    BY <1>1, <1>2 DEF SA
<1> QED
  BY <1>3 DEF HasAt, SameAt

LEMMA LostFacts == ASSUME NEW K, NEW L \in Lost(K) PROVE L \in SUBSET K
BY DEF Lost

\* InstrSetCenterFreq concerns the centre only.
LEMMA CentreFacts ==
    ASSUME NEW s \in SA, NEW f \in Int, NEW L \in Lost({"centre"}),
           NEW t, t = SetCenterFreq(s, f, L)
    PROVE  /\ t \in SA /\ t.kind = s.kind /\ t.freq_now = s.freq_now /\ t.pp = s.pp
           /\ HasAt(t, "centre", f)
           /\ \A k \in PresetKeys : SameAt(s, t, k)
<1> DEFINE v == [j \in Keys |-> f]
           K == {"centre"}
<1>1. K \in SUBSET Keys /\ "centre" \in K /\ PresetKeys = Keys \ K
  BY DEF Keys, PresetKeys
<1>2. v \in [Keys -> Vals] /\ v["centre"] = f
  BY <1>1 DEF Vals
<1>3. t = Send(s, K, v, L) /\ L \in SUBSET K
  BY LostFacts DEF SetCenterFreq, Write
<1> HIDE DEF v, K
<1>4. /\ t \in SA /\ t.kind = s.kind /\ t.freq_now = s.freq_now /\ t.pp = s.pp
      /\ \A k \in K : HasAt(t, k, v[k])
      /\ \A k \in Keys \ K : SameAt(s, t, k)
  BY <1>1, <1>2, <1>3, SendFacts
<1> QED
  BY <1>1, <1>2, <1>4

\* InstrSetOffset concerns the offset only.
LEMMA OffsetFacts ==
    ASSUME NEW s \in SA, NEW off \in Int, NEW L \in Lost({"offset"}),
           NEW t, t = SetOffset(s, off, L)
    PROVE  /\ t \in SA /\ t.kind = s.kind /\ t.freq_now = s.freq_now /\ t.pp = s.pp
           /\ HasAt(t, "offset", off)
           /\ \A k \in Keys \ {"offset"} : SameAt(s, t, k)
<1> DEFINE v == [j \in Keys |-> off]
           K == {"offset"}
<1>1. K \in SUBSET Keys /\ "offset" \in K /\ Keys \ {"offset"} = Keys \ K
  BY DEF Keys
<1>2. v \in [Keys -> Vals] /\ v["offset"] = off
  BY <1>1 DEF Vals
<1>3. t = Send(s, K, v, L) /\ L \in SUBSET K
  BY LostFacts DEF SetOffset, Write
<1> HIDE DEF v, K
<1>4. /\ t \in SA /\ t.kind = s.kind /\ t.freq_now = s.freq_now /\ t.pp = s.pp
      /\ \A k \in K : HasAt(t, k, v[k])
      /\ \A k \in Keys \ K : SameAt(s, t, k)
  BY <1>1, <1>2, <1>3, SendFacts
<1> QED
  BY <1>1, <1>2, <1>4

LEMMA PresetValueFacts ==
    ASSUME NEW p \in Presets
    PROVE  /\ PresetValue(p) \in [Keys -> Vals]
           /\ PresetValue(p)["offset"] = 0
           /\ PresetValue(p)["range"] = IF p = "tx" THEN "tx" ELSE "pim"
           /\ PresetValue(p)["span"] = p
BY DEF PresetValue, Keys, Vals, Presets

\* Centring for a reading: sent by the driver without a cache, and by the other
\* one when the frequency is new.
LEMMA TuneFacts ==
    ASSUME NEW s \in SA, NEW f \in Int, NEW L \in Lost({"centre"}),
           NEW t, t = Tune(s, f, L)
    PROVE  /\ t \in SA /\ t.kind = s.kind /\ t.pp = s.pp
           /\ t.kind = "Agilent" => t.freq_now = f
           /\ HasAt(t, "centre", f) \/ (s.kind = "Agilent" /\ s.freq_now = f /\ t = s)
           /\ \A k \in PresetKeys : SameAt(s, t, k)
<1>1. CASE s.kind = "Agilent" /\ s.freq_now = f
  BY <1>1 DEF Tune, SameAt
<1>2. CASE ~(s.kind = "Agilent" /\ s.freq_now = f)
  <2> DEFINE c == SetCenterFreq(s, f, L)
  <2>1. /\ c \in SA /\ c.kind = s.kind /\ c.pp = s.pp
        /\ HasAt(c, "centre", f)
        /\ \A k \in PresetKeys : SameAt(s, c, k)
    BY CentreFacts
  <2>2. t = [c EXCEPT !.freq_now = IF s.kind = "Agilent" THEN f ELSE s.freq_now]
    BY <1>2 DEF Tune
  <2> HIDE DEF c
  <2>3. /\ t \in SA /\ t.kind = c.kind /\ t.pp = c.pp /\ t.at = c.at /\ t.missed = c.missed
        /\ t.freq_now = IF s.kind = "Agilent" THEN f ELSE s.freq_now
    BY <2>1, <2>2 DEF SA
  <2> QED
    BY <2>1, <2>3 DEF HasAt, SameAt
<1> QED
  BY <1>1, <1>2

\* A preset that is not skipped puts what it covers in place; the centre and the
\* cached frequency are as before.
LEMMA PresetFacts ==
    ASSUME NEW s \in SA, NEW p \in Presets, NEW L \in Lost(PresetKeys),
           NEW t, t = Preset(s, p, L)
    PROVE  /\ t \in SA /\ t.kind = s.kind /\ t.freq_now = s.freq_now
           /\ SameAt(s, t, "centre")
           /\ t.pp = IF s.kind = "RS" THEN p ELSE s.pp
           /\ \/ s.kind = "RS" /\ s.pp = p /\ t = s
              \/ /\ HasAt(t, "offset", 0) /\ HasAt(t, "span", p)
                 /\ \/ HasAt(t, "range", IF p = "tx" THEN "tx" ELSE "pim")
                    \/ s.kind = "Agilent" /\ p = "vco" /\ SameAt(s, t, "range")
<1>1. CASE s.kind = "RS" /\ s.pp = p
  BY <1>1 DEF Preset, SameAt
<1>2. CASE ~(s.kind = "RS" /\ s.pp = p)
  <2> DEFINE K == Covers(s, p)
             c == Send(s, K, PresetValue(p), L \intersect K)
  <2>1. /\ K \in SUBSET Keys /\ L \intersect K \in SUBSET K
        /\ "offset" \in K /\ "span" \in K /\ "centre" \in Keys \ K
        /\ "range" \in K \/ (s.kind = "Agilent" /\ p = "vco" /\ "range" \in Keys \ K)
    BY DEF Covers, PresetKeys, Keys
  <2>2. PresetValue(p) \in [Keys -> Vals]
    BY PresetValueFacts
  <2> HIDE DEF K
  <2>3. /\ c \in SA /\ c.kind = s.kind /\ c.freq_now = s.freq_now /\ c.pp = s.pp
        /\ \A k \in K : HasAt(c, k, PresetValue(p)[k])
        /\ \A k \in Keys \ K : SameAt(s, c, k)
    BY <2>1, <2>2, SendFacts
  <2>4. t = [c EXCEPT !.pp = IF s.kind = "RS" THEN p ELSE s.pp]
    BY <1>2 DEF Preset, K
  <2> HIDE DEF c
  <2>5. /\ t \in SA /\ t.kind = c.kind /\ t.freq_now = c.freq_now
        /\ t.at = c.at /\ t.missed = c.missed
        /\ t.pp = IF s.kind = "RS" THEN p ELSE s.pp
    BY <2>3, <2>4 DEF SA
  <2>6. /\ HasAt(c, "offset", 0) /\ HasAt(c, "span", p)
        /\ "range" \in K => HasAt(c, "range", IF p = "tx" THEN "tx" ELSE "pim")
        /\ "range" \in Keys \ K => SameAt(s, c, "range")
        /\ SameAt(s, c, "centre")
    BY <2>1, <2>3, PresetValueFacts
  <2> QED
    BY <2>1, <2>3, <2>5, <2>6 DEF HasAt, SameAt
<1> QED
  BY <1>1, <1>2

\* A new driver: the settings for products, no cached frequency.
LEMMA InitFacts ==
    ASSUME NEW s \in SA, NEW kind \in Kinds, NEW L \in Lost(Keys),
           NEW t, t = InstrInit(s, kind, L)
    PROVE  /\ t \in SA /\ t.kind = kind /\ t.freq_now = 0
           /\ kind = "RS" => t.pp = "pim"
           /\ HasAt(t, "range", "pim")
<1> DEFINE v == [PresetValue("pim") EXCEPT !["centre"] = InitCentre]
           c == Send(s, Keys, v, L)
<1>1. "pim" \in Presets /\ "range" \in Keys
  BY DEF Presets, Keys
<1>2. v \in [Keys -> Vals] /\ v["range"] = "pim"
  <2>1. InitCentre \in Vals
    BY DEF InitCentre, Vals
  <2> QED
    BY <1>1, <2>1, PresetValueFacts
<1> HIDE DEF v
<1>3. c \in SA /\ HasAt(c, "range", "pim")
  <2>1. L \in SUBSET Keys /\ Keys \in SUBSET Keys
    BY LostFacts
  <2>2. c \in SA /\ \A k \in Keys : HasAt(c, k, v[k])
    BY <1>2, <2>1, SendFacts
  <2> QED
    BY <1>1, <1>2, <2>2
<1>4. t = [c EXCEPT !.kind = kind, !.freq_now = 0,
                    !.pp = IF kind = "RS" THEN "pim" ELSE "none"]
  BY DEF InstrInit, v
<1> HIDE DEF c
<1>5. /\ t \in SA /\ t.kind = kind /\ t.freq_now = 0 /\ t.at = c.at /\ t.missed = c.missed
      /\ t.pp = IF kind = "RS" THEN "pim" ELSE "none"
  <2> DEFINE q == IF kind = "RS" THEN "pim" ELSE "none"
  <2>1. q \in Presets \union {"none"} /\ 0 \in Int
    BY <1>1
  <2>2. t = [c EXCEPT !.kind = kind, !.freq_now = 0, !.pp = q]
    BY <1>4
  <2> HIDE DEF q
  <2>3. /\ t \in SA /\ t.kind = kind /\ t.freq_now = 0 /\ t.at = c.at
        /\ t.missed = c.missed /\ t.pp = q
    BY <1>3, <2>1, <2>2 DEF SA
  <2> QED
    BY <2>3 DEF q
<1> QED
  BY <1>3, <1>5 DEF HasAt
-----------------------------------------------------------------------------
(* Types.                                                                   *)

AllTones == Tones \union {<<200, 200>>}

SelectionTypes ==
    /\ now_band \in Bands /\ now_dut_port \in DutPorts
    /\ now_order \in UsedOrders /\ tones \in AllTones

RowTypes ==
    /\ rx \in [Paths -> 0 .. Runs] /\ vco \in [Paths -> VcoLevels \union {0}]
    /\ run \in 0 .. Runs

ControlTypes ==
    /\ pc \in Control /\ path \in Paths /\ pt \in DOMAIN RxFreqs
    /\ pending \in BOOLEAN /\ unrestored \in BOOLEAN
    /\ written \in BOOLEAN /\ refused \in BOOLEAN

Types == SelectionTypes /\ RowTypes /\ ControlTypes /\ sa \in SA

LEMMA PimFreqInt ==
    ASSUME NEW b \in Bands, NEW o \in UsedOrders, NEW t \in AllTones
    PROVE  PimFreq(b, o, t) \in Int /\ PimFreq(b, o, t) # 0
<1>1. t \in Int \X Int /\ o \in Int
  BY ReceiveAssumption DEF AllTones, UsedOrders
<1>2. t[1] \in Int /\ t[2] \in Int /\ (o + 1) \div 2 \in Int /\ (o - 1) \div 2 \in Int
  BY <1>1
<1>3. PimFreq(b, o, t) \in Int
  BY <1>2 DEF PimFreq
<1>4. PimFreq(b, o, t) # 0
  BY FrequencyAssumption DEF AllTones
<1> QED
  BY <1>3, <1>4

LEMMA SelectedInt == ASSUME SelectionTypes PROVE Selected \in Int /\ Selected # 0
BY PimFreqInt DEF SelectionTypes, Selected

LEMMA VcoFreqInt == ASSUME NEW p \in Paths PROVE VcoFreq(p) \in Int /\ VcoFreq(p) # 0
<1>1. p[1] \in Bands /\ p[2] \in DutPorts
  BY DEF Paths
<1>2. p[1] \in Nat /\ p[2] \in {0, 1}
  BY <1>1, ReceiveAssumption
<1> QED
  BY <1>2 DEF VcoFreq

LEMMA RxFreqFacts ==
    /\ \A n \in DOMAIN RxFreqs : RxFreqs[n] \in Int /\ RxFreqs[n] # 0
    /\ 1 \in DOMAIN RxFreqs /\ Len(RxFreqs) \in Nat
    /\ \A n \in DOMAIN RxFreqs : n < Len(RxFreqs) => n + 1 \in DOMAIN RxFreqs
BY ReceiveAssumption, FrequencyAssumption

LEMMA PathZero == <<0, 0>> \in Paths
BY ReceiveAssumption DEF Paths

LEMMA SAInit ==
    ASSUME NEW kind \in Kinds
    PROVE  [kind |-> kind, freq_now |-> 0,
            pp |-> IF kind = "RS" THEN "pim" ELSE "none",
            at |-> [PresetValue("pim") EXCEPT !["centre"] = InitCentre],
            missed |-> {}] \in SA
<1>1. [PresetValue("pim") EXCEPT !["centre"] = InitCentre] \in [Keys -> Vals]
  <2>1. InitCentre \in Vals /\ "pim" \in Presets
    BY DEF InitCentre, Vals, Presets
  <2> QED
    BY <2>1, PresetValueFacts
<1>2. (IF kind = "RS" THEN "pim" ELSE "none") \in Presets \union {"none"}
  BY DEF Presets
<1> QED
  BY <1>1, <1>2 DEF SA

LEMMA TypesInit == Init => Types
<1> SUFFICES ASSUME Init PROVE Types
  OBVIOUS
<1>1. SelectionTypes
  BY ReceiveAssumption DEF Init, SelectionTypes, UsedOrders, AllTones
<1>2. RowTypes
  BY ReceiveAssumption DEF Init, RowTypes
<1>3. ControlTypes
  BY PathZero, RxFreqFacts DEF Init, ControlTypes, Control
<1>4. sa \in SA
  BY SAInit DEF Init
<1> QED
  BY <1>1, <1>2, <1>3, <1>4 DEF Types

\* What the steps do to the analyzer: it is left alone or goes through the
\* operators above.
LEMMA VcoDspTyped ==
    ASSUME sa \in SA, NEW p \in Paths, NEW v, VcoDsp(p, v)
    PROVE  sa' \in SA
<1>1. PICK L \in Lost(PresetKeys), N \in Lost(PresetKeys), M \in Lost({"centre"}) :
         sa' = Preset(Tune(Preset(sa, "vco", L), VcoFreq(p), M), "pim", N)
  BY DEF VcoDsp
<1>2. Preset(sa, "vco", L) \in SA
  BY PresetFacts DEF Presets
<1>3. Tune(Preset(sa, "vco", L), VcoFreq(p), M) \in SA
  BY <1>2, VcoFreqInt, TuneFacts
<1> QED
  BY <1>1, <1>3, PresetFacts DEF Presets

LEMMA SATyped == Types /\ [Next]_vars => sa' \in SA
<1> SUFFICES ASSUME Types, [Next]_vars PROVE sa' \in SA
  OBVIOUS
<1> USE DEF Types
<1>0. "pim" \in Presets /\ "tx" \in Presets /\ sa \in SA
  BY DEF Presets
<1>1. ASSUME sa' = sa PROVE sa' \in SA
  BY <1>1
<1>2. ASSUME NEW t \in Tones, SetTxFreqs(t) PROVE sa' \in SA
  <2>1. PimFreq(now_band, now_order, t) \in Int
    BY PimFreqInt DEF SelectionTypes, AllTones
  <2> QED
    BY <1>2, <2>1, CentreFacts DEF SetTxFreqs
<1>3. CASE SetSpan
  <2>1. PICK L \in Lost({"span"}) : sa' = Send(sa, {"span"}, [j \in Keys |-> "user"], L)
    BY <1>3 DEF SetSpan, Write
  <2>2. [j \in Keys |-> "user"] \in [Keys -> Vals] /\ {"span"} \in SUBSET Keys
    BY DEF Vals, Keys
  <2>3. L \in SUBSET {"span"}
    BY LostFacts
  <2> QED
    BY <2>1, <2>2, <2>3, SendFacts
<1>4. ASSUME NEW kind \in Kinds, ConnAna(kind) PROVE sa' \in SA
  BY <1>4, InitFacts DEF ConnAna
<1>5. CASE GetImResult
  <2>1. PICK found \in BOOLEAN, L \in Lost({"offset"}), M \in Lost({"centre"}) :
           sa' = Tune(SetOffset(sa, IF found THEN rx[<<now_band, now_dut_port>>] ELSE 0, L),
                      Selected, M)
    BY <1>5 DEF GetImResult
  <2> DEFINE off == IF found THEN rx[<<now_band, now_dut_port>>] ELSE 0
  <2>2. off \in Int
    BY ReceiveAssumption DEF RowTypes, SelectionTypes, Paths
  <2> HIDE DEF off
  <2>3. SetOffset(sa, off, L) \in SA
    BY <2>2, OffsetFacts
  <2> QED
    BY <2>1, <2>3, SelectedInt, TuneFacts DEF off
<1>6. CASE GetVco
  BY <1>6, VcoDspTyped DEF GetVco, Check, SelectionTypes, Paths
<1>7. ASSUME NEW b \in Bands, NEW p \in DutPorts, CheckReceiveChannel(b, p) PROVE sa' \in SA
  BY <1>1, <1>7, VcoDspTyped DEF CheckReceiveChannel, Check, Paths
<1>8. CASE SetOffsetTx
  <2>1. \A L \in Lost(PresetKeys) : Preset(sa, "tx", L) \in SA
    BY <1>0, PresetFacts
  <2>2. \A L \in Lost(PresetKeys), f \in TxFreqs, M \in Lost({"centre"}) :
           Tune(Preset(sa, "tx", L), f, M) \in SA
    BY <2>1, TuneFacts, ReceiveAssumption
  <2>3. \A L, N \in Lost(PresetKeys), f \in TxFreqs, M \in Lost({"centre"}) :
           Preset(Tune(Preset(sa, "tx", L), f, M), "pim", N) \in SA
    BY <1>0, <2>2, PresetFacts
  <2> QED
    BY <1>8, <1>1, <2>1, <2>2, <2>3 DEF SetOffsetTx
<1>9. ASSUME NEW p \in Paths, RxBegin(p) PROVE sa' \in SA
  BY <1>0, <1>9, PresetFacts DEF RxBegin
<1>10. CASE RxVco
  BY <1>10, VcoDspTyped DEF RxVco, ControlTypes
<1>11. CASE RxCentre
  BY <1>11, RxFreqFacts, CentreFacts DEF RxCentre
<1>12. CASE RxPoint
  BY <1>12, RxFreqFacts, TuneFacts DEF RxPoint, ControlTypes
<1>13. CASE \/ \E b \in Bands : SetMeasBand(b)
            \/ \E p \in DutPorts : SetDutPort(p)
            \/ \E o \in Orders : SetImOrder(o)
            \/ CheckReference \/ RxOn \/ RxSet \/ RxOff \/ UNCHANGED vars
  BY <1>13, <1>1
     DEF SetMeasBand, SetDutPort, SetImOrder, Select, CheckReference, RxOn, RxSet, RxOff,
         vars
<1> QED
  BY <1>2, <1>3, <1>4, <1>5, <1>6, <1>7, <1>8, <1>9, <1>10, <1>11, <1>12, <1>13 DEF Next

LEMMA TypesStep == Types /\ [Next]_vars => Types'
<1> SUFFICES ASSUME Types, [Next]_vars PROVE Types'
  OBVIOUS
<1> USE DEF Types
<1>1. sa' \in SA
  BY SATyped
<1>2. SelectionTypes'
  <2> USE DEF SelectionTypes
  <2>1. ASSUME NEW b \in Bands, SetMeasBand(b) PROVE SelectionTypes'
    BY <2>1 DEF SetMeasBand
  <2>2. ASSUME NEW p \in DutPorts, SetDutPort(p) PROVE SelectionTypes'
    BY <2>2 DEF SetDutPort
  <2>3. ASSUME NEW o \in Orders, SetImOrder(o) PROVE SelectionTypes'
    BY <2>3 DEF SetImOrder
  <2>4. ASSUME NEW t \in Tones, SetTxFreqs(t) PROVE SelectionTypes'
    BY <2>4 DEF SetTxFreqs, AllTones
  <2>5. ASSUME NEW b \in Bands, NEW p \in DutPorts, CheckReceiveChannel(b, p)
        PROVE  SelectionTypes'
    BY <2>5 DEF CheckReceiveChannel
  <2>6. CASE UNCHANGED selection
    BY <2>6 DEF selection
  <2> QED
    BY <2>1, <2>2, <2>3, <2>4, <2>5, <2>6
       DEF Next, vars, selection, SetSpan, ConnAna, CheckReference, GetImResult, GetVco,
           SetOffsetTx, RxBegin, RxOn, RxVco, RxCentre, RxSet, RxPoint, RxOff
<1>3. RowTypes'
  <2>1. ASSUME NEW p \in Paths, RxBegin(p) PROVE RowTypes'
    BY <2>1, ReceiveAssumption DEF RxBegin, RowTypes
  <2>2. CASE RxVco
    BY <2>2 DEF RxVco, RowTypes
  <2>3. CASE RxOff
    BY <2>3 DEF RxOff, RowTypes
  <2>4. CASE UNCHANGED rows
    BY <2>4 DEF RowTypes, rows
  <2> QED
    BY <2>1, <2>2, <2>3, <2>4
       DEF Next, vars, rows, Select, SetMeasBand, SetDutPort, SetImOrder, SetTxFreqs,
           SetSpan, ConnAna, CheckReference, GetImResult, GetVco, CheckReceiveChannel,
           SetOffsetTx, RxOn, RxCentre, RxSet, RxPoint
<1>4. ControlTypes'
  <2> USE DEF ControlTypes, Control, calibration
  <2>1. ASSUME NEW p \in Paths, RxBegin(p) PROVE ControlTypes'
    BY <2>1, RxFreqFacts DEF RxBegin, Guarded
  <2>2. CASE RxOn \/ RxVco \/ RxCentre
    BY <2>2 DEF RxOn, RxVco, RxCentre
  <2>3. CASE RxSet
    BY <2>3 DEF RxSet, Guarded
  <2>4. CASE RxPoint
    BY <2>4, RxFreqFacts DEF RxPoint
  <2>5. CASE RxOff
    BY <2>5, RxFreqFacts, PathZero DEF RxOff
  <2>6. CASE UNCHANGED vars
    BY <2>6 DEF vars
  <2>7. CASE \/ \E b \in Bands : SetMeasBand(b)
             \/ \E p \in DutPorts : SetDutPort(p)
             \/ \E o \in Orders : SetImOrder(o)
             \/ \E t \in Tones : SetTxFreqs(t)
             \/ SetSpan
             \/ \E kind \in Kinds : ConnAna(kind)
             \/ CheckReference \/ GetImResult
    BY <2>7 DEF Select, SetMeasBand, SetDutPort, SetImOrder, SetTxFreqs, SetSpan,
                ConnAna, CheckReference, GetImResult
  <2>8. CASE GetVco \/ \E b \in Bands, p \in DutPorts : CheckReceiveChannel(b, p)
    BY <2>8 DEF GetVco, CheckReceiveChannel, Check
  <2>9. CASE SetOffsetTx
    BY <2>9 DEF SetOffsetTx
  <2> QED
    BY <2>1, <2>2, <2>3, <2>4, <2>5, <2>6, <2>7, <2>8, <2>9 DEF Next
<1> QED
  BY <1>1, <1>2, <1>3, <1>4

\* Every variable keeps its type; the order is one of those let through.
THEOREM ReceiverTypeCorrect == Spec => []TypeOK
<1>1. Types => TypeOK
  BY ReceiveAssumption
     DEF Types, SelectionTypes, RowTypes, ControlTypes, TypeOK, AllTones, SA
<1> QED
  BY <1>1, TypesInit, TypesStep, PTL DEF Spec

-----------------------------------------------------------------------------
(* The settings under a reading.                                            *)

\* The preset the Rohde & Schwarz driver remembers is never that of the VCO.
PresetInv == sa.kind = "RS" => sa.pp \in {"pim", "tx"}

\* The range for products is in place unless a transmit calibration failed; the
\* driver that skips presets skips this one only when it is.
RangeInv == ~unrestored \/ (sa.kind = "RS" /\ sa.pp = "pim") => HasAt(sa, "range", "pim")

\* After its VCO reading a receive calibration has no offset set.
OffsetInv == pc \in {"centre", "set", "point"} => HasAt(sa, "offset", 0)

\* The frequency a driver has cached is the centre, but for the product that
\* fnSetTxFreqs has just programmed and the first point of a receive calibration.
Centred == Orderly /\ sa.kind = "Agilent" /\ sa.freq_now # 0
               => HasAt(sa, "centre", sa.freq_now)
CentreInv ==
    \/ Centred
    \/ pending /\ HasAt(sa, "centre", Selected)
    \/ pc \in {"set", "point"} /\ pt = 1 /\ HasAt(sa, "centre", RxFreqs[1])

\* The client reads what it programmed before it calls anything else, and a
\* receive calibration starts with its first point.
OrderInv ==
    /\ Orderly /\ pending => pc = "idle"
    /\ pc \in {"on", "vco", "centre"} => pt = 1

AnalyzerInv == PresetInv /\ RangeInv /\ OffsetInv /\ CentreInv /\ OrderInv
ReadsRight == ReadsWhereAsked /\ OffsetFits /\ SettingsFit

LEMMA CallCentred == CentreInv /\ MayCall => Centred
BY DEF CentreInv, Centred, MayCall

LEMMA NoReadRight == read' = NoRead => ReadsRight'
BY DEF NoRead, ReadsRight, ReadsWhereAsked, OffsetFits, SettingsFit

LEMMA AnalyzerInit == Init => AnalyzerInv /\ ReadsRight
<1> SUFFICES ASSUME Init PROVE AnalyzerInv /\ ReadsRight
  OBVIOUS
<1>1. PICK kind \in Kinds :
         sa = [kind |-> kind, freq_now |-> 0,
               pp |-> IF kind = "RS" THEN "pim" ELSE "none",
               at |-> [PresetValue("pim") EXCEPT !["centre"] = InitCentre],
               missed |-> {}]
  BY DEF Init
<1>2. sa.at["range"] = "pim"
  <2>1. "pim" \in Presets /\ "range" \in Keys
    BY DEF Presets, Keys
  <2> QED
    BY <1>1, <2>1, PresetValueFacts
<1>3. PresetInv /\ RangeInv /\ CentreInv
  BY <1>1, <1>2 DEF PresetInv, RangeInv, CentreInv, Centred, HasAt
<1>4. OffsetInv /\ OrderInv
  BY DEF Init, OffsetInv, OrderInv
<1>5. ReadsRight
  BY DEF Init, NoRead, ReadsRight, ReadsWhereAsked, OffsetFits, SettingsFit
<1> QED
  BY <1>3, <1>4, <1>5 DEF AnalyzerInv

\* Everything the VCO reading does, when the frequency the driver has cached is
\* where the analyzer is.
LEMMA VcoDspFacts ==
    ASSUME sa \in SA, PresetInv, NEW p \in Paths, NEW v, VcoDsp(p, v)
    PROVE  /\ sa'.kind = sa.kind
           /\ sa'.kind = "RS" => sa'.pp = "pim"
           /\ HasAt(sa', "offset", 0) /\ HasAt(sa', "range", "pim")
           /\ sa.kind = "Agilent" => sa'.freq_now = VcoFreq(p)
           /\ read'.what = "vco" /\ read'.want = VcoFreq(p) /\ read'.offset = 0
           /\ read'.value = v
           /\ HasAt(read', "offset", 0) /\ HasAt(read', "span", "vco")
           /\ \/ sa.kind = "Agilent" /\ sa.freq_now = VcoFreq(p)
                    /\ SameAt(sa, read', "centre") /\ SameAt(sa, sa', "centre")
              \/ HasAt(read', "centre", VcoFreq(p)) /\ HasAt(sa', "centre", VcoFreq(p))
<1> DEFINE f == VcoFreq(p)
<1>1. PICK L \in Lost(PresetKeys), N \in Lost(PresetKeys), M \in Lost({"centre"}) :
         LET s == Tune(Preset(sa, "vco", L), f, M)
         IN sa' = Preset(s, "pim", N) /\ read' = Reading("vco", f, 0, v, s)
  BY DEF VcoDsp
<1> DEFINE q == Preset(sa, "vco", L)
           s == Tune(q, f, M)
<1>2. /\ q \in SA /\ q.kind = sa.kind /\ q.freq_now = sa.freq_now
      /\ q.kind = "RS" => q.pp = "vco"
      /\ SameAt(sa, q, "centre")
      /\ HasAt(q, "offset", 0) /\ HasAt(q, "span", "vco")
  <2>1. "vco" \in Presets /\ ~(sa.kind = "RS" /\ sa.pp = "vco")
    BY DEF Presets, PresetInv
  <2> HIDE DEF f
  <2> QED
    BY <2>1, PresetFacts
<1>3. "offset" \in PresetKeys /\ "span" \in PresetKeys /\ f \in Int
  BY VcoFreqInt DEF PresetKeys, Keys
<1>4. sa' = Preset(s, "pim", N) /\ read' = Reading("vco", f, 0, v, s)
  BY <1>1
<1> HIDE DEF q, f
<1>5. /\ s \in SA /\ s.kind = q.kind /\ s.pp = q.pp
      /\ s.kind = "Agilent" => s.freq_now = f
      /\ HasAt(s, "centre", f) \/ (q.kind = "Agilent" /\ q.freq_now = f /\ s = q)
      /\ SameAt(q, s, "offset") /\ SameAt(q, s, "span")
  BY <1>2, <1>3, TuneFacts
<1> HIDE DEF s
<1>6. /\ sa'.kind = s.kind /\ sa'.freq_now = s.freq_now /\ SameAt(s, sa', "centre")
      /\ s.kind = "RS" => sa'.pp = "pim"
      /\ HasAt(sa', "offset", 0) /\ HasAt(sa', "range", "pim")
  <2>1. ~(s.kind = "RS" /\ s.pp = "pim")
    BY <1>2, <1>5
  <2>2. "pim" \in Presets
    BY DEF Presets
  <2> QED
    BY <1>4, <1>5, <2>1, <2>2, PresetFacts
<1>7. /\ read'.what = "vco" /\ read'.want = f /\ read'.offset = 0 /\ read'.value = v
      /\ read'.at = s.at /\ read'.missed = s.missed
  BY <1>4 DEF Reading
<1>8. HasAt(read', "offset", 0) /\ HasAt(read', "span", "vco")
  BY <1>2, <1>5, <1>7 DEF HasAt, SameAt
<1>9. \/ sa.kind = "Agilent" /\ sa.freq_now = f
            /\ SameAt(sa, read', "centre") /\ SameAt(sa, sa', "centre")
      \/ HasAt(read', "centre", f) /\ HasAt(sa', "centre", f)
  BY <1>2, <1>5, <1>6, <1>7 DEF HasAt, SameAt
<1> QED
  BY <1>2, <1>5, <1>6, <1>7, <1>8, <1>9 DEF f

\* The VCO reading, from a state where the cached frequency is the centre.
LEMMA VcoReadRight ==
    ASSUME sa \in SA, PresetInv, Centred, NEW p \in Paths, NEW v, VcoDsp(p, v)
    PROVE  PresetInv' /\ RangeInv' /\ HasAt(sa', "offset", 0) /\ Centred' /\ ReadsRight'
<1> DEFINE f == VcoFreq(p)
<1>1. /\ sa'.kind = sa.kind
      /\ sa'.kind = "RS" => sa'.pp = "pim"
      /\ HasAt(sa', "offset", 0) /\ HasAt(sa', "range", "pim")
      /\ sa.kind = "Agilent" => sa'.freq_now = f
      /\ read'.what = "vco" /\ read'.want = f /\ read'.offset = 0
      /\ HasAt(read', "offset", 0) /\ HasAt(read', "span", "vco")
      /\ \/ sa.kind = "Agilent" /\ sa.freq_now = f
               /\ SameAt(sa, read', "centre") /\ SameAt(sa, sa', "centre")
         \/ HasAt(read', "centre", f) /\ HasAt(sa', "centre", f)
  BY VcoDspFacts
<1>2. f \in Int /\ f # 0
  BY VcoFreqInt
<1> HIDE DEF f
<1>3. Orderly \/ sa.kind = "RS" => HasAt(read', "centre", f) /\ HasAt(sa', "centre", f)
  BY <1>1, <1>2 DEF Centred, HasAt, SameAt
<1>4. PresetInv' /\ RangeInv' /\ Centred'
  BY <1>1, <1>3 DEF PresetInv, RangeInv, Centred, HasAt
<1>5. ReadsRight'
  BY <1>1, <1>3 DEF ReadsRight, ReadsWhereAsked, OffsetFits, SettingsFit, HasAt
<1> QED
  BY <1>1, <1>4, <1>5

\* A product is programmed, or the transmit part failed.
LEMMA SetTxFreqsRight ==
    ASSUME Types, AnalyzerInv, NEW t \in Tones, SetTxFreqs(t)
    PROVE  AnalyzerInv' /\ ReadsRight'
<1> USE DEF Types, AnalyzerInv
<1>1. pc' = pc /\ pc = "idle" /\ unrestored' = unrestored /\ pt' = pt /\ read' = NoRead
  BY DEF SetTxFreqs, MayCall, calibration
<1>2. CASE UNCHANGED <<sa, pending>>
  <2>1. Centred'
    BY <1>2, CallCentred DEF SetTxFreqs, Centred
  <2> QED
    BY <1>1, <1>2, <2>1, NoReadRight DEF PresetInv, RangeInv, OffsetInv, OrderInv, CentreInv
<1>3. CASE pending' = TRUE /\ \E L \in Lost({"centre"}) :
                sa' = SetCenterFreq(sa, PimFreq(now_band, now_order, t), L)
  <2>1. PimFreq(now_band, now_order, t) = Selected'
    BY DEF SetTxFreqs, Selected
  <2>2. PimFreq(now_band, now_order, t) \in Int
    BY PimFreqInt DEF SelectionTypes, AllTones
  <2>3. "range" \in PresetKeys
    BY DEF PresetKeys, Keys
  <2>4. /\ sa'.kind = sa.kind /\ sa'.pp = sa.pp /\ HasAt(sa', "centre", Selected')
        /\ SameAt(sa, sa', "range")
    BY <1>3, <2>1, <2>2, <2>3, CentreFacts
  <2>5. PresetInv' /\ RangeInv'
    BY <1>1, <2>4 DEF PresetInv, RangeInv, HasAt, SameAt
  <2>6. CentreInv'
    BY <1>3, <2>4 DEF CentreInv
  <2> QED
    BY <1>1, <2>5, <2>6, NoReadRight DEF OffsetInv, OrderInv
<1> QED
  BY <1>2, <1>3 DEF SetTxFreqs

\* A product is read.
LEMMA GetImResultRight ==
    ASSUME Types, AnalyzerInv, GetImResult
    PROVE  AnalyzerInv' /\ ReadsRight'
<1> USE DEF Types, AnalyzerInv
<1>1. PICK found \in BOOLEAN, ok \in BOOLEAN, L \in Lost({"offset"}), M \in Lost({"centre"}) :
          LET off == IF found THEN rx[<<now_band, now_dut_port>>] ELSE 0
              s == Tune(SetOffset(sa, off, L), Selected, M)
          IN /\ sa' = s
             /\ read' = IF ok THEN Reading("pim", Selected, off, 0, s) ELSE NoRead
  BY DEF GetImResult
<1> DEFINE off == IF found THEN rx[<<now_band, now_dut_port>>] ELSE 0
           o == SetOffset(sa, off, L)
<1>2. off \in Int
  BY ReceiveAssumption DEF RowTypes, SelectionTypes, Paths
<1>3. /\ pc = "idle" /\ pc' = pc /\ pt' = pt /\ unrestored' = unrestored
      /\ pending' = FALSE /\ Selected' = Selected
  BY DEF GetImResult, calibration, selection, Selected
<1>4. sa' = Tune(o, Selected, M)
      /\ read' = IF ok THEN Reading("pim", Selected, off, 0, sa') ELSE NoRead
  BY <1>1
<1> HIDE DEF off
<1>5. /\ o \in SA /\ o.kind = sa.kind /\ o.freq_now = sa.freq_now /\ o.pp = sa.pp
      /\ HasAt(o, "offset", off) /\ SameAt(sa, o, "centre") /\ SameAt(sa, o, "range")
  <2>1. {"centre", "range"} \subseteq Keys \ {"offset"}
    BY DEF Keys
  <2> QED
    BY <1>2, <2>1, OffsetFacts
<1> HIDE DEF o
<1>6. /\ sa'.kind = o.kind /\ sa'.pp = o.pp
      /\ sa'.kind = "Agilent" => sa'.freq_now = Selected
      /\ HasAt(sa', "centre", Selected)
            \/ (o.kind = "Agilent" /\ o.freq_now = Selected /\ sa' = o)
      /\ SameAt(o, sa', "offset") /\ SameAt(o, sa', "range")
  <2>1. {"offset", "range"} \subseteq PresetKeys
    BY DEF PresetKeys, Keys
  <2> QED
    BY <1>4, <1>5, <2>1, SelectedInt, TuneFacts
<1>7. HasAt(sa', "offset", off) /\ (HasAt(sa, "range", "pim") => HasAt(sa', "range", "pim"))
  BY <1>5, <1>6 DEF HasAt, SameAt
<1>8. Orderly \/ sa.kind = "RS" => HasAt(sa', "centre", Selected)
  BY <1>3, <1>5, <1>6, SelectedInt DEF CentreInv, Centred, HasAt, SameAt
<1>9. AnalyzerInv'
  BY <1>3, <1>5, <1>6, <1>7, <1>8
     DEF PresetInv, RangeInv, OffsetInv, OrderInv, CentreInv, Centred
<1>10. ReadsRight'
  <2>1. CASE ok
    <3>1. /\ read'.what = "pim" /\ read'.want = Selected /\ read'.offset = off
          /\ read'.at = sa'.at /\ read'.missed = sa'.missed /\ read'.clean = ~unrestored
      BY <1>4, <2>1 DEF Reading
    <3> QED
      BY <1>5, <1>6, <1>7, <1>8, <3>1
         DEF ReadsRight, ReadsWhereAsked, OffsetFits, SettingsFit, HasAt, RangeInv
  <2>2. CASE ~ok
    BY <1>4, <2>2, NoReadRight
  <2> QED
    BY <2>1, <2>2
<1> QED
  BY <1>9, <1>10

\* Presets for the transmit calibration and back.
LEMMA SetOffsetTxRight ==
    ASSUME Types, AnalyzerInv, SetOffsetTx
    PROVE  AnalyzerInv' /\ ReadsRight'
<1> USE DEF Types, AnalyzerInv
<1>1. /\ pc = "idle" /\ pc' = pc /\ pt' = pt /\ pending' = pending /\ read' = NoRead
      /\ Centred
  BY CallCentred DEF SetOffsetTx, calibration, MayCall
<1>2. "tx" \in Presets /\ "pim" \in Presets
  BY DEF Presets
<1>3. CASE UNCHANGED <<sa, unrestored>>
  BY <1>1, <1>3, NoReadRight
     DEF PresetInv, RangeInv, OffsetInv, OrderInv, CentreInv, Centred
<1>4. ASSUME NEW L \in Lost(PresetKeys), sa' = Preset(sa, "tx", L), unrestored' = TRUE
      PROVE  AnalyzerInv' /\ ReadsRight'
  <2>1. /\ sa'.kind = sa.kind /\ sa'.freq_now = sa.freq_now /\ SameAt(sa, sa', "centre")
        /\ sa'.pp = IF sa.kind = "RS" THEN "tx" ELSE sa.pp
    BY <1>2, <1>4, PresetFacts
  <2> QED
    BY <1>1, <1>4, <2>1, NoReadRight
       DEF PresetInv, RangeInv, OffsetInv, OrderInv, CentreInv, Centred, HasAt, SameAt
<1>5. ASSUME NEW f \in TxFreqs, NEW L \in Lost(PresetKeys), NEW M \in Lost({"centre"}),
             NEW s, s = Tune(Preset(sa, "tx", L), f, M)
      PROVE  /\ s \in SA /\ s.kind = sa.kind
             /\ s.kind = "RS" => s.pp = "tx"
             /\ s.kind = "Agilent" /\ Orderly /\ s.freq_now # 0 => HasAt(s, "centre", s.freq_now)
  <2> DEFINE q == Preset(sa, "tx", L)
  <2>1. /\ q \in SA /\ q.kind = sa.kind /\ q.freq_now = sa.freq_now /\ SameAt(sa, q, "centre")
        /\ q.kind = "RS" => q.pp = "tx"
    BY <1>2, PresetFacts
  <2> HIDE DEF q
  <2>2. /\ s \in SA /\ s.kind = q.kind /\ s.pp = q.pp
        /\ s.kind = "Agilent" => s.freq_now = f
        /\ HasAt(s, "centre", f) \/ (q.kind = "Agilent" /\ q.freq_now = f /\ s = q)
    <3>1. f \in Int
      BY ReceiveAssumption
    <3> QED
      BY <1>5, <2>1, <3>1, TuneFacts DEF q
  <2> QED
    BY <1>1, <2>1, <2>2 DEF Centred, HasAt, SameAt
<1>6. ASSUME NEW f \in TxFreqs, NEW L \in Lost(PresetKeys), NEW M \in Lost({"centre"}),
             sa' = Tune(Preset(sa, "tx", L), f, M), unrestored' = TRUE
      PROVE  AnalyzerInv' /\ ReadsRight'
  <2>1. /\ sa'.kind = "RS" => sa'.pp = "tx"
        /\ sa'.kind = "Agilent" /\ Orderly /\ sa'.freq_now # 0
              => HasAt(sa', "centre", sa'.freq_now)
    BY <1>5, <1>6
  <2> QED
    BY <1>1, <1>6, <2>1, NoReadRight
       DEF PresetInv, RangeInv, OffsetInv, OrderInv, CentreInv, Centred
<1>7. ASSUME NEW f \in TxFreqs, NEW L \in Lost(PresetKeys), NEW M \in Lost({"centre"}),
             NEW N \in Lost(PresetKeys),
             sa' = Preset(Tune(Preset(sa, "tx", L), f, M), "pim", N)
      PROVE  AnalyzerInv' /\ ReadsRight'
  <2> DEFINE s == Tune(Preset(sa, "tx", L), f, M)
  <2>1. /\ s \in SA
        /\ s.kind = "RS" => s.pp = "tx"
        /\ s.kind = "Agilent" /\ Orderly /\ s.freq_now # 0 => HasAt(s, "centre", s.freq_now)
    BY <1>5
  <2>2. sa' = Preset(s, "pim", N)
    BY <1>7
  <2> HIDE DEF s
  <2>3. /\ sa'.kind = s.kind /\ sa'.freq_now = s.freq_now /\ SameAt(s, sa', "centre")
        /\ sa'.kind = "RS" => sa'.pp = "pim"
        /\ HasAt(sa', "range", "pim")
    BY <1>2, <2>1, <2>2, PresetFacts
  <2> QED
    BY <1>1, <2>1, <2>3, NoReadRight
       DEF PresetInv, RangeInv, OffsetInv, OrderInv, CentreInv, Centred, HasAt, SameAt
<1> QED
  BY <1>3, <1>4, <1>6, <1>7 DEF SetOffsetTx

\* A receive calibration starts: the preset may be skipped.
LEMMA RxBeginRight ==
    ASSUME Types, AnalyzerInv, NEW p \in Paths, RxBegin(p)
    PROVE  AnalyzerInv' /\ ReadsRight'
<1> USE DEF Types, AnalyzerInv
<1>1. /\ pc' = "on" /\ pt' = 1 /\ pending' = pending /\ read' = NoRead
      /\ Centred /\ (Orderly => ~pending)
  BY CallCentred DEF RxBegin, MayCall
<1>2. PICK L \in Lost(PresetKeys) : sa' = Preset(sa, "pim", L)
  BY DEF RxBegin
<1>3. "pim" \in Presets
  BY DEF Presets
<1>4. /\ sa'.kind = sa.kind /\ sa'.freq_now = sa.freq_now /\ SameAt(sa, sa', "centre")
      /\ sa'.pp = IF sa.kind = "RS" THEN "pim" ELSE sa.pp
      /\ HasAt(sa', "range", "pim") \/ (sa.kind = "RS" /\ sa.pp = "pim" /\ sa' = sa)
  BY <1>2, <1>3, PresetFacts
<1>5. HasAt(sa', "range", "pim")
  BY <1>4 DEF RangeInv
<1> QED
  BY <1>1, <1>4, <1>5, NoReadRight
     DEF PresetInv, RangeInv, OffsetInv, OrderInv, CentreInv, Centred, HasAt, SameAt

\* A point of the receive calibration is read.
LEMMA RxPointRight ==
    ASSUME Types, AnalyzerInv, RxPoint
    PROVE  AnalyzerInv' /\ ReadsRight'
<1> USE DEF Types, AnalyzerInv
<1> DEFINE f == RxFreqs[pt]
<1>1. PICK M \in Lost({"centre"}) :
         /\ sa' = Tune(sa, f, M)
         /\ read' = NoRead \/ read' = Reading("rx", f, 0, 0, sa')
  BY DEF RxPoint
<1>2. f \in Int /\ f # 0 /\ pc = "point" /\ pc' \in {"off", "set"} /\ (pc' = "set" => pt' # 1)
      /\ pending' = pending /\ unrestored' = unrestored /\ (Orderly => ~pending)
  BY RxFreqFacts DEF RxPoint, ControlTypes, OrderInv
<1>3. pt = 1 => f = RxFreqs[1]
  OBVIOUS
<1> HIDE DEF f
<1>4. /\ sa'.kind = sa.kind /\ sa'.pp = sa.pp
      /\ sa'.kind = "Agilent" => sa'.freq_now = f
      /\ HasAt(sa', "centre", f) \/ (sa.kind = "Agilent" /\ sa.freq_now = f /\ sa' = sa)
      /\ SameAt(sa, sa', "offset") /\ SameAt(sa, sa', "range")
  <2>1. {"offset", "range"} \subseteq PresetKeys
    BY DEF PresetKeys, Keys
  <2> QED
    BY <1>1, <1>2, <2>1, TuneFacts
<1>5. HasAt(sa', "offset", 0) /\ (HasAt(sa, "range", "pim") => HasAt(sa', "range", "pim"))
  BY <1>2, <1>4 DEF OffsetInv, HasAt, SameAt
<1>6. Orderly \/ sa.kind = "RS" => HasAt(sa', "centre", f)
  BY <1>2, <1>3, <1>4 DEF CentreInv, Centred, HasAt, SameAt
<1>7. AnalyzerInv'
  BY <1>2, <1>4, <1>5, <1>6
     DEF PresetInv, RangeInv, OffsetInv, OrderInv, CentreInv, Centred
<1>8. ReadsRight'
  <2>1. CASE read' = Reading("rx", f, 0, 0, sa')
    <3>1. /\ read'.what = "rx" /\ read'.want = f /\ read'.offset = 0
          /\ read'.at = sa'.at /\ read'.missed = sa'.missed /\ read'.clean = ~unrestored
      BY <2>1 DEF Reading
    <3> QED
      BY <1>4, <1>5, <1>6, <3>1
         DEF ReadsRight, ReadsWhereAsked, OffsetFits, SettingsFit, HasAt, RangeInv
  <2> QED
    BY <1>1, <2>1, NoReadRight
<1> QED
  BY <1>7, <1>8

\* The VCO is checked for a call.
LEMMA CheckRight ==
    ASSUME Types, AnalyzerInv, MayCall, NEW p \in Paths, Check(p),
           pc' = pc, pt' = pt, pending' = pending
    PROVE  AnalyzerInv' /\ ReadsRight'
<1> USE DEF Types, AnalyzerInv
<1>1. PICK v \in VcoLevels : VcoDsp(p, v)
  BY DEF Check
<1>2. PresetInv' /\ RangeInv' /\ HasAt(sa', "offset", 0) /\ Centred' /\ ReadsRight'
  BY <1>1, CallCentred, VcoReadRight
<1> QED
  BY <1>2 DEF OffsetInv, OrderInv, CentreInv

\* What keeps the analyzer and the calibration, for a call or inside one.
LEMMA CallKeeps ==
    ASSUME AnalyzerInv, MayCall, read' = NoRead,
           UNCHANGED <<sa, pc, pt, pending, unrestored>>
    PROVE  AnalyzerInv' /\ ReadsRight'
<1>1. Centred'
  BY CallCentred DEF Centred, AnalyzerInv
<1> QED
  BY <1>1, NoReadRight DEF AnalyzerInv, PresetInv, RangeInv, OffsetInv, OrderInv, CentreInv

LEMMA AnalyzerStep ==
    Types /\ AnalyzerInv /\ ReadsRight /\ [Next]_vars => AnalyzerInv' /\ ReadsRight'
<1> SUFFICES ASSUME Types, AnalyzerInv, ReadsRight, [Next]_vars
             PROVE  AnalyzerInv' /\ ReadsRight'
  OBVIOUS
<1>1. CASE \/ \E b \in Bands : SetMeasBand(b)
           \/ \E p \in DutPorts : SetDutPort(p)
           \/ \E o \in Orders : SetImOrder(o)
           \/ CheckReference
  BY <1>1, CallKeeps
     DEF SetMeasBand, SetDutPort, SetImOrder, Select, CheckReference, calibration
<1>2. ASSUME NEW t \in Tones, SetTxFreqs(t) PROVE AnalyzerInv' /\ ReadsRight'
  BY <1>2, SetTxFreqsRight
<1>3. CASE SetSpan
  <2> DEFINE w == [j \in Keys |-> "user"]
             K == {"span"}
  <2>1. PICK L \in Lost(K) : sa' = Send(sa, K, w, L)
    BY <1>3 DEF SetSpan, Write
  <2>2. w \in [Keys -> Vals] /\ K \in SUBSET Keys
    BY DEF Vals, Keys
  <2>3. "range" \in Keys \ K /\ "centre" \in Keys \ K
    BY DEF Keys
  <2>4. sa \in SA /\ L \in SUBSET K
    BY LostFacts DEF Types
  <2> HIDE DEF w, K
  <2>5. /\ sa'.kind = sa.kind /\ sa'.freq_now = sa.freq_now /\ sa'.pp = sa.pp
        /\ SameAt(sa, sa', "range") /\ SameAt(sa, sa', "centre")
    BY <2>1, <2>2, <2>3, <2>4, SendFacts
  <2>6. /\ pc = "idle" /\ pc' = pc /\ pt' = pt /\ pending' = pending
        /\ unrestored' = unrestored /\ read' = NoRead /\ Selected' = Selected
    BY <1>3 DEF SetSpan, calibration, selection, Selected
  <2> QED
    BY <2>5, <2>6, NoReadRight
       DEF AnalyzerInv, PresetInv, RangeInv, OffsetInv, OrderInv, CentreInv, Centred,
           HasAt, SameAt
<1>4. ASSUME NEW kind \in Kinds, ConnAna(kind) PROVE AnalyzerInv' /\ ReadsRight'
  <2>1. PICK L \in Lost(Keys) : sa' = InstrInit(sa, kind, L)
    BY <1>4 DEF ConnAna
  <2>2. /\ sa'.kind = kind /\ sa'.freq_now = 0
        /\ kind = "RS" => sa'.pp = "pim"
        /\ HasAt(sa', "range", "pim")
    BY <2>1, InitFacts DEF Types
  <2>3. /\ pc = "idle" /\ pc' = pc /\ pt' = pt /\ pending' = pending /\ read' = NoRead
    BY <1>4 DEF ConnAna, MayCall, calibration
  <2> QED
    BY <2>2, <2>3, NoReadRight
       DEF AnalyzerInv, PresetInv, RangeInv, OffsetInv, OrderInv, CentreInv, Centred
<1>5. CASE GetImResult
  BY <1>5, GetImResultRight
<1>6. CASE GetVco
  BY <1>6, CheckRight DEF GetVco, Types, SelectionTypes, Paths, calibration
<1>7. ASSUME NEW b \in Bands, NEW p \in DutPorts, CheckReceiveChannel(b, p)
      PROVE  AnalyzerInv' /\ ReadsRight'
  <2>1. <<b, p>> \in Paths
    BY DEF Paths
  <2> QED
    BY <1>7, <2>1, CheckRight, CallKeeps DEF CheckReceiveChannel, calibration
<1>8. CASE SetOffsetTx
  BY <1>8, SetOffsetTxRight
<1>9. ASSUME NEW p \in Paths, RxBegin(p) PROVE AnalyzerInv' /\ ReadsRight'
  BY <1>9, RxBeginRight
<1>10. CASE RxVco
  <2>1. PICK v \in VcoLevels : VcoDsp(path, v)
    BY <1>10 DEF RxVco
  <2>2. Centred
    BY <1>10 DEF RxVco, AnalyzerInv, CentreInv, OrderInv, Centred
  <2>3. PresetInv' /\ RangeInv' /\ HasAt(sa', "offset", 0) /\ Centred' /\ ReadsRight'
    BY <2>1, <2>2, VcoReadRight DEF Types, ControlTypes, AnalyzerInv
  <2> QED
    BY <1>10, <2>3 DEF RxVco, calibration, AnalyzerInv, OffsetInv, OrderInv, CentreInv
<1>11. CASE RxCentre
  <2>1. PICK L \in Lost({"centre"}) : sa' = SetCenterFreq(sa, RxFreqs[1], L)
    BY <1>11 DEF RxCentre
  <2>2. {"offset", "range"} \subseteq PresetKeys
    BY DEF PresetKeys, Keys
  <2>3. /\ sa'.kind = sa.kind /\ sa'.pp = sa.pp /\ HasAt(sa', "centre", RxFreqs[1])
        /\ SameAt(sa, sa', "offset") /\ SameAt(sa, sa', "range")
    BY <2>1, <2>2, RxFreqFacts, CentreFacts DEF Types
  <2>4. pc = "centre" /\ pc' = "set" /\ pt' = pt /\ pending' = pending
        /\ unrestored' = unrestored /\ read' = NoRead
    BY <1>11 DEF RxCentre, calibration
  <2> QED
    BY <2>3, <2>4, NoReadRight
       DEF AnalyzerInv, PresetInv, RangeInv, OffsetInv, OrderInv, CentreInv, HasAt, SameAt
<1>12. CASE RxPoint
  BY <1>12, RxPointRight
<1>13. CASE RxOn \/ RxSet \/ UNCHANGED vars
  BY <1>13
     DEF RxOn, RxSet, vars, calibration, selection, Selected, AnalyzerInv, PresetInv,
         RangeInv, OffsetInv, OrderInv, CentreInv, Centred, ReadsRight, ReadsWhereAsked,
         OffsetFits, SettingsFit
<1>14. CASE RxOff
  <2>1. Centred'
    BY <1>14 DEF RxOff, AnalyzerInv, CentreInv, OrderInv, Centred
  <2> QED
    BY <1>14, <2>1, NoReadRight
       DEF RxOff, AnalyzerInv, PresetInv, RangeInv, OffsetInv, OrderInv, CentreInv
<1> QED
  BY <1>1, <1>2, <1>3, <1>4, <1>5, <1>6, <1>7, <1>8, <1>9, <1>10, <1>11, <1>12, <1>13,
     <1>14 DEF Next

LEMMA AnalyzerAlways == Spec => []ReadsRight
BY TypesInit, TypesStep, AnalyzerInit, AnalyzerStep, PTL DEF Spec

\* Whichever commands get lost, a reading is taken at the frequency it was asked
\* for, unless its own centring was lost: by the client that reads what it
\* programs, or with the driver that has no cache.
THEOREM ReadingsCentred == Spec => []ReadsWhereAsked
<1>1. ReadsRight => ReadsWhereAsked
  BY DEF ReadsRight
<1> QED
  BY <1>1, AnalyzerAlways, PTL

\* A reading has the offset that was looked up for it, or none.
THEOREM OffsetsFit == Spec => []OffsetFits
<1>1. ReadsRight => OffsetFits
  BY DEF ReadsRight
<1> QED
  BY <1>1, AnalyzerAlways, PTL

\* A reading is taken with the settings for its purpose, although one driver
\* skips presets and calibrations change them.
THEOREM SettingsFitReadings == Spec => []SettingsFit
<1>1. ReadsRight => SettingsFit
  BY DEF ReadsRight
<1> QED
  BY <1>1, AnalyzerAlways, PTL

-----------------------------------------------------------------------------
(* Generator 1 under the receive calibration.                               *)

\* What a good level command leaves: the driver remembers the protective level,
\* and no later one of the calibration changes that, as it is not sent.  The
\* generator is where its driver believes it, or at its preset.
Types1 == cache \in [Carriers -> Int] /\ gen \in [Carriers -> [pow : Int, rf : Outputs]]
Acknowledged == pc # "idle" /\ written => cache[1] = Protect
Honest == ~LateWrites => gen[1].pow \in {cache[1], ResetPow}
GeneratorInv == Types1 /\ Acknowledged /\ Honest

LEMMA GuardedKeeps ==
    ASSUME Types1, Honest, NEW acked \in BOOLEAN, Guarded(acked), acked => cache[1] = Protect
    PROVE  Types1' /\ Honest' /\ (written' => cache'[1] = Protect)
<1>1. PICK ok \in BOOLEAN : SetFreqPow(1, Protect, ok) /\ written' = (acked \/ ok)
  BY DEF Guarded
<1>2. Protect \in Int /\ 1 \in Carriers
  BY ReceiveAssumption DEF Carriers
<1>3. CASE UNCHANGED <<cache, gen>> /\ (Protect = cache[1] \/ ~ok)
  BY <1>1, <1>3 DEF Types1, Honest
<1>4. CASE /\ cache' = [cache EXCEPT ![1] = Protect]
           /\ gen' = [gen EXCEPT ![1].pow = Protect]
  <2>1. Types1'
    BY <1>2, <1>4 DEF Types1
  <2>2. cache'[1] = Protect /\ gen'[1].pow = Protect
    BY <1>2, <1>4 DEF Types1
  <2> QED
    BY <2>1, <2>2 DEF Honest
<1>5. CASE /\ ~ok /\ Protect # cache[1] /\ LateWrites /\ cache' = cache
           /\ gen' = [gen EXCEPT ![1].pow = Protect]
  <2>1. Types1'
    BY <1>2, <1>5 DEF Types1
  <2> QED
    BY <1>1, <1>5, <2>1 DEF Honest
<1> QED
  BY <1>1, <1>3, <1>4, <1>5 DEF SetFreqPow

LEMMA OutputKeeps ==
    ASSUME Types1, NEW on \in Outputs, NEW ok \in BOOLEAN, OpenPow(1, on, ok)
    PROVE  /\ gen' \in [Carriers -> [pow : Int, rf : Outputs]]
           /\ gen'[1].pow = gen[1].pow
           /\ ok => gen'[1].rf = on
BY DEF Types1, OpenPow, Carriers

LEMMA PresetTyped == AtPreset \in [pow : Int, rf : Outputs] /\ AtPreset.pow = ResetPow
BY ResetAssumption DEF AtPreset, Outputs

LEMMA GeneratorInit == Init => GeneratorInv
<1> SUFFICES ASSUME Init PROVE GeneratorInv
  OBVIOUS
<1>1. Types1
  BY PresetTyped DEF Init, Types1
<1>2. Acknowledged /\ Honest
  BY PresetTyped DEF Init, Acknowledged, Honest, Carriers
<1> QED
  BY <1>1, <1>2 DEF GeneratorInv

LEMMA GeneratorStep == GeneratorInv /\ [Next]_vars => GeneratorInv'
<1> SUFFICES ASSUME GeneratorInv, [Next]_vars PROVE GeneratorInv'
  OBVIOUS
<1> USE DEF GeneratorInv
<1>1. ASSUME Transmitted, pc = "idle", pc' = pc PROVE GeneratorInv'
  <2>1. CASE UNCHANGED <<cache, gen>>
    BY <1>1, <2>1 DEF Types1, Acknowledged, Honest
  <2>2. ASSUME NEW g \in Leftovers, cache' = [cache EXCEPT ![1] = g.cache],
               gen' = [gen EXCEPT ![1] = [pow |-> g.pow, rf |-> g.rf]]
        PROVE  GeneratorInv'
    <3>1. /\ g.cache \in Int /\ g.pow \in Int /\ g.rf \in Outputs /\ 1 \in Carriers
          /\ ~LateWrites => g.pow \in {g.cache, ResetPow}
      BY ReceiveAssumption, LeftoverAssumption DEF Carriers
    <3>2. Types1'
      BY <2>2, <3>1 DEF Types1
    <3>3. cache'[1] = g.cache /\ gen'[1].pow = g.pow
      BY <2>2, <3>1 DEF Types1
    <3> QED
      BY <1>1, <3>1, <3>2, <3>3 DEF Acknowledged, Honest
  <2> QED
    BY <1>1, <2>1, <2>2 DEF Transmitted
<1>2. CASE SetOffsetTx \/ \E t \in Tones : SetTxFreqs(t)
  BY <1>1, <1>2 DEF SetOffsetTx, SetTxFreqs, MayCall
<1>3. CASE \E p \in Paths : RxBegin(p)
  BY <1>3, GuardedKeeps DEF RxBegin, Acknowledged
<1>4. CASE RxSet
  <2>1. CASE written
    BY <1>4, <2>1, GuardedKeeps DEF RxSet, Acknowledged
  <2>2. CASE ~written
    <3>1. Guarded(FALSE)
      BY <1>4, <2>2 DEF RxSet, Guarded
    <3> QED
      BY <1>4, <3>1, GuardedKeeps DEF RxSet, Acknowledged
  <2> QED
    BY <2>1, <2>2
<1>5. CASE RxOn
  <2>1. PICK ok \in BOOLEAN : OpenPow(1, "on", ok)
    BY <1>5 DEF RxOn
  <2>2. "on" \in Outputs
    BY DEF Outputs
  <2> QED
    BY <1>5, <2>1, <2>2, OutputKeeps
       DEF RxOn, calibration, Types1, Acknowledged, Honest
<1>6. CASE RxOff
  <2>1. PICK ok \in BOOLEAN : OpenPow(1, "off", ok)
    BY <1>6 DEF RxOff
  <2>2. "off" \in Outputs
    BY DEF Outputs
  <2> QED
    BY <1>6, <2>1, <2>2, OutputKeeps DEF RxOff, Types1, Acknowledged, Honest
<1>7. CASE CheckReference
  <2>1. pc = "idle" /\ pc' = "idle" /\ cache' = cache
    BY <1>7 DEF CheckReference, MayCall, GetReferenceStatus
  <2>2. gen' = gen \/ gen' = [gen EXCEPT ![1] = AtPreset]
    BY <1>7 DEF CheckReference, GetReferenceStatus
  <2>3. CASE gen' = gen
    BY <2>1, <2>3 DEF Types1, Acknowledged, Honest
  <2>4. CASE gen' = [gen EXCEPT ![1] = AtPreset]
    <3>1. Types1' /\ gen'[1].pow = ResetPow
      BY <2>1, <2>4, PresetTyped DEF Types1, Carriers
    <3> QED
      BY <2>1, <3>1 DEF Acknowledged, Honest
  <2> QED
    BY <2>2, <2>3, <2>4
<1>8. CASE UNCHANGED <<rig, written>> /\ (pc = "idle" => pc' = "idle")
  BY <1>8 DEF rig, Types1, Acknowledged, Honest
<1>9. CASE \/ \E b \in Bands : SetMeasBand(b)
           \/ \E p \in DutPorts : SetDutPort(p)
           \/ \E o \in Orders : SetImOrder(o)
           \/ SetSpan \/ \E kind \in Kinds : ConnAna(kind)
           \/ GetImResult \/ GetVco
           \/ \E b \in Bands, p \in DutPorts : CheckReceiveChannel(b, p)
           \/ RxVco \/ RxCentre \/ RxPoint \/ UNCHANGED vars
  BY <1>8, <1>9
     DEF SetMeasBand, SetDutPort, SetImOrder, Select, SetSpan, ConnAna, GetImResult,
         GetVco, CheckReceiveChannel, RxVco, RxCentre, RxPoint, vars, rig, calibration
<1> QED
  BY <1>2, <1>3, <1>4, <1>5, <1>6, <1>7, <1>9 DEF Next

\* While a receive calibration has generator 1 on, its level is the protective
\* one, whatever the transmit side left, from the first level command that was
\* acknowledged on: a command the driver skips finds the generator there or at
\* the preset of a reset behind the driver.  A write that takes effect although it
\* failed can move it elsewhere, so there are none here.
THEOREM ProtectsReceiver == ASSUME ~LateWrites PROVE Spec => []RxProtected
<1>1. GeneratorInv => RxProtected
  BY DEF GeneratorInv, Acknowledged, Honest, RxProtected
<1> QED
  BY <1>1, GeneratorInit, GeneratorStep, PTL DEF Spec

\* Every way out of a receive calibration leaves generator 1 off, unless it
\* refuses.
THEOREM CalibrationEndsSilent == Spec => RxEndsSilent
<1>1. GeneratorInv /\ [Next]_vars
         => (pc # "idle" /\ pc' = "idle" => gen'[1].rf = "off" \/ refused')
  <2> SUFFICES ASSUME GeneratorInv, [Next]_vars, pc # "idle", pc' = "idle"
               PROVE  gen'[1].rf = "off" \/ refused'
    OBVIOUS
  <2>1. RxOff
    BY DEF Next, vars, SetMeasBand, SetDutPort, SetImOrder, Select, SetTxFreqs, SetSpan,
           ConnAna, CheckReference, GetImResult, GetVco, CheckReceiveChannel, SetOffsetTx,
           RxBegin, RxOn, RxVco, RxCentre, RxSet, RxPoint, MayCall
  <2>2. PICK ok \in BOOLEAN : OpenPow(1, "off", ok) /\ refused' = ~ok
    BY <2>1 DEF RxOff
  <2>3. "off" \in Outputs
    BY DEF Outputs
  <2> QED
    BY <2>2, <2>3, OutputKeeps DEF GeneratorInv
<1> QED
  BY <1>1, GeneratorInit, GeneratorStep, PTL DEF Spec, RxEndsSilent

-----------------------------------------------------------------------------
(* The VCO check.                                                           *)

\* A check passes against a recorded level only: a missing one counts as 0 dBm,
\* which no reading comes near, and a failed reading comes near no level.
LEMMA CheckMeans ==
    ASSUME NEW p \in Paths, vco \in [Paths -> VcoLevels \union {0}], PresetInv, sa \in SA,
           Check(p), ret' = "OK"
    PROVE  read'.value > Dead /\ vco[p] \notin {0, Dead}
<1>1. PICK v \in VcoLevels :
         /\ VcoDsp(p, v)
         /\ LET d == v - OffsetVco(p)
            IN ret' = IF -VcoThreshold < d /\ d < VcoThreshold THEN "OK" ELSE "ERROR"
  BY DEF Check
<1>2. read'.value = v
  BY <1>1, VcoDspFacts
<1>3. -VcoThreshold < v - OffsetVco(p) /\ v - OffsetVco(p) < VcoThreshold
  BY <1>1
<1>4. /\ VcoThreshold \in Nat /\ v \in Int /\ v <= -VcoThreshold
      /\ v = Dead \/ v >= Dead + VcoThreshold
      /\ vco[p] \in VcoLevels \union {0}
  BY VcoAssumption
<1>5. vco[p] \in VcoLevels => vco[p] \in Int /\ (vco[p] = Dead \/ vco[p] >= Dead + VcoThreshold)
  BY VcoAssumption
<1> QED
  BY <1>2, <1>3, <1>4, <1>5 DEF OffsetVco, Dead

LEMMA PassStep ==
    Types /\ PresetInv /\ PassMeansReference /\ [Next]_vars => PassMeansReference'
<1> SUFFICES ASSUME Types, PresetInv, PassMeansReference, [Next]_vars
             PROVE  PassMeansReference'
  OBVIOUS
<1> USE DEF Types, RowTypes
<1>1. ASSUME read' = NoRead PROVE PassMeansReference'
  BY <1>1 DEF NoRead, PassMeansReference
<1>2. CASE GetImResult
  BY <1>2, <1>1 DEF GetImResult, Reading, PassMeansReference
<1>3. CASE GetVco
  <2>1. <<now_band, now_dut_port>> \in Paths
    BY DEF SelectionTypes, Paths
  <2> QED
    BY <1>3, <2>1, CheckMeans DEF GetVco, selection, rows, PassMeansReference
<1>4. ASSUME NEW b \in Bands, NEW p \in DutPorts, CheckReceiveChannel(b, p)
      PROVE  PassMeansReference'
  <2>1. <<b, p>> \in Paths
    BY DEF Paths
  <2> QED
    BY <1>1, <1>4, <2>1, CheckMeans DEF CheckReceiveChannel, rows, PassMeansReference
<1>5. CASE RxOn \/ RxVco \/ RxCentre \/ RxSet \/ RxPoint
  BY <1>5 DEF RxOn, RxVco, RxCentre, RxSet, RxPoint, PassMeansReference
<1>6. CASE UNCHANGED vars
  BY <1>6 DEF vars, PassMeansReference
<1>7. CASE \/ \E b \in Bands : SetMeasBand(b)
           \/ \E p \in DutPorts : SetDutPort(p)
           \/ \E o \in Orders : SetImOrder(o)
           \/ \E t \in Tones : SetTxFreqs(t)
           \/ SetSpan \/ \E kind \in Kinds : ConnAna(kind)
           \/ CheckReference \/ SetOffsetTx \/ RxOff
           \/ \E p \in Paths : RxBegin(p)
  BY <1>1, <1>7
     DEF SetMeasBand, SetDutPort, SetImOrder, Select, SetTxFreqs, SetSpan, ConnAna,
         CheckReference, SetOffsetTx, RxOff, RxBegin
<1> QED
  BY <1>2, <1>3, <1>4, <1>5, <1>6, <1>7 DEF Next

\* A VCO check that passes had a successful reading and a recorded level.
THEOREM PassedAgainstReference == Spec => []PassMeansReference
<1>1. Init => PassMeansReference
  BY DEF Init, NoRead, PassMeansReference
<1>2. AnalyzerInv => PresetInv
  BY DEF AnalyzerInv
<1> QED
  BY <1>1, <1>2, TypesInit, TypesStep, AnalyzerInit, AnalyzerStep, PassStep, PTL DEF Spec
-----------------------------------------------------------------------------
(* The course of a receive calibration.                                      *)

\* A calibration gets to its points only once, and past them only with an error
\* or after the last one.
CourseInv ==
    /\ pc \in {"on", "vco", "centre"} => pt = 1
    /\ pc \in {"on", "vco", "centre", "set", "point"} => ret = "none"
    /\ pc = "off" => ret = "ERROR" \/ (ret = "none" /\ pt = Len(RxFreqs))

\* A row is stored only by a calibration that read every frequency and says so,
\* and an error leaves the row of an earlier calibration as it was.
StoresWhole ==
    [][pc # "idle" /\ pc' = "idle" =>
           IF ret' = "OK" THEN pt = Len(RxFreqs) /\ rx' = [rx EXCEPT ![path] = run]
                          ELSE rx' = rx]_vars

LEMMA CourseInit == Init => CourseInv
BY DEF Init, CourseInv

\* A call that is not part of a calibration is made between calibrations.
LEMMA Between ==
    ASSUME Next, pc # "idle" PROVE RxOn \/ RxVco \/ RxCentre \/ RxSet \/ RxPoint \/ RxOff
BY DEF Next, SetMeasBand, SetDutPort, SetImOrder, Select, SetTxFreqs, SetSpan, ConnAna,
       CheckReference, GetImResult, GetVco, CheckReceiveChannel, SetOffsetTx, RxBegin,
       MayCall

LEMMA CourseStep == Types /\ CourseInv /\ [Next]_vars => CourseInv'
<1> USE DEF CourseInv, calibration, rows
<1> SUFFICES ASSUME Types, CourseInv, [Next]_vars PROVE CourseInv'
  OBVIOUS
<1>1. CASE pc' = "idle"
  BY <1>1
<1>2. CASE UNCHANGED vars
  BY <1>2 DEF vars
<1>3. CASE \E p \in Paths : RxBegin(p)
  BY <1>3 DEF RxBegin
<1>4. CASE RxOn \/ RxVco \/ RxCentre
  BY <1>4 DEF RxOn, RxVco, RxCentre
<1>5. CASE RxSet \/ RxOff
  BY <1>5 DEF RxSet, RxOff
<1>6. CASE RxPoint
  <2>1. pc = "point" /\ ret = "none"
    BY <1>6 DEF RxPoint
  <2>2. \/ ret' = "ERROR" /\ pc' = "off"
        \/ ret' = ret /\ pc' = "set"
        \/ ret' = ret /\ pc' = "off" /\ pt' = pt /\ ~ (pt < Len(RxFreqs))
    BY <1>6 DEF RxPoint
  <2>3. ~ (pt < Len(RxFreqs)) => pt = Len(RxFreqs)
    BY ReceiveAssumption DEF ReceiveAssumption, Types, ControlTypes
  <2> QED
    BY <2>1, <2>2, <2>3
<1>7. CASE pc = "idle" /\ ~ (\E p \in Paths : RxBegin(p)) /\ Next
  <2>1. pc' = pc
    BY <1>7 DEF Next, SetMeasBand, SetDutPort, SetImOrder, Select, SetTxFreqs, SetSpan,
           ConnAna, CheckReference, GetImResult, GetVco, CheckReceiveChannel, SetOffsetTx,
           RxOn, RxVco, RxCentre, RxSet, RxPoint, RxOff
  <2> QED
    BY <1>1, <1>7, <2>1
<1> QED
  BY <1>2, <1>3, <1>4, <1>5, <1>6, <1>7, Between

\* The row on file is always that of a calibration that went through, and the
\* client was told which calibrations those were.
THEOREM StoresWholeRows == Spec => StoresWhole
<1>1. CourseInv /\ [Next]_vars =>
          [pc # "idle" /\ pc' = "idle" =>
              IF ret' = "OK" THEN pt = Len(RxFreqs) /\ rx' = [rx EXCEPT ![path] = run]
                             ELSE rx' = rx]_vars
  <2> SUFFICES ASSUME CourseInv, Next, pc # "idle", pc' = "idle"
               PROVE  IF ret' = "OK" THEN pt = Len(RxFreqs) /\ rx' = [rx EXCEPT ![path] = run]
                                     ELSE rx' = rx
    OBVIOUS
  <2>1. RxOff
    BY Between DEF RxOn, RxVco, RxCentre, RxSet, RxPoint
  <2> QED
    BY <2>1 DEF RxOff, CourseInv
<1> QED
  BY <1>1, TypesInit, TypesStep, CourseInit, CourseStep, PTL DEF Spec, StoresWhole

MostSteps == 2 * Len(RxFreqs) + 4

StepsLeft ==
    CASE pc = "idle" -> 0
      [] pc = "on" -> 2 * Len(RxFreqs) + 4
      [] pc = "vco" -> 2 * Len(RxFreqs) + 3
      [] pc = "centre" -> 2 * Len(RxFreqs) + 2
      [] pc = "set" -> 2 * (Len(RxFreqs) - pt) + 3
      [] pc = "point" -> 2 * (Len(RxFreqs) - pt) + 2
      [] pc = "off" -> 1

\* Nothing happens during a receive calibration but that it comes closer to its
\* return.
ReceiveAdvances == [][pc # "idle" => StepsLeft' < StepsLeft]_vars

LEMMA StepsBounded == Types /\ CourseInv => StepsLeft \in 0 .. MostSteps
<1> SUFFICES ASSUME Types, CourseInv PROVE StepsLeft \in 0 .. MostSteps
  OBVIOUS
<1>1. Len(RxFreqs) \in Nat /\ pt \in 1 .. Len(RxFreqs) /\ pc \in Control
  BY ReceiveAssumption DEF ReceiveAssumption, Types, ControlTypes
<1> QED
  BY <1>1 DEF StepsLeft, MostSteps, Control

LEMMA AdvanceStep ==
    Types /\ CourseInv /\ [Next]_vars => [pc # "idle" => StepsLeft' < StepsLeft]_vars
<1> SUFFICES ASSUME Types, CourseInv, Next, pc # "idle" PROVE StepsLeft' < StepsLeft
  OBVIOUS
<1>1. Len(RxFreqs) \in Nat /\ pt \in 1 .. Len(RxFreqs)
  BY ReceiveAssumption DEF ReceiveAssumption, Types, ControlTypes
<1>2. CASE RxOn
  BY <1>1, <1>2 DEF RxOn, StepsLeft
<1>3. CASE RxVco
  BY <1>1, <1>3 DEF RxVco, StepsLeft
<1>4. CASE RxCentre
  <2>1. pc = "centre" /\ pc' = "set" /\ pt' = 1
    BY <1>4 DEF RxCentre, CourseInv, calibration
  <2> QED
    BY <1>1, <2>1 DEF StepsLeft
<1>5. CASE RxSet
  BY <1>1, <1>5 DEF RxSet, StepsLeft
<1>6. CASE RxPoint
  <2>1. pc = "point" /\ (pc' = "off" \/ (pc' = "set" /\ pt' = pt + 1))
    BY <1>6 DEF RxPoint
  <2> QED
    BY <1>1, <2>1 DEF StepsLeft
<1>7. CASE RxOff
  BY <1>7 DEF RxOff, StepsLeft
<1> QED
  BY <1>2, <1>3, <1>4, <1>5, <1>6, <1>7, Between

\* A receive calibration that was started returns after two steps for each
\* frequency and four more, whatever is read and whatever fails.
THEOREM ReceiveCalibrationsEnd == Spec => [](StepsLeft \in 0 .. MostSteps) /\ ReceiveAdvances
BY TypesInit, TypesStep, CourseInit, CourseStep, StepsBounded, AdvanceStep, PTL
   DEF Spec, ReceiveAdvances
=============================================================================
