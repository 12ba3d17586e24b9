------------------------------ MODULE Analyzer ------------------------------
(***************************************************************************)
(* The spectrum analyzer and its driver, as one record:                      *)
(*   kind      which of the two drivers was connected                        *)
(*   freq_now  the Agilent driver's cached frequency (eNULL is 0)            *)
(*   pp        the Rohde & Schwarz driver's cached preset (pp_)              *)
(*   at        what the analyzer is set to                                   *)
(*   missed    the settings whose last command was lost on the bus           *)
(*                                                                          *)
(* The drivers ignore the status of every command, so a lost one shows in    *)
(* nothing but what the analyzer is set to.  "centre" is the centre frequency *)
(* with its marker, "offset" the reference level offset (the number of the    *)
(* stored row it comes from, 0 for none), "range" reference level with        *)
(* attenuation, "span" span with bandwidths.                                  *)
(***************************************************************************)
EXTENDS Integers

CONSTANT Losses     \* the sets of settings whose commands can get lost together

Kinds == {"Agilent", "RS"}
Presets == {"pim", "vco", "tx"}
Keys == {"centre", "offset", "range", "span"}
PresetKeys == Keys \ {"centre"}

\* 637 MHz, where InstrInit leaves the centre.
InitCentre == 637

ASSUME LossAssumption == Losses \subseteq SUBSET Keys

\* Which commands of a group get lost.
Lost(K) == {L \intersect K : L \in Losses}

\* One command per setting of K, those of L lost.
Send(s, K, v, L) ==
    [s EXCEPT !.at = [k \in Keys |-> IF k \in K \ L THEN v[k] ELSE s.at[k]],
              !.missed = (s.missed \ K) \union L]

Write(s, k, x, L) == Send(s, {k}, [j \in Keys |-> x], L)

\* InstrSetOffset, and InstrSetCenterFreq, which leaves freq_now alone.
SetOffset(s, off, L) == Write(s, "offset", off, L)
SetCenterFreq(s, f, L) == Write(s, "centre", f, L)

\* The values of a preset: every one clears the offset.
PresetValue(p) ==
    [k \in Keys |-> CASE k = "range" -> IF p = "tx" THEN "tx" ELSE "pim"
                      [] k = "span" -> p
                      [] OTHER -> 0]

\* The Agilent driver's VCO setting leaves reference level and attenuation.
Covers(s, p) ==
    IF s.kind = "Agilent" /\ p = "vco" THEN {"offset", "span"} ELSE PresetKeys

\* InstrPimSetting and its siblings.  The Rohde & Schwarz driver does nothing
\* when the preset is the one it set last.
Preset(s, p, L) ==
    IF s.kind = "RS" /\ s.pp = p THEN s
    ELSE [Send(s, Covers(s, p), PresetValue(p), L \intersect Covers(s, p))
             EXCEPT !.pp = IF s.kind = "RS" THEN p ELSE s.pp]

\* Centring of InstrGetAnalyzer: the Agilent driver skips it when the frequency
\* is the one it read last.
Tune(s, f, L) ==
    IF s.kind = "Agilent" /\ s.freq_now = f THEN s
    ELSE [SetCenterFreq(s, f, L)
             EXCEPT !.freq_now = IF s.kind = "Agilent" THEN f ELSE s.freq_now]

\* Mutation: the driver object outlives the connection, with its cache.
InitKept(s, kind, L) ==
    [Send(s, Keys, [PresetValue("pim") EXCEPT !["centre"] = InitCentre], L)
        EXCEPT !.kind = kind, !.pp = IF kind = "RS" THEN "pim" ELSE "none"]

\* A new driver on a new session: InstrInit after *RST.
InstrInit(s, kind, L) ==
    [Send(s, Keys, [PresetValue("pim") EXCEPT !["centre"] = InitCentre], L)
        EXCEPT !.kind = kind, !.freq_now = 0,
               !.pp = IF kind = "RS" THEN "pim" ELSE "none"]
=============================================================================
