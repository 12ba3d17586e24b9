----------------------------- MODULE MCDrivers -----------------------------
(***************************************************************************)
(* Two frequencies and two levels, one of them 0 dBm, which is also what a    *)
(* new driver remembers.                                                      *)
(***************************************************************************)
EXTENDS Drivers

MCReset == [s \in Settings |-> IF s = "freq" THEN 3 ELSE -145]
=============================================================================
