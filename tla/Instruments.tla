---------------------------- MODULE Instruments ----------------------------
(***************************************************************************)
(* The rig the API drives: two signal generators behind drivers that cache   *)
(* the last level, and the relay matrix as the contract of MatrixContract    *)
(* presents it.  Every command may fail, and one driver resets its generator  *)
(* behind its own cache.  Levels are tenths of a dB; a frequency write may be *)
(* needed or not, and succeed or not.                                        *)
(***************************************************************************)
EXTENDS Integers

CONSTANTS
    LateWrites,     \* a write reported as failed may still reach the generator
    ResetPow,       \* generator level after *RST
    SMx,            \* the carriers with the Rohde & Schwarz driver
    Mixed           \* the matrix in an unknown position

Carriers == {1, 2}          \* JC_CARRIER_TX1, JC_CARRIER_TX2
Outputs == {"on", "off"}    \* the RF output of a generator

\* What the relays connect: the transmit path of one band and port together
\* with the coupler of one carrier, or an unknown mixture after a failure.
Routes == [path : Nat \X Nat, coup : Carriers]

ASSUME LateAssumption == LateWrites \in BOOLEAN
ASSUME ResetAssumption == ResetPow \in Int /\ SMx \subseteq Carriers
ASSUME MixedAssumption == Mixed \notin Routes

VARIABLES
    cache,      \* _pow_now of each signal generator's driver
    gen,        \* the generators themselves: level and RF output
    route       \* the switch matrix itself

\* Mutation: the driver remembers a level whether or not the write succeeded.
SetFreqPowEager(c, p, ok) ==
    /\ cache' = [cache EXCEPT ![c] = p]
    /\ gen' = IF ok /\ p # cache[c] THEN [gen EXCEPT ![c].pow = p] ELSE gen

\* InstrSetFreqPow: the level is written only when it differs from the cached
\* one; the status mixes both writes, so a failed status may follow a level
\* that was set, while a good one means the level was set or was cached.
SetFreqPow(c, p, ok) ==
    IF p = cache[c]
    THEN UNCHANGED <<cache, gen>>
    ELSE \/ /\ cache' = [cache EXCEPT ![c] = p]
            /\ gen' = [gen EXCEPT ![c].pow = p]
         \/ /\ ~ok
            /\ cache' = cache
            /\ \/ gen' = gen
               \/ LateWrites /\ gen' = [gen EXCEPT ![c].pow = p]

\* InstrOpenPow.
OpenPow(c, on, ok) ==
    \/ gen' = [gen EXCEPT ![c].rf = on]
    \/ ~ok /\ gen' = gen

AtPreset == [pow |-> ResetPow, rf |-> "off"]

\* InstrGetReferenceStatus: the Rohde & Schwarz driver answers a lost reference
\* with *RST and keeps its cache.  *RST may be lost; every other failure, and the
\* other driver's query, changes nothing.
GetReferenceStatus(c, ok) ==
    /\ cache' = cache
    /\ \/ gen' = gen
       \/ ~ok /\ c \in SMx /\ gen' = [gen EXCEPT ![c] = AtPreset]

\* JcSetSwitch: every relay as commanded, or a failure that leaves any mixture.
SetSwitch(b, p, c, ok) ==
    IF ok THEN route' = [path |-> <<b, p>>, coup |-> c]
          ELSE route' \in {route, Mixed}

RfOff == \A c \in Carriers : gen[c].rf = "off"
=============================================================================
