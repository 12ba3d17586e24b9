------------------------------ MODULE Drivers ------------------------------
(***************************************************************************)
(* The drivers of the signal generators (Agilent N5181A, Rohde & Schwarz     *)
(* SMx) and of the power sensors (Agilent U2000A, Rohde & Schwarz NRT and     *)
(* NRP-Z), and the bus below them.  One instrument of one kind is connected.  *)
(*                                                                          *)
(* A command is carried out and reported so, is lost and reported so, or is  *)
(* carried out after the driver was told that it failed.  An answer may come *)
(* after the driver stopped waiting for it; then it is there for the next    *)
(* read, unless the bus discards unread answers when a new message arrives   *)
(* (GPIB and USB do, a plain socket does not).                                *)
(***************************************************************************)
EXTENDS Integers, Sequences

CONSTANTS
    Freqs, Levels,      \* what a client asks of a generator
    Reset,              \* the settings of a generator after *RST
    LateWrites,         \* a command reported as failed may still be carried out
    MaxAnswers          \* bound on the answers waiting on a socket

Generators == {"N5181A", "SMx"}
Sensors == {"U2000A", "NRT", "NRPZ"}
Settings == {"freq", "pow"}
Outputs == {"on", "off"}
Writes == {"done", "lost"} \union (IF LateWrites THEN {"late"} ELSE {})

ASSUME DriverAssumption ==
    /\ Freqs \subseteq Int /\ Levels \subseteq Int /\ Reset \in [Settings -> Int]
    /\ LateWrites \in BOOLEAN /\ MaxAnswers \in Nat

VARIABLES
    kind, bus,          \* the instrument connected, and by which kind of bus
    now,                \* _freq_now and _pow_now
    isCmdSucc,          \* _isCmdSucc, which is also what the last call returned
    gen, rf,            \* the generator's settings and its output
    astray,             \* settings a command reported as failed has moved or left
    claims,             \* what the last InstrSetFreqPow was asked for, if it said yes
    pc,                 \* where InstrGetSesnor is
    queue, owed,        \* answers waiting to be read, and answers yet to come
    held,               \* the measurement the sensor holds
    value,              \* what the reading returned
    untriggered         \* the trigger of the reading was lost

generator == <<now, isCmdSucc, gen, rf, astray, claims>>
sensor == <<pc, queue, owed, held, value, untriggered>>
vars == <<kind, bus, now, isCmdSucc, gen, rf, astray, claims, pc, queue, owed, held,
          value, untriggered>>

\* Answers: a measurement triggered by the reading in progress or the last one,
\* one of an earlier reading, or the "1" of *OPC?.  A reading may also fail.
Opc == 0
Fresh == 1
Stale == 2
Failed == -10000
Answers == {Opc, Fresh, Stale}

Init ==
    /\ kind \in Generators \union Sensors /\ bus \in {"message", "socket"}
    /\ now = [s \in Settings |-> 0] /\ isCmdSucc = FALSE
    /\ gen = Reset /\ rf = "off" /\ astray = {} /\ claims = {}
    /\ pc = "idle" /\ queue = <<>> /\ owed = <<>> /\ held = Stale
    /\ value = Failed /\ untriggered = FALSE

(***************************************************************************)
(* Signal generators.                                                        *)
(***************************************************************************)
IsGenerator == kind \in Generators /\ UNCHANGED <<kind, bus, sensor>>

\* *RST, whose status nobody looks at.
ResetBy(w) ==
    IF w = "lost" THEN UNCHANGED <<gen, rf>> ELSE gen' = Reset /\ rf' = "off"

\* InstrSession: a new driver, whose caches are zero, and *RST.  If that is lost
\* the generator keeps settings the new driver knows nothing of.
InstrSession ==
    /\ IsGenerator
    /\ now' = [s \in Settings |-> 0] /\ isCmdSucc' = FALSE
    /\ claims' = {}
    /\ \E w \in Writes :
          ResetBy(w) /\ astray' = IF w = "lost" THEN Settings ELSE {}

\* The values remembered: of the settings whose command was acknowledged.
\* Mutation: of every setting whose command was sent.
RememberSent(asked, w) ==
    [s \in Settings |-> IF asked[s] # now[s] THEN asked[s] ELSE now[s]]

Remember(asked, w) ==
    [s \in Settings |-> IF asked[s] # now[s] /\ w[s] = "done" THEN asked[s] ELSE now[s]]

\* InstrSetFreq and InstrSetPow: a value equal to the remembered one is not
\* sent, and the status is then that of the call before.
StatusOf(s, asked, w, before) ==
    IF asked[s] # now[s] THEN w[s] = "done" ELSE before

\* Mutation: the status is that of the frequency alone.
FreqStatus(asked, w, early) == StatusOf("freq", asked, w, isCmdSucc)

\* InstrSetFreqPow: "_isCmdSucc &= InstrSetPow(..)", where the call assigns
\* _isCmdSucc too; the left operand may be read early, before the call, or
\* after it, when a frequency that failed is forgotten.
BothStatus(asked, w, early) ==
    LET okFreq == StatusOf("freq", asked, w, isCmdSucc)
    IN StatusOf("pow", asked, w, okFreq) /\ (early => okFreq)

InstrSetFreqPow(f, p) ==
    LET asked == [freq |-> f, pow |-> p] IN
    \E w \in [Settings -> Writes], early \in BOOLEAN :
        LET sent == {s \in Settings : asked[s] # now[s]}
            ok == BothStatus(asked, w, early)
        IN
        /\ IsGenerator
        /\ now' = Remember(asked, w) /\ isCmdSucc' = ok
        /\ gen' = [s \in Settings |->
                      IF s \in sent /\ w[s] # "lost" THEN asked[s] ELSE gen[s]]
        /\ astray' = {s \in Settings :
                        IF s \in sent /\ w[s] # "lost" THEN w[s] = "late" ELSE s \in astray}
        /\ claims' = IF ok THEN {<<"freq", f>>, <<"pow", p>>} ELSE {}
        /\ UNCHANGED rf

InstrOpenPow(on) ==
    \E w \in Writes :
        /\ IsGenerator
        /\ isCmdSucc' = (w = "done")
        /\ rf' = IF w = "lost" THEN rf ELSE on
        /\ UNCHANGED <<now, gen, astray, claims>>

\* InstrGetReferenceStatus of the SMx driver: a lost reference resets the
\* generator, but not the driver.  Every other outcome, and the other driver's
\* query, changes nothing.
InstrGetReferenceStatus ==
    \E w \in Writes :
        /\ IsGenerator /\ kind = "SMx"
        /\ ResetBy(w)
        /\ astray' = IF w = "lost" THEN astray ELSE {}
        /\ UNCHANGED <<now, isCmdSucc, claims>>

(***************************************************************************)
(* Power sensors.                                                            *)
(***************************************************************************)
IsSensor == kind \in Sensors /\ UNCHANGED <<kind, bus, generator>>

\* A message that arrives: a message bus discards what was not read.
Received(q) == IF bus = "message" THEN <<>> ELSE q

\* A late answer turns up.
Arrive ==
    /\ IsSensor /\ owed # <<>>
    /\ queue' = Append(queue, Head(owed)) /\ owed' = Tail(owed)
    /\ UNCHANGED <<pc, held, value, untriggered>>

\* A query and its answer: what is waiting and what is to come afterwards.  The
\* query is lost, or its answer comes in time, behind those owed, or later.
Asked(answer) ==
    {[q |-> queue, o |-> owed],
     [q |-> Received(queue \o owed) \o <<answer>>, o |-> <<>>],
     [q |-> Received(queue), o |-> Received(owed) \o <<answer>>]}

Keep(q, o) ==
    /\ Len(q) + Len(o) <= MaxAnswers
    /\ queue' = q /\ owed' = o

\* Reading takes the first answer, if there is one.
Rest(q) == IF q = <<>> THEN <<>> ELSE Tail(q)
First(q) == IF q = <<>> THEN Failed ELSE Head(q)

Aged(q) == [i \in DOMAIN q |-> IF q[i] = Fresh THEN Stale ELSE q[i]]

\* InstrGetSesnor: what was measured before is old from here on.
InstrGetSesnor ==
    /\ IsSensor /\ pc = "idle"
    /\ pc' = IF kind = "U2000A" THEN "fetch" ELSE "trigger"
    /\ queue' = Aged(queue) /\ owed' = Aged(owed) /\ held' = Stale
    /\ untriggered' = FALSE /\ UNCHANGED value

\* TRIG, or rsnrpz_chan_initiate; its status is ignored.
Trigger ==
    \E arrives \in BOOLEAN :
        /\ IsSensor /\ pc = "trigger" /\ pc' = "poll"
        /\ held' = IF arrives THEN Fresh ELSE held
        /\ untriggered' = ~arrives
        /\ IF arrives /\ kind = "NRT"
           THEN queue' = Received(queue) /\ owed' = Received(owed)
           ELSE UNCHANGED <<queue, owed>>
        /\ UNCHANGED value

\* Mutation: the wrong bit of the answer is looked at.
PollWrongBit ==
    /\ kind = "NRT"
    /\ \E r \in Asked(Opc) :
          /\ Keep(Rest(r.q), r.o)
          /\ pc' \in IF First(r.q) \in {Opc, Failed} THEN {"poll"} ELSE {"poll", "fetch"}

\* The NRT driver asks *OPC? until it reads an odd number; a measurement that is
\* read in its place may be odd or not.
PollNrt ==
    /\ kind = "NRT"
    /\ \E r \in Asked(Opc) :
          /\ Keep(Rest(r.q), r.o)
          /\ pc' \in CASE First(r.q) = Opc -> {"fetch"}
                       [] First(r.q) = Failed -> {"poll"}
                       [] OTHER -> {"poll", "fetch"}

\* The NRP-Z driver asks its library until the measurement is complete, which it
\* may never be; the status of the query is ignored.
PollNrpz == kind = "NRPZ" /\ pc' \in {"poll", "fetch"} /\ UNCHANGED <<queue, owed>>

Poll ==
    /\ IsSensor /\ pc = "poll"
    /\ PollNrt \/ PollNrpz
    /\ UNCHANGED <<held, value, untriggered>>

\* Mutation: the answer is read whether or not the query could be written.
FetchAnyway ==
    /\ kind = "U2000A"
    /\ \E r \in Asked(Fresh) : Keep(Rest(r.q), r.o) /\ value' = First(r.q)

\* AgWriteAndRead: nothing is read when the query could not be written.
FetchU2000A ==
    /\ kind = "U2000A"
    /\ \E r \in Asked(Fresh) :
          \/ /\ r # [q |-> queue, o |-> owed]
             /\ Keep(Rest(r.q), r.o) /\ value' = First(r.q)
          \/ /\ LateWrites \/ r = [q |-> queue, o |-> owed]
             /\ Keep(r.q, r.o) /\ value' = Failed

\* The NRT driver reads whether or not its query could be written.
FetchNrt ==
    /\ kind = "NRT"
    /\ \E r \in Asked(held) : Keep(Rest(r.q), r.o) /\ value' = First(r.q)

FetchNrpz ==
    /\ kind = "NRPZ" /\ value' \in {held, Failed} /\ UNCHANGED <<queue, owed>>

Fetch ==
    /\ IsSensor /\ pc = "fetch" /\ pc' = "idle"
    /\ FetchU2000A \/ FetchNrt \/ FetchNrpz
    /\ UNCHANGED <<held, untriggered>>

Next ==
    \/ InstrSession
    \/ \E f \in Freqs, p \in Levels : InstrSetFreqPow(f, p)
    \/ \E on \in Outputs : InstrOpenPow(on)
    \/ InstrGetReferenceStatus
    \/ InstrGetSesnor \/ Trigger \/ Poll \/ Fetch \/ Arrive

Spec == Init /\ [][Next]_vars

\* The instrument answers one of the polls, some day; the driver goes on.
FairSpec == Spec /\ WF_vars(Trigger) /\ WF_vars(Poll /\ pc' = "fetch") /\ WF_vars(Fetch)
-----------------------------------------------------------------------------
\* Every variable has its type.  (_freq_now, _pow_now, _isCmdSucc, _esr)
TypeOK ==
    /\ kind \in Generators \union Sensors /\ bus \in {"message", "socket"}
    /\ now \in [Settings -> Int] /\ gen \in [Settings -> Int]
    /\ isCmdSucc \in BOOLEAN /\ rf \in Outputs
    /\ astray \subseteq Settings /\ claims \subseteq Settings \X Int
    /\ pc \in {"idle", "trigger", "poll", "fetch"}
    /\ queue \in Seq(Answers) /\ owed \in Seq(Answers)
    /\ held \in {Fresh, Stale} /\ value \in Answers \union {Failed}
    /\ untriggered \in BOOLEAN

\* After a call that reported success, the generator has what was asked for, also
\* when nothing was sent because the driver remembered the value, after any
\* sequence of calls, failures and resets.  Exceptions, each of them a defect of
\* the drivers: the generator is at its preset, to which a lost reference reset it
\* behind the driver, or which a new driver's zeroes hide; the frequency's command
\* failed, so that the driver does not remember it, and the good status is that of
\* the level; the setting is astray.  So a request that was skipped may find the
\* preset, but never the value of another request.
\* (ClsSigAgN5181A.hpp:64, ClsSigRsSMxSerial.cpp:56)
SuccessMeansSet ==
    \A c \in claims :
        LET s == c[1] IN
        \/ gen[s] = c[2]
        \/ gen[s] = Reset[s]
        \/ s = "freq" /\ now[s] # c[2]
        \/ s \in astray

Rig == INSTANCE Instruments
    WITH Mixed <- "mixed", route <- "mixed", ResetPow <- Reset["pow"], SMx <- {1},
         cache <- [c \in {1, 2} |-> IF c = 1 THEN now["pow"] ELSE 0],
         gen <- [c \in {1, 2} |-> [pow |-> IF c = 1 THEN gen["pow"] ELSE 0,
                                  rf |-> IF c = 1 THEN rf ELSE "off"]]

\* The drivers keep the contract the models of the API are built on: a level is
\* written when it differs from the cached one, a good status means that it was
\* set or cached, the cache changes with an acknowledged write only, and a lost
\* reference puts the generator at its preset behind that cache.
\* (ClsSigAgN5181A.hpp:88, ClsSigRsSMxSerial.cpp:79 and :141)
GeneratorContract ==
    [][/\ \A f \in Freqs, p \in Levels :
             InstrSetFreqPow(f, p) => Rig!SetFreqPow(1, p, isCmdSucc')
       /\ \A on \in Outputs : InstrOpenPow(on) => Rig!OpenPow(1, on, isCmdSucc')
       /\ InstrGetReferenceStatus => Rig!GetReferenceStatus(1, FALSE)]_vars

\* On a bus that discards unread answers, a triggered reading returns what it
\* measured or fails: no answer that came late, to a poll or an earlier reading,
\* is taken for the power.  (ClsSenRsNrt.hpp:60, ClsInstrAgilent.hpp:55)
FreshReading ==
    (pc = "idle" /\ bus = "message" /\ ~untriggered) => value \in {Failed, Fresh}

\* Every reading ends when the instrument answers one of the polls, however many
\* queries and answers were lost before.  (ClsSenRsNrt.hpp:60, ClsSenRsNrpz.hpp:149)
ReadingReturns == (pc # "idle") ~> (pc = "idle")
=============================================================================
