--------------------------- MODULE DriversProofs ---------------------------
(***************************************************************************)
(* Theorems about Drivers, for all frequencies, levels and reset settings,    *)
(* with or without commands carried out late, and any number of answers       *)
(* waiting.                                                                   *)
(***************************************************************************)
EXTENDS Drivers, SequenceTheorems, TLAPS

Channel == queue \in Seq(Answers) /\ owed \in Seq(Answers)

LEMMA AgedTyped == ASSUME NEW q \in Seq(Answers) PROVE Aged(q) \in Seq(Answers)
<1>1. DOMAIN q = 1..Len(q) /\ Len(q) \in Nat /\ \A i \in 1..Len(q) : q[i] \in Answers
  BY LenProperties, ElementOfSeq
<1>2. Aged(q) \in [1..Len(q) -> Answers]
  BY <1>1 DEF Aged, Answers
<1> QED
  BY <1>1, <1>2, SeqDef

LEMMA AskedTyped ==
    ASSUME Channel, NEW answer \in Answers, NEW r \in Asked(answer)
    PROVE  r.q \in Seq(Answers) /\ r.o \in Seq(Answers)
<1>1. /\ queue \o owed \in Seq(Answers) /\ <<answer>> \in Seq(Answers)
      /\ <<>> \in Seq(Answers)
  BY ConcatProperties, EmptySeq DEF Channel
<1>2. \A q \in Seq(Answers) : Received(q) \in Seq(Answers) /\ q \o <<answer>> \in Seq(Answers)
  BY <1>1, ConcatProperties DEF Received
<1> DEFINE lost == [q |-> queue, o |-> owed]
           prompt == [q |-> Received(queue \o owed) \o <<answer>>, o |-> <<>>]
           late == [q |-> Received(queue), o |-> Received(owed) \o <<answer>>]
<1>3. r \in {lost, prompt, late}
  BY DEF Asked
<1>4. lost.q \in Seq(Answers) /\ lost.o \in Seq(Answers)
  BY DEF Channel
<1>5. prompt.q \in Seq(Answers) /\ prompt.o \in Seq(Answers)
  BY <1>1, <1>2
<1>6. late.q \in Seq(Answers) /\ late.o \in Seq(Answers)
  BY <1>2 DEF Channel
<1> HIDE DEF lost, prompt, late
<1> QED
  BY <1>3, <1>4, <1>5, <1>6

LEMMA ReadTyped ==
    ASSUME NEW q \in Seq(Answers)
    PROVE  Rest(q) \in Seq(Answers) /\ First(q) \in Answers \union {Failed}
BY HeadTailProperties, EmptySeq DEF Rest, First

\* Sensors and generators take no part in each other's steps.
LEMMA TypeGenerator ==
    ASSUME TypeOK,
           \/ InstrSession \/ InstrGetReferenceStatus
           \/ \E f \in Freqs, p \in Levels : InstrSetFreqPow(f, p)
           \/ \E on \in Outputs : InstrOpenPow(on)
    PROVE  TypeOK'
<1> USE DriverAssumption DEF DriverAssumption
<1>1. ASSUME NEW w, ResetBy(w) PROVE gen' \in [Settings -> Int] /\ rf' \in Outputs
  BY <1>1 DEF ResetBy, TypeOK, Outputs
<1>2. CASE InstrSession
  <2>1. now' \in [Settings -> Int]
    BY <1>2 DEF InstrSession
  <2> QED
    BY <1>1, <1>2, <2>1 DEF InstrSession, IsGenerator, sensor, TypeOK
<1>3. CASE InstrGetReferenceStatus
  <2>1. astray' \subseteq Settings /\ gen' \in [Settings -> Int] /\ rf' \in Outputs
    BY <1>1, <1>3 DEF InstrGetReferenceStatus, TypeOK
  <2> QED
    BY <1>3, <2>1 DEF InstrGetReferenceStatus, IsGenerator, sensor, TypeOK
<1>4. ASSUME NEW on \in Outputs, InstrOpenPow(on) PROVE TypeOK'
  BY <1>4 DEF InstrOpenPow, IsGenerator, sensor, TypeOK
<1>5. ASSUME NEW f \in Freqs, NEW p \in Levels, InstrSetFreqPow(f, p) PROVE TypeOK'
  <2> DEFINE asked == [freq |-> f, pow |-> p]
  <2>1. asked \in [Settings -> Int]
    BY DEF Settings
  <2>2. now' \in [Settings -> Int] /\ gen' \in [Settings -> Int] /\ astray' \subseteq Settings
    BY <1>5, <2>1 DEF InstrSetFreqPow, Remember, TypeOK
  <2>3. claims' \subseteq Settings \X Int
    BY <1>5 DEF InstrSetFreqPow, Settings
  <2>4. isCmdSucc' \in BOOLEAN
    BY <1>5 DEF InstrSetFreqPow, BothStatus, StatusOf, TypeOK
  <2>5. UNCHANGED <<kind, bus, rf, pc, queue, owed, held, value, untriggered>>
    BY <1>5 DEF InstrSetFreqPow, IsGenerator, sensor
  <2> QED
    BY <2>2, <2>3, <2>4, <2>5 DEF TypeOK
<1> QED
  BY <1>2, <1>3, <1>4, <1>5

LEMMA TypeSensor ==
    ASSUME TypeOK, InstrGetSesnor \/ Trigger \/ Poll \/ Fetch \/ Arrive
    PROVE  TypeOK'
<1>1. Channel /\ held \in Answers /\ UNCHANGED <<kind, bus, generator>>
  BY DEF TypeOK, Channel, Answers, InstrGetSesnor, Trigger, Poll, Fetch, Arrive, IsSensor
<1>2. SUFFICES /\ pc' \in {"idle", "trigger", "poll", "fetch"} /\ Channel'
               /\ held' \in {Fresh, Stale} /\ value' \in Answers \union {Failed}
               /\ untriggered' \in BOOLEAN
  BY <1>1 DEF TypeOK, Channel, generator
<1>3. CASE InstrGetSesnor
  <2>1. Channel'
    BY <1>1, <1>3, AgedTyped DEF InstrGetSesnor, Channel
  <2> QED
    BY <1>3, <2>1 DEF InstrGetSesnor, TypeOK
<1>4. CASE Trigger
  <2>1. Channel'
    BY <1>1, <1>4, EmptySeq DEF Trigger, Channel, Received
  <2> QED
    BY <1>4, <2>1 DEF Trigger, TypeOK
<1>5. ASSUME NEW answer \in Answers, NEW r \in Asked(answer), Keep(Rest(r.q), r.o) \/ Keep(r.q, r.o)
      PROVE  Channel' /\ First(r.q) \in Answers \union {Failed}
  BY <1>1, <1>5, AskedTyped, ReadTyped DEF Keep, Channel
<1>6. CASE Poll
  <2>1. Channel'
    BY <1>1, <1>5, <1>6 DEF Poll, PollNrt, PollNrpz, Channel, Answers
  <2>2. pc' \in {"poll", "fetch"}
    BY <1>6 DEF Poll, PollNrt, PollNrpz
  <2> QED
    BY <1>6, <2>1, <2>2 DEF Poll, TypeOK
<1>7. CASE Fetch
  <2>1. Channel' /\ value' \in Answers \union {Failed}
    <3>1. CASE FetchU2000A
      BY <1>5, <3>1 DEF FetchU2000A, Answers
    <3>2. CASE FetchNrt
      BY <1>1, <1>5, <3>2 DEF FetchNrt
    <3>3. CASE FetchNrpz
      BY <1>1, <3>3 DEF FetchNrpz, Channel
    <3> QED
      BY <1>7, <3>1, <3>2, <3>3 DEF Fetch
  <2> QED
    BY <1>7, <2>1 DEF Fetch, TypeOK
<1>8. CASE Arrive
  <2>1. Channel'
    BY <1>1, <1>8, HeadTailProperties, AppendProperties DEF Arrive, Channel
  <2> QED
    BY <1>8, <2>1 DEF Arrive, TypeOK
<1> QED
  BY <1>3, <1>4, <1>6, <1>7, <1>8

LEMMA TypeStep == TypeOK /\ [Next]_vars => TypeOK'
<1> SUFFICES ASSUME TypeOK, [Next]_vars PROVE TypeOK'
  OBVIOUS
<1>1. CASE UNCHANGED vars
  BY <1>1 DEF vars, TypeOK
<1> QED
  BY <1>1, TypeGenerator, TypeSensor DEF Next

LEMMA TypeInit == Init => TypeOK
<1> SUFFICES ASSUME Init PROVE TypeOK
  OBVIOUS
<1>1. queue \in Seq(Answers) /\ owed \in Seq(Answers)
  BY EmptySeq DEF Init
<1>2. now \in [Settings -> Int] /\ gen \in [Settings -> Int]
  BY DriverAssumption DEF DriverAssumption, Init
<1> QED
  BY <1>1, <1>2 DEF Init, TypeOK, Outputs

(***************************************************************************)
(* Every variable has its type.  (_freq_now, _pow_now, _isCmdSucc, _esr)      *)
(***************************************************************************)
THEOREM TypeCorrect == Spec => []TypeOK
BY TypeInit, TypeStep, PTL DEF Spec
-----------------------------------------------------------------------------
(***************************************************************************)
(* Signal generators: unless it is astray, a setting is what its driver        *)
(* remembers or that of the preset, and the driver remembers what the last     *)
(* successful call was asked for, but for a frequency whose command failed.    *)
(***************************************************************************)
Remembered ==
    /\ \A s \in Settings : s \notin astray => gen[s] \in {now[s], Reset[s]}
    /\ \A c \in claims : now[c[1]] = c[2] \/ c[1] = "freq"

LEMMA RememberedInit == Init => Remembered
BY DEF Init, Remembered

LEMMA RememberedStep == TypeOK /\ Remembered /\ [Next]_vars => Remembered'
<1> SUFFICES ASSUME TypeOK, Remembered, [Next]_vars PROVE Remembered'
  OBVIOUS
<1>1. CASE UNCHANGED <<gen, now, astray, claims>>
  BY <1>1 DEF Remembered
<1>2. CASE InstrSession
  <2>1. PICK w \in Writes : ResetBy(w) /\ astray' = IF w = "lost" THEN Settings ELSE {}
    BY <1>2 DEF InstrSession
  <2>2. ASSUME NEW s \in Settings, s \notin astray' PROVE gen'[s] = Reset[s]
    BY <2>1, <2>2 DEF ResetBy
  <2> QED
    BY <1>2, <2>2 DEF InstrSession, Remembered
<1>3. CASE InstrGetReferenceStatus
  <2>1. UNCHANGED <<now, claims>> /\ ((UNCHANGED <<gen, astray>>) \/ gen' = Reset)
    BY <1>3 DEF InstrGetReferenceStatus, ResetBy
  <2> QED
    BY <2>1 DEF Remembered
<1>4. ASSUME NEW f \in Freqs, NEW p \in Levels, InstrSetFreqPow(f, p) PROVE Remembered'
  <2> DEFINE request == [freq |-> f, pow |-> p]
             Sent(s, w) == request[s] # now[s] /\ w[s] # "lost"
  <2>1. PICK w \in [Settings -> Writes], early \in BOOLEAN :
           /\ now' = Remember(request, w)
           /\ gen' = [s \in Settings |-> IF Sent(s, w) THEN request[s] ELSE gen[s]]
           /\ astray' = {s \in Settings : IF Sent(s, w) THEN w[s] = "late" ELSE s \in astray}
           /\ claims' = IF BothStatus(request, w, early) THEN {<<"freq", f>>, <<"pow", p>>}
                                                         ELSE {}
    BY <1>4 DEF InstrSetFreqPow
  <2>2. ASSUME NEW s \in Settings, s \notin astray' PROVE gen'[s] \in {now'[s], Reset[s]}
    <3>1. w[s] \in {"done", "lost", "late"}
      BY DEF Writes
    <3> QED
      BY <2>1, <2>2, <3>1 DEF Remember, Remembered
  <2>3. ASSUME BothStatus(request, w, early) PROVE now'["pow"] = p
    <3>1. "pow" \in Settings
      BY DEF Settings
    <3> QED
      BY <2>1, <2>3, <3>1 DEF BothStatus, StatusOf, Remember
  <2>4. ASSUME NEW c \in claims' PROVE now'[c[1]] = c[2] \/ c[1] = "freq"
    BY <2>1, <2>3, <2>4
  <2> QED
    BY <2>2, <2>4 DEF Remembered
<1> QED
  <2>1. CASE UNCHANGED vars
    BY <1>1, <2>1 DEF vars
  <2>2. CASE \E on \in Outputs : InstrOpenPow(on)
    BY <1>1, <2>2 DEF InstrOpenPow
  <2>3. CASE InstrGetSesnor \/ Trigger \/ Poll \/ Fetch \/ Arrive
    BY <1>1, <2>3 DEF InstrGetSesnor, Trigger, Poll, Fetch, Arrive, IsSensor, generator
  <2> QED
    BY <1>2, <1>3, <1>4, <2>1, <2>2, <2>3 DEF Next

(***************************************************************************)
(* A setting asked for in a call that reported success is as asked or that of  *)
(* the preset, never that of another request, unless a command reported as     *)
(* failed moved or left it; for a frequency, unless its own command failed and  *)
(* the good status was that of the level.                                      *)
(* (ClsSigAgN5181A.hpp:64, ClsSigRsSMxSerial.cpp:56)                           *)
(***************************************************************************)
THEOREM SetWhenSuccessful == Spec => []SuccessMeansSet
<1>1. TypeOK /\ Remembered => SuccessMeansSet
  <2> SUFFICES ASSUME TypeOK, Remembered, NEW c \in claims
               PROVE  \/ gen[c[1]] = c[2]
                      \/ gen[c[1]] = Reset[c[1]]
                      \/ c[1] = "freq" /\ now[c[1]] # c[2]
                      \/ c[1] \in astray
    BY DEF SuccessMeansSet
  <2>1. c[1] \in Settings /\ (now[c[1]] = c[2] \/ c[1] = "freq")
    BY DEF TypeOK, Remembered
  <2> QED
    BY <2>1 DEF Remembered
<1> QED
  BY <1>1, TypeInit, TypeStep, RememberedInit, RememberedStep, PTL DEF Spec
-----------------------------------------------------------------------------
(***************************************************************************)
(* The contract of the models of the API: the rig as these drivers show it.   *)
(***************************************************************************)
CacheOf(l) == [c \in {1, 2} |-> IF c = 1 THEN l ELSE 0]
GenOf(l, o) == [c \in {1, 2} |-> [pow |-> IF c = 1 THEN l ELSE 0,
                                 rf |-> IF c = 1 THEN o ELSE "off"]]

LEMMA RigUpdates ==
    ASSUME NEW l, NEW o, NEW x
    PROVE  /\ CacheOf(l)[1] = l
           /\ [CacheOf(l) EXCEPT ![1] = x] = CacheOf(x)
           /\ [GenOf(l, o) EXCEPT ![1].pow = x] = GenOf(x, o)
           /\ [GenOf(l, o) EXCEPT ![1].rf = x] = GenOf(l, x)
<1>1. CacheOf(l)[1] = l
  BY DEF CacheOf
<1>2. [CacheOf(l) EXCEPT ![1] = x] = CacheOf(x)
  BY DEF CacheOf
<1>3. /\ GenOf(l, o)[1] = [pow |-> l, rf |-> o]
      /\ GenOf(x, o) = [GenOf(l, o) EXCEPT ![1] = [pow |-> x, rf |-> o]]
      /\ GenOf(l, x) = [GenOf(l, o) EXCEPT ![1] = [pow |-> l, rf |-> x]]
  BY DEF GenOf
<1>4. /\ [GenOf(l, o)[1] EXCEPT !.pow = x] = [pow |-> x, rf |-> o]
      /\ [GenOf(l, o)[1] EXCEPT !.rf = x] = [pow |-> l, rf |-> x]
  BY <1>3
<1>5. [GenOf(l, o) EXCEPT ![1].pow = x] = GenOf(x, o)
  BY <1>3, <1>4
<1>6. [GenOf(l, o) EXCEPT ![1].rf = x] = GenOf(l, x)
  BY <1>3, <1>4
<1> QED
  BY <1>1, <1>2, <1>5, <1>6

\* What a request does to the level and to the driver's memory of it.
LEMMA LevelWritten ==
    ASSUME TypeOK, NEW f \in Freqs, NEW p \in Levels, InstrSetFreqPow(f, p)
    PROVE  /\ rf' = rf
           /\ p = now["pow"] => now'["pow"] = now["pow"] /\ gen'["pow"] = gen["pow"]
           /\ p # now["pow"] =>
                 \/ now'["pow"] = p /\ gen'["pow"] = p
                 \/ /\ ~isCmdSucc' /\ now'["pow"] = now["pow"]
                    /\ \/ gen'["pow"] = gen["pow"]
                       \/ LateWrites /\ gen'["pow"] = p
<1> DEFINE request == [freq |-> f, pow |-> p]
<1>1. PICK w \in [Settings -> Writes], early \in BOOLEAN :
         /\ now' = Remember(request, w) /\ isCmdSucc' = BothStatus(request, w, early)
         /\ gen' = [s \in Settings |->
                      IF request[s] # now[s] /\ w[s] # "lost" THEN request[s] ELSE gen[s]]
         /\ rf' = rf
  BY DEF InstrSetFreqPow
<1>2. "pow" \in Settings /\ request["pow"] = p
  BY DEF Settings
<1>3. w["pow"] \in {"done", "lost"} \/ (w["pow"] = "late" /\ LateWrites)
  BY <1>2 DEF Writes
<1>4. now'["pow"] = IF p # now["pow"] /\ w["pow"] = "done" THEN p ELSE now["pow"]
  BY <1>1, <1>2 DEF Remember
<1>5. gen'["pow"] = IF p # now["pow"] /\ w["pow"] # "lost" THEN p ELSE gen["pow"]
  BY <1>1, <1>2
<1>6. p # now["pow"] /\ isCmdSucc' => w["pow"] = "done"
  BY <1>1, <1>2 DEF BothStatus, StatusOf
<1> HIDE DEF request
<1> QED
  BY <1>1, <1>3, <1>4, <1>5, <1>6

(***************************************************************************)
(* The drivers keep the contract the models of the API are built on: a level  *)
(* is written when it differs from the cached one, a good status means that it *)
(* was set or cached, the cache changes with an acknowledged write only, and a *)
(* lost reference puts the generator at its preset behind that cache.          *)
(* (ClsSigAgN5181A.hpp:88, ClsSigRsSMxSerial.cpp:79 and :141)                  *)
(***************************************************************************)
THEOREM ContractImplemented == Spec => GeneratorContract
<1>1. ASSUME TypeOK, NEW f \in Freqs, NEW p \in Levels, InstrSetFreqPow(f, p)
      PROVE  Rig!SetFreqPow(1, p, isCmdSucc')
  <2> DEFINE l == now["pow"]
             g == gen["pow"]
  <2>1. CASE p = l
    BY <1>1, <2>1, LevelWritten, RigUpdates DEF Rig!SetFreqPow, CacheOf, GenOf
  <2>2. CASE p # l
    <3>1. \/ CacheOf(l)' = CacheOf(p) /\ GenOf(g, rf)' = GenOf(p, rf)
          \/ /\ ~isCmdSucc' /\ CacheOf(l)' = CacheOf(l)
             /\ \/ GenOf(g, rf)' = GenOf(g, rf)
                \/ LateWrites /\ GenOf(g, rf)' = GenOf(p, rf)
      BY <1>1, <2>2, LevelWritten DEF CacheOf, GenOf
    <3>2. /\ CacheOf(l)[1] # p
          /\ [CacheOf(l) EXCEPT ![1] = p] = CacheOf(p)
          /\ [GenOf(g, rf) EXCEPT ![1].pow = p] = GenOf(p, rf)
      <4>1. CacheOf(l)[1] # p
        BY <2>2, RigUpdates
      <4>2. [CacheOf(l) EXCEPT ![1] = p] = CacheOf(p)
        BY RigUpdates
      <4>3. [GenOf(g, rf) EXCEPT ![1].pow = p] = GenOf(p, rf)
        BY RigUpdates
      <4> QED
        BY <4>1, <4>2, <4>3
    <3>3. Rig!SetFreqPow(1, p, isCmdSucc') <=>
             IF p = CacheOf(l)[1]
             THEN UNCHANGED <<CacheOf(l), GenOf(g, rf)>>
             ELSE \/ /\ CacheOf(l)' = [CacheOf(l) EXCEPT ![1] = p]
                     /\ GenOf(g, rf)' = [GenOf(g, rf) EXCEPT ![1].pow = p]
                  \/ /\ ~isCmdSucc' /\ CacheOf(l)' = CacheOf(l)
                     /\ \/ GenOf(g, rf)' = GenOf(g, rf)
                        \/ /\ LateWrites
                           /\ GenOf(g, rf)' = [GenOf(g, rf) EXCEPT ![1].pow = p]
      BY DEF Rig!SetFreqPow, CacheOf, GenOf
    <3> QED
      BY <3>1, <3>2, <3>3
  <2> QED
    BY <2>1, <2>2
<1>2. ASSUME NEW on \in Outputs, InstrOpenPow(on) PROVE Rig!OpenPow(1, on, isCmdSucc')
  <2> DEFINE g == gen["pow"]
  <2>1. gen' = gen /\ (rf' = on \/ (~isCmdSucc' /\ rf' = rf))
    BY <1>2 DEF InstrOpenPow, Writes
  <2>2. GenOf(g, rf)' = GenOf(g, rf') /\ [GenOf(g, rf) EXCEPT ![1].rf = on] = GenOf(g, on)
    BY <2>1, RigUpdates DEF GenOf
  <2>3. Rig!OpenPow(1, on, isCmdSucc') <=>
           \/ GenOf(g, rf)' = [GenOf(g, rf) EXCEPT ![1].rf = on]
           \/ ~isCmdSucc' /\ GenOf(g, rf)' = GenOf(g, rf)
    BY DEF Rig!OpenPow, GenOf
  <2> QED
    BY <2>1, <2>2, <2>3
<1>3. ASSUME InstrGetReferenceStatus PROVE Rig!GetReferenceStatus(1, FALSE)
  <2> DEFINE g == gen["pow"]
             preset == [pow |-> Reset["pow"], rf |-> "off"]
  <2>1. now' = now /\ (UNCHANGED <<gen, rf>> \/ (gen' = Reset /\ rf' = "off"))
    BY <1>3 DEF InstrGetReferenceStatus, ResetBy
  <2>2. \/ GenOf(g, rf)' = GenOf(g, rf)
        \/ GenOf(g, rf)' = [GenOf(g, rf) EXCEPT ![1] = preset]
    BY <2>1 DEF GenOf
  <2>3. Rig!GetReferenceStatus(1, FALSE) <=>
           /\ CacheOf(now["pow"])' = CacheOf(now["pow"])
           /\ \/ GenOf(g, rf)' = GenOf(g, rf)
              \/ /\ 1 \in {1}
                 /\ GenOf(g, rf)' = [GenOf(g, rf) EXCEPT ![1] = preset]
    BY DEF Rig!GetReferenceStatus, Rig!AtPreset, GenOf, CacheOf
  <2>4. CacheOf(now["pow"])' = CacheOf(now["pow"])
    BY <2>1 DEF CacheOf
  <2> QED
    BY <2>2, <2>3, <2>4
<1>4. TypeOK /\ [Next]_vars =>
         [/\ \A f \in Freqs, p \in Levels :
                InstrSetFreqPow(f, p) => Rig!SetFreqPow(1, p, isCmdSucc')
          /\ \A on \in Outputs : InstrOpenPow(on) => Rig!OpenPow(1, on, isCmdSucc')
          /\ InstrGetReferenceStatus => Rig!GetReferenceStatus(1, FALSE)]_vars
  BY <1>1, <1>2, <1>3
<1> QED
  BY <1>4, TypeInit, TypeStep, PTL DEF Spec, GeneratorContract
-----------------------------------------------------------------------------
(***************************************************************************)
(* Power sensors on a bus that discards unread answers.                       *)
(***************************************************************************)
Polled == (queue = <<>> /\ owed \in {<<>>, <<Opc>>}) \/ (queue = <<Opc>> /\ owed = <<>>)

\* Between the trigger and the reading, the sensor holds the new measurement,
\* and an NRT owes no answer but that of the last poll.
Reading ==
    ~untriggered =>
        /\ (pc \in {"poll", "fetch"} /\ kind # "U2000A") => held = Fresh
        /\ (bus = "message" /\ kind = "NRT") =>
              /\ pc = "poll" => Polled
              /\ pc = "fetch" => queue = <<>> /\ owed = <<>>

FreshInv == Reading /\ FreshReading

LEMMA FreshInit == Init => FreshInv
BY DEF Init, FreshInv, Reading, FreshReading

LEMMA FirstAnswer ==
    /\ First(<<>>) = Failed /\ Rest(<<>>) = <<>>
    /\ \A a \in Answers : First(<<a>>) = a /\ Rest(<<a>>) = <<>>
<1>1. ASSUME NEW a \in Answers PROVE First(<<a>>) = a /\ Rest(<<a>>) = <<>>
  BY DEF First, Rest
<1> QED
  BY <1>1 DEF First, Rest

\* On such a bus, a query is lost, or its answer is the only one.
LEMMA AskedFresh ==
    ASSUME bus = "message", NEW answer, NEW r \in Asked(answer)
    PROVE  \/ r.q = queue /\ r.o = owed /\ r = [q |-> queue, o |-> owed]
           \/ r.q = <<answer>> /\ r.o = <<>>
           \/ r.q = <<>> /\ r.o = <<answer>>
<1>1. <<>> \o <<answer>> = <<answer>>
  OBVIOUS
<1> QED
  BY <1>1 DEF Asked, Received

LEMMA FreshStep == TypeOK /\ FreshInv /\ [Next]_vars => FreshInv'
<1> SUFFICES ASSUME TypeOK, FreshInv, [Next]_vars PROVE FreshInv'
  OBVIOUS
<1>0. Fresh \in Answers /\ Opc \in Answers /\ Opc # Failed
  BY DEF Answers, Fresh, Opc, Failed
<1>1. CASE UNCHANGED <<kind, bus, sensor>>
  BY <1>1 DEF sensor, FreshInv, Reading, FreshReading, Polled
<1>2. CASE InstrGetSesnor
  BY <1>2 DEF InstrGetSesnor, IsSensor, FreshInv, Reading, FreshReading
<1>3. CASE Trigger
  BY <1>3 DEF Trigger, IsSensor, Received, FreshInv, Reading, FreshReading, Polled
<1>4. CASE Poll
  <2>1. UNCHANGED <<kind, bus, held, untriggered>> /\ pc = "poll" /\ pc' \in {"poll", "fetch"}
    BY <1>4 DEF Poll, IsSensor, PollNrt, PollNrpz
  <2>2. CASE kind = "NRT" /\ bus = "message" /\ ~untriggered
    <3>1. Polled
      BY <2>1, <2>2 DEF FreshInv, Reading
    <3>2. PICK r \in Asked(Opc) :
             /\ queue' = Rest(r.q) /\ owed' = r.o
             /\ pc' \in CASE First(r.q) = Opc -> {"fetch"}
                          [] First(r.q) = Failed -> {"poll"}
                          [] OTHER -> {"poll", "fetch"}
      BY <1>4, <2>2 DEF Poll, PollNrt, PollNrpz, Keep
    <3>3. \/ r.q = <<>> /\ r.o \in {<<>>, <<Opc>>}
          \/ r.q = <<Opc>> /\ r.o = <<>>
      BY <2>2, <3>1, AskedFresh DEF Polled
    <3>4. CASE r.q = <<>> /\ r.o \in {<<>>, <<Opc>>}
      <4>1. queue' = <<>> /\ owed' \in {<<>>, <<Opc>>} /\ pc' = "poll"
        BY <1>0, <3>2, <3>4, FirstAnswer
      <4> QED
        BY <2>1, <2>2, <4>1 DEF FreshInv, Reading, FreshReading, Polled
    <3>5. CASE r.q = <<Opc>> /\ r.o = <<>>
      <4>1. queue' = <<>> /\ owed' = <<>> /\ pc' = "fetch"
        BY <1>0, <3>2, <3>5, FirstAnswer
      <4> QED
        BY <2>1, <2>2, <4>1 DEF FreshInv, Reading, FreshReading
    <3> QED
      BY <3>3, <3>4, <3>5
  <2> QED
    BY <2>1, <2>2 DEF FreshInv, Reading, FreshReading
<1>5. CASE Fetch
  <2>1. UNCHANGED <<kind, bus, held, untriggered>> /\ pc = "fetch" /\ pc' = "idle"
    BY <1>5 DEF Fetch, IsSensor
  <2>2. ASSUME bus = "message", ~untriggered PROVE value' \in {Failed, Fresh}
    <3>1. CASE FetchU2000A
      <4>1. PICK r \in Asked(Fresh) :
               \/ r # [q |-> queue, o |-> owed] /\ value' = First(r.q)
               \/ value' = Failed
        BY <3>1 DEF FetchU2000A
      <4> QED
        BY <1>0, <2>2, <4>1, AskedFresh, FirstAnswer
    <3>2. CASE FetchNrt
      <4>1. PICK r \in Asked(held) : value' = First(r.q)
        BY <3>2 DEF FetchNrt
      <4>2. held = Fresh /\ queue = <<>>
        BY <2>1, <2>2, <3>2 DEF FetchNrt, FreshInv, Reading
      <4> QED
        BY <1>0, <2>2, <4>1, <4>2, AskedFresh, FirstAnswer
    <3>3. CASE FetchNrpz
      BY <2>1, <2>2, <3>3 DEF FetchNrpz, FreshInv, Reading
    <3> QED
      BY <1>5, <3>1, <3>2, <3>3 DEF Fetch
  <2> QED
    BY <2>1, <2>2 DEF FreshInv, Reading, FreshReading
<1>6. CASE Arrive
  <2>1. UNCHANGED <<kind, bus, pc, held, value, untriggered>> /\ owed # <<>>
        /\ queue' = Append(queue, Head(owed)) /\ owed' = Tail(owed)
    BY <1>6 DEF Arrive, IsSensor
  <2>2. ASSUME Polled PROVE Polled'
    <3>1. queue = <<>> /\ owed = <<Opc>>
      BY <2>1, <2>2 DEF Polled
    <3>2. Append(<<>>, Head(<<Opc>>)) = <<Opc>> /\ Tail(<<Opc>>) = <<>>
      OBVIOUS
    <3> QED
      BY <2>1, <3>1, <3>2 DEF Polled
  <2> QED
    BY <2>1, <2>2 DEF FreshInv, Reading, FreshReading
<1> QED
  <2>1. CASE UNCHANGED vars
    BY <1>1, <2>1 DEF vars, sensor
  <2>2. CASE \/ InstrSession \/ InstrGetReferenceStatus
             \/ \E f \in Freqs, p \in Levels : InstrSetFreqPow(f, p)
             \/ \E on \in Outputs : InstrOpenPow(on)
    <3>1. IsGenerator
      BY <2>2 DEF InstrSession, InstrGetReferenceStatus, InstrSetFreqPow, InstrOpenPow
    <3> QED
      BY <1>1, <3>1 DEF IsGenerator
  <2> QED
    BY <1>2, <1>3, <1>4, <1>5, <1>6, <2>1, <2>2 DEF Next

(***************************************************************************)
(* On a bus that discards unread answers, a triggered reading returns what it *)
(* measured or fails: no answer that came late, to a poll or an earlier        *)
(* reading, is taken for the power.                                            *)
(* (ClsSenRsNrt.hpp:60, ClsInstrAgilent.hpp:55)                                *)
(***************************************************************************)
THEOREM ReadsFresh == Spec => []FreshReading
<1>1. FreshInv => FreshReading
  BY DEF FreshInv
<1> QED
  BY <1>1, TypeInit, TypeStep, FreshInit, FreshStep, PTL DEF Spec
-----------------------------------------------------------------------------
(***************************************************************************)
(* The answers under way, and how long a reading takes.                       *)
(***************************************************************************)
Under(q, o) ==
    \/ q = <<>> /\ o = <<>>
    \/ \E a \in Answers : (q = <<a>> /\ o = <<>>) \/ (q = <<>> /\ o = <<a>>)

\* A bus that discards unread answers never has two of them.
OneAnswer == bus = "message" => Len(queue) + Len(owed) <= 1

\* On such a bus the "1" that answers a poll is never taken for a power, not even
\* when the trigger was lost.
NoPollIsPower == bus = "message" /\ pc = "idle" => value # Opc

\* The poll that lets an NRT be read took the only answer there was; a generator
\* is never read.
ChannelInv ==
    /\ bus = "message" => Under(queue, owed)
    /\ bus = "message" /\ kind = "NRT" /\ pc = "fetch" => queue = <<>> /\ owed = <<>>
    /\ NoPollIsPower
    /\ kind \in Generators => pc = "idle"

LEMMA ChannelInit == Init => ChannelInv
BY DEF Init, ChannelInv, Under, NoPollIsPower, Failed, Opc

LEMMA UnderAged == ASSUME Under(queue, owed) PROVE Under(Aged(queue), Aged(owed))
<1>1. Aged(<<>>) = <<>>
  BY DEF Aged
<1>2. ASSUME NEW a \in Answers PROVE \E b \in Answers : Aged(<<a>>) = <<b>>
  <2>1. Aged(<<a>>) = <<IF a = Fresh THEN Stale ELSE a>>
    BY DEF Aged
  <2> QED
    BY <2>1 DEF Answers
<1> QED
  BY <1>1, <1>2 DEF Under

\* What a query leaves, and what is left after reading its answer.
LEMMA UnderAsked ==
    ASSUME bus = "message", Under(queue, owed), NEW answer \in Answers, NEW r \in Asked(answer)
    PROVE  /\ Under(r.q, r.o) /\ Under(Rest(r.q), r.o)
           /\ First(r.q) # Failed => Rest(r.q) = <<>> /\ r.o = <<>>
<1>1. Failed \notin Answers
  BY DEF Failed, Answers, Opc, Fresh, Stale
<1>2. Under(r.q, r.o)
  BY AskedFresh DEF Under
<1>3. \A a : <<a>> # <<>>
  OBVIOUS
<1> QED
  BY <1>1, <1>2, <1>3, FirstAnswer DEF Under

LEMMA ChannelStep == TypeOK /\ ChannelInv /\ [Next]_vars => ChannelInv'
<1> SUFFICES ASSUME TypeOK, ChannelInv, [Next]_vars PROVE ChannelInv'
  OBVIOUS
<1>0. Fresh \in Answers /\ Opc \in Answers /\ Fresh # Opc /\ Failed # Opc /\ Stale # Opc
  BY DEF Answers, Fresh, Opc, Failed, Stale
<1> USE DEF Generators, Sensors
<1>1. CASE UNCHANGED <<kind, bus, sensor>>
  BY <1>1 DEF sensor, ChannelInv, NoPollIsPower
<1>2. CASE InstrGetSesnor
  BY <1>2, UnderAged DEF InstrGetSesnor, IsSensor, ChannelInv, NoPollIsPower
<1>3. CASE Trigger
  <2>1. bus = "message" => Received(queue) = <<>> /\ Received(owed) = <<>>
    BY DEF Received
  <2> QED
    BY <1>3, <2>1 DEF Trigger, IsSensor, ChannelInv, NoPollIsPower, Under
<1>4. CASE Poll
  <2>1. UNCHANGED <<kind, bus, held, untriggered>> /\ pc = "poll" /\ pc' \in {"poll", "fetch"}
    BY <1>4 DEF Poll, IsSensor, PollNrt, PollNrpz
  <2>2. CASE kind = "NRT" /\ bus = "message"
    <3>1. PICK r \in Asked(Opc) :
             /\ queue' = Rest(r.q) /\ owed' = r.o
             /\ pc' \in CASE First(r.q) = Opc -> {"fetch"}
                          [] First(r.q) = Failed -> {"poll"}
                          [] OTHER -> {"poll", "fetch"}
      BY <1>4, <2>2 DEF Poll, PollNrt, PollNrpz, Keep
    <3>2. pc' = "fetch" => First(r.q) # Failed
      BY <1>0, <3>1
    <3> QED
      BY <1>0, <2>1, <2>2, <3>1, <3>2, UnderAsked DEF ChannelInv, NoPollIsPower
  <2>3. CASE kind # "NRT" /\ bus = "message"
    <3>1. UNCHANGED <<queue, owed>>
      BY <1>4, <2>3 DEF Poll, PollNrt, PollNrpz
    <3> QED
      BY <2>1, <2>3, <3>1 DEF ChannelInv, NoPollIsPower
  <2> QED
    BY <2>1, <2>2, <2>3 DEF ChannelInv, NoPollIsPower
<1>5. CASE Fetch
  <2>1. UNCHANGED <<kind, bus, held, untriggered>> /\ pc = "fetch" /\ pc' = "idle"
    BY <1>5 DEF Fetch, IsSensor
  <2>2. ASSUME bus = "message" PROVE Under(queue', owed') /\ value' # Opc
    <3>1. CASE FetchU2000A
      <4>1. PICK r \in Asked(Fresh) :
               \/ /\ r # [q |-> queue, o |-> owed]
                  /\ queue' = Rest(r.q) /\ owed' = r.o /\ value' = First(r.q)
               \/ queue' = r.q /\ owed' = r.o /\ value' = Failed
        BY <3>1 DEF FetchU2000A, Keep
      <4>2. Under(r.q, r.o) /\ Under(Rest(r.q), r.o)
        BY <1>0, <2>2, UnderAsked DEF ChannelInv
      <4>3. r # [q |-> queue, o |-> owed] => First(r.q) \in {Fresh, Failed}
        BY <1>0, <2>2, AskedFresh, FirstAnswer
      <4> QED
        BY <1>0, <4>1, <4>2, <4>3
    <3>2. CASE FetchNrt
      <4>1. PICK r \in Asked(held) : queue' = Rest(r.q) /\ owed' = r.o /\ value' = First(r.q)
        BY <3>2 DEF FetchNrt, Keep
      <4>2. held \in Answers /\ held # Opc /\ queue = <<>>
        BY <1>0, <2>1, <2>2, <3>2 DEF FetchNrt, ChannelInv, TypeOK, Answers
      <4>3. Under(queue', owed')
        BY <2>2, <4>1, <4>2, UnderAsked DEF ChannelInv
      <4>4. First(r.q) \in {held, Failed}
        BY <2>2, <4>2, AskedFresh, FirstAnswer
      <4> QED
        BY <1>0, <4>1, <4>2, <4>3, <4>4
    <3>3. CASE FetchNrpz
      BY <1>0, <2>2, <3>3 DEF FetchNrpz, ChannelInv, TypeOK
    <3> QED
      BY <1>5, <3>1, <3>2, <3>3 DEF Fetch
  <2> QED
    BY <2>1, <2>2 DEF ChannelInv, NoPollIsPower
<1>6. CASE Arrive
  <2>1. UNCHANGED <<kind, bus, pc, held, value, untriggered>> /\ owed # <<>>
        /\ queue' = Append(queue, Head(owed)) /\ owed' = Tail(owed)
    BY <1>6 DEF Arrive, IsSensor
  <2>2. ASSUME Under(queue, owed) PROVE Under(queue', owed')
    <3>1. PICK a \in Answers : queue = <<>> /\ owed = <<a>>
      BY <2>1, <2>2 DEF Under
    <3>2. Append(<<>>, Head(<<a>>)) = <<a>> /\ Tail(<<a>>) = <<>>
      OBVIOUS
    <3> QED
      BY <2>1, <3>1, <3>2 DEF Under
  <2> QED
    BY <2>1, <2>2 DEF ChannelInv, NoPollIsPower
<1> QED
  <2>1. CASE UNCHANGED vars
    BY <1>1, <2>1 DEF vars, sensor
  <2>2. CASE \/ InstrSession \/ InstrGetReferenceStatus
             \/ \E f \in Freqs, p \in Levels : InstrSetFreqPow(f, p)
             \/ \E on \in Outputs : InstrOpenPow(on)
    <3>1. IsGenerator
      BY <2>2 DEF InstrSession, InstrGetReferenceStatus, InstrSetFreqPow, InstrOpenPow
    <3> QED
      BY <1>1, <3>1 DEF IsGenerator
  <2> QED
    BY <1>2, <1>3, <1>4, <1>5, <1>6, <2>1, <2>2 DEF Next

LEMMA ChannelAlways == Spec => []ChannelInv
BY TypeInit, TypeStep, ChannelInit, ChannelStep, PTL DEF Spec

\* On a bus that discards unread answers there is never more than one, whatever
\* is lost or late, so the bound on the answers waiting restricts nothing there.
\* (ClsInstrAgilent.hpp:55)
THEOREM OneAnswerAtMost == Spec => []OneAnswer
<1>1. ChannelInv => OneAnswer
  <2> SUFFICES ASSUME bus = "message", Under(queue, owed) PROVE Len(queue) + Len(owed) <= 1
    BY DEF ChannelInv, OneAnswer
  <2>1. Len(<<>>) = 0
    OBVIOUS
  <2>2. CASE queue = <<>> /\ owed = <<>>
    BY <2>1, <2>2
  <2>3. ASSUME NEW a \in Answers,
               (queue = <<a>> /\ owed = <<>>) \/ (queue = <<>> /\ owed = <<a>>)
        PROVE  Len(queue) + Len(owed) <= 1
    <3>1. Len(<<a>>) = 1
      OBVIOUS
    <3>2. CASE queue = <<a>> /\ owed = <<>>
      <4>1. Len(queue) = 1 /\ Len(owed) = 0
        BY <2>1, <3>1, <3>2
      <4> QED
        BY <4>1
    <3>3. CASE queue = <<>> /\ owed = <<a>>
      <4>1. Len(queue) = 0 /\ Len(owed) = 1
        BY <2>1, <3>1, <3>3
      <4> QED
        BY <4>1
    <3> QED
      BY <2>3, <3>2, <3>3
  <2> QED
    BY <2>2, <2>3 DEF Under
<1> QED
  BY <1>1, ChannelAlways, PTL

\* The answer to a poll is never returned as a power on such a bus, whether or not
\* the reading was triggered.  (ClsSenRsNrt.hpp:60)
THEOREM PollsAreNotReadings == Spec => []NoPollIsPower
<1>1. ChannelInv => NoPollIsPower
  BY DEF ChannelInv
<1> QED
  BY <1>1, ChannelAlways, PTL

\* The steps a reading still makes, its repeated polls aside.
StepsLeft ==
    CASE pc = "trigger" -> 3 [] pc = "poll" -> 2 [] pc = "fetch" -> 1 [] OTHER -> 0

\* Every step during a reading brings it closer to its end, except that the NRT
\* and NRP-Z drivers may poll again, without a bound, and that a late answer may
\* arrive, of which there is one less then.
ReadingsAdvance ==
    [][pc # "idle" =>
          \/ StepsLeft' < StepsLeft
          \/ kind \in {"NRT", "NRPZ"} /\ pc = "poll" /\ pc' = "poll"
          \/ pc' = pc /\ Len(owed') < Len(owed)]_vars

\* A reading never goes back and never restarts: the only things that may keep it
\* are the polls of the NRT and of the NRP-Z driver, which have no bound.  A U2000A
\* is read in one step.  (ClsSenRsNrt.hpp:60, ClsSenRsNrpz.hpp:149)
THEOREM OnlyPollsRepeat == Spec => ReadingsAdvance
<1>1. ASSUME TypeOK, ChannelInv, Next, pc # "idle"
      PROVE  \/ StepsLeft' < StepsLeft
             \/ kind \in {"NRT", "NRPZ"} /\ pc = "poll" /\ pc' = "poll"
             \/ pc' = pc /\ Len(owed') < Len(owed)
  <2>1. CASE Trigger
    BY <2>1 DEF Trigger, StepsLeft
  <2>2. CASE Poll
    BY <2>2 DEF Poll, PollNrt, PollNrpz, StepsLeft
  <2>3. CASE Fetch
    BY <2>3 DEF Fetch, StepsLeft
  <2>4. CASE Arrive
    <3>1. pc' = pc /\ owed \in Seq(Answers) /\ owed # <<>> /\ owed' = Tail(owed)
      BY <1>1, <2>4 DEF Arrive, TypeOK
    <3>2. Len(Tail(owed)) = Len(owed) - 1 /\ Len(owed) \in Nat
      BY <3>1, HeadTailProperties, LenProperties
    <3> QED
      BY <3>1, <3>2
  <2>5. CASE InstrGetSesnor
    BY <1>1, <2>5 DEF InstrGetSesnor
  <2>6. CASE \/ InstrSession \/ InstrGetReferenceStatus
             \/ \E f \in Freqs, p \in Levels : InstrSetFreqPow(f, p)
             \/ \E on \in Outputs : InstrOpenPow(on)
    <3>1. kind \in Generators
      BY <2>6 DEF InstrSession, InstrGetReferenceStatus, InstrSetFreqPow, InstrOpenPow,
                  IsGenerator
    <3> QED
      BY <1>1, <3>1 DEF ChannelInv
  <2> QED
    BY <1>1, <2>1, <2>2, <2>3, <2>4, <2>5, <2>6 DEF Next
<1>2. TypeOK /\ ChannelInv /\ [Next]_vars =>
        [pc # "idle" =>
            \/ StepsLeft' < StepsLeft
            \/ kind \in {"NRT", "NRPZ"} /\ pc = "poll" /\ pc' = "poll"
            \/ pc' = pc /\ Len(owed') < Len(owed)]_vars
  BY <1>1
<1> QED
  BY <1>2, TypeInit, TypeStep, ChannelAlways, PTL DEF Spec, ReadingsAdvance
=============================================================================
