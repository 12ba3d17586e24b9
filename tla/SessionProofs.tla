--------------------------- MODULE SessionProofs ---------------------------
(***************************************************************************)
(* Theorems about Session, for every set of addresses, instruments and lists *)
(* of addresses, and any number of resource managers.                        *)
(***************************************************************************)
EXTENDS Session, SequenceTheorems, FiniteSetTheorems, TLAPS

(***************************************************************************)
(* The inductive invariant.                                                  *)
(***************************************************************************)

\* A call in progress: its address list is long enough, and it has no result.
CallInv ==
    /\ call = "none" => todo = {}
    /\ call = "init" => Len(vaddr) >= 5
    /\ call # "none" => ret = "none"
    /\ vaddr = <<>> => rm = 0

\* Sessions live on open resource managers.
OpenInv ==
    /\ rm # 0 => rm \in rms
    /\ \A d \in Devices : driver[d].lib = "visa" => driver[d].rm \in rms

\* A device that counts as connected has a session.
StatusInv ==
    /\ \A d \in Main : now_status[d] => driver[d].lib \in {"visa", "nrp"}
    /\ isSwhConn => swh = "loaded"

\* In an orderly session: each device is connected where the client asked, and
\* the devices still to be connected have no session yet.
AskedInv ==
    orderly =>
        /\ call = "init" => \A d \in Main : asked[d] = vaddr[Slot[d]]
        /\ \A d \in Main : d \in todo => Free(d)
        /\ \A d \in Main : now_status[d] => driver[d].at = asked[d]

\* In an orderly session: one resource manager at most, and no session without
\* driver outside it.
OrderlyInv ==
    orderly =>
        /\ \A n \in rms : n = rm
        /\ orphans \subseteq rms

VerdictInv ==
    (ret = "OK" /\ orderly /\ rm # 0) => isSwhConn /\ \A d \in Main : now_status[d]

Inv ==
    /\ TypeOK /\ CallInv /\ OpenInv /\ StatusInv /\ AskedInv /\ OrderlyInv /\ VerdictInv

-----------------------------------------------------------------------------
LEMMA InvInit == Init => Inv
<1> SUFFICES ASSUME Init PROVE Inv
  OBVIOUS
<1>1. None \in Drivers
  BY SessionAssumption DEF SessionAssumption, None, Drivers
<1>2. \A d \in Devices : driver[d] = None
  BY DEF Init
<1>3. TypeOK
  <2>1. driver \in [Devices -> Drivers] /\ asked \in [Main -> Addresses]
        /\ now_status \in [Main -> BOOLEAN]
    BY <1>1, SessionAssumption DEF SessionAssumption, Init
  <2>2. vaddr \in Seq(Addresses) /\ rm \in 0..MaxRM
    BY SessionAssumption, EmptySeq DEF SessionAssumption, Init
  <2>3. todo \subseteq Parts /\ rms \subseteq 1..MaxRM /\ orphans \subseteq 0..MaxRM
    BY DEF Init
  <2> QED
    BY <2>1, <2>2, <2>3 DEF Init, TypeOK, Calls
<1>4. CallInv /\ VerdictInv
  BY DEF Init, CallInv, VerdictInv
<1>5. OpenInv /\ StatusInv /\ OrderlyInv
  BY <1>2 DEF Init, OpenInv, StatusInv, OrderlyInv, None
<1>6. AskedInv
  BY DEF Init, AskedInv
<1> QED
  BY <1>3, <1>4, <1>5, <1>6 DEF Inv

\* The addresses the initialisation goes by, and what it remembers of the call.
LEMMA ListTyped ==
    ASSUME TypeOK, NEW list \in Lists
    PROVE  /\ Padded(vaddr \o list) \in Seq(Addresses)
           /\ Padded(vaddr \o list) # <<>>
           /\ \A d \in Main : Slot[d] <= Len(list) => list[Slot[d]] \in Addresses
           /\ vaddr = <<>> /\ Len(Padded(vaddr \o list)) >= 5 =>
                 \A d \in Main :
                     Slot[d] <= Len(list) /\ list[Slot[d]] = Padded(vaddr \o list)[Slot[d]]
<1>1. list \in Seq(Addresses) /\ list # <<>> /\ "1" \in Addresses /\ vaddr \in Seq(Addresses)
  BY SessionAssumption DEF SessionAssumption, TypeOK
<1> DEFINE v == vaddr \o list
<1>2. /\ v \in Seq(Addresses) /\ Len(v) = Len(vaddr) + Len(list)
      /\ vaddr = <<>> => v = list
  BY <1>1, ConcatProperties, ConcatEmptySeq
<1>3. Len(list) \in Nat /\ Len(list) > 0 /\ Len(vaddr) \in Nat
  BY <1>1, EmptySeq, LenProperties
<1>4. /\ Append(v, "1") \in Seq(Addresses)
      /\ Len(Append(v, "1")) = Len(v) + 1
      /\ \A i \in 1..Len(v) : Append(v, "1")[i] = v[i]
  BY <1>1, <1>2, AppendProperties
<1>5. Padded(v) \in Seq(Addresses) /\ Len(Padded(v)) > 0
  BY <1>2, <1>3, <1>4 DEF Padded
<1>6. \A d \in Main : Slot[d] \in 1..4
  BY DEF Main, Slot
<1>7. \A d \in Main : Slot[d] <= Len(list) => list[Slot[d]] \in Addresses
  BY <1>1, <1>3, <1>6, ElementOfSeq
<1>8. ASSUME vaddr = <<>>, Len(Padded(v)) >= 5, NEW d \in Main
      PROVE  Slot[d] <= Len(list) /\ list[Slot[d]] = Padded(v)[Slot[d]]
  BY <1>2, <1>3, <1>4, <1>6, <1>8 DEF Padded
<1>9. Padded(v) # <<>>
  BY <1>5, EmptySeq
<1> QED
  BY <1>5, <1>7, <1>8, <1>9

LEMMA InvSetInit == ASSUME Inv, NEW list \in Lists, fnSetInit(list) PROVE Inv'
<1> DEFINE v == Padded(vaddr \o list)
<1>1. TypeOK /\ CallInv /\ OpenInv /\ StatusInv /\ AskedInv /\ OrderlyInv
  BY DEF Inv
<1>2. /\ v \in Seq(Addresses) /\ v # <<>>
      /\ \A d \in Main : Slot[d] <= Len(list) => list[Slot[d]] \in Addresses
      /\ vaddr = <<>> /\ Len(v) >= 5 =>
            \A d \in Main : Slot[d] <= Len(list) /\ list[Slot[d]] = v[Slot[d]]
  BY <1>1, ListTyped
<1>3. /\ call = "none" /\ todo = {} /\ vaddr' = v
      /\ asked' = [d \in Main |-> IF Slot[d] <= Len(list) THEN list[Slot[d]] ELSE "0"]
      /\ orderly' => orderly /\ vaddr = <<>> /\ rm = 0 /\ \A d \in Main : Free(d)
      /\ orderly' \in BOOLEAN
      /\ UNCHANGED <<driver, now_status, isSwhConn, swh, external, orphans>>
  BY <1>1 DEF fnSetInit, Idle, CallInv, answers, TypeOK
<1> HIDE DEF v
<1>4. asked' \in [Main -> Addresses]
  BY <1>2, <1>3, SessionAssumption DEF SessionAssumption
\* The three outcomes agree on what the invariant needs.
<1>5. /\ rm' \in 0..MaxRM /\ rms' \subseteq 1..MaxRM /\ rms \subseteq rms'
      /\ call' \in {"none", "init"} /\ todo' \subseteq Parts /\ ret' \in {"none", "OK", "ERROR"}
      /\ call' = "none" => todo' = {}
      /\ call' = "init" => ret' = "none" /\ Len(v) >= 5
      /\ ret' = "OK" /\ rm = 0 => rm' = 0
      /\ rm' # 0 => rm' \in rms'
      /\ \A n \in rms' : n \in rms \/ n = rm'
      /\ rm = 0 /\ rm' = 0 => rms' = rms
  <2>1. CASE NoRM
    BY <1>1, <1>3, <2>1, SessionAssumption DEF NoRM, TypeOK, OpenInv, CallInv, SessionAssumption
  <2>2. CASE TooFew(v)
    BY <1>1, <1>3, <2>2 DEF TooFew, OpenRM, TypeOK, CallInv
  <2>3. CASE ConnectAll(v)
    BY <1>1, <1>3, <2>3 DEF ConnectAll, OpenRM, TypeOK, CallInv
  <2> QED
    BY <2>1, <2>2, <2>3 DEF fnSetInit, v
<1>6. TypeOK'
  BY <1>1, <1>2, <1>3, <1>4, <1>5 DEF TypeOK, Calls, external
<1>7. CallInv'
  BY <1>1, <1>2, <1>3, <1>5 DEF CallInv
<1>8. OpenInv'
  BY <1>1, <1>3, <1>5 DEF OpenInv
<1>9. StatusInv'
  BY <1>1, <1>3 DEF StatusInv
<1>10. AskedInv'
  <2>1. \A d \in Main : Free(d) => ~now_status[d]
    BY <1>1 DEF StatusInv, Free, Held
  <2> QED
    BY <1>2, <1>3, <1>5, <2>1 DEF AskedInv, Free
<1>11. OrderlyInv'
  <2> SUFFICES ASSUME orderly' PROVE /\ \A n \in rms' : n = rm'
                                     /\ orphans' \subseteq rms'
    BY DEF OrderlyInv
  <2>1. orderly /\ rm = 0 /\ rms = {} /\ orphans = {}
    BY <1>1, <1>3 DEF OrderlyInv, TypeOK
  <2> QED
    BY <1>3, <1>5, <2>1
<1>12. VerdictInv'
  BY <1>3, <1>5 DEF VerdictInv
<1> QED
  BY <1>6, <1>7, <1>8, <1>9, <1>10, <1>11, <1>12 DEF Inv

-----------------------------------------------------------------------------
LEMMA InvConn ==
    ASSUME Inv, NEW d \in Parts, NEW a \in Addresses, JcConn(d, a) PROVE Inv'
<1>1. TypeOK /\ CallInv /\ OpenInv /\ StatusInv /\ AskedInv /\ OrderlyInv
  BY DEF Inv
<1>2. /\ call = "none" /\ call' = "conn" /\ todo' = {d} /\ ret' = "none"
      /\ asked' = IF d \in Main THEN [asked EXCEPT ![d] = a] ELSE asked
      /\ orderly' = (orderly /\ (d \in Main => Free(d)))
      /\ UNCHANGED <<vaddr, rm, driver, now_status, isSwhConn, swh, ext_sen_index,
                     isExtSenConn, rms, orphans>>
  BY DEF JcConn, Idle, answers, external
<1>3. asked' \in [Main -> Addresses]
  BY <1>1, <1>2 DEF TypeOK
<1>4. TypeOK'
  BY <1>1, <1>2, <1>3 DEF TypeOK, Calls
<1>5. CallInv' /\ OpenInv' /\ StatusInv' /\ OrderlyInv' /\ VerdictInv'
  BY <1>1, <1>2 DEF CallInv, OpenInv, StatusInv, OrderlyInv, VerdictInv
<1>6. AskedInv'
  <2> SUFFICES ASSUME orderly', NEW e \in Main
               PROVE  /\ e \in todo' => Free(e)'
                      /\ now_status'[e] => driver'[e].at = asked'[e]
    BY <1>2 DEF AskedInv
  <2>1. orderly /\ (d \in Main => Free(d))
    BY <1>2
  <2>2. e \in todo' => Free(e)'
    BY <1>2, <2>1 DEF Free
  <2>3. CASE e = d
    <3>1. driver[e].lib \notin {"visa", "nrp"}
      BY <2>1, <2>3 DEF Free, Held
    <3> QED
      BY <1>1, <1>2, <2>2, <3>1 DEF StatusInv
  <2>4. CASE e # d
    <3>1. asked'[e] = asked[e]
      BY <1>1, <1>2, <2>4 DEF TypeOK
    <3> QED
      BY <1>1, <1>2, <2>1, <2>2, <3>1 DEF AskedInv
  <2> QED
    BY <2>3, <2>4
<1> QED
  BY <1>4, <1>5, <1>6 DEF Inv

LEMMA InvDone == ASSUME Inv, InitDone \/ ConnDone PROVE Inv'
<1>1. TypeOK /\ CallInv /\ OpenInv /\ StatusInv /\ AskedInv /\ OrderlyInv /\ VerdictInv
  BY DEF Inv
<1>2. /\ call # "none" /\ todo = {} /\ call' = "none"
      /\ UNCHANGED <<vaddr, rm, driver, now_status, isSwhConn, swh, ext_sen_index,
                     isExtSenConn, todo, rms, orphans, asked, orderly>>
      /\ ret' \in {"none", "OK", "ERROR"}
      /\ ret' = "OK" => isSwhConn /\ \A d \in Main : now_status[d]
  BY <1>1 DEF InitDone, ConnDone, answers, external, CallInv
<1>3. TypeOK'
  BY <1>1, <1>2 DEF TypeOK, Calls
<1>4. CallInv' /\ OpenInv' /\ StatusInv' /\ OrderlyInv' /\ VerdictInv'
  BY <1>1, <1>2 DEF CallInv, OpenInv, StatusInv, OrderlyInv, VerdictInv
<1>5. AskedInv'
  BY <1>1, <1>2 DEF AskedInv, Free
<1> QED
  BY <1>3, <1>4, <1>5 DEF Inv

-----------------------------------------------------------------------------
\* The address a device is looked for at; in an orderly session it is the one
\* the client gave.
LEMMA AddressTyped ==
    ASSUME Inv, NEW d \in Main, d \in todo
    PROVE  Address(d) \in Addresses /\ (orderly => Address(d) = asked[d])
<1>1. TypeOK /\ CallInv /\ AskedInv
  BY DEF Inv
<1>2. CASE call = "init"
  <2>1. Slot[d] \in 1..4 /\ vaddr \in Seq(Addresses) /\ Len(vaddr) \in Nat /\ Len(vaddr) >= 5
    BY <1>1, <1>2, LenProperties DEF Slot, Main, TypeOK, CallInv
  <2>2. vaddr[Slot[d]] \in Addresses
    BY <2>1, ElementOfSeq
  <2> QED
    BY <1>1, <1>2, <2>2 DEF Address, AskedInv
<1>3. CASE call # "init"
  BY <1>1, <1>3 DEF Address, TypeOK
<1> QED
  BY <1>2, <1>3

\* A device has had its turn: it has driver s, and counts as connected or not.
Served(d, s, got) ==
    /\ driver' = [driver EXCEPT ![d] = s]
    /\ now_status' = [now_status EXCEPT ![d] = got]
    /\ got => s.lib \in {"visa", "nrp"}
    /\ got /\ orderly => s.at = asked[d]
    /\ s.lib = "visa" => s.rm \in rms
    /\ orphans' \subseteq 0..MaxRM
    /\ orderly => orphans' \subseteq rms
    /\ UNCHANGED <<isSwhConn, swh>>

LEMMA Outcome ==
    ASSUME Inv, NEW d \in Main, d \in todo, LeaveOut(d) \/ Open(d)
    PROVE  \E s \in Drivers, got \in BOOLEAN : Served(d, s, got)
<1>1. TypeOK /\ CallInv /\ OpenInv /\ StatusInv /\ AskedInv /\ OrderlyInv
  BY DEF Inv
<1>2. Address(d) \in Addresses /\ (orderly => Address(d) = asked[d])
  BY AddressTyped
<1>3. /\ driver[d] \in Drivers /\ d \in Devices /\ now_status[d] \in BOOLEAN
      /\ driver = [driver EXCEPT ![d] = driver[d]]
      /\ now_status = [now_status EXCEPT ![d] = now_status[d]]
      /\ Held(driver[d]) \subseteq 0..MaxRM /\ (orderly => Held(driver[d]) = {})
  <2>1. driver[d] \in Drivers /\ d \in Devices
    BY <1>1 DEF TypeOK, Devices
  <2>2. Held(driver[d]) \subseteq 0..MaxRM
    BY <2>1 DEF Held, Drivers
  <2> QED
    BY <1>1, <2>1, <2>2 DEF TypeOK, AskedInv, Free
<1>4. rm # 0 => rm \in rms /\ rm \in 0..MaxRM
  BY <1>1 DEF OpenInv, TypeOK
<1>5. orphans \subseteq 0..MaxRM /\ (orderly => orphans \subseteq rms)
  BY <1>1 DEF TypeOK, OrderlyInv
\* Without a new driver: the status stays or is lowered.
<1>6. CASE LeaveOut(d) \/ (Open(d) /\ (Unsupported(d) \/ NotFound(d)))
  <2>1. PICK got \in BOOLEAN : now_status' = [now_status EXCEPT ![d] = got] /\ (got => now_status[d])
    BY <1>3, <1>6 DEF LeaveOut, Open, Unsupported, NotFound
  <2>2. /\ UNCHANGED <<driver, isSwhConn, swh>>
        /\ orphans' = orphans \/ (rm # 0 /\ orphans' = orphans \union {rm})
    BY <1>6 DEF LeaveOut, Open, Unsupported, NotFound
  <2>3. /\ now_status[d] => driver[d].lib \in {"visa", "nrp"}
        /\ now_status[d] /\ orderly => driver[d].at = asked[d]
        /\ driver[d].lib = "visa" => driver[d].rm \in rms
    BY <1>1, <1>3 DEF StatusInv, AskedInv, OpenInv
  <2>4. orphans' \subseteq 0..MaxRM /\ (orderly => orphans' \subseteq rms)
    BY <1>4, <1>5, <2>2
  <2> QED
    BY <1>3, <2>1, <2>2, <2>3, <2>4 DEF Served
\* With a new driver.
<1>7. ASSUME NEW s \in Drivers, NEW got \in BOOLEAN, Replace(d, s),
             now_status' = [now_status EXCEPT ![d] = got],
             got => s.lib \in {"visa", "nrp"}, s.at = Address(d),
             s.lib = "visa" => s.rm \in rms, UNCHANGED <<isSwhConn, swh>>
      PROVE  \E t \in Drivers, g \in BOOLEAN : Served(d, t, g)
  <2>1. orphans' \subseteq 0..MaxRM /\ (orderly => orphans' \subseteq rms)
    BY <1>3, <1>5, <1>7 DEF Replace
  <2>2. driver' = [driver EXCEPT ![d] = s] /\ (got /\ orderly => s.at = asked[d])
    BY <1>2, <1>7 DEF Replace
  <2> QED
    BY <1>7, <2>1, <2>2 DEF Served
<1>8. CASE Open(d) /\ Connected(d, Address(d))
  <2>1. Visa(Address(d)) \in Drivers
    BY <1>1, <1>2 DEF Visa, Drivers, TypeOK
  <2> QED
    BY <1>4, <1>7, <1>8, <2>1 DEF Open, Connected, Visa
<1>9. ASSUME NEW ok \in BOOLEAN, d = "sen", Open(d), TryNrp(Address(d), ok)
      PROVE  \E t \in Drivers, g \in BOOLEAN : Served(d, t, g)
  <2>1. Nrp(Address(d), ok) \in Drivers
    BY <1>2, SessionAssumption DEF Nrp, Drivers, SessionAssumption
  <2> QED
    BY <1>7, <1>9, <2>1 DEF Open, TryNrp, Nrp
<1> QED
  BY <1>6, <1>8, <1>9 DEF Open

LEMMA InvStep == ASSUME Inv, NEW d \in Parts, Step(d) PROVE Inv'
<1>1. TypeOK /\ CallInv /\ OpenInv /\ StatusInv /\ AskedInv /\ OrderlyInv /\ VerdictInv
  BY DEF Inv
<1>2. /\ d \in todo /\ todo' = todo \ {d} /\ call # "none"
      /\ UNCHANGED <<vaddr, rm, ext_sen_index, isExtSenConn, call, ret, rms, asked, orderly>>
  BY <1>1 DEF Step, Turn, Frame, external, CallInv
<1>3. CallInv' /\ VerdictInv'
  BY <1>1, <1>2 DEF CallInv, VerdictInv
<1>4. ASSUME UNCHANGED <<driver, orphans, now_status>>, swh' \in {"none", "made", "loaded"},
             isSwhConn' \in BOOLEAN, isSwhConn' => swh' = "loaded"
      PROVE  Inv'
  <2>1. TypeOK'
    BY <1>1, <1>2, <1>4 DEF TypeOK
  <2>2. OpenInv' /\ StatusInv' /\ AskedInv' /\ OrderlyInv'
    BY <1>1, <1>2, <1>4 DEF OpenInv, StatusInv, AskedInv, OrderlyInv, Free
  <2> QED
    BY <1>3, <2>1, <2>2 DEF Inv
<1>5. CASE d = "swh"
  BY <1>1, <1>4, <1>5 DEF Step, LeaveOut, JcConnSwh, LoadParaIM, Main, TypeOK, StatusInv
<1>6. CASE d # "swh"
  <2>1. d \in Main /\ d \in Devices /\ (LeaveOut(d) \/ Open(d))
    BY <1>6 DEF Step, Parts, Devices
  <2>2. PICK s \in Drivers, got \in BOOLEAN : Served(d, s, got)
    BY <1>2, <2>1, Outcome
  <2>3. /\ driver' \in [Devices -> Drivers] /\ driver'[d] = s
        /\ \A e \in Devices \ {d} : driver'[e] = driver[e]
        /\ now_status' \in [Main -> BOOLEAN] /\ now_status'[d] = got
        /\ \A e \in Main \ {d} : now_status'[e] = now_status[e]
    BY <1>1, <2>1, <2>2 DEF Served, TypeOK
  <2>4. TypeOK'
    BY <1>1, <1>2, <2>2, <2>3 DEF TypeOK, Served
  <2>5. OpenInv'
    BY <1>1, <1>2, <2>2, <2>3 DEF OpenInv, Served
  <2>6. StatusInv'
    BY <1>1, <2>1, <2>2, <2>3 DEF StatusInv, Served, Devices
  <2>7. AskedInv'
    <3> SUFFICES ASSUME orderly, NEW e \in Main
                 PROVE  /\ call = "init" => asked[e] = vaddr[Slot[e]]
                        /\ e \in todo' => Free(e)'
                        /\ now_status'[e] => driver'[e].at = asked[e]
      BY <1>2 DEF AskedInv
    <3>1. e \in Devices
      BY DEF Devices
    <3>2. CASE e = d
      BY <1>1, <1>2, <2>2, <2>3, <3>2 DEF AskedInv, Served
    <3>3. CASE e # d
      BY <1>1, <1>2, <2>3, <3>1, <3>3 DEF AskedInv, Free
    <3> QED
      BY <3>2, <3>3
  <2>8. OrderlyInv'
    BY <1>1, <1>2, <2>2 DEF OrderlyInv, Served
  <2> QED
    BY <1>3, <2>4, <2>5, <2>6, <2>7, <2>8 DEF Inv
<1> QED
  BY <1>5, <1>6

-----------------------------------------------------------------------------
\* Calls about the external sensor leave the other devices alone.
LEMMA InvExternal ==
    ASSUME Inv, NEW s \in Drivers, Idle,
           driver' = [driver EXCEPT !["ext"] = s],
           s.lib = "visa" => s.rm \in rms,
           orphans' \subseteq 0..MaxRM, orderly' \in BOOLEAN,
           orderly' => orderly /\ orphans' \subseteq rms,
           ext_sen_index' \in {0, 1}, isExtSenConn' \in BOOLEAN,
           UNCHANGED <<vaddr, rm, answers, call, todo, ret, rms, asked>>
    PROVE  Inv'
<1>1. TypeOK /\ CallInv /\ OpenInv /\ StatusInv /\ AskedInv /\ OrderlyInv /\ VerdictInv
  BY DEF Inv
<1>2. /\ driver' \in [Devices -> Drivers] /\ driver'["ext"] = s
      /\ \A d \in Main : driver'[d] = driver[d]
      /\ \A d \in Devices : d = "ext" \/ d \in Main
  BY <1>1 DEF TypeOK, Devices, Main
<1>3. TypeOK'
  BY <1>1, <1>2 DEF TypeOK, answers
<1>4. CallInv' /\ VerdictInv' /\ OrderlyInv'
  BY <1>1 DEF CallInv, VerdictInv, OrderlyInv, answers
<1>5. OpenInv'
  BY <1>1, <1>2 DEF OpenInv
<1>6. StatusInv' /\ AskedInv'
  BY <1>1, <1>2 DEF StatusInv, AskedInv, Free, answers
<1> QED
  BY <1>3, <1>4, <1>5, <1>6 DEF Inv

LEMMA InvSelect == ASSUME Inv, NEW i \in 0..2, Select(i) PROVE Inv'
<1>1. TypeOK /\ OpenInv /\ OrderlyInv /\ "ext" \in Devices
  BY DEF Inv, Devices
<1>2. driver["ext"] \in Drivers /\ driver' = [driver EXCEPT !["ext"] = driver["ext"]]
  BY <1>1 DEF Select, TypeOK
<1>3. ext_sen_index' \in {0, 1} /\ isExtSenConn' \in BOOLEAN
  BY <1>1 DEF Select, TypeOK
<1>4. /\ driver["ext"].lib = "visa" => driver["ext"].rm \in rms
      /\ orphans' \subseteq 0..MaxRM /\ orderly' \in BOOLEAN
      /\ orderly' => orderly /\ orphans' \subseteq rms
  BY <1>1 DEF Select, OpenInv, OrderlyInv, TypeOK
<1> QED
  BY <1>2, <1>3, <1>4, InvExternal DEF Select

LEMMA InvConnectExt == ASSUME Inv, NEW a \in ExtSensors, ConnectExt(a) PROVE Inv'
<1>1. TypeOK /\ OpenInv /\ OrderlyInv /\ "ext" \in Devices /\ a \in Addresses
  BY SessionAssumption DEF SessionAssumption, Inv, Devices
<1>2. /\ Idle /\ ext_sen_index' = 1
      /\ UNCHANGED <<vaddr, rm, answers, call, todo, ret, rms, asked>>
  BY DEF ConnectExt
<1>3. driver["ext"] \in Drivers /\ Held(driver["ext"]) \subseteq 0..MaxRM
  <2>1. driver["ext"] \in Drivers
    BY <1>1 DEF TypeOK
  <2> QED
    BY <2>1 DEF Held, Drivers
<1>4. /\ orphans \subseteq 0..MaxRM /\ (orderly => orphans \subseteq rms) /\ orderly \in BOOLEAN
      /\ rm # 0 => rm \in rms /\ rm \in 0..MaxRM
  BY <1>1 DEF TypeOK, OrderlyInv, OpenInv
<1>5. ASSUME NEW s \in Drivers, s.lib = "visa" => s.rm \in rms, Replace("ext", s),
             orderly' = (orderly /\ Free("ext")), isExtSenConn' \in BOOLEAN
      PROVE  Inv'
  <2>1. /\ driver' = [driver EXCEPT !["ext"] = s]
        /\ orphans' \subseteq 0..MaxRM /\ orderly' \in BOOLEAN
        /\ orderly' => orderly /\ orphans' \subseteq rms
    BY <1>3, <1>4, <1>5 DEF Replace, Free
  <2> QED
    BY <1>2, <1>5, <2>1, InvExternal
<1>6. CASE rm # 0 /\ Replace("ext", Visa(a)) /\ isExtSenConn' = TRUE
           /\ orderly' = (orderly /\ Free("ext"))
  <2>1. Visa(a) \in Drivers /\ Visa(a).rm \in rms
    BY <1>1, <1>4, <1>6 DEF Visa, Drivers
  <2> QED
    BY <1>5, <1>6, <2>1
<1>7. CASE rm # 0 /\ orphans' = orphans \union {rm} /\ isExtSenConn' = TRUE
           /\ UNCHANGED <<driver, orderly>>
  <2>1. driver' = [driver EXCEPT !["ext"] = driver["ext"]]
    BY <1>1, <1>7 DEF TypeOK
  <2>2. driver["ext"].lib = "visa" => driver["ext"].rm \in rms
    BY <1>1 DEF OpenInv
  <2>3. /\ orphans' \subseteq 0..MaxRM /\ orderly' \in BOOLEAN
        /\ orderly' => orderly /\ orphans' \subseteq rms
    BY <1>4, <1>7
  <2> QED
    BY <1>2, <1>3, <1>7, <2>1, <2>2, <2>3, InvExternal
<1>8. ASSUME NEW ok \in BOOLEAN, Replace("ext", Nrp(a, ok)), isExtSenConn' = ok,
             orderly' = (orderly /\ Free("ext"))
      PROVE  Inv'
  <2>1. Nrp(a, ok) \in Drivers /\ Nrp(a, ok).lib # "visa"
    BY <1>1, SessionAssumption DEF SessionAssumption, Nrp, Drivers
  <2> QED
    BY <1>5, <1>8, <2>1
<1> QED
  BY <1>6, <1>7, <1>8 DEF ConnectExt

LEMMA InvCloseExt == ASSUME Inv, CloseExt PROVE Inv'
<1>1. TypeOK /\ OrderlyInv
  BY DEF Inv
<1>2. None \in Drivers /\ None.lib # "visa"
  BY SessionAssumption DEF SessionAssumption, None, Drivers
<1>3. /\ orphans' \subseteq 0..MaxRM /\ orderly' \in BOOLEAN
      /\ orderly' => orderly /\ orphans' \subseteq rms
      /\ ext_sen_index' \in {0, 1} /\ isExtSenConn' \in BOOLEAN
  BY <1>1 DEF CloseExt, TypeOK, OrderlyInv
<1> QED
  BY <1>2, <1>3, InvExternal DEF CloseExt

LEMMA InvAnew ==
    ASSUME Anew, rms' \subseteq 1..MaxRM, orphans' \subseteq 0..MaxRM, orderly' \in BOOLEAN,
           orderly' => rms' = {} /\ orphans' = {}
    PROVE  Inv'
<1>1. None \in Drivers /\ None.lib = "none"
  BY SessionAssumption DEF SessionAssumption, None, Drivers
<1>2. \A d \in Devices : driver'[d] = None
  BY DEF Anew
<1>3. TypeOK'
  <2>1. driver' \in [Devices -> Drivers] /\ asked' \in [Main -> Addresses]
        /\ now_status' \in [Main -> BOOLEAN]
    BY <1>1, SessionAssumption DEF SessionAssumption, Anew
  <2>2. vaddr' \in Seq(Addresses) /\ rm' \in 0..MaxRM /\ todo' \subseteq Parts
    BY SessionAssumption, EmptySeq DEF SessionAssumption, Anew
  <2> QED
    BY <2>1, <2>2 DEF Anew, TypeOK, Calls
<1>4. CallInv' /\ VerdictInv' /\ OrderlyInv'
  BY DEF Anew, CallInv, VerdictInv, OrderlyInv
<1>5. OpenInv' /\ StatusInv'
  BY <1>1, <1>2 DEF Anew, OpenInv, StatusInv
<1>6. AskedInv'
  BY DEF Anew, AskedInv
<1> QED
  BY <1>3, <1>4, <1>5, <1>6 DEF Inv

LEMMA InvRelease == ASSUME Inv, release \/ CloseMissing PROVE Inv'
<1>1. TypeOK /\ OpenInv /\ OrderlyInv /\ "ext" \in Devices
  BY DEF Inv, Devices
<1>2. CASE CloseMissing
  BY <1>2, InvAnew DEF CloseMissing
<1>3. CASE release
  <2>1. /\ driver["ext"] \in Drivers /\ Held(driver["ext"]) \subseteq 0..MaxRM
        /\ driver["ext"].lib # "nrp" => Held(driver["ext"]) \subseteq rms
    <3>1. driver["ext"] \in Drivers
      BY <1>1 DEF TypeOK
    <3> QED
      BY <1>1, <3>1 DEF Held, Drivers, OpenInv
  <2>2. rms' \subseteq 1..MaxRM /\ orphans' \subseteq 0..MaxRM /\ orderly' \in BOOLEAN
    BY <1>1, <1>3, <2>1 DEF release, TypeOK
  <2>3. ASSUME orderly' PROVE rms' = {} /\ orphans' = {}
    <3>1. orderly /\ driver["ext"].lib # "nrp"
      BY <1>3, <2>3 DEF release
    <3>2. /\ \A n \in rms : n = rm
          /\ orphans \union Held(driver["ext"]) \subseteq rms
      BY <1>1, <2>1, <3>1 DEF OrderlyInv
    <3>3. \A n \in rms : n # 0
      BY <1>1 DEF TypeOK
    <3> QED
      BY <1>3, <3>2, <3>3 DEF release
  <2> QED
    BY <1>3, <2>2, <2>3, InvAnew DEF release
<1> QED
  BY <1>2, <1>3

-----------------------------------------------------------------------------
LEMMA InvNext == Inv /\ [Next]_vars => Inv'
<1> SUFFICES ASSUME Inv, [Next]_vars PROVE Inv'
  OBVIOUS
<1>1. ASSUME NEW list \in Lists, fnSetInit(list) PROVE Inv'
  BY <1>1, InvSetInit
<1>2. ASSUME NEW c \in Reconnects, JcConn(c[1], c[2]) PROVE Inv'
  <2>1. c[1] \in Parts /\ c[2] \in Addresses
    BY SessionAssumption DEF SessionAssumption
  <2> QED
    BY <1>2, <2>1, InvConn
<1>3. ASSUME NEW d \in Parts, Step(d) PROVE Inv'
  BY <1>3, InvStep
<1>4. CASE InitDone \/ ConnDone
  BY <1>4, InvDone
<1>5. ASSUME NEW i \in 0..2, Select(i) PROVE Inv'
  BY <1>5, InvSelect
<1>6. ASSUME NEW a \in ExtSensors, ConnectExt(a) PROVE Inv'
  BY <1>6, InvConnectExt
<1>7. CASE CloseExt
  BY <1>7, InvCloseExt
<1>8. CASE CloseMissing \/ release
  BY <1>8, InvRelease
<1>9. CASE UNCHANGED vars
  BY <1>9 DEF vars, Inv, TypeOK, CallInv, OpenInv, StatusInv, AskedInv, OrderlyInv,
              VerdictInv, Free
<1> QED
  BY <1>1, <1>2, <1>3, <1>4, <1>5, <1>6, <1>7, <1>8, <1>9 DEF Next

LEMMA Invariant == Spec => []Inv
BY InvInit, InvNext, PTL DEF Spec

(***************************************************************************)
(* Every variable has its type.  (fnSetInit, JcConnSig, JcSetOffsetTX_Config) *)
(***************************************************************************)
THEOREM TypeCorrect == Spec => []TypeOK
<1>1. Inv => TypeOK
  BY DEF Inv
<1> QED
  BY <1>1, Invariant, PTL

(***************************************************************************)
(* A device that counts as connected has a driver on an open session: the     *)
(* session keeps its resource manager, which only an exit closes, together    *)
(* with the driver.  (JcApi.cpp:702, JcPimObject::release)                    *)
(***************************************************************************)
THEOREM ConnectedLive == Spec => []ConnectedMeansLive
<1>1. Inv => ConnectedMeansLive
  <2> SUFFICES ASSUME Inv PROVE ConnectedMeansLive
    OBVIOUS
  <2>1. OpenInv /\ StatusInv /\ AskedInv /\ VerdictInv
    BY DEF Inv
  <2>2. ASSUME NEW d \in Main, now_status[d]
        PROVE  IsOpen(driver[d]) /\ (orderly => driver[d].at = asked[d])
    BY <2>1, <2>2 DEF OpenInv, StatusInv, AskedInv, IsOpen, Devices
  <2> QED
    BY <2>1, <2>2 DEF ConnectedMeansLive, StatusInv, VerdictInv
<1> QED
  BY <1>1, Invariant, PTL

(***************************************************************************)
(* An orderly client leaves nothing open: in an orderly session there is one  *)
(* resource manager at most and no session outside it, so closing it closes   *)
(* them all.  (JcPimObject::release)                                          *)
(***************************************************************************)
THEOREM NothingLeft == Spec => []LeavesNothing
<1>1. Inv => LeavesNothing
  <2> SUFFICES ASSUME Inv, orderly, vaddr = <<>> PROVE rms = {} /\ orphans = {}
    BY DEF LeavesNothing
  <2>1. rm = 0 /\ rms \subseteq 1..MaxRM /\ (\A n \in rms : n = rm) /\ orphans \subseteq rms
    BY DEF Inv, TypeOK, CallInv, OrderlyInv
  <2> QED
    BY <2>1
<1> QED
  BY <1>1, Invariant, PTL

(***************************************************************************)
(* Sessions without an orderly client: however often it initialises, however  *)
(* many connections fail half way, no driver is left with a session that was  *)
(* closed under it, and a session lost by a failed or repeated connection     *)
(* belongs to a resource manager still open, or to the NRP library.           *)
(* (JcPimObject::release, JcConnSig, JcSetOffsetTX_Config)                    *)
(***************************************************************************)
HandlesLive ==
    /\ \A d \in Devices : driver[d].lib = "visa" => IsOpen(driver[d])
    /\ orphans \subseteq rms \union {0}

LostInv ==
    /\ \A d \in Devices : driver[d].lib # "visa" => driver[d].rm = 0
    /\ orphans \subseteq rms \union {0}

\* What a device's session belongs to.
LEMMA HeldOpen ==
    ASSUME Inv, LostInv, NEW d \in Devices
    PROVE  Held(driver[d]) \subseteq rms \union {0}
BY DEF Inv, OpenInv, LostInv, Held

LEMMA LostReplaced ==
    ASSUME Inv, LostInv, NEW d \in Devices, NEW s, Replace(d, s), rms' = rms,
           s.lib # "visa" => s.rm = 0
    PROVE  LostInv'
<1>1. Held(driver[d]) \subseteq rms \union {0}
  BY HeldOpen
<1>2. \A e \in Devices : driver'[e] = IF e = d THEN s ELSE driver[e]
  BY DEF Replace, Inv, TypeOK
<1> QED
  BY <1>1, <1>2 DEF Replace, LostInv

LEMMA LostUnsupported ==
    ASSUME Inv, LostInv, rm # 0, orphans' = orphans \union {rm}, UNCHANGED <<driver, rms>>
    PROVE  LostInv'
BY DEF Inv, OpenInv, LostInv

LEMMA LostKept ==
    ASSUME LostInv, rms \subseteq rms', UNCHANGED <<driver, orphans>> PROVE LostInv'
BY DEF LostInv

LEMMA LostStep == Inv /\ LostInv /\ [Next]_vars => LostInv'
<1> SUFFICES ASSUME Inv, LostInv, [Next]_vars PROVE LostInv'
  OBVIOUS
<1>1. ASSUME NEW list \in Lists, fnSetInit(list) PROVE LostInv'
  <2>1. rms \subseteq rms' /\ UNCHANGED <<driver, orphans>>
    BY <1>1 DEF fnSetInit, NoRM, TooFew, ConnectAll, OpenRM
  <2> QED
    BY <2>1, LostKept
<1>2. ASSUME NEW c \in Reconnects, JcConn(c[1], c[2]) PROVE LostInv'
  BY <1>2, LostKept DEF JcConn
<1>3. ASSUME NEW d \in Parts, Step(d) PROVE LostInv'
  <2>1. rms' = rms /\ d \in Parts
    BY <1>3 DEF Step, Frame
  <2>2. CASE LeaveOut(d) \/ \E ok \in BOOLEAN : JcConnSwh(ok)
    BY <2>1, <2>2, LostKept DEF LeaveOut, JcConnSwh
  <2>3. CASE d \in Main /\ Open(d)
    <3>1. CASE Connected(d, Address(d))
      BY <2>1, <2>3, <3>1, LostReplaced DEF Connected, Visa, Devices
    <3>2. CASE Unsupported(d)
      BY <2>1, <3>2, LostUnsupported DEF Unsupported
    <3>3. CASE NotFound(d)
      BY <2>1, <3>3, LostKept DEF NotFound
    <3>4. ASSUME NEW ok \in BOOLEAN, TryNrp(Address(d), ok) PROVE LostInv'
      BY <2>1, <3>4, LostReplaced DEF TryNrp, Nrp, Devices, Main
    <3> QED
      BY <2>3, <3>1, <3>2, <3>3, <3>4 DEF Open
  <2> QED
    BY <1>3, <2>2, <2>3 DEF Step
<1>4. CASE InitDone \/ ConnDone \/ \E i \in 0..2 : Select(i)
  BY <1>4, LostKept DEF InitDone, ConnDone, Select
<1>5. ASSUME NEW a \in ExtSensors, ConnectExt(a) PROVE LostInv'
  <2>1. rms' = rms /\ "ext" \in Devices
    BY <1>5 DEF ConnectExt, Devices
  <2>2. CASE Replace("ext", Visa(a))
    BY <2>1, <2>2, LostReplaced DEF Visa
  <2>3. ASSUME NEW ok \in BOOLEAN, Replace("ext", Nrp(a, ok)) PROVE LostInv'
    BY <2>1, <2>3, LostReplaced DEF Nrp
  <2>4. CASE rm # 0 /\ orphans' = orphans \union {rm} /\ UNCHANGED driver
    BY <2>1, <2>4, LostUnsupported
  <2> QED
    BY <1>5, <2>2, <2>3, <2>4 DEF ConnectExt
<1>6. CASE CloseExt
  <2>1. \A d \in Devices : driver'[d] = IF d = "ext" THEN None ELSE driver[d]
    BY <1>6 DEF CloseExt, Inv, TypeOK
  <2> QED
    BY <1>6, <2>1 DEF CloseExt, LostInv, None
<1>7. ASSUME Anew, orphans' \subseteq rms' \union {0} PROVE LostInv'
  BY <1>7 DEF Anew, LostInv, None
<1>8. CASE CloseMissing
  BY <1>7, <1>8 DEF CloseMissing
<1>9. CASE release
  <2>1. Held(driver["ext"]) \subseteq rms \union {0}
    BY HeldOpen DEF Devices
  <2> QED
    BY <1>7, <1>9, <2>1 DEF release, LostInv
<1>10. CASE UNCHANGED vars
  BY <1>10, LostKept DEF vars
<1> QED
  BY <1>1, <1>2, <1>3, <1>4, <1>5, <1>6, <1>8, <1>9, <1>10 DEF Next

(***************************************************************************)
(* Releasing closes what it leaves behind: the resource managers an unorderly *)
(* client lost stay open with their sessions, but nothing it still holds is   *)
(* closed under it.                                                           *)
(***************************************************************************)
THEOREM HandlesStayLive == Spec => []HandlesLive
<1>1. Init => LostInv
  BY DEF Init, LostInv, None
<1>2. Inv /\ LostInv => HandlesLive
  BY DEF Inv, OpenInv, LostInv, HandlesLive, IsOpen
<1> QED
  BY <1>1, <1>2, InvInit, InvNext, LostStep, PTL DEF Spec

(***************************************************************************)
(* The steps a call has left: one for each device it has yet to connect, and  *)
(* its return.                                                                *)
(***************************************************************************)
StepsLeft == IF call = "none" THEN 0 ELSE 1 + Cardinality(todo)

\* Nothing happens during a call but that it comes closer to its return.
CallsAdvance == [][call # "none" => StepsLeft' < StepsLeft]_vars

LEMMA PartsFinite ==
    ASSUME NEW S \in SUBSET Parts
    PROVE  IsFiniteSet(S) /\ Cardinality(S) \in 0 .. 5
<1>1. Parts = ((({"sig1"} \union {"sig2"}) \union {"sen"}) \union {"ana"}) \union {"swh"}
  BY DEF Parts, Main
<1>2. IsFiniteSet({"sig1"}) /\ Cardinality({"sig1"}) = 1
  BY FS_Singleton
<1> DEFINE A == {"sig1"} \union {"sig2"}
           B == A \union {"sen"}
           C == B \union {"ana"}
<1>3. IsFiniteSet(A) /\ Cardinality(A) = 2
  BY <1>2, FS_AddElement
<1>4. IsFiniteSet(B) /\ Cardinality(B) = 3
  BY <1>3, FS_AddElement
<1>5. IsFiniteSet(C) /\ Cardinality(C) = 4
  BY <1>4, FS_AddElement
<1>6. IsFiniteSet(Parts) /\ Cardinality(Parts) = 5
  BY <1>1, <1>5, FS_AddElement
<1>7. IsFiniteSet(S) /\ Cardinality(S) <= 5
  BY <1>6, FS_Subset
<1>8. Cardinality(S) \in Nat
  BY <1>7, FS_CardinalityType
<1> QED
  BY <1>7, <1>8

LEMMA StepsBounded == Inv => StepsLeft \in 0 .. 6
<1> SUFFICES ASSUME Inv PROVE StepsLeft \in 0 .. 6
  OBVIOUS
<1>1. todo \in SUBSET Parts
  BY DEF Inv, TypeOK
<1> QED
  BY <1>1, PartsFinite DEF StepsLeft

LEMMA AdvanceStep == Inv /\ [Next]_vars => [call # "none" => StepsLeft' < StepsLeft]_vars
<1> SUFFICES ASSUME Inv, Next, call # "none" PROVE StepsLeft' < StepsLeft
  OBVIOUS
<1>1. todo \in SUBSET Parts
  BY DEF Inv, TypeOK
<1>2. CASE InitDone \/ ConnDone
  BY <1>1, <1>2, PartsFinite DEF InitDone, ConnDone, StepsLeft
<1>3. ASSUME NEW d \in Parts, Step(d) PROVE StepsLeft' < StepsLeft
  <2>1. d \in todo /\ todo' = todo \ {d} /\ call' = call
    BY <1>3 DEF Step, Turn, Frame
  <2>2. Cardinality(todo') = Cardinality(todo) - 1
    BY <1>1, <2>1, PartsFinite, FS_RemoveElement
  <2> QED
    BY <1>1, <2>1, <2>2, PartsFinite DEF StepsLeft
<1>4. ~ (\E list \in Lists : fnSetInit(list)) /\ ~ (\E c \in Reconnects : JcConn(c[1], c[2]))
  BY DEF fnSetInit, JcConn, Idle
<1>5. ~ (\E i \in 0..2 : Select(i)) /\ ~ (\E a \in ExtSensors : ConnectExt(a))
  BY DEF Select, ConnectExt, Idle
<1>6. ~ CloseExt /\ ~ CloseMissing /\ ~ release
  BY DEF CloseExt, CloseMissing, release, Idle
<1> QED
  BY <1>2, <1>3, <1>4, <1>5, <1>6 DEF Next

(***************************************************************************)
(* fnSetInit and the calls that connect one device return after at most six   *)
(* steps: no device is tried twice, and no other call runs in between.        *)
(***************************************************************************)
THEOREM CallsEnd == Spec => [](StepsLeft \in 0 .. 6) /\ CallsAdvance
BY InvInit, InvNext, StepsBounded, AdvanceStep, PTL DEF Spec, CallsAdvance
=============================================================================
