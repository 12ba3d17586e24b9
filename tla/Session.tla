------------------------------ MODULE Session ------------------------------
(***************************************************************************)
(* Connecting to the instruments and letting them go: fnSetInit, the         *)
(* JcConn... calls it is made of, the external power sensor, fnSetExit.      *)
(*                                                                          *)
(* The API object is created by the first call that needs it and starts as   *)
(* its constructor leaves it, so there is no state without it.  A call that  *)
(* connects takes one step per device.  An instrument may not be there, may  *)
(* answer its identification, or stay silent.  VISA resource managers are    *)
(* numbered with the smallest free number; 0 stands for VI_NULL and for the   *)
(* NRP library, which needs none.                                             *)
(***************************************************************************)
EXTENDS Integers, Sequences

CONSTANTS
    Lists,      \* address lists a client passes to fnSetInit
    Idn,        \* what answers at an address: "sig", "ana", "sen" or "other"
    Reconnects, \* devices a client connects itself, each with an address
    ExtSensors, \* addresses it gives for the external power sensor
    MaxAddr,    \* bound on the addresses handed over without an exit
    MaxRM       \* bound on the resource managers open at once

Addresses == DOMAIN Idn     \* "0" asks to leave a device out
Main == {"sig1", "sig2", "sen", "ana"}
Parts == Main \union {"swh"}
Devices == Main \union {"ext"}
Calls == {"none", "init", "conn"}

\* Where a device's address is in the list, and when fnSetInit connects it.
Slot == [sig1 |-> 1, sig2 |-> 2, ana |-> 3, sen |-> 4, swh |-> 5]
Rank == [sig1 |-> 1, sig2 |-> 2, sen |-> 3, ana |-> 4, swh |-> 5]

\* The instruments a device's driver exists for.
Class == [sig1 |-> "sig", sig2 |-> "sig", ana |-> "ana", sen |-> "sen", ext |-> "sen"]

ASSUME SessionAssumption ==
    /\ "0" \in Addresses /\ "1" \in Addresses
    /\ Lists \subseteq Seq(Addresses) \ {<<>>}
    /\ Reconnects \subseteq Parts \X Addresses /\ ExtSensors \subseteq Addresses
    /\ MaxAddr \in Nat /\ MaxRM \in Nat

VARIABLES
    vaddr,          \* the addresses of every fnSetInit since the last exit
    rm,             \* viDefaultRM
    driver,         \* sig1, sig2, ana, sen and ext_sen
    now_status, isSwhConn,
    swh,            \* "none", "made", or "loaded" with its relay tables
    ext_sen_index, isExtSenConn,
    call, todo,     \* the call in progress and the devices it has yet to connect
    ret,
    rms,            \* resource managers open
    orphans,        \* resource managers of open sessions no driver holds
    asked,          \* the address the client last gave for each instrument
    orderly         \* the client has let go of everything before asking again

answers == <<now_status, isSwhConn, swh>>
external == <<ext_sen_index, isExtSenConn>>
vars == <<vaddr, rm, driver, now_status, isSwhConn, swh,
          ext_sen_index, isExtSenConn, call, todo, ret, rms, orphans, asked, orderly>>

None == [lib |-> "none", at |-> "0", rm |-> 0]
Visa(a) == [lib |-> "visa", at |-> a, rm |-> rm]
\* A driver of the NRP library; "dead" when rsnrpz_init failed.
Nrp(a, ok) == [lib |-> IF ok THEN "nrp" ELSE "dead", at |-> a, rm |-> 0]

\* The session of a driver, as the set of the resource manager it belongs to.
Held(s) == IF s.lib \in {"visa", "nrp"} THEN {s.rm} ELSE {}
Free(d) == Held(driver[d]) = {}

Init ==
    /\ vaddr = <<>> /\ rm = 0 /\ driver = [d \in Devices |-> None]
    /\ now_status = [d \in Main |-> FALSE]
    /\ isSwhConn = FALSE /\ swh = "none"
    /\ ext_sen_index = 0 /\ isExtSenConn = FALSE
    /\ call = "none" /\ todo = {} /\ ret = "none"
    /\ rms = {} /\ orphans = {} /\ asked = [d \in Main |-> "0"] /\ orderly = TRUE

Idle == call = "none"

(***************************************************************************)
(* fnSetInit: the addresses are appended to those of earlier calls, and the  *)
(* first five in the list are used.                                          *)
(***************************************************************************)
Padded(v) == IF Len(v) = 4 THEN Append(v, "1") ELSE v

\* viOpenDefaultRM: the handle of an earlier one is overwritten.
OpenRM ==
    \E n \in 1..MaxRM \ rms :
        /\ \A k \in 1..MaxRM \ rms : n <= k
        /\ rm' = n /\ rms' = rms \union {n}

\* When it fails, fnSetInit returns false, which is the status of success.
NoRM ==
    /\ rm' \in {rm, 0} /\ ret' = "OK"
    /\ UNCHANGED <<rms, call, todo>>

TooFew(v) ==
    /\ Len(v) < 5
    /\ OpenRM /\ ret' = "ERROR"
    /\ UNCHANGED <<call, todo>>

ConnectAll(v) ==
    /\ Len(v) >= 5
    /\ OpenRM /\ call' = "init" /\ todo' = Parts /\ ret' = "none"

fnSetInit(list) ==
    LET v == Padded(vaddr \o list) IN
    /\ Idle /\ Len(v) <= MaxAddr
    /\ vaddr' = v
    /\ asked' = [d \in Main |-> IF Slot[d] <= Len(list) THEN list[Slot[d]] ELSE "0"]
    /\ orderly' = (orderly /\ vaddr = <<>> /\ \A d \in Main : Free(d))
    /\ NoRM \/ TooFew(v) \/ ConnectAll(v)
    /\ UNCHANGED <<driver, answers, external, orphans>>

\* The verdict, once every device had its turn: isAllConn.
InitDone ==
    \E isSqlConn \in BOOLEAN :
        /\ call = "init" /\ todo = {}
        /\ ret' = IF isSqlConn /\ isSwhConn /\ \A d \in Main : now_status[d]
                  THEN "OK" ELSE "ERROR"
        /\ call' = "none"
        /\ UNCHANGED <<vaddr, rm, driver, answers, external, todo, rms, orphans,
                       asked, orderly>>

(***************************************************************************)
(* JcConnSig, JcConnAna, JcConnSen and JcConnSwh called by the client.       *)
(***************************************************************************)
JcConn(d, a) ==
    /\ Idle
    /\ call' = "conn" /\ todo' = {d} /\ ret' = "none"
    /\ asked' = IF d \in Main THEN [asked EXCEPT ![d] = a] ELSE asked
    /\ orderly' = (orderly /\ (d \in Main => Free(d)))
    /\ UNCHANGED <<vaddr, rm, driver, answers, external, rms, orphans>>

ConnDone ==
    /\ call = "conn" /\ todo = {}
    /\ call' = "none"
    /\ UNCHANGED <<vaddr, rm, driver, answers, external, todo, ret, rms, orphans,
                   asked, orderly>>

\* Each device in its turn, at the address of the list or the client's.
Turn(d) == d \in todo /\ \A e \in todo : Rank[d] <= Rank[e]
Address(d) == IF call = "init" THEN vaddr[Slot[d]] ELSE asked[d]
Frame == UNCHANGED <<vaddr, rm, external, call, ret, rms, asked, orderly>>

\* A new driver takes the place of the old one, whose session stays open.
Replace(d, s) ==
    /\ driver' = [driver EXCEPT ![d] = s]
    /\ orphans' = orphans \union Held(driver[d])

\* fnSetInit passes over a device whose address is "0": its status stays.
LeftOut(d) == call = "init" /\ vaddr[Slot[d]] = "0"

LeaveOut(d) ==
    /\ LeftOut(d)
    /\ UNCHANGED <<driver, orphans, now_status, isSwhConn, swh>>

\* viOpen and JcGetIDN succeed on an instrument there is a driver for.
Connected(d, a) ==
    /\ rm # 0 /\ Idn[a] = Class[d]
    /\ Replace(d, Visa(a))
    /\ now_status' = [now_status EXCEPT ![d] = TRUE]

\* Mutation: an instrument that is not supported counts as connected.
UnsupportedCounts(d) ==
    /\ rm # 0
    /\ orphans' = orphans \union {rm}
    /\ now_status' = [now_status EXCEPT ![d] = TRUE]
    /\ UNCHANGED driver

\* It answers something else, or nothing: an early return leaves the status and
\* the driver of an earlier connection, and the new session open.
Unsupported(d) ==
    /\ rm # 0
    /\ orphans' = orphans \union {rm}
    /\ UNCHANGED <<driver, now_status>>

\* viOpen fails.
NotFound(d) ==
    /\ now_status' = [now_status EXCEPT ![d] = FALSE]
    /\ UNCHANGED <<driver, orphans>>

\* For the power sensor, that means one of the NRP library.
TryNrp(a, ok) ==
    /\ Replace("sen", Nrp(a, ok))
    /\ now_status' = [now_status EXCEPT !["sen"] = ok]

\* The tables load when JcConfig.ini names the address of every module; the
\* driver is there in either case.
LoadParaIM(named) == swh' = IF named THEN "loaded" ELSE "made"

\* No module is contacted: a loaded driver counts as connected.
JcConnSwh(ok) ==
    /\ LoadParaIM(ok) /\ isSwhConn' = ok
    /\ UNCHANGED <<driver, orphans, now_status>>

Open(d) ==
    LET a == Address(d) IN
    /\ ~LeftOut(d)
    /\ \/ Connected(d, a)
       \/ Unsupported(d)
       \/ d # "sen" /\ NotFound(d)
       \/ d = "sen" /\ \E ok \in BOOLEAN : TryNrp(a, ok)
    /\ UNCHANGED <<isSwhConn, swh>>

Step(d) ==
    /\ Turn(d) /\ todo' = todo \ {d} /\ Frame
    /\ \/ LeaveOut(d)
       \/ d \in Main /\ Open(d)
       \/ /\ d = "swh" /\ ~LeftOut(d)
          /\ \E ok \in BOOLEAN : JcConnSwh(ok)

(***************************************************************************)
(* The external power sensor: JcSetOffsetTX_Config and its Close.            *)
(***************************************************************************)
\* Mutation: an unknown sensor is selected like any other.
SelectAny(i) ==
    /\ Idle /\ (i # 1 \/ isExtSenConn)
    /\ ext_sen_index' = i
    /\ isExtSenConn' = (isExtSenConn /\ i \in {0, 1})
    /\ UNCHANGED <<vaddr, rm, driver, answers, call, todo, ret, rms, orphans, asked, orderly>>

Select(i) ==
    /\ Idle /\ (i # 1 \/ isExtSenConn)
    /\ ext_sen_index' = IF i = 1 THEN 1 ELSE 0
    /\ isExtSenConn' = (isExtSenConn /\ i \in {0, 1})
    /\ UNCHANGED <<vaddr, rm, driver, answers, call, todo, ret, rms, orphans, asked, orderly>>

ConnectExt(a) ==
    /\ Idle /\ ~isExtSenConn
    /\ ext_sen_index' = 1
    /\ \/ /\ rm # 0 /\ Idn[a] = "sen"
          /\ Replace("ext", Visa(a)) /\ isExtSenConn' = TRUE
          /\ orderly' = (orderly /\ Free("ext"))
       \/ /\ rm # 0        \* counts as connected before it is identified
          /\ orphans' = orphans \union {rm} /\ isExtSenConn' = TRUE
          /\ UNCHANGED <<driver, orderly>>
       \/ \E ok \in BOOLEAN :
          /\ Replace("ext", Nrp(a, ok)) /\ isExtSenConn' = ok
          /\ orderly' = (orderly /\ Free("ext"))
    /\ UNCHANGED <<vaddr, rm, answers, call, todo, ret, rms, asked>>

CloseExt ==
    /\ Idle /\ isExtSenConn /\ driver["ext"] # None
    /\ driver' = [driver EXCEPT !["ext"] = None]
    /\ isExtSenConn' = FALSE
    /\ UNCHANGED <<vaddr, rm, answers, ext_sen_index, call, todo, ret, rms, orphans,
                   asked, orderly>>

\* Everything as in a process that has just loaded the library.
Anew ==
    /\ vaddr' = <<>> /\ rm' = 0 /\ driver' = [d \in Devices |-> None]
    /\ now_status' = [d \in Main |-> FALSE]
    /\ isSwhConn' = FALSE /\ swh' = "none"
    /\ ext_sen_index' = 0 /\ isExtSenConn' = FALSE
    /\ call' = "none" /\ todo' = {} /\ ret' = "none"
    /\ asked' = [d \in Main |-> "0"]

\* Closing an external sensor that was not identified calls a driver that does
\* not exist: the process ends, and the system closes what it had open.
CloseMissing ==
    /\ Idle /\ isExtSenConn /\ driver["ext"] = None
    /\ Anew /\ rms' = {} /\ orphans' = {} /\ orderly' = TRUE

(***************************************************************************)
(* fnSetExit, HwSetExit and unloading the library: release.  The external    *)
(* sensor is not closed; its VISA session goes with the resource manager.    *)
(***************************************************************************)
\* Mutation: the resource manager stays open.
releaseSessions ==
    /\ Idle
    /\ Anew /\ rms' = rms
    /\ orphans' = orphans \union Held(driver["ext"])
    /\ orderly' = (orderly /\ driver["ext"].lib # "nrp")

release ==
    /\ Idle
    /\ Anew /\ rms' = rms \ {rm}
    /\ orphans' = (orphans \union Held(driver["ext"])) \ ({rm} \ {0})
    /\ orderly' = (orderly /\ driver["ext"].lib # "nrp")

Next ==
    \/ \E list \in Lists : fnSetInit(list)
    \/ \E c \in Reconnects : JcConn(c[1], c[2])
    \/ \E d \in Parts : Step(d)
    \/ InitDone \/ ConnDone
    \/ \E i \in 0..2 : Select(i)
    \/ \E a \in ExtSensors : ConnectExt(a)
    \/ CloseExt \/ CloseMissing
    \/ release

Spec == Init /\ [][Next]_vars
-----------------------------------------------------------------------------
Drivers == [lib : {"none", "dead", "nrp", "visa"}, at : Addresses, rm : 0..MaxRM]

\* Every variable has its type.  (fnSetInit, JcConnSig, JcSetOffsetTX_Config)
TypeOK ==
    /\ vaddr \in Seq(Addresses) /\ rm \in 0..MaxRM /\ driver \in [Devices -> Drivers]
    /\ now_status \in [Main -> BOOLEAN]
    /\ isSwhConn \in BOOLEAN /\ swh \in {"none", "made", "loaded"}
    /\ ext_sen_index \in {0, 1} /\ isExtSenConn \in BOOLEAN
    /\ call \in Calls /\ todo \subseteq Parts /\ ret \in {"none", "OK", "ERROR"}
    /\ rms \subseteq 1..MaxRM /\ orphans \subseteq 0..MaxRM
    /\ asked \in [Main -> Addresses] /\ orderly \in BOOLEAN

IsOpen(s) == s.lib = "nrp" \/ (s.lib = "visa" /\ s.rm \in rms)

\* What JcGetDeviceStatus and fnSetInit claim: a device that counts as connected
\* has a driver on an open session, whatever connections failed, were repeated
\* or replaced since; in an orderly session it is the instrument at the address
\* the client gave last; and an initialisation that got its resource manager
\* and says OK has connected everything.  (JcApi.cpp:102, :702, :726, :758)
ConnectedMeansLive ==
    /\ \A d \in Main : now_status[d] =>
          /\ IsOpen(driver[d])
          /\ orderly => driver[d].at = asked[d]
    /\ isSwhConn => swh = "loaded"
    /\ (ret = "OK" /\ orderly /\ rm # 0) => isSwhConn /\ \A d \in Main : now_status[d]

\* Nothing is left open by a client that exits before it initialises again, does
\* not connect a device twice and closes an external sensor of the NRP library:
\* when the object is as new, every resource manager and session is closed,
\* also those of connections that failed half way.  (JcPimObject::release)
LeavesNothing ==
    (orderly /\ vaddr = <<>> /\ driver = [d \in Devices |-> None]) =>
        rms = {} /\ orphans = {}

\* What the demonstration client takes a status of 0 for: the initialisation
\* connected every device.  (TestDemo.cpp:98)
InitTellsTruth == ret = "OK" => isSwhConn /\ \A d \in Main : now_status[d]
=============================================================================
