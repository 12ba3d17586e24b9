---------------------------- MODULE SwitchMatrix ----------------------------
(***************************************************************************)
(* The driver of the relay matrix: implementsetting::Excute with the socket  *)
(* operations of com_io_ctl.  Every relay module is a TCP server that obeys   *)
(* a frame holding the state of all its relays and echoes it.  A frame is     *)
(* confirmed by comparing the receive buffer with the frame sent; on any      *)
(* failure all modules of the command are disconnected, reset, reconnected,   *)
(* and the whole command is sent again, at most Attempts times.               *)
(*                                                                            *)
(* The relay tables are constants here (SwitchTable gives their values).      *)
(***************************************************************************)
EXTENDS Integers, FiniteSets

CONSTANTS
    Host,       \* relay modules, in the order their addresses sort
    Output,     \* relay outputs
    Route,      \* commands: band, port and coupler
    Switches,   \* Switches[h]: the switches of h, each as its channels' outputs
    Cleared,    \* Cleared[r][h]: outputs of h that belong to switches r sets
    Closed,     \* Closed[r][h]: the outputs r closes
    Selected,   \* the commands a client gives
    Attempts,   \* times a command is sent (replyCnt)
    Noise       \* what tells a buffer that holds no frame

Uses(r) == {h \in Host : Cleared[r][h] # {}}
Outputs(h) == UNION {Cleared[r][h] : r \in Route}

ASSUME HostAssumption == Host \subseteq Nat /\ IsFiniteSet(Host)
ASSUME TableAssumption ==
    /\ Cleared \in [Route -> [Host -> SUBSET Output]]
    /\ Closed \in [Route -> [Host -> SUBSET Output]]
    /\ \A r \in Route, h \in Host : Closed[r][h] \subseteq Cleared[r][h]
    /\ \A r \in Route : Uses(r) # {}
    /\ Selected \subseteq Route
\* Two modules of one command never get the same frame, whatever outputs
\* earlier commands left closed: one of them closes an output the other has not.
ASSUME DistinctFrames ==
    \A r \in Route, g, h \in Host :
        g # h /\ g \in Uses(r) /\ h \in Uses(r) =>
            (Closed[r][g] \ Outputs(h)) \union (Closed[r][h] \ Outputs(g)) # {}
\* A command that closes a channel of a switch clears the others of that switch
\* and closes no second one.
ASSUME SwitchAssumption ==
    \A r \in Route, h \in Host : \A switch \in Switches[h] :
        \/ Closed[r][h] \intersect switch = {}
        \/ /\ switch \subseteq Cleared[r][h]
           /\ \A x, y \in Closed[r][h] \intersect switch : x = y
\* The driver tries three times; one repair is what its recovery needs.
ASSUME AttemptAssumption == Attempts \in Nat \ {0, 1}
ASSUME NoiseAssumption == Noise \notin Output

Garbage == {Noise}

VARIABLES
    bak,        \* __ipGpioBak: the frame of each module as last commanded
    relays,     \* the relays themselves
    state,      \* __socketState
    sock,       \* __socketClient
    rx,         \* rxBuf
    pc, route, todo, tries, ret,
    echoed,     \* modules that echoed their frame during this call
    faults,     \* modules whose connection failed during this call
    hungup      \* those of them that closed it in an orderly way

vars == <<bak, relays, state, sock, rx, pc, route, todo, tries, ret, echoed, faults,
          hungup>>

\* none: no valid handle; raw: a handle without connection; pending: connecting
\* in non-blocking mode; open: connected and blocking; gone: closed by the peer.
Sockets == {"none", "raw", "pending", "open", "gone"}

Init ==
    /\ bak = [h \in Host |-> {}]
    /\ relays = [h \in Host |-> {}]
    /\ state = [h \in Host |-> "down"]
    /\ sock = [h \in Host |-> "none"]
    /\ rx = Garbage
    /\ pc = "idle" /\ route \in Selected /\ todo = {} /\ tries = 0 /\ ret = "none"
    /\ echoed = {} /\ faults = {} /\ hungup = {}

First(S) == CHOOSE h \in S : \A g \in S : h <= g

Return(r) == pc' = "idle" /\ ret' = r /\ todo' = {}

\* Mutation: the outputs of the switch are not cleared before one is closed.
FramesUncleared(r) == [h \in Host |-> bak[h] \union Closed[r][h]]
\* AddActionList, for every row of the command.
Frames(r) == [h \in Host |-> (bak[h] \ Cleared[r][h]) \union Closed[r][h]]

\* SwitchExcut: select the rows, then Excute with a fresh receive buffer.
SwitchExcut(r) ==
    /\ pc = "idle" /\ pc' = "write"
    /\ route' = r /\ bak' = Frames(r) /\ todo' = Uses(r)
    /\ rx' = Garbage /\ tries' = 1 /\ ret' = "none"
    /\ echoed' = {} /\ faults' = {} /\ hungup' = {}
    /\ UNCHANGED <<relays, state, sock>>

\* Mutations: attempts are not counted; one too many is made; a single one is.
FailedForever == pc' = "reset" /\ tries' = tries /\ UNCHANGED <<todo, ret>>
FailedLate ==
    IF tries <= Attempts
    THEN pc' = "reset" /\ tries' = tries + 1 /\ UNCHANGED <<todo, ret>>
    ELSE Return("fail") /\ tries' = tries
FailedAtOnce == Return("fail") /\ tries' = tries
\* An attempt failed: repair and send again, or give up.
Failed ==
    IF tries < Attempts
    THEN pc' = "reset" /\ tries' = tries + 1 /\ UNCHANGED <<todo, ret>>
    ELSE Return("fail") /\ tries' = tries

\* Between two calls a module may lose its connection.
Drop(h) ==
    /\ pc = "idle" /\ sock[h] = "open"
    /\ sock' = [sock EXCEPT ![h] = "gone"]
    /\ UNCHANGED <<bak, relays, state, rx, pc, route, todo, tries, ret, echoed, faults,
                   hungup>>

-----------------------------------------------------------------------------
(* One attempt: for every module in turn, IOWrite and IORead.               *)

\* IOConnect, made only when the socket is believed to be down, fails.
NoConnection(h) ==
    /\ state[h] = "down"
    /\ sock' = [sock EXCEPT ![h] = "raw"]
    /\ faults' = faults \union {h}
    /\ Failed
    /\ UNCHANGED <<relays, state>>

\* The socket a send to h uses: IOConnect made it if it was believed down.
Used(h) == IF state[h] = "down" THEN "open" ELSE sock[h]

Sent(h) ==
    /\ Used(h) \in {"open", "pending", "gone"}
    /\ sock' = [sock EXCEPT ![h] = Used(h)]
    /\ state' = [state EXCEPT ![h] = "up"]
    /\ \/ relays' = relays
       \/ Used(h) # "gone" /\ relays' = [relays EXCEPT ![h] = bak[h]]
    /\ pc' = "read"
    /\ UNCHANGED <<todo, tries, ret, faults>>

NotSent(h) ==
    /\ sock' = [sock EXCEPT ![h] = Used(h)]
    /\ state' = [state EXCEPT ![h] = "down"]
    /\ faults' = IF Used(h) = "open" THEN faults \union {h} ELSE faults
    /\ Failed
    /\ relays' = relays

\* IOWrite.  Without a connection send fails; on one that is still being made,
\* or that the peer has closed, it may succeed.
Write ==
    /\ pc = "write"
    /\ \/ NoConnection(First(todo))
       \/ Sent(First(todo))
       \/ NotSent(First(todo))
    /\ UNCHANGED <<bak, rx, route, echoed, hungup>>

\* Mutation: a reply of the right kind is enough.
ConfirmsAny(h) == TRUE
\* The receive buffer, as recv left it, holds the frame that was sent.
Confirms(h) == rx' = bak[h]

\* Excute after recv returned without error.
Compare(h) ==
    IF Confirms(h)
    THEN IF todo = {h} THEN Return("ok") /\ tries' = tries
                       ELSE pc' = "write" /\ todo' = todo \ {h} /\ UNCHANGED <<tries, ret>>
    ELSE Failed

Echo(h) ==
    /\ sock[h] \in {"open", "pending"} /\ relays[h] = bak[h]
    /\ rx' = bak[h] /\ echoed' = echoed \union {h}
    /\ Compare(h) /\ UNCHANGED <<state, sock, faults, hungup>>
Garbled(h) ==
    /\ sock[h] = "open"
    /\ rx' = Garbage /\ faults' = faults \union {h}
    /\ Compare(h) /\ UNCHANGED <<state, sock, echoed, hungup>>
\* recv returns 0, which is no error: the buffer keeps what it held.
OrderlyClose(h) ==
    /\ \/ sock[h] = "gone" /\ UNCHANGED <<faults, hungup>>
       \/ /\ sock[h] = "open"
          /\ faults' = faults \union {h} /\ hungup' = hungup \union {h}
    /\ sock' = [sock EXCEPT ![h] = "gone"]
    /\ rx' = rx
    /\ Compare(h) /\ UNCHANGED <<state, echoed>>
\* A timeout, a lost connection, or a non-blocking socket without data.
ReadError(h) ==
    /\ state' = [state EXCEPT ![h] = "down"]
    /\ faults' = IF sock[h] = "open" THEN faults \union {h} ELSE faults
    /\ Failed /\ UNCHANGED <<sock, rx, echoed, hungup>>

Read ==
    /\ pc = "read"
    /\ \/ Echo(First(todo))
       \/ Garbled(First(todo))
       \/ OrderlyClose(First(todo))
       \/ ReadError(First(todo))
    /\ UNCHANGED <<bak, relays, route>>

-----------------------------------------------------------------------------
(* Repair: disconnect, reset and reconnect all modules of the command.      *)

\* IODisConnect leaves the status of closesocket in __socketState: a module
\* that had a handle counts as connected.
Disconnected(h) == IF sock[h] = "none" THEN "down" ELSE "up"

\* IOResetWithList: the reset command goes through a socket of its own, closed
\* at once, and may be lost.
ResetModules ==
    \E S \in SUBSET Uses(route) :
        relays' = [h \in Host |-> IF h \in S THEN {} ELSE relays[h]]

Reset ==
    /\ pc = "reset" /\ pc' = "reconnect"
    /\ state' = [h \in Host |-> IF h \in Uses(route) THEN Disconnected(h) ELSE state[h]]
    /\ sock' = [h \in Host |-> IF h \in Uses(route) THEN "none" ELSE sock[h]]
    /\ ResetModules
    /\ UNCHANGED <<bak, rx, route, todo, tries, ret, echoed, faults, hungup>>

\* IOConnectBegin, for every module of the command.
Connecting(h) == IF h \in Uses(route) THEN "pending" ELSE sock[h]

\* IOConnectEnd in turn: good modules are connected, bad ones are not, the rest
\* stays in non-blocking mode with the state the disconnect left.
ConnectEnd(good, bad) ==
    /\ sock' = [h \in Host |-> IF h \in good THEN "open"
                               ELSE IF h \in bad THEN "raw" ELSE Connecting(h)]
    /\ state' = [h \in Host |-> IF h \in good THEN "up"
                                ELSE IF h \in bad THEN "down" ELSE state[h]]

\* Mutation: the command is resumed at the module that failed.
ReconnectResumes ==
    /\ pc = "reconnect" /\ pc' = "write" /\ ConnectEnd(Uses(route), {})
    /\ UNCHANGED <<bak, relays, rx, route, todo, tries, ret, echoed, faults, hungup>>
\* The whole command is sent again once every module is connected.
Reconnect ==
    /\ pc = "reconnect"
    /\ \/ /\ ConnectEnd(Uses(route), {})
          /\ pc' = "write" /\ todo' = Uses(route)
          /\ UNCHANGED <<ret, faults>>
       \/ \E bad \in Uses(route) :
          /\ ConnectEnd({h \in Uses(route) : h < bad}, {bad})
          /\ faults' = faults \union {bad}
          /\ Return("fail")
    /\ UNCHANGED <<bak, relays, rx, route, tries, echoed, hungup>>

Step == Write \/ Read \/ Reset \/ Reconnect
Next ==
    \/ \E r \in Selected : SwitchExcut(r)
    \/ \E h \in Host : Drop(h)
    \/ Step

Spec == Init /\ [][Next]_vars
\* Every socket call has a timeout, so a call that was started keeps moving.
FairSpec == Spec /\ WF_vars(Step)

-----------------------------------------------------------------------------
(* Properties.                                                              *)

TypeOK ==
    /\ bak \in [Host -> SUBSET Output] /\ relays \in [Host -> SUBSET Output]
    /\ state \in [Host -> {"up", "down"}] /\ sock \in [Host -> Sockets]
    /\ rx \in SUBSET (Output \union {Noise})
    /\ pc \in {"idle", "write", "read", "reset", "reconnect"}
    /\ route \in Selected /\ todo \subseteq Uses(route)
    /\ (pc \in {"write", "read"} => todo # {})
    /\ tries \in 0 .. Attempts /\ ret \in {"none", "ok", "fail"}
    /\ echoed \subseteq Host /\ faults \subseteq Host /\ hungup \subseteq faults

\* Success means that every module of the command itself echoed its frame
\* during this call.  The one receive buffer is shared by all modules and a
\* closed connection leaves it as it was, so this rests on the relay tables:
\* what one module left in the buffer never confirms another.
EchoIsOwn == pc = "idle" /\ ret = "ok" => Uses(route) \subseteq echoed

\* After success the relays of every module that did not hang up are as
\* commanded, although a module confirmed earlier may have been reset since.
AnsweredMeansSet ==
    pc = "idle" /\ ret = "ok" =>
        \A h \in Uses(route) : relays[h] = bak[h] \/ h \in hungup

\* Whatever sockets earlier failures left behind (believed connected without
\* being so, still in non-blocking mode, closed by the module), a call during
\* which no connection fails succeeds.
HealsItself == pc = "idle" /\ ret = "fail" => faults # {}

\* No sequence of commands leaves two channels of one switch closed in the
\* frame of a module.
OneChannelClosed ==
    \A h \in Host : \A switch \in Switches[h] :
        \A x, y \in bak[h] \intersect switch : x = y

Contract == INSTANCE MatrixContract
                WITH status <- IF pc = "idle" THEN ret ELSE "busy"
\* The driver keeps the contract the measurement code relies on: success means
\* the relays are in position, except those of a module that hung up during the
\* command, and modules outside the command never move.
KeepsContract == Contract!Spec

\* Every call returns after a bounded number of attempts.
CallReturns == pc # "idle" ~> pc = "idle"
=============================================================================
