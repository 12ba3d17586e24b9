--------------------------- MODULE MatrixContract ---------------------------
(***************************************************************************)
(* What JcSetSwitch promises to the measurement code: a command either       *)
(* succeeds with every relay it names in position, unless its module hung up *)
(* meanwhile, or fails and leaves the modules of the command in any position. *)
(* No other module ever moves, and nothing moves between two commands.       *)
(* TxCycle relies on this contract (its operator SetSwitch), with no module  *)
(* hanging up; SwitchMatrix implements it.                                   *)
(***************************************************************************)
CONSTANTS Host, Route, Selected, Cleared, Closed

VARIABLES
    relays,     \* relays[h]: the closed outputs of module h
    route,      \* the last command
    hungup,     \* modules that closed their connection during it
    status      \* none, busy, ok or fail

vars == <<relays, route, hungup, status>>

Init ==
    /\ relays = [h \in Host |-> {}]
    /\ route \in Selected /\ hungup = {} /\ status = "none"

Command(r) ==
    /\ status # "busy" /\ status' = "busy"
    /\ route' = r /\ hungup' = {} /\ relays' = relays

\* Modules of the command switch, or are reset, or hang up.
Move ==
    /\ status = "busy" /\ UNCHANGED <<route, status>>
    /\ hungup \subseteq hungup'
    /\ \A h \in Host : Cleared[route][h] = {} => relays'[h] = relays[h]

InPosition(h) == relays[h] \intersect Cleared[route][h] = Closed[route][h]

Succeed ==
    /\ status = "busy" /\ status' = "ok"
    /\ hungup \subseteq hungup'
    /\ \A h \in Host : Cleared[route][h] # {} => InPosition(h) \/ h \in hungup'
    /\ UNCHANGED <<relays, route>>

Fail ==
    /\ status = "busy" /\ status' = "fail"
    /\ hungup \subseteq hungup' /\ UNCHANGED <<relays, route>>

Next == (\E r \in Selected : Command(r)) \/ Move \/ Succeed \/ Fail

Spec == Init /\ [][Next]_vars
=============================================================================
