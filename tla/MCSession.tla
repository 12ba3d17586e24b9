----------------------------- MODULE MCSession -----------------------------
(***************************************************************************)
(* One instrument of each class and a second generator, each at an address   *)
(* of its own; a full list, and one that is too short, after which the full  *)
(* list is read one place off.                                               *)
(***************************************************************************)
EXTENDS Session

MCIdn ==
    [a \in {"0", "1", "g1", "g2", "sa", "pm"} |->
        CASE a \in {"g1", "g2"} -> "sig"
          [] a = "sa" -> "ana"
          [] a = "pm" -> "sen"
          [] OTHER -> "other"]
MCReconnects == {<<"sig1", "g2">>, <<"sen", "pm">>, <<"swh", "1">>}
MCLists == {<<"g1", "g2", "sa", "pm">>, <<"g2", "sa", "pm">>}
=============================================================================
