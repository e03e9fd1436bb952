----------------------------- MODULE MCPushout -----------------------------
(***************************************************************************)
(* Push-out for TLC: passwords are interchangeable, so that the one stored *)
(* at first is always the same, and the remote caster is there at first.   *)
(***************************************************************************)
EXTENDS Pushout

First == CHOOSE p \in Passwords : TRUE
MCInit == Init /\ remote /\ \A t \in Targets : db[t] # Absent => db[t].pw = First
MCSpec == MCInit /\ [][Next]_vars /\ Fairness
=============================================================================
