----------------------------- MODULE MCArchive -----------------------------
(***************************************************************************)
(* The archive writer for TLC.  The daemon starts without the share and    *)
(* before anyone else has written there: both may change at once.          *)
(***************************************************************************)
EXTENDS Archive

MCInit == Init /\ foreign = {} /\ ~up
MCSpec == MCInit /\ [][Next]_vars /\ Fairness
=============================================================================
