---------------------------- MODULE TrialConfig ----------------------------
(***************************************************************************)
(* What a guarded receiver change promises its operator: a change is first *)
(* on trial, it is kept or refused, never both and never by default, and   *)
(* no trial lasts for ever.                                                *)
(***************************************************************************)
EXTENDS Integers

CONSTANT Changes   \* a set of positive numbers, in the order they are offered

VARIABLES
  phase,  \* "steady", "trial" or "refused": tried and no longer wanted
  change, \* the change on trial, 0 when steady
  kept    \* the last change kept, 0 before any

vars == <<phase, change, kept>>

TypeOK ==
  /\ phase \in {"steady", "trial", "refused"}
  /\ change \in Changes \cup {0}
  /\ kept \in Changes \cup {0}

Init == phase = "steady" /\ change = 0 /\ kept = 0

Offer(c) ==
  /\ phase = "steady" /\ c > kept
  /\ phase' = "trial" /\ change' = c /\ UNCHANGED kept

Keep ==
  /\ phase = "trial"
  /\ phase' = "steady" /\ change' = 0 /\ kept' = change

Refuse == phase = "trial" /\ phase' = "refused" /\ UNCHANGED <<change, kept>>

\* the refused change leaves; a restart of the daemon ends any trial
Leave == phase # "steady" /\ phase' = "steady" /\ change' = 0 /\ UNCHANGED kept

Next == (\E c \in Changes : Offer(c)) \/ Keep \/ Refuse \/ Leave

Safety == Init /\ [][Next]_vars

Spec == Safety /\ WF_vars(Keep \/ Refuse \/ Leave)
=============================================================================
