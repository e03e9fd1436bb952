------------------------------- MODULE MCHub -------------------------------
(***************************************************************************)
(* An instance of Hub for TLC: an output that selects only some frames,    *)
(* and two control sessions, which hear the UBX frames.                    *)
(***************************************************************************)
EXTENDS Hub

CONSTANTS some, ses1, ses2

HubOutputs == {some}
HubWants == [s \in Subs |-> IF s = some THEN {f \in Frames : f # 2}
                            ELSE {f \in Frames : f % 2 = 0}]
=============================================================================
