------------------------------- MODULE Mirror -------------------------------
(***************************************************************************)
(* What an archive promises: a recording of every period, in order, and a  *)
(* copy of it elsewhere that only ever grows along it; the recording is    *)
(* held until the copy is complete.                                        *)
(***************************************************************************)
EXTENDS Integers, SequencesExt

CONSTANT Periods    \* an interval of the positive numbers, from 1

VARIABLES
  rec,    \* what was recorded of every period
  arc,    \* the copy
  held    \* periods whose recording is still held

\* the recordings, one after the other
Ordered(r) ==
  \A p, s \in Periods : \A i \in DOMAIN r[p], j \in DOMAIN r[s] :
    p < s \/ (p = s /\ i < j) => r[p][i] < r[s][j]

Init ==
  /\ rec = [p \in Periods |-> << >>] /\ arc = rec /\ held = {}

Hold(p) == held' = held \cup {p} /\ UNCHANGED <<rec, arc>>

Record(p) ==
  /\ p \in held /\ IsStrictPrefix(rec[p], rec'[p]) /\ Ordered(rec')
  /\ \A r \in Periods \ {p} : rec'[r] = rec[r]
  /\ UNCHANGED <<arc, held>>

Copy(p) ==
  /\ IsStrictPrefix(arc[p], arc'[p]) /\ IsPrefix(arc'[p], rec[p])
  /\ \A r \in Periods \ {p} : arc'[r] = arc[r]
  /\ UNCHANGED <<rec, held>>

Release(p) == arc[p] = rec[p] /\ held' = held \ {p} /\ UNCHANGED <<rec, arc>>

Next == \E p \in Periods : Hold(p) \/ Record(p) \/ Copy(p) \/ Release(p)

vars == <<rec, arc, held>>
Spec == Init /\ [][Next]_vars
=============================================================================
