-------------------------------- MODULE Filter --------------------------------
(***************************************************************************)
(* Decimation (internal/hub/filter.go): of a message that comes in every   *)
(* epoch an output wants one in so much time.  Frames come a little after  *)
(* their epoch, each by another delay, and what is passed may still meet a *)
(* full queue.  (Which messages an output wants is a constant of Hub.)     *)
(***************************************************************************)
EXTENDS Integers

CONSTANTS
  Interval,  \* of the message in allow
  Period,    \* between epochs
  Jitter,    \* the longest delay, less than Period
  MaxEpoch   \* bound: epochs

VARIABLES
  epoch,     \* the next one
  last,      \* f.last: when a frame was passed last, -1 for never
  given,     \* when one was queued last, -1 for never
  lost,      \* frames passed since, and lost at a full queue
  gap        \* between the last two that were queued, and what was lost in it

vars == <<epoch, last, given, lost, gap>>

TypeOK ==
  /\ epoch \in 0..MaxEpoch /\ lost \in 0..MaxEpoch
  /\ last \in -1..MaxEpoch * Period + Jitter /\ given \in -1..last
  /\ gap \in [time : 0..MaxEpoch * Period + Jitter, lost : 0..MaxEpoch]

Init == epoch = 0 /\ last = -1 /\ given = -1 /\ lost = 0 /\ gap = [time |-> Interval, lost |-> 0]

\* when the frame of the epoch may come
Times == epoch * Period .. epoch * Period + Jitter
Due(at) == last = -1 \/ at - last >= Interval
NextEpoch == epoch < MaxEpoch /\ epoch' = epoch + 1

\* mutant: what is withheld counts as the last
WithholdAndCount ==
  /\ NextEpoch /\ \E at \in Times : ~Due(at) /\ last' = at
  /\ UNCHANGED <<given, lost, gap>>

Withhold ==
  /\ NextEpoch /\ \E at \in Times : ~Due(at)
  /\ UNCHANGED <<last, given, lost, gap>>

\* Pass, and the frame is queued or lost
PassQueued ==
  /\ NextEpoch
  /\ \E at \in Times : /\ Due(at) /\ last' = at /\ given' = at
                       /\ gap' = IF given = -1 THEN gap ELSE [time |-> at - given, lost |-> lost]
  /\ lost' = 0

PassLost ==
  /\ NextEpoch /\ \E at \in Times : Due(at) /\ last' = at
  /\ lost' = lost + 1 /\ UNCHANGED <<given, gap>>

Next == Withhold \/ PassQueued \/ PassLost

Spec == Init /\ [][Next]_vars

(***************************************************************************)
(* Properties                                                              *)
(***************************************************************************)
\* Whatever the delays, an output gets the message no more often than it asked
\* for, and waits no longer than for the epoch after; each loss costs as much
\* again.
KeepsPace ==
  /\ gap.time >= Interval
  /\ gap.time < (gap.lost + 1) * (Interval + Period + Jitter)
  /\ given # -1 => (epoch - 1) * Period - given < (lost + 1) * (Interval + Period + Jitter)

(***************************************************************************)
(* What a comment of the code says, and the code does not do               *)
(***************************************************************************)
\* "on a fixed grid relative to the last emission, so a 10 s interval stays on
\* cadence rather than drifting by one epoch each time"
StaysOnCadence == gap.lost = 0 => gap.time < Interval + Period
=============================================================================
