-------------------------------- MODULE History --------------------------------
(***************************************************************************)
(* The history of satellite telemetry: the epochs that the collector       *)
(* (internal/telemetry/collect.go) stores, thins and prunes, and the       *)
(* points a chart is given (internal/store/telemetry.go).                  *)
(*                                                                         *)
(* An epoch is its time, in units of the shortest interval between two.    *)
(* The clock may be set back, as it is on a base without one of its own.   *)
(***************************************************************************)
EXTENDS Integers, FiniteSets, FiniteSetsExt

CONSTANTS
  Fine,      \* FineWindow
  Coarse,    \* CoarseInterval
  Retention, \* RetentionDays
  Limits,    \* the points a chart may ask for
  Late,      \* bound: the clock
  MaxBack    \* bound: the clock is set back

VARIABLES
  clock,
  rows,   \* the epochs stored: [ts, fine]
  ever,   \* the times of all that were
  thin,   \* the latest cutoff of DecimateOld
  gone,   \* the latest cutoff of PruneTelemetry
  back    \* how often the clock was set back

vars == <<clock, rows, ever, thin, gone, back>>

TypeOK ==
  /\ clock \in 0..Late /\ rows \subseteq [ts : 0..Late, fine : BOOLEAN] /\ ever \subseteq 0..Late
  /\ thin \in -Fine..Late /\ gone \in -Retention..Late /\ back \in 0..MaxBack

Init ==
  /\ clock = 0 /\ rows = {} /\ ever = {} /\ thin = -Fine /\ gone = -Retention /\ back = 0

Times(set) == {row.ts : row \in set}
Bucket(ts, size) == ts \div size

\* the rows that are the first (last) of their bucket
Firsts(set, size) == {t \in Times(set) : \A u \in Times(set) : u < t => Bucket(u, size) # Bucket(t, size)}
Lasts(set, size)  == {t \in Times(set) : \A u \in Times(set) : u > t => Bucket(u, size) # Bucket(t, size)}

(***************************************************************************)
(* The collector                                                           *)
(***************************************************************************)
\* PutEpoch: a second row of the same time takes the place of the first, and
\* is as fine as that was
PutEpoch ==
  /\ ever' = ever \cup {clock}
  /\ rows' = IF clock \in Times(rows) THEN rows ELSE rows \cup {[ts |-> clock, fine |-> TRUE]}
  /\ UNCHANGED <<clock, thin, gone, back>>

\* mutant: the last row of a bucket is kept
DecimatedLast(cutoff, marked) ==
  LET old  == {row \in rows : row.ts < cutoff}
      drop == {row \in old : row.fine /\ row.ts \notin Lasts(old, Coarse)}
  IN  IF drop = {} THEN rows
      ELSE {IF marked /\ row.ts < cutoff THEN [row EXCEPT !.fine = FALSE] ELSE row : row \in rows \ drop}

\* DecimateOld: of each bucket the first row stays, and what was thinned once
\* is never looked at again, unless the statement that marks it failed
Decimated(cutoff, marked) ==
  LET old  == {row \in rows : row.ts < cutoff}
      drop == {row \in old : row.fine /\ row.ts \notin Firsts(old, Coarse)}
  IN  IF drop = {} THEN rows
      ELSE {IF marked /\ row.ts < cutoff THEN [row EXCEPT !.fine = FALSE] ELSE row : row \in rows \ drop}

\* maintain
Maintain ==
  /\ thin' = Max({thin, clock - Fine}) /\ gone' = Max({gone, clock - Retention})
  /\ rows' = {row \in Decimated(clock - Fine, TRUE) : row.ts >= clock - Retention}
  /\ UNCHANGED <<clock, ever, back>>

\* each statement may fail for itself: the next is tried all the same
MaintainFails ==
  \E thinned, marked, pruned \in BOOLEAN :
    /\ thin' = IF thinned THEN Max({thin, clock - Fine}) ELSE thin
    /\ gone' = IF pruned THEN Max({gone, clock - Retention}) ELSE gone
    /\ rows' = {row \in (IF thinned THEN Decimated(clock - Fine, marked) ELSE rows) :
                  pruned => row.ts >= clock - Retention}
    /\ UNCHANGED <<clock, ever, back>>

(***************************************************************************)
(* The clock                                                               *)
(***************************************************************************)
Pass == clock < Late /\ clock' = clock + 1 /\ UNCHANGED <<rows, ever, thin, gone, back>>

SetBack ==
  /\ back < MaxBack /\ back' = back + 1 /\ clock' \in 0..clock - 1
  /\ UNCHANGED <<rows, ever, thin, gone>>

Next == PutEpoch \/ Maintain \/ MaintainFails \/ Pass \/ SetBack

Spec == Init /\ [][Next]_vars

(***************************************************************************)
(* EpochRange                                                              *)
(***************************************************************************)
Ceil(a, b) == (a + b - 1) \div b

EpochRange(from, to, limit) ==
  LET size == IF to - from > limit THEN Ceil(to - from, limit) ELSE 1
      all  == Lasts({row \in rows : from <= row.ts /\ row.ts <= to}, size)
  IN  {t \in all : Cardinality({u \in all : u < t}) < limit}

(***************************************************************************)
(* Properties                                                              *)
(***************************************************************************)
\* Thinning leaves no gap and loses nothing that is fine: what is younger than
\* every cutoff is all there, and a bucket that had an epoch and is not pruned
\* keeps one.  And it thins: unless the clock was set back, of a bucket that is
\* all before a cutoff one row is left.
HistoryKept ==
  /\ \A t \in ever : t >= thin /\ t >= gone => t \in Times(rows)
  /\ \A t \in ever : Bucket(t, Coarse) * Coarse >= gone =>
       \E u \in Times(rows) : Bucket(u, Coarse) = Bucket(t, Coarse)
  /\ back = 0 => \A t \in Times(rows) : (Bucket(t, Coarse) + 1) * Coarse <= thin =>
       t \in Firsts(rows, Coarse)

\* A chart has no more points than it asked for, and every row of its window has
\* one in its bucket that is no older; but for the newest bucket, which is cut off
\* when there is one bucket more than points.
ChartsAreComplete ==
  \A from \in 0..clock, limit \in Limits :
    LET chart == EpochRange(from, clock, limit)
        size  == Max({1, Ceil(clock - from, limit)})
    IN  /\ Cardinality(chart) <= limit
        /\ \A t \in {u \in Times(rows) : from <= u /\ u <= clock} :
             \/ Bucket(t, size) = Bucket(clock, size)
             \/ \E v \in chart : v >= t /\ Bucket(v, size) = Bucket(t, size)

(***************************************************************************)
(* What a reader of the code might expect, and the code does not do        *)
(***************************************************************************)
\* a chart ends with the latest epoch
NewestIsShown ==
  \A limit \in Limits : \A t \in Times(rows) :
    t <= clock => \E v \in EpochRange(0, clock, limit) : v >= t
=============================================================================
