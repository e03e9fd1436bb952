---------------------------- MODULE PartsProofs ----------------------------
(***************************************************************************)
(* Proofs about the parts that stand alone (AllParts): for any streams,    *)
(* any intervals and sizes, and without the bounds of the runs.            *)
(***************************************************************************)
EXTENDS AllParts, FiniteSetTheorems, SequenceTheorems, WellFoundedInduction, TLAPS

\* A set of numbers has a least member, and one that is bounded a greatest.
LEMMA LeastOf ==
  ASSUME NEW T \in SUBSET Nat, T # {}  PROVE \E x \in T : \A y \in T : x <= y
<1>1. PICK x \in T : \A y \in T : ~(<<y, x>> \in OpToRel(<, Nat))
  BY NatLessThanWellFounded, WFMin
<1>2. ASSUME NEW y \in T PROVE x <= y
  <2>1. ~(<<y, x>> \in OpToRel(<, Nat))  BY <1>1
  <2>2. <<y, x>> \in OpToRel(<, Nat) <=> y < x  BY DEF OpToRel
  <2>3. ~(y < x)  BY <2>1, <2>2
  <2> QED BY <2>3
<1> QED BY <1>2

LEMMA GreatestOf ==
  ASSUME NEW n \in Nat, NEW T \in SUBSET (0..n), T # {}
  PROVE  \E x \in T : \A y \in T : y <= x
<1> DEFINE S == {n - x : x \in T}
<1>1. S \in SUBSET Nat /\ S # {}
  <2>1. \A x \in T : n - x \in Nat  OBVIOUS
  <2>2. \E x \in T : n - x \in S  OBVIOUS
  <2> HIDE DEF S
  <2> QED BY <2>1, <2>2 DEF S
<1>2. PICK s \in S : \A y \in S : s <= y  BY <1>1, LeastOf
<1>3. PICK x \in T : s = n - x  BY <1>2
<1>4. \A y \in T : n - x <= n - y  BY <1>2, <1>3
<1>5. \A y \in T : y <= x  BY <1>4
<1> QED BY <1>5

-----------------------------------------------------------------------------
(***************************************************************************)
(* The integrity monitor (Integrity)                                       *)
(***************************************************************************)
USE IntegrityAssumption DEF IntegrityAssumption

\* A run and its row.
Entry == [by : {"admin", "schedule"}, alone : BOOLEAN, day : 0..MaxDay,
          at : {"called", "prepare", "observe", "judge", "save", "leave", "end"},
          solved : 0..Enough, from : {"", "early", "late"},
          status : {"", "error", "cancelled", "measured"}, row : BOOLEAN]

Monitor == [running : BOOLEAN, cancel : BOOLEAN, cancelled : BOOLEAN, shows : 0..MaxRun]

RunsTyped == run \in Seq(Entry) /\ Len(run) <= MaxRun /\ monitor \in Monitor /\ day \in 0..MaxDay
             /\ fault \in Nat

\* One run is inside, and the flags of the monitor are those of that run.
Flagged(at, from, cancel, cancelled) ==
  /\ at \in {"observe", "judge"} => cancel
  /\ at = "prepare" => ~cancel
  /\ cancelled <=> from # ""

FlagsAreOfRun ==
  /\ \A r, s \in Inside : r = s
  /\ monitor.running <=> Inside # {}
  /\ \A r \in Inside : Flagged(run[r].at, run[r].from, monitor.cancel, monitor.cancelled)

\* What a run knows at each of its places.
Placed(at, from, status, row) ==
  /\ at \in {"called", "prepare", "end"} => from = ""
  /\ at \in {"observe", "judge"} => from # "late"
  /\ at \notin {"save", "leave"} => status = ""
  /\ at \in {"save", "leave"} => (status = "cancelled" <=> from = "early")
  /\ row => at \in {"leave", "end"}

PlacesAreTrue ==
  \A r \in Calls : Placed(run[r].at, run[r].from, run[r].status, run[r].row)

\* The runs that OneADay speaks of, and the day a row of one must be before.
Daily    == {r \in Calls : run[r].by = "schedule" /\ run[r].alone}
Since(r) == IF run[r].at = "called" THEN day ELSE run[r].day

\* While one of them is under way no other is, and every row of an earlier one
\* is of an earlier day; no two rows of them are of one day.
DailyRows ==
  /\ \A r, s \in Daily \cap UnderWay : r = s
  /\ \A r \in Daily \cap UnderWay, s \in Daily \cap Rows : s # r => run[s].day < Since(r)
  /\ \A r, s \in Daily \cap Rows : run[r].day = run[s].day => r = s

DaysInOrder == (\A r \in Calls : run[r].day <= day) /\ (fault > 0 \/ DailyRows)

IInv == RunsTyped /\ FlagsAreOfRun /\ PlacesAreTrue /\ DaysInOrder

-----------------------------------------------------------------------------
(***************************************************************************)
(* What a step does to the runs                                            *)
(***************************************************************************)
\* Run r, and no other, is changed, in what the properties tell apart.
Became(r, at, from, status, row, on) ==
  /\ r \in Calls /\ run' \in Seq(Entry) /\ Len(run') = Len(run)
  /\ Calls' = Calls /\ \A s \in Calls \ {r} : run'[s] = run[s]
  /\ run'[r].at = at /\ run'[r].from = from /\ run'[r].status = status
  /\ run'[r].row = row /\ run'[r].day = on
  /\ run'[r].by = run[r].by /\ run'[r].alone = run[r].alone

Same(r, at) == Became(r, at, run[r].from, run[r].status, run[r].row, run[r].day)

\* The flags of the monitor.
Flags(running, cancel, cancelled) ==
  /\ monitor' \in Monitor
  /\ monitor'.running = running /\ monitor'.cancel = cancel /\ monitor'.cancelled = cancelled

LEMMA Replaced ==
  ASSUME RunsTyped, NEW r \in Calls, NEW n \in Entry, run' = [run EXCEPT ![r] = n],
         n.by = run[r].by, n.alone = run[r].alone
  PROVE  Became(r, n.at, n.from, n.status, n.row, n.day)
<1>1. run \in Seq(Entry)  BY DEF RunsTyped
<1>2. run' \in Seq(Entry) /\ Len(run') = Len(run)  BY <1>1, ExceptSeq DEF Calls
<1>3. Calls' = Calls  BY <1>1 DEF Calls
<1>4. run'[r] = n /\ \A s \in Calls \ {r} : run'[s] = run[s]  BY <1>1 DEF Calls
<1> QED BY <1>2, <1>3, <1>4 DEF Became

LEMMA RefuseDoes ==
  ASSUME RunsTyped, NEW r \in 1..MaxRun, Refuse(r)
  PROVE  /\ r \in Calls /\ run[r].at = "called" /\ Same(r, "end")
         /\ UNCHANGED monitor /\ UNCHANGED day
<1> DEFINE n == [run[r] EXCEPT !.at = "end"]
<1>1. r \in Calls /\ run[r] \in Entry /\ run[r].at = "called"
  BY DEF Refuse, At, RunsTyped, Calls
<1>2. n \in Entry /\ n.by = run[r].by /\ n.alone = run[r].alone
  BY <1>1 DEF Entry, RunsTyped, Refuse, Over
<1>3. run' = [run EXCEPT ![r] = n]  BY <1>1 DEF Refuse, Go, RunsTyped, Calls, Over
<1>4. n.at = "end" /\ n.from = run[r].from /\ n.status = run[r].status /\ n.row = run[r].row /\ n.day = run[r].day
  BY <1>1 DEF Entry, Over
<1>5. Same(r, "end")
  <2> HIDE DEF n
  <2> QED BY <1>1, <1>2, <1>3, <1>4, Replaced DEF Same
<1>6. UNCHANGED monitor /\ UNCHANGED day  BY DEF Refuse, rest
<1> QED BY <1>1, <1>5, <1>6

LEMMA EnterDoes ==
  ASSUME RunsTyped, NEW r \in 1..MaxRun, Enter(r)
  PROVE  /\ r \in Calls /\ run[r].at = "called" /\ ~monitor.running /\ Became(r, "prepare", run[r].from, run[r].status, run[r].row, day)
         /\ Flags(TRUE, FALSE, FALSE) /\ UNCHANGED day
<1> DEFINE n == [run[r] EXCEPT !.at = "prepare", !.day = day]
<1>1. r \in Calls /\ run[r] \in Entry /\ run[r].at = "called" /\ ~monitor.running
  BY DEF Enter, At, RunsTyped, Calls
<1>2. n \in Entry /\ n.by = run[r].by /\ n.alone = run[r].alone
  BY <1>1 DEF Entry, RunsTyped, Enter, Over
<1>3. run' = [run EXCEPT ![r] = n]  BY <1>1 DEF Enter, Go, RunsTyped, Calls, Over
<1>4. n.at = "prepare" /\ n.from = run[r].from /\ n.status = run[r].status /\ n.row = run[r].row /\ n.day = day
  BY <1>1 DEF Entry, Over
<1>5. Became(r, "prepare", run[r].from, run[r].status, run[r].row, day)
  <2> HIDE DEF n
  <2> QED BY <1>1, <1>2, <1>3, <1>4, Replaced
<1>6. Flags(TRUE, FALSE, FALSE) /\ UNCHANGED day
  <2>1. r \in 0..MaxRun  OBVIOUS
  <2>2. monitor' = [running |-> TRUE, cancel |-> FALSE, cancelled |-> FALSE, shows |-> r]
    BY DEF Enter, Idle
  <2>3. UNCHANGED day  BY DEF Enter, rest
  <2>4. monitor' \in Monitor  BY <2>1, <2>2 DEF Monitor
  <2> QED BY <2>2, <2>3, <2>4 DEF Flags
<1> QED BY <1>1, <1>5, <1>6

LEMMA PrepareDoes ==
  ASSUME RunsTyped, NEW r \in 1..MaxRun, Prepare(r)
  PROVE  /\ r \in Calls /\ run[r].at = "prepare" /\ Same(r, "observe")
         /\ Flags(monitor.running, TRUE, monitor.cancelled) /\ UNCHANGED day
<1> DEFINE n == [run[r] EXCEPT !.at = "observe"]
<1>1. r \in Calls /\ run[r] \in Entry /\ run[r].at = "prepare"
  BY DEF Prepare, At, RunsTyped, Calls
<1>2. n \in Entry /\ n.by = run[r].by /\ n.alone = run[r].alone
  BY <1>1 DEF Entry, RunsTyped, Prepare, Over
<1>3. run' = [run EXCEPT ![r] = n]  BY <1>1 DEF Prepare, Go, RunsTyped, Calls, Over
<1>4. n.at = "observe" /\ n.from = run[r].from /\ n.status = run[r].status /\ n.row = run[r].row /\ n.day = run[r].day
  BY <1>1 DEF Entry, Over
<1>5. Same(r, "observe")
  <2> HIDE DEF n
  <2> QED BY <1>1, <1>2, <1>3, <1>4, Replaced DEF Same
<1>6. Flags(monitor.running, TRUE, monitor.cancelled) /\ UNCHANGED day
  BY DEF Prepare, Flags, RunsTyped, Monitor, Idle, Calls, rest
<1> QED BY <1>1, <1>5, <1>6

LEMMA SolveDoes ==
  ASSUME RunsTyped, NEW r \in 1..MaxRun, Solve(r)
  PROVE  /\ r \in Calls /\ run[r].at = "observe" /\ Same(r, "observe")
         /\ UNCHANGED monitor /\ UNCHANGED day
<1> DEFINE n == [run[r] EXCEPT !.solved = @ + 1]
<1>1. r \in Calls /\ run[r] \in Entry /\ run[r].at = "observe"
  BY DEF Solve, At, RunsTyped, Calls
<1>2. n \in Entry /\ n.by = run[r].by /\ n.alone = run[r].alone
  <2>1. run[r].solved \in 0..Enough /\ run[r].solved < Enough  BY <1>1 DEF Entry, Solve
  <2>2. run[r].solved + 1 \in 0..Enough  BY <2>1
  <2> QED BY <1>1, <2>2 DEF Entry
<1>3. run' = [run EXCEPT ![r] = n]  BY <1>1 DEF Solve, Go, RunsTyped, Calls, Over
<1>4. n.at = "observe" /\ n.from = run[r].from /\ n.status = run[r].status /\ n.row = run[r].row /\ n.day = run[r].day
  BY <1>1 DEF Entry, Over
<1>5. Same(r, "observe")
  <2> HIDE DEF n
  <2> QED BY <1>1, <1>2, <1>3, <1>4, Replaced DEF Same
<1>6. UNCHANGED monitor /\ UNCHANGED day  BY DEF Solve, rest
<1> QED BY <1>1, <1>5, <1>6

LEMMA ReturnsDoes ==
  ASSUME RunsTyped, NEW r \in 1..MaxRun, Returns(r)
  PROVE  /\ r \in Calls /\ run[r].at = "observe" /\ Same(r, "judge")
         /\ UNCHANGED monitor /\ UNCHANGED day
<1> DEFINE n == [run[r] EXCEPT !.at = "judge"]
<1>1. r \in Calls /\ run[r] \in Entry /\ run[r].at = "observe"
  BY DEF Returns, At, RunsTyped, Calls
<1>2. n \in Entry /\ n.by = run[r].by /\ n.alone = run[r].alone
  BY <1>1 DEF Entry, RunsTyped, Returns, Over
<1>3. run' = [run EXCEPT ![r] = n]  BY <1>1 DEF Returns, Go, RunsTyped, Calls, Over
<1>4. n.at = "judge" /\ n.from = run[r].from /\ n.status = run[r].status /\ n.row = run[r].row /\ n.day = run[r].day
  BY <1>1 DEF Entry, Over
<1>5. Same(r, "judge")
  <2> HIDE DEF n
  <2> QED BY <1>1, <1>2, <1>3, <1>4, Replaced DEF Same
<1>6. UNCHANGED monitor /\ UNCHANGED day  BY DEF Returns, rest
<1> QED BY <1>1, <1>5, <1>6

LEMMA JudgeDoes ==
  ASSUME RunsTyped, NEW r \in 1..MaxRun, Judge(r)
  PROVE  /\ r \in Calls /\ run[r].at = "judge" 
         /\ \E status \in {"cancelled", "measured", "error"} :
              /\ status = "cancelled" <=> monitor.cancelled
              /\ Became(r, "save", run[r].from, status, run[r].row, run[r].day)
         /\ UNCHANGED monitor /\ UNCHANGED day
<1> DEFINE n == [run[r] EXCEPT !.at = "save", !.status = IF monitor.cancelled THEN "cancelled"
                             ELSE IF run[r].solved = Enough THEN "measured" ELSE "error"]
<1>1. r \in Calls /\ run[r] \in Entry /\ run[r].at = "judge"
  BY DEF Judge, At, RunsTyped, Calls
<1>2. n \in Entry /\ n.by = run[r].by /\ n.alone = run[r].alone
  BY <1>1 DEF Entry, RunsTyped, Judge, Over
<1>3. run' = [run EXCEPT ![r] = n]  BY <1>1 DEF Judge, Go, RunsTyped, Calls, Over
<1>4. n.at = "save" /\ n.from = run[r].from /\ n.row = run[r].row /\ n.day = run[r].day
  BY <1>1 DEF Entry, Over
<1>5. Became(r, "save", run[r].from, n.status, run[r].row, run[r].day)
  <2> HIDE DEF n
  <2> QED BY <1>1, <1>2, <1>3, <1>4, Replaced
<1>6. UNCHANGED monitor /\ UNCHANGED day  BY DEF Judge, rest
<1>7. n.status \in {"cancelled", "measured", "error"} /\ (n.status = "cancelled" <=> monitor.cancelled)
  BY <1>1 DEF Entry
<1> QED BY <1>1, <1>5, <1>6, <1>7

LEMMA LeaveDoes ==
  ASSUME RunsTyped, NEW r \in 1..MaxRun, Leave(r)
  PROVE  /\ r \in Calls /\ run[r].at = "leave" /\ Became(r, "end", "", "", run[r].row, run[r].day)
         /\ Flags(FALSE, FALSE, monitor.cancelled) /\ UNCHANGED day
<1> DEFINE n == Over(r)
<1>1. r \in Calls /\ run[r] \in Entry /\ run[r].at = "leave"
  BY DEF Leave, At, RunsTyped, Calls
<1>2. n \in Entry /\ n.by = run[r].by /\ n.alone = run[r].alone
  <2>1. 0 \in 0..Enough  OBVIOUS
  <2> QED BY <1>1, <2>1 DEF Entry, Over
<1>3. run' = [run EXCEPT ![r] = n]  BY <1>1 DEF Leave, Go, RunsTyped, Calls, Over
<1>4. n.at = "end" /\ n.from = "" /\ n.status = "" /\ n.row = run[r].row /\ n.day = run[r].day
  BY <1>1 DEF Entry, Over
<1>5. Became(r, "end", "", "", run[r].row, run[r].day)
  <2> HIDE DEF n
  <2> QED BY <1>1, <1>2, <1>3, <1>4, Replaced
<1>6. Flags(FALSE, FALSE, monitor.cancelled) /\ UNCHANGED day
  BY DEF Leave, Flags, RunsTyped, Monitor, Idle, Calls, rest
<1> QED BY <1>1, <1>5, <1>6

LEMMA PrepareFailsDoes ==
  ASSUME RunsTyped, NEW r \in 1..MaxRun, PrepareFails(r)
  PROVE  /\ r \in Calls /\ run[r].at = "prepare" /\ UNCHANGED <<monitor, day>>
         /\ \/ Same(r, "leave")
            \/ Became(r, "save", run[r].from, "error", run[r].row, run[r].day)
<1>1. r \in Calls /\ run[r] \in Entry /\ run[r].at = "prepare" /\ UNCHANGED <<monitor, day>>
  BY DEF PrepareFails, At, RunsTyped, Calls, rest
<1>2. CASE Go(r, "leave")
  <2> DEFINE n == [run[r] EXCEPT !.at = "leave"]
  <2>1. n \in Entry /\ n.by = run[r].by /\ n.alone = run[r].alone  BY <1>1 DEF Entry
  <2>2. run' = [run EXCEPT ![r] = n]  BY <1>1, <1>2 DEF Go, RunsTyped, Calls
  <2>3. n.at = "leave" /\ n.from = run[r].from /\ n.status = run[r].status /\ n.row = run[r].row
        /\ n.day = run[r].day
    BY <1>1 DEF Entry
  <2> HIDE DEF n
  <2> QED BY <1>1, <2>1, <2>2, <2>3, Replaced DEF Same
<1>3. CASE run' = [run EXCEPT ![r].at = "save", ![r].status = "error"]
  <2> DEFINE n == [run[r] EXCEPT !.at = "save", !.status = "error"]
  <2>1. n \in Entry /\ n.by = run[r].by /\ n.alone = run[r].alone  BY <1>1 DEF Entry
  <2>2. run' = [run EXCEPT ![r] = n]  BY <1>1, <1>3 DEF RunsTyped, Calls
  <2>3. n.at = "save" /\ n.from = run[r].from /\ n.status = "error" /\ n.row = run[r].row
        /\ n.day = run[r].day
    BY <1>1 DEF Entry
  <2> HIDE DEF n
  <2> QED BY <1>1, <2>1, <2>2, <2>3, Replaced
<1> QED BY <1>1, <1>2, <1>3 DEF PrepareFails

LEMMA SaveRowDoes ==
  ASSUME RunsTyped, NEW r \in 1..MaxRun, SaveRow(r)
  PROVE  /\ r \in Calls /\ run[r].at = "save" /\ UNCHANGED <<monitor, day>>
         /\ \/ Same(r, "leave")
            \/ Became(r, "leave", run[r].from, run[r].status, TRUE, run[r].day)
<1>1. r \in Calls /\ run[r] \in Entry /\ run[r].at = "save" /\ UNCHANGED <<monitor, day>>
  BY DEF SaveRow, At, RunsTyped, Calls, rest
<1>2. CASE Go(r, "leave")
  <2> DEFINE n == [run[r] EXCEPT !.at = "leave"]
  <2>1. n \in Entry /\ n.by = run[r].by /\ n.alone = run[r].alone  BY <1>1 DEF Entry
  <2>2. run' = [run EXCEPT ![r] = n]  BY <1>1, <1>2 DEF Go, RunsTyped, Calls
  <2>3. n.at = "leave" /\ n.from = run[r].from /\ n.status = run[r].status /\ n.row = run[r].row
        /\ n.day = run[r].day
    BY <1>1 DEF Entry
  <2> HIDE DEF n
  <2> QED BY <1>1, <2>1, <2>2, <2>3, Replaced DEF Same
<1>3. CASE run' = [run EXCEPT ![r].at = "leave", ![r].row = TRUE]
  <2> DEFINE n == [run[r] EXCEPT !.at = "leave", !.row = TRUE]
  <2>1. n \in Entry /\ n.by = run[r].by /\ n.alone = run[r].alone  BY <1>1 DEF Entry
  <2>2. run' = [run EXCEPT ![r] = n]  BY <1>1, <1>3 DEF RunsTyped, Calls
  <2>3. n.at = "leave" /\ n.from = run[r].from /\ n.status = run[r].status /\ n.row = TRUE
        /\ n.day = run[r].day
    BY <1>1 DEF Entry
  <2> HIDE DEF n
  <2> QED BY <1>1, <2>1, <2>2, <2>3, Replaced
<1> QED BY <1>1, <1>2, <1>3 DEF SaveRow

LEMMA CallDoes ==
  ASSUME RunsTyped, NEW who \in {"admin", "schedule"}, Call(who)
  PROVE  \E r \in Nat :
           /\ r \notin Calls /\ Calls' = Calls \cup {r} /\ \A s \in Calls : run'[s] = run[s]
           /\ run' \in Seq(Entry) /\ Len(run') <= MaxRun
           /\ run'[r].at = "called" /\ run'[r].from = "" /\ run'[r].status = ""
           /\ run'[r].row = FALSE /\ run'[r].day = 0 /\ run'[r].by = who
           /\ run'[r].alone = (who = "admin" \/ UnderWay = {})
<1> DEFINE n == [by |-> who, alone |-> who = "admin" \/ UnderWay = {}, day |-> 0, at |-> "called",
                 solved |-> 0, from |-> "", status |-> "", row |-> FALSE]
           r == Len(run) + 1
<1>1. run \in Seq(Entry) /\ Len(run) \in Nat  BY DEF RunsTyped
<1>2. n \in Entry
  <2>1. (who = "admin" \/ UnderWay = {}) \in BOOLEAN  OBVIOUS
  <2>2. 0 \in 0..MaxDay /\ 0 \in 0..Enough  OBVIOUS
  <2> QED BY <2>1, <2>2 DEF Entry
<1>3. n.at = "called" /\ n.from = "" /\ n.status = "" /\ n.row = FALSE /\ n.day = 0 /\ n.by = who
      /\ n.alone = (who = "admin" \/ UnderWay = {})
  OBVIOUS
<1>4. run' = Append(run, n) /\ Len(run) < MaxRun  BY DEF Call
<1> HIDE DEF n
<1>5. /\ Append(run, n) \in Seq(Entry) /\ Len(Append(run, n)) = Len(run) + 1
      /\ \A s \in 1..Len(run) : Append(run, n)[s] = run[s]
      /\ Append(run, n)[Len(run) + 1] = n
  BY <1>1, <1>2, AppendProperties
<1>6. r \in Nat /\ r \notin Calls /\ Calls' = Calls \cup {r}  BY <1>1, <1>4, <1>5 DEF Calls
<1>7. \A s \in Calls : run'[s] = run[s]  BY <1>1, <1>4, <1>5 DEF Calls
<1>8. run' \in Seq(Entry) /\ Len(run') <= MaxRun /\ run'[r] = n  BY <1>1, <1>4, <1>5
<1> QED BY <1>3, <1>6, <1>7, <1>8

LEMMA Mapped ==
  ASSUME RunsTyped, NEW f, DOMAIN f = Calls, f = [r \in Calls |-> f[r]], \A r \in Calls : f[r] \in Entry
  PROVE  f \in Seq(Entry) /\ Len(f) = Len(run)
<1>1. Len(run) \in Nat /\ Calls = 1..Len(run)  BY DEF RunsTyped, Calls
<1>2. f \in [1..Len(run) -> Entry]  BY <1>1
<1> QED BY <1>1, <1>2

LEMMA CancelDoes ==
  ASSUME RunsTyped, Cancel
  PROVE  /\ monitor.running /\ monitor.cancel /\ ~monitor.cancelled
         /\ Flags(monitor.running, monitor.cancel, TRUE) /\ UNCHANGED day
         /\ run' \in Seq(Entry) /\ Len(run') = Len(run) /\ Calls' = Calls
         /\ \A r \in Calls :
              /\ run'[r].at = run[r].at /\ run'[r].status = run[r].status /\ run'[r].row = run[r].row
              /\ run'[r].day = run[r].day /\ run'[r].by = run[r].by /\ run'[r].alone = run[r].alone
              /\ run'[r].from = IF r \notin Inside THEN run[r].from
                               ELSE IF run[r].at \in {"observe", "judge"} THEN "early" ELSE "late"
<1>1. monitor.running /\ monitor.cancel /\ ~monitor.cancelled /\ UNCHANGED day  BY DEF Cancel
<1>2. Flags(monitor.running, monitor.cancel, TRUE)  BY DEF Cancel, Flags, RunsTyped, Monitor
<1>3. ASSUME NEW r \in Calls
      PROVE  /\ run'[r] \in Entry
             /\ run'[r].at = run[r].at /\ run'[r].status = run[r].status /\ run'[r].row = run[r].row
             /\ run'[r].day = run[r].day /\ run'[r].by = run[r].by /\ run'[r].alone = run[r].alone
             /\ run'[r].from = IF r \notin Inside THEN run[r].from
                              ELSE IF run[r].at \in {"observe", "judge"} THEN "early" ELSE "late"
  <2>1. run[r] \in Entry  BY DEF RunsTyped, Calls
  <2>2. run'[r] = IF r \in Inside THEN [run[r] EXCEPT !.from =
                    IF run[r].at \in {"observe", "judge"} THEN "early" ELSE "late"] ELSE run[r]
    BY DEF Cancel
  <2> QED BY <2>1, <2>2 DEF Entry
<1>4. run' = [r \in Calls |-> run'[r]] /\ DOMAIN run' = Calls  BY DEF Cancel
<1>5. run' \in Seq(Entry) /\ Len(run') = Len(run)
  <2> DEFINE f == run'
  <2>1. DOMAIN f = Calls /\ f = [r \in Calls |-> f[r]] /\ \A r \in Calls : f[r] \in Entry
    BY <1>3, <1>4
  <2> HIDE DEF f
  <2>2. f \in Seq(Entry) /\ Len(f) = Len(run)  BY <2>1, Mapped
  <2> QED BY <2>2 DEF f
<1> QED BY <1>1, <1>2, <1>3, <1>4, <1>5 DEF Calls

LEMMA ExitDoes ==
  ASSUME RunsTyped, Exit
  PROVE  /\ Flags(FALSE, FALSE, FALSE) /\ UNCHANGED day
         /\ run' \in Seq(Entry) /\ Len(run') = Len(run) /\ Calls' = Calls
         /\ \A r \in Calls :
              /\ run'[r].at = "end" /\ run'[r].status = "" /\ run'[r].from = "" /\ run'[r].row = run[r].row
              /\ run'[r].day = run[r].day /\ run'[r].by = run[r].by /\ run'[r].alone = run[r].alone
<1>1. Flags(FALSE, FALSE, FALSE) /\ UNCHANGED day
  <2>1. 0 \in 0..MaxRun  OBVIOUS
  <2> QED BY <2>1 DEF Exit, Flags, Monitor, Idle
<1>2. ASSUME NEW r \in Calls
      PROVE  /\ run'[r] \in Entry
             /\ run'[r].at = "end" /\ run'[r].status = "" /\ run'[r].from = "" /\ run'[r].row = run[r].row
             /\ run'[r].day = run[r].day /\ run'[r].by = run[r].by /\ run'[r].alone = run[r].alone
  <2>1. run[r] \in Entry /\ 0 \in 0..Enough  BY DEF RunsTyped, Calls
  <2>2. run'[r] = Over(r)  BY DEF Exit
  <2> QED BY <2>1, <2>2 DEF Entry, Over
<1>3. run' = [r \in Calls |-> run'[r]] /\ DOMAIN run' = Calls  BY DEF Exit
<1>4. run' \in Seq(Entry) /\ Len(run') = Len(run)
  <2> DEFINE f == run'
  <2>1. DOMAIN f = Calls /\ f = [r \in Calls |-> f[r]] /\ \A r \in Calls : f[r] \in Entry
    BY <1>2, <1>3
  <2> HIDE DEF f
  <2>2. f \in Seq(Entry) /\ Len(f) = Len(run)  BY <2>1, Mapped
  <2> QED BY <2>2 DEF f
<1> QED BY <1>1, <1>2, <1>3, <1>4 DEF Calls

\* The steps that change no run, and of the monitor only what it shows.
Quiet == UNCHANGED <<run, day, fault>> /\ Flags(monitor.running, monitor.cancel, monitor.cancelled)

LEMMA QuietSteps ==
  ASSUME RunsTyped, NEW r \in 1..MaxRun,
         Helpers(r) \/ FeedBreaks(r) \/ WatchReads(r) \/ MinutePasses \/ Restart \/ UNCHANGED vars
  PROVE  Quiet
<1>1. CASE WatchShows(r)
  <2>1. r \in 0..MaxRun  OBVIOUS
  <2> QED BY <1>1, <2>1 DEF WatchShows, Quiet, Flags, RunsTyped, Monitor, rest
<1>2. CASE ~WatchShows(r)
  <2>1. UNCHANGED <<run, day, fault, monitor>>
    BY <1>2 DEF Helpers, FeedEnds, WatchEnds, FeedBreaks, WatchReads, MinutePasses, Restart, vars, rest
  <2> QED BY <2>1 DEF Quiet, Flags, RunsTyped, Monitor
<1> QED BY <1>1, <1>2

\* What may happen to runs, flags and days.
LEMMA NextIs ==
  ASSUME RunsTyped, [Next]_vars
  PROVE  \/ Quiet \/ TickRuns \/ TickBlind \/ AskRun \/ Cancel \/ Midnight \/ Exit
         \/ \E r \in 1..MaxRun : Run(r) \/ Solve(r)
<1>1. CASE MinutePasses \/ Restart \/ UNCHANGED vars
  <2>1. UNCHANGED <<run, day, fault, monitor>>  BY <1>1 DEF MinutePasses, Restart, vars
  <2> QED BY <2>1 DEF Quiet, Flags, RunsTyped, Monitor
<1>2. ASSUME NEW r \in 1..MaxRun, Helpers(r) \/ FeedBreaks(r) \/ WatchReads(r)  PROVE Quiet
  BY <1>2, QuietSteps
<1> QED BY <1>1, <1>2 DEF Next

LEMMA Cases ==
  ASSUME RunsTyped, [Next]_vars
  PROVE  \/ Quiet \/ Cancel \/ Midnight \/ Exit
         \/ \E who \in {"admin", "schedule"} : Call(who) /\ UNCHANGED <<day, monitor>>
         \/ \E r \in 1..MaxRun : Run(r) \/ Solve(r)
<1>1. CASE TickRuns \/ TickBlind \/ AskRun
  BY <1>1 DEF TickRuns, TickBlind, AskRun
<1> QED BY <1>1, NextIs

\* Failures of the database are counted.
LEMMA FaultStep ==
  ASSUME RunsTyped, [Next]_vars
  PROVE  fault' \in Nat /\ (fault > 0 => fault' > 0) /\ (TickBlind => fault' > 0)
<1>1. fault \in Nat  BY DEF RunsTyped
<1>2. fault' = fault \/ fault' = fault + 1
  BY DEF Next, vars, TickRuns, TickBlind, AskRun, Cancel, Run, Refuse, Enter, PrepareFails, Prepare,
         Returns, Judge, SaveRow, Leave, Solve, Helpers, FeedEnds, WatchShows, WatchEnds, FeedBreaks,
         WatchReads, Midnight, MinutePasses, Exit, Restart, ByDatabase
<1>3. TickBlind => fault' = fault + 1  BY DEF TickBlind, ByDatabase
<1> QED BY <1>1, <1>2, <1>3

LEMMA RunsStep ==
  ASSUME RunsTyped, [Next]_vars  PROVE RunsTyped'
<1>1. fault' \in Nat  BY FaultStep
<1>2. CASE Quiet  BY <1>1, <1>2 DEF Quiet, Flags, RunsTyped
<1>3. ASSUME NEW who \in {"admin", "schedule"}, Call(who), UNCHANGED <<day, monitor>>
      PROVE  RunsTyped'
  BY <1>1, <1>3, CallDoes DEF RunsTyped
<1>4. CASE Cancel  BY <1>1, <1>4, CancelDoes DEF RunsTyped, Flags
<1>5. CASE Exit  BY <1>1, <1>5, ExitDoes DEF RunsTyped, Flags
<1>6. CASE Midnight  BY <1>1, <1>6 DEF Midnight, RunsTyped
<1>7. ASSUME NEW r \in 1..MaxRun, Run(r) \/ Solve(r)  PROVE RunsTyped'
  <2>1. run' \in Seq(Entry) /\ Len(run') = Len(run) /\ UNCHANGED day
    BY <1>7, RefuseDoes, EnterDoes, PrepareDoes, PrepareFailsDoes, SolveDoes, ReturnsDoes, JudgeDoes,
       SaveRowDoes, LeaveDoes DEF Run, Same, Became
  <2>2. monitor' \in Monitor
    <3>1. monitor \in Monitor  BY DEF RunsTyped
    <3> QED BY <1>7, <3>1, RefuseDoes, EnterDoes, PrepareDoes, PrepareFailsDoes, SolveDoes, ReturnsDoes,
               JudgeDoes, SaveRowDoes, LeaveDoes DEF Run, Flags
  <2> QED BY <1>1, <2>1, <2>2 DEF RunsTyped
<1> QED BY <1>2, <1>3, <1>4, <1>5, <1>6, <1>7, Cases

-----------------------------------------------------------------------------
(***************************************************************************)
(* Flags, places and days                                                  *)
(***************************************************************************)
\* Inside is a set of calls, said without run' in its definition.
LEMMA InsideIs == Inside = {r \in Calls : run[r].at \notin {"called", "end"}}
  BY DEF Inside, UnderWay

LEMMA PlacesOf ==
  ASSUME PlacesAreTrue, NEW r, NEW at, NEW from, NEW status, NEW row, NEW on,
         Became(r, at, from, status, row, on), Placed(at, from, status, row)
  PROVE  PlacesAreTrue'
  BY DEF PlacesAreTrue, Became

LEMMA PlacesStep ==
  ASSUME RunsTyped, FlagsAreOfRun, PlacesAreTrue, [Next]_vars  PROVE PlacesAreTrue'
<1>1. CASE Quiet \/ Midnight  BY <1>1 DEF Quiet, Midnight, PlacesAreTrue, Calls
<1>2. ASSUME NEW who \in {"admin", "schedule"}, Call(who)  PROVE PlacesAreTrue'
  <2>1. PICK r \in Nat :
           /\ r \notin Calls /\ Calls' = Calls \cup {r} /\ \A s \in Calls : run'[s] = run[s]
           /\ run'[r].at = "called" /\ run'[r].from = "" /\ run'[r].status = ""
           /\ run'[r].row = FALSE
    BY <1>2, CallDoes
  <2>2. Placed("called", "", "", FALSE)  BY DEF Placed
  <2> QED BY <2>1, <2>2 DEF PlacesAreTrue
<1>3. CASE Cancel
  <2>1. ASSUME NEW r \in Calls  PROVE Placed(run'[r].at, run'[r].from, run'[r].status, run'[r].row)
    <3>1. Placed(run[r].at, run[r].from, run[r].status, run[r].row)  BY DEF PlacesAreTrue
    <3>2. r \in Inside => run[r].from = "" /\ run[r].at # "prepare"
      BY <1>3, CancelDoes DEF FlagsAreOfRun, Flagged
    <3>3. CASE r \in Inside
      <4>1. run'[r].from = IF run[r].at \in {"observe", "judge"} THEN "early" ELSE "late"
        BY <1>3, CancelDoes, <3>3
      <4>2. run'[r].at = run[r].at /\ run'[r].status = run[r].status /\ run'[r].row = run[r].row
        BY <1>3, CancelDoes
      <4>3. run[r].at \notin {"called", "end", "prepare"}  BY <3>2, <3>3, InsideIs
      <4> QED BY <3>1, <3>2, <3>3, <4>1, <4>2, <4>3 DEF Placed
    <3>4. CASE r \notin Inside  BY <1>3, CancelDoes, <3>1, <3>4
    <3> QED BY <3>3, <3>4
  <2> QED BY <1>3, CancelDoes, <2>1 DEF PlacesAreTrue
<1>4. CASE Exit
  <2>1. ASSUME NEW r \in Calls  PROVE Placed(run'[r].at, run'[r].from, run'[r].status, run'[r].row)
    BY <1>4, ExitDoes DEF Placed
  <2> QED BY <1>4, ExitDoes, <2>1 DEF PlacesAreTrue
<1>5. ASSUME NEW r \in 1..MaxRun, Run(r) \/ Solve(r)  PROVE PlacesAreTrue'
  <2>1. r \in Calls => Placed(run[r].at, run[r].from, run[r].status, run[r].row)
    BY DEF PlacesAreTrue
  <2>2. ASSUME r \in Inside, run[r].at = "judge"  PROVE monitor.cancelled <=> run[r].from = "early"
    <3>1. Flagged(run[r].at, run[r].from, monitor.cancel, monitor.cancelled)
      BY <2>2 DEF FlagsAreOfRun
    <3>2. run[r] \in Entry /\ r \in Calls  BY <2>2, InsideIs DEF RunsTyped, Calls
    <3> QED BY <2>1, <2>2, <3>1, <3>2 DEF Flagged, Placed, Entry
  <2>3. CASE Refuse(r)
    <3>1. Became(r, "end", run[r].from, run[r].status, run[r].row, run[r].day) /\ Placed("end", run[r].from, run[r].status, run[r].row)
      BY <2>3, RefuseDoes, <2>1 DEF Same, Placed
    <3> QED BY <3>1, PlacesOf
  <2>4. CASE Enter(r)
    <3>1. Became(r, "prepare", run[r].from, run[r].status, run[r].row, day) /\ Placed("prepare", run[r].from, run[r].status, run[r].row)
      BY <2>4, EnterDoes, <2>1 DEF Same, Placed
    <3> QED BY <3>1, PlacesOf
  <2>5. CASE PrepareFails(r)
    <3>1. \E at, status : Became(r, at, run[r].from, status, run[r].row, run[r].day) /\ Placed(at, run[r].from, status, run[r].row)
      <4>1. CASE Same(r, "leave")
        <5>1. Placed("leave", run[r].from, run[r].status, run[r].row)
          BY <2>5, PrepareFailsDoes, <2>1 DEF Placed
        <5> QED BY <4>1, <5>1 DEF Same
      <4>2. CASE Became(r, "save", run[r].from, "error", run[r].row, run[r].day)
        <5>1. Placed("save", run[r].from, "error", run[r].row)
          BY <2>5, PrepareFailsDoes, <2>1 DEF Placed
        <5> QED BY <4>2, <5>1
      <4> QED BY <2>5, PrepareFailsDoes, <4>1, <4>2
    <3> QED BY <3>1, PlacesOf
  <2>6. CASE Prepare(r)
    <3>1. Became(r, "observe", run[r].from, run[r].status, run[r].row, run[r].day) /\ Placed("observe", run[r].from, run[r].status, run[r].row)
      BY <2>6, PrepareDoes, <2>1 DEF Same, Placed
    <3> QED BY <3>1, PlacesOf
  <2>7. CASE Solve(r)
    <3>1. Became(r, "observe", run[r].from, run[r].status, run[r].row, run[r].day) /\ Placed("observe", run[r].from, run[r].status, run[r].row)
      BY <2>7, SolveDoes, <2>1 DEF Same, Placed
    <3> QED BY <3>1, PlacesOf
  <2>8. CASE Returns(r)
    <3>1. Became(r, "judge", run[r].from, run[r].status, run[r].row, run[r].day) /\ Placed("judge", run[r].from, run[r].status, run[r].row)
      BY <2>8, ReturnsDoes, <2>1 DEF Same, Placed
    <3> QED BY <3>1, PlacesOf
  <2>9. CASE Judge(r)
    <3>1. \E status : Became(r, "save", run[r].from, status, run[r].row, run[r].day) /\ Placed("save", run[r].from, status, run[r].row)
      BY <2>9, JudgeDoes, <2>1, InsideIs, <2>2 DEF Same, Placed
    <3> QED BY <3>1, PlacesOf
  <2>10. CASE SaveRow(r)
    <3>1. \E row : Became(r, "leave", run[r].from, run[r].status, row, run[r].day) /\ Placed("leave", run[r].from, run[r].status, row)
      BY <2>10, SaveRowDoes, <2>1 DEF Same, Placed
    <3> QED BY <3>1, PlacesOf
  <2>11. CASE Leave(r)
    <3>1. Became(r, "end", "", "", run[r].row, run[r].day) /\ Placed("end", "", "", run[r].row)
      BY <2>11, LeaveDoes, <2>1 DEF Same, Placed
    <3> QED BY <3>1, PlacesOf
  <2> QED BY <1>5, <2>3, <2>4, <2>5, <2>6, <2>7, <2>8, <2>9, <2>10, <2>11 DEF Run
<1> QED BY <1>1, <1>2, <1>3, <1>4, <1>5, Cases

\* How a change of run r touches the set of those inside.
LEMMA InsideOf ==
  ASSUME NEW r, NEW at, NEW from, NEW status, NEW row, NEW on, Became(r, at, from, status, row, on)
  PROVE  Inside' = IF at \in {"called", "end"} THEN Inside \ {r} ELSE Inside \cup {r}
<1>1. Inside' = {s \in Calls' : run'[s].at \notin {"called", "end"}}  BY DEF Inside, UnderWay, Calls
<1> QED BY <1>1, InsideIs DEF Became

\* The one inside moves on inside.
LEMMA FlagsOf ==
  ASSUME FlagsAreOfRun, NEW r \in Inside,
         NEW at, NEW from, NEW status, NEW row, NEW on, Became(r, at, from, status, row, on),
         at \notin {"called", "end"},
         NEW cancel, NEW cancelled, Flags(monitor.running, cancel, cancelled),
         Flagged(at, from, cancel, cancelled)
  PROVE  FlagsAreOfRun'
<1>1. Inside' = Inside /\ Inside = {r}  BY InsideOf DEF FlagsAreOfRun
<1> QED BY <1>1 DEF FlagsAreOfRun, Flags, Became

LEMMA FlagsStep ==
  ASSUME RunsTyped, FlagsAreOfRun, PlacesAreTrue, [Next]_vars  PROVE FlagsAreOfRun'
<1>1. Inside' = {r \in Calls' : run'[r].at \notin {"called", "end"}}  BY DEF Inside, UnderWay, Calls
<1>2. CASE Quiet
  <2>1. Inside' = Inside  BY <1>2, <1>1, InsideIs DEF Quiet, Calls
  <2> QED BY <1>2, <2>1 DEF Quiet, Flags, FlagsAreOfRun
<1>3. ASSUME NEW who \in {"admin", "schedule"}, Call(who), UNCHANGED monitor  PROVE FlagsAreOfRun'
  <2>1. /\ \A s \in Calls : run'[s] = run[s]
        /\ \E r : Calls' = Calls \cup {r} /\ run'[r].at = "called"
    BY <1>3, CallDoes
  <2>2. Inside' = Inside /\ \A s \in Inside : run'[s] = run[s]  BY <2>1, <1>1, InsideIs
  <2> QED BY <1>3, <2>2 DEF FlagsAreOfRun
<1>4. CASE Cancel
  <2>1. Inside' = Inside  BY <1>4, <1>1, InsideIs, CancelDoes
  <2>2. ASSUME NEW r \in Inside
        PROVE  Flagged(run'[r].at, run'[r].from, monitor'.cancel, monitor'.cancelled)
    <3>1. Flagged(run[r].at, run[r].from, monitor.cancel, monitor.cancelled)  BY DEF FlagsAreOfRun
    <3>2. run'[r].at = run[r].at /\ run'[r].from \in {"early", "late"}
      BY <1>4, CancelDoes, InsideIs
    <3>3. monitor'.cancel = monitor.cancel /\ monitor'.cancelled = TRUE
      BY <1>4, CancelDoes DEF Flags
    <3> QED BY <3>1, <3>2, <3>3 DEF Flagged
  <2>3. monitor'.running = monitor.running  BY <1>4, CancelDoes DEF Flags
  <2> QED BY <2>1, <2>2, <2>3 DEF FlagsAreOfRun
<1>5. CASE Exit
  <2>1. Inside' = {}  BY <1>5, <1>1, ExitDoes
  <2> QED BY <1>5, <2>1, ExitDoes DEF FlagsAreOfRun, Flags
<1>6. CASE Midnight
  <2>1. Inside' = Inside /\ UNCHANGED <<run, monitor>>  BY <1>6, <1>1, InsideIs DEF Midnight, Calls
  <2> QED BY <2>1 DEF FlagsAreOfRun
<1>7. ASSUME NEW r \in 1..MaxRun, Run(r) \/ Solve(r)  PROVE FlagsAreOfRun'
  <2>1. r \in Inside => /\ Flagged(run[r].at, run[r].from, monitor.cancel, monitor.cancelled)
                        /\ Placed(run[r].at, run[r].from, run[r].status, run[r].row)
    BY InsideIs DEF FlagsAreOfRun, PlacesAreTrue
  <2>2. UNCHANGED monitor => Flags(monitor.running, monitor.cancel, monitor.cancelled)
    BY DEF Flags, RunsTyped, Monitor
  <2>3. CASE Refuse(r)
    <3>1. Inside' = Inside  BY <2>3, RefuseDoes, InsideOf, InsideIs DEF Same
    <3> QED BY <2>3, RefuseDoes, <3>1, InsideIs DEF FlagsAreOfRun, Same, Became
  <2>4. CASE Enter(r)
    <3>1. Inside' = Inside \cup {r}  BY <2>4, EnterDoes, InsideOf
    <3>2. Inside' = {r}  BY <2>4, EnterDoes, <3>1 DEF FlagsAreOfRun
    <3>3. run[r].from = ""  BY <2>4, EnterDoes DEF PlacesAreTrue, Placed
    <3>4. run'[r].at = "prepare" /\ run'[r].from = ""  BY <2>4, EnterDoes, <3>3 DEF Became
    <3>5. monitor'.running = TRUE /\ monitor'.cancel = FALSE /\ monitor'.cancelled = FALSE
      BY <2>4, EnterDoes DEF Flags
    <3> QED BY <3>2, <3>4, <3>5 DEF FlagsAreOfRun, Flagged
  <2>5. CASE Leave(r)
    <3>1. Inside' = Inside \ {r}  BY <2>5, LeaveDoes, InsideOf
    <3>2. Inside' = {}  BY <2>5, LeaveDoes, InsideIs, <3>1 DEF FlagsAreOfRun
    <3> QED BY <3>2, <2>5, LeaveDoes DEF FlagsAreOfRun, Flags
  <2>6. CASE PrepareFails(r)
    <3>1. r \in Inside  BY <2>6, PrepareFailsDoes, InsideIs
    <3>2. \E at \in {"leave", "save"} : \E status : Became(r, at, run[r].from, status, run[r].row, run[r].day)
      BY <2>6, PrepareFailsDoes DEF Same
    <3>3. \A at \in {"leave", "save"} : Flagged(at, run[r].from, monitor.cancel, monitor.cancelled)
      BY <2>1, <3>1 DEF Flagged
    <3>4. Flags(monitor.running, monitor.cancel, monitor.cancelled)  BY <2>6, PrepareFailsDoes, <2>2
    <3> QED BY <3>1, <3>2, <3>3, <3>4, FlagsOf
  <2>7. CASE Prepare(r)
    <3>1. r \in Inside  BY <2>7, PrepareDoes, InsideIs
    <3>2. \E status, row : Became(r, "observe", run[r].from, status, row, run[r].day)
      BY <2>7, PrepareDoes DEF Same
    <3>3. Flagged("observe", run[r].from, TRUE, monitor.cancelled)
      BY <2>1, <3>1, PrepareDoes, <2>7 DEF Flagged
    <3>4. Flags(monitor.running, TRUE, monitor.cancelled)  BY <2>7, PrepareDoes, <2>2
    <3> QED BY <3>1, <3>2, <3>3, <3>4, FlagsOf
  <2>8. CASE Solve(r)
    <3>1. r \in Inside  BY <2>8, SolveDoes, InsideIs
    <3>2. \E status, row : Became(r, "observe", run[r].from, status, row, run[r].day)
      BY <2>8, SolveDoes DEF Same
    <3>3. Flagged("observe", run[r].from, monitor.cancel, monitor.cancelled)
      BY <2>1, <3>1, SolveDoes, <2>8 DEF Flagged
    <3>4. Flags(monitor.running, monitor.cancel, monitor.cancelled)  BY <2>8, SolveDoes, <2>2
    <3> QED BY <3>1, <3>2, <3>3, <3>4, FlagsOf
  <2>9. CASE Returns(r)
    <3>1. r \in Inside  BY <2>9, ReturnsDoes, InsideIs
    <3>2. \E status, row : Became(r, "judge", run[r].from, status, row, run[r].day)
      BY <2>9, ReturnsDoes DEF Same
    <3>3. Flagged("judge", run[r].from, monitor.cancel, monitor.cancelled)
      BY <2>1, <3>1, ReturnsDoes, <2>9 DEF Flagged
    <3>4. Flags(monitor.running, monitor.cancel, monitor.cancelled)  BY <2>9, ReturnsDoes, <2>2
    <3> QED BY <3>1, <3>2, <3>3, <3>4, FlagsOf
  <2>10. CASE Judge(r)
    <3>1. r \in Inside  BY <2>10, JudgeDoes, InsideIs
    <3>2. \E status, row : Became(r, "save", run[r].from, status, row, run[r].day)
      BY <2>10, JudgeDoes DEF Same
    <3>3. Flagged("save", run[r].from, monitor.cancel, monitor.cancelled)
      BY <2>1, <3>1, JudgeDoes, <2>10 DEF Flagged
    <3>4. Flags(monitor.running, monitor.cancel, monitor.cancelled)  BY <2>10, JudgeDoes, <2>2
    <3> QED BY <3>1, <3>2, <3>3, <3>4, FlagsOf
  <2>11. CASE SaveRow(r)
    <3>1. r \in Inside  BY <2>11, SaveRowDoes, InsideIs
    <3>2. \E status, row : Became(r, "leave", run[r].from, status, row, run[r].day)
      BY <2>11, SaveRowDoes DEF Same
    <3>3. Flagged("leave", run[r].from, monitor.cancel, monitor.cancelled)
      BY <2>1, <3>1, SaveRowDoes, <2>11 DEF Flagged
    <3>4. Flags(monitor.running, monitor.cancel, monitor.cancelled)  BY <2>11, SaveRowDoes, <2>2
    <3> QED BY <3>1, <3>2, <3>3, <3>4, FlagsOf
  <2> QED BY <1>7, <2>3, <2>4, <2>6, <2>7, <2>8, <2>9, <2>10, <2>11, <2>5 DEF Run
<1> QED BY <1>2, <1>3, <1>4, <1>5, <1>6, <1>7, Cases

\* The sets OneADay speaks of, said without run' in their definitions.
LEMMA DailyIs ==
  /\ Daily = {r \in Calls : run[r].by = "schedule" /\ run[r].alone}
  /\ UnderWay = {r \in Calls : run[r].at # "end"}
  /\ Rows = {r \in Calls : run[r].row}
  /\ Daily' = {r \in Calls' : run'[r].by = "schedule" /\ run'[r].alone}
  /\ UnderWay' = {r \in Calls' : run'[r].at # "end"}
  /\ Rows' = {r \in Calls' : run'[r].row}
  BY DEF Daily, UnderWay, Rows, Calls

LEMMA DaysAreNat ==
  ASSUME RunsTyped
  PROVE  day \in Nat /\ \A r \in Calls : run[r].day \in Nat
<1>1. day \in Nat  BY DEF RunsTyped
<1>2. ASSUME NEW r \in Calls  PROVE run[r].day \in Nat
  <2>1. run[r] \in Entry  BY DEF RunsTyped, Calls
  <2>2. run[r].day \in 0..MaxDay  BY <2>1 DEF Entry
  <2> QED BY <2>2
<1> QED BY <1>1, <1>2

\* A run that is under way goes on: its day stays, and its row may appear.
LEMMA DailyOf ==
  ASSUME RunsTyped, DailyRows, UNCHANGED day,
         NEW r \in UnderWay, NEW at, NEW from, NEW status, NEW row, NEW on,
         Became(r, at, from, status, row, on), at # "called",
         (run[r].at # "called" /\ on = run[r].day) \/ (run[r].at = "called" /\ on = day /\ row = run[r].row),
         run[r].at = "called" => ~run[r].row
  PROVE  DailyRows'
<1>1. r \in Calls /\ day \in Nat /\ \A s \in Calls : run[s].day \in Nat
  BY DaysAreNat DEF Became
<1>2. Daily' = Daily  BY DailyIs DEF Became
<1>3. UnderWay' \subseteq UnderWay  BY DailyIs DEF Became
<1>4. Rows' \subseteq Rows \cup {r}  BY DailyIs DEF Became
<1>5. \A s \in Calls \ {r} : run'[s] = run[s]  BY DEF Became
<1>6. run'[r].day = on /\ run'[r].at = at /\ run'[r].row = row  BY DEF Became
<1>7. \A s, t \in Daily' \cap UnderWay' : s = t  BY <1>2, <1>3 DEF DailyRows
<1>8. ASSUME NEW s \in Daily' \cap UnderWay', NEW t \in Daily' \cap Rows', t # s
      PROVE  run'[t].day < Since(s)'
  <2>1. CASE s = r
    <3>1. t \in Daily \cap Rows /\ run'[t] = run[t]  BY <1>2, <1>4, <1>5, <1>8, <2>1, DailyIs
    <3>2. run[t].day < Since(r)  BY <1>2, <1>3, <1>8, <2>1, <3>1 DEF DailyRows
    <3>3. Since(r)' = Since(r)  BY <1>6 DEF Since
    <3> QED BY <2>1, <3>1, <3>2, <3>3
  <2>2. CASE s # r
    <3>1. s \in Daily \cap UnderWay /\ run'[s] = run[s]  BY <1>2, <1>3, <1>5, <1>8, <2>2, DailyIs
    <3>2. r \notin Daily  BY <2>2, <3>1 DEF DailyRows
    <3>3. t \in Daily \cap Rows /\ run'[t] = run[t]  BY <1>2, <1>4, <1>5, <1>8, <3>2, DailyIs
    <3>4. Since(s)' = Since(s)  BY <3>1 DEF Since
    <3> QED BY <1>8, <3>1, <3>3, <3>4 DEF DailyRows
  <2> QED BY <2>1, <2>2
<1>9. ASSUME NEW s \in Daily' \cap Rows', NEW t \in Daily' \cap Rows', run'[s].day = run'[t].day
      PROVE  s = t
  <2>1. ASSUME NEW u \in Daily' \cap Rows', u # r, r \in Daily' \cap Rows'  PROVE run'[u].day < run'[r].day
    <3>1. u \in Daily \cap Rows /\ run'[u] = run[u]  BY <1>2, <1>4, <1>5, <2>1, DailyIs
    <3>2. run[u].day < Since(r)  BY <1>2, <2>1, <3>1 DEF DailyRows
    <3>3. Since(r) = on  BY DEF Since
    <3> QED BY <1>6, <3>1, <3>2, <3>3
  <2>2. CASE s # r /\ t # r
    <3>1. s \in Daily \cap Rows /\ t \in Daily \cap Rows /\ run'[s] = run[s] /\ run'[t] = run[t]
      BY <1>2, <1>4, <1>5, <1>9, <2>2, DailyIs
    <3> QED BY <1>9, <3>1 DEF DailyRows
  <2>3. CASE s = r \/ t = r
    <3>1. on \in Nat  BY <1>1
    <3> QED BY <1>1, <1>5, <1>6, <1>9, <2>1, <2>3, <3>1, DailyIs DEF Became
  <2> QED BY <2>2, <2>3
<1> QED BY <1>7, <1>8, <1>9 DEF DailyRows

\* A run is called: one that counts, only when none is under way.
LEMMA DailyCall ==
  ASSUME RunsTyped, DaysInOrder, DailyRows, UNCHANGED day,
         NEW who \in {"admin", "schedule"}, Call(who),
         who = "schedule" => \A r \in Rows : run[r].day # day
  PROVE  DailyRows'
<1>1. PICK r \in Nat :
           /\ r \notin Calls /\ Calls' = Calls \cup {r} /\ \A s \in Calls : run'[s] = run[s]
           /\ run'[r].at = "called" /\ run'[r].row = FALSE /\ run'[r].by = who
           /\ run'[r].alone = (who = "admin" \/ UnderWay = {})
  BY CallDoes
<1>2. Rows' = Rows /\ \A s \in Rows : run'[s] = run[s]  BY <1>1, DailyIs
<1>3. UnderWay' = UnderWay \cup {r}  BY <1>1, DailyIs
<1>4. Daily' \subseteq Daily \cup {r} /\ Daily \subseteq Daily'  BY <1>1, DailyIs
<1>5. r \in Daily' => UnderWay = {} /\ who = "schedule"  BY <1>1, DailyIs
<1>6. Daily' \cap Rows' = Daily \cap Rows  BY <1>1, <1>2, <1>4, DailyIs
<1>7. \A s, t \in Daily' \cap UnderWay' : s = t  BY <1>3, <1>4, <1>5 DEF DailyRows
<1>8. ASSUME NEW s \in Daily' \cap UnderWay', NEW t \in Daily' \cap Rows', t # s
      PROVE  run'[t].day < Since(s)'
  <2>1. t \in Daily \cap Rows /\ run'[t] = run[t] /\ t \in Calls  BY <1>2, <1>6, <1>8, DailyIs
  <2>2. CASE s = r
    <3>1. run[t].day # day  BY <1>5, <1>8, <2>1, <2>2
    <3>2. run[t].day <= day /\ run[t].day \in Nat /\ day \in Nat
      BY <2>1, DaysAreNat DEF DaysInOrder
    <3>3. Since(r)' = day  BY <1>1 DEF Since
    <3> QED BY <2>1, <2>2, <3>1, <3>2, <3>3
  <2>3. CASE s # r
    <3>1. s \in Daily \cap UnderWay /\ run'[s] = run[s]  BY <1>1, <1>3, <1>4, <1>8, <2>3, DailyIs
    <3>2. Since(s)' = Since(s)  BY <3>1 DEF Since
    <3> QED BY <1>8, <2>1, <3>1, <3>2 DEF DailyRows
  <2> QED BY <2>2, <2>3
<1>9. ASSUME NEW s \in Daily' \cap Rows', NEW t \in Daily' \cap Rows', run'[s].day = run'[t].day
      PROVE  s = t
  BY <1>2, <1>6, <1>9 DEF DailyRows
<1> QED BY <1>7, <1>8, <1>9 DEF DailyRows

\* Only what was under way and the day it is in may change, if no day comes.
LEMMA DailySame ==
  ASSUME RunsTyped, DailyRows, day' \in Nat, day <= day',
         Calls' = Calls,
         \A r \in Calls :
           /\ run'[r].at \in {run[r].at, "end"}
           /\ run'[r].row = run[r].row /\ run'[r].day = run[r].day
           /\ run'[r].by = run[r].by /\ run'[r].alone = run[r].alone
  PROVE  DailyRows'
<1>1. Daily' = Daily /\ Rows' = Rows /\ UnderWay' \subseteq UnderWay  BY DailyIs
<1>2. \A s, t \in Daily' \cap UnderWay' : s = t  BY <1>1 DEF DailyRows
<1>3. ASSUME NEW s \in Daily' \cap UnderWay', NEW t \in Daily' \cap Rows', t # s
      PROVE  run'[t].day < Since(s)'
  <2>1. run[t].day < Since(s) /\ s \in Calls /\ t \in Calls  BY <1>1, <1>3, DailyIs DEF DailyRows
  <2>2. run'[s].at = run[s].at  BY <1>3, <2>1, DailyIs
  <2>3. run[t].day \in Nat /\ run[s].day \in Nat /\ day \in Nat  BY <2>1, DaysAreNat
  <2>4. CASE run[s].at = "called"
    <3>1. run[t].day < day /\ Since(s)' = day'  BY <2>1, <2>2, <2>4 DEF Since
    <3> QED BY <2>1, <2>3, <3>1
  <2>5. CASE run[s].at # "called"
    <3>1. run[t].day < run[s].day /\ Since(s)' = run[s].day  BY <2>1, <2>2, <2>5 DEF Since
    <3> QED BY <2>1, <3>1
  <2> QED BY <2>4, <2>5
<1>4. ASSUME NEW s \in Daily' \cap Rows', NEW t \in Daily' \cap Rows', run'[s].day = run'[t].day
      PROVE  s = t
  <2>1. s \in Daily \cap Rows /\ t \in Daily \cap Rows /\ run[s].day = run[t].day
    BY <1>1, <1>4, DailyIs
  <2> QED BY <2>1 DEF DailyRows
<1> QED BY <1>2, <1>3, <1>4 DEF DailyRows

LEMMA DailyStep ==
  ASSUME RunsTyped, PlacesAreTrue, DaysInOrder, DailyRows, [Next]_vars, ~(fault' > 0)
  PROVE  DailyRows'
<1>1. day \in Nat  BY DaysAreNat
<1>2. CASE Quiet
  <2>1. day' = day /\ run' = run  BY <1>2 DEF Quiet
  <2> QED BY <1>1, <2>1, DailySame DEF Calls
<1>3. CASE TickRuns \/ TickBlind \/ AskRun
  <2>1. ~TickBlind  BY FaultStep
  <2>2. CASE TickRuns  BY <2>2, DailyCall DEF TickRuns
  <2>3. CASE AskRun  BY <2>3, DailyCall DEF AskRun
  <2> QED BY <1>3, <2>1, <2>2, <2>3
<1>4. CASE Cancel
  <2>1. day' = day /\ Calls' = Calls  BY <1>4, CancelDoes
  <2> QED BY <1>1, <1>4, <2>1, CancelDoes, DailySame
<1>5. CASE Exit
  <2>1. day' = day /\ Calls' = Calls  BY <1>5, ExitDoes
  <2>2. \A r \in Calls : /\ run'[r].at \in {run[r].at, "end"}
           /\ run'[r].row = run[r].row /\ run'[r].day = run[r].day
           /\ run'[r].by = run[r].by /\ run'[r].alone = run[r].alone
    BY <1>5, ExitDoes
  <2> QED BY <1>1, <2>1, <2>2, DailySame
<1>6. CASE Midnight
  <2>1. day' = day + 1 /\ run' = run  BY <1>6 DEF Midnight
  <2>2. day' \in Nat /\ day <= day'  BY <1>1, <2>1
  <2> QED BY <2>1, <2>2, DailySame DEF Calls
<1>7. ASSUME NEW r \in 1..MaxRun, Run(r) \/ Solve(r)  PROVE DailyRows'
  <2>1. r \in Calls => Placed(run[r].at, run[r].from, run[r].status, run[r].row)
    BY DEF PlacesAreTrue
  <2>2. CASE Refuse(r)
    <3>1. day' = day /\ Calls' = Calls  BY <2>2, RefuseDoes DEF Same, Became
    <3>2. \A s \in Calls : /\ run'[s].at \in {run[s].at, "end"}
           /\ run'[s].row = run[s].row /\ run'[s].day = run[s].day
           /\ run'[s].by = run[s].by /\ run'[s].alone = run[s].alone
      BY <2>2, RefuseDoes DEF Same, Became
    <3> QED BY <1>1, <3>1, <3>2, DailySame
  <2>3. CASE Enter(r)
    <3>1. r \in UnderWay /\ ~run[r].row  BY <2>3, EnterDoes, <2>1, DailyIs DEF Placed
    <3> QED BY <2>3, EnterDoes, <3>1, DailyOf
  <2>4. CASE PrepareFails(r)
    <3>1. r \in UnderWay /\ run[r].at # "called" /\ UNCHANGED day
      BY <2>4, PrepareFailsDoes, DailyIs
    <3>2. \E at, from, status, row : at # "called" /\ Became(r, at, from, status, row, run[r].day)
      BY <2>4, PrepareFailsDoes DEF Same
    <3> QED BY <3>1, <3>2, DailyOf
  <2>5. CASE Prepare(r)
    <3>1. r \in UnderWay /\ run[r].at # "called" /\ UNCHANGED day  BY <2>5, PrepareDoes, DailyIs
    <3>2. \E at, from, status, row : at # "called" /\ Became(r, at, from, status, row, run[r].day)
      BY <2>5, PrepareDoes DEF Same
    <3> QED BY <3>1, <3>2, DailyOf
  <2>6. CASE Solve(r)
    <3>1. r \in UnderWay /\ run[r].at # "called" /\ UNCHANGED day  BY <2>6, SolveDoes, DailyIs
    <3>2. \E at, from, status, row : at # "called" /\ Became(r, at, from, status, row, run[r].day)
      BY <2>6, SolveDoes DEF Same
    <3> QED BY <3>1, <3>2, DailyOf
  <2>7. CASE Returns(r)
    <3>1. r \in UnderWay /\ run[r].at # "called" /\ UNCHANGED day  BY <2>7, ReturnsDoes, DailyIs
    <3>2. \E at, from, status, row : at # "called" /\ Became(r, at, from, status, row, run[r].day)
      BY <2>7, ReturnsDoes DEF Same
    <3> QED BY <3>1, <3>2, DailyOf
  <2>8. CASE Judge(r)
    <3>1. r \in UnderWay /\ run[r].at # "called" /\ UNCHANGED day  BY <2>8, JudgeDoes, DailyIs
    <3>2. \E at, from, status, row : at # "called" /\ Became(r, at, from, status, row, run[r].day)
      BY <2>8, JudgeDoes DEF Same
    <3> QED BY <3>1, <3>2, DailyOf
  <2>9. CASE SaveRow(r)
    <3>1. r \in UnderWay /\ run[r].at # "called" /\ UNCHANGED day  BY <2>9, SaveRowDoes, DailyIs
    <3>2. \E at, from, status, row : at # "called" /\ Became(r, at, from, status, row, run[r].day)
      BY <2>9, SaveRowDoes DEF Same
    <3> QED BY <3>1, <3>2, DailyOf
  <2>10. CASE Leave(r)
    <3>1. r \in UnderWay /\ run[r].at # "called" /\ UNCHANGED day  BY <2>10, LeaveDoes, DailyIs
    <3>2. \E at, from, status, row : at # "called" /\ Became(r, at, from, status, row, run[r].day)
      BY <2>10, LeaveDoes DEF Same
    <3> QED BY <3>1, <3>2, DailyOf
  <2> QED BY <1>7, <2>2, <2>3, <2>4, <2>5, <2>6, <2>7, <2>8, <2>9, <2>10 DEF Run
<1> QED BY <1>2, <1>3, <1>4, <1>5, <1>6, <1>7, NextIs

LEMMA DaysStep ==
  ASSUME RunsTyped, PlacesAreTrue, DaysInOrder, [Next]_vars  PROVE DaysInOrder'
<1>1. day \in Nat /\ \A r \in Calls : run[r].day \in Nat /\ run[r].day <= day
  BY DaysAreNat DEF DaysInOrder
<1>2. fault' > 0 \/ DailyRows'
  <2>1. CASE fault > 0  BY <2>1, FaultStep
  <2>2. CASE DailyRows  BY <2>2, DailyStep
  <2> QED BY <2>1, <2>2 DEF DaysInOrder
<1>3. \A r \in Calls' : run'[r].day <= day'
  <2>1. CASE Quiet  BY <1>1, <2>1 DEF Quiet, Calls
  <2>2. CASE Midnight
    <3>1. day' = day + 1 /\ run' = run  BY <2>2 DEF Midnight
    <3>2. ASSUME NEW r \in Calls'  PROVE run'[r].day <= day'
      <4>1. run[r].day \in Nat /\ run[r].day <= day  BY <1>1, <3>1 DEF Calls
      <4> QED BY <1>1, <3>1, <4>1
    <3> QED BY <3>2
  <2>3. CASE Cancel  BY <1>1, <2>3, CancelDoes
  <2>4. CASE Exit  BY <1>1, <2>4, ExitDoes
  <2>5. ASSUME NEW who \in {"admin", "schedule"}, Call(who), UNCHANGED <<day, monitor>>
        PROVE  \A r \in Calls' : run'[r].day <= day'
    <3>1. PICK r \in Nat :
           /\ Calls' = Calls \cup {r} /\ \A s \in Calls : run'[s] = run[s]
           /\ run'[r].day = 0
      BY <2>5, CallDoes
    <3> QED BY <1>1, <2>5, <3>1
  <2>6. ASSUME NEW r \in 1..MaxRun, Run(r) \/ Solve(r)
        PROVE  \A s \in Calls' : run'[s].day <= day'
    <3>1. \E at, from, status, row : \E on \in {day, run[r].day} : Became(r, at, from, status, row, on)
      BY <2>6, RefuseDoes, EnterDoes, PrepareDoes, PrepareFailsDoes, SolveDoes, ReturnsDoes, JudgeDoes,
         SaveRowDoes, LeaveDoes DEF Run, Same
    <3>2. UNCHANGED day
      BY <2>6, RefuseDoes, EnterDoes, PrepareDoes, PrepareFailsDoes, SolveDoes, ReturnsDoes, JudgeDoes,
         SaveRowDoes, LeaveDoes DEF Run
    <3> QED BY <1>1, <3>1, <3>2 DEF Became
  <2> QED BY <2>1, <2>2, <2>3, <2>4, <2>5, <2>6, Cases
<1> QED BY <1>2, <1>3 DEF DaysInOrder

-----------------------------------------------------------------------------
(***************************************************************************)
(* The theorems                                                            *)
(***************************************************************************)
LEMMA InitIInv == Init => IInv
<1> SUFFICES ASSUME Init  PROVE IInv  OBVIOUS
<1>1. run = << >> /\ Calls = {} /\ monitor = Idle /\ day = 0 /\ fault = 0  BY DEF Init, Calls
<1>2. Inside = {} /\ UnderWay = {}  BY <1>1, InsideIs, DailyIs
<1>3. RunsTyped
  <2>1. << >> \in Seq(Entry) /\ Len(<< >>) = 0 /\ 0 \in 0..MaxRun /\ 0 \in 0..MaxDay  OBVIOUS
  <2>2. Idle \in Monitor  BY <2>1 DEF Idle, Monitor
  <2> QED BY <1>1, <2>1, <2>2 DEF RunsTyped
<1>4. FlagsAreOfRun  BY <1>1, <1>2 DEF FlagsAreOfRun, Idle
<1>5. PlacesAreTrue  BY <1>1 DEF PlacesAreTrue
<1>6. DaysInOrder  BY <1>1, <1>2, DailyIs DEF DaysInOrder, DailyRows
<1> QED BY <1>3, <1>4, <1>5, <1>6 DEF IInv

LEMMA IInvHolds == Spec => []IInv
<1>1. IInv /\ [Next]_vars => IInv'  BY RunsStep, FlagsStep, PlacesStep, DaysStep DEF IInv
<1> QED BY InitIInv, <1>1, PTL DEF Spec

LEMMA IInvSays ==
  ASSUME IInv  PROVE RowsAreTrue
<1>1. OneRun
  <2>1. Cardinality(Inside) <= 1
    <3>1. CASE Inside = {}
      <4>1. Cardinality(Inside) = 0  BY <3>1, FS_EmptySet
      <4> QED BY <4>1
    <3>2. CASE Inside # {}
      <4>1. PICK r : Inside = {r}  BY <3>2 DEF IInv, FlagsAreOfRun
      <4>2. Cardinality(Inside) = 1  BY <4>1, FS_Singleton
      <4> QED BY <4>2
    <3> QED BY <3>1, <3>2
  <2> QED BY <2>1 DEF OneRun, IInv, FlagsAreOfRun, Flagged
<1>2. CancelIsKept
  <2> SUFFICES ASSUME NEW r \in Rows  PROVE run[r].status = "cancelled" <=> run[r].from = "early"
    BY DEF CancelIsKept
  <2>1. Placed(run[r].at, run[r].from, run[r].status, run[r].row) /\ run[r].row
    BY DailyIs DEF IInv, PlacesAreTrue
  <2> QED BY <2>1 DEF Placed
<1>3. OneADay  BY DailyIs DEF IInv, DaysInOrder, DailyRows, OneADay
<1> QED BY <1>1, <1>2, <1>3 DEF RowsAreTrue

\* However runs are started, cancelled, refused, timed out or cut off by an exit,
\* the rows of the monitor are those that RowsAreTrue describes (Runner.Run,
\* Cancel and the schedule).
THEOREM RowsStayTrue == Spec => []RowsAreTrue
  BY IInvHolds, IInvSays, PTL

\* The variables no property speaks of.
RestTyped ==
  /\ up \in BOOLEAN /\ minute \in BOOLEAN /\ fault \in 0..MaxFault
  /\ feed \subseteq 1..MaxRun /\ watch \in [1..MaxRun -> {"off", "wait", "read"}]

LEMMA RestStep ==
  ASSUME RestTyped, [Next]_vars  PROVE RestTyped'
<1>1. up' \in BOOLEAN /\ minute' \in BOOLEAN
  BY DEF RestTyped, Next, vars, TickRuns, TickBlind, AskRun, Cancel, Run, Refuse, Enter, PrepareFails,
         Prepare, Returns, Judge, SaveRow, Leave, Solve, Helpers, FeedEnds, WatchShows, WatchEnds,
         FeedBreaks, WatchReads, Midnight, MinutePasses, Exit, Restart, rest
<1>2. fault' = fault \/ (fault < MaxFault /\ fault' = fault + 1)
  BY DEF Next, vars, TickRuns, TickBlind, AskRun, Cancel, Run, Refuse, Enter, PrepareFails, Prepare,
         Returns, Judge, SaveRow, Leave, Solve, Helpers, FeedEnds, WatchShows, WatchEnds, FeedBreaks,
         WatchReads, Midnight, MinutePasses, Exit, Restart, ByDatabase
<1>3. fault' \in 0..MaxFault  BY <1>2 DEF RestTyped
<1>4. feed' \subseteq 1..MaxRun /\ watch' \in [1..MaxRun -> {"off", "wait", "read"}]
  BY DEF RestTyped, Next, vars, TickRuns, TickBlind, AskRun, Cancel, Run, Refuse, Enter, PrepareFails,
         Prepare, Returns, Judge, SaveRow, Leave, Solve, Helpers, FeedEnds, WatchShows, WatchEnds,
         FeedBreaks, WatchReads, Midnight, MinutePasses, Exit, Restart
<1> QED BY <1>1, <1>3, <1>4 DEF RestTyped

\* Types of the integrity monitor.
THEOREM IntegrityTypes == Spec => []TypeOK
<1>1. Init => RestTyped
  <2>1. 0 \in 0..MaxFault  OBVIOUS
  <2> QED BY <2>1 DEF Init, RestTyped
<1>2. RestTyped /\ [Next]_vars => RestTyped'  BY RestStep
<1>3. Spec => []RestTyped  BY <1>1, <1>2, PTL DEF Spec
<1>4. IInv /\ RestTyped => TypeOK  BY DEF IInv, RunsTyped, RestTyped, TypeOK, Entry, Monitor
<1> QED BY IInvHolds, <1>3, <1>4, PTL

HIDE IntegrityAssumption DEF IntegrityAssumption

-----------------------------------------------------------------------------
(***************************************************************************)
(* The scanner (Scanner)                                                   *)
(***************************************************************************)
Bytes == 0..Scan!Byte - 1

\* One sequence begins with another.
Begins(w, g) == Len(g) <= Len(w) /\ \A i \in 1..Len(g) : w[i] = g[i]

\* What is tried, by the first byte.
LEMMA TryIs ==
  ASSUME NEW w
  PROVE  /\ w[1] = Scan!D3 =>
              /\ Scan!Try(w).may <=> (Len(w) < 3 \/ w[2] \div 2 = 0)
              /\ Scan!Try(w).len = IF Len(w) < 3 THEN 0 ELSE 4 + (w[2] % 2) * Scan!Byte + w[3]
         /\ w[1] = Scan!B5 =>
              /\ Scan!Try(w).may <=> (Len(w) < 2 \/ w[2] = Scan!X62)
              /\ Scan!Try(w).len = IF Len(w) < 6 THEN 0 ELSE 8 + w[5] + Scan!Byte * w[6]
         /\ w[1] = Scan!Dollar => Scan!Try(w) = Scan!NMEA(w)
         /\ w[1] \notin {Scan!D3, Scan!B5, Scan!Dollar} => ~Scan!Try(w).may
<1>1. Scan!D3 # Scan!B5 /\ Scan!B5 # Scan!Dollar /\ Scan!D3 # Scan!Dollar
  BY DEF Scan!D3, Scan!B5, Scan!Dollar
<1>2. /\ w[1] = Scan!D3 => Scan!Try(w) = Scan!RTCM3(w)
      /\ w[1] = Scan!B5 => Scan!Try(w) = Scan!UBX(w)
      /\ w[1] = Scan!Dollar => Scan!Try(w) = Scan!NMEA(w)
      /\ w[1] \notin {Scan!D3, Scan!B5, Scan!Dollar} => Scan!Try(w) = [may |-> FALSE, len |-> 0]
  BY <1>1 DEF Scan!Try
<1>3. /\ Scan!RTCM3(w).may <=> (Len(w) < 3 \/ w[2] \div 2 = 0)
      /\ Scan!RTCM3(w).len = IF Len(w) < 3 THEN 0 ELSE 4 + (w[2] % 2) * Scan!Byte + w[3]
  BY Zenon DEF Scan!RTCM3
<1>4. /\ Scan!UBX(w).may <=> (Len(w) < 2 \/ w[2] = Scan!X62)
      /\ Scan!UBX(w).len = IF Len(w) < 6 THEN 0 ELSE 8 + w[5] + Scan!Byte * w[6]
  BY Zenon DEF Scan!UBX
<1>5. ~[may |-> FALSE, len |-> 0].may  BY Zenon
<1> QED BY Zenon, <1>2, <1>3, <1>4, <1>5

\* The end of a sentence, where there is one.
LEMMA FirstEnd ==
  ASSUME NEW w \in Seq(Bytes), NEW e \in Scan!End(w), \A j \in Scan!End(w) : e <= j
  PROVE  /\ Scan!NMEA(w).may <=> w[e] = Scan!Newline
         /\ Scan!NMEA(w).len = e
         /\ e \in 2..Len(w) /\ e <= 6 /\ w[e] \in {Scan!Newline, Scan!Dollar}
<1>1. Scan!End(w) \subseteq Nat /\ Scan!End(w) # {}  BY DEF Scan!End
<1>2. (CHOOSE i \in Scan!End(w) : \A j \in Scan!End(w) : i <= j) = e
  <2>1. \A i \in Scan!End(w) : (\A j \in Scan!End(w) : i <= j) => i = e  BY <1>1
  <2> QED BY <2>1
<1>3. /\ Scan!NMEA(w).may <=> w[CHOOSE i \in Scan!End(w) : \A j \in Scan!End(w) : i <= j] = Scan!Newline
      /\ Scan!NMEA(w).len = (CHOOSE i \in Scan!End(w) : \A j \in Scan!End(w) : i <= j)
  BY <1>1, Zenon DEF Scan!NMEA
<1>4. (Scan!NMEA(w).may <=> w[e] = Scan!Newline) /\ Scan!NMEA(w).len = e  BY <1>2, <1>3, Zenon
<1>5. e \in 2..Len(w) /\ e <= 6 /\ w[e] \in {Scan!Newline, Scan!Dollar}
  BY DEF Scan!End, Scan!MaxNMEA
<1> QED BY <1>4, <1>5

LEMMA NoEnd ==
  ASSUME NEW w, Scan!End(w) = {}
  PROVE  (Scan!NMEA(w).may <=> Len(w) < Scan!MaxNMEA) /\ Scan!NMEA(w).len = 0
BY Zenon DEF Scan!NMEA

\* An intact frame of each protocol has all of its header and its length.
LEMMA IntactIs ==
  ASSUME NEW g \in Seq(Bytes), Scan!Intact(g)
  PROVE  /\ g # << >> /\ Scan!Try(g).may /\ Scan!Try(g).len = Len(g) /\ Len(g) > 0
         /\ g[1] \in {Scan!D3, Scan!B5, Scan!Dollar}
         /\ g[1] = Scan!D3 => /\ Len(g) >= 3 /\ g[2] \div 2 = 0
                              /\ 4 + (g[2] % 2) * Scan!Byte + g[3] = Len(g)
         /\ g[1] = Scan!B5 => /\ Len(g) >= 6 /\ g[2] = Scan!X62
                              /\ 8 + g[5] + Scan!Byte * g[6] = Len(g)
         /\ g[1] = Scan!Dollar => /\ Len(g) \in 2..Scan!MaxNMEA /\ g[Len(g)] = Scan!Newline
                                  /\ \A i \in 2..Len(g) - 1 : g[i] \notin {Scan!Newline, Scan!Dollar}
<1>1. /\ g # << >> /\ Scan!Try(g).may /\ Scan!Try(g).len = Len(g)
  BY DEF Scan!Intact, Scan!IsFrame
<1>2. Len(g) \in Nat /\ Len(g) > 0  BY <1>1
<1>3. g[1] \in {Scan!D3, Scan!B5, Scan!Dollar}  BY <1>1 DEF Scan!Try
<1>4. CASE g[1] = Scan!D3
  <2>1. /\ Len(g) < 3 \/ g[2] \div 2 = 0
        /\ Len(g) = IF Len(g) < 3 THEN 0 ELSE 4 + (g[2] % 2) * Scan!Byte + g[3]
    BY <1>1, <1>4, TryIs
  <2>2. Len(g) >= 3  BY <2>1, <1>2
  <2>3. g[2] \div 2 = 0 /\ 4 + (g[2] % 2) * Scan!Byte + g[3] = Len(g)
    BY <2>1, <2>2, <1>2
  <2> QED BY <1>1, <1>2, <1>4, <2>2, <2>3 DEF Scan!D3, Scan!B5, Scan!Dollar
<1>5. CASE g[1] = Scan!B5
  <2>1. /\ Len(g) < 2 \/ g[2] = Scan!X62
        /\ Len(g) = IF Len(g) < 6 THEN 0 ELSE 8 + g[5] + Scan!Byte * g[6]
    BY <1>1, <1>5, TryIs
  <2>2. Len(g) >= 6  BY <2>1, <1>2
  <2>3. g[2] = Scan!X62 /\ 8 + g[5] + Scan!Byte * g[6] = Len(g)
    BY <2>1, <2>2, <1>2
  <2> QED BY <1>1, <1>2, <1>5, <2>2, <2>3 DEF Scan!D3, Scan!B5, Scan!Dollar
<1>6. CASE g[1] = Scan!Dollar
  <2>1. Scan!Try(g) = Scan!NMEA(g)  BY <1>6, TryIs
  <2>2. Scan!NMEA(g).may /\ Scan!NMEA(g).len = Len(g)  BY <1>1, <2>1
  <2>3. Scan!End(g) # {}
    <3>1. Scan!End(g) = {} => Scan!NMEA(g).len = 0  BY NoEnd
    <3> QED BY <3>1, <2>2, <1>2
  <2>4. PICK e \in Scan!End(g) : \A j \in Scan!End(g) : e <= j
    <3>1. Scan!End(g) \in SUBSET Nat  BY DEF Scan!End
    <3> QED BY <2>3, <3>1, LeastOf
  <2>5. e = Len(g) /\ g[e] = Scan!Newline /\ e \in 2..Len(g) /\ e <= 6
    <3>1. /\ Scan!NMEA(g).len = e /\ (Scan!NMEA(g).may <=> g[e] = Scan!Newline)
          /\ e \in 2..Len(g) /\ e <= 6
      BY <2>4, FirstEnd
    <3> QED BY <2>2, <3>1
  <2>6. Len(g) \in 2..Scan!MaxNMEA  BY <2>5, <1>2 DEF Scan!MaxNMEA
  <2>7. ASSUME NEW i \in 2..Len(g) - 1 PROVE g[i] \notin {Scan!Newline, Scan!Dollar}
    <3>1. i \in 2..Len(g) /\ i <= Scan!MaxNMEA /\ ~(e <= i)  BY <2>5, <2>6, <1>2 DEF Scan!MaxNMEA
    <3>2. i \notin Scan!End(g)  BY <3>1, <2>4
    <3> QED BY <3>1, <3>2 DEF Scan!End
  <2> QED BY <1>1, <1>2, <1>6, <2>5, <2>6, <2>7 DEF Scan!D3, Scan!B5, Scan!Dollar
<1> QED BY <1>3, <1>4, <1>5, <1>6

\* What begins with an intact frame is a frame, and as long.
LEMMA LongerIsFrame ==
  ASSUME NEW g \in Seq(Bytes), Scan!Intact(g), NEW w \in Seq(Bytes), Begins(w, g)
  PROVE  w # << >> /\ ~Scan!NeedMore(w) /\ Scan!IsFrame(w) /\ Scan!Try(w).len = Len(g)
<1>1. /\ Scan!Try(g).may /\ Scan!Try(g).len = Len(g) /\ Len(g) \in Nat /\ Len(g) > 0
      /\ Len(w) \in Nat /\ Len(g) <= Len(w) /\ w # << >> /\ w[1] = g[1]
      /\ g[1] \in {Scan!D3, Scan!B5, Scan!Dollar}
  BY IntactIs DEF Begins
<1>2. Scan!Try(w).may /\ Scan!Try(w).len = Len(g)
  <2>1. CASE g[1] = Scan!D3
    <3>1. /\ Scan!Try(w).may <=> (Len(w) < 3 \/ w[2] \div 2 = 0)
          /\ Scan!Try(w).len = IF Len(w) < 3 THEN 0 ELSE 4 + (w[2] % 2) * Scan!Byte + w[3]
      BY <1>1, <2>1, TryIs
    <3>2. Len(g) >= 3 /\ g[2] \div 2 = 0 /\ 4 + (g[2] % 2) * Scan!Byte + g[3] = Len(g)
      BY <2>1, IntactIs
    <3>3. w[2] = g[2] /\ w[3] = g[3] /\ Len(w) >= 3  BY <1>1, <3>2 DEF Begins
    <3> QED BY <1>1, <3>1, <3>2, <3>3
  <2>2. CASE g[1] = Scan!B5
    <3>1. /\ Scan!Try(w).may <=> (Len(w) < 2 \/ w[2] = Scan!X62)
          /\ Scan!Try(w).len = IF Len(w) < 6 THEN 0 ELSE 8 + w[5] + Scan!Byte * w[6]
      BY <1>1, <2>2, TryIs
    <3>2. Len(g) >= 6 /\ g[2] = Scan!X62 /\ 8 + g[5] + Scan!Byte * g[6] = Len(g)
      BY <2>2, IntactIs
    <3>3. w[2] = g[2] /\ w[5] = g[5] /\ w[6] = g[6] /\ Len(w) >= 6  BY <1>1, <3>2 DEF Begins
    <3> QED BY <1>1, <3>1, <3>2, <3>3
  <2>3. CASE g[1] = Scan!Dollar
    <3>1. Scan!Try(w) = Scan!NMEA(w)  BY <1>1, <2>3, TryIs
    <3>2. /\ Len(g) \in 2..Scan!MaxNMEA /\ g[Len(g)] = Scan!Newline
          /\ \A i \in 2..Len(g) - 1 : g[i] \notin {Scan!Newline, Scan!Dollar}
      BY <2>3, IntactIs
    <3>3. w[Len(g)] = Scan!Newline /\ Len(g) \in Scan!End(w)
      <4>1. w[Len(g)] = g[Len(g)]  BY <1>1 DEF Begins
      <4>2. Len(g) \in 2..6 /\ Scan!MaxNMEA = 6  BY <3>2 DEF Scan!MaxNMEA
      <4>3. Len(w) \in Nat /\ Len(g) <= Len(w)  BY <1>1
      <4>4. Len(g) \in 2..Len(w) /\ Len(g) <= Scan!MaxNMEA
        <5>1. \A m \in 2..6, n \in Nat : m <= n => m \in 2..n  OBVIOUS
        <5>2. Len(g) \in 2..Len(w)  BY <5>1, <4>2, <4>3
        <5>3. \A m \in 2..6 : m <= 6  OBVIOUS
        <5>4. Len(g) <= Scan!MaxNMEA  BY <4>2, <5>3
        <5> QED BY <5>2, <5>4
      <4> QED BY <4>1, <4>4, <3>2 DEF Scan!End
    <3>4. ASSUME NEW j \in Scan!End(w) PROVE Len(g) <= j
      <4>1. j \in Nat /\ j >= 2 /\ w[j] \in {Scan!Newline, Scan!Dollar}  BY DEF Scan!End
      <4>2. j < Len(g) => w[j] = g[j] /\ j \in 2..Len(g) - 1  BY <4>1, <1>1 DEF Begins
      <4> QED BY <4>1, <4>2, <3>2, <1>1
    <3> QED BY <3>1, <3>3, <3>4, FirstEnd
  <2> QED BY <1>1, <2>1, <2>2, <2>3
<1>3. ~Scan!NeedMore(w)  BY <1>1, <1>2 DEF Scan!NeedMore
<1>4. SubSeq(w, 1, Len(g)) = g /\ SubSeq(g, 1, Len(g)) = g
  BY <1>1 DEF Begins
<1>5. Scan!Sound(g)  BY DEF Scan!Intact, Scan!IsFrame
<1>6. Scan!Sound(w)
  BY <1>1, <1>2, <1>4, <1>5 DEF Scan!Sound
<1> QED BY <1>1, <1>2, <1>3, <1>6 DEF Scan!IsFrame

\* What is less than an intact frame, and not nothing, waits for more.
LEMMA ShorterWaits ==
  ASSUME NEW g \in Seq(Bytes), Scan!Intact(g), NEW w \in Seq(Bytes), w # << >>,
         Begins(g, w), Len(w) < Len(g)
  PROVE  Scan!NeedMore(w)
<1>1. /\ Len(g) \in Nat /\ Len(w) \in Nat /\ Len(w) > 0 /\ w[1] = g[1]
      /\ g[1] \in {Scan!D3, Scan!B5, Scan!Dollar}
  BY IntactIs DEF Begins
<1>2. Scan!Try(w).may /\ (Scan!Try(w).len = 0 \/ Scan!Try(w).len = Len(g))
  <2>1. CASE g[1] = Scan!D3
    <3>1. /\ Scan!Try(w).may <=> (Len(w) < 3 \/ w[2] \div 2 = 0)
          /\ Scan!Try(w).len = IF Len(w) < 3 THEN 0 ELSE 4 + (w[2] % 2) * Scan!Byte + w[3]
      BY <1>1, <2>1, TryIs
    <3>2. Len(g) >= 3 /\ g[2] \div 2 = 0 /\ 4 + (g[2] % 2) * Scan!Byte + g[3] = Len(g)
      BY <2>1, IntactIs
    <3>3. Len(w) >= 3 => w[2] = g[2] /\ w[3] = g[3]  BY <1>1 DEF Begins
    <3> QED BY <1>1, <3>1, <3>2, <3>3
  <2>2. CASE g[1] = Scan!B5
    <3>1. /\ Scan!Try(w).may <=> (Len(w) < 2 \/ w[2] = Scan!X62)
          /\ Scan!Try(w).len = IF Len(w) < 6 THEN 0 ELSE 8 + w[5] + Scan!Byte * w[6]
      BY <1>1, <2>2, TryIs
    <3>2. Len(g) >= 6 /\ g[2] = Scan!X62 /\ 8 + g[5] + Scan!Byte * g[6] = Len(g)
      BY <2>2, IntactIs
    <3>3. /\ Len(w) >= 2 => w[2] = g[2]
          /\ Len(w) >= 6 => w[5] = g[5] /\ w[6] = g[6]
      BY <1>1 DEF Begins
    <3> QED BY <1>1, <3>1, <3>2, <3>3
  <2>3. CASE g[1] = Scan!Dollar
    <3>1. Scan!Try(w) = Scan!NMEA(w)  BY <1>1, <2>3, TryIs
    <3>2. /\ Len(g) \in 2..Scan!MaxNMEA
          /\ \A i \in 2..Len(g) - 1 : g[i] \notin {Scan!Newline, Scan!Dollar}
      BY <2>3, IntactIs
    <3>3. Scan!End(w) = {}
      <4> SUFFICES ASSUME NEW i \in Scan!End(w) PROVE FALSE
        OBVIOUS
      <4>1. i \in 2..Len(w) /\ w[i] \in {Scan!Newline, Scan!Dollar}  BY DEF Scan!End
      <4>2. w[i] = g[i] /\ i \in 2..Len(g) - 1  BY <4>1, <1>1 DEF Begins
      <4> QED BY <4>1, <4>2, <3>2
    <3>4. Len(w) < Scan!MaxNMEA  BY <1>1, <3>2 DEF Scan!MaxNMEA
    <3> QED BY <3>1, <3>3, <3>4, NoEnd
  <2> QED BY <1>1, <2>1, <2>2, <2>3
<1> QED BY <1>1, <1>2 DEF Scan!NeedMore

\* A frame has a length, and all of it is there.
LEMMA FrameFits ==
  ASSUME NEW w \in Seq(Bytes), Scan!IsFrame(w)
  PROVE  Scan!Try(w).len \in Nat /\ Scan!Try(w).len > 0 /\ Scan!Try(w).len <= Len(w)
<1>1. /\ w # << >> /\ Len(w) \in Nat /\ Scan!Try(w).may
      /\ Scan!Try(w).len # 0 /\ ~(Scan!Try(w).len > Len(w))
  BY DEF Scan!IsFrame, Scan!NeedMore
<1>2. Len(w) > 0 /\ \A i \in 1..Len(w) : w[i] \in 0..7
  BY <1>1, ElementOfSeq DEF Bytes, Scan!Byte
<1>3. Scan!Try(w).len \in Nat
  <2>1. CASE w[1] = Scan!D3
    <3>1. Scan!Try(w).len = IF Len(w) < 3 THEN 0 ELSE 4 + (w[2] % 2) * 8 + w[3]
      BY <2>1, TryIs DEF Scan!Byte
    <3>2. Len(w) >= 3 => w[2] \in 0..7 /\ w[3] \in 0..7  BY <1>1, <1>2
    <3>3. \A a, b \in 0..7 : 4 + (a % 2) * 8 + b \in Nat  OBVIOUS
    <3> QED BY <3>1, <3>2, <3>3, <1>1
  <2>2. CASE w[1] = Scan!B5
    <3>1. Scan!Try(w).len = IF Len(w) < 6 THEN 0 ELSE 8 + w[5] + 8 * w[6]
      BY <2>2, TryIs DEF Scan!Byte
    <3>2. Len(w) >= 6 => w[5] \in 0..7 /\ w[6] \in 0..7  BY <1>1, <1>2
    <3>3. \A a, b \in 0..7 : 8 + a + 8 * b \in Nat  OBVIOUS
    <3> QED BY <3>1, <3>2, <3>3, <1>1
  <2>3. CASE w[1] = Scan!Dollar
    <3>1. Scan!Try(w) = Scan!NMEA(w)  BY <2>3, TryIs
    <3>2. CASE Scan!End(w) = {}  BY <3>1, <3>2, NoEnd
    <3>3. CASE Scan!End(w) # {}
      <4>1. Scan!End(w) \in SUBSET Nat  BY DEF Scan!End
      <4>2. PICK e \in Scan!End(w) : \A j \in Scan!End(w) : e <= j  BY <3>3, <4>1, LeastOf
      <4>3. Scan!NMEA(w).len = e  BY <4>2, FirstEnd
      <4> QED BY <4>1, <4>2, <4>3, <3>1
    <3> QED BY <3>2, <3>3
  <2> QED BY <2>1, <2>2, <2>3, <1>1, TryIs
<1> QED BY <1>1, <1>3

\* Nothing that is waited for fills the largest buffer.
LEMMA WaitsFit ==
  ASSUME NEW w \in Seq(Bytes), Scan!NeedMore(w)  PROVE Len(w) < Scan!MaxFrame
<1>1. /\ w # << >> /\ Len(w) \in Nat /\ Scan!Try(w).may
      /\ Scan!Try(w).len = 0 \/ Scan!Try(w).len > Len(w)
  BY DEF Scan!NeedMore
<1>2. Len(w) > 0 /\ \A i \in 1..Len(w) : w[i] \in 0..7
  BY <1>1, ElementOfSeq DEF Bytes, Scan!Byte
<1>3. Scan!MaxFrame = 71  BY DEF Scan!MaxFrame, Scan!Byte
<1>4. CASE w[1] = Scan!D3
  <2>1. Scan!Try(w).len = IF Len(w) < 3 THEN 0 ELSE 4 + (w[2] % 2) * 8 + w[3]
    BY <1>4, TryIs DEF Scan!Byte
  <2>2. Len(w) < 3 \/ 4 + (w[2] % 2) * 8 + w[3] = 0 \/ 4 + (w[2] % 2) * 8 + w[3] > Len(w)
    BY <1>1, <2>1
  <2>3. Len(w) >= 3 => 4 + (w[2] % 2) * 8 + w[3] \in 1..19
    <3>1. Len(w) >= 3 => w[2] \in 0..7 /\ w[3] \in 0..7  BY <1>1, <1>2
    <3> QED BY <3>1
  <2> QED BY <2>2, <2>3, <1>1, <1>3
<1>5. CASE w[1] = Scan!B5
  <2>1. Scan!Try(w).len = IF Len(w) < 6 THEN 0 ELSE 8 + w[5] + 8 * w[6]
    BY <1>5, TryIs DEF Scan!Byte
  <2>2. Len(w) < 6 \/ 8 + w[5] + 8 * w[6] = 0 \/ 8 + w[5] + 8 * w[6] > Len(w)
    BY <1>1, <2>1
  <2>3. Len(w) >= 6 => 8 + w[5] + 8 * w[6] \in 1..71
    <3>1. Len(w) >= 6 => w[5] \in 0..7 /\ w[6] \in 0..7  BY <1>1, <1>2
    <3>2. \A a, b \in 0..7 : 8 + a + 8 * b \in 1..71  OBVIOUS
    <3> QED BY <3>1, <3>2
  <2> DEFINE x == 8 + w[5] + 8 * w[6]
  <2>4. Len(w) < 6 \/ (x \in 1..71 /\ (x = 0 \/ x > Len(w)))  BY <2>2, <2>3, <1>1
  <2> HIDE DEF x
  <2>5. Len(w) \in Nat  OBVIOUS
  <2>6. \A m \in 1..71, n \in Nat : (m = 0 \/ m > n) => n < 71  OBVIOUS
  <2>7. x \in 1..71 /\ (x = 0 \/ x > Len(w)) => Len(w) < 71  BY <2>5, <2>6
  <2>8. Len(w) < 6 => Len(w) < 71  BY <2>5
  <2>9. Len(w) < 71  BY <2>4, <2>7, <2>8
  <2> QED BY <2>9, <1>3
<1>6. CASE w[1] = Scan!Dollar
  <2>1. Scan!Try(w) = Scan!NMEA(w)  BY <1>6, TryIs
  <2>2. CASE Scan!End(w) = {}
    <3>1. Len(w) < Scan!MaxNMEA  BY <1>1, <2>1, <2>2, NoEnd
    <3> QED BY <3>1, <1>1, <1>3 DEF Scan!MaxNMEA
  <2>3. CASE Scan!End(w) # {}
    <3>1. Scan!End(w) \in SUBSET Nat  BY DEF Scan!End
    <3>2. PICK e \in Scan!End(w) : \A j \in Scan!End(w) : e <= j  BY <2>3, <3>1, LeastOf
    <3>3. Scan!NMEA(w).len = e /\ e \in 2..Len(w)  BY <3>2, FirstEnd
    <3>4. e = 0 \/ e > Len(w)  BY <3>3, <2>1, <1>1
    <3> QED BY <3>3, <3>4
  <2> QED BY <2>2, <2>3
<1>7. CASE w[1] \notin {Scan!D3, Scan!B5, Scan!Dollar}
  <2>1. ~Scan!Try(w).may  BY <1>7, TryIs
  <2> QED BY <2>1, <1>1
<1> QED BY <1>4, <1>5, <1>6, <1>7

Extent == [from : Nat, to : Nat]

\* A byte that was consumed, and is in no frame.
Loose(p, o) == \A i \in DOMAIN o : p \notin o[i].from..o[i].to

\* What was returned lies behind the window, in order; what is intact and not
\* found yet begins no sooner than the window.
WindowIsTyped ==
  /\ input \in Streams /\ read \in Nat /\ start \in Nat /\ start <= read
  /\ read <= Len(input.bytes) /\ dropped \in Nat /\ out \in Seq(Extent)
  /\ \A i \in 1..Len(out) : 1 <= out[i].from /\ out[i].from <= out[i].to /\ out[i].to <= start
  /\ \A i \in 1..Len(out) : i > 1 => out[i].from > out[i - 1].to

IntactIsAhead ==
  \A f \in input.intact : Scan!Returned(f) \/ Scan!Inside(f) \/ start + 1 <= f.from

DroppedIsCounted == dropped = Cardinality({p \in 1..start : Loose(p, out)})

ScanInv == WindowIsTyped /\ IntactIsAhead /\ DroppedIsCounted

\* The window, and an intact frame of the stream that begins with it.
LEMMA WindowIs ==
  ASSUME WindowIsTyped
  PROVE  /\ input.bytes \in Seq(Bytes) /\ Scan!Window \in Seq(Bytes)
         /\ Len(Scan!Window) = read - start
         /\ \A i \in 1..read - start : Scan!Window[i] = input.bytes[start + i]
<1>1. input.bytes \in Seq(Bytes)  BY StreamsAssumption DEF WindowIsTyped, Bytes
<1>2. start \in Nat /\ read \in Nat /\ start <= read /\ read <= Len(input.bytes)
  BY DEF WindowIsTyped
<1>3. Scan!Window = SubSeq(input.bytes, start + 1, read)  BY DEF Scan!Window
<1>4. SubSeq(input.bytes, start + 1, read) \in Seq(Bytes)  BY <1>1, <1>2, SubSeqProperties
<1>5. Len(SubSeq(input.bytes, start + 1, read)) = read - start
  BY <1>1, <1>2, SubSeqProperties
<1>6. \A i \in 1..read - start : SubSeq(input.bytes, start + 1, read)[i] = input.bytes[start + i]
  BY <1>1, <1>2, SubSeqProperties
<1> QED BY <1>1, <1>3, <1>4, <1>5, <1>6

LEMMA FrameIs ==
  ASSUME WindowIsTyped, NEW f \in input.intact
  PROVE  LET g == SubSeq(input.bytes, f.from, f.to)
         IN  /\ f \in Extent /\ 1 <= f.from /\ f.from <= f.to /\ f.to <= Len(input.bytes)
             /\ g \in Seq(Bytes) /\ Scan!Intact(g) /\ Len(g) = f.to - f.from + 1
             /\ \A i \in 1..f.to - f.from + 1 : g[i] = input.bytes[f.from + i - 1]
<1> DEFINE b == input.bytes
           g == SubSeq(b, f.from, f.to)
<1>1. /\ b \in Seq(Bytes) /\ f \in [from : 1..Len(b), to : 1..Len(b)] /\ Scan!Intact(g)
  BY WindowIs, StreamsAssumption DEF WindowIsTyped
<1>2. Len(b) \in Nat /\ f.from \in 1..Len(b) /\ f.to \in 1..Len(b)  BY <1>1
<1>3. f = [from |-> f.from, to |-> f.to]  BY <1>1
<1>4. f \in Extent  BY <1>2, <1>3 DEF Extent
<1>5. f.from <= f.to
  <2>1. SUFFICES ASSUME f.from > f.to PROVE FALSE  BY <1>2
  <2>2. g = << >>  BY <2>1, <1>1, <1>2
  <2> QED BY <2>2, <1>1 DEF Scan!Intact, Scan!IsFrame
<1>6. g \in Seq(Bytes) /\ Len(g) = f.to - f.from + 1
  BY <1>1, <1>2, <1>5, SubSeqProperties
<1>7. \A i \in 1..f.to - f.from + 1 : g[i] = b[f.from + i - 1]
  BY <1>1, <1>2, <1>5, SubSeqProperties
<1> QED BY <1>1, <1>2, <1>4, <1>5, <1>6, <1>7

\* Where an intact frame begins with the window, it is waited for, or found.
LEMMA FrameAtStart ==
  ASSUME WindowIsTyped, NEW f \in input.intact, f.from = start + 1
  PROVE  /\ f.to <= read => /\ Scan!Window # << >> /\ ~Scan!NeedMore(Scan!Window)
                            /\ Scan!IsFrame(Scan!Window)
                            /\ start + Scan!Try(Scan!Window).len = f.to
         /\ f.to > read => Scan!Waits
<1> DEFINE g == SubSeq(input.bytes, f.from, f.to)
           w == Scan!Window
<1>1. /\ start \in Nat /\ read \in Nat /\ start <= read  BY DEF WindowIsTyped
<1>2. /\ w \in Seq(Bytes) /\ Len(w) = read - start
      /\ \A i \in 1..read - start : w[i] = input.bytes[start + i]
  BY WindowIs
<1>3. /\ f.from \in Nat /\ f.to \in Nat /\ f.from <= f.to
      /\ g \in Seq(Bytes) /\ Scan!Intact(g) /\ Len(g) = f.to - f.from + 1
      /\ \A i \in 1..f.to - f.from + 1 : g[i] = input.bytes[f.from + i - 1]
  BY FrameIs DEF Extent
<1> HIDE DEF g, w
<1>4. Len(g) = f.to - start /\ \A i \in 1..f.to - start : g[i] = input.bytes[start + i]
  <2>1. f.to - f.from + 1 = f.to - start  BY <1>1, <1>3
  <2>2. ASSUME NEW i \in 1..f.to - start PROVE g[i] = input.bytes[start + i]
    <3>1. f.from + i - 1 = start + i  BY <1>1, <1>3
    <3>2. i \in 1..f.to - f.from + 1  BY <2>1
    <3>3. g[i] = input.bytes[f.from + i - 1]  BY <3>2, <1>3
    <3> QED BY <3>1, <3>3
  <2> QED BY <2>1, <2>2, <1>3
<1>5. ASSUME f.to <= read
      PROVE  w # << >> /\ ~Scan!NeedMore(w) /\ Scan!IsFrame(w) /\ start + Scan!Try(w).len = f.to
  <2>1. Begins(w, g)  BY <1>1, <1>2, <1>3, <1>4, <1>5 DEF Begins
  <2>2. w # << >> /\ ~Scan!NeedMore(w) /\ Scan!IsFrame(w) /\ Scan!Try(w).len = Len(g)
    BY <2>1, <1>2, <1>3, LongerIsFrame
  <2> QED BY <2>2, <1>1, <1>3, <1>4
<1>6. ASSUME f.to > read PROVE w = << >> \/ Scan!NeedMore(w)
  <2>1. Begins(g, w) /\ Len(w) < Len(g)  BY <1>1, <1>2, <1>3, <1>4, <1>6 DEF Begins
  <2> QED BY <2>1, <1>2, <1>3, ShorterWaits
<1> QED BY <1>5, <1>6 DEF w, Scan!Waits

LEMMA ReturnKeeps == ASSUME ScanInv, Scan!Return PROVE ScanInv'
<1> DEFINE n == Scan!Try(Scan!Window).len
           x == [from |-> start + 1, to |-> start']
<1>1. /\ Scan!IsFrame(Scan!Window) /\ start' = start + n /\ out' = Append(out, x)
      /\ UNCHANGED <<input, read, dropped>>
  BY DEF Scan!Return
<1>2. /\ start \in Nat /\ read \in Nat /\ start <= read /\ out \in Seq(Extent)
      /\ WindowIsTyped /\ dropped \in Nat
  BY DEF ScanInv, WindowIsTyped
<1>3. n \in Nat /\ n > 0 /\ n <= read - start
  <2>1. Len(Scan!Window) = read - start /\ Scan!Window \in Seq(Bytes)  BY <1>2, WindowIs
  <2> QED BY <2>1, <1>1, <1>2, FrameFits
<1> HIDE DEF n
<1>4. start' \in Nat /\ start + 1 <= start' /\ start' <= read  BY <1>1, <1>2, <1>3
<1>5. x \in Extent /\ x.from = start + 1 /\ x.to = start'  BY <1>2, <1>4 DEF Extent
<1> HIDE DEF x
<1>6. /\ out' \in Seq(Extent) /\ Len(out') = Len(out) + 1 /\ Len(out) \in Nat
      /\ \A i \in 1..Len(out) : out'[i] = out[i]
      /\ out'[Len(out) + 1] = x /\ DOMAIN out = 1..Len(out) /\ DOMAIN out' = 1..Len(out')
  BY <1>1, <1>2, <1>5
<1>7. \A i \in 1..Len(out) : /\ out[i].from \in Nat /\ out[i].to \in Nat
                             /\ 1 <= out[i].from /\ out[i].from <= out[i].to /\ out[i].to <= start
                             /\ (i > 1 => out[i].from > out[i - 1].to)
  <2>1. \A i \in 1..Len(out) : out[i] \in Extent  BY <1>2, ElementOfSeq
  <2> QED BY <2>1, <1>2 DEF WindowIsTyped, Extent
<1>8. WindowIsTyped'
  <2>1. \A i \in 1..Len(out') : 1 <= out'[i].from /\ out'[i].from <= out'[i].to /\ out'[i].to <= start'
    <3> SUFFICES ASSUME NEW i \in 1..Len(out')
                 PROVE  1 <= out'[i].from /\ out'[i].from <= out'[i].to /\ out'[i].to <= start'
      OBVIOUS
    <3>1. CASE i \in 1..Len(out)  BY <3>1, <1>2, <1>4, <1>6, <1>7
    <3>2. CASE i = Len(out) + 1  BY <3>2, <1>2, <1>4, <1>5, <1>6
    <3> QED BY <3>1, <3>2, <1>6
  <2>2. \A i \in 1..Len(out') : i > 1 => out'[i].from > out'[i - 1].to
    <3> SUFFICES ASSUME NEW i \in 1..Len(out'), i > 1 PROVE out'[i].from > out'[i - 1].to
      OBVIOUS
    <3>1. CASE i \in 1..Len(out)
      <4>1. i - 1 \in 1..Len(out)  BY <3>1, <1>6
      <4> QED BY <4>1, <3>1, <1>6, <1>7
    <3>2. CASE i = Len(out) + 1
      <4>1. i - 1 \in 1..Len(out)  BY <3>2, <1>6
      <4> QED BY <4>1, <3>2, <1>2, <1>5, <1>6, <1>7
    <3> QED BY <3>1, <3>2, <1>6
  <2> QED BY <2>1, <2>2, <1>1, <1>2, <1>4, <1>6 DEF WindowIsTyped
<1>9. IntactIsAhead'
  <2> SUFFICES ASSUME NEW f \in input.intact
               PROVE  (Scan!Returned(f))' \/ (Scan!Inside(f))' \/ start' + 1 <= f.from
    BY <1>1 DEF IntactIsAhead
  <2>1. f \in Extent /\ f.from \in Nat /\ f.to \in Nat /\ f.from <= f.to
    BY <1>2, FrameIs DEF Extent
  <2>2. CASE Scan!Returned(f)  BY <2>2, <1>6 DEF Scan!Returned
  <2>3. CASE Scan!Inside(f)  BY <2>3, <1>6 DEF Scan!Inside
  <2>4. CASE start + 1 = f.from
    <3>1. f.to <= read
      <4>1. f.to > read => Scan!Waits  BY <1>2, <2>4, FrameAtStart
      <4>2. ~Scan!Waits  BY <1>1 DEF Scan!Waits, Scan!IsFrame
      <4> QED BY <4>1, <4>2, <2>1, <1>2
    <3>2. start + n = f.to  BY <3>1, <1>2, <2>4, FrameAtStart DEF n
    <3>3. f = x
      <4>1. f.from = x.from /\ f.to = x.to  BY <3>2, <2>4, <1>1, <1>5
      <4> QED BY <4>1, <2>1, <1>5 DEF Extent
    <3>4. Len(out) + 1 \in DOMAIN out' /\ out'[Len(out) + 1] = f  BY <3>3, <1>6
    <3> QED BY <3>4 DEF Scan!Returned
  <2>5. CASE start + 1 < f.from
    <3>1. CASE f.from <= start'
      <4>1. Len(out) + 1 \in DOMAIN out' /\ out'[Len(out) + 1].from < f.from
            /\ f.from <= out'[Len(out) + 1].to
        BY <3>1, <2>5, <1>5, <1>6
      <4> QED BY <4>1 DEF Scan!Inside
    <3>2. CASE start' < f.from  BY <3>2, <2>1, <1>4
    <3> QED BY <3>1, <3>2, <2>1, <1>4
  <2>6. Scan!Returned(f) \/ Scan!Inside(f) \/ start + 1 <= f.from
    BY DEF ScanInv, IntactIsAhead
  <2> QED BY <2>1, <2>2, <2>3, <2>4, <2>5, <2>6, <1>2
<1>10. DroppedIsCounted'
  <2>1. {p \in 1..start' : Loose(p, out')} = {p \in 1..start : Loose(p, out)}
    <3>1. ASSUME NEW p \in 1..start', Loose(p, out') PROVE p \in 1..start /\ Loose(p, out)
      <4>1. p \notin start + 1 .. start'
        BY <3>1, <1>5, <1>6 DEF Loose
      <4>2. Loose(p, out)  BY <3>1, <1>6 DEF Loose
      <4> QED BY <4>1, <4>2, <1>2, <1>4
    <3>2. ASSUME NEW p \in 1..start, Loose(p, out) PROVE p \in 1..start' /\ Loose(p, out')
      <4>1. p \in 1..start' /\ p \notin start + 1 .. start'  BY <1>2, <1>4
      <4>2. ASSUME NEW i \in DOMAIN out' PROVE p \notin out'[i].from..out'[i].to
        <5>1. CASE i \in 1..Len(out)  BY <5>1, <3>2, <1>6 DEF Loose
        <5>2. CASE i = Len(out) + 1  BY <5>2, <4>1, <1>5, <1>6
        <5> QED BY <5>1, <5>2, <1>6
      <4> QED BY <4>1, <4>2 DEF Loose
    <3> QED BY <3>1, <3>2
  <2> QED BY <2>1, <1>1 DEF ScanInv, DroppedIsCounted
<1> QED BY <1>8, <1>9, <1>10 DEF ScanInv

LEMMA SkipKeeps == ASSUME ScanInv, Scan!Skip PROVE ScanInv'
<1>1. /\ Scan!Window # << >> /\ ~Scan!NeedMore(Scan!Window) /\ ~Scan!IsFrame(Scan!Window)
      /\ start' = start + 1 /\ dropped' = dropped + 1 /\ UNCHANGED <<input, read, out>>
  BY DEF Scan!Skip
<1>2. /\ start \in Nat /\ read \in Nat /\ start <= read /\ WindowIsTyped /\ dropped \in Nat
      /\ out \in Seq(Extent)
  BY DEF ScanInv, WindowIsTyped
<1>3. start' \in Nat /\ start' <= read
  <2>1. Len(Scan!Window) = read - start /\ Scan!Window \in Seq(Bytes)  BY <1>2, WindowIs
  <2> QED BY <2>1, <1>1, <1>2
<1>4. \A i \in 1..Len(out) : out[i].to \in Nat /\ out[i].to <= start
  <2>1. \A i \in 1..Len(out) : out[i] \in Extent  BY <1>2, ElementOfSeq
  <2> QED BY <2>1, <1>2 DEF WindowIsTyped, Extent
<1>5. WindowIsTyped'
  <2>1. \A i \in 1..Len(out) : out[i].to <= start'  BY <1>1, <1>2, <1>4
  <2>2. dropped' \in Nat  BY <1>1, <1>2
  <2> QED BY <2>1, <2>2, <1>1, <1>2, <1>3 DEF WindowIsTyped
<1>6. IntactIsAhead'
  <2> SUFFICES ASSUME NEW f \in input.intact
               PROVE  (Scan!Returned(f))' \/ (Scan!Inside(f))' \/ start' + 1 <= f.from
    BY <1>1 DEF IntactIsAhead
  <2>1. f.from \in Nat /\ f.to \in Nat  BY <1>2, FrameIs DEF Extent
  <2>2. Scan!Returned(f) \/ Scan!Inside(f) \/ start + 1 <= f.from
    BY DEF ScanInv, IntactIsAhead
  <2>3. start + 1 # f.from
    <3> SUFFICES ASSUME f.from = start + 1 PROVE FALSE
      OBVIOUS
    <3>1. CASE f.to <= read  BY <3>1, <1>1, <1>2, FrameAtStart
    <3>2. CASE f.to > read  BY <3>2, <1>1, <1>2, FrameAtStart DEF Scan!Waits
    <3> QED BY <3>1, <3>2, <2>1, <1>2
  <2>4. start + 1 <= f.from => start' + 1 <= f.from  BY <2>1, <2>3, <1>1, <1>2
  <2> QED BY <2>2, <2>4, <1>1 DEF Scan!Returned, Scan!Inside
<1>7. DroppedIsCounted'
  <2> DEFINE S == {p \in 1..start : Loose(p, out)}
  <2>1. {p \in 1..start' : Loose(p, out)} = S \cup {start + 1}
    <3>1. Loose(start + 1, out)  BY <1>2, <1>4 DEF Loose
    <3>2. 1..start' = 1..start \cup {start + 1}  BY <1>1, <1>2
    <3> QED BY <3>1, <3>2
  <2>2. S \in SUBSET (1..start) /\ start + 1 \notin S  BY <1>2
  <2>3. dropped = Cardinality(S)  BY DEF ScanInv, DroppedIsCounted
  <2> HIDE DEF S
  <2>4. IsFiniteSet(S)
    <3>1. IsFiniteSet(1..start)  BY <1>2, FS_Interval
    <3> QED BY <3>1, <2>2, FS_Subset
  <2>5. Cardinality(S \cup {start + 1}) = Cardinality(S) + 1  BY <2>2, <2>4, FS_AddElement
  <2> QED BY <2>1, <2>3, <2>5, <1>1 DEF DroppedIsCounted
<1> QED BY <1>5, <1>6, <1>7 DEF ScanInv

LEMMA ScanStep == ScanInv /\ [Scan!Next]_(Scan!vars) => ScanInv'
<1> SUFFICES ASSUME ScanInv, [Scan!Next]_(Scan!vars) PROVE ScanInv'
  OBVIOUS
<1>1. ASSUME read' \in Nat, read' >= read, read' <= Len(input.bytes),
             UNCHANGED <<input, start, out, dropped>>
      PROVE  ScanInv'
  <2>1. read \in Nat /\ start \in Nat /\ start <= read  BY DEF ScanInv, WindowIsTyped
  <2>2. start <= read'  BY <2>1, <1>1
  <2>3. WindowIsTyped'  BY <1>1, <2>2 DEF ScanInv, WindowIsTyped
  <2>4. IntactIsAhead' /\ DroppedIsCounted'
    BY <1>1 DEF ScanInv, IntactIsAhead, DroppedIsCounted, Scan!Returned, Scan!Inside
  <2> QED BY <2>3, <2>4 DEF ScanInv
<1>2. CASE Scan!Fill
  <2>1. /\ read' \in read + 1 .. read + size' - Len(Scan!Window) /\ read' <= Len(input.bytes)
        /\ UNCHANGED <<input, start, out, dropped>>
    BY <1>2 DEF Scan!Fill
  <2>2. read \in Nat  BY DEF ScanInv, WindowIsTyped
  <2>3. read' \in Nat /\ read' >= read  BY <2>1, <2>2
  <2> QED BY <1>1, <2>1, <2>3
<1>3. CASE Scan!ReadFails \/ UNCHANGED Scan!vars
  <2>1. UNCHANGED <<input, read, start, out, dropped>>
    BY <1>3 DEF Scan!ReadFails, Scan!vars
  <2>2. read \in Nat /\ read <= Len(input.bytes)  BY DEF ScanInv, WindowIsTyped
  <2>3. read >= read  BY <2>2
  <2> QED BY <1>1, <2>1, <2>2, <2>3
<1> QED BY <1>2, <1>3, ReturnKeeps, SkipKeeps DEF Scan!Next

\* The scanner counts as the library does.
LEMMA ScanCardinality == \A S : Scan!Cardinality(S) = Cardinality(S)
BY DEF Scan!Cardinality, Cardinality

LEMMA FramesAreFound == ScanInv => Scan!FramesAreExact
<1> SUFFICES ASSUME ScanInv PROVE Scan!FramesAreExact
  OBVIOUS
<1>1. WindowIsTyped  BY DEF ScanInv
<1>2. ASSUME NEW f \in input.intact
      PROVE  \/ Scan!Returned(f) \/ Scan!Inside(f) \/ f.to > read
             \/ start + 1 < f.from \/ (start + 1 = f.from /\ ~Scan!Waits)
  <2>1. f.from \in Nat /\ f.to \in Nat /\ start \in Nat /\ read \in Nat
    BY <1>1, FrameIs DEF Extent, WindowIsTyped
  <2>2. CASE f.from = start + 1 /\ f.to <= read
    BY <2>2, <1>1, FrameAtStart DEF Scan!Waits
  <2>3. Scan!Returned(f) \/ Scan!Inside(f) \/ start + 1 <= f.from
    BY DEF ScanInv, IntactIsAhead
  <2> QED BY <2>1, <2>2, <2>3
<1>3. \A i \in DOMAIN out : i > 1 => out[i].from > out[i - 1].to
  BY <1>1 DEF WindowIsTyped
<1>4. dropped = Cardinality({p \in 1..start : \A i \in DOMAIN out : p \notin out[i].from..out[i].to})
  BY DEF ScanInv, DroppedIsCounted, Loose
<1>5. ASSUME Scan!Waits PROVE Len(Scan!Window) < Scan!MaxFrame
  <2>1. Scan!Window \in Seq(Bytes)  BY <1>1, WindowIs
  <2>2. CASE Scan!NeedMore(Scan!Window)  BY <2>1, <2>2, WaitsFit
  <2>3. CASE Scan!Window = << >>
    <3>1. Len(Scan!Window) = 0  BY <2>3
    <3> QED BY <3>1 DEF Scan!MaxFrame, Scan!Byte
  <2> QED BY <1>5, <2>2, <2>3 DEF Scan!Waits
<1> QED BY <1>2, <1>3, <1>4, <1>5, ScanCardinality DEF Scan!FramesAreExact

\* Whatever the stream holds and wherever the reads end, every intact frame is
\* found, what is dropped is counted, and the buffer is large enough
\* (Scanner.Next, scan, fill).
THEOREM FramesAreSplit == Scan!Spec => []Scan!FramesAreExact
<1>1. Scan!Init => ScanInv
  <2> SUFFICES ASSUME Scan!Init PROVE ScanInv
    OBVIOUS
  <2>1. input \in Streams /\ read = 0 /\ start = 0 /\ out = << >> /\ dropped = 0
    BY DEF Scan!Init
  <2>2. input.bytes \in Seq(Bytes)  BY <2>1, StreamsAssumption DEF Bytes
  <2>3. WindowIsTyped  BY <2>1, <2>2 DEF WindowIsTyped
  <2>4. IntactIsAhead
    <3> SUFFICES ASSUME NEW f \in input.intact PROVE start + 1 <= f.from
      BY DEF IntactIsAhead
    <3>1. f.from \in Nat /\ 1 <= f.from  BY <2>3, FrameIs DEF Extent
    <3> QED BY <3>1, <2>1
  <2>5. {p \in 1..start : Loose(p, out)} = {}  BY <2>1
  <2>6. DroppedIsCounted  BY <2>1, <2>5, FS_EmptySet DEF DroppedIsCounted
  <2> QED BY <2>3, <2>4, <2>6 DEF ScanInv
<1> QED BY <1>1, ScanStep, FramesAreFound, PTL DEF Scan!Spec

-----------------------------------------------------------------------------
(***************************************************************************)
(* The ephemeris store (Ephemeris)                                         *)
(***************************************************************************)
LEMMA SameIssue ==
  ASSUME NEW n \in Nat \ {0}, NEW a \in 1..n, NEW b \in 1..n, a % n = b % n
  PROVE  a = b
<1>1. \A c \in 1..n : c % n = IF c = n THEN 0 ELSE c  OBVIOUS
<1> QED BY <1>1

\* The parts that the issue of data ties together.
Tied == CASE system = "gps" -> 1..3 [] system = "galileo" -> 1..4 [] OTHER -> {}

PartsAreOf(h) == \A p \in Eph!Parts : h[p] \in 0..set

\* Nothing that is kept or sent was read of another signal or is of a later set.
SetsAreTyped ==
  /\ system \in {"gps", "galileo", "beidou"} /\ set \in 1..MaxSet
  /\ have \in [Eph!Parts -> Nat] /\ PartsAreOf(have) /\ PartsAreOf(sent.have)

EphInv == SetsAreTyped /\ Eph!SentIsOneIssue

LEMMA FoldedIs ==
  ASSUME SetsAreTyped, NEW p \in Eph!Parts, NEW f \in Eph!Frames,
         system \in {"galileo", "beidou"} => f.begins, Eph!Folded(p, f)
  PROVE  SetsAreTyped'
<1>1. f.reads = TRUE
  <2>1. CASE system = "gps"  BY <2>1 DEF Eph!Folded, Eph!Accepts, Eph!Frames
  <2>2. CASE system = "galileo"  BY <2>2 DEF Eph!Folded, Eph!Accepts, Eph!Frames
  <2>3. CASE system = "beidou"  BY <2>3 DEF Eph!Folded, Eph!Accepts, Eph!Frames
  <2> QED BY <2>1, <2>2, <2>3 DEF SetsAreTyped
<1>2. have' = [have EXCEPT ![p] = set]  BY <1>1 DEF Eph!Folded
<1>3. UNCHANGED system /\ UNCHANGED set /\ UNCHANGED sent  BY DEF Eph!Folded
<1>4. Eph!Parts' = Eph!Parts  BY <1>3 DEF Eph!Parts
<1>5. have' \in [Eph!Parts -> Nat] /\ \A q \in Eph!Parts : have'[q] \in 0..set
  BY <1>2 DEF SetsAreTyped, PartsAreOf
<1> QED BY <1>3, <1>4, <1>5 DEF SetsAreTyped, PartsAreOf

LEMMA TiedAreParts == Tied \subseteq Eph!Parts
BY DEF Tied, Eph!Parts

\* What is encoded has one issue.
LEMMA EncodedIsOne ==
  ASSUME SetsAreTyped, Eph!Messages
  PROVE  /\ sent'.have = have
         /\ \A p \in Eph!Parts : have[p] \in 1..set
         /\ \A p, q \in Tied : Eph!Issue(have[p]) = Eph!Issue(have[q])
<1>1. sent'.have = have /\ Eph!All
  BY DEF Eph!Messages, Eph!Encode1019, Eph!Encode1046, Eph!Encode1042, Eph!CompleteGps,
         Eph!CompleteGalileo, Eph!CompleteBeidou
<1>2. \A p \in Eph!Parts : have[p] \in 1..set
  BY <1>1 DEF Eph!All, SetsAreTyped, PartsAreOf
<1>3. \A p \in Tied : Eph!Issue(have[p]) = Eph!Issue(have[1])
  <2>1. CASE Eph!Encode1019
    BY <2>1 DEF Eph!Encode1019, Eph!CompleteGps, Tied
  <2>2. CASE Eph!Encode1046
    BY <2>2 DEF Eph!Encode1046, Eph!CompleteGalileo, Tied
  <2>3. CASE Eph!Encode1042
    BY <2>3 DEF Eph!Encode1042, Tied
  <2> QED BY <2>1, <2>2, <2>3 DEF Eph!Messages
<1> QED BY <1>1, <1>2, <1>3

LEMMA EphStep == EphInv /\ [Eph!Next]_(Eph!vars) => EphInv'
<1> SUFFICES ASSUME EphInv, [Eph!Next]_(Eph!vars) PROVE EphInv'
  OBVIOUS
<1> USE PartsAssumption DEF PartsAssumption
<1>1. CASE Eph!AddGps \/ Eph!AddPage \/ Eph!AddBeidou
  <2>1. PICK p \in Eph!Parts, f \in Eph!Frames :
          Eph!Folded(p, f) /\ (system \in {"galileo", "beidou"} => f.begins)
    BY <1>1 DEF Eph!AddGps, Eph!AddPage, Eph!AddBeidou
  <2>2. SetsAreTyped'  BY <2>1, FoldedIs DEF EphInv
  <2>3. UNCHANGED system /\ UNCHANGED set /\ UNCHANGED sent  BY <2>1 DEF Eph!Folded
  <2>4. Eph!SentIsOneIssue'
    BY <2>3 DEF EphInv, Eph!SentIsOneIssue, Eph!Parts, Eph!Issue, Eph!Foreign
  <2> QED BY <2>2, <2>4 DEF EphInv
<1>2. CASE Eph!Messages
  <2>1. UNCHANGED <<system, set, have, toe, age>>  BY <1>2 DEF Eph!Messages
  <2>2. /\ sent'.have = have
        /\ \A p \in Eph!Parts : have[p] \in 1..set
        /\ \A p, q \in Tied : Eph!Issue(have[p]) = Eph!Issue(have[q])
    BY <1>2, EncodedIsOne DEF EphInv
  <2>3. SetsAreTyped'
    BY <2>1, <2>2 DEF EphInv, SetsAreTyped, PartsAreOf, Eph!Parts
  <2>4. \A p, q \in Tied : have[p] = have[q] \/ set > Issues
    <3> SUFFICES ASSUME NEW p \in Tied, NEW q \in Tied, ~(set > Issues)
                 PROVE  have[p] = have[q]
      OBVIOUS
    <3>1. set \in Nat /\ set <= Issues  BY DEF EphInv, SetsAreTyped
    <3>2. have[p] \in 1..Issues /\ have[q] \in 1..Issues
      BY <2>2, <3>1, TiedAreParts
    <3>3. have[p] % Issues = have[q] % Issues  BY <2>2 DEF Eph!Issue
    <3> QED BY <3>2, <3>3, SameIssue
  <2>5. \A p \in Eph!Parts : have[p] # Eph!Foreign
    BY <2>2 DEF EphInv, SetsAreTyped, Eph!Foreign
  <2>6. Eph!SentIsOneIssue'
    BY <2>1, <2>2, <2>4, <2>5 DEF Eph!SentIsOneIssue, Tied, Eph!Parts, Eph!Issue, Eph!Foreign
  <2> QED BY <2>3, <2>6 DEF EphInv
<1>3. CASE Eph!NewSet
  <2>1. set < MaxSet /\ set' = set + 1 /\ UNCHANGED <<system, have, toe, age, sent>>
    BY <1>3 DEF Eph!NewSet
  <2>2. set' \in 1..MaxSet /\ set' > set  BY <2>1 DEF EphInv, SetsAreTyped
  <2>3. Eph!Parts' = Eph!Parts  BY <2>1 DEF Eph!Parts
  <2>4. \A h : PartsAreOf(h) => \A p \in Eph!Parts : h[p] \in 0..set'
    BY <2>1 DEF EphInv, SetsAreTyped, PartsAreOf
  <2>5. SetsAreTyped'
    BY <2>1, <2>2, <2>3, <2>4 DEF EphInv, SetsAreTyped, PartsAreOf
  <2>6. set > Issues => set' > Issues  BY <2>1 DEF EphInv, SetsAreTyped
  <2>7. Eph!SentIsOneIssue'
    BY <2>1, <2>3, <2>6 DEF EphInv, Eph!SentIsOneIssue, Eph!Issue, Eph!Foreign
  <2> QED BY <2>5, <2>7 DEF EphInv
<1>4. CASE Eph!Silence \/ UNCHANGED Eph!vars
  <2>1. UNCHANGED <<system, set, have, sent>>  BY <1>4 DEF Eph!Silence, Eph!vars
  <2> QED BY <2>1 DEF EphInv, SetsAreTyped, PartsAreOf, Eph!SentIsOneIssue, Eph!Parts, Eph!Issue, Eph!Foreign
<1> QED BY <1>1, <1>2, <1>3, <1>4 DEF Eph!Next

\* However subframes, pages and sets interleave, no message is made of parts of two
\* issues of data (gps.go, galileo.go, beidou.go).
THEOREM SetsAreOneIssue == Eph!Spec => []Eph!SentIsOneIssue
<1>1. Eph!Init => EphInv
  <2> SUFFICES ASSUME Eph!Init PROVE EphInv
    OBVIOUS
  <2>1. /\ system \in {"gps", "galileo", "beidou"} /\ set = 1
        /\ have = [p \in Eph!Parts |-> 0] /\ sent = [have |-> have, toe |-> <<0, 0>>]
    BY DEF Eph!Init
  <2>2. \A p \in Eph!Parts : sent.have[p] = 0  BY <2>1
  <2>3. SetsAreTyped  BY PartsAssumption, <2>1, <2>2 DEF SetsAreTyped, PartsAreOf, PartsAssumption
  <2>4. \A p \in Tied : sent.have[p] = 0  BY <2>2, TiedAreParts
  <2>5. Eph!Foreign # 0  BY PartsAssumption DEF PartsAssumption, Eph!Foreign
  <2>6. Eph!SentIsOneIssue  BY <2>2, <2>4, <2>5 DEF Eph!SentIsOneIssue, Tied
  <2> QED BY <2>3, <2>6 DEF EphInv
<1>2. EphInv => Eph!SentIsOneIssue  BY DEF EphInv
<1> QED BY <1>1, <1>2, EphStep, PTL DEF Eph!Spec

-----------------------------------------------------------------------------
(***************************************************************************)
(* The time offered to chrony (TimeSync)                                   *)
(***************************************************************************)
Frame == [at : Nat, kind : Sync!Kinds]

\* While the loop is awake and connected, what waits in the queue came just now,
\* has no chance before the clock moves on, or has waited for a write that blocked.
Fresh == last = now \/ \A i \in 1..Len(queue) : queue[i].at = now
QueueIsFresh ==
  /\ now \in Nat \ {0} /\ queue \in Seq(Frame) /\ last \in Nat /\ last <= now
  /\ wakes \in Nat /\ blocked \in Nat /\ blocked <= now
  /\ \A i \in 1..Len(queue) : queue[i].at <= now
  /\ conn = "nil" => blocked = 0
  /\ conn # "nil" => wakes = 0 /\ (blocked # 0 \/ after \/ Fresh)

SyncInv == QueueIsFresh /\ Sync!LateIsFirst

LEMMA TakeLeaves ==
  ASSUME QueueIsFresh, Sync!Take
  PROVE  /\ queue' \in Seq(Frame) /\ Sync!Taken = queue[1] /\ 1 \in 1..Len(queue) /\ Sync!Taken \in Frame
         /\ \A i \in 1..Len(queue') : i + 1 \in 1..Len(queue) /\ queue'[i] = queue[i + 1]
BY DEF QueueIsFresh, Sync!Take, Sync!Awake, Sync!Taken

LEMMA SyncStep == SyncInv /\ [Sync!Next]_(Sync!vars) => SyncInv'
<1> SUFFICES ASSUME SyncInv, [Sync!Next]_(Sync!vars) PROVE SyncInv'
  OBVIOUS
<1> USE PartsAssumption DEF PartsAssumption
<1>1. ASSUME NEW kind \in Sync!Kinds, Sync!Arrive(kind) PROVE SyncInv'
  <2>1. [at |-> now, kind |-> kind] \in Frame  BY DEF Frame, SyncInv, QueueIsFresh
  <2>2. /\ queue' \in Seq(Frame) /\ Len(queue') = Len(queue) + 1
        /\ \A i \in 1..Len(queue) : queue'[i] = queue[i]
        /\ queue'[Len(queue) + 1].at = now
    BY <1>1, <2>1 DEF Sync!Arrive, SyncInv, QueueIsFresh
  <2> QED BY <1>1, <2>2 DEF Sync!Arrive, SyncInv, QueueIsFresh, Fresh, Sync!LateIsFirst
<1>2. CASE Sync!Tick
  <2>1. now' = now + 1 /\ UNCHANGED <<queue, wakes, chrony, conn, blocked, after, last, sample>>
        /\ (wakes = 0 /\ blocked = 0 => queue = << >>)
    BY <1>2 DEF Sync!Tick, Sync!Idle, SyncInv, QueueIsFresh
  <2>2. wakes = 0 /\ blocked = 0 => 1..Len(queue) = {}  BY <2>1
  <2>3. QueueIsFresh
    BY DEF SyncInv
  <2>4. \A i \in 1..Len(queue) : queue[i].at <= now /\ queue[i].at \in Nat
    <3>1. \A i \in 1..Len(queue) : queue[i] \in Frame /\ queue[i].at <= now
      BY <2>3, ElementOfSeq DEF QueueIsFresh
    <3> QED BY <3>1 DEF Frame
  <2>5. \A i \in 1..Len(queue) : queue[i].at <= now + 1
    BY <2>4, <2>3 DEF QueueIsFresh
  <2>6. QueueIsFresh'
    BY <2>1, <2>2, <2>3, <2>5 DEF QueueIsFresh, Fresh
  <2>7. Sync!LateIsFirst'  BY <2>1 DEF SyncInv, Sync!LateIsFirst
  <2> QED BY <2>6, <2>7 DEF SyncInv
<1>3. CASE Sync!Listen \/ Sync!RoomChanges \/ Sync!Ends
  BY <1>3 DEF Sync!Listen, Sync!RoomChanges, Sync!Ends, SyncInv, QueueIsFresh, Fresh,
              Sync!LateIsFirst
<1>4. CASE Sync!Skip
  BY <1>4, TakeLeaves DEF Sync!Skip, SyncInv, QueueIsFresh, Fresh, Sync!LateIsFirst,
                         Sync!Take, Sync!Awake
<1>5. CASE Sync!Sleep
  BY <1>5, TakeLeaves DEF Sync!Sleep, SyncInv, QueueIsFresh, Fresh, Sync!LateIsFirst,
                         Sync!Take, Sync!Awake
<1>6. CASE Sync!Wake
  BY <1>6 DEF Sync!Wake, SyncInv, QueueIsFresh, Fresh, Sync!LateIsFirst
<1>7. CASE Sync!WriteFails
  BY <1>7, TakeLeaves DEF Sync!WriteFails, SyncInv, QueueIsFresh, Fresh, Sync!LateIsFirst,
                         Sync!Take, Sync!Awake
<1>8. CASE Sync!Offer \/ Sync!Block
  <2>1. /\ Sync!Take /\ Sync!Due /\ conn' = "open" /\ after' = FALSE
        /\ sample' = [late |-> now - Sync!Taken.at, first |-> conn = "nil", after |-> after]
        /\ UNCHANGED <<now, wakes, chrony>>
        /\ (last' = now /\ blocked' = blocked) \/ (last' = last /\ blocked' = now)
    BY <1>8 DEF Sync!Offer, Sync!Block, Sync!Write
  <2>2. QueueIsFresh  BY DEF SyncInv
  <2>3. wakes = 0 /\ blocked = 0  BY <2>1 DEF Sync!Take, Sync!Awake
  <2>4. QueueIsFresh'  BY <2>1, <2>2, <2>3, TakeLeaves DEF QueueIsFresh, Fresh
  <2>5. conn # "nil" /\ ~after => now - Sync!Taken.at = 0
    BY <2>1, <2>2, <2>3, TakeLeaves DEF QueueIsFresh, Fresh, Sync!Due
  <2>6. Sync!LateIsFirst'
    <3>1. CASE conn = "nil" \/ after  BY <2>1, <3>1 DEF Sync!LateIsFirst
    <3>2. CASE conn # "nil" /\ ~after
      <4>1. sample'.late = 0  BY <2>1, <2>5, <3>2
      <4> QED BY <4>1 DEF Sync!LateIsFirst
    <3> QED BY <3>1, <3>2
  <2> QED BY <2>4, <2>6 DEF SyncInv
<1>10. CASE Sync!Written
  BY <1>10 DEF Sync!Written, SyncInv, QueueIsFresh, Fresh, Sync!LateIsFirst
<1>11. CASE Sync!WriteBreaks
  BY <1>11 DEF Sync!WriteBreaks, SyncInv, QueueIsFresh, Fresh, Sync!LateIsFirst
<1>9. CASE UNCHANGED Sync!vars
  BY <1>9 DEF Sync!vars, SyncInv, QueueIsFresh, Fresh, Sync!LateIsFirst
<1> QED
  BY <1>1, <1>2, <1>3, <1>4, <1>5, <1>6, <1>7, <1>8, <1>9, <1>10, <1>11 DEF Sync!Next

\* A sample that is offered late is the first of its connection or follows a write
\* that blocked, however the queue grew and whatever failed before (the loop of
\* timesync).
THEOREM SamplesAreFresh == Sync!Spec => []Sync!LateIsFirst
<1>1. Sync!Init => SyncInv
  BY PartsAssumption DEF Sync!Init, SyncInv, QueueIsFresh, Fresh, Sync!LateIsFirst
<1>2. SyncInv => Sync!LateIsFirst  BY DEF SyncInv
<1> QED BY <1>1, <1>2, SyncStep, PTL DEF Sync!Spec

-----------------------------------------------------------------------------
(***************************************************************************)
(* The history (History)                                                   *)
(***************************************************************************)
LEMMA MaxOfTwo ==
  ASSUME NEW a \in Int, NEW b \in Int
  PROVE  Chart!Max({a, b}) = IF a <= b THEN b ELSE a
BY DEF Chart!Max

\* The history counts as the library does.
LEMMA SameCardinality == \A S : Chart!Cardinality(S) = Cardinality(S)
BY DEF Chart!Cardinality, Cardinality

\* A bucket, from its first time on.
LEMMA BucketOf ==
  ASSUME NEW n \in Nat \ {0}, NEW t \in Nat
  PROVE  /\ Chart!Bucket(t, n) \in Nat
         /\ Chart!Bucket(t, n) * n \in Nat /\ Chart!Bucket(t, n) * n <= t
         /\ (Chart!Bucket(t, n) + 1) * n \in Nat /\ t < (Chart!Bucket(t, n) + 1) * n
BY DEF Chart!Bucket

LEMMA BucketsInOrder ==
  ASSUME NEW n \in Nat \ {0}, NEW t \in Nat, NEW u \in Nat, t <= u
  PROVE  Chart!Bucket(t, n) <= Chart!Bucket(u, n)
BY DEF Chart!Bucket

Row == [ts : Nat, fine : BOOLEAN]

RowsAreTyped ==
  /\ clock \in Nat /\ rows \subseteq Row /\ ever \subseteq Nat
  /\ thin \in Int /\ gone \in Int /\ back \in Nat

\* What is younger than every cutoff is there, and a bucket that is not pruned
\* keeps a row.
NothingIsLost ==
  /\ \A t \in ever : t >= thin /\ t >= gone => t \in Chart!Times(rows)
  /\ \A t \in ever : Chart!Bucket(t, Coarse) * Coarse >= gone =>
       \E u \in Chart!Times(rows) : Chart!Bucket(u, Coarse) = Chart!Bucket(t, Coarse)

\* While the clock was never set back, it is ahead of the cutoff, and what is
\* older was thinned.
OldIsThin ==
  back = 0 =>
    /\ thin <= clock - Fine
    /\ \A row \in rows : ~row.fine => row.ts < thin
    /\ \A t \in Chart!Times(rows) : t < thin => t \in Chart!Firsts(rows, Coarse)

ChartInv == RowsAreTyped /\ NothingIsLost /\ OldIsThin

\* What the thinning keeps: what is not older than the cutoff, as it was; of the
\* older rows the first of each bucket, and no fine one besides.
LEMMA DecimatedKeeps ==
  ASSUME PartsAssumption, RowsAreTyped, NEW c \in Int, NEW marked \in BOOLEAN
  PROVE  /\ Chart!Decimated(c, marked) \subseteq Row
         /\ Chart!Times(Chart!Decimated(c, marked)) \subseteq Chart!Times(rows)
         /\ \A t \in Chart!Times(rows) : t >= c => t \in Chart!Times(Chart!Decimated(c, marked))
         /\ \A t \in Chart!Times(rows) : \E u \in Chart!Times(Chart!Decimated(c, marked)) :
              Chart!Bucket(u, Coarse) = Chart!Bucket(t, Coarse)
         /\ \A row \in Chart!Decimated(c, marked) : \E r \in rows :
              /\ r.ts = row.ts /\ (~row.fine => ~r.fine \/ row.ts < c)
              /\ row.ts < c /\ r.fine => row.ts \in Chart!Firsts(rows, Coarse)
<1> DEFINE old == {row \in rows : row.ts < c}
           drop == {row \in old : row.fine /\ row.ts \notin Chart!Firsts(old, Coarse)}
           kept(row) == IF marked /\ row.ts < c THEN [row EXCEPT !.fine = FALSE] ELSE row
           dec == IF drop = {} THEN rows ELSE {kept(row) : row \in rows \ drop}
<1>1. Chart!Decimated(c, marked) = dec  BY DEF Chart!Decimated
<1>2. \A row \in rows : row \in Row /\ row.ts \in Nat /\ row.fine \in BOOLEAN
  BY DEF RowsAreTyped, Row
<1>3. \A row \in rows : kept(row) \in Row /\ kept(row).ts = row.ts /\ (~kept(row).fine => ~row.fine \/ row.ts < c)
  BY <1>2 DEF Row
<1>4. \A row \in dec : \E r \in rows \ drop :
        r.ts = row.ts /\ row \in Row /\ (~row.fine => ~r.fine \/ row.ts < c)
  BY <1>2, <1>3
<1>5. \A r \in rows \ drop : r.ts \in Chart!Times(dec)
  <2> SUFFICES ASSUME NEW r \in rows \ drop PROVE \E row \in dec : row.ts = r.ts
    BY DEF Chart!Times
  <2>1. CASE drop = {}  BY <2>1
  <2>2. CASE drop # {}
    <3>1. kept(r) \in dec  BY <2>2
    <3> QED BY <3>1, <1>3
  <2> QED BY <2>1, <2>2
<1>6. Chart!Firsts(old, Coarse) \subseteq Chart!Firsts(rows, Coarse)
  <2> SUFFICES ASSUME NEW t \in Chart!Firsts(old, Coarse) PROVE t \in Chart!Firsts(rows, Coarse)
    OBVIOUS
  <2>1. t \in Chart!Times(old) /\ \A u \in Chart!Times(old) : u < t => Chart!Bucket(u, Coarse) # Chart!Bucket(t, Coarse)
    BY DEF Chart!Firsts
  <2>2. t \in Chart!Times(rows) /\ t \in Nat /\ t < c  BY <2>1, <1>2 DEF Chart!Times
  <2>3. ASSUME NEW u \in Chart!Times(rows), u < t PROVE u \in Chart!Times(old)
    <3>1. PICK row \in rows : u = row.ts  BY <2>3 DEF Chart!Times
    <3>2. row.ts < c  BY <3>1, <2>2, <2>3, <1>2
    <3> QED BY <3>1, <3>2 DEF Chart!Times
  <2> QED BY <2>1, <2>2, <2>3 DEF Chart!Firsts
<1>7. ASSUME NEW t \in Chart!Times(rows)
      PROVE  \E u \in Chart!Times(dec) : Chart!Bucket(u, Coarse) = Chart!Bucket(t, Coarse)
  <2>1. PICK row \in rows : t = row.ts  BY DEF Chart!Times
  <2>2. CASE row \notin drop  BY <2>1, <2>2, <1>5
  <2>3. CASE row \in drop
    <3> DEFINE B == {u \in Chart!Times(old) : Chart!Bucket(u, Coarse) = Chart!Bucket(t, Coarse)}
    <3>1. B \in SUBSET Nat /\ B # {}  BY <2>1, <2>3, <1>2 DEF Chart!Times
    <3>2. PICK u \in B : \A v \in B : u <= v  BY <3>1, LeastOf
    <3>3. ASSUME NEW v \in Chart!Times(old), v < u PROVE Chart!Bucket(v, Coarse) # Chart!Bucket(u, Coarse)
      <4>1. v \in Nat /\ u \in Nat  BY <3>1, <1>2 DEF Chart!Times
      <4> QED BY <3>2, <3>3, <4>1
    <3>4. u \in Chart!Firsts(old, Coarse)  BY <3>2, <3>3 DEF Chart!Firsts
    <3>5. PICK r \in old : u = r.ts  BY <3>2 DEF Chart!Times
    <3>6. r \in rows \ drop  BY <3>4, <3>5
    <3> QED BY <3>2, <3>5, <3>6, <1>5
  <2> QED BY <2>2, <2>3
<1>8. ASSUME NEW t \in Chart!Times(rows), t >= c PROVE t \in Chart!Times(dec)
  <2>1. PICK row \in rows : t = row.ts  BY DEF Chart!Times
  <2>2. row \notin drop  BY <2>1, <1>2, <1>8
  <2> QED BY <2>1, <2>2, <1>5
<1>9. ASSUME NEW row \in dec
      PROVE  \E r \in rows : /\ r.ts = row.ts /\ (~row.fine => ~r.fine \/ row.ts < c)
                             /\ row.ts < c /\ r.fine => row.ts \in Chart!Firsts(rows, Coarse)
  <2>1. PICK r \in rows \ drop : r.ts = row.ts /\ (~row.fine => ~r.fine \/ row.ts < c)
    BY <1>4
  <2>2. row.ts < c /\ r.fine => row.ts \in Chart!Firsts(old, Coarse)  BY <2>1
  <2> QED BY <2>1, <2>2, <1>6
<1>10. dec \subseteq Row  BY <1>4
<1>11. Chart!Times(dec) \subseteq Chart!Times(rows)  BY <1>4 DEF Chart!Times
<1> HIDE DEF dec
<1> QED BY <1>1, <1>7, <1>8, <1>9, <1>10, <1>11

\* Thinning up to a cutoff, and pruning up to another.
LEMMA ThinnedKeeps ==
  ASSUME PartsAssumption, ChartInv, NEW p \in Int, NEW marked \in BOOLEAN,
         thin' = Chart!Max({thin, clock - Fine}), gone' = Chart!Max({gone, p}),
         rows' = {row \in Chart!Decimated(clock - Fine, marked) : row.ts >= p},
         UNCHANGED <<clock, ever, back>>
  PROVE  ChartInv'
<1> DEFINE c == clock - Fine
           dec == Chart!Decimated(c, marked)
<1>1. RowsAreTyped /\ c \in Int /\ Coarse \in Nat \ {0} /\ Fine \in Nat
  BY DEF ChartInv, RowsAreTyped, PartsAssumption
<1>2. /\ clock \in Nat /\ rows \subseteq Row /\ ever \subseteq Nat
      /\ thin \in Int /\ gone \in Int /\ back \in Nat
  BY <1>1 DEF RowsAreTyped
<1>3. /\ dec \subseteq Row /\ Chart!Times(dec) \subseteq Chart!Times(rows)
      /\ \A t \in Chart!Times(rows) : t >= c => t \in Chart!Times(dec)
      /\ \A t \in Chart!Times(rows) : \E u \in Chart!Times(dec) :
           Chart!Bucket(u, Coarse) = Chart!Bucket(t, Coarse)
      /\ \A row \in dec : \E r \in rows :
           /\ r.ts = row.ts /\ (~row.fine => ~r.fine \/ row.ts < c)
           /\ row.ts < c /\ r.fine => row.ts \in Chart!Firsts(rows, Coarse)
  BY <1>1, DecimatedKeeps
<1>4. rows' = {row \in dec : row.ts >= p}  OBVIOUS
<1> HIDE DEF dec
<1>5. /\ thin' \in Int /\ thin' >= thin /\ thin' >= c /\ (thin <= c => thin' = c)
      /\ gone' \in Int /\ gone' >= gone /\ gone' >= p
  BY <1>1, <1>2, MaxOfTwo
<1>6. Chart!Times(rows') = {t \in Chart!Times(dec) : t >= p}
  BY <1>4 DEF Chart!Times
<1>7. \A t \in Chart!Times(rows) : t \in Nat
  BY <1>2 DEF Chart!Times, Row
<1>8. RowsAreTyped'
  BY <1>2, <1>3, <1>4, <1>5 DEF RowsAreTyped
<1>9. NothingIsLost'
  <2>1. ASSUME NEW t \in ever, t >= thin', t >= gone' PROVE t \in Chart!Times(rows')
    <3>1. t \in Nat /\ t >= thin /\ t >= gone /\ t >= c /\ t >= p
      BY <2>1, <1>1, <1>2, <1>5
    <3>2. t \in Chart!Times(rows)  BY <3>1 DEF ChartInv, NothingIsLost
    <3> QED BY <3>1, <3>2, <1>3, <1>6
  <2>2. ASSUME NEW t \in ever, Chart!Bucket(t, Coarse) * Coarse >= gone'
        PROVE  \E u \in Chart!Times(rows') : Chart!Bucket(u, Coarse) = Chart!Bucket(t, Coarse)
    <3> DEFINE b == Chart!Bucket(t, Coarse) * Coarse
    <3>1. t \in Nat /\ b \in Nat  BY <1>1, <1>2, BucketOf
    <3>2. b >= gone /\ b >= p  BY <3>1, <2>2, <1>2, <1>5
    <3>3. PICK w \in Chart!Times(rows) : Chart!Bucket(w, Coarse) = Chart!Bucket(t, Coarse)
      BY <3>2 DEF ChartInv, NothingIsLost
    <3>4. PICK u \in Chart!Times(dec) : Chart!Bucket(u, Coarse) = Chart!Bucket(w, Coarse)
      BY <1>3
    <3>5. u \in Nat /\ b <= u  BY <3>3, <3>4, <1>1, <1>3, <1>7, BucketOf
    <3>6. u >= p  BY <3>1, <3>2, <3>5
    <3> QED BY <3>3, <3>4, <3>6, <1>6
  <2>3. ever' = ever  OBVIOUS
  <2> QED BY <2>1, <2>2, <2>3 DEF NothingIsLost
<1>10. OldIsThin'
  <2> SUFFICES ASSUME back' = 0
               PROVE  /\ thin' <= clock' - Fine
                      /\ \A row \in rows' : ~row.fine => row.ts < thin'
                      /\ \A t \in Chart!Times(rows') : t < thin' => t \in Chart!Firsts(rows', Coarse)
    BY DEF OldIsThin
  <2>1. /\ thin <= c /\ \A row \in rows : ~row.fine => row.ts < thin
        /\ \A t \in Chart!Times(rows) : t < thin => t \in Chart!Firsts(rows, Coarse)
    BY DEF ChartInv, OldIsThin
  <2>2. thin' = c /\ clock' = clock  BY <2>1, <1>5
  <2>3. ASSUME NEW row \in rows', ~row.fine PROVE row.ts < thin'
    <3>1. PICK r \in rows : r.ts = row.ts /\ (~row.fine => ~r.fine \/ row.ts < c)
      BY <1>3, <1>4
    <3>2. r.ts \in Nat  BY <1>2 DEF Row
    <3>3. CASE row.ts < c  BY <3>3, <2>2
    <3>4. CASE ~r.fine  BY <3>1, <3>2, <3>4, <2>1, <2>2, <1>1, <1>2
    <3> QED BY <3>1, <3>3, <3>4, <2>3
  <2>4. ASSUME NEW t \in Chart!Times(rows'), t < thin' PROVE t \in Chart!Firsts(rows', Coarse)
    <3>1. PICK row \in dec : t = row.ts  BY <1>4 DEF Chart!Times
    <3>2. PICK r \in rows : /\ r.ts = row.ts
                            /\ row.ts < c /\ r.fine => row.ts \in Chart!Firsts(rows, Coarse)
      BY <1>3
    <3>3. r.ts \in Nat /\ t \in Chart!Times(rows)  BY <1>2, <3>1, <3>2 DEF Row, Chart!Times
    <3>4. t \in Chart!Firsts(rows, Coarse)
      <4>1. CASE r.fine  BY <4>1, <3>1, <3>2, <2>2, <2>4
      <4>2. CASE ~r.fine  BY <4>2, <3>1, <3>2, <3>3, <2>1
      <4> QED BY <4>1, <4>2
    <3>5. Chart!Times(rows') \subseteq Chart!Times(rows)  BY <1>3, <1>6
    <3> QED BY <2>4, <3>4, <3>5 DEF Chart!Firsts
  <2>5. c = clock - Fine /\ c <= c  BY <1>1
  <2>6. thin' <= clock' - Fine  BY <2>2, <2>5
  <2> QED BY <2>3, <2>4, <2>6
<1> QED BY <1>8, <1>9, <1>10 DEF ChartInv

\* Pruning alone, when the thinning failed.
LEMMA PrunedKeeps ==
  ASSUME PartsAssumption, ChartInv, NEW p \in Int,
         thin' = thin, gone' = Chart!Max({gone, p}),
         rows' = {row \in rows : row.ts >= p},
         UNCHANGED <<clock, ever, back>>
  PROVE  ChartInv'
<1>1. /\ clock \in Nat /\ rows \subseteq Row /\ ever \subseteq Nat
      /\ thin \in Int /\ gone \in Int /\ back \in Nat /\ Coarse \in Nat \ {0}
  BY DEF ChartInv, RowsAreTyped, PartsAssumption
<1>2. gone' \in Int /\ gone' >= gone /\ gone' >= p
  BY <1>1, MaxOfTwo
<1>3. Chart!Times(rows') = {t \in Chart!Times(rows) : t >= p}
  BY DEF Chart!Times
<1>4. \A t \in Chart!Times(rows) : t \in Nat
  BY <1>1 DEF Chart!Times, Row
<1>5. RowsAreTyped'
  BY <1>1, <1>2 DEF RowsAreTyped
<1>6. NothingIsLost'
  <2>1. ASSUME NEW t \in ever, t >= thin, t >= gone' PROVE t \in Chart!Times(rows')
    <3>1. t \in Nat /\ t >= gone /\ t >= p  BY <2>1, <1>1, <1>2
    <3> QED BY <2>1, <3>1, <1>3 DEF ChartInv, NothingIsLost
  <2>2. ASSUME NEW t \in ever, Chart!Bucket(t, Coarse) * Coarse >= gone'
        PROVE  \E u \in Chart!Times(rows') : Chart!Bucket(u, Coarse) = Chart!Bucket(t, Coarse)
    <3> DEFINE b == Chart!Bucket(t, Coarse) * Coarse
    <3>1. t \in Nat /\ b \in Nat  BY <1>1, BucketOf
    <3>2. b >= gone /\ b >= p  BY <3>1, <2>2, <1>1, <1>2
    <3>3. PICK u \in Chart!Times(rows) : Chart!Bucket(u, Coarse) = Chart!Bucket(t, Coarse)
      BY <3>2 DEF ChartInv, NothingIsLost
    <3>4. u \in Nat /\ b <= u  BY <3>3, <1>1, <1>4, BucketOf
    <3>5. u >= p  BY <3>1, <3>2, <3>4
    <3> QED BY <3>3, <3>5, <1>3
  <2> QED BY <2>1, <2>2 DEF NothingIsLost
<1>7. OldIsThin'
  <2>1. Chart!Times(rows') \subseteq Chart!Times(rows)  BY <1>3
  <2> QED BY <2>1 DEF ChartInv, OldIsThin, Chart!Firsts
<1> QED BY <1>5, <1>6, <1>7 DEF ChartInv

LEMMA ChartStep == PartsAssumption /\ ChartInv /\ [Chart!Next]_(Chart!vars) => ChartInv'
<1> SUFFICES ASSUME PartsAssumption, ChartInv, [Chart!Next]_(Chart!vars) PROVE ChartInv'
  OBVIOUS
<1>1. /\ clock \in Nat /\ rows \subseteq Row /\ ever \subseteq Nat
      /\ thin \in Int /\ gone \in Int /\ back \in Nat /\ Fine \in Nat /\ Coarse \in Nat \ {0}
  BY DEF ChartInv, RowsAreTyped, PartsAssumption
<1>2. CASE Chart!PutEpoch
  <2>1. /\ ever' = ever \cup {clock} /\ UNCHANGED <<clock, thin, gone, back>>
        /\ rows' = IF clock \in Chart!Times(rows) THEN rows
                   ELSE rows \cup {[ts |-> clock, fine |-> TRUE]}
    BY <1>2 DEF Chart!PutEpoch
  <2>2. Chart!Times(rows') = Chart!Times(rows) \cup {clock}
    <3>1. CASE clock \in Chart!Times(rows)  BY <3>1, <2>1
    <3>2. CASE clock \notin Chart!Times(rows)
      <4> DEFINE new == [ts |-> clock, fine |-> TRUE]
      <4>1. rows' = rows \cup {new} /\ new.ts = clock  BY <3>2, <2>1
      <4> HIDE DEF new
      <4>2. \A t : t \in Chart!Times(rows') <=> t \in Chart!Times(rows) \/ t = clock
        BY <4>1 DEF Chart!Times
      <4> QED BY <4>2
    <3> QED BY <3>1, <3>2
  <2>3. RowsAreTyped'
    <3>1. [ts |-> clock, fine |-> TRUE] \in Row  BY <1>1 DEF Row
    <3>2. rows' \subseteq Row  BY <3>1, <2>1, <1>1
    <3> QED BY <3>2, <2>1, <1>1 DEF RowsAreTyped
  <2>4. NothingIsLost'
    BY <2>1, <2>2 DEF ChartInv, NothingIsLost
  <2>5. OldIsThin'
    <3> SUFFICES ASSUME back' = 0
                 PROVE  /\ thin' <= clock' - Fine
                        /\ \A row \in rows' : ~row.fine => row.ts < thin'
                        /\ \A t \in Chart!Times(rows') : t < thin' => t \in Chart!Firsts(rows', Coarse)
      BY DEF OldIsThin
    <3>1. /\ thin <= clock - Fine /\ \A row \in rows : ~row.fine => row.ts < thin
          /\ \A t \in Chart!Times(rows) : t < thin => t \in Chart!Firsts(rows, Coarse)
      BY <2>1 DEF ChartInv, OldIsThin
    <3>2. thin <= clock  BY <3>1, <1>1
    <3>3. \A row \in rows' : ~row.fine => row.ts < thin  BY <2>1, <3>1
    <3>4. ASSUME NEW t \in Chart!Times(rows'), t < thin PROVE t \in Chart!Firsts(rows', Coarse)
      <4>1. t # clock /\ t \in Chart!Times(rows)  BY <2>2, <3>2, <3>4, <1>1
      <4>2. t \in Nat  BY <4>1, <1>1 DEF Chart!Times, Row
      <4>3. ~(clock < t)  BY <4>2, <3>2, <3>4, <1>1
      <4> QED BY <4>1, <4>3, <2>2, <3>1, <3>4 DEF Chart!Firsts
    <3> QED BY <2>1, <3>1, <3>3, <3>4
  <2> QED BY <2>3, <2>4, <2>5 DEF ChartInv
<1>3. CASE Chart!Maintain
  <2>1. clock - Retention \in Int  BY <1>1 DEF PartsAssumption
  <2> QED BY <1>3, <2>1, ThinnedKeeps DEF Chart!Maintain
<1>4. CASE Chart!MaintainFails
  <2>1. PICK thinned \in BOOLEAN, marked \in BOOLEAN, pruned \in BOOLEAN :
          /\ thin' = IF thinned THEN Chart!Max({thin, clock - Fine}) ELSE thin
          /\ gone' = IF pruned THEN Chart!Max({gone, clock - Retention}) ELSE gone
          /\ rows' = {row \in (IF thinned THEN Chart!Decimated(clock - Fine, marked) ELSE rows) :
                        pruned => row.ts >= clock - Retention}
          /\ UNCHANGED <<clock, ever, back>>
    BY <1>4 DEF Chart!MaintainFails
  <2> DEFINE left == IF thinned THEN Chart!Decimated(clock - Fine, marked) ELSE rows
  <2>2. left \subseteq Row
    <3>1. clock - Fine \in Int /\ RowsAreTyped  BY <1>1 DEF ChartInv
    <3> QED BY <3>1, <1>1, DecimatedKeeps
  <2>3. PICK p \in Int : gone' = Chart!Max({gone, p}) /\ rows' = {row \in left : row.ts >= p}
    <3> HIDE DEF left
    <3>1. CASE pruned
      <4>1. clock - Retention \in Int  BY <1>1 DEF PartsAssumption
      <4> QED BY <2>1, <3>1, <4>1 DEF left
    <3>2. CASE ~pruned
      <4>1. PICK p \in Int : p <= gone /\ p <= 0
        <5>1. CASE gone <= 0  BY <5>1, <1>1
        <5>2. CASE ~(gone <= 0)  BY <5>2, <1>1
        <5> QED BY <5>1, <5>2
      <4>2. gone' = Chart!Max({gone, p})  BY <2>1, <3>2, <4>1, <1>1, MaxOfTwo
      <4>3. \A row \in left : row.ts >= p  BY <2>2, <4>1 DEF Row
      <4>4. rows' = left  BY <2>1, <3>2 DEF left
      <4> QED BY <4>2, <4>3, <4>4
    <3> QED BY <3>1, <3>2
  <2>4. CASE thinned  BY <2>1, <2>3, <2>4, ThinnedKeeps
  <2>5. CASE ~thinned  BY <2>1, <2>3, <2>5, PrunedKeeps
  <2> QED BY <2>4, <2>5
<1>5. CASE Chart!Pass
  BY <1>1, <1>5 DEF Chart!Pass, ChartInv, RowsAreTyped, NothingIsLost, OldIsThin
<1>6. CASE Chart!SetBack
  <2>1. back' = back + 1 /\ clock' \in 0..clock - 1 /\ UNCHANGED <<rows, ever, thin, gone>>
    BY <1>6 DEF Chart!SetBack
  <2>2. back' \in Nat /\ back' # 0 /\ clock' \in Nat  BY <2>1, <1>1
  <2>3. RowsAreTyped'  BY <2>1, <2>2, <1>1 DEF RowsAreTyped
  <2>4. OldIsThin'  BY <2>2 DEF OldIsThin
  <2>5. NothingIsLost'  BY <2>1 DEF ChartInv, NothingIsLost
  <2> QED BY <2>3, <2>4, <2>5 DEF ChartInv
<1>7. CASE UNCHANGED Chart!vars
  BY <1>7 DEF Chart!vars, ChartInv, RowsAreTyped, NothingIsLost, OldIsThin
<1> QED BY <1>2, <1>3, <1>4, <1>5, <1>6, <1>7 DEF Chart!Next

\* Thinning and pruning lose no more than they should, whichever of their
\* statements fail and wherever the clock is set (DecimateOld, PruneTelemetry).
THEOREM HistoryIsKept == Chart!Spec => []Chart!HistoryKept
<1>1. PartsAssumption /\ Chart!Init => ChartInv
  BY DEF Chart!Init, ChartInv, RowsAreTyped, NothingIsLost, OldIsThin, PartsAssumption, Chart!Times
<1>2. PartsAssumption /\ ChartInv => Chart!HistoryKept
  <2> SUFFICES ASSUME PartsAssumption, ChartInv, back = 0, NEW t \in Chart!Times(rows),
                      (Chart!Bucket(t, Coarse) + 1) * Coarse <= thin
               PROVE  t \in Chart!Firsts(rows, Coarse)
    BY DEF Chart!HistoryKept, ChartInv, NothingIsLost
  <2>1. t \in Nat /\ Coarse \in Nat \ {0} /\ thin \in Int
    BY DEF ChartInv, RowsAreTyped, Row, Chart!Times, PartsAssumption
  <2> DEFINE b == (Chart!Bucket(t, Coarse) + 1) * Coarse
  <2>2. b \in Nat /\ t < b /\ b <= thin  BY <2>1, BucketOf
  <2>3. t < thin  BY <2>1, <2>2
  <2> QED BY <2>3 DEF ChartInv, OldIsThin
<1> QED BY <1>1, <1>2, ChartStep, PartsAssumption, PTL DEF Chart!Spec

\* Rounded up, the width of a bucket is enough for the limit, and no less than 1.
LEMMA SizeFits ==
  ASSUME NEW d \in Nat, NEW limit \in Nat \ {0}, NEW width,
         width = IF d > limit THEN Chart!Ceil(d, limit) ELSE 1
  PROVE  width \in Nat \ {0} /\ width * limit >= d /\ width = Chart!Max({1, Chart!Ceil(d, limit)})
<1> DEFINE q == Chart!Ceil(d, limit)
<1>1. q \in Nat /\ q * limit <= d + limit - 1 /\ d + limit - 1 < q * limit + limit
  BY DEF Chart!Ceil
<1> DEFINE x == q * limit
<1>2. q \in Nat /\ limit \in Nat \ {0} /\ x \in Nat /\ x >= d /\ x <= d + limit - 1  BY <1>1
<1>3. q >= 2 => x >= limit + limit
  <2>1. \A n \in Nat : n >= 2 => n * limit >= 2 * limit  OBVIOUS
  <2> QED BY <2>1, <1>1
<1>4. q <= 1 => x <= limit
  <2>1. q \in {0, 1} => q * limit <= limit  OBVIOUS
  <2> QED BY <2>1, <1>1
<1>5. x >= d /\ (d > limit => q >= 2) /\ (d <= limit => q <= 1)
  <2> HIDE DEF x, q
  <2> QED BY <1>2, <1>3, <1>4
<1>6. Chart!Max({1, q}) = IF 1 <= q THEN q ELSE 1  BY <1>1, MaxOfTwo
<1> HIDE DEF q
<1>7. CASE d > limit
  <2>1. width = q /\ q >= 2  BY <1>5, <1>7 DEF q
  <2>2. q * limit >= d  BY <1>5
  <2> QED BY <2>1, <2>2, <1>1, <1>6 DEF q
<1>8. CASE ~(d > limit)
  <2>1. width = 1 /\ q <= 1 /\ 1 * limit >= d  BY <1>5, <1>8
  <2> QED BY <2>1, <1>1, <1>6 DEF q
<1> QED BY <1>7, <1>8

\* From the first bucket of a window to its last there are no more than fit.
LEMMA BucketsFit ==
  ASSUME NEW n \in Nat \ {0}, NEW limit \in Nat, NEW a \in Nat, NEW b \in Nat,
         a <= b, n * limit >= b - a
  PROVE  Chart!Bucket(b, n) - Chart!Bucket(a, n) <= limit
<1> DEFINE p == Chart!Bucket(a, n)
           q == Chart!Bucket(b, n)
<1>1. /\ p \in Nat /\ q \in Nat /\ q * n <= b /\ a < (p + 1) * n  BY BucketOf
<1>2. SUFFICES ASSUME q - p > limit PROVE FALSE  BY <1>1
<1> HIDE DEF p, q
<1>3. q >= p + limit + 1  BY <1>1, <1>2
<1>4. (p + 1) * n = p * n + n /\ p * n \in Nat /\ q * n \in Nat /\ n * limit \in Nat  BY <1>1
<1>5. q * n >= p * n + n * limit + n
  <2>1. (p + limit + 1) * n = p * n + n * limit + n  BY <1>1
  <2>2. \A u \in Nat, v \in Nat : u >= v => u * n >= v * n  OBVIOUS
  <2>3. p + limit + 1 \in Nat  BY <1>1
  <2> QED BY <2>1, <2>2, <2>3, <1>1, <1>3
<1> DEFINE x == p * n
           y == q * n
           z == n * limit
<1>6. x \in Nat /\ y \in Nat /\ z \in Nat /\ y <= b /\ a < x + n /\ y >= x + z + n /\ z >= b - a
  BY <1>1, <1>4, <1>5
<1> HIDE DEF x, y, z
<1> QED BY <1>6

\* The rows that a chart is taken from.
Shown(from) == {row \in rows : from <= row.ts /\ row.ts <= clock}

LEMMA ShownAre ==
  ASSUME RowsAreTyped, NEW from \in Nat
  PROVE  Chart!Times(Shown(from)) = {t \in Chart!Times(rows) : from <= t /\ t <= clock}
         /\ Chart!Times(Shown(from)) \subseteq 0..clock
BY DEF RowsAreTyped, Row, Shown, Chart!Times

\* Of the last rows of their buckets, no more are before a bucket than there are
\* buckets before it.
LEMMA LastsAreFew ==
  ASSUME RowsAreTyped, NEW from \in Nat, NEW n \in Nat \ {0},
         NEW v \in Chart!Lasts(Shown(from), n)
  PROVE  LET A == {u \in Chart!Lasts(Shown(from), n) : u < v}
         IN  IsFiniteSet(A) /\ Cardinality(A) \in Nat
             /\ Cardinality(A) <= Chart!Bucket(v, n) - Chart!Bucket(from, n)
<1> DEFINE L == Chart!Lasts(Shown(from), n)
           A == {u \in L : u < v}
           p == Chart!Bucket(from, n)
           q == Chart!Bucket(v, n)
           I == p..q - 1
           f == [u \in A |-> Chart!Bucket(u, n)]
<1>1. \A u \in L : /\ u \in Chart!Times(Shown(from)) /\ u \in Nat /\ from <= u
                   /\ \A t \in Chart!Times(Shown(from)) :
                        t > u => Chart!Bucket(t, n) # Chart!Bucket(u, n)
  BY ShownAre DEF Chart!Lasts
<1>2. p \in Nat /\ q \in Nat /\ p <= q  BY <1>1, BucketOf, BucketsInOrder
<1>3. \A u \in A : Chart!Bucket(u, n) \in I
  <2> SUFFICES ASSUME NEW u \in A PROVE Chart!Bucket(u, n) \in I
    OBVIOUS
  <2>1. u \in L /\ u < v /\ u \in Nat /\ v \in Nat /\ from <= u  BY <1>1
  <2>2. Chart!Bucket(u, n) \in Nat /\ p <= Chart!Bucket(u, n) /\ Chart!Bucket(u, n) <= q
    BY <2>1, BucketOf, BucketsInOrder
  <2>3. Chart!Bucket(u, n) # q  BY <2>1, <1>1
  <2> QED BY <2>2, <2>3, <1>2
<1>4. \A u, w \in A : Chart!Bucket(u, n) = Chart!Bucket(w, n) => u = w
  <2> SUFFICES ASSUME NEW u \in A, NEW w \in A, Chart!Bucket(u, n) = Chart!Bucket(w, n)
               PROVE  u = w
    OBVIOUS
  <2>1. u \in L /\ w \in L /\ u \in Nat /\ w \in Nat  BY <1>1
  <2>2. ~(u > w) /\ ~(w > u)  BY <2>1, <1>1
  <2> QED BY <2>1, <2>2
<1> HIDE DEF L, A, p, q
<1>5. f \in Injection(A, I)  BY <1>3, <1>4 DEF Injection, IsInjective
<1>6. IsFiniteSet(I) /\ Cardinality(I) = q - p
  <2>1. IsFiniteSet(I) /\ Cardinality(I) = IF p > q - 1 THEN 0 ELSE (q - 1) - p + 1
    BY <1>2, FS_Interval
  <2> QED BY <2>1, <1>2
<1>7. IsFiniteSet(A) /\ Cardinality(A) <= Cardinality(I)  BY <1>5, <1>6, FS_Injection
<1>8. Cardinality(A) \in Nat  BY <1>7, FS_CardinalityType
<1>9. IsFiniteSet(A) /\ Cardinality(A) \in Nat /\ Cardinality(A) <= q - p  BY <1>6, <1>7, <1>8
<1> QED BY <1>9 DEF A, L, p, q

LEMMA ChartsFit ==
  ASSUME RowsAreTyped, PartsAssumption, NEW from \in 0..clock, NEW limit \in Limits
  PROVE  LET chart == Chart!EpochRange(from, clock, limit)
             width  == Chart!Max({1, Chart!Ceil(clock - from, limit)})
         IN  /\ Cardinality(chart) <= limit
             /\ \A t \in {u \in Chart!Times(rows) : from <= u /\ u <= clock} :
                  \/ Chart!Bucket(t, width) = Chart!Bucket(clock, width)
                  \/ \E v \in chart : v >= t /\ Chart!Bucket(v, width) = Chart!Bucket(t, width)
<1> DEFINE d == clock - from
           width == IF d > limit THEN Chart!Ceil(d, limit) ELSE 1
           L == Chart!Lasts(Shown(from), width)
           T == Chart!Times(Shown(from))
           before(v) == {u \in L : u < v}
           chart == {t \in L : Cardinality(before(t)) < limit}
<1>1. clock \in Nat /\ from \in Nat /\ from <= clock /\ limit \in Nat \ {0} /\ d \in Nat
  BY DEF RowsAreTyped, PartsAssumption
<1>2. width \in Nat \ {0} /\ width * limit >= d /\ width = Chart!Max({1, Chart!Ceil(d, limit)})
  BY <1>1, SizeFits
<1>3. Chart!EpochRange(from, clock, limit) = chart
  BY SameCardinality DEF Chart!EpochRange, Shown
<1> HIDE DEF width
<1>4. T = {t \in Chart!Times(rows) : from <= t /\ t <= clock} /\ T \subseteq 0..clock
  BY <1>1, ShownAre
<1>5. \A v \in L : /\ v \in T /\ IsFiniteSet(before(v)) /\ Cardinality(before(v)) \in Nat
                   /\ Cardinality(before(v)) <= Chart!Bucket(v, width) - Chart!Bucket(from, width)
  BY <1>1, <1>2, LastsAreFew DEF Chart!Lasts
<1>6. Cardinality(chart) <= limit
  <2>1. CASE chart = {}
    <3> HIDE DEF chart
    <3>1. Cardinality(chart) = 0  BY <2>1, FS_EmptySet
    <3> QED BY <3>1, <1>1
  <2>2. CASE chart # {}
    <3>1. chart \in SUBSET (0..clock)  BY <1>4, <1>5
    <3>2. PICK g \in chart : \A y \in chart : y <= g  BY <2>2, <3>1, <1>1, GreatestOf
    <3>3. g \in L /\ Cardinality(before(g)) < limit /\ IsFiniteSet(before(g))
          /\ Cardinality(before(g)) \in Nat
      BY <3>2, <1>5
    <3>4. chart \ {g} \subseteq before(g)
      <4>1. \A y \in chart : y \in L /\ y \in Nat /\ g \in Nat /\ (y # g => y < g)
        BY <3>1, <3>2
      <4> QED BY <4>1
    <3> HIDE DEF chart, before
    <3>5. IsFiniteSet(chart \ {g}) /\ Cardinality(chart \ {g}) <= Cardinality(before(g))
      BY <3>3, <3>4, FS_Subset
    <3>6. Cardinality(chart \ {g}) \in Nat  BY <3>5, FS_CardinalityType
    <3>7. Cardinality((chart \ {g}) \cup {g}) = Cardinality(chart \ {g}) + 1
      BY <3>5, FS_AddElement
    <3>8. (chart \ {g}) \cup {g} = chart  BY <3>2
    <3> QED BY <3>3, <3>5, <3>6, <3>7, <3>8, <1>1
  <2> QED BY <2>1, <2>2
<1>7. ASSUME NEW t \in T, Chart!Bucket(t, width) # Chart!Bucket(clock, width)
      PROVE  \E v \in chart : v >= t /\ Chart!Bucket(v, width) = Chart!Bucket(t, width)
  <2> DEFINE B == {u \in T : Chart!Bucket(u, width) = Chart!Bucket(t, width)}
  <2>1. B \in SUBSET (0..clock) /\ t \in B  BY <1>4
  <2>2. PICK v \in B : \A u \in B : u <= v
    <3>1. B # {}  BY <2>1
    <3> HIDE DEF B
    <3> QED BY <3>1, <2>1, <1>1, GreatestOf
  <2>3. v \in T /\ v \in Nat /\ v <= clock /\ v >= t /\ Chart!Bucket(v, width) = Chart!Bucket(t, width)
    BY <2>1, <2>2, <1>1
  <2>4. v \in L
    <3>1. ASSUME NEW u \in T, u > v PROVE Chart!Bucket(u, width) # Chart!Bucket(v, width)
      <4>1. u \in Nat  BY <1>4
      <4>2. u \notin B  BY <4>1, <2>2, <2>3, <3>1
      <4> QED BY <4>2, <2>3
    <3> QED BY <2>3, <3>1 DEF Chart!Lasts
  <2>5. Cardinality(before(v)) < limit
    <3>1. /\ Chart!Bucket(v, width) \in Nat /\ Chart!Bucket(clock, width) \in Nat
          /\ Chart!Bucket(from, width) \in Nat /\ Chart!Bucket(v, width) <= Chart!Bucket(clock, width)
      BY <2>3, <1>1, <1>2, BucketOf, BucketsInOrder
    <3>2. Chart!Bucket(v, width) # Chart!Bucket(clock, width)  BY <2>3, <1>7
    <3>3. Chart!Bucket(clock, width) - Chart!Bucket(from, width) <= limit
      BY <1>1, <1>2, BucketsFit
    <3>4. Cardinality(before(v)) \in Nat
          /\ Cardinality(before(v)) <= Chart!Bucket(v, width) - Chart!Bucket(from, width)
      BY <2>4, <1>5
    <3> HIDE DEF before
    <3> QED BY <3>1, <3>2, <3>3, <3>4, <1>1
  <2> QED BY <2>3, <2>4, <2>5
<1> HIDE DEF chart, T
<1> QED BY <1>2, <1>3, <1>4, <1>6, <1>7 DEF d

\* A chart fits its limit and leaves out no bucket but the newest, for any window,
\* limit and spacing of the rows (EpochRange).
THEOREM ChartsShowAll == Chart!Spec => []Chart!ChartsAreComplete
<1>1. PartsAssumption /\ Chart!Init => ChartInv
  BY DEF Chart!Init, ChartInv, RowsAreTyped, NothingIsLost, OldIsThin, PartsAssumption, Chart!Times
<1>2. PartsAssumption /\ ChartInv => Chart!ChartsAreComplete
  <2> SUFFICES ASSUME PartsAssumption, ChartInv PROVE Chart!ChartsAreComplete
    OBVIOUS
  <2>1. RowsAreTyped  BY DEF ChartInv
  <2> QED BY <2>1, ChartsFit, SameCardinality DEF Chart!ChartsAreComplete
<1> QED BY <1>1, <1>2, ChartStep, PartsAssumption, PTL DEF Chart!Spec

-----------------------------------------------------------------------------
(***************************************************************************)
(* The limiter (Limiter)                                                   *)
(***************************************************************************)
\* What a bucket has at a time, and what an address can count on then: one that
\* is not in the table has a full bucket.
Bucket == [tokens : 0..Burst, at : Nat]
TokensAt(b, t) == Limit!Min({Burst, b.tokens + Rate * (t - b.at)})
Counts(tab, k, t) == IF k \in DOMAIN tab THEN TokensAt(tab[k], t) ELSE Burst

TableOf(tab) ==
  /\ DOMAIN tab \subseteq Keys
  /\ \A k \in DOMAIN tab : tab[k] \in Bucket /\ tab[k].at <= sec

TableIsTyped ==
  /\ sec \in Nat /\ since \in Nat /\ since <= sec
  /\ granted \in [Keys -> Nat] /\ returned \in [Keys -> Nat] /\ trying \in [Keys -> Nat]
  /\ TableOf(keys)

\* What was granted, with what still can be had, is what there was and has come.
TokensAreKept ==
  \A k \in Keys : Cost * granted[k] + Counts(keys, k, sec)
                    <= Burst + Rate * (sec - since) + Cost * returned[k]

LimitInv == TableIsTyped /\ TokensAreKept

LEMMA MinOfTwo ==
  ASSUME NEW a \in Int, NEW b \in Int
  PROVE  Limit!Min({a, b}) = IF a <= b THEN a ELSE b
BY DEF Limit!Min

LEMMA TokensOf ==
  ASSUME PartsAssumption, NEW b \in Bucket, NEW t \in Nat, b.at <= t
  PROVE  /\ TokensAt(b, t) \in 0..Burst
         /\ TokensAt(b, t) = IF Burst <= b.tokens + Rate * (t - b.at) THEN Burst
                             ELSE b.tokens + Rate * (t - b.at)
         /\ Rate * (t - b.at) \in Nat
         /\ TokensAt(b, t + 1) <= TokensAt(b, t) + Rate
<1> DEFINE x == Rate * (t - b.at)
<1>1. t - b.at \in Nat /\ Rate \in Nat /\ Burst \in Nat /\ b.tokens \in 0..Burst
  BY DEF Bucket, PartsAssumption
<1>2. x \in Nat /\ Rate * ((t + 1) - b.at) = x + Rate
  <2>1. \A d \in Nat : Rate * d \in Nat /\ Rate * (d + 1) = Rate * d + Rate  BY <1>1
  <2>2. (t + 1) - b.at = (t - b.at) + 1  BY <1>1 DEF Bucket
  <2> QED BY <1>1, <2>1, <2>2
<1> HIDE DEF x
<1>3. b.tokens + x \in Int /\ b.tokens + (x + Rate) \in Int  BY <1>1, <1>2
<1>4. TokensAt(b, t) = IF Burst <= b.tokens + x THEN Burst ELSE b.tokens + x
  BY <1>1, <1>3, MinOfTwo DEF TokensAt, x
<1>5. TokensAt(b, t + 1) = IF Burst <= b.tokens + (x + Rate) THEN Burst ELSE b.tokens + (x + Rate)
  <2>1. TokensAt(b, t + 1) = Limit!Min({Burst, b.tokens + Rate * ((t + 1) - b.at)})
    BY DEF TokensAt
  <2>2. TokensAt(b, t + 1) = Limit!Min({Burst, b.tokens + (x + Rate)})  BY <1>2, <2>1, Zenon
  <2>3. Burst \in Int  BY <1>1
  <2> QED BY <2>2, <2>3, <1>3, MinOfTwo
<1>6. TokensAt(b, t) \in 0..Burst /\ TokensAt(b, t + 1) <= TokensAt(b, t) + Rate
  BY <1>1, <1>2, <1>4, <1>5
<1> QED BY <1>2, <1>4, <1>6 DEF x

LEMMA TokensPut ==
  ASSUME PartsAssumption, NEW x \in 0..Burst, NEW t \in Nat
  PROVE  TokensAt([tokens |-> x, at |-> t], t) = x
<1> DEFINE b == [tokens |-> x, at |-> t]
<1>1. b \in Bucket /\ b.at = t /\ b.tokens = x  BY DEF Bucket
<1>2. Rate * (t - t) = 0  BY DEF PartsAssumption
<1> HIDE DEF b
<1>3. TokensAt(b, t) = IF Burst <= x + 0 THEN Burst ELSE x + 0  BY <1>1, <1>2, TokensOf
<1>4. TokensAt(b, t) = x  BY <1>3 DEF PartsAssumption
<1> QED BY <1>4 DEF b

LEMMA TokensRefunded ==
  ASSUME PartsAssumption, NEW b \in Bucket, NEW t \in Nat, b.at <= t,
         NEW c, c = [b EXCEPT !.tokens = Limit!Min({Burst, @ + Cost})]
  PROVE  c \in Bucket /\ c.at = b.at /\ TokensAt(c, t) <= TokensAt(b, t) + Cost
<1>1. Burst \in Nat /\ Cost \in Nat /\ b.tokens \in 0..Burst /\ b.tokens + Cost \in Int
  BY DEF Bucket, PartsAssumption
<1>2. Limit!Min({Burst, b.tokens + Cost}) = IF Burst <= b.tokens + Cost THEN Burst ELSE b.tokens + Cost
  BY <1>1, MinOfTwo
<1>3. Limit!Min({Burst, b.tokens + Cost}) \in 0..Burst /\ Limit!Min({Burst, b.tokens + Cost}) <= b.tokens + Cost
  BY <1>1, <1>2
<1>4. c \in Bucket /\ c.at = b.at /\ c.tokens <= b.tokens + Cost
  BY <1>3 DEF Bucket
<1> DEFINE x == Rate * (t - b.at)
<1>5. x \in Nat /\ TokensAt(b, t) = (IF Burst <= b.tokens + x THEN Burst ELSE b.tokens + x)
      /\ TokensAt(c, t) = (IF Burst <= c.tokens + x THEN Burst ELSE c.tokens + x)
  BY <1>4, TokensOf
<1> HIDE DEF x
<1>6. c.tokens \in Nat /\ b.tokens \in Nat  BY <1>4 DEF Bucket
<1>7. TokensAt(c, t) <= TokensAt(b, t) + Cost
  BY <1>1, <1>4, <1>5, <1>6
<1> QED BY <1>4, <1>7

LEMMA CountsType ==
  ASSUME PartsAssumption, NEW tab, sec \in Nat, TableOf(tab), NEW k
  PROVE  Counts(tab, k, sec) \in 0..Burst
<1>1. CASE k \in DOMAIN tab  BY <1>1, TokensOf DEF TableOf, Counts
<1>2. CASE k \notin DOMAIN tab  BY <1>2 DEF Counts, PartsAssumption
<1> QED BY <1>1, <1>2

\* The sweep takes nothing from anybody.
LEMMA KeptIs ==
  ASSUME PartsAssumption, TableIsTyped
  PROVE  /\ TableOf(Limit!Kept) /\ DOMAIN Limit!Kept \subseteq DOMAIN keys
         /\ \A k : Counts(Limit!Kept, k, sec) = Counts(keys, k, sec)
         /\ \A k : Limit!Held(k) = Counts(keys, k, sec)
<1>1. \A k : Limit!Tokens(k) = TokensAt(keys[k], sec)  BY DEF Limit!Tokens, TokensAt
<1>2. TableOf(keys) /\ sec \in Nat  BY DEF TableIsTyped
<1>3. /\ DOMAIN Limit!Kept \subseteq DOMAIN keys
      /\ \A k \in DOMAIN Limit!Kept : Limit!Kept[k] = keys[k]
      /\ \A k \in DOMAIN keys \ DOMAIN Limit!Kept : Limit!Tokens(k) >= Burst
  <2>1. CASE sec - swept < Limit!Minute  BY <2>1 DEF Limit!Kept
  <2>2. CASE ~(sec - swept < Limit!Minute)
    <3> DEFINE S == DOMAIN keys \ Limit!Idle
    <3>1. Limit!Kept = [k \in S |-> keys[k]]  BY <2>2 DEF Limit!Kept, Limit!Restrict
    <3>2. \A k \in DOMAIN keys \ S : Limit!Tokens(k) >= Burst  BY DEF Limit!Idle
    <3> QED BY <3>1, <3>2
  <2> QED BY <2>1, <2>2
<1>4. TableOf(Limit!Kept)  BY <1>2, <1>3 DEF TableOf
<1>5. \A k \in DOMAIN keys : TokensAt(keys[k], sec) \in 0..Burst
  BY <1>2, TokensOf DEF TableOf
<1>6. \A k \in DOMAIN keys \ DOMAIN Limit!Kept : TokensAt(keys[k], sec) = Burst
  BY <1>1, <1>3, <1>5 DEF PartsAssumption
<1>7. \A k : Counts(Limit!Kept, k, sec) = Counts(keys, k, sec)
  BY <1>3, <1>6 DEF Counts
<1>8. \A k : Limit!Held(k) = Counts(Limit!Kept, k, sec)
  BY <1>1, <1>3 DEF Limit!Held, Counts
<1> QED BY <1>3, <1>4, <1>7, <1>8

LEMMA PutDoes ==
  ASSUME PartsAssumption, TableIsTyped, NEW k \in Keys, NEW x \in 0..Burst, Limit!Put(k, x)
  PROVE  /\ TableOf(keys') /\ Counts(keys', k, sec) = x
         /\ \A j : j # k => Counts(keys', j, sec) = Counts(keys, j, sec)
<1> DEFINE D == DOMAIN Limit!Kept \cup {k}
<1>1. keys' = [j \in D |-> IF j = k THEN [tokens |-> x, at |-> sec] ELSE Limit!Kept[j]]
  BY DEF Limit!Put
<1>2. TableOf(Limit!Kept) /\ sec \in Nat  BY KeptIs DEF TableIsTyped
<1>3. [tokens |-> x, at |-> sec] \in Bucket  BY <1>2 DEF Bucket
<1>4. TableOf(keys')  BY <1>1, <1>2, <1>3 DEF TableOf
<1>5. Counts(keys', k, sec) = x  BY <1>1, <1>2, TokensPut DEF Counts
<1>6. \A j : j # k => Counts(keys', j, sec) = Counts(Limit!Kept, j, sec)
  BY <1>1 DEF Counts
<1> QED BY <1>4, <1>5, <1>6, KeptIs

\* What an action does to one address, in what is kept of it: it pays for what it
\* is granted, and what it gets back was returned.
LEMMA AddressIsKept ==
  ASSUME PartsAssumption, LimitInv, NEW k \in Keys
  PROVE  /\ Counts(keys, k, sec) \in 0..Burst
         /\ granted[k] \in Nat /\ returned[k] \in Nat /\ trying[k] \in Nat
         /\ Cost * granted[k] \in Nat /\ Cost * returned[k] \in Nat /\ Rate * (sec - since) \in Nat
         /\ Cost * (granted[k] + 1) = Cost * granted[k] + Cost
         /\ Cost * (returned[k] + 1) = Cost * returned[k] + Cost
         /\ Cost * granted[k] + Counts(keys, k, sec)
              <= Burst + Rate * (sec - since) + Cost * returned[k]
<1>1. TableIsTyped  BY DEF LimitInv
<1>2. /\ granted[k] \in Nat /\ returned[k] \in Nat /\ trying[k] \in Nat
      /\ sec - since \in Nat /\ sec \in Nat /\ TableOf(keys)
  BY <1>1 DEF TableIsTyped
<1>3. Counts(keys, k, sec) \in 0..Burst  BY <1>2, CountsType
<1>4. \A n \in Nat : Cost * n \in Nat /\ Rate * n \in Nat /\ Cost * (n + 1) = Cost * n + Cost
  BY DEF PartsAssumption
<1> QED BY <1>2, <1>3, <1>4 DEF LimitInv, TokensAreKept

LEMMA AllowKeeps ==
  ASSUME PartsAssumption, LimitInv, NEW k \in Keys, Limit!Allow(k)  PROVE LimitInv'
<1>1. TableIsTyped  BY DEF LimitInv
<1>2. /\ Limit!Put(k, Limit!Held(k) - Cost) /\ Limit!Held(k) >= Cost
      /\ granted' = [granted EXCEPT ![k] = @ + 1] /\ trying' = [trying EXCEPT ![k] = @ + 1]
      /\ UNCHANGED <<sec, since, returned>>
  BY DEF Limit!Allow
<1>3. Limit!Held(k) = Counts(keys, k, sec) /\ Limit!Held(k) \in 0..Burst
  BY <1>1, KeptIs, AddressIsKept
<1>4. Limit!Held(k) - Cost \in 0..Burst  BY <1>2, <1>3 DEF PartsAssumption
<1>5. /\ TableOf(keys') /\ Counts(keys', k, sec) = Counts(keys, k, sec) - Cost
      /\ \A j : j # k => Counts(keys', j, sec) = Counts(keys, j, sec)
  BY <1>1, <1>2, <1>3, <1>4, PutDoes
<1>6. TableIsTyped'
  <2>1. (TableOf(keys))'  BY <1>2, <1>5 DEF TableOf
  <2> QED BY <1>1, <1>2, <2>1 DEF TableIsTyped
<1>7. ASSUME NEW j \in Keys
      PROVE  Cost * granted'[j] + Counts(keys', j, sec)
               <= Burst + Rate * (sec - since) + Cost * returned[j]
  <2>1. CASE j # k
    <3>1. granted'[j] = granted[j]  BY <1>1, <1>2, <2>1 DEF TableIsTyped
    <3> QED BY <3>1, <2>1, <1>5, AddressIsKept
  <2>2. CASE j = k
    <3>1. granted'[k] = granted[k] + 1  BY <1>1, <1>2 DEF TableIsTyped
    <3> DEFINE x == Cost * granted[k]
               c == Counts(keys, k, sec)
               y == Burst + Rate * (sec - since) + Cost * returned[k]
    <3>2. x \in Nat /\ c \in 0..Burst /\ y \in Int /\ x + c <= y /\ Cost * (granted[k] + 1) = x + Cost
      BY AddressIsKept DEF PartsAssumption
    <3>3. Cost \in Nat /\ Burst \in Nat  BY DEF PartsAssumption
    <3> HIDE DEF x, c, y
    <3>4. (x + Cost) + (c - Cost) <= y  BY <3>2, <3>3
    <3>5. Cost * granted'[k] = x + Cost /\ Counts(keys', k, sec) = c - Cost
      BY <3>1, <3>2, <1>5 DEF c
    <3>6. Cost * granted'[k] + Counts(keys', k, sec) <= y  BY <3>4, <3>5
    <3> QED BY <3>6, <2>2 DEF y
  <2> QED BY <2>1, <2>2
<1>8. TokensAreKept'  BY <1>2, <1>7 DEF TokensAreKept, Counts
<1> QED BY <1>6, <1>8 DEF LimitInv

LEMMA RefuseKeeps ==
  ASSUME PartsAssumption, LimitInv, NEW k \in Keys, Limit!Refuse(k)  PROVE LimitInv'
<1>1. TableIsTyped  BY DEF LimitInv
<1>2. UNCHANGED <<sec, since, granted, returned, trying>>  BY DEF Limit!Refuse
<1>3. TableOf(keys') /\ \A j \in Keys : Counts(keys', j, sec) = Counts(keys, j, sec)
  <2>1. CASE Limit!Room(k)
    <3>1. Limit!Put(k, Limit!Held(k))  BY <2>1 DEF Limit!Refuse
    <3>2. Limit!Held(k) = Counts(keys, k, sec) /\ Limit!Held(k) \in 0..Burst
      BY <1>1, KeptIs, AddressIsKept
    <3> QED BY <3>1, <3>2, <1>1, PutDoes
  <2>2. CASE ~Limit!Room(k)
    <3>1. keys' = Limit!Kept  BY <2>2 DEF Limit!Refuse
    <3> QED BY <3>1, <1>1, KeptIs
  <2> QED BY <2>1, <2>2
<1>4. TableIsTyped'
  <2>1. (TableOf(keys))'  BY <1>2, <1>3 DEF TableOf
  <2> QED BY <1>1, <1>2, <2>1 DEF TableIsTyped
<1>5. \A j \in Keys : Cost * granted[j] + Counts(keys', j, sec)
                        <= Burst + Rate * (sec - since) + Cost * returned[j]
  BY <1>3, AddressIsKept
<1>6. TokensAreKept'  BY <1>2, <1>5 DEF TokensAreKept, Counts
<1> QED BY <1>4, <1>6 DEF LimitInv

LEMMA RefundKeeps ==
  ASSUME PartsAssumption, LimitInv, NEW k \in Keys, Limit!Refund(k)  PROVE LimitInv'
<1>1. TableIsTyped  BY DEF LimitInv
<1>2. /\ returned' = [returned EXCEPT ![k] = @ + 1] /\ UNCHANGED <<sec, since, granted>>
      /\ trying[k] > 0 /\ trying' = [trying EXCEPT ![k] = @ - 1]
      /\ keys' = IF k \in DOMAIN keys
                 THEN [keys EXCEPT ![k].tokens = Limit!Min({Burst, @ + Cost})] ELSE keys
  BY DEF Limit!Refund
<1>3. /\ TableOf(keys') /\ Counts(keys', k, sec) <= Counts(keys, k, sec) + Cost
      /\ \A j : j # k => Counts(keys', j, sec) = Counts(keys, j, sec)
  <2>1. CASE k \in DOMAIN keys
    <3> DEFINE b == keys[k]
               c == [b EXCEPT !.tokens = Limit!Min({Burst, @ + Cost})]
    <3>1. b \in Bucket /\ b.at <= sec /\ sec \in Nat  BY <1>1, <2>1 DEF TableIsTyped, TableOf
    <3>2. c \in Bucket /\ c.at = b.at /\ TokensAt(c, sec) <= TokensAt(b, sec) + Cost
      BY <3>1, TokensRefunded
    <3>3. DOMAIN keys' = DOMAIN keys /\ keys'[k] = c /\ \A j \in DOMAIN keys : j # k => keys'[j] = keys[j]
      BY <1>2, <2>1
    <3> HIDE DEF c
    <3>4. TableOf(keys')  BY <1>1, <3>1, <3>2, <3>3 DEF TableIsTyped, TableOf
    <3> QED BY <2>1, <3>2, <3>3, <3>4 DEF Counts
  <2>2. CASE k \notin DOMAIN keys
    <3>1. keys' = keys  BY <1>2, <2>2
    <3>2. Counts(keys, k, sec) <= Counts(keys, k, sec) + Cost
      BY AddressIsKept DEF PartsAssumption
    <3> QED BY <3>1, <3>2, <1>1 DEF TableIsTyped
  <2> QED BY <2>1, <2>2
<1>4. TableIsTyped'
  <2>1. (TableOf(keys))'  BY <1>2, <1>3 DEF TableOf
  <2> QED BY <1>1, <1>2, <2>1 DEF TableIsTyped
<1>5. ASSUME NEW j \in Keys
      PROVE  Cost * granted[j] + Counts(keys', j, sec)
               <= Burst + Rate * (sec - since) + Cost * returned'[j]
  <2>1. CASE j # k
    <3>1. returned'[j] = returned[j]  BY <1>1, <1>2, <2>1 DEF TableIsTyped
    <3> QED BY <3>1, <2>1, <1>3, AddressIsKept
  <2>2. CASE j = k
    <3>1. returned'[k] = returned[k] + 1  BY <1>1, <1>2 DEF TableIsTyped
    <3> DEFINE x == Cost * granted[k]
               c == Counts(keys, k, sec)
               d == Counts(keys', k, sec)
               r == Cost * returned[k]
               y == Rate * (sec - since)
    <3>2. x \in Nat /\ c \in 0..Burst /\ y \in Nat /\ r \in Nat /\ x + c <= Burst + y + r
          /\ Cost * (returned[k] + 1) = r + Cost
      BY AddressIsKept
    <3>3. Cost \in Nat /\ Burst \in Nat  BY DEF PartsAssumption
    <3>4. d \in 0..Burst
      <4>1. sec \in Nat  BY <1>1 DEF TableIsTyped
      <4> QED BY <1>3, <4>1, CountsType
    <3>5. d <= c + Cost  BY <1>3
    <3> HIDE DEF x, c, d, r, y
    <3>6. x + d <= Burst + y + (r + Cost)  BY <3>2, <3>3, <3>4, <3>5
    <3>7. Cost * returned'[k] = r + Cost  BY <3>1, <3>2
    <3>8. x + d <= Burst + y + Cost * returned'[k]  BY <3>6, <3>7
    <3> QED BY <3>8, <2>2 DEF x, d, y
  <2> QED BY <2>1, <2>2
<1>6. TokensAreKept'  BY <1>2, <1>5 DEF TokensAreKept, Counts
<1> QED BY <1>4, <1>6 DEF LimitInv

LEMMA TickKeeps ==
  ASSUME PartsAssumption, LimitInv, Limit!Tick  PROVE LimitInv'
<1>1. TableIsTyped  BY DEF LimitInv
<1>2. sec' = sec + 1 /\ UNCHANGED <<keys, swept, trying, since, granted, returned>>
  BY DEF Limit!Tick
<1>3. TableIsTyped'
  <2>1. TableOf(keys) /\ sec \in Nat  BY <1>1 DEF TableIsTyped
  <2>2. (TableOf(keys))'
    <3>1. \A k \in DOMAIN keys : keys[k] \in Bucket /\ keys[k].at \in Nat /\ keys[k].at <= sec
      BY <2>1 DEF TableOf, Bucket
    <3>2. \A k \in DOMAIN keys : keys[k].at <= sec + 1  BY <2>1, <3>1
    <3> QED BY <1>2, <2>1, <3>1, <3>2 DEF TableOf
  <2> QED BY <1>1, <1>2, <2>2 DEF TableIsTyped
<1>4. ASSUME NEW k \in Keys PROVE Counts(keys, k, sec + 1) <= Counts(keys, k, sec) + Rate
  <2>1. CASE k \in DOMAIN keys
    <3>1. keys[k] \in Bucket /\ keys[k].at <= sec /\ sec \in Nat
      BY <1>1, <2>1 DEF TableIsTyped, TableOf
    <3> QED BY <2>1, <3>1, TokensOf DEF Counts
  <2>2. CASE k \notin DOMAIN keys  BY <2>2 DEF Counts, PartsAssumption
  <2> QED BY <2>1, <2>2
<1>5. Rate * (sec' - since) = Rate * (sec - since) + Rate
  <2>1. \A n \in Nat : Rate * (n + 1) = Rate * n + Rate  BY DEF PartsAssumption
  <2>2. sec - since \in Nat /\ sec' - since = (sec - since) + 1  BY <1>1, <1>2 DEF TableIsTyped
  <2> QED BY <2>1, <2>2
<1>6. ASSUME NEW k \in Keys
      PROVE  Cost * granted[k] + Counts(keys, k, sec')
               <= Burst + Rate * (sec' - since) + Cost * returned[k]
  <2> DEFINE x == Cost * granted[k]
             c == Counts(keys, k, sec)
             d == Counts(keys, k, sec')
             r == Cost * returned[k]
             y == Rate * (sec - since)
  <2>1. x \in Nat /\ c \in 0..Burst /\ y \in Nat /\ r \in Nat /\ x + c <= Burst + y + r
    BY AddressIsKept
  <2>2. Rate \in Nat /\ Burst \in Nat  BY DEF PartsAssumption
  <2>3. d <= c + Rate  BY <1>2, <1>4
  <2>4. d \in 0..Burst
    <3>1. TableOf(keys) /\ sec \in Nat  BY <1>1 DEF TableIsTyped
    <3>2. (TableOf(keys))' /\ sec' \in Nat  BY <1>3 DEF TableIsTyped
    <3>3. CASE k \in DOMAIN keys
      <4>1. keys[k] \in Bucket /\ keys[k].at <= sec'  BY <1>2, <3>2, <3>3 DEF TableOf
      <4> QED BY <4>1, <3>2, <3>3, TokensOf DEF Counts
    <3>4. CASE k \notin DOMAIN keys  BY <3>4, <2>2 DEF Counts
    <3> QED BY <3>3, <3>4
  <2> HIDE DEF x, c, d, r, y
  <2>5. x + d <= Burst + (y + Rate) + r  BY <2>1, <2>2, <2>3, <2>4
  <2>6. Rate * (sec' - since) = y + Rate  BY <1>5 DEF y
  <2> QED BY <2>5, <2>6 DEF x, d, r
<1>7. TokensAreKept'  BY <1>2, <1>6 DEF TokensAreKept
<1> QED BY <1>3, <1>7 DEF LimitInv

LEMMA WatchKeeps ==
  ASSUME PartsAssumption, LimitInv, Limit!Watch  PROVE LimitInv'
<1>1. TableIsTyped  BY DEF LimitInv
<1>2. /\ since' = sec /\ granted' = [k \in Keys |-> 0] /\ returned' = granted'
      /\ UNCHANGED <<sec, keys, swept, trying>>
  BY DEF Limit!Watch
<1>3. TableIsTyped'
  <2>1. (TableOf(keys))'  BY <1>1, <1>2 DEF TableIsTyped, TableOf
  <2> QED BY <1>1, <1>2, <2>1 DEF TableIsTyped
<1>4. sec - sec = 0 /\ Rate * 0 = 0 /\ Cost * 0 = 0 /\ Burst \in Nat
  BY <1>1 DEF TableIsTyped, PartsAssumption
<1>5. ASSUME NEW k \in Keys
      PROVE  Cost * granted'[k] + Counts(keys, k, sec)
               <= Burst + Rate * (sec - since') + Cost * returned'[k]
  <2>1. Counts(keys, k, sec) \in 0..Burst  BY AddressIsKept
  <2>2. Cost * granted'[k] = 0 /\ Cost * returned'[k] = 0 /\ Rate * (sec - since') = 0
    BY <1>2, <1>4
  <2>3. 0 + Counts(keys, k, sec) <= Burst + 0 + 0  BY <2>1, <1>4
  <2> QED BY <2>2, <2>3
<1>6. TokensAreKept'  BY <1>2, <1>5 DEF TokensAreKept, Counts
<1> QED BY <1>3, <1>6 DEF LimitInv

LEMMA LimitStep == PartsAssumption /\ LimitInv /\ [Limit!Next]_(Limit!vars) => LimitInv'
<1> SUFFICES ASSUME PartsAssumption, LimitInv, [Limit!Next]_(Limit!vars) PROVE LimitInv'
  OBVIOUS
<1>1. ASSUME NEW k \in Keys, Limit!Wrong(k) PROVE LimitInv'
  <2>1. /\ trying[k] > 0 /\ trying' = [trying EXCEPT ![k] = @ - 1]
        /\ UNCHANGED <<sec, keys, since, granted, returned>>
    BY <1>1 DEF Limit!Wrong
  <2>2. (TableOf(keys))'  BY <2>1 DEF LimitInv, TableIsTyped, TableOf
  <2>3. TableIsTyped'  BY <2>1, <2>2 DEF LimitInv, TableIsTyped
  <2>4. TokensAreKept'  BY <2>1 DEF LimitInv, TokensAreKept, Counts
  <2> QED BY <2>3, <2>4 DEF LimitInv
<1>2. CASE UNCHANGED Limit!vars
  <2>1. UNCHANGED <<sec, keys, trying, since, granted, returned>>  BY <1>2 DEF Limit!vars
  <2>2. (TableOf(keys))'  BY <2>1 DEF LimitInv, TableIsTyped, TableOf
  <2>3. TableIsTyped'  BY <2>1, <2>2 DEF LimitInv, TableIsTyped
  <2>4. TokensAreKept'  BY <2>1 DEF LimitInv, TokensAreKept, Counts
  <2> QED BY <2>3, <2>4 DEF LimitInv
<1> QED BY <1>1, <1>2, AllowKeeps, RefuseKeeps, RefundKeeps, TickKeeps, WatchKeeps DEF Limit!Next

\* Nobody gets more attempts than the bucket allows, for any burst, cost and rate
\* and any size of the table (allow, refund, sweep).
THEOREM AttemptsAreLimited == Limit!Spec => []Limit!LimitHolds
<1>1. PartsAssumption /\ Limit!Init => LimitInv
  <2> SUFFICES ASSUME PartsAssumption, Limit!Init PROVE LimitInv
    OBVIOUS
  <2>1. /\ sec = 0 /\ since = 0 /\ keys = << >> /\ trying = [k \in Keys |-> 0]
        /\ granted = trying /\ returned = trying
    BY DEF Limit!Init
  <2>2. TableIsTyped  BY <2>1 DEF TableIsTyped, TableOf
  <2>3. Rate * 0 = 0 /\ Cost * 0 = 0 /\ Burst \in Nat  BY DEF PartsAssumption
  <2>4. ASSUME NEW k \in Keys
        PROVE  Cost * granted[k] + Counts(keys, k, sec)
                 <= Burst + Rate * (sec - since) + Cost * returned[k]
    <3>1. Counts(keys, k, sec) = Burst  BY <2>1 DEF Counts
    <3>2. granted[k] = 0 /\ returned[k] = 0 /\ sec - since = 0  BY <2>1
    <3>3. 0 + Burst <= Burst + 0 + 0  BY <2>3
    <3> QED BY <2>3, <3>1, <3>2, <3>3
  <2> QED BY <2>2, <2>4 DEF LimitInv, TokensAreKept
<1>2. PartsAssumption /\ LimitInv => Limit!LimitHolds
  <2> SUFFICES ASSUME PartsAssumption, LimitInv, NEW k \in Keys
      PROVE  Cost * granted[k] <= Burst + Rate * (sec - since) + Cost * returned[k]
    BY DEF Limit!LimitHolds
  <2> DEFINE x == Cost * granted[k]
             c == Counts(keys, k, sec)
             y == Burst + Rate * (sec - since) + Cost * returned[k]
  <2>1. x \in Nat /\ c \in 0..Burst /\ y \in Int /\ x + c <= y /\ Burst \in Nat
    BY AddressIsKept DEF PartsAssumption
  <2> HIDE DEF x, c, y
  <2>2. x <= y  BY <2>1
  <2> QED BY <2>2 DEF x, y
<1> QED BY <1>1, <1>2, LimitStep, PartsAssumption, PTL DEF Limit!Spec

-----------------------------------------------------------------------------
(***************************************************************************)
(* The decimation (Filter)                                                 *)
(***************************************************************************)
\* The longest that an output waits where nothing is lost.
Wait == Interval + Period + Jitter
Before(e) == (e - 1) * Period

\* What was passed last was not long before the last epoch, and what was queued
\* last was not longer before it than the losses in between account for.
Paced ==
  /\ epoch \in Nat /\ lost \in Nat /\ passed \in Int /\ given \in Int
  /\ passed >= -1 /\ given >= -1
  /\ gap.time \in Int /\ gap.lost \in Nat
  /\ passed # -1 => (epoch - 1) * Period < passed + Interval
  /\ given # -1 => passed # -1 /\ given <= passed /\ passed <= given + lost * Wait
  /\ gap.time >= Interval /\ gap.time < (gap.lost + 1) * Wait

LEMMA Products ==
  ASSUME PartsAssumption
  PROVE  /\ Wait \in Nat /\ Wait > 0 /\ Wait >= Interval
         /\ \A n \in Nat : n * Wait \in Nat /\ (n + 1) * Wait = n * Wait + Wait
         /\ \A e \in Nat : e * Period \in Nat /\ (e - 1) * Period = e * Period - Period
BY DEF PartsAssumption, Wait

LEMMA PassedInTime ==
  ASSUME PartsAssumption, Paced, NEW at \in Decim!Times, Decim!Due(at)
  PROVE  /\ at \in Nat /\ epoch * Period <= at
         /\ passed # -1 => passed + Interval <= at /\ at < passed + Wait
<1>1. /\ epoch \in Nat /\ epoch * Period \in Nat /\ (epoch - 1) * Period = epoch * Period - Period
      /\ Interval \in Nat /\ Period \in Nat /\ Jitter \in Nat /\ passed \in Int
  BY Products DEF Paced, PartsAssumption
<1>2. at \in Int /\ epoch * Period <= at /\ at <= epoch * Period + Jitter
  BY <1>1 DEF Decim!Times
<1>3. passed # -1 => at - passed >= Interval  BY DEF Decim!Due
<1>4. passed # -1 => (epoch - 1) * Period < passed + Interval  BY DEF Paced
<1> DEFINE x == epoch * Period
           y == (epoch - 1) * Period
<1>5. x \in Nat /\ y = x - Period /\ x <= at /\ at <= x + Jitter
      /\ (passed # -1 => y < passed + Interval)
  BY <1>1, <1>2, <1>4
<1> HIDE DEF x, y
<1>6. at \in Nat /\ (passed # -1 => passed + Interval <= at /\ at < passed + Interval + Period + Jitter)
  BY <1>1, <1>2, <1>3, <1>5
<1>7. Wait = Interval + Period + Jitter  BY DEF Wait
<1>8. passed # -1 => passed + Interval <= at /\ at < passed + Wait  BY <1>1, <1>6, <1>7
<1> QED BY <1>2, <1>6, <1>8

LEMMA DecimStep == PartsAssumption /\ Paced /\ [Decim!Next]_(Decim!vars) => Paced'
<1> SUFFICES ASSUME PartsAssumption, Paced, [Decim!Next]_(Decim!vars) PROVE Paced'
  OBVIOUS
<1> DEFINE x == epoch * Period
           w == lost * Wait
<1>1. /\ Wait \in Nat /\ Wait >= Interval /\ x \in Nat /\ w \in Nat
      /\ (lost + 1) * Wait = w + Wait
      /\ epoch \in Nat /\ lost \in Nat /\ passed \in Int /\ given \in Int
      /\ Interval \in Nat /\ Interval > 0 /\ passed >= -1 /\ given >= -1
  <2>1. /\ epoch \in Nat /\ lost \in Nat /\ passed \in Int /\ given \in Int
        /\ Interval \in Nat /\ Interval > 0 /\ passed >= -1 /\ given >= -1
    BY DEF Paced, PartsAssumption
  <2> QED BY <2>1, Products
<1>2. given # -1 => passed # -1 /\ given <= passed /\ passed <= given + w
  BY DEF Paced
<1>3. Decim!NextEpoch => epoch' \in Nat /\ (epoch' - 1) * Period = x
  BY <1>1 DEF Decim!NextEpoch
<1> HIDE DEF x, w
<1>4. CASE Decim!Withhold
  <2>1. Decim!NextEpoch /\ UNCHANGED <<passed, given, lost, gap>>
    BY <1>4 DEF Decim!Withhold
  <2>2. PICK at \in Decim!Times : ~Decim!Due(at)
    BY <1>4 DEF Decim!Withhold
  <2>3. x <= at /\ at \in Int
    BY <1>1, <2>2 DEF Decim!Times, x, PartsAssumption
  <2>4. at - passed < Interval  BY <1>1, <2>2, <2>3 DEF Decim!Due
  <2>5. x < passed + Interval  BY <1>1, <2>3, <2>4
  <2> QED BY <2>1, <2>5, <1>3 DEF Paced
<1>5. CASE Decim!PassQueued
  <2>1. PICK at \in Decim!Times : /\ Decim!Due(at) /\ passed' = at /\ given' = at
                       /\ gap' = IF given = -1 THEN gap ELSE [time |-> at - given, lost |-> lost]
    BY <1>5 DEF Decim!PassQueued
  <2>2. Decim!NextEpoch /\ lost' = 0  BY <1>5 DEF Decim!PassQueued
  <2>3. at \in Nat /\ x <= at /\ (passed # -1 => passed + Interval <= at /\ at < passed + Wait)
    BY <2>1, PassedInTime DEF x
  <2>4. gap'.time \in Int /\ gap'.lost \in Nat /\ gap'.time >= Interval /\ gap'.time < (gap'.lost + 1) * Wait
    <3>1. CASE given = -1  BY <3>1, <2>1 DEF Paced
    <3>2. CASE given # -1
      <4>1. gap'.time = at - given /\ gap'.lost = lost  BY <3>2, <2>1
      <4>2. at - given \in Int /\ at - given >= Interval /\ at - given < w + Wait
        BY <3>2, <1>1, <1>2, <2>3
      <4> QED BY <4>1, <4>2, <1>1
    <3> QED BY <3>1, <3>2
  <2>5. 0 * Wait = 0  BY <1>1
  <2>6. passed' = at /\ given' = at /\ x < at + Interval /\ at <= at + lost' * Wait
    BY <1>1, <2>1, <2>2, <2>3, <2>5
  <2> QED BY <1>1, <1>3, <2>2, <2>3, <2>4, <2>6 DEF Paced
<1>6. CASE Decim!PassLost
  <2>1. PICK at \in Decim!Times : Decim!Due(at) /\ passed' = at
    BY <1>6 DEF Decim!PassLost
  <2>2. Decim!NextEpoch /\ lost' = lost + 1 /\ UNCHANGED <<given, gap>>  BY <1>6 DEF Decim!PassLost
  <2>3. at \in Nat /\ x <= at /\ (passed # -1 => passed + Interval <= at /\ at < passed + Wait)
    BY <2>1, PassedInTime DEF x
  <2>4. x < at + Interval  BY <1>1, <2>3
  <2>5. lost' * Wait = w + Wait  BY <1>1, <2>2
  <2>6. given # -1 => given <= at /\ at <= given + (w + Wait)
    BY <1>1, <1>2, <2>3
  <2>7. lost' \in Nat  BY <1>1, <2>2
  <2> QED BY <1>1, <1>3, <2>1, <2>2, <2>3, <2>4, <2>5, <2>6, <2>7 DEF Paced
<1>7. CASE UNCHANGED Decim!vars
  BY <1>7 DEF Decim!vars, Paced
<1> QED BY <1>4, <1>5, <1>6, <1>7 DEF Decim!Next

LEMMA PacedKeepsPace == PartsAssumption /\ Paced => Decim!KeepsPace
<1> SUFFICES ASSUME PartsAssumption, Paced PROVE Decim!KeepsPace
  OBVIOUS
<1> DEFINE x == (epoch - 1) * Period
           w == lost * Wait
<1>1. /\ Wait \in Nat /\ Wait >= Interval /\ x \in Int /\ w \in Nat
      /\ (lost + 1) * Wait = w + Wait
      /\ passed \in Int /\ given \in Int /\ Interval \in Nat
      /\ (given # -1 => passed # -1 /\ passed <= given + w /\ x < passed + Interval)
  <2>1. epoch \in Nat /\ lost \in Nat /\ passed \in Int /\ given \in Int /\ Interval \in Nat
    BY DEF Paced, PartsAssumption
  <2>2. /\ Wait \in Nat /\ Wait >= Interval /\ w \in Nat /\ (lost + 1) * Wait = w + Wait
        /\ epoch * Period \in Nat /\ x = epoch * Period - Period /\ Period \in Nat
    BY <2>1, Products DEF PartsAssumption
  <2>3. x \in Int  BY <2>2
  <2>4. given # -1 => passed # -1 /\ passed <= given + w /\ x < passed + Interval
    BY DEF Paced
  <2> QED BY <2>1, <2>2, <2>3, <2>4
<1> HIDE DEF x, w
<1>2. given # -1 => x - given < w + Wait  BY <1>1
<1>3. given # -1 => (epoch - 1) * Period - given < (lost + 1) * Wait
  BY <1>1, <1>2 DEF x
<1>4. gap.time >= Interval /\ gap.time < (gap.lost + 1) * Wait  BY DEF Paced
<1> QED BY <1>3, <1>4 DEF Decim!KeepsPace, Wait

\* The messages of a type keep the pace of its interval, late epochs and losses
\* accounted for (Filter.Apply).
THEOREM MessagesKeepPace == Decim!Spec => []Decim!KeepsPace
<1>1. Decim!Init => Paced
  <2> SUFFICES ASSUME Decim!Init PROVE Paced
    OBVIOUS
  <2>1. /\ epoch = 0 /\ passed = -1 /\ given = -1 /\ lost = 0
        /\ gap = [time |-> Interval, lost |-> 0]
    BY DEF Decim!Init
  <2>2. gap.time = Interval /\ gap.lost = 0 /\ Interval \in Nat
    BY PartsAssumption, <2>1 DEF PartsAssumption
  <2>3. Wait \in Nat /\ Interval < Wait
    BY PartsAssumption DEF PartsAssumption, Wait
  <2>4. (0 + 1) * Wait = Wait  BY <2>3
  <2> QED BY <2>1, <2>2, <2>3, <2>4 DEF Paced
<1>2. PartsAssumption /\ Paced => Decim!KeepsPace  BY PacedKeepsPace
<1> QED BY <1>1, <1>2, DecimStep, PartsAssumption, PTL DEF Decim!Spec

-----------------------------------------------------------------------------
(***************************************************************************)
(* All parts                                                               *)
(***************************************************************************)
\* One part moves, and the others stay as they are: what is proved of a part holds
\* of it among the others.
THEOREM PartsStandAlone ==
  PartsSpec => /\ Scan!Spec /\ Eph!Spec /\ Sync!Spec /\ Chart!Spec
               /\ Limit!Spec /\ Decim!Spec /\ Spec
<1>1. (PartsInit => Scan!Init) /\ ([PartsNext]_all => [Scan!Next]_(Scan!vars))
  BY DEF PartsInit, PartsNext, all, scanner, Scan!vars
<1>2. (PartsInit => Eph!Init) /\ ([PartsNext]_all => [Eph!Next]_(Eph!vars))
  BY DEF PartsInit, PartsNext, all, ephemeris, Eph!vars
<1>3. (PartsInit => Sync!Init) /\ ([PartsNext]_all => [Sync!Next]_(Sync!vars))
  BY DEF PartsInit, PartsNext, all, timesync, Sync!vars
<1>4. (PartsInit => Chart!Init) /\ ([PartsNext]_all => [Chart!Next]_(Chart!vars))
  BY DEF PartsInit, PartsNext, all, history, Chart!vars
<1>5. (PartsInit => Limit!Init) /\ ([PartsNext]_all => [Limit!Next]_(Limit!vars))
  BY DEF PartsInit, PartsNext, all, limiter, Limit!vars
<1>6. (PartsInit => Decim!Init) /\ ([PartsNext]_all => [Decim!Next]_(Decim!vars))
  BY DEF PartsInit, PartsNext, all, decimation, Decim!vars
<1>7. (PartsInit => Init) /\ ([PartsNext]_all => [Next]_vars)
  BY DEF PartsInit, PartsNext, all
<1> QED
  BY <1>1, <1>2, <1>3, <1>4, <1>5, <1>6, <1>7, PTL
  DEF PartsSpec, Scan!Spec, Eph!Spec, Sync!Spec, Chart!Spec, Limit!Spec, Decim!Spec, Spec

\* The frames of the stream, among the other parts.
THEOREM FramesStayExact == PartsSpec => []FramesAreExact
<1>1. Scan!FramesAreExact => FramesAreExact  BY DEF FramesAreExact
<1> QED BY <1>1, PartsStandAlone, FramesAreSplit, PTL

\* What the other parts send on, keep, show or grant.
THEOREM PartsStayFaithful == PartsSpec => []PartsAreFaithful
<1>1. /\ Eph!SentIsOneIssue /\ Sync!LateIsFirst /\ Chart!HistoryKept
      /\ Chart!ChartsAreComplete /\ Limit!LimitHolds /\ Decim!KeepsPace
      => PartsAreFaithful
  BY DEF PartsAreFaithful
<1> QED
  BY <1>1, PartsStandAlone, SetsAreOneIssue, SamplesAreFresh, HistoryIsKept, ChartsShowAll,
     AttemptsAreLimited, MessagesKeepPace, PTL
=============================================================================
