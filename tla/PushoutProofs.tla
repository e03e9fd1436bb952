---------------------------- MODULE PushoutProofs ----------------------------
(***************************************************************************)
(* Proofs about Pushout, for any finite set of targets, any handlers,      *)
(* addresses and passwords, and any bounds.                                *)
(***************************************************************************)
EXTENDS Pushout, FiniteSetTheorems, SequenceTheorems, TLAPS

USE PushoutAssumption DEF PushoutAssumption

-----------------------------------------------------------------------------
(***************************************************************************)
(* What kinds of steps there are                                           *)
(***************************************************************************)
\* The steps that touch neither the runners nor what Reload applied.
LEMMA RunnerSteps ==
  ASSUME [Next]_vars
  PROVE  \/ UNCHANGED <<map, run, applied>>
         \/ StopAll
         \/ \E p \in Procs : Apply(p)
         \/ \E i \in DOMAIN run : Runner(i)
BY DEF Next, vars, Manager, Handler, Tick, RemoteChanges, Shutdown, ReadFails, Submit, Save,
       RunStart, ReadTargets, Procs

\* The steps that touch neither the stored targets nor the clock.
LEMMA TableSteps ==
  ASSUME [Next]_vars
  PROVE  \/ UNCHANGED <<db, typed, second>>
         \/ Tick
         \/ \E h \in Handlers : Save(h)
BY DEF Next, vars, Manager, Handler, RemoteChanges, Shutdown, ReadFails, Submit,
       RunStart, ReadTargets, Apply, StopAll, Runner, Begin, Connect, SessionEnds, Retry, Go

\* The manager starts once, and once it is told to stop it stays stopped.
LEMMA CtxSteps ==
  ASSUME [Next]_vars
  PROVE  ctx' = ctx \/ RunStart \/ (ctx = "on" /\ ctx' = "done")
BY DEF Next, vars, Manager, Handler, Tick, RemoteChanges, Shutdown, ReadFails, Submit, Save,
       ReadTargets, Apply, StopAll, Runner, Begin, Connect, SessionEnds, Retry, Go

-----------------------------------------------------------------------------
(***************************************************************************)
(* Types                                                                   *)
(***************************************************************************)
Places == {"idle", "checked", "reload", "apply", "wait", "end"}
Record == [t : Targets, row : Rows, early : BOOLEAN, cancelled : BOOLEAN,
           pc : {"new", "dial", "stream", "wait", "end"}]

SmallType ==
  /\ second \in Seconds /\ ctx \in {"off", "on", "done"} /\ pc \in [Procs -> Places]
  /\ remote \in BOOLEAN /\ faults \in 0..MaxFaults

TableType ==
  /\ db \in Stored /\ form \in [Handlers -> [Targets -> Forms]] /\ seen \in [Procs -> Stored]
  /\ applied \in Stored
  /\ typed \in [at : Seconds, of : [Targets -> SUBSET (Passwords \cup {NoPw})]]

\* A target's index is that of a runner of its own, whose row is enabled.
RunnerType ==
  /\ map \in [Targets -> 0..Len(run)] /\ run \in Seq(Record)
  /\ \A t \in Targets : map[t] # 0 => run[map[t]].t = t /\ run[map[t]].row.on

LEMMA TypeParts == TypeOK <=> SmallType /\ TableType /\ RunnerType
  BY DEF TypeOK, SmallType, TableType, RunnerType, Places, Record

\* The manager that has not begun has no context.
NotBegun == pc[Run] = "idle" => ctx = "off"

TypeInv == TypeOK /\ NotBegun

LEMMA SmallStep ==
  ASSUME TypeInv, [Next]_vars  PROVE SmallType' /\ NotBegun'
<1>1. SmallType /\ NotBegun  BY TypeParts DEF TypeInv
<1>2. Run \in Procs /\ Handlers \subseteq Procs  BY DEF Procs
<1>3. CASE Tick \/ UNCHANGED vars
  BY <1>1, <1>3 DEF Tick, vars, SmallType, NotBegun, Seconds
<1>4. CASE RemoteChanges
  <2>1. remote' \in BOOLEAN  BY <1>4 DEF RemoteChanges
  <2> QED BY <1>1, <1>4, <2>1 DEF RemoteChanges, SmallType, NotBegun
<1>5. CASE Shutdown
  BY <1>1, <1>5 DEF Shutdown, SmallType, NotBegun
<1>6. CASE RunStart \/ StopAll
  BY <1>1, <1>2, <1>6 DEF RunStart, StopAll, SmallType, NotBegun, Places
<1>7. ASSUME NEW p \in Procs, ReadTargets(p) \/ ReadFails(p) \/ Apply(p)
      PROVE  SmallType' /\ NotBegun'
  <2>1. /\ pc[p] # "idle" /\ UNCHANGED <<second, ctx, remote>>
        /\ pc' = [pc EXCEPT ![p] = "apply"] \/ After(p)
    BY <1>7 DEF ReadTargets, ReadFails, Apply
  <2>2. faults' \in 0..MaxFaults
    <3>1. faults' = faults \/ (faults < MaxFaults /\ faults' = faults + 1)
      BY <1>7 DEF ReadTargets, ReadFails, Apply
    <3> QED BY <1>1, <3>1 DEF SmallType
  <2>3. pc' \in [Procs -> Places] /\ (pc'[Run] = "idle" => pc[Run] = "idle")
    BY <1>1, <1>2, <2>1 DEF After, SmallType, Places
  <2> QED BY <1>1, <2>1, <2>2, <2>3 DEF SmallType, NotBegun
<1>8. ASSUME NEW h \in Handlers, NEW f \in [Targets -> Forms], Submit(h, f)
      PROVE  SmallType' /\ NotBegun'
  BY <1>1, <1>2, <1>8 DEF Submit, SmallType, NotBegun, Places
<1>9. ASSUME NEW h \in Handlers, Save(h)  PROVE SmallType' /\ NotBegun'
  BY <1>1, <1>2, <1>9 DEF Save, SmallType, NotBegun, Places
<1>10. ASSUME NEW i \in DOMAIN run, Runner(i)  PROVE SmallType' /\ NotBegun'
  BY <1>1, <1>10 DEF Runner, Begin, Connect, SessionEnds, Retry, Go, SmallType, NotBegun
<1> QED BY <1>2, <1>3, <1>4, <1>5, <1>6, <1>7, <1>8, <1>9, <1>10 DEF Next, Manager, Handler

\* What a save stores for a target.
LEMMA RowType ==
  ASSUME TypeInv, NEW t \in Targets, NEW f \in Forms
  PROVE  Row(t, f) \in Rows \cup {Absent}
<1>1. db[t] \in Rows \cup {Absent} /\ second \in Seconds
  BY TypeParts DEF TypeInv, TableType, SmallType, Stored
<1>2. CASE f = Absent  BY <1>2 DEF Row
<1>3. CASE f # Absent
  <2>1. f \in [on : BOOLEAN, addr : Addrs, pw : Passwords \cup {NoPw}]  BY <1>3 DEF Forms
  <2>2. (IF f.pw = NoPw /\ db[t] # Absent THEN db[t].pw ELSE f.pw) \in Passwords \cup {NoPw}
    BY <1>1, <2>1 DEF Rows
  <2> QED BY <1>1, <1>3, <2>1, <2>2 DEF Row, Rows
<1> QED BY <1>2, <1>3

LEMMA NothingType == Nothing \in Stored /\ Nothing \in [Targets -> Forms]
  BY DEF Nothing, Stored, Forms

LEMMA TableStep ==
  ASSUME TypeInv, [Next]_vars  PROVE TableType'
<1>1. TableType /\ SmallType  BY TypeParts DEF TypeInv
<1>2. Run \in Procs /\ Handlers \subseteq Procs  BY DEF Procs
<1>3. CASE Tick \/ RemoteChanges \/ Shutdown \/ RunStart \/ StopAll \/ UNCHANGED vars
  BY <1>1, <1>3 DEF Tick, RemoteChanges, Shutdown, RunStart, StopAll, vars, TableType
<1>4. ASSUME NEW p \in Procs, ReadTargets(p) \/ ReadFails(p)  PROVE TableType'
  BY <1>1, <1>4 DEF ReadTargets, ReadFails, TableType
<1>5. ASSUME NEW p \in Procs, Apply(p)  PROVE TableType'
  <2>1. seen' \in [Procs -> Stored]  BY <1>1, <1>5, NothingType DEF Apply, TableType
  <2>2. applied' = applied \/ applied' = seen[p]  BY <1>5 DEF Apply
  <2>3. UNCHANGED <<db, form, typed>>  BY <1>5 DEF Apply
  <2> QED BY <1>1, <2>1, <2>2, <2>3 DEF TableType
<1>6. ASSUME NEW h \in Handlers, NEW f \in [Targets -> Forms], Submit(h, f)
      PROVE  TableType'
  BY <1>1, <1>6 DEF Submit, TableType
<1>7. ASSUME NEW h \in Handlers, Save(h)  PROVE TableType'
  <2>1. form[h] \in [Targets -> Forms]  BY <1>1 DEF TableType
  <2>2. \A t \in Targets : Row(t, form[h][t]) \in Rows \cup {Absent}
    BY <2>1, RowType
  <2>3. db' \in Stored  BY <1>7, <2>2 DEF Save, Stored
  <2>4. form' \in [Handlers -> [Targets -> Forms]]
    BY <1>1, <1>7, NothingType DEF Save, TableType
  <2>5. ASSUME NEW t \in Targets
        PROVE  ((IF typed.at = second THEN typed.of[t] ELSE {})
                  \cup (IF db'[t] = Absent THEN {} ELSE {db'[t].pw}))
                 \in SUBSET (Passwords \cup {NoPw})
    <3>1. db'[t] # Absent => db'[t].pw \in Passwords \cup {NoPw}
      BY <2>3 DEF Stored, Rows
    <3> QED BY <1>1, <3>1 DEF TableType
  <2>6. typed' \in [at : Seconds, of : [Targets -> SUBSET (Passwords \cup {NoPw})]]
    BY <1>1, <1>7, <2>5 DEF Save, SmallType
  <2> QED BY <1>1, <1>7, <2>3, <2>4, <2>6 DEF Save, TableType
<1>8. ASSUME NEW i \in DOMAIN run, Runner(i)  PROVE TableType'
  BY <1>1, <1>8 DEF Runner, Begin, Connect, SessionEnds, Retry, Go, TableType
<1> QED BY <1>2, <1>3, <1>4, <1>5, <1>6, <1>7, <1>8 DEF Next, Manager, Handler

-----------------------------------------------------------------------------
(***************************************************************************)
(* Reload                                                                  *)
(***************************************************************************)
\* A finite set, as a sequence, has each of its members once.
LEMMA SetToSeqIs ==
  ASSUME NEW S, IsFiniteSet(S)
  PROVE  /\ SetToSeq(S) \in [1..Cardinality(S) -> S] /\ Cardinality(S) \in Nat
         /\ \A j, k \in 1..Cardinality(S) : SetToSeq(S)[j] = SetToSeq(S)[k] => j = k
         /\ \A x \in S : \E k \in 1..Cardinality(S) : SetToSeq(S)[k] = x
<1> DEFINE n == Cardinality(S)
<1>1. n \in Nat /\ ExistsBijection(1..n, S)  BY FS_CardinalityType
<1>2. PICK f \in [1..n -> S] : IsInjective(f)
  BY <1>1 DEF ExistsBijection, Bijection, Injection
<1>3. SetToSeq(S) \in [1..n -> S] /\ IsInjective(SetToSeq(S))
  BY <1>2 DEF SetToSeq
<1>4. SetToSeq(S) \in Injection(1..n, S)  BY <1>3 DEF Injection
<1>5. IsFiniteSet(1..n) /\ Cardinality(1..n) = n  BY <1>1, FS_Interval
<1>6. SetToSeq(S) \in Surjection(1..n, S)  BY <1>4, <1>5, FS_Injection
<1> QED BY <1>1, <1>3, <1>6 DEF IsInjective, Surjection

\* The targets whose runner Reload keeps, and those it starts one for, in the
\* order in which it starts them.
Keep(p)  == {t \in Wanted(p) : map[t] # 0 /\ ~Changed(run[map[t]].row, seen[p][t])}
Fresh(p) == SetToSeq(Wanted(p) \ Keep(p))
Count(p) == Cardinality(Wanted(p) \ Keep(p))

\* What Reload does to the runners it finds, to the index and to the new ones.
Applied(p) ==
  /\ run' \in Seq(Record) /\ Len(run') = Len(run) + Count(p) /\ Count(p) \in Nat
  /\ \A i \in 1..Len(run) :
       run'[i] = IF map[run[i].t] = i /\ run[i].t \notin Keep(p) THEN Stopped(i) ELSE run[i]
  /\ \A k \in 1..Count(p) :
       /\ Fresh(p)[k] \in Wanted(p) \ Keep(p) /\ map'[Fresh(p)[k]] = Len(run) + k
       /\ run'[Len(run) + k] = [t |-> Fresh(p)[k], row |-> seen[p][Fresh(p)[k]],
                                early |-> FALSE, cancelled |-> FALSE, pc |-> "new"]
  /\ map' \in [Targets -> 0..Len(run')]
  /\ \A t \in Keep(p) : map'[t] = map[t]
  /\ \A t \in Targets \ Wanted(p) : map'[t] = 0
  /\ \A t \in Wanted(p) \ Keep(p) :
       \E k \in 1..Count(p) : Fresh(p)[k] = t /\ map'[t] = Len(run) + k

LEMMA StoppedType ==
  ASSUME TypeInv, NEW i \in DOMAIN run
  PROVE  /\ Stopped(i) \in Record /\ Stopped(i).t = run[i].t /\ Stopped(i).row = run[i].row
         /\ Stopped(i).pc = run[i].pc /\ (Stopped(i).cancelled \/ Stopped(i).early)
<1>1. run[i] \in Record  BY TypeParts, ElementOfSeq, LenProperties DEF TypeInv, RunnerType
<1>2. (run[i].cancelled \/ run[i].pc # "new") \in BOOLEAN
      /\ (run[i].early \/ run[i].pc = "new") \in BOOLEAN
  OBVIOUS
<1> QED BY <1>1, <1>2 DEF Stopped, Record

LEMMA FunIsSeq ==
  ASSUME NEW S, NEW n \in Nat, NEW f \in [1..n -> S]
  PROVE  f \in Seq(S) /\ Len(f) = n
OBVIOUS

LEMMA ApplyIs ==
  ASSUME TypeInv, NEW p \in Procs, Apply(p), ctx # "off"
  PROVE  Applied(p)
<1> DEFINE L == Len(run)
           n == Count(p)
           f == Fresh(p)
           new == [k \in 1..n |-> [t |-> f[k], row |-> seen[p][f[k]], early |-> FALSE,
                                   cancelled |-> FALSE, pc |-> "new"]]
           gone == {map[t] : t \in {u \in Targets \ Keep(p) : map[u] # 0}}
           old == [i \in 1..L |-> IF i \in gone THEN Stopped(i) ELSE run[i]]
<1>1. /\ run \in Seq(Record) /\ L \in Nat /\ DOMAIN run = 1..L
      /\ map \in [Targets -> 0..L] /\ seen[p] \in Stored
      /\ \A i \in 1..L : run[i] \in Record /\ run[i].t \in Targets
  <2>1. run \in Seq(Record) /\ map \in [Targets -> 0..L] /\ seen[p] \in Stored
    BY TypeParts DEF TypeInv, RunnerType, TableType
  <2>2. L \in Nat /\ DOMAIN run = 1..L  BY <2>1, LenProperties
  <2>3. \A i \in 1..L : run[i] \in Record  BY <2>1, ElementOfSeq
  <2> QED BY <2>1, <2>2, <2>3 DEF Record
<1>2. Wanted(p) \subseteq Targets /\ Keep(p) \subseteq Wanted(p)
      /\ IsFiniteSet(Wanted(p) \ Keep(p))
  <2>1. Wanted(p) \subseteq Targets /\ Keep(p) \subseteq Wanted(p)  BY DEF Wanted, Keep
  <2> QED BY <2>1, FS_Subset
<1>3. /\ f \in [1..n -> Wanted(p) \ Keep(p)] /\ n \in Nat /\ DOMAIN f = 1..n
      /\ \A j, k \in 1..n : f[j] = f[k] => j = k
      /\ \A t \in Wanted(p) \ Keep(p) : \E k \in 1..n : f[k] = t
  BY <1>2, SetToSeqIs DEF Fresh, Count
<1>4. /\ run' = old \o new
      /\ map' = [t \in Targets |->
                   IF t \in Keep(p) THEN map[t]
                   ELSE IF t \in Wanted(p)
                     THEN L + CHOOSE k \in DOMAIN f : f[k] = t
                     ELSE 0]
  BY <1>1, <1>3 DEF Apply, Keep, Fresh
<1>5. \A i \in 1..L : i \in gone <=> map[run[i].t] = i /\ run[i].t \notin Keep(p)
  <2> SUFFICES ASSUME NEW i \in 1..L
               PROVE  i \in gone <=> map[run[i].t] = i /\ run[i].t \notin Keep(p)
    OBVIOUS
  <2>1. \A u \in Targets : map[u] = i => run[i].t = u
    BY <1>1, TypeParts DEF TypeInv, RunnerType
  <2> QED BY <1>1, <2>1
<1> HIDE DEF gone
<1>6. old \in Seq(Record) /\ Len(old) = L
  <2>1. \A i \in 1..L : (IF i \in gone THEN Stopped(i) ELSE run[i]) \in Record
    BY <1>1, StoppedType
  <2>2. old \in [1..L -> Record]  BY <2>1
  <2> QED BY <1>1, <2>2, FunIsSeq
<1>7. new \in Seq(Record) /\ Len(new) = n
  <2>1. ASSUME NEW k \in 1..n
        PROVE  [t |-> f[k], row |-> seen[p][f[k]], early |-> FALSE,
                cancelled |-> FALSE, pc |-> "new"] \in Record
    <3>1. f[k] \in Wanted(p) /\ f[k] \in Targets  BY <1>2, <1>3
    <3>2. seen[p][f[k]] \in Rows  BY <1>1, <3>1 DEF Wanted, Stored
    <3>3. FALSE \in BOOLEAN  OBVIOUS
    <3> QED BY <3>1, <3>2, <3>3 DEF Record
  <2>2. new \in [1..n -> Record]  BY <2>1
  <2> QED BY <1>3, <2>2, FunIsSeq
<1>8. /\ \A i \in 1..L : old[i] = IF i \in gone THEN Stopped(i) ELSE run[i]
      /\ \A k \in 1..n : new[k] = [t |-> f[k], row |-> seen[p][f[k]], early |-> FALSE,
                                    cancelled |-> FALSE, pc |-> "new"]
  OBVIOUS
<1> HIDE DEF old, new
<1>9. /\ run' \in Seq(Record) /\ Len(run') = L + n
      /\ \A i \in 1..(L + n) : run'[i] = IF i <= L THEN old[i] ELSE new[i - L]
  <2>1. /\ old \o new \in Seq(Record) /\ Len(old \o new) = Len(old) + Len(new)
        /\ \A i \in 1..(Len(old) + Len(new)) :
             (old \o new)[i] = IF i <= Len(old) THEN old[i] ELSE new[i - Len(old)]
    BY <1>6, <1>7, ConcatProperties
  <2> HIDE DEF L, n
  <2> QED BY <1>4, <1>6, <1>7, <2>1
<1>10. \A i \in 1..L :
        run'[i] = IF map[run[i].t] = i /\ run[i].t \notin Keep(p) THEN Stopped(i) ELSE run[i]
  <2> SUFFICES ASSUME NEW i \in 1..L
               PROVE  run'[i] = IF map[run[i].t] = i /\ run[i].t \notin Keep(p)
                                  THEN Stopped(i) ELSE run[i]
    OBVIOUS
  <2>1. run'[i] = old[i]  BY <1>1, <1>3, <1>9
  <2> QED BY <1>5, <1>8, <2>1
<1>11. \A t \in Wanted(p) \ Keep(p) : \E k \in 1..n : f[k] = t /\ map'[t] = L + k
  <2> SUFFICES ASSUME NEW t \in Wanted(p) \ Keep(p)
               PROVE  \E k \in 1..n : f[k] = t /\ map'[t] = L + k
    OBVIOUS
  <2>1. \E k \in 1..n : f[k] = t  BY <1>3
  <2> DEFINE j == CHOOSE k \in DOMAIN f : f[k] = t
  <2>2. j \in 1..n /\ f[j] = t  BY <1>3, <2>1
  <2>3. map'[t] = L + j  BY <1>2, <1>4
  <2> QED BY <2>2, <2>3
<1>12. ASSUME NEW k \in 1..n
       PROVE  /\ f[k] \in Wanted(p) \ Keep(p) /\ map'[f[k]] = L + k
              /\ run'[L + k] = [t |-> f[k], row |-> seen[p][f[k]], early |-> FALSE,
                                cancelled |-> FALSE, pc |-> "new"]
  <2>1. f[k] \in Wanted(p) \ Keep(p)  BY <1>3
  <2>2. map'[f[k]] = L + k  BY <1>3, <1>11, <2>1
  <2>3. run'[L + k] = new[k]
    <3>1. L + k \in 1..(L + n) /\ ~(L + k <= L) /\ (L + k) - L = k  BY <1>1, <1>3
    <3> QED BY <1>9, <3>1
  <2> QED BY <1>8, <2>1, <2>2, <2>3
<1>13. /\ \A t \in Keep(p) : map'[t] = map[t]
       /\ \A t \in Targets \ Wanted(p) : map'[t] = 0
  BY <1>2, <1>4
<1>14. map' \in [Targets -> 0..Len(run')]
  <2>1. ASSUME NEW t \in Targets  PROVE map'[t] \in 0..Len(run')
    <3>1. CASE t \in Keep(p)
      <4>1. map'[t] \in 0..L  BY <1>1, <1>13, <3>1
      <4> QED BY <1>1, <1>3, <1>9, <4>1
    <3>2. CASE t \notin Wanted(p)
      <4>1. map'[t] = 0  BY <1>13, <3>2
      <4> QED BY <1>1, <1>3, <1>9, <4>1
    <3>3. CASE t \in Wanted(p) \ Keep(p)
      <4>1. PICK k \in 1..n : map'[t] = L + k  BY <1>11, <3>3
      <4> QED BY <1>1, <1>3, <1>9, <4>1
    <3> QED BY <3>1, <3>2, <3>3
  <2>2. map' = [t \in Targets |-> map'[t]]  BY <1>4
  <2> QED BY <2>1, <2>2
<1> QED BY <1>3, <1>9, <1>10, <1>11, <1>12, <1>13, <1>14 DEF Applied

\* A runner goes from one place to another and changes nothing else.
LEMMA RunnerIs ==
  ASSUME TypeInv, NEW i \in DOMAIN run, Runner(i)
  PROVE  /\ UNCHANGED <<map, ctx, applied>> /\ run' \in Seq(Record) /\ Len(run') = Len(run)
         /\ \A j \in 1..Len(run) :
              /\ run'[j].t = run[j].t /\ run'[j].row = run[j].row
              /\ run'[j].early = run[j].early /\ run'[j].cancelled = run[j].cancelled
              /\ run'[j].pc = run[j].pc \/ (j = i /\ (Cancelled(i) => run'[i].pc = "end"
                                                      \/ run'[i].pc = "wait"))
              /\ run[j].pc = "end" => run'[j].pc = "end"
<1>1. run \in Seq(Record) /\ DOMAIN run = 1..Len(run) /\ i \in 1..Len(run)
  BY TypeParts, LenProperties DEF TypeInv, RunnerType
<1>2. PICK place \in {"dial", "stream", "wait", "end"} : Go(i, place)
  BY DEF Runner, Begin, Connect, SessionEnds, Retry
<1>3. run[i] \in Record /\ run[i].pc # "end"
  BY <1>1, ElementOfSeq DEF Runner, Begin, Connect, SessionEnds, Retry
<1> DEFINE to == IF Cancelled(i) THEN "end" ELSE place
           e == [run[i] EXCEPT !.pc = to]
<1>4. run' = [run EXCEPT ![i] = e]  BY <1>1, <1>2, <1>3 DEF Go, Record
<1>5. e \in Record /\ e.t = run[i].t /\ e.row = run[i].row /\ e.early = run[i].early
      /\ e.cancelled = run[i].cancelled /\ e.pc = to
  BY <1>3 DEF Record
<1>6. Cancelled(i) => to = "end"  OBVIOUS
<1> HIDE DEF e, to
<1>7. /\ run' \in Seq(Record) /\ Len(run') = Len(run)
      /\ \A j \in 1..Len(run) : run'[j] = IF j = i THEN e ELSE run[j]
  BY <1>1, <1>4, <1>5, ExceptSeq
<1>8. UNCHANGED <<map, ctx, applied>>  BY <1>2 DEF Go
<1> QED BY <1>1, <1>3, <1>5, <1>6, <1>7, <1>8

\* StopAll stops every runner that is listed, and forgets it.
LEMMA StopAllIs ==
  ASSUME TypeInv, StopAll
  PROVE  /\ run' \in Seq(Record) /\ Len(run') = Len(run)
         /\ \A i \in 1..Len(run) :
              run'[i] = IF map[run[i].t] = i THEN Stopped(i) ELSE run[i]
         /\ map' = [t \in Targets |-> 0] /\ ctx = "done" /\ UNCHANGED <<ctx, applied>>
<1>1. run \in Seq(Record) /\ DOMAIN run = 1..Len(run) /\ Len(run) \in Nat
  BY TypeParts, LenProperties DEF TypeInv, RunnerType
<1>2. run' = [i \in 1..Len(run) |-> IF map[run[i].t] = i THEN Stopped(i) ELSE run[i]]
  BY <1>1 DEF StopAll
<1>3. ASSUME NEW i \in 1..Len(run)
      PROVE  (IF map[run[i].t] = i THEN Stopped(i) ELSE run[i]) \in Record
  BY <1>1, StoppedType, ElementOfSeq
<1>4. run' \in [1..Len(run) -> Record]  BY <1>2, <1>3
<1>5. run' \in Seq(Record) /\ Len(run') = Len(run)  BY <1>1, <1>4, FunIsSeq
<1> QED BY <1>2, <1>5 DEF StopAll

LEMMA RunnerStep ==
  ASSUME TypeInv, [Next]_vars  PROVE RunnerType'
<1>1. RunnerType  BY TypeParts DEF TypeInv
<1>2. CASE UNCHANGED <<map, run, applied>>  BY <1>1, <1>2 DEF RunnerType
<1>3. CASE StopAll
  <2>1. Len(run) \in Nat  BY <1>1, LenProperties DEF RunnerType
  <2>2. Len(run') \in Nat /\ 0 \in 0..Len(run')  BY <1>3, <2>1, StopAllIs
  <2>3. run' \in Seq(Record) /\ map' = [t \in Targets |-> 0]  BY <1>3, StopAllIs
  <2> QED BY <2>2, <2>3 DEF RunnerType
<1>4. ASSUME NEW p \in Procs, Apply(p), ctx # "off"  PROVE RunnerType'
  <2>1. Applied(p)  BY <1>4, ApplyIs
  <2>2. run' \in Seq(Record) /\ map' \in [Targets -> 0..Len(run')]  BY <2>1 DEF Applied
  <2>3. ASSUME NEW t \in Targets, map'[t] # 0
        PROVE  run'[map'[t]].t = t /\ run'[map'[t]].row.on
    <3>1. CASE t \in Keep(p)
      <4>1. map'[t] = map[t] /\ map[t] \in 1..Len(run) /\ run[map[t]].t = t
            /\ run[map[t]].row.on
        BY <1>1, <2>1, <2>3, <3>1 DEF Applied, RunnerType
      <4>2. run'[map[t]] = run[map[t]]  BY <2>1, <3>1, <4>1 DEF Applied
      <4> QED BY <4>1, <4>2
    <3>2. CASE t \in Wanted(p) \ Keep(p)
      <4>1. PICK k \in 1..Count(p) : Fresh(p)[k] = t /\ map'[t] = Len(run) + k
        BY <2>1, <3>2 DEF Applied
      <4>2. run'[Len(run) + k] = [t |-> Fresh(p)[k], row |-> seen[p][Fresh(p)[k]],
                                  early |-> FALSE, cancelled |-> FALSE, pc |-> "new"]
        BY <2>1 DEF Applied
      <4>3. run'[map'[t]].t = t /\ run'[map'[t]].row = seen[p][t]
        BY <4>1, <4>2
      <4> QED BY <3>2, <4>3 DEF Wanted
    <3> QED BY <2>1, <2>3, <3>1, <3>2 DEF Applied
  <2> QED BY <2>2, <2>3 DEF RunnerType
<1>5. ASSUME NEW i \in DOMAIN run, Runner(i)  PROVE RunnerType'
  <2>1. /\ map' = map /\ run' \in Seq(Record) /\ Len(run') = Len(run)
        /\ \A j \in 1..Len(run) : run'[j].t = run[j].t /\ run'[j].row = run[j].row
    BY <1>5, RunnerIs
  <2> QED BY <1>1, <2>1 DEF RunnerType
<1>6. ASSUME NEW p \in Procs, Apply(p), ctx = "off"  PROVE UNCHANGED <<map, run, applied>>
  BY <1>6 DEF Apply
<1> QED BY <1>2, <1>3, <1>4, <1>5, <1>6, RunnerSteps

LEMMA InitTypes ==
  ASSUME Init  PROVE TypeInv
<1>1. << >> \in Seq(Record) /\ Len(<< >>) = 0  BY EmptySeq
<1>2. RunnerType  BY <1>1 DEF Init, RunnerType
<1>3. SmallType /\ NotBegun
  BY DEF Init, SmallType, NotBegun, Places, Procs, Seconds
<1>4. db \in Stored /\ 0 \in Seconds
  <2>1. 0 \in Seconds  BY DEF Seconds
  <2>2. \A t \in Targets : db[t] \in Rows \cup {Absent}
    BY <2>1 DEF Init, Rows
  <2> QED BY <2>1, <2>2 DEF Init, Stored
<1>5. TableType
  <2>1. ASSUME NEW t \in Targets
        PROVE  (IF db[t] = Absent THEN {} ELSE {db[t].pw}) \in SUBSET (Passwords \cup {NoPw})
    BY <1>4 DEF Stored, Rows
  <2>2. typed \in [at : Seconds, of : [Targets -> SUBSET (Passwords \cup {NoPw})]]
    BY <1>4, <2>1 DEF Init
  <2> QED BY <1>4, <2>2, NothingType DEF Init, TableType
<1> QED BY <1>2, <1>3, <1>5, TypeParts DEF TypeInv

LEMMA TypeStep ==
  ASSUME TypeInv, [Next]_vars  PROVE TypeInv'
<1>1. SmallType' /\ NotBegun' /\ TableType' /\ RunnerType'
  BY SmallStep, TableStep, RunnerStep
<1>2. TypeOK' = (SmallType' /\ TableType' /\ RunnerType')
  BY TypeParts DEF TypeOK, SmallType, TableType, RunnerType, Places, Record
<1> QED BY <1>1, <1>2 DEF TypeInv

\* Type correctness of push-out, for any finite set of targets.
THEOREM PushoutTypes == Spec => []TypeOK
<1>1. Init => TypeInv  BY InitTypes
<1>2. TypeInv /\ [Next]_vars => TypeInv'  BY TypeStep
<1>3. TypeInv => TypeOK  BY DEF TypeInv
<1> QED BY <1>1, <1>2, <1>3, PTL DEF Spec

-----------------------------------------------------------------------------
(***************************************************************************)
(* A runner that is no longer listed is stopped                            *)
(***************************************************************************)
LEMMA StopStep ==
  ASSUME TypeInv, UnlistedIsStopped, [Next]_vars  PROVE UnlistedIsStopped'
<1>1. /\ RunnerType /\ NotBegun /\ RunnerType' /\ Len(run) \in Nat /\ Len(run') \in Nat
      /\ DOMAIN run = 1..Len(run) /\ DOMAIN run' = 1..Len(run')
  <2>1. RunnerType /\ NotBegun /\ RunnerType'  BY RunnerStep, TypeParts DEF TypeInv
  <2> QED BY <2>1, LenProperties DEF RunnerType
<1>2. SUFFICES ASSUME NEW i \in 1..Len(run'), map'[run'[i].t] # i, run'[i].pc # "end"
               PROVE  run'[i].cancelled \/ ctx' = "done" \/ run'[i].early
  BY <1>1 DEF UnlistedIsStopped, Cancelled
<1>3. ctx' = "done" \/ ctx # "done"  BY CtxSteps DEF RunStart, TypeInv, NotBegun
<1>4. CASE ctx' = "done"  BY <1>4
<1>5. ASSUME i \in 1..Len(run), map[run[i].t] # i, run[i].pc # "end", ctx # "done"
      PROVE  run[i].cancelled \/ run[i].early
  BY <1>1, <1>5 DEF UnlistedIsStopped, Cancelled
<1>6. CASE UNCHANGED <<map, run, applied>>  BY <1>2, <1>3, <1>5, <1>6
<1>7. CASE StopAll  BY <1>7, StopAllIs
<1>8. ASSUME NEW p \in Procs, Apply(p), ctx # "off", ctx # "done"
      PROVE  run'[i].cancelled \/ run'[i].early
  <2>1. Applied(p)  BY <1>8, ApplyIs
  <2>2. CASE i \in 1..Len(run)
    <3>1. run'[i] = IF map[run[i].t] = i /\ run[i].t \notin Keep(p) THEN Stopped(i) ELSE run[i]
      BY <2>1, <2>2 DEF Applied
    <3>2. CASE map[run[i].t] = i /\ run[i].t \notin Keep(p)
      BY <1>1, <2>2, <3>1, <3>2, StoppedType
    <3>3. CASE map[run[i].t] = i /\ run[i].t \in Keep(p)
      BY <1>2, <2>1, <3>1, <3>3 DEF Applied
    <3>4. CASE map[run[i].t] # i
      BY <1>2, <1>5, <1>8, <2>2, <3>1, <3>4
    <3> QED BY <3>2, <3>3, <3>4
  <2>3. CASE i > Len(run)
    <3> DEFINE k == i - Len(run)
    <3>1. k \in 1..Count(p) /\ i = Len(run) + k  BY <1>1, <2>1, <2>3 DEF Applied
    <3>2. run'[Len(run) + k] = [t |-> Fresh(p)[k], row |-> seen[p][Fresh(p)[k]],
                                early |-> FALSE, cancelled |-> FALSE, pc |-> "new"]
          /\ map'[Fresh(p)[k]] = Len(run) + k
      BY <2>1, <3>1 DEF Applied
    <3>3. run'[i].t = Fresh(p)[k] /\ map'[run'[i].t] = i  BY <3>1, <3>2
    <3> QED BY <1>2, <3>3
  <2> QED BY <1>1, <2>2, <2>3
<1>9. ASSUME NEW j \in DOMAIN run, Runner(j), ctx # "done"
      PROVE  run'[i].cancelled \/ run'[i].early
  BY <1>2, <1>5, <1>9, RunnerIs
<1>10. ASSUME NEW p \in Procs, Apply(p), ctx = "off"  PROVE UNCHANGED <<map, run, applied>>
  BY <1>10 DEF Apply
<1> QED BY <1>3, <1>4, <1>6, <1>7, <1>8, <1>9, <1>10, RunnerSteps

\* Editing a target never leaves its old upload running, for any targets, any
\* number of saves and reloads and any order of the goroutines, unless Reload
\* met the runner before it had begun.
THEOREM UnlistedStops == Spec => []UnlistedIsStopped
<1>1. Init => UnlistedIsStopped
  <2>1. Len(<< >>) = 0 /\ DOMAIN << >> = {}  OBVIOUS
  <2> QED BY <2>1 DEF Init, UnlistedIsStopped
<1>2. Init => TypeInv  BY InitTypes
<1>3. TypeInv /\ [Next]_vars => TypeInv'  BY TypeStep
<1>4. TypeInv /\ UnlistedIsStopped /\ [Next]_vars => UnlistedIsStopped'  BY StopStep
<1> QED BY <1>1, <1>2, <1>3, <1>4, PTL DEF Spec

-----------------------------------------------------------------------------
(***************************************************************************)
(* Reload follows the stored configuration                                 *)
(***************************************************************************)
\* A row that was stored once is no newer than the last save, and if it is of
\* the same second its password is one that was saved in that second.
Known(row, t) == row.at <= typed.at /\ (row.at = typed.at => row.pw \in typed.of[t])

Clock == typed.at <= second /\ \A t \in Targets : IsFiniteSet(typed.of[t])

\* A save writes every row.
Stamped == \A t \in Targets : db[t] # Absent => db[t].at = typed.at /\ Known(db[t], t)

\* So is every copy of a row that Reload or a runner still has.
Copies ==
  /\ \A p \in Procs, t \in Targets : seen[p][t] # Absent => Known(seen[p][t], t)
  /\ \A i \in DOMAIN run : Known(run[i].row, run[i].t)

\* The index is that of the targets applied last, up to passwords.
Matches ==
  ctx # "done" =>
    \A t \in Targets :
      /\ map[t] # 0 <=> applied[t] # Absent /\ applied[t].on
      /\ map[t] # 0 => /\ run[map[t]].row.addr = applied[t].addr
                       /\ run[map[t]].row.at = applied[t].at

FollowInv == Clock /\ Stamped /\ Copies /\ Matches

\* A later save keeps what is known of an older row.
LEMMA KnownStep ==
  ASSUME TypeInv, FollowInv, [Next]_vars, NEW t \in Targets, NEW row \in Rows, Known(row, t)
  PROVE  Known(row, t)'
<1>1. TableType /\ SmallType  BY TypeParts DEF TypeInv
<1>2. CASE UNCHANGED <<db, typed, second>> \/ Tick
  BY <1>2 DEF Tick, Known
<1>3. ASSUME NEW h \in Handlers, Save(h)  PROVE Known(row, t)'
  <2>1. row.at \in Nat /\ typed.at \in Nat /\ second \in Nat /\ typed.at <= second
    BY <1>1 DEF TableType, SmallType, Seconds, Rows, FollowInv, Clock
  <2>2. /\ typed'.at = second
        /\ (IF typed.at = second THEN typed.of[t] ELSE {}) \subseteq typed'.of[t]
    BY <1>3 DEF Save
  <2> QED BY <2>1, <2>2 DEF Known
<1> QED BY <1>2, <1>3, TableSteps

LEMMA ClockStep ==
  ASSUME TypeInv, FollowInv, [Next]_vars  PROVE Clock' /\ Stamped'
<1>1. TableType /\ SmallType /\ Clock /\ Stamped  BY TypeParts DEF TypeInv, FollowInv
<1>2. CASE UNCHANGED <<db, typed, second>>
  BY <1>1, <1>2 DEF Clock, Stamped, Known
<1>3. CASE Tick
  BY <1>1, <1>3 DEF Tick, Clock, Stamped, Known, TableType, SmallType, Seconds
<1>4. ASSUME NEW h \in Handlers, Save(h)  PROVE Clock' /\ Stamped'
  <2>1. /\ typed'.at = second /\ second' = second
        /\ \A t \in Targets : typed'.of[t] = (IF typed.at = second THEN typed.of[t] ELSE {})
                                \cup (IF db'[t] = Absent THEN {} ELSE {db'[t].pw})
        /\ \A t \in Targets : db'[t] = Row(t, form[h][t])
    BY <1>4 DEF Save
  <2>2. second \in Nat  BY <1>1 DEF SmallType, Seconds
  <2>3. ASSUME NEW t \in Targets  PROVE IsFiniteSet(typed'.of[t])
    <3> DEFINE S == IF typed.at = second THEN typed.of[t] ELSE {}
    <3>1. IsFiniteSet(S)  BY <1>1, FS_EmptySet DEF Clock
    <3>2. typed'.of[t] = S \/ typed'.of[t] = S \cup {db'[t].pw}  BY <2>1
    <3> HIDE DEF S
    <3> QED BY <3>1, <3>2, FS_AddElement
  <2>4. Clock'  BY <2>1, <2>2, <2>3 DEF Clock
  <2>5. ASSUME NEW t \in Targets, db'[t] # Absent
        PROVE  db'[t].at = typed'.at /\ Known(db[t], t)'
    <3>1. db'[t].at = second
      <4>1. form[h][t] # Absent  BY <2>1, <2>5 DEF Row
      <4> DEFINE w == IF form[h][t].pw = NoPw /\ db[t] # Absent THEN db[t].pw ELSE form[h][t].pw
      <4>2. db'[t] = [on |-> form[h][t].on, addr |-> form[h][t].addr, at |-> second, pw |-> w]
        BY <2>1, <4>1 DEF Row
      <4> HIDE DEF w
      <4> QED BY <4>2
    <3>2. db'[t].pw \in typed'.of[t]  BY <2>1, <2>5
    <3> QED BY <2>1, <2>2, <3>1, <3>2 DEF Known
  <2> QED BY <2>4, <2>5 DEF Stamped
<1> QED BY <1>2, <1>3, <1>4, TableSteps

\* Who reads the stored targets, and who forgets what was read.
LEMMA SeenSteps ==
  ASSUME [Next]_vars
  PROVE  \/ UNCHANGED seen
         \/ \E p \in Procs : /\ UNCHANGED db /\ UNCHANGED typed
                             /\ seen' = [seen EXCEPT ![p] = db]
         \/ \E p \in Procs : seen' = [seen EXCEPT ![p] = Nothing]
BY DEF Next, vars, Manager, Handler, Tick, RemoteChanges, Shutdown, ReadFails, Submit, Save,
       RunStart, ReadTargets, Apply, StopAll, Runner, Begin, Connect, SessionEnds, Retry, Go,
       Procs

LEMMA CopiesStep ==
  ASSUME TypeInv, FollowInv, [Next]_vars  PROVE Copies'
<1>1. /\ TableType /\ RunnerType /\ Stamped /\ Copies /\ RunnerType'
      /\ Len(run) \in Nat /\ Len(run') \in Nat
      /\ DOMAIN run = 1..Len(run) /\ DOMAIN run' = 1..Len(run')
  <2>1. TableType /\ RunnerType /\ Stamped /\ Copies /\ RunnerType'
    BY RunnerStep, TypeParts DEF TypeInv, FollowInv
  <2> QED BY <2>1, LenProperties DEF RunnerType
<1>2. ASSUME NEW p \in Procs, NEW t \in Targets, seen[p][t] # Absent
      PROVE  Known(seen[p][t], t) /\ seen[p][t] \in Rows
  BY <1>1, <1>2 DEF Copies, TableType, Stored
<1>3. ASSUME NEW i \in 1..Len(run)
      PROVE  Known(run[i].row, run[i].t) /\ run[i].row \in Rows /\ run[i].t \in Targets
  <2>1. run[i] \in Record  BY <1>1, ElementOfSeq DEF RunnerType
  <2> QED BY <1>1, <2>1 DEF Copies, Record
<1>4. ASSUME NEW p \in Procs, NEW t \in Targets, seen'[p][t] # Absent
      PROVE  Known(seen[p][t], t)'
  <2>1. CASE seen'[p][t] = seen[p][t]
    <3>1. PICK r \in Rows : r = seen[p][t]  BY <1>2, <1>4, <2>1
    <3>2. Known(r, t)'  BY <1>2, <1>4, <2>1, <3>1, KnownStep
    <3> QED BY <2>1, <3>1, <3>2 DEF Known
  <2>2. CASE seen'[p][t] = db[t] /\ UNCHANGED <<db, typed>>
    BY <1>1, <1>4, <2>2 DEF Stamped, Known
  <2>3. seen'[p][t] = seen[p][t] \/ (seen'[p][t] = db[t] /\ UNCHANGED <<db, typed>>)
        \/ seen'[p][t] = Absent
    BY <1>1, SeenSteps DEF TableType, Nothing
  <2> QED BY <1>4, <2>1, <2>2, <2>3
<1>5. ASSUME NEW i \in 1..Len(run')
      PROVE  \/ i \in 1..Len(run) /\ run'[i].row = run[i].row /\ run'[i].t = run[i].t
             \/ \E p \in Procs : \E t \in Targets :
                  seen[p][t] # Absent /\ run'[i].row = seen[p][t] /\ run'[i].t = t
  <2>1. CASE UNCHANGED <<map, run, applied>>  BY <2>1, <1>5
  <2>2. CASE StopAll
    <3>1. i \in 1..Len(run) /\ run'[i] = IF map[run[i].t] = i THEN Stopped(i) ELSE run[i]
      BY <1>5, <2>2, StopAllIs
    <3> QED BY <1>1, <3>1, StoppedType
  <2>3. ASSUME NEW p \in Procs, Applied(p)
        PROVE  \/ i \in 1..Len(run) /\ run'[i].row = run[i].row /\ run'[i].t = run[i].t
               \/ \E t \in Targets :
                    seen[p][t] # Absent /\ run'[i].row = seen[p][t] /\ run'[i].t = t
    <3>1. CASE i \in 1..Len(run)
      <4>1. run'[i] = Stopped(i) \/ run'[i] = run[i]  BY <2>3, <3>1 DEF Applied
      <4> QED BY <1>1, <3>1, <4>1, StoppedType
    <3>2. CASE i > Len(run)
      <4> DEFINE k == i - Len(run)
      <4>1. k \in 1..Count(p) /\ i = Len(run) + k  BY <1>1, <1>5, <2>3, <3>2 DEF Applied
      <4>2. /\ run'[Len(run) + k] = [t |-> Fresh(p)[k], row |-> seen[p][Fresh(p)[k]],
                                     early |-> FALSE, cancelled |-> FALSE, pc |-> "new"]
            /\ Fresh(p)[k] \in Wanted(p)
        BY <2>3, <4>1 DEF Applied
      <4>3. run'[i].row = seen[p][Fresh(p)[k]] /\ run'[i].t = Fresh(p)[k]  BY <4>1, <4>2
      <4> QED BY <4>2, <4>3 DEF Wanted
    <3> QED BY <1>1, <1>5, <3>1, <3>2
  <2>4. ASSUME NEW p \in Procs, Apply(p), ctx = "off"  PROVE UNCHANGED <<map, run, applied>>
    BY <2>4 DEF Apply
  <2>5. ASSUME NEW j \in DOMAIN run, Runner(j)
        PROVE  i \in 1..Len(run) /\ run'[i].row = run[i].row /\ run'[i].t = run[i].t
    BY <1>5, <2>5, RunnerIs
  <2> QED BY <2>1, <2>2, <2>3, <2>4, <2>5, ApplyIs, RunnerSteps
<1>6. ASSUME NEW i \in 1..Len(run')  PROVE Known(run[i].row, run[i].t)'
  <2>1. PICK r \in Rows, t \in Targets : Known(r, t) /\ run'[i].row = r /\ run'[i].t = t
    BY <1>2, <1>3, <1>5, <1>6
  <2>2. Known(r, t)'  BY <2>1, KnownStep
  <2> QED BY <2>1, <2>2 DEF Known
<1> QED BY <1>1, <1>4, <1>6 DEF Copies

LEMMA MatchesStep ==
  ASSUME TypeInv, FollowInv, [Next]_vars  PROVE Matches'
<1>1. /\ TableType /\ RunnerType /\ NotBegun /\ Len(run) \in Nat /\ DOMAIN run = 1..Len(run)
  <2>1. TableType /\ RunnerType /\ NotBegun  BY TypeParts DEF TypeInv
  <2> QED BY <2>1, LenProperties DEF RunnerType
<1> SUFFICES ASSUME ctx' # "done", NEW t \in Targets
             PROVE  /\ map'[t] # 0 <=> applied'[t] # Absent /\ applied'[t].on
                    /\ map'[t] # 0 => /\ run'[map'[t]].row.addr = applied'[t].addr
                                      /\ run'[map'[t]].row.at = applied'[t].at
  BY DEF Matches
<1>2. ctx # "done"  BY <1>1, CtxSteps DEF RunStart, NotBegun
<1>3. /\ map[t] # 0 <=> applied[t] # Absent /\ applied[t].on
      /\ map[t] # 0 => /\ run[map[t]].row.addr = applied[t].addr
                       /\ run[map[t]].row.at = applied[t].at
                       /\ map[t] \in 1..Len(run)
  BY <1>1, <1>2 DEF FollowInv, Matches, RunnerType
<1>4. CASE UNCHANGED <<map, run, applied>>  BY <1>3, <1>4
<1>5. ASSUME NEW p \in Procs, Apply(p), ctx # "off"
      PROVE  /\ map'[t] # 0 <=> applied'[t] # Absent /\ applied'[t].on
             /\ map'[t] # 0 => /\ run'[map'[t]].row.addr = applied'[t].addr
                               /\ run'[map'[t]].row.at = applied'[t].at
  <2>1. Applied(p)  BY <1>5, ApplyIs
  <2>2. applied' = seen[p]  BY <1>5 DEF Apply
  <2>3. CASE t \in Keep(p)
    <3>1. map'[t] = map[t] /\ map[t] # 0 /\ ~Changed(run[map[t]].row, seen[p][t])
          /\ t \in Wanted(p)
      BY <2>1, <2>3 DEF Applied, Keep
    <3>2. run[map[t]].t = t /\ map[t] \in 1..Len(run)  BY <1>1, <3>1 DEF RunnerType
    <3>3. run'[map[t]] = run[map[t]]  BY <2>1, <2>3, <3>2 DEF Applied
    <3> QED BY <2>2, <3>1, <3>3 DEF Changed, Wanted
  <2>4. CASE t \in Wanted(p) \ Keep(p)
    <3>1. PICK k \in 1..Count(p) : Fresh(p)[k] = t /\ map'[t] = Len(run) + k
      BY <2>1, <2>4 DEF Applied
    <3>2. run'[Len(run) + k] = [t |-> Fresh(p)[k], row |-> seen[p][Fresh(p)[k]],
                                early |-> FALSE, cancelled |-> FALSE, pc |-> "new"]
      BY <2>1, <3>1 DEF Applied
    <3>3. run'[map'[t]].row = seen[p][t]  BY <3>1, <3>2
    <3>4. map'[t] # 0  BY <1>1, <3>1
    <3> QED BY <2>2, <2>4, <3>3, <3>4 DEF Wanted
  <2>5. CASE t \notin Wanted(p)
    <3>1. map'[t] = 0  BY <2>1, <2>5 DEF Applied
    <3> QED BY <2>2, <2>5, <3>1 DEF Wanted
  <2> QED BY <2>3, <2>4, <2>5
<1>6. ASSUME NEW p \in Procs, Apply(p), ctx = "off"  PROVE UNCHANGED <<map, run, applied>>
  BY <1>6 DEF Apply
<1>7. ASSUME NEW i \in DOMAIN run, Runner(i)
      PROVE  /\ map' = map /\ applied' = applied
             /\ \A j \in 1..Len(run) : run'[j].row = run[j].row
  BY <1>7, RunnerIs
<1>8. CASE StopAll  BY <1>2, <1>8 DEF StopAll
<1> QED BY <1>3, <1>4, <1>5, <1>6, <1>7, <1>8, RunnerSteps

LEMMA InitFollows ==
  ASSUME Init  PROVE FollowInv
<1>1. Clock
  <2>1. \A t \in Targets : typed.of[t] = {} \/ typed.of[t] = {db[t].pw}  BY DEF Init
  <2>2. \A t \in Targets : IsFiniteSet(typed.of[t])  BY <2>1, FS_EmptySet, FS_Singleton
  <2>3. typed.at = 0 /\ second = 0  BY DEF Init
  <2> QED BY <2>2, <2>3 DEF Clock
<1>2. Stamped
  <2>1. typed.at = 0 /\ \A t \in Targets : db[t] # Absent => typed.of[t] = {db[t].pw}
    BY DEF Init
  <2>2. \A t \in Targets : db[t] # Absent => db[t].at = 0  BY DEF Init
  <2> QED BY <2>1, <2>2 DEF Stamped, Known
<1>3. Copies
  <2>1. DOMAIN << >> = {}  OBVIOUS
  <2> QED BY <2>1 DEF Init, Copies, Nothing
<1>4. Matches  BY DEF Init, Matches, Nothing
<1> QED BY <1>1, <1>2, <1>3, <1>4 DEF FollowInv

\* Equal, when there is only one to choose from.
LEMMA OnlyOne ==
  ASSUME NEW S, IsFiniteSet(S), Cardinality(S) <= 1, NEW x \in S, NEW y \in S
  PROVE  x = y
<1>1. Cardinality(S) \in Nat /\ Cardinality(S) # 0  BY FS_CardinalityType, FS_EmptySet
<1>2. Cardinality(S) = 1
  <2> DEFINE n == Cardinality(S)
  <2>1. n \in Nat /\ n # 0 /\ n <= 1  BY <1>1
  <2> HIDE DEF n
  <2>2. n = 1  BY <2>1
  <2> QED BY <2>2 DEF n
<1> QED BY <1>2, FS_Singleton

LEMMA FollowsThen ==
  ASSUME TypeInv, FollowInv  PROVE ReloadFollows
<1>1. TableType /\ RunnerType /\ Clock /\ Stamped /\ Copies /\ Matches
  BY TypeParts DEF TypeInv, FollowInv
<1>2. Len(run) \in Nat /\ DOMAIN run = 1..Len(run)  BY <1>1, LenProperties DEF RunnerType
<1> SUFFICES ASSUME ctx = "on", applied = db, NEW t \in Targets, Cardinality(typed.of[t]) <= 1
             PROVE  Follows(t)
  BY DEF ReloadFollows
<1>3. map[t] # 0 <=> db[t] # Absent /\ db[t].on  BY <1>1 DEF Matches
<1>4. ASSUME map[t] # 0
      PROVE  run[map[t]].row.addr = db[t].addr /\ run[map[t]].row.pw = db[t].pw
  <2>1. map[t] \in 1..Len(run) /\ run[map[t]].t = t  BY <1>1, <1>4 DEF RunnerType
  <2>2. Known(run[map[t]].row, t) /\ Known(db[t], t) /\ db[t].at = typed.at
    BY <1>1, <1>2, <1>3, <1>4, <2>1 DEF Copies, Stamped
  <2>3. run[map[t]].row.addr = db[t].addr /\ run[map[t]].row.at = db[t].at
    BY <1>1, <1>4 DEF Matches
  <2>4. run[map[t]].row.pw \in typed.of[t] /\ db[t].pw \in typed.of[t]
    BY <2>2, <2>3 DEF Known
  <2> QED BY <1>1, <2>3, <2>4, OnlyOne DEF Clock
<1> QED BY <1>3, <1>4 DEF Follows

\* What runs is what is stored, once the last Reload has seen it: for any
\* history of saves, reloads and restarts of runners and any number of targets.
THEOREM ReloadIsFollowed == Spec => []ReloadFollows
<1>1. Init => TypeInv /\ FollowInv  BY InitTypes, InitFollows
<1>2. TypeInv /\ FollowInv /\ [Next]_vars => TypeInv' /\ FollowInv'
  BY TypeStep, ClockStep, CopiesStep, MatchesStep DEF FollowInv
<1>3. TypeInv /\ FollowInv => ReloadFollows  BY FollowsThen
<1> QED BY <1>1, <1>2, <1>3, PTL DEF Spec
=============================================================================
