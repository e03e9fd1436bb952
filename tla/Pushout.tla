------------------------------ MODULE Pushout ------------------------------
(***************************************************************************)
(* NTRIP push-out (internal/pushout, store/pushout.go, web/pushout_api.go):*)
(* the stored targets, the save handler that replaces them and reloads the *)
(* manager, and the runners, one goroutine per enabled target, that keep   *)
(* an upload to a remote caster going.                                     *)
(*                                                                         *)
(* Handlers run side by side.  A transaction of the database is one step,  *)
(* and so is what Reload does under Manager.mu; its query comes before the *)
(* lock.  What a connected runner sends is the tap of Mount.               *)
(***************************************************************************)
EXTENDS Integers, SequencesExt, FiniteSetsExt

CONSTANTS
  Targets,     \* names of targets
  Addrs,       \* what a target says besides its password
  Passwords,
  Absent,      \* no such target
  Handlers,    \* save requests over the daemon's life
  MaxSecond,   \* bound: seconds of the clock
  MaxFaults    \* bound: queries that fail

ASSUME PushoutAssumption ==
  /\ MaxSecond \in Nat /\ MaxFaults \in Nat
  /\ IsFiniteSet(Targets)   \* a save request lists 8 targets at most

Seconds == 0..MaxSecond
NoPw   == "none"
Run    == "Run"     \* the goroutine of Manager.Run, which reloads too
Procs  == Handlers \cup {Run}
Forms  == {Absent} \cup [on : BOOLEAN, addr : Addrs, pw : Passwords \cup {NoPw}]
Rows   == [on : BOOLEAN, addr : Addrs, pw : Passwords \cup {NoPw}, at : Seconds]
Stored == [Targets -> Rows \cup {Absent}]

VARIABLES
  second,   \* time.Now().Unix()
  ctx,      \* Manager.ctx: "off" until Run sets it, then "on", "done"
  db,       \* push_targets
  pc, form, \* place of a handler, and the targets it was sent
  seen,     \* what its Reload has read
  map,      \* Manager.runners: the index of a target's runner, 0 if none
  run,      \* every runner started
  remote,   \* the remote caster takes uploads and the local mountpoint exists
  faults,
  applied,  \* history: the targets the last Reload applied
  typed     \* history: the passwords saved in the second of the last save

vars == <<second, ctx, db, pc, form, seen, map, run, remote, faults, applied, typed>>

TypeOK ==
  /\ second \in Seconds /\ ctx \in {"off", "on", "done"} /\ db \in Stored
  /\ pc \in [Procs -> {"idle", "checked", "reload", "apply", "wait", "end"}]
  /\ form \in [Handlers -> [Targets -> Forms]] /\ seen \in [Procs -> Stored]
  /\ map \in [Targets -> 0..Len(run)]
  /\ run \in Seq([t : Targets, row : Rows, early : BOOLEAN, cancelled : BOOLEAN,
                  pc : {"new", "dial", "stream", "wait", "end"}])
  /\ \A t \in Targets : map[t] # 0 => run[map[t]].t = t /\ run[map[t]].row.on
  /\ remote \in BOOLEAN /\ faults \in 0..MaxFaults /\ applied \in Stored
  /\ typed \in [at : Seconds, of : [Targets -> SUBSET (Passwords \cup {NoPw})]]

Nothing == [t \in Targets |-> Absent]

Init ==
  /\ second = 0 /\ ctx = "off"
  /\ db \in [Targets -> {Absent} \cup [on : {TRUE}, addr : Addrs, pw : Passwords, at : {0}]]
  /\ pc = [p \in Procs |-> "idle"] /\ form = [h \in Handlers |-> Nothing]
  /\ seen = [p \in Procs |-> Nothing]
  /\ map = [t \in Targets |-> 0] /\ run = << >> /\ remote \in BOOLEAN /\ faults = 0
  /\ applied = Nothing
  /\ typed = [at |-> 0, of |-> [t \in Targets |-> IF db[t] = Absent THEN {} ELSE {db[t].pw}]]

Tick == /\ second < MaxSecond /\ second' = second + 1
        /\ UNCHANGED <<ctx, db, pc, form, seen, map, run, remote, faults, applied, typed>>

RemoteChanges ==
  /\ remote' = ~remote
  /\ UNCHANGED <<second, ctx, db, pc, form, seen, map, run, faults, applied, typed>>

(***************************************************************************)
(* handlePushoutSave and SavePushTargets                                   *)
(***************************************************************************)
HasPassword(t) == db[t] # Absent /\ db[t].pw # NoPw

\* an enabled target needs a password, its own or a stored one
Submit(h, f) ==
  /\ pc[h] = "idle"
  /\ \A t \in Targets : f[t] # Absent /\ f[t].on /\ f[t].pw = NoPw => HasPassword(t)
  /\ pc' = [pc EXCEPT ![h] = "checked"] /\ form' = [form EXCEPT ![h] = f]
  /\ UNCHANGED <<second, ctx, db, seen, map, run, remote, faults, applied, typed>>

\* a name that is already stored keeps its password when none is given
Row(t, f) ==
  IF f = Absent THEN Absent
  ELSE [on |-> f.on, addr |-> f.addr, at |-> second,
        pw |-> IF f.pw = NoPw /\ db[t] # Absent THEN db[t].pw ELSE f.pw]

Save(h) ==
  /\ pc[h] = "checked" /\ pc' = [pc EXCEPT ![h] = "reload"]
  /\ db' = [t \in Targets |-> Row(t, form[h][t])]
  /\ typed' = [at |-> second,
               of |-> [t \in Targets |->
                        (IF typed.at = second THEN typed.of[t] ELSE {})
                        \cup (IF db'[t] = Absent THEN {} ELSE {db'[t].pw})]]
  /\ form' = [form EXCEPT ![h] = Nothing]
  /\ UNCHANGED <<second, ctx, seen, map, run, remote, faults, applied>>

(***************************************************************************)
(* Manager.Run and Reload                                                  *)
(***************************************************************************)
RunStart ==
  /\ pc[Run] = "idle" /\ ctx' = "on" /\ pc' = [pc EXCEPT ![Run] = "reload"]
  /\ UNCHANGED <<second, db, form, seen, map, run, remote, faults, applied, typed>>

\* where a caller of Reload goes on
After(p) == pc' = [pc EXCEPT ![p] = IF p = Run THEN "wait" ELSE "end"]

ReadTargets(p) ==
  /\ pc[p] = "reload" /\ pc' = [pc EXCEPT ![p] = "apply"]
  /\ seen' = [seen EXCEPT ![p] = db]
  /\ UNCHANGED <<second, ctx, db, form, map, run, remote, faults, applied, typed>>

ReadFails(p) ==
  /\ pc[p] = "reload" /\ faults < MaxFaults /\ faults' = faults + 1 /\ After(p)
  /\ UNCHANGED <<second, ctx, db, form, seen, map, run, remote, applied, typed>>

\* mutant: updated_at is not compared
ChangedAddr(a, b) == a.addr # b.addr

\* the password is not compared; a save moves updated_at
Changed(a, b) == a.addr # b.addr \/ a.at # b.at

\* mutant: the runner is only forgotten
StoppedNot(i) == run[i]

\* r.cancel is nil until the goroutine has begun
Stopped(i) == [run[i] EXCEPT !.cancelled = @ \/ run[i].pc # "new",
                             !.early = @ \/ run[i].pc = "new"]

Wanted(p) == {t \in Targets : seen[p][t] # Absent /\ seen[p][t].on}

Apply(p) ==
  /\ pc[p] = "apply" /\ After(p) /\ seen' = [seen EXCEPT ![p] = Nothing]
  /\ IF ctx = "off" THEN UNCHANGED <<map, run, applied>> ELSE
       LET keep  == {t \in Wanted(p) : map[t] # 0 /\ ~Changed(run[map[t]].row, seen[p][t])}
           gone  == {map[t] : t \in {u \in Targets \ keep : map[u] # 0}}
           fresh == SetToSeq(Wanted(p) \ keep)
       IN  /\ run' = [i \in DOMAIN run |-> IF i \in gone THEN Stopped(i) ELSE run[i]]
                     \o [k \in DOMAIN fresh |->
                          [t |-> fresh[k], row |-> seen[p][fresh[k]], early |-> FALSE,
                           cancelled |-> FALSE, pc |-> "new"]]
           /\ map' = [t \in Targets |->
                        IF t \in keep THEN map[t]
                        ELSE IF t \in Wanted(p)
                          THEN Len(run) + CHOOSE k \in DOMAIN fresh : fresh[k] = t
                          ELSE 0]
           /\ applied' = seen[p]
  /\ UNCHANGED <<second, ctx, db, form, remote, faults, typed>>

Shutdown ==
  /\ ctx = "on" /\ ctx' = "done"
  /\ UNCHANGED <<second, db, pc, form, seen, map, run, remote, faults, applied, typed>>

StopAll ==
  /\ ctx = "done" /\ pc[Run] = "wait" /\ pc' = [pc EXCEPT ![Run] = "end"]
  /\ run' = [i \in DOMAIN run |-> IF map[run[i].t] = i THEN Stopped(i) ELSE run[i]]
  /\ map' = [t \in Targets |-> 0]
  /\ UNCHANGED <<second, ctx, db, form, seen, remote, faults, applied, typed>>

(***************************************************************************)
(* runner.run and session                                                  *)
(***************************************************************************)
\* mutant: the context is made from another parent
CancelledAlone(i) == run[i].cancelled

\* ctx.Err(): cancelled itself, or with its parent
Cancelled(i) == run[i].cancelled \/ ctx = "done"

Go(i, place) ==
  /\ run' = [run EXCEPT ![i].pc = IF Cancelled(i) THEN "end" ELSE place]
  /\ UNCHANGED <<second, ctx, db, pc, form, seen, map, remote, faults, applied, typed>>

Begin(i) == run[i].pc = "new" /\ Go(i, "dial")

Connect(i) == run[i].pc = "dial" /\ remote /\ ~Cancelled(i) /\ Go(i, "stream")

\* mutant: the loop ends with the first failure
SessionEndsForGood(i) ==
  run[i].pc \in {"dial", "stream"} /\ (~remote \/ Cancelled(i)) /\ Go(i, "end")

\* cancellation closes the connection, so that it ends a blocked write too
SessionEnds(i) ==
  run[i].pc \in {"dial", "stream"} /\ (~remote \/ Cancelled(i)) /\ Go(i, "wait")

Retry(i) == run[i].pc = "wait" /\ Go(i, "dial")

Runner(i) == Begin(i) \/ Connect(i) \/ SessionEnds(i) \/ Retry(i)
-----------------------------------------------------------------------------
Handler(h) == Save(h) \/ ReadTargets(h) \/ Apply(h)
Manager == RunStart \/ ReadTargets(Run) \/ Apply(Run) \/ StopAll

Next ==
  \/ Tick \/ RemoteChanges \/ Shutdown \/ Manager \/ ReadFails(Run)
  \/ \E h \in Handlers :
       Handler(h) \/ ReadFails(h) \/ \E f \in [Targets -> Forms] : Submit(h, f)
  \/ \E i \in DOMAIN run : Runner(i)

Spec == Init /\ [][Next]_vars

\* Goroutines run, and a backoff ends.  A runner exists when its index does:
\* at most one per Reload and target.
RunnerIds == 1..(Cardinality(Procs) * Cardinality(Targets))
Fairness ==
  /\ WF_vars(Manager) /\ \A h \in Handlers : WF_vars(Handler(h))
  /\ \A i \in RunnerIds : WF_vars(i \in DOMAIN run /\ Runner(i))

FairSpec == Spec /\ Fairness

-----------------------------------------------------------------------------
(***************************************************************************)
(* Properties                                                              *)
(***************************************************************************)
Follows(t) ==
  IF db[t] = Absent \/ ~db[t].on THEN map[t] = 0
  ELSE /\ map[t] # 0
       /\ run[map[t]].row.addr = db[t].addr /\ run[map[t]].row.pw = db[t].pw

\* Reload: after any history of saves, reloads of other requests and restarts
\* of runners, if the last Reload saw the targets as they are now stored, the
\* running set is that configuration, unless two passwords of a target were
\* saved within one second.
ReloadFollows ==
  ctx = "on" /\ applied = db =>
    \A t \in Targets : Cardinality(typed.of[t]) <= 1 => Follows(t)

\* A runner that is no longer listed is stopped, so that editing a target
\* never leaves its old upload running, unless Reload met it before its
\* goroutine had begun (OneRunnerPerTarget).
UnlistedIsStopped ==
  \A i \in DOMAIN run :
    map[run[i].t] # i /\ run[i].pc # "end" => Cancelled(i) \/ run[i].early

\* A runner that was stopped ends, wherever it was; and every runner ends with
\* the daemon, also one that nobody lists or that a late Reload starts.  (They
\* are finite, so there is a moment at which all that were stopped have ended.)
RunnersEnd ==
  []<>(\A i \in DOMAIN run : run[i].cancelled \/ ctx = "done" => run[i].pc = "end")

\* An enabled target's upload is established again after every failure, once
\* the remote caster takes it.
Uploads ==
  \A t \in Targets : <>[](remote /\ ctx = "on" /\ map[t] # 0)
                     => []<>(map[t] # 0 /\ run[map[t]].pc = "stream")

\* Stopped runners leave and listed ones keep coming back (runner.run's loop
\* has both duties in one select).
RunnersServe == RunnersEnd /\ Uploads

(***************************************************************************)
(* What comments of the code say, and the code does not do                 *)
(***************************************************************************)
\* "Manager owns one runner per enabled target": stop finds r.cancel nil in a
\* runner whose goroutine has not begun.
OneRunnerPerTarget ==
  ctx = "on" => \A t \in Targets :
    Cardinality({i \in DOMAIN run : run[i].t = t /\ ~run[i].cancelled
                                    /\ run[i].pc \in {"dial", "stream", "wait"}}) <= 1

\* "Reload brings the running set in line with the stored configuration": the
\* one that applies last may have read first.
ReloadInLine ==
  (ctx = "on" /\ faults = 0 /\ pc[Run] = "wait" /\ \A h \in Handlers : pc[h] \in {"idle", "end"})
    => \A t \in Targets : db[t] # Absent /\ db[t].on <=> map[t] # 0

\* changed compares "in any way that needs a reconnect": not a password saved
\* within the second of the last save.
ChangeReconnects == ctx = "on" /\ applied = db => \A t \in Targets : Follows(t)

\* "An enabled target with no password anywhere would connect and be refused
\* once a second; fail the save instead": the check is another transaction.
EnabledHasPassword == \A t \in Targets : db[t] # Absent /\ db[t].on => db[t].pw # NoPw
=============================================================================
