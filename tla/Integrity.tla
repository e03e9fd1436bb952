------------------------------ MODULE Integrity ------------------------------
(***************************************************************************)
(* The external integrity check (internal/integrity/monitor.go, the        *)
(* handlers of web/integrity_api.go and the rows of store/integrity.go):   *)
(* one comparison at a time, started by hand or once a day by the          *)
(* scheduler, with a private feed of raw data for rtkrcv and a goroutine   *)
(* that reads what rtkrcv has solved so far.                               *)
(*                                                                         *)
(* A run is its place in the order of starting.  Its solutions are counted *)
(* up to Enough, the number selectSolutions asks for.                      *)
(***************************************************************************)
EXTENDS Naturals, Sequences, FiniteSets

CONSTANTS
  Enough,     \* solutions that make a measurement
  MaxRun,     \* bound: calls of Run
  MaxDay,     \* bound: days
  MaxFault    \* bound: failures of the database

ASSUME IntegrityAssumption ==
  Enough \in Nat \ {0} /\ MaxRun \in Nat /\ MaxDay \in Nat /\ MaxFault \in Nat

VARIABLES
  up,       \* the daemon runs; when it stops, handlers and scheduler do so first
  day,
  minute,   \* the scheduled minute, in which the scheduler ticks twice
  run,      \* the calls of Run, and their rows: see TypeOK
  monitor,  \* what m.mu guards
  feed,     \* the runs whose feed has its serving goroutine
  watch,    \* the watching goroutine of each run
  fault

vars == <<up, day, minute, run, monitor, feed, watch, fault>>

\* from: when Cancel answered that it stops the run, before or after Run looked;
\* alone: no run was under way when the scheduler looked
TypeOK ==
  /\ up \in BOOLEAN /\ day \in 0..MaxDay /\ minute \in BOOLEAN
  /\ run \in Seq([by : {"admin", "schedule"}, alone : BOOLEAN, day : 0..MaxDay,
                  at : {"called", "prepare", "observe", "judge", "save", "leave", "end"},
                  solved : 0..Enough, from : {"", "early", "late"},
                  status : {"", "error", "cancelled", "measured"}, row : BOOLEAN])
  /\ monitor \in [running : BOOLEAN, cancel : BOOLEAN, cancelled : BOOLEAN, shows : 0..MaxRun]
  /\ feed \subseteq 1..MaxRun /\ watch \in [1..MaxRun -> {"off", "wait", "read"}]
  /\ fault \in 0..MaxFault

Idle == [running |-> FALSE, cancel |-> FALSE, cancelled |-> FALSE, shows |-> 0]

Init ==
  /\ up = TRUE /\ day = 0 /\ minute = TRUE /\ run = << >> /\ monitor = Idle
  /\ feed = {} /\ watch = [r \in 1..MaxRun |-> "off"] /\ fault = 0

Calls      == DOMAIN run
UnderWay   == {r \in Calls : run[r].at # "end"}
Inside     == {r \in UnderWay : run[r].at # "called"}
Rows       == {r \in Calls : run[r].row}
ByDatabase == fault < MaxFault /\ fault' = fault + 1
At(r, place) == up /\ r \in Calls /\ run[r].at = place

Call(who) ==
  /\ Len(run) < MaxRun
  /\ run' = Append(run, [by |-> who, alone |-> who = "admin" \/ UnderWay = {}, day |-> 0, at |-> "called",
                         solved |-> 0, from |-> "", status |-> "", row |-> FALSE])

(***************************************************************************)
(* The scheduler and the handlers                                          *)
(***************************************************************************)
\* mutant: the latest row is not looked at
TickRunsAgain ==
  /\ up /\ minute /\ Call("schedule") /\ UNCHANGED <<up, day, minute, monitor, feed, watch, fault>>

\* The scheduler in its minute, when the latest row is not of today.
TickRuns ==
  /\ up /\ minute /\ \A r \in Rows : run[r].day # day
  /\ Call("schedule") /\ UNCHANGED <<up, day, minute, monitor, feed, watch, fault>>

\* the error of the latest row is ignored: none is as good as none of today
TickBlind ==
  /\ up /\ minute /\ ByDatabase
  /\ Call("schedule") /\ UNCHANGED <<up, day, minute, monitor, feed, watch>>

\* handleIntegrityRun: answers 202 before Run has looked again
AskRun ==
  /\ up /\ ~monitor.running /\ Call("admin")
  /\ UNCHANGED <<up, day, minute, monitor, feed, watch, fault>>

\* Cancel, when there is a cancel function
Cancel ==
  /\ up /\ monitor.running /\ monitor.cancel /\ ~monitor.cancelled
  /\ monitor' = [monitor EXCEPT !.cancelled = TRUE]
  /\ run' = [r \in Calls |-> IF r \in Inside THEN [run[r] EXCEPT !.from =
               IF run[r].at \in {"observe", "judge"} THEN "early" ELSE "late"] ELSE run[r]]
  /\ UNCHANGED <<up, day, minute, feed, watch, fault>>

(***************************************************************************)
(* Run                                                                     *)
(***************************************************************************)
\* of a run that is over, only that there is a row of its day is read again
Over(r) == [run[r] EXCEPT !.at = "end", !.solved = 0, !.from = "", !.status = ""]

Go(r, place) == run' = [run EXCEPT ![r].at = place]
rest == <<up, day, minute>>

Refuse(r) ==
  /\ At(r, "called") /\ monitor.running /\ Go(r, "end")
  /\ UNCHANGED <<rest, monitor, feed, watch, fault>>

\* mutant: the flag of an earlier run is still up
EnterDirty(r) ==
  /\ At(r, "called") /\ ~monitor.running
  /\ monitor' = [monitor EXCEPT !.running = TRUE, !.cancel = FALSE, !.shows = r]
  /\ run' = [run EXCEPT ![r].at = "prepare", ![r].day = day]
  /\ UNCHANGED <<rest, feed, watch, fault>>

Enter(r) ==
  /\ At(r, "called") /\ ~monitor.running
  /\ monitor' = [Idle EXCEPT !.running = TRUE, !.shows = r]
  /\ run' = [run EXCEPT ![r].at = "prepare", ![r].day = day]
  /\ UNCHANGED <<rest, feed, watch, fault>>

\* no settings, and then no row; no credentials, directory, feed or file: an error
PrepareFails(r) ==
  /\ At(r, "prepare")
  /\ \/ Go(r, "leave") /\ ByDatabase
     \/ run' = [run EXCEPT ![r].at = "save", ![r].status = "error"] /\ UNCHANGED fault
  /\ UNCHANGED <<rest, monitor, feed, watch>>

\* the feed, the cancel function, the watcher and rtkrcv
Prepare(r) ==
  /\ At(r, "prepare") /\ Go(r, "observe")
  /\ monitor' = [monitor EXCEPT !.cancel = TRUE]
  /\ feed' = feed \cup {r} /\ watch' = [watch EXCEPT ![r] = "wait"]
  /\ UNCHANGED <<rest, fault>>

\* rtkrcv solves while it is fed
Solve(r) ==
  /\ At(r, "observe") /\ r \in feed /\ run[r].solved < Enough
  /\ run' = [run EXCEPT ![r].solved = @ + 1] /\ UNCHANGED <<rest, monitor, feed, watch, fault>>

\* cmd.Run returns at the deadline, by Cancel, because the daemon stops (a
\* scheduled run has its context), or because rtkrcv ends by itself
Returns(r) ==
  /\ At(r, "observe") /\ Go(r, "judge") /\ UNCHANGED <<rest, monitor, feed, watch, fault>>

\* mutant: whether it was cancelled is not asked
JudgeAnyway(r) ==
  /\ At(r, "judge")
  /\ run' = [run EXCEPT ![r].at = "save",
                        ![r].status = IF run[r].solved = Enough THEN "measured" ELSE "error"]
  /\ UNCHANGED <<rest, monitor, feed, watch, fault>>

\* wasCancelled, then what was solved
Judge(r) ==
  /\ At(r, "judge")
  /\ run' = [run EXCEPT ![r].at = "save",
                        ![r].status = IF monitor.cancelled THEN "cancelled"
                                      ELSE IF run[r].solved = Enough THEN "measured" ELSE "error"]
  /\ UNCHANGED <<rest, monitor, feed, watch, fault>>

\* finish
SaveRow(r) ==
  /\ At(r, "save")
  /\ \/ run' = [run EXCEPT ![r].at = "leave", ![r].row = TRUE] /\ UNCHANGED fault
     \/ Go(r, "leave") /\ ByDatabase
  /\ UNCHANGED <<rest, monitor, feed, watch>>

\* mutant: an early return leaves running set
LeaveRunning(r) ==
  /\ At(r, "leave") /\ run' = [run EXCEPT ![r] = Over(r)]
  /\ monitor' = IF run[r].row THEN [monitor EXCEPT !.running = FALSE, !.cancel = FALSE] ELSE monitor
  /\ UNCHANGED <<rest, feed, watch, fault>>

\* the deferred calls; the feed is closed by them
Leave(r) ==
  /\ At(r, "leave") /\ run' = [run EXCEPT ![r] = Over(r)]
  /\ monitor' = [monitor EXCEPT !.running = FALSE, !.cancel = FALSE]
  /\ UNCHANGED <<rest, feed, watch, fault>>

Run(r) == \/ Refuse(r) \/ Enter(r) \/ PrepareFails(r) \/ Prepare(r) \/ Returns(r)
          \/ Judge(r) \/ SaveRow(r) \/ Leave(r)

(***************************************************************************)
(* The goroutines of a run                                                 *)
(***************************************************************************)
Closed(r) == run[r].at = "end"

\* serve takes one connection: when a write fails or is late, rtkrcv is not
\* fed for the rest of its run
FeedBreaks(r) ==
  /\ At(r, "observe") /\ r \in feed /\ feed' = feed \ {r}
  /\ UNCHANGED <<rest, run, monitor, watch, fault>>

\* Close: the listener, the subscription and done
FeedEnds(r) ==
  /\ up /\ r \in feed /\ Closed(r) /\ feed' = feed \ {r}
  /\ UNCHANGED <<rest, run, monitor, watch, fault>>

\* every three seconds; a file without solutions shows nothing
WatchReads(r) ==
  /\ At(r, "observe") /\ watch[r] = "wait" /\ run[r].solved > 0 /\ watch' = [watch EXCEPT ![r] = "read"]
  /\ UNCHANGED <<rest, run, monitor, feed, fault>>

\* observe: whatever run it is that the monitor shows by then
WatchShows(r) ==
  /\ up /\ r \in Calls /\ watch[r] = "read" /\ watch' = [watch EXCEPT ![r] = "wait"]
  /\ monitor' = [monitor EXCEPT !.shows = r]
  /\ UNCHANGED <<rest, run, feed, fault>>

\* mutant: the end is sent, and not closed: one that reads just then misses it
WatchEndsSent(r) ==
  /\ At(r, "judge") /\ watch[r] = "wait" /\ watch' = [watch EXCEPT ![r] = "off"]
  /\ UNCHANGED <<rest, run, monitor, feed, fault>>

WatchEnds(r) ==
  /\ up /\ r \in Calls /\ run[r].at \notin {"called", "prepare", "observe"}
  /\ watch[r] = "wait" /\ watch' = [watch EXCEPT ![r] = "off"]
  /\ UNCHANGED <<rest, run, monitor, feed, fault>>

Helpers(r) == FeedEnds(r) \/ WatchShows(r) \/ WatchEnds(r)

(***************************************************************************)
(* Days, and the process                                                   *)
(***************************************************************************)
Midnight ==
  /\ day < MaxDay /\ day' = day + 1 /\ minute' = TRUE
  /\ UNCHANGED <<up, run, monitor, feed, watch, fault>>

MinutePasses ==
  /\ minute /\ minute' = FALSE /\ UNCHANGED <<up, day, run, monitor, feed, watch, fault>>

\* the end of main, or a crash
Exit ==
  /\ up /\ up' = FALSE /\ monitor' = Idle
  /\ run' = [r \in Calls |-> Over(r)]
  /\ feed' = {} /\ watch' = [r \in 1..MaxRun |-> "off"]
  /\ UNCHANGED <<day, minute, fault>>

Restart ==
  /\ ~up /\ Len(run) < MaxRun /\ up' = TRUE
  /\ UNCHANGED <<day, minute, run, monitor, feed, watch, fault>>

Next ==
  \/ TickRuns \/ TickBlind \/ AskRun \/ Cancel
  \/ \E r \in 1..MaxRun : Run(r) \/ Solve(r) \/ Helpers(r) \/ FeedBreaks(r) \/ WatchReads(r)
  \/ Midnight \/ MinutePasses \/ Exit \/ Restart

Spec == Init /\ [][Next]_vars

\* Each goroutine goes on; rtkrcv is killed at its deadline.
FairSpec == Spec /\ \A r \in 1..MaxRun : WF_vars(Run(r)) /\ WF_vars(Helpers(r))

(***************************************************************************)
(* Properties                                                              *)
(***************************************************************************)
\* One run at a time, and the flags are those of that run: nobody is kept out
\* by a run that has ended, and none is without its cancel function while
\* rtkrcv works.
OneRun ==
  /\ Cardinality(Inside) <= 1 /\ (monitor.running <=> Inside # {})
  /\ \A r \in Inside : run[r].at = "observe" => monitor.cancel

\* "The partial result is discarded rather than recorded as a measurement", and
\* only a run that was cancelled is recorded so: no flag outlives its run.
CancelIsKept == \A r \in Rows : run[r].status = "cancelled" <=> run[r].from = "early"

\* "one check per UTC day", unless the scheduler looked while a run was under
\* way or the database failed, and a row of the day keeps the scheduler quiet.
OneADay ==
  fault > 0 \/ \A r, s \in Rows :
    /\ run[r].by = "schedule" /\ run[s].by = "schedule" /\ run[r].alone /\ run[s].alone
    /\ run[r].day = run[s].day
    => r = s

\* What is recorded is what happened, run by run and day by day.
RowsAreTrue == OneRun /\ CancelIsKept /\ OneADay

\* A run ends and gives back what it holds: the place, the feed and the reader.
\* (Runs are finite, so there is a moment at which all have ended.)
RunsEnd == []<>(\A r \in Calls : Closed(r) /\ r \notin feed /\ watch[r] = "off")

(***************************************************************************)
(* What comments of the code say, and the code does not do                 *)
(***************************************************************************)
\* "Cancel ... reports whether there was one to stop": not while one prepares,
CancelKnows == monitor.running => monitor.cancel

\* and yes when it is too late to stop it.
CancelStops == \A r \in Rows : run[r].from # "" => run[r].status = "cancelled"

\* "the numbers on screen during the run are the numbers that will be recorded"
ShowsItsOwn == \A r \in Inside : monitor.shows = r
=============================================================================
