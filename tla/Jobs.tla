-------------------------------- MODULE Jobs --------------------------------
(***************************************************************************)
(* The RINEX downloader (internal/downloader) and its handlers             *)
(* (web/server.go): requests that start, share and cancel conversions, one *)
(* goroutine for each, the directories they work in, and the zip files     *)
(* that wait there to be fetched.                                          *)
(*                                                                         *)
(* A conversion is the same when its date, outputs, window and preset are. *)
(* A job is its place in the order of starting.  Time is left out: what    *)
(* has a deadline or a time to live may end at any moment.                 *)
(***************************************************************************)
EXTENDS Naturals, Sequences, FiniteSets

CONSTANTS
  Admins, Visitors,  \* who asks
  Conversions,       \* what is asked for
  Requests,          \* requests for a conversion over the daemons' lives
  AnonLimit,         \* anonymousConversions
  MaxRestart         \* bound: restarts

ASSUME JobsAssumption ==
  /\ AnonLimit \in Nat \ {0} /\ MaxRestart \in Nat
  /\ Admins \cap Visitors = {}  \* "admin:" and "visitor:" before the name

Owners  == Admins \cup Visitors
Running == {"begin", "inputs", "convert", "zip", "failed", "staged", "settle"}
Ended   == {"done", "cancelled", "error"}

VARIABLES
  up,        \* the daemon's context: "on", "stopping", "off"
  restarts,
  pc, ask,   \* place of a request, and what it asks for
  job,       \* d.jobs and the goroutine of each: see JobsTypeOK
  busy,      \* d.busy
  pending,   \* d.pending: the jobs whose zip can be fetched
  dirs,      \* working directories on the disk, by job
  crossed    \* history of the daemon's life: see Crossing

jobsVars == <<up, restarts, pc, ask, job, busy, pending, dirs, crossed>>

\* at: "gone" when the entry has expired, "lost" with the process;
\* ok: Process returns a result;  told: Cancel answered that it stops the job
JobsTypeOK ==
  /\ up \in {"on", "stopping", "off"} /\ restarts \in 0..MaxRestart
  /\ pc \in [Requests -> {"idle", "mine", "all", "start", "end"}]
  /\ ask \in [Requests -> [owner : Owners, conv : Conversions]]
  /\ job \in Seq([owner : Owners, conv : Conversions, at : Running \cup {"end", "gone", "lost"},
                  state : {"running"} \cup Ended, ok : BOOLEAN, told : BOOLEAN])
  /\ busy \subseteq Conversions
  /\ pending \subseteq DOMAIN job /\ dirs \subseteq DOMAIN job
  /\ crossed \in [own : SUBSET Visitors, all : BOOLEAN]

JobsInit ==
  /\ up = "on" /\ restarts = 0 /\ pc = [r \in Requests |-> "idle"]
  /\ ask \in [Requests -> [owner : Owners, conv : Conversions]]
  /\ job = << >> /\ busy = {} /\ pending = {} /\ dirs = {}
  /\ crossed = [own |-> {}, all |-> FALSE]

Shown     == {j \in DOMAIN job : job[j].at \notin {"gone", "lost"}}
Works     == {j \in Shown : job[j].state = "running"}
Anonymous == {j \in Works : job[j].owner \in Visitors}

(***************************************************************************)
(* handleDlProcess and StartJob                                            *)
(***************************************************************************)
GoOn(r, place) ==
  /\ pc' = [pc EXCEPT ![r] = place]
  /\ UNCHANGED <<up, restarts, ask, job, busy, pending, dirs>>

AskFor(r) ==
  /\ up = "on" /\ pc[r] = "idle" /\ UNCHANGED crossed
  /\ GoOn(r, IF ask[r].owner \in Admins THEN "start" ELSE "mine")

\* History: of these owners another request is past the check and has not
\* started its job, so the check does not count it.
Crossing(places, owners) == \E s \in Requests : pc[s] \in places /\ ask[s].owner \in owners

\* mutant: only one that makes the same is seen
CheckOwnSame(r) ==
  /\ up = "on" /\ pc[r] = "mine"
  /\ IF \E j \in Works : job[j].owner = ask[r].owner /\ job[j].conv = ask[r].conv
     THEN GoOn(r, "end") /\ UNCHANGED crossed
     ELSE GoOn(r, "all") /\ crossed' = IF Crossing({"all", "start"}, {ask[r].owner})
            THEN [crossed EXCEPT !.own = @ \cup {ask[r].owner}] ELSE crossed

\* RunningFor: one conversion for each visitor
CheckOwn(r) ==
  /\ up = "on" /\ pc[r] = "mine"
  /\ IF \E j \in Works : job[j].owner = ask[r].owner THEN GoOn(r, "end") /\ UNCHANGED crossed
     ELSE GoOn(r, "all") /\ crossed' = IF Crossing({"all", "start"}, {ask[r].owner})
            THEN [crossed EXCEPT !.own = @ \cup {ask[r].owner}] ELSE crossed

\* mutant: one too many
CheckAllOff(r) ==
  /\ up = "on" /\ pc[r] = "all"
  /\ \/ GoOn(r, "end") /\ UNCHANGED crossed
     \/ /\ Cardinality(Anonymous) <= AnonLimit /\ GoOn(r, "start")
        /\ crossed' = [crossed EXCEPT !.all = @ \/ Crossing({"start"}, Visitors)]

\* RunningAnonymous, and convertLimit: four an hour for each address
CheckAll(r) ==
  /\ up = "on" /\ pc[r] = "all"
  /\ \/ GoOn(r, "end") /\ UNCHANGED crossed
     \/ /\ Cardinality(Anonymous) < AnonLimit /\ GoOn(r, "start")
        /\ crossed' = [crossed EXCEPT !.all = @ \/ Crossing({"start"}, Visitors)]

\* a running job of the same owner is handed out again
StartJob(r) ==
  /\ up = "on" /\ pc[r] = "start" /\ pc' = [pc EXCEPT ![r] = "end"]
  /\ IF \E j \in Works : job[j].owner = ask[r].owner /\ job[j].conv = ask[r].conv
     THEN UNCHANGED job
     ELSE job' = Append(job, [owner |-> ask[r].owner, conv |-> ask[r].conv, at |-> "begin",
                              state |-> "running", ok |-> FALSE, told |-> FALSE])
  /\ UNCHANGED <<up, restarts, ask, busy, pending, dirs, crossed>>

\* Cancel ends the job's context
Cancel(j) ==
  /\ up = "on" /\ j \in Works /\ ~job[j].told
  /\ job' = [job EXCEPT ![j].told = TRUE]
  /\ UNCHANGED <<up, restarts, pc, ask, busy, pending, dirs, crossed>>

(***************************************************************************)
(* The goroutine of a job: Process                                         *)
(***************************************************************************)
At(j, place) == up # "off" /\ job[j].at = place
Go(j, place) == job' = [job EXCEPT ![j].at = place]
Blank(j, place) == [job[j] EXCEPT !.at = place, !.state = "done", !.ok = FALSE, !.told = FALSE]
rest == <<up, restarts, pc, ask, crossed>>

\* mutant: the second takes the place of the first
ReserveTwice(j) ==
  /\ At(j, "begin") /\ Go(j, "inputs") /\ busy' = busy \cup {job[j].conv}
  /\ UNCHANGED <<rest, pending, dirs>>

\* one conversion at a time; the second is an error, whoever asked for it
Reserve(j) ==
  /\ At(j, "begin")
  /\ IF job[j].conv \in busy THEN Go(j, "settle") /\ UNCHANGED busy
     ELSE Go(j, "inputs") /\ busy' = busy \cup {job[j].conv}
  /\ UNCHANGED <<rest, pending, dirs>>

\* no raw data, nothing recorded yet, no directory: an error
NoInputs(j) == At(j, "inputs") /\ Go(j, "failed") /\ UNCHANGED <<rest, busy, pending, dirs>>

MakeDir(j) ==
  /\ At(j, "inputs") /\ Go(j, "convert") /\ dirs' = dirs \cup {j}
  /\ UNCHANGED <<rest, busy, pending>>

\* convbin on each raw file, an error of one is noted; the context is looked at
\* before each
Convert(j) ==
  /\ At(j, "convert") /\ ~job[j].told /\ Go(j, "zip")
  /\ UNCHANGED <<rest, busy, pending, dirs>>

\* the context ends, or every file times out, or nothing comes out
ConvertFails(j) ==
  /\ At(j, "convert") /\ Go(j, "failed") /\ UNCHANGED <<rest, busy, pending, dirs>>

ZipFails(j) == At(j, "zip") /\ Go(j, "failed") /\ UNCHANGED <<rest, busy, pending, dirs>>

\* nothing looks at the context any more
Zip(j) ==
  /\ At(j, "zip") /\ job' = [job EXCEPT ![j].at = "staged", ![j].ok = TRUE]
  /\ pending' = pending \cup {j} /\ UNCHANGED <<rest, busy, dirs>>

\* mutant: a failed conversion leaves its files
CleanUpNot(j) ==
  /\ At(j, "failed") /\ Go(j, "staged") /\ UNCHANGED <<rest, busy, pending, dirs>>

\* the deferred calls: RemoveAll unless the zip is staged, then busy
CleanUp(j) ==
  /\ At(j, "failed") /\ Go(j, "staged") /\ dirs' = dirs \ {j}
  /\ UNCHANGED <<rest, busy, pending>>

\* mutant: only a result takes the conversion out of busy
ReleaseDone(j) ==
  /\ At(j, "staged") /\ Go(j, "settle")
  /\ busy' = IF job[j].ok THEN busy \ {job[j].conv} ELSE busy
  /\ UNCHANGED <<rest, pending, dirs>>

Release(j) ==
  /\ At(j, "staged") /\ Go(j, "settle") /\ busy' = busy \ {job[j].conv}
  /\ UNCHANGED <<rest, pending, dirs>>

\* mutant: the entry of a cancelled job is left as it is
SettleUnlessCancelled(j) ==
  /\ At(j, "settle") /\ ~(job[j].told /\ ~job[j].ok)
  /\ job' = [job EXCEPT ![j].at = "end", ![j].state = IF job[j].ok THEN "done" ELSE "error"]
  /\ UNCHANGED <<rest, busy, pending, dirs>>

\* the goroutine of StartJob after Process
Settle(j) ==
  /\ At(j, "settle")
  /\ job' = [job EXCEPT ![j].at = "end",
                         ![j].state = IF job[j].ok THEN "done"
                                      ELSE IF job[j].told THEN "cancelled" ELSE "error"]
  /\ UNCHANGED <<rest, busy, pending, dirs>>

Process(j) ==
  \/ Reserve(j) \/ NoInputs(j) \/ MakeDir(j) \/ Convert(j) \/ ConvertFails(j)
  \/ Zip(j) \/ ZipFails(j) \/ CleanUp(j) \/ Release(j) \/ Settle(j)

(***************************************************************************)
(* Sweep, and the process                                                  *)
(***************************************************************************)
\* mutant: the files are left when the link ends
ExpireLink(j) ==
  /\ up = "on" /\ j \in pending /\ pending' = pending \ {j}
  /\ UNCHANGED <<rest, job, busy, dirs>>

\* fifteen minutes after the zip was made
Expire(j) ==
  /\ up = "on" /\ j \in pending /\ pending' = pending \ {j} /\ dirs' = dirs \ {j}
  /\ UNCHANGED <<rest, job, busy>>

\* thirty minutes after the job ended
ExpireJob(j) ==
  /\ up = "on" /\ j \in Shown \ (Works \cup pending)
  /\ job' = [job EXCEPT ![j] = Blank(j, "gone")]
  /\ UNCHANGED <<rest, busy, pending, dirs>>

\* Sweep removes what is staged; conversions have a context of their own
Stop ==
  /\ up = "on" /\ restarts < MaxRestart /\ up' = "stopping"
  /\ pending' = {} /\ dirs' = dirs \ pending
  /\ UNCHANGED <<restarts, pc, ask, job, busy, crossed>>

\* the end of main, or a crash
ProcessExit ==
  /\ up # "off" /\ restarts < MaxRestart /\ up' = "off"
  /\ job' = [j \in DOMAIN job |-> IF j \in Shown THEN Blank(j, "lost") ELSE job[j]]
  /\ pc' = [r \in Requests |-> IF pc[r] = "idle" THEN "idle" ELSE "end"]
  /\ busy' = {} /\ pending' = {} /\ crossed' = [own |-> {}, all |-> FALSE]
  /\ UNCHANGED <<restarts, ask, dirs>>

ProcessStart ==
  /\ up = "off" /\ up' = "on" /\ restarts' = restarts + 1
  /\ UNCHANGED <<pc, ask, job, busy, pending, dirs, crossed>>

Handler(r) == AskFor(r) \/ CheckOwn(r) \/ CheckAll(r) \/ StartJob(r)

JobsNext ==
  \/ \E r \in Requests : Handler(r)
  \/ \E j \in DOMAIN job : Cancel(j) \/ Process(j) \/ Expire(j) \/ ExpireJob(j)
  \/ Stop \/ ProcessExit \/ ProcessStart

JobsSpec == JobsInit /\ [][JobsNext]_jobsVars

JobIds   == 1..Cardinality(Requests)
Fairness == \A i \in JobIds : WF_jobsVars(i \in DOMAIN job /\ Process(i))
JobsFairSpec == JobsSpec /\ Fairness

(***************************************************************************)
(* Properties                                                              *)
(***************************************************************************)
\* A directory on the disk belongs to a conversion under way or to a zip that
\* can be fetched, however conversions fail, are cancelled and expire side by
\* side, and a link that works has its file.  What a process left when it
\* ended, and a zip that is staged after Sweep has ended, stay (see README).
StagedIsOwned ==
  /\ pending \subseteq dirs
  /\ \A j \in dirs \ pending : job[j].at \in {"convert", "zip", "failed", "lost"}

\* The same conversion is never made twice at once, and nothing is taken for
\* busy that is not.
OneAtATime ==
  LET inside == {j \in DOMAIN job : job[j].at \in {"inputs", "convert", "zip", "failed", "staged"}}
  IN  /\ \A i, j \in inside : job[i].conv = job[j].conv => i = j
      /\ busy = {job[j].conv : j \in inside}

\* "no more than two may run at once across all of them", unless requests overlap
\* between the count and the start, and one for each visitor, unless two of the
\* same visitor overlap between the first check and the start.
AnonymousIsBounded ==
  /\ crossed.all \/ Cardinality(Anonymous) <= AnonLimit
  /\ \A i, j \in Anonymous : job[i].owner = job[j].owner => i = j \/ job[i].owner \in crossed.own

\* What conversions use is what they may use: directories, keys and the budget
\* of the public page.
ConversionsAreBounded == StagedIsOwned /\ OneAtATime /\ AnonymousIsBounded

\* Every job ends while the daemon runs, also one that is cancelled, that finds
\* its conversion taken or that fails in the middle.  (Requests are finite, so
\* there is a moment at which all have ended.)
EveryJobEnds == []<>(\A i \in DOMAIN job : job[i].at \in {"end", "gone", "lost"})

(***************************************************************************)
(* What comments of the code say, and the code does not do                 *)
(***************************************************************************)
\* "no more than two may run at once": the count is taken before the start.
AnonymousLimit == Cardinality(Anonymous) <= AnonLimit

\* "hand back the running one instead of starting a second": only to the same
\* owner; another one gets an error.
RunningIsShared == \A j \in DOMAIN job : job[j].state = "error" =>
  ~\E i \in Works : i # j /\ job[i].conv = job[j].conv /\ job[i].at # "settle"

\* "Cancel stops a running conversion": not one that is past convbin.
CancelStops == \A j \in DOMAIN job : job[j].told => job[j].state # "done"
=============================================================================
