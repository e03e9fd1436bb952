------------------------------ MODULE Archive ------------------------------
(***************************************************************************)
(* An archive writer (internal/archive/writer.go): frames from a hub       *)
(* subscription go to a dated file in the local spool; the file is copied  *)
(* to a network share while it grows and leaves the spool when its period  *)
(* has ended and the share has all of it.  The daemon may stop or crash,   *)
(* the share may be away, fail or take part of an append, and another      *)
(* recorder may use the same names.                                        *)
(*                                                                         *)
(* One goroutine does everything: pc is its place, at the points where a   *)
(* crash, the share or another writer make a difference.  A file is its    *)
(* period; its content is the sequence of the frames in it, and 0 is a     *)
(* piece of another recorder's data.                                       *)
(***************************************************************************)
EXTENDS Integers, SequencesExt, FiniteSetsExt

CONSTANTS
  MaxPeriod,   \* bound: periods (SwapHours each)
  MaxAlt,      \* alternative names tried on the share: .psgnss, .psgnss-2, ...
  Queue,       \* capacity of the subscription
  MaxFrame,    \* bound: frames
  MaxFaults,   \* bound: share operations that fail while the share is there
  MaxCrashes,  \* bound: crashes of the daemon
  MaxLate      \* bound: files another recorder creates while the daemon runs

Periods == 1..MaxPeriod
Names   == Periods \X (0..MaxAlt)
Frames  == 1..MaxFrame
None    == <<0, 0>>
Torn    == <<0, 1>>   \* a sidecar truncated but not yet written

ASSUME ArchiveAssumption ==
  /\ MaxPeriod \in Nat \ {0} /\ Queue \in Nat \ {0}
  /\ MaxAlt \in Nat /\ MaxFrame \in Nat
  /\ MaxFaults \in Nat /\ MaxCrashes \in Nat /\ MaxLate \in Nat

VARIABLES
  now,             \* the period the clock is in
  arrived, q, lost,\* frames the hub dispatched, the subscription, dropped there
  pc, job,         \* place of the goroutine, and what it works for
  cur, dest, buf,  \* curName (0: none), curDest, the bufio.Writer
  hand, want,      \* Write's arguments across a rotation: the frame and its period
  file, target,    \* name and dest of finishOnShare and flushToDest
  todo,            \* entries FlushPending has yet to look at
  spooled, spool,  \* files in the spool, and what every one holds or held
  side,            \* the sidecar of a spool file
  files, share,    \* files on the share, and their content
  up,              \* the share is reachable
  foreign, late,   \* names another recorder made, and how many while running
  contested,       \* history: names both have taken
  cuts,            \* history: per period, updates cut between two of their steps
  faults, crashes

clock == <<now, arrived, q, lost>>
open  == <<cur, dest, buf, hand, want>>
work  == <<file, target, todo>>
disk  == <<spooled, spool, side>>
net   == <<files, share>>
world == <<up, foreign, late, contested, cuts, crashes>>
vars  == <<now, arrived, q, lost, pc, job, cur, dest, buf, hand, want, file, target, todo,
           spooled, spool, side, files, share, up, foreign, late, contested, cuts, faults,
           crashes>>

TypeOK ==
  /\ now \in Periods /\ arrived \in 0..MaxFrame /\ lost \in 0..MaxFrame
  /\ q \in Seq(Frames) /\ Len(q) <= Queue
  /\ pc \in {"down", "open", "opened", "idle", "topup", "save", "saved", "close",
             "finish", "clear", "remove", "sweep", "copy"}
  /\ job \in {"boot", "next", "tick", "rotate", "stop", "sweep"}
  /\ cur \in 0..MaxPeriod /\ dest \in Names \cup {None}
  /\ buf \in Seq(Frames) /\ hand \in 0..MaxFrame /\ want \in Periods
  /\ file \in 0..MaxPeriod /\ target \in Names \cup {None} /\ todo \subseteq Periods
  /\ spooled \subseteq Periods /\ spool \in [Periods -> Seq(Frames)]
  /\ side \in [Periods -> Names \cup {None, Torn}]
  /\ files \subseteq Names /\ share \in [Names -> Seq(0..MaxFrame)]
  /\ up \in BOOLEAN /\ foreign \subseteq Names /\ late \in 0..MaxLate
  /\ contested \subseteq Names /\ cuts \in [Periods -> Nat]
  /\ faults \in 0..MaxFaults /\ crashes \in 0..MaxCrashes

\* the share may already hold files of the same names
Init ==
  /\ now = 1 /\ arrived = 0 /\ q = << >> /\ lost = 0
  /\ pc = "down" /\ job = "boot" /\ cur = 0 /\ dest = None /\ buf = << >>
  /\ hand = 0 /\ want = 1 /\ file = 0 /\ target = None /\ todo = {}
  /\ spooled = {} /\ spool = [p \in Periods |-> << >>]
  /\ side = [p \in Periods |-> None]
  /\ foreign \in SUBSET {<<p, 0>> : p \in Periods} /\ files = foreign
  /\ share = [n \in Names |-> IF n \in foreign THEN <<0>> ELSE << >>]
  /\ up \in BOOLEAN /\ late = 0 /\ contested = {} /\ cuts = [p \in Periods |-> 0]
  /\ faults = 0 /\ crashes = 0

(***************************************************************************)
(* The world                                                               *)
(***************************************************************************)
\* places where the goroutine may wait for the share
AtShare == pc \in {"open", "topup", "finish", "copy"}

\* Hub.dispatch.  Local work, and a share that answers, keep up with the
\* receiver: frames are dropped only while the goroutine waits for a share that
\* is away.
Arrive ==
  /\ pc # "down" /\ arrived < MaxFrame /\ arrived' = arrived + 1
  /\ \/ Len(q) < Queue /\ q' = Append(q, arrived') /\ UNCHANGED lost
     \/ Len(q) = Queue /\ AtShare /\ ~up /\ lost' = lost + 1 /\ UNCHANGED q
  /\ UNCHANGED <<now, pc, job, faults, open, work, disk, net, world>>

Midnight ==
  /\ now < MaxPeriod /\ now' = now + 1
  /\ UNCHANGED <<arrived, q, lost, pc, job, faults, open, work, disk, net, world>>

ShareChanges ==
  /\ up' = ~up
  /\ UNCHANGED <<clock, pc, job, faults, open, work, disk, net, foreign, late,
                 contested, cuts, crashes>>

\* the name is the destination of a file in the spool
Wanted(n) == n = dest \/ \E p \in Periods : side[p] = n

\* another recorder starts its file of the period; it does so at the boundary
Foreign(p) ==
  /\ up /\ late < MaxLate /\ late' = late + 1 /\ <<p, 0>> \notin files
  /\ files' = files \cup {<<p, 0>>} /\ foreign' = foreign \cup {<<p, 0>>}
  /\ share' = [share EXCEPT ![<<p, 0>>] = <<0>>]
  /\ contested' = IF Wanted(<<p, 0>>) THEN contested \cup {<<p, 0>>} ELSE contested
  /\ UNCHANGED <<clock, pc, job, faults, open, work, disk, up, cuts, crashes>>

\* one operation on the share fails
Fault ==
  IF up THEN faults < MaxFaults /\ faults' = faults + 1 ELSE UNCHANGED faults

Start ==
  /\ pc = "down" /\ pc' = "open" /\ job' = "boot" /\ want' = now
  /\ UNCHANGED <<clock, cur, dest, buf, hand, work, disk, net, world, faults>>

\* what was buffered or queued is gone
Gone == /\ pc' = "down" /\ q' = << >> /\ buf' = << >> /\ cur' = 0 /\ dest' = None
        /\ hand' = 0 /\ todo' = {} /\ file' = 0 /\ target' = None

\* inside os.WriteFile of the sidecar, or after it was removed and before the
\* spool file is
Crash ==
  /\ pc # "down" /\ crashes < MaxCrashes /\ crashes' = crashes + 1 /\ Gone
  /\ cuts' = CASE pc = "saved"  -> [cuts EXCEPT ![cur] = @ + 1]
               [] pc = "remove" -> [cuts EXCEPT ![file] = @ + 1]
               [] OTHER -> cuts
  /\ UNCHANGED <<now, arrived, lost, job, want, disk, net, up, foreign, late, contested, faults>>

(***************************************************************************)
(* open                                                                    *)
(***************************************************************************)
\* resolveDest: the first free name of a period
Free(p) == {k \in 0..MaxAlt : <<p, k>> \notin files}
FreeName(p) == IF Free(p) = {} THEN None ELSE <<p, Min(Free(p))>>

\* mutant: the spool file is truncated
OpenFileTruncates ==
  /\ cur' = want /\ spooled' = spooled \cup {want} /\ buf' = << >>
  /\ spool' = [spool EXCEPT ![want] = << >>]
  /\ UNCHANGED <<clock, job, hand, want, work, side, net, world>>

\* O_CREATE and O_APPEND: a restart goes on with the file of the period
OpenFile ==
  /\ cur' = want /\ spooled' = spooled \cup {want} /\ buf' = << >>
  /\ UNCHANGED <<clock, job, hand, want, work, spool, side, net, world>>

\* MkdirAll fails: the file has no destination
OpenAlone ==
  /\ pc = "open" /\ Fault /\ OpenFile
  /\ dest' = None /\ pc' = "opened"

\* mutant: the sidecar is not read
OpenForgets ==
  /\ pc = "open" /\ up /\ side[want] \in Names /\ OpenFile
  /\ dest' = FreeName(want) /\ UNCHANGED faults
  /\ pc' = IF dest' = None THEN "opened" ELSE "save"

\* loadState
OpenResume ==
  /\ pc = "open" /\ up /\ side[want] \in Names /\ OpenFile
  /\ dest' = side[want] /\ pc' = "opened" /\ UNCHANGED faults

\* resolveDest takes a name for taken when it cannot tell
OpenFresh ==
  /\ pc = "open" /\ side[want] \notin Names /\ OpenFile
  /\ \/ up /\ UNCHANGED faults /\ dest' = FreeName(want)
     \/ up /\ Fault /\ \E k \in Free(want) : dest' = <<want, k>>
     \/ Fault /\ dest' = None
  /\ pc' = IF dest' = None THEN "opened" ELSE "save"

\* Run goes on to FlushPending, Write with its frame
Opened ==
  /\ pc = "opened"
  /\ IF job = "boot"
       THEN pc' = "sweep" /\ job' = "sweep" /\ todo' = spooled \ {cur} /\ UNCHANGED <<buf, hand>>
       ELSE pc' = "idle" /\ buf' = <<hand>> /\ hand' = 0 /\ UNCHANGED <<job, todo>>
  /\ UNCHANGED <<clock, cur, dest, want, file, target, disk, net, world, faults>>

(***************************************************************************)
(* Write                                                                   *)
(***************************************************************************)
\* the file of this period, or of the last one within SwapMargin; a full
\* buffer goes to the file
Write ==
  /\ pc = "idle" /\ q # << >> /\ q' = Tail(q) /\ cur >= now - 1
  /\ \/ buf' = Append(buf, Head(q)) /\ UNCHANGED spool
     \/ buf' = << >> /\ spool' = [spool EXCEPT ![cur] = @ \o Append(buf, Head(q))]
  /\ UNCHANGED <<now, arrived, lost, pc, job, cur, dest, hand, want, work, spooled, side,
                 net, world, faults>>

\* syncToDest: without a destination it does nothing, and closeCurrent flushes
Sync(why) ==
  /\ job' = why /\ buf' = << >>
  /\ spool' = [spool EXCEPT ![cur] = @ \o buf]
  /\ pc' = IF dest = None THEN "close" ELSE "topup"

Rotate ==
  /\ pc = "idle" /\ q # << >> /\ cur < now
  /\ q' = Tail(q) /\ hand' = Head(q) /\ want' = now /\ Sync("rotate")
  /\ UNCHANGED <<now, arrived, lost, cur, dest, work, spooled, side, net, world, faults>>

SyncTick ==
  /\ pc = "idle" /\ dest # None /\ Sync("tick")
  /\ UNCHANGED <<clock, cur, dest, hand, want, work, spooled, side, net, world, faults>>

Stop ==
  /\ pc = "idle" /\ Sync("stop")
  /\ UNCHANGED <<clock, cur, dest, hand, want, work, spooled, side, net, world, faults>>

(***************************************************************************)
(* topUp                                                                   *)
(***************************************************************************)
Have(n) == IF n \in files THEN share[n] ELSE << >>
Copied(p, n, k) == Have(n) \o SubSeq(spool[p], Len(Have(n)) + 1, k)

\* mutant: the whole file is appended
TopUpWhole(p, n) ==
  /\ up /\ Len(Have(n)) <= Len(spool[p])
  /\ share' = [share EXCEPT ![n] = IF Have(n) = spool[p] THEN @ ELSE Have(n) \o spool[p]]
  /\ files' = files \cup {n}
  /\ UNCHANGED faults

\* the share file continues at its actual length
TopUp(p, n) ==
  /\ up /\ Len(Have(n)) <= Len(spool[p])
  /\ share' = [share EXCEPT ![n] = Copied(p, n, Len(spool[p]))]
  /\ files' = IF Len(Have(n)) < Len(spool[p]) THEN files \cup {n} ELSE files
  /\ UNCHANGED faults

\* the share copy is longer; or an operation fails and part of it has landed
TopUpFails(p, n) ==
  \/ up /\ Len(Have(n)) > Len(spool[p]) /\ UNCHANGED <<files, share, faults>>
  \/ Fault /\ UNCHANGED <<files, share>>
  \/ /\ up /\ Fault
     /\ \E k \in Len(Have(n))..Len(spool[p]) :
          share' = [share EXCEPT ![n] = Copied(p, n, k)] /\ files' = files \cup {n}

SyncOK ==
  /\ pc = "topup" /\ TopUp(cur, dest) /\ pc' = "save"
  /\ UNCHANGED <<clock, job, open, work, disk, world>>

SyncFails ==
  /\ pc = "topup" /\ TopUpFails(cur, dest)
  /\ pc' = IF job = "tick" THEN "idle" ELSE "close"
  /\ UNCHANGED <<clock, job, open, work, disk, world>>

\* saveState: os.WriteFile truncates the sidecar, then writes it
Save ==
  /\ pc = "save" /\ pc' = "saved" /\ side' = [side EXCEPT ![cur] = Torn]
  /\ UNCHANGED <<clock, job, open, work, spooled, spool, net, world, faults>>

Saved ==
  /\ pc = "saved" /\ side' = [side EXCEPT ![cur] = dest]
  /\ pc' = CASE job \in {"boot", "next"} -> "opened"
             [] job = "tick" -> "idle"
             [] OTHER -> "close"
  /\ UNCHANGED <<clock, job, open, work, spooled, spool, net, world, faults>>

(***************************************************************************)
(* closeCurrent and finishOnShare                                          *)
(***************************************************************************)
\* a shutdown is not a completion
CloseToStop ==
  /\ pc = "close" /\ job = "stop" /\ Gone
  /\ UNCHANGED <<now, arrived, lost, job, want, disk, net, world, faults>>

\* a file that never had a destination stays in the spool
CloseFile ==
  /\ pc = "close" /\ job = "rotate"
  /\ cur' = 0 /\ dest' = None
  /\ IF dest = None THEN pc' = "open" /\ job' = "next" /\ UNCHANGED <<file, target>>
                    ELSE pc' = "finish" /\ file' = cur /\ target' = dest /\ UNCHANGED job
  /\ UNCHANGED <<clock, buf, hand, want, todo, disk, net, world, faults>>

\* where the caller goes on
Return ==
  IF job = "rotate" THEN pc' = "open" /\ job' = "next" ELSE pc' = "sweep" /\ UNCHANGED job

\* the share's file must be there: of an empty one nothing was ever copied
FinishOK ==
  /\ pc = "finish" /\ TopUp(file, target) /\ target \in files' /\ pc' = "clear"
  /\ UNCHANGED <<clock, job, open, work, disk, world>>

\* mutant: the spool file goes whether or not the share has it
FinishAnyway ==
  /\ pc = "finish" /\ TopUpFails(file, target) /\ pc' = "clear"
  /\ UNCHANGED <<clock, job, open, work, disk, world>>

FinishFails ==
  /\ pc = "finish" /\ Return
  /\ TopUpFails(file, target) \/ (TopUp(file, target) /\ target \notin files')
  /\ UNCHANGED <<clock, open, work, disk, world>>

ClearState ==
  /\ pc = "clear" /\ pc' = "remove" /\ side' = [side EXCEPT ![file] = None]
  /\ UNCHANGED <<clock, job, open, work, spooled, spool, net, world, faults>>

RemoveSpool ==
  /\ pc = "remove" /\ spooled' = spooled \ {file} /\ Return
  /\ UNCHANGED <<clock, open, work, spool, side, net, world, faults>>

(***************************************************************************)
(* FlushPending and flushToDest                                            *)
(***************************************************************************)
RetryTick ==
  /\ pc = "idle" /\ spooled # {cur}
  /\ pc' = "sweep" /\ job' = "sweep" /\ todo' = spooled \ {cur}
  /\ UNCHANGED <<clock, open, file, target, disk, net, world, faults>>

SweepDone ==
  /\ pc = "sweep" /\ todo = {} /\ pc' = "idle"
  /\ UNCHANGED <<clock, job, open, work, disk, net, world, faults>>

\* mutant: a file with a sidecar is taken for one in progress
SweepSkips ==
  /\ pc = "sweep" /\ todo # {} /\ LET p == Min(todo) IN
       /\ todo' = todo \ {p} /\ file' = p
       /\ IF side[p] \in Names
            THEN UNCHANGED <<pc, target, side>>
            ELSE pc' = "copy" /\ side' = [side EXCEPT ![p] = None] /\ UNCHANGED target
  /\ UNCHANGED <<clock, job, open, spooled, spool, net, world, faults>>

\* a file with a sidecar is finished where it was going, another one is moved
SweepFile ==
  /\ pc = "sweep" /\ todo # {} /\ LET p == Min(todo) IN
       /\ todo' = todo \ {p} /\ file' = p
       /\ IF side[p] \in Names
            THEN pc' = "finish" /\ target' = side[p] /\ UNCHANGED side
            ELSE pc' = "copy" /\ side' = [side EXCEPT ![p] = None] /\ UNCHANGED target
  /\ UNCHANGED <<clock, job, open, spooled, spool, net, world, faults>>

\* copyFile under another name, then Rename, which replaces a file
Land(n) ==
  /\ up /\ share' = [share EXCEPT ![n] = spool[file]] /\ files' = files \cup {n}
  /\ contested' = contested \cup ({n} \cap foreign)
Moved == pc' = "remove" /\ UNCHANGED <<job, cuts>>

\* A Stat that fails for another reason than absence counts as a free name
\* here; and a Rename whose reply is lost was done, and counts as failed.
CopyFile ==
  /\ pc = "copy"
  /\ \/ FreeName(file) # None /\ Land(FreeName(file)) /\ Moved /\ UNCHANGED faults
     \/ Fault /\ Land(<<file, 0>>) /\ Moved
     \/ /\ Fault /\ \E n \in {FreeName(file), <<file, 0>>} \ {None} : Land(n)
        /\ Return /\ cuts' = [cuts EXCEPT ![file] = @ + 1]
     \/ Fault /\ Return /\ UNCHANGED <<net, contested, cuts>>
     \/ up /\ FreeName(file) = None /\ Return /\ UNCHANGED <<net, faults, contested, cuts>>
  /\ UNCHANGED <<clock, open, work, disk, up, foreign, late, crashes>>

-----------------------------------------------------------------------------
Writer ==
  \/ OpenAlone \/ OpenResume \/ OpenFresh \/ Opened \/ Write \/ Rotate
  \/ SyncOK \/ SyncFails \/ Save \/ Saved
  \/ CloseToStop \/ CloseFile \/ FinishOK \/ FinishFails \/ ClearState \/ RemoveSpool
  \/ SweepDone \/ SweepFile \/ CopyFile

Next ==
  \/ Arrive \/ Midnight \/ ShareChanges \/ \E p \in Periods : Foreign(p)
  \/ Start \/ Stop \/ Crash \/ Writer \/ SyncTick \/ RetryTick

Spec == Init /\ [][Next]_vars

\* The goroutine runs, and select takes a tick that is ready again and again.
\* Nothing makes the share come back, a frame arrive or the daemon start.
Fairness == WF_vars(Writer) /\ SF_vars(SyncTick) /\ SF_vars(RetryTick)
FairSpec == Spec /\ Fairness

-----------------------------------------------------------------------------
(***************************************************************************)
(* Properties                                                              *)
(***************************************************************************)
Mixed(n) == \E i \in DOMAIN share[n] : share[n][i] = 0
Own(p) == {n \in files : n[1] = p /\ (n \in foreign => ~Mixed(n))}
Clean(p) == <<p, 0>> \notin contested

\* What this daemon has on the share of a period is the beginning of what it
\* recorded: after partial appends, outages and crashes no run of bytes is
\* there twice and none is missing in the middle (topUp).
ShareIsPrefix == \A p \in Periods : \A n \in Own(p) : IsPrefix(share[n], spool[p])

\* A spool file is removed only when the share has all of it, however often
\* the share failed and the daemon died on the way; another recorder that
\* takes the chosen name in the meantime is the exception (CollisionSettled).
SpoolKept ==
  \A p \in Periods \ spooled :
    spool[p] # << >> /\ Clean(p) => \E n \in files : share[n] = spool[p]

\* A day is one file on the share: restarts and outages resume it.  Every other
\* one it has comes from one update that was cut in two, by a crash or by a lost
\* reply (RestartResumes, FailureKeepsOneCopy).
OneCopy == \A p \in Periods : Cardinality(Own(p)) <= 1 + cuts[p]

\* What another recorder has on the share stays as it is, whenever its file
\* appeared, unless both took the name (CollisionSettled, NeverOverwritten).
OthersKept == \A n \in foreign \ contested : share[n] = <<0>>

\* The share has each period once, as it was recorded, beside what others have.
ShareIsFaithful == ShareIsPrefix /\ OneCopy /\ OthersKept

\* The archive implements a Mirror of what it recorded, until another recorder
\* takes a chosen name: recordings are ordered over rotations and restarts, the
\* best copy on the share only grows, and what is released from the spool is
\* complete there.
Longest(S) == IF S = {} THEN << >> ELSE CHOOSE s \in S : \A t \in S : Len(t) <= Len(s)
Best(p) == Longest({share[n] : n \in Own(p)})

Mirrored == INSTANCE Mirror WITH
  rec <- spool, held <- spooled, arc <- [p \in Periods |-> Best(p)]
ImplementsMirror ==
  Mirrored!Init /\ [][contested' = {} => [Mirrored!Next]_Mirrored!vars]_vars

\* While the share stays, what was recorded in an ended period reaches it and
\* leaves the spool.  Tried again for ever are a period whose chosen name another
\* recorder took, one with every name taken, and an empty file (SidecarFilesLeave).
PendingDrains ==
  <>[]up /\ []<>(pc = "idle") =>
    []<>(\A p \in spooled : Clean(p) /\ Free(p) # {} /\ spool[p] # << >> => p = cur)

(***************************************************************************)
(* What comments and documents of the code say, and the code does not do   *)
(***************************************************************************)
\* "chosen once at open so a name collision is settled before any bytes are
\* copied": resolveDest does not create the file.
CollisionSettled == dest # None => dest \notin foreign

\* "Never overwrite an existing archive file": flushToDest takes a Stat that
\* fails for a free name, and Rename replaces the file.
NeverOverwritten == \A n \in foreign : share[n] = <<0>>

\* "a restart resumes the same destination instead of ... creating a fresh
\* fragment": not after a crash while the sidecar is written or removed.
RestartResumes == \A p \in Periods : Cardinality(Own(p)) <= 1

\* "Failure leaves the file in the spool for a later attempt rather than losing
\* it": when the Rename was done and its reply lost, the later attempt finds the
\* name taken and makes a second copy beside it.
FailureKeepsOneCopy == crashes = 0 => RestartResumes

\* "These used to be skipped as "in progress", which left them in the spool for
\* good": one that nothing was recorded in still stays, since finishOnShare
\* wants a file on the share that topUp never creates.
SidecarFilesLeave ==
  <>[]up /\ []<>(pc = "idle") => []<>(\A p \in spooled : Clean(p) /\ Free(p) # {} => p = cur)

\* "appended to the share continuously, not at the daily rotation": not when
\* the share was away while the file was opened.
OutageHeals == <>[]up /\ []<>(pc = "idle") => []<>(IF cur = 0 THEN FALSE ELSE Own(cur) # {} \/ spool[cur] = << >>)

\* "An SMB outage therefore costs disk space, never data": the goroutine that
\* waits for the share is the one that empties the subscription.
OutageCostsNoData == lost = 0
=============================================================================
