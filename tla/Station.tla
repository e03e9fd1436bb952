------------------------------ MODULE Station ------------------------------
(***************************************************************************)
(* What is installed, what is configured and what runs: the updater        *)
(* (internal/updater, cmd/psgnssd/update_cmd.go), a command that replaces  *)
(* the binary of the running daemon; the settings page and the restore of  *)
(* a backup (web/settings_api.go, web/backup_api.go), which replace the    *)
(* configuration it reads at its next start; and the restarts of both.     *)
(*                                                                         *)
(* A release is its number, and each knows the keys of those before it:    *)
(* config.Load refuses a file with keys of a later one.  A configuration   *)
(* is the format it was written in, two settings (the address of the web   *)
(* page, which the updater polls, and one of all the others) and the       *)
(* backup it comes from, 0 for none.                                       *)
(***************************************************************************)
EXTENDS Integers

CONSTANTS
  MaxRelease,   \* releases there are; the first is installed
  Values,       \* what a setting may be
  Default,      \* what it is at first, and in every backup
  Refused,      \* the values that Validate refuses
  Empty,        \* no value: without an address there is no web page
  MaxDoc        \* backup files there are

ASSUME StationAssumption ==
  /\ MaxRelease \in Nat \ {0}
  /\ Refused \subseteq Values /\ {Default, Empty} \subseteq Values \ Refused
  /\ Default # Empty /\ MaxDoc \in Nat

Releases == 1..MaxRelease
Docs     == 0..MaxDoc
Fields   == {"web", "name"}
Settings == [web : Values, name : Values, doc : Docs]
Configs  == [fmt : Releases, set : Settings]
Commands == [told : Releases, to : Releases, web : Values]
Steps    == {"idle", "fetch", "keep", "install", "restart", "wait",
             "back", "rerun", "done"}

VARIABLES
  mute,        \* releases that start and never serve
  bin, prev,   \* releases installed and kept as .previous (0: none)
  lock,        \* .psgnssd.update.lock is there
  asks,        \* the update command at its prompt, if there is one
  u,           \* the updater
  run,         \* release of the running daemon, 0 while none runs
  mem,         \* s.Cfg, as read at the start
  due,         \* a restartSoon is under way
  file,        \* the configuration file
  db,          \* the backup the accounts come from
  rst,         \* the backup a restore has written to file and not to db, or 0
  writes,      \* history: who wrote file since the daemon started
  wanted,      \* history: the settings the operator was told are saved
  proven,      \* history: releases that served
  mishaps      \* history: what the promises below except

disk == <<bin, prev, lock, asks, u>>
life == <<run, mem, due>>
conf == <<file, db, rst, writes, wanted>>
vars == <<mute, disk, life, conf, proven, mishaps>>

TypeOK ==
  /\ mute \subseteq Releases \ {1}
  /\ bin \in Releases /\ prev \in 0..MaxRelease /\ lock \in BOOLEAN
  /\ asks \subseteq Commands
  /\ u \in [pc : Steps, from : Releases, told : Releases, to : Releases, web : Values,
            late : BOOLEAN,
            report : {"none", "updated", "unchecked", "back", "lost", "refused"}]
  /\ run \in 0..MaxRelease /\ mem \in Configs /\ due \in BOOLEAN
  /\ file \in Configs /\ db \in Docs /\ rst \in Docs
  /\ writes \subseteq {"save", "restore"} /\ wanted \in Settings
  /\ proven \subseteq Releases
  /\ mishaps \subseteq {"stranded", "unchecked", "torn"}

Idle  == [pc |-> "idle", from |-> 1, told |-> 1, to |-> 1, web |-> Default, late |-> FALSE,
          report |-> "none"]
First == [web |-> Default, name |-> Default, doc |-> 0]

Init ==
  /\ mute \in SUBSET (Releases \ {1})
  /\ bin = 1 /\ prev = 0 /\ lock = FALSE /\ asks = {} /\ u = Idle
  /\ run = 1 /\ due = FALSE
  /\ mem \in {[fmt |-> 1, set |-> [First EXCEPT !.web = w]] : w \in {Default, Empty}}
  /\ file = mem /\ db = 0 /\ rst = 0 /\ writes = {} /\ wanted = mem.set
  /\ proven = {1} /\ mishaps = {}

(***************************************************************************)
(* The daemon and its restarts                                             *)
(***************************************************************************)
\* Validate, of a file that is read and of settings that are to be saved
Valid(s) == \A f \in Fields : s[f] \notin Refused

\* Load: unknown keys are refused, and what Validate refuses
Reads(r, c) == c.fmt <= r /\ Valid(c.set)

Serving == run # 0 /\ run \notin mute
Page    == Serving /\ mem.set.web # Empty

\* run: systemd starts what is installed, again and again
Boot ==
  /\ run = 0 /\ Reads(bin, file)
  /\ run' = bin /\ mem' = file /\ due' = FALSE /\ writes' = {}
  /\ proven' = proven \cup ({bin} \ mute)
  /\ UNCHANGED <<mute, disk, file, db, rst, wanted, mishaps>>

\* a restore that left the configuration and the accounts apart
Torn == wanted' = file.set /\ mishaps' = mishaps \cup {"torn"}

\* the process ends; a restore that it was working on is not finished
Down ==
  /\ run' = 0 /\ mem' = [fmt |-> 1, set |-> First] /\ due' = FALSE /\ rst' = 0
  /\ IF rst = 0 THEN UNCHANGED <<wanted, mishaps>> ELSE Torn
  /\ UNCHANGED <<mute, file, db, writes, proven>>

\* a crash, or a restart that someone asked for
Exit == run # 0 /\ Down /\ UNCHANGED disk

\* restartSoon and the end of main.run, which does not wait for requests
Restart == run # 0 /\ due /\ Down /\ UNCHANGED disk

\* mutant: nobody asks for the restart
AskNot == due' = due

Ask == due' = TRUE

(***************************************************************************)
(* Settings and restore                                                    *)
(***************************************************************************)
\* mutant: the save starts from the defaults
EditedAfresh(f, v) == [First EXCEPT ![f] = v]

\* next := *s.Cfg with one setting changed
Edited(f, v) == [mem.set EXCEPT ![f] = v]

\* one that meets another write of this daemon's life replaces it
Save(f, v) ==
  /\ Page /\ v # Empty /\ Valid(Edited(f, v)) /\ file' = [fmt |-> run, set |-> Edited(f, v)] /\ Ask
  /\ writes' = writes \cup {"save"}
  /\ wanted' = IF writes = {} /\ rst = 0 THEN [wanted EXCEPT ![f] = v] ELSE file'.set
  /\ mishaps' = mishaps \cup (IF "restore" \in writes \/ rst # 0 THEN {"torn"} ELSE {})
  /\ UNCHANGED <<mute, disk, run, mem, db, rst, proven>>

\* handleBackupRestore up to ImportSettings
RestoreConfig(d) ==
  /\ Page /\ rst = 0 /\ rst' = d
  /\ file' = [fmt |-> run, set |-> [First EXCEPT !.doc = d]]
  /\ mishaps' = mishaps \cup (IF "restore" \in writes THEN {"torn"} ELSE {})
  /\ UNCHANGED <<mute, disk, run, mem, due, db, writes, wanted, proven>>

RestoreImport ==
  /\ rst # 0 /\ rst' = 0 /\ db' = rst /\ Ask /\ wanted' = file.set
  /\ writes' = writes \cup {"restore"}
  /\ UNCHANGED <<mute, disk, run, mem, file, proven, mishaps>>

\* mutant: a failed import is only reported
RestoreUndoneNot ==
  /\ rst # 0 /\ rst' = 0
  /\ UNCHANGED <<mute, disk, life, file, db, writes, wanted, proven, mishaps>>

\* previous is the configuration in memory, also when file was a later one
RestoreUndone ==
  /\ rst # 0 /\ rst' = 0 /\ file' = [mem EXCEPT !.fmt = run]
  /\ wanted' = IF writes = {} THEN wanted ELSE file'.set
  /\ UNCHANGED <<mute, disk, life, db, writes, proven, mishaps>>

RestoreStuck ==
  /\ rst # 0 /\ rst' = 0 /\ Torn
  /\ writes' = writes \cup {"restore"}
  /\ UNCHANGED <<mute, disk, life, file, db, proven>>

Restore == RestoreImport \/ RestoreUndone

(***************************************************************************)
(* The updater                                                             *)
(***************************************************************************)
others == <<mute, mem, due, conf, proven, asks>>

To(step) == u' = [u EXCEPT !.pc = step]
Report(r) == u' = [u EXCEPT !.pc = "done", !.report = r]

\* Check, by the binary there is: another release, and signed
Found(r) == r # bin /\ Reads(bin, file)

apart == <<mute, mem, due, conf, proven, mishaps, bin, prev, run>>

\* updateApply: the configuration is read, and a release found, before the
\* operator is asked, who may wait; bounds: one command waits, and is begun
\* before another one has installed anything or after it
Prompt(r) ==
  /\ asks = {} /\ u.pc \in {"idle", "fetch"} /\ Found(r)
  /\ asks' = {[told |-> bin, to |-> r, web |-> file.set.web]}
  /\ UNCHANGED <<apart, lock, u>>

\* not "y", or the lock is there
Decline ==
  /\ asks # {} /\ asks' = {} /\ UNCHANGED <<apart, lock, u>>

\* Apply locks, and replaces what is installed by then
Begin ==
  /\ u.pc = "idle" /\ ~lock /\ lock' = TRUE /\ asks' = {}
  /\ \E c \in asks :
       u' = [pc |-> "fetch", from |-> bin, told |-> c.told, to |-> c.to, web |-> c.web,
             late |-> FALSE, report |-> "none"]
  /\ UNCHANGED apart

\* hash, --version and --check of the configuration as it is now
Fetch ==
  /\ u.pc = "fetch" /\ Reads(u.to, file) /\ To("keep")
  /\ UNCHANGED <<bin, prev, lock, run, others, mishaps>>

\* mutant: .previous is written by the rollback only
KeepNot ==
  /\ u.pc = "keep" /\ To("install")
  /\ UNCHANGED <<bin, prev, lock, run, others, mishaps>>

Keep ==
  /\ u.pc = "keep" /\ prev' = bin /\ To("install")
  /\ UNCHANGED <<bin, lock, run, others, mishaps>>

\* any step up to the rename may fail, and nothing is installed
Refuse ==
  /\ u.pc \in {"fetch", "keep", "install"} /\ Report("refused")
  /\ UNCHANGED <<bin, prev, lock, run, others, mishaps>>

Install ==
  /\ u.pc = "install" /\ bin' = u.to /\ To("restart")
  /\ UNCHANGED <<prev, lock, run, others, mishaps>>

RestartNew ==
  /\ u.pc = "restart" /\ Down /\ To("wait") /\ UNCHANGED <<bin, prev, lock, asks>>

\* the context of updateApply ends after fifteen minutes, whatever it is used for
Fails(late) == u' = [u EXCEPT !.pc = "back", !.late = late]

RestartFails ==
  /\ u.pc = "restart" /\ \E late \in BOOLEAN : Fails(late)
  /\ UNCHANGED <<bin, prev, lock, run, others, mishaps>>

\* "not checked: no web listen address configured, so no rollback was possible"
Unchecked ==
  /\ u.pc = "wait" /\ u.web = Empty /\ Report("unchecked")
  /\ mishaps' = mishaps \cup {"unchecked"} /\ UNCHANGED <<bin, prev, lock, run, others>>

\* mutant: a unit that is active counts as healthy
AnyRuns == run # 0

\* waitHealthy: the page answers where the configuration had it
Answers == Page /\ mem.set.web = u.web

Healthy ==
  /\ u.pc = "wait" /\ Answers /\ Report("updated")
  /\ UNCHANGED <<bin, prev, lock, run, others, mishaps>>

\* mutant: a release that does not answer is only reported
UnhealthyWarns ==
  /\ u.pc = "wait" /\ u.web # Empty /\ ~Answers /\ Report("refused")
  /\ UNCHANGED <<bin, prev, lock, run, others, mishaps>>

Unhealthy ==
  /\ u.pc = "wait" /\ u.web # Empty
  /\ \E late \in BOOLEAN : (late \/ ~Answers) /\ Fails(late)
  /\ UNCHANGED <<bin, prev, lock, run, others, mishaps>>

PutBack ==
  /\ u.pc = "back" /\ bin' = prev /\ To("rerun")
  /\ UNCHANGED <<prev, lock, run, others, mishaps>>

\* rollback only logs what goes wrong: "lost" is reported as "back" is
PutBackFails ==
  /\ u.pc = "back" /\ Report("lost") /\ mishaps' = mishaps \cup {"stranded"}
  /\ UNCHANGED <<bin, prev, lock, run, others>>

\* mutant: the daemon is left to restart by itself
RestartOldNot ==
  /\ u.pc = "rerun" /\ ~u.late /\ Report("back")
  /\ UNCHANGED <<bin, prev, lock, run, others, mishaps>>

RestartOld ==
  /\ u.pc = "rerun" /\ ~u.late /\ Down /\ Report("back")
  /\ UNCHANGED <<bin, prev, lock, asks>>

RestartOldFails ==
  /\ u.pc = "rerun"
  /\ IF run \in {0, prev} THEN Report("back") /\ UNCHANGED mishaps
     ELSE Report("lost") /\ mishaps' = mishaps \cup {"stranded"}
  /\ UNCHANGED <<bin, prev, lock, run, others>>

\* the deferred calls; a download that was left behind is overwritten
Leave ==
  /\ u.pc = "done" /\ u' = Idle /\ lock' = FALSE
  /\ UNCHANGED <<bin, prev, run, others, mishaps>>

\* the command is killed, or the machine goes down with it
Die ==
  /\ u.pc # "idle" /\ u' = Idle
  /\ mishaps' = mishaps \cup (IF u.pc \in {"restart", "wait", "back", "rerun"}
                              THEN {"stranded"} ELSE {})
  /\ UNCHANGED <<bin, prev, lock, run, others>>

\* "If nothing is, remove it"
Unlock ==
  /\ u.pc = "idle" /\ lock /\ lock' = FALSE
  /\ UNCHANGED <<bin, prev, u, run, others, mishaps>>

\* "Go back with": install the previous binary and restart
GoBack ==
  /\ u.pc = "done" /\ u.report \in {"updated", "unchecked"} /\ bin' = prev /\ Down
  /\ u' = [u EXCEPT !.report = "none"] /\ UNCHANGED <<prev, lock, asks>>

Apply ==
  \/ Fetch \/ Keep \/ Refuse \/ Install \/ RestartNew \/ RestartFails
  \/ Unchecked \/ Healthy \/ Unhealthy \/ PutBack \/ PutBackFails \/ RestartOld \/ RestartOldFails \/ Leave

Next ==
  \/ Boot \/ Exit \/ Restart
  \/ \E f \in Fields, v \in Values : Save(f, v)
  \/ \E d \in 1..MaxDoc : RestoreConfig(d)
  \/ Restore \/ RestoreStuck
  \/ (\E r \in Releases : Prompt(r)) \/ Decline \/ Begin
  \/ Apply \/ Die \/ Unlock \/ GoBack

Spec == Init /\ [][Next]_vars

\* systemd starts the daemon, and restartSoon ends it
FairSpec == Spec /\ WF_vars(Boot \/ Restart)

(***************************************************************************)
(* Properties                                                              *)
(***************************************************************************)
\* A station is "never left running neither" release: what is installed or
\* .previous has served, and when no update is under way what is installed has.
\* The exceptions are an update that died with the new release installed, a
\* rollback that failed (the next update overwrites .previous), and an update
\* that could not be checked because there is no web page.
Backable == "stranded" \notin mishaps /\ "unchecked" \notin mishaps
EitherRelease ==
  Backable =>
    bin \in proven \/ (u.pc # "idle" /\ prev \in proven)

\* What updateApply prints is so: an update that is reported served, one that is
\* reported unchecked can still be undone, one that was refused changed nothing,
\* and after a rollback the station is back on the release that was installed
\* when it locked, unless the rollback failed or the context that it shares with
\* the health check had ended ("lost", see BackOnPrevious).
ReportIsTrue ==
  u.pc = "done" =>
    /\ u.report = "updated" => bin = u.to /\ bin \in proven /\ prev = u.from
    /\ u.report = "unchecked" => bin = u.to /\ prev = u.from
    /\ u.report = "refused" => bin = u.from
    /\ u.report = "back" => bin = u.from /\ run \in {0, u.from}

\* An update keeps the station, whatever fails in it and whatever is saved,
\* restored or restarted meanwhile.
UpdateKeepsStation == EitherRelease /\ ReportIsTrue

\* What the operator was told is saved is in the file, and it is what the daemon
\* runs unless a restart is under way, over failed restores, updates and
\* crashes.  Writes of one daemon's life start from the same copy in memory: the
\* later one wins (TwoSaves).
SettingsHold ==
  rst = 0 => file.set = wanted /\ (Serving /\ ~due /\ "torn" \notin mishaps => mem.set = wanted)

\* "A half-applied restore is worse than a refused one": the configuration and
\* the accounts come from the same backup, however a restore ends, unless the
\* daemon ended between the two, the configuration could not be put back, or
\* another write of the same daemon's life crossed it.
RestoreIsWhole ==
  rst = 0 /\ "torn" \notin mishaps => file.set.doc = db

\* Once no update is under way, the station serves again and again, after every
\* update, restart and restore.  A release that cannot read what a later one
\* saved on trial (Unreadable), a rollback that went wrong, and a release that
\* nothing checked, are excepted.
Unreadable == file.fmt > bin
StationServes ==
  <>[](u.pc = "idle") => []<>(Serving \/ Unreadable \/ ~Backable)

(***************************************************************************)
(* What comments of the code say, and the code does not do                 *)
(***************************************************************************)
\* "The station is back on ...": printed whether or not the rollback worked, and
\* names the release of the command, which may have waited at its prompt while
\* another update was made.
BackOnPrevious ==
  u.pc = "done" /\ u.report \in {"back", "lost"} => bin = u.told /\ run \in {0, u.told}

\* "a setting the operator thinks is applied": two saves before the restart.
TwoSaves == [][\A f \in Fields, v \in Values : Save(f, v)
                 => file'.set = [file.set EXCEPT ![f] = v]]_vars

\* "either the whole document applies or none of it does": a restart between
\* the configuration and the accounts.
RestoreAtomic == rst = 0 => file.set.doc = db
=============================================================================
