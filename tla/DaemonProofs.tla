---------------------------- MODULE DaemonProofs ----------------------------
(***************************************************************************)
(* Proofs about what the daemon does beside its streams: Station, for any  *)
(* number of releases and backups and any values of settings, and Jobs,    *)
(* for any number of requests, conversions and administrators and any      *)
(* limit on conversions of visitors.                                       *)
(***************************************************************************)
EXTENDS Station, Jobs, FiniteSetTheorems, SequenceTheorems, TLAPS


USE StationAssumption DEF StationAssumption

-----------------------------------------------------------------------------
(***************************************************************************)
(* What kinds of steps there are                                           *)
(***************************************************************************)
\* A step of the updater that does not restart the daemon.
Aside ==
  /\ UNCHANGED <<mute, life, conf, proven>>
  /\ mishaps \subseteq mishaps' /\ mishaps' \subseteq mishaps \cup {"stranded", "unchecked"}

\* The daemon, its settings and the accounts change in these ways only.
LEMMA DaemonSteps ==
  ASSUME [Next]_vars
  PROVE  \/ Boot \/ Down \/ Aside \/ RestoreImport \/ RestoreUndone \/ RestoreStuck
         \/ \E f \in Fields, v \in Values : Save(f, v)
         \/ \E d \in 1..MaxDoc : RestoreConfig(d)
<1>1. CASE (\E r \in Releases : Prompt(r)) \/ Decline \/ Begin
  BY <1>1 DEF Prompt, Decline, Begin, Aside, apart, life, conf
<1>2. CASE Fetch \/ Keep \/ Refuse \/ Install
  BY <1>2 DEF Fetch, Keep, Refuse, Install, Aside, others, life, conf
<1>3. CASE RestartFails \/ Unchecked \/ Healthy \/ Unhealthy
  BY <1>3 DEF RestartFails, Unchecked, Healthy, Unhealthy, Aside, others, life, conf
<1>4. CASE PutBack \/ PutBackFails \/ RestartOldFails
  BY <1>4 DEF PutBack, PutBackFails, RestartOldFails, Aside, others, life, conf
<1>5. CASE Leave \/ Die \/ Unlock
  BY <1>5 DEF Leave, Die, Unlock, Aside, others, life, conf
<1>6. CASE Exit \/ Restart \/ RestartNew \/ RestartOld \/ GoBack
  BY <1>6 DEF Exit, Restart, RestartNew, RestartOld, GoBack
<1>7. CASE UNCHANGED vars
  BY <1>7 DEF vars, Aside
<1> QED
  BY <1>1, <1>2, <1>3, <1>4, <1>5, <1>6, <1>7 DEF Next, Apply, Restore

\* Where nothing is installed or reported, the files of the updater stay.
LEMMA UpdaterSteps ==
  ASSUME [Next]_vars
  PROVE  \/ UNCHANGED disk \/ Apply \/ Die \/ Unlock \/ GoBack
         \/ (\E r \in Releases : Prompt(r)) \/ Decline \/ Begin
BY DEF Next, Boot, Exit, Restart, Save, RestoreConfig, Restore, RestoreImport, RestoreUndone,
       RestoreStuck, vars

-----------------------------------------------------------------------------
(***************************************************************************)
(* Types                                                                   *)
(***************************************************************************)
\* A restore is the work of a daemon, which serves.
Restoring == rst # 0 => Serving

\* Once .previous is written it holds the release that the update comes from;
\* until the new one is installed, and after it is put back, that one is there.
Kept ==
  /\ u.pc \in {"install", "restart", "wait", "back", "rerun"} => prev = u.from
  /\ u.pc \in {"fetch", "keep", "install", "rerun"} => bin = u.from
  /\ u.pc \in {"restart", "wait", "back"} => bin = u.to
  /\ u.pc = "done" /\ u.report \in {"updated", "unchecked"} => prev = u.from /\ bin = u.to

TypeInv == TypeOK /\ Restoring /\ Kept

\* The two halves of TypeOK.
Updates == [pc : Steps, from : Releases, told : Releases, to : Releases, web : Values,
            late : BOOLEAN,
            report : {"none", "updated", "unchecked", "back", "lost", "refused"}]
UpdaterType ==
  /\ bin \in Releases /\ prev \in 0..MaxRelease /\ lock \in BOOLEAN
  /\ asks \subseteq Commands /\ u \in Updates

DaemonType ==
  /\ mute \subseteq Releases \ {1}
  /\ run \in 0..MaxRelease /\ mem \in Configs /\ due \in BOOLEAN
  /\ file \in Configs /\ db \in Docs /\ rst \in Docs
  /\ writes \subseteq {"save", "restore"} /\ wanted \in Settings
  /\ proven \subseteq Releases /\ mishaps \subseteq {"stranded", "unchecked", "torn"}

LEMMA TypeParts == TypeOK <=> UpdaterType /\ DaemonType
  BY DEF TypeOK, UpdaterType, DaemonType, Updates

\* The defaults, and those of a backup, are settings.
LEMMA DefaultsType ==
  /\ First \in Settings /\ Idle \in Updates /\ Idle.pc = "idle"
  /\ \A d \in Docs : [First EXCEPT !.doc = d] \in Settings
  BY DEF First, Idle, Settings, Updates, Docs, Steps, Releases

\* A daemon that ends leaves its types and no restore behind.
LEMMA DownType ==
  ASSUME DaemonType, Down  PROVE DaemonType' /\ rst' = 0
<1>1. mem' \in Configs  BY DefaultsType DEF Down, Configs, Releases
<1>2. wanted' \in Settings /\ mishaps' \subseteq {"stranded", "unchecked", "torn"}
  BY DEF DaemonType, Down, Torn, Configs
<1>3. due' \in BOOLEAN  BY DEF Down
<1>4. run' = 0 /\ rst' = 0 /\ UNCHANGED <<mute, file, db, writes, proven>>  BY DEF Down
<1>5. run' \in 0..MaxRelease /\ rst' \in Docs  BY <1>4 DEF Docs
<1> QED BY <1>1, <1>2, <1>3, <1>4, <1>5 DEF DaemonType

\* Every step keeps the types of the daemon's part.
LEMMA DaemonTypeStep ==
  ASSUME TypeInv, [Next]_vars  PROVE DaemonType' /\ Restoring'
<1>1. DaemonType /\ UpdaterType /\ Restoring  BY TypeParts DEF TypeInv
<1>2. Serving => run \in Releases  BY <1>1 DEF DaemonType, Serving, Releases
<1>3. CASE Boot
  <2>1. due' \in BOOLEAN  BY <1>3 DEF Boot
  <2>2. run' \in 0..MaxRelease /\ mem' \in Configs /\ writes' = {}
    BY <1>1, <1>3 DEF Boot, DaemonType, UpdaterType, Releases
  <2>3. proven' \subseteq Releases  BY <1>1, <1>3 DEF Boot, DaemonType, UpdaterType
  <2>4. UNCHANGED <<mute, file, db, rst, wanted, mishaps>>  BY <1>3 DEF Boot
  <2>5. rst' = 0  BY <1>1, <1>3 DEF Boot, Restoring, Serving
  <2> QED BY <1>1, <2>1, <2>2, <2>3, <2>4, <2>5 DEF DaemonType, Restoring
<1>4. CASE Down
  BY <1>1, <1>4, DownType DEF Restoring
<1>5. CASE Aside
  BY <1>1, <1>5 DEF Aside, DaemonType, Restoring, Serving, life, conf
<1>6. CASE RestoreImport
  <2>1. due' \in BOOLEAN  BY <1>6 DEF RestoreImport, Ask
  <2>2. db' \in Docs /\ rst' \in Docs /\ rst' = 0 /\ wanted' \in Settings
    BY <1>1, <1>6 DEF RestoreImport, DaemonType, Configs, Docs
  <2>3. writes' \subseteq {"save", "restore"}  BY <1>1, <1>6 DEF RestoreImport, DaemonType
  <2>4. UNCHANGED <<mute, run, mem, file, proven, mishaps>>  BY <1>6 DEF RestoreImport
  <2> QED BY <1>1, <2>1, <2>2, <2>3, <2>4 DEF DaemonType, Restoring
<1>7. CASE RestoreUndone
  <2>1. file' \in Configs /\ file'.set \in Settings
    BY <1>1, <1>2, <1>7 DEF RestoreUndone, DaemonType, Restoring, Configs
  <2>2. rst' = 0 /\ rst' \in Docs /\ wanted' \in Settings
    BY <1>1, <1>7, <2>1 DEF RestoreUndone, DaemonType, Docs
  <2>3. UNCHANGED <<mute, run, mem, due, db, writes, proven, mishaps>>
    BY <1>7 DEF RestoreUndone, life
  <2> QED BY <1>1, <2>1, <2>2, <2>3 DEF DaemonType, Restoring
<1>8. CASE RestoreStuck
  <2>1. rst' = 0 /\ rst' \in Docs /\ wanted' \in Settings
    BY <1>1, <1>8 DEF RestoreStuck, Torn, DaemonType, Configs, Docs
  <2>2. writes' \subseteq {"save", "restore"} /\ mishaps' \subseteq {"stranded", "unchecked", "torn"}
    BY <1>1, <1>8 DEF RestoreStuck, Torn, DaemonType
  <2>3. UNCHANGED <<mute, run, mem, due, file, db, proven>>  BY <1>8 DEF RestoreStuck, life
  <2> QED BY <1>1, <2>1, <2>2, <2>3 DEF DaemonType, Restoring
<1>9. ASSUME NEW f \in Fields, NEW v \in Values, Save(f, v)  PROVE DaemonType' /\ Restoring'
  <2>1. due' \in BOOLEAN  BY <1>9 DEF Save, Ask
  <2>2. Edited(f, v) \in Settings /\ [wanted EXCEPT ![f] = v] \in Settings
    BY <1>1 DEF Edited, DaemonType, Configs, Settings, Fields
  <2>3. file' \in Configs /\ file'.set \in Settings /\ wanted' \in Settings
    BY <1>2, <1>9, <2>2 DEF Save, Page, Configs
  <2>4. writes' \subseteq {"save", "restore"} /\ mishaps' \subseteq {"stranded", "unchecked", "torn"}
    BY <1>1, <1>9 DEF Save, DaemonType
  <2>5. UNCHANGED <<mute, run, mem, db, rst, proven>>  BY <1>9 DEF Save
  <2> QED BY <1>1, <2>1, <2>3, <2>4, <2>5 DEF DaemonType, Restoring, Serving
<1>10. ASSUME NEW d \in 1..MaxDoc, RestoreConfig(d)  PROVE DaemonType' /\ Restoring'
  <2>1. file' \in Configs
    BY <1>2, <1>10, DefaultsType DEF RestoreConfig, Page, Configs, Docs
  <2>2. mishaps' \subseteq {"stranded", "unchecked", "torn"}  BY <1>1, <1>10 DEF RestoreConfig, DaemonType
  <2>3. rst' \in Docs /\ UNCHANGED <<mute, run, mem, due, db, writes, wanted, proven>>
    BY <1>10 DEF RestoreConfig, Docs
  <2> QED BY <1>1, <1>10, <2>1, <2>2, <2>3 DEF DaemonType, Restoring, Page, Serving, RestoreConfig
<1> QED BY <1>3, <1>4, <1>5, <1>6, <1>7, <1>8, <1>9, <1>10, DaemonSteps

\* What a report, a next place or a failure makes of the updater's record.
LEMMA RecordType ==
  ASSUME u \in Updates
  PROVE  /\ \A p \in Steps : To(p) => u' \in Updates /\ u'.pc = p /\ u'.from = u.from /\ u'.to = u.to
         /\ \A r \in {"none", "updated", "unchecked", "back", "lost", "refused"} :
              Report(r) => /\ u' \in Updates /\ u'.pc = "done" /\ u'.report = r
                           /\ u'.from = u.from /\ u'.to = u.to
         /\ \A late \in BOOLEAN :
              Fails(late) => /\ u' \in Updates /\ u'.pc = "back" /\ u'.late = late
                             /\ u'.from = u.from /\ u'.to = u.to
  BY DEF Updates, To, Report, Fails, Steps

\* Every step keeps the types of the updater's part, and what is kept when.
LEMMA UpdaterTypeStep ==
  ASSUME TypeInv, [Next]_vars  PROVE UpdaterType' /\ Kept'
<1> USE DEF UpdaterType, Kept, Releases, Steps
<1>1. UpdaterType /\ Kept /\ u \in Updates  BY TypeParts DEF TypeInv
<1>2. Serving' \in BOOLEAN /\ u.from \in Releases /\ u.to \in Releases /\ u.late \in BOOLEAN
  BY <1>1 DEF Serving, Updates
<1>3. CASE UNCHANGED disk
  BY <1>1, <1>3 DEF disk
<1>4. CASE (\E r \in Releases : Prompt(r)) \/ Decline
  <2>1. file.set.web \in Values
    BY TypeParts DEF TypeInv, DaemonType, Configs, Settings
  <2>2. asks' \subseteq Commands  BY <1>1, <1>4, <2>1 DEF Prompt, Decline, Commands
  <2> QED BY <1>1, <1>4, <2>2 DEF Prompt, Decline, apart
<1>20. CASE Begin
  <2>1. lock' \in BOOLEAN  BY <1>20 DEF Begin
  <2>2. u' \in Updates /\ u'.pc = "fetch" /\ u'.from = bin /\ asks' = {}
    BY <1>1, <1>20 DEF Begin, Updates, Commands
  <2> QED BY <1>1, <1>20, <2>1, <2>2 DEF Begin, apart
<1>5. CASE Fetch
  BY <1>1, <1>5, RecordType DEF Fetch, others
<1>6. CASE Keep
  BY <1>1, <1>6, RecordType DEF Keep, others
<1>7. CASE Refuse
  BY <1>1, <1>7, RecordType DEF Refuse, others
<1>8. CASE Install
  BY <1>1, <1>2, <1>8, RecordType DEF Install, others
<1>9. CASE RestartNew
  BY <1>1, <1>9, RecordType DEF RestartNew
<1>10. CASE RestartFails
  BY <1>1, <1>10, RecordType DEF RestartFails, others
<1>11. CASE Healthy \/ Unchecked
  BY <1>1, <1>11, RecordType DEF Healthy, Unchecked, others
<1>12. CASE Unhealthy
  BY <1>1, <1>12, RecordType DEF Unhealthy, others
<1>13. CASE PutBack
  BY <1>1, <1>2, <1>13, RecordType DEF PutBack, others
<1>14. CASE PutBackFails
  BY <1>1, <1>14, RecordType DEF PutBackFails, others
<1>15. CASE RestartOld
  BY <1>1, <1>15, RecordType DEF RestartOld
<1>16. CASE RestartOldFails
  BY <1>1, <1>16, RecordType DEF RestartOldFails, others
<1>17. CASE Leave \/ Die
  <2>1. u' \in Updates /\ u'.pc = "idle"  BY <1>17, DefaultsType DEF Leave, Die
  <2>2. lock' \in BOOLEAN  BY <1>1, <1>17 DEF Leave, Die
  <2> QED BY <1>1, <1>17, <2>1, <2>2 DEF Leave, Die, others
<1>18. CASE Unlock
  <2>1. lock' \in BOOLEAN  BY <1>18 DEF Unlock
  <2> QED BY <1>1, <1>18, <2>1 DEF Unlock, others
<1>19. CASE GoBack
  <2>1. u' \in Updates /\ u'.pc = "done" /\ u'.report = "none"  BY <1>1, <1>19 DEF GoBack, Updates
  <2>2. prev \in Releases  BY <1>1, <1>2, <1>19 DEF GoBack
  <2> QED BY <1>1, <1>19, <2>1, <2>2 DEF GoBack
<1> QED
  BY <1>3, <1>4, <1>5, <1>6, <1>7, <1>8, <1>9, <1>10, <1>11, <1>12, <1>13, <1>14, <1>15, <1>16,
     <1>17, <1>18, <1>19, <1>20, UpdaterSteps DEF Apply

LEMMA TypeStep == TypeInv /\ [Next]_vars => TypeInv'
<1> SUFFICES ASSUME TypeInv, [Next]_vars  PROVE TypeInv'
  OBVIOUS
<1>1. DaemonType' /\ Restoring' /\ UpdaterType' /\ Kept'
  BY DaemonTypeStep, UpdaterTypeStep
<1>2. TypeOK' <=> UpdaterType' /\ DaemonType'
  BY DEF TypeOK, UpdaterType, DaemonType, Updates
<1> QED BY <1>1, <1>2 DEF TypeInv

\* The first release runs, with the defaults, and there is no update.
LEMMA InitTypes == Init => TypeInv
<1> SUFFICES ASSUME Init  PROVE TypeInv
  OBVIOUS
<1>1. mem \in Configs /\ file \in Configs /\ wanted \in Settings
  <2>1. [First EXCEPT !.web = Empty] \in Settings /\ [First EXCEPT !.web = Default] \in Settings
    BY DefaultsType DEF Settings
  <2> QED BY <2>1 DEF Init, Configs, Releases
<1>2. lock \in BOOLEAN /\ due \in BOOLEAN  BY DEF Init
<1>3. bin \in Releases /\ prev \in 0..MaxRelease /\ run \in 0..MaxRelease /\ proven \subseteq Releases
  BY DEF Init, Releases
<1>4. db \in Docs /\ rst \in Docs /\ mute \subseteq Releases \ {1}
  BY DEF Init, Docs
<1>5. u \in Updates /\ u.pc = "idle" /\ asks = {}  BY DefaultsType DEF Init, Idle
<1>6. writes = {} /\ mishaps = {} /\ rst = 0  BY DEF Init
<1>7. UpdaterType /\ DaemonType /\ Restoring /\ Kept
  BY <1>1, <1>2, <1>3, <1>4, <1>5, <1>6 DEF UpdaterType, DaemonType, Restoring, Kept
<1> QED BY <1>7, TypeParts DEF TypeInv

\* Releases, configurations, the updater and the daemon have the values of
\* their types; a restore is a serving daemon's, and .previous holds the release
\* an update came from for as long as it may be needed.
THEOREM StationTypes == Spec => []TypeInv
<1> QED BY InitTypes, TypeStep, PTL DEF Spec

-----------------------------------------------------------------------------
(***************************************************************************)
(* An update keeps the station                                             *)
(***************************************************************************)
\* A release that serves counts as one that has served.
Proves == Serving => run \in proven

\* While the updater waits, what runs is what it has installed.
Awaited == u.pc = "wait" => run \in {0, bin}

\* An update begins from a release that has served and keeps it until that one
\* is back or the new one has served.
Backed ==
  Backable =>
    IF u.pc \in {"restart", "wait", "back"} THEN prev \in proven ELSE
      /\ bin \in proven
      /\ u.pc = "done" /\ u.report \in {"updated", "unchecked"} => prev \in proven

UpdateInv == TypeInv /\ Proves /\ Awaited /\ Backed /\ ReportIsTrue

\* The daemon's own steps, and those on its settings, leave the update as it is:
\* what has served has served, and what starts is what is installed.
LEMMA DaemonKeepsUpdate ==
  ASSUME UpdateInv, [Next]_vars, UNCHANGED disk  PROVE UpdateInv'
<1> USE DEF UpdateInv, Proves, Awaited, Backed, Backable, ReportIsTrue, Serving
<1>1. bin \in Releases /\ u \in Updates  BY TypeParts DEF TypeInv, UpdaterType
<1>2. UNCHANGED <<bin, prev, u>> /\ UNCHANGED <<bin, prev, lock, asks, u>>  BY DEF disk
<1>3. TypeInv'  BY TypeStep
<1>4. CASE Boot
  BY <1>1, <1>2, <1>3, <1>4 DEF Boot, Releases, Kept, TypeInv
<1>5. CASE Down
  <2>1. run' = 0 /\ UNCHANGED <<mute, proven>> /\ (Backable' <=> Backable)
    BY <1>5 DEF Down, Torn
  <2> QED BY <1>2, <1>3, <2>1
<1>6. CASE Aside
  BY <1>2, <1>3, <1>6 DEF Aside, life
<1>7. CASE RestoreImport \/ RestoreUndone \/ RestoreStuck
  <2>1. UNCHANGED <<mute, run, proven>> /\ (Backable' <=> Backable)
    BY <1>7 DEF RestoreImport, RestoreUndone, RestoreStuck, Torn, life
  <2> QED BY <1>2, <1>3, <2>1
<1>8. CASE \/ \E f \in Fields, v \in Values : Save(f, v)
           \/ \E d \in 1..MaxDoc : RestoreConfig(d)
  <2>1. UNCHANGED <<mute, run, proven>> /\ (Backable' <=> Backable)
    BY <1>8 DEF Save, RestoreConfig
  <2> QED BY <1>2, <1>3, <2>1
<1> QED BY <1>4, <1>5, <1>6, <1>7, <1>8, DaemonSteps

\* The updater's steps keep the release that has served, and tell the truth.
LEMMA UpdateStep ==
  ASSUME UpdateInv, [Next]_vars  PROVE UpdateInv'
<1> USE DEF Proves, Awaited, Backed, Backable, ReportIsTrue, Serving
<1>1. UpdateInv /\ TypeInv /\ Kept /\ u \in Updates /\ bin \in Releases
  BY TypeParts DEF UpdateInv, TypeInv, UpdaterType
<1>2. Proves /\ Awaited /\ Backed /\ ReportIsTrue  BY <1>1 DEF UpdateInv
<1>3. TypeInv' /\ Kept'  BY <1>1, TypeStep DEF TypeInv
<1>4. Down => run' = 0 /\ UNCHANGED <<mute, proven>> /\ (Backable' <=> Backable)
  BY DEF Down, Torn
<1> SUFFICES Proves' /\ Awaited' /\ Backed' /\ ReportIsTrue'
  BY <1>3 DEF UpdateInv
<1>5. CASE UNCHANGED disk
  BY <1>5, <1>1, DaemonKeepsUpdate DEF UpdateInv
<1>6. CASE (\E r \in Releases : Prompt(r)) \/ Decline
  BY <1>1, <1>2, <1>6 DEF Prompt, Decline, apart
<1>20. CASE Begin
  BY <1>1, <1>2, <1>20 DEF Begin, apart
<1>21. CASE Unchecked
  BY <1>1, <1>2, <1>21, RecordType DEF Unchecked, Kept, others
<1>7. CASE Fetch \/ Keep \/ Install
  BY <1>1, <1>2, <1>7, RecordType DEF Fetch, Keep, Install, Kept, others, Steps
<1>8. CASE Refuse
  BY <1>1, <1>2, <1>8, RecordType DEF Refuse, Kept, others
<1>9. CASE RestartNew
  BY <1>1, <1>2, <1>4, <1>9, RecordType DEF RestartNew, Kept, Steps
<1>10. CASE RestartFails \/ Unhealthy
  BY <1>1, <1>2, <1>10, RecordType DEF RestartFails, Unhealthy, others
<1>11. CASE Healthy
  BY <1>1, <1>2, <1>11, RecordType DEF Healthy, Answers, Page, Kept, others
<1>12. CASE PutBack
  BY <1>1, <1>2, <1>12, RecordType DEF PutBack, others, Steps
<1>13. CASE PutBackFails
  BY <1>1, <1>2, <1>13, RecordType DEF PutBackFails, others
<1>14. CASE RestartOld
  BY <1>1, <1>2, <1>4, <1>14, RecordType DEF RestartOld, Kept
<1>15. CASE RestartOldFails
  BY <1>1, <1>2, <1>15, RecordType DEF RestartOldFails, Kept, others
<1>16. CASE Leave
  BY <1>1, <1>2, <1>16, DefaultsType DEF Leave, others
<1>17. CASE Die
  BY <1>1, <1>2, <1>17, DefaultsType DEF Die, Updates, Steps, others
<1>18. CASE Unlock
  BY <1>1, <1>2, <1>18 DEF Unlock, others
<1>19. CASE GoBack
  <2>1. u'.pc = "done" /\ u'.report = "none"  BY <1>1, <1>19 DEF GoBack, Updates
  <2> QED BY <1>1, <1>2, <1>4, <1>19, <2>1 DEF GoBack
<1> QED
  BY <1>5, <1>6, <1>7, <1>8, <1>9, <1>10, <1>11, <1>12, <1>13, <1>14, <1>15, <1>16, <1>17, <1>18,
     <1>19, <1>20, <1>21, UpdaterSteps DEF Apply

\* However an update goes, and whatever is saved, restored or restarted meanwhile,
\* the station has a release that has served, unless an update was left half done
\* or could not be checked, and the report of the update is true (Apply,
\* waitHealthy, rollback).
THEOREM UpdateIsSafe == Spec => []UpdateKeepsStation
<1>1. Init => UpdateInv
  <2> SUFFICES ASSUME Init  PROVE UpdateInv
    OBVIOUS
  <2>1. u.pc = "idle" /\ bin \in proven /\ run \in proven  BY DefaultsType DEF Init
  <2> QED BY <2>1, InitTypes DEF UpdateInv, Proves, Awaited, Backed, ReportIsTrue
<1>2. UpdateInv /\ [Next]_vars => UpdateInv'
  BY UpdateStep
<1>3. UpdateInv => UpdateKeepsStation
  BY DEF UpdateInv, TypeInv, Kept, Backed, UpdateKeepsStation, EitherRelease
<1> QED BY <1>1, <1>2, <1>3, PTL DEF Spec

-----------------------------------------------------------------------------
(***************************************************************************)
(* Settings hold, and a restore is whole                                   *)
(***************************************************************************)
\* Until its first write a daemon runs what is wanted; with a write comes a
\* restart, or the operator has been told to intervene.
Wanting ==
  run # 0 => /\ writes = {} => mem.set = wanted
             /\ writes # {} => due \/ "torn" \in mishaps

SettingsInv == TypeInv /\ Wanting /\ (rst = 0 => file.set = wanted)

\* A setting that is saved is the one edited, and leaves the backup it is of.
LEMMA EditedIs ==
  ASSUME TypeInv, NEW f \in Fields, NEW v \in Values
  PROVE  /\ mem.set = wanted => Edited(f, v) = [wanted EXCEPT ![f] = v]
         /\ Edited(f, v).doc = mem.set.doc
  BY TypeParts DEF TypeInv, DaemonType, Configs, Settings, Fields, Edited

LEMMA SettingsStep ==
  ASSUME SettingsInv, [Next]_vars  PROVE SettingsInv'
<1> USE DEF Wanting
<1>1. TypeInv /\ Wanting /\ (rst = 0 => file.set = wanted)  BY DEF SettingsInv
<1>2. TypeInv'  BY <1>1, TypeStep
<1>3. rst # 0 => run # 0  BY <1>1 DEF TypeInv, Restoring, Serving
<1> SUFFICES Wanting' /\ (rst' = 0 => file'.set = wanted')
  BY <1>2 DEF SettingsInv
<1>4. CASE Boot
  BY <1>1, <1>3, <1>4 DEF Boot
<1>5. CASE Down
  BY <1>1, <1>5 DEF Down, Torn
<1>6. CASE Aside
  BY <1>1, <1>6 DEF Aside, life, conf
<1>7. CASE RestoreImport
  <2>1. due'  BY <1>7 DEF RestoreImport, Ask
  <2>2. writes' # {} /\ file'.set = wanted'  BY <1>7 DEF RestoreImport
  <2> QED BY <2>1, <2>2
<1>8. CASE RestoreUndone
  <2>1. file'.set = mem.set
    BY <1>8, TypeParts, <1>1 DEF RestoreUndone, TypeInv, DaemonType, Configs
  <2> QED BY <1>1, <1>3, <1>8, <2>1 DEF RestoreUndone, life
<1>9. CASE RestoreStuck
  BY <1>1, <1>9 DEF RestoreStuck, Torn, life
<1>10. ASSUME NEW f \in Fields, NEW v \in Values, Save(f, v)
       PROVE  Wanting' /\ (rst' = 0 => file'.set = wanted')
  <2>1. due' /\ writes' # {}  BY <1>10 DEF Save, Ask
  <2>2. file'.set = Edited(f, v) /\ rst' = rst /\ run # 0  BY <1>10 DEF Save, Page, Serving
  <2>3. writes = {} /\ rst = 0 => wanted' = [wanted EXCEPT ![f] = v] /\ mem.set = wanted
    BY <1>1, <1>10, <2>2 DEF Save
  <2>4. ~(writes = {} /\ rst = 0) => wanted' = file'.set  BY <1>10 DEF Save
  <2>5. rst' = 0 => file'.set = wanted'  BY <1>1, <2>2, <2>3, <2>4, EditedIs
  <2> QED BY <2>1, <2>5
<1>11. ASSUME NEW d \in 1..MaxDoc, RestoreConfig(d)
       PROVE  Wanting' /\ (rst' = 0 => file'.set = wanted')
  BY <1>1, <1>11 DEF RestoreConfig
<1> QED BY <1>4, <1>5, <1>6, <1>7, <1>8, <1>9, <1>10, <1>11, DaemonSteps

\* Whatever is saved, restored, updated or killed, the file has the settings the
\* operator was told are saved, and a daemon that is not to restart runs them
\* (writeTrial, handleBackupRestore, restartSoon).
THEOREM SettingsAreKept == Spec => []SettingsHold
<1>1. Init => SettingsInv
  BY InitTypes DEF Init, SettingsInv, Wanting
<1>2. SettingsInv /\ [Next]_vars => SettingsInv'
  BY SettingsStep
<1>3. SettingsInv => SettingsHold
  BY DEF SettingsInv, Wanting, SettingsHold, Serving
<1> QED BY <1>1, <1>2, <1>3, PTL DEF Spec

\* Unless it has restored one, a daemon runs settings of the backup that the
\* accounts are from; a restore under way has written those of its own.
Whole ==
  "torn" \notin mishaps =>
    /\ rst = 0 => file.set.doc = db
    /\ rst # 0 => file.set.doc = rst /\ "restore" \notin writes
    /\ run # 0 /\ "restore" \notin writes => mem.set.doc = db

WholeInv == TypeInv /\ Whole

LEMMA WholeStep ==
  ASSUME WholeInv, [Next]_vars  PROVE WholeInv'
<1> USE DEF Whole
<1>1. TypeInv /\ Whole  BY DEF WholeInv
<1>2. TypeInv'  BY <1>1, TypeStep
<1>3. rst # 0 => run # 0  BY <1>1 DEF TypeInv, Restoring, Serving
<1> SUFFICES Whole'
  BY <1>2 DEF WholeInv
<1>4. CASE Boot
  BY <1>1, <1>3, <1>4 DEF Boot
<1>5. CASE Down
  BY <1>1, <1>5 DEF Down, Torn
<1>6. CASE Aside
  BY <1>1, <1>6 DEF Aside, life, conf
<1>7. CASE RestoreImport
  BY <1>1, <1>7 DEF RestoreImport
<1>8. CASE RestoreUndone
  <2>1. file'.set = mem.set
    BY <1>8, TypeParts, <1>1 DEF RestoreUndone, TypeInv, DaemonType, Configs
  <2> QED BY <1>1, <1>3, <1>8, <2>1 DEF RestoreUndone, life
<1>9. CASE RestoreStuck
  BY <1>1, <1>9 DEF RestoreStuck, Torn, life
<1>10. ASSUME NEW f \in Fields, NEW v \in Values, Save(f, v)  PROVE Whole'
  <2>1. file'.set.doc = mem.set.doc  BY <1>1, <1>10, EditedIs DEF Save
  <2>2. UNCHANGED <<run, mem, db, rst>> /\ writes' = writes \cup {"save"} /\ run # 0
    BY <1>10 DEF Save, Page, Serving
  <2>3. "torn" \notin mishaps' => "torn" \notin mishaps /\ "restore" \notin writes /\ rst = 0
    BY <1>10 DEF Save
  <2> QED BY <1>1, <2>1, <2>2, <2>3
<1>11. ASSUME NEW d \in 1..MaxDoc, RestoreConfig(d)  PROVE Whole'
  <2>1. file'.set.doc = d  BY <1>11, DefaultsType DEF RestoreConfig, First
  <2>2. "torn" \notin mishaps' => "torn" \notin mishaps /\ "restore" \notin writes
    BY <1>11 DEF RestoreConfig
  <2> QED BY <1>1, <1>11, <2>1, <2>2 DEF RestoreConfig
<1> QED BY <1>4, <1>5, <1>6, <1>7, <1>8, <1>9, <1>10, <1>11, DaemonSteps

\* However a restore ends, the configuration and the accounts come from the same
\* backup, but for the crossings and crashes that RestoreIsWhole names.
THEOREM RestoresAreWhole == Spec => []RestoreIsWhole
<1>1. Init => WholeInv
  BY InitTypes DEF Init, First, WholeInv, Whole
<1>2. WholeInv /\ [Next]_vars => WholeInv'
  BY WholeStep
<1>3. WholeInv => RestoreIsWhole
  BY DEF WholeInv, Whole, RestoreIsWhole
<1> QED BY <1>1, <1>2, <1>3, PTL DEF Spec

-----------------------------------------------------------------------------
(***************************************************************************)
(* Jobs: the invariant                                                     *)
(***************************************************************************)
HIDE StationAssumption DEF StationAssumption
USE JobsAssumption DEF JobsAssumption

\* A job and its place; the places at which it holds its conversion.
Places == Running \cup {"end", "gone", "lost"}
JobEntries == [owner : Owners, conv : Conversions, at : Places,
               state : {"running"} \cup Ended, ok : BOOLEAN, told : BOOLEAN]
Within == {"inputs", "convert", "zip", "failed", "staged"}

\* What the tables say of a job follows from its place.
JobAt(at, state, linked, kept) ==
  /\ state = "running" <=> at \in Running
  /\ linked => kept /\ at \in {"staged", "settle", "end"}
  /\ kept => linked \/ at \in {"convert", "zip", "failed", "lost"}
  /\ at \in {"convert", "zip"} => kept

JobsArePlaced ==
  \A j \in DOMAIN job : JobAt(job[j].at, job[j].state, j \in pending, j \in dirs)

\* One job is inside for each conversion in busy, and for no other.
HeldOnce ==
  /\ \A i, j \in DOMAIN job :
       job[i].at \in Within /\ job[j].at \in Within /\ job[i].conv = job[j].conv => i = j
  /\ \A j \in DOMAIN job : job[j].at \in Within => job[j].conv \in busy
  /\ \A c \in busy : \E j \in DOMAIN job : job[j].at \in Within /\ job[j].conv = c

\* Requests of visitors that are past a check and have not started their jobs.
Starting == {r \in Requests : pc[r] = "start" /\ ask[r].owner \in Visitors}
Entering(v) == {r \in Requests : pc[r] \in {"all", "start"} /\ ask[r].owner = v}
JobsOf(v) == {j \in Anonymous : job[j].owner = v}

\* While no two requests of visitors have crossed, the one that may start has
\* its place in the budget; while no two of one visitor have, it is his only one.
BudgetHolds == ~crossed.all =>
  /\ \A r, s \in Starting : r = s
  /\ Cardinality(Anonymous) <= AnonLimit
  /\ Starting # {} => Cardinality(Anonymous) < AnonLimit

OwnHolds == \A v \in Visitors \ crossed.own :
  /\ \A r, s \in Entering(v) : r = s
  /\ \A i, j \in JobsOf(v) : i = j
  /\ Entering(v) = {} \/ JobsOf(v) = {}

ChecksAreOfVisitors == \A r \in Requests : pc[r] \in {"mine", "all"} => ask[r].owner \in Visitors

\* A process that stops is one of those that may.
StopsInBound == up # "on" => restarts < MaxRestart

JobsInv == /\ JobsTypeOK /\ StopsInBound /\ JobsArePlaced /\ HeldOnce
           /\ BudgetHolds /\ OwnHolds /\ ChecksAreOfVisitors

-----------------------------------------------------------------------------
(***************************************************************************)
(* What a step does to the jobs                                            *)
(***************************************************************************)
\* Job j, and no other, is changed.
Became(j, to, state) ==
  /\ j \in DOMAIN job /\ job' \in Seq(JobEntries) /\ DOMAIN job' = DOMAIN job
  /\ \A i \in DOMAIN job \ {j} : job'[i] = job[i]
  /\ job'[j].at = to /\ job'[j].state = state
  /\ job'[j].owner = job[j].owner /\ job'[j].conv = job[j].conv

LEMMA JobTypes == JobsTypeOK => job \in Seq(JobEntries)
BY DEF JobsTypeOK, JobEntries, Places

LEMMA JobFields ==
  ASSUME job \in Seq(JobEntries), NEW j \in DOMAIN job
  PROVE  job[j] \in JobEntries
<1>1. j \in 1..Len(job)  OBVIOUS
<1> QED BY <1>1, ElementOfSeq

LEMMA JobReplaced ==
  ASSUME job \in Seq(JobEntries), NEW j \in DOMAIN job, NEW n \in JobEntries,
         n.owner = job[j].owner, n.conv = job[j].conv, job' = [job EXCEPT ![j] = n]
  PROVE  Became(j, n.at, n.state)
<1>1. j \in 1..Len(job) /\ DOMAIN job = 1..Len(job)  OBVIOUS
<1>2. job' \in Seq(JobEntries) /\ Len(job') = Len(job)  BY <1>1, ExceptSeq
<1>3. DOMAIN job' = DOMAIN job  BY <1>2, <1>1
<1>4. job'[j] = n /\ \A i \in DOMAIN job \ {j} : job'[i] = job[i]  BY <1>1
<1> QED BY <1>2, <1>3, <1>4 DEF Became

LEMMA GoDoes ==
  ASSUME job \in Seq(JobEntries), NEW j \in DOMAIN job, NEW to \in Places, Go(j, to)
  PROVE  Became(j, to, job[j].state)
<1> DEFINE n == [job[j] EXCEPT !.at = to]
<1>1. job[j] \in JobEntries  BY JobFields
<1>2. n \in JobEntries /\ n.owner = job[j].owner /\ n.conv = job[j].conv /\ n.at = to
      /\ n.state = job[j].state
  BY <1>1 DEF JobEntries
<1>3. job' = [job EXCEPT ![j] = n]  BY DEF Go
<1> HIDE DEF n
<1> QED BY <1>2, <1>3, JobReplaced

LEMMA CancelDoes ==
  ASSUME job \in Seq(JobEntries), NEW j \in DOMAIN job, Cancel(j)
  PROVE  Became(j, job[j].at, job[j].state)
<1> DEFINE n == [job[j] EXCEPT !.told = TRUE]
<1>1. job[j] \in JobEntries  BY JobFields
<1>2. n \in JobEntries /\ n.owner = job[j].owner /\ n.conv = job[j].conv /\ n.at = job[j].at
      /\ n.state = job[j].state
  BY <1>1 DEF JobEntries
<1>3. job' = [job EXCEPT ![j] = n]  BY DEF Cancel
<1> HIDE DEF n
<1> QED BY <1>2, <1>3, JobReplaced

LEMMA ZipDoes ==
  ASSUME job \in Seq(JobEntries), NEW j \in DOMAIN job, Zip(j)
  PROVE  Became(j, "staged", job[j].state)
<1> DEFINE n == [job[j] EXCEPT !.at = "staged", !.ok = TRUE]
<1>1. job[j] \in JobEntries  BY JobFields
<1>2. n \in JobEntries /\ n.owner = job[j].owner /\ n.conv = job[j].conv /\ n.at = "staged"
      /\ n.state = job[j].state
  BY <1>1 DEF JobEntries, Places, Running
<1>3. job' = [job EXCEPT ![j] = n]  BY DEF Zip
<1> HIDE DEF n
<1> QED BY <1>2, <1>3, JobReplaced

LEMMA SettleDoes ==
  ASSUME job \in Seq(JobEntries), NEW j \in DOMAIN job, Settle(j)
  PROVE  \E state \in Ended : Became(j, "end", state)
<1> DEFINE s == IF job[j].ok THEN "done" ELSE IF job[j].told THEN "cancelled" ELSE "error"
           n == [job[j] EXCEPT !.at = "end", !.state = s]
<1>1. job[j] \in JobEntries  BY JobFields
<1>2. s \in Ended  BY DEF Ended
<1>3. job' = [job EXCEPT ![j] = n]  BY DEF Settle
<1> HIDE DEF s
<1>4. n \in JobEntries /\ n.owner = job[j].owner /\ n.conv = job[j].conv /\ n.at = "end"
      /\ n.state = s
  BY <1>1, <1>2 DEF JobEntries, Places
<1> HIDE DEF n
<1>5. Became(j, "end", s)  BY <1>3, <1>4, JobReplaced
<1> QED BY <1>2, <1>5

LEMMA BlankIs ==
  ASSUME job \in Seq(JobEntries), NEW j \in DOMAIN job, NEW to \in Places
  PROVE  /\ Blank(j, to) \in JobEntries
         /\ Blank(j, to).owner = job[j].owner /\ Blank(j, to).conv = job[j].conv
         /\ Blank(j, to).at = to /\ Blank(j, to).state = "done"
<1>1. job[j] \in JobEntries  BY JobFields
<1> QED BY <1>1 DEF JobEntries, Blank, Ended

LEMMA ExpireJobDoes ==
  ASSUME job \in Seq(JobEntries), NEW j \in DOMAIN job, ExpireJob(j)
  PROVE  Became(j, "gone", "done")
<1> DEFINE n == Blank(j, "gone")
<1>1. "gone" \in Places  BY DEF Places
<1>2. n \in JobEntries /\ n.owner = job[j].owner /\ n.conv = job[j].conv /\ n.at = "gone"
      /\ n.state = "done"
  BY <1>1, BlankIs
<1>3. job' = [job EXCEPT ![j] = n]  BY DEF ExpireJob
<1> HIDE DEF n
<1> QED BY <1>2, <1>3, JobReplaced

\* What runs when the process ends is lost; nothing else changes.
LEMMA ProcessExitDoes ==
  ASSUME job \in Seq(JobEntries), ProcessExit
  PROVE  /\ job' \in Seq(JobEntries) /\ DOMAIN job' = DOMAIN job
         /\ \A j \in DOMAIN job :
              \/ job[j].at \in {"gone", "lost"} /\ job'[j] = job[j]
              \/ job[j].at \notin {"gone", "lost"} /\ job'[j].at = "lost" /\ job'[j].state = "done"
<1> DEFINE n(j) == IF j \in Shown THEN Blank(j, "lost") ELSE job[j]
<1>1. "lost" \in Places  BY DEF Places
<1>2. \A j \in DOMAIN job : Blank(j, "lost") \in JobEntries /\ Blank(j, "lost").at = "lost"
        /\ Blank(j, "lost").state = "done"
  BY <1>1, BlankIs
<1>3. \A j \in DOMAIN job : n(j) \in JobEntries  BY <1>2, JobFields
<1>4. job' = [j \in DOMAIN job |-> n(j)]  BY DEF ProcessExit
<1>5. DOMAIN job = 1..Len(job) /\ Len(job) \in Nat  OBVIOUS
<1> HIDE DEF n
<1>6. job' = [j \in 1..Len(job) |-> n(j)] /\ \A j \in 1..Len(job) : n(j) \in JobEntries
  BY <1>3, <1>4, <1>5
<1>7. job' \in Seq(JobEntries) /\ DOMAIN job' = DOMAIN job  BY <1>5, <1>6
<1>8. \A j \in DOMAIN job :
              \/ job[j].at \in {"gone", "lost"} /\ n(j) = job[j]
              \/ job[j].at \notin {"gone", "lost"} /\ n(j).at = "lost" /\ n(j).state = "done"
  BY <1>2 DEF n, Shown
<1>9. \A j \in DOMAIN job : job'[j] = n(j)  BY <1>4
<1> QED BY <1>7, <1>8, <1>9

-----------------------------------------------------------------------------
(***************************************************************************)
(* The parts of the invariant                                              *)
(***************************************************************************)
\* The steps of a job, in what they do to the tables.
InTables(j, to, state) ==
  /\ Became(j, to, state)
  /\ JobAt(to, state, j \in pending', j \in dirs')
  /\ \A i \in DOMAIN job \ {j} : (i \in pending' <=> i \in pending) /\ (i \in dirs' <=> i \in dirs)

LEMMA PlacedInTables ==
  ASSUME JobsArePlaced, NEW j, NEW to, NEW state, InTables(j, to, state)
  PROVE  JobsArePlaced'
BY DEF JobsArePlaced, InTables, Became, JobAt

LEMMA HeldAsBefore ==
  ASSUME HeldOnce, NEW j, NEW to, NEW state, Became(j, to, state), UNCHANGED busy,
         to \in Within <=> job[j].at \in Within
  PROVE  HeldOnce'
<1>1. \A i \in DOMAIN job : (job'[i].at \in Within <=> job[i].at \in Within) /\ job'[i].conv = job[i].conv
  BY DEF Became
<1>2. DOMAIN job' = DOMAIN job  BY DEF Became
<1> QED BY <1>1, <1>2 DEF HeldOnce

LEMMA HeldNow ==
  ASSUME HeldOnce, NEW j, Became(j, "inputs", "running"), job[j].conv \notin busy,
         busy' = busy \cup {job[j].conv}
  PROVE  HeldOnce'
<1>1. \A i \in DOMAIN job \ {j} : job'[i] = job[i]  BY DEF Became
<1>2. DOMAIN job' = DOMAIN job /\ j \in DOMAIN job  BY DEF Became
<1>3. job'[j].at \in Within /\ job'[j].conv = job[j].conv  BY DEF Became, Within
<1>4. job[j].at \notin Within  BY <1>2 DEF HeldOnce
<1> QED BY <1>1, <1>2, <1>3, <1>4 DEF HeldOnce

LEMMA HeldNoMore ==
  ASSUME HeldOnce, NEW j, NEW to, NEW state, Became(j, to, state), to \notin Within,
         job[j].at \in Within, busy' = busy \ {job[j].conv}
  PROVE  HeldOnce'
<1>1. \A i \in DOMAIN job \ {j} : job'[i] = job[i]  BY DEF Became
<1>2. DOMAIN job' = DOMAIN job /\ j \in DOMAIN job  BY DEF Became
<1>3. job'[j].at \notin Within /\ job'[j].conv = job[j].conv  BY DEF Became
<1> QED BY <1>1, <1>2, <1>3 DEF HeldOnce

\* Steps after which no other job runs than before, and no request has gone on.
NoneMore ==
  /\ Anonymous' \subseteq Anonymous /\ DOMAIN job' = DOMAIN job
  /\ \A i \in DOMAIN job : job'[i].owner = job[i].owner
  /\ UNCHANGED <<pc, ask, crossed>>

LEMMA AnonymousIsFinite ==
  ASSUME job \in Seq(JobEntries)
  PROVE  /\ IsFiniteSet(Anonymous) /\ Cardinality(Anonymous) \in Nat
         /\ Anonymous \subseteq DOMAIN job
<1>1. Anonymous \subseteq DOMAIN job  BY DEF Anonymous, Works, Shown
<1>2. DOMAIN job = 1..Len(job) /\ Len(job) \in Nat  OBVIOUS
<1>3. IsFiniteSet(1..Len(job))  BY <1>2, FS_Interval
<1> QED BY <1>1, <1>2, <1>3, FS_Subset, FS_CardinalityType

LEMMA BoundsWithNoneMore ==
  ASSUME job \in Seq(JobEntries), NoneMore, BudgetHolds, OwnHolds
  PROVE  BudgetHolds' /\ OwnHolds'
<1>1. IsFiniteSet(Anonymous) /\ Cardinality(Anonymous) \in Nat /\ Anonymous \subseteq DOMAIN job
  BY AnonymousIsFinite
<1>2. IsFiniteSet(Anonymous') /\ Cardinality(Anonymous') \in Nat
      /\ Cardinality(Anonymous') <= Cardinality(Anonymous)
  BY <1>1, FS_Subset, FS_CardinalityType DEF NoneMore
<1>3. Starting' = Starting /\ \A v : Entering(v)' = Entering(v)
  BY DEF NoneMore, Starting, Entering
<1>4. \A v : JobsOf(v)' \subseteq JobsOf(v)  BY <1>1 DEF NoneMore, JobsOf
<1>5. BudgetHolds'
  <2> SUFFICES ASSUME ~crossed'.all
               PROVE  /\ \A r, s \in Starting' : r = s
                      /\ Cardinality(Anonymous') <= AnonLimit
                      /\ Starting' # {} => Cardinality(Anonymous') < AnonLimit
    BY Zenon DEF BudgetHolds
  <2>1. ~crossed.all  BY DEF NoneMore
  <2>2. /\ \A r, s \in Starting : r = s
        /\ Cardinality(Anonymous) <= AnonLimit
        /\ Starting # {} => Cardinality(Anonymous) < AnonLimit
    BY <2>1, Zenon DEF BudgetHolds
  <2>3. \A r, s \in Starting' : r = s  BY <2>2, <1>3
  <2>4. Cardinality(Anonymous') <= AnonLimit  BY <2>2, <1>1, <1>2
  <2>5. Starting' # {} => Cardinality(Anonymous') < AnonLimit  BY <2>2, <1>1, <1>2, <1>3
  <2> QED BY <2>3, <2>4, <2>5
<1>6. OwnHolds'  BY <1>3, <1>4 DEF OwnHolds, NoneMore
<1> QED BY <1>5, <1>6

LEMMA NoneMoreRun ==
  ASSUME JobsArePlaced, NEW j, NEW to, NEW state, Became(j, to, state),
         to \in {"gone", "lost"} \/ state # "running" \/ job[j].at \in Running,
         UNCHANGED <<pc, ask, crossed>>
  PROVE  NoneMore
<1>1. \A i \in DOMAIN job : job'[i].owner = job[i].owner  BY DEF Became
<1>2. DOMAIN job' = DOMAIN job  BY DEF Became
<1>3. Anonymous' \subseteq Anonymous
  <2> SUFFICES ASSUME NEW i \in Anonymous'  PROVE i \in Anonymous
    OBVIOUS
  <2>1. i \in DOMAIN job' /\ job'[i].at \notin {"gone", "lost"} /\ job'[i].state = "running"
        /\ job'[i].owner \in Visitors
    BY DEF Anonymous, Works, Shown
  <2>2. job[i].at \notin {"gone", "lost"} /\ job[i].state = "running"
    <3>1. CASE i = j  BY <3>1, <2>1 DEF Became, JobsArePlaced, JobAt, Running
    <3>2. CASE i # j  BY <3>2, <2>1 DEF Became
    <3> QED BY <3>1, <3>2
  <2> QED BY <2>1, <2>2, <1>1, <1>2 DEF Anonymous, Works, Shown
<1> QED BY <1>1, <1>2, <1>3 DEF NoneMore

-----------------------------------------------------------------------------
(***************************************************************************)
(* Each step keeps the invariant                                           *)
(***************************************************************************)
\* A step of a job after which it holds what it held.
LEMMA JobGoesOn ==
  ASSUME JobsInv, NEW j, NEW to, NEW state, InTables(j, to, state),
         to \in Places, to \in {"gone", "lost"} \/ state # "running" \/ job[j].at \in Running,
         HeldOnce', pending' \subseteq DOMAIN job, dirs' \subseteq DOMAIN job,
         busy' \subseteq Conversions, UNCHANGED rest
  PROVE  JobsInv'
<1>1. Became(j, to, state)  BY DEF InTables
<1>2. UNCHANGED <<up, restarts>> /\ UNCHANGED <<pc, ask, crossed>>  BY DEF rest
<1>3. JobsTypeOK'
  <2>1. job' \in Seq(JobEntries) /\ DOMAIN job' = DOMAIN job  BY <1>1 DEF Became
  <2> QED BY <1>2, <2>1 DEF JobsInv, JobsTypeOK, JobEntries, Places
<1>4. JobsArePlaced'  BY PlacedInTables DEF JobsInv
<1>5. NoneMore  BY <1>1, <1>2, NoneMoreRun DEF JobsInv
<1>6. BudgetHolds' /\ OwnHolds'  BY <1>5, BoundsWithNoneMore, JobTypes DEF JobsInv
<1>7. ChecksAreOfVisitors'  BY <1>2 DEF JobsInv, ChecksAreOfVisitors
<1>8. StopsInBound'  BY <1>2 DEF JobsInv, StopsInBound
<1> QED BY <1>3, <1>4, <1>6, <1>7, <1>8 DEF JobsInv

LEMMA JobIs ==
  ASSUME JobsInv, NEW j \in DOMAIN job
  PROVE  /\ job \in Seq(JobEntries) /\ job[j] \in JobEntries /\ job[j].conv \in Conversions
         /\ JobAt(job[j].at, job[j].state, j \in pending, j \in dirs)
         /\ pending \subseteq DOMAIN job /\ dirs \subseteq DOMAIN job /\ busy \subseteq Conversions
<1>1. job \in Seq(JobEntries)  BY JobTypes DEF JobsInv
<1>2. job[j] \in JobEntries  BY <1>1, JobFields
<1>3. job[j].conv \in Conversions  BY <1>2 DEF JobEntries
<1> QED BY <1>1, <1>2, <1>3 DEF JobsInv, JobsTypeOK, JobsArePlaced

LEMMA ReserveStep ==
  ASSUME JobsInv, NEW j \in DOMAIN job, Reserve(j)
  PROVE  JobsInv'
<1> USE JobIs
<1>1. job[j].at = "begin" /\ UNCHANGED rest /\ UNCHANGED pending /\ UNCHANGED dirs
  BY DEF Reserve, At
<1>2. job[j].state = "running" /\ j \notin pending /\ j \notin dirs
  BY <1>1 DEF JobAt, Running
<1>3. CASE job[j].conv \in busy
  <2>1. Go(j, "settle") /\ UNCHANGED busy  BY <1>3 DEF Reserve
  <2>2. Became(j, "settle", "running")  BY <2>1, <1>2, GoDoes DEF Places, Running
  <2>3. InTables(j, "settle", "running")  BY <2>2, <1>1, <1>2 DEF InTables, JobAt, Running
  <2>4. HeldOnce'  BY <2>1, <2>2, <1>1, HeldAsBefore DEF JobsInv, Within
  <2> QED BY <2>1, <2>3, <2>4, <1>1, JobGoesOn DEF Places, Running
<1>4. CASE job[j].conv \notin busy
  <2>1. Go(j, "inputs") /\ busy' = busy \cup {job[j].conv}  BY <1>4 DEF Reserve
  <2>2. Became(j, "inputs", "running")  BY <2>1, <1>2, GoDoes DEF Places, Running
  <2>3. InTables(j, "inputs", "running")  BY <2>2, <1>1, <1>2 DEF InTables, JobAt, Running
  <2>4. HeldOnce'  BY <2>1, <2>2, <1>4, HeldNow DEF JobsInv
  <2>5. busy' \subseteq Conversions  BY <2>1
  <2> QED BY <2>5, <2>3, <2>4, <1>1, JobGoesOn DEF Places, Running
<1> QED BY <1>3, <1>4

\* The steps that only go on.
LEMMA GoStep ==
  ASSUME JobsInv, NEW j \in DOMAIN job,
         NoInputs(j) \/ MakeDir(j) \/ Convert(j) \/ ConvertFails(j) \/ ZipFails(j) \/ CleanUp(j)
  PROVE  JobsInv'
<1> USE JobIs
<1>1. UNCHANGED rest /\ UNCHANGED pending /\ UNCHANGED busy
  BY DEF NoInputs, MakeDir, Convert, ConvertFails, ZipFails, CleanUp
<1>2. PICK to \in {"failed", "convert", "zip", "staged"} : Go(j, to) /\ job[j].at \in Within /\
        JobAt(to, "running", j \in pending', j \in dirs')
        /\ dirs' \subseteq dirs \cup {j} /\ dirs \subseteq dirs' \cup {j}
  <2>1. CASE NoInputs(j)
    BY <2>1 DEF NoInputs, At, JobAt, Running, Within
  <2>2. CASE MakeDir(j)
    BY <2>2 DEF MakeDir, At, JobAt, Running, Within
  <2>3. CASE Convert(j)
    BY <2>3 DEF Convert, At, JobAt, Running, Within
  <2>4. CASE ConvertFails(j)
    BY <2>4 DEF ConvertFails, At, JobAt, Running, Within
  <2>5. CASE ZipFails(j)
    BY <2>5 DEF ZipFails, At, JobAt, Running, Within
  <2>6. CASE CleanUp(j)
    BY <2>6 DEF CleanUp, At, JobAt, Running, Within
  <2> QED BY <2>1, <2>2, <2>3, <2>4, <2>5, <2>6
<1>3. job[j].state = "running" /\ job[j].at \in Running /\ to \in Places
  BY <1>2 DEF JobAt, Running, Within, Places
<1>4. Became(j, to, "running")  BY <1>2, <1>3, GoDoes
<1>5. InTables(j, to, "running")  BY <1>1, <1>2, <1>4 DEF InTables
<1>6. HeldOnce'  BY <1>1, <1>2, <1>4, HeldAsBefore DEF JobsInv, Within
<1>7. dirs' \subseteq DOMAIN job  BY <1>2
<1> QED BY <1>1, <1>3, <1>5, <1>6, <1>7, JobGoesOn

LEMMA ZipStep ==
  ASSUME JobsInv, NEW j \in DOMAIN job, Zip(j)
  PROVE  JobsInv'
<1> USE JobIs
<1>1. job[j].at = "zip" /\ UNCHANGED rest /\ UNCHANGED dirs /\ UNCHANGED busy
      /\ pending' = pending \cup {j}
  BY DEF Zip, At
<1>2. job[j].state = "running" /\ j \in dirs /\ job[j].at \in Running
  BY <1>1 DEF JobAt, Running
<1>3. Became(j, "staged", "running")  BY <1>2, ZipDoes
<1>4. InTables(j, "staged", "running")  BY <1>1, <1>2, <1>3 DEF InTables, JobAt, Running
<1>5. HeldOnce'  BY <1>1, <1>3, HeldAsBefore DEF JobsInv, Within
<1> QED BY <1>1, <1>2, <1>4, <1>5, JobGoesOn DEF Places, Running

LEMMA ReleaseStep ==
  ASSUME JobsInv, NEW j \in DOMAIN job, Release(j)
  PROVE  JobsInv'
<1> USE JobIs
<1>1. job[j].at = "staged" /\ UNCHANGED rest /\ UNCHANGED dirs /\ UNCHANGED pending
      /\ busy' = busy \ {job[j].conv} /\ Go(j, "settle")
  BY DEF Release, At
<1>2. job[j].state = "running" /\ job[j].at \in Running /\ (j \in dirs <=> j \in pending)
  BY <1>1 DEF JobAt, Running
<1>3. Became(j, "settle", "running")  BY <1>1, <1>2, GoDoes DEF Places, Running
<1>4. InTables(j, "settle", "running")  BY <1>1, <1>2, <1>3 DEF InTables, JobAt, Running
<1>5. HeldOnce'  BY <1>1, <1>3, HeldNoMore DEF JobsInv, Within
<1> QED BY <1>1, <1>2, <1>4, <1>5, JobGoesOn DEF Places, Running

LEMMA SettleStep ==
  ASSUME JobsInv, NEW j \in DOMAIN job, Settle(j)
  PROVE  JobsInv'
<1> USE JobIs
<1>1. job[j].at = "settle" /\ UNCHANGED rest /\ UNCHANGED dirs /\ UNCHANGED pending /\ UNCHANGED busy
  BY DEF Settle, At
<1>2. job[j].at \in Running /\ (j \in dirs <=> j \in pending)
  BY <1>1 DEF JobAt, Running
<1>3. PICK state \in Ended : Became(j, "end", state)  BY SettleDoes
<1>4. InTables(j, "end", state)  BY <1>1, <1>2, <1>3 DEF InTables, JobAt, Running, Ended
<1>5. HeldOnce'  BY <1>1, <1>3, HeldAsBefore DEF JobsInv, Within
<1> QED BY <1>1, <1>2, <1>4, <1>5, JobGoesOn DEF Places

LEMMA CancelStep ==
  ASSUME JobsInv, NEW j \in DOMAIN job, Cancel(j)
  PROVE  JobsInv'
<1> USE JobIs
<1>1. UNCHANGED rest /\ UNCHANGED dirs /\ UNCHANGED pending /\ UNCHANGED busy
      /\ job[j].state = "running"
  BY DEF Cancel, rest, Works
<1>2. job[j].at \in Running /\ job[j].at \in Places
  BY <1>1 DEF JobAt, JobEntries
<1>3. Became(j, job[j].at, job[j].state)  BY CancelDoes
<1>4. InTables(j, job[j].at, job[j].state)  BY <1>1, <1>3 DEF InTables
<1>5. HeldOnce'  BY <1>1, <1>3, HeldAsBefore DEF JobsInv
<1> QED BY <1>1, <1>2, <1>4, <1>5, JobGoesOn

LEMMA ExpireJobStep ==
  ASSUME JobsInv, NEW j \in DOMAIN job, ExpireJob(j)
  PROVE  JobsInv'
<1> USE JobIs
<1>1. UNCHANGED rest /\ UNCHANGED dirs /\ UNCHANGED pending /\ UNCHANGED busy
      /\ job[j].state # "running" /\ j \notin pending /\ job[j].at \notin {"gone", "lost"}
  BY DEF ExpireJob, rest, Works, Shown
<1>2. job[j].at = "end" /\ j \notin dirs
  BY <1>1 DEF JobAt, JobEntries, Places
<1>3. Became(j, "gone", "done")  BY ExpireJobDoes
<1>4. InTables(j, "gone", "done")  BY <1>1, <1>2, <1>3 DEF InTables, JobAt, Running
<1>5. HeldOnce'  BY <1>1, <1>2, <1>3, HeldAsBefore DEF JobsInv, Within
<1> QED BY <1>1, <1>2, <1>4, <1>5, JobGoesOn DEF Places

\* Steps of the process, and a link that ends: no job goes on.
LEMMA SameJobs ==
  ASSUME UNCHANGED <<pc, ask, job, crossed>>
  PROVE  NoneMore
<1>1. Anonymous' = Anonymous  BY DEF Anonymous, Works, Shown
<1> QED BY <1>1 DEF NoneMore

LEMMA DaemonStep ==
  ASSUME JobsInv, (\E j \in DOMAIN job : Expire(j)) \/ Stop \/ ProcessStart
  PROVE  JobsInv'
<1>1. UNCHANGED <<pc, ask, job, crossed>> /\ UNCHANGED busy
  BY DEF Expire, Stop, ProcessStart, rest
<1>2. pending' \subseteq pending /\ dirs' \subseteq dirs
  BY DEF Expire, Stop, ProcessStart
<1>3. up' \in {"on", "stopping", "off"} /\ restarts' \in 0..MaxRestart
  <2>1. restarts \in 0..MaxRestart /\ up \in {"on", "stopping", "off"}  BY DEF JobsInv, JobsTypeOK
  <2>2. CASE \E j \in DOMAIN job : Expire(j)  BY <2>1, <2>2 DEF Expire, rest
  <2>3. CASE Stop  BY <2>1, <2>3 DEF Stop
  <2>4. CASE ProcessStart
    <3>1. restarts' = restarts + 1 /\ up' = "on"  BY <2>4 DEF ProcessStart
    <3>2. restarts < MaxRestart
      BY <2>4 DEF ProcessStart, JobsInv, StopsInBound
    <3> QED BY <2>1, <3>1, <3>2
  <2> QED BY <2>2, <2>3, <2>4
<1>4. JobsTypeOK'  BY <1>1, <1>2, <1>3 DEF JobsInv, JobsTypeOK
<1>5. JobsArePlaced'
  <2>1. CASE Stop \/ ProcessStart
    <3>1. \A j \in DOMAIN job : (j \in pending' => j \in pending) /\ (j \in dirs' <=> j \in dirs \ (pending \ pending'))
      BY <2>1 DEF Stop, ProcessStart, JobsInv, JobsArePlaced, JobAt
    <3> QED BY <3>1, <1>1 DEF JobsInv, JobsArePlaced, JobAt
  <2>2. CASE \E j \in DOMAIN job : Expire(j)
    <3>1. \A j \in DOMAIN job : (j \in pending' => j \in pending) /\ (j \in dirs' <=> j \in dirs \ (pending \ pending'))
      BY <2>2 DEF Expire
    <3> QED BY <3>1, <1>1 DEF JobsInv, JobsArePlaced, JobAt
  <2> QED BY <2>1, <2>2
<1>6. HeldOnce'  BY <1>1 DEF JobsInv, HeldOnce
<1>7. BudgetHolds' /\ OwnHolds'  BY <1>1, SameJobs, BoundsWithNoneMore, JobTypes DEF JobsInv
<1>8. ChecksAreOfVisitors'  BY <1>1 DEF JobsInv, ChecksAreOfVisitors
<1>9. StopsInBound'  BY DEF JobsInv, StopsInBound, Expire, Stop, ProcessStart, rest
<1> QED BY <1>4, <1>5, <1>6, <1>7, <1>8, <1>9 DEF JobsInv

LEMMA ProcessExitStep ==
  ASSUME JobsInv, ProcessExit
  PROVE  JobsInv'
<1>1. job \in Seq(JobEntries)  BY JobTypes DEF JobsInv
<1>2. /\ job' \in Seq(JobEntries) /\ DOMAIN job' = DOMAIN job
      /\ \A j \in DOMAIN job :
           \/ job[j].at \in {"gone", "lost"} /\ job'[j] = job[j]
           \/ job[j].at \notin {"gone", "lost"} /\ job'[j].at = "lost" /\ job'[j].state = "done"
  BY <1>1, ProcessExitDoes
<1>3. /\ up' = "off" /\ restarts < MaxRestart /\ UNCHANGED <<restarts, ask, dirs>>
      /\ busy' = {} /\ pending' = {} /\ crossed' = [own |-> {}, all |-> FALSE]
      /\ pc' = [r \in Requests |-> IF pc[r] = "idle" THEN "idle" ELSE "end"]
  BY DEF ProcessExit
<1>4. \A j \in DOMAIN job : job'[j].at \in {"gone", "lost"}  BY <1>2
<1>5. Anonymous' = {}  BY <1>2, <1>4 DEF Anonymous, Works, Shown
<1>6. Starting' = {} /\ \A v : Entering(v)' = {}  BY <1>3 DEF Starting, Entering
<1>7. JobsTypeOK'
  <2>1. pc' \in [Requests -> {"idle", "mine", "all", "start", "end"}]  BY <1>3
  <2>2. crossed' \in [own : SUBSET Visitors, all : BOOLEAN]  BY <1>3
  <2>3. up' \in {"on", "stopping", "off"} /\ restarts' \in 0..MaxRestart
        /\ ask' \in [Requests -> [owner : Owners, conv : Conversions]]
        /\ busy' \subseteq Conversions /\ pending' \subseteq DOMAIN job' /\ dirs' \subseteq DOMAIN job'
    BY <1>2, <1>3 DEF JobsInv, JobsTypeOK
  <2>4. job' \in Seq([owner : Owners, conv : Conversions, at : Running \cup {"end", "gone", "lost"},
                  state : {"running"} \cup Ended, ok : BOOLEAN, told : BOOLEAN])
    BY <1>2 DEF JobEntries, Places
  <2> QED BY <2>1, <2>2, <2>3, <2>4 DEF JobsTypeOK
<1>8. JobsArePlaced'
  <2> SUFFICES ASSUME NEW j \in DOMAIN job
               PROVE JobAt(job'[j].at, job'[j].state, j \in pending', j \in dirs')
    BY <1>2 DEF JobsArePlaced
  <2>1. JobAt(job[j].at, job[j].state, j \in pending, j \in dirs)  BY DEF JobsInv, JobsArePlaced
  <2>2. CASE job[j].at \in {"gone", "lost"}
    BY <2>1, <2>2, <1>2, <1>3 DEF JobAt, Running
  <2>3. CASE job[j].at \notin {"gone", "lost"}
    BY <2>3, <1>2, <1>3 DEF JobAt, Running
  <2> QED BY <2>2, <2>3
<1>9. HeldOnce'  BY <1>2, <1>3, <1>4 DEF HeldOnce, Within
<1>10. Cardinality(Anonymous') = 0  BY <1>5, FS_EmptySet
<1>11. BudgetHolds'  BY <1>6, <1>10 DEF BudgetHolds
<1>12. OwnHolds'  BY <1>5, <1>6 DEF OwnHolds, JobsOf
<1>13. ChecksAreOfVisitors' /\ StopsInBound'  BY <1>3 DEF ChecksAreOfVisitors, StopsInBound
<1> QED BY <1>7, <1>8, <1>9, <1>11, <1>12, <1>13 DEF JobsInv

-----------------------------------------------------------------------------
(***************************************************************************)
(* The steps of requests                                                   *)
(***************************************************************************)
\* A request goes on and no job is changed.
LEMMA RequestGoesOn ==
  ASSUME JobsInv, NEW r \in Requests, NEW to \in {"mine", "all", "start", "end"}, GoOn(r, to),
         to \in {"mine", "all"} => ask[r].owner \in Visitors,
         crossed' \in [own : SUBSET Visitors, all : BOOLEAN],
         BudgetHolds', OwnHolds'
  PROVE  JobsInv'
<1>1. /\ pc' = [pc EXCEPT ![r] = to] /\ UNCHANGED job
      /\ UNCHANGED <<up, restarts, ask, busy, pending, dirs>>
  BY DEF GoOn
<1>2. JobsTypeOK'  BY <1>1 DEF JobsInv, JobsTypeOK
<1>3. JobsArePlaced' /\ HeldOnce' /\ StopsInBound'
  BY <1>1 DEF JobsInv, JobsArePlaced, HeldOnce, StopsInBound
<1>4. ChecksAreOfVisitors'
  BY <1>1 DEF JobsInv, JobsTypeOK, ChecksAreOfVisitors
<1> QED BY <1>2, <1>3, <1>4 DEF JobsInv

\* A request that goes where none starts or is past a check leaves the bounds alone.
LEMMA RequestLeaves ==
  ASSUME JobsInv, NEW r \in Requests, NEW to \in {"mine", "end"}, GoOn(r, to), UNCHANGED crossed
  PROVE  BudgetHolds' /\ OwnHolds'
<1>1. Anonymous' = Anonymous /\ UNCHANGED ask /\ UNCHANGED job  BY DEF GoOn, Anonymous, Works, Shown
<1>2. \A s \in Requests : pc'[s] \in {"all", "start"} => pc[s] = pc'[s]
  BY DEF GoOn, JobsInv, JobsTypeOK
<1>3. Starting' \subseteq Starting /\ \A v : Entering(v)' \subseteq Entering(v) /\ JobsOf(v)' = JobsOf(v)
  BY <1>1, <1>2 DEF Starting, Entering, JobsOf
<1>4. Cardinality(Anonymous') = Cardinality(Anonymous)  BY <1>1
<1>5. OwnHolds'  BY <1>3 DEF JobsInv, OwnHolds
<1>6. BudgetHolds'  BY <1>3, <1>4 DEF JobsInv, BudgetHolds
<1> QED BY <1>5, <1>6

LEMMA AskForStep ==
  ASSUME JobsInv, NEW r \in Requests, AskFor(r)
  PROVE  JobsInv'
<1>1. ask[r].owner \in Owners  BY DEF JobsInv, JobsTypeOK
<1>2. crossed \in [own : SUBSET Visitors, all : BOOLEAN] /\ UNCHANGED crossed
  BY DEF JobsInv, JobsTypeOK, AskFor
<1>3. CASE ask[r].owner \notin Admins
  <2>1. GoOn(r, "mine") /\ ask[r].owner \in Visitors  BY <1>1, <1>3 DEF AskFor, Owners
  <2> QED BY <2>1, <1>2, RequestLeaves, RequestGoesOn
<1>4. CASE ask[r].owner \in Admins
  <2>1. GoOn(r, "start") /\ ask[r].owner \notin Visitors  BY <1>4 DEF AskFor
  <2>2. Anonymous' = Anonymous /\ UNCHANGED ask /\ UNCHANGED job
    BY <2>1 DEF GoOn, Anonymous, Works, Shown
  <2>3. \A s \in Requests \ {r} : pc'[s] = pc[s]
    BY <2>1 DEF GoOn, JobsInv, JobsTypeOK
  <2>4. Starting' \subseteq Starting  BY <2>1, <2>2, <2>3 DEF Starting
  <2>5. \A v \in Visitors : Entering(v)' \subseteq Entering(v) /\ JobsOf(v)' = JobsOf(v)
    BY <2>1, <2>2, <2>3 DEF Entering, JobsOf
  <2>6. Cardinality(Anonymous') = Cardinality(Anonymous)  BY <2>2
  <2>7. OwnHolds'  BY <2>5, <1>2 DEF JobsInv, OwnHolds
  <2>8. BudgetHolds'  BY <2>4, <2>6, <1>2 DEF JobsInv, BudgetHolds
  <2> QED BY <2>1, <2>7, <2>8, <1>2, RequestGoesOn
<1> QED BY <1>3, <1>4

LEMMA CheckOwnStep ==
  ASSUME JobsInv, NEW r \in Requests, NEW v, v = ask[r].owner, CheckOwn(r)
  PROVE  JobsInv'
<1>1. pc[r] = "mine" /\ v \in Visitors /\ crossed \in [own : SUBSET Visitors, all : BOOLEAN]
      /\ pc \in [Requests -> {"idle", "mine", "all", "start", "end"}]
  BY DEF CheckOwn, JobsInv, JobsTypeOK, ChecksAreOfVisitors
<1>2. CASE \E j \in Works : job[j].owner = v
  <2>1. GoOn(r, "end") /\ UNCHANGED crossed  BY <1>2 DEF CheckOwn
  <2> QED BY <2>1, <1>1, RequestLeaves, RequestGoesOn
<1>3. CASE ~\E j \in Works : job[j].owner = v
  <2> DEFINE c == [crossed EXCEPT !.own = @ \cup {v}]
  <2>1. GoOn(r, "all") /\ crossed' = IF Crossing({"all", "start"}, {v}) THEN c ELSE crossed
    BY <1>3 DEF CheckOwn
  <2>2. c \in [own : SUBSET Visitors, all : BOOLEAN] /\ c.own = crossed.own \cup {v} /\ c.all = crossed.all
    BY <1>1
  <2> HIDE DEF c
  <2>3. crossed' \in [own : SUBSET Visitors, all : BOOLEAN] /\ crossed'.all = crossed.all
        /\ crossed.own \subseteq crossed'.own /\ (Crossing({"all", "start"}, {v}) => v \in crossed'.own)
    BY <2>1, <2>2, <1>1
  <2>4. Anonymous' = Anonymous /\ UNCHANGED ask /\ UNCHANGED job
    BY <2>1 DEF GoOn, Anonymous, Works, Shown
  <2>5. pc' = [pc EXCEPT ![r] = "all"]  BY <2>1 DEF GoOn
  <2>6. Starting' = Starting  BY <2>4, <2>5, <1>1 DEF Starting
  <2>7. \A w : JobsOf(w)' = JobsOf(w)  BY <2>4 DEF JobsOf
  <2>8. \A w : w # v => Entering(w)' = Entering(w)  BY <2>4, <2>5, <1>1 DEF Entering
  <2>9. Entering(v)' = Entering(v) \cup {r}  BY <2>4, <2>5, <1>1 DEF Entering
  <2>10. JobsOf(v) = {}  BY <1>3 DEF JobsOf, Anonymous
  <2>11. v \notin crossed'.own => Entering(v) = {}  BY <2>3 DEF Crossing, Entering
  <2>12. OwnHolds'
    <3> SUFFICES ASSUME NEW w \in Visitors \ crossed'.own
                 PROVE  /\ \A q, s \in Entering(w)' : q = s
                        /\ \A i, j \in JobsOf(w)' : i = j
                        /\ Entering(w)' = {} \/ JobsOf(w)' = {}
      BY DEF OwnHolds
    <3>1. CASE w = v  BY <3>1, <2>7, <2>9, <2>10, <2>11
    <3>2. CASE w # v  BY <3>2, <2>3, <2>7, <2>8 DEF JobsInv, OwnHolds
    <3> QED BY <3>1, <3>2
  <2>13. Cardinality(Anonymous') = Cardinality(Anonymous)  BY <2>4
  <2>14. BudgetHolds'
    <3>1. BudgetHolds  BY DEF JobsInv
    <3> QED BY <3>1, <2>3, <2>6, <2>13 DEF BudgetHolds
  <2> QED BY <2>1, <2>3, <2>12, <2>14, <1>1, RequestGoesOn
<1> QED BY <1>2, <1>3

LEMMA CheckAllStep ==
  ASSUME JobsInv, NEW r \in Requests, CheckAll(r)
  PROVE  JobsInv'
<1>1. pc[r] = "all" /\ ask[r].owner \in Visitors /\ crossed \in [own : SUBSET Visitors, all : BOOLEAN]
      /\ pc \in [Requests -> {"idle", "mine", "all", "start", "end"}]
  BY DEF CheckAll, JobsInv, JobsTypeOK, ChecksAreOfVisitors
<1>2. CASE GoOn(r, "end") /\ UNCHANGED crossed
  BY <1>1, <1>2, RequestLeaves, RequestGoesOn
<1>3. CASE /\ Cardinality(Anonymous) < AnonLimit /\ GoOn(r, "start")
           /\ crossed' = [crossed EXCEPT !.all = @ \/ Crossing({"start"}, Visitors)]
  <2>1. crossed' \in [own : SUBSET Visitors, all : BOOLEAN] /\ crossed'.own = crossed.own
    BY <1>1, <1>3
  <2>2. ~crossed'.all => ~crossed.all /\ ~Crossing({"start"}, Visitors)
    BY <1>1, <1>3
  <2>3. Anonymous' = Anonymous /\ UNCHANGED ask /\ UNCHANGED job
    BY <1>3 DEF GoOn, Anonymous, Works, Shown
  <2>4. pc' = [pc EXCEPT ![r] = "start"]  BY <1>3 DEF GoOn
  <2>5. \A w : JobsOf(w)' = JobsOf(w)  BY <2>3 DEF JobsOf
  <2>6. \A w : Entering(w)' = Entering(w)  BY <2>3, <2>4, <1>1 DEF Entering
  <2>7. Starting' = Starting \cup {r}  BY <2>3, <2>4, <1>1 DEF Starting
  <2>8. ~crossed'.all => Starting = {}  BY <2>2 DEF Crossing, Starting
  <2>9. OwnHolds'  BY <2>1, <2>5, <2>6 DEF JobsInv, OwnHolds
  <2>10. Cardinality(Anonymous') = Cardinality(Anonymous)  BY <2>3
  <2>11. Cardinality(Anonymous) \in Nat  BY AnonymousIsFinite, JobTypes DEF JobsInv
  <2>12. Cardinality(Anonymous) <= AnonLimit  BY <2>11, <1>3
  <2>13. BudgetHolds'  BY <1>3, <2>7, <2>8, <2>10, <2>12 DEF BudgetHolds
  <2> QED BY <1>1, <1>3, <2>1, <2>9, <2>13, RequestGoesOn
<1> QED BY <1>2, <1>3 DEF CheckAll

LEMMA StartJobStep ==
  ASSUME JobsInv, NEW r \in Requests, NEW v, v = ask[r].owner, StartJob(r)
  PROVE  JobsInv'
<1> DEFINE n == [owner |-> ask[r].owner, conv |-> ask[r].conv, at |-> "begin",
                 state |-> "running", ok |-> FALSE, told |-> FALSE]
<1>1. /\ pc[r] = "start" /\ pc' = [pc EXCEPT ![r] = "end"]
      /\ UNCHANGED <<up, restarts, ask, busy, pending, dirs, crossed>>
  BY DEF StartJob
<1>2. /\ job \in Seq(JobEntries) /\ v \in Owners /\ ask[r].conv \in Conversions
      /\ pc \in [Requests -> {"idle", "mine", "all", "start", "end"}]
      /\ pending \subseteq DOMAIN job /\ dirs \subseteq DOMAIN job
  BY JobTypes DEF JobsInv, JobsTypeOK
<1>3. CASE \E j \in Works : job[j].owner = v /\ job[j].conv = ask[r].conv
  <2>1. UNCHANGED job  BY <1>3 DEF StartJob
  <2>2. GoOn(r, "end") /\ UNCHANGED crossed  BY <1>1, <2>1 DEF GoOn
  <2> QED BY <2>2, RequestLeaves, RequestGoesOn DEF JobsInv, JobsTypeOK
<1>4. CASE ~\E j \in Works : job[j].owner = v /\ job[j].conv = ask[r].conv
  <2>1. job' = Append(job, n)  BY <1>4 DEF StartJob
  <2>2. n \in JobEntries  BY <1>2 DEF JobEntries, Places, Running
  <2>3. n.owner = v /\ n.at = "begin" /\ n.state = "running"  OBVIOUS
  <2> DEFINE k == Len(job) + 1
  <2> HIDE DEF n
  <2>4. /\ job' \in Seq(JobEntries) /\ DOMAIN job' = DOMAIN job \cup {k} /\ k \notin DOMAIN job
        /\ job'[k] = n /\ \A j \in DOMAIN job : job'[j] = job[j]
    BY <1>2, <2>1, <2>2
  <2> HIDE DEF k
  <2>5. JobsTypeOK'
    BY <1>1, <2>4 DEF JobsInv, JobsTypeOK, JobEntries, Places
  <2>6. JobsArePlaced'
    BY <1>1, <1>2, <2>3, <2>4 DEF JobsInv, JobsArePlaced, JobAt, Running
  <2>7. HeldOnce'  BY <1>1, <2>3, <2>4 DEF JobsInv, HeldOnce, Within
  <2>8. ChecksAreOfVisitors' /\ StopsInBound'
    BY <1>1, <1>2 DEF JobsInv, ChecksAreOfVisitors, StopsInBound
  <2>9. Anonymous' = IF v \in Visitors THEN Anonymous \cup {k} ELSE Anonymous
    BY <2>3, <2>4 DEF Anonymous, Works, Shown
  <2>10. Starting' = Starting \ {r} /\ \A w : Entering(w)' = Entering(w) \ {r}
    BY <1>1, <1>2 DEF Starting, Entering
  <2>11. \A w : w # v => JobsOf(w)' = JobsOf(w)
    BY <2>3, <2>4, <2>9, AnonymousIsFinite, <1>2 DEF JobsOf
  <2>12. JobsOf(v)' \subseteq JobsOf(v) \cup {k}
    BY <2>4, <2>9, AnonymousIsFinite, <1>2 DEF JobsOf
  <2>13. v \in Visitors => r \in Starting  BY <1>1 DEF Starting
  <2>14. r \in Entering(v)  BY <1>1 DEF Entering
  <2>15. OwnHolds'
    <3> SUFFICES ASSUME NEW w \in Visitors \ crossed.own
                 PROVE  /\ \A q, s \in Entering(w)' : q = s
                        /\ \A i, j \in JobsOf(w)' : i = j
                        /\ Entering(w)' = {} \/ JobsOf(w)' = {}
      BY <1>1 DEF OwnHolds
    <3>1. /\ \A q, s \in Entering(w) : q = s
          /\ \A i, j \in JobsOf(w) : i = j
          /\ Entering(w) = {} \/ JobsOf(w) = {}
      BY DEF JobsInv, OwnHolds
    <3>2. CASE w = v
      <4>1. JobsOf(v) = {} /\ Entering(v)' = {}  BY <3>1, <3>2, <2>10, <2>14
      <4> QED BY <4>1, <2>12, <3>2
    <3>3. CASE w # v  BY <3>1, <3>3, <2>10, <2>11
    <3> QED BY <3>2, <3>3
  <2>16. BudgetHolds'
    <3> SUFFICES ASSUME ~crossed.all
                 PROVE  /\ \A q, s \in Starting' : q = s
                        /\ Cardinality(Anonymous') <= AnonLimit
                        /\ Starting' # {} => Cardinality(Anonymous') < AnonLimit
      BY <1>1, Zenon DEF BudgetHolds
    <3>1. /\ \A q, s \in Starting : q = s
          /\ Cardinality(Anonymous) <= AnonLimit
          /\ Starting # {} => Cardinality(Anonymous) < AnonLimit
      BY Zenon DEF JobsInv, BudgetHolds
    <3>2. IsFiniteSet(Anonymous) /\ Cardinality(Anonymous) \in Nat  BY <1>2, AnonymousIsFinite
    <3>3. CASE v \in Visitors
      <4>1. Cardinality(Anonymous) < AnonLimit /\ Starting' = {}  BY <3>1, <3>3, <2>10, <2>13
      <4>2. Cardinality(Anonymous') <= Cardinality(Anonymous) + 1 /\ Cardinality(Anonymous') \in Nat
        <5>1. Anonymous' = Anonymous \cup {k}  BY <3>3, <2>9
        <5>2. Cardinality(Anonymous \cup {k}) = IF k \in Anonymous THEN Cardinality(Anonymous)
                                                ELSE Cardinality(Anonymous) + 1
          BY <3>2, FS_AddElement
        <5> QED BY <5>1, <5>2, <3>2
      <4> QED BY <4>1, <4>2, <3>2
    <3>4. CASE v \notin Visitors
      <4>1. Starting' = Starting /\ Anonymous' = Anonymous  BY <3>4, <2>9, <2>10 DEF Starting
      <4> QED BY <4>1, <3>1
    <3> QED BY <3>3, <3>4
  <2> QED BY <2>5, <2>6, <2>7, <2>8, <2>15, <2>16 DEF JobsInv
<1> QED BY <1>3, <1>4

-----------------------------------------------------------------------------
LEMMA JobsStart == JobsInit => JobsInv
<1> SUFFICES ASSUME JobsInit PROVE JobsInv
  OBVIOUS
<1>1. /\ up = "on" /\ restarts = 0 /\ pc = [r \in Requests |-> "idle"]
      /\ ask \in [Requests -> [owner : Owners, conv : Conversions]]
      /\ job = << >> /\ busy = {} /\ pending = {} /\ dirs = {}
      /\ crossed = [own |-> {}, all |-> FALSE]
  BY DEF JobsInit
<1>2. JobsTypeOK  BY <1>1 DEF JobsTypeOK
<1>3. JobsArePlaced /\ HeldOnce  BY <1>1 DEF JobsArePlaced, HeldOnce
<1>4. Anonymous = {}  BY <1>1 DEF Anonymous, Works, Shown
<1>5. Cardinality(Anonymous) = 0  BY <1>4, FS_EmptySet
<1>6. Starting = {} /\ \A v : Entering(v) = {}  BY <1>1 DEF Starting, Entering
<1>7. BudgetHolds  BY <1>5, <1>6 DEF BudgetHolds
<1>8. OwnHolds  BY <1>4, <1>6 DEF OwnHolds, JobsOf
<1>9. ChecksAreOfVisitors /\ StopsInBound  BY <1>1 DEF ChecksAreOfVisitors, StopsInBound
<1> QED BY <1>2, <1>3, <1>7, <1>8, <1>9 DEF JobsInv

LEMMA JobsStay ==
  ASSUME JobsInv, UNCHANGED jobsVars
  PROVE  JobsInv'
<1>1. UNCHANGED <<up, restarts, pc, ask, job, busy, pending, dirs, crossed>>  BY DEF jobsVars
<1>2. JobsTypeOK' /\ StopsInBound' /\ JobsArePlaced' /\ HeldOnce' /\ ChecksAreOfVisitors'
  BY <1>1 DEF JobsInv, JobsTypeOK, StopsInBound, JobsArePlaced, HeldOnce, ChecksAreOfVisitors
<1>3. BudgetHolds' /\ OwnHolds'
  BY <1>1, SameJobs, BoundsWithNoneMore, JobTypes DEF JobsInv
<1> QED BY <1>2, <1>3 DEF JobsInv

LEMMA JobsStep == JobsInv /\ [JobsNext]_jobsVars => JobsInv'
<1> SUFFICES ASSUME JobsInv, [JobsNext]_jobsVars PROVE JobsInv'
  OBVIOUS
<1>1. ASSUME NEW r \in Requests, Handler(r) PROVE JobsInv'
  BY <1>1, AskForStep, CheckOwnStep, CheckAllStep, StartJobStep DEF Handler
<1>2. ASSUME NEW j \in DOMAIN job, Process(j) PROVE JobsInv'
  BY <1>2, ReserveStep, GoStep, ZipStep, ReleaseStep, SettleStep DEF Process
<1>3. ASSUME NEW j \in DOMAIN job, Cancel(j) \/ ExpireJob(j) PROVE JobsInv'
  BY <1>3, CancelStep, ExpireJobStep
<1>4. CASE (\E j \in DOMAIN job : Expire(j)) \/ Stop \/ ProcessStart
  BY <1>4, DaemonStep
<1>5. CASE ProcessExit  BY <1>5, ProcessExitStep
<1>6. CASE UNCHANGED jobsVars  BY <1>6, JobsStay
<1> QED BY <1>1, <1>2, <1>3, <1>4, <1>5, <1>6 DEF JobsNext

LEMMA JobsInvAlways == JobsSpec => []JobsInv
BY JobsStart, JobsStep, PTL DEF JobsSpec

\* Types of the downloader's tables.
THEOREM JobsTypes == JobsSpec => []JobsTypeOK
<1>1. JobsInv => JobsTypeOK  BY DEF JobsInv
<1> QED BY <1>1, JobsInvAlways, PTL

LEMMA InvIsBounded == JobsInv => ConversionsAreBounded
<1> SUFFICES ASSUME JobsInv PROVE ConversionsAreBounded
  OBVIOUS
<1>1. StagedIsOwned
  BY DEF JobsInv, JobsTypeOK, JobsArePlaced, JobAt, StagedIsOwned
<1>2. OneAtATime
  <2> DEFINE inside == {j \in DOMAIN job : job[j].at \in {"inputs", "convert", "zip", "failed", "staged"}}
  <2>1. \A i, j \in inside : job[i].conv = job[j].conv => i = j
    BY DEF JobsInv, HeldOnce, Within
  <2>2. busy = {job[j].conv : j \in inside}
    BY DEF JobsInv, HeldOnce, Within
  <2> QED BY <2>1, <2>2 DEF OneAtATime
<1>3. AnonymousIsBounded
  <2>1. crossed.all \/ Cardinality(Anonymous) <= AnonLimit
    BY Zenon DEF JobsInv, BudgetHolds
  <2>2. ASSUME NEW i \in Anonymous, NEW j \in Anonymous, job[i].owner = job[j].owner
        PROVE  i = j \/ job[i].owner \in crossed.own
    BY <2>2 DEF JobsInv, OwnHolds, JobsOf, Anonymous
  <2> QED BY <2>1, <2>2 DEF AnonymousIsBounded
<1> QED BY <1>1, <1>2, <1>3 DEF ConversionsAreBounded

\* However requests of visitors and administrators cross, jobs end, are cancelled,
\* settle or expire, and whenever the process is restarted: no more conversions run
\* than there are places, and anonymous visitors hold no more of them, and each no
\* more jobs, than the crossings of their requests account for (StartJob,
\* RunningFor, settle).
THEOREM JobsAreBounded == JobsSpec => []ConversionsAreBounded
BY InvIsBounded, JobsInvAlways, PTL
=============================================================================
