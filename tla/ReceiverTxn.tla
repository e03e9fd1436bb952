---------------------------- MODULE ReceiverTxn ----------------------------
(***************************************************************************)
(* A receiver configuration change: internal/receiver (Session, Txn), the  *)
(* web handlers that own the pending transaction, the auto-revert timer    *)
(* and the watcher goroutine, against a receiver that keeps a RAM and a    *)
(* Flash layer behind one serial stream.                                   *)
(*                                                                         *)
(* A change is a list of keys; VALSET carries it in batches.  What matters *)
(* of a batch is which transaction's values a layer holds, so a layer maps *)
(* every batch to the number of the transaction that wrote it (0: the      *)
(* factory values); a batch is also what one poll of ReadKeys reads.       *)
(* Session calls hold receiverMu (handlers) or Txn.mu (Commit, revertNow), *)
(* so at most one conversation is under way: act.                          *)
(***************************************************************************)
EXTENDS Integers, Sequences, FiniteSets

CONSTANTS
  NBatch,     \* VALSET batches of one change (setChunked: 64 keys each)
  MaxTxn,     \* bound: transactions begun
  MaxFaults,  \* bound: lost or refused commands, lost replies, early timeouts
  MaxResets,  \* bound: receiver power cycles plus daemon crashes
  Plain,      \* changes made on the receiver page, which leave the configuration alone
  Position,   \* changes of the base position; the others change the station ID
  Killer      \* batches whose new values stop the receiver's UBX output

ASSUME RxAssumption ==
  /\ NBatch \in Nat \ {0}
  /\ MaxTxn \in Nat \ {0}
  /\ MaxFaults \in Nat
  /\ MaxResets \in Nat
  /\ Plain \subseteq 1..MaxTxn /\ Position \subseteq 1..MaxTxn
  /\ Killer \subseteq 1..NBatch

Batch == 1..NBatch
Txns  == 1..MaxTxn
Ver   == 0..MaxTxn
Layer == [Batch -> Ver]
Setting == {"id", "position"}
Config  == [Setting -> Ver]      \* the change each setting in config.toml is of

\* the setting a change is about
Of(t) == IF t \in Position THEN "position" ELSE "id"

VARIABLES
  ram, flash,   \* the receiver's layers
  toDev, toHost,\* commands and replies on the serial stream
  faults, resets,
  cfg, bootCfg, \* config.toml, and Server.Cfg as it was loaded at startup
  due,          \* a restartSoon goroutine is on its way
  cur,          \* number of the latest transaction, 0 before the first
  slot,         \* Server.receiverTxn: 0 is nil
  rmu,          \* who holds Server.receiverMu: "none", "apply", "settle"
  act, by, at, tries, \* the conversation: step, goroutine, batch, read-backs
  old,          \* ChangeResult.Old of cur
  read,         \* what ReadKeys has read so far of every batch, -1: nothing
  txn           \* per transaction: Txn.done, Done, Reverted, timer, watcher, audit

vars   == <<ram, flash, toDev, toHost, faults, resets, cfg, bootCfg, due, cur, slot,
            rmu, act, by, at, tries, old, read, txn>>

Command == [op : {"ver"}, b : {0}, v : {0}] \cup [op : {"get"}, b : Batch, v : {0}]
             \cup [op : {"ram", "flash"}, b : Batch, v : Ver]
Reply   == [op : {"ver", "ack", "nak"}, b : {0}, v : {0}]
             \cup [op : {"val"}, b : Batch, v : Ver]
TxnRec  == [done : BOOLEAN, doneCh : BOOLEAN, revCh : BOOLEAN,
            timer : {"off", "armed", "firing"}, watch : BOOLEAN,
            audit : {"none", "awaiting", "reverted"},
            out : {"none", "refused", "committed", "reverted", "revertFailed"},
            late : BOOLEAN, tried : BOOLEAN, base : Config, cut : BOOLEAN]

NoTxn == [done |-> FALSE, doneCh |-> FALSE, revCh |-> FALSE, timer |-> "off",
          watch |-> FALSE, audit |-> "none", out |-> "none", late |-> FALSE,
          tried |-> FALSE, base |-> [k \in Setting |-> 0], cut |-> FALSE]

TypeOK ==
  /\ ram \in Layer /\ flash \in Layer /\ old \in Layer
  /\ read \in [Batch -> Ver \cup {-1}]
  /\ toDev \in Seq(Command) /\ toHost \in Seq(Reply)
  /\ faults \in 0..MaxFaults /\ resets \in 0..MaxResets
  /\ cfg \in Config /\ bootCfg \in Config /\ due \in BOOLEAN
  /\ cur \in Ver /\ slot \in Ver
  /\ rmu \in {"none", "apply", "settle"}
  /\ act \in {"idle", "hello", "snap", "write", "verify", "commit", "restore", "close"}
  /\ by \in {"none", "apply", "settle", "timer"}
  /\ at \in 1..NBatch /\ tries \in 0..2
  /\ txn \in [Txns -> TxnRec]

(***************************************************************************)
(* The stream                                                              *)
(***************************************************************************)
Cmd(op, b, v) == [op |-> op, b |-> b, v |-> v]
Rep(op)       == [op |-> op, b |-> 0, v |-> 0]

\* the receiver still emits UBX: replies, and the frames that wake a Read
Alive(r) == \A b \in Killer : r[b] = 0

Waiting == act \in {"hello", "snap", "write", "verify", "commit", "restore"}

\* mutant: Apply writes every layer at once
RequestPersists(a, b) ==
  CASE a = "hello" -> Cmd("ver", 0, 0)
    [] a \in {"snap", "verify"} -> Cmd("get", b, 0)
    [] a \in {"write", "commit"} -> Cmd("flash", b, cur)
    [] a = "restore" -> Cmd("ram", b, old[b])

\* Commit and Apply write the change, revertNow its Old values
Request(a, b) ==
  CASE a = "hello" -> Cmd("ver", 0, 0)
    [] a \in {"snap", "verify"} -> Cmd("get", b, 0)
    [] a = "write" -> Cmd("ram", b, cur)
    [] a = "commit" -> Cmd("flash", b, cur)
    [] a = "restore" -> Cmd("ram", b, old[b])

\* start step a on batch b in goroutine g: write the request, then wait
Ask(a, b, g, n) ==
  /\ act' = a /\ at' = b /\ by' = g /\ tries' = n
  /\ toDev' = Append(toDev, Request(a, b))

Rest == act' = "idle" /\ by' = "none" /\ at' = 1 /\ tries' = 0

Answer(r, m) == toHost' = IF Alive(r) THEN Append(toHost, m) ELSE toHost

\* The receiver executes commands in order.  A refused VALSET changes nothing.
DeviceStep ==
  /\ toDev # << >>
  /\ toDev' = Tail(toDev)
  /\ LET c == Head(toDev) IN
       \/ /\ c.op = "ver" /\ Answer(ram, Rep("ver")) /\ UNCHANGED <<ram, flash, faults>>
       \/ /\ c.op = "get" /\ Answer(ram, [op |-> "val", b |-> c.b, v |-> ram[c.b]])
          /\ UNCHANGED <<ram, flash, faults>>
       \/ /\ c.op = "ram" /\ ram' = [ram EXCEPT ![c.b] = c.v]
          /\ Answer(ram', Rep("ack")) /\ UNCHANGED <<flash, faults>>
       \/ /\ c.op = "flash" /\ flash' = [flash EXCEPT ![c.b] = c.v]
          /\ Answer(ram, Rep("ack")) /\ UNCHANGED <<ram, faults>>
       \/ /\ c.op \in {"ram", "flash"} /\ faults < MaxFaults /\ faults' = faults + 1
          /\ Answer(ram, Rep("nak")) /\ UNCHANGED <<ram, flash>>
  /\ UNCHANGED <<resets, cfg, bootCfg, due, cur, slot, rmu, act, by, at, tries, old, read, txn>>

\* a damaged frame fails its checksum in either direction
Lose ==
  /\ faults < MaxFaults /\ faults' = faults + 1
  /\ \/ toDev # << >> /\ toDev' = Tail(toDev) /\ UNCHANGED toHost
     \/ toHost # << >> /\ toHost' = Tail(toHost) /\ UNCHANGED toDev
  /\ UNCHANGED <<ram, flash, resets, cfg, bootCfg, due, cur, slot, rmu, act, by, at,
                 tries, old, read, txn>>

\* with no control pipe subscribed the hub passes a reply to nobody; a pipe
\* that waits skips every reply it did not ask for
Wanted(m) ==
  CASE act = "hello" -> m.op \in {"ver", "nak"}
    [] act \in {"snap", "verify"} -> m.op \in {"val", "nak"}
    [] OTHER -> m.op \in {"ack", "nak"}

Skip ==
  /\ toHost # << >>
  /\ (act = "idle" /\ slot = 0) \/ (Waiting /\ ~Wanted(Head(toHost)))
  /\ toHost' = Tail(toHost)
  /\ UNCHANGED <<ram, flash, toDev, faults, resets, cfg, bootCfg, due, cur, slot, rmu,
                 act, by, at, tries, old, read, txn>>

(***************************************************************************)
(* How a wait ends                                                         *)
(***************************************************************************)
Got(op) ==
  /\ Waiting /\ toHost # << >> /\ Wanted(Head(toHost))
  /\ Head(toHost).op = op
  /\ toHost' = Tail(toHost)
  /\ UNCHANGED <<ram, flash, faults, resets>>

\* The deadline is looked at only when a Read returns, and a Read returns only
\* when a UBX frame arrives.  A timeout that beats a reply still under way is
\* a fault; one after the request or its reply was lost is not.
Late == toDev # << >> \/ \E i \in DOMAIN toHost : Wanted(toHost[i])

TimedOut ==
  /\ Waiting /\ Alive(ram)
  /\ Late => faults < MaxFaults
  /\ faults' = IF Late THEN faults + 1 ELSE faults
  /\ UNCHANGED <<ram, flash, toHost, resets>>

\* the same as a request that failed with an error: NAK, or no answer in time
Failed == Got("nak") \/ TimedOut

\* ReadKeys starts with nothing read and polls batch after batch.  A poll takes
\* any VALGET answer, also a late one to an earlier poll, of which ReadKeys keeps
\* the keys of the group it polls; a refused or unanswered poll reads nothing.
SoFar == IF at = 1 THEN [b \in Batch |-> -1] ELSE read

Polled ==
  \/ /\ Got("val")
     /\ \/ read' = [SoFar EXCEPT ![Head(toHost).b] = Head(toHost).v]
        \/ Head(toHost).b # at /\ read' = SoFar
  \/ Failed /\ read' = SoFar

\* the last poll is over
ReadDone == at = NBatch /\ Polled
Short    == \E b \in Batch : read'[b] = -1

\* ReadKeys gives up: a page after the first of a group does not come
ReadFailed == Failed /\ UNCHANGED read

\* ghost: a VALSET of t got no answer in time, so its ACK may still come
NoteLate(r) == [r EXCEPT !.late = @ \/ toHost' = toHost]

Mark(t, r) == txn' = [txn EXCEPT ![t] = r]

\* timer.Stop does not stop a goroutine that is already running
Stopped(r) == IF r.timer = "armed" THEN "off" ELSE r.timer

(***************************************************************************)
(* beginReceiverTxnWithHooks and Session.Apply                             *)
(***************************************************************************)
\* receiverMu free, no change pending, the hub's control session is free.  Hooks
\* that save the configuration work on the copy of Server.Cfg taken here.
BeginApply ==
  /\ rmu = "none" /\ slot = 0 /\ act = "idle" /\ cur < MaxTxn
  /\ rmu' = "apply" /\ cur' = cur + 1
  /\ Ask("hello", 1, "apply", 0)
  /\ Mark(cur + 1, [txn[cur + 1] EXCEPT !.base = bootCfg])
  /\ UNCHANGED <<ram, flash, toHost, faults, resets, cfg, bootCfg, due, slot, old, read>>

\* MON-VER answered: snapshot the current RAM values
HelloOK ==
  /\ act = "hello" /\ Got("ver")
  /\ Ask("snap", 1, "apply", 0)
  /\ UNCHANGED <<cfg, bootCfg, due, cur, slot, rmu, old, read, txn>>

\* MON-VER failed, or a key cannot be read: refuse, nothing was written.
\* An Apply that failed is audited as not applied.
Refuse ==
  /\ \/ act = "hello" /\ Failed /\ UNCHANGED read
     \/ act = "snap" /\ (ReadFailed \/ (ReadDone /\ Short))
  /\ Rest /\ rmu' = "none"
  /\ Mark(cur, [txn[cur] EXCEPT !.out = "refused",
                  !.audit = IF act = "snap" THEN "reverted" ELSE txn[cur].audit])
  /\ UNCHANGED <<toDev, cfg, bootCfg, due, cur, slot, old>>

\* the snapshot or the read-back goes on to its next poll
ReadNext ==
  /\ act \in {"snap", "verify"} /\ at < NBatch /\ Polled
  /\ Ask(act, at + 1, by, tries)
  /\ UNCHANGED <<cfg, bootCfg, due, cur, slot, rmu, old, txn>>

\* mutant: a key that was not read is taken for its factory value
SnapOKShort ==
  /\ act = "snap" /\ ReadDone
  /\ old' = [b \in Batch |-> IF read'[b] = -1 THEN 0 ELSE read'[b]]
  /\ Ask("write", 1, "apply", 0)
  /\ UNCHANGED <<cfg, bootCfg, due, cur, slot, rmu, txn>>

SnapOK ==
  /\ act = "snap" /\ ReadDone /\ ~Short
  /\ old' = read'
  /\ Ask("write", 1, "apply", 0)
  /\ UNCHANGED <<cfg, bootCfg, due, cur, slot, rmu, txn>>

\* a batch is acknowledged; after the last one the values are read back
WriteOK ==
  /\ act = "write" /\ Got("ack")
  /\ IF at < NBatch THEN Ask("write", at + 1, by, 0) ELSE Ask("verify", 1, by, 0)
  /\ UNCHANGED <<cfg, bootCfg, due, cur, slot, rmu, old, read, txn>>

\* revertNow from Apply itself: the transaction never becomes pending
WriteFailed ==
  /\ act = "write" /\ Failed
  /\ Ask("restore", 1, "apply", 0)
  /\ Mark(cur, [NoteLate(txn[cur]) EXCEPT !.done = TRUE])
  /\ UNCHANGED <<cfg, bootCfg, due, cur, slot, rmu, old, read>>

\* a read-back that is short or fails is tried three times
BadRead == act = "verify" /\ (ReadFailed \/ (ReadDone /\ Short))

\* mutant: read back without end
VerifyForever ==
  /\ BadRead
  /\ Ask("verify", 1, by, tries + 1)
  /\ UNCHANGED <<cfg, bootCfg, due, cur, slot, rmu, old, txn>>

VerifyRetry ==
  /\ BadRead /\ tries < 2
  /\ Ask("verify", 1, by, tries + 1)
  /\ UNCHANGED <<cfg, bootCfg, due, cur, slot, rmu, old, txn>>

\* every batch was read back as it was written
Verified == act = "verify" /\ ReadDone /\ \A b \in Batch : read'[b] = cur

VerifyFailed ==
  /\ \/ BadRead /\ tries = 2
     \/ act = "verify" /\ ReadDone /\ ~Short /\ \E b \in Batch : read'[b] # cur
  /\ Ask("restore", 1, "apply", 0)
  /\ Mark(cur, [txn[cur] EXCEPT !.done = TRUE])
  /\ UNCHANGED <<cfg, bootCfg, due, cur, slot, rmu, old>>

\* mutant: the auto-revert is not armed
VerifyOKUnarmed ==
  /\ Verified
  /\ Rest /\ rmu' = "none" /\ slot' = cur
  /\ Mark(cur, [txn[cur] EXCEPT !.watch = TRUE, !.audit = "awaiting"])
  /\ UNCHANGED <<toDev, cfg, bootCfg, due, cur, old>>

\* arm the auto-revert, log the change, publish it as pending, start the watcher
VerifyOK ==
  /\ Verified
  /\ Rest /\ rmu' = "none" /\ slot' = cur
  /\ Mark(cur, [txn[cur] EXCEPT !.timer = "armed", !.watch = TRUE, !.audit = "awaiting"])
  /\ UNCHANGED <<toDev, cfg, bootCfg, due, cur, old>>

(***************************************************************************)
(* Keep: settleReceiver(commit)                                            *)
(***************************************************************************)
\* beforeCommit saves the configuration with the new station ID or position.  A
\* save that fails answers the request and changes nothing: a stuttering step.
KeepStart ==
  /\ rmu = "none" /\ slot # 0
  /\ rmu' = "settle"
  /\ cfg' = IF slot \in Plain THEN cfg ELSE [txn[slot].base EXCEPT ![Of(slot)] = slot]
  /\ Mark(slot, [txn[slot] EXCEPT !.tried = TRUE])
  /\ UNCHANGED <<ram, flash, toDev, toHost, faults, resets, bootCfg, due, cur, slot,
                 act, by, at, tries, old, read>>

\* the configuration is saved, and Commit has not come back
Keeping == rmu = "settle" /\ slot # 0 /\ (act \in {"idle", "commit"} \/ by = "timer")

\* rollbackCommit saves the copy the change began with; when that save fails it
\* is only logged, and config.toml stays with a change that is not kept (cut).
\* r is what becomes of the change's record otherwise.
RollBack(r) ==
  \/ cfg' = (IF slot \in Plain THEN cfg ELSE txn[slot].base) /\ Mark(slot, r)
  \/ slot \notin Plain /\ UNCHANGED cfg /\ Mark(slot, [r EXCEPT !.cut = TRUE])

\* Commit has Txn.mu; the revert may have won the race since beforeCommit
KeepRefused ==
  /\ Keeping /\ act = "idle" /\ txn[slot].done
  /\ RollBack(txn[slot]) /\ rmu' = "none"
  /\ UNCHANGED <<ram, flash, toDev, toHost, faults, resets, bootCfg, due, cur, slot,
                 act, by, at, tries, old, read>>

CommitStart ==
  /\ Keeping /\ act = "idle" /\ ~txn[slot].done
  /\ Ask("commit", 1, "settle", 0)
  /\ UNCHANGED <<ram, flash, toHost, faults, resets, cfg, bootCfg, due, cur, slot, rmu,
                 old, read, txn>>

CommitNext ==
  /\ act = "commit" /\ at < NBatch /\ Got("ack")
  /\ Ask("commit", at + 1, by, 0)
  /\ UNCHANGED <<cfg, bootCfg, due, cur, slot, rmu, old, read, txn>>

\* mutant: only the first batch is written
CommitFirstOnly ==
  /\ act = "commit" /\ Got("ack")
  /\ Mark(slot, [txn[slot] EXCEPT !.timer = Stopped(txn[slot]), !.done = TRUE,
                   !.doneCh = TRUE, !.out = "committed"])
  /\ Rest /\ slot' = 0 /\ rmu' = "none" /\ due' = (due \/ slot \notin Plain)
  /\ UNCHANGED <<toDev, cfg, bootCfg, cur, old, read>>

\* mutant: the timer is not stopped and nothing marks the transaction done
CommitForgetsDone ==
  /\ act = "commit" /\ at = NBatch /\ Got("ack")
  /\ Mark(slot, [txn[slot] EXCEPT !.doneCh = TRUE, !.out = "committed"])
  /\ Rest /\ slot' = 0 /\ rmu' = "none" /\ due' = (due \/ slot \notin Plain)
  /\ UNCHANGED <<toDev, cfg, bootCfg, cur, old, read>>

\* the last batch is persistent: stop the timer, close Done, release the pipe;
\* afterCommit is a restartSoon goroutine
CommitOK ==
  /\ act = "commit" /\ at = NBatch /\ Got("ack")
  /\ Mark(slot, [txn[slot] EXCEPT !.timer = Stopped(txn[slot]), !.done = TRUE,
                   !.doneCh = TRUE, !.out = "committed"])
  /\ Rest /\ slot' = 0 /\ rmu' = "none" /\ due' = (due \/ slot \notin Plain)
  /\ UNCHANGED <<toDev, cfg, bootCfg, cur, old, read>>

\* mutant: the saved configuration is left in place
CommitFailedKeepsConfig ==
  /\ act = "commit" /\ Failed
  /\ Rest /\ rmu' = "none" /\ Mark(slot, NoteLate(txn[slot]))
  /\ UNCHANGED <<toDev, cfg, bootCfg, due, cur, slot, old, read>>

\* the transaction stays pending under its timer
CommitFailed ==
  /\ Keeping /\ act = "commit" /\ Failed
  /\ Rest /\ RollBack(NoteLate(txn[slot])) /\ rmu' = "none"
  /\ UNCHANGED <<toDev, bootCfg, due, cur, slot, old, read>>

(***************************************************************************)
(* Revert: the timer, the operator, and revertNow                          *)
(***************************************************************************)
TimerFires(t) ==
  /\ txn[t].timer = "armed"
  /\ Mark(t, [txn[t] EXCEPT !.timer = "firing"])
  /\ UNCHANGED <<ram, flash, toDev, toHost, faults, resets, cfg, bootCfg, due, cur, slot,
                 rmu, act, by, at, tries, old, read>>

\* mutant: the timer reverts whatever happened meanwhile
TimerRevertBlind(t) ==
  /\ txn[t].timer = "firing" /\ act = "idle"
  /\ Mark(t, [txn[t] EXCEPT !.timer = "off", !.done = TRUE])
  /\ Ask("restore", 1, "timer", 0)
  /\ UNCHANGED <<ram, flash, toHost, faults, resets, cfg, bootCfg, due, cur, slot, rmu, old, read>>

\* the timer goroutine has Txn.mu: nothing to do once the transaction is done
TimerRevert(t) ==
  /\ txn[t].timer = "firing" /\ act = "idle"
  /\ \/ /\ txn[t].done
        /\ Mark(t, [txn[t] EXCEPT !.timer = "off"])
        /\ UNCHANGED <<toDev, act, by, at, tries>>
     \/ /\ ~txn[t].done
        /\ Mark(t, [txn[t] EXCEPT !.timer = "off", !.done = TRUE])
        /\ Ask("restore", 1, "timer", 0)
  /\ UNCHANGED <<ram, flash, toHost, faults, resets, cfg, bootCfg, due, cur, slot, rmu, old, read>>

\* settleReceiver(revert): a revert that already ran counts as this one
AskRevert ==
  /\ rmu = "none" /\ slot # 0 /\ act = "idle"
  /\ \/ /\ txn[slot].done
        /\ Mark(slot, [txn[slot] EXCEPT !.audit = "reverted"])
        /\ slot' = 0
        /\ UNCHANGED <<toDev, act, by, at, tries, rmu>>
     \/ /\ ~txn[slot].done
        /\ rmu' = "settle"
        /\ Mark(slot, [txn[slot] EXCEPT !.done = TRUE, !.timer = Stopped(txn[slot])])
        /\ Ask("restore", 1, "settle", 0)
        /\ UNCHANGED slot
  /\ UNCHANGED <<ram, flash, toHost, faults, resets, cfg, bootCfg, due, cur, old, read>>

RestoreNext ==
  /\ act = "restore" /\ at < NBatch /\ Got("ack")
  /\ Ask("restore", at + 1, by, 0)
  /\ UNCHANGED <<cfg, bootCfg, due, cur, slot, rmu, old, read, txn>>

\* mutant: a revert that stops after its first batch
RestoreFirstOnly ==
  /\ act = "restore"
  /\ \/ Got("ack") /\ Mark(cur, [txn[cur] EXCEPT !.out = "reverted", !.doneCh = TRUE])
     \/ Failed /\ Mark(cur, [NoteLate(txn[cur]) EXCEPT !.out = "revertFailed",
                                                      !.doneCh = TRUE])
  /\ act' = "close"
  /\ UNCHANGED <<toDev, by, at, tries, cfg, bootCfg, due, cur, slot, rmu, old, read>>

\* revertNow returns: its deferred calls close Done first
RestoreEnd ==
  /\ act = "restore"
  /\ \/ at = NBatch /\ Got("ack") /\ Mark(cur, [txn[cur] EXCEPT !.out = "reverted", !.doneCh = TRUE])
     \/ Failed /\ Mark(cur, [NoteLate(txn[cur]) EXCEPT !.out = "revertFailed",
                                                      !.doneCh = TRUE])
  /\ act' = "close"
  /\ UNCHANGED <<toDev, by, at, tries, cfg, bootCfg, due, cur, slot, rmu, old, read>>

\* mutant: a failed explicit revert returns with receiverMu held
RestoreReturnLocked ==
  /\ act = "close"
  /\ Rest
  /\ rmu' = IF by = "timer" \/ txn[cur].out = "revertFailed" THEN rmu ELSE "none"
  /\ LET asked == by = "settle" /\ txn[cur].out = "reverted" IN
       /\ slot' = IF asked THEN 0 ELSE slot
       /\ Mark(cur, [txn[cur] EXCEPT !.revCh = TRUE,
                       !.audit = IF asked \/ by = "apply" THEN "reverted" ELSE txn[cur].audit])
  /\ UNCHANGED <<ram, flash, toDev, toHost, faults, resets, cfg, bootCfg, due, cur, old, read>>

\* ... then Reverted, then unlock Txn.mu; each caller finishes its own way
RestoreReturn ==
  /\ act = "close"
  /\ Rest
  /\ rmu' = IF by = "timer" THEN rmu ELSE "none"
  /\ LET asked == by = "settle" /\ txn[cur].out = "reverted" IN
       /\ slot' = IF asked THEN 0 ELSE slot
       /\ Mark(cur, [txn[cur] EXCEPT !.revCh = TRUE,
                       !.audit = IF asked \/ by = "apply" THEN "reverted" ELSE txn[cur].audit])
  /\ UNCHANGED <<ram, flash, toDev, toHost, faults, resets, cfg, bootCfg, due, cur, old, read>>

\* watchReceiverTxn: woken by Done, it takes receiverMu and clears the slot
Watch(t) ==
  /\ txn[t].watch /\ txn[t].doneCh /\ rmu = "none"
  /\ slot' = IF slot = t THEN 0 ELSE slot
  /\ Mark(t, [txn[t] EXCEPT !.watch = FALSE,
                !.audit = IF slot = t /\ txn[t].revCh THEN "reverted" ELSE txn[t].audit])
  /\ UNCHANGED <<ram, flash, toDev, toHost, faults, resets, cfg, bootCfg, due, cur, rmu,
                 act, by, at, tries, old, read>>

(***************************************************************************)
(* Restarts                                                                *)
(***************************************************************************)
\* the process ends: its locks, goroutines and timers with it.  The receiver
\* keeps RAM and Flash; a command already written still arrives.
Forget ==
  /\ slot' = 0 /\ rmu' = "none" /\ Rest /\ toHost' = << >>
  /\ txn' = [t \in Txns |-> [txn[t] EXCEPT !.timer = "off", !.watch = FALSE,
                                           !.cut = @ \/ (Keeping /\ slot = t)]]
  /\ bootCfg' = cfg /\ due' = FALSE
  /\ UNCHANGED <<ram, flash, toDev, cfg, cur, old, read, faults>>

Crash == resets < MaxResets /\ resets' = resets + 1 /\ Forget

\* restartSoon, 500 ms after the answer: whatever has begun meanwhile ends
Restart == due /\ Forget /\ UNCHANGED resets

\* Restart is not set, or its error is logged: the old configuration stays loaded
RestartFails ==
  /\ due /\ due' = FALSE
  /\ UNCHANGED <<ram, flash, toDev, toHost, faults, resets, cfg, bootCfg, cur, slot,
                 rmu, act, by, at, tries, old, read, txn>>

\* the receiver loses power: Flash is loaded into RAM
PowerCycle ==
  /\ resets < MaxResets /\ resets' = resets + 1
  /\ ram' = flash /\ toDev' = << >> /\ toHost' = << >>
  /\ UNCHANGED <<flash, faults, cfg, bootCfg, due, cur, slot, rmu, act, by, at, tries, old, read, txn>>

-----------------------------------------------------------------------------
Init ==
  /\ ram = [b \in Batch |-> 0] /\ flash = ram /\ old = ram
  /\ toDev = << >> /\ toHost = << >>
  /\ read = ram
  /\ faults = 0 /\ resets = 0 /\ cur = 0 /\ slot = 0 /\ due = FALSE
  /\ cfg = [k \in Setting |-> 0] /\ bootCfg = cfg
  /\ rmu = "none" /\ act = "idle" /\ by = "none" /\ at = 1 /\ tries = 0
  /\ txn = [t \in Txns |-> NoTxn]

Conversation ==
  \/ HelloOK \/ Refuse \/ ReadNext \/ SnapOK \/ WriteOK \/ WriteFailed
  \/ VerifyRetry \/ VerifyFailed \/ VerifyOK
  \/ CommitNext \/ CommitOK \/ CommitFailed
  \/ RestoreNext \/ RestoreEnd \/ RestoreReturn

Next ==
  \/ DeviceStep \/ Lose \/ Skip
  \/ BeginApply \/ Conversation
  \/ KeepStart \/ KeepRefused \/ CommitStart \/ AskRevert
  \/ \E t \in Txns : TimerFires(t) \/ TimerRevert(t) \/ Watch(t)
  \/ Crash \/ Restart \/ RestartFails \/ PowerCycle

Spec == Init /\ [][Next]_vars

\* The receiver and the goroutines run; Txn.mu and receiverMu are Go mutexes,
\* which hand themselves to the longest waiter, hence SF where a lock is taken.
\* Nothing makes an operator, a fault, a crash or a power cycle happen.
Fairness ==
  /\ WF_vars(DeviceStep) /\ WF_vars(Skip) /\ WF_vars(Conversation)
  /\ WF_vars(KeepRefused \/ CommitStart)
  /\ \A t \in Txns : /\ WF_vars(TimerFires(t))
                    /\ SF_vars(TimerRevert(t))
                    /\ SF_vars(Watch(t))

FairSpec == Spec /\ Fairness

-----------------------------------------------------------------------------
(***************************************************************************)
(* Safety                                                                  *)
(***************************************************************************)
Kept == {t \in Txns : txn[t].out = "committed"}

\* Every earlier change got past its MON-VER exchange, which flushes the line.
\* When one failed, or the process died in it, its answer may still be under
\* way; the next session takes it for its own (poll accepts any MON-VER), and
\* the sessions after that may be one answer behind (RevertIsPossible).
Flushed == \A t \in Txns : t < cur => txn[t].audit # "none"

\* What a revert will write back is what the receiver really held when the
\* first VALSET reached it, whatever late replies of earlier, flushed sessions
\* were on the line (Apply's snapshot).
SnapshotIsTruth ==
  Flushed /\ act = "write" /\ at = 1 /\ toDev = <<Request("write", 1)>> => old = ram

\* Until somebody asks to keep a change, Flash holds values that were kept
\* before, so a power cycle undoes it (Session.Apply's promise).
FlashHoldsKnownGood ==
  \A b \in Batch : flash[b] # 0 => txn[flash[b]].tried

\* A kept change is never undone by its own timer, however the expiry, the
\* commit and a slow goroutine interleave: no RAM write is on its way.
KeptIsNotUndone ==
  cur \in Kept => \A i \in DOMAIN toDev : toDev[i].op # "ram"

\* A change reported as kept is in Flash completely, unless an earlier request
\* of it timed out (see AckBelongsToRequest).
KeptIsDurable ==
  cur \in Kept /\ ~txn[cur].late => \A b \in Batch : flash[b] = cur

\* A change reported as reverted is gone from RAM, except for batches that a
\* failed Commit had already made permanent.
RevertedIsGone ==
  cur # 0 /\ txn[cur].out = "reverted" /\ ~txn[cur].late
    => \A b \in Batch : ram[b] = cur => flash[b] = cur

\* What the operator was told is what the receiver does: a change reported as
\* kept is permanent and stays, one reported as reverted is gone (settleReceiver
\* answers, the timer and slow goroutines go on), as long as no earlier MON-VER
\* exchange went wrong.
OutcomeIsTrue == Flushed => KeptIsNotUndone /\ KeptIsDurable /\ RevertedIsGone

\* a later change began with a copy of the configuration from before t was kept
\* (t's restart was still to come) and its Keep saved that copy or put it back
Overwritten(t) ==
  \E u \in Txns \ Plain : u > t /\ txn[u].tried /\ txn[u].base[Of(t)] < t

\* The station ID and the position in the configuration are those last kept,
\* whichever of timer, Keep, Revert, crash and restart won: beforeCommit is undone
\* when Commit fails, unless the daemon died in it or could not save, and nothing
\* kept is lost, unless a later change worked on a stale copy.
ConfigFollowsKept ==
  rmu = "none" =>
    /\ \A k \in Setting : cfg[k] # 0 => cfg[k] \in Kept \/ txn[cfg[k]].cut
    /\ \A t \in Kept \ Plain : t <= cfg[Of(t)] \/ Overwritten(t)

\* Only the latest transaction can still touch the receiver: one that another
\* has replaced is finished, though its timer goroutine may still be waiting.
OnlyLatestIsLive ==
  \A t \in Txns : t < cur /\ txn[t].timer # "off" => txn[t].done

-----------------------------------------------------------------------------
(***************************************************************************)
(* The abstract promise, and liveness (under FairSpec)                     *)
(***************************************************************************)
Trial == INSTANCE TrialConfig WITH
  Changes <- Txns,
  phase   <- IF slot = 0 THEN "steady" ELSE IF txn[slot].done THEN "refused" ELSE "trial",
  change  <- slot,
  kept    <- IF Kept = {} THEN 0 ELSE CHOOSE t \in Kept : \A u \in Kept : u <= t

\* The pending slot, its timer, Keep, Revert and the watcher implement a trial:
\* decided once, and always ended although nobody presses anything.
ImplementsTrial == Trial!Spec

\* Every handler that took receiverMu gives it back: no lost reply, timeout or
\* race leaves the receiver page locked.
HandlersReturn == []<>(rmu = "none")

-----------------------------------------------------------------------------
(***************************************************************************)
(* What comments and documents of the code say, and the code does not do   *)
(***************************************************************************)
\* "Wait for the ACK that belongs to this request" (valSet): a change reported
\* as kept is in Flash.  The ACK of an earlier, timed-out request is taken.
AckBelongsToRequest == cur \in Kept /\ toDev = << >> => \A b \in Batch : flash[b] = cur

\* "Snapshot the current values so a revert is possible": once the late MON-VER
\* answer of a session was taken by the next, a session can be an answer behind,
\* and its snapshot what an earlier one asked for.
RevertIsPossible == act = "write" /\ at = 1 /\ toDev = <<Request("write", 1)>> => old = ram

\* "Commit makes the change permanent (RAM already holds it ...)": not after
\* the receiver lost power while the change was pending.
KeptIsRunning == cur \in Kept => \A b \in Batch : ram[b] = cur

\* "A configuration that kills the stream therefore cannot survive ... the
\* receiver heals itself."  Reads have no deadline of their own, so a session
\* on a silent stream waits for ever, holding the lock the revert needs.
KilledStreamHeals == ~Alive(ram) ~> Alive(ram)

\* An automatic revert shows in the audit trail: the watcher is woken by Done,
\* which revertNow closes before Reverted.
AuditShowsRevert ==
  \A t \in Txns : txn[t].out = "reverted" /\ txn[t].audit = "awaiting" /\ resets = 0
                => txn[t].watch

\* "Changing the ID means writing CFG-RTCM on the receiver and changing the
\* config, together": with nothing pending, both have the same version.
ChangedTogether ==
  Plain \cup Position = {} /\ act = "idle" /\ rmu = "none" /\ slot = 0 /\ toDev = << >>
    => \A b \in Batch : flash[b] = cfg["id"]
=============================================================================
