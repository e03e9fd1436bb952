------------------------- MODULE ReceiverTxnProofs -------------------------
(***************************************************************************)
(* Proofs about ReceiverTxn, for every number of batches, transactions,    *)
(* faults and resets.                                                      *)
(*                                                                         *)
(*  - TypeCorrect: one lemma per action; the actions that update txn first *)
(*    show that the new record is a TxnRec, those that send a request use  *)
(*    AskType.                                                             *)
(*  - FlashSafe: FlashHoldsKnownGood by the inductive invariant FlashInv.  *)
(*  - StaleTimersAreDone: OnlyLatestIsLive by the invariant LiveInv.       *)
(*  - ConfigIsFollowed: ConfigFollowsKept. PhaseInv says what the outcome, *)
(*    the marks and the timer of a change can be in each phase of its life;*)
(*    CfgInv what the two configurations are.                              *)
(*  - SnapshotsAreTrue: SnapshotIsTruth. FlushInv follows the exchanges on *)
(*    the line: each request of a session is answered at most once, and the*)
(*    answer to the first one is the last thing the line still held.       *)
(*  - OutcomesAreTrue: OutcomeIsTrue. OutcomeInv adds what is on the line  *)
(*    while a change is on trial (QuietInv), what each acknowledgement of a*)
(*    Commit or a revert has done (OneInv) and what it left (SettledInv).  *)
(*  - TrialIsDecided: the safety of TrialConfig, step by step, from        *)
(*    PhaseInv and KeptInv (the kept changes have a last one).             *)
(***************************************************************************)
EXTENDS ReceiverTxn, SequenceTheorems, TLAPS

\* the conversation steps that wait for an answer, and who may be waiting
Asking == {"hello", "snap", "write", "verify", "commit", "restore"}
Holder == {"none", "apply", "settle", "timer"}

\* Every request a step writes is a command of the receiver's protocol.
LEMMA RequestType ==
  ASSUME TypeOK, NEW b \in Batch, NEW a \in Asking
  PROVE  Request(a, b) \in Command
BY RxAssumption DEF Asking, Request, Cmd, Command, TypeOK, Ver, Layer

\* Sending a request keeps the stream and the conversation variables typed.
LEMMA AskType ==
  ASSUME TypeOK, NEW b \in Batch, NEW n \in 0..2, NEW a \in Asking,
         NEW g \in Holder,
         Ask(a, b, g, n)
  PROVE  /\ toDev' \in Seq(Command)
         /\ act' \in Asking
         /\ by' \in Holder
         /\ at' \in 1..NBatch /\ tries' \in 0..2
BY RequestType, RxAssumption, AppendProperties DEF Ask, TypeOK, Batch, Holder

\* An ended conversation is typed.
LEMMA RestType == ASSUME Rest
  PROVE  /\ act' = "idle" /\ by' = "none"
         /\ at' \in 1..NBatch /\ tries' \in 0..2
BY RxAssumption DEF Rest

\* A reply taken from the stream is a Reply, and only the stream changes.
LEMMA GotType ==
  ASSUME TypeOK, NEW m, Got(m)
  PROVE  /\ toHost' \in Seq(Reply) /\ Head(toHost) \in Reply /\ Head(toHost).op = m
         /\ UNCHANGED <<ram, flash, faults, resets>> /\ act \in Asking
BY HeadTailProperties DEF Got, TypeOK, Waiting, Asking

\* A failed wait consumes at most one reply and one of the allowed faults.
LEMMA FailedType ==
  ASSUME TypeOK, Failed
  PROVE  /\ toHost' \in Seq(Reply) /\ faults' \in 0..MaxFaults
         /\ UNCHANGED <<ram, flash, resets>> /\ act \in Asking
<1>1. CASE Got("nak")
  BY <1>1, GotType DEF TypeOK
<1>2. CASE TimedOut
  <2>1. CASE Late
    BY <1>2, <2>1, RxAssumption DEF TimedOut, TypeOK, Waiting, Asking
  <2>2. CASE ~Late
    BY <1>2, <2>2, RxAssumption DEF TimedOut, TypeOK, Waiting, Asking
  <2> QED BY <2>1, <2>2
<1> QED BY <1>1, <1>2 DEF Failed

\* The reading stays typed, whatever the poll under way brought.
LEMMA PolledType ==
  ASSUME TypeOK, Polled
  PROVE  /\ read' \in [Batch -> Ver \cup {-1}]
         /\ toHost' \in Seq(Reply) /\ faults' \in 0..MaxFaults
         /\ UNCHANGED <<ram, flash, resets>> /\ act \in Asking
<1>1. SoFar \in [Batch -> Ver \cup {-1}]
  BY DEF SoFar, TypeOK
<1>2. CASE Got("val")
  <2>1. Head(toHost).b \in Batch /\ Head(toHost).v \in Ver
    BY <1>2, GotType DEF Reply
  <2>2. \/ read' = [SoFar EXCEPT ![Head(toHost).b] = Head(toHost).v]
        \/ read' = SoFar
    BY <1>2 DEF Polled, Failed, Got, TimedOut
  <2> QED BY <1>1, <1>2, <2>1, <2>2, GotType DEF TypeOK
<1>3. CASE Failed /\ read' = SoFar
  BY <1>1, <1>3, FailedType
<1> QED BY <1>2, <1>3 DEF Polled

\* ... and after a reading that failed.
LEMMA BadReadType ==
  ASSUME TypeOK, ReadFailed \/ ReadDone
  PROVE  /\ read' \in [Batch -> Ver \cup {-1}]
         /\ toHost' \in Seq(Reply) /\ faults' \in 0..MaxFaults
         /\ UNCHANGED <<ram, flash, resets>> /\ act \in Asking
BY PolledType, FailedType DEF ReadFailed, ReadDone, TypeOK

\* Replacing one transaction's record by a record keeps txn typed.
LEMMA MarkType ==
  ASSUME TypeOK, NEW t, NEW r, t \in Txns => r \in TxnRec, Mark(t, r)
  PROVE  txn' \in [Txns -> TxnRec]
BY DEF TypeOK, Mark

\* Every transaction has a TxnRec.
LEMMA RecType == ASSUME TypeOK, NEW t \in Txns PROVE txn[t] \in TxnRec
BY DEF TypeOK

\* timer.Stop leaves a timer state.
LEMMA StoppedType == ASSUME NEW r \in TxnRec PROVE Stopped(r) \in {"off", "armed", "firing"}
BY DEF Stopped, TxnRec

\* The ghost update of a timed-out VALSET leaves a TxnRec.
LEMMA NoteLateType == ASSUME NEW r \in TxnRec PROVE NoteLate(r) \in TxnRec
BY DEF NoteLate, TxnRec

\* Each action keeps TypeOK: opening the conversation and Apply ...
LEMMA BeginApplyType == ASSUME TypeOK, BeginApply PROVE TypeOK'
<1>1. cur + 1 \in Txns /\ cur + 1 \in Ver
  BY RxAssumption DEF BeginApply, TypeOK, Ver, Txns
<1>2. [txn[cur + 1] EXCEPT !.base = bootCfg] \in TxnRec
  BY <1>1, RecType DEF TxnRec, TypeOK
<1>3. txn' \in [Txns -> TxnRec]
  BY <1>2, MarkType DEF BeginApply
<1>4. toDev' \in Seq(Command) /\ act' \in Asking /\ by' \in Holder
     /\ at' \in 1..NBatch /\ tries' \in 0..2
  BY AskType, RxAssumption DEF BeginApply, Asking, Holder, Batch
<1> QED BY <1>1, <1>3, <1>4 DEF BeginApply, TypeOK, Asking, Holder

LEMMA HelloOKType == ASSUME TypeOK, HelloOK PROVE TypeOK'
<1>1. toDev' \in Seq(Command) /\ act' \in Asking /\ by' \in Holder
     /\ at' \in 1..NBatch /\ tries' \in 0..2
  BY AskType, RxAssumption DEF HelloOK, Asking, Holder, Batch
<1> QED
  BY <1>1, GotType DEF HelloOK, TypeOK, Asking, Holder

LEMMA RefuseType == ASSUME TypeOK, Refuse PROVE TypeOK'
<1>1. cur \in Txns => [txn[cur] EXCEPT !.out = "refused",
      !.audit = IF act = "snap" THEN "reverted" ELSE txn[cur].audit] \in TxnRec
  BY RecType, NoteLateType, StoppedType DEF TxnRec
<1>2. txn' \in [Txns -> TxnRec]
  BY <1>1, MarkType DEF Refuse
<1>3. /\ read' \in [Batch -> Ver \cup {-1}]
      /\ toHost' \in Seq(Reply) /\ faults' \in 0..MaxFaults
      /\ UNCHANGED <<ram, flash, resets>>
  BY BadReadType, FailedType DEF Refuse, TypeOK
<1> QED BY <1>2, <1>3, RestType DEF Refuse, TypeOK, Holder

LEMMA ReadNextType == ASSUME TypeOK, ReadNext PROVE TypeOK'
<1>1. at + 1 \in Batch /\ by \in Holder /\ act \in Asking
  BY RxAssumption DEF ReadNext, TypeOK, Batch, Holder, Asking
<1>2. toDev' \in Seq(Command) /\ act' \in Asking /\ by' \in Holder
     /\ at' \in 1..NBatch /\ tries' \in 0..2
  BY <1>1, AskType DEF ReadNext, TypeOK
<1> QED BY <1>2, PolledType DEF ReadNext, TypeOK, Asking, Holder

LEMMA SnapOKType == ASSUME TypeOK, SnapOK PROVE TypeOK'
<1>1. read' \in [Batch -> Ver \cup {-1}] /\ \A b \in Batch : read'[b] # -1
  BY PolledType DEF SnapOK, ReadDone, Short
<1>2. old' \in Layer
  BY <1>1 DEF SnapOK, Layer
<1>3. toDev' \in Seq(Command) /\ act' \in Asking /\ by' \in Holder
     /\ at' \in 1..NBatch /\ tries' \in 0..2
  BY AskType, RxAssumption DEF SnapOK, Asking, Holder, Batch
<1> QED
  BY <1>2, <1>3, PolledType DEF SnapOK, ReadDone, TypeOK, Asking, Holder

LEMMA WriteOKType == ASSUME TypeOK, WriteOK PROVE TypeOK'
<1>1. (at < NBatch => at + 1 \in Batch) /\ 1 \in Batch /\ by \in Holder
  BY RxAssumption DEF TypeOK, Batch, Holder
<1>2. toDev' \in Seq(Command) /\ act' \in Asking /\ by' \in Holder
     /\ at' \in 1..NBatch /\ tries' \in 0..2
  BY <1>1, AskType DEF WriteOK, Asking
<1> QED
  BY <1>2, GotType DEF WriteOK, TypeOK, Asking, Holder

LEMMA WriteFailedType == ASSUME TypeOK, WriteFailed PROVE TypeOK'
<1>1. cur \in Txns => [NoteLate(txn[cur]) EXCEPT !.done = TRUE] \in TxnRec
  <2>1. cur \in Txns => NoteLate(txn[cur]) \in TxnRec
    BY RecType, NoteLateType
  <2> QED BY <2>1 DEF TxnRec
<1>2. txn' \in [Txns -> TxnRec]
  BY <1>1, MarkType DEF WriteFailed
<1>3. toDev' \in Seq(Command) /\ act' \in Asking /\ by' \in Holder
     /\ at' \in 1..NBatch /\ tries' \in 0..2
  BY AskType, RxAssumption DEF WriteFailed, Asking, Holder, Batch
<1> QED
  BY <1>2, <1>3, RxAssumption, RestType, GotType, FailedType
  DEF WriteFailed, TypeOK, Batch, Txns, Ver, Reply, Asking, Holder

LEMMA VerifyRetryType == ASSUME TypeOK, VerifyRetry PROVE TypeOK'
<1>1. toDev' \in Seq(Command) /\ act' \in Asking /\ by' \in Holder
     /\ at' \in 1..NBatch /\ tries' \in 0..2
  BY AskType, RxAssumption DEF VerifyRetry, Asking, Holder, Batch, TypeOK
<1> QED BY <1>1, BadReadType DEF VerifyRetry, BadRead, TypeOK, Asking, Holder

LEMMA VerifyFailedType == ASSUME TypeOK, VerifyFailed PROVE TypeOK'
<1>1. cur \in Txns => [txn[cur] EXCEPT !.done = TRUE] \in TxnRec
  BY RecType DEF TxnRec
<1>2. txn' \in [Txns -> TxnRec]
  BY <1>1, MarkType DEF VerifyFailed
<1>3. toDev' \in Seq(Command) /\ act' \in Asking /\ by' \in Holder
     /\ at' \in 1..NBatch /\ tries' \in 0..2
  BY AskType, RxAssumption DEF VerifyFailed, Asking, Holder, Batch
<1>4. ReadFailed \/ ReadDone
  BY DEF VerifyFailed, BadRead
<1> QED BY <1>2, <1>3, <1>4, BadReadType DEF VerifyFailed, TypeOK, Asking, Holder

LEMMA VerifyOKType == ASSUME TypeOK, VerifyOK PROVE TypeOK'
<1>1. cur \in Txns => [txn[cur] EXCEPT !.timer = "armed", !.watch = TRUE,
                                        !.audit = "awaiting"] \in TxnRec
  BY RecType DEF TxnRec
<1>2. txn' \in [Txns -> TxnRec]
  BY <1>1, MarkType DEF VerifyOK
<1> QED BY <1>2, RestType, BadReadType DEF VerifyOK, Verified, TypeOK, Holder

\* ... Keep and its Commit ...
LEMMA KeepStartType == ASSUME TypeOK, KeepStart PROVE TypeOK'
<1>1. slot \in Txns
  BY RxAssumption DEF KeepStart, TypeOK, Ver, Txns
<1>2. [txn[slot] EXCEPT !.tried = TRUE] \in TxnRec
  BY <1>1, RecType DEF TxnRec
<1>3. txn' \in [Txns -> TxnRec]
  BY <1>2, MarkType DEF KeepStart
<1>4. cfg' \in Config
  <2>1. txn[slot].base \in Config /\ slot \in Ver
    BY <1>1, RecType DEF TxnRec, TypeOK
  <2> QED BY <2>1 DEF KeepStart, TypeOK, Config
<1> QED BY <1>3, <1>4 DEF KeepStart, TypeOK

\* Rolling back leaves the configuration and the record typed.
LEMMA RollBackType ==
  ASSUME TypeOK, slot \in Txns, NEW r \in TxnRec, RollBack(r)
  PROVE  cfg' \in Config /\ txn' \in [Txns -> TxnRec]
<1>1. txn[slot].base \in Config /\ [r EXCEPT !.cut = TRUE] \in TxnRec
  BY RecType DEF TxnRec
<1>2. cfg' \in Config
  BY <1>1 DEF RollBack, TypeOK
<1>3. Mark(slot, r) \/ Mark(slot, [r EXCEPT !.cut = TRUE])
  BY DEF RollBack
<1> QED BY <1>1, <1>2, <1>3, MarkType

LEMMA KeepRefusedType == ASSUME TypeOK, KeepRefused PROVE TypeOK'
<1>1. slot \in Txns
  BY RxAssumption DEF KeepRefused, Keeping, TypeOK, Ver, Txns
<1>2. cfg' \in Config /\ txn' \in [Txns -> TxnRec]
  BY <1>1, RecType, RollBackType DEF KeepRefused
<1> QED BY <1>2 DEF KeepRefused, TypeOK

LEMMA CommitStartType == ASSUME TypeOK, CommitStart PROVE TypeOK'
<1>1. toDev' \in Seq(Command) /\ act' \in Asking /\ by' \in Holder
     /\ at' \in 1..NBatch /\ tries' \in 0..2
  BY AskType, RxAssumption DEF CommitStart, Asking, Holder, Batch
<1> QED BY <1>1 DEF CommitStart, TypeOK, Asking, Holder

LEMMA CommitNextType == ASSUME TypeOK, CommitNext PROVE TypeOK'
<1>1. at + 1 \in Batch /\ by \in Holder
  BY RxAssumption DEF CommitNext, TypeOK, Batch, Holder
<1>2. toDev' \in Seq(Command) /\ act' \in Asking /\ by' \in Holder
     /\ at' \in 1..NBatch /\ tries' \in 0..2
  BY <1>1, AskType DEF CommitNext, Asking
<1> QED
  BY <1>2, GotType DEF CommitNext, TypeOK, Asking, Holder

LEMMA CommitOKType == ASSUME TypeOK, CommitOK PROVE TypeOK'
<1>1. slot \in Txns => [txn[slot] EXCEPT !.timer = Stopped(txn[slot]), !.done = TRUE,
      !.doneCh = TRUE, !.out = "committed"] \in TxnRec
  BY RecType, NoteLateType, StoppedType DEF TxnRec
<1>2. txn' \in [Txns -> TxnRec]
  BY <1>1, MarkType DEF CommitOK
<1> QED
  BY <1>2, RxAssumption, RestType, GotType, FailedType
  DEF CommitOK, TypeOK, Batch, Txns, Ver, Reply, Asking, Holder

LEMMA CommitFailedType == ASSUME TypeOK, CommitFailed PROVE TypeOK'
<1>1. slot \in Txns /\ NoteLate(txn[slot]) \in TxnRec
  BY RecType, NoteLateType, RxAssumption DEF CommitFailed, Keeping, TypeOK, Ver, Txns
<1>2. cfg' \in Config /\ txn' \in [Txns -> TxnRec]
  BY <1>1, RollBackType DEF CommitFailed
<1> QED
  BY <1>2, RestType, FailedType DEF CommitFailed, TypeOK, Holder

\* ... the timer, the revert and the watcher ...
LEMMA TimerFiresType == ASSUME TypeOK, NEW t \in Txns, TimerFires(t) PROVE TypeOK'
<1>1. t \in Txns => [txn[t] EXCEPT !.timer = "firing"] \in TxnRec
  BY RecType, NoteLateType, StoppedType DEF TxnRec
<1>2. txn' \in [Txns -> TxnRec]
  BY <1>1, MarkType DEF TimerFires
<1> QED
  BY <1>2, RxAssumption, RestType, GotType, FailedType
  DEF TimerFires, TypeOK, Batch, Txns, Ver, Reply, Asking, Holder

LEMMA TimerRevertType == ASSUME TypeOK, NEW t \in Txns, TimerRevert(t) PROVE TypeOK'
<1>1. [txn[t] EXCEPT !.timer = "off"] \in TxnRec
  BY RecType DEF TxnRec
<1>2. [txn[t] EXCEPT !.timer = "off", !.done = TRUE] \in TxnRec
  BY RecType DEF TxnRec
<1>3. txn' \in [Txns -> TxnRec]
  BY <1>1, <1>2, MarkType DEF TimerRevert
<1>4. CASE txn[t].done
  BY <1>3, <1>4 DEF TimerRevert, TypeOK
<1>5. CASE ~txn[t].done
  <2>1. toDev' \in Seq(Command) /\ act' \in Asking /\ by' \in Holder
        /\ at' \in 1..NBatch /\ tries' \in 0..2
    BY <1>5, AskType, RxAssumption DEF TimerRevert, Asking, Holder, Batch
  <2> QED
    BY <1>3, <1>5, <2>1 DEF TimerRevert, TypeOK, Asking, Holder
<1> QED BY <1>4, <1>5

LEMMA AskRevertType == ASSUME TypeOK, AskRevert PROVE TypeOK'
<1>1. slot \in Txns => [txn[slot] EXCEPT !.audit = "reverted"] \in TxnRec
  BY RecType DEF TxnRec
<1>2. slot \in Txns => [txn[slot] EXCEPT !.done = TRUE, !.timer = Stopped(txn[slot])]
                      \in TxnRec
  BY RecType, StoppedType DEF TxnRec
<1>3. txn' \in [Txns -> TxnRec]
  BY <1>1, <1>2, MarkType DEF AskRevert
<1>4. CASE txn[slot].done
  BY <1>3, <1>4, RxAssumption DEF AskRevert, TypeOK, Ver
<1>5. CASE ~txn[slot].done
  <2>1. toDev' \in Seq(Command) /\ act' \in Asking /\ by' \in Holder
        /\ at' \in 1..NBatch /\ tries' \in 0..2
    BY <1>5, AskType, RxAssumption DEF AskRevert, Asking, Holder, Batch
  <2> QED
    BY <1>3, <1>5, <2>1 DEF AskRevert, TypeOK, Asking, Holder
<1> QED BY <1>4, <1>5

LEMMA RestoreNextType == ASSUME TypeOK, RestoreNext PROVE TypeOK'
<1>1. (at < NBatch => at + 1 \in Batch) /\ 1 \in Batch /\ by \in Holder
  BY RxAssumption DEF TypeOK, Batch, Holder
<1>2. toDev' \in Seq(Command) /\ act' \in Asking /\ by' \in Holder
     /\ at' \in 1..NBatch /\ tries' \in 0..2
  BY <1>1, AskType DEF RestoreNext, Asking
<1> QED
  BY <1>2, GotType DEF RestoreNext, TypeOK, Asking, Holder

LEMMA RestoreEndType == ASSUME TypeOK, RestoreEnd PROVE TypeOK'
<1>1. cur \in Txns => [txn[cur] EXCEPT !.out = "reverted", !.doneCh = TRUE] \in TxnRec
  BY RecType, NoteLateType, StoppedType DEF TxnRec
<1>2. cur \in Txns => [NoteLate(txn[cur]) EXCEPT !.out = "revertFailed", !.doneCh = TRUE]
                     \in TxnRec
  <2>1. cur \in Txns => NoteLate(txn[cur]) \in TxnRec
    BY RecType, NoteLateType
  <2> QED BY <2>1 DEF TxnRec
<1>3. txn' \in [Txns -> TxnRec]
  BY <1>1, <1>2, MarkType DEF RestoreEnd
<1> QED
  BY <1>3, RxAssumption, RestType, GotType, FailedType
  DEF RestoreEnd, TypeOK, Batch, Txns, Ver, Reply, Asking, Holder

LEMMA RestoreReturnType == ASSUME TypeOK, RestoreReturn PROVE TypeOK'
<1>1. cur \in Txns => [txn[cur] EXCEPT !.revCh = TRUE,
      !.audit = IF (by = "settle" /\ txn[cur].out = "reverted") \/ by = "apply"
                THEN "reverted" ELSE txn[cur].audit] \in TxnRec
  BY RecType, NoteLateType, StoppedType DEF TxnRec
<1>2. txn' \in [Txns -> TxnRec]
  BY <1>1, MarkType DEF RestoreReturn
<1> QED
  BY <1>2, RxAssumption, RestType, GotType, FailedType
  DEF RestoreReturn, TypeOK, Batch, Txns, Ver, Reply, Asking, Holder

LEMMA WatchType == ASSUME TypeOK, NEW t \in Txns, Watch(t) PROVE TypeOK'
<1>1. t \in Txns => [txn[t] EXCEPT !.watch = FALSE,
      !.audit = IF slot = t /\ txn[t].revCh THEN "reverted" ELSE txn[t].audit] \in TxnRec
  BY RecType, NoteLateType, StoppedType DEF TxnRec
<1>2. txn' \in [Txns -> TxnRec]
  BY <1>1, MarkType DEF Watch
<1> QED
  BY <1>2, RxAssumption, RestType, GotType, FailedType
  DEF Watch, TypeOK, Batch, Txns, Ver, Reply, Asking, Holder

\* ... the end of the process and of the receiver's power ...
LEMMA ForgetType == ASSUME TypeOK, Forget, resets' \in 0..MaxResets PROVE TypeOK'
<1>1. txn' \in [Txns -> TxnRec]
  <2>1. ASSUME NEW t \in Txns
        PROVE  [txn[t] EXCEPT !.timer = "off", !.watch = FALSE,
                              !.cut = @ \/ (Keeping /\ slot = t)] \in TxnRec
    BY RecType DEF TxnRec, Keeping
  <2> QED BY <2>1 DEF Forget
<1>2. toHost' \in Seq(Reply)
  BY EmptySeq DEF Forget
<1>3. slot' \in Ver
  <2>1. slot' = 0
    BY DEF Forget
  <2> QED BY <2>1, RxAssumption DEF Ver
<1> QED
  BY <1>1, <1>2, <1>3, RestType DEF Forget, TypeOK, Holder

LEMMA RestartFailsType == ASSUME TypeOK, RestartFails PROVE TypeOK'
BY DEF RestartFails, TypeOK

LEMMA PowerCycleType == ASSUME TypeOK, PowerCycle PROVE TypeOK'
BY RxAssumption DEF PowerCycle, TypeOK

\* ... and the stream.
LEMMA LoseType == ASSUME TypeOK, Lose PROVE TypeOK'
<1>1. toDev' \in Seq(Command)
  BY HeadTailProperties DEF Lose, TypeOK
<1>2. toHost' \in Seq(Reply)
  BY HeadTailProperties DEF Lose, TypeOK
<1> QED BY <1>1, <1>2, RxAssumption DEF Lose, TypeOK

LEMMA SkipType == ASSUME TypeOK, Skip PROVE TypeOK'
<1>1. toHost' \in Seq(Reply)
  BY HeadTailProperties DEF Skip, TypeOK
<1> QED BY <1>1 DEF Skip, TypeOK

\* A reply of the receiver joins the host's stream only if it is alive.
LEMMA AnswerType ==
  ASSUME TypeOK, NEW r, NEW m \in Reply, Answer(r, m)
  PROVE  toHost' \in Seq(Reply)
BY AppendProperties DEF Answer, TypeOK

LEMMA DeviceStepType == ASSUME TypeOK, DeviceStep PROVE TypeOK'
<1> DEFINE c == Head(toDev)
<1>1. c \in Command /\ toDev' \in Seq(Command)
  BY HeadTailProperties DEF DeviceStep, TypeOK
<1>2. /\ Rep("ver") \in Reply /\ Rep("ack") \in Reply /\ Rep("nak") \in Reply
      /\ c.op = "get" => [op |-> "val", b |-> c.b, v |-> ram[c.b]] \in Reply
  BY <1>1 DEF Rep, Reply, Command, TypeOK, Layer
<1>3. toHost' \in Seq(Reply)
  BY <1>2, AnswerType DEF DeviceStep
<1>4. c.op \in {"ram", "flash"} => c.b \in Batch /\ c.v \in Ver
  BY <1>1 DEF Command
<1>5. ram' \in Layer /\ flash' \in Layer
  BY <1>4 DEF DeviceStep, TypeOK, Layer
<1>6. faults' \in 0..MaxFaults
  BY RxAssumption DEF DeviceStep, TypeOK
<1> QED
  BY <1>1, <1>3, <1>5, <1>6 DEF DeviceStep, TypeOK

-----------------------------------------------------------------------------
(***************************************************************************)
(* Type correctness                                                        *)
(***************************************************************************)
\* The state of a fresh installation is typed.
LEMMA InitType == ASSUME Init PROVE TypeOK
<1>1. NoTxn \in TxnRec
  BY RxAssumption DEF NoTxn, TxnRec, Config, Ver
<1>2. toDev \in Seq(Command) /\ toHost \in Seq(Reply)
  BY EmptySeq DEF Init
<1>3. /\ ram \in Layer /\ flash \in Layer /\ old \in Layer
      /\ read \in [Batch -> Ver \cup {-1}]
  BY RxAssumption DEF Init, Layer, Ver
<1>4. cfg \in Config /\ bootCfg \in Config
  BY RxAssumption DEF Init, Config, Ver
<1>5. faults \in 0..MaxFaults /\ resets \in 0..MaxResets /\ cur \in Ver /\ slot \in Ver /\ at \in 1..NBatch
  BY RxAssumption DEF Init, Ver
<1>6. txn \in [Txns -> TxnRec]
  BY <1>1 DEF Init
<1>7. /\ due \in BOOLEAN /\ rmu = "none" /\ act = "idle" /\ by = "none" /\ tries = 0
  BY DEF Init
<1> QED
  BY <1>2, <1>3, <1>4, <1>5, <1>6, <1>7 DEF TypeOK

\* Every step of the system keeps every variable in its type.
LEMMA StepType == ASSUME TypeOK, [Next]_vars PROVE TypeOK'
<1>1. CASE DeviceStep \/ Lose \/ Skip
  BY <1>1, DeviceStepType, LoseType, SkipType
<1>2. CASE BeginApply \/ KeepStart \/ KeepRefused \/ CommitStart \/ AskRevert
  BY <1>2, BeginApplyType, KeepStartType, KeepRefusedType, CommitStartType, AskRevertType
<1>3. CASE Conversation
  BY <1>3, HelloOKType, RefuseType, ReadNextType, SnapOKType, WriteOKType, WriteFailedType,
     VerifyRetryType, VerifyFailedType, VerifyOKType, CommitNextType, CommitOKType,
     CommitFailedType, RestoreNextType, RestoreEndType, RestoreReturnType
  DEF Conversation
<1>4. CASE \E t \in Txns : TimerFires(t) \/ TimerRevert(t) \/ Watch(t)
  BY <1>4, TimerFiresType, TimerRevertType, WatchType
<1>5. CASE Crash \/ Restart \/ RestartFails \/ PowerCycle
  <2>1. CASE Crash
    BY <2>1, ForgetType, RxAssumption DEF Crash, TypeOK
  <2>2. CASE Restart
    BY <2>2, ForgetType DEF Restart, TypeOK
  <2>3. CASE RestartFails \/ PowerCycle
    BY <2>3, RestartFailsType, PowerCycleType
  <2> QED BY <1>5, <2>1, <2>2, <2>3
<1>6. CASE UNCHANGED vars
  BY <1>6 DEF vars, TypeOK
<1> QED BY <1>1, <1>2, <1>3, <1>4, <1>5, <1>6 DEF Next

\* ReceiverTxn is type correct: in particular the read-back of Apply is tried at
\* most three times (tries) and no layer ever holds an unknown transaction's values.
THEOREM TypeCorrect == Spec => []TypeOK
<1>1. Init => TypeOK
  BY InitType
<1>2. TypeOK /\ [Next]_vars => TypeOK'
  BY StepType
<1> QED BY <1>1, <1>2, PTL DEF Spec

-----------------------------------------------------------------------------
(***************************************************************************)
(* Flash holds only values somebody asked to keep                          *)
(*                                                                         *)
(* FlashHoldsKnownGood is not inductive: a command under way, and the      *)
(* conversation that sends the next one, must belong to a change whose     *)
(* Keep was asked for.                                                     *)
(***************************************************************************)
Pending ==
  /\ slot # 0 => slot = cur
  /\ act = "commit" \/ Keeping => cur # 0 /\ txn[cur].tried
  /\ act = "commit" => rmu = "settle"

Sent == \A i \in DOMAIN toDev :
          toDev[i].op = "flash" => toDev[i].v # 0 /\ txn[toDev[i].v].tried

FlashInv == TypeOK /\ Pending /\ Sent /\ FlashHoldsKnownGood

\* What a record remembers of its change is never forgotten; only a Keep marks a
\* change, and only one that begins gets its copy of the configuration.
Lasting ==
  \A t \in Txns : /\ txn[t].tried => txn'[t].tried
                  /\ txn'[t].tried => txn[t].tried \/ (KeepStart /\ t = slot)
                  /\ txn[t].cut => txn'[t].cut
                  /\ txn'[t].base = txn[t].base \/ (BeginApply /\ t = cur + 1)

SameMemory(q, r) == q.tried = r.tried /\ q.cut = r.cut /\ q.base = r.base

\* A record update that keeps the memory of its change keeps everybody's.
LEMMA MarkLasting ==
  ASSUME TypeOK, NEW t, NEW r, t \in Txns => SameMemory(r, txn[t]), Mark(t, r)
  PROVE  Lasting
BY DEF TypeOK, Mark, Lasting, SameMemory

\* The ghost update of a timed-out VALSET does not touch it,
LEMMA NoteLateLasting ==
  ASSUME NEW r \in TxnRec
  PROVE  NoteLate(r) \in TxnRec /\ SameMemory(NoteLate(r), r)
BY DEF NoteLate, TxnRec, SameMemory

\* ... and rolling back only adds to it.
LEMMA RollBackLasting ==
  ASSUME TypeOK, NEW r \in TxnRec, slot \in Txns, SameMemory(r, txn[slot]), RollBack(r)
  PROVE  Lasting
<1>1. [r EXCEPT !.cut = TRUE].tried = r.tried /\ [r EXCEPT !.cut = TRUE].base = r.base
      /\ [r EXCEPT !.cut = TRUE].cut
  BY DEF TxnRec
<1>2. Mark(slot, r) \/ Mark(slot, [r EXCEPT !.cut = TRUE])
  BY DEF RollBack
<1> QED BY <1>1, <1>2 DEF TypeOK, Mark, Lasting, SameMemory

\* No step forgets that somebody asked to keep a change, that its roll back did not
\* happen, or which configuration it began with.
LEMMA LastingStep == ASSUME TypeOK, [Next]_vars PROVE Lasting
<1>1. CASE txn' = txn
  BY <1>1 DEF Lasting
<1>2. CASE Refuse
  BY <1>2, RecType, MarkLasting DEF Refuse, TxnRec, SameMemory
<1>3. CASE WriteFailed
  <2>1. cur \in Txns => NoteLate(txn[cur]) \in TxnRec /\ SameMemory(NoteLate(txn[cur]), txn[cur])
    BY RecType, NoteLateLasting
  <2>2. cur \in Txns => SameMemory([NoteLate(txn[cur]) EXCEPT !.done = TRUE], txn[cur])
    BY <2>1 DEF TxnRec, SameMemory
  <2> QED BY <1>3, <2>2, MarkLasting DEF WriteFailed
<1>4. CASE VerifyFailed
  BY <1>4, RecType, MarkLasting DEF VerifyFailed, TxnRec, SameMemory
<1>5. CASE VerifyOK
  BY <1>5, RecType, MarkLasting DEF VerifyOK, TxnRec, SameMemory
<1>6. CASE BeginApply
  <2>1. /\ cur + 1 \in Txns /\ txn[cur + 1] \in TxnRec
        /\ Mark(cur + 1, [txn[cur + 1] EXCEPT !.base = bootCfg])
    BY <1>6, RecType, RxAssumption DEF BeginApply, TypeOK, Ver, Txns
  <2>2. /\ [txn[cur + 1] EXCEPT !.base = bootCfg].tried = txn[cur + 1].tried
        /\ [txn[cur + 1] EXCEPT !.base = bootCfg].cut = txn[cur + 1].cut
    BY <2>1 DEF TxnRec
  <2> QED BY <1>6, <2>1, <2>2 DEF Mark, TypeOK, Lasting
<1>7. CASE CommitOK
  BY <1>7, RecType, MarkLasting DEF CommitOK, TxnRec, SameMemory
<1>8. CASE CommitFailed \/ KeepRefused
  <2>1. slot \in Txns
    BY <1>8, RxAssumption DEF CommitFailed, KeepRefused, Keeping, TypeOK, Ver, Txns
  <2>2. /\ txn[slot] \in TxnRec /\ SameMemory(txn[slot], txn[slot])
        /\ NoteLate(txn[slot]) \in TxnRec /\ SameMemory(NoteLate(txn[slot]), txn[slot])
    BY <2>1, RecType, NoteLateLasting DEF SameMemory
  <2> QED BY <1>8, <2>1, <2>2, RollBackLasting DEF CommitFailed, KeepRefused
<1>9. CASE AskRevert
  BY <1>9, RecType, MarkLasting DEF AskRevert, TxnRec, SameMemory
<1>10. CASE RestoreEnd
  <2>1. cur \in Txns => NoteLate(txn[cur]) \in TxnRec /\ SameMemory(NoteLate(txn[cur]), txn[cur])
    BY RecType, NoteLateLasting
  <2>2. cur \in Txns => SameMemory([NoteLate(txn[cur]) EXCEPT !.out = "revertFailed", !.doneCh = TRUE],
                                   txn[cur])
    BY <2>1 DEF TxnRec, SameMemory
  <2>3. cur \in Txns => SameMemory([txn[cur] EXCEPT !.out = "reverted", !.doneCh = TRUE], txn[cur])
    BY RecType DEF TxnRec, SameMemory
  <2> QED BY <1>10, <2>2, <2>3, MarkLasting DEF RestoreEnd
<1>11. CASE RestoreReturn
  BY <1>11, RecType, MarkLasting DEF RestoreReturn, TxnRec, SameMemory
<1>12. ASSUME NEW t \in Txns, TimerFires(t) \/ TimerRevert(t) \/ Watch(t) PROVE Lasting
  BY <1>12, RecType, MarkLasting DEF TimerFires, TimerRevert, Watch, TxnRec, SameMemory
<1>13. CASE Forget
  BY <1>13, RecType DEF Forget, TxnRec, Lasting
<1>14. CASE KeepStart
  <2>1. slot \in Txns /\ txn[slot] \in TxnRec /\ Mark(slot, [txn[slot] EXCEPT !.tried = TRUE])
    BY <1>14, RecType, RxAssumption DEF KeepStart, TypeOK, Ver, Txns
  <2>2. /\ [txn[slot] EXCEPT !.tried = TRUE].tried
        /\ [txn[slot] EXCEPT !.tried = TRUE].cut = txn[slot].cut
        /\ [txn[slot] EXCEPT !.tried = TRUE].base = txn[slot].base
    BY <2>1 DEF TxnRec
  <2> QED BY <1>14, <2>1, <2>2 DEF Mark, TypeOK, Lasting
<1> QED
  BY <1>1, <1>2, <1>3, <1>4, <1>5, <1>6, <1>7, <1>8, <1>9, <1>10, <1>11, <1>12, <1>13, <1>14
  DEF Next, Conversation, DeviceStep, Lose, Skip, HelloOK, ReadNext, SnapOK, WriteOK,
      VerifyRetry, CommitStart, CommitNext, RestoreNext, Crash, Restart, RestartFails,
      PowerCycle, vars

\* Sending a request keeps Sent, if a Commit is sent only for a tried change.
LEMMA AskSent ==
  ASSUME TypeOK, Sent, Lasting, NEW a \in Asking, NEW b \in Batch, NEW g, NEW n,
         a = "commit" => cur # 0 /\ txn'[cur].tried, Ask(a, b, g, n)
  PROVE  Sent'
<1>1. Request(a, b) \in Command
  BY RequestType
<1>2. Request(a, b).op = "flash" => a = "commit" /\ Request(a, b).v = cur
  BY DEF Request, Cmd, Asking
<1>3. toDev' = Append(toDev, Request(a, b)) /\ toDev \in Seq(Command)
  BY DEF Ask, TypeOK
<1>4. ASSUME NEW i \in DOMAIN toDev', toDev'[i].op = "flash"
      PROVE  toDev'[i].v # 0 /\ txn'[toDev'[i].v].tried
  <2>1. CASE i = Len(toDev) + 1
    BY <1>1, <1>2, <1>3, <1>4, <2>1, AppendProperties
  <2>2. CASE i # Len(toDev) + 1
    <3>1. i \in DOMAIN toDev /\ toDev'[i] = toDev[i] /\ toDev[i] \in Command
      BY <1>1, <1>3, <2>2, AppendProperties
    <3>2. toDev[i].v # 0 /\ txn[toDev[i].v].tried /\ toDev[i].v \in Ver
      BY <1>4, <3>1 DEF Sent, Command
    <3> QED BY <3>1, <3>2, RxAssumption DEF Lasting, Ver, Txns
  <2> QED BY <2>1, <2>2
<1> QED BY <1>4 DEF Sent

\* Executing or losing the first command keeps Sent.
LEMMA TailSent ==
  ASSUME TypeOK, Sent, Lasting, toDev # << >>, toDev' = Tail(toDev)
  PROVE  Sent'
<1>1. ASSUME NEW i \in DOMAIN toDev', toDev'[i].op = "flash"
      PROVE  toDev'[i].v # 0 /\ txn'[toDev'[i].v].tried
  <2>1. i + 1 \in DOMAIN toDev /\ toDev'[i] = toDev[i + 1]
    BY HeadTailProperties DEF TypeOK
  <2>2. toDev[i + 1].v # 0 /\ txn[toDev[i + 1].v].tried /\ toDev[i + 1].v \in Ver
    BY <1>1, <2>1 DEF Sent, TypeOK, Command
  <2> QED BY <2>1, <2>2, RxAssumption DEF Lasting, Ver, Txns
<1> QED BY <1>1 DEF Sent

\* A step that leaves the stream alone keeps Sent.
LEMMA SameSent ==
  ASSUME TypeOK, Sent, Lasting, UNCHANGED toDev PROVE Sent'
<1>1. ASSUME NEW i \in DOMAIN toDev, toDev[i].op = "flash"
      PROVE  toDev[i].v # 0 /\ txn'[toDev[i].v].tried
  <2>1. toDev[i].v # 0 /\ txn[toDev[i].v].tried /\ toDev[i].v \in Ver
    BY <1>1 DEF Sent, TypeOK, Command
  <2> QED BY <2>1, RxAssumption DEF Lasting, Ver, Txns
<1> QED BY <1>1 DEF Sent

\* Every step keeps Pending: the slot holds the latest transaction only, and a
\* Keep under way is of a change that is marked.
LEMMA PendingStep == ASSUME TypeOK, Pending, [Next]_vars PROVE Pending'
<1>1. Lasting
  BY LastingStep
<1>2. act = "commit" \/ Keeping => cur \in Txns
  BY RxAssumption DEF Pending, TypeOK, Ver, Txns
<1>3. slot # 0 => cur \in Txns
  BY RxAssumption DEF Pending, TypeOK, Ver, Txns
<1>4. CASE KeepStart
  <2>1. txn' = [txn EXCEPT ![slot] = [txn[slot] EXCEPT !.tried = TRUE]] /\ slot = cur
        /\ cur # 0 /\ UNCHANGED <<cur, slot>> /\ rmu' = "settle"
    BY <1>4 DEF KeepStart, Mark, Pending
  <2>2. txn[cur] \in TxnRec
    BY <1>3, <2>1, RecType
  <2>3. [txn[cur] EXCEPT !.tried = TRUE].tried
    BY <2>2 DEF TxnRec
  <2> QED BY <1>3, <2>1, <2>3 DEF Pending, TypeOK
<1>5. CASE CommitStart \/ CommitNext
  BY <1>1, <1>2, <1>5 DEF CommitStart, CommitNext, Ask, Keeping, Pending, Lasting
<1>6. CASE DeviceStep \/ Lose \/ Skip
  BY <1>1, <1>2, <1>6 DEF DeviceStep, Lose, Skip, Keeping, Pending, Lasting
<1>7. CASE RestartFails \/ PowerCycle
  BY <1>1, <1>2, <1>7 DEF RestartFails, PowerCycle, Keeping, Pending, Lasting
<1>8. CASE BeginApply \/ HelloOK \/ Refuse
  BY <1>1, <1>2, <1>8 DEF BeginApply, HelloOK, Refuse, Ask, Rest, Keeping, Pending, Lasting
<1>9. CASE ReadNext \/ SnapOK \/ WriteOK \/ WriteFailed
  BY <1>1, <1>2, <1>9
  DEF ReadNext, SnapOK, WriteOK, WriteFailed, Ask, Rest, Keeping, Pending, Lasting
<1>10. CASE VerifyRetry \/ VerifyFailed \/ VerifyOK
  BY <1>1, <1>2, <1>10
  DEF VerifyRetry, VerifyFailed, VerifyOK, Verified, BadRead, Ask, Rest, Keeping, Pending, Lasting
<1>11. CASE KeepRefused \/ CommitOK \/ CommitFailed
  BY <1>11 DEF KeepRefused, CommitOK, CommitFailed, Rest, Keeping, Pending
<1>12. CASE AskRevert
  BY <1>1, <1>2, <1>12 DEF AskRevert, Ask, Keeping, Pending, Lasting
<1>13. CASE RestoreNext \/ RestoreEnd \/ RestoreReturn
  BY <1>1, <1>2, <1>13
  DEF RestoreNext, RestoreEnd, RestoreReturn, Ask, Rest, Keeping, Pending, Lasting
<1>14. ASSUME NEW t \in Txns, TimerFires(t) \/ TimerRevert(t) \/ Watch(t) PROVE Pending'
  BY <1>1, <1>2, <1>14 DEF TimerFires, TimerRevert, Watch, Ask, Keeping, Pending, Lasting
<1>15. CASE Forget
  BY <1>15 DEF Forget, Rest, Keeping, Pending
<1>16. CASE UNCHANGED vars
  BY <1>16 DEF vars, Keeping, Pending
<1> QED
  BY <1>4, <1>5, <1>6, <1>7, <1>8, <1>9, <1>10, <1>11, <1>12, <1>13, <1>14, <1>15, <1>16
  DEF Next, Conversation, Crash, Restart

\* Every step keeps Sent.
LEMMA SentStep == ASSUME TypeOK, Pending, Sent, [Next]_vars PROVE Sent'
<1>1. Lasting /\ Pending'
  BY LastingStep, PendingStep
<1>2. CASE DeviceStep
  BY <1>1, <1>2, TailSent DEF DeviceStep
<1>3. CASE Lose
  BY <1>1, <1>3, TailSent, SameSent DEF Lose
<1>4. CASE PowerCycle
  BY <1>4 DEF PowerCycle, Sent
<1>5. CASE UNCHANGED toDev
  BY <1>1, <1>5, SameSent
<1>6. ASSUME NEW a \in Asking, NEW b \in Batch, NEW g, NEW n, Ask(a, b, g, n), UNCHANGED cur
      PROVE  Sent'
  <2>1. a = "commit" => cur # 0 /\ txn'[cur].tried
    BY <1>1, <1>6 DEF Ask, Pending
  <2> QED BY <1>1, <1>6, <2>1, AskSent
<1>7. 1 \in Batch /\ (at < NBatch => at + 1 \in Batch)
  BY RxAssumption DEF TypeOK, Batch
<1>8. CASE BeginApply
  <2>1. Ask("hello", 1, "apply", 0) /\ "hello" \in Asking
    BY <1>8 DEF BeginApply, Asking
  <2> QED BY <1>1, <1>7, <2>1, AskSent
<1>9. CASE HelloOK \/ ReadNext \/ SnapOK \/ WriteOK \/ WriteFailed \/ VerifyRetry \/ VerifyFailed
  BY <1>6, <1>7, <1>9
  DEF HelloOK, ReadNext, SnapOK, WriteOK, WriteFailed, VerifyRetry, VerifyFailed, Asking
<1>10. CASE CommitStart \/ CommitNext \/ RestoreNext
  BY <1>6, <1>7, <1>10 DEF CommitStart, CommitNext, RestoreNext, Asking
<1>11. CASE AskRevert
  BY <1>5, <1>6, <1>7, <1>11 DEF AskRevert, Asking
<1>12. ASSUME NEW t \in Txns, TimerRevert(t) PROVE Sent'
  BY <1>5, <1>6, <1>7, <1>12 DEF TimerRevert, Asking
<1> QED
  BY <1>2, <1>3, <1>4, <1>5, <1>8, <1>9, <1>10, <1>11, <1>12
  DEF Next, Conversation, Skip, Refuse, VerifyOK, KeepStart, KeepRefused, CommitOK,
      CommitFailed, RestoreEnd, RestoreReturn, TimerFires, Watch, Crash, Restart,
      RestartFails, Forget, vars

\* Every step keeps FlashHoldsKnownGood: only a command that is Sent writes Flash.
LEMMA FlashStep ==
  ASSUME TypeOK, Sent, FlashHoldsKnownGood, [Next]_vars PROVE FlashHoldsKnownGood'
<1>1. Lasting
  BY LastingStep
<1>2. ASSUME NEW b \in Batch, flash'[b] # 0 PROVE txn'[flash'[b]].tried
  <2>1. CASE flash'[b] = flash[b]
    <3>1. flash[b] \in Txns
      BY <1>2, <2>1, RxAssumption DEF TypeOK, Layer, Ver, Txns
    <3> QED BY <1>1, <1>2, <2>1, <3>1 DEF FlashHoldsKnownGood, Lasting
  <2>2. CASE DeviceStep
    <3>1. /\ toDev # << >> /\ toDev \in Seq(Command) /\ txn' = txn
          /\ \/ flash' = flash
             \/ /\ Head(toDev).op = "flash"
                /\ flash' = [flash EXCEPT ![Head(toDev).b] = Head(toDev).v]
      BY <2>2 DEF DeviceStep, TypeOK
    <3>2. 1 \in DOMAIN toDev /\ Head(toDev) = toDev[1]
      BY <3>1, HeadTailProperties
    <3>3. Head(toDev).op = "flash" => Head(toDev).v # 0 /\ txn[Head(toDev).v].tried
      BY <3>2 DEF Sent
    <3> QED BY <1>2, <2>1, <3>1, <3>3 DEF TypeOK, Layer
  <2>3. flash' = flash \/ DeviceStep
    BY GotType, FailedType, PolledType, BadReadType
    DEF Next, Conversation, Lose, Skip, BeginApply, HelloOK, Refuse, ReadNext, SnapOK,
        WriteOK, WriteFailed, BadRead, VerifyRetry, VerifyFailed, Verified, VerifyOK,
        KeepStart, KeepRefused, CommitStart, CommitNext, CommitOK, CommitFailed, AskRevert,
        TimerFires, TimerRevert, Watch, RestoreNext, RestoreEnd, RestoreReturn, Crash,
        Restart, RestartFails, Forget, PowerCycle, vars
  <2> QED BY <2>1, <2>2, <2>3
<1> QED BY <1>2 DEF FlashHoldsKnownGood

\* Whatever is lost, refused, late, crashed or power-cycled, Flash holds only
\* factory values and values somebody asked to keep (Session.Apply writes RAM only).
THEOREM FlashSafe == Spec => []FlashHoldsKnownGood
<1>1. Init => FlashInv
  <2>1. ASSUME Init PROVE Pending /\ Sent /\ FlashHoldsKnownGood
    BY <2>1, RxAssumption DEF Init, Pending, Keeping, Sent, FlashHoldsKnownGood
  <2> QED BY <2>1, InitType DEF FlashInv
<1>2. FlashInv /\ [Next]_vars => FlashInv'
  BY StepType, PendingStep, SentStep, FlashStep DEF FlashInv
<1>3. FlashInv => FlashHoldsKnownGood
  BY DEF FlashInv
<1> QED BY <1>1, <1>2, <1>3, PTL DEF Spec

-----------------------------------------------------------------------------
(***************************************************************************)
(* A transaction that another has replaced is finished                     *)
(*                                                                         *)
(* OnlyLatestIsLive needs to know where an unfinished transaction can be:  *)
(* in the slot.  The slot is empty while a new change is applied, and is   *)
(* emptied only for a transaction that is done.                            *)
(***************************************************************************)
LiveInv ==
  /\ TypeOK
  /\ \A t \in Txns : txn[t].timer # "off" /\ ~txn[t].done => slot = t
  /\ \A t \in Txns : txn[t].doneCh => txn[t].done
  /\ slot # 0 => slot = cur
  /\ act # "idle" => cur # 0
  /\ act \in {"hello", "snap", "write", "verify"} => slot = 0
  /\ act \in {"restore", "close"} => txn[cur].done

\* What a record update keeps of LiveInv, when its record agrees with the slot.
LEMMA LiveMark ==
  ASSUME LiveInv, NEW t, NEW r, Mark(t, r),
         slot' = slot \/ slot = 0 \/ slot = t,
         t \in Txns => /\ r.doneCh => r.done
                       /\ txn[t].done => r.done
                       /\ r.timer # "off" /\ ~r.done => slot' = t
  PROVE  /\ \A u \in Txns : txn'[u].timer # "off" /\ ~txn'[u].done => slot' = u
         /\ \A u \in Txns : txn'[u].doneCh => txn'[u].done
         /\ \A u \in Txns : txn[u].done => txn'[u].done
<1>1. \A u \in Txns : txn'[u] = IF u = t THEN r ELSE txn[u]
  BY DEF LiveInv, TypeOK, Mark
<1>2. 0 \notin Txns
  BY DEF Txns
<1> QED BY <1>1, <1>2 DEF LiveInv

\* The ghost update of a timed-out VALSET touches nothing else.
LEMMA NoteLateSame ==
  ASSUME NEW r \in TxnRec
  PROVE  /\ NoteLate(r) \in TxnRec /\ NoteLate(r).done = r.done
         /\ NoteLate(r).timer = r.timer /\ NoteLate(r).doneCh = r.doneCh
BY DEF NoteLate, TxnRec

\* Rolling back marks the change with r, or with r and cut.
LEMMA RollBackSame ==
  ASSUME NEW r \in TxnRec, RollBack(r)
  PROVE  \E q : /\ Mark(slot, q) /\ q.timer = r.timer /\ q.done = r.done
                /\ q.doneCh = r.doneCh
<1>1. /\ [r EXCEPT !.cut = TRUE].timer = r.timer /\ [r EXCEPT !.cut = TRUE].done = r.done
      /\ [r EXCEPT !.cut = TRUE].doneCh = r.doneCh
  BY DEF TxnRec
<1>2. Mark(slot, r) \/ Mark(slot, [r EXCEPT !.cut = TRUE])
  BY DEF RollBack
<1> QED BY <1>1, <1>2

\* Every step keeps LiveInv: one case per action that changes it.
LEMMA LiveStep == ASSUME LiveInv, [Next]_vars PROVE LiveInv'
<1>1. TypeOK' /\ TypeOK
  BY StepType DEF LiveInv
<1>2. (cur # 0 => cur \in Txns) /\ (slot # 0 => slot \in Txns) /\ 0 \notin Txns
  BY RxAssumption, <1>1 DEF TypeOK, Ver, Txns
<1>3. CASE DeviceStep \/ Lose \/ Skip \/ RestartFails \/ PowerCycle
  BY <1>1, <1>3 DEF DeviceStep, Lose, Skip, RestartFails, PowerCycle, LiveInv
<1>4. CASE BeginApply
  <2> DEFINE r == [txn[cur + 1] EXCEPT !.base = bootCfg]
  <2>1. cur + 1 \in Txns /\ slot = 0 /\ slot' = 0 /\ cur' = cur + 1 /\ act' = "hello" /\ Mark(cur + 1, r)
    BY <1>1, <1>4, RxAssumption DEF BeginApply, Ask, TypeOK, Ver, Txns
  <2>2. r.timer = txn[cur + 1].timer /\ r.done = txn[cur + 1].done /\ r.doneCh = txn[cur + 1].doneCh
    BY <1>1, <2>1, RecType DEF TxnRec
  <2> HIDE DEF r
  <2> QED BY <1>1, <1>2, <2>1, <2>2, LiveMark DEF LiveInv
<1>5. CASE HelloOK \/ ReadNext \/ SnapOK \/ WriteOK \/ VerifyRetry \/ CommitStart \/ CommitNext
        \/ RestoreNext
  <2>1. \/ UNCHANGED <<txn, slot, cur>> /\ act # "restore"
        \/ UNCHANGED <<txn, slot, cur, act>>
    BY <1>5 DEF HelloOK, ReadNext, SnapOK, WriteOK, VerifyRetry, BadRead, CommitStart, CommitNext,
       RestoreNext, Ask
  <2>2. /\ act' # "idle" => cur # 0
        /\ act' \in {"hello", "snap", "write", "verify"} => slot = 0
        /\ act' \in {"restore", "close"} => txn[cur].done
    BY <1>1, <1>5 DEF HelloOK, ReadNext, SnapOK, WriteOK, VerifyRetry, BadRead, CommitStart, CommitNext,
       RestoreNext, Ask, Keeping, LiveInv
  <2> QED BY <1>1, <2>1, <2>2 DEF LiveInv
<1>6. CASE KeepRefused
  <2>1. slot \in Txns /\ txn[slot] \in TxnRec
    BY <1>1, <1>2, <1>6, RecType DEF KeepRefused, Keeping
  <2>2. PICK r : /\ Mark(slot, r) /\ r.timer = txn[slot].timer /\ r.done = txn[slot].done
                 /\ r.doneCh = txn[slot].doneCh
    BY <1>1, <1>6, <2>1, RollBackSame DEF KeepRefused
  <2> QED BY <1>1, <1>2, <1>6, <2>1, <2>2, LiveMark DEF KeepRefused, LiveInv
<1>7. CASE Refuse
  <2> DEFINE r == [txn[cur] EXCEPT !.out = "refused",
                 !.audit = IF act = "snap" THEN "reverted" ELSE txn[cur].audit]
  <2>1. cur \in Txns => r.timer = txn[cur].timer /\ r.done = txn[cur].done /\ r.doneCh = txn[cur].doneCh
    BY <1>1, RecType DEF TxnRec
  <2>2. Mark(cur, r)
    BY <1>7 DEF Refuse
  <2> HIDE DEF r
  <2> QED BY <1>1, <1>2, <1>7, <2>1, <2>2, LiveMark DEF Refuse, LiveInv, Rest
<1>8. CASE WriteFailed
  <2> DEFINE r == [NoteLate(txn[cur]) EXCEPT !.done = TRUE]
  <2>0. cur \in Txns => /\ NoteLate(txn[cur]) \in TxnRec /\ NoteLate(txn[cur]).done = txn[cur].done
                   /\ NoteLate(txn[cur]).timer = txn[cur].timer /\ NoteLate(txn[cur]).doneCh = txn[cur].doneCh
    BY <1>1, RecType, NoteLateSame
  <2>1. cur \in Txns => r.done
    BY <1>1, <2>0, RecType DEF TxnRec
  <2>2. Mark(cur, r)
    BY <1>8 DEF WriteFailed
  <2>3. cur # 0 /\ slot' = slot /\ cur' = cur /\ act' = "restore"
    BY <1>8 DEF WriteFailed, Ask, LiveInv
  <2>4. txn'[cur].done
    BY <1>1, <1>2, <2>1, <2>2, <2>3 DEF Mark, TypeOK
  <2> HIDE DEF r
  <2> QED BY <1>1, <1>2, <2>1, <2>2, <2>3, <2>4, LiveMark DEF LiveInv
<1>9. CASE VerifyFailed
  <2> DEFINE r == [txn[cur] EXCEPT !.done = TRUE]
  <2>1. cur \in Txns => r.done
    BY <1>1, RecType DEF TxnRec
  <2>2. Mark(cur, r)
    BY <1>9 DEF VerifyFailed
  <2>3. cur # 0 /\ slot' = slot /\ cur' = cur /\ act' = "restore"
    BY <1>9 DEF VerifyFailed, BadRead, Ask, LiveInv
  <2>4. txn'[cur].done
    BY <1>1, <1>2, <2>1, <2>2, <2>3 DEF Mark, TypeOK
  <2> HIDE DEF r
  <2> QED BY <1>1, <1>2, <2>1, <2>2, <2>3, <2>4, LiveMark DEF LiveInv
<1>10. CASE VerifyOK
  <2> DEFINE r == [txn[cur] EXCEPT !.timer = "armed", !.watch = TRUE, !.audit = "awaiting"]
  <2>1. cur \in Txns => r.done = txn[cur].done /\ r.doneCh = txn[cur].doneCh
    BY <1>1, RecType DEF TxnRec
  <2>2. Mark(cur, r)
    BY <1>10 DEF VerifyOK
  <2> HIDE DEF r
  <2> QED BY <1>1, <1>2, <1>10, <2>1, <2>2, LiveMark DEF VerifyOK, LiveInv, Rest
<1>11. CASE KeepStart
  <2> DEFINE r == [txn[slot] EXCEPT !.tried = TRUE]
  <2>1. slot \in Txns => r.timer = txn[slot].timer /\ r.done = txn[slot].done /\ r.doneCh = txn[slot].doneCh
    BY <1>1, RecType DEF TxnRec
  <2>2. Mark(slot, r)
    BY <1>11 DEF KeepStart
  <2> HIDE DEF r
  <2> QED BY <1>1, <1>2, <1>11, <2>1, <2>2, LiveMark DEF KeepStart, LiveInv
<1>12. CASE CommitOK
  <2> DEFINE r == [txn[slot] EXCEPT !.timer = Stopped(txn[slot]), !.done = TRUE,
                   !.doneCh = TRUE, !.out = "committed"]
  <2>1. slot \in Txns => r.done
    BY <1>1, RecType DEF TxnRec
  <2>2. Mark(slot, r)
    BY <1>12 DEF CommitOK
  <2> HIDE DEF r
  <2> QED BY <1>1, <1>2, <1>12, <2>1, <2>2, LiveMark DEF CommitOK, LiveInv, Rest
<1>13. CASE CommitFailed
  <2>1. /\ slot \in Txns
        /\ NoteLate(txn[slot]) \in TxnRec /\ NoteLate(txn[slot]).done = txn[slot].done
        /\ NoteLate(txn[slot]).timer = txn[slot].timer /\ NoteLate(txn[slot]).doneCh = txn[slot].doneCh
    BY <1>1, <1>2, <1>13, RecType, NoteLateSame DEF CommitFailed, Keeping
  <2>2. PICK r : /\ Mark(slot, r) /\ r.timer = txn[slot].timer /\ r.done = txn[slot].done
                 /\ r.doneCh = txn[slot].doneCh
    BY <1>1, <1>13, <2>1, RollBackSame DEF CommitFailed
  <2> QED BY <1>1, <1>2, <1>13, <2>1, <2>2, LiveMark DEF CommitFailed, LiveInv, Rest
<1>14. CASE AskRevert
  <2>1. CASE txn[slot].done
    <3> DEFINE r == [txn[slot] EXCEPT !.audit = "reverted"]
    <3>1. slot \in Txns => r.timer = txn[slot].timer /\ r.done = txn[slot].done /\ r.doneCh = txn[slot].doneCh
      BY <1>1, RecType DEF TxnRec
    <3>2. Mark(slot, r)
      BY <1>14, <2>1 DEF AskRevert
    <3> HIDE DEF r
    <3> QED BY <1>1, <1>2, <1>14, <2>1, <3>1, <3>2, LiveMark DEF AskRevert, LiveInv
  <2>2. CASE ~txn[slot].done
    <3> DEFINE r == [txn[slot] EXCEPT !.done = TRUE, !.timer = Stopped(txn[slot])]
    <3>1. slot \in Txns => r.done
      BY <1>1, RecType DEF TxnRec
    <3>2. Mark(slot, r)
      BY <1>14, <2>2 DEF AskRevert
    <3>3. slot # 0 /\ slot' = slot /\ cur' = cur /\ act' = "restore"
      BY <1>14, <2>2 DEF AskRevert, Ask
    <3>4. txn'[cur].done
      BY <1>1, <1>2, <3>1, <3>2, <3>3 DEF Mark, TypeOK, LiveInv
    <3> HIDE DEF r
    <3> QED BY <1>1, <1>2, <3>1, <3>2, <3>3, <3>4, LiveMark DEF LiveInv
  <2> QED BY <2>1, <2>2
<1>15. CASE RestoreEnd
  <2> DEFINE q == [txn[cur] EXCEPT !.out = "reverted", !.doneCh = TRUE]
             r == [NoteLate(txn[cur]) EXCEPT !.out = "revertFailed", !.doneCh = TRUE]
  <2>1. cur \in Txns /\ txn[cur].done
    BY <1>1, <1>2, <1>15 DEF RestoreEnd, LiveInv
  <2>2. NoteLate(txn[cur]) \in TxnRec /\ NoteLate(txn[cur]).done = txn[cur].done
    BY <1>1, <2>1, RecType, NoteLateSame
  <2>3. q.done /\ r.done
    BY <1>1, <2>1, <2>2, RecType DEF TxnRec
  <2>4. Mark(cur, q) \/ Mark(cur, r)
    BY <1>15 DEF RestoreEnd
  <2> HIDE DEF q, r
  <2> QED BY <1>1, <1>2, <1>15, <2>1, <2>3, <2>4, LiveMark DEF RestoreEnd, LiveInv
<1>16. CASE RestoreReturn
  <2> DEFINE r == [txn[cur] EXCEPT !.revCh = TRUE,
                 !.audit = IF (by = "settle" /\ txn[cur].out = "reverted") \/ by = "apply"
                           THEN "reverted" ELSE txn[cur].audit]
  <2>1. cur \in Txns => r.timer = txn[cur].timer /\ r.done = txn[cur].done /\ r.doneCh = txn[cur].doneCh
    BY <1>1, RecType DEF TxnRec
  <2>2. Mark(cur, r)
    BY <1>16 DEF RestoreReturn
  <2> HIDE DEF r
  <2> QED BY <1>1, <1>2, <1>16, <2>1, <2>2, LiveMark DEF RestoreReturn, LiveInv, Rest
<1>17. ASSUME NEW t \in Txns, TimerFires(t) PROVE LiveInv'
  <2> DEFINE r == [txn[t] EXCEPT !.timer = "firing"]
  <2>1. t \in Txns => r.done = txn[t].done /\ r.doneCh = txn[t].doneCh
    BY <1>1, RecType DEF TxnRec
  <2>2. Mark(t, r)
    BY <1>17 DEF TimerFires
  <2> HIDE DEF r
  <2> QED BY <1>1, <1>2, <1>17, <2>1, <2>2, LiveMark DEF TimerFires, LiveInv
<1>18. ASSUME NEW t \in Txns, TimerRevert(t) PROVE LiveInv'
  <2>1. CASE txn[t].done
    <3> DEFINE r == [txn[t] EXCEPT !.timer = "off"]
    <3>1. r.done = txn[t].done /\ r.doneCh = txn[t].doneCh
      BY <1>1, RecType DEF TxnRec
    <3>2. Mark(t, r)
      BY <1>18, <2>1 DEF TimerRevert
    <3> HIDE DEF r
    <3> QED BY <1>1, <1>2, <1>18, <2>1, <3>1, <3>2, LiveMark DEF TimerRevert, LiveInv
  <2>2. CASE ~txn[t].done
    <3> DEFINE r == [txn[t] EXCEPT !.timer = "off", !.done = TRUE]
    <3>1. r.done
      BY <1>1, RecType DEF TxnRec
    <3>2. Mark(t, r) /\ slot' = slot /\ cur' = cur /\ act' = "restore"
      BY <1>18, <2>2 DEF TimerRevert, Ask
    <3>3. t = cur /\ cur # 0
      BY <1>1, <1>2, <1>18, <2>2 DEF TimerRevert, LiveInv
    <3>4. txn'[cur].done
      BY <1>1, <3>1, <3>2, <3>3 DEF Mark, TypeOK
    <3> HIDE DEF r
    <3> QED BY <1>1, <1>2, <3>1, <3>2, <3>3, <3>4, LiveMark DEF LiveInv
  <2> QED BY <2>1, <2>2
<1>19. ASSUME NEW t \in Txns, Watch(t) PROVE LiveInv'
  <2> DEFINE r == [txn[t] EXCEPT !.watch = FALSE,
             !.audit = IF slot = t /\ txn[t].revCh THEN "reverted" ELSE txn[t].audit]
  <2>1. t \in Txns => r.timer = txn[t].timer /\ r.done = txn[t].done /\ r.doneCh = txn[t].doneCh
    BY <1>1, RecType DEF TxnRec
  <2>2. Mark(t, r)
    BY <1>19 DEF Watch
  <2> HIDE DEF r
  <2> QED BY <1>1, <1>2, <1>19, <2>1, <2>2, LiveMark DEF Watch, LiveInv
<1>20. CASE Forget
  BY <1>1, <1>20, RecType DEF Forget, Rest, TxnRec, LiveInv
<1>21. CASE UNCHANGED vars
  BY <1>1, <1>21 DEF vars, LiveInv
<1> QED
  BY <1>3, <1>4, <1>5, <1>6, <1>7, <1>8, <1>9, <1>10, <1>11, <1>12, <1>13, <1>14, <1>15, <1>16, <1>17, <1>18, <1>19, <1>20, <1>21
  DEF Next, Conversation, Crash, Restart

\* Only the latest transaction can still touch the receiver: when a new change
\* is begun, every earlier transaction whose timer still exists is done, so its
\* timer goroutine will find nothing to do (beginReceiverTxn's pending check).
THEOREM StaleTimersAreDone == Spec => []OnlyLatestIsLive
<1>1. Init => LiveInv
  <2>1. ASSUME Init PROVE LiveInv
    <3>1. \A t \in Txns : txn[t] = NoTxn /\ NoTxn.timer = "off" /\ NoTxn.doneCh = FALSE
      BY <2>1 DEF Init, NoTxn
    <3> QED BY <2>1, <3>1, InitType DEF Init, LiveInv
  <2> QED BY <2>1
<1>2. LiveInv /\ [Next]_vars => LiveInv'
  BY LiveStep
<1>3. LiveInv => OnlyLatestIsLive
  BY RxAssumption DEF LiveInv, OnlyLatestIsLive, TypeOK, Ver, Txns
<1> QED BY <1>1, <1>2, <1>3, PTL DEF Spec

-----------------------------------------------------------------------------
(***************************************************************************)
(* What each action does to the records                                    *)
(*                                                                         *)
(* The properties below look at four fields of a record; the actions that  *)
(* change txn are described by what they do to those.                      *)
(***************************************************************************)
Untouched(t) ==
  /\ txn'[t].done = txn[t].done /\ txn'[t].late = txn[t].late
  /\ txn'[t].audit = txn[t].audit /\ txn'[t].out = txn[t].out

Others(t) == \A u \in Txns : u # t => Untouched(u)

\* Mark changes one record.
LEMMA MarkEffect ==
  ASSUME TypeOK, NEW t \in Txns, NEW r, Mark(t, r)
  PROVE  txn'[t] = r /\ Others(t)
BY DEF TypeOK, Mark, Others, Untouched

\* The ghost update of a timed-out VALSET only ever sets late.
LEMMA NoteLateEffect ==
  ASSUME NEW r \in TxnRec
  PROVE  /\ NoteLate(r) \in TxnRec
         /\ NoteLate(r).done = r.done /\ NoteLate(r).audit = r.audit
         /\ NoteLate(r).out = r.out
         /\ NoteLate(r).late = (r.late \/ toHost' = toHost)
BY DEF NoteLate, TxnRec

LEMMA SameEffect == ASSUME UNCHANGED txn, NEW t \in Txns PROVE Untouched(t)
BY DEF Untouched

LEMMA RefuseEffect ==
  ASSUME TypeOK, Refuse, cur \in Txns
  PROVE  /\ Others(cur) /\ txn'[cur].done = txn[cur].done
         /\ txn'[cur].late = txn[cur].late /\ txn'[cur].out = "refused"
         /\ txn'[cur].audit = IF act = "snap" THEN "reverted" ELSE txn[cur].audit
<1> DEFINE r == [txn[cur] EXCEPT !.out = "refused",
               !.audit = IF act = "snap" THEN "reverted" ELSE txn[cur].audit]
<1>1. r.done = txn[cur].done /\ r.late = txn[cur].late /\ r.audit = (IF act = "snap" THEN "reverted" ELSE txn[cur].audit)
     /\ r.out = "refused"
  BY RecType DEF TxnRec
<1>2. Mark(cur, r)
  BY DEF Refuse
<1> HIDE DEF r
<1> QED BY <1>1, <1>2, MarkEffect

LEMMA WriteFailedEffect ==
  ASSUME TypeOK, WriteFailed, cur \in Txns
  PROVE  /\ Others(cur) /\ txn'[cur].done
         /\ txn'[cur].late = (txn[cur].late \/ toHost' = toHost)
         /\ txn'[cur].out = txn[cur].out /\ txn'[cur].audit = txn[cur].audit
<1> DEFINE n == NoteLate(txn[cur])
<1>1. n \in TxnRec /\ n.audit = txn[cur].audit /\ n.out = txn[cur].out
      /\ n.late = (txn[cur].late \/ toHost' = toHost)
  BY RecType, NoteLateEffect
<1>2. Mark(cur, [n EXCEPT !.done = TRUE])
  BY DEF WriteFailed
<1> HIDE DEF n
<1> QED BY <1>1, <1>2, MarkEffect DEF TxnRec

LEMMA VerifyFailedEffect ==
  ASSUME TypeOK, VerifyFailed, cur \in Txns
  PROVE  /\ Others(cur) /\ txn'[cur].done
         /\ txn'[cur].late = txn[cur].late
         /\ txn'[cur].out = txn[cur].out /\ txn'[cur].audit = txn[cur].audit
BY RecType, MarkEffect DEF VerifyFailed, TxnRec

LEMMA VerifyOKEffect ==
  ASSUME TypeOK, VerifyOK, cur \in Txns
  PROVE  /\ Others(cur) /\ txn'[cur].done = txn[cur].done
         /\ txn'[cur].late = txn[cur].late
         /\ txn'[cur].out = txn[cur].out /\ txn'[cur].audit = "awaiting"
<1> DEFINE r == [txn[cur] EXCEPT !.timer = "armed", !.watch = TRUE, !.audit = "awaiting"]
<1>1. r.done = txn[cur].done /\ r.late = txn[cur].late /\ r.audit = "awaiting" /\ r.out = txn[cur].out
  BY RecType DEF TxnRec
<1>2. Mark(cur, r)
  BY DEF VerifyOK
<1> HIDE DEF r
<1> QED BY <1>1, <1>2, MarkEffect

LEMMA BeginApplyEffect ==
  ASSUME TypeOK, BeginApply, NEW t \in Txns
  PROVE  Untouched(t)
<1>1. cur + 1 \in Txns
  BY RxAssumption DEF BeginApply, TypeOK, Ver, Txns
<1> QED BY <1>1, RecType, MarkEffect DEF BeginApply, TxnRec, Others, Untouched

LEMMA KeepStartEffect ==
  ASSUME TypeOK, KeepStart, slot \in Txns, NEW t \in Txns
  PROVE  Untouched(t)
BY RecType, MarkEffect DEF KeepStart, TxnRec, Others, Untouched

\* Rolling back marks the change with r, or with r and cut.
LEMMA RollBackEffect ==
  ASSUME TypeOK, slot \in Txns, NEW r \in TxnRec, RollBack(r)
  PROVE  /\ Others(slot) /\ txn'[slot].done = r.done /\ txn'[slot].late = r.late
         /\ txn'[slot].audit = r.audit /\ txn'[slot].out = r.out
<1> DEFINE q == [r EXCEPT !.cut = TRUE]
<1>1. q.done = r.done /\ q.late = r.late /\ q.audit = r.audit /\ q.out = r.out
  BY DEF TxnRec
<1>2. Mark(slot, r) \/ Mark(slot, q)
  BY DEF RollBack
<1> HIDE DEF q
<1> QED BY <1>1, <1>2, MarkEffect

LEMMA KeepRefusedEffect ==
  ASSUME TypeOK, KeepRefused, slot \in Txns, NEW t \in Txns
  PROVE  Untouched(t)
BY RecType, RollBackEffect DEF KeepRefused, Others, Untouched

LEMMA CommitOKEffect ==
  ASSUME TypeOK, CommitOK, slot \in Txns
  PROVE  /\ Others(slot) /\ txn'[slot].done
         /\ txn'[slot].late = txn[slot].late
         /\ txn'[slot].out = "committed" /\ txn'[slot].audit = txn[slot].audit
<1> DEFINE r == [txn[slot] EXCEPT !.timer = Stopped(txn[slot]), !.done = TRUE,
                !.doneCh = TRUE, !.out = "committed"]
<1>1. r.done = TRUE /\ r.late = txn[slot].late /\ r.audit = txn[slot].audit /\ r.out = "committed"
  BY RecType DEF TxnRec
<1>2. Mark(slot, r)
  BY DEF CommitOK
<1> HIDE DEF r
<1> QED BY <1>1, <1>2, MarkEffect

LEMMA CommitFailedEffect ==
  ASSUME TypeOK, CommitFailed, slot \in Txns
  PROVE  /\ Others(slot) /\ txn'[slot].done = txn[slot].done
         /\ txn'[slot].late = (txn[slot].late \/ toHost' = toHost)
         /\ txn'[slot].out = txn[slot].out /\ txn'[slot].audit = txn[slot].audit
BY RecType, RollBackEffect, NoteLateEffect DEF CommitFailed

LEMMA TimerFiresEffect ==
  ASSUME TypeOK, NEW t \in Txns, TimerFires(t), NEW u \in Txns
  PROVE  Untouched(u)
BY RecType, MarkEffect DEF TimerFires, TxnRec, Others, Untouched

LEMMA TimerRevertEffect ==
  ASSUME TypeOK, NEW t \in Txns, TimerRevert(t)
  PROVE  /\ Others(t) /\ txn'[t].done
         /\ txn'[t].late = txn[t].late
         /\ txn'[t].out = txn[t].out /\ txn'[t].audit = txn[t].audit
<1> DEFINE q == [txn[t] EXCEPT !.timer = "off"]
           r == [txn[t] EXCEPT !.timer = "off", !.done = TRUE]
<1>1. /\ q.done = txn[t].done /\ q.late = txn[t].late
      /\ q.audit = txn[t].audit /\ q.out = txn[t].out
  BY RecType DEF TxnRec
<1>2. r.done /\ r.late = txn[t].late /\ r.audit = txn[t].audit /\ r.out = txn[t].out
  BY RecType DEF TxnRec
<1>3. (txn[t].done /\ Mark(t, q)) \/ Mark(t, r)
  BY DEF TimerRevert
<1> HIDE DEF q, r
<1> QED BY <1>1, <1>2, <1>3, MarkEffect

LEMMA AskRevertEffect ==
  ASSUME TypeOK, AskRevert, slot \in Txns
  PROVE  /\ Others(slot) /\ txn'[slot].done
         /\ txn'[slot].late = txn[slot].late
         /\ txn'[slot].out = txn[slot].out
         /\ txn'[slot].audit = IF txn[slot].done THEN "reverted" ELSE txn[slot].audit
<1> DEFINE q == [txn[slot] EXCEPT !.audit = "reverted"]
           r == [txn[slot] EXCEPT !.done = TRUE, !.timer = Stopped(txn[slot])]
<1>1. /\ q.done = txn[slot].done /\ q.late = txn[slot].late
      /\ q.audit = "reverted" /\ q.out = txn[slot].out
  BY RecType DEF TxnRec
<1>2. /\ r.done /\ r.late = txn[slot].late
      /\ r.audit = txn[slot].audit /\ r.out = txn[slot].out
  BY RecType DEF TxnRec
<1>3. (txn[slot].done /\ Mark(slot, q)) \/ (~txn[slot].done /\ Mark(slot, r))
  BY DEF AskRevert
<1> HIDE DEF q, r
<1> QED BY <1>1, <1>2, <1>3, MarkEffect

LEMMA RestoreEndEffect ==
  ASSUME TypeOK, RestoreEnd, cur \in Txns
  PROVE  /\ Others(cur) /\ txn'[cur].done = txn[cur].done
         /\ txn[cur].late => txn'[cur].late
         /\ txn'[cur].out \in {"reverted", "revertFailed"}
         /\ txn'[cur].out = "reverted" => at = NBatch /\ Got("ack")
         /\ txn'[cur].audit = txn[cur].audit
<1> DEFINE n == NoteLate(txn[cur])
           q == [txn[cur] EXCEPT !.out = "reverted", !.doneCh = TRUE]
           r == [n EXCEPT !.out = "revertFailed", !.doneCh = TRUE]
<1>1. n \in TxnRec /\ n.audit = txn[cur].audit /\ n.done = txn[cur].done
      /\ n.late = (txn[cur].late \/ toHost' = toHost)
  BY RecType, NoteLateEffect
<1>2. (at = NBatch /\ Got("ack") /\ Mark(cur, q)) \/ Mark(cur, r)
  BY DEF RestoreEnd
<1>3. /\ q.done = txn[cur].done /\ q.late = txn[cur].late
      /\ q.audit = txn[cur].audit /\ q.out = "reverted"
  BY RecType DEF TxnRec
<1> HIDE DEF n
<1>4. /\ r.done = txn[cur].done /\ r.late = n.late
      /\ r.audit = txn[cur].audit /\ r.out = "revertFailed"
  BY <1>1 DEF TxnRec
<1> HIDE DEF q, r
<1> QED BY <1>1, <1>2, <1>3, <1>4, MarkEffect

LEMMA RestoreReturnEffect ==
  ASSUME TypeOK, RestoreReturn, cur \in Txns
  PROVE  /\ Others(cur) /\ txn'[cur].done = txn[cur].done
         /\ txn'[cur].late = txn[cur].late /\ txn'[cur].out = txn[cur].out
         /\ txn'[cur].audit \in {"reverted", txn[cur].audit}
         /\ by = "apply" => txn'[cur].audit = "reverted"
<1> DEFINE r == [txn[cur] EXCEPT !.revCh = TRUE,
                !.audit = IF (by = "settle" /\ txn[cur].out = "reverted") \/ by = "apply"
                          THEN "reverted" ELSE txn[cur].audit]
<1>1. r.done = txn[cur].done /\ r.late = txn[cur].late /\ r.audit = (IF (by = "settle" /\ txn[cur].out = "reverted") \/ by = "apply"
                   THEN "reverted" ELSE txn[cur].audit) /\ r.out = txn[cur].out
  BY RecType DEF TxnRec
<1>2. Mark(cur, r)
  BY DEF RestoreReturn
<1> HIDE DEF r
<1> QED BY <1>1, <1>2, MarkEffect

LEMMA WatchEffect ==
  ASSUME TypeOK, NEW t \in Txns, Watch(t)
  PROVE  /\ Others(t) /\ txn'[t].done = txn[t].done
         /\ txn'[t].late = txn[t].late /\ txn'[t].out = txn[t].out
         /\ txn'[t].audit \in {"reverted", txn[t].audit}
         /\ slot # t => txn'[t].audit = txn[t].audit
<1> DEFINE r == [txn[t] EXCEPT !.watch = FALSE,
                !.audit = IF slot = t /\ txn[t].revCh THEN "reverted" ELSE txn[t].audit]
<1>1. r.done = txn[t].done /\ r.late = txn[t].late /\ r.audit = (IF slot = t /\ txn[t].revCh THEN "reverted" ELSE txn[t].audit) /\ r.out = txn[t].out
  BY RecType DEF TxnRec
<1>2. Mark(t, r)
  BY DEF Watch
<1> HIDE DEF r
<1> QED BY <1>1, <1>2, MarkEffect

LEMMA ForgetEffect ==
  ASSUME TypeOK, Forget, NEW t \in Txns
  PROVE  Untouched(t)
BY RecType DEF Forget, TxnRec, Untouched

-----------------------------------------------------------------------------
(***************************************************************************)
(* Where a transaction is                                                  *)
(*                                                                         *)
(* PhaseInv says which locks, which slot and which outcome go with each    *)
(* step of a conversation.                                                 *)
(***************************************************************************)
Applying == {"hello", "snap", "write", "verify"}

Fresh(t) == /\ ~txn[t].done /\ ~txn[t].late
            /\ txn[t].audit = "none" /\ txn[t].out = "none"

\* a transaction that has not begun, or whose values are not verified yet
FreshInv ==
  /\ \A t \in Txns : t > cur => Fresh(t)
  /\ act \in Applying => Fresh(cur)

\* who holds receiverMu, and for what
LockInv ==
  /\ act \in Applying => by = "apply" /\ rmu = "apply"
  /\ act = "commit" => by = "settle" /\ rmu = "settle"
  /\ act \in {"restore", "close"} =>
       /\ by \in {"apply", "settle", "timer"}
       /\ by = "apply" => rmu = "apply" /\ slot = 0
       /\ by = "settle" => rmu = "settle"
       /\ by = "timer" => rmu # "apply"
  /\ rmu = "settle" => slot # 0
  /\ rmu = "apply" => act # "idle" /\ by = "apply"

\* where an outcome can be
OutInv ==
  /\ \A t \in Txns : txn[t].out \in {"committed", "reverted", "revertFailed"} => txn[t].done
  /\ act = "commit" => slot # 0 /\ ~txn[cur].done
  /\ act = "restore" => txn[cur].out = "none"
  /\ cur # 0 => /\ txn[cur].out = "committed" => act = "idle" /\ slot = 0
                /\ txn[cur].out = "reverted" => act \in {"idle", "close"}
  /\ slot # 0 => txn[cur].audit # "none"
  /\ slot # 0 /\ ~txn[cur].done => act \in {"idle", "commit"} /\ txn[cur].out = "none"

PhaseInv == LiveInv /\ FreshInv /\ LockInv /\ OutInv

\* Every step keeps PhaseInv.
LEMMA PhaseStep == ASSUME PhaseInv, [Next]_vars PROVE PhaseInv'
<1>1. TypeOK /\ LiveInv /\ LiveInv' /\ cur \in Ver /\ slot \in Ver
  BY LiveStep DEF PhaseInv, LiveInv, TypeOK
<1>2. /\ cur # 0 => cur \in Txns
      /\ slot # 0 => slot = cur /\ slot \in Txns
      /\ act # "idle" => cur \in Txns
      /\ act \in Applying => slot = 0
      /\ act \in {"restore", "close"} => txn[cur].done
      /\ 0 \notin Txns
  BY <1>1, RxAssumption DEF Ver, Txns, LiveInv, Applying
<1>3. FreshInv /\ LockInv /\ OutInv
  BY DEF PhaseInv
<1>4. CASE UNCHANGED txn /\ (DeviceStep \/ Lose \/ Skip \/ RestartFails \/ PowerCycle)
  BY <1>1, <1>2, <1>3, <1>4
  DEF DeviceStep, Lose, Skip, RestartFails, PowerCycle, PhaseInv, FreshInv, LockInv, OutInv, Applying, Fresh
<1>5. CASE BeginApply
  <2>1. /\ cur + 1 \in Txns /\ cur' = cur + 1 /\ cur + 1 > cur
        /\ act = "idle" /\ slot = 0 /\ act' = "hello" /\ by' = "apply" /\ rmu' = "apply"
        /\ slot' = slot
    BY <1>1, <1>5, RxAssumption DEF BeginApply, Ask, Ver, Txns
  <2>2. \A u \in Txns : Untouched(u)
    BY <1>1, <1>5, BeginApplyEffect
  <2>3. \A t \in Txns : t > cur + 1 => t > cur
    BY <1>1 DEF Ver, Txns
  <2>4. FreshInv'
    BY <1>3, <2>1, <2>2, <2>3 DEF Untouched, FreshInv, Applying, Fresh
  <2>5. LockInv'
    BY <2>1 DEF LockInv, Applying
  <2>6. Fresh(cur + 1) /\ txn'[cur + 1].out = "none"
    BY <1>3, <2>1, <2>2 DEF FreshInv, Fresh, Untouched
  <2>7. OutInv'
    BY <1>3, <2>1, <2>2, <2>6 DEF Untouched, OutInv, Applying, Fresh
  <2> QED BY <1>1, <2>4, <2>5, <2>7 DEF PhaseInv
<1>6. CASE HelloOK \/ ReadNext \/ SnapOK \/ WriteOK \/ VerifyRetry
  BY <1>1, <1>2, <1>3, <1>6
  DEF HelloOK, ReadNext, SnapOK, WriteOK, BadRead, VerifyRetry, Ask, PhaseInv, FreshInv, LockInv, OutInv,
      Applying, Fresh
<1>7. CASE CommitNext \/ RestoreNext
  BY <1>1, <1>2, <1>3, <1>7 DEF CommitNext, RestoreNext, Ask, PhaseInv, FreshInv, LockInv, OutInv, Applying, Fresh
<1>8. CASE KeepStart
  <2>1. slot \in Txns /\ slot = cur /\ rmu = "none" /\ rmu' = "settle" /\ UNCHANGED <<act, by, slot, cur>>
    BY <1>2, <1>8 DEF KeepStart
  <2>2. \A u \in Txns : Untouched(u)
    BY <1>1, <1>8, <2>1, KeepStartEffect
  <2>3. FreshInv'
    BY <1>2, <1>3, <2>1, <2>2 DEF Untouched, FreshInv, Applying, Fresh
  <2>4. LockInv' /\ OutInv'
    BY <1>2, <1>3, <2>1, <2>2 DEF Untouched, LockInv, OutInv, Applying
  <2> QED BY <1>1, <2>3, <2>4 DEF PhaseInv
<1>9. CASE KeepRefused
  <2>1. /\ slot \in Txns /\ slot = cur /\ act = "idle" /\ rmu = "settle" /\ rmu' = "none"
        /\ UNCHANGED <<act, by, slot, cur>>
    BY <1>2, <1>9 DEF KeepRefused, Keeping
  <2>2. \A u \in Txns : Untouched(u)
    BY <1>1, <1>9, <2>1, KeepRefusedEffect
  <2>3. FreshInv'
    BY <1>2, <1>3, <2>1, <2>2 DEF Untouched, FreshInv, Applying, Fresh
  <2>4. LockInv' /\ OutInv'
    BY <1>2, <1>3, <2>1, <2>2 DEF Untouched, LockInv, OutInv, Applying
  <2> QED BY <1>1, <2>3, <2>4 DEF PhaseInv
<1>10. CASE Refuse
  <2>1. cur \in Txns
    BY <1>1, <1>2, <1>3, <1>10 DEF Refuse, Keeping, LiveInv, OutInv
  <2>2. /\ Others(cur) /\ txn'[cur].done = txn[cur].done
        /\ txn'[cur].late = txn[cur].late /\ txn'[cur].out = "refused"
        /\ txn'[cur].audit = IF act = "snap" THEN "reverted" ELSE txn[cur].audit
    BY <1>1, <1>10, <2>1, RefuseEffect
  <2>3. act \in {"hello", "snap"}
        /\ act' = "idle"
        /\ by' = "none"
        /\ rmu' = "none"
        /\ UNCHANGED <<slot, cur>>
    BY <1>10, <2>1 DEF Refuse, Ask, Rest
  <2>4. FreshInv'
    BY <1>2, <1>3, <2>1, <2>2, <2>3 DEF Others, Untouched, FreshInv, Applying, Fresh, Txns
  <2>5. LockInv'
    BY <1>2, <1>3, <2>1, <2>3 DEF LockInv, OutInv, Applying
  <2>6. OutInv'
    BY <1>2, <1>3, <2>1, <2>2, <2>3 DEF Others, Untouched, FreshInv, LockInv, OutInv, Applying, Fresh
  <2> QED BY <1>1, <2>4, <2>5, <2>6 DEF PhaseInv
<1>11. CASE WriteFailed
  <2>1. cur \in Txns
    BY <1>1, <1>2, <1>3, <1>11 DEF WriteFailed, Keeping, LiveInv, OutInv
  <2>2. /\ Others(cur) /\ txn'[cur].done
        /\ txn'[cur].late = (txn[cur].late \/ toHost' = toHost)
        /\ txn'[cur].out = txn[cur].out /\ txn'[cur].audit = txn[cur].audit
    BY <1>1, <1>11, <2>1, WriteFailedEffect
  <2>3. act = "write"
        /\ act' = "restore"
        /\ by' = "apply"
        /\ UNCHANGED <<slot, cur, rmu>>
    BY <1>11, <2>1 DEF WriteFailed, Ask, Rest
  <2>4. FreshInv'
    BY <1>2, <1>3, <2>1, <2>2, <2>3 DEF Others, Untouched, FreshInv, Applying, Fresh, Txns
  <2>5. LockInv'
    BY <1>2, <1>3, <2>1, <2>3 DEF LockInv, OutInv, Applying
  <2>6. OutInv'
    BY <1>2, <1>3, <2>1, <2>2, <2>3 DEF Others, Untouched, FreshInv, LockInv, OutInv, Applying, Fresh
  <2> QED BY <1>1, <2>4, <2>5, <2>6 DEF PhaseInv
<1>12. CASE VerifyFailed
  <2>1. cur \in Txns
    BY <1>2, <1>12 DEF VerifyFailed, Verified, BadRead
  <2>2. /\ Others(cur) /\ txn'[cur].done
        /\ txn'[cur].late = txn[cur].late
        /\ txn'[cur].out = txn[cur].out /\ txn'[cur].audit = txn[cur].audit
    BY <1>1, <1>12, <2>1, VerifyFailedEffect
  <2>3. act = "verify"
        /\ act' = "restore"
        /\ by' = "apply"
        /\ UNCHANGED <<slot, cur, rmu>>
    BY <1>12, <2>1 DEF VerifyFailed, BadRead, Ask
  <2>4. FreshInv'
    BY <1>2, <1>3, <2>1, <2>2, <2>3 DEF Others, Untouched, FreshInv, Applying, Fresh, Txns
  <2>5. LockInv'
    BY <1>2, <1>3, <2>1, <2>3 DEF LockInv, OutInv, Applying
  <2>6. OutInv'
    BY <1>2, <1>3, <2>1, <2>2, <2>3 DEF Others, Untouched, FreshInv, LockInv, OutInv, Applying, Fresh
  <2> QED BY <1>1, <2>4, <2>5, <2>6 DEF PhaseInv
<1>13. CASE VerifyOK
  <2>1. cur \in Txns
    BY <1>2, <1>13 DEF VerifyOK, Verified, BadRead
  <2>2. /\ Others(cur) /\ txn'[cur].done = txn[cur].done
        /\ txn'[cur].late = txn[cur].late
        /\ txn'[cur].out = txn[cur].out /\ txn'[cur].audit = "awaiting"
    BY <1>1, <1>13, <2>1, VerifyOKEffect
  <2>3. act = "verify"
        /\ act' = "idle"
        /\ by' = "none"
        /\ rmu' = "none"
        /\ slot' = cur
        /\ cur' = cur
    BY <1>13, <2>1 DEF VerifyOK, Verified, Rest
  <2>4. FreshInv'
    BY <1>2, <1>3, <2>1, <2>2, <2>3 DEF Others, Untouched, FreshInv, Applying, Fresh, Txns
  <2>5. LockInv'
    BY <1>2, <1>3, <2>1, <2>3 DEF LockInv, OutInv, Applying
  <2>6. OutInv'
    BY <1>2, <1>3, <2>1, <2>2, <2>3 DEF Others, Untouched, FreshInv, LockInv, OutInv, Applying, Fresh
  <2> QED BY <1>1, <2>4, <2>5, <2>6 DEF PhaseInv
<1>14. CASE CommitStart
  <2>1. cur \in Txns /\ slot = cur
    BY <1>1, <1>2, <1>3, <1>14 DEF CommitStart, Keeping, LiveInv, OutInv
  <2>2. \A u \in Txns : Untouched(u)
    BY <1>14 DEF CommitStart, Untouched
  <2>3. act = "idle"
        /\ rmu = "settle"
        /\ act' = "commit"
        /\ by' = "settle"
        /\ UNCHANGED <<slot, cur, rmu>>
        /\ ~txn[cur].done
    BY <1>14, <2>1 DEF CommitStart, Keeping, Ask
  <2>4. FreshInv'
    BY <1>2, <1>3, <2>1, <2>2, <2>3 DEF Others, Untouched, FreshInv, Applying, Fresh, Txns
  <2>5. LockInv'
    BY <1>2, <1>3, <2>1, <2>3 DEF LockInv, OutInv, Applying
  <2>6. OutInv'
    BY <1>2, <1>3, <2>1, <2>2, <2>3 DEF Others, Untouched, FreshInv, LockInv, OutInv, Applying, Fresh
  <2> QED BY <1>1, <2>4, <2>5, <2>6 DEF PhaseInv
<1>15. CASE CommitOK
  <2>1. cur \in Txns /\ slot = cur
    BY <1>1, <1>2, <1>3, <1>15 DEF CommitOK, Keeping, LiveInv, OutInv
  <2>2. /\ Others(slot) /\ txn'[slot].done
        /\ txn'[slot].late = txn[slot].late
        /\ txn'[slot].out = "committed" /\ txn'[slot].audit = txn[slot].audit
    BY <1>1, <1>15, <2>1, CommitOKEffect
  <2>3. act = "commit"
        /\ act' = "idle"
        /\ by' = "none"
        /\ rmu' = "none"
        /\ slot' = 0
        /\ cur' = cur
    BY <1>15, <2>1 DEF CommitOK, Ask, Rest
  <2>4. FreshInv'
    BY <1>2, <1>3, <2>1, <2>2, <2>3 DEF Others, Untouched, FreshInv, Applying, Fresh, Txns
  <2>5. LockInv'
    BY <1>2, <1>3, <2>1, <2>3 DEF LockInv, OutInv, Applying
  <2>6. OutInv'
    BY <1>2, <1>3, <2>1, <2>2, <2>3 DEF Others, Untouched, FreshInv, LockInv, OutInv, Applying, Fresh
  <2> QED BY <1>1, <2>4, <2>5, <2>6 DEF PhaseInv
<1>16. CASE CommitFailed
  <2>1. cur \in Txns /\ slot = cur
    BY <1>1, <1>2, <1>3, <1>16 DEF CommitFailed, Keeping, LiveInv, OutInv
  <2>2. /\ Others(slot) /\ txn'[slot].done = txn[slot].done
        /\ txn'[slot].late = (txn[slot].late \/ toHost' = toHost)
        /\ txn'[slot].out = txn[slot].out /\ txn'[slot].audit = txn[slot].audit
    BY <1>1, <1>16, <2>1, CommitFailedEffect
  <2>3. act = "commit"
        /\ act' = "idle"
        /\ by' = "none"
        /\ rmu' = "none"
        /\ UNCHANGED <<slot, cur>>
    BY <1>16, <2>1 DEF CommitFailed, Ask, Rest
  <2>4. FreshInv'
    BY <1>2, <1>3, <2>1, <2>2, <2>3 DEF Others, Untouched, FreshInv, Applying, Fresh, Txns
  <2>5. LockInv'
    BY <1>2, <1>3, <2>1, <2>3 DEF LockInv, OutInv, Applying
  <2>6. OutInv'
    BY <1>2, <1>3, <2>1, <2>2, <2>3 DEF Others, Untouched, FreshInv, LockInv, OutInv, Applying, Fresh
  <2> QED BY <1>1, <2>4, <2>5, <2>6 DEF PhaseInv
<1>17. CASE AskRevert
  <2>1. cur \in Txns /\ slot = cur
    BY <1>1, <1>2, <1>3, <1>17 DEF AskRevert, Keeping, LiveInv, OutInv
  <2>2. /\ Others(slot) /\ txn'[slot].done
        /\ txn'[slot].late = txn[slot].late
        /\ txn'[slot].out = txn[slot].out
        /\ txn'[slot].audit = IF txn[slot].done THEN "reverted" ELSE txn[slot].audit
    BY <1>1, <1>17, <2>1, AskRevertEffect
  <2>3. act = "idle" /\ rmu = "none" /\ cur' = cur /\ (IF txn[cur].done THEN slot' = 0 /\ UNCHANGED <<act, by, rmu>> ELSE slot' = slot /\ act' = "restore" /\ by' = "settle" /\ rmu' = "settle")
    BY <1>17, <2>1 DEF AskRevert, Ask, Rest
  <2>4. FreshInv'
    BY <1>2, <1>3, <2>1, <2>2, <2>3 DEF Others, Untouched, FreshInv, Applying, Fresh, Txns
  <2>5. LockInv'
    BY <1>2, <1>3, <2>1, <2>3 DEF LockInv, OutInv, Applying
  <2>6. OutInv'
    BY <1>2, <1>3, <2>1, <2>2, <2>3 DEF Others, Untouched, FreshInv, LockInv, OutInv, Applying, Fresh
  <2> QED BY <1>1, <2>4, <2>5, <2>6 DEF PhaseInv
<1>18. CASE RestoreEnd
  <2>1. cur \in Txns
    BY <1>1, <1>2, <1>3, <1>18 DEF RestoreEnd, Keeping, LiveInv, OutInv
  <2>2. /\ Others(cur) /\ txn'[cur].done = txn[cur].done
        /\ txn[cur].late => txn'[cur].late
        /\ txn'[cur].out \in {"reverted", "revertFailed"}
        /\ txn'[cur].out = "reverted" => at = NBatch /\ Got("ack")
        /\ txn'[cur].audit = txn[cur].audit
    BY <1>1, <1>18, <2>1, RestoreEndEffect
  <2>3. act = "restore"
        /\ act' = "close"
        /\ UNCHANGED <<by, slot, cur, rmu>>
    BY <1>18, <2>1 DEF RestoreEnd, Ask, Rest
  <2>4. FreshInv'
    BY <1>2, <1>3, <2>1, <2>2, <2>3 DEF Others, Untouched, FreshInv, Applying, Fresh, Txns
  <2>5. LockInv'
    BY <1>2, <1>3, <2>1, <2>3 DEF LockInv, OutInv, Applying
  <2>6. OutInv'
    BY <1>2, <1>3, <2>1, <2>2, <2>3 DEF Others, Untouched, FreshInv, LockInv, OutInv, Applying, Fresh
  <2> QED BY <1>1, <2>4, <2>5, <2>6 DEF PhaseInv
<1>19. CASE RestoreReturn
  <2>1. cur \in Txns
    BY <1>1, <1>2, <1>3, <1>19 DEF RestoreReturn, Keeping, LiveInv, OutInv
  <2>2. /\ Others(cur) /\ txn'[cur].done = txn[cur].done
        /\ txn'[cur].late = txn[cur].late /\ txn'[cur].out = txn[cur].out
        /\ txn'[cur].audit \in {"reverted", txn[cur].audit}
        /\ by = "apply" => txn'[cur].audit = "reverted"
    BY <1>1, <1>19, <2>1, RestoreReturnEffect
  <2>3. act = "close" /\ act' = "idle" /\ by' = "none" /\ cur' = cur /\ rmu' = (IF by = "timer" THEN rmu ELSE "none") /\ slot' = (IF by = "settle" /\ txn[cur].out = "reverted" THEN 0 ELSE slot)
    BY <1>19, <2>1 DEF RestoreReturn, Ask, Rest
  <2>4. FreshInv'
    BY <1>2, <1>3, <2>1, <2>2, <2>3 DEF Others, Untouched, FreshInv, Applying, Fresh, Txns
  <2>5. LockInv'
    BY <1>2, <1>3, <2>1, <2>3 DEF LockInv, OutInv, Applying
  <2>6. OutInv'
    BY <1>2, <1>3, <2>1, <2>2, <2>3 DEF Others, Untouched, FreshInv, LockInv, OutInv, Applying, Fresh
  <2> QED BY <1>1, <2>4, <2>5, <2>6 DEF PhaseInv
<1>20. ASSUME NEW t \in Txns, TimerFires(t) PROVE PhaseInv'
  <2>1. \A u \in Txns : Untouched(u)
    BY <1>1, <1>20, TimerFiresEffect
  <2>2. UNCHANGED <<act, by, rmu, slot, cur>>
    BY <1>20 DEF TimerFires
  <2>3. FreshInv'
    BY <1>2, <1>3, <2>1, <2>2 DEF Untouched, FreshInv, Applying, Fresh
  <2>4. LockInv' /\ OutInv'
    BY <1>2, <1>3, <2>1, <2>2 DEF Untouched, LockInv, OutInv, Applying
  <2> QED BY <1>1, <2>3, <2>4 DEF PhaseInv
<1>21. ASSUME NEW t \in Txns, TimerRevert(t) PROVE PhaseInv'
  <2>1. /\ Others(t) /\ txn'[t].done /\ txn'[t].late = txn[t].late
        /\ txn'[t].out = txn[t].out /\ txn'[t].audit = txn[t].audit
    BY <1>1, <1>21, TimerRevertEffect
  <2>2. CASE txn[t].done
    <3>1. UNCHANGED <<act, by, rmu, slot, cur>>
      BY <1>21, <2>2 DEF TimerRevert
    <3>2. FreshInv'
      BY <1>2, <1>3, <2>1, <2>2, <3>1 DEF Others, Untouched, FreshInv, Applying, Fresh, Txns
    <3>3. LockInv' /\ OutInv'
      BY <1>2, <1>3, <2>1, <2>2, <3>1 DEF Others, Untouched, LockInv, OutInv, Applying
    <3> QED BY <1>1, <3>2, <3>3 DEF PhaseInv
  <2>3. CASE ~txn[t].done
    <3>1. t = cur /\ slot = cur
      BY <1>1, <1>2, <1>21, <2>3 DEF TimerRevert, LiveInv
    <3>2. /\ act = "idle" /\ act' = "restore" /\ by' = "timer"
          /\ UNCHANGED <<rmu, slot, cur>>
      BY <1>21, <2>3 DEF TimerRevert, Ask
    <3>3. txn[cur].out = "none"
      BY <1>1, <1>2, <1>3, <2>3, <3>1, <3>2 DEF OutInv
    <3>4. FreshInv'
      BY <1>2, <1>3, <2>1, <3>1, <3>2 DEF Others, Untouched, FreshInv, Applying, Fresh, Txns
    <3>5. LockInv'
      BY <1>2, <1>3, <3>1, <3>2 DEF LockInv, Applying
    <3>6. OutInv'
      BY <1>2, <1>3, <2>1, <3>1, <3>2, <3>3 DEF Others, Untouched, OutInv, Applying
    <3> QED BY <1>1, <3>4, <3>5, <3>6 DEF PhaseInv
  <2> QED BY <2>2, <2>3
<1>22. ASSUME NEW t \in Txns, Watch(t) PROVE PhaseInv'
  <2>1. /\ Others(t) /\ txn'[t].done = txn[t].done /\ txn'[t].late = txn[t].late
        /\ txn'[t].out = txn[t].out
        /\ txn'[t].audit \in {"reverted", txn[t].audit}
        /\ slot # t => txn'[t].audit = txn[t].audit
    BY <1>1, <1>22, WatchEffect
  <2>2. /\ UNCHANGED <<act, by, rmu, cur>> /\ rmu = "none"
        /\ slot' = (IF slot = t THEN 0 ELSE slot) /\ txn[t].done
    BY <1>1, <1>22 DEF Watch, LiveInv
  <2>3. FreshInv'
    BY <1>2, <1>3, <2>1, <2>2 DEF Others, Untouched, FreshInv, Applying, Fresh, Txns
  <2>4. LockInv'
    BY <1>2, <1>3, <2>2 DEF LockInv, Applying
  <2>5. OutInv'
    BY <1>2, <1>3, <2>1, <2>2 DEF Others, Untouched, OutInv, Applying
  <2> QED BY <1>1, <2>3, <2>4, <2>5 DEF PhaseInv
<1>23. CASE Forget
  <2>1. \A u \in Txns : Untouched(u)
    BY <1>1, <1>23, ForgetEffect
  <2>2. act' = "idle" /\ by' = "none" /\ slot' = 0 /\ rmu' = "none" /\ cur' = cur
    BY <1>23 DEF Forget, Rest
  <2>3. FreshInv'
    BY <1>2, <1>3, <2>1, <2>2 DEF Untouched, FreshInv, Applying, Fresh
  <2>4. LockInv' /\ OutInv'
    BY <1>2, <1>3, <2>1, <2>2 DEF Untouched, LockInv, OutInv, Applying
  <2> QED BY <1>1, <2>3, <2>4 DEF PhaseInv
<1>24. CASE UNCHANGED vars
  BY <1>1, <1>2, <1>3, <1>24 DEF vars, PhaseInv, FreshInv, LockInv, OutInv, Applying, Fresh
<1> QED
  BY <1>4, <1>5, <1>6, <1>7, <1>8, <1>9, <1>10, <1>11, <1>12, <1>13, <1>14, <1>15, <1>16, <1>17, <1>18, <1>19, <1>20, <1>21, <1>22, <1>23, <1>24
  DEF Next, Conversation, Crash, Restart, DeviceStep, Lose, Skip, RestartFails, PowerCycle

-----------------------------------------------------------------------------
(***************************************************************************)
(* The configuration follows what was kept                                 *)
(*                                                                         *)
(* While Keep is under way the configuration is the copy the change began  *)
(* with, and the change; at every other moment its entries are of changes  *)
(* that were kept, or whose roll back did not happen.  The copy is what    *)
(* was loaded at startup, so a kept change it misses is Overwritten.       *)
(***************************************************************************)
Named(c) == \A k \in Setting : c[k] # 0 => c[k] \in Kept \/ txn[c[k]].cut

Covered == \A t \in Kept \ Plain : t <= cfg[Of(t)] \/ Overwritten(t)

Saving == Keeping /\ slot \notin Plain

CfgInv ==
  /\ Covered
  /\ Named(bootCfg)
  /\ ~Saving => Named(cfg)
  /\ Saving => cfg = [txn[slot].base EXCEPT ![Of(slot)] = slot]
  /\ Keeping => txn[slot].tried
  /\ slot # 0 \/ rmu = "apply" => txn[cur].base = bootCfg
  /\ \A t \in Txns : txn[t].tried => t <= cur

\* A failed wait changes nothing but the replies and the fault count.
LEMMA FailedSame == ASSUME Failed PROVE UNCHANGED <<ram, flash, resets>>
BY DEF Failed, Got, TimedOut

\* Only a Commit that succeeds adds to the changes kept, and none is forgotten.
LEMMA KeptStep ==
  ASSUME PhaseInv, [Next]_vars
  PROVE  Kept' = Kept \/ (CommitOK /\ slot = cur /\ slot \in Txns /\ Kept' = Kept \cup {slot})
<1>1. TypeOK /\ LiveInv /\ FreshInv /\ OutInv
  BY DEF PhaseInv, LiveInv
<1>2. /\ cur # 0 => cur \in Txns
      /\ slot # 0 => slot = cur /\ slot \in Txns
      /\ act # "idle" => cur \in Txns
  BY <1>1, RxAssumption DEF Ver, Txns, LiveInv, TypeOK
<1>3. ASSUME \A t \in Txns : txn'[t].out = "committed" <=> txn[t].out = "committed" PROVE Kept' = Kept
  BY <1>3 DEF Kept
<1>4. CASE UNCHANGED txn
  BY <1>3, <1>4
<1>5. CASE Refuse
  <2>1. cur \in Txns /\ txn[cur].out = "none"
    BY <1>1, <1>2, <1>5 DEF Refuse, FreshInv, Applying, Fresh
  <2> QED BY <1>1, <1>3, <1>5, <2>1, RefuseEffect DEF Others, Untouched
<1>6. CASE WriteFailed
  <2>1. cur \in Txns
    BY <1>2, <1>6 DEF WriteFailed
  <2> QED BY <1>1, <1>3, <1>6, <2>1, WriteFailedEffect DEF Others, Untouched
<1>7. CASE VerifyFailed
  <2>1. cur \in Txns
    BY <1>2, <1>7 DEF VerifyFailed, BadRead
  <2> QED BY <1>1, <1>3, <1>7, <2>1, VerifyFailedEffect DEF Others, Untouched
<1>8. CASE VerifyOK
  <2>1. cur \in Txns
    BY <1>2, <1>8 DEF VerifyOK, Verified
  <2> QED BY <1>1, <1>3, <1>8, <2>1, VerifyOKEffect DEF Others, Untouched
<1>9. CASE RestoreReturn
  <2>1. cur \in Txns
    BY <1>2, <1>9 DEF RestoreReturn
  <2> QED BY <1>1, <1>3, <1>9, <2>1, RestoreReturnEffect DEF Others, Untouched
<1>10. CASE CommitFailed
  <2>1. slot \in Txns
    BY <1>1, <1>2, <1>10 DEF CommitFailed, OutInv
  <2> QED BY <1>1, <1>3, <1>10, <2>1, CommitFailedEffect DEF Others, Untouched
<1>11. CASE AskRevert
  <2>1. slot \in Txns
    BY <1>1, <1>2, <1>11 DEF AskRevert, OutInv
  <2> QED BY <1>1, <1>3, <1>11, <2>1, AskRevertEffect DEF Others, Untouched
<1>12. CASE BeginApply \/ KeepStart \/ KeepRefused
  <2>1. KeepStart \/ KeepRefused => slot \in Txns
    BY <1>2 DEF KeepStart, KeepRefused, Keeping
  <2> QED BY <1>1, <1>3, <1>12, <2>1, BeginApplyEffect, KeepStartEffect, KeepRefusedEffect DEF Untouched
<1>13. CASE RestoreEnd
  <2>1. cur \in Txns /\ txn[cur].out = "none"
    BY <1>1, <1>2, <1>13 DEF RestoreEnd, OutInv
  <2> QED BY <1>1, <1>3, <1>13, <2>1, RestoreEndEffect DEF Others, Untouched
<1>14. CASE CommitOK
  <2>1. slot \in Txns /\ slot = cur
    BY <1>1, <1>2, <1>14 DEF CommitOK, OutInv
  <2>2. txn'[slot].out = "committed" /\ Others(slot)
    BY <1>1, <1>14, <2>1, CommitOKEffect
  <2> QED BY <1>14, <2>1, <2>2 DEF Others, Untouched, Kept
<1>15. ASSUME NEW t \in Txns, TimerFires(t) \/ TimerRevert(t) \/ Watch(t) PROVE Kept' = Kept
  BY <1>1, <1>3, <1>15, TimerFiresEffect, TimerRevertEffect, WatchEffect DEF Others, Untouched
<1>16. CASE Forget
  BY <1>1, <1>3, <1>16, ForgetEffect DEF Untouched
<1> QED
  BY <1>4, <1>5, <1>6, <1>7, <1>8, <1>9, <1>10, <1>11, <1>12, <1>13, <1>14, <1>15, <1>16
  DEF Next, Conversation, DeviceStep, Lose, Skip, HelloOK, ReadNext, SnapOK, WriteOK,
      VerifyRetry, CommitStart, CommitNext, RestoreNext, Crash, Restart, RestartFails,
      PowerCycle, vars

\* What names a kept change, or one cut off, goes on naming one.
LEMMA NamedStays ==
  ASSUME PhaseInv, [Next]_vars, NEW c \in Config, Named(c)
  PROVE  \A k \in Setting : c[k] # 0 => c[k] \in Kept' \/ txn'[c[k]].cut
<1>1. Lasting /\ Kept \subseteq Kept'
  BY LastingStep, KeptStep DEF PhaseInv, LiveInv
<1>2. \A k \in Setting : c[k] # 0 => c[k] \in Txns
  BY RxAssumption DEF Config, Ver, Txns
<1> QED BY <1>1, <1>2 DEF Named, Lasting

\* A change once overwritten stays so.
LEMMA OverwrittenStays ==
  ASSUME PhaseInv, CfgInv, [Next]_vars, NEW t \in Txns, Overwritten(t)
  PROVE  Overwritten(t)'
<1>1. Lasting /\ cur \in Nat
  BY LastingStep, RxAssumption DEF PhaseInv, LiveInv, TypeOK, Ver
<1>2. PICK u \in Txns \ Plain : u > t /\ txn[u].tried /\ txn[u].base[Of(t)] < t
  BY DEF Overwritten
<1>3. txn'[u].tried /\ txn'[u].base = txn[u].base
  BY <1>1, <1>2 DEF Lasting, CfgInv, Txns
<1> QED BY <1>2, <1>3 DEF Overwritten

\* Every kept change is earlier than one in the slot.
LEMMA KeptEarlier == ASSUME PhaseInv, slot # 0, NEW t \in Kept PROVE t < slot
<1>1. slot = cur /\ cur \in Txns /\ t \in Txns
  BY RxAssumption DEF PhaseInv, LiveInv, TypeOK, Ver, Txns, Kept
<1>2. t <= cur
  BY <1>1 DEF PhaseInv, FreshInv, Fresh, Kept, Txns
<1>3. t # cur
  BY <1>1 DEF PhaseInv, OutInv, Kept
<1> QED BY <1>1, <1>2, <1>3 DEF Txns

\* A step that does not begin, end or save anything keeps CfgInv.
LEMMA CfgSame ==
  ASSUME PhaseInv, CfgInv, [Next]_vars, Kept' = Kept, UNCHANGED <<cfg, bootCfg, cur>>,
         slot' # 0 \/ rmu' = "apply" => slot # 0 \/ rmu = "apply",
         Keeping' = Keeping, Keeping => slot' = slot
  PROVE  CfgInv'
<1>1. /\ TypeOK /\ Lasting /\ cur \in Nat /\ slot \in Ver
      /\ cfg \in Config /\ bootCfg \in Config
  BY LastingStep, RxAssumption DEF PhaseInv, LiveInv, TypeOK, Ver
<1>2. /\ slot # 0 => slot = cur /\ slot \in Txns
      /\ rmu = "apply" => cur \in Txns
  BY <1>1, RxAssumption DEF PhaseInv, LiveInv, LockInv, Ver, Txns, TypeOK
<1>3. Covered'
  BY OverwrittenStays DEF CfgInv, Covered, Kept
<1>4. Named(bootCfg)' /\ (~Saving => Named(cfg)')
  BY <1>1, NamedStays DEF CfgInv, Named
<1>5. Saving' = Saving
  BY DEF Saving, Keeping
<1>6. cur \in Txns => txn'[cur].base = txn[cur].base
  BY <1>1 DEF Lasting
<1>7. Keeping => slot \in Txns /\ slot = cur
  BY <1>2 DEF Keeping
<1>8. Keeping => txn'[slot].tried /\ txn'[slot].base = txn[slot].base
  BY <1>1, <1>6, <1>7 DEF Lasting, CfgInv
<1>9. \A t \in Txns : txn'[t].tried => t <= cur
  BY <1>1, <1>2 DEF Lasting, CfgInv, KeepStart
<1> QED
  BY <1>2, <1>3, <1>4, <1>5, <1>6, <1>7, <1>8, <1>9 DEF CfgInv, Saving

\* Every step keeps CfgInv.
LEMMA CfgStep == ASSUME PhaseInv, CfgInv, [Next]_vars PROVE CfgInv'
<1>1. /\ TypeOK /\ LiveInv /\ FreshInv /\ LockInv /\ OutInv /\ Lasting
      /\ cur \in Nat /\ slot \in Nat /\ cfg \in Config /\ bootCfg \in Config
  BY LastingStep, RxAssumption DEF PhaseInv, LiveInv, TypeOK, Ver
<1>2. /\ slot # 0 => slot = cur /\ slot \in Txns
      /\ act # "idle" => cur \in Txns
      /\ 0 \notin Txns
  BY <1>1, RxAssumption DEF LiveInv, TypeOK, Ver, Txns
<1>3. /\ \A k \in Setting : bootCfg[k] # 0 => bootCfg[k] \in Kept' \/ txn'[bootCfg[k]].cut
      /\ ~Saving => \A k \in Setting : cfg[k] # 0 => cfg[k] \in Kept' \/ txn'[cfg[k]].cut
      /\ \A t \in Txns : Overwritten(t) => Overwritten(t)'
      /\ \A t \in Txns : txn'[t].tried => t <= cur
  <2>1. \A t \in Txns : txn'[t].tried => t <= cur
    BY <1>1, <1>2 DEF Lasting, CfgInv, KeepStart
  <2> QED BY <1>1, <2>1, NamedStays, OverwrittenStays DEF CfgInv
<1>4. \A t : Of(t) \in Setting
  BY DEF Of, Setting
<1>5. CASE CommitOK
  <2>1. /\ act = "commit" /\ slot' = 0 /\ rmu' = "none" /\ UNCHANGED <<cfg, bootCfg, cur>>
    BY <1>5 DEF CommitOK
  <2>2. slot = cur /\ cur \in Txns /\ slot # 0 /\ Keeping /\ ~Keeping'
    BY <1>1, <1>2, <2>1 DEF OutInv, LockInv, Keeping
  <2>3. Kept' = Kept \cup {slot}
    <3>1. Others(slot) /\ txn'[slot].out = "committed"
      BY <1>1, <1>5, <2>2, CommitOKEffect
    <3> QED BY <2>2, <3>1 DEF Kept, Others, Untouched
  <2>4. slot \notin Plain => cfg[Of(slot)] = slot /\ Named(cfg)'
    <3>1. ASSUME slot \notin Plain PROVE cfg[Of(slot)] = slot /\ Named(cfg)'
      <4>1. cfg = [bootCfg EXCEPT ![Of(slot)] = slot]
        BY <2>2, <3>1 DEF CfgInv, Saving
      <4> QED BY <1>1, <1>3, <1>4, <2>1, <2>3, <4>1 DEF Config, Named
    <3> QED BY <3>1
  <2>5. slot \in Plain => Named(cfg)'
    BY <1>3, <2>1, <2>3 DEF Saving, Named
  <2>6. Covered'
    BY <1>1, <1>3, <2>1, <2>3, <2>4 DEF CfgInv, Covered, Kept
  <2>7. Named(bootCfg)'
    BY <1>3, <2>1 DEF Named
  <2> QED BY <1>3, <2>1, <2>2, <2>4, <2>5, <2>6, <2>7 DEF CfgInv, Saving
<1>6. CASE ~CommitOK
  <2>1. Kept' = Kept
    BY <1>6, KeptStep
  <2>2. CASE DeviceStep \/ Lose \/ Skip \/ PowerCycle \/ RestartFails
    BY <2>1, <2>2, CfgSame DEF DeviceStep, Lose, Skip, PowerCycle, RestartFails, Keeping
  <2>3. CASE BeginApply
    <3>1. /\ slot = 0 /\ slot' = 0 /\ rmu = "none" /\ rmu' = "apply" /\ cur' = cur + 1
          /\ UNCHANGED <<cfg, bootCfg>> /\ cur + 1 \in Txns /\ ~Keeping /\ ~Keeping'
          /\ txn' = [txn EXCEPT ![cur + 1] = [txn[cur + 1] EXCEPT !.base = bootCfg]]
      BY <1>1, <2>3, RxAssumption DEF BeginApply, Mark, Keeping, TypeOK, Ver, Txns
    <3>2. txn'[cur'].base = bootCfg'
      BY <1>1, <3>1, RecType DEF TxnRec, TypeOK
    <3>3. Covered' /\ Named(bootCfg)' /\ Named(cfg)'
      BY <1>3, <2>1, <3>1 DEF CfgInv, Covered, Named, Saving, Kept
    <3>4. \A t \in Txns : txn'[t].tried => t <= cur'
      BY <1>1, <1>3, <3>1 DEF Txns
    <3> QED BY <3>1, <3>2, <3>3, <3>4 DEF CfgInv, Saving
  <2>4. CASE HelloOK \/ ReadNext \/ SnapOK \/ WriteOK
    BY <1>1, <2>1, <2>4, CfgSame
    DEF HelloOK, ReadNext, SnapOK, WriteOK, Ask, LockInv, Applying, Keeping
  <2>5. CASE VerifyRetry \/ WriteFailed \/ VerifyFailed
    BY <1>1, <2>1, <2>5, CfgSame
    DEF VerifyRetry, BadRead, WriteFailed, VerifyFailed, Ask, LockInv, Applying, Keeping
  <2>6. CASE Refuse \/ VerifyOK
    BY <1>1, <2>1, <2>6, CfgSame DEF Refuse, VerifyOK, Verified, Rest, LockInv, Applying, Keeping
  <2>7. CASE CommitNext \/ CommitStart
    BY <1>1, <2>1, <2>7, CfgSame DEF CommitNext, CommitStart, Ask, LockInv, Keeping
  <2>8. CASE RestoreNext \/ RestoreEnd
    BY <1>1, <2>1, <2>8, CfgSame DEF RestoreNext, RestoreEnd, Ask, Keeping
  <2>9. CASE RestoreReturn
    <3>1. by = "apply" => rmu = "apply" /\ slot = 0
      BY <1>1, <2>9 DEF RestoreReturn, LockInv
    <3>2. by \in {"apply", "settle", "timer"} /\ act = "close" /\ (by = "settle" => rmu = "settle")
      BY <1>1, <2>9 DEF RestoreReturn, LockInv
    <3> QED BY <1>1, <2>1, <2>9, <3>1, <3>2, CfgSame DEF RestoreReturn, Rest, Keeping
  <2>10. CASE CommitFailed \/ KeepRefused
    <3>1. /\ Keeping /\ slot' = slot /\ rmu' = "none" /\ UNCHANGED <<bootCfg, cur>> /\ ~Keeping'
          /\ \E r : RollBack(r)
      BY <2>10 DEF CommitFailed, KeepRefused, Keeping
    <3>2. slot = cur /\ slot \in Txns /\ txn[slot].tried /\ txn[slot].base = bootCfg
      BY <1>2, <3>1 DEF CfgInv, Keeping
    <3>3. txn'[cur].base = bootCfg' /\ txn'[slot].tried
      BY <1>1, <3>1, <3>2 DEF Lasting
    <3>4. Named(bootCfg)'
      BY <1>3, <3>1 DEF Named
    <3>5. CASE cfg' = cfg /\ slot \in Plain
      BY <1>3, <2>1, <3>1, <3>2, <3>3, <3>4, <3>5 DEF CfgInv, Covered, Named, Saving, Kept
    <3>6. CASE cfg' = bootCfg /\ slot \notin Plain
      <4>1. ASSUME NEW t \in Kept \ Plain PROVE t <= bootCfg[Of(t)] \/ Overwritten(t)'
        <5>1. t < slot /\ t \in Txns
          BY <3>1, KeptEarlier DEF Keeping, Kept
        <5>2. bootCfg[Of(t)] \in Nat
          BY <1>1, <1>4, RxAssumption DEF Config, Ver
        <5>3. txn'[slot].base = bootCfg
          BY <3>1, <3>2, <3>3
        <5> QED BY <3>2, <3>3, <3>6, <5>1, <5>2, <5>3 DEF Overwritten, Txns
      <4>2. Covered'
        BY <2>1, <3>6, <4>1 DEF Covered
      <4>3. Named(cfg)'
        BY <1>3, <3>6 DEF Named
      <4> QED BY <1>3, <3>1, <3>3, <3>4, <4>2, <4>3 DEF CfgInv, Saving
    <3>7. CASE cfg' = cfg /\ slot \notin Plain /\ txn'[slot].cut
      <4>1. cfg = [bootCfg EXCEPT ![Of(slot)] = slot]
        BY <3>1, <3>2, <3>7 DEF CfgInv, Saving
      <4>2. Named(cfg)'
        BY <1>1, <1>3, <1>4, <3>7, <4>1 DEF Named, Config
      <4>3. Covered'
        BY <1>3, <2>1, <3>7 DEF CfgInv, Covered, Kept
      <4> QED BY <1>3, <3>1, <3>3, <3>4, <4>2, <4>3 DEF CfgInv, Saving
    <3>8. \E r \in TxnRec : RollBack(r)
      <4>1. txn[slot] \in TxnRec /\ NoteLate(txn[slot]) \in TxnRec
        BY <1>1, <3>2, RecType, NoteLateType
      <4> QED BY <2>10, <4>1 DEF CommitFailed, KeepRefused
    <3>9. slot \notin Plain /\ cfg' = cfg => cfg' = bootCfg \/ txn'[slot].cut
      <4>1. PICK r \in TxnRec : RollBack(r)
        BY <3>8
      <4>2. [r EXCEPT !.cut = TRUE].cut
        BY <4>1 DEF TxnRec
      <4> QED BY <1>1, <3>2, <4>1, <4>2 DEF RollBack, Mark, TypeOK
    <3>10. cfg' = cfg \/ (slot \notin Plain /\ cfg' = bootCfg)
      BY <3>2, <3>8 DEF RollBack
    <3> QED BY <3>5, <3>6, <3>7, <3>9, <3>10
  <2>11. CASE KeepStart
    <3>1. /\ slot = cur /\ slot \in Txns /\ rmu = "none" /\ rmu' = "settle"
          /\ UNCHANGED <<slot, cur, bootCfg>> /\ ~Keeping
      BY <1>2, <2>11 DEF KeepStart, Keeping
    <3>2. txn[slot].base = bootCfg /\ txn'[slot].base = bootCfg' /\ txn'[slot].tried
      <4>1. txn[slot].base = bootCfg
        BY <3>1, <1>2 DEF CfgInv
      <4>2. txn' = [txn EXCEPT ![slot] = [txn[slot] EXCEPT !.tried = TRUE]] /\ txn[slot] \in TxnRec
        BY <1>1, <2>11, <3>1, RecType DEF KeepStart, Mark
      <4> QED BY <1>1, <3>1, <4>1, <4>2 DEF TxnRec, TypeOK
    <3>3. Named(bootCfg)'
      BY <1>3, <3>1 DEF Named
    <3>4. CASE slot \in Plain
      BY <1>3, <2>1, <2>11, <3>1, <3>2, <3>3, <3>4 DEF KeepStart, CfgInv, Covered, Named, Saving, Kept
    <3>5. CASE slot \notin Plain
      <4>1. cfg' = [bootCfg EXCEPT ![Of(slot)] = slot]
        BY <2>11, <3>2, <3>5 DEF KeepStart
      <4>2. ASSUME NEW t \in Kept \ Plain PROVE t <= cfg'[Of(t)] \/ Overwritten(t)'
        <5>1. t < slot /\ t \in Txns
          BY <1>2, <3>1, KeptEarlier DEF Kept
        <5>2. bootCfg[Of(t)] \in Nat
          BY <1>1, <1>4, RxAssumption DEF Config, Ver
        <5>3. CASE Of(t) = Of(slot)
          BY <1>1, <1>4, <4>1, <5>1, <5>3 DEF Config, Txns
        <5>4. CASE Of(t) # Of(slot)
          <6>1. cfg'[Of(t)] = bootCfg[Of(t)]
            BY <1>1, <1>4, <4>1, <5>4 DEF Config
          <6> QED BY <3>1, <3>2, <3>5, <5>1, <5>2, <6>1 DEF Overwritten, Txns
        <5> QED BY <5>3, <5>4
      <4>3. Covered'
        BY <2>1, <4>2 DEF Covered
      <4>4. Saving' /\ Keeping' => cfg' = [txn'[slot'].base EXCEPT ![Of(slot')] = slot']
        BY <3>1, <3>2, <4>1
      <4>5. ~Saving' => Named(cfg)'
        <5>1. act \in {"restore", "close"} => by = "timer"
          BY <1>1, <1>2, <3>1 DEF LockInv
        <5>2. act \in {"idle", "commit"} \/ by = "timer"
          BY <1>1, <1>2, <3>1, <5>1 DEF LockInv, LiveInv, TypeOK
        <5> QED BY <1>2, <2>11, <3>1, <3>5, <5>2 DEF KeepStart, Saving, Keeping
      <4> QED BY <1>3, <3>1, <3>2, <3>3, <4>3, <4>4, <4>5 DEF CfgInv, Saving
    <3> QED BY <3>4, <3>5
  <2>12. CASE AskRevert
    BY <1>1, <2>1, <2>12, CfgSame DEF AskRevert, Ask, Keeping
  <2>13. ASSUME NEW t \in Txns, TimerFires(t) \/ TimerRevert(t) PROVE CfgInv'
    BY <1>1, <2>1, <2>13, CfgSame DEF TimerFires, TimerRevert, Ask, Keeping
  <2>14. ASSUME NEW t \in Txns, Watch(t) PROVE CfgInv'
    BY <1>1, <2>1, <2>14, CfgSame DEF Watch, Keeping
  <2>15. CASE Forget
    <3>1. slot' = 0 /\ rmu' = "none" /\ bootCfg' = cfg /\ cfg' = cfg /\ cur' = cur /\ ~Keeping'
      BY <2>15 DEF Forget, Keeping
    <3>2. Named(cfg)'
      <4>1. CASE ~Saving
        BY <1>3, <3>1, <4>1 DEF Named
      <4>2. CASE Saving
        <5>1. /\ cfg = [bootCfg EXCEPT ![Of(slot)] = slot] /\ slot \in Txns /\ slot = cur
              /\ Keeping
          BY <1>2, <4>2 DEF CfgInv, Saving, Keeping
        <5>2. txn'[slot].cut
          <6>1. txn[slot] \in TxnRec
            BY <1>1, <5>1, RecType
          <6>2. txn'[slot] = [txn[slot] EXCEPT !.timer = "off", !.watch = FALSE,
                                !.cut = @ \/ (Keeping /\ slot = slot)]
            BY <2>15, <5>1 DEF Forget
          <6> QED BY <5>1, <6>1, <6>2 DEF TxnRec
        <5> QED BY <1>1, <1>3, <1>4, <3>1, <5>1, <5>2 DEF Named, Config
      <4> QED BY <4>1, <4>2
    <3>3. Covered'
      BY <1>3, <2>1, <3>1 DEF CfgInv, Covered, Kept
    <3> QED BY <1>3, <3>1, <3>2, <3>3 DEF CfgInv, Saving, Named
  <2>16. CASE UNCHANGED vars
    BY <2>1, <2>16, CfgSame DEF vars, Keeping
  <2> QED
    BY <1>6, <2>2, <2>3, <2>4, <2>5, <2>6, <2>7, <2>8, <2>9, <2>10, <2>11, <2>12, <2>13, <2>14,
       <2>15, <2>16
    DEF Next, Conversation, Crash, Restart
<1> QED BY <1>5, <1>6

\* The station ID and the position in the configuration are those last kept,
\* whichever of the timer, Keep, Revert, crash and restart won the race, unless a
\* roll back did not happen or a later change worked on a stale copy (beforeCommit,
\* rollbackCommit, restartSoon).
THEOREM ConfigIsFollowed == Spec => []ConfigFollowsKept
<1>1. Init => PhaseInv /\ CfgInv
  <2>1. ASSUME Init PROVE PhaseInv /\ CfgInv
    <3>1. \A t \in Txns : txn[t] = NoTxn
      BY <2>1 DEF Init
    <3>2. LiveInv /\ FreshInv
      BY <2>1, <3>1, InitType DEF Init, NoTxn, LiveInv, FreshInv, Fresh, Applying
    <3>3. LockInv /\ OutInv
      BY <2>1, <3>1 DEF Init, NoTxn, LockInv, OutInv, Applying
    <3>4. Kept = {} /\ CfgInv
      BY <2>1, <3>1 DEF Init, NoTxn, Kept, CfgInv, Covered, Named, Saving, Keeping
    <3> QED BY <3>2, <3>3, <3>4 DEF PhaseInv
  <2> QED BY <2>1
<1>2. PhaseInv /\ CfgInv /\ [Next]_vars => PhaseInv' /\ CfgInv'
  BY PhaseStep, CfgStep
<1>3. PhaseInv /\ CfgInv => ConfigFollowsKept
  BY DEF CfgInv, Covered, Named, Saving, Keeping, ConfigFollowsKept
<1> QED BY <1>1, <1>2, <1>3, PTL DEF Spec

-----------------------------------------------------------------------------
(***************************************************************************)
(* Exchanges on the line                                                   *)
(*                                                                         *)
(* d is a stream of commands, h one of replies; S, Q and A are sets of     *)
(* operations.                                                             *)
(***************************************************************************)
Free(s, S) == \A i \in DOMAIN s : s[i].op \notin S

LastOnly(s, S) == \A i \in DOMAIN s : s[i].op \in S => i = Len(s)

\* at most one request of Q or one answer of A is under way, and nothing
\* was sent after it
Exchange(d, h, Q, A) ==
  LastOnly(d, Q) /\ LastOnly(h, A) /\ (Free(h, A) \/ d = << >>)

LEMMA FreeTail ==
  ASSUME NEW T, NEW s \in Seq(T), s # << >>, NEW S, Free(s, S)
  PROVE  Free(Tail(s), S)
BY HeadTailProperties DEF Free

LEMMA FreeAppend ==
  ASSUME NEW T, NEW s \in Seq(T), NEW e \in T, NEW S, Free(s, S), e.op \notin S
  PROVE  Free(Append(s, e), S)
BY AppendProperties DEF Free

LEMMA FreeHead ==
  ASSUME NEW T, NEW s \in Seq(T), s # << >>, NEW S, Free(s, S)
  PROVE  Head(s).op \notin S
BY HeadTailProperties DEF Free

LEMMA FreeLast == ASSUME NEW s, NEW S, Free(s, S) PROVE LastOnly(s, S)
BY DEF Free, LastOnly

LEMMA FreeEmpty == ASSUME NEW S PROVE Free(<< >>, S)
BY DEF Free

LEMMA LastTail ==
  ASSUME NEW T, NEW s \in Seq(T), s # << >>, NEW S, LastOnly(s, S)
  PROVE  LastOnly(Tail(s), S)
BY HeadTailProperties DEF LastOnly

LEMMA LastAppend ==
  ASSUME NEW T, NEW s \in Seq(T), NEW e \in T, NEW S, Free(s, S)
  PROVE  LastOnly(Append(s, e), S)
BY AppendProperties DEF Free, LastOnly

\* A message of S at the head of such a stream is the only message.
LEMMA LastHead ==
  ASSUME NEW T, NEW s \in Seq(T), s # << >>, NEW S, LastOnly(s, S), Head(s).op \in S
  PROVE  Tail(s) = << >>
<1>1. 1 \in DOMAIN s /\ Head(s) = s[1]
  BY HeadTailProperties
<1>2. Len(s) = 1
  BY <1>1 DEF LastOnly
<1>3. Tail(s) \in Seq(T) /\ Len(Tail(s)) = 0
  BY <1>2, HeadTailProperties
<1> QED BY <1>3, EmptySeq

\* A request opens an exchange on streams free of others,
LEMMA ExchangeOpens ==
  ASSUME NEW d \in Seq(Command), NEW h \in Seq(Reply), NEW Q, NEW A,
         Free(d, Q), Free(h, A), NEW c \in Command
  PROVE  Exchange(Append(d, c), h, Q, A)
BY LastAppend, FreeLast DEF Exchange

\* ... the receiver moves it from one stream to the other,
LEMMA ExchangeAnswered ==
  ASSUME NEW d \in Seq(Command), NEW h \in Seq(Reply), NEW Q, NEW A, d # << >>,
         Exchange(d, h, Q, A),
         NEW m \in Reply, m.op \in A <=> Head(d).op \in Q,
         NEW k, k = h \/ k = Append(h, m)
  PROVE  Exchange(Tail(d), k, Q, A)
<1>1. LastOnly(Tail(d), Q) /\ Free(h, A) /\ LastOnly(h, A)
  BY LastTail DEF Exchange
<1>2. CASE k = h
  BY <1>1, <1>2 DEF Exchange
<1>3. CASE k = Append(h, m) /\ m.op \in A
  <2>1. Tail(d) = << >>
    BY <1>3, LastHead DEF Exchange
  <2>2. LastOnly(k, A)
    BY <1>1, <1>3, LastAppend
  <2> QED BY <1>1, <2>1, <2>2 DEF Exchange
<1>4. CASE k = Append(h, m) /\ m.op \notin A
  <2>1. Free(k, A)
    BY <1>1, <1>4, FreeAppend
  <2> QED BY <1>1, <2>1, FreeLast DEF Exchange
<1> QED BY <1>2, <1>3, <1>4

\* ... a lost or skipped message leaves it an exchange,
LEMMA ExchangeLosesCommand ==
  ASSUME NEW d \in Seq(Command), NEW h, NEW Q, NEW A, d # << >>, Exchange(d, h, Q, A)
  PROVE  Exchange(Tail(d), h, Q, A)
BY LastTail DEF Exchange

LEMMA ExchangeLosesReply ==
  ASSUME NEW d, NEW h \in Seq(Reply), NEW Q, NEW A, h # << >>, Exchange(d, h, Q, A)
  PROVE  Exchange(d, Tail(h), Q, A)
BY LastTail, FreeTail DEF Exchange

\* ... and its answer leaves both streams empty.
LEMMA ExchangeEnds ==
  ASSUME NEW d \in Seq(Command), NEW h \in Seq(Reply), NEW Q, NEW A,
         Exchange(d, h, Q, A), h # << >>, Head(h).op \in A
  PROVE  d = << >> /\ Tail(h) = << >>
BY LastHead, FreeHead DEF Exchange

LEMMA ExchangeEmpty == ASSUME NEW Q, NEW A PROVE Exchange(<< >>, << >>, Q, A)
BY FreeEmpty, FreeLast DEF Exchange

-----------------------------------------------------------------------------
(***************************************************************************)
(* What a step does to the line and to the layers                          *)
(***************************************************************************)
Writes == {"ram", "flash"}
Acks   == {"ack", "nak"}

\* One command is executed; the receiver answers it, if it still emits UBX.
LEMMA DeviceEffect ==
  ASSUME TypeOK, DeviceStep
  PROVE  /\ toDev # << >> /\ toDev' = Tail(toDev) /\ Head(toDev) \in Command
         /\ \E m \in Reply :
              /\ toHost' = toHost \/ toHost' = Append(toHost, m)
              /\ m.op = "ver" <=> Head(toDev).op = "ver"
              /\ m.op = "val" <=> Head(toDev).op = "get"
              /\ m.op \in Acks <=> Head(toDev).op \in Writes
              /\ m.op = "val" => m.b = Head(toDev).b /\ m.v = ram[m.b] /\ ram' = ram
              /\ m.op = "ack" =>
                   LET c == Head(toDev) IN
                   /\ c.op = "ram" => ram' = [ram EXCEPT ![c.b] = c.v]
                   /\ c.op = "flash" => flash' = [flash EXCEPT ![c.b] = c.v]
         /\ ram' = ram \/ (Head(toDev).op = "ram" /\
                          ram' = [ram EXCEPT ![Head(toDev).b] = Head(toDev).v])
         /\ flash' = flash \/ (Head(toDev).op = "flash" /\
                          flash' = [flash EXCEPT ![Head(toDev).b] = Head(toDev).v])
<1> DEFINE c == Head(toDev)
           Effect(m) ==
              /\ toHost' = toHost \/ toHost' = Append(toHost, m)
              /\ m.op = "ver" <=> c.op = "ver"
              /\ m.op = "val" <=> c.op = "get"
              /\ m.op \in Acks <=> c.op \in Writes
              /\ m.op = "val" => m.b = c.b /\ m.v = ram[m.b] /\ ram' = ram
              /\ m.op = "ack" =>
                   /\ c.op = "ram" => ram' = [ram EXCEPT ![c.b] = c.v]
                   /\ c.op = "flash" => flash' = [flash EXCEPT ![c.b] = c.v]
<1>1. toDev # << >> /\ toDev' = Tail(toDev) /\ c \in Command
  BY HeadTailProperties DEF DeviceStep, TypeOK
<1>2. /\ Rep("ver") \in Reply /\ Rep("ack") \in Reply /\ Rep("nak") \in Reply
      /\ c.op = "get" => [op |-> "val", b |-> c.b, v |-> ram[c.b]] \in Reply
      /\ \A o : Rep(o).op = o
  BY <1>1 DEF Rep, Reply, Command, TypeOK, Layer
<1> HIDE DEF c
<1>3. CASE c.op = "ver" /\ Answer(ram, Rep("ver")) /\ UNCHANGED <<ram, flash, faults>>
  <2>1. toHost' = toHost \/ toHost' = Append(toHost, Rep("ver"))
    BY <1>3 DEF Answer
  <2>2. Effect(Rep("ver"))
    BY <1>2, <1>3, <2>1 DEF Writes, Acks
  <2> QED BY <1>1, <1>2, <1>3, <2>2 DEF c
<1>4. CASE c.op = "get" /\ Answer(ram, [op |-> "val", b |-> c.b, v |-> ram[c.b]]) /\ UNCHANGED <<ram, flash, faults>>
  <2>1. toHost' = toHost \/ toHost' = Append(toHost, [op |-> "val", b |-> c.b, v |-> ram[c.b]])
    BY <1>4 DEF Answer
  <2>2. Effect([op |-> "val", b |-> c.b, v |-> ram[c.b]])
    BY <1>2, <1>4, <2>1 DEF Writes, Acks
  <2> QED BY <1>1, <1>2, <1>4, <2>2 DEF c
<1>5. CASE c.op = "ram" /\ ram' = [ram EXCEPT ![c.b] = c.v] /\ Answer(ram', Rep("ack")) /\ UNCHANGED flash
  <2>1. toHost' = toHost \/ toHost' = Append(toHost, Rep("ack"))
    BY <1>5 DEF Answer
  <2>2. Effect(Rep("ack"))
    BY <1>2, <1>5, <2>1 DEF Writes, Acks
  <2> QED BY <1>1, <1>2, <1>5, <2>2 DEF c
<1>6. CASE c.op = "flash" /\ flash' = [flash EXCEPT ![c.b] = c.v] /\ Answer(ram, Rep("ack")) /\ UNCHANGED ram
  <2>1. toHost' = toHost \/ toHost' = Append(toHost, Rep("ack"))
    BY <1>6 DEF Answer
  <2>2. Effect(Rep("ack"))
    BY <1>2, <1>6, <2>1 DEF Writes, Acks
  <2> QED BY <1>1, <1>2, <1>6, <2>2 DEF c
<1>7. CASE c.op \in Writes /\ Answer(ram, Rep("nak")) /\ UNCHANGED <<ram, flash>>
  <2>1. toHost' = toHost \/ toHost' = Append(toHost, Rep("nak"))
    BY <1>7 DEF Answer
  <2>2. Effect(Rep("nak"))
    BY <1>2, <1>7, <2>1 DEF Writes, Acks
  <2> QED BY <1>1, <1>2, <1>7, <2>2 DEF c
<1>8. \/ c.op = "ver" /\ Answer(ram, Rep("ver")) /\ UNCHANGED <<ram, flash, faults>>
      \/ c.op = "get" /\ Answer(ram, [op |-> "val", b |-> c.b, v |-> ram[c.b]]) /\ UNCHANGED <<ram, flash, faults>>
      \/ c.op = "ram" /\ ram' = [ram EXCEPT ![c.b] = c.v] /\ Answer(ram', Rep("ack")) /\ UNCHANGED flash
      \/ c.op = "flash" /\ flash' = [flash EXCEPT ![c.b] = c.v] /\ Answer(ram, Rep("ack")) /\ UNCHANGED ram
      \/ c.op \in Writes /\ Answer(ram, Rep("nak")) /\ UNCHANGED <<ram, flash>>
  BY DEF DeviceStep, Writes, c
<1> QED BY <1>3, <1>4, <1>5, <1>6, <1>7, <1>8

-----------------------------------------------------------------------------
(***************************************************************************)
(* Kinds of steps                                                          *)
(***************************************************************************)
SameFate(t) ==
  /\ txn'[t].done = txn[t].done /\ txn'[t].late = txn[t].late
  /\ txn'[t].out = txn[t].out
  /\ txn'[t].audit = "none" <=> txn[t].audit = "none"

\* a step that leaves the line, the layers and the conversation alone
Calm ==
  /\ UNCHANGED <<ram, flash, toDev, toHost, old, read, cur, act, at>>
  /\ slot' \in {0, slot}
  /\ \A t \in Txns : SameFate(t)

\* the timer or the operator starts to revert the change in the slot
RevertStart ==
  /\ act = "idle" /\ slot = cur /\ cur \in Txns /\ ~txn[cur].done
  /\ Others(cur) /\ txn'[cur].done /\ txn'[cur].late = txn[cur].late
  /\ txn'[cur].out = txn[cur].out /\ txn'[cur].audit = txn[cur].audit
  /\ act' = "restore" /\ at' = 1 /\ toDev' = Append(toDev, Request("restore", 1))
  /\ UNCHANGED <<ram, flash, toHost, old, cur, slot>>

LineStep == DeviceStep \/ Lose \/ Skip

\* A step is one of the seven kinds.
LEMMA Kinds ==
  ASSUME PhaseInv, [Next]_vars
  PROVE  \/ Calm \/ RevertStart \/ LineStep \/ PowerCycle \/ Forget
         \/ BeginApply \/ CommitStart \/ Conversation
<1>1. TypeOK /\ LiveInv /\ OutInv
  BY DEF PhaseInv, LiveInv
<1>2. /\ slot # 0 => slot = cur /\ slot \in Txns
      /\ 0 \notin Txns
  BY <1>1, RxAssumption DEF Ver, Txns, LiveInv, TypeOK
<1>3. CASE KeepStart \/ KeepRefused
  <2>1. \A u \in Txns : Untouched(u)
    <3>1. slot \in Txns
      BY <1>2, <1>3 DEF KeepStart, KeepRefused, Keeping
    <3> QED BY <1>1, <1>3, <3>1, KeepStartEffect, KeepRefusedEffect
  <2> QED BY <1>3, <2>1 DEF KeepStart, KeepRefused, Calm, SameFate, Untouched
<1>8. CASE RestartFails \/ UNCHANGED vars
  BY <1>8 DEF RestartFails, vars, Calm, SameFate
<1>4. ASSUME NEW t \in Txns, TimerFires(t) PROVE Calm
  <2>1. \A u \in Txns : Untouched(u)
    BY <1>1, <1>4, TimerFiresEffect
  <2> QED BY <1>4, <2>1 DEF TimerFires, Calm, SameFate, Untouched
<1>5. ASSUME NEW t \in Txns, Watch(t) PROVE Calm
  <2>1. /\ Others(t) /\ txn'[t].done = txn[t].done /\ txn'[t].late = txn[t].late
        /\ txn'[t].out = txn[t].out
        /\ txn'[t].audit \in {"reverted", txn[t].audit}
        /\ slot # t => txn'[t].audit = txn[t].audit
    BY <1>1, <1>5, WatchEffect
  <2>2. slot = t => txn[t].audit # "none"
    BY <1>1, <1>2 DEF OutInv
  <2> QED BY <1>5, <2>1, <2>2 DEF Watch, Calm, SameFate, Others, Untouched
<1>6. ASSUME NEW t \in Txns, TimerRevert(t) PROVE Calm \/ RevertStart
  <2>1. /\ Others(t) /\ txn'[t].done /\ txn'[t].late = txn[t].late
        /\ txn'[t].out = txn[t].out /\ txn'[t].audit = txn[t].audit
    BY <1>1, <1>6, TimerRevertEffect
  <2>2. CASE txn[t].done
    <3>1. txn'[t].done = txn[t].done
      <4>1. txn'[t].done \in BOOLEAN /\ txn[t].done \in BOOLEAN
        BY <1>1, StepType, RecType DEF TypeOK, TxnRec
      <4> QED BY <2>1, <2>2, <4>1
    <3>2. \A u \in Txns : SameFate(u)
      BY <2>1, <3>1 DEF SameFate, Others, Untouched
    <3> QED BY <1>6, <2>2, <3>2 DEF TimerRevert, Calm
  <2>3. CASE ~txn[t].done
    <3>1. t = cur /\ slot = cur
      BY <1>1, <1>2, <1>6, <2>3 DEF TimerRevert, LiveInv
    <3> QED BY <1>6, <2>1, <2>3, <3>1 DEF TimerRevert, Ask, RevertStart
  <2> QED BY <2>2, <2>3
<1>7. CASE AskRevert
  <2>1. slot \in Txns /\ slot = cur /\ txn[cur].audit # "none"
    BY <1>1, <1>2, <1>7 DEF AskRevert, OutInv
  <2>2. /\ Others(slot) /\ txn'[slot].done
        /\ txn'[slot].late = txn[slot].late
        /\ txn'[slot].out = txn[slot].out
        /\ txn'[slot].audit = IF txn[slot].done THEN "reverted" ELSE txn[slot].audit
    BY <1>1, <1>7, <2>1, AskRevertEffect
  <2>3. CASE txn[slot].done
    <3>1. txn'[slot].done = txn[slot].done
      <4>1. txn'[slot].done \in BOOLEAN /\ txn[slot].done \in BOOLEAN
        BY <1>1, <2>1, StepType, RecType DEF TypeOK, TxnRec
      <4> QED BY <2>2, <2>3, <4>1
    <3>2. \A u \in Txns : SameFate(u)
      BY <2>1, <2>2, <2>3, <3>1 DEF SameFate, Others, Untouched
    <3> QED BY <1>7, <2>3, <3>2 DEF AskRevert, Calm
  <2>4. CASE ~txn[slot].done
    BY <1>7, <2>1, <2>2, <2>4 DEF AskRevert, Ask, RevertStart
  <2> QED BY <2>3, <2>4
<1> QED BY <1>3, <1>4, <1>5, <1>6, <1>7, <1>8 DEF Next, LineStep, Crash, Restart

\* An earlier transaction's audit record is never begun late, and a new change
\* has the previous one among its earlier ones.
LEMMA FlushedBack ==
  ASSUME PhaseInv, [Next]_vars, Flushed'
  PROVE  /\ Flushed
         /\ BeginApply /\ cur # 0 => txn[cur].audit # "none"
<1>1. TypeOK /\ LiveInv /\ OutInv /\ FreshInv
  BY DEF PhaseInv, LiveInv
<1>2. /\ slot # 0 => slot = cur /\ slot \in Txns
      /\ act # "idle" => cur \in Txns
      /\ cur # 0 => cur \in Txns
      /\ cur \in Nat
  BY <1>1, RxAssumption DEF Ver, Txns, LiveInv, TypeOK
<1>3. cur' = cur \/ (BeginApply /\ cur' = cur + 1)
  BY Kinds
  DEF Calm, RevertStart, LineStep, DeviceStep, Lose, Skip, PowerCycle, Forget, BeginApply,
      CommitStart, Conversation, HelloOK, Refuse, ReadNext, SnapOK, WriteOK, WriteFailed,
      VerifyRetry, VerifyFailed, VerifyOK, CommitNext, CommitOK, CommitFailed,
      RestoreNext, RestoreEnd, RestoreReturn
<1>4. ASSUME NEW t \in Txns, t < cur PROVE txn'[t].audit = "none" <=> txn[t].audit = "none"
  <2>1. t # cur
    BY <1>2, <1>4 DEF Txns
  <2>2. CASE UNCHANGED txn
    BY <2>2
  <2>3. CASE Calm \/ RevertStart
    BY <2>1, <2>3 DEF Calm, SameFate, RevertStart, Others, Untouched
  <2>4. CASE Forget
    BY <1>1, <2>4, ForgetEffect DEF Untouched
  <2>5. CASE BeginApply
    BY <1>1, <2>5, BeginApplyEffect DEF Untouched
  <2>6. CASE Refuse \/ WriteFailed \/ VerifyFailed \/ VerifyOK \/ RestoreEnd \/ RestoreReturn
    <3>1. cur \in Txns
      BY <1>2, <2>6 DEF Refuse, WriteFailed, VerifyFailed, BadRead, VerifyOK, Verified, RestoreEnd,
         RestoreReturn
    <3> QED BY <1>1, <2>1, <2>6, <3>1, RefuseEffect, WriteFailedEffect, VerifyFailedEffect,
               VerifyOKEffect, RestoreEndEffect, RestoreReturnEffect DEF Others, Untouched
  <2>7. CASE CommitOK \/ CommitFailed
    <3>1. slot = cur /\ cur \in Txns
      BY <1>1, <1>2, <2>7 DEF CommitOK, CommitFailed, OutInv
    <3> QED BY <1>1, <2>1, <2>7, <3>1, CommitOKEffect, CommitFailedEffect DEF Others, Untouched
  <2> QED BY <2>2, <2>3, <2>4, <2>5, <2>6, <2>7, Kinds
          DEF LineStep, DeviceStep, Lose, Skip, PowerCycle, CommitStart, Conversation, HelloOK,
              ReadNext, SnapOK, WriteOK, VerifyRetry, CommitNext, RestoreNext
<1>5. Flushed
  BY <1>2, <1>3, <1>4 DEF Flushed, Txns
<1>6. ASSUME BeginApply, cur # 0 PROVE txn[cur].audit # "none"
  <2>1. cur \in Txns /\ txn'[cur].audit = txn[cur].audit /\ cur < cur'
    BY <1>1, <1>2, <1>6, BeginApplyEffect DEF BeginApply, Untouched
  <2> QED BY <2>1 DEF Flushed
<1> QED BY <1>5, <1>6

\* Only the receiver's replies, lost ones and those read move the host's stream.
Heard == toHost' = toHost \/ (toHost # << >> /\ toHost' = Tail(toHost))

Said(S) == toDev' = toDev \/ \E c \in Command : c.op \in S /\ toDev' = Append(toDev, c)

LEMMA GotHeard ==
  ASSUME NEW m, Got(m)
  PROVE  /\ Waiting /\ toHost # << >> /\ toHost' = Tail(toHost) /\ Head(toHost).op = m
         /\ UNCHANGED <<ram, flash>> /\ Heard
BY DEF Got, Heard

LEMMA FailedHeard ==
  ASSUME Failed
  PROVE  Heard /\ UNCHANGED <<ram, flash>> /\ (Got("nak") \/ toHost' = toHost)
BY DEF Failed, Got, TimedOut, Heard

LEMMA PolledHeard ==
  ASSUME Polled
  PROVE  Heard /\ UNCHANGED <<ram, flash>>
         /\ ((toHost # << >> /\ toHost' = Tail(toHost)) \/ toHost' = toHost)
BY GotHeard, FailedHeard DEF Polled

LEMMA BadReadHeard ==
  ASSUME ReadFailed \/ ReadDone
  PROVE  Heard /\ UNCHANGED <<ram, flash>>
BY PolledHeard, FailedHeard DEF ReadFailed, ReadDone

LEMMA FreeSaid ==
  ASSUME TypeOK, NEW S, NEW R, Free(toDev, S), Said(R), \A o \in R : o \notin S
  PROVE  Free(toDev, S)'
<1>1. toDev \in Seq(Command)
  BY DEF TypeOK
<1> QED BY <1>1, FreeAppend DEF Said

LEMMA FreeHeard == ASSUME TypeOK, NEW S, Free(toHost, S), Heard PROVE Free(toHost, S)'
BY FreeTail DEF Heard, TypeOK

\* What a step of the line keeps.
LEMMA FreeLine ==
  ASSUME TypeOK, LineStep, NEW S, Free(toDev, S)
  PROVE  Free(toDev, S)'
BY FreeTail DEF LineStep, DeviceStep, Lose, Skip, TypeOK

LEMMA ExchangeLine ==
  ASSUME TypeOK, LineStep, NEW Q, NEW A, Exchange(toDev, toHost, Q, A),
         \A c \in Command, m \in Reply :
            /\ (m.op = "ver" <=> c.op = "ver") /\ (m.op = "val" <=> c.op = "get")
            /\ (m.op \in Acks <=> c.op \in Writes)
            => (m.op \in A <=> c.op \in Q)
  PROVE  Exchange(toDev, toHost, Q, A)'
<1>1. toDev \in Seq(Command) /\ toHost \in Seq(Reply)
  BY DEF TypeOK
<1>2. CASE DeviceStep
  <2>1. toDev # << >> /\ toDev' = Tail(toDev) /\ Head(toDev) \in Command
    BY <1>2, DeviceEffect
  <2>2. PICK m \in Reply :
          /\ toHost' = toHost \/ toHost' = Append(toHost, m)
          /\ m.op = "ver" <=> Head(toDev).op = "ver"
          /\ m.op = "val" <=> Head(toDev).op = "get"
          /\ m.op \in Acks <=> Head(toDev).op \in Writes
    BY <1>2, DeviceEffect
  <2>3. m.op \in A <=> Head(toDev).op \in Q
    BY <2>1, <2>2
  <2>4. Exchange(Tail(toDev), toHost', Q, A)
    BY <1>1, <2>1, <2>2, <2>3, ExchangeAnswered
  <2> QED BY <2>1, <2>4
<1>3. CASE Lose
  BY <1>1, <1>3, ExchangeLosesCommand, ExchangeLosesReply DEF Lose
<1>4. CASE Skip
  BY <1>1, <1>4, ExchangeLosesReply DEF Skip
<1> QED BY <1>2, <1>3, <1>4 DEF LineStep

\* Replies of a kind no command on the line asks for do not appear.
LEMMA FreeHostLine ==
  ASSUME TypeOK, LineStep, NEW Q, NEW A, Free(toDev, Q), Free(toHost, A),
         \A c \in Command, m \in Reply :
            /\ (m.op = "ver" <=> c.op = "ver") /\ (m.op = "val" <=> c.op = "get")
            /\ (m.op \in Acks <=> c.op \in Writes)
            => (m.op \in A => c.op \in Q)
  PROVE  Free(toHost, A)'
<1>1. toDev \in Seq(Command) /\ toHost \in Seq(Reply)
  BY DEF TypeOK
<1>2. CASE DeviceStep
  <2>1. toDev # << >> /\ toDev' = Tail(toDev) /\ Head(toDev) \in Command
    BY <1>2, DeviceEffect
  <2>2. PICK m \in Reply :
          /\ toHost' = toHost \/ toHost' = Append(toHost, m)
          /\ m.op = "ver" <=> Head(toDev).op = "ver"
          /\ m.op = "val" <=> Head(toDev).op = "get"
          /\ m.op \in Acks <=> Head(toDev).op \in Writes
    BY <1>2, DeviceEffect
  <2>3. m.op \notin A
    BY <1>1, <2>1, <2>2, FreeHead
  <2> QED BY <1>1, <2>2, <2>3, FreeAppend
<1>3. CASE Lose \/ Skip
  BY <1>1, <1>3, FreeTail DEF Lose, Skip
<1> QED BY <1>2, <1>3 DEF LineStep

-----------------------------------------------------------------------------
(***************************************************************************)
(* The MON-VER exchange flushes the line                                   *)
(***************************************************************************)
\* the latest transaction, too, got past its MON-VER exchange
Passed == act # "hello" /\ (act = "idle" /\ cur # 0 => txn[cur].audit # "none")

\* the only MON-VER under way is that of the session that waits for it
VerInv ==
  Flushed =>
    /\ act = "hello" => Exchange(toDev, toHost, {"ver"}, {"ver"})
    /\ Passed => Free(toDev, {"ver"}) /\ Free(toHost, {"ver"})

\* nothing is asked for, and nothing answered, that comes after batch n
UpTo(n) ==
  /\ \A i \in DOMAIN toDev : toDev[i].op = "get" => toDev[i].b <= n
  /\ \A i \in DOMAIN toHost : toHost[i].op = "val" => toHost[i].b <= n

\* what is asked for is batch n, and what is answered is what RAM holds of it
Truly(n) ==
  /\ \A i \in DOMAIN toDev : toDev[i].op = "get" => toDev[i].b = n
  /\ \A i \in DOMAIN toHost : toHost[i].op = "val" => toHost[i].b = n /\ toHost[i].v = ram[n]

\* every poll before this one was answered
Gapless == \A c \in Batch : c < at => SoFar[c] # -1

\* ... so nothing but the answers to the snapshot's own polls is read as the
\* snapshot; an answer that is missing or late leaves a batch unread at the end
SnapInv ==
  Flushed /\ act = "snap" =>
    /\ Free(toDev, Writes) /\ UpTo(at)
    /\ \A c \in Batch : c >= at => SoFar[c] = -1
    /\ Gapless =>
         /\ Exchange(toDev, toHost, {"get"}, {"val"}) /\ Truly(at)
         /\ \/ Free(toDev, {"get"}) /\ Free(toHost, {"val"})
            \/ \A c \in Batch : c < at => SoFar[c] = ram[c]

\* ... and every VALSET is acknowledged before the next one is sent
WriteInv ==
  Flushed /\ act = "write" =>
    /\ Exchange(toDev, toHost, Writes, Acks)
    /\ at = 1 /\ ~Free(toDev, Writes) => old = ram

FlushInv == VerInv /\ SnapInv /\ WriteInv

\* What is written when a step of the conversation starts.
LEMMA RequestOp ==
  ASSUME TypeOK, NEW a \in Asking, NEW b \in Batch
  PROVE  /\ Request(a, b) \in Command
         /\ a = "hello" => Request(a, b).op = "ver" /\ Request(a, b).v = 0
         /\ a \in {"snap", "verify"} => Request(a, b).op = "get" /\ Request(a, b).b = b
         /\ a = "write" => Request(a, b).op = "ram" /\ Request(a, b).v = cur
         /\ a = "commit" => Request(a, b).op = "flash" /\ Request(a, b).v = cur
                            /\ Request(a, b).b = b
         /\ a = "restore" => Request(a, b).op = "ram" /\ Request(a, b).v = old[b]
                             /\ Request(a, b).b = b
<1>1. Request(a, b) \in Command
  BY RequestType
<1> QED BY <1>1 DEF Request, Cmd

LEMMA AskSaid ==
  ASSUME TypeOK, NEW a \in Asking, NEW b \in Batch, NEW g, NEW n, Ask(a, b, g, n),
         NEW S, Request(a, b).op \in S
  PROVE  Said(S)
BY RequestOp DEF Ask, Said

\* the steps of a conversation after its MON-VER exchange
Talking ==
  \/ Refuse \/ ReadNext \/ SnapOK \/ WriteOK \/ WriteFailed
  \/ VerifyRetry \/ VerifyFailed \/ VerifyOK
  \/ CommitStart \/ CommitNext \/ CommitOK \/ CommitFailed
  \/ RevertStart \/ RestoreNext \/ RestoreEnd \/ RestoreReturn

\* They ask for anything but MON-VER, and read the replies in order.
LEMMA TalkEffect ==
  ASSUME TypeOK, Talking
  PROVE  /\ Said({"get", "ram", "flash"}) /\ Heard
         /\ act' # "hello" /\ (act = "hello" => Refuse)
         /\ UNCHANGED <<ram, flash, cur>>
<1> DEFINE S == {"get", "ram", "flash"}
<1>1. \A a \in Asking, b \in Batch : a # "hello" => Request(a, b).op \in S
  BY RequestOp DEF Asking
<1>2. 1 \in Batch /\ (at < NBatch => at + 1 \in Batch)
  BY RxAssumption DEF TypeOK, Batch
<1>3. CASE Refuse \/ VerifyOK \/ CommitOK \/ CommitFailed
  <2>1. Heard /\ UNCHANGED <<ram, flash>>
    BY <1>3, GotHeard, FailedHeard, BadReadHeard DEF Refuse, VerifyOK, Verified, CommitOK, CommitFailed
  <2> QED BY <1>3, <2>1 DEF Refuse, VerifyOK, Verified, CommitOK, CommitFailed, Rest, Said
<1>4. CASE RestoreEnd \/ RestoreReturn
  BY <1>4, GotHeard, FailedHeard DEF RestoreEnd, RestoreReturn, Rest, Said, Heard
<1>5. CASE SnapOK \/ ReadNext
  <2>1. Heard /\ UNCHANGED <<ram, flash, cur>>
    BY <1>5, PolledHeard DEF SnapOK, ReadNext, ReadDone
  <2> QED BY <1>1, <1>2, <1>5, <2>1, AskSaid DEF SnapOK, ReadNext, Ask, Asking
<1>6. CASE WriteOK \/ CommitNext \/ RestoreNext
  BY <1>1, <1>2, <1>6, AskSaid, GotHeard DEF WriteOK, CommitNext, RestoreNext, Ask, Asking
<1>7. CASE WriteFailed
  BY <1>1, <1>2, <1>7, AskSaid, FailedHeard DEF WriteFailed, Ask, Asking
<1>8. CASE VerifyFailed \/ VerifyRetry
  <2>1. Heard /\ UNCHANGED <<ram, flash, cur>> /\ act = "verify"
    BY <1>8, BadReadHeard DEF VerifyFailed, VerifyRetry, BadRead
  <2> QED BY <1>1, <1>2, <1>8, <2>1, AskSaid DEF VerifyFailed, VerifyRetry, Ask, Asking
<1>9. CASE CommitStart
  BY <1>1, <1>2, <1>9, AskSaid DEF CommitStart, Ask, Asking, Heard
<1>10. CASE RevertStart
  BY <1>1, <1>2, <1>10, RequestOp DEF RevertStart, Said, Asking, Heard
<1> QED BY <1>3, <1>4, <1>5, <1>6, <1>7, <1>8, <1>9, <1>10 DEF Talking

\* A step is calm, of the line, a reset, the start of an Apply, its MON-VER
\* answered, or one that talks.
LEMMA StepKinds ==
  ASSUME PhaseInv, [Next]_vars
  PROVE  Calm \/ LineStep \/ PowerCycle \/ Forget \/ BeginApply \/ HelloOK \/ Talking
BY Kinds DEF Conversation, Talking

\* When MON-VER is answered the line is empty.
LEMMA HelloEmpties ==
  ASSUME TypeOK, VerInv, Flushed, HelloOK
  PROVE  /\ toDev' = <<Cmd("get", 1, 0)>> /\ toHost' = << >> /\ act' = "snap"
         /\ UNCHANGED <<ram, flash, cur, slot, old>>
<1>1. toHost # << >> /\ toHost' = Tail(toHost) /\ Head(toHost).op = "ver" /\ act = "hello"
  BY GotHeard DEF HelloOK
<1>2. toDev = << >> /\ toHost' = << >>
  BY <1>1, ExchangeEnds DEF VerInv, TypeOK
<1>3. toDev' = Append(toDev, Cmd("get", 1, 0))
  BY DEF HelloOK, Ask, Request
<1> QED BY <1>2, <1>3, GotHeard DEF HelloOK, Ask

\* The line is free of MON-VER outside its exchange.
LEMMA VerStep == ASSUME PhaseInv, VerInv, [Next]_vars PROVE VerInv'
<1> SUFFICES ASSUME Flushed' PROVE VerInv'
  BY DEF VerInv
<1>1. /\ TypeOK /\ LiveInv /\ OutInv /\ FreshInv /\ Flushed
      /\ toDev \in Seq(Command) /\ toHost \in Seq(Reply)
  BY FlushedBack DEF PhaseInv, LiveInv, TypeOK
<1>2. act # "idle" => cur # 0 /\ cur \in Txns
  BY <1>1, RxAssumption DEF Ver, Txns, LiveInv, TypeOK
<1>3. CASE Calm
  <2>1. Passed' => Passed
    BY <1>1, <1>3, RxAssumption DEF Calm, SameFate, Passed, TypeOK, Ver, Txns
  <2> QED BY <1>1, <1>3, <2>1 DEF Calm, VerInv
<1>4. CASE LineStep
  <2>1. UNCHANGED <<act, cur, txn>>
    BY <1>4 DEF LineStep, DeviceStep, Lose, Skip
  <2>2. act = "hello" => Exchange(toDev, toHost, {"ver"}, {"ver"})'
    BY <1>1, <1>4, ExchangeLine DEF VerInv
  <2>3. Passed => Free(toDev, {"ver"})' /\ Free(toHost, {"ver"})'
    BY <1>1, <1>4, FreeLine, FreeHostLine DEF VerInv
  <2> QED BY <2>1, <2>2, <2>3 DEF VerInv, Passed
<1>5. CASE PowerCycle
  <2>1. toDev' = << >> /\ toHost' = << >>
    BY <1>5 DEF PowerCycle
  <2> QED BY <2>1, ExchangeEmpty, FreeEmpty DEF VerInv
<1>6. CASE Forget
  <2>1. toDev' = toDev /\ toHost' = << >> /\ act' = "idle" /\ cur' = cur
    BY <1>6 DEF Forget, Rest
  <2>2. Passed' => Passed
    <3>1. \A t \in Txns : Untouched(t)
      BY <1>1, <1>6, ForgetEffect
    <3>2. act = "hello" => txn[cur].audit = "none"
      BY <1>1 DEF FreshInv, Applying, Fresh
    <3> QED BY <1>1, <1>2, <2>1, <3>1, <3>2, RxAssumption DEF Passed, Untouched, TypeOK, Ver, Txns
  <2> QED BY <1>1, <2>1, <2>2, FreeEmpty DEF VerInv
<1>7. CASE BeginApply
  <2>1. Passed /\ act' = "hello"
    BY <1>7, FlushedBack DEF BeginApply, Passed, Ask
  <2>2. toDev' = Append(toDev, Cmd("ver", 0, 0)) /\ toHost' = toHost
    BY <1>7 DEF BeginApply, Ask, Request
  <2>3. Cmd("ver", 0, 0) \in Command
    BY DEF Cmd, Command
  <2>4. Exchange(toDev', toHost', {"ver"}, {"ver"})
    BY <1>1, <2>1, <2>2, <2>3, ExchangeOpens DEF VerInv
  <2> QED BY <2>1, <2>4 DEF VerInv, Passed
<1>8. CASE HelloOK
  <2>1. toDev' = <<Cmd("get", 1, 0)>> /\ toHost' = << >> /\ act' = "snap"
    BY <1>1, <1>8, HelloEmpties
  <2>2. Free(toDev', {"ver"}) /\ Free(toHost', {"ver"})
    BY <2>1 DEF Free, Cmd
  <2> QED BY <2>1, <2>2 DEF VerInv
<1>9. CASE Talking
  <2>1. /\ Said({"get", "ram", "flash"}) /\ Heard
        /\ act' # "hello" /\ (act = "hello" => Refuse) /\ cur' = cur
    BY <1>1, <1>9, TalkEffect
  <2>2. Passed' => Passed
    <3>1. CASE act = "hello"
      <4>1. Refuse /\ txn[cur].audit = "none" /\ cur # 0 /\ cur \in Txns
        BY <1>1, <1>2, <2>1, <3>1 DEF FreshInv, Applying, Fresh
      <4>2. txn'[cur].audit = "none" /\ act' = "idle"
        BY <1>1, <3>1, <4>1, RefuseEffect DEF Refuse, Rest
      <4> QED BY <2>1, <4>1, <4>2 DEF Passed
    <3>2. CASE act = "idle"
      <4>1. slot # 0 /\ slot = cur
        BY <1>1, <1>2, <1>9, <3>2
        DEF Talking, Refuse, ReadNext, SnapOK, WriteOK, WriteFailed, VerifyRetry, BadRead,
            VerifyFailed, VerifyOK, Verified, CommitStart, Keeping, CommitNext, CommitOK, CommitFailed, RevertStart,
            RestoreNext, RestoreEnd, RestoreReturn, LiveInv, Txns
      <4> QED BY <1>1, <3>2, <4>1 DEF OutInv, Passed
    <3> QED BY <3>1, <3>2 DEF Passed
  <2>3. Passed => Free(toDev, {"ver"})' /\ Free(toHost, {"ver"})'
    BY <1>1, <2>1, FreeSaid, FreeHeard DEF VerInv
  <2> QED BY <2>1, <2>2, <2>3 DEF VerInv
<1> QED BY <1>3, <1>4, <1>5, <1>6, <1>7, <1>8, <1>9, StepKinds

\* A reading without a gap ends with its own answer, which empties the line.
LEMMA LastPiece ==
  ASSUME TypeOK, SnapInv, Flushed, act = "snap", Polled,
         \A c \in Batch : c <= at => read'[c] # -1
  PROVE  /\ toDev = << >> /\ toHost' = << >> /\ UNCHANGED <<ram, flash>>
         /\ \A c \in Batch : c <= at => read'[c] = ram[c]
<1>1. /\ toHost \in Seq(Reply) /\ toDev \in Seq(Command) /\ at \in Batch
      /\ SoFar \in [Batch -> Ver \cup {-1}] /\ \A c \in Batch : c \in Nat
  BY RxAssumption DEF TypeOK, Batch, SoFar
<1>2. SoFar[at] = -1
  BY <1>1 DEF SnapInv, Batch
<1>3. read' # SoFar
  BY <1>1, <1>2
<1>4. Got("val") /\ read' = [SoFar EXCEPT ![Head(toHost).b] = Head(toHost).v]
  BY <1>3 DEF Polled
<1>5. toHost # << >> /\ toHost' = Tail(toHost) /\ Head(toHost).op = "val" /\ UNCHANGED <<ram, flash>>
  BY <1>4, GotHeard
<1>6. 1 \in DOMAIN toHost /\ Head(toHost) = toHost[1]
  BY <1>1, <1>5, HeadTailProperties
<1>7. Head(toHost).b = at
  BY <1>1, <1>2, <1>4
<1>8. Gapless
  BY <1>1, <1>4, <1>7 DEF Gapless
<1>9. /\ Exchange(toDev, toHost, {"get"}, {"val"}) /\ Head(toHost).v = ram[at]
      /\ \A c \in Batch : c < at => SoFar[c] = ram[c]
  BY <1>5, <1>6, <1>8 DEF SnapInv, Truly, Free
<1>10. toDev = << >> /\ toHost' = << >>
  BY <1>1, <1>5, <1>9, ExchangeEnds
<1> QED BY <1>1, <1>4, <1>5, <1>7, <1>9, <1>10

\* A step of the line asks for nothing new, and answers truly.
LEMMA TruthOnLine ==
  ASSUME TypeOK, LineStep, ram' = ram, NEW n
  PROVE  /\ UpTo(n) => UpTo(n)'
         /\ Truly(n) => Truly(n)'
<1>1. toDev \in Seq(Command) /\ toHost \in Seq(Reply)
  BY DEF TypeOK
<1>2. \A i \in DOMAIN toDev' : \E j \in DOMAIN toDev : toDev'[i] = toDev[j]
  <2>1. CASE toDev' = toDev
    BY <2>1
  <2>2. CASE toDev # << >> /\ toDev' = Tail(toDev)
    BY <1>1, <2>2, HeadTailProperties
  <2> QED BY <2>1, <2>2 DEF LineStep, DeviceStep, Lose, Skip
<1>3. ASSUME NEW i \in DOMAIN toHost', toHost'[i].op = "val"
      PROVE  \/ \E j \in DOMAIN toHost : toHost'[i] = toHost[j]
             \/ \E j \in DOMAIN toDev : /\ toDev[j].op = "get" /\ toHost'[i].b = toDev[j].b
                                       /\ toHost'[i].v = ram[toHost'[i].b]
  <2>1. CASE toHost' = toHost
    BY <1>3, <2>1
  <2>2. CASE toHost # << >> /\ toHost' = Tail(toHost)
    BY <1>1, <1>3, <2>2, HeadTailProperties
  <2>3. CASE DeviceStep
    <3>1. PICK m \in Reply : /\ toHost' = toHost \/ toHost' = Append(toHost, m)
                             /\ m.op = "val" <=> Head(toDev).op = "get"
                             /\ m.op = "val" => m.b = Head(toDev).b /\ m.v = ram[m.b]
      BY <2>3, DeviceEffect
    <3>2. 1 \in DOMAIN toDev /\ Head(toDev) = toDev[1]
      BY <1>1, <2>3, HeadTailProperties DEF DeviceStep
    <3>3. CASE toHost' = Append(toHost, m)
      <4>1. CASE i = Len(toHost) + 1
        BY <1>1, <1>3, <3>1, <3>2, <3>3, <4>1, AppendProperties
      <4>2. CASE i # Len(toHost) + 1
        BY <1>1, <1>3, <3>3, <4>2, AppendProperties
      <4> QED BY <4>1, <4>2
    <3> QED BY <2>1, <3>1, <3>3
  <2> QED BY <2>1, <2>2, <2>3 DEF LineStep, Lose, Skip
<1> QED BY <1>2, <1>3 DEF UpTo, Truly

\* Once MON-VER is answered, the line carries the polls of the snapshot only.
LEMMA SnapStep == ASSUME PhaseInv, FlushInv, [Next]_vars PROVE SnapInv'
<1> SUFFICES ASSUME Flushed', act' = "snap" PROVE SnapInv'
  BY DEF SnapInv
<1>1. /\ TypeOK /\ Flushed /\ VerInv /\ SnapInv /\ LockInv
      /\ toDev \in Seq(Command) /\ toHost \in Seq(Reply)
      /\ at \in Batch /\ 1 \in Batch /\ (at < NBatch => at + 1 \in Batch)
      /\ \A c \in Batch : c \in Nat
  BY FlushedBack, RxAssumption DEF PhaseInv, LiveInv, TypeOK, FlushInv, Batch
<1>2. CASE Calm
  <2>1. UNCHANGED <<ram, toDev, toHost, act, at, read>>
    BY <1>2 DEF Calm
  <2> QED BY <1>1, <2>1 DEF SnapInv, UpTo, Truly, Gapless, SoFar
<1>3. CASE LineStep
  <2>1. act = "snap" /\ UNCHANGED <<at, read>> /\ SoFar' = SoFar
    BY <1>3 DEF LineStep, DeviceStep, Lose, Skip, SoFar
  <2>2. ram' = ram
    <3>1. CASE DeviceStep
      <4>1. toDev # << >> /\ (ram' = ram \/ Head(toDev).op = "ram")
        BY <1>1, <3>1, DeviceEffect
      <4>2. toDev # << >> => Head(toDev).op # "ram"
        BY <1>1, <2>1, FreeHead DEF SnapInv, Writes
      <4> QED BY <4>1, <4>2
    <3> QED BY <1>3, <3>1 DEF LineStep, Lose, Skip
  <2>3. Free(toDev, Writes)' /\ UpTo(at)'
    BY <1>1, <1>3, <2>1, <2>2, FreeLine, TruthOnLine DEF SnapInv, UpTo
  <2>4. Gapless => Exchange(toDev, toHost, {"get"}, {"val"})' /\ Truly(at)'
    <3>1. Gapless => Exchange(toDev, toHost, {"get"}, {"val"})'
      BY <1>1, <1>3, <2>1, ExchangeLine DEF SnapInv
    <3>2. Gapless => Truly(at)'
      BY <1>1, <1>3, <2>1, <2>2, TruthOnLine DEF SnapInv, Truly
    <3> QED BY <3>1, <3>2
  <2>5. Free(toDev, {"get"}) /\ Free(toHost, {"val"}) => Free(toDev, {"get"})' /\ Free(toHost, {"val"})'
    BY <1>1, <1>3, FreeLine, FreeHostLine
  <2> QED BY <1>1, <2>1, <2>2, <2>3, <2>4, <2>5 DEF SnapInv, Gapless
<1>4. CASE PowerCycle
  <2>1. toDev' = << >> /\ toHost' = << >> /\ act = "snap" /\ UNCHANGED <<at, read>> /\ SoFar' = SoFar
    BY <1>4 DEF PowerCycle, SoFar
  <2>2. UpTo(at)' /\ Truly(at)'
    BY <2>1 DEF UpTo, Truly
  <2> QED BY <1>1, <2>1, <2>2, ExchangeEmpty, FreeEmpty DEF SnapInv
<1>5. CASE HelloOK
  <2>1. toDev' = <<Cmd("get", 1, 0)>> /\ toHost' = << >> /\ at' = 1
    BY <1>1, <1>5, HelloEmpties DEF HelloOK, Ask
  <2>2. Exchange(toDev', toHost', {"get"}, {"val"}) /\ Free(toDev', Writes)
    BY <2>1 DEF Exchange, LastOnly, Free, Cmd, Writes
  <2>3. SoFar' = [b \in Batch |-> -1] /\ UpTo(at)' /\ Truly(at)'
    BY <2>1 DEF SoFar, UpTo, Truly, Cmd
  <2>4. \A c \in Batch : ~(c < at') /\ SoFar'[c] = -1
    BY <1>1, <2>1, <2>3 DEF Batch
  <2> QED BY <2>2, <2>3, <2>4 DEF SnapInv
<1>6. CASE ReadNext
  <2>1. /\ act = "snap" /\ Polled /\ at' = at + 1 /\ at + 1 \in Batch
        /\ toDev' = Append(toDev, Cmd("get", at + 1, 0)) /\ Cmd("get", at + 1, 0) \in Command
        /\ Cmd("get", at + 1, 0).op = "get" /\ Cmd("get", at + 1, 0).b = at + 1
    <3>1. act = "snap" /\ Polled /\ at' = at + 1 /\ at + 1 \in Batch
      BY <1>1, <1>6 DEF ReadNext, Ask
    <3>2. toDev' = Append(toDev, Cmd("get", at + 1, 0))
      BY <1>6, <3>1 DEF ReadNext, Ask, Request
    <3>3. Cmd("get", at + 1, 0) \in Command
      BY <3>1 DEF Cmd, Command
    <3> QED BY <3>1, <3>2, <3>3 DEF Cmd
  <2>2. SoFar' = read' /\ SoFar \in [Batch -> Ver \cup {-1}]
    BY <1>1, <2>1 DEF SoFar, TypeOK, Batch
  <2>3. Heard
    BY <2>1, PolledHeard
  <2>4. Free(toDev, Writes)'
    BY <1>1, <2>1, FreeAppend DEF SnapInv, Writes
  <2>5. UpTo(at)'
    <3>1. ASSUME NEW i \in DOMAIN toDev', toDev'[i].op = "get" PROVE toDev'[i].b <= at + 1
      <4>1. CASE i = Len(toDev) + 1
        BY <1>1, <2>1, <4>1, AppendProperties
      <4>2. CASE i # Len(toDev) + 1
        <5>1. i \in DOMAIN toDev /\ toDev'[i] = toDev[i]
          BY <1>1, <2>1, <3>1, <4>2, AppendProperties
        <5>2. toDev[i].b \in Nat /\ toDev[i].b <= at
          BY <1>1, <2>1, <3>1, <5>1 DEF SnapInv, UpTo, Command, Batch
        <5> QED BY <1>1, <5>1, <5>2
      <4> QED BY <4>1, <4>2
    <3>2. ASSUME NEW i \in DOMAIN toHost', toHost'[i].op = "val" PROVE toHost'[i].b <= at + 1
      <4>1. PICK j \in DOMAIN toHost : toHost'[i] = toHost[j]
        <5>1. CASE toHost' = toHost
          BY <3>2, <5>1
        <5>2. CASE toHost # << >> /\ toHost' = Tail(toHost)
          BY <1>1, <3>2, <5>2, HeadTailProperties
        <5> QED BY <2>3, <5>1, <5>2 DEF Heard
      <4>2. toHost[j].b \in Nat /\ toHost[j].b <= at
        BY <1>1, <2>1, <3>2, <4>1 DEF SnapInv, UpTo, Reply, Batch
      <4> QED BY <1>1, <4>1, <4>2
    <3> QED BY <2>1, <3>1, <3>2 DEF UpTo
  <2>6. ASSUME NEW c \in Batch, c >= at + 1 PROVE read'[c] = -1
    <3>1. SoFar[c] = -1
      BY <1>1, <2>1, <2>6 DEF SnapInv
    <3>2. \/ read' = SoFar
          \/ /\ toHost # << >> /\ Head(toHost).op = "val" /\ Head(toHost) \in Reply
             /\ read' = [SoFar EXCEPT ![Head(toHost).b] = Head(toHost).v]
      BY <1>1, <2>1, GotType, GotHeard DEF Polled
    <3>3. toHost # << >> /\ Head(toHost).op = "val" => Head(toHost).b <= at
      BY <1>1, <2>1, HeadTailProperties DEF SnapInv, UpTo
    <3>4. Head(toHost) \in Reply /\ Head(toHost).op = "val" => Head(toHost).b \in Nat
      BY <1>1 DEF Reply
    <3>5. toHost # << >> /\ Head(toHost).op = "val" /\ Head(toHost) \in Reply => Head(toHost).b # c
      BY <1>1, <2>6, <3>3, <3>4
    <3> QED BY <2>2, <3>1, <3>2, <3>5
  <2>7. ASSUME Gapless' PROVE /\ Exchange(toDev', toHost', {"get"}, {"val"}) /\ Truly(at)'
                              /\ \A c \in Batch : c < at' => SoFar'[c] = ram'[c]
    <3>1. \A c \in Batch : c <= at => read'[c] # -1
      BY <1>1, <2>1, <2>2, <2>7 DEF Gapless
    <3>2. /\ toDev = << >> /\ toHost' = << >> /\ UNCHANGED <<ram, flash>>
          /\ \A c \in Batch : c <= at => read'[c] = ram[c]
      BY <1>1, <2>1, <3>1, LastPiece
    <3>3. toDev' = <<Cmd("get", at + 1, 0)>>
      BY <2>1, <3>2
    <3>4. Exchange(toDev', toHost', {"get"}, {"val"}) /\ Truly(at)'
      BY <2>1, <3>2, <3>3 DEF Exchange, LastOnly, Free, Truly
    <3> QED BY <1>1, <2>1, <2>2, <3>2, <3>4
  <2> QED BY <1>1, <2>1, <2>2, <2>4, <2>5, <2>6, <2>7 DEF SnapInv
<1>7. ~Forget /\ ~BeginApply /\ (Talking => ReadNext)
  BY DEF Forget, Rest, BeginApply, Talking, Refuse, SnapOK, WriteOK, WriteFailed, VerifyRetry,
         VerifyFailed, VerifyOK, CommitStart, CommitNext, CommitOK, CommitFailed, RevertStart,
         RestoreNext, RestoreEnd, RestoreReturn, Ask
<1> QED BY <1>2, <1>3, <1>4, <1>5, <1>6, <1>7, StepKinds

\* The snapshot's last answer empties the line, and the snapshot is what RAM holds.
LEMMA SnapEmpties ==
  ASSUME TypeOK, SnapInv, Flushed, SnapOK
  PROVE  /\ toDev' = <<Cmd("ram", 1, cur)>> /\ toHost' = << >> /\ old' = ram
         /\ act' = "write" /\ at' = 1 /\ UNCHANGED <<ram, flash>>
<1>1. act = "snap" /\ Polled /\ at = NBatch /\ \A c \in Batch : read'[c] # -1
  BY DEF SnapOK, ReadDone, Short
<1>2. \A c \in Batch : c <= at
  BY <1>1 DEF Batch
<1>3. /\ toDev = << >> /\ toHost' = << >> /\ UNCHANGED <<ram, flash>>
      /\ \A c \in Batch : read'[c] = ram[c]
  BY <1>1, <1>2, LastPiece
<1>4. read' \in [Batch -> Ver \cup {-1}] /\ ram \in [Batch -> Ver]
  BY <1>1, PolledType DEF TypeOK, Layer
<1>5. old' = ram
  BY <1>3, <1>4 DEF SnapOK
<1>6. toDev' = Append(toDev, Cmd("ram", 1, cur)) /\ act' = "write" /\ at' = 1
  BY DEF SnapOK, Ask, Request
<1> QED BY <1>3, <1>5, <1>6

\* An acknowledgement ends the exchange of a VALSET.
LEMMA AckEmpties ==
  ASSUME TypeOK, Exchange(toDev, toHost, Writes, Acks), NEW m \in Acks, Got(m)
  PROVE  toDev = << >> /\ toHost' = << >>
<1>1. toHost # << >> /\ toHost' = Tail(toHost) /\ Head(toHost).op \in Acks
  BY GotHeard
<1> QED BY <1>1, ExchangeEnds DEF TypeOK

\* Apply's batches are written one by one.
LEMMA WriteStep == ASSUME PhaseInv, FlushInv, [Next]_vars PROVE WriteInv'
<1> SUFFICES ASSUME Flushed', act' = "write" PROVE WriteInv'
  BY DEF WriteInv
<1>1. /\ TypeOK /\ Flushed /\ SnapInv /\ WriteInv
      /\ toDev \in Seq(Command) /\ toHost \in Seq(Reply)
      /\ at \in Nat \ {0} /\ 1 \in Batch /\ (at < NBatch => at + 1 \in Batch)
  BY FlushedBack, RxAssumption DEF PhaseInv, LiveInv, TypeOK, FlushInv, Batch
<1>2. CASE Calm
  BY <1>1, <1>2 DEF Calm, WriteInv
<1>3. CASE LineStep
  <2>1. act = "write" /\ UNCHANGED <<at, old>>
    BY <1>3 DEF LineStep, DeviceStep, Lose, Skip
  <2>2. Exchange(toDev, toHost, Writes, Acks)'
    BY <1>1, <1>3, <2>1, ExchangeLine DEF WriteInv
  <2>3. Free(toDev, Writes)' \/ (~Free(toDev, Writes) /\ ram' = ram)
    <3>1. CASE Free(toDev, Writes)
      BY <1>1, <1>3, <3>1, FreeLine
    <3>2. CASE DeviceStep /\ Head(toDev).op \in Writes
      <4>1. Tail(toDev) = << >> /\ toDev' = Tail(toDev)
        BY <1>1, <2>1, <3>2, LastHead DEF WriteInv, Exchange, DeviceStep
      <4> QED BY <4>1, FreeEmpty
    <3>3. CASE ~(DeviceStep /\ Head(toDev).op \in Writes)
      BY <1>1, <1>3, <3>1, <3>3, DeviceEffect DEF LineStep, Lose, Skip, Writes
    <3> QED BY <3>1, <3>2, <3>3
  <2> QED BY <1>1, <2>1, <2>2, <2>3 DEF WriteInv
<1>4. CASE PowerCycle
  <2>1. toDev' = << >> /\ toHost' = << >>
    BY <1>4 DEF PowerCycle
  <2> QED BY <2>1, ExchangeEmpty, FreeEmpty DEF WriteInv
<1>5. CASE SnapOK
  <2>1. /\ toDev' = <<Cmd("ram", 1, cur)>> /\ toHost' = << >> /\ old' = ram
    BY <1>1, <1>5, SnapEmpties
  <2>2. Exchange(toDev', toHost', Writes, Acks) /\ ram' = ram
    BY <1>1, <1>5, <2>1, SnapEmpties DEF Exchange, LastOnly, Free
  <2> QED BY <2>1, <2>2 DEF WriteInv
<1>6. CASE WriteOK
  <2>1. toDev = << >> /\ toHost' = << >> /\ act = "write"
    BY <1>1, <1>6, AckEmpties DEF WriteOK, WriteInv, Acks
  <2>2. toDev' = Append(toDev, Request("write", at + 1)) /\ at' = at + 1 /\ at + 1 \in Batch
    BY <1>1, <1>6 DEF WriteOK, Ask
  <2>3. Request("write", at + 1) \in Command
    BY <1>1, <2>2, RequestOp DEF Asking
  <2>4. Exchange(toDev', toHost', Writes, Acks)
    BY <1>1, <2>1, <2>2, <2>3, ExchangeOpens, FreeEmpty, EmptySeq
  <2> QED BY <1>1, <2>2, <2>4 DEF WriteInv
<1>7. ~Forget /\ ~BeginApply /\ ~HelloOK /\ (Talking => SnapOK \/ WriteOK)
  BY DEF Forget, Rest, BeginApply, HelloOK, Talking, Refuse, ReadNext, SnapOK, WriteOK, WriteFailed, VerifyRetry,
         VerifyFailed, VerifyOK, CommitStart, CommitNext, CommitOK, CommitFailed, RevertStart,
         RestoreNext, RestoreEnd, RestoreReturn, Ask
<1> QED BY <1>2, <1>3, <1>4, <1>5, <1>6, <1>7, StepKinds

\* Every step keeps FlushInv, and the initial line is empty.
LEMMA FlushStep == ASSUME PhaseInv, FlushInv, [Next]_vars PROVE FlushInv'
BY VerStep, SnapStep, WriteStep DEF FlushInv

LEMMA InitPhase == ASSUME Init PROVE PhaseInv /\ FlushInv
<1>1. \A t \in Txns : txn[t] = NoTxn
  BY DEF Init
<1>2. LiveInv /\ FreshInv
  BY <1>1, InitType DEF Init, NoTxn, LiveInv, FreshInv, Fresh, Applying
<1>3. LockInv /\ OutInv
  BY <1>1 DEF Init, NoTxn, LockInv, OutInv, Applying
<1>4. Free(toDev, {"ver"}) /\ Free(toHost, {"ver"}) /\ act = "idle"
  BY FreeEmpty DEF Init
<1> QED BY <1>2, <1>3, <1>4 DEF PhaseInv, FlushInv, VerInv, SnapInv, WriteInv

\* What a revert writes back is what the receiver held when the first VALSET
\* was on its way to it: whatever the sessions before left on the line, the answer
\* to MON-VER comes after it (Version, then Apply's ReadKeys).
THEOREM SnapshotsAreTrue == Spec => []SnapshotIsTruth
<1>1. Init => PhaseInv /\ FlushInv
  BY InitPhase
<1>2. PhaseInv /\ FlushInv /\ [Next]_vars => PhaseInv' /\ FlushInv'
  BY PhaseStep, FlushStep
<1>3. PhaseInv /\ FlushInv => SnapshotIsTruth
  <2> SUFFICES ASSUME PhaseInv, FlushInv, Flushed, act = "write", at = 1,
                      toDev = <<Request("write", 1)>>
               PROVE  old = ram
    BY DEF SnapshotIsTruth
  <2>1. Request("write", 1).op = "ram"
    BY DEF Request, Cmd
  <2>2. ~Free(toDev, Writes)
    BY <2>1 DEF Free, Writes
  <2> QED BY <2>2 DEF FlushInv, WriteInv
<1> QED BY <1>1, <1>2, <1>3, PTL DEF Spec

-----------------------------------------------------------------------------
(***************************************************************************)
(* Outcomes                                                                *)
(*                                                                         *)
(* Behind a flushed line the receiver holds no value of a later change,    *)
(* and a change that has not lost an answer has at most one VALSET on the  *)
(* line.                                                                   *)
(***************************************************************************)
Level == IF act \in {"hello", "snap"} THEN cur - 1 ELSE cur

Within(n) ==
  /\ \A b \in Batch : ram[b] <= n /\ flash[b] <= n
  /\ \A i \in DOMAIN toDev : toDev[i].v <= n

\* whose values the layers, the line and the snapshot hold
LevelInv ==
  Flushed =>
    /\ Within(Level)
    /\ act \in {"write", "verify", "commit", "restore"} \/ slot # 0 =>
         \A b \in Batch : old[b] < cur

LEMMA LevelStep == ASSUME PhaseInv, FlushInv, LevelInv, [Next]_vars PROVE LevelInv'
<1> SUFFICES ASSUME Flushed' PROVE LevelInv'
  BY DEF LevelInv
<1>1. /\ TypeOK /\ LiveInv /\ Flushed /\ VerInv /\ SnapInv
      /\ toDev \in Seq(Command) /\ cur \in Nat
      /\ TypeOK'
  BY FlushedBack, StepType, RxAssumption DEF PhaseInv, LiveInv, TypeOK, FlushInv, Ver
<1>2. /\ \A b \in Batch : ram[b] \in Nat /\ flash[b] \in Nat /\ old[b] \in Nat
      /\ \A b \in Batch : ram'[b] \in Nat /\ flash'[b] \in Nat /\ old'[b] \in Nat
      /\ cur' \in Nat
  BY <1>1, RxAssumption DEF TypeOK, Layer, Ver
<1>3. \A c \in Command : c.v \in Nat
  BY RxAssumption DEF Command, Ver
<1>4. /\ 1 \in Batch /\ (at < NBatch => at + 1 \in Batch)
  BY <1>1, RxAssumption DEF TypeOK, Batch
<1>5. Within(Level)
  BY <1>1 DEF LevelInv
<1>6. Level \in Int /\ (act # "idle" => cur > 0)
  BY <1>1, RxAssumption DEF Level, LiveInv
\* a step whose layers are the same, whose level does not fall and that sends
\* nothing above it
<1>7. ASSUME NEW c \in Command, c.v <= Level', UNCHANGED <<ram, flash>>, Level' \in Int,
             Level <= Level', toDev' = toDev \/ toDev' = Append(toDev, c)
      PROVE  Within(Level)'
  <2>1. \A b \in Batch : ram'[b] <= Level' /\ flash'[b] <= Level'
    BY <1>2, <1>5, <1>6, <1>7 DEF Within
  <2>2. ASSUME NEW i \in DOMAIN toDev' PROVE toDev'[i].v <= Level'
    <3>1. CASE i \in DOMAIN toDev /\ toDev'[i] = toDev[i]
      <4>1. toDev[i].v \in Nat /\ toDev[i].v <= Level
        BY <1>1, <1>3, <1>5, <3>1 DEF Within
      <4> QED BY <1>6, <1>7, <3>1, <4>1
    <3>2. CASE toDev'[i] = c
      BY <1>7, <3>2
    <3> QED BY <1>1, <1>7, <2>2, <3>1, <3>2, AppendProperties
  <2> QED BY <2>1, <2>2 DEF Within
<1>8. CASE Calm
  <2>1. UNCHANGED <<ram, flash, toDev, old, cur, act>> /\ slot' \in {0, slot}
    BY <1>8 DEF Calm
  <2>2. Within(Level)'
    BY <1>5, <2>1 DEF Within, Level
  <2>3. \A b \in Batch : old'[b] = old[b] /\ cur' = cur
    BY <2>1
  <2> QED BY <1>1, <2>1, <2>2, <2>3 DEF LevelInv
<1>9. CASE LineStep
  <2>1. UNCHANGED <<act, cur, slot, old>> /\ Level' = Level
    BY <1>9 DEF LineStep, DeviceStep, Lose, Skip, Level
  <2>2. toDev' = toDev \/ (toDev # << >> /\ toDev' = Tail(toDev))
    BY <1>9 DEF LineStep, DeviceStep, Lose, Skip
  <2>3. \A i \in DOMAIN toDev' : toDev'[i].v <= Level
    BY <1>1, <1>5, <2>2, HeadTailProperties DEF Within
  <2>4. \A b \in Batch : ram'[b] <= Level /\ flash'[b] <= Level
    <3>1. CASE DeviceStep
      <4>1. toDev # << >> => Head(toDev).v <= Level
        BY <1>1, <1>5, HeadTailProperties DEF Within
      <4>2. /\ toDev # << >>
            /\ ram' = ram \/ ram' = [ram EXCEPT ![Head(toDev).b] = Head(toDev).v]
            /\ flash' = flash \/ flash' = [flash EXCEPT ![Head(toDev).b] = Head(toDev).v]
        BY <1>1, <3>1, DeviceEffect
      <4> QED BY <1>1, <1>5, <4>1, <4>2 DEF Within, TypeOK, Layer
    <3> QED BY <1>5, <1>9, <3>1 DEF LineStep, Lose, Skip, Within
  <2> QED BY <1>1, <2>1, <2>3, <2>4 DEF LevelInv, Within
<1>10. CASE PowerCycle
  <2>1. Level' = Level /\ UNCHANGED <<act, cur, slot, old, flash>> /\ ram' = flash /\ toDev' = << >>
    BY <1>10 DEF PowerCycle, Level
  <2> QED BY <1>1, <1>5, <2>1 DEF LevelInv, Within
<1>11. CASE Forget
  <2>1. /\ UNCHANGED <<ram, flash, toDev, cur>> /\ act' = "idle" /\ slot' = 0
    BY <1>11 DEF Forget, Rest
  <2>2. Cmd("ver", 0, 0) \in Command /\ Cmd("ver", 0, 0).v = 0
    BY DEF Cmd, Command
  <2>3. Within(Level)'
    BY <1>1, <1>7, <2>1, <2>2 DEF Level
  <2> QED BY <2>1, <2>3 DEF LevelInv
<1>12. CASE BeginApply
  <2>1. /\ UNCHANGED <<ram, flash>> /\ cur' = cur + 1 /\ act = "idle" /\ act' = "hello"
        /\ slot' = 0 /\ toDev' = Append(toDev, Cmd("ver", 0, 0))
    BY <1>12 DEF BeginApply, Ask, Request
  <2>2. Cmd("ver", 0, 0) \in Command /\ Cmd("ver", 0, 0).v = 0
    BY DEF Cmd, Command
  <2>3. Level' = cur /\ Level = cur
    BY <1>1, <2>1 DEF Level
  <2>4. Within(Level)'
    BY <1>1, <1>7, <2>1, <2>2, <2>3
  <2> QED BY <2>1, <2>4 DEF LevelInv
<1>13. CASE HelloOK
  <2>1. /\ toDev' = <<Cmd("get", 1, 0)>> /\ act' = "snap"
        /\ UNCHANGED <<ram, flash, cur, slot>> /\ act = "hello"
    BY <1>1, <1>13, HelloEmpties DEF HelloOK
  <2>2. Level' = Level /\ Level >= 0 /\ slot = 0
    BY <1>1, <1>6, <2>1 DEF Level, LiveInv
  <2> QED BY <1>5, <1>6, <2>1, <2>2 DEF LevelInv, Within, Cmd
<1>14. CASE Talking
  <2>1. UNCHANGED <<ram, flash, cur>> /\ act' # "hello"
    BY <1>1, <1>14, TalkEffect
  <2>2. act' = "snap" => ReadNext /\ act = "snap"
    BY <1>14 DEF Talking, Refuse, ReadNext, SnapOK, WriteOK, WriteFailed, VerifyRetry, VerifyFailed,
          VerifyOK, CommitStart, CommitNext, CommitOK, CommitFailed, RevertStart,
          RestoreNext, RestoreEnd, RestoreReturn, Ask, Rest
  <2>3. Level <= Level' /\ Level' \in Int /\ (act' # "snap" => Level' = cur)
    BY <1>1, <2>1, <2>2 DEF Level
  <2>4. act' \in {"write", "verify", "commit", "restore"} \/ slot' # 0 =>
          \A b \in Batch : old'[b] < cur
    <3>1. CASE SnapOK
      BY <1>1, <1>2, <1>5, <3>1, SnapEmpties DEF SnapOK, Within, Level
    <3>2. CASE ~SnapOK
      <4>1. /\ old' = old
            /\ act' \in {"write", "verify", "commit", "restore"} \/ slot' # 0 =>
                 act \in {"write", "verify", "commit", "restore"} \/ slot # 0
        BY <1>1, <1>14, <3>2 DEF Talking, Refuse, ReadNext, WriteOK, WriteFailed, VerifyRetry, BadRead,
          VerifyFailed, VerifyOK, Verified, CommitStart, Keeping, CommitNext, CommitOK, CommitFailed, RevertStart,
          RestoreNext, RestoreEnd, RestoreReturn, Ask, Rest, LiveInv, Txns
      <4> QED BY <1>1, <4>1 DEF LevelInv
    <3> QED BY <3>1, <3>2
  <2>5. \E c \in Command : c.v <= Level' /\ (toDev' = toDev \/ toDev' = Append(toDev, c))
    <3>0. 0 <= Level'
      <4>1. CASE act' = "snap"
        BY <1>1, <1>6, <2>1, <2>2, <4>1 DEF Level
      <4>2. CASE act' # "snap"
        BY <1>1, <2>3, <4>2
      <4> QED BY <4>1, <4>2
    <3>1. ASSUME toDev' = toDev PROVE \E c \in Command : c.v <= Level'
      <4>1. Cmd("ver", 0, 0) \in Command /\ Cmd("ver", 0, 0).v = 0
        BY DEF Cmd, Command
      <4> QED BY <3>0, <4>1
    <3>2. ASSUME NEW a \in {"write", "verify", "commit", "restore"}, NEW b \in Batch,
                 a = "restore" => act \in {"write", "verify", "restore"} \/ slot # 0,
                 toDev' = Append(toDev, Request(a, b)), act' # "snap"
          PROVE  \E c \in Command : c.v <= Level' /\ toDev' = Append(toDev, c)
      <4>1. a \in Asking
        BY DEF Asking
      <4>2. Request(a, b) \in Command
        BY <1>1, <4>1, RequestOp
      <4>3. a = "restore" => old[b] < cur /\ old[b] \in Nat
        BY <1>1, <1>2, <3>2 DEF LevelInv
      <4>4. Request(a, b).v <= cur
        BY <1>1, <4>1, <4>3, RequestOp DEF Request, Cmd
      <4> QED BY <2>3, <3>2, <4>2, <4>4
    <3>3. CASE toDev' = toDev
      BY <3>1, <3>3
    <3>8. CASE ReadNext
      <4>1. act \in Asking /\ act \in {"snap", "verify"} /\ at + 1 \in Batch
            /\ toDev' = Append(toDev, Request(act, at + 1))
        BY <1>4, <3>8 DEF ReadNext, Ask, Asking
      <4>2. Request(act, at + 1) \in Command /\ Request(act, at + 1).v = 0
        BY <1>1, <4>1, RequestOp DEF Request, Cmd
      <4> QED BY <3>0, <4>1, <4>2
    <3>4. CASE SnapOK \/ WriteOK \/ VerifyRetry
      BY <1>4, <3>2, <3>4 DEF SnapOK, WriteOK, VerifyRetry, Ask
    <3>5. CASE WriteFailed \/ VerifyFailed \/ RestoreNext
      BY <1>4, <3>2, <3>5 DEF WriteFailed, VerifyFailed, BadRead, RestoreNext, Ask
    <3>6. CASE CommitStart \/ CommitNext
      BY <1>4, <3>2, <3>6 DEF CommitStart, CommitNext, Ask
    <3>7. CASE RevertStart
      <4>1. slot # 0
        BY <3>7 DEF RevertStart, Txns
      <4> QED BY <1>4, <3>2, <3>7, <4>1 DEF RevertStart
    <3> QED BY <1>14, <3>3, <3>4, <3>5, <3>6, <3>7, <3>8
            DEF Talking, Refuse, VerifyOK, CommitOK, CommitFailed, RestoreEnd, RestoreReturn
  <2>6. Within(Level)'
    BY <1>1, <1>7, <2>1, <2>3, <2>5
  <2> QED BY <2>1, <2>4, <2>6 DEF LevelInv
<1> QED BY <1>8, <1>9, <1>10, <1>11, <1>12, <1>13, <1>14, StepKinds

\* no VALSET and no acknowledgement is under way
Quiet == Free(toDev, Writes) /\ Free(toHost, Acks)

\* the change in the slot is still on trial
Open == slot # 0 /\ ~txn[cur].done

QuietInv ==
  Flushed /\ cur # 0 =>
    /\ act = "verify" => Quiet
    /\ act = "idle" /\ Open /\ ~txn[cur].late => Quiet
    /\ Open \/ txn[cur].out = "committed" => Free(toDev, {"ram"})

Gone(b) == ram[b] = cur => flash[b] = cur

\* c writes the batch that is waited for
IsRequest(c) ==
  /\ c.b = at
  /\ act = "commit" => c.op = "flash" /\ c.v = cur
  /\ act = "restore" => c.op = "ram" /\ c.v = old[at]

\* the VALSET under way is that request
Requests == \A i \in DOMAIN toDev : toDev[i].op \in Writes => IsRequest(toDev[i])

\* the batches before it, and its own once it is acknowledged, are done
Committing ==
  act = "commit" => /\ \A b \in Batch : b < at => flash[b] = cur
                    /\ ~Free(toHost, {"ack"}) => flash[at] = cur

Restoring ==
  act = "restore" => /\ \A b \in Batch : b < at => Gone(b)
                     /\ ~Free(toHost, {"ack"}) => Gone(at)

\* the acknowledgement a Commit or a revert waits for is that of its request
OneInv ==
  Flushed /\ act \in {"commit", "restore"} /\ ~txn[cur].late =>
    Exchange(toDev, toHost, Writes, Acks) /\ Requests /\ Committing /\ Restoring

\* what a settled change left behind
SettledInv ==
  Flushed /\ cur # 0 /\ ~txn[cur].late =>
    /\ txn[cur].out = "committed" =>
         Free(toDev, Writes) /\ \A b \in Batch : flash[b] = cur
    /\ txn[cur].out = "reverted" => Free(toDev, Writes) /\ \A b \in Batch : Gone(b)

OutcomeInv == PhaseInv /\ FlushInv /\ LevelInv /\ QuietInv /\ OneInv /\ SettledInv

\* The facts of OutcomeInv that most of the cases below need.
LEMMA OutcomeFacts ==
  ASSUME OutcomeInv
  PROVE  /\ TypeOK /\ LiveInv /\ FreshInv /\ OutInv
         /\ toDev \in Seq(Command) /\ toHost \in Seq(Reply)
         /\ at \in Batch /\ (at < NBatch => at + 1 \in Batch) /\ 1 \in Batch
         /\ cur \in Nat /\ (cur # 0 => cur \in Txns) /\ (act # "idle" => cur # 0)
         /\ slot # 0 => slot = cur /\ cur # 0
         /\ act \in Applying => slot = 0 /\ Fresh(cur)
         /\ act \in {"restore", "close"} => txn[cur].done
         /\ act = "commit" => Open
         /\ Open => txn[cur].out = "none"
         /\ \A b \in Batch : ram[b] \in Nat /\ flash[b] \in Nat
<1>1. TypeOK /\ LiveInv /\ FreshInv /\ OutInv
  BY DEF OutcomeInv, PhaseInv, LiveInv
<1>2. /\ toDev \in Seq(Command) /\ toHost \in Seq(Reply)
      /\ at \in Batch /\ (at < NBatch => at + 1 \in Batch) /\ 1 \in Batch
      /\ cur \in Nat /\ (cur # 0 => cur \in Txns)
      /\ \A b \in Batch : ram[b] \in Nat /\ flash[b] \in Nat
  BY <1>1, RxAssumption DEF TypeOK, Batch, Ver, Txns, Layer
<1>3. /\ act # "idle" => cur # 0
      /\ slot # 0 => slot = cur /\ cur # 0
      /\ act \in Applying => slot = 0 /\ Fresh(cur)
      /\ act \in {"restore", "close"} => txn[cur].done
  BY <1>1 DEF LiveInv, FreshInv, Applying
<1>4. (act = "commit" => Open) /\ (Open => txn[cur].out = "none")
  BY <1>1 DEF OutInv, Open
<1> QED BY <1>1, <1>2, <1>3, <1>4

\* Freedom from both kinds of VALSET is freedom from each.
LEMMA FreeParts ==
  /\ Free(toDev, Writes) => Free(toDev, {"ram"})
  /\ Free(toHost, Acks) => Free(toHost, {"ack"})
BY DEF Free, Writes, Acks

\* The answer to a VALSET that has not lost one empties the line.
LEMMA OneEmpties ==
  ASSUME OutcomeInv, Flushed, act \in {"commit", "restore"}, ~txn[cur].late,
         NEW m \in Acks, Got(m)
  PROVE  toDev = << >> /\ toHost' = << >>
BY OutcomeFacts, AckEmpties DEF OutcomeInv, OneInv

LEMMA QuietStep == ASSUME OutcomeInv, [Next]_vars PROVE QuietInv'
<1> SUFFICES ASSUME Flushed', cur' # 0 PROVE QuietInv'
  BY DEF QuietInv
<1>1. /\ TypeOK /\ LiveInv /\ FreshInv /\ OutInv /\ Flushed /\ PhaseInv
      /\ QuietInv /\ FlushInv /\ OneInv
  BY OutcomeFacts, FlushedBack DEF OutcomeInv
<1>2. CASE Calm
  <2>1. UNCHANGED <<toDev, toHost, cur, act>> /\ slot' \in {0, slot} /\ SameFate(cur)
    BY <1>2, OutcomeFacts DEF Calm
  <2>2. Open' => Open
    BY <2>1 DEF Open, SameFate
  <2> QED BY <1>1, <2>1, <2>2 DEF QuietInv, Quiet, SameFate
<1>3. CASE LineStep
  <2>1. UNCHANGED <<txn, cur, act, slot>>
    BY <1>3 DEF LineStep, DeviceStep, Lose, Skip
  <2>2. Quiet => Quiet'
    BY <1>1, <1>3, FreeLine, FreeHostLine DEF Quiet
  <2>3. Free(toDev, {"ram"}) => Free(toDev, {"ram"})'
    BY <1>1, <1>3, FreeLine
  <2> QED BY <1>1, <2>1, <2>2, <2>3 DEF QuietInv, Open
<1>4. CASE PowerCycle
  <2>1. toDev' = << >> /\ toHost' = << >>
    BY <1>4 DEF PowerCycle
  <2> QED BY <2>1, FreeEmpty DEF QuietInv, Quiet
<1>5. CASE Forget
  <2>1. act' = "idle" /\ slot' = 0 /\ UNCHANGED <<toDev, cur>> /\ Untouched(cur)
    BY <1>1, <1>5, ForgetEffect, OutcomeFacts DEF Forget, Rest
  <2> QED BY <1>1, <2>1 DEF QuietInv, Open, Untouched
<1>6. CASE BeginApply
  <2>1. act' = "hello" /\ slot' = 0 /\ cur' = cur + 1 /\ cur + 1 \in Txns
    BY <1>1, <1>6, RxAssumption DEF BeginApply, Ask, TypeOK, Ver, Txns
  <2>2. txn'[cur'].out = "none"
    BY <1>1, <1>6, <2>1, BeginApplyEffect, OutcomeFacts DEF FreshInv, Fresh, Untouched
  <2> QED BY <2>1, <2>2 DEF QuietInv, Open
\* Apply before its values are verified: no slot, no outcome
<1>7. ASSUME act \in Applying \/ act \in {"restore", "close"}, cur' = cur, slot' = 0 \/ txn'[cur].done,
             act' # "verify", txn'[cur].out # "committed"
      PROVE  QuietInv'
  BY <1>7 DEF QuietInv, Open
<1>8. CASE HelloOK \/ SnapOK \/ (ReadNext /\ act = "snap")
  <2>1. act \in Applying /\ slot' = slot /\ cur' = cur /\ txn' = txn /\ act' \in {"snap", "write"}
    BY <1>8 DEF HelloOK, SnapOK, ReadNext, Ask, Applying
  <2> QED BY <1>7, <2>1, OutcomeFacts DEF Fresh
<1>9. CASE Refuse
  <2>1. act \in Applying /\ slot' = slot /\ cur' = cur /\ act' = "idle"
    BY <1>9 DEF Refuse, Rest, Applying
  <2> QED BY <1>1, <1>7, <1>9, <2>1, RefuseEffect, OutcomeFacts
<1>10. CASE WriteFailed \/ VerifyFailed
  <2>1. act \in Applying /\ slot' = slot /\ cur' = cur /\ act' = "restore"
    BY <1>10 DEF WriteFailed, VerifyFailed, BadRead, Ask, Applying
  <2> QED BY <1>1, <1>7, <1>10, <2>1, WriteFailedEffect, VerifyFailedEffect, OutcomeFacts DEF Fresh, Applying
<1>11. CASE WriteOK
  <2>1. act = "write" /\ slot' = slot /\ cur' = cur /\ txn' = txn /\ "write" \in Applying
    BY <1>11 DEF WriteOK, Applying
  <2>2. toDev = << >> /\ toHost' = << >>
    BY <1>1, <1>11, <2>1, AckEmpties DEF WriteOK, FlushInv, WriteInv, Acks
  <2>3. CASE at < NBatch
    <3>1. act' = "write"
      BY <1>11, <2>3 DEF WriteOK, Ask
    <3> QED BY <1>7, <2>1, <3>1, OutcomeFacts DEF Fresh
  <2>4. CASE ~(at < NBatch)
    <3>1. act' = "verify" /\ toDev' = Append(toDev, Request("verify", 1))
      BY <1>11, <2>4 DEF WriteOK, Ask
    <3>2. Request("verify", 1).op = "get" /\ Request("verify", 1) \in Command
      BY <1>1, RequestOp, OutcomeFacts DEF Asking
    <3>3. Free(toDev', Writes)
      BY <2>2, <3>1, <3>2, FreeAppend, FreeEmpty, OutcomeFacts DEF Writes
    <3> QED BY <2>1, <2>2, <3>1, <3>3, FreeEmpty, OutcomeFacts DEF QuietInv, Quiet, Open, Fresh
  <2> QED BY <2>3, <2>4
<1>12. CASE VerifyRetry
  <2>1. act = "verify" /\ act' = "verify" /\ Ask("verify", 1, by, tries + 1) /\ Heard
        /\ UNCHANGED <<cur, slot, txn>> /\ "verify" \in Applying /\ "verify" \in Asking
    BY <1>12, BadReadHeard DEF VerifyRetry, BadRead, Ask, Applying, Asking
  <2>2. Said({"get"})
    BY <1>1, <2>1, AskSaid, RequestOp, OutcomeFacts
  <2>3. Quiet'
    BY <1>1, <2>1, <2>2, FreeSaid, FreeHeard, OutcomeFacts DEF QuietInv, Quiet, Writes
  <2> QED BY <2>1, <2>3, OutcomeFacts DEF QuietInv, Open, Fresh
<1>13. CASE VerifyOK
  <2>1. act = "verify" /\ act' = "idle" /\ Heard /\ UNCHANGED <<cur, toDev>>
    BY <1>13, PolledHeard DEF VerifyOK, Verified, ReadDone, Rest
  <2>2. Quiet'
    BY <1>1, <2>1, FreeHeard, OutcomeFacts DEF QuietInv, Quiet
  <2>3. Free(toDev, {"ram"})'
    BY <2>1, <2>2, FreeParts DEF Quiet
  <2> QED BY <2>1, <2>2, <2>3 DEF QuietInv
<1>20. CASE ReadNext /\ act = "verify"
  <2>1. /\ act' = "verify" /\ at + 1 \in Batch /\ Ask("verify", at + 1, by, tries)
        /\ UNCHANGED <<cur, slot, txn>> /\ "verify" \in Applying /\ "verify" \in Asking
    BY <1>20, OutcomeFacts DEF ReadNext, Ask, Applying, Asking
  <2>2. Said({"get"}) /\ Heard
    BY <1>1, <1>20, <2>1, AskSaid, RequestOp, PolledHeard DEF ReadNext
  <2>3. Quiet'
    BY <1>1, <1>20, <2>2, FreeSaid, FreeHeard, OutcomeFacts DEF QuietInv, Quiet, Writes
  <2> QED BY <1>20, <2>1, <2>3, OutcomeFacts DEF QuietInv, Open, Fresh
<1>14. CASE CommitStart \/ CommitNext
  <2>1. Open /\ act' = "commit" /\ cur' = cur /\ slot' = slot
    BY <1>14, OutcomeFacts DEF CommitStart, CommitNext, Keeping, Ask, Open, LiveInv
  <2>2. Said({"flash"})
    <3>1. CASE CommitStart
      BY <1>1, <3>1, AskSaid, RequestOp, OutcomeFacts DEF CommitStart, Asking
    <3>2. CASE CommitNext
      BY <1>1, <3>2, AskSaid, RequestOp, OutcomeFacts DEF CommitNext, Asking
    <3> QED BY <1>14, <3>1, <3>2
  <2>3. Free(toDev, {"ram"})'
    BY <1>1, <2>1, <2>2, FreeSaid, OutcomeFacts DEF QuietInv, Open
  <2> QED BY <2>1, <2>3 DEF QuietInv
<1>15. CASE CommitOK
  <2>1. Open /\ act' = "idle" /\ cur' = cur /\ toDev' = toDev /\ slot' = 0
    BY <1>15, OutcomeFacts DEF CommitOK, Rest
  <2> QED BY <1>1, <2>1, OutcomeFacts DEF QuietInv, Open
<1>16. CASE CommitFailed
  <2>1. Open /\ act = "commit" /\ act' = "idle" /\ cur' = cur /\ toDev' = toDev /\ slot' = slot
    BY <1>16, OutcomeFacts DEF CommitFailed, Rest
  <2>2. slot \in Txns /\ slot = cur
    BY <2>1, OutcomeFacts DEF Open
  <2>3. txn'[cur].late = (txn[cur].late \/ toHost' = toHost)
    BY <1>1, <1>16, <2>2, CommitFailedEffect
  <2>4. ASSUME ~txn'[cur].late PROVE Quiet'
    <3>1. Got("nak") /\ ~txn[cur].late
      BY <1>16, <2>3, <2>4, FailedHeard DEF CommitFailed
    <3>2. toDev = << >> /\ toHost' = << >>
      BY <1>1, <2>1, <3>1, OneEmpties DEF Acks
    <3> QED BY <2>1, <3>2, FreeEmpty DEF Quiet
  <2>5. Free(toDev, {"ram"})'
    BY <1>1, <2>1, OutcomeFacts DEF QuietInv, Open
  <2> QED BY <2>1, <2>4, <2>5 DEF QuietInv
<1>17. CASE RevertStart
  <2>1. act' = "restore" /\ cur' = cur /\ txn'[cur].done /\ txn'[cur].out = "none"
    <3>1. Open
      BY <1>17 DEF RevertStart, Open, Txns
    <3> QED BY <1>17, <3>1, OutcomeFacts DEF RevertStart
  <2> QED BY <2>1 DEF QuietInv, Open
<1>18. CASE RestoreNext
  <2>1. act = "restore" /\ act' = "restore" /\ cur' = cur /\ txn' = txn /\ slot' = slot
    BY <1>18 DEF RestoreNext, Ask
  <2> QED BY <1>1, <1>7, <2>1, OutcomeFacts DEF OutInv
<1>19. CASE RestoreEnd \/ RestoreReturn
  <2>1. act \in {"restore", "close"} /\ act' \in {"idle", "close"} /\ cur' = cur
    BY <1>19 DEF RestoreEnd, RestoreReturn, Rest
  <2>2. txn'[cur].done /\ txn'[cur].out # "committed"
    BY <1>1, <1>19, <2>1, RestoreEndEffect, RestoreReturnEffect, OutcomeFacts DEF OutInv
  <2> QED BY <1>7, <2>1, <2>2
<1> QED
  BY <1>1, <1>2, <1>3, <1>4, <1>5, <1>6, <1>8, <1>9, <1>10, <1>11, <1>12, <1>13, <1>14, <1>15,
     <1>16, <1>17, <1>18, <1>19, <1>20, StepKinds DEF Talking, ReadNext

\* A VALSET sent on a quiet line is the only one on it.
LEMMA OneOpens ==
  ASSUME OutcomeInv, NEW a \in {"commit", "restore"}, NEW b \in Batch,
         toDev' = Append(toDev, Request(a, b)), Free(toDev, Writes), Free(toHost', Acks),
         toHost' \in Seq(Reply), act' = a, at' = b, UNCHANGED <<cur, old>>
  PROVE  Exchange(toDev, toHost, Writes, Acks)' /\ Requests' /\ Free(toHost', {"ack"})
<1>1. a \in Asking
  BY DEF Asking
<1>2. /\ Request(a, b) \in Command /\ Request(a, b).b = b
      /\ a = "commit" => Request(a, b).op = "flash" /\ Request(a, b).v = cur
      /\ a = "restore" => Request(a, b).op = "ram" /\ Request(a, b).v = old[b]
  BY <1>1, RequestOp, OutcomeFacts
<1>3. PICK c \in Command : c = Request(a, b)
  BY <1>2
<1>4. /\ toDev' = Append(toDev, c) /\ c.b = b
      /\ a = "commit" => c.op = "flash" /\ c.v = cur
      /\ a = "restore" => c.op = "ram" /\ c.v = old[b]
  BY <1>2, <1>3
<1>5. Exchange(toDev, toHost, Writes, Acks)'
  BY <1>4, ExchangeOpens, OutcomeFacts
<1>6. Requests'
  <2>1. ASSUME NEW i \in DOMAIN toDev', toDev'[i].op \in Writes PROVE toDev'[i] = c
    <3>1. i \in DOMAIN toDev => toDev[i].op \notin Writes
      BY DEF Free
    <3> QED BY <1>4, <2>1, <3>1, AppendProperties, OutcomeFacts
  <2> QED BY <1>4, <2>1 DEF Requests, IsRequest
<1>7. Free(toHost', {"ack"})
  BY DEF Free, Acks
<1> QED BY <1>5, <1>6, <1>7

\* A step of the line keeps the exchange of a Commit or a revert.
LEMMA OneLine ==
  ASSUME OutcomeInv, Flushed, Flushed', LineStep, act \in {"commit", "restore"}, ~txn[cur].late
  PROVE  OneInv'
<1>1. /\ UNCHANGED <<txn, cur, act, at, old, slot>>
      /\ toDev' = toDev \/ (toDev # << >> /\ toDev' = Tail(toDev))
  BY DEF LineStep, DeviceStep, Lose, Skip
<1>2. Exchange(toDev, toHost, Writes, Acks) /\ Requests /\ Committing /\ Restoring
  BY DEF OutcomeInv, OneInv
<1>3. Exchange(toDev, toHost, Writes, Acks)'
  BY <1>2, ExchangeLine, OutcomeFacts
<1>4. Requests'
  <2>1. ASSUME NEW i \in DOMAIN toDev' PROVE \E j \in DOMAIN toDev : toDev[j] = toDev'[i]
    <3>1. CASE toDev' = toDev
      BY <2>1, <3>1
    <3>2. CASE toDev # << >> /\ toDev' = Tail(toDev)
      <4>1. toDev \in Seq(Command)
        BY OutcomeFacts
      <4> QED BY <2>1, <3>2, <4>1, HeadTailProperties
    <3> QED BY <1>1, <3>1, <3>2
  <2>2. ASSUME NEW i \in DOMAIN toDev', toDev'[i].op \in Writes
        PROVE  /\ toDev'[i].b = at
               /\ act = "commit" => toDev'[i].op = "flash" /\ toDev'[i].v = cur
               /\ act = "restore" => toDev'[i].op = "ram" /\ toDev'[i].v = old[at]
    <3>1. PICK j \in DOMAIN toDev : toDev[j] = toDev'[i]
      BY <2>1, <2>2
    <3>2. IsRequest(toDev[j])
      BY <1>2, <2>2, <3>1 DEF Requests
    <3> QED BY <3>1, <3>2 DEF IsRequest
  <2> QED BY <1>1, <2>2 DEF Requests, IsRequest
<1> SUFFICES Committing' /\ Restoring'
  BY <1>3, <1>4 DEF OneInv
<1>5. CASE DeviceStep
  <2> DEFINE c == Head(toDev)
  <2>1. /\ toDev # << >> /\ c \in Command
        /\ ram' = ram \/ (c.op = "ram" /\ ram' = [ram EXCEPT ![c.b] = c.v])
        /\ flash' = flash \/ (c.op = "flash" /\ flash' = [flash EXCEPT ![c.b] = c.v])
    BY <1>5, DeviceEffect, OutcomeFacts
  <2>2. PICK m \in Reply :
          /\ toHost' = toHost \/ toHost' = Append(toHost, m)
          /\ m.op \in Acks <=> c.op \in Writes
          /\ m.op = "ack" => /\ c.op = "ram" => ram' = [ram EXCEPT ![c.b] = c.v]
                             /\ c.op = "flash" => flash' = [flash EXCEPT ![c.b] = c.v]
    BY <1>5, DeviceEffect, OutcomeFacts
  <2>3. c.op \in Writes => IsRequest(c)
    <3>1. 1 \in DOMAIN toDev /\ c = toDev[1]
      BY <2>1, HeadTailProperties, OutcomeFacts
    <3> QED BY <1>2, <3>1 DEF Requests
  <2>4. Free(toHost, {"ack"})
    BY <1>2, <2>1, FreeParts DEF Exchange
  <2> HIDE DEF c
  <2>5. ~Free(toHost', {"ack"}) => m.op = "ack" /\ c.op \in Writes
    <3>1. toHost' = toHost => Free(toHost', {"ack"})
      BY <2>4
    <3>2. toHost' = Append(toHost, m) /\ m.op # "ack" => Free(toHost', {"ack"})
      BY <2>4, FreeAppend, OutcomeFacts
    <3>3. "ack" \in Acks
      BY DEF Acks
    <3> QED BY <2>2, <3>1, <3>2, <3>3
  <2>6. ram \in Layer /\ flash \in Layer /\ at \in Batch /\ cur \in Nat /\ at \in Nat
    BY OutcomeFacts DEF TypeOK, Batch
  <2>7. CASE act = "commit"
    <3>1. /\ flash' = flash \/ flash' = [flash EXCEPT ![at] = cur]
          /\ ~Free(toHost', {"ack"}) => flash' = [flash EXCEPT ![at] = cur]
      BY <2>1, <2>2, <2>3, <2>5, <2>7 DEF IsRequest, Writes
    <3>2. \A b \in Batch : b < at => flash[b] = cur
      BY <1>2, <2>7 DEF Committing
    <3>3. \A b \in Batch : b < at => flash'[b] = cur
      BY <2>6, <3>1, <3>2 DEF Layer, Batch
    <3>4. ~Free(toHost', {"ack"}) => flash'[at] = cur
      BY <2>6, <3>1 DEF Layer
    <3> QED BY <1>1, <2>7, <3>3, <3>4 DEF Committing, Restoring
  <2>8. CASE act = "restore"
    <3>1. /\ ram' = ram \/ ram' = [ram EXCEPT ![at] = old[at]]
          /\ ~Free(toHost', {"ack"}) => ram' = [ram EXCEPT ![at] = old[at]]
          /\ flash' = flash
      BY <2>1, <2>2, <2>3, <2>5, <2>8 DEF IsRequest, Writes
    <3>2. old[at] # cur
      BY <2>6, <2>8, OutcomeFacts, RxAssumption DEF OutcomeInv, LevelInv, TypeOK, Layer, Ver
    <3>3. ASSUME NEW b \in Batch, b < at PROVE Gone(b)'
      <4>1. Gone(b)
        BY <1>2, <2>8, <3>3 DEF Restoring
      <4>2. b # at
        BY <2>6, <3>3 DEF Batch
      <4>3. ram'[b] = ram[b]
        BY <2>6, <3>1, <4>2 DEF Layer
      <4> QED BY <1>1, <3>1, <4>1, <4>3 DEF Gone
    <3>4. ~Free(toHost', {"ack"}) => Gone(at)'
      <4>1. ASSUME ~Free(toHost', {"ack"}) PROVE ram'[at] = old[at]
        BY <2>6, <3>1, <4>1 DEF Layer
      <4> QED BY <1>1, <3>2, <4>1 DEF Gone
    <3> QED BY <1>1, <2>8, <3>3, <3>4 DEF Committing, Restoring
  <2> QED BY <2>7, <2>8
<1>6. CASE Lose \/ Skip
  <2>1. UNCHANGED <<ram, flash>> /\ (toHost' = toHost \/ (toHost # << >> /\ toHost' = Tail(toHost)))
    BY <1>6 DEF Lose, Skip
  <2>2. Free(toHost, {"ack"}) => Free(toHost', {"ack"})
    BY <2>1, FreeTail, OutcomeFacts
  <2> QED BY <1>1, <1>2, <2>1, <2>2 DEF Committing, Restoring, Gone
<1> QED BY <1>5, <1>6 DEF LineStep

LEMMA OneStep == ASSUME OutcomeInv, [Next]_vars PROVE OneInv'
<1> SUFFICES ASSUME Flushed', act' \in {"commit", "restore"}, ~txn'[cur'].late PROVE OneInv'
  BY DEF OneInv
<1>1. /\ Flushed /\ PhaseInv /\ QuietInv /\ FlushInv /\ OneInv /\ TypeOK /\ OutInv
      /\ toHost' \in Seq(Reply)
  BY OutcomeFacts, FlushedBack, StepType DEF OutcomeInv, TypeOK
<1>2. CASE Calm
  <2>1. UNCHANGED <<ram, flash, toDev, toHost, old, cur, act, at>> /\ SameFate(cur)
    BY <1>2, OutcomeFacts DEF Calm
  <2>2. (Requests => Requests') /\ (Committing => Committing') /\ (Restoring => Restoring')
    BY <2>1 DEF Requests, IsRequest, Committing, Restoring, Gone
  <2> QED BY <1>1, <2>1, <2>2 DEF OneInv, SameFate
<1>3. CASE LineStep
  <2>1. UNCHANGED <<txn, cur, act>>
    BY <1>3 DEF LineStep, DeviceStep, Lose, Skip
  <2> QED BY <1>1, <1>3, <2>1, OneLine
<1>4. CASE PowerCycle
  <2>1. /\ toDev' = << >> /\ toHost' = << >> /\ ram' = flash /\ UNCHANGED <<flash, cur, act, at, txn>>
    BY <1>4 DEF PowerCycle
  <2>2. \A b : Gone(b)'
    BY <2>1 DEF Gone
  <2>3. Free(toHost', {"ack"}) /\ Exchange(toDev, toHost, Writes, Acks)' /\ Requests'
    BY <2>1, FreeEmpty, ExchangeEmpty DEF Requests
  <2>4. Committing
    BY <1>1, <2>1 DEF OneInv
  <2>5. Committing' /\ Restoring'
    BY <2>1, <2>2, <2>3, <2>4 DEF Committing, Restoring
  <2> QED BY <2>3, <2>5 DEF OneInv
\* a VALSET of batch b is sent, and the batches before it are done
<1>5. ASSUME NEW b \in Batch, toDev' = Append(toDev, Request(act', b)), at' = b,
             Free(toDev, Writes), Free(toHost', Acks), UNCHANGED <<cur, old, ram, flash>>,
             act' = "commit" => \A k \in Batch : k < b => flash[k] = cur,
             act' = "restore" => \A k \in Batch : k < b => Gone(k)
      PROVE  OneInv'
  <2>1. Exchange(toDev, toHost, Writes, Acks)' /\ Requests' /\ Free(toHost', {"ack"})
    BY <1>1, <1>5, OneOpens
  <2>2. \A k : Gone(k) => Gone(k)'
    BY <1>5 DEF Gone
  <2>3. Committing' /\ Restoring'
    BY <1>5, <2>1, <2>2 DEF Committing, Restoring
  <2> QED BY <2>1, <2>3 DEF OneInv
<1>6. 1 \in Batch /\ \A k \in Batch : ~(k < 1)
  BY OutcomeFacts DEF Batch
<1>7. CASE WriteFailed
  <2>1. /\ act = "write" /\ toDev' = Append(toDev, Request("restore", 1)) /\ at' = 1
        /\ act' = "restore" /\ UNCHANGED <<cur, old, ram, flash>>
        /\ Got("nak") \/ toHost' = toHost
    BY <1>7, FailedHeard DEF WriteFailed, Ask
  <2>2. Got("nak")
    BY <1>1, <1>7, <2>1, WriteFailedEffect, OutcomeFacts
  <2>3. toDev = << >> /\ toHost' = << >>
    BY <1>1, <2>1, <2>2, AckEmpties DEF FlushInv, WriteInv, Acks
  <2> QED BY <1>5, <1>6, <2>1, <2>3, FreeEmpty
<1>8. CASE VerifyFailed
  <2>1. /\ act = "verify" /\ toDev' = Append(toDev, Request("restore", 1)) /\ at' = 1
        /\ act' = "restore" /\ UNCHANGED <<cur, old>>
    BY <1>8 DEF VerifyFailed, BadRead, Ask
  <2>2. Heard /\ UNCHANGED <<ram, flash>>
    <3>1. ReadFailed \/ ReadDone
      BY <1>8 DEF VerifyFailed, BadRead
    <3> QED BY <3>1, BadReadHeard
  <2>3. Free(toDev, Writes) /\ Free(toHost, Acks)'
    BY <1>1, <2>1, <2>2, FreeHeard, OutcomeFacts DEF QuietInv, Quiet
  <2> QED BY <1>5, <1>6, <2>1, <2>2, <2>3
<1>9. CASE CommitStart
  <2>1. /\ act = "idle" /\ Open /\ toDev' = Append(toDev, Request("commit", 1)) /\ at' = 1
        /\ act' = "commit" /\ UNCHANGED <<cur, old, ram, flash, toHost>>
        /\ slot \in Txns /\ slot = cur
    BY <1>9, OutcomeFacts DEF CommitStart, Keeping, Ask, Open
  <2>2. ~txn[cur].late
    BY <1>9 DEF CommitStart
  <2>3. cur # 0
    BY <2>1, OutcomeFacts DEF Open
  <2>4. Free(toDev, Writes) /\ Free(toHost, Acks)
    BY <1>1, <2>1, <2>2, <2>3 DEF QuietInv, Quiet
  <2> QED BY <1>5, <1>6, <2>1, <2>4
<1>10. CASE RevertStart
  <2>1. /\ act = "idle" /\ Open /\ toDev' = Append(toDev, Request("restore", 1)) /\ at' = 1
        /\ act' = "restore" /\ UNCHANGED <<cur, old, ram, flash, toHost>> /\ ~txn[cur].late
    BY <1>10 DEF RevertStart, Open, Txns
  <2>2. cur # 0
    BY <2>1, OutcomeFacts DEF Open
  <2>3. Free(toDev, Writes) /\ Free(toHost, Acks)
    BY <1>1, <2>1, <2>2 DEF QuietInv, Quiet
  <2> QED BY <1>5, <1>6, <2>1, <2>3
<1>11. CASE CommitNext \/ RestoreNext
  <2>1. /\ act \in {"commit", "restore"} /\ act' = act /\ at < NBatch /\ Got("ack")
        /\ toDev' = Append(toDev, Request(act, at + 1)) /\ at' = at + 1
        /\ UNCHANGED <<cur, old, ram, flash, txn>>
    BY <1>11, GotHeard DEF CommitNext, RestoreNext, Ask
  <2>2. toDev = << >> /\ toHost' = << >>
    BY <1>1, <2>1, OneEmpties DEF Acks
  <2>3. ~Free(toHost, {"ack"})
    <3>1. toHost # << >> /\ Head(toHost).op = "ack"
      BY <2>1, GotHeard
    <3> QED BY <3>1, FreeHead, OutcomeFacts
  <2>4. at + 1 \in Batch /\ \A k \in Batch : k < at + 1 => k < at \/ k = at
    BY <2>1, OutcomeFacts DEF Batch
  <2>5. /\ act = "commit" => \A k \in Batch : k < at + 1 => flash[k] = cur
        /\ act = "restore" => \A k \in Batch : k < at + 1 => Gone(k)
    BY <1>1, <2>1, <2>3, <2>4 DEF OneInv, Committing, Restoring
  <2> QED BY <1>5, <2>1, <2>2, <2>4, <2>5, FreeEmpty
<1>12. ~Forget /\ ~BeginApply /\ ~HelloOK /\ (Talking => WriteFailed \/ VerifyFailed \/ CommitStart
        \/ RevertStart \/ CommitNext \/ RestoreNext)
  BY DEF Forget, Rest, BeginApply, HelloOK, Talking, Refuse, ReadNext, SnapOK, WriteOK, VerifyRetry,
         VerifyOK, CommitOK, CommitFailed, RestoreEnd, RestoreReturn, Ask
<1> QED
  BY <1>1, <1>2, <1>3, <1>4, <1>7, <1>8, <1>9, <1>10, <1>11, <1>12, StepKinds

LEMMA SettledStep == ASSUME OutcomeInv, [Next]_vars PROVE SettledInv'
<1> SUFFICES ASSUME Flushed', cur' # 0, ~txn'[cur'].late PROVE SettledInv'
  BY DEF SettledInv
<1>1. /\ Flushed /\ PhaseInv /\ OneInv /\ SettledInv /\ TypeOK /\ OutInv
  BY OutcomeFacts, FlushedBack DEF OutcomeInv
<1>2. CASE UNCHANGED <<ram, flash, toDev, cur>> /\ txn'[cur].out = txn[cur].out /\ ~txn[cur].late
  BY <1>1, <1>2 DEF SettledInv, Gone
<1>3. CASE Calm
  <2>1. UNCHANGED <<ram, flash, toDev, cur>> /\ SameFate(cur)
    BY <1>3, OutcomeFacts DEF Calm
  <2> QED BY <1>2, <2>1 DEF SameFate
<1>4. CASE LineStep
  <2>1. UNCHANGED <<txn, cur>>
    BY <1>4 DEF LineStep, DeviceStep, Lose, Skip
  <2>2. ASSUME Free(toDev, Writes) PROVE Free(toDev, Writes)' /\ UNCHANGED <<ram, flash>>
    <3>1. Free(toDev, Writes)'
      BY <1>1, <1>4, <2>2, FreeLine
    <3>2. DeviceStep => UNCHANGED <<ram, flash>>
      BY <1>1, <2>2, DeviceEffect, FreeHead, OutcomeFacts DEF Writes
    <3> QED BY <1>4, <3>1, <3>2 DEF LineStep, Lose, Skip
  <2> QED BY <1>1, <2>1, <2>2 DEF SettledInv, Gone
<1>5. CASE PowerCycle
  <2>1. toDev' = << >> /\ ram' = flash /\ UNCHANGED <<flash, cur, txn>>
    BY <1>5 DEF PowerCycle
  <2> QED BY <1>1, <2>1, FreeEmpty DEF SettledInv, Gone
<1>6. CASE Forget
  <2>1. UNCHANGED <<ram, flash, toDev, cur>> /\ Untouched(cur)
    BY <1>1, <1>6, ForgetEffect, OutcomeFacts DEF Forget
  <2> QED BY <1>2, <2>1 DEF Untouched
<1>7. ASSUME txn'[cur'].out \notin {"committed", "reverted"} PROVE SettledInv'
  BY <1>7 DEF SettledInv
<1>8. CASE BeginApply
  <2>1. cur' = cur + 1 /\ cur + 1 \in Txns /\ cur + 1 > cur
    BY <1>1, <1>8, RxAssumption DEF BeginApply, TypeOK, Ver, Txns
  <2>2. txn'[cur'].out = "none"
    BY <1>1, <1>8, <2>1, BeginApplyEffect, OutcomeFacts DEF FreshInv, Fresh, Untouched
  <2> QED BY <1>7, <2>2
<1>9. CASE HelloOK \/ ReadNext \/ SnapOK \/ WriteOK \/ VerifyRetry
  <2>1. act \in Applying /\ UNCHANGED <<txn, cur>>
    BY <1>9 DEF HelloOK, ReadNext, SnapOK, WriteOK, VerifyRetry, BadRead, Applying
  <2> QED BY <1>7, <2>1, OutcomeFacts DEF Fresh
<1>10. CASE Refuse \/ WriteFailed \/ VerifyFailed \/ VerifyOK
  <2>1. act \in Applying /\ cur' = cur
    BY <1>10 DEF Refuse, WriteFailed, VerifyFailed, BadRead, VerifyOK, Verified, Applying
  <2> QED BY <1>1, <1>7, <1>10, <2>1, RefuseEffect, WriteFailedEffect, VerifyFailedEffect,
             VerifyOKEffect, OutcomeFacts DEF Fresh, Applying
<1>11. CASE CommitStart \/ CommitNext \/ CommitFailed
  <2>1. Open /\ cur' = cur /\ slot \in Txns /\ slot = cur
    BY <1>11, OutcomeFacts DEF CommitStart, CommitNext, CommitFailed, Keeping, Open
  <2>2. txn'[cur].out = txn[cur].out
    BY <1>1, <1>11, <2>1, CommitFailedEffect DEF CommitStart, CommitNext
  <2> QED BY <1>7, <2>1, <2>2, OutcomeFacts
<1>12. CASE RevertStart
  <2>1. Open /\ cur' = cur /\ txn'[cur].out = txn[cur].out
    BY <1>12 DEF RevertStart, Open, Txns
  <2> QED BY <1>7, <2>1, OutcomeFacts
<1>13. CASE RestoreNext
  <2>1. act = "restore" /\ UNCHANGED <<cur, txn>>
    BY <1>13 DEF RestoreNext
  <2> QED BY <1>1, <1>7, <2>1 DEF OutInv
<1>14. CASE RestoreReturn
  <2>1. /\ UNCHANGED <<ram, flash, toDev, cur>>
        /\ txn'[cur].out = txn[cur].out /\ txn'[cur].late = txn[cur].late
    BY <1>1, <1>14, RestoreReturnEffect, OutcomeFacts DEF RestoreReturn
  <2> QED BY <1>2, <2>1
\* the last acknowledgement of a Commit or of a revert
<1>15. ASSUME act \in {"commit", "restore"}, at = NBatch, Got("ack"), ~txn[cur].late
       PROVE  /\ toDev = << >> /\ UNCHANGED <<ram, flash>>
              /\ act = "commit" => \A b \in Batch : flash[b] = cur
              /\ act = "restore" => \A b \in Batch : Gone(b)
  <2>1. toDev = << >> /\ UNCHANGED <<ram, flash>>
    BY <1>1, <1>15, OneEmpties, GotHeard DEF Acks
  <2>2. ~Free(toHost, {"ack"})
    <3>1. toHost # << >> /\ Head(toHost).op = "ack"
      BY <1>15, GotHeard
    <3> QED BY <3>1, FreeHead, OutcomeFacts
  <2>3. \A b \in Batch : b < at \/ b = at
    BY <1>15, RxAssumption DEF Batch
  <2> QED BY <1>1, <1>15, <2>1, <2>2, <2>3 DEF OneInv, Committing, Restoring
<1>16. CASE CommitOK
  <2>1. act = "commit" /\ at = NBatch /\ Got("ack") /\ UNCHANGED <<toDev, cur>> /\ slot = cur /\ slot \in Txns
    BY <1>16, OutcomeFacts DEF CommitOK, Open
  <2>2. ~txn[cur].late /\ txn'[cur].out = "committed"
    BY <1>1, <1>16, <2>1, CommitOKEffect
  <2> QED BY <1>15, <2>1, <2>2, FreeEmpty DEF SettledInv
<1>17. CASE RestoreEnd
  <2>1. act = "restore" /\ UNCHANGED <<toDev, cur>> /\ cur \in Txns
    BY <1>17, OutcomeFacts DEF RestoreEnd
  <2>2. /\ txn'[cur].out = "reverted" => at = NBatch /\ Got("ack")
        /\ txn'[cur].out # "committed" /\ ~txn[cur].late
    BY <1>1, <1>17, <2>1, RestoreEndEffect
  <2>3. CASE txn'[cur].out = "reverted"
    <3>1. \A b \in Batch : Gone(b)'
      BY <1>15, <2>1, <2>2, <2>3 DEF Gone
    <3> QED BY <1>15, <2>1, <2>2, <2>3, <3>1, FreeEmpty DEF SettledInv
  <2> QED BY <1>7, <2>1, <2>2, <2>3
<1> QED
  BY <1>1, <1>3, <1>4, <1>5, <1>6, <1>8, <1>9, <1>10, <1>11, <1>12, <1>13, <1>14, <1>16, <1>17,
     StepKinds DEF Talking

\* What the operator was told is what the receiver does, for every change that
\* found the line flushed: one reported as kept is in Flash completely and nothing
\* that undoes it is on its way, one reported as reverted is gone (Commit, revertNow,
\* valSet's acknowledgements).
THEOREM OutcomesAreTrue == Spec => []OutcomeIsTrue
<1>1. Init => OutcomeInv
  <2>1. ASSUME Init PROVE OutcomeInv
    <3>1. Within(0) /\ cur = 0 /\ slot = 0 /\ act = "idle"
      BY <2>1, RxAssumption DEF Init, Within
    <3> QED BY <2>1, <3>1, InitPhase
            DEF OutcomeInv, LevelInv, Level, QuietInv, OneInv, SettledInv
  <2> QED BY <2>1
<1>2. OutcomeInv /\ [Next]_vars => OutcomeInv'
  BY PhaseStep, FlushStep, LevelStep, QuietStep, OneStep, SettledStep DEF OutcomeInv
<1>3. OutcomeInv => OutcomeIsTrue
  <2> SUFFICES ASSUME OutcomeInv, Flushed PROVE KeptIsNotUndone /\ KeptIsDurable /\ RevertedIsGone
    BY DEF OutcomeIsTrue
  <2>1. cur \in Kept => cur # 0 /\ txn[cur].out = "committed"
    BY DEF Kept, Txns
  <2>2. KeptIsNotUndone
    BY <2>1 DEF OutcomeInv, QuietInv, Free, KeptIsNotUndone
  <2>3. KeptIsDurable /\ RevertedIsGone
    BY <2>1 DEF OutcomeInv, SettledInv, Gone, KeptIsDurable, RevertedIsGone
  <2> QED BY <2>2, <2>3
<1> QED BY <1>1, <1>2, <1>3, PTL DEF Spec

-----------------------------------------------------------------------------
(***************************************************************************)
(* The abstract trial                                                      *)
(***************************************************************************)
\* what Trial's variables phase and kept stand for
Phase == IF slot = 0 THEN "steady" ELSE IF txn[slot].done THEN "refused" ELSE "trial"
LastOf(K) == IF K = {} THEN 0 ELSE CHOOSE t \in K : \A u \in K : u <= t

\* the kept changes have a last one, and none is later than the present one
KeptInv ==
  /\ \A t \in Kept : t <= cur
  /\ Kept # {} => \E t \in Kept : \A u \in Kept : u <= t

TrialInv == PhaseInv /\ KeptInv

LEMMA LastOfIs ==
  ASSUME NEW K \in SUBSET Nat, NEW m \in K, \A u \in K : u <= m
  PROVE  LastOf(K) = m
<1>1. PICK n \in K : n = (CHOOSE t \in K : \A u \in K : u <= t) /\ \A u \in K : u <= n
  OBVIOUS
<1>2. n = m
  BY <1>1
<1> QED BY <1>1, <1>2 DEF LastOf

\* The facts of TrialInv the cases need.
LEMMA TrialFacts ==
  ASSUME TrialInv
  PROVE  /\ TypeOK /\ LiveInv /\ FreshInv /\ OutInv /\ PhaseInv
         /\ cur \in Nat /\ slot \in Nat /\ Kept \in SUBSET Nat /\ Kept \in SUBSET Txns
         /\ slot # 0 => slot = cur /\ slot \in Txns /\ 0 \notin Txns
         /\ act # "idle" => cur \in Txns
         /\ act \in Applying => slot = 0 /\ Fresh(cur)
         /\ act = "commit" => slot # 0
<1>1. TypeOK /\ LiveInv /\ FreshInv /\ OutInv /\ PhaseInv
  BY DEF TrialInv, PhaseInv, LiveInv
<1>2. /\ cur \in Nat /\ slot \in Nat
      /\ slot # 0 => slot = cur /\ slot \in Txns /\ 0 \notin Txns
      /\ act # "idle" => cur \in Txns
      /\ act \in Applying => slot = 0 /\ Fresh(cur)
      /\ act = "commit" => slot # 0
  BY <1>1, RxAssumption DEF Ver, Txns, LiveInv, TypeOK, FreshInv, OutInv, Applying
<1>3. Kept \in SUBSET Nat /\ Kept \in SUBSET Txns
  BY DEF Kept, Txns
<1> QED BY <1>1, <1>2, <1>3

\* A step that keeps the kept changes and the slot's mark, and at most empties
\* the slot, is a stutter of the trial or its end.
LEMMA NothingKept ==
  ASSUME TrialInv, cur' \in Nat, cur <= cur', slot' \in {0, slot},
         \A t \in Txns : txn'[t].out = "committed" <=> txn[t].out = "committed",
         slot # 0 => txn'[slot].done = txn[slot].done
  PROVE  KeptInv' /\ [Trial!Next]_(Trial!vars)
<1>1. Kept' = Kept
  BY DEF Kept
<1>2. KeptInv'
  BY <1>1, TrialFacts DEF TrialInv, KeptInv
<1>3. LastOf(Kept') = LastOf(Kept)
  BY <1>1
<1>4. CASE slot' = slot
  <2>1. Phase' = Phase
    BY <1>4 DEF Phase
  <2> QED BY <1>2, <1>3, <1>4, <2>1 DEF Trial!vars, Phase, LastOf
<1>5. CASE slot' = 0 /\ slot # 0
  <2>1. Phase # "steady" /\ Phase' = "steady"
    BY <1>5 DEF Phase
  <2>2. Trial!Leave
    BY <1>3, <1>5, <2>1 DEF Trial!Leave, Phase, LastOf
  <2> QED BY <1>2, <2>2 DEF Trial!Next
<1> QED BY <1>4, <1>5

LEMMA TrialStep ==
  ASSUME TrialInv, [Next]_vars
  PROVE  KeptInv' /\ [Trial!Next]_(Trial!vars)
<1>1. PhaseInv'
  BY PhaseStep, TrialFacts
<1>2. CASE Calm
  BY <1>2, NothingKept, TrialFacts DEF Calm, SameFate
<1>3. CASE RevertStart
  <2>1. /\ Kept' = Kept /\ slot' = slot /\ cur' = cur /\ slot # 0
        /\ ~txn[slot].done /\ txn'[slot].done
    BY <1>3, TrialFacts DEF RevertStart, Kept, Others, Untouched, Txns
  <2>2. Trial!Refuse
    BY <2>1 DEF Trial!Refuse
  <2> QED BY <2>1, <2>2, TrialFacts DEF Trial!Next, TrialInv, KeptInv
<1>4. CASE LineStep \/ PowerCycle
  BY <1>4, NothingKept, TrialFacts DEF LineStep, DeviceStep, Lose, Skip, PowerCycle
<1>5. CASE Forget
  <2>1. slot' = 0 /\ cur' = cur /\ \A t \in Txns : Untouched(t)
    BY <1>5, ForgetEffect, TrialFacts DEF Forget
  <2> QED BY <2>1, NothingKept, TrialFacts DEF Untouched
<1>6. CASE BeginApply
  <2>1. slot' = slot /\ cur' = cur + 1 /\ slot = 0
    BY <1>6 DEF BeginApply
  <2>2. \A t \in Txns : Untouched(t)
    BY <1>6, BeginApplyEffect, TrialFacts
  <2> QED BY <2>1, <2>2, NothingKept, TrialFacts DEF Untouched
<1>8. CASE HelloOK \/ ReadNext \/ SnapOK \/ WriteOK \/ VerifyRetry \/ CommitStart \/ CommitNext
            \/ RestoreNext
  <2>1. UNCHANGED <<cur, slot, txn>>
    BY <1>8 DEF HelloOK, ReadNext, SnapOK, WriteOK, VerifyRetry, CommitStart, CommitNext, RestoreNext
  <2> QED BY <2>1, NothingKept, TrialFacts
<1>9. CASE Refuse \/ WriteFailed \/ VerifyFailed
  <2>1. /\ slot = 0 /\ slot' = slot /\ cur' = cur /\ cur \in Txns /\ Fresh(cur)
        /\ act \in Applying
    BY <1>9, TrialFacts DEF Refuse, WriteFailed, VerifyFailed, BadRead, Applying
  <2>2. Others(cur) /\ txn'[cur].out # "committed" /\ txn[cur].out # "committed"
    BY <1>9, <2>1, RefuseEffect, WriteFailedEffect, VerifyFailedEffect, TrialFacts DEF Fresh
  <2> QED BY <2>1, <2>2, NothingKept, TrialFacts DEF Others, Untouched
\* the new values are verified: the trial begins
<1>10. CASE VerifyOK
  <2>1. slot = 0 /\ slot' = cur /\ cur' = cur /\ cur \in Txns /\ Fresh(cur) /\ act = "verify"
    BY <1>10, TrialFacts DEF VerifyOK, Verified, Applying
  <2>2. /\ Others(cur) /\ ~txn'[cur].done
        /\ txn'[cur].out # "committed" /\ txn[cur].out # "committed"
    BY <1>10, <2>1, VerifyOKEffect, TrialFacts DEF Fresh
  <2>3. Kept' = Kept /\ cur \notin Kept
    BY <2>2 DEF Kept, Others, Untouched
  <2>4. LastOf(Kept) < cur
    <3>1. CASE Kept = {}
      BY <2>1, <3>1 DEF LastOf, Txns
    <3>2. CASE Kept # {}
      <4>1. PICK m \in Kept : \A u \in Kept : u <= m
        BY <3>2 DEF TrialInv, KeptInv
      <4>2. m \in Nat /\ m <= cur /\ m # cur
        BY <2>3, <4>1, TrialFacts DEF TrialInv, KeptInv
      <4> QED BY <4>1, <4>2, LastOfIs, TrialFacts
    <3> QED BY <3>1, <3>2
  <2>5. Trial!Offer(cur)
    BY <2>1, <2>2, <2>3, <2>4 DEF Trial!Offer, LastOf, Txns
  <2> QED BY <2>1, <2>3, <2>5, TrialFacts DEF Trial!Next, TrialInv, KeptInv
<1>11. CASE CommitOK
  <2>1. slot = cur /\ slot # 0 /\ slot \in Txns /\ ~txn[slot].done /\ slot' = 0 /\ cur' = cur
    BY <1>11, TrialFacts DEF CommitOK, OutInv
  <2>2. Others(slot) /\ txn'[slot].out = "committed"
    BY <1>11, <2>1, CommitOKEffect, TrialFacts
  <2>3. Kept' = Kept \cup {slot}
    BY <2>1, <2>2 DEF Kept, Others, Untouched
  <2>4. \A u \in Kept' : u <= slot /\ u \in Nat
    BY <2>1, <2>3, TrialFacts DEF TrialInv, KeptInv
  <2>5. LastOf(Kept') = slot
    <3> DEFINE K == Kept \cup {slot}
    <3>1. K \in SUBSET Nat /\ slot \in K /\ \A u \in K : u <= slot
      BY <2>3, <2>4
    <3> HIDE DEF K
    <3>2. LastOf(K) = slot
      BY <3>1, LastOfIs
    <3> QED BY <2>3, <3>2 DEF K
  <2>6. Trial!Keep
    BY <2>1, <2>5 DEF Trial!Keep, LastOf
  <2> QED BY <2>1, <2>3, <2>4, <2>6 DEF Trial!Next, KeptInv
<1>12. CASE CommitFailed
  <2>1. slot = cur /\ slot \in Txns /\ slot' = slot /\ cur' = cur
    BY <1>12, TrialFacts DEF CommitFailed
  <2>2. Others(slot) /\ txn'[slot].done = txn[slot].done /\ txn'[slot].out = txn[slot].out
    BY <1>12, <2>1, CommitFailedEffect, TrialFacts
  <2> QED BY <2>1, <2>2, NothingKept, TrialFacts DEF Others, Untouched
<1>13. CASE RestoreEnd
  <2>1. act = "restore" /\ cur \in Txns /\ slot' = slot /\ cur' = cur /\ txn[cur].out = "none"
    BY <1>13, TrialFacts DEF RestoreEnd, OutInv
  <2>2. Others(cur) /\ txn'[cur].done = txn[cur].done /\ txn'[cur].out # "committed"
    BY <1>13, <2>1, RestoreEndEffect, TrialFacts
  <2> QED BY <2>1, <2>2, NothingKept, TrialFacts DEF Others, Untouched
<1>14. CASE RestoreReturn
  <2>1. cur \in Txns /\ slot' \in {0, slot} /\ cur' = cur
    BY <1>14, TrialFacts DEF RestoreReturn
  <2>2. Others(cur) /\ txn'[cur].done = txn[cur].done /\ txn'[cur].out = txn[cur].out
    BY <1>14, <2>1, RestoreReturnEffect, TrialFacts
  <2> QED BY <2>1, <2>2, NothingKept, TrialFacts DEF Others, Untouched
<1> QED
  BY <1>2, <1>3, <1>4, <1>5, <1>6, <1>8, <1>9, <1>10, <1>11, <1>12, <1>13, <1>14,
     StepKinds, TrialFacts DEF Talking

\* Slot, timer, Keep, Revert, the watcher, restarts and power cycles implement
\* a trial: a change is on trial alone, is kept or refused once, and the last
\* change kept only ever gives way to a later one (receiver_api.go, Commit,
\* revertNow).
THEOREM TrialIsDecided == Spec => Trial!Safety
<1>1. Init => TrialInv /\ Trial!Init
  <2>1. ASSUME Init PROVE Kept = {} /\ slot = 0
    <3>1. \A t \in Txns : txn[t] = NoTxn
      BY <2>1 DEF Init
    <3> QED BY <2>1, <3>1 DEF Init, NoTxn, Kept
  <2> QED BY <2>1, InitPhase DEF TrialInv, KeptInv, Trial!Init
<1>2. TrialInv /\ [Next]_vars => TrialInv' /\ [Trial!Next]_(Trial!vars)
  BY TrialStep, PhaseStep DEF TrialInv
<1> QED BY <1>1, <1>2, PTL DEF Spec, Trial!Safety

=============================================================================
