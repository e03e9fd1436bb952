------------------------------ MODULE HubProofs ------------------------------
(***************************************************************************)
(* Proofs about Hub, for any outputs, sessions and filters, any capacities *)
(* and any number of frames and reconnections.                             *)
(***************************************************************************)
EXTENDS Hub, FiniteSetTheorems, SequenceTheorems, TLAPS

USE HubAssumption DEF HubAssumption

-----------------------------------------------------------------------------
(***************************************************************************)
(* What kinds of steps there are                                           *)
(***************************************************************************)
upstream == <<ctx, run, conn, open, scan, read, pipe, dispatched, writer>>

\* A subscription begins or ends, or its reader takes a frame.
Local ==
  \/ \E s \in Subs : Subscribe(s) \/ CloseSub(s) \/ Receive(s) \/ ControlLock(s)
  \/ ControlOpen \/ ControlRefuse \/ ControlAsk \/ ControlRead \/ ControlOverdue
  \/ ControlClose

LEMMA LocalSteps ==
  ASSUME Local  PROVE UNCHANGED upstream
BY DEF Local, Subscribe, CloseSub, Receive, Take, ControlLock, ControlOpen, ControlRefuse,
       ControlAsk, ControlRead, ControlOverdue, ControlClose, line, upstream

\* Only dispatch and the readers touch what is queued and counted.
LEMMA QueueSteps ==
  ASSUME [Next]_vars, ctl \in Sessions \cup {"none"}
  PROVE  \/ UNCHANGED <<q, got, dropped, dispatched>>
         \/ Dispatch
         \/ \E s \in Subs : Take(s)
BY DEF Next, vars, Run, OpenInput, PumpEnd, ClearWriter, CloseInput, Retry, Cancel, Scan,
       ScanPush, ScanCancelled, ScanFrame, ScanEnd, Subscribe, CloseSub, ControlLock,
       ControlOpen, ControlRefuse, ControlAsk, ControlRead, ControlOverdue,
       ControlClose, Receive, Subs

\* Only these begin or end a subscription.
LEMMA SubSteps ==
  ASSUME [Next]_vars
  PROVE  \/ UNCHANGED <<subs, state, from, ctl>>
         \/ \E s \in Subs : Subscribe(s) \/ CloseSub(s) \/ ControlLock(s)
         \/ ControlOpen \/ ControlRefuse \/ ControlClose
BY DEF Next, vars, Run, OpenInput, PumpEnd, ClearWriter, CloseInput, Retry, Cancel, Scan,
       ScanPush, ScanCancelled, ScanFrame, ScanEnd, Dispatch, DispatchTo, Receive, Take,
       ControlAsk, ControlRead, ControlOverdue

-----------------------------------------------------------------------------
(***************************************************************************)
(* The input and the pump                                                  *)
(***************************************************************************)
Held == IF scan = "holding" THEN 1 ELSE 0

InputType ==
  /\ ctx \in BOOLEAN
  /\ run \in {"opening", "pumping", "ended", "closing", "waiting", "stopped"}
  /\ conn \in 0..MaxConn /\ open \in BOOLEAN
  /\ scan \in {"off", "reading", "holding", "ended"}
  /\ read \in 0..MaxFrame /\ dispatched \in 0..MaxFrame
  /\ pipe \in Seq(Frames) /\ Len(pipe) <= PipeCap
  /\ writer \in 0..MaxConn

\* The frames channel holds the frames after the last one dispatched, in order;
\* only a scanner that the cancellation ended may have kept one for itself.
Flow ==
  /\ \A i \in 1..Len(pipe) : pipe[i] = dispatched + i
  /\ dispatched + Len(pipe) + Held <= read
  /\ dispatched + Len(pipe) + Held = read \/ (ctx /\ scan = "ended")

\* While the daemon runs, Run is not between two inputs unless pump is done.
Between ==
  run \in {"ended", "closing", "waiting", "opening"} /\ ~ctx
    => scan \in {"off", "ended"} /\ pipe = << >>

\* Hub.writer is there while pump reads the connection, and no longer.
Writing ==
  /\ run \in {"pumping", "ended", "closing"} => open
  /\ writer # 0 => writer = conn /\ run \in {"pumping", "ended"}

InputInv == InputType /\ Flow /\ Between /\ Writing

LEMMA InputStep ==
  ASSUME InputInv, [Next]_vars  PROVE InputInv'
<1> USE DEF InputInv
<1>1. read \in Nat /\ dispatched \in Nat /\ Len(pipe) \in Nat /\ pipe \in Seq(Frames)
  BY LenProperties DEF InputType
<1>2. CASE OpenInput
  <2>1. pipe = << >> /\ dispatched = read /\ scan # "holding"
    BY <1>1, <1>2, EmptySeq DEF OpenInput, Between, Flow, Held
  <2>2. /\ pipe' = << >> /\ Len(<< >>) = 0 /\ << >> \in Seq(Frames) /\ PipeCap >= 0
        /\ scan' = "reading" /\ UNCHANGED <<ctx, read, dispatched>>
    BY <1>2, EmptySeq DEF OpenInput
  <2>3. Flow'  BY <1>1, <2>1, <2>2 DEF Flow, Held
  <2>4. /\ run' = "pumping" /\ writer' = conn + 1 /\ conn' = conn + 1 /\ open'
        /\ conn < MaxConn
    BY <1>2 DEF OpenInput
  <2>5. open' \in BOOLEAN  BY <1>2 DEF OpenInput
  <2>6. InputType'  BY <2>2, <2>4, <2>5 DEF InputType
  <2> QED BY <2>3, <2>4, <2>6 DEF Between, Writing
<1>3. CASE PumpEnd
  <2>1. run = "pumping" /\ run' = "ended" /\ ((scan = "ended" /\ pipe = << >>) \/ ctx)
        /\ UNCHANGED <<ctx, conn, open, scan, read, pipe, dispatched, writer>>
    BY <1>3 DEF PumpEnd
  <2> QED BY <2>1 DEF InputType, Flow, Held, Between, Writing
<1>4. CASE ClearWriter
  <2>1. run = "ended" /\ run' = "closing" /\ writer' = 0
        /\ UNCHANGED <<ctx, conn, open, scan, read, pipe, dispatched>>
    BY <1>4 DEF ClearWriter
  <2> QED BY <2>1 DEF InputType, Flow, Held, Between, Writing
<1>5. CASE CloseInput
  <2>1. run = "closing" /\ run' = (IF ctx THEN "stopped" ELSE "waiting")
        /\ UNCHANGED <<ctx, conn, scan, read, pipe, dispatched, writer>>
    BY <1>5 DEF CloseInput
  <2>2. open' \in BOOLEAN  BY <1>5 DEF CloseInput
  <2> QED BY <2>1, <2>2 DEF InputType, Flow, Held, Between, Writing
<1>6. CASE Retry
  <2>1. run \in {"waiting", "opening"} /\ run' = (IF ctx THEN "stopped" ELSE "opening")
        /\ UNCHANGED <<ctx, conn, open, scan, read, pipe, dispatched, writer>>
    BY <1>6 DEF Retry
  <2> QED BY <2>1 DEF InputType, Flow, Held, Between, Writing
<1>7. CASE Cancel
  <2>1. ~ctx /\ ctx' /\ UNCHANGED <<run, conn, open, scan, read, pipe, dispatched, writer>>
    BY <1>7 DEF Cancel
  <2>2. ctx' \in BOOLEAN  BY <1>7 DEF Cancel
  <2> QED BY <2>1, <2>2 DEF InputType, Flow, Held, Between, Writing
<1>8. CASE ScanFrame
  <2>1. scan = "reading" /\ scan' = "holding" /\ read < MaxFrame /\ read' = read + 1
        /\ UNCHANGED <<ctx, run, conn, open, pipe, dispatched, writer>>
    BY <1>8 DEF ScanFrame
  <2>2. dispatched + Len(pipe) = read  BY <1>1, <2>1 DEF Flow, Held
  <2>3. Flow'  BY <1>1, <2>1, <2>2 DEF Flow, Held
  <2>4. InputType'  BY <1>1, <2>1 DEF InputType
  <2> QED BY <2>1, <2>3, <2>4 DEF Between, Writing
<1>9. CASE ScanPush
  <2>1. scan = "holding" /\ scan' = "reading" /\ Len(pipe) < PipeCap
        /\ pipe' = Append(pipe, read)
        /\ UNCHANGED <<ctx, run, conn, open, read, dispatched, writer>>
    BY <1>9 DEF ScanPush
  <2>2. dispatched + Len(pipe) + 1 = read  BY <1>1, <2>1 DEF Flow, Held
  <2>3. read \in Frames  BY <1>1, <2>2 DEF InputType, Frames
  <2>4. /\ pipe' \in Seq(Frames) /\ Len(pipe') = Len(pipe) + 1
        /\ \A i \in 1..Len(pipe) : pipe'[i] = pipe[i]
        /\ pipe'[Len(pipe) + 1] = read
    BY <1>1, <2>1, <2>3, AppendProperties
  <2>5. \A i \in 1..Len(pipe') : pipe'[i] = dispatched + i
    <3> SUFFICES ASSUME NEW i \in 1..Len(pipe')  PROVE pipe'[i] = dispatched + i
      OBVIOUS
    <3>1. CASE i = Len(pipe) + 1  BY <1>1, <2>2, <2>4, <3>1
    <3>2. CASE i \in 1..Len(pipe)  BY <2>4, <3>2 DEF Flow
    <3> QED BY <1>1, <2>4, <3>1, <3>2
  <2>6. Flow'  BY <1>1, <2>1, <2>2, <2>4, <2>5 DEF Flow, Held
  <2>7. Len(pipe') <= PipeCap  BY <1>1, <2>1, <2>4
  <2>8. InputType'  BY <2>1, <2>4, <2>7 DEF InputType
  <2> QED BY <2>1, <2>6, <2>8 DEF Between, Writing
<1>10. CASE ScanEnd
  <2>1. scan = "reading" /\ scan' = "ended"
        /\ UNCHANGED <<ctx, run, conn, open, read, pipe, dispatched, writer>>
    BY <1>10 DEF ScanEnd
  <2> QED BY <2>1 DEF InputType, Flow, Held, Between, Writing
<1>11. CASE ScanCancelled
  <2>1. scan = "holding" /\ ctx /\ scan' = "ended"
        /\ UNCHANGED <<ctx, run, conn, open, read, pipe, dispatched, writer>>
    BY <1>11 DEF ScanCancelled
  <2>2. dispatched + Len(pipe) <= read  BY <1>1, <2>1 DEF Flow, Held
  <2>3. Flow'  BY <1>1, <2>1, <2>2 DEF Flow, Held
  <2> QED BY <2>1, <2>3 DEF InputType, Between, Writing
<1>12. CASE Dispatch
  <2>1. run = "pumping" /\ pipe # << >> /\ pipe' = Tail(pipe) /\ dispatched' = Head(pipe)
        /\ UNCHANGED <<ctx, run, conn, open, scan, read, writer>>
    BY <1>12 DEF Dispatch, DispatchTo
  <2>2. /\ Len(pipe) \in Nat \ {0} /\ Head(pipe) = pipe[1] /\ Tail(pipe) \in Seq(Frames)
        /\ Len(Tail(pipe)) = Len(pipe) - 1 /\ Head(pipe) \in Frames
        /\ \A i \in 1..Len(Tail(pipe)) : Tail(pipe)[i] = pipe[i + 1]
    BY <1>1, <2>1, EmptySeq, HeadTailProperties
  <2>3. dispatched' = dispatched + 1  BY <1>1, <2>1, <2>2 DEF Flow
  <2>4. \A i \in 1..Len(pipe') : pipe'[i] = dispatched' + i
    <3> SUFFICES ASSUME NEW i \in 1..Len(pipe')  PROVE pipe'[i] = dispatched' + i
      OBVIOUS
    <3>1. i + 1 \in 1..Len(pipe) /\ pipe'[i] = pipe[i + 1]  BY <2>1, <2>2
    <3>2. pipe[i + 1] = dispatched + (i + 1)  BY <3>1 DEF Flow
    <3> QED BY <1>1, <2>2, <2>3, <3>1, <3>2
  <2>5. dispatched' + Len(pipe') = dispatched + Len(pipe)  BY <1>1, <2>1, <2>2, <2>3
  <2>6. Flow'  BY <1>1, <2>1, <2>4, <2>5 DEF Flow, Held
  <2>7. InputType'  BY <1>1, <2>1, <2>2 DEF InputType, Frames
  <2> QED BY <2>1, <2>6, <2>7 DEF Between, Writing
<1>13. CASE Local \/ UNCHANGED vars
  <2>1. UNCHANGED upstream  BY <1>13, LocalSteps DEF vars, upstream
  <2> QED BY <2>1 DEF upstream, InputType, Flow, Held, Between, Writing
<1> QED BY <1>2, <1>3, <1>4, <1>5, <1>6, <1>7, <1>8, <1>9, <1>10, <1>11, <1>12, <1>13
        DEF Next, Run, Scan, Local

LEMMA InputInit ==
  ASSUME Init  PROVE InputInv
<1>1. ctx \in BOOLEAN /\ open \in BOOLEAN  BY DEF Init
<1>2. pipe = << >> /\ Len(<< >>) = 0 /\ << >> \in Seq(Frames)  BY EmptySeq DEF Init
<1>3. InputType  BY <1>1, <1>2 DEF Init, InputType
<1>4. Flow  BY <1>2 DEF Init, Flow, Held
<1> QED BY <1>3, <1>4 DEF Init, InputInv, Between, Writing

\* A control session's writer is the open connection, for any number of
\* reconnections and sessions.
THEOREM WriterFollows == Spec => []WriterIsOpen
<1>1. Init => InputInv  BY InputInit
<1>2. InputInv /\ [Next]_vars => InputInv'  BY InputStep
<1>3. InputInv => WriterIsOpen  BY DEF InputInv, Writing, WriterIsOpen
<1> QED BY <1>1, <1>2, <1>3, PTL DEF Spec

-----------------------------------------------------------------------------
(***************************************************************************)
(* Subscriptions                                                           *)
(***************************************************************************)
SubType ==
  /\ ctl \in Sessions \cup {"none"} /\ talk \in {"ready", "waiting", "overdue"}
  /\ subs \subseteq Subs /\ state \in [Subs -> {"new", "open", "closed"}]
  /\ from \in [Subs -> 0..MaxFrame]

\* A subscription is in the map exactly while its channel is open.
Listed == \A s \in Subs : s \in subs <=> state[s] = "open"

\* A control session is open only while it holds controlMu, so that two of
\* them never write to the receiver at once.
OneSession == \A s \in Sessions : state[s] = "open" => ctl = s

SubInv == SubType /\ Listed /\ OneSession /\ panicked \in BOOLEAN /\ NoSendOnClosed

LEMMA SubStep ==
  ASSUME InputInv, SubInv, [Next]_vars  PROVE SubInv'
<1>1. SubType /\ Listed /\ OneSession /\ dispatched \in 0..MaxFrame
  BY DEF SubInv, InputInv, InputType
<1>2. SubType' /\ Listed' /\ OneSession'
  <2>0. talk' \in {"ready", "waiting", "overdue"}
    BY <1>1 DEF SubType, Next, vars, Run, OpenInput, PumpEnd, ClearWriter, CloseInput, Retry,
                Cancel, Scan, ScanFrame, ScanPush, ScanCancelled, ScanEnd, Dispatch,
                DispatchTo, Subscribe, CloseSub, Receive, ControlLock, ControlOpen,
                ControlRefuse, ControlAsk, ControlRead, ControlOverdue, ControlClose
  <2>1. CASE UNCHANGED <<subs, state, from, ctl>>
    BY <1>1, <2>0, <2>1 DEF SubType, Listed, OneSession
  <2>2. ASSUME NEW s \in Subs, Subscribe(s)  PROVE SubType' /\ Listed' /\ OneSession'
    BY <1>1, <2>2 DEF Subscribe, Register, SubType, Listed, OneSession
  <2>3. ASSUME NEW s \in Subs, CloseSub(s)  PROVE SubType' /\ Listed' /\ OneSession'
    BY <1>1, <2>3 DEF CloseSub, Unregister, SubType, Listed, OneSession
  <2>4. ASSUME NEW s \in Subs, ControlLock(s)  PROVE SubType' /\ Listed' /\ OneSession'
    BY <1>1, <2>4 DEF ControlLock, Subs, SubType, Listed, OneSession
  <2>5. ctl # "none" => ctl \in Sessions /\ ctl \in Subs  BY <1>1 DEF SubType, Subs
  <2>6. CASE ControlOpen
    BY <1>1, <2>5, <2>6 DEF ControlOpen, Register, SubType, Listed, OneSession, Subs
  <2>7. CASE ControlRefuse
    BY <1>1, <2>5, <2>7 DEF ControlRefuse, SubType, Listed, OneSession, Subs
  <2>8. CASE ControlClose
    BY <1>1, <2>5, <2>8 DEF ControlClose, Unregister, SubType, Listed, OneSession, Subs
  <2> QED BY <2>1, <2>2, <2>3, <2>4, <2>6, <2>7, <2>8, SubSteps
<1>3. panicked' \in BOOLEAN /\ NoSendOnClosed'
  <2>1. CASE Dispatch
    <3>1. \A s \in Passing(Head(pipe)) : state[s] # "closed"
      BY <1>1 DEF Passing, Listed, SubType
    <3>2. panicked' = (panicked \/ \E s \in Passing(Head(pipe)) : state[s] = "closed")
      BY <2>1 DEF Dispatch, DispatchTo
    <3> QED BY <3>1, <3>2 DEF SubInv, NoSendOnClosed
  <2>2. panicked' = panicked \/ Dispatch
    BY DEF Next, vars, Run, OpenInput, PumpEnd, ClearWriter, CloseInput, Retry, Cancel,
           Scan, ScanPush, ScanCancelled, ScanFrame, ScanEnd, Subscribe, CloseSub, Receive, Take,
           ControlLock, ControlOpen, ControlRefuse, ControlAsk, ControlRead, ControlOverdue,
           ControlClose
  <2> QED BY <2>1, <2>2 DEF SubInv, NoSendOnClosed
<1> QED BY <1>2, <1>3 DEF SubInv

LEMMA SubInit ==
  ASSUME Init  PROVE SubInv
<1>1. panicked \in BOOLEAN  BY DEF Init
<1> QED BY <1>1 DEF Init, SubInv, SubType, Listed, OneSession, NoSendOnClosed, Subs

\* dispatch never sends into the channel of a subscription that was closed, for
\* any outputs and sessions and any order of their closes.
THEOREM NeverSendsOnClosed == Spec => []NoSendOnClosed
<1>1. Init => InputInv /\ SubInv  BY InputInit, SubInit
<1>2. InputInv /\ SubInv /\ [Next]_vars => (InputInv /\ SubInv)'  BY InputStep, SubStep
<1>3. SubInv => NoSendOnClosed  BY DEF SubInv
<1> QED BY <1>1, <1>2, <1>3, PTL DEF Spec

\* Two control sessions are never open at once.
THEOREM SessionsExclude == Spec => []OneSession
<1>1. Init => InputInv /\ SubInv  BY InputInit, SubInit
<1>2. InputInv /\ SubInv /\ [Next]_vars => (InputInv /\ SubInv)'  BY InputStep, SubStep
<1>3. SubInv => OneSession  BY DEF SubInv
<1> QED BY <1>1, <1>2, <1>3, PTL DEF Spec

-----------------------------------------------------------------------------
(***************************************************************************)
(* Every frame is accounted for                                            *)
(***************************************************************************)
\* Of the frames dispatched since s subscribed, those its filter passes.
Selected(s) == {f \in Wants[s] : from[s] < f /\ f <= dispatched}

QueueType ==
  /\ q \in [Subs -> Seq(Frames)] /\ got \in [Subs -> Seq(Frames)]
  /\ \A s \in Subs : Len(q[s]) <= Queue
  /\ dropped \in [Subs -> 0..MaxFrame]

\* Nothing was queued, received or counted before a subscription began.
Begun ==
  \A s \in Subs :
    /\ from[s] <= dispatched
    /\ state[s] = "new" => q[s] = << >> /\ got[s] = << >> /\ dropped[s] = 0

QueueInv == QueueType /\ Begun /\ EveryFrameAccounted

LEMMA SelectedIs ==
  ASSUME NEW W \in SUBSET Nat, NEW a \in Nat, NEW d \in Nat
  PROVE  LET S == {f \in W : a < f /\ f <= d}
         IN  IsFiniteSet(S) /\ Cardinality(S) \in 0..d /\ (a = d => Cardinality(S) = 0)
<1> DEFINE S == {f \in W : a < f /\ f <= d}
           D == 1..d
<1>1. S \in SUBSET D
  <2> SUFFICES ASSUME NEW f \in S  PROVE f \in D
    OBVIOUS
  <2> QED OBVIOUS
<1>2. IsFiniteSet(D) /\ Cardinality(D) = d  BY FS_Interval
<1>3. a = d => S = {}
  <2> SUFFICES ASSUME a = d, NEW f \in S  PROVE FALSE
    OBVIOUS
  <2>1. f \in Nat /\ a < f /\ f <= a  OBVIOUS
  <2> QED BY <2>1
<1> HIDE DEF S, D
<1>4. IsFiniteSet(S) /\ Cardinality(S) <= d  BY <1>1, <1>2, FS_Subset
<1>5. Cardinality(S) \in Nat  BY <1>4, FS_CardinalityType
<1>6. IsFiniteSet(S) /\ Cardinality(S) \in 0..d /\ (a = d => Cardinality(S) = 0)
  BY <1>3, <1>4, <1>5, FS_EmptySet
<1> QED BY <1>6 DEF S

\* What a step that dispatches nothing does to a subscription.
LEMMA SubChange ==
  ASSUME SubInv, [Next]_vars, ~Dispatch, NEW s \in Subs
  PROVE  /\ dispatched' = dispatched /\ from'[s] \in {from[s], dispatched}
         /\ state'[s] = "new" => state[s] = "new"
         /\ s \in subs' => \/ s \in subs /\ from'[s] = from[s]
                           \/ state[s] = "new" /\ from'[s] = dispatched
<1>1. SubType /\ Listed  BY DEF SubInv
<1>2. dispatched' = dispatched  BY <1>1, QueueSteps DEF Take, SubType
<1>3. CASE UNCHANGED <<subs, state, from, ctl>>  BY <1>2, <1>3
<1>4. ASSUME NEW t \in Subs, Subscribe(t) \/ CloseSub(t) \/ ControlLock(t)
      PROVE  /\ from'[s] \in {from[s], dispatched}
             /\ state'[s] = "new" => state[s] = "new"
             /\ s \in subs' => \/ s \in subs /\ from'[s] = from[s]
                               \/ state[s] = "new" /\ from'[s] = dispatched
  BY <1>1, <1>4 DEF Subscribe, Register, CloseSub, Unregister, ControlLock, SubType
<1>5. ctl # "none" => ctl \in Subs  BY <1>1 DEF SubType, Subs
<1>6. CASE ControlOpen \/ ControlRefuse \/ ControlClose
  BY <1>1, <1>2, <1>5, <1>6
     DEF ControlOpen, ControlRefuse, ControlClose, Register, Unregister, SubType
<1> QED BY <1>2, <1>3, <1>4, <1>6, SubSteps

\* A frame is dispatched.
LEMMA DispatchQueues ==
  ASSUME InputInv, SubInv, QueueInv, InputInv', SubInv', Dispatch
  PROVE  QueueInv'
<1> DEFINE f == Head(pipe)
<1>1. SubType /\ Listed /\ QueueType /\ Begun /\ dispatched \in 0..MaxFrame
  BY DEF SubInv, QueueInv, InputInv, InputType
<1>2. dispatched' = f /\ f = dispatched + 1 /\ f \in Frames
  <2>1. pipe \in Seq(Frames) /\ pipe # << >> /\ dispatched' = Head(pipe)
    BY DEF Dispatch, DispatchTo, InputInv, InputType
  <2>2. Len(pipe) \in Nat \ {0} /\ Head(pipe) = pipe[1]  BY <2>1, EmptySeq
  <2> QED BY <2>1, <2>2, HeadTailProperties DEF InputInv, Flow
<1>3. UNCHANGED <<subs, state, from, got>>  BY DEF Dispatch, DispatchTo
<1>4. ASSUME NEW s \in Subs
      PROVE  /\ q'[s] = IF s \in Passing(f) /\ Room(s) THEN Append(q[s], f) ELSE q[s]
             /\ dropped'[s] = IF s \in Passing(f) /\ ~Room(s) THEN dropped[s] + 1
                              ELSE dropped[s]
  BY DEF Dispatch, DispatchTo
<1>5. q' = [s \in Subs |-> q'[s]] /\ dropped' = [s \in Subs |-> dropped'[s]]
  BY DEF Dispatch, DispatchTo
<1> HIDE DEF f
<1>6. ASSUME NEW s \in Subs
      PROVE  /\ q[s] \in Seq(Frames) /\ Len(q[s]) \in Nat /\ Len(q[s]) <= Queue
             /\ Append(q[s], f) \in Seq(Frames) /\ Len(Append(q[s], f)) = Len(q[s]) + 1
             /\ Len(got[s]) \in Nat /\ dropped[s] \in 0..MaxFrame
  BY <1>1, <1>2, AppendProperties, LenProperties DEF QueueType
<1>7. ASSUME NEW s \in Subs  PROVE q'[s] \in Seq(Frames) /\ Len(q'[s]) <= Queue
  <2>1. CASE s \in Passing(f) /\ Room(s)
    <3>1. q'[s] = Append(q[s], f) /\ Len(q[s]) < Queue  BY <1>4, <2>1 DEF Room
    <3>2. Len(q'[s]) = Len(q[s]) + 1  BY <1>6, <3>1
    <3>3. \A n \in Nat : n < Queue => n + 1 <= Queue  OBVIOUS
    <3> QED BY <1>6, <3>1, <3>2, <3>3
  <2>2. CASE ~(s \in Passing(f) /\ Room(s))  BY <1>4, <1>6, <2>2
  <2> QED BY <2>1, <2>2
<1>8. ASSUME NEW s \in subs
      PROVE  Len(got[s])' + Len(q'[s]) + dropped'[s] = Cardinality(Selected(s)')
  <2>1. s \in Subs /\ from[s] \in Nat /\ from[s] <= dispatched
    BY <1>1 DEF SubType, Begun
  <2>2. IsFiniteSet(Selected(s)) /\ Cardinality(Selected(s)) \in Nat
    <3>1. Wants[s] \in SUBSET Nat /\ dispatched \in Nat  BY <1>1, <2>1 DEF Frames
    <3>2. IsFiniteSet(Selected(s)) /\ Cardinality(Selected(s)) \in 0..dispatched
      BY <2>1, <3>1, SelectedIs DEF Selected
    <3> QED BY <3>1, <3>2
  <2>3. Len(got[s]) \in Nat /\ Len(q[s]) \in Nat /\ dropped[s] \in Nat  BY <1>6, <2>1
  <2>4. Len(got[s]) + Len(q[s]) + dropped[s] = Cardinality(Selected(s))
    BY DEF QueueInv, EveryFrameAccounted, Selected
  <2>5. Wants[s] \subseteq Nat  BY <2>1 DEF Frames
  <2>6. Selected(s)' = {g \in Wants[s] : from[s] < g /\ g <= dispatched + 1}
    BY <1>2, <1>3 DEF Selected
  <2>7. CASE f \in Wants[s]
    <3> DEFINE g == Len(got[s])    l == Len(q[s])    d == dropped[s]
               n == Cardinality(Selected(s))
    <3>1. Selected(s)' = Selected(s) \cup {f} /\ f \notin Selected(s)
      BY <1>1, <1>2, <2>1, <2>5, <2>6, <2>7 DEF Selected
    <3>2. n' = n + 1  BY <2>2, <3>1, FS_AddElement
    <3>3. g' = g /\ ((l' = l + 1 /\ d' = d) \/ (l' = l /\ d' = d + 1))
      <4>1. s \in Passing(f) /\ UNCHANGED got  BY <1>3, <2>7 DEF Passing
      <4>2. Len(Append(q[s], f)) = Len(q[s]) + 1  BY <1>6, <2>1
      <4>3. CASE Room(s)
        <5>1. q'[s] = Append(q[s], f) /\ d' = d  BY <1>4, <2>1, <4>1, <4>3
        <5>2. l' = l + 1  BY <4>2, <5>1
        <5>3. g' = g  BY <4>1
        <5>4. d' = d  BY <5>1
        <5> HIDE DEF g, l, d
        <5> QED BY <5>2, <5>3, <5>4
      <4>4. CASE ~Room(s)
        <5>1. q'[s] = q[s] /\ d' = d + 1  BY <1>4, <2>1, <4>1, <4>4
        <5> QED BY <4>1, <5>1
      <4> QED BY <4>3, <4>4
    <3>4. g \in Nat /\ l \in Nat /\ d \in Nat /\ n \in Nat /\ g + l + d = n
      <4>1. g \in Nat /\ l \in Nat /\ d \in Nat  BY <2>3
      <4> QED BY <2>2, <2>4, <4>1
    <3> HIDE DEF g, l, d, n
    <3>5. g' + l' + d' = n'  BY <3>2, <3>3, <3>4
    <3> QED BY <3>5 DEF g, l, d, n
  <2>8. CASE f \notin Wants[s]
    <3>1. Selected(s)' = Selected(s)
      BY <1>1, <1>2, <2>1, <2>5, <2>6, <2>8 DEF Selected
    <3>2. s \notin Passing(f)  BY <2>8 DEF Passing
    <3>3. q'[s] = q[s] /\ dropped'[s] = dropped[s] /\ got' = got
      BY <1>3, <1>4, <2>1, <3>2
    <3> QED BY <2>4, <3>1, <3>3
  <2> QED BY <2>7, <2>8
<1>9. ASSUME NEW s \in Subs  PROVE dropped'[s] \in 0..MaxFrame
  <2>1. CASE s \in subs
    <3>1. Cardinality(Selected(s)') <= MaxFrame /\ Cardinality(Selected(s)') \in Nat
      <4>1. Wants[s] \in SUBSET Nat /\ from'[s] \in Nat /\ dispatched' \in 0..MaxFrame
        BY <1>1, <1>2, <1>3 DEF Frames, SubType
      <4>2. Cardinality(Selected(s)') \in 0..dispatched'
        BY <4>1, SelectedIs DEF Selected
      <4> QED BY <4>1, <4>2
    <3>2. Len(got[s])' \in Nat /\ Len(q'[s]) \in Nat /\ dropped'[s] \in Nat
      BY <1>3, <1>4, <1>6, <1>7, LenProperties
    <3> DEFINE g == Len(got[s])'    l == Len(q'[s])    n == Cardinality(Selected(s)')
    <3>3. g \in Nat /\ l \in Nat /\ dropped'[s] \in Nat /\ n \in Nat /\ n <= MaxFrame
          /\ g + l + dropped'[s] = n
      BY <1>8, <2>1, <3>1, <3>2
    <3> HIDE DEF g, l, n
    <3> QED BY <3>3
  <2>2. CASE s \notin subs
    BY <1>4, <1>6, <2>2 DEF Passing
  <2> QED BY <2>1, <2>2
<1>10. QueueType'
  <2>1. q' \in [Subs -> Seq(Frames)]  BY <1>5, <1>7
  <2>2. dropped' \in [Subs -> 0..MaxFrame]  BY <1>5, <1>9
  <2> QED BY <1>1, <1>3, <1>7, <2>1, <2>2 DEF QueueType
<1>11. Begun'
  <2>1. ASSUME NEW s \in Subs  PROVE from'[s] <= dispatched'
    BY <1>1, <1>2, <1>3 DEF Begun, SubType
  <2>2. ASSUME NEW s \in Subs, state'[s] = "new"
        PROVE  q'[s] = << >> /\ got'[s] = << >> /\ dropped'[s] = 0
    <3>1. s \notin Passing(f)  BY <1>1, <1>3, <2>2 DEF Passing, Listed
    <3> QED BY <1>1, <1>3, <1>4, <2>2, <3>1 DEF Begun
  <2> QED BY <2>1, <2>2 DEF Begun
<1>12. EveryFrameAccounted'  BY <1>3, <1>8 DEF EveryFrameAccounted, Selected
<1> QED BY <1>10, <1>11, <1>12 DEF QueueInv

\* A reader takes a frame: what it received and what is queued add up as before.
LEMMA ReceiveQueues ==
  ASSUME SubInv, QueueInv, NEW r \in Subs, Take(r)
  PROVE  /\ QueueType'
         /\ \A s \in Subs : Len(got'[s]) + Len(q'[s]) = Len(got[s]) + Len(q[s])
         /\ UNCHANGED <<subs, state, from, dispatched, dropped>>
         /\ \A s \in Subs : q[s] = << >> => q'[s] = << >> /\ got'[s] = got[s]
<1>1. QueueType  BY DEF QueueInv
<1>2. q[r] # << >> /\ q[r] \in Seq(Frames) /\ got[r] \in Seq(Frames) /\ Len(q[r]) <= Queue
  BY <1>1 DEF Take, QueueType
<1>3. /\ Head(q[r]) \in Frames /\ Tail(q[r]) \in Seq(Frames)
      /\ Len(Tail(q[r])) = Len(q[r]) - 1 /\ Len(q[r]) \in Nat /\ Len(got[r]) \in Nat
  BY <1>2, HeadTailProperties, LenProperties
<1>4. /\ Append(got[r], Head(q[r])) \in Seq(Frames)
      /\ Len(Append(got[r], Head(q[r]))) = Len(got[r]) + 1
  BY <1>2, <1>3, AppendProperties
<1>5. /\ q' = [q EXCEPT ![r] = Tail(q[r])]
      /\ got' = [got EXCEPT ![r] = Append(got[r], Head(q[r]))]
      /\ UNCHANGED <<subs, state, from, dispatched, dropped>>
  BY DEF Take
<1>6. QueueType'
  BY <1>1, <1>2, <1>3, <1>4, <1>5 DEF QueueType
<1>7. ASSUME NEW s \in Subs
      PROVE  Len(got'[s]) + Len(q'[s]) = Len(got[s]) + Len(q[s])
  <2>1. CASE s = r
    <3> DEFINE g == Len(got[s])    l == Len(q[s])
    <3>1. g' = g + 1 /\ l' = l - 1
      BY <1>1, <1>3, <1>4, <1>5, <2>1 DEF QueueType
    <3>2. g \in Nat /\ l \in Nat  BY <1>3, <2>1
    <3> HIDE DEF g, l
    <3>3. g' + l' = g + l  BY <3>1, <3>2
    <3> QED BY <3>3 DEF g, l
  <2>2. CASE s # r  BY <1>1, <1>5, <2>2 DEF QueueType
  <2> QED BY <2>1, <2>2
<1>8. ASSUME NEW s \in Subs, q[s] = << >>  PROVE q'[s] = << >> /\ got'[s] = got[s]
  BY <1>1, <1>2, <1>5, <1>8 DEF QueueType
<1> QED BY <1>5, <1>6, <1>7, <1>8

LEMMA QueueStep ==
  ASSUME InputInv, SubInv, QueueInv, [Next]_vars  PROVE QueueInv'
<1>1. InputInv' /\ SubInv'  BY InputStep, SubStep
<1>2. CASE Dispatch  BY <1>1, <1>2, DispatchQueues
<1>3. CASE UNCHANGED <<q, got, dropped, dispatched>> /\ ~Dispatch
  <2>1. QueueType'  BY <1>3 DEF QueueInv, QueueType
  <2>2. Begun'
    BY <1>3, SubChange DEF QueueInv, Begun, InputInv, InputType
  <2>3. ASSUME NEW s \in subs'
        PROVE  Len(got[s])' + Len(q[s])' + dropped'[s] = Cardinality(Selected(s)')
    <3>1. s \in Subs  BY <1>1 DEF SubInv, SubType
    <3>2. CASE s \in subs /\ from'[s] = from[s]
      <4>1. Selected(s)' = Selected(s)  BY <1>3, <3>2 DEF Selected
      <4>2. Len(got[s]) + Len(q[s]) + dropped[s] = Cardinality(Selected(s))
        BY <3>2 DEF QueueInv, EveryFrameAccounted, Selected
      <4> QED BY <1>3, <4>1, <4>2
    <3>3. CASE state[s] = "new" /\ from'[s] = dispatched
      <4>1. Cardinality(Selected(s)') = 0
        <5>1. Wants[s] \in SUBSET Nat /\ dispatched' \in Nat /\ from'[s] = dispatched'
          BY <1>1, <1>3, <3>1, <3>3 DEF Frames, InputInv, InputType
        <5> QED BY <5>1, SelectedIs DEF Selected
      <4>2. q'[s] = << >> /\ got'[s] = << >> /\ dropped'[s] = 0 /\ Len(<< >>) = 0
        BY <1>3, <3>1, <3>3, EmptySeq DEF QueueInv, Begun
      <4> QED BY <4>1, <4>2
    <3> QED BY <1>3, <3>1, <3>2, <3>3, SubChange
  <2>4. EveryFrameAccounted'  BY <2>3 DEF EveryFrameAccounted, Selected
  <2> QED BY <2>1, <2>2, <2>4 DEF QueueInv
<1>4. ASSUME NEW r \in Subs, Take(r)  PROVE QueueInv'
  <2>1. /\ QueueType' /\ UNCHANGED <<subs, state, from, dispatched, dropped>>
        /\ \A s \in Subs : Len(got'[s]) + Len(q'[s]) = Len(got[s]) + Len(q[s])
        /\ \A s \in Subs : q[s] = << >> => q'[s] = << >> /\ got'[s] = got[s]
    BY <1>4, ReceiveQueues
  <2>2. Begun'  BY <2>1 DEF QueueInv, Begun
  <2>3. subs \subseteq Subs  BY DEF SubInv, SubType
  <2>4. EveryFrameAccounted'
    BY <2>1, <2>3 DEF QueueInv, EveryFrameAccounted
  <2> QED BY <2>1, <2>2, <2>4 DEF QueueInv
<1> QED BY <1>2, <1>3, <1>4, QueueSteps DEF SubInv, SubType

LEMMA QueueInit ==
  ASSUME Init  PROVE QueueInv
<1>1. << >> \in Seq(Frames) /\ Len(<< >>) = 0  BY EmptySeq
<1>2. QueueType /\ Begun  BY <1>1 DEF Init, QueueType, Begun
<1> QED BY <1>2 DEF Init, QueueInv, EveryFrameAccounted

HubInv == InputInv /\ SubInv /\ QueueInv

THEOREM HubInvariant == Spec => []HubInv
<1>1. Init => HubInv  BY InputInit, SubInit, QueueInit DEF HubInv
<1>2. HubInv /\ [Next]_vars => HubInv'  BY InputStep, SubStep, QueueStep DEF HubInv
<1> QED BY <1>1, <1>2, PTL DEF Spec

\* Type correctness of the hub, for any outputs, capacities and bounds.
THEOREM HubTypes == Spec => []TypeOK
<1>1. HubInv => TypeOK
  <2> SUFFICES ASSUME HubInv  PROVE TypeOK
    OBVIOUS
  <2>1. InputType /\ SubType /\ QueueType /\ panicked \in BOOLEAN
    BY DEF HubInv, InputInv, SubInv, QueueInv
  <2> QED BY <2>1 DEF InputType, SubType, QueueType, TypeOK
<1> QED BY <1>1, HubInvariant, PTL

\* Every frame read from the receiver reaches every output that selected it or
\* is counted there, and losing the input loses none, for any outputs, filters
\* and capacities and any number of reconnections.
THEOREM FramesAreAccounted == Spec => []NoFrameVanishes
<1>1. HubInv => NoFrameVanishes
  <2> SUFFICES ASSUME HubInv  PROVE EveryFrameAccounted /\ ReconnectLosesNothing
    BY DEF NoFrameVanishes
  <2>1. EveryFrameAccounted  BY DEF HubInv, QueueInv
  <2>2. ASSUME run \in {"ended", "closing", "waiting", "opening"}, ~ctx
        PROVE  pipe = << >> /\ dispatched = read
    <3>1. pipe = << >> /\ Held = 0 /\ Len(pipe) = 0
      BY <2>2, EmptySeq DEF HubInv, InputInv, Between, Held
    <3> QED BY <2>2, <3>1 DEF HubInv, InputInv, InputType, Flow
  <2> QED BY <2>1, <2>2 DEF ReconnectLosesNothing
<1> QED BY <1>1, HubInvariant, PTL

-----------------------------------------------------------------------------
(***************************************************************************)
(* Every output is an OrderedStream of the input                           *)
(***************************************************************************)
\* Channel w of a subscription that selects W and last received frame n: frames
\* of W after n, in order, dispatched already (up to frame d).
Ordered(w, W, n, d) ==
  /\ \A i \in 1..Len(w) : w[i] \in W /\ n < w[i] /\ w[i] <= d
  /\ \A i, j \in 1..Len(w) : i < j => w[i] < w[j]
  /\ n <= d

OrderInv == \A s \in Subs : Ordered(q[s], Wants[s], Stream!Newest(got[s]), dispatched)

LEMMA NewestIs ==
  /\ Stream!Newest(<< >>) = 0
  /\ \A g \in Seq(Frames) : Stream!Newest(g) \in Nat
  /\ \A g \in Seq(Frames), f \in Frames : Stream!Newest(Append(g, f)) = f
<1>1. \A g \in Seq(Frames) : Stream!Newest(g) \in Nat
  <2> SUFFICES ASSUME NEW g \in Seq(Frames)  PROVE Stream!Newest(g) \in Nat
    OBVIOUS
  <2>1. CASE g = << >>  BY <2>1 DEF Stream!Newest
  <2>2. CASE g # << >>
    <3>1. Len(g) \in 1..Len(g)  BY <2>2, EmptySeq
    <3>2. g[Len(g)] \in Frames  BY <3>1, ElementOfSeq
    <3> QED BY <2>2, <3>2 DEF Stream!Newest, Frames
  <2> QED BY <2>1, <2>2
<1>2. \A g \in Seq(Frames), f \in Frames : Stream!Newest(Append(g, f)) = f
  BY AppendProperties DEF Stream!Newest
<1> QED BY <1>1, <1>2 DEF Stream!Newest

\* A newer frame goes behind what is queued.
LEMMA OrderedAppend ==
  ASSUME NEW W, NEW n \in Nat, NEW d \in Nat, NEW w \in Seq(Frames), Ordered(w, W, n, d),
         d + 1 \in Frames, d + 1 \in W
  PROVE  Ordered(Append(w, d + 1), W, n, d + 1)
<1>1. /\ Len(w) \in Nat /\ Len(Append(w, d + 1)) = Len(w) + 1
      /\ \A i \in 1..Len(w) : Append(w, d + 1)[i] = w[i]
      /\ Append(w, d + 1)[Len(w) + 1] = d + 1
  BY AppendProperties, LenProperties
<1>2. \A i \in 1..Len(w) : w[i] \in Nat  BY ElementOfSeq DEF Frames
<1>3. ASSUME NEW i \in 1..(Len(w) + 1)
      PROVE  Append(w, d + 1)[i] \in W /\ n < Append(w, d + 1)[i]
             /\ Append(w, d + 1)[i] <= d + 1
  <2>1. CASE i = Len(w) + 1  BY <1>1, <2>1 DEF Ordered
  <2>2. CASE i \in 1..Len(w)  BY <1>1, <1>2, <2>2 DEF Ordered
  <2> QED BY <1>1, <2>1, <2>2
<1>4. ASSUME NEW i \in 1..(Len(w) + 1), NEW j \in 1..(Len(w) + 1), i < j
      PROVE  Append(w, d + 1)[i] < Append(w, d + 1)[j]
  <2>1. i \in 1..Len(w)  BY <1>1, <1>4
  <2>2. CASE j = Len(w) + 1  BY <1>1, <1>2, <2>1, <2>2 DEF Ordered
  <2>3. CASE j \in 1..Len(w)  BY <1>1, <1>4, <2>1, <2>3 DEF Ordered
  <2> QED BY <1>1, <2>2, <2>3
<1> QED BY <1>1, <1>3, <1>4 DEF Ordered

\* The head of the channel becomes the newest frame received.
LEMMA OrderedTail ==
  ASSUME NEW W, NEW n \in Nat, NEW d \in Nat, NEW w \in Seq(Frames), Ordered(w, W, n, d),
         w # << >>
  PROVE  Ordered(Tail(w), W, Head(w), d) /\ Head(w) \in W /\ n < Head(w) /\ Head(w) <= d
<1>1. /\ Len(w) \in Nat \ {0} /\ Head(w) = w[1] /\ Len(Tail(w)) = Len(w) - 1
      /\ \A i \in 1..Len(Tail(w)) : Tail(w)[i] = w[i + 1]
  BY EmptySeq, HeadTailProperties
<1>2. ASSUME NEW i \in 1..Len(Tail(w))
      PROVE  Tail(w)[i] \in W /\ Head(w) < Tail(w)[i] /\ Tail(w)[i] <= d
  <2>1. 1 \in 1..Len(w) /\ i + 1 \in 1..Len(w) /\ 1 < i + 1 /\ Tail(w)[i] = w[i + 1]
    BY <1>1
  <2> QED BY <1>1, <2>1 DEF Ordered
<1>3. ASSUME NEW i \in 1..Len(Tail(w)), NEW j \in 1..Len(Tail(w)), i < j
      PROVE  Tail(w)[i] < Tail(w)[j]
  <2>1. i + 1 \in 1..Len(w) /\ j + 1 \in 1..Len(w) /\ i + 1 < j + 1  BY <1>1, <1>3
  <2>2. Tail(w)[i] = w[i + 1] /\ Tail(w)[j] = w[j + 1]  BY <1>1
  <2> QED BY <2>1, <2>2 DEF Ordered
<1>4. 1 \in 1..Len(w)  BY <1>1
<1> QED BY <1>1, <1>2, <1>3, <1>4 DEF Ordered

\* A larger bound bounds as well.
LEMMA OrderedLater ==
  ASSUME NEW W, NEW n \in Nat, NEW d \in Nat, NEW w \in Seq(Frames), Ordered(w, W, n, d)
  PROVE  Ordered(w, W, n, d + 1)
<1>1. \A i \in 1..Len(w) : w[i] \in Nat  BY ElementOfSeq DEF Frames
<1> QED BY <1>1 DEF Ordered

LEMMA OrderStep ==
  ASSUME HubInv, OrderInv, [Next]_vars  PROVE OrderInv'
<1>1. QueueType /\ dispatched \in Nat
  BY DEF HubInv, QueueInv, InputInv, InputType
<1>2. SUFFICES ASSUME NEW s \in Subs
               PROVE  Ordered(q[s], Wants[s], Stream!Newest(got[s]), dispatched)'
  BY DEF OrderInv
<1>3. /\ Ordered(q[s], Wants[s], Stream!Newest(got[s]), dispatched)
      /\ q[s] \in Seq(Frames) /\ got[s] \in Seq(Frames) /\ Stream!Newest(got[s]) \in Nat
  BY <1>1, NewestIs DEF OrderInv, QueueType
<1>4. CASE UNCHANGED <<q, got, dropped, dispatched>>
  BY <1>3, <1>4 DEF Ordered
<1>5. CASE Dispatch
  <2>1. dispatched' = dispatched + 1 /\ Head(pipe) = dispatched + 1 /\ dispatched + 1 \in Frames
    <3>1. pipe \in Seq(Frames) /\ pipe # << >> /\ dispatched' = Head(pipe)
      BY <1>5 DEF Dispatch, DispatchTo, HubInv, InputInv, InputType
    <3>2. Len(pipe) \in Nat \ {0} /\ Head(pipe) = pipe[1]  BY <3>1, EmptySeq
    <3> QED BY <3>1, <3>2, HeadTailProperties DEF HubInv, InputInv, Flow
  <2>2. got' = got /\ (q'[s] = q[s] \/ (dispatched + 1 \in Wants[s]
                                          /\ q'[s] = Append(q[s], dispatched + 1)))
    BY <1>5, <2>1 DEF Dispatch, DispatchTo, Passing
  <2>3. CASE q'[s] = q[s]
    BY <1>1, <1>3, <2>1, <2>2, <2>3, OrderedLater
  <2>4. CASE dispatched + 1 \in Wants[s] /\ q'[s] = Append(q[s], dispatched + 1)
    BY <1>1, <1>3, <2>1, <2>2, <2>4, OrderedAppend
  <2> QED BY <2>2, <2>3, <2>4
<1>6. ASSUME NEW r \in Subs, Take(r)
      PROVE  Ordered(q[s], Wants[s], Stream!Newest(got[s]), dispatched)'
  <2>1. CASE s = r
    <3>1. q[s] # << >> /\ q'[s] = Tail(q[s]) /\ got'[s] = Append(got[s], Head(q[s]))
          /\ dispatched' = dispatched
      BY <1>1, <1>6, <2>1 DEF Take, QueueType
    <3>2. Head(q[s]) \in Frames  BY <1>3, <3>1, HeadTailProperties
    <3>3. Stream!Newest(got'[s]) = Head(q[s])  BY <1>3, <3>1, <3>2, NewestIs
    <3>4. Ordered(Tail(q[s]), Wants[s], Head(q[s]), dispatched)
      BY <1>1, <1>3, <3>1, OrderedTail
    <3> QED BY <3>1, <3>3, <3>4
  <2>2. CASE s # r
    <3>1. q'[s] = q[s] /\ got'[s] = got[s] /\ dispatched' = dispatched
      BY <1>1, <1>6, <2>2 DEF Take, QueueType
    <3> QED BY <1>3, <3>1
  <2> QED BY <2>1, <2>2
<1> QED BY <1>4, <1>5, <1>6, QueueSteps DEF HubInv, SubInv, SubType

\* Whatever comes and goes, every output is an OrderedStream: frames of its
\* kind, each at most once, in the receiver's order.
THEOREM HubIsAStream == Spec => ImplementsStream
<1>1. Init => OrderInv /\ Stream!Init
  <2>1. ASSUME Init, NEW s \in Subs
        PROVE  Ordered(q[s], Wants[s], Stream!Newest(got[s]), dispatched)
    <3>1. q[s] = << >> /\ got[s] = << >> /\ dispatched = 0 /\ Len(<< >>) = 0
      BY <2>1, EmptySeq DEF Init
    <3>2. Stream!Newest(<< >>) = 0  BY NewestIs
    <3> QED BY <3>1, <3>2 DEF Ordered
  <2> QED BY <2>1 DEF OrderInv, Init, Stream!Init
<1>2. HubInv /\ OrderInv /\ [Next]_vars => OrderInv'  BY OrderStep
<1>3. HubInv /\ OrderInv /\ [Next]_vars => [Stream!Next]_<<read, got>>
  <2> SUFFICES ASSUME HubInv, OrderInv, [Next]_vars
               PROVE  [Stream!Next]_<<read, got>>
    OBVIOUS
  <2>1. ASSUME NEW r \in Subs, Take(r)  PROVE Stream!Deliver(r)
    <3>1. /\ Ordered(q[r], Wants[r], Stream!Newest(got[r]), dispatched)
          /\ q[r] \in Seq(Frames) /\ got[r] \in Seq(Frames) /\ q[r] # << >>
          /\ dispatched \in Nat /\ read \in Nat /\ dispatched <= read
      <4>1. Len(pipe) \in Nat /\ Held \in Nat
        BY LenProperties DEF HubInv, InputInv, InputType, Held
      <4>2. dispatched + Len(pipe) + Held <= read /\ dispatched \in Nat /\ read \in Nat
        BY DEF HubInv, InputInv, InputType, Flow
      <4>3. dispatched <= read  BY <4>1, <4>2
      <4> QED BY <2>1, <4>2, <4>3 DEF HubInv, QueueInv, QueueType, OrderInv, Take
    <3>2. Stream!Newest(got[r]) \in Nat  BY <3>1, NewestIs
    <3>3. Head(q[r]) \in Wants[r] /\ Stream!Newest(got[r]) < Head(q[r])
          /\ Head(q[r]) <= dispatched
      BY <3>1, <3>2, OrderedTail
    <3>4. Head(q[r]) \in Nat  BY <3>1, HeadTailProperties DEF Frames
    <3>5. Head(q[r]) \in Wants[r] \cap ((Stream!Newest(got[r]) + 1)..read)
      BY <3>1, <3>2, <3>3, <3>4
    <3> QED BY <2>1, <3>5 DEF Take, Stream!Deliver
  <2>2. CASE ScanFrame  BY <2>2 DEF ScanFrame, Stream!Next, Stream!Send
  <2>3. ASSUME ~ScanFrame, \A r \in Subs : ~Take(r)  PROVE UNCHANGED <<read, got>>
    <3>1. ~ControlRead /\ \A r \in Subs : ~Receive(r)
      BY <2>3 DEF ControlRead, Receive, HubInv, SubInv, SubType, Subs
    <3> QED
      BY <2>3, <3>1
      DEF Next, vars, line, Run, OpenInput, PumpEnd, ClearWriter, CloseInput, Retry, Cancel,
          Scan, ScanPush, ScanCancelled, ScanEnd, Dispatch, DispatchTo, Subscribe, CloseSub,
          ControlLock, ControlOpen, ControlRefuse, ControlAsk, ControlOverdue, ControlClose
  <2> QED BY <2>1, <2>2, <2>3 DEF Stream!Next
<1> QED BY <1>1, <1>2, <1>3, HubInvariant, PTL DEF Spec, ImplementsStream, Stream!Spec
=============================================================================
