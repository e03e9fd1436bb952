-------------------------------- MODULE Hub --------------------------------
(***************************************************************************)
(* The hub (internal/hub/hub.go): one goroutine scans frames from the      *)
(* receiver's stream into a channel, the pump dispatches each frame to     *)
(* every subscription whose filter passes it, and Run reopens the input    *)
(* when it ends.  Control sessions borrow the open stream for writing.     *)
(*                                                                         *)
(* dispatch runs under the read lock that Subscribe and Sub.Close take for *)
(* writing, and a receive from one queue commutes with sends to others, so *)
(* one dispatch is one step.  A frame is its number in the input.          *)
(***************************************************************************)
EXTENDS Integers, Sequences, FiniteSets

CONSTANTS
  Outputs,    \* ordinary subscriptions
  Sessions,   \* subscriptions made by Control
  Wants,      \* frames a subscription's filter passes
  Queue,      \* capacity of a subscription's channel
  PipeCap,    \* capacity of pump's frames channel
  MaxFrame,   \* bound: frames in the input
  MaxConn     \* bound: times the input is opened

Subs   == Outputs \cup Sessions
Frames == 1..MaxFrame

ASSUME HubAssumption ==
  /\ Outputs \cap Sessions = {}
  /\ "none" \notin Subs
  /\ Wants \in [Subs -> SUBSET Frames]
  /\ Queue \in Nat \ {0} /\ PipeCap \in Nat \ {0}
  /\ MaxFrame \in Nat /\ MaxConn \in Nat

VARIABLES
  ctx,          \* the context is cancelled
  run,          \* Run: opening, pumping, ended, closing, waiting, stopped
  conn,         \* connections opened so far; the last one is current
  open,         \* the current connection is not closed by Run
  scan,         \* scanner goroutine: off, reading, holding, ended (channel closed)
  read,         \* frames scanned; the last one is held while scan = "holding"
  pipe,         \* the frames channel
  dispatched,   \* frames dispatched
  writer,       \* Hub.writer: the connection, 0 is nil
  ctl,          \* who holds controlMu
  talk,         \* its goroutine: ready, waiting in controlPipe.Read, or overdue there
  subs,         \* Hub.subs
  state,        \* per subscription: new, open, closed
  q,            \* its channel
  got,          \* what its reader has received
  from, dropped,\* frames dispatched before it; frames it dropped
  panicked      \* a send on a closed channel

line == <<conn, open, scan, read, pipe>>
vars == <<ctx, run, conn, open, scan, read, pipe, dispatched, writer, ctl, talk, subs, state,
          q, got, from, dropped, panicked>>

TypeOK ==
  /\ ctx \in BOOLEAN
  /\ run \in {"opening", "pumping", "ended", "closing", "waiting", "stopped"}
  /\ conn \in 0..MaxConn /\ open \in BOOLEAN
  /\ scan \in {"off", "reading", "holding", "ended"}
  /\ read \in 0..MaxFrame /\ dispatched \in 0..MaxFrame
  /\ pipe \in Seq(Frames) /\ Len(pipe) <= PipeCap
  /\ writer \in 0..MaxConn /\ ctl \in Sessions \cup {"none"}
  /\ talk \in {"ready", "waiting", "overdue"}
  /\ subs \subseteq Subs /\ state \in [Subs -> {"new", "open", "closed"}]
  /\ q \in [Subs -> Seq(Frames)] /\ got \in [Subs -> Seq(Frames)]
  /\ \A s \in Subs : Len(q[s]) <= Queue
  /\ from \in [Subs -> 0..MaxFrame] /\ dropped \in [Subs -> 0..MaxFrame]
  /\ panicked \in BOOLEAN

Init ==
  /\ ctx = FALSE /\ run = "opening" /\ conn = 0 /\ open = FALSE
  /\ scan = "off" /\ read = 0 /\ pipe = << >> /\ dispatched = 0 /\ writer = 0
  /\ ctl = "none" /\ talk = "ready" /\ subs = {} /\ state = [s \in Subs |-> "new"]
  /\ q = [s \in Subs |-> << >>] /\ got = q
  /\ from = [s \in Subs |-> 0] /\ dropped = from /\ panicked = FALSE

(***************************************************************************)
(* Run                                                                     *)
(***************************************************************************)
\* the input opens; a serial one can be written to; pump starts its scanner
OpenInput ==
  /\ run = "opening" /\ ~ctx /\ conn < MaxConn
  /\ conn' = conn + 1 /\ open' = TRUE /\ writer' = conn + 1
  /\ scan' = "reading" /\ pipe' = << >> /\ run' = "pumping"
  /\ UNCHANGED <<ctx, read, dispatched, ctl, talk, subs, state, q, got, from, dropped, panicked>>

\* mutant: pump returns as soon as the scanner reports the end
PumpEndEarly ==
  /\ run = "pumping" /\ (scan = "ended" \/ ctx)
  /\ run' = "ended"
  /\ UNCHANGED <<ctx, conn, open, scan, read, pipe, dispatched, writer, ctl, talk, subs, state,
                 q, got, from, dropped, panicked>>

\* the frames channel is closed and empty, or the context is cancelled
PumpEnd ==
  /\ run = "pumping" /\ ((scan = "ended" /\ pipe = << >>) \/ ctx)
  /\ run' = "ended"
  /\ UNCHANGED <<ctx, conn, open, scan, read, pipe, dispatched, writer, ctl, talk, subs, state,
                 q, got, from, dropped, panicked>>

\* mutant: the writer of a lost connection stays
ClearWriterNot ==
  /\ run = "ended" /\ run' = "closing"
  /\ UNCHANGED <<ctx, conn, open, scan, read, pipe, dispatched, writer, ctl, talk, subs, state,
                 q, got, from, dropped, panicked>>

ClearWriter ==
  /\ run = "ended" /\ run' = "closing" /\ writer' = 0
  /\ UNCHANGED <<ctx, conn, open, scan, read, pipe, dispatched, ctl, talk, subs, state,
                 q, got, from, dropped, panicked>>

CloseInput ==
  /\ run = "closing" /\ open' = FALSE
  /\ run' = IF ctx THEN "stopped" ELSE "waiting"
  /\ UNCHANGED <<ctx, conn, scan, read, pipe, dispatched, writer, ctl, talk, subs, state,
                 q, got, from, dropped, panicked>>

\* retryDelay has passed, or the context ends Run while it waits
Retry ==
  /\ run \in {"waiting", "opening"} /\ (run = "waiting" \/ ctx)
  /\ run' = IF ctx THEN "stopped" ELSE "opening"
  /\ UNCHANGED <<ctx, conn, open, scan, read, pipe, dispatched, writer, ctl, talk, subs, state,
                 q, got, from, dropped, panicked>>

Cancel ==
  /\ ~ctx /\ ctx' = TRUE
  /\ UNCHANGED <<run, conn, open, scan, read, pipe, dispatched, writer, ctl, talk, subs, state,
                 q, got, from, dropped, panicked>>

(***************************************************************************)
(* The scanner goroutine of pump                                           *)
(***************************************************************************)
ScanFrame ==
  /\ scan = "reading" /\ open /\ read < MaxFrame
  /\ read' = read + 1 /\ scan' = "holding"
  /\ UNCHANGED <<ctx, run, conn, open, pipe, dispatched, writer, ctl, talk, subs, state,
                 q, got, from, dropped, panicked>>

ScanPush ==
  /\ scan = "holding" /\ Len(pipe) < PipeCap
  /\ pipe' = Append(pipe, read) /\ scan' = "reading"
  /\ UNCHANGED <<ctx, run, conn, open, read, dispatched, writer, ctl, talk, subs, state,
                 q, got, from, dropped, panicked>>

\* the read fails: end of input, unplugged cable, closed by Run
ScanEnd ==
  /\ scan = "reading" /\ scan' = "ended"
  /\ UNCHANGED <<ctx, run, conn, open, read, pipe, dispatched, writer, ctl, talk, subs, state,
                 q, got, from, dropped, panicked>>

ScanCancelled ==
  /\ scan = "holding" /\ ctx /\ scan' = "ended"
  /\ UNCHANGED <<ctx, run, conn, open, read, pipe, dispatched, writer, ctl, talk, subs, state,
                 q, got, from, dropped, panicked>>

(***************************************************************************)
(* dispatch                                                                *)
(***************************************************************************)
\* mutant: subscriptions are not filtered
PassingAll(f) == subs

Passing(f) == {s \in subs : f \in Wants[s]}
Room(s)    == Len(q[s]) < Queue

\* A send into a closed channel panics, and would end the daemon.
DispatchTo(targets, f) ==
  /\ pipe' = Tail(pipe) /\ dispatched' = f
  /\ panicked' = (panicked \/ \E s \in targets : state[s] = "closed")
  /\ q' = [s \in Subs |-> IF s \in targets /\ Room(s) THEN Append(q[s], f) ELSE q[s]]
  /\ dropped' = [s \in Subs |-> IF s \in targets /\ ~Room(s)
                                  THEN dropped[s] + 1 ELSE dropped[s]]
  /\ UNCHANGED <<ctx, run, conn, open, scan, read, writer, ctl, talk, subs, state, got, from>>

\* mutant: a frame nobody has room for is dropped without a count
DispatchUncounted ==
  /\ run = "pumping" /\ pipe # << >>
  /\ DispatchTo({s \in Passing(Head(pipe)) : Room(s)}, Head(pipe))

\* mutant: wait for room in every queue
DispatchBlocking ==
  /\ run = "pumping" /\ pipe # << >>
  /\ \A s \in Passing(Head(pipe)) : Room(s)
  /\ DispatchTo(Passing(Head(pipe)), Head(pipe))

Dispatch ==
  /\ run = "pumping" /\ pipe # << >>
  /\ DispatchTo(Passing(Head(pipe)), Head(pipe))

(***************************************************************************)
(* Subscriptions                                                           *)
(***************************************************************************)
Register(s) ==
  /\ state' = [state EXCEPT ![s] = "open"] /\ subs' = subs \cup {s}
  /\ from' = [from EXCEPT ![s] = dispatched]

Subscribe(s) ==
  /\ s \in Outputs /\ state[s] = "new" /\ Register(s)
  /\ UNCHANGED <<ctx, run, conn, open, scan, read, pipe, dispatched, writer, ctl, talk,
                 q, got, dropped, panicked>>

\* mutant: the channel is closed, the subscription stays in the map
UnregisterNot(s) ==
  /\ state' = [state EXCEPT ![s] = "closed"] /\ UNCHANGED subs

\* Sub.Close: delete and close under the same lock
Unregister(s) ==
  /\ state' = [state EXCEPT ![s] = "closed"] /\ subs' = subs \ {s}

CloseSub(s) ==
  /\ s \in Outputs /\ s \in subs /\ Unregister(s)
  /\ UNCHANGED <<ctx, run, conn, open, scan, read, pipe, dispatched, writer, ctl, talk,
                 q, got, from, dropped, panicked>>

Take(s) ==
  /\ q[s] # << >>
  /\ got' = [got EXCEPT ![s] = Append(@, Head(q[s]))]
  /\ q' = [q EXCEPT ![s] = Tail(@)]
  /\ UNCHANGED <<ctx, run, conn, open, scan, read, pipe, dispatched, writer, ctl,
                 subs, state, from, dropped, panicked>>

\* a reader takes one frame; a closed channel still gives what it holds
Receive(s) == s \in Outputs /\ Take(s) /\ UNCHANGED talk

(***************************************************************************)
(* Control sessions                                                        *)
(***************************************************************************)
ControlLock(s) ==
  /\ s \in Sessions /\ state[s] = "new" /\ ctl = "none" /\ ctl' = s
  /\ UNCHANGED <<ctx, run, conn, open, scan, read, pipe, dispatched, writer, talk, subs, state,
                 q, got, from, dropped, panicked>>

ControlOpen ==
  /\ ctl # "none" /\ state[ctl] = "new" /\ writer # 0 /\ Register(ctl)
  /\ UNCHANGED <<ctx, run, conn, open, scan, read, pipe, dispatched, writer, ctl, talk,
                 q, got, dropped, panicked>>

\* controlPipe.Write sends a request to the open input; the answer is read next
ControlAsk ==
  /\ ctl # "none" /\ state[ctl] = "open" /\ talk = "ready" /\ writer # 0
  /\ talk' = "waiting"
  /\ UNCHANGED <<line, ctx, run, dispatched, writer, ctl, subs, state, q, got, from,
                 dropped, panicked>>

\* controlPipe.Read returns a frame.  Before the deadline it may not be the
\* answer; past it the conversation gives up, unless it is.
ControlRead ==
  /\ ctl # "none" /\ talk # "ready" /\ Take(ctl)
  /\ talk' = "ready" \/ (talk = "waiting" /\ UNCHANGED talk)

\* The conversation's deadline passes.  Read has none of its own, and the channel
\* stays open when the input is lost: only a frame makes it return.
ControlOverdue ==
  /\ talk = "waiting" /\ talk' = "overdue"
  /\ UNCHANGED <<line, ctx, run, dispatched, writer, ctl, subs, state, q, got, from,
                 dropped, panicked>>

\* mutant: the refusal returns with controlMu held
ControlRefuseLocked ==
  /\ ctl # "none" /\ state[ctl] = "new" /\ writer = 0
  /\ state' = [state EXCEPT ![ctl] = "closed"]
  /\ UNCHANGED <<ctx, run, conn, open, scan, read, pipe, dispatched, writer, ctl, talk, subs,
                 q, got, from, dropped, panicked>>

\* "receiver serial stream is not connected"
ControlRefuse ==
  /\ ctl # "none" /\ state[ctl] = "new" /\ writer = 0
  /\ ctl' = "none" /\ state' = [state EXCEPT ![ctl] = "closed"]
  /\ UNCHANGED <<ctx, run, conn, open, scan, read, pipe, dispatched, writer, talk, subs,
                 q, got, from, dropped, panicked>>

\* between two requests, or when Write finds no writer: controlPipe.Close
ControlClose ==
  /\ ctl # "none" /\ state[ctl] = "open" /\ talk = "ready"
  /\ Unregister(ctl) /\ ctl' = "none"
  /\ UNCHANGED <<ctx, run, conn, open, scan, read, pipe, dispatched, writer, talk,
                 q, got, from, dropped, panicked>>

-----------------------------------------------------------------------------
Run  == OpenInput \/ PumpEnd \/ ClearWriter \/ CloseInput \/ Retry
Scan == ScanPush \/ ScanCancelled

Next ==
  \/ Run \/ Cancel \/ Scan \/ ScanFrame \/ ScanEnd \/ Dispatch
  \/ \E s \in Subs : Subscribe(s) \/ CloseSub(s) \/ Receive(s) \/ ControlLock(s)
  \/ ControlOpen \/ ControlRefuse \/ ControlAsk \/ ControlRead \/ ControlOverdue
  \/ ControlClose

Spec == Init /\ [][Next]_vars

\* Run, the scanner's hand-over and dispatch are goroutines that nothing but
\* their own guards stops; a closed descriptor makes a read return.  A session's
\* goroutine reads while frames come, its deadline passes, and it closes when it
\* has nothing more to ask.  No output is assumed ever to take a frame, and no
\* frame to arrive: a session that waits may wait for ever.
FairSpec ==
  /\ Spec
  /\ WF_vars(Run) /\ WF_vars(Scan) /\ WF_vars(Dispatch)
  /\ WF_vars(ScanEnd /\ ~open)
  /\ WF_vars(ControlOpen \/ ControlRefuse) /\ WF_vars(ControlClose)
  /\ WF_vars(ControlRead) /\ WF_vars(ControlOverdue)

-----------------------------------------------------------------------------
(***************************************************************************)
(* Properties                                                              *)
(***************************************************************************)
\* Closing an output races with dispatch of the next frame and never makes the
\* hub send into a closed channel, which would end the daemon.
NoSendOnClosed == ~panicked

\* No frame an output selected disappears silently: each was queued or counted
\* as dropped, from the moment it subscribed.
EveryFrameAccounted ==
  \A s \in subs :
    Len(got[s]) + Len(q[s]) + dropped[s]
      = Cardinality({f \in Wants[s] : from[s] < f /\ f <= dispatched})

\* Losing the input loses no frame that was read: unless the daemon is stopping,
\* everything scanned was dispatched before the input is opened again.
ReconnectLosesNothing ==
  run \in {"ended", "closing", "waiting", "opening"} /\ ~ctx
    => pipe = << >> /\ dispatched = read

\* Every frame read from the receiver reaches every output that selected it or
\* is counted there, while outputs come and go and the input is lost.
NoFrameVanishes == EveryFrameAccounted /\ ReconnectLosesNothing

\* A control session writes to the connection the hub reads from or not at all.
WriterIsOpen == writer # 0 => open /\ writer = conn

\* A stuck output never stalls the input: what was read is dispatched, though
\* no reader ever takes a frame (the comment on Hub).
NothingStalls == \A f \in Frames : read >= f ~> dispatched >= f \/ ctx

\* a session past its deadline, in a Read that no frame wakes
Stuck == ctl # "none" /\ talk = "overdue" /\ q[ctl] = << >>

\* controlMu comes free again and again, whether sessions are refused, fail or end
\* past their deadline, unless the stream has gone silent for one for good: that
\* session keeps the lock, and the hub goes on without it.
ControlIsFree == []<>(ctl = "none") \/ <>[]Stuck

\* Neither an output that does not read nor a control session, refused, silent or
\* late, blocks the hub for the others, and only silence keeps a session.
NothingBlocks == NothingStalls /\ ControlIsFree

\* Every output is an OrderedStream of the input.
Stream == INSTANCE OrderedStream WITH Readers <- Subs, input <- read
ImplementsStream == Stream!Spec
=============================================================================
