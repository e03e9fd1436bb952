------------------------------- MODULE TimeSync -------------------------------
(***************************************************************************)
(* The time offered to chrony (internal/timesync/timesync.go): one loop    *)
(* takes frames of the hub from its queue, and sends chrony what the       *)
(* receiver's time differs from the local clock, read when the frame is    *)
(* taken.  While chrony does not listen the loop sleeps; while chrony      *)
(* listens and does not read, so that its socket is full, the write blocks *)
(* and has no deadline.                                                    *)
(*                                                                         *)
(* Taking a frame takes no time: the clock stands still while the loop has *)
(* frames to take, is awake and is not in a write that blocks.             *)
(***************************************************************************)
EXTENDS Naturals, Sequences

CONSTANTS
  Cap,         \* frames the subscription holds (64)
  Pause,       \* the sleep when chrony cannot be reached (10 s)
  MinInterval, \* between samples (1 s)
  Late         \* bound: the clock

VARIABLES
  now,
  queue,    \* the frames waiting: when each came, and what it is
  wakes,    \* 0, or the end of the sleep
  chrony,   \* it listens
  room,     \* its socket has room for a datagram
  conn,     \* "nil", "open", or "stale" when chrony has ended since
  blocked,  \* when the loop took the frame that it is blocked in writing of, or 0
  after,    \* the last write that was done had blocked
  last,     \* when the last sample was sent, 0 for never
  sample    \* the last sample: how late, if the first of a connection, and if it
            \* follows a write that blocked

vars == <<now, queue, wakes, chrony, room, conn, blocked, after, last, sample>>

\* a fix; one that is not resolved or not accurate; any other UBX frame
Kinds == {"fix", "poor", "other"}

TypeOK ==
  /\ now \in 1..Late /\ queue \in Seq([at : 1..Late, kind : Kinds]) /\ Len(queue) <= Cap
  /\ wakes \in 0..Late + Pause /\ chrony \in BOOLEAN /\ conn \in {"nil", "open", "stale"}
  /\ room \in BOOLEAN /\ blocked \in 0..Late /\ after \in BOOLEAN
  /\ last \in 0..Late /\ sample \in [late : 0..Late, first : BOOLEAN, after : BOOLEAN]

Init ==
  /\ now = 1 /\ queue = << >> /\ wakes = 0 /\ chrony \in BOOLEAN /\ conn = "nil"
  /\ room = TRUE /\ blocked = 0 /\ after = FALSE
  /\ last = 0 /\ sample = [late |-> 0, first |-> FALSE, after |-> FALSE]

(***************************************************************************)
(* The hub, the clock and chrony                                           *)
(***************************************************************************)
\* a full subscription loses the frame that comes
Arrive(kind) ==
  /\ Len(queue) < Cap /\ queue' = Append(queue, [at |-> now, kind |-> kind])
  /\ UNCHANGED <<now, wakes, chrony, room, conn, blocked, after, last, sample>>

Idle == wakes = 0 /\ blocked = 0 /\ queue = << >>
Tick ==
  /\ now < Late /\ (Idle \/ blocked # 0 \/ now < wakes)
  /\ now' = now + 1
  /\ UNCHANGED <<queue, wakes, chrony, room, conn, blocked, after, last, sample>>

Listen ==
  /\ ~chrony /\ chrony' = TRUE /\ room' = TRUE
  /\ UNCHANGED <<now, queue, wakes, conn, blocked, after, last, sample>>

\* it stops reading, or reads again
RoomChanges ==
  /\ chrony /\ room' = ~room
  /\ UNCHANGED <<now, queue, wakes, chrony, conn, blocked, after, last, sample>>

Ends ==
  /\ chrony /\ chrony' = FALSE /\ conn' = (IF conn = "open" THEN "stale" ELSE conn)
  /\ UNCHANGED <<now, queue, wakes, room, blocked, after, last, sample>>

(***************************************************************************)
(* Run                                                                     *)
(***************************************************************************)
Awake == wakes = 0 /\ blocked = 0 /\ queue # << >>
Taken == Head(queue)
Due   == last = 0 \/ now - last >= MinInterval
Take  == Awake /\ queue' = Tail(queue)

Skip ==
  /\ Take /\ (Taken.kind # "fix" \/ ~Due)
  /\ UNCHANGED <<now, wakes, chrony, room, conn, blocked, after, last, sample>>

\* no connection and none to be had
Sleep ==
  /\ Take /\ Taken.kind = "fix" /\ Due /\ conn = "nil" /\ ~chrony
  /\ wakes' = now + Pause
  /\ UNCHANGED <<now, chrony, room, conn, blocked, after, last, sample>>

Wake ==
  /\ wakes = now /\ wakes' = 0
  /\ UNCHANGED <<now, queue, chrony, room, conn, blocked, after, last, sample>>

\* the datagram is refused
WriteFails ==
  /\ Take /\ Taken.kind = "fix" /\ Due /\ conn = "stale" /\ conn' = "nil"
  /\ UNCHANGED <<now, wakes, chrony, room, blocked, after, last, sample>>

\* the sample has the time at which the frame was taken
Write ==
  /\ Take /\ Taken.kind = "fix" /\ Due /\ conn # "stale" /\ chrony
  /\ conn' = "open" /\ after' = FALSE
  /\ sample' = [late |-> now - Taken.at, first |-> conn = "nil", after |-> after]
  /\ UNCHANGED <<now, wakes, chrony, room>>

\* mutant: the time of the last sample is not kept
OfferAgain == Write /\ room /\ UNCHANGED <<blocked, last>>

Offer == Write /\ room /\ last' = now /\ UNCHANGED blocked

Block == Write /\ ~room /\ blocked' = now /\ UNCHANGED last

Written ==
  /\ blocked # 0 /\ conn = "open" /\ room
  /\ blocked' = 0 /\ after' = TRUE /\ last' = blocked
  /\ UNCHANGED <<now, queue, wakes, chrony, room, conn, sample>>

\* chrony has ended with the datagram unread
WriteBreaks ==
  /\ blocked # 0 /\ conn = "stale" /\ blocked' = 0 /\ conn' = "nil"
  /\ UNCHANGED <<now, queue, wakes, chrony, room, after, last, sample>>

Next == \/ \E kind \in Kinds : Arrive(kind)
        \/ Tick \/ Listen \/ RoomChanges \/ Ends
        \/ Skip \/ Sleep \/ Wake \/ WriteFails \/ Offer \/ Block \/ Written \/ WriteBreaks

Spec == Init /\ [][Next]_vars

(***************************************************************************)
(* Properties                                                              *)
(***************************************************************************)
\* What waited while the loop slept, or was blocked, is stamped when it is taken.
\* At most the first sample of a connection is late so, and the first after a
\* write that blocked, however long chrony was away or did not read.
LateIsFirst == sample.late > 0 => sample.first \/ sample.after

(***************************************************************************)
(* What comments of the code say, and the code does not do                 *)
(***************************************************************************)
\* "it must be as close as possible to the moment the frame arrived"
SamplesArePrompt == sample.late = 0
=============================================================================
