----------------------------- MODULE RawServer -----------------------------
(***************************************************************************)
(* A raw TCP output (internal/hub/tcpserver.go): one broadcaster copies    *)
(* each frame of a hub subscription to every client's channel; each client *)
(* has a writer goroutine, which drains the channel into the socket, and a *)
(* reader goroutine, which notices that the peer is gone.                  *)
(*                                                                         *)
(* The broadcast loop, add and the writer's delete hold TCPServer.mu;      *)
(* tcpClient.close does not.  A close of one client commutes with sends to *)
(* the others, so one broadcast is one step.  Frames are numbered.         *)
(***************************************************************************)
EXTENDS Integers, Sequences

CONSTANTS
  Clients,   \* connections accepted over the server's life
  Queue,     \* capacity of a client's channel
  MaxFrame   \* bound: frames broadcast

ASSUME RawAssumption == Queue \in Nat \ {0} /\ MaxFrame \in Nat

VARIABLES
  ctx,       \* the context is cancelled
  accept,    \* Run accepts connections
  frame,     \* frames broadcast so far
  reg,       \* TCPServer.clients
  active,    \* TCPServer.Active
  shut,      \* clients whose close() ran: channel and connection closed
  q,         \* a client's channel
  peer,      \* the remote end: "reads", "stuck" or "gone"
  writer,    \* new, waiting, writing, failed, leaving, gone
  reader,    \* new, reading, gone
  doomed,    \* clients with a `go cl.close()` that has not run yet
  busy,      \* the frame being written, 0 if none
  got,       \* frames written to the socket
  joined,    \* frames broadcast before the client was registered
  panicked   \* a send on a closed channel ended the daemon

rawVars == <<ctx, accept, frame, reg, active, shut, q, peer, writer, reader, doomed, busy,
          got, joined, panicked>>

RawTypeOK ==
  /\ ctx \in BOOLEAN /\ accept \in BOOLEAN /\ panicked \in BOOLEAN
  /\ frame \in 0..MaxFrame /\ active \in Nat
  /\ reg \subseteq Clients /\ shut \subseteq Clients /\ doomed \subseteq Clients
  /\ q \in [Clients -> Seq(1..MaxFrame)] /\ got \in [Clients -> Seq(1..MaxFrame)]
  /\ \A c \in Clients : Len(q[c]) <= Queue
  /\ busy \in [Clients -> 0..MaxFrame] /\ joined \in [Clients -> 0..MaxFrame]
  /\ peer \in [Clients -> {"reads", "stuck", "gone"}]
  /\ writer \in [Clients -> {"new", "waiting", "writing", "failed", "leaving", "gone"}]
  /\ reader \in [Clients -> {"new", "reading", "gone"}]

RawInit ==
  /\ ctx = FALSE /\ accept = TRUE /\ panicked = FALSE
  /\ frame = 0 /\ active = 0 /\ reg = {} /\ shut = {} /\ doomed = {}
  /\ q = [c \in Clients |-> << >>] /\ got = q
  /\ busy = [c \in Clients |-> 0] /\ joined = busy
  /\ peer = [c \in Clients |-> "reads"]
  /\ writer = [c \in Clients |-> "new"] /\ reader = writer

\* the daemon runs: an unrecovered panic in any goroutine ends it
Alive == ~panicked

(***************************************************************************)
(* Run and add                                                             *)
(***************************************************************************)
\* the listener may still hand over a connection after the cancellation
Add(c) ==
  /\ Alive /\ accept /\ writer[c] = "new"
  /\ reg' = reg \cup {c} /\ active' = active + 1
  /\ writer' = [writer EXCEPT ![c] = "waiting"]
  /\ reader' = [reader EXCEPT ![c] = "reading"]
  /\ joined' = [joined EXCEPT ![c] = frame]
  /\ UNCHANGED <<ctx, accept, frame, shut, q, peer, doomed, busy, got, panicked>>

Cancel == Alive /\ ~ctx /\ ctx' = TRUE
          /\ UNCHANGED <<accept, frame, reg, active, shut, q, peer, writer, reader,
                         doomed, busy, got, joined, panicked>>

\* mutant: the accept loop ends without closing anybody
StopLeaves ==
  /\ Alive /\ ctx /\ accept /\ accept' = FALSE
  /\ UNCHANGED <<ctx, frame, reg, active, shut, q, peer, writer, reader, doomed, busy,
                 got, joined, panicked>>

\* the listener is closed: closeAll under mu, then Run returns
Stop ==
  /\ Alive /\ ctx /\ accept /\ accept' = FALSE
  /\ shut' = shut \cup reg
  /\ UNCHANGED <<ctx, frame, reg, active, q, peer, writer, reader, doomed, busy, got,
                 joined, panicked>>

(***************************************************************************)
(* broadcast                                                               *)
(***************************************************************************)
Room(c) == Len(q[c]) < Queue

Deliver(targets) ==
  /\ frame' = frame + 1
  /\ panicked' = (reg \cap shut # {})
  /\ q' = [c \in Clients |-> IF c \in targets /\ Room(c) THEN Append(q[c], frame') ELSE q[c]]

\* mutant: a client without room just misses the frame
BroadcastSkips ==
  /\ Alive /\ frame < MaxFrame
  /\ Deliver(reg) /\ UNCHANGED doomed
  /\ UNCHANGED <<ctx, accept, reg, active, shut, peer, writer, reader, busy, got,
                 joined>>

\* A frame for every registered client; one without room is closed by a
\* goroutine of its own.  After the cancellation select may still take a frame,
\* until Run's deferred Close removes the subscription and drains it.
Broadcast ==
  /\ Alive /\ frame < MaxFrame
  /\ Deliver(reg)
  /\ doomed' = doomed \cup {c \in reg \ shut : ~Room(c)}
  /\ UNCHANGED <<ctx, accept, reg, active, shut, peer, writer, reader, busy, got,
                 joined>>

\* go cl.close()
Drop(c) ==
  /\ Alive /\ c \in doomed
  /\ doomed' = doomed \ {c} /\ shut' = shut \cup {c}
  /\ UNCHANGED <<ctx, accept, frame, reg, active, q, peer, writer, reader, busy, got,
                 joined, panicked>>

(***************************************************************************)
(* The writer goroutine                                                    *)
(***************************************************************************)
\* receive one frame; a closed channel still gives what it holds
Take(c) ==
  /\ Alive /\ writer[c] = "waiting" /\ q[c] # << >>
  /\ writer' = [writer EXCEPT ![c] = "writing"]
  /\ busy' = [busy EXCEPT ![c] = Head(q[c])]
  /\ q' = [q EXCEPT ![c] = Tail(@)]
  /\ UNCHANGED <<ctx, accept, frame, reg, active, shut, peer, reader, doomed, got,
                 joined, panicked>>

WriteOK(c) ==
  /\ Alive /\ writer[c] = "writing" /\ c \notin shut /\ peer[c] # "stuck"
  /\ writer' = [writer EXCEPT ![c] = "waiting"]
  /\ got' = [got EXCEPT ![c] = Append(@, busy[c])]
  /\ busy' = [busy EXCEPT ![c] = 0]
  /\ UNCHANGED <<ctx, accept, frame, reg, active, shut, q, peer, reader, doomed,
                 joined, panicked>>

\* the connection is closed or reset, or nothing moved for 20 s
WriteFails(c) ==
  /\ Alive /\ writer[c] = "writing" /\ (c \in shut \/ peer[c] # "reads")
  /\ writer' = [writer EXCEPT ![c] = "failed"]
  /\ UNCHANGED <<ctx, accept, frame, reg, active, shut, q, peer, reader, doomed, busy,
                 got, joined, panicked>>

\* the range over the closed channel ends
Drained(c) ==
  /\ Alive /\ writer[c] = "waiting" /\ q[c] = << >> /\ c \in shut
  /\ writer' = [writer EXCEPT ![c] = "failed"]
  /\ UNCHANGED <<ctx, accept, frame, reg, active, shut, q, peer, reader, doomed, busy,
                 got, joined, panicked>>

\* mutant: the client stays in the map
DeregisterNot(c) ==
  /\ Alive /\ writer[c] = "failed"
  /\ writer' = [writer EXCEPT ![c] = "leaving"]
  /\ UNCHANGED <<ctx, accept, frame, reg, active, shut, q, peer, reader, doomed, busy, got,
                 joined, panicked>>

\* deferred: delete under mu ...
Deregister(c) ==
  /\ Alive /\ writer[c] = "failed"
  /\ writer' = [writer EXCEPT ![c] = "leaving"] /\ reg' = reg \ {c}
  /\ UNCHANGED <<ctx, accept, frame, active, shut, q, peer, reader, doomed, busy, got,
                 joined, panicked>>

\* ... then close()
Leave(c) ==
  /\ Alive /\ writer[c] = "leaving"
  /\ writer' = [writer EXCEPT ![c] = "gone"]
  /\ shut' = shut \cup {c} /\ active' = active - 1
  /\ UNCHANGED <<ctx, accept, frame, reg, q, peer, reader, doomed, busy, got, joined,
                 panicked>>

(***************************************************************************)
(* The reader goroutine and the peer                                       *)
(***************************************************************************)
\* mutant: the reader gives up and leaves the client to the writer
ReaderGivesUp(c) ==
  /\ Alive /\ reader[c] = "reading" /\ (peer[c] = "gone" \/ c \in shut)
  /\ reader' = [reader EXCEPT ![c] = "gone"]
  /\ UNCHANGED <<ctx, accept, frame, reg, active, shut, q, peer, writer, doomed, busy,
                 got, joined, panicked>>

\* a read fails: the peer closed or reset, or close() ran elsewhere
ReaderFails(c) ==
  /\ Alive /\ reader[c] = "reading" /\ (peer[c] = "gone" \/ c \in shut)
  /\ reader' = [reader EXCEPT ![c] = "gone"] /\ shut' = shut \cup {c}
  /\ UNCHANGED <<ctx, accept, frame, reg, active, q, peer, writer, doomed, busy, got,
                 joined, panicked>>

PeerChanges(c) ==
  /\ Alive /\ writer[c] # "new"
  /\ \/ peer[c] = "reads" /\ peer' = [peer EXCEPT ![c] = "stuck"]
     \/ peer[c] # "gone" /\ peer' = [peer EXCEPT ![c] = "gone"]
  /\ UNCHANGED <<ctx, accept, frame, reg, active, shut, q, writer, reader, doomed, busy,
                 got, joined, panicked>>

-----------------------------------------------------------------------------
Writer(c) == Take(c) \/ WriteOK(c) \/ WriteFails(c) \/ Drained(c) \/ Deregister(c)
               \/ Leave(c)

RawNext ==
  \/ Broadcast \/ Cancel \/ Stop
  \/ \E c \in Clients : \/ Add(c) \/ Writer(c) \/ Drop(c) \/ ReaderFails(c)
                        \/ PeerChanges(c)

RawSpec == RawInit /\ [][RawNext]_rawVars

\* Goroutines run, a write has a deadline, a closed or reset connection makes
\* a read return.  No frame, client, or cancellation is assumed to come.
RawFairSpec ==
  /\ RawSpec /\ WF_rawVars(Stop)
  /\ \A c \in Clients : WF_rawVars(Writer(c)) /\ WF_rawVars(Drop(c)) /\ WF_rawVars(ReaderFails(c))

-----------------------------------------------------------------------------
(***************************************************************************)
(* Properties                                                              *)
(***************************************************************************)
\* A raw output never has a silent hole: a client that missed a frame is being
\* closed, so what it holds is a contiguous piece of the stream (a logger or a
\* caster behind the port can rely on it).
NoSilentGap ==
  \A c \in reg \ (shut \cup doomed) :
    writer[c] \in {"waiting", "writing"} =>
      LET all == got[c] \o (IF busy[c] = 0 THEN << >> ELSE <<busy[c]>>) \o q[c]
      IN  all = [i \in 1..(frame - joined[c]) |-> joined[c] + i]

\* A client whose peer hung up, and one that was too slow, loses its goroutines
\* and its place, even when no frame is ever sent again and whatever its peer
\* does: a close by either goroutine, or by broadcast, wakes both.
ClosedLeaves ==
  \A c \in Clients :
    c \in doomed \/ peer[c] = "gone" ~> panicked \/ (writer[c] = "gone" /\ c \notin reg)

\* Stopping the server ends every connection it accepted.
StopEndsAll == ctx ~> panicked \/ \A c \in Clients : writer[c] \in {"new", "gone"}

\* The goroutines of a client never outlive their reason to be there: neither
\* its own end nor the server's leaves one behind.
ClientsLeave == ClosedLeaves /\ StopEndsAll

\* "This client cannot keep up. Drop it rather than let it slow the others or
\* the hub": while the server runs, losing a client costs only that client.
\* close() does not take mu, so a broadcast may send into the closed channel.
DroppingIsHarmless == panicked => ctx
=============================================================================
