------------------------------- MODULE Mount -------------------------------
(***************************************************************************)
(* A mountpoint of the caster (internal/caster/caster.go, tap.go): the     *)
(* goroutine that feeds it observations from the hub and the one that      *)
(* generates station messages both broadcast to the clients and to a tap   *)
(* of an outbound push; a joining client first gets the remembered         *)
(* station message.                                                        *)
(*                                                                         *)
(* broadcast remembers a station message under lastMu, then fans out under *)
(* the read lock of mu; registering, deregistering and detaching take mu   *)
(* for writing; client.close takes no lock.  One fan-out is one step: the  *)
(* sends of two fan-outs to different clients commute.                     *)
(***************************************************************************)
EXTENDS Integers, Sequences, FiniteSets

CONSTANTS
  Clients,
  Queue,       \* capacity of a client's channel
  MaxObs,      \* bound: observation messages
  MaxSta       \* bound: station messages generated

ASSUME MountAssumption == Queue \in Nat \ {0} /\ MaxObs \in Nat /\ MaxSta \in Nat

VARIABLES
  obs, sta,    \* messages broadcast by the feed, generated by generate
  last,        \* Mount.last: the remembered station message, 0 none
  gen,         \* generate: idle, or between remembering and the fan-out
  reg, shut, doomed, \* Mount.clients; close() ran; `go cl.close()` to run
  q, busy,     \* a client's channel, and the message being written
  got,         \* messages written to its socket
  pc,          \* handleGet: new, replay, waiting, writing, failed, left, closed, ended
  reader,      \* the goroutine that drains the rover's GGA: none, reading, done
  peer,        \* the rover: reads, stuck, gone
  joined,      \* observations broadcast before the client was registered
  noRoom,      \* clients for which the replay found a full channel
  tap, tapQ,   \* the push's tap: new, open, closing, gone; messages queued
  taps, tapShut, \* it is in Mount.taps; its channel is closed
  panicked     \* whose closed channel a send ended the daemon on: no, client, tap

vars == <<obs, sta, last, gen, reg, shut, doomed, q, busy, got, pc, reader, peer, joined,
          noRoom, tap, tapQ, taps, tapShut, panicked>>
client == <<reg, shut, doomed, q, busy, got, pc, reader, peer, joined, noRoom>>
push   == <<tap, tapQ, taps, tapShut>>
feed   == <<obs, sta, last, gen>>

Msg == [kind : {"obs", "sta"}, n : 1..(MaxObs + MaxSta)]
None == [kind |-> "obs", n |-> 0]
Obs(n) == [kind |-> "obs", n |-> n]
Sta(n) == [kind |-> "sta", n |-> n]

TypeOK ==
  /\ obs \in 0..MaxObs /\ sta \in 0..MaxSta /\ last \in 0..MaxSta
  /\ gen \in {"idle", "fanout"}
  /\ reg \subseteq Clients /\ shut \subseteq Clients /\ doomed \subseteq Clients
  /\ noRoom \subseteq Clients
  /\ q \in [Clients -> Seq(Msg)] /\ got \in [Clients -> Seq(Msg)]
  /\ \A c \in Clients : Len(q[c]) <= Queue
  /\ busy \in [Clients -> Msg \cup {None}]
  /\ pc \in [Clients -> {"new", "replay", "waiting", "writing", "failed", "left",
                         "closed", "ended"}]
  /\ reader \in [Clients -> {"none", "reading", "done"}]
  /\ peer \in [Clients -> {"reads", "stuck", "gone"}]
  /\ joined \in [Clients -> 0..MaxObs]
  /\ tap \in {"new", "open", "closing", "gone"} /\ tapQ \in 0..Queue
  /\ taps \in BOOLEAN /\ tapShut \in BOOLEAN
  /\ panicked \in {"no", "client", "tap"}

Init ==
  /\ obs = 0 /\ sta = 0 /\ last = 0 /\ gen = "idle"
  /\ reg = {} /\ shut = {} /\ doomed = {} /\ noRoom = {}
  /\ q = [c \in Clients |-> << >>] /\ got = q
  /\ busy = [c \in Clients |-> None]
  /\ pc = [c \in Clients |-> "new"]
  /\ reader = [c \in Clients |-> "none"] /\ peer = [c \in Clients |-> "reads"]
  /\ joined = [c \in Clients |-> 0] /\ tap = "new" /\ tapQ = 0
  /\ taps = FALSE /\ tapShut = FALSE /\ panicked = "no"

Alive == panicked = "no"

Room(c) == Len(q[c]) < Queue

(***************************************************************************)
(* broadcast                                                               *)
(***************************************************************************)
\* mutant: a client without room just misses the message
FanOutSkips(m) ==
  /\ panicked' = IF reg \cap shut # {} THEN "client"
                 ELSE IF taps /\ tapShut THEN "tap" ELSE "no"
  /\ q' = [c \in Clients |-> IF c \in reg /\ Room(c) THEN Append(q[c], m) ELSE q[c]]
  /\ tapQ' = IF taps /\ tapQ < Queue THEN tapQ + 1 ELSE tapQ
  /\ UNCHANGED <<reg, shut, doomed, busy, got, pc, reader, peer, joined, noRoom, tap,
                 taps, tapShut>>

\* send m to every client and to the tap: without room a client is closed by a
\* goroutine of its own, the tap drops the message
FanOut(m) ==
  /\ panicked' = IF reg \cap shut # {} THEN "client"
                 ELSE IF taps /\ tapShut THEN "tap" ELSE "no"
  /\ q' = [c \in Clients |-> IF c \in reg /\ Room(c) THEN Append(q[c], m) ELSE q[c]]
  /\ doomed' = doomed \cup {c \in reg \ shut : ~Room(c)}
  /\ tapQ' = IF taps /\ tapQ < Queue THEN tapQ + 1 ELSE tapQ
  /\ UNCHANGED <<reg, shut, busy, got, pc, reader, peer, joined, noRoom, tap, taps, tapShut>>

\* feed: an observation message from the hub
Observe ==
  /\ Alive /\ obs < MaxObs /\ obs' = obs + 1
  /\ FanOut(Obs(obs'))
  /\ UNCHANGED <<sta, last, gen>>

\* mutant: remember only after the fan-out
RememberLate ==
  /\ Alive /\ gen = "idle" /\ sta < MaxSta
  /\ sta' = sta + 1 /\ last' = sta /\ gen' = "fanout"
  /\ UNCHANGED <<obs, client, push, panicked>>

\* generate: remember the new station message ...
Remember ==
  /\ Alive /\ gen = "idle" /\ sta < MaxSta
  /\ sta' = sta + 1 /\ last' = sta' /\ gen' = "fanout"
  /\ UNCHANGED <<obs, client, push, panicked>>

\* ... then broadcast it
Describe ==
  /\ Alive /\ gen = "fanout" /\ gen' = "idle"
  /\ FanOut(Sta(sta))
  /\ UNCHANGED <<obs, sta, last>>

(***************************************************************************)
(* handleGet, once the rover is admitted (see Admission)                   *)
(***************************************************************************)
Register(c) ==
  /\ Alive /\ pc[c] = "new"
  /\ pc' = [pc EXCEPT ![c] = "replay"] /\ reg' = reg \cup {c}
  /\ joined' = [joined EXCEPT ![c] = obs]
  /\ UNCHANGED <<feed, shut, doomed, q, busy, got, reader, peer, noRoom, push, panicked>>

\* mutant: the remembered message is put before what is already queued
ReplayFirst(c) ==
  /\ Alive /\ pc[c] = "replay"
  /\ pc' = [pc EXCEPT ![c] = "waiting"] /\ reader' = [reader EXCEPT ![c] = "reading"]
  /\ IF last > 0 /\ Room(c)
       THEN q' = [q EXCEPT ![c] = <<Sta(last)>> \o @] /\ UNCHANGED noRoom
       ELSE noRoom' = (IF last > 0 THEN noRoom \cup {c} ELSE noRoom) /\ UNCHANGED q
  /\ UNCHANGED <<feed, reg, shut, doomed, busy, got, peer, joined, push, panicked>>

\* replay under lastMu, unless close() already ran: then the send panics; then
\* start the goroutine that drains the rover's messages
Replay(c) ==
  /\ Alive /\ pc[c] = "replay"
  /\ pc' = [pc EXCEPT ![c] = "waiting"] /\ reader' = [reader EXCEPT ![c] = "reading"]
  /\ panicked' = IF last > 0 /\ c \in shut THEN "client" ELSE "no"
  /\ IF last > 0 /\ Room(c)
       THEN q' = [q EXCEPT ![c] = Append(@, Sta(last))] /\ UNCHANGED noRoom
       ELSE noRoom' = (IF last > 0 THEN noRoom \cup {c} ELSE noRoom) /\ UNCHANGED q
  /\ UNCHANGED <<feed, reg, shut, doomed, busy, got, peer, joined, push>>

Take(c) ==
  /\ Alive /\ pc[c] = "waiting" /\ q[c] # << >>
  /\ pc' = [pc EXCEPT ![c] = "writing"]
  /\ busy' = [busy EXCEPT ![c] = Head(q[c])] /\ q' = [q EXCEPT ![c] = Tail(@)]
  /\ UNCHANGED <<feed, reg, shut, doomed, got, reader, peer, joined, noRoom, push, panicked>>

WriteOK(c) ==
  /\ Alive /\ pc[c] = "writing" /\ c \notin shut /\ peer[c] # "stuck"
  /\ pc' = [pc EXCEPT ![c] = "waiting"]
  /\ got' = [got EXCEPT ![c] = Append(@, busy[c])] /\ busy' = [busy EXCEPT ![c] = None]
  /\ UNCHANGED <<feed, reg, shut, doomed, q, reader, peer, joined, noRoom, push, panicked>>

\* the connection is closed or reset, or nothing moved for 30 s; or the range
\* over the closed channel ends
StreamEnds(c) ==
  /\ Alive
  /\ \/ pc[c] = "writing" /\ (c \in shut \/ peer[c] # "reads")
     \/ pc[c] = "waiting" /\ q[c] = << >> /\ c \in shut
  /\ pc' = [pc EXCEPT ![c] = "failed"]
  /\ UNCHANGED <<feed, reg, shut, doomed, q, busy, got, reader, peer, joined, noRoom, push,
                 panicked>>

Deregister(c) ==
  /\ Alive /\ pc[c] = "failed"
  /\ pc' = [pc EXCEPT ![c] = "left"] /\ reg' = reg \ {c}
  /\ UNCHANGED <<feed, shut, doomed, q, busy, got, reader, peer, joined, noRoom, push,
                 panicked>>

\* mutant: the connection is left to handle's deferred Close
CloseClientNot(c) ==
  /\ Alive /\ pc[c] = "left"
  /\ pc' = [pc EXCEPT ![c] = "closed"]
  /\ UNCHANGED <<feed, reg, shut, doomed, q, busy, got, reader, peer, joined, noRoom, push,
                 panicked>>

CloseClient(c) ==
  /\ Alive /\ pc[c] = "left"
  /\ pc' = [pc EXCEPT ![c] = "closed"] /\ shut' = shut \cup {c}
  /\ UNCHANGED <<feed, reg, doomed, q, busy, got, reader, peer, joined, noRoom, push, panicked>>

\* <-done, then the accounting is closed
End(c) ==
  /\ Alive /\ pc[c] = "closed" /\ reader[c] = "done"
  /\ pc' = [pc EXCEPT ![c] = "ended"]
  /\ UNCHANGED <<feed, reg, shut, doomed, q, busy, got, reader, peer, joined, noRoom, push,
                 panicked>>

\* the goroutine that drains the rover's messages only reports its end
ReaderEnds(c) ==
  /\ Alive /\ reader[c] = "reading" /\ (peer[c] = "gone" \/ c \in shut)
  /\ reader' = [reader EXCEPT ![c] = "done"]
  /\ UNCHANGED <<feed, reg, shut, doomed, q, busy, got, pc, peer, joined, noRoom, push,
                 panicked>>

\* go cl.close()
Drop(c) ==
  /\ Alive /\ c \in doomed
  /\ doomed' = doomed \ {c} /\ shut' = shut \cup {c}
  /\ UNCHANGED <<feed, reg, q, busy, got, pc, reader, peer, joined, noRoom, push, panicked>>

PeerChanges(c) ==
  /\ Alive /\ pc[c] \notin {"new", "ended"}
  /\ \/ peer[c] = "reads" /\ peer' = [peer EXCEPT ![c] = "stuck"]
     \/ peer[c] # "gone" /\ peer' = [peer EXCEPT ![c] = "gone"]
  /\ UNCHANGED <<feed, reg, shut, doomed, q, busy, got, pc, reader, joined, noRoom, push,
                 panicked>>

(***************************************************************************)
(* The tap of an outbound push (tap.go)                                    *)
(***************************************************************************)
TapOpen ==
  /\ Alive /\ tap = "new" /\ tap' = "open" /\ taps' = TRUE
  /\ UNCHANGED <<feed, client, tapQ, tapShut, panicked>>

\* mutant: close the channel, then detach
TapShutFirst ==
  /\ Alive /\ tap = "open" /\ tap' = "closing" /\ tapShut' = TRUE
  /\ UNCHANGED <<feed, client, tapQ, taps, panicked>>

\* Tap.Close: detach under mu, then close the channel
TapDetach ==
  /\ Alive /\ tap = "open" /\ tap' = "closing" /\ taps' = FALSE
  /\ UNCHANGED <<feed, client, tapQ, tapShut, panicked>>

TapClose ==
  /\ Alive /\ tap = "closing" /\ tap' = "gone" /\ tapShut' = TRUE /\ taps' = FALSE
  /\ UNCHANGED <<feed, client, tapQ, panicked>>

TapTake ==
  /\ Alive /\ tapQ > 0 /\ tapQ' = tapQ - 1
  /\ UNCHANGED <<feed, client, tap, taps, tapShut, panicked>>

-----------------------------------------------------------------------------
Handler(c) == Register(c) \/ Replay(c) \/ Take(c) \/ WriteOK(c) \/ StreamEnds(c)
                \/ Deregister(c) \/ CloseClient(c) \/ End(c)

Next ==
  \/ Observe \/ Remember \/ Describe
  \/ \E c \in Clients : Handler(c) \/ ReaderEnds(c) \/ Drop(c) \/ PeerChanges(c)
  \/ TapOpen \/ TapDetach \/ TapClose \/ TapTake

Spec == Init /\ [][Next]_vars

\* Goroutines run and a write has a deadline; no message, rover or push is
\* assumed to come.
FairSpec ==
  /\ Spec /\ WF_vars(Describe)
  /\ \A c \in Clients : /\ WF_vars(pc[c] # "new" /\ Handler(c))
                       /\ WF_vars(ReaderEnds(c)) /\ WF_vars(Drop(c))

-----------------------------------------------------------------------------
(***************************************************************************)
(* Properties                                                              *)
(***************************************************************************)
Stream(c) == got[c] \o (IF busy[c] = None THEN << >> ELSE <<busy[c]>>) \o q[c]
Healthy   == {c \in reg \ (shut \cup doomed) : pc[c] \in {"waiting", "writing"}}

\* where a stream has a message of a kind
At(s, k) == {i \in DOMAIN s : s[i].kind = k}

\* A rover never sees the station description go back to an older one, although
\* the replay and a broadcast reach its channel from different goroutines.
StationNeverBackwards ==
  \A c \in Clients : LET s == Stream(c) IN
    \A i, j \in At(s, "sta") : i < j => s[i].n <= s[j].n

\* A rover that joined has the newest station description in its stream, or it
\* is about to be broadcast: none falls between the replay and the fan-out.
JoinerHasStation ==
  \A c \in Healthy \ noRoom :
    gen = "idle" /\ sta > 0 => \E i \in DOMAIN Stream(c) : Stream(c)[i] = Sta(sta)

\* A rover works with the newest description of the station that it could have.
StationIsCurrent == StationNeverBackwards /\ JoinerHasStation

\* A rover that stays connected misses no observation: one whose channel was
\* full is being closed.
NoSilentGap ==
  \A c \in Healthy : LET s == Stream(c) IN
    /\ {s[i].n : i \in At(s, "obs")} = (joined[c] + 1)..obs
    /\ \A i, j \in At(s, "obs") : i < j => s[i].n < s[j].n

\* Closing a push never makes a broadcast send into the tap's closed channel.
TapIsSafe == panicked # "tap"

\* A rover that was dropped, or whose stream ended, even while its peer keeps the
\* connection and says nothing, ends its handler, which frees its place under
\* the connection limit.
ClosedEnds ==
  \A c \in Clients : c \in shut \/ pc[c] = "failed" ~> pc[c] = "ended" \/ ~Alive

\* "too slow; drop it rather than stall the mountpoint": dropping a client must
\* not end the daemon.  close() does not take mu: the next broadcast may send
\* into the closed channel.
DroppingIsHarmless == panicked # "client"
=============================================================================
