----------------------------- MODULE MountProofs -----------------------------
(***************************************************************************)
(* Proofs about Mount, for any set of rovers, any channel capacity and any *)
(* number of messages.                                                     *)
(***************************************************************************)
EXTENDS Mount, SequenceTheorems, TLAPS

USE MountAssumption DEF MountAssumption

\* What the goroutines of one rover do, and what the push's tap does.
Rover(c) == Handler(c) \/ ReaderEnds(c) \/ Drop(c) \/ PeerChanges(c)
Tapping  == TapOpen \/ TapDetach \/ TapClose \/ TapTake

Places == {"new", "replay", "waiting", "writing", "failed", "left", "closed", "ended"}

LEMMA Steps ==
  ASSUME [Next]_vars
  PROVE  \/ UNCHANGED vars \/ Observe \/ Remember \/ Describe \/ Tapping
         \/ \E c \in Clients : Rover(c)
BY DEF Next, Rover, Tapping

-----------------------------------------------------------------------------
(***************************************************************************)
(* The tap                                                                 *)
(***************************************************************************)
\* A tap is listed only while its push has it open, and its channel is closed
\* only once it is not listed any more.
TapInv ==
  /\ taps => tap = "open"
  /\ tapShut => tap = "gone"
  /\ panicked # "tap"

LEMMA TapStep ==
  ASSUME TapInv, [Next]_vars  PROVE TapInv'
<1>1. ASSUME NEW m, FanOut(m)  PROVE TapInv'
  BY <1>1 DEF FanOut, TapInv
<1>2. CASE Remember \/ UNCHANGED vars
  BY <1>2 DEF Remember, push, vars, TapInv
<1>3. CASE Tapping
  BY <1>3 DEF Tapping, TapOpen, TapDetach, TapClose, TapTake, TapInv, Alive
<1>4. ASSUME NEW c \in Clients, Rover(c)  PROVE TapInv'
  <2>1. UNCHANGED push /\ panicked' \in {panicked, "client", "no"}
    BY <1>4 DEF Rover, Handler, Register, Replay, Take, WriteOK, StreamEnds, Deregister,
                CloseClient, End, ReaderEnds, Drop, PeerChanges
  <2> QED BY <2>1 DEF push, TapInv
<1> QED BY <1>1, <1>2, <1>3, <1>4, Steps DEF Observe, Describe

\* No broadcast sends into the closed channel of a push's tap, whatever the
\* order of Tap.Close, the feed and the generator.
THEOREM TapStaysSafe == Spec => []TapIsSafe
<1>1. Init => TapInv  BY DEF Init, TapInv
<1>2. TapInv /\ [Next]_vars => TapInv'  BY TapStep
<1>3. TapInv => TapIsSafe  BY DEF TapInv, TapIsSafe
<1> QED BY <1>1, <1>2, <1>3, PTL DEF Spec

-----------------------------------------------------------------------------
(***************************************************************************)
(* Types                                                                   *)
(***************************************************************************)
FeedType ==
  /\ obs \in 0..MaxObs /\ sta \in 0..MaxSta /\ last \in 0..MaxSta
  /\ gen \in {"idle", "fanout"} /\ panicked \in {"no", "client", "tap"}

TapType ==
  /\ tap \in {"new", "open", "closing", "gone"} /\ tapQ \in 0..Queue
  /\ taps \in BOOLEAN /\ tapShut \in BOOLEAN

FlagType ==
  /\ reg \subseteq Clients /\ shut \subseteq Clients /\ doomed \subseteq Clients
  /\ noRoom \subseteq Clients /\ pc \in [Clients -> Places]
  /\ reader \in [Clients -> {"none", "reading", "done"}]
  /\ peer \in [Clients -> {"reads", "stuck", "gone"}]
  /\ joined \in [Clients -> 0..MaxObs]

QueueType ==
  /\ q \in [Clients -> Seq(Msg)] /\ got \in [Clients -> Seq(Msg)]
  /\ \A c \in Clients : Len(q[c]) <= Queue
  /\ busy \in [Clients -> Msg \cup {None}]

LEMMA TypeParts == TypeOK <=> FeedType /\ TapType /\ FlagType /\ QueueType
  BY DEF TypeOK, FeedType, TapType, FlagType, QueueType, Places

\* The newest description is the remembered one.  A message is in hand exactly
\* while it is written; a rover that has not come yet has nothing.
Between ==
  /\ last = sta /\ (gen = "fanout" => sta > 0)
  /\ \A c \in Clients :
       /\ pc[c] \in {"replay", "waiting"} => busy[c] = None
       /\ pc[c] = "writing" => busy[c] \in Msg
       /\ pc[c] = "new" => /\ c \notin reg \cup shut \cup doomed
                           /\ q[c] = << >> /\ got[c] = << >> /\ busy[c] = None

TypeInv == TypeOK /\ Between

LEMMA FeedStep ==
  ASSUME TypeInv, [Next]_vars  PROVE FeedType' /\ last' = sta' /\ (gen' = "fanout" => sta' > 0)
<1>1. FeedType /\ last = sta /\ (gen = "fanout" => sta > 0)
  BY TypeParts DEF TypeInv, Between
<1>2. CASE Observe
  <2>1. panicked' \in {"no", "client", "tap"}  BY <1>2 DEF Observe, FanOut
  <2>2. obs' \in 0..MaxObs /\ UNCHANGED <<sta, last, gen>>  BY <1>1, <1>2 DEF Observe, FeedType
  <2> QED BY <1>1, <2>1, <2>2 DEF FeedType
<1>3. CASE Describe
  <2>1. panicked' \in {"no", "client", "tap"}  BY <1>3 DEF Describe, FanOut
  <2> QED BY <1>1, <1>3, <2>1 DEF Describe, FeedType
<1>4. CASE Remember
  BY <1>1, <1>4 DEF Remember, FeedType
<1>5. CASE Tapping \/ UNCHANGED vars
  BY <1>1, <1>5 DEF Tapping, TapOpen, TapDetach, TapClose, TapTake, feed, vars, FeedType
<1>6. ASSUME NEW c \in Clients, Rover(c)
      PROVE  FeedType' /\ last' = sta' /\ (gen' = "fanout" => sta' > 0)
  <2>1. UNCHANGED feed /\ panicked' \in {panicked, "client", "no"}
    BY <1>6 DEF Rover, Handler, Register, Replay, Take, WriteOK, StreamEnds, Deregister,
                CloseClient, End, ReaderEnds, Drop, PeerChanges
  <2> QED BY <1>1, <2>1 DEF feed, FeedType
<1> QED BY <1>2, <1>3, <1>4, <1>5, <1>6, Steps

LEMMA TapTypeStep ==
  ASSUME TypeInv, [Next]_vars  PROVE TapType'
<1>1. TapType  BY TypeParts DEF TypeInv
<1>2. ASSUME NEW m, FanOut(m)  PROVE TapType'
  <2>1. tapQ' \in 0..Queue  BY <1>1, <1>2 DEF FanOut, TapType
  <2> QED BY <1>1, <1>2, <2>1 DEF FanOut, TapType
<1>3. CASE Remember \/ UNCHANGED vars
  BY <1>1, <1>3 DEF Remember, push, vars, TapType
<1>4. CASE Tapping
  <2>1. taps' \in BOOLEAN /\ tapShut' \in BOOLEAN
    BY <1>1, <1>4 DEF Tapping, TapOpen, TapDetach, TapClose, TapTake, TapType
  <2>2. tapQ' \in 0..Queue /\ tap' \in {"new", "open", "closing", "gone"}
    BY <1>1, <1>4 DEF Tapping, TapOpen, TapDetach, TapClose, TapTake, TapType
  <2> QED BY <2>1, <2>2 DEF TapType
<1>5. ASSUME NEW c \in Clients, Rover(c)  PROVE TapType'
  <2>1. UNCHANGED push
    BY <1>5 DEF Rover, Handler, Register, Replay, Take, WriteOK, StreamEnds, Deregister,
                CloseClient, End, ReaderEnds, Drop, PeerChanges
  <2> QED BY <1>1, <2>1 DEF push, TapType
<1> QED BY <1>2, <1>3, <1>4, <1>5, Steps DEF Observe, Describe

LEMMA FlagStep ==
  ASSUME TypeInv, [Next]_vars  PROVE FlagType'
<1>1. FlagType /\ FeedType  BY TypeParts DEF TypeInv
<1>2. ASSUME NEW m, FanOut(m)  PROVE FlagType'
  BY <1>1, <1>2 DEF FanOut, FlagType
<1>3. CASE Remember \/ Tapping \/ UNCHANGED vars
  BY <1>1, <1>3 DEF Remember, Tapping, TapOpen, TapDetach, TapClose, TapTake, client, vars,
                    FlagType
<1>4. ASSUME NEW c \in Clients, Rover(c)  PROVE FlagType'
  <2>1. /\ reg' \subseteq Clients /\ shut' \subseteq Clients /\ doomed' \subseteq Clients
        /\ noRoom' \subseteq Clients
    BY <1>1, <1>4 DEF Rover, Handler, Register, Replay, Take, WriteOK, StreamEnds, Deregister,
                CloseClient, End, ReaderEnds, Drop, PeerChanges, FlagType
  <2>2. pc' \in [Clients -> Places]
    BY <1>1, <1>4 DEF Rover, Handler, Register, Replay, Take, WriteOK, StreamEnds, Deregister,
                CloseClient, End, ReaderEnds, Drop, PeerChanges, FlagType, Places
  <2>3. /\ reader' \in [Clients -> {"none", "reading", "done"}]
        /\ peer' \in [Clients -> {"reads", "stuck", "gone"}]
    BY <1>1, <1>4 DEF Rover, Handler, Register, Replay, Take, WriteOK, StreamEnds, Deregister,
                CloseClient, End, ReaderEnds, Drop, PeerChanges, FlagType
  <2>4. joined' \in [Clients -> 0..MaxObs]
    BY <1>1, <1>4 DEF Rover, Handler, Register, Replay, Take, WriteOK, StreamEnds, Deregister,
                CloseClient, End, ReaderEnds, Drop, PeerChanges, FlagType, FeedType
  <2> QED BY <2>1, <2>2, <2>3, <2>4 DEF FlagType
<1> QED BY <1>2, <1>3, <1>4, Steps DEF Observe, Describe

-----------------------------------------------------------------------------
(***************************************************************************)
(* What happens to a channel                                               *)
(***************************************************************************)
\* The message a fan-out carries.
LEMMA MsgIs ==
  ASSUME TypeInv
  PROVE  /\ Observe => obs' \in Nat /\ Obs(obs') \in Msg
         /\ gen = "fanout" => sta \in Nat /\ Sta(sta) \in Msg
         /\ last > 0 => last \in Nat /\ Sta(last) \in Msg
         /\ None \notin Msg
<1>1. FeedType /\ last = sta /\ (gen = "fanout" => sta > 0)
  BY TypeParts DEF TypeInv, Between
<1> QED BY <1>1 DEF FeedType, Observe, Obs, Sta, None, Msg

\* Who appends to a channel, and who takes from it.
LEMMA QueueSteps ==
  ASSUME [Next]_vars
  PROVE  \/ UNCHANGED <<q, got, busy>>
         \/ Observe \/ Describe
         \/ \E c \in Clients : Replay(c) \/ Take(c) \/ WriteOK(c)
<1>1. ASSUME NEW c \in Clients, Rover(c)
      PROVE  UNCHANGED <<q, got, busy>> \/ Replay(c) \/ Take(c) \/ WriteOK(c)
  BY <1>1 DEF Rover, Handler, Register, StreamEnds, Deregister, CloseClient, End,
              ReaderEnds, Drop, PeerChanges
<1> QED BY <1>1, Steps DEF vars, Remember, client, Tapping, TapOpen, TapDetach, TapClose,
                           TapTake

LEMMA QueueStep ==
  ASSUME TypeInv, [Next]_vars  PROVE QueueType'
<1>1. QueueType /\ FlagType /\ Between /\ None \notin Msg
  BY TypeParts, MsgIs DEF TypeInv
<1>2. CASE UNCHANGED <<q, got, busy>>  BY <1>1, <1>2 DEF QueueType
<1>3. ASSUME NEW c \in Clients, NEW m \in Msg
      PROVE  Append(q[c], m) \in Seq(Msg) /\ (Room(c) => Len(Append(q[c], m)) <= Queue)
  <2>1. q[c] \in Seq(Msg)  BY <1>1 DEF QueueType
  <2>2. Append(q[c], m) \in Seq(Msg) /\ Len(Append(q[c], m)) = Len(q[c]) + 1
        /\ Len(q[c]) \in Nat
    BY <2>1, AppendProperties, LenProperties
  <2> DEFINE g == Len(q[c])
  <2>3. g \in Nat /\ Len(Append(q[c], m)) = g + 1 /\ (Room(c) <=> g < Queue)  BY <2>2 DEF Room
  <2> HIDE DEF g
  <2> QED BY <2>2, <2>3
<1>4. ASSUME NEW m \in Msg, FanOut(m)  PROVE QueueType'
  <2>1. q' = [c \in Clients |-> IF c \in reg /\ Room(c) THEN Append(q[c], m) ELSE q[c]]
        /\ UNCHANGED <<got, busy>>
    BY <1>4 DEF FanOut
  <2>2. \A c \in Clients : q'[c] \in Seq(Msg) /\ Len(q'[c]) <= Queue
    BY <1>1, <1>3, <2>1 DEF QueueType
  <2>3. q' \in [Clients -> Seq(Msg)]  BY <2>1, <2>2
  <2> QED BY <1>1, <2>1, <2>2, <2>3 DEF QueueType
<1>5. ASSUME NEW c \in Clients, Replay(c)  PROVE QueueType'
  <2>1. UNCHANGED q \/ (last > 0 /\ Room(c) /\ q' = [q EXCEPT ![c] = Append(@, Sta(last))])
    BY <1>5 DEF Replay
  <2>2. UNCHANGED <<got, busy>>  BY <1>5 DEF Replay
  <2>3. CASE last > 0 /\ Room(c) /\ q' = [q EXCEPT ![c] = Append(@, Sta(last))]
    <3>1. Append(q[c], Sta(last)) \in Seq(Msg) /\ Len(Append(q[c], Sta(last))) <= Queue
      BY <1>3, <2>3, MsgIs
    <3> QED BY <1>1, <2>2, <2>3, <3>1 DEF QueueType
  <2> QED BY <1>1, <2>1, <2>2, <2>3 DEF QueueType
<1>6. ASSUME NEW c \in Clients, Take(c)  PROVE QueueType'
  <2>1. Head(q[c]) \in Msg /\ Tail(q[c]) \in Seq(Msg) /\ Len(Tail(q[c])) <= Queue
    BY <1>1, <1>6 DEF Take, QueueType
  <2> QED BY <1>1, <1>6, <2>1 DEF Take, QueueType
<1>7. ASSUME NEW c \in Clients, WriteOK(c)  PROVE QueueType'
  <2>1. busy[c] \in Msg /\ got[c] \in Seq(Msg)  BY <1>1, <1>7 DEF WriteOK, Between, QueueType
  <2>2. Append(got[c], busy[c]) \in Seq(Msg)  BY <2>1, AppendProperties
  <2> QED BY <1>1, <1>7, <2>2 DEF WriteOK, QueueType
<1> QED BY <1>2, <1>4, <1>5, <1>6, <1>7, MsgIs, QueueSteps DEF Observe, Describe, TypeInv,
           Between

LEMMA BetweenStep ==
  ASSUME TypeInv, [Next]_vars  PROVE Between'
<1>1. Between /\ FlagType /\ QueueType  BY TypeParts DEF TypeInv
<1> SUFFICES ASSUME NEW d \in Clients
             PROVE  /\ pc'[d] \in {"replay", "waiting"} => busy'[d] = None
                    /\ pc'[d] = "writing" => busy'[d] \in Msg
                    /\ pc'[d] = "new" => /\ d \notin reg' \cup shut' \cup doomed'
                                         /\ q'[d] = << >> /\ got'[d] = << >> /\ busy'[d] = None
  BY FeedStep DEF Between
<1>2. /\ pc[d] \in {"replay", "waiting"} => busy[d] = None
      /\ pc[d] = "writing" => busy[d] \in Msg
      /\ pc[d] = "new" => /\ d \notin reg \cup shut \cup doomed
                          /\ q[d] = << >> /\ got[d] = << >> /\ busy[d] = None
  BY <1>1 DEF Between
<1>3. ASSUME NEW m, FanOut(m)
      PROVE  /\ UNCHANGED <<pc, busy, got, reg, shut>>
             /\ d \notin reg => q'[d] = q[d] /\ (d \notin doomed => d \notin doomed')
  BY <1>3 DEF FanOut
<1>4. CASE Observe \/ Describe  BY <1>2, <1>3, <1>4 DEF Observe, Describe
<1>5. CASE Remember \/ Tapping \/ UNCHANGED vars
  BY <1>2, <1>5 DEF Remember, Tapping, TapOpen, TapDetach, TapClose, TapTake, client, vars
<1>6. ASSUME NEW c \in Clients, Rover(c), c # d
      PROVE  /\ pc'[d] = pc[d] /\ busy'[d] = busy[d] /\ q'[d] = q[d] /\ got'[d] = got[d]
             /\ d \notin reg => d \notin reg'
             /\ d \notin shut => d \notin shut'
             /\ d \notin doomed => d \notin doomed'
  BY <1>1, <1>6 DEF Rover, Handler, Register, Replay, Take, WriteOK, StreamEnds, Deregister,
                CloseClient, End, ReaderEnds, Drop, PeerChanges, FlagType, QueueType
<1>7. ASSUME Rover(d), pc'[d] = "new"
      PROVE  pc[d] = "new" /\ UNCHANGED <<reg, shut, doomed, q, got, busy>>
  <2>1. ~Handler(d)
    BY <1>1, <1>7 DEF Handler, Register, Replay, Take, WriteOK, StreamEnds, Deregister,
                      CloseClient, End, FlagType
  <2>2. CASE ReaderEnds(d) \/ PeerChanges(d)
    BY <1>7, <2>2 DEF ReaderEnds, PeerChanges
  <2>3. CASE Drop(d)  BY <1>2, <1>7, <2>3 DEF Drop
  <2> QED BY <1>7, <2>1, <2>2, <2>3 DEF Rover
<1>8. ASSUME Rover(d)
      PROVE  /\ pc'[d] \in {"replay", "waiting"} => busy'[d] = None
             /\ pc'[d] = "writing" => busy'[d] \in Msg
  <2>1. CASE Take(d)
    <3>1. Head(q[d]) \in Msg  BY <1>1, <2>1 DEF Take, QueueType
    <3> QED BY <1>1, <2>1, <3>1 DEF Take, FlagType, QueueType
  <2>2. CASE WriteOK(d)  BY <1>1, <2>2 DEF WriteOK, FlagType, QueueType
  <2>3. CASE Register(d)  BY <1>1, <1>2, <2>3 DEF Register, FlagType
  <2>4. CASE Replay(d)  BY <1>1, <1>2, <2>4 DEF Replay, FlagType
  <2>5. CASE StreamEnds(d) \/ Deregister(d) \/ CloseClient(d) \/ End(d)
    BY <1>1, <2>5 DEF StreamEnds, Deregister, CloseClient, End, FlagType
  <2>6. CASE ReaderEnds(d) \/ Drop(d) \/ PeerChanges(d)
    BY <1>2, <2>6 DEF ReaderEnds, Drop, PeerChanges
  <2> QED BY <1>8, <2>1, <2>2, <2>3, <2>4, <2>5, <2>6 DEF Rover, Handler
<1>9. CASE \E c \in Clients : Rover(c)
  BY <1>2, <1>6, <1>7, <1>8, <1>9
<1> QED BY <1>4, <1>5, <1>9, Steps

LEMMA InitTypes ==
  ASSUME Init  PROVE TypeInv
<1>1. << >> \in Seq(Msg) /\ Len(<< >>) = 0  BY EmptySeq
<1>2. QueueType  BY <1>1 DEF Init, QueueType
<1>3. FeedType /\ FlagType  BY DEF Init, FeedType, FlagType, Places
<1>4. TapType
  <2>1. taps \in BOOLEAN /\ tapShut \in BOOLEAN  BY DEF Init
  <2> QED BY <2>1 DEF Init, TapType
<1>5. Between  BY DEF Init, Between
<1> QED BY <1>2, <1>3, <1>4, <1>5, TypeParts DEF TypeInv

LEMMA TypeStep ==
  ASSUME TypeInv, [Next]_vars  PROVE TypeInv'
<1>1. FeedType' /\ TapType' /\ FlagType' /\ QueueType' /\ Between'
  BY FeedStep, TapTypeStep, FlagStep, QueueStep, BetweenStep
<1>2. TypeOK' = (FeedType' /\ TapType' /\ FlagType' /\ QueueType')
  BY TypeParts DEF TypeOK, FeedType, TapType, FlagType, QueueType, Places
<1> QED BY <1>1, <1>2 DEF TypeInv

\* Type correctness of a mountpoint, its rovers and its tap.
THEOREM MountTypes == Spec => []TypeOK
<1>1. Init => TypeInv  BY InitTypes
<1>2. TypeInv /\ [Next]_vars => TypeInv'  BY TypeStep
<1>3. TypeInv => TypeOK  BY DEF TypeInv
<1> QED BY <1>1, <1>2, <1>3, PTL DEF Spec

-----------------------------------------------------------------------------
(***************************************************************************)
(* A rover's stream: what it was sent, in order                            *)
(***************************************************************************)
Hand(b) == IF b = None THEN << >> ELSE <<b>>
Line(g, b, s) == g \o Hand(b) \o s

LEMMA StreamIs == ASSUME NEW c \in Clients  PROVE Stream(c) = Line(got[c], busy[c], q[c])
  BY DEF Stream, Line, Hand

LEMMA HandType == ASSUME NEW b \in Msg \cup {None}  PROVE Hand(b) \in Seq(Msg)
  BY EmptySeq DEF Hand

LEMMA LineType ==
  ASSUME NEW g \in Seq(Msg), NEW b \in Msg \cup {None}, NEW s \in Seq(Msg)
  PROVE  Line(g, b, s) \in Seq(Msg)
<1>1. Hand(b) \in Seq(Msg)  BY HandType
<1> QED BY <1>1, ConcatProperties DEF Line

\* Behind what a rover was sent comes what it is sent next.
LEMMA LineGrows ==
  ASSUME NEW g \in Seq(Msg), NEW b \in Msg \cup {None}, NEW s \in Seq(Msg), NEW m \in Msg
  PROVE  Line(g, b, Append(s, m)) = Append(Line(g, b, s), m)
<1>1. Hand(b) \in Seq(Msg)  BY HandType
<1> DEFINE h == Hand(b)
<1> HIDE DEF h
<1>2. h \in Seq(Msg) /\ g \o h \in Seq(Msg)  BY <1>1, ConcatProperties DEF h
<1> DEFINE w == g \o h
<1> HIDE DEF w
<1>3. w \o Append(s, m) = Append(w \o s, m)  BY <1>2 DEF w
<1> QED BY <1>3 DEF Line, w, h

\* Taking the first message from the channel, and writing it, leave the stream.
LEMMA LineTaken ==
  ASSUME NEW g \in Seq(Msg), NEW s \in Seq(Msg), s # << >>, None \notin Msg
  PROVE  Line(g, Head(s), Tail(s)) = Line(g, None, s)
<1>1. Head(s) \in Msg /\ Tail(s) \in Seq(Msg) /\ s = <<Head(s)>> \o Tail(s)
  BY HeadTailProperties
<1> DEFINE x == Head(s)
           y == Tail(s)
<1> HIDE DEF x, y
<1>2. x \in Msg /\ y \in Seq(Msg) /\ s = <<x>> \o y  BY <1>1 DEF x, y
<1>3. Hand(x) = <<x>> /\ Hand(None) = << >>  BY <1>2 DEF Hand
<1>4. (g \o <<x>>) \o y = g \o (<<x>> \o y)  BY <1>2
<1>5. g \o << >> = g  OBVIOUS
<1> QED BY <1>2, <1>3, <1>4, <1>5 DEF Line, x, y

LEMMA LineWritten ==
  ASSUME NEW g \in Seq(Msg), NEW b \in Msg, NEW s \in Seq(Msg), None \notin Msg
  PROVE  Line(Append(g, b), None, s) = Line(g, b, s)
<1>1. Hand(b) = <<b>> /\ Hand(None) = << >>  BY DEF Hand
<1>2. Append(g, b) = g \o <<b>> /\ Append(g, b) \o << >> = Append(g, b)  OBVIOUS
<1> QED BY <1>1, <1>2 DEF Line

LEMMA ChannelIs ==
  ASSUME TypeInv, NEW c \in Clients
  PROVE  /\ got[c] \in Seq(Msg) /\ q[c] \in Seq(Msg) /\ busy[c] \in Msg \cup {None}
         /\ None \notin Msg /\ Stream(c) \in Seq(Msg)
<1>1. QueueType /\ None \notin Msg  BY TypeParts, MsgIs DEF TypeInv
<1>2. got[c] \in Seq(Msg) /\ q[c] \in Seq(Msg) /\ busy[c] \in Msg \cup {None}
  BY <1>1 DEF QueueType
<1> QED BY <1>1, <1>2, LineType, StreamIs

\* A fan-out adds its message behind what every rover with room was sent.
LEMMA FanOutStream ==
  ASSUME TypeInv, NEW m \in Msg, FanOut(m), NEW c \in Clients
  PROVE  Stream(c)' = IF c \in reg /\ Room(c) THEN Append(Stream(c), m) ELSE Stream(c)
<1>1. /\ q' = [d \in Clients |-> IF d \in reg /\ Room(d) THEN Append(q[d], m) ELSE q[d]]
      /\ UNCHANGED <<got, busy>>
  BY DEF FanOut
<1>2. Stream(c)' = Line(got[c], busy[c], q'[c])  BY <1>1 DEF Stream, Line, Hand
<1>3. CASE c \in reg /\ Room(c)
  <2>1. q'[c] = Append(q[c], m)  BY <1>1, <1>3
  <2>2. Line(got[c], busy[c], Append(q[c], m)) = Append(Line(got[c], busy[c], q[c]), m)
    BY ChannelIs, LineGrows
  <2> QED BY <1>2, <1>3, <2>1, <2>2, StreamIs
<1>4. CASE ~(c \in reg /\ Room(c))
  <2>1. q'[c] = q[c]  BY <1>1, <1>4
  <2> QED BY <1>2, <1>4, <2>1, StreamIs
<1> QED BY <1>3, <1>4

\* The replay adds the remembered description, and nothing else a rover's
\* goroutines do changes what it was sent.
LEMMA RoverStream ==
  ASSUME TypeInv, NEW d \in Clients, Rover(d), NEW c \in Clients
  PROVE  /\ c # d \/ ~Replay(d) => Stream(c)' = Stream(c)
         /\ c = d /\ Replay(d) =>
              Stream(c)' = IF last > 0 /\ Room(c) THEN Append(Stream(c), Sta(last))
                                                  ELSE Stream(c)
<1>1. FlagType /\ QueueType /\ Between  BY TypeParts DEF TypeInv
<1>2. Stream(c)' = Line(got'[c], busy'[c], q'[c])  BY DEF Stream, Line, Hand
<1>3. ASSUME got'[c] = got[c], busy'[c] = busy[c], q'[c] = q[c]
      PROVE  Stream(c)' = Stream(c)
  BY <1>2, <1>3, StreamIs
<1>4. CASE c # d
  <2>1. got'[c] = got[c] /\ busy'[c] = busy[c] /\ q'[c] = q[c]
    BY <1>1, <1>4 DEF Rover, Handler, Register, Replay, Take, WriteOK, StreamEnds, Deregister,
                CloseClient, End, ReaderEnds, Drop, PeerChanges, QueueType
  <2> QED BY <1>3, <1>4, <2>1
<1>5. CASE c = d /\ Replay(d)
  <2>1. /\ got'[c] = got[c] /\ busy'[c] = busy[c]
        /\ q'[c] = IF last > 0 /\ Room(c) THEN Append(q[c], Sta(last)) ELSE q[c]
    BY <1>1, <1>5 DEF Replay, QueueType
  <2>2. CASE last > 0 /\ Room(c)
    <3>1. Sta(last) \in Msg  BY <2>2, MsgIs
    <3>2. Line(got[c], busy[c], Append(q[c], Sta(last)))
            = Append(Line(got[c], busy[c], q[c]), Sta(last))
      BY <3>1, ChannelIs, LineGrows
    <3> QED BY <1>2, <1>5, <2>1, <2>2, <3>2, StreamIs
  <2>3. CASE ~(last > 0 /\ Room(c))
    BY <1>2, <1>5, <2>1, <2>3, StreamIs
  <2> QED BY <2>2, <2>3
<1>6. CASE c = d /\ Take(d)
  <2>1. /\ q[c] # << >> /\ busy[c] = None /\ got'[c] = got[c]
        /\ busy'[c] = Head(q[c]) /\ q'[c] = Tail(q[c])
    BY <1>1, <1>6 DEF Take, QueueType, Between
  <2>2. Stream(c)' = Stream(c)  BY <1>2, <2>1, ChannelIs, LineTaken, StreamIs
  <2> QED BY <1>1, <1>6, <2>2 DEF Take, Replay
<1>7. CASE c = d /\ WriteOK(d)
  <2>1. /\ busy[c] \in Msg /\ got'[c] = Append(got[c], busy[c])
        /\ busy'[c] = None /\ q'[c] = q[c]
    BY <1>1, <1>7 DEF WriteOK, QueueType, Between
  <2>2. Stream(c)' = Stream(c)  BY <1>2, <2>1, ChannelIs, LineWritten, StreamIs
  <2> QED BY <1>1, <1>7, <2>2 DEF WriteOK, Replay
<1>8. CASE c = d /\ ~Replay(d) /\ ~Take(d) /\ ~WriteOK(d)
  <2>1. UNCHANGED <<got, busy, q>>
    BY <1>8 DEF Rover, Handler, Register, StreamEnds, Deregister, CloseClient, End,
                ReaderEnds, Drop, PeerChanges
  <2> QED BY <1>3, <1>8, <2>1
<1> QED BY <1>4, <1>5, <1>6, <1>7, <1>8

\* No other step changes what a rover was sent.
LEMMA QuietStream ==
  ASSUME Remember \/ Tapping \/ UNCHANGED vars, NEW c \in Clients
  PROVE  Stream(c)' = Stream(c) /\ UNCHANGED client /\ obs' = obs
BY DEF Remember, Tapping, TapOpen, TapDetach, TapClose, TapTake, client, feed, vars, Stream

-----------------------------------------------------------------------------
(***************************************************************************)
(* The numbers in a stream                                                 *)
(***************************************************************************)
\* Descriptions never go back, nor past x; observations rise, up to x.
SteadyTo(s, x) ==
  /\ \A i \in At(s, "sta") : s[i].n <= x
  /\ \A i, j \in At(s, "sta") : i < j => s[i].n <= s[j].n

RisingTo(s, x) ==
  /\ \A i \in At(s, "obs") : s[i].n <= x
  /\ \A i, j \in At(s, "obs") : i < j => s[i].n < s[j].n

Numbers(s) == {s[i].n : i \in At(s, "obs")}

LEMMA AtAppend ==
  ASSUME NEW s \in Seq(Msg), NEW m \in Msg, NEW k
  PROVE  /\ At(Append(s, m), k) = At(s, k) \cup (IF m.kind = k THEN {Len(s) + 1} ELSE {})
         /\ Len(s) \in Nat /\ At(s, k) \subseteq 1..Len(s)
         /\ \A i \in 1..Len(s) : Append(s, m)[i] = s[i]
         /\ Append(s, m)[Len(s) + 1] = m
<1> DEFINE n == Len(s)
           t == Append(s, m)
<1>1. n \in Nat /\ DOMAIN s = 1..n  BY LenProperties
<1>2. /\ t \in Seq(Msg) /\ Len(t) = n + 1 /\ t[n + 1] = m
      /\ \A i \in 1..n : t[i] = s[i]
  BY AppendProperties
<1>3. DOMAIN t = 1..(n + 1)  BY <1>2, LenProperties
<1> HIDE DEF n, t
<1>4. At(t, k) = At(s, k) \cup (IF m.kind = k THEN {n + 1} ELSE {})
  BY <1>1, <1>2, <1>3 DEF At
<1>5. At(s, k) \subseteq 1..n  BY <1>1 DEF At
<1> QED BY <1>1, <1>2, <1>4, <1>5 DEF n, t

LEMMA NumberType ==
  ASSUME NEW s \in Seq(Msg), NEW i \in DOMAIN s  PROVE s[i].n \in Nat
<1>1. s[i] \in Msg  BY LenProperties, ElementOfSeq
<1> QED BY <1>1 DEF Msg

LEMMA SteadyAppend ==
  ASSUME NEW s \in Seq(Msg), NEW m \in Msg, NEW x \in Nat, SteadyTo(s, x),
         m.kind = "sta" => m.n = x
  PROVE  SteadyTo(Append(s, m), x)
<1> DEFINE n == Len(s)
           t == Append(s, m)
<1>1. /\ At(t, "sta") = At(s, "sta") \cup (IF m.kind = "sta" THEN {n + 1} ELSE {})
      /\ n \in Nat /\ At(s, "sta") \subseteq 1..n
      /\ \A i \in 1..n : t[i] = s[i]
      /\ t[n + 1] = m
  BY AtAppend
<1> HIDE DEF n, t
<1>2. SteadyTo(t, x)  BY <1>1 DEF SteadyTo
<1> QED BY <1>2 DEF t

LEMMA RisingAppend ==
  ASSUME NEW s \in Seq(Msg), NEW m \in Msg, NEW x \in Nat, RisingTo(s, x),
         m.kind = "obs" => m.n = x + 1
  PROVE  /\ RisingTo(Append(s, m), IF m.kind = "obs" THEN x + 1 ELSE x)
         /\ Numbers(Append(s, m)) = Numbers(s) \cup (IF m.kind = "obs" THEN {x + 1} ELSE {})
<1> DEFINE n == Len(s)
           t == Append(s, m)
<1>1. /\ At(t, "obs") = At(s, "obs") \cup (IF m.kind = "obs" THEN {n + 1} ELSE {})
      /\ n \in Nat /\ At(s, "obs") \subseteq 1..n
      /\ \A i \in 1..n : t[i] = s[i]
      /\ t[n + 1] = m
  BY AtAppend
<1>2. \A i \in At(s, "obs") : s[i].n \in Nat /\ s[i].n <= x
  BY NumberType DEF RisingTo, At
<1> HIDE DEF n, t
<1>3. RisingTo(t, IF m.kind = "obs" THEN x + 1 ELSE x)  BY <1>1, <1>2 DEF RisingTo
<1>4. Numbers(t) = Numbers(s) \cup (IF m.kind = "obs" THEN {x + 1} ELSE {})
  BY <1>1 DEF Numbers
<1> QED BY <1>3, <1>4 DEF t

-----------------------------------------------------------------------------
(***************************************************************************)
(* What a rover gets                                                       *)
(***************************************************************************)
\* Every stream is in order, and nothing in it is of the future.
OrderInv == \A c \in Clients : SteadyTo(Stream(c), sta) /\ RisingTo(Stream(c), obs)

\* A rover that is not being closed has every observation since it registered.
GapInv ==
  \A c \in reg \ (shut \cup doomed) :
    joined[c] <= obs /\ Numbers(Stream(c)) = (joined[c] + 1)..obs

StreamInv == OrderInv /\ GapInv /\ JoinerHasStation

\* A rover that has not come has an empty stream.
LEMMA NewStream ==
  ASSUME TypeInv, NEW c \in Clients, pc[c] = "new"  PROVE Numbers(Stream(c)) = {}
<1>1. got[c] = << >> /\ busy[c] = None /\ q[c] = << >>  BY DEF TypeInv, Between
<1>2. Stream(c) = << >>  BY <1>1 DEF Stream
<1> QED BY <1>2 DEF Numbers, At

LEMMA OrderStep ==
  ASSUME TypeInv, OrderInv, [Next]_vars  PROVE OrderInv'
<1>1. FeedType /\ last = sta /\ obs \in Nat /\ sta \in Nat
  BY TypeParts DEF TypeInv, Between, FeedType
<1> SUFFICES ASSUME NEW c \in Clients
             PROVE  SteadyTo(Stream(c)', sta') /\ RisingTo(Stream(c)', obs')
  BY DEF OrderInv, SteadyTo, RisingTo
<1>2. /\ Stream(c) \in Seq(Msg) /\ SteadyTo(Stream(c), sta) /\ RisingTo(Stream(c), obs)
      /\ \A i \in DOMAIN Stream(c) : Stream(c)[i].n \in Nat
  BY ChannelIs, NumberType DEF OrderInv
<1>3. CASE Observe
  <2>1. Obs(obs') \in Msg /\ obs' = obs + 1 /\ sta' = sta /\ FanOut(Obs(obs'))
        /\ Obs(obs').kind = "obs" /\ Obs(obs').n = obs + 1
    BY <1>3, MsgIs DEF Observe, Obs
  <2>2. CASE Stream(c)' = Append(Stream(c), Obs(obs'))
    BY <1>1, <1>2, <2>1, <2>2, SteadyAppend, RisingAppend
  <2>3. CASE Stream(c)' = Stream(c)
    BY <1>1, <1>2, <2>1, <2>3 DEF RisingTo, At
  <2> QED BY <2>1, <2>2, <2>3, FanOutStream
<1>4. CASE Describe
  <2>1. Sta(sta) \in Msg /\ UNCHANGED <<obs, sta>> /\ FanOut(Sta(sta))
        /\ Sta(sta).kind = "sta" /\ Sta(sta).n = sta
    BY <1>4, MsgIs DEF Describe, Sta
  <2>2. CASE Stream(c)' = Append(Stream(c), Sta(sta))
    BY <1>1, <1>2, <2>1, <2>2, SteadyAppend, RisingAppend
  <2>3. CASE Stream(c)' = Stream(c)  BY <1>2, <2>1, <2>3
  <2> QED BY <2>1, <2>2, <2>3, FanOutStream
<1>5. CASE Remember \/ Tapping \/ UNCHANGED vars
  <2>1. Stream(c)' = Stream(c) /\ obs' = obs /\ (sta' = sta \/ sta' = sta + 1)
    BY <1>5, QuietStream DEF Remember, Tapping, TapOpen, TapDetach, TapClose, TapTake, feed, vars
  <2> QED BY <1>1, <1>2, <2>1 DEF SteadyTo, At
<1>6. ASSUME NEW d \in Clients, Rover(d)
      PROVE  SteadyTo(Stream(c)', sta') /\ RisingTo(Stream(c)', obs')
  <2>1. UNCHANGED <<obs, sta>>
    BY <1>6 DEF Rover, Handler, Register, Replay, Take, WriteOK, StreamEnds, Deregister,
                CloseClient, End, ReaderEnds, Drop, PeerChanges, feed
  <2>2. Stream(c)' = Stream(c) \/ (last > 0 /\ Stream(c)' = Append(Stream(c), Sta(last)))
    BY <1>6, RoverStream
  <2>3. CASE last > 0 /\ Stream(c)' = Append(Stream(c), Sta(last))
    <3>1. Sta(last) \in Msg /\ Sta(last).kind = "sta" /\ Sta(last).n = sta
      BY <1>1, <2>3, MsgIs DEF Sta
    <3> QED BY <1>1, <1>2, <2>1, <2>3, <3>1, SteadyAppend, RisingAppend
  <2> QED BY <1>2, <2>1, <2>2, <2>3
<1> QED BY <1>3, <1>4, <1>5, <1>6, Steps

LEMMA GapStep ==
  ASSUME TypeInv, OrderInv, GapInv, [Next]_vars  PROVE GapInv'
<1>1. FeedType /\ FlagType /\ last = sta /\ obs \in Nat /\ Between
  BY TypeParts DEF TypeInv, Between, FeedType
<1> SUFFICES ASSUME NEW c \in reg' \ (shut' \cup doomed')
             PROVE  joined'[c] <= obs' /\ Numbers(Stream(c)') = (joined'[c] + 1)..obs'
  BY DEF GapInv, Numbers, At
<1>2. c \in Clients /\ joined[c] \in Nat
  BY <1>1, FlagStep DEF FlagType
<1>3. Stream(c) \in Seq(Msg) /\ RisingTo(Stream(c), obs)  BY <1>2, ChannelIs DEF OrderInv
<1>4. ASSUME c \in reg \ (shut \cup doomed)
      PROVE  joined[c] <= obs /\ Numbers(Stream(c)) = (joined[c] + 1)..obs
  BY <1>4 DEF GapInv
<1>5. CASE Observe
  <2>1. Obs(obs') \in Msg /\ obs' = obs + 1 /\ FanOut(Obs(obs'))
        /\ Obs(obs').kind = "obs" /\ Obs(obs').n = obs + 1
    BY <1>5, MsgIs DEF Observe, Obs
  <2>2. c \in reg \ (shut \cup doomed) /\ Room(c) /\ joined' = joined
    BY <2>1 DEF FanOut
  <2>3. Stream(c)' = Append(Stream(c), Obs(obs'))  BY <1>2, <2>1, <2>2, FanOutStream
  <2>4. Numbers(Stream(c)') = Numbers(Stream(c)) \cup {obs + 1}
    BY <1>1, <1>3, <2>1, <2>3, RisingAppend
  <2> QED BY <1>1, <1>2, <1>4, <2>1, <2>2, <2>4
<1>6. CASE Describe
  <2>1. Sta(sta) \in Msg /\ obs' = obs /\ FanOut(Sta(sta)) /\ Sta(sta).kind = "sta"
    BY <1>6, MsgIs DEF Describe, Sta
  <2>2. c \in reg \ (shut \cup doomed) /\ Room(c) /\ joined' = joined
    BY <2>1 DEF FanOut
  <2>3. Stream(c)' = Append(Stream(c), Sta(sta))  BY <1>2, <2>1, <2>2, FanOutStream
  <2>4. Numbers(Stream(c)') = Numbers(Stream(c))
    BY <1>1, <1>3, <2>1, <2>3, RisingAppend
  <2> QED BY <1>4, <2>1, <2>2, <2>4
<1>7. CASE Remember \/ Tapping \/ UNCHANGED vars
  <2>1. Stream(c)' = Stream(c) /\ obs' = obs /\ UNCHANGED <<reg, shut, doomed, joined>>
    BY <1>2, <1>7, QuietStream DEF client
  <2> QED BY <1>4, <2>1
<1>8. ASSUME NEW d \in Clients, Rover(d)
      PROVE  joined'[c] <= obs' /\ Numbers(Stream(c)') = (joined'[c] + 1)..obs'
  <2>1. obs' = obs
    BY <1>8 DEF Rover, Handler, Register, Replay, Take, WriteOK, StreamEnds, Deregister,
                CloseClient, End, ReaderEnds, Drop, PeerChanges, feed
  <2>2. Numbers(Stream(c)') = Numbers(Stream(c))
    <3>1. Stream(c)' = Stream(c) \/ (last > 0 /\ Stream(c)' = Append(Stream(c), Sta(last)))
      BY <1>2, <1>8, RoverStream
    <3>2. CASE last > 0 /\ Stream(c)' = Append(Stream(c), Sta(last))
      <4>1. Sta(last) \in Msg /\ Sta(last).kind = "sta"  BY <3>2, MsgIs DEF Sta
      <4> QED BY <1>1, <1>3, <3>2, <4>1, RisingAppend
    <3> QED BY <3>1, <3>2
  <2>3. CASE Register(d) /\ c = d
    <3>1. joined'[c] = obs /\ pc[c] = "new"  BY <1>1, <2>3 DEF Register, FlagType
    <3>2. Numbers(Stream(c)) = {}  BY <1>2, <3>1, NewStream
    <3> QED BY <1>1, <2>1, <2>2, <3>1, <3>2
  <2>4. CASE ~(Register(d) /\ c = d)
    <3>1. c \in reg \ (shut \cup doomed) /\ joined'[c] = joined[c]
      BY <1>1, <1>2, <1>8, <2>4 DEF Rover, Handler, Register, Replay, Take, WriteOK, StreamEnds,
         Deregister, CloseClient, End, ReaderEnds, Drop, PeerChanges, FlagType
    <3> QED BY <1>4, <2>1, <2>2, <3>1
  <2> QED BY <2>3, <2>4
<1> QED BY <1>5, <1>6, <1>7, <1>8, Steps

\* Behind a stream nothing in it is lost, and what is added is there.
LEMMA StillThere ==
  ASSUME NEW s \in Seq(Msg), NEW m \in Msg
  PROVE  /\ \E i \in DOMAIN Append(s, m) : Append(s, m)[i] = m
         /\ \A x : (\E i \in DOMAIN s : s[i] = x)
                     => \E i \in DOMAIN Append(s, m) : Append(s, m)[i] = x
<1> DEFINE n == Len(s)
           t == Append(s, m)
<1>1. n \in Nat /\ DOMAIN s = 1..n  BY LenProperties
<1>2. /\ t \in Seq(Msg) /\ Len(t) = n + 1 /\ t[n + 1] = m
      /\ \A i \in 1..n : t[i] = s[i]
  BY AppendProperties
<1>3. DOMAIN t = 1..(n + 1)  BY <1>2, LenProperties
<1> HIDE DEF n, t
<1>4. n + 1 \in DOMAIN t /\ DOMAIN s \subseteq DOMAIN t  BY <1>1, <1>3
<1>5. \E i \in DOMAIN t : t[i] = m  BY <1>2, <1>4
<1>6. \A x : (\E i \in DOMAIN s : s[i] = x) => \E i \in DOMAIN t : t[i] = x
  BY <1>1, <1>2, <1>4
<1> QED BY <1>5, <1>6 DEF t

LEMMA JoinerStep ==
  ASSUME TypeInv, JoinerHasStation, [Next]_vars  PROVE JoinerHasStation'
<1>1. FeedType /\ FlagType /\ last = sta  BY TypeParts DEF TypeInv, Between
<1> DEFINE Has(s, x) == \E i \in DOMAIN s : s[i] = x
<1> SUFFICES ASSUME NEW c \in Healthy' \ noRoom', gen' = "idle", sta' > 0
             PROVE  Has(Stream(c)', Sta(sta'))
  BY DEF JoinerHasStation, Sta
<1>2. /\ c \in Clients /\ c \in reg' \ (shut' \cup doomed')
      /\ pc'[c] \in {"waiting", "writing"} /\ c \notin noRoom'
  BY <1>1, FlagStep DEF Healthy, FlagType
<1>3. Stream(c) \in Seq(Msg)  BY <1>2, ChannelIs
<1>4. ASSUME c \in reg \ (shut \cup doomed), pc[c] \in {"waiting", "writing"}, c \notin noRoom,
             gen = "idle", sta' = sta
      PROVE  Has(Stream(c), Sta(sta))
  BY <1>4 DEF JoinerHasStation, Healthy
<1>5. \A m \in Msg : Has(Stream(c), Sta(sta)) => Has(Append(Stream(c), m), Sta(sta))
  BY <1>3, StillThere
<1>6. CASE Observe
  <2>1. Obs(obs') \in Msg /\ FanOut(Obs(obs')) /\ UNCHANGED <<gen, sta>>
    BY <1>6, MsgIs DEF Observe
  <2>2. c \in reg \ (shut \cup doomed) /\ pc[c] \in {"waiting", "writing"} /\ c \notin noRoom
    BY <1>2, <2>1 DEF FanOut
  <2>3. Stream(c)' = Stream(c) \/ Stream(c)' = Append(Stream(c), Obs(obs'))
    BY <1>2, <2>1, FanOutStream
  <2> QED BY <1>4, <1>5, <2>1, <2>2, <2>3
<1>7. CASE Describe
  <2>1. Sta(sta) \in Msg /\ FanOut(Sta(sta)) /\ sta' = sta
    BY <1>7, MsgIs DEF Describe
  <2>2. c \in reg /\ Room(c)  BY <1>2, <2>1 DEF FanOut
  <2>3. Stream(c)' = Append(Stream(c), Sta(sta))  BY <1>2, <2>1, <2>2, FanOutStream
  <2>4. Has(Append(Stream(c), Sta(sta)), Sta(sta))  BY <1>3, <2>1, StillThere
  <2> QED BY <2>1, <2>3, <2>4
<1>8. CASE Tapping \/ UNCHANGED vars
  <2>1. Stream(c)' = Stream(c) /\ UNCHANGED <<reg, shut, doomed, noRoom, pc, gen, sta>>
    BY <1>2, <1>8, QuietStream DEF client, Tapping, TapOpen, TapDetach, TapClose, TapTake, feed,
                                   vars
  <2> QED BY <1>2, <1>4, <2>1
<1>9. ASSUME NEW d \in Clients, Rover(d)  PROVE Has(Stream(c)', Sta(sta'))
  <2>1. UNCHANGED <<gen, sta>>
    BY <1>9 DEF Rover, Handler, Register, Replay, Take, WriteOK, StreamEnds, Deregister,
                CloseClient, End, ReaderEnds, Drop, PeerChanges, feed
  <2>2. CASE c = d /\ Replay(d)
    <3>1. last > 0  BY <1>1, <2>1
    <3>2. Room(c)  BY <1>2, <2>2, <3>1 DEF Replay
    <3>3. Stream(c)' = Append(Stream(c), Sta(sta))
      BY <1>1, <1>2, <1>9, <2>2, <3>1, <3>2, RoverStream
    <3>4. Has(Append(Stream(c), Sta(sta)), Sta(sta))
      BY <1>1, <1>3, <3>1, MsgIs, StillThere
    <3> QED BY <2>1, <3>3, <3>4
  <2>3. CASE c # d \/ ~Replay(d)
    <3>1. Stream(c)' = Stream(c)  BY <1>2, <1>9, <2>3, RoverStream
    <3>2. /\ c \in reg \ (shut \cup doomed) /\ pc[c] \in {"waiting", "writing"}
          /\ c \notin noRoom
      BY <1>1, <1>2, <1>9, <2>3 DEF Rover, Handler, Register, Replay, Take, WriteOK, StreamEnds,
         Deregister, CloseClient, End, ReaderEnds, Drop, PeerChanges, FlagType
    <3> QED BY <1>4, <2>1, <3>1, <3>2
  <2> QED BY <2>2, <2>3
<1>10. ~Remember  BY DEF Remember
<1> QED BY <1>6, <1>7, <1>8, <1>9, <1>10, Steps

LEMMA InitStreams == ASSUME Init  PROVE StreamInv
<1>1. \A c \in Clients : Stream(c) = << >>  BY DEF Init, Stream
<1>2. OrderInv  BY <1>1 DEF Init, OrderInv, SteadyTo, RisingTo, At
<1> QED BY <1>2 DEF Init, StreamInv, GapInv, JoinerHasStation, Healthy

LEMMA StreamHolds == Spec => [](TypeInv /\ StreamInv)
<1>1. Init => TypeInv /\ StreamInv  BY InitTypes, InitStreams
<1>2. TypeInv /\ StreamInv /\ [Next]_vars => TypeInv' /\ StreamInv'
  BY TypeStep, OrderStep, GapStep, JoinerStep DEF StreamInv
<1> QED BY <1>1, <1>2, PTL DEF Spec

\* A rover's description of the station never goes back and is the newest it
\* could have, for any number of rovers and any size of their channels.
THEOREM StationStaysCurrent == Spec => []StationIsCurrent
<1>1. StreamInv => StationIsCurrent
  BY DEF StreamInv, OrderInv, SteadyTo, StationIsCurrent, StationNeverBackwards
<1> QED BY <1>1, StreamHolds, PTL

\* A rover that stays connected has every observation since it registered.
THEOREM MountHasNoGap == Spec => []NoSilentGap
<1>1. ASSUME TypeInv, StreamInv  PROVE NoSilentGap
  <2> SUFFICES ASSUME NEW c \in Healthy
               PROVE  /\ Numbers(Stream(c)) = (joined[c] + 1)..obs
                      /\ \A i, j \in At(Stream(c), "obs") :
                           i < j => Stream(c)[i].n < Stream(c)[j].n
    BY DEF NoSilentGap, Numbers
  <2>1. c \in Clients /\ c \in reg \ (shut \cup doomed)
    BY <1>1, TypeParts DEF TypeInv, FlagType, Healthy
  <2> QED BY <1>1, <2>1 DEF StreamInv, OrderInv, GapInv, RisingTo
<1> QED BY <1>1, StreamHolds, PTL
=============================================================================
