---------------------------- MODULE ClientProofs ----------------------------
(***************************************************************************)
(* Proofs about who receives the station's streams: RawServer, for any set *)
(* of clients, any channel capacity and any number of frames, and          *)
(* Admission, for any number of connections, ids and limits.               *)
(***************************************************************************)
EXTENDS RawServer, Admission, FiniteSetTheorems, SequenceTheorems, TLAPS

USE RawAssumption DEF RawAssumption

-----------------------------------------------------------------------------
(***************************************************************************)
(* RawServer                                                               *)
(***************************************************************************)
\* What one client's goroutines do.
Own(c) == Add(c) \/ Writer(c) \/ Drop(c) \/ ReaderFails(c) \/ PeerChanges(c)

-----------------------------------------------------------------------------
(***************************************************************************)
(* Types                                                                   *)
(***************************************************************************)
\* The clients that Add counted and whose writer has not left.
Counted == {c \in Clients : writer[c] \notin {"new", "gone"}}

\* TCPServer.Active is the number of clients that have a writer goroutine, so
\* the panel never shows a client that left or forgets one that stays.
ActiveIsTrue == IsFiniteSet(Counted) /\ active = Cardinality(Counted)

\* A client being written to has a frame in hand, a waiting one has none; one
\* that was not accepted yet is nowhere.
Places ==
  \A c \in Clients :
    /\ writer[c] = "waiting" => busy[c] = 0
    /\ writer[c] = "writing" => busy[c] # 0
    /\ writer[c] = "new" => /\ c \notin reg \cup shut \cup doomed /\ reader[c] = "new"
                            /\ q[c] = << >> /\ got[c] = << >> /\ busy[c] = 0

TypeInv == RawTypeOK /\ Places /\ ActiveIsTrue

\* RawTypeOK without the channels and the count.
Flags ==
  /\ ctx \in BOOLEAN /\ accept \in BOOLEAN /\ panicked \in BOOLEAN
  /\ frame \in 0..MaxFrame
  /\ reg \subseteq Clients /\ shut \subseteq Clients /\ doomed \subseteq Clients
  /\ peer \in [Clients -> {"reads", "stuck", "gone"}]
  /\ writer \in [Clients -> {"new", "waiting", "writing", "failed", "leaving", "gone"}]
  /\ reader \in [Clients -> {"new", "reading", "gone"}]

Channels ==
  /\ q \in [Clients -> Seq(1..MaxFrame)] /\ got \in [Clients -> Seq(1..MaxFrame)]
  /\ \A c \in Clients : Len(q[c]) <= Queue
  /\ busy \in [Clients -> 0..MaxFrame] /\ joined \in [Clients -> 0..MaxFrame]

LEMMA TypeParts == RawTypeOK <=> Flags /\ Channels /\ active \in Nat
  BY DEF RawTypeOK, Flags, Channels

\* The steps that touch no channel.
LEMMA ChannelSteps ==
  ASSUME [RawNext]_rawVars
  PROVE  \/ UNCHANGED <<q, got, busy, joined, frame>>
         \/ Broadcast
         \/ \E c \in Clients : Add(c) \/ Take(c) \/ WriteOK(c)
BY DEF RawNext, rawVars, Writer, Cancel, Stop, WriteFails, Drained, Deregister, Leave, Drop,
       ReaderFails, PeerChanges

LEMMA FlagsStep ==
  ASSUME TypeInv, [RawNext]_rawVars  PROVE Flags'
<1>1. Flags  BY TypeParts DEF TypeInv
<1>2. CASE Broadcast
  <2>1. panicked' \in BOOLEAN  BY <1>2 DEF Broadcast, Deliver
  <2>2. frame' \in 0..MaxFrame /\ doomed' \subseteq Clients
    BY <1>1, <1>2 DEF Broadcast, Deliver, Flags
  <2>3. UNCHANGED <<ctx, accept, reg, shut, peer, writer, reader>>  BY <1>2 DEF Broadcast
  <2> QED BY <1>1, <2>1, <2>2, <2>3 DEF Flags
<1>3. CASE Cancel
  <2>1. ctx' \in BOOLEAN  BY <1>3 DEF Cancel
  <2> QED BY <1>1, <1>3, <2>1 DEF Cancel, Flags
<1>4. CASE Stop
  <2>1. accept' \in BOOLEAN  BY <1>4 DEF Stop
  <2> QED BY <1>1, <1>4, <2>1 DEF Stop, Flags
<1>5. ASSUME NEW c \in Clients, Own(c)  PROVE Flags'
  <2>1. UNCHANGED <<ctx, accept, panicked, frame>>
    BY <1>5 DEF Own, Add, Writer, Take, WriteOK, WriteFails, Drained, Deregister, Leave,
                Drop, ReaderFails, PeerChanges
  <2>2. reg' \subseteq Clients /\ shut' \subseteq Clients /\ doomed' \subseteq Clients
    BY <1>1, <1>5 DEF Own, Add, Writer, Take, WriteOK, WriteFails, Drained, Deregister,
                      Leave, Drop, ReaderFails, PeerChanges, Flags
  <2>3. writer' \in [Clients -> {"new", "waiting", "writing", "failed", "leaving", "gone"}]
    BY <1>1, <1>5 DEF Own, Add, Writer, Take, WriteOK, WriteFails, Drained, Deregister,
                      Leave, Drop, ReaderFails, PeerChanges, Flags
  <2>4. /\ peer' \in [Clients -> {"reads", "stuck", "gone"}]
        /\ reader' \in [Clients -> {"new", "reading", "gone"}]
    BY <1>1, <1>5 DEF Own, Add, Writer, Take, WriteOK, WriteFails, Drained, Deregister,
                      Leave, Drop, ReaderFails, PeerChanges, Flags
  <2> QED BY <1>1, <2>1, <2>2, <2>3, <2>4 DEF Flags
<1>6. CASE UNCHANGED rawVars  BY <1>1, <1>6 DEF rawVars, Flags
<1> QED BY <1>2, <1>3, <1>4, <1>5, <1>6 DEF RawNext, Own

LEMMA ChannelsStep ==
  ASSUME TypeInv, [RawNext]_rawVars  PROVE Channels'
<1>1. Flags /\ Channels  BY TypeParts DEF TypeInv
<1>2. CASE UNCHANGED <<q, got, busy, joined, frame>>  BY <1>1, <1>2 DEF Channels
<1>3. CASE Broadcast
  <2>1. frame' \in 1..MaxFrame  BY <1>1, <1>3 DEF Broadcast, Deliver, Flags
  <2>2. ASSUME NEW c \in Clients  PROVE q'[c] \in Seq(1..MaxFrame) /\ Len(q'[c]) <= Queue
    <3>1. q'[c] = q[c] \/ (Len(q[c]) < Queue /\ q'[c] = Append(q[c], frame'))
      BY <1>3 DEF Broadcast, Deliver, Room
    <3>2. q[c] \in Seq(1..MaxFrame) /\ Len(q[c]) <= Queue  BY <1>1 DEF Channels
    <3>3. Append(q[c], frame') \in Seq(1..MaxFrame)
          /\ Len(Append(q[c], frame')) = Len(q[c]) + 1
      BY <2>1, <3>2, AppendProperties
    <3>4. Len(q[c]) \in Nat  BY <3>2, LenProperties
    <3>5. CASE q'[c] = q[c]  BY <3>2, <3>5
    <3>6. CASE Len(q[c]) < Queue /\ q'[c] = Append(q[c], frame')  BY <3>3, <3>4, <3>6
    <3> QED BY <3>1, <3>5, <3>6
  <2>3. q' \in [Clients -> Seq(1..MaxFrame)]
    <3>1. q' = [c \in Clients |-> q'[c]]  BY <1>3 DEF Broadcast, Deliver
    <3> QED BY <2>2, <3>1
  <2> QED BY <1>1, <1>3, <2>2, <2>3 DEF Broadcast, Channels
<1>4. ASSUME NEW c \in Clients, Add(c)  PROVE Channels'
  BY <1>1, <1>4 DEF Add, Flags, Channels
<1>5. ASSUME NEW c \in Clients, Take(c)  PROVE Channels'
  <2>1. Head(q[c]) \in 1..MaxFrame /\ Tail(q[c]) \in Seq(1..MaxFrame)
        /\ Len(Tail(q[c])) <= Queue
    BY <1>1, <1>5 DEF Take, Channels
  <2> QED BY <1>1, <1>5, <2>1 DEF Take, Channels
<1>6. ASSUME NEW c \in Clients, WriteOK(c)  PROVE Channels'
  <2>1. busy[c] \in 1..MaxFrame
    BY <1>1, <1>6 DEF WriteOK, Channels, TypeInv, Places
  <2>2. Append(got[c], busy[c]) \in Seq(1..MaxFrame)  BY <1>1, <2>1 DEF Channels
  <2> QED BY <1>1, <1>6, <2>2 DEF WriteOK, Channels
<1> QED BY <1>2, <1>3, <1>4, <1>5, <1>6, ChannelSteps

LEMMA PlacesStep ==
  ASSUME TypeInv, [RawNext]_rawVars  PROVE Places'
<1>1. Flags /\ Channels /\ Places  BY TypeParts DEF TypeInv
<1>2. CASE Broadcast
  BY <1>1, <1>2 DEF Broadcast, Deliver, Places
<1>3. CASE Cancel \/ Stop
  BY <1>1, <1>3 DEF Cancel, Stop, Places
<1>4. ASSUME NEW c \in Clients, Take(c)  PROVE Places'
  <2>1. Head(q[c]) # 0  BY <1>1, <1>4 DEF Take, Channels
  <2> QED BY <1>1, <1>4, <2>1 DEF Take, Places, Flags, Channels
<1>5. ASSUME NEW c \in Clients, Own(c), ~Take(c)  PROVE Places'
  BY <1>1, <1>5 DEF Own, Add, Writer, WriteOK, WriteFails, Drained, Deregister, Leave,
                    Drop, ReaderFails, PeerChanges, Places, Flags, Channels
<1>6. CASE UNCHANGED rawVars  BY <1>1, <1>6 DEF rawVars, Places
<1> QED BY <1>2, <1>3, <1>4, <1>5, <1>6 DEF RawNext, Own

LEMMA ActiveStep ==
  ASSUME TypeInv, [RawNext]_rawVars  PROVE ActiveIsTrue'
<1>1. Flags /\ ActiveIsTrue  BY TypeParts DEF TypeInv
<1>2. ASSUME NEW c \in Clients, Add(c)  PROVE ActiveIsTrue'
  <2>1. Counted' = Counted \cup {c} /\ c \notin Counted
    BY <1>1, <1>2 DEF Add, Counted, Flags
  <2> QED BY <1>1, <1>2, <2>1, FS_AddElement DEF Add, ActiveIsTrue
<1>3. ASSUME NEW c \in Clients, Leave(c)  PROVE ActiveIsTrue'
  <2>1. Counted' = Counted \ {c} /\ c \in Counted
    BY <1>1, <1>3 DEF Leave, Counted, Flags
  <2> QED BY <1>1, <1>3, <2>1, FS_RemoveElement DEF Leave, ActiveIsTrue
<1>4. CASE Broadcast \/ Cancel \/ Stop \/ UNCHANGED rawVars
  BY <1>1, <1>4 DEF Broadcast, Deliver, Cancel, Stop, rawVars, ActiveIsTrue, Counted
<1>5. ASSUME NEW c \in Clients, Own(c), ~Add(c), ~Leave(c)  PROVE ActiveIsTrue'
  <2>1. Counted' = Counted /\ active' = active
    BY <1>1, <1>5 DEF Own, Writer, Take, WriteOK, WriteFails, Drained, Deregister, Drop,
                      ReaderFails, PeerChanges, Counted, Flags
  <2> QED BY <1>1, <2>1 DEF ActiveIsTrue
<1> QED BY <1>2, <1>3, <1>4, <1>5 DEF RawNext, Own

LEMMA RawInitTypes ==
  ASSUME RawInit  PROVE TypeInv
<1>1. Channels  BY DEF RawInit, Channels
<1>2. Places  BY DEF RawInit, Places
<1>3. ctx \in BOOLEAN /\ accept \in BOOLEAN /\ panicked \in BOOLEAN  BY DEF RawInit
<1>4. Flags  BY <1>3 DEF RawInit, Flags
<1>5. Counted = {} /\ active = 0  BY DEF RawInit, Counted
<1>6. ActiveIsTrue  BY <1>5, FS_EmptySet DEF ActiveIsTrue
<1> QED BY <1>1, <1>2, <1>4, <1>5, <1>6, TypeParts DEF TypeInv

LEMMA RawTypeStep ==
  ASSUME TypeInv, [RawNext]_rawVars  PROVE TypeInv'
<1>1. Flags' /\ Channels' /\ Places' /\ ActiveIsTrue'
  BY FlagsStep, ChannelsStep, PlacesStep, ActiveStep
<1>2. active' \in Nat  BY <1>1, FS_CardinalityType DEF ActiveIsTrue
<1>3. RawTypeOK' = (Flags /\ Channels /\ active \in Nat)'  BY TypeParts DEF RawTypeOK, Flags, Channels
<1> QED BY <1>1, <1>2, <1>3 DEF TypeInv

\* Type correctness of the raw output, and the count of its clients.
THEOREM RawTypes == RawSpec => []TypeInv
<1>1. RawInit => TypeInv  BY RawInitTypes
<1>2. TypeInv /\ [RawNext]_rawVars => TypeInv'  BY RawTypeStep
<1> QED BY <1>1, <1>2, PTL DEF RawSpec

-----------------------------------------------------------------------------
(***************************************************************************)
(* No silent gap                                                           *)
(***************************************************************************)
\* What was written (g), the frame in hand (b, 0 if none) and the channel (s)
\* follow each other, begin after frame j and reach frame f.
TakenBy(g, b) == Len(g) + (IF b = 0 THEN 0 ELSE 1)

Line(g, b, s, j, f) ==
  /\ g \in Seq(Nat) /\ b \in Nat /\ s \in Seq(Nat) /\ j \in Nat /\ f \in Nat
  /\ \A i \in 1..Len(g) : g[i] = j + i
  /\ b # 0 => b = j + Len(g) + 1
  /\ \A i \in 1..Len(s) : s[i] = j + TakenBy(g, b) + i
  /\ j + TakenBy(g, b) + Len(s) = f

LEMMA LineStarts ==
  ASSUME NEW f \in Nat  PROVE Line(<< >>, 0, << >>, f, f)
<1>1. << >> \in Seq(Nat) /\ Len(<< >>) = 0  BY EmptySeq
<1> QED BY <1>1 DEF Line, TakenBy

\* the next frame enters the channel
LEMMA LineGrows ==
  ASSUME NEW g, NEW b, NEW s, NEW j, NEW f, Line(g, b, s, j, f)
  PROVE  Line(g, b, Append(s, f + 1), j, f + 1)
<1>1. g \in Seq(Nat) /\ b \in Nat /\ s \in Seq(Nat) /\ j \in Nat /\ f \in Nat /\ f + 1 \in Nat
  BY DEF Line
<1>2. Len(g) \in Nat /\ Len(s) \in Nat /\ TakenBy(g, b) \in Nat
  BY <1>1, LenProperties DEF TakenBy
<1>3. /\ Append(s, f + 1) \in Seq(Nat) /\ Len(Append(s, f + 1)) = Len(s) + 1
      /\ \A i \in 1..Len(s) : Append(s, f + 1)[i] = s[i]
      /\ Append(s, f + 1)[Len(s) + 1] = f + 1
  BY <1>1, AppendProperties
<1>4. Line(g, b, s, j, f)  OBVIOUS
<1>5. f + 1 = j + TakenBy(g, b) + (Len(s) + 1)  BY <1>1, <1>2, <1>4 DEF Line
<1>6. \A i \in 1..(Len(s) + 1) : Append(s, f + 1)[i] = j + TakenBy(g, b) + i
  <2> SUFFICES ASSUME NEW i \in 1..(Len(s) + 1)
               PROVE  Append(s, f + 1)[i] = j + TakenBy(g, b) + i
    OBVIOUS
  <2>1. CASE i = Len(s) + 1  BY <1>3, <1>5, <2>1
  <2>2. CASE i \in 1..Len(s)  BY <1>3, <1>4, <2>2 DEF Line
  <2> QED BY <1>2, <2>1, <2>2
<1> QED BY <1>1, <1>2, <1>3, <1>4, <1>5, <1>6 DEF Line

\* the head of the channel is taken in hand
LEMMA LineTaken ==
  ASSUME NEW g, NEW s, NEW j, NEW f, Line(g, 0, s, j, f), s # << >>
  PROVE  Line(g, Head(s), Tail(s), j, f)
<1>1. g \in Seq(Nat) /\ s \in Seq(Nat) /\ j \in Nat /\ f \in Nat
  BY DEF Line
<1>2. Len(g) \in Nat /\ Len(s) \in Nat \ {0} /\ TakenBy(g, 0) = Len(g)
  BY <1>1, LenProperties, EmptySeq DEF TakenBy
<1>3. /\ Head(s) = s[1] /\ Tail(s) \in Seq(Nat) /\ Len(Tail(s)) = Len(s) - 1
      /\ \A i \in 1..Len(Tail(s)) : Tail(s)[i] = s[i + 1]
  BY <1>1, HeadTailProperties
<1>4. Head(s) = j + Len(g) + 1  BY <1>1, <1>2, <1>3 DEF Line
<1>5. (\A i \in 1..Len(s) : s[i] = j + Len(g) + i) /\ j + Len(g) + Len(s) = f
  BY <1>2 DEF Line
<1>6. Head(s) \in Nat /\ Head(s) # 0 /\ TakenBy(g, Head(s)) = Len(g) + 1
  BY <1>1, <1>2, <1>4 DEF TakenBy
<1>7. \A i \in 1..Len(Tail(s)) : Tail(s)[i] = j + (Len(g) + 1) + i
  <2> SUFFICES ASSUME NEW i \in 1..Len(Tail(s))  PROVE Tail(s)[i] = j + (Len(g) + 1) + i
    OBVIOUS
  <2>1. i + 1 \in 1..Len(s) /\ Tail(s)[i] = s[i + 1]  BY <1>2, <1>3
  <2>2. s[i + 1] = j + Len(g) + (i + 1)  BY <1>5, <2>1
  <2> QED BY <1>1, <1>2, <2>1, <2>2
<1>8. j + (Len(g) + 1) + Len(Tail(s)) = f
  <2>1. Len(Tail(s)) = Len(s) - 1  BY <1>3
  <2>2. j + Len(g) + Len(s) = f  BY <1>5
  <2> HIDE <1>3
  <2> QED BY <1>1, <1>2, <2>1, <2>2
<1>9. \A i \in 1..Len(g) : g[i] = j + i  BY DEF Line
<1> QED BY <1>1, <1>3, <1>4, <1>6, <1>7, <1>8, <1>9 DEF Line

\* the frame in hand is written
LEMMA LineWritten ==
  ASSUME NEW g, NEW b, NEW s, NEW j, NEW f, Line(g, b, s, j, f), b # 0
  PROVE  Line(Append(g, b), 0, s, j, f)
<1>1. g \in Seq(Nat) /\ b \in Nat /\ s \in Seq(Nat) /\ j \in Nat /\ f \in Nat
  BY DEF Line
<1>2. Len(g) \in Nat /\ TakenBy(g, b) = Len(g) + 1
  BY <1>1, LenProperties DEF TakenBy
<1>3. /\ Append(g, b) \in Seq(Nat) /\ Len(Append(g, b)) = Len(g) + 1
      /\ \A i \in 1..Len(g) : Append(g, b)[i] = g[i]
      /\ Append(g, b)[Len(g) + 1] = b
  BY <1>1, AppendProperties
<1>4. TakenBy(Append(g, b), 0) = TakenBy(g, b)  BY <1>2, <1>3 DEF TakenBy
<1>5. \A i \in 1..(Len(g) + 1) : Append(g, b)[i] = j + i
  BY <1>1, <1>2, <1>3 DEF Line
<1> QED BY <1>1, <1>3, <1>4, <1>5 DEF Line

\* A line is the sequence of the frames after j up to f.
Whole(g, b, s) == g \o (IF b = 0 THEN << >> ELSE <<b>>) \o s
Piece(j, f) == [i \in 1..(f - j) |-> j + i]

LEMMA LineIs ==
  ASSUME NEW g, NEW b, NEW s, NEW j, NEW f, Line(g, b, s, j, f)
  PROVE  Whole(g, b, s) = Piece(j, f)
<1> DEFINE h == IF b = 0 THEN << >> ELSE <<b>>
           all == (g \o h) \o s
<1>1. g \in Seq(Nat) /\ b \in Nat /\ s \in Seq(Nat) /\ j \in Nat /\ f \in Nat
  BY DEF Line
<1>2. h \in Seq(Nat) /\ TakenBy(g, b) = Len(g) + Len(h) /\ Len(h) \in 0..1
      /\ (Len(h) = 1 => h[1] = b /\ b # 0)
  BY <1>1, EmptySeq, LenProperties DEF TakenBy
<1>3. Len(h) \in Nat /\ Len(h) <= 1
  BY <1>1, EmptySeq, LenProperties
<1> HIDE DEF h
<1>4. Len(g) \in Nat /\ Len(s) \in Nat /\ Len(g) + Len(h) \in Nat
  BY <1>3, <1>1, LenProperties
<1>5. /\ g \o h \in Seq(Nat) /\ Len(g \o h) = Len(g) + Len(h)
      /\ \A i \in 1..(Len(g) + Len(h)) : (g \o h)[i] = IF i <= Len(g) THEN g[i] ELSE h[i - Len(g)]
  BY <1>1, <1>2, ConcatProperties
<1>6. \A i \in 1..(Len(g) + Len(h)) : (g \o h)[i] = j + i
  <2> SUFFICES ASSUME NEW i \in 1..(Len(g) + Len(h))  PROVE (g \o h)[i] = j + i
    OBVIOUS
  <2>1. CASE i <= Len(g)
    BY <1>4, <1>5, <2>1 DEF Line
  <2>2. CASE i > Len(g)
    <3>1. \A l, m \in Nat : \A k \in 1..(l + m) :
            m <= 1 /\ k > l => k = l + 1 /\ m = 1 /\ k - l = 1
      OBVIOUS
    <3>2. i = Len(g) + 1 /\ Len(h) = 1 /\ i - Len(g) = 1  BY <1>3, <1>4, <2>2, <3>1
    <3>3. b = j + Len(g) + 1  BY <1>2, <3>2 DEF Line
    <3> QED BY <1>2, <1>4, <1>5, <2>2, <3>2, <3>3, <1>1
  <2> QED BY <1>4, <2>1, <2>2
<1>7. /\ all \in Seq(Nat) /\ Len(all) = Len(g \o h) + Len(s)
      /\ \A i \in 1..(Len(g \o h) + Len(s)) :
           all[i] = IF i <= Len(g \o h) THEN (g \o h)[i] ELSE s[i - Len(g \o h)]
  BY <1>1, <1>5, ConcatProperties
<1>8. Len(all) = f - j  BY <1>1, <1>2, <1>4, <1>5, <1>7 DEF Line
<1>9. \A i \in 1..Len(all) : all[i] = j + i
  <2> SUFFICES ASSUME NEW i \in 1..Len(all)  PROVE all[i] = j + i
    OBVIOUS
  <2>1. CASE i <= Len(g) + Len(h)
    BY <1>4, <1>5, <1>6, <1>7, <2>1, SMTT(30)
  <2>2. CASE i > Len(g) + Len(h)
    <3>1. i - Len(g \o h) \in 1..Len(s) /\ all[i] = s[i - Len(g \o h)]
      BY <1>4, <1>5, <1>7, <2>2
    <3>2. s[i - Len(g \o h)] = j + Len(g \o h) + (i - Len(g \o h))
      BY <1>2, <1>5, <3>1 DEF Line
    <3> QED BY <1>1, <1>4, <1>5, <3>1, <3>2
  <2> QED BY <1>4, <2>1, <2>2
<1>10. all = [i \in 1..Len(all) |-> all[i]]  BY <1>7, LenProperties
<1> HIDE DEF all
<1>11. all = [i \in 1..(f - j) |-> j + i]  BY <1>8, <1>9, <1>10
<1> QED BY <1>11 DEF all, h, Whole, Piece

\* A client that is being served.
Served(c) == c \in reg \ (shut \cup doomed) /\ writer[c] \in {"waiting", "writing"}

Contiguous(c) == Line(got[c], busy[c], q[c], joined[c], frame)

GapInv == \A c \in Clients : Served(c) => Contiguous(c)

\* A client that is not served never is again, unless it joins.
LEMMA ServedStep ==
  ASSUME TypeInv, [RawNext]_rawVars, NEW c \in Clients, Served(c)'  PROVE Served(c) \/ Add(c)
<1>1. Flags  BY TypeParts DEF TypeInv
<1>2. CASE Broadcast \/ Cancel \/ Stop \/ UNCHANGED rawVars
  BY <1>2 DEF Broadcast, Deliver, Cancel, Stop, rawVars, Served
<1>3. ASSUME NEW d \in Clients, Own(d), d # c  PROVE Served(c)
  BY <1>1, <1>3 DEF Own, Add, Writer, Take, WriteOK, WriteFails, Drained, Deregister, Leave,
                    Drop, ReaderFails, PeerChanges, Served, Flags
<1>4. ASSUME Own(c), ~Add(c)  PROVE Served(c)
  BY <1>1, <1>4 DEF Own, Writer, Take, WriteOK, WriteFails, Drained, Deregister, Leave,
                    Drop, ReaderFails, PeerChanges, Served, Flags
<1> QED BY <1>2, <1>3, <1>4 DEF RawNext, Own

LEMMA GapStep ==
  ASSUME TypeInv, GapInv, [RawNext]_rawVars  PROVE GapInv'
<1>1. Flags /\ Channels /\ Places  BY TypeParts DEF TypeInv
<1>2. SUFFICES ASSUME NEW c \in Clients, Served(c)'  PROVE Contiguous(c)'
  BY DEF GapInv
<1>3. CASE Add(c)
  <2>1. q'[c] = << >> /\ got'[c] = << >> /\ busy'[c] = 0 /\ joined'[c] = frame /\ frame' = frame
    BY <1>1, <1>3 DEF Add, Places, Channels
  <2>2. frame \in Nat  BY <1>1 DEF Flags
  <2> QED BY <2>1, <2>2, LineStarts DEF Contiguous
<1>4. ASSUME Served(c), ~Add(c)  PROVE Contiguous(c)'
  <2>1. Contiguous(c)  BY <1>4 DEF GapInv
  <2>2. CASE UNCHANGED <<got[c], busy[c], q[c], joined[c], frame>>
    BY <2>1, <2>2 DEF Contiguous
  <2>3. CASE Broadcast
    <3>1. c \in reg /\ c \notin doomed' /\ c \notin shut  BY <1>2, <1>4 DEF Served
    <3>2. Room(c)  BY <2>3, <3>1 DEF Broadcast
    <3>3. /\ q'[c] = Append(q[c], frame + 1) /\ frame' = frame + 1
          /\ UNCHANGED <<got, busy, joined>>
      BY <2>3, <3>1, <3>2 DEF Broadcast, Deliver
    <3> QED BY <2>1, <3>3, LineGrows DEF Contiguous
  <2>4. CASE Take(c)
    <3>1. busy[c] = 0 /\ q[c] # << >>  BY <1>1, <2>4 DEF Take, Places
    <3>2. /\ busy'[c] = Head(q[c]) /\ q'[c] = Tail(q[c])
          /\ UNCHANGED <<got, joined, frame>>
      BY <1>1, <2>4 DEF Take, Channels
    <3> QED BY <2>1, <3>1, <3>2, LineTaken DEF Contiguous
  <2>5. CASE WriteOK(c)
    <3>1. busy[c] # 0  BY <1>1, <2>5 DEF WriteOK, Places
    <3>2. /\ got'[c] = Append(got[c], busy[c]) /\ busy'[c] = 0
          /\ UNCHANGED <<q, joined, frame>>
      BY <1>1, <2>5 DEF WriteOK, Channels
    <3> QED BY <2>1, <3>1, <3>2, LineWritten DEF Contiguous
  <2>6. ASSUME NEW d \in Clients, d # c, Add(d) \/ Take(d) \/ WriteOK(d)
        PROVE  UNCHANGED <<got[c], busy[c], q[c], joined[c], frame>>
    BY <1>1, <2>6 DEF Add, Take, WriteOK, Channels
  <2>7. UNCHANGED <<q, got, busy, joined, frame>>
          => UNCHANGED <<got[c], busy[c], q[c], joined[c], frame>>
    OBVIOUS
  <2> QED BY <1>4, <2>2, <2>3, <2>4, <2>5, <2>6, <2>7, ChannelSteps
<1> QED BY <1>2, <1>3, <1>4, ServedStep

\* A client that is still served has every frame since it joined, in order and
\* without a hole, for any number of clients and frames and any capacity.
THEOREM RawHasNoGap == RawSpec => []NoSilentGap
<1>1. RawInit => GapInv  BY DEF RawInit, GapInv, Served
<1>2. TypeInv /\ GapInv /\ [RawNext]_rawVars => GapInv'  BY GapStep
<1>3. TypeInv /\ GapInv => NoSilentGap
  <2> SUFFICES ASSUME TypeInv, GapInv, NEW c \in reg \ (shut \cup doomed),
                      writer[c] \in {"waiting", "writing"}
               PROVE  Whole(got[c], busy[c], q[c]) = Piece(joined[c], frame)
    BY DEF NoSilentGap, Whole, Piece
  <2>1. c \in Clients  BY TypeParts DEF TypeInv, Flags
  <2>2. Line(got[c], busy[c], q[c], joined[c], frame)
    BY <2>1 DEF GapInv, Served, Contiguous
  <2> QED BY <2>2, LineIs
<1> QED BY <1>1, <1>2, <1>3, RawTypes, PTL DEF RawSpec

-----------------------------------------------------------------------------
(***************************************************************************)
(* Admission                                                               *)
(***************************************************************************)
HIDE RawAssumption DEF RawAssumption
USE AdmissionAssumption DEF AdmissionAssumption


(***************************************************************************)
(* Types                                                                   *)
(***************************************************************************)
\* Raise keeps both limit columns in their range, and every account's positive.
LEMMA RaiseType ==
  ASSUME TypeOK, NEW i \in Ids, NEW l \in Limits, Raise(i, l)
  PROVE  /\ limit' \in [Ids -> 0..MaxLimit] /\ hi' \in [Ids -> 0..MaxLimit]
         /\ limit'[i] > 0 /\ \A j \in Ids \ {i} : limit'[j] = limit[j]
  BY DEF TypeOK, Raise, Limits

\* A request's own steps keep the types.
LEMMA RequestType ==
  ASSUME TypeOK, NEW c \in Conns, Request(c)  PROVE TypeOK'
<1>1. CASE Authenticate(c)
  <2>1. CASE Go(c, "over") /\ UNCHANGED snap
    BY <1>1, <2>1 DEF Authenticate, Go, TypeOK, Taken, users, rows
  <2>2. ASSUME NEW i \in Taken, Go(c, "authed"),
               snap' = [snap EXCEPT ![c] = [id |-> i, acct |-> acct[i], limit |-> limit[i]]]
        PROVE  TypeOK'
    <3>1. [id |-> i, acct |-> acct[i], limit |-> limit[i]]
            \in [id : 0..MaxId, acct : 0..MaxAccounts, limit : 0..MaxLimit]
      BY DEF TypeOK, Taken, Ids
    <3> QED BY <1>1, <2>2, <3>1 DEF Authenticate, Go, TypeOK, Taken, users, rows
  <2> QED BY <1>1, <2>1, <2>2 DEF Authenticate
<1>2. CASE CheckAccess(c)
  BY <1>2 DEF CheckAccess, Go, TypeOK, Taken, users, rows
<1>3. CASE Lock(c)
  BY <1>3 DEF Lock, Go, TypeOK, Taken, users, rows
<1>4. CASE Count(c)
  BY <1>4 DEF Count, Go, TypeOK, Taken, users, rows
<1>5. CASE Start(c)
  BY <1>5 DEF Start, Go, TypeOK, Taken, users, Ids
<1>6. CASE End(c)
  BY <1>6 DEF End, Go, TypeOK, Taken, users
<1> QED BY <1>1, <1>2, <1>3, <1>4, <1>5, <1>6 DEF Request

\* So do the administrator's and the daemon's.
LEMMA AdminType ==
  ASSUME TypeOK,
         \/ \E l \in Limits : CreateUser(l)
         \/ \E i \in Ids : DeleteUser(i) \/ \E l \in Limits : UpdateUser(i, l)
         \/ Crash \/ Restart
  PROVE  TypeOK'
<1>1. ASSUME NEW l \in Limits, CreateUser(l)  PROVE TypeOK'
  <2> DEFINE n == NewId
  <2>1. n \in Ids /\ Raise(n, l)  BY <1>1 DEF CreateUser
  <2>2. created' \in 0..MaxAccounts /\ acct' = [acct EXCEPT ![n] = created']
    BY <1>1 DEF CreateUser, TypeOK
  <2>3. UNCHANGED <<up, pc, snap, mu, row, uid, faulted>>
    BY <1>1 DEF CreateUser, rows
  <2> HIDE DEF n
  <2>4. /\ limit' \in [Ids -> 0..MaxLimit] /\ hi' \in [Ids -> 0..MaxLimit]
        /\ limit'[n] > 0 /\ \A j \in Ids \ {n} : limit'[j] = limit[j]
    BY <2>1, RaiseType
  <2> QED BY <2>1, <2>2, <2>3, <2>4 DEF TypeOK, Taken
<1>2. ASSUME NEW i \in Ids, DeleteUser(i)  PROVE TypeOK'
  BY <1>2 DEF DeleteUser, TypeOK, Taken
<1>3. ASSUME NEW i \in Ids, NEW l \in Limits, UpdateUser(i, l)  PROVE TypeOK'
  <2>1. /\ limit' \in [Ids -> 0..MaxLimit] /\ hi' \in [Ids -> 0..MaxLimit]
        /\ limit'[i] > 0 /\ \A j \in Ids \ {i} : limit'[j] = limit[j]
    BY <1>3, RaiseType DEF UpdateUser
  <2> QED BY <1>3, <2>1 DEF UpdateUser, TypeOK, Taken, rows
<1>4. CASE Crash
  BY <1>4 DEF Crash, TypeOK, Taken, users, rows
<1>5. CASE Restart
  BY <1>5 DEF Restart, TypeOK, Taken, users
<1> QED BY <1>1, <1>2, <1>3, <1>4, <1>5

\* Every step keeps the types.
LEMMA TypeStep == TypeOK /\ [Next]_vars => TypeOK'
<1> SUFFICES ASSUME TypeOK, [Next]_vars  PROVE TypeOK'
  OBVIOUS
<1>1. CASE Next
  BY <1>1, RequestType, AdminType DEF Next
<1>2. CASE UNCHANGED vars
  BY <1>2 DEF vars, TypeOK, Taken
<1> QED BY <1>1, <1>2

\* The database starts without accounts and without rows.
LEMMA InitTypes == Init => TypeOK
<1> SUFFICES ASSUME Init  PROVE TypeOK
  OBVIOUS
<1>1. up \in BOOLEAN /\ faulted \in BOOLEAN  BY DEF Init
<1>2. /\ acct \in [Ids -> 0..MaxAccounts]
      /\ limit \in [Ids -> 0..MaxLimit] /\ hi \in [Ids -> 0..MaxLimit] /\ Taken = {}
  BY DEF Init, Taken
<1>3. snap \in [Conns -> [id : 0..MaxId, acct : 0..MaxAccounts, limit : 0..MaxLimit]]
  BY DEF Init
<1>4. /\ created \in 0..MaxAccounts /\ mu \in Conns \cup {0}
      /\ row \in [Conns -> {"none", "open", "ended"}] /\ uid \in [Conns -> 0..MaxId]
      /\ pc \in [Conns -> {"new", "authed", "checked", "locked", "counted",
                          "streaming", "over"}]
  BY DEF Init
<1> QED BY <1>1, <1>2, <1>3, <1>4 DEF TypeOK

\* Requests, accounts, rows and the mutex hold values of their types, and every
\* account has a positive limit.
THEOREM AdmissionTypes == Spec => []TypeOK
<1> QED BY InitTypes, TypeStep, PTL DEF Spec

-----------------------------------------------------------------------------
(***************************************************************************)
(* The connection limit                                                    *)
(***************************************************************************)
\* Between the count and the insert a request holds admissionMu.
Holder == \A c \in Conns : pc[c] \in {"locked", "counted"} => mu = c

\* No limit, current or copied by a request, is above the highest of its id.
Copies ==
  /\ \A i \in Ids : limit[i] <= hi[i]
  /\ \A c \in Conns : pc[c] \notin {"new", "over"} =>
       snap[c].id \in Ids /\ snap[c].limit <= hi[snap[c].id]

\* The place a request has counted is still free when it inserts its row.
Place == \A c \in Conns : pc[c] = "counted" =>
           Cardinality(Open(snap[c].id)) < snap[c].limit

LimitInv == TypeOK /\ Holder /\ Copies /\ Place /\ LimitHolds

\* Counting open rows gives a number; fewer rows give no larger one.
LEMMA OpenCount ==
  ASSUME NEW i
  PROVE  /\ IsFiniteSet(Open(i)) /\ Cardinality(Open(i)) \in Nat
         /\ IsFiniteSet(Open(i)') /\ Cardinality(Open(i)') \in Nat
         /\ Open(i)' \subseteq Open(i) => Cardinality(Open(i)') <= Cardinality(Open(i))
<1>1. Open(i) \subseteq Conns /\ Open(i)' \subseteq Conns  BY DEF Open
<1>2. IsFiniteSet(Open(i)) /\ IsFiniteSet(Open(i)')  BY <1>1, FS_Subset
<1> QED BY <1>2, FS_Subset, FS_CardinalityType

\* A step that opens no row and lowers no highest limit keeps LimitHolds, and a
\* place under some bound k.
LEMMA Quiet ==
  ASSUME LimitInv, TypeOK', \A i \in Ids : Open(i)' \subseteq Open(i) /\ hi[i] <= hi'[i]
  PROVE  /\ LimitHolds'
         /\ \A i \in Ids, k \in Int : Cardinality(Open(i)) < k => Cardinality(Open(i)') < k
<1>1. LimitHolds'
  <2> SUFFICES ASSUME NEW i \in Ids  PROVE Cardinality(Open(i)') <= hi'[i]
    BY DEF LimitHolds
  <2>1. Cardinality(Open(i)) <= hi[i] /\ hi[i] \in Int /\ hi'[i] \in Int
    BY DEF LimitInv, LimitHolds, TypeOK
  <2>2. Cardinality(Open(i)') <= Cardinality(Open(i))  BY OpenCount
  <2> QED BY <2>1, <2>2, OpenCount
<1>2. ASSUME NEW i \in Ids, NEW k \in Int, Cardinality(Open(i)) < k
      PROVE  Cardinality(Open(i)') < k
  <2>1. Cardinality(Open(i)') <= Cardinality(Open(i))  BY OpenCount
  <2> QED BY <1>2, <2>1, OpenCount
<1> QED BY <1>1, <1>2

\* Place, for the requests a quiet step does not move.
LEMMA QuietPlace ==
  ASSUME LimitInv, NEW c \in Conns, pc[c] = "counted", snap'[c] = snap[c],
         \A i \in Ids, k \in Int : Cardinality(Open(i)) < k => Cardinality(Open(i)') < k
  PROVE  (Cardinality(Open(snap[c].id)) < snap[c].limit)'
<1>1. PICK i \in Ids : i = snap[c].id  BY DEF LimitInv, Copies
<1>2. PICK k \in Int : k = snap[c].limit  BY DEF LimitInv, TypeOK
<1>3. Cardinality(Open(i)) < k  BY <1>1, <1>2 DEF LimitInv, Place
<1>4. Cardinality(Open(i)') < k  BY <1>3
<1>5. i = snap'[c].id /\ k = snap'[c].limit  BY <1>1, <1>2
<1> QED BY <1>4, <1>5 DEF Open

\* Raise never lowers hi, and keeps every current limit below it.
LEMMA RaiseCopies ==
  ASSUME TypeOK, Copies, NEW i \in Ids, NEW l \in Limits, Raise(i, l)
  PROVE  \A j \in Ids : hi[j] <= hi'[j] /\ limit'[j] <= hi'[j]
  BY DEF TypeOK, Copies, Raise, Limits

\* The insert is the only step that opens a row, and it has the place it counted.
LEMMA StartLimit ==
  ASSUME LimitInv, NEW c \in Conns, Start(c)  PROVE LimitInv'
<1>1. TypeOK'  BY RequestType DEF LimitInv, Request
<1>2. mu = c /\ pc[c] = "counted"  BY DEF LimitInv, Holder, Start
<1>3. \A d \in Conns : d # c => pc[d] \notin {"locked", "counted"} /\ pc'[d] = pc[d]
  BY <1>2 DEF LimitInv, Holder, Start, Go, TypeOK
<1>4. pc'[c] \in {"over", "streaming"}  BY DEF Start, Go, LimitInv, TypeOK
<1>5. Holder' /\ Place'  BY <1>3, <1>4 DEF Holder, Place
<1>6. Copies'  BY <1>2, <1>3, <1>4 DEF Copies, LimitInv, Start, users
<1>7. LimitHolds'
  <2>1. CASE row' = row /\ uid' = uid
    <3>1. \A i \in Ids : Open(i)' = Open(i)  BY <2>1 DEF Open
    <3>2. hi' = hi  BY DEF Start, users
    <3> QED BY <3>1, <3>2 DEF LimitInv, LimitHolds
  <2>2. CASE /\ snap[c].id \in Taken
             /\ row' = [row EXCEPT ![c] = "open"] /\ uid' = [uid EXCEPT ![c] = snap[c].id]
    <3> SUFFICES ASSUME NEW i \in Ids  PROVE Cardinality(Open(i)') <= hi[i]
      BY DEF LimitHolds, Start, users
    <3>1. hi[i] \in Int /\ Cardinality(Open(i)) <= hi[i]
      BY DEF LimitInv, LimitHolds, TypeOK
    <3>2. CASE i # snap[c].id
      <4>1. Open(i)' \subseteq Open(i)  BY <2>2, <3>2 DEF Open, LimitInv, TypeOK
      <4> QED BY <4>1, <3>1, OpenCount
    <3>3. CASE i = snap[c].id
      <4>1. Open(i)' = Open(i) \cup {c}  BY <2>2, <3>3 DEF Open, LimitInv, TypeOK
      <4>2. Cardinality(Open(i)') <= Cardinality(Open(i)) + 1
        <5>1. IsFiniteSet(Open(i)) /\ Cardinality(Open(i)) \in Nat  BY OpenCount
        <5>2. Cardinality(Open(i) \cup {c}) = IF c \in Open(i) THEN Cardinality(Open(i))
                                              ELSE Cardinality(Open(i)) + 1
          BY <5>1, FS_AddElement
        <5> QED BY <4>1, <5>1, <5>2
      <4>3. Cardinality(Open(i)) < snap[c].limit /\ snap[c].limit <= hi[i]
        BY <1>2, <3>3 DEF LimitInv, Place, Copies
      <4>4. snap[c].limit \in Int  BY DEF LimitInv, TypeOK
      <4> QED BY <4>2, <4>3, <4>4, <3>1, OpenCount
    <3> QED BY <3>2, <3>3
  <2> QED BY <2>1, <2>2 DEF Start
<1> QED BY <1>1, <1>5, <1>6, <1>7 DEF LimitInv

\* The other steps of a request.
LEMMA RequestLimit ==
  ASSUME LimitInv, NEW c \in Conns, Request(c)  PROVE LimitInv'
<1>1. TypeOK'  BY RequestType DEF LimitInv
<1>2. CASE Authenticate(c)
  <2>1. \A i \in Ids : Open(i)' = Open(i) /\ hi'[i] = hi[i] /\ hi[i] \in Int
    BY <1>2 DEF Authenticate, Open, rows, users, LimitInv, TypeOK
  <2>2. \A d \in Conns : d # c => pc'[d] = pc[d] /\ snap'[d] = snap[d]
    BY <1>2 DEF Authenticate, Go, LimitInv, TypeOK
  <2>3. pc'[c] = "over" \/ (pc'[c] = "authed" /\ snap'[c].id \in Ids
                            /\ snap'[c].limit = limit[snap'[c].id])
    BY <1>2 DEF Authenticate, Go, LimitInv, TypeOK, Taken
  <2>4. hi' = hi /\ limit' = limit /\ mu' = mu  BY <1>2 DEF Authenticate, users
  <2>5. Holder' /\ Copies'
    BY <2>2, <2>3, <2>4 DEF LimitInv, Holder, Copies
  <2>6. LimitHolds' /\ Place'
    BY <1>1, <2>1, <2>2, <2>3, Quiet, QuietPlace DEF Place
  <2> QED BY <1>1, <2>5, <2>6 DEF LimitInv
<1>3. CASE CheckAccess(c) \/ Lock(c) \/ End(c)
  <2>1. \A i \in Ids : Open(i)' \subseteq Open(i) /\ hi'[i] = hi[i] /\ hi[i] \in Int
    BY <1>3 DEF CheckAccess, Lock, End, Open, rows, users, LimitInv, TypeOK
  <2>2. \A d \in Conns : d # c => pc'[d] = pc[d]
    BY <1>3 DEF CheckAccess, Lock, End, Go, LimitInv, TypeOK
  <2>3. pc'[c] # "counted" /\ pc[c] \notin {"new", "over"}
    BY <1>3 DEF CheckAccess, Lock, End, Go, LimitInv, TypeOK
  <2>4. snap' = snap /\ hi' = hi /\ limit' = limit
    BY <1>3 DEF CheckAccess, Lock, End, users
  <2>5. Holder'
    BY <1>3, <2>2 DEF LimitInv, Holder, CheckAccess, Lock, End, Go, TypeOK
  <2>6. Copies'  BY <2>2, <2>3, <2>4 DEF LimitInv, Copies
  <2>7. LimitHolds' /\ Place'
    BY <1>1, <2>1, <2>2, <2>3, <2>4, Quiet, QuietPlace DEF Place
  <2> QED BY <1>1, <2>5, <2>6, <2>7 DEF LimitInv
<1>4. CASE Count(c)
  <2>1. \A i \in Ids : Open(i)' = Open(i) /\ hi'[i] = hi[i] /\ hi[i] \in Int
    BY <1>4 DEF Count, Open, rows, users, LimitInv, TypeOK
  <2>2. \A d \in Conns : d # c => pc'[d] = pc[d] /\ pc[d] \notin {"locked", "counted"}
    BY <1>4 DEF Count, Go, LimitInv, Holder, TypeOK
  <2>3. snap' = snap /\ hi' = hi /\ limit' = limit
    BY <1>4 DEF Count, users
  <2>4. pc'[c] = "over" \/ (pc'[c] = "counted" /\ mu' = mu
          /\ Cardinality(Open(snap[c].id)) < snap[c].limit)
    BY <1>4 DEF Count, Go, LimitInv, TypeOK
  <2>5. pc[c] = "locked" /\ mu = c  BY <1>4 DEF Count, LimitInv, Holder
  <2>6. Holder' /\ Copies'
    BY <2>2, <2>3, <2>4, <2>5 DEF LimitInv, Holder, Copies
  <2>7. LimitHolds'  BY <1>1, <2>1, Quiet
  <2>8. Place'
    <3>1. row' = row /\ uid' = uid  BY <1>4 DEF Count, rows
    <3>2. ASSUME NEW d \in Conns, pc'[d] = "counted"
          PROVE  (Cardinality(Open(snap[d].id)) < snap[d].limit)'
      <4>1. d = c  BY <2>2, <3>2
      <4> QED BY <4>1, <2>3, <2>4, <3>1, <3>2 DEF Open
    <3> QED BY <3>2 DEF Place
  <2> QED BY <1>1, <2>6, <2>7, <2>8 DEF LimitInv
<1> QED BY <1>2, <1>3, <1>4, StartLimit DEF Request

\* The administrator's and the daemon's steps.
LEMMA AdminLimit ==
  ASSUME LimitInv,
         \/ \E l \in Limits : CreateUser(l)
         \/ \E i \in Ids : DeleteUser(i) \/ \E l \in Limits : UpdateUser(i, l)
         \/ Crash \/ Restart
  PROVE  LimitInv'
<1>1. TypeOK'  BY AdminType DEF LimitInv
<1>2. CASE \/ \E l \in Limits : CreateUser(l)
           \/ \E i \in Ids : \E l \in Limits : UpdateUser(i, l)
  <2>1. PICK i \in Ids, l \in Limits : Raise(i, l) /\ UNCHANGED <<pc, snap, mu, row, uid>>
    BY <1>2 DEF CreateUser, UpdateUser, rows
  <2>2. \A j \in Ids : hi[j] <= hi'[j] /\ limit'[j] <= hi'[j]
    BY <2>1, RaiseCopies DEF LimitInv
  <2>3. \A j \in Ids : Open(j)' = Open(j)  BY <2>1 DEF Open
  <2>4. LimitHolds' /\ Place'  BY <1>1, <2>1, <2>2, <2>3, Quiet, QuietPlace DEF Place
  <2>5. Holder'  BY <2>1 DEF LimitInv, Holder
  <2>6. Copies'
    <3> SUFFICES ASSUME NEW c \in Conns, pc[c] \notin {"new", "over"}
                 PROVE  snap[c].id \in Ids /\ snap[c].limit <= hi'[snap[c].id]
      BY <2>1, <2>2 DEF Copies
    <3>1. snap[c].id \in Ids /\ snap[c].limit <= hi[snap[c].id]
      BY DEF LimitInv, Copies
    <3>2. snap[c].limit \in Int /\ hi[snap[c].id] \in Int /\ hi'[snap[c].id] \in Int
      BY <1>1, <3>1 DEF LimitInv, TypeOK
    <3> QED BY <2>2, <3>1, <3>2
  <2> QED BY <1>1, <2>4, <2>5, <2>6 DEF LimitInv
<1>3. ASSUME NEW i \in Ids, DeleteUser(i)  PROVE LimitInv'
  <2>1. UNCHANGED <<limit, hi, pc, snap, mu>>  BY <1>3 DEF DeleteUser
  <2>2. \A j \in Ids : Open(j)' \subseteq Open(j) /\ hi[j] <= hi'[j]
    BY <1>3 DEF DeleteUser, Open, Ids, LimitInv, TypeOK
  <2>3. LimitHolds' /\ Place'  BY <1>1, <2>1, <2>2, Quiet, QuietPlace DEF Place
  <2>4. Holder' /\ Copies'  BY <2>1 DEF LimitInv, Holder, Copies
  <2> QED BY <1>1, <2>3, <2>4 DEF LimitInv
<1>4. CASE Crash
  <2>1. \A c \in Conns : pc'[c] \in {"new", "over"}  BY <1>4 DEF Crash
  <2>2. UNCHANGED <<limit, hi, row, uid>>  BY <1>4 DEF Crash, users, rows
  <2>3. \A j \in Ids : Open(j)' \subseteq Open(j) /\ hi[j] <= hi'[j]
    BY <2>2 DEF Open, LimitInv, TypeOK
  <2>4. LimitHolds'  BY <1>1, <2>3, Quiet
  <2>5. Holder' /\ Copies' /\ Place'
    BY <2>1, <2>2 DEF LimitInv, Holder, Copies, Place
  <2> QED BY <1>1, <2>4, <2>5 DEF LimitInv
<1>5. CASE Restart
  <2>1. UNCHANGED <<limit, hi, pc, snap, mu, uid>>  BY <1>5 DEF Restart, users
  <2>2. \A j \in Ids : Open(j)' \subseteq Open(j) /\ hi[j] <= hi'[j]
    BY <1>5, <2>1 DEF Restart, Open, LimitInv, TypeOK
  <2>3. LimitHolds' /\ Place'  BY <1>1, <2>1, <2>2, Quiet, QuietPlace DEF Place
  <2>4. Holder' /\ Copies'  BY <2>1 DEF LimitInv, Holder, Copies
  <2> QED BY <1>1, <2>3, <2>4 DEF LimitInv
<1> QED BY <1>2, <1>3, <1>4, <1>5

\* However requests, edits, deletions, re-created accounts and restarts
\* interleave, an account id never has more open connections than the highest
\* limit it ever had (handleGet: admissionMu around the count and the insert).
THEOREM LimitHeld == Spec => []LimitHolds
<1>1. Init => LimitInv
  <2> SUFFICES ASSUME Init  PROVE LimitInv
    OBVIOUS
  <2>1. TypeOK  BY InitTypes
  <2>2. Holder /\ Copies /\ Place  BY DEF Init, Holder, Copies, Place
  <2>3. \A i \in Ids : Open(i) = {}  BY DEF Init, Open
  <2>4. LimitHolds  BY <2>3, FS_EmptySet DEF LimitHolds, Init
  <2> QED BY <2>1, <2>2, <2>4 DEF LimitInv
<1>2. LimitInv /\ [Next]_vars => LimitInv'
  <2> SUFFICES ASSUME LimitInv, [Next]_vars  PROVE LimitInv'
    OBVIOUS
  <2>1. CASE Next  BY <2>1, RequestLimit, AdminLimit DEF Next
  <2>2. CASE UNCHANGED vars
    BY <2>2 DEF vars, LimitInv, TypeOK, Taken, Holder, Copies, Place, LimitHolds, Open
  <2> QED BY <2>1, <2>2
<1>3. LimitInv => LimitHolds  BY DEF LimitInv
<1> QED BY <1>1, <1>2, <1>3, PTL DEF Spec

-----------------------------------------------------------------------------
(***************************************************************************)
(* The rows                                                                *)
(***************************************************************************)
\* While the daemon is down no request is under way.
Down == ~up => \A c \in Conns : pc[c] \in {"new", "over"}

RowsInv == TypeOK /\ Down /\ RowsAreStreams

\* Unless a write of the accounting failed, the open rows are the streams:
\* RowsAreStreams needs Down, for the restart that closes the rows.
THEOREM RowsMatch == Spec => []RowsAreStreams
<1>1. Init => RowsInv
  <2> SUFFICES ASSUME Init  PROVE RowsInv
    OBVIOUS
  <2>1. up = TRUE /\ \A c \in Conns : row[c] = "none" /\ pc[c] = "new"  BY DEF Init
  <2>2. Down /\ RowsAreStreams  BY <2>1 DEF Down, RowsAreStreams
  <2> QED BY <2>2, InitTypes DEF RowsInv
<1>2. RowsInv /\ [Next]_vars => RowsInv'
  <2> SUFFICES ASSUME RowsInv, [Next]_vars  PROVE RowsInv'
    OBVIOUS
  <2>1. TypeOK'  BY TypeStep DEF RowsInv
  <2>2. ASSUME NEW c \in Conns, Request(c)  PROVE Down' /\ RowsAreStreams'
    <3>1. up /\ up'
      BY <2>2 DEF Request, Authenticate, CheckAccess, Lock, Count, Start, End
    <3>2. CASE Authenticate(c) \/ CheckAccess(c) \/ Lock(c) \/ Count(c)
      <4>1. /\ row' = row /\ faulted' = faulted
            /\ pc[c] # "streaming" /\ pc'[c] # "streaming"
            /\ \A d \in Conns : d # c => pc'[d] = pc[d]
        BY <3>2 DEF Authenticate, CheckAccess, Lock, Count, Go, rows, RowsInv, TypeOK
      <4> QED BY <3>1, <4>1 DEF RowsInv, Down, RowsAreStreams
    <3>3. CASE Start(c)
      BY <3>1, <3>3 DEF Start, Go, RowsInv, TypeOK, Down, RowsAreStreams
    <3>4. CASE End(c)
      BY <3>1, <3>4 DEF End, Go, RowsInv, TypeOK, Down, RowsAreStreams
    <3> QED BY <2>2, <3>2, <3>3, <3>4 DEF Request
  <2>3. ASSUME \/ \E l \in Limits : CreateUser(l)
               \/ \E i \in Ids : DeleteUser(i) \/ \E l \in Limits : UpdateUser(i, l)
               \/ UNCHANGED vars
        PROVE  Down' /\ RowsAreStreams'
    <3>1. UNCHANGED <<up, pc, row, faulted>>
      BY <2>3 DEF CreateUser, DeleteUser, UpdateUser, rows, vars
    <3> QED BY <3>1 DEF RowsInv, Down, RowsAreStreams
  <2>4. CASE Crash
    <3>1. ~up' /\ \A c \in Conns : pc'[c] \in {"new", "over"}  BY <2>4 DEF Crash
    <3> QED BY <2>1, <3>1 DEF RowsInv, Down, RowsAreStreams
  <2>5. CASE Restart
    <3>1. up' /\ \A c \in Conns : pc'[c] \in {"new", "over"}
      BY <2>5 DEF Restart, RowsInv, Down
    <3>2. CASE faulted'
      BY <2>1, <3>1, <3>2 DEF RowsInv, Down, RowsAreStreams
    <3>3. CASE ~faulted'
      <4>1. \A c \in Conns : row'[c] # "open"  BY <2>5, <3>3 DEF Restart
      <4> QED BY <2>1, <3>1, <4>1 DEF RowsInv, Down, RowsAreStreams
    <3> QED BY <3>2, <3>3
  <2> QED BY <2>1, <2>2, <2>3, <2>4, <2>5 DEF Next, RowsInv
<1>3. RowsInv => RowsAreStreams  BY DEF RowsInv
<1> QED BY <1>1, <1>2, <1>3, PTL DEF Spec
=============================================================================
