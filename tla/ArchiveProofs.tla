---------------------------- MODULE ArchiveProofs ----------------------------
(***************************************************************************)
(* Proofs about Archive, for any number of periods, alternative names,     *)
(* frames, faults, crashes and files of other recorders.                   *)
(***************************************************************************)
EXTENDS Archive, SequenceTheorems, FiniteSetTheorems, WellFoundedInduction, TLAPS

USE ArchiveAssumption DEF ArchiveAssumption

-----------------------------------------------------------------------------
(***************************************************************************)
(* Names, and the smallest of a set                                        *)
(***************************************************************************)
LEMMA MinIs ==
  ASSUME NEW S, S \subseteq Nat, S # {}
  PROVE  Min(S) \in S /\ \A x \in S : Min(S) <= x
<1> DEFINE R == {ss \in Nat \X Nat : ss[1] < ss[2]}
<1>1. IsWellFoundedOn(R, Nat)  BY NatLessThanWellFounded DEF OpToRel
<1>2. PICK x \in S : \A y \in S : ~(<<y, x>> \in R)
  <2> HIDE DEF R
  <2> QED BY <1>1, WFMin
<1>3. ASSUME NEW y \in S  PROVE x <= y
  <2>1. x \in Nat /\ y \in Nat /\ <<y, x>> \in Nat \X Nat  OBVIOUS
  <2>2. ~(y < x)  BY <1>2, <2>1, Zenon
  <2> QED BY <2>1, <2>2
<1> QED BY <1>3 DEF Min

LEMMA NamesAre ==
  /\ \A p \in Periods, k \in 0..MaxAlt :
       <<p, k>> \in Names /\ <<p, k>>[1] = p /\ <<p, k>>[2] = k
  /\ \A n \in Names : n[1] \in Periods /\ n[2] \in 0..MaxAlt /\ n = <<n[1], n[2]>>
  /\ None \notin Names /\ Torn \notin Names /\ None # Torn
  /\ \A p \in Periods : p \in Nat /\ p # 0
BY DEF Names, Periods, None, Torn

LEMMA FreeNameIs ==
  ASSUME NEW p \in Periods, FreeName(p) # None
  PROVE  FreeName(p) \in Names /\ FreeName(p)[1] = p /\ FreeName(p) \notin files
<1>1. Free(p) # {} /\ Free(p) \subseteq 0..MaxAlt /\ FreeName(p) = <<p, Min(Free(p))>>
  BY DEF FreeName, Free
<1>2. Min(Free(p)) \in Free(p)  BY <1>1, MinIs
<1> QED BY <1>1, <1>2, NamesAre DEF Free

-----------------------------------------------------------------------------
(***************************************************************************)
(* Where the goroutine is                                                  *)
(***************************************************************************)
Places == {"down", "open", "opened", "idle", "topup", "save", "saved", "close",
           "finish", "clear", "remove", "sweep", "copy"}
Jobs   == {"boot", "next", "tick", "rotate", "stop", "sweep"}

ControlType ==
  /\ now \in Periods /\ want \in Periods /\ pc \in Places /\ job \in Jobs
  /\ cur \in 0..MaxPeriod /\ file \in 0..MaxPeriod /\ hand \in 0..MaxFrame
  /\ dest \in Names \cup {None} /\ target \in Names \cup {None}
  /\ spooled \subseteq Periods /\ todo \subseteq Periods

BufferType ==
  /\ arrived \in 0..MaxFrame /\ lost \in 0..MaxFrame
  /\ q \in Seq(Frames) /\ Len(q) <= Queue /\ buf \in Seq(Frames)
  /\ spool \in [Periods -> Seq(Frames)]

NetType ==
  /\ side \in [Periods -> Names \cup {None, Torn}]
  /\ files \subseteq Names /\ share \in [Names -> Seq(0..MaxFrame)]
  /\ up \in BOOLEAN /\ foreign \subseteq Names /\ late \in 0..MaxLate
  /\ contested \subseteq Names /\ cuts \in [Periods -> Nat]
  /\ faults \in 0..MaxFaults /\ crashes \in 0..MaxCrashes

LEMMA TypeParts == TypeOK <=> ControlType /\ BufferType /\ NetType
  BY DEF TypeOK, ControlType, BufferType, NetType, Places, Jobs

Removing == {"finish", "clear", "remove"}

\* The period being recorded is the newest one opened, and what is being
\* removed from the spool, or is still to be looked at, is older.
PlaceInv ==
  /\ want <= now
  /\ \A p \in spooled : p <= want
  /\ cur # 0 => cur \in spooled
  /\ pc \in {"down", "open"} => cur = 0
  /\ pc \in {"opened", "idle", "topup", "save", "saved", "close", "sweep", "copy"} => cur # 0
  /\ pc \in {"open", "opened"} => job \in {"boot", "next"}
  /\ pc \in {"sweep", "copy"} => job = "sweep"
  /\ pc \in Removing => job \in {"rotate", "sweep"} /\ (job = "rotate" <=> cur = 0)
  /\ pc = "topup" => job \in {"rotate", "tick", "stop"} /\ dest # None
  /\ pc = "close" => job \in {"rotate", "stop"}
  /\ pc \in {"save", "saved"} =>
       job \in {"boot", "next", "rotate", "tick", "stop"} /\ dest # None
  /\ cur # 0 => IF job = "rotate" THEN cur < want ELSE cur = want
  /\ pc \in Removing \cup {"copy"} => file \in spooled /\ file < want /\ file \notin todo
  /\ todo \subseteq spooled \ {cur}
  /\ pc \notin Removing \cup {"sweep", "copy"} \/ job = "rotate" => todo = {}
  /\ pc = "idle" => job # "rotate"
  /\ (job = "rotate" /\ pc # "down") \/ (job = "next" /\ pc \in {"open", "save", "saved", "opened"})
       => hand # 0

\* The world's steps, and those that only talk to the share.
LEMMA ControlSteps ==
  ASSUME [Next]_vars
  PROVE  \/ UNCHANGED <<now, pc, job, cur, dest, want, file, target, todo, spooled, hand>>
         \/ Midnight \/ Start \/ Stop \/ Crash \/ SyncTick \/ RetryTick \/ Writer
BY DEF Next, vars, Arrive, ShareChanges, Foreign, clock, open, work, disk

LEMMA PlaceStep ==
  ASSUME ControlType, PlaceInv, BufferType, [Next]_vars  PROVE PlaceInv'
<1> USE DEF PlaceInv, ControlType, Periods, Places, Jobs, Removing
<1>1. CASE UNCHANGED <<now, pc, job, cur, dest, want, file, target, todo, spooled, hand>>
  BY <1>1
<1>2. CASE Midnight  BY <1>2 DEF Midnight, open, work, disk
<1>3. CASE Start  BY <1>3 DEF Start, clock, work, disk
<1>4. CASE Stop \/ SyncTick  BY <1>4 DEF Stop, SyncTick, Sync, clock, work
<1>5. CASE Crash  BY <1>5 DEF Crash, Gone, disk
<1>6. CASE RetryTick  BY <1>6 DEF RetryTick, clock, open, disk
<1>7. CASE OpenAlone  BY <1>7 DEF OpenAlone, OpenFile, clock, work
<1>8. CASE OpenResume
  <2>1. dest' # None  BY <1>8, NamesAre DEF OpenResume
  <2> QED BY <1>8, <2>1 DEF OpenResume, OpenFile, clock, work
<1>9. CASE OpenFresh  BY <1>9 DEF OpenFresh, OpenFile, clock, work
<1>10. CASE Opened  BY <1>10 DEF Opened, clock, disk
<1>11. CASE Write  BY <1>11 DEF Write, work
<1>12. CASE Rotate
  <2>1. Head(q) \in Frames  BY <1>12 DEF Rotate, BufferType
  <2>2. hand' # 0  BY <1>12, <2>1 DEF Rotate, Frames
  <2> QED BY <1>12, <2>2 DEF Rotate, Sync, work
<1>13. CASE SyncOK \/ SyncFails  BY <1>13 DEF SyncOK, SyncFails, clock, open, work, disk
<1>14. CASE Save  BY <1>14 DEF Save, clock, open, work
<1>15. CASE Saved  BY <1>15 DEF Saved, clock, open, work
<1>16. CASE CloseToStop  BY <1>16 DEF CloseToStop, Gone, disk
<1>17. CASE CloseFile  BY <1>17 DEF CloseFile, clock, disk
<1>18. CASE FinishOK  BY <1>18 DEF FinishOK, clock, open, work, disk
<1>19. CASE FinishFails  BY <1>19 DEF FinishFails, Return, clock, open, work, disk
<1>20. CASE ClearState  BY <1>20 DEF ClearState, clock, open, work
<1>21. CASE RemoveSpool  BY <1>21 DEF RemoveSpool, Return, clock, open, work
<1>22. CASE SweepDone  BY <1>22 DEF SweepDone, clock, open, work, disk
<1>23. CASE SweepFile
  <2>1. todo \subseteq Nat /\ todo # {}  BY <1>23 DEF SweepFile
  <2>2. Min(todo) \in todo  BY <2>1, MinIs
  <2>3. PICK p \in todo : p = Min(todo)  BY <2>2
  <2>4. /\ pc = "sweep" /\ todo' = todo \ {p} /\ file' = p /\ pc' \in {"sweep", "finish", "copy"}
        /\ UNCHANGED <<now, job, cur, dest, want, spooled, hand>>
    BY <1>23, <2>3 DEF SweepFile, clock, open
  <2>5. p \in spooled /\ p # cur /\ p < want  BY <2>4
  <2> QED BY <2>4, <2>5
<1>24. CASE CopyFile  BY <1>24 DEF CopyFile, Land, Moved, Return, clock, open, work, disk
<1> QED BY <1>1, <1>2, <1>3, <1>4, <1>5, <1>6, <1>7, <1>8, <1>9, <1>10, <1>11, <1>12, <1>13,
           <1>14, <1>15, <1>16, <1>17, <1>18, <1>19, <1>20, <1>21, <1>22, <1>23, <1>24,
           ControlSteps DEF Writer

-----------------------------------------------------------------------------
(***************************************************************************)
(* Types                                                                   *)
(***************************************************************************)
\* What is appended to the spool file of the period being recorded.
Wrote == \E s \in Seq(Frames) : cur # 0 /\ spool' = [spool EXCEPT ![cur] = @ \o s]

LEMMA HeadIs ==
  ASSUME BufferType, q # << >>
  PROVE  /\ Head(q) \in Frames /\ Tail(q) \in Seq(Frames) /\ Len(Tail(q)) <= Queue
         /\ Append(buf, Head(q)) \in Seq(Frames)
<1>1. q \in Seq(Frames) /\ buf \in Seq(Frames) /\ Len(q) <= Queue  BY DEF BufferType
<1>2. Head(q) \in Frames /\ Tail(q) \in Seq(Frames) /\ Len(Tail(q)) = Len(q) - 1
      /\ Len(q) \in Nat
  BY <1>1, HeadTailProperties, LenProperties
<1>3. Len(Tail(q)) <= Queue
  <2> DEFINE g == Len(q)
             h == Len(Tail(q))
  <2>1. g \in Nat /\ h = g - 1 /\ g <= Queue  BY <1>1, <1>2
  <2> HIDE DEF g, h
  <2>2. h <= Queue  BY <2>1
  <2> QED BY <2>2 DEF h
<1> QED BY <1>1, <1>2, <1>3, AppendProperties

LEMMA SyncWrote ==
  ASSUME BufferType, NEW why, Sync(why), cur # 0  PROVE Wrote /\ buf' = << >>
  BY DEF BufferType, Sync, Wrote

\* Only Write and a flush of the buffer change what the spool holds.
LEMMA SpoolSteps ==
  ASSUME ControlType, PlaceInv, BufferType, [Next]_vars
  PROVE  \/ UNCHANGED spool
         \/ Wrote /\ (Write \/ Rotate \/ Stop \/ SyncTick)
<1>1. CASE Write
  <2>1. Append(buf, Head(q)) \in Seq(Frames)  BY <1>1, HeadIs DEF Write
  <2> QED BY <1>1, <2>1 DEF Write, Wrote, PlaceInv
<1>2. CASE Rotate \/ Stop \/ SyncTick
  <2>1. cur # 0 /\ \E why : Sync(why)  BY <1>2 DEF Rotate, Stop, SyncTick, PlaceInv
  <2> QED BY <1>2, <2>1, SyncWrote
<1> QED BY <1>1, <1>2 DEF Next, vars, Writer, Arrive, Midnight, ShareChanges, Foreign, Start, Crash,
      OpenAlone, OpenResume, OpenFresh, OpenFile, Opened, SyncOK, SyncFails, Save, Saved,
      CloseToStop, CloseFile, FinishOK, FinishFails, ClearState, RemoveSpool, SweepDone,
      SweepFile, CopyFile, RetryTick, disk

LEMMA SpoolType ==
  ASSUME ControlType, PlaceInv, BufferType, [Next]_vars
  PROVE  spool' \in [Periods -> Seq(Frames)]
<1>1. spool \in [Periods -> Seq(Frames)]  BY DEF BufferType
<1>2. ASSUME NEW s \in Seq(Frames), cur # 0, spool' = [spool EXCEPT ![cur] = @ \o s]
      PROVE  spool' \in [Periods -> Seq(Frames)]
  <2>1. cur \in Periods  BY <1>2 DEF ControlType, Periods
  <2>2. spool[cur] \o s \in Seq(Frames)  BY <1>1, <1>2, <2>1, ConcatProperties
  <2> QED BY <1>1, <1>2, <2>2
<1> QED BY <1>1, <1>2, SpoolSteps DEF Wrote

\* A frame is dropped when it arrives.
LostInv == lost <= arrived

LEMMA BufferStep ==
  ASSUME ControlType, PlaceInv, BufferType, LostInv, [Next]_vars
  PROVE  BufferType' /\ LostInv'
<1> USE DEF LostInv
<1>1. spool' \in [Periods -> Seq(Frames)]  BY SpoolType
<1>2. << >> \in Seq(Frames) /\ Len(<< >>) <= Queue  BY EmptySeq
<1>3. CASE UNCHANGED <<arrived, q, lost, buf>>  BY <1>1, <1>3 DEF BufferType
<1>4. CASE Arrive
  <2>1. arrived' \in Frames /\ arrived' \in 0..MaxFrame
    BY <1>4 DEF Arrive, BufferType, Frames
  <2>2. lost' \in 0..MaxFrame /\ lost' <= arrived'  BY <1>4 DEF Arrive, BufferType
  <2>3. q' \in Seq(Frames) /\ Len(q') <= Queue
    <3>1. CASE Len(q) < Queue /\ q' = Append(q, arrived')
      <4> DEFINE g == Len(q)
                 h == Len(q')
      <4>1. q' \in Seq(Frames) /\ h = g + 1 /\ g \in Nat /\ g < Queue
        BY <2>1, <3>1, AppendProperties, LenProperties DEF BufferType
      <4> HIDE DEF g, h
      <4>2. h <= Queue  BY <4>1
      <4> QED BY <4>1, <4>2 DEF h
    <3>2. CASE q' = q  BY <3>2 DEF BufferType
    <3> QED BY <1>4, <3>1, <3>2 DEF Arrive
  <2> QED BY <1>1, <1>4, <2>1, <2>2, <2>3 DEF Arrive, BufferType, open
<1>5. CASE Write \/ Rotate
  <2>1. buf' \in Seq(Frames) /\ q' \in Seq(Frames) /\ Len(q') <= Queue
    BY <1>2, <1>5, HeadIs DEF Write, Rotate, Sync
  <2> QED BY <1>1, <1>5, <2>1 DEF Write, Rotate, BufferType
<1>6. CASE Stop \/ SyncTick \/ OpenAlone \/ OpenResume \/ OpenFresh
  BY <1>1, <1>2, <1>6 DEF Stop, SyncTick, Sync, OpenAlone, OpenResume, OpenFresh, OpenFile, clock,
     BufferType
<1>7. CASE Crash \/ CloseToStop
  BY <1>1, <1>2, <1>7 DEF Crash, CloseToStop, Gone, BufferType
<1>8. CASE Opened
  <2>1. hand # 0 => <<hand>> \in Seq(Frames)
    <3>1. hand # 0 => hand \in Frames  BY DEF ControlType, Frames
    <3> QED BY <3>1
  <2>2. buf' = buf \/ (hand # 0 /\ buf' = <<hand>>)
    BY <1>8 DEF Opened, PlaceInv
  <2> QED BY <1>1, <1>8, <2>1, <2>2 DEF Opened, BufferType, clock
<1> QED BY <1>3, <1>4, <1>5, <1>6, <1>7, <1>8 DEF Next, vars, Writer, Midnight, ShareChanges, Foreign,
      Start, SyncOK, SyncFails, Save, Saved, CloseFile, FinishOK, FinishFails, ClearState,
      RemoveSpool, SweepDone, SweepFile, CopyFile, RetryTick, clock, open

-----------------------------------------------------------------------------
(***************************************************************************)
(* The share                                                               *)
(***************************************************************************)
\* The share's file of that name goes on, along the spool file, to length k.
Extends(p, n, k) ==
  /\ k \in Nat /\ Len(Have(n)) <= k /\ k <= Len(spool[p])
  /\ share' = [share EXCEPT ![n] = Copied(p, n, k)]
  /\ files' \in {files, files \cup {n}} /\ (n \notin files' => k = 0)

LEMMA HaveIs ==
  ASSUME NetType, NEW n \in Names
  PROVE  Have(n) \in Seq(0..MaxFrame) /\ Len(Have(n)) \in Nat
<1>1. Have(n) \in Seq(0..MaxFrame)  BY EmptySeq DEF Have, NetType
<1> QED BY <1>1, LenProperties

LEMMA SpoolIs ==
  ASSUME BufferType, NEW p \in Periods
  PROVE  /\ spool[p] \in Seq(Frames) /\ spool[p] \in Seq(0..MaxFrame)
         /\ Len(spool[p]) \in Nat
<1>1. spool[p] \in Seq(Frames) /\ Frames \subseteq 0..MaxFrame  BY DEF BufferType, Frames
<1>2. /\ DOMAIN spool[p] = 1..Len(spool[p]) /\ Len(spool[p]) \in Nat
      /\ \A i \in 1..Len(spool[p]) : spool[p][i] \in 0..MaxFrame
  BY <1>1, LenProperties, ElementOfSeq
<1>3. spool[p] \in [1..Len(spool[p]) -> 0..MaxFrame]  BY <1>1, <1>2, LenProperties
<1>4. spool[p] \in Seq(0..MaxFrame)  BY <1>2, <1>3
<1> QED BY <1>1, <1>2, <1>4

\* What is copied is of the right type.
LEMMA CopiedType ==
  ASSUME BufferType, NetType, NEW p \in Periods, NEW n \in Names, NEW k \in Nat,
         k <= Len(spool[p])
  PROVE  Copied(p, n, k) \in Seq(0..MaxFrame)
<1> DEFINE h == Have(n)
           t == spool[p]
           m == Len(h) + 1
<1>1. h \in Seq(0..MaxFrame) /\ Len(h) \in Nat /\ t \in Seq(0..MaxFrame) /\ Len(t) \in Nat
  BY HaveIs, SpoolIs
<1>2. k <= Len(t)  OBVIOUS
<1> HIDE DEF h, t
<1>3. SubSeq(t, m, k) \in Seq(0..MaxFrame)
  <2> DEFINE g == Len(t)
             e == Len(h)
  <2>1. g \in Nat /\ k <= g /\ e \in Nat  BY <1>1, <1>2
  <2> HIDE DEF g, e
  <2>2. CASE k >= e
    <3>1. m \in 1..(Len(t) + 1) /\ k \in (m - 1)..Len(t)  BY <2>1, <2>2 DEF g, e
    <3> QED BY <1>1, <3>1, SubSeqProperties
  <2>3. CASE k < e
    <3>1. k < m /\ m \in Int /\ k \in Int  BY <2>1, <2>3 DEF e
    <3>2. SubSeq(t, m, k) = << >>  BY <1>1, <3>1, SubSeqEmpty
    <3> QED BY <3>2, EmptySeq
  <2> QED BY <2>1, <2>2, <2>3
<1> HIDE DEF m
<1>4. h \o SubSeq(t, m, k) \in Seq(0..MaxFrame)  BY <1>1, <1>3, ConcatProperties
<1> QED BY <1>4 DEF Copied, h, t, m

LEMMA TopUpIs ==
  ASSUME BufferType, NetType, NEW p \in Periods, NEW n \in Names, TopUp(p, n)
  PROVE  Extends(p, n, Len(spool[p]))
<1> DEFINE h == Len(Have(n))
           g == Len(spool[p])
<1>1. h \in Nat /\ g \in Nat /\ h <= g  BY HaveIs, SpoolIs DEF TopUp
<1>2. /\ share' = [share EXCEPT ![n] = Copied(p, n, g)]
      /\ files' = IF h < g THEN files \cup {n} ELSE files
  BY DEF TopUp
<1>3. n \notin files => Have(n) = << >> /\ Len(<< >>) = 0  BY DEF Have
<1>4. n \notin files => h = 0  BY <1>3
<1> HIDE DEF h, g
<1>5. n \notin files' => g = 0  BY <1>1, <1>2, <1>4
<1> QED BY <1>1, <1>2, <1>5 DEF Extends, h, g

LEMMA TopUpFailsIs ==
  ASSUME BufferType, NetType, NEW p \in Periods, NEW n \in Names, TopUpFails(p, n)
  PROVE  UNCHANGED <<files, share>> \/ \E k \in Nat : Extends(p, n, k)
<1> DEFINE h == Len(Have(n))
           g == Len(spool[p])
<1>1. h \in Nat /\ g \in Nat  BY HaveIs, SpoolIs
<1>2. ASSUME NEW k \in h..g, share' = [share EXCEPT ![n] = Copied(p, n, k)],
             files' = files \cup {n}
      PROVE  Extends(p, n, k) /\ k \in Nat
  <2> HIDE DEF h, g
  <2>1. k \in Nat /\ h <= k /\ k <= g  BY <1>1
  <2> QED BY <1>2, <2>1 DEF Extends, h, g
<1> QED BY <1>2 DEF TopUpFails

\* Every step that touches the share.
LEMMA NetSteps ==
  ASSUME [Next]_vars
  PROVE  \/ UNCHANGED <<files, share, foreign, late>>
         \/ \E p \in Periods : Foreign(p)
         \/ UNCHANGED <<foreign, late>> /\ (SyncOK \/ SyncFails \/ FinishOK \/ FinishFails)
         \/ UNCHANGED <<foreign, late>> /\ CopyFile
BY DEF Next, vars, Writer, Arrive, Midnight, ShareChanges, Start, Stop, Crash, SyncTick, RetryTick,
       OpenAlone, OpenResume, OpenFresh, OpenFile, Opened, Write, Rotate, SyncOK, SyncFails,
       Save, Saved, CloseToStop, CloseFile, FinishOK, FinishFails, ClearState, RemoveSpool,
       SweepDone, SweepFile, CopyFile, net, world

\* Which file the goroutine appends to on the share.
NameInv ==
  /\ dest # None => dest \in Names /\ dest[1] = cur
  /\ \A p \in Periods : side[p] \in Names => side[p][1] = p
  /\ pc \in {"finish", "clear"} => target \in Names /\ side[file] = target
  /\ pc \in {"remove", "copy"} => side[file] = None
  /\ dest # None /\ pc \notin {"save", "saved"} => side[cur] = dest
  /\ pc = "save" => side[cur] = dest \/ side[cur] \notin Names
  /\ pc = "saved" => side[cur] = Torn

TypeInv == TypeOK /\ PlaceInv /\ LostInv /\ NameInv

\* What is going on when the share is written.
LEMMA SharePlaces ==
  ASSUME TypeInv
  PROVE  /\ pc = "topup" => cur \in Periods /\ dest \in Names /\ dest[1] = cur
                            /\ side[cur] = dest
         /\ pc \in Removing \cup {"copy"} => file \in Periods /\ file # cur /\ file \in spooled
         /\ pc = "finish" => target \in Names /\ target[1] = file /\ side[file] = target
<1>1. ControlType  BY TypeParts DEF TypeInv
<1> QED BY <1>1 DEF TypeInv, PlaceInv, NameInv, ControlType, Periods, Removing

LEMMA ShareSteps ==
  ASSUME TypeInv, SyncOK \/ SyncFails \/ FinishOK \/ FinishFails
  PROVE  \/ UNCHANGED <<files, share>>
         \/ pc = "topup" /\ \E k \in Nat : Extends(cur, dest, k)
         \/ pc = "finish" /\ \E k \in Nat : Extends(file, target, k)
<1>1. BufferType /\ NetType  BY TypeParts DEF TypeInv
<1>2. CASE SyncOK \/ SyncFails
  <2>1. cur \in Periods /\ dest \in Names /\ pc = "topup"
    BY <1>2, SharePlaces DEF SyncOK, SyncFails
  <2>2. Len(spool[cur]) \in Nat  BY <1>1, <2>1, SpoolIs
  <2> QED BY <1>1, <1>2, <2>1, <2>2, TopUpIs, TopUpFailsIs DEF SyncOK, SyncFails
<1>3. CASE FinishOK \/ FinishFails
  <2>1. file \in Periods /\ target \in Names /\ pc = "finish"
    BY <1>3, SharePlaces DEF FinishOK, FinishFails, Removing
  <2>2. Len(spool[file]) \in Nat  BY <1>1, <2>1, SpoolIs
  <2> QED BY <1>1, <1>3, <2>1, <2>2, TopUpIs, TopUpFailsIs DEF FinishOK, FinishFails
<1> QED BY <1>2, <1>3

LEMMA CopySteps ==
  ASSUME TypeInv, CopyFile
  PROVE  \/ UNCHANGED <<net, contested, cuts>> /\ pc' = "sweep"
         \/ \E n \in Names :
              /\ n[1] = file /\ share' = [share EXCEPT ![n] = spool[file]]
              /\ files' = files \cup {n} /\ contested' = contested \cup ({n} \cap foreign)
              /\ \/ pc' = "remove" /\ UNCHANGED cuts
                 \/ pc' = "sweep" /\ cuts' = [cuts EXCEPT ![file] = @ + 1]
<1>1. file \in Periods  BY SharePlaces DEF CopyFile
<1>2. 0 \in 0..MaxAlt  OBVIOUS
<1>3. <<file, 0>> \in Names /\ <<file, 0>>[1] = file  BY <1>1, <1>2, NamesAre
<1>4. job = "sweep"  BY DEF CopyFile, TypeInv, PlaceInv
<1> QED BY <1>1, <1>3, <1>4, FreeNameIs DEF CopyFile, Land, Moved, Return

LEMMA NetStep ==
  ASSUME TypeInv, [Next]_vars  PROVE NetType'
<1>1. ControlType /\ BufferType /\ NetType /\ PlaceInv /\ NameInv
  BY TypeParts DEF TypeInv
<1>2. side' \in [Periods -> Names \cup {None, Torn}]
  <2>1. CASE Save \/ Saved \/ ClearState
    BY <1>1, <2>1 DEF Save, Saved, ClearState, NetType, ControlType
  <2>2. CASE SweepFile
    BY <1>1, <2>2 DEF SweepFile, NetType
  <2>3. CASE UNCHANGED side
    BY <1>1, <2>3 DEF NetType
  <2> QED BY <2>1, <2>2, <2>3 DEF Next, vars, Writer, Arrive, Midnight, ShareChanges, Foreign, Start,
     Stop, Crash, SyncTick, RetryTick, OpenAlone, OpenResume, OpenFresh, OpenFile, Opened, Write,
     Rotate, SyncOK, SyncFails, CloseToStop, CloseFile, FinishOK, FinishFails,
     RemoveSpool, SweepDone, CopyFile, disk
<1>3. ASSUME NEW p \in Periods, NEW n \in Names, NEW k \in Nat, Extends(p, n, k)
      PROVE  files' \subseteq Names /\ share' \in [Names -> Seq(0..MaxFrame)]
  <2>1. Copied(p, n, k) \in Seq(0..MaxFrame)
    BY <1>1, <1>3, CopiedType DEF Extends
  <2> QED BY <1>1, <1>3, <2>1 DEF Extends, NetType
<1>4. files' \subseteq Names /\ share' \in [Names -> Seq(0..MaxFrame)] /\ foreign' \subseteq Names
      /\ late' \in 0..MaxLate
  <2>1. CASE UNCHANGED <<files, share, foreign, late>>  BY <1>1, <2>1 DEF NetType
  <2>2. ASSUME NEW p \in Periods, Foreign(p)
        PROVE  files' \subseteq Names /\ share' \in [Names -> Seq(0..MaxFrame)]
               /\ foreign' \subseteq Names /\ late' \in 0..MaxLate
    <3>1. <<p, 0>> \in Names /\ <<0>> \in Seq(0..MaxFrame)
      BY NamesAre
    <3>2. files' = files \cup {<<p, 0>>} /\ foreign' = foreign \cup {<<p, 0>>}
          /\ share' = [share EXCEPT ![<<p, 0>>] = <<0>>] /\ late < MaxLate /\ late' = late + 1
      BY <2>2 DEF Foreign
    <3>3. share' \in [Names -> Seq(0..MaxFrame)]  BY <1>1, <3>1, <3>2 DEF NetType
    <3>4. files' \subseteq Names /\ foreign' \subseteq Names  BY <1>1, <3>1, <3>2 DEF NetType
    <3> QED BY <1>1, <3>2, <3>3, <3>4 DEF NetType
  <2>3. CASE UNCHANGED <<foreign, late>> /\ (SyncOK \/ SyncFails \/ FinishOK \/ FinishFails)
    BY <1>1, <1>3, <2>3, ShareSteps, SharePlaces DEF NetType, Removing
  <2>4. CASE UNCHANGED <<foreign, late>> /\ CopyFile
    <3>1. spool[file] \in Seq(0..MaxFrame)
      BY <1>1, <2>4, SharePlaces, SpoolIs DEF CopyFile
    <3> QED BY <1>1, <2>4, <3>1, CopySteps DEF NetType, net
  <2> QED BY <2>1, <2>2, <2>3, <2>4, NetSteps
<1>5. up' \in BOOLEAN
  <2>1. up' = up \/ up' = ~up
    BY DEF Next, vars, Writer, Arrive, Midnight, ShareChanges, Foreign, Start, Stop, Crash, SyncTick,
     RetryTick, OpenAlone, OpenResume, OpenFresh, OpenFile, Opened, Write, Rotate, SyncOK, SyncFails,
     Save, Saved, CloseToStop, CloseFile, FinishOK, FinishFails, ClearState, RemoveSpool,
     SweepDone, SweepFile, CopyFile, world
  <2> QED BY <1>1, <2>1 DEF NetType
<1>6. faults' \in 0..MaxFaults
  <2>1. faults' = faults \/ Fault
    BY DEF Next, vars, Writer, Arrive, Midnight, ShareChanges, Foreign, Start, Stop, Crash, SyncTick,
     RetryTick, OpenAlone, OpenResume, OpenFresh, OpenFile, Opened, Write, Rotate, SyncOK, SyncFails,
     Save, Saved, CloseToStop, CloseFile, FinishOK, FinishFails, ClearState, RemoveSpool,
     SweepDone, SweepFile, CopyFile, TopUp, TopUpFails
  <2> QED BY <1>1, <2>1 DEF NetType, Fault
<1>7. contested' \subseteq Names /\ cuts' \in [Periods -> Nat] /\ crashes' \in 0..MaxCrashes
  <2>1. CASE Crash
    <3>1. pc = "saved" => cur \in Periods  BY <1>1 DEF PlaceInv, ControlType
    <3>2. pc = "remove" => file \in Periods  BY SharePlaces DEF Removing
    <3>3. contested' = contested /\ crashes < MaxCrashes /\ crashes' = crashes + 1  BY <2>1 DEF Crash
    <3>4. \/ cuts' = cuts
          \/ cur \in Periods /\ cuts' = [cuts EXCEPT ![cur] = @ + 1]
          \/ file \in Periods /\ cuts' = [cuts EXCEPT ![file] = @ + 1]
      BY <2>1, <3>1, <3>2 DEF Crash
    <3>5. cuts' \in [Periods -> Nat]  BY <1>1, <3>4 DEF NetType
    <3> QED BY <1>1, <3>3, <3>5, ArchiveAssumption DEF NetType
  <2>2. CASE UNCHANGED <<contested, cuts, crashes>>  BY <1>1, <2>2 DEF NetType
  <2>3. CASE CopyFile
    <3>1. file \in Periods /\ UNCHANGED crashes  BY <2>3, SharePlaces DEF CopyFile, Removing
    <3>2. contested' \subseteq Names  BY <1>1, <2>3, CopySteps DEF NetType
    <3>3. cuts' = cuts \/ cuts' = [cuts EXCEPT ![file] = @ + 1]  BY <2>3, CopySteps
    <3> QED BY <1>1, <3>1, <3>2, <3>3 DEF NetType
  <2>4. ASSUME NEW p \in Periods, Foreign(p)
        PROVE  contested' \subseteq Names /\ UNCHANGED <<cuts, crashes>>
    <3>1. <<p, 0>> \in Names  BY NamesAre
    <3> QED BY <1>1, <2>4, <3>1 DEF Foreign, NetType
  <2>5. (\E p \in Periods : Foreign(p)) => UNCHANGED <<cuts, crashes>> /\ contested' \subseteq Names
    BY <2>4
  <2> QED BY <1>1, <2>1, <2>2, <2>3, <2>5 DEF NetType, Next, vars, Writer, Arrive, Midnight,
     ShareChanges, Start, Stop,
     SyncTick, RetryTick, OpenAlone, OpenResume, OpenFresh, OpenFile, Opened, Write, Rotate, SyncOK,
     SyncFails, Save, Saved, CloseToStop, CloseFile, FinishOK, FinishFails, ClearState, RemoveSpool,
     SweepDone, SweepFile, world
<1> QED BY <1>2, <1>4, <1>5, <1>6, <1>7 DEF NetType

LEMMA ControlStep ==
  ASSUME TypeInv, [Next]_vars  PROVE ControlType'
<1>1. ControlType /\ BufferType /\ NetType /\ PlaceInv /\ NameInv
  BY TypeParts DEF TypeInv
<1>2. PlaceInv'  BY <1>1, PlaceStep
<1>3. \A p \in Periods : FreeName(p) \in Names \cup {None}  BY FreeNameIs
<1>4. \A p \in Periods : \A k \in Free(p) : <<p, k>> \in Names
  BY NamesAre DEF Free
<1>5. ControlType  BY <1>1
<1> USE DEF ControlType, Places, Jobs
<1>6. CASE UNCHANGED <<now, pc, job, cur, dest, want, file, target, todo, spooled, hand>>
  BY <1>5, <1>6
<1>7. CASE Midnight  BY <1>5, <1>7 DEF Midnight, Periods, open, work, disk
<1>8. CASE Start  BY <1>5, <1>8 DEF Start, clock, work, disk
<1>9. CASE Stop \/ SyncTick  BY <1>5, <1>9 DEF Stop, SyncTick, Sync, clock, work
<1>10. CASE Crash \/ CloseToStop
  BY <1>5, <1>10 DEF Crash, CloseToStop, Gone, disk
<1>11. CASE RetryTick  BY <1>5, <1>11 DEF RetryTick, clock, open, disk
<1>12. ASSUME OpenFile, dest' \in Names \cup {None}, pc' \in Places, UNCHANGED <<hand>>
       PROVE  ControlType'
  BY <1>5, <1>12 DEF OpenFile, clock, work, Periods
<1>13. CASE OpenAlone \/ OpenResume
  BY <1>5, <1>12, <1>13 DEF OpenAlone, OpenResume, OpenFile
<1>14. CASE OpenFresh
  <2>1. dest' \in Names \cup {None}  BY <1>3, <1>4, <1>5, <1>14 DEF OpenFresh
  <2> QED BY <1>5, <1>12, <1>14, <2>1 DEF OpenFresh, OpenFile
<1>15. CASE Opened  BY <1>5, <1>15 DEF Opened, clock, disk
<1>16. CASE Write  BY <1>5, <1>16 DEF Write, work
<1>17. CASE Rotate
  <2>1. Head(q) \in 0..MaxFrame  BY <1>1, <1>17, HeadIs DEF Rotate, Frames
  <2> QED BY <1>5, <1>17, <2>1 DEF Rotate, Sync, work
<1>18. CASE SyncOK \/ SyncFails
  BY <1>5, <1>18 DEF SyncOK, SyncFails, clock, open, work, disk
<1>19. CASE Save \/ Saved  BY <1>5, <1>19 DEF Save, Saved, clock, open, work
<1>20. CASE CloseFile  BY <1>5, <1>20 DEF CloseFile, clock, disk
<1>21. CASE FinishOK \/ FinishFails
  BY <1>5, <1>21 DEF FinishOK, FinishFails, Return, clock, open, work, disk
<1>22. CASE ClearState \/ RemoveSpool
  BY <1>5, <1>22 DEF ClearState, RemoveSpool, Return, clock, open, work
<1>23. CASE SweepDone  BY <1>5, <1>23 DEF SweepDone, clock, open, work, disk
<1>24. CASE SweepFile
  <2>1. todo \subseteq Nat /\ todo # {}  BY <1>5, <1>24 DEF SweepFile, Periods
  <2>2. PICK p \in todo : p = Min(todo)  BY <2>1, MinIs
  <2>3. /\ todo' = todo \ {p} /\ file' = p /\ pc' \in {"sweep", "finish", "copy"}
        /\ target' \in {target, side[p]} /\ (target' = target \/ side[p] \in Names)
        /\ UNCHANGED <<now, job, cur, dest, want, spooled, hand>>
    BY <1>5, <1>24, <2>2 DEF SweepFile, clock, open
  <2>4. p \in Periods  BY <1>5, <2>2
  <2> QED BY <1>5, <2>3, <2>4 DEF Periods
<1>25. CASE CopyFile
  BY <1>5, <1>25 DEF CopyFile, Land, Moved, Return, clock, open, work, disk
<1> QED BY <1>6, <1>7, <1>8, <1>9, <1>10, <1>11, <1>13, <1>14, <1>15, <1>16, <1>17, <1>18, <1>19,
           <1>20, <1>21, <1>22, <1>23, <1>24, <1>25, ControlSteps DEF Writer

LEMMA NameStep ==
  ASSUME TypeInv, [Next]_vars  PROVE NameInv'
<1>1. ControlType /\ NetType /\ PlaceInv /\ NameInv  BY TypeParts DEF TypeInv
<1>2. \A p \in Periods : FreeName(p) # None => FreeName(p) \in Names /\ FreeName(p)[1] = p
  BY FreeNameIs
<1>3. \A p \in Periods : \A k \in Free(p) : <<p, k>> \in Names /\ <<p, k>>[1] = p
  BY NamesAre DEF Free
<1>4. None \notin Names /\ Torn \notin Names /\ None # Torn  BY NamesAre
<1>5. side \in [Periods -> Names \cup {None, Torn}]  BY <1>1 DEF NetType
<1> USE DEF NameInv
<1>6. CASE UNCHANGED <<dest, side, pc, target, file, cur>>
  BY <1>1, <1>6
<1>7. CASE Start \/ Opened \/ Stop \/ SyncTick \/ RetryTick \/ Rotate
  BY <1>1, <1>7 DEF Start, Opened, Stop, SyncTick, RetryTick, Rotate, Sync, clock, open, work, disk,
                    world, PlaceInv
<1>8. CASE Crash \/ CloseToStop
  BY <1>1, <1>4, <1>8 DEF Crash, CloseToStop, Gone, disk, world, PlaceInv
<1>9. CASE OpenAlone \/ OpenResume
  <2>1. cur' = want /\ want \in Periods /\ UNCHANGED side /\ pc' = "opened"
    BY <1>1, <1>9 DEF OpenAlone, OpenResume, OpenFile, world, ControlType
  <2>2. dest' = None \/ (dest' = side[want] /\ side[want] \in Names)
    BY <1>9 DEF OpenAlone, OpenResume
  <2>3. pc = "open"  BY <1>9 DEF OpenAlone, OpenResume
  <2> QED BY <1>1, <2>1, <2>2, <2>3
<1>10. CASE OpenFresh
  <2>1. /\ cur' = want /\ want \in Periods /\ UNCHANGED side /\ pc = "open"
        /\ side[want] \notin Names
        /\ pc' = IF dest' = None THEN "opened" ELSE "save"
    BY <1>1, <1>10 DEF OpenFresh, OpenFile, world, ControlType
  <2>2. dest' # None => dest' \in Names /\ dest'[1] = want
    BY <1>2, <1>3, <1>10, <2>1 DEF OpenFresh
  <2> QED BY <1>1, <2>1, <2>2
<1>11. CASE SyncOK \/ SyncFails
  BY <1>1, <1>11 DEF SyncOK, SyncFails, open, work, disk, world, PlaceInv
<1>12. CASE Save
  BY <1>1, <1>4, <1>5, <1>12 DEF Save, open, work, world, PlaceInv, ControlType, Periods
<1>13. CASE Saved
  BY <1>1, <1>4, <1>5, <1>13 DEF Saved, open, work, world, PlaceInv, ControlType, Periods
<1>14. CASE CloseFile
  BY <1>1, <1>14 DEF CloseFile, disk, world, PlaceInv
<1>15. CASE FinishOK \/ FinishFails
  BY <1>1, <1>15 DEF FinishOK, FinishFails, Return, open, work, disk, world, PlaceInv, Removing
<1>16. CASE ClearState
  <2>1. /\ pc = "clear" /\ pc' = "remove" /\ side' = [side EXCEPT ![file] = None]
        /\ UNCHANGED <<dest, cur, file, target>>
    BY <1>16 DEF ClearState, open, work, world
  <2>2. file \in Periods /\ file # cur  BY <2>1, SharePlaces DEF Removing
  <2> QED BY <1>1, <1>4, <1>5, <2>1, <2>2
<1>17. CASE RemoveSpool
  BY <1>1, <1>17 DEF RemoveSpool, Return, open, work, world, PlaceInv, Removing
<1>18. CASE SweepDone \/ CopyFile
  BY <1>1, <1>18 DEF SweepDone, CopyFile, Land, Moved, Return, open, work, disk, world, PlaceInv
<1>19. CASE SweepFile
  <2>1. todo \subseteq Nat /\ todo # {}  BY <1>1, <1>19 DEF SweepFile, ControlType, Periods
  <2>2. PICK p \in todo : p = Min(todo)  BY <2>1, MinIs
  <2>3. /\ pc = "sweep" /\ file' = p /\ UNCHANGED <<dest, cur>>
        /\ IF side[p] \in Names
             THEN pc' = "finish" /\ target' = side[p] /\ UNCHANGED side
             ELSE pc' = "copy" /\ side' = [side EXCEPT ![p] = None] /\ UNCHANGED target
    BY <1>19, <2>2 DEF SweepFile, open, world
  <2>4. p \in Periods /\ p # cur  BY <1>1, <2>2 DEF ControlType, PlaceInv
  <2>5. CASE side[p] \in Names  BY <1>1, <2>3, <2>4, <2>5
  <2>6. CASE side[p] \notin Names
    <3>1. side'[p] = None /\ \A r \in Periods \ {p} : side'[r] = side[r]
      BY <1>5, <2>3, <2>4, <2>6
    <3>2. dest # None => cur \in Periods  BY <1>1, <2>3 DEF ControlType, Periods, PlaceInv
    <3> QED BY <1>1, <1>4, <2>3, <2>4, <2>6, <3>1, <3>2
  <2> QED BY <2>5, <2>6
<1> QED BY <1>6, <1>7, <1>8, <1>9, <1>10, <1>11, <1>12, <1>13, <1>14, <1>15, <1>16, <1>17, <1>18,
           <1>19 DEF Next, vars, Writer, Arrive, Midnight, ShareChanges, Foreign, Write, open, work,
           disk, world

LEMMA InitTypes == ASSUME Init  PROVE TypeInv
<1>1. 1 \in Periods /\ None \notin Names /\ Torn \notin Names  BY NamesAre DEF Periods
<1>2. << >> \in Seq(Frames) /\ << >> \in Seq(0..MaxFrame) /\ Len(<< >>) = 0  BY EmptySeq
<1>3. ControlType  BY <1>1 DEF Init, ControlType, Places, Jobs
<1>4. BufferType /\ LostInv  BY <1>2 DEF Init, BufferType, LostInv
<1>5. NetType
  <2>1. \A p \in Periods : <<p, 0>> \in Names  BY NamesAre
  <2>2. {<<p, 0>> : p \in Periods} \subseteq Names  BY <2>1
  <2>3. <<0>> \in Seq(0..MaxFrame)  OBVIOUS
  <2>4. up \in BOOLEAN  BY DEF Init
  <2>5. share \in [Names -> Seq(0..MaxFrame)]  BY <1>2, <2>3 DEF Init
  <2>6. foreign \subseteq Names /\ files \subseteq Names  BY <2>2 DEF Init
  <2> QED BY <2>4, <2>5, <2>6 DEF Init, NetType
<1>6. PlaceInv  BY DEF Init, PlaceInv, Removing
<1>7. NameInv  BY <1>1, NamesAre DEF Init, NameInv
<1> QED BY <1>3, <1>4, <1>5, <1>6, <1>7, TypeParts DEF TypeInv

LEMMA TypeStep == ASSUME TypeInv, [Next]_vars  PROVE TypeInv'
<1>1. ControlType /\ BufferType /\ PlaceInv /\ LostInv  BY TypeParts DEF TypeInv
<1>2. /\ ControlType' /\ BufferType' /\ NetType' /\ PlaceInv' /\ LostInv' /\ NameInv'
  BY <1>1, ControlStep, BufferStep, NetStep, PlaceStep, NameStep
<1>3. TypeOK' = (ControlType' /\ BufferType' /\ NetType')
  BY TypeParts DEF TypeOK, ControlType, BufferType, NetType, Places, Jobs
<1> QED BY <1>2, <1>3 DEF TypeInv

\* Type correctness of the archive writer.
THEOREM ArchiveTypes == Spec => []TypeOK
<1>1. Init => TypeInv  BY InitTypes
<1>2. TypeInv /\ [Next]_vars => TypeInv'  BY TypeStep
<1>3. TypeInv => TypeOK  BY DEF TypeInv
<1> QED BY <1>1, <1>2, <1>3, PTL DEF Spec

-----------------------------------------------------------------------------
(***************************************************************************)
(* What is on the share is the beginning of what was recorded              *)
(***************************************************************************)
\* what a file on the share may hold: frames, and 0 for the data of others
Data == 0..MaxFrame

LEMMA PrefixIs ==
  ASSUME NEW s \in Seq(Data), NEW t \in Seq(Data)
  PROVE  IsPrefix(s, t) <=> Len(s) <= Len(t) /\ \A i \in 1..Len(s) : s[i] = t[i]
<1> DEFINE n == Len(s)
           m == Len(t)
<1>1. n \in Nat /\ m \in Nat  BY LenProperties
<1>2. SubSeq(s, 1, n) = s  BY SubSeqFull
<1>3. ASSUME n <= m
      PROVE  /\ SubSeq(t, 1, n) \in Seq(Data) /\ Len(SubSeq(t, 1, n)) = n
             /\ \A i \in 1..n : SubSeq(t, 1, n)[i] = t[i]
  <2> HIDE DEF n
  <2>1. 1 \in 1..(m + 1) /\ n \in (1 - 1)..m  BY <1>1, <1>3
  <2> DEFINE u == SubSeq(t, 1, n)
  <2>2. /\ u \in Seq(Data) /\ Len(u) = IF 1 <= n THEN n - 1 + 1 ELSE 0
        /\ \A i \in 1..(n - 1 + 1) : u[i] = t[1 + i - 1]
    BY <2>1, SubSeqProperties
  <2> HIDE DEF u
  <2>3. Len(u) = n  BY <1>1, <2>2
  <2>4. \A i \in 1..n : u[i] = t[i]  BY <1>1, <2>2
  <2> QED BY <2>2, <2>3, <2>4 DEF u
<1>4. ASSUME n <= m, \A i \in 1..n : s[i] = t[i]  PROVE s = SubSeq(t, 1, n)
  <2> DEFINE u == SubSeq(t, 1, n)
  <2>1. u \in Seq(Data) /\ Len(u) = n /\ \A i \in 1..n : s[i] = u[i]  BY <1>3, <1>4
  <2>2. DOMAIN s = 1..n /\ DOMAIN u = 1..n
        /\ s = [i \in DOMAIN s |-> s[i]] /\ u = [i \in DOMAIN u |-> u[i]]
    BY <2>1, LenProperties
  <2> HIDE DEF u
  <2>3. s = u  BY <2>1, <2>2
  <2> QED BY <2>3 DEF u
<1>5. IsPrefix(s, t) <=> n <= m /\ s = SubSeq(t, 1, n)  BY <1>2 DEF IsPrefix
<1> HIDE DEF n, m
<1>6. IsPrefix(s, t) <=> n <= m /\ \A i \in 1..n : s[i] = t[i]
  BY <1>3, <1>4, <1>5
<1> QED BY <1>6 DEF n, m

LEMMA PrefixOfItself == ASSUME NEW s \in Seq(Data)  PROVE IsPrefix(s, s)
<1> DEFINE n == Len(s)
<1>1. n \in Nat  BY LenProperties
<1> HIDE DEF n
<1>2. n <= n /\ \A i \in 1..n : s[i] = s[i]  BY <1>1
<1> QED BY <1>2, PrefixIs DEF n

\* What a longer recording makes of a beginning of it.
LEMMA PrefixGrows ==
  ASSUME NEW s \in Seq(Data), NEW t \in Seq(Data), NEW u \in Seq(Data), IsPrefix(s, t)
  PROVE  IsPrefix(s, t \o u) /\ t \o u \in Seq(Data)
<1> DEFINE n == Len(s)
           m == Len(t)
           k == Len(u)
           w == t \o u
<1>1. n \in Nat /\ m \in Nat /\ k \in Nat /\ n <= m /\ \A i \in 1..n : s[i] = t[i]
  BY PrefixIs, LenProperties
<1>2. w \in Seq(Data) /\ Len(w) = m + k /\ \A i \in 1..(m + k) : w[i] = IF i <= m THEN t[i] ELSE u[i - m]
  BY ConcatProperties
<1> HIDE DEF n, m, k, w
<1>3. n <= Len(w) /\ \A i \in 1..n : s[i] = w[i]  BY <1>1, <1>2
<1>4. IsPrefix(s, w)  BY <1>2, <1>3, PrefixIs DEF n
<1> QED BY <1>2, <1>4 DEF w

LEMMA CopiedIs ==
  ASSUME TypeInv, NEW p \in Periods, NEW n \in Names, NEW k \in Nat,
         Len(Have(n)) <= k, k <= Len(spool[p])
  PROVE  /\ Copied(p, n, k) \in Seq(Data) /\ Len(Copied(p, n, k)) = k
         /\ \A i \in 1..Len(Have(n)) : Copied(p, n, k)[i] = Have(n)[i]
         /\ \A i \in (Len(Have(n)) + 1)..k : Copied(p, n, k)[i] = spool[p][i]
<1> DEFINE h == Have(n)
           t == spool[p]
           e == Len(h)
           g == Len(t)
           u == SubSeq(t, e + 1, k)
           c == h \o u
<1>1. h \in Seq(Data) /\ e \in Nat /\ t \in Seq(Data) /\ g \in Nat /\ e <= k /\ k <= g
  BY TypeParts, HaveIs, SpoolIs DEF TypeInv, Data
<1> HIDE DEF h, t
<1>2. u \in Seq(Data) /\ Len(u) = k - e /\ \A i \in 1..(k - e) : u[i] = t[e + i]
  <2> HIDE DEF e, g
  <2>1. e + 1 \in 1..(g + 1) /\ k \in (e + 1 - 1)..g  BY <1>1
  <2>2. /\ u \in Seq(Data) /\ Len(u) = IF e + 1 <= k THEN k - (e + 1) + 1 ELSE 0
        /\ \A i \in 1..(k - (e + 1) + 1) : u[i] = t[e + 1 + i - 1]
    BY <1>1, <2>1, SubSeqProperties DEF g
  <2> HIDE DEF u
  <2>3. Len(u) = k - e  BY <1>1, <2>2
  <2>4. \A i \in 1..(k - e) : u[i] = t[e + i]  BY <1>1, <2>2
  <2> QED BY <2>2, <2>3, <2>4
<1> HIDE DEF u
<1>3. /\ c \in Seq(Data) /\ Len(c) = e + Len(u)
      /\ \A i \in 1..(e + Len(u)) : c[i] = IF i <= e THEN h[i] ELSE u[i - e]
  BY <1>1, <1>2, ConcatProperties
<1> HIDE DEF e, g, c
<1>4. Len(c) = k /\ (\A i \in 1..e : c[i] = h[i])
  BY <1>1, <1>2, <1>3
<1>5. ASSUME NEW i \in (e + 1)..k  PROVE c[i] = t[i]
  <2>1. i \in Int /\ e + 1 <= i /\ i <= k  BY <1>1
  <2>2. i \in 1..(e + Len(u)) /\ ~(i <= e) /\ i - e \in 1..(k - e) /\ e + (i - e) = i
    BY <1>1, <1>2, <2>1
  <2> QED BY <1>2, <1>3, <2>2
<1> QED BY <1>3, <1>4, <1>5 DEF Copied, c, e, u, h, t

\* A file of another recorder keeps what it has; one of this writer is the
\* beginning of the recording.
ShareInv ==
  \A n \in Names :
    /\ n \notin files => share[n] = << >>
    /\ (n \in foreign /\ Mixed(n)) \/ IsPrefix(share[n], spool[n[1]])

\* What an extension makes of the file it extends.
LEMMA ExtendIs ==
  ASSUME TypeInv, ShareInv, NEW p \in Periods, NEW n \in Names, n[1] = p, NEW k \in Nat,
         Extends(p, n, k)
  PROVE  /\ \A m \in Names \ {n} : share'[m] = share[m] /\ (m \in files' <=> m \in files)
         /\ Mixed(n) => Mixed(n)'
         /\ IsPrefix(share[n], spool[p]) =>
              /\ IsPrefix(share'[n], spool[p])
              /\ k = Len(spool[p]) => share'[n] = spool[p]
         /\ n \notin files' => share'[n] = << >>
<1> DEFINE c == Copied(p, n, k)
           h == Have(n)
           t == spool[p]
           e == Len(h)
           g == Len(t)
<1>1. BufferType /\ NetType  BY TypeParts DEF TypeInv
<1>2. /\ share' = [share EXCEPT ![n] = c] /\ files' \in {files, files \cup {n}}
      /\ e <= k /\ k <= g /\ (n \notin files' => k = 0)
  BY DEF Extends
<1>3. h = share[n]
  BY DEF ShareInv, Have
<1>4. /\ c \in Seq(Data) /\ Len(c) = k
      /\ \A i \in 1..e : c[i] = h[i]
      /\ \A i \in (e + 1)..k : c[i] = t[i]
  BY <1>2, CopiedIs
<1>5. h \in Seq(Data) /\ e \in Nat /\ t \in Seq(Data) /\ g \in Nat
      /\ DOMAIN h = 1..e /\ DOMAIN c = 1..k
  BY <1>1, <1>4, HaveIs, SpoolIs, LenProperties DEF Data
<1>6. share'[n] = c  BY <1>1, <1>2 DEF NetType
<1>7. \A m \in Names \ {n} : share'[m] = share[m] /\ (m \in files' <=> m \in files)
  BY <1>1, <1>2 DEF NetType
<1> HIDE DEF c, h, t
<1>8. Mixed(n) => Mixed(n)'
  <2> HIDE DEF e, g
  <2>1. 1..e \subseteq 1..k  BY <1>2, <1>5
  <2> QED BY <1>3, <1>4, <1>5, <1>6, <2>1 DEF Mixed
<1>9. ASSUME IsPrefix(h, t)
      PROVE  IsPrefix(c, t) /\ (k = g => c = t)
  <2>1. \A i \in 1..e : h[i] = t[i]  BY <1>5, <1>9, PrefixIs
  <2>2. \A i \in 1..k : c[i] = t[i]
    <3> HIDE DEF e, g
    <3>1. \A i \in 1..k : i \in 1..e \/ i \in (e + 1)..k  BY <1>5
    <3> QED BY <1>4, <2>1, <3>1
  <2>3. IsPrefix(c, t)  BY <1>2, <1>4, <1>5, <2>2, PrefixIs
  <2>4. ASSUME k = g  PROVE c = t
    <3>1. DOMAIN t = 1..g  BY <1>5, LenProperties
    <3>2. c = [i \in DOMAIN c |-> c[i]] /\ t = [i \in DOMAIN t |-> t[i]]  BY <1>4, <1>5
    <3> HIDE DEF g
    <3> QED BY <1>5, <2>2, <2>4, <3>1, <3>2
  <2> QED BY <2>3, <2>4
<1>10. n \notin files' => c = << >>
  <2>1. k = 0 => c = << >>  BY <1>4, EmptySeq
  <2> QED BY <1>2, <2>1
<1> QED BY <1>3, <1>6, <1>7, <1>8, <1>9, <1>10 DEF t, g

LEMMA ShareStep ==
  ASSUME TypeInv, ShareInv, [Next]_vars  PROVE ShareInv'
<1>1. BufferType /\ NetType /\ ControlType /\ PlaceInv  BY TypeParts DEF TypeInv
<1>2. \A n \in Names : n[1] \in Periods  BY NamesAre
<1>3. \A n \in Names : share[n] \in Seq(Data) /\ spool[n[1]] \in Seq(Data)
  BY <1>1, <1>2, SpoolIs DEF NetType, Data
<1>4. CASE UNCHANGED <<files, share, foreign>>
  <2> SUFFICES ASSUME NEW n \in Names, IsPrefix(share[n], spool[n[1]])
               PROVE  IsPrefix(share[n], spool'[n[1]])
    BY <1>4 DEF ShareInv, Mixed
  <2>1. CASE UNCHANGED spool  BY <2>1
  <2>2. CASE Wrote
    <3>1. PICK s \in Seq(Frames) : cur # 0 /\ spool' = [spool EXCEPT ![cur] = @ \o s]
      BY <2>2 DEF Wrote
    <3>2. s \in Seq(Data)
      <4>1. /\ DOMAIN s = 1..Len(s) /\ Len(s) \in Nat
            /\ \A i \in 1..Len(s) : s[i] \in Data
        BY LenProperties, ElementOfSeq DEF Data, Frames
      <4>2. s \in [1..Len(s) -> Data]  BY <4>1, LenProperties
      <4> QED BY <4>1, <4>2
    <3>3. spool'[n[1]] = spool[n[1]] \/ spool'[n[1]] = spool[n[1]] \o s
      BY <1>1, <1>2, <3>1 DEF BufferType
    <3> QED BY <1>3, <3>2, <3>3, PrefixGrows
  <2> QED BY <1>1, <2>1, <2>2, SpoolSteps
<1>5. ASSUME NEW p \in Periods, Foreign(p)  PROVE ShareInv'
  <2>1. /\ files' = files \cup {<<p, 0>>} /\ foreign' = foreign \cup {<<p, 0>>}
        /\ share' = [share EXCEPT ![<<p, 0>>] = <<0>>] /\ spool' = spool
    BY <1>5 DEF Foreign, disk
  <2>2. <<p, 0>> \in Names  BY NamesAre
  <2>3. share'[<<p, 0>>] = <<0>>  BY <1>1, <2>1, <2>2 DEF NetType
  <2>4. \A n \in Names \ {<<p, 0>>} : share'[n] = share[n]  BY <1>1, <2>1 DEF NetType
  <2>5. Mixed(<<p, 0>>)'
    <3>1. 1 \in DOMAIN <<0>> /\ <<0>>[1] = 0  OBVIOUS
    <3> QED BY <2>3, <3>1 DEF Mixed
  <2>6. ASSUME NEW n \in Names
        PROVE  /\ n \notin files' => share'[n] = << >>
               /\ (n \in foreign' /\ Mixed(n)') \/ IsPrefix(share'[n], spool'[n[1]])
    <3>1. CASE n = <<p, 0>>  BY <2>1, <2>5, <3>1
    <3>2. CASE n # <<p, 0>>  BY <2>1, <2>4, <3>2 DEF ShareInv, Mixed
    <3> QED BY <3>1, <3>2
  <2> QED BY <2>6 DEF ShareInv
<1>6. ASSUME NEW p \in Periods, NEW n \in Names, n[1] = p, NEW k \in Nat, Extends(p, n, k),
             UNCHANGED <<foreign, spool>>
      PROVE  ShareInv'
  <2>1. ASSUME NEW m \in Names
        PROVE  /\ m \notin files' => share'[m] = << >>
               /\ (m \in foreign' /\ Mixed(m)') \/ IsPrefix(share'[m], spool'[m[1]])
    <3>1. CASE m = n
      BY <1>6, <3>1, ExtendIs DEF ShareInv
    <3>2. CASE m # n
      <4>1. share'[m] = share[m] /\ (m \in files' <=> m \in files)
        BY <1>6, <3>2, ExtendIs
      <4> QED BY <1>6, <4>1 DEF ShareInv, Mixed
    <3> QED BY <3>1, <3>2
  <2> QED BY <2>1 DEF ShareInv
<1>7. CASE UNCHANGED <<foreign, late>> /\ (SyncOK \/ SyncFails \/ FinishOK \/ FinishFails)
  <2>1. UNCHANGED spool  BY <1>7 DEF SyncOK, SyncFails, FinishOK, FinishFails, disk
  <2> QED BY <1>4, <1>6, <1>7, <2>1, ShareSteps, SharePlaces DEF Removing
<1>8. CASE UNCHANGED <<foreign, late>> /\ CopyFile
  <2>1. UNCHANGED spool /\ pc = "copy"  BY <1>8 DEF CopyFile, disk
  <2>2. CASE UNCHANGED net  BY <1>4, <1>8, <2>2 DEF net
  <2>3. ASSUME NEW n \in Names, n[1] = file, share' = [share EXCEPT ![n] = spool[file]],
               files' = files \cup {n}
        PROVE  ShareInv'
    <3>1. ASSUME NEW m \in Names
          PROVE  /\ m \notin files' => share'[m] = << >>
                 /\ (m \in foreign' /\ Mixed(m)') \/ IsPrefix(share'[m], spool'[m[1]])
      <4>1. CASE m = n
        <5>1. share'[m] = spool[m[1]]  BY <1>1, <2>3, <4>1 DEF NetType
        <5>2. spool[m[1]] \in Seq(Data)  BY <1>3
        <5>3. IsPrefix(spool[m[1]], spool[m[1]])  BY <5>2, PrefixOfItself
        <5> QED BY <2>1, <2>3, <4>1, <5>1, <5>3
      <4>2. CASE m # n
        <5>1. share'[m] = share[m] /\ (m \in files' <=> m \in files)
          BY <1>1, <2>3, <4>2 DEF NetType
        <5> QED BY <1>8, <2>1, <5>1 DEF ShareInv, Mixed
      <4> QED BY <4>1, <4>2
    <3> QED BY <3>1 DEF ShareInv
  <2> QED BY <1>8, <2>2, <2>3, CopySteps
<1> QED BY <1>4, <1>5, <1>7, <1>8, NetSteps

LEMMA InitShare == ASSUME Init  PROVE ShareInv
<1>1. \A n \in Names : n[1] \in Periods  BY NamesAre
<1>2. ASSUME NEW n \in Names
      PROVE  /\ n \notin files => share[n] = << >>
             /\ (n \in foreign /\ Mixed(n)) \/ IsPrefix(share[n], spool[n[1]])
  <2>1. CASE n \in foreign
    <3>1. share[n] = <<0>> /\ files = foreign  BY <2>1 DEF Init
    <3>2. 1 \in DOMAIN <<0>> /\ <<0>>[1] = 0  OBVIOUS
    <3> QED BY <2>1, <3>1, <3>2 DEF Mixed
  <2>2. CASE n \notin foreign
    <3>1. share[n] = << >> /\ spool[n[1]] = << >>  BY <1>1, <2>2 DEF Init
    <3>2. << >> \in Seq(Data)  BY EmptySeq
    <3> QED BY <3>1, <3>2, PrefixOfItself
  <2> QED BY <2>1, <2>2
<1> QED BY <1>2 DEF ShareInv
-----------------------------------------------------------------------------
(***************************************************************************)
(* One file of a period                                                    *)
(***************************************************************************)
LEMMA OwnSteps ==
  ASSUME TypeInv, ShareInv, [Next]_vars, NEW p \in Periods
  PROVE  \/ Own(p)' \subseteq Own(p)
         \/ /\ SyncOK \/ SyncFails
            /\ pc = "topup" /\ p = cur /\ Own(p)' \subseteq Own(p) \cup {dest}
         \/ /\ FinishOK \/ FinishFails
            /\ pc = "finish" /\ p = file /\ Own(p)' \subseteq Own(p) \cup {target}
         \/ /\ CopyFile /\ p = file
            /\ \E n \in Names : Own(p)' \subseteq Own(p) \cup {n}
            /\ \/ pc' = "remove" /\ UNCHANGED cuts
               \/ pc' = "sweep" /\ cuts' = [cuts EXCEPT ![file] = @ + 1]
<1>1. NetType /\ files \subseteq Names  BY TypeParts DEF TypeInv, NetType
<1>2. CASE UNCHANGED <<files, share, foreign>>  BY <1>2 DEF Own, Mixed
<1>3. ASSUME NEW r \in Periods, Foreign(r)  PROVE Own(p)' \subseteq Own(p)
  <2>1. /\ files' = files \cup {<<r, 0>>} /\ foreign' = foreign \cup {<<r, 0>>}
        /\ share' = [share EXCEPT ![<<r, 0>>] = <<0>>]
    BY <1>3 DEF Foreign
  <2>2. <<r, 0>> \in Names  BY NamesAre
  <2>3. share'[<<r, 0>>] = <<0>>  BY <1>1, <2>1, <2>2 DEF NetType
  <2>4. 1 \in DOMAIN <<0>> /\ <<0>>[1] = 0  OBVIOUS
  <2>5. Mixed(<<r, 0>>)'  BY <2>3, <2>4 DEF Mixed
  <2>6. \A n \in files' \ {<<r, 0>>} : share'[n] = share[n]  BY <1>1, <2>1 DEF NetType
  <2> QED BY <2>1, <2>5, <2>6 DEF Own, Mixed
<1>4. ASSUME NEW r \in Periods, NEW n \in Names, n[1] = r, NEW k \in Nat, Extends(r, n, k),
             UNCHANGED foreign
      PROVE  IF p = r THEN Own(p)' \subseteq Own(p) \cup {n} ELSE Own(p)' \subseteq Own(p)
  <2>1. \A m \in Names \ {n} : share'[m] = share[m] /\ (m \in files' <=> m \in files)
    BY <1>4, ExtendIs
  <2>2. files' \subseteq Names  BY <1>1, <1>4 DEF Extends
  <2> QED BY <1>4, <2>1, <2>2 DEF Own, Mixed
<1>5. CASE UNCHANGED <<foreign, late>> /\ (SyncOK \/ SyncFails \/ FinishOK \/ FinishFails)
  <2>1. CASE pc = "topup" /\ \E k \in Nat : Extends(cur, dest, k)
    <3>1. SyncOK \/ SyncFails  BY <1>5, <2>1 DEF FinishOK, FinishFails
    <3> QED BY <1>4, <1>5, <2>1, <3>1, SharePlaces
  <2>2. CASE pc = "finish" /\ \E k \in Nat : Extends(file, target, k)
    <3>1. FinishOK \/ FinishFails  BY <1>5, <2>2 DEF SyncOK, SyncFails
    <3> QED BY <1>4, <1>5, <2>2, <3>1, SharePlaces DEF Removing
  <2> QED BY <1>2, <1>5, <2>1, <2>2, ShareSteps
<1>6. CASE UNCHANGED <<foreign, late>> /\ CopyFile
  <2>1. CASE UNCHANGED net  BY <1>2, <1>6, <2>1 DEF net
  <2>2. ASSUME NEW n \in Names, n[1] = file, share' = [share EXCEPT ![n] = spool[file]],
               files' = files \cup {n}
        PROVE  IF p = file THEN Own(p)' \subseteq Own(p) \cup {n} ELSE Own(p)' \subseteq Own(p)
    <3>1. \A m \in Names \ {n} : share'[m] = share[m] /\ (m \in files' <=> m \in files)
      BY <1>1, <2>2 DEF NetType
    <3>2. files' \subseteq Names  BY <1>1, <2>2
    <3> QED BY <1>6, <2>2, <3>1, <3>2 DEF Own, Mixed
  <2> QED BY <1>6, <2>1, <2>2, CopySteps
<1> QED BY <1>2, <1>3, <1>5, <1>6, NetSteps

LEMMA SideSteps ==
  ASSUME TypeInv, [Next]_vars, NEW p \in Periods
  PROVE  \/ side'[p] = side[p]
         \/ (Save \/ Saved) /\ p = cur
         \/ ClearState /\ p = file
         \/ SweepFile /\ p \in spooled /\ side[p] \notin Names /\ side'[p] = None
<1>1. ControlType /\ NetType  BY TypeParts DEF TypeInv
<1>2. CASE Save \/ Saved \/ ClearState
  BY <1>1, <1>2 DEF Save, Saved, ClearState, NetType
<1>3. CASE SweepFile
  <2>1. todo \subseteq Nat /\ todo # {}  BY <1>1, <1>3 DEF SweepFile, ControlType, Periods
  <2>2. PICK r \in todo : r = Min(todo)  BY <2>1, MinIs
  <2>3. UNCHANGED side \/ (side[r] \notin Names /\ side' = [side EXCEPT ![r] = None])
    BY <1>3, <2>2 DEF SweepFile
  <2>4. r \in spooled  BY <1>1, <2>2 DEF TypeInv, PlaceInv
  <2> QED BY <1>1, <1>3, <2>3, <2>4 DEF NetType
<1>4. CASE UNCHANGED side  BY <1>4
<1> QED BY <1>2, <1>3, <1>4 DEF Next, vars, Writer, Arrive, Midnight, ShareChanges, Foreign,
     Start, Stop, Crash, SyncTick, RetryTick, OpenAlone, OpenResume, OpenFresh, OpenFile, Opened,
     Write, Rotate, SyncOK, SyncFails, CloseToStop, CloseFile, FinishOK, FinishFails,
     RemoveSpool, SweepDone, CopyFile, disk

\* The name a period has been given.
Chosen(p) ==
  IF side[p] \in Names THEN {side[p]} ELSE IF pc = "saved" /\ cur = p THEN {dest} ELSE {}

Leaving(p) == p \notin spooled \/ (pc = "remove" /\ file = p)

\* A period that is not in the spool is over, or has not begun.
BegunInv ==
  \A p \in Periods \ spooled :
    p < want \/ (spool[p] = << >> /\ side[p] = None /\ Own(p) = {})

\* The files of a period on the share beside the one it is given, and how many
\* updates that were cut account for, one more when it no longer is given any.
Extra(p) == IF Leaving(p) THEN Own(p) ELSE Own(p) \ Chosen(p)
Spare(p) == IF Leaving(p) THEN cuts[p] + 1 ELSE cuts[p]

OwnInv == \A p \in Periods : Cardinality(Extra(p)) <= Spare(p)

LEMMA NamesAreFinite == IsFiniteSet(Names)
<1>1. IsFiniteSet(Periods) /\ IsFiniteSet(0..MaxAlt)
  BY FS_Interval, ArchiveAssumption DEF Periods
<1> QED BY <1>1, FS_Product DEF Names

LEMMA OwnIsFinite ==
  ASSUME NetType, NEW p \in Periods
  PROVE  IsFiniteSet(Extra(p)) /\ Spare(p) \in Nat
<1>2. IsFiniteSet(Names)  BY NamesAreFinite
<1>3. Extra(p) \subseteq Names  BY DEF Extra, Own, NetType
<1> QED BY <1>2, <1>3, FS_Subset DEF Spare, NetType

LEMMA ExtraGrows ==
  ASSUME NEW S, NEW T, IsFiniteSet(T), NEW a \in Nat, NEW b \in Nat, Cardinality(T) <= a,
         (S \subseteq T /\ a <= b) \/ (a + 1 <= b /\ \E m : S \subseteq T \cup {m})
  PROVE  Cardinality(S) <= b
<1>1. Cardinality(T) \in Nat  BY FS_CardinalityType
<1>2. CASE S \subseteq T /\ a <= b
  <2>1. IsFiniteSet(S) /\ Cardinality(S) <= Cardinality(T)  BY <1>2, FS_Subset
  <2>2. Cardinality(S) \in Nat  BY <2>1, FS_CardinalityType
  <2> QED BY <1>1, <1>2, <2>1, <2>2
<1>3. ASSUME a + 1 <= b, NEW m, S \subseteq T \cup {m}  PROVE Cardinality(S) <= b
  <2>1. /\ IsFiniteSet(T \cup {m})
        /\ Cardinality(T \cup {m}) = Cardinality(T) \/ Cardinality(T \cup {m}) = Cardinality(T) + 1
    BY FS_AddElement
  <2>2. IsFiniteSet(S) /\ Cardinality(S) <= Cardinality(T \cup {m})  BY <1>3, <2>1, FS_Subset
  <2>3. Cardinality(S) \in Nat  BY <2>2, FS_CardinalityType
  <2> QED BY <1>1, <1>3, <2>1, <2>2, <2>3
<1> QED BY <1>2, <1>3

LEMMA WantSteps ==
  ASSUME TypeInv, [Next]_vars
  PROVE  /\ want' \in {want, now} /\ want <= want'
         /\ spooled \subseteq spooled' \/ (RemoveSpool /\ spooled' = spooled \ {file} /\ file < want)
         /\ UNCHANGED cuts \/ Crash \/ CopyFile
<1>1. want' \in {want, now} /\ (UNCHANGED cuts \/ Crash \/ CopyFile)
  BY DEF Next, vars, Writer, Arrive, Midnight, ShareChanges, Foreign, Start,
     Stop, Crash, SyncTick, RetryTick, OpenAlone, OpenResume, OpenFresh, OpenFile, Opened, Write,
     Rotate, SyncOK, SyncFails, Save, Saved, CloseToStop, CloseFile, FinishOK, FinishFails, ClearState,
     RemoveSpool, SweepDone, SweepFile, CopyFile, open, world
<1>2. spooled \subseteq spooled' \/ RemoveSpool
  BY DEF Next, vars, Writer, Arrive, Midnight, ShareChanges, Foreign, Start,
     Stop, Crash, SyncTick, RetryTick, OpenAlone, OpenResume, OpenFresh, OpenFile, Opened, Write,
     Rotate, SyncOK, SyncFails, Save, Saved, CloseToStop, CloseFile, FinishOK, FinishFails, ClearState,
     SweepDone, SweepFile, CopyFile, disk
<1>3. want <= now /\ want \in Nat /\ now \in Nat
  BY TypeParts DEF TypeInv, PlaceInv, ControlType, Periods
<1>4. RemoveSpool => spooled' = spooled \ {file} /\ file < want
  BY DEF RemoveSpool, TypeInv, PlaceInv, Removing
<1> QED BY <1>1, <1>2, <1>3, <1>4

LEMMA BegunStep ==
  ASSUME TypeInv, ShareInv, BegunInv, [Next]_vars  PROVE BegunInv'
<1> SUFFICES ASSUME NEW p \in Periods, p \notin spooled'
             PROVE  p < want' \/ (spool'[p] = << >> /\ side'[p] = None /\ Own(p)' = {})
  BY DEF BegunInv
<1>1. ControlType /\ PlaceInv /\ BufferType  BY TypeParts DEF TypeInv
<1>2. want \in Nat /\ want' \in Nat /\ want <= want' /\ p \in Nat
  BY <1>1, WantSteps DEF ControlType, Periods
<1>3. CASE p \in spooled  BY <1>2, <1>3, WantSteps
<1>4. CASE p \notin spooled
  <2>1. p # cur  BY <1>1, <1>4, NamesAre DEF PlaceInv
  <2>2. pc \in Removing \cup {"copy"} => p # file  BY <1>4, SharePlaces
  <2>3. spool'[p] = spool[p]
    <3>1. CASE Wrote
      <4>1. cur \in Periods  BY <1>1, <3>1 DEF Wrote, ControlType, Periods
      <4> QED BY <1>1, <2>1, <3>1, <4>1 DEF Wrote, BufferType
    <3> QED BY <1>1, <3>1, SpoolSteps
  <2>4. side'[p] = side[p]
    <3>1. ClearState => pc \in Removing  BY DEF ClearState, Removing
    <3> QED BY <1>4, <2>1, <2>2, <3>1, SideSteps
  <2>5. Own(p)' \subseteq Own(p)
    <3>1. CopyFile => pc = "copy"  BY DEF CopyFile
    <3> QED BY <2>1, <2>2, <3>1, OwnSteps DEF Removing
  <2> QED BY <1>2, <1>4, <2>3, <2>4, <2>5 DEF BegunInv
<1> QED BY <1>3, <1>4

LEMMA OwnStep ==
  ASSUME TypeInv, ShareInv, BegunInv, OwnInv, [Next]_vars  PROVE OwnInv'
<1> SUFFICES ASSUME NEW p \in Periods  PROVE Cardinality(Extra(p)') <= Spare(p)'
  BY DEF OwnInv
<1>1. ControlType /\ PlaceInv /\ NetType /\ NameInv /\ NetType'
  BY NetStep, TypeParts DEF TypeInv
<1>2. /\ IsFiniteSet(Extra(p)) /\ Spare(p) \in Nat /\ IsFiniteSet(Extra(p)') /\ Spare(p)' \in Nat
      /\ Cardinality(Extra(p)) <= Spare(p) /\ cuts[p] \in Nat
  <2>1. Extra(p)' \subseteq Names  BY <1>1 DEF Extra, Own, NetType
  <2>2. IsFiniteSet(Extra(p)')  BY <2>1, NamesAreFinite, FS_Subset
  <2>3. Spare(p)' \in Nat  BY <1>1 DEF Spare, NetType
  <2> QED BY <1>1, <2>2, <2>3, OwnIsFinite DEF OwnInv, NetType
<1>3. ASSUME Extra(p)' \subseteq Extra(p), Spare(p) <= Spare(p)'
      PROVE  Cardinality(Extra(p)') <= Spare(p)'
  BY <1>2, <1>3, ExtraGrows
<1>4. ASSUME NEW m, Extra(p)' \subseteq Extra(p) \cup {m}, Spare(p) + 1 <= Spare(p)'
      PROVE  Cardinality(Extra(p)') <= Spare(p)'
  BY <1>2, <1>4, ExtraGrows
<1>5. /\ None \notin Names /\ Torn \notin Names /\ p # 0
      /\ side \in [Periods -> Names \cup {None, Torn}]
  BY <1>1, NamesAre DEF NetType
<1>6. CASE SyncOK \/ SyncFails
  <2>1. /\ pc = "topup" /\ side[cur] = dest /\ dest \in Names /\ cur \in Periods /\ cur \in spooled
        /\ pc' \in {"save", "idle", "close"} /\ UNCHANGED <<side, spooled, cur, dest, file, cuts>>
    BY <1>1, <1>6, SharePlaces DEF SyncOK, SyncFails, disk, open, work, world, PlaceInv
  <2>2. Own(p)' \subseteq Own(p) \/ (p = cur /\ Own(p)' \subseteq Own(p) \cup {dest})
    BY <2>1, OwnSteps DEF FinishOK, FinishFails, CopyFile
  <2>3. Leaving(p)' = Leaving(p) /\ Chosen(p)' = Chosen(p) /\ (p = cur => Chosen(p) = {dest})
        /\ (p = cur => ~Leaving(p))
    BY <2>1 DEF Leaving, Chosen
  <2> QED BY <1>2, <1>3, <2>1, <2>2, <2>3 DEF Extra, Spare
<1>7. CASE FinishOK \/ FinishFails
  <2>1. /\ pc = "finish" /\ side[file] = target /\ target \in Names /\ file \in spooled
        /\ pc' \in {"clear", "open", "sweep"} /\ UNCHANGED <<side, spooled, cur, dest, file, cuts>>
    BY <1>7, SharePlaces DEF FinishOK, FinishFails, Return, disk, open, work, world, Removing
  <2>2. Own(p)' \subseteq Own(p) \/ (p = file /\ Own(p)' \subseteq Own(p) \cup {target})
    BY <2>1, OwnSteps DEF SyncOK, SyncFails, CopyFile
  <2>3. Leaving(p)' = Leaving(p) /\ Chosen(p)' = Chosen(p) /\ (p = file => Chosen(p) = {target})
        /\ (p = file => ~Leaving(p))
    BY <2>1 DEF Leaving, Chosen
  <2> QED BY <1>2, <1>3, <2>1, <2>2, <2>3 DEF Extra, Spare
<1>8. CASE CopyFile
  <2>1. /\ pc = "copy" /\ side[file] = None /\ file \in spooled /\ file \in Periods
        /\ UNCHANGED <<side, spooled, cur, dest, file>>
    BY <1>1, <1>8, SharePlaces DEF CopyFile, disk, open, work, NameInv, Removing
  <2>2. p = file => ~Leaving(p) /\ Chosen(p) = {} /\ Extra(p) = Own(p) /\ Spare(p) = cuts[p]
    BY <1>5, <2>1 DEF Leaving, Chosen, Extra, Spare
  <2>3. CASE p = file /\ pc' = "remove" /\ UNCHANGED cuts
             /\ \E n \in Names : Own(p)' \subseteq Own(p) \cup {n}
    <3>1. Leaving(p)' /\ Extra(p)' = Own(p)' /\ Spare(p)' = cuts[p] + 1
      BY <2>1, <2>3 DEF Leaving, Extra, Spare
    <3> QED BY <1>2, <1>4, <2>2, <2>3, <3>1
  <2>4. CASE p = file /\ pc' = "sweep" /\ cuts' = [cuts EXCEPT ![file] = @ + 1]
             /\ \E n \in Names : Own(p)' \subseteq Own(p) \cup {n}
    <3>1. ~Leaving(p)' /\ Extra(p)' \subseteq Own(p)' /\ Spare(p)' = cuts[p] + 1
      BY <1>1, <2>1, <2>4 DEF Leaving, Extra, Spare, NetType
    <3> QED BY <1>2, <1>4, <2>2, <2>4, <3>1
  <2>5. CASE Own(p)' \subseteq Own(p)
    <3>1. /\ cuts' \in {cuts, [cuts EXCEPT ![file] = @ + 1]} /\ pc' \in {"remove", "sweep"}
      BY <1>8, CopySteps
    <3>2. cuts'[p] \in Nat /\ cuts[p] <= cuts'[p]
      <4>1. CASE cuts' = cuts  BY <1>2, <4>1
      <4>2. CASE cuts' = [cuts EXCEPT ![file] = @ + 1]  BY <1>1, <1>2, <2>1, <4>2 DEF NetType
      <4> QED BY <3>1, <4>1, <4>2
    <3>3. p # file => Leaving(p)' = Leaving(p) /\ Chosen(p)' = Chosen(p)
      BY <2>1, <3>1 DEF Leaving, Chosen
    <3>4. Extra(p)' \subseteq Extra(p)
      BY <2>2, <2>5, <3>3 DEF Extra
    <3>5. Spare(p) <= Spare(p)'  BY <1>2, <2>2, <3>2, <3>3 DEF Spare
    <3> QED BY <1>3, <3>4, <3>5
  <2> QED BY <1>8, <2>1, <2>3, <2>4, <2>5, OwnSteps DEF SyncOK, SyncFails, FinishOK, FinishFails
<1>9. ASSUME Own(p)' \subseteq Own(p), UNCHANGED cuts, Leaving(p)' = Leaving(p),
             Leaving(p) \/ Chosen(p) \subseteq Chosen(p)'
      PROVE  Cardinality(Extra(p)') <= Spare(p)'
  BY <1>2, <1>3, <1>9 DEF Extra, Spare
<1>10. CASE Own(p)' \subseteq Own(p) /\ ~CopyFile
  <2>0. UNCHANGED cuts \/ Crash  BY <1>10, WantSteps
  <2>1. CASE UNCHANGED <<spooled, side, pc, file, cur, dest>>
    BY <1>9, <1>10, <2>0, <2>1 DEF Leaving, Chosen, Crash, Gone
  <2>2. CASE Start \/ Stop \/ SyncTick \/ RetryTick \/ Opened \/ Rotate \/ SweepDone
    <3>1. UNCHANGED <<spooled, side, file, cur, dest, cuts>> /\ pc \notin {"saved", "remove"}
          /\ pc' \notin {"saved", "remove"}
      BY <2>2 DEF Start, Stop, SyncTick, RetryTick, Opened, Rotate, Sync, SweepDone, disk, work, open,
                  world
    <3> QED BY <1>9, <1>10, <3>1 DEF Leaving, Chosen
  <2>3. CASE CloseFile \/ CloseToStop
    <3>1. UNCHANGED <<spooled, side, cuts>> /\ pc = "close" /\ pc' \in {"open", "finish", "down"}
      BY <2>3 DEF CloseFile, CloseToStop, Gone, disk, world
    <3> QED BY <1>9, <1>10, <3>1 DEF Leaving, Chosen
  <2>4. CASE Crash
    <3>1. UNCHANGED <<spooled, side>> /\ pc' = "down"  BY <2>4 DEF Crash, Gone, disk
    <3>2. CASE pc = "saved" /\ p = cur
      <4>1. side[p] = Torn /\ p \in spooled  BY <1>1, <1>5, <3>2 DEF NameInv, PlaceInv
      <4>2. ~Leaving(p) /\ ~Leaving(p)' /\ Chosen(p) = {dest} /\ Chosen(p)' = {}
        BY <1>5, <3>1, <3>2, <4>1 DEF Leaving, Chosen
      <4>3. Spare(p) = cuts[p] /\ Spare(p)' = cuts[p] + 1
        BY <1>1, <2>4, <3>2, <4>2 DEF Crash, Spare, NetType
      <4>4. Extra(p)' \subseteq Extra(p) \cup {dest}  BY <1>10, <4>2 DEF Extra
      <4> QED BY <1>2, <1>4, <4>3, <4>4
    <3>3. CASE pc = "remove" /\ p = file
      <4>1. Leaving(p) /\ p \in spooled /\ ~Leaving(p)'
        BY <3>1, <3>3, SharePlaces DEF Leaving, Removing
      <4>2. Spare(p) = cuts[p] + 1 /\ Spare(p)' = cuts[p] + 1
        BY <1>1, <2>4, <3>3, <4>1 DEF Crash, Spare, NetType
      <4>3. Extra(p)' \subseteq Extra(p)  BY <1>10, <4>1 DEF Extra
      <4> QED BY <1>2, <1>3, <4>2, <4>3
    <3>4. CASE ~(pc = "saved" /\ p = cur) /\ ~(pc = "remove" /\ p = file)
      <4>1. cuts'[p] = cuts[p]  BY <1>1, <2>4, <3>4 DEF Crash, NetType
      <4>2. Leaving(p)' = Leaving(p) /\ Chosen(p)' = Chosen(p)
        BY <3>1, <3>4 DEF Leaving, Chosen
      <4> QED BY <1>2, <1>3, <1>10, <4>1, <4>2 DEF Extra, Spare
    <3> QED BY <3>2, <3>3, <3>4
  <2>5. CASE OpenAlone \/ OpenResume \/ OpenFresh
    <3>1. /\ pc = "open" /\ pc' \in {"opened", "save"} /\ UNCHANGED <<side, cuts>>
          /\ spooled' = spooled \cup {want}
      BY <2>5 DEF OpenAlone, OpenResume, OpenFresh, OpenFile, world
    <3>2. CASE p \in spooled \/ p # want
      BY <1>9, <1>10, <3>1, <3>2 DEF Leaving, Chosen
    <3>3. CASE p = want /\ p \notin spooled
      <4>1. Own(p) = {}  BY <1>1, <3>3 DEF BegunInv, ControlType, Periods
      <4>2. Extra(p)' = {} /\ Cardinality(Extra(p)') = 0
        BY <1>10, <4>1, FS_EmptySet DEF Extra
      <4> QED BY <1>2, <4>2
    <3> QED BY <3>2, <3>3
  <2>6. CASE Save
    <3>1. /\ pc = "save" /\ pc' = "saved" /\ side' = [side EXCEPT ![cur] = Torn]
          /\ UNCHANGED <<spooled, file, cur, dest, cuts>>
      BY <2>6 DEF Save, open, work, world
    <3>2. cur \in Periods /\ (side[cur] = dest \/ side[cur] \notin Names) /\ dest \in Names
      BY <1>1, <3>1 DEF PlaceInv, NameInv, ControlType
    <3>3. p = cur => side'[p] = Torn /\ Chosen(p) \subseteq {dest} /\ Chosen(p)' = {dest}
      BY <1>5, <3>1, <3>2 DEF Chosen
    <3>4. p # cur => side'[p] = side[p]  BY <1>5, <3>1
    <3> QED BY <1>9, <1>10, <3>1, <3>3, <3>4 DEF Leaving, Chosen
  <2>7. CASE Saved
    <3>1. /\ pc = "saved" /\ pc' \in {"opened", "idle", "close"} /\ side' = [side EXCEPT ![cur] = dest]
          /\ UNCHANGED <<spooled, file, cur, dest, cuts>>
      BY <2>7 DEF Saved, open, work, world
    <3>2. cur \in Periods /\ side[cur] = Torn /\ dest \in Names
      BY <1>1, <3>1 DEF PlaceInv, NameInv, ControlType
    <3>3. p = cur => side'[p] = dest /\ Chosen(p) = {dest} /\ Chosen(p)' = {dest}
      BY <1>5, <3>1, <3>2 DEF Chosen
    <3>4. p # cur => side'[p] = side[p]  BY <1>5, <3>1
    <3> QED BY <1>9, <1>10, <3>1, <3>3, <3>4 DEF Leaving, Chosen
  <2>8. CASE ClearState
    <3>1. /\ pc = "clear" /\ pc' = "remove" /\ side' = [side EXCEPT ![file] = None]
          /\ UNCHANGED <<spooled, file, cur, dest, cuts>>
      BY <2>8 DEF ClearState, open, work, world
    <3>2. CASE p = file
      <4>1. side[p] = target /\ target \in Names /\ p \in spooled
        BY <1>1, <3>1, <3>2, SharePlaces DEF NameInv, Removing
      <4>2. ~Leaving(p) /\ Chosen(p) = {target} /\ Leaving(p)'
        BY <3>1, <3>2, <4>1 DEF Leaving, Chosen
      <4>3. Spare(p) = cuts[p] /\ Spare(p)' = cuts[p] + 1  BY <3>1, <4>2 DEF Spare
      <4>4. Extra(p)' \subseteq Extra(p) \cup {target}  BY <1>10, <4>2 DEF Extra
      <4> QED BY <1>2, <1>4, <4>3, <4>4
    <3>3. CASE p # file
      <4>1. side'[p] = side[p]  BY <1>5, <3>1, <3>3
      <4> QED BY <1>9, <1>10, <3>1, <3>3, <4>1 DEF Leaving, Chosen
    <3> QED BY <3>2, <3>3
  <2>9. CASE RemoveSpool
    <3>1. /\ pc = "remove" /\ pc' \in {"open", "sweep"} /\ spooled' = spooled \ {file}
          /\ UNCHANGED <<side, file, cur, dest, cuts>>
      BY <2>9 DEF RemoveSpool, Return, open, work, world
    <3> QED BY <1>9, <1>10, <3>1 DEF Leaving, Chosen
  <2>10. CASE SweepFile
    <3>1. pc = "sweep" /\ pc' \in {"sweep", "finish", "copy"} /\ UNCHANGED <<spooled, cuts>>
      BY <2>10 DEF SweepFile, world
    <3>2. side'[p] = side[p] \/ (side[p] \notin Names /\ side'[p] = None)
      BY <3>1, SideSteps DEF Save, Saved, ClearState
    <3> QED BY <1>5, <1>9, <1>10, <3>1, <3>2 DEF Leaving, Chosen
  <2> QED BY <1>6, <1>7, <1>10, <2>1, <2>2, <2>3, <2>4, <2>5, <2>6, <2>7, <2>8, <2>9, <2>10
       DEF Next, vars, Writer, Arrive, Midnight, ShareChanges, Foreign, Write, open, work, disk
<1> QED BY <1>6, <1>7, <1>8, <1>10, OwnSteps

LEMMA InitOwn == ASSUME Init  PROVE BegunInv /\ OwnInv
<1>1. \A p \in Periods : Own(p) = {}
  <2>1. \A n \in foreign : Mixed(n)
    <3> SUFFICES ASSUME NEW n \in foreign  PROVE Mixed(n)
      OBVIOUS
    <3>1. n \in Names  BY NamesAre DEF Init
    <3>2. share[n] = <<0>>  BY <3>1 DEF Init
    <3>3. 1 \in DOMAIN <<0>> /\ <<0>>[1] = 0  OBVIOUS
    <3> QED BY <3>2, <3>3 DEF Mixed
  <2> QED BY <2>1 DEF Own, Init
<1>2. ASSUME NEW p \in Periods  PROVE Cardinality(Extra(p)) <= Spare(p)
  <2>1. Extra(p) = {} /\ cuts[p] = 0  BY <1>1 DEF Extra, Init
  <2>2. Cardinality(Extra(p)) = 0  BY <2>1, FS_EmptySet
  <2> QED BY <2>1, <2>2 DEF Spare
<1> QED BY <1>1, <1>2 DEF Init, BegunInv, OwnInv

-----------------------------------------------------------------------------
(***************************************************************************)
(* What left the spool is on the share                                     *)
(***************************************************************************)
\* A name is chosen while nobody has it: only a file that another recorder
\* creates later can meet it, and every other file of theirs is left alone.
ForeignInv ==
  /\ foreign \subseteq files
  /\ \A n \in foreign : n[2] = 0
  /\ \A n \in foreign \ contested :
       share[n] = <<0>> /\ dest # n /\ \A p \in Periods : side[p] # n

LEMMA ForeignSteps ==
  ASSUME TypeInv, [Next]_vars
  PROVE  /\ files \subseteq files' /\ contested \subseteq contested'
         /\ \/ UNCHANGED <<foreign, late>>
            \/ \E p \in Periods : Foreign(p)
<1>1. CASE UNCHANGED <<foreign, late>> /\ (SyncOK \/ SyncFails \/ FinishOK \/ FinishFails)
  BY <1>1, ShareSteps DEF Extends, SyncOK, SyncFails, FinishOK, FinishFails, world
<1>2. CASE UNCHANGED <<foreign, late>> /\ CopyFile
  BY <1>2, CopySteps DEF net
<1>3. contested \subseteq contested' \/ CopyFile
  BY DEF Next, vars, Writer, Arrive, Midnight, ShareChanges, Foreign, Start, Stop, Crash, SyncTick,
     RetryTick, OpenAlone, OpenResume, OpenFresh, OpenFile, Opened, Write, Rotate, SyncOK, SyncFails,
     Save, Saved, CloseToStop, CloseFile, FinishOK, FinishFails, ClearState, RemoveSpool,
     SweepDone, SweepFile, world
<1>4. contested \subseteq contested'  BY <1>3, CopySteps
<1> QED BY <1>1, <1>2, <1>4, NetSteps DEF Foreign

\* A file of another recorder that nobody here wants is not written to.
LEMMA OthersStay ==
  ASSUME TypeInv, ForeignInv, [Next]_vars, NEW n \in foreign \ contested'
  PROVE  share'[n] = share[n]
<1>1. ControlType /\ NetType /\ n \in Names /\ n \in files /\ n \notin contested
  BY TypeParts, ForeignSteps DEF TypeInv, ForeignInv, NetType
<1>2. ASSUME NEW p \in Periods, Foreign(p)  PROVE share'[n] = share[n]
  BY <1>1, <1>2 DEF Foreign, NetType
<1>3. CASE SyncOK \/ SyncFails \/ FinishOK \/ FinishFails
  <2>1. CASE pc = "topup" /\ \E k \in Nat : Extends(cur, dest, k)
    <3>1. dest # n  BY <1>1 DEF ForeignInv
    <3> QED BY <1>1, <2>1, <3>1 DEF Extends, NetType
  <2>2. CASE pc = "finish" /\ \E k \in Nat : Extends(file, target, k)
    <3>1. target # n  BY <1>1, <2>2, SharePlaces DEF ForeignInv, Removing
    <3> QED BY <1>1, <2>2, <3>1 DEF Extends, NetType
  <2> QED BY <1>3, <2>1, <2>2, ShareSteps
<1>4. CASE CopyFile
  BY <1>1, <1>4, CopySteps DEF net, NetType
<1> QED BY <1>2, <1>3, <1>4, NetSteps

LEMMA ForeignStep ==
  ASSUME TypeInv, ForeignInv, [Next]_vars  PROVE ForeignInv'
<1>1. ControlType /\ NetType /\ PlaceInv  BY TypeParts DEF TypeInv
<1>2. None \notin foreign /\ Torn \notin foreign  BY <1>1, NamesAre DEF NetType
<1>3. CASE UNCHANGED <<foreign, late>>
  <2>1. foreign' \subseteq files' /\ \A n \in foreign' : n[2] = 0
    BY <1>3, ForeignSteps DEF ForeignInv
  <2> SUFFICES ASSUME NEW n \in foreign \ contested'
               PROVE  share'[n] = <<0>> /\ dest' # n /\ \A p \in Periods : side'[p] # n
    BY <1>3, <2>1 DEF ForeignInv
  <2>2. n \notin contested /\ n \in files /\ n # None /\ n # Torn
    BY <1>2, ForeignSteps DEF ForeignInv
  <2>3. share[n] = <<0>> /\ dest # n /\ \A p \in Periods : side[p] # n
    BY <2>2 DEF ForeignInv
  <2>4. dest' # n
    <3>1. CASE OpenAlone \/ OpenResume
      <4>1. want \in Periods /\ (dest' = None \/ dest' = side[want])
        BY <1>1, <3>1 DEF OpenAlone, OpenResume, ControlType
      <4> QED BY <2>2, <2>3, <4>1
    <3>2. CASE OpenFresh
      <4>1. want \in Periods  BY <1>1 DEF ControlType
      <4>2. \A k \in Free(want) : <<want, k>> \notin files  BY DEF Free
      <4>3. dest' = None \/ dest' \notin files
        BY <3>2, <4>1, <4>2, FreeNameIs DEF OpenFresh
      <4> QED BY <2>2, <4>3
    <3>3. CASE dest' = dest \/ dest' = None  BY <2>2, <2>3, <3>3
    <3> QED BY <3>1, <3>2, <3>3 DEF Next, vars, Writer, Arrive, Midnight, ShareChanges, Foreign, Start,
       Stop, Crash, Gone, SyncTick, RetryTick, Opened, Write, Rotate, SyncOK, SyncFails, Save,
       Saved, CloseToStop, CloseFile, FinishOK, FinishFails, ClearState, RemoveSpool, SweepDone,
       SweepFile, CopyFile, open
  <2>5. ASSUME NEW p \in Periods  PROVE side'[p] # n
    <3>1. side \in [Periods -> Names \cup {None, Torn}]  BY <1>1 DEF NetType
    <3>2. CASE (Save \/ Saved \/ ClearState)
      <4>1. side'[p] \in {side[p], None, Torn, dest}
        BY <3>1, <3>2 DEF Save, Saved, ClearState
      <4> QED BY <2>2, <2>3, <4>1
    <3> QED BY <2>2, <2>3, <3>2, SideSteps
  <2> QED BY <2>3, <2>4, <2>5, OthersStay
<1>4. ASSUME NEW p \in Periods, Foreign(p)  PROVE ForeignInv'
  <2>1. /\ <<p, 0>> \notin files /\ files' = files \cup {<<p, 0>>}
        /\ foreign' = foreign \cup {<<p, 0>>} /\ share' = [share EXCEPT ![<<p, 0>>] = <<0>>]
        /\ contested' = IF Wanted(<<p, 0>>) THEN contested \cup {<<p, 0>>} ELSE contested
        /\ dest' = dest /\ side' = side
    BY <1>4 DEF Foreign, open, disk
  <2>2. <<p, 0>> \in Names /\ <<p, 0>>[2] = 0  BY NamesAre
  <2>3. share'[<<p, 0>>] = <<0>> /\ \A n \in foreign : share'[n] = share[n]
    BY <1>1, <2>1, <2>2 DEF NetType, ForeignInv
  <2>4. ASSUME NEW n \in foreign' \ contested'
        PROVE  share'[n] = <<0>> /\ dest' # n /\ \A r \in Periods : side'[r] # n
    <3>1. CASE n = <<p, 0>>
      <4>1. ~Wanted(<<p, 0>>)  BY <2>1, <2>4, <3>1
      <4> QED BY <2>1, <2>3, <3>1, <4>1 DEF Wanted
    <3>2. CASE n # <<p, 0>>
      <4>1. n \in foreign \ contested  BY <2>1, <2>4, <3>2
      <4> QED BY <2>1, <2>3, <4>1 DEF ForeignInv
    <3> QED BY <3>1, <3>2
  <2> QED BY <2>1, <2>2, <2>4 DEF ForeignInv
<1> QED BY <1>3, <1>4, ForeignSteps

\* The share has all of a period.
HasAll(p) ==
  spool[p] # << >> /\ Clean(p) => \E n \in files : n[1] = p /\ share[n] = spool[p]

KeptInv ==
  /\ \A p \in Periods \ spooled : HasAll(p)
  /\ pc \in {"clear", "remove"} => HasAll(file)

\* What the share has all of, and nobody appends to, it keeps.
LEMMA HasAllKept ==
  ASSUME TypeInv, ForeignInv, [Next]_vars, NEW p \in Periods, HasAll(p),
         p \notin spooled \/ (pc \in {"clear", "remove"} /\ p = file)
  PROVE  HasAll(p)'
<1>1. ControlType /\ PlaceInv /\ BufferType /\ NetType  BY TypeParts DEF TypeInv
<1>2. p # cur /\ (pc \in {"topup", "finish", "copy"} => p \notin spooled)
  BY <1>1, NamesAre, SharePlaces DEF PlaceInv, Removing
<1>3. pc \in {"finish", "copy"} => p # file  BY <1>2, SharePlaces DEF Removing
<1>4. spool'[p] = spool[p]
  <2>1. CASE Wrote
    <3>1. cur \in Periods  BY <1>1, <2>1 DEF Wrote, ControlType, Periods
    <3> QED BY <1>1, <1>2, <2>1, <3>1 DEF Wrote, BufferType
  <2> QED BY <1>1, <2>1, SpoolSteps
<1>5. Clean(p)' => Clean(p)  BY ForeignSteps DEF Clean
<1>6. \A n \in files : n[1] = p => share'[n] = share[n]
  <2> SUFFICES ASSUME NEW n \in files, n[1] = p  PROVE share'[n] = share[n]
    OBVIOUS
  <2>1. n \in Names  BY <1>1 DEF NetType
  <2>2. CASE UNCHANGED <<files, share, foreign, late>>  BY <2>2
  <2>3. ASSUME NEW r \in Periods, Foreign(r)  PROVE share'[n] = share[n]
    BY <1>1, <2>1, <2>3 DEF Foreign, NetType
  <2>4. CASE SyncOK \/ SyncFails \/ FinishOK \/ FinishFails
    <3>1. CASE pc = "topup" /\ \E k \in Nat : Extends(cur, dest, k)
      <4>1. dest # n  BY <1>2, <3>1, SharePlaces
      <4> QED BY <1>1, <2>1, <3>1, <4>1 DEF Extends, NetType
    <3>2. CASE pc = "finish" /\ \E k \in Nat : Extends(file, target, k)
      <4>1. target # n  BY <1>3, <3>2, SharePlaces
      <4> QED BY <1>1, <2>1, <3>2, <4>1 DEF Extends, NetType
    <3> QED BY <2>4, <3>1, <3>2, ShareSteps
  <2>5. CASE CopyFile
    <3>1. p # file  BY <1>3, <2>5 DEF CopyFile
    <3> QED BY <1>1, <2>1, <2>5, <3>1, CopySteps DEF net, NetType
  <2> QED BY <2>2, <2>3, <2>4, <2>5, NetSteps
<1> QED BY <1>4, <1>5, <1>6, ForeignSteps DEF HasAll

\* A finished top-up and a finished copy have put all of it there.
LEMMA FinishHasAll ==
  ASSUME TypeInv, ShareInv, ForeignInv, FinishOK  PROVE HasAll(file)'
<1>1. BufferType /\ NetType  BY TypeParts DEF TypeInv
<1>2. /\ pc = "finish" /\ file \in Periods /\ target \in Names /\ target[1] = file
      /\ side[file] = target
  BY SharePlaces DEF FinishOK, Removing
<1>3. UNCHANGED <<file, target, spool, foreign, contested>>
  BY DEF FinishOK, work, disk, world
<1>4. Len(spool[file]) \in Nat /\ Extends(file, target, Len(spool[file]))
  BY <1>1, <1>2, TopUpIs, SpoolIs DEF FinishOK
<1>5. Clean(file) => target \notin foreign
  <2> SUFFICES ASSUME target \in foreign  PROVE ~Clean(file)
    OBVIOUS
  <2>1. target = <<file, 0>>  BY <1>2, NamesAre DEF ForeignInv
  <2>2. target \in contested  BY <1>2 DEF ForeignInv
  <2> QED BY <2>1, <2>2 DEF Clean
<1>6. Clean(file) => IsPrefix(share[target], spool[file])
  BY <1>2, <1>5 DEF ShareInv
<1>7. Clean(file) => share'[target] = spool[file]
  BY <1>2, <1>4, <1>6, ExtendIs
<1>8. target \in files'  BY DEF FinishOK
<1> QED BY <1>2, <1>3, <1>7, <1>8 DEF HasAll, Clean

LEMMA CopyHasAll ==
  ASSUME TypeInv, CopyFile, pc' \in {"clear", "remove"}  PROVE HasAll(file)'
<1>1. NetType  BY TypeParts DEF TypeInv
<1>2. UNCHANGED <<file, spool>>  BY DEF CopyFile, work, disk
<1>3. PICK n \in Names : /\ n[1] = file /\ share' = [share EXCEPT ![n] = spool[file]]
                         /\ files' = files \cup {n}
  BY CopySteps
<1>4. share'[n] = spool[file] /\ n \in files'  BY <1>1, <1>3 DEF NetType
<1> QED BY <1>2, <1>3, <1>4 DEF HasAll

LEMMA KeptStep ==
  ASSUME TypeInv, ShareInv, ForeignInv, KeptInv, [Next]_vars  PROVE KeptInv'
<1>1. ASSUME NEW p \in Periods, p \notin spooled'  PROVE HasAll(p)'
  <2>1. CASE p \notin spooled  BY <2>1, HasAllKept DEF KeptInv
  <2>2. CASE p \in spooled
    <3>1. RemoveSpool /\ p = file /\ pc = "remove"
      BY <1>1, <2>2, WantSteps DEF RemoveSpool
    <3> QED BY <3>1, HasAllKept DEF KeptInv
  <2> QED BY <2>1, <2>2
<1>2. ASSUME pc' \in {"clear", "remove"}  PROVE HasAll(file)'
  <2>1. CASE pc \in {"clear", "remove"} /\ file' = file
    <3>1. PICK p \in Periods : p = file  BY <2>1, SharePlaces DEF Removing
    <3>2. HasAll(p)'  BY <2>1, <3>1, HasAllKept DEF KeptInv
    <3> QED BY <2>1, <3>1, <3>2 DEF HasAll, Clean
  <2>2. CASE FinishOK
    BY <2>2, FinishHasAll
  <2>3. CASE CopyFile
    BY <1>2, <2>3, CopyHasAll
  <2> QED BY <1>2, <2>1, <2>2, <2>3
       DEF Next, vars, Writer, Arrive, Midnight, ShareChanges, Foreign, Start, Stop, Sync, Crash, Gone,
       SyncTick, RetryTick, OpenAlone, OpenResume, OpenFresh, Opened, Write, Rotate, SyncOK,
       SyncFails, Save, Saved, CloseToStop, CloseFile, FinishFails, Return, ClearState, RemoveSpool,
       SweepDone, SweepFile, work
<1> QED BY <1>1, <1>2 DEF KeptInv

LEMMA InitKept == ASSUME Init  PROVE ForeignInv /\ KeptInv
<1>1. \A p \in Periods : None # <<p, 0>>  BY NamesAre
<1>2. \A n \in foreign : n[2] = 0 /\ n # None  BY <1>1 DEF Init
<1>3. \A n \in foreign : n \in Names  BY NamesAre DEF Init
<1>4. \A n \in foreign : share[n] = <<0>>  BY <1>3 DEF Init
<1> QED BY <1>2, <1>4 DEF Init, ForeignInv, KeptInv, HasAll

-----------------------------------------------------------------------------
ArchiveInv ==
  TypeInv /\ ShareInv /\ BegunInv /\ OwnInv /\ ForeignInv /\ KeptInv

LEMMA ArchiveInvariant == Spec => []ArchiveInv
<1>1. Init => ArchiveInv
  BY InitTypes, InitShare, InitOwn, InitKept DEF ArchiveInv
<1>2. ArchiveInv /\ [Next]_vars => ArchiveInv'
  BY TypeStep, ShareStep, BegunStep, OwnStep, ForeignStep, KeptStep DEF ArchiveInv
<1> QED BY <1>1, <1>2, PTL DEF Spec

\* A spool file is removed only when the share has all of it: RemoveSpool is
\* reached with a complete copy, and nothing shortens it (finishOnShare,
\* flushToDest).
THEOREM SpoolIsKept == Spec => []SpoolKept
<1>1. KeptInv => SpoolKept  BY DEF KeptInv, HasAll, SpoolKept
<1> QED BY <1>1, ArchiveInvariant, PTL DEF ArchiveInv

\* What the daemon has on the share of a period is the beginning of what it
\* recorded, and is one file but for those that an update cut in two left there;
\* what others have is left alone.
THEOREM ShareStaysFaithful == Spec => []ShareIsFaithful
<1>1. ASSUME ArchiveInv  PROVE ShareIsPrefix
  BY <1>1 DEF ArchiveInv, ShareInv, ShareIsPrefix, Own, TypeInv, TypeOK
<1>2. ASSUME ArchiveInv  PROVE OneCopy
  <2> SUFFICES ASSUME NEW p \in Periods  PROVE Cardinality(Own(p)) <= 1 + cuts[p]
    BY DEF OneCopy
  <2>1. NetType  BY <1>2, TypeParts DEF ArchiveInv, TypeInv
  <2>2. cuts[p] \in Nat /\ cuts[p] + 1 \in Nat /\ 1 + cuts[p] = cuts[p] + 1
    BY <2>1 DEF NetType
  <2>3. IsFiniteSet(Extra(p)) /\ Spare(p) \in Nat /\ Cardinality(Extra(p)) <= Spare(p)
    BY <1>2, <2>1, OwnIsFinite DEF ArchiveInv, OwnInv
  <2>4. CASE Leaving(p)  BY <2>2, <2>3, <2>4 DEF Extra, Spare
  <2>5. CASE ~Leaving(p)
    <3>1. \E m : Chosen(p) \subseteq {m}  BY DEF Chosen
    <3>2. \E m : Own(p) \subseteq Extra(p) \cup {m}  BY <2>5, <3>1 DEF Extra
    <3>3. Cardinality(Extra(p)) <= cuts[p]  BY <2>3, <2>5 DEF Spare
    <3>4. ASSUME NEW T, NEW S, NEW a \in Nat, IsFiniteSet(T), Cardinality(T) <= a,
                 \E m : S \subseteq T \cup {m}
          PROVE  Cardinality(S) <= a + 1
      <4>1. a + 1 \in Nat /\ a + 1 <= a + 1  OBVIOUS
      <4> QED BY <3>4, <4>1, ExtraGrows
    <3>5. Cardinality(Own(p)) <= cuts[p] + 1  BY <2>2, <2>3, <3>2, <3>3, <3>4
    <3> QED BY <2>2, <3>5
  <2> QED BY <2>4, <2>5
<1>3. ASSUME ArchiveInv  PROVE OthersKept
  BY <1>3 DEF ArchiveInv, ForeignInv, OthersKept
<1> QED BY <1>1, <1>2, <1>3, ArchiveInvariant, PTL DEF ShareIsFaithful

-----------------------------------------------------------------------------
(***************************************************************************)
(* The order of the frames                                                 *)
(***************************************************************************)
Rising(s) == \A i, j \in DOMAIN s : i < j => s[i] < s[j]
Within(s, lo, hi) == \A i \in DOMAIN s : lo < s[i] /\ s[i] <= hi
Ordered(r) == Mirrored!Ordered(r)

\* A frame is in hand from the rotation to the first write to the next file.
HandInv ==
  hand # 0 =>
    /\ pc # "down"
    /\ job = "rotate" \/ (job = "next" /\ pc \in {"open", "save", "saved", "opened"})

\* What is in the spool was recorded before what is buffered, that before the
\* frame in hand, and that before what is queued.
OrderedBy(a, b, c) ==
  /\ a \in Nat /\ b \in Nat /\ c \in Nat /\ a <= b /\ b <= c /\ c <= arrived
  /\ \A p \in Periods : Within(spool[p], 0, a)
  /\ Within(buf, a, b) /\ Rising(buf)
  /\ hand # 0 => b < hand /\ hand <= c
  /\ Within(q, c, arrived) /\ Rising(q)

OrderInv == HandInv /\ Ordered(spool) /\ \E a, b, c \in Nat : OrderedBy(a, b, c)

LEMMA EmptyIsRising == \A lo, hi : Rising(<< >>) /\ Within(<< >>, lo, hi)
BY DEF Rising, Within

LEMMA AppendRises ==
  ASSUME NEW s \in Seq(Nat), NEW a \in Nat, NEW b \in Nat, NEW x \in Nat, NEW c \in Nat,
         a <= b, b < x, x <= c, Rising(s), Within(s, a, b)
  PROVE  /\ Append(s, x) \in Seq(Nat) /\ Rising(Append(s, x)) /\ Within(Append(s, x), a, c)
<1> DEFINE t == Append(s, x)
           n == Len(s)
<1>1. /\ t \in Seq(Nat) /\ Len(t) = n + 1 /\ n \in Nat
      /\ (\A i \in 1..n : t[i] = s[i]) /\ t[n + 1] = x
  BY AppendProperties, LenProperties
<1>2. DOMAIN s = 1..n /\ DOMAIN t = 1..(n + 1) /\ \A i \in 1..n : s[i] \in Nat
  BY <1>1, LenProperties, ElementOfSeq
<1> HIDE DEF t, n
<1>3. /\ \A i \in 1..(n + 1) : i \in 1..n \/ i = n + 1
      /\ \A i \in 1..n : s[i] \in Nat /\ a < s[i] /\ s[i] <= b /\ t[i] = s[i]
  <2>1. \A i \in 1..(n + 1) : i \in 1..n \/ i = n + 1  BY <1>1
  <2>2. \A i \in 1..n : a < s[i] /\ s[i] <= b  BY <1>2 DEF Within
  <2> QED BY <1>1, <1>2, <2>1, <2>2
<1>4. Rising(t)
  <2> SUFFICES ASSUME NEW i \in 1..(n + 1), NEW j \in 1..(n + 1), i < j  PROVE t[i] < t[j]
    BY <1>2 DEF Rising
  <2>1. i \in 1..n  BY <1>1
  <2>2. CASE j = n + 1
      <3> DEFINE y == s[i]
      <3>1. y \in Nat /\ y <= b /\ t[i] = y /\ t[j] = x  BY <1>1, <1>3, <2>1, <2>2
      <3> HIDE DEF y
      <3> QED BY <3>1
  <2>3. CASE j \in 1..n  BY <1>1, <1>2, <2>1, <2>3 DEF Rising
  <2> QED BY <1>3, <2>2, <2>3
<1>5. Within(t, a, c)
  <2> SUFFICES ASSUME NEW i \in 1..(n + 1)  PROVE a < t[i] /\ t[i] <= c
    BY <1>2 DEF Within
  <2>1. CASE i = n + 1  BY <1>1, <2>1
  <2>2. CASE i \in 1..n
    <3> DEFINE y == s[i]
    <3>1. y \in Nat /\ a < y /\ y <= b /\ t[i] = y  BY <1>3, <2>2
    <3> HIDE DEF y
    <3> QED BY <3>1
  <2> QED BY <1>3, <2>1, <2>2
<1> QED BY <1>1, <1>4, <1>5 DEF t

LEMMA TailRises ==
  ASSUME NEW s \in Seq(Nat), s # << >>, NEW lo \in Nat, NEW hi \in Nat, Rising(s), Within(s, lo, hi)
  PROVE  /\ Head(s) \in Nat /\ lo < Head(s) /\ Head(s) <= hi
         /\ Rising(Tail(s)) /\ Within(Tail(s), Head(s), hi)
<1> DEFINE t == Tail(s)
           n == Len(s)
<1>1. /\ t \in Seq(Nat) /\ Len(t) = n - 1 /\ n \in Nat /\ n # 0 /\ Head(s) = s[1]
      /\ \A i \in 1..(n - 1) : t[i] = s[i + 1]
  BY HeadTailProperties, LenProperties, EmptySeq
<1>2. DOMAIN s = 1..n /\ DOMAIN t = 1..(n - 1) /\ \A i \in 1..n : s[i] \in Nat
  BY <1>1, LenProperties, ElementOfSeq
<1> HIDE DEF t, n
<1>3. 1 \in 1..n /\ \A i \in 1..(n - 1) : i \in Nat /\ i + 1 \in 1..n /\ 1 < i + 1  BY <1>1
<1>4. Rising(t)
  <2> SUFFICES ASSUME NEW i \in 1..(n - 1), NEW j \in 1..(n - 1), i < j  PROVE t[i] < t[j]
    BY <1>2 DEF Rising
  <2>1. i + 1 \in 1..n /\ j + 1 \in 1..n /\ i + 1 < j + 1  BY <1>1
  <2> QED BY <1>1, <1>2, <2>1 DEF Rising
<1>5. Within(t, s[1], hi)  BY <1>1, <1>2, <1>3 DEF Rising, Within
<1> QED BY <1>1, <1>2, <1>3, <1>4, <1>5 DEF Within, t

LEMMA WithinGrows ==
  ASSUME NEW s \in Seq(Nat), NEW a \in Nat, NEW b \in Nat, NEW c \in Nat, b <= c, Within(s, a, b)
  PROVE  Within(s, a, c)
<1>1. \A i \in DOMAIN s : s[i] \in Nat  BY LenProperties, ElementOfSeq
<1> SUFFICES ASSUME NEW i \in DOMAIN s  PROVE a < s[i] /\ s[i] <= c
  BY DEF Within
<1> DEFINE x == s[i]
<1>2. x \in Nat /\ a < x /\ x <= b  BY <1>1 DEF Within
<1> HIDE DEF x
<1>3. a < x /\ x <= c  BY <1>2
<1> QED BY <1>3 DEF x

LEMMA FramesAreNumbers == ASSUME NEW s \in Seq(Frames)  PROVE s \in Seq(Nat)
<1> DEFINE n == Len(s)
<1>1. /\ DOMAIN s = 1..n /\ n \in Nat /\ \A i \in 1..n : s[i] \in Nat
  BY LenProperties, ElementOfSeq DEF Frames
<1>2. s = [i \in DOMAIN s |-> s[i]]  BY LenProperties
<1> HIDE DEF n
<1>3. s \in [1..n -> Nat]  BY <1>1, <1>2
<1> QED BY <1>1, <1>3

\* A flush puts what is newer at the end of the newest recording.
LEMMA ConcatOrdered ==
  ASSUME BufferType, NEW p \in Periods, NEW s \in Seq(Nat), NEW a \in Nat, NEW b \in Nat,
         Ordered(spool), \A r \in Periods : Within(spool[r], 0, a),
         \A r \in Periods : p < r => spool[r] = << >>,
         Rising(s), Within(s, a, b), a <= b, spool' = [spool EXCEPT ![p] = @ \o s]
  PROVE  Ordered(spool') /\ \A r \in Periods : Within(spool'[r], 0, b)
<1> DEFINE t == spool[p]
           w == t \o s
           n == Len(t)
           m == Len(s)
<1>1. spool \in [Periods -> Seq(Frames)] /\ Frames \subseteq Nat  BY DEF BufferType, Frames
<1>2. t \in Seq(Nat)  BY <1>1, FramesAreNumbers
<1>3. /\ w \in Seq(Nat) /\ Len(w) = n + m /\ n \in Nat /\ m \in Nat
      /\ \A i \in 1..(n + m) : w[i] = IF i <= n THEN t[i] ELSE s[i - n]
  <2> HIDE DEF t
  <2> QED BY <1>2, ConcatProperties, LenProperties
<1>4. /\ DOMAIN t = 1..n /\ DOMAIN s = 1..m /\ DOMAIN w = 1..(n + m)
      /\ (\A i \in 1..n : t[i] \in Nat) /\ (\A i \in 1..m : s[i] \in Nat)
  <2> HIDE DEF t, w
  <2> QED BY <1>2, <1>3, LenProperties, ElementOfSeq
<1>5. spool'[p] = w /\ \A r \in Periods \ {p} : spool'[r] = spool[r]  BY <1>1
<1>6. \A i \in 1..n : 0 < t[i] /\ t[i] <= a  BY <1>4 DEF Within
<1>7. \A i \in 1..m : a < s[i] /\ s[i] <= b  BY <1>4 DEF Within
<1>8. \A i, j \in 1..n : i < j => t[i] < t[j]
  BY <1>4 DEF Ordered, Mirrored!Ordered
<1>9. \A i, j \in 1..m : i < j => s[i] < s[j]
  BY <1>4 DEF Rising
<1>10. \A r \in Periods : \A i \in DOMAIN spool[r] : spool[r][i] \in Nat /\ 0 < spool[r][i] /\ spool[r][i] <= a
  <2> SUFFICES ASSUME NEW r \in Periods, NEW i \in DOMAIN spool[r]  PROVE spool[r][i] \in Nat
    BY DEF Within
  <2>1. spool[r] \in Seq(Frames)  BY <1>1
  <2>2. i \in 1..Len(spool[r])  BY <2>1, LenProperties
  <2> QED BY <1>1, <2>1, <2>2, ElementOfSeq
<1> HIDE DEF t, w, n, m
<1>11. ASSUME NEW i \in 1..(n + m)
       PROVE  \/ i \in 1..n /\ w[i] = t[i] /\ w[i] <= a
              \/ i - n \in 1..m /\ n < i /\ w[i] = s[i - n] /\ a < w[i]
  <2>1. CASE i <= n
    <3>1. i \in 1..n /\ w[i] = t[i]  BY <1>3, <2>1
    <3> QED BY <1>6, <3>1
  <2>2. CASE ~(i <= n)
    <3>1. n \in Nat /\ m \in Nat /\ i \in Nat /\ i <= n + m  BY <1>3
    <3>2. i - n \in 1..m /\ n < i  BY <2>2, <3>1
    <3>3. w[i] = s[i - n]  BY <1>3, <2>2
    <3> QED BY <1>7, <3>2, <3>3
  <2> QED BY <2>1, <2>2
<1>12. \A i \in 1..(n + m) : w[i] \in Nat /\ 0 < w[i] /\ w[i] <= b
  BY <1>4, <1>6, <1>7, <1>11
<1>13. \A i, j \in 1..(n + m) : i < j => w[i] < w[j]
  <2> SUFFICES ASSUME NEW i \in 1..(n + m), NEW j \in 1..(n + m), i < j  PROVE w[i] < w[j]
    OBVIOUS
  <2>1. CASE j \in 1..n /\ w[j] = t[j] /\ w[j] <= a
    <3>1. i \in 1..n /\ i <= n  BY <1>3, <2>1
    <3>2. w[i] = t[i]  BY <1>3, <3>1
    <3> QED BY <1>8, <2>1, <3>1, <3>2
  <2>2. CASE j - n \in 1..m /\ n < j /\ w[j] = s[j - n] /\ a < w[j]
    <3>1. CASE i \in 1..n /\ w[i] = t[i] /\ w[i] <= a
      <4> DEFINE x == w[i]
                 y == w[j]
      <4>1. x \in Nat /\ y \in Nat /\ x <= a /\ a < y  BY <1>12, <2>2, <3>1
      <4> HIDE DEF x, y
      <4>2. x < y  BY <4>1
      <4> QED BY <4>2 DEF x, y
    <3>2. CASE i - n \in 1..m /\ n < i /\ w[i] = s[i - n]
      <4>1. i - n < j - n  BY <1>3
      <4> QED BY <1>9, <2>2, <3>2, <4>1
    <3> QED BY <1>11, <3>1, <3>2
  <2> QED BY <1>11, <2>1, <2>2
<1>14. ASSUME NEW r \in Periods  PROVE Within(spool'[r], 0, b)
  <2>1. CASE r = p  BY <1>4, <1>5, <1>12, <2>1 DEF Within
  <2>2. CASE r # p  BY <1>5, <1>10, <2>2 DEF Within
  <2> QED BY <2>1, <2>2
<1>15. ASSUME NEW x \in Periods, NEW y \in Periods, NEW i \in DOMAIN spool'[x],
              NEW j \in DOMAIN spool'[y], x < y \/ (x = y /\ i < j)
       PROVE  spool'[x][i] < spool'[y][j]
  <2>1. CASE x # p /\ y # p
    BY <1>5, <1>15, <2>1 DEF Ordered, Mirrored!Ordered
  <2>2. CASE x = p /\ y = p
    <3>1. i \in 1..(n + m) /\ j \in 1..(n + m) /\ spool'[x] = w /\ spool'[y] = w
      BY <1>4, <1>5, <2>2
    <3>2. i < j  BY <1>15, <2>2 DEF Periods
    <3> QED BY <1>13, <3>1, <3>2
  <2>3. CASE x = p /\ y # p
    <3>1. spool'[y] = << >>  BY <1>5, <1>15, <2>3
    <3> QED BY <3>1
  <2>4. CASE x # p /\ y = p
    <3>1. x < y /\ spool'[x] = spool[x] /\ spool'[y] = w  BY <1>5, <1>15, <2>4
    <3>2. j \in 1..(n + m) /\ i \in DOMAIN spool[x]  BY <1>4, <3>1
    <3>3. CASE j \in 1..n /\ w[j] = t[j]
      <4>1. spool[x][i] < spool[p][j]
        BY <1>4, <2>4, <3>1, <3>2, <3>3 DEF Ordered, Mirrored!Ordered, t
      <4> QED BY <3>1, <3>3, <4>1 DEF t
    <3>4. CASE a < w[j]
      <4> DEFINE u == spool[x][i]
                 v == w[j]
      <4>1. u \in Nat /\ v \in Nat /\ u <= a /\ a < v  BY <1>10, <1>12, <3>2, <3>4
      <4> HIDE DEF u, v
      <4>2. u < v  BY <4>1
      <4> QED BY <3>1, <4>2 DEF u, v
    <3> QED BY <1>11, <3>2, <3>3, <3>4
  <2> QED BY <2>1, <2>2, <2>3, <2>4
<1>16. Ordered(spool')  BY <1>15 DEF Ordered, Mirrored!Ordered
<1> QED BY <1>14, <1>16

LEMMA HandStep ==
  ASSUME TypeInv, HandInv, [Next]_vars  PROVE HandInv'
<1> USE DEF HandInv
<1>1. PlaceInv  BY DEF TypeInv
<1>2. CASE UNCHANGED <<pc, job, hand>>  BY <1>2
<1>3. CASE Start \/ Stop \/ SyncTick \/ RetryTick
  BY <1>1, <1>3 DEF Start, Stop, SyncTick, RetryTick, Sync, open, PlaceInv
<1>4. CASE Crash \/ CloseToStop  BY <1>4 DEF Crash, CloseToStop, Gone
<1>5. CASE OpenAlone \/ OpenResume \/ OpenFresh
  BY <1>1, <1>5 DEF OpenAlone, OpenResume, OpenFresh, OpenFile, PlaceInv
<1>6. CASE Opened  BY <1>1, <1>6 DEF Opened, PlaceInv
<1>7. CASE Rotate  BY <1>7 DEF Rotate, Sync
<1>8. CASE SyncOK \/ SyncFails \/ Save \/ Saved
  BY <1>1, <1>8 DEF SyncOK, SyncFails, Save, Saved, open, PlaceInv
<1>9. CASE CloseFile  BY <1>1, <1>9 DEF CloseFile, PlaceInv
<1>10. CASE FinishOK \/ FinishFails \/ ClearState \/ RemoveSpool
  BY <1>1, <1>10 DEF FinishOK, FinishFails, ClearState, RemoveSpool, Return, open, PlaceInv
<1>11. CASE SweepDone \/ SweepFile \/ CopyFile
  <2>1. pc \in {"sweep", "copy"} /\ UNCHANGED hand /\ pc' # "down"
        /\ (job' = job \/ job = "rotate")
    BY <1>11 DEF SweepDone, SweepFile, CopyFile, Land, Moved, Return, open
  <2> QED BY <1>1, <2>1 DEF PlaceInv
<1> QED BY <1>2, <1>3, <1>4, <1>5, <1>6, <1>7, <1>8, <1>9, <1>10, <1>11
     DEF Next, vars, Writer, Arrive, Midnight, ShareChanges, Foreign, Write, open

LEMMA OrderStep ==
  ASSUME TypeInv, BegunInv, OrderInv, [Next]_vars  PROVE OrderInv'
<1>1. ControlType /\ BufferType /\ PlaceInv  BY TypeParts DEF TypeInv
<1>2. HandInv'  BY HandStep DEF OrderInv
<1>3. PICK a \in Nat, b \in Nat, c \in Nat : OrderedBy(a, b, c)  BY DEF OrderInv
<1>4. /\ a <= b /\ b <= c /\ c <= arrived /\ arrived \in Nat /\ arrived' \in Nat
      /\ Within(buf, a, b) /\ Rising(buf) /\ (hand # 0 => b < hand /\ hand <= c)
      /\ Within(q, c, arrived) /\ Rising(q) /\ Ordered(spool)
      /\ \A p \in Periods : Within(spool[p], 0, a)
  <2>1. arrived' \in Nat  BY <1>1, BufferStep DEF BufferType, TypeInv
  <2> QED BY <1>1, <1>3, <2>1 DEF OrderedBy, OrderInv, BufferType
<1>5. buf \in Seq(Nat) /\ q \in Seq(Nat) /\ hand \in Nat
  BY <1>1, FramesAreNumbers DEF BufferType, ControlType
<1>6. ASSUME NEW x \in Nat, NEW y \in Nat, NEW z \in Nat, OrderedBy(x, y, z)', Ordered(spool')
      PROVE  OrderInv'
  <2>1. \E i, j, k \in Nat : OrderedBy(i, j, k)'  BY <1>6
  <2> QED BY <1>2, <1>6, <2>1 DEF OrderInv, Ordered, Mirrored!Ordered
<1>7. CASE UNCHANGED <<spool, buf, hand, q, arrived>>
  <2>1. OrderedBy(a, b, c)'  BY <1>3, <1>7 DEF OrderedBy, Within, Rising
  <2>2. Ordered(spool')  BY <1>4, <1>7
  <2> QED BY <1>6, <2>1, <2>2
<1>8. CASE Arrive
  <2>1. arrived' = arrived + 1 /\ UNCHANGED <<spool, buf, hand>>
        /\ (q' = q \/ q' = Append(q, arrived'))
    BY <1>8 DEF Arrive, open, disk
  <2>2. Within(q', c, arrived') /\ Rising(q')
    <3>1. arrived <= arrived' /\ arrived < arrived' /\ arrived' <= arrived'  BY <1>4, <2>1
    <3>2. CASE q' = q  BY <1>4, <1>5, <3>1, <3>2, WithinGrows
    <3>3. CASE q' = Append(q, arrived')  BY <1>4, <1>5, <3>1, <3>3, AppendRises
    <3> QED BY <2>1, <3>2, <3>3
  <2>3. c <= arrived'  BY <1>4, <2>1
  <2>4. OrderedBy(a, b, c)'  BY <1>4, <2>1, <2>2, <2>3 DEF OrderedBy, Within, Rising
  <2>5. Ordered(spool')  BY <1>4, <2>1
  <2> QED BY <1>6, <2>4, <2>5
<1>9. CASE OpenAlone \/ OpenResume \/ OpenFresh
  <2>1. buf' = << >> /\ UNCHANGED <<spool, hand, q, arrived>>
    BY <1>9 DEF OpenAlone, OpenResume, OpenFresh, OpenFile, clock
  <2>2. OrderedBy(a, b, c)'  BY <1>4, <2>1, EmptyIsRising DEF OrderedBy, Within, Rising
  <2>3. Ordered(spool')  BY <1>4, <2>1
  <2> QED BY <1>6, <2>2, <2>3
<1>10. CASE Crash \/ CloseToStop
  <2>1. buf' = << >> /\ q' = << >> /\ hand' = 0 /\ UNCHANGED <<spool, arrived>>
    BY <1>10 DEF Crash, CloseToStop, Gone, disk
  <2>2. OrderedBy(a, b, c)'  BY <1>4, <2>1, EmptyIsRising DEF OrderedBy, Within, Rising
  <2>3. Ordered(spool')  BY <1>4, <2>1
  <2> QED BY <1>6, <2>2, <2>3
<1>11. CASE Opened
  <2>1. CASE UNCHANGED <<buf, hand>>
    <3>1. UNCHANGED <<spool, buf, hand, q, arrived>>  BY <1>11, <2>1 DEF Opened, clock, disk
    <3> QED BY <1>7, <3>1
  <2>2. CASE buf' = <<hand>> /\ hand' = 0 /\ hand # 0
    <3>1. UNCHANGED <<spool, q, arrived>>  BY <1>11 DEF Opened, clock, disk
    <3>2. a < hand /\ hand <= c /\ a <= c  BY <1>4, <1>5, <2>2
    <3>3. Within(buf', a, c) /\ Rising(buf')
      <4>1. DOMAIN <<hand>> = {1} /\ <<hand>>[1] = hand  OBVIOUS
      <4>2. DOMAIN buf' = {1} /\ buf'[1] = hand  BY <2>2, <4>1
      <4> QED BY <3>2, <4>2 DEF Within, Rising
    <3>4. c <= c  OBVIOUS
    <3>5. OrderedBy(a, c, c)'  BY <1>4, <2>2, <3>1, <3>2, <3>3, <3>4 DEF OrderedBy, Within, Rising
    <3>6. Ordered(spool')  BY <1>4, <3>1
    <3> QED BY <1>6, <3>5, <3>6
  <2> QED BY <1>1, <1>11, <2>1, <2>2 DEF Opened, PlaceInv
<1>12. pc = "idle" => /\ cur \in Periods /\ hand = 0
                     /\ \A r \in Periods : cur < r => spool[r] = << >>
  <2> SUFFICES ASSUME pc = "idle"
               PROVE  cur \in Periods /\ hand = 0 /\ \A r \in Periods : cur < r => spool[r] = << >>
    OBVIOUS
  <2>1. cur \in Periods /\ hand = 0 /\ cur = want /\ want \in Nat
    BY <1>1 DEF PlaceInv, OrderInv, HandInv, ControlType, Periods
  <2>2. ASSUME NEW r \in Periods, cur < r  PROVE spool[r] = << >>
    <3>1. r \in Nat /\ ~(r <= want) /\ ~(r < want)  BY <2>1, <2>2, NamesAre
    <3>2. r \notin spooled  BY <1>1, <3>1 DEF PlaceInv
    <3> QED BY <3>1, <3>2 DEF BegunInv
  <2> QED BY <2>1, <2>2
<1>13. ASSUME q # << >>
       PROVE  /\ Head(q) \in Nat /\ c < Head(q) /\ b < Head(q) /\ Head(q) <= arrived
              /\ Head(q) <= Head(q)
              /\ Rising(Tail(q)) /\ Within(Tail(q), Head(q), arrived)
  <2>1. /\ Head(q) \in Nat /\ c < Head(q) /\ Head(q) <= arrived
        /\ Rising(Tail(q)) /\ Within(Tail(q), Head(q), arrived)
    BY <1>4, <1>5, <1>13, TailRises
  <2>2. b < Head(q) /\ Head(q) <= Head(q)
    <3> DEFINE x == Head(q)
    <3>1. x \in Nat /\ c < x  BY <2>1
    <3> HIDE DEF x
    <3>2. b < x /\ x <= x  BY <1>4, <3>1
    <3> QED BY <3>2 DEF x
  <2> QED BY <2>1, <2>2
<1>14. CASE Write
  <2>1. /\ pc = "idle" /\ q # << >> /\ q' = Tail(q) /\ UNCHANGED <<hand, arrived>>
    BY <1>14 DEF Write
  <2>2. PICK x \in Nat : x = Head(q)  BY <1>13, <2>1
  <2>3. a <= x /\ x <= x /\ x <= arrived /\ b < x  BY <1>4, <1>13, <2>1, <2>2
  <2>4. PICK s \in Seq(Nat) : s = Append(buf, x) /\ Rising(s) /\ Within(s, a, x)
    BY <1>4, <1>5, <2>3, AppendRises
  <2>5. Rising(q') /\ Within(q', x, arrived') /\ hand' = 0
    BY <1>12, <1>13, <2>1, <2>2
  <2>6. CASE buf' = s /\ UNCHANGED spool
    <3>1. OrderedBy(a, x, x)'
      BY <1>4, <2>1, <2>3, <2>4, <2>5, <2>6 DEF OrderedBy, Within, Rising
    <3>2. Ordered(spool')  BY <1>4, <2>6
    <3> QED BY <1>6, <3>1, <3>2
  <2>7. CASE buf' = << >> /\ spool' = [spool EXCEPT ![cur] = @ \o s]
    <3>1. Ordered(spool') /\ \A r \in Periods : Within(spool'[r], 0, x)
      BY <1>1, <1>4, <1>12, <2>1, <2>3, <2>4, <2>7, ConcatOrdered
    <3>2. Within(buf', x, x) /\ Rising(buf')  BY <2>7, EmptyIsRising
    <3>3. OrderedBy(x, x, x)'
      BY <2>1, <2>3, <2>5, <3>1, <3>2 DEF OrderedBy, Within, Rising
    <3> QED BY <1>6, <3>1, <3>3
  <2> QED BY <1>14, <2>2, <2>4, <2>6, <2>7 DEF Write
<1>15. CASE Rotate \/ Stop \/ SyncTick
  <2>1. /\ pc = "idle" /\ buf' = << >> /\ spool' = [spool EXCEPT ![cur] = @ \o buf]
        /\ UNCHANGED arrived
        /\ \/ UNCHANGED <<q, hand>>
           \/ q # << >> /\ q' = Tail(q) /\ hand' = Head(q)
    BY <1>15 DEF Rotate, Stop, SyncTick, Sync, clock
  <2>2. Ordered(spool') /\ \A r \in Periods : Within(spool'[r], 0, b)
    BY <1>1, <1>4, <1>5, <1>12, <2>1, ConcatOrdered
  <2>3. Within(buf', b, b) /\ Rising(buf') /\ b <= b  BY <2>1, EmptyIsRising
  <2>4. CASE UNCHANGED <<q, hand>>
    <3>1. OrderedBy(b, b, c)'
      BY <1>4, <2>1, <2>2, <2>3, <2>4 DEF OrderedBy, Within, Rising
    <3> QED BY <1>6, <2>2, <3>1
  <2>5. CASE q # << >> /\ q' = Tail(q) /\ hand' = Head(q)
    <3>1. PICK x \in Nat : x = Head(q)  BY <1>13, <2>5
    <3>2. b < x /\ b <= x /\ x <= x /\ x <= arrived  BY <1>4, <1>13, <2>5, <3>1
    <3>3. Within(q', x, arrived') /\ Rising(q')  BY <1>13, <2>1, <2>5, <3>1
    <3>4. OrderedBy(b, b, x)'
      BY <2>1, <2>2, <2>3, <2>5, <3>1, <3>2, <3>3 DEF OrderedBy, Within, Rising
    <3> QED BY <1>6, <2>2, <3>4
  <2> QED BY <2>1, <2>4, <2>5
<1> QED BY <1>7, <1>8, <1>9, <1>10, <1>11, <1>14, <1>15
     DEF Next, vars, Writer, Midnight, ShareChanges, Foreign, Start, SyncOK, SyncFails, Save,
         Saved, CloseFile, FinishOK, FinishFails, ClearState, RemoveSpool, SweepDone, SweepFile,
         CopyFile, RetryTick, clock, open, disk

-----------------------------------------------------------------------------
(***************************************************************************)
(* The writer implements a Mirror                                          *)
(***************************************************************************)
Copies(p) == {share[n] : n \in Own(p)}
PrefixesOf(t) == {s \in Seq(Data) : IsPrefix(s, t)}

LEMMA LongestIs ==
  ASSUME NEW t \in Seq(Data), NEW S, S \subseteq PrefixesOf(t)
  PROVE  /\ Longest(S) \in PrefixesOf(t)
         /\ S # {} => Longest(S) \in S /\ \A s \in S : Len(s) <= Len(Longest(S))
         /\ S = {} => Longest(S) = << >>
<1>1. CASE S = {}
  <2>1. << >> \in Seq(Data) /\ Len(<< >>) = 0  BY EmptySeq
  <2>2. PICK e \in Seq(Data) : e = << >> /\ Len(e) = 0  BY <2>1
  <2>3. 0 <= Len(t) /\ 1..0 = {}  BY LenProperties
  <2>4. IsPrefix(e, t)  BY <2>2, <2>3, PrefixIs
  <2> QED BY <1>1, <2>2, <2>4 DEF Longest, PrefixesOf
<1>2. CASE S # {}
  <2> DEFINE Left == {Len(t) - Len(s) : s \in S}
  <2>1. \A s \in S : s \in Seq(Data) /\ Len(s) \in Nat /\ Len(s) <= Len(t) /\ Len(t) \in Nat
    BY PrefixIs, LenProperties DEF PrefixesOf
  <2>2. \A s \in S : Len(t) - Len(s) \in Nat  BY <2>1
  <2>3. Left \subseteq Nat /\ Left # {}  BY <1>2, <2>2
  <2>4. Min(Left) \in Left /\ \A x \in Left : Min(Left) <= x
    <3> HIDE DEF Left
    <3> QED BY <2>3, MinIs
  <2>5. PICK b \in S : \A s \in S : Len(t) - Len(b) <= Len(t) - Len(s)  BY <2>4
  <2>6. \A s \in S : Len(s) <= Len(b)  BY <2>1, <2>5
  <2>7. Longest(S) \in S /\ \A s \in S : Len(s) <= Len(Longest(S))
    BY <1>2, <2>6 DEF Longest
  <2> QED BY <1>2, <2>7
<1> QED BY <1>1, <1>2

\* Two beginnings of one recording: one continues the other.
LEMMA PrefixesNest ==
  ASSUME NEW t \in Seq(Data), NEW r \in PrefixesOf(t), NEW s \in PrefixesOf(t), Len(r) <= Len(s)
  PROVE  r = s \/ IsStrictPrefix(r, s)
<1>1. r \in Seq(Data) /\ s \in Seq(Data)  BY DEF PrefixesOf
<1>2. /\ \A i \in 1..Len(r) : r[i] = t[i]
      /\ \A i \in 1..Len(s) : s[i] = t[i]
  BY <1>1, PrefixIs DEF PrefixesOf
<1>3. \A i \in 1..Len(r) : i \in 1..Len(s)
  <2> DEFINE n == Len(r)
             m == Len(s)
  <2>1. n \in Nat /\ m \in Nat /\ n <= m  BY <1>1, LenProperties
  <2> HIDE DEF n, m
  <2>2. \A i \in 1..n : i \in 1..m  BY <2>1
  <2> QED BY <2>2 DEF n, m
<1>4. \A i \in 1..Len(r) : r[i] = s[i]  BY <1>2, <1>3
<1>5. IsPrefix(r, s)  BY <1>1, <1>4, PrefixIs
<1> QED BY <1>5 DEF IsStrictPrefix

\* When every copy stays or grows, so does the best one.
LEMMA BestGrows ==
  ASSUME NEW t \in Seq(Data), NEW S, NEW T, S \subseteq PrefixesOf(t), T \subseteq PrefixesOf(t),
         \A s \in S : \E u \in T : Len(s) <= Len(u)
  PROVE  Longest(S) = Longest(T) \/ IsStrictPrefix(Longest(S), Longest(T))
<1>1. Longest(S) \in PrefixesOf(t) /\ Longest(T) \in PrefixesOf(t)  BY LongestIs
<1>2. Len(Longest(S)) \in Nat /\ Len(Longest(T)) \in Nat
  BY <1>1, LenProperties DEF PrefixesOf
<1>3. Len(Longest(S)) <= Len(Longest(T))
  <2>1. CASE S = {}
    <3>1. Longest(S) = << >>  BY <2>1, LongestIs
    <3>2. Len(Longest(S)) = 0  BY <3>1, EmptySeq
    <3> QED BY <1>2, <3>2
  <2>2. CASE S # {}
    <3>1. Longest(S) \in S  BY <2>2, LongestIs
    <3>2. PICK u \in T : Len(Longest(S)) <= Len(u)  BY <3>1
    <3>3. Len(u) <= Len(Longest(T)) /\ u \in Seq(Data)  BY <3>2, LongestIs DEF PrefixesOf
    <3>4. Len(u) \in Nat  BY <3>3, LenProperties
    <3> DEFINE x == Len(Longest(S))
               y == Len(u)
               z == Len(Longest(T))
    <3>5. x \in Nat /\ y \in Nat /\ z \in Nat /\ x <= y /\ y <= z  BY <1>2, <3>2, <3>3, <3>4
    <3> HIDE DEF x, y, z
    <3>6. x <= z  BY <3>5
    <3> QED BY <3>6 DEF x, z
  <2> QED BY <2>1, <2>2
<1> QED BY <1>1, <1>3, PrefixesNest

\* The copies of a period are beginnings of its recording.
LEMMA CopiesAre ==
  ASSUME TypeInv, ShareInv, NEW p \in Periods
  PROVE  Copies(p) \subseteq PrefixesOf(spool[p]) /\ spool[p] \in Seq(Data)
<1>1. NetType /\ BufferType  BY TypeParts DEF TypeInv
<1>2. spool[p] \in Seq(Data)  BY <1>1, SpoolIs DEF Data
<1>3. ASSUME NEW n \in Own(p)  PROVE share[n] \in PrefixesOf(spool[p])
  <2>1. n \in Names /\ n[1] = p /\ (n \in foreign => ~Mixed(n))  BY <1>1 DEF Own, NetType
  <2> QED BY <1>1, <2>1 DEF ShareInv, NetType, PrefixesOf, Data
<1> QED BY <1>2, <1>3 DEF Copies

\* How a step looks from the mirror.
LEMMA MirrorSteps ==
  ASSUME TypeInv, BegunInv, [Next]_vars
  PROVE  \/ UNCHANGED <<spool, spooled, files, share, foreign>>
         \/ \E p \in Periods : spooled' = spooled \cup {p}
                               /\ UNCHANGED <<spool, files, share, foreign>>
         \/ RemoveSpool /\ UNCHANGED <<spool, files, share, foreign>>
         \/ Wrote /\ pc = "idle" /\ UNCHANGED <<spooled, files, share, foreign>>
         \/ /\ SyncOK \/ SyncFails \/ FinishOK \/ FinishFails \/ CopyFile
            /\ UNCHANGED <<spool, spooled, foreign, late>>
         \/ \E p \in Periods : Foreign(p)
<1>1. ControlType /\ BufferType /\ PlaceInv  BY TypeParts DEF TypeInv
<1>2. CASE OpenAlone \/ OpenResume \/ OpenFresh
  <2>1. want \in Periods  BY <1>1 DEF ControlType
  <2> QED BY <1>2, <2>1 DEF OpenAlone, OpenResume, OpenFresh, OpenFile, net, world
<1>3. CASE RemoveSpool  BY <1>3 DEF RemoveSpool, net, world
<1>4. CASE Write \/ Rotate \/ Stop \/ SyncTick
  <2>1. pc = "idle" /\ UNCHANGED <<spooled, files, share, foreign>>
    BY <1>4 DEF Write, Rotate, Stop, SyncTick, net, world
  <2> QED BY <1>1, <2>1, SpoolSteps
<1>5. CASE SyncOK \/ SyncFails \/ FinishOK \/ FinishFails \/ CopyFile
  BY <1>5 DEF SyncOK, SyncFails, FinishOK, FinishFails, CopyFile, disk, world
<1> QED BY <1>2, <1>3, <1>4, <1>5 DEF Next, vars, Writer, Arrive, Midnight, ShareChanges, Start,
     Crash, RetryTick, Opened, Save, Saved, CloseToStop, CloseFile, ClearState, SweepDone,
     SweepFile, net, disk, world

\* While nobody takes a chosen name, what is written to the share makes every
\* copy longer, or leaves it.
LEMMA CopiesGrow ==
  ASSUME TypeInv, ShareInv, ForeignInv, [Next]_vars, contested = {},
         UNCHANGED <<spool, foreign, late>>,
         SyncOK \/ SyncFails \/ FinishOK \/ FinishFails \/ CopyFile
  PROVE  \/ UNCHANGED <<files, share>>
         \/ \E p \in Periods : /\ \A s \in Copies(p) : \E u \in Copies(p)' : Len(s) <= Len(u)
                               /\ \A r \in Periods \ {p} : Copies(r)' = Copies(r)
<1>1. NetType /\ BufferType  BY TypeParts DEF TypeInv
<1>2. ASSUME NEW p \in Periods, NEW n \in Names, n[1] = p, files \subseteq files',
             files' \subseteq files \cup {n},
             \A m \in Names \ {n} : share'[m] = share[m],
             n \in files /\ n \in Own(p) => n \in Own(p)' /\ Len(share[n]) <= Len(share'[n])
      PROVE  \/ UNCHANGED <<files, share>>
             \/ \E r \in Periods : /\ \A s \in Copies(r) : \E u \in Copies(r)' : Len(s) <= Len(u)
                                   /\ \A x \in Periods \ {r} : Copies(x)' = Copies(x)
  <2>1. ASSUME NEW s \in Copies(p)  PROVE \E u \in Copies(p)' : Len(s) <= Len(u)
    <3>1. PICK m \in Own(p) : s = share[m]  BY DEF Copies
    <3>2. m \in Names /\ m \in files  BY <1>1 DEF Own, NetType
    <3>3. CASE m = n  BY <1>2, <3>1, <3>2, <3>3 DEF Copies
    <3>4. CASE m # n
      <4>1. m \in Own(p)' /\ share'[m] = s  BY <1>2, <3>1, <3>2, <3>4 DEF Own, Mixed
      <4>2. Len(s) \in Nat  BY <1>1, <3>1, <3>2, LenProperties DEF NetType
      <4>3. Len(s) <= Len(s)
        <5> DEFINE g == Len(s)
        <5>1. g \in Nat  BY <4>2
        <5> HIDE DEF g
        <5>2. g <= g  BY <5>1
        <5> QED BY <5>2 DEF g
      <4> QED BY <4>1, <4>3 DEF Copies
    <3> QED BY <3>3, <3>4
  <2>2. ASSUME NEW r \in Periods \ {p}  PROVE Copies(r)' = Copies(r)
    <3>1. \A m \in files' : m \in Names  BY <1>1, <1>2 DEF NetType
    <3>2. \A m : m \in Own(r)' <=> m \in Own(r)
      BY <1>1, <1>2, <3>1 DEF Own, Mixed, NetType
    <3>3. Own(r)' = Own(r)  BY <3>2 DEF Own
    <3>4. \A m \in Own(r) : share'[m] = share[m]
      BY <1>1, <1>2 DEF Own, NetType
    <3> QED BY <3>3, <3>4 DEF Copies
  <2> QED BY <2>1, <2>2
<1>3. ASSUME NEW p \in Periods, NEW n \in Names, n[1] = p, NEW k \in Nat, Extends(p, n, k),
             n \notin foreign
      PROVE  \/ UNCHANGED <<files, share>>
             \/ \E r \in Periods : /\ \A s \in Copies(r) : \E u \in Copies(r)' : Len(s) <= Len(u)
                                   /\ \A x \in Periods \ {r} : Copies(x)' = Copies(x)
  <2>1. files \subseteq files' /\ files' \subseteq files \cup {n}  BY <1>3 DEF Extends
  <2>2. \A m \in Names \ {n} : share'[m] = share[m]  BY <1>3, ExtendIs
  <2>3. ASSUME n \in files  PROVE n \in Own(p)' /\ Len(share[n]) <= Len(share'[n])
    <3>1. n \in Own(p)'  BY <1>3, <2>1, <2>3 DEF Own
    <3>2. Len(share'[n]) = k
      <4>1. share'[n] = Copied(p, n, k)  BY <1>1, <1>3 DEF Extends, NetType
      <4> QED BY <1>3, <4>1, CopiedIs DEF Extends
    <3>3. Have(n) = share[n]  BY <2>3 DEF Have
    <3> QED BY <1>3, <3>1, <3>2, <3>3 DEF Extends
  <2> QED BY <1>2, <1>3, <2>1, <2>2, <2>3
<1>4. CASE SyncOK \/ SyncFails \/ FinishOK \/ FinishFails
  <2>1. pc = "topup" => dest \notin foreign  BY DEF ForeignInv
  <2>2. pc = "finish" => target \notin foreign
    BY SharePlaces DEF ForeignInv, Removing
  <2> QED BY <1>3, <1>4, <2>1, <2>2, ShareSteps, SharePlaces DEF Removing
<1>5. CASE CopyFile
  <2>1. file \in Periods  BY <1>5, SharePlaces DEF CopyFile
  <2>2. CASE UNCHANGED net  BY <2>2 DEF net
  <2>3. ASSUME NEW n \in Names, n[1] = file, share' = [share EXCEPT ![n] = spool[file]],
               files' = files \cup {n}
        PROVE  \/ UNCHANGED <<files, share>>
               \/ \E r \in Periods : /\ \A s \in Copies(r) : \E u \in Copies(r)' : Len(s) <= Len(u)
                                     /\ \A x \in Periods \ {r} : Copies(x)' = Copies(x)
    <3>1. share'[n] = spool[file] /\ \A m \in Names \ {n} : share'[m] = share[m]
      BY <1>1, <2>3 DEF NetType
    <3>2. PICK p \in Periods : p = file  BY <2>1
    <3>3. ASSUME n \in files, n \in Own(p)
          PROVE  n \in Own(p)' /\ Len(share[n]) <= Len(share'[n])
      <4>1. ~Mixed(n)'
        <5>1. spool[p] \in Seq(Frames)  BY <1>1, SpoolIs
        <5>2. \A i \in DOMAIN spool[p] : spool[p][i] \in Frames
          BY <5>1, LenProperties, ElementOfSeq
        <5> QED BY <3>1, <3>2, <5>2 DEF Mixed, Frames
      <4>2. n \in Own(p)'  BY <2>3, <3>2, <4>1 DEF Own
      <4>3. share[n] \in PrefixesOf(spool[p]) /\ spool[p] \in Seq(Data)
        BY <3>3, CopiesAre DEF Copies
      <4>4. Len(share[n]) <= Len(spool[p])  BY <4>3, PrefixIs DEF PrefixesOf
      <4> QED BY <3>1, <3>2, <4>2, <4>4
    <3> QED BY <1>2, <2>3, <3>1, <3>2, <3>3
  <2> QED BY <1>5, <2>2, <2>3, CopySteps
<1> QED BY <1>4, <1>5

\* What is being removed from the spool, the best copy has all of.
LEMMA BestIsWhole ==
  ASSUME TypeInv, ShareInv, NEW p \in Periods, HasAll(p), contested = {}
  PROVE  Best(p) = spool[p]
<1>1. NetType /\ BufferType  BY TypeParts DEF TypeInv
<1>2. Copies(p) \subseteq PrefixesOf(spool[p]) /\ spool[p] \in Seq(Data)  BY CopiesAre
<1>3. Best(p) = Longest(Copies(p))  BY DEF Best, Copies
<1>4. Best(p) \in PrefixesOf(spool[p]) /\ Best(p) \in Seq(Data)
  BY <1>2, <1>3, LongestIs DEF PrefixesOf
<1>5. Len(Best(p)) \in Nat /\ Len(spool[p]) \in Nat  BY <1>2, <1>4, LenProperties
<1>6. spool[p] \in PrefixesOf(spool[p])  BY <1>2, PrefixOfItself DEF PrefixesOf
<1>7. Len(spool[p]) <= Len(Best(p))
  <2>1. CASE spool[p] = << >>
    <3>1. Len(spool[p]) = 0  BY <2>1, EmptySeq
    <3> QED BY <1>5, <3>1
  <2>2. CASE spool[p] # << >>
    <3>1. PICK n \in files : n[1] = p /\ share[n] = spool[p]  BY <2>2 DEF HasAll, Clean
    <3>2. spool[p] \in Seq(Frames)  BY <1>1, SpoolIs
    <3>3. \A i \in DOMAIN spool[p] : spool[p][i] \in Frames
      BY <3>2, LenProperties, ElementOfSeq
    <3>4. n \in Own(p)  BY <3>1, <3>3 DEF Own, Mixed, Frames
    <3>5. spool[p] \in Copies(p)  BY <3>1, <3>4 DEF Copies
    <3> QED BY <1>2, <1>3, <3>5, LongestIs
  <2> QED BY <2>1, <2>2
<1>8. spool[p] = Best(p) \/ IsStrictPrefix(spool[p], Best(p))
  BY <1>2, <1>4, <1>6, <1>7, PrefixesNest
<1>9. IsPrefix(Best(p), spool[p])  BY <1>4 DEF PrefixesOf
<1>10. Len(Best(p)) <= Len(spool[p])  BY <1>2, <1>4, <1>9, PrefixIs
<1>11. Best(p) = spool[p] \/ IsStrictPrefix(Best(p), spool[p])
  BY <1>2, <1>4, <1>6, <1>10, PrefixesNest
<1>12. ~(IsPrefix(spool[p], Best(p)) /\ IsStrictPrefix(Best(p), spool[p]))
  <2> DEFINE s == spool[p]
             b == Best(p)
             n == Len(s)
  <2>1. s \in Seq(Data) /\ b \in Seq(Data) /\ Len(b) = n /\ n \in Nat
    BY <1>2, <1>4, <1>5, <1>7, <1>10
  <2> HIDE DEF s, b
  <2>2. ASSUME IsPrefix(s, b)  PROVE s = b
    <3>1. \A i \in 1..n : s[i] = b[i]  BY <2>1, <2>2, PrefixIs
    <3>2. DOMAIN s = 1..n /\ DOMAIN b = 1..n
          /\ s = [i \in DOMAIN s |-> s[i]] /\ b = [i \in DOMAIN b |-> b[i]]
      BY <2>1, LenProperties
    <3> HIDE DEF n
    <3> QED BY <3>1, <3>2
  <2> QED BY <2>2 DEF IsStrictPrefix, s, b
<1> QED BY <1>8, <1>11, <1>12 DEF IsStrictPrefix

LEMMA InitMirror == ASSUME Init  PROVE OrderInv /\ Mirrored!Init
<1>1. \A p \in Periods : spool[p] = << >>  BY DEF Init
<1>2. OrderInv
  <2>1. HandInv  BY DEF Init, HandInv
  <2>2. Ordered(spool)  BY <1>1 DEF Ordered, Mirrored!Ordered
  <2>3. OrderedBy(0, 0, 0)
    <3>1. 0 <= 0 /\ 0 \in Nat  OBVIOUS
    <3> QED BY <1>1, <3>1, EmptyIsRising DEF Init, OrderedBy
  <2>4. \E a, b, c \in Nat : OrderedBy(a, b, c)
    <3>1. 0 \in Nat  OBVIOUS
    <3> QED BY <2>3, <3>1
  <2> QED BY <2>1, <2>2, <2>4 DEF OrderInv
<1>3. TypeInv /\ ShareInv  BY InitTypes, InitShare
<1>4. ASSUME NEW p \in Periods  PROVE Best(p) = << >>
  <2>1. Own(p) = {}
    <3>1. \A n \in foreign : n \in Names  BY NamesAre DEF Init
    <3>2. \A n \in foreign : share[n] = <<0>>  BY <3>1 DEF Init
    <3>3. 1 \in DOMAIN <<0>> /\ <<0>>[1] = 0  OBVIOUS
    <3>4. \A n \in foreign : Mixed(n)  BY <3>2, <3>3 DEF Mixed
    <3> QED BY <3>4 DEF Own, Init
  <2> QED BY <2>1 DEF Best, Longest
<1> QED BY <1>2, <1>4 DEF Init, Mirrored!Init

LEMMA MirrorStep ==
  ASSUME ArchiveInv, ArchiveInv', OrderInv, OrderInv', [Next]_vars, contested' = {}
  PROVE  [Mirrored!Next]_Mirrored!vars
<1>1. /\ TypeInv /\ ShareInv /\ BegunInv /\ ForeignInv /\ KeptInv
      /\ ControlType /\ BufferType /\ PlaceInv
  BY TypeParts DEF ArchiveInv, TypeInv
<1>2. contested = {}  BY <1>1, ForeignSteps
<1> DEFINE arc == [p \in Periods |-> Best(p)]
<1>3. \A p \in Periods : Best(p) = Longest(Copies(p)) /\ Best(p)' = Longest(Copies(p)')
  BY DEF Best, Copies
<1>4. UNCHANGED <<files, share, foreign>> => arc' = arc
  <2> SUFFICES ASSUME UNCHANGED <<files, share, foreign>>  PROVE arc' = arc
    OBVIOUS
  <2>1. \A p \in Periods : Own(p)' = Own(p)  BY DEF Own, Mixed
  <2>2. \A p \in Periods : Copies(p)' = Copies(p)  BY <2>1 DEF Copies
  <2>3. \A p \in Periods : Best(p)' = Best(p)  BY <1>3, <2>2
  <2> QED BY <2>3
<1>5. CASE UNCHANGED <<spool, spooled, files, share, foreign>>
  BY <1>4, <1>5 DEF Mirrored!vars
<1>6. ASSUME NEW p \in Periods, spooled' = spooled \cup {p}, UNCHANGED <<spool, files, share, foreign>>
      PROVE  Mirrored!Hold(p)
  BY <1>4, <1>6 DEF Mirrored!Hold
<1>7. CASE RemoveSpool /\ UNCHANGED <<spool, files, share, foreign>>
  <2>1. PICK p \in Periods : p = file  BY <1>1, <1>7, SharePlaces DEF RemoveSpool, Removing
  <2>2. Best(p) = spool[p]  BY <1>1, <1>2, <1>7, <2>1, BestIsWhole DEF RemoveSpool, KeptInv
  <2>3. Mirrored!Release(p)
    BY <1>4, <1>7, <2>1, <2>2 DEF Mirrored!Release, RemoveSpool
  <2> QED BY <2>3 DEF Mirrored!Next
<1>8. CASE Wrote /\ pc = "idle" /\ UNCHANGED <<spooled, files, share, foreign>>
  <2>1. PICK s \in Seq(Frames) : cur # 0 /\ spool' = [spool EXCEPT ![cur] = @ \o s]
    BY <1>8 DEF Wrote
  <2>2. PICK p \in Periods : p = cur /\ p \in spooled
    BY <1>1, <2>1 DEF ControlType, PlaceInv
  <2>3. /\ spool'[p] = spool[p] \o s /\ \A r \in Periods \ {p} : spool'[r] = spool[r]
    BY <1>1, <2>1, <2>2 DEF BufferType
  <2>4. CASE spool'[p] = spool[p]
    <3>1. spool' = spool  BY <1>1, <2>1, <2>2, <2>3, <2>4 DEF BufferType
    <3> QED BY <1>5, <1>8, <3>1
  <2>5. CASE spool'[p] # spool[p]
    <3>1. spool[p] \in Seq(Data) /\ s \in Seq(Data)
      <4>1. \A i \in DOMAIN s : s[i] \in Data  BY LenProperties, ElementOfSeq DEF Data, Frames
      <4>2. DOMAIN s = 1..Len(s) /\ Len(s) \in Nat /\ s = [i \in DOMAIN s |-> s[i]]
        BY LenProperties
      <4>3. s \in [1..Len(s) -> Data]  BY <4>1, <4>2
      <4> QED BY <1>1, <4>2, <4>3, SpoolIs DEF Data
    <3>2. IsPrefix(spool[p], spool[p])  BY <3>1, PrefixOfItself
    <3>3. IsStrictPrefix(spool[p], spool'[p])
      BY <2>3, <2>5, <3>1, <3>2, PrefixGrows DEF IsStrictPrefix
    <3>4. Mirrored!Ordered(spool')  BY DEF OrderInv, Ordered, Mirrored!Ordered
    <3>5. Mirrored!Record(p)
      BY <1>4, <1>8, <2>2, <2>3, <3>3, <3>4 DEF Mirrored!Record, Mirrored!IsStrictPrefix, Mirrored!IsPrefix,
           IsStrictPrefix, IsPrefix
    <3> QED BY <3>5 DEF Mirrored!Next
  <2> QED BY <2>4, <2>5
<1>9. CASE (SyncOK \/ SyncFails \/ FinishOK \/ FinishFails \/ CopyFile)
           /\ UNCHANGED <<spool, spooled, foreign, late>>
  <2>1. CASE UNCHANGED <<files, share>>  BY <1>5, <1>9, <2>1
  <2>2. ASSUME NEW p \in Periods, \A s \in Copies(p) : \E u \in Copies(p)' : Len(s) <= Len(u),
               \A r \in Periods \ {p} : Copies(r)' = Copies(r)
        PROVE  [Mirrored!Next]_Mirrored!vars
    <3>1. PICK t \in Seq(Data), S \in SUBSET Seq(Data), T \in SUBSET Seq(Data) :
            /\ t = spool[p] /\ S = Copies(p) /\ T = Copies(p)'
            /\ S \subseteq PrefixesOf(t) /\ T \subseteq PrefixesOf(t)
      <4>1. Copies(p) \subseteq PrefixesOf(spool[p]) /\ spool[p] \in Seq(Data)
        BY <1>1, CopiesAre
      <4>2. Copies(p)' \subseteq PrefixesOf(spool[p])
        <5>1. ASSUME NEW n \in Own(p)'  PROVE share'[n] \in PrefixesOf(spool[p])
          <6>1. NetType' /\ ShareInv'  BY <1>1, NetStep, ShareStep
          <6>2. n \in Names /\ n[1] = p /\ (n \in foreign' => ~Mixed(n)')
            BY <6>1 DEF Own, NetType
          <6> QED BY <1>9, <6>1, <6>2 DEF ShareInv, NetType, PrefixesOf, Data
        <5> QED BY <5>1 DEF Copies
      <4> QED BY <4>1, <4>2 DEF PrefixesOf
    <3>2. Longest(S) = Longest(T) \/ IsStrictPrefix(Longest(S), Longest(T))
      BY <2>2, <3>1, BestGrows
    <3>3. IsPrefix(Longest(T), t)  BY <3>1, LongestIs DEF PrefixesOf
    <3>4. Best(p) = Longest(S) /\ Best(p)' = Longest(T)  BY <1>3, <3>1
    <3>5. \A r \in Periods \ {p} : Best(r)' = Best(r)  BY <1>3, <2>2
    <3>6. CASE Best(p)' = Best(p)
      <4>1. arc' = arc  BY <3>5, <3>6
      <4> QED BY <1>9, <4>1 DEF Mirrored!vars
    <3>7. CASE IsStrictPrefix(Best(p), Best(p)')
      <4>1. Mirrored!Copy(p)
        BY <1>9, <3>1, <3>3, <3>4, <3>5, <3>7 DEF Mirrored!Copy, Mirrored!IsStrictPrefix, Mirrored!IsPrefix,
           IsStrictPrefix, IsPrefix
      <4> QED BY <4>1 DEF Mirrored!Next
    <3> QED BY <3>2, <3>4, <3>6, <3>7
  <2> QED BY <1>1, <1>2, <1>9, <2>1, <2>2, CopiesGrow
<1>10. ASSUME NEW p \in Periods, Foreign(p)  PROVE UNCHANGED Mirrored!vars
  <2>1. /\ <<p, 0>> \notin files /\ files' = files \cup {<<p, 0>>}
        /\ foreign' = foreign \cup {<<p, 0>>} /\ share' = [share EXCEPT ![<<p, 0>>] = <<0>>]
        /\ UNCHANGED <<spool, spooled>>
    BY <1>10 DEF Foreign, disk
  <2>2. NetType /\ <<p, 0>> \in Names  BY <1>1, NamesAre, TypeParts DEF TypeInv
  <2>3. share'[<<p, 0>>] = <<0>> /\ \A n \in files : share'[n] = share[n]
    BY <2>1, <2>2 DEF NetType
  <2>4. Mixed(<<p, 0>>)'
    <3>1. 1 \in DOMAIN <<0>> /\ <<0>>[1] = 0  OBVIOUS
    <3> QED BY <2>3, <3>1 DEF Mixed
  <2>5. \A r \in Periods : Own(r)' = Own(r)  BY <2>1, <2>3, <2>4 DEF Own, Mixed
  <2>6. \A r \in Periods : Copies(r)' = Copies(r)  BY <2>3, <2>5 DEF Copies, Own
  <2>7. arc' = arc  BY <1>3, <2>6
  <2> QED BY <2>1, <2>7 DEF Mirrored!vars
<1> QED BY <1>1, <1>5, <1>6, <1>7, <1>8, <1>9, <1>10, MirrorSteps DEF Mirrored!Next

\* The archive writer implements a Mirror: frames are recorded in order over
\* rotations, restarts and crashes, the best copy on the share only grows along
\* the recording, and a recording is let go when that copy is complete, until
\* another recorder takes a chosen name.
THEOREM ArchiveIsAMirror == Spec => ImplementsMirror
<1>1. Init => OrderInv /\ Mirrored!Init  BY InitMirror
<1>2. ArchiveInv /\ OrderInv /\ [Next]_vars => OrderInv'  BY OrderStep DEF ArchiveInv
<1>3. ArchiveInv /\ ArchiveInv' /\ OrderInv /\ OrderInv' /\ [Next]_vars
      => [contested' = {} => [Mirrored!Next]_Mirrored!vars]_vars
  BY MirrorStep
<1> QED BY <1>1, <1>2, <1>3, ArchiveInvariant, PTL DEF Spec, ImplementsMirror
=============================================================================
