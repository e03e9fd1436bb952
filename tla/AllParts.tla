------------------------------- MODULE AllParts -------------------------------
(***************************************************************************)
(* Parts that stand alone: the frame scanner, the decimation of a message, *)
(* the ephemeris store, the time offered to chrony, the telemetry history, *)
(* the limiter of sign-ins and the integrity check.  They share no state,  *)
(* so one of them moves in a behaviour and the others stay as they are at  *)
(* first: their sum is checked, and not their product.                     *)
(***************************************************************************)
EXTENDS Integrity

CONSTANTS
  Streams, BufSize,                              \* of the scanner
  Issues, MaxAge, MaxSet, Longest,               \* of the ephemeris store
  Cap, Pause, MinInterval, SyncLate,             \* of the time offered to chrony
  Fine, Coarse, Retention, Limits, ChartLate, MaxBack, \* of the history
  Keys, Burst, Cost, Rate, MaxLen, LimitLate, MaxTries, \* of the limiter
  Interval, Period, Jitter, MaxEpoch             \* of the decimation

VARIABLES
  part,                                         \* the one that moves
  input, size, read, start, out, dropped, err,  \* of the scanner
  system, set, have, toe, age, sent,            \* of the ephemeris store
  now, queue, wakes, chrony, room, conn, blocked, after, last, sample, \* of the time offered to chrony
  clock, rows, ever, thin, gone, back,          \* of the history
  sec, keys, swept, trying, since, granted, returned, \* of the limiter
  epoch, passed, given, lost, gap               \* of the decimation

scanner   == <<input, size, read, start, out, dropped, err>>
ephemeris == <<system, set, have, toe, age, sent>>
timesync  == <<now, queue, wakes, chrony, room, conn, blocked, after, last, sample>>
history   == <<clock, rows, ever, thin, gone, back>>
limiter   == <<sec, keys, swept, trying, since, granted, returned>>
decimation == <<epoch, passed, given, lost, gap>>

(***************************************************************************)
(* The parts                                                               *)
(***************************************************************************)
Scan  == INSTANCE Scanner
Eph   == INSTANCE Ephemeris
Sync  == INSTANCE TimeSync WITH Late <- SyncLate
Chart == INSTANCE History WITH Late <- ChartLate
Limit == INSTANCE Limiter WITH now <- sec, Late <- LimitLate
Decim == INSTANCE Filter WITH last <- passed

\* What the scanner is given where another part moves.
Silent == [bytes |-> << >>, intact |-> {}]

\* The frames of a stream are where they are said to be, and whole.
ASSUME StreamsAssumption ==
  /\ Silent \in Streams /\ BufSize \in 1..Scan!MaxFrame
  /\ \A s \in Streams :
       /\ s.bytes \in Seq(0..Scan!Byte - 1)
       /\ \A f \in s.intact :
            /\ f \in [from : 1..Len(s.bytes), to : 1..Len(s.bytes)]
            /\ Scan!Intact(SubSeq(s.bytes, f.from, f.to))

\* Intervals and sizes of the code are positive.
ASSUME PartsAssumption ==
  /\ Issues \in Nat \ {0} /\ MaxAge \in Nat /\ MaxSet \in Nat \ {0} /\ Longest \in Nat
  /\ Cap \in Nat /\ Pause \in Nat /\ MinInterval \in Nat \ {0} /\ SyncLate \in Nat \ {0}
  /\ Fine \in Nat /\ Coarse \in Nat \ {0} /\ Retention \in Nat /\ Limits \subseteq Nat \ {0}
  /\ ChartLate \in Nat /\ MaxBack \in Nat
  /\ Burst \in Nat /\ Cost \in Nat /\ Rate \in Nat \ {0} /\ MaxLen \in Nat
  /\ LimitLate \in Nat /\ MaxTries \in Nat
  /\ Interval \in Nat \ {0} /\ Period \in Nat \ {0} /\ Jitter \in Nat /\ MaxEpoch \in Nat

PartsInit ==
  /\ part \in {"scanner", "ephemeris", "timesync", "history", "limiter", "filter",
              "integrity"}
  /\ Init /\ Chart!Init /\ Limit!Init /\ Decim!Init
  /\ Scan!Init /\ (part # "scanner" => input = Silent)
  /\ Eph!Init /\ (part # "ephemeris" => system = "gps")
  /\ Sync!Init /\ (part # "timesync" => chrony)

PartsNext ==
  /\ UNCHANGED part
  /\ \/ part = "scanner" /\ Scan!Next
        /\ UNCHANGED <<ephemeris, timesync, history, limiter, decimation, vars>>
     \/ part = "ephemeris" /\ Eph!Next
        /\ UNCHANGED <<scanner, timesync, history, limiter, decimation, vars>>
     \/ part = "timesync" /\ Sync!Next
        /\ UNCHANGED <<scanner, ephemeris, history, limiter, decimation, vars>>
     \/ part = "history" /\ Chart!Next
        /\ UNCHANGED <<scanner, ephemeris, timesync, limiter, decimation, vars>>
     \/ part = "limiter" /\ Limit!Next
        /\ UNCHANGED <<scanner, ephemeris, timesync, history, decimation, vars>>
     \/ part = "filter" /\ Decim!Next
        /\ UNCHANGED <<scanner, ephemeris, timesync, history, limiter, vars>>
     \/ part = "integrity" /\ Next
        /\ UNCHANGED <<scanner, ephemeris, timesync, history, limiter, decimation>>

all == <<vars, part, scanner, ephemeris, timesync, history, limiter, decimation>>

PartsSpec == PartsInit /\ [][PartsNext]_all

\* The scanner: see Scanner.
FramesAreExact == Scan!FramesAreExact

\* The other parts: what is sent on, kept, shown or granted is what was received
\* and what is due.  Each conjunct is stated in the module of its part.
PartsAreFaithful ==
  /\ Eph!SentIsOneIssue /\ Sync!LateIsFirst
  /\ Chart!HistoryKept /\ Chart!ChartsAreComplete /\ Limit!LimitHolds /\ Decim!KeepsPace
=============================================================================
