------------------------------- MODULE Scanner -------------------------------
(***************************************************************************)
(* The frame scanner (internal/hub/framing.go): it splits the bytes of the *)
(* receiver, which come in reads of any size, into RTCM3, UBX and NMEA     *)
(* frames, and drops what is neither.                                      *)
(*                                                                         *)
(* A byte has three bits.  Headers, length fields and checksums are those  *)
(* of the protocols, in such bytes; the CRC of RTCM3 is one of them.       *)
(***************************************************************************)
EXTENDS Naturals, Sequences, FiniteSets, SequencesExt

CONSTANTS
  Streams,   \* the bytes of an input, and where they hold intact frames
  BufSize    \* bytes in the buffer at first, not 0

Byte == 8
D3 == 3
B5 == 5
X62 == 6
Dollar == 4
Newline == 2
MaxNMEA  == 6
MaxFrame == 8 + Byte * Byte - 1

VARIABLES
  input,     \* [bytes, intact]: the stream, and the frames in it: [from, to]
  size,      \* len(buf)
  read,      \* BytesRead
  start,     \* bytes consumed: the window is what was read after them
  out,       \* the frames returned, as [from, to]
  dropped,   \* BytesDropped
  err        \* the reader has ended

vars == <<input, size, read, start, out, dropped, err>>

TypeOK ==
  /\ input \in Streams /\ size \in 1..MaxFrame
  /\ start \in 0..read /\ read \in 0..Len(input.bytes) /\ dropped \in 0..start
  /\ out \in Seq([from : 1..start, to : 1..start]) /\ err \in BOOLEAN

Init ==
  /\ input \in Streams /\ size = BufSize
  /\ read = 0 /\ start = 0 /\ out = << >> /\ dropped = 0 /\ err = FALSE

(***************************************************************************)
(* What the window begins with                                             *)
(***************************************************************************)
Window == SubSeq(input.bytes, start + 1, read)

CRC(s) == FoldLeft(LAMBDA c, b : (3 * c + b) % Byte, 1, SubSeq(s, 1, Len(s) - 1))

\* the two sums of a UBX frame, over what is between sync and checksum
Sums(s) == FoldLeft(LAMBDA c, b : <<(c[1] + b) % Byte, (c[2] + c[1] + b) % Byte>>,
                    <<0, 0>>, SubSeq(s, 3, Len(s) - 2))

\* Of each protocol: the length of the frame as far as it is known, 0 when more
\* bytes are needed to know it, and whether what starts so may be a frame.
RTCM3(w) == [may  |-> Len(w) < 3 \/ w[2] \div 2 = 0,
             len  |-> IF Len(w) < 3 THEN 0 ELSE 4 + (w[2] % 2) * Byte + w[3]]
UBX(w)   == [may  |-> Len(w) < 2 \/ w[2] = X62,
             len  |-> IF Len(w) < 6 THEN 0 ELSE 8 + w[5] + Byte * w[6]]

End(w)   == {i \in 2..Len(w) : i <= MaxNMEA /\ w[i] \in {Newline, Dollar}}
NMEA(w)  == LET end == End(w)
                first == CHOOSE i \in end : \A j \in end : i <= j
            IN  [may |-> IF end = {} THEN Len(w) < MaxNMEA ELSE w[first] = Newline,
                 len |-> IF end = {} THEN 0 ELSE first]

Try(w) == CASE w[1] = D3 -> RTCM3(w) [] w[1] = B5 -> UBX(w) [] w[1] = Dollar -> NMEA(w)
            [] OTHER -> [may |-> FALSE, len |-> 0]

NeedMore(w) == w # << >> /\ Try(w).may /\ (Try(w).len = 0 \/ Try(w).len > Len(w))

Sound(w) ==
  LET f == SubSeq(w, 1, Try(w).len)
  IN  CASE w[1] = D3 -> CRC(f) = f[Len(f)]
        [] w[1] = B5 -> Sums(f) = <<f[Len(f) - 1], f[Len(f)]>>
        [] OTHER -> TRUE

IsFrame(w) == w # << >> /\ ~NeedMore(w) /\ Try(w).may /\ Sound(w)

\* one frame and no more
Intact(w) == IsFrame(w) /\ Try(w).len = Len(w)

(***************************************************************************)
(* scan, fill and Next                                                     *)
(***************************************************************************)
Return ==
  /\ IsFrame(Window) /\ start' = start + Try(Window).len
  /\ out' = Append(out, [from |-> start + 1, to |-> start'])
  /\ UNCHANGED <<input, size, read, dropped, err>>

\* mutant: all of the rejected window is dropped
SkipAll ==
  /\ Window # << >> /\ ~NeedMore(Window) /\ ~IsFrame(Window)
  /\ start' = IF Try(Window).may THEN start + Try(Window).len ELSE start + 1
  /\ dropped' = dropped + start' - start
  /\ UNCHANGED <<input, size, read, out, err>>

\* no sync byte, or no frame: "skipping exactly one"
Skip ==
  /\ Window # << >> /\ ~NeedMore(Window) /\ ~IsFrame(Window)
  /\ start' = start + 1 /\ dropped' = dropped + 1
  /\ UNCHANGED <<input, size, read, out, err>>

Waits == Window = << >> \/ NeedMore(Window)

\* a buffer that is full after compaction is doubled, up to MaxFrame; one that
\* is full and cannot grow would be dropped, which never happens (FramesAreExact)
Grown == IF Len(Window) < size THEN size
         ELSE IF 2 * size < MaxFrame THEN 2 * size ELSE MaxFrame

Fill ==
  /\ Waits /\ ~err /\ size' = Grown
  /\ read' \in read + 1 .. read + size' - Len(Window) /\ read' <= Len(input.bytes)
  /\ UNCHANGED <<input, start, out, dropped, err>>

\* the end of the input, or an error, after any read
ReadFails ==
  /\ Waits /\ ~err /\ err' = TRUE /\ size' = Grown
  /\ UNCHANGED <<input, read, start, out, dropped>>

Next == Return \/ Skip \/ Fill \/ ReadFails

Spec == Init /\ [][Next]_vars

(***************************************************************************)
(* Properties                                                              *)
(***************************************************************************)
\* An intact frame is found, wherever the reads end and whatever is damaged
\* around it: it has been returned, as it is, as soon as all of it is read and
\* nothing before it is waited for, unless it begins within another frame that
\* was returned.  (A '$' in noise makes such a frame: see NothingIsSwallowed.)
\* What is consumed is in one frame, or dropped and counted.
Returned(f) == \E i \in DOMAIN out : out[i] = f
Inside(f)   == \E i \in DOMAIN out : out[i].from < f.from /\ f.from <= out[i].to

FramesAreExact ==
  /\ \A f \in input.intact :
       \/ Returned(f) \/ Inside(f) \/ f.to > read
       \/ start + 1 < f.from \/ (start + 1 = f.from /\ ~Waits)
  /\ \A i \in DOMAIN out : i > 1 => out[i].from > out[i - 1].to
  /\ dropped = Cardinality({p \in 1..start : \A i \in DOMAIN out : p \notin out[i].from..out[i].to})
  /\ Waits => Len(Window) < MaxFrame

(***************************************************************************)
(* What comments of the code say, and the code does not do                 *)
(***************************************************************************)
\* "resynchronises after corruption without losing the following frames"
NothingIsSwallowed == \A f \in input.intact : ~Inside(f)

\* "one complete, checksum-valid protocol message": a sentence has none checked
OnlyIntact == \A i \in DOMAIN out : out[i] \in input.intact
=============================================================================
