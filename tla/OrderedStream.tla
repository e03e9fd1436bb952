-------------------------- MODULE OrderedStream --------------------------
(***************************************************************************)
(* What every output of the daemon promises its reader: the frames it gets *)
(* are frames the receiver sent, of the kind it selected, each at most     *)
(* once and in the receiver's order.  Frames may be missing.               *)
(***************************************************************************)
EXTENDS Integers, Sequences

CONSTANTS
  Readers,    \* the outputs
  MaxFrame,   \* frames are numbered 1..MaxFrame in the order they were sent
  Wants       \* the frames each reader's filter passes

VARIABLES
  input,      \* frames sent so far
  got         \* what each reader received

Newest(s) == IF s = << >> THEN 0 ELSE s[Len(s)]

Init == input = 0 /\ got = [r \in Readers |-> << >>]

Send == input < MaxFrame /\ input' = input + 1 /\ UNCHANGED got

Deliver(r) ==
  \E n \in Wants[r] \cap ((Newest(got[r]) + 1)..input) :
    got' = [got EXCEPT ![r] = Append(@, n)] /\ UNCHANGED input

Next == Send \/ \E r \in Readers : Deliver(r)

Spec == Init /\ [][Next]_<<input, got>>
=============================================================================
