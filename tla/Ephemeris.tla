------------------------------ MODULE Ephemeris ------------------------------
(***************************************************************************)
(* The ephemeris store (internal/ephemeris): it assembles the data set of  *)
(* a satellite from subframes that arrive one by one, may be lost, and are *)
(* replaced by those of the next set at any moment, and hands out RTCM     *)
(* messages of what is complete and fresh.                                 *)
(*                                                                         *)
(* Satellites share nothing, so one of one system is modelled.  Its data   *)
(* sets are numbered as they are broadcast; of the fields of a set only    *)
(* the number and the issue of data matter.                                *)
(***************************************************************************)
EXTENDS Naturals, FiniteSets

CONSTANTS
  Issues,   \* issues of data there are before they are used again
  MaxAge,   \* maxAge, in units of time
  MaxSet,   \* bound: sets broadcast
  Longest   \* bound: the longest silence, in units of time

VARIABLES
  system,   \* "gps", "galileo" or "beidou"
  set,      \* the set that is broadcast
  have,     \* of each subframe or word type: the set it is of, 0 if it has not come
  toe,      \* BeiDou: the sets toeHi and t_oe's own two pieces are of
  age,      \* time since updated
  sent      \* the last message: have and toe as they were encoded; none at first

vars == <<system, set, have, toe, age, sent>>

\* subframes 1 to 3, and word types 1 to 5 of Galileo
Parts == IF system = "galileo" THEN 1..5 ELSE 1..3

\* the bits of a frame that the parser does not read
Foreign == MaxSet + 1

Init ==
  /\ system \in {"gps", "galileo", "beidou"} /\ set = 1 /\ age = 0
  /\ have = [p \in Parts |-> 0] /\ toe = [high |-> 0, of |-> <<0, 0>>]
  /\ sent = [have |-> have, toe |-> <<0, 0>>]

TypeOK ==
  /\ have \in [Parts -> 0..Foreign] /\ set \in 1..MaxSet /\ age \in 0..Longest
  /\ toe \in [high : 0..Foreign, of : (0..Foreign) \X (0..Foreign)]
  /\ sent \in [have : [Parts -> 0..Foreign], toe : (0..Foreign) \X (0..Foreign)]

(***************************************************************************)
(* consume                                                                 *)
(***************************************************************************)
\* The frames that come alike: the sigId, the number of words, whether its bits
\* are those the parser reads, and whether it begins as they do.  GPS: L1 C/A,
\* L2 CM.  Galileo: E1-B, E5b, an alert page of E1-B.  BeiDou: B1I, B2I with the
\* same data, a frame without preamble, B-CNAV with its other length.
Frames ==
  LET F(id, words, reads, begins) == [id |-> id, words |-> words, reads |-> reads, begins |-> begins] IN
  CASE system = "gps"     -> {F(0, 10, TRUE, TRUE), F(3, 10, FALSE, TRUE)}
    [] system = "galileo" -> {F(1, 8, TRUE, TRUE), F(5, 8, FALSE, TRUE), F(1, 8, FALSE, FALSE)}
    [] OTHER -> {F(0, 10, TRUE, TRUE), F(2, 10, TRUE, TRUE), F(0, 10, FALSE, FALSE), F(5, 18, FALSE, TRUE)}

\* mutant: the signal is not looked at
AcceptsAny(f) == f.words \in {8, 10}

\* "each constellation accepts one signal and one word count"
Accepts(f) ==
  CASE system = "gps" -> f.id = 0 /\ f.words >= 10
    [] system = "galileo" -> f.id = 1 /\ f.words = 8
    [] OTHER -> f.words = 10

\* what was there of the part is replaced
Folded(p, f) ==
  /\ Accepts(f) /\ age' = 0
  /\ have' = [have EXCEPT ![p] = IF f.reads THEN set ELSE Foreign]
  /\ UNCHANGED <<system, set, sent>>

AddGps == system = "gps" /\ \E p \in Parts, f \in Frames : Folded(p, f) /\ UNCHANGED toe

\* a page is even, then odd, and nominal
AddPage ==
  /\ system = "galileo"
  /\ \E p \in Parts, f \in Frames : f.begins /\ Folded(p, f) /\ UNCHANGED toe

\* t_oe is joined when subframe 3 comes, of whatever subframe 2 came last
AddBeidou ==
  /\ system = "beidou"
  /\ \E p \in Parts, f \in Frames :
       /\ f.begins /\ Folded(p, f)
       /\ toe' = CASE p = 1 -> toe
                   [] p = 2 -> [toe EXCEPT !.high = have'[2]]
                   [] p = 3 -> [toe EXCEPT !.of = <<toe.high, have'[3]>>]

(***************************************************************************)
(* complete, encode and Messages                                           *)
(***************************************************************************)
Issue(n) == n % Issues
All == \A p \in Parts : have[p] # 0

CompleteGps     == All /\ \A p \in {2, 3} : Issue(have[p]) = Issue(have[1])

\* mutant: the last of the tied words is not compared
CompleteGalileoBut4 == All /\ \A p \in {2, 3} : Issue(have[p]) = Issue(have[1])

CompleteGalileo == All /\ \A p \in 2..4 : Issue(have[p]) = Issue(have[1])
CompleteBeidou  == All

Fresh == age <= MaxAge

\* 1019, 1046 and 1042: every field as it was read
Encode1019 == system = "gps"     /\ CompleteGps     /\ sent' = [have |-> have, toe |-> <<0, 0>>]
Encode1046 == system = "galileo" /\ CompleteGalileo /\ sent' = [have |-> have, toe |-> <<0, 0>>]
Encode1042 == system = "beidou"  /\ CompleteBeidou  /\ sent' = [have |-> have, toe |-> toe.of]

Messages ==
  /\ Fresh /\ (Encode1019 \/ Encode1046 \/ Encode1042)
  /\ UNCHANGED <<system, set, have, toe, age>>

(***************************************************************************)
(* The satellite                                                           *)
(***************************************************************************)
NewSet ==
  /\ set < MaxSet /\ set' = set + 1 /\ UNCHANGED <<system, have, toe, age, sent>>

\* nothing is heard of it
Silence ==
  /\ age < Longest /\ age' = age + 1 /\ UNCHANGED <<system, set, have, toe, sent>>

Next == AddGps \/ AddPage \/ AddBeidou \/ Messages \/ NewSet \/ Silence

Spec == Init /\ [][Next]_vars

(***************************************************************************)
(* Properties                                                              *)
(***************************************************************************)
\* "A set assembled across an ephemeris change would be a plausible-looking
\* satellite in the wrong place": the parts of a GPS message, and words 1 to 4 of
\* a Galileo one, are of one issue of data, so of one set but for a part kept since
\* its issue was last in use (OneSet).  Of no system is a part read from another
\* signal.  Nothing ties the subframes of BeiDou (BeidouSetsAreWhole), nor word
\* type 5 of Galileo: week, health, delay.
SentIsOneIssue ==
  LET tied == CASE system = "gps" -> 1..3 [] system = "galileo" -> 1..4 [] OTHER -> {} IN
  /\ \A p, q \in tied : sent.have[p] = sent.have[q] \/ set > Issues
  /\ \A p, q \in tied : Issue(sent.have[p]) = Issue(sent.have[q])
  /\ \A p \in Parts : sent.have[p] # Foreign

\* "keeping the parts separate means a set assembled across an update cannot
\* silently mix them", and "a set whose clock and orbit come from different
\* updates is a satellite in the wrong place rather than a missing one": all that
\* is in a message is of one set.  (It is not asked of the messages whose t_oe was
\* joined with nothing, 0, because a subframe 3 came before the first 2.)
BeidouSetsAreWhole ==
  system = "beidou" =>
    LET of == {sent.toe[1], sent.toe[2]} \cup {sent.have[p] : p \in Parts} IN
    0 \notin of => \A m, n \in of : m = n

(***************************************************************************)
(* What comments of the code say, and the code does not do                 *)
(***************************************************************************)
\* a part that is two sets old and has the issue of the one that is broadcast
OneSet == system = "gps" => \A p, q \in Parts : sent.have[p] = sent.have[q]
=============================================================================
