-------------------------------- MODULE MCParts --------------------------------
(* AllParts on small streams, and with the fairness of the integrity check.  *)
EXTENDS AllParts, SequencesExt

(***************************************************************************)
(* Streams: one or two intact frames, with what is damaged, cut off or     *)
(* noise around them, and two with a frame of the greatest length          *)
(***************************************************************************)
Sum(s)     == FoldLeft(LAMBDA c, b : (3 * c + b) % 8, 1, s)
Sums2(s)   == FoldLeft(LAMBDA c, b : <<(c[1] + b) % 8, (c[2] + c[1] + b) % 8>>, <<0, 0>>, s)
Rtcm(p)    == LET s == <<3, Len(p) \div 8, Len(p) % 8>> \o p IN Append(s, Sum(s))
Ubx(p)     == LET s == <<1, 7, Len(p) % 8, Len(p) \div 8>> \o p IN <<5, 6>> \o s \o Sums2(s)
Sentence   == <<4, 1, 1, 2>>
Bent(s)    == [s EXCEPT ![Len(s)] = (@ + 1) % 8]
Zeros(n)   == [i \in 1..n |-> 0]
Span(s, f) == [from |-> Len(s) + 1, to |-> Len(s) + Len(f)]

Good   == {Rtcm(<< >>), Rtcm(<<3, 5>>), Ubx(<< >>), Ubx(<<4, 2>>), Sentence}
Before == {<< >>, <<0>>, <<4>>, <<4, 1, 1>>, <<3>>, <<3, 7>>, <<3, 0, 7>>, <<5>>, <<5, 6, 1, 1, 2, 0>>,
           <<3, 1, 7>>, Zeros(3), Bent(Rtcm(<<1>>)), Bent(Ubx(<<1>>))}
Amid   == {<< >>, <<4, 1>>, <<3, 0, 7>>}
Huge   == <<5, 6, 1, 1, 7, 7>> \o Zeros(66)

Two(j, f, k, g) == [bytes |-> j \o f \o k \o g, intact |-> {Span(j, f), Span(j \o f \o k, g)}]
MCStreams == {Two(j, f, k, g) : j \in Before, f \in Good, k \in Amid, g \in Good}
  \cup {Two(<< >>, Ubx(Zeros(63)), << >>, Rtcm(<<3, 5>>)), Two(Huge, Sentence, << >>, Rtcm(<<3, 5>>)), Silent}

MCSpec == PartsSpec /\ \A r \in 1..MaxRun : WF_vars(Run(r)) /\ WF_vars(Helpers(r))
=============================================================================
