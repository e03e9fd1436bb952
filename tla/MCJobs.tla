------------------------------- MODULE MCJobs -------------------------------
(* Three ways to ask three times: a visitor for two conversions,             *)
(* an administrator twice beside a visitor, and three visitors.              *)
EXTENDS Jobs

CONSTANTS ad, v1, v2, v3, k1, k2, r1, r2, r3

MCAsk ==
  LET Of(who, what) == [owner |-> who, conv |-> what]
      Three(a, b, c) == [r \in Requests |-> IF r = r1 THEN a ELSE IF r = r2 THEN b ELSE c]
  IN  {Three(Of(v1, k1), Of(v1, k2), Of(v1, k1)), Three(Of(ad, k1), Of(ad, k1), Of(v1, k1)),
       Three(Of(v1, k1), Of(v2, k1), Of(v3, k1))}

MCInit == JobsInit /\ ask \in MCAsk
MCSpec == MCInit /\ [][JobsNext]_jobsVars /\ Fairness
=============================================================================
