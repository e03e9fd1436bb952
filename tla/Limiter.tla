-------------------------------- MODULE Limiter --------------------------------
(***************************************************************************)
(* The limiter of sign-ins (internal/web/access.go): a bucket of tokens    *)
(* for each address, in a table of a bounded size that is swept from time  *)
(* to time; a sign-in that succeeds gives its token back.                  *)
(***************************************************************************)
EXTENDS Naturals, FiniteSets, FiniteSetsExt, Functions

CONSTANTS
  Keys,     \* addresses
  Burst,    \* the tokens of a full bucket
  Cost,     \* the tokens of an attempt
  Rate,     \* the tokens that come in a unit of time
  MaxLen,   \* buckets in the table
  Late,     \* bound: the clock
  MaxTries  \* bound: attempts granted to an address, in the time it is watched

VARIABLES
  now,
  keys,     \* the table: of some addresses [tokens, at]
  swept,    \* when it was swept last
  trying,   \* the attempts of each address whose password is being checked
  since,    \* from when on what is granted is counted,
  granted,  \* the attempts granted to each address since,
  returned  \* and those of them, and of earlier ones, that were refunded

vars == <<now, keys, swept, trying, since, granted, returned>>

TypeOK ==
  /\ now \in 0..Late /\ swept \in 0..now /\ since \in 0..now
  /\ DOMAIN keys \subseteq Keys /\ Cardinality(DOMAIN keys) <= MaxLen
  /\ \A k \in DOMAIN keys : keys[k] \in [tokens : 0..Burst, at : 0..now]
  /\ \A k \in Keys : trying[k] \in Nat /\ granted[k] \in Nat /\ returned[k] \in Nat

Init ==
  /\ now = 0 /\ keys = << >> /\ swept = 0 /\ since = 0
  /\ trying = [k \in Keys |-> 0] /\ granted = trying /\ returned = trying

\* what a bucket of the table holds by now
Tokens(k) == Min({Burst, keys[k].tokens + Rate * (now - keys[k].at)})

\* mutant: whoever was idle for long is forgotten
IdleOnly == {k \in DOMAIN keys : now > keys[k].at}

\* sweep, at most once in Minute: a bucket that is full, and was not used for
\* as long as it takes to fill one
Minute == 1
Idle == {k \in DOMAIN keys : Tokens(k) >= Burst /\ now - keys[k].at > Burst \div Rate}

Kept == IF now - swept < Minute THEN keys ELSE Restrict(keys, DOMAIN keys \ Idle)
Swept == IF now - swept < Minute THEN swept ELSE now

(***************************************************************************)
(* allow and refund                                                        *)
(***************************************************************************)
\* an address that is not in the table gets a full bucket, if there is room
Held(k) == IF k \in DOMAIN Kept THEN Tokens(k) ELSE Burst
Room(k) == k \in DOMAIN Kept \/ Cardinality(DOMAIN Kept) < MaxLen

Put(k, tokens) == keys' = [j \in DOMAIN Kept \cup {k} |->
                             IF j = k THEN [tokens |-> tokens, at |-> now] ELSE Kept[j]]

Allow(k) ==
  /\ granted[k] < MaxTries /\ Room(k) /\ Held(k) >= Cost
  /\ Put(k, Held(k) - Cost) /\ swept' = Swept
  /\ granted' = [granted EXCEPT ![k] = @ + 1] /\ trying' = [trying EXCEPT ![k] = @ + 1]
  /\ UNCHANGED <<now, since, returned>>

Refuse(k) ==
  /\ IF Room(k) THEN Held(k) < Cost /\ Put(k, Held(k)) ELSE keys' = Kept
  /\ swept' = Swept /\ UNCHANGED <<now, since, granted, returned, trying>>

\* the password was wrong
Wrong(k) ==
  /\ trying[k] > 0 /\ trying' = [trying EXCEPT ![k] = @ - 1]
  /\ UNCHANGED <<now, keys, swept, since, granted, returned>>

\* it was right: the token is put back, if there still is a bucket
Refund(k) ==
  /\ trying[k] > 0 /\ trying' = [trying EXCEPT ![k] = @ - 1]
  /\ keys' = IF k \in DOMAIN keys
             THEN [keys EXCEPT ![k].tokens = Min({Burst, @ + Cost})] ELSE keys
  /\ returned' = [returned EXCEPT ![k] = @ + 1]
  /\ UNCHANGED <<now, swept, since, granted>>

(***************************************************************************)
(* Time; the count may begin anew at any moment                            *)
(***************************************************************************)
Tick == now < Late /\ now' = now + 1 /\ UNCHANGED <<keys, swept, trying, since, granted, returned>>

Watch ==
  /\ since = 0 /\ now > 0 /\ since' = now
  /\ granted' = [k \in Keys |-> 0] /\ returned' = granted'
  /\ UNCHANGED <<now, keys, swept, trying>>

Next == \/ \E k \in Keys : Allow(k) \/ Refuse(k) \/ Wrong(k) \/ Refund(k)
        \/ Tick \/ Watch

Spec == Init /\ [][Next]_vars

(***************************************************************************)
(* Properties                                                              *)
(***************************************************************************)
\* Whatever is swept, forgotten, refunded or crowded out of the table: in any
\* stretch of time an address is granted no more than a full bucket, what flows
\* in, and what it was given back.
LimitHolds ==
  \A k \in Keys : Cost * granted[k] <= Burst + Rate * (now - since) + Cost * returned[k]
=============================================================================
