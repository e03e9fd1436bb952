----------------------------- MODULE Admission -----------------------------
(***************************************************************************)
(* Admission of rovers (internal/caster/caster.go handleGet) against the   *)
(* accounts and the connection rows of the store (internal/store), while   *)
(* an administrator creates, edits and deletes accounts and the daemon is  *)
(* restarted.                                                              *)
(*                                                                         *)
(* A request works on the copy of the account that Authenticate read;      *)
(* counting the open rows and inserting the new one hold admissionMu.      *)
(* Every statement is atomic: the store has one database connection.       *)
(***************************************************************************)
EXTENDS Integers, FiniteSets

CONSTANTS
  Conns,        \* connections made to the caster
  MaxId,        \* bound: largest account id
  MaxLimit,     \* bound: largest connection limit
  MaxAccounts   \* bound: accounts ever created

ASSUME AdmissionAssumption ==
  /\ IsFiniteSet(Conns) /\ 0 \notin Conns
  /\ MaxId \in Nat /\ MaxLimit \in Nat /\ MaxAccounts \in Nat

VARIABLES
  up,       \* the daemon runs
  created,  \* accounts created so far: they are numbered in this order
  acct,     \* users: id -> the number of the account, 0 if there is no such row
  limit,    \* users.connection_limit
  pc,       \* request: new, authed, checked, locked, counted, streaming, over
  snap,     \* the account a request authenticated as: id, number and limit then
  mu,       \* holder of admissionMu, 0 if free
  row,      \* connections: none, open (ended_at IS NULL), ended
  uid,      \* connections.user_id, 0 for NULL
  faulted,  \* an accounting write failed since the rows were last cleaned up
  hi        \* history: the highest limit an account of this id ever had

vars == <<up, created, acct, limit, pc, snap, mu, row, uid, faulted, hi>>
users == <<created, acct, limit, hi>>
rows  == <<row, uid, faulted>>

Ids    == 1..MaxId
Limits == 1..MaxLimit
Taken  == {i \in Ids : acct[i] # 0}

TypeOK ==
  /\ up \in BOOLEAN /\ faulted \in BOOLEAN /\ created \in 0..MaxAccounts
  /\ acct \in [Ids -> 0..MaxAccounts]
  /\ limit \in [Ids -> 0..MaxLimit] /\ hi \in [Ids -> 0..MaxLimit]
  /\ \A i \in Taken : limit[i] > 0
  /\ pc \in [Conns -> {"new", "authed", "checked", "locked", "counted", "streaming", "over"}]
  /\ snap \in [Conns -> [id : 0..MaxId, acct : 0..MaxAccounts, limit : 0..MaxLimit]]
  /\ mu \in Conns \cup {0}
  /\ row \in [Conns -> {"none", "open", "ended"}] /\ uid \in [Conns -> 0..MaxId]

Init ==
  /\ up = TRUE /\ faulted = FALSE /\ created = 0
  /\ acct = [i \in Ids |-> 0] /\ limit = acct /\ hi = acct
  /\ pc = [c \in Conns |-> "new"]
  /\ snap = [c \in Conns |-> [id |-> 0, acct |-> 0, limit |-> 0]]
  /\ mu = 0 /\ row = [c \in Conns |-> "none"] /\ uid = [c \in Conns |-> 0]

-----------------------------------------------------------------------------
(***************************************************************************)
(* A request                                                               *)
(***************************************************************************)
Go(c, at) == pc' = [pc EXCEPT ![c] = at]

\* ActiveConnectionsForUser: rows of this id that are still open
Open(i) == {c \in Conns : row[c] = "open" /\ uid[c] = i}

\* Authenticate reads the account once; bad credentials end the request
Authenticate(c) ==
  /\ up /\ pc[c] = "new"
  /\ \/ Go(c, "over") /\ UNCHANGED snap
     \/ \E i \in Taken :
          /\ Go(c, "authed")
          /\ snap' = [snap EXCEPT ![c] = [id |-> i, acct |-> acct[i], limit |-> limit[i]]]
  /\ UNCHANGED <<up, users, mu, rows>>

\* checkUserAccess: the account must still have a row under its id, and its
\* enabled flag, expiry and allowlists may refuse
CheckAccess(c) ==
  /\ up /\ pc[c] = "authed"
  /\ \/ Go(c, "over")
     \/ snap[c].id \in Taken /\ Go(c, "checked")
  /\ UNCHANGED <<up, users, snap, mu, rows>>

\* mutant: limit check and accounting without admissionMu
LockNot(c) ==
  /\ up /\ pc[c] = "checked" /\ Go(c, "locked")
  /\ UNCHANGED <<up, users, snap, mu, rows>>

Lock(c) ==
  /\ up /\ pc[c] = "checked" /\ mu = 0
  /\ mu' = c /\ Go(c, "locked")
  /\ UNCHANGED <<up, users, snap, rows>>

\* mutant: the refusals return with admissionMu held
CountLocked(c) ==
  /\ up /\ pc[c] = "locked"
  /\ \/ Go(c, "over")
     \/ Cardinality(Open(snap[c].id)) < snap[c].limit /\ Go(c, "counted")
  /\ UNCHANGED <<up, users, snap, mu, rows>>

\* the query fails, the limit is reached, or there is a place
Count(c) ==
  /\ up /\ pc[c] = "locked"
  /\ \/ Go(c, "over") /\ mu' = 0
     \/ Cardinality(Open(snap[c].id)) < snap[c].limit /\ Go(c, "counted") /\ UNCHANGED mu
  /\ UNCHANGED <<up, users, snap, rows>>

\* ConnStart: the insert fails, surely when no account has the id (foreign key),
\* or the connection streams
Start(c) ==
  /\ up /\ pc[c] = "counted" /\ mu' = 0
  /\ \/ Go(c, "over") /\ UNCHANGED <<row, uid>>
     \/ /\ snap[c].id \in Taken /\ Go(c, "streaming")
        /\ row' = [row EXCEPT ![c] = "open"] /\ uid' = [uid EXCEPT ![c] = snap[c].id]
  /\ UNCHANGED <<up, users, snap, faulted>>

\* the stream ended: ConnEnd closes the row, or fails and is only logged
End(c) ==
  /\ up /\ pc[c] = "streaming" /\ Go(c, "over")
  /\ \/ row' = [row EXCEPT ![c] = "ended"] /\ UNCHANGED faulted
     \/ faulted' = TRUE /\ UNCHANGED row
  /\ UNCHANGED <<up, users, snap, mu, uid>>

-----------------------------------------------------------------------------
(***************************************************************************)
(* The administrator                                                       *)
(***************************************************************************)
\* INTEGER PRIMARY KEY without AUTOINCREMENT: one more than the largest id in use
NewId == CHOOSE i \in 1..(MaxId + 1) :
           (\A j \in Taken : j < i) /\ (i = 1 \/ i - 1 \in Taken)

Raise(i, l) ==
  /\ limit' = [limit EXCEPT ![i] = l]
  /\ hi' = [hi EXCEPT ![i] = IF l > @ THEN l ELSE @]

CreateUser(l) ==
  /\ up /\ created < MaxAccounts /\ NewId \in Ids
  /\ created' = created + 1
  /\ acct' = [acct EXCEPT ![NewId] = created'] /\ Raise(NewId, l)
  /\ UNCHANGED <<up, pc, snap, mu, rows>>

\* mutant: a limit of zero is accepted
UpdateUserAny(i, l) ==
  /\ up /\ i \in Taken /\ Raise(i, l - 1)
  /\ UNCHANGED <<up, created, acct, pc, snap, mu, rows>>

UpdateUser(i, l) ==
  /\ up /\ i \in Taken /\ Raise(i, l)
  /\ UNCHANGED <<up, created, acct, pc, snap, mu, rows>>

\* ON DELETE SET NULL; the account's streams go on
DeleteUser(i) ==
  /\ up /\ i \in Taken
  /\ acct' = [acct EXCEPT ![i] = 0]
  /\ uid' = [c \in Conns |-> IF uid[c] = i THEN 0 ELSE uid[c]]
  /\ UNCHANGED <<up, created, limit, hi, pc, snap, mu, row, faulted>>

-----------------------------------------------------------------------------
(***************************************************************************)
(* The daemon                                                              *)
(***************************************************************************)
\* killed or stopped: requests and streams end, their rows stay open
Crash ==
  /\ up /\ up' = FALSE /\ mu' = 0
  /\ pc' = [c \in Conns |-> IF pc[c] = "new" THEN "new" ELSE "over"]
  /\ UNCHANGED <<users, snap, rows>>

\* mutant: the daemon starts without cleaning up
RestartDirty ==
  /\ ~up /\ up' = TRUE
  /\ UNCHANGED <<users, pc, snap, mu, rows>>

\* main: CloseStaleConnections; its error is ignored
Restart ==
  /\ ~up /\ up' = TRUE
  /\ \/ /\ row' = [c \in Conns |-> IF row[c] = "open" THEN "ended" ELSE row[c]]
        /\ faulted' = FALSE
     \/ faulted' = TRUE /\ UNCHANGED row
  /\ UNCHANGED <<users, pc, snap, mu, uid>>

-----------------------------------------------------------------------------
Request(c) == Authenticate(c) \/ CheckAccess(c) \/ Lock(c) \/ Count(c) \/ Start(c) \/ End(c)

Next ==
  \/ \E c \in Conns : Request(c)
  \/ \E l \in Limits : CreateUser(l)
  \/ \E i \in Ids : DeleteUser(i) \/ \E l \in Limits : UpdateUser(i, l)
  \/ Crash \/ Restart

Spec == Init /\ [][Next]_vars

\* Handlers run, and a Go mutex hands over to its longest waiter: no request
\* waits for it forever while it is released again and again.
FairSpec ==
  Spec /\ \A c \in Conns : /\ WF_vars(CheckAccess(c) \/ Count(c) \/ Start(c))
                           /\ SF_vars(Lock(c))

-----------------------------------------------------------------------------
(***************************************************************************)
(* Properties                                                              *)
(***************************************************************************)
\* However requests, edits, deletions and re-created accounts interleave, an
\* account id never has more open connections than the highest limit it had: a
\* stale copy of the limit admits no one beyond it.
LimitHolds == \A i \in Ids : Cardinality(Open(i)) <= hi[i]

\* Unless an accounting write failed since the last clean start, the open rows
\* are exactly the streams: no ghost takes a place under a limit, and no stream
\* goes uncounted.
RowsAreStreams ==
  up /\ ~faulted => \A c \in Conns : row[c] = "open" <=> pc[c] = "streaming"

\* Every request of a known rover is answered, whatever others are refused.
RequestsAnswered ==
  \A c \in Conns : pc[c] = "authed" ~> pc[c] \in {"streaming", "over"}

\* "This avoids a newly created account inheriting still-open sessions from a
\* deleted account": an open row counts for the account it was opened by.  Ids
\* are used again, and a request may authenticate before the deletion and
\* insert its row after the re-creation.
NoInheritedSessions ==
  \A c \in Conns : row[c] = "open" /\ uid[c] \in Taken => acct[uid[c]] = snap[c].acct
=============================================================================
