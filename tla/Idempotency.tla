------------------------------ MODULE Idempotency ------------------------------
(***************************************************************************)
(* The Idempotency-Key of the operations that create                       *)
(* (src/backend/mizan/platform/api/idempotency.py).  Each request is one   *)
(* transaction at READ COMMITTED (the tenant scope of the middleware):     *)
(* expired keys are deleted, the key is looked for, the view runs, the     *)
(* response is stored under the key, which is unique.                      *)
(*                                                                         *)
(* A view inserts one row, for which the name of its request stands, or    *)
(* refuses before it has written; the stored response tells of that row.   *)
(***************************************************************************)
EXTENDS Naturals, FiniteSets

CONSTANTS
  Client,      \* requests, a client's retries among them
  Keys, Bodies,
  NoRow        \* no row at all

ASSUME IdempotencyAssumption == NoRow \notin Client

VARIABLES
  stored,   \* IdempotencyKey rows, by key
  created,  \* rows the views have inserted, and whether their key has expired since
  call      \* each request

keyVars == <<stored, created, call>>

NoKey == [body |-> NoRow, row |-> NoRow, old |-> FALSE]

\* purged: keys it has deleted; answer: the row its response tells of.
Unsent == [at |-> "unsent", key |-> NoRow, body |-> NoRow, purged |-> {}, answer |-> NoRow]

IdempotencyInit ==
  /\ stored = [k \in Keys |-> NoKey]
  /\ created = {}
  /\ call = [c \in Client |-> Unsent]

Go(c, step) == call' = [call EXCEPT ![c].at = step]
Ends(c, answer) ==
  call' = [call EXCEPT ![c].at = "answered", ![c].purged = {}, ![c].answer = answer]

Send(c) ==
  /\ call[c].at = "unsent"
  /\ \E k \in Keys, b \in Bodies :
       call' = [call EXCEPT ![c] = [at |-> "purge", key |-> k, body |-> b,
                                    purged |-> {}, answer |-> NoRow]]
  /\ UNCHANGED <<stored, created>>

\* The DELETE waits for rows that another request is deleting.
Purge(c) ==
  LET expired == {k \in Keys : stored[k].old}
  IN /\ call[c].at = "purge"
     /\ \A d \in Client \ {c} : call[d].purged \cap expired = {}
     /\ call' = [call EXCEPT ![c].at = "lookup", ![c].purged = expired]
     /\ UNCHANGED <<stored, created>>

Exists(c, k) == stored[k] # NoKey /\ k \notin call[c].purged

\* Deleted rows are gone, the others stay.
Purged(c) == [k \in Keys |-> IF k \in call[c].purged THEN NoKey ELSE stored[k]]

\* The stored response, or a conflict when the key came with another request.
Replay(c) ==
  Ends(c, IF stored[call[c].key].body = call[c].body THEN stored[call[c].key].row ELSE NoRow)

Lookup(c) ==
  /\ call[c].at = "lookup"
  /\ IF Exists(c, call[c].key)
       THEN Replay(c) /\ stored' = Purged(c)
       ELSE Go(c, "view") /\ UNCHANGED stored
  /\ UNCHANGED created

\* The view inserts its row, or refuses: the refusal is answered, and not stored.
RunView(c) ==
  /\ call[c].at = "view"
  /\ Go(c, "store")
  /\ UNCHANGED <<stored, created>>
Refuse(c) ==
  /\ call[c].at = "view"
  /\ Ends(c, NoRow)
  /\ stored' = Purged(c)
  /\ UNCHANGED created

\* Mutant: the key is not unique.
UniqueNever(c) == TRUE

\* The unique key of the table: the insert waits for a request that is inserting or deleting it,
\* and fails when it is there.
Unique(c) ==
  LET k == call[c].key
  IN /\ ~Exists(c, k)
     /\ \A d \in Client \ {c} :
          ~(call[d].at = "commit" /\ call[d].key = k) /\ k \notin call[d].purged

Store(c) ==
  /\ call[c].at = "store" /\ Unique(c)
  /\ Go(c, "commit")
  /\ UNCHANGED <<stored, created>>

Commit(c) ==
  LET k == call[c].key
  IN /\ call[c].at = "commit"
     /\ stored' = [Purged(c) EXCEPT ![k] = [body |-> call[c].body, row |-> c, old |-> FALSE]]
     /\ created' = created \cup {[by |-> c, key |-> k, body |-> call[c].body, past |-> FALSE]}
     /\ Ends(c, c)

\* An IntegrityError, a deadlock or a crash: the row, the key and the deletions are undone.
RollBack(c) ==
  /\ call[c].at \in {"purge", "lookup", "view", "store", "commit"}
  /\ Ends(c, NoRow)
  /\ UNCHANGED <<stored, created>>

\* 24 hours after the key was stored.
Expire(k) ==
  /\ stored[k] # NoKey /\ ~stored[k].old
  /\ stored' = [stored EXCEPT ![k].old = TRUE]
  /\ created' = {IF e.key = k THEN [e EXCEPT !.past = TRUE] ELSE e : e \in created}
  /\ UNCHANGED call

\* No further request need come.
NoMore == (\A c \in Client : call[c].at \in {"unsent", "answered"}) /\ UNCHANGED keyVars

IdempotencyNext ==
  \/ \E c \in Client : \/ Send(c) \/ Purge(c) \/ Lookup(c) \/ RunView(c) \/ Refuse(c)
                       \/ Store(c) \/ Commit(c) \/ RollBack(c)
  \/ \E k \in Keys : Expire(k)
  \/ NoMore

IdempotencySpec == IdempotencyInit /\ [][IdempotencyNext]_keyVars

-----------------------------------------------------------------------------
\* However requests with one key overlap, fail and are tried again, they create one row within
\* 24 hours; and each that succeeds is told of a row that a request like it created.
CreatedOnce ==
  /\ \A e, f \in created : e.key = f.key /\ ~e.past /\ ~f.past => e = f
  /\ \A c \in Client : call[c].answer # NoRow =>
       \E e \in created : /\ e.by = call[c].answer
                          /\ e.key = call[c].key /\ e.body = call[c].body
=============================================================================
