---------------------------- MODULE IdempotencyProofs ----------------------------
(***************************************************************************)
(* CreatedOnce for any number of requests, keys and bodies.  The inductive *)
(* invariant says who may touch a key: an expired one belongs to the       *)
(* request that is deleting it, and one about to be stored to the request  *)
(* that commits it.                                                        *)
(***************************************************************************)
EXTENDS Idempotency, TLAPS

Running == {"purge", "lookup", "view", "store", "commit"}

KeyTypeOK ==
  /\ stored \in [Keys -> [body : Bodies \cup {NoRow}, row : Client \cup {NoRow}, old : BOOLEAN]]
  /\ created \subseteq [by : Client, key : Keys, body : Bodies, past : BOOLEAN]
  /\ call \in [Client -> [at : {"unsent", "answered"} \cup Running,
                          key : Keys \cup {NoRow}, body : Bodies \cup {NoRow},
                          purged : SUBSET Keys, answer : Client \cup {NoRow}]]
  /\ \A c \in Client : call[c].at \in Running => call[c].key \in Keys /\ call[c].body \in Bodies

\* A key that is being deleted has expired, and one request deletes it.
PurgedInv ==
  /\ \A c \in Client : \A k \in call[c].purged : stored[k].old
  /\ \A c, d \in Client : c # d => call[c].purged \cap call[d].purged = {}

\* A key that is about to be stored is not there, or goes with the same commit, and no other
\* request is about to store it.
CommitInv ==
  \A c \in Client : call[c].at = "commit" =>
    /\ ~Exists(c, call[c].key)
    /\ \A d \in Client \ {c} : call[d].at = "commit" => call[d].key # call[c].key

\* What was created under a key within its time is what the key tells of.
RowInv ==
  \A e \in created : ~e.past => stored[e.key] = [body |-> e.body, row |-> e.by, old |-> FALSE]

\* What a key tells of, and what a request has been told, was created for a request like it.
Told(row, key, body) == \E e \in created : e.by = row /\ e.key = key /\ e.body = body

StoredInv == \A k \in Keys : stored[k] # NoKey => Told(stored[k].row, k, stored[k].body)
AnswerInv ==
  \A c \in Client : call[c].answer # NoRow => Told(call[c].answer, call[c].key, call[c].body)

IInv ==
  /\ KeyTypeOK
  /\ PurgedInv
  /\ CommitInv
  /\ RowInv
  /\ StoredInv
  /\ AnswerInv

-----------------------------------------------------------------------------
LEMMA InitHolds == IdempotencyInit => IInv
  BY DEF IdempotencyInit, IInv, KeyTypeOK, PurgedInv, CommitInv, RowInv, StoredInv, AnswerInv,
         Told, Unsent, NoKey, Running

\* The invariant gives the property: two rows within the time of one key are what the key
\* tells of, so they are one.
LEMMA InvImpliesCreatedOnce == IInv => CreatedOnce
<1> SUFFICES ASSUME IInv PROVE CreatedOnce
  OBVIOUS
<1>1. ASSUME NEW e \in created, NEW f \in created, e.key = f.key, ~e.past, ~f.past
      PROVE  e = f
  <2>1. /\ stored[e.key] = [body |-> e.body, row |-> e.by, old |-> FALSE]
        /\ stored[e.key] = [body |-> f.body, row |-> f.by, old |-> FALSE]
    BY <1>1 DEF IInv, RowInv
  <2>2. /\ e \in [by : Client, key : Keys, body : Bodies, past : BOOLEAN]
        /\ f \in [by : Client, key : Keys, body : Bodies, past : BOOLEAN]
    BY DEF IInv, KeyTypeOK
  <2>3. e.body = f.body /\ e.by = f.by
    BY <2>1
  <2> QED BY <1>1, <2>2, <2>3
<1>2. ASSUME NEW c \in Client, call[c].answer # NoRow
      PROVE  \E e \in created : /\ e.by = call[c].answer
                                /\ e.key = call[c].key /\ e.body = call[c].body
  BY <1>2 DEF IInv, AnswerInv, Told
<1> QED BY <1>1, <1>2 DEF CreatedOnce

\* What is left when a request that deletes keys commits: the rest, untouched.
LEMMA PurgedKeys ==
  ASSUME IInv, NEW c \in Client
  PROVE  /\ Purged(c) \in [Keys -> [body : Bodies \cup {NoRow}, row : Client \cup {NoRow},
                                    old : BOOLEAN]]
         /\ \A k \in call[c].purged : Purged(c)[k] = NoKey
         /\ \A k \in Keys \ call[c].purged : Purged(c)[k] = stored[k]
  BY DEF IInv, KeyTypeOK, Purged, NoKey

\* A commit that creates nothing keeps what is said of the keys.
LEMMA PurgeCommits ==
  ASSUME IInv, NEW c \in Client, NEW answer \in Client \cup {NoRow},
         answer # NoRow => Told(answer, call[c].key, call[c].body),
         Ends(c, answer), stored' = Purged(c), created' = created
  PROVE  IInv'
<1>1. /\ call' \in [Client -> [at : {"unsent", "answered"} \cup Running,
                          key : Keys \cup {NoRow}, body : Bodies \cup {NoRow},
                          purged : SUBSET Keys, answer : Client \cup {NoRow}]]
      /\ call'[c].at = "answered" /\ call'[c].purged = {} /\ call'[c].answer = answer
      /\ call'[c].key = call[c].key /\ call'[c].body = call[c].body
      /\ \A d \in Client \ {c} : call'[d] = call[d]
  BY DEF IInv, KeyTypeOK, Ends
<1>a. /\ stored' \in [Keys -> [body : Bodies \cup {NoRow}, row : Client \cup {NoRow},
                               old : BOOLEAN]]
      /\ \A k \in call[c].purged : stored'[k] = NoKey
      /\ \A k \in Keys \ call[c].purged : stored'[k] = stored[k]
      /\ \A d \in Client : call[d].purged \subseteq Keys
  BY PurgedKeys DEF IInv, KeyTypeOK
<1>2. KeyTypeOK'
  BY <1>1, <1>a DEF IInv, KeyTypeOK, Running
<1>3. PurgedInv'
  <2>1. \A d \in Client \ {c} : \A k \in call[d].purged : stored'[k] = stored[k]
    BY <1>a DEF IInv, PurgedInv
  <2> QED BY <1>1, <2>1 DEF IInv, PurgedInv
<1>4. CommitInv'
  <2> SUFFICES ASSUME NEW d \in Client, call'[d].at = "commit"
               PROVE  /\ ~(stored'[call'[d].key] # NoKey /\ call'[d].key \notin call'[d].purged)
                      /\ \A b \in Client \ {d} : call'[b].at = "commit" =>
                           call'[b].key # call'[d].key
    BY DEF CommitInv, Exists, NoKey
  <2>1. d # c /\ call'[d] = call[d] /\ call[d].key \in Keys
    BY <1>1 DEF IInv, KeyTypeOK, Running
  <2>2. ~(stored[call[d].key] # NoKey /\ call[d].key \notin call[d].purged)
    BY <2>1 DEF IInv, CommitInv, Exists
  <2>3. ~(stored'[call'[d].key] # NoKey /\ call'[d].key \notin call'[d].purged)
    <3>1. CASE call[d].key \in call[c].purged
      BY <3>1, <2>1, <1>a
    <3>2. CASE call[d].key \notin call[c].purged
      BY <3>2, <2>1, <2>2, <1>a
    <3> QED BY <3>1, <3>2
  <2>4. \A b \in Client \ {d} : call'[b].at = "commit" => call'[b].key # call'[d].key
    BY <2>1, <1>1 DEF IInv, CommitInv
  <2> QED BY <2>3, <2>4
<1>5. RowInv'
  <2>1. \A e \in created : ~e.past => e.key \in Keys \ call[c].purged
    <3> SUFFICES ASSUME NEW e \in created, ~e.past
                 PROVE  e.key \in Keys /\ e.key \notin call[c].purged
      OBVIOUS
    <3>1. e.key \in Keys
      BY DEF IInv, KeyTypeOK
    <3>2. stored[e.key] = [body |-> e.body, row |-> e.by, old |-> FALSE]
      BY DEF IInv, RowInv
    <3>3. ~stored[e.key].old
      BY <3>2
    <3> QED BY <3>1, <3>3 DEF IInv, PurgedInv
  <2> QED BY <1>a, <2>1 DEF IInv, RowInv
<1>6. StoredInv'
  <2> SUFFICES ASSUME NEW k \in Keys, stored'[k] # NoKey
               PROVE  \E e \in created : /\ e.by = stored'[k].row /\ e.key = k
                                         /\ e.body = stored'[k].body
    BY DEF StoredInv, Told, NoKey
  <2>1. stored'[k] = stored[k]
    BY <1>a
  <2> QED BY <2>1 DEF IInv, StoredInv, Told
<1>7. AnswerInv'
  BY <1>1 DEF IInv, AnswerInv, Told
<1> QED BY <1>2, <1>3, <1>4, <1>5, <1>6, <1>7 DEF IInv

\* A step of a request within its transaction changes its phase, and keeps what is said of it.
LEMMA PhaseChanges ==
  ASSUME IInv, NEW c \in Client, NEW step \in Running \ {"commit"}, call[c].at \in Running,
         Go(c, step), UNCHANGED <<stored, created>>
  PROVE  IInv'
<1>1. /\ call'[c].at = step /\ call'[c].purged = call[c].purged
      /\ call'[c].answer = call[c].answer
      /\ call'[c].key = call[c].key /\ call'[c].body = call[c].body
      /\ \A d \in Client \ {c} : call'[d] = call[d]
  BY DEF IInv, KeyTypeOK, Go
<1>2. KeyTypeOK'
  BY DEF IInv, KeyTypeOK, Go, Running
<1>3. PurgedInv'
  BY <1>1 DEF IInv, PurgedInv
<1>4. CommitInv'
  BY <1>1 DEF IInv, CommitInv, Exists, Running
<1>5. RowInv' /\ StoredInv'
  BY DEF IInv, RowInv, StoredInv, Told
<1>6. AnswerInv'
  BY <1>1 DEF IInv, AnswerInv, Told
<1> QED BY <1>2, <1>3, <1>4, <1>5, <1>6 DEF IInv

-----------------------------------------------------------------------------
LEMMA SendKeeps ==
  ASSUME IInv, NEW c \in Client, Send(c)
  PROVE  IInv'
<1> PICK k \in Keys, b \in Bodies :
      call' = [call EXCEPT ![c] = [at |-> "purge", key |-> k, body |-> b,
                                   purged |-> {}, answer |-> NoRow]]
  BY DEF Send
<1> DEFINE sent == [at |-> "purge", key |-> k, body |-> b, purged |-> {}, answer |-> NoRow]
<1>b. sent \in [at : {"unsent", "answered"} \cup Running,
                key : Keys \cup {NoRow}, body : Bodies \cup {NoRow},
                purged : SUBSET Keys, answer : Client \cup {NoRow}]
  BY DEF Running
<1>1. /\ call' \in [Client -> [at : {"unsent", "answered"} \cup Running,
                          key : Keys \cup {NoRow}, body : Bodies \cup {NoRow},
                          purged : SUBSET Keys, answer : Client \cup {NoRow}]]
      /\ call'[c].at = "purge" /\ call'[c].purged = {} /\ call'[c].answer = NoRow
      /\ call'[c].key \in Keys /\ call'[c].body \in Bodies
      /\ \A d \in Client \ {c} : call'[d] = call[d]
  BY <1>b DEF IInv, KeyTypeOK
<1>2. stored' = stored /\ created' = created
  BY DEF Send
<1>3. KeyTypeOK'
  BY <1>1, <1>2 DEF IInv, KeyTypeOK
<1>4. PurgedInv'
  BY <1>1, <1>2 DEF IInv, PurgedInv
<1>5. CommitInv'
  BY <1>1, <1>2 DEF IInv, CommitInv, Exists
<1>6. RowInv' /\ StoredInv'
  BY <1>2 DEF IInv, RowInv, StoredInv, Told
<1>7. AnswerInv'
  BY <1>1, <1>2 DEF IInv, AnswerInv, Told
<1> QED BY <1>3, <1>4, <1>5, <1>6, <1>7 DEF IInv

LEMMA PurgeKeeps ==
  ASSUME IInv, NEW c \in Client, Purge(c)
  PROVE  IInv'
<1> DEFINE expired == {k \in Keys : stored[k].old}
<1>1. /\ call' \in [Client -> [at : {"unsent", "answered"} \cup Running,
                          key : Keys \cup {NoRow}, body : Bodies \cup {NoRow},
                          purged : SUBSET Keys, answer : Client \cup {NoRow}]]
      /\ call'[c].at = "lookup" /\ call'[c].purged = expired
      /\ call'[c].answer = call[c].answer
      /\ call'[c].key = call[c].key /\ call'[c].body = call[c].body
      /\ \A d \in Client \ {c} : call'[d] = call[d] /\ call[d].purged \cap expired = {}
      /\ call[c].at = "purge"
  BY DEF IInv, KeyTypeOK, Purge, Running
<1>2. stored' = stored /\ created' = created
  BY DEF Purge
<1>3. KeyTypeOK'
  BY <1>1, <1>2 DEF IInv, KeyTypeOK, Running
<1>4. PurgedInv'
  BY <1>1, <1>2 DEF IInv, PurgedInv
<1>5. CommitInv'
  BY <1>1, <1>2 DEF IInv, CommitInv, Exists
<1>6. RowInv' /\ StoredInv'
  BY <1>2 DEF IInv, RowInv, StoredInv, Told
<1>7. AnswerInv'
  BY <1>1, <1>2 DEF IInv, AnswerInv, Told
<1> QED BY <1>3, <1>4, <1>5, <1>6, <1>7 DEF IInv

LEMMA LookupKeeps ==
  ASSUME IInv, NEW c \in Client, Lookup(c)
  PROVE  IInv'
<1>1. CASE Exists(c, call[c].key)
  <2> DEFINE k == call[c].key
             answer == IF stored[k].body = call[c].body THEN stored[k].row ELSE NoRow
  <2>1. k \in Keys /\ stored[k] # NoKey
    BY <1>1 DEF Lookup, Exists, IInv, KeyTypeOK, Running
  <2>2. answer \in Client \cup {NoRow}
    BY <2>1 DEF IInv, KeyTypeOK
  <2>3. answer # NoRow => Told(answer, k, call[c].body)
    BY <2>1 DEF IInv, StoredInv
  <2>4. Ends(c, answer) /\ stored' = Purged(c) /\ created' = created
    BY <1>1 DEF Lookup, Replay
  <2> HIDE DEF answer
  <2> QED BY <2>2, <2>3, <2>4, PurgeCommits
<1>2. CASE ~Exists(c, call[c].key)
  BY <1>2, PhaseChanges DEF Lookup, Running
<1> QED BY <1>1, <1>2

\* The insert of the key: from here on no other request can store or delete it.
LEMMA StoreKeeps ==
  ASSUME IInv, NEW c \in Client, Store(c)
  PROVE  IInv'
<1>1. /\ call'[c].at = "commit" /\ call'[c].purged = call[c].purged
      /\ call'[c].answer = call[c].answer
      /\ call'[c].key = call[c].key /\ call'[c].body = call[c].body
      /\ \A d \in Client \ {c} : call'[d] = call[d]
      /\ stored' = stored /\ created' = created
      /\ call[c].at = "store" /\ Unique(c)
  BY DEF IInv, KeyTypeOK, Store, Go
<1>2. KeyTypeOK'
  BY <1>1 DEF IInv, KeyTypeOK, Store, Go, Running
<1>3. PurgedInv'
  BY <1>1 DEF IInv, PurgedInv
<1>4. CommitInv'
  BY <1>1 DEF IInv, CommitInv, Exists, Unique
<1>5. RowInv' /\ StoredInv'
  BY <1>1 DEF IInv, RowInv, StoredInv, Told
<1>6. AnswerInv'
  BY <1>1 DEF IInv, AnswerInv, Told
<1> QED BY <1>2, <1>3, <1>4, <1>5, <1>6 DEF IInv

LEMMA CommitKeeps ==
  ASSUME IInv, NEW c \in Client, Commit(c)
  PROVE  IInv'
<1> DEFINE k == call[c].key
           entry == [body |-> call[c].body, row |-> c, old |-> FALSE]
           new == [by |-> c, key |-> k, body |-> call[c].body, past |-> FALSE]
<1>1. /\ k \in Keys /\ call[c].body \in Bodies /\ call[c].at = "commit"
      /\ entry # NoKey
  BY IdempotencyAssumption DEF Commit, IInv, KeyTypeOK, Running, NoKey
<1>2. /\ call' \in [Client -> [at : {"unsent", "answered"} \cup Running,
                          key : Keys \cup {NoRow}, body : Bodies \cup {NoRow},
                          purged : SUBSET Keys, answer : Client \cup {NoRow}]]
      /\ call'[c].at = "answered" /\ call'[c].purged = {} /\ call'[c].answer = c
      /\ call'[c].key = k /\ call'[c].body = call[c].body
      /\ \A d \in Client \ {c} : call'[d] = call[d]
  BY DEF IInv, KeyTypeOK, Commit, Ends
<1>3. /\ stored'[k] = entry
      /\ \A j \in call[c].purged \ {k} : stored'[j] = NoKey
      /\ \A j \in Keys \ (call[c].purged \cup {k}) : stored'[j] = stored[j]
      /\ stored' \in [Keys -> [body : Bodies \cup {NoRow}, row : Client \cup {NoRow},
                               old : BOOLEAN]]
  <2>1. stored' = [Purged(c) EXCEPT ![k] = entry]
    BY DEF Commit
  <2>2. entry \in [body : Bodies \cup {NoRow}, row : Client \cup {NoRow}, old : BOOLEAN]
    BY <1>1
  <2>3. call[c].purged \subseteq Keys
    BY DEF IInv, KeyTypeOK
  <2> HIDE DEF entry
  <2> QED BY <1>1, <2>1, <2>2, <2>3, PurgedKeys
<1>4. created' = created \cup {new}
  BY DEF Commit
\* Nobody else has the key in hand, and what it told of before is past.
<1>5. \A d \in Client \ {c} : k \notin call[d].purged
  BY <1>1 DEF IInv, CommitInv, Exists, PurgedInv, NoKey
<1>6. \A e \in created : ~e.past => e.key \notin call[c].purged \cup {k}
  <2> SUFFICES ASSUME NEW e \in created, ~e.past PROVE e.key \notin call[c].purged \cup {k}
    OBVIOUS
  <2>1. /\ stored[e.key] = [body |-> e.body, row |-> e.by, old |-> FALSE]
        /\ e.by \in Client
    BY DEF IInv, RowInv, KeyTypeOK
  <2>2. ~stored[e.key].old /\ stored[e.key] # NoKey
    BY <2>1, IdempotencyAssumption DEF NoKey
  <2> QED BY <1>1, <2>2 DEF IInv, CommitInv, PurgedInv, Exists
<1>7. KeyTypeOK'
  <2>1. new \in [by : Client, key : Keys, body : Bodies, past : BOOLEAN]
    BY <1>1
  <2>2. created' \subseteq [by : Client, key : Keys, body : Bodies, past : BOOLEAN]
    BY <1>4, <2>1 DEF IInv, KeyTypeOK
  <2> QED BY <1>1, <1>2, <1>3, <2>2 DEF IInv, KeyTypeOK, Running
<1>8. PurgedInv'
  <2>1. \A d \in Client \ {c} : \A j \in call[d].purged :
          j \in Keys /\ j # k /\ j \notin call[c].purged
    BY <1>5 DEF IInv, PurgedInv, KeyTypeOK
  <2>2. \A d \in Client \ {c} : \A j \in call[d].purged : stored'[j] = stored[j]
    BY <2>1, <1>3
  <2> QED BY <1>2, <2>2 DEF IInv, PurgedInv
<1>9. CommitInv'
  <2> SUFFICES ASSUME NEW d \in Client, call'[d].at = "commit"
               PROVE  /\ ~Exists(d, call[d].key)'
                      /\ \A b \in Client \ {d} :
                            call'[b].at = "commit" => call'[b].key # call'[d].key
    BY DEF CommitInv, Exists
  <2>1. d # c /\ call'[d] = call[d] /\ call[d].key \in Keys /\ call[d].key # k
    BY <1>1, <1>2 DEF IInv, CommitInv, KeyTypeOK, Running
  <2>2. ~Exists(d, call[d].key)'
    BY <2>1, <1>3 DEF IInv, CommitInv, Exists
  <2>3. \A b \in Client \ {d} : call'[b].at = "commit" => call'[b].key # call'[d].key
    BY <2>1, <1>2 DEF IInv, CommitInv
  <2> QED BY <2>2, <2>3
<1>10. RowInv'
  <2>1. \A e \in created : ~e.past =>
          stored'[e.key] = [body |-> e.body, row |-> e.by, old |-> FALSE]
    <3>1. \A e \in created : ~e.past => stored'[e.key] = stored[e.key]
      BY <1>3, <1>6 DEF IInv, KeyTypeOK
    <3> QED BY <3>1 DEF IInv, RowInv
  <2>2. stored'[new.key] = [body |-> new.body, row |-> new.by, old |-> FALSE]
    BY <1>3
  <2> QED BY <1>4, <2>1, <2>2 DEF RowInv
<1>11. \A row, key, body : Told(row, key, body) =>
         \E e \in created' : e.by = row /\ e.key = key /\ e.body = body
  BY <1>4 DEF Told
<1>12. \E e \in created' : e.by = c /\ e.key = k /\ e.body = call[c].body
  <2>1. new \in created' /\ new.by = c /\ new.key = k /\ new.body = call[c].body
    BY <1>4
  <2> QED BY <2>1
<1> HIDE DEF k, entry, new
<1>13. StoredInv'
  <2> SUFFICES ASSUME NEW j \in Keys, stored'[j] # NoKey
               PROVE  \E e \in created' : /\ e.by = stored'[j].row /\ e.key = j
                                          /\ e.body = stored'[j].body
    BY DEF StoredInv, Told, NoKey
  <2>1. CASE j = k
    <3>1. stored'[j].row = c /\ stored'[j].body = call[c].body
      BY <2>1, <1>3 DEF entry
    <3> QED BY <2>1, <3>1, <1>12
  <2>2. CASE j # k
    <3>1. stored'[j] = stored[j] /\ stored[j] # NoKey
      BY <2>2, <1>3
    <3>2. Told(stored[j].row, j, stored[j].body)
      BY <3>1 DEF IInv, StoredInv
    <3> QED BY <3>1, <3>2, <1>11
  <2> QED BY <2>1, <2>2
<1>14. AnswerInv'
  <2> SUFFICES ASSUME NEW d \in Client, call'[d].answer # NoRow
               PROVE  \E e \in created' : /\ e.by = call'[d].answer /\ e.key = call'[d].key
                                          /\ e.body = call'[d].body
    BY DEF AnswerInv, Told
  <2>1. CASE d = c
    BY <2>1, <1>2, <1>12
  <2>2. CASE d # c
    <3>1. Told(call[d].answer, call[d].key, call[d].body)
      BY <2>2, <1>2 DEF IInv, AnswerInv
    <3> QED BY <2>2, <3>1, <1>2, <1>11
  <2> QED BY <2>1, <2>2
<1> QED BY <1>7, <1>8, <1>9, <1>10, <1>13, <1>14 DEF IInv

\* A roll-back frees what the request was deleting.
LEMMA RollBackKeeps ==
  ASSUME IInv, NEW c \in Client, RollBack(c)
  PROVE  IInv'
<1>1. /\ call' \in [Client -> [at : {"unsent", "answered"} \cup Running,
                          key : Keys \cup {NoRow}, body : Bodies \cup {NoRow},
                          purged : SUBSET Keys, answer : Client \cup {NoRow}]]
      /\ call'[c].at = "answered" /\ call'[c].purged = {} /\ call'[c].answer = NoRow
      /\ \A d \in Client \ {c} : call'[d] = call[d]
      /\ stored' = stored /\ created' = created
  <2>1. /\ call' = [call EXCEPT ![c] = [call[c] EXCEPT !.at = "answered", !.purged = {},
                                                      !.answer = NoRow]]
        /\ stored' = stored /\ created' = created
    BY DEF IInv, KeyTypeOK, RollBack, Ends
  <2>2. [call[c] EXCEPT !.at = "answered", !.purged = {}, !.answer = NoRow]
          \in [at : {"unsent", "answered"} \cup Running,
               key : Keys \cup {NoRow}, body : Bodies \cup {NoRow},
               purged : SUBSET Keys, answer : Client \cup {NoRow}]
    BY DEF IInv, KeyTypeOK
  <2> QED BY <2>1, <2>2 DEF IInv, KeyTypeOK
<1>2. KeyTypeOK'
  BY <1>1 DEF IInv, KeyTypeOK, Running
<1>3. PurgedInv'
  BY <1>1 DEF IInv, PurgedInv
<1>4. CommitInv'
  BY <1>1 DEF IInv, CommitInv, Exists
<1>5. RowInv' /\ StoredInv'
  BY <1>1 DEF IInv, RowInv, StoredInv, Told
<1>6. AnswerInv'
  BY <1>1 DEF IInv, AnswerInv, Told
<1> QED BY <1>2, <1>3, <1>4, <1>5, <1>6 DEF IInv

\* What was created under an expired key is past with it.
LEMMA ExpireKeeps ==
  ASSUME IInv, NEW k \in Keys, Expire(k)
  PROVE  IInv'
<1> DEFINE aged(e) == IF e.key = k THEN [e EXCEPT !.past = TRUE] ELSE e
<1>1. /\ stored'[k] = [stored[k] EXCEPT !.old = TRUE]
      /\ \A j \in Keys \ {k} : stored'[j] = stored[j]
      /\ stored' \in [Keys -> [body : Bodies \cup {NoRow}, row : Client \cup {NoRow},
                               old : BOOLEAN]]
      /\ stored[k] # NoKey /\ call' = call
      /\ created' = {aged(e) : e \in created}
  BY DEF Expire, IInv, KeyTypeOK
<1>2. \A e \in created : /\ aged(e) \in [by : Client, key : Keys, body : Bodies, past : BOOLEAN]
                         /\ aged(e).by = e.by /\ aged(e).key = e.key /\ aged(e).body = e.body
                         /\ aged(e).key = k => aged(e).past
                         /\ aged(e).key # k => aged(e) = e
  BY DEF IInv, KeyTypeOK
<1> HIDE DEF aged
<1>3. KeyTypeOK'
  <2>1. created' \subseteq [by : Client, key : Keys, body : Bodies, past : BOOLEAN]
    BY <1>1, <1>2
  <2> QED BY <1>1, <2>1 DEF IInv, KeyTypeOK
<1>4. /\ stored'[k].old /\ stored'[k].row = stored[k].row /\ stored'[k].body = stored[k].body
      /\ stored'[k] # NoKey
  BY <1>1 DEF IInv, KeyTypeOK, NoKey
<1>5. PurgedInv'
  BY <1>1, <1>4 DEF IInv, PurgedInv, KeyTypeOK
<1>6. CommitInv'
  BY <1>1, <1>4 DEF IInv, CommitInv, Exists, KeyTypeOK, Running
<1>7. RowInv'
  <2> SUFFICES ASSUME NEW e \in created, ~aged(e).past
               PROVE  stored'[aged(e).key] =
                        [body |-> aged(e).body, row |-> aged(e).by, old |-> FALSE]
    BY <1>1 DEF RowInv
  <2>1. aged(e) = e /\ e.key # k /\ e.key \in Keys
    BY <1>2 DEF IInv, KeyTypeOK
  <2> QED BY <2>1, <1>1 DEF IInv, RowInv
<1>8. \A row, key, body : Told(row, key, body) =>
        \E e \in created' : e.by = row /\ e.key = key /\ e.body = body
  BY <1>1, <1>2 DEF Told
<1>9. StoredInv'
  <2> SUFFICES ASSUME NEW j \in Keys, stored'[j] # NoKey
               PROVE  \E e \in created' : /\ e.by = stored'[j].row /\ e.key = j
                                          /\ e.body = stored'[j].body
    BY DEF StoredInv, Told, NoKey
  <2>1. stored[j] # NoKey /\ stored'[j].row = stored[j].row /\ stored'[j].body = stored[j].body
    BY <1>1, <1>4
  <2> QED BY <2>1, <1>8 DEF IInv, StoredInv
<1>10. AnswerInv'
  <2> SUFFICES ASSUME NEW d \in Client, call[d].answer # NoRow
               PROVE  \E e \in created' : /\ e.by = call[d].answer /\ e.key = call[d].key
                                          /\ e.body = call[d].body
    BY <1>1 DEF AnswerInv, Told
  <2> QED BY <1>8 DEF IInv, AnswerInv
<1> QED BY <1>3, <1>5, <1>6, <1>7, <1>9, <1>10 DEF IInv

LEMMA StutterKeeps == IInv /\ UNCHANGED keyVars => IInv'
  BY DEF IInv, KeyTypeOK, PurgedInv, CommitInv, RowInv, StoredInv, AnswerInv, Told, Exists, keyVars

LEMMA NextKeeps == IInv /\ [IdempotencyNext]_keyVars => IInv'
<1> SUFFICES ASSUME IInv, [IdempotencyNext]_keyVars PROVE IInv'
  OBVIOUS
<1>1. ASSUME NEW c \in Client, Send(c) PROVE IInv'
  BY <1>1, SendKeeps
<1>2. ASSUME NEW c \in Client, Purge(c) PROVE IInv'
  BY <1>2, PurgeKeeps
<1>3. ASSUME NEW c \in Client, Lookup(c) PROVE IInv'
  BY <1>3, LookupKeeps
<1>4. ASSUME NEW c \in Client, RunView(c) PROVE IInv'
  BY <1>4, PhaseChanges DEF RunView, Running
<1>5. ASSUME NEW c \in Client, Refuse(c) PROVE IInv'
  <2>1. Ends(c, NoRow) /\ stored' = Purged(c) /\ created' = created
    BY <1>5 DEF Refuse
  <2> QED BY <2>1, PurgeCommits
<1>6. ASSUME NEW c \in Client, Store(c) PROVE IInv'
  BY <1>6, StoreKeeps
<1>7. ASSUME NEW c \in Client, Commit(c) PROVE IInv'
  BY <1>7, CommitKeeps
<1>8. ASSUME NEW c \in Client, RollBack(c) PROVE IInv'
  BY <1>8, RollBackKeeps
<1>9. ASSUME NEW k \in Keys, Expire(k) PROVE IInv'
  BY <1>9, ExpireKeeps
<1>10. CASE NoMore \/ UNCHANGED keyVars
  BY <1>10, StutterKeeps DEF NoMore
<1> QED BY <1>1, <1>2, <1>3, <1>4, <1>5, <1>6, <1>7, <1>8, <1>9, <1>10 DEF IdempotencyNext

\* However requests with one key overlap, fail and are tried again, they create one row within
\* 24 hours, and each that succeeds is told of a row that a request like it created.
THEOREM RowsAreCreatedOnce == IdempotencySpec => []CreatedOnce
<1>1. IdempotencyInit => IInv
  BY InitHolds
<1>2. IInv /\ [IdempotencyNext]_keyVars => IInv'
  BY NextKeeps
<1>3. IInv => CreatedOnce
  BY InvImpliesCreatedOnce
<1> QED BY <1>1, <1>2, <1>3, PTL DEF IdempotencySpec
=============================================================================
