------------------------------- MODULE Documents -------------------------------
(***************************************************************************)
(* The registry of issued documents of one branch, its signing keys and    *)
(* the tenant's transparency log (src/backend/mizan/apps/documents), under *)
(* READ COMMITTED.  A request is one transaction; the advisory lock of the *)
(* log is held to its end.  The object store and the files of private keys *)
(* are outside the transaction: a roll-back leaves them.                   *)
(*                                                                         *)
(* Hashes are collision free: a head is the sequence of the documents it   *)
(* covers.  Keys are numbered in the order of their valid_from.  A row     *)
(* moves through its statuses one way, so its status stands for its        *)
(* row_version.  QR and seal keys are handled alike; one purpose is        *)
(* modelled.                                                               *)
(***************************************************************************)
EXTENDS Naturals, Sequences

CONSTANTS
  Doc,       \* documents issued or attempted
  Request,   \* concurrent requests
  None,      \* no document, no request
  MaxKeys,   \* bound: keys created
  MaxHeads   \* bound: heads signed

ASSUME DocumentsAssumption ==
  /\ None \notin Doc \cup Request
  /\ MaxKeys \in Nat \ {0} /\ MaxHeads \in Nat

VARIABLES
  status,        \* issued_document rows by status; "none": no row
  supersededBy,
  signedWith,    \* qr_key of its row; 0: no row
  events,        \* documents whose document.rendered job has committed
  store,         \* documents whose original is in the object store
  log,           \* committed leaves, in the order of their indexes
  heads,         \* signed heads: the documents they cover
  active,        \* committed keys that are ACTIVE
  retired,       \* committed keys that are RETIRED
  clock,         \* keys created, committed or not
  lock,          \* holder of the advisory lock of the log
  pc,            \* next step of each request
  tx             \* what it has read and decided

registryVars == <<status, supersededBy, signedWith, events>>
keyVars      == <<active, retired, clock>>
vars == <<status, supersededBy, signedWith, events, store, log, heads, active, retired,
          clock, lock, pc, tx>>

Registry == {d \in Doc : status[d] # "none"}
Leaves   == {log[i] : i \in DOMAIN log}
NoTx     == [doc |-> None, old |-> None, seen |-> "none", key |-> 0, created |-> FALSE,
             index |-> 0]

\* Mutant: the oldest key is taken.
ActiveKeyOldest ==
  IF active = {} THEN 0 ELSE CHOOSE k \in active : \A j \in active : k <= j

\* active_key(): the ACTIVE key with the latest valid_from.
ActiveKey == IF active = {} THEN 0 ELSE CHOOSE k \in active : \A j \in active : j <= k

-----------------------------------------------------------------------------
Init ==
  /\ status = [d \in Doc |-> "none"]
  /\ supersededBy = [d \in Doc |-> None]
  /\ signedWith = [d \in Doc |-> 0]
  /\ events = {} /\ store = {}
  /\ log = <<>> /\ heads = <<>>
  /\ active = {} /\ retired = {} /\ clock = 0
  /\ lock = None
  /\ pc = [t \in Request |-> "idle"]
  /\ tx = [t \in Request |-> NoTx]

\* The transaction of a request ends.
Leave(t) ==
  /\ pc' = [pc EXCEPT ![t] = "idle"]
  /\ tx' = [tx EXCEPT ![t] = NoTx]
  /\ lock' = IF lock = t THEN None ELSE lock

\* An error, a conflict or a crash.
RollBack(t) ==
  /\ pc[t] # "idle"
  /\ Leave(t)
  /\ UNCHANGED <<registryVars, store, log, heads, keyVars>>

-----------------------------------------------------------------------------
(* issue_document(), with supersede() of the document it corrects.         *)

\* ensure_branch_keys(): the active key, or a new one whose private half is written at
\* once; the QR is signed with it there and then.  The document to be corrected is loaded, if
\* there is one.
BeginIssue(t) ==
  /\ pc[t] = "idle"
  /\ \E d \in Doc \ Registry, old \in Registry \cup {None} :
       /\ \A u \in Request : tx[u].doc # d
       /\ d \notin store
       /\ old # None => status[old] = "current"
       /\ \/ /\ active # {}
             /\ tx' = [tx EXCEPT ![t] = [doc |-> d, old |-> old, seen |-> "none",
                                         key |-> ActiveKey, created |-> FALSE, index |-> 0]]
             /\ UNCHANGED clock
          \/ /\ active = {} /\ clock < MaxKeys
             /\ clock' = clock + 1
             /\ tx' = [tx EXCEPT ![t] = [doc |-> d, old |-> old, seen |-> "none",
                                         key |-> clock + 1, created |-> TRUE, index |-> 0]]
  /\ pc' = [pc EXCEPT ![t] = "render"]
  /\ UNCHANGED <<registryVars, store, log, heads, active, retired, lock>>

\* Mutant: the PDF goes to the store after the transaction.
StoreOriginalLater(t) ==
  /\ pc[t] = "render"
  /\ pc' = [pc EXCEPT ![t] = "append"]
  /\ UNCHANGED <<registryVars, store, log, heads, keyVars, lock, tx>>

\* The sealed PDF is written to the object store.
StoreOriginal(t) ==
  /\ pc[t] = "render"
  /\ store' = store \cup {tx[t].doc}
  /\ pc' = [pc EXCEPT ![t] = "append"]
  /\ UNCHANGED <<registryVars, log, heads, keyVars, lock, tx>>

\* Mutant: the lock ends with append_leaf().
AppendLeafUnlocked(t) ==
  /\ pc[t] = "append" /\ lock = None
  /\ tx' = [tx EXCEPT ![t].index = Len(log) + 1]
  /\ pc' = [pc EXCEPT ![t] = "commit"]
  /\ UNCHANGED <<registryVars, store, log, heads, keyVars, lock>>

\* append_leaf(): the index is the number of leaves, read under the lock.
AppendLeaf(t) ==
  /\ pc[t] = "append" /\ lock = None
  /\ lock' = t
  /\ tx' = [tx EXCEPT ![t].index = Len(log) + 1]
  /\ pc' = [pc EXCEPT ![t] = "commit"]
  /\ UNCHANGED <<registryVars, store, log, heads, keyVars>>

\* Mutant: save() without the condition.
UnchangedOrNot(d, seen) == TRUE

\* save() of a loaded row: its row_version, here its status, must be that of the table.
Unchanged(d, seen) == d # None => status[d] = seen

\* The constraint uq_transparency_leaf_index admits the leaf, supersede() finds the old
\* document CURRENT, and row, leaf, status, key and event appear together.
CommitIssue(t) ==
  LET d == tx[t].doc
      old == tx[t].old
  IN /\ pc[t] = "commit"
     /\ tx[t].index = Len(log) + 1
     /\ Unchanged(old, "current")
     /\ status' = [e \in Doc |-> IF e = d THEN "current"
                                 ELSE IF e = old THEN "superseded" ELSE status[e]]
     /\ supersededBy' = IF old = None THEN supersededBy ELSE [supersededBy EXCEPT ![old] = d]
     /\ signedWith' = [signedWith EXCEPT ![d] = tx[t].key]
     /\ events' = events \cup {d}
     /\ log' = Append(log, d)
     /\ active' = IF tx[t].created THEN active \cup {tx[t].key} ELSE active
     /\ Leave(t)
     /\ UNCHANGED <<store, heads, retired, clock>>

-----------------------------------------------------------------------------
(* revoke().                                                               *)

\* revoke(): a document loaded before; one that is revoked already is left alone.
LoadDocument(t) ==
  /\ pc[t] = "idle"
  /\ \E d \in Registry :
       /\ status[d] # "revoked"
       /\ tx' = [tx EXCEPT ![t] = [doc |-> None, old |-> d, seen |-> status[d], key |-> 0,
                                   created |-> FALSE, index |-> 0]]
  /\ pc' = [pc EXCEPT ![t] = "revoke"]
  /\ UNCHANGED <<registryVars, store, log, heads, keyVars, lock>>

Revoke(t) ==
  /\ pc[t] = "revoke"
  /\ Unchanged(tx[t].old, tx[t].seen)
  /\ status' = [status EXCEPT ![tx[t].old] = "revoked"]
  /\ Leave(t)
  /\ UNCHANGED <<supersededBy, signedWith, events, store, log, heads, keyVars>>

-----------------------------------------------------------------------------
(* publish_head() and rotate().                                            *)

\* current_root(), without the lock.
ReadRoot(t) ==
  /\ pc[t] = "idle"
  /\ active # {} /\ Len(heads) < MaxHeads
  /\ tx' = [tx EXCEPT ![t] = [doc |-> None, old |-> None, seen |-> "none", key |-> ActiveKey,
                              created |-> FALSE, index |-> Len(log)]]
  /\ pc' = [pc EXCEPT ![t] = "sign"]
  /\ UNCHANGED <<registryVars, store, log, heads, keyVars, lock>>

\* Mutant: the head covers the leaves that are not published yet.
PublishHeadOfNewLeaves(t) ==
  /\ pc[t] = "sign"
  /\ Len(heads) < MaxHeads
  /\ heads' = Append(heads, SubSeq(log, 1 + IF heads = <<>> THEN 0 ELSE Len(heads[1]),
                                   tx[t].index))
  /\ Leave(t)
  /\ UNCHANGED <<registryVars, store, log, keyVars>>

\* The head of the size and root read before.
PublishHead(t) ==
  /\ pc[t] = "sign"
  /\ Len(heads) < MaxHeads
  /\ heads' = Append(heads, SubSeq(log, 1, tx[t].index))
  /\ Leave(t)
  /\ UNCHANGED <<registryVars, store, log, keyVars>>

\* rotate(): the previous key is loaded, the new one created.
BeginRotation(t) ==
  /\ pc[t] = "idle"
  /\ clock < MaxKeys
  /\ clock' = clock + 1
  /\ tx' = [tx EXCEPT ![t] = [doc |-> None, old |-> None, seen |-> "none", key |-> clock + 1,
                              created |-> FALSE, index |-> ActiveKey]]
  /\ pc' = [pc EXCEPT ![t] = "rotate"]
  /\ UNCHANGED <<registryVars, store, log, heads, active, retired, lock>>

\* Mutant: a previous key is supposed.
CommitRotationOfFirstKey(t) ==
  /\ pc[t] = "rotate"
  /\ active' = (active \ {tx[t].index}) \cup {tx[t].key}
  /\ retired' = retired \cup {tx[t].index}
  /\ Leave(t)
  /\ UNCHANGED <<registryVars, store, log, heads, clock>>

\* The previous key, if it is still as loaded, gives way to the new one.
CommitRotation(t) ==
  LET previous == {tx[t].index} \ {0}
  IN /\ pc[t] = "rotate"
     /\ previous \subseteq active
     /\ active' = (active \ previous) \cup {tx[t].key}
     /\ retired' = retired \cup previous
     /\ Leave(t)
     /\ UNCHANGED <<registryVars, store, log, heads, clock>>

-----------------------------------------------------------------------------
Issue(t)   == BeginIssue(t) \/ StoreOriginal(t) \/ AppendLeaf(t) \/ CommitIssue(t)
Withdraw(t) == LoadDocument(t) \/ Revoke(t)
Publish(t) == ReadRoot(t) \/ PublishHead(t)
Rotate(t)  == BeginRotation(t) \/ CommitRotation(t)

\* No request need come.
Quiet == (\A t \in Request : pc[t] = "idle") /\ UNCHANGED vars

Next == \/ \E t \in Request : Issue(t) \/ Withdraw(t) \/ Publish(t) \/ Rotate(t) \/ RollBack(t)
        \/ Quiet

Spec == Init /\ [][Next]_vars

-----------------------------------------------------------------------------
Status == {"none", "current", "superseded", "revoked"}
Step == {"idle", "render", "append", "commit", "revoke", "sign", "rotate"}

TypeOK ==
  /\ status \in [Doc -> Status]
  /\ supersededBy \in [Doc -> Doc \cup {None}]
  /\ signedWith \in [Doc -> 0..MaxKeys]
  /\ events \subseteq Doc /\ store \subseteq Doc
  /\ log \in Seq(Doc) /\ heads \in Seq(Seq(Doc))
  /\ active \subseteq 1..clock /\ retired \subseteq 1..clock /\ clock \in 0..MaxKeys
  /\ lock \in Request \cup {None}
  /\ pc \in [Request -> Step]
  /\ tx \in [Request -> [doc : Doc \cup {None}, old : Doc \cup {None}, seen : Status,
                         key : 0..MaxKeys, created : BOOLEAN, index : Nat]]

\* Registry row, leaf and event of a document appear together, and what a row points to
\* in the object store is there, whatever rolls back or dies in between.
IssuedTogether ==
  /\ Registry = Leaves /\ Registry = events
  /\ Registry \subseteq store

\* An append never meets the unique constraint on indexes: the lock is held until the
\* leaf before it is visible.
NoIndexConflict == \A t \in Request : pc[t] = "commit" => tx[t].index = Len(log) + 1

\* Whatever the interleaving, the log is append-only and each head covers a prefix.
Promised == INSTANCE TransparencyLog

LogIsAppendOnly == Promised!Spec

\* A document moves from CURRENT to SUPERSEDED to REVOKED and never back, also when a
\* correction and a revocation, or two corrections, cross; its successor stays the same.
Rank == [none |-> 0, current |-> 1, superseded |-> 2, revoked |-> 3]

StatusMovesForward ==
  [][\A d \in Doc : /\ Rank[status[d]] <= Rank[status'[d]]
                    /\ supersededBy[d] # None => supersededBy'[d] = supersededBy[d]]_vars

\* An issue or a head that begins once a document is registered is signed with the key of that
\* document or a younger one, and one that begins once a key is retired with a younger one,
\* although first keys may be created twice and rotations cross.  (What had begun before a
\* rotation may still be committed after it, with the key it began with.)
Begins(t) == pc[t] = "idle" /\ pc'[t] \in {"render", "sign"}

KeysNeverGoBack ==
  [][\A t \in Request : Begins(t) => /\ \A d \in Registry : signedWith[d] <= tx'[t].key
                                     /\ \A k \in retired : k < tx'[t].key]_vars
=============================================================================
