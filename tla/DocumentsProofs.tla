---------------------------- MODULE DocumentsProofs ----------------------------
(***************************************************************************)
(* The registry, the log and the keys of Documents for any number of       *)
(* documents, requests, keys and heads.  The inductive invariant says what *)
(* a request holds between its statements: the document it issues is its   *)
(* own and not registered, the lock of the log keeps the index it has      *)
(* read, and the key it rotates to is younger than the one it replaces.    *)
(***************************************************************************)
EXTENDS Documents, SequenceTheorems, TLAPS

Tx == [doc : Doc \cup {None}, old : Doc \cup {None}, seen : Status,
       key : 0..MaxKeys, created : BOOLEAN, index : Nat]

Issuing(t) == pc[t] \in {"render", "append", "commit"}

PhaseInv ==
  \A t \in Request :
    /\ Issuing(t) <=> tx[t].doc # None
    /\ pc[t] = "revoke" => tx[t].old # None /\ tx[t].seen # "none"
    /\ pc[t] = "sign" => tx[t].index <= Len(log)

\* A document that is being issued is not in the registry, and no other request issues it.
IssuingInv ==
  \A t \in Request : tx[t].doc # None =>
    /\ status[tx[t].doc] = "none"
    /\ pc[t] # "render" => tx[t].doc \in store
    /\ \A u \in Request \ {t} : tx[u].doc # tx[t].doc

LockInv == \A t \in Request : pc[t] = "commit" => lock = t

\* The keys there are have a youngest; a new key is younger than the one it replaces.
KeyInv ==
  /\ active # {} => \E k \in active : \A j \in active : j <= k
  /\ \A t \in Request : /\ Issuing(t) /\ tx[t].created => tx[t].key \in 1..clock
                        /\ pc[t] = "rotate" => tx[t].key \in 1..clock /\ tx[t].index < tx[t].key

\* A key is retired, and a document signed, only with a key of that age or a younger one ACTIVE.
SignatureInv ==
  /\ \A k \in retired : \E j \in active : k < j
  /\ \A d \in Registry : \E j \in active : signedWith[d] <= j
  /\ \A t \in Request : Issuing(t) /\ ~tx[t].created => \E j \in active : tx[t].key <= j

\* Only a document that is not CURRENT any more has a successor.
SuccessorInv == \A d \in Doc : status[d] \in {"none", "current"} => supersededBy[d] = None

IInv ==
  /\ TypeOK
  /\ PhaseInv
  /\ IssuingInv
  /\ LockInv
  /\ NoIndexConflict
  /\ IssuedTogether
  /\ KeyInv
  /\ SignatureInv
  /\ SuccessorInv

-----------------------------------------------------------------------------
LEMMA NoTxType == NoTx \in Tx /\ NoTx.doc = None
  BY DocumentsAssumption DEF NoTx, Tx, Status

\* The youngest key, when there is one.
LEMMA ActiveKeyFact ==
  ASSUME active \subseteq 1..clock, clock \in Nat, KeyInv
  PROVE  /\ active = {} => ActiveKey = 0
         /\ active # {} => ActiveKey \in active /\ \A j \in active : j <= ActiveKey
  BY DEF ActiveKey, KeyInv

LEMMA ActiveKeyRange ==
  ASSUME IInv
  PROVE  ActiveKey \in 0..clock /\ ActiveKey \in 0..MaxKeys
<1>1. /\ active \subseteq 1..clock /\ clock \in 0..MaxKeys
      /\ MaxKeys \in Nat /\ clock \in Nat /\ KeyInv
  BY DocumentsAssumption DEF IInv, TypeOK
<1>2. CASE active = {}
  BY <1>1, <1>2, ActiveKeyFact
<1>3. CASE active # {}
  <2>1. ActiveKey \in 1..clock
    BY <1>1, <1>3, ActiveKeyFact
  <2> QED BY <1>1, <2>1
<1> QED BY <1>2, <1>3

LEMMA InitHolds == Init => IInv
<1> SUFFICES ASSUME Init PROVE IInv
  OBVIOUS
<1>1. TypeOK
  BY NoTxType, DocumentsAssumption DEF Init, TypeOK, Tx, Status, Step
<1>4. SignatureInv
  BY DEF Init, SignatureInv, Registry, Issuing
<1>2. PhaseInv /\ IssuingInv /\ LockInv /\ NoIndexConflict /\ KeyInv /\ SuccessorInv
  BY NoTxType DEF Init, PhaseInv, Issuing, IssuingInv, LockInv, NoIndexConflict, KeyInv,
                  SuccessorInv
<1>3. IssuedTogether
  BY DEF Init, IssuedTogether, Registry, Leaves
<1> QED BY <1>1, <1>2, <1>3, <1>4 DEF IInv

\* Where no key, no row and no status changes, a request may only begin with an active key.
LEMMA SignaturesKeep ==
  ASSUME IInv, UNCHANGED <<status, signedWith, active, retired>>,
         \A u \in Request : Issuing(u)' /\ ~tx'[u].created =>
           \/ Issuing(u) /\ ~tx[u].created /\ tx'[u].key = tx[u].key
           \/ tx'[u].key \in active
  PROVE  SignatureInv'
<1>1. \A j \in active : j <= j
  BY DocumentsAssumption DEF IInv, TypeOK
<1>2. Registry' = Registry
  BY DEF Registry
<1> QED BY <1>1, <1>2 DEF IInv, SignatureInv

\* What the end of a transaction does to the requests.
LEMMA LeaveFacts ==
  ASSUME TypeOK, NEW t \in Request, Leave(t)
  PROVE  /\ pc' \in [Request -> Step] /\ tx' \in [Request -> Tx]
         /\ lock' \in Request \cup {None}
         /\ pc'[t] = "idle" /\ tx'[t] = NoTx
         /\ \A u \in Request \ {t} : pc'[u] = pc[u] /\ tx'[u] = tx[u]
         /\ \A u \in Request \ {t} : lock = u => lock' = u
  BY NoTxType DEF TypeOK, Tx, Leave, Step

LEMMA RollBackKeeps ==
  ASSUME IInv, NEW t \in Request, RollBack(t)
  PROVE  IInv'
<1>1. /\ pc' \in [Request -> Step] /\ tx' \in [Request -> Tx]
      /\ lock' \in Request \cup {None}
      /\ pc'[t] = "idle" /\ tx'[t] = NoTx
      /\ \A u \in Request \ {t} : pc'[u] = pc[u] /\ tx'[u] = tx[u]
      /\ \A u \in Request \ {t} : lock = u => lock' = u
  BY LeaveFacts DEF RollBack, IInv
<1>2. UNCHANGED <<status, supersededBy, signedWith, events, store, log, heads, active, retired,
                  clock>>
  BY DEF RollBack, registryVars, keyVars
<1>3. TypeOK'
  BY <1>1, <1>2 DEF IInv, TypeOK, Tx
<1>4. PhaseInv' /\ LockInv' /\ NoIndexConflict' /\ IssuingInv'
  BY <1>1, <1>2, NoTxType DEF IInv, PhaseInv, Issuing, LockInv, NoIndexConflict, IssuingInv
<1>5. KeyInv'
  BY <1>1, <1>2 DEF IInv, KeyInv, Issuing
<1>6. IssuedTogether' /\ SuccessorInv'
  BY <1>2 DEF IInv, IssuedTogether, Registry, Leaves, SuccessorInv
<1>7. SignatureInv'
  BY <1>1, <1>2, NoTxType, SignaturesKeep DEF RollBack, Issuing
<1> QED BY <1>3, <1>4, <1>5, <1>6, <1>7 DEF IInv

LEMMA BeginIssueKeeps ==
  ASSUME IInv, NEW t \in Request, BeginIssue(t)
  PROVE  IInv'
<1> PICK d \in Doc \ Registry, old \in Registry \cup {None} :
      /\ \A u \in Request : tx[u].doc # d
      /\ d \notin store
      /\ \/ /\ active # {}
            /\ tx' = [tx EXCEPT ![t] = [doc |-> d, old |-> old, seen |-> "none",
                                        key |-> ActiveKey, created |-> FALSE, index |-> 0]]
            /\ UNCHANGED clock
         \/ /\ active = {} /\ clock < MaxKeys
            /\ clock' = clock + 1
            /\ tx' = [tx EXCEPT ![t] = [doc |-> d, old |-> old, seen |-> "none",
                                        key |-> clock + 1, created |-> TRUE, index |-> 0]]
  BY DEF BeginIssue
<1>0. active \subseteq 1..clock /\ clock \in 0..MaxKeys /\ MaxKeys \in Nat
  BY DocumentsAssumption DEF IInv, TypeOK
<1>1. /\ pc' = [pc EXCEPT ![t] = "render"]
      /\ UNCHANGED <<status, supersededBy, signedWith, events, store, log, heads, active, retired,
                     lock>>
      /\ pc[t] = "idle"
  BY DEF BeginIssue, registryVars
<1>2. d \in Doc /\ d # None /\ status[d] = "none" /\ old \in Doc \cup {None}
  BY DocumentsAssumption DEF Registry
<1>3. ActiveKey \in 0..MaxKeys
  BY ActiveKeyRange
<1>4. /\ tx' \in [Request -> Tx] /\ tx'[t].doc = d
      /\ clock' \in clock..MaxKeys
      /\ tx'[t].created => tx'[t].key \in 1..clock'
      /\ ~tx'[t].created => tx'[t].key \in active
  <2>1. CASE active # {}
    <3> DEFINE new == [doc |-> d, old |-> old, seen |-> "none", key |-> ActiveKey,
                       created |-> FALSE, index |-> 0]
    <3>1. new \in Tx
      BY <1>2, <1>3 DEF Tx, Status
    <3>2. tx' = [tx EXCEPT ![t] = new] /\ clock' = clock
      BY <2>1
    <3>3. tx'[t] = new /\ tx' \in [Request -> Tx]
      BY <3>1, <3>2 DEF IInv, TypeOK, Tx
    <3>4. ActiveKey \in active
      BY <2>1, <1>0, ActiveKeyFact DEF IInv
    <3> QED BY <3>2, <3>3, <3>4, <1>0
  <2>2. CASE active = {}
    <3> DEFINE new == [doc |-> d, old |-> old, seen |-> "none", key |-> clock + 1,
                       created |-> TRUE, index |-> 0]
    <3>1. new \in Tx /\ clock + 1 \in 1..MaxKeys
      BY <2>2, <1>0, <1>2 DEF Tx, Status
    <3>2. tx' = [tx EXCEPT ![t] = new] /\ clock' = clock + 1
      BY <2>2
    <3>3. tx'[t] = new /\ tx' \in [Request -> Tx]
      BY <3>1, <3>2 DEF IInv, TypeOK, Tx
    <3> QED BY <3>1, <3>2, <3>3, <1>0
  <2> QED BY <2>1, <2>2
<1>5. /\ pc' \in [Request -> Step] /\ pc'[t] = "render"
      /\ \A u \in Request \ {t} : pc'[u] = pc[u] /\ tx'[u] = tx[u]
  BY <1>1 DEF IInv, TypeOK, Step
<1>6. TypeOK'
  BY <1>0, <1>1, <1>4, <1>5 DEF IInv, TypeOK, Tx
<1>7. PhaseInv'
  BY <1>1, <1>2, <1>4, <1>5 DEF IInv, PhaseInv, Issuing
<1>8. IssuingInv'
  BY <1>1, <1>2, <1>4, <1>5 DEF IInv, IssuingInv
<1>9. LockInv' /\ NoIndexConflict'
  BY <1>1, <1>5 DEF IInv, LockInv, NoIndexConflict
<1>10. KeyInv'
  <2>1. \A u \in Request \ {t} : tx[u].key \in 1..clock => tx[u].key \in 1..clock'
    BY <1>0, <1>4
  <2> QED BY <2>1, <1>1, <1>4, <1>5 DEF IInv, KeyInv, Issuing
<1>11. IssuedTogether' /\ SuccessorInv'
  BY <1>1 DEF IInv, IssuedTogether, Registry, Leaves, SuccessorInv
<1>12. SignatureInv'
  BY <1>1, <1>4, <1>5, SignaturesKeep DEF Issuing
<1> QED BY <1>6, <1>7, <1>8, <1>9, <1>10, <1>11, <1>12 DEF IInv

LEMMA StoreOriginalKeeps ==
  ASSUME IInv, NEW t \in Request, StoreOriginal(t)
  PROVE  IInv'
<1>1. /\ pc[t] = "render" /\ pc' = [pc EXCEPT ![t] = "append"]
      /\ store' = store \cup {tx[t].doc}
      /\ UNCHANGED <<status, supersededBy, signedWith, events, log, heads, active, retired, clock,
                     lock, tx>>
  BY DEF StoreOriginal, registryVars, keyVars
<1>2. tx[t].doc \in Doc
  BY <1>1 DEF IInv, TypeOK, PhaseInv, Issuing
<1>3. /\ pc' \in [Request -> Step] /\ pc'[t] = "append"
      /\ \A u \in Request \ {t} : pc'[u] = pc[u]
  BY <1>1 DEF IInv, TypeOK, Step
<1>4. TypeOK'
  BY <1>1, <1>2, <1>3 DEF IInv, TypeOK
<1>5. PhaseInv' /\ IssuingInv'
  BY <1>1, <1>3 DEF IInv, PhaseInv, Issuing, IssuingInv
<1>6. LockInv' /\ NoIndexConflict' /\ KeyInv'
  BY <1>1, <1>3 DEF IInv, LockInv, NoIndexConflict, KeyInv, Issuing
<1>7. IssuedTogether' /\ SuccessorInv'
  BY <1>1 DEF IInv, IssuedTogether, Registry, Leaves, SuccessorInv
<1>8. SignatureInv'
  BY <1>1, <1>3, SignaturesKeep DEF Issuing
<1> QED BY <1>4, <1>5, <1>6, <1>7, <1>8 DEF IInv

LEMMA AppendLeafKeeps ==
  ASSUME IInv, NEW t \in Request, AppendLeaf(t)
  PROVE  IInv'
<1>1. /\ pc[t] = "append" /\ pc' = [pc EXCEPT ![t] = "commit"]
      /\ lock = None /\ lock' = t
      /\ tx' = [tx EXCEPT ![t].index = Len(log) + 1]
      /\ UNCHANGED <<status, supersededBy, signedWith, events, store, log, heads, active, retired,
                     clock>>
  BY DEF AppendLeaf, registryVars, keyVars
<1>2. Len(log) \in Nat
  BY DEF IInv, TypeOK
<1>3. /\ pc' \in [Request -> Step] /\ tx' \in [Request -> Tx]
      /\ pc'[t] = "commit" /\ tx'[t].index = Len(log) + 1
      /\ tx'[t].doc = tx[t].doc /\ tx'[t].key = tx[t].key /\ tx'[t].created = tx[t].created
      /\ \A u \in Request \ {t} : pc'[u] = pc[u] /\ tx'[u] = tx[u]
  <2>1. pc' \in [Request -> Step] /\ pc'[t] = "commit" /\ \A u \in Request \ {t} : pc'[u] = pc[u]
    BY <1>1 DEF IInv, TypeOK, Step
  <2>2. /\ tx' \in [Request -> Tx] /\ tx'[t].index = Len(log) + 1
        /\ tx'[t].doc = tx[t].doc /\ tx'[t].key = tx[t].key /\ tx'[t].created = tx[t].created
        /\ \A u \in Request \ {t} : tx'[u] = tx[u]
    <3> DEFINE new == [tx[t] EXCEPT !.index = Len(log) + 1]
    <3>1. tx[t] \in Tx /\ tx \in [Request -> Tx]
      BY DEF IInv, TypeOK, Tx
    <3>2. /\ new \in Tx /\ new.index = Len(log) + 1
          /\ new.doc = tx[t].doc /\ new.key = tx[t].key /\ new.created = tx[t].created
      BY <3>1, <1>2 DEF Tx
    <3>3. tx' = [tx EXCEPT ![t] = new]
      BY <1>1
    <3> HIDE DEF new
    <3> QED BY <3>1, <3>2, <3>3
  <2> QED BY <2>1, <2>2
<1>4. TypeOK'
  BY <1>1, <1>3 DEF IInv, TypeOK, Tx
<1>5. PhaseInv'
  BY <1>1, <1>3 DEF IInv, PhaseInv, Issuing
<1>6. IssuingInv'
  BY <1>1, <1>3 DEF IInv, IssuingInv
<1>7. LockInv' /\ NoIndexConflict'
  BY <1>1, <1>3, DocumentsAssumption DEF IInv, LockInv, NoIndexConflict
<1>8. KeyInv'
  BY <1>1, <1>3 DEF IInv, KeyInv, Issuing
<1>9. IssuedTogether' /\ SuccessorInv'
  BY <1>1 DEF IInv, IssuedTogether, Registry, Leaves, SuccessorInv
<1>10. SignatureInv'
  BY <1>1, <1>3, SignaturesKeep DEF Issuing
<1> QED BY <1>4, <1>5, <1>6, <1>7, <1>8, <1>9, <1>10 DEF IInv

-----------------------------------------------------------------------------
\* A commit appends the document: leaves, registry and events gain it together.
LEMMA CommitIssueKeeps ==
  ASSUME IInv, NEW t \in Request, CommitIssue(t)
  PROVE  IInv'
<1> DEFINE d == tx[t].doc
           old == tx[t].old
<1>1. /\ pc[t] = "commit" /\ tx[t].index = Len(log) + 1
      /\ status' = [e \in Doc |-> IF e = d THEN "current"
                                  ELSE IF e = old THEN "superseded" ELSE status[e]]
      /\ old # None => status[old] = "current"
      /\ supersededBy' = IF old = None THEN supersededBy ELSE [supersededBy EXCEPT ![old] = d]
      /\ signedWith' = [signedWith EXCEPT ![d] = tx[t].key]
      /\ events' = events \cup {d}
      /\ log' = Append(log, d)
      /\ active' = IF tx[t].created THEN active \cup {tx[t].key} ELSE active
      /\ UNCHANGED <<store, heads, retired, clock>>
  BY DEF CommitIssue, Unchanged
<1>2. /\ pc' \in [Request -> Step] /\ tx' \in [Request -> Tx]
      /\ lock' \in Request \cup {None}
      /\ pc'[t] = "idle" /\ tx'[t] = NoTx
      /\ \A u \in Request \ {t} : pc'[u] = pc[u] /\ tx'[u] = tx[u]
      /\ \A u \in Request \ {t} : lock = u => lock' = u
  BY LeaveFacts DEF CommitIssue, IInv
<1>3. d \in Doc /\ status[d] = "none" /\ d \in store /\ old \in Doc \cup {None}
  BY <1>1 DEF IInv, TypeOK, PhaseInv, Issuing, IssuingInv
<1>4. \A u \in Request \ {t} : tx[u].doc # d /\ pc[u] # "commit"
  BY <1>1, <1>3, DocumentsAssumption DEF IInv, IssuingInv, LockInv
<1>5. log \in Seq(Doc) /\ log' \in Seq(Doc) /\ Len(log') = Len(log) + 1
  BY <1>1, <1>3 DEF IInv, TypeOK
<1>6. active' \subseteq 1..clock /\ clock \in Nat
  <2>1. active \subseteq 1..clock /\ clock \in Nat
    BY DocumentsAssumption DEF IInv, TypeOK
  <2>2. tx[t].created => tx[t].key \in 1..clock
    BY <1>1 DEF IInv, KeyInv, Issuing
  <2> QED BY <1>1, <2>1, <2>2
<1>a. /\ d # old /\ status'[d] = "current"
      /\ \A e \in Doc \ {d, old} : status'[e] = status[e]
      /\ old # None => status'[old] = "superseded"
  BY <1>1, <1>3, DocumentsAssumption
<1> HIDE DEF d, old
<1>7. /\ status' \in [Doc -> Status] /\ supersededBy' \in [Doc -> Doc \cup {None}]
      /\ signedWith' \in [Doc -> 0..MaxKeys]
  <2>1. status' \in [Doc -> Status]
    BY <1>1 DEF IInv, TypeOK, Status
  <2>2. supersededBy' \in [Doc -> Doc \cup {None}]
    BY <1>1, <1>3 DEF IInv, TypeOK
  <2>3. signedWith' \in [Doc -> 0..MaxKeys]
    BY <1>1 DEF IInv, TypeOK
  <2> QED BY <2>1, <2>2, <2>3
<1>8. TypeOK'
  BY <1>1, <1>2, <1>3, <1>5, <1>6, <1>7 DEF IInv, TypeOK, Tx
<1>9. PhaseInv'
  <2> SUFFICES ASSUME NEW u \in Request
               PROVE  /\ Issuing(u)' <=> tx'[u].doc # None
                      /\ pc'[u] = "revoke" => tx'[u].old # None /\ tx'[u].seen # "none"
                      /\ pc'[u] = "sign" => tx'[u].index <= Len(log')
    BY DEF PhaseInv
  <2>1. CASE u = t
    BY <2>1, <1>2, NoTxType DEF Issuing
  <2>2. CASE u # t
    <3>1. Len(log) \in Nat /\ tx[u].index \in Nat
      BY <1>5 DEF IInv, TypeOK
    <3> QED BY <2>2, <3>1, <1>2, <1>5 DEF IInv, PhaseInv, Issuing
  <2> QED BY <2>1, <2>2
<1>10. \A e \in Doc \ {d} : status'[e] = "none" <=> status[e] = "none"
  BY <1>1, <1>3, <1>a, DocumentsAssumption
<1>11. IssuingInv'
  <2> SUFFICES ASSUME NEW u \in Request, tx'[u].doc # None
               PROVE  /\ status'[tx'[u].doc] = "none"
                      /\ pc'[u] # "render" => tx'[u].doc \in store'
                      /\ \A v \in Request \ {u} : tx'[v].doc # tx'[u].doc
    BY DEF IssuingInv
  <2>1. u # t /\ tx'[u] = tx[u] /\ pc'[u] = pc[u] /\ tx[u].doc \in Doc \ {d}
    BY <1>2, <1>4, NoTxType DEF IInv, TypeOK
  <2>2. \A v \in Request \ {u} : tx'[v].doc # tx'[u].doc
    BY <2>1, <1>2, NoTxType DEF IInv, IssuingInv
  <2> QED BY <2>1, <2>2, <1>1, <1>10 DEF IInv, IssuingInv
<1>12. LockInv' /\ NoIndexConflict'
  BY <1>2, <1>4 DEF IInv, LockInv, NoIndexConflict
<1>13. IssuedTogether'
  <2>1. Registry' = Registry \cup {d}
    BY <1>1, <1>3, <1>10 DEF Registry
  <2>2. Leaves' = Leaves \cup {d}
    <3>1. DOMAIN log' = DOMAIN log \cup {Len(log) + 1}
      BY <1>5, LenProperties
    <3>2. log'[Len(log) + 1] = d /\ \A i \in DOMAIN log : log'[i] = log[i]
      BY <1>1, <1>3, <1>5, AppendProperties
    <3> QED BY <3>1, <3>2 DEF Leaves
  <2> QED BY <1>1, <1>3, <2>1, <2>2 DEF IInv, IssuedTogether
<1>14. KeyInv'
  <2>1. active' # {} => \E k \in active' : \A j \in active' : j <= k
    <3>1. CASE tx[t].created
      <4>1. active' = active \cup {tx[t].key} /\ tx[t].key \in 1..clock /\ active \subseteq 1..clock
        BY <3>1, <1>1, <1>6 DEF IInv, KeyInv, Issuing, TypeOK
      <4>2. CASE active = {}
        BY <4>1, <4>2, <1>6
      <4>3. CASE active # {}
        <5>1. PICK k \in active : \A j \in active : j <= k
          BY <4>3 DEF IInv, KeyInv
        <5> QED BY <4>1, <5>1, <1>6
      <4> QED BY <4>2, <4>3
    <3>2. CASE ~tx[t].created
      BY <3>2, <1>1 DEF IInv, KeyInv
    <3> QED BY <3>1, <3>2
  <2> QED BY <2>1, <1>1, <1>2 DEF IInv, KeyInv, Issuing
<1>15. SuccessorInv'
  <2> SUFFICES ASSUME NEW e \in Doc, status'[e] \in {"none", "current"}
               PROVE  supersededBy'[e] = None
    BY DEF SuccessorInv
  <2>1. e # old
    BY <1>a, <1>3, DocumentsAssumption
  <2>2. supersededBy'[e] = supersededBy[e]
    BY <2>1, <1>1 DEF IInv, TypeOK
  <2>3. status[e] \in {"none", "current"}
    BY <2>1, <1>a, <1>3
  <2> QED BY <2>2, <2>3 DEF IInv, SuccessorInv
<1>16. SignatureInv'
  <2>1. /\ active \subseteq active' /\ active' \subseteq Nat
        /\ tx[t].created => tx[t].key \in active'
    BY <1>1, <1>6
  <2>2. \E j \in active' : tx[t].key <= j
    <3>1. CASE tx[t].created
      <4>1. tx[t].key \in active' /\ tx[t].key \in Nat
        BY <2>1, <3>1
      <4>2. tx[t].key <= tx[t].key
        BY <4>1
      <4> QED BY <4>1, <4>2
    <3>2. CASE ~tx[t].created
      BY <1>1, <2>1, <3>2 DEF IInv, SignatureInv, Issuing
    <3> QED BY <3>1, <3>2
  <2>3. ASSUME NEW e \in Registry' PROVE \E j \in active' : signedWith'[e] <= j
    <3>1. CASE e = d
      BY <1>1, <1>3, <2>2, <3>1 DEF IInv, TypeOK
    <3>2. CASE e # d
      <4>1. e \in Registry /\ signedWith'[e] = signedWith[e]
        BY <1>1, <1>10, <2>3, <3>2 DEF Registry, IInv, TypeOK
      <4> QED BY <2>1, <4>1 DEF IInv, SignatureInv
    <3> QED BY <3>1, <3>2
  <2>4. \A k \in retired' : \E j \in active' : k < j
    BY <1>1, <2>1 DEF IInv, SignatureInv
  <2>5. \A u \in Request : Issuing(u)' /\ ~tx'[u].created => \E j \in active' : tx'[u].key <= j
    BY <1>2, <2>1 DEF IInv, SignatureInv, Issuing
  <2> QED BY <2>3, <2>4, <2>5 DEF SignatureInv
<1> QED BY <1>8, <1>9, <1>11, <1>12, <1>13, <1>14, <1>15, <1>16 DEF IInv
-----------------------------------------------------------------------------
LEMMA LoadDocumentKeeps ==
  ASSUME IInv, NEW t \in Request, LoadDocument(t)
  PROVE  IInv'
<1> PICK d \in Registry :
      tx' = [tx EXCEPT ![t] = [doc |-> None, old |-> d, seen |-> status[d], key |-> 0,
                               created |-> FALSE, index |-> 0]]
  BY DEF LoadDocument
<1> DEFINE new == [doc |-> None, old |-> d, seen |-> status[d], key |-> 0,
                   created |-> FALSE, index |-> 0]
<1>1. /\ pc[t] = "idle" /\ pc' = [pc EXCEPT ![t] = "revoke"]
      /\ UNCHANGED <<status, supersededBy, signedWith, events, store, log, heads, active, retired,
                     clock, lock>>
  BY DEF LoadDocument, registryVars, keyVars
<1>2. d \in Doc /\ d # None /\ status[d] \in Status /\ status[d] # "none"
  BY DocumentsAssumption DEF Registry, IInv, TypeOK
<1>3. new \in Tx /\ new.doc = None /\ new.old = d /\ new.seen # "none" /\ ~new.created
  BY <1>2, DocumentsAssumption DEF Tx
<1>4. tx' = [tx EXCEPT ![t] = new]
  OBVIOUS
<1> HIDE DEF new
<1>5. /\ pc' \in [Request -> Step] /\ tx' \in [Request -> Tx]
      /\ pc'[t] = "revoke" /\ tx'[t] = new
      /\ \A u \in Request \ {t} : pc'[u] = pc[u] /\ tx'[u] = tx[u]
  BY <1>1, <1>3, <1>4 DEF IInv, TypeOK, Step, Tx
<1>6. TypeOK'
  BY <1>1, <1>5 DEF IInv, TypeOK, Tx
<1>7. PhaseInv' /\ IssuingInv'
  BY <1>1, <1>2, <1>3, <1>5 DEF IInv, PhaseInv, Issuing, IssuingInv
<1>8. LockInv' /\ NoIndexConflict' /\ KeyInv'
  BY <1>1, <1>3, <1>5 DEF IInv, LockInv, NoIndexConflict, KeyInv, Issuing
<1>9. IssuedTogether' /\ SuccessorInv'
  BY <1>1 DEF IInv, IssuedTogether, Registry, Leaves, SuccessorInv
<1>10. SignatureInv'
  BY <1>1, <1>5, SignaturesKeep DEF Issuing
<1> QED BY <1>6, <1>7, <1>8, <1>9, <1>10 DEF IInv

LEMMA RevokeKeeps ==
  ASSUME IInv, NEW t \in Request, Revoke(t)
  PROVE  IInv'
<1> DEFINE d == tx[t].old
<1>1. /\ pc[t] = "revoke" /\ status' = [status EXCEPT ![d] = "revoked"]
      /\ d # None => status[d] = tx[t].seen
      /\ UNCHANGED <<supersededBy, signedWith, events, store, log, heads, active, retired, clock>>
  BY DEF Revoke, Unchanged, keyVars
<1>2. /\ pc' \in [Request -> Step] /\ tx' \in [Request -> Tx]
      /\ lock' \in Request \cup {None}
      /\ pc'[t] = "idle" /\ tx'[t] = NoTx
      /\ \A u \in Request \ {t} : pc'[u] = pc[u] /\ tx'[u] = tx[u]
      /\ \A u \in Request \ {t} : lock = u => lock' = u
  BY LeaveFacts DEF Revoke, IInv
<1>3. d \in Doc /\ status[d] # "none"
  BY <1>1 DEF IInv, TypeOK, PhaseInv
<1>4. /\ status' \in [Doc -> Status] /\ status'[d] = "revoked"
      /\ \A e \in Doc \ {d} : status'[e] = status[e]
  BY <1>1, <1>3 DEF IInv, TypeOK, Status
<1> HIDE DEF d
<1>5. TypeOK'
  BY <1>1, <1>2, <1>4 DEF IInv, TypeOK, Tx
<1>6. PhaseInv' /\ LockInv' /\ NoIndexConflict'
  BY <1>1, <1>2, NoTxType DEF IInv, PhaseInv, Issuing, LockInv, NoIndexConflict
<1>7. IssuingInv'
  <2> SUFFICES ASSUME NEW u \in Request, tx'[u].doc # None
               PROVE  /\ status'[tx'[u].doc] = "none"
                      /\ pc'[u] # "render" => tx'[u].doc \in store'
                      /\ \A v \in Request \ {u} : tx'[v].doc # tx'[u].doc
    BY DEF IssuingInv
  <2>1. u # t /\ tx'[u] = tx[u] /\ pc'[u] = pc[u] /\ tx[u].doc \in Doc /\ tx[u].doc # None
    BY <1>2, NoTxType DEF IInv, TypeOK
  <2>2. status[tx[u].doc] = "none"
    BY <2>1 DEF IInv, IssuingInv
  <2>3. \A v \in Request \ {u} : tx'[v].doc # tx'[u].doc
    BY <2>1, <1>2, NoTxType DEF IInv, IssuingInv
  <2> QED BY <2>1, <2>2, <2>3, <1>1, <1>3, <1>4 DEF IInv, IssuingInv
<1>8. KeyInv'
  BY <1>1, <1>2 DEF IInv, KeyInv, Issuing
<1>9. IssuedTogether'
  <2>1. Registry' = Registry
    BY <1>3, <1>4 DEF Registry
  <2> QED BY <2>1, <1>1 DEF IInv, IssuedTogether, Leaves
<1>10. SuccessorInv'
  BY <1>1, <1>3, <1>4 DEF IInv, SuccessorInv
<1>11. SignatureInv'
  <2>1. Registry' = Registry
    BY <1>3, <1>4 DEF Registry
  <2> QED BY <2>1, <1>1, <1>2 DEF IInv, SignatureInv, Issuing
<1> QED BY <1>5, <1>6, <1>7, <1>8, <1>9, <1>10, <1>11 DEF IInv

-----------------------------------------------------------------------------
LEMMA ReadRootKeeps ==
  ASSUME IInv, NEW t \in Request, ReadRoot(t)
  PROVE  IInv'
<1> DEFINE new == [doc |-> None, old |-> None, seen |-> "none", key |-> ActiveKey,
                   created |-> FALSE, index |-> Len(log)]
<1>1. /\ pc[t] = "idle" /\ pc' = [pc EXCEPT ![t] = "sign"]
      /\ tx' = [tx EXCEPT ![t] = new]
      /\ UNCHANGED <<status, supersededBy, signedWith, events, store, log, heads, active, retired,
                     clock, lock>>
  BY DEF ReadRoot, registryVars, keyVars
<1>2. Len(log) \in Nat
  BY DEF IInv, TypeOK
<1>3. new \in Tx /\ new.doc = None /\ ~new.created /\ new.index = Len(log)
  BY <1>2, ActiveKeyRange DEF Tx, Status
<1> HIDE DEF new
<1>4. /\ pc' \in [Request -> Step] /\ tx' \in [Request -> Tx]
      /\ pc'[t] = "sign" /\ tx'[t] = new
      /\ \A u \in Request \ {t} : pc'[u] = pc[u] /\ tx'[u] = tx[u]
  BY <1>1, <1>3 DEF IInv, TypeOK, Step, Tx
<1>5. TypeOK'
  BY <1>1, <1>4 DEF IInv, TypeOK, Tx
<1>6. PhaseInv' /\ IssuingInv'
  BY <1>1, <1>2, <1>3, <1>4 DEF IInv, PhaseInv, Issuing, IssuingInv
<1>7. LockInv' /\ NoIndexConflict' /\ KeyInv'
  BY <1>1, <1>3, <1>4 DEF IInv, LockInv, NoIndexConflict, KeyInv, Issuing
<1>8. IssuedTogether' /\ SuccessorInv'
  BY <1>1 DEF IInv, IssuedTogether, Registry, Leaves, SuccessorInv
<1>9. SignatureInv'
  BY <1>1, <1>4, SignaturesKeep DEF Issuing
<1> QED BY <1>5, <1>6, <1>7, <1>8, <1>9 DEF IInv

LEMMA PublishHeadKeeps ==
  ASSUME IInv, NEW t \in Request, PublishHead(t)
  PROVE  IInv'
<1>1. /\ pc[t] = "sign" /\ heads' = Append(heads, SubSeq(log, 1, tx[t].index))
      /\ UNCHANGED <<status, supersededBy, signedWith, events, store, log, active, retired, clock>>
  BY DEF PublishHead, registryVars, keyVars
<1>2. /\ pc' \in [Request -> Step] /\ tx' \in [Request -> Tx]
      /\ lock' \in Request \cup {None}
      /\ pc'[t] = "idle" /\ tx'[t] = NoTx
      /\ \A u \in Request \ {t} : pc'[u] = pc[u] /\ tx'[u] = tx[u]
      /\ \A u \in Request \ {t} : lock = u => lock' = u
  BY LeaveFacts DEF PublishHead, IInv
<1>3. heads' \in Seq(Seq(Doc))
  <2>1. log \in Seq(Doc) /\ heads \in Seq(Seq(Doc)) /\ tx[t].index \in 0..Len(log)
    BY <1>1 DEF IInv, TypeOK, PhaseInv
  <2>2. SubSeq(log, 1, tx[t].index) \in Seq(Doc)
    BY <2>1, SubSeqProperties
  <2> HIDE DEF IInv
  <2> QED BY <1>1, <2>1, <2>2, AppendProperties
<1>4. TypeOK'
  BY <1>1, <1>2, <1>3 DEF IInv, TypeOK, Tx
<1>5. PhaseInv' /\ LockInv' /\ NoIndexConflict'
  BY <1>1, <1>2, NoTxType DEF IInv, PhaseInv, Issuing, LockInv, NoIndexConflict
<1>8. IssuingInv'
  BY <1>1, <1>2, NoTxType DEF IInv, IssuingInv
<1>6. KeyInv'
  BY <1>1, <1>2 DEF IInv, KeyInv, Issuing
<1>7. IssuedTogether' /\ SuccessorInv'
  BY <1>1 DEF IInv, IssuedTogether, Registry, Leaves, SuccessorInv
<1>9. SignatureInv'
  BY <1>1, <1>2, SignaturesKeep DEF Issuing
<1> QED BY <1>4, <1>5, <1>6, <1>7, <1>8, <1>9 DEF IInv

LEMMA BeginRotationKeeps ==
  ASSUME IInv, NEW t \in Request, BeginRotation(t)
  PROVE  IInv'
<1> DEFINE new == [doc |-> None, old |-> None, seen |-> "none", key |-> clock + 1,
                   created |-> FALSE, index |-> ActiveKey]
<1>1. /\ pc[t] = "idle" /\ pc' = [pc EXCEPT ![t] = "rotate"]
      /\ clock < MaxKeys /\ clock' = clock + 1
      /\ tx' = [tx EXCEPT ![t] = new]
      /\ UNCHANGED <<status, supersededBy, signedWith, events, store, log, heads, active, retired,
                     lock>>
  BY DEF BeginRotation, registryVars
<1>2. clock \in Nat /\ MaxKeys \in Nat /\ clock' \in 1..MaxKeys /\ ActiveKey \in 0..clock
  BY <1>1, ActiveKeyRange, DocumentsAssumption DEF IInv, TypeOK
<1>3. /\ new \in Tx /\ new.doc = None /\ ~new.created
      /\ new.key \in 1..clock' /\ new.index < new.key
  BY <1>1, <1>2 DEF Tx, Status
<1> HIDE DEF new
<1>4. /\ pc' \in [Request -> Step] /\ tx' \in [Request -> Tx]
      /\ pc'[t] = "rotate" /\ tx'[t] = new
      /\ \A u \in Request \ {t} : pc'[u] = pc[u] /\ tx'[u] = tx[u]
  BY <1>1, <1>3 DEF IInv, TypeOK, Step, Tx
<1>5. \A k : k \in 1..clock => k \in 1..clock'
  BY <1>1, <1>2
<1>6. TypeOK'
  BY <1>1, <1>2, <1>4, <1>5 DEF IInv, TypeOK, Tx
<1>7. PhaseInv' /\ IssuingInv'
  BY <1>1, <1>3, <1>4 DEF IInv, PhaseInv, Issuing, IssuingInv
<1>8. LockInv' /\ NoIndexConflict'
  BY <1>1, <1>4 DEF IInv, LockInv, NoIndexConflict
<1>9. KeyInv'
  BY <1>1, <1>3, <1>4, <1>5 DEF IInv, KeyInv, Issuing
<1>10. IssuedTogether' /\ SuccessorInv'
  BY <1>1 DEF IInv, IssuedTogether, Registry, Leaves, SuccessorInv
<1>11. SignatureInv'
  BY <1>1, <1>4, SignaturesKeep DEF Issuing
<1> QED BY <1>6, <1>7, <1>8, <1>9, <1>10, <1>11 DEF IInv

\* Of the keys that stay, and the new one, one is the youngest.
LEMMA YoungestAfterRotation ==
  ASSUME IInv, NEW t \in Request, CommitRotation(t)
  PROVE  \E k \in active' : /\ \A j \in active' : j <= k
                            /\ ActiveKey <= k
<1> DEFINE old == tx[t].index
           new == tx[t].key
<1>1. /\ active' = (active \ ({old} \ {0})) \cup {new}
      /\ pc[t] = "rotate" /\ ({old} \ {0}) \subseteq active
  BY DEF CommitRotation
<1>2. active \subseteq 1..clock /\ clock \in Nat /\ new \in 1..clock /\ old \in Nat /\ old < new
  BY <1>1, DocumentsAssumption DEF IInv, TypeOK, KeyInv
<1> HIDE DEF old, new
<1>3. CASE active = {}
  BY <1>1, <1>2, <1>3, ActiveKeyFact DEF IInv
<1>4. CASE active # {}
  <2>1. ActiveKey \in active /\ \A j \in active : j <= ActiveKey
    BY <1>2, <1>4, ActiveKeyFact DEF IInv
  <2>2. CASE ActiveKey <= new
    BY <1>1, <1>2, <2>1, <2>2
  <2>3. CASE new < ActiveKey
    BY <1>1, <1>2, <2>1, <2>3
  <2> QED BY <1>2, <2>1, <2>2, <2>3
<1> QED BY <1>3, <1>4

LEMMA CommitRotationKeeps ==
  ASSUME IInv, NEW t \in Request, CommitRotation(t)
  PROVE  IInv'
<1>1. /\ pc[t] = "rotate"
      /\ ({tx[t].index} \ {0}) \subseteq active
      /\ active' = (active \ ({tx[t].index} \ {0})) \cup {tx[t].key}
      /\ retired' = retired \cup ({tx[t].index} \ {0})
      /\ UNCHANGED <<status, supersededBy, signedWith, events, store, log, heads, clock>>
  BY DEF CommitRotation, registryVars
<1>2. /\ pc' \in [Request -> Step] /\ tx' \in [Request -> Tx]
      /\ lock' \in Request \cup {None}
      /\ pc'[t] = "idle" /\ tx'[t] = NoTx
      /\ \A u \in Request \ {t} : pc'[u] = pc[u] /\ tx'[u] = tx[u]
      /\ \A u \in Request \ {t} : lock = u => lock' = u
  BY LeaveFacts DEF CommitRotation, IInv
<1>3. active' \subseteq 1..clock /\ retired' \subseteq 1..clock
  <2>1. active \subseteq 1..clock /\ retired \subseteq 1..clock /\ tx[t].key \in 1..clock
    BY <1>1 DEF IInv, TypeOK, KeyInv
  <2> QED BY <1>1, <2>1
<1>4. TypeOK'
  BY <1>1, <1>2, <1>3 DEF IInv, TypeOK, Tx
<1>5. PhaseInv' /\ LockInv' /\ NoIndexConflict' /\ IssuingInv'
  BY <1>1, <1>2, NoTxType DEF IInv, PhaseInv, Issuing, LockInv, NoIndexConflict, IssuingInv
<1>6. KeyInv'
  BY <1>1, <1>2, YoungestAfterRotation DEF IInv, KeyInv, Issuing
<1>7. IssuedTogether' /\ SuccessorInv'
  BY <1>1 DEF IInv, IssuedTogether, Registry, Leaves, SuccessorInv
<1>8. SignatureInv'
  <2> DEFINE old == tx[t].index
             new == tx[t].key
  <2>1. /\ active' = (active \ ({old} \ {0})) \cup {new} /\ retired' = retired \cup ({old} \ {0})
        /\ active \subseteq Nat /\ retired \subseteq Nat /\ new \in Nat /\ old \in Nat /\ old < new
    BY <1>1, DocumentsAssumption DEF IInv, TypeOK, KeyInv
  <2> HIDE DEF old, new
  <2>2. ASSUME NEW j \in active PROVE \E k \in active' : j <= k
    <3>1. CASE j = old
      BY <2>1, <3>1
    <3>2. CASE j # old
      BY <2>1, <3>2
    <3> QED BY <3>1, <3>2
  <2>3. ASSUME NEW k \in retired' PROVE \E j \in active' : k < j
    <3>1. CASE k = old
      BY <2>1, <3>1
    <3>2. CASE k \in retired
      <4>1. PICK j \in active : k < j
        BY <3>2 DEF IInv, SignatureInv
      <4>2. PICK i \in active' : j <= i
        BY <2>2
      <4> QED BY <4>1, <4>2, <2>1, <3>2
    <3> QED BY <2>1, <3>1, <3>2
  <2>4. ASSUME NEW key \in Nat, \E j \in active : key <= j
        PROVE  \E j \in active' : key <= j
    <3>1. PICK j \in active : key <= j
      BY <2>4
    <3>2. PICK i \in active' : j <= i
      BY <2>2
    <3> QED BY <3>1, <3>2, <2>1
  <2>5. \A d \in Registry' : \E j \in active' : signedWith'[d] <= j
    <3>1. Registry' = Registry /\ signedWith' = signedWith
      BY <1>1 DEF Registry
    <3>2. \A d \in Registry : signedWith[d] \in Nat
      BY DocumentsAssumption DEF IInv, TypeOK, Registry
    <3> QED BY <2>4, <3>1, <3>2 DEF IInv, SignatureInv
  <2>6. \A u \in Request : Issuing(u)' /\ ~tx'[u].created => \E j \in active' : tx'[u].key <= j
    <3>1. \A u \in Request : tx[u].key \in Nat
      BY DocumentsAssumption DEF IInv, TypeOK
    <3> QED BY <1>2, <2>4, <3>1 DEF IInv, SignatureInv, Issuing
  <2> QED BY <2>3, <2>5, <2>6 DEF SignatureInv
<1> QED BY <1>4, <1>5, <1>6, <1>7, <1>8 DEF IInv

-----------------------------------------------------------------------------
LEMMA StutterKeeps == IInv /\ UNCHANGED vars => IInv'
  BY DEF IInv, TypeOK, PhaseInv, Issuing, IssuingInv, LockInv, NoIndexConflict,
         IssuedTogether, Registry, Leaves, KeyInv, SignatureInv, SuccessorInv, vars

LEMMA NextKeeps == IInv /\ [Next]_vars => IInv'
<1> SUFFICES ASSUME IInv, [Next]_vars PROVE IInv'
  OBVIOUS
<1>1. ASSUME NEW t \in Request, Issue(t) PROVE IInv'
  BY <1>1, BeginIssueKeeps, StoreOriginalKeeps, AppendLeafKeeps, CommitIssueKeeps DEF Issue
<1>2. ASSUME NEW t \in Request, Withdraw(t) PROVE IInv'
  BY <1>2, LoadDocumentKeeps, RevokeKeeps DEF Withdraw
<1>3. ASSUME NEW t \in Request, Publish(t) PROVE IInv'
  BY <1>3, ReadRootKeeps, PublishHeadKeeps DEF Publish
<1>4. ASSUME NEW t \in Request, Rotate(t) PROVE IInv'
  BY <1>4, BeginRotationKeeps, CommitRotationKeeps DEF Rotate
<1>5. ASSUME NEW t \in Request, RollBack(t) PROVE IInv'
  BY <1>5, RollBackKeeps
<1>6. CASE Quiet \/ UNCHANGED vars
  BY <1>6, StutterKeeps DEF Quiet
<1> QED BY <1>1, <1>2, <1>3, <1>4, <1>5, <1>6 DEF Next

LEMMA Invariant == Spec => []IInv
  BY InitHolds, NextKeeps, PTL DEF Spec

-----------------------------------------------------------------------------
\* No statement of a request fails on a value of the wrong kind: types of all variables.
THEOREM TypeCorrect == Spec => []TypeOK
  BY Invariant, PTL DEF IInv

\* Registry row, leaf and event of a document appear together, its original before them, for
\* any number of requests that roll back or die.
THEOREM IssuedAsAWhole == Spec => []IssuedTogether
  BY Invariant, PTL DEF IInv

\* No two requests ever bring a leaf with the same index to the unique constraint.
THEOREM IndexesAreDense == Spec => []NoIndexConflict
  BY Invariant, PTL DEF IInv

\* The log of leaves and signed heads is the append-only log of TransparencyLog.
THEOREM LogImplementsPromise == Spec => LogIsAppendOnly
<1>1. Init => Promised!Init
  BY DEF Init, Promised!Init
<1>2. IInv /\ [Next]_vars => [Promised!Next]_<<log, heads>>
  <2> SUFFICES ASSUME IInv, [Next]_vars PROVE [Promised!Next]_<<log, heads>>
    OBVIOUS
  <2>1. ASSUME NEW t \in Request, CommitIssue(t)
        PROVE  Promised!Next
    <3>1. pc[t] = "commit" /\ log' = Append(log, tx[t].doc) /\ heads' = heads
      BY <2>1 DEF CommitIssue
    <3>2. tx[t].doc \in Doc /\ status[tx[t].doc] = "none"
      BY <3>1 DEF IInv, TypeOK, PhaseInv, Issuing, IssuingInv
    <3>3. \A i \in DOMAIN log : log[i] # tx[t].doc
      BY <3>2 DEF IInv, IssuedTogether, Leaves, Registry
    <3>4. Promised!Append1(tx[t].doc)
      BY <3>1, <3>3 DEF Promised!Append1
    <3> QED BY <3>2, <3>4 DEF Promised!Next
  <2>2. ASSUME NEW t \in Request, PublishHead(t)
        PROVE  Promised!Next
    <3>1. /\ pc[t] = "sign" /\ heads' = Append(heads, SubSeq(log, 1, tx[t].index))
          /\ log' = log
      BY <2>2 DEF PublishHead
    <3>2. tx[t].index \in 0..Len(log)
      BY <3>1 DEF IInv, TypeOK, PhaseInv
    <3>3. Promised!Sign(tx[t].index)
      BY <3>1 DEF Promised!Sign
    <3> QED BY <3>2, <3>3 DEF Promised!Next
  <2>3. ASSUME NEW t \in Request,
               \/ BeginIssue(t) \/ StoreOriginal(t) \/ AppendLeaf(t) \/ Withdraw(t)
               \/ ReadRoot(t) \/ Rotate(t) \/ RollBack(t)
        PROVE  UNCHANGED <<log, heads>>
    BY <2>3 DEF BeginIssue, StoreOriginal, AppendLeaf, Withdraw, LoadDocument, Revoke, ReadRoot,
                Rotate, BeginRotation, CommitRotation, RollBack
  <2>4. CASE Quiet \/ UNCHANGED vars
    BY <2>4 DEF Quiet, vars
  <2> QED BY <2>1, <2>2, <2>3, <2>4 DEF Next, Issue, Publish
<1> QED BY <1>1, <1>2, Invariant, PTL DEF Spec, LogIsAppendOnly, Promised!Spec

\* Documents only move from CURRENT to SUPERSEDED to REVOKED, and keep their successor.
THEOREM StatusesMoveForward == Spec => StatusMovesForward
<1> DEFINE Forward(d) ==
      /\ Rank[status[d]] <= Rank[status'[d]]
      /\ supersededBy[d] # None => supersededBy'[d] = supersededBy[d]
<1>1. IInv /\ [Next]_vars => [\A d \in Doc : Forward(d)]_vars
  <2> SUFFICES ASSUME IInv, [Next]_vars, NEW d \in Doc PROVE Forward(d)
    OBVIOUS
  <2>1. \A s \in Status : Rank[s] \in 0..3
    BY DEF Status, Rank
  <2>2. ASSUME UNCHANGED <<status, supersededBy>> PROVE Forward(d)
    <3>1. status'[d] = status[d] /\ supersededBy'[d] = supersededBy[d]
      BY <2>2
    <3>2. Rank[status[d]] \in 0..3
      BY <2>1 DEF IInv, TypeOK
    <3> QED BY <3>1, <3>2
  <2>3. ASSUME NEW t \in Request, CommitIssue(t) PROVE Forward(d)
    <3> DEFINE new == tx[t].doc
               old == tx[t].old
    <3>1. /\ pc[t] = "commit"
          /\ status' = [e \in Doc |-> IF e = new THEN "current"
                                      ELSE IF e = old THEN "superseded" ELSE status[e]]
          /\ old # None => status[old] = "current"
          /\ supersededBy' = IF old = None THEN supersededBy
                             ELSE [supersededBy EXCEPT ![old] = new]
      BY <2>3 DEF CommitIssue, Unchanged
    <3>2. new \in Doc /\ status[new] = "none" /\ old \in Doc \cup {None}
      BY <3>1 DEF IInv, TypeOK, PhaseInv, Issuing, IssuingInv
    <3> HIDE DEF new, old
    <3>3. CASE d = new
      <4>1. status'[d] = "current" /\ status[d] = "none" /\ supersededBy[d] = None
        BY <3>1, <3>2, <3>3 DEF IInv, SuccessorInv
      <4> QED BY <4>1 DEF Rank
    <3>4. CASE d = old /\ d # new
      <4>1. status'[d] = "superseded" /\ status[d] = "current" /\ supersededBy[d] = None
        BY <3>1, <3>2, <3>4, DocumentsAssumption DEF IInv, SuccessorInv
      <4> QED BY <4>1 DEF Rank
    <3>5. CASE d # old /\ d # new
      <4>1. status'[d] = status[d] /\ supersededBy'[d] = supersededBy[d]
        BY <3>1, <3>2, <3>5 DEF IInv, TypeOK
      <4>2. Rank[status[d]] \in 0..3
        BY <2>1 DEF IInv, TypeOK
      <4> QED BY <4>1, <4>2
    <3> QED BY <3>3, <3>4, <3>5
  <2>4. ASSUME NEW t \in Request, Revoke(t) PROVE Forward(d)
    <3>1. status' = [status EXCEPT ![tx[t].old] = "revoked"] /\ supersededBy' = supersededBy
      BY <2>4 DEF Revoke
    <3>2. status'[d] = status[d] \/ status'[d] = "revoked"
      BY <3>1 DEF IInv, TypeOK
    <3>3. Rank["revoked"] = 3 /\ status[d] \in Status
      BY DEF Rank, IInv, TypeOK
    <3>4. CASE status'[d] = status[d]
      BY <3>1, <3>3, <3>4, <2>1
    <3>5. CASE status'[d] = "revoked"
      BY <3>1, <3>3, <3>5, <2>1
    <3> QED BY <3>2, <3>4, <3>5
  <2>5. ASSUME NEW t \in Request,
               \/ BeginIssue(t) \/ StoreOriginal(t) \/ AppendLeaf(t) \/ LoadDocument(t)
               \/ Publish(t) \/ Rotate(t) \/ RollBack(t)
        PROVE  UNCHANGED <<status, supersededBy>>
    BY <2>5 DEF BeginIssue, StoreOriginal, AppendLeaf, LoadDocument, Publish, ReadRoot, PublishHead,
                Rotate, BeginRotation, CommitRotation, RollBack, registryVars
  <2>6. CASE Quiet \/ UNCHANGED vars
    BY <2>6, <2>2 DEF Quiet, vars
  <2> HIDE DEF Forward
  <2> QED BY <2>2, <2>3, <2>4, <2>5, <2>6 DEF Next, Issue, Withdraw
<1> QED BY <1>1, Invariant, PTL DEF Spec, StatusMovesForward

\* An issue or a head that begins once a document is registered is signed with the key of that
\* document or a younger one, and one that begins once a key is retired with a younger one,
\* however first keys and rotations of any number of requests cross.
THEOREM KeysOnlyGetYounger == Spec => KeysNeverGoBack
<1> DEFINE Younger(t) == Begins(t) => /\ \A d \in Registry : signedWith[d] <= tx'[t].key
                                      /\ \A k \in retired : k < tx'[t].key
<1>1. IInv /\ [Next]_vars => [\A t \in Request : Younger(t)]_vars
  <2> SUFFICES ASSUME IInv, [Next]_vars, vars' # vars, NEW t \in Request, Begins(t)
               PROVE  /\ \A d \in Registry : signedWith[d] <= tx'[t].key
                      /\ \A k \in retired : k < tx'[t].key
    OBVIOUS
  <2>1. /\ active \subseteq 1..clock /\ retired \subseteq 1..clock /\ clock \in Nat
        /\ \A d \in Registry : signedWith[d] \in Nat
        /\ \A k \in retired : \E j \in active : k < j
        /\ \A d \in Registry : \E j \in active : signedWith[d] <= j
    BY DocumentsAssumption DEF IInv, TypeOK, Registry, SignatureInv
  <2>2. pc[t] = "idle" /\ pc'[t] \in {"render", "sign"}
    BY DEF Begins
  <2>3. BeginIssue(t) \/ ReadRoot(t)
    <3>1. PICK u \in Request : Issue(u) \/ Withdraw(u) \/ Publish(u) \/ Rotate(u) \/ RollBack(u)
      BY DEF Next, Quiet
    <3>2. CASE u # t
      <4>1. \E step \in Step : pc' = [pc EXCEPT ![u] = step]
        BY <3>1 DEF Issue, BeginIssue, StoreOriginal, AppendLeaf, CommitIssue, Withdraw,
                    LoadDocument, Revoke, Publish, ReadRoot, PublishHead, Rotate, BeginRotation,
                    CommitRotation, RollBack, Leave, Step
      <4> QED BY <2>2, <3>2, <4>1 DEF IInv, TypeOK
    <3>3. CASE u = t
      <4>1. ~StoreOriginal(t) /\ ~AppendLeaf(t) /\ ~CommitIssue(t) /\ ~Revoke(t) /\ ~PublishHead(t)
            /\ ~CommitRotation(t) /\ ~RollBack(t)
        BY <2>2 DEF StoreOriginal, AppendLeaf, CommitIssue, Revoke, PublishHead, CommitRotation,
                    RollBack
      <4>2. ~LoadDocument(t) /\ ~BeginRotation(t)
        BY <2>2 DEF LoadDocument, BeginRotation, IInv, TypeOK
      <4> QED BY <3>1, <3>3, <4>1, <4>2 DEF Issue, Withdraw, Publish, Rotate
    <3> QED BY <3>2, <3>3
  <2>4. tx'[t].key = IF active = {} THEN clock + 1 ELSE ActiveKey
    <3>1. tx \in [Request -> Tx]
      BY DEF IInv, TypeOK, Tx
    <3>2. CASE ReadRoot(t)
      BY <3>1, <3>2 DEF ReadRoot
    <3>3. CASE BeginIssue(t)
      <4>1. \E d, old : \/ /\ active # {}
                          /\ tx' = [tx EXCEPT ![t] = [doc |-> d, old |-> old, seen |-> "none",
                                       key |-> ActiveKey, created |-> FALSE, index |-> 0]]
                       \/ /\ active = {}
                          /\ tx' = [tx EXCEPT ![t] = [doc |-> d, old |-> old, seen |-> "none",
                                       key |-> clock + 1, created |-> TRUE, index |-> 0]]
        BY <3>3 DEF BeginIssue
      <4> QED BY <3>1, <4>1
    <3> QED BY <2>3, <3>2, <3>3
  <2>5. CASE active = {}
    BY <2>1, <2>4, <2>5
  <2>6. CASE active # {}
    <3>1. ActiveKey \in active /\ \A j \in active : j <= ActiveKey
      BY <2>1, <2>6, ActiveKeyFact DEF IInv
    <3> QED BY <2>1, <2>4, <2>6, <3>1
  <2> QED BY <2>5, <2>6
<1> QED BY <1>1, Invariant, PTL DEF Spec, KeysNeverGoBack
=============================================================================
