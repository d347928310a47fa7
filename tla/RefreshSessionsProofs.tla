------------------------ MODULE RefreshSessionsProofs ------------------------
(***************************************************************************)
(* Theorems about RefreshSessions for any number of requests, tokens and   *)
(* passwords.  The inductive invariant says what a request knows between   *)
(* its claim and its commit: the token it rotates is live and stays so,    *)
(* because the request holds the lock of its row, and the token it will    *)
(* insert is its own.                                                      *)
(***************************************************************************)
EXTENDS RefreshSessions, TLAPS

\* A token a request is about to insert is not in the table and is not another's.
NewInv ==
  /\ \A t \in Request : new[t] \notin issued
  /\ \A t, u \in Request : new[t] = new[u] /\ new[t] # None => t = u
  /\ \A t \in Request :
       \/ pc[t] \in {"claim", "rotate"}
       \/ pc[t] \in {"save", "saved"} /\ why[t] = "login"
       => new[t] \in Token

\* The token presented is in the table; a claimed one is live and locked.
ClaimInv ==
  /\ \A t \in Request : tok[t] # None => tok[t] \in issued
  /\ \A t \in Request : pc[t] \in {"claim", "rotate"} => tok[t] # None
  /\ \A t \in Request : pc[t] = "rotate" => tok[t] \notin Dead /\ tokenLock[tok[t]] = t

\* A lock is held by the request that claims or revokes the row.
LockInv ==
  \A k \in Token : tokenLock[k] # None =>
    /\ k \in issued
    /\ pc[tokenLock[k]] \in {"rotate", "revoke"}
    /\ pc[tokenLock[k]] = "rotate" => tok[tokenLock[k]] = k

\* A session is named after a token of the table.
SessionInv ==
  \A k \in Token : IF k \in issued THEN sessionOf[k] \in issued ELSE sessionOf[k] = k

WriteInv ==
  \A t \in Request :
    /\ why[t] \in {"disable", "password", "patch"} => write[t] \in Account
    /\ matched[t] \subseteq issued

IInv ==
  /\ TypeOK
  /\ NewInv
  /\ ClaimInv
  /\ LockInv
  /\ SessionInv
  /\ WriteInv
  /\ LinearChain

-----------------------------------------------------------------------------
\* What a step is, in the words the lemmas below split on.
Action(t) ==
  \/ ReadToken(t) \/ Claim(t) \/ CommitRefresh(t) \/ LoseClaim(t) \/ RefuseLoser(t)
  \/ ReadCredentials(t) \/ CommitLogin(t) \/ ReadAccount(t) \/ SaveAccount(t)
  \/ CommitPatch(t) \/ ReadLogout(t) \/ ScanTokens(t) \/ LockToken(t)
  \/ CommitRevocation(t) \/ RollBack(t)

LEMMA StepCases ==
  ASSUME [Next]_vars
  PROVE  \/ \E t \in Request : Action(t)
         \/ \E k \in Token : Expire(k)
         \/ UNCHANGED vars
BY DEF Next, Serve, Refresh, Login, Manage, Revoke, DeadlockVictim, Action

LEMMA InitIInv == Init => IInv
<1> SUFFICES ASSUME Init PROVE IInv
  OBVIOUS
<1> USE NoneAssumption DEF Init
<1>1. TypeOK
  BY DEF TypeOK, Account
<1>2. NewInv /\ ClaimInv /\ LockInv /\ SessionInv /\ WriteInv
  BY DEF NewInv, ClaimInv, LockInv, SessionInv, WriteInv
<1>3. LinearChain
  BY DEF LinearChain, Live
<1>4. QED
  BY <1>1, <1>2, <1>3 DEF IInv

\* The account row keeps its type.
LEMMA RowStep ==
  ASSUME IInv, NEW t \in Request, Action(t)
  PROVE  /\ row' \in Account
         /\ write' \in [Request -> Account \cup {None}]
         /\ read' \in [Request -> Account \cup {None}]
         /\ why[t]' \in {"disable", "password", "patch"} => write[t]' \in Account
<1> USE NoneAssumption DEF IInv, TypeOK, WriteInv
<1>1. /\ \A s \in Status : WithStatus(row, s) \in Account
      /\ \A p \in Password : WithPassword(row, p) \in Account
  BY DEF Account, WithStatus, WithPassword
<1>2. CASE CommitPatch(t)
  BY <1>2 DEF CommitPatch, Leave
<1>3. CASE CommitRevocation(t)
  <2>1. why[t] = "password" => write[t].password \in Password
    BY DEF Account
  <2>2. Saved(t) \in Account
    BY <1>1, <2>1 DEF Saved, Status
  <2>3. QED
    BY <1>3, <2>2 DEF CommitRevocation, Leave
<1>4. CASE ReadAccount(t)
  <2>1. PICK a \in Account : write' = [write EXCEPT ![t] = a]
    <3>1. "DISABLED" \in Status
      BY DEF Status
    <3>2. \/ write' = [write EXCEPT ![t] = WithStatus(row, "DISABLED")]
          \/ \E p \in Password : write' = [write EXCEPT ![t] = WithPassword(row, p)]
          \/ \E s \in Status : write' = [write EXCEPT ![t] = WithStatus(row, s)]
      BY <1>4 DEF ReadAccount
    <3>3. CASE write' = [write EXCEPT ![t] = WithStatus(row, "DISABLED")]
      BY <1>1, <3>1, <3>3
    <3>4. CASE \E p \in Password : write' = [write EXCEPT ![t] = WithPassword(row, p)]
      BY <1>1, <3>4
    <3>5. CASE \E s \in Status : write' = [write EXCEPT ![t] = WithStatus(row, s)]
      BY <1>1, <3>5
    <3>6. QED
      BY <3>2, <3>3, <3>4, <3>5
  <2>2. QED
    BY <1>4, <2>1 DEF ReadAccount, accountVars
<1>5. CASE ReadToken(t) \/ ReadCredentials(t) \/ ReadLogout(t) \/ LoseClaim(t)
  BY <1>5 DEF ReadToken, ReadCredentials, ReadLogout, LoseClaim, accountVars
<1>6. CASE Claim(t) \/ SaveAccount(t) \/ ScanTokens(t) \/ LockToken(t)
  BY <1>6 DEF Claim, SaveAccount, ScanTokens, LockToken, accountVars
<1>7. CASE CommitRefresh(t) \/ CommitLogin(t) \/ RefuseLoser(t) \/ RollBack(t)
  BY <1>7 DEF CommitRefresh, CommitLogin, RefuseLoser, RollBack, Leave
<1>8. QED
  BY <1>2, <1>3, <1>4, <1>5, <1>6, <1>7 DEF Action

\* The tables of tokens and of requests keep their types.
LEMMA TypeStep ==
  ASSUME IInv, NEW t \in Request, Action(t)
  PROVE  TypeOK'
<1> USE NoneAssumption DEF IInv, TypeOK, accountVars, tokenVars
<1>1. /\ row' \in Account
      /\ write' \in [Request -> Account \cup {None}]
      /\ read' \in [Request -> Account \cup {None}]
  BY RowStep
<1>2. CASE ReadToken(t)
  <2>1. PICK k \in issued : tok' = [tok EXCEPT ![t] = k]
    BY <1>2 DEF ReadToken
  <2>2. new' \in [Request -> Token \cup {None}]
    BY <1>2 DEF ReadToken
  <2>3. QED
    BY <1>1, <1>2, <2>1, <2>2 DEF ReadToken
<1>3. CASE Claim(t)
  BY <1>1, <1>3 DEF Claim, ClaimInv
<1>4. CASE CommitRefresh(t)
  <2>1. tok[t] \in issued /\ new[t] \in Token
    BY <1>4 DEF CommitRefresh, ClaimInv, NewInv
  <2>2. QED
    BY <1>1, <1>4, <2>1 DEF CommitRefresh, Leave
<1>5. CASE LoseClaim(t)
  BY <1>1, <1>5 DEF LoseClaim
<1>6. CASE RefuseLoser(t) \/ RollBack(t) \/ CommitPatch(t)
  BY <1>1, <1>6 DEF RefuseLoser, RollBack, CommitPatch, Leave
<1>7. CASE ReadCredentials(t)
  BY <1>1, <1>7 DEF ReadCredentials
<1>8. CASE CommitLogin(t)
  <2>1. new[t] \in Token
    BY <1>8 DEF CommitLogin, NewInv
  <2>2. QED
    BY <1>1, <1>8, <2>1 DEF CommitLogin, Leave
<1>9. CASE ReadAccount(t)
  <2>1. \E w \in {"disable", "password", "patch"} : why' = [why EXCEPT ![t] = w]
    BY <1>9 DEF ReadAccount
  <2>2. QED
    BY <1>1, <1>9, <2>1 DEF ReadAccount
<1>10. CASE SaveAccount(t)
  BY <1>1, <1>10 DEF SaveAccount
<1>11. CASE ReadLogout(t)
  <2>1. PICK k \in issued : tok' = [tok EXCEPT ![t] = k]
    BY <1>11 DEF ReadLogout
  <2>2. QED
    BY <1>1, <1>11, <2>1 DEF ReadLogout
<1>12. CASE ScanTokens(t)
  BY <1>1, <1>12 DEF ScanTokens
<1>13. CASE LockToken(t)
  <2>1. PICK k \in matched[t] :
          /\ tokenLock' = IF k \in revoked THEN tokenLock ELSE [tokenLock EXCEPT ![k] = t]
          /\ matched' = [matched EXCEPT ![t] = @ \ {k}]
    BY <1>13 DEF LockToken
  <2>2. QED
    BY <1>1, <1>13, <2>1 DEF LockToken
<1>14. CASE CommitRevocation(t)
  <2>1. {k \in Token : tokenLock[k] = t} \subseteq issued
    BY DEF LockInv
  <2>2. QED
    BY <1>1, <1>14, <2>1 DEF CommitRevocation, Leave
<1>15. QED
  BY <1>2, <1>3, <1>4, <1>5, <1>6, <1>7, <1>8, <1>9, <1>10, <1>11, <1>12, <1>13, <1>14
     DEF Action

\* The tokens about to be inserted stay new and distinct.
LEMMA NewStep ==
  ASSUME IInv, TypeOK', NEW t \in Request, Action(t)
  PROVE  NewInv'
<1> USE NoneAssumption DEF IInv, TypeOK, NewInv, Generated, accountVars, tokenVars
<1>1. CASE ReadToken(t)
  <2>1. CASE new' = new
    BY <1>1, <2>1 DEF ReadToken
  <2>2. CASE \E n \in Token \ Generated : new' = [new EXCEPT ![t] = n]
    <3>1. PICK n \in Token \ Generated : new' = [new EXCEPT ![t] = n]
      BY <2>2
    <3>2. QED
      BY <1>1, <3>1 DEF ReadToken
  <2>3. QED
    BY <1>1, <2>1, <2>2 DEF ReadToken
<1>2. CASE ReadCredentials(t)
  <2>1. PICK n \in Token \ Generated : new' = [new EXCEPT ![t] = n]
    BY <1>2 DEF ReadCredentials
  <2>2. QED
    BY <1>2, <2>1 DEF ReadCredentials
<1>3. CASE Claim(t) \/ LoseClaim(t) \/ SaveAccount(t)
  BY <1>3 DEF Claim, LoseClaim, SaveAccount
<1>4. CASE ReadAccount(t)
  <2>1. PICK w \in {"disable", "password", "patch"} : why' = [why EXCEPT ![t] = w]
    BY <1>4 DEF ReadAccount
  <2>2. QED
    BY <1>4, <2>1 DEF ReadAccount
<1>5. CASE ReadLogout(t) \/ ScanTokens(t) \/ LockToken(t)
  BY <1>5 DEF ReadLogout, ScanTokens, LockToken
<1>6. CASE RefuseLoser(t) \/ RollBack(t) \/ CommitPatch(t) \/ CommitRevocation(t)
  BY <1>6, SMTT(30) DEF RefuseLoser, RollBack, CommitPatch, CommitRevocation, Leave
<1>7. CASE CommitRefresh(t) \/ CommitLogin(t)
  <2>1. issued' = issued \cup {new[t]} /\ new' = [new EXCEPT ![t] = None]
    BY <1>7 DEF CommitRefresh, CommitLogin, Leave
  <2>2. /\ pc' = [pc EXCEPT ![t] = "idle"]
        /\ why' = [why EXCEPT ![t] = "none"]
    BY <1>7 DEF CommitRefresh, CommitLogin, Leave
  <2>3. new[t] \in Token
    BY <1>7 DEF CommitRefresh, CommitLogin
  <2>4. QED
    BY <2>1, <2>2, <2>3
<1>8. QED
  BY <1>1, <1>2, <1>3, <1>4, <1>5, <1>6, <1>7 DEF Action

\* What a request does to the tokens that are dead, and which it may.
LEMMA DeadStep ==
  ASSUME IInv, NEW t \in Request, Action(t)
  PROVE  /\ issued \subseteq issued'
         /\ Dead \subseteq Dead'
         /\ \A k \in Dead' \ Dead : tokenLock[k] = t
         /\ \A k \in Token : tokenLock[k] \notin {None, t} => tokenLock'[k] = tokenLock[k]
         /\ \A u \in Request \ {t} : /\ pc'[u] = pc[u] /\ tok'[u] = tok[u]
                                     /\ matched'[u] = matched[u]
                                     /\ why'[u] = why[u] /\ write'[u] = write[u]
<1> USE NoneAssumption DEF IInv, TypeOK, Dead, accountVars, tokenVars
<1>1. CASE ReadToken(t) \/ ReadCredentials(t) \/ ReadLogout(t) \/ LoseClaim(t) \/ Claim(t)
  BY <1>1 DEF ReadToken, ReadCredentials, ReadLogout, LoseClaim, Claim, Free
<1>2. CASE ReadAccount(t)
  <2>1. \A u \in Request \ {t} : why'[u] = why[u] /\ write'[u] = write[u]
    BY <1>2 DEF ReadAccount
  <2>2. QED
    BY <1>2, <2>1 DEF ReadAccount
<1>3. CASE SaveAccount(t) \/ ScanTokens(t)
  BY <1>3 DEF SaveAccount, ScanTokens
<1>4. CASE LockToken(t)
  BY <1>4 DEF LockToken, Free
<1>5. CASE RefuseLoser(t) \/ RollBack(t) \/ CommitPatch(t)
  BY <1>5 DEF RefuseLoser, RollBack, CommitPatch, Leave
<1>6. CASE CommitRefresh(t) \/ CommitLogin(t)
  BY <1>6 DEF CommitRefresh, CommitLogin, Leave, ClaimInv
<1>7. CASE CommitRevocation(t)
  BY <1>7 DEF CommitRevocation, Leave
<1>8. QED
  BY <1>1, <1>2, <1>3, <1>4, <1>5, <1>6, <1>7 DEF Action

\* A claimed token cannot die under its claim: its row is locked.
LEMMA ClaimStep ==
  ASSUME IInv, TypeOK', NEW t \in Request, Action(t)
  PROVE  ClaimInv'
<1> USE NoneAssumption DEF IInv, TypeOK, accountVars, tokenVars
<1>1. /\ issued \subseteq issued'
      /\ \A k \in Dead' \ Dead : tokenLock[k] = t
      /\ \A k \in Token : tokenLock[k] \notin {None, t} => tokenLock'[k] = tokenLock[k]
      /\ \A u \in Request \ {t} : pc'[u] = pc[u] /\ tok'[u] = tok[u]
  BY DeadStep
<1>2. ASSUME NEW u \in Request \ {t}
      PROVE  /\ tok'[u] # None => tok'[u] \in issued'
             /\ pc'[u] \in {"claim", "rotate"} => tok'[u] # None
             /\ pc'[u] = "rotate" => tok'[u] \notin Dead' /\ tokenLock'[tok'[u]] = u
  <2>1. pc'[u] = pc[u] /\ tok'[u] = tok[u]
    BY <1>1, <1>2
  <2>2. ASSUME pc[u] = "rotate"
        PROVE  tok[u] \notin Dead' /\ tokenLock'[tok[u]] = u
    <3>1. tok[u] \in Token /\ tok[u] \notin Dead /\ tokenLock[tok[u]] = u
      BY <2>2 DEF ClaimInv
    <3>2. QED
      BY <1>1, <1>2, <3>1
  <2>3. QED
    BY <1>1, <2>1, <2>2 DEF ClaimInv
<1>3. /\ tok'[t] # None => tok'[t] \in issued'
      /\ pc'[t] \in {"claim", "rotate"} => tok'[t] # None
      /\ pc'[t] = "rotate" => tok'[t] \notin Dead' /\ tokenLock'[tok'[t]] = t
  <2>1. CASE ReadToken(t)
    BY <2>1 DEF ReadToken, ClaimInv
  <2>2. CASE Claim(t)
    BY <2>2 DEF Claim, Claimable, Dead, ClaimInv
  <2>3. CASE LoseClaim(t) \/ ReadCredentials(t) \/ ReadLogout(t)
    BY <2>3 DEF LoseClaim, ReadCredentials, ReadLogout, ClaimInv
  <2>4. CASE ReadAccount(t) \/ SaveAccount(t) \/ ScanTokens(t) \/ LockToken(t)
    BY <2>4 DEF ReadAccount, SaveAccount, ScanTokens, LockToken, ClaimInv
  <2>5. CASE RefuseLoser(t) \/ RollBack(t) \/ CommitPatch(t)
    BY <2>5 DEF RefuseLoser, RollBack, CommitPatch, Leave
  <2>6. CASE CommitRefresh(t) \/ CommitLogin(t) \/ CommitRevocation(t)
    BY <2>6 DEF CommitRefresh, CommitLogin, CommitRevocation, Leave
  <2>7. QED
    BY <2>1, <2>2, <2>3, <2>4, <2>5, <2>6 DEF Action
<1>4. \A u \in Request :
        /\ tok'[u] # None => tok'[u] \in issued'
        /\ pc'[u] \in {"claim", "rotate"} => tok'[u] # None
        /\ pc'[u] = "rotate" => tok'[u] \notin Dead' /\ tokenLock'[tok'[u]] = u
  BY <1>2, <1>3
<1>5. QED
  BY <1>4 DEF ClaimInv

\* Only a claim or a revocation holds a row.
LEMMA LockStep ==
  ASSUME IInv, TypeOK', NEW t \in Request, Action(t)
  PROVE  LockInv'
<1> USE NoneAssumption DEF IInv, TypeOK, LockInv, accountVars, tokenVars
<1>1. CASE ReadToken(t) \/ ReadCredentials(t) \/ ReadLogout(t)
  BY <1>1 DEF ReadToken, ReadCredentials, ReadLogout
<1>2. CASE LoseClaim(t) \/ ReadAccount(t) \/ SaveAccount(t) \/ ScanTokens(t)
  BY <1>2 DEF LoseClaim, ReadAccount, SaveAccount, ScanTokens
<1>3. CASE Claim(t)
  <2>1. tok[t] \in issued
    BY <1>3 DEF Claim, ClaimInv
  <2>2. \A k \in Token : tokenLock[k] # t
    BY <1>3 DEF Claim
  <2>3. QED
    BY <1>3, <2>1, <2>2 DEF Claim
<1>4. CASE LockToken(t)
  <2>1. \A k \in matched[t] : k \in issued
    BY DEF WriteInv
  <2>2. QED
    BY <1>4, <2>1 DEF LockToken
<1>5. CASE RefuseLoser(t) \/ RollBack(t) \/ CommitPatch(t)
  BY <1>5 DEF RefuseLoser, RollBack, CommitPatch, Leave
<1>6. CASE CommitRefresh(t) \/ CommitLogin(t) \/ CommitRevocation(t)
  BY <1>6 DEF CommitRefresh, CommitLogin, CommitRevocation, Leave
<1>7. QED
  BY <1>1, <1>2, <1>3, <1>4, <1>5, <1>6 DEF Action

\* What the two committing steps insert.
LEMMA InsertCases ==
  ASSUME IInv, NEW t \in Request, Action(t)
  PROVE  \/ /\ issued' = issued /\ sessionOf' = sessionOf
            /\ Dead \subseteq Dead'
         \/ /\ new[t] \in Token \ issued /\ issued' = issued \cup {new[t]}
            /\ tok[t] \in Live /\ Dead' = Dead \cup {tok[t]}
            /\ sessionOf' = [sessionOf EXCEPT ![new[t]] = sessionOf[tok[t]]]
         \/ /\ new[t] \in Token \ issued /\ issued' = issued \cup {new[t]}
            /\ Dead' = Dead /\ sessionOf' = sessionOf
<1> USE NoneAssumption DEF IInv, TypeOK, accountVars, tokenVars
<1>1. CASE CommitRefresh(t)
  BY <1>1 DEF CommitRefresh, Leave, Dead, Live, NewInv, ClaimInv
<1>2. CASE CommitLogin(t)
  BY <1>2 DEF CommitLogin, Leave, Dead, NewInv
<1>3. CASE CommitRevocation(t)
  BY <1>3 DEF CommitRevocation, Dead
<1>4. CASE ReadToken(t) \/ ReadCredentials(t) \/ ReadLogout(t) \/ LoseClaim(t) \/ Claim(t)
  BY <1>4 DEF ReadToken, ReadCredentials, ReadLogout, LoseClaim, Claim, Dead
<1>5. CASE ReadAccount(t) \/ SaveAccount(t) \/ ScanTokens(t) \/ LockToken(t)
  BY <1>5 DEF ReadAccount, SaveAccount, ScanTokens, LockToken, Dead
<1>6. CASE RefuseLoser(t) \/ RollBack(t) \/ CommitPatch(t)
  BY <1>6 DEF RefuseLoser, RollBack, CommitPatch, Dead
<1>7. QED
  BY <1>1, <1>2, <1>3, <1>4, <1>5, <1>6 DEF Action

\* The chain: the successor of a token replaces it, a login starts a session of its own.
LEMMA ChainStep ==
  ASSUME IInv, NEW t \in Request, Action(t)
  PROVE  /\ SessionInv'
         /\ LinearChain'
         /\ EndedSessions \subseteq EndedSessions'
<1> USE NoneAssumption DEF IInv, TypeOK, SessionInv, LinearChain, EndedSessions, Live
<1>1. CASE issued' = issued /\ sessionOf' = sessionOf /\ Dead \subseteq Dead'
  BY <1>1
<1>2. CASE /\ new[t] \in Token \ issued /\ issued' = issued \cup {new[t]}
           /\ tok[t] \in Live /\ Dead' = Dead \cup {tok[t]}
           /\ sessionOf' = [sessionOf EXCEPT ![new[t]] = sessionOf[tok[t]]]
  <2>1. /\ sessionOf'[new[t]] = sessionOf[tok[t]] /\ sessionOf[tok[t]] \in issued
        /\ \A k \in Token \ {new[t]} : sessionOf'[k] = sessionOf[k]
    BY <1>2
  <2>2. \A k \in Live' : k = new[t] \/ (k \in Live /\ k # tok[t])
    BY <1>2
  <2>3. QED
    BY <1>2, <2>1, <2>2
<1>3. CASE /\ new[t] \in Token \ issued /\ issued' = issued \cup {new[t]}
           /\ Dead' = Dead /\ sessionOf' = sessionOf
  BY <1>3
<1>4. QED
  BY <1>1, <1>2, <1>3, InsertCases

\* What a request prepares to save, and the rows it has matched.
LEMMA WriteStep ==
  ASSUME IInv, TypeOK', NEW t \in Request, Action(t)
  PROVE  WriteInv'
<1> USE NoneAssumption DEF IInv, TypeOK, WriteInv, accountVars, tokenVars
<1>1. /\ issued \subseteq issued'
      /\ \A u \in Request \ {t} : /\ matched'[u] = matched[u]
                                  /\ why'[u] = why[u] /\ write'[u] = write[u]
  BY DeadStep
<1>2. why'[t] \in {"disable", "password", "patch"} => write'[t] \in Account
  BY RowStep
<1>3. matched'[t] \subseteq issued'
  <2>1. CASE ScanTokens(t)
    BY <2>1 DEF ScanTokens
  <2>2. CASE LockToken(t)
    BY <2>2 DEF LockToken
  <2>3. CASE ReadToken(t) \/ ReadCredentials(t) \/ ReadLogout(t) \/ LoseClaim(t) \/ Claim(t)
    BY <1>1, <2>3 DEF ReadToken, ReadCredentials, ReadLogout, LoseClaim, Claim
  <2>4. CASE ReadAccount(t) \/ SaveAccount(t)
    BY <1>1, <2>4 DEF ReadAccount, SaveAccount
  <2>5. CASE RefuseLoser(t) \/ RollBack(t) \/ CommitPatch(t)
    BY <2>5 DEF RefuseLoser, RollBack, CommitPatch, Leave
  <2>6. CASE CommitRefresh(t) \/ CommitLogin(t) \/ CommitRevocation(t)
    BY <2>6 DEF CommitRefresh, CommitLogin, CommitRevocation, Leave
  <2>7. QED
    BY <2>1, <2>2, <2>3, <2>4, <2>5, <2>6 DEF Action
<1>4. QED
  BY <1>1, <1>2, <1>3

\* One step of the specification.
LEMMA InductiveStep == IInv /\ [Next]_vars => IInv' /\ EndedSessions \subseteq EndedSessions'
<1> SUFFICES ASSUME IInv, [Next]_vars
             PROVE  IInv' /\ EndedSessions \subseteq EndedSessions'
  OBVIOUS
<1>1. ASSUME NEW t \in Request, Action(t)
      PROVE  IInv' /\ EndedSessions \subseteq EndedSessions'
  <2>1. TypeOK'
    BY <1>1, TypeStep
  <2>2. QED
    BY <1>1, <2>1, NewStep, ClaimStep, LockStep, ChainStep, WriteStep DEF IInv
<1>2. ASSUME NEW k \in Token, Expire(k)
      PROVE  IInv' /\ EndedSessions \subseteq EndedSessions'
  BY <1>2 DEF Expire, accountVars, IInv, TypeOK, NewInv, ClaimInv, LockInv, SessionInv,
              WriteInv, LinearChain, Live, Dead, EndedSessions
<1>3. CASE UNCHANGED vars
  BY <1>3 DEF vars, IInv, TypeOK, NewInv, ClaimInv, LockInv, SessionInv,
              WriteInv, LinearChain, Live, Dead, EndedSessions
<1>4. QED
  BY <1>1, <1>2, <1>3, StepCases

\* The invariant holds in every reachable state.
THEOREM Inductive == Spec => []IInv
<1>1. IInv /\ [Next]_vars => IInv'
  BY InductiveStep
<1>2. QED
  BY InitIInv, <1>1, PTL DEF Spec

\* The rows and the requests' notes keep their types (services.py, refresh to disable_user).
THEOREM SessionsTypeOK == Spec => []TypeOK
<1>1. IInv => TypeOK
  BY DEF IInv
<1>2. QED
  BY Inductive, <1>1, PTL

\* However many requests race, the conditional UPDATE of refresh() lets a session have one
\* token that can be rotated next.
THEOREM SessionsAreChains == Spec => []LinearChain
<1>1. IInv => LinearChain
  BY DEF IInv
<1>2. QED
  BY Inductive, <1>1, PTL

\* No stale read of a token brings back a session that was ended.
THEOREM EndedSessionsStayEnded == Spec => EndedStaysEnded
<1>1. IInv /\ [Next]_vars => [EndedSessions \subseteq EndedSessions']_vars
  BY InductiveStep
<1>2. QED
  BY Inductive, <1>1, PTL DEF Spec, EndedStaysEnded

-----------------------------------------------------------------------------
\* Only a request that reads an active account gets a token to insert, and only such a
\* request inserts one.
LEMMA DecidedStep ==
  ASSUME IInv, NEW t \in Request, Action(t), row.status # "ACTIVE"
  PROVE  /\ Decided' \subseteq Decided
         /\ issued' \subseteq issued \cup {new[u] : u \in Decided}
<1>1. new \in [Request -> Token \cup {None}] /\ None \notin Token
  BY NoneAssumption DEF IInv, TypeOK
<1>2. CASE ReadToken(t) \/ ReadCredentials(t)
  <2>1. new' = new /\ issued' = issued
    BY <1>2 DEF ReadToken, ReadCredentials, MayRotate, tokenVars
  <2>2. QED
    BY <2>1 DEF Decided
<1>3. CASE LoseClaim(t)
  BY <1>1, <1>3 DEF LoseClaim, Decided, tokenVars
<1>4. CASE CommitRefresh(t) \/ CommitLogin(t)
  <2>1. /\ issued' = issued \cup {new[t]} /\ new[t] \in Token
        /\ new' = [new EXCEPT ![t] = None]
    BY <1>4 DEF CommitRefresh, CommitLogin, Leave, IInv, NewInv
  <2>2. t \in Decided
    BY <1>1, <2>1 DEF Decided
  <2>3. QED
    BY <1>1, <2>1, <2>2 DEF Decided
<1>5. CASE RefuseLoser(t) \/ CommitPatch(t) \/ CommitRevocation(t) \/ RollBack(t)
  <2>1. issued' = issued /\ new' = [new EXCEPT ![t] = None]
    BY <1>5 DEF RefuseLoser, CommitPatch, CommitRevocation, RollBack, Leave, tokenVars
  <2>2. QED
    BY <1>1, <2>1 DEF Decided
<1>6. CASE \/ Claim(t) \/ ReadAccount(t) \/ SaveAccount(t) \/ ReadLogout(t)
           \/ ScanTokens(t) \/ LockToken(t)
  <2>1. new' = new /\ issued' = issued
    BY <1>6 DEF Claim, ReadAccount, SaveAccount, ReadLogout, ScanTokens, LockToken, tokenVars
  <2>2. QED
    BY <2>1 DEF Decided
<1>7. QED
  BY <1>2, <1>3, <1>4, <1>5, <1>6 DEF Action

\* Once an account is disabled, no login and no refresh gives it a token but those whose
\* request had read it while it was active.
THEOREM DisabledGetsNothingNew == Spec => NothingForDisabled
<1> DEFINE Nothing == row.status = "DISABLED" =>
                        /\ Decided' \subseteq Decided
                        /\ issued' \subseteq issued \cup {new[t] : t \in Decided}
<1>1. IInv /\ [Next]_vars => [Nothing]_vars
  <2> SUFFICES ASSUME IInv, [Next]_vars, row.status = "DISABLED"
               PROVE  \/ UNCHANGED vars
                      \/ /\ Decided' \subseteq Decided
                         /\ issued' \subseteq issued \cup {new[t] : t \in Decided}
    OBVIOUS
  <2>1. CASE \E k \in Token : Expire(k)
    BY <2>1 DEF Expire, Decided
  <2>2. QED
    BY <2>1, DecidedStep, StepCases
<1>2. QED
  BY Inductive, <1>1, PTL DEF Spec, NothingForDisabled

-----------------------------------------------------------------------------
\* A step opens a session, swaps its token, closes some or changes no token.
LEMMA ChainsStep ==
  ASSUME IInv, NEW t \in Request, Action(t)
  PROVE  Chains!Next
<1> USE NoneAssumption DEF IInv, TypeOK, Live
<1>1. CASE issued' = issued /\ sessionOf' = sessionOf /\ Dead \subseteq Dead'
  <2> DEFINE ended == Live \cap Dead'
  <2>1. Live' = Live \ ended
    BY <1>1
  <2>2. Chains!Close(ended)
    BY <1>1, <2>1 DEF Chains!Close
  <2> QED BY <2>2 DEF Chains!Next
<1>2. CASE /\ new[t] \in Token \ issued /\ issued' = issued \cup {new[t]}
           /\ tok[t] \in Live /\ Dead' = Dead \cup {tok[t]}
           /\ sessionOf' = [sessionOf EXCEPT ![new[t]] = sessionOf[tok[t]]]
  <2>1. new[t] \notin Dead'
    BY <1>2 DEF Dead
  <2>2. Live' = (Live \ {tok[t]}) \cup {new[t]}
    BY <1>2, <2>1
  <2>3. Chains!Swap(tok[t], new[t])
    BY <1>2, <2>2 DEF Chains!Swap
  <2> QED BY <1>2, <2>3 DEF Chains!Next
<1>3. CASE /\ new[t] \in Token \ issued /\ issued' = issued \cup {new[t]}
           /\ Dead' = Dead /\ sessionOf' = sessionOf
  <2>1. new[t] \notin Dead'
    BY <1>3 DEF Dead
  <2>2. Live' = Live \cup {new[t]} /\ sessionOf[new[t]] = new[t]
    BY <1>3, <2>1 DEF SessionInv
  <2>3. Chains!Open(new[t])
    BY <1>3, <2>2 DEF Chains!Open
  <2> QED BY <1>3, <2>3 DEF Chains!Next
<1> QED BY <1>1, <1>2, <1>3, InsertCases

\* However many requests race, the tokens of a user change by whole openings, swaps and
\* closings of sessions, one after the other.
THEOREM RequestsKeepSessions == Spec => SessionsAreSerial
<1>1. Init => Chains!Init
  BY DEF Init, Chains!Init, Live, Dead
<1>2. IInv /\ [Next]_vars => [Chains!Next]_<<issued, Live, sessionOf>>
  <2> SUFFICES ASSUME IInv, [Next]_vars
               PROVE  Chains!Next \/ UNCHANGED <<issued, Live, sessionOf>>
    OBVIOUS
  <2>1. CASE \E k \in Token : Expire(k)
    BY <2>1 DEF Expire, Live, Dead
  <2>2. CASE UNCHANGED vars
    BY <2>2 DEF vars, Live, Dead
  <2> QED BY <2>1, <2>2, ChainsStep, StepCases
<1> QED BY <1>1, <1>2, Inductive, PTL DEF Spec, SessionsAreSerial, Chains!Spec
=============================================================================
