--------------------------- MODULE RefreshSessions ---------------------------
(***************************************************************************)
(* The refresh tokens and the account row of one user                      *)
(* (src/backend/mizan/apps/identity/services.py, PATCH /users of api.py)   *)
(* under PostgreSQL's READ COMMITTED isolation.  A request reads, decides  *)
(* and writes in separate steps; what it has read may be stale when it     *)
(* writes.  A request that has ended serves another operation.             *)
(*                                                                         *)
(* A session is named after the token its login issued.  A password is a   *)
(* value that may equal an earlier one.  Time is abstracted to the set of  *)
(* tokens whose expires_at has passed.                                     *)
(***************************************************************************)
EXTENDS Naturals

CONSTANTS
  Token,      \* refresh_token rows
  Password,   \* passwords of the user
  Request,    \* concurrent requests
  None        \* no token, no request

ASSUME NoneAssumption == None \notin Token \cup Request

Status == {"ACTIVE", "DISABLED"}

VARIABLES
  row,        \* the committed account row
  rowLock,    \* request holding its lock
  issued,     \* committed tokens
  used,       \* committed tokens whose used_at is set
  revoked,    \* committed tokens whose revoked_at is set
  expired,    \* tokens whose expires_at has passed
  sessionOf,  \* session of each token
  tokenLock,  \* request holding the lock of a token row
  pc,         \* next step of each request
  why,        \* the operation it serves
  tok,        \* the token presented
  new,        \* the token it will insert
  write,      \* the account row it will save
  read,       \* the account row as it read it before
  matched     \* rows its revoking UPDATE has matched and not locked yet

accountVars == <<row, rowLock>>
tokenVars   == <<issued, used, revoked, expired, sessionOf>>
vars == <<row, rowLock, issued, used, revoked, expired, sessionOf, tokenLock,
          pc, why, tok, new, write, read, matched>>

Account == [status : Status, password : Password]
Dead    == used \cup revoked
Live    == issued \ Dead
WithStatus(a, s)   == [a EXCEPT !.status = s]
WithPassword(a, p) == [a EXCEPT !.password = p]
Free(lock, t) == lock \in {None, t}

\* Tokens in the table or about to be inserted.
Generated == issued \cup {new[t] : t \in Request}

-----------------------------------------------------------------------------
Init ==
  /\ row \in {a \in Account : a.status = "ACTIVE"}
  /\ rowLock = None
  /\ issued = {} /\ used = {} /\ revoked = {} /\ expired = {}
  /\ sessionOf = [k \in Token |-> k]
  /\ tokenLock = [k \in Token |-> None]
  /\ pc = [t \in Request |-> "idle"]
  /\ why = [t \in Request |-> "none"]
  /\ tok = [t \in Request |-> None]
  /\ new = [t \in Request |-> None]
  /\ write = [t \in Request |-> None]
  /\ read = [t \in Request |-> None]
  /\ matched = [t \in Request |-> {}]

\* The request ends and its locks are released.
Leave(t) ==
  /\ pc' = [pc EXCEPT ![t] = "idle"]
  /\ why' = [why EXCEPT ![t] = "none"]
  /\ tok' = [tok EXCEPT ![t] = None]
  /\ new' = [new EXCEPT ![t] = None]
  /\ write' = [write EXCEPT ![t] = None]
  /\ read' = [read EXCEPT ![t] = None]
  /\ matched' = [matched EXCEPT ![t] = {}]
  /\ rowLock' = IF rowLock = t THEN None ELSE rowLock
  /\ tokenLock' = [k \in Token |-> IF tokenLock[k] = t THEN None ELSE tokenLock[k]]

\* Time passes the expires_at of a token.
Expire(k) ==
  /\ k \in issued \ expired
  /\ expired' = expired \cup {k}
  /\ UNCHANGED <<accountVars, issued, used, revoked, sessionOf, tokenLock, pc, why, tok,
                 new, write, read, matched>>

-----------------------------------------------------------------------------
(* refresh().                                                              *)

\* Mutant: the status of the account is not looked at.
MayRotateAnyStatus(k) == k \notin Dead \cup expired

\* What refresh() checks on the rows it has read.
MayRotate(k) == k \notin Dead \cup expired /\ row.status = "ACTIVE"

\* The token and its user are read, in a transaction of their own.  A dead token goes
\* to the revocation of its session; an expired one, or that of a disabled account, is
\* refused without a write.
ReadToken(t) ==
  /\ pc[t] = "idle"
  /\ \E k \in issued :
       /\ tok' = [tok EXCEPT ![t] = k]
       /\ \/ /\ k \in Dead
             /\ pc' = [pc EXCEPT ![t] = "scan"]
             /\ why' = [why EXCEPT ![t] = "reused"]
             /\ UNCHANGED new
          \/ /\ MayRotate(k)
             /\ pc' = [pc EXCEPT ![t] = "claim"]
             /\ why' = [why EXCEPT ![t] = "refresh"]
             /\ \E n \in Token \ Generated : new' = [new EXCEPT ![t] = n]
  /\ UNCHANGED <<accountVars, tokenVars, tokenLock, write, read, matched>>

\* Mutant: the condition of the UPDATE forgets used_at.
ClaimableWhenUsed(k) == k \notin revoked

\* Mutant: the condition of the UPDATE forgets revoked_at.
ClaimableWhenRevoked(k) == k \notin used

\* WHERE used_at IS NULL AND revoked_at IS NULL.
Claimable(k) == k \notin Dead

\* UPDATE ... SET used_at: waits for the row if another transaction has locked it.  The
\* insertion of the successor touches no row another request waits for.
Claim(t) ==
  /\ pc[t] = "claim"
  /\ Claimable(tok[t])
  /\ Free(tokenLock[tok[t]], t)
  /\ tokenLock' = [tokenLock EXCEPT ![tok[t]] = t]
  /\ pc' = [pc EXCEPT ![t] = "rotate"]
  /\ UNCHANGED <<accountVars, tokenVars, why, tok, new, write, read, matched>>

\* Mutant: the rotated row is replaced by its successor, not kept and marked.
CommitRefreshReplaces(t) ==
  /\ pc[t] = "rotate"
  /\ issued' = (issued \ {tok[t]}) \cup {new[t]}
  /\ sessionOf' = [sessionOf EXCEPT ![new[t]] = sessionOf[tok[t]]]
  /\ Leave(t)
  /\ UNCHANGED <<row, used, revoked, expired>>

\* used_at of the token presented and its successor become visible together.
CommitRefresh(t) ==
  /\ pc[t] = "rotate"
  /\ used' = used \cup {tok[t]}
  /\ issued' = issued \cup {new[t]}
  /\ sessionOf' = [sessionOf EXCEPT ![new[t]] = sessionOf[tok[t]]]
  /\ Leave(t)
  /\ UNCHANGED <<row, revoked, expired>>

\* No row matched: a concurrent refresh or revocation came first.
LoseClaim(t) ==
  /\ pc[t] = "claim"
  /\ ~Claimable(tok[t])
  /\ pc' = [pc EXCEPT ![t] = "scan"]
  /\ why' = [why EXCEPT ![t] = "lost"]
  /\ new' = [new EXCEPT ![t] = None]
  /\ UNCHANGED <<accountVars, tokenVars, tokenLock, tok, write, read, matched>>

-----------------------------------------------------------------------------
(* login().                                                                *)

\* The account is read and the password checked against it; only an active account goes
\* on.  (A refused login writes an audit event and nothing else.)
ReadCredentials(t) ==
  /\ pc[t] = "idle"
  /\ row.status = "ACTIVE"
  /\ \E n \in Token \ Generated : new' = [new EXCEPT ![t] = n]
  /\ pc' = [pc EXCEPT ![t] = "save"]
  /\ why' = [why EXCEPT ![t] = "login"]
  /\ UNCHANGED <<accountVars, tokenVars, tokenLock, tok, write, read, matched>>

\* last_login is the only column saved with the new session.
CommitLogin(t) ==
  /\ pc[t] = "saved" /\ why[t] = "login"
  /\ issued' = issued \cup {new[t]}
  /\ Leave(t)
  /\ UNCHANGED <<row, used, revoked, expired, sessionOf>>

-----------------------------------------------------------------------------
(* Operations on the account: login, change of password, disable, PATCH.   *)

\* disable_user(), change_password() and patch_user() read the row and prepare what they
\* will save of it.
ReadAccount(t) ==
  /\ pc[t] = "idle"
  /\ \/ /\ why' = [why EXCEPT ![t] = "disable"]
        /\ write' = [write EXCEPT ![t] = WithStatus(row, "DISABLED")]
     \/ /\ why' = [why EXCEPT ![t] = "password"]
        /\ \E p \in Password : write' = [write EXCEPT ![t] = WithPassword(row, p)]
     \/ /\ why' = [why EXCEPT ![t] = "patch"]
        /\ \E s \in Status : write' = [write EXCEPT ![t] = WithStatus(row, s)]
  /\ read' = [read EXCEPT ![t] = row]
  /\ pc' = [pc EXCEPT ![t] = "save"]
  /\ UNCHANGED <<accountVars, tokenVars, tokenLock, tok, new, matched>>

\* UPDATE of the account row: no condition on what was read.
SaveAccount(t) ==
  /\ pc[t] = "save"
  /\ Free(rowLock, t)
  /\ rowLock' = t
  /\ pc' = [pc EXCEPT ![t] = IF why[t] \in {"disable", "password"} THEN "scan" ELSE "saved"]
  /\ UNCHANGED <<row, tokenVars, tokenLock, why, tok, new, write, read, matched>>

\* save() of a full object: every column of the row as it was read comes back.
CommitPatch(t) ==
  /\ pc[t] = "saved" /\ why[t] = "patch"
  /\ row' = write[t]
  /\ Leave(t)
  /\ UNCHANGED tokenVars

\* What a revoking request saves of the account row, with its update_fields.
Saved(t) ==
  IF why[t] = "disable" THEN WithStatus(row, "DISABLED")
  ELSE IF why[t] = "password" THEN WithPassword(row, write[t].password) ELSE row

-----------------------------------------------------------------------------
(* Revocation: UPDATE ... SET revoked_at WHERE revoked_at IS NULL.         *)

\* logout() reads the token in the same transaction.
ReadLogout(t) ==
  /\ pc[t] = "idle"
  /\ \E k \in issued : tok' = [tok EXCEPT ![t] = k]
  /\ why' = [why EXCEPT ![t] = "logout"]
  /\ pc' = [pc EXCEPT ![t] = "scan"]
  /\ UNCHANGED <<accountVars, tokenVars, tokenLock, new, write, read, matched>>

\* The rows a revocation is about: of the token's session, or of the user.
InScope(t, k) == why[t] \in {"disable", "password"} \/ sessionOf[k] = sessionOf[tok[t]]

\* The snapshot of the UPDATE: committed rows, the used ones included.
ScanTokens(t) ==
  /\ pc[t] = "scan"
  /\ matched' = [matched EXCEPT ![t] = {k \in issued \ revoked : InScope(t, k)}]
  /\ pc' = [pc EXCEPT ![t] = "revoke"]
  /\ UNCHANGED <<accountVars, tokenVars, tokenLock, why, tok, new, write, read>>

\* It locks the rows one by one, in no stated order; a row revoked meanwhile is skipped.
LockToken(t) ==
  /\ pc[t] = "revoke"
  /\ \E k \in matched[t] :
       /\ Free(tokenLock[k], t)
       /\ tokenLock' = IF k \in revoked THEN tokenLock ELSE [tokenLock EXCEPT ![k] = t]
       /\ matched' = [matched EXCEPT ![t] = @ \ {k}]
  /\ UNCHANGED <<accountVars, tokenVars, pc, why, tok, new, write, read>>

\* Logout, disable, change of password and the reuse of a dead token commit.
CommitRevocation(t) ==
  /\ pc[t] = "revoke" /\ matched[t] = {} /\ why[t] # "lost"
  /\ revoked' = revoked \cup {k \in Token : tokenLock[k] = t}
  /\ row' = Saved(t)
  /\ Leave(t)
  /\ UNCHANGED <<issued, used, expired, sessionOf>>

\* "refresh_token_reused" is raised inside transaction.atomic(): the revocation made
\* after a lost claim is rolled back.
RefuseLoser(t) ==
  /\ pc[t] = "revoke" /\ matched[t] = {} /\ why[t] = "lost"
  /\ Leave(t)
  /\ UNCHANGED <<row, tokenVars>>

-----------------------------------------------------------------------------
\* A request fails, or the process dies.
RollBack(t) ==
  /\ pc[t] # "idle"
  /\ Leave(t)
  /\ UNCHANGED <<row, tokenVars>>

\* Requests that hold what t waits for.
Waits(t) ==
  (CASE pc[t] = "claim"  -> {tokenLock[tok[t]]}
     [] pc[t] = "revoke" -> {tokenLock[k] : k \in matched[t]}
     [] pc[t] = "save"   -> {rowLock}
     [] OTHER            -> {}) \ {None, t}

\* Mutant: nothing looks for cycles of waiting requests.
NeverDeadlocked(t) == FALSE

Deadlocked(t) ==
  \E D \in SUBSET Request :
    /\ t \in D
    /\ \A u \in D : (\E w \in D : w \in Waits(u)) /\ (\E w \in D : u \in Waits(w))

DeadlockVictim(t) == Deadlocked(t) /\ RollBack(t)

Refresh(t) == ReadToken(t) \/ Claim(t) \/ CommitRefresh(t) \/ LoseClaim(t) \/ RefuseLoser(t)
Login(t)   == ReadCredentials(t) \/ CommitLogin(t)
Manage(t)  == ReadAccount(t) \/ SaveAccount(t) \/ CommitPatch(t)
Revoke(t)  == ReadLogout(t) \/ ScanTokens(t) \/ LockToken(t) \/ CommitRevocation(t)

Serve(t) == Refresh(t) \/ Login(t) \/ Manage(t) \/ Revoke(t)

Next ==
  \/ \E t \in Request : Serve(t) \/ RollBack(t) \/ DeadlockVictim(t)
  \/ \E k \in Token : Expire(k)

Spec == Init /\ [][Next]_vars

\* A request that has begun runs on.  Strong fairness: PostgreSQL queues the waiters of
\* a row, so a request is not overtaken for ever by others that lock the row before it.
Fairness == \A t \in Request : /\ SF_vars(pc[t] # "idle" /\ Serve(t))
                               /\ WF_vars(DeadlockVictim(t))

FairSpec == Spec /\ Fairness

-----------------------------------------------------------------------------
(* Properties.                                                             *)

TypeOK ==
  /\ row \in Account
  /\ rowLock \in Request \cup {None}
  /\ issued \subseteq Token /\ used \subseteq issued
  /\ revoked \subseteq issued /\ expired \subseteq issued
  /\ sessionOf \in [Token -> Token]
  /\ tokenLock \in [Token -> Request \cup {None}]
  /\ pc \in [Request -> {"idle", "claim", "rotate", "save", "saved", "scan", "revoke"}]
  /\ why \in [Request -> {"none", "refresh", "reused", "lost", "login", "logout",
                          "disable", "password", "patch"}]
  /\ tok \in [Request -> Token \cup {None}]
  /\ new \in [Request -> Token \cup {None}]
  /\ write \in [Request -> Account \cup {None}]
  /\ read \in [Request -> Account \cup {None}]
  /\ matched \in [Request -> SUBSET Token]

\* The tokens of a session form a chain: however many requests present the same token at
\* once, or race with logins, revocations and roll-backs, at most one token of a session
\* can be rotated next.
LinearChain ==
  \A j, k \in Live : sessionOf[j] = sessionOf[k] => j = k

EndedSessions == {s \in issued : \A k \in Live : sessionOf[k] # s}

\* A session left without a usable token by a logout, a reuse, a disable or a change of
\* password is over: no request that read one of its tokens before brings it back.
EndedStaysEnded == [][EndedSessions \subseteq EndedSessions']_vars

\* A disabled account gets no token but from the requests that read it while it was
\* active, and no other request can join them.
Decided == {t \in Request : new[t] # None}

NothingForDisabled ==
  [][row.status = "DISABLED" => /\ Decided' \subseteq Decided
                                /\ issued' \subseteq issued \cup {new[t] : t \in Decided}]_vars

\* A request that has begun ends, also when two revocations lock the same tokens in
\* different orders.
RequestsEnd == \A t \in Request : pc[t] # "idle" ~> pc[t] = "idle"

\* "Reusing a rotated token revokes the whole session (theft signal)": a refresh that
\* answers refresh_token_reused leaves no usable token in the session.
ReuseRevokesSession ==
  [][\A t \in Request : RefuseLoser(t) =>
       \A k \in Live' : sessionOf[k] # sessionOf[tok[t]]]_vars

\* "Revoke the session": a logout leaves no usable token in the session.
LogoutEndsSession ==
  [][\A t \in Request : why[t] = "logout" /\ CommitRevocation(t) =>
       \A k \in Live' : sessionOf[k] # sessionOf[tok[t]]]_vars

\* "row_version check on every update": a PATCH that does not set the status does not
\* change it, nor does it change the password.
PatchOnlySetsItsFields ==
  [][\A t \in Request : CommitPatch(t) =>
       /\ row'.password = row.password
       /\ write[t].status = read[t].status => row'.status = row.status]_vars

\* Concurrent refreshes, logins and revocations come to whole openings, swaps and closings of
\* sessions, one after the other: a session never forks and no token comes back to life.
Chains == INSTANCE SessionChains WITH usable <- Live
SessionsAreSerial == Chains!Spec
=============================================================================
