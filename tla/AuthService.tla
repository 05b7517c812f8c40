----------------------------- MODULE AuthService -----------------------------
(***************************************************************************)
(* auth-service: registration, login with lockout, refresh-token rotation  *)
(* with reuse detection, logout, over the tables `auth_users` and          *)
(* `refresh_tokens`.  As in WalletService, one action stands for the code  *)
(* between two awaits on the database, at READ COMMITTED; but here nothing *)
(* is read FOR UPDATE: a row is locked from the UPDATE to the COMMIT only. *)
(*                                                                         *)
(* INSERTs of tokens and of login_attempts neither wait nor are seen       *)
(* before COMMIT, so they are part of the action of their transaction's    *)
(* UPDATE.  SQLAlchemy writes the columns whose value it saw change, not   *)
(* the row: `seen` is the row as read and `row` the object as changed.     *)
(***************************************************************************)
EXTENDS Naturals

CONSTANTS
  Emails,      \* normalised email addresses, one account each
  Tokens,      \* refresh tokens; bound: as many are ever issued
  Requests,    \* slots for HTTP requests
  MaxFailed,   \* settings.MAX_FAILED_LOGIN_ATTEMPTS
  MaxCounter,  \* bound: no login arrives once the counter has this value
  NoAccount,   \* no row in `auth_users`, or none read
  NoToken,     \* no row in `refresh_tokens`
  NoCall,      \* the slot was never used
  Free         \* nobody holds the row lock

ASSUME LimitsAssumption == MaxFailed \in Nat \ {0} /\ MaxCounter \in Nat
ASSUME FreeAssumption   == Free \notin Requests

\* locked_until against the clock: unset, ahead or past.
Account == [status : {"active", "locked"}, failed : Nat, until : {"none", "ahead", "past"}]

\* `parent` is not a column: it remembers which token was exchanged for this one.
Token == [owner : Emails, revoked : BOOLEAN, expired : BOOLEAN,
          successor : Tokens \union {NoToken}, parent : Tokens \union {NoToken}]

Call == [op : {"register", "logout_all"}, email : Emails]
  \union [op : {"login"}, email : Emails, correct : BOOLEAN]
  \union [op : {"refresh", "logout"}, token : Tokens \union {NoToken}]

ASSUME NullsAssumption ==
  /\ NoAccount \notin Account
  /\ NoToken \notin Token \union Tokens
  /\ NoCall \notin Call

Outcomes == {"none", "ok", "lost", "user_already_exists", "invalid_credentials",
             "account_locked", "account_not_active", "invalid_token", "token_expired",
             "refresh_token_reused", "internal_error"}

VARIABLES
  account,      \* account[e]: the committed row
  token,        \* token[t]: the committed row
  accountLock,  \* accountLock[e]: the request that updates e's row or inserts it
  tokenLock,    \* tokenLock[t]: the request that revokes t
  pc, call,     \* where each request stands and what it asks for
  seen,         \* seen[r]: the account row login read
  row,          \* row[r]: the ORM object of that row as r changed it, or a new one
  swept,        \* swept[r]: the tokens the snapshot of r's sweep selected
  issued,       \* issued[r]: the token r has inserted
  outcome

rows     == <<account, token>>
locks    == <<accountLock, tokenLock>>
requests == <<pc, call, seen, row, swept, issued, outcome>>
vars     == <<rows, locks, requests>>

Init ==
  /\ account     = [e \in Emails |-> NoAccount]
  /\ token       = [t \in Tokens |-> NoToken]
  /\ accountLock = [e \in Emails |-> Free]
  /\ tokenLock   = [t \in Tokens |-> Free]
  /\ pc      = [r \in Requests |-> "idle"]
  /\ call    = [r \in Requests |-> NoCall]
  /\ seen    = [r \in Requests |-> NoAccount]
  /\ row     = [r \in Requests |-> NoAccount]
  /\ swept   = [r \in Requests |-> {}]
  /\ issued  = [r \in Requests |-> NoToken]
  /\ outcome = [r \in Requests |-> "none"]

------------------------------------------------------------------------------
Done == {"idle", "done"}

\* The row of the token r presents; NoToken is a token nobody was given.
Presented(r) == IF call[r].token = NoToken THEN NoToken ELSE token[call[r].token]

\* The account r is about; a token names its owner.
Email(r) == IF call[r].op \in {"refresh", "logout"} THEN Presented(r).owner ELSE call[r].email

\* r ends with this answer and its transaction lets its locks go.
Answer(r, o) ==
  /\ pc'      = [pc EXCEPT ![r] = "done"]
  /\ outcome' = [outcome EXCEPT ![r] = o]
  /\ seen'    = [seen EXCEPT ![r] = NoAccount]
  /\ row'     = [row EXCEPT ![r] = NoAccount]
  /\ swept'   = [swept EXCEPT ![r] = {}]
  /\ issued'  = [issued EXCEPT ![r] = NoToken]
  /\ accountLock' = [e \in Emails |-> IF accountLock[e] = r THEN Free ELSE accountLock[e]]
  /\ tokenLock'   = [t \in Tokens |-> IF tokenLock[t] = r THEN Free ELSE tokenLock[t]]
  /\ UNCHANGED call

\* An answer that changes no account and no token.
Refuse(r, o) == Answer(r, o) /\ UNCHANGED rows

Goto(r, label) == pc' = [pc EXCEPT ![r] = label]

\* A request arrives; the tokens clients hold were issued by a committed request.
Receive(r, c) ==
  /\ pc[r] \in Done
  /\ c.op = "login" /\ account[c.email] # NoAccount => account[c.email].failed < MaxCounter
  /\ c.op = "logout_all" => account[c.email] # NoAccount  \* its access token says so
  /\ c.op \in {"refresh", "logout"} /\ c.token # NoToken => token[c.token] # NoToken
  /\ call'    = [call EXCEPT ![r] = c]
  /\ outcome' = [outcome EXCEPT ![r] = "none"]
  /\ Goto(r, "received")
  /\ UNCHANGED <<rows, locks, seen, row, swept, issued>>

\* Tokens nobody has: generate_refresh_token never repeats itself.
Fresh == {t \in Tokens : token[t] = NoToken /\ \A r \in Requests : issued[r] # t}

------------------------------------------------------------------------------
(* register                                                                *)

\* Mutant: an account waits for a verification that does not exist.
NewAccountPending == [status |-> "pending", failed |-> 0, until |-> "none"]

NewAccount == [status |-> "active", failed |-> 0, until |-> "none"]

RegisterCheck(r) ==
  /\ pc[r] = "received" /\ call[r].op = "register"
  /\ IF account[Email(r)] # NoAccount
     THEN Refuse(r, "user_already_exists")
     ELSE Goto(r, "checked") /\ UNCHANGED <<rows, locks, call, seen, row, swept, issued, outcome>>

\* Mutant: no unique index on the email keeps the INSERT waiting.
RegisterInsertDuplicate(r) ==
  /\ pc[r] = "checked"
  /\ accountLock' = [accountLock EXCEPT ![Email(r)] = r]
  /\ row' = [row EXCEPT ![r] = NewAccount]
  /\ Goto(r, "flushed")
  /\ UNCHANGED <<rows, tokenLock, call, seen, swept, issued, outcome>>

\* The INSERT: the email may have been taken since, or the phone number at any
\* time; the IntegrityError is not caught.
RegisterInsert(r) ==
  /\ pc[r] = "checked"
  /\ \/ Refuse(r, "internal_error")
     \/ /\ account[Email(r)] = NoAccount /\ accountLock[Email(r)] = Free
        /\ accountLock' = [accountLock EXCEPT ![Email(r)] = r]
        /\ row' = [row EXCEPT ![r] = NewAccount]
        /\ Goto(r, "flushed")
        /\ UNCHANGED <<rows, tokenLock, call, seen, swept, issued, outcome>>

------------------------------------------------------------------------------
(* authenticate                                                            *)

LoginRead(r) ==
  /\ pc[r] = "received" /\ call[r].op = "login"
  /\ IF account[Email(r)] = NoAccount THEN Refuse(r, "invalid_credentials")
     ELSE IF account[Email(r)].until = "ahead" THEN Refuse(r, "account_locked")
     ELSE /\ seen' = [seen EXCEPT ![r] = account[Email(r)]]
          /\ Goto(r, "user_read")
          /\ UNCHANGED <<rows, locks, call, row, swept, issued, outcome>>

\* Mutant: the counter is reset and the status is not.
SuccessKeepsStatus(a) == [a EXCEPT !.failed = 0, !.until = "none"]

\* record_successful_login and the status before it.
Success(a) == [status |-> "active", failed |-> 0, until |-> "none"]

\* record_failed_login; the status of an account that stays unlocked is left alone.
Failure(a) ==
  IF a.failed + 1 >= MaxFailed
  THEN [status |-> "locked", failed |-> a.failed + 1, until |-> "ahead"]
  ELSE [a EXCEPT !.failed = @ + 1]

LoginFlush(r) ==
  /\ pc[r] = "user_read" /\ call[r].op = "login"
  /\ accountLock[Email(r)] = Free
  /\ accountLock' = [accountLock EXCEPT ![Email(r)] = r]
  /\ \/ /\ ~call[r].correct
        /\ row' = [row EXCEPT ![r] = Failure(seen[r])]
        /\ UNCHANGED issued
     \/ /\ call[r].correct
        /\ row' = [row EXCEPT ![r] = Success(seen[r])]
        /\ \E t \in Fresh : issued' = [issued EXCEPT ![r] = t]
  /\ Goto(r, "flushed")
  /\ UNCHANGED <<rows, tokenLock, call, seen, swept, outcome>>

------------------------------------------------------------------------------
(* refresh and logout: a token is read, then revoked by its id.            *)

TokenRead(r) ==
  /\ pc[r] = "received" /\ call[r].op \in {"refresh", "logout"}
  /\ LET old == Presented(r)
         logout == call[r].op = "logout"
     IN  IF old = NoToken
         THEN Refuse(r, IF logout THEN "ok" ELSE "invalid_token")
         ELSE IF old.revoked /\ logout THEN Refuse(r, "ok")
         ELSE IF old.expired /\ ~old.revoked /\ ~logout THEN Refuse(r, "token_expired")
         ELSE /\ Goto(r, IF old.revoked THEN "sweep" ELSE IF logout THEN "revoke" ELSE "token_read")
              /\ UNCHANGED <<rows, locks, call, seen, row, swept, issued, outcome>>

\* Mutant: an account that was locked is as good as new once the lock has run out.
UserCheckUnlocked(r) ==
  /\ pc[r] # "idle"
  /\ pc[r] = IF call[r].op = "logout_all" THEN "received" ELSE "token_read"
  /\ IF account[Email(r)].until = "ahead"
     THEN Refuse(r, "account_not_active")
     ELSE /\ Goto(r, IF call[r].op = "refresh" THEN "revoke" ELSE "sweep")
          /\ UNCHANGED <<rows, locks, call, seen, row, swept, issued, outcome>>

\* The account must be active to refresh and to log out everywhere
\* (get_current_user): not locked, even if the lock has run out.
UserCheck(r) ==
  /\ pc[r] # "idle"
  /\ pc[r] = IF call[r].op = "logout_all" THEN "received" ELSE "token_read"
  /\ IF account[Email(r)].status # "active"
     THEN Refuse(r, "account_not_active")
     ELSE /\ Goto(r, IF call[r].op = "refresh" THEN "revoke" ELSE "sweep")
          /\ UNCHANGED <<rows, locks, call, seen, row, swept, issued, outcome>>

\* Mutant: the exchanged token stays as it is.
RevokeNothing(r) ==
  /\ pc[r] = "revoke"
  /\ IF call[r].op = "refresh" THEN \E t \in Fresh : issued' = [issued EXCEPT ![r] = t]
     ELSE UNCHANGED issued
  /\ Goto(r, "flushed")
  /\ UNCHANGED <<rows, locks, call, seen, row, swept, outcome>>

\* The new token, and UPDATE refresh_tokens ... WHERE id: it waits for the row
\* lock and does not look at revoked_at again.
Revoke(r) ==
  /\ pc[r] = "revoke"
  /\ tokenLock[call[r].token] = Free
  /\ tokenLock' = [tokenLock EXCEPT ![call[r].token] = r]
  /\ IF call[r].op = "refresh" THEN \E t \in Fresh : issued' = [issued EXCEPT ![r] = t]
     ELSE UNCHANGED issued
  /\ Goto(r, "flushed")
  /\ UNCHANGED <<rows, accountLock, call, seen, row, swept, outcome>>

------------------------------------------------------------------------------
(* revoke_all_for_user: one UPDATE ... WHERE auth_user_id AND revoked_at   *)
(* IS NULL.  Its snapshot selects the rows; each is locked, waiting for    *)
(* other writers, and looked at again.                                     *)

\* Mutant: the sweep of a reused token takes its successor only.
SweepSuccessor(r) ==
  /\ pc[r] = "sweep"
  /\ swept' = [swept EXCEPT ![r] =
       {t \in Tokens : call[r].op = "refresh" /\ t = Presented(r).successor /\ ~token[t].revoked}]
  /\ Goto(r, "sweeping")
  /\ UNCHANGED <<rows, locks, call, seen, row, issued, outcome>>

\* Mutant: the sweep leaves expired tokens as they are.
SweepUnexpired(r) ==
  /\ pc[r] = "sweep"
  /\ swept' = [swept EXCEPT ![r] = {t \in Tokens : /\ token[t] # NoToken /\ ~token[t].revoked
                                                   /\ token[t].owner = Email(r)
                                                   /\ ~token[t].expired}]
  /\ Goto(r, "sweeping")
  /\ UNCHANGED <<rows, locks, call, seen, row, issued, outcome>>

SweepSelect(r) ==
  /\ pc[r] = "sweep"
  /\ swept' = [swept EXCEPT ![r] = {t \in Tokens : /\ token[t] # NoToken /\ ~token[t].revoked
                                                   /\ token[t].owner = Email(r)}]
  /\ Goto(r, "sweeping")
  /\ UNCHANGED <<rows, locks, call, seen, row, issued, outcome>>

SweepRevoke(r) ==
  /\ pc[r] = "sweeping"
  /\ \A t \in swept[r] : tokenLock[t] = Free
  /\ tokenLock' = [t \in Tokens |-> IF t \in swept[r] /\ ~token[t].revoked THEN r ELSE tokenLock[t]]
  /\ Goto(r, "flushed")
  /\ UNCHANGED <<rows, accountLock, call, seen, row, swept, issued, outcome>>

------------------------------------------------------------------------------
(* The end of a transaction, failures and the clock.                       *)

\* What COMMIT answers: a wrong password and a reused token are committed too.
Result(r) ==
  IF call[r].op = "login" /\ ~call[r].correct THEN "invalid_credentials"
  ELSE IF call[r].op = "refresh" /\ issued[r] = NoToken THEN "refresh_token_reused"
  ELSE "ok"

\* Mutant: an exchange inserts the new token in a transaction after this one.
CommittedWithoutIssue(r) ==
  [t \in Tokens |->
     IF t = issued[r] /\ call[r].op = "login"
     THEN [owner |-> Email(r), revoked |-> FALSE, expired |-> FALSE, successor |-> NoToken,
           parent |-> NoToken]
     ELSE IF tokenLock[t] = r
     THEN [token[t] EXCEPT !.revoked = TRUE,
                           !.successor = IF issued[r] = NoToken THEN @ ELSE issued[r]]
     ELSE token[t]]

\* Mutant: only logouts and sweeps revoke; a token can be exchanged again.
CommittedRotatingTwice(r) ==
  [t \in Tokens |->
     IF t = issued[r]
     THEN [owner |-> Email(r), revoked |-> FALSE, expired |-> FALSE, successor |-> NoToken,
           parent |-> IF call[r].op = "refresh" THEN call[r].token ELSE NoToken]
     ELSE IF tokenLock[t] = r /\ issued[r] = NoToken
     THEN [token[t] EXCEPT !.revoked = TRUE]
     ELSE token[t]]

\* Mutant: the whole token is written, as logout read it: an exchange that
\* committed in between loses its successor.
CommittedWholeToken(r) ==
  [t \in Tokens |->
     IF t = issued[r]
     THEN [owner |-> Email(r), revoked |-> FALSE, expired |-> FALSE, successor |-> NoToken,
           parent |-> IF call[r].op = "refresh" THEN call[r].token ELSE NoToken]
     ELSE IF tokenLock[t] = r
     THEN [token[t] EXCEPT !.revoked = TRUE,
                           !.successor = IF issued[r] = NoToken /\ call[r].op # "logout"
                                         THEN @ ELSE issued[r]]
     ELSE token[t]]

\* The committed tokens once r commits: the one it issued and those it revoked.
CommittedTokens(r) ==
  [t \in Tokens |->
     IF t = issued[r]
     THEN [owner |-> Email(r), revoked |-> FALSE, expired |-> FALSE, successor |-> NoToken,
           parent |-> IF call[r].op = "refresh" THEN call[r].token ELSE NoToken]
     ELSE IF tokenLock[t] = r
     THEN [token[t] EXCEPT !.revoked = TRUE,
                           !.successor = IF issued[r] = NoToken THEN @ ELSE issued[r]]
     ELSE token[t]]

\* Mutant: the whole row is written, as the request sees it.
WrittenRow(read, object, current) == object

\* What the UPDATE of an object leaves of the current row: a column is written
\* if it differs from what was read.
Written(read, object, current) ==
  [status |-> IF object.status = read.status THEN current.status ELSE object.status,
   failed |-> IF object.failed = read.failed THEN current.failed ELSE object.failed,
   until  |-> IF object.until = read.until THEN current.until ELSE object.until]

Commit(r) ==
  /\ pc[r] = "flushed"
  /\ account' = [e \in Emails |->
       IF accountLock[e] = r
       THEN IF account[e] = NoAccount THEN row[r] ELSE Written(seen[r], row[r], account[e])
       ELSE account[e]]
  /\ token' = CommittedTokens(r)
  /\ \E o \in {Result(r), "lost"} : Answer(r, o)

\* The worker or its connection dies before COMMIT.
Fail(r) == pc[r] \notin Done /\ Refuse(r, "lost")

LockoutEnds(e) ==
  /\ account[e] # NoAccount /\ account[e].until = "ahead"
  /\ account' = [account EXCEPT ![e].until = "past"]
  /\ UNCHANGED <<token, locks, requests>>

TokenExpires(t) ==
  /\ token[t] # NoToken /\ ~token[t].revoked /\ ~token[t].expired
  /\ token' = [token EXCEPT ![t].expired = TRUE]
  /\ UNCHANGED <<account, locks, requests>>

Step(r) ==
  \/ RegisterCheck(r) \/ RegisterInsert(r)
  \/ LoginRead(r) \/ LoginFlush(r)
  \/ TokenRead(r) \/ UserCheck(r) \/ Revoke(r)
  \/ SweepSelect(r) \/ SweepRevoke(r)
  \/ Commit(r) \/ Fail(r)

Next ==
  \/ \E r \in Requests : (\E c \in Call : Receive(r, c)) \/ Step(r)
  \/ \E e \in Emails : LockoutEnds(e)
  \/ \E t \in Tokens : TokenExpires(t)

Spec == Init /\ [][Next]_vars

------------------------------------------------------------------------------
(* Properties.                                                             *)

Labels == Done \union {"received", "checked", "user_read", "token_read", "revoke",
                       "sweep", "sweeping", "flushed"}

\* Every variable keeps its shape, whatever columns partial updates put together.
TypeOK ==
  /\ account \in [Emails -> Account \union {NoAccount}]
  /\ token \in [Tokens -> Token \union {NoToken}]
  /\ accountLock \in [Emails -> Requests \union {Free}]
  /\ tokenLock   \in [Tokens -> Requests \union {Free}]
  /\ pc      \in [Requests -> Labels]
  /\ call    \in [Requests -> Call \union {NoCall}]
  /\ seen    \in [Requests -> Account \union {NoAccount}]
  /\ row     \in [Requests -> Account \union {NoAccount}]
  /\ swept   \in [Requests -> SUBSET Tokens]
  /\ issued  \in [Requests -> Tokens \union {NoToken}]
  /\ outcome \in [Requests -> Outcomes]

\* A refresh or a logout answered with success leaves the presented token
\* revoked for good, whatever exchanges, logouts and sweeps of the same token
\* ran beside it.
EndedTokenIsRevoked ==
  \A r \in Requests :
    pc[r] = "done" /\ outcome[r] = "ok" /\ call[r].op \in {"refresh", "logout"}
      /\ Presented(r) # NoToken => Presented(r).revoked

\* Old and new token change hands at once (_issue_token_pair): a token that
\* came from an exchange leaves its parent revoked and replaced, and a
\* replaced token names a token of its owner that came from it.  No crash
\* between the INSERT and the UPDATE leaves both usable, or neither.
ExchangeIsAtomic ==
  \A t \in Tokens : token[t] # NoToken =>
    /\ LET p == token[t].parent
       IN  p # NoToken =>
             token[p] # NoToken /\ token[p].revoked /\ token[p].successor # NoToken
    /\ LET s == token[t].successor
       IN  s # NoToken =>
             /\ token[t].revoked /\ token[s] # NoToken
             /\ token[s].owner = token[t].owner /\ token[s].parent = t

\* Of the requests of one account only a login with the correct password lifts
\* a lock, or shortens it; a wrong one that read the row before it was locked
\* and writes after does not (record_failed_login writes what it changed).
LiftedByPassword ==
  \A e \in Emails :
    /\ account[e] # NoAccount
    /\ \/ /\ account[e].status = "locked"
          /\ account'[e].status # "locked"
       \/ /\ account[e].until = "ahead"
          /\ account'[e].until = "none"
    => \E r \in Requests : /\ pc[r] = "flushed" /\ pc'[r] = "done"
                           /\ call[r].op = "login" /\ call[r].correct /\ Email(r) = e

OnlyPasswordUnlocks == [][LiftedByPassword]_vars

\* Status, counter and locked_until tell the same story.  Holds while requests
\* of an account come one at a time: see the README.
LockIsConsistent ==
  \A e \in Emails : account[e] # NoAccount =>
    /\ account[e].failed >= MaxFailed <=> account[e].status = "locked"
    /\ account[e].status = "locked" <=> account[e].until # "none"

\* "Reusing the rotated-out token must now fail" (tests/test_auth.py:75): a
\* token is exchanged once.
RotationIsSingleUse ==
  \A s, t \in Tokens :
    /\ token[s] # NoToken /\ token[t] # NoToken
    /\ token[s].parent # NoToken /\ token[s].parent = token[t].parent
    => s = t

\* r is the sweep of a logout_all or of a reused token and is answered.
SweepEnds(r) ==
  /\ pc[r] = "flushed" /\ pc'[r] = "done"
  /\ \/ call[r].op = "logout_all" /\ outcome'[r] = "ok"
     \/ outcome'[r] = "refresh_token_reused"

\* A sweep leaves no session of its user alive, however its tokens descend
\* from one another.  Holds while requests come one at a time.
SweptAll ==
  \A r \in Requests : SweepEnds(r) =>
    \A t \in Tokens : token[t] # NoToken /\ token[t].owner = Email(r) => token'[t].revoked
SweepEndsEverySession == [][SweptAll]_vars

\* "Revoke all refresh tokens for the current user (all devices)"
\* (routes/auth.py:89): a token the sweep selected does not live on in its
\* successor.  Not what the code does when a refresh is under way: see the README.
SweptSuccessors ==
  \A r \in Requests : SweepEnds(r) =>
    \A t \in Tokens : token[t] # NoToken /\ token[t].parent \in swept[r] => token'[t].revoked
SweepEndsRotatedSessions == [][SweptSuccessors]_vars

------------------------------------------------------------------------------
(* Commits and the calls they answer, whatever overlaps.                   *)

Atomic == INSTANCE AtomicAuth

\* A login that read e's row earlier: each column takes the value of `new` or
\* stays as others have written it since.
Overwrites(e, new) ==
  \E s \in {account[e].status, new.status}, f \in {account[e].failed, new.failed},
     u \in {account[e].until, new.until} :
       account' = [account EXCEPT ![e] = [status |-> s, failed |-> f, until |-> u]]

\* The session `old` goes on in `new`.
Rotates(old, new) ==
  /\ token[new] = NoToken
  /\ token' = [t \in Tokens |->
       IF t = new THEN Atomic!Session(token[old].owner, old)
       ELSE IF t = old THEN [token[t] EXCEPT !.revoked = TRUE, !.successor = new]
       ELSE token[t]]

Revoked(S) ==
  token' = [t \in Tokens |-> IF t \in S THEN [token[t] EXCEPT !.revoked = TRUE] ELSE token[t]]

\* The step is the whole operation call[r] asks for and nothing else.  What r
\* decided on may have changed since, so the guards of AtomicAuth need not hold;
\* a sweep ends what its snapshot selected.
Performs(r) ==
  LET c == call[r]
      e == Email(r)
  IN  \/ c.op = "register" /\ Atomic!Register(e)
      \/ /\ c.op = "login" /\ c.correct
         /\ Overwrites(e, Atomic!InGoodStanding)
         /\ \E t \in Tokens :
              token[t] = NoToken /\ token' = [token EXCEPT ![t] = Atomic!Session(e, NoToken)]
      \/ /\ c.op = "login" /\ ~c.correct
         /\ Overwrites(e, Failure(seen[r])) /\ UNCHANGED token
      \/ /\ c.op = "refresh" /\ outcome'[r] # "refresh_token_reused"
         /\ \E new \in Tokens : Rotates(c.token, new)
         /\ UNCHANGED account
      \/ /\ c.op = "logout" /\ UNCHANGED account
         /\ Revoked(IF Presented(r) = NoToken THEN {} ELSE {c.token})
      \/ /\ c.op = "logout_all" \/ (/\ c.op = "refresh" /\ outcome'[r] # "ok"
                                    /\ Presented(r).revoked)
         /\ \A t \in swept[r] : token[t].owner = e
         /\ Revoked(swept[r]) /\ UNCHANGED account

Answered(r) == pc[r] \notin Done /\ pc'[r] = "done"

\* Accounts and tokens change by the clock and by requests that do the whole of
\* what they were called for as they end; and a success is answered to those
\* only.  An overlap may make two of them contradict each other, but none is
\* half done, done to another account, or reported and not done.
RowsFollowCalls ==
  /\ \/ UNCHANGED rows
     \/ \E e \in Emails : Atomic!LockoutEnds(e)
     \/ \E t \in Tokens : Atomic!TokenExpires(t)
     \/ \E r \in Requests : Answered(r) /\ Performs(r)
  /\ \A r \in Requests : Answered(r) /\ outcome'[r] = "ok" => Performs(r)
CommitsFollowCalls == [][RowsFollowCalls]_vars

------------------------------------------------------------------------------
(* The inductive invariant.                                                *)

\* A request that is about to commit holds the lock of what it writes, and its
\* object is what record_successful_login or record_failed_login made of the
\* row it read.
WritesFit(r) ==
  LET c == call[r]
  IN  /\ c.op = "register" =>
           accountLock[c.email] = r /\ account[c.email] = NoAccount /\ row[r] # NoAccount
      /\ c.op = "login" =>
           /\ accountLock[c.email] = r /\ account[c.email] # NoAccount /\ seen[r] # NoAccount
           /\ row[r] = IF c.correct THEN Success(seen[r]) ELSE Failure(seen[r])
      /\ c.op \in {"refresh", "logout"} => c.token # NoToken
      /\ c.op = "logout" \/ (c.op = "refresh" /\ issued[r] # NoToken) => tokenLock[c.token] = r

\* What a request asks for exists, and what it has read is there to be written.
Fits(r) ==
  LET c == call[r]
      named == c.op \in {"refresh", "logout"} /\ c.token # NoToken
  IN  /\ c = NoCall => pc[r] = "idle"
      /\ c # NoCall /\ named => token[c.token] # NoToken
      /\ c # NoCall /\ c.op = "logout_all" => account[c.email] # NoAccount
      /\ pc[r] = "checked" => c.op = "register"
      /\ pc[r] = "user_read" =>
           c.op = "login" /\ account[c.email] # NoAccount /\ seen[r] # NoAccount
      /\ pc[r] = "token_read" => c.op = "refresh" /\ named
      /\ pc[r] = "revoke" => named
      /\ pc[r] \in {"sweep", "sweeping"} => c.op = "logout_all" \/ (c.op = "refresh" /\ named)
      /\ \A t \in swept[r] : token[t] # NoToken
      /\ pc[r] = "flushed" => WritesFit(r)

\* At every step a request's reads and writes fit the committed tables, whatever
\* others committed since: what it read a row of still has one, and it holds
\* the lock of what it writes.
RequestsFit == \A r \in Requests : Fits(r)

\* A lock belongs to a request that has written the row and not committed, and
\* an uncommitted token to one request, which has a session to open.
LockHolders ==
  /\ \A e \in Emails : accountLock[e] # Free =>
       LET r == accountLock[e]
       IN  pc[r] = "flushed" /\ call[r].op \in {"register", "login"} /\ call[r].email = e
  /\ \A t \in Tokens : tokenLock[t] # Free =>
       LET r == tokenLock[t]
       IN  /\ pc[r] = "flushed" /\ call[r].op \in {"refresh", "logout", "logout_all"}
           /\ token[t] # NoToken
           /\ issued[r] # NoToken => call[r].token = t
  /\ \A r \in Requests : issued[r] # NoToken =>
       /\ pc[r] = "flushed" /\ call[r].op \in {"login", "refresh"}
       /\ token[issued[r]] = NoToken
       /\ \A q \in Requests : issued[q] = issued[r] => q = r

IInv ==
  /\ TypeOK
  /\ RequestsFit
  /\ LockHolders
  /\ ExchangeIsAtomic
  /\ EndedTokenIsRevoked

\* What r has written, or selected to write, is what its call asks for.
Intends(r) ==
  LET reuse  == call[r].op = "refresh" /\ issued[r] = NoToken
      sweeps == call[r].op = "logout_all" \/ reuse
  IN  /\ pc[r] \in {"sweep", "sweeping", "flushed"} /\ reuse => Presented(r).revoked
      /\ pc[r] \in {"sweeping", "flushed"} /\ sweeps => \A t \in swept[r] : token[t].owner = Email(r)
      /\ pc[r] = "flushed" =>
           /\ call[r].op = "register" => row[r] = NewAccount
           /\ call[r].op = "login" => (call[r].correct <=> issued[r] # NoToken)
           /\ call[r].op = "logout" => \A t \in Tokens : tokenLock[t] = r => t = call[r].token
           /\ sweeps => \A t \in Tokens :
                /\ tokenLock[t] = r => t \in swept[r]
                /\ t \in swept[r] => tokenLock[t] = r \/ token[t].revoked

\* IInv and this are inductive: see AuthServiceCommitsProofs.
WritesFollowCalls == \A r \in Requests : Intends(r)

------------------------------------------------------------------------------
(* Requests of one account one at a time.                                  *)

\* r is under way and about e's account.
Serves(r, e) ==
  /\ pc[r] \notin Done
  /\ call[r].op \in {"refresh", "logout"} => Presented(r) # NoToken
  /\ Email(r) = e

\* The condition the promises of AtomicAuth are made under; requests of other
\* accounts interleave as they like.
OnePerAccount == \A e \in Emails, q, r \in Requests : Serves(q, e) /\ Serves(r, e) => q = r

\* Then the service implements AtomicAuth: whatever fails or is lost, it changes
\* accounts and tokens by whole operations, each allowed in the state it applies to.
AtomicAuthSpec == Atomic!Spec

\* The sessions of e that live.
Sessions(e) == {t \in Tokens : Atomic!Alive(t) /\ token[t].owner = e}

\* r has decided on the row it read, and not committed: to log in or count a
\* guess, to revoke the token it presents, to end every session.
LogsIn(r) == pc[r] \in {"user_read", "flushed"} /\ call[r].op = "login"

Revokes(r) ==
  \/ pc[r] \in {"token_read", "revoke"}
  \/ pc[r] = "flushed" /\ (call[r].op = "logout" \/ (call[r].op = "refresh" /\ issued[r] # NoToken))

Sweeps(r) ==
  \/ pc[r] \in {"sweep", "sweeping"}
  \/ pc[r] = "flushed" /\ (call[r].op = "logout_all" \/ (call[r].op = "refresh" /\ issued[r] = NoToken))

\* The tokens r will revoke when it commits.
Ended(r) == IF Sweeps(r) THEN swept[r] ELSE IF Revokes(r) THEN {call[r].token} ELSE {}

\* What r decided on is still so, and it has written what it decided.
Current(r) ==
  /\ LogsIn(r) => seen[r] = account[Email(r)] /\ seen[r].until # "ahead"
  /\ Revokes(r) => Atomic!Alive(call[r].token)
  /\ Revokes(r) /\ call[r].op = "refresh" /\ pc[r] # "token_read" => Atomic!Active(Email(r))
  /\ Sweeps(r) => IF call[r].op = "refresh" THEN Presented(r).revoked ELSE Atomic!Active(Email(r))
  /\ Sweeps(r) /\ pc[r] # "sweep" => swept[r] = Sessions(Email(r))
  /\ pc[r] = "flushed" =>
       /\ call[r].op = "register" => row[r] = NewAccount
       /\ call[r].op = "login" => (call[r].correct <=> issued[r] # NoToken)
       /\ {t \in Tokens : tokenLock[t] = r} = Ended(r)

\* No request acts on a row that changed since it read it, although it holds no
\* lock in between; and no session is without its account.
DecisionsStayCurrent ==
  /\ \A r \in Requests : Current(r)
  /\ \A t \in Tokens : token[t] # NoToken => account[token[t].owner] # NoAccount
==============================================================================
