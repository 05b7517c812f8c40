-------------------------- MODULE AuthServiceProofs --------------------------
(***************************************************************************)
(* Proofs about AuthService, for any accounts, tokens and request slots:   *)
(* IInv is inductive, and of the requests only a correct password unlocks. *)
(*                                                                         *)
(* A step ends in one of four ways, and a lemma carries the induction over *)
(* each: r is answered without writing, r goes on, r has written and will  *)
(* commit, r commits.                                                      *)
(***************************************************************************)
EXTENDS AuthService, TLAPS

\* The fields of a call.
LEMMA CallFields ==
  ASSUME NEW c \in Call
  PROVE  /\ c.op \in {"register", "login", "refresh", "logout", "logout_all"}
         /\ c.op \in {"register", "login", "logout_all"} => c.email \in Emails
         /\ c.op = "login" => c.correct \in BOOLEAN
         /\ c.op \in {"refresh", "logout"} => c.token \in Tokens \union {NoToken}
BY DEF Call

\* A request that is under way was asked for something.
LEMMA CallIsKnown ==
  ASSUME TypeOK, RequestsFit, NEW r \in Requests, pc[r] # "idle"
  PROVE  /\ call[r] \in Call /\ call[r] # NoCall
         /\ call[r].op \in {"refresh", "logout"} /\ call[r].token # NoToken =>
              /\ call[r].token \in Tokens /\ token[call[r].token] \in Token
              /\ Presented(r) = token[call[r].token]
<1>1. call[r] \in Call /\ call[r] # NoCall
  BY NullsAssumption DEF TypeOK, RequestsFit, Fits
<1>2. call[r].op \in {"refresh", "logout"} => call[r].token \in Tokens \union {NoToken}
  BY <1>1, CallFields
<1> QED BY <1>1, <1>2 DEF TypeOK, RequestsFit, Fits, Presented

\* What the columns of an account become stays an account.
LEMMA ObjectsAreAccounts ==
  ASSUME NEW a \in Account
  PROVE  Success(a) \in Account /\ Failure(a) \in Account
BY LimitsAssumption DEF Account, Success, Failure

LEMMA WrittenIsAccount ==
  ASSUME NEW a \in Account, NEW b \in Account, NEW c \in Account
  PROVE  Written(a, b, c) \in Account
BY DEF Account, Written

\* Rows that only come, never go, leave a request that does nothing as fit as
\* it was: those it has written are locked, those it read exist.
LEMMA OthersStayFit ==
  ASSUME IInv, NEW q \in Requests,
         pc'[q] = pc[q], call'[q] = call[q], seen'[q] = seen[q], row'[q] = row[q],
         swept'[q] = swept[q], issued'[q] = issued[q],
         \A e \in Emails : account[e] # NoAccount => account'[e] # NoAccount,
         \A t \in Tokens : token[t] # NoToken => token'[t] # NoToken,
         \A e \in Emails : accountLock[e] = q => accountLock'[e] = q /\ account'[e] = account[e],
         \A t \in Tokens : tokenLock[t] = q => tokenLock'[t] = q
  PROVE  Fits(q)'
<1>1. Fits(q)
  BY DEF IInv, RequestsFit
<1>2. CASE call[q] = NoCall
  BY <1>1, <1>2 DEF Fits, IInv, TypeOK
<1>3. CASE call[q] # NoCall
  <2>1. call[q] \in Call
    BY <1>3 DEF IInv, TypeOK
  <2>2. pc[q] = "flushed" => WritesFit(q)'
    BY <1>1, <2>1, CallFields DEF Fits, WritesFit
  <2>3. \A t \in swept[q] : t \in Tokens
    BY DEF IInv, TypeOK
  <2> QED BY <1>1, <1>3, <2>1, <2>2, <2>3, CallFields DEF Fits
<1> QED BY <1>2, <1>3

------------------------------------------------------------------------------
(* How a step can end.                                                     *)

\* An answer that writes nothing gives back the locks and the new token of its
\* request; a success it reports was one already.
LEMMA RefusePreserves ==
  ASSUME IInv, NEW r \in Requests, pc[r] \notin Done, NEW o \in Outcomes,
         o = "ok" /\ call[r].op \in {"refresh", "logout"} /\ Presented(r) # NoToken =>
           Presented(r).revoked,
         Refuse(r, o)
  PROVE  IInv'
<1> USE DEF IInv
<1>1. /\ \A q \in Requests : q # r =>
           /\ pc'[q] = pc[q] /\ seen'[q] = seen[q] /\ row'[q] = row[q]
           /\ swept'[q] = swept[q] /\ issued'[q] = issued[q] /\ outcome'[q] = outcome[q]
      /\ pc'[r] = "done" /\ swept'[r] = {} /\ issued'[r] = NoToken /\ outcome'[r] = o
      /\ call' = call /\ account' = account /\ token' = token
  BY DEF Refuse, Answer, TypeOK, rows
<1>2. /\ \A e \in Emails : accountLock'[e] = IF accountLock[e] = r THEN Free ELSE accountLock[e]
      /\ \A t \in Tokens : tokenLock'[t] = IF tokenLock[t] = r THEN Free ELSE tokenLock[t]
  BY DEF Refuse, Answer
<1>3. TypeOK'
  BY <1>1 DEF Refuse, Answer, TypeOK, Labels, Done
<1>4. RequestsFit'
  <2> SUFFICES ASSUME NEW q \in Requests PROVE Fits(q)'
    BY DEF RequestsFit
  <2>1. CASE q # r
    BY <1>1, <1>2, <2>1, OthersStayFit
  <2>2. CASE q = r
    BY <1>1, <2>2 DEF RequestsFit, Fits, Done
  <2> QED BY <2>1, <2>2
<1>5. LockHolders'
  <2>1. ASSUME NEW e \in Emails, accountLock'[e] # Free
        PROVE  accountLock[e] # Free /\ accountLock[e] # r /\ accountLock'[e] = accountLock[e]
               /\ accountLock[e] \in Requests
    BY <1>2, <2>1 DEF TypeOK
  <2>2. ASSUME NEW t \in Tokens, tokenLock'[t] # Free
        PROVE  tokenLock[t] # Free /\ tokenLock[t] # r /\ tokenLock'[t] = tokenLock[t]
               /\ tokenLock[t] \in Requests
    BY <1>2, <2>2 DEF TypeOK
  <2> QED BY <1>1, <2>1, <2>2 DEF LockHolders
<1>6. ExchangeIsAtomic'
  BY <1>1 DEF ExchangeIsAtomic
<1>7. EndedTokenIsRevoked'
  BY <1>1 DEF EndedTokenIsRevoked, Presented
<1> QED BY <1>3, <1>4, <1>5, <1>6, <1>7

\* A request that goes on, having only read, is fit if its new label is.
LEMMA GoesOnPreserves ==
  ASSUME IInv, NEW r \in Requests, pc[r] \notin Done, pc[r] # "flushed",
         NEW label \in Labels \ (Done \union {"flushed"}), Goto(r, label),
         NEW a \in Account \union {NoAccount}, seen' = [seen EXCEPT ![r] = a],
         NEW S \in SUBSET Tokens, swept' = [swept EXCEPT ![r] = S],
         UNCHANGED <<rows, locks, call, row, issued, outcome>>,
         Fits(r)'
  PROVE  IInv'
<1> USE DEF IInv
<1>1. /\ \A q \in Requests : q # r =>
           pc'[q] = pc[q] /\ seen'[q] = seen[q] /\ swept'[q] = swept[q]
      /\ pc'[r] = label /\ call' = call /\ row' = row /\ issued' = issued /\ outcome' = outcome
      /\ account' = account /\ token' = token
      /\ accountLock' = accountLock /\ tokenLock' = tokenLock
  BY DEF Goto, TypeOK, rows, locks
<1>2. TypeOK'
  BY <1>1 DEF Goto, TypeOK
<1>3. RequestsFit'
  <2> SUFFICES ASSUME NEW q \in Requests, q # r PROVE Fits(q)'
    BY DEF RequestsFit
  <2> QED BY <1>1, OthersStayFit
<1>4. LockHolders'
  BY <1>1 DEF LockHolders, TypeOK
<1>5. ExchangeIsAtomic'
  BY <1>1 DEF ExchangeIsAtomic
<1>6. EndedTokenIsRevoked'
  BY <1>1 DEF EndedTokenIsRevoked, Presented, Done
<1> QED BY <1>2, <1>3, <1>4, <1>5, <1>6

\* A request that has written everything: it took free locks, and if it opens
\* a session its token is nobody else's.
LEMMA FlushPreserves ==
  ASSUME IInv, NEW r \in Requests, pc[r] \notin Done, pc[r] # "flushed",
         Goto(r, "flushed"),
         accountLock' \in [Emails -> Requests \union {Free}],
         \A e \in Emails : accountLock'[e] # accountLock[e] =>
           /\ accountLock[e] = Free /\ accountLock'[e] = r
           /\ call[r].op \in {"register", "login"} /\ call[r].email = e,
         tokenLock' \in [Tokens -> Requests \union {Free}],
         \A t \in Tokens : tokenLock'[t] # tokenLock[t] =>
           /\ tokenLock[t] = Free /\ tokenLock'[t] = r
           /\ call[r].op \in {"refresh", "logout", "logout_all"} /\ token[t] # NoToken
           /\ issued'[r] # NoToken => call[r].token = t,
         NEW a \in Account \union {NoAccount}, row' = [row EXCEPT ![r] = a],
         NEW n \in Fresh \union {NoToken}, issued' = [issued EXCEPT ![r] = n],
         n # NoToken => call[r].op \in {"login", "refresh"},
         UNCHANGED <<rows, call, seen, swept, outcome>>,
         WritesFit(r)'
  PROVE  IInv'
<1> USE DEF IInv
<1>1. /\ \A q \in Requests : q # r =>
           pc'[q] = pc[q] /\ row'[q] = row[q] /\ issued'[q] = issued[q]
      /\ pc'[r] = "flushed" /\ issued'[r] = n
      /\ call' = call /\ seen' = seen /\ swept' = swept /\ outcome' = outcome
      /\ account' = account /\ token' = token
  BY DEF Goto, TypeOK, rows
<1>2. n # NoToken => n \in Tokens /\ token[n] = NoToken /\ \A q \in Requests : issued[q] # n
  BY DEF Fresh
<1>3. \A e \in Emails : accountLock[e] # r /\ \A t \in Tokens : tokenLock[t] # r
  BY FreeAssumption DEF LockHolders, TypeOK
<1>4. TypeOK'
  BY <1>1, <1>2 DEF Goto, TypeOK, Labels
<1>5. RequestsFit'
  <2> SUFFICES ASSUME NEW q \in Requests PROVE Fits(q)'
    BY DEF RequestsFit
  <2>1. CASE q # r
    <3>1. /\ \A e \in Emails : accountLock[e] = q => accountLock'[e] = q
          /\ \A t \in Tokens : tokenLock[t] = q => tokenLock'[t] = q
      BY FreeAssumption
    <3> QED BY <1>1, <2>1, <3>1, OthersStayFit
  <2>2. CASE q = r
    <3>1. Fits(r) /\ call[r] # NoCall
      BY CallIsKnown DEF RequestsFit, Done
    <3> QED BY <1>1, <2>2, <3>1 DEF Fits
  <2> QED BY <2>1, <2>2
<1>6. LockHolders'
  <2>1. ASSUME NEW e \in Emails, accountLock'[e] # Free
        PROVE  LET q == accountLock'[e]
               IN  pc'[q] = "flushed" /\ call'[q].op \in {"register", "login"} /\ call'[q].email = e
    <3>1. CASE accountLock'[e] = accountLock[e]
      BY <1>1, <1>3, <2>1, <3>1 DEF LockHolders, TypeOK
    <3>2. CASE accountLock'[e] # accountLock[e]
      BY <1>1, <3>2
    <3> QED BY <3>1, <3>2
  <2>2. ASSUME NEW t \in Tokens, tokenLock'[t] # Free
        PROVE  LET q == tokenLock'[t]
               IN  /\ pc'[q] = "flushed" /\ call'[q].op \in {"refresh", "logout", "logout_all"}
                   /\ token'[t] # NoToken
                   /\ issued'[q] # NoToken => call'[q].token = t
    <3>1. CASE tokenLock'[t] = tokenLock[t]
      BY <1>1, <1>3, <2>2, <3>1 DEF LockHolders, TypeOK
    <3>2. CASE tokenLock'[t] # tokenLock[t]
      BY <1>1, <3>2
    <3> QED BY <3>1, <3>2
  <2>3. ASSUME NEW q \in Requests, issued'[q] # NoToken
        PROVE  /\ pc'[q] = "flushed" /\ call'[q].op \in {"login", "refresh"}
               /\ token'[issued'[q]] = NoToken
               /\ \A p \in Requests : issued'[p] = issued'[q] => p = q
    BY <1>1, <1>2, <2>3 DEF LockHolders
  <2> QED BY <2>1, <2>2, <2>3 DEF LockHolders
<1>7. ExchangeIsAtomic'
  BY <1>1 DEF ExchangeIsAtomic
<1>8. EndedTokenIsRevoked'
  BY <1>1 DEF EndedTokenIsRevoked, Presented
<1> QED BY <1>4, <1>5, <1>6, <1>7, <1>8

\* The account and the tokens a Commit leaves: typed, with every row that was
\* there, and the rows r does not hold as they were.
LEMMA CommittedRows ==
  ASSUME IInv, NEW r \in Requests, Commit(r)
  PROVE  /\ account' \in [Emails -> Account \union {NoAccount}]
         /\ \A e \in Emails :
              /\ account[e] # NoAccount => account'[e] # NoAccount
              /\ accountLock[e] # r => account'[e] = account[e]
              /\ accountLock[e] = r /\ account[e] # NoAccount =>
                   /\ call[r].op = "login" /\ call[r].email = e
                   /\ account'[e] = Written(seen[r], row[r], account[e])
                   /\ account[e] \in Account /\ seen[r] \in Account
                   /\ row[r] = IF call[r].correct THEN Success(seen[r]) ELSE Failure(seen[r])
<1> USE DEF IInv
<1>1. pc[r] = "flushed" /\ call[r] \in Call /\ WritesFit(r)
  BY CallIsKnown DEF Commit, RequestsFit, Fits
<1>2. ASSUME NEW e \in Emails, accountLock[e] = r
      PROVE  /\ row[r] \in Account
             /\ call[r].op \in {"register", "login"} /\ call[r].email = e
             /\ account[e] # NoAccount => call[r].op = "login" /\ seen[r] \in Account
  <2>1. call[r].op \in {"register", "login"} /\ call[r].email = e
    BY <1>2, FreeAssumption DEF LockHolders
  <2>2. CASE call[r].op = "register"
    BY <1>1, <2>1, <2>2 DEF WritesFit, TypeOK
  <2>3. CASE call[r].op = "login"
    BY <1>1, <2>1, <2>3, ObjectsAreAccounts DEF WritesFit, TypeOK
  <2> QED BY <2>1, <2>2, <2>3
<1>3. ASSUME NEW e \in Emails
      PROVE  account'[e] = IF accountLock[e] = r
                           THEN IF account[e] = NoAccount THEN row[r]
                                ELSE Written(seen[r], row[r], account[e])
                           ELSE account[e]
  BY <1>3 DEF Commit
<1>4. ASSUME NEW e \in Emails
      PROVE  account'[e] \in Account \/ (account'[e] = account[e] /\ accountLock[e] # r)
  <2>1. CASE accountLock[e] = r /\ account[e] # NoAccount
    BY <1>2, <1>3, <2>1, WrittenIsAccount DEF TypeOK
  <2> QED BY <1>2, <1>3, <2>1
<1>5. account' \in [Emails -> Account \union {NoAccount}]
  <2>1. account' = [e \in Emails |-> account'[e]]
    BY DEF Commit
  <2> QED BY <1>4, <2>1 DEF TypeOK
<1>6. ASSUME NEW e \in Emails, accountLock[e] = r, account[e] # NoAccount
      PROVE  row[r] = IF call[r].correct THEN Success(seen[r]) ELSE Failure(seen[r])
  BY <1>1, <1>2, <1>6 DEF WritesFit
<1> QED BY <1>2, <1>3, <1>4, <1>5, <1>6, NullsAssumption DEF TypeOK

\* The tokens: the one r issued is new, those it holds are revoked, the others
\* are as they were.
LEMMA CommittedTokenRows ==
  ASSUME IInv, NEW r \in Requests, Commit(r)
  PROVE  /\ token' \in [Tokens -> Token \union {NoToken}]
         /\ \A t \in Tokens :
              /\ t = issued[r] =>
                   /\ token[t] = NoToken /\ token'[t] \in Token /\ tokenLock[t] # r
                   /\ token'[t].owner = Email(r) /\ token'[t].successor = NoToken
                   /\ token'[t].parent = IF call[r].op = "refresh" THEN call[r].token ELSE NoToken
              /\ t # issued[r] /\ tokenLock[t] = r =>
                   /\ token[t] \in Token
                   /\ token'[t] = [token[t] EXCEPT !.revoked = TRUE,
                        !.successor = IF issued[r] = NoToken THEN @ ELSE issued[r]]
                   /\ token'[t] \in Token
                   /\ issued[r] # NoToken => call[r].token = t
              /\ t # issued[r] /\ tokenLock[t] # r => token'[t] = token[t]
<1> USE DEF IInv
<1>1. pc[r] = "flushed" /\ call[r] \in Call /\ WritesFit(r)
  BY CallIsKnown DEF Commit, RequestsFit, Fits
<1>2. issued[r] \in Tokens \union {NoToken}
  BY DEF TypeOK
<1>3. issued[r] # NoToken => /\ call[r].op \in {"login", "refresh"} /\ token[issued[r]] = NoToken
                             /\ tokenLock[issued[r]] # r /\ Email(r) \in Emails
  <2> SUFFICES ASSUME issued[r] # NoToken
               PROVE  /\ call[r].op \in {"login", "refresh"} /\ token[issued[r]] = NoToken
                      /\ tokenLock[issued[r]] # r /\ Email(r) \in Emails
    OBVIOUS
  <2>1. call[r].op \in {"login", "refresh"} /\ token[issued[r]] = NoToken
    BY DEF LockHolders
  <2>2. tokenLock[issued[r]] # r
    BY <1>2, <2>1, FreeAssumption DEF LockHolders
  <2>3. Email(r) \in Emails
    <3>1. CASE call[r].op = "login"
      BY <1>1, <3>1, CallFields DEF Email
    <3>2. CASE call[r].op = "refresh"
      <4>1. Presented(r) \in Token
        BY <1>1, <3>2, CallIsKnown DEF WritesFit
      <4> QED BY <3>2, <4>1 DEF Email, Token
    <3> QED BY <2>1, <3>1, <3>2
  <2> QED BY <2>1, <2>2, <2>3
<1>4. call[r].op = "refresh" => call[r].token \in Tokens
  BY <1>1, CallFields DEF WritesFit
<1> DEFINE new == [owner |-> Email(r), revoked |-> FALSE, expired |-> FALSE,
                   successor |-> NoToken,
                   parent |-> IF call[r].op = "refresh" THEN call[r].token ELSE NoToken]
           old(t) == [token[t] EXCEPT !.revoked = TRUE,
                        !.successor = IF issued[r] = NoToken THEN @ ELSE issued[r]]
<1>5. \A t \in Tokens : token'[t] = IF t = issued[r] THEN new
                                    ELSE IF tokenLock[t] = r THEN old(t) ELSE token[t]
  BY DEF Commit, CommittedTokens
<1>6. issued[r] # NoToken => new \in Token
  BY <1>3, <1>4 DEF Token
<1>7. ASSUME NEW t \in Tokens, tokenLock[t] = r
      PROVE  token[t] \in Token /\ (issued[r] # NoToken => call[r].token = t)
  BY <1>7, FreeAssumption DEF LockHolders, TypeOK
<1>8. ASSUME NEW t \in Tokens, tokenLock[t] = r
      PROVE  old(t) \in Token
  BY <1>2, <1>7, <1>8 DEF Token
<1>9. token' \in [Tokens -> Token \union {NoToken}]
  <2>1. token' = [t \in Tokens |-> token'[t]]
    BY DEF Commit, CommittedTokens
  <2>2. \A t \in Tokens : token'[t] \in Token \union {NoToken}
    <3> HIDE DEF new, old
    <3> QED BY <1>2, <1>5, <1>6, <1>8, NullsAssumption DEF TypeOK
  <2> QED BY <2>1, <2>2
<1>10. ASSUME NEW t \in Tokens, t = issued[r]
       PROVE  /\ token[t] = NoToken /\ token'[t] \in Token /\ tokenLock[t] # r
              /\ token'[t].owner = Email(r) /\ token'[t].successor = NoToken
              /\ token'[t].parent = IF call[r].op = "refresh" THEN call[r].token ELSE NoToken
  <2>1. issued[r] # NoToken /\ token'[t] = new
    BY <1>5, <1>10, NullsAssumption
  <2> QED BY <1>3, <1>6, <1>10, <2>1
<1>11. ASSUME NEW t \in Tokens, t # issued[r], tokenLock[t] = r
       PROVE  /\ token[t] \in Token /\ token'[t] = old(t) /\ token'[t] \in Token
              /\ issued[r] # NoToken => call[r].token = t
  <2> HIDE DEF new, old
  <2> QED BY <1>5, <1>7, <1>8, <1>11
<1>12. \A t \in Tokens : t # issued[r] /\ tokenLock[t] # r => token'[t] = token[t]
  BY <1>5
<1> QED BY <1>9, <1>10, <1>11, <1>12

\* COMMIT.
LEMMA CommitPreserves ==
  ASSUME IInv, NEW r \in Requests, Commit(r)
  PROVE  IInv'
<1> USE DEF IInv
<1>1. pc[r] = "flushed" /\ call[r] \in Call /\ WritesFit(r)
  BY CallIsKnown DEF Commit, RequestsFit, Fits
<1>2. PICK o \in {Result(r), "lost"} : Answer(r, o)
  BY DEF Commit
<1>3. /\ \A q \in Requests : q # r =>
           /\ pc'[q] = pc[q] /\ seen'[q] = seen[q] /\ row'[q] = row[q]
           /\ swept'[q] = swept[q] /\ issued'[q] = issued[q] /\ outcome'[q] = outcome[q]
      /\ pc'[r] = "done" /\ swept'[r] = {} /\ issued'[r] = NoToken /\ outcome'[r] = o
      /\ call' = call
  BY <1>2 DEF Answer, TypeOK
<1>4. /\ \A e \in Emails : accountLock'[e] = IF accountLock[e] = r THEN Free ELSE accountLock[e]
      /\ \A t \in Tokens : tokenLock'[t] = IF tokenLock[t] = r THEN Free ELSE tokenLock[t]
  BY <1>2 DEF Answer
<1>5. /\ \A e \in Emails : account[e] # NoAccount => account'[e] # NoAccount
      /\ \A e \in Emails : accountLock[e] # r => account'[e] = account[e]
      /\ account' \in [Emails -> Account \union {NoAccount}]
  BY CommittedRows
<1>6. ASSUME NEW t \in Tokens, token[t] # NoToken
      PROVE  /\ token'[t] # NoToken /\ token'[t].owner = token[t].owner
             /\ token'[t].parent = token[t].parent
             /\ token[t].revoked => token'[t].revoked
             /\ token'[t].successor \in {token[t].successor, issued[r]}
             /\ token[t].successor # NoToken => token'[t].successor # NoToken
  <2>1. t # issued[r]
    BY <1>6, CommittedTokenRows
  <2>2. CASE tokenLock[t] = r
    <3>1. token[t] \in Token /\ token'[t] \in Token
      BY <2>1, <2>2, CommittedTokenRows
    <3>2. token'[t] = [token[t] EXCEPT !.revoked = TRUE,
                         !.successor = IF issued[r] = NoToken THEN @ ELSE issued[r]]
      BY <2>1, <2>2, CommittedTokenRows
    <3> QED BY <3>1, <3>2, NullsAssumption DEF Token
  <2>3. CASE tokenLock[t] # r
    BY <1>6, <2>1, <2>3, CommittedTokenRows
  <2> QED BY <2>2, <2>3
<1>7. TypeOK'
  <2>1. Result(r) \in Outcomes
    BY DEF Result, Outcomes
  <2> QED BY <1>2, <1>3, <1>5, <2>1, CommittedTokenRows
          DEF Answer, TypeOK, Labels, Done, Outcomes
<1>8. RequestsFit'
  <2> SUFFICES ASSUME NEW q \in Requests PROVE Fits(q)'
    BY DEF RequestsFit
  <2>1. CASE q # r
    BY <1>3, <1>4, <1>5, <1>6, <2>1, OthersStayFit
  <2>2. CASE q = r
    <3>1. Fits(r)
      BY DEF RequestsFit
    <3> QED BY <1>1, <1>3, <1>5, <1>6, <2>2, <3>1, CallFields DEF Fits
  <2> QED BY <2>1, <2>2
<1>9. LockHolders'
  <2>1. ASSUME NEW e \in Emails, accountLock'[e] # Free
        PROVE  accountLock[e] # Free /\ accountLock[e] # r /\ accountLock'[e] = accountLock[e]
               /\ accountLock[e] \in Requests
    BY <1>4, <2>1 DEF TypeOK
  <2>2. ASSUME NEW t \in Tokens, tokenLock'[t] # Free
        PROVE  tokenLock[t] # Free /\ tokenLock[t] # r /\ tokenLock'[t] = tokenLock[t]
               /\ tokenLock[t] \in Requests
    BY <1>4, <2>2 DEF TypeOK
  <2>3. ASSUME NEW q \in Requests, issued'[q] # NoToken
        PROVE  /\ pc'[q] = "flushed" /\ call'[q].op \in {"login", "refresh"}
               /\ token'[issued'[q]] = NoToken
               /\ \A p \in Requests : issued'[p] = issued'[q] => p = q
    <3>1. q # r /\ issued'[q] = issued[q] /\ issued[q] \in Tokens
      BY <1>3, <2>3 DEF TypeOK
    <3>2. token[issued[q]] = NoToken /\ issued[q] # issued[r] /\ tokenLock[issued[q]] # r
      BY <2>3, <3>1, FreeAssumption DEF LockHolders
    <3>3. token'[issued[q]] = NoToken
      BY <3>1, <3>2, CommittedTokenRows
    <3>4. \A p \in Requests : issued'[p] = issued'[q] => p = q
      BY <1>3, <2>3, <3>1 DEF LockHolders
    <3> QED BY <1>3, <2>3, <3>1, <3>3, <3>4 DEF LockHolders
  <2> QED BY <1>3, <1>6, <2>1, <2>2, <2>3 DEF LockHolders
<1>10. ExchangeIsAtomic'
  <2> SUFFICES ASSUME NEW t \in Tokens, token'[t] # NoToken
      PROVE  /\ LET p == token'[t].parent
                IN  p # NoToken =>
                      token'[p] # NoToken /\ token'[p].revoked /\ token'[p].successor # NoToken
             /\ LET s == token'[t].successor
                IN  s # NoToken =>
                      /\ token'[t].revoked /\ token'[s] # NoToken
                      /\ token'[s].owner = token'[t].owner /\ token'[s].parent = t
    BY DEF ExchangeIsAtomic
  <2>1. CASE t = issued[r]
    <3>1. /\ token'[t].successor = NoToken /\ t # NoToken
          /\ token'[t].parent = IF call[r].op = "refresh" THEN call[r].token ELSE NoToken
      BY <2>1, CommittedTokenRows, NullsAssumption
    <3>2. CASE call[r].op = "refresh"
      <4> DEFINE p == call[r].token
      <4>1. p \in Tokens /\ token[p] \in Token /\ tokenLock[p] = r
        BY <1>1, <2>1, <3>1, <3>2, CallIsKnown DEF WritesFit
      <4>2. p # issued[r]
        BY <4>1, CommittedTokenRows
      <4>3. token'[p] = [token[p] EXCEPT !.revoked = TRUE,
                           !.successor = IF issued[r] = NoToken THEN @ ELSE issued[r]]
            /\ token'[p] \in Token
        BY <4>1, <4>2, CommittedTokenRows
      <4>4. token'[p].revoked /\ token'[p].successor = issued[r]
        BY <2>1, <3>1, <4>1, <4>3 DEF Token
      <4> QED BY <2>1, <3>1, <3>2, <4>3, <4>4, NullsAssumption
    <3>3. CASE call[r].op # "refresh"
      BY <3>1, <3>3
    <3> QED BY <3>2, <3>3
  <2>2. CASE t # issued[r]
    <3>1. token[t] # NoToken /\ token[t] \in Token
      <4>1. CASE tokenLock[t] = r
        BY <2>2, <4>1, CommittedTokenRows, NullsAssumption
      <4>2. CASE tokenLock[t] # r
        <5>1. token'[t] = token[t]
          BY <2>2, <4>2, CommittedTokenRows
        <5> QED BY <5>1 DEF TypeOK
      <4> QED BY <4>1, <4>2
    <3>2. LET p == token'[t].parent
          IN  p # NoToken =>
                token'[p] # NoToken /\ token'[p].revoked /\ token'[p].successor # NoToken
      <4>1. token'[t].parent = token[t].parent
            /\ token[t].parent \in Tokens \union {NoToken}
        BY <1>6, <3>1 DEF Token
      <4> QED BY <1>6, <3>1, <4>1 DEF ExchangeIsAtomic
    <3>3. ASSUME token'[t].successor # NoToken
          PROVE  LET s == token'[t].successor
                 IN  /\ token'[t].revoked /\ token'[s] # NoToken
                     /\ token'[s].owner = token'[t].owner /\ token'[s].parent = t
      <4>1. CASE token'[t].successor = token[t].successor
        <5> DEFINE s == token[t].successor
        <5>1. s \in Tokens /\ token[t].revoked /\ token[s] # NoToken
              /\ token[s].owner = token[t].owner /\ token[s].parent = t
          BY <3>1, <3>3, <4>1 DEF Token, ExchangeIsAtomic
        <5>2. token'[s] # NoToken /\ token'[s].owner = token[s].owner
              /\ token'[s].parent = token[s].parent
          BY <1>6, <5>1
        <5>3. token'[t].revoked /\ token'[t].owner = token[t].owner
          BY <1>6, <3>1, <5>1
        <5> HIDE DEF s
        <5> QED BY <4>1, <5>1, <5>2, <5>3 DEF s
      <4>2. CASE token'[t].successor # token[t].successor
        <5>1. tokenLock[t] = r /\ token'[t].successor = issued[r]
          BY <1>6, <2>2, <3>1, <4>2, CommittedTokenRows
        <5>2. call[r].token = t /\ issued[r] \in Tokens
          <6>1. issued[r] # NoToken
            BY <3>3, <5>1
          <6> QED BY <5>1, <6>1, FreeAssumption DEF LockHolders, TypeOK
        <5>3. call[r].op = "refresh"
          BY <3>3, <5>1, FreeAssumption DEF LockHolders
        <5>4. token'[issued[r]] \in Token /\ token'[issued[r]].parent = t
              /\ token'[issued[r]].owner = Email(r)
          BY <5>2, <5>3, CommittedTokenRows
        <5>5. Email(r) = token[t].owner
          BY <3>1, <5>2, <5>3, NullsAssumption DEF Email, Presented
        <5>6. token'[t] = [token[t] EXCEPT !.revoked = TRUE,
                             !.successor = IF issued[r] = NoToken THEN @ ELSE issued[r]]
          BY <2>2, <5>1, CommittedTokenRows
        <5>7. token'[t].revoked /\ token'[t].owner = token[t].owner
          BY <3>1, <5>6 DEF Token
        <5> QED BY <5>1, <5>4, <5>5, <5>7, NullsAssumption
      <4> QED BY <4>1, <4>2
    <3> QED BY <3>2, <3>3
  <2> QED BY <2>1, <2>2
<1>11. EndedTokenIsRevoked'
  <2> SUFFICES ASSUME NEW q \in Requests, pc'[q] = "done", outcome'[q] = "ok",
                      call[q].op \in {"refresh", "logout"}, Presented(q)' # NoToken
               PROVE  Presented(q)'.revoked
    BY <1>3 DEF EndedTokenIsRevoked
  <2> DEFINE t == call[q].token
  <2>1. t # NoToken /\ Presented(q)' = token'[t]
    BY <1>3 DEF Presented
  <2>2. pc[q] # "idle"
    BY <1>1, <1>3
  <2>3. t \in Tokens /\ token[t] \in Token /\ Presented(q) = token[t]
    BY <2>1, <2>2, CallIsKnown
  <2>4. CASE q # r
    <3>1. Presented(q).revoked
      BY <1>3, <2>3, <2>4, NullsAssumption DEF EndedTokenIsRevoked
    <3> QED BY <1>6, <2>1, <2>3, <3>1, NullsAssumption
  <2>5. CASE q = r
    <3>1. tokenLock[t] = r
      BY <1>1, <1>3, <2>1, <2>5 DEF WritesFit, Result
    <3>2. t # issued[r]
      BY <2>3, <3>1, CommittedTokenRows
    <3>3. token'[t] = [token[t] EXCEPT !.revoked = TRUE,
                         !.successor = IF issued[r] = NoToken THEN @ ELSE issued[r]]
      BY <2>3, <3>1, <3>2, CommittedTokenRows
    <3>4. token'[t].revoked
      BY <2>3, <3>3 DEF Token
    <3> QED BY <2>1, <3>4
  <2> QED BY <2>4, <2>5
<1> QED BY <1>7, <1>8, <1>9, <1>10, <1>11

------------------------------------------------------------------------------
(* One lemma per action.                                                   *)

\* A new request: what it names exists, and its slot has no lock and no token.
LEMMA ReceivePreserves ==
  ASSUME IInv, NEW r \in Requests, NEW c \in Call, Receive(r, c)
  PROVE  IInv'
<1> USE DEF IInv
<1>1. /\ \A q \in Requests : q # r => /\ pc'[q] = pc[q] /\ call'[q] = call[q]
                                      /\ outcome'[q] = outcome[q]
      /\ pc'[r] = "received" /\ call'[r] = c /\ pc[r] \in Done
      /\ seen' = seen /\ row' = row /\ swept' = swept /\ issued' = issued
      /\ account' = account /\ token' = token
      /\ accountLock' = accountLock /\ tokenLock' = tokenLock
  BY DEF Receive, Goto, TypeOK, rows, locks
<1>2. TypeOK'
  BY <1>1 DEF Receive, Goto, TypeOK, Labels, Outcomes
<1>3. RequestsFit'
  <2> SUFFICES ASSUME NEW q \in Requests PROVE Fits(q)'
    BY DEF RequestsFit
  <2>1. CASE q # r
    BY <1>1, <2>1, OthersStayFit
  <2>2. CASE q = r
    BY <1>1, <2>2, NullsAssumption DEF Receive, RequestsFit, Fits
  <2> QED BY <2>1, <2>2
<1>4. LockHolders'
  <2>1. /\ \A e \in Emails : accountLock[e] # r
        /\ \A t \in Tokens : tokenLock[t] # r
        /\ issued[r] = NoToken
    BY <1>1, FreeAssumption DEF LockHolders, Done
  <2>2. /\ \A e \in Emails : accountLock[e] # Free => accountLock[e] \in Requests
        /\ \A t \in Tokens : tokenLock[t] # Free => tokenLock[t] \in Requests
    BY DEF TypeOK
  <2> QED BY <1>1, <2>1, <2>2 DEF LockHolders
<1>5. ExchangeIsAtomic'
  BY <1>1 DEF ExchangeIsAtomic
<1>6. EndedTokenIsRevoked'
  BY <1>1 DEF EndedTokenIsRevoked, Presented
<1> QED BY <1>2, <1>3, <1>4, <1>5, <1>6

\* A read that changes the label of r only.
LEMMA ReadPreserves ==
  ASSUME IInv, NEW r \in Requests, pc[r] \notin Done, pc[r] # "flushed",
         NEW label \in Labels \ (Done \union {"flushed"}), Goto(r, label),
         UNCHANGED <<rows, locks, call, seen, row, swept, issued, outcome>>,
         Fits(r)'
  PROVE  IInv'
<1>1. /\ seen[r] \in Account \union {NoAccount} /\ seen' = [seen EXCEPT ![r] = seen[r]]
      /\ swept[r] \in SUBSET Tokens /\ swept' = [swept EXCEPT ![r] = swept[r]]
  BY DEF IInv, TypeOK
<1> QED BY <1>1, GoesOnPreserves

LEMMA RegisterCheckPreserves ==
  ASSUME IInv, NEW r \in Requests, RegisterCheck(r)
  PROVE  IInv'
<1>1. pc[r] = "received" /\ call[r].op = "register" /\ call[r] # NoCall /\ Fits(r)
  BY CallIsKnown DEF IInv, RegisterCheck, RequestsFit
<1>2. CASE account[Email(r)] # NoAccount
  BY <1>1, <1>2, RefusePreserves DEF RegisterCheck, Outcomes, Done
<1>3. CASE account[Email(r)] = NoAccount
  <2>1. Goto(r, "checked") /\ UNCHANGED <<rows, locks, call, seen, row, swept, issued, outcome>>
    BY <1>3 DEF RegisterCheck
  <2>2. pc'[r] = "checked"
    BY <2>1 DEF Goto, IInv, TypeOK
  <2>3. Fits(r)'
    BY <1>1, <2>1, <2>2 DEF Fits, rows
  <2> QED BY <1>1, <2>1, <2>3, ReadPreserves DEF Labels, Done
<1> QED BY <1>2, <1>3

\* The new row is locked until it is committed, and no committed one is there.
LEMMA RegisterInsertPreserves ==
  ASSUME IInv, NEW r \in Requests, RegisterInsert(r)
  PROVE  IInv'
<1> USE DEF IInv
<1>1. pc[r] = "checked" /\ call[r].op = "register" /\ call[r] \in Call /\ Email(r) = call[r].email
      /\ call[r].email \in Emails
  BY CallIsKnown, CallFields DEF RegisterInsert, RequestsFit, Fits, Email
<1>2. CASE Refuse(r, "internal_error")
  BY <1>1, <1>2, RefusePreserves DEF Outcomes, Done
<1>3. CASE ~Refuse(r, "internal_error")
  <2>1. /\ account[Email(r)] = NoAccount /\ accountLock[Email(r)] = Free
        /\ accountLock' = [accountLock EXCEPT ![Email(r)] = r]
        /\ row' = [row EXCEPT ![r] = NewAccount]
        /\ Goto(r, "flushed")
        /\ UNCHANGED <<rows, tokenLock, call, seen, swept, issued, outcome>>
    BY <1>3 DEF RegisterInsert
  <2>2. NewAccount \in Account
    BY DEF NewAccount, Account
  <2>3. issued[r] = NoToken /\ issued' = [issued EXCEPT ![r] = NoToken]
    BY <1>1, <2>1 DEF LockHolders, TypeOK
  <2>4. /\ accountLock' \in [Emails -> Requests \union {Free}]
        /\ \A e \in Emails : accountLock'[e] # accountLock[e] =>
             /\ accountLock[e] = Free /\ accountLock'[e] = r
             /\ call[r].op \in {"register", "login"} /\ call[r].email = e
    BY <1>1, <2>1 DEF TypeOK
  <2>5. WritesFit(r)'
    BY <1>1, <2>1, <2>2, NullsAssumption DEF WritesFit, TypeOK, rows
  <2>6. tokenLock' \in [Tokens -> Requests \union {Free}] /\ tokenLock' = tokenLock
    BY <2>1 DEF TypeOK
  <2> QED BY <1>1, <2>1, <2>2, <2>3, <2>4, <2>5, <2>6, FlushPreserves DEF Done
<1> QED BY <1>2, <1>3

LEMMA LoginReadPreserves ==
  ASSUME IInv, NEW r \in Requests, LoginRead(r)
  PROVE  IInv'
<1> USE DEF IInv
<1>1. pc[r] = "received" /\ call[r].op = "login" /\ call[r] \in Call /\ Email(r) = call[r].email
      /\ call[r].email \in Emails /\ call[r] # NoCall /\ Fits(r)
  BY CallIsKnown, CallFields DEF LoginRead, RequestsFit, Email
<1>2. CASE account[Email(r)] = NoAccount \/ account[Email(r)].until = "ahead"
  BY <1>1, <1>2, RefusePreserves DEF LoginRead, Outcomes, Done
<1>3. CASE account[Email(r)] # NoAccount /\ account[Email(r)].until # "ahead"
  <2>1. /\ seen' = [seen EXCEPT ![r] = account[Email(r)]]
        /\ Goto(r, "user_read")
        /\ UNCHANGED <<rows, locks, call, row, swept, issued, outcome>>
    BY <1>3 DEF LoginRead
  <2>2. account[Email(r)] \in Account \union {NoAccount}
    BY <1>1 DEF TypeOK
  <2>3. Fits(r)'
    <3>1. pc'[r] = "user_read" /\ seen'[r] = account[call[r].email]
      BY <1>1, <2>1 DEF Goto, TypeOK
    <3> QED BY <1>1, <1>3, <2>1, <3>1 DEF Fits, rows
  <2>4. swept[r] \in SUBSET Tokens /\ swept' = [swept EXCEPT ![r] = swept[r]]
    BY <2>1 DEF TypeOK
  <2> QED BY <1>1, <2>1, <2>2, <2>3, <2>4, GoesOnPreserves DEF Labels, Done
<1> QED BY <1>2, <1>3

\* Right or wrong, the password has r write the row it read, under its lock.
LEMMA LoginFlushPreserves ==
  ASSUME IInv, NEW r \in Requests, LoginFlush(r)
  PROVE  IInv'
<1> USE DEF IInv
<1>1. /\ pc[r] = "user_read" /\ call[r].op = "login" /\ call[r] \in Call
      /\ Email(r) = call[r].email /\ call[r].email \in Emails /\ call[r].correct \in BOOLEAN
      /\ account[call[r].email] # NoAccount /\ seen[r] # NoAccount /\ seen[r] \in Account
  BY CallIsKnown, CallFields DEF LoginFlush, RequestsFit, Fits, Email, TypeOK
<1>2. /\ accountLock[Email(r)] = Free
      /\ accountLock' = [accountLock EXCEPT ![Email(r)] = r]
      /\ Goto(r, "flushed")
      /\ UNCHANGED <<rows, tokenLock, call, seen, swept, outcome>>
  BY DEF LoginFlush
<1> DEFINE a == IF call[r].correct THEN Success(seen[r]) ELSE Failure(seen[r])
<1>3. row' = [row EXCEPT ![r] = a] /\ a \in Account
  BY <1>1, ObjectsAreAccounts DEF LoginFlush
<1>4. PICK n \in Fresh \union {NoToken} : issued' = [issued EXCEPT ![r] = n]
  <2>1. issued[r] = NoToken
    BY <1>1 DEF LockHolders
  <2>2. CASE ~call[r].correct
    BY <2>1, <2>2 DEF LoginFlush, TypeOK
  <2>3. CASE call[r].correct
    BY <2>3 DEF LoginFlush
  <2> QED BY <2>2, <2>3
<1>5. /\ accountLock' \in [Emails -> Requests \union {Free}]
      /\ \A e \in Emails : accountLock'[e] # accountLock[e] =>
           /\ accountLock[e] = Free /\ accountLock'[e] = r
           /\ call[r].op \in {"register", "login"} /\ call[r].email = e
      /\ accountLock'[call[r].email] = r
  BY <1>1, <1>2 DEF TypeOK
<1>6. tokenLock' \in [Tokens -> Requests \union {Free}] /\ tokenLock' = tokenLock
  BY <1>2 DEF TypeOK
<1>7. WritesFit(r)'
  <2>1. row'[r] = a /\ seen'[r] = seen[r] /\ call' = call /\ account' = account
    BY <1>2, <1>3 DEF TypeOK, rows
  <2> QED BY <1>1, <1>5, <2>1 DEF WritesFit
<1> HIDE DEF a
<1> QED BY <1>1, <1>2, <1>3, <1>4, <1>5, <1>6, <1>7, FlushPreserves DEF Done

LEMMA TokenReadPreserves ==
  ASSUME IInv, NEW r \in Requests, TokenRead(r)
  PROVE  IInv'
<1> USE DEF IInv
<1> DEFINE old    == Presented(r)
           logout == call[r].op = "logout"
           next   == IF old.revoked THEN "sweep" ELSE IF logout THEN "revoke" ELSE "token_read"
<1>1. /\ pc[r] = "received" /\ call[r].op \in {"refresh", "logout"} /\ call[r] \in Call
      /\ call[r] # NoCall /\ Fits(r)
  BY CallIsKnown DEF TokenRead, RequestsFit
<1>2. CASE old = NoToken
  BY <1>1, <1>2, RefusePreserves DEF TokenRead, Outcomes, Done
<1>3. CASE old # NoToken /\ old.revoked /\ logout
  BY <1>1, <1>3, RefusePreserves DEF TokenRead, Outcomes, Done
<1>4. CASE old # NoToken /\ ~(old.revoked /\ logout) /\ old.expired /\ ~old.revoked /\ ~logout
  BY <1>1, <1>4, RefusePreserves DEF TokenRead, Outcomes, Done
<1>5. CASE /\ old # NoToken /\ ~(old.revoked /\ logout)
           /\ ~(old.expired /\ ~old.revoked /\ ~logout)
  <2>1. Goto(r, next) /\ UNCHANGED <<rows, locks, call, seen, row, swept, issued, outcome>>
    BY <1>5 DEF TokenRead
  <2>2. call[r].token # NoToken
    BY <1>5 DEF Presented
  <2>3. next \in {"sweep", "revoke", "token_read"}
        /\ (next = "sweep" => ~logout) /\ (next = "token_read" => ~logout)
    BY <1>5
  <2> HIDE DEF next
  <2>4. pc'[r] = next
    BY <2>1 DEF Goto, TypeOK
  <2>5. Fits(r)'
    BY <1>1, <2>1, <2>2, <2>3, <2>4 DEF Fits, rows
  <2> QED BY <1>1, <2>1, <2>3, <2>5, ReadPreserves DEF Labels, Done
<1> QED BY <1>2, <1>3, <1>4, <1>5

LEMMA UserCheckPreserves ==
  ASSUME IInv, NEW r \in Requests, UserCheck(r)
  PROVE  IInv'
<1> USE DEF IInv
<1>1. /\ pc[r] \in {"received", "token_read"} /\ call[r] \in Call /\ call[r] # NoCall
      /\ Fits(r)
      /\ \/ call[r].op = "logout_all"
         \/ call[r].op = "refresh" /\ call[r].token # NoToken
  BY CallIsKnown DEF UserCheck, RequestsFit, Fits
<1>2. CASE account[Email(r)].status # "active"
  BY <1>1, <1>2, RefusePreserves DEF UserCheck, Outcomes, Done
<1>3. CASE account[Email(r)].status = "active"
  <2> DEFINE next == IF call[r].op = "refresh" THEN "revoke" ELSE "sweep"
  <2>1. Goto(r, next) /\ UNCHANGED <<rows, locks, call, seen, row, swept, issued, outcome>>
    BY <1>3 DEF UserCheck
  <2>2. next \in {"revoke", "sweep"} /\ (next = "revoke" <=> call[r].op = "refresh")
    OBVIOUS
  <2> HIDE DEF next
  <2>3. pc'[r] = next
    BY <2>1 DEF Goto, TypeOK
  <2>4. Fits(r)'
    BY <1>1, <2>1, <2>2, <2>3 DEF Fits, rows
  <2> QED BY <1>1, <2>1, <2>2, <2>4, ReadPreserves DEF Labels, Done
<1> QED BY <1>2, <1>3

\* The presented token is locked, and its successor, if any, is new.
LEMMA RevokePreserves ==
  ASSUME IInv, NEW r \in Requests, Revoke(r)
  PROVE  IInv'
<1> USE DEF IInv
<1> DEFINE t == call[r].token
<1>1. /\ pc[r] = "revoke" /\ call[r].op \in {"refresh", "logout"} /\ call[r] \in Call
      /\ call[r] # NoCall /\ t \in Tokens /\ token[t] # NoToken /\ t # NoToken
  BY CallIsKnown, NullsAssumption DEF Revoke, RequestsFit, Fits
<1>2. /\ tokenLock[t] = Free /\ tokenLock' = [tokenLock EXCEPT ![t] = r]
      /\ Goto(r, "flushed")
      /\ UNCHANGED <<rows, accountLock, call, seen, row, swept, outcome>>
  BY DEF Revoke
<1>3. PICK n \in Fresh \union {NoToken} :
        issued' = [issued EXCEPT ![r] = n] /\ (n # NoToken => call[r].op = "refresh")
  <2>1. issued[r] = NoToken
    BY <1>1 DEF LockHolders
  <2>2. CASE call[r].op # "refresh"
    BY <2>1, <2>2 DEF Revoke, TypeOK
  <2>3. CASE call[r].op = "refresh"
    BY <2>3 DEF Revoke
  <2> QED BY <2>2, <2>3
<1>4. /\ tokenLock' \in [Tokens -> Requests \union {Free}] /\ tokenLock'[t] = r
      /\ \A s \in Tokens : tokenLock'[s] # tokenLock[s] =>
           tokenLock[s] = Free /\ tokenLock'[s] = r /\ s = t
  BY <1>1, <1>2 DEF TypeOK
<1>5. accountLock' \in [Emails -> Requests \union {Free}] /\ accountLock' = accountLock
  BY <1>2 DEF TypeOK
<1>6. WritesFit(r)'
  BY <1>1, <1>2, <1>4 DEF WritesFit
<1>7. row[r] \in Account \union {NoAccount} /\ row' = [row EXCEPT ![r] = row[r]]
  BY <1>2 DEF TypeOK
<1> QED BY <1>1, <1>2, <1>3, <1>4, <1>5, <1>6, <1>7, FlushPreserves DEF Done

LEMMA SweepSelectPreserves ==
  ASSUME IInv, NEW r \in Requests, SweepSelect(r)
  PROVE  IInv'
<1> USE DEF IInv
<1> DEFINE S == {t \in Tokens : token[t] # NoToken /\ ~token[t].revoked /\ token[t].owner = Email(r)}
<1>1. pc[r] = "sweep" /\ call[r] # NoCall /\ Fits(r)
  BY CallIsKnown DEF SweepSelect, RequestsFit
<1>2. /\ swept' = [swept EXCEPT ![r] = S] /\ Goto(r, "sweeping")
      /\ UNCHANGED <<rows, locks, call, seen, row, issued, outcome>>
  BY DEF SweepSelect
<1>3. S \in SUBSET Tokens /\ \A t \in S : token[t] # NoToken
  OBVIOUS
<1> HIDE DEF S
<1>4. pc'[r] = "sweeping" /\ swept'[r] = S
  BY <1>2 DEF Goto, TypeOK
<1>5. Fits(r)'
  BY <1>1, <1>2, <1>3, <1>4 DEF Fits, rows
<1>6. seen[r] \in Account \union {NoAccount} /\ seen' = [seen EXCEPT ![r] = seen[r]]
  BY <1>2 DEF TypeOK
<1> QED BY <1>1, <1>2, <1>3, <1>5, <1>6, GoesOnPreserves DEF Labels, Done

\* The sweep locks rows that exist and opens no session.
LEMMA SweepRevokePreserves ==
  ASSUME IInv, NEW r \in Requests, SweepRevoke(r)
  PROVE  IInv'
<1> USE DEF IInv
<1>1. /\ pc[r] = "sweeping" /\ call[r] # NoCall /\ Fits(r) /\ issued[r] = NoToken
      /\ call[r].op = "logout_all" \/ (call[r].op = "refresh" /\ call[r].token # NoToken)
  BY CallIsKnown DEF SweepRevoke, RequestsFit, Fits, LockHolders
<1>2. /\ \A t \in swept[r] : tokenLock[t] = Free
      /\ tokenLock' = [t \in Tokens |-> IF t \in swept[r] /\ ~token[t].revoked THEN r
                                        ELSE tokenLock[t]]
      /\ Goto(r, "flushed")
      /\ UNCHANGED <<rows, accountLock, call, seen, row, swept, issued, outcome>>
  BY DEF SweepRevoke
<1>3. /\ tokenLock' \in [Tokens -> Requests \union {Free}]
      /\ \A t \in Tokens : tokenLock'[t] # tokenLock[t] =>
           tokenLock[t] = Free /\ tokenLock'[t] = r /\ token[t] # NoToken
  BY <1>1, <1>2 DEF TypeOK, Fits
<1>4. accountLock' \in [Emails -> Requests \union {Free}] /\ accountLock' = accountLock
  BY <1>2 DEF TypeOK
<1>5. /\ row[r] \in Account \union {NoAccount} /\ row' = [row EXCEPT ![r] = row[r]]
      /\ issued' = [issued EXCEPT ![r] = NoToken] /\ issued'[r] = NoToken
  BY <1>1, <1>2 DEF TypeOK
<1>6. WritesFit(r)'
  BY <1>1, <1>2, <1>5 DEF WritesFit
<1> QED BY <1>1, <1>2, <1>3, <1>4, <1>5, <1>6, FlushPreserves DEF Done

LEMMA FailPreserves ==
  ASSUME IInv, NEW r \in Requests, Fail(r)
  PROVE  IInv'
BY RefusePreserves DEF Fail, Outcomes

\* The clock changes no column the invariant speaks of.
LEMMA ClockPreserves ==
  ASSUME IInv, \/ \E e \in Emails : LockoutEnds(e)
               \/ \E t \in Tokens : TokenExpires(t)
  PROVE  IInv'
<1> USE DEF IInv
<1>1. /\ pc' = pc /\ call' = call /\ seen' = seen /\ row' = row /\ swept' = swept
      /\ issued' = issued /\ outcome' = outcome
      /\ accountLock' = accountLock /\ tokenLock' = tokenLock
  BY DEF LockoutEnds, TokenExpires, locks, requests
<1>2. /\ account' \in [Emails -> Account \union {NoAccount}]
      /\ \A e \in Emails : account[e] # NoAccount <=> account'[e] # NoAccount
  <2>1. ASSUME NEW e \in Emails, LockoutEnds(e)
        PROVE  /\ account' \in [Emails -> Account \union {NoAccount}]
               /\ \A f \in Emails : account[f] # NoAccount <=> account'[f] # NoAccount
    <3>1. account[e] \in Account /\ account' = [account EXCEPT ![e].until = "past"]
      BY <2>1 DEF LockoutEnds, TypeOK
    <3>2. [account[e] EXCEPT !.until = "past"] \in Account
      BY <3>1 DEF Account
    <3> QED BY <3>1, <3>2, NullsAssumption DEF TypeOK
  <2> QED BY <2>1 DEF TokenExpires, TypeOK
<1>3. /\ token' \in [Tokens -> Token \union {NoToken}]
      /\ \A t \in Tokens :
           /\ token[t] # NoToken <=> token'[t] # NoToken
           /\ token[t] # NoToken =>
                /\ token'[t].revoked = token[t].revoked /\ token'[t].owner = token[t].owner
                /\ token'[t].parent = token[t].parent
                /\ token'[t].successor = token[t].successor
  <2>1. ASSUME NEW t \in Tokens, TokenExpires(t)
        PROVE  /\ token' \in [Tokens -> Token \union {NoToken}]
               /\ \A s \in Tokens :
                    /\ token[s] # NoToken <=> token'[s] # NoToken
                    /\ token[s] # NoToken =>
                         /\ token'[s].revoked = token[s].revoked
                         /\ token'[s].owner = token[s].owner
                         /\ token'[s].parent = token[s].parent
                         /\ token'[s].successor = token[s].successor
    <3>1. token[t] \in Token /\ token' = [token EXCEPT ![t].expired = TRUE]
      BY <2>1 DEF TokenExpires, TypeOK
    <3>2. [token[t] EXCEPT !.expired = TRUE] \in Token
      BY <3>1 DEF Token
    <3> QED BY <3>1, <3>2, NullsAssumption DEF TypeOK, Token
  <2> QED BY <2>1 DEF LockoutEnds, TypeOK
<1>4. TypeOK'
  BY <1>1, <1>2, <1>3 DEF TypeOK
<1>5. RequestsFit'
  <2> SUFFICES ASSUME NEW q \in Requests PROVE Fits(q)'
    BY DEF RequestsFit
  <2>1. Fits(q) /\ (call[q] # NoCall => call[q] \in Call) /\ swept[q] \subseteq Tokens
    BY DEF RequestsFit, TypeOK
  <2>2. CASE call[q] = NoCall
    BY <1>1, <1>3, <2>1, <2>2 DEF Fits
  <2>3. CASE call[q] # NoCall
    <3>1. WritesFit(q) => WritesFit(q)'
      BY <1>1, <1>2, <2>1, <2>3, CallFields DEF WritesFit
    <3> QED BY <1>1, <1>2, <1>3, <2>1, <2>3, <3>1, CallFields DEF Fits
  <2> QED BY <2>2, <2>3
<1>6. LockHolders'
  BY <1>1, <1>3 DEF LockHolders, TypeOK
<1>7. ExchangeIsAtomic'
  <2> SUFFICES ASSUME NEW t \in Tokens, token[t] # NoToken
      PROVE  /\ LET p == token[t].parent
                IN  p # NoToken =>
                      token'[p] # NoToken /\ token'[p].revoked /\ token'[p].successor # NoToken
             /\ LET s == token[t].successor
                IN  s # NoToken =>
                      /\ token[t].revoked /\ token'[s] # NoToken
                      /\ token'[s].owner = token[t].owner /\ token'[s].parent = t
    BY <1>3 DEF ExchangeIsAtomic
  <2>1. token[t].parent \in Tokens \union {NoToken} /\ token[t].successor \in Tokens \union {NoToken}
    BY DEF TypeOK, Token
  <2> QED BY <1>3, <2>1 DEF ExchangeIsAtomic
<1>8. EndedTokenIsRevoked'
  <2> SUFFICES ASSUME NEW q \in Requests, pc[q] = "done", outcome[q] = "ok",
                      call[q].op \in {"refresh", "logout"}, call[q].token # NoToken
               PROVE  token'[call[q].token].revoked
    BY <1>1 DEF EndedTokenIsRevoked, Presented
  <2>1. call[q].token \in Tokens /\ token[call[q].token] \in Token
        /\ Presented(q) = token[call[q].token]
    BY CallIsKnown
  <2> QED BY <1>3, <2>1, NullsAssumption DEF EndedTokenIsRevoked
<1> QED BY <1>4, <1>5, <1>6, <1>7, <1>8

LEMMA StepPreserves ==
  ASSUME IInv, [Next]_vars
  PROVE  IInv'
<1>1. CASE UNCHANGED vars
  <2>1. /\ account' = account /\ token' = token
        /\ accountLock' = accountLock /\ tokenLock' = tokenLock
        /\ pc' = pc /\ call' = call /\ seen' = seen /\ row' = row /\ swept' = swept
        /\ issued' = issued /\ outcome' = outcome
    BY <1>1 DEF vars, rows, locks, requests
  <2>2. TypeOK' /\ LockHolders' /\ ExchangeIsAtomic'
    BY <2>1 DEF IInv, TypeOK, LockHolders, ExchangeIsAtomic
  <2>3. RequestsFit'
    BY <2>1 DEF IInv, RequestsFit, Fits, WritesFit
  <2>4. EndedTokenIsRevoked'
    BY <2>1 DEF IInv, EndedTokenIsRevoked, Presented
  <2> QED BY <2>2, <2>3, <2>4 DEF IInv
<1>2. ASSUME NEW r \in Requests, NEW c \in Call, Receive(r, c) PROVE IInv'
  BY <1>2, ReceivePreserves
<1>3. ASSUME NEW r \in Requests, Step(r) PROVE IInv'
  BY <1>3, RegisterCheckPreserves, RegisterInsertPreserves, LoginReadPreserves,
     LoginFlushPreserves, TokenReadPreserves, UserCheckPreserves, RevokePreserves,
     SweepSelectPreserves, SweepRevokePreserves, CommitPreserves, FailPreserves DEF Step
<1> QED BY <1>1, <1>2, <1>3, ClockPreserves DEF Next

\* The inductive invariant holds in every reachable state.
THEOREM Invariance == Spec => []IInv
<1>1. Init => IInv
  <2> SUFFICES ASSUME Init PROVE IInv
    OBVIOUS
  <2>1. TypeOK
    BY DEF Init, TypeOK, Labels, Done, Outcomes
  <2>2. RequestsFit
    <3> SUFFICES ASSUME NEW r \in Requests PROVE Fits(r)
      BY DEF RequestsFit
    <3>1. pc[r] = "idle" /\ call[r] = NoCall /\ swept[r] = {}
      BY DEF Init
    <3> QED BY <3>1 DEF Fits
  <2>3. LockHolders
    BY DEF Init, LockHolders
  <2>4. ExchangeIsAtomic /\ EndedTokenIsRevoked
    BY DEF Init, ExchangeIsAtomic, EndedTokenIsRevoked
  <2> QED BY <2>1, <2>2, <2>3, <2>4 DEF IInv
<1>2. IInv /\ [Next]_vars => IInv'
  BY StepPreserves
<1> QED BY <1>1, <1>2, PTL DEF Spec

\* Accounts, tokens and requests keep their shape, whatever columns partial
\* updates put together (Written).
THEOREM TypeCorrectness == Spec => []TypeOK
<1>1. IInv => TypeOK
  BY DEF IInv
<1> QED BY <1>1, Invariance, PTL

\* A token that a refresh or a logout ended stays revoked, however many
\* requests present it (auth_service.py refresh, logout).
THEOREM EndedTokensStayRevoked == Spec => []EndedTokenIsRevoked
<1>1. IInv => EndedTokenIsRevoked
  BY DEF IInv
<1> QED BY <1>1, Invariance, PTL

\* No exchange is half done: the chain of successors and parents of any number
\* of tokens is consistent (_issue_token_pair).
THEOREM ExchangesAreAtomic == Spec => []ExchangeIsAtomic
<1>1. IInv => ExchangeIsAtomic
  BY DEF IInv
<1> QED BY <1>1, Invariance, PTL

\* What a request has read is there when it writes, though it holds no lock
\* between the two.
THEOREM ReadsStayValid == Spec => []RequestsFit
<1>1. IInv => RequestsFit
  BY DEF IInv
<1> QED BY <1>1, Invariance, PTL

\* Row locks are held from a write to its COMMIT and by nobody else, and no two
\* requests issue the same token.
THEOREM LocksAreHeldByWriters == Spec => []LockHolders
<1>1. IInv => LockHolders
  BY DEF IInv
<1> QED BY <1>1, Invariance, PTL

\* Only COMMIT and the clock change the accounts.
LEMMA OnlyCommitAndClockChange ==
  ASSUME [Next]_vars, account' # account
  PROVE  (\E r \in Requests : Commit(r)) \/ (\E e \in Emails : LockoutEnds(e))
BY DEF Next, Step, vars, rows, Refuse, Receive, RegisterCheck, RegisterInsert, LoginRead,
       LoginFlush, TokenRead, UserCheck, Revoke, SweepSelect, SweepRevoke, Fail, TokenExpires

\* A COMMIT that unlocks an account is that of a login with its password.
LEMMA CommitLiftsByPassword ==
  ASSUME IInv, NEW r \in Requests, Commit(r), NEW e \in Emails, account[e] # NoAccount,
         \/ account[e].status = "locked" /\ account'[e].status # "locked"
         \/ account[e].until = "ahead" /\ account'[e].until = "none"
  PROVE  /\ pc[r] = "flushed" /\ pc'[r] = "done"
         /\ call[r].op = "login" /\ call[r].correct /\ Email(r) = e
<1>1. /\ accountLock[e] = r /\ call[r].op = "login" /\ call[r].email = e
      /\ account'[e] = Written(seen[r], row[r], account[e])
      /\ account[e] \in Account /\ seen[r] \in Account
      /\ row[r] = IF call[r].correct THEN Success(seen[r]) ELSE Failure(seen[r])
  BY CommittedRows
<1>2. pc[r] = "flushed" /\ pc'[r] = "done"
  BY DEF Commit, Answer, IInv, TypeOK
<1>3. call[r].correct
  <2> SUFFICES ASSUME ~call[r].correct PROVE FALSE
    OBVIOUS
  <2>1. /\ row[r].status \in {seen[r].status, "locked"}
        /\ row[r].until \in {seen[r].until, "ahead"}
    BY <1>1 DEF Failure, Account
  <2>2. /\ account'[e].status \in {account[e].status, "locked"}
        /\ account'[e].until \in {account[e].until, "ahead"}
    BY <1>1, <2>1 DEF Written
  <2> QED BY <2>2
<1> QED BY <1>1, <1>2, <1>3 DEF Email

\* Of the requests only a correct password lifts or shortens a lock, whatever
\* stale rows wrong ones write (record_failed_login).
THEOREM PasswordsUnlock == Spec => OnlyPasswordUnlocks
<1>1. IInv /\ [Next]_vars => [LiftedByPassword]_vars
  <2> SUFFICES ASSUME IInv, [Next]_vars, NEW e \in Emails, account[e] # NoAccount,
                      \/ account[e].status = "locked" /\ account'[e].status # "locked"
                      \/ account[e].until = "ahead" /\ account'[e].until = "none"
               PROVE  \E r \in Requests :
                        /\ pc[r] = "flushed" /\ pc'[r] = "done"
                        /\ call[r].op = "login" /\ call[r].correct /\ Email(r) = e
    BY DEF LiftedByPassword
  <2>1. ~ \E f \in Emails : LockoutEnds(f)
    <3> SUFFICES ASSUME NEW f \in Emails, LockoutEnds(f) PROVE FALSE
      OBVIOUS
    <3>1. account[e] \in Account /\ account[f] \in Account
          /\ account' = [account EXCEPT ![f].until = "past"]
      BY DEF LockoutEnds, IInv, TypeOK
    <3>2. account'[e] \in {account[e], [account[e] EXCEPT !.until = "past"]}
      BY <3>1 DEF IInv, TypeOK
    <3> QED BY <3>1, <3>2 DEF Account
  <2>2. PICK r \in Requests : Commit(r)
    BY <2>1, OnlyCommitAndClockChange
  <2> QED BY <2>2, CommitLiftsByPassword
<1> QED BY <1>1, Invariance, PTL DEF Spec, OnlyPasswordUnlocks
==============================================================================
