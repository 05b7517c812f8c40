----------------------- MODULE AuthServiceCommitsProofs -----------------------
(***************************************************************************)
(* Proof that every COMMIT of AuthService is the whole operation its call  *)
(* asks for, whatever overlaps, for any accounts, tokens and slots.  IInv  *)
(* says what a request that commits may write; WritesFollowCalls, proved   *)
(* inductive on top of it, that this is what the call asks for.            *)
(***************************************************************************)
EXTENDS AuthServiceProofs

\* The whole invariant of this module.
CInv == IInv /\ WritesFollowCalls

\* A token that a request presents while it is under way was issued.
LEMMA PresentedToken ==
  ASSUME IInv, NEW r \in Requests,
         pc[r] \in {"sweep", "sweeping", "revoke", "token_read", "flushed"},
         call[r].op \in {"refresh", "logout"}
  PROVE  /\ call[r].token \in Tokens /\ token[call[r].token] \in Token
         /\ Presented(r) = token[call[r].token] /\ Email(r) = token[call[r].token].owner
         /\ call[r].token # NoToken /\ token[call[r].token] # NoToken
<1>1. call[r] \in Call /\ call[r] # NoCall /\ Fits(r)
  BY CallIsKnown DEF IInv, RequestsFit
<1>2. call[r].token # NoToken
  BY <1>1 DEF Fits, WritesFit
<1>3. call[r].token \in Tokens /\ token[call[r].token] \in Token
      /\ Presented(r) = token[call[r].token]
  BY <1>2, CallIsKnown DEF IInv
<1> QED BY <1>2, <1>3, NullsAssumption DEF Email

\* What a step leaves of the tokens: none goes, changes its owner or comes back
\* to life.
Persist ==
  \A t \in Tokens : token[t] # NoToken =>
    /\ token'[t] # NoToken /\ token'[t].owner = token[t].owner
    /\ token[t].revoked => token'[t].revoked

\* What a step of another request leaves of q.
Untouched(q) ==
  /\ pc'[q] = pc[q] /\ call'[q] = call[q] /\ row'[q] = row[q]
  /\ swept'[q] = swept[q] /\ issued'[q] = issued[q]
  /\ \A t \in Tokens : tokenLock'[t] = q <=> tokenLock[t] = q

LEMMA UntouchedIntends ==
  ASSUME CInv, NEW q \in Requests, Untouched(q), Persist
  PROVE  Intends(q)'
<1> USE DEF CInv
<1>1. Intends(q) /\ Fits(q) /\ swept[q] \subseteq Tokens
  BY DEF WritesFollowCalls, IInv, RequestsFit, TypeOK
<1>2. CASE pc[q] \notin {"sweep", "sweeping", "flushed"}
  BY <1>2 DEF Untouched, Intends
<1>3. CASE pc[q] \in {"sweep", "sweeping", "flushed"}
  <2>1. call[q].op \in {"refresh", "logout"} =>
          /\ Presented(q)' = token'[call[q].token] /\ Email(q)' = token'[call[q].token].owner
          /\ Presented(q) = token[call[q].token] /\ Email(q) = token[call[q].token].owner
          /\ call[q].token \in Tokens /\ token[call[q].token] # NoToken
    BY <1>3, PresentedToken DEF Untouched, Presented, Email
  <2>2. Email(q)' = Email(q)
    BY <2>1 DEF Untouched, Persist, Email
  <2>3. call[q].op = "refresh" /\ Presented(q).revoked => Presented(q)'.revoked
    BY <2>1 DEF Persist
  <2>4. \A t \in swept[q] : token[t] # NoToken /\ token'[t].owner = token[t].owner
    BY <1>1 DEF Fits, Persist
  <2>5. \A t \in swept[q] : token[t].revoked => token'[t].revoked
    BY <1>1, <2>4 DEF Persist
  <2> QED BY <1>1, <2>2, <2>3, <2>4, <2>5 DEF Untouched, Intends
<1> QED BY <1>2, <1>3

\* The end of a request touches no other.
LEMMA AnswerLeavesOthers ==
  ASSUME IInv, NEW r \in Requests, NEW o, Answer(r, o), NEW q \in Requests, q # r
  PROVE  Untouched(q)
BY FreeAssumption DEF Answer, IInv, TypeOK, Untouched

\* Nor does any step, and only a COMMIT touches the tokens.
LEMMA StepLeavesOthers ==
  ASSUME IInv, NEW r \in Requests, Step(r), NEW q \in Requests, q # r
  PROVE  Untouched(q)
<1> USE DEF IInv
<1>1. CASE \E o \in Outcomes : Answer(r, o)
  BY <1>1, AnswerLeavesOthers
<1>2. CASE Commit(r) \/ Fail(r)
  BY <1>2, AnswerLeavesOthers DEF Commit, Fail, Refuse
<1>3. ASSUME UNCHANGED <<locks, call, row, issued>>, \/ UNCHANGED swept
                                                    \/ SweepSelect(r),
             NEW label, Goto(r, label)
      PROVE  Untouched(q)
  BY <1>3 DEF SweepSelect, Goto, locks, TypeOK, Untouched
<1>4. CASE RegisterCheck(r) \/ LoginRead(r)
  BY <1>3, <1>4, AnswerLeavesOthers DEF RegisterCheck, LoginRead, Refuse
<1>5. CASE TokenRead(r)
  BY <1>3, <1>5, AnswerLeavesOthers DEF TokenRead, Refuse
<1>6. CASE UserCheck(r) \/ SweepSelect(r)
  BY <1>3, <1>6, AnswerLeavesOthers DEF UserCheck, SweepSelect, Refuse
<1>7. CASE RegisterInsert(r)
  <2>1. CASE Refuse(r, "internal_error")
    BY <2>1, AnswerLeavesOthers DEF Refuse
  <2>2. CASE ~Refuse(r, "internal_error")
    BY <1>7, <2>2 DEF RegisterInsert, Goto, TypeOK, Untouched
  <2> QED BY <2>1, <2>2
<1>8. CASE LoginFlush(r)
  BY <1>8 DEF LoginFlush, Goto, TypeOK, Untouched
<1>9. CASE Revoke(r)
  <2>1. \A t \in Tokens : tokenLock'[t] = tokenLock[t] \/ (tokenLock[t] = Free /\ tokenLock'[t] = r)
    BY <1>9 DEF Revoke, TypeOK
  <2>2. issued'[q] = issued[q]
    BY <1>9 DEF Revoke, TypeOK
  <2> QED BY <1>9, <2>1, <2>2, FreeAssumption DEF Revoke, Goto, TypeOK, Untouched
<1>10. CASE SweepRevoke(r)
  <2>1. \A t \in Tokens : tokenLock'[t] = tokenLock[t] \/ (tokenLock[t] = Free /\ tokenLock'[t] = r)
    BY <1>10 DEF SweepRevoke, TypeOK
  <2> QED BY <1>10, <2>1, FreeAssumption DEF SweepRevoke, Goto, TypeOK, Untouched
<1> QED BY <1>2, <1>4, <1>5, <1>6, <1>7, <1>8, <1>9, <1>10 DEF Step

------------------------------------------------------------------------------
(* WritesFollowCalls is inductive.                                         *)

\* A request that has not written holds no lock and has issued no token.
LEMMA NothingWrittenYet ==
  ASSUME IInv, NEW r \in Requests, pc[r] # "flushed"
  PROVE  issued[r] = NoToken /\ \A t \in Tokens : tokenLock[t] # r
BY FreeAssumption DEF IInv, LockHolders

\* An answer ends all intentions.
LEMMA AnswerIntends ==
  ASSUME IInv, NEW r \in Requests, NEW o, Answer(r, o)
  PROVE  Intends(r)'
<1>1. pc'[r] = "done"
  BY DEF Answer, IInv, TypeOK
<1> QED BY <1>1 DEF Intends

\* Nothing has been selected or written at the other labels.
LEMMA NothingIntended ==
  ASSUME IInv, NEW r \in Requests, NEW label, Goto(r, label),
         label \notin {"sweep", "sweeping", "flushed"}
  PROVE  Intends(r)'
<1>1. pc'[r] = label
  BY DEF Goto, IInv, TypeOK
<1> QED BY <1>1 DEF Intends

LEMMA ReadsIntend ==
  ASSUME CInv, NEW r \in Requests,
         \/ RegisterCheck(r) \/ LoginRead(r) \/ TokenRead(r) \/ UserCheck(r)
  PROVE  Intends(r)'
<1> USE DEF CInv, IInv
<1>1. CASE RegisterCheck(r)
  BY <1>1, AnswerIntends, NothingIntended DEF RegisterCheck, Refuse
<1>2. CASE LoginRead(r)
  BY <1>2, AnswerIntends, NothingIntended DEF LoginRead, Refuse
<1>3. CASE TokenRead(r)
  <2> DEFINE label == IF Presented(r).revoked THEN "sweep"
                      ELSE IF call[r].op = "logout" THEN "revoke" ELSE "token_read"
  <2>1. CASE \E o \in Outcomes : Answer(r, o)
    BY <2>1, AnswerIntends
  <2>2. CASE ~ \E o \in Outcomes : Answer(r, o)
    <3>1. /\ Goto(r, label) /\ UNCHANGED <<rows, call>> /\ pc[r] = "received"
          /\ call[r].op \in {"refresh", "logout"}
          /\ Presented(r).revoked => call[r].op # "logout"
      BY <1>3, <2>2 DEF TokenRead, Refuse, Outcomes
    <3>2. CASE ~Presented(r).revoked
      BY <3>1, <3>2, NothingIntended
    <3>3. CASE Presented(r).revoked
      <4>1. pc'[r] = "sweep" /\ Presented(r)' = Presented(r)
        BY <3>1, <3>3 DEF Goto, TypeOK, Presented, rows
      <4> QED BY <3>3, <4>1 DEF Intends
    <3> QED BY <3>2, <3>3
  <2> QED BY <2>1, <2>2
<1>4. CASE UserCheck(r)
  <2>1. CASE account[Email(r)].status # "active"
    BY <1>4, <2>1, AnswerIntends DEF UserCheck, Refuse
  <2>2. CASE account[Email(r)].status = "active" /\ call[r].op = "refresh"
    BY <1>4, <2>2, NothingIntended DEF UserCheck
  <2>3. CASE account[Email(r)].status = "active" /\ call[r].op # "refresh"
    <3>1. pc'[r] = "sweep" /\ call' = call
      BY <1>4, <2>3 DEF UserCheck, Goto, TypeOK
    <3> QED BY <2>3, <3>1 DEF Intends
  <2> QED BY <2>1, <2>2, <2>3
<1> QED BY <1>1, <1>2, <1>3, <1>4

LEMMA RegisterIntends ==
  ASSUME CInv, NEW r \in Requests, RegisterInsert(r)
  PROVE  Intends(r)'
<1> USE DEF CInv, IInv
<1>1. CASE Refuse(r, "internal_error")
  BY <1>1, AnswerIntends DEF Refuse
<1>2. CASE ~Refuse(r, "internal_error")
  <2>1. /\ pc'[r] = "flushed" /\ call'[r].op = "register" /\ row'[r] = NewAccount
    BY <1>2 DEF RegisterInsert, Goto, TypeOK, RequestsFit, Fits
  <2> QED BY <2>1 DEF Intends, NewAccount
<1> QED BY <1>1, <1>2

LEMMA LoginIntends ==
  ASSUME CInv, NEW r \in Requests, LoginFlush(r)
  PROVE  Intends(r)'
<1> USE DEF CInv, IInv
<1>1. pc'[r] = "flushed" /\ call'[r] = call[r] /\ call[r].op = "login"
  BY DEF LoginFlush, Goto, TypeOK
<1>2. CASE call[r].correct
  <2>1. PICK n \in Fresh : issued' = [issued EXCEPT ![r] = n]
    BY <1>2 DEF LoginFlush
  <2>2. issued'[r] # NoToken
    BY <2>1, NullsAssumption DEF TypeOK, Fresh
  <2> QED BY <1>1, <1>2, <2>2 DEF Intends
<1>3. CASE ~call[r].correct
  <2>1. issued'[r] = NoToken
    BY <1>3, NothingWrittenYet DEF LoginFlush
  <2> QED BY <1>1, <1>3, <2>1 DEF Intends
<1> QED BY <1>2, <1>3

LEMMA RevokeIntends ==
  ASSUME CInv, NEW r \in Requests, Revoke(r)
  PROVE  Intends(r)'
<1> USE DEF CInv, IInv
<1>1. /\ pc[r] = "revoke" /\ pc'[r] = "flushed" /\ call'[r] = call[r]
      /\ call[r].op \in {"refresh", "logout"}
  BY CallIsKnown DEF Revoke, Goto, TypeOK, RequestsFit, Fits
<1>2. \A t \in Tokens : tokenLock'[t] = r => t = call[r].token
  BY <1>1, NothingWrittenYet DEF Revoke, TypeOK
<1>3. call[r].op = "refresh" => issued'[r] # NoToken
  <2> SUFFICES ASSUME call[r].op = "refresh" PROVE issued'[r] # NoToken
    OBVIOUS
  <2>1. PICK n \in Fresh : issued' = [issued EXCEPT ![r] = n]
    BY DEF Revoke
  <2> QED BY <2>1, NullsAssumption DEF TypeOK, Fresh
<1> QED BY <1>1, <1>2, <1>3 DEF Intends

LEMMA SweepSelectIntends ==
  ASSUME CInv, NEW r \in Requests, SweepSelect(r)
  PROVE  Intends(r)'
<1> USE DEF CInv, IInv
<1>1. /\ pc[r] = "sweep" /\ pc'[r] = "sweeping" /\ call' = call /\ issued' = issued
      /\ account' = account /\ token' = token
  BY DEF SweepSelect, Goto, TypeOK, rows
<1>2. Email(r)' = Email(r) /\ Presented(r)' = Presented(r)
  BY <1>1 DEF Email, Presented
<1>3. \A t \in swept'[r] : token[t].owner = Email(r)
  BY DEF SweepSelect, TypeOK
<1> QED BY <1>1, <1>2, <1>3 DEF Intends, WritesFollowCalls

LEMMA SweepRevokeIntends ==
  ASSUME CInv, NEW r \in Requests, SweepRevoke(r)
  PROVE  Intends(r)'
<1> USE DEF CInv, IInv
<1>1. /\ pc[r] = "sweeping" /\ pc'[r] = "flushed" /\ call' = call /\ issued' = issued
      /\ account' = account /\ token' = token /\ swept' = swept
  BY DEF SweepRevoke, Goto, TypeOK, rows
<1>2. Email(r)' = Email(r) /\ Presented(r)' = Presented(r)
  BY <1>1 DEF Email, Presented
<1>3. \A t \in Tokens : /\ tokenLock'[t] = r => t \in swept[r]
                        /\ t \in swept[r] => tokenLock'[t] = r \/ token[t].revoked
  BY <1>1, NothingWrittenYet DEF SweepRevoke
<1>4. call[r].op \in {"logout_all", "refresh"}
  BY <1>1, CallIsKnown DEF RequestsFit, Fits
<1> QED BY <1>1, <1>2, <1>3, <1>4 DEF Intends, WritesFollowCalls

\* COMMIT only adds tokens and revokes them.
LEMMA CommitPersists ==
  ASSUME IInv, NEW r \in Requests, Commit(r)
  PROVE  Persist
<1> SUFFICES ASSUME NEW t \in Tokens, token[t] # NoToken
             PROVE  /\ token'[t] # NoToken /\ token'[t].owner = token[t].owner
                    /\ token[t].revoked => token'[t].revoked
  BY DEF Persist
<1>1. t # issued[r]
  BY CommittedTokenRows
<1>2. CASE tokenLock[t] = r
  <2>1. /\ token[t] \in Token /\ token'[t] \in Token
        /\ token'[t] = [token[t] EXCEPT !.revoked = TRUE,
                          !.successor = IF issued[r] = NoToken THEN @ ELSE issued[r]]
    BY <1>1, <1>2, CommittedTokenRows
  <2> QED BY <2>1, NullsAssumption DEF Token
<1>3. CASE tokenLock[t] # r
  BY <1>1, <1>3, CommittedTokenRows
<1> QED BY <1>2, <1>3

LEMMA NothingElsePersists ==
  ASSUME IInv, \/ UNCHANGED token
               \/ \E t \in Tokens : TokenExpires(t)
  PROVE  Persist
<1>1. CASE UNCHANGED token
  BY <1>1 DEF Persist
<1>2. ASSUME NEW t \in Tokens, TokenExpires(t) PROVE Persist
  <2>1. token[t] \in Token /\ token' = [token EXCEPT ![t].expired = TRUE]
    BY <1>2 DEF TokenExpires, IInv, TypeOK
  <2>2. [token[t] EXCEPT !.expired = TRUE] \in Token
    BY <2>1 DEF Token
  <2> QED BY <2>1, <2>2, NullsAssumption DEF Persist, IInv, TypeOK, Token
<1> QED BY <1>1, <1>2

\* Only a COMMIT writes the tables.
LEMMA OthersWriteNothing ==
  ASSUME NEW r \in Requests, Step(r), ~Commit(r)
  PROVE  UNCHANGED rows
BY DEF Step, rows, Refuse, RegisterCheck, RegisterInsert, LoginRead, LoginFlush, TokenRead,
       UserCheck, Revoke, SweepSelect, SweepRevoke, Fail

LEMMA StepIntends ==
  ASSUME CInv, NEW r \in Requests, Step(r)
  PROVE  WritesFollowCalls'
<1> USE DEF CInv
<1>1. Persist
  BY CommitPersists, OthersWriteNothing, NothingElsePersists DEF rows
<1>2. ASSUME NEW q \in Requests, q # r PROVE Intends(q)'
  BY <1>1, <1>2, StepLeavesOthers, UntouchedIntends
<1>3. Intends(r)'
  <2>1. CASE Commit(r) \/ Fail(r)
    BY <2>1, AnswerIntends DEF Commit, Fail, Refuse
  <2> QED BY <2>1, ReadsIntend, RegisterIntends, LoginIntends, RevokeIntends,
             SweepSelectIntends, SweepRevokeIntends DEF Step
<1> QED BY <1>2, <1>3 DEF WritesFollowCalls

LEMMA ReceiveIntends ==
  ASSUME CInv, NEW r \in Requests, NEW c \in Call, Receive(r, c)
  PROVE  WritesFollowCalls'
<1> USE DEF CInv, IInv
<1>1. Persist
  BY NothingElsePersists DEF Receive, rows
<1>2. ASSUME NEW q \in Requests, q # r PROVE Intends(q)'
  <2>1. Untouched(q)
    BY <1>2 DEF Receive, Goto, locks, TypeOK, Untouched
  <2> QED BY <1>1, <2>1, UntouchedIntends
<1>3. Intends(r)'
  BY NothingIntended DEF Receive
<1> QED BY <1>2, <1>3 DEF WritesFollowCalls

LEMMA ClockIntends ==
  ASSUME CInv, \/ \E e \in Emails : LockoutEnds(e)
               \/ \E t \in Tokens : TokenExpires(t)
               \/ UNCHANGED vars
  PROVE  WritesFollowCalls'
<1> USE DEF CInv
<1>1. Persist
  BY NothingElsePersists DEF LockoutEnds, vars, rows
<1>2. ASSUME NEW q \in Requests PROVE Untouched(q)
  BY DEF LockoutEnds, TokenExpires, vars, locks, requests, Untouched
<1> QED BY <1>1, <1>2, UntouchedIntends DEF WritesFollowCalls

\* At any step, what a request is about to commit is what it was called for.
THEOREM WritesAreOwn == Spec => []CInv
<1>1. Init => WritesFollowCalls
  BY DEF Init, WritesFollowCalls, Intends
<1>2. CInv /\ [Next]_vars => WritesFollowCalls'
  BY StepIntends, ReceiveIntends, ClockIntends DEF Next
<1>3. Spec => []IInv
  BY Invariance
<1> QED BY <1>1, <1>2, <1>3, PTL DEF Spec, CInv

------------------------------------------------------------------------------
(* A COMMIT performs its call.                                             *)

LEMMA CommitFields ==
  ASSUME CInv, NEW r \in Requests, Commit(r)
  PROVE  /\ pc[r] = "flushed" /\ pc'[r] = "done" /\ outcome'[r] \in {Result(r), "lost"}
         /\ call[r] \in Call /\ WritesFit(r) /\ Intends(r)
         /\ call[r].op \in {"register", "login", "refresh", "logout", "logout_all"}
<1>1. pc[r] = "flushed" /\ call[r] \in Call /\ WritesFit(r)
  BY CallIsKnown DEF Commit, CInv, IInv, RequestsFit, Fits
<1>2. pc'[r] = "done" /\ outcome'[r] \in {Result(r), "lost"}
  BY DEF Commit, Answer, CInv, IInv, TypeOK
<1> QED BY <1>1, <1>2, CallFields DEF CInv, WritesFollowCalls

\* A request without an account lock leaves the accounts alone.
LEMMA AccountsUntouched ==
  ASSUME CInv, NEW r \in Requests, Commit(r), call[r].op \notin {"register", "login"}
  PROVE  UNCHANGED account
<1>1. ASSUME NEW e \in Emails, accountLock[e] = r PROVE FALSE
  BY <1>1, FreeAssumption DEF CInv, IInv, LockHolders
<1>2. \A e \in Emails : account'[e] = account[e]
  BY <1>1, CommittedRows DEF CInv
<1> QED BY <1>2, CommittedRows DEF CInv, IInv, TypeOK

\* A request that has issued nothing revokes what it has locked.
LEMMA LockedAreRevoked ==
  ASSUME CInv, NEW r \in Requests, Commit(r), issued[r] = NoToken, NEW S,
         \A t \in Tokens : tokenLock[t] = r => t \in S,
         \A t \in Tokens : t \in S => tokenLock[t] = r \/ (token[t] \in Token /\ token[t].revoked)
  PROVE  Revoked(S)
<1> DEFINE ended(t) == [token[t] EXCEPT !.revoked = TRUE]
<1>1. ASSUME NEW t \in Tokens
      PROVE  token'[t] = IF t \in S THEN ended(t) ELSE token[t]
  <2>1. t # issued[r]
    BY NullsAssumption
  <2>2. CASE tokenLock[t] = r
    <3>1. /\ token[t] \in Token
          /\ token'[t] = [token[t] EXCEPT !.revoked = TRUE,
                            !.successor = IF issued[r] = NoToken THEN @ ELSE issued[r]]
      BY <2>1, <2>2, CommittedTokenRows DEF CInv
    <3> QED BY <2>2, <3>1 DEF Token
  <2>3. CASE tokenLock[t] # r
    <3>1. token'[t] = token[t]
      BY <2>1, <2>3, CommittedTokenRows DEF CInv
    <3>2. t \in S => ended(t) = token[t]
      BY <2>3 DEF Token
    <3> QED BY <3>1, <3>2
  <2> QED BY <2>2, <2>3
<1>2. token' = [t \in Tokens |-> token'[t]]
  BY DEF Commit, CommittedTokens
<1> HIDE DEF ended
<1>3. token' = [t \in Tokens |-> IF t \in S THEN ended(t) ELSE token[t]]
  BY <1>1, <1>2
<1> QED BY <1>3 DEF Revoked, ended

\* A request that has issued nothing and locked nothing leaves the tokens alone.
LEMMA TokensUntouched ==
  ASSUME CInv, NEW r \in Requests, Commit(r), issued[r] = NoToken,
         \A t \in Tokens : tokenLock[t] # r
  PROVE  UNCHANGED token
<1>1. \A t \in Tokens : token'[t] = token[t]
  BY CommittedTokenRows, NullsAssumption DEF CInv
<1>2. token' = [t \in Tokens |-> token'[t]]
  BY DEF Commit, CommittedTokens
<1>3. token = [t \in Tokens |-> token[t]]
  BY DEF CInv, IInv, TypeOK
<1> QED BY <1>1, <1>2, <1>3

\* The session a login opens, or an exchange.
LEMMA IssuedIsSession ==
  ASSUME CInv, NEW r \in Requests, Commit(r), issued[r] # NoToken
  PROVE  /\ issued[r] \in Tokens /\ token[issued[r]] = NoToken
         /\ token'[issued[r]] = Atomic!Session(Email(r),
              IF call[r].op = "refresh" THEN call[r].token ELSE NoToken)
<1>1. issued[r] \in Tokens /\ token[issued[r]] = NoToken
  BY DEF CInv, IInv, TypeOK, LockHolders
<1> QED BY <1>1 DEF Commit, CommittedTokens, Atomic!Session

LEMMA RegisterPerforms ==
  ASSUME CInv, NEW r \in Requests, Commit(r), call[r].op = "register"
  PROVE  Performs(r)
<1> USE DEF CInv, IInv
<1>1. /\ accountLock[call[r].email] = r /\ account[call[r].email] = NoAccount
      /\ row[r] = NewAccount /\ Email(r) = call[r].email /\ call[r].email \in Emails
  BY CommitFields, CallFields DEF WritesFit, Intends, Email
<1>2. \A e \in Emails : accountLock[e] = r => e = call[r].email
  BY FreeAssumption DEF LockHolders
<1>3. account' = [account EXCEPT ![call[r].email] = NewAccount]
  BY <1>1, <1>2 DEF Commit, TypeOK
<1>4. issued[r] = NoToken /\ \A t \in Tokens : tokenLock[t] # r
  BY FreeAssumption DEF LockHolders
<1>5. UNCHANGED token
  BY <1>4, TokensUntouched
<1> QED BY <1>1, <1>3, <1>5 DEF Performs, Atomic!Register, Atomic!InGoodStanding, NewAccount

LEMMA LoginPerforms ==
  ASSUME CInv, NEW r \in Requests, Commit(r), call[r].op = "login"
  PROVE  Performs(r)
<1> USE DEF CInv, IInv
<1> DEFINE e == call[r].email
           new == IF call[r].correct THEN Success(seen[r]) ELSE Failure(seen[r])
<1>1. /\ accountLock[e] = r /\ account[e] \in Account /\ seen[r] \in Account
      /\ row[r] = new /\ Email(r) = e /\ e \in Emails
      /\ call[r].correct <=> issued[r] # NoToken
  BY CommitFields, CallFields DEF WritesFit, Intends, Email, TypeOK
<1>2. \A f \in Emails : accountLock[f] = r => f = e
  BY FreeAssumption DEF LockHolders
<1>3. account' = [account EXCEPT ![e] = Written(seen[r], row[r], account[e])]
  BY <1>1, <1>2, NullsAssumption DEF Commit, TypeOK
<1>4. Overwrites(e, new)
  <2> DEFINE w == Written(seen[r], row[r], account[e])
  <2>1. /\ w = [status |-> w.status, failed |-> w.failed, until |-> w.until]
        /\ w.status \in {account[e].status, new.status}
        /\ w.failed \in {account[e].failed, new.failed}
        /\ w.until \in {account[e].until, new.until}
    BY <1>1 DEF Written
  <2> HIDE DEF w, new, e
  <2> QED BY <1>3, <2>1 DEF Overwrites, w
<1>5. \A t \in Tokens : tokenLock[t] # r
  BY FreeAssumption DEF LockHolders
<1>6. CASE call[r].correct
  <2> DEFINE n == issued[r]
  <2>1. n \in Tokens /\ token[n] = NoToken /\ token'[n] = Atomic!Session(e, NoToken)
    BY <1>1, <1>6, IssuedIsSession
  <2>2. \A t \in Tokens : t # n => token'[t] = token[t]
    BY <1>5, CommittedTokenRows
  <2>3. token' = [token EXCEPT ![n] = Atomic!Session(e, NoToken)]
    <3>1. token' = [t \in Tokens |-> token'[t]]
      BY DEF Commit, CommittedTokens
    <3>2. token = [t \in Tokens |-> token[t]]
      BY DEF TypeOK
    <3> HIDE DEF n, e
    <3> QED BY <2>1, <2>2, <3>1, <3>2
  <2>4. Overwrites(e, Atomic!InGoodStanding)
    BY <1>4, <1>6 DEF Success, Atomic!InGoodStanding
  <2> HIDE DEF e, n
  <2> QED BY <1>1, <1>6, <2>1, <2>3, <2>4 DEF Performs, e
<1>7. CASE ~call[r].correct
  <2>1. UNCHANGED token
    BY <1>1, <1>5, <1>7, TokensUntouched
  <2> QED BY <1>1, <1>4, <1>7, <2>1 DEF Performs
<1> QED BY <1>6, <1>7

LEMMA ExchangePerforms ==
  ASSUME CInv, NEW r \in Requests, Commit(r), call[r].op = "refresh", issued[r] # NoToken
  PROVE  Performs(r)
<1> USE DEF CInv, IInv
<1> DEFINE old == call[r].token
           new == issued[r]
<1>1. /\ old \in Tokens /\ token[old] \in Token /\ token[old] # NoToken /\ tokenLock[old] = r
      /\ Email(r) = token[old].owner
  BY CommitFields, PresentedToken DEF WritesFit
<1>2. /\ new \in Tokens /\ token[new] = NoToken /\ old # new
      /\ token'[new] = Atomic!Session(token[old].owner, old)
  BY <1>1, IssuedIsSession
<1>3. \A t \in Tokens : tokenLock[t] = r => t = old
  BY FreeAssumption DEF LockHolders
<1>4. ASSUME NEW t \in Tokens
      PROVE  token'[t] = IF t = new THEN Atomic!Session(token[old].owner, old)
                         ELSE IF t = old THEN [token[t] EXCEPT !.revoked = TRUE, !.successor = new]
                         ELSE token[t]
  <2>1. CASE t = new
    BY <1>2, <2>1
  <2>2. CASE t = old
    <3>1. token'[t] = [token[t] EXCEPT !.revoked = TRUE,
                         !.successor = IF issued[r] = NoToken THEN @ ELSE issued[r]]
      BY <1>1, <1>2, <2>2, CommittedTokenRows
    <3> QED BY <1>2, <2>2, <3>1
  <2>3. CASE t # new /\ t # old
    BY <1>3, <2>3, CommittedTokenRows
  <2> QED BY <2>1, <2>2, <2>3
<1>5. token' = [t \in Tokens |-> token'[t]]
  BY DEF Commit, CommittedTokens
<1>6. Rotates(old, new)
  <2> HIDE DEF old, new
  <2>1. token' = [t \in Tokens |-> IF t = new THEN Atomic!Session(token[old].owner, old)
                   ELSE IF t = old THEN [token[t] EXCEPT !.revoked = TRUE, !.successor = new]
                   ELSE token[t]]
    BY <1>4, <1>5
  <2> QED BY <1>2, <2>1 DEF Rotates
<1>7. outcome'[r] # "refresh_token_reused"
  BY CommitFields DEF Result
<1>8. UNCHANGED account
  BY AccountsUntouched
<1> QED BY <1>2, <1>6, <1>7, <1>8 DEF Performs

LEMMA LogoutPerforms ==
  ASSUME CInv, NEW r \in Requests, Commit(r), call[r].op = "logout"
  PROVE  Performs(r)
<1> USE DEF CInv, IInv
<1>1. /\ Presented(r) # NoToken /\ tokenLock[call[r].token] = r
      /\ \A t \in Tokens : tokenLock[t] = r => t = call[r].token
  BY CommitFields, PresentedToken DEF WritesFit, Intends
<1>2. issued[r] = NoToken
  BY DEF LockHolders
<1>3. Revoked({call[r].token})
  BY <1>1, <1>2, LockedAreRevoked
<1>4. UNCHANGED account
  BY AccountsUntouched
<1> QED BY <1>1, <1>3, <1>4 DEF Performs

LEMMA SweepPerforms ==
  ASSUME CInv, NEW r \in Requests, Commit(r),
         call[r].op = "logout_all" \/ (call[r].op = "refresh" /\ issued[r] = NoToken)
  PROVE  Performs(r)
<1> USE DEF CInv, IInv
<1>1. /\ \A t \in Tokens : /\ tokenLock[t] = r => t \in swept[r]
                           /\ t \in swept[r] => tokenLock[t] = r \/ token[t].revoked
      /\ \A t \in swept[r] : token[t].owner = Email(r)
      /\ call[r].op = "refresh" => Presented(r).revoked
  BY CommitFields DEF Intends
<1>2. issued[r] = NoToken
  BY DEF LockHolders
<1>3. \A t \in swept[r] : t \in Tokens /\ token[t] \in Token
  BY CommitFields DEF RequestsFit, Fits, TypeOK
<1>4. Revoked(swept[r])
  BY <1>1, <1>2, <1>3, LockedAreRevoked
<1>5. UNCHANGED account
  BY AccountsUntouched
<1>6. call[r].op = "refresh" => outcome'[r] # "ok"
  BY <1>2, CommitFields DEF Result
<1> QED BY <1>1, <1>4, <1>5, <1>6 DEF Performs

LEMMA CommitPerforms ==
  ASSUME CInv, NEW r \in Requests, Commit(r)
  PROVE  Answered(r) /\ Performs(r)
<1>1. Answered(r)
  BY CommitFields DEF Answered, Done
<1>2. Performs(r)
  BY CommitFields, RegisterPerforms, LoginPerforms, ExchangePerforms, LogoutPerforms, SweepPerforms
<1> QED BY <1>1, <1>2

\* Nothing is left to do for a logout of a token that is not there or revoked.
LEMMA RefusalPerforms ==
  ASSUME CInv, NEW r \in Requests, Step(r), ~Commit(r), Answered(r), outcome'[r] = "ok"
  PROVE  Performs(r)
<1> USE DEF CInv, IInv
<1>1. TokenRead(r)
  <2>1. ASSUME NEW o \in Outcomes \ {"ok"}, Refuse(r, o) PROVE FALSE
    BY <2>1 DEF Refuse, Answer, TypeOK
  <2>2. ASSUME NEW label \in Labels \ Done, Goto(r, label) PROVE FALSE
    BY <2>2 DEF Goto, TypeOK, Answered, Done
  <2>3. ~Fail(r) /\ ~RegisterCheck(r) /\ ~RegisterInsert(r)
    BY <2>1, <2>2 DEF Fail, RegisterCheck, RegisterInsert, Outcomes, Labels, Done
  <2>4. ~LoginRead(r) /\ ~LoginFlush(r)
    BY <2>1, <2>2 DEF LoginRead, LoginFlush, Outcomes, Labels, Done
  <2>5. ~UserCheck(r) /\ ~Revoke(r) /\ ~SweepSelect(r) /\ ~SweepRevoke(r)
    BY <2>1, <2>2 DEF UserCheck, Revoke, SweepSelect, SweepRevoke, Outcomes, Labels, Done
  <2> QED BY <2>3, <2>4, <2>5 DEF Step
<1>2. /\ call[r].op = "logout" /\ UNCHANGED rows
      /\ Presented(r) = NoToken \/ Presented(r).revoked
  <2>1. ASSUME NEW o \in Outcomes \ {"ok"}, Refuse(r, o) PROVE FALSE
    BY <2>1 DEF Refuse, Answer, TypeOK
  <2>2. ASSUME NEW label \in Labels \ Done, Goto(r, label) PROVE FALSE
    BY <2>2 DEF Goto, TypeOK, Answered, Done
  <2> QED BY <1>1, <2>1, <2>2 DEF TokenRead, Refuse, Outcomes, Labels, Done
<1> DEFINE S == IF Presented(r) = NoToken THEN {} ELSE {call[r].token}
<1>3. \A t \in Tokens : t \in S => token[t] \in Token /\ token[t].revoked
  <2> SUFFICES ASSUME Presented(r) # NoToken, call[r].token \in Tokens
               PROVE  token[call[r].token] \in Token /\ token[call[r].token].revoked
    OBVIOUS
  <2>1. Presented(r) = token[call[r].token]
    BY <1>2 DEF Presented
  <2> QED BY <1>2, <2>1 DEF TypeOK
<1>4. Revoked(S)
  <2>1. \A t \in Tokens : t \in S => [token[t] EXCEPT !.revoked = TRUE] = token[t]
    BY <1>3 DEF Token
  <2>2. token = [t \in Tokens |-> token[t]]
    BY DEF TypeOK
  <2> HIDE DEF S
  <2>3. token = [t \in Tokens |-> IF t \in S THEN [token[t] EXCEPT !.revoked = TRUE] ELSE token[t]]
    BY <2>1, <2>2
  <2> QED BY <1>2, <2>3 DEF Revoked, rows
<1> QED BY <1>2, <1>4 DEF Performs, rows

\* Whatever overlaps, accounts and tokens change by whole operations, each that of
\* the request that ends, or by the clock; and what is answered with success was
\* done (auth_service.py).
THEOREM CommitsAreOwn == Spec => CommitsFollowCalls
<1>1. CInv /\ [Next]_vars => [RowsFollowCalls]_vars
  <2> SUFFICES ASSUME CInv, Next PROVE RowsFollowCalls
    BY DEF RowsFollowCalls
  <2>1. ASSUME NEW r \in Requests, Step(r) PROVE RowsFollowCalls
    <3>1. \A q \in Requests : Answered(q) => q = r
      BY <2>1, StepLeavesOthers DEF CInv, Untouched, Answered, Done
    <3>2. UNCHANGED rows \/ (Answered(r) /\ Performs(r))
      BY <2>1, CommitPerforms, OthersWriteNothing
    <3>3. Answered(r) /\ outcome'[r] = "ok" => Performs(r)
      BY <2>1, CommitPerforms, RefusalPerforms
    <3> QED BY <3>1, <3>2, <3>3 DEF RowsFollowCalls
  <2>2. ASSUME NEW r \in Requests, NEW c \in Call, Receive(r, c) PROVE RowsFollowCalls
    <3>1. UNCHANGED rows
      BY <2>2 DEF Receive
    <3>2. \A q \in Requests : ~Answered(q)
      BY <2>2 DEF Receive, Goto, CInv, IInv, TypeOK, Answered, Done
    <3> QED BY <3>1, <3>2 DEF RowsFollowCalls
  <2>3. ASSUME NEW e \in Emails, LockoutEnds(e) PROVE RowsFollowCalls
    <3>1. Atomic!LockoutEnds(e)
      BY <2>3 DEF LockoutEnds, Atomic!LockoutEnds
    <3>2. \A q \in Requests : ~Answered(q)
      BY <2>3 DEF LockoutEnds, requests, Answered, Done
    <3> QED BY <3>1, <3>2 DEF RowsFollowCalls
  <2>4. ASSUME NEW t \in Tokens, TokenExpires(t) PROVE RowsFollowCalls
    <3>1. Atomic!TokenExpires(t)
      BY <2>4 DEF TokenExpires, Atomic!TokenExpires, Atomic!Alive
    <3>2. \A q \in Requests : ~Answered(q)
      BY <2>4 DEF TokenExpires, requests, Answered, Done
    <3> QED BY <3>1, <3>2 DEF RowsFollowCalls
  <2> QED BY <2>1, <2>2, <2>3, <2>4 DEF Next
<1> QED BY <1>1, WritesAreOwn, PTL DEF Spec, CommitsFollowCalls
==============================================================================
