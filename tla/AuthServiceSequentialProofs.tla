--------------------- MODULE AuthServiceSequentialProofs ---------------------
(***************************************************************************)
(* What AuthService promises while the requests of an account come one at  *)
(* a time, for any accounts, tokens and request slots: a request's         *)
(* decision is still right when it commits, so that the service implements *)
(* AtomicAuth, and what holds of AtomicAuth's steps holds of the service.  *)
(*                                                                         *)
(* Every theorem has the hypothesis []OnePerAccount.  Requests of          *)
(* different accounts interleave as they like, and failures, lost answers, *)
(* the clock and unknown tokens are all there.                             *)
(***************************************************************************)
EXTENDS AuthServiceProofs

\* r has decided something about its account.
Decided(r) == LogsIn(r) \/ Revokes(r) \/ Sweeps(r)

\* A request that has decided is one of its account, which its token names.
LEMMA DecidedServes ==
  ASSUME IInv, NEW r \in Requests, Decided(r)
  PROVE  /\ pc[r] \notin Done /\ call[r] \in Call
         /\ Email(r) \in Emails /\ Serves(r, Email(r))
         /\ LogsIn(r) => Email(r) = call[r].email
         /\ Revokes(r) => call[r].op \in {"refresh", "logout"}
         /\ Sweeps(r) => call[r].op \in {"refresh", "logout_all"}
         /\ call[r].op \in {"refresh", "logout"} =>
              /\ call[r].token \in Tokens /\ token[call[r].token] \in Token
              /\ Presented(r) = token[call[r].token] /\ Presented(r) # NoToken
              /\ Email(r) = token[call[r].token].owner
<1> USE DEF IInv
<1>1. pc[r] \notin Done
  BY DEF Decided, LogsIn, Revokes, Sweeps, Done
<1>2. /\ call[r] \in Call /\ call[r] # NoCall /\ Fits(r)
      /\ call[r].op \in {"refresh", "logout"} /\ call[r].token # NoToken =>
           /\ call[r].token \in Tokens /\ token[call[r].token] \in Token
           /\ Presented(r) = token[call[r].token]
  BY <1>1, CallIsKnown DEF Done, RequestsFit
<1>3. /\ Revokes(r) => call[r].op \in {"refresh", "logout"}
      /\ Sweeps(r) => call[r].op \in {"refresh", "logout_all"}
      /\ call[r].op \in {"refresh", "logout"} => call[r].token # NoToken
  BY <1>2 DEF Fits, WritesFit, Decided, LogsIn, Revokes, Sweeps
<1>4. CASE call[r].op \in {"refresh", "logout"}
  <2>1. token[call[r].token].owner \in Emails
    BY <1>2, <1>3, <1>4 DEF Token
  <2> QED BY <1>1, <1>2, <1>3, <1>4, <2>1, NullsAssumption DEF Email, Serves, LogsIn
<1>5. CASE call[r].op \notin {"refresh", "logout"}
  <2>1. call[r].op \in {"register", "login", "logout_all"}
    BY <1>2, <1>5, CallFields
  <2>2. call[r].email \in Emails
    BY <1>2, <2>1, CallFields
  <2> QED BY <1>1, <1>2, <1>3, <1>5, <2>1, <2>2 DEF Email, Serves
<1> QED BY <1>4, <1>5

\* A request stays current through a step of somebody else that leaves its
\* account and the sessions of it alone.
LEMMA OthersStayCurrent ==
  ASSUME IInv, NEW q \in Requests, Current(q),
         pc'[q] = pc[q], call'[q] = call[q], seen'[q] = seen[q], row'[q] = row[q],
         swept'[q] = swept[q], issued'[q] = issued[q],
         \A t \in Tokens : tokenLock'[t] = q <=> tokenLock[t] = q,
         \A t \in Tokens : token[t] # NoToken =>
           token'[t] # NoToken /\ token'[t].owner = token[t].owner,
         Decided(q) => \A t \in Tokens :
           token'[t] # NoToken /\ token'[t].owner = Email(q) =>
             (Atomic!Alive(t)' <=> Atomic!Alive(t)),
         LogsIn(q) => account'[Email(q)] = account[Email(q)],
         Decided(q) /\ Atomic!Active(Email(q)) =>
           account'[Email(q)] # NoAccount /\ account'[Email(q)].status = "active"
  PROVE  Current(q)'
<1>1. /\ LogsIn(q)' = LogsIn(q) /\ Revokes(q)' = Revokes(q) /\ Sweeps(q)' = Sweeps(q)
      /\ Ended(q)' = Ended(q)
  BY DEF LogsIn, Revokes, Sweeps, Ended
<1>2. pc[q] = "flushed" =>
        /\ call[q].op = "register" => row[q] = NewAccount
        /\ call[q].op = "login" => (call[q].correct <=> issued[q] # NoToken)
        /\ {t \in Tokens : tokenLock'[t] = q} = Ended(q)
  BY DEF Current
<1>3. CASE ~Decided(q)
  BY <1>1, <1>2, <1>3 DEF Current, Decided, NewAccount
<1>4. CASE Decided(q)
  <2>1. Email(q)' = Email(q)
    BY <1>4, DecidedServes, NullsAssumption DEF Email, Presented
  <2>2. Sessions(Email(q))' = Sessions(Email(q))
    BY <1>4, <2>1 DEF Sessions, Atomic!Alive
  <2>3. Revokes(q) => Atomic!Alive(call[q].token)'
    BY <1>4, DecidedServes, NullsAssumption DEF Current, Atomic!Alive
  <2>4. Sweeps(q) /\ call[q].op = "refresh" => Presented(q)'.revoked
    <3> SUFFICES ASSUME Sweeps(q), call[q].op = "refresh" PROVE Presented(q)'.revoked
      OBVIOUS
    <3> DEFINE t == call[q].token
    <3>1. t \in Tokens /\ token[t] # NoToken /\ token[t].revoked /\ token[t].owner = Email(q)
      BY <1>4, DecidedServes DEF Current
    <3>2. token'[t] # NoToken /\ ~Atomic!Alive(t)'
      BY <1>4, <3>1 DEF Atomic!Alive
    <3>3. Presented(q)' = token'[t] /\ token'[t].revoked
      BY <3>1, <3>2, NullsAssumption DEF Presented, Atomic!Alive
    <3> QED BY <3>3
  <2>5. Atomic!Active(Email(q)) => Atomic!Active(Email(q))'
    BY <1>4, <2>1 DEF Atomic!Active
  <2> QED BY <1>1, <1>2, <2>1, <2>2, <2>3, <2>4, <2>5 DEF Current, NewAccount
<1> QED BY <1>3, <1>4

\* A step that changes no row keeps every decision current if its own is.
LEMMA UnchangedRowsStayCurrent ==
  ASSUME IInv, DecisionsStayCurrent, NEW r \in Requests, UNCHANGED rows,
         \A q \in Requests : q # r =>
           /\ pc'[q] = pc[q] /\ call'[q] = call[q] /\ seen'[q] = seen[q] /\ row'[q] = row[q]
           /\ swept'[q] = swept[q] /\ issued'[q] = issued[q]
           /\ \A t \in Tokens : tokenLock'[t] = q <=> tokenLock[t] = q,
         Current(r)'
  PROVE  DecisionsStayCurrent'
<1>1. account' = account /\ token' = token
  BY DEF rows
<1>2. ASSUME NEW q \in Requests, q # r PROVE Current(q)'
  <2>1. \A t \in Tokens : Atomic!Alive(t)' <=> Atomic!Alive(t)
    BY <1>1 DEF Atomic!Alive
  <2>2. Atomic!Active(Email(q)) =>
          account[Email(q)] # NoAccount /\ account[Email(q)].status = "active"
    BY DEF Atomic!Active
  <2> QED BY <1>1, <1>2, <2>1, <2>2, OthersStayCurrent DEF DecisionsStayCurrent
<1>3. \A t \in Tokens : token'[t] # NoToken => account'[token'[t].owner] # NoAccount
  BY <1>1 DEF DecisionsStayCurrent
<1> QED BY <1>2, <1>3 DEF DecisionsStayCurrent

------------------------------------------------------------------------------
(* One lemma per action.                                                   *)

\* An answer that writes nothing ends what was decided.
LEMMA RefuseStaysCurrent ==
  ASSUME IInv, DecisionsStayCurrent, NEW r \in Requests, NEW o, Refuse(r, o)
  PROVE  DecisionsStayCurrent'
<1> USE DEF IInv
<1>1. /\ \A q \in Requests : q # r =>
           /\ pc'[q] = pc[q] /\ seen'[q] = seen[q] /\ row'[q] = row[q]
           /\ swept'[q] = swept[q] /\ issued'[q] = issued[q]
      /\ pc'[r] = "done" /\ call' = call
  BY DEF Refuse, Answer, TypeOK
<1>2. ASSUME NEW q \in Requests, q # r, NEW t \in Tokens
      PROVE  tokenLock'[t] = q <=> tokenLock[t] = q
  BY <1>2, FreeAssumption DEF Refuse, Answer
<1>3. Current(r)'
  BY <1>1 DEF Current, LogsIn, Revokes, Sweeps
<1>4. UNCHANGED rows
  BY DEF Refuse
<1> QED BY <1>1, <1>2, <1>3, <1>4, UnchangedRowsStayCurrent

\* A request that goes on without having written.
LEMMA GoesOnCurrent ==
  ASSUME IInv, DecisionsStayCurrent, NEW r \in Requests, NEW label, Goto(r, label),
         UNCHANGED <<rows, tokenLock, call, row, issued>>,
         \A q \in Requests : q # r => seen'[q] = seen[q] /\ swept'[q] = swept[q],
         Current(r)'
  PROVE  DecisionsStayCurrent'
<1>1. \A q \in Requests : q # r => pc'[q] = pc[q]
  BY DEF Goto, IInv, TypeOK
<1> QED BY <1>1, UnchangedRowsStayCurrent

LEMMA ReceiveStaysCurrent ==
  ASSUME IInv, DecisionsStayCurrent, NEW r \in Requests, NEW c \in Call, Receive(r, c)
  PROVE  DecisionsStayCurrent'
<1>1. /\ \A q \in Requests : q # r => pc'[q] = pc[q] /\ call'[q] = call[q]
      /\ pc'[r] = "received"
      /\ UNCHANGED <<rows, tokenLock, seen, row, swept, issued>>
  BY DEF Receive, Goto, IInv, TypeOK, locks
<1>2. Current(r)'
  BY <1>1 DEF Current, LogsIn, Revokes, Sweeps
<1> QED BY <1>1, <1>2, UnchangedRowsStayCurrent

LEMMA RegisterCheckStaysCurrent ==
  ASSUME IInv, DecisionsStayCurrent, NEW r \in Requests, RegisterCheck(r)
  PROVE  DecisionsStayCurrent'
<1>1. CASE account[Email(r)] # NoAccount
  BY <1>1, RefuseStaysCurrent DEF RegisterCheck
<1>2. CASE account[Email(r)] = NoAccount
  <2>1. Goto(r, "checked") /\ UNCHANGED <<rows, locks, call, seen, row, swept, issued, outcome>>
    BY <1>2 DEF RegisterCheck
  <2>2. pc'[r] = "checked"
    BY <2>1 DEF Goto, IInv, TypeOK
  <2>3. Current(r)'
    BY <2>2 DEF Current, LogsIn, Revokes, Sweeps
  <2> QED BY <2>1, <2>3, GoesOnCurrent DEF locks
<1> QED BY <1>1, <1>2

\* Before it writes, a request has no lock on a token.
LEMMA NoLockBeforeFlush ==
  ASSUME IInv, NEW r \in Requests, pc[r] # "flushed"
  PROVE  \A t \in Tokens : tokenLock[t] # r
BY FreeAssumption DEF IInv, LockHolders

LEMMA RegisterInsertStaysCurrent ==
  ASSUME IInv, DecisionsStayCurrent, NEW r \in Requests, RegisterInsert(r)
  PROVE  DecisionsStayCurrent'
<1>1. CASE Refuse(r, "internal_error")
  BY <1>1, RefuseStaysCurrent
<1>2. CASE /\ row' = [row EXCEPT ![r] = NewAccount] /\ Goto(r, "flushed")
           /\ UNCHANGED <<rows, tokenLock, call, seen, swept, issued, outcome>>
  <2>1. pc[r] = "checked" /\ call[r].op = "register"
    BY DEF RegisterInsert, IInv, RequestsFit, Fits
  <2>2. /\ pc'[r] = "flushed" /\ row'[r] = NewAccount /\ call'[r] = call[r]
        /\ \A q \in Requests : q # r => pc'[q] = pc[q] /\ row'[q] = row[q]
    BY <1>2 DEF Goto, IInv, TypeOK
  <2>3. \A t \in Tokens : tokenLock'[t] # r
    BY <1>2, <2>1, NoLockBeforeFlush
  <2>4. Current(r)'
    BY <2>1, <2>2, <2>3 DEF Current, LogsIn, Revokes, Sweeps, Ended, NewAccount
  <2> QED BY <1>2, <2>2, <2>4, UnchangedRowsStayCurrent
<1> QED BY <1>1, <1>2 DEF RegisterInsert

LEMMA LoginReadStaysCurrent ==
  ASSUME IInv, DecisionsStayCurrent, NEW r \in Requests, LoginRead(r)
  PROVE  DecisionsStayCurrent'
<1>1. CASE account[Email(r)] = NoAccount \/ account[Email(r)].until = "ahead"
  BY <1>1, RefuseStaysCurrent DEF LoginRead
<1>2. CASE account[Email(r)] # NoAccount /\ account[Email(r)].until # "ahead"
  <2>1. /\ seen' = [seen EXCEPT ![r] = account[Email(r)]] /\ Goto(r, "user_read")
        /\ UNCHANGED <<rows, locks, call, row, swept, issued, outcome>> /\ call[r].op = "login"
    BY <1>2 DEF LoginRead
  <2>2. /\ pc'[r] = "user_read" /\ seen'[r] = account[Email(r)]
        /\ \A q \in Requests : q # r => seen'[q] = seen[q]
    BY <2>1 DEF Goto, IInv, TypeOK
  <2>3. account' = account /\ Email(r)' = Email(r)
    BY <2>1 DEF rows, Email, Presented
  <2>4. Current(r)'
    BY <1>2, <2>2, <2>3 DEF Current, LogsIn, Revokes, Sweeps
  <2> QED BY <2>1, <2>2, <2>4, GoesOnCurrent DEF locks
<1> QED BY <1>1, <1>2

LEMMA LoginFlushStaysCurrent ==
  ASSUME IInv, DecisionsStayCurrent, NEW r \in Requests, LoginFlush(r)
  PROVE  DecisionsStayCurrent'
<1> USE DEF IInv
<1>1. /\ pc[r] = "user_read" /\ call[r].op = "login" /\ Goto(r, "flushed")
      /\ UNCHANGED <<rows, tokenLock, call, seen, swept, outcome>>
      /\ Current(r)
  BY DEF LoginFlush, DecisionsStayCurrent
<1>2. /\ pc'[r] = "flushed"
      /\ \A q \in Requests : q # r => pc'[q] = pc[q] /\ row'[q] = row[q] /\ issued'[q] = issued[q]
  BY <1>1 DEF LoginFlush, Goto, TypeOK
<1>3. call[r].correct <=> issued'[r] # NoToken
  <2>1. issued[r] = NoToken
    BY <1>1 DEF LockHolders
  <2>2. \A t \in Fresh : t # NoToken
    BY NullsAssumption DEF Fresh
  <2> QED BY <2>1, <2>2 DEF LoginFlush, TypeOK
<1>4. \A t \in Tokens : tokenLock'[t] # r
  BY <1>1, NoLockBeforeFlush
<1>5. account' = account /\ Email(r)' = Email(r)
  BY <1>1 DEF rows, Email, Presented
<1>6. Current(r)'
  BY <1>1, <1>2, <1>3, <1>4, <1>5 DEF Current, LogsIn, Revokes, Sweeps, Ended
<1> QED BY <1>1, <1>2, <1>6, UnchangedRowsStayCurrent

\* What r decides when it has read its token is so: it lives, or it was revoked.
LEMMA TokenReadStaysCurrent ==
  ASSUME IInv, DecisionsStayCurrent, NEW r \in Requests, TokenRead(r)
  PROVE  DecisionsStayCurrent'
<1> DEFINE old == Presented(r)
           logout == call[r].op = "logout"
           label == IF old.revoked THEN "sweep" ELSE IF logout THEN "revoke" ELSE "token_read"
<1>1. pc[r] = "received" /\ call[r].op \in {"refresh", "logout"}
  BY DEF TokenRead
<1>2. CASE \E o : Refuse(r, o)
  BY <1>2, RefuseStaysCurrent
<1>3. CASE /\ old # NoToken /\ ~(old.revoked /\ logout)
           /\ Goto(r, label)
           /\ UNCHANGED <<rows, locks, call, seen, row, swept, issued, outcome>>
  <2>1. pc'[r] = label /\ call' = call /\ issued' = issued /\ token' = token
    BY <1>3 DEF Goto, IInv, TypeOK, rows
  <2>2. token[call[r].token] # NoToken /\ old = token[call[r].token]
    BY <1>3 DEF Presented
  <2>3. Presented(r)' = old
    BY <2>1 DEF Presented
  <2>4. Atomic!Alive(call[r].token)' <=> ~old.revoked
    BY <2>1, <2>2 DEF Atomic!Alive
  <2>5. CASE old.revoked
    <3>1. pc'[r] = "sweep" /\ call[r].op = "refresh"
      BY <1>1, <1>3, <2>1, <2>5
    <3> QED BY <1>3, <2>1, <2>3, <2>5, <3>1, GoesOnCurrent
            DEF locks, Current, LogsIn, Revokes, Sweeps
  <2>6. CASE ~old.revoked
    <3>1. pc'[r] = IF logout THEN "revoke" ELSE "token_read"
      BY <2>1, <2>6
    <3> QED BY <1>1, <1>3, <2>1, <2>4, <2>6, <3>1, GoesOnCurrent
            DEF locks, Current, LogsIn, Revokes, Sweeps
  <2> QED BY <2>5, <2>6
<1> QED BY <1>2, <1>3 DEF TokenRead

\* The account was active when it was looked at.
LEMMA UserCheckStaysCurrent ==
  ASSUME IInv, DecisionsStayCurrent, NEW r \in Requests, UserCheck(r)
  PROVE  DecisionsStayCurrent'
<1> USE DEF IInv
<1>1. CASE account[Email(r)].status # "active"
  BY <1>1, RefuseStaysCurrent DEF UserCheck
<1>2. CASE account[Email(r)].status = "active"
  <2> DEFINE next == IF call[r].op = "refresh" THEN "revoke" ELSE "sweep"
  <2>1. Goto(r, next) /\ UNCHANGED <<rows, locks, call, seen, row, swept, issued, outcome>>
    BY <1>2 DEF UserCheck
  <2>2. \/ pc[r] = "received" /\ call[r].op = "logout_all"
        \/ pc[r] = "token_read" /\ call[r].op = "refresh"
    BY CallIsKnown DEF UserCheck, RequestsFit, Fits
  <2>3. pc'[r] = next /\ call' = call /\ account' = account /\ token' = token
    BY <2>1 DEF Goto, TypeOK, rows
  <2>4. Email(r)' = Email(r)
    BY <2>3 DEF Email, Presented
  <2>5. CASE call[r].op = "refresh"
    <3>1. Decided(r) /\ Atomic!Alive(call[r].token)
      BY <2>2, <2>5 DEF Decided, Revokes, DecisionsStayCurrent, Current
    <3>2. account[Email(r)] # NoAccount
      BY <2>5, <3>1, DecidedServes DEF DecisionsStayCurrent, Atomic!Alive
    <3>3. Atomic!Active(Email(r))' /\ Atomic!Alive(call[r].token)'
      BY <1>2, <2>3, <2>4, <3>1, <3>2 DEF Atomic!Active, Atomic!Alive
    <3>4. Current(r)'
      BY <2>3, <2>5, <3>3 DEF Current, LogsIn, Revokes, Sweeps
    <3> QED BY <2>1, <3>4, GoesOnCurrent DEF locks
  <2>6. CASE call[r].op = "logout_all"
    <3>1. account[Email(r)] # NoAccount
      BY <2>2, <2>6, CallIsKnown DEF RequestsFit, Fits, Email
    <3>2. Atomic!Active(Email(r))'
      BY <1>2, <2>3, <2>4, <3>1 DEF Atomic!Active
    <3>3. Current(r)'
      BY <2>3, <2>6, <3>2 DEF Current, LogsIn, Revokes, Sweeps
    <3> QED BY <2>1, <3>3, GoesOnCurrent DEF locks
  <2> QED BY <2>2, <2>5, <2>6
<1> QED BY <1>1, <1>2

LEMMA RevokeStaysCurrent ==
  ASSUME IInv, DecisionsStayCurrent, NEW r \in Requests, Revoke(r)
  PROVE  DecisionsStayCurrent'
<1> USE DEF IInv
<1> DEFINE t == call[r].token
<1>1. /\ pc[r] = "revoke" /\ tokenLock[t] = Free /\ tokenLock' = [tokenLock EXCEPT ![t] = r]
      /\ Goto(r, "flushed") /\ UNCHANGED <<rows, accountLock, call, seen, row, swept, outcome>>
      /\ Current(r)
  BY DEF Revoke, DecisionsStayCurrent
<1>2. /\ Decided(r) /\ Revokes(r) /\ call[r].op \in {"refresh", "logout"} /\ t \in Tokens
      /\ Atomic!Alive(t) /\ (call[r].op = "refresh" => Atomic!Active(Email(r)))
  BY <1>1, DecidedServes DEF Decided, Revokes, Current
<1>3. /\ pc'[r] = "flushed"
      /\ \A q \in Requests : q # r => pc'[q] = pc[q] /\ issued'[q] = issued[q]
  BY <1>1 DEF Revoke, Goto, TypeOK
<1>4. call[r].op = "refresh" => issued'[r] # NoToken
  <2>1. \A n \in Fresh : n # NoToken
    BY NullsAssumption DEF Fresh
  <2> QED BY <2>1 DEF Revoke, TypeOK
<1>5. /\ {s \in Tokens : tokenLock'[s] = r} = {t}
      /\ \A q \in Requests, s \in Tokens : q # r => (tokenLock'[s] = q <=> tokenLock[s] = q)
  <2>1. \A s \in Tokens : tokenLock[s] # r
    BY <1>1, NoLockBeforeFlush
  <2>2. \A s \in Tokens : tokenLock'[s] = IF s = t THEN r ELSE tokenLock[s]
    BY <1>1, <1>2 DEF TypeOK
  <2> QED BY <1>1, <1>2, <2>1, <2>2, FreeAssumption
<1>6. account' = account /\ token' = token /\ call' = call /\ Email(r)' = Email(r)
  BY <1>1 DEF rows, Email, Presented
<1>7. /\ Atomic!Alive(t)' /\ (Atomic!Active(Email(r)) => Atomic!Active(Email(r))')
  BY <1>2, <1>6 DEF Atomic!Alive, Atomic!Active
<1>8. Current(r)'
  <2>1. ~Sweeps(r)' /\ ~LogsIn(r)' /\ Revokes(r)'
    BY <1>1, <1>2, <1>3, <1>4 DEF Sweeps, LogsIn, Revokes
  <2>2. Ended(r)' = {t}
    BY <1>1, <2>1 DEF Ended
  <2> QED BY <1>1, <1>2, <1>5, <1>7, <2>1, <2>2 DEF Current
<1> QED BY <1>1, <1>3, <1>5, <1>8, UnchangedRowsStayCurrent

\* The snapshot of a sweep sees every session there is.
LEMMA SweepSelectStaysCurrent ==
  ASSUME IInv, DecisionsStayCurrent, NEW r \in Requests, SweepSelect(r)
  PROVE  DecisionsStayCurrent'
<1> USE DEF IInv
<1>1. /\ pc[r] = "sweep" /\ Goto(r, "sweeping") /\ Current(r)
      /\ UNCHANGED <<rows, locks, call, seen, row, issued, outcome>>
  BY DEF SweepSelect, DecisionsStayCurrent
<1>2. /\ pc'[r] = "sweeping" /\ swept'[r] = Sessions(Email(r))
      /\ \A q \in Requests : q # r => pc'[q] = pc[q] /\ swept'[q] = swept[q]
  <2>1. swept'[r] = {t \in Tokens : /\ token[t] # NoToken /\ ~token[t].revoked
                                    /\ token[t].owner = Email(r)}
    BY DEF SweepSelect, TypeOK
  <2>2. swept'[r] = Sessions(Email(r))
    BY <2>1 DEF Sessions, Atomic!Alive
  <2> QED BY <1>1, <2>2 DEF SweepSelect, Goto, TypeOK
<1>3. /\ account' = account /\ token' = token /\ call' = call
      /\ Email(r)' = Email(r) /\ Presented(r)' = Presented(r)
  BY <1>1 DEF rows, Email, Presented
<1>4. /\ Sessions(Email(r))' = Sessions(Email(r))
      /\ Atomic!Active(Email(r)) => Atomic!Active(Email(r))'
  BY <1>3 DEF Sessions, Atomic!Alive, Atomic!Active
<1>5. Current(r)'
  BY <1>1, <1>2, <1>3, <1>4 DEF Current, LogsIn, Revokes, Sweeps
<1> QED BY <1>1, <1>2, <1>5, GoesOnCurrent DEF locks

\* All of them are there to be locked.
LEMMA SweepRevokeStaysCurrent ==
  ASSUME IInv, DecisionsStayCurrent, NEW r \in Requests, SweepRevoke(r)
  PROVE  DecisionsStayCurrent'
<1> USE DEF IInv
<1>1. /\ pc[r] = "sweeping" /\ Goto(r, "flushed") /\ Current(r)
      /\ \A t \in swept[r] : tokenLock[t] = Free
      /\ UNCHANGED <<rows, accountLock, call, seen, row, swept, issued, outcome>>
  BY DEF SweepRevoke, DecisionsStayCurrent
<1>2. Decided(r) /\ Sweeps(r) /\ call[r].op \in {"refresh", "logout_all"}
      /\ swept[r] = Sessions(Email(r)) /\ issued[r] = NoToken
  BY <1>1, DecidedServes DEF Decided, Sweeps, Current, LockHolders
<1>3. pc'[r] = "flushed" /\ \A q \in Requests : q # r => pc'[q] = pc[q]
  BY <1>1 DEF Goto, TypeOK
<1>4. /\ {t \in Tokens : tokenLock'[t] = r} = swept[r]
      /\ \A q \in Requests, t \in Tokens : q # r => (tokenLock'[t] = q <=> tokenLock[t] = q)
  <2>1. \A t \in Tokens : tokenLock[t] # r
    BY <1>1, NoLockBeforeFlush
  <2>2. \A t \in Tokens : tokenLock'[t] = IF t \in swept[r] THEN r ELSE tokenLock[t]
    BY <1>2 DEF SweepRevoke, Sessions, Atomic!Alive
  <2>3. swept[r] \subseteq Tokens
    BY DEF TypeOK
  <2> QED BY <1>1, <2>1, <2>2, <2>3, FreeAssumption
<1>5. /\ account' = account /\ token' = token /\ call' = call
      /\ Email(r)' = Email(r) /\ Presented(r)' = Presented(r)
  BY <1>1 DEF rows, Email, Presented
<1>6. /\ Sessions(Email(r))' = Sessions(Email(r))
      /\ Atomic!Active(Email(r)) => Atomic!Active(Email(r))'
  BY <1>5 DEF Sessions, Atomic!Alive, Atomic!Active
<1>7. Current(r)'
  <2>1. ~Revokes(r)' /\ ~LogsIn(r)' /\ Sweeps(r)'
    BY <1>1, <1>2, <1>3 DEF Sweeps, LogsIn, Revokes
  <2>2. Ended(r)' = swept[r]
    BY <1>1, <2>1 DEF Ended
  <2> QED BY <1>1, <1>2, <1>3, <1>4, <1>5, <1>6, <2>1, <2>2 DEF Current
<1> QED BY <1>1, <1>3, <1>4, <1>7, UnchangedRowsStayCurrent

\* What r holds when it commits are live sessions of its account.
LEMMA HeldSessions ==
  ASSUME IInv, DecisionsStayCurrent, NEW r \in Requests, pc[r] = "flushed",
         NEW t \in Tokens, tokenLock[t] = r
  PROVE  Decided(r) /\ t \in Ended(r) /\ Atomic!Alive(t) /\ token[t].owner = Email(r)
<1>1. t \in Ended(r)
  BY DEF DecisionsStayCurrent, Current
<1>2. Decided(r)
  BY <1>1 DEF Ended, Decided
<1>3. CASE Sweeps(r)
  <2>1. swept[r] = Sessions(Email(r)) /\ t \in swept[r]
    BY <1>1, <1>3 DEF DecisionsStayCurrent, Current, Ended
  <2> QED BY <1>1, <1>2, <2>1 DEF Sessions
<1>4. CASE ~Sweeps(r)
  <2>1. Revokes(r) /\ t = call[r].token
    BY <1>1, <1>4 DEF Ended
  <2> QED BY <1>1, <1>2, <2>1, DecidedServes DEF DecisionsStayCurrent, Current
<1> QED BY <1>3, <1>4

\* A request that issues a token has decided to.
LEMMA IssuerDecided ==
  ASSUME IInv, NEW r \in Requests, issued[r] # NoToken
  PROVE  /\ pc[r] = "flushed" /\ Decided(r) /\ ~Sweeps(r)
         /\ \/ call[r].op = "login" /\ LogsIn(r)
            \/ call[r].op = "refresh" /\ Revokes(r)
BY DEF IInv, LockHolders, Decided, LogsIn, Revokes, Sweeps

\* COMMIT writes only rows of the account r serves.
LEMMA CommitTouchesOwn ==
  ASSUME IInv, DecisionsStayCurrent, NEW r \in Requests, Commit(r)
  PROVE  /\ \A e \in Emails : account'[e] # account[e] => Serves(r, e)
         /\ \A t \in Tokens : token'[t] # token[t] =>
              Serves(r, Email(r)) /\ token'[t].owner = Email(r)
         /\ \A t \in Tokens : token[t] # NoToken =>
              token'[t] # NoToken /\ token'[t].owner = token[t].owner
<1> USE DEF IInv
<1>1. pc[r] = "flushed"
  BY DEF Commit
<1>2. ASSUME NEW e \in Emails, account'[e] # account[e]
      PROVE  Serves(r, e)
  <2>1. accountLock[e] = r
    BY <1>2, CommittedRows
  <2>2. call[r].op \in {"register", "login"} /\ call[r].email = e
    BY <2>1, FreeAssumption DEF LockHolders
  <2> QED BY <1>1, <2>2 DEF Serves, Email, Done
<1>3. ASSUME NEW t \in Tokens, t # issued[r], tokenLock[t] = r
      PROVE  /\ Serves(r, Email(r)) /\ token[t].owner = Email(r)
             /\ token'[t].owner = token[t].owner /\ token'[t] # NoToken
  <2>1. Serves(r, Email(r)) /\ token[t].owner = Email(r)
    BY <1>1, <1>3, HeldSessions, DecidedServes
  <2>2. /\ token[t] \in Token /\ token'[t] \in Token
        /\ token'[t] = [token[t] EXCEPT !.revoked = TRUE,
             !.successor = IF issued[r] = NoToken THEN @ ELSE issued[r]]
    BY <1>3, CommittedTokenRows
  <2> QED BY <2>1, <2>2, NullsAssumption DEF Token
<1>4. ASSUME NEW t \in Tokens, t = issued[r]
      PROVE  Serves(r, Email(r)) /\ token'[t].owner = Email(r) /\ token[t] = NoToken
  <2>1. issued[r] # NoToken
    BY <1>4, NullsAssumption
  <2>2. Serves(r, Email(r))
    BY <2>1, IssuerDecided, DecidedServes
  <2>3. token'[t].owner = Email(r) /\ token[t] = NoToken
    BY <1>4, CommittedTokenRows
  <2> QED BY <2>2, <2>3
<1>5. ASSUME NEW t \in Tokens, t # issued[r], tokenLock[t] # r
      PROVE  token'[t] = token[t]
  BY <1>5, CommittedTokenRows
<1> QED BY <1>2, <1>3, <1>4, <1>5

\* COMMIT leaves what others decided as it is: they serve other accounts.
LEMMA CommitStaysCurrent ==
  ASSUME IInv, DecisionsStayCurrent, OnePerAccount, NEW r \in Requests, Commit(r)
  PROVE  DecisionsStayCurrent'
<1> USE DEF IInv
<1>1. PICK o : Answer(r, o)
  BY DEF Commit
<1>2. /\ \A q \in Requests : q # r =>
           /\ pc'[q] = pc[q] /\ seen'[q] = seen[q] /\ row'[q] = row[q]
           /\ swept'[q] = swept[q] /\ issued'[q] = issued[q]
      /\ pc'[r] = "done" /\ call' = call
  BY <1>1 DEF Answer, TypeOK
<1>3. ASSUME NEW q \in Requests, q # r, NEW t \in Tokens
      PROVE  tokenLock'[t] = q <=> tokenLock[t] = q
  BY <1>1, <1>3, FreeAssumption DEF Answer
<1>4. Current(r)'
  BY <1>2 DEF Current, LogsIn, Revokes, Sweeps
<1>5. ASSUME NEW q \in Requests, q # r
      PROVE  Current(q)'
  <2>1. ASSUME Decided(q)
        PROVE  /\ account'[Email(q)] = account[Email(q)]
               /\ \A t \in Tokens : token'[t] # NoToken /\ token'[t].owner = Email(q) =>
                    token'[t] = token[t]
    <3>1. Email(q) \in Emails /\ Serves(q, Email(q))
      BY <2>1, DecidedServes
    <3>2. ~Serves(r, Email(q))
      BY <1>5, <3>1 DEF OnePerAccount
    <3> QED BY <3>1, <3>2, CommitTouchesOwn
  <2>2. \A t \in Tokens : token'[t] = token[t] => (Atomic!Alive(t)' <=> Atomic!Alive(t))
    BY DEF Atomic!Alive
  <2>3. Atomic!Active(Email(q)) =>
          account[Email(q)] # NoAccount /\ account[Email(q)].status = "active"
    BY DEF Atomic!Active
  <2>4. LogsIn(q) => Decided(q)
    BY DEF Decided
  <2>5. Current(q)
    BY DEF DecisionsStayCurrent
  <2>6. \A t \in Tokens : token[t] # NoToken =>
           token'[t] # NoToken /\ token'[t].owner = token[t].owner
    BY CommitTouchesOwn
  <2> QED BY <1>2, <1>3, <1>5, <2>1, <2>2, <2>3, <2>4, <2>5, <2>6, OthersStayCurrent
<1>6. ASSUME NEW t \in Tokens, token'[t] # NoToken
      PROVE  account'[token'[t].owner] # NoAccount
  <2>1. \A e \in Emails : account[e] # NoAccount => account'[e] # NoAccount
    BY CommittedRows
  <2>2. CASE token'[t] = token[t]
    <3>1. token[t].owner \in Emails /\ account[token[t].owner] # NoAccount
      BY <1>6, <2>2 DEF TypeOK, Token, DecisionsStayCurrent
    <3> QED BY <2>1, <2>2, <3>1
  <2>3. CASE token'[t] # token[t]
    <3>1. token'[t].owner = Email(r)
      BY <2>3, CommitTouchesOwn
    <3>2. CASE token[t] # NoToken
      <4>1. token[t].owner = Email(r)
        BY <3>1, <3>2, CommitTouchesOwn
      <4> QED BY <2>1, <3>1, <3>2, <4>1 DEF TypeOK, Token, DecisionsStayCurrent
    <3>3. CASE token[t] = NoToken
      <4>1. t = issued[r] /\ issued[r] # NoToken
        <5>1. tokenLock[t] # r
          BY <3>3, FreeAssumption DEF LockHolders
        <5> QED BY <2>3, <5>1, CommittedTokenRows, NullsAssumption
      <4>2. Email(r) \in Emails /\ account[Email(r)] # NoAccount
        <5>1. CASE call[r].op = "login"
          BY <4>1, <5>1, IssuerDecided, DecidedServes DEF RequestsFit, Fits, WritesFit
        <5>2. CASE call[r].op = "refresh"
          BY <4>1, <5>2, IssuerDecided, DecidedServes, NullsAssumption DEF DecisionsStayCurrent
        <5> QED BY <4>1, <5>1, <5>2, IssuerDecided
      <4> QED BY <2>1, <3>1, <4>2
    <3> QED BY <3>2, <3>3
  <2> QED BY <2>2, <2>3
<1> QED BY <1>4, <1>5, <1>6 DEF DecisionsStayCurrent

\* The end of a lockout concerns nobody who has read the account: who meets a
\* running lock is refused.
LEMMA LockoutEndsCurrent ==
  ASSUME IInv, DecisionsStayCurrent, NEW e \in Emails, LockoutEnds(e)
  PROVE  DecisionsStayCurrent'
<1> USE DEF IInv
<1>1. /\ account[e] \in Account /\ account[e].until = "ahead"
      /\ account' = [account EXCEPT ![e].until = "past"]
      /\ UNCHANGED <<token, locks, requests>>
  BY DEF LockoutEnds, TypeOK
<1>2. /\ \A f \in Emails : f # e => account'[f] = account[f]
      /\ account'[e] = [account[e] EXCEPT !.until = "past"] /\ account'[e] \in Account
  BY <1>1 DEF TypeOK, Account
<1>3. account'[e].status = account[e].status /\ account'[e] # NoAccount
  BY <1>1, <1>2, NullsAssumption DEF Account
<1>4. /\ pc' = pc /\ call' = call /\ seen' = seen /\ row' = row /\ swept' = swept
      /\ issued' = issued /\ tokenLock' = tokenLock /\ token' = token
  BY <1>1 DEF locks, requests
<1>5. ASSUME NEW q \in Requests
      PROVE  Current(q)'
  <2>1. \A t \in Tokens : Atomic!Alive(t)' <=> Atomic!Alive(t)
    BY <1>4 DEF Atomic!Alive
  <2>2. LogsIn(q) => account'[Email(q)] = account[Email(q)]
    <3>1. LogsIn(q) => Email(q) \in Emails /\ account[Email(q)].until # "ahead"
      BY DecidedServes DEF Decided, DecisionsStayCurrent, Current
    <3> QED BY <1>1, <1>2, <3>1
  <2>3. Decided(q) /\ Atomic!Active(Email(q)) =>
          account'[Email(q)] # NoAccount /\ account'[Email(q)].status = "active"
    BY <1>2, <1>3, DecidedServes DEF Atomic!Active
  <2> QED BY <1>4, <2>1, <2>2, <2>3, OthersStayCurrent DEF DecisionsStayCurrent
<1>6. \A t \in Tokens : token'[t] # NoToken => account'[token'[t].owner] # NoAccount
  BY <1>2, <1>3, <1>4 DEF DecisionsStayCurrent, TypeOK, Token
<1> QED BY <1>5, <1>6 DEF DecisionsStayCurrent

\* Expiry revokes nothing.
LEMMA TokenExpiresCurrent ==
  ASSUME IInv, DecisionsStayCurrent, NEW t \in Tokens, TokenExpires(t)
  PROVE  DecisionsStayCurrent'
<1> USE DEF IInv
<1>1. /\ token[t] \in Token /\ token' = [token EXCEPT ![t].expired = TRUE]
      /\ UNCHANGED <<account, locks, requests>>
  BY DEF TokenExpires, TypeOK
<1>2. \A s \in Tokens : s # t => token'[s] = token[s]
  BY <1>1 DEF TypeOK
<1>3. /\ token'[t] # NoToken /\ token'[t].owner = token[t].owner
      /\ token'[t].revoked = token[t].revoked /\ token[t] # NoToken
  <2>1. token'[t] = [token[t] EXCEPT !.expired = TRUE] /\ token'[t] \in Token
    BY <1>1 DEF TypeOK, Token
  <2> QED BY <1>1, <2>1, NullsAssumption DEF Token
<1>4. /\ pc' = pc /\ call' = call /\ seen' = seen /\ row' = row /\ swept' = swept
      /\ issued' = issued /\ tokenLock' = tokenLock /\ account' = account
  BY <1>1 DEF locks, requests
<1>5. ASSUME NEW q \in Requests
      PROVE  Current(q)'
  <2>1. \A s \in Tokens : Atomic!Alive(s)' <=> Atomic!Alive(s)
    BY <1>2, <1>3 DEF Atomic!Alive
  <2>2. Atomic!Active(Email(q)) =>
          account[Email(q)] # NoAccount /\ account[Email(q)].status = "active"
    BY DEF Atomic!Active
  <2> QED BY <1>2, <1>3, <1>4, <2>1, <2>2, OthersStayCurrent DEF DecisionsStayCurrent
<1>6. \A s \in Tokens : token'[s] # NoToken => account'[token'[s].owner] # NoAccount
  BY <1>2, <1>3, <1>4 DEF DecisionsStayCurrent
<1> QED BY <1>5, <1>6 DEF DecisionsStayCurrent

LEMMA StepStaysCurrent ==
  ASSUME IInv, DecisionsStayCurrent, OnePerAccount, [Next]_vars
  PROVE  DecisionsStayCurrent'
<1>1. CASE UNCHANGED vars
  <2>1. /\ UNCHANGED <<account, token, pc, call, seen, row, swept, issued, tokenLock>>
    BY <1>1 DEF vars, rows, locks, requests
  <2>2. ASSUME NEW q \in Requests PROVE Current(q)'
    <3>1. Atomic!Active(Email(q)) =>
            account[Email(q)] # NoAccount /\ account[Email(q)].status = "active"
      BY DEF Atomic!Active
    <3>2. \A s \in Tokens : Atomic!Alive(s)' <=> Atomic!Alive(s)
      BY <2>1 DEF Atomic!Alive
    <3> QED BY <2>1, <3>1, <3>2, OthersStayCurrent DEF DecisionsStayCurrent
  <2> QED BY <2>1, <2>2 DEF DecisionsStayCurrent
<1>2. ASSUME NEW r \in Requests, NEW c \in Call, Receive(r, c) PROVE DecisionsStayCurrent'
  BY <1>2, ReceiveStaysCurrent
<1>3. ASSUME NEW r \in Requests, Step(r) PROVE DecisionsStayCurrent'
  <2>1. CASE Fail(r)
    BY <2>1, RefuseStaysCurrent DEF Fail
  <2> QED BY <1>3, <2>1, RegisterCheckStaysCurrent, RegisterInsertStaysCurrent,
          LoginReadStaysCurrent, LoginFlushStaysCurrent, TokenReadStaysCurrent,
          UserCheckStaysCurrent, RevokeStaysCurrent, SweepSelectStaysCurrent,
          SweepRevokeStaysCurrent, CommitStaysCurrent DEF Step
<1> QED BY <1>1, <1>2, <1>3, LockoutEndsCurrent, TokenExpiresCurrent DEF Next

\* While the requests of an account come one at a time, what a request decided
\* is still right when it commits, though nothing is read FOR UPDATE
\* (auth_service.py authenticate, refresh, logout, logout_all).
THEOREM SequentialDecisions == Spec /\ []OnePerAccount => []DecisionsStayCurrent
<1>1. Init => DecisionsStayCurrent
  <2> SUFFICES ASSUME Init PROVE DecisionsStayCurrent
    OBVIOUS
  <2>1. \A r \in Requests : pc[r] = "idle"
    BY DEF Init
  <2>2. \A t \in Tokens : token[t] = NoToken
    BY DEF Init
  <2> QED BY <2>1, <2>2 DEF DecisionsStayCurrent, Current, LogsIn, Revokes, Sweeps
<1>2. IInv /\ DecisionsStayCurrent /\ OnePerAccount /\ [Next]_vars => DecisionsStayCurrent'
  BY StepStaysCurrent
<1> QED BY <1>1, <1>2, Invariance, PTL DEF Spec

------------------------------------------------------------------------------
(* Every step is a step of AtomicAuth.                                     *)

\* Where the row is as it was read, the UPDATE of changed columns writes it all.
LEMMA WrittenIsObject ==
  ASSUME NEW a \in Account, NEW b \in Account
  PROVE  Written(a, b, a) = b
BY DEF Written, Account

\* The committed rows in terms of what r decided.
LEMMA CommitWritesDecision ==
  ASSUME IInv, DecisionsStayCurrent, NEW r \in Requests, Commit(r)
  PROVE  /\ account' = IF call[r].op \in {"register", "login"}
                       THEN [account EXCEPT ![call[r].email] = row[r]] ELSE account
         /\ token' = [t \in Tokens |->
              IF t = issued[r]
              THEN Atomic!Session(Email(r), IF call[r].op = "refresh" THEN call[r].token ELSE NoToken)
              ELSE IF t \in Ended(r)
              THEN [token[t] EXCEPT !.revoked = TRUE,
                                    !.successor = IF issued[r] = NoToken THEN @ ELSE issued[r]]
              ELSE token[t]]
<1> USE DEF IInv
<1>1. pc[r] = "flushed" /\ call[r] \in Call /\ WritesFit(r) /\ Current(r)
  BY CallIsKnown DEF Commit, RequestsFit, Fits, DecisionsStayCurrent
<1>2. ASSUME NEW e \in Emails, accountLock[e] = r
      PROVE  call[r].op \in {"register", "login"} /\ call[r].email = e
  BY <1>2, FreeAssumption DEF LockHolders
<1>3. account' = [e \in Emails |->
        IF accountLock[e] = r
        THEN IF account[e] = NoAccount THEN row[r] ELSE Written(seen[r], row[r], account[e])
        ELSE account[e]]
  BY DEF Commit
<1>4. ASSUME call[r].op \in {"register", "login"}
      PROVE  account' = [account EXCEPT ![call[r].email] = row[r]]
  <2> DEFINE e == call[r].email
  <2>1. e \in Emails /\ accountLock[e] = r
    BY <1>1, <1>4, CallFields DEF WritesFit
  <2>2. account'[e] = row[r]
    <3>1. CASE call[r].op = "register"
      BY <1>1, <1>3, <2>1, <3>1 DEF WritesFit
    <3>2. CASE call[r].op = "login"
      <4>1. LogsIn(r) /\ Email(r) = e
        BY <1>1, <3>2 DEF LogsIn, Email
      <4>2. seen[r] = account[e] /\ account[e] # NoAccount
        BY <1>1, <3>2, <4>1 DEF Current, WritesFit
      <4>3. account'[e] = Written(seen[r], row[r], seen[r])
        BY <1>3, <2>1, <4>2
      <4>4. seen[r] \in Account /\ row[r] \in Account
        BY <1>1, <2>1, <3>2, <4>2, ObjectsAreAccounts DEF WritesFit, TypeOK
      <4> QED BY <4>3, <4>4, WrittenIsObject
    <3> QED BY <1>4, <3>1, <3>2
  <2>3. account' = [account EXCEPT ![e] = row[r]]
    <3>1. \A f \in Emails : f # e => account'[f] = account[f]
      BY <1>2, <1>3
    <3>2. \A f \in Emails : account'[f] = [account EXCEPT ![e] = row[r]][f]
      BY <2>1, <2>2, <3>1 DEF TypeOK
    <3>3. account' = [f \in Emails |-> account'[f]]
      BY <1>3
    <3>4. [account EXCEPT ![e] = row[r]] = [f \in Emails |-> [account EXCEPT ![e] = row[r]][f]]
      BY DEF TypeOK
    <3> QED BY <3>2, <3>3, <3>4
  <2> QED BY <2>3
<1>5. ASSUME call[r].op \notin {"register", "login"}
      PROVE  account' = account
  <2>1. account' = [e \in Emails |-> account[e]]
    BY <1>2, <1>3, <1>5
  <2> QED BY <2>1 DEF TypeOK
<1>6. \A t \in Tokens : tokenLock[t] = r <=> t \in Ended(r)
  BY <1>1 DEF Current
<1>7. token' = [t \in Tokens |->
              IF t = issued[r]
              THEN Atomic!Session(Email(r), IF call[r].op = "refresh" THEN call[r].token ELSE NoToken)
              ELSE IF t \in Ended(r)
              THEN [token[t] EXCEPT !.revoked = TRUE,
                                    !.successor = IF issued[r] = NoToken THEN @ ELSE issued[r]]
              ELSE token[t]]
  BY <1>6 DEF Commit, CommittedTokens, Atomic!Session
<1> QED BY <1>4, <1>5, <1>7

\* A request that issues nothing leaves the tokens, but for those it ends.
LEMMA CommitWithoutIssue ==
  ASSUME IInv, DecisionsStayCurrent, NEW r \in Requests, Commit(r), issued[r] = NoToken
  PROVE  token' = [t \in Tokens |-> IF t \in Ended(r) THEN [token[t] EXCEPT !.revoked = TRUE]
                                    ELSE token[t]]
<1> DEFINE old(t) == [token[t] EXCEPT !.revoked = TRUE,
                        !.successor = IF issued[r] = NoToken THEN @ ELSE issued[r]]
<1>1. token' = [t \in Tokens |-> token'[t]]
  BY CommitWritesDecision
<1>2. ASSUME NEW t \in Tokens
      PROVE  token'[t] = IF t \in Ended(r) THEN old(t) ELSE token[t]
  <2>1. t # issued[r]
    BY NullsAssumption
  <2> QED BY <2>1, CommitWritesDecision
<1>3. ASSUME NEW t \in Tokens, t \in Ended(r)
      PROVE  old(t) = [token[t] EXCEPT !.revoked = TRUE]
  <2>1. pc[r] = "flushed" /\ tokenLock[t] = r
    BY <1>3 DEF Commit, DecisionsStayCurrent, Current
  <2>2. token[t] \in Token
    BY <2>1, HeldSessions DEF IInv, TypeOK, Atomic!Alive
  <2> QED BY <2>2 DEF Token
<1>4. \A t \in Tokens : token'[t] = IF t \in Ended(r) THEN [token[t] EXCEPT !.revoked = TRUE]
                                     ELSE token[t]
  <2> HIDE DEF old
  <2> QED BY <1>2, <1>3
<1> QED BY <1>1, <1>4

\* COMMIT is one operation of AtomicAuth.
LEMMA CommitIsAtomic ==
  ASSUME IInv, DecisionsStayCurrent, NEW r \in Requests, Commit(r)
  PROVE  Atomic!Next
<1> USE DEF IInv
<1> DEFINE c == call[r]
           e == Email(r)
<1>1. pc[r] = "flushed" /\ c \in Call /\ WritesFit(r) /\ Current(r)
  BY CallIsKnown DEF Commit, RequestsFit, Fits, DecisionsStayCurrent
<1>2. issued[r] # NoToken => c.op \in {"login", "refresh"} /\ issued[r] \in Tokens
                             /\ token[issued[r]] = NoToken
  BY DEF LockHolders, TypeOK
<1>3. ASSUME Ended(r) = {}, issued[r] = NoToken
      PROVE  token' = token
  <2>1. token' = [t \in Tokens |-> token[t]]
    BY <1>3, CommitWithoutIssue
  <2> QED BY <2>1 DEF TypeOK
<1>4. CASE c.op = "register"
  <2>1. e = c.email /\ e \in Emails /\ account[e] = NoAccount /\ row[r] = NewAccount
    BY <1>1, <1>4, CallFields DEF Email, WritesFit, Current
  <2>2. issued[r] = NoToken /\ Ended(r) = {}
    BY <1>1, <1>2, <1>4 DEF Ended, Sweeps, Revokes
  <2>3. account' = [account EXCEPT ![e] = Atomic!InGoodStanding]
    BY <1>4, <2>1, CommitWritesDecision DEF NewAccount, Atomic!InGoodStanding
  <2>4. Atomic!Register(e)
    BY <1>3, <2>1, <2>2, <2>3 DEF Atomic!Register
  <2> QED BY <2>1, <2>4 DEF Atomic!Next
<1>5. CASE c.op = "login"
  <2>1. LogsIn(r) /\ Ended(r) = {}
    BY <1>1, <1>5 DEF LogsIn, Ended, Sweeps, Revokes
  <2>2. /\ e = c.email /\ e \in Emails /\ seen[r] = account[e] /\ account[e] \in Account
        /\ Atomic!Unlocked(e)
    BY <1>1, <1>5, <2>1, CallFields DEF Email, WritesFit, Current, TypeOK, Atomic!Unlocked
  <2>3. account' = [account EXCEPT ![e] = row[r]]
    BY <1>5, <2>2, CommitWritesDecision
  <2>4. CASE c.correct
    <3> DEFINE n == issued[r]
    <3>1. n \in Tokens /\ token[n] = NoToken
      BY <1>1, <1>2, <1>5, <2>4 DEF Current
    <3>2. row[r] = Atomic!InGoodStanding
      BY <1>1, <1>5, <2>4 DEF WritesFit, Success, Atomic!InGoodStanding
    <3>3. token' = [token EXCEPT ![n] = Atomic!Session(e, NoToken)]
      <4>1. token' = [t \in Tokens |-> IF t = n THEN Atomic!Session(e, NoToken) ELSE token[t]]
        BY <1>5, <2>1, CommitWritesDecision
      <4> QED BY <3>1, <4>1 DEF TypeOK
    <3>4. Atomic!RightPassword(e, n)
      BY <2>2, <2>3, <3>1, <3>2, <3>3 DEF Atomic!RightPassword
    <3> QED BY <2>2, <3>1, <3>4 DEF Atomic!Next
  <2>5. CASE ~c.correct
    <3>1. issued[r] = NoToken
      BY <1>1, <1>5, <2>5 DEF Current
    <3>2. row[r] = Failure(account[e])
      BY <1>1, <1>5, <2>2, <2>5 DEF WritesFit
    <3>3. Atomic!WrongPassword(e)
      BY <1>3, <2>1, <2>2, <2>3, <3>1, <3>2 DEF Atomic!WrongPassword, Failure
    <3> QED BY <2>2, <3>3 DEF Atomic!Next
  <2> QED BY <2>4, <2>5
<1>6. CASE c.op \in {"refresh", "logout", "logout_all"}
  <2>1. account' = account
    BY <1>6, CommitWritesDecision
  <2>2. Decided(r) /\ (Revokes(r) \/ Sweeps(r)) /\ (Sweeps(r) => ~Revokes(r))
    BY <1>1, <1>6 DEF Decided, Revokes, Sweeps
  <2>3. CASE Sweeps(r)
    <3>1. issued[r] = NoToken /\ Ended(r) = Sessions(e) /\ e \in Emails
      BY <1>1, <1>2, <2>2, <2>3, DecidedServes DEF Sweeps, Ended, Current
    <3>2. Atomic!EndSessions(e)
      <4>1. \A t \in Tokens : t \in Ended(r) <=> Atomic!Alive(t) /\ token[t].owner = e
        BY <3>1 DEF Sessions
      <4>2. token' = [t \in Tokens |-> IF Atomic!Alive(t) /\ token[t].owner = e
                                       THEN [token[t] EXCEPT !.revoked = TRUE] ELSE token[t]]
        BY <3>1, <4>1, CommitWithoutIssue
      <4> QED BY <2>1, <4>2 DEF Atomic!EndSessions
    <3>3. CASE c.op = "refresh"
      <4>1. c.token \in Tokens /\ token[c.token] # NoToken /\ token[c.token].revoked
            /\ e = token[c.token].owner
        BY <1>1, <2>2, <2>3, <3>3, DecidedServes DEF Current
      <4>2. Atomic!Reuse(c.token)
        BY <3>2, <4>1 DEF Atomic!Reuse
      <4> QED BY <4>1, <4>2 DEF Atomic!Next
    <3>4. CASE c.op # "refresh"
      <4>1. Atomic!LogOutEverywhere(e)
        BY <1>1, <2>3, <3>2, <3>4 DEF Current, Atomic!LogOutEverywhere
      <4> QED BY <3>1, <4>1 DEF Atomic!Next
    <3> QED BY <3>3, <3>4
  <2>4. CASE Revokes(r)
    <3>1. /\ c.token \in Tokens /\ token[c.token] \in Token /\ e = token[c.token].owner
          /\ c.op \in {"refresh", "logout"} /\ Atomic!Alive(c.token) /\ Ended(r) = {c.token}
      BY <1>1, <2>2, <2>4, DecidedServes DEF Current, Ended
    <3>2. CASE c.op = "logout"
      <4>1. token' = [t \in Tokens |-> IF t = c.token THEN [token[t] EXCEPT !.revoked = TRUE]
                                       ELSE token[t]]
        BY <1>2, <3>1, <3>2, CommitWithoutIssue
      <4>2. token' = [token EXCEPT ![c.token].revoked = TRUE]
        BY <3>1, <4>1 DEF TypeOK
      <4>3. Atomic!LogOut(c.token)
        BY <2>1, <3>1, <4>2 DEF Atomic!LogOut
      <4> QED BY <3>1, <4>3 DEF Atomic!Next
    <3>3. CASE c.op = "refresh"
      <4> DEFINE n == issued[r]
      <4>1. n # NoToken /\ n \in Tokens /\ token[n] = NoToken
        BY <1>1, <1>2, <2>4, <3>3 DEF Revokes
      <4>2. Atomic!Active(token[c.token].owner)
        BY <1>1, <2>4, <3>1, <3>3 DEF Current
      <4>3. token' = [t \in Tokens |->
              IF t = n THEN Atomic!Session(token[c.token].owner, c.token)
              ELSE IF t = c.token THEN [token[t] EXCEPT !.revoked = TRUE, !.successor = n]
              ELSE token[t]]
        BY <3>1, <3>3, <4>1, CommitWritesDecision
      <4>4. Atomic!Exchange(c.token, n)
        BY <2>1, <3>1, <4>1, <4>2, <4>3 DEF Atomic!Exchange
      <4> QED BY <3>1, <4>1, <4>4 DEF Atomic!Next
    <3> QED BY <3>1, <3>2, <3>3
  <2> QED BY <2>2, <2>3, <2>4
<1>7. c.op \in {"register", "login", "refresh", "logout", "logout_all"}
  BY <1>1, CallFields
<1> QED BY <1>4, <1>5, <1>6, <1>7

LEMMA StepIsAtomic ==
  ASSUME IInv, DecisionsStayCurrent, [Next]_vars
  PROVE  [Atomic!Next]_(Atomic!vars)
<1>1. CASE UNCHANGED rows
  BY <1>1 DEF rows, Atomic!vars
<1>2. CASE ~UNCHANGED rows
  <2>1. \/ \E r \in Requests : Commit(r)
        \/ \E e \in Emails : LockoutEnds(e)
        \/ \E t \in Tokens : TokenExpires(t)
    BY <1>2 DEF Next, Step, vars, Refuse, Receive, RegisterCheck, RegisterInsert, LoginRead,
       LoginFlush, TokenRead, UserCheck, Revoke, SweepSelect, SweepRevoke, Fail
  <2>2. ASSUME NEW e \in Emails, LockoutEnds(e) PROVE Atomic!LockoutEnds(e)
    BY <2>2 DEF LockoutEnds, Atomic!LockoutEnds
  <2>3. ASSUME NEW t \in Tokens, TokenExpires(t) PROVE Atomic!TokenExpires(t)
    BY <2>3 DEF TokenExpires, Atomic!TokenExpires, Atomic!Alive
  <2> QED BY <2>1, <2>2, <2>3, CommitIsAtomic DEF Atomic!Next
<1> QED BY <1>1, <1>2

\* The service implements AtomicAuth as long as the requests of an account come
\* one at a time: however requests of different accounts interleave, whatever
\* fails, expires or is lost, accounts and tokens change by whole operations,
\* each allowed in the state it applies to.
THEOREM SequentialRefinement == Spec /\ []OnePerAccount => AtomicAuthSpec
<1>1. Init => Atomic!Init
  BY DEF Init, Atomic!Init
<1>2. IInv /\ DecisionsStayCurrent /\ [Next]_vars => [Atomic!Next]_(Atomic!vars)
  BY StepIsAtomic
<1> QED BY <1>1, <1>2, Invariance, SequentialDecisions, PTL DEF Spec, AtomicAuthSpec, Atomic!Spec

------------------------------------------------------------------------------
(* What holds of the steps of AtomicAuth.                                  *)

\* An account in an atomic step: registered, in good standing again, counted
\* against, past its lock, or as it was.
LEMMA AtomicAccounts ==
  ASSUME TypeOK, [Atomic!Next]_(Atomic!vars), NEW e \in Emails, account'[e] # account[e]
  PROVE  \/ account'[e] = Atomic!InGoodStanding
         \/ account[e] \in Account /\ account'[e] = Failure(account[e])
         \/ /\ account[e] \in Account /\ account[e].until = "ahead"
            /\ account'[e] = [account[e] EXCEPT !.until = "past"]
<1>1. PICK f \in Emails : \/ Atomic!Register(f) \/ Atomic!WrongPassword(f)
                         \/ Atomic!LockoutEnds(f)
                         \/ \E t \in Tokens : Atomic!RightPassword(f, t)
  BY DEF Atomic!Next, Atomic!vars, Atomic!LogOutEverywhere, Atomic!EndSessions, Atomic!LogOut,
         Atomic!Reuse, Atomic!TokenExpires, Atomic!Exchange
<1>2. CASE Atomic!Register(f) \/ \E t \in Tokens : Atomic!RightPassword(f, t)
  <2>1. account' = [account EXCEPT ![f] = Atomic!InGoodStanding]
    BY <1>2 DEF Atomic!Register, Atomic!RightPassword
  <2> QED BY <2>1 DEF TypeOK
<1>3. CASE Atomic!WrongPassword(f)
  <2>1. account[f] \in Account /\ account' = [account EXCEPT ![f] = Failure(account[f])]
    BY <1>3 DEF Atomic!WrongPassword, Atomic!Unlocked, Failure, TypeOK
  <2> QED BY <2>1 DEF TypeOK
<1>4. CASE Atomic!LockoutEnds(f)
  <2>1. /\ account[f] \in Account /\ account[f].until = "ahead"
        /\ account' = [account EXCEPT ![f] = [account[f] EXCEPT !.until = "past"]]
    BY <1>4 DEF Atomic!LockoutEnds, TypeOK
  <2> QED BY <2>1 DEF TypeOK
<1> QED BY <1>1, <1>2, <1>3, <1>4

LEMMA AtomicStepKeepsLockConsistent ==
  ASSUME TypeOK, TypeOK', LockIsConsistent, [Atomic!Next]_(Atomic!vars)
  PROVE  LockIsConsistent'
<1> SUFFICES ASSUME NEW e \in Emails, account'[e] # NoAccount
             PROVE  /\ account'[e].failed >= MaxFailed <=> account'[e].status = "locked"
                    /\ account'[e].status = "locked" <=> account'[e].until # "none"
  BY DEF LockIsConsistent
<1>1. CASE account'[e] = account[e]
  BY <1>1 DEF LockIsConsistent
<1>2. CASE account'[e] = Atomic!InGoodStanding
  BY <1>2, LimitsAssumption DEF Atomic!InGoodStanding
<1>3. CASE account[e] \in Account /\ account'[e] # account[e]
  <2>1. /\ account[e].failed >= MaxFailed <=> account[e].status = "locked"
        /\ account[e].status = "locked" <=> account[e].until # "none"
    BY <1>3, NullsAssumption DEF LockIsConsistent
  <2>2. CASE account'[e] = Failure(account[e])
    BY <1>3, <2>1, <2>2, LimitsAssumption DEF Failure, Account
  <2>3. CASE /\ account[e].until = "ahead"
             /\ account'[e] = [account[e] EXCEPT !.until = "past"]
    BY <1>3, <2>1, <2>3 DEF Account
  <2> QED BY <1>2, <1>3, <2>2, <2>3, AtomicAccounts
<1> QED BY <1>1, <1>2, <1>3, AtomicAccounts

\* Status, counter and locked_until of an account tell the same story, through
\* any sequence of logins, failures, lockouts and crashes, as long as no two
\* requests of the account are open at once (AuthUser, record_failed_login,
\* record_successful_login).
THEOREM SequentialLockouts == Spec /\ []OnePerAccount => []LockIsConsistent
<1>1. Init => LockIsConsistent
  BY DEF Init, LockIsConsistent
<1>2. IInv /\ IInv' /\ DecisionsStayCurrent /\ LockIsConsistent /\ [Next]_vars => LockIsConsistent'
  BY StepIsAtomic, AtomicStepKeepsLockConsistent DEF IInv
<1> QED BY <1>1, <1>2, Invariance, SequentialDecisions, PTL DEF Spec

\* A token in an atomic step is exchanged, or keeps its parent, or is a new
\* session without one.
LEMMA AtomicParents ==
  ASSUME TypeOK, [Atomic!Next]_(Atomic!vars)
  PROVE  \/ \E old, new \in Tokens : Atomic!Exchange(old, new)
         \/ \A t \in Tokens :
              token'[t] # NoToken /\ token'[t].parent # NoToken =>
                token[t] # NoToken /\ token'[t].parent = token[t].parent
<1> SUFFICES ASSUME \A old, new \in Tokens : ~Atomic!Exchange(old, new),
                    NEW t \in Tokens, token'[t] # NoToken, token'[t].parent # NoToken,
                    token'[t] # token[t]
             PROVE  token[t] # NoToken /\ token'[t].parent = token[t].parent
  OBVIOUS
<1>1. CASE \E e \in Emails : Atomic!EndSessions(e)
  <2>1. PICK e \in Emails : Atomic!EndSessions(e)
    BY <1>1
  <2>2. Atomic!Alive(t) /\ token'[t] = [token[t] EXCEPT !.revoked = TRUE]
    BY <2>1 DEF Atomic!EndSessions
  <2> QED BY <2>2 DEF Atomic!Alive, TypeOK, Token
<1>2. CASE \E s \in Tokens : Atomic!LogOut(s) \/ Atomic!TokenExpires(s)
  <2>1. PICK s \in Tokens : Atomic!LogOut(s) \/ Atomic!TokenExpires(s)
    BY <1>2
  <2>2. token[s] # NoToken /\ token[s] \in Token
    BY <2>1 DEF Atomic!LogOut, Atomic!TokenExpires, Atomic!Alive, TypeOK
  <2>3. t = s
    BY <2>1 DEF Atomic!LogOut, Atomic!TokenExpires, TypeOK
  <2>4. \/ token'[s] = [token[s] EXCEPT !.revoked = TRUE]
        \/ token'[s] = [token[s] EXCEPT !.expired = TRUE]
    BY <2>1 DEF Atomic!LogOut, Atomic!TokenExpires, TypeOK
  <2> QED BY <2>2, <2>3, <2>4 DEF Token
<1>3. CASE \E e \in Emails, s \in Tokens : Atomic!RightPassword(e, s)
  <2>1. PICK e \in Emails, s \in Tokens : Atomic!RightPassword(e, s)
    BY <1>3
  <2>2. token'[t] = Atomic!Session(e, NoToken)
    BY <2>1 DEF Atomic!RightPassword, TypeOK
  <2> QED BY <2>2 DEF Atomic!Session
<1>4. \/ \E e \in Emails : Atomic!EndSessions(e)
      \/ \E s \in Tokens : Atomic!LogOut(s) \/ Atomic!TokenExpires(s)
      \/ \E e \in Emails, s \in Tokens : Atomic!RightPassword(e, s)
  <2>1. token' # token
    OBVIOUS
  <2>2. \A s \in Tokens : Atomic!Reuse(s) => \E e \in Emails : Atomic!EndSessions(e)
    BY DEF Atomic!Reuse, TypeOK, Token
  <2> QED BY <2>1, <2>2 DEF Atomic!Next, Atomic!vars, Atomic!Register, Atomic!WrongPassword,
          Atomic!LogOutEverywhere, Atomic!LockoutEnds
<1> QED BY <1>1, <1>2, <1>3, <1>4

LEMMA AtomicStepKeepsSingleUse ==
  ASSUME TypeOK, ExchangeIsAtomic, RotationIsSingleUse, [Atomic!Next]_(Atomic!vars)
  PROVE  RotationIsSingleUse'
<1>1. CASE \E old, new \in Tokens : Atomic!Exchange(old, new)
  <2>1. PICK old \in Tokens, new \in Tokens : Atomic!Exchange(old, new)
    BY <1>1
  <2>2. /\ old \in Tokens /\ new \in Tokens
        /\ token[old] # NoToken /\ ~token[old].revoked /\ token[new] = NoToken /\ old # new
        /\ token[old] \in Token
    BY <2>1 DEF Atomic!Exchange, Atomic!Alive, TypeOK
  <2> DEFINE used == [token[old] EXCEPT !.revoked = TRUE, !.successor = new]
  <2>3. /\ token'[new] = Atomic!Session(token[old].owner, old)
        /\ token'[old] = used
        /\ \A t \in Tokens : t # new /\ t # old => token'[t] = token[t]
    BY <2>1, <2>2 DEF Atomic!Exchange
  <2>4. used.parent = token[old].parent
    BY <2>2 DEF Token
  <2> HIDE DEF used
  <2>5. \A t \in Tokens : t # new /\ token'[t] # NoToken =>
          token[t] # NoToken /\ token'[t].parent = token[t].parent
    BY <2>2, <2>3, <2>4
  <2>6. token'[new].parent = old
    BY <2>3 DEF Atomic!Session
  <2>7. \A t \in Tokens : token[t] # NoToken => token[t].parent # old
    BY <2>2, NullsAssumption DEF ExchangeIsAtomic
  <2> QED BY <2>5, <2>6, <2>7 DEF RotationIsSingleUse
<1>2. CASE \A t \in Tokens :
             token'[t] # NoToken /\ token'[t].parent # NoToken =>
               token[t] # NoToken /\ token'[t].parent = token[t].parent
  BY <1>2 DEF RotationIsSingleUse
<1> QED BY <1>1, <1>2, AtomicParents

\* "Reusing the rotated-out token must now fail": no token is exchanged twice,
\* as long as no two requests of its account are open at once.
THEOREM SequentialRotation == Spec /\ []OnePerAccount => []RotationIsSingleUse
<1>1. Init => RotationIsSingleUse
  BY DEF Init, RotationIsSingleUse
<1>2. IInv /\ DecisionsStayCurrent /\ RotationIsSingleUse /\ [Next]_vars => RotationIsSingleUse'
  BY StepIsAtomic, AtomicStepKeepsSingleUse DEF IInv
<1> QED BY <1>1, <1>2, Invariance, SequentialDecisions, PTL DEF Spec

\* The sweep of logout_all, or of a reused token, ends every session of the
\* account, however its tokens descend from one another, as long as no two
\* requests of the account are open at once (revoke_all_for_user).
THEOREM SequentialSweeps == Spec /\ []OnePerAccount => SweepEndsEverySession
<1>1. IInv /\ DecisionsStayCurrent /\ [Next]_vars => [SweptAll]_vars
  <2> SUFFICES ASSUME IInv, DecisionsStayCurrent, [Next]_vars,
                      NEW r \in Requests, SweepEnds(r),
                      NEW t \in Tokens, token[t] # NoToken, token[t].owner = Email(r)
               PROVE  token'[t].revoked
    BY DEF SweptAll
  <2> USE DEF IInv
  <2>1. Commit(r)
    <3>1. pc[r] = "flushed" /\ pc'[r] = "done" /\ outcome'[r] # "lost"
      BY DEF SweepEnds
    <3>2. PICK q \in Requests : (\E c \in Call : Receive(q, c)) \/ Step(q)
      BY <3>1 DEF Next, vars, requests, LockoutEnds, TokenExpires
    <3>3. q = r
      <4> SUFFICES ASSUME q # r PROVE pc'[r] = pc[r]
        BY <3>1
      <4> QED BY <3>2 DEF Receive, Step, Goto, RegisterCheck, RegisterInsert, LoginRead, LoginFlush,
              TokenRead, UserCheck, Revoke, SweepSelect, SweepRevoke, Commit, Fail, Refuse, Answer,
              TypeOK
    <3>4. ~Fail(r)
      BY <3>1 DEF Fail, Refuse, Answer, TypeOK
    <3> QED BY <3>1, <3>2, <3>3, <3>4, CallIsKnown
            DEF Receive, Step, Done, RegisterCheck, RegisterInsert, LoginRead, LoginFlush,
                TokenRead, UserCheck, Revoke, SweepSelect, SweepRevoke
  <2>2. Sweeps(r) /\ issued[r] = NoToken
    <3>1. PICK o \in {Result(r), "lost"} : Answer(r, o)
      BY <2>1 DEF Commit
    <3>2. pc[r] = "flushed" /\ outcome'[r] = o
      BY <3>1 DEF SweepEnds, Answer, TypeOK
    <3>3. call[r].op = "logout_all" \/ (call[r].op = "refresh" /\ issued[r] = NoToken)
      BY <3>2 DEF SweepEnds, Result
    <3> QED BY <3>2, <3>3 DEF Sweeps, LockHolders
  <2>3. Ended(r) = Sessions(Email(r))
    BY <2>1, <2>2 DEF Ended, DecisionsStayCurrent, Current, Commit
  <2>4. token'[t] = IF t \in Ended(r) THEN [token[t] EXCEPT !.revoked = TRUE] ELSE token[t]
    BY <2>1, <2>2, CommitWithoutIssue
  <2>5. token[t] \in Token
    BY DEF TypeOK
  <2>6. CASE token[t].revoked
    BY <2>4, <2>5, <2>6 DEF Token
  <2>7. CASE ~token[t].revoked
    <3>1. t \in Ended(r)
      BY <2>3, <2>7 DEF Sessions, Atomic!Alive
    <3> QED BY <2>4, <2>5, <3>1 DEF Token
  <2> QED BY <2>6, <2>7
<1> QED BY <1>1, Invariance, SequentialDecisions, PTL DEF Spec, SweepEndsEverySession
==============================================================================
