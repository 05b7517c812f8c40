------------------------------ MODULE AtomicAuth ------------------------------
(***************************************************************************)
(* What auth-service promises as long as the requests of an account do not *)
(* overlap: accounts and refresh tokens changed by indivisible operations, *)
(* without requests, locks or transactions.  AuthService is checked and    *)
(* proved to implement this module under that condition; without it, it    *)
(* does not.                                                               *)
(***************************************************************************)
EXTENDS Naturals

CONSTANTS
  Emails,     \* one account each
  Tokens,     \* refresh tokens
  MaxFailed,  \* as many wrong passwords lock the account
  NoAccount,  \* the email is not registered
  NoToken     \* the token was not issued

VARIABLES
  account,    \* account[e]: status, failed logins and lock of e's account
  token       \* token[t]: whose session t is, and what became of it

vars == <<account, token>>

Init ==
  /\ account = [e \in Emails |-> NoAccount]
  /\ token   = [t \in Tokens |-> NoToken]

InGoodStanding == [status |-> "active", failed |-> 0, until |-> "none"]

Session(e, parent) ==
  [owner |-> e, revoked |-> FALSE, expired |-> FALSE, successor |-> NoToken, parent |-> parent]

Alive(t)  == token[t] # NoToken /\ ~token[t].revoked
Active(e) == account[e] # NoAccount /\ account[e].status = "active"

Register(e) ==
  /\ account[e] = NoAccount
  /\ account' = [account EXCEPT ![e] = InGoodStanding]
  /\ UNCHANGED token

\* Nobody logs in, or guesses, while the lock runs.
Unlocked(e) == account[e] # NoAccount /\ account[e].until # "ahead"

RightPassword(e, t) ==
  /\ Unlocked(e) /\ token[t] = NoToken
  /\ account' = [account EXCEPT ![e] = InGoodStanding]
  /\ token'   = [token EXCEPT ![t] = Session(e, NoToken)]

WrongPassword(e) ==
  LET guesses == account[e].failed + 1
  IN  /\ Unlocked(e)
      /\ account' = [account EXCEPT ![e] =
           IF guesses >= MaxFailed
           THEN [status |-> "locked", failed |-> guesses, until |-> "ahead"]
           ELSE [account[e] EXCEPT !.failed = guesses]]
      /\ UNCHANGED token

\* A live token of an active account is exchanged for a new one, once.
Exchange(old, new) ==
  /\ Alive(old) /\ Active(token[old].owner) /\ token[new] = NoToken
  /\ token' = [t \in Tokens |->
       IF t = new THEN Session(token[old].owner, old)
       ELSE IF t = old THEN [token[t] EXCEPT !.revoked = TRUE, !.successor = new]
       ELSE token[t]]
  /\ UNCHANGED account

LogOut(t) ==
  /\ Alive(t)
  /\ token' = [token EXCEPT ![t].revoked = TRUE]
  /\ UNCHANGED account

\* No session of e survives.
EndSessions(e) ==
  /\ token' = [t \in Tokens |-> IF Alive(t) /\ token[t].owner = e
                                THEN [token[t] EXCEPT !.revoked = TRUE] ELSE token[t]]
  /\ UNCHANGED account

LogOutEverywhere(e) == Active(e) /\ EndSessions(e)

\* Somebody presents a token that was exchanged or logged out.
Reuse(t) == token[t] # NoToken /\ token[t].revoked /\ EndSessions(token[t].owner)

LockoutEnds(e) ==
  /\ account[e] # NoAccount /\ account[e].until = "ahead"
  /\ account' = [account EXCEPT ![e].until = "past"]
  /\ UNCHANGED token

TokenExpires(t) ==
  /\ Alive(t) /\ ~token[t].expired
  /\ token' = [token EXCEPT ![t].expired = TRUE]
  /\ UNCHANGED account

Next ==
  \/ \E e \in Emails : \/ Register(e) \/ WrongPassword(e) \/ LogOutEverywhere(e) \/ LockoutEnds(e)
                       \/ \E t \in Tokens : RightPassword(e, t)
  \/ \E t \in Tokens : \/ LogOut(t) \/ Reuse(t) \/ TokenExpires(t)
                       \/ \E new \in Tokens : Exchange(t, new)

Spec == Init /\ [][Next]_vars
===============================================================================
