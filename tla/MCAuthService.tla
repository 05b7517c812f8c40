---------------------------- MODULE MCAuthService ----------------------------
(* Instances of AuthService for TLC. *)
EXTENDS AuthService, TLC

CONSTANTS alice, bob, r1, r2, t1, t2, t3

OneEmail    == {alice}
TwoEmails   == {alice, bob}
OneSlot     == {r1}
TwoSlots    == {r1, r2}
TwoTokens   == {t1, t2}
ThreeTokens == {t1, t2, t3}

\* No request of an account arrives before the last one has ended.
SequentialSpec == Init /\ [][Next /\ OnePerAccount']_vars

\* What became of the requests that ended is no part of these properties.
Underway ==
  <<rows, locks, [r \in Requests |->
      IF pc[r] \in Done THEN {} ELSE {<<pc[r], call[r], seen[r], row[r], swept[r], issued[r]>>}]>>

Guessed(e) == account[e] # NoAccount /\ account[e].failed > 0
Expired(t) == token[t] # NoToken /\ token[t].expired

\* Bounds: one account has wrong passwords to its name, one token expires.
FewTroubles ==
  /\ \A e, f \in Emails : Guessed(e) /\ Guessed(f) => e = f
  /\ \A s, t \in Tokens : Expired(s) /\ Expired(t) => s = t

\* Slots are interchangeable, and so are tokens.
Interchangeable == Permutations(Emails) \union Permutations(Requests) \union Permutations(Tokens)
==============================================================================
