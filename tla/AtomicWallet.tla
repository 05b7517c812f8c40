---------------------------- MODULE AtomicWallet ----------------------------
(***************************************************************************)
(* What the wallet service promises, without requests, locks or            *)
(* transactions: each user has at most one account and an append-only      *)
(* ledger, and every operation happens in one indivisible step on both.    *)
(* WalletService is checked and proved to implement this module.           *)
(***************************************************************************)
EXTENDS Naturals, Sequences

CONSTANTS
  Users,       \* owners of accounts
  Refs,        \* reference ids a client may give a movement
  Amounts,     \* amounts of a movement, in the minor unit
  MaxBalance,  \* the largest balance NUMERIC(19,4) can hold
  NoAccount    \* the user has no account

VARIABLES
  account,     \* account[u]: the status and balance of u's wallet
  ledger       \* ledger[u]: the movements of u's wallet, oldest first

vars == <<account, ledger>>

Init ==
  /\ account = [u \in Users |-> NoAccount]
  /\ ledger  = [u \in Users |-> << >>]

Open(u) ==
  /\ account[u] = NoAccount
  /\ account' = [account EXCEPT ![u] = [status |-> "ACTIVE", balance |-> 0]]
  /\ UNCHANGED ledger

\* Freezing, unfreezing and closing move an account between these statuses;
\* nothing leads out of CLOSED.
Turns == {<<"ACTIVE", "FROZEN">>, <<"FROZEN", "ACTIVE">>, <<"ACTIVE", "CLOSED">>}

SetStatus(u, status) ==
  /\ account[u] # NoAccount
  /\ <<account[u].status, status>> \in Turns
  /\ status = "CLOSED" => account[u].balance = 0
  /\ account' = [account EXCEPT ![u] = [status |-> status, balance |-> account[u].balance]]
  /\ UNCHANGED ledger

\* A movement needs an active account, a fresh reference and a balance that
\* stays within its bounds; account and ledger change together.
Move(u, type, amount, ref) ==
  LET before == account[u].balance
      after  == IF type = "CREDIT" THEN before + amount ELSE before - amount
  IN  /\ account[u] # NoAccount
      /\ account[u].status = "ACTIVE"
      /\ \A i \in 1..Len(ledger[u]) : ledger[u][i].ref # ref
      /\ after \in 0..MaxBalance
      /\ account' = [account EXCEPT ![u] = [status |-> "ACTIVE", balance |-> after]]
      /\ ledger'  = [ledger EXCEPT ![u] =
           Append(@, [type |-> type, amount |-> amount, before |-> before,
                      after |-> after, ref |-> ref])]

Next ==
  \E u \in Users :
    \/ Open(u)
    \/ \E status \in {"ACTIVE", "FROZEN", "CLOSED"} : SetStatus(u, status)
    \/ \E type \in {"CREDIT", "DEBIT"}, amount \in Amounts, ref \in Refs :
         Move(u, type, amount, ref)

Spec == Init /\ [][Next]_vars
=============================================================================
