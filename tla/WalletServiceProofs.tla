------------------------- MODULE WalletServiceProofs -------------------------
(***************************************************************************)
(* Proofs about WalletService, for any users, request slots, reference ids *)
(* and amounts: IInv is inductive, so that every safety property of the    *)
(* runs holds; no update is lost; every step is a step of AtomicWallet.    *)
(*                                                                         *)
(* Three lemmas carry the induction, one per way a step can end: r is      *)
(* answered without writing, r goes on inside its transaction, r commits.  *)
(***************************************************************************)
EXTENDS WalletService, TLAPS

\* The user of a call is one of the users.
LEMMA CallUser ==
  ASSUME NEW c \in Call
  PROVE  c.user \in Users
BY DEF Call, LifecycleCall, MoneyCall

\* Amounts are positive whole numbers and balances natural ones.
LEMMA MoneyIsNat ==
  /\ \A a \in Amounts : a \in Nat /\ a > 0
  /\ \A b \in Balances : b \in Nat
<1>1. \A a \in Amounts : a \in Nat /\ a # 0
  BY AmountsAssumption
<1>2. \A b \in Balances : b \in Nat
  BY BoundsAssumption DEF Balances
<1> QED BY <1>1, <1>2

\* A transaction that holds a lock keeps every other one off the same user:
\* the row and the index key of its user are its own.
LEMMA Exclusion ==
  ASSUME IInv, NEW r \in Requests, NEW q \in Requests, q # r,
         pc[r] \notin Done, pc[q] \notin Done,
         lock[User(r)] \in {r, Free}, InTransaction(q)
  PROVE  User(q) # User(r)
BY NullsAssumption DEF IInv, LockHolders

\* A request that is answered without writing, whatever it was doing, leaves the
\* invariant: it gives back its lock, and an entry it shows is committed.
LEMMA AnswerPreserves ==
  ASSUME IInv, NEW r \in Requests, pc[r] \notin Done,
         NEW o \in Outcomes, o # "concurrency_conflict",
         NEW w \in Wallet \union {NoWallet}, NEW e \in Entry \union {NoEntry},
         o = "ok" /\ call[r].op \in MoneyOps =>
           \E i \in Prior(r) : e = ledger[User(r)][i],
         Answer(r, o, w, e), UNCHANGED <<wallet, ledger>>
  PROVE  IInv'
<1> USE DEF IInv
<1> User(r) \in Users
  BY CallUser DEF TypeOK, LabelFits, Done, User
<1>1. /\ \A q \in Requests : q # r => /\ pc'[q] = pc[q] /\ row'[q] = row[q]
                                      /\ entry'[q] = entry[q] /\ outcome'[q] = outcome[q]
      /\ pc'[r] = "done" /\ row'[r] = w /\ entry'[r] = e /\ outcome'[r] = o
      /\ call' = call /\ wallet' = wallet /\ ledger' = ledger
  BY DEF Answer, TypeOK
<1>2. \A q \in Requests : (User(q) = User(q)' /\ Prior(q) = Prior(q)')
  BY <1>1 DEF User, Prior
<1>3. TypeOK'
  <2>1. pc' \in [Requests -> Labels] /\ outcome' \in [Requests -> Outcomes]
        /\ row' \in [Requests -> Wallet \union {NoWallet}]
        /\ entry' \in [Requests -> Entry \union {NoEntry}]
    BY DEF Answer, TypeOK, Labels, Done
  <2>2. lock' \in [Users -> Requests \union {Free}]
    BY DEF Answer, ReleaseLock, TypeOK
  <2>3. \A q \in Requests : LabelFits(q)'
    BY <1>1 DEF TypeOK, LabelFits, Done
  <2> QED BY <1>1, <2>1, <2>2, <2>3 DEF TypeOK
<1>4. LockHolders'
  <2>1. ASSUME NEW q \in Requests, InTransaction(q)'  PROVE lock'[User(q)'] = q
    <3>1. q # r /\ InTransaction(q)
      BY <1>1, <2>1 DEF InTransaction, Locking
    <3>2. lock[User(q)] = q /\ User(q) \in Users
      BY <3>1, CallUser DEF LockHolders, TypeOK, LabelFits, Locking, InTransaction, User
    <3> QED BY <1>2, <3>1, <3>2 DEF Answer, ReleaseLock, TypeOK
  <2>2. ASSUME NEW u \in Users, lock'[u] # Free
        PROVE  InTransaction(lock[u])' /\ User(lock[u])' = u
    <3>1. lock'[u] = lock[u] /\ lock[u] \in Requests /\ InTransaction(lock[u]) /\ User(lock[u]) = u
      BY <2>2 DEF Answer, ReleaseLock, TypeOK, LockHolders
    <3>2. lock[u] # r
      BY <2>2, <3>1 DEF Answer, ReleaseLock, TypeOK
    <3> QED BY <1>1, <3>1, <3>2 DEF InTransaction, User
  <2> QED BY <2>1, <2>2 DEF LockHolders
<1>5. TransactionIsCurrent'
  BY <1>1, <1>2 DEF TransactionIsCurrent, RequestIsCurrent, MovementIsCurrent, StatusIsCurrent
<1>6. LedgerReconstructsBalance' /\ ReferenceAppliedOnce' /\ ClosedWalletIsEmpty'
  BY <1>1 DEF LedgerReconstructsBalance, ReferenceAppliedOnce, ClosedWalletIsEmpty
<1>7. AnsweredMovementIsDurable'
  BY <1>1, <1>2 DEF AnsweredMovementIsDurable
<1>8. DefenceInDepthIsNeverNeeded'
  BY <1>1, <1>2 DEF DefenceInDepthIsNeverNeeded
<1> QED BY <1>3, <1>4, <1>5, <1>6, <1>7, <1>8

\* A request that goes on inside its transaction, keeping or taking the lock,
\* preserves the invariant if its own part of it holds afterwards: only its own
\* label, copy and entry change, nothing committed does.
LEMMA AdvancePreserves ==
  ASSUME IInv, NEW r \in Requests, pc[r] \notin Done,
         NEW label \in Locking, lock[User(r)] \in {r, Free},
         NEW w \in Wallet \union {NoWallet}, NEW e \in Entry \union {NoEntry},
         Goto(r, label), lock' = [lock EXCEPT ![User(r)] = r],
         row' = [row EXCEPT ![r] = w], entry' = [entry EXCEPT ![r] = e],
         UNCHANGED <<wallet, ledger, call, outcome>>,
         LabelFits(r)', RequestIsCurrent(r)'
  PROVE  IInv'
<1> USE DEF IInv
<1> User(r) \in Users
  BY CallUser DEF TypeOK, LabelFits, Done, User
<1>1. /\ \A q \in Requests : q # r => /\ pc'[q] = pc[q] /\ row'[q] = row[q]
                                      /\ entry'[q] = entry[q]
      /\ pc'[r] = label /\ row'[r] = w /\ entry'[r] = e
  BY DEF Goto, TypeOK
<1>2. \A q \in Requests : (User(q) = User(q)' /\ Prior(q) = Prior(q)')
  BY DEF User, Prior
<1>3. TypeOK'
  <2>1. pc' \in [Requests -> Labels]
    BY DEF Goto, TypeOK, Labels
  <2>2. lock' \in [Users -> Requests \union {Free}]
        /\ row' \in [Requests -> Wallet \union {NoWallet}]
        /\ entry' \in [Requests -> Entry \union {NoEntry}]
    BY DEF TypeOK
  <2>3. \A q \in Requests : LabelFits(q)'
    BY <1>1 DEF TypeOK, LabelFits
  <2> QED BY <2>1, <2>2, <2>3 DEF TypeOK
<1>4. LockHolders'
  <2>1. ASSUME NEW q \in Requests, q # r, InTransaction(q)  PROVE User(q) # User(r)
    BY <2>1, Exclusion DEF InTransaction, Locking, Done
  <2>2. ASSUME NEW q \in Requests, InTransaction(q)'  PROVE lock'[User(q)'] = q
    <3>1. CASE q = r
      BY <3>1, <1>2 DEF TypeOK
    <3>2. CASE q # r
      <4>1. InTransaction(q) /\ lock[User(q)] = q /\ User(q) \in Users
        BY <1>1, <2>2, <3>2, CallUser
        DEF LockHolders, TypeOK, LabelFits, Locking, InTransaction, User
      <4> QED BY <1>2, <2>1, <3>2, <4>1 DEF TypeOK
    <3> QED BY <3>1, <3>2
  <2>3. ASSUME NEW u \in Users, lock'[u] # Free
        PROVE  InTransaction(lock[u])' /\ User(lock[u])' = u
    <3>1. CASE u = User(r)
      BY <1>1, <3>1 DEF TypeOK, InTransaction, User
    <3>2. CASE u # User(r)
      <4>1. lock'[u] = lock[u] /\ lock[u] \in Requests /\ InTransaction(lock[u]) /\ User(lock[u]) = u
        BY <2>3, <3>2 DEF TypeOK, LockHolders
      <4> QED BY <1>1, <3>2, <4>1 DEF InTransaction, User
    <3> QED BY <3>1, <3>2
  <2> QED BY <2>2, <2>3 DEF LockHolders
<1>5. TransactionIsCurrent'
  BY <1>1, <1>2 DEF TransactionIsCurrent, RequestIsCurrent, MovementIsCurrent, StatusIsCurrent
<1>6. LedgerReconstructsBalance' /\ ReferenceAppliedOnce' /\ ClosedWalletIsEmpty'
  BY DEF LedgerReconstructsBalance, ReferenceAppliedOnce, ClosedWalletIsEmpty
<1>7. AnsweredMovementIsDurable'
  BY <1>1, <1>2 DEF AnsweredMovementIsDurable, Locking
<1>8. DefenceInDepthIsNeverNeeded'
  BY <1>1, <1>2 DEF DefenceInDepthIsNeverNeeded, RequestIsCurrent, MovementIsCurrent
<1> QED BY <1>3, <1>4, <1>5, <1>6, <1>7, <1>8

\* What a transaction in "written" has prepared is well formed, and appending a
\* movement to the ledger keeps the chain and the references distinct.
LEMMA PendingIsTyped ==
  ASSUME IInv, NEW r \in Requests, pc[r] = "written"
  PROVE  /\ User(r) \in Users /\ row[r] \in Wallet /\ lock[User(r)] = r
         /\ call[r].op \in MoneyOps => MovementIsCurrent(r) /\ entry[r] # NoEntry
         /\ call[r].op \in StatusOps => StatusIsCurrent(r)
         /\ call[r].op \notin MoneyOps => entry[r] = NoEntry
<1> USE DEF IInv
<1>1. call[r] \in Call /\ call[r].op # "get" /\ User(r) \in Users
  BY CallUser DEF TypeOK, LabelFits, User
<1>2. call[r].op \in MoneyOps \union StatusOps \union {"create"}
  BY <1>1 DEF Call, LifecycleCall, MoneyCall
<1>3. RequestIsCurrent(r) /\ lock[User(r)] = r
  BY DEF TransactionIsCurrent, LockHolders, InTransaction, Locking
<1>4. CASE call[r].op \in MoneyOps
  <2>1. MovementIsCurrent(r)
    BY <1>3, <1>4 DEF RequestIsCurrent
  <2>2. wallet[User(r)] \in Wallet /\ entry[r] \in Entry
    BY <1>1, <2>1 DEF TypeOK, MovementIsCurrent
  <2>3. row[r] \in Wallet
    BY <2>1, <2>2 DEF MovementIsCurrent, Wallet, Entry, Statuses
  <2> QED BY <1>1, <1>3, <1>4, <2>1, <2>2, <2>3, NullsAssumption DEF MoneyOps, StatusOps
<1>5. CASE call[r].op \in StatusOps
  <2>1. StatusIsCurrent(r) /\ entry[r] = NoEntry
    BY <1>3, <1>5 DEF RequestIsCurrent, StatusIsCurrent
  <2>2. wallet[User(r)] \in Wallet
    BY <1>1, <2>1 DEF TypeOK, StatusIsCurrent
  <2>3. NewStatus(call[r].op) \in Statuses
    BY <1>5 DEF NewStatus, Statuses, StatusOps
  <2>4. row[r] \in Wallet
    BY <2>1, <2>2, <2>3 DEF StatusIsCurrent, Wallet
  <2> QED BY <1>1, <1>3, <1>5, <2>1, <2>4 DEF MoneyOps, StatusOps
<1>6. CASE call[r].op = "create"
  <2>1. row[r] = NewWallet /\ entry[r] = NoEntry
    BY <1>3, <1>6 DEF RequestIsCurrent
  <2>2. NewWallet \in Wallet
    BY BoundsAssumption DEF NewWallet, Wallet, Statuses, Balances
  <2> QED BY <1>1, <1>3, <1>6, <2>1, <2>2 DEF MoneyOps, StatusOps
<1> QED BY <1>2, <1>4, <1>5, <1>6

\* COMMIT: the prepared row and entry become the committed ones, and every other
\* transaction, being on other users, is as current as before.
LEMMA CommitPreserves ==
  ASSUME IInv, NEW r \in Requests, Commit(r)
  PROVE  IInv'
<1> USE DEF IInv
<1> DEFINE u0 == User(r)
<1>1. /\ pc[r] = "written" /\ u0 \in Users /\ row[r] \in Wallet /\ lock[u0] = r
      /\ call[r].op \in MoneyOps => MovementIsCurrent(r) /\ entry[r] # NoEntry
      /\ call[r].op \in StatusOps => StatusIsCurrent(r)
      /\ call[r].op \notin MoneyOps => entry[r] = NoEntry
  BY PendingIsTyped DEF Commit
<1>2. PICK o \in {"ok", "lost"}, w \in {row[r], NoWallet}, e \in {entry[r], NoEntry} :
        Answer(r, o, w, e) /\ (o = "ok" => w = row[r] /\ e = entry[r])
  BY DEF Commit
<1>3. /\ \A q \in Requests : q # r => /\ pc'[q] = pc[q] /\ row'[q] = row[q]
                                      /\ entry'[q] = entry[q] /\ outcome'[q] = outcome[q]
      /\ pc'[r] = "done" /\ row'[r] = w /\ entry'[r] = e /\ outcome'[r] = o
      /\ call' = call
  BY <1>2 DEF Answer, TypeOK
<1>4. /\ \A u \in Users : u # u0 => wallet'[u] = wallet[u] /\ ledger'[u] = ledger[u]
      /\ wallet'[u0] = row[r]
      /\ ledger'[u0] = IF call[r].op \in MoneyOps THEN Append(ledger[u0], entry[r]) ELSE ledger[u0]
  BY <1>1 DEF Commit, TypeOK
<1>5. TypeOK'
  <2>1. pc' \in [Requests -> Labels] /\ outcome' \in [Requests -> Outcomes]
        /\ row' \in [Requests -> Wallet \union {NoWallet}]
        /\ entry' \in [Requests -> Entry \union {NoEntry}]
    BY <1>1, <1>2 DEF Answer, TypeOK, Labels, Done, Outcomes
  <2>2. lock' \in [Users -> Requests \union {Free}]
    BY <1>2 DEF Answer, ReleaseLock, TypeOK
  <2>3. wallet' \in [Users -> Wallet \union {NoWallet}]
    BY <1>1 DEF Commit, TypeOK
  <2>4. ledger' \in [Users -> Seq(Entry)]
    <3>1. entry[r] \in Entry \union {NoEntry} /\ ledger[u0] \in Seq(Entry)
      BY <1>1 DEF TypeOK
    <3>2. entry[r] # NoEntry => Append(ledger[u0], entry[r]) \in Seq(Entry)
      BY <3>1
    <3> QED BY <3>2 DEF Commit, TypeOK
  <2>5. ASSUME NEW q \in Requests PROVE LabelFits(q)'
    <3>1. LabelFits(q) /\ LabelFits(r)
      BY DEF TypeOK
    <3>2. CASE q = r
      BY <1>1, <1>3, <3>1, <3>2 DEF LabelFits
    <3>3. CASE q # r
      BY <1>3, <3>1, <3>3 DEF LabelFits
    <3> QED BY <3>2, <3>3
  <2> QED BY <1>3, <2>1, <2>2, <2>3, <2>4, <2>5 DEF TypeOK
<1>6. \A q \in Requests : q # r /\ InTransaction(q) => User(q) # u0 /\ User(q) \in Users
  <2> TAKE q \in Requests
  <2> HAVE q # r /\ InTransaction(q)
  <2>1. User(q) # u0
    BY <1>1, Exclusion DEF InTransaction, Locking, Done
  <2>2. User(q) \in Users
    BY CallUser DEF TypeOK, LabelFits, InTransaction, Locking, User
  <2> QED BY <2>1, <2>2
<1>7. \A q \in Requests : User(q)' = User(q)
  BY <1>3 DEF User
<1>8. LockHolders'
  <2>1. ASSUME NEW q \in Requests, InTransaction(q)'  PROVE lock'[User(q)'] = q
    <3>1. q # r /\ InTransaction(q)
      BY <1>3, <2>1 DEF InTransaction, Locking
    <3> QED BY <1>2, <1>6, <1>7, <3>1 DEF Answer, ReleaseLock, TypeOK, LockHolders
  <2>2. ASSUME NEW u \in Users, lock'[u] # Free
        PROVE  InTransaction(lock[u])' /\ User(lock[u])' = u
    <3>1. lock'[u] = lock[u] /\ lock[u] \in Requests /\ InTransaction(lock[u]) /\ User(lock[u]) = u
      BY <1>2, <2>2 DEF Answer, ReleaseLock, TypeOK, LockHolders
    <3>2. lock[u] # r
      BY <1>2, <2>2, <3>1 DEF Answer, ReleaseLock, TypeOK
    <3> QED BY <1>3, <3>1, <3>2 DEF InTransaction, User
  <2> QED BY <2>1, <2>2 DEF LockHolders
<1>9. TransactionIsCurrent'
  <2> SUFFICES ASSUME NEW q \in Requests PROVE RequestIsCurrent(q)'
    BY DEF TransactionIsCurrent
  <2>1. CASE InTransaction(q)'
    <3>1. q # r /\ InTransaction(q)
      BY <1>3, <2>1 DEF InTransaction, Locking
    <3>2. wallet'[User(q)] = wallet[User(q)] /\ ledger'[User(q)] = ledger[User(q)]
      BY <1>4, <1>6, <3>1
    <3>3. Prior(q)' = Prior(q)
      BY <1>3, <1>7, <3>2 DEF Prior
    <3> QED BY <1>3, <1>7, <3>1, <3>2, <3>3
            DEF TransactionIsCurrent, RequestIsCurrent, MovementIsCurrent, StatusIsCurrent
  <2>2. CASE ~InTransaction(q)'
    BY <2>2 DEF RequestIsCurrent, InTransaction, Locking
  <2> QED BY <2>1, <2>2
<1>10. LedgerReconstructsBalance'
  <2> SUFFICES ASSUME NEW u \in Users
      PROVE  LET es == ledger'[u]
             IN  /\ \A i \in 1..Len(es) :
                      /\ es[i].before = IF i = 1 THEN 0 ELSE es[i - 1].after
                      /\ es[i].after = IF es[i].type = "CREDIT" THEN es[i].before + es[i].amount
                                      ELSE es[i].before - es[i].amount
                 /\ wallet'[u] = NoWallet => es = << >>
                 /\ wallet'[u] # NoWallet =>
                      wallet'[u].balance = IF es = << >> THEN 0 ELSE es[Len(es)].after
    BY DEF LedgerReconstructsBalance
  <2>1. CASE u # u0
    BY <1>4, <2>1 DEF LedgerReconstructsBalance
  <2>2. CASE u = u0 /\ call[r].op \in MoneyOps
    <3> DEFINE es == ledger[u0]
               n  == Len(es)
               ex == entry[r]
    <3>1. MovementIsCurrent(r) /\ wallet'[u] = row[r] /\ ledger'[u] = Append(es, ex)
      BY <1>1, <1>4, <2>2
    <3>2. es \in Seq(Entry) /\ n \in Nat /\ ex \in Entry
      BY <1>1, <3>1 DEF TypeOK, MovementIsCurrent
    <3>3. /\ Len(Append(es, ex)) = n + 1
          /\ \A i \in 1..n : Append(es, ex)[i] = es[i]
          /\ Append(es, ex)[n + 1] = ex
          /\ Append(es, ex) # << >>
      BY <3>2
    <3>4. /\ ex.before = IF n = 0 THEN 0 ELSE es[n].after
          /\ ex.after = IF ex.type = "CREDIT" THEN ex.before + ex.amount ELSE ex.before - ex.amount
      <4>1. wallet[u0] # NoWallet /\ ex = NewEntry(call[r], wallet[u0].balance)
        BY <3>1 DEF MovementIsCurrent
      <4>2. ex.before = wallet[u0].balance
        BY <4>1 DEF NewEntry
      <4>3. wallet[u0].balance = IF es = << >> THEN 0 ELSE es[n].after
        BY <1>1, <4>1 DEF LedgerReconstructsBalance
      <4>4. (n = 0) <=> (es = << >>)
        BY <3>2
      <4> HIDE DEF es, n, ex
      <4> QED BY <2>2, <4>1, <4>2, <4>3, <4>4 DEF NewEntry, MoneyOps
    <3>5. row[r] # NoWallet /\ row[r].balance = ex.after
      BY <1>1, <3>1, NullsAssumption DEF MovementIsCurrent
    <3>6. \A i \in 1..n : /\ es[i].before = IF i = 1 THEN 0 ELSE es[i - 1].after
                          /\ es[i].after = IF es[i].type = "CREDIT" THEN es[i].before + es[i].amount
                                          ELSE es[i].before - es[i].amount
      BY <1>1 DEF LedgerReconstructsBalance
    <3> HIDE DEF es, n, ex
    <3> QED BY <3>1, <3>2, <3>3, <3>4, <3>5, <3>6
  <2>3. CASE u = u0 /\ call[r].op \in StatusOps
    <3>1. wallet[u] # NoWallet /\ row[r].balance = wallet[u].balance
      BY <1>1, <2>3 DEF StatusIsCurrent
    <3> QED BY <1>1, <1>4, <2>3, <3>1, NullsAssumption
            DEF LedgerReconstructsBalance, MoneyOps, StatusOps
  <2>4. CASE u = u0 /\ call[r].op \notin MoneyOps \union StatusOps
    <3>1. wallet[u] = NoWallet /\ row[r] = NewWallet
      <4>1. call[r].op = "create"
        BY <1>1, <2>4 DEF TypeOK, LabelFits, Call, LifecycleCall, MoneyCall
      <4> QED BY <1>1, <2>4, <4>1 DEF TransactionIsCurrent, RequestIsCurrent
    <3> QED BY <1>1, <1>4, <2>4, <3>1, NullsAssumption DEF LedgerReconstructsBalance, NewWallet
  <2> QED BY <2>1, <2>2, <2>3, <2>4
<1>11. ReferenceAppliedOnce'
  <2> SUFFICES ASSUME NEW u \in Users, NEW i \in 1..Len(ledger'[u]), NEW j \in 1..Len(ledger'[u]),
                      ledger'[u][i].ref = ledger'[u][j].ref
               PROVE  i = j
    BY DEF ReferenceAppliedOnce
  <2>1. CASE u # u0 \/ call[r].op \notin MoneyOps
    BY <1>1, <1>4, <2>1 DEF ReferenceAppliedOnce
  <2>2. CASE u = u0 /\ call[r].op \in MoneyOps
    <3> DEFINE es == ledger[u0]
               n  == Len(es)
               ex == entry[r]
    <3>1. ledger'[u] = Append(es, ex) /\ MovementIsCurrent(r)
      BY <1>1, <1>4, <2>2
    <3>2. es \in Seq(Entry) /\ ex \in Entry
      BY <1>1, <3>1 DEF TypeOK, MovementIsCurrent
    <3>3. /\ Len(Append(es, ex)) = n + 1 /\ n \in Nat
          /\ \A k \in 1..n : Append(es, ex)[k] = es[k]
          /\ Append(es, ex)[n + 1] = ex
      BY <3>2
    <3>4. \A k \in 1..n : es[k].ref # ex.ref
      BY <3>1 DEF MovementIsCurrent, Prior, NewEntry
    <3>5. \A k, l \in 1..n : es[k].ref = es[l].ref => k = l
      BY <1>1 DEF ReferenceAppliedOnce
    <3> HIDE DEF es, n, ex
    <3> QED BY <3>1, <3>3, <3>4, <3>5
  <2> QED BY <2>1, <2>2
<1>12. ClosedWalletIsEmpty'
  <2> SUFFICES ASSUME NEW u \in Users, wallet'[u] # NoWallet, wallet'[u].status = "CLOSED"
               PROVE  wallet'[u].balance = 0
    BY DEF ClosedWalletIsEmpty
  <2>1. CASE u # u0
    BY <1>4, <2>1 DEF ClosedWalletIsEmpty
  <2>2. CASE u = u0 /\ call[r].op \in MoneyOps
    BY <1>1, <1>4, <2>2 DEF MovementIsCurrent
  <2>3. CASE u = u0 /\ call[r].op \in StatusOps
    BY <1>1, <1>4, <2>3 DEF StatusIsCurrent, Refusal, NewStatus, StatusOps
  <2>4. CASE u = u0 /\ call[r].op \notin MoneyOps \union StatusOps
    <3>1. call[r].op = "create"
      BY <1>1, <2>4 DEF TypeOK, LabelFits, Call, LifecycleCall, MoneyCall
    <3>2. row[r] = NewWallet
      BY <1>1, <3>1 DEF TransactionIsCurrent, RequestIsCurrent
    <3> QED BY <1>4, <2>4, <3>2 DEF NewWallet
  <2> QED BY <2>1, <2>2, <2>3, <2>4
<1>13. AnsweredMovementIsDurable'
  <2> SUFFICES ASSUME NEW q \in Requests, pc'[q] = "done", outcome'[q] = "ok",
                      call[q].op \in MoneyOps
               PROVE  \E i \in 1..Len(ledger'[User(q)]) :
                        /\ ledger'[User(q)][i].ref = call[q].ref
                        /\ entry'[q] = ledger'[User(q)][i]
    BY <1>3, <1>7 DEF AnsweredMovementIsDurable, Prior
  <2>1. User(q) \in Users
    BY <1>1, <1>3, CallUser DEF TypeOK, LabelFits, User
  <2>2. CASE q # r
    <3>1. PICK i \in 1..Len(ledger[User(q)]) :
            ledger[User(q)][i].ref = call[q].ref /\ entry[q] = ledger[User(q)][i]
      BY <1>3, <2>2 DEF AnsweredMovementIsDurable, Prior
    <3>2. i \in 1..Len(ledger'[User(q)]) /\ ledger'[User(q)][i] = ledger[User(q)][i]
      <4>1. CASE ledger'[User(q)] = ledger[User(q)]
        BY <4>1
      <4>2. CASE User(q) = u0 /\ call[r].op \in MoneyOps
        <5>1. ledger[u0] \in Seq(Entry) /\ entry[r] \in Entry
          BY <1>1, <4>2 DEF TypeOK, MovementIsCurrent
        <5> QED BY <1>4, <2>1, <4>2, <5>1
      <4> QED BY <1>1, <1>4, <2>1, <4>1, <4>2
    <3> QED BY <1>3, <2>2, <3>1, <3>2
  <2>3. CASE q = r
    <3>1. MovementIsCurrent(r) /\ e = entry[r] /\ ledger'[u0] = Append(ledger[u0], entry[r])
      BY <1>1, <1>2, <1>3, <1>4, <2>3
    <3>2. ledger[u0] \in Seq(Entry) /\ entry[r] \in Entry
      BY <1>1, <3>1 DEF TypeOK, MovementIsCurrent
    <3>3. entry[r].ref = call[r].ref
      BY <3>1 DEF MovementIsCurrent, NewEntry
    <3> DEFINE n == Len(ledger[u0]) + 1
    <3>4. n \in 1..Len(ledger'[u0]) /\ ledger'[u0][n] = entry[r]
      BY <3>1, <3>2
    <3> QED BY <1>3, <2>3, <3>1, <3>3, <3>4
  <2> QED BY <2>2, <2>3
<1>14. DefenceInDepthIsNeverNeeded'
  <2> SUFFICES ASSUME NEW q \in Requests
               PROVE  outcome'[q] # "concurrency_conflict" /\ (pc'[q] = "updated" => Prior(q)' = {})
    BY DEF DefenceInDepthIsNeverNeeded
  <2>1. outcome'[q] # "concurrency_conflict"
    BY <1>3 DEF DefenceInDepthIsNeverNeeded
  <2>2. pc'[q] = "updated" => Prior(q)' = {}
    BY <1>9 DEF TransactionIsCurrent, RequestIsCurrent, MovementIsCurrent
  <2> QED BY <2>1, <2>2
<1> QED BY <1>5, <1>8, <1>9, <1>10, <1>11, <1>12, <1>13, <1>14

------------------------------------------------------------------------------
(* One lemma per action.                                                   *)

\* An error answer or a failure.
LEMMA RefusePreserves ==
  ASSUME IInv, NEW r \in Requests, pc[r] \notin Done,
         NEW o \in Outcomes \ {"ok", "concurrency_conflict"}, Refuse(r, o)
  PROVE  IInv'
BY AnswerPreserves DEF Refuse

\* A new request in a slot nobody holds a lock from.
LEMMA ReceivePreserves ==
  ASSUME IInv, NEW r \in Requests, NEW c \in Call, Receive(r, c)
  PROVE  IInv'
<1> USE DEF IInv
<1>1. /\ \A q \in Requests : q # r => /\ pc'[q] = pc[q] /\ call'[q] = call[q] /\ row'[q] = row[q]
                                      /\ entry'[q] = entry[q] /\ outcome'[q] = outcome[q]
      /\ pc'[r] = "received" /\ call'[r] = c /\ entry'[r] = NoEntry /\ outcome'[r] = "none"
      /\ pc[r] \in Done /\ wallet' = wallet /\ ledger' = ledger /\ lock' = lock
  BY DEF Receive, Goto, TypeOK
<1>2. TypeOK'
  <2>1. /\ pc' \in [Requests -> Labels] /\ call' \in [Requests -> Call \union {NoCall}]
        /\ row' \in [Requests -> Wallet \union {NoWallet}]
        /\ entry' \in [Requests -> Entry \union {NoEntry}]
        /\ outcome' \in [Requests -> Outcomes]
    BY DEF Receive, Goto, TypeOK, Labels, Outcomes
  <2>2. \A q \in Requests : LabelFits(q)'
    BY <1>1 DEF TypeOK, LabelFits
  <2> QED BY <1>1, <2>1, <2>2 DEF TypeOK
<1>3. \A q \in Requests : InTransaction(q)' => q # r /\ InTransaction(q)
  BY <1>1 DEF InTransaction, Locking
<1>4. LockHolders'
  <2>1. \A q \in Requests : InTransaction(q)' => lock'[User(q)'] = q
    BY <1>1, <1>3 DEF LockHolders, User
  <2>2. ASSUME NEW u \in Users, lock'[u] # Free
        PROVE  InTransaction(lock[u])' /\ User(lock[u])' = u
    <3>1. lock[u] \in Requests /\ InTransaction(lock[u]) /\ User(lock[u]) = u
      BY <1>1, <2>2 DEF TypeOK, LockHolders
    <3>2. lock[u] # r
      BY <1>1, <3>1 DEF InTransaction, Locking, Done
    <3> QED BY <1>1, <3>1, <3>2 DEF InTransaction, User
  <2> QED BY <2>1, <2>2 DEF LockHolders
<1>5. TransactionIsCurrent'
  <2> SUFFICES ASSUME NEW q \in Requests PROVE RequestIsCurrent(q)'
    BY DEF TransactionIsCurrent
  <2>1. CASE q = r
    BY <1>1, <2>1 DEF RequestIsCurrent
  <2>2. CASE q # r
    BY <1>1, <2>2
    DEF TransactionIsCurrent, RequestIsCurrent, MovementIsCurrent, StatusIsCurrent, User, Prior
  <2> QED BY <2>1, <2>2
<1>6. LedgerReconstructsBalance' /\ ReferenceAppliedOnce' /\ ClosedWalletIsEmpty'
  BY <1>1 DEF LedgerReconstructsBalance, ReferenceAppliedOnce, ClosedWalletIsEmpty
<1>7. AnsweredMovementIsDurable'
  <2> SUFFICES ASSUME NEW q \in Requests, pc'[q] = "done", outcome'[q] = "ok",
                      call'[q].op \in MoneyOps
               PROVE  \E i \in Prior(q)' : entry'[q] = ledger'[User(q)'][i]
    BY DEF AnsweredMovementIsDurable
  <2>1. q # r
    BY <1>1
  <2>2. Prior(q)' = Prior(q) /\ User(q)' = User(q)
    BY <1>1, <2>1 DEF User, Prior
  <2> QED BY <1>1, <2>1, <2>2 DEF AnsweredMovementIsDurable
<1>8. DefenceInDepthIsNeverNeeded'
  BY <1>1 DEF DefenceInDepthIsNeverNeeded, User, Prior
<1> QED BY <1>2, <1>4, <1>5, <1>6, <1>7, <1>8

\* get_wallet only reads.
LEMMA GetWalletPreserves ==
  ASSUME IInv, NEW r \in Requests, GetWallet(r)
  PROVE  IInv'
<1>1. pc[r] \notin Done /\ call[r].op \notin MoneyOps /\ User(r) \in Users
  BY CallUser DEF GetWallet, Done, MoneyOps, IInv, TypeOK, LabelFits, User
<1>2. CASE wallet[User(r)] = NoWallet
  BY <1>1, <1>2, RefusePreserves DEF GetWallet, Outcomes
<1>3. CASE wallet[User(r)] # NoWallet
  <2>1. wallet[User(r)] \in Wallet
    BY <1>1, <1>3 DEF IInv, TypeOK
  <2>2. Answer(r, "ok", wallet[User(r)], NoEntry) /\ UNCHANGED <<wallet, ledger>>
    BY <1>3 DEF GetWallet, Reply
  <2> QED BY <1>1, <2>1, <2>2, AnswerPreserves DEF Outcomes
<1> QED BY <1>2, <1>3

\* The pre-check of create_wallet decides nothing for good: it takes no lock.
LEMMA CreatePreCheckPreserves ==
  ASSUME IInv, NEW r \in Requests, CreatePreCheck(r)
  PROVE  IInv'
<1> USE DEF IInv
<1>1. pc[r] = "received" /\ call[r].op = "create"
  BY DEF CreatePreCheck
<1>2. CASE wallet[User(r)] # NoWallet
  BY <1>1, <1>2, RefusePreserves DEF CreatePreCheck, Outcomes, Done
<1>3. CASE wallet[User(r)] = NoWallet
  <2>1. Goto(r, "prechecked") /\ UNCHANGED <<wallet, ledger, lock, call, row, entry, outcome>>
    BY <1>3 DEF CreatePreCheck
  <2>2. pc'[r] = "prechecked" /\ \A q \in Requests : q # r => pc'[q] = pc[q]
    BY <2>1 DEF Goto, TypeOK
  <2>3. TypeOK'
    <3>1. pc' \in [Requests -> Labels]
      BY <2>1 DEF Goto, TypeOK, Labels
    <3>2. \A q \in Requests : LabelFits(q)'
      BY <1>1, <2>1, <2>2 DEF TypeOK, LabelFits
    <3> QED BY <2>1, <3>1, <3>2 DEF TypeOK
  <2>4. \A q \in Requests : InTransaction(q)' = InTransaction(q)
    BY <1>1, <2>2 DEF InTransaction, Locking
  <2>5. LockHolders'
    BY <2>1, <2>4 DEF LockHolders, User, TypeOK
  <2>6. TransactionIsCurrent'
    <3> SUFFICES ASSUME NEW q \in Requests PROVE RequestIsCurrent(q)'
      BY DEF TransactionIsCurrent
    <3>1. CASE q = r
      BY <2>2, <3>1 DEF RequestIsCurrent
    <3>2. CASE q # r
      BY <2>1, <2>2, <3>2
      DEF TransactionIsCurrent, RequestIsCurrent, MovementIsCurrent, StatusIsCurrent, User, Prior
    <3> QED BY <3>1, <3>2
  <2>7. LedgerReconstructsBalance' /\ ReferenceAppliedOnce' /\ ClosedWalletIsEmpty'
    BY <2>1 DEF LedgerReconstructsBalance, ReferenceAppliedOnce, ClosedWalletIsEmpty
  <2>8. AnsweredMovementIsDurable'
    BY <2>1, <2>2 DEF AnsweredMovementIsDurable, User, Prior
  <2>9. DefenceInDepthIsNeverNeeded'
    BY <2>1, <2>2 DEF DefenceInDepthIsNeverNeeded, User, Prior
  <2> QED BY <2>3, <2>5, <2>6, <2>7, <2>8, <2>9
<1> QED BY <1>2, <1>3

\* The INSERT of a wallet takes the index key of its user.
LEMMA CreateInsertPreserves ==
  ASSUME IInv, NEW r \in Requests, CreateInsert(r)
  PROVE  IInv'
<1>1. pc[r] = "prechecked" /\ pc[r] \notin Done /\ call[r].op = "create" /\ entry[r] = NoEntry
      /\ call[r] \in Call
  BY DEF CreateInsert, Done, IInv, TypeOK, LabelFits
<1>2. CASE Refuse(r, "wallet_already_exists")
  BY <1>1, <1>2, RefusePreserves DEF Outcomes
<1>3. CASE /\ wallet[User(r)] = NoWallet /\ lock[User(r)] = Free
           /\ lock' = [lock EXCEPT ![User(r)] = r]
           /\ row'  = [row EXCEPT ![r] = NewWallet]
           /\ Goto(r, "written")
           /\ UNCHANGED <<wallet, ledger, call, entry, outcome>>
  <2>1. entry' = [entry EXCEPT ![r] = NoEntry]
    BY <1>1, <1>3 DEF IInv, TypeOK
  <2>2. NewWallet \in Wallet
    BY BoundsAssumption DEF NewWallet, Wallet, Statuses, Balances
  <2>3. pc'[r] = "written" /\ row'[r] = NewWallet /\ entry'[r] = NoEntry
    BY <1>3, <2>1 DEF Goto, IInv, TypeOK
  <2>4. LabelFits(r)'
    BY <1>1, <1>3, <2>3 DEF LabelFits
  <2>5. RequestIsCurrent(r)'
    BY <1>1, <1>3, <2>3 DEF RequestIsCurrent, MoneyOps, StatusOps, User
  <2>6. "written" \in Locking
    BY DEF Locking
  <2> QED BY <1>1, <1>3, <2>1, <2>2, <2>4, <2>5, <2>6, AdvancePreserves
<1> QED BY <1>2, <1>3 DEF CreateInsert

LEMMA PublicIdCollidesPreserves ==
  ASSUME IInv, NEW r \in Requests, PublicIdCollides(r)
  PROVE  IInv'
BY RefusePreserves DEF PublicIdCollides, Outcomes, Done

\* SELECT ... FOR UPDATE: the copy is the committed row and passed the checks.
LEMMA LockWalletPreserves ==
  ASSUME IInv, NEW r \in Requests, LockWallet(r)
  PROVE  IInv'
<1> DEFINE w == wallet[User(r)]
           error == Refusal(call[r].op, w)
<1>1. /\ pc[r] = "received" /\ pc[r] \notin Done /\ entry[r] = NoEntry
      /\ call[r] \in Call /\ call[r].op \in StatusOps \union MoneyOps
      /\ User(r) \in Users
  BY CallUser DEF LockWallet, Done, IInv, TypeOK, LabelFits, User
<1>2. CASE w = NoWallet
  BY <1>1, <1>2, RefusePreserves DEF LockWallet, Outcomes
<1>3. CASE w # NoWallet /\ error # "none"
  <2>1. error \in Outcomes \ {"ok", "concurrency_conflict"}
    BY DEF Refusal, Outcomes
  <2> QED BY <1>1, <1>3, <2>1, RefusePreserves DEF LockWallet
<1>4. CASE w # NoWallet /\ error = "none"
  <2>1. /\ lock[User(r)] = Free /\ lock' = [lock EXCEPT ![User(r)] = r]
        /\ row' = [row EXCEPT ![r] = w] /\ Goto(r, "locked")
        /\ UNCHANGED <<wallet, ledger, call, entry, outcome>>
    BY <1>4 DEF LockWallet
  <2>2. entry' = [entry EXCEPT ![r] = NoEntry] /\ w \in Wallet
    BY <1>1, <1>4, <2>1 DEF IInv, TypeOK
  <2>3. pc'[r] = "locked" /\ row'[r] = w /\ entry'[r] = NoEntry
    BY <2>1, <2>2 DEF Goto, IInv, TypeOK
  <2>4. LabelFits(r)'
    BY <1>1, <2>1, <2>3 DEF LabelFits
  <2>5. RequestIsCurrent(r)'
    BY <1>4, <2>1, <2>3 DEF RequestIsCurrent, User
  <2>6. "locked" \in Locking
    BY DEF Locking
  <2> HIDE DEF w
  <2> QED BY <1>1, <2>1, <2>2, <2>4, <2>5, <2>6, AdvancePreserves
<1> QED BY <1>2, <1>3, <1>4

\* What a transaction that has read and not written knows.
LEMMA LockedIsCurrent ==
  ASSUME IInv, NEW r \in Requests, pc[r] \in {"locked", "looked_up"}
  PROVE  /\ pc[r] \notin Done /\ lock[User(r)] = r
         /\ call[r] \in Call /\ User(r) \in Users /\ entry[r] = NoEntry
         /\ row[r] = wallet[User(r)] /\ row[r] \in Wallet /\ wallet[User(r)] # NoWallet
         /\ Refusal(call[r].op, row[r]) = "none"
<1>1. pc[r] \notin Done /\ call[r] \in Call /\ User(r) \in Users /\ entry[r] = NoEntry
  BY CallUser DEF IInv, TypeOK, LabelFits, Done, User
<1>2. lock[User(r)] = r
  BY DEF IInv, LockHolders, InTransaction, Locking
<1>3. /\ row[r] = wallet[User(r)] /\ wallet[User(r)] # NoWallet
      /\ Refusal(call[r].op, row[r]) = "none"
  BY DEF IInv, TransactionIsCurrent, RequestIsCurrent
<1>4. row[r] \in Wallet
  BY <1>1, <1>3 DEF IInv, TypeOK
<1> QED BY <1>1, <1>2, <1>3, <1>4

\* The version check of a flush never fails under the lock.
LEMMA FlushedIsFresh ==
  ASSUME IInv, NEW r \in Requests, pc[r] \in {"locked", "looked_up"},
         NEW w, NEW stale
  PROVE  FlushError(r, w, stale) = IF w # row[r] /\ w.balance \notin Balances
                                   THEN "internal_error" ELSE "none"
BY LockedIsCurrent DEF FlushError

LEMMA FlushStatusPreserves ==
  ASSUME IInv, NEW r \in Requests, FlushStatus(r)
  PROVE  IInv'
<1> DEFINE op == call[r].op
           w == [row[r] EXCEPT !.status = NewStatus(op)]
           f == Flushed(r, w)
<1>1. pc[r] = "locked" /\ op \in StatusOps
  BY DEF FlushStatus
<1>2. /\ pc[r] \notin Done /\ lock[User(r)] = r /\ call[r] \in Call /\ User(r) \in Users
      /\ row[r] = wallet[User(r)] /\ row[r] \in Wallet /\ wallet[User(r)] # NoWallet
      /\ Refusal(op, row[r]) = "none"
  BY <1>1, LockedIsCurrent
<1>3. w.balance = row[r].balance /\ w.status = NewStatus(op) /\ w.version = row[r].version
      /\ w \in Wallet
  <2>1. NewStatus(op) \in Statuses
    BY <1>1 DEF NewStatus, StatusOps, Statuses
  <2> QED BY <1>2, <2>1 DEF Wallet
<1>4. FlushError(r, w, "internal_error") = "none"
  <2>1. w.balance \in Balances
    BY <1>2, <1>3 DEF Wallet
  <2> QED BY <1>1, <2>1, FlushedIsFresh
<1>5. /\ row' = [row EXCEPT ![r] = f] /\ entry' = [entry EXCEPT ![r] = NoEntry]
      /\ lock' = [lock EXCEPT ![User(r)] = r] /\ Goto(r, "written")
      /\ UNCHANGED <<wallet, ledger, call, outcome>>
  BY <1>4 DEF FlushStatus, Flush
<1>6. /\ f \in Wallet
      /\ \/ f = wallet[User(r)] /\ wallet[User(r)].status = NewStatus(op)
         \/ f = [status |-> NewStatus(op), balance |-> wallet[User(r)].balance,
                 version |-> wallet[User(r)].version + 1]
  <2>1. CASE w = row[r]
    BY <1>2, <1>3, <2>1 DEF Flushed
  <2>2. CASE w # row[r]
    <3>1. f = [w EXCEPT !.version = row[r].version + 1]
      BY <2>2 DEF Flushed
    <3>2. w.version + 1 \in Nat
      BY <1>3 DEF Wallet
    <3>3. f \in Wallet /\ f.status = w.status /\ f.balance = w.balance /\ f.version = w.version + 1
      BY <1>3, <3>1, <3>2 DEF Wallet
    <3>4. f = [status |-> f.status, balance |-> f.balance, version |-> f.version]
      BY <3>3 DEF Wallet
    <3> QED BY <1>2, <1>3, <3>3, <3>4
  <2> QED BY <2>1, <2>2
<1>7. pc'[r] = "written" /\ row'[r] = f /\ entry'[r] = NoEntry
  BY <1>5 DEF Goto, IInv, TypeOK
<1>8. LabelFits(r)'
  BY <1>1, <1>2, <1>5, <1>7 DEF LabelFits, StatusOps
<1>9. RequestIsCurrent(r)'
  <2>1. StatusIsCurrent(r)'
    BY <1>2, <1>5, <1>6, <1>7 DEF StatusIsCurrent, User
  <2> QED BY <1>1, <1>5, <1>7, <2>1 DEF RequestIsCurrent, StatusOps, MoneyOps
<1>10. "written" \in Locking
  BY DEF Locking
<1> HIDE DEF f
<1> QED BY <1>2, <1>5, <1>6, <1>8, <1>9, <1>10, AdvancePreserves

LEMMA LookupReferencePreserves ==
  ASSUME IInv, NEW r \in Requests, LookupReference(r)
  PROVE  IInv'
<1>1. pc[r] = "locked" /\ call[r].op \in MoneyOps
  BY DEF LookupReference
<1>2. /\ pc[r] \notin Done /\ lock[User(r)] = r /\ call[r] \in Call /\ User(r) \in Users
      /\ row[r] = wallet[User(r)] /\ row[r] \in Wallet /\ wallet[User(r)] # NoWallet
      /\ Refusal(call[r].op, row[r]) = "none" /\ entry[r] = NoEntry
  BY <1>1, LockedIsCurrent
<1>3. CASE \E i \in Prior(r) : Reply(r, row[r], ledger[User(r)][i])
  <2>1. PICK i \in Prior(r) : Reply(r, row[r], ledger[User(r)][i])
    BY <1>3
  <2>2. ledger[User(r)][i] \in Entry
    <3>1. ledger[User(r)] \in Seq(Entry) /\ i \in 1..Len(ledger[User(r)])
      BY <1>2 DEF IInv, TypeOK, Prior
    <3> QED BY <3>1
  <2> QED BY <1>2, <2>1, <2>2, AnswerPreserves DEF Reply, Outcomes
<1>4. CASE call[r].op = "debit" /\ row[r].balance < call[r].amount /\ Prior(r) = {}
           /\ Refuse(r, "insufficient_balance")
  BY <1>2, <1>4, RefusePreserves DEF Outcomes
<1>5. CASE /\ ~(call[r].op = "debit" /\ row[r].balance < call[r].amount) /\ Prior(r) = {}
           /\ Goto(r, "looked_up")
           /\ UNCHANGED <<wallet, ledger, lock, call, row, entry, outcome>>
  <2>1. /\ entry' = [entry EXCEPT ![r] = NoEntry] /\ row' = [row EXCEPT ![r] = row[r]]
        /\ lock' = [lock EXCEPT ![User(r)] = r]
    BY <1>2, <1>5 DEF IInv, TypeOK
  <2>2. pc'[r] = "looked_up"
    BY <1>5 DEF Goto, IInv, TypeOK
  <2>3. LabelFits(r)'
    BY <1>1, <1>2, <1>5, <2>2 DEF LabelFits
  <2>4. call[r].op = "debit" => wallet[User(r)].balance >= call[r].amount
    <3>1. row[r].balance \in Nat /\ call[r].amount \in Nat
      <4>1. call[r].amount \in Amounts
        BY <1>1, <1>2 DEF Call, LifecycleCall, MoneyCall, MoneyOps, StatusOps
      <4>2. row[r].balance \in Balances
        BY <1>2 DEF Wallet
      <4> QED BY <4>1, <4>2, MoneyIsNat
    <3> QED BY <1>2, <1>5, <3>1
  <2>5. RequestIsCurrent(r)'
    BY <1>2, <1>5, <2>2, <2>4 DEF RequestIsCurrent, User, Prior
  <2>6. "looked_up" \in Locking
    BY DEF Locking
  <2> QED BY <1>2, <1>5, <2>1, <2>3, <2>5, <2>6, AdvancePreserves
<1> QED BY <1>3, <1>4, <1>5 DEF LookupReference

\* The new balance and the entry are computed from the committed row.
LEMMA UpdateBalancePreserves ==
  ASSUME IInv, NEW r \in Requests, UpdateBalance(r)
  PROVE  IInv'
<1> DEFINE c == call[r]
           e == NewEntry(c, row[r].balance)
           w == [row[r] EXCEPT !.balance = e.after]
           f == Flushed(r, w)
<1>1. pc[r] = "looked_up" /\ c.op \in MoneyOps
  BY DEF UpdateBalance, IInv, TypeOK, LabelFits
<1>2. /\ pc[r] \notin Done /\ lock[User(r)] = r /\ c \in Call /\ User(r) \in Users
      /\ row[r] = wallet[User(r)] /\ row[r] \in Wallet /\ wallet[User(r)] # NoWallet
      /\ Refusal(c.op, row[r]) = "none"
  BY <1>1, LockedIsCurrent
<1>3. Prior(r) = {}
  BY <1>1 DEF IInv, TransactionIsCurrent, RequestIsCurrent
<1>4. row[r].status = "ACTIVE"
  BY <1>1, <1>2 DEF Refusal, MoneyOps, Wallet, Statuses
<1>5. c.amount \in Amounts /\ c.ref \in Refs
  BY <1>1, <1>2 DEF Call, LifecycleCall, MoneyCall, MoneyOps, StatusOps
<1>6. row[r].balance \in Balances /\ row[r].balance \in Nat /\ c.amount \in Nat /\ c.amount > 0
  <2>1. row[r].balance \in Balances
    BY <1>2 DEF Wallet
  <2> QED BY <1>5, <2>1, MoneyIsNat
<1>7. /\ e.type \in {"CREDIT", "DEBIT"} /\ e.amount = c.amount /\ e.before = row[r].balance
      /\ e.ref = c.ref /\ e.after \in Int /\ e.after # row[r].balance
      /\ e = [type |-> e.type, amount |-> e.amount, before |-> e.before,
              after |-> e.after, ref |-> e.ref]
  BY <1>6 DEF NewEntry
<1>8. /\ w.balance = e.after /\ w.status = "ACTIVE" /\ w.version = row[r].version
      /\ w # row[r]
  BY <1>2, <1>4, <1>7 DEF Wallet
<1>9. FlushError(r, w, "concurrency_conflict") =
        IF e.after \notin Balances THEN "internal_error" ELSE "none"
  BY <1>1, <1>8, FlushedIsFresh
<1>10. CASE e.after \notin Balances
  <2>1. Refuse(r, "internal_error")
    BY <1>9, <1>10 DEF UpdateBalance, Flush
  <2> QED BY <1>2, <2>1, RefusePreserves DEF Outcomes
<1>11. CASE e.after \in Balances
  <2>1. /\ row' = [row EXCEPT ![r] = f] /\ entry' = [entry EXCEPT ![r] = e]
        /\ lock' = [lock EXCEPT ![User(r)] = r] /\ Goto(r, "updated")
        /\ UNCHANGED <<wallet, ledger, call, outcome>>
    BY <1>9, <1>11 DEF UpdateBalance, Flush
  <2>2. /\ f \in Wallet
        /\ f = [status |-> "ACTIVE", balance |-> e.after,
                version |-> wallet[User(r)].version + 1]
    <3>1. f = [w EXCEPT !.version = row[r].version + 1]
      BY <1>8 DEF Flushed
    <3>2. row[r].version + 1 \in Nat
      BY <1>2 DEF Wallet
    <3>3. f \in Wallet /\ f.status = "ACTIVE" /\ f.balance = e.after /\ f.version = row[r].version + 1
      BY <1>2, <1>8, <1>11, <3>1, <3>2 DEF Wallet
    <3>4. f = [status |-> f.status, balance |-> f.balance, version |-> f.version]
      BY <3>3 DEF Wallet
    <3> QED BY <1>2, <3>3, <3>4
  <2>3. e \in Entry
    BY <1>5, <1>6, <1>7, <1>11 DEF Entry
  <2>4. pc'[r] = "updated" /\ row'[r] = f /\ entry'[r] = e
    BY <2>1 DEF Goto, IInv, TypeOK
  <2>5. LabelFits(r)'
    BY <1>1, <1>2, <2>1, <2>4 DEF LabelFits
  <2>6. MovementIsCurrent(r)'
    BY <1>2, <1>3, <1>4, <2>1, <2>2, <2>3, <2>4 DEF MovementIsCurrent, User, Prior
  <2>7. RequestIsCurrent(r)'
    BY <2>4, <2>6 DEF RequestIsCurrent
  <2>8. "updated" \in Locking
    BY DEF Locking
  <2> HIDE DEF f, e
  <2> QED BY <1>2, <2>1, <2>2, <2>3, <2>5, <2>7, <2>8, AdvancePreserves
<1> QED BY <1>10, <1>11

\* The unique index on references refuses nothing under the lock.
LEMMA InsertEntryPreserves ==
  ASSUME IInv, NEW r \in Requests, InsertEntry(r)
  PROVE  IInv'
<1>1. /\ pc[r] = "updated" /\ pc[r] \notin Done /\ call[r].op \in MoneyOps /\ call[r] \in Call
      /\ User(r) \in Users
  BY CallUser DEF InsertEntry, Done, IInv, TypeOK, LabelFits, User
<1>2. MovementIsCurrent(r) /\ lock[User(r)] = r
  BY <1>1 DEF IInv, TransactionIsCurrent, RequestIsCurrent, LockHolders, InTransaction, Locking
<1>3. /\ Goto(r, "written")
      /\ UNCHANGED <<wallet, ledger, lock, call, row, entry, outcome>>
  BY <1>2 DEF InsertEntry, MovementIsCurrent
<1>4. /\ entry' = [entry EXCEPT ![r] = entry[r]] /\ row' = [row EXCEPT ![r] = row[r]]
      /\ lock' = [lock EXCEPT ![User(r)] = r]
      /\ entry[r] \in Entry \union {NoEntry} /\ row[r] \in Wallet \union {NoWallet}
  BY <1>2, <1>3 DEF IInv, TypeOK
<1>5. pc'[r] = "written"
  BY <1>3 DEF Goto, IInv, TypeOK
<1>6. LabelFits(r)'
  BY <1>1, <1>3, <1>5 DEF LabelFits, MoneyOps
<1>7. MovementIsCurrent(r)'
  BY <1>2, <1>3 DEF MovementIsCurrent, User, Prior
<1>8. RequestIsCurrent(r)'
  BY <1>1, <1>3, <1>5, <1>7 DEF RequestIsCurrent, MoneyOps, StatusOps
<1>9. "written" \in Locking
  BY DEF Locking
<1> QED BY <1>1, <1>2, <1>3, <1>4, <1>6, <1>8, <1>9, AdvancePreserves

\* A failure before COMMIT is a rollback.
LEMMA FailPreserves ==
  ASSUME IInv, NEW r \in Requests, Fail(r)
  PROVE  IInv'
BY RefusePreserves DEF Fail, Outcomes

------------------------------------------------------------------------------
(* The theorems.                                                           *)

LEMMA InitEstablishes == Init => IInv
<1> SUFFICES ASSUME Init PROVE IInv
  OBVIOUS
<1>1. TypeOK
  BY DEF Init, TypeOK, LabelFits, Labels, Done, Outcomes
<1>2. LockHolders /\ TransactionIsCurrent /\ AnsweredMovementIsDurable /\ DefenceInDepthIsNeverNeeded
  BY DEF Init, LockHolders, InTransaction, Locking, TransactionIsCurrent, RequestIsCurrent,
         AnsweredMovementIsDurable, DefenceInDepthIsNeverNeeded
<1>3. LedgerReconstructsBalance /\ ReferenceAppliedOnce /\ ClosedWalletIsEmpty
  BY DEF Init, LedgerReconstructsBalance, ReferenceAppliedOnce, ClosedWalletIsEmpty
<1> QED BY <1>1, <1>2, <1>3 DEF IInv

LEMMA NextPreserves == IInv /\ [Next]_vars => IInv'
<1> SUFFICES ASSUME IInv, [Next]_vars PROVE IInv'
  OBVIOUS
<1>1. ASSUME NEW r \in Requests, NEW c \in Call, Receive(r, c) PROVE IInv'
  BY <1>1, ReceivePreserves
<1>2. ASSUME NEW r \in Requests, Step(r) PROVE IInv'
  BY <1>2, GetWalletPreserves, CreatePreCheckPreserves, CreateInsertPreserves,
     LockWalletPreserves, FlushStatusPreserves, LookupReferencePreserves,
     UpdateBalancePreserves, InsertEntryPreserves, CommitPreserves DEF Step
<1>3. ASSUME NEW r \in Requests, Fail(r) \/ PublicIdCollides(r) PROVE IInv'
  BY <1>3, FailPreserves, PublicIdCollidesPreserves
<1>4. CASE UNCHANGED vars
  BY <1>4 DEF vars, IInv, TypeOK, LabelFits, LockHolders, InTransaction, User,
              TransactionIsCurrent, RequestIsCurrent, MovementIsCurrent, StatusIsCurrent, Prior,
              LedgerReconstructsBalance, ReferenceAppliedOnce, ClosedWalletIsEmpty,
              AnsweredMovementIsDurable, DefenceInDepthIsNeverNeeded
<1> QED BY <1>1, <1>2, <1>3, <1>4 DEF Next

\* Every reachable state satisfies the inductive invariant.
THEOREM Invariance == Spec => []IInv
BY InitEstablishes, NextPreserves, PTL DEF Spec

\* The type invariant.
THEOREM TypeCorrect == Spec => []TypeOK
BY Invariance, PTL DEF IInv

\* One transaction at a time holds a user's lock and no ended request keeps one.
THEOREM LocksAreGivenBack == Spec => []LockHolders
BY Invariance, PTL DEF IInv

\* No transaction decides or writes on stale data.
THEOREM NeverStale == Spec => []TransactionIsCurrent
BY Invariance, PTL DEF IInv

\* The ledger is a gapless chain that ends at the balance.
THEOREM LedgerSound == Spec => []LedgerReconstructsBalance
BY Invariance, PTL DEF IInv

\* A reference id moves money once, however often it is sent.
THEOREM MovementsHappenOnce == Spec => []ReferenceAppliedOnce
BY Invariance, PTL DEF IInv

\* No money is locked away in a closed wallet.
THEOREM ClosedIsEmpty == Spec => []ClosedWalletIsEmpty
BY Invariance, PTL DEF IInv

\* What a client is told has been booked is in the ledger.
THEOREM SuccessIsDurable == Spec => []AnsweredMovementIsDurable
BY Invariance, PTL DEF IInv

\* The version check and the unique index on references never have to act.
THEOREM LockSuffices == Spec => []DefenceInDepthIsNeverNeeded
BY Invariance, PTL DEF IInv

\* The committed tables change in COMMIT only.
LEMMA OnlyCommitWrites ==
  ASSUME [Next]_vars
  PROVE  UNCHANGED <<wallet, ledger>> \/ \E r \in Requests : Commit(r)
<1>1. ASSUME NEW r \in Requests, Step(r), ~Commit(r) PROVE UNCHANGED <<wallet, ledger>>
  BY <1>1 DEF Step, GetWallet, CreatePreCheck, CreateInsert, LockWallet, FlushStatus, Flush,
              LookupReference, UpdateBalance, InsertEntry, Refuse, Reply
<1>2. ASSUME NEW r \in Requests, NEW c \in Call, Receive(r, c) PROVE UNCHANGED <<wallet, ledger>>
  BY <1>2 DEF Receive
<1>3. ASSUME NEW r \in Requests, Fail(r) \/ PublicIdCollides(r)
      PROVE  UNCHANGED <<wallet, ledger>>
  BY <1>3 DEF Fail, PublicIdCollides, Refuse
<1>4. CASE UNCHANGED vars
  BY <1>4 DEF vars
<1> QED BY <1>1, <1>2, <1>3, <1>4 DEF Next

\* What one COMMIT does to the row and the ledger of its user.
LEMMA CommitEffect ==
  ASSUME IInv, NEW r \in Requests, Commit(r)
  PROVE  /\ User(r) \in Users /\ row[r] \in Wallet
         /\ wallet' = [wallet EXCEPT ![User(r)] = row[r]]
         /\ \/ /\ call[r].op \in MoneyOps /\ MovementIsCurrent(r) /\ call[r] \in MoneyCall
               /\ ledger' = [ledger EXCEPT ![User(r)] = Append(@, entry[r])]
            \/ call[r].op \in StatusOps /\ StatusIsCurrent(r) /\ UNCHANGED ledger
            \/ wallet[User(r)] = NoWallet /\ row[r] = NewWallet /\ UNCHANGED ledger
<1>1. pc[r] = "written" /\ call[r] \in Call /\ call[r].op # "get" /\ RequestIsCurrent(r)
  BY DEF Commit, IInv, TypeOK, LabelFits, TransactionIsCurrent
<1>2. /\ User(r) \in Users /\ row[r] \in Wallet
      /\ wallet' = [wallet EXCEPT ![User(r)] = row[r]]
  BY <1>1, PendingIsTyped DEF Commit
<1>3. call[r].op \in MoneyOps \union StatusOps \union {"create"}
  BY <1>1 DEF Call, LifecycleCall, MoneyCall
<1>4. CASE call[r].op \in MoneyOps
  <2>1. call[r] \in MoneyCall
    BY <1>1, <1>4 DEF Call, LifecycleCall, MoneyOps, StatusOps
  <2> QED BY <1>1, <1>2, <1>4, <2>1, PendingIsTyped DEF Commit
<1>5. CASE call[r].op \in StatusOps
  <2>1. entry[r] = NoEntry /\ StatusIsCurrent(r)
    BY <1>1, <1>5, PendingIsTyped DEF StatusOps, MoneyOps
  <2> QED BY <1>2, <1>5, <2>1 DEF Commit
<1>6. CASE call[r].op = "create"
  BY <1>1, <1>2, <1>6 DEF Commit, RequestIsCurrent
<1> QED BY <1>2, <1>3, <1>4, <1>5, <1>6

\* Two transactions never commit on top of the same version of a row.
THEOREM NoUpdateIsLost == Spec => NoLostUpdate
<1>1. ASSUME IInv, [Next]_vars, NEW u \in Users, wallet[u] # NoWallet, wallet'[u] # wallet[u]
      PROVE  wallet'[u] # NoWallet /\ wallet'[u].version = wallet[u].version + 1
  <2>1. PICK r \in Requests : Commit(r)
    BY <1>1, OnlyCommitWrites
  <2>2. User(r) = u /\ wallet'[u] = row[r] /\ row[r] \in Wallet
    BY <1>1, <2>1, CommitEffect DEF IInv, TypeOK
  <2>3. CASE MovementIsCurrent(r)
    BY <2>2, <2>3, NullsAssumption DEF MovementIsCurrent
  <2>4. CASE StatusIsCurrent(r)
    BY <1>1, <2>2, <2>4, NullsAssumption DEF StatusIsCurrent
  <2> QED BY <1>1, <2>1, <2>2, <2>3, <2>4, CommitEffect
<1>2. IInv /\ [Next]_vars => [VersionsFollow]_vars
  BY <1>1 DEF VersionsFollow
<1> QED BY <1>2, Invariance, PTL DEF Spec, NoLostUpdate

\* COMMIT is an operation of AtomicWallet, or changes nothing that it sees.
LEMMA CommitIsAtomic ==
  ASSUME IInv, NEW r \in Requests, Commit(r)
  PROVE  [Atomic!Next]_(Atomic!vars)
<1> DEFINE u == User(r)
           w == wallet[u]
<1>1. /\ u \in Users /\ row[r] \in Wallet /\ row[r] # NoWallet
      /\ wallet' = [wallet EXCEPT ![u] = row[r]]
      /\ wallet \in [Users -> Wallet \union {NoWallet}] /\ ledger \in [Users -> Seq(Entry)]
  BY CommitEffect, NullsAssumption DEF IInv, TypeOK
<1>2. /\ Accounts[u] = Account(w)
      /\ Accounts' = [Accounts EXCEPT ![u] = [status |-> row[r].status, balance |-> row[r].balance]]
  BY <1>1 DEF Accounts, Account
<1>3. w # NoWallet => /\ Accounts[u] # NoWallet
                      /\ Accounts[u].status = w.status /\ Accounts[u].balance = w.balance
  <2>1. w # NoWallet => w.status \in Statuses /\ w.balance \in Balances
    BY <1>1 DEF Wallet
  <2> QED BY <1>2, <2>1, NullsAssumption DEF Account
<1>4. CASE /\ call[r].op \in MoneyOps /\ MovementIsCurrent(r) /\ call[r] \in MoneyCall
           /\ ledger' = [ledger EXCEPT ![u] = Append(@, entry[r])]
  <2> DEFINE c == call[r]
             type == IF c.op = "credit" THEN "CREDIT" ELSE "DEBIT"
  <2>1. /\ w # NoWallet /\ w.status = "ACTIVE" /\ entry[r] \in Entry
        /\ entry[r] = NewEntry(c, w.balance)
        /\ row[r].status = "ACTIVE" /\ row[r].balance = entry[r].after
        /\ Prior(r) = {}
    BY <1>4 DEF MovementIsCurrent
  <2>2. c.amount \in Amounts /\ c.ref \in Refs /\ type \in {"CREDIT", "DEBIT"}
    BY <1>4 DEF MoneyCall
  <2>3. \A i \in 1..Len(ledger[u]) : ledger[u][i].ref # c.ref
    BY <2>1 DEF Prior
  <2>4. entry[r].after \in 0..MaxBalance
    BY <2>1 DEF Entry, Balances
  <2>5. entry[r] = [type |-> type, amount |-> c.amount, before |-> w.balance,
                    after |-> IF type = "CREDIT" THEN w.balance + c.amount
                              ELSE w.balance - c.amount, ref |-> c.ref]
    BY <1>4, <2>1 DEF NewEntry, MoneyOps
  <2>6. Atomic!Move(u, type, c.amount, c.ref)
    <3> DEFINE before == Accounts[u].balance
               after  == IF type = "CREDIT" THEN before + c.amount ELSE before - c.amount
    <3>1. before = w.balance /\ Accounts[u] # NoWallet /\ Accounts[u].status = "ACTIVE"
      BY <1>3, <2>1
    <3>2. entry[r] = [type |-> type, amount |-> c.amount, before |-> before,
                      after |-> after, ref |-> c.ref]
      BY <2>5, <3>1
    <3>3. entry[r].after = after
      BY <3>2
    <3>4. after \in 0..MaxBalance
      BY <2>4, <3>3
    <3>5. Accounts' = [Accounts EXCEPT ![u] = [status |-> "ACTIVE", balance |-> after]]
      BY <1>2, <2>1, <3>3
    <3>6. ledger' = [ledger EXCEPT ![u] = Append(ledger[u],
                       [type |-> type, amount |-> c.amount, before |-> before,
                        after |-> after, ref |-> c.ref])]
      BY <1>4, <3>2
    <3> QED BY <2>3, <3>1, <3>4, <3>5, <3>6, Zenon DEF Atomic!Move
  <2> QED BY <1>1, <2>2, <2>6 DEF Atomic!Next
<1>5. CASE call[r].op \in StatusOps /\ StatusIsCurrent(r) /\ UNCHANGED ledger
  <2> DEFINE status == NewStatus(call[r].op)
  <2>1. /\ w # NoWallet /\ Refusal(call[r].op, w) = "none" /\ row[r].balance = w.balance
        /\ \/ row[r] = w
           \/ row[r].status = status
    BY <1>5 DEF StatusIsCurrent
  <2>2. CASE row[r] = w \/ status = w.status
    <3>1. row[r].status = w.status
      BY <2>1, <2>2
    <3>2. Accounts' = Accounts
      <4>1. Account(row[r]) = Account(w)
        BY <1>1, <2>1, <3>1 DEF Account
      <4> QED BY <1>1, <4>1 DEF Accounts
    <3> QED BY <1>5, <3>2 DEF Atomic!vars
  <2>3. CASE row[r].status = status /\ status # w.status
    <3>1. w.status \in Statuses
      BY <1>1, <2>1 DEF Wallet
    <3>2. <<w.status, status>> \in Atomic!Turns /\ (status = "CLOSED" => w.balance = 0)
          /\ status \in {"ACTIVE", "FROZEN", "CLOSED"}
      BY <1>5, <2>1, <2>3, <3>1 DEF Atomic!Turns, Refusal, NewStatus, StatusOps, Statuses
    <3>3. Atomic!SetStatus(u, status)
      BY <1>2, <1>3, <1>5, <2>1, <2>3, <3>2 DEF Atomic!SetStatus
    <3> QED BY <1>1, <3>2, <3>3 DEF Atomic!Next
  <2> QED BY <2>1, <2>2, <2>3
<1>6. CASE w = NoWallet /\ row[r] = NewWallet /\ UNCHANGED ledger
  <2>1. Atomic!Open(u)
    BY <1>2, <1>6 DEF Atomic!Open, NewWallet, Account
  <2> QED BY <1>1, <2>1 DEF Atomic!Next
<1> QED BY <1>4, <1>5, <1>6, CommitEffect

\* The service implements AtomicWallet.
THEOREM Refinement == Spec => AtomicSpec
<1>1. Init => Atomic!Init
  BY DEF Init, Atomic!Init, Accounts, Account
<1>2. IInv /\ [Next]_vars => [Atomic!Next]_(Atomic!vars)
  <2> SUFFICES ASSUME IInv, [Next]_vars PROVE [Atomic!Next]_(Atomic!vars)
    OBVIOUS
  <2>1. CASE UNCHANGED <<wallet, ledger>>
    BY <2>1 DEF Atomic!vars, Accounts
  <2>2. CASE \E r \in Requests : Commit(r)
    BY <2>2, CommitIsAtomic
  <2> QED BY <2>1, <2>2, OnlyCommitWrites
<1> QED BY <1>1, <1>2, Invariance, PTL DEF Spec, AtomicSpec, Atomic!Spec
==============================================================================
