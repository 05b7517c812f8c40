---------------------------- MODULE WalletService ----------------------------
(***************************************************************************)
(* wallet-service: the requests of WalletService over the two tables       *)
(* `wallets` and `wallet_ledger`.  Every request runs in a database        *)
(* transaction of its own at READ COMMITTED; one action stands for the     *)
(* code between two awaits on the database, so that the statements of      *)
(* concurrent requests interleave here as they do in PostgreSQL.           *)
(*                                                                         *)
(* `wallet` and `ledger` hold what is committed.  What an open transaction *)
(* has written and not committed is in its request's `row` and `entry`.    *)
(***************************************************************************)
EXTENDS Integers, Sequences

CONSTANTS
  Users,       \* authenticated users (the `sub` of an access token)
  Requests,    \* slots for HTTP requests; a slot is used again when answered
  Refs,        \* reference ids clients give to their movements
  Amounts,     \* validated amounts, in the minor unit
  MaxBalance,  \* the largest balance that fits NUMERIC(19,4)
  MaxVersion,  \* bound: no mutating request arrives for a row at this version
  NoWallet,    \* no row in `wallets`
  NoEntry,     \* no row in `wallet_ledger`
  NoCall,      \* the slot was never used
  Free         \* nobody holds the row lock

Statuses  == {"ACTIVE", "FROZEN", "CLOSED"}
StatusOps == {"freeze", "unfreeze", "close"}
MoneyOps  == {"credit", "debit"}

\* A row of `wallets`, and a row of `wallet_ledger` (kept per wallet).
Balances == 0..MaxBalance
Wallet   == [status : Statuses, balance : Balances, version : Nat]
Entry    == [type : {"CREDIT", "DEBIT"}, amount : Amounts, before : Balances,
             after : Balances, ref : Refs]

LifecycleCall == [op : StatusOps \union {"get", "create"}, user : Users]
MoneyCall     == [op : MoneyOps, user : Users, amount : Amounts, ref : Refs]
Call          == LifecycleCall \union MoneyCall

\* "lost": the client got no usable answer (worker killed, connection cut,
\* pool or statement timeout); it cannot tell whether the request took effect.
Outcomes == {"none", "ok", "lost", "wallet_not_found", "wallet_already_exists",
             "wallet_closed", "wallet_frozen", "wallet_not_frozen",
             "wallet_balance_not_zero", "insufficient_balance",
             "concurrency_conflict", "internal_error"}

ASSUME AmountsAssumption  == Amounts \subseteq Nat \ {0}
ASSUME BoundsAssumption   == MaxBalance \in Nat /\ MaxVersion \in Nat
ASSUME NullsAssumption    ==
  /\ NoWallet \notin Wallet
  /\ NoWallet \notin [status : Statuses, balance : Balances]
  /\ NoEntry \notin Entry
  /\ NoCall \notin Call
  /\ Free \notin Requests

VARIABLES
  wallet,   \* wallet[u]: the committed row of u, or NoWallet
  ledger,   \* ledger[u]: the committed entries of u's wallet, oldest first
  lock,     \* lock[u]: the request whose transaction locks u's row or index key
  pc,       \* pc[r]: where request r stands
  call,     \* call[r]: what request r asks for
  row,      \* row[r]: the ORM copy of the wallet: as read, then as flushed, then as answered
  entry,    \* entry[r]: the ledger entry being written, then the one answered
  outcome   \* outcome[r]: the answer of request r

vars == <<wallet, ledger, lock, pc, call, row, entry, outcome>>

Init ==
  /\ wallet  = [u \in Users |-> NoWallet]
  /\ ledger  = [u \in Users |-> << >>]
  /\ lock    = [u \in Users |-> Free]
  /\ pc      = [r \in Requests |-> "idle"]
  /\ call    = [r \in Requests |-> NoCall]
  /\ row     = [r \in Requests |-> NoWallet]
  /\ entry   = [r \in Requests |-> NoEntry]
  /\ outcome = [r \in Requests |-> "none"]

------------------------------------------------------------------------------
(* Answers and the end of a transaction.                                   *)

Done == {"idle", "done"}
User(r) == call[r].user

\* The transaction of r ends, by commit or rollback, and lets its lock go.
ReleaseLock(r) ==
  lock' = [lock EXCEPT ![User(r)] = IF @ = r THEN Free ELSE @]

\* r is answered; w and e are what the response body is built from.
Answer(r, o, w, e) ==
  /\ pc'      = [pc EXCEPT ![r] = "done"]
  /\ outcome' = [outcome EXCEPT ![r] = o]
  /\ row'     = [row EXCEPT ![r] = w]
  /\ entry'   = [entry EXCEPT ![r] = e]
  /\ ReleaseLock(r)
  /\ UNCHANGED call

\* An exception leaves the endpoint: get_db rolls back, nothing is written.
Refuse(r, o) ==
  /\ Answer(r, o, NoWallet, NoEntry)
  /\ UNCHANGED <<wallet, ledger>>

\* Mutant: the transaction of a read-only answer is left open.
ReplyInOpenTransaction(r, w, e) ==
  /\ pc'      = [pc EXCEPT ![r] = "done"]
  /\ outcome' = [outcome EXCEPT ![r] = "ok"]
  /\ row'     = [row EXCEPT ![r] = w]
  /\ entry'   = [entry EXCEPT ![r] = e]
  /\ UNCHANGED <<wallet, ledger, lock, call>>

\* A read-only success: nothing to commit, session.close() ends the transaction.
Reply(r, w, e) ==
  /\ Answer(r, "ok", w, e)
  /\ UNCHANGED <<wallet, ledger>>

Goto(r, label) == pc' = [pc EXCEPT ![r] = label]

\* A request arrives in a free slot.  Bound: none but a read does once
\* the row has reached MaxVersion.
Receive(r, c) ==
  /\ pc[r] \in Done
  /\ c.op # "get" /\ wallet[c.user] # NoWallet => wallet[c.user].version < MaxVersion
  /\ call'    = [call EXCEPT ![r] = c]
  /\ row'     = [row EXCEPT ![r] = NoWallet]
  /\ entry'   = [entry EXCEPT ![r] = NoEntry]
  /\ outcome' = [outcome EXCEPT ![r] = "none"]
  /\ Goto(r, "received")
  /\ UNCHANGED <<wallet, ledger, lock>>

------------------------------------------------------------------------------
(* get_wallet and create_wallet.                                           *)

GetWallet(r) ==
  /\ pc[r] = "received" /\ call[r].op = "get"
  /\ IF wallet[User(r)] = NoWallet
     THEN Refuse(r, "wallet_not_found")
     ELSE Reply(r, wallet[User(r)], NoEntry)

\* The pre-check of create_wallet: a plain SELECT.
CreatePreCheck(r) ==
  /\ pc[r] = "received" /\ call[r].op = "create"
  /\ IF wallet[User(r)] # NoWallet
     THEN Refuse(r, "wallet_already_exists")
     ELSE /\ Goto(r, "prechecked")
          /\ UNCHANGED <<wallet, ledger, lock, call, row, entry, outcome>>

NewWallet == [status |-> "ACTIVE", balance |-> 0, version |-> 1]

\* Mutant: no unique index on wallets.user_id.
CreateInsertUnchecked(r) ==
  /\ pc[r] = "prechecked"
  /\ row'  = [row EXCEPT ![r] = NewWallet]
  /\ Goto(r, "written")
  /\ UNCHANGED <<wallet, ledger, lock, call, entry, outcome>>

\* The INSERT.  ux_wallets_user_id refuses a second row; while another
\* transaction has an uncommitted one the statement waits for its end.
CreateInsert(r) ==
  /\ pc[r] = "prechecked"
  /\ \/ /\ wallet[User(r)] # NoWallet
        /\ Refuse(r, "wallet_already_exists")
     \/ /\ wallet[User(r)] = NoWallet
        /\ lock[User(r)] = Free
        /\ lock' = [lock EXCEPT ![User(r)] = r]
        /\ row'  = [row EXCEPT ![r] = NewWallet]
        /\ Goto(r, "written")
        /\ UNCHANGED <<wallet, ledger, call, entry, outcome>>

\* The INSERT meets the unique index on the random public wallet id instead:
\* that IntegrityError is re-raised.
PublicIdCollides(r) ==
  /\ pc[r] = "prechecked" /\ wallet[User(r)] = NoWallet
  /\ Refuse(r, "internal_error")

------------------------------------------------------------------------------
(* The operations that lock the row: SELECT ... FOR UPDATE and the checks  *)
(* each of them makes on the row it got.                                   *)

\* Mutant: close_wallet forgets the balance.
RefusalIgnoringBalance(op, w) ==
  IF w.status = "CLOSED" THEN "wallet_closed"
  ELSE IF op = "unfreeze" /\ w.status # "FROZEN" THEN "wallet_not_frozen"
  ELSE IF op \in {"close", "credit", "debit"} /\ w.status = "FROZEN" THEN "wallet_frozen"
  ELSE "none"

\* The error the operation raises for the row w, or "none".
Refusal(op, w) ==
  IF w.status = "CLOSED" THEN "wallet_closed"
  ELSE IF op = "unfreeze" /\ w.status # "FROZEN" THEN "wallet_not_frozen"
  ELSE IF op \in {"close", "credit", "debit"} /\ w.status = "FROZEN" THEN "wallet_frozen"
  ELSE IF op = "close" /\ w.balance # 0 THEN "wallet_balance_not_zero"
  ELSE "none"

\* Mutant: a plain SELECT, without FOR UPDATE.
ReadWallet(r) ==
  /\ pc[r] = "received" /\ call[r].op \in StatusOps \union MoneyOps
  /\ IF wallet[User(r)] = NoWallet
     THEN Refuse(r, "wallet_not_found")
     ELSE IF Refusal(call[r].op, wallet[User(r)]) # "none"
     THEN Refuse(r, Refusal(call[r].op, wallet[User(r)]))
     ELSE /\ row' = [row EXCEPT ![r] = wallet[User(r)]]
          /\ Goto(r, "locked")
          /\ UNCHANGED <<wallet, ledger, lock, call, entry, outcome>>

\* The statement waits for the holder of the lock, then reads the latest
\* committed row; an uncommitted INSERT is not seen and not waited for.
LockWallet(r) ==
  /\ pc[r] = "received" /\ call[r].op \in StatusOps \union MoneyOps
  /\ IF wallet[User(r)] = NoWallet
     THEN Refuse(r, "wallet_not_found")
     ELSE /\ lock[User(r)] = Free
          /\ LET error == Refusal(call[r].op, wallet[User(r)])
             IN  IF error # "none"
                 THEN Refuse(r, error)
                 ELSE /\ lock' = [lock EXCEPT ![User(r)] = r]
                      /\ row'  = [row EXCEPT ![r] = wallet[User(r)]]
                      /\ Goto(r, "locked")
                      /\ UNCHANGED <<wallet, ledger, call, entry, outcome>>

\* Mutant: the column takes any balance.
FlushErrorUnbounded(r, w, stale) ==
  IF w # row[r] /\ wallet[User(r)].version # row[r].version THEN stale ELSE "none"

\* The flush of the changed copy w: UPDATE ... WHERE id AND version, under
\* the row lock.  No row matched is StaleDataError; a balance out of range
\* fails the CHECK or the NUMERIC column; an unchanged copy issues no statement.
FlushError(r, w, stale) ==
  IF w = row[r] THEN "none"
  ELSE IF wallet[User(r)].version # row[r].version THEN stale
  ELSE IF w.balance \notin Balances THEN "internal_error"
  ELSE "none"

Flushed(r, w) == IF w = row[r] THEN w ELSE [w EXCEPT !.version = row[r].version + 1]

Flush(r, w, e, stale, next) ==
  /\ lock[User(r)] \in {r, Free}
  /\ IF FlushError(r, w, stale) # "none"
     THEN Refuse(r, FlushError(r, w, stale))
     ELSE /\ row'   = [row EXCEPT ![r] = Flushed(r, w)]
          /\ entry' = [entry EXCEPT ![r] = e]
          /\ lock'  = [lock EXCEPT ![User(r)] = r]
          /\ Goto(r, next)
          /\ UNCHANGED <<wallet, ledger, call, outcome>>

NewStatus(op) == CASE op = "freeze"   -> "FROZEN"
                   [] op = "unfreeze" -> "ACTIVE"
                   [] op = "close"    -> "CLOSED"

\* freeze_wallet, unfreeze_wallet and close_wallet do not catch StaleDataError.
FlushStatus(r) ==
  /\ pc[r] = "locked" /\ call[r].op \in StatusOps
  /\ Flush(r, [row[r] EXCEPT !.status = NewStatus(call[r].op)], NoEntry,
           "internal_error", "written")

------------------------------------------------------------------------------
(* credit and debit.                                                       *)

\* Mutant: credits and debits have reference ids of their own.
PriorOfSameType(r) ==
  {i \in 1..Len(ledger[User(r)]) :
     /\ ledger[User(r)][i].ref = call[r].ref
     /\ (ledger[User(r)][i].type = "CREDIT") = (call[r].op = "credit")}

\* The entries of r's wallet with r's reference id; ux_wallet_ledger_wallet_reference
\* keeps them to one at most.
Prior(r) == {i \in 1..Len(ledger[User(r)]) : ledger[User(r)][i].ref = call[r].ref}

\* A known reference is a replay: the wallet as it is now and the entry as it
\* was written, whatever its type and amount.  Then debit checks the funds.
LookupReference(r) ==
  /\ pc[r] = "locked" /\ call[r].op \in MoneyOps
  /\ \/ \E i \in Prior(r) : Reply(r, row[r], ledger[User(r)][i])
     \/ /\ Prior(r) = {}
        /\ IF call[r].op = "debit" /\ row[r].balance < call[r].amount
           THEN Refuse(r, "insufficient_balance")
           ELSE /\ Goto(r, "looked_up")
                /\ UNCHANGED <<wallet, ledger, lock, call, row, entry, outcome>>

\* Mutant: balance_before is read after the balance was changed.
NewEntryReadLate(c, before) ==
  LET after == IF c.op = "credit" THEN before + c.amount ELSE before - c.amount
  IN  [type |-> IF c.op = "credit" THEN "CREDIT" ELSE "DEBIT", amount |-> c.amount,
       before |-> after, after |-> after, ref |-> c.ref]

\* The entry the code builds from its locals balance_before and balance_after.
NewEntry(c, before) ==
  [type   |-> IF c.op = "credit" THEN "CREDIT" ELSE "DEBIT",
   amount |-> c.amount,
   before |-> before,
   after  |-> IF c.op = "credit" THEN before + c.amount ELSE before - c.amount,
   ref    |-> c.ref]

\* Mutant: save() commits, the entry follows in a transaction of its own.
SaveAndCommit(r) ==
  /\ pc[r] = "looked_up"
  /\ LET e == NewEntry(call[r], row[r].balance)
     IN  /\ e.after \in Balances
         /\ row'    = [row EXCEPT ![r] = Flushed(r, [row[r] EXCEPT !.balance = e.after])]
         /\ wallet' = [wallet EXCEPT ![User(r)] = row'[r]]
         /\ entry'  = [entry EXCEPT ![r] = e]
  /\ Goto(r, "updated")
  /\ UNCHANGED <<ledger, lock, call, outcome>>

UpdateBalance(r) ==
  /\ pc[r] = "looked_up"
  /\ LET e == NewEntry(call[r], row[r].balance)
     IN  Flush(r, [row[r] EXCEPT !.balance = e.after], e, "concurrency_conflict", "updated")

\* Mutant: the handler returns without commit().
InsertEntryUncommitted(r) == pc[r] = "updated" /\ Reply(r, row[r], entry[r])

\* The INSERT of the entry; an IntegrityError is not caught here.
InsertEntry(r) ==
  /\ pc[r] = "updated"
  /\ IF Prior(r) # {}
     THEN Refuse(r, "internal_error")
     ELSE /\ Goto(r, "written")
          /\ UNCHANGED <<wallet, ledger, lock, call, row, entry, outcome>>

------------------------------------------------------------------------------
(* The end of every writing request, and failure.                          *)

\* COMMIT publishes the row and the entry together.  The answer may be lost
\* after it took effect.
Commit(r) ==
  /\ pc[r] = "written"
  /\ wallet' = [wallet EXCEPT ![User(r)] = row[r]]
  /\ ledger' = IF entry[r] = NoEntry THEN ledger
               ELSE [ledger EXCEPT ![User(r)] = Append(@, entry[r])]
  /\ \/ Answer(r, "ok", row[r], entry[r])
     \/ Answer(r, "lost", NoWallet, NoEntry)

\* The worker dies, the connection breaks or a timeout fires before COMMIT:
\* PostgreSQL rolls the transaction back.
Fail(r) ==
  /\ pc[r] \notin Done
  /\ Refuse(r, "lost")

\* What request r does once it has arrived.
Step(r) ==
  \/ GetWallet(r)
  \/ CreatePreCheck(r)
  \/ CreateInsert(r)
  \/ LockWallet(r)
  \/ FlushStatus(r)
  \/ LookupReference(r)
  \/ UpdateBalance(r)
  \/ InsertEntry(r)
  \/ Commit(r)

Next ==
  \E r \in Requests :
    \/ \E c \in Call : Receive(r, c)
    \/ Step(r)
    \/ PublicIdCollides(r)
    \/ Fail(r)

Spec == Init /\ [][Next]_vars

\* A request that can go on does: the event loop resumes a handler whose
\* statement has returned.  Strong fairness for the statements that wait:
\* PostgreSQL grants a lock in the order it was asked for, so others cannot
\* take it for ever.  Requests need not arrive, ids collide or failures happen.
Fairness ==
  \A r \in Requests :
    /\ WF_vars(Step(r))
    /\ SF_vars(LockWallet(r))
    /\ SF_vars(CreateInsert(r))

FairSpec == Spec /\ Fairness

------------------------------------------------------------------------------
(* Properties.                                                             *)

Locking == {"locked", "looked_up", "updated", "written"}
Labels  == Done \union {"received", "prechecked"} \union Locking

\* Each label is reached only by the operations whose code has it, and no entry
\* exists before balance_after is computed.
LabelFits(r) ==
  /\ pc[r] # "idle" => call[r] \in Call
  /\ pc[r] = "prechecked" => call[r].op = "create"
  /\ pc[r] = "locked" => call[r].op \in StatusOps \union MoneyOps
  /\ pc[r] \in {"looked_up", "updated"} => call[r].op \in MoneyOps
  /\ pc[r] = "written" => call[r].op # "get"
  /\ pc[r] \in {"received", "prechecked", "locked", "looked_up"} => entry[r] = NoEntry

\* Every variable keeps its shape, the balance column its range, and every
\* request has the form its label says.
TypeOK ==
  /\ wallet  \in [Users -> Wallet \union {NoWallet}]
  /\ ledger  \in [Users -> Seq(Entry)]
  /\ lock    \in [Users -> Requests \union {Free}]
  /\ pc      \in [Requests -> Labels]
  /\ call    \in [Requests -> Call \union {NoCall}]
  /\ row     \in [Requests -> Wallet \union {NoWallet}]
  /\ entry   \in [Requests -> Entry \union {NoEntry}]
  /\ outcome \in [Requests -> Outcomes]
  /\ \A r \in Requests : LabelFits(r)

\* The requests whose transaction holds the lock of their user's row.
InTransaction(r) == pc[r] \in Locking

\* One transaction at a time is past SELECT ... FOR UPDATE (or past the INSERT
\* of a wallet) for a user, and the lock is held by no other kind of request:
\* an answered or failed request that kept it would block the wallet for ever.
LockHolders ==
  /\ \A r \in Requests : InTransaction(r) => lock[User(r)] = r
  /\ \A u \in Users : lock[u] # Free => InTransaction(lock[u]) /\ User(lock[u]) = u

\* What r is about to commit as a movement is its operation applied to the
\* row and the ledger as they are committed now.
MovementIsCurrent(r) ==
  LET w == wallet[User(r)]
  IN  /\ w # NoWallet /\ w.status = "ACTIVE"
      /\ entry[r] \in Entry /\ entry[r] = NewEntry(call[r], w.balance)
      /\ row[r] = [status |-> "ACTIVE", balance |-> entry[r].after, version |-> w.version + 1]
      /\ Prior(r) = {}

\* The same for freeze, unfreeze and close; freezing a frozen wallet writes nothing.
StatusIsCurrent(r) ==
  LET w == wallet[User(r)]
  IN  /\ w # NoWallet /\ entry[r] = NoEntry
      /\ Refusal(call[r].op, w) = "none"
      /\ \/ row[r] = w /\ w.status = NewStatus(call[r].op)
         \/ row[r] = [status |-> NewStatus(call[r].op), balance |-> w.balance,
                      version |-> w.version + 1]

RequestIsCurrent(r) ==
  LET w  == wallet[User(r)]
      op == call[r].op
  IN  /\ pc[r] \in {"locked", "looked_up"} =>
           w # NoWallet /\ row[r] = w /\ Refusal(op, w) = "none"
      /\ pc[r] = "looked_up" =>
           Prior(r) = {} /\ (op = "debit" => w.balance >= call[r].amount)
      /\ pc[r] = "updated" => MovementIsCurrent(r)
      /\ pc[r] = "written" /\ op \in MoneyOps => MovementIsCurrent(r)
      /\ pc[r] = "written" /\ op \in StatusOps => StatusIsCurrent(r)
      /\ pc[r] = "written" /\ op = "create" =>
           w = NoWallet /\ row[r] = NewWallet /\ entry[r] = NoEntry

\* No transaction decides or writes on stale data: between its statements, with
\* any other requests in between, the row it read is the committed row, the
\* checks it made still hold and what it wrote is its operation on that row.
TransactionIsCurrent == \A r \in Requests : RequestIsCurrent(r)

\* The ledger "reconstructs how a wallet arrived at its current balance"
\* (wallet_ledger.py:34-35): every entry starts where the one before it ended,
\* is off by its amount, and the last one ends at the balance of the row.
LedgerReconstructsBalance ==
  \A u \in Users :
    LET es == ledger[u]
    IN  /\ \A i \in 1..Len(es) :
             /\ es[i].before = IF i = 1 THEN 0 ELSE es[i - 1].after
             /\ es[i].after = IF es[i].type = "CREDIT" THEN es[i].before + es[i].amount
                             ELSE es[i].before - es[i].amount
        /\ wallet[u] = NoWallet => es = << >>
        /\ wallet[u] # NoWallet =>
             wallet[u].balance = IF es = << >> THEN 0 ELSE es[Len(es)].after

\* However often a client repeats a reference id, concurrently or after an
\* answer it never got, the movement is in the ledger once.
ReferenceAppliedOnce ==
  \A u \in Users : \A i, j \in 1..Len(ledger[u]) :
    ledger[u][i].ref = ledger[u][j].ref => i = j

\* A wallet closes only when empty and stays so: no money is ever locked away
\* in a closed wallet, whatever was in flight when close_wallet ran.
ClosedWalletIsEmpty ==
  \A u \in Users : wallet[u] # NoWallet /\ wallet[u].status = "CLOSED" => wallet[u].balance = 0

\* A movement answered with success is committed: the entry in the response is
\* in the ledger of that user, under the reference the client sent.
AnsweredMovementIsDurable ==
  \A r \in Requests :
    pc[r] = "done" /\ outcome[r] = "ok" /\ call[r].op \in MoneyOps =>
      \E i \in Prior(r) : entry[r] = ledger[User(r)][i]

\* The version column and the unique index on references are "defense in
\* depth" (wallet_service.py:35-38): the row lock already prevents every
\* conflict, so no money request is told concurrency_conflict and none hits the
\* unique index at the INSERT of its entry.
DefenceInDepthIsNeverNeeded ==
  \A r \in Requests :
    /\ outcome[r] # "concurrency_conflict"
    /\ pc[r] = "updated" => Prior(r) = {}

\* Every request that arrives is answered or fails: nobody waits for ever for
\* a lock that an earlier request did not give back.
EveryRequestEnds == \A r \in Requests : pc[r] \notin Done ~> pc[r] \in Done

\* A step that changes a committed row replaces the version before it.
VersionsFollow ==
  \A u \in Users : wallet[u] # NoWallet /\ wallet'[u] # wallet[u] =>
    wallet'[u] # NoWallet /\ wallet'[u].version = wallet[u].version + 1

\* No update is lost and no wallet is replaced: two transactions never commit
\* on top of the same version of a row, whichever of the two guards failed to
\* keep them apart (wallet_service.py:61-67 names the race of two creators).
NoLostUpdate == [][VersionsFollow]_vars

\* "Idempotent replay: ... we return the prior result unchanged"
\* (wallet_service.py:148-149): every movement answered with success shows the
\* balance its own entry left.  Not what the code does: see the README.
ReplayReturnsPriorResult ==
  \A r \in Requests :
    pc[r] = "done" /\ outcome[r] = "ok" /\ call[r].op \in MoneyOps =>
      row[r].balance = entry[r].after

\* The committed rows without their version.
Account(w) == IF w = NoWallet THEN NoWallet ELSE [status |-> w.status, balance |-> w.balance]
Accounts == [u \in Users |-> Account(wallet[u])]

Atomic == INSTANCE AtomicWallet WITH account <- Accounts, NoAccount <- NoWallet

\* Serializability of the money operations: however the statements of concurrent
\* requests interleave, fail and are repeated, the committed tables change only
\* by whole operations of AtomicWallet, each allowed in the state it applies to.
AtomicSpec == Atomic!Spec

\* The inductive invariant: none of its parts is inductive alone.
IInv ==
  /\ TypeOK
  /\ LockHolders
  /\ TransactionIsCurrent
  /\ LedgerReconstructsBalance
  /\ ReferenceAppliedOnce
  /\ ClosedWalletIsEmpty
  /\ AnsweredMovementIsDurable
  /\ DefenceInDepthIsNeverNeeded
==============================================================================
