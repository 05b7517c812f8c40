# FinFlow services: TLA+ models, checks and proofs

FinFlow is three FastAPI services in `src/`: `auth-service`, `user-service` and
`wallet-service`. Each runs several workers of one asyncio loop and keeps its state in
a PostgreSQL database of its own. This directory models the parts whose correctness
depends on how requests interleave, fail and are repeated, checks them with TLC on small
instances and proves their safety properties for all instances with TLAPS.

## 1. Inventory

| Component | State | Operations | Modelled |
|---|---|---|---|
| WalletService | `wallets` (one row per user: status, balance, version), `wallet_ledger` (append-only) | get, create, freeze, unfreeze, close, credit, debit | `WalletService`, `AtomicWallet` |
| AuthService | `auth_users` (status, failed_login_attempts, locked_until), `refresh_tokens` (revoked_at, replaced_by, expires_at), `login_attempts` (audit) | register, login, refresh, logout, logout-all, me | `AuthService`, `AtomicAuth` |
| Address book | `addresses` (is_default) | list, create, update, delete | `AddressBook`, `AtomicBook` |
| KYC | `kyc_profiles` (status, PAN, verification_date) | get, submit, update | `UserProfile`, `AtomicProfile` |
| Profile and preferences | `users`, `user_preferences`, `notification_preferences` | get-or-create, update | `UserProfile`, `AtomicProfile` |
| Access tokens | none (signed JWT) | issue in auth-service, verify in all three | no: stateless |
| HTTP shell, metrics, logs, health, configuration, migrations, images | none of the system | | no |

**Interaction.** The services do not call each other. They share the JWT secret: a token
that auth-service signed identifies the user in the other two, which verify it without
asking (so logging out ends refresh tokens, not access tokens). Within a service all
sharing is through the database: a request gets a session from `get_db`, which rolls back
when an exception leaves the endpoint and closes the session in any case; the service
method commits. Isolation is PostgreSQL's default, READ COMMITTED. Only the wallet service
reads `FOR UPDATE`.

**What is hard.** Requests interleave at every `await` on the database, across workers and
inside one. A worker can die, or its connection break, between any two statements and
between COMMIT and the answer. Clients repeat requests. SQLAlchemy writes only the columns
whose value it saw change, so concurrent writers of a row mix columns. Locks come from
`FOR UPDATE`, from UPDATE and from unique indexes, and last to the end of the transaction.

**What makes each component correct.**
- Wallet: one wallet per user; no update lost; the ledger explains the balance; a
  reference id moves money once; a closed wallet is empty and final; what was answered
  with success is committed; nobody waits for ever.
- Auth: a token that was exchanged or logged out stays unusable; exchanging is all or
  nothing; a token is exchanged once; a sweep ends every session; a lock is lifted only by
  the clock and a correct password; status, counter and `locked_until` agree; every COMMIT is
  the whole operation of its call, and success is answered to no other.
- Address book: the default moves as a whole, and a deleted one is succeeded; at most one
  default address; at most ten addresses; a deleted address stays deleted; a COMMIT changes
  only what its call asks for. (Nothing promises that there is a default: a client gives it
  up with `is_default=false`.)
- KYC: a profile in review or verified is not edited; no decision outlives the data it was
  made on.
- Profile and preferences: the profile is there before anything that refers to it; first
  access succeeds, and again after any failure; no request writes back what it read;
  requests cannot deadlock.

The hazards this code is exposed to, each at its line, are in `PROJECT.json`.

## 2. Modules

| Module | What it is |
|---|---|
| `AtomicWallet` | What the wallet service promises: accounts and ledgers changed by indivisible operations |
| `WalletService` | The wallet service at the grain of its SQL statements |
| `MCWalletService` | Its instances for TLC |
| `WalletServiceProofs` | Its theorems |
| `AtomicAuth`, `AtomicBook`, `AtomicProfile` | The same promise of the other components |
| `AuthService` | The auth service at the grain of its SQL statements |
| `AddressBook` | The address book of one user of user-service |
| `UserProfile` | Profile, settings and KYC profile of one user of user-service |
| `MCAuthService`, `MCAddressBook`, `MCUserProfile` | Their instances for TLC |
| `AuthServiceProofs`, `AddressBookProofs`, `UserProfileProofs` | Their theorems |
| `AuthServiceCommitsProofs` | The theorem that every COMMIT of the auth service is its call's operation, under any overlap |
| `AuthServiceSequentialProofs`, `AddressBookSequentialProofs` | Theorems about requests that do not overlap: those of one account, or a lone request on the book |

Each component's module ends with its properties and its inductive invariant `IInv`. The
services share nothing, so no module composes them. Each component has an abstract
specification, whose operations are indivisible and know no requests, locks or transactions. They
differ in how far the code keeps them:

| Abstract specification | Implemented by | When |
|---|---|---|
| `AtomicWallet` | `WalletService` | always: a row is locked before it is read, and a new one is kept single by its unique index |
| `AtomicProfile` | `UserProfile` | always, but for the guard of KYC amendments; that one while no two requests overlap |
| `AtomicAuth` | `AuthService` | while no two requests of one account overlap |
| `AtomicBook` | `AddressBook` | while no two requests of the user overlap |

### WalletService

`wallet` and `ledger` are the committed tables. `lock[u]` is the transaction holding u's row
lock (or the uncommitted key of `ux_wallets_user_id`). A request slot r has `pc[r]`, its
`call[r]`, the ORM object `row[r]`, the pending or answered ledger `entry[r]` and its `outcome[r]`.

One action is the code between two awaits on the database:

| Action | Code |
|---|---|
| `Receive` | the endpoint is called by an authenticated user with validated input |
| `GetWallet` | `get_wallet` |
| `CreatePreCheck`, `CreateInsert`, `PublicIdCollides` | the SELECT and the INSERT of `create_wallet`; the INSERT waits for another creator, or fails on the unique index of the user or of the random public id |
| `LockWallet` | `SELECT ... FOR UPDATE` and the checks each operation makes on the row |
| `FlushStatus` | the UPDATE of freeze, unfreeze and close (none when the status does not change) |
| `LookupReference` | the idempotency lookup, the replay, and the funds check of debit |
| `UpdateBalance` | `UPDATE ... WHERE id AND version`, with StaleDataError and the range of the column |
| `InsertEntry` | the INSERT into the ledger, with its unique index |
| `Commit` | COMMIT; the answer may be lost afterwards |
| `Fail` | worker death, broken connection or timeout before COMMIT: rollback |

Money is an integer number of minor units (inputs have at most two decimals, the column
four). `MaxBalance` stands for the largest value of NUMERIC(19,4). Metrics, logs and the
public wallet id are left out, but for its collisions.

The specification `FairSpec` assumes weak fairness of each request's next step (the event
loop resumes a coroutine whose statement has returned) and strong fairness of the two
statements that wait for a lock (`LockWallet`, `CreateInsert`), since PostgreSQL queues
waiters first come, first served. Nothing makes requests arrive, failures happen or random
ids collide (`PublicIdCollides` is an action without fairness, so that it cannot pass for the
progress of a creator that waits).

### AuthService

`account` and `token` are the committed tables. A login reads the account row into `seen[r]` and
changes an object `row[r]`; at COMMIT `Written` puts the columns that differ from `seen[r]`
over the row as it is by then, which is what SQLAlchemy's UPDATE does. `issued[r]` is a token
inserted and not committed, `swept[r]` the tokens a sweep's snapshot selected. `accountLock` and
`tokenLock` last from UPDATE (or INSERT) to COMMIT, and no read takes them. `RegisterCheck` and
`RegisterInsert` are `register`; `LoginRead` and `LoginFlush` are `authenticate` before and
after the row is read; `TokenRead`, `UserCheck` and `Revoke` are `refresh` (and the first and
last `logout`); `UserCheck`, `SweepSelect` and `SweepRevoke` are `logout_all` and the answer to
a reused token. The rows a sweep waits for are taken at once; PostgreSQL takes them one by
one, which allows no other outcome, since a writer of a token holds no other token.
`LockoutEnds` and `TokenExpires` are the clock. `parent` is not a column: it remembers,
for the properties, which token another was exchanged for. Passwords are right or wrong;
SUSPENDED and DELETED are set by no code. `locked_until` is absent, ahead or over: that a
wrong password, read before a lock and written after it, sets a slightly earlier future time
than the lock had is below the grain of the model (`Overwrites` allows the write; its
effect on the time is not told apart).

`CommitsFollowCalls` says what every COMMIT does whatever overlaps it: `Performs(r)` is the
operation that `call[r]` asks for, from the rows as they are by then: a login writes the columns
it changed and opens one session, a refresh revokes its token and inserts one successor, a
sweep revokes what its snapshot selected, nothing else changes, and no other request is
answered with success. What it leaves open is whether the decision was still justified,
which is where two overlapping requests may contradict each other.

`AtomicAuth` has the operations `Register`, `RightPassword`, `WrongPassword`, `Exchange`, `LogOut`,
`LogOutEverywhere`, `Reuse` and the clock. `AtomicAuthSpec` holds under `OnePerAccount`: of any
account, at most one open request serves it (`Serves`; a request with a token belongs to the
account that owns it). `DecisionsStayCurrent` says what the condition buys: from the read to the COMMIT
the row a login read, the token a refresh or logout revokes, and the sessions a sweep selected
are still what they were, although nothing locks them. Requests of other accounts, failures and
the clock interleave freely.

### AddressBook

`book[a]` is the committed row of address a: absent, plain or default. `draft[a]` is the row as
the transaction that holds `lock[a]` left it; without a lock the two agree. `row[r]` is
`is_default` of the ORM object r read or will insert, `todo[r]` the rows its bulk UPDATE
(or its promotion) selected and has not reached.

| Action | Code |
|---|---|
| `CreateCheck`, `Unset`, `UnsetRow`, `Insert` | `create_address`: count and limit; `unset_default_for_user` as a snapshot and one lock at a time; the INSERT |
| `UpdateRead`, `Unset`, `UnsetRow`, `UpdateWrite` | `update_address`: only columns that are given and differ from the read are written; a row that is gone is StaleDataError |
| `DeleteRead`, `DeleteRow`, `Promote`, `PromoteRow` | `delete_address`: was_default from the first read, the list from a later one, the UPDATE of its head |
| `Commit`, `Fail` | COMMIT; worker death, broken connection, or the victim of a deadlock |

Of an address only `is_default` matters; `created_at` is left out, so any remaining row may
head the list. An id is used again when nobody refers to it, which lets a few ids stand for
all of `uuid4`. A bulk UPDATE looks at each row again after the wait, as READ COMMITTED does.

`AtomicBook` has `Create`, `Update` and `Delete` as functions from the book to the book: a default that is
set moves, a default that is given up is nobody's, a default that is deleted is succeeded.

### UserProfile

`saved[t]` is the committed row of the user in table t (profile, two settings tables, KYC), `draft`
and `lock` as above. Every request first runs `get_current_user`: `ReadUser`, `CreateUser`,
`CommitUser` (a transaction of its own). Then `Profile`, `ReadSettings` or `ReadKyc` read and
refuse, `Create` and `CommitCreated` insert what is missing, `Update` writes the columns that
are given and differ from what was read, and `Commit` ends. An INSERT waits for another
inserter and fails on the unique index (`Insert`), an error nobody catches. The columns a
client edits are one column `data`; `status` is `kyc_status`. `Review` is external: the source
places the review workflow outside of this service (`kyc_service.py:19-21`), so a
reviewer may decide whenever the committed profile is in review and its row is not locked.
`verification_date` is left out: no code sets it, and the repository skips the None that
`update_kyc` passes for it.

`AtomicProfile` has `ProvideUser`, `ProvideSettings`, `Submit`, `Edit`, `Amend` and `Review`. Its
`UnguardedSpec` leaves out of `Amend` the condition that the profile is neither in review nor
verified: that is all overlap costs here, since a row is inserted under a unique index and each
UPDATE writes only what its own payload changes.

In `AddressBook` and `UserProfile` `alone` is not in the code. It is the open request that no other
has overlapped so far, or nobody: `Receive` sets it when no request is open and clears it when one
is. A property of a lone request thus speaks of every state that earlier races and failures left.
The answer "lost" after COMMIT covers a crash, a broken connection, and a
response that cannot be built: an UPDATE expires `updated_at`, which the response models
of user-service then read (see the hazard at `db/base.py:30`).

## 3. Runs

| Run | Instance | Shows |
|---|---|---|
| `wallet_safety` | 1 user, 2 slots, 2 references, amounts 1 and 2, balance up to 2, versions up to 5 | the eight invariants that make up `IInv` |
| `wallet_contention` | 3 slots, amount 2, versions up to 3 | `NoLostUpdate`; `WalletService` implements `AtomicWallet` |
| `wallet_liveness` | 2 slots, 1 reference, fairness | every request ends |
| `wallet_replay` | as `wallet_safety` | violated: see findings |
| `auth_concurrent` | 1 account, 2 slots, 2 tokens, 2 failures lock, counter up to 2 | what holds whatever overlaps: rotation, the lockout, and that every COMMIT is its call's operation |
| `auth_sequential` | 2 accounts, 2 slots, no two open requests of one account, 3 tokens, counter up to 3 | what holds then; `AuthService` implements `AtomicAuth` |
| `auth_double_refresh` | 2 slots, 3 tokens | violated: see findings |
| `auth_sweep` | 2 slots, 3 tokens | violated: see findings |
| `address_edits` | 2 slots, 4 ids, limit 2 | whatever overlaps: the limit, deletions, and commits that change only what their call asks for; and a lone request changes the book as `AtomicBook` says |
| `address_one_default` | as `address_edits` | violated: see findings |
| `profile_access` | 2 slots, 2 settings tables, 2 data values | provisioning, deadlock freedom, amendments that go to review, and that the rows change as `AtomicProfile` says, by what the committing request asked for |
| `profile_edits` | as `profile_access` | violated: see findings |

**Bounds.** Wallets of different users share nothing (every row, lock and ledger is indexed
by the user), so one user is enough; the same holds of accounts, except in `auth_sequential`, where
requests of two accounts run beside each other because those of one may not. Two slots give every
pairwise race and, since slots are used again, sequences of any length up to the version
bound; three slots add a waiter behind a waiter. Balance 2 with amounts 1 and 2 makes
credits overflow, debits fail for lack of funds, and both succeed. Two references give a
replay beside a new movement. Five versions are a create, and four changes: credit,
credit, debit, debit, or a freeze in between. `MaxVersion` and `MaxCounter` bound what
arrives (`Receive`), not what the code does with it. Two tokens are a login and an exchange; the
third token of the other runs is a second exchange. Slots, references and tokens are
interchangeable, hence SYMMETRY, except in the liveness run.

`auth_sequential` has `SequentialSpec`, which is `Init` and the steps of `Next` that keep
`OnePerAccount`; it restricts what arrives and nothing else. Its VIEW leaves out what an
ended request asked and was answered, on which no action and none of its properties depends.
`FewTroubles` bounds the instance: one account has wrong passwords, one token expires. Each combines
with every operation on the other account, and the theorems below have no such bound.

In `address_edits` a limit of two lets one create be refused, and two overlapping creates
reach three rows, one above it; four ids leave one for a row being inserted beside them. One
user is enough for the address book and the profile, as for the wallet. Both settings tables are there
because one request could hold a row of one and wait for a row of the other. Two data values make a
payload that changes the row and one that does not, beside the payload that leaves the column
out. Slots are used again, so every run has sequences of any length, races, and lone
requests (`alone`) after either.

Every property has a mutant in `PROJECT.json`: a form of a definition with a plausible
bug, kept in the module before the definition it mutates and marked `Mutant`.

**What holds only one at a time.** With two overlapping requests of one account
`LockIsConsistent`, `RotationIsSingleUse`, `SweepEndsEverySession` and with them the refinement
of `AtomicAuth` fail; they are checked and proved under `OnePerAccount`. Two of these
contradict what the code says of itself and are findings. The third does not: a login that
reads before a lock and succeeds after it, or two logins that read the same expired lock,
leave `status`, the counter and `locked_until` in a mixture no single login writes, for
instance `locked` with no `locked_until`. The next correct password repairs it.
`OnlyPasswordUnlocks` holds under concurrency because SQLAlchemy writes changed columns only.

Whatever these break, `CommitsFollowCalls` holds: no request is half done.

In the address book `BookLimit`, `DeletedStaysDeleted` and `CommitsFollowCalls` hold under overlap;
`BookChangesAtomically` is about a request that runs alone, in any book that overlaps left, two
defaults included. `AtMostOneDefault` is violated (see findings): two creates that overlap make two
defaults. A PUT that moves the default beside a delete can leave two, or none.

In the profile `ProfileComesFirst`, `WaitsEmptyHanded`, `EditsGoToReview` and
`ProfileChangesAtomically` hold under overlap, but for the guard of an amendment, which the last
asks of a lone request only. `LoneAccessSucceeds` is about a lone request, whatever
rows failed or racing ones left: of two first accesses that overlap, one meets the unique index and
is answered 500. `DecidedIsImmutable` is violated (see findings). What remains true of that case is
`EditsGoToReview`: the profile is back in review with the new data, because data and status
are written in one UPDATE.

## 4. Proofs

`WalletServiceProofs` proves for all `Users`, `Requests`, `Refs`, `Amounts`, `MaxBalance` and
`MaxVersion`, assuming only that amounts are positive naturals, the bounds naturals, and
the null values distinct from the values they stand for (the ASSUMEs of `WalletService`):

- `Invariance`: `Spec => []IInv`, and from it each of the eight invariants of
  `wallet_safety` by name;
- `NoUpdateIsLost`: `Spec => NoLostUpdate`;
- `Refinement`: `Spec => AtomicSpec`, that is, `WalletService` implements `AtomicWallet` under the
  mapping that forgets versions and requests.

None of the invariants is inductive alone. That the ledger explains the balance after a
`Commit` needs that the row being published was computed from the row committed now,
which is `TransactionIsCurrent`; that it stays so while others move needs that no other
transaction of the user is past its locking statement, which is `LockHolders`
(lemma `Exclusion`). `ReferenceAppliedOnce` needs that the lookup made before the UPDATE
still holds at COMMIT, again by `TransactionIsCurrent`. `IInv` is their conjunction with the
type invariant. The proof has a lemma per kind of step (`AnswerPreserves`,
`AdvancePreserves`, `CommitPreserves`) and one per action, which says why that action is of
that kind. The other two theorems rest on `OnlyCommitWrites` (no other action changes a
committed table) and `CommitIsAtomic` (under `IInv` a Commit is a step of `AtomicWallet` or a
stutter).

`AuthServiceProofs` proves, for all `Emails`, `Tokens`, `Requests`, `MaxFailed` and `MaxCounter`
(assuming the limit positive and the null values distinct), `Spec => []IInv` and from it the
four invariants of `auth_concurrent`, and `OnlyPasswordUnlocks` as an action property. Nothing is
read FOR UPDATE, so a request may decide on rows that have changed since; what makes it
sound is less than currency. `RequestsFit` says that what a request read of still has a row
(accounts and tokens are never deleted) and that a request about to commit holds the lock of
what it writes; `LockHolders` that a lock has no other owner, and an uncommitted token one request. Under both,
`CommittedTokens` writes rows nobody else writes, which gives `ExchangeIsAtomic`: the INSERT of the
successor and the UPDATE of the old token appear together. `EndedTokenIsRevoked`
follows because no code clears `revoked_at`. For `OnlyPasswordUnlocks` the proof compares
`Written` with what `Failure` and `Success` made of the row as read: a wrong password leaves
`status` and `locked_until` alone or sets them. There is a lemma for each way a step can end
and one per action.

`AuthServiceCommitsProofs` proves `CommitsFollowCalls` with no hypothesis. `WritesFollowCalls`, inductive
together with `IInv`, says of each request that what it selected is its account's and what it has
written is what its call asks for. It survives the steps of others because owners and revocations
last (`Persist`), the locks of a request are its own (`StepLeavesOthers`), and a token in a
sweep's snapshot that it found revoked stays so. At COMMIT one lemma per operation
(`RegisterPerforms` to `SweepPerforms`, then `CommitPerforms`) compares the published rows with `Performs`;
`RefusalPerforms` shows that a success answered without a COMMIT is the logout of no session.

`UserProfileProofs` proves for all settings tables, data and requests every property of
`profile_access`. `Writers` says who may hold a lock and that a KYC draft is in review, hence
`EditsGoToReview` at COMMIT. `RequestsFit` says that past provisioning the profile is committed
(`ProfileComesFirst`) and where a request that waits stands: with `Writers`, `WaitsEmptyHanded`.
`Alone` adds that what a lone request decided on is still so and what it has written is what it
was asked for (`Undisturbed`): the row it will insert is missing, the profile it will amend is not
decided. That gives `LoneAccessSucceeds`, and `DecisionsStand`, the part of `DecidedIsImmutable` that is
true. `DraftsAreOneStepAhead` relates an uncommitted row to the row that is committed now, not to
the one its transaction read. It is kept because the lock of a row excludes every other writer
of it, the reviewer included, and because an INSERT makes a row only where there is none;
`ProfileChangesAtomically` follows.

`AddressBookProofs` proves for every limit and all finite sets of ids and requests `TypeOK`,
`BookLimit`, `DeletedStaysDeleted` and `CommitsFollowCalls`. `BookLimit` is a counting argument: `Creators` are the
requests that have counted and will insert, and `CreatorsAreCounted` says that rows and creators
together number at most `MaxAddresses - 1 + |Requests|`. A check that passes saw fewer rows than the
limit and adds one creator to at most `|Requests| - 1` others; a commit turns a creator into a
row. `Locks` says of every locked row that its draft is what its owner may make (`May`) of the
row committed now, which gives `CommitsFollowCalls`, and that only a creator's row is written while absent
from the book, which gives `DeletedStaysDeleted`.

### Refinements of the other three

All of these compare what a COMMIT publishes with what an indivisible operation would do to the
committed rows of that moment, so each needs an invariant about the rows that are written and not yet
committed, inductive together with `IInv`.

`AuthServiceSequentialProofs` has the hypothesis `[]OnePerAccount` in every theorem. Behaviours that
satisfy it are those of a client that waits for an answer, of any number of such clients
with accounts of their own; `auth_sequential` explores them. The invariant is `DecisionsStayCurrent`. A
request that has decided serves its account (`DecidedServes`), so that a step of another
request changes neither that account nor its sessions (`CommitTouchesOwn`,
`OthersStayCurrent`), and the clock only ends a lockout or a token, which disturbs nobody's decision.
With every decision current, `CommitIsAtomic` names for each COMMIT the operation of `AtomicAuth` it
is, hence `SequentialRefinement`. The properties then follow from `AtomicAuth`'s few steps rather than
from the service's many: `SequentialLockouts` and `SequentialRotation` by induction
over atomic steps, `SequentialSweeps` because a sweep selected all sessions there are.

`AddressBookSequentialProofs` proves `BookChangesAtomically` with no hypothesis, since the property is
itself about a lone request. `DraftsAreOnTheWay` gives the exact rows of that request at each of
its statements (`Progress`): the defaults already unset, the deleted row without a successor yet,
and at the end the book of its own operation (`Created`, `Updated`, `Deleted` of its call). It needs of `IInv` that
only the lone request holds locks, and that a create that has counted still finds room.
`SequentialRefinement` is that `Spec` with `[]OneAtATime` implements `AtomicBook`, since then every open
request is alone.

Of the profile, `UnguardedRefinement` (`Spec` implements `UnguardedSpec`) follows from `ProfileChangesAtomically`
with no condition, and `SequentialRefinement` under `[]OneAtATime`, guard included.

Only model-checked: `EveryRequestEnds`, since liveness under fairness is out of the
prover's reach. Every other property of a passing run is stated by a theorem.

## 5. Findings

- **A replay does not return the prior result** (`wallet_replay`; `wallet_service.py:148-164`).
  The comment says the prior result is returned unchanged. The answer pairs the prior
  ledger entry with the wallet of today, so `available_balance` differs from
  the first answer when anything moved in between.
- **A refresh token can be exchanged twice** (`auth_double_refresh`; `auth_service.py:183-210`).
  Two refreshes that read the token before either commits both succeed; the second is not
  recognised as reuse even though it is committed after the first was answered.
- **Logout-all misses a session** (`auth_sweep`; `refresh_token_repository.py:50-59`). The
  sweep's snapshot does not contain the token of a refresh that commits after it, whether
  that was open already or runs while the sweep waits for its rows. A refresh that
  had read its token before the sweep and writes after it survives in the same way.
- **A book may have two defaults, or none** (`address_one_default`; `address_service.py:39`). The
  README of user-service (line 101) says that exactly one default is enforced. Two creates
  that overlap each find no default of the other and both insert one. (And a PUT with
  `is_default=false` on the default address, `address_service.py:74`, leaves none; no later operation but
  a client's choice, or an emptied book, brings one back.)
- **A KYC profile in review is edited** (`profile_edits`; `kyc_service.py:65`). The comment at
  `kyc_service.py:19-21` says that it can no longer be. Of two PUTs that read a rejected profile both
  pass the check; the first sends it to review, and the second edits it there, or when the
  reviewer has verified it meanwhile.

## 6. Not modelled

- **Access tokens, password hashing**: stateless functions; the models take the authenticated
  user as an input. That access tokens outlive a logout-all is a hazard without a
  property, since no component keeps the state it would be about.
- **login_attempts**: append-only, never read; its INSERTs are part of the transactions
  `AuthService` models.
- **HTTP shell** (middleware, metrics, logs, health, configuration) and **deployment**: no state
  of the system. The exception handlers appear as the answers of the models.
- **Connection pool**: how many requests can wait at once is not a property of the
  locks; listed as a hazard.
- **Field-level validation and formatting** (PAN pattern, country, money precision beyond
  the integer amounts): pure functions without a bearing on the properties above. The comment of
  `mask_pan` (`schemas/kyc.py:14`) shows an output one character shorter than the function gives.
- **Two orders of locks** in the address book (two PUTs that move the default in opposite
  directions): PostgreSQL resolves the deadlock by failing one request, which is `Fail`.

What could follow: liveness of the three other modules, which needs fairness of the statements
that wait.
