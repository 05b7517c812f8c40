----------------------------- MODULE UserProfile -----------------------------
(***************************************************************************)
(* user-service: the rows of one user that exist once: the profile itself, *)
(* made on the first authenticated access, the two settings tables, made   *)
(* on theirs, and the KYC profile, which the user submits and amends and   *)
(* an external reviewer decides.  Addresses are in AddressBook.            *)
(*                                                                         *)
(* One action stands for the code between two awaits on the database, at   *)
(* READ COMMITTED; nothing is read FOR UPDATE.  Rows are never deleted.    *)
(* The columns a client edits are one column `data`.  verification_date is *)
(* left out: update_kyc passes None, which the repository skips.           *)
(***************************************************************************)
CONSTANTS
  Settings,   \* user_preferences and notification_preferences, the same code
  Data,       \* what the editable columns of a row can hold
  Default,    \* what they hold in a row made without being told
  Requests,   \* slots for HTTP requests of the user
  NoRow,      \* no row in the table
  NoCall,     \* the slot is free
  Same,       \* the payload does not give the column
  Free        \* nobody holds the row lock, or runs alone

Tables == Settings \union {"users", "kyc_profiles"}

ASSUME TablesAssumption == Settings \intersect {"users", "kyc_profiles"} = {}
ASSUME DataAssumption   == Default \in Data /\ Same \notin Data

\* `status` is KycStatus in kyc_profiles ("pending" is set by no code), and no
\* column elsewhere.
Row == [data : Data, status : {"none", "in_review", "verified", "rejected"}]
ASSUME NullAssumption == NoRow \notin Row /\ Free \notin Requests

\* No payload sets a column of `users` back to NULL.
Call == [op : {"get"}, table : Tables]
  \union [op : {"put"}, table : Tables \ {"users"}, wish : Data \union {Same}]
  \union [op : {"put"}, table : {"users"}, wish : (Data \ {Default}) \union {Same}]
  \union [op : {"submit"}, table : {"kyc_profiles"}, wish : Data]
ASSUME CallAssumption == NoCall \notin Call

Outcomes == {"none", "ok", "lost", "kyc_profile_not_found", "kyc_already_submitted",
             "kyc_immutable_state", "internal_error"}

VARIABLES
  saved,      \* saved[t]: the committed row of the user in t
  draft,      \* draft[t]: the row as the transaction that holds its lock left it
  lock,       \* lock[t]: that transaction
  pc, call,   \* where each request stands and what it asks for
  row,        \* row[r]: the ORM object r has read or made
  outcome,    \* outcome[r]: r's last answer
  alone       \* not in the code: the request that no other has overlapped so far

table    == <<saved, draft, lock>>
requests == <<pc, call, row, outcome, alone>>
vars     == <<table, requests>>

Init ==
  /\ saved = [t \in Tables |-> NoRow]
  /\ draft = [t \in Tables |-> NoRow]
  /\ lock  = [t \in Tables |-> Free]
  /\ pc    = [r \in Requests |-> "idle"]
  /\ call  = [r \in Requests |-> NoCall]
  /\ row   = [r \in Requests |-> NoRow]
  /\ outcome = [r \in Requests |-> "none"]
  /\ alone = Free

------------------------------------------------------------------------------
\* r goes on with this ORM object, having written nothing.
Goto(r, label, object) ==
  /\ pc'  = [pc EXCEPT ![r] = label]
  /\ row' = [row EXCEPT ![r] = object]
  /\ UNCHANGED <<table, call, outcome, alone>>

\* r's INSERT or UPDATE of its row in t.
Write(r, t, new, label) ==
  /\ draft' = [draft EXCEPT ![t] = new]
  /\ lock'  = [lock EXCEPT ![t] = r]
  /\ row'   = [row EXCEPT ![r] = new]
  /\ pc'    = [pc EXCEPT ![r] = label]
  /\ UNCHANGED <<saved, call, outcome, alone>>

\* COMMIT of what r wrote.
Publish(r) ==
  /\ saved' = [t \in Tables |-> IF lock[t] = r THEN draft[t] ELSE saved[t]]
  /\ lock'  = [t \in Tables |-> IF lock[t] = r THEN Free ELSE lock[t]]
  /\ UNCHANGED draft

\* ROLLBACK of it.
Forget(r) ==
  /\ draft' = [t \in Tables |-> IF lock[t] = r THEN saved[t] ELSE draft[t]]
  /\ lock'  = [t \in Tables |-> IF lock[t] = r THEN Free ELSE lock[t]]
  /\ UNCHANGED saved

Answer(r, o) ==
  /\ pc'      = [pc EXCEPT ![r] = "idle"]
  /\ call'    = [call EXCEPT ![r] = NoCall]
  /\ row'     = [row EXCEPT ![r] = NoRow]
  /\ outcome' = [outcome EXCEPT ![r] = o]
  /\ alone'   = Free

\* An answer without a commit: a read, or an exception.
Refuse(r, o) == Answer(r, o) /\ Forget(r)

Receive(r, c) ==
  /\ pc[r] = "idle"
  /\ pc'      = [pc EXCEPT ![r] = "received"]
  /\ call'    = [call EXCEPT ![r] = c]
  /\ outcome' = [outcome EXCEPT ![r] = "none"]
  /\ alone'   = IF \A q \in Requests : pc[q] = "idle" THEN r ELSE Free
  /\ UNCHANGED <<table, row>>

\* Mutant: INSERT ... ON CONFLICT DO UPDATE, which writes over a row that is there.
InsertOver(r, t, new, label) ==
  lock[t] = Free /\ Write(r, t, new, label)

\* An INSERT fails on the unique index if a row is committed, and waits while
\* one is being inserted; nobody catches the IntegrityError.
Insert(r, t, new, label) ==
  \/ saved[t] # NoRow /\ Refuse(r, "internal_error")
  \/ saved[t] = NoRow /\ lock[t] = Free /\ Write(r, t, new, label)

NewRow == [data |-> Default, status |-> "none"]

------------------------------------------------------------------------------
(* get_current_user: get_or_create_profile, before every endpoint.         *)

ReadUser(r) ==
  /\ pc[r] = "received"
  /\ Goto(r, IF saved["users"] = NoRow THEN "create_user" ELSE "provisioned", saved["users"])

CreateUser(r) == pc[r] = "create_user" /\ Insert(r, "users", NewRow, "user_created")

\* Mutant: the new profile is flushed and left to the endpoint to commit.
CommitUserLater(r) ==
  /\ pc[r] = "user_created"
  /\ Goto(r, "provisioned", row[r])

CommitUser(r) ==
  /\ pc[r] = "user_created"
  /\ Publish(r)
  /\ pc' = [pc EXCEPT ![r] = "provisioned"]
  /\ UNCHANGED <<call, row, outcome, alone>>

------------------------------------------------------------------------------
(* The endpoints.                                                          *)

\* /users/me: the row is the one get_current_user returned.
Profile(r) ==
  /\ pc[r] = "provisioned" /\ call[r].table = "users"
  /\ IF call[r].op = "get" THEN Refuse(r, "ok") ELSE Goto(r, "loaded", row[r])

\* Mutant: the row of the settings is made without looking for one.
ReadSettingsNever(r) ==
  /\ pc[r] = "provisioned" /\ call[r].table \in Settings
  /\ IF call[r].op = "put" THEN Goto(r, "create", NoRow)
     ELSE IF saved[call[r].table] = NoRow THEN Goto(r, "create", NoRow) ELSE Refuse(r, "ok")

\* get_or_create_preferences.
ReadSettings(r) ==
  LET old == saved[call[r].table]
  IN  /\ pc[r] = "provisioned" /\ call[r].table \in Settings
      /\ IF old = NoRow THEN Goto(r, "create", NoRow)
         ELSE IF call[r].op = "get" THEN Refuse(r, "ok")
         ELSE Goto(r, "loaded", old)

\* Mutant: a profile in review may be amended.
ImmutableOnceVerified == {"verified"}

\* _IMMUTABLE_STATES.
Immutable == {"verified", "in_review"}

\* The reads of get_kyc, submit_kyc and update_kyc, and what they refuse.
ReadKyc(r) ==
  LET old == saved["kyc_profiles"]
  IN  /\ pc[r] = "provisioned" /\ call[r].table = "kyc_profiles"
      /\ \/ call[r].op = "submit" /\ old = NoRow /\ Goto(r, "create", NoRow)
         \/ call[r].op = "submit" /\ old # NoRow /\ Refuse(r, "kyc_already_submitted")
         \/ call[r].op # "submit" /\ old = NoRow /\ Refuse(r, "kyc_profile_not_found")
         \/ call[r].op = "get" /\ old # NoRow /\ Refuse(r, "ok")
         \/ /\ call[r].op = "put" /\ old # NoRow /\ old.status \in Immutable
            /\ Refuse(r, "kyc_immutable_state")
         \/ /\ call[r].op = "put" /\ old # NoRow /\ old.status \notin Immutable
            /\ Goto(r, "loaded", old)

Create(r) ==
  /\ pc[r] = "create"
  /\ Insert(r, call[r].table,
            IF call[r].op = "submit" THEN [data |-> call[r].wish, status |-> "in_review"]
            ELSE NewRow,
            "created")

\* Mutant: a PUT goes on with the row it made and commits once, at the end.
CommitCreatedLater(r) ==
  /\ pc[r] = "created"
  /\ IF call[r].op = "put" THEN Goto(r, "loaded", row[r])
     ELSE Publish(r) /\ \E o \in {"ok", "lost"} : Answer(r, o)

\* A PUT of settings goes on with the row it made.
CommitCreated(r) ==
  /\ pc[r] = "created"
  /\ Publish(r)
  /\ IF call[r].op = "put"
     THEN pc' = [pc EXCEPT ![r] = "loaded"] /\ UNCHANGED <<call, row, outcome, alone>>
     ELSE \E o \in {"ok", "lost"} : Answer(r, o)

\* Mutant: the fields a payload does not give are set to None.
NewDataOrNone(r, old) == call[r].wish

\* Mutant: the columns a payload does not give are written back as they were read.
NewDataReadBefore(r, old) ==
  IF call[r].wish = Same THEN row[r].data ELSE call[r].wish

\* What update() makes of a row: fields that are None are skipped, and of the
\* others those that differ from what was read are written.
NewData(r, old) ==
  IF call[r].wish \in {Same, row[r].data} THEN old.data ELSE call[r].wish

\* Mutant: an amended profile keeps its status.
NewStatusKept(r, old) == old.status

NewStatus(r, old) ==
  IF call[r].table = "kyc_profiles" THEN "in_review" ELSE old.status

\* UPDATE ... WHERE id, if any column changes: it waits for the row's writer and
\* looks at no other column again.
Update(r) ==
  LET t    == call[r].table
      old  == saved[t]
      void == t # "kyc_profiles" /\ call[r].wish \in {Same, row[r].data}
  IN  /\ pc[r] = "loaded"
      /\ \/ void /\ Goto(r, "flushed", row[r])
         \/ /\ ~void /\ lock[t] = Free
            /\ Write(r, t, [data |-> NewData(r, old), status |-> NewStatus(r, old)], "flushed")

\* COMMIT; the answer may be lost after it, or impossible to build: an UPDATE
\* expires `updated_at`, which the response model then reads.
Commit(r) ==
  /\ pc[r] = "flushed"
  /\ Publish(r)
  /\ \E o \in {"ok", "lost"} : Answer(r, o)

\* The worker or its connection dies.
Fail(r) == pc[r] # "idle" /\ Refuse(r, "lost")

\* External: the review workflow decides on the profile as it is committed.
Review(decision) ==
  LET t == "kyc_profiles"
  IN  /\ saved[t] # NoRow /\ saved[t].status = "in_review" /\ lock[t] = Free
      /\ saved' = [saved EXCEPT ![t].status = decision]
      /\ draft' = [draft EXCEPT ![t].status = decision]
      /\ UNCHANGED <<lock, requests>>

Step(r) ==
  \/ ReadUser(r) \/ CreateUser(r) \/ CommitUser(r)
  \/ Profile(r) \/ ReadSettings(r) \/ ReadKyc(r)
  \/ Create(r) \/ CommitCreated(r)
  \/ Update(r) \/ Commit(r)

Next ==
  \/ \E r \in Requests : (\E c \in Call : Receive(r, c)) \/ Step(r) \/ Fail(r)
  \/ \E decision \in {"verified", "rejected"} : Review(decision)

Spec == Init /\ [][Next]_vars

------------------------------------------------------------------------------
(* Properties.                                                             *)

Labels == {"idle", "received", "create_user", "user_created", "provisioned",
           "create", "created", "loaded", "flushed"}

TypeOK ==
  /\ saved \in [Tables -> Row \union {NoRow}]
  /\ draft \in [Tables -> Row \union {NoRow}]
  /\ lock  \in [Tables -> Requests \union {Free}]
  /\ pc    \in [Requests -> Labels]
  /\ call  \in [Requests -> Call \union {NoCall}]
  /\ row   \in [Requests -> Row \union {NoRow}]
  /\ outcome \in [Requests -> Outcomes]
  /\ alone \in Requests \union {Free}

\* Whatever overlaps, a committed change of a KYC profile's data by its user
\* leaves the profile in review: no decision made on other data is kept
\* (update_kyc writes data and status in one UPDATE).
ChangeIsReviewed ==
  LET t == "kyc_profiles"
  IN  saved[t] # NoRow /\ saved'[t].data # saved[t].data => saved'[t].status = "in_review"
EditsGoToReview == [][ChangeIsReviewed]_vars

\* "Once a KYC profile reaches one of these terminal/in-flight states it can no
\* longer be edited directly by the user" (kyc_service.py:19).  Not what the code
\* does: see the README.
DecidedIsKept ==
  LET t == "kyc_profiles"
  IN  saved[t] # NoRow /\ saved[t].status \in {"verified", "in_review"} =>
        /\ saved'[t].data = saved[t].data
        /\ saved[t].status = "verified" => saved'[t].status = "verified"
DecidedIsImmutable == [][DecidedIsKept]_vars

\* A row of another table is never written, even uncommitted, before the
\* profile it refers to is committed (get_or_create_profile commits its own
\* transaction), so a failure of the endpoint cannot take the profile with it.
ProfileComesFirst ==
  \A t \in Tables \ {"users"} : draft[t] # NoRow => saved["users"] # NoRow

\* A request that no other overlaps never meets a unique index, whatever rows
\* failed or overlapping requests left, and if it is answered with success the
\* row is what it asked for.
Granted(r) ==
  LET new == saved'[call[r].table]
  IN  /\ new # NoRow
      /\ call[r].op # "get" =>
           /\ call[r].wish # Same => new.data = call[r].wish
           /\ call[r].table = "kyc_profiles" => new.status = "in_review"
LoneRequestIsServed ==
  \A r \in Requests : alone = r =>
    /\ outcome'[r] # "internal_error"
    /\ pc'[r] = "idle" /\ outcome'[r] = "ok" => Granted(r)
LoneAccessSucceeds == [][LoneRequestIsServed]_vars

\* Nobody waits for a row with a row in hand: every transaction writes one row
\* and commits before it asks for another, so requests cannot wait for each
\* other in a circle.
WaitsEmptyHanded ==
  \A r \in Requests : pc[r] \in {"create_user", "create", "loaded"} =>
    \A t \in Tables : lock[t] # r

\* The operations of AtomicProfile that r asks for: the rows it finds missing,
\* and its own change of its own row, with no value but its own or the one that
\* is committed.  Only the state of a KYC profile is checked on an old read, so
\* an amendment is sure to find it neither in review nor verified only if no
\* request overlaps it (update_kyc).
Atomic == INSTANCE AtomicProfile
Performs(r) ==
  LET t == call[r].table
  IN  \/ Atomic!ProvideUser
      \/ t \in Settings /\ Atomic!ProvideSettings(t)
      \/ call[r].op = "submit" /\ Atomic!Submit(call[r].wish)
      \/ /\ call[r].op = "put" /\ t # "kyc_profiles" /\ call[r].wish # Same
         /\ Atomic!Edit(t, call[r].wish)
      \/ /\ call[r].op = "put" /\ t = "kyc_profiles" /\ saved[t] # NoRow
         /\ \E d \in {saved[t].data, call[r].wish} \ {Same} :
              Atomic!AmendUnguarded(d) /\ (alone = r => Atomic!Amend(d))

\* Whatever overlaps, the rows change as if every operation were indivisible, and
\* only by an operation of the request that commits, or a decision: a row appears
\* whole and once, and nothing that was read before is written back.
RowsFollowCalls ==
  saved' # saved =>
    \/ \E decision \in {"verified", "rejected"} : Atomic!Review(decision)
    \/ \E r \in Requests : pc[r] # "idle" /\ pc'[r] # pc[r] /\ Performs(r)
ProfileChangesAtomically == [][RowsFollowCalls]_vars

------------------------------------------------------------------------------
(* The inductive invariant.                                                *)

\* A lock belongs to a request that has written the row and not committed.
Writers ==
  \A t \in Tables :
    IF lock[t] = Free THEN draft[t] = saved[t]
    ELSE /\ pc[lock[t]] \in {"user_created", "created", "flushed"}
         /\ draft[t] # NoRow
         /\ t = "kyc_profiles" => draft[t].status = "in_review"

\* What r has read of, or written to, the tables is there when it goes on.
Fits(r) ==
  LET c == call[r]
  IN  /\ pc[r] # "idle" => c # NoCall
      /\ pc[r] = "user_created" => lock["users"] = r
      /\ pc[r] \in {"provisioned", "create", "created", "loaded", "flushed"} =>
           saved["users"] # NoRow
      /\ pc[r] \in {"create", "created"} =>
           c.table # "users" /\ (c.table = "kyc_profiles" => c.op = "submit")
      /\ pc[r] = "created" => lock[c.table] = r
      /\ pc[r] = "loaded" => c.op = "put" /\ saved[c.table] # NoRow
RequestsFit == \A r \in Requests : Fits(r)

\* What r has read and decided on is still so, and what it has written is what
\* it was asked for.
Undisturbed(r) ==
  LET t == call[r].table
  IN  /\ pc[r] = "create_user" => saved["users"] = NoRow
      /\ pc[r] = "user_created" => row[r] = draft["users"]
      /\ pc[r] = "provisioned" => row[r] = saved["users"]
      /\ pc[r] = "create" => saved[t] = NoRow
      /\ pc[r] = "created" => row[r] = draft[t]
      /\ pc[r] = "created" /\ call[r].op = "submit" => draft[t].data = call[r].wish
      /\ pc[r] = "loaded" => row[r] = saved[t]
      /\ pc[r] = "flushed" =>
           draft[t] # NoRow /\ (call[r].wish # Same => draft[t].data = call[r].wish)
      /\ pc[r] \in {"loaded", "flushed"} /\ t = "kyc_profiles" =>
           saved[t].status \notin Immutable
      /\ pc[r] = "flushed" /\ t = "kyc_profiles" => lock[t] = r

\* While a request runs alone no other is open.
Alone ==
  alone # Free =>
    /\ pc[alone] # "idle" /\ \A q \in Requests : pc[q] # "idle" => q = alone
    /\ outcome[alone] = "none"
    /\ Undisturbed(alone)

IInv ==
  /\ TypeOK
  /\ Writers
  /\ RequestsFit
  /\ Alone
  /\ ProfileComesFirst

\* The row r has written in t and not committed is one step of its operation
\* away from the row that is committed, whatever r had read.
OneStepAhead(r, t) ==
  /\ t = IF pc[r] = "user_created" THEN "users" ELSE call[r].table
  /\ pc[r] = "user_created" => saved[t] = NoRow /\ draft[t] = NewRow
  /\ pc[r] = "created" =>
       /\ saved[t] = NoRow
       /\ draft[t] = IF t = "kyc_profiles"
                    THEN [data |-> call[r].wish, status |-> "in_review"] ELSE NewRow
  /\ pc[r] = "flushed" =>
       /\ saved[t] # NoRow /\ call[r].op = "put"
       /\ draft[t].data \in {saved[t].data, call[r].wish} \ {Same}
       /\ draft[t].status = IF t = "kyc_profiles" THEN "in_review" ELSE saved[t].status

\* Inductive with IInv.
DraftsAreOneStepAhead ==
  \A t \in Tables : lock[t] # Free => OneStepAhead(lock[t], t)

\* The condition under which the tables implement AtomicProfile, guard included.
OneAtATime == \A r, q \in Requests : pc[r] # "idle" /\ pc[q] # "idle" => r = q
==============================================================================
