----------------------------- MODULE AddressBook -----------------------------
(***************************************************************************)
(* user-service: the address book of one user, rows of `addresses` at most *)
(* one of which should be the default.  Books of different users share     *)
(* nothing.  One action stands for the code between two awaits on the      *)
(* database, at READ COMMITTED: nothing is read FOR UPDATE, and a row is   *)
(* locked from its INSERT, UPDATE or DELETE to the end of the transaction. *)
(*                                                                         *)
(* Of an address only `is_default` is kept; `created_at` is not, so any    *)
(* remaining row may be the newest, which delete_address promotes.  Reads  *)
(* (list_addresses) change nothing and are left out.                       *)
(***************************************************************************)
EXTENDS Naturals, FiniteSets

CONSTANTS
  Addresses,     \* ids; bound: an id is used again when nobody refers to it
  Requests,      \* slots for HTTP requests of the user
  MaxAddresses,  \* MAX_ADDRESSES_PER_USER
  NoCall,        \* the slot is free
  Free           \* nobody: no holder of a row lock, no request that runs alone

ASSUME LimitAssumption == MaxAddresses \in Nat \ {0}
ASSUME SlotsAssumption == IsFiniteSet(Addresses) /\ IsFiniteSet(Requests) /\ Free \notin Requests

\* `wish` is the payload's is_default: true, false, or not given ("same").
Call == [op : {"create"}, wish : {"plain", "default"}]
  \union [op : {"update"}, id : Addresses, wish : {"same", "plain", "default"}, edits : BOOLEAN]
  \union [op : {"delete"}, id : Addresses]
ASSUME CallAssumption == NoCall \notin Call

Outcomes == {"none", "ok", "lost", "address_not_found", "max_addresses_exceeded",
             "internal_error"}

VARIABLES
  book,       \* book[a]: the committed row: absent, plain or default
  draft,      \* draft[a]: the row as the transaction that holds its lock left it
  lock,       \* lock[a]: that transaction
  pc, call,   \* where each request stands and what it asks for
  row,        \* row[r]: is_default of the ORM object r read, or is about to insert
  todo,       \* todo[r]: rows r's statement selected and has still to update
  outcome,    \* outcome[r]: r's last answer
  alone       \* not in the code: the open request that no other has overlapped

table    == <<book, draft, lock>>
requests == <<pc, call, row, todo, outcome, alone>>
vars     == <<table, requests>>

Init ==
  /\ book  = [a \in Addresses |-> "absent"]
  /\ draft = [a \in Addresses |-> "absent"]
  /\ lock  = [a \in Addresses |-> Free]
  /\ pc    = [r \in Requests |-> "idle"]
  /\ call  = [r \in Requests |-> NoCall]
  /\ row   = [r \in Requests |-> "absent"]
  /\ todo  = [r \in Requests |-> {}]
  /\ outcome = [r \in Requests |-> "none"]
  /\ alone = Free

------------------------------------------------------------------------------
Saved    == {a \in Addresses : book[a] # "absent"}
Defaults == {a \in Addresses : book[a] = "default"}

\* r goes on, having written nothing.
Goto(r, label) ==
  /\ pc' = [pc EXCEPT ![r] = label]
  /\ UNCHANGED <<table, call, row, todo, outcome, alone>>

\* r's UPDATE, INSERT or DELETE of one row it has the lock of.
Write(r, a, new) ==
  /\ draft' = [draft EXCEPT ![a] = new]
  /\ lock'  = [lock EXCEPT ![a] = r]
  /\ UNCHANGED book

\* The transaction of r ends: its rows are let go and the slot is free.
Answer(r, o) ==
  /\ pc'      = [pc EXCEPT ![r] = "idle"]
  /\ call'    = [call EXCEPT ![r] = NoCall]
  /\ row'     = [row EXCEPT ![r] = "absent"]
  /\ todo'    = [todo EXCEPT ![r] = {}]
  /\ outcome' = [outcome EXCEPT ![r] = o]
  /\ lock'    = [a \in Addresses |-> IF lock[a] = r THEN Free ELSE lock[a]]
  /\ alone'   = IF alone = r THEN Free ELSE alone

\* ROLLBACK: what r wrote is gone.
Refuse(r, o) ==
  /\ Answer(r, o)
  /\ draft' = [a \in Addresses |-> IF lock[a] = r THEN book[a] ELSE draft[a]]
  /\ UNCHANGED book

\* A request arrives; the ids clients know were committed once.
Receive(r, c) ==
  /\ pc[r] = "idle"
  /\ c.op # "create" => book[c.id] # "absent" \/ lock[c.id] = Free
  /\ pc'   = [pc EXCEPT ![r] = "received"]
  /\ call' = [call EXCEPT ![r] = c]
  /\ outcome' = [outcome EXCEPT ![r] = "none"]
  /\ alone' = IF \A q \in Requests : pc[q] = "idle" THEN r ELSE Free
  /\ UNCHANGED <<table, row, todo>>

------------------------------------------------------------------------------
(* unset_default_for_user: one UPDATE ... WHERE user_id AND is_default     *)
(* [AND id != the updated one].  Its snapshot selects the rows; each is    *)
(* locked in turn, waiting for its writer, and looked at again.            *)

Unset(r) ==
  /\ pc[r] = "unset"
  /\ todo' = [todo EXCEPT ![r] =
       {a \in Defaults : call[r].op = "update" => a # call[r].id}]
  /\ pc' = [pc EXCEPT ![r] = "write"]
  /\ UNCHANGED <<table, call, row, outcome, alone>>

\* Mutant: unset_default_for_user commits.
UnsetRowCommitted(r, a) ==
  /\ pc[r] = "write" /\ a \in todo[r]
  /\ lock[a] = Free
  /\ book'  = [book EXCEPT ![a] = IF @ = "default" THEN "plain" ELSE @]
  /\ draft' = [draft EXCEPT ![a] = book'[a]]
  /\ todo' = [todo EXCEPT ![r] = @ \ {a}]
  /\ UNCHANGED <<lock, pc, call, row, outcome, alone>>

UnsetRow(r, a) ==
  /\ pc[r] = "write" /\ a \in todo[r]
  /\ lock[a] = Free
  /\ IF book[a] = "default" THEN Write(r, a, "plain") ELSE UNCHANGED table
  /\ todo' = [todo EXCEPT ![r] = @ \ {a}]
  /\ UNCHANGED <<pc, call, row, outcome, alone>>

------------------------------------------------------------------------------
(* create_address                                                          *)

\* Mutant: the limit is checked as if the new address were counted already.
CreateCheckOffByOne(r) ==
  /\ pc[r] = "received" /\ call[r].op = "create"
  /\ IF Cardinality(Saved) > MaxAddresses
     THEN Refuse(r, "max_addresses_exceeded")
     ELSE LET default == call[r].wish = "default" \/ Saved = {}
          IN  /\ row' = [row EXCEPT ![r] = IF default THEN "default" ELSE "plain"]
              /\ pc'  = [pc EXCEPT ![r] = IF default THEN "unset" ELSE "write"]
              /\ UNCHANGED <<table, call, todo, outcome, alone>>

\* The rows are counted; the first one is the default whatever was asked.
CreateCheck(r) ==
  /\ pc[r] = "received" /\ call[r].op = "create"
  /\ IF Cardinality(Saved) >= MaxAddresses
     THEN Refuse(r, "max_addresses_exceeded")
     ELSE LET default == call[r].wish = "default" \/ Saved = {}
          IN  /\ row' = [row EXCEPT ![r] = IF default THEN "default" ELSE "plain"]
              /\ pc'  = [pc EXCEPT ![r] = IF default THEN "unset" ELSE "write"]
              /\ UNCHANGED <<table, call, todo, outcome, alone>>

\* uuid4 never repeats an id that is stored, being inserted, asked for or read.
Fresh ==
  {a \in Addresses :
     /\ book[a] = "absent" /\ lock[a] = Free
     /\ \A q \in Requests : /\ call[q] # NoCall /\ call[q].op # "create" => call[q].id # a
                            /\ a \notin todo[q]}

Insert(r) ==
  /\ pc[r] = "write" /\ todo[r] = {} /\ call[r].op = "create"
  /\ \E a \in Fresh : Write(r, a, row[r])
  /\ pc' = [pc EXCEPT ![r] = "flushed"]
  /\ UNCHANGED <<call, row, todo, outcome, alone>>

------------------------------------------------------------------------------
(* update_address                                                          *)

UpdateRead(r) ==
  /\ pc[r] = "received" /\ call[r].op = "update"
  /\ IF book[call[r].id] = "absent"
     THEN Refuse(r, "address_not_found")
     ELSE /\ row' = [row EXCEPT ![r] = book[call[r].id]]
          /\ pc'  = [pc EXCEPT ![r] = IF call[r].wish = "default" THEN "unset" ELSE "write"]
          /\ UNCHANGED <<table, call, todo, outcome, alone>>

\* Columns the payload does not give are skipped, and those it gives are
\* written if they differ from what was read.
ChangesDefault(r) == call[r].wish \notin {"same", row[r]}

\* Mutant: update() sets the fields that are None too.
UpdateWriteNone(r) ==
  LET a == call[r].id
  IN  /\ pc[r] = "write" /\ todo[r] = {} /\ call[r].op = "update"
      /\ lock[a] = Free
      /\ IF book[a] = "absent"
         THEN Refuse(r, "internal_error")
         ELSE /\ Write(r, a, call[r].wish)
              /\ pc' = [pc EXCEPT ![r] = "flushed"]
              /\ UNCHANGED <<call, row, todo, outcome, alone>>

\* Mutant: every column of the object is written, as it was read.
UpdateWriteWhole(r) ==
  LET a == call[r].id
  IN  /\ pc[r] = "write" /\ todo[r] = {} /\ call[r].op = "update"
      /\ lock[a] = Free
      /\ IF book[a] = "absent"
         THEN Refuse(r, "internal_error")
         ELSE /\ Write(r, a, IF ChangesDefault(r) THEN call[r].wish ELSE row[r])
              /\ pc' = [pc EXCEPT ![r] = "flushed"]
              /\ UNCHANGED <<call, row, todo, outcome, alone>>

\* Mutant: a row that is gone is inserted again.
UpdateWriteUpsert(r) ==
  LET a == call[r].id
  IN  /\ pc[r] = "write" /\ todo[r] = {} /\ call[r].op = "update"
      /\ lock[a] = Free
      /\ Write(r, a, IF ChangesDefault(r) THEN call[r].wish ELSE row[r])
      /\ pc' = [pc EXCEPT ![r] = "flushed"]
      /\ UNCHANGED <<call, row, todo, outcome, alone>>

\* UPDATE ... WHERE id, if any column changes: it waits for the row's writer.
\* A row deleted meanwhile is StaleDataError, which nobody catches.
UpdateWrite(r) ==
  LET a == call[r].id
  IN  /\ pc[r] = "write" /\ todo[r] = {} /\ call[r].op = "update"
      /\ \/ ~ChangesDefault(r) /\ ~call[r].edits /\ Goto(r, "flushed")
         \/ /\ ChangesDefault(r) \/ call[r].edits
            /\ lock[a] = Free
            /\ IF book[a] = "absent"
               THEN Refuse(r, "internal_error")
               ELSE /\ Write(r, a, IF ChangesDefault(r) THEN call[r].wish ELSE book[a])
                    /\ pc' = [pc EXCEPT ![r] = "flushed"]
                    /\ UNCHANGED <<call, row, todo, outcome, alone>>

------------------------------------------------------------------------------
(* delete_address                                                          *)

DeleteRead(r) ==
  /\ pc[r] = "received" /\ call[r].op = "delete"
  /\ IF book[call[r].id] = "absent"
     THEN Refuse(r, "address_not_found")
     ELSE /\ row' = [row EXCEPT ![r] = book[call[r].id]]
          /\ pc'  = [pc EXCEPT ![r] = "read"]
          /\ UNCHANGED <<table, call, todo, outcome, alone>>

\* Deleting a row that is gone is a warning; was_default comes from the read.
DeleteRow(r) ==
  LET a == call[r].id
  IN  /\ pc[r] = "read"
      /\ lock[a] = Free
      /\ IF book[a] = "absent" THEN UNCHANGED table ELSE Write(r, a, "absent")
      /\ pc' = [pc EXCEPT ![r] = IF row[r] = "default" THEN "promote" ELSE "flushed"]
      /\ UNCHANGED <<call, row, todo, outcome, alone>>

\* The newest remaining row becomes the default, unless it was read as such.
Promote(r) ==
  LET remaining == Saved \ {call[r].id}
  IN  /\ pc[r] = "promote"
      /\ \/ (remaining = {} \/ \E a \in remaining : book[a] = "default") /\ Goto(r, "flushed")
         \/ \E a \in remaining :
              /\ book[a] = "plain"
              /\ todo' = [todo EXCEPT ![r] = {a}]
              /\ pc'   = [pc EXCEPT ![r] = "promoting"]
              /\ UNCHANGED <<table, call, row, outcome, alone>>

PromoteRow(r, a) ==
  /\ pc[r] = "promoting" /\ a \in todo[r]
  /\ lock[a] = Free
  /\ IF book[a] = "absent"
     THEN Refuse(r, "internal_error")
     ELSE /\ Write(r, a, "default")
          /\ pc'   = [pc EXCEPT ![r] = "flushed"]
          /\ todo' = [todo EXCEPT ![r] = {}]
          /\ UNCHANGED <<call, row, outcome, alone>>

------------------------------------------------------------------------------
\* COMMIT; the answer may be lost after it, or impossible to build: an UPDATE
\* expires `updated_at`, which the response model then reads.
Commit(r) ==
  /\ pc[r] = "flushed"
  /\ book' = [a \in Addresses |-> IF lock[a] = r THEN draft[a] ELSE book[a]]
  /\ UNCHANGED draft
  /\ \E o \in {"ok", "lost"} : Answer(r, o)

\* The worker or its connection dies, or PostgreSQL picks r to end a deadlock.
Fail(r) == pc[r] # "idle" /\ Refuse(r, "lost")

Step(r) ==
  \/ CreateCheck(r) \/ Insert(r)
  \/ UpdateRead(r) \/ UpdateWrite(r)
  \/ DeleteRead(r) \/ DeleteRow(r) \/ Promote(r)
  \/ Unset(r)
  \/ \E a \in Addresses : UnsetRow(r, a) \/ PromoteRow(r, a)
  \/ Commit(r) \/ Fail(r)

Next == \E r \in Requests : (\E c \in Call : Receive(r, c)) \/ Step(r)

Spec == Init /\ [][Next]_vars

------------------------------------------------------------------------------
(* Properties.                                                             *)

Rows   == {"absent", "plain", "default"}
Labels == {"idle", "received", "unset", "write", "read", "promote", "promoting", "flushed"}

TypeOK ==
  /\ book  \in [Addresses -> Rows]
  /\ draft \in [Addresses -> Rows]
  /\ lock  \in [Addresses -> Requests \union {Free}]
  /\ pc    \in [Requests -> Labels]
  /\ call  \in [Requests -> Call \union {NoCall}]
  /\ row   \in [Requests -> Rows]
  /\ todo  \in [Requests -> SUBSET Addresses]
  /\ outcome \in [Requests -> Outcomes]
  /\ alone \in Requests \union {Free}

\* Creates that counted before others committed exceed MAX_ADDRESSES_PER_USER,
\* by fewer than the requests that can be open.
BookLimit == Cardinality(Saved) < MaxAddresses + Cardinality(Requests)

\* Only a create adds a row: an update or a promotion that read an address
\* before its deletion committed does not bring it back.
OnlyCreateAdds ==
  \A a \in Addresses : book[a] = "absent" /\ book'[a] # "absent" =>
    \E r \in Requests : /\ pc[r] = "flushed" /\ pc'[r] = "idle" /\ call[r].op = "create"
DeletedStaysDeleted == [][OnlyCreateAdds]_vars

\* What r may make of the row of address a: its own, or the default of another
\* that it takes over, or the successor of the default it deletes.
May(r, a, old, new) ==
  LET its   == call[r].op # "create" /\ call[r].id = a
      unset == old = "default" /\ new = "plain"
  IN  \/ new = old
      \/ call[r].op = "create" /\ old = "absent" /\ new = row[r]
      \/ call[r].op = "create" /\ row[r] = "default" /\ unset
      \/ call[r].op = "update" /\ its /\ new = call[r].wish
      \/ call[r].op = "update" /\ ~its /\ call[r].wish = "default" /\ unset
      \/ call[r].op = "delete" /\ its /\ new = "absent"
      \/ call[r].op = "delete" /\ ~its /\ old = "plain" /\ new = "default"

\* Whatever overlaps, a COMMIT changes no row but as its own call asks, seen
\* from the rows that are committed by then: nothing that was read before is
\* written back (UPDATEs set only the columns that change).
CommitsOwnChanges ==
  book' # book =>
    \E r \in Requests : /\ pc[r] = "flushed" /\ pc'[r] = "idle"
                        /\ \A a \in Addresses : May(r, a, book[a], book'[a])
CommitsFollowCalls == [][CommitsOwnChanges]_vars

\* The operation of AtomicBook that r asks for.
Atomic == INSTANCE AtomicBook
Performs(r) ==
  \/ call[r].op = "create" /\ \E a \in Addresses : Atomic!Create(a, call[r].wish)
  \/ call[r].op = "update" /\ Atomic!Update(call[r].id, call[r].wish)
  \/ call[r].op = "delete" /\ Atomic!Delete(call[r].id)

\* A request that no other overlaps, whatever book earlier ones left, changes
\* it once, as it ends, by the whole of its own operation: no COMMIT publishes
\* a default unset and not set, or a deletion without its successor; and an
\* answer of success means that the operation was performed.
LoneRequestPerforms ==
  \A r \in Requests :
    alone = r /\ (book' # book \/ (pc'[r] = "idle" /\ outcome'[r] = "ok")) =>
      pc'[r] = "idle" /\ Performs(r)
BookChangesAtomically == [][LoneRequestPerforms]_vars

\* "Exactly one default enforced by service-layer logic" (user-service
\* README.md:101).  Not what the code does: see the README.
AtMostOneDefault == \A a, b \in Defaults : a = b

------------------------------------------------------------------------------
(* The inductive invariant.                                                *)

\* A lock belongs to a request that has written and not committed, and only
\* one that creates writes a row, a single one, that is not in the book.
Locks ==
  \A a \in Addresses :
    IF lock[a] = Free THEN draft[a] = book[a]
    ELSE LET r == lock[a]
         IN  /\ pc[r] \in {"write", "promote", "promoting", "flushed"}
             /\ May(r, a, book[a], draft[a])
             /\ book[a] = "absent" =>
                  /\ pc[r] = "flushed" /\ call[r].op = "create"
                  /\ \A b \in Addresses : lock[b] = r /\ book[b] = "absent" => b = a

\* r moves the default to the address it creates or updates.
Moves(r) == \/ call[r].op = "create" /\ row[r] = "default"
            \/ call[r].op = "update" /\ call[r].wish = "default"

Fits(r) ==
  /\ pc[r] # "idle" => call[r] # NoCall
  /\ pc[r] \in {"unset", "write"} => call[r].op \in {"create", "update"}
  /\ pc[r] \in {"read", "promote", "promoting"} => call[r].op = "delete"
  /\ pc[r] \in {"idle", "received", "unset", "read"} => todo[r] = {}
  /\ pc[r] = "unset" \/ (pc[r] = "write" /\ todo[r] # {}) => Moves(r)
  /\ todo[r] # {} /\ call[r].op # "create" => call[r].id \notin todo[r]
RequestsFit == \A r \in Requests : Fits(r)

\* The requests that have counted and will insert.
Creators == {r \in Requests : /\ pc[r] \in {"unset", "write", "flushed"}
                              /\ call[r].op = "create"}

\* Each row above the limit is one of a creator that was not alone.
CreatorsAreCounted ==
  Cardinality(Saved) + Cardinality(Creators) =< MaxAddresses - 1 + Cardinality(Requests)

\* While a request runs alone no other is open, and what it counted is so.
Alone ==
  alone # Free =>
    /\ pc[alone] # "idle"
    /\ \A q \in Requests : pc[q] # "idle" => q = alone
    /\ alone \in Creators => Cardinality(Saved) < MaxAddresses

IInv ==
  /\ TypeOK
  /\ Locks
  /\ RequestsFit
  /\ CreatorsAreCounted
  /\ Alone

\* What r has written so far of the book its operation makes.
Progress(r) ==
  LET id    == call[r].id
      stays == IF call[r].op = "update" THEN {id} ELSE {}
  IN  /\ pc[r] \in {"unset", "write", "read"} /\ call[r].op # "create" =>
           row[r] = book[id] /\ book[id] # "absent"
      /\ pc[r] \in {"unset", "write"} /\ call[r].op = "create" =>
           row[r] = IF call[r].wish = "default" \/ Saved = {} THEN "default" ELSE "plain"
      /\ pc[r] = "write" =>
           draft = [a \in Addresses |->
                      IF Moves(r) /\ a \in Defaults \ (todo[r] \union stays)
                      THEN "plain" ELSE book[a]]
      /\ pc[r] \in {"promote", "promoting"} =>
           draft = [book EXCEPT ![id] = "absent"] /\ book[id] = "default"
      /\ pc[r] = "promoting" => todo[r] \subseteq Saved \ {id}
      /\ pc[r] = "flushed" =>
           CASE call[r].op = "create" -> \E a \in Addresses :
                  book[a] = "absent" /\ draft = Atomic!Created(a, call[r].wish)
             [] call[r].op = "update" ->
                  book[id] # "absent" /\ draft = Atomic!Updated(id, call[r].wish)
             [] call[r].op = "delete" ->
                  book[id] # "absent" /\ draft \in Atomic!Deleted(id)

\* The rows of a request that runs alone are the book its operation makes, as
\* far as it has come.  Inductive with IInv.
DraftsAreOnTheWay == alone # Free => Progress(alone)

\* The condition under which the address book implements AtomicBook.
OneAtATime == \A r, q \in Requests : pc[r] # "idle" /\ pc[q] # "idle" => r = q
==============================================================================
