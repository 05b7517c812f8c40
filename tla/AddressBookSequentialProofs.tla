--------------------- MODULE AddressBookSequentialProofs ---------------------
(***************************************************************************)
(* Proof that a request of AddressBook that no other overlaps performs its *)
(* operation of AtomicBook, whatever earlier requests left, and that       *)
(* AddressBook implements AtomicBook while requests come one at a time,    *)
(* for any addresses, slots and limit.                                     *)
(*                                                                         *)
(* DraftsAreOnTheWay, inductive with IInv, says how far the uncommitted    *)
(* rows of a request that runs alone are on their way to the book its      *)
(* operation makes.  Only its own steps can disturb it, and what it        *)
(* commits is then a step of AtomicBook.                                   *)
(***************************************************************************)
EXTENDS AddressBookProofs

\* What the proofs use of a state in which r runs alone.
LEMMA LoneRequest ==
  ASSUME IInv, NEW r \in Requests, alone = r
  PROVE  /\ pc[r] # "idle" /\ \A q \in Requests : pc[q] # "idle" => q = r
         /\ \A a \in Addresses : lock[a] # Free => lock[a] = r
         /\ \A a \in Addresses : lock[a] = Free => draft[a] = book[a]
         /\ pc[r] \notin {"write", "promote", "promoting", "flushed"} => draft = book
<1>1. \A a \in Addresses : lock[a] # Free => lock[a] = r
  BY AloneHoldsAllLocks, SlotsAssumption DEF IInv
<1>2. \A a \in Addresses : lock[a] = Free => draft[a] = book[a]
  BY DEF IInv, Locks
<1>3. ASSUME pc[r] \notin {"write", "promote", "promoting", "flushed"} PROVE draft = book
  <2>1. \A a \in Addresses : draft[a] = book[a]
    BY <1>1, <1>2, <1>3 DEF IInv, Locks
  <2> QED BY <2>1 DEF IInv, TypeOK
<1> QED BY <1>1, <1>2, <1>3, SlotsAssumption DEF IInv, Alone

\* The rows after r wrote one of them.
LEMMA WrittenRow ==
  ASSUME TypeOK, NEW r \in Requests, NEW a \in Addresses, NEW new, Write(r, a, new)
  PROVE  /\ draft' = [draft EXCEPT ![a] = new] /\ book' = book
         /\ \A b \in Addresses : draft'[b] = IF b = a THEN new ELSE draft[b]
         /\ DOMAIN draft' = Addresses
BY DEF Write, TypeOK

------------------------------------------------------------------------------
(* The steps of a lone request, up to its last write.                      *)

LEMMA ReadProgresses ==
  ASSUME IInv, NEW r \in Requests, alone = r,
         CreateCheck(r) \/ UpdateRead(r) \/ DeleteRead(r), pc'[r] # "idle"
  PROVE  Progress(r)'
<1> USE DEF IInv
<1>1. /\ pc[r] = "received" /\ call[r] # NoCall /\ draft = book
      /\ book' = book /\ draft' = draft /\ call' = call /\ todo' = todo /\ todo[r] = {}
  BY LoneRequest DEF CreateCheck, UpdateRead, DeleteRead, Refuse, Answer, TypeOK, table,
                         RequestsFit, Fits
<1>2. Saved' = Saved /\ Defaults' = Defaults
  BY <1>1 DEF Saved, Defaults
<1>3. \A a \in Addresses : draft[a] = book[a]
  BY <1>1
<1>4. CASE CreateCheck(r)
  <2> DEFINE default == call[r].wish = "default" \/ Saved = {}
  <2>1. /\ pc'[r] = IF default THEN "unset" ELSE "write"
        /\ row'[r] = IF default THEN "default" ELSE "plain"
        /\ call[r].op = "create"
    BY <1>4 DEF CreateCheck, Refuse, Answer, TypeOK
  <2>2. pc'[r] = "write" => draft' = [a \in Addresses |->
                IF Moves(r)' /\ a \in Defaults' \ (todo'[r] \union {})
                THEN "plain" ELSE book'[a]]
    BY <1>1, <2>1 DEF Moves, TypeOK
  <2> QED BY <1>1, <1>2, <2>1, <2>2 DEF Progress
<1>5. CASE UpdateRead(r)
  <2>1. pc'[r] = (IF call[r].wish = "default" THEN "unset" ELSE "write") /\ call[r].op = "update"
    BY <1>5 DEF UpdateRead, Refuse, Answer, TypeOK
  <2>2. pc'[r] = "write" => draft' = [a \in Addresses |->
                IF Moves(r)' /\ a \in Defaults' \ (todo'[r] \union {call[r].id})
                THEN "plain" ELSE book'[a]]
    BY <1>1, <2>1 DEF Moves, TypeOK
  <2>3. row'[r] = book[call[r].id] /\ book[call[r].id] # "absent"
    BY <1>5 DEF UpdateRead, Refuse, Answer, TypeOK
  <2> QED BY <1>1, <1>2, <2>1, <2>2, <2>3 DEF Progress
<1>6. CASE DeleteRead(r)
  <2>1. pc'[r] = "read" /\ row'[r] = book[call[r].id] /\ book[call[r].id] # "absent"
        /\ call[r].op = "delete"
    BY <1>6 DEF DeleteRead, Refuse, Answer, TypeOK
  <2> QED BY <1>1, <2>1 DEF Progress
<1> QED BY <1>4, <1>5, <1>6

LEMMA UnsetProgresses ==
  ASSUME IInv, NEW r \in Requests, alone = r, Unset(r), Progress(r)
  PROVE  Progress(r)'
<1> USE DEF IInv
<1> DEFINE stays == IF call[r].op = "update" THEN {call[r].id} ELSE {}
<1>1. /\ pc[r] = "unset" /\ pc'[r] = "write" /\ draft = book /\ call[r].op \in {"create", "update"}
      /\ book' = book /\ draft' = draft /\ call' = call /\ row' = row
      /\ todo'[r] = {a \in Defaults : call[r].op = "update" => a # call[r].id}
  BY LoneRequest DEF Unset, TypeOK, table, RequestsFit, Fits
<1>2. Saved' = Saved /\ Defaults' = Defaults
  BY <1>1 DEF Saved, Defaults
<1>3. \A a \in Defaults : a \in todo'[r] \union stays
  BY <1>1
<1>4. draft' = [a \in Addresses |-> IF Moves(r)' /\ a \in Defaults' \ (todo'[r] \union stays)
                                    THEN "plain" ELSE book'[a]]
  BY <1>1, <1>2, <1>3 DEF TypeOK
<1> QED BY <1>1, <1>2, <1>4 DEF Progress

LEMMA UnsetRowProgresses ==
  ASSUME IInv, NEW r \in Requests, alone = r, NEW a \in Addresses, UnsetRow(r, a), Progress(r)
  PROVE  Progress(r)'
<1> USE DEF IInv
<1> DEFINE stays == IF call[r].op = "update" THEN {call[r].id} ELSE {}
<1>1. /\ pc[r] = "write" /\ pc'[r] = "write" /\ a \in todo[r] /\ todo'[r] = todo[r] \ {a}
      /\ call' = call /\ row' = row /\ lock[a] = Free /\ draft[a] = book[a]
      /\ call[r].op \in {"create", "update"}
  BY LoneRequest DEF UnsetRow, TypeOK, RequestsFit, Fits
<1>2. Moves(r) /\ (call[r].op = "update" => a # call[r].id)
  BY <1>1 DEF RequestsFit, Fits
<1>3. /\ book' = book /\ DOMAIN draft' = Addresses
      /\ \A b \in Addresses :
           draft'[b] = IF b = a /\ book[a] = "default" THEN "plain" ELSE draft[b]
  <2>1. CASE book[a] = "default"
    BY <2>1, WrittenRow DEF UnsetRow
  <2>2. CASE book[a] # "default"
    BY <2>2 DEF UnsetRow, table, TypeOK
  <2> QED BY <2>1, <2>2
<1>4. Saved' = Saved /\ Defaults' = Defaults /\ Moves(r)'
  BY <1>1, <1>2, <1>3 DEF Saved, Defaults, Moves
<1>5. \A b \in Addresses : draft[b] = IF b \in Defaults \ (todo[r] \union stays)
                                      THEN "plain" ELSE book[b]
  BY <1>1, <1>2 DEF Progress
<1>6. \A b \in Addresses : draft'[b] = IF b \in Defaults \ (todo'[r] \union stays)
                                       THEN "plain" ELSE book[b]
  BY <1>1, <1>2, <1>3, <1>5 DEF Defaults
<1>7. draft' = [b \in Addresses |-> IF Moves(r)' /\ b \in Defaults' \ (todo'[r] \union stays)
                                    THEN "plain" ELSE book'[b]]
  <2>1. draft' = [b \in Addresses |-> draft'[b]]
    BY <1>1, <1>3, WrittenRow DEF UnsetRow, table, TypeOK
  <2> QED BY <1>3, <1>4, <1>6, <2>1
<1> QED BY <1>1, <1>3, <1>4, <1>7 DEF Progress

LEMMA InsertProgresses ==
  ASSUME IInv, NEW r \in Requests, alone = r, Insert(r), Progress(r)
  PROVE  Progress(r)'
<1> USE DEF IInv
<1>1. PICK a \in Fresh : Write(r, a, row[r])
  BY DEF Insert
<1>2. /\ pc[r] = "write" /\ pc'[r] = "flushed" /\ todo[r] = {} /\ call[r].op = "create"
      /\ call' = call /\ a \in Addresses /\ book[a] = "absent" /\ lock[a] = Free
  BY <1>1, LoneRequest DEF Insert, Fresh, TypeOK
<1>3. /\ book' = book /\ DOMAIN draft' = Addresses
      /\ \A b \in Addresses : draft'[b] = IF b = a THEN row[r] ELSE draft[b]
  BY <1>1, <1>2, WrittenRow
<1>4. /\ row[r] = IF call[r].wish = "default" \/ Saved = {} THEN "default" ELSE "plain"
      /\ \A b \in Addresses : draft[b] = IF row[r] = "default" /\ b \in Defaults
                                          THEN "plain" ELSE book[b]
  BY <1>2 DEF Progress, Moves
<1>5. draft' = [b \in Addresses |-> draft'[b]]
  BY <1>1, <1>2 DEF Write, TypeOK
<1>6. draft' = Atomic!Created(a, call[r].wish)
  <2>1. CASE row[r] = "default"
    <3>1. \A b \in Addresses : draft'[b] = Atomic!DefaultAt(a)[b]
      BY <1>3, <1>4, <2>1 DEF Atomic!DefaultAt, Defaults
    <3>2. draft' = Atomic!DefaultAt(a)
      BY <1>5, <3>1 DEF Atomic!DefaultAt
    <3> QED BY <1>4, <2>1, <3>2 DEF Atomic!Created, Atomic!Saved, Saved
  <2>2. CASE row[r] # "default"
    <3>1. draft = book
      BY <1>2, <1>4, <2>2 DEF TypeOK
    <3>2. draft' = [book EXCEPT ![a] = "plain"]
      BY <1>1, <1>4, <2>2, <3>1 DEF Write
    <3> QED BY <1>4, <2>2, <3>2 DEF Atomic!Created, Atomic!Saved, Saved
  <2> QED BY <2>1, <2>2
<1>7. Atomic!Created(a, call[r].wish)' = Atomic!Created(a, call[r].wish)
  BY <1>2, <1>3 DEF Atomic!Created, Atomic!DefaultAt, Atomic!Saved
<1>8. book'[a] = "absent"
  BY <1>2, <1>3
<1> QED BY <1>2, <1>6, <1>7, <1>8 DEF Progress

LEMMA UpdateWriteProgresses ==
  ASSUME IInv, NEW r \in Requests, alone = r, UpdateWrite(r), Progress(r), pc'[r] # "idle"
  PROVE  Progress(r)'
<1> USE DEF IInv
<1> DEFINE a   == call[r].id
           new == IF ChangesDefault(r) THEN call[r].wish ELSE book[a]
<1>1. /\ pc[r] = "write" /\ todo[r] = {} /\ call[r].op = "update" /\ call[r] # NoCall
      /\ a \in Addresses /\ call[r].wish \in {"same", "plain", "default"}
      /\ row[r] = book[a] /\ book[a] # "absent"
  BY CallIsKnown, LoneRequest DEF UpdateWrite, Progress
<1>2. \A b \in Addresses : draft[b] = IF call[r].wish = "default" /\ b \in Defaults \ {a}
                                      THEN "plain" ELSE book[b]
  BY <1>1 DEF Progress, Moves
<1>3. /\ pc'[r] = "flushed" /\ call' = call /\ book' = book /\ DOMAIN draft' = Addresses
      /\ \A b \in Addresses : draft'[b] = IF b = a THEN new ELSE draft[b]
  <2>1. CASE ~ChangesDefault(r) /\ Goto(r, "flushed")
    BY <1>1, <1>2, <2>1 DEF Goto, TypeOK, table
  <2>2. CASE Refuse(r, "internal_error")
    BY <2>2 DEF Refuse, Answer, TypeOK
  <2>3. CASE /\ Write(r, a, new) /\ pc' = [pc EXCEPT ![r] = "flushed"]
             /\ UNCHANGED <<call, row, todo, outcome, alone>>
    BY <1>1, <2>3, WrittenRow DEF TypeOK
  <2> QED BY <2>1, <2>2, <2>3 DEF UpdateWrite
<1>4. draft' = [b \in Addresses |-> draft'[b]]
  BY <1>1, WrittenRow DEF UpdateWrite, Goto, Refuse, Write, table, TypeOK
<1>5. draft' = Atomic!Updated(a, call[r].wish)
  <2>1. CASE call[r].wish = "default"
    <3>1. \A b \in Addresses : draft'[b] = Atomic!DefaultAt(a)[b]
      BY <1>1, <1>2, <1>3, <2>1 DEF Atomic!DefaultAt, Defaults, ChangesDefault
    <3> QED BY <1>4, <2>1, <3>1 DEF Atomic!DefaultAt, Atomic!Updated
  <2>2. CASE call[r].wish = "plain"
    <3>1. \A b \in Addresses : draft'[b] = [book EXCEPT ![a] = "plain"][b]
      BY <1>1, <1>2, <1>3, <2>2 DEF ChangesDefault, TypeOK
    <3> QED BY <1>1, <1>4, <2>2, <3>1 DEF Atomic!Updated, TypeOK
  <2>3. CASE call[r].wish = "same"
    <3>1. \A b \in Addresses : draft'[b] = book[b]
      BY <1>1, <1>2, <1>3, <2>3 DEF ChangesDefault
    <3> QED BY <1>1, <1>4, <2>3, <3>1 DEF Atomic!Updated, TypeOK
  <2> QED BY <1>1, <2>1, <2>2, <2>3
<1>6. draft' = Atomic!Updated(a, call[r].wish)'
  BY <1>3, <1>5 DEF Atomic!Updated, Atomic!DefaultAt
<1> QED BY <1>1, <1>3, <1>6 DEF Progress

LEMMA DeleteRowProgresses ==
  ASSUME IInv, NEW r \in Requests, alone = r, DeleteRow(r), Progress(r)
  PROVE  Progress(r)'
<1> USE DEF IInv
<1> DEFINE a == call[r].id
<1>1. /\ pc[r] = "read" /\ call[r].op = "delete" /\ a \in Addresses /\ draft = book
      /\ row[r] = book[a] /\ book[a] # "absent" /\ call' = call
      /\ pc'[r] = IF row[r] = "default" THEN "promote" ELSE "flushed"
  BY CallIsKnown, LoneRequest DEF DeleteRow, Progress, RequestsFit, Fits, TypeOK
<1>2. book' = book /\ draft' = [book EXCEPT ![a] = "absent"]
  BY <1>1 DEF DeleteRow, Write
<1>3. CASE row[r] = "default"
  BY <1>1, <1>2, <1>3 DEF Progress
<1>4. CASE row[r] # "default"
  <2>1. Atomic!Successors(a)' = {}
    BY <1>1, <1>2, <1>4 DEF Atomic!Successors
  <2>2. draft' \in Atomic!Deleted(a)'
    BY <1>1, <1>2, <2>1 DEF Atomic!Deleted
  <2> QED BY <1>1, <1>2, <1>4, <2>2 DEF Progress
<1> QED BY <1>3, <1>4

LEMMA PromoteProgresses ==
  ASSUME IInv, NEW r \in Requests, alone = r, Promote(r), Progress(r)
  PROVE  Progress(r)'
<1> USE DEF IInv
<1> DEFINE id == call[r].id
           remaining == Saved \ {id}
<1>1. /\ pc[r] = "promote" /\ call[r].op = "delete" /\ id \in Addresses
      /\ draft = [book EXCEPT ![id] = "absent"] /\ book[id] = "default"
      /\ book' = book /\ draft' = draft /\ call' = call
  BY CallIsKnown, LoneRequest DEF Promote, Goto, table, Progress, RequestsFit, Fits
<1>2. Saved' = Saved /\ Atomic!Successors(id)' = remaining
  BY <1>1 DEF Saved, Atomic!Successors, Atomic!Saved
<1>3. CASE remaining = {} /\ pc'[r] = "flushed"
  <2>1. draft' \in Atomic!Deleted(id)'
    BY <1>1, <1>2, <1>3 DEF Atomic!Deleted
  <2> QED BY <1>1, <1>3, <2>1 DEF Progress
<1>4. CASE pc'[r] = "promoting" /\ todo'[r] \subseteq remaining
  BY <1>1, <1>2, <1>4 DEF Progress
<1>5. CASE (\E a \in remaining : book[a] = "default") /\ pc'[r] = "flushed"
  <2>1. PICK a \in remaining : book[a] = "default"
    BY <1>5
  <2>2. draft' = [book EXCEPT ![id] = "absent", ![a] = "default"]
    <3>1. \A b \in Addresses :
            [book EXCEPT ![id] = "absent"][b] = [book EXCEPT ![id] = "absent", ![a] = "default"][b]
      BY <1>1, <2>1 DEF TypeOK, Saved
    <3> QED BY <1>1, <3>1 DEF TypeOK
  <2>3. draft' \in Atomic!Deleted(id)'
    BY <1>1, <1>2, <2>1, <2>2 DEF Atomic!Deleted
  <2> QED BY <1>1, <1>5, <2>3 DEF Progress
<1> QED BY <1>1, <1>3, <1>4, <1>5 DEF Promote, Goto, TypeOK

LEMMA PromoteRowProgresses ==
  ASSUME IInv, NEW r \in Requests, alone = r, NEW s \in Addresses, PromoteRow(r, s),
         Progress(r), pc'[r] # "idle"
  PROVE  Progress(r)'
<1> USE DEF IInv
<1> DEFINE id == call[r].id
<1>1. /\ pc[r] = "promoting" /\ call[r].op = "delete" /\ id \in Addresses
      /\ draft = [book EXCEPT ![id] = "absent"] /\ book[id] = "default"
      /\ s \in Saved \ {id} /\ Write(r, s, "default") /\ pc'[r] = "flushed" /\ call' = call
  BY CallIsKnown DEF PromoteRow, Progress, RequestsFit, Fits, Refuse, Answer, TypeOK
<1>2. book' = book /\ draft' = [book EXCEPT ![id] = "absent", ![s] = "default"]
  BY <1>1 DEF Write
<1>3. s \in Atomic!Successors(id)'
  BY <1>1, <1>2 DEF Atomic!Successors, Atomic!Saved, Saved
<1>4. draft' \in Atomic!Deleted(id)'
  BY <1>1, <1>2, <1>3 DEF Atomic!Deleted
<1> QED BY <1>1, <1>2, <1>4 DEF Progress

------------------------------------------------------------------------------
(* The invariant, and the refinement.                                      *)

LEMMA StepKeepsDraftsOnTheWay ==
  ASSUME IInv, DraftsAreOnTheWay, [Next]_vars
  PROVE  DraftsAreOnTheWay'
<1> USE DEF IInv
<1> SUFFICES ASSUME NEW q \in Requests, alone' = q
             PROVE  Progress(q)'
  <2>1. alone' \in Requests \union {Free}
    BY StepPreserves DEF TypeOK
  <2> QED BY <2>1 DEF DraftsAreOnTheWay
<1>1. CASE UNCHANGED vars
  <2>1. /\ book' = book /\ draft' = draft /\ pc' = pc /\ call' = call /\ row' = row
        /\ todo' = todo /\ alone' = alone
    BY <1>1 DEF vars, table, requests
  <2>2. /\ Progress(q) /\ Saved' = Saved /\ Defaults' = Defaults /\ Moves(q)' = Moves(q)
        /\ pc[q] # "idle"
    BY <2>1, SlotsAssumption DEF DraftsAreOnTheWay, Saved, Defaults, Moves, Alone
  <2>3. \A a \in Addresses : /\ Atomic!Created(a, call[q].wish)' = Atomic!Created(a, call[q].wish)
                             /\ Atomic!Updated(a, call[q].wish)' = Atomic!Updated(a, call[q].wish)
                             /\ Atomic!Deleted(a)' = Atomic!Deleted(a)
    BY <2>1 DEF Atomic!Created, Atomic!Updated, Atomic!Deleted, Atomic!DefaultAt,
                Atomic!Successors, Atomic!Saved
  <2>4. pc[q] = "flushed" /\ call[q].op # "create" => call[q].id \in Addresses
    BY <2>2, CallIsKnown
  <2> QED BY <2>1, <2>2, <2>3, <2>4 DEF Progress
<1>2. ASSUME NEW r \in Requests, NEW c \in Call, Receive(r, c)
      PROVE  Progress(q)'
  <2>1. pc'[q] = "received"
    BY <1>2, SlotsAssumption DEF Receive, TypeOK
  <2> QED BY <2>1 DEF Progress
<1>3. ASSUME NEW r \in Requests, Step(r)
      PROVE  Progress(q)'
  <2>1. pc[r] # "idle" /\ (alone' = alone \/ (alone = r /\ alone' = Free))
    <3>1. pc[r] # "idle"
      BY <1>3 DEF Step, CreateCheck, Insert, UpdateRead, UpdateWrite, DeleteRead, DeleteRow, Promote,
                  Unset, UnsetRow, PromoteRow, Commit, Fail
    <3>2. alone' = alone \/ (alone = r /\ alone' = Free)
      BY <1>3 DEF Step, CreateCheck, Insert, UpdateRead, UpdateWrite, DeleteRead, DeleteRow,
                  Promote, Unset, UnsetRow, PromoteRow, Commit, Fail, Refuse, Answer, Goto
    <3> QED BY <3>1, <3>2
  <2>2. alone = q /\ q = r /\ Progress(r)
    BY <2>1, LoneRequest, SlotsAssumption DEF DraftsAreOnTheWay
  <2>3. pc'[r] # "idle" /\ ~Fail(r) /\ ~Commit(r)
    <3>1. Alone'
      BY StepPreserves
    <3> QED BY <2>2, <3>1, SlotsAssumption DEF Alone, Fail, Commit, Refuse, Answer
  <2> QED BY <1>3, <2>2, <2>3, ReadProgresses, UnsetProgresses, UnsetRowProgresses,
             InsertProgresses, UpdateWriteProgresses, DeleteRowProgresses, PromoteProgresses,
             PromoteRowProgresses DEF Step
<1> QED BY <1>1, <1>2, <1>3 DEF Next

\* An instance of a module brings its own copy of Cardinality.
LEMMA SameCardinality ==
  ASSUME NEW S PROVE Atomic!Cardinality(S) = Cardinality(S)
BY DEF Atomic!Cardinality, Cardinality

\* What a lone request commits is what its operation makes of the book.
LEMMA CommitPerforms ==
  ASSUME IInv, DraftsAreOnTheWay, NEW r \in Requests, alone = r, Commit(r)
  PROVE  Performs(r)
<1> USE DEF IInv
<1>1. /\ pc[r] = "flushed" /\ call[r].op \in {"create", "update", "delete"} /\ Progress(r)
  BY CallIsKnown, SlotsAssumption DEF Commit, DraftsAreOnTheWay
<1>2. book' = draft
  <2>1. \A a \in Addresses : (IF lock[a] = r THEN draft[a] ELSE book[a]) = draft[a]
    BY <1>1, LoneRequest
  <2> QED BY <2>1 DEF Commit, TypeOK
<1>3. CASE call[r].op = "create"
  <2>1. PICK a \in Addresses : book[a] = "absent" /\ draft = Atomic!Created(a, call[r].wish)
    BY <1>1, <1>3 DEF Progress
  <2>2. Cardinality(Saved) < MaxAddresses
    <3>1. r \in Creators
      BY <1>1, <1>3 DEF Creators
    <3> QED BY <3>1, SlotsAssumption DEF Alone
  <2>3. Atomic!Create(a, call[r].wish)
    BY <1>2, <2>1, <2>2, SameCardinality DEF Atomic!Create, Atomic!Saved, Saved
  <2> QED BY <1>3, <2>3 DEF Performs
<1>4. CASE call[r].op = "update"
  BY <1>1, <1>2, <1>4 DEF Progress, Atomic!Update, Performs
<1>5. CASE call[r].op = "delete"
  BY <1>1, <1>2, <1>5 DEF Progress, Atomic!Delete, Performs
<1> QED BY <1>1, <1>3, <1>4, <1>5

\* Only a COMMIT is answered with success.
LEMMA OnlyCommitSucceeds ==
  ASSUME IInv, [Next]_vars, NEW r \in Requests,
         pc[r] # "idle", pc'[r] = "idle", outcome'[r] = "ok"
  PROVE  Commit(r)
<1>1. ASSUME NEW q \in Requests, NEW o, Refuse(q, o), o # "ok"
      PROVE  FALSE
  BY <1>1 DEF Refuse, Answer, IInv, TypeOK
<1>2. ASSUME NEW q \in Requests, Commit(q)
      PROVE  q = r
  BY <1>2 DEF Commit, Answer, IInv, TypeOK
<1>3. ASSUME NEW q \in Requests, NEW c \in Call, Receive(q, c)
      PROVE  FALSE
  BY <1>3 DEF Receive, IInv, TypeOK
<1>4. PICK q \in Requests : Step(q)
  BY <1>3 DEF Next, vars, requests
<1>5. ASSUME NEW label \in Labels \ {"idle"}, pc' = [pc EXCEPT ![q] = label]
      PROVE  FALSE
  BY <1>5 DEF IInv, TypeOK
<1>6. Commit(q)
  <2>1. ~(CreateCheck(q) \/ UpdateRead(q) \/ DeleteRead(q))
    BY <1>1, <1>5 DEF CreateCheck, UpdateRead, DeleteRead, Labels
  <2>2. ~(Insert(q) \/ UpdateWrite(q) \/ DeleteRow(q) \/ Unset(q))
    BY <1>1, <1>5 DEF Insert, UpdateWrite, DeleteRow, Unset, Goto, Labels
  <2>3. ~Promote(q)
    BY <1>5 DEF Promote, Goto, Labels
  <2>4. \A a \in Addresses : ~(UnsetRow(q, a) \/ PromoteRow(q, a))
    BY <1>1, <1>5 DEF UnsetRow, PromoteRow, Labels
  <2> QED BY <1>1, <1>4, <2>1, <2>2, <2>3, <2>4 DEF Step, Fail
<1> QED BY <1>2, <1>6

\* The uncommitted rows of a request that runs alone are on their way to the
\* book that its operation makes (address_service.py).
THEOREM Progresses == Spec => []DraftsAreOnTheWay
<1>1. Init => DraftsAreOnTheWay
  BY DEF Init, DraftsAreOnTheWay
<1>2. IInv /\ DraftsAreOnTheWay /\ [Next]_vars => DraftsAreOnTheWay'
  BY StepKeepsDraftsOnTheWay
<1> QED BY <1>1, <1>2, Invariance, PTL DEF Spec

\* A step of a request that runs alone changes the book, or is answered with
\* success, only by performing its operation.
LEMMA LoneStepPerforms ==
  ASSUME IInv, DraftsAreOnTheWay, [Next]_vars, NEW r \in Requests, alone = r,
         book' # book \/ (pc'[r] = "idle" /\ outcome'[r] = "ok")
  PROVE  pc'[r] = "idle" /\ Performs(r)
<1>1. Commit(r)
  <2>1. CASE book' # book
    <3>1. PICK q \in Requests : Commit(q)
      BY <2>1, OnlyCommitWrites
    <3>2. pc[q] # "idle"
      BY <3>1 DEF Commit
    <3> QED BY <3>1, <3>2, LoneRequest
  <2>2. CASE pc'[r] = "idle" /\ outcome'[r] = "ok"
    BY <2>2, LoneRequest, OnlyCommitSucceeds
  <2> QED BY <2>1, <2>2
<1>2. pc'[r] = "idle"
  BY <1>1 DEF Commit, Answer, IInv, TypeOK
<1> QED BY <1>1, <1>2, CommitPerforms

\* Whatever book overlapping requests left, a create, update or delete that no
\* other overlaps changes it once, and by all it asks for.
THEOREM AtomicChanges == Spec => BookChangesAtomically
<1>1. IInv /\ DraftsAreOnTheWay /\ [Next]_vars => [LoneRequestPerforms]_vars
  BY LoneStepPerforms DEF LoneRequestPerforms
<1> QED BY <1>1, Progresses, Invariance, PTL DEF Spec, BookChangesAtomically

\* While requests come one at a time, each of them runs alone.
OpenIsAlone == \A r \in Requests : pc[r] # "idle" => alone = r

LEMMA StepKeepsOpenAlone ==
  ASSUME IInv, OpenIsAlone, [Next]_vars, OneAtATime'
  PROVE  OpenIsAlone'
<1> SUFFICES ASSUME NEW q \in Requests, pc'[q] # "idle" PROVE alone' = q
  BY DEF OpenIsAlone
<1>1. CASE UNCHANGED vars
  BY <1>1 DEF vars, requests, OpenIsAlone
<1>2. ASSUME NEW r \in Requests, NEW c \in Call, Receive(r, c)
      PROVE  alone' = q
  <2>1. \A p \in Requests : p # r => pc'[p] = pc[p]
    BY <1>2 DEF Receive, IInv, TypeOK
  <2>2. pc[r] = "idle" /\ pc'[r] # "idle"
    BY <1>2 DEF Receive, IInv, TypeOK
  <2>3. q = r /\ \A p \in Requests : pc[p] = "idle"
    BY <2>1, <2>2 DEF OneAtATime
  <2> QED BY <1>2, <2>3 DEF Receive
<1>3. ASSUME NEW r \in Requests, Step(r)
      PROVE  alone' = q
  <2>1. pc[r] # "idle" /\ (alone' = alone \/ pc'[r] = "idle")
        /\ \A p \in Requests : p # r => pc'[p] = pc[p]
    BY <1>3 DEF Step, CreateCheck, Insert, UpdateRead, UpdateWrite, DeleteRead, DeleteRow, Promote,
                Unset, UnsetRow, PromoteRow, Commit, Fail, Refuse, Answer, Goto, IInv, TypeOK
  <2>2. \A p \in Requests : pc[p] # "idle" => p = r
    BY <2>1 DEF OpenIsAlone
  <2> QED BY <2>1, <2>2 DEF OpenIsAlone
<1> QED BY <1>1, <1>2, <1>3 DEF Next

LEMMA StepIsAtomic ==
  ASSUME IInv, DraftsAreOnTheWay, OpenIsAlone, [Next]_vars
  PROVE  [Atomic!Next]_book
<1> SUFFICES ASSUME book' # book PROVE Atomic!Next
  OBVIOUS
<1>1. PICK r \in Requests : Commit(r)
  BY OnlyCommitWrites
<1>2. pc[r] # "idle" /\ alone = r
  BY <1>1 DEF Commit, OpenIsAlone
<1>3. Performs(r)
  BY <1>1, <1>2, CommitPerforms
<1> QED BY <1>2, <1>3, CallIsKnown DEF Performs, Atomic!Next, IInv

\* An address book whose requests never overlap implements AtomicBook.
THEOREM SequentialRefinement == Spec /\ []OneAtATime => Atomic!Spec
<1>1. Init => Atomic!Init /\ OpenIsAlone
  BY DEF Init, Atomic!Init, OpenIsAlone
<1>2. IInv /\ OpenIsAlone /\ [Next]_vars /\ OneAtATime' => OpenIsAlone'
  BY StepKeepsOpenAlone
<1>3. IInv /\ DraftsAreOnTheWay /\ OpenIsAlone /\ [Next]_vars => [Atomic!Next]_book
  BY StepIsAtomic
<1> QED BY <1>1, <1>2, <1>3, Progresses, Invariance, PTL DEF Spec, Atomic!Spec
==============================================================================
