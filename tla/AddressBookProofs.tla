-------------------------- MODULE AddressBookProofs --------------------------
(***************************************************************************)
(* Proofs about AddressBook, for any addresses, slots and limit: IInv is   *)
(* inductive, and the run's properties follow from it.                     *)
(*                                                                         *)
(* A step ends in one of four ways, and a lemma carries the induction over *)
(* each: r goes on having written nothing, r writes one row, r commits, r  *)
(* is answered without a commit.  Counting is kept to lemmas of its own.   *)
(***************************************************************************)
EXTENDS AddressBook, FiniteSetTheorems, TLAPS

\* A request that is under way was asked for something.
LEMMA CallIsKnown ==
  ASSUME TypeOK, RequestsFit, NEW r \in Requests, pc[r] # "idle"
  PROVE  /\ call[r] \in Call /\ call[r] # NoCall
         /\ call[r].op \in {"create", "update", "delete"}
         /\ call[r].op # "create" => call[r].id \in Addresses
         /\ call[r].op = "create" => call[r].wish \in {"plain", "default"}
         /\ call[r].op = "update" => /\ call[r].wish \in {"same", "plain", "default"}
                                     /\ call[r].edits \in BOOLEAN
BY DEF TypeOK, RequestsFit, Fits, Call

\* While a request runs alone the only rows that are locked are its own.
LEMMA AloneHoldsAllLocks ==
  ASSUME TypeOK, Locks, Alone, alone # Free, NEW a \in Addresses, lock[a] # Free
  PROVE  lock[a] = alone
<1>1. lock[a] \in Requests /\ pc[lock[a]] # "idle"
  BY DEF Locks, TypeOK
<1> QED BY <1>1 DEF Alone

------------------------------------------------------------------------------
(* Counting.                                                               *)

LEMMA SetsAreFinite ==
  /\ IsFiniteSet(Saved) /\ Cardinality(Saved) \in Nat
  /\ IsFiniteSet(Creators) /\ Cardinality(Creators) \in Nat
  /\ Cardinality(Creators) =< Cardinality(Requests) /\ Cardinality(Requests) \in Nat
<1>1. Saved \subseteq Addresses /\ Creators \subseteq Requests
  BY DEF Saved, Creators
<1> QED BY <1>1, SlotsAssumption, FS_Subset, FS_CardinalityType

\* Steps that add no row and no creator.
LEMMA FewerAreCounted ==
  ASSUME CreatorsAreCounted, Saved' \subseteq Saved, Creators' \subseteq Creators
  PROVE  CreatorsAreCounted' /\ Cardinality(Saved') =< Cardinality(Saved)
<1>1. /\ Cardinality(Saved') =< Cardinality(Saved) /\ Cardinality(Saved') \in Nat
      /\ Cardinality(Creators') =< Cardinality(Creators) /\ Cardinality(Creators') \in Nat
  BY SetsAreFinite, FS_Subset, FS_CardinalityType
<1> QED BY <1>1, SetsAreFinite, LimitAssumption DEF CreatorsAreCounted

\* A create that has counted is one of at most as many as there are slots.
LEMMA OneMoreCreator ==
  ASSUME Cardinality(Saved) < MaxAddresses, Saved' = Saved
  PROVE  CreatorsAreCounted'
<1>1. Creators' \subseteq Requests
  BY DEF Creators
<1>2. Cardinality(Creators') =< Cardinality(Requests) /\ Cardinality(Creators') \in Nat
  BY <1>1, SlotsAssumption, FS_Subset, FS_CardinalityType
<1> QED BY <1>2, SetsAreFinite, LimitAssumption DEF CreatorsAreCounted

\* A creator that commits becomes at most one row.
LEMMA CreatorBecomesRow ==
  ASSUME CreatorsAreCounted, NEW r \in Creators, NEW a,
         Saved' \subseteq Saved \union {a}, Creators' \subseteq Creators \ {r}
  PROVE  CreatorsAreCounted' /\ Cardinality(Saved') =< Cardinality(Saved) + 1
<1>1. /\ IsFiniteSet(Saved \union {a})
      /\ Cardinality(Saved \union {a}) =< Cardinality(Saved) + 1
      /\ Cardinality(Saved \union {a}) \in Nat
  <2>1. /\ IsFiniteSet(Saved \union {a})
        /\ Cardinality(Saved \union {a}) =
             IF a \in Saved THEN Cardinality(Saved) ELSE Cardinality(Saved) + 1
    BY SetsAreFinite, FS_AddElement
  <2> QED BY <2>1, SetsAreFinite
<1>2. Cardinality(Saved') =< Cardinality(Saved) + 1 /\ Cardinality(Saved') \in Nat
  BY <1>1, SetsAreFinite, FS_Subset, FS_CardinalityType
<1>3. /\ IsFiniteSet(Creators \ {r}) /\ Cardinality(Creators \ {r}) = Cardinality(Creators) - 1
  BY SetsAreFinite, FS_RemoveElement
<1>4. Cardinality(Creators') =< Cardinality(Creators) - 1 /\ Cardinality(Creators') \in Nat
  BY <1>3, FS_Subset, FS_CardinalityType
<1> QED BY <1>2, <1>4, SetsAreFinite, LimitAssumption DEF CreatorsAreCounted

------------------------------------------------------------------------------
(* The ends of a step.                                                     *)

\* r goes on, having written nothing.
LEMMA GoesOnPreserves ==
  ASSUME IInv, NEW r \in Requests, pc[r] \notin {"idle", "flushed"},
         NEW label \in Labels \ {"idle"}, pc' = [pc EXCEPT ![r] = label],
         NEW object \in Rows, row' = [row EXCEPT ![r] = object],
         NEW S \in SUBSET Addresses, todo' = [todo EXCEPT ![r] = S],
         UNCHANGED <<table, call, outcome, alone>>,
         \/ label \in {"write", "promote", "promoting", "flushed"} /\ object = row[r]
         \/ pc[r] \notin {"write", "promote", "promoting"},
         Fits(r)',
         r \in Creators' => r \in Creators \/ Cardinality(Saved) < MaxAddresses
  PROVE  IInv'
<1> USE DEF IInv
<1>1. /\ \A q \in Requests : q # r => pc'[q] = pc[q] /\ row'[q] = row[q] /\ todo'[q] = todo[q]
      /\ pc'[r] = label /\ row'[r] = object /\ todo'[r] = S
      /\ book' = book /\ draft' = draft /\ lock' = lock
      /\ call' = call /\ outcome' = outcome /\ alone' = alone
  BY DEF TypeOK, table
<1>2. TypeOK'
  BY <1>1 DEF TypeOK
<1>3. Locks'
  <2> SUFFICES ASSUME NEW a \in Addresses, lock[a] # Free
               PROVE  LET q == lock[a]
                      IN  /\ pc'[q] \in {"write", "promote", "promoting", "flushed"}
                          /\ May(q, a, book[a], draft[a])'
                          /\ book[a] = "absent" =>
                               /\ pc'[q] = "flushed" /\ call[q].op = "create"
                               /\ \A b \in Addresses : lock[b] = q /\ book[b] = "absent" => b = a
    BY <1>1 DEF Locks
  <2>1. row'[lock[a]] = row[lock[a]]
    BY <1>1 DEF Locks, TypeOK
  <2>2. May(lock[a], a, book[a], draft[a])'
    BY <1>1, <2>1 DEF Locks, May
  <2> QED BY <1>1, <2>2 DEF Locks, TypeOK
<1>4. RequestsFit'
  <2> SUFFICES ASSUME NEW q \in Requests, q # r PROVE Fits(q)'
    BY DEF RequestsFit
  <2> QED BY <1>1 DEF RequestsFit, Fits, Moves
<1>5. Saved' = Saved /\ Creators' \subseteq Creators \union {r}
  BY <1>1 DEF Saved, Creators
<1>6. CreatorsAreCounted'
  <2>1. CASE Creators' \subseteq Creators
    BY <1>5, <2>1, FewerAreCounted
  <2>2. CASE ~ Creators' \subseteq Creators
    BY <1>5, <2>2, OneMoreCreator
  <2> QED BY <2>1, <2>2
<1>7. Alone'
  <2> SUFFICES ASSUME alone # Free PROVE Alone'
    BY <1>1 DEF Alone
  <2>1. r = alone
    BY DEF Alone
  <2> QED BY <1>1, <1>5, <2>1 DEF Alone
<1> QED BY <1>2, <1>3, <1>4, <1>6, <1>7

\* r writes one row that nobody has locked.
LEMMA WritePreserves ==
  ASSUME IInv, NEW r \in Requests, pc[r] \in {"write", "read", "promoting"},
         NEW a \in Addresses, lock[a] = Free, NEW new \in Rows, Write(r, a, new),
         May(r, a, book[a], new),
         NEW label \in {"write", "promote", "promoting", "flushed"},
         pc' = [pc EXCEPT ![r] = label],
         NEW S \in SUBSET Addresses, todo' = [todo EXCEPT ![r] = S],
         UNCHANGED <<call, row, outcome, alone>>,
         book[a] = "absent" => label = "flushed" /\ call[r].op = "create",
         call[r].op = "create" => pc[r] = "write",
         Fits(r)'
  PROVE  IInv'
<1> USE DEF IInv
<1>1. /\ \A q \in Requests : q # r => pc'[q] = pc[q] /\ todo'[q] = todo[q]
      /\ pc'[r] = label /\ todo'[r] = S
      /\ \A b \in Addresses : b # a => draft'[b] = draft[b] /\ lock'[b] = lock[b]
      /\ draft'[a] = new /\ lock'[a] = r /\ book' = book
      /\ call' = call /\ row' = row /\ outcome' = outcome /\ alone' = alone
  BY DEF Write, TypeOK
<1>2. TypeOK'
  BY <1>1 DEF Write, TypeOK, Labels
<1>3. Locks'
  <2> SUFFICES ASSUME NEW b \in Addresses
               PROVE  IF lock'[b] = Free THEN draft'[b] = book[b]
                      ELSE LET q == lock'[b]
                           IN  /\ pc'[q] \in {"write", "promote", "promoting", "flushed"}
                               /\ May(q, b, book[b], draft'[b])
                               /\ book[b] = "absent" =>
                                    /\ pc'[q] = "flushed" /\ call[q].op = "create"
                                    /\ \A c \in Addresses :
                                         lock'[c] = q /\ book[c] = "absent" => c = b
    BY <1>1 DEF Locks, May
  <2>1. \A c \in Addresses : lock[c] = r => book[c] # "absent"
    BY SlotsAssumption DEF Locks
  <2>2. CASE b = a
    BY <1>1, <2>1, <2>2, SlotsAssumption
  <2>3. CASE b # a /\ lock[b] = r
    BY <1>1, <2>1, <2>3, SlotsAssumption DEF Locks
  <2>4. CASE b # a /\ lock[b] # r
    BY <1>1, <2>4 DEF Locks, TypeOK
  <2> QED BY <2>2, <2>3, <2>4
<1>4. RequestsFit'
  <2> SUFFICES ASSUME NEW q \in Requests, q # r PROVE Fits(q)'
    BY DEF RequestsFit
  <2> QED BY <1>1 DEF RequestsFit, Fits, Moves
<1>5. Saved' = Saved /\ Creators' \subseteq Creators
  BY <1>1 DEF Saved, Creators
<1>6. CreatorsAreCounted'
  BY <1>5, FewerAreCounted
<1>7. Alone'
  BY <1>1, <1>5 DEF Alone
<1> QED BY <1>2, <1>3, <1>4, <1>6, <1>7

\* r is answered: whoever runs alone afterwards did so before.
LEMMA AnswerKeepsAlone ==
  ASSUME IInv, NEW r \in Requests, NEW o, Answer(r, o), Saved' = Saved
  PROVE  Alone'
<1> USE DEF IInv
<1> SUFFICES ASSUME alone' # Free PROVE Alone'
  BY DEF Alone
<1>1. /\ alone' = alone /\ alone # r /\ alone \in Requests
      /\ \A q \in Requests : q # r => pc'[q] = pc[q] /\ call'[q] = call[q]
      /\ pc'[r] = "idle"
  BY DEF Answer, TypeOK
<1>2. Creators' \subseteq Creators
  BY <1>1 DEF Creators
<1> QED BY <1>1, <1>2 DEF Alone

\* r is answered and what it wrote is forgotten.
LEMMA RefusePreserves ==
  ASSUME IInv, NEW r \in Requests, NEW o \in Outcomes, Refuse(r, o)
  PROVE  IInv'
<1> USE DEF IInv
<1>1. /\ \A q \in Requests : q # r =>
           /\ pc'[q] = pc[q] /\ call'[q] = call[q] /\ row'[q] = row[q] /\ todo'[q] = todo[q]
      /\ pc'[r] = "idle" /\ todo'[r] = {} /\ book' = book
      /\ \A a \in Addresses : /\ lock[a] = r => draft'[a] = book[a] /\ lock'[a] = Free
                              /\ lock[a] # r => draft'[a] = draft[a] /\ lock'[a] = lock[a]
  BY DEF Refuse, Answer, TypeOK
<1>2. TypeOK'
  BY <1>1 DEF Refuse, Answer, TypeOK, Labels, Rows
<1>3. Locks'
  BY <1>1 DEF Locks, May, TypeOK
<1>4. RequestsFit'
  BY <1>1 DEF RequestsFit, Fits, Moves
<1>5. Saved' = Saved /\ Creators' \subseteq Creators
  BY <1>1 DEF Saved, Creators
<1>6. CreatorsAreCounted'
  BY <1>5, FewerAreCounted
<1>7. Alone'
  BY <1>5, AnswerKeepsAlone DEF Refuse
<1> QED BY <1>2, <1>3, <1>4, <1>6, <1>7

\* What a COMMIT publishes: the rows r has locked, changed as its call asks, of
\* which at most one was not in the book, and then r is a create.
LEMMA CommittedRows ==
  ASSUME IInv, NEW r \in Requests, Commit(r)
  PROVE  /\ \A a \in Addresses : book'[a] = IF lock[a] = r THEN draft[a] ELSE book[a]
         /\ book' \in [Addresses -> Rows]
         /\ \A a \in Addresses : May(r, a, book[a], book'[a])
         /\ \A a \in Addresses : book[a] = "absent" /\ book'[a] # "absent" => r \in Creators
         /\ \E a \in Addresses \union {"none"} : Saved' \subseteq Saved \union {a}
<1> USE DEF IInv
<1>1. /\ \A a \in Addresses : book'[a] = IF lock[a] = r THEN draft[a] ELSE book[a]
      /\ book' \in [Addresses -> Rows]
  BY DEF Commit, TypeOK
<1>2. ASSUME NEW a \in Addresses, book[a] = "absent", book'[a] # "absent"
      PROVE  /\ r \in Creators
             /\ \A b \in Addresses : book[b] = "absent" /\ book'[b] # "absent" => b = a
  BY <1>1, <1>2, SlotsAssumption DEF Locks, Creators
<1>3. \E a \in Addresses \union {"none"} : Saved' \subseteq Saved \union {a}
  <2>1. CASE \E a \in Addresses : book[a] = "absent" /\ book'[a] # "absent"
    <3>1. PICK a \in Addresses : book[a] = "absent" /\ book'[a] # "absent"
      BY <2>1
    <3>2. Saved' \subseteq Saved \union {a}
      BY <1>2, <3>1 DEF Saved
    <3> QED BY <3>2
  <2>2. CASE ~ \E a \in Addresses : book[a] = "absent" /\ book'[a] # "absent"
    BY <2>2 DEF Saved
  <2> QED BY <2>1, <2>2
<1>4. ASSUME NEW a \in Addresses PROVE May(r, a, book[a], book'[a])
  <2>1. CASE lock[a] = r
    BY <1>1, <2>1, SlotsAssumption DEF Locks
  <2>2. CASE lock[a] # r
    BY <1>1, <2>2 DEF May
  <2> QED BY <2>1, <2>2
<1> QED BY <1>1, <1>2, <1>3, <1>4

LEMMA CommitPreserves ==
  ASSUME IInv, NEW r \in Requests, Commit(r)
  PROVE  IInv'
<1> USE DEF IInv
<1>1. /\ pc[r] = "flushed" /\ pc'[r] = "idle" /\ todo'[r] = {}
      /\ draft' = draft
      /\ \A q \in Requests : q # r =>
           /\ pc'[q] = pc[q] /\ call'[q] = call[q] /\ row'[q] = row[q] /\ todo'[q] = todo[q]
      /\ \A a \in Addresses : lock'[a] = IF lock[a] = r THEN Free ELSE lock[a]
      /\ alone' = IF alone = r THEN Free ELSE alone
  BY DEF Commit, Answer, TypeOK
<1>2. TypeOK'
  <2>1. PICK o \in {"ok", "lost"} : Answer(r, o)
    BY DEF Commit
  <2>2. draft' \in [Addresses -> Rows] /\ alone' \in Requests \union {Free}
    BY <1>1 DEF TypeOK
  <2> QED BY <2>1, <2>2, CommittedRows DEF Answer, TypeOK, Labels, Rows, Outcomes
<1>3. Locks'
  <2>1. ASSUME NEW a \in Addresses, lock[a] = r \/ lock[a] = Free
        PROVE  lock'[a] = Free /\ draft'[a] = book'[a]
    BY <1>1, <2>1, CommittedRows DEF Locks
  <2>2. ASSUME NEW a \in Addresses, lock[a] # r, lock[a] # Free
        PROVE  /\ lock'[a] = lock[a] /\ pc'[lock[a]] \in {"write", "promote", "promoting", "flushed"}
               /\ May(lock[a], a, book[a], draft[a])'
               /\ book'[a] = "absent" =>
                    /\ pc'[lock[a]] = "flushed" /\ call'[lock[a]].op = "create"
                    /\ \A b \in Addresses : lock'[b] = lock[a] /\ book'[b] = "absent" => b = a
    <3>1. \A b \in Addresses : lock'[b] = lock[a] => lock[b] = lock[a] /\ book'[b] = book[b]
      BY <1>1, <2>2, CommittedRows
    <3>2. lock[a] \in Requests /\ call'[lock[a]] = call[lock[a]] /\ row'[lock[a]] = row[lock[a]]
          /\ lock'[a] = lock[a] /\ book'[a] = book[a] /\ pc'[lock[a]] = pc[lock[a]]
      BY <1>1, <2>2, CommittedRows DEF TypeOK
    <3>3. May(lock[a], a, book[a], draft[a])'
      BY <1>1, <2>2, <3>2 DEF Locks, May
    <3> QED BY <1>1, <2>2, <3>1, <3>2, <3>3 DEF Locks
  <2> QED BY <2>1, <2>2 DEF Locks, May
<1>4. RequestsFit'
  BY <1>1 DEF RequestsFit, Fits, Moves
<1>5. Creators' \subseteq Creators \ {r}
  BY <1>1 DEF Creators
<1>6. CreatorsAreCounted'
  <2>1. CASE r \in Creators
    <3>1. PICK a \in Addresses \union {"none"} : Saved' \subseteq Saved \union {a}
      BY CommittedRows
    <3> QED BY <1>5, <2>1, <3>1, CreatorBecomesRow
  <2>2. CASE r \notin Creators
    <3>1. Saved' \subseteq Saved
      BY <2>2, CommittedRows DEF Saved
    <3> QED BY <1>5, <2>2, <3>1, FewerAreCounted
  <2> QED BY <2>1, <2>2
<1>7. Alone'
  <2>1. alone' = Free
    BY <1>1 DEF Alone
  <2> QED BY <2>1 DEF Alone
<1> QED BY <1>2, <1>3, <1>4, <1>6, <1>7

------------------------------------------------------------------------------
(* The actions.                                                            *)

LEMMA ReceivePreserves ==
  ASSUME IInv, NEW r \in Requests, NEW c \in Call, Receive(r, c)
  PROVE  IInv'
<1> USE DEF IInv
<1>1. /\ pc[r] = "idle" /\ pc'[r] = "received" /\ call'[r] = c /\ todo[r] = {}
      /\ \A q \in Requests : q # r => pc'[q] = pc[q] /\ call'[q] = call[q]
      /\ book' = book /\ draft' = draft /\ lock' = lock /\ row' = row /\ todo' = todo
      /\ alone' = IF \A q \in Requests : pc[q] = "idle" THEN r ELSE Free
  BY DEF Receive, TypeOK, table, RequestsFit, Fits
<1>2. TypeOK'
  BY <1>1 DEF Receive, TypeOK, Labels, Outcomes
<1>3. Locks'
  <2> SUFFICES ASSUME NEW a \in Addresses, lock[a] # Free
               PROVE  LET q == lock[a]
                      IN  /\ pc'[q] \in {"write", "promote", "promoting", "flushed"}
                          /\ May(q, a, book[a], draft[a])'
                          /\ book[a] = "absent" =>
                               /\ pc'[q] = "flushed" /\ call'[q].op = "create"
                               /\ \A b \in Addresses : lock[b] = q /\ book[b] = "absent" => b = a
    BY <1>1 DEF Locks
  <2>1. lock[a] \in Requests /\ lock[a] # r
    BY <1>1 DEF Locks, TypeOK
  <2>2. May(lock[a], a, book[a], draft[a])'
    BY <1>1, <2>1 DEF Locks, May
  <2> QED BY <1>1, <2>1, <2>2 DEF Locks
<1>4. RequestsFit'
  BY <1>1, CallAssumption DEF RequestsFit, Fits, Moves
<1>5. Saved' = Saved /\ Creators' \subseteq Creators
  BY <1>1 DEF Saved, Creators
<1>6. CreatorsAreCounted'
  BY <1>5, FewerAreCounted
<1>7. Alone'
  BY <1>1 DEF Alone, Creators
<1> QED BY <1>2, <1>3, <1>4, <1>6, <1>7

LEMMA CreateCheckPreserves ==
  ASSUME IInv, NEW r \in Requests, CreateCheck(r)
  PROVE  IInv'
<1> USE DEF IInv
<1>1. CASE Cardinality(Saved) >= MaxAddresses
  BY <1>1, RefusePreserves DEF CreateCheck, Outcomes
<1>2. CASE ~ Cardinality(Saved) >= MaxAddresses
  <2> DEFINE default == call[r].wish = "default" \/ Saved = {}
             object  == IF default THEN "default" ELSE "plain"
             label   == IF default THEN "unset" ELSE "write"
  <2>1. /\ pc[r] = "received" /\ call[r].op = "create" /\ call[r] # NoCall
        /\ row' = [row EXCEPT ![r] = object] /\ pc' = [pc EXCEPT ![r] = label]
        /\ UNCHANGED <<table, call, todo, outcome, alone>>
    BY <1>2, CallIsKnown DEF CreateCheck
  <2>2. /\ pc'[r] = label /\ row'[r] = object /\ call' = call /\ todo' = todo /\ todo[r] = {}
    BY <2>1 DEF TypeOK, RequestsFit, Fits
  <2>3. Fits(r)'
    BY <2>1, <2>2 DEF Fits, Moves
  <2>4. Cardinality(Saved) < MaxAddresses
    BY <1>2, SetsAreFinite, LimitAssumption
  <2>5. /\ label \in Labels \ {"idle"} /\ object \in Rows
        /\ todo[r] \in SUBSET Addresses /\ todo' = [todo EXCEPT ![r] = todo[r]]
    BY <2>2 DEF Labels, Rows, TypeOK
  <2> HIDE DEF label, object
  <2> QED BY <2>1, <2>3, <2>4, <2>5, GoesOnPreserves
<1> QED BY <1>1, <1>2

LEMMA InsertPreserves ==
  ASSUME IInv, NEW r \in Requests, Insert(r)
  PROVE  IInv'
<1> USE DEF IInv
<1>1. PICK a \in Fresh : Write(r, a, row[r])
  BY DEF Insert
<1>2. /\ pc[r] = "write" /\ todo[r] = {} /\ call[r].op = "create" /\ call[r] # NoCall
      /\ pc' = [pc EXCEPT ![r] = "flushed"] /\ pc'[r] = "flushed"
      /\ UNCHANGED <<call, row, todo, outcome, alone>>
      /\ a \in Addresses /\ book[a] = "absent" /\ lock[a] = Free
      /\ row[r] \in Rows /\ todo' = [todo EXCEPT ![r] = todo[r]] /\ todo[r] \in SUBSET Addresses
  BY <1>1, CallIsKnown DEF Insert, Fresh, TypeOK, Rows
<1>3. Fits(r)' /\ May(r, a, book[a], row[r])
  BY <1>2 DEF Fits, May
<1> QED BY <1>1, <1>2, <1>3, WritePreserves

LEMMA UpdateReadPreserves ==
  ASSUME IInv, NEW r \in Requests, UpdateRead(r)
  PROVE  IInv'
<1> USE DEF IInv
<1>1. CASE book[call[r].id] = "absent"
  BY <1>1, RefusePreserves DEF UpdateRead, Outcomes
<1>2. CASE book[call[r].id] # "absent"
  <2> DEFINE label == IF call[r].wish = "default" THEN "unset" ELSE "write"
  <2>1. /\ pc[r] = "received" /\ call[r].op = "update" /\ call[r] # NoCall
        /\ call[r].id \in Addresses
        /\ row' = [row EXCEPT ![r] = book[call[r].id]] /\ pc' = [pc EXCEPT ![r] = label]
        /\ UNCHANGED <<table, call, todo, outcome, alone>>
    BY <1>2, CallIsKnown DEF UpdateRead
  <2>2. pc'[r] = label /\ call' = call /\ todo' = todo /\ todo[r] = {}
    BY <2>1 DEF TypeOK, RequestsFit, Fits
  <2>3. Fits(r)'
    BY <2>1, <2>2 DEF Fits, Moves
  <2>4. /\ label \in Labels \ {"idle"} /\ book[call[r].id] \in Rows
        /\ todo[r] \in SUBSET Addresses /\ todo' = [todo EXCEPT ![r] = todo[r]]
        /\ r \notin Creators'
    BY <2>1, <2>2 DEF Labels, TypeOK, Creators
  <2> HIDE DEF label
  <2> QED BY <2>1, <2>3, <2>4, GoesOnPreserves
<1> QED BY <1>1, <1>2

LEMMA DeleteReadPreserves ==
  ASSUME IInv, NEW r \in Requests, DeleteRead(r)
  PROVE  IInv'
<1> USE DEF IInv
<1>1. CASE book[call[r].id] = "absent"
  BY <1>1, RefusePreserves DEF DeleteRead, Outcomes
<1>2. CASE book[call[r].id] # "absent"
  <2>1. /\ pc[r] = "received" /\ call[r].op = "delete" /\ call[r] # NoCall
        /\ call[r].id \in Addresses
        /\ row' = [row EXCEPT ![r] = book[call[r].id]] /\ pc' = [pc EXCEPT ![r] = "read"]
        /\ UNCHANGED <<table, call, todo, outcome, alone>>
    BY <1>2, CallIsKnown DEF DeleteRead
  <2>2. pc'[r] = "read" /\ call' = call /\ todo' = todo /\ todo[r] = {}
    BY <2>1 DEF TypeOK, RequestsFit, Fits
  <2>3. Fits(r)'
    BY <2>1, <2>2 DEF Fits, Moves
  <2>4. /\ "read" \in Labels \ {"idle"} /\ book[call[r].id] \in Rows
        /\ todo[r] \in SUBSET Addresses /\ todo' = [todo EXCEPT ![r] = todo[r]]
        /\ r \notin Creators'
    BY <2>1, <2>2 DEF Labels, TypeOK, Creators
  <2> QED BY <2>1, <2>3, <2>4, GoesOnPreserves
<1> QED BY <1>1, <1>2

LEMMA UnsetPreserves ==
  ASSUME IInv, NEW r \in Requests, Unset(r)
  PROVE  IInv'
<1> USE DEF IInv
<1> DEFINE S == {a \in Defaults : call[r].op = "update" => a # call[r].id}
<1>1. /\ pc[r] = "unset" /\ call[r] # NoCall /\ call[r].op \in {"create", "update"} /\ Moves(r)
      /\ todo' = [todo EXCEPT ![r] = S] /\ pc' = [pc EXCEPT ![r] = "write"]
      /\ UNCHANGED <<table, call, row, outcome, alone>>
  BY CallIsKnown DEF Unset, RequestsFit, Fits
<1>2. S \in SUBSET Addresses
  BY DEF Defaults
<1>3. pc'[r] = "write" /\ todo'[r] = S /\ call' = call /\ row' = row
  BY <1>1 DEF TypeOK
<1>4. Fits(r)'
  BY <1>1, <1>3 DEF Fits, Moves
<1>5. /\ "write" \in Labels \ {"idle"} /\ row[r] \in Rows /\ row' = [row EXCEPT ![r] = row[r]]
      /\ r \in Creators' => r \in Creators
  BY <1>1, <1>3 DEF Labels, TypeOK, Creators
<1> HIDE DEF S
<1> QED BY <1>1, <1>2, <1>4, <1>5, GoesOnPreserves

LEMMA UnsetRowPreserves ==
  ASSUME IInv, NEW r \in Requests, NEW a \in Addresses, UnsetRow(r, a)
  PROVE  IInv'
<1> USE DEF IInv
<1>1. /\ pc[r] = "write" /\ a \in todo[r] /\ lock[a] = Free
      /\ todo' = [todo EXCEPT ![r] = todo[r] \ {a}] /\ todo'[r] = todo[r] \ {a}
      /\ todo[r] \ {a} \in SUBSET Addresses
      /\ call[r] # NoCall /\ call[r].op \in {"create", "update"}
      /\ Moves(r) /\ (call[r].op # "create" => call[r].id \notin todo[r])
      /\ UNCHANGED <<pc, call, row, outcome, alone>>
      /\ pc' = [pc EXCEPT ![r] = "write"] /\ row' = [row EXCEPT ![r] = row[r]]
      /\ row[r] \in Rows /\ "write" \in Labels \ {"idle"}
  BY CallIsKnown DEF UnsetRow, TypeOK, RequestsFit, Fits, Labels
<1>2. Fits(r)'
  BY <1>1 DEF Fits, Moves
<1>3. CASE book[a] = "default"
  <2>1. Write(r, a, "plain") /\ "plain" \in Rows
    BY <1>3 DEF UnsetRow, Rows
  <2>2. May(r, a, book[a], "plain")
    BY <1>1, <1>3 DEF May, Moves
  <2> QED BY <1>1, <1>2, <1>3, <2>1, <2>2, WritePreserves
<1>4. CASE book[a] # "default"
  <2>1. UNCHANGED table
    BY <1>4 DEF UnsetRow
  <2>2. r \in Creators' => r \in Creators
    BY <1>1 DEF Creators
  <2> QED BY <1>1, <1>2, <2>1, <2>2, GoesOnPreserves
<1> QED BY <1>3, <1>4

LEMMA UpdateWritePreserves ==
  ASSUME IInv, NEW r \in Requests, UpdateWrite(r)
  PROVE  IInv'
<1> USE DEF IInv
<1> DEFINE a == call[r].id
<1>1. /\ pc[r] = "write" /\ todo[r] = {} /\ call[r].op = "update" /\ call[r] # NoCall
      /\ a \in Addresses /\ call[r].wish \in {"same", "plain", "default"}
      /\ book[a] \in Rows /\ row[r] \in Rows
      /\ todo[r] \in SUBSET Addresses /\ "flushed" \in Labels \ {"idle"}
  BY CallIsKnown DEF UpdateWrite, TypeOK, Labels
<1>2. CASE ~ChangesDefault(r) /\ Goto(r, "flushed")
  <2>1. /\ pc' = [pc EXCEPT ![r] = "flushed"] /\ pc'[r] = "flushed"
        /\ UNCHANGED <<table, call, outcome, alone>>
        /\ row' = [row EXCEPT ![r] = row[r]] /\ todo' = [todo EXCEPT ![r] = todo[r]]
        /\ call' = call /\ todo' = todo
    BY <1>2 DEF Goto, TypeOK
  <2>2. Fits(r)' /\ r \notin Creators'
    BY <1>1, <2>1 DEF Fits, Creators
  <2> QED BY <1>1, <2>1, <2>2, GoesOnPreserves
<1>3. CASE /\ lock[a] = Free /\ book[a] = "absent" /\ Refuse(r, "internal_error")
  BY <1>3, RefusePreserves DEF Outcomes
<1>4. CASE /\ lock[a] = Free /\ book[a] # "absent"
           /\ Write(r, a, IF ChangesDefault(r) THEN call[r].wish ELSE book[a])
           /\ pc' = [pc EXCEPT ![r] = "flushed"]
           /\ UNCHANGED <<call, row, todo, outcome, alone>>
  <2> DEFINE new == IF ChangesDefault(r) THEN call[r].wish ELSE book[a]
  <2>1. new \in Rows
    BY <1>1 DEF Rows, ChangesDefault
  <2>2. pc'[r] = "flushed" /\ todo' = [todo EXCEPT ![r] = todo[r]] /\ call' = call
        /\ todo' = todo
    BY <1>1, <1>4 DEF TypeOK
  <2>3. Fits(r)' /\ May(r, a, book[a], new)
    BY <1>1, <2>2 DEF Fits, May
  <2> HIDE DEF new
  <2> QED BY <1>1, <1>4, <2>1, <2>2, <2>3, WritePreserves DEF new
<1> QED BY <1>2, <1>3, <1>4 DEF UpdateWrite

LEMMA DeleteRowPreserves ==
  ASSUME IInv, NEW r \in Requests, DeleteRow(r)
  PROVE  IInv'
<1> USE DEF IInv
<1> DEFINE a     == call[r].id
           label == IF row[r] = "default" THEN "promote" ELSE "flushed"
<1>1. /\ pc[r] = "read" /\ todo[r] = {} /\ call[r].op = "delete" /\ call[r] # NoCall
      /\ a \in Addresses /\ lock[a] = Free
      /\ pc' = [pc EXCEPT ![r] = label] /\ pc'[r] = label
      /\ UNCHANGED <<call, row, todo, outcome, alone>>
      /\ todo' = [todo EXCEPT ![r] = todo[r]] /\ row' = [row EXCEPT ![r] = row[r]]
      /\ todo[r] \in SUBSET Addresses /\ row[r] \in Rows /\ label \in Labels \ {"idle"}
      /\ r \notin Creators'
  BY CallIsKnown DEF DeleteRow, TypeOK, RequestsFit, Fits, Labels, Creators
<1>2. Fits(r)'
  BY <1>1 DEF Fits
<1>3. CASE book[a] = "absent"
  <2>1. UNCHANGED table
    BY <1>3 DEF DeleteRow
  <2> HIDE DEF label
  <2> QED BY <1>1, <1>2, <2>1, GoesOnPreserves DEF label
<1>4. CASE book[a] # "absent"
  <2>1. Write(r, a, "absent") /\ "absent" \in Rows /\ May(r, a, book[a], "absent")
    BY <1>1, <1>4 DEF DeleteRow, Rows, May
  <2> HIDE DEF label
  <2> QED BY <1>1, <1>2, <1>4, <2>1, WritePreserves DEF label
<1> QED BY <1>3, <1>4

LEMMA PromotePreserves ==
  ASSUME IInv, NEW r \in Requests, Promote(r)
  PROVE  IInv'
<1> USE DEF IInv
<1> DEFINE remaining == Saved \ {call[r].id}
<1>1. /\ pc[r] = "promote" /\ call[r].op = "delete" /\ call[r] # NoCall
      /\ call[r].id \in Addresses /\ row[r] \in Rows /\ todo[r] \in SUBSET Addresses
      /\ {"flushed", "promoting"} \subseteq Labels \ {"idle"}
      /\ todo[r] # {} => call[r].id \notin todo[r]
  BY CallIsKnown DEF Promote, TypeOK, RequestsFit, Fits, Labels
<1>2. CASE Goto(r, "flushed")
  <2>1. /\ pc' = [pc EXCEPT ![r] = "flushed"] /\ pc'[r] = "flushed"
        /\ UNCHANGED <<table, call, outcome, alone>>
        /\ row' = [row EXCEPT ![r] = row[r]] /\ todo' = [todo EXCEPT ![r] = todo[r]]
        /\ call' = call /\ todo' = todo
    BY <1>2 DEF Goto, TypeOK
  <2>2. Fits(r)' /\ r \notin Creators'
    BY <1>1, <2>1 DEF Fits, Creators
  <2> QED BY <1>1, <2>1, <2>2, GoesOnPreserves
<1>3. CASE \E a \in remaining :
              /\ book[a] = "plain"
              /\ todo' = [todo EXCEPT ![r] = {a}]
              /\ pc'   = [pc EXCEPT ![r] = "promoting"]
              /\ UNCHANGED <<table, call, row, outcome, alone>>
  <2>1. PICK a \in remaining :
          /\ todo' = [todo EXCEPT ![r] = {a}]
          /\ pc'   = [pc EXCEPT ![r] = "promoting"]
          /\ UNCHANGED <<table, call, row, outcome, alone>>
    BY <1>3
  <2>2. /\ pc'[r] = "promoting" /\ row' = [row EXCEPT ![r] = row[r]]
        /\ call' = call /\ todo'[r] = {a} /\ {a} \in SUBSET Addresses /\ a # call[r].id
    BY <2>1 DEF TypeOK, Saved
  <2>3. Fits(r)' /\ r \notin Creators'
    BY <1>1, <2>2 DEF Fits, Creators
  <2> QED BY <1>1, <2>1, <2>2, <2>3, GoesOnPreserves
<1> QED BY <1>2, <1>3 DEF Promote

LEMMA PromoteRowPreserves ==
  ASSUME IInv, NEW r \in Requests, NEW a \in Addresses, PromoteRow(r, a)
  PROVE  IInv'
<1> USE DEF IInv
<1>1. /\ pc[r] = "promoting" /\ call[r].op = "delete" /\ call[r] # NoCall /\ lock[a] = Free
      /\ a # call[r].id
  BY CallIsKnown DEF PromoteRow, RequestsFit, Fits
<1>2. CASE book[a] = "absent"
  BY <1>2, RefusePreserves DEF PromoteRow, Outcomes
<1>3. CASE book[a] # "absent"
  <2>1. /\ Write(r, a, "default") /\ "default" \in Rows
        /\ pc' = [pc EXCEPT ![r] = "flushed"] /\ pc'[r] = "flushed"
        /\ todo' = [todo EXCEPT ![r] = {}] /\ todo'[r] = {} /\ {} \in SUBSET Addresses
        /\ UNCHANGED <<call, row, outcome, alone>>
    BY <1>3 DEF PromoteRow, Rows, TypeOK
  <2>2. Fits(r)'
    BY <1>1, <2>1 DEF Fits
  <2>3. May(r, a, book[a], "default")
    BY <1>1, <1>3 DEF May, TypeOK, Rows
  <2> QED BY <1>1, <1>3, <2>1, <2>2, <2>3, WritePreserves
<1> QED BY <1>2, <1>3

LEMMA StepPreserves ==
  ASSUME IInv, [Next]_vars
  PROVE  IInv'
<1>1. CASE UNCHANGED vars
  <2>1. /\ book' = book /\ draft' = draft /\ lock' = lock /\ pc' = pc /\ call' = call
        /\ row' = row /\ todo' = todo /\ outcome' = outcome /\ alone' = alone
    BY <1>1 DEF vars, table, requests
  <2>2. Saved' = Saved /\ Creators' = Creators
    BY <2>1 DEF Saved, Creators
  <2>3. TypeOK' /\ RequestsFit' /\ CreatorsAreCounted' /\ Alone'
    BY <2>1, <2>2 DEF IInv, TypeOK, RequestsFit, Fits, Moves, CreatorsAreCounted, Alone
  <2>4. Locks'
    BY <2>1 DEF IInv, Locks, May
  <2> QED BY <2>3, <2>4 DEF IInv
<1>2. ASSUME NEW r \in Requests, Step(r) PROVE IInv'
  <2>1. CASE Fail(r)
    BY <2>1, RefusePreserves DEF Fail, Outcomes
  <2> QED BY <1>2, <2>1, CreateCheckPreserves, InsertPreserves, UpdateReadPreserves,
             UpdateWritePreserves, DeleteReadPreserves, DeleteRowPreserves, PromotePreserves,
             UnsetPreserves, UnsetRowPreserves, PromoteRowPreserves, CommitPreserves DEF Step
<1> QED BY <1>1, <1>2, ReceivePreserves DEF Next

\* The inductive invariant holds in every reachable state.
THEOREM Invariance == Spec => []IInv
<1>1. Init => IInv
  <2> SUFFICES ASSUME Init PROVE IInv
    OBVIOUS
  <2>1. TypeOK
    BY DEF Init, TypeOK, Labels, Rows, Outcomes
  <2>2. Locks /\ RequestsFit
    BY DEF Init, Locks, RequestsFit, Fits
  <2>3. Saved = {} /\ Creators = {}
    BY DEF Init, Saved, Creators
  <2>4. CreatorsAreCounted
    BY <2>3, SetsAreFinite, FS_EmptySet, LimitAssumption DEF CreatorsAreCounted
  <2>5. Alone
    BY DEF Init, Alone
  <2> QED BY <2>1, <2>2, <2>4, <2>5 DEF IInv
<1>2. IInv /\ [Next]_vars => IInv'
  BY StepPreserves
<1> QED BY <1>1, <1>2, PTL DEF Spec

\* Rows and requests keep their shape, whatever update() skips.
THEOREM TypeCorrectness == Spec => []TypeOK
<1>1. IInv => TypeOK
  BY DEF IInv
<1> QED BY <1>1, Invariance, PTL

\* Concurrent creates exceed the limit by fewer than there are requests.
THEOREM BookIsLimited == Spec => []BookLimit
<1>1. IInv => BookLimit
  BY SetsAreFinite, LimitAssumption DEF IInv, CreatorsAreCounted, BookLimit
<1> QED BY <1>1, Invariance, PTL

\* The book changes by COMMITs only.
LEMMA OnlyCommitWrites ==
  ASSUME [Next]_vars, book' # book
  PROVE  \E r \in Requests : Commit(r)
BY DEF Next, Step, vars, table, Receive, CreateCheck, Insert, UpdateRead, UpdateWrite, DeleteRead,
       DeleteRow, Promote, Unset, UnsetRow, PromoteRow, Fail, Refuse, Answer, Goto, Write

\* A deleted address comes back by no update and no promotion, whatever they
\* had read of it.
THEOREM DeletionsLast == Spec => DeletedStaysDeleted
<1>1. IInv /\ [Next]_vars => [OnlyCreateAdds]_vars
  <2> SUFFICES ASSUME IInv, [Next]_vars, NEW a \in Addresses,
                      book[a] = "absent", book'[a] # "absent"
               PROVE  \E r \in Requests : /\ pc[r] = "flushed" /\ pc'[r] = "idle"
                                          /\ call[r].op = "create"
    BY DEF OnlyCreateAdds
  <2>1. PICK r \in Requests : Commit(r)
    BY OnlyCommitWrites
  <2>2. r \in Creators /\ pc[r] = "flushed" /\ pc'[r] = "idle"
    BY <2>1, CommittedRows DEF Commit, Answer, IInv, TypeOK
  <2> QED BY <2>2 DEF Creators
<1> QED BY <1>1, Invariance, PTL DEF Spec, DeletedStaysDeleted

\* Whatever overlaps, a COMMIT changes only what its call asks for: the rows a
\* request has locked are, by Locks, changed so from the committed ones.
THEOREM CommitsAreOwn == Spec => CommitsFollowCalls
<1>1. IInv /\ [Next]_vars => [CommitsOwnChanges]_vars
  <2> SUFFICES ASSUME IInv, [Next]_vars, book' # book
               PROVE  \E r \in Requests : /\ pc[r] = "flushed" /\ pc'[r] = "idle"
                                          /\ \A a \in Addresses : May(r, a, book[a], book'[a])
    BY DEF CommitsOwnChanges
  <2>1. PICK r \in Requests : Commit(r)
    BY OnlyCommitWrites
  <2>2. pc[r] = "flushed" /\ pc'[r] = "idle"
    BY <2>1 DEF Commit, Answer, IInv, TypeOK
  <2> QED BY <2>1, <2>2, CommittedRows
<1> QED BY <1>1, Invariance, PTL DEF Spec, CommitsFollowCalls
==============================================================================
