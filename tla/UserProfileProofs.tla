-------------------------- MODULE UserProfileProofs --------------------------
(***************************************************************************)
(* Proofs about UserProfile, for any settings tables, data and slots: IInv *)
(* is inductive, and the run's properties follow from it.                  *)
(*                                                                         *)
(* A step ends in one of four ways, and a lemma carries the induction over *)
(* each: r goes on having written nothing, r writes one row, r commits, r  *)
(* is answered without a commit.                                           *)
(***************************************************************************)
EXTENDS UserProfile, TLAPS

\* The fields of a call.
LEMMA CallFields ==
  ASSUME NEW c \in Call
  PROVE  /\ c.op \in {"get", "put", "submit"} /\ c.table \in Tables
         /\ c.op = "put" => c.wish \in Data \union {Same}
         /\ c.op = "submit" => c.wish \in Data /\ c.table = "kyc_profiles"
BY DEF Call, Tables

\* A request that is under way was asked for something.
LEMMA CallIsKnown ==
  ASSUME TypeOK, RequestsFit, NEW r \in Requests, pc[r] # "idle"
  PROVE  call[r] \in Call /\ call[r] # NoCall /\ call[r].table \in Tables
BY CallFields DEF TypeOK, RequestsFit, Fits

LEMMA TableNames ==
  /\ "users" \in Tables /\ "kyc_profiles" \in Tables
  /\ \A t \in Settings : t \in Tables /\ t \notin {"users", "kyc_profiles"}
BY TablesAssumption DEF Tables

\* Before its first write, and between transactions, a request holds nothing.
LEMMA NothingHeld ==
  ASSUME Writers, NEW r \in Requests, pc[r] \notin {"user_created", "created", "flushed"},
         NEW t \in Tables
  PROVE  lock[t] # r
BY NullAssumption DEF Writers

\* While r is open, only r may run alone, and then no row is another's.
LEMMA LoneRequest ==
  ASSUME IInv, NEW r \in Requests, pc[r] # "idle"
  PROVE  /\ alone \in {r, Free}
         /\ alone = r => \A t \in Tables : lock[t] \in {r, Free}
BY NullAssumption DEF IInv, TypeOK, Alone, Writers

LEMMA StaysAlone ==
  ASSUME IInv, NEW r \in Requests, pc[r] # "idle",
         \A q \in Requests : q # r => pc'[q] = pc[q],
         \/ alone' = Free
         \/ /\ alone' = alone /\ outcome' = outcome /\ pc'[r] # "idle"
            /\ alone = r => Undisturbed(r)'
  PROVE  Alone'
<1> SUFFICES ASSUME alone' # Free PROVE Alone'
  BY DEF Alone
<1>1. alone = r /\ alone' = r /\ pc'[r] # "idle" /\ outcome'[r] = "none"
  BY LoneRequest, NullAssumption DEF IInv, Alone
<1>2. \A q \in Requests : pc'[q] # "idle" => q = r
  BY <1>1, NullAssumption DEF IInv, Alone
<1>3. Undisturbed(alone)'
  BY <1>1
<1> QED BY <1>1, <1>2, <1>3 DEF Alone

\* r goes on, having written nothing.
LEMMA GotoPreserves ==
  ASSUME IInv, NEW r \in Requests,
         pc[r] \in {"received", "create_user", "provisioned", "loaded"},
         NEW label \in {"create_user", "provisioned", "create", "loaded", "flushed"},
         NEW object \in Row \union {NoRow}, Goto(r, label, object),
         Fits(r)', alone = r => Undisturbed(r)'
  PROVE  IInv'
<1> USE DEF IInv
<1>1. /\ \A q \in Requests : q # r => pc'[q] = pc[q] /\ row'[q] = row[q]
      /\ pc'[r] = label /\ row'[r] = object
      /\ saved' = saved /\ draft' = draft /\ lock' = lock
      /\ call' = call /\ outcome' = outcome /\ alone' = alone
  BY DEF Goto, TypeOK, table
<1>2. TypeOK'
  BY <1>1 DEF Goto, TypeOK, Labels
<1>3. Writers'
  BY <1>1 DEF Writers, TypeOK
<1>4. RequestsFit'
  <2> SUFFICES ASSUME NEW q \in Requests, q # r PROVE Fits(q)'
    BY DEF RequestsFit
  <2> QED BY <1>1 DEF RequestsFit, Fits
<1>5. Alone'
  BY <1>1, StaysAlone
<1>6. ProfileComesFirst'
  BY <1>1 DEF ProfileComesFirst
<1> QED BY <1>2, <1>3, <1>4, <1>5, <1>6

\* r writes a row nobody has locked.
LEMMA WritePreserves ==
  ASSUME IInv, NEW r \in Requests, pc[r] \in {"create_user", "create", "loaded"},
         NEW t \in Tables, lock[t] = Free,
         NEW new \in Row, t = "kyc_profiles" => new.status = "in_review",
         t # "users" => saved["users"] # NoRow,
         NEW label \in {"user_created", "created", "flushed"}, Write(r, t, new, label),
         Fits(r)', alone = r => Undisturbed(r)'
  PROVE  IInv'
<1> USE DEF IInv
<1>1. /\ \A q \in Requests : q # r => pc'[q] = pc[q] /\ row'[q] = row[q]
      /\ pc'[r] = label /\ row'[r] = new
      /\ \A u \in Tables : u # t => draft'[u] = draft[u] /\ lock'[u] = lock[u]
      /\ draft'[t] = new /\ lock'[t] = r
      /\ saved' = saved /\ call' = call /\ outcome' = outcome /\ alone' = alone
  BY DEF Write, TypeOK
<1>2. TypeOK'
  BY <1>1 DEF Write, TypeOK, Labels
<1>3. Writers'
  BY <1>1, NullAssumption DEF Writers, TypeOK
<1>4. RequestsFit'
  <2> SUFFICES ASSUME NEW q \in Requests, q # r PROVE Fits(q)'
    BY DEF RequestsFit
  <2>1. Fits(q) /\ \A u \in Tables : lock[u] = q => lock'[u] = q
    BY <1>1, NullAssumption DEF RequestsFit
  <2>2. pc[q] # "idle" => call[q].table \in Tables
    BY CallIsKnown
  <2> QED BY <1>1, <2>1, <2>2, TableNames DEF Fits
<1>5. Alone'
  BY <1>1, StaysAlone
<1>6. ProfileComesFirst'
  BY <1>1 DEF ProfileComesFirst
<1> QED BY <1>2, <1>3, <1>4, <1>5, <1>6

\* COMMIT makes the rows r wrote those of the table and leaves the others.
LEMMA PublishEffect ==
  ASSUME TypeOK, Writers, NEW r \in Requests, Publish(r)
  PROVE  /\ saved' \in [Tables -> Row \union {NoRow}] /\ draft' = draft
         /\ lock' \in [Tables -> Requests \union {Free}]
         /\ \A t \in Tables :
              /\ lock[t] = r => saved'[t] = draft[t] /\ saved'[t] # NoRow /\ lock'[t] = Free
              /\ lock[t] # r => saved'[t] = saved[t] /\ lock'[t] = lock[t]
BY NullAssumption DEF Publish, TypeOK, Writers

\* r commits, and is answered or goes on.
LEMMA PublishPreserves ==
  ASSUME IInv, NEW r \in Requests, pc[r] \in {"user_created", "created", "flushed"},
         Publish(r), NEW label \in {"idle", "provisioned", "loaded"},
         pc' = [pc EXCEPT ![r] = label],
         NEW c \in Call \union {NoCall}, call' = [call EXCEPT ![r] = c],
         NEW object \in Row \union {NoRow}, row' = [row EXCEPT ![r] = object],
         NEW o \in Outcomes, outcome' = [outcome EXCEPT ![r] = o] \/ outcome' = outcome,
         Fits(r)',
         \/ alone' = Free
         \/ /\ alone' = alone /\ outcome' = outcome /\ pc'[r] # "idle"
            /\ alone = r => Undisturbed(r)'
  PROVE  IInv'
<1> USE DEF IInv
<1>1. /\ \A q \in Requests : q # r => pc'[q] = pc[q] /\ call'[q] = call[q]
      /\ pc'[r] = label
  BY DEF TypeOK
<1>2. TypeOK'
  BY PublishEffect DEF TypeOK, Labels
<1>3. Writers'
  BY <1>1, PublishEffect, NullAssumption DEF Writers, TypeOK
<1>4. RequestsFit'
  <2> SUFFICES ASSUME NEW q \in Requests, q # r PROVE Fits(q)'
    BY DEF RequestsFit
  <2>1. Fits(q) /\ \A u \in Tables : (lock[u] = q => lock'[u] = q)
                                     /\ (saved[u] # NoRow => saved'[u] # NoRow)
    BY PublishEffect, NullAssumption DEF RequestsFit
  <2>2. pc[q] # "idle" => call[q].table \in Tables
    BY CallIsKnown
  <2> QED BY <1>1, <2>1, <2>2, TableNames DEF Fits
<1>5. Alone'
  BY <1>1, StaysAlone
<1>6. ProfileComesFirst'
  BY PublishEffect, TableNames DEF ProfileComesFirst
<1> QED BY <1>2, <1>3, <1>4, <1>5, <1>6

\* r is answered and what it wrote is forgotten.
LEMMA RefusePreserves ==
  ASSUME IInv, NEW r \in Requests, NEW o \in Outcomes, Refuse(r, o)
  PROVE  IInv'
<1> USE DEF IInv
<1>1. /\ \A q \in Requests : q # r => /\ pc'[q] = pc[q] /\ call'[q] = call[q]
                                      /\ outcome'[q] = outcome[q]
      /\ pc'[r] = "idle" /\ outcome'[r] = o /\ alone' = Free /\ saved' = saved
  BY DEF Refuse, Answer, Forget, TypeOK
<1>2. /\ draft' \in [Tables -> Row \union {NoRow}]
      /\ lock' \in [Tables -> Requests \union {Free}]
      /\ \A t \in Tables :
           /\ lock[t] = r => draft'[t] = saved[t] /\ lock'[t] = Free
           /\ lock[t] # r => draft'[t] = draft[t] /\ lock'[t] = lock[t]
  BY DEF Refuse, Forget, TypeOK
<1>3. TypeOK'
  BY <1>1, <1>2 DEF Refuse, Answer, TypeOK, Labels
<1>4. Writers'
  BY <1>1, <1>2, NullAssumption DEF Writers, TypeOK
<1>5. RequestsFit'
  <2> SUFFICES ASSUME NEW q \in Requests PROVE Fits(q)'
    BY DEF RequestsFit
  <2>1. CASE q = r
    BY <1>1, <2>1 DEF Fits
  <2>2. CASE q # r
    <3>1. Fits(q) /\ \A u \in Tables : lock[u] = q => lock'[u] = q
      BY <1>2, <2>2 DEF RequestsFit
    <3>2. pc[q] # "idle" => call[q].table \in Tables
      BY CallIsKnown
    <3> QED BY <1>1, <2>2, <3>1, <3>2, TableNames DEF Fits
  <2> QED BY <2>1, <2>2
<1>6. Alone'
  BY <1>1 DEF Alone
<1>7. ProfileComesFirst'
  <2>1. \A t \in Tables : draft'[t] # NoRow => draft[t] # NoRow
    BY <1>2 DEF Writers
  <2> QED BY <1>1, <2>1 DEF ProfileComesFirst
<1> QED BY <1>3, <1>4, <1>5, <1>6, <1>7

------------------------------------------------------------------------------
LEMMA ReceivePreserves ==
  ASSUME IInv, NEW r \in Requests, NEW c \in Call, Receive(r, c)
  PROVE  IInv'
<1> USE DEF IInv
<1>1. /\ pc[r] = "idle" /\ pc'[r] = "received" /\ call'[r] = c /\ outcome'[r] = "none"
      /\ \A q \in Requests : q # r => /\ pc'[q] = pc[q] /\ call'[q] = call[q]
                                      /\ outcome'[q] = outcome[q]
      /\ saved' = saved /\ draft' = draft /\ lock' = lock /\ row' = row
      /\ alone' = IF \A q \in Requests : pc[q] = "idle" THEN r ELSE Free
  BY DEF Receive, TypeOK, table
<1>2. TypeOK'
  BY <1>1 DEF Receive, TypeOK, Labels, Outcomes
<1>3. Writers'
  BY <1>1 DEF Writers, TypeOK
<1>4. RequestsFit'
  BY <1>1, CallAssumption DEF RequestsFit, Fits
<1>5. Alone'
  <2> SUFFICES ASSUME alone' # Free PROVE Alone'
    BY DEF Alone
  <2>1. alone' = r /\ \A q \in Requests : pc[q] = "idle"
    BY <1>1
  <2>2. Undisturbed(alone)'
    BY <1>1, <2>1 DEF Undisturbed
  <2> QED BY <1>1, <2>1, <2>2 DEF Alone
<1>6. ProfileComesFirst'
  BY <1>1 DEF ProfileComesFirst
<1> QED BY <1>2, <1>3, <1>4, <1>5, <1>6

\* r inserts its row, or meets one that is there.
LEMMA InsertPreserves ==
  ASSUME IInv, NEW r \in Requests,
         NEW t \in Tables, NEW new \in Row, t = "kyc_profiles" => new.status = "in_review",
         \/ t = "users" /\ pc[r] = "create_user"
         \/ t # "users" /\ pc[r] = "create" /\ t = call[r].table,
         NEW label \in {"user_created", "created"},
         label = IF t = "users" THEN "user_created" ELSE "created",
         t # "users" /\ call[r].op = "submit" => new.data = call[r].wish,
         Insert(r, t, new, label)
  PROVE  IInv'
<1> USE DEF IInv
<1>1. Fits(r)
  BY DEF RequestsFit
<1>2. CASE Refuse(r, "internal_error") /\ saved[t] # NoRow
  BY <1>1, <1>2, RefusePreserves DEF Outcomes
<1>3. CASE saved[t] = NoRow /\ lock[t] = Free /\ Write(r, t, new, label)
  <2>1. /\ pc'[r] = label /\ lock'[t] = r /\ call' = call /\ saved' = saved
        /\ row'[r] = new /\ draft'[t] = new
    BY <1>3 DEF Write, TypeOK
  <2>2. Fits(r)' /\ Undisturbed(r)'
    BY <1>1, <2>1, TableNames DEF Fits, Undisturbed
  <2>3. t # "users" => saved["users"] # NoRow
    BY <1>1 DEF Fits
  <2> QED BY <1>3, <2>2, <2>3, WritePreserves
<1> QED BY <1>2, <1>3 DEF Insert

LEMMA NewRowIsRow == NewRow \in Row
BY DataAssumption DEF NewRow, Row

LEMMA ReadUserPreserves ==
  ASSUME IInv, NEW r \in Requests, ReadUser(r)
  PROVE  IInv'
<1> USE DEF IInv
<1> DEFINE label == IF saved["users"] = NoRow THEN "create_user" ELSE "provisioned"
<1>1. pc[r] = "received" /\ Fits(r) /\ Goto(r, label, saved["users"])
  BY DEF ReadUser, RequestsFit
<1>2. pc'[r] = label /\ call' = call /\ saved' = saved /\ row'[r] = saved["users"]
  BY <1>1 DEF Goto, TypeOK, table
<1>3. Fits(r)' /\ Undisturbed(r)'
  BY <1>1, <1>2 DEF Fits, Undisturbed
<1> QED BY <1>1, <1>3, GotoPreserves, TableNames DEF TypeOK

LEMMA CreateUserPreserves ==
  ASSUME IInv, NEW r \in Requests, CreateUser(r)
  PROVE  IInv'
BY InsertPreserves, NewRowIsRow, TableNames DEF CreateUser

LEMMA CommitUserPreserves ==
  ASSUME IInv, NEW r \in Requests, CommitUser(r)
  PROVE  IInv'
<1> USE DEF IInv
<1>1. /\ pc[r] = "user_created" /\ Publish(r) /\ pc' = [pc EXCEPT ![r] = "provisioned"]
      /\ pc'[r] = "provisioned" /\ call' = call /\ row' = row /\ outcome' = outcome
      /\ alone' = alone /\ Fits(r)
  BY DEF CommitUser, RequestsFit, TypeOK
<1>2. saved'["users"] # NoRow /\ saved'["users"] = draft["users"]
  BY <1>1, PublishEffect, TableNames DEF Fits
<1>3. Fits(r)' /\ (alone = r => Undisturbed(r)')
  BY <1>1, <1>2, NullAssumption DEF Fits, Undisturbed, Alone
<1>4. /\ call[r] \in Call \union {NoCall} /\ call' = [call EXCEPT ![r] = call[r]]
      /\ row[r] \in Row \union {NoRow} /\ row' = [row EXCEPT ![r] = row[r]]
  BY <1>1 DEF TypeOK
<1>5. "ok" \in Outcomes
  BY DEF Outcomes
<1> QED BY <1>1, <1>3, <1>4, <1>5, PublishPreserves

LEMMA ProfilePreserves ==
  ASSUME IInv, NEW r \in Requests, Profile(r)
  PROVE  IInv'
<1> USE DEF IInv
<1>1. /\ pc[r] = "provisioned" /\ call[r].table = "users" /\ Fits(r)
      /\ call[r] \in Call /\ call[r] # NoCall
  BY CallIsKnown DEF Profile, RequestsFit
<1>2. CASE call[r].op = "get"
  BY <1>2, RefusePreserves DEF Profile, Outcomes
<1>3. CASE call[r].op # "get"
  <2>1. Goto(r, "loaded", row[r])
    BY <1>3 DEF Profile
  <2>2. pc'[r] = "loaded" /\ call' = call /\ saved' = saved /\ row'[r] = row[r]
    BY <2>1 DEF Goto, TypeOK, table
  <2>3. Fits(r)' /\ (alone = r => Undisturbed(r)')
    BY <1>1, <1>3, <2>2, CallFields, NullAssumption DEF Fits, Undisturbed, Alone
  <2> QED BY <1>1, <2>1, <2>3, GotoPreserves DEF TypeOK
<1> QED BY <1>2, <1>3

LEMMA ReadSettingsPreserves ==
  ASSUME IInv, NEW r \in Requests, ReadSettings(r)
  PROVE  IInv'
<1> USE DEF IInv
<1> DEFINE old == saved[call[r].table]
<1>1. /\ pc[r] = "provisioned" /\ call[r].table \in Settings /\ Fits(r)
      /\ call[r] \in Call /\ call[r] # NoCall /\ call[r].table \notin {"users", "kyc_profiles"}
      /\ call[r].table \in Tables /\ old \in Row \union {NoRow}
  BY CallIsKnown, TableNames DEF ReadSettings, RequestsFit, TypeOK
<1>2. CASE old = NoRow
  <2>1. Goto(r, "create", NoRow)
    BY <1>2 DEF ReadSettings
  <2>2. pc'[r] = "create" /\ call' = call /\ saved' = saved
    BY <2>1 DEF Goto, TypeOK, table
  <2>3. Fits(r)' /\ Undisturbed(r)'
    BY <1>1, <1>2, <2>2 DEF Fits, Undisturbed
  <2> QED BY <1>1, <2>1, <2>3, GotoPreserves
<1>3. CASE old # NoRow /\ call[r].op = "get"
  BY <1>3, RefusePreserves DEF ReadSettings, Outcomes
<1>4. CASE old # NoRow /\ call[r].op # "get"
  <2>1. Goto(r, "loaded", old)
    BY <1>4 DEF ReadSettings
  <2>2. pc'[r] = "loaded" /\ call' = call /\ saved' = saved /\ row'[r] = old
    BY <2>1 DEF Goto, TypeOK, table
  <2>3. Fits(r)' /\ Undisturbed(r)'
    BY <1>1, <1>4, <2>2, CallFields DEF Fits, Undisturbed
  <2> QED BY <1>1, <2>1, <2>3, GotoPreserves
<1> QED BY <1>2, <1>3, <1>4

LEMMA ReadKycPreserves ==
  ASSUME IInv, NEW r \in Requests, ReadKyc(r)
  PROVE  IInv'
<1> USE DEF IInv
<1> DEFINE old == saved["kyc_profiles"]
<1>1. /\ pc[r] = "provisioned" /\ call[r].table = "kyc_profiles" /\ Fits(r)
      /\ call[r] \in Call /\ call[r] # NoCall /\ old \in Row \union {NoRow}
  BY CallIsKnown, TableNames DEF ReadKyc, RequestsFit, TypeOK
<1>2. \/ \E o \in Outcomes \ {"internal_error"} : Refuse(r, o)
      \/ call[r].op = "submit" /\ old = NoRow /\ Goto(r, "create", NoRow)
      \/ /\ call[r].op = "put" /\ old # NoRow /\ old.status \notin Immutable
         /\ Goto(r, "loaded", old)
  BY <1>1, CallFields DEF ReadKyc, Outcomes
<1>3. ASSUME NEW o \in Outcomes \ {"internal_error"}, Refuse(r, o) PROVE IInv'
  BY <1>3, RefusePreserves
<1>4. CASE call[r].op = "submit" /\ old = NoRow /\ Goto(r, "create", NoRow)
  <2>1. pc'[r] = "create" /\ call' = call /\ saved' = saved
    BY <1>4 DEF Goto, TypeOK, table
  <2>2. Fits(r)' /\ Undisturbed(r)'
    BY <1>1, <1>4, <2>1 DEF Fits, Undisturbed
  <2> QED BY <1>1, <1>4, <2>2, GotoPreserves
<1>5. CASE /\ call[r].op = "put" /\ old # NoRow /\ old.status \notin Immutable
           /\ Goto(r, "loaded", old)
  <2>1. pc'[r] = "loaded" /\ call' = call /\ saved' = saved /\ row'[r] = old
    BY <1>5 DEF Goto, TypeOK, table
  <2>2. Fits(r)' /\ Undisturbed(r)'
    BY <1>1, <1>5, <2>1 DEF Fits, Undisturbed
  <2> QED BY <1>1, <1>5, <2>2, GotoPreserves
<1> QED BY <1>2, <1>3, <1>4, <1>5

LEMMA CreatePreserves ==
  ASSUME IInv, NEW r \in Requests, Create(r)
  PROVE  IInv'
<1> USE DEF IInv
<1> DEFINE new == IF call[r].op = "submit"
                  THEN [data |-> call[r].wish, status |-> "in_review"] ELSE NewRow
<1>1. /\ pc[r] = "create" /\ call[r] \in Call /\ call[r].table \in Tables /\ Fits(r)
      /\ Insert(r, call[r].table, new, "created")
  BY CallIsKnown DEF Create, RequestsFit
<1>2. /\ new \in Row /\ (call[r].table = "kyc_profiles" => new.status = "in_review")
      /\ call[r].op = "submit" => new.data = call[r].wish
  BY <1>1, CallFields, NewRowIsRow DEF Row, Fits
<1>3. call[r].table # "users"
  BY <1>1 DEF Fits
<1> HIDE DEF new
<1> QED BY <1>1, <1>2, <1>3, InsertPreserves

LEMMA CommitCreatedPreserves ==
  ASSUME IInv, NEW r \in Requests, CommitCreated(r)
  PROVE  IInv'
<1> USE DEF IInv
<1>1. /\ pc[r] = "created" /\ Publish(r) /\ Fits(r) /\ call[r] \in Call
      /\ call[r] # NoCall /\ call[r].table \in Tables
  BY CallIsKnown DEF CommitCreated, RequestsFit
<1>2. CASE call[r].op = "put"
  <2>1. /\ pc' = [pc EXCEPT ![r] = "loaded"] /\ pc'[r] = "loaded"
        /\ call' = call /\ row' = row /\ outcome' = outcome /\ alone' = alone
    BY <1>2 DEF CommitCreated, TypeOK
  <2>2. /\ saved'[call[r].table] # NoRow /\ saved'["users"] # NoRow
        /\ saved'[call[r].table] = draft[call[r].table] /\ call[r].table # "kyc_profiles"
    BY <1>1, <1>2, PublishEffect, TableNames DEF Fits
  <2>3. Fits(r)' /\ (alone = r => Undisturbed(r)')
    BY <1>1, <1>2, <2>1, <2>2, NullAssumption DEF Fits, Undisturbed, Alone
  <2>4. /\ call' = [call EXCEPT ![r] = call[r]]
        /\ row[r] \in Row \union {NoRow} /\ row' = [row EXCEPT ![r] = row[r]]
        /\ "ok" \in Outcomes
    BY <2>1 DEF TypeOK, Outcomes
  <2> QED BY <1>1, <2>1, <2>3, <2>4, PublishPreserves
<1>3. CASE call[r].op # "put"
  <2>1. PICK o \in {"ok", "lost"} : Answer(r, o)
    BY <1>3 DEF CommitCreated
  <2>2. pc'[r] = "idle"
    BY <2>1 DEF Answer, TypeOK
  <2>3. Fits(r)'
    BY <2>2 DEF Fits
  <2> QED BY <1>1, <2>1, <2>3, PublishPreserves DEF Answer, Outcomes
<1> QED BY <1>2, <1>3

LEMMA UpdatePreserves ==
  ASSUME IInv, NEW r \in Requests, Update(r)
  PROVE  IInv'
<1> USE DEF IInv
<1> DEFINE t   == call[r].table
           old == saved[t]
           new == [data |-> NewData(r, old), status |-> NewStatus(r, old)]
<1>1. /\ pc[r] = "loaded" /\ call[r] \in Call /\ call[r] # NoCall /\ t \in Tables /\ Fits(r)
      /\ call[r].op = "put" /\ old \in Row /\ saved["users"] # NoRow
  BY CallIsKnown DEF Update, RequestsFit, Fits, TypeOK
<1>2. CASE /\ t # "kyc_profiles" /\ call[r].wish \in {Same, row[r].data}
           /\ Goto(r, "flushed", row[r])
  <2>1. pc'[r] = "flushed" /\ call' = call /\ saved' = saved /\ draft' = draft
    BY <1>2 DEF Goto, TypeOK, table
  <2>2. ASSUME alone = r PROVE Undisturbed(r)'
    <3>1. lock[t] = Free
      BY <1>1, <2>2, LoneRequest, NothingHeld
    <3>2. draft[t] = old /\ row[r] = old /\ old # NoRow
      BY <1>1, <2>2, <3>1, NullAssumption DEF Writers, Alone, Undisturbed
    <3> QED BY <1>1, <1>2, <2>1, <3>2 DEF Undisturbed
  <2>3. Fits(r)'
    BY <1>1, <2>1 DEF Fits
  <2> QED BY <1>1, <1>2, <2>2, <2>3, GotoPreserves DEF TypeOK
<1>3. CASE lock[t] = Free /\ Write(r, t, new, "flushed")
  <2>1. /\ pc'[r] = "flushed" /\ call' = call /\ saved' = saved
        /\ draft'[t] = new /\ lock'[t] = r
    BY <1>1, <1>3 DEF Write, TypeOK
  <2>2. Fits(r)'
    BY <1>1, <2>1 DEF Fits
  <2>3. NewData(r, old) \in Data
    BY <1>1, CallFields DEF NewData, Row
  <2>4. new \in Row /\ (t = "kyc_profiles" => new.status = "in_review")
    BY <1>1, <2>3 DEF NewStatus, Row
  <2>5. ASSUME alone = r PROVE Undisturbed(r)'
    <3>1. row[r] = old /\ (t = "kyc_profiles" => old.status \notin Immutable)
      BY <1>1, <2>5, NullAssumption DEF Alone, Undisturbed
    <3>2. call[r].wish # Same => new.data = call[r].wish
      BY <3>1 DEF NewData
    <3> HIDE DEF new
    <3> QED BY <1>1, <2>1, <2>4, <3>1, <3>2, NullAssumption DEF Undisturbed
  <2> HIDE DEF new
  <2> QED BY <1>1, <1>3, <2>2, <2>4, <2>5, WritePreserves
<1> QED BY <1>2, <1>3 DEF Update

LEMMA CommitPreserves ==
  ASSUME IInv, NEW r \in Requests, Commit(r)
  PROVE  IInv'
<1> USE DEF IInv
<1>1. PICK o \in {"ok", "lost"} : pc[r] = "flushed" /\ Publish(r) /\ Answer(r, o)
  BY DEF Commit
<1>2. pc'[r] = "idle"
  BY <1>1 DEF Answer, TypeOK
<1>3. Fits(r)'
  BY <1>2 DEF Fits
<1> QED BY <1>1, <1>3, PublishPreserves DEF Answer, Outcomes

LEMMA FailPreserves ==
  ASSUME IInv, NEW r \in Requests, Fail(r)
  PROVE  IInv'
BY RefusePreserves DEF Fail, Outcomes

\* A decision ends a review nobody is about to overwrite, or changes only what
\* nothing relies on.
LEMMA ReviewPreserves ==
  ASSUME IInv, NEW decision \in {"verified", "rejected"}, Review(decision)
  PROVE  IInv'
<1> USE DEF IInv
<1> DEFINE t == "kyc_profiles"
<1>1. /\ saved[t] \in Row /\ saved[t].status = "in_review" /\ lock[t] = Free
      /\ draft[t] = saved[t]
      /\ saved' = [saved EXCEPT ![t].status = decision]
      /\ draft' = [draft EXCEPT ![t].status = decision]
      /\ lock' = lock /\ pc' = pc /\ call' = call /\ row' = row /\ outcome' = outcome
      /\ alone' = alone
  BY TableNames DEF Review, TypeOK, Writers, requests
<1>2. [saved[t] EXCEPT !.status = decision] \in Row
  BY <1>1 DEF Row
<1>3. /\ \A u \in Tables : u # t => saved'[u] = saved[u] /\ draft'[u] = draft[u]
      /\ saved'[t] \in Row /\ draft'[t] = saved'[t] /\ saved'[t] # NoRow
      /\ saved' \in [Tables -> Row \union {NoRow}] /\ draft' \in [Tables -> Row \union {NoRow}]
  BY <1>1, <1>2, TableNames, NullAssumption DEF TypeOK
<1>4. TypeOK' /\ Writers'
  BY <1>1, <1>3 DEF TypeOK, Writers
<1>5. RequestsFit'
  <2> SUFFICES ASSUME NEW q \in Requests PROVE Fits(q)'
    BY DEF RequestsFit
  <2>1. pc[q] # "idle" => call[q].table \in Tables
    BY CallIsKnown
  <2> QED BY <1>1, <1>3, <2>1, TableNames DEF RequestsFit, Fits
<1>6. Alone'
  <2> SUFFICES ASSUME alone # Free PROVE Undisturbed(alone)'
    BY <1>1 DEF Alone
  <2> PICK r \in Requests : r = alone
    BY DEF TypeOK
  <2>1. Undisturbed(r) /\ call[r].table \in Tables /\ Fits(r)
    BY CallIsKnown DEF Alone, RequestsFit
  <2>2. saved[t].status \in Immutable
    BY <1>1 DEF Immutable
  <2>3. Undisturbed(r)'
    BY <1>1, <1>3, <2>1, <2>2, TableNames, NullAssumption DEF Undisturbed, Fits
  <2> QED BY <1>1, <2>3
<1>7. ProfileComesFirst'
  BY <1>1, <1>3, TableNames, NullAssumption DEF ProfileComesFirst
<1> QED BY <1>4, <1>5, <1>6, <1>7

LEMMA StepPreserves ==
  ASSUME IInv, [Next]_vars
  PROVE  IInv'
<1>1. CASE UNCHANGED vars
  <2>1. /\ saved' = saved /\ draft' = draft /\ lock' = lock /\ pc' = pc /\ call' = call
        /\ row' = row /\ outcome' = outcome /\ alone' = alone
    BY <1>1 DEF vars, table, requests
  <2>2. TypeOK' /\ Writers' /\ RequestsFit' /\ Alone'
    BY <2>1 DEF IInv, TypeOK, Writers, RequestsFit, Fits, Alone, Undisturbed
  <2> QED BY <2>1, <2>2 DEF IInv, ProfileComesFirst
<1>2. ASSUME NEW r \in Requests, Step(r) PROVE IInv'
  BY <1>2, ReadUserPreserves, CreateUserPreserves, CommitUserPreserves, ProfilePreserves,
     ReadSettingsPreserves, ReadKycPreserves, CreatePreserves, CommitCreatedPreserves,
     UpdatePreserves, CommitPreserves DEF Step
<1> QED BY <1>1, <1>2, ReceivePreserves, FailPreserves, ReviewPreserves DEF Next

\* The inductive invariant holds in every reachable state.
THEOREM Invariance == Spec => []IInv
<1>1. Init => IInv
  <2> SUFFICES ASSUME Init PROVE IInv
    OBVIOUS
  <2>1. TypeOK
    BY DEF Init, TypeOK, Labels, Outcomes
  <2>2. Writers /\ RequestsFit /\ Alone
    BY TableNames DEF Init, Writers, RequestsFit, Fits, Alone
  <2>3. ProfileComesFirst
    BY DEF Init, ProfileComesFirst
  <2> QED BY <2>1, <2>2, <2>3 DEF IInv
<1>2. IInv /\ [Next]_vars => IInv'
  BY StepPreserves
<1> QED BY <1>1, <1>2, PTL DEF Spec

\* Rows and requests keep their shape, whatever update() skips.
THEOREM TypeCorrectness == Spec => []TypeOK
<1>1. IInv => TypeOK
  BY DEF IInv
<1> QED BY <1>1, Invariance, PTL

\* Nothing of a user is written before the profile is committed
\* (get_or_create_profile).
THEOREM ProfileIsFirst == Spec => []ProfileComesFirst
<1>1. IInv => ProfileComesFirst
  BY DEF IInv
<1> QED BY <1>1, Invariance, PTL

\* A request that waits for a row holds none, however many there are: no
\* deadlock.
THEOREM NoHoldAndWait == Spec => []WaitsEmptyHanded
<1>1. IInv => WaitsEmptyHanded
  BY NullAssumption DEF IInv, Writers, WaitsEmptyHanded
<1> QED BY <1>1, Invariance, PTL

\* The KYC profile changes by a COMMIT of what its writer left, or by a decision.
LEMMA KycChanges ==
  ASSUME IInv, [Next]_vars, saved'["kyc_profiles"] # saved["kyc_profiles"]
  PROVE  \/ \E decision \in {"verified", "rejected"} : Review(decision)
         \/ /\ lock["kyc_profiles"] # Free
            /\ saved'["kyc_profiles"] = draft["kyc_profiles"]
            /\ draft["kyc_profiles"].status = "in_review"
<1> SUFFICES ASSUME ~ \E decision \in {"verified", "rejected"} : Review(decision)
             PROVE  /\ lock["kyc_profiles"] # Free
                    /\ saved'["kyc_profiles"] = draft["kyc_profiles"]
                    /\ draft["kyc_profiles"].status = "in_review"
  OBVIOUS
<1>1. saved' # saved
  OBVIOUS
<1>2. PICK r \in Requests : Publish(r)
  BY <1>1 DEF Next, Step, vars, table, Receive, Fail, ReadUser, CreateUser, CommitUser, Profile,
       ReadSettings, ReadKyc, Create, CommitCreated, Update, Commit, Insert, Refuse, Forget,
       Goto, Write, Answer
<1>3. lock["kyc_profiles"] = r /\ saved'["kyc_profiles"] = draft["kyc_profiles"]
  BY <1>2, PublishEffect, TableNames DEF IInv
<1> QED BY <1>2, <1>3, NullAssumption, TableNames DEF IInv, Writers

\* Whatever overlaps, an amended KYC profile goes back to review (update_kyc).
THEOREM AmendmentsAreReviewed == Spec => EditsGoToReview
<1>1. IInv /\ [Next]_vars => [ChangeIsReviewed]_vars
  <2> SUFFICES ASSUME IInv, [Next]_vars, saved["kyc_profiles"] # NoRow,
                      saved'["kyc_profiles"].data # saved["kyc_profiles"].data
               PROVE  saved'["kyc_profiles"].status = "in_review"
    BY DEF ChangeIsReviewed
  <2>1. ASSUME NEW decision \in {"verified", "rejected"}, Review(decision) PROVE FALSE
    <3>1. saved["kyc_profiles"] \in Row
      BY TableNames DEF IInv, TypeOK
    <3>2. saved'["kyc_profiles"] = [saved["kyc_profiles"] EXCEPT !.status = decision]
      BY <2>1, TableNames DEF Review, IInv, TypeOK
    <3> QED BY <3>1, <3>2 DEF Row
  <2> QED BY <2>1, KycChanges
<1> QED BY <1>1, Invariance, PTL DEF Spec, EditsGoToReview

------------------------------------------------------------------------------
(* UserProfile implements AtomicProfile.                                   *)

\* A step of r leaves the uncommitted rows of others where they were.
LEMMA OthersStayAhead ==
  ASSUME DraftsAreOneStepAhead, NEW r \in Requests,
         \A q \in Requests : q # r => pc'[q] = pc[q] /\ call'[q] = call[q],
         lock' \in [Tables -> Requests \union {Free}],
         \A t \in Tables : lock'[t] \notin {Free, r} =>
           lock'[t] = lock[t] /\ saved'[t] = saved[t] /\ draft'[t] = draft[t],
         \A t \in Tables : lock'[t] = r => OneStepAhead(r, t)'
  PROVE  DraftsAreOneStepAhead'
<1> SUFFICES ASSUME NEW t \in Tables, lock'[t] # Free, lock'[t] # r
             PROVE  OneStepAhead(lock[t], t)'
  BY DEF DraftsAreOneStepAhead
<1> PICK q \in Requests : q = lock'[t]
  OBVIOUS
<1>1. /\ lock[t] = q /\ pc'[q] = pc[q] /\ call'[q] = call[q]
      /\ saved'[t] = saved[t] /\ draft'[t] = draft[t] /\ OneStepAhead(q, t)
  BY DEF DraftsAreOneStepAhead
<1>2. OneStepAhead(q, t)'
  BY <1>1 DEF OneStepAhead
<1> QED BY <1>2

LEMMA GotoStaysAhead ==
  ASSUME IInv, DraftsAreOneStepAhead, NEW r \in Requests,
         pc[r] \notin {"user_created", "created", "flushed"},
         NEW label, NEW object, Goto(r, label, object)
  PROVE  DraftsAreOneStepAhead'
<1>1. /\ saved' = saved /\ draft' = draft /\ lock' = lock /\ call' = call
      /\ \A q \in Requests : q # r => pc'[q] = pc[q]
      /\ lock \in [Tables -> Requests \union {Free}]
  BY DEF Goto, table, IInv, TypeOK
<1> QED BY <1>1, NothingHeld, OthersStayAhead DEF IInv

LEMMA WriteStaysAhead ==
  ASSUME IInv, DraftsAreOneStepAhead, NEW r \in Requests,
         pc[r] \notin {"user_created", "created", "flushed"},
         NEW t \in Tables, NEW new, NEW label, Write(r, t, new, label),
         OneStepAhead(r, t)'
  PROVE  DraftsAreOneStepAhead'
<1>1. /\ saved' = saved /\ call' = call
      /\ \A u \in Tables : u # t => draft'[u] = draft[u] /\ lock'[u] = lock[u]
      /\ lock'[t] = r /\ lock' \in [Tables -> Requests \union {Free}]
      /\ \A q \in Requests : q # r => pc'[q] = pc[q]
  BY DEF Write, IInv, TypeOK
<1> QED BY <1>1, NothingHeld, OthersStayAhead DEF IInv

\* r lets go of its rows.
LEMMA EndStaysAhead ==
  ASSUME IInv, DraftsAreOneStepAhead, NEW r \in Requests, Publish(r) \/ Forget(r),
         \A q \in Requests : q # r => pc'[q] = pc[q] /\ call'[q] = call[q]
  PROVE  DraftsAreOneStepAhead'
<1>1. /\ lock' \in [Tables -> Requests \union {Free}]
      /\ \A t \in Tables : /\ lock'[t] # r
                           /\ lock'[t] # Free =>
                                lock'[t] = lock[t] /\ saved'[t] = saved[t] /\ draft'[t] = draft[t]
  BY NullAssumption DEF Publish, Forget, IInv, TypeOK
<1> QED BY <1>1, OthersStayAhead

LEMMA RefuseStaysAhead ==
  ASSUME IInv, DraftsAreOneStepAhead, NEW r \in Requests, NEW o, Refuse(r, o)
  PROVE  DraftsAreOneStepAhead'
<1>1. Forget(r) /\ \A q \in Requests : q # r => pc'[q] = pc[q] /\ call'[q] = call[q]
  BY DEF Refuse, Answer, IInv, TypeOK
<1> QED BY <1>1, EndStaysAhead

LEMMA InsertStaysAhead ==
  ASSUME IInv, DraftsAreOneStepAhead, NEW r \in Requests,
         CreateUser(r) \/ Create(r)
  PROVE  DraftsAreOneStepAhead'
<1> USE DEF IInv
<1>1. Fits(r) /\ call[r] \in Call /\ call[r].table \in Tables
  BY CallIsKnown DEF CreateUser, Create, RequestsFit
<1>2. CASE CreateUser(r)
  <2>1. CASE Refuse(r, "internal_error")
    BY <2>1, RefuseStaysAhead
  <2>2. CASE saved["users"] = NoRow /\ Write(r, "users", NewRow, "user_created")
    <3>1. pc'[r] = "user_created" /\ saved' = saved /\ draft'["users"] = NewRow
      BY <2>2, TableNames DEF Write, TypeOK
    <3>2. OneStepAhead(r, "users")'
      BY <2>2, <3>1 DEF OneStepAhead, NewRow
    <3> QED BY <1>2, <2>2, <3>2, TableNames, WriteStaysAhead DEF CreateUser
  <2> QED BY <1>2, <2>1, <2>2 DEF CreateUser, Insert
<1>3. CASE Create(r)
  <2> PICK t \in Tables : t = call[r].table
    BY <1>1
  <2> DEFINE new == IF call[r].op = "submit" THEN [data |-> call[r].wish, status |-> "in_review"]
                    ELSE NewRow
  <2>1. CASE Refuse(r, "internal_error")
    BY <2>1, RefuseStaysAhead
  <2>2. CASE saved[t] = NoRow /\ Write(r, t, new, "created")
    <3>1. pc'[r] = "created" /\ saved' = saved /\ call' = call /\ draft'[t] = new
      BY <1>1, <2>2 DEF Write, TypeOK
    <3>2. t = "kyc_profiles" <=> call[r].op = "submit"
      BY <1>1, <1>3, CallFields DEF Fits, Create
    <3>3. OneStepAhead(r, t)'
      BY <2>2, <3>1, <3>2 DEF OneStepAhead, NewRow
    <3> HIDE DEF new
    <3> QED BY <1>3, <2>2, <3>3, WriteStaysAhead DEF Create
  <2> QED BY <1>3, <2>1, <2>2 DEF Create, Insert
<1> QED BY <1>2, <1>3

LEMMA UpdateStaysAhead ==
  ASSUME IInv, DraftsAreOneStepAhead, NEW r \in Requests, Update(r)
  PROVE  DraftsAreOneStepAhead'
<1> USE DEF IInv
<1> PICK t \in Tables : t = call[r].table
  BY CallIsKnown DEF Update
<1> DEFINE new == [data |-> NewData(r, saved[t]), status |-> NewStatus(r, saved[t])]
<1>1. /\ pc[r] = "loaded" /\ call[r] \in Call
      /\ call[r].op = "put" /\ saved[t] # NoRow /\ saved[t] \in Row
  BY CallIsKnown DEF Update, RequestsFit, Fits, TypeOK
<1>2. CASE Goto(r, "flushed", row[r])
  BY <1>1, <1>2, GotoStaysAhead
<1>3. CASE Write(r, t, new, "flushed")
  <2>1. pc'[r] = "flushed" /\ saved' = saved /\ call' = call /\ draft'[t] = new
    BY <1>1, <1>3 DEF Write, TypeOK
  <2>2. saved[t].data \in Data /\ Same \notin Data
    BY <1>1, DataAssumption DEF Row
  <2>3. new.data \in {saved[t].data, call[r].wish} \ {Same}
    BY <2>2 DEF NewData
  <2>4. new.status = IF t = "kyc_profiles" THEN "in_review" ELSE saved[t].status
    BY DEF NewStatus
  <2>5. OneStepAhead(r, t)'
    BY <1>1, <2>1, <2>3, <2>4 DEF OneStepAhead
  <2> HIDE DEF new
  <2> QED BY <1>1, <1>3, <2>5, WriteStaysAhead
<1> QED BY <1>2, <1>3 DEF Update

LEMMA StepStaysAhead ==
  ASSUME IInv, DraftsAreOneStepAhead, [Next]_vars
  PROVE  DraftsAreOneStepAhead'
<1> USE DEF IInv
<1>1. CASE UNCHANGED vars
  BY <1>1 DEF vars, table, requests, DraftsAreOneStepAhead, OneStepAhead
<1>2. ASSUME NEW r \in Requests, NEW c \in Call, Receive(r, c)
      PROVE  DraftsAreOneStepAhead'
  <2>1. /\ pc[r] = "idle" /\ saved' = saved /\ draft' = draft /\ lock' = lock
        /\ \A q \in Requests : q # r => pc'[q] = pc[q] /\ call'[q] = call[q]
        /\ lock \in [Tables -> Requests \union {Free}]
    BY <1>2 DEF Receive, table, TypeOK
  <2> QED BY <2>1, NothingHeld, OthersStayAhead
<1>3. ASSUME NEW r \in Requests, ReadUser(r) \/ Profile(r) \/ ReadSettings(r) \/ ReadKyc(r)
      PROVE  DraftsAreOneStepAhead'
  <2>1. \/ \E o \in Outcomes : Refuse(r, o)
        \/ \E label \in Labels, object \in Row \union {NoRow} : Goto(r, label, object)
    BY <1>3, TableNames, CallIsKnown
    DEF ReadUser, Profile, ReadSettings, ReadKyc, Outcomes, Labels, TypeOK
  <2>2. pc[r] \notin {"user_created", "created", "flushed"}
    BY <1>3 DEF ReadUser, Profile, ReadSettings, ReadKyc
  <2> QED BY <2>1, <2>2, RefuseStaysAhead, GotoStaysAhead
<1>4. ASSUME NEW r \in Requests, CommitUser(r) \/ CommitCreated(r) \/ Commit(r)
      PROVE  DraftsAreOneStepAhead'
  <2>1. Publish(r) /\ \A q \in Requests : q # r => pc'[q] = pc[q] /\ call'[q] = call[q]
    BY <1>4 DEF CommitUser, CommitCreated, Commit, Answer, TypeOK
  <2> QED BY <2>1, EndStaysAhead
<1>5. ASSUME NEW decision \in {"verified", "rejected"}, Review(decision)
      PROVE  DraftsAreOneStepAhead'
  <2>1. /\ pc' = pc /\ call' = call /\ lock' = lock
        /\ \A t \in Tables : lock[t] # Free => saved'[t] = saved[t] /\ draft'[t] = draft[t]
    BY <1>5 DEF Review, requests, TypeOK
  <2> QED BY <2>1 DEF DraftsAreOneStepAhead, OneStepAhead
<1> QED BY <1>1, <1>2, <1>3, <1>4, <1>5, InsertStaysAhead, UpdateStaysAhead, RefuseStaysAhead
       DEF Next, Step, Fail

\* A transaction publishes one row at most.
LEMMA PublishesOneRow ==
  ASSUME IInv, DraftsAreOneStepAhead, NEW r \in Requests, Publish(r), saved' # saved
  PROVE  \E t \in Tables :
           /\ lock[t] = r /\ OneStepAhead(r, t) /\ draft[t] \in Row
           /\ pc[r] \in {"user_created", "created", "flushed"}
           /\ saved' = [saved EXCEPT ![t] = draft[t]]
<1> USE DEF IInv
<1>1. PICK t \in Tables : lock[t] = r
  <2>1. ASSUME \A t \in Tables : lock[t] # r PROVE saved' = saved
    BY <2>1 DEF Publish, TypeOK
  <2> QED BY <2>1
<1>2. ASSUME NEW u \in Tables, lock[u] = r
      PROVE  u = IF pc[r] = "user_created" THEN "users" ELSE call[r].table
  BY <1>2, NullAssumption DEF DraftsAreOneStepAhead, OneStepAhead
<1>3. \A u \in Tables : lock[u] = r => u = t
  BY <1>1, <1>2
<1>4. saved' = [saved EXCEPT ![t] = draft[t]]
  BY <1>1, <1>3 DEF Publish, TypeOK
<1>5. /\ pc[r] \in {"user_created", "created", "flushed"} /\ OneStepAhead(r, t)
      /\ draft[t] \in Row
  BY <1>1, NullAssumption DEF Writers, DraftsAreOneStepAhead, TypeOK
<1> QED BY <1>1, <1>4, <1>5

\* The rows change by COMMITs and decisions only.
LEMMA OnlyCommitsWrite ==
  ASSUME TypeOK, [Next]_vars, saved' # saved
  PROVE  \/ \E r \in Requests : pc[r] # "idle" /\ pc'[r] # pc[r] /\ Publish(r)
         \/ \E decision \in {"verified", "rejected"} : Review(decision)
<1>1. ASSUME NEW r \in Requests, CommitUser(r) \/ CommitCreated(r) \/ Commit(r)
      PROVE  pc[r] # "idle" /\ pc'[r] # pc[r] /\ Publish(r)
  BY <1>1 DEF CommitUser, CommitCreated, Commit, Answer, TypeOK
<1>2. \/ \E r \in Requests : CommitUser(r) \/ CommitCreated(r) \/ Commit(r)
      \/ \E decision \in {"verified", "rejected"} : Review(decision)
  BY DEF Next, Step, vars, table, Receive, ReadUser, CreateUser, Profile, ReadSettings,
         ReadKyc, Create, Update, Fail, Refuse, Forget, Goto, Write, Insert
<1> QED BY <1>1, <1>2

\* What r commits is an operation it asks for, and an amendment finds the profile
\* undecided unless another request overlapped.
LEMMA CommitsPerform ==
  ASSUME IInv, DraftsAreOneStepAhead, NEW r \in Requests, Publish(r), saved' # saved
  PROVE  Performs(r)
<1> USE DEF IInv
<1>1. PICK t \in Tables :
           /\ lock[t] = r /\ OneStepAhead(r, t) /\ draft[t] \in Row
           /\ pc[r] \in {"user_created", "created", "flushed"}
           /\ saved' = [saved EXCEPT ![t] = draft[t]]
  BY PublishesOneRow
<1>2. /\ call[r] \in Call /\ Fits(r)
      /\ call[r].op = "put" /\ call[r].table = "users" => call[r].wish # Default
  BY <1>1, CallIsKnown, DataAssumption DEF RequestsFit, Call
<1>3. CASE pc[r] = "user_created"
  <2>1. Atomic!ProvideUser
    BY <1>1, <1>3 DEF OneStepAhead, NewRow, Atomic!ProvideUser
  <2> QED BY <2>1 DEF Performs
<1>4. CASE pc[r] = "created" /\ t = "kyc_profiles"
  <2>1. call[r].op = "submit"
    BY <1>1, <1>2, <1>4 DEF Fits, OneStepAhead
  <2>2. Atomic!Submit(call[r].wish)
    BY <1>1, <1>2, <1>4 DEF Fits, OneStepAhead, Atomic!Submit
  <2> QED BY <2>1, <2>2 DEF Performs
<1>5. CASE pc[r] = "created" /\ t # "kyc_profiles"
  <2>1. t \in Settings /\ t = call[r].table
    BY <1>1, <1>2, <1>5 DEF Fits, OneStepAhead, Tables
  <2>2. Atomic!ProvideSettings(t)
    BY <1>1, <1>2, <1>5 DEF Fits, OneStepAhead, NewRow, Atomic!ProvideSettings
  <2> QED BY <2>1, <2>2 DEF Performs
<1>6. CASE pc[r] = "flushed" /\ t = "kyc_profiles"
  <2> DEFINE d == draft[t].data
  <2>1. /\ d \in {saved[t].data, call[r].wish} \ {Same} /\ saved[t] # NoRow
        /\ call[r].op = "put" /\ t = call[r].table
        /\ draft[t] = [data |-> d, status |-> "in_review"]
    BY <1>1, <1>6 DEF OneStepAhead, Row
  <2>2. Atomic!AmendUnguarded(d)
    BY <1>1, <1>6, <2>1 DEF Atomic!AmendUnguarded
  <2>3. alone = r => Atomic!Amend(d)
    BY <1>6, <2>1, <2>2, NullAssumption DEF Alone, Undisturbed, Immutable, Atomic!Amend
  <2> HIDE DEF d
  <2> QED BY <1>6, <2>1, <2>2, <2>3 DEF Performs
<1>7. CASE pc[r] = "flushed" /\ t # "kyc_profiles"
  <2> DEFINE d == draft[t].data
  <2>1. saved[t] \in Row /\ saved[t] # NoRow /\ draft[t].status = saved[t].status
    BY <1>1, <1>7 DEF OneStepAhead, TypeOK
  <2>2. saved' = [saved EXCEPT ![t].data = d]
    <3>1. draft[t] = [saved[t] EXCEPT !.data = d]
      BY <1>1, <2>1 DEF Row
    <3> QED BY <1>1, <3>1
  <2>3. d # saved[t].data
    <3>1. ASSUME d = saved[t].data PROVE draft[t] = saved[t]
      BY <1>1, <2>1, <3>1 DEF Row
    <3>2. ASSUME draft[t] = saved[t] PROVE saved' = saved
      BY <1>1, <3>2 DEF TypeOK
    <3> QED BY <3>1, <3>2
  <2>4. d = call[r].wish /\ d # Same /\ t = call[r].table /\ call[r].op = "put"
    BY <1>1, <1>7, <2>3 DEF OneStepAhead
  <2>5. Atomic!Edit(t, d)
    BY <1>2, <2>1, <2>2, <2>4 DEF Atomic!Edit
  <2> QED BY <1>7, <2>4, <2>5 DEF Performs
<1> QED BY <1>1, <1>3, <1>4, <1>5, <1>6, <1>7

LEMMA StepFollowsCalls ==
  ASSUME IInv, DraftsAreOneStepAhead, [Next]_vars
  PROVE  RowsFollowCalls
<1>1. ASSUME NEW decision \in {"verified", "rejected"}, Review(decision)
      PROVE  Atomic!Review(decision)
  BY <1>1 DEF Review, Atomic!Review
<1> QED BY <1>1, OnlyCommitsWrite, CommitsPerform DEF RowsFollowCalls, IInv

\* Whatever overlaps, a row written and not committed is one step of its
\* operation away from the committed row (the repositories of user-service).
THEOREM OneStepAheadAlways == Spec => []DraftsAreOneStepAhead
<1>1. Init => DraftsAreOneStepAhead
  BY DEF Init, DraftsAreOneStepAhead
<1>2. IInv /\ DraftsAreOneStepAhead /\ [Next]_vars => DraftsAreOneStepAhead'
  BY StepStaysAhead
<1> QED BY <1>1, <1>2, Invariance, PTL DEF Spec

\* Whatever overlaps, the rows change by whole operations, each asked for by the
\* request that commits it, or by decisions; and a KYC profile that is decided is
\* amended only by a request that another overlapped.
THEOREM AtomicChanges == Spec => ProfileChangesAtomically
<1>1. IInv /\ DraftsAreOneStepAhead /\ [Next]_vars => [RowsFollowCalls]_vars
  BY StepFollowsCalls
<1> QED BY <1>1, OneStepAheadAlways, Invariance, PTL DEF Spec, ProfileChangesAtomically

\* While a request runs alone, nothing but a decision changes a KYC profile in
\* review, and nothing one that was verified (_IMMUTABLE_STATES).
THEOREM DecisionsStand == Spec => [][alone # Free => DecidedIsKept]_vars
<1>1. IInv /\ DraftsAreOneStepAhead /\ [Next]_vars => [alone # Free => DecidedIsKept]_vars
  <2> SUFFICES ASSUME IInv, DraftsAreOneStepAhead, [Next]_vars, alone # Free,
                      saved["kyc_profiles"] # NoRow,
                      saved["kyc_profiles"].status \in {"verified", "in_review"}
               PROVE  /\ saved'["kyc_profiles"].data = saved["kyc_profiles"].data
                      /\ saved["kyc_profiles"].status = "verified" =>
                           saved'["kyc_profiles"].status = "verified"
    BY DEF DecidedIsKept
  <2>1. CASE saved'["kyc_profiles"] = saved["kyc_profiles"]
    BY <2>1
  <2>2. CASE saved'["kyc_profiles"] # saved["kyc_profiles"]
    <3>1. lock["kyc_profiles"] = Free
      <4> SUFFICES ASSUME lock["kyc_profiles"] # Free PROVE FALSE
        OBVIOUS
      <4> PICK r \in Requests : r = lock["kyc_profiles"]
        BY TableNames DEF IInv, TypeOK
      <4>1. pc[r] \in {"user_created", "created", "flushed"} /\ OneStepAhead(r, "kyc_profiles")
        BY TableNames DEF IInv, Writers, DraftsAreOneStepAhead
      <4>2. alone = r
        BY <4>1, LoneRequest
      <4>3. pc[r] = "flushed" /\ call[r].table = "kyc_profiles"
        BY <4>1 DEF OneStepAhead
      <4> QED BY <4>2, <4>3 DEF IInv, Alone, Undisturbed, Immutable
    <3>2. PICK decision \in {"verified", "rejected"} : Review(decision)
      BY <2>2, <3>1, KycChanges
    <3>3. saved["kyc_profiles"] \in Row /\ saved["kyc_profiles"].status = "in_review"
      BY <3>2, TableNames DEF Review, IInv, TypeOK
    <3>4. saved'["kyc_profiles"] = [saved["kyc_profiles"] EXCEPT !.status = decision]
      BY <3>2, TableNames DEF Review, IInv, TypeOK
    <3> QED BY <3>3, <3>4 DEF Row
  <2> QED BY <2>1, <2>2
<1> QED BY <1>1, OneStepAheadAlways, Invariance, PTL DEF Spec

------------------------------------------------------------------------------
(* A request that runs alone.                                              *)

\* Its INSERT meets no row.
LEMMA LoneInsertSucceeds ==
  ASSUME IInv, NEW r \in Requests, alone = r, CreateUser(r) \/ Create(r)
  PROVE  outcome' = outcome
<1>1. Undisturbed(r)
  BY NullAssumption DEF IInv, Alone
<1> QED BY <1>1 DEF CreateUser, Create, Insert, Undisturbed, Write

\* What it reads, if that is all it asked for, is there.
LEMMA LoneReadIsServed ==
  ASSUME IInv, NEW r \in Requests, alone = r,
         ReadUser(r) \/ Profile(r) \/ ReadSettings(r) \/ ReadKyc(r)
  PROVE  outcome'[r] # "internal_error" /\ (outcome'[r] = "ok" => Granted(r))
<1> USE DEF IInv
<1>1. outcome[r] = "none" /\ Fits(r)
  BY NullAssumption DEF Alone, RequestsFit
<1>2. ASSUME NEW label, NEW object, Goto(r, label, object)
      PROVE  outcome'[r] = "none"
  BY <1>1, <1>2 DEF Goto
<1>3. ASSUME NEW o \in {"kyc_already_submitted", "kyc_profile_not_found", "kyc_immutable_state"},
             Refuse(r, o)
      PROVE  outcome'[r] = o
  BY <1>3 DEF Refuse, Answer, TypeOK
<1>4. ASSUME Refuse(r, "ok"), call[r].op = "get", saved[call[r].table] # NoRow
      PROVE  outcome'[r] = "ok" /\ Granted(r)
  BY <1>4 DEF Refuse, Answer, Forget, Granted, TypeOK
<1>5. CASE ReadUser(r)
  BY <1>2, <1>5 DEF ReadUser
<1>6. CASE Profile(r)
  BY <1>1, <1>2, <1>4, <1>6 DEF Profile, Fits
<1>7. CASE ReadSettings(r)
  BY <1>2, <1>4, <1>7 DEF ReadSettings
<1>8. CASE ReadKyc(r)
  <2>1. \/ Goto(r, "create", NoRow) \/ Goto(r, "loaded", saved["kyc_profiles"])
        \/ \E o \in {"kyc_already_submitted", "kyc_profile_not_found", "kyc_immutable_state"} :
             Refuse(r, o)
        \/ /\ Refuse(r, "ok") /\ call[r].op = "get"
           /\ call[r].table = "kyc_profiles" /\ saved["kyc_profiles"] # NoRow
    BY <1>8 DEF ReadKyc
  <2> QED BY <1>2, <1>3, <1>4, <2>1
<1> QED BY <1>5, <1>6, <1>7, <1>8

\* What it has written is what it was asked for when it is committed.
LEMMA LoneCommitIsServed ==
  ASSUME IInv, DraftsAreOneStepAhead, NEW r \in Requests, alone = r,
         CommitCreated(r) \/ Commit(r)
  PROVE  outcome'[r] # "internal_error" /\ (pc'[r] = "idle" /\ outcome'[r] = "ok" => Granted(r))
<1> USE DEF IInv
<1> PICK t \in Tables : t = call[r].table
  BY CallIsKnown DEF CommitCreated, Commit
<1>1. outcome[r] = "none" /\ Fits(r) /\ Undisturbed(r) /\ call[r] \in Call
      /\ lock[t] \in {r, Free}
  BY CallIsKnown, LoneRequest, NullAssumption DEF Alone, RequestsFit, CommitCreated, Commit
<1>2. outcome'[r] \in {"none", "ok", "lost"} /\ Publish(r)
  BY <1>1 DEF CommitCreated, Commit, Answer, TypeOK
<1>3. saved'[t] = draft[t]
  BY <1>1, <1>2, PublishEffect, NullAssumption DEF Writers
<1>4. CASE Commit(r)
  <2>1. draft[t] # NoRow /\ (call[r].wish # Same => draft[t].data = call[r].wish)
    BY <1>1, <1>4 DEF Commit, Undisturbed
  <2>2. t = "kyc_profiles" => draft[t].status = "in_review"
    BY <1>1, <1>4, NullAssumption DEF Commit, Undisturbed, Writers
  <2> QED BY <1>2, <1>3, <2>1, <2>2 DEF Granted
<1>5. CASE CommitCreated(r) /\ call[r].op = "put"
  BY <1>1, <1>5 DEF CommitCreated, TypeOK
<1>6. CASE CommitCreated(r) /\ call[r].op # "put"
  <2>1. lock[t] = r /\ pc[r] = "created"
    BY <1>1, <1>6 DEF CommitCreated, Fits
  <2>2. draft[t] # NoRow /\ (t = "kyc_profiles" => draft[t].status = "in_review")
    BY <2>1, NullAssumption DEF Writers
  <2>3. call[r].op = "submit" => draft[t].data = call[r].wish
    BY <1>1, <2>1 DEF Undisturbed
  <2>4. call[r].op # "get" => call[r].op = "submit"
    BY <1>1, <1>6, CallFields
  <2> QED BY <1>2, <1>3, <2>2, <2>3, <2>4 DEF Granted
<1> QED BY <1>2, <1>4, <1>5, <1>6

LEMMA LoneStepIsServed ==
  ASSUME IInv, DraftsAreOneStepAhead, [Next]_vars
  PROVE  LoneRequestIsServed
<1> USE DEF IInv
<1> SUFFICES ASSUME NEW r \in Requests, alone = r
             PROVE  /\ outcome'[r] # "internal_error"
                    /\ pc'[r] = "idle" /\ outcome'[r] = "ok" => Granted(r)
  BY DEF LoneRequestIsServed
<1>1. outcome[r] = "none" /\ pc[r] # "idle"
  BY NullAssumption DEF Alone
<1>2. CASE UNCHANGED vars
  BY <1>1, <1>2 DEF vars, requests
<1>3. ASSUME NEW q \in Requests, NEW c \in Call, Receive(q, c)
      PROVE  outcome'[r] = "none"
  BY <1>1, <1>3 DEF Receive, TypeOK
<1>4. ASSUME NEW q \in Requests, Step(q) \/ Fail(q)
      PROVE  q = r
  <2>1. pc[q] # "idle"
    BY <1>4 DEF Step, Fail, ReadUser, CreateUser, CommitUser, Profile, ReadSettings, ReadKyc, Create,
                CommitCreated, Update, Commit
  <2> QED BY <2>1, LoneRequest, NullAssumption
<1>5. CASE CreateUser(r) \/ Create(r)
  BY <1>1, <1>5, LoneInsertSucceeds
<1>6. CASE ReadUser(r) \/ Profile(r) \/ ReadSettings(r) \/ ReadKyc(r)
  BY <1>6, LoneReadIsServed
<1>7. CASE CommitCreated(r) \/ Commit(r)
  BY <1>7, LoneCommitIsServed
<1>8. CASE CommitUser(r) \/ Update(r)
  BY <1>1, <1>8 DEF CommitUser, Update, Goto, Write
<1>9. CASE Fail(r)
  BY <1>9 DEF Fail, Refuse, Answer, TypeOK
<1>10. ASSUME NEW decision, Review(decision)
       PROVE  outcome'[r] = "none"
  BY <1>1, <1>10 DEF Review, requests
<1> QED BY <1>2, <1>3, <1>4, <1>5, <1>6, <1>7, <1>8, <1>9, <1>10 DEF Next, Step

\* A request that no other overlaps meets no unique index, whatever failed or
\* overlapped before, and success means that its row is what it asked for.
THEOREM LoneAccess == Spec => LoneAccessSucceeds
<1>1. IInv /\ DraftsAreOneStepAhead /\ [Next]_vars => [LoneRequestIsServed]_vars
  BY LoneStepIsServed
<1> QED BY <1>1, OneStepAheadAlways, Invariance, PTL DEF Spec, LoneAccessSucceeds

------------------------------------------------------------------------------
(* UserProfile implements AtomicProfile.                                   *)

\* A change that follows the calls is an operation of AtomicProfile.
LEMMA ChangeIsAtomic ==
  ASSUME IInv, RowsFollowCalls, saved' # saved
  PROVE  /\ Atomic!UnguardedNext
         /\ (\A r \in Requests : pc[r] # "idle" => alone = r) => Atomic!Next
<1> USE DEF IInv
<1>1. CASE \E decision \in {"verified", "rejected"} : Atomic!Review(decision)
  BY <1>1 DEF Atomic!Common, Atomic!UnguardedNext, Atomic!Next
<1>2. ASSUME NEW r \in Requests, pc[r] # "idle", Performs(r)
      PROVE  Atomic!UnguardedNext /\ (alone = r => Atomic!Next)
  <2>1. /\ call[r].table \in Tables
        /\ call[r].op = "submit" => call[r].wish \in Data
        /\ call[r].op = "put" => call[r].wish \in Data \union {Same}
    BY <1>2, CallIsKnown, CallFields
  <2>2. CASE \/ Atomic!ProvideUser
             \/ call[r].table \in Settings /\ Atomic!ProvideSettings(call[r].table)
             \/ call[r].op = "submit" /\ Atomic!Submit(call[r].wish)
    BY <2>1, <2>2 DEF Atomic!Common, Atomic!UnguardedNext, Atomic!Next
  <2>3. CASE /\ call[r].op = "put" /\ call[r].table # "kyc_profiles" /\ call[r].wish # Same
             /\ Atomic!Edit(call[r].table, call[r].wish)
    <3>1. call[r].table \in Settings \union {"users"} /\ call[r].wish \in Data
      BY <2>1, <2>3 DEF Tables
    <3> QED BY <2>3, <3>1 DEF Atomic!Common, Atomic!UnguardedNext, Atomic!Next
  <2>4. ASSUME saved["kyc_profiles"] # NoRow, call[r].op = "put",
               NEW d \in {saved["kyc_profiles"].data, call[r].wish} \ {Same},
               Atomic!AmendUnguarded(d), alone = r => Atomic!Amend(d)
        PROVE  Atomic!UnguardedNext /\ (alone = r => Atomic!Next)
    <3>1. saved["kyc_profiles"] \in Row
      BY <2>4, TableNames DEF TypeOK
    <3>2. d \in Data
      BY <2>1, <2>4, <3>1 DEF Row
    <3> QED BY <2>4, <3>2 DEF Atomic!UnguardedNext, Atomic!Next
  <2> QED BY <1>2, <2>2, <2>3, <2>4 DEF Performs
<1> QED BY <1>1, <1>2 DEF RowsFollowCalls

\* Whatever overlaps, UserProfile implements AtomicProfile but for the guard of
\* amendments.
THEOREM UnguardedRefinement == Spec => Atomic!UnguardedSpec
<1>1. Init => Atomic!Init
  BY DEF Init, Atomic!Init, Tables
<1>2. IInv /\ DraftsAreOneStepAhead /\ [Next]_vars => [Atomic!UnguardedNext]_saved
  BY StepFollowsCalls, ChangeIsAtomic
<1> QED BY <1>1, <1>2, OneStepAheadAlways, Invariance, PTL DEF Spec, Atomic!UnguardedSpec

\* While requests come one at a time, each of them runs alone.
OpenIsAlone == \A r \in Requests : pc[r] # "idle" => alone = r

LEMMA StepKeepsOpenAlone ==
  ASSUME IInv, OpenIsAlone, [Next]_vars, OneAtATime'
  PROVE  OpenIsAlone'
<1> SUFFICES ASSUME NEW q \in Requests, pc'[q] # "idle" PROVE alone' = q
  BY DEF OpenIsAlone
<1>1. CASE UNCHANGED <<pc, alone>>
  BY <1>1 DEF OpenIsAlone
<1>2. ASSUME NEW r \in Requests, NEW c \in Call, Receive(r, c)
      PROVE  alone' = q
  <2>1. /\ \A p \in Requests : p # r => pc'[p] = pc[p]
        /\ pc[r] = "idle" /\ pc'[r] # "idle"
    BY <1>2 DEF Receive, IInv, TypeOK
  <2>2. q = r /\ \A p \in Requests : pc[p] = "idle"
    BY <2>1 DEF OneAtATime
  <2> QED BY <1>2, <2>2 DEF Receive
<1>3. ASSUME NEW r \in Requests, Step(r) \/ Fail(r)
      PROVE  alone' = q
  <2>1. pc[r] # "idle" /\ (alone' = alone \/ pc'[r] = "idle")
        /\ \A p \in Requests : p # r => pc'[p] = pc[p]
    BY <1>3 DEF Step, Fail, ReadUser, CreateUser, CommitUser, Profile, ReadSettings, ReadKyc, Create,
                CommitCreated, Update, Commit, Insert, Write, Goto, Refuse, Answer, IInv, TypeOK
  <2>2. \A p \in Requests : pc[p] # "idle" => p = r
    BY <2>1 DEF OpenIsAlone
  <2> QED BY <2>1, <2>2 DEF OpenIsAlone
<1> QED BY <1>1, <1>2, <1>3 DEF Next, Review, vars, requests

\* While requests come one at a time it implements AtomicProfile whole.
THEOREM SequentialRefinement == Spec /\ []OneAtATime => Atomic!Spec
<1>1. Init => Atomic!Init /\ OpenIsAlone
  BY DEF Init, Atomic!Init, Tables, OpenIsAlone
<1>2. IInv /\ OpenIsAlone /\ [Next]_vars /\ OneAtATime' => OpenIsAlone'
  BY StepKeepsOpenAlone
<1>3. IInv /\ DraftsAreOneStepAhead /\ OpenIsAlone /\ [Next]_vars => [Atomic!Next]_saved
  BY StepFollowsCalls, ChangeIsAtomic DEF OpenIsAlone
<1> QED BY <1>1, <1>2, <1>3, OneStepAheadAlways, Invariance, PTL DEF Spec, Atomic!Spec
==============================================================================
