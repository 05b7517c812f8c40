------------------------------ MODULE AtomicBook ------------------------------
(***************************************************************************)
(* What the address book of user-service promises as long as requests do   *)
(* not overlap: three indivisible operations on one user's rows, without   *)
(* requests, locks or transactions.  AddressBook is checked and proved to  *)
(* implement this module under that condition; without it, it does not.    *)
(***************************************************************************)
EXTENDS Naturals, FiniteSets

CONSTANTS
  Addresses,     \* ids
  MaxAddresses   \* MAX_ADDRESSES_PER_USER

VARIABLE book    \* book[a]: absent, plain or default

Init == book = [a \in Addresses |-> "absent"]

Saved == {a \in Addresses : book[a] # "absent"}

\* The book with its default moved to a.
DefaultAt(a) ==
  [b \in Addresses |-> IF b = a THEN "default"
                       ELSE IF book[b] = "default" THEN "plain" ELSE book[b]]

\* The first address is the default whatever was asked.
Created(a, wish) ==
  IF wish = "default" \/ Saved = {} THEN DefaultAt(a) ELSE [book EXCEPT ![a] = "plain"]

\* A default may be given up; nobody takes it over.
Updated(a, wish) ==
  IF wish = "default" THEN DefaultAt(a)
  ELSE IF wish = "plain" THEN [book EXCEPT ![a] = "plain"]
  ELSE book

\* Only a default that is deleted is succeeded, by any address that remains.
Successors(a) == IF book[a] = "default" THEN Saved \ {a} ELSE {}

Deleted(a) ==
  IF Successors(a) = {} THEN {[book EXCEPT ![a] = "absent"]}
  ELSE {[book EXCEPT ![a] = "absent", ![s] = "default"] : s \in Successors(a)}

Create(a, wish) ==
  /\ book[a] = "absent" /\ Cardinality(Saved) < MaxAddresses
  /\ book' = Created(a, wish)

Update(a, wish) ==
  /\ book[a] # "absent"
  /\ book' = Updated(a, wish)

Delete(a) ==
  /\ book[a] # "absent"
  /\ book' \in Deleted(a)

Next ==
  \E a \in Addresses :
    \/ \E wish \in {"plain", "default"} : Create(a, wish)
    \/ \E wish \in {"same", "plain", "default"} : Update(a, wish)
    \/ Delete(a)

Spec == Init /\ [][Next]_book
==============================================================================
