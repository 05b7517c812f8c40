---------------------------- MODULE MCAddressBook ----------------------------
(* Instances of AddressBook for TLC. *)
EXTENDS AddressBook, TLC

CONSTANTS r1, r2, a1, a2, a3, a4

TwoSlots      == {r1, r2}
FourAddresses == {a1, a2, a3, a4}

\* Slots are interchangeable, and so are ids.
Interchangeable == Permutations(Requests) \union Permutations(Addresses)
==============================================================================
