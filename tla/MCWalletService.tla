--------------------------- MODULE MCWalletService ---------------------------
(* Instances of WalletService for TLC. *)
EXTENDS WalletService, TLC

CONSTANTS alice, r1, r2, r3, pay1, pay2

OneUser   == {alice}
TwoSlots  == {r1, r2}
ThreeSlots == {r1, r2, r3}
OneRef    == {pay1}
TwoRefs   == {pay1, pay2}
OneAmount  == {2}
TwoAmounts == {1, 2}

\* The slots are interchangeable, and so are the reference ids.
Interchangeable == Permutations(Requests) \union Permutations(Refs)
=============================================================================
