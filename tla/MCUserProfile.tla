---------------------------- MODULE MCUserProfile ----------------------------
(* Instances of UserProfile for TLC. *)
EXTENDS UserProfile, TLC

CONSTANTS r1, r2, blank, other

TwoSlots    == {r1, r2}
BothSettings == {"user_preferences", "notification_preferences"}
TwoData     == {blank, other}

\* Slots are interchangeable.
Interchangeable == Permutations(Requests)
==============================================================================
