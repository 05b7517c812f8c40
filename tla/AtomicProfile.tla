---------------------------- MODULE AtomicProfile -----------------------------
(***************************************************************************)
(* What user-service promises of the rows of one user that exist once:     *)
(* each appears whole, after the profile it refers to, and is changed by   *)
(* indivisible operations, without requests, locks or transactions.        *)
(*                                                                         *)
(* UserProfile is checked and proved to implement Spec while requests come *)
(* one at a time, and UnguardedSpec whatever overlaps: all that overlap    *)
(* costs is the guard of Amend.                                            *)
(***************************************************************************)
CONSTANTS
  Settings,   \* the tables of settings
  Data,       \* what the editable columns of a row can hold
  Default,    \* what they hold in a row made without being told
  NoRow       \* no row in the table

VARIABLE saved  \* saved[t]: the row of the user in t

Init == saved = [t \in Settings \union {"users", "kyc_profiles"} |-> NoRow]

\* The first authenticated access.
ProvideUser ==
  /\ saved["users"] = NoRow
  /\ saved' = [saved EXCEPT !["users"] = [data |-> Default, status |-> "none"]]

\* The first access to settings.
ProvideSettings(t) ==
  /\ saved["users"] # NoRow /\ saved[t] = NoRow
  /\ saved' = [saved EXCEPT ![t] = [data |-> Default, status |-> "none"]]

Submit(d) ==
  /\ saved["users"] # NoRow /\ saved["kyc_profiles"] = NoRow
  /\ saved' = [saved EXCEPT !["kyc_profiles"] = [data |-> d, status |-> "in_review"]]

\* What was given to the profile is replaced, never taken back.
Edit(t, d) ==
  /\ saved[t] # NoRow /\ (t = "users" => d # Default)
  /\ saved' = [saved EXCEPT ![t].data = d]

\* An amended KYC profile is reviewed again.
AmendUnguarded(d) ==
  /\ saved["kyc_profiles"] # NoRow
  /\ saved' = [saved EXCEPT !["kyc_profiles"] = [data |-> d, status |-> "in_review"]]

\* Only a profile that is neither in review nor verified is amended.
Amend(d) ==
  /\ saved["kyc_profiles"].status \notin {"in_review", "verified"}
  /\ AmendUnguarded(d)

Review(decision) ==
  /\ saved["kyc_profiles"] # NoRow /\ saved["kyc_profiles"].status = "in_review"
  /\ saved' = [saved EXCEPT !["kyc_profiles"].status = decision]

Common ==
  \/ ProvideUser
  \/ \E t \in Settings : ProvideSettings(t)
  \/ \E d \in Data : Submit(d) \/ \E t \in Settings \union {"users"} : Edit(t, d)
  \/ \E decision \in {"verified", "rejected"} : Review(decision)

Next          == Common \/ \E d \in Data : Amend(d)
UnguardedNext == Common \/ \E d \in Data : AmendUnguarded(d)

Spec          == Init /\ [][Next]_saved
UnguardedSpec == Init /\ [][UnguardedNext]_saved
==============================================================================
