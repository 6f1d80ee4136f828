-------------------------- MODULE MCUpgradeRequests --------------------------
(* Small instances of UpgradeRequests for TLC. *)
EXTENDS UpgradeRequests, TLC

(* Accounts are interchangeable, and so are handlers of one kind. *)
Symmetry == Permutations(Users) \cup Permutations(AdminSessions) \cup Permutations(UpdaterSessions)
=============================================================================
