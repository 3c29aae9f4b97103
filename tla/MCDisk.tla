------------------------------ MODULE MCDisk ------------------------------
(* Small instances of DiskCoordinator for TLC. *)
EXTENDS DiskCoordinator, TLC

CONSTANTS q1, q2, q3, q4

MCRequests == {q1, q2, q3, q4}
MCProfiles == {"metadata", "transactions"}
MCNames == RootNames \cup RunNames
RequestSymmetry == Permutations({q2, q3, q4})
=============================================================================
