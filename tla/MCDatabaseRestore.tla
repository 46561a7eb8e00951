-------------------------- MODULE MCDatabaseRestore --------------------------
(* Instances of DatabaseRestore for TLC. *)
EXTENDS DatabaseRestore

CONSTANTS party, c1, c2

OneCandidate == {c1}
TwoCandidates == {c1, c2}
=============================================================================
