--------------------------- MODULE MCRaftElection ---------------------------
(* Small instances of RaftElection for TLC. *)
EXTENDS RaftElection, TLC

CONSTANTS n1, n2, n3

Group == {n1, n2, n3}
Candidates == {n1, n2}
CandidateSymmetry == Permutations(Candidates)
=============================================================================
