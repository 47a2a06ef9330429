--------------------------- MODULE MCCertification --------------------------
(* Certification for TLC: the two versions are interchangeable.            *)
EXTENDS Certification, TLC

VersionSymmetry == Permutations(Versions)

=============================================================================
