------------------------------ MODULE MCFlydrive ------------------------------
(* Instance of Flydrive for TLC: three disks, the provider of one of them   *)
(* overridden by the test.                                                  *)
EXTENDS Flydrive

CONSTANTS uploads, reports, backups, f1, f2

MCRefs == {uploads, reports, backups}
MCOverridden == {reports}
MCFakes == {f1, f2}

(* Fakes are alike, and so are the disks without an override.              *)
Symmetry == Permutations(MCFakes) \cup Permutations(MCRefs \ MCOverridden)
=============================================================================
