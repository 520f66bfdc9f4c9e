---------------------------- MODULE MCOsFallback ----------------------------
(* Instances of OsFallback for TLC.                                        *)
EXTENDS OsFallback, TLC

CONSTANTS s1, s2, k1, d1, d2

ConflictAndOccasion == (s1 :> "calendar_conflict") @@ (s2 :> "personal_occasion")
OneConflict == s1 :> "calendar_conflict"
IdsOf1 == s1 :> 1
IdsOf2 == (s1 :> 1) @@ (s2 :> 2)

DispatcherSymmetry == Permutations(Dispatchers)
=============================================================================
