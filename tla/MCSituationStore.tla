-------------------------- MODULE MCSituationStore --------------------------
(* Instances of SituationStore for TLC.                                    *)
EXTENDS StoreReceipts, TLC

CONSTANTS s1, s2, s3, s4, k1, k2, k3

(* Which detector each dedupe key comes from.                              *)
TwoConflicts == (s1 :> "calendar_conflict") @@ (s2 :> "calendar_conflict")
ReplyAndConflict == (s1 :> "reply_deadline") @@ (s2 :> "calendar_conflict")
ReplyAndOccasion == (s1 :> "reply_deadline") @@ (s2 :> "personal_occasion")
EveryType == ReplyAndConflict @@ (s3 :> "calendar_conflict")
               @@ (s4 :> "personal_occasion")

(* Row ids in the order of insertion.                                      *)
IdsOf2 == (s1 :> 1) @@ (s2 :> 2)
IdsOf4 == IdsOf2 @@ (s3 :> 3) @@ (s4 :> 4)

(* Tokens are interchangeable random strings.                              *)
TokenSymmetry == Permutations(Tokens)
=============================================================================
