---------------------------- MODULE MCReviewFix ----------------------------
(* Small instances of ReviewFix.                                            *)
EXTENDS ReviewFix, TLC

CONSTANTS h1, h2, f1, f2

OneHandler == {h1}
TwoHandlers == {h1, h2}
AnyHandler == Permutations(TwoHandlers)

TwoFindings == {f1, f2}

(* The model leaves a section out, or not.                                  *)
SomeReplies == {{"functional"}, {"functional", "techStack"}}

(* A tightened requirement beside an architecture finding, which write one  *)
(* stage each.                                                              *)
OneReview == {(f1 :> "functional" @@ f2 :> "techStack")}
=============================================================================
