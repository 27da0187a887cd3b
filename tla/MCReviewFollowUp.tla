-------------------------- MODULE MCReviewFollowUp --------------------------
(* Small instances of ReviewFollowUp.                                      *)
EXTENDS ReviewFollowUp

CONSTANTS h1, c1, c2

NoHuman == {}
OneHuman == {h1}
TwoCodex == {c1, c2}
OneCodex == {c1}
OrderCodex == <<c1, c2>>
OrderTwo == <<c1, h1>>

=============================================================================
