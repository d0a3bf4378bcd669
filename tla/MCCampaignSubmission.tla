------------------------ MODULE MCCampaignSubmission ------------------------
(* Small instances of CampaignSubmission for TLC. *)
EXTENDS CampaignSubmission, TLC

TwoRuns == 1..2
ThreeRuns == 1..3

Interchangeable == Permutations(Ids) \cup Permutations(Experiments \ {Baseline})
InterchangeableIds == Permutations(Ids)
=============================================================================
