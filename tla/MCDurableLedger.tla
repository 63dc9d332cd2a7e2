--------------------------- MODULE MCDurableLedger --------------------------
(* Instances of DurableLedger for TLC. *)
EXTENDS DurableLedger

MCRules   == [r \in {"ARTICLE_PUBLISH_WHEAT"} |-> RewardRules[r]]
MCTokens  == {"WHEAT"}
MCAmounts == {-1}
=============================================================================
