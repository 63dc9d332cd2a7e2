--------------------------- MODULE MCRewardLedger ---------------------------
(* Instances of RewardLedger for TLC. *)
EXTENDS RewardLedger, TLC

(* Two rules that share a token, one of them counting each source once.    *)
MCRules == [r \in {"ARTICLE_VIEW_STONE", "ARTICLE_REACTION_STONE"} |-> RewardRules[r]]

MCTokens == {"STONE"}

(* A grant that leaves room for one view or for reactions, a correction.   *)
MCAmounts == {119, -1}

(* With a lag of 1: the very end of one cooldown but not of the other, and *)
(* just before midnight.                                                   *)
MCInstants == {16, 86399}

MCSymmetry == Permutations(Users)
=============================================================================
