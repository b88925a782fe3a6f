------------------------------ MODULE MCGradingPage ------------------------------
(* An instance of GradingPage for TLC: a judge that may rate one dimension.       *)
EXTENDS GradingPage, TLC

OneJudgement == {"quality" :> 4}
==================================================================================
