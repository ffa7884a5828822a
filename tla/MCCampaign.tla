----------------------------- MODULE MCCampaign -----------------------------
(* A small instance of Campaign.tla for TLC.                               *)
EXTENDS Campaign, TLC

AllKinds == {<<"now", "none">>, <<"date", "none">>, <<"dates", "none">>,
             <<"cron", "stop">>, <<"trigger", "stop">>}
EditedKinds == {<<"cron", "stop">>}
Symmetry == Permutations(Caller) \cup Permutations(Recipients)
=============================================================================
