------------------------ MODULE MCOffsiteVerification ------------------------
(* Values of the constants of OffsiteVerification for TLC.                 *)
EXTENDS OffsiteVerification, MCOffsiteTiering

MCFaults == {{"clean"}, {"torn"}, {"loss"}}
=============================================================================
