----------------------------- MODULE MCCadJobs -----------------------------
(***************************************************************************)
(* TLC instance of CadJobs: a width and a height that may be 1 or 2.       *)
(***************************************************************************)
EXTENDS CadJobs, TLC

MCParams  == {"width", "height"}
MCInitial == [p \in MCParams |-> 0]
MCValues  == 0..2

\* Two plans that overlap, and one that is all geometry.
MCPatches == {"width" :> 1, "width" :> 2 @@ "height" :> 1, <<>>}
=============================================================================
