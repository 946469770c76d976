-------------------------- MODULE MCOffsiteTiering --------------------------
(***************************************************************************)
(* Values of the constants of OffsiteTiering for TLC.                      *)
(***************************************************************************)
EXTENDS TieringRefinement

MCSettings(hotDays, coldDays) ==
    [remote |-> CHOOSE r \in Remote : TRUE, dir |-> CHOOSE d \in Dir : TRUE, cron |-> 0,
     retention |-> hotDays, offsiteRetention |-> coldDays,
     disableOffsitePruning |-> FALSE, latestOnly |-> FALSE]

\* The hot horizon equal to the cold one, as short as retention gets.
MCEqual == {MCSettings(1, 1)}

\* The cold horizon longer (what the README calls usual) and shorter.
MCLonger == {MCSettings(1, 2)}
MCShorter == {MCSettings(2, 1)}
MCHotOnly == {[x EXCEPT !.remote = NoRemote] : x \in MCEqual}
MCTiered == MCEqual \cup MCLonger \cup MCHotOnly

MCLatest == {[x EXCEPT !.latestOnly = TRUE] : x \in MCEqual}
MCCron == {[x EXCEPT !.cron = 2] : x \in MCEqual}
MCUnpruned == {[x EXCEPT !.disableOffsitePruning = TRUE] : x \in MCEqual}
MCVariants == MCTiered \cup MCShorter \cup MCLatest \cup MCCron \cup MCUnpruned

\* Every snapshot differs; the last day repeats the content of the first; the
\* second day does, so that the first expires while a newer one has its content.
MCDistinct == [s \in Snapshot |-> s]
MCRepeating == [s \in Snapshot |-> IF s = MaxDay THEN 1 ELSE s]
MCRepeatingFirst == [s \in Snapshot |-> IF s = 2 THEN 1 ELSE s]
=============================================================================
