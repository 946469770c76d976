--------------------------- MODULE MCOffsiteAdmin ---------------------------
(* Values of the constants of OffsiteAdmin for TLC.                        *)
EXTENDS OffsiteAdmin, TLC

MCSettings(remote, hotDays, coldDays) ==
    [remote |-> remote, dir |-> CHOOSE d \in Dir : TRUE, cron |-> 0,
     retention |-> hotDays, offsiteRetention |-> coldDays,
     disableOffsitePruning |-> FALSE, latestOnly |-> FALSE]

\* Any remote or none; the cold horizon longer than the hot one or equal.
MCConfig ==
    {MCSettings(remote, 1, coldDays) :
        remote \in Remote \cup {NoRemote}, coldDays \in {1, 2}}

\* A client begins with a remote, and with the longer horizon or the equal one.
MCStart == {MCSettings(remote, 1, 2) : remote \in Remote}
MCStartEqual == {MCSettings(remote, 1, 1) : remote \in Remote}

Alike == Permutations(Remote)

MCDistinct == [s \in Snapshot |-> s]
=============================================================================
