-------------------------- MODULE TieringRefinement --------------------------
(***************************************************************************)
(* OffsiteTiering implements TieredStore: the directory is the hot store,  *)
(* the objects where the client's settings say they are are the cold one,  *)
(* and the settings are read for what they promise.                        *)
(***************************************************************************)
EXTENDS OffsiteTiering

Owed ==
    [offsite |-> OffsiteOn(cfg), hotDays |-> cfg.retention,
     coldDays |-> IF PrunesOffsite(cfg) THEN cfg.offsiteRetention ELSE 0]

InCold == {s \in Snapshot : ObjectOf(cfg, s) \in cold}

Store == INSTANCE TieredStore WITH policy <- Owed, cold <- InCold

\* Every step of the workers, in whatever order and on however old a listing,
\* and every failure and crash, is a step that the two-tier store allows: a
\* snapshot leaves the server only past its horizon, never as the newest, and
\* with its offsite copy in place for as long as the second horizon asks.
ImplementsTieredStore == Store!Spec
=============================================================================
