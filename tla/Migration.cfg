SPECIFICATION FairSpec
CONSTANTS
    SchemaTables <- MCSchemaTables
    Columns <- MCColumns
    SchemaColumns <- MCSchemaColumns
    Runs = {r1, r2}
    MaxFaults = 3
INVARIANTS TypeOK NothingDestroyed OpenMeansMigrated
PROPERTIES OpensUnlessSwapTorn
CHECK_DEADLOCK FALSE
