CONSTANTS
    InUse = {"typeorm", "typeormSqlite", "postgresTypeorm", "mysqlTypeorm", "drizzle", "postgresDrizzle", "mysqlDrizzle", "prisma", "postgresPrisma", "mysqlPrisma", "mikroOrm", "inMemory"}
    MaxRuns = 4
    MaxChunks = 2
    Gap = 3
    Second = 2
    Skews = {0, 1}
    SlotReuse = FALSE
    MaxExecutions = 2
    MaxSteps = 2
    MaxEntries = 2
SPECIFICATION ReadsSpec
INVARIANT NoTornRow
INVARIANT ResumesWhereStopped
INVARIANT ExplorerCoherent
CHECK_DEADLOCK FALSE
