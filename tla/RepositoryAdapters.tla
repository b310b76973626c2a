-------------------------- MODULE RepositoryAdapters --------------------------
(***************************************************************************)
(* The repository adapters that ship with the packages, each as the record *)
(* of its method scripts.  The TypeORM adapter takes a branch of its own   *)
(* on SQLite.  packages/mysql and packages/postgresql re-export MikroORM's *)
(* repository unchanged.                                                   *)
(***************************************************************************)
EXTENDS RepositoryScripts

Typeorm == INSTANCE TypeormRepository
Drizzle == INSTANCE DrizzleRepository
Prisma == INSTANCE PrismaRepository
Postgresql == INSTANCE PostgresqlRepositories
Mysql == INSTANCE MysqlRepositories
MikroOrm == INSTANCE MikroOrmRepository
InMemory == INSTANCE InMemoryRepository

Adapters ==
    [typeorm |-> Typeorm!Methods,
     typeormSqlite |-> [Typeorm!Methods EXCEPT
                            !.createExecutionAtomic = Typeorm!CreateExecutionAtomicSqlite],
     postgresTypeorm |-> Postgresql!TypeormMethods,
     mysqlTypeorm |-> Mysql!TypeormMethods,
     drizzle |-> Drizzle!Methods,
     postgresDrizzle |-> Postgresql!DrizzleMethods,
     mysqlDrizzle |-> Mysql!DrizzleMethods,
     prisma |-> Prisma!Methods,
     postgresPrisma |-> Postgresql!PrismaMethods,
     mysqlPrisma |-> Mysql!PrismaMethods,
     mikroOrm |-> MikroOrm!Methods,
     inMemory |-> InMemory!Methods]
=============================================================================
