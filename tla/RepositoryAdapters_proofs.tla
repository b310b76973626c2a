---------------------- MODULE RepositoryAdapters_proofs ----------------------
(***************************************************************************)
(* Proofs about the repository adapters, in two parts.                     *)
(*                                                                         *)
(* The launch side, for any keys, clients, executions and faults: whichever*)
(* of the twelve scripts are run, all callers of a job key are given one   *)
(* instance, and an execution is inserted only when no other of its        *)
(* instance is running. What the protocol needs of an adapter is the shape *)
(* of its two scripts, checked adapter by adapter; the invariant then says *)
(* what a client has earned by the statement it has come to. It is not     *)
(* enough to know that a transaction past its second statement holds the   *)
(* instance: between the two statements a row that another client inserted *)
(* may be locked by nobody, and a client that found no running execution   *)
(* keeps being right only because whoever inserts the next one must hold   *)
(* the same lock, or the same mutex.                                       *)
(*                                                                         *)
(* The rows that exist, for any number of runs, chunks, executions, steps  *)
(* and restarts, any resolution of the stored times and any skews of the   *)
(* processes' clocks. None of the three properties is inductive. That a    *)
(* row is never torn needs that every patch is written by one statement;   *)
(* that a restart continues where the last run stopped needs that the      *)
(* newest step row is also the latest by whatever the adapter orders by,   *)
(* which rests on the clocks; that the explorer is coherent needs that a   *)
(* COMPLETED row is never written again while its details are read, and    *)
(* that executions of an instance start apart.                             *)
(***************************************************************************)
EXTENDS RepositoryLaunch, RepositoryReads, SequenceTheorems, WellFoundedInduction, TLAPS

-----------------------------------------------------------------------------
\* getOrCreateJobInstance: find, insert, and read back what the insert or
\* another client left.
LookupScript(s) ==
    /\ s.tx = FALSE
    /\ Len(s.does) \in {3, 4}
    /\ s.does[1].do \in {"takeMutex", "findInstance"}
    /\ s.does[Len(s.does)].do = "readBack"
    /\ \A i \in 1..Len(s.does) :
           \/ s.does[i].do = "takeMutex" /\ i + 1 \in 1..Len(s.does) /\ s.does[i + 1].do = "findInstance"
           \/ s.does[i].do = "findInstance" /\ i + 1 \in 1..Len(s.does) /\ s.does[i + 1].do = "insertInstance"
           \/ s.does[i].do = "insertInstance" /\ i + 1 \in 1..Len(s.does) /\ s.does[i + 1].do = "readBack"
           \/ s.does[i].do = "readBack"

\* createExecutionAtomic: a transaction that inserts or locks the instance row
\* and then looks for a running execution; in memory the mutex takes the place
\* of the lock.
LaunchScript(a, s) ==
    /\ Len(s.does) = 4
    /\ s.does[3].do = "findRunning"
    /\ s.does[4].do = "insertExecution"
    /\ \/ /\ s.tx = TRUE
          /\ s.does[1].do = "insertInstance" /\ s.does[1].caught = FALSE
          /\ s.does[1].onDuplicate \in {"nothing", "lock"}
          /\ s.does[2].do = "lockInstance"
          /\ s.does[2].skipLocked = TRUE \/ s.does[1].onDuplicate = "lock"
       \/ /\ a = "inMemory"
          /\ s.tx = FALSE
          /\ s.does[1].do = "takeMutex"
          /\ s.does[2].do = "insertInstance" /\ s.does[2].caught = FALSE
          /\ s.does[2].answers = FALSE /\ s.does[2].onDuplicate \in {"nothing", "lock"}

(***************************************************************************)
(* What the launch protocol needs to know of an adapter: both its scripts  *)
(* have the shapes above.                                                  *)
(***************************************************************************)
Fits(a, methods) ==
    /\ LookupScript(methods.getOrCreateJobInstance)
    /\ LaunchScript(a, methods.createExecutionAtomic)

\* The scripts of Typeorm.
LEMMA TypeormFits ==
    /\ Fits("typeorm", Typeorm!Methods)
    /\ LaunchScript("typeormSqlite", Typeorm!CreateExecutionAtomicSqlite)
<1> USE DEF Typeorm!Autocommit, Typeorm!Transaction, Typeorm!TakeMutex,
        Typeorm!FindInstance, Typeorm!InsertInstance, Typeorm!ReadBack,
        Typeorm!LockSkipLocked, Typeorm!SelectUnlocked, Typeorm!FindRunning,
        Typeorm!InsertExecution
<1>1. Fits("typeorm", Typeorm!Methods)
  <2>1. LookupScript(Typeorm!GetOrCreateJobInstance)
    BY DEF LookupScript, Typeorm!GetOrCreateJobInstance
  <2>2. LaunchScript("typeorm", Typeorm!CreateExecutionAtomic)
    BY DEF LaunchScript, Typeorm!CreateExecutionAtomic
  <2> QED BY <2>1, <2>2 DEF Fits, Typeorm!Methods
<1>2. LaunchScript("typeormSqlite", Typeorm!CreateExecutionAtomicSqlite)
    BY DEF LaunchScript, Typeorm!CreateExecutionAtomicSqlite
<1> QED BY <1>1, <1>2

\* The scripts of Drizzle.
LEMMA DrizzleFits ==
    /\ Fits("drizzle", Drizzle!Methods)
<1> USE DEF Drizzle!Autocommit, Drizzle!Transaction, Drizzle!TakeMutex,
        Drizzle!FindInstance, Drizzle!InsertInstance, Drizzle!ReadBack,
        Drizzle!LockSkipLocked, Drizzle!SelectUnlocked, Drizzle!FindRunning,
        Drizzle!InsertExecution
<1>1. Fits("drizzle", Drizzle!Methods)
  <2>1. LookupScript(Drizzle!GetOrCreateJobInstance)
    BY DEF LookupScript, Drizzle!GetOrCreateJobInstance
  <2>2. LaunchScript("drizzle", Drizzle!CreateExecutionAtomic)
    BY DEF LaunchScript, Drizzle!CreateExecutionAtomic
  <2> QED BY <2>1, <2>2 DEF Fits, Drizzle!Methods
<1> QED BY <1>1

\* The scripts of Prisma.
LEMMA PrismaFits ==
    /\ Fits("prisma", Prisma!Methods)
<1> USE DEF Prisma!Autocommit, Prisma!Transaction, Prisma!TakeMutex, Prisma!FindInstance,
        Prisma!InsertInstance, Prisma!ReadBack, Prisma!LockSkipLocked,
        Prisma!SelectUnlocked, Prisma!FindRunning, Prisma!InsertExecution
<1>1. Fits("prisma", Prisma!Methods)
  <2>1. LookupScript(Prisma!GetOrCreateJobInstance)
    BY DEF LookupScript, Prisma!GetOrCreateJobInstance
  <2>2. LaunchScript("prisma", Prisma!CreateExecutionAtomic)
    BY DEF LaunchScript, Prisma!CreateExecutionAtomic
  <2> QED BY <2>1, <2>2 DEF Fits, Prisma!Methods
<1> QED BY <1>1

\* The scripts of MikroOrm.
LEMMA MikroOrmFits ==
    /\ Fits("mikroOrm", MikroOrm!Methods)
<1> USE DEF MikroOrm!Autocommit, MikroOrm!Transaction, MikroOrm!TakeMutex,
        MikroOrm!FindInstance, MikroOrm!InsertInstance, MikroOrm!ReadBack,
        MikroOrm!LockSkipLocked, MikroOrm!SelectUnlocked, MikroOrm!FindRunning,
        MikroOrm!InsertExecution
<1>1. Fits("mikroOrm", MikroOrm!Methods)
  <2>1. LookupScript(MikroOrm!GetOrCreateJobInstance)
    BY DEF LookupScript, MikroOrm!GetOrCreateJobInstance
  <2>2. LaunchScript("mikroOrm", MikroOrm!CreateExecutionAtomic)
    BY DEF LaunchScript, MikroOrm!CreateExecutionAtomic
  <2> QED BY <2>1, <2>2 DEF Fits, MikroOrm!Methods
<1> QED BY <1>1

\* The scripts of InMemory.
LEMMA InMemoryFits ==
    /\ Fits("inMemory", InMemory!Methods)
<1> USE DEF InMemory!Autocommit, InMemory!Transaction, InMemory!TakeMutex,
        InMemory!FindInstance, InMemory!InsertInstance, InMemory!ReadBack,
        InMemory!LockSkipLocked, InMemory!SelectUnlocked, InMemory!FindRunning,
        InMemory!InsertExecution
<1>1. Fits("inMemory", InMemory!Methods)
  <2>1. LookupScript(InMemory!GetOrCreateJobInstance)
    BY DEF LookupScript, InMemory!GetOrCreateJobInstance
  <2>2. LaunchScript("inMemory", InMemory!CreateExecutionAtomic)
    BY DEF LaunchScript, InMemory!CreateExecutionAtomic
  <2> QED BY <2>1, <2>2 DEF Fits, InMemory!Methods
<1> QED BY <1>1

\* The scripts of Postgresql.
LEMMA PostgresqlFits ==
    /\ Fits("postgresTypeorm", Postgresql!TypeormMethods)
    /\ Fits("postgresDrizzle", Postgresql!DrizzleMethods)
    /\ Fits("postgresPrisma", Postgresql!PrismaMethods)
<1> USE DEF Postgresql!Autocommit, Postgresql!Transaction, Postgresql!TakeMutex,
        Postgresql!FindInstance, Postgresql!InsertInstance, Postgresql!ReadBack,
        Postgresql!LockSkipLocked, Postgresql!SelectUnlocked, Postgresql!FindRunning,
        Postgresql!InsertExecution
<1>1. Fits("postgresTypeorm", Postgresql!TypeormMethods)
  <2>1. LookupScript(Postgresql!TypeormGetOrCreateJobInstance)
    BY DEF LookupScript, Postgresql!TypeormGetOrCreateJobInstance
  <2>2. LaunchScript("postgresTypeorm", Postgresql!TypeormCreateExecutionAtomic)
    BY DEF LaunchScript, Postgresql!TypeormCreateExecutionAtomic
  <2> QED BY <2>1, <2>2 DEF Fits, Postgresql!TypeormMethods
<1>2. Fits("postgresDrizzle", Postgresql!DrizzleMethods)
  <2>1. LookupScript(Postgresql!DrizzleGetOrCreateJobInstance)
    BY DEF LookupScript, Postgresql!DrizzleGetOrCreateJobInstance
  <2>2. LaunchScript("postgresDrizzle", Postgresql!DrizzleCreateExecutionAtomic)
    BY DEF LaunchScript, Postgresql!DrizzleCreateExecutionAtomic
  <2> QED BY <2>1, <2>2 DEF Fits, Postgresql!DrizzleMethods
<1>3. Fits("postgresPrisma", Postgresql!PrismaMethods)
  <2>1. LookupScript(Postgresql!PrismaGetOrCreateJobInstance)
    BY DEF LookupScript, Postgresql!PrismaGetOrCreateJobInstance
  <2>2. LaunchScript("postgresPrisma", Postgresql!PrismaCreateExecutionAtomic)
    BY DEF LaunchScript, Postgresql!PrismaCreateExecutionAtomic
  <2> QED BY <2>1, <2>2 DEF Fits, Postgresql!PrismaMethods
<1> QED BY <1>1, <1>2, <1>3

\* The scripts of Mysql.
LEMMA MysqlFits ==
    /\ Fits("mysqlTypeorm", Mysql!TypeormMethods)
    /\ Fits("mysqlDrizzle", Mysql!DrizzleMethods)
    /\ Fits("mysqlPrisma", Mysql!PrismaMethods)
<1> USE DEF Mysql!Autocommit, Mysql!Transaction, Mysql!TakeMutex, Mysql!FindInstance,
        Mysql!InsertInstance, Mysql!ReadBack, Mysql!LockSkipLocked, Mysql!SelectUnlocked,
        Mysql!FindRunning, Mysql!InsertExecution
<1>1. Fits("mysqlTypeorm", Mysql!TypeormMethods)
  <2>1. LookupScript(Mysql!TypeormGetOrCreateJobInstance)
    BY DEF LookupScript, Mysql!TypeormGetOrCreateJobInstance
  <2>2. LaunchScript("mysqlTypeorm", Mysql!TypeormCreateExecutionAtomic)
    BY DEF LaunchScript, Mysql!TypeormCreateExecutionAtomic
  <2> QED BY <2>1, <2>2 DEF Fits, Mysql!TypeormMethods
<1>2. Fits("mysqlDrizzle", Mysql!DrizzleMethods)
  <2>1. LookupScript(Mysql!DrizzleGetOrCreateJobInstance)
    BY DEF LookupScript, Mysql!DrizzleGetOrCreateJobInstance
  <2>2. LaunchScript("mysqlDrizzle", Mysql!DrizzleCreateExecutionAtomic)
    BY DEF LaunchScript, Mysql!DrizzleCreateExecutionAtomic
  <2> QED BY <2>1, <2>2 DEF Fits, Mysql!DrizzleMethods
<1>3. Fits("mysqlPrisma", Mysql!PrismaMethods)
  <2>1. LookupScript(Mysql!PrismaGetOrCreateJobInstance)
    BY DEF LookupScript, Mysql!PrismaGetOrCreateJobInstance
  <2>2. LaunchScript("mysqlPrisma", Mysql!PrismaCreateExecutionAtomic)
    BY DEF LaunchScript, Mysql!PrismaCreateExecutionAtomic
  <2> QED BY <2>1, <2>2 DEF Fits, Mysql!PrismaMethods
<1> QED BY <1>1, <1>2, <1>3

\* The shapes hold of all the adapters: the PostgreSQL and MySQL variants are
\* made of the scripts above.
LEMMA EveryAdapterFits == \A a \in DOMAIN Adapters : Fits(a, Adapters[a])
<1>1. Fits("typeormSqlite", Adapters["typeormSqlite"])
  <2>1. LookupScript(Typeorm!Methods.getOrCreateJobInstance)
    BY TypeormFits DEF Fits
  <2>2. /\ [Typeorm!Methods EXCEPT !.createExecutionAtomic = Typeorm!CreateExecutionAtomicSqlite].getOrCreateJobInstance
            = Typeorm!Methods.getOrCreateJobInstance
        /\ [Typeorm!Methods EXCEPT !.createExecutionAtomic = Typeorm!CreateExecutionAtomicSqlite].createExecutionAtomic
            = Typeorm!CreateExecutionAtomicSqlite
    BY DEF Typeorm!Methods
  <2> QED BY <2>1, <2>2, TypeormFits DEF Fits, Adapters
<1>2. DOMAIN Adapters = {"typeorm", "typeormSqlite", "postgresTypeorm", "mysqlTypeorm", "drizzle",
        "postgresDrizzle", "mysqlDrizzle", "prisma", "postgresPrisma", "mysqlPrisma", "mikroOrm", "inMemory"}
    BY DEF Adapters
<1>3. Fits("typeorm", Adapters["typeorm"])
    BY TypeormFits DEF Adapters
<1>4. Fits("drizzle", Adapters["drizzle"])
    BY DrizzleFits DEF Adapters
<1>5. Fits("prisma", Adapters["prisma"])
    BY PrismaFits DEF Adapters
<1>6. Fits("mikroOrm", Adapters["mikroOrm"])
    BY MikroOrmFits DEF Adapters
<1>7. Fits("inMemory", Adapters["inMemory"])
    BY InMemoryFits DEF Adapters
<1>8. Fits("postgresTypeorm", Adapters["postgresTypeorm"])
    BY PostgresqlFits DEF Adapters
<1>9. Fits("postgresDrizzle", Adapters["postgresDrizzle"])
    BY PostgresqlFits DEF Adapters
<1>10. Fits("postgresPrisma", Adapters["postgresPrisma"])
    BY PostgresqlFits DEF Adapters
<1>11. Fits("mysqlTypeorm", Adapters["mysqlTypeorm"])
    BY MysqlFits DEF Adapters
<1>12. Fits("mysqlDrizzle", Adapters["mysqlDrizzle"])
    BY MysqlFits DEF Adapters
<1>13. Fits("mysqlPrisma", Adapters["mysqlPrisma"])
    BY MysqlFits DEF Adapters
<1> QED BY <1>1, <1>2, <1>3, <1>4, <1>5, <1>6, <1>7, <1>8, <1>9, <1>10, <1>11, <1>12, <1>13

\* The clients by what they are doing.
Lookups == {c \in Clients : call[c].op = "getOrCreateJobInstance"}
Launches == {c \in Clients : call[c].op = "createExecutionAtomic"}
ExecutionStatuses == {"ABSENT", "STARTING", "STARTED", "STOPPED", "COMPLETED"}

\* A call in flight.
Calls == [op : Methods, key : Keys, at : 1..4, failed : BOOLEAN]

\* A call is at a statement of its script.
CallsTyped ==
    /\ call \in [Clients -> Calls \cup {Idle}]
    /\ \A c \in Clients : call[c] # Idle => call[c].at \in 1..Len(Script(c).does)

\* The types: TypeOK, and an execution is ABSENT exactly when its row does not
\* exist.
LaunchTyped ==
    /\ TypeOK
    /\ CallsTyped
    /\ status \in [Execs -> ExecutionStatuses]
    /\ \A e \in Execs : status[e] = "ABSENT" <=> jobInstanceId[e] = None

\* The instance of a key belongs to that key, it is the only one that was ever
\* answered for it, and execution rows refer to it.
RowsKeyed ==
    /\ \A k \in Keys : instance[k] # None => instance[k] \in {k} \X Clients
    /\ \A k \in Keys : answers[k] \subseteq {instance[k]}
    /\ \A e \in Execs : jobInstanceId[e] # None => jobInstanceId[e] = instance[jobInstanceId[e][1]]

\* Instance rows are locked only by transactions of their own key.
HolderLaunches ==
    \A k \in Keys, c \in Clients : holder[k] = c => /\ c \in Launches /\ call[c].key = k
                                                    /\ Script(c).tx = TRUE

\* What excludes other launches of the key: the row lock, or the mutex. At its
\* second statement a transaction either inserted the row, and holds it, or
\* found it and must still lock it, passing by a row that is locked.
Holds(c) ==
    LET k == call[c].key IN
    IF Script(c).tx
    THEN /\ call[c].at = 2 => holder[k] = c \/ (instance[k] # None /\ Stmt(c).skipLocked = TRUE)
         /\ call[c].at > 2 => holder[k] = c
    ELSE /\ call[c].at > 1 => mutex = c
         /\ call[c].at > 2 => instance[k] # None

\* Who is about to insert has seen that nothing is running, and it is still
\* so.
Checked(c) ==
    call[c].at = 4 => \A e \in Execs : jobInstanceId[e] = Seen(c, call[c].key)
                                           => status[e] \notin {"STARTING", "STARTED"}

\* A lookup that reads back, and whose insert did not fail, finds a row.
Finds(c) == Stmt(c).do = "readBack" /\ ~call[c].failed => instance[call[c].key] # None

\* What a client has earned by the statement it is at.
Earned(c) ==
    /\ c \in Launches => Holds(c) /\ Checked(c)
    /\ c \in Lookups => Finds(c)

\* The inductive invariant.
LaunchInv == LaunchTyped /\ RowsKeyed /\ HolderLaunches /\ \A c \in Clients : Earned(c)

\* A call in flight: its fields have their types, and its script one of the
\* two shapes.
LEMMA InFlight ==
    ASSUME LaunchTyped, NEW c \in Clients, call[c].op # "idle"
    PROVE  /\ call[c].op \in Methods
           /\ call[c].key \in Keys
           /\ call[c].at \in 1..4
           /\ call[c].failed \in BOOLEAN
           /\ call[c].at \in 1..Len(Script(c).does)
           /\ call[c].op = "getOrCreateJobInstance" => LookupScript(Script(c))
           /\ call[c].op = "createExecutionAtomic" => LaunchScript(adapter, Script(c))
<1>1. call[c] \in Calls \cup {Idle} /\ call[c] # Idle
    BY DEF LaunchTyped, CallsTyped, Idle
<1>2. call[c].at \in 1..Len(Script(c).does)
    BY <1>1 DEF LaunchTyped, CallsTyped
<1>3. call[c].op \in Methods /\ call[c].key \in Keys /\ call[c].at \in 1..4 /\ call[c].failed \in BOOLEAN
    BY <1>1 DEF Calls, Methods
<1>4. Fits(adapter, Adapters[adapter])
    BY EveryAdapterFits DEF LaunchTyped, TypeOK
<1>5. /\ call[c].op = "getOrCreateJobInstance" => LookupScript(Script(c))
      /\ call[c].op = "createExecutionAtomic" => LaunchScript(adapter, Script(c))
    BY <1>4 DEF Fits, Script
<1> QED BY <1>2, <1>3, <1>5

\* Nobody has called yet.
LEMMA LaunchInitInv == Init => LaunchInv
<1> SUFFICES ASSUME Init PROVE LaunchInv
    OBVIOUS
<1> USE RepositoryLaunchAssumption
<1>1. LaunchTyped
    BY DEF Init, LaunchTyped, CallsTyped, TypeOK, Idle, ExecutionStatuses, InstanceIds
<1>2. RowsKeyed /\ HolderLaunches /\ \A c \in Clients : Earned(c)
    BY DEF Init, RowsKeyed, HolderLaunches, Earned, Idle, Lookups, Launches
<1> QED BY <1>1, <1>2 DEF LaunchInv

\* What the other clients have earned survives a statement of c: c takes no
\* lock that is not free, and inserts no execution of a key that another
\* client is about to insert one of.
LEMMA OthersEarned ==
    ASSUME LaunchInv, NEW c \in Clients, adapter' = adapter,
           \A d \in Clients \ {c} : call'[d] = call[d],
           \A d \in Clients \ {c}, k \in Keys : holder'[k] = d <=> holder[k] = d,
           \A d \in Clients \ {c} : mutex = d => mutex' = d,
           \A k \in Keys : \/ instance'[k] = instance[k]
                           \/ instance[k] = None /\ holder[k] \in {None, c} /\ instance'[k] # None,
           \A e \in Execs :
               \/ jobInstanceId'[e] = jobInstanceId[e] /\ status'[e] = status[e]
               \/ \E k \in Keys : /\ jobInstanceId'[e] \in {k} \X Clients
                                  /\ \A d \in Launches \ {c} : ~(call[d].at = 4 /\ call[d].key = k),
           \A k \in Keys : instance'[k] # None => instance'[k] \in {k} \X Clients
    PROVE  \A d \in Clients \ {c} : Earned(d)'
<1> SUFFICES ASSUME NEW d \in Clients \ {c} PROVE Earned(d)'
    OBVIOUS
<1> USE RepositoryLaunchAssumption
<1>1. call'[d] = call[d] /\ Script(d)' = Script(d) /\ Stmt(d)' = Stmt(d)
    BY DEF Script, Stmt
<1>2. Earned(d) /\ (d \in Launches' <=> d \in Launches) /\ (d \in Lookups' <=> d \in Lookups)
    BY <1>1 DEF LaunchInv, Launches, Lookups
<1>3. ASSUME d \in Launches PROVE Holds(d)' /\ Checked(d)'
  <2>1. call[d].key \in Keys /\ call[d].at \in 1..4
    BY <1>3, InFlight DEF Launches, LaunchInv
  <2>2. Holds(d)'
    BY <1>1, <1>2, <1>3, <2>1 DEF Earned, Holds
  <2>3. ASSUME call[d].at = 4 PROVE Seen(d, call[d].key)' = Seen(d, call[d].key)
    <3>1. holder[call[d].key] = d \/ instance[call[d].key] # None
        BY <1>2, <1>3, <2>1, <2>3 DEF Earned, Holds
    <3>2. instance'[call[d].key] = instance[call[d].key]
        BY <3>1, <2>1
    <3>3. holder'[call[d].key] = d <=> holder[call[d].key] = d
        BY <2>1
    <3> QED BY <1>1, <3>2, <3>3 DEF Seen, Drawn
  <2>4. ASSUME call[d].at = 4 PROVE Seen(d, call[d].key)' \in {call[d].key} \X Clients
    <3>1. holder[call[d].key] = d \/ instance[call[d].key] # None
        BY <1>2, <1>3, <2>1, <2>4 DEF Earned, Holds
    <3>2. instance'[call[d].key] = instance[call[d].key]
        BY <3>1, <2>1
    <3> QED BY <1>1, <3>1, <3>2, <2>1 DEF Seen, Drawn
  <2>5. Checked(d)'
    <3> SUFFICES ASSUME call[d].at = 4, NEW e \in Execs, jobInstanceId'[e] = Seen(d, call[d].key)'
                 PROVE  status'[e] \notin {"STARTING", "STARTED"}
        BY <1>1 DEF Checked
    <3>1. CASE jobInstanceId'[e] = jobInstanceId[e] /\ status'[e] = status[e]
        BY <3>1, <2>3, <1>2, <1>3 DEF Earned, Checked
    <3>2. ASSUME NEW k \in Keys, jobInstanceId'[e] \in {k} \X Clients,
                 \A x \in Launches \ {c} : ~(call[x].at = 4 /\ call[x].key = k)
          PROVE  FALSE
        <4>1. Seen(d, call[d].key)' \in {k} \X Clients /\ Seen(d, call[d].key)' \in {call[d].key} \X Clients
            BY <3>2, <2>4
        <4>2. k = call[d].key
            BY <4>1
        <4> QED BY <4>2, <3>2, <1>3
    <3> QED BY <3>1, <3>2
  <2> QED BY <2>2, <2>5
<1>4. ASSUME d \in Lookups PROVE Finds(d)'
  <2>1. call[d].key \in Keys
    BY <1>4, InFlight DEF Lookups, LaunchInv
  <2> QED BY <1>1, <1>2, <1>4, <2>1 DEF Earned, Finds
<1> QED BY <1>2, <1>3, <1>4 DEF Earned

\* A call that ends gives back its row locks and the mutex, and nothing of the
\* others'.
LEMMA Released ==
    ASSUME LaunchInv, NEW c \in Clients, Release(c), adapter' = adapter
    PROVE  /\ CallsTyped'
           /\ holder' \in [Keys -> Clients \cup {None}] /\ mutex' \in Clients \cup {None}
           /\ HolderLaunches' /\ Earned(c)'
           /\ \A d \in Clients \ {c} : call'[d] = call[d]
           /\ \A d \in Clients \ {c}, k \in Keys : holder'[k] = d <=> holder[k] = d
           /\ \A d \in Clients \ {c} : mutex = d => mutex' = d
<1> USE RepositoryLaunchAssumption
<1>1. /\ call' = [call EXCEPT ![c] = Idle] /\ call'[c] = Idle
      /\ \A d \in Clients \ {c} : call'[d] = call[d] /\ Script(d)' = Script(d)
    BY DEF Release, LaunchInv, LaunchTyped, CallsTyped, Script
<1>2. CallsTyped'
    BY <1>1 DEF LaunchInv, LaunchTyped, CallsTyped
<1>3. holder' \in [Keys -> Clients \cup {None}] /\ mutex' \in Clients \cup {None}
    BY DEF Release, LaunchInv, LaunchTyped, TypeOK
<1>4. \A k \in Keys, d \in Clients : holder'[k] = d <=> d # c /\ holder[k] = d
    BY DEF Release, LaunchInv, LaunchTyped, TypeOK
<1>5. HolderLaunches'
    BY <1>1, <1>4 DEF LaunchInv, HolderLaunches, Launches
<1>6. Earned(c)'
    BY <1>1 DEF Earned, Launches, Lookups, Idle
<1>7. \A d \in Clients \ {c} : mutex = d => mutex' = d
    BY DEF Release
<1> QED BY <1>1, <1>2, <1>3, <1>4, <1>5, <1>6, <1>7

\* A call that ends, whatever it answers.
LEMMA ReleaseInv ==
    ASSUME LaunchInv, NEW c \in Clients, Release(c),
           UNCHANGED <<adapter, tables>>, faults' \in 0..MaxFaults,
           answers' \in [Keys -> SUBSET InstanceIds],
           \A k \in Keys : answers'[k] \subseteq {instance[k]}
    PROVE  LaunchInv'
<1>1. /\ CallsTyped'
      /\ holder' \in [Keys -> Clients \cup {None}] /\ mutex' \in Clients \cup {None}
      /\ HolderLaunches' /\ Earned(c)'
    BY Released
<1>2. LaunchTyped'
    BY <1>1 DEF LaunchInv, LaunchTyped, TypeOK, CallsTyped, tables
<1>3. RowsKeyed'
    BY DEF LaunchInv, RowsKeyed, tables
<1>4. \A d \in Clients \ {c} : Earned(d)'
  <2>1. UNCHANGED <<instance, jobInstanceId, status>>
    BY DEF tables
  <2>2. \A k \in Keys : instance'[k] # None => instance'[k] \in {k} \X Clients
    BY <2>1 DEF LaunchInv, RowsKeyed
  <2> QED BY <2>1, <2>2, Released, OthersEarned
<1> QED BY <1>1, <1>2, <1>3, <1>4 DEF LaunchInv

\* getOrCreateJobInstance returns the instance row.
LEMMA AnswerInv ==
    ASSUME LaunchInv, NEW c \in Clients, NEW k \in Keys, instance[k] # None, Answer(c, k, instance[k]),
           UNCHANGED <<adapter, tables>>, faults' \in 0..MaxFaults
    PROVE  LaunchInv'
<1>1. answers' = [answers EXCEPT ![k] = @ \cup {instance[k]}] /\ Release(c)
    BY DEF Answer
<1>2. instance[k] \in InstanceIds /\ answers \in [Keys -> SUBSET InstanceIds]
    BY DEF LaunchInv, LaunchTyped, TypeOK
<1>3. \A x \in Keys : answers[x] \subseteq {instance[x]}
    BY DEF LaunchInv, RowsKeyed
<1>4. answers' \in [Keys -> SUBSET InstanceIds]
    BY <1>1, <1>2
<1>5. \A x \in Keys : answers'[x] \subseteq {instance[x]}
    BY <1>1, <1>2, <1>3
<1> QED BY <1>1, <1>4, <1>5, ReleaseInv

\* A call that moves to another statement stays typed.
LEMMA Moved ==
    ASSUME LaunchInv, NEW c \in Clients, adapter' = adapter,
           NEW r \in Calls, call' = [call EXCEPT ![c] = r],
           r.at \in 1..Len(Adapters[adapter][r.op].does)
    PROVE  /\ CallsTyped' /\ call'[c] = r
           /\ \A d \in Clients \ {c} : call'[d] = call[d] /\ Script(d)' = Script(d)
<1>1. /\ call'[c] = r
      /\ \A d \in Clients \ {c} : call'[d] = call[d] /\ Script(d)' = Script(d)
    BY DEF LaunchInv, LaunchTyped, CallsTyped, Script
<1>2. Script(c)' = Adapters[adapter][r.op]
    BY <1>1 DEF Script
<1>3. CallsTyped'
    BY <1>1, <1>2 DEF LaunchInv, LaunchTyped, CallsTyped
<1> QED BY <1>1, <1>3

\* A call moves to another statement; it may take its own locks on the way.
LEMMA MoveInv ==
    ASSUME LaunchInv, NEW c \in Clients, NEW r \in Calls, call' = [call EXCEPT ![c] = r],
           r.at \in 1..Len(Adapters[adapter][r.op].does),
           UNCHANGED <<adapter, tables, answers>>, faults' \in 0..MaxFaults,
           holder' \in [Keys -> Clients \cup {None}], mutex' \in Clients \cup {None},
           \A d \in Clients \ {c}, k \in Keys : holder'[k] = d <=> holder[k] = d,
           \A d \in Clients \ {c} : mutex = d => mutex' = d,
           \A k \in Keys : holder'[k] = c => /\ r.op = "createExecutionAtomic" /\ r.key = k
                                             /\ Adapters[adapter][r.op].tx = TRUE,
           Earned(c)'
    PROVE  LaunchInv'
<1>1. /\ CallsTyped' /\ call'[c] = r
      /\ \A d \in Clients \ {c} : call'[d] = call[d] /\ Script(d)' = Script(d)
    BY Moved
<1>2. UNCHANGED <<instance, jobInstanceId, status>>
    BY DEF tables
<1>3. LaunchTyped'
    BY <1>1, <1>2 DEF LaunchInv, LaunchTyped, TypeOK, CallsTyped
<1>4. RowsKeyed'
    BY <1>2 DEF LaunchInv, RowsKeyed
<1>5. HolderLaunches'
  <2> SUFFICES ASSUME NEW k \in Keys, NEW d \in Clients, holder'[k] = d
               PROVE  d \in Launches' /\ call'[d].key = k /\ Script(d)'.tx = TRUE
    BY DEF HolderLaunches
  <2>1. CASE d = c
    BY <2>1, <1>1 DEF Launches, Script
  <2>2. CASE d # c
    BY <2>2, <1>1 DEF LaunchInv, HolderLaunches, Launches
  <2> QED BY <2>1, <2>2
<1>6. \A d \in Clients \ {c} : Earned(d)'
  <2>1. \A k \in Keys : instance'[k] # None => instance'[k] \in {k} \X Clients
    BY <1>4 DEF RowsKeyed
  <2> QED BY <1>1, <1>2, <2>1, OthersEarned
<1> QED BY <1>3, <1>4, <1>5, <1>6 DEF LaunchInv

\* The record of a call that has gone to a statement.
Went(c, at, failed) == [op |-> call[c].op, key |-> call[c].key, at |-> at, failed |-> failed]

\* The three ways the model moves a call, as records.
LEMMA Advances ==
    ASSUME LaunchInv, NEW c \in Clients, call[c].op # "idle"
    PROVE  /\ GoOn(c) => call' = [call EXCEPT ![c] = Went(c, call[c].at + 1, call[c].failed)]
           /\ GoToLast(c) => call' = [call EXCEPT ![c] = Went(c, Len(Script(c).does), TRUE)]
           /\ call' = [call EXCEPT ![c].at = Len(Script(c).does)]
                => call' = [call EXCEPT ![c] = Went(c, Len(Script(c).does), call[c].failed)]
           /\ \A a \in 1..Len(Script(c).does), f \in BOOLEAN :
                /\ Went(c, a, f) \in Calls
                /\ Went(c, a, f).at \in 1..Len(Adapters[adapter][Went(c, a, f).op].does)
           /\ Len(Script(c).does) \in {3, 4}
<1>1. call[c] \in Calls /\ call \in [Clients -> Calls \cup {Idle}]
    BY DEF LaunchInv, LaunchTyped, CallsTyped, Idle
<1>2. PICK n \in {3, 4} : n = Len(Script(c).does)
    BY InFlight DEF LaunchInv, LookupScript, LaunchScript, Methods
<1>3. PICK o \in Methods, k \in Keys, a \in 1..4, f \in BOOLEAN :
          call[c] = [op |-> o, key |-> k, at |-> a, failed |-> f]
    BY <1>1 DEF Calls
<1>4. GoOn(c) => call' = [call EXCEPT ![c] = Went(c, call[c].at + 1, call[c].failed)]
    BY <1>1, <1>3 DEF GoOn, Went
<1>5. GoToLast(c) => call' = [call EXCEPT ![c] = Went(c, Len(Script(c).does), TRUE)]
    BY <1>1, <1>3 DEF GoToLast, Went
<1>6. call' = [call EXCEPT ![c].at = Len(Script(c).does)]
                => call' = [call EXCEPT ![c] = Went(c, Len(Script(c).does), call[c].failed)]
    BY <1>1, <1>3 DEF Went
<1>7. \A b \in 1..Len(Script(c).does), g \in BOOLEAN :
                /\ Went(c, b, g) \in Calls
                /\ Went(c, b, g).at \in 1..Len(Adapters[adapter][Went(c, b, g).op].does)
  <2> TAKE b \in 1..Len(Script(c).does), g \in BOOLEAN
  <2>0. Len(Script(c).does) = 3 \/ Len(Script(c).does) = 4
    BY <1>2
  <2>1. b \in 1..4
    <3>1. CASE Len(Script(c).does) = 3
        BY ONLY <3>1, b \in 1..Len(Script(c).does)
    <3>2. CASE Len(Script(c).does) = 4
        BY <3>2
    <3> QED BY <2>0, <3>1, <3>2
  <2>2. Went(c, b, g) \in Calls
    BY <1>3, <2>1 DEF Went, Calls
  <2>3. Went(c, b, g).at = b /\ Went(c, b, g).op = call[c].op
    BY DEF Went
  <2> QED BY <2>2, <2>3 DEF Script
<1> QED BY <1>2, <1>4, <1>5, <1>6, <1>7

\* What is known of a call that has gone to a statement.
Placed(c, a, f) ==
    /\ call'[c].op = call[c].op /\ call'[c].key = call[c].key
    /\ call'[c].at = a /\ call'[c].failed = f
    /\ Script(c)' = Script(c) /\ Stmt(c)' = Script(c).does[a]
    /\ c \in Launches' <=> c \in Launches
    /\ c \in Lookups' <=> c \in Lookups
    /\ Went(c, a, f) \in Calls
    /\ Went(c, a, f).at \in 1..Len(Adapters[adapter][Went(c, a, f).op].does)
    /\ Went(c, a, f).op = call[c].op /\ Went(c, a, f).key = call[c].key

\* A call that has gone to a statement has its script and its key still.
LEMMA NextPlace ==
    ASSUME LaunchInv, NEW c \in Clients, call[c].op # "idle", adapter' = adapter,
           NEW a \in 1..Len(Script(c).does), NEW f \in BOOLEAN,
           call' = [call EXCEPT ![c] = Went(c, a, f)]
    PROVE  Placed(c, a, f)
<1>1. call'[c] = Went(c, a, f)
    BY DEF LaunchInv, LaunchTyped, CallsTyped
<1>2. /\ call'[c].op = call[c].op /\ call'[c].key = call[c].key
      /\ call'[c].at = a /\ call'[c].failed = f
    BY <1>1 DEF Went
<1>3. Script(c)' = Script(c) /\ Stmt(c)' = Script(c).does[a]
    BY <1>2 DEF Script, Stmt
<1>4. (c \in Launches' <=> c \in Launches) /\ (c \in Lookups' <=> c \in Lookups)
    BY <1>2 DEF Launches, Lookups
<1>5. /\ Went(c, a, f) \in Calls
      /\ Went(c, a, f).at \in 1..Len(Adapters[adapter][Went(c, a, f).op].does)
    BY Advances
<1> QED BY <1>2, <1>3, <1>4, <1>5 DEF Went, Placed

\* A statement that changes no table and takes no lock.
LEMMA WalkInv ==
    ASSUME LaunchInv, NEW c \in Clients, call[c].op # "idle",
           NEW a \in 1..Len(Script(c).does), NEW f \in BOOLEAN,
           call' = [call EXCEPT ![c] = Went(c, a, f)],
           UNCHANGED <<adapter, tables, holder, mutex, answers>>, faults' \in 0..MaxFaults,
           Earned(c)'
    PROVE  LaunchInv'
<1>1. /\ Went(c, a, f) \in Calls
      /\ Went(c, a, f).at \in 1..Len(Adapters[adapter][Went(c, a, f).op].does)
      /\ Went(c, a, f).op = call[c].op /\ Went(c, a, f).key = call[c].key
  <2>1. Placed(c, a, f)
    BY NextPlace
  <2> QED BY <2>1 DEF Placed
<1>2. \A k \in Keys : holder'[k] = c => /\ call[c].op = "createExecutionAtomic" /\ call[c].key = k
                                        /\ Adapters[adapter][call[c].op].tx = TRUE
    BY DEF LaunchInv, HolderLaunches, Launches, Script
<1>3. holder' \in [Keys -> Clients \cup {None}] /\ mutex' \in Clients \cup {None}
    BY DEF LaunchInv, LaunchTyped, TypeOK
<1>4. \A d \in Clients \ {c}, k \in Keys : holder'[k] = d <=> holder[k] = d
    OBVIOUS
<1>5. PICK r \in Calls : r = Went(c, a, f)
    BY <1>1
<1>6. /\ call' = [call EXCEPT ![c] = r]
      /\ r.at \in 1..Len(Adapters[adapter][r.op].does)
      /\ \A k \in Keys : holder'[k] = c => /\ r.op = "createExecutionAtomic" /\ r.key = k
                                        /\ Adapters[adapter][r.op].tx = TRUE
    BY <1>1, <1>2, <1>5
<1> QED BY <1>3, <1>4, <1>6, MoveInv

\* A client begins a call.
LEMMA CallInv ==
    ASSUME LaunchInv, NEW c \in Clients, NEW op \in Methods, NEW k \in Keys, Call(c, op, k)
    PROVE  LaunchInv'
<1> USE RepositoryLaunchAssumption
<1> DEFINE r == [op |-> op, key |-> k, at |-> 1, failed |-> FALSE]
<1>1. r \in Calls /\ call' = [call EXCEPT ![c] = r] /\ r.at = 1 /\ r.op = op /\ call[c] = Idle
    BY DEF Calls, Call
<1>2. Fits(adapter, Adapters[adapter])
    BY EveryAdapterFits DEF LaunchInv, LaunchTyped, TypeOK
<1>3. /\ op = "getOrCreateJobInstance" => LookupScript(Adapters[adapter][op])
      /\ op = "createExecutionAtomic" => LaunchScript(adapter, Adapters[adapter][op])
    BY <1>2 DEF Fits
<1>4. 1 \in 1..Len(Adapters[adapter][op].does)
    BY <1>3 DEF LookupScript, LaunchScript, Methods
<1>5. call'[c] = r /\ Script(c)' = Adapters[adapter][op] /\ Stmt(c)' = Adapters[adapter][op].does[1]
    BY <1>1 DEF LaunchInv, LaunchTyped, CallsTyped, Script, Stmt, Call
<1>6. Earned(c)'
    BY <1>3, <1>5 DEF Earned, Launches, Lookups, Holds, Checked, Finds, LookupScript
<1>7. \A x \in Keys : holder'[x] # c
    BY <1>1 DEF LaunchInv, HolderLaunches, Launches, Idle, Call
<1>8. /\ UNCHANGED <<adapter, tables, holder, mutex, answers>> /\ faults' \in 0..MaxFaults
      /\ holder' \in [Keys -> Clients \cup {None}] /\ mutex' \in Clients \cup {None}
    BY DEF Call, LaunchInv, LaunchTyped, TypeOK
<1> HIDE DEF r
<1> QED BY <1>1, <1>4, <1>6, <1>7, <1>8, MoveInv

\* The places in the script of a lookup.
LookupPlace(c) ==
    LET s == Script(c) IN
    /\ s.tx = FALSE
    /\ s.does[Len(s.does)].do = "readBack"
    /\ \/ /\ call[c].at + 1 \in 1..Len(s.does)
          /\ \/ Stmt(c).do = "takeMutex" /\ s.does[call[c].at + 1].do = "findInstance"
             \/ Stmt(c).do = "findInstance" /\ s.does[call[c].at + 1].do = "insertInstance"
             \/ Stmt(c).do = "insertInstance" /\ s.does[call[c].at + 1].do = "readBack"
       \/ Stmt(c).do = "readBack"

\* The places in the script of a launch.
LaunchPlace(c) ==
    LET s == Script(c) IN
    /\ Len(s.does) = 4
    /\ \/ /\ s.tx = TRUE /\ call[c].at = 1 /\ Stmt(c).do = "insertInstance"
          /\ Stmt(c).caught = FALSE /\ Stmt(c).onDuplicate \in {"nothing", "lock"}
          /\ s.does[2].skipLocked = TRUE \/ Stmt(c).onDuplicate = "lock"
       \/ s.tx = TRUE /\ call[c].at = 2 /\ Stmt(c).do = "lockInstance"
       \/ s.tx = FALSE /\ adapter = "inMemory" /\ call[c].at = 1 /\ Stmt(c).do = "takeMutex"
       \/ /\ s.tx = FALSE /\ adapter = "inMemory" /\ call[c].at = 2 /\ Stmt(c).do = "insertInstance"
          /\ Stmt(c).caught = FALSE /\ Stmt(c).answers = FALSE
          /\ Stmt(c).onDuplicate \in {"nothing", "lock"}
       \/ s.tx \in BOOLEAN /\ call[c].at = 3 /\ Stmt(c).do = "findRunning"
       \/ s.tx \in BOOLEAN /\ call[c].at = 4 /\ Stmt(c).do = "insertExecution"

\* What a client knows at a statement, all of it.
Place(c) ==
    /\ \/ c \in Lookups /\ c \notin Launches /\ LookupPlace(c)
       \/ c \in Launches /\ c \notin Lookups /\ LaunchPlace(c)
    /\ call[c].key \in Keys /\ call[c].failed \in BOOLEAN
    /\ call[c].at \in 1..Len(Script(c).does)
    /\ Len(Script(c).does) \in {3, 4}
    /\ Earned(c)
    /\ \A k \in Keys : holder[k] = c => c \in Launches /\ call[c].key = k /\ Script(c).tx = TRUE

\* The invariant puts every call at one of the places.
LEMMA Places ==
    ASSUME LaunchInv, NEW c \in Clients, call[c].op # "idle"
    PROVE  Place(c)
<1>1. /\ call[c].op \in Methods /\ call[c].at \in 1..4 /\ call[c].at \in 1..Len(Script(c).does)
      /\ call[c].key \in Keys /\ call[c].failed \in BOOLEAN
    BY InFlight DEF LaunchInv
<1>2. Earned(c) /\ \A k \in Keys : holder[k] = c => c \in Launches /\ call[c].key = k /\ Script(c).tx = TRUE
    BY DEF LaunchInv, HolderLaunches
<1>3. CASE call[c].op = "getOrCreateJobInstance"
  <2>1. LookupScript(Script(c))
    BY <1>3, InFlight DEF LaunchInv
  <2>2. LookupPlace(c)
    BY <2>1, <1>1 DEF LookupScript, LookupPlace, Stmt
  <2> QED BY <2>1, <2>2, <1>1, <1>2, <1>3 DEF Place, Lookups, Launches, LookupScript
<1>4. CASE call[c].op = "createExecutionAtomic"
  <2>1. LaunchScript(adapter, Script(c))
    BY <1>4, InFlight DEF LaunchInv
  <2>2. LaunchPlace(c)
    <3>1. call[c].at = 1 \/ call[c].at = 2 \/ call[c].at = 3 \/ call[c].at = 4
        BY <1>1
    <3>2. CASE call[c].at = 1
        BY <2>1, <3>2 DEF LaunchScript, LaunchPlace, Stmt
    <3>3. CASE call[c].at = 2
        BY <2>1, <3>3 DEF LaunchScript, LaunchPlace, Stmt
    <3>4. CASE call[c].at = 3
        BY <2>1, <3>4 DEF LaunchScript, LaunchPlace, Stmt
    <3>5. CASE call[c].at = 4
        BY <2>1, <3>5 DEF LaunchScript, LaunchPlace, Stmt
    <3> QED BY <3>1, <3>2, <3>3, <3>4, <3>5
  <2> QED BY <2>1, <2>2, <1>1, <1>2, <1>4 DEF Place, Lookups, Launches, LaunchScript
<1> QED BY <1>1, <1>3, <1>4 DEF Methods

\* The in-memory repository takes its mutex.
LEMMA TakeMutexInv ==
    ASSUME LaunchInv, NEW c \in Clients, DoTakeMutex(c)
    PROVE  LaunchInv'
<1> USE RepositoryLaunchAssumption
<1>1. call[c].op # "idle" /\ Stmt(c).do = "takeMutex" /\ GoOn(c)
    BY DEF DoTakeMutex, At
<1>2. Place(c)
    BY <1>1, Places
<1>3. call[c].at + 1 \in 1..Len(Script(c).does)
  <2>1. CASE c \in Lookups
    BY <1>1, <1>2, <2>1 DEF Place, LookupPlace
  <2>2. CASE c \in Launches
    <3>1. call[c].at = 1 /\ Len(Script(c).does) = 4
        BY <1>1, <1>2, <2>2 DEF Place, LaunchPlace
    <3> QED BY <3>1
  <2> QED BY <1>2, <2>1, <2>2 DEF Place
<1>4. UNCHANGED <<adapter, tables, holder, answers, faults>> /\ mutex = None /\ mutex' = c
    BY DEF DoTakeMutex
<1>5. call' = [call EXCEPT ![c] = Went(c, call[c].at + 1, call[c].failed)]
    BY <1>1, Advances
<1>6. Placed(c, call[c].at + 1, call[c].failed)
    BY <1>1, <1>2, <1>3, <1>4, <1>5, NextPlace DEF Place
<1>7. Earned(c)'
    BY <1>1, <1>2, <1>3, <1>4, <1>6
       DEF Placed, Place, LookupPlace, LaunchPlace, Earned, Holds, Checked, Finds
<1>8. PICK r \in Calls : r = Went(c, call[c].at + 1, call[c].failed)
    BY <1>6 DEF Placed
<1>9. /\ call' = [call EXCEPT ![c] = r]
      /\ r.at \in 1..Len(Adapters[adapter][r.op].does)
      /\ \A k \in Keys : holder'[k] = c => /\ r.op = "createExecutionAtomic" /\ r.key = k
                                           /\ Adapters[adapter][r.op].tx = TRUE
    BY <1>2, <1>4, <1>5, <1>6, <1>8 DEF Placed, Place, Launches, Script
<1>10. /\ faults' \in 0..MaxFaults
       /\ holder' \in [Keys -> Clients \cup {None}] /\ mutex' \in Clients \cup {None}
       /\ \A d \in Clients \ {c}, k \in Keys : holder'[k] = d <=> holder[k] = d
       /\ \A d \in Clients \ {c} : mutex = d => mutex' = d
    BY <1>4 DEF LaunchInv, LaunchTyped, TypeOK
<1> QED BY <1>4, <1>7, <1>9, <1>10, MoveInv

\* SELECT the instance of the key: found, the lookup answers; not found, it
\* inserts.
LEMMA FindInstanceInv ==
    ASSUME LaunchInv, NEW c \in Clients, DoFindInstance(c)
    PROVE  LaunchInv'
<1> USE RepositoryLaunchAssumption
<1>1. call[c].op # "idle" /\ Stmt(c).do = "findInstance" /\ UNCHANGED <<adapter, tables, faults>>
    BY DEF DoFindInstance, At
<1>2. Place(c)
    BY <1>1, Places
<1>3. faults' \in 0..MaxFaults
    BY <1>1 DEF LaunchInv, LaunchTyped, TypeOK
<1> DEFINE k == call[c].key
<1>4. k \in Keys
    BY <1>2 DEF Place
<1>5. CASE instance[k] # None /\ Answer(c, k, instance[k])
    BY <1>1, <1>3, <1>4, <1>5, AnswerInv
<1>6. CASE instance[k] = None /\ GoOn(c) /\ UNCHANGED <<holder, mutex, answers>>
  <2>1. call[c].at + 1 \in 1..Len(Script(c).does) /\ c \in Lookups /\ c \notin Launches
        /\ Script(c).does[call[c].at + 1].do = "insertInstance" /\ call[c].failed \in BOOLEAN
    BY <1>1, <1>2 DEF Place, LookupPlace, LaunchPlace
  <2>2. call' = [call EXCEPT ![c] = Went(c, call[c].at + 1, call[c].failed)]
    BY <1>1, <1>6, Advances
  <2>3. Placed(c, call[c].at + 1, call[c].failed)
    BY <1>1, <2>1, <2>2, NextPlace
  <2>4. Earned(c)'
    BY <2>1, <2>3 DEF Placed, Earned, Finds
  <2> QED BY <1>1, <1>3, <1>6, <2>1, <2>2, <2>4, WalkInv
<1> QED BY <1>5, <1>6 DEF DoFindInstance

\* An instance row of a new key leaves the tables keyed.
LEMMA InsertedRow ==
    ASSUME LaunchInv, NEW c \in Clients, NEW k \in Keys, instance[k] = None,
           holder[k] \in {None, c}, instance' = [instance EXCEPT ![k] = Drawn(c, k)]
    PROVE  /\ instance' \in [Keys -> InstanceIds \cup {None}]
           /\ instance'[k] = Drawn(c, k) /\ Drawn(c, k) \in InstanceIds /\ Drawn(c, k) # None
           /\ \A x \in Keys : instance'[x] # None => instance'[x] \in {x} \X Clients
           /\ \A x \in Keys : \/ instance'[x] = instance[x]
                              \/ instance[x] = None /\ holder[x] \in {None, c} /\ instance'[x] # None
           /\ answers[k] = {}
           /\ jobInstanceId' = jobInstanceId =>
                \A e \in Execs : jobInstanceId'[e] # None => jobInstanceId'[e] = instance'[jobInstanceId'[e][1]]
<1> USE RepositoryLaunchAssumption
<1>1. Drawn(c, k) \in {k} \X Clients /\ Drawn(c, k) \in InstanceIds /\ Drawn(c, k) # None
    BY DEF Drawn, InstanceIds
<1>2. instance \in [Keys -> InstanceIds \cup {None}] /\ answers \in [Keys -> SUBSET InstanceIds]
      /\ jobInstanceId \in [Execs -> InstanceIds \cup {None}]
    BY DEF LaunchInv, LaunchTyped, TypeOK
<1>3. \A x \in Keys : instance'[x] # None => instance'[x] \in {x} \X Clients
    BY <1>1, <1>2 DEF LaunchInv, RowsKeyed
<1>4. answers[k] = {}
  <2>1. answers[k] \subseteq {None} /\ answers[k] \subseteq InstanceIds
    BY <1>2 DEF LaunchInv, RowsKeyed
  <2>2. None \notin InstanceIds
    BY DEF InstanceIds
  <2> QED BY <2>1, <2>2
<1>5. ASSUME NEW e \in Execs, jobInstanceId[e] # None PROVE jobInstanceId[e] = instance'[jobInstanceId[e][1]]
  <2>1. jobInstanceId[e] \in Keys \X Clients
    BY <1>2, <1>5 DEF InstanceIds
  <2>2. jobInstanceId[e][1] \in Keys /\ jobInstanceId[e] = instance[jobInstanceId[e][1]]
    BY <2>1, <1>5 DEF LaunchInv, RowsKeyed
  <2>3. jobInstanceId[e][1] # k
    BY <2>2, <1>5
  <2> QED BY <2>2, <2>3, <1>2
<1> QED BY <1>1, <1>2, <1>3, <1>4, <1>5

\* INSERT the instance of a key that has none; in a transaction this locks the
\* row.
LEMMA InsertNewInv ==
    ASSUME LaunchInv, NEW c \in Clients, DoInsertNew(c)
    PROVE  LaunchInv'
<1> USE RepositoryLaunchAssumption
<1> DEFINE k == call[c].key
<1>1. /\ call[c].op # "idle" /\ Stmt(c).do = "insertInstance" /\ instance[k] = None
      /\ UNCHANGED <<adapter, jobInstanceId, status, faults>>
    BY DEF DoInsertNew, At
<1>2. Place(c)
    BY <1>1, Places
<1>3. k \in Keys /\ holder[k] \in {None, c}
    BY <1>1, <1>2 DEF Place, DoInsertNew, InsertWaits
<1>4. call[c].at + 1 \in 1..Len(Script(c).does) /\ call[c].failed \in BOOLEAN
  <2>1. CASE c \in Lookups
    BY <1>1, <1>2, <2>1 DEF Place, LookupPlace
  <2>2. CASE c \in Launches
    <3>1. (call[c].at = 1 \/ call[c].at = 2) /\ Len(Script(c).does) = 4
        BY <1>1, <1>2, <2>2 DEF Place, LaunchPlace
    <3> QED BY <3>1, <1>2 DEF Place
  <2> QED BY <1>2, <2>1, <2>2 DEF Place
<1>5. faults' \in 0..MaxFaults
    BY <1>1 DEF LaunchInv, LaunchTyped, TypeOK
<1> HIDE DEF k
<1>6. CASE Script(c).tx
  <2>1. holder' = [holder EXCEPT ![k] = c] /\ GoOn(c) /\ UNCHANGED <<adapter, tables, mutex, answers>>
    BY <1>1, <1>6 DEF DoInsertNew, tables, k
  <2>2. c \in Launches /\ call[c].at = 1 /\ Script(c).tx = TRUE
    BY <1>1, <1>2, <1>6 DEF Place, LookupPlace, LaunchPlace
  <2>3. call' = [call EXCEPT ![c] = Went(c, call[c].at + 1, call[c].failed)]
    BY <1>1, <2>1, Advances
  <2>4. Placed(c, call[c].at + 1, call[c].failed)
    BY <1>1, <1>4, <2>3, NextPlace
  <2>5. holder \in [Keys -> Clients \cup {None}] /\ mutex \in Clients \cup {None}
    BY DEF LaunchInv, LaunchTyped, TypeOK
  <2>6. holder' \in [Keys -> Clients \cup {None}] /\ holder'[k] = c /\ mutex' \in Clients \cup {None}
    BY <2>1, <2>5, <1>3
  <2>7. \A d \in Clients \ {c}, x \in Keys : holder'[x] = d <=> holder[x] = d
    BY <2>1, <2>5, <1>3
  <2>8. \A x \in Keys : holder'[x] = c => x = k
    BY <2>1, <2>5, <1>2 DEF Place, k
  <2>9. Earned(c)'
    BY <1>2, <2>2, <2>4, <2>6 DEF Placed, Place, Earned, Holds, Checked, k
  <2>10. PICK r \in Calls : r = Went(c, call[c].at + 1, call[c].failed)
    BY <2>4 DEF Placed
  <2>11. /\ call' = [call EXCEPT ![c] = r]
         /\ r.at \in 1..Len(Adapters[adapter][r.op].does)
         /\ \A x \in Keys : holder'[x] = c => /\ r.op = "createExecutionAtomic" /\ r.key = x
                                              /\ Adapters[adapter][r.op].tx = TRUE
    BY <2>2, <2>3, <2>4, <2>8, <2>10 DEF Placed, Launches, Script, k
  <2>12. \A d \in Clients \ {c} : mutex = d => mutex' = d
    BY <2>1
  <2> QED BY <1>5, <2>1, <2>6, <2>7, <2>9, <2>11, <2>12, MoveInv
<1>7. CASE ~Script(c).tx
  <2>1. instance' = [instance EXCEPT ![k] = Drawn(c, k)]
    BY <1>7 DEF DoInsertNew, k
  <2>2. /\ instance' \in [Keys -> InstanceIds \cup {None}]
        /\ instance'[k] = Drawn(c, k) /\ Drawn(c, k) \in InstanceIds /\ Drawn(c, k) # None
        /\ \A x \in Keys : instance'[x] # None => instance'[x] \in {x} \X Clients
        /\ \A x \in Keys : \/ instance'[x] = instance[x]
                           \/ instance[x] = None /\ holder[x] \in {None, c} /\ instance'[x] # None
        /\ answers[k] = {}
        /\ \A e \in Execs : jobInstanceId'[e] # None => jobInstanceId'[e] = instance'[jobInstanceId'[e][1]]
    BY <1>1, <1>3, <2>1, InsertedRow DEF k
  <2>3. answers \in [Keys -> SUBSET InstanceIds] /\ \A x \in Keys : answers[x] \subseteq {instance[x]}
    BY DEF LaunchInv, LaunchTyped, TypeOK, RowsKeyed
  <2>4. \A x \in Keys : x # k => instance'[x] = instance[x]
    BY <2>1 DEF LaunchInv, LaunchTyped, TypeOK
  <2>5. CASE Stmt(c).answers
    <3>1. answers' = [answers EXCEPT ![k] = @ \cup {Drawn(c, k)}] /\ Release(c)
        BY <1>7, <2>5 DEF DoInsertNew, Answer, k
    <3>2. answers' \in [Keys -> SUBSET InstanceIds]
        BY <2>2, <2>3, <3>1
    <3>3. \A x \in Keys : answers'[x] \subseteq {instance'[x]}
        BY <2>2, <2>3, <2>4, <3>1, <1>3
    <3>4. /\ CallsTyped'
          /\ holder' \in [Keys -> Clients \cup {None}] /\ mutex' \in Clients \cup {None}
          /\ HolderLaunches' /\ Earned(c)'
        BY <1>1, <3>1, Released
    <3>5. LaunchTyped'
        BY <1>1, <1>5, <2>2, <3>2, <3>4 DEF LaunchInv, LaunchTyped, TypeOK, CallsTyped
    <3>6. RowsKeyed'
        BY <2>2, <3>3 DEF RowsKeyed
    <3>7. \A d \in Clients \ {c} : Earned(d)'
        BY <1>1, <2>2, <3>1, Released, OthersEarned
    <3> QED BY <3>4, <3>5, <3>6, <3>7 DEF LaunchInv
  <2>6. CASE ~Stmt(c).answers
    <3>1. GoOn(c) /\ UNCHANGED <<holder, mutex, answers>>
        BY <1>7, <2>6 DEF DoInsertNew, k
    <3>2. call' = [call EXCEPT ![c] = Went(c, call[c].at + 1, call[c].failed)]
        BY <1>1, <3>1, Advances
    <3>3. Placed(c, call[c].at + 1, call[c].failed)
        BY <1>1, <1>4, <3>2, NextPlace
    <3>4. PICK r \in Calls : r = Went(c, call[c].at + 1, call[c].failed)
        BY <3>3 DEF Placed
    <3>5. /\ CallsTyped'
          /\ \A d \in Clients \ {c} : call'[d] = call[d] /\ Script(d)' = Script(d)
        BY <1>1, <3>2, <3>3, <3>4, Moved DEF Placed
    <3>6. LaunchTyped'
        BY <1>1, <1>5, <2>2, <2>3, <3>1, <3>5 DEF LaunchInv, LaunchTyped, TypeOK, CallsTyped
    <3>7. RowsKeyed'
        <4>1. \A x \in Keys : answers'[x] \subseteq {instance'[x]}
            BY <2>2, <2>3, <2>4, <3>1
        <4> QED BY <2>2, <4>1 DEF RowsKeyed
    <3>8. HolderLaunches'
        BY <3>1, <3>3, <3>5 DEF LaunchInv, HolderLaunches, Launches, Placed
    <3>9. Earned(c)'
        BY <1>1, <1>2, <1>7, <2>2, <3>1, <3>3, SMTT(30)
           DEF Placed, Place, LookupPlace, LaunchPlace, Earned, Holds, Checked, Finds, k
    <3>10. \A d \in Clients \ {c} : Earned(d)'
        BY <1>1, <2>2, <3>1, <3>5, OthersEarned
    <3> QED BY <3>6, <3>7, <3>8, <3>9, <3>10 DEF LaunchInv
  <2> QED BY <2>5, <2>6
<1> QED BY <1>6, <1>7

\* INSERT the instance of a key that has one: nothing, an error that is
\* caught, or a wait for the row's lock.
LEMMA InsertDuplicateInv ==
    ASSUME LaunchInv, NEW c \in Clients, DoInsertDuplicate(c)
    PROVE  LaunchInv'
<1> USE RepositoryLaunchAssumption
<1> DEFINE k == call[c].key
<1>1. /\ call[c].op # "idle" /\ Stmt(c).do = "insertInstance" /\ instance[k] # None
      /\ UNCHANGED <<adapter, tables, mutex, answers, faults>>
    BY DEF DoInsertDuplicate, At
<1>2. Place(c)
    BY <1>1, Places
<1>3. k \in Keys /\ (Stmt(c).onDuplicate = "lock" => holder[k] \in {None, c})
    BY <1>1, <1>2 DEF Place, DoInsertDuplicate, InsertWaits
<1>4. call[c].at + 1 \in 1..Len(Script(c).does) /\ call[c].failed \in BOOLEAN
  <2>1. CASE c \in Lookups
    BY <1>1, <1>2, <2>1 DEF Place, LookupPlace
  <2>2. CASE c \in Launches
    <3>1. (call[c].at = 1 \/ call[c].at = 2) /\ Len(Script(c).does) = 4
        BY <1>1, <1>2, <2>2 DEF Place, LaunchPlace
    <3> QED BY <3>1, <1>2 DEF Place
  <2> QED BY <1>2, <2>1, <2>2 DEF Place
<1>5. /\ faults' \in 0..MaxFaults /\ instance' = instance /\ adapter' = adapter
      /\ holder \in [Keys -> Clients \cup {None}] /\ mutex' \in Clients \cup {None}
    BY <1>1 DEF LaunchInv, LaunchTyped, TypeOK, tables
<1> HIDE DEF k
<1>6. CASE /\ Stmt(c).onDuplicate \in {"nothing", "lock"}
           /\ GoOn(c)
           /\ holder' = IF Script(c).tx /\ Stmt(c).onDuplicate = "lock"
                        THEN [holder EXCEPT ![k] = c] ELSE holder
  <2>1. call' = [call EXCEPT ![c] = Went(c, call[c].at + 1, call[c].failed)]
    BY <1>1, <1>6, Advances
  <2>2. Placed(c, call[c].at + 1, call[c].failed)
    BY <1>1, <1>4, <2>1, NextPlace
  <2>3. PICK r \in Calls : r = Went(c, call[c].at + 1, call[c].failed)
    BY <2>2 DEF Placed
  <2>4. /\ call' = [call EXCEPT ![c] = r] /\ r.op = call[c].op /\ r.key = k
        /\ r.at \in 1..Len(Adapters[adapter][r.op].does)
    BY <2>1, <2>2, <2>3 DEF Placed, k
  <2>5. holder' \in [Keys -> Clients \cup {None}]
    BY <1>3, <1>5, <1>6
  <2>6. \A d \in Clients \ {c}, x \in Keys : holder'[x] = d <=> holder[x] = d
    BY <1>3, <1>5, <1>6
  <2>7. Script(c).tx = TRUE => c \in Launches
    BY <1>2 DEF Place, LookupPlace
  <2>8. \A x \in Keys : holder'[x] = c => c \in Launches /\ x = k /\ Script(c).tx = TRUE
    BY <1>2, <1>3, <1>5, <1>6, <2>7 DEF Place, LookupPlace, LaunchPlace, k
  <2>9. \A x \in Keys : holder'[x] = c => /\ r.op = "createExecutionAtomic" /\ r.key = x
                                          /\ Adapters[adapter][r.op].tx = TRUE
    BY <2>4, <2>8 DEF Launches, Script
  <2>10. Script(c).tx = TRUE /\ Stmt(c).onDuplicate = "lock" => holder'[k] = c
    BY <1>3, <1>5, <1>6
  <2>11. Earned(c)'
    <3>1. CASE c \in Lookups
        BY <3>1, <1>1, <1>2, <1>5, <2>2 DEF Placed, Place, LookupPlace, Earned, Finds, k
    <3>2. CASE c \in Launches
        BY <3>2, <1>1, <1>2, <1>5, <2>2, <2>10
           DEF Placed, Place, LaunchPlace, Earned, Holds, Checked, k
    <3> QED BY <3>1, <3>2, <1>2 DEF Place
  <2>12. \A d \in Clients \ {c} : mutex = d => mutex' = d
    BY <1>1
  <2> QED BY <1>1, <1>5, <2>4, <2>5, <2>6, <2>9, <2>11, <2>12, MoveInv
<1>7. CASE /\ Stmt(c).onDuplicate = "error"
           /\ call' = [call EXCEPT ![c].at = Len(Script(c).does)]
           /\ UNCHANGED holder
  <2>1. c \in Lookups /\ c \notin Launches
    BY <1>1, <1>2, <1>7 DEF Place, LaunchPlace
  <2>2. PICK n \in {3, 4} : n = Len(Script(c).does)
    BY <1>2 DEF Place
  <2>3. n \in 1..Len(Script(c).does)
    BY <2>2, SMTT(20)
  <2>4. call' = [call EXCEPT ![c] = Went(c, n, call[c].failed)]
    BY <1>1, <1>7, <2>2, Advances
  <2>5. Placed(c, n, call[c].failed)
    BY <1>1, <1>4, <2>3, <2>4, NextPlace
  <2>6. Earned(c)'
    BY <1>1, <1>5, <2>1, <2>5 DEF Placed, Earned, Finds, k
  <2> QED BY <1>1, <1>4, <1>5, <1>7, <2>3, <2>4, <2>6, WalkInv
<1> QED BY <1>6, <1>7 DEF DoInsertDuplicate, k

\* An insert that failed makes a lookup read what is there.
LEMMA GoesToLast ==
    ASSUME LaunchInv, NEW c \in Clients, c \in Lookups, GoToLast(c),
           UNCHANGED <<adapter, tables, holder, mutex, answers>>, faults' \in 0..MaxFaults
    PROVE  LaunchInv'
<1>1. call[c].op # "idle" /\ c \notin Launches
    BY DEF Lookups, Launches
<1>2. Place(c)
    BY <1>1, Places
<1>3. PICK n \in {3, 4} : n = Len(Script(c).does)
    BY <1>2 DEF Place
<1>4. n \in 1..Len(Script(c).does)
  <2>1. n \in 1..n
    <3>1. n = 3 \/ n = 4
        BY <1>3
    <3> QED BY ONLY <3>1
  <2> QED BY <2>1, <1>3
<1>5. call' = [call EXCEPT ![c] = Went(c, n, TRUE)]
    BY <1>1, <1>3, Advances
<1>6. Placed(c, n, TRUE)
    BY <1>1, <1>4, <1>5, NextPlace
<1>7. Earned(c)'
    BY <1>1, <1>6 DEF Placed, Earned, Finds
<1> QED BY <1>1, <1>4, <1>5, <1>7, WalkInv

\* SELECT the row again and answer it; without one, throw.
LEMMA ReadBackInv ==
    ASSUME LaunchInv, NEW c \in Clients, DoReadBack(c)
    PROVE  LaunchInv'
<1> DEFINE k == call[c].key
<1>1. call[c].op # "idle" /\ Stmt(c).do = "readBack" /\ UNCHANGED <<adapter, tables, faults>>
    BY DEF DoReadBack, At
<1>2. Place(c)
    BY <1>1, Places
<1>3. k \in Keys /\ c \in Lookups
    BY <1>1, <1>2 DEF Place, LaunchPlace
<1>4. /\ faults' \in 0..MaxFaults /\ answers \in [Keys -> SUBSET InstanceIds]
      /\ \A x \in Keys : answers[x] \subseteq {instance[x]}
    BY <1>1 DEF LaunchInv, LaunchTyped, TypeOK, RowsKeyed
<1>5. CASE instance[k] # None /\ Answer(c, k, instance[k])
    BY <1>1, <1>3, <1>4, <1>5, AnswerInv
<1>6. CASE UNCHANGED answers /\ Release(c)
    BY <1>1, <1>4, <1>6, ReleaseInv
<1>7. CASE UNCHANGED answers /\ GoToLast(c) /\ UNCHANGED <<holder, mutex>>
    BY <1>1, <1>3, <1>4, <1>7, GoesToLast
<1> QED BY <1>5, <1>6, <1>7 DEF DoReadBack

\* The connection is lost: the transaction rolls back.
LEMMA StatementFailsInv ==
    ASSUME LaunchInv, NEW c \in Clients, StatementFails(c)
    PROVE  LaunchInv'
<1> USE RepositoryLaunchAssumption
<1>1. call[c].op # "idle" /\ UNCHANGED <<adapter, tables, answers>>
    BY DEF StatementFails
<1>2. Place(c)
    BY <1>1, Places
<1>3. /\ answers' \in [Keys -> SUBSET InstanceIds]
      /\ \A x \in Keys : answers'[x] \subseteq {instance[x]}
    BY <1>1 DEF LaunchInv, LaunchTyped, TypeOK, RowsKeyed
<1>4. faults' \in 0..MaxFaults
    BY DEF StatementFails, LaunchInv, LaunchTyped, TypeOK
<1>5. CASE Caught(c) /\ GoToLast(c) /\ UNCHANGED <<holder, mutex>>
  <2>1. c \in Lookups
    BY <1>2, <1>5 DEF Place, LaunchPlace, Caught
  <2> QED BY <1>1, <1>4, <1>5, <2>1, GoesToLast
<1>6. CASE Release(c)
    BY <1>1, <1>3, <1>4, <1>6, ReleaseInv
<1> QED BY <1>5, <1>6 DEF StatementFails

\* SELECT the instance, FOR UPDATE SKIP LOCKED or, after an upsert that locked
\* it, plain; a launch that finds the row hidden gives up.
LEMMA LockInstanceInv ==
    ASSUME LaunchInv, NEW c \in Clients, DoLockInstance(c)
    PROVE  LaunchInv'
<1> USE RepositoryLaunchAssumption
<1> DEFINE k == call[c].key
           hidden == Stmt(c).skipLocked /\ holder[k] \notin {None, c}
<1>1. /\ call[c].op # "idle" /\ Stmt(c).do = "lockInstance"
      /\ UNCHANGED <<adapter, tables, answers, faults>>
    BY DEF DoLockInstance, At
<1>2. Place(c)
    BY <1>1, Places
<1>3. /\ k \in Keys /\ c \in Launches /\ c \notin Lookups /\ call[c].at = 2
      /\ Script(c).tx = TRUE /\ Len(Script(c).does) = 4
    BY <1>1, <1>2 DEF Place, LookupPlace, LaunchPlace
<1>4. /\ faults' \in 0..MaxFaults /\ answers' \in [Keys -> SUBSET InstanceIds]
      /\ \A x \in Keys : answers'[x] \subseteq {instance[x]}
      /\ holder \in [Keys -> Clients \cup {None}] /\ mutex \in Clients \cup {None}
    BY <1>1 DEF LaunchInv, LaunchTyped, TypeOK, RowsKeyed
<1>5. CASE Release(c)
    BY <1>1, <1>4, <1>5, ReleaseInv
<1>6. CASE /\ ~hidden
           /\ holder' = IF Stmt(c).skipLocked THEN [holder EXCEPT ![k] = c] ELSE holder
           /\ GoOn(c)
           /\ UNCHANGED mutex
  <2> HIDE DEF k
  <2>1. /\ holder' \in [Keys -> Clients \cup {None}] /\ holder'[k] = c
        /\ \A d \in Clients \ {c}, x \in Keys : holder'[x] = d <=> holder[x] = d
        /\ \A x \in Keys : holder'[x] = c => x = k
    <3>1. holder[k] = c \/ Stmt(c).skipLocked = TRUE
        BY <1>2, <1>3 DEF Place, Earned, Holds, k
    <3>2. \A x \in Keys : holder[x] = c => x = k
        BY <1>2 DEF Place, k
    <3>3. CASE Stmt(c).skipLocked
        BY <1>3, <1>4, <1>6, <3>2, <3>3
    <3>4. CASE ~Stmt(c).skipLocked
        BY <1>3, <1>4, <1>6, <3>1, <3>2, <3>4
    <3> QED BY <3>3, <3>4
  <2>2. call' = [call EXCEPT ![c] = Went(c, call[c].at + 1, call[c].failed)] /\ call[c].failed \in BOOLEAN
    BY <1>1, <1>2, <1>6, Advances DEF Place
  <2>3. call[c].at + 1 \in 1..Len(Script(c).does)
    BY <1>3
  <2>4. Placed(c, call[c].at + 1, call[c].failed)
    BY <1>1, <2>2, <2>3, NextPlace
  <2>5. PICK r \in Calls : r = Went(c, call[c].at + 1, call[c].failed)
    BY <2>4 DEF Placed
  <2>6. /\ call' = [call EXCEPT ![c] = r]
        /\ r.at \in 1..Len(Adapters[adapter][r.op].does)
        /\ \A x \in Keys : holder'[x] = c => /\ r.op = "createExecutionAtomic" /\ r.key = x
                                             /\ Adapters[adapter][r.op].tx = TRUE
    BY <1>3, <2>1, <2>2, <2>4, <2>5 DEF Placed, Launches, Script, k
  <2>7. Earned(c)'
    BY <1>3, <2>1, <2>4 DEF Placed, Earned, Holds, Checked, k
  <2>8. mutex' \in Clients \cup {None} /\ \A d \in Clients \ {c} : mutex = d => mutex' = d
    BY <1>4, <1>6
  <2>9. UNCHANGED <<adapter, tables, answers>> /\ faults' \in 0..MaxFaults
    BY <1>1, <1>4
  <2>10. /\ holder' \in [Keys -> Clients \cup {None}]
         /\ \A d \in Clients \ {c}, x \in Keys : holder'[x] = d <=> holder[x] = d
    BY <2>1
  <2> HIDE DEF hidden
  <2> QED BY <2>6, <2>7, <2>8, <2>9, <2>10, MoveInv
<1> QED BY <1>5, <1>6 DEF DoLockInstance

\* SELECT a running execution: found, the launch is refused.
LEMMA FindRunningInv ==
    ASSUME LaunchInv, NEW c \in Clients, DoFindRunning(c)
    PROVE  LaunchInv'
<1> USE RepositoryLaunchAssumption
<1> DEFINE k == call[c].key
           running == {e \in Execs : /\ jobInstanceId[e] = Seen(c, k)
                                     /\ status[e] \in {"STARTING", "STARTED"}}
<1>1. /\ call[c].op # "idle" /\ Stmt(c).do = "findRunning"
      /\ UNCHANGED <<adapter, tables, answers, faults>>
    BY DEF DoFindRunning, At
<1>2. Place(c)
    BY <1>1, Places
<1>3. /\ k \in Keys /\ c \in Launches /\ c \notin Lookups /\ call[c].at = 3
      /\ Len(Script(c).does) = 4 /\ call[c].failed \in BOOLEAN
    BY <1>1, <1>2 DEF Place, LookupPlace, LaunchPlace
<1>4. /\ faults' \in 0..MaxFaults /\ answers' \in [Keys -> SUBSET InstanceIds]
      /\ \A x \in Keys : answers'[x] \subseteq {instance[x]}
    BY <1>1 DEF LaunchInv, LaunchTyped, TypeOK, RowsKeyed
<1>5. CASE Release(c)
    BY <1>1, <1>4, <1>5, ReleaseInv
<1>6. CASE running = {} /\ GoOn(c) /\ UNCHANGED <<holder, mutex>>
  <2>1. call' = [call EXCEPT ![c] = Went(c, call[c].at + 1, call[c].failed)]
    BY <1>1, <1>6, Advances
  <2>2. call[c].at + 1 \in 1..Len(Script(c).does)
    BY <1>3
  <2>3. Placed(c, call[c].at + 1, call[c].failed)
    BY <1>1, <1>3, <2>1, <2>2, NextPlace
  <2>4. UNCHANGED <<instance, jobInstanceId, status, holder, mutex>>
    BY <1>1, <1>6 DEF tables
  <2>5. Checked(c)'
    <3>1. Seen(c, call[c].key)' = Seen(c, call[c].key)
        BY <2>3, <2>4 DEF Seen, Drawn, Placed
    <3>2. \A e \in Execs : jobInstanceId[e] = Seen(c, call[c].key) => status[e] \notin {"STARTING", "STARTED"}
        BY <1>6
    <3> QED BY <2>4, <3>1, <3>2 DEF Checked
  <2>6. Holds(c)'
    BY <1>2, <1>3, <2>3, <2>4 DEF Placed, Place, Earned, Holds
  <2>7. Earned(c)'
    BY <1>3, <2>3, <2>5, <2>6 DEF Placed, Earned
  <2> QED BY <1>1, <1>3, <1>4, <1>6, <2>1, <2>2, <2>7, WalkInv
<1> QED BY <1>5, <1>6 DEF DoFindRunning

\* INSERT the execution and commit.
LEMMA InsertExecutionInv ==
    ASSUME LaunchInv, NEW c \in Clients, NEW e \in Execs, DoInsertExecution(c, e)
    PROVE  LaunchInv'
<1> USE RepositoryLaunchAssumption
<1> DEFINE k == call[c].key
           id == Seen(c, k)
<1>1. /\ call[c].op # "idle" /\ Stmt(c).do = "insertExecution" /\ status[e] = "ABSENT"
      /\ UNCHANGED <<adapter, answers, faults>> /\ Release(c)
      /\ jobInstanceId' = [jobInstanceId EXCEPT ![e] = id]
      /\ status' = [status EXCEPT ![e] = "STARTING"]
      /\ instance' = [instance EXCEPT ![k] = id]
    BY DEF DoInsertExecution, At
<1>2. Place(c)
    BY <1>1, Places
<1>3. k \in Keys /\ c \in Launches /\ call[c].at = 4 /\ Holds(c) /\ Script(c).tx \in BOOLEAN
    BY <1>1, <1>2 DEF Place, LookupPlace, LaunchPlace, Earned
<1>4. holder[k] = c \/ (Script(c).tx = FALSE /\ mutex = c /\ instance[k] # None)
    BY <1>3 DEF Holds
<1>5. /\ instance \in [Keys -> InstanceIds \cup {None}] /\ status \in [Execs -> ExecutionStatuses]
      /\ jobInstanceId \in [Execs -> InstanceIds \cup {None}]
      /\ holder \in [Keys -> Clients \cup {None}]
      /\ answers \in [Keys -> SUBSET InstanceIds]
      /\ \A x \in Keys : answers[x] \subseteq {instance[x]}
      /\ \A x \in Keys : instance[x] # None => instance[x] \in {x} \X Clients
      /\ \A x \in Execs : jobInstanceId[x] # None => jobInstanceId[x] = instance[jobInstanceId[x][1]]
      /\ \A x \in Execs : status[x] = "ABSENT" <=> jobInstanceId[x] = None
    BY DEF LaunchInv, LaunchTyped, TypeOK, RowsKeyed
<1>6. id \in {k} \X Clients /\ id \in InstanceIds /\ id # None /\ id[1] = k
    BY <1>3, <1>4, <1>5 DEF Seen, Drawn, InstanceIds
<1>7. instance[k] = id \/ (instance[k] = None /\ holder[k] = c)
    BY <1>4 DEF Seen
<1> HIDE DEF k, id
<1>8. /\ instance' \in [Keys -> InstanceIds \cup {None}] /\ status' \in [Execs -> ExecutionStatuses]
      /\ jobInstanceId' \in [Execs -> InstanceIds \cup {None}]
    BY <1>1, <1>3, <1>5, <1>6 DEF ExecutionStatuses
<1>9. \A x \in Execs : status'[x] = "ABSENT" <=> jobInstanceId'[x] = None
    BY <1>1, <1>5, <1>6
<1>10. /\ CallsTyped'
       /\ holder' \in [Keys -> Clients \cup {None}] /\ mutex' \in Clients \cup {None}
       /\ HolderLaunches' /\ Earned(c)'
    BY <1>1, Released
<1>11. LaunchTyped'
    BY <1>1, <1>8, <1>9, <1>10 DEF LaunchInv, LaunchTyped, TypeOK, CallsTyped
<1>12. /\ \A x \in Keys : \/ instance'[x] = instance[x]
                          \/ instance[x] = None /\ holder[x] \in {None, c} /\ instance'[x] # None
       /\ instance'[k] = id
    BY <1>1, <1>3, <1>5, <1>6, <1>7
<1>13. \A x \in Keys : instance'[x] # None => instance'[x] \in {x} \X Clients
    BY <1>1, <1>3, <1>5, <1>6
<1>14. RowsKeyed'
  <2>1. \A x \in Keys : answers'[x] \subseteq {instance'[x]}
    <3> SUFFICES ASSUME NEW x \in Keys PROVE answers[x] \subseteq {instance'[x]}
        BY <1>1
    <3>1. CASE instance'[x] = instance[x]
        BY <3>1, <1>5
    <3>2. CASE instance[x] = None
        <4>1. None \notin InstanceIds
            BY DEF InstanceIds
        <4>2. answers[x] \subseteq {None} /\ answers[x] \subseteq InstanceIds
            BY <3>2, <1>5
        <4> QED BY <4>1, <4>2
    <3> QED BY <3>1, <3>2, <1>12
  <2>2. ASSUME NEW x \in Execs, jobInstanceId'[x] # None
        PROVE  jobInstanceId'[x] = instance'[jobInstanceId'[x][1]]
    <3>1. CASE x = e
        BY <3>1, <1>1, <1>5, <1>6, <1>12
    <3>2. CASE x # e
        <4>1. jobInstanceId'[x] = jobInstanceId[x] /\ jobInstanceId[x] = instance[jobInstanceId[x][1]]
            BY <3>2, <2>2, <1>1, <1>5
        <4>2. jobInstanceId[x] \in Keys \X Clients
            BY <4>1, <2>2, <1>5 DEF InstanceIds
        <4>3. jobInstanceId[x][1] \in Keys /\ instance[jobInstanceId[x][1]] # None
            BY <4>1, <4>2, <2>2
        <4> QED BY <4>1, <4>3, <1>12
    <3> QED BY <3>1, <3>2
  <2> QED BY <2>1, <2>2, <1>13 DEF RowsKeyed
<1>15. \A d \in Launches \ {c} : ~(call[d].at = 4 /\ call[d].key = k)
  <2> SUFFICES ASSUME NEW d \in Launches \ {c}, call[d].at = 4, call[d].key = k PROVE FALSE
    OBVIOUS
  <2>1. d \in Clients /\ call[d].op = "createExecutionAtomic" /\ call[c].op = "createExecutionAtomic"
    BY <1>3 DEF Launches
  <2>2. Script(d) = Script(c)
    BY <2>1 DEF Script
  <2>3. Holds(d)
    BY <2>1 DEF LaunchInv, Earned
  <2>4. holder[k] = d \/ (Script(c).tx = FALSE /\ mutex = d)
    BY <2>2, <2>3, <1>3 DEF Holds, k
  <2>5. holder[k] = c => Script(c).tx = TRUE
    BY <1>3 DEF LaunchInv, HolderLaunches
  <2>6. holder[k] = d => Script(c).tx = TRUE
    BY <1>3, <2>1, <2>2 DEF LaunchInv, HolderLaunches
  <2> QED BY <1>4, <2>4, <2>5, <2>6 DEF k
<1>16. \A x \in Execs :
           \/ jobInstanceId'[x] = jobInstanceId[x] /\ status'[x] = status[x]
           \/ \E y \in Keys : /\ jobInstanceId'[x] \in {y} \X Clients
                              /\ \A d \in Launches \ {c} : ~(call[d].at = 4 /\ call[d].key = y)
    BY <1>1, <1>3, <1>5, <1>6, <1>15
<1>17. \A d \in Clients \ {c} : Earned(d)'
    BY <1>1, <1>12, <1>13, <1>16, Released, OthersEarned
<1> QED BY <1>10, <1>11, <1>14, <1>17 DEF LaunchInv

\* An executor or operator updates an execution: nothing starts running again.
LEMMA UpdateStatusInv ==
    ASSUME LaunchInv, NEW e \in Execs, NEW s \in {"STARTED", "STOPPED", "COMPLETED"}, UpdateStatus(e, s)
    PROVE  LaunchInv'
<1>1. /\ UNCHANGED <<adapter, instance, holder, mutex, jobInstanceId, call, answers, faults>>
      /\ status[e] \in {"STARTING", "STARTED"} /\ status' = [status EXCEPT ![e] = s]
    BY DEF UpdateStatus
<1>2. status' \in [Execs -> ExecutionStatuses] /\ \A x \in Execs : status'[x] = "ABSENT" <=> jobInstanceId[x] = None
    BY <1>1 DEF LaunchInv, LaunchTyped, ExecutionStatuses
<1>3. LaunchTyped' /\ RowsKeyed' /\ HolderLaunches'
    BY <1>1, <1>2 DEF LaunchInv, LaunchTyped, CallsTyped, TypeOK, RowsKeyed, HolderLaunches, Launches, Script
<1>4. \A x \in Execs : status'[x] \in {"STARTING", "STARTED"} => status[x] \in {"STARTING", "STARTED"}
    BY <1>1 DEF LaunchInv, LaunchTyped
<1>5. ASSUME NEW d \in Clients PROVE Earned(d)'
  <2>1. Earned(d)
    BY DEF LaunchInv
  <2>2. Script(d)' = Script(d) /\ Stmt(d)' = Stmt(d) /\ Seen(d, call[d].key)' = Seen(d, call[d].key)
    BY <1>1 DEF Script, Stmt, Seen, Drawn
  <2>3. Checked(d) => Checked(d)'
    BY <1>1, <1>4, <2>2 DEF Checked
  <2> QED BY <1>1, <2>1, <2>2, <2>3 DEF Earned, Launches, Lookups, Holds, Finds
<1> QED BY <1>3, <1>5 DEF LaunchInv

\* Every step keeps the invariant.
LEMMA LaunchNextInv == LaunchInv /\ [Next]_vars => LaunchInv'
<1> SUFFICES ASSUME LaunchInv, [Next]_vars PROVE LaunchInv'
    OBVIOUS
<1>1. ASSUME NEW c \in Clients, NEW op \in Methods, NEW k \in Keys, Call(c, op, k) PROVE LaunchInv'
    BY <1>1, CallInv
<1>2. ASSUME NEW c \in Clients, Statement(c) PROVE LaunchInv'
    BY <1>2, TakeMutexInv, FindInstanceInv, InsertNewInv, InsertDuplicateInv, ReadBackInv,
       LockInstanceInv, FindRunningInv, InsertExecutionInv DEF Statement
<1>3. ASSUME NEW c \in Clients, StatementFails(c) PROVE LaunchInv'
    BY <1>3, StatementFailsInv
<1>4. ASSUME NEW e \in Execs, NEW s \in {"STARTED", "STOPPED", "COMPLETED"}, UpdateStatus(e, s)
      PROVE  LaunchInv'
    BY <1>4, UpdateStatusInv
<1>5. CASE UNCHANGED vars
  <2>1. /\ adapter' = adapter /\ instance' = instance /\ holder' = holder /\ mutex' = mutex /\ status' = status
        /\ jobInstanceId' = jobInstanceId /\ call' = call /\ answers' = answers /\ faults' = faults
    BY <1>5 DEF vars
  <2>2. \A c \in Clients : Script(c)' = Script(c) /\ Stmt(c)' = Stmt(c) /\ Seen(c, call[c].key)' = Seen(c, call[c].key)
    BY <2>1 DEF Script, Stmt, Seen, Drawn
  <2>3. LaunchTyped'
    BY <2>1, <2>2 DEF LaunchInv, LaunchTyped, CallsTyped, TypeOK
  <2>4. RowsKeyed'
    BY <2>1 DEF LaunchInv, RowsKeyed
  <2>5. HolderLaunches'
    BY <2>1, <2>2 DEF LaunchInv, HolderLaunches, Launches
  <2>6. ASSUME NEW c \in Clients PROVE Earned(c)'
    <3>1. Earned(c)
        BY DEF LaunchInv
    <3>2. Checked(c) => Checked(c)'
        BY <2>1, <2>2 DEF Checked
    <3> QED BY <2>1, <2>2, <3>1, <3>2 DEF Earned, Launches, Lookups, Holds, Finds
  <2> QED BY <2>3, <2>4, <2>5, <2>6 DEF LaunchInv
<1> QED BY <1>1, <1>2, <1>3, <1>4, <1>5 DEF Next

(***************************************************************************)
(* The invariant holds of every adapter's launches.                        *)
(***************************************************************************)
THEOREM LaunchInductiveInvariant == Spec => []LaunchInv
BY LaunchInitInv, LaunchNextInv, PTL DEF Spec

(***************************************************************************)
(* All callers of getOrCreateJobInstance and createExecutionAtomic agree   *)
(* on the instance of a key: the insert races of the adapters end in one   *)
(* row, which everyone is answered and every execution refers to.          *)
(***************************************************************************)
THEOREM InstancesAgree == Spec => []InstanceAgreed
<1>1. LaunchInv => InstanceAgreed
  <2> SUFFICES ASSUME LaunchInv, NEW k \in Keys
               PROVE  /\ answers[k] \subseteq {instance[k]}
                      /\ \A e \in Execs : jobInstanceId[e] # None /\ jobInstanceId[e][1] = k
                                              => jobInstanceId[e] = instance[k]
                      /\ \A c \in Clients : At(c, "readBack") /\ call[c].key = k /\ ~call[c].failed
                                              => instance[k] # None
    BY DEF InstanceAgreed
  <2>1. ASSUME NEW c \in Clients, At(c, "readBack"), call[c].key = k, ~call[c].failed
        PROVE  instance[k] # None
    <3>1. call[c].op # "idle" /\ Stmt(c).do = "readBack"
        BY <2>1 DEF At
    <3>2. Place(c)
        BY <3>1, Places
    <3> QED BY <2>1, <3>1, <3>2 DEF Place, LaunchPlace, Earned, Finds
  <2> QED BY <2>1 DEF LaunchInv, RowsKeyed
<1> QED BY <1>1, LaunchInductiveInvariant, PTL

\* An adapter's last statement is the gate's one step: it excludes an
\* execution that is running.
LEMMA CommitIsCreate ==
    ASSUME LaunchInv, NEW c \in Clients, NEW e \in Execs, DoInsertExecution(c, e)
    PROVE  Gate!CreateExecution(call[c].key, e) /\ call[c].key \in Keys
<1> USE RepositoryLaunchAssumption
<1> DEFINE k == call[c].key
           id == Seen(c, k)
           rowKey == [x \in Execs |-> IF jobInstanceId[x] = None THEN None ELSE jobInstanceId[x][1]]
<1>1. /\ call[c].op # "idle" /\ Stmt(c).do = "insertExecution" /\ status[e] = "ABSENT"
      /\ jobInstanceId' = [jobInstanceId EXCEPT ![e] = id]
      /\ status' = [status EXCEPT ![e] = "STARTING"]
    BY DEF DoInsertExecution, At
<1>2. Place(c)
    BY <1>1, Places
<1>3. k \in Keys /\ c \in Launches /\ call[c].at = 4 /\ Holds(c) /\ Checked(c)
    BY <1>1, <1>2 DEF Place, LookupPlace, LaunchPlace, Earned
<1>4. holder[k] = c \/ instance[k] # None
    BY <1>3 DEF Holds
<1>5. /\ \A x \in Keys : instance[x] # None => instance[x] \in {x} \X Clients
      /\ \A x \in Execs : jobInstanceId[x] # None => jobInstanceId[x] = instance[jobInstanceId[x][1]]
      /\ jobInstanceId \in [Execs -> InstanceIds \cup {None}]
    BY DEF LaunchInv, LaunchTyped, TypeOK, RowsKeyed
<1>6. id \in {k} \X Clients /\ id # None /\ id[1] = k
    BY <1>3, <1>4, <1>5 DEF Seen, Drawn, InstanceIds
<1>7. ASSUME NEW x \in Execs, rowKey[x] = k, status[x] \in {"STARTING", "STARTED"} PROVE FALSE
  <2>1. jobInstanceId[x] # None /\ jobInstanceId[x][1] = k
    BY <1>3, <1>7
  <2>2. jobInstanceId[x] = instance[k] /\ instance[k] # None
    BY <2>1, <1>5
  <2>3. jobInstanceId[x] = id
    BY <2>2 DEF Seen
  <2> QED BY <2>3, <1>3, <1>7 DEF Checked
<1>8. rowKey' = [rowKey EXCEPT ![e] = k]
    BY <1>1, <1>5, <1>6
<1> QED BY <1>1, <1>3, <1>7, <1>8 DEF Gate!CreateExecution, Gate!Running, Gate!RunningStatus

(***************************************************************************)
(* Every adapter implements the launch gate: its statements, transactions, *)
(* row locks and mutex, interleaved and failing, are CreateExecution of    *)
(* LaunchGate or no step of it.                                            *)
(***************************************************************************)
THEOREM AdaptersImplementGate == Spec => ImplementsGate
<1> USE RepositoryLaunchAssumption
<1>1. Init => Gate!GateInit
    BY DEF Init, Gate!GateInit
<1>2. LaunchInv /\ [Next]_vars => [Gate!GateNext]_(Gate!gateVars)
  <2> SUFFICES ASSUME LaunchInv, [Next]_vars PROVE [Gate!GateNext]_(Gate!gateVars)
    OBVIOUS
  <2>1. ASSUME NEW c \in Clients, NEW e \in Execs, DoInsertExecution(c, e) PROVE Gate!GateNext
    BY <2>1, CommitIsCreate DEF Gate!GateNext
  <2>2. ASSUME NEW e \in Execs, NEW s \in {"STARTED", "STOPPED", "COMPLETED"}, UpdateStatus(e, s)
        PROVE  Gate!GateNext
    <3>1. Gate!UpdateJobExecution(e)
        BY <2>2 DEF UpdateStatus, Gate!UpdateJobExecution, Gate!WriteStarted, Gate!WriteTerminal,
                    Gate!WriteStopped, Gate!Finished
    <3> QED BY <3>1 DEF Gate!GateNext
  <2>3. CASE UNCHANGED <<jobInstanceId, status>>
    BY <2>3 DEF Gate!gateVars
  <2>4. ASSUME NEW c \in Clients, Statement(c) PROVE UNCHANGED <<jobInstanceId, status>> \/ Gate!GateNext
    BY <2>1, <2>4 DEF Statement, DoTakeMutex, DoFindInstance, DoInsertNew, DoInsertDuplicate, DoReadBack,
                      DoLockInstance, DoFindRunning, tables
  <2>5. ASSUME NEW c \in Clients, StatementFails(c) PROVE UNCHANGED <<jobInstanceId, status>>
    BY <2>5 DEF StatementFails, tables
  <2>6. ASSUME NEW c \in Clients, NEW op \in Methods, NEW k \in Keys, Call(c, op, k)
        PROVE  UNCHANGED <<jobInstanceId, status>>
    BY <2>6 DEF Call, tables
  <2>7. CASE UNCHANGED vars
    BY <2>3, <2>7 DEF vars
  <2> QED BY <2>2, <2>3, <2>4, <2>5, <2>6, <2>7 DEF Next
<1> QED BY <1>1, <1>2, LaunchInductiveInvariant, PTL DEF Spec, ImplementsGate, Gate!GateSpec

-----------------------------------------------------------------------------
\* What the proofs need to know of an adapter. A patch is one UPDATE, but for
\* three adapters.
UpdatesWhole(a, m) ==
    a \notin {"prisma", "postgresPrisma", "mikroOrm"} =>
        /\ m.updateJobExecution.does[1].do = "updateTogether"
        /\ m.updateStepExecution.does[1].do = "updateTogether"

\* created_at is fine, or in whole seconds of the process's clock.
StampsSteps(a, m) ==
    LET stmt == m.createStepExecution.does[1] IN
    /\ stmt.grain = "fine" \/ (stmt.grain = "second" /\ stmt.clock = "process" /\ a = "mysqlDrizzle")
    /\ stmt.clock \in {"database", "process"}

\* What SELECTs of step rows and executions are ordered by.
FindsSteps(a, m) ==
    /\ \/ m.findLatestStepExecution.does[1].order \in {"createdAt", "insertion"}
       \/ m.findLatestStepExecution.does[1].order = "ctid" /\ a = "mikroOrm"
    /\ m.findStepExecutions.does[1].order \in {"createdAt", "insertion"} \/ a = "mikroOrm"
    /\ m.findJobExecutions.does[1].order = "startTime" \/ a = "inMemory"

\* A context that was never saved reads as empty; a saved one has a version.
KeepsContexts(m) ==
    /\ m.getExecutionContext.does[1].absent = NoCheckpoint
    /\ m.saveExecutionContext.does[Len(m.saveExecutionContext.does)].firstVersion \in {0, 1}

\* What the rows' proofs need to know of an adapter.
Behaves(a, m) == UpdatesWhole(a, m) /\ StampsSteps(a, m) /\ FindsSteps(a, m) /\ KeepsContexts(m)

\* The scripts of Typeorm.
LEMMA TypeormBehaves ==
    /\ Behaves("typeorm", Typeorm!Methods)
    /\ Behaves("typeormSqlite", Typeorm!Methods)
<1> USE DEF NoCheckpoint, Typeorm!Autocommit, Typeorm!UpdateTogether, Typeorm!InsertStep,
        Typeorm!LatestBy, Typeorm!SelectAll, Typeorm!SelectStarted, Typeorm!SelectContext,
        Typeorm!SelectVersion, Typeorm!WriteContext, Typeorm!NoCheckpoint
<1>1. Behaves("typeorm", Typeorm!Methods)
  <2>1. UpdatesWhole("typeorm", Typeorm!Methods)
    BY DEF UpdatesWhole, Typeorm!Methods, Typeorm!UpdateJobExecution,
           Typeorm!UpdateStepExecution
  <2>2. StampsSteps("typeorm", Typeorm!Methods)
    BY DEF StampsSteps, Typeorm!Methods, Typeorm!CreateStepExecution
  <2>3. FindsSteps("typeorm", Typeorm!Methods)
    BY DEF FindsSteps, Typeorm!Methods, Typeorm!FindLatestStepExecution,
           Typeorm!FindStepExecutions, Typeorm!FindJobExecutions
  <2>4. KeepsContexts(Typeorm!Methods)
    BY DEF KeepsContexts, Typeorm!Methods, Typeorm!GetExecutionContext,
           Typeorm!SaveExecutionContext
  <2> QED BY <2>1, <2>2, <2>3, <2>4 DEF Behaves
<1>2. Behaves("typeormSqlite", Typeorm!Methods)
  <2>1. UpdatesWhole("typeormSqlite", Typeorm!Methods)
    BY DEF UpdatesWhole, Typeorm!Methods, Typeorm!UpdateJobExecution,
           Typeorm!UpdateStepExecution
  <2>2. StampsSteps("typeormSqlite", Typeorm!Methods)
    BY DEF StampsSteps, Typeorm!Methods, Typeorm!CreateStepExecution
  <2>3. FindsSteps("typeormSqlite", Typeorm!Methods)
    BY DEF FindsSteps, Typeorm!Methods, Typeorm!FindLatestStepExecution,
           Typeorm!FindStepExecutions, Typeorm!FindJobExecutions
  <2>4. KeepsContexts(Typeorm!Methods)
    BY DEF KeepsContexts, Typeorm!Methods, Typeorm!GetExecutionContext,
           Typeorm!SaveExecutionContext
  <2> QED BY <2>1, <2>2, <2>3, <2>4 DEF Behaves
<1> QED BY <1>1, <1>2

\* The scripts of Drizzle.
LEMMA DrizzleBehaves ==
    /\ Behaves("drizzle", Drizzle!Methods)
<1> USE DEF NoCheckpoint, Drizzle!Autocommit, Drizzle!UpdateTogether, Drizzle!InsertStep,
        Drizzle!LatestBy, Drizzle!SelectAll, Drizzle!SelectStarted, Drizzle!SelectContext,
        Drizzle!SelectVersion, Drizzle!WriteContext, Drizzle!NoCheckpoint
<1>1. Behaves("drizzle", Drizzle!Methods)
  <2>1. UpdatesWhole("drizzle", Drizzle!Methods)
    BY DEF UpdatesWhole, Drizzle!Methods, Drizzle!UpdateJobExecution,
           Drizzle!UpdateStepExecution
  <2>2. StampsSteps("drizzle", Drizzle!Methods)
    BY DEF StampsSteps, Drizzle!Methods, Drizzle!CreateStepExecution
  <2>3. FindsSteps("drizzle", Drizzle!Methods)
    BY DEF FindsSteps, Drizzle!Methods, Drizzle!FindLatestStepExecution,
           Drizzle!FindStepExecutions, Drizzle!FindJobExecutions
  <2>4. KeepsContexts(Drizzle!Methods)
    BY DEF KeepsContexts, Drizzle!Methods, Drizzle!GetExecutionContext,
           Drizzle!SaveExecutionContext
  <2> QED BY <2>1, <2>2, <2>3, <2>4 DEF Behaves
<1> QED BY <1>1

\* The scripts of Prisma.
LEMMA PrismaBehaves ==
    /\ Behaves("prisma", Prisma!Methods)
<1> USE DEF NoCheckpoint, Prisma!Autocommit, Prisma!UpdateTogether, Prisma!InsertStep,
        Prisma!LatestBy, Prisma!SelectAll, Prisma!SelectStarted, Prisma!SelectContext,
        Prisma!SelectVersion, Prisma!WriteContext, Prisma!NoCheckpoint
<1>1. Behaves("prisma", Prisma!Methods)
  <2>1. UpdatesWhole("prisma", Prisma!Methods)
    BY DEF UpdatesWhole, Prisma!Methods, Prisma!UpdateJobExecution, Prisma!UpdateStepExecution
  <2>2. StampsSteps("prisma", Prisma!Methods)
    BY DEF StampsSteps, Prisma!Methods, Prisma!CreateStepExecution
  <2>3. FindsSteps("prisma", Prisma!Methods)
    BY DEF FindsSteps, Prisma!Methods, Prisma!FindLatestStepExecution,
           Prisma!FindStepExecutions, Prisma!FindJobExecutions
  <2>4. KeepsContexts(Prisma!Methods)
    BY DEF KeepsContexts, Prisma!Methods, Prisma!GetExecutionContext,
           Prisma!SaveExecutionContext
  <2> QED BY <2>1, <2>2, <2>3, <2>4 DEF Behaves
<1> QED BY <1>1

\* The scripts of MikroOrm.
LEMMA MikroOrmBehaves ==
    /\ Behaves("mikroOrm", MikroOrm!Methods)
<1> USE DEF NoCheckpoint, MikroOrm!Autocommit, MikroOrm!UpdateTogether,
        MikroOrm!InsertStep, MikroOrm!LatestBy, MikroOrm!SelectAll,
        MikroOrm!SelectStarted, MikroOrm!SelectContext, MikroOrm!SelectVersion,
        MikroOrm!WriteContext, MikroOrm!NoCheckpoint
<1>1. Behaves("mikroOrm", MikroOrm!Methods)
  <2>1. UpdatesWhole("mikroOrm", MikroOrm!Methods)
    BY DEF UpdatesWhole, MikroOrm!Methods, MikroOrm!UpdateJobExecution,
           MikroOrm!UpdateStepExecution
  <2>2. StampsSteps("mikroOrm", MikroOrm!Methods)
    BY DEF StampsSteps, MikroOrm!Methods, MikroOrm!CreateStepExecution
  <2>3. FindsSteps("mikroOrm", MikroOrm!Methods)
    BY DEF FindsSteps, MikroOrm!Methods, MikroOrm!FindLatestStepExecution,
           MikroOrm!FindStepExecutions, MikroOrm!FindJobExecutions
  <2>4. KeepsContexts(MikroOrm!Methods)
    BY DEF KeepsContexts, MikroOrm!Methods, MikroOrm!GetExecutionContext,
           MikroOrm!SaveExecutionContext
  <2> QED BY <2>1, <2>2, <2>3, <2>4 DEF Behaves
<1> QED BY <1>1

\* The scripts of InMemory.
LEMMA InMemoryBehaves ==
    /\ Behaves("inMemory", InMemory!Methods)
<1> USE DEF NoCheckpoint, InMemory!Autocommit, InMemory!UpdateTogether,
        InMemory!InsertStep, InMemory!LatestBy, InMemory!SelectAll,
        InMemory!SelectStarted, InMemory!SelectContext, InMemory!SelectVersion,
        InMemory!WriteContext, InMemory!NoCheckpoint
<1>1. Behaves("inMemory", InMemory!Methods)
  <2>1. UpdatesWhole("inMemory", InMemory!Methods)
    BY DEF UpdatesWhole, InMemory!Methods, InMemory!UpdateJobExecution,
           InMemory!UpdateStepExecution
  <2>2. StampsSteps("inMemory", InMemory!Methods)
    BY DEF StampsSteps, InMemory!Methods, InMemory!CreateStepExecution
  <2>3. FindsSteps("inMemory", InMemory!Methods)
    BY DEF FindsSteps, InMemory!Methods, InMemory!FindLatestStepExecution,
           InMemory!FindStepExecutions, InMemory!FindJobExecutions
  <2>4. KeepsContexts(InMemory!Methods)
    BY DEF KeepsContexts, InMemory!Methods, InMemory!GetExecutionContext,
           InMemory!SaveExecutionContext
  <2> QED BY <2>1, <2>2, <2>3, <2>4 DEF Behaves
<1> QED BY <1>1

\* The scripts of Postgresql.
LEMMA PostgresqlBehaves ==
    /\ Behaves("postgresTypeorm", Postgresql!TypeormMethods)
    /\ Behaves("postgresDrizzle", Postgresql!DrizzleMethods)
    /\ Behaves("postgresPrisma", Postgresql!PrismaMethods)
<1> USE DEF NoCheckpoint, Postgresql!Autocommit, Postgresql!UpdateTogether,
        Postgresql!InsertStep, Postgresql!LatestBy, Postgresql!SelectAll,
        Postgresql!SelectStarted, Postgresql!SelectContext, Postgresql!SelectVersion,
        Postgresql!WriteContext, Postgresql!NoCheckpoint
<1>1. Behaves("postgresTypeorm", Postgresql!TypeormMethods)
  <2>1. UpdatesWhole("postgresTypeorm", Postgresql!TypeormMethods)
    BY DEF UpdatesWhole, Postgresql!TypeormMethods, Postgresql!TypeormUpdateJobExecution,
           Postgresql!TypeormUpdateStepExecution
  <2>2. StampsSteps("postgresTypeorm", Postgresql!TypeormMethods)
    BY DEF StampsSteps, Postgresql!TypeormMethods, Postgresql!TypeormCreateStepExecution
  <2>3. FindsSteps("postgresTypeorm", Postgresql!TypeormMethods)
    BY DEF FindsSteps, Postgresql!TypeormMethods, Postgresql!TypeormFindLatestStepExecution,
           Postgresql!TypeormFindStepExecutions, Postgresql!TypeormFindJobExecutions
  <2>4. KeepsContexts(Postgresql!TypeormMethods)
    BY DEF KeepsContexts, Postgresql!TypeormMethods, Postgresql!TypeormGetExecutionContext,
           Postgresql!TypeormSaveExecutionContext
  <2> QED BY <2>1, <2>2, <2>3, <2>4 DEF Behaves
<1>2. Behaves("postgresDrizzle", Postgresql!DrizzleMethods)
  <2>1. UpdatesWhole("postgresDrizzle", Postgresql!DrizzleMethods)
    BY DEF UpdatesWhole, Postgresql!DrizzleMethods, Postgresql!DrizzleUpdateJobExecution,
           Postgresql!DrizzleUpdateStepExecution
  <2>2. StampsSteps("postgresDrizzle", Postgresql!DrizzleMethods)
    BY DEF StampsSteps, Postgresql!DrizzleMethods, Postgresql!DrizzleCreateStepExecution
  <2>3. FindsSteps("postgresDrizzle", Postgresql!DrizzleMethods)
    BY DEF FindsSteps, Postgresql!DrizzleMethods, Postgresql!DrizzleFindLatestStepExecution,
           Postgresql!DrizzleFindStepExecutions, Postgresql!DrizzleFindJobExecutions
  <2>4. KeepsContexts(Postgresql!DrizzleMethods)
    BY DEF KeepsContexts, Postgresql!DrizzleMethods, Postgresql!DrizzleGetExecutionContext,
           Postgresql!DrizzleSaveExecutionContext
  <2> QED BY <2>1, <2>2, <2>3, <2>4 DEF Behaves
<1>3. Behaves("postgresPrisma", Postgresql!PrismaMethods)
  <2>1. UpdatesWhole("postgresPrisma", Postgresql!PrismaMethods)
    BY DEF UpdatesWhole, Postgresql!PrismaMethods, Postgresql!PrismaUpdateJobExecution,
           Postgresql!PrismaUpdateStepExecution
  <2>2. StampsSteps("postgresPrisma", Postgresql!PrismaMethods)
    BY DEF StampsSteps, Postgresql!PrismaMethods, Postgresql!PrismaCreateStepExecution
  <2>3. FindsSteps("postgresPrisma", Postgresql!PrismaMethods)
    BY DEF FindsSteps, Postgresql!PrismaMethods, Postgresql!PrismaFindLatestStepExecution,
           Postgresql!PrismaFindStepExecutions, Postgresql!PrismaFindJobExecutions
  <2>4. KeepsContexts(Postgresql!PrismaMethods)
    BY DEF KeepsContexts, Postgresql!PrismaMethods, Postgresql!PrismaGetExecutionContext,
           Postgresql!PrismaSaveExecutionContext
  <2> QED BY <2>1, <2>2, <2>3, <2>4 DEF Behaves
<1> QED BY <1>1, <1>2, <1>3

\* The scripts of Mysql.
LEMMA MysqlBehaves ==
    /\ Behaves("mysqlTypeorm", Mysql!TypeormMethods)
    /\ Behaves("mysqlDrizzle", Mysql!DrizzleMethods)
    /\ Behaves("mysqlPrisma", Mysql!PrismaMethods)
<1> USE DEF NoCheckpoint, Mysql!Autocommit, Mysql!UpdateTogether, Mysql!InsertStep,
        Mysql!LatestBy, Mysql!SelectAll, Mysql!SelectStarted, Mysql!SelectContext,
        Mysql!SelectVersion, Mysql!WriteContext, Mysql!NoCheckpoint
<1>1. Behaves("mysqlTypeorm", Mysql!TypeormMethods)
  <2>1. UpdatesWhole("mysqlTypeorm", Mysql!TypeormMethods)
    BY DEF UpdatesWhole, Mysql!TypeormMethods, Mysql!TypeormUpdateJobExecution,
           Mysql!TypeormUpdateStepExecution
  <2>2. StampsSteps("mysqlTypeorm", Mysql!TypeormMethods)
    BY DEF StampsSteps, Mysql!TypeormMethods, Mysql!TypeormCreateStepExecution
  <2>3. FindsSteps("mysqlTypeorm", Mysql!TypeormMethods)
    BY DEF FindsSteps, Mysql!TypeormMethods, Mysql!TypeormFindLatestStepExecution,
           Mysql!TypeormFindStepExecutions, Mysql!TypeormFindJobExecutions
  <2>4. KeepsContexts(Mysql!TypeormMethods)
    BY DEF KeepsContexts, Mysql!TypeormMethods, Mysql!TypeormGetExecutionContext,
           Mysql!TypeormSaveExecutionContext
  <2> QED BY <2>1, <2>2, <2>3, <2>4 DEF Behaves
<1>2. Behaves("mysqlDrizzle", Mysql!DrizzleMethods)
  <2>1. UpdatesWhole("mysqlDrizzle", Mysql!DrizzleMethods)
    BY DEF UpdatesWhole, Mysql!DrizzleMethods, Mysql!DrizzleUpdateJobExecution,
           Mysql!DrizzleUpdateStepExecution
  <2>2. StampsSteps("mysqlDrizzle", Mysql!DrizzleMethods)
    BY DEF StampsSteps, Mysql!DrizzleMethods, Mysql!DrizzleCreateStepExecution
  <2>3. FindsSteps("mysqlDrizzle", Mysql!DrizzleMethods)
    BY DEF FindsSteps, Mysql!DrizzleMethods, Mysql!DrizzleFindLatestStepExecution,
           Mysql!DrizzleFindStepExecutions, Mysql!DrizzleFindJobExecutions
  <2>4. KeepsContexts(Mysql!DrizzleMethods)
    BY DEF KeepsContexts, Mysql!DrizzleMethods, Mysql!DrizzleGetExecutionContext,
           Mysql!DrizzleSaveExecutionContext
  <2> QED BY <2>1, <2>2, <2>3, <2>4 DEF Behaves
<1>3. Behaves("mysqlPrisma", Mysql!PrismaMethods)
  <2>1. UpdatesWhole("mysqlPrisma", Mysql!PrismaMethods)
    BY DEF UpdatesWhole, Mysql!PrismaMethods, Mysql!PrismaUpdateJobExecution,
           Mysql!PrismaUpdateStepExecution
  <2>2. StampsSteps("mysqlPrisma", Mysql!PrismaMethods)
    BY DEF StampsSteps, Mysql!PrismaMethods, Mysql!PrismaCreateStepExecution
  <2>3. FindsSteps("mysqlPrisma", Mysql!PrismaMethods)
    BY DEF FindsSteps, Mysql!PrismaMethods, Mysql!PrismaFindLatestStepExecution,
           Mysql!PrismaFindStepExecutions, Mysql!PrismaFindJobExecutions
  <2>4. KeepsContexts(Mysql!PrismaMethods)
    BY DEF KeepsContexts, Mysql!PrismaMethods, Mysql!PrismaGetExecutionContext,
           Mysql!PrismaSaveExecutionContext
  <2> QED BY <2>1, <2>2, <2>3, <2>4 DEF Behaves
<1> QED BY <1>1, <1>2, <1>3

\* All of it holds of all the adapters.
LEMMA EveryAdapterBehaves == \A a \in DOMAIN Adapters : Behaves(a, Adapters[a])
<1>1. Behaves("typeormSqlite", Adapters["typeormSqlite"])
  <2> DEFINE m == Adapters["typeormSqlite"]
             t == Typeorm!Methods
  <2>1. /\ m.updateJobExecution = t.updateJobExecution
        /\ m.updateStepExecution = t.updateStepExecution
        /\ m.createStepExecution = t.createStepExecution
        /\ m.findLatestStepExecution = t.findLatestStepExecution
        /\ m.findStepExecutions = t.findStepExecutions
        /\ m.findJobExecutions = t.findJobExecutions
        /\ m.getExecutionContext = t.getExecutionContext
        /\ m.saveExecutionContext = t.saveExecutionContext
    BY DEF Adapters, Typeorm!Methods
  <2>2. Behaves("typeormSqlite", t)
    BY TypeormBehaves
  <2> QED BY <2>1, <2>2 DEF Behaves, UpdatesWhole, StampsSteps, FindsSteps, KeepsContexts
<1>2. DOMAIN Adapters = {"typeorm", "typeormSqlite", "postgresTypeorm", "mysqlTypeorm", "drizzle",
        "postgresDrizzle", "mysqlDrizzle", "prisma", "postgresPrisma", "mysqlPrisma", "mikroOrm", "inMemory"}
    BY DEF Adapters
<1>3. Behaves("typeorm", Adapters["typeorm"])
    BY TypeormBehaves DEF Adapters
<1>4. Behaves("drizzle", Adapters["drizzle"])
    BY DrizzleBehaves DEF Adapters
<1>5. Behaves("prisma", Adapters["prisma"])
    BY PrismaBehaves DEF Adapters
<1>6. Behaves("mikroOrm", Adapters["mikroOrm"])
    BY MikroOrmBehaves DEF Adapters
<1>7. Behaves("inMemory", Adapters["inMemory"])
    BY InMemoryBehaves DEF Adapters
<1>8. Behaves("postgresTypeorm", Adapters["postgresTypeorm"])
    BY PostgresqlBehaves DEF Adapters
<1>9. Behaves("postgresDrizzle", Adapters["postgresDrizzle"])
    BY PostgresqlBehaves DEF Adapters
<1>10. Behaves("postgresPrisma", Adapters["postgresPrisma"])
    BY PostgresqlBehaves DEF Adapters
<1>11. Behaves("mysqlTypeorm", Adapters["mysqlTypeorm"])
    BY MysqlBehaves DEF Adapters
<1>12. Behaves("mysqlDrizzle", Adapters["mysqlDrizzle"])
    BY MysqlBehaves DEF Adapters
<1>13. Behaves("mysqlPrisma", Adapters["mysqlPrisma"])
    BY MysqlBehaves DEF Adapters
<1> QED BY <1>1, <1>2, <1>3, <1>4, <1>5, <1>6, <1>7, <1>8, <1>9, <1>10, <1>11, <1>12, <1>13

\* Times at least a resolution apart are stored as different ones.
LEMMA DivideGrows ==
    ASSUME NEW S \in Nat \ {0}, NEW x \in Nat, NEW y \in Nat, x + S <= y
    PROVE  x \div S < y \div S /\ x \div S \in Nat /\ y \div S \in Nat
<1>1. PICK q \in Nat : q = x \div S /\ S * q <= x /\ x < S * q + S
    BY SMTT(30)
<1>2. PICK p \in Nat : p = y \div S /\ S * p <= y /\ y < S * p + S
    BY SMTT(30)
<1>3. S * q + S < S * p + S
    BY <1>1, <1>2, SMTT(30)
<1>4. ~(p <= q)
  <2> SUFFICES ASSUME p <= q PROVE FALSE
    OBVIOUS
  <2>1. S * p <= S * q
    BY SMTT(30)
  <2> QED BY <2>1, <1>3, SMTT(30)
<1> QED BY <1>1, <1>2, <1>4

-----------------------------------------------------------------------------
(***************************************************************************)
(* Hypothesis on clocks and times: two step rows, or two starts of         *)
(* executions of one instance, are further apart than the clocks of two    *)
(* processes disagree and created_at is coarse. The source relies on it    *)
(* where it orders by a process's time.                                    *)
(***************************************************************************)
ClocksAgree == \A s, t \in Skews : s + Second <= t + Gap

\* Hypothesis on PostgreSQL: MikroORM's order by ctid is the order of writing
\* only while no place in the table is used again.
SlotsGrow == "mikroOrm" \notin InUse \/ ~SlotReuse

\* The adapters whose update is one statement.
OneUpdate == {"typeorm", "typeormSqlite", "postgresTypeorm", "mysqlTypeorm", "drizzle", "postgresDrizzle",
              "mysqlDrizzle", "mysqlPrisma", "inMemory"}

\* The row holds all of one patch.
Whole(r) == \E p \in AllPatches : \A c \in DOMAIN p : r[c] = p[c]

\* The two methods that update a row.
UpdateMethods == {"updateJobExecution", "updateStepExecution"}

\* The writers' types.
WriterTyped ==
    /\ repository \in InUse
    /\ method \in UpdateMethods
    /\ DOMAIN writer = Writers
    /\ \A w \in Writers : DOMAIN writer[w] = {"todo", "at", "column", "loaded"}

\* The inductive part: what is still to be written are whole patches.
WritersInv ==
    repository \in OneUpdate =>
        /\ \A w \in Writers : writer[w].todo \in Seq(AllPatches) /\ writer[w].at = 1
        /\ row["status"] = "STARTING" \/ Whole(row)

\* Patches are of the row's columns.
LEMMA PatchesKnown ==
    ASSUME method \in UpdateMethods
    PROVE  /\ \A w \in Writers : \A q \in Patches(w) : q \in Seq(AllPatches)
           /\ \A p \in AllPatches : DOMAIN p \subseteq Columns
<1>1. \A w \in Writers : \A q \in Patches(w) : \A i \in DOMAIN q : q[i] \in AllPatches
    BY DEF AllPatches
<1>2. \A w \in Writers : \A q \in Patches(w) : q = <<>> \/ (\E a : q = <<a>>) \/ (\E a, b : q = <<a, b>>)
    BY DEF Patches, JobPatches, StepPatches, Writers, UpdateMethods
<1>3. ASSUME NEW w \in Writers, NEW q \in Patches(w) PROVE q \in Seq(AllPatches)
  <2>1. CASE q = <<>>
    BY <2>1
  <2>2. ASSUME NEW a, q = <<a>> PROVE q \in Seq(AllPatches)
    <3>1. q[1] \in AllPatches /\ q[1] = a
        BY <1>1, <2>2
    <3> QED BY <2>2, <3>1
  <2>3. ASSUME NEW a, NEW b, q = <<a, b>> PROVE q \in Seq(AllPatches)
    <3>1. q[1] \in AllPatches /\ q[2] \in AllPatches /\ q[1] = a /\ q[2] = b
        BY <1>1, <2>3
    <3> QED BY <2>3, <3>1
  <2> QED BY <1>2, <2>1, <2>2, <2>3
<1>4. Columns = {"status", "startTime", "endTime", "writeCount", "exitCode", "exitMessage"}
    BY DEF Columns, ColumnOrder
<1>5. ASSUME NEW w \in Writers, NEW q \in Patches(w), NEW i \in DOMAIN q PROVE DOMAIN q[i] \subseteq Columns
    BY <1>4 DEF Patches, JobPatches, StepPatches, Writers, UpdateMethods, StartPatch, CompletePatch, FailPatch,
                StopPatch, StepPatch
<1>6. \A p \in AllPatches : \E w \in Writers : \E q \in Patches(w) : \E i \in DOMAIN q : p = q[i]
    BY DEF AllPatches
<1> QED BY <1>3, <1>5, <1>6

\* At first nothing is written.
LEMMA WritersInit == RowsInit => WriterTyped /\ WritersInv
<1> SUFFICES ASSUME RowsInit PROVE WriterTyped /\ WritersInv
    OBVIOUS
<1>1. method \in UpdateMethods /\ row["status"] = "STARTING" /\ repository \in InUse
    BY DEF RowsInit, UpdateMethods, Columns, ColumnOrder
<1>2. PICK p : /\ \A w \in Writers : p[w] \in IF workload = "updates" THEN Patches(w) ELSE {<<>>}
               /\ writer = [w \in Writers |-> [todo |-> p[w], at |-> 1, column |-> 1, loaded |-> row]]
    BY DEF RowsInit
<1>3. ASSUME NEW w \in Writers PROVE p[w] \in Seq(AllPatches)
  <2>1. CASE workload = "updates"
    <3>1. p[w] \in Patches(w)
        BY <1>2, <2>1
    <3>2. \A q \in Patches(w) : q \in Seq(AllPatches)
        BY <1>1, PatchesKnown
    <3> QED BY <3>1, <3>2
  <2>2. CASE workload # "updates"
    <3>1. p[w] = <<>>
        BY <1>2, <2>2
    <3> QED BY <3>1
  <2> QED BY <2>1, <2>2
<1>4. WriterTyped
    BY <1>1, <1>2 DEF WriterTyped
<1>5. WritersInv
    BY <1>1, <1>2, <1>3 DEF WritersInv
<1> QED BY <1>4, <1>5

\* A writer of such an adapter is at an UPDATE of all the columns.
LEMMA UpdatesTogether ==
    ASSUME WriterTyped, WritersInv, repository \in OneUpdate, NEW w \in Writers
    PROVE  UpdateStmt(w).do = "updateTogether"
<1>1. Behaves(repository, Adapters[repository])
    BY EveryAdapterBehaves, RepositoryRowsAssumption DEF WriterTyped
<1>2. UpdatesWhole(repository, Adapters[repository]) /\ repository \notin {"prisma", "postgresPrisma", "mikroOrm"}
    BY <1>1 DEF Behaves, OneUpdate
<1>3. Does(method)[1].do = "updateTogether"
    BY <1>2 DEF WriterTyped, UpdateMethods, UpdatesWhole, Does
<1> QED BY <1>3 DEF UpdateStmt, WritersInv

\* One writer's statement, or its death.
LEMMA WritersStep ==
    ASSUME WriterTyped, WritersInv, NEW w \in Writers,
           \/ DoUpdateTogether(w) \/ DoUpdateColumn(w) \/ DoReadRow(w) \/ DoFlushRow(w) \/ WriterDies(w)
    PROVE  WriterTyped' /\ WritersInv'
<1>1. UNCHANGED <<repository, method>>
    BY DEF DoUpdateTogether, DoUpdateColumn, DoReadRow, DoFlushRow, WriterDies
<1>2. WriterTyped'
  <2>1. DOMAIN writer' = DOMAIN writer /\ \A x \in Writers : DOMAIN writer'[x] = DOMAIN writer[x]
    BY DEF WriterTyped, DoUpdateTogether, DoUpdateColumn, DoReadRow, DoFlushRow, WriterDies, NextPatch
  <2> QED BY <1>1, <2>1 DEF WriterTyped
<1>3. AllPatches' = AllPatches
    BY <1>1 DEF AllPatches, Patches
<1>4. ASSUME repository \in OneUpdate
      PROVE  /\ \A x \in Writers : writer'[x].todo \in Seq(AllPatches) /\ writer'[x].at = 1
             /\ row'["status"] = "STARTING" \/ Whole(row)'
  <2>1. UpdateStmt(w).do = "updateTogether"
    BY <1>4, UpdatesTogether
  <2>2. /\ \A x \in Writers : writer[x].todo \in Seq(AllPatches) /\ writer[x].at = 1
        /\ row["status"] = "STARTING" \/ Whole(row)
    BY <1>4 DEF WritersInv
  <2>3. CASE DoUpdateTogether(w)
    <3>1. Busy(w) /\ row' = Patched(Columns, Patch(w), row) /\ NextPatch(w)
        BY <2>3 DEF DoUpdateTogether
    <3>2. Patch(w) \in AllPatches /\ Tail(writer[w].todo) \in Seq(AllPatches)
        BY <2>2, <3>1 DEF Busy, Patch
    <3>3. DOMAIN Patch(w) \subseteq Columns
        BY <3>2, PatchesKnown DEF WriterTyped
    <3>4. \A c \in DOMAIN Patch(w) : row'[c] = Patch(w)[c]
        BY <3>1, <3>3 DEF Patched
    <3>5. Whole(row)'
        BY <1>3, <3>2, <3>4 DEF Whole
    <3>6. writer'[w].todo = Tail(writer[w].todo) /\ writer'[w].at = 1
      <4>1. w \in DOMAIN writer /\ DOMAIN writer[w] = {"todo", "at", "column", "loaded"}
        BY DEF WriterTyped
      <4>2. writer'[w] = [writer[w] EXCEPT !.todo = Tail(writer[w].todo), !.at = 1, !.column = 1]
        BY <3>1, <4>1 DEF NextPatch
      <4> QED BY <4>1, <4>2
    <3>7. \A x \in Writers \ {w} : writer'[x] = writer[x]
        BY <3>1 DEF NextPatch, WriterTyped
    <3> QED BY <2>2, <3>2, <3>5, <3>6, <3>7
  <2>4. CASE WriterDies(w)
    BY <1>3, <2>2, <2>4 DEF WriterDies, WriterTyped, Whole
  <2> QED BY <2>1, <2>3, <2>4 DEF DoUpdateColumn, DoReadRow, DoFlushRow
<1> QED BY <1>1, <1>2, <1>3, <1>4 DEF WritersInv

\* The restarts leave the updated row alone.
LEMMA RestartsOnly ==
    ASSUME LocatePrior \/ DoCreateStep \/ DoCopyContext \/ DoSaveCheckpoint \/ DoFailStep
           \/ RunDies
    PROVE  UNCHANGED <<repository, workload, updatesVars>>
BY DEF LocatePrior, DoCreateStep, DoCopyContext, DoSaveCheckpoint, DoFailStep, RunDies

\* What an executor does to the execution it has entered.
ExecutorStep(x, e) ==
    \/ BeginStep(x, e) \/ SaveStep(x, e) \/ EndStep(x, e)
    \/ \E said \in {"COMPLETED", "FAILED"} : EndWrite(x, e, said)
    \/ ExecutorDies(x, e)

\* And so does all that the explorer's workload does.
LEMMA ReadsOnly ==
    ASSUME \/ LaunchExecution
           \/ \E e \in Executions :
                  \/ EnterWrite(e) \/ StopWrite(e) \/ ReadDetails(e)
                  \/ \E x \in Executors(e) : ExecutorStep(x, e)
           \/ ListJobExecutions \/ ReadSteps \/ ReadContexts
    PROVE  UNCHANGED idleVars
BY DEF LaunchExecution, EnterWrite, StopWrite, ReadDetails, ExecutorStep, BeginStep, SaveStep, EndStep, EndWrite,
       ExecutorDies, ListJobExecutions, ReadSteps, ReadContexts

\* Every step keeps it.
LEMMA WritersNext == WriterTyped /\ WritersInv /\ [ReadsNext]_allVars => (WriterTyped /\ WritersInv)'
<1> SUFFICES ASSUME WriterTyped, WritersInv, [ReadsNext]_allVars PROVE (WriterTyped /\ WritersInv)'
    OBVIOUS
<1>1. CASE UNCHANGED <<repository, updatesVars>>
  <2>1. UNCHANGED <<repository, method, row, writer>>
    BY <1>1 DEF updatesVars
  <2>2. AllPatches' = AllPatches
    BY <2>1 DEF AllPatches, Patches
  <2>3. WriterTyped'
    BY <2>1 DEF WriterTyped
  <2>4. Whole(row)' = Whole(row)
    BY <2>1, <2>2 DEF Whole
  <2>5. WritersInv'
    BY <2>1, <2>2, <2>4 DEF WritersInv
  <2> QED BY <2>3, <2>5
<1>2. CASE LocatePrior \/ DoCreateStep \/ DoCopyContext \/ DoSaveCheckpoint \/ DoFailStep \/ RunDies
    BY <1>1, <1>2, RestartsOnly
<1>3. CASE UNCHANGED idleVars
    BY <1>1, <1>3 DEF idleVars
<1>4. CASE UNCHANGED allVars
    BY <1>1, <1>4 DEF allVars, rowsVars
<1> QED BY <1>2, <1>3, <1>4, WritersStep, ReadsOnly DEF ReadsNext, RowsNext, ExecutorStep

(***************************************************************************)
(* A row that says how the job ended was written by one update, however    *)
(* executor, redelivered message and operator interleave and wherever they *)
(* die.                                                                    *)
(***************************************************************************)
THEOREM RowsAreWhole == ReadsSpec => []NoTornRow
<1>1. ReadsInit => WriterTyped /\ WritersInv
    BY WritersInit DEF ReadsInit
<1>2. WriterTyped /\ WritersInv => NoTornRow
    BY RepositoryRowsAssumption, EveryAdapterBehaves DEF WriterTyped, WritersInv, NoTornRow, OneUpdate, Whole, Adapters
<1> QED BY <1>1, <1>2, WritersNext, PTL DEF ReadsSpec

-----------------------------------------------------------------------------
\* The types of the restart workload.
StepRows == [created : Nat, slot : Nat, failed : BOOLEAN, checkpoint : Nat, version : Nat \cup {NoContext}]
Phases == {"idle", "located", "created", "working"}
Runs == [job : {"STARTING", "STARTED", "FAILED"}, at : Phases, restart : BOOLEAN, prior : BOOLEAN,
         resume : Nat, done : Nat]

\* The types; a workload has only its own rows.
RestartTyped ==
    /\ repository \in InUse
    /\ steps \in Seq(StepRows)
    /\ run \in Runs
    /\ committed \in Nat
    /\ now \in Nat
    /\ workload # "restarts" => steps = <<>> /\ run.at = "idle"
    /\ workload # "reads" => Executions = {}

\* The newest step row was created before any that is still to come, and after
\* all the others, and PostgreSQL put it behind them.
NewestIsLatest ==
    \A i \in Rows :
        /\ \A s \in Skews : steps[i].created < Stamp(s)
        /\ i < Newest => /\ steps[i].created < steps[Newest].created
                         /\ ~SlotReuse => steps[i].slot < steps[Newest].slot

\* What getExecutionContext reads of a row.
SavedIn(i) == IF steps[i].version = NoContext THEN NoCheckpoint ELSE steps[i].checkpoint

\* Until the next run has a row, a FAILED newest row holds all that its run had
\* committed; then the run carries it, and its row is not FAILED.
RunInv ==
    /\ run.at \in {"idle", "located"} /\ steps # <<>> =>
        (steps[Newest].failed = TRUE => SavedIn(Newest) = committed)
    /\ run.at = "located" =>
        /\ ~run.prior => run.resume = 0
        /\ run.restart => run.resume = IF steps # <<>> /\ steps[Newest].failed THEN committed ELSE 0
    /\ run.at = "created" => run.resume = committed /\ steps # <<>> /\ steps[Newest].version = NoContext
    /\ run.at = "created" /\ ~run.prior => committed = 0
    /\ run.at = "working" => steps # <<>> /\ run.done = committed /\ SavedIn(Newest) = committed
    /\ run.at \in {"created", "working"} => steps[Newest].failed = FALSE

\* The inductive invariant of the restarts.
RestartInv == RestartTyped /\ NewestIsLatest /\ RunInv

\* An adapter's creation, order and context statements, in the state's terms.
AdapterKnown ==
    /\ \/ CreateStmt.grain = "fine"
       \/ CreateStmt.grain = "second" /\ CreateStmt.clock = "process" /\ repository = "mysqlDrizzle"
    /\ CreateStmt.clock \in {"database", "process"}
    /\ Order \in {"createdAt", "insertion"} \/ (Order = "ctid" /\ repository = "mikroOrm")
    /\ Does("getExecutionContext")[1].absent = NoCheckpoint
    /\ Does("saveExecutionContext")[Len(Does("saveExecutionContext"))].firstVersion \in {0, 1}

\* All of it holds of the adapters in use.
LEMMA AdapterIsKnown == repository \in InUse => AdapterKnown
<1> SUFFICES ASSUME repository \in InUse PROVE AdapterKnown
    OBVIOUS
<1>1. Behaves(repository, Adapters[repository])
    BY EveryAdapterBehaves, RepositoryRowsAssumption
<1>2. StampsSteps(repository, Adapters[repository]) /\ FindsSteps(repository, Adapters[repository])
      /\ KeepsContexts(Adapters[repository])
    BY <1>1 DEF Behaves
<1>3. /\ \/ CreateStmt.grain = "fine"
         \/ CreateStmt.grain = "second" /\ CreateStmt.clock = "process" /\ repository = "mysqlDrizzle"
      /\ CreateStmt.clock \in {"database", "process"}
    BY <1>2 DEF StampsSteps, CreateStmt, Does
<1>4. Order \in {"createdAt", "insertion"} \/ (Order = "ctid" /\ repository = "mikroOrm")
    BY <1>2 DEF FindsSteps, Order, Does
<1>5. /\ Does("getExecutionContext")[1].absent = NoCheckpoint
      /\ Does("saveExecutionContext")[Len(Does("saveExecutionContext"))].firstVersion \in {0, 1}
    BY <1>2 DEF KeepsContexts, Does
<1> QED BY <1>3, <1>4, <1>5 DEF AdapterKnown

\* The clocks agree: what is stamped later, by anyone, has a later created_at.
LEMMA StampsGrow ==
    ASSUME ClocksAgree, repository \in InUse, now \in Nat, repository' = repository, now' = now + Gap,
           NEW s \in Skews, NEW t \in Skews
    PROVE  Stamp(s) \in Nat /\ Stamp(t)' \in Nat /\ Stamp(s) < Stamp(t)'
<1>1. AdapterKnown
    BY AdapterIsKnown
<1>2. s \in Nat /\ t \in Nat /\ Gap \in Nat \ {0} /\ Second \in Nat \ {0} /\ s + Second <= t + Gap
    BY RepositoryRowsAssumption DEF ClocksAgree
<1>3. CreateStmt' = CreateStmt
    BY DEF CreateStmt, Does
<1>4. CASE CreateStmt.grain = "fine"
    BY <1>1, <1>2, <1>3, <1>4 DEF Stamp, AdapterKnown
<1>5. CASE CreateStmt.grain = "second" /\ CreateStmt.clock = "process"
  <2>1. Stamp(s) = (now + s) \div Second /\ Stamp(t)' = (now + Gap + t) \div Second
    BY <1>3, <1>5 DEF Stamp
  <2>2. now + s \in Nat /\ now + Gap + t \in Nat /\ now + s + Second <= now + Gap + t
    BY <1>2
  <2> QED BY <1>2, <2>1, <2>2, DivideGrows
<1> QED BY <1>1, <1>4, <1>5 DEF AdapterKnown

\* created_at is a natural number.
LEMMA StampIsNatural ==
    ASSUME repository \in InUse, now \in Nat, NEW s \in Skews
    PROVE  Stamp(s) \in Nat
<1>1. AdapterKnown /\ s \in Nat /\ Second \in Nat \ {0} /\ now + s \in Nat
    BY AdapterIsKnown, RepositoryRowsAssumption
<1>2. (now + s) \div Second \in Nat
    BY <1>1, SMTT(30)
<1> QED BY <1>1, <1>2 DEF Stamp, AdapterKnown

(***************************************************************************)
(* A table of rows has a highest slot: were it not so for the first n      *)
(* rows, take the least such n; without its last row there was a highest   *)
(* one, and the last row's slot is higher or not.                          *)
(***************************************************************************)
LEMMA HighestSlot ==
    ASSUME steps \in Seq(StepRows), steps # <<>>
    PROVE  Max(Slots) \in Nat /\ \A i \in Rows : steps[i].slot <= Max(Slots)
<1> DEFINE Beaten == {n \in Rows : \A i \in 1..n : \E j \in 1..n : steps[j].slot > steps[i].slot}
<1>1. Rows = 1..Len(steps) /\ Len(steps) \in Nat \ {0} /\ \A i \in Rows : steps[i].slot \in Nat
  <2>1. Rows = 1..Len(steps) /\ Len(steps) \in Nat \ {0} /\ \A i \in Rows : steps[i] \in StepRows
    BY DEF Rows
  <2> QED BY <2>1 DEF StepRows
<1>2. Beaten = {}
  <2> SUFFICES ASSUME Beaten # {} PROVE FALSE
    OBVIOUS
  <2>1. PICK n \in Beaten : \A m \in Beaten : ~(<<m, n>> \in OpToRel(<, Nat))
    <3>1. Beaten \subseteq Nat
        BY <1>1
    <3> QED BY <3>1, NatLessThanWellFounded, WFMin
  <2>2. n \in 1..Len(steps) /\ n # 1
    BY <1>1
  <2>3. n - 1 \in Rows /\ n - 1 \notin Beaten
    <3>1. n - 1 \in Nat /\ n \in Nat /\ n - 1 < n
        BY <1>1, <2>2
    <3>2. <<n - 1, n>> \in OpToRel(<, Nat)
        BY <3>1 DEF OpToRel
    <3>3. n - 1 \in Rows
        BY <1>1, <2>2
    <3> QED BY <2>1, <3>2, <3>3
  <2>4. PICK i \in 1..n - 1 : \A j \in 1..n - 1 : ~(steps[j].slot > steps[i].slot)
    BY <2>3
  <2>5. steps[i].slot \in Nat /\ steps[n].slot \in Nat /\ \A j \in 1..n - 1 : steps[j].slot \in Nat
    <3> HIDE DEF Beaten
    <3>1. n \in Rows /\ i \in Rows /\ \A j \in 1..n - 1 : j \in Rows
      <4>1. \A m \in Nat : n \in 1..m => \A j \in 1..n - 1 : j \in 1..m
        OBVIOUS
      <4> QED BY <1>1, <2>2, <4>1
    <3> QED BY <1>1, <3>1
  <2>6. i \in 1..n /\ n \in 1..n /\ \A j \in 1..n : j = n \/ j \in 1..n - 1
    BY <1>1, <2>2
  <2>7. CASE steps[n].slot <= steps[i].slot
    <3>1. \A j \in 1..n : ~(steps[j].slot > steps[i].slot)
        BY ONLY <2>4, <2>5, <2>6, <2>7
    <3> QED BY <2>6, <3>1
  <2>8. CASE steps[n].slot > steps[i].slot
    <3>1. \A j \in 1..n : ~(steps[j].slot > steps[n].slot)
        BY ONLY <2>4, <2>5, <2>6, <2>8
    <3> QED BY <2>6, <3>1
  <2> QED BY <2>5, <2>7, <2>8
<1>3. PICK i \in Rows : \A j \in Rows : ~(steps[j].slot > steps[i].slot)
  <2>1. Len(steps) \in 1..Len(steps)
    BY ONLY <1>1
  <2>2. Len(steps) \in Rows /\ Len(steps) \notin Beaten
    BY <1>1, <1>2, <2>1, Zenon
  <2> QED BY <1>1, <2>2
<1>4. \A j \in Rows : steps[j].slot <= steps[i].slot
    BY <1>1, <1>3
<1>5. steps[i].slot \in Slots /\ \A x \in Slots : steps[i].slot >= x
    BY <1>1, <1>4 DEF Slots
<1>6. Max(Slots) \in Slots /\ \A x \in Slots : Max(Slots) >= x
    BY <1>5 DEF Max
<1> QED BY <1>1, <1>6 DEF Slots

\* Where no place is used again, a new version goes behind all rows.
LEMMA FreeSlot ==
    ASSUME steps \in Seq(StepRows), NEW slot \in FreeSlots
    PROVE  /\ slot \in Nat
           /\ ~SlotReuse => \A i \in Rows : steps[i].slot < slot
<1>1. CASE steps = <<>>
  <2>1. Rows = {} /\ Slots = {}
    BY <1>1 DEF Rows, Slots
  <2> QED BY <2>1 DEF FreeSlots
<1>2. CASE steps # <<>>
  <2>1. Max(Slots) \in Nat /\ \A i \in Rows : steps[i].slot <= Max(Slots)
    BY <1>2, HighestSlot
  <2>2. Slots # {} /\ \A i \in Rows : steps[i].slot \in Nat
    <3>1. 1 \in Rows /\ \A i \in Rows : steps[i] \in StepRows
        BY <1>2 DEF Rows
    <3> QED BY <3>1 DEF Slots, StepRows
  <2>3. slot = Max(Slots) + 1 \/ (SlotReuse /\ slot \in 1..Max(Slots))
    BY <2>2, RepositoryRowsAssumption DEF FreeSlots
  <2> QED BY <2>1, <2>2, <2>3
<1> QED BY <1>1, <1>2

\* findLatestStepExecution answers the newest row, whatever it orders by.
LEMMA LatestIsNewest ==
    ASSUME RestartTyped, NewestIsLatest, SlotsGrow, steps # <<>>, NEW i \in Latest
    PROVE  i = Newest /\ i \in Rows
<1>1. Rows = 1..Len(steps) /\ Newest \in Rows /\ \A j \in Rows : steps[j] \in StepRows
    BY DEF RestartTyped, Rows, Newest
<1>2. AdapterKnown
    BY AdapterIsKnown DEF RestartTyped
<1>3. CASE Order = "createdAt"
  <2>1. i \in Rows /\ steps[Newest].created <= steps[i].created
    BY <1>1, <1>3 DEF Latest
  <2>2. i < Newest => steps[i].created < steps[Newest].created
    BY <2>1 DEF NewestIsLatest
  <2> QED BY <1>1, <2>1, <2>2 DEF StepRows, Newest
<1>4. CASE Order = "insertion"
    BY <1>1, <1>4 DEF Latest
<1>5. CASE Order = "ctid" /\ ~SlotReuse
  <2>1. i \in Rows /\ steps[i].slot = Max(Slots)
    BY <1>5 DEF Latest
  <2>2. steps[Newest].slot <= Max(Slots)
    BY <1>1, HighestSlot DEF RestartTyped
  <2>3. i < Newest => steps[i].slot < steps[Newest].slot
    BY <1>5, <2>1 DEF NewestIsLatest
  <2> QED BY <1>1, <2>1, <2>2, <2>3 DEF StepRows, Newest
<1> QED BY <1>2, <1>3, <1>4, <1>5 DEF AdapterKnown, SlotsGrow, RestartTyped

\* At first there are no rows.
LEMMA RestartInit == ReadsInit => RestartInv
<1> SUFFICES ASSUME ReadsInit PROVE RestartInv
    OBVIOUS
<1>1. Rows = {} /\ Executions = {} /\ steps = <<>>
    BY DEF ReadsInit, RowsInit, Rows, Executions
<1>2. RestartTyped
    BY <1>1 DEF ReadsInit, RowsInit, RestartTyped, Phases, Runs
<1>3. NewestIsLatest /\ RunInv
    BY <1>1 DEF ReadsInit, RowsInit, NewestIsLatest, RunInv
<1> QED BY <1>2, <1>3 DEF RestartInv

\* The order of the rows survives what does not create a row.
LEMMA RowsKept ==
    ASSUME RestartTyped, NewestIsLatest, UNCHANGED <<repository, now>>, Len(steps') = Len(steps),
           DOMAIN steps' = DOMAIN steps,
           \A i \in Rows : steps'[i].created = steps[i].created,
           ~SlotReuse => \A i \in Rows : i < Newest => steps'[i].slot < steps'[Newest].slot
    PROVE  NewestIsLatest'
<1>1. Rows' = Rows /\ Newest' = Newest /\ (Rows # {} => Newest \in Rows)
    BY DEF Rows, Newest, RestartTyped
<1>2. \A s \in Skews : Stamp(s)' = Stamp(s)
    BY DEF Stamp, CreateStmt, Does
<1> QED BY <1>1, <1>2 DEF NewestIsLatest

\* saveExecutionContext: the newest row holds the checkpoint.
LEMMA ContextSaved ==
    ASSUME RestartTyped, NewestIsLatest, steps # <<>>, NEW c \in Nat, SaveContext(c), UNCHANGED <<repository, now>>
    PROVE  /\ steps' \in Seq(StepRows) /\ steps' # <<>> /\ Newest' = Newest
           /\ SavedIn(Newest)' = c
           /\ steps'[Newest].failed = steps[Newest].failed
           /\ NewestIsLatest'
<1> DEFINE save == Does("saveExecutionContext")
           v == IF steps[Newest].version = NoContext THEN save[Len(save)].firstVersion ELSE steps[Newest].version + 1
           saved == [[steps[Newest] EXCEPT !.checkpoint = c] EXCEPT !.version = v]
<1>1. Len(steps) \in Nat \ {0} /\ Newest \in 1..Len(steps) /\ \A i \in 1..Len(steps) : steps[i] \in StepRows
      /\ Rows = 1..Len(steps) /\ DOMAIN steps = 1..Len(steps)
    BY DEF RestartTyped, Rows, Newest
<1>2. save[Len(save)].firstVersion \in {0, 1}
    BY AdapterIsKnown DEF RestartTyped, AdapterKnown
<1>3. steps[Newest] \in StepRows
    BY <1>1
<1>4. v \in Nat
    BY <1>2, <1>3 DEF StepRows
<1> HIDE DEF v
<1>5. steps' = [steps EXCEPT ![Newest].checkpoint = c, ![Newest].version = v]
    BY DEF SaveContext, v
<1>6. saved \in StepRows /\ saved.checkpoint = c /\ saved.version = v
      /\ saved.created = steps[Newest].created /\ saved.slot = steps[Newest].slot
      /\ saved.failed = steps[Newest].failed
    BY <1>3, <1>4 DEF StepRows
<1>7. /\ DOMAIN steps' = DOMAIN steps
      /\ steps'[Newest] = saved
      /\ \A i \in 1..Len(steps) : i # Newest => steps'[i] = steps[i]
    BY <1>1, <1>5
<1> HIDE DEF saved
<1>8. steps' \in Seq(StepRows) /\ Len(steps') = Len(steps) /\ steps' # <<>>
  <2>1. steps' = [i \in 1..Len(steps) |-> steps'[i]]
    BY <1>1, <1>5
  <2>2. \A i \in 1..Len(steps) : steps'[i] \in StepRows
    BY <1>1, <1>6, <1>7
  <2>3. steps' \in Seq(StepRows) /\ Len(steps') = Len(steps)
    BY <1>1, <2>1, <2>2, IsASeq
  <2> QED BY <1>1, <2>3
<1>9. Newest' = Newest
    BY <1>8 DEF Newest
<1>10. SavedIn(Newest)' = c
    BY <1>4, <1>6, <1>7, <1>9 DEF SavedIn, NoContext
<1>11. \A i \in Rows : steps'[i].created = steps[i].created /\ steps'[i].slot = steps[i].slot
    BY <1>1, <1>6, <1>7
<1>12. \A i \in Rows : i < Newest => (~SlotReuse => steps[i].slot < steps[Newest].slot)
    BY DEF NewestIsLatest
<1>13. NewestIsLatest'
    BY <1>1, <1>7, <1>8, <1>11, <1>12, RowsKept
<1> QED BY <1>6, <1>7, <1>8, <1>9, <1>10, <1>13

\* The prior row is located: its checkpoint is what was committed.
LEMMA LocatePriorKeeps ==
    ASSUME RestartInv, SlotsGrow, LocatePrior, Executions' = Executions
    PROVE  RestartInv'
<1>1. RestartTyped /\ NewestIsLatest /\ RunInv /\ run.at = "idle"
    BY DEF RestartInv, LocatePrior
<1>2. UNCHANGED <<repository, workload, steps, committed, now>> /\ workload = "restarts"
    BY DEF LocatePrior
<1>3. NewestIsLatest'
    BY <1>1, <1>2, RowsKept DEF NewestIsLatest
<1>4. ASSUME NEW again \in BOOLEAN, ~again \/ steps = <<>>,
             run' = [job |-> "STARTED", at |-> "located", done |-> 0, restart |-> again,
                     prior |-> FALSE, resume |-> 0]
      PROVE  RestartInv'
  <2>1. run' \in Runs /\ run'.at = "located" /\ run'.resume = 0 /\ run'.restart = again
    BY <1>4 DEF Runs, Phases
  <2>2. RestartTyped'
    BY <1>1, <1>2, <2>1 DEF RestartTyped
  <2>3. RunInv'
    BY <1>1, <1>2, <1>4, <2>1 DEF RunInv, SavedIn, Newest
  <2> QED BY <1>3, <2>2, <2>3 DEF RestartInv
<1>5. ASSUME steps # <<>>, NEW i \in Latest,
             run' = [job |-> "STARTED", at |-> "located", done |-> 0, restart |-> TRUE,
                     prior |-> steps[i].failed, resume |-> IF steps[i].failed THEN GetContext(i) ELSE 0]
      PROVE  RestartInv'
  <2>2. i = Newest /\ i \in Rows
    BY <1>1, <1>5, LatestIsNewest
  <2>3. steps[i].failed = TRUE => SavedIn(i) = committed
    BY <1>1, <1>5, <2>2 DEF RunInv
  <2>7. steps[i] \in StepRows /\ committed \in Nat
    BY <1>1, <2>2 DEF RestartTyped, Rows
  <2>8. steps[i].failed \in BOOLEAN /\ committed \in Nat
    BY <2>7 DEF StepRows
  <2>4. GetContext(i) = SavedIn(i)
    BY <1>1, AdapterIsKnown DEF GetContext, SavedIn, RestartTyped, AdapterKnown
  <2>5. /\ run'.at = "located" /\ run'.prior = steps[i].failed
        /\ run'.resume = IF steps[i].failed THEN committed ELSE 0
        /\ run' \in Runs
    <3>1. CASE steps[i].failed = TRUE
        BY <1>5, <2>3, <2>4, <2>8, <3>1 DEF Runs, Phases
    <3>2. CASE steps[i].failed = FALSE
        BY <1>5, <2>8, <3>2 DEF Runs, Phases
    <3> QED BY <2>8, <3>1, <3>2
  <2>6. RestartTyped'
    BY <1>1, <1>2, <2>5 DEF RestartTyped
  <2>9. SavedIn(i)' = SavedIn(i) /\ Newest' = Newest
    BY <1>2 DEF SavedIn, Newest
  <2>10. RunInv'
    BY <1>2, <1>5, <2>2, <2>3, <2>5, <2>9 DEF RunInv
  <2> QED BY <1>3, <2>6, <2>10 DEF RestartInv
<1> QED BY <1>4, <1>5 DEF LocatePrior

\* The prior context is copied into the new row.
LEMMA CopyContextKeeps ==
    ASSUME RestartInv, DoCopyContext, Executions' = Executions
    PROVE  RestartInv'
<1>1. RestartTyped /\ NewestIsLatest /\ RunInv /\ run.at = "created"
    BY DEF RestartInv, DoCopyContext
<1>2. UNCHANGED <<repository, workload, committed, now>> /\ workload = "restarts"
    BY <1>1 DEF DoCopyContext, RestartTyped
<1>3. /\ run.resume = committed /\ (~run.prior => committed = 0) /\ steps # <<>>
      /\ steps[Newest].version = NoContext /\ steps[Newest].failed = FALSE
    BY <1>1 DEF RunInv
<1>4. /\ run' \in Runs
      /\ run'.at = "working" /\ run'.done = run.resume
    BY <1>1 DEF DoCopyContext, RestartTyped, Runs, Phases
<1>5. /\ steps' \in Seq(StepRows) /\ steps' # <<>> /\ SavedIn(Newest)' = committed /\ NewestIsLatest'
      /\ steps[Newest].failed' = FALSE
  <2>1. CASE run.prior /\ SaveContext(run.resume)
    BY <1>1, <1>2, <1>3, <2>1, ContextSaved DEF RestartTyped
  <2>2. CASE ~run.prior /\ UNCHANGED steps
    <3>1. steps' \in Seq(StepRows) /\ steps' # <<>>
        BY <1>1, <1>3, <2>2 DEF RestartTyped
    <3>2. SavedIn(Newest)' = committed
        BY <1>3, <2>2 DEF SavedIn, Newest, NoCheckpoint
    <3>3. NewestIsLatest'
        BY <1>1, <1>2, <2>2, RowsKept DEF NewestIsLatest
    <3>4. steps[Newest].failed' = FALSE
        BY <1>3, <2>2 DEF Newest
    <3> QED BY <3>1, <3>2, <3>3, <3>4
  <2> QED BY <2>1, <2>2 DEF DoCopyContext
<1>6. RestartTyped'
    BY <1>1, <1>2, <1>4, <1>5 DEF RestartTyped
<1>7. RunInv'
    BY <1>2, <1>3, <1>4, <1>5 DEF RunInv
<1> QED BY <1>5, <1>6, <1>7 DEF RestartInv

\* A step row is created after the prior one was located.
LEMMA CreateStepKeeps ==
    ASSUME RestartInv, ClocksAgree, DoCreateStep, Executions' = Executions
    PROVE  RestartInv'
<1>1. RestartTyped /\ NewestIsLatest /\ RunInv /\ run.at = "located"
    BY DEF RestartInv, DoCreateStep
<1>2. /\ UNCHANGED <<repository, workload>> /\ committed' = run.resume
      /\ now' = now + Gap /\ now' \in Nat /\ workload = "restarts"
    BY <1>1, RepositoryRowsAssumption DEF DoCreateStep, RestartTyped
<1>3. PICK skew \in Skews, slot \in FreeSlots :
          steps' = Append(steps, [created |-> Stamp(skew), slot |-> slot, failed |-> FALSE, checkpoint |-> 0,
                                  version |-> NoContext])
    BY DEF DoCreateStep
<1> DEFINE new == [created |-> Stamp(skew), slot |-> slot, failed |-> FALSE, checkpoint |-> 0, version |-> NoContext]
<1>4. \A s, t \in Skews : Stamp(s) \in Nat /\ Stamp(t)' \in Nat /\ Stamp(s) < Stamp(t)'
    BY <1>1, <1>2, StampsGrow DEF RestartTyped
<1>5. slot \in Nat /\ (~SlotReuse => \A i \in Rows : steps[i].slot < slot)
    BY <1>1, FreeSlot DEF RestartTyped
<1>6. /\ new \in StepRows /\ new.created = Stamp(skew) /\ new.slot = slot /\ new.version = NoContext
      /\ new.failed = FALSE
    BY <1>4, <1>5 DEF StepRows
<1> HIDE DEF new
<1>7. steps' = Append(steps, new)
    BY <1>3 DEF new
<1>8. /\ steps' \in Seq(StepRows) /\ steps' # <<>> /\ Len(steps') = Len(steps) + 1 /\ Len(steps) \in Nat
      /\ steps'[Len(steps) + 1] = new /\ \A i \in 1..Len(steps) : steps'[i] = steps[i]
    BY <1>1, <1>6, <1>7 DEF RestartTyped
<1>9. Newest' = Newest + 1 /\ Newest \in Nat /\ Rows = 1..Newest /\ Rows' = 1..Newest + 1
    BY <1>1, <1>8 DEF Newest, Rows, RestartTyped
<1>10. steps'[Newest + 1] = new /\ \A i \in Rows : steps'[i] = steps[i]
    BY <1>8, <1>9 DEF Newest
<1>11. NewestIsLatest'
  <2> SUFFICES ASSUME NEW i \in 1..Newest + 1
               PROVE  /\ \A s \in Skews : steps'[i].created < Stamp(s)'
                      /\ i < Newest + 1 => /\ steps'[i].created < steps'[Newest + 1].created
                                           /\ ~SlotReuse => steps'[i].slot < steps'[Newest + 1].slot
    BY <1>9 DEF NewestIsLatest
  <2>1. CASE i = Newest + 1
    BY <1>4, <1>6, <1>9, <1>10, <2>1
  <2>2. CASE i \in Rows
    <3>1. steps[i] \in StepRows /\ i < Newest + 1
        BY <1>1, <1>9, <2>2 DEF RestartTyped, Rows
    <3>2. steps[i].created \in Nat /\ steps[i].created < Stamp(skew)
        BY <1>1, <2>2, <3>1 DEF NewestIsLatest, StepRows
    <3>3. \A s \in Skews : steps[i].created < Stamp(s)'
      <4> TAKE s \in Skews
      <4>1. steps[i].created < Stamp(s) /\ Stamp(s) \in Nat /\ Stamp(s)' \in Nat /\ Stamp(s) < Stamp(s)'
        BY <1>1, <1>4, <2>2 DEF NewestIsLatest
      <4> QED BY <3>2, <4>1
    <3> QED BY <1>5, <1>6, <1>10, <2>2, <3>1, <3>2, <3>3
  <2> QED BY <1>9, <2>1, <2>2
<1>12. run' \in Runs /\ run'.at = "created" /\ run'.resume = run.resume /\ run'.prior = run.prior
       /\ run.resume \in Nat
    BY <1>1 DEF DoCreateStep, RestartTyped, Runs, Phases
<1>13. RestartTyped'
    BY <1>1, <1>2, <1>8, <1>12 DEF RestartTyped
<1>14. RunInv'
  <2>1. steps[Newest]' = new
    BY <1>9, <1>10
  <2> QED BY <1>1, <1>2, <1>6, <1>8, <1>12, <2>1 DEF RunInv
<1> QED BY <1>11, <1>13, <1>14 DEF RestartInv

\* A chunk's checkpoint is saved.
LEMMA SaveCheckpointKeeps ==
    ASSUME RestartInv, DoSaveCheckpoint, Executions' = Executions
    PROVE  RestartInv'
<1>1. RestartTyped /\ NewestIsLatest /\ RunInv /\ run.at = "working"
    BY DEF RestartInv, DoSaveCheckpoint
<1>2. UNCHANGED <<repository, workload, now>> /\ workload = "restarts"
    BY <1>1 DEF DoSaveCheckpoint, RestartTyped
<1>3. run.done = committed /\ steps # <<>> /\ run.done + 1 \in Nat /\ committed \in Nat
    BY <1>1 DEF RunInv, RestartTyped, Runs
<1>4. /\ run' \in Runs
      /\ run'.at = "working" /\ run'.done = run.done + 1
    BY <1>1, <1>3 DEF DoSaveCheckpoint, RestartTyped, Runs, Phases
<1>5. committed' = run.done + 1
    BY DEF DoSaveCheckpoint
<1>6. /\ steps' \in Seq(StepRows) /\ steps' # <<>> /\ SavedIn(Newest)' = run.done + 1 /\ NewestIsLatest'
      /\ steps[Newest].failed' = FALSE
    BY <1>1, <1>2, <1>3, ContextSaved DEF DoSaveCheckpoint, RunInv
<1>7. RestartTyped'
    BY <1>1, <1>2, <1>3, <1>4, <1>5, <1>6 DEF RestartTyped
<1>8. RunInv'
    BY <1>3, <1>4, <1>5, <1>6 DEF RunInv
<1> QED BY <1>6, <1>7, <1>8 DEF RestartInv

\* The step fails: a new version of its row.
LEMMA FailStepKeeps ==
    ASSUME RestartInv, DoFailStep, Executions' = Executions
    PROVE  RestartInv'
<1>1. RestartTyped /\ NewestIsLatest /\ RunInv /\ run.at = "working"
    BY DEF RestartInv, DoFailStep
<1>2. UNCHANGED <<repository, workload, committed, now>> /\ workload = "restarts"
    BY <1>1 DEF DoFailStep, RestartTyped
<1>3. steps # <<>> /\ SavedIn(Newest) = committed
    BY <1>1 DEF RunInv
<1>4. PICK slot \in FreeSlots : steps' = [steps EXCEPT ![Newest].failed = TRUE, ![Newest].slot = slot]
    BY DEF DoFailStep
<1>5. slot \in Nat /\ (~SlotReuse => \A i \in Rows : steps[i].slot < slot)
    BY <1>1, FreeSlot DEF RestartTyped
<1>6. Len(steps) \in Nat \ {0} /\ Newest \in 1..Len(steps) /\ Rows = 1..Len(steps) /\ DOMAIN steps = 1..Len(steps)
      /\ \A i \in 1..Len(steps) : steps[i] \in StepRows
    BY <1>1, <1>3 DEF RestartTyped, Rows, Newest
<1> DEFINE failed == [[steps[Newest] EXCEPT !.failed = TRUE] EXCEPT !.slot = slot]
<1>7. steps[Newest] \in StepRows
    BY <1>6
<1>8. /\ failed \in StepRows /\ failed.failed = TRUE /\ failed.slot = slot
      /\ failed.created = steps[Newest].created /\ failed.version = steps[Newest].version
      /\ failed.checkpoint = steps[Newest].checkpoint
    BY <1>5, <1>7 DEF StepRows
<1>9. /\ DOMAIN steps' = DOMAIN steps
      /\ steps'[Newest] = failed
      /\ \A i \in 1..Len(steps) : i # Newest => steps'[i] = steps[i]
    BY <1>4, <1>6
<1> HIDE DEF failed
<1>10. steps' \in Seq(StepRows) /\ Len(steps') = Len(steps) /\ steps' # <<>>
  <2>1. steps' = [i \in 1..Len(steps) |-> steps'[i]]
    BY <1>4, <1>6
  <2>2. \A i \in 1..Len(steps) : steps'[i] \in StepRows
    BY <1>6, <1>8, <1>9
  <2>3. steps' \in Seq(StepRows) /\ Len(steps') = Len(steps)
    BY <1>6, <2>1, <2>2, IsASeq
  <2> QED BY <1>6, <2>3
<1>11. Newest' = Newest
    BY <1>10 DEF Newest
<1>12. SavedIn(Newest)' = SavedIn(Newest) /\ steps'[Newest].failed
    BY <1>8, <1>9, <1>11 DEF SavedIn
<1>13. \A i \in Rows : steps'[i].created = steps[i].created
    BY <1>6, <1>8, <1>9
<1>14. ~SlotReuse => \A i \in Rows : i < Newest => steps'[i].slot < steps'[Newest].slot
    BY <1>5, <1>6, <1>8, <1>9
<1>15. NewestIsLatest'
    BY <1>1, <1>2, <1>9, <1>10, <1>13, <1>14, RowsKept
<1>16. run' \in Runs /\ run'.at = "idle"
    BY <1>1 DEF DoFailStep, RestartTyped, Runs, Phases
<1>17. RestartTyped'
    BY <1>1, <1>2, <1>10, <1>16 DEF RestartTyped
<1>18. RunInv'
    BY <1>2, <1>3, <1>10, <1>11, <1>12, <1>16 DEF RunInv
<1> QED BY <1>15, <1>17, <1>18 DEF RestartInv

\* The process dies; its row, if it has one, is not FAILED.
LEMMA RunDiesKeeps ==
    ASSUME RestartInv, RunDies, Executions' = Executions
    PROVE  RestartInv'
<1>1. RestartTyped /\ NewestIsLatest /\ RunInv /\ run.at # "idle"
    BY DEF RestartInv, RunDies
<1>2. UNCHANGED <<repository, workload, steps, committed, now>> /\ run' = [run EXCEPT !.at = "idle"]
    BY DEF RunDies
<1>3. run' \in Runs /\ run'.at = "idle" /\ run.at \in Phases
    BY <1>1, <1>2 DEF RestartTyped, Runs, Phases
<1>4. RestartTyped'
    BY <1>1, <1>2, <1>3 DEF RestartTyped
<1>5. SavedIn(Newest)' = SavedIn(Newest) /\ steps[Newest]' = steps[Newest]
    BY <1>2 DEF SavedIn, Newest
<1>6. RunInv'
    BY <1>1, <1>2, <1>3, <1>5 DEF RunInv, Phases
<1>7. NewestIsLatest'
    BY <1>1, <1>2, RowsKept DEF NewestIsLatest
<1> QED BY <1>4, <1>6, <1>7 DEF RestartInv

\* Whatever leaves the restarts' variables alone.
LEMMA RestartUnchanged ==
    ASSUME RestartInv, UNCHANGED <<repository, workload, restartsVars>>, Executions' = Executions
    PROVE  RestartInv'
<1>1. RestartTyped /\ NewestIsLatest /\ RunInv /\ UNCHANGED <<repository, workload, steps, run, committed, now>>
    BY DEF RestartInv, restartsVars
<1>2. RestartTyped'
    BY <1>1 DEF RestartTyped
<1>3. RunInv'
    BY <1>1 DEF RunInv, SavedIn, Newest
<1>4. NewestIsLatest'
    BY <1>1, RowsKept DEF NewestIsLatest
<1> QED BY <1>2, <1>3, <1>4 DEF RestartInv

\* The explorer's workload only makes time pass, and only in its own
\* behaviours.
LEMMA ReadsWait ==
    ASSUME RestartTyped,
           \/ LaunchExecution
           \/ \E e \in Executions :
                  \/ EnterWrite(e) \/ StopWrite(e) \/ ReadDetails(e)
                  \/ \E x \in Executors(e) : ExecutorStep(x, e)
           \/ ListJobExecutions \/ ReadSteps \/ ReadContexts
    PROVE  /\ now' \in Nat
           /\ workload # "reads" => UNCHANGED <<now, executions>>
<1>1. now \in Nat /\ Gap \in Nat /\ (workload # "reads" => Executions = {})
    BY RepositoryRowsAssumption DEF RestartTyped
<1>2. CASE LaunchExecution
    BY <1>1, <1>2 DEF LaunchExecution
<1>3. CASE \E e \in Executions :
                  \/ EnterWrite(e) \/ StopWrite(e) \/ ReadDetails(e)
                  \/ \E x \in Executors(e) : ExecutorStep(x, e)
  <2>1. workload = "reads"
    BY <1>1, <1>3
  <2>2. now' \in {now, now + 1, now + Gap}
    BY <1>3, ZenonT(40) DEF EnterWrite, StopWrite, ReadDetails, ExecutorStep, BeginStep, SaveStep, EndStep, EndWrite,
                ExecutorDies
  <2> QED BY <1>1, <2>1, <2>2
<1>4. CASE ListJobExecutions \/ ReadSteps \/ ReadContexts
    BY <1>1, <1>4 DEF ListJobExecutions, ReadSteps, ReadContexts
<1> QED BY <1>2, <1>3, <1>4

\* Every step keeps the invariant.
LEMMA RestartNext == ClocksAgree /\ SlotsGrow /\ RestartInv /\ [ReadsNext]_allVars => RestartInv'
<1> SUFFICES ASSUME ClocksAgree, SlotsGrow, RestartInv, [ReadsNext]_allVars PROVE RestartInv'
    OBVIOUS
<1>1. CASE UNCHANGED <<repository, workload, restartsVars, executions>>
    BY <1>1, RestartUnchanged DEF Executions
<1>2. CASE UNCHANGED allVars
    BY <1>1, <1>2 DEF allVars, rowsVars, readsVars
<1>3. ASSUME NEW w \in Writers, UNCHANGED readsVars,
             \/ DoUpdateTogether(w) \/ DoUpdateColumn(w) \/ DoReadRow(w) \/ DoFlushRow(w) \/ WriterDies(w)
      PROVE  RestartInv'
    BY <1>1, <1>3 DEF readsVars, DoUpdateTogether, DoUpdateColumn, DoReadRow, DoFlushRow, WriterDies
<1>4. CASE /\ UNCHANGED readsVars
           /\ LocatePrior \/ DoCreateStep \/ DoCopyContext \/ DoSaveCheckpoint \/ DoFailStep \/ RunDies
  <2>1. Executions' = Executions
    BY <1>4 DEF readsVars, Executions
  <2> QED BY <1>4, <2>1, LocatePriorKeeps, CreateStepKeeps, CopyContextKeeps, SaveCheckpointKeeps, FailStepKeeps,
             RunDiesKeeps
<1>5. CASE /\ UNCHANGED idleVars
           /\ now' \in Nat
           /\ workload # "reads" => UNCHANGED <<now, executions>>
  <2>1. CASE workload # "reads"
    BY <1>1, <1>5, <2>1 DEF idleVars, restartsVars
  <2>2. CASE workload = "reads"
    <3>1. RestartTyped /\ RunInv /\ UNCHANGED <<repository, workload, steps, run, committed>> /\ now' \in Nat
        BY <1>5 DEF RestartInv, idleVars
    <3>2. steps = <<>> /\ run.at = "idle"
        BY <2>2, <3>1 DEF RestartTyped
    <3>3. RestartTyped'
        BY <2>2, <3>1 DEF RestartTyped
    <3>4. RunInv'
        BY <3>1 DEF RunInv, SavedIn, Newest
    <3>5. NewestIsLatest'
        BY <3>1, <3>2 DEF NewestIsLatest, Rows
    <3> QED BY <3>3, <3>4, <3>5 DEF RestartInv
  <2> QED BY <2>1, <2>2
<1>6. RestartTyped
    BY DEF RestartInv
<1> QED BY <1>2, <1>3, <1>4, <1>5, <1>6, ReadsOnly, ReadsWait DEF ReadsNext, RowsNext, ExecutorStep

(***************************************************************************)
(* A restart continues where the last run stopped: the row it finds holds  *)
(* the last checkpoint, for any number of runs and failures, if the clocks *)
(* agree and PostgreSQL does not use a place again.                        *)
(***************************************************************************)
THEOREM RestartsResume == ASSUME ClocksAgree, SlotsGrow PROVE ReadsSpec => []ResumesWhereStopped
<1>1. RestartInv => ResumesWhereStopped
    BY DEF RestartInv, RunInv, ResumesWhereStopped
<1> QED BY <1>1, RestartInit, RestartNext, PTL DEF ReadsSpec

-----------------------------------------------------------------------------
\* The rows the explorer reads.
RunStepRows == [created : Nat, ended : BOOLEAN, checkpoint : Nat]
Entries == [phase : {"entered", "running", "done", "out"}, step : Nat, ahead : Nat]
ExecutionRows ==
    [status : Statuses, start : Nat \cup {NotStarted}, began : Nat \cup {NotStarted},
     shared : BOOLEAN, at : Seq(Entries), steps : Seq(RunStepRows)]

\* The steps of an execution were created in their order.
CreatedInOrder(s) == \A i, j \in 1..Len(s) : i < j => s[i].created < s[j].created

\* The executors that are at work on a row.
AtWork(x) == {k \in 1..Len(x.at) : x.at[k].phase # "out"}

\* What one executor at a time keeps: who is at work entered last, the row is
\* not COMPLETED meanwhile and the last step is his; a run that COMPLETED has
\* ended its last step; and the next step row will be the latest.
Alone(x) ==
    /\ \A k \in AtWork(x) :
        /\ k = Len(x.at) /\ x.status # "COMPLETED" /\ x.at[k].ahead = x.start - x.began
        /\ x.at[k].phase # "entered" => x.at[k].step = Len(x.steps)
        /\ x.at[k].phase = "done" => x.steps[Len(x.steps)].ended
    /\ x.status = "COMPLETED" /\ reader.wants = "details" =>
        x.steps # <<>> /\ x.steps[Len(x.steps)].ended
    /\ repository # "mysqlDrizzle" =>
        CreatedInOrder(x.steps) /\ \A i \in 1..Len(x.steps) : x.steps[i].created < Stamp(x.start - x.began)

\* What is known of an execution row: the start is the process's time of the
\* beginning, an executor at work has its own clock and a step that exists.
RowInv(x) ==
    /\ x.start = NotStarted <=> x.began = NotStarted
    /\ x.start = NotStarted => x.steps = <<>> /\ x.at = <<>>
    /\ x.start # NotStarted => x.start - x.began \in Skews /\ x.began + Gap <= now
    /\ \A k \in AtWork(x) : /\ x.at[k].ahead \in Skews
                            /\ x.at[k].phase # "entered" => x.at[k].step \in 1..Len(x.steps)
    /\ x.shared \/ Alone(x)

\* Executions of the instance start at least Gap apart.
StartsApart ==
    \A d, e \in Executions : d # e /\ executions[d].began # NotStarted /\ executions[e].began # NotStarted =>
        executions[d].began + Gap <= executions[e].began \/ executions[e].began + Gap <= executions[d].began

\* The types of the explorer's workload.
ReadsTyped ==
    /\ repository \in InUse
    /\ now \in Nat
    /\ executions \in Seq(ExecutionRows)
    /\ DOMAIN reader = {"wants", "at", "exec", "status", "entered", "listed", "order", "steps", "contexts"}
    /\ reader.wants \in {"list", "details"}
    /\ reader.at \in {"idle", "listed", "row", "steps", "details"}

\* What the reader has of a COMPLETED execution is still so.
Shows(e) ==
    /\ executions[e].status = "COMPLETED"
    /\ reader.at \in {"steps", "details"} =>
        reader.steps = [i \in DOMAIN StepsOf(e) |-> StepsOf(e)[i].ended]
    /\ reader.at = "details" =>
        reader.contexts = [i \in DOMAIN StepsOf(e) |-> StepsOf(e)[i].checkpoint]

\* The steps were read as they ran.
ReadInOrder == \A i, j \in DOMAIN reader.order : i < j => reader.order[i] < reader.order[j]

\* The reader, at each of its statements.
ReaderInv ==
    /\ reader.at \in {"row", "steps", "details"} =>
        /\ reader.wants = "details" /\ reader.exec \in Executions
        /\ ~executions[reader.exec].shared =>
            /\ reader.status = "COMPLETED" /\ ~reader.entered => Shows(reader.exec)
            /\ reader.at # "row" /\ repository \notin {"mikroOrm", "mysqlDrizzle"} => ReadInOrder
    /\ repository # "inMemory" =>
        \A i, j \in DOMAIN reader.listed :
            i < j /\ NotStarted \notin {reader.listed[i], reader.listed[j]} =>
                reader.listed[i] > reader.listed[j]

\* The inductive invariant of the explorer's workload.
ReadsInv == ReadsTyped /\ (\A e \in Executions : RowInv(executions[e])) /\ StartsApart /\ ReaderInv

\* At first nothing is launched.
LEMMA ReadsInitially == ReadsInit => ReadsInv
<1> SUFFICES ASSUME ReadsInit PROVE ReadsInv
    OBVIOUS
<1>1. Executions = {} /\ executions = <<>>
    BY DEF ReadsInit, Executions
<1>2. PICK wants \in {"list", "details"} :
          reader = [wants |-> wants, at |-> "idle", exec |-> 0, status |-> "none", entered |-> FALSE,
                    listed |-> <<>>, order |-> <<>>, steps |-> <<>>, contexts |-> <<>>]
    BY DEF ReadsInit
<1>3. ReadsTyped
    BY <1>1, <1>2 DEF ReadsInit, RowsInit, ReadsTyped
<1>4. ReaderInv
    BY <1>2 DEF ReaderInv
<1> QED BY <1>1, <1>3, <1>4 DEF ReadsInv, StartsApart

\* What is added to both sides changes nothing.
LEMMA AddedToBoth ==
    ASSUME NEW a \in Nat, NEW b \in Nat, NEW d \in Nat, a <= b
    PROVE  a + d \in Nat /\ b + d \in Nat /\ a + d <= b + d /\ (a < b => a + d < b + d)
OBVIOUS

\* Fine stamps of one clock rise with time.
LEMMA StampsRise ==
    ASSUME repository \in InUse, repository # "mysqlDrizzle", now \in Nat, now' \in Nat, now <= now', repository' = repository,
           NEW s \in Skews
    PROVE  /\ Stamp(s) \in Nat /\ Stamp(s)' \in Nat /\ Stamp(s) <= Stamp(s)'
           /\ now < now' => Stamp(s) < Stamp(s)'
<1>1. AdapterKnown /\ s \in Nat
    BY AdapterIsKnown, RepositoryRowsAssumption
<1>2. CreateStmt' = CreateStmt
    BY DEF CreateStmt, Does
<1>3. CreateStmt.grain = "fine"
    BY <1>1 DEF AdapterKnown
<1>4. PICK d \in Nat : Stamp(s) = now + d /\ Stamp(s)' = now' + d
  <2>1. CASE CreateStmt.clock = "process"
    BY <1>1, <1>2, <1>3, <2>1 DEF Stamp
  <2>2. CASE CreateStmt.clock # "process"
    BY <1>2, <1>3, <2>2 DEF Stamp
  <2> QED BY <2>1, <2>2
<1>5. /\ now + d \in Nat /\ now' + d \in Nat /\ now + d <= now' + d
      /\ now < now' => now + d < now' + d
    BY AddedToBoth
<1> QED BY <1>4, <1>5

\* What is known of a row stays true while time passes.
LEMMA RowKept ==
    ASSUME ReadsTyped, NEW x \in ExecutionRows, RowInv(x), now' \in Nat, now <= now', repository' = repository,
           reader'.wants = reader.wants
    PROVE  RowInv(x)'
<1>1. x.start # NotStarted => x.began + Gap <= now'
    BY RepositoryRowsAssumption DEF ReadsTyped, RowInv, ExecutionRows, NotStarted
<1>2. ASSUME repository # "mysqlDrizzle", Alone(x), NEW i \in 1..Len(x.steps)
      PROVE  x.steps[i].created < Stamp(x.start - x.began)'
  <2>1. x.steps \in Seq(RunStepRows) /\ x.steps # <<>>
    BY <1>2 DEF ExecutionRows
  <2>2. x.steps[i].created \in Nat /\ x.start # NotStarted
    <3>1. x.steps[i] \in RunStepRows
        BY <1>2, <2>1
    <3>2. x.start # NotStarted
        BY <2>1 DEF RowInv
    <3> QED BY <3>1, <3>2 DEF RunStepRows
  <2>3. x.start - x.began \in Skews /\ x.steps[i].created < Stamp(x.start - x.began)
    BY <1>2, <2>2 DEF RowInv, Alone
  <2>4. PICK k \in Skews : k = x.start - x.began
    BY <2>3
  <2>5. Stamp(k) \in Nat /\ Stamp(k)' \in Nat /\ Stamp(k) <= Stamp(k)'
    BY <1>2, StampsRise DEF ReadsTyped
  <2> QED BY <2>2, <2>3, <2>4, <2>5
<1>3. Alone(x) => Alone(x)'
    BY <1>2 DEF Alone
<1> QED BY <1>1, <1>3 DEF RowInv

\* What the reader has read stays; at most it is noted that a row was entered.
SameReading ==
    /\ DOMAIN reader' = DOMAIN reader /\ reader'.wants = reader.wants /\ reader'.at = reader.at
    /\ reader'.exec = reader.exec /\ reader'.status = reader.status /\ reader'.listed = reader.listed
    /\ reader'.order = reader.order /\ reader'.steps = reader.steps /\ reader'.contexts = reader.contexts
    /\ reader.entered => reader'.entered

(***************************************************************************)
(* One row is written by an executor or operator, not a COMPLETED one, or  *)
(* it is shared, or the reader's note says so: the other rows, the         *)
(* distance of the starts and what the reader has of a COMPLETED row stay  *)
(* as they are.                                                            *)
(***************************************************************************)
LEMMA RowWritten ==
    ASSUME ReadsInv, NEW e \in Executions, NEW x \in ExecutionRows,
           repository' = repository, SameReading, now' \in Nat, now <= now',
           executions[e].shared => x.shared,
           x.shared \/ executions[e].status # "COMPLETED" \/ (reader.exec = e => reader'.entered),
           executions' = [executions EXCEPT ![e] = x],
           RowInv(x)',
           x.began = executions[e].began \/ x.began = now
    PROVE  ReadsInv'
<1>1. /\ Executions = 1..Len(executions) /\ Len(executions) \in Nat /\ \A d \in Executions : executions[d] \in ExecutionRows
      /\ ReadsTyped
    BY DEF ReadsInv, ReadsTyped, Executions
<1>2. Executions' = Executions /\ executions'[e] = x /\ \A d \in Executions : d # e => executions'[d] = executions[d]
    BY DEF Executions
<1>3. ReadsTyped'
  <2>1. executions' \in Seq(ExecutionRows)
    BY <1>1, ExceptSeq DEF ReadsTyped
  <2> QED BY <1>1, <2>1 DEF ReadsTyped, SameReading
<1>4. ASSUME NEW d \in Executions PROVE RowInv(executions[d])'
  <2>1. CASE d = e
    BY <1>2, <2>1 DEF RowInv, Alone, AtWork
  <2>2. CASE d # e
    <3>1. PICK r \in ExecutionRows : r = executions[d]
        BY <1>1
    <3>2. RowInv(r)
        BY <3>1 DEF ReadsInv
    <3>3. RowInv(r)'
        BY <1>1, <3>2, RowKept DEF SameReading
    <3> QED BY <1>2, <2>2, <3>1, <3>3 DEF RowInv, Alone, AtWork
  <2> QED BY <2>1, <2>2
<1>5. StartsApart'
  <2>1. \A d \in Executions : executions[d].began # NotStarted =>
            executions[d].began \in Nat /\ executions[d].began + Gap <= now
    BY <1>1 DEF ReadsInv, RowInv, ExecutionRows
  <2>2. Gap \in Nat /\ now \in Nat
    BY <1>1, RepositoryRowsAssumption DEF ReadsTyped
  <2>3. \A c, d \in Executions : c # d /\ executions[c].began # NotStarted /\ executions[d].began # NotStarted =>
            executions[c].began + Gap <= executions[d].began \/ executions[d].began + Gap <= executions[c].began
    BY DEF ReadsInv, StartsApart
  <2>4. ASSUME NEW c \in Executions, NEW d \in Executions, c # d,
               executions'[c].began # NotStarted, executions'[d].began # NotStarted
        PROVE  \/ executions'[c].began + Gap <= executions'[d].began
               \/ executions'[d].began + Gap <= executions'[c].began
    <3>1. CASE x.began = executions[e].began
        BY <1>2, <2>3, <2>4, <3>1
    <3>2. CASE x.began = now
        BY <1>2, <2>1, <2>3, <2>4, <3>2
    <3> QED BY <3>1, <3>2
  <2> QED BY <1>2, <2>4 DEF StartsApart
<1>6. ReaderInv'
  <2>1. ReaderInv /\ SameReading
    BY DEF ReadsInv
  <2>2. ASSUME reader.at \in {"row", "steps", "details"}, ~executions'[reader.exec].shared
        PROVE  /\ reader.exec \in Executions /\ ~executions[reader.exec].shared
               /\ reader.status = "COMPLETED" /\ ~reader'.entered => Shows(reader.exec)'
    <3>1. reader.exec \in Executions
        BY <2>1, <2>2 DEF ReaderInv
    <3>2. CASE reader.exec = e
      <4>1. ~x.shared /\ ~executions[e].shared
        BY <1>2, <2>2, <3>2
      <4>2. reader.status = "COMPLETED" /\ ~reader'.entered => executions[e].status = "COMPLETED"
        BY <2>1, <2>2, <3>2, <4>1 DEF ReaderInv, Shows, SameReading
      <4> QED BY <3>1, <3>2, <4>1, <4>2
    <3>3. CASE reader.exec # e
      <4>1. executions'[reader.exec] = executions[reader.exec]
        BY <1>2, <3>1, <3>3
      <4>2. ~executions[reader.exec].shared
        BY <2>2, <4>1
      <4>3. reader.status = "COMPLETED" /\ ~reader'.entered => Shows(reader.exec)
        BY <2>1, <2>2, <4>2 DEF ReaderInv, SameReading
      <4> QED BY <2>1, <3>1, <4>1, <4>2, <4>3 DEF Shows, StepsOf, SameReading
    <3> QED BY <3>2, <3>3
  <2>3. ReadInOrder => ReadInOrder'
    BY <2>1 DEF ReadInOrder, SameReading
  <2> QED BY <1>2, <2>1, <2>2, <2>3 DEF ReaderInv, SameReading
<1> QED BY <1>2, <1>3, <1>4, <1>5, <1>6 DEF ReadsInv

\* What there is to know of the row an executor writes.
LEMMA RowAtHand ==
    ASSUME ReadsInv, NEW e \in Executions
    PROVE  /\ executions[e] \in ExecutionRows /\ RowInv(executions[e])
           /\ executions[e].at \in Seq(Entries) /\ executions[e].steps \in Seq(RunStepRows)
           /\ now \in Nat /\ Gap \in Nat \ {0} /\ repository \in InUse /\ ReadsTyped
<1>1. executions[e] \in ExecutionRows
    BY DEF ReadsInv, ReadsTyped, Executions
<1> QED BY <1>1, RepositoryRowsAssumption DEF ReadsInv, ReadsTyped, ExecutionRows

\* An executor who leaves the reader alone has read nothing of it.
LEMMA ReaderAlone == ASSUME UNCHANGED reader PROVE SameReading
BY DEF SameReading

\* One element of a sequence is replaced.
LEMMA ElementReplaced ==
    ASSUME NEW S, NEW s \in Seq(S), NEW k \in 1..Len(s), NEW new \in S, NEW t, t = [s EXCEPT ![k] = new]
    PROVE  /\ t \in Seq(S) /\ Len(t) = Len(s) /\ t[k] = new
           /\ \A i \in 1..Len(s) : i # k => t[i] = s[i]
<1>1. DOMAIN s = 1..Len(s)
    OBVIOUS
<1>2. t \in Seq(S) /\ Len(t) = Len(s)
    BY <1>1, ExceptSeq
<1> QED BY <1>1, <1>2

\* An execution is entered: its executor is the last, and alone if nobody is at work.
LEMMA EnterWriteKeeps ==
    ASSUME ClocksAgree, ReadsInv, NEW e \in Executions, EnterWrite(e)
    PROVE  ReadsInv'
<1>1. PICK r \in ExecutionRows : r = executions[e]
    BY RowAtHand
<1>2. /\ RowInv(r) /\ r.at \in Seq(Entries) /\ r.steps \in Seq(RunStepRows)
      /\ now \in Nat /\ Gap \in Nat \ {0} /\ repository \in InUse /\ ReadsTyped
    BY <1>1, RowAtHand
<1>3. PICK skew \in Skews :
          executions' = [executions EXCEPT
              ![e] = [@ EXCEPT !.status = "STARTED", !.start = now + skew, !.began = now,
                               !.shared = executions[e].shared \/ \E x \in Executors(e) : Phase(x, e) # "out",
                               !.at = Append(executions[e].at,
                                             [phase |-> "entered", step |-> 0, ahead |-> skew])]]
    BY DEF EnterWrite
<1>4. /\ now' = now + Gap /\ UNCHANGED repository
      /\ reader' = [reader EXCEPT !.entered = @ \/ reader.exec = e]
    BY DEF EnterWrite, idleVars
<1>5. skew \in Nat /\ now + skew \in Nat
    BY <1>2, RepositoryRowsAssumption
<1>6. PICK c \in Entries : c = [phase |-> "entered", step |-> 0, ahead |-> skew]
    BY <1>5 DEF Entries
<1> DEFINE Entered == [executions[e] EXCEPT
              !.status = "STARTED", !.start = now + skew, !.began = now,
              !.shared = executions[e].shared \/ \E x \in Executors(e) : Phase(x, e) # "out",
              !.at = Append(executions[e].at, c)]
<1>7. executions' = [executions EXCEPT ![e] = Entered]
    BY <1>3, <1>6
<1>8. /\ Append(r.at, c) \in Seq(Entries) /\ Len(r.at) \in Nat /\ DOMAIN r.at = 1..Len(r.at)
      /\ Len(Append(r.at, c)) = Len(r.at) + 1 /\ Append(r.at, c)[Len(r.at) + 1] = c
      /\ \A k \in 1..Len(r.at) : Append(r.at, c)[k] = r.at[k]
    BY <1>2, <1>6
<1>9. PICK at \in Seq(Entries) : at = Append(r.at, c)
    BY <1>8
<1>10. /\ Entered \in ExecutionRows
       /\ Entered.status = "STARTED" /\ Entered.start = now + skew /\ Entered.began = now
       /\ Entered.at = at /\ Entered.steps = r.steps
       /\ Entered.shared <=> r.shared \/ \E k \in Executors(e) : Phase(k, e) # "out"
    BY <1>1, <1>2, <1>5, <1>9 DEF ExecutionRows, Statuses, Running
<1> HIDE DEF Entered
<1>11. PICK x \in ExecutionRows : x = Entered
    BY <1>10
<1>12. /\ executions' = [executions EXCEPT ![e] = x]
       /\ x.status = "STARTED" /\ x.start = now + skew /\ x.began = now
       /\ x.at = at /\ x.steps = r.steps
       /\ x.shared <=> r.shared \/ \E k \in Executors(e) : Phase(k, e) # "out"
    BY <1>7, <1>10, <1>11
<1>13. x.start # NotStarted /\ x.began # NotStarted /\ x.start - x.began = skew /\ x.began + Gap <= now'
    BY <1>2, <1>4, <1>5, <1>12 DEF NotStarted
<1>14. \A k \in AtWork(x) : k = Len(r.at) + 1 \/ k \in AtWork(r)
    BY <1>8, <1>9, <1>12 DEF AtWork
<1>15. /\ x.at[Len(r.at) + 1] = c /\ Len(x.at) = Len(r.at) + 1
       /\ c.phase = "entered" /\ c.ahead = skew
       /\ \A k \in AtWork(r) : x.at[k] = r.at[k]
    BY <1>6, <1>8, <1>9, <1>12 DEF AtWork
<1>16. \A k \in AtWork(x) : /\ x.at[k].ahead \in Skews
                            /\ x.at[k].phase # "entered" => x.at[k].step \in 1..Len(x.steps)
    BY <1>2, <1>12, <1>14, <1>15 DEF RowInv
<1>17. ASSUME repository # "mysqlDrizzle", Alone(r), NEW i \in 1..Len(r.steps)
       PROVE  r.steps[i].created < Stamp(skew)'
  <2>1. r.steps # <<>>
    BY <1>2, <1>17
  <2>2. r.steps[i] \in RunStepRows /\ r.start # NotStarted
    BY <1>2, <1>17, <2>1 DEF RowInv
  <2>3. r.start - r.began \in Skews /\ r.steps[i].created < Stamp(r.start - r.began)
    BY <1>2, <1>17, <2>2 DEF RowInv, Alone
  <2>4. PICK k \in Skews : k = r.start - r.began
    BY <2>3
  <2>5. Stamp(k) \in Nat /\ Stamp(skew)' \in Nat /\ Stamp(k) < Stamp(skew)'
    BY <1>2, <1>4, StampsGrow
  <2> QED BY <2>2, <2>3, <2>4, <2>5 DEF RunStepRows
<1>18. ~x.shared => ~r.shared /\ AtWork(r) = {}
    BY <1>1, <1>8, <1>12 DEF AtWork, Executors, Phase
<1>19. ASSUME ~x.shared PROVE Alone(x)'
  <2>1. Alone(r) /\ AtWork(r) = {}
    BY <1>2, <1>18, <1>19 DEF RowInv
  <2>2. \A k \in AtWork(x) : k = Len(x.at) /\ x.at[k] = c
    BY <1>14, <1>15, <2>1
  <2>3. repository # "mysqlDrizzle" => CreatedInOrder(x.steps)
    BY <1>12, <2>1 DEF Alone
  <2> QED BY <1>4, <1>12, <1>13, <1>15, <1>17, <2>1, <2>2, <2>3 DEF Alone, AtWork
<1>20. RowInv(x)'
    BY <1>13, <1>16, <1>19 DEF RowInv, AtWork
<1>21. SameReading /\ (reader.exec = e => reader'.entered)
    BY <1>2, <1>4 DEF SameReading, ReadsTyped
<1>22. now' \in Nat /\ now <= now'
    BY <1>2, <1>4
<1>23. r.shared => x.shared
    BY <1>12
<1> QED BY <1>1, <1>4, <1>12, <1>20, <1>21, <1>22, <1>23, RowWritten

\* An executor's step leaves the execution's start and the other executors alone.
MovesOn(r, k, x) ==
    /\ x.start = r.start /\ x.began = r.began /\ x.shared = r.shared
    /\ Len(x.at) = Len(r.at) /\ \A i \in 1..Len(x.at) : i # k => x.at[i] = r.at[i]
    /\ Len(r.steps) <= Len(x.steps)
    /\ x.at[k].phase # "out" => /\ x.at[k].ahead = r.at[k].ahead
                                /\ x.at[k].phase # "entered" => x.at[k].step \in 1..Len(x.steps)

\* The executor who was alone on the row leaves it as one alone on it does.
StaysAlone(r, k, x) ==
    /\ x.at[k].phase # "out" =>
           /\ x.status # "COMPLETED"
           /\ x.at[k].phase # "entered" => x.at[k].step = Len(x.steps)
           /\ x.at[k].phase = "done" => x.steps[Len(x.steps)].ended
    /\ x.status = "COMPLETED" /\ reader.wants = "details" =>
           x.steps # <<>> /\ x.steps[Len(x.steps)].ended
    /\ repository # "mysqlDrizzle" =>
           /\ CreatedInOrder(x.steps)
           /\ \A i \in 1..Len(x.steps) : x.steps[i].created < Stamp(r.start - r.began)'

(***************************************************************************)
(* A step of one executor: his place among the calls and the step rows     *)
(* change, nothing that tells when the execution began.                    *)
(***************************************************************************)
LEMMA ExecutorWrites ==
    ASSUME ReadsInv, NEW e \in Executions, NEW r, r = executions[e],
           NEW k \in AtWork(r), NEW x \in ExecutionRows,
           executions' = [executions EXCEPT ![e] = x],
           UNCHANGED <<repository, reader>>, now' \in Nat, now <= now',
           MovesOn(r, k, x), ~r.shared /\ Alone(r) => StaysAlone(r, k, x)
    PROVE  ReadsInv'
<1> USE DEF MovesOn
<1>1. /\ r \in ExecutionRows /\ RowInv(r) /\ ReadsTyped /\ now \in Nat
      /\ r.at \in Seq(Entries) /\ k \in 1..Len(r.at) /\ r.at[k].phase # "out"
    BY RowAtHand DEF AtWork
<1>2. Len(r.steps) \in Nat /\ Len(x.steps) \in Nat /\ Len(x.at) \in Nat
  <2>1. r.steps \in Seq(RunStepRows) /\ x.steps \in Seq(RunStepRows) /\ x.at \in Seq(Entries)
    BY <1>1 DEF ExecutionRows
  <2> QED BY <2>1
<1>4. r.start # NotStarted
    BY <1>1 DEF RowInv
<1>5. \A i \in AtWork(x) : i = k \/ (i \in AtWork(r) /\ x.at[i] = r.at[i])
    BY DEF AtWork
<1>6. ASSUME NEW i \in AtWork(x)
      PROVE  x.at[i].ahead \in Skews /\ (x.at[i].phase # "entered" => x.at[i].step \in 1..Len(x.steps))
  <2>1. CASE i = k
    <3>1. x.at[k].phase # "out" /\ r.at[k].ahead \in Skews
        BY <1>1, <1>6, <2>1 DEF AtWork, RowInv
    <3> QED BY <2>1, <3>1
  <2>2. CASE i \in AtWork(r) /\ x.at[i] = r.at[i]
    <3>1. r.at[i].ahead \in Skews /\ (r.at[i].phase # "entered" => r.at[i].step \in 1..Len(r.steps))
        BY <1>1, <2>2 DEF RowInv
    <3> QED BY <1>2, <2>2, <3>1
  <2> QED BY <1>5, <2>1, <2>2
<1>7. ASSUME ~r.shared PROVE Alone(x)'
  <2>1. Alone(r) /\ k = Len(r.at) /\ AtWork(r) = {k} /\ r.at[k].ahead = r.start - r.began
    BY <1>1, <1>7 DEF RowInv, Alone
  <2>2. \A i \in AtWork(x) : i = k /\ k = Len(x.at) /\ x.at[k].phase # "out"
    BY <1>5, <2>1 DEF AtWork
  <2>3. repository' = repository /\ reader'.wants = reader.wants
    OBVIOUS
  <2>4. repository # "mysqlDrizzle" =>
            CreatedInOrder(x.steps) /\ \A i \in 1..Len(x.steps) : x.steps[i].created < Stamp(x.start - x.began)'
    BY <1>7, <2>1 DEF StaysAlone
  <2>5. x.status = "COMPLETED" /\ reader.wants = "details" => x.steps # <<>> /\ x.steps[Len(x.steps)].ended
    BY <1>7, <2>1 DEF StaysAlone
  <2>6. \A i \in AtWork(x) :
            /\ i = Len(x.at) /\ x.status # "COMPLETED" /\ x.at[i].ahead = x.start - x.began
            /\ x.at[i].phase # "entered" => x.at[i].step = Len(x.steps)
            /\ x.at[i].phase = "done" => x.steps[Len(x.steps)].ended
    BY <1>7, <2>1, <2>2 DEF StaysAlone
  <2> QED BY <2>3, <2>4, <2>5, <2>6 DEF Alone, AtWork
<1>8. RowInv(x)'
  <2>1. x.start # NotStarted /\ x.began # NotStarted /\ x.start - x.began \in Skews /\ x.began + Gap <= now
    BY <1>1, <1>4 DEF RowInv
  <2>2. x.began + Gap <= now'
    BY <1>1, <2>1, RepositoryRowsAssumption DEF ExecutionRows
  <2> QED BY <1>6, <1>7, <2>1, <2>2 DEF RowInv, AtWork
<1>9. r.shared \/ r.status # "COMPLETED"
    BY <1>1 DEF RowInv, Alone
<1> QED BY <1>8, <1>9, ReaderAlone, RowWritten

\* A step begins: its row is the latest of the execution.
LEMMA BeginStepKeeps ==
    ASSUME ReadsInv, NEW e \in Executions, NEW k \in Executors(e), BeginStep(k, e)
    PROVE  ReadsInv'
<1>1. PICK r \in ExecutionRows : r = executions[e]
    BY RowAtHand
<1>2. /\ RowInv(r) /\ r.at \in Seq(Entries) /\ r.steps \in Seq(RunStepRows)
      /\ now \in Nat /\ repository \in InUse /\ ReadsTyped
    BY <1>1, RowAtHand
<1>3. /\ k \in AtWork(r) /\ k \in 1..Len(r.at) /\ r.at[k] \in Entries
      /\ now' = now + 1 /\ UNCHANGED <<repository, reader>>
    BY <1>1, <1>2 DEF BeginStep, idleVars, Executors, Phase, AtWork
<1>4. PICK ahead \in Skews : ahead = r.at[k].ahead
    BY <1>2, <1>3 DEF RowInv
<1>5. Stamp(ahead) \in Nat
    BY <1>2, StampIsNatural
<1>6. PICK new \in RunStepRows : new = [created |-> Stamp(ahead), ended |-> FALSE, checkpoint |-> NoCheckpoint]
    BY <1>5 DEF RunStepRows, NoCheckpoint
<1>7. PICK n \in Nat : n = Len(r.steps)
    BY <1>2
<1>8. PICK c \in Entries : c = [phase |-> "running", step |-> n + 1, ahead |-> ahead]
  <2>1. ahead \in Nat /\ n + 1 \in Nat
    BY RepositoryRowsAssumption
  <2>2. [phase |-> "running", step |-> n + 1, ahead |-> ahead] \in Entries
    BY <2>1 DEF Entries
  <2> QED BY <2>2
<1>9. c.phase = "running" /\ c.step = n + 1 /\ c.ahead = r.at[k].ahead /\ new.created = Stamp(ahead)
    BY <1>4, <1>6, <1>8
<1>10. PICK at : at = [r.at EXCEPT ![k] = c]
    OBVIOUS
<1>11. at \in Seq(Entries) /\ Len(at) = Len(r.at) /\ at[k] = c /\ \A i \in 1..Len(at) : i # k => at[i] = r.at[i]
    BY <1>2, <1>3, <1>10, ElementReplaced
<1>12. PICK s \in Seq(RunStepRows) : s = Append(r.steps, new)
  <2>1. Append(r.steps, new) \in Seq(RunStepRows)
    BY <1>2
  <2> QED BY <2>1
<1>13. /\ Len(s) = n + 1 /\ s[n + 1] = new
       /\ \A i \in 1..n : s[i] = r.steps[i] /\ r.steps[i] \in RunStepRows
    BY <1>2, <1>7, <1>12
<1>14. PICK x \in ExecutionRows : x = [r EXCEPT !.at = at, !.steps = s]
    BY <1>11 DEF ExecutionRows
<1>15. /\ x.status = r.status /\ x.start = r.start /\ x.began = r.began /\ x.shared = r.shared
       /\ x.at = at /\ x.steps = s
    BY <1>14 DEF ExecutionRows
<1>16. executions' = [executions EXCEPT ![e] = x]
  <2> DEFINE Begun == [executions[e] EXCEPT !.at[k] = c, !.steps = Append(executions[e].steps, new)]
  <2>1. executions' = [executions EXCEPT ![e] = Begun]
    BY <1>1, <1>4, <1>6, <1>7, <1>8 DEF BeginStep, StepsOf
  <2>2. Begun = x
    BY <1>1, <1>10, <1>12, <1>14 DEF ExecutionRows
  <2> QED BY <2>1, <2>2
<1>17. ASSUME repository # "mysqlDrizzle", ~r.shared, Alone(r)
       PROVE  /\ CreatedInOrder(s)
              /\ \A i \in 1..Len(s) : s[i].created < Stamp(r.start - r.began)'
  <2>1. now' \in Nat /\ now < now' /\ ahead = r.start - r.began
    BY <1>2, <1>3, <1>4, <1>17 DEF Alone
  <2>2. Stamp(ahead)' \in Nat /\ Stamp(ahead) < Stamp(ahead)'
    BY <1>2, <1>3, <1>17, <2>1, StampsRise
  <2>3. \A i \in 1..n : r.steps[i].created \in Nat /\ r.steps[i].created < Stamp(ahead)
    BY <1>7, <1>13, <1>17, <2>1 DEF Alone, RunStepRows
  <2>4. \A i, j \in 1..n : i < j => r.steps[i].created < r.steps[j].created
    BY <1>7, <1>17 DEF Alone, CreatedInOrder
  <2>5. ASSUME NEW i \in 1..n + 1 PROVE s[i].created < Stamp(ahead)'
    <3>1. CASE i = n + 1
        BY <1>9, <1>13, <2>2, <3>1
    <3>2. CASE i \in 1..n
        BY <1>5, <1>13, <2>2, <2>3, <3>2, SMTT(20)
    <3> QED BY <3>1, <3>2
  <2>6. ASSUME NEW i \in 1..n + 1, NEW j \in 1..n + 1, i < j PROVE s[i].created < s[j].created
    <3>1. i \in 1..n
        BY <2>6
    <3>2. CASE j = n + 1
        BY <1>9, <1>13, <2>3, <3>1, <3>2
    <3>3. CASE j \in 1..n
        BY <1>13, <2>4, <2>6, <3>1, <3>3
    <3> QED BY <3>2, <3>3
  <2>7. Stamp(ahead)' = Stamp(r.start - r.began)'
    BY <2>1
  <2> QED BY <1>13, <2>5, <2>6, <2>7 DEF CreatedInOrder
<1>18. Alone(r) => r.status # "COMPLETED"
    BY <1>3 DEF Alone
<1>19. now' \in Nat /\ now <= now' /\ Len(r.steps) <= Len(x.steps)
       /\ x.at[k].step \in 1..Len(x.steps) /\ x.at[k].step = Len(x.steps)
    BY <1>2, <1>3, <1>7, <1>9, <1>11, <1>13, <1>15
<1>20. MovesOn(r, k, x)
    BY <1>9, <1>11, <1>15, <1>19 DEF MovesOn
<1>21. ~r.shared /\ Alone(r) => StaysAlone(r, k, x)
    BY <1>9, <1>11, <1>15, <1>17, <1>18, <1>19 DEF StaysAlone
<1> QED BY <1>1, <1>3, <1>16, <1>19, <1>20, <1>21, ExecutorWrites

\* The row with the running step of one executor and his place in it patched.
StepChange(r, k, c, new, x) ==
    /\ r.at[k].phase = "running" /\ new.created = r.steps[r.at[k].step].created
    /\ c.ahead = r.at[k].ahead /\ c.step = r.at[k].step
    /\ c.phase = "running" \/ (c.phase = "done" /\ new.ended)
    /\ x.status = r.status /\ x.start = r.start /\ x.began = r.began /\ x.shared = r.shared
    /\ x.at = [r.at EXCEPT ![k] = c] /\ x.steps = [r.steps EXCEPT ![r.at[k].step] = new]

(***************************************************************************)
(* A step row is patched by the executor whose step it is; the order of    *)
(* the rows stays, and so does what is known of the last one.              *)
(***************************************************************************)
LEMMA StepPatched ==
    ASSUME ReadsInv, NEW e \in Executions, NEW r, r = executions[e], NEW k \in AtWork(r),
           NEW new \in RunStepRows, NEW c \in Entries, NEW x \in ExecutionRows, StepChange(r, k, c, new, x),
           executions' = [executions EXCEPT ![e] = x], UNCHANGED <<repository, now, reader>>
    PROVE  ReadsInv'
<1> USE DEF StepChange
<1>1. /\ r \in ExecutionRows /\ RowInv(r) /\ now \in Nat
      /\ r.at \in Seq(Entries) /\ r.steps \in Seq(RunStepRows) /\ k \in 1..Len(r.at)
    BY RowAtHand DEF AtWork
<1>2. PICK m \in 1..Len(r.steps) : m = r.at[k].step
    BY <1>1 DEF RowInv
<1>3. Len(x.at) = Len(r.at) /\ x.at[k] = c /\ \A i \in 1..Len(x.at) : i # k => x.at[i] = r.at[i]
    BY <1>1, ElementReplaced
<1>4. Len(x.steps) = Len(r.steps) /\ x.steps[m] = new /\ \A i \in 1..Len(r.steps) : i # m => x.steps[i] = r.steps[i]
    BY <1>1, <1>2, ElementReplaced
<1>5. \A i \in 1..Len(r.steps) : x.steps[i].created = r.steps[i].created
    BY <1>2, <1>4
<1>6. ASSUME ~r.shared, Alone(r)
      PROVE  /\ x.status # "COMPLETED" /\ c.step = Len(x.steps)
             /\ c.phase = "done" => x.steps[Len(x.steps)].ended
             /\ repository # "mysqlDrizzle" =>
                    /\ CreatedInOrder(x.steps)
                    /\ \A i \in 1..Len(x.steps) : x.steps[i].created < Stamp(r.start - r.began)'
  <2>1. r.status # "COMPLETED" /\ m = Len(r.steps)
    BY <1>2, <1>6 DEF Alone
  <2>2. c.phase = "done" => x.steps[Len(x.steps)].ended
    BY <1>4, <2>1
  <2>3. Stamp(r.start - r.began)' = Stamp(r.start - r.began)
    BY DEF Stamp, CreateStmt, Does
  <2>4. repository # "mysqlDrizzle" =>
            /\ CreatedInOrder(r.steps)
            /\ \A i \in 1..Len(r.steps) : r.steps[i].created < Stamp(r.start - r.began)
    BY <1>6 DEF Alone
  <2> QED BY <1>2, <1>4, <1>5, <2>1, <2>2, <2>3, <2>4 DEF CreatedInOrder
<1>7. /\ now' \in Nat /\ now <= now' /\ Len(r.steps) <= Len(x.steps)
      /\ c.step \in 1..Len(x.steps) /\ c.phase \notin {"entered", "out"}
    BY <1>1, <1>2, <1>4
<1>8. MovesOn(r, k, x)
    BY <1>3, <1>7 DEF MovesOn
<1>9. ~r.shared /\ Alone(r) => StaysAlone(r, k, x)
    BY <1>3, <1>6, <1>7 DEF StaysAlone
<1> HIDE DEF StepChange
<1> QED BY <1>7, <1>8, <1>9, ExecutorWrites

\* The executor's step, as the two actions below find it.
LEMMA StepAtHand ==
    ASSUME ReadsInv, NEW e \in Executions, NEW k \in Executors(e), Phase(k, e) = "running"
    PROVE  LET r == executions[e] IN
           /\ k \in AtWork(r) /\ r.at[k].phase = "running" /\ r.at[k] \in Entries
           /\ r.at \in Seq(Entries) /\ k \in 1..Len(r.at)
           /\ r.steps \in Seq(RunStepRows) /\ r.at[k].step \in 1..Len(r.steps)
           /\ r.steps[r.at[k].step] \in RunStepRows /\ r \in ExecutionRows
<1>1. PICK r \in ExecutionRows : r = executions[e]
    BY RowAtHand
<1>2. RowInv(r) /\ r.at \in Seq(Entries) /\ r.steps \in Seq(RunStepRows)
    BY <1>1, RowAtHand
<1>3. k \in AtWork(r) /\ k \in 1..Len(r.at) /\ r.at[k].phase = "running" /\ r.at[k] \in Entries
    BY <1>1, <1>2 DEF Executors, Phase, AtWork
<1>4. r.at[k].step \in 1..Len(r.steps)
    BY <1>2, <1>3 DEF RowInv
<1> QED BY <1>1, <1>2, <1>3, <1>4

\* The step's context is saved.
LEMMA SaveStepKeeps ==
    ASSUME ReadsInv, NEW e \in Executions, NEW k \in Executors(e), SaveStep(k, e)
    PROVE  ReadsInv'
<1>1. PICK r \in ExecutionRows : r = executions[e]
    BY RowAtHand
<1>2. Phase(k, e) = "running" /\ UNCHANGED <<repository, now, reader>>
    BY DEF SaveStep, idleVars
<1>3. /\ k \in AtWork(r) /\ r.at[k].phase = "running" /\ r.at[k] \in Entries
      /\ r.at \in Seq(Entries) /\ k \in 1..Len(r.at)
      /\ r.steps \in Seq(RunStepRows) /\ r.at[k].step \in 1..Len(r.steps)
      /\ r.steps[r.at[k].step] \in RunStepRows
    BY <1>1, <1>2, StepAtHand
<1>4. PICK m \in 1..Len(r.steps) : m = r.at[k].step
    BY <1>3
<1>5. PICK new \in RunStepRows : new = [r.steps[m] EXCEPT !.checkpoint = 1]
    BY <1>3, <1>4 DEF RunStepRows
<1>6. new.created = r.steps[m].created
    BY <1>3, <1>4, <1>5 DEF RunStepRows
<1>7. PICK s : s = [r.steps EXCEPT ![m] = new]
    OBVIOUS
<1>8. s \in Seq(RunStepRows)
    BY <1>3, <1>7, ElementReplaced
<1>9. PICK x \in ExecutionRows : x = [r EXCEPT !.steps = s]
    BY <1>8 DEF ExecutionRows
<1>10. /\ x.status = r.status /\ x.start = r.start /\ x.began = r.began /\ x.shared = r.shared
       /\ x.at = r.at /\ x.steps = s
    BY <1>9 DEF ExecutionRows
<1>11. executions' = [executions EXCEPT ![e] = x]
    BY <1>1, <1>4, <1>5, <1>7, <1>9 DEF SaveStep, StepOf
<1>12. r.at = [r.at EXCEPT ![k] = r.at[k]]
    BY <1>3
<1>13. PICK c \in Entries : c = r.at[k]
    BY <1>3
<1>14. x.at = [r.at EXCEPT ![k] = c] /\ x.steps = [r.steps EXCEPT ![r.at[k].step] = new]
    BY <1>4, <1>7, <1>10, <1>12, <1>13
<1>15. StepChange(r, k, c, new, x)
    BY <1>3, <1>4, <1>6, <1>10, <1>13, <1>14 DEF StepChange
<1> QED BY <1>1, <1>2, <1>3, <1>11, <1>15, StepPatched

\* The step ends.
LEMMA EndStepKeeps ==
    ASSUME ReadsInv, NEW e \in Executions, NEW k \in Executors(e), EndStep(k, e)
    PROVE  ReadsInv'
<1>1. PICK r \in ExecutionRows : r = executions[e]
    BY RowAtHand
<1>2. Phase(k, e) = "running" /\ UNCHANGED <<repository, now, reader>>
    BY DEF EndStep, idleVars
<1>3. /\ k \in AtWork(r) /\ r.at[k].phase = "running" /\ r.at[k] \in Entries
      /\ r.at \in Seq(Entries) /\ k \in 1..Len(r.at)
      /\ r.steps \in Seq(RunStepRows) /\ r.at[k].step \in 1..Len(r.steps)
      /\ r.steps[r.at[k].step] \in RunStepRows
    BY <1>1, <1>2, StepAtHand
<1>4. PICK m \in 1..Len(r.steps) : m = r.at[k].step
    BY <1>3
<1>5. PICK new \in RunStepRows : new = [r.steps[m] EXCEPT !.ended = TRUE]
    BY <1>3, <1>4 DEF RunStepRows
<1>6. new.created = r.steps[m].created /\ new.ended
    BY <1>3, <1>4, <1>5 DEF RunStepRows
<1>7. PICK c \in Entries : c = [r.at[k] EXCEPT !.phase = "done"]
    BY <1>3 DEF Entries
<1>8. c.phase = "done" /\ c.step = r.at[k].step /\ c.ahead = r.at[k].ahead
    BY <1>3, <1>7 DEF Entries
<1>9. PICK s, at : s = [r.steps EXCEPT ![m] = new] /\ at = [r.at EXCEPT ![k] = c]
    OBVIOUS
<1>10. s \in Seq(RunStepRows) /\ at \in Seq(Entries)
    BY <1>3, <1>9, ElementReplaced
<1>11. PICK x \in ExecutionRows : x = [r EXCEPT !.steps = s, !.at = at]
    BY <1>10 DEF ExecutionRows
<1>12. /\ x.status = r.status /\ x.start = r.start /\ x.began = r.began /\ x.shared = r.shared
       /\ x.at = at /\ x.steps = s
    BY <1>11 DEF ExecutionRows
<1>13. executions' = [executions EXCEPT ![e] = x]
    BY <1>1, <1>4, <1>5, <1>7, <1>9, <1>11 DEF EndStep, StepOf
<1>14. x.at = [r.at EXCEPT ![k] = c] /\ x.steps = [r.steps EXCEPT ![r.at[k].step] = new]
    BY <1>4, <1>9, <1>12
<1>15. StepChange(r, k, c, new, x)
    BY <1>3, <1>4, <1>6, <1>8, <1>12, <1>14 DEF StepChange
<1> QED BY <1>1, <1>2, <1>3, <1>13, <1>15, StepPatched

(***************************************************************************)
(* An executor is over, with a last write or without.                      *)
(***************************************************************************)
LEMMA ExecutorOver ==
    ASSUME ReadsInv, NEW e \in Executions, NEW k \in Executors(e), Phase(k, e) # "out", NEW final \in Statuses,
           final = executions[e].status \/ (final = "COMPLETED" /\ reader.wants = "details" => Phase(k, e) = "done"),
           executions' = [executions EXCEPT ![e] = [@ EXCEPT !.status = final, !.at[k] = Out]],
           UNCHANGED <<repository, now, reader>>
    PROVE  ReadsInv'
<1>1. PICK r \in ExecutionRows : r = executions[e]
    BY RowAtHand
<1>2. /\ RowInv(r) /\ r.at \in Seq(Entries) /\ r.steps \in Seq(RunStepRows) /\ now \in Nat
      /\ k \in AtWork(r) /\ k \in 1..Len(r.at)
    BY <1>1, RowAtHand DEF Executors, Phase, AtWork
<1>3. PICK c \in Entries : c = Out /\ c.phase = "out"
  <2>1. Out \in Entries /\ Out.phase = "out"
    BY DEF Entries, Out
  <2> QED BY <2>1
<1>4. PICK at : at = [r.at EXCEPT ![k] = c]
    OBVIOUS
<1>5. at \in Seq(Entries) /\ Len(at) = Len(r.at) /\ at[k] = c /\ \A i \in 1..Len(at) : i # k => at[i] = r.at[i]
    BY <1>2, <1>4, ElementReplaced
<1>6. PICK x \in ExecutionRows : x = [r EXCEPT !.status = final, !.at = at]
    BY <1>5 DEF ExecutionRows
<1>7. /\ x.status = final /\ x.start = r.start /\ x.began = r.began /\ x.shared = r.shared
      /\ x.at = at /\ x.steps = r.steps
    BY <1>6 DEF ExecutionRows
<1>8. executions' = [executions EXCEPT ![e] = x]
    BY <1>1, <1>3, <1>4, <1>6
<1>9. now' \in Nat /\ now <= now' /\ Len(r.steps) <= Len(x.steps)
    BY <1>2, <1>7
<1>10. ASSUME Alone(r)
       PROVE  /\ x.status = "COMPLETED" /\ reader.wants = "details" =>
                     x.steps # <<>> /\ x.steps[Len(x.steps)].ended
              /\ repository # "mysqlDrizzle" =>
                     /\ CreatedInOrder(x.steps)
                     /\ \A i \in 1..Len(x.steps) : x.steps[i].created < Stamp(r.start - r.began)'
  <2>1. ASSUME final = "COMPLETED", reader.wants = "details"
        PROVE  r.steps # <<>> /\ r.steps[Len(r.steps)].ended
    <3>1. r.at[k].phase = "done"
        BY <1>1, <1>2, <1>10, <2>1 DEF Phase, Alone
    <3>2. r.steps[Len(r.steps)].ended /\ r.at[k].step \in 1..Len(r.steps)
        BY <1>2, <1>10, <3>1 DEF Alone, RowInv
    <3> QED BY <3>2
  <2>2. Stamp(r.start - r.began)' = Stamp(r.start - r.began)
    BY DEF Stamp, CreateStmt, Does
  <2> QED BY <1>7, <1>10, <2>1, <2>2 DEF Alone
<1>11. MovesOn(r, k, x) /\ (~r.shared /\ Alone(r) => StaysAlone(r, k, x))
    BY <1>3, <1>5, <1>7, <1>9, <1>10 DEF MovesOn, StaysAlone
<1> QED BY <1>1, <1>2, <1>8, <1>9, <1>11, ExecutorWrites

\* The executor writes how the job ended.
LEMMA EndWriteKeeps ==
    ASSUME ReadsInv, NEW e \in Executions, NEW k \in Executors(e), NEW said \in {"COMPLETED", "FAILED"},
           EndWrite(k, e, said)
    PROVE  ReadsInv'
BY ExecutorOver DEF EndWrite, idleVars, Statuses

\* The executor dies.
LEMMA ExecutorDiesKeeps ==
    ASSUME ReadsInv, NEW e \in Executions, NEW k \in Executors(e), ExecutorDies(k, e)
    PROVE  ReadsInv'
<1>1. PICK r \in ExecutionRows : r = executions[e]
    BY RowAtHand
<1>2. PICK final \in Statuses : final = r.status
    BY DEF ExecutionRows
<1> DEFINE Died == [executions[e] EXCEPT !.at[k] = Out]
<1>3. executions' = [executions EXCEPT ![e] = Died]
    BY DEF ExecutorDies
<1>4. Died = [executions[e] EXCEPT !.status = final, !.at[k] = Out]
    BY <1>1, <1>2 DEF ExecutionRows
<1>5. executions' = [executions EXCEPT ![e] = [@ EXCEPT !.status = final, !.at[k] = Out]]
    BY <1>3, <1>4
<1>6. final = executions[e].status
    BY <1>1, <1>2
<1>7. Phase(k, e) # "out" /\ UNCHANGED <<repository, now, reader>>
    BY DEF ExecutorDies, idleVars
<1> HIDE DEF Died
<1> QED BY <1>5, <1>6, <1>7, ExecutorOver

\* The operator stops the execution.
LEMMA StopWriteKeeps ==
    ASSUME ReadsInv, NEW e \in Executions, StopWrite(e)
    PROVE  ReadsInv'
<1>1. PICK r \in ExecutionRows : r = executions[e]
    BY RowAtHand
<1>2. RowInv(r) /\ now \in Nat /\ ReadsTyped
    BY <1>1, RowAtHand
<1>3. r.status # "COMPLETED" /\ UNCHANGED <<repository, now, reader>>
    BY <1>1 DEF StopWrite, Running, idleVars
<1>4. PICK x \in ExecutionRows : x = [r EXCEPT !.status = "STOPPED"]
    BY DEF ExecutionRows, Statuses
<1>5. /\ x.status = "STOPPED" /\ x.start = r.start /\ x.began = r.began /\ x.shared = r.shared
      /\ x.at = r.at /\ x.steps = r.steps
    BY <1>4 DEF ExecutionRows
<1>6. executions' = [executions EXCEPT ![e] = x]
    BY <1>1, <1>4 DEF StopWrite
<1>7. now' \in Nat /\ now <= now'
    BY <1>2, <1>3
<1>8. RowInv(r)'
    BY <1>2, <1>3, <1>7, RowKept
<1>9. AtWork(x) = AtWork(r)
    BY <1>5 DEF AtWork
<1>10. Alone(r)' => Alone(x)'
    BY <1>5, <1>9 DEF Alone, AtWork
<1>11. RowInv(x)'
    BY <1>5, <1>8, <1>9, <1>10 DEF RowInv, AtWork
<1> QED BY <1>1, <1>3, <1>5, <1>6, <1>7, <1>11, ReaderAlone, RowWritten

\* Another execution of the instance is launched.
LEMMA LaunchExecutionKeeps ==
    ASSUME ReadsInv, LaunchExecution
    PROVE  ReadsInv'
<1>1. PICK x \in ExecutionRows :
          x = [status |-> "STARTING", start |-> NotStarted, began |-> NotStarted, shared |-> FALSE,
               at |-> <<>>, steps |-> <<>>]
  <2>1. <<>> \in Seq(RunStepRows) /\ <<>> \in Seq(Entries) /\ "STARTING" \in Statuses /\ NotStarted \in Nat \cup {NotStarted}
    BY DEF Statuses, Running
  <2> QED BY <2>1 DEF ExecutionRows
<1>2. executions' = Append(executions, x) /\ UNCHANGED <<repository, now, reader>>
    BY <1>1 DEF LaunchExecution, idleVars
<1>3. ReadsTyped /\ StartsApart /\ ReaderInv /\ \A d \in Executions : RowInv(executions[d])
    BY DEF ReadsInv
<1>4. /\ executions' \in Seq(ExecutionRows) /\ Len(executions) \in Nat /\ Executions = 1..Len(executions)
      /\ Executions' = 1..Len(executions) + 1
      /\ executions'[Len(executions) + 1] = x
      /\ \A d \in 1..Len(executions) : executions'[d] = executions[d] /\ executions[d] \in ExecutionRows
    BY <1>2, <1>3 DEF ReadsTyped, Executions
<1>5. \A d \in Executions' : d \in Executions \/ d = Len(executions) + 1
    BY <1>4
<1>6. RowInv(x)'
    BY <1>1 DEF RowInv, Alone, AtWork, CreatedInOrder
<1>7. ASSUME NEW d \in Executions' PROVE RowInv(executions[d])'
  <2>1. CASE d = Len(executions) + 1
    BY <1>4, <1>6, <2>1 DEF RowInv, Alone, AtWork
  <2>2. CASE d \in Executions
    <3>1. PICK r \in ExecutionRows : r = executions[d]
        BY <1>4, <2>2
    <3>2. RowInv(r)
        BY <1>3, <2>2, <3>1
    <3>3. now \in Nat /\ now <= now' /\ now' \in Nat
        BY <1>2, <1>3 DEF ReadsTyped
    <3>4. RowInv(r)'
        BY <1>2, <1>3, <3>2, <3>3, RowKept
    <3> QED BY <1>4, <2>2, <3>1, <3>4 DEF RowInv, Alone, AtWork
  <2> QED BY <1>5, <2>1, <2>2
<1>8. StartsApart'
    BY <1>1, <1>3, <1>4, <1>5, SMTT(20) DEF StartsApart
<1>9. ReaderInv'
    BY <1>2, <1>3, <1>4, SMTT(20) DEF ReaderInv, Shows, StepsOf, ReadInOrder
<1>10. ReadsTyped'
    BY <1>2, <1>3, <1>4 DEF ReadsTyped
<1> QED BY <1>7, <1>8, <1>9, <1>10 DEF ReadsInv

\* The rows while only time passes.
LEMMA RowsStay ==
    ASSUME ReadsInv, UNCHANGED <<repository, executions>>, reader'.wants = reader.wants, now' \in Nat, now <= now'
    PROVE  (\A e \in Executions : RowInv(executions[e]))' /\ StartsApart'
<1>1. Executions' = Executions /\ ReadsTyped /\ \A e \in Executions : executions[e] \in ExecutionRows /\ RowInv(executions[e])
    BY DEF ReadsInv, ReadsTyped, Executions
<1>2. ASSUME NEW e \in Executions PROVE RowInv(executions[e])'
  <2>1. PICK r \in ExecutionRows : r = executions[e] /\ RowInv(r)
    BY <1>1
  <2>2. RowInv(r)'
    BY <1>1, <2>1, RowKept
  <2> QED BY <2>1, <2>2 DEF RowInv, Alone, AtWork
<1>3. StartsApart'
    BY <1>1 DEF ReadsInv, StartsApart
<1> QED BY <1>1, <1>2, <1>3

\* The other workloads leave the reader alone.
LEMMA ReaderWaits ==
    ASSUME ReadsInv, UNCHANGED <<repository, readsVars>>, now' \in Nat, now <= now'
    PROVE  ReadsInv'
<1>1. UNCHANGED <<repository, executions, reader>> /\ ReadsTyped /\ ReaderInv
    BY DEF readsVars, ReadsInv
<1>2. (\A e \in Executions : RowInv(executions[e]))' /\ StartsApart'
    BY <1>1, RowsStay
<1>3. ReadsTyped' /\ ReaderInv'
    BY <1>1 DEF ReadsTyped, ReaderInv, Shows, StepsOf, ReadInOrder, Executions
<1> QED BY <1>2, <1>3 DEF ReadsInv

\* A statement of the reader changes no row.
LEMMA ReaderReads ==
    ASSUME ReadsInv, UNCHANGED <<repository, now, executions>>,
           DOMAIN reader' = DOMAIN reader, reader'.wants = reader.wants,
           reader'.at \in {"idle", "listed", "row", "steps", "details"}, ReaderInv'
    PROVE  ReadsInv'
<1>1. now \in Nat /\ now' \in Nat /\ now <= now'
    BY DEF ReadsInv, ReadsTyped
<1>2. (\A e \in Executions : RowInv(executions[e]))' /\ StartsApart'
    BY <1>1, RowsStay
<1>3. ReadsTyped'
    BY DEF ReadsInv, ReadsTyped
<1> QED BY <1>2, <1>3 DEF ReadsInv

\* A listing by start time has the execution that started last first.
LEMMA ListingOrdered ==
    ASSUME ClocksAgree, ReadsInv, repository # "inMemory", NEW wanted, NEW listed \in FindJobExecutions(wanted),
           NEW i \in DOMAIN listed, NEW j \in DOMAIN listed, i < j,
           executions[listed[i]].began # NotStarted, executions[listed[j]].began # NotStarted
    PROVE  executions[listed[i]].began > executions[listed[j]].began
<1>1. Does("findJobExecutions")[1].order = "startTime"
  <2>1. Behaves(repository, Adapters[repository])
    BY EveryAdapterBehaves, RepositoryRowsAssumption DEF ReadsInv, ReadsTyped
  <2> QED BY <2>1 DEF Behaves, FindsSteps, Does
<1>2. /\ listed[i] # listed[j] /\ listed[i] \in Executions /\ listed[j] \in Executions
      /\ executions[listed[i]].start # NotStarted /\ executions[listed[j]].start # NotStarted =>
            executions[listed[i]].start >= executions[listed[j]].start
    BY <1>1 DEF FindJobExecutions, Orders
<1>3. PICK d \in Executions, e \in Executions : d = listed[i] /\ e = listed[j]
    BY <1>2
<1>4. PICK q \in ExecutionRows, r \in ExecutionRows : q = executions[d] /\ r = executions[e]
    BY DEF ReadsInv, ReadsTyped, Executions
<1>5. /\ RowInv(q) /\ RowInv(r) /\ q.began # NotStarted /\ r.began # NotStarted
      /\ q.began + Gap <= r.began \/ r.began + Gap <= q.began
    BY <1>2, <1>3, <1>4 DEF ReadsInv, StartsApart
<1>6. /\ q.start # NotStarted /\ r.start # NotStarted
      /\ q.start - q.began \in Skews /\ r.start - r.began \in Skews
    BY <1>5 DEF RowInv
<1>7. q.start \in Nat /\ r.start \in Nat /\ q.began \in Nat /\ r.began \in Nat
    BY <1>5, <1>6 DEF ExecutionRows
<1>8. q.start >= r.start
    BY <1>2, <1>3, <1>4, <1>6
<1>9. PICK s \in Skews, t \in Skews : s = q.start - q.began /\ t = r.start - r.began
    BY <1>6
<1>10. s \in Nat /\ t \in Nat /\ Gap \in Nat \ {0} /\ Second \in Nat \ {0} /\ s + Second <= t + Gap
    BY RepositoryRowsAssumption DEF ClocksAgree
<1>11. q.began > r.began
    BY <1>5, <1>7, <1>8, <1>9, <1>10
<1> QED BY <1>3, <1>4, <1>11

\* findStepExecutions answers the steps of an execution that was never shared as they ran.
LEMMA StepsOrdered ==
    ASSUME ReadsInv, repository \notin {"mikroOrm", "mysqlDrizzle"}, NEW e \in Executions,
           ~executions[e].shared,
           NEW order \in FindStepExecutions(e), NEW i \in DOMAIN order, NEW j \in DOMAIN order, i < j
    PROVE  order[i] < order[j]
<1>1. Does("findStepExecutions")[1].order \in {"createdAt", "insertion"}
  <2>1. Behaves(repository, Adapters[repository])
    BY EveryAdapterBehaves, RepositoryRowsAssumption DEF ReadsInv, ReadsTyped
  <2> QED BY <2>1 DEF Behaves, FindsSteps, Does
<1>2. PICK r \in ExecutionRows : r = executions[e] /\ RowInv(r)
    BY DEF ReadsInv, ReadsTyped, Executions
<1>3. r.steps \in Seq(RunStepRows) /\ StepsOf(e) = r.steps /\ CreatedInOrder(r.steps)
    BY <1>2 DEF ExecutionRows, RowInv, Alone, StepsOf
<1>4. /\ order[i] \in DOMAIN r.steps /\ order[j] \in DOMAIN r.steps /\ order[i] # order[j]
      /\ order[i] < order[j] \/ r.steps[order[i]].created <= r.steps[order[j]].created
    BY <1>1, <1>3 DEF FindStepExecutions, Orders
<1>5. PICK m \in 1..Len(r.steps), n \in 1..Len(r.steps) : m = order[i] /\ n = order[j]
    BY <1>3, <1>4
<1>6. r.steps[m] \in RunStepRows /\ r.steps[n] \in RunStepRows /\ Len(r.steps) \in Nat
    BY <1>3
<1>7. n < m => r.steps[n].created < r.steps[m].created
    BY <1>3 DEF CreatedInOrder
<1>8. m < n
    BY <1>4, <1>5, <1>6, <1>7 DEF RunStepRows
<1> QED BY <1>5, <1>8

\* listJobExecutions.
LEMMA ListKeeps ==
    ASSUME ClocksAgree, ReadsInv, ListJobExecutions
    PROVE  ReadsInv'
<1>1. ReadsTyped /\ ReaderInv /\ reader.wants = "list" /\ UNCHANGED <<repository, now, executions>>
    BY DEF ReadsInv, ListJobExecutions, idleVars
<1>6. PICK wanted : \E listed \in FindJobExecutions(wanted) :
          reader' = [reader EXCEPT !.at = "listed",
                                   !.listed = [i \in DOMAIN listed |-> executions[listed[i]].began]]
    BY DEF ListJobExecutions
<1>2. PICK listed \in FindJobExecutions(wanted) :
          reader' = [reader EXCEPT !.at = "listed",
                                   !.listed = [i \in DOMAIN listed |-> executions[listed[i]].began]]
    BY <1>6
<1>3. /\ DOMAIN reader' = DOMAIN reader /\ reader'.wants = reader.wants /\ reader'.at = "listed"
      /\ reader'.order = reader.order
      /\ reader'.listed = [i \in DOMAIN listed |-> executions[listed[i]].began]
    BY <1>1, <1>2 DEF ReadsTyped
<1>4. repository # "inMemory" =>
        \A i, j \in DOMAIN listed :
            i < j /\ executions[listed[i]].began # NotStarted /\ executions[listed[j]].began # NotStarted =>
                executions[listed[i]].began > executions[listed[j]].began
    BY ListingOrdered
<1>5. ReaderInv'
    BY <1>1, <1>3, <1>4 DEF ReaderInv
<1> QED BY <1>1, <1>3, <1>5, ReaderReads

\* getJobExecutionDetails reads the row.
LEMMA ReadDetailsKeeps ==
    ASSUME ReadsInv, NEW e \in Executions, ReadDetails(e)
    PROVE  ReadsInv'
<1>1. ReadsTyped /\ ReaderInv /\ reader.wants = "details" /\ UNCHANGED <<repository, now, executions>>
    BY DEF ReadsInv, ReadDetails, idleVars
<1>2. /\ DOMAIN reader' = DOMAIN reader /\ reader'.wants = reader.wants /\ reader'.at = "row"
      /\ reader'.order = reader.order /\ reader'.listed = reader.listed
      /\ reader'.exec = e /\ reader'.status = executions[e].status
    BY <1>1 DEF ReadsTyped, ReadDetails
<1>3. ReaderInv'
    BY <1>1, <1>2 DEF ReaderInv, Shows, Executions
<1> QED BY <1>1, <1>2, <1>3, ReaderReads

\* Then the steps.
LEMMA ReadStepsKeeps ==
    ASSUME ReadsInv, ReadSteps
    PROVE  ReadsInv'
<1>1. ReadsTyped /\ ReaderInv /\ reader.at = "row" /\ UNCHANGED <<repository, now, executions>>
    BY DEF ReadsInv, ReadSteps, idleVars
<1>2. PICK e \in Executions : e = reader.exec
    BY <1>1 DEF ReaderInv
<1>3. /\ reader.wants = "details"
      /\ ~executions[e].shared /\ reader.status = "COMPLETED" /\ ~reader.entered =>
            executions[e].status = "COMPLETED"
    BY <1>1, <1>2 DEF ReaderInv, Shows
<1>4. PICK order \in FindStepExecutions(e) :
          reader' = [reader EXCEPT !.at = "steps", !.order = order,
                                   !.steps = [i \in DOMAIN StepsOf(e) |-> StepsOf(e)[i].ended]]
    BY <1>2 DEF ReadSteps
<1>5. /\ DOMAIN reader' = DOMAIN reader /\ reader'.wants = reader.wants /\ reader'.at = "steps"
      /\ reader'.order = order /\ reader'.listed = reader.listed
      /\ reader'.exec = e /\ reader'.status = reader.status /\ reader'.entered = reader.entered
      /\ reader'.steps = [i \in DOMAIN StepsOf(e) |-> StepsOf(e)[i].ended]
    BY <1>1, <1>2, <1>4 DEF ReadsTyped
<1>6. ~executions[e].shared /\ repository \notin {"mikroOrm", "mysqlDrizzle"} => ReadInOrder'
    BY <1>5, StepsOrdered DEF ReadInOrder
<1>7. ~executions[e].shared /\ reader.status = "COMPLETED" /\ ~reader.entered => Shows(reader.exec)'
    BY <1>1, <1>3, <1>5 DEF Shows, StepsOf
<1>8. ReaderInv'
    BY <1>1, <1>3, <1>5, <1>6, <1>7 DEF ReaderInv, Executions
<1> QED BY <1>1, <1>5, <1>8, ReaderReads

\* Then their contexts.
LEMMA ReadContextsKeeps ==
    ASSUME ReadsInv, ReadContexts
    PROVE  ReadsInv'
<1>1. ReadsTyped /\ ReaderInv /\ reader.at = "steps" /\ UNCHANGED <<repository, now, executions>>
    BY DEF ReadsInv, ReadContexts, idleVars
<1>2. PICK e \in Executions : e = reader.exec
    BY <1>1 DEF ReaderInv
<1>3. /\ DOMAIN reader' = DOMAIN reader /\ reader'.wants = reader.wants /\ reader'.at = "details"
      /\ reader'.order = reader.order /\ reader'.listed = reader.listed /\ reader'.steps = reader.steps
      /\ reader'.exec = e /\ reader'.status = reader.status /\ reader'.entered = reader.entered
      /\ reader'.contexts = Contexts(e)
    BY <1>1, <1>2 DEF ReadsTyped, ReadContexts
<1>4. ASSUME ~executions[e].shared, reader.status = "COMPLETED", ~reader.entered PROVE Shows(reader.exec)'
  <2>1. Shows(e)
    BY <1>1, <1>2, <1>4 DEF ReaderInv
  <2>2. reader.steps = [i \in DOMAIN StepsOf(e) |-> StepsOf(e)[i].ended] /\ executions[e].status = "COMPLETED"
    BY <1>1, <2>1 DEF Shows
  <2>3. Does("getExecutionContext")[1].absent = NoCheckpoint
    BY <1>1, AdapterIsKnown DEF ReadsTyped, AdapterKnown
  <2>4. DOMAIN reader.steps = DOMAIN StepsOf(e)
    BY <2>2
  <2>5. Contexts(e) = [i \in DOMAIN StepsOf(e) |-> StepsOf(e)[i].checkpoint]
    BY <2>3, <2>4 DEF Contexts
  <2> QED BY <1>1, <1>3, <2>2, <2>5 DEF Shows, StepsOf
<1>5. ReadInOrder => ReadInOrder'
    BY <1>3 DEF ReadInOrder
<1>6. ReaderInv'
    BY <1>1, <1>2, <1>3, <1>4, <1>5 DEF ReaderInv, Executions
<1> QED BY <1>1, <1>3, <1>6, ReaderReads

\* The other workloads at most make time pass.
LEMMA RowsWorkloadWaits ==
    ASSUME now \in Nat, RowsNext \/ UNCHANGED rowsVars
    PROVE  repository' = repository /\ now' \in Nat /\ now <= now'
<1>1. repository' = repository /\ now' \in {now, now + Gap}
  <2>1. ASSUME NEW w \in Writers,
               \/ DoUpdateTogether(w) \/ DoUpdateColumn(w) \/ DoReadRow(w) \/ DoFlushRow(w) \/ WriterDies(w)
        PROVE  repository' = repository /\ now' = now
    BY <2>1 DEF restartsVars, DoUpdateTogether, DoUpdateColumn, DoReadRow, DoFlushRow, WriterDies
  <2>2. CASE LocatePrior \/ DoCreateStep \/ DoCopyContext \/ DoSaveCheckpoint \/ DoFailStep \/ RunDies
    BY <2>2 DEF LocatePrior, DoCreateStep, DoCopyContext, DoSaveCheckpoint, DoFailStep, RunDies
  <2>3. CASE UNCHANGED rowsVars
    BY <2>3 DEF rowsVars, restartsVars
  <2> QED BY <2>1, <2>2, <2>3 DEF RowsNext
<1> QED BY <1>1, RepositoryRowsAssumption

\* Every step keeps the invariant.
LEMMA ReadsKeep == ClocksAgree /\ ReadsInv /\ [ReadsNext]_allVars => ReadsInv'
<1> SUFFICES ASSUME ClocksAgree, ReadsInv, [ReadsNext]_allVars PROVE ReadsInv'
    OBVIOUS
<1>1. CASE UNCHANGED readsVars /\ (RowsNext \/ UNCHANGED rowsVars)
    BY <1>1, RowsWorkloadWaits, ReaderWaits DEF ReadsInv, ReadsTyped
<1>2. CASE Unread /\ LaunchExecution
    BY <1>2, LaunchExecutionKeeps
<1>3. ASSUME NEW e \in Executions,
             EnterWrite(e) \/ (\E x \in Executors(e) : ExecutorStep(x, e)) \/ StopWrite(e) \/ ReadDetails(e)
      PROVE  ReadsInv'
  <2>1. CASE EnterWrite(e) \/ StopWrite(e) \/ ReadDetails(e)
    BY <2>1, EnterWriteKeeps, StopWriteKeeps, ReadDetailsKeeps
  <2>2. ASSUME NEW x \in Executors(e), ExecutorStep(x, e) PROVE ReadsInv'
    BY <2>2, BeginStepKeeps, SaveStepKeeps, EndStepKeeps, EndWriteKeeps, ExecutorDiesKeeps DEF ExecutorStep
  <2> QED BY <1>3, <2>1, <2>2
<1>4. CASE ListJobExecutions \/ ReadSteps \/ ReadContexts
    BY <1>4, ListKeeps, ReadStepsKeeps, ReadContextsKeeps
<1> QED BY <1>1, <1>2, <1>3, <1>4 DEF ReadsNext, allVars, ExecutorStep

\* The invariant gives what is shown.
LEMMA ReadsCoherent == ReadsInv => ExplorerCoherent
<1> SUFFICES ASSUME ReadsInv PROVE ExplorerCoherent
    OBVIOUS
<1>1. ReadsTyped /\ ReaderInv
    BY DEF ReadsInv
<1>2. ASSUME reader.at = "details", ~executions[reader.exec].shared, reader.status = "COMPLETED", ~reader.entered
      PROVE  LET last == Len(reader.steps) IN
             /\ reader.steps # <<>> /\ reader.steps[last]
             /\ reader.contexts[last] = StepsOf(reader.exec)[last].checkpoint
  <2>1. PICK r \in ExecutionRows : r = executions[reader.exec] /\ RowInv(r) /\ reader.wants = "details"
    BY <1>1, <1>2 DEF ReaderInv, ReadsInv, ReadsTyped, Executions
  <2>2. /\ r.status = "COMPLETED" /\ StepsOf(reader.exec) = r.steps
        /\ reader.steps = [i \in DOMAIN r.steps |-> r.steps[i].ended]
        /\ reader.contexts = [i \in DOMAIN r.steps |-> r.steps[i].checkpoint]
    BY <1>1, <1>2, <2>1 DEF ReaderInv, Shows, StepsOf
  <2>3. r.steps # <<>> /\ r.steps[Len(r.steps)].ended
    BY <1>2, <2>1, <2>2 DEF RowInv, Alone
  <2>4. r.steps \in Seq(RunStepRows)
    BY DEF ExecutionRows
  <2>5. Len(r.steps) \in DOMAIN r.steps /\ DOMAIN r.steps = 1..Len(r.steps) /\ Len(r.steps) \in Nat
    BY <2>3, <2>4
  <2>6. Len(reader.steps) = Len(r.steps)
    BY <2>2, <2>5
  <2> QED BY <2>2, <2>3, <2>5, <2>6
<1> QED BY <1>1, <1>2 DEF ExplorerCoherent, ReaderInv, ReadInOrder

(***************************************************************************)
(* JobExplorer can be relied on as far as one executor at a time writes:   *)
(* details that show COMPLETED show the last step ended with its context,  *)
(* the steps as they ran, and lists have the last entered first, if the    *)
(* clocks agree.  The row may fail, be stopped, lose its executor and be   *)
(* entered again, also after it COMPLETED; excepted are rows that two      *)
(* executors shared and, for COMPLETED, rows entered while they were read. *)
(***************************************************************************)
THEOREM ExplorerIsCoherent == ASSUME ClocksAgree PROVE ReadsSpec => []ExplorerCoherent
BY ReadsInitially, ReadsKeep, ReadsCoherent, PTL DEF ReadsSpec

=============================================================================
