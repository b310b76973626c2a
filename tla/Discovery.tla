------------------------------- MODULE Discovery -------------------------------
(***************************************************************************)
(* What BatchExplorer finds in a decorated class, what DefinitionCompiler  *)
(* makes of it, and which adapters NestBatchModule wires from the options  *)
(* it is given.  All of it is computed while the application starts.       *)
(*                                                                         *)
(* A class is [id, methods]; methods are in the order of allMethodNames:   *)
(* a class's own before those it inherits, an overridden one once.  Of a   *)
(* method only its decorators matter: [step, tasklet, item, partitions,    *)
(* schedule, goesTo], where goesTo is the target of its @OnTransition from *)
(* the step before, and a missing decorator is None.  (JobFlow checks the  *)
(* graphs; here classes only chain their steps.)                           *)
(***************************************************************************)
EXTENDS Integers, Sequences, FiniteSets, SequencesExt

None == "none"

-----------------------------------------------------------------------------
\* collectStepMethods, collectItemMethods, collectTransitionMethods.
CollectStepMethods(class) == SelectSeq(class.methods, LAMBDA m : m.step # None)
CollectItemMethods(class) == SelectSeq(class.methods, LAMBDA m : m.item # None)
CollectTransitionMethods(class) == SelectSeq(class.methods, LAMBDA m : m.goesTo # None)

\* The schedules of a class in their order, each under its job's id.
CollectSchedules(class) ==
    LET marked == SelectSeq(class.methods, LAMBDA m : m.schedule # None)
    IN  [i \in DOMAIN marked |-> [jobId |-> class.id, name |-> marked[i].schedule]]

DiscoverFromProviders(class) ==
    [jobId |-> class.id,
     steps |-> CollectStepMethods(class),
     items |-> CollectItemMethods(class),
     targets |-> {m.goesTo : m \in ToSet(CollectTransitionMethods(class))}]

(***************************************************************************)
(* The compiler.  One reader and one writer serve every chunk step of the  *)
(* class: findItemMethod answers the first of its kind.                    *)
(***************************************************************************)
FindItemMethod(found, kind) == {i \in DOMAIN found.items : found.items[i].item = kind}

BuildTaskletStep(step) == [id |-> step.step, ok |-> TRUE]

\* validatePartitions: absent, or a positive count.
BuildChunkStep(found, step) ==
    [id |-> step.step,
     ok |-> /\ FindItemMethod(found, "reader") # {}
            /\ FindItemMethod(found, "writer") # {}
            /\ step.partitions > 0]

BuildSteps(found) ==
    [i \in DOMAIN found.steps |->
        IF found.steps[i].tasklet THEN BuildTaskletStep(found.steps[i])
        ELSE BuildChunkStep(found, found.steps[i])]

\* A class compiles if its steps do and the validator accepts the graph:
\* steps there are, and every step but the first is some transition's target.
Compiles(found) ==
    LET steps == BuildSteps(found) IN
    /\ steps # <<>>
    /\ \A i \in DOMAIN steps : steps[i].ok
    /\ {steps[i].id : i \in DOMAIN steps} = {steps[1].id} \cup found.targets

-----------------------------------------------------------------------------
(***************************************************************************)
(* The module.  Adapters name the providers they bring into its scope; the *)
(* classes JobRepository and TransactionManager are aliased to the tokens  *)
(* when an adapter provides only those.                                    *)
(***************************************************************************)
Alias(providers, token, class) ==
    IF token \in providers THEN providers \cup {class} ELSE providers

BuildProviders(globalProviders) ==
    Alias(Alias(globalProviders, "JOB_REPOSITORY_TOKEN", "JobRepository"),
          "TRANSACTION_MANAGER_TOKEN", "TransactionManager")

PersistenceAdapter == {"JOB_REPOSITORY_TOKEN", "TRANSACTION_MANAGER_TOKEN"}

\* What JobLauncher, JobExecutor and ChunkStepExecutor ask Nest for.
Injected == {"JobRepository", "TransactionManager"}

Undefined == "undefined"

\* An async configuration's dependency is resolved only if it is a plain
\* value of an imported module; otherwise the factory is handed undefined.
ResolveInjectValues(config) == IF config.inject = "useValue" THEN config.transport ELSE Undefined

\* The host's useFactory, given the dependency it asked for: a factory that
\* does not look at it closely answers with its default transport.
UseFactory(config, value) == IF value = Undefined THEN config.fallback ELSE value

\* The transport whose module is imported: forRoot's, or what the factory
\* answers while the module is being built.
Wired(config) ==
    IF config.mode = "forRoot" THEN config.transport
    ELSE UseFactory(config, ResolveInjectValues(config))

\* MODULE_OPTIONS_TOKEN: in the async case the factory is run again by Nest,
\* with the dependency itself.
ModuleOptions(config) == IF config.mode = "forRoot" THEN config.transport
                         ELSE UseFactory(config, config.transport)

\* The module is built: the factory did not throw, and Nest finds a provider
\* for everything that is injected.
Builds(config) == Wired(config) # None /\ Injected \subseteq BuildProviders(PersistenceAdapter)
=============================================================================
